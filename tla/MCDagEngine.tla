---------------------------- MODULE MCDagEngine ----------------------------
(* Runs of small DAGs.  Something has to run although no root ever succeeds, so
   every graph has an edge a cancelled root satisfies. *)
EXTENDS DagEngine

CONSTANTS a, b, c, d

Edge(u, v, k) == [upstream |-> u, downstream |-> v, condition |-> k]

Chain == {Edge(a, b, "always"), Edge(b, c, "success")}
SkipChain == {Edge(a, b, "always"), Edge(b, c, "skipped")}
FanOut == {Edge(a, b, "always"), Edge(a, c, "always")}
Join == {Edge(a, c, "always"), Edge(b, c, "always")}

WideFanOut == FanOut \cup {Edge(a, d, "always")}

RunGraphs == {Chain, SkipChain, FanOut, Join}
TurnGraphs == RunGraphs \ {FanOut}  \* bound: its runs are the many more
OverlapGraphs == {WideFanOut}

(* "Mark all non-terminal nodes as cancelled" (engine.rs:370); none of
   them should come back *)
CancelledStaysOver ==
    [][\A n \in Jobs : nodes[n].status = "cancelled" => nodes'[n].status \notin Active]_vars

(* bound: the behaviours in which no two threads start nodes at once *)
OneAtATime == ~AdvancesMeet
=============================================================================
