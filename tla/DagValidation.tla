--------------------------- MODULE DagValidation ---------------------------
(***************************************************************************)
(* Kahn's algorithm, as DagService::validate_no_cycles and                 *)
(* DagService::topological_levels run it (services/dag_service.rs).  Both  *)
(* keep an in-degree per node and a queue of the nodes whose upstreams are *)
(* all sorted; the second also cuts the queue into levels, which changes   *)
(* nothing of what the first does, so one state machine stands for both.   *)
(*                                                                         *)
(* The order inside a level is the iteration order of a HashMap: any node  *)
(* of the current level may come next.                                     *)
(***************************************************************************)
EXTENDS Integers, FiniteSets, DagGraph

CONSTANT
    Graphs  \* the edge lists the two functions are called with

(* add_edge pushes its candidate unchecked, so one pair of jobs may carry two
   edges, told apart by their id; no edge leads from a job to itself. *)
ASSUME GraphsAssumption ==
    \A g \in Graphs : IsFiniteSet(g) /\ Nodes(g) \subseteq Jobs

VARIABLES
    graph,
    in_degree,
    queue,   \* the nodes of the current level still to pop
    next,    \* the nodes pushed while it is popped: the level after it
    level,   \* node -> its level, 0 while it is not sorted
    depth    \* the number of the current level

kahn_vars == <<graph, in_degree, queue, next, level, depth>>

Sorted == {n \in Nodes(graph) : level[n] # 0}
Into(S) == {e \in graph : e.downstream \in S}
OutOf(S) == {e \in graph : e.upstream \in S}

(* Mutant: a pair of jobs counts once, however many edges join it. *)
DroppedOnce(n, m) == IF OutOf({n}) \cap Into({m}) = {} THEN 0 ELSE 1

(* neighbours of n in adj, once per edge *)
Dropped(n, m) == Cardinality(OutOf({n}) \cap Into({m}))

KahnInit ==
    /\ graph \in Graphs
    /\ in_degree = [n \in Nodes(graph) |-> Cardinality(Into({n}))]
    /\ queue = {n \in Nodes(graph) : in_degree[n] = 0}
    /\ next = {}
    /\ level = [n \in Nodes(graph) |-> 0]
    /\ depth = 1

(* Mutant: a neighbour is pushed before its other upstreams are sorted. *)
PopAll(n) ==
    /\ n \in queue
    /\ queue' = queue \ {n}
    /\ level' = [level EXCEPT ![n] = depth]
    /\ in_degree' = [m \in Nodes(graph) |-> in_degree[m] - Dropped(n, m)]
    /\ next' = next \cup {m \in Nodes(graph) : Dropped(n, m) > 0}
    /\ UNCHANGED <<graph, depth>>

Pop(n) ==
    /\ n \in queue
    /\ queue' = queue \ {n}
    /\ level' = [level EXCEPT ![n] = depth]
    /\ in_degree' = [m \in Nodes(graph) |-> in_degree[m] - Dropped(n, m)]
    /\ next' = next \cup {m \in Nodes(graph) : Dropped(n, m) > 0 /\ in_degree'[m] = 0}
    /\ UNCHANGED <<graph, depth>>

NextLevel ==
    /\ queue = {}
    /\ next # {}
    /\ queue' = next
    /\ next' = {}
    /\ depth' = depth + 1
    /\ UNCHANGED <<graph, in_degree, level>>

(* Mutant: the loop waits for all nodes. *)
DoneWhenSorted == Sorted = Nodes(graph)

(* the queue is empty: both loops end, and the functions return *)
Done == queue = {} /\ next = {}

KahnNext == (\E n \in queue : Pop(n)) \/ NextLevel

(* The functions are synchronous loops: they run to their end. *)
Kahn == KahnInit /\ [][KahnNext]_kahn_vars /\ WF_kahn_vars(KahnNext)

(* sorted.len() = all_nodes.len(): no error is returned *)
Accepted == Cardinality(Sorted) = Cardinality(Nodes(graph))

-----------------------------------------------------------------------------
KahnTypeOK ==
    /\ IsFiniteSet(graph) /\ Nodes(graph) \subseteq Jobs
    /\ in_degree \in [Nodes(graph) -> Nat]
    /\ queue \subseteq Nodes(graph) /\ next \subseteq Nodes(graph)
    /\ level \in [Nodes(graph) -> Nat]
    /\ depth \in Nat \ {0}

(* When the loop ends, the edges are accepted exactly if they have no cycle:
   "Validate that edges have no cycles using Kahn's algorithm". *)
DecidesCycles == Done => (Accepted <=> ~Cyclic(graph))

(* An upstream is sorted before its downstream and in an earlier level, ... *)
LevelsRespectEdges ==
    \A e \in graph : level[e.downstream] # 0 =>
        level[e.upstream] # 0 /\ level[e.upstream] < level[e.downstream]

(* ... and above the first level each job has an upstream in the level right
   before its own ("BFS depth"). *)
LevelsAreTight ==
    \A n \in Nodes(graph) : level[n] > 1 =>
        \E u \in Upstreams(graph, n) : level[u] = level[n] - 1

(* The levels may run one after the other, and no job waits longer than the
   edges force it to. *)
LevelsAreRight == LevelsRespectEdges /\ LevelsAreTight

(* The loop ends for every graph, cyclic ones included. *)
Terminates == <>Done
=============================================================================
