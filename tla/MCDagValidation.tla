-------------------------- MODULE MCDagValidation --------------------------
(* The graphs over the given jobs that add_edge can hand to the validation:
   the stored edges, UNIQUE by pair, and one candidate that may repeat one. *)
EXTENDS DagValidation, FiniteSetsExt

CONSTANT MaxStored  \* bound: stored edges of one DAG

Pairs == {p \in Jobs \X Jobs : p[1] # p[2]}
StoredPairs == UNION {kSubset(k, Pairs) : k \in 0..MaxStored}
Edge(p, id) == [upstream |-> p[1], downstream |-> p[2], id |-> id]
Stored(ps) == {Edge(p, "stored") : p \in ps}
MCGraphs == {Stored(ps) : ps \in StoredPairs}
            \cup {Stored(ps) \cup {Edge(c, "candidate")} : ps \in StoredPairs, c \in Pairs}

(* Cyclic is the textbook notion: a walk along the edges comes back. *)
ASSUME CyclicMeansAClosedWalk ==
    \A ps \in StoredPairs :
        Cyclic(Stored(ps)) <=>
            \E k \in 1..Cardinality(Jobs) : \E walk \in [0..k -> Jobs] :
                walk[0] = walk[k] /\ \A i \in 1..k : <<walk[i - 1], walk[i]>> \in ps
=============================================================================
