------------------------------ MODULE DagGraph ------------------------------
(* The graph a set of edge rows describes, independently of any algorithm
   that reads it.  An edge is a record with fields upstream and downstream. *)

CONSTANT Jobs  \* what the edges join

Nodes(edges) == {e.upstream : e \in edges} \cup {e.downstream : e \in edges}

Upstreams(edges, n) == {e.upstream : e \in {d \in edges : d.downstream = n}}

(* A finite graph has a cycle iff some non-empty set of its nodes lets one
   walk upstream for ever: every member has an upstream inside the set. *)
ClosedUpstream(edges, S) == \A n \in S : Upstreams(edges, n) \cap S # {}

Cyclic(edges) == \E S \in SUBSET Nodes(edges) : S # {} /\ ClosedUpstream(edges, S)
=============================================================================
