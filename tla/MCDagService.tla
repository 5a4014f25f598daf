---------------------------- MODULE MCDagService ----------------------------
EXTENDS DagService, TLC

Symmetry == Permutations(Requests) \cup Permutations(Jobs)
            \cup Permutations(Fields) \cup Permutations(Values)
=============================================================================
