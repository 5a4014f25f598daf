--------------------------- MODULE MCQueueManager ---------------------------
(* A small instance of QueueManager: more executions than the heap holds, so
   that the overflow path is used, and two workers racing on it. *)
EXTENDS QueueManager, TLC

MCPriorities == 0..1

(* Executions and workers are only ever compared for equality. *)
Symmetry == Permutations(Executions) \cup Permutations(Workers)
=============================================================================
