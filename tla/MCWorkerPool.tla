---------------------------- MODULE MCWorkerPool ----------------------------
(* Small instances of WorkerPool; the configurations differ in what may go
   wrong.  One priority: what order the queue keeps is QueueManager's. *)
EXTENDS WorkerPool, TLC

MCPriorities == {0}

(* Executions and workers are only ever compared for equality. *)
Symmetry == Permutations(Executions) \cup Permutations(Workers)
=============================================================================
