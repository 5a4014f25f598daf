---- MODULE MCExecutionStream ----
(* A page of two entries stands for one of a hundred: an attempt writes up to
   four, so that both smaller and larger pages than a poll needs occur. *)
EXTENDS ExecutionStream
====
