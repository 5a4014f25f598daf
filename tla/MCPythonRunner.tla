---- MODULE MCPythonRunner ----
(* Three lines through pipes and a channel of one: every writer and every
   reader can be held up by the next one. *)
EXTENDS PythonRunner
====
