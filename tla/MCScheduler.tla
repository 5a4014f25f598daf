---- MODULE MCScheduler ----
(* Two days of two ticks each and a schedule for every other tick. *)
EXTENDS Scheduler

Alternate == {[first |-> 1, step |-> 2]}
====
