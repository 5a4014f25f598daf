-------------------------- MODULE ScheduleContract --------------------------
(***************************************************************************)
(* What a cron schedule promises its owner, whatever rows and loops keep   *)
(* it: an occurrence is never run early and, as long as what was run is on *)
(* record, at most once and in order.                                      *)
(***************************************************************************)
EXTENDS Integers

CONSTANT Schedules

VARIABLES
    now,   \* the clock
    last,  \* the latest occurrence of each schedule that was run, or 0
    runs,  \* the parity of the number of executions it has started
    lapsed \* schedules whose record of what was run has been lost

vars == <<now, last, runs, lapsed>>

Init ==
    /\ now = 0
    /\ last = [s \in Schedules |-> 0]
    /\ runs = [s \in Schedules |-> 0]
    /\ lapsed = {}

TimePasses ==
    /\ now' > now
    /\ UNCHANGED <<last, runs, lapsed>>

Occurs(s, o) ==
    /\ last[s] < o \/ s \in lapsed
    /\ o <= now
    /\ last' = [last EXCEPT ![s] = o]
    /\ runs' = [runs EXCEPT ![s] = 1 - @]
    /\ UNCHANGED <<now, lapsed>>

Lapses(s) ==
    /\ lapsed' = lapsed \cup {s}
    /\ UNCHANGED <<now, last, runs>>

Next ==
    \/ TimePasses
    \/ \E s \in Schedules : Lapses(s) \/ \E o \in 0..now : Occurs(s, o)

Spec == Init /\ [][Next]_vars
=============================================================================
