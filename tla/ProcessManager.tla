--------------------------- MODULE ProcessManager ---------------------------
(***************************************************************************)
(* The registry of running processes, src/worker/process_manager.rs: a     *)
(* map from execution to its process behind one async RwLock.  A worker    *)
(* registers its run and keeps cancel_rx; the sender cancel_tx lives in    *)
(* the map entry, so cancel_rx also fires when the entry is dropped.       *)
(*                                                                         *)
(* cancel keeps the write lock while it waits out graceful_shutdown_       *)
(* seconds, so it is two actions and the others wait in between.           *)
(***************************************************************************)
CONSTANTS
    Executions,
    Workers,
    Nobody           \* no owner; no cancel in its grace period

VARIABLES
    processes,       \* per execution, who registered it and is its pid known
    terminating      \* the execution whose cancel holds the write lock

vars == <<processes, terminating>>

ProcessInfo == [owner : Workers \cup {Nobody}, pid : BOOLEAN]
NoProcess == [owner |-> Nobody, pid |-> FALSE]

Registered(e) == processes[e] # NoProcess
Unlocked == terminating = Nobody

(* cancel_rx of w's run of e is ready: the sender fired or was dropped. *)
CancelReady(e, w) == processes[e].owner # w

Init ==
    /\ processes = [e \in Executions |-> NoProcess]
    /\ terminating = Nobody

(* insert replaces, and so drops, an earlier registration of e *)
Register(e, w) ==
    /\ Unlocked
    /\ processes' = [processes EXCEPT ![e] = [owner |-> w, pid |-> FALSE]]
    /\ UNCHANGED terminating

(* update_pid runs in a task of its own, any time after the spawn *)
UpdatePid(e) ==
    /\ Unlocked
    /\ Registered(e)
    /\ ~processes[e].pid
    /\ processes' = [processes EXCEPT ![e].pid = TRUE]
    /\ UNCHANGED terminating

(* unregister removes the registration of e, whoever made it *)
Unregister(e) ==
    /\ Unlocked
    /\ processes' = [processes EXCEPT ![e] = NoProcess]
    /\ UNCHANGED terminating

(* cancel: remove, send; with a pid SIGTERM and sleep, lock in hand ... *)
Cancel(e) ==
    /\ Unlocked
    /\ processes' = [processes EXCEPT ![e] = NoProcess]
    /\ terminating' = IF processes[e].pid THEN e ELSE Nobody

(* ... then SIGKILL what is left and release *)
CancelDone(e) ==
    /\ terminating = e
    /\ terminating' = Nobody
    /\ UNCHANGED processes

Next ==
    \E e \in Executions :
        \/ \E w \in Workers : Register(e, w)
        \/ UpdatePid(e)
        \/ Unregister(e)
        \/ Cancel(e)
        \/ CancelDone(e)

Spec == Init /\ [][Next]_vars
=============================================================================
