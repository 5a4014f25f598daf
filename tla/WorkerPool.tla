----------------------------- MODULE WorkerPool -----------------------------
(***************************************************************************)
(* The life of an execution: the API that creates, retries, cancels and    *)
(* deletes it (api/executions.rs, services/execution_service.rs), the      *)
(* worker loop that runs it (worker/pool.rs), the queue and the process    *)
(* registry both sides share, and the executions table none of them locks. *)
(*                                                                         *)
(* A step ends at an await that touches shared state.  A row is read in    *)
(* one step and written back whole in a later one wherever the code does   *)
(* so and the difference can be seen.                                      *)
(***************************************************************************)
EXTENDS Integers, FiniteSets

CONSTANTS
    Executions, Workers, Nobody, Priorities, MaxMemorySize, MaxTasks,
    JobPriority,       \* job.priority
    JobMaxRetries,     \* job.max_retries
    ConfigMaxRetries,  \* [queue] max_retries, used when the job is unreadable
    MaxRestarts,       \* bound: restarts of the server
    Faults             \* may the database fail and a client hang up?

ASSUME NobodyAssumption == Nobody \notin Executions \cup Workers
ASSUME QueueAssumption ==
    /\ IsFiniteSet(Executions) /\ Priorities \subseteq Int
    /\ MaxMemorySize \in Nat /\ MaxTasks \in Nat
ASSUME JobPriorityAssumption == JobPriority \in Priorities
ASSUME RetriesAssumption == JobMaxRetries \in Nat /\ ConfigMaxRetries \in Nat
ASSUME RestartsAssumption == MaxRestarts \in Nat /\ Faults \in BOOLEAN

VARIABLES
    memory_queue, job_queue, retry_tasks, submitted, held, retried, unrecorded,
    processes, terminating,
    executions,        \* the table
    client,            \* the request that submits an execution
    canceller,         \* the request that cancels it
    pc, row, result,   \* each worker: where it is, the row it read, its outcome
    restarts,
    touched,           \* executions a cancel or a queue retry ever acted on
    withdrawn          \* executions cancelled while they were only queued

queue_vars == <<memory_queue, job_queue, retry_tasks, submitted, held, retried, unrecorded>>
process_vars == <<processes, terminating>>
worker_vars == <<pc, row, result>>
api_vars == <<client, canceller>>
history_vars == <<touched, withdrawn>>
vars == <<queue_vars, process_vars, executions, api_vars, worker_vars, restarts, history_vars>>

Q == INSTANCE QueueManager
P == INSTANCE ProcessManager

-----------------------------------------------------------------------------
ExecutionStatus == {"pending", "running", "success", "failed", "timeout", "cancelled"}
Terminal == {"success", "failed", "timeout", "cancelled"}

(* completed: is completed_at set; "absent" is an execution without a row *)
Execution == [status : ExecutionStatus \cup {"absent"}, completed : BOOLEAN,
              retry_count : 0..JobMaxRetries]
NoExecution == [status |-> "absent", completed |-> FALSE, retry_count |-> 0]
NewExecution(n) == [status |-> "pending", completed |-> FALSE, retry_count |-> n]

Status(e) == executions[e].status
Exists(e) == Status(e) # "absent"
Goto(w, label) == pc' = [pc EXCEPT ![w] = label]
At(w, label) == pc[w] = label

Init ==
    /\ Q!Init
    /\ P!Init
    /\ executions = [e \in Executions |-> NoExecution]
    /\ client = [e \in Executions |-> "new"]
    /\ canceller = [e \in Executions |-> "idle"]
    /\ pc = [w \in Workers |-> "idle"]
    /\ row = [w \in Workers |-> NoExecution]
    /\ result = [w \in Workers |-> "none"]
    /\ restarts = 0
    /\ touched = {}
    /\ withdrawn = {}

-----------------------------------------------------------------------------
(* Submitting: the row is created first, the queue entry by a later await. *)

(* retry_execution: the new execution takes up the count of an old one. *)
CountsTakenUp ==
    {executions[old].retry_count + 1 : old \in
        {old \in Executions : /\ Status(old) \in {"failed", "timeout", "cancelled"}
                              /\ executions[old].retry_count < JobMaxRetries}}

(* create_execution, with a count of 0, or retry_execution *)
CreateExecution(e) ==
    /\ client[e] = "new"
    /\ client' = [client EXCEPT ![e] = "created"]
    /\ \E n \in {0} \cup CountsTakenUp : executions' = [executions EXCEPT ![e] = NewExecution(n)]
    /\ UNCHANGED <<queue_vars, process_vars, canceller, worker_vars, restarts, history_vars>>

Submit(e) ==
    /\ client[e] = "created"
    /\ Exists(e)
    /\ \E p \in Priorities : Q!Enqueue(e, p)
    /\ client' = [client EXCEPT ![e] = "served"]
    /\ UNCHANGED <<process_vars, executions, canceller, worker_vars, restarts, history_vars>>

(* The row is gone, so the INSERT breaks its foreign key, or it fails, or
   the client hung up in between: the execution stays out of the queue. *)
SubmitFails(e) ==
    /\ client[e] = "created"
    /\ ~Exists(e) \/ Faults
    /\ client' = [client EXCEPT ![e] = "served"]
    /\ UNCHANGED <<queue_vars, process_vars, executions, canceller, worker_vars, restarts, history_vars>>

(* delete_execution, delete_executions and the retention cleanup; the row's
   queue entry goes with it, whatever its state *)
DeleteExecution(e) ==
    /\ Exists(e)
    /\ executions' = [executions EXCEPT ![e] = NoExecution]
    /\ Q!CascadeDelete(e) \/ (~Q!HasEntry(e) /\ UNCHANGED queue_vars)
    /\ UNCHANGED <<process_vars, api_vars, worker_vars, restarts, history_vars>>

-----------------------------------------------------------------------------
(* Cancelling: four awaits, in this order. *)

CancelStep(e, from, to) ==
    /\ canceller[e] = from
    /\ canceller' = [canceller EXCEPT ![e] = to]

(* cancel_execution reads the row and accepts an unfinished execution ... *)
CancelRead(e) ==
    /\ CancelStep(e, "idle", "accepted")
    /\ Status(e) \in {"pending", "running"}
    /\ touched' = touched \cup {e}
    /\ UNCHANGED <<queue_vars, process_vars, executions, client, worker_vars, restarts, withdrawn>>

(* ... writes it back as cancelled, whatever it has become since ... *)
CancelWrite(e) ==
    /\ CancelStep(e, "accepted", "marked")
    /\ Exists(e)
    /\ executions' = [executions EXCEPT ![e].status = "cancelled", ![e].completed = TRUE]
    /\ UNCHANGED <<queue_vars, process_vars, client, worker_vars, restarts, history_vars>>

(* ... cancels the process, if one is registered ... *)
CancelProcess(e) ==
    /\ CancelStep(e, "marked", "signalled")
    /\ P!Cancel(e)
    /\ UNCHANGED <<queue_vars, executions, client, worker_vars, restarts, history_vars>>

CancelKilled(e) ==
    /\ P!CancelDone(e)
    /\ UNCHANGED <<queue_vars, executions, api_vars, worker_vars, restarts, history_vars>>

(* ... and removes the execution from the queue. *)
CancelRemove(e) ==
    /\ terminating # e
    /\ CancelStep(e, "signalled", "idle")
    /\ Q!Remove(e)
    /\ withdrawn' = IF Q!HasStatus(e, "queued") /\ e \notin retried
                    THEN withdrawn \cup {e} ELSE withdrawn
    /\ UNCHANGED <<process_vars, executions, client, worker_vars, restarts, touched>>

(* The row is gone, the request fails or the client hangs up: the steps so
   far stay done and the later ones never happen. *)
CancelFails(e) ==
    /\ \/ canceller[e] = "accepted" /\ ~Exists(e)
       \/ canceller[e] # "idle" /\ terminating # e /\ Faults
    /\ canceller' = [canceller EXCEPT ![e] = "idle"]
    /\ UNCHANGED <<queue_vars, process_vars, executions, client, worker_vars, restarts, history_vars>>

CancelRemoveFails(e) ==
    /\ Faults
    /\ terminating # e
    /\ CancelStep(e, "signalled", "idle")
    /\ Q!RemoveError(e)
    /\ UNCHANGED <<process_vars, executions, client, worker_vars, restarts, history_vars>>

-----------------------------------------------------------------------------
(* One round of a worker's loop. *)

WorkerMoves(w, from, to) == At(w, from) /\ Goto(w, to)

(* Mutant: a worker that forgets the overflow *)
DequeueHeapOnly(w) ==
    /\ WorkerMoves(w, "idle", "claimed")
    /\ Q!DequeueMemory(w)
    /\ UNCHANGED <<process_vars, executions, api_vars, row, result, restarts, history_vars>>

Dequeue(w) ==
    /\ WorkerMoves(w, "idle", "claimed")
    /\ Q!DequeueMemory(w) \/ Q!DequeueOverflow(w)
    /\ UNCHANGED <<process_vars, executions, api_vars, row, result, restarts, history_vars>>

DequeueFails(w) ==
    /\ Faults
    /\ At(w, "idle")
    /\ Q!DequeueError(w) \/ Q!DequeueUnreadable(w) \/ Q!DequeueStranded(w)
    /\ UNCHANGED <<process_vars, executions, api_vars, worker_vars, restarts, history_vars>>

(* set_execution_running reads the row, whatever its status ... *)
ReadRow(w) ==
    /\ WorkerMoves(w, "claimed", "starting")
    /\ Exists(held[w])
    /\ row' = [row EXCEPT ![w] = executions[held[w]]]
    /\ UNCHANGED <<queue_vars, process_vars, executions, api_vars, result, restarts, history_vars>>

(* ... writes it back as running, and reads it again. *)
WriteRunning(w) ==
    /\ WorkerMoves(w, "starting", "registering")
    /\ Exists(held[w])
    /\ executions' = [executions EXCEPT ![held[w]] = [row[w] EXCEPT !.status = "running"]]
    /\ row' = [row EXCEPT ![w] = NoExecution]
    /\ UNCHANGED <<queue_vars, process_vars, api_vars, result, restarts, history_vars>>

(* One of the three fails, the last one with the row written: mark_failed, whose
   own failure is ignored, and start over. *)
StartFails(w) ==
    /\ pc[w] \in {"claimed", "starting", "registering"}
    /\ ~Exists(held[w]) \/ Faults
    /\ Goto(w, "idle")
    /\ row' = [row EXCEPT ![w] = NoExecution]
    /\ Q!MarkFailed(w) \/ (Faults /\ Q!MarkError(w))
    /\ UNCHANGED <<process_vars, executions, api_vars, result, restarts, history_vars>>

Register(w) ==
    /\ WorkerMoves(w, "registering", "executing")
    /\ P!Register(held[w], w)
    /\ UNCHANGED <<queue_vars, executions, api_vars, row, result, restarts, history_vars>>

ReportPid(e) ==
    /\ P!UpdatePid(e)
    /\ UNCHANGED <<queue_vars, executions, api_vars, worker_vars, restarts, history_vars>>

(* select!: the process ends one way or another, a timeout included ... *)
ProcessEnds(w) ==
    /\ WorkerMoves(w, "executing", "executed")
    /\ \E outcome \in {"success", "failed", "timeout"} :
           result' = [result EXCEPT ![w] = outcome]
    /\ UNCHANGED <<queue_vars, process_vars, executions, api_vars, row, restarts, history_vars>>

(* ... or cancel_rx fires, the child is killed and the run has failed. *)
CancelReceived(w) ==
    /\ WorkerMoves(w, "executing", "executed")
    /\ P!CancelReady(held[w], w)
    /\ result' = [result EXCEPT ![w] = "failed"]
    /\ UNCHANGED <<queue_vars, process_vars, executions, api_vars, row, restarts, history_vars>>

(* Mutant: the run is not unregistered *)
UnregisterForgotten(w) ==
    /\ WorkerMoves(w, "executed", "reporting")
    /\ UNCHANGED <<queue_vars, process_vars, executions, api_vars, row, result, restarts, history_vars>>

Unregister(w) ==
    /\ WorkerMoves(w, "executed", "reporting")
    /\ P!Unregister(held[w])
    /\ UNCHANGED <<queue_vars, executions, api_vars, row, result, restarts, history_vars>>

(* Read the status; only a row read as cancelled is left alone. *)
CheckCancelled(w) ==
    /\ At(w, "reporting")
    /\ \/ Status(held[w]) = "cancelled" /\ Goto(w, "settling")
       \/ Status(held[w]) # "cancelled" /\ Goto(w, "finalizing")
       \/ Faults /\ Goto(w, "finalizing")
    /\ UNCHANGED <<queue_vars, process_vars, executions, api_vars, row, result, restarts, history_vars>>

(* finalize_execution writes the outcome without looking again. *)
Finalize(w) ==
    /\ WorkerMoves(w, "finalizing", "settling")
    /\ Exists(held[w])
    /\ executions' = [executions EXCEPT ![held[w]].status = result[w],
                                        ![held[w]].completed = TRUE]
    /\ UNCHANGED <<queue_vars, process_vars, api_vars, row, result, restarts, history_vars>>

FinalizeFails(w) ==
    /\ WorkerMoves(w, "finalizing", "settling")
    /\ ~Exists(held[w]) \/ Faults
    /\ UNCHANGED <<queue_vars, process_vars, executions, api_vars, row, result, restarts, history_vars>>

(* What mark_failed_with_retry is called with: the count and the limit the
   two rows hold, or 0 and the configured limit where a row is unreadable. *)
RetryCounts(e) == {executions[e].retry_count} \cup (IF Faults THEN {0} ELSE {})
RetryLimits(e) == (IF Exists(e) THEN {JobMaxRetries} ELSE {})
                    \cup (IF Exists(e) /\ ~Faults THEN {} ELSE {ConfigMaxRetries})

(* Mutant: the entry is completed whatever the outcome *)
SettleCompleted(w) ==
    /\ WorkerMoves(w, "settling", "idle")
    /\ result' = [result EXCEPT ![w] = "none"]
    /\ Q!MarkCompleted(w)
    /\ UNCHANGED <<process_vars, executions, api_vars, row, restarts, history_vars>>

Settle(w) ==
    /\ WorkerMoves(w, "settling", "idle")
    /\ result' = [result EXCEPT ![w] = "none"]
    /\ \/ result[w] = "success" /\ Q!MarkCompleted(w)
       \/ /\ result[w] # "success"
          /\ \E n \in RetryCounts(held[w]), max \in RetryLimits(held[w]) :
                 Q!MarkFailedWithRetry(w, n, max)
       \/ Faults /\ Q!MarkError(w)
    /\ touched' = touched \cup retried'
    /\ UNCHANGED <<process_vars, executions, api_vars, row, restarts, withdrawn>>

-----------------------------------------------------------------------------
(* Background tasks. *)

RetryTask(e) ==
    /\ \/ Q!RetryRequeue(e)
       \/ Faults /\ Q!RetryRequeueError(e)
       \/ Q!RetryPush(e, "requeued", JobPriority)
       \/ (~Exists(e) \/ Faults) /\ Q!RetryUnreadable(e, "requeued")
    /\ UNCHANGED <<process_vars, executions, api_vars, worker_vars, restarts, history_vars>>

Cleanup ==
    /\ Q!Cleanup
    /\ UNCHANGED <<process_vars, executions, api_vars, worker_vars, restarts, history_vars>>

(* Mutant: a start without recover *)
RestartForgotten ==
    /\ restarts < MaxRestarts
    /\ restarts' = restarts + 1
    /\ Q!StartUp
    /\ memory_queue' = {}
    /\ processes' = [e \in Executions |-> P!NoProcess]
    /\ terminating' = Nobody
    /\ client' = [e \in Executions |-> IF client[e] = "created" THEN "served" ELSE client[e]]
    /\ canceller' = [e \in Executions |-> "idle"]
    /\ pc' = [w \in Workers |-> "idle"]
    /\ row' = [w \in Workers |-> NoExecution]
    /\ result' = [w \in Workers |-> "none"]
    /\ UNCHANGED <<job_queue, unrecorded, executions, history_vars>>

(* Only the tables survive. *)
Restart ==
    /\ restarts < MaxRestarts
    /\ restarts' = restarts + 1
    /\ Q!Restart \/ (Faults /\ Q!RestartUnrecovered)
    /\ processes' = [e \in Executions |-> P!NoProcess]
    /\ terminating' = Nobody
    /\ client' = [e \in Executions |-> IF client[e] = "created" THEN "served" ELSE client[e]]
    /\ canceller' = [e \in Executions |-> "idle"]
    /\ pc' = [w \in Workers |-> "idle"]
    /\ row' = [w \in Workers |-> NoExecution]
    /\ result' = [w \in Workers |-> "none"]
    /\ UNCHANGED <<executions, history_vars>>

-----------------------------------------------------------------------------
Api(e) ==
    \/ CreateExecution(e)
    \/ Submit(e)
    \/ SubmitFails(e)
    \/ DeleteExecution(e)
    \/ CancelRead(e)
    \/ CancelWrite(e)
    \/ CancelProcess(e)
    \/ CancelKilled(e)
    \/ CancelRemove(e)
    \/ CancelFails(e)
    \/ CancelRemoveFails(e)

Worker(w) ==
    \/ Dequeue(w)
    \/ DequeueFails(w)
    \/ ReadRow(w)
    \/ WriteRunning(w)
    \/ StartFails(w)
    \/ Register(w)
    \/ ProcessEnds(w)
    \/ CancelReceived(w)
    \/ Unregister(w)
    \/ CheckCancelled(w)
    \/ Finalize(w)
    \/ FinalizeFails(w)
    \/ Settle(w)

Next ==
    \/ \E e \in Executions : Api(e) \/ ReportPid(e) \/ RetryTask(e)
    \/ \E w \in Workers : Worker(w)
    \/ Cleanup
    \/ Restart

Spec == Init /\ [][Next]_vars

(* A worker never stops polling and every process ends, by its timeout if
   need be; an accepted request and a spawned retry run to their end. *)
Fairness ==
    /\ \A w \in Workers : WF_vars(Worker(w))
    /\ \A e \in Executions :
        /\ WF_vars(Submit(e) \/ SubmitFails(e))
        /\ WF_vars(CancelWrite(e) \/ CancelProcess(e) \/ CancelKilled(e) \/ CancelRemove(e)
                     \/ CancelFails(e))
        /\ WF_vars(RetryTask(e))

FairSpec == Spec /\ Fairness

-----------------------------------------------------------------------------
(* The variables hold values of their types, and a worker holds an execution
   exactly while it is not polling. *)
TypeOK ==
    /\ Q!TypeOK
    /\ processes \in [Executions -> P!ProcessInfo]
    /\ terminating \in Executions \cup {Nobody}
    /\ executions \in [Executions -> Execution]
    /\ client \in [Executions -> {"new", "created", "served"}]
    /\ canceller \in [Executions -> {"idle", "accepted", "marked", "signalled"}]
    /\ pc \in [Workers -> {"idle", "claimed", "starting", "registering", "executing",
                           "executed", "reporting", "finalizing", "settling"}]
    /\ row \in [Workers -> Execution]
    /\ result \in [Workers -> {"none", "success", "failed", "timeout"}]
    /\ restarts \in 0..MaxRestarts
    /\ touched \in SUBSET Executions
    /\ withdrawn \in SUBSET Executions
    /\ \A w \in Workers : At(w, "idle") <=> held[w] = Nobody

(* The API, the workers and the tasks use the queue only through its
   operations: every step is a step of QueueManager or leaves it alone, so
   what is proved of the queue holds here. *)
QueueSpec == Q!Spec

(* Though unregister and cancel go by execution and not by worker, whoever is
   registered for an execution has it in hand and is executing it, or about to
   unregister: a registration of one run is never taken for another's, and none
   is left when the worker reports.  (Between the end of the process and
   unregister, pool.rs:135-156, a cancel does signal a process that is gone.) *)
RegistrationsAreLive ==
    \A e \in Executions, w \in Workers : processes[e].owner = w =>
        held[w] = e /\ pc[w] \in {"executing", "executed"}

(* A run is killed only on purpose: a worker whose cancel_rx can fire has an
   execution that was cancelled, or that the queue had put back. *)
KilledOnPurpose ==
    \A w \in Workers : At(w, "executing") /\ P!CancelReady(held[w], w) => held[w] \in touched

(* What makes these two inductive: a run that is over has an outcome, and
   whatever the queue put back or a cancel is working on is touched. *)
OutcomeKnown ==
    \A w \in Workers : pc[w] \in {"executed", "reporting", "finalizing", "settling"} =>
        result[w] # "none"
PutBackIsTouched == retried \subseteq touched
CancelsAreTouched == \A e \in Executions : canceller[e] # "idle" => e \in touched
IInv ==
    /\ TypeOK /\ OutcomeKnown /\ PutBackIsTouched /\ CancelsAreTouched
    /\ RegistrationsAreLive /\ KilledOnPurpose

(* An execution cancelled while it waits in the queue never runs: neither a
   heap item, an overflow row nor a restart brings it back. *)
WithdrawnNeverRuns ==
    \A e \in withdrawn : Status(e) \in {"cancelled", "absent"} /\ ~Q!Busy(e)

(* The two tables agree on every execution nobody cancelled or put back,
   across restarts: a completed entry is a success, a dead letter a failure,
   a running row has a worker or an entry that will run it again, and a
   pending one in the queue is still to be run. *)
TablesAgree ==
    \A e \in Executions : Exists(e) /\ e \notin touched =>
        /\ Q!HasStatus(e, "completed") => Status(e) = "success"
        /\ Q!HasStatus(e, "dead_letter") => Status(e) \in {"failed", "timeout"}
                                          /\ executions[e].retry_count >= JobMaxRetries
        /\ ~Q!HasStatus(e, "failed")
        /\ Status(e) = "running" => Q!Busy(e) \/ Q!HasStatus(e, "queued")
        /\ Status(e) = "pending" /\ e \in submitted => Q!Busy(e) \/ Q!HasStatus(e, "queued")

(* Nothing is given up that had a retry left: an execution, retried or not,
   is in the dead letter queue only if it was created with its last one. *)
OnlySpentOnesAreDead ==
    \A e \in Executions : Exists(e) /\ Q!HasStatus(e, "dead_letter") =>
        executions[e].retry_count >= JobMaxRetries

(* Every execution that enters the queue comes to an end or is deleted, over
   a restart too; only one whose cancel removed its entry and lost the race
   for its row may be left running when the server stops. *)
EveryExecutionEnds ==
    \A e \in Executions : e \in submitted ~>
        Status(e) \in Terminal \cup {"absent"} \/ (e \in touched /\ restarts > 0)

-----------------------------------------------------------------------------
(* manager.rs:117 and db/queue.rs:159: dequeuing prevents a double dequeue,
   so no two workers run one execution at a time. *)
NoDoubleRun ==
    \A v, w \in Workers : held[v] = held[w] /\ held[v] # Nobody => v = w

(* pool.rs:186, "respect pre-existing cancellation", and the second cancel of
   cancellation_tests.rs:175 that fails because cancelled is terminal: a
   cancelled row stays cancelled until it is deleted. *)
CancelledIsFinal ==
    [][\A e \in Executions : Status(e) = "cancelled" =>
           Status(e)' \in {"cancelled", "absent"}]_vars

(* README.md:10 and 152: a job that keeps failing exhausts max_retries and
   its entry moves to the dead letter queue, or it settles before. *)
RetriesAreExhausted ==
    \A e \in Executions : e \in submitted ~> Q!Settled(job_queue, e)
=============================================================================
