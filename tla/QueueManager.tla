---------------------------- MODULE QueueManager ----------------------------
(***************************************************************************)
(* The job queue of src/queue/manager.rs over the job_queue table of       *)
(* src/db/queue.rs: an in-memory binary heap of at most MaxMemorySize      *)
(* items in front of an SQLite table that holds one row per execution.     *)
(*                                                                         *)
(* The heap is guarded by one async mutex; the table is not.  One action   *)
(* is one section of code no other task can observe half-way: enqueue,     *)
(* dequeue, remove and recover hold the mutex from their first effect to   *)
(* their last, and the effect of a mark_* call is its single UPDATE.  The  *)
(* delayed retry and retry_dead_letter reset the row first and lock the    *)
(* heap later, so each of them is two actions.                             *)
(*                                                                         *)
(* The client is a set of workers, each holding at most one execution it   *)
(* was handed.  A row's timestamps other than queued_at follow its status  *)
(* and are left out.                                                       *)
(***************************************************************************)
EXTENDS Integers, FiniteSets

CONSTANTS
    Executions,      \* execution ids: each is enqueued at most once
    Workers,         \* the tasks that dequeue
    Nobody,          \* what an idle worker holds
    Priorities,      \* i32 priorities, a larger one is more urgent
    MaxMemorySize,   \* [queue] max_size of config.toml
    MaxTasks         \* bound: delayed pushes in flight per execution

ASSUME ExecutionsAssumption == IsFiniteSet(Executions) /\ Nobody \notin Executions
ASSUME PrioritiesAssumption == Priorities \subseteq Int
ASSUME BoundsAssumption == MaxMemorySize \in Nat /\ MaxTasks \in Nat

VARIABLES
    memory_queue,    \* the BinaryHeap, as a set of items
    job_queue,       \* the table, keyed by its UNIQUE execution_id
    retry_tasks,     \* spawned retries, by execution and stage
    submitted,       \* executions an enqueue has inserted
    held,            \* what each worker was handed and has not settled
    retried,         \* executions put back since the last start
    unrecorded       \* executions whose last status write failed

vars == <<memory_queue, job_queue, retry_tasks, submitted, held, retried, unrecorded>>

-----------------------------------------------------------------------------
QueueStatus == {"queued", "processing", "completed", "failed", "dead_letter"}

(* "absent" stands for an execution without a row. *)
QueueEntry == [status : QueueStatus \cup {"absent"}, priority : Int, queued_at : Nat]
NoEntry == [status |-> "absent", priority |-> 0, queued_at |-> 0]

(* Two items of one execution may sit in the heap: copy tells them apart. *)
QueueItem == [execution_id : Executions, priority : Int, copy : Nat]

(* The stages of a delayed push: waiting out retry_delay_seconds, row reset
   by the retry task, row reset by retry_dead_letter. *)
RetryStages == {"sleeping", "requeued", "revived"}

HasStatus(e, s) == job_queue[e].status = s
HasEntry(e) == ~HasStatus(e, "absent")
Queued == {e \in Executions : HasStatus(e, "queued")}
Copies(e, p) == {i \in memory_queue : i.execution_id = e /\ i.priority = p}
Busy(e) == \E w \in Workers : held[w] = e

(* UPDATE job_queue SET status = s ... WHERE id = ?: no row, no effect. *)
SetStatus(e, s) ==
    job_queue' = [job_queue EXCEPT
        ![e].status = IF @ = "absent" THEN "absent" ELSE s]

DeleteEntry(e) == job_queue' = [job_queue EXCEPT ![e] = NoEntry]

(* Mutant: a capacity test that is off by one *)
HeapPushPastLimit(e, p) ==
    memory_queue' =
        IF Cardinality(memory_queue) <= MaxMemorySize
        THEN memory_queue \cup
                {[execution_id |-> e, priority |-> p,
                  copy |-> Cardinality(Copies(e, p)) + 1]}
        ELSE memory_queue

(* push if there is room, else leave the row to the overflow path *)
HeapPush(e, p) ==
    memory_queue' =
        IF Cardinality(memory_queue) < MaxMemorySize
        THEN memory_queue \cup
                {[execution_id |-> e, priority |-> p,
                  copy |-> Cardinality(Copies(e, p)) + 1]}
        ELSE memory_queue

(* Items the heap may pop: equal priorities are ordered by random uuid, and
   of equal items the one added last goes first. *)
HeapTop ==
    {i \in memory_queue :
        /\ \A j \in memory_queue : j.priority <= i.priority
        /\ i.copy = Cardinality(Copies(i.execution_id, i.priority))}

(* ORDER BY priority DESC, queued_at ASC *)
Precedes(q, d, e) ==
    \/ q[d].priority > q[e].priority
    \/ q[d].priority = q[e].priority /\ q[d].queued_at <= q[e].queued_at

Spawn(e, stage) ==
    /\ retry_tasks[e][stage] < MaxTasks
    /\ retry_tasks' = [retry_tasks EXCEPT ![e][stage] = @ + 1]
    /\ retried' = retried \cup {e}

Finish(e, stage) ==
    /\ retry_tasks[e][stage] > 0
    /\ retry_tasks' = [retry_tasks EXCEPT ![e][stage] = @ - 1]

Release(w) == held' = [held EXCEPT ![w] = Nobody]

-----------------------------------------------------------------------------
Init ==
    /\ memory_queue = {}
    /\ job_queue = [e \in Executions |-> NoEntry]
    /\ retry_tasks = [e \in Executions |-> [s \in RetryStages |-> 0]]
    /\ submitted = {}
    /\ held = [w \in Workers |-> Nobody]
    /\ retried = {}
    /\ unrecorded = {}

(* enqueue: INSERT the row, then push, under the mutex *)
Enqueue(e, p) ==
    /\ e \notin submitted
    /\ submitted' = submitted \cup {e}
    /\ job_queue' = [job_queue EXCEPT ![e] =
           [status |-> "queued", priority |-> p, queued_at |-> Cardinality(submitted)]]
    /\ HeapPush(e, p)
    /\ UNCHANGED <<retry_tasks, held, retried, unrecorded>>

(* Mutant: the fast path pops without marking the row *)
DequeueMemoryUnmarked(w) ==
    /\ held[w] = Nobody
    /\ \E i \in HeapTop :
        /\ memory_queue' = memory_queue \ {i}
        /\ held' = [held EXCEPT ![w] = i.execution_id]
    /\ UNCHANGED <<job_queue, retry_tasks, submitted, retried, unrecorded>>

(* dequeue, fast path: pop, then mark the row processing if there is one *)
DequeueMemory(w) ==
    /\ held[w] = Nobody
    /\ \E i \in HeapTop :
        /\ memory_queue' = memory_queue \ {i}
        /\ SetStatus(i.execution_id, "processing")
        /\ held' = [held EXCEPT ![w] = i.execution_id]
    /\ UNCHANGED <<retry_tasks, submitted, retried, unrecorded>>

(* dequeue, fast path, a database error after the pop: the item is dropped *)
DequeueError(w) ==
    /\ held[w] = Nobody
    /\ \E i \in HeapTop : memory_queue' = memory_queue \ {i}
    /\ UNCHANGED <<job_queue, retry_tasks, submitted, held, retried, unrecorded>>

(* dequeue, slow path: UPDATE ... WHERE id = (SELECT the first) RETURNING *)
FirstQueued(e) == e \in Queued /\ \A d \in Queued : Precedes(job_queue, e, d)

(* Mutant: a SELECT whose UPDATE is left to the worker *)
DequeueOverflowUnmarked(w) ==
    /\ held[w] = Nobody
    /\ memory_queue = {}
    /\ \E e \in Queued : FirstQueued(e) /\ held' = [held EXCEPT ![w] = e]
    /\ UNCHANGED <<memory_queue, job_queue, retry_tasks, submitted, retried, unrecorded>>

DequeueOverflow(w) ==
    /\ held[w] = Nobody
    /\ memory_queue = {}
    /\ \E e \in Queued :
        /\ FirstQueued(e)
        /\ SetStatus(e, "processing")
        /\ held' = [held EXCEPT ![w] = e]
    /\ UNCHANGED <<memory_queue, retry_tasks, submitted, retried, unrecorded>>

(* dequeue, slow path, reconstruct_item fails: the row is marked failed *)
DequeueUnreadable(w) ==
    /\ held[w] = Nobody
    /\ memory_queue = {}
    /\ \E e \in Queued : FirstQueued(e) /\ SetStatus(e, "failed")
    /\ UNCHANGED <<memory_queue, retry_tasks, submitted, held, retried, unrecorded>>

(* ... or that write fails too and the row keeps the status it was given. *)
DequeueStranded(w) ==
    /\ held[w] = Nobody
    /\ memory_queue = {}
    /\ \E e \in Queued :
        /\ FirstQueued(e)
        /\ SetStatus(e, "processing")
        /\ unrecorded' = unrecorded \cup {e}
    /\ UNCHANGED <<memory_queue, retry_tasks, submitted, held, retried>>

(* Mutant: remove only deletes the row *)
RemoveRow(e) ==
    /\ DeleteEntry(e)
    /\ UNCHANGED <<memory_queue, retry_tasks, submitted, held, retried, unrecorded>>

(* remove: drop the items and the row, under the mutex *)
Remove(e) ==
    /\ memory_queue' = {i \in memory_queue : i.execution_id # e}
    /\ DeleteEntry(e)
    /\ UNCHANGED <<retry_tasks, submitted, held, retried, unrecorded>>

(* remove, the DELETE fails: the items are gone, the row stays *)
RemoveError(e) ==
    /\ memory_queue' = {i \in memory_queue : i.execution_id # e}
    /\ UNCHANGED <<job_queue, retry_tasks, submitted, held, retried, unrecorded>>

-----------------------------------------------------------------------------
(* A worker settles what it holds. *)

MarkCompleted(w) ==
    /\ held[w] # Nobody
    /\ SetStatus(held[w], "completed")
    /\ Release(w)
    /\ UNCHANGED <<memory_queue, retry_tasks, submitted, retried, unrecorded>>

MarkFailed(w) ==
    /\ held[w] # Nobody
    /\ SetStatus(held[w], "failed")
    /\ Release(w)
    /\ UNCHANGED <<memory_queue, retry_tasks, submitted, retried, unrecorded>>

(* mark_failed_with_retry: retries remain and the row exists, so a task is
   spawned, or the row, if any, moves to the dead letter queue. *)
MarkFailedWithRetry(w, retry_count, max_retries) ==
    /\ held[w] # Nobody
    /\ IF retry_count < max_retries /\ HasEntry(held[w])
       THEN Spawn(held[w], "sleeping") /\ UNCHANGED job_queue
       ELSE SetStatus(held[w], "dead_letter") /\ UNCHANGED <<retry_tasks, retried>>
    /\ Release(w)
    /\ UNCHANGED <<memory_queue, submitted, unrecorded>>

(* Any of the three fails in the database: the worker only logs it. *)
MarkError(w) ==
    /\ held[w] # Nobody
    /\ unrecorded' = unrecorded \cup {held[w]}
    /\ Release(w)
    /\ UNCHANGED <<memory_queue, job_queue, retry_tasks, submitted, retried>>

-----------------------------------------------------------------------------
(* The spawned retry task, after its delay: requeue the row ... *)
RetryRequeue(e) ==
    /\ retry_tasks[e]["sleeping"] > 0 /\ retry_tasks[e]["requeued"] < MaxTasks
    /\ retry_tasks' = [retry_tasks EXCEPT ![e]["sleeping"] = @ - 1,
                                          ![e]["requeued"] = @ + 1]
    /\ SetStatus(e, "queued")
    /\ UNCHANGED <<memory_queue, submitted, held, retried, unrecorded>>

(* ... or give up when that fails, leaving the row as it is ... *)
RetryRequeueError(e) ==
    /\ Finish(e, "sleeping")
    /\ unrecorded' = unrecorded \cup {e}
    /\ UNCHANGED <<memory_queue, job_queue, submitted, held, retried>>

(* ... then lock the heap and push, with the job's current priority; the
   revived stage is the same push of retry_dead_letter. *)
RetryPush(e, stage, p) ==
    /\ Finish(e, stage)
    /\ HeapPush(e, p)
    /\ UNCHANGED <<job_queue, submitted, held, retried, unrecorded>>

(* The execution or its job cannot be read: nothing is pushed. *)
RetryUnreadable(e, stage) ==
    /\ Finish(e, stage)
    /\ UNCHANGED <<memory_queue, job_queue, submitted, held, retried, unrecorded>>

(* retry_dead_letter up to its requeue *)
RetryDeadLetter(e) ==
    /\ HasStatus(e, "dead_letter")
    /\ SetStatus(e, "queued")
    /\ Spawn(e, "revived")
    /\ UNCHANGED <<memory_queue, submitted, held, unrecorded>>

-----------------------------------------------------------------------------
(* Deleting the execution or its job cascades to the row, not to the heap. *)
CascadeDelete(e) ==
    /\ HasEntry(e)
    /\ DeleteEntry(e)
    /\ UNCHANGED <<memory_queue, retry_tasks, submitted, held, retried, unrecorded>>

(* cleanup_old: some completed and failed rows are older than the cutoff *)
Cleanup ==
    /\ \E old \in SUBSET {e \in Executions : job_queue[e].status \in {"completed", "failed"}} :
        /\ old # {}
        /\ job_queue' = [e \in Executions |-> IF e \in old THEN NoEntry ELSE job_queue[e]]
    /\ UNCHANGED <<memory_queue, retry_tasks, submitted, held, retried, unrecorded>>

(* Mutants: a start that resets nothing, and one that resets failures too *)
ResetNothing(entry) == entry
ResetFailures(entry) ==
    IF entry.status \in {"processing", "failed"} THEN [entry EXCEPT !.status = "queued"] ELSE entry

(* The server stops anywhere and starts again.  Heap, workers and tasks are
   gone; recover resets processing rows and loads the first queued ones that
   it can read until the heap is full. *)
Reset(entry) == IF entry.status = "processing" THEN [entry EXCEPT !.status = "queued"] ELSE entry

Recovered(q) ==
    {[execution_id |-> e, priority |-> q[e].priority, copy |-> 1] :
        e \in {d \in Executions : q[d].status = "queued"}}

RecoverLoad(q) ==
    \E readable \in SUBSET Recovered(q) : \E loaded \in SUBSET readable :
        /\ Cardinality(loaded) <= MaxMemorySize
        /\ loaded = readable \/ Cardinality(loaded) = MaxMemorySize
        /\ \A i \in loaded, j \in readable \ loaded :
               Precedes(q, i.execution_id, j.execution_id)
        /\ memory_queue' = loaded

StartUp ==
    /\ retry_tasks' = [e \in Executions |-> [s \in RetryStages |-> 0]]
    /\ held' = [w \in Workers |-> Nobody]
    /\ retried' = {}
    /\ UNCHANGED submitted

Restart ==
    /\ StartUp
    /\ job_queue' = [e \in Executions |-> Reset(job_queue[e])]
    /\ RecoverLoad(job_queue')
    /\ unrecorded' = {}

(* recover fails in the reset, which main.rs only logs: the heap is empty
   and the rows that were processing stay so. *)
RestartUnrecovered ==
    /\ StartUp
    /\ memory_queue' = {}
    /\ unrecorded' = {e \in Executions : HasStatus(e, "processing")}
    /\ UNCHANGED job_queue

-----------------------------------------------------------------------------
WorkerStep(w) ==
    \/ DequeueMemory(w)
    \/ DequeueError(w)
    \/ DequeueOverflow(w)
    \/ DequeueUnreadable(w)
    \/ DequeueStranded(w)
    \/ MarkCompleted(w)
    \/ MarkFailed(w)
    \/ \E retry_count, max_retries \in 0..1 : MarkFailedWithRetry(w, retry_count, max_retries)
    \/ MarkError(w)

QueueStep(e) ==
    \/ \E p \in Priorities : Enqueue(e, p)
    \/ Remove(e)
    \/ RemoveError(e)
    \/ RetryRequeue(e)
    \/ RetryRequeueError(e)
    \/ \E stage \in {"requeued", "revived"} :
           \/ \E p \in Priorities : RetryPush(e, stage, p)
           \/ RetryUnreadable(e, stage)
    \/ RetryDeadLetter(e)
    \/ CascadeDelete(e)

Next ==
    \/ \E w \in Workers : WorkerStep(w)
    \/ \E e \in Executions : QueueStep(e)
    \/ Cleanup
    \/ Restart
    \/ RestartUnrecovered

Spec == Init /\ [][Next]_vars

-----------------------------------------------------------------------------
(* The variables hold values of their types. *)
TypeOK ==
    /\ memory_queue \in SUBSET QueueItem
    /\ IsFiniteSet(memory_queue)
    /\ job_queue \in [Executions -> QueueEntry]
    /\ retry_tasks \in [Executions -> [RetryStages -> 0..MaxTasks]]
    /\ submitted \in SUBSET Executions
    /\ held \in [Workers -> Executions \cup {Nobody}]
    /\ retried \in SUBSET Executions
    /\ unrecorded \in SUBSET Executions

(* The heap never outgrows max_memory_size, although enqueue, the delayed
   retry, retry_dead_letter and recover all push into it and each checks
   the length on its own. *)
MemoryBounded == Cardinality(memory_queue) <= MaxMemorySize

(* Nothing is stranded in "processing", the one status no dequeue looks at:
   such a row is a worker's, or a sleeping retry will requeue it, or a write
   about it failed and only the reset of recover can bring it back. *)
Owned(e) == Busy(e) \/ retry_tasks[e]["sleeping"] > 0 \/ e \in unrecorded
ProcessingIsOwned == \A e \in Executions : HasStatus(e, "processing") => Owned(e)

(* Two-level storage without double delivery: an execution that was not put
   back since the last start is in the heap once or with one worker, never
   both, and its row says which, so that the overflow path cannot hand out
   what the heap or a worker already has. *)
OneHolder(e) == \A v, w \in Workers : held[v] = e /\ held[w] = e => v = w
OneItem(e) == \A i, j \in memory_queue : i.execution_id = e /\ j.execution_id = e => i = j
ItemIsWaiting(e) == \A i \in memory_queue : i.execution_id = e =>
                        ~Busy(e) /\ job_queue[e].status \in {"queued", "absent"}
HolderIsProcessing(e) == Busy(e) => job_queue[e].status \in {"processing", "absent"}
DeliveredOnce(e) == OneHolder(e) /\ OneItem(e) /\ ItemIsWaiting(e) /\ HolderIsProcessing(e)

SingleDelivery == \A e \in Executions \ retried : DeliveredOnce(e)

(* A settled row stays settled, across restarts too, unless the execution
   is deliberately put back: no stale heap item, late worker, recovery or
   overflow dequeue reopens it. *)
Settled(q, e) == q[e].status \in {"completed", "failed", "dead_letter", "absent"}
SettledStaysSettled ==
    \A e \in submitted : Settled(job_queue, e) =>
        \/ job_queue'[e].status \in {job_queue[e].status, "absent"}
        \/ e \in retried \cup retried'
SettledIsFinal == [][SettledStaysSettled]_vars

(* What makes SingleDelivery inductive: the queue knows nothing of an
   execution before its enqueue, and only an execution that was put back has
   a delayed push. *)
Unknown(e) ==
    /\ HasStatus(e, "absent") /\ ~Busy(e) /\ e \notin retried
    /\ \A i \in memory_queue : i.execution_id # e
UnknownBefore == \A e \in Executions \ submitted : Unknown(e)
TasksArePutBack ==
    \A e \in Executions, s \in RetryStages : retry_tasks[e][s] > 0 => e \in retried
IInv == TypeOK /\ MemoryBounded /\ UnknownBefore /\ TasksArePutBack /\ SingleDelivery

-----------------------------------------------------------------------------
(* manager.rs:115 says that dequeue hands out the highest-priority item:
   no queued row is more urgent than the one a worker is given. *)
HighestPriorityFirst ==
    [][\A w \in Workers : held[w] = Nobody /\ held'[w] # Nobody =>
           \A d \in Queued : job_queue[d].priority <= job_queue[held'[w]].priority]_vars
=============================================================================
