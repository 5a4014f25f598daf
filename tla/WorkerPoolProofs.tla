-------------------------- MODULE WorkerPoolProofs --------------------------
(* What is proved of WorkerPool: it implements the specification of the queue
   and so inherits the queue's theorems, registrations in the process manager
   never outlive their run, and no run is killed but on purpose. *)
EXTENDS WorkerPool, TLAPS

-----------------------------------------------------------------------------
(* A retry decision depends on its two numbers only through their order, so
   whatever the rows hold it is one of the decisions the queue describes. *)
LEMMA RetryDecision ==
    ASSUME NEW w \in Workers, NEW n, NEW max, Q!MarkFailedWithRetry(w, n, max)
    PROVE  \E retry_count, max_retries \in 0..1 :
               Q!MarkFailedWithRetry(w, retry_count, max_retries)
<1>1. CASE n < max
  <2>1. 0 < 1
    OBVIOUS
  <2>2. Q!MarkFailedWithRetry(w, 0, 1)
    BY <1>1, <2>1 DEF Q!MarkFailedWithRetry
  <2>. QED BY <2>2
<1>2. CASE ~(n < max)
  <2>1. ~(0 < 0)
    OBVIOUS
  <2>2. Q!MarkFailedWithRetry(w, 0, 0)
    BY <1>2, <2>1 DEF Q!MarkFailedWithRetry
  <2>. QED BY <2>2
<1>. QED BY <1>1, <1>2

(* What a request does to the queue is a step of the queue, or nothing. *)
LEMMA ApiStep ==
    ASSUME NEW e \in Executions, Api(e)
    PROVE  Q!QueueStep(e) \/ UNCHANGED queue_vars
<1>1. CASE Submit(e)
  BY <1>1 DEF Submit, Q!QueueStep
<1>2. CASE DeleteExecution(e)
  BY <1>2 DEF DeleteExecution, Q!QueueStep
<1>3. CASE CancelRemove(e)
  BY <1>3 DEF CancelRemove, Q!QueueStep
<1>4. CASE CancelRemoveFails(e)
  BY <1>4 DEF CancelRemoveFails, Q!QueueStep
<1>. QED BY <1>1, <1>2, <1>3, <1>4
         DEF Api, CreateExecution, SubmitFails, CancelRead, CancelWrite,
             CancelProcess, CancelKilled, CancelFails

(* So is what a round of a worker's loop does to it. *)
LEMMA WorkerIsQueueStep ==
    ASSUME NEW w \in Workers, Worker(w)
    PROVE  Q!WorkerStep(w) \/ UNCHANGED queue_vars
<1>1. CASE Dequeue(w)
  BY <1>1 DEF Dequeue, Q!WorkerStep
<1>2. CASE DequeueFails(w)
  BY <1>2 DEF DequeueFails, Q!WorkerStep
<1>3. CASE StartFails(w)
  BY <1>3 DEF StartFails, Q!WorkerStep
<1>4. CASE Settle(w)
  <2>1. \/ Q!MarkCompleted(w) \/ Q!MarkError(w)
        \/ \E n, max : Q!MarkFailedWithRetry(w, n, max)
    BY <1>4 DEF Settle
  <2>. QED BY <2>1, RetryDecision DEF Q!WorkerStep
<1>. QED BY <1>1, <1>2, <1>3, <1>4
         DEF Worker, ReadRow, WriteRunning, Register, ProcessEnds, CancelReceived, Unregister,
             CheckCancelled, Finalize, FinalizeFails

(* So is what the background tasks do to it. *)
LEMMA RetryTaskIsQueueStep ==
    ASSUME NEW e \in Executions, RetryTask(e)
    PROVE  Q!QueueStep(e)
BY JobPriorityAssumption DEF RetryTask, Q!QueueStep

(* Without a restart nothing does more to the queue than these. *)
LEMMA QueueStepOfRun ==
    ASSUME [Next]_vars, ~Restart
    PROVE  \/ \E w \in Workers : Q!WorkerStep(w)
           \/ \E e \in Executions : Q!QueueStep(e)
           \/ Q!Cleanup
           \/ UNCHANGED queue_vars
<1>1. CASE UNCHANGED vars
  BY <1>1 DEF vars
<1>. QED BY <1>1, ApiStep, WorkerIsQueueStep, RetryTaskIsQueueStep DEF Next, ReportPid, Cleanup

(* Every step of the whole system is a step of the queue or a stutter. *)
LEMMA StepOfQueue == [Next]_vars => [Q!Next]_(Q!vars)
<1>. SUFFICES ASSUME [Next]_vars PROVE Q!Next \/ UNCHANGED queue_vars
  BY DEF Q!vars, queue_vars
<1>1. ASSUME NEW e \in Executions, Api(e) \/ ReportPid(e) \/ RetryTask(e)
      PROVE  Q!Next \/ UNCHANGED queue_vars
  BY <1>1, ApiStep, RetryTaskIsQueueStep DEF ReportPid, Q!Next
<1>2. ASSUME NEW w \in Workers, Worker(w)
      PROVE  Q!Next \/ UNCHANGED queue_vars
  BY <1>2, WorkerIsQueueStep DEF Q!Next
<1>3. CASE Cleanup
  BY <1>3 DEF Cleanup, Q!Next
<1>4. CASE Restart
  BY <1>4 DEF Restart, Q!Next
<1>5. CASE UNCHANGED vars
  BY <1>5 DEF vars
<1>. QED BY <1>1, <1>2, <1>3, <1>4, <1>5 DEF Next

(* The worker pool and the API use the queue only through its operations. *)
THEOREM ImplementsQueue == Spec => QueueSpec
<1>1. Init => Q!Init
  BY DEF Init
<1>. QED BY <1>1, StepOfQueue, PTL DEF Spec, QueueSpec, Q!Spec

-----------------------------------------------------------------------------
(* The queue's theorems, for the queue inside the worker pool. *)
QP == INSTANCE QueueManagerProofs

(* Both instances of QueueManager take the same steps ... *)
LEMMA SameSteps ==
    /\ Q!Init <=> QP!Init
    /\ [Q!Next]_(Q!vars) <=> [QP!Next]_(QP!vars)
    /\ \A w \in Workers : Q!WorkerStep(w) <=> QP!WorkerStep(w)
    /\ \A e \in Executions : Q!QueueStep(e) <=> QP!QueueStep(e)
    /\ Q!Cleanup <=> QP!Cleanup
<1>1. Q!Init <=> QP!Init
  BY DEF Q!Init, QP!Init, Q!NoEntry, QP!NoEntry, Q!RetryStages, QP!RetryStages
<1>2. /\ Q!Next <=> QP!Next
      /\ \A w \in Workers : Q!WorkerStep(w) <=> QP!WorkerStep(w)
      /\ \A e \in Executions : Q!QueueStep(e) <=> QP!QueueStep(e)
      /\ Q!Cleanup <=> QP!Cleanup
  BY DEF Q!QueueStatus, QP!QueueStatus, Q!QueueEntry, QP!QueueEntry, Q!NoEntry, QP!NoEntry,
       Q!QueueItem, QP!QueueItem, Q!RetryStages, QP!RetryStages, Q!HasStatus, QP!HasStatus,
       Q!HasEntry, QP!HasEntry, Q!Queued, QP!Queued, Q!Copies, QP!Copies, Q!Busy, QP!Busy,
       Q!SetStatus, QP!SetStatus, Q!DeleteEntry, QP!DeleteEntry, Q!HeapPush, QP!HeapPush,
       Q!HeapTop, QP!HeapTop, Q!Precedes, QP!Precedes, Q!Spawn, QP!Spawn,
       Q!Finish, QP!Finish, Q!Release, QP!Release, Q!Enqueue, QP!Enqueue,
       Q!DequeueMemory, QP!DequeueMemory, Q!DequeueError, QP!DequeueError,
       Q!FirstQueued, QP!FirstQueued, Q!DequeueOverflow, QP!DequeueOverflow,
       Q!DequeueUnreadable, QP!DequeueUnreadable, Q!DequeueStranded, QP!DequeueStranded,
       Q!Remove, QP!Remove, Q!RemoveError, QP!RemoveError,
       Q!MarkCompleted, QP!MarkCompleted, Q!MarkFailed, QP!MarkFailed,
       Q!MarkFailedWithRetry, QP!MarkFailedWithRetry, Q!MarkError, QP!MarkError,
       Q!RetryRequeue, QP!RetryRequeue, Q!RetryRequeueError, QP!RetryRequeueError,
       Q!RetryPush, QP!RetryPush, Q!RetryUnreadable, QP!RetryUnreadable,
       Q!RetryDeadLetter, QP!RetryDeadLetter, Q!CascadeDelete, QP!CascadeDelete,
       Q!Cleanup, QP!Cleanup, Q!Reset, QP!Reset, Q!Recovered, QP!Recovered,
       Q!RecoverLoad, QP!RecoverLoad, Q!StartUp, QP!StartUp, Q!Restart, QP!Restart,
       Q!RestartUnrecovered, QP!RestartUnrecovered, Q!WorkerStep, QP!WorkerStep,
       Q!QueueStep, QP!QueueStep, Q!Next, QP!Next, Q!Cardinality, QP!Cardinality
<1>. QED BY <1>1, <1>2 DEF Q!vars, QP!vars

(* ... and state the same properties. *)
LEMMA SameProperties ==
    /\ Q!TypeOK <=> QP!TypeOK
    /\ Q!IInv <=> QP!IInv
    /\ \A e \in Executions : Q!HasStatus(e, "queued") <=> QP!HasStatus(e, "queued")
    /\ Q!MemoryBounded <=> QP!MemoryBounded
    /\ Q!SingleDelivery <=> QP!SingleDelivery
    /\ Q!ProcessingIsOwned <=> QP!ProcessingIsOwned
    /\ [Q!SettledStaysSettled]_(Q!vars) <=> [QP!SettledStaysSettled]_(QP!vars)
BY DEF Q!QueueStatus, QP!QueueStatus, Q!QueueEntry, QP!QueueEntry,
       Q!QueueItem, QP!QueueItem, Q!RetryStages, QP!RetryStages, Q!HasStatus, QP!HasStatus,
       Q!Busy, QP!Busy, Q!TypeOK, QP!TypeOK, Q!MemoryBounded, QP!MemoryBounded,
       Q!Owned, QP!Owned, Q!ProcessingIsOwned, QP!ProcessingIsOwned,
       Q!OneHolder, QP!OneHolder, Q!OneItem, QP!OneItem, Q!ItemIsWaiting, QP!ItemIsWaiting,
       Q!HolderIsProcessing, QP!HolderIsProcessing, Q!DeliveredOnce, QP!DeliveredOnce,
       Q!SingleDelivery, QP!SingleDelivery, Q!Settled, QP!Settled,
       Q!SettledStaysSettled, QP!SettledStaysSettled, Q!IsFiniteSet, QP!IsFiniteSet,
       Q!Cardinality, QP!Cardinality, Q!TasksArePutBack, QP!TasksArePutBack,
       Q!Unknown, QP!Unknown, Q!UnknownBefore, QP!UnknownBefore, Q!IInv, QP!IInv,
       Q!vars, QP!vars

(* In every run of the whole system, with its cancels, deletions, failures
   and restarts, the queue keeps what was proved of it alone. *)
THEOREM PoolKeepsQueue ==
    Spec => /\ [](Q!TypeOK /\ Q!MemoryBounded /\ Q!SingleDelivery /\ Q!ProcessingIsOwned)
            /\ Q!SettledIsFinal
<1>1. QP!IsFiniteSet(Executions) /\ Nobody \notin Executions
  BY QueueAssumption, NobodyAssumption DEF IsFiniteSet, QP!IsFiniteSet
<1>2. Priorities \subseteq Int /\ MaxMemorySize \in Nat /\ MaxTasks \in Nat
  BY QueueAssumption
<1>3. QP!Spec => []QP!TypeOK
  BY <1>1, <1>2, QP!TypeCorrect
<1>4. QP!Spec => []QP!MemoryBounded
  BY <1>1, <1>2, QP!MemoryIsBounded
<1>5. QP!Spec => []QP!SingleDelivery
  BY <1>1, <1>2, QP!DeliveredSingly
<1>6. QP!Spec => []QP!ProcessingIsOwned
  BY <1>1, <1>2, QP!ProcessingHasOwner
<1>7. QP!Spec => QP!SettledIsFinal
  BY <1>1, <1>2, QP!SettledForGood
<1>8. Spec => QP!Spec
  BY ImplementsQueue, SameSteps, PTL DEF QueueSpec, Q!Spec, QP!Spec
<1>. QED BY <1>3, <1>4, <1>5, <1>6, <1>7, <1>8, SameProperties, PTL
         DEF Q!SettledIsFinal, QP!SettledIsFinal

-----------------------------------------------------------------------------
(* What a worker's calls into the queue do to what the workers hold. *)

(* A successful dequeue hands the caller an execution ... *)
LEMMA DequeueHands ==
    ASSUME Q!TypeOK, NEW w \in Workers, Q!DequeueMemory(w) \/ Q!DequeueOverflow(w)
    PROVE  \E e \in Executions : held' = [held EXCEPT ![w] = e]
BY DEF Q!TypeOK, Q!DequeueMemory, Q!DequeueOverflow, Q!HeapTop, Q!QueueItem, Q!Queued

(* ... a settled one is let go ... *)
LEMMA SettlingReleases ==
    ASSUME NEW w \in Workers, NEW n, NEW max,
           \/ Q!MarkCompleted(w) \/ Q!MarkFailed(w) \/ Q!MarkError(w)
           \/ Q!MarkFailedWithRetry(w, n, max)
    PROVE  held' = [held EXCEPT ![w] = Nobody]
BY DEF Q!MarkCompleted, Q!MarkFailed, Q!MarkError, Q!MarkFailedWithRetry, Q!Release

(* ... and no other call changes who holds what, or puts anything back. *)
LEMMA OthersKeepHeld ==
    ASSUME \/ \E e \in Executions : \/ \E p \in Priorities : Q!Enqueue(e, p)
                                    \/ Q!Remove(e) \/ Q!RemoveError(e) \/ Q!CascadeDelete(e)
                                    \/ RetryTask(e)
           \/ \E w \in Workers : Q!DequeueError(w) \/ Q!DequeueUnreadable(w)
                                \/ Q!DequeueStranded(w)
           \/ Q!Cleanup
    PROVE  held' = held /\ retried' = retried
BY DEF RetryTask, Q!Enqueue, Q!Remove, Q!RemoveError, Q!CascadeDelete, Q!RetryRequeue,
       Q!RetryRequeueError, Q!RetryPush, Q!RetryUnreadable, Q!DequeueError,
       Q!DequeueUnreadable, Q!DequeueStranded, Q!Cleanup

-----------------------------------------------------------------------------
(* Type correctness. *)

(* Overwriting a row's status, and its completed_at, gives a row. *)
LEMMA RowUpdate ==
    ASSUME NEW r \in Execution, NEW s \in ExecutionStatus \cup {"absent"}
    PROVE  /\ [r EXCEPT !.status = s] \in Execution
           /\ [r EXCEPT !.status = s, !.completed = TRUE] \in Execution
BY DEF Execution

(* The rows the API and the start-up write are rows. *)
LEMMA RowConstants ==
    NoExecution \in Execution /\ (\A n \in 0..JobMaxRetries : NewExecution(n) \in Execution)
BY RetriesAssumption DEF NoExecution, NewExecution, Execution, ExecutionStatus

(* Registering, and dropping a registration, keep the registry's type. *)
LEMMA ProcessTypes ==
    /\ P!NoProcess \in P!ProcessInfo
    /\ \A w \in Workers : [owner |-> w, pid |-> FALSE] \in P!ProcessInfo
    /\ \A i \in P!ProcessInfo : [i EXCEPT !.pid = TRUE] \in P!ProcessInfo
BY DEF P!NoProcess, P!ProcessInfo

(* The initial state is typed. *)
LEMMA PoolTypeInit == Init /\ Q!TypeOK => TypeOK
BY RowConstants, ProcessTypes, RestartsAssumption DEF Init, Q!Init, P!Init, TypeOK, At

(* A request keeps the types. *)
LEMMA PoolTypeApi ==
    ASSUME TypeOK, Q!TypeOK', NEW e \in Executions, Api(e)
    PROVE  TypeOK'
<1>. USE DEF TypeOK, At, queue_vars, process_vars, worker_vars, api_vars, history_vars
<1>1. CASE CreateExecution(e)
  <2>1. CountsTakenUp \subseteq 0..JobMaxRetries
    BY RetriesAssumption DEF CountsTakenUp, Execution
  <2>2. \A n \in {0} \cup CountsTakenUp : NewExecution(n) \in Execution
    BY <2>1, RowConstants, RetriesAssumption
  <2>. QED BY <1>1, <2>2 DEF CreateExecution
<1>3. CASE Submit(e)
  BY <1>3, OthersKeepHeld DEF Submit
<1>4. CASE SubmitFails(e)
  BY <1>4 DEF SubmitFails
<1>5. CASE DeleteExecution(e)
  BY <1>5, OthersKeepHeld, RowConstants DEF DeleteExecution
<1>6. CASE CancelRead(e)
  BY <1>6 DEF CancelRead, CancelStep
<1>7. CASE CancelWrite(e)
  <2>1. [executions[e] EXCEPT !.status = "cancelled", !.completed = TRUE] \in Execution
    BY RowUpdate DEF ExecutionStatus
  <2>. QED BY <1>7, <2>1 DEF CancelWrite, CancelStep
<1>8. CASE CancelProcess(e)
  BY <1>8, ProcessTypes DEF CancelProcess, CancelStep, P!Cancel
<1>9. CASE CancelKilled(e)
  BY <1>9 DEF CancelKilled, P!CancelDone
<1>10. CASE CancelRemove(e)
  BY <1>10, OthersKeepHeld DEF CancelRemove, CancelStep
<1>11. CASE CancelFails(e)
  BY <1>11 DEF CancelFails
<1>12. CASE CancelRemoveFails(e)
  BY <1>12, OthersKeepHeld DEF CancelRemoveFails, CancelStep
<1>. QED BY <1>1, <1>3, <1>4, <1>5, <1>6, <1>7, <1>8, <1>9, <1>10, <1>11, <1>12 DEF Api

(* A round of a worker's loop keeps the types. *)
LEMMA PoolTypeWorker ==
    ASSUME TypeOK, OutcomeKnown, Q!TypeOK', NEW w \in Workers, Worker(w)
    PROVE  TypeOK'
<1>. USE DEF TypeOK, At, WorkerMoves, Goto, queue_vars, process_vars, worker_vars, api_vars,
             history_vars
<1>. held \in [Workers -> Executions \cup {Nobody}] /\ Nobody \notin Executions
  BY NobodyAssumption DEF Q!TypeOK
<1>1. CASE Dequeue(w)
  <2>1. PICK e \in Executions : held' = [held EXCEPT ![w] = e]
    BY <1>1, DequeueHands DEF Dequeue
  <2>. QED BY <1>1, <2>1 DEF Dequeue
<1>2. CASE DequeueFails(w)
  BY <1>2, OthersKeepHeld DEF DequeueFails
<1>3. CASE ReadRow(w)
  <2>1. held[w] \in Executions
    BY <1>3 DEF ReadRow
  <2>. QED BY <1>3, <2>1 DEF ReadRow
<1>4. CASE WriteRunning(w)
  <2>1. held[w] \in Executions
    BY <1>4 DEF WriteRunning
  <2>2. [row[w] EXCEPT !.status = "running"] \in Execution
    BY RowUpdate DEF ExecutionStatus
  <2> DEFINE r == [row[w] EXCEPT !.status = "running"]
  <2>3. executions' = [executions EXCEPT ![held[w]] = r]
    BY <1>4 DEF WriteRunning
  <2>4. r \in Execution
    BY <2>2
  <2> HIDE DEF r
  <2>5. executions' \in [Executions -> Execution]
    BY <2>3, <2>4
  <2>6. /\ WorkerMoves(w, "starting", "registering")
        /\ row' = [row EXCEPT ![w] = NoExecution]
        /\ UNCHANGED <<queue_vars, process_vars, api_vars, result, restarts, history_vars>>
    BY <1>4 DEF WriteRunning
  <2>. QED BY <2>5, <2>6, RowConstants
<1>5. CASE StartFails(w)
  <2>1. held' = [held EXCEPT ![w] = Nobody]
    BY <1>5, SettlingReleases DEF StartFails
  <2>. QED BY <1>5, <2>1, RowConstants DEF StartFails
<1>6. CASE Register(w)
  <2>1. held[w] \in Executions
    BY <1>6 DEF Register
  <2>. QED BY <1>6, <2>1, ProcessTypes DEF Register, P!Register
<1>7. CASE ProcessEnds(w)
  BY <1>7 DEF ProcessEnds
<1>8. CASE CancelReceived(w)
  BY <1>8 DEF CancelReceived
<1>9. CASE Unregister(w)
  BY <1>9, ProcessTypes DEF Unregister, P!Unregister
<1>10. CASE CheckCancelled(w)
  BY <1>10 DEF CheckCancelled
<1>11. CASE Finalize(w)
  <2>1. held[w] \in Executions
    BY <1>11 DEF Finalize
  <2> DEFINE r == [executions[held[w]] EXCEPT !.status = result[w], !.completed = TRUE]
  <2>2. result[w] \in ExecutionStatus
    BY <1>11 DEF Finalize, OutcomeKnown, ExecutionStatus
  <2>3. r \in Execution
    BY <2>1, <2>2, RowUpdate
  <2>4. executions' = [executions EXCEPT ![held[w]] = r]
    BY <1>11, <2>1 DEF Finalize
  <2> HIDE DEF r
  <2>5. executions' \in [Executions -> Execution]
    BY <2>3, <2>4
  <2>6. /\ WorkerMoves(w, "finalizing", "settling")
        /\ UNCHANGED <<queue_vars, process_vars, api_vars, row, result, restarts, history_vars>>
    BY <1>11 DEF Finalize
  <2>. QED BY <2>5, <2>6
<1>12. CASE FinalizeFails(w)
  BY <1>12 DEF FinalizeFails
<1>13. CASE Settle(w)
  <2>1. held' = [held EXCEPT ![w] = Nobody]
    BY <1>13, SettlingReleases DEF Settle
  <2>2. touched' \in SUBSET Executions
    BY <1>13 DEF Settle, Q!TypeOK
  <2>. QED BY <1>13, <2>1, <2>2 DEF Settle
<1>. QED BY <1>1, <1>2, <1>3, <1>4, <1>5, <1>6, <1>7, <1>8, <1>9, <1>10, <1>11, <1>12, <1>13
         DEF Worker

(* Every step keeps the types. *)
LEMMA PoolTypeStep == TypeOK /\ OutcomeKnown /\ Q!TypeOK' /\ [Next]_vars => TypeOK'
<1>. SUFFICES ASSUME TypeOK, OutcomeKnown, Q!TypeOK', [Next]_vars
              PROVE  TypeOK'
  OBVIOUS
<1>. USE DEF TypeOK, At, queue_vars, process_vars, worker_vars, api_vars, history_vars
<1>1. ASSUME NEW e \in Executions, ReportPid(e)
      PROVE  TypeOK'
  <2>1. processes' \in [Executions -> P!ProcessInfo]
    BY <1>1, ProcessTypes DEF ReportPid, P!UpdatePid
  <2>. QED BY <1>1, <2>1 DEF ReportPid, P!UpdatePid
<1>2. ASSUME NEW e \in Executions, RetryTask(e)
      PROVE  TypeOK'
  BY <1>2, OthersKeepHeld DEF RetryTask
<1>3. CASE Cleanup
  BY <1>3, OthersKeepHeld DEF Cleanup
<1>4. CASE Restart
  <2>1. held' = [w \in Workers |-> Nobody]
    BY <1>4 DEF Restart, Q!Restart, Q!RestartUnrecovered, Q!StartUp
  <2>. QED BY <1>4, <2>1, RowConstants, ProcessTypes, RestartsAssumption DEF Restart
<1>5. CASE UNCHANGED vars
  BY <1>5 DEF vars
<1>. QED BY <1>1, <1>2, <1>3, <1>4, <1>5, PoolTypeApi, PoolTypeWorker DEF Next

-----------------------------------------------------------------------------
(* What a step leaves alone. *)

(* A worker's step is about that worker only. *)
LEMMA WorkerFrame ==
    ASSUME TypeOK, NEW w \in Workers, Worker(w), NEW v \in Workers, v # w
    PROVE  pc'[v] = pc[v] /\ held'[v] = held[v] /\ result'[v] = result[v] /\ row'[v] = row[v]
<1>. USE DEF TypeOK, At, WorkerMoves, Goto, queue_vars, worker_vars
<1>. held \in [Workers -> Executions \cup {Nobody}]
  BY DEF Q!TypeOK
<1>1. CASE Dequeue(w)
  <2>1. PICK e \in Executions : held' = [held EXCEPT ![w] = e]
    BY <1>1, DequeueHands DEF Dequeue
  <2>. QED BY <1>1, <2>1 DEF Dequeue
<1>2. CASE DequeueFails(w)
  BY <1>2, OthersKeepHeld DEF DequeueFails
<1>3. CASE StartFails(w)
  BY <1>3, SettlingReleases DEF StartFails
<1>4. CASE Settle(w)
  <2>1. held' = [held EXCEPT ![w] = Nobody]
    BY <1>4, SettlingReleases DEF Settle
  <2>. QED BY <1>4, <2>1 DEF Settle
<1>5. CASE CheckCancelled(w)
  BY <1>5 DEF CheckCancelled
<1>6. CASE ReadRow(w) \/ WriteRunning(w) \/ Register(w) \/ Unregister(w)
  BY <1>6 DEF ReadRow, WriteRunning, Register, Unregister
<1>7. CASE ProcessEnds(w) \/ CancelReceived(w) \/ Finalize(w) \/ FinalizeFails(w)
  BY <1>7 DEF ProcessEnds, CancelReceived, Finalize, FinalizeFails
<1>. QED BY <1>1, <1>2, <1>3, <1>4, <1>5, <1>6, <1>7 DEF Worker

(* Requests and background tasks are about no worker, and put nothing back. *)
LEMMA OthersFrame ==
    ASSUME \/ \E e \in Executions : Api(e) \/ ReportPid(e) \/ RetryTask(e)
           \/ Cleanup
    PROVE  UNCHANGED <<pc, row, result, held, retried>>
<1>. USE DEF queue_vars, worker_vars
<1>1. ASSUME NEW e \in Executions, Api(e)
      PROVE  UNCHANGED <<pc, row, result, held, retried>>
  <2>1. CASE Submit(e)
    BY <2>1, OthersKeepHeld DEF Submit
  <2>2. CASE DeleteExecution(e)
    BY <2>2, OthersKeepHeld DEF DeleteExecution
  <2>3. CASE CancelRemove(e)
    BY <2>3, OthersKeepHeld DEF CancelRemove
  <2>4. CASE CancelRemoveFails(e)
    BY <2>4, OthersKeepHeld DEF CancelRemoveFails
  <2>. QED BY <1>1, <2>1, <2>2, <2>3, <2>4
           DEF Api, CreateExecution, SubmitFails, CancelRead, CancelWrite,
               CancelProcess, CancelKilled, CancelFails
<1>2. ASSUME NEW e \in Executions, RetryTask(e)
      PROVE  UNCHANGED <<pc, row, result, held, retried>>
  BY <1>2, OthersKeepHeld DEF RetryTask
<1>3. CASE Cleanup
  BY <1>3, OthersKeepHeld DEF Cleanup
<1>. QED BY <1>1, <1>2, <1>3 DEF ReportPid

(* A run that is over has an outcome. *)
LEMMA OutcomeKnownStep == TypeOK /\ OutcomeKnown /\ [Next]_vars => OutcomeKnown'
<1>. SUFFICES ASSUME TypeOK, OutcomeKnown, [Next]_vars, NEW v \in Workers,
                     pc'[v] \in {"executed", "reporting", "finalizing", "settling"}
              PROVE  result'[v] # "none"
  BY DEF OutcomeKnown
<1>1. CASE pc'[v] = pc[v] /\ result'[v] = result[v]
  BY <1>1 DEF OutcomeKnown
<1>2. ASSUME NEW w \in Workers, Worker(w)
      PROVE  result'[v] # "none"
  <2>1. CASE v # w
    BY <1>1, <1>2, <2>1, WorkerFrame
  <2>2. CASE v = w
    BY <1>2, <2>2
       DEF Worker, Dequeue, DequeueFails, ReadRow, WriteRunning, StartFails, Register,
           ProcessEnds, CancelReceived, Unregister, CheckCancelled, Finalize, FinalizeFails,
           Settle, WorkerMoves, Goto, At, TypeOK, OutcomeKnown, worker_vars
  <2>. QED BY <2>1, <2>2
<1>3. CASE Restart
  BY <1>3 DEF Restart
<1>4. CASE UNCHANGED vars
  BY <1>1, <1>4 DEF vars, worker_vars
<1>. QED BY <1>1, <1>2, <1>3, <1>4, OthersFrame DEF Next

(* touched never shrinks, holds all that is put back, and every execution a
   cancel is working on. *)
LEMMA TouchedStep ==
    PutBackIsTouched /\ CancelsAreTouched /\ TypeOK /\ [Next]_vars =>
        touched \subseteq touched' /\ PutBackIsTouched' /\ CancelsAreTouched'
<1>. SUFFICES ASSUME PutBackIsTouched, CancelsAreTouched, TypeOK, [Next]_vars
              PROVE  touched \subseteq touched' /\ PutBackIsTouched' /\ CancelsAreTouched'
  OBVIOUS
<1>. USE DEF PutBackIsTouched, CancelsAreTouched, api_vars, history_vars
<1>1. ASSUME NEW e \in Executions, Api(e)
      PROVE  touched \subseteq touched' /\ PutBackIsTouched' /\ CancelsAreTouched'
  <2>1. retried' = retried
    BY <1>1, OthersFrame
  <2>2. CASE CancelRead(e)
    BY <2>1, <2>2 DEF CancelRead, CancelStep, TypeOK
  <2>3. ASSUME NEW from \in {"accepted", "marked", "signalled"}, NEW to, CancelStep(e, from, to)
        PROVE  \A d \in Executions : canceller'[d] # "idle" => canceller[d] # "idle"
    BY <2>3 DEF CancelStep, TypeOK
  <2>4. CASE CancelWrite(e)
    BY <2>1, <2>3, <2>4 DEF CancelWrite
  <2>5. CASE CancelProcess(e)
    BY <2>1, <2>3, <2>5 DEF CancelProcess
  <2>6. CASE CancelRemove(e)
    BY <2>1, <2>3, <2>6 DEF CancelRemove
  <2>7. CASE CancelRemoveFails(e)
    BY <2>1, <2>3, <2>7 DEF CancelRemoveFails
  <2>8. CASE CancelFails(e)
    <3>1. \A d \in Executions : canceller'[d] # "idle" => canceller[d] # "idle"
      BY <2>8 DEF CancelFails, TypeOK
    <3>. QED BY <2>1, <2>8, <3>1 DEF CancelFails
  <2>9. CASE CreateExecution(e)
    BY <2>1, <2>9 DEF CreateExecution
  <2>10. CASE Submit(e) \/ SubmitFails(e) \/ DeleteExecution(e) \/ CancelKilled(e)
    BY <2>1, <2>10 DEF Submit, SubmitFails, DeleteExecution, CancelKilled
  <2>. QED BY <1>1, <2>2, <2>4, <2>5, <2>6, <2>7, <2>8, <2>9, <2>10 DEF Api
<1>2. ASSUME NEW w \in Workers, Worker(w)
      PROVE  touched \subseteq touched' /\ PutBackIsTouched' /\ CancelsAreTouched'
  <2>1. canceller' = canceller
    BY <1>2 DEF Worker, Dequeue, DequeueFails, ReadRow, WriteRunning, StartFails, Register,
                ProcessEnds, CancelReceived, Unregister, CheckCancelled, Finalize,
                FinalizeFails, Settle
  <2>2. CASE Settle(w)
    BY <2>1, <2>2 DEF Settle
  <2>3. touched' = touched /\ retried' = retried
        => touched \subseteq touched' /\ PutBackIsTouched' /\ CancelsAreTouched'
    BY <2>1
  <2>4. CASE Dequeue(w)
    BY <2>3, <2>4 DEF Dequeue, Q!DequeueMemory, Q!DequeueOverflow
  <2>5. CASE DequeueFails(w)
    BY <2>3, <2>5, OthersKeepHeld DEF DequeueFails
  <2>6. CASE StartFails(w)
    BY <2>3, <2>6 DEF StartFails, Q!MarkFailed, Q!MarkError
  <2>7. CASE ReadRow(w) \/ WriteRunning(w) \/ Register(w) \/ Unregister(w)
    BY <2>3, <2>7 DEF ReadRow, WriteRunning, Register, Unregister, queue_vars
  <2>8. CASE ProcessEnds(w) \/ CancelReceived(w) \/ CheckCancelled(w) \/ Finalize(w)
               \/ FinalizeFails(w)
    BY <2>3, <2>8 DEF ProcessEnds, CancelReceived, CheckCancelled, Finalize, FinalizeFails,
                      queue_vars
  <2>. QED BY <1>2, <2>2, <2>4, <2>5, <2>6, <2>7, <2>8 DEF Worker
<1>3. ASSUME NEW e \in Executions, ReportPid(e) \/ RetryTask(e)
      PROVE  touched \subseteq touched' /\ PutBackIsTouched' /\ CancelsAreTouched'
  BY <1>3, OthersFrame DEF ReportPid, RetryTask
<1>4. CASE Cleanup
  BY <1>4, OthersFrame DEF Cleanup
<1>5. CASE Restart
  BY <1>5 DEF Restart, Q!Restart, Q!RestartUnrecovered, Q!StartUp
<1>6. CASE UNCHANGED vars
  BY <1>6 DEF vars, queue_vars
<1>. QED BY <1>1, <1>2, <1>3, <1>4, <1>5, <1>6 DEF Next

-----------------------------------------------------------------------------
(* Registrations and runs.  In each case below the process map changes at one
   execution at most, and only a worker's own steps move it on. *)

(* A step that registers nobody leaves each owner of a registration as it
   was: what remains to be shown of the owner is where it is. *)
LEMMA OwnersKept ==
    ASSUME TypeOK, [Next]_vars, \A w \in Workers : ~Register(w), ~Restart,
           NEW e \in Executions, NEW w \in Workers, processes'[e].owner = w
    PROVE  processes[e].owner = w
<1>. USE NobodyAssumption DEF TypeOK, P!ProcessInfo, P!NoProcess, process_vars
<1>1. CASE UNCHANGED processes
  BY <1>1
<1>2. ASSUME NEW d \in Executions, processes' = [processes EXCEPT ![d] = P!NoProcess]
      PROVE  processes[e].owner = w
  BY <1>2
<1>3. ASSUME NEW d \in Executions, ReportPid(d)
      PROVE  processes[e].owner = w
  BY <1>3 DEF ReportPid, P!UpdatePid
<1>4. ASSUME NEW d \in Executions, Api(d)
      PROVE  processes[e].owner = w
  <2>1. CASE CancelProcess(d)
    BY <1>2, <2>1 DEF CancelProcess, P!Cancel
  <2>. QED BY <1>1, <1>4, <2>1
           DEF Api, CreateExecution, Submit, SubmitFails, DeleteExecution,
               CancelRead, CancelWrite, CancelKilled, P!CancelDone, CancelRemove, CancelFails,
               CancelRemoveFails
<1>5. ASSUME NEW v \in Workers, Worker(v)
      PROVE  processes[e].owner = w
  <2>1. CASE Unregister(v)
    BY <2>1 DEF Unregister, P!Unregister
  <2>. QED BY <1>1, <1>5, <2>1
           DEF Worker, Dequeue, DequeueFails, ReadRow, WriteRunning, StartFails, ProcessEnds,
               CancelReceived, CheckCancelled, Finalize, FinalizeFails, Settle
<1>. QED BY <1>1, <1>3, <1>4, <1>5 DEF Next, RetryTask, Cleanup, vars

(* A registration never outlives its run. *)
LEMMA LiveStep == TypeOK /\ RegistrationsAreLive /\ [Next]_vars => RegistrationsAreLive'
<1>. SUFFICES ASSUME TypeOK, RegistrationsAreLive, [Next]_vars,
                     NEW e \in Executions, NEW w \in Workers, processes'[e].owner = w
              PROVE  held'[w] = e /\ pc'[w] \in {"executing", "executed"}
  BY DEF RegistrationsAreLive
<1>1. processes[e].owner = w => held[w] = e /\ pc[w] \in {"executing", "executed"}
  BY DEF RegistrationsAreLive
<1>2. CASE pc'[w] = pc[w] /\ held'[w] = held[w] /\ processes[e].owner = w
  BY <1>1, <1>2
<1>3. ASSUME NEW v \in Workers, Register(v)
      PROVE  held'[w] = e /\ pc'[w] \in {"executing", "executed"}
  <2>1. /\ processes' = [processes EXCEPT ![held[v]] = [owner |-> v, pid |-> FALSE]]
        /\ pc[v] = "registering" /\ pc' = [pc EXCEPT ![v] = "executing"] /\ held' = held
    BY <1>3 DEF Register, P!Register, WorkerMoves, At, Goto, queue_vars
  <2>2. CASE e = held[v]
    BY <2>1, <2>2 DEF TypeOK
  <2>3. CASE e # held[v]
    BY <1>1, <2>1, <2>3 DEF TypeOK
  <2>. QED BY <2>2, <2>3
<1>4. CASE Restart
  BY <1>4, NobodyAssumption DEF Restart, P!NoProcess
<1>5. ASSUME \A v \in Workers : ~Register(v), ~Restart
      PROVE  held'[w] = e /\ pc'[w] \in {"executing", "executed"}
  <2>1. processes[e].owner = w
    BY <1>5, OwnersKept
  <2>2. CASE Worker(w)
    <3>1. held[w] = e /\ pc[w] \in {"executing", "executed"}
      BY <1>1, <2>1
    <3>2. ~Unregister(w)
      <4>. SUFFICES ASSUME Unregister(w) PROVE FALSE
        OBVIOUS
      <4>1. processes'[e] = P!NoProcess
        BY <3>1 DEF Unregister, P!Unregister, TypeOK
      <4>. QED BY <4>1, NobodyAssumption DEF P!NoProcess
    <3>3. CASE ProcessEnds(w) \/ CancelReceived(w)
      BY <3>1, <3>3 DEF ProcessEnds, CancelReceived, WorkerMoves, Goto, queue_vars, TypeOK
    <3>. QED BY <1>5, <2>2, <3>1, <3>2, <3>3
             DEF Worker, Dequeue, DequeueFails, ReadRow, WriteRunning, StartFails,
                 CheckCancelled, Finalize, FinalizeFails, Settle, WorkerMoves, At
  <2>3. ASSUME NEW v \in Workers, v # w, Worker(v)
        PROVE  held'[w] = e /\ pc'[w] \in {"executing", "executed"}
    BY <1>2, <2>1, <2>3, WorkerFrame
  <2>4. CASE UNCHANGED vars
    BY <1>2, <2>1, <2>4 DEF vars, queue_vars, worker_vars
  <2>. QED BY <1>2, <1>5, <2>1, <2>2, <2>3, <2>4, OthersFrame DEF Next
<1>. QED BY <1>3, <1>4, <1>5

(* Two workers that hold one execution have it from a retry. *)
LEMMA SharedIsTouched ==
    ASSUME Q!SingleDelivery, Q!TypeOK, PutBackIsTouched, NEW v \in Workers, NEW w \in Workers,
           v # w, held[v] = held[w], held[w] # Nobody
    PROVE  held[w] \in touched
<1>1. held[w] \in Executions
  BY DEF Q!TypeOK
<1>2. ~Q!OneHolder(held[w])
  BY DEF Q!OneHolder
<1>. QED BY <1>1, <1>2 DEF Q!SingleDelivery, Q!DeliveredOnce, PutBackIsTouched

(* The process map changes under a worker's run in few ways. *)
LEMMA OwnerLost ==
    ASSUME TypeOK, [Next]_vars, ~Restart, NEW e \in Executions, NEW w \in Workers,
           processes[e].owner = w, processes'[e].owner # w
    PROVE  CancelProcess(e) \/ \E v \in Workers : held[v] = e /\ (Register(v) \/ Unregister(v))
<1>. USE DEF TypeOK, P!ProcessInfo, P!NoProcess, process_vars
<1>1. ~UNCHANGED processes
  OBVIOUS
<1>2. ASSUME NEW d \in Executions, ReportPid(d)
      PROVE  FALSE
  BY <1>2 DEF ReportPid, P!UpdatePid
<1>3. ASSUME NEW d \in Executions, Api(d)
      PROVE  CancelProcess(e)
  <2>1. CASE CancelProcess(d)
    BY <2>1 DEF CancelProcess, P!Cancel
  <2>. QED BY <1>1, <1>3, <2>1
           DEF Api, CreateExecution, Submit, SubmitFails, DeleteExecution,
               CancelRead, CancelWrite, CancelKilled, P!CancelDone, CancelRemove, CancelFails,
               CancelRemoveFails
<1>4. ASSUME NEW v \in Workers, Worker(v)
      PROVE  held[v] = e /\ (Register(v) \/ Unregister(v))
  <2>1. CASE Unregister(v)
    BY <2>1 DEF Unregister, P!Unregister
  <2>2. CASE Register(v)
    BY <2>2 DEF Register, P!Register
  <2>. QED BY <1>1, <1>4, <2>1, <2>2
           DEF Worker, Dequeue, DequeueFails, ReadRow, WriteRunning, StartFails, ProcessEnds,
               CancelReceived, CheckCancelled, Finalize, FinalizeFails, Settle
<1>. QED BY <1>1, <1>2, <1>3, <1>4 DEF Next, RetryTask, Cleanup, vars

(* A run that executes has just been registered, or executed before. *)
LEMMA Executing ==
    ASSUME TypeOK, [Next]_vars, ~Restart, NEW w \in Workers, pc'[w] = "executing"
    PROVE  \/ Register(w)
           \/ pc[w] = "executing" /\ held'[w] = held[w]
<1>1. CASE pc'[w] = pc[w] /\ held'[w] = held[w]
  BY <1>1
<1>2. CASE Worker(w)
  <2>. USE DEF WorkerMoves, Goto, At, TypeOK
  <2>1. CASE DequeueFails(w)
    BY <1>1, <2>1, OthersKeepHeld DEF DequeueFails, worker_vars
  <2>. QED BY <1>2, <2>1
           DEF Worker, Dequeue, ReadRow, WriteRunning, StartFails, ProcessEnds,
               CancelReceived, Unregister, CheckCancelled, Finalize, FinalizeFails, Settle
<1>3. ASSUME NEW v \in Workers, v # w, Worker(v)
      PROVE  pc'[w] = pc[w] /\ held'[w] = held[w]
  BY <1>3, WorkerFrame
<1>4. CASE UNCHANGED vars
  BY <1>1, <1>4 DEF vars, queue_vars, worker_vars
<1>. QED BY <1>1, <1>2, <1>3, <1>4, OthersFrame DEF Next

(* A run is only ever killed on purpose: who drops the registration of a run
   other than its own worker is a cancel, or a second worker with the same
   execution, which only a retry can bring about. *)
LEMMA KilledStep == IInv /\ Q!SingleDelivery /\ [Next]_vars => KilledOnPurpose'
<1>. SUFFICES ASSUME IInv, Q!SingleDelivery, [Next]_vars, NEW w \in Workers,
                     pc'[w] = "executing", processes'[held'[w]].owner # w
              PROVE  held'[w] \in touched'
  BY DEF KilledOnPurpose, At, P!CancelReady
<1>. USE DEF IInv
<1>1. ~Restart
  BY DEF Restart
<1>2. ~Register(w)
  <2>. SUFFICES ASSUME Register(w) PROVE FALSE
    OBVIOUS
  <2>1. held[w] \in Executions
    BY DEF Register, WorkerMoves, At, TypeOK, Q!TypeOK
  <2>2. processes'[held[w]].owner = w /\ held' = held
    BY <2>1 DEF Register, P!Register, TypeOK, queue_vars
  <2>. QED BY <2>2
<1>3. pc[w] = "executing" /\ held'[w] = held[w]
  BY <1>1, <1>2, Executing
<1>4. held[w] \in Executions
  BY <1>3 DEF TypeOK, At, Q!TypeOK
<1>5. touched \subseteq touched'
  BY TouchedStep
<1>6. CASE processes[held[w]].owner # w
  BY <1>3, <1>5, <1>6 DEF KilledOnPurpose, At, P!CancelReady
<1>7. CASE processes[held[w]].owner = w
  <2>1. CASE CancelProcess(held[w])
    BY <1>3, <1>4, <1>5, <2>1 DEF CancelProcess, CancelStep, CancelsAreTouched
  <2>2. ASSUME NEW v \in Workers, held[v] = held[w], Register(v) \/ Unregister(v)
        PROVE  held'[w] \in touched'
    <3>1. v # w
      BY <1>2, <1>3, <2>2 DEF Unregister, WorkerMoves, At
    <3>2. held[w] # Nobody
      BY <1>3 DEF TypeOK, At
    <3>. QED BY <1>3, <1>5, <2>2, <3>1, <3>2, SharedIsTouched DEF TypeOK
  <2>. QED BY <1>1, <1>3, <1>4, <1>7, <2>1, <2>2, OwnerLost
<1>. QED BY <1>6, <1>7

-----------------------------------------------------------------------------
(* The invariant holds at the start ... *)
LEMMA IInvInit == Init /\ Q!TypeOK => IInv
<1>. SUFFICES ASSUME Init, Q!TypeOK PROVE IInv
  OBVIOUS
<1>1. TypeOK
  BY PoolTypeInit
<1>2. retried = {} /\ \A w \in Workers : pc[w] = "idle"
  BY DEF Init, Q!Init
<1>3. \A e \in Executions : canceller[e] = "idle" /\ processes[e].owner = Nobody
  BY DEF Init, P!Init, P!NoProcess
<1>. QED BY <1>1, <1>2, <1>3, NobodyAssumption
         DEF IInv, OutcomeKnown, PutBackIsTouched, CancelsAreTouched, RegistrationsAreLive,
             KilledOnPurpose, At

(* ... and every step keeps it, given what is known of the queue. *)
LEMMA IInvStep == IInv /\ Q!TypeOK' /\ Q!SingleDelivery /\ [Next]_vars => IInv'
BY PoolTypeStep, OutcomeKnownStep, TouchedStep, LiveStep, KilledStep DEF IInv

(* In every run, whatever the constants, the invariant holds: the queue's
   part of it comes from the queue's own theorems. *)
THEOREM PoolInvariant == Spec => []IInv
<1>1. Spec => [](Q!TypeOK /\ Q!SingleDelivery)
  BY PoolKeepsQueue, PTL
<1>. QED BY <1>1, IInvInit, IInvStep, PTL DEF Spec

(* The variables hold values of their types, and exactly the idle workers
   hold nothing. *)
THEOREM PoolTypeCorrect == Spec => []TypeOK
<1>1. IInv => TypeOK
  BY DEF IInv
<1>. QED BY <1>1, PoolInvariant, PTL

(* Who is registered in the process manager is running that execution now,
   so a cancel never signals the process of a run that is over. *)
THEOREM RegisteredIsRunning == Spec => []RegistrationsAreLive
<1>1. IInv => RegistrationsAreLive
  BY DEF IInv
<1>. QED BY <1>1, PoolInvariant, PTL

(* A run's cancel_rx fires only for an execution that was cancelled, or that
   the queue had put back. *)
THEOREM NeverKilledByAccident == Spec => []KilledOnPurpose
<1>1. IInv => KilledOnPurpose
  BY DEF IInv
<1>. QED BY <1>1, PoolInvariant, PTL

-----------------------------------------------------------------------------
(* What more there is to know of cancelled and of untouched executions. *)

(* A client creates its execution once, and before it submits it. *)
ClientsKept ==
    \A e \in Executions :
        /\ client[e] = "new" => ~Exists(e) /\ canceller[e] = "idle"
        /\ e \in submitted => client[e] = "served"

(* Past its write a cancel finds the row as it left it, as long as no worker
   can have had the execution. *)
MarkedIsOff ==
    \A e \in Executions \ retried :
        /\ canceller[e] \in {"marked", "signalled"}
        /\ Q!HasStatus(e, "queued") \/ e \notin submitted
        => Status(e) \in {"cancelled", "absent"}

(* Nothing is left of a withdrawn execution that a worker could be handed. *)
WithdrawnGone ==
    \A e \in withdrawn : QP!Gone(e) /\ Status(e) \in {"cancelled", "absent"}

WithdrawnInv == ClientsKept /\ MarkedIsOff /\ WithdrawnGone

(* A row of the executions table changes in few ways. *)
LEMMA RowChanges ==
    ASSUME TypeOK, [Next]_vars, NEW e \in Executions, executions'[e] # executions[e]
    PROVE  \/ CreateExecution(e)
           \/ DeleteExecution(e) /\ executions'[e] = NoExecution
           \/ CancelWrite(e) /\ Status(e)' = "cancelled"
           \/ \E w \in Workers : held[w] = e /\ (WriteRunning(w) \/ Finalize(w))
<1>. USE DEF TypeOK
<1>1. ASSUME NEW d \in Executions, Api(d)
      PROVE  \/ CreateExecution(e)
             \/ DeleteExecution(e) /\ executions'[e] = NoExecution
             \/ CancelWrite(e) /\ Status(e)' = "cancelled"
  <2>1. CASE CreateExecution(d)
    BY <2>1 DEF CreateExecution
  <2>2. CASE DeleteExecution(d)
    BY <2>2 DEF DeleteExecution
  <2>3. CASE CancelWrite(d)
    <3>1. d = e
      BY <2>3 DEF CancelWrite
    <3>2. executions'[e].status = "cancelled"
      BY <2>3, <3>1 DEF CancelWrite, Execution
    <3>. QED BY <2>3, <3>1, <3>2 DEF Status
  <2>. QED BY <1>1, <2>1, <2>2, <2>3
           DEF Api, Submit, SubmitFails, CancelRead, CancelProcess, CancelKilled, CancelRemove,
               CancelFails, CancelRemoveFails
<1>2. ASSUME NEW w \in Workers, Worker(w)
      PROVE  held[w] = e /\ (WriteRunning(w) \/ Finalize(w))
  <2>1. CASE WriteRunning(w)
    BY <2>1 DEF WriteRunning
  <2>2. CASE Finalize(w)
    BY <2>2 DEF Finalize
  <2>. QED BY <1>2, <2>1, <2>2
           DEF Worker, Dequeue, DequeueFails, ReadRow, StartFails, Register, ProcessEnds,
               CancelReceived, Unregister, CheckCancelled, FinalizeFails, Settle
<1>. QED BY <1>1, <1>2 DEF Next, ReportPid, RetryTask, Cleanup, Restart, vars

(* Nobody creates an execution twice, or cancels one before it is there. *)
LEMMA ClientsStep == TypeOK /\ ClientsKept /\ [Next]_vars => ClientsKept'
<1>. SUFFICES ASSUME TypeOK, ClientsKept, [Next]_vars, NEW e \in Executions
              PROVE  /\ client'[e] = "new" => ~Exists(e)' /\ canceller'[e] = "idle"
                     /\ e \in submitted' => client'[e] = "served"
  BY DEF ClientsKept, Exists, Status
<1>. USE DEF TypeOK
<1>1. /\ client[e] = "new" => ~Exists(e) /\ canceller[e] = "idle"
      /\ e \in submitted => client[e] = "served"
  BY DEF ClientsKept
<1>2. client'[e] = "new" => client[e] = "new" /\ (canceller[e] = "idle" => canceller'[e] = "idle")
  <2>1. ASSUME NEW d \in Executions, Api(d)
        PROVE  client'[e] = "new" => client[e] = "new" /\ (canceller[e] = "idle" => canceller'[e] = "idle")
    <3>1. CASE CancelRead(d)
      BY <1>1, <3>1 DEF CancelRead, CancelStep, Exists
    <3>. QED BY <2>1, <3>1
             DEF Api, CreateExecution, Submit, SubmitFails, DeleteExecution, CancelWrite,
                 CancelProcess, CancelKilled, CancelRemove, CancelFails, CancelRemoveFails,
                 CancelStep, api_vars
  <2>2. ASSUME NEW w \in Workers, Worker(w)
        PROVE  UNCHANGED api_vars
    BY <2>2 DEF Worker, Dequeue, DequeueFails, ReadRow, WriteRunning, StartFails, Register,
                ProcessEnds, CancelReceived, Unregister, CheckCancelled, Finalize, FinalizeFails,
                Settle
  <2>. QED BY <2>1, <2>2 DEF Next, ReportPid, RetryTask, Cleanup, Restart, vars, api_vars
<1>3. client'[e] = "new" => ~Exists(e)'
  <2>. SUFFICES ASSUME client'[e] = "new" PROVE Status(e)' = "absent"
    BY DEF Exists
  <2>1. CASE executions'[e] = executions[e]
    BY <1>1, <1>2, <2>1 DEF Exists, Status
  <2>2. CASE CreateExecution(e)
    BY <2>2 DEF CreateExecution
  <2>3. CASE executions'[e] = NoExecution
    BY <2>3 DEF Status, NoExecution
  <2>4. ~Exists(e) /\ canceller[e] = "idle"
    BY <1>1, <1>2
  <2>5. ~CancelWrite(e) /\ \A w \in Workers : held[w] = e => ~WriteRunning(w) /\ ~Finalize(w)
    BY <2>4 DEF CancelWrite, WriteRunning, Finalize
  <2>. QED BY <2>1, <2>2, <2>3, <2>5, RowChanges
<1>4. e \in submitted' => client'[e] = "served"
  <2>1. e \in submitted => client'[e] = "served"
    <3>1. ASSUME NEW d \in Executions, Api(d), client[e] = "served"
          PROVE  client'[e] = "served"
      BY <3>1 DEF Api, CreateExecution, Submit, SubmitFails, DeleteExecution, CancelRead,
                  CancelWrite, CancelProcess, CancelKilled, CancelRemove, CancelFails,
                  CancelRemoveFails, api_vars
    <3>2. ASSUME NEW w \in Workers, Worker(w)
          PROVE  UNCHANGED client
      BY <3>2 DEF Worker, Dequeue, DequeueFails, ReadRow, WriteRunning, StartFails, Register,
                  ProcessEnds, CancelReceived, Unregister, CheckCancelled, Finalize,
                  FinalizeFails, Settle, api_vars
    <3>. QED BY <1>1, <3>1, <3>2 DEF Next, ReportPid, RetryTask, Cleanup, Restart, vars, api_vars
  <2>2. e \in submitted' => e \in submitted \/ Submit(e)
    <3>1. ASSUME NEW d \in Executions, Api(d)
          PROVE  e \in submitted' => e \in submitted \/ Submit(e)
      BY <3>1 DEF Api, CreateExecution, Submit, SubmitFails, DeleteExecution, CancelRead,
                  CancelWrite, CancelProcess, CancelKilled, CancelRemove, CancelFails,
                  CancelRemoveFails, Q!Enqueue, Q!Remove, Q!RemoveError, Q!CascadeDelete,
                  queue_vars
    <3>2. ASSUME NEW w \in Workers, Worker(w)
          PROVE  UNCHANGED submitted
      BY <3>2 DEF Worker, Dequeue, DequeueFails, ReadRow, WriteRunning, StartFails, Register,
                  ProcessEnds, CancelReceived, Unregister, CheckCancelled, Finalize,
                  FinalizeFails, Settle, queue_vars, Q!DequeueMemory, Q!DequeueOverflow,
                  Q!DequeueError, Q!DequeueUnreadable, Q!DequeueStranded, Q!MarkCompleted,
                  Q!MarkFailed, Q!MarkFailedWithRetry, Q!MarkError
    <3>3. ASSUME NEW d \in Executions, RetryTask(d)
          PROVE  UNCHANGED submitted
      BY <3>3 DEF RetryTask, Q!RetryRequeue, Q!RetryRequeueError, Q!RetryPush, Q!RetryUnreadable
    <3>. QED BY <3>1, <3>2, <3>3 DEF Next, ReportPid, Cleanup, Q!Cleanup, Restart, Q!Restart,
                                     Q!RestartUnrecovered, Q!StartUp, vars, queue_vars
  <2>3. Submit(e) => client'[e] = "served"
    BY DEF Submit
  <2>. QED BY <2>1, <2>2, <2>3
<1>. QED BY <1>2, <1>3, <1>4, <1>1

(* Until a restart what was put back, and what was submitted, stays so. *)
LEMMA HistoryGrows ==
    ASSUME [Next]_vars, ~Restart
    PROVE  retried \subseteq retried' /\ submitted \subseteq submitted'
BY QueueStepOfRun
   DEF queue_vars, Q!WorkerStep, Q!QueueStep, Q!DequeueMemory, Q!DequeueOverflow, Q!DequeueError,
       Q!DequeueUnreadable, Q!DequeueStranded, Q!MarkCompleted, Q!MarkFailed,
       Q!MarkFailedWithRetry, Q!MarkError, Q!Spawn, Q!Enqueue, Q!Remove, Q!RemoveError,
       Q!RetryRequeue, Q!RetryRequeueError, Q!RetryPush, Q!RetryUnreadable, Q!RetryDeadLetter,
       Q!CascadeDelete, Q!Cleanup

(* Only its cancel withdraws an execution, and marks it before. *)
LEMMA CancelChanges ==
    ASSUME TypeOK, [Next]_vars, ~Restart, NEW e \in Executions
    PROVE  /\ canceller'[e] \in {"marked", "signalled"} =>
               canceller[e] \in {"marked", "signalled"} \/ CancelWrite(e)
           /\ e \in withdrawn' => \/ e \in withdrawn
                                  \/ CancelRemove(e) /\ Q!HasStatus(e, "queued") /\ e \notin retried
<1>. USE DEF TypeOK, CancelStep, api_vars, history_vars
<1>1. ASSUME NEW d \in Executions, Api(d)
      PROVE  /\ canceller'[e] \in {"marked", "signalled"} =>
                 canceller[e] \in {"marked", "signalled"} \/ CancelWrite(e)
             /\ e \in withdrawn' =>
                 \/ e \in withdrawn
                 \/ CancelRemove(e) /\ Q!HasStatus(e, "queued") /\ e \notin retried
  BY <1>1 DEF Api, CreateExecution, Submit, SubmitFails, DeleteExecution, CancelRead,
              CancelWrite, CancelProcess, CancelKilled, CancelRemove, CancelFails,
              CancelRemoveFails
<1>2. ASSUME NEW w \in Workers, Worker(w)
      PROVE  UNCHANGED <<canceller, withdrawn>>
  BY <1>2 DEF Worker, Dequeue, DequeueFails, ReadRow, WriteRunning, StartFails, Register,
              ProcessEnds, CancelReceived, Unregister, CheckCancelled, Finalize, FinalizeFails,
              Settle
<1>. QED BY <1>1, <1>2 DEF Next, ReportPid, RetryTask, Cleanup, vars

(* Between the write of a cancel and its removal from the queue no worker has
   the execution unless one had it before. *)
LEMMA MarkedStep ==
    IInv /\ Q!IInv /\ ClientsKept /\ MarkedIsOff /\ [Next]_vars => MarkedIsOff'
<1>. SUFFICES ASSUME IInv, Q!IInv, ClientsKept, MarkedIsOff, [Next]_vars,
                     NEW e \in Executions, e \notin retried',
                     canceller'[e] \in {"marked", "signalled"},
                     Q!HasStatus(e, "queued")' \/ e \notin submitted'
              PROVE  Status(e)' \in {"cancelled", "absent"}
  BY DEF MarkedIsOff
<1>1. TypeOK /\ ~Restart
  BY DEF IInv, Restart
<1>2. e \notin retried /\ (e \in submitted => e \in submitted')
  BY <1>1, HistoryGrows
<1>3. Q!HasStatus(e, "queued") \/ e \notin submitted
  <2>1. CASE UNCHANGED queue_vars
    BY <2>1 DEF queue_vars, Q!HasStatus
  <2>2. CASE Q!HasStatus(e, "queued")' /\ ~UNCHANGED queue_vars
    <3>1. \/ \E w \in Workers : QP!WorkerStep(w)
          \/ \E d \in Executions : QP!QueueStep(d)
          \/ QP!Cleanup
      BY <1>1, <2>2, QueueStepOfRun, SameSteps
    <3>2. QP!IInv /\ QP!HasStatus(e, "queued")'
      BY <2>2, SameProperties DEF QP!HasStatus, Q!HasStatus
    <3>3. Priorities \subseteq Int /\ MaxMemorySize \in Nat /\ MaxTasks \in Nat
          /\ QP!IsFiniteSet(Executions) /\ Nobody \notin Executions
      BY QueueAssumption, NobodyAssumption DEF IsFiniteSet, QP!IsFiniteSet
    <3>. QED BY <3>1, <3>2, <3>3, QP!QueuedBefore DEF QP!HasStatus, Q!HasStatus
  <2>. QED BY <1>2, <2>1, <2>2
<1>4. ~Q!Busy(e)
  BY <1>2, <1>3 DEF Q!IInv, Q!UnknownBefore, Q!Unknown, Q!SingleDelivery, Q!DeliveredOnce,
                    Q!HolderIsProcessing, Q!HasStatus
<1>5. CASE CancelWrite(e)
  BY <1>1, <1>5 DEF CancelWrite, TypeOK, Status, Execution
<1>6. CASE ~CancelWrite(e)
  <2>1. canceller[e] \in {"marked", "signalled"}
    BY <1>1, <1>6, CancelChanges
  <2>2. Status(e) \in {"cancelled", "absent"}
    BY <1>2, <1>3, <2>1 DEF MarkedIsOff
  <2>3. ~CreateExecution(e)
    BY <2>1 DEF ClientsKept, CreateExecution
  <2>4. \A w \in Workers : held[w] # e
    BY <1>4 DEF Q!Busy
  <2>5. executions'[e] = executions[e] \/ executions'[e] = NoExecution
    BY <1>1, <1>6, <2>3, <2>4, RowChanges
  <2>. QED BY <2>2, <2>5 DEF Status, NoExecution
<1>. QED BY <1>5, <1>6

LEMMA SameInvariantNext == Q!IInv' <=> QP!IInv'
<1>1. Q!IInv <=> QP!IInv
  BY SameProperties
<1>. QED BY <1>1, PTL

(* The queue's invariant is kept by every step of the pool. *)
LEMMA QueueKept == Q!IInv /\ [Next]_vars => Q!IInv'
<1>. SUFFICES ASSUME Q!IInv, [Next]_vars PROVE Q!IInv'
  OBVIOUS
<1>1. Priorities \subseteq Int /\ MaxMemorySize \in Nat /\ MaxTasks \in Nat
      /\ QP!IsFiniteSet(Executions) /\ Nobody \notin Executions
  BY QueueAssumption, NobodyAssumption DEF IsFiniteSet, QP!IsFiniteSet
<1>2. QP!IInv /\ [QP!Next]_(QP!vars)
  BY StepOfQueue, SameSteps, SameProperties
<1>3. QP!IInv'
  BY <1>1, <1>2, QP!IInvStep
<1>. QED BY <1>3, SameInvariantNext

(* A withdrawn execution stays gone, and its row as the cancel left it. *)
LEMMA WithdrawnStep ==
    IInv /\ Q!IInv /\ WithdrawnInv /\ [Next]_vars => WithdrawnGone'
<1>. SUFFICES ASSUME IInv, Q!IInv, WithdrawnInv, [Next]_vars, NEW e \in withdrawn'
              PROVE  QP!Gone(e)' /\ Status(e)' \in {"cancelled", "absent"}
  BY DEF WithdrawnGone
<1>. USE DEF WithdrawnInv
<1>1. TypeOK /\ e \in Executions
  <2>1. TypeOK /\ Q!TypeOK'
    BY QueueKept DEF IInv, Q!IInv
  <2>. QED BY <2>1, PoolTypeStep DEF IInv, TypeOK
<1>2. CASE e \in withdrawn
  <2>1. QP!Gone(e) /\ Status(e) \in {"cancelled", "absent"}
    BY <1>2 DEF WithdrawnGone
  <2>2. QP!Gone(e)'
    <3>1. QP!TypeOK /\ [QP!Next]_(QP!vars)
      BY StepOfQueue, SameSteps, SameProperties DEF Q!IInv
    <3>2. Priorities \subseteq Int /\ MaxMemorySize \in Nat /\ MaxTasks \in Nat
          /\ QP!IsFiniteSet(Executions) /\ Nobody \notin Executions
      BY QueueAssumption, NobodyAssumption DEF IsFiniteSet, QP!IsFiniteSet
    <3>. QED BY <1>1, <2>1, <3>1, <3>2, QP!GoneStays
  <2>3. e \in submitted /\ \A w \in Workers : held[w] # e
    BY <2>1 DEF QP!Gone, QP!Busy
  <2>4. ~CreateExecution(e)
    BY <1>1, <2>3 DEF ClientsKept, CreateExecution
  <2>5. executions'[e] = executions[e] \/ executions'[e] = NoExecution
                                      \/ Status(e)' = "cancelled"
    BY <1>1, <2>3, <2>4, RowChanges
  <2>. QED BY <2>1, <2>2, <2>5 DEF Status, NoExecution
<1>3. CASE e \notin withdrawn
  <2>1. ~Restart
    BY <1>3 DEF Restart, history_vars
  <2>2. CancelRemove(e) /\ Q!HasStatus(e, "queued") /\ e \notin retried
    BY <1>1, <1>3, <2>1, CancelChanges
  <2>3. Status(e) \in {"cancelled", "absent"} /\ executions' = executions
    BY <1>1, <2>2 DEF CancelRemove, CancelStep, MarkedIsOff
  <2>4. e \in submitted /\ ~Q!Busy(e) /\ \A s \in Q!RetryStages : retry_tasks[e][s] = 0
    <3>1. e \in submitted
      BY <1>1, <2>2 DEF Q!IInv, Q!UnknownBefore, Q!Unknown, Q!HasStatus
    <3>2. ~Q!Busy(e)
      BY <1>1, <2>2 DEF Q!IInv, Q!SingleDelivery, Q!DeliveredOnce, Q!HolderIsProcessing, Q!HasStatus
    <3>3. \A s \in Q!RetryStages : retry_tasks[e][s] \in 0..MaxTasks
      BY <1>1 DEF Q!IInv, Q!TypeOK
    <3>4. \A s \in Q!RetryStages : ~(retry_tasks[e][s] > 0)
      BY <1>1, <2>2 DEF Q!IInv, Q!TasksArePutBack
    <3>. QED BY <3>1, <3>2, <3>3, <3>4, QueueAssumption
  <2>5. Q!Remove(e) /\ job_queue \in [Executions -> Q!QueueEntry]
    BY <2>2 DEF CancelRemove, Q!IInv, Q!TypeOK
  <2>6. QP!Gone(e)'
    BY <1>1, <2>2, <2>4, <2>5 DEF Q!Remove, Q!DeleteEntry, Q!NoEntry, Q!Busy, Q!RetryStages,
                                  QP!Gone, QP!HasStatus, QP!Busy, QP!RetryStages
  <2>. QED BY <2>3, <2>6 DEF Status
<1>. QED BY <1>2, <1>3

(* The queue's own invariant, in every run of the pool *)
LEMMA PoolQueueInvariant == Spec => []Q!IInv
<1>1. Priorities \subseteq Int /\ MaxMemorySize \in Nat /\ MaxTasks \in Nat
      /\ QP!IsFiniteSet(Executions) /\ Nobody \notin Executions
  BY QueueAssumption, NobodyAssumption DEF IsFiniteSet, QP!IsFiniteSet
<1>2. QP!Spec => []QP!IInv
  BY <1>1, QP!QueueInvariant
<1>3. Spec => QP!Spec
  BY ImplementsQueue, SameSteps, PTL DEF QueueSpec, Q!Spec, QP!Spec
<1>4. QP!IInv <=> Q!IInv
  BY SameProperties
<1>. QED BY <1>2, <1>3, <1>4, PTL

(* An execution cancelled while it was only queued never reaches a worker:
   its row, its items and its tasks are gone for good, over restarts, requests
   that overlap and any failure. *)
THEOREM WithdrawnStaysOut == Spec => []WithdrawnNeverRuns
<1>1. Init => WithdrawnInv
  BY DEF Init, Q!Init, WithdrawnInv, ClientsKept, MarkedIsOff, WithdrawnGone, Exists, Status,
         NoExecution
<1>2. IInv /\ Q!IInv /\ WithdrawnInv /\ [Next]_vars => WithdrawnInv'
  BY ClientsStep, MarkedStep, WithdrawnStep DEF WithdrawnInv, IInv
<1>3. WithdrawnInv => WithdrawnNeverRuns
  BY DEF WithdrawnInv, WithdrawnGone, WithdrawnNeverRuns, QP!Gone, QP!Busy, Q!Busy
<1>. QED BY PoolInvariant, PoolQueueInvariant, <1>1, <1>2, <1>3, PTL DEF Spec

-----------------------------------------------------------------------------
(* The two tables, for executions nobody cancelled and the queue never put
   back, while the database and the clients do not fail. *)

(* Where an execution's queue row stands ... *)
RowAgrees(e) ==
    /\ Status(e) # "cancelled"
    /\ e \notin submitted => Status(e) = "pending"
    /\ Q!HasStatus(e, "completed") => Status(e) = "success"
    /\ Q!HasStatus(e, "dead_letter") =>
        Status(e) \in {"failed", "timeout"} /\ executions[e].retry_count >= JobMaxRetries
    /\ ~Q!HasStatus(e, "failed")
    /\ Q!HasStatus(e, "processing") => Q!Busy(e)
    /\ e \in submitted /\ Q!HasStatus(e, "absent") =>
        Status(e) = "success" /\ ~Q!Busy(e) /\ \A i \in memory_queue : i.execution_id # e

(* ... and what its worker is about to settle it with *)
RunAgrees(e) ==
    \A w \in Workers : held[w] = e /\ At(w, "settling") => Status(e) = result[w]

Agreement == \A e \in Executions \ touched : Exists(e) => RowAgrees(e) /\ RunAgrees(e)

(* The queue did nothing to an execution in this step. *)
QueueUnmoved(e) ==
    /\ job_queue'[e] = job_queue[e]
    /\ e \in submitted' <=> e \in submitted
    /\ \A w \in Workers : held'[w] = e <=> held[w] = e
    /\ \A i \in memory_queue' : i.execution_id = e => i \in memory_queue

(* The agreement is what the property asks for, and more. *)
LEMMA AgreementSuffices == Q!TypeOK /\ Agreement => TablesAgree
BY DEF Agreement, RowAgrees, TablesAgree, Q!HasStatus, Q!TypeOK, Q!QueueEntry, Q!QueueStatus

(* What the queue does for one execution leaves the others where they are: *)

(* an operation called with its id ... *)
LEMMA CallsOfOthers ==
    ASSUME Q!TypeOK, NEW e \in Executions, NEW d \in Executions, d # e,
           \/ \E p \in Priorities : Q!Enqueue(d, p)
           \/ Q!Remove(d) \/ Q!RemoveError(d) \/ Q!CascadeDelete(d) \/ RetryTask(d)
    PROVE  QueueUnmoved(e)
BY DEF QueueUnmoved, Q!TypeOK, Q!Enqueue, Q!Remove, Q!RemoveError, Q!CascadeDelete, Q!DeleteEntry,
       RetryTask, Q!RetryRequeue, Q!RetryRequeueError, Q!RetryPush, Q!RetryUnreadable, Q!SetStatus,
       Q!HeapPush

(* ... and one called by the worker that holds it, or will. *)
LEMMA WorkersOfOthers ==
    ASSUME Q!TypeOK, NEW e \in Executions, NEW w \in Workers, held[w] # e, held'[w] # e,
           \/ Q!DequeueMemory(w) \/ Q!DequeueOverflow(w) \/ Q!MarkCompleted(w) \/ Q!MarkFailed(w)
           \/ \E n, max : Q!MarkFailedWithRetry(w, n, max)
    PROVE  QueueUnmoved(e)
<1>. USE DEF QueueUnmoved, Q!TypeOK, Q!SetStatus, Q!Release
<1>1. CASE Q!DequeueMemory(w)
  BY <1>1 DEF Q!DequeueMemory, Q!HeapTop, Q!QueueItem
<1>2. CASE Q!DequeueOverflow(w)
  BY <1>2 DEF Q!DequeueOverflow, Q!Queued
<1>3. CASE Q!MarkCompleted(w) \/ Q!MarkFailed(w)
  BY <1>3 DEF Q!MarkCompleted, Q!MarkFailed
<1>4. ASSUME NEW n, NEW max, Q!MarkFailedWithRetry(w, n, max)
      PROVE  QueueUnmoved(e)
  BY <1>4 DEF Q!MarkFailedWithRetry, Q!Spawn
<1>. QED BY <1>1, <1>2, <1>3, <1>4

(* Where neither the row nor the queue moved, the row still agrees. *)
LEMMA RowKept ==
    ASSUME NEW e \in Executions, RowAgrees(e), QueueUnmoved(e), executions'[e] = executions[e]
    PROVE  RowAgrees(e)'
BY DEF RowAgrees, QueueUnmoved, Status, Q!HasStatus, Q!Busy

(* An untouched execution that a worker holds has a processing row and no
   other worker. *)
LEMMA SoleHolder ==
    ASSUME Q!IInv, PutBackIsTouched, NEW e \in Executions, e \notin touched, RowAgrees(e),
           NEW w \in Workers, held[w] = e
    PROVE  /\ e \in submitted /\ job_queue[e].status = "processing"
           /\ \A v \in Workers : held[v] = e => v = w
<1>1. e \notin retried /\ Q!Busy(e)
  BY DEF PutBackIsTouched, Q!Busy
<1>2. e \in submitted
  BY <1>1 DEF Q!IInv, Q!UnknownBefore, Q!Unknown
<1>. QED BY <1>1, <1>2 DEF Q!IInv, Q!SingleDelivery, Q!DeliveredOnce, Q!OneHolder,
                           Q!HolderIsProcessing, RowAgrees, Q!HasStatus

(* An untouched execution with a heap item is waiting in its row too. *)
LEMMA ItemWaits ==
    ASSUME Q!IInv, PutBackIsTouched, NEW e \in Executions, e \notin touched, RowAgrees(e),
           NEW i \in memory_queue, i.execution_id = e
    PROVE  e \in submitted /\ job_queue[e].status = "queued" /\ ~Q!Busy(e)
<1>1. e \notin retried
  BY DEF PutBackIsTouched
<1>2. e \in submitted
  BY <1>1 DEF Q!IInv, Q!UnknownBefore, Q!Unknown
<1>. QED BY <1>1, <1>2 DEF Q!IInv, Q!SingleDelivery, Q!DeliveredOnce, Q!ItemIsWaiting, RowAgrees,
                           Q!HasStatus

(* Nor does what a worker is about to settle change under it. *)
LEMMA RunKept ==
    ASSUME NEW e \in Executions, RunAgrees(e), executions'[e] = executions[e],
           \A w \in Workers : held'[w] = e /\ pc'[w] = "settling" =>
               held[w] = e /\ pc[w] = "settling" /\ result'[w] = result[w]
    PROVE  RunAgrees(e)'
BY DEF RunAgrees, Status, At

(* A request keeps the agreement of the executions it does not touch. *)
LEMMA AgreementApi ==
    ASSUME IInv, Q!IInv, ClientsKept, ~Faults, NEW d \in Executions, Api(d),
           NEW e \in Executions, e \notin touched', Exists(e)',
           Exists(e) => RowAgrees(e) /\ RunAgrees(e)
    PROVE  RowAgrees(e)' /\ RunAgrees(e)'
<1>. USE DEF queue_vars, worker_vars, history_vars
<1>1. TypeOK /\ Q!TypeOK /\ CancelsAreTouched /\ PutBackIsTouched
  BY DEF IInv, Q!IInv
<1>2. CASE CreateExecution(d) /\ d = e
  <2>1. ~Exists(e) /\ e \notin submitted
    BY <1>2 DEF ClientsKept, CreateExecution
  <2>2. Status(e)' = "pending" /\ UNCHANGED <<queue_vars, worker_vars>>
    BY <1>1, <1>2 DEF CreateExecution, TypeOK, Status, NewExecution
  <2>3. e \notin retried /\ e \notin touched
    BY <1>1, <1>2 DEF PutBackIsTouched, CreateExecution
  <2>4. ~Q!Busy(e) /\ job_queue[e].status = "absent"
    BY <2>1, <2>3 DEF Q!IInv, Q!UnknownBefore, Q!Unknown, Q!HasStatus
  <2>5. RowAgrees(e)'
    BY <2>1, <2>2, <2>4 DEF RowAgrees, Q!HasStatus, Status
  <2>6. RunAgrees(e)'
    BY <2>2, <2>4 DEF RunAgrees, Q!Busy
  <2>. QED BY <2>5, <2>6
<1>3. CASE Submit(d) /\ d = e
  <2>1. RowAgrees(e) /\ RunAgrees(e) /\ executions' = executions /\ UNCHANGED worker_vars
    BY <1>3 DEF Submit
  <2>2. /\ held' = held /\ e \in submitted' /\ job_queue'[e].status = "queued"
    BY <1>1, <1>3 DEF Submit, Q!Enqueue, Q!TypeOK
  <2>3. RowAgrees(e)'
    BY <2>1, <2>2 DEF RowAgrees, Q!HasStatus, Status
  <2>. QED BY <2>1, <2>2, <2>3, RunKept
<1>4. CASE UNCHANGED <<executions, queue_vars, worker_vars>>
  <2>1. QueueUnmoved(e) /\ Exists(e)
    BY <1>4 DEF QueueUnmoved, Exists, Status
  <2>. QED BY <1>4, <2>1, RowKept, RunKept
<1>5. ASSUME d # e, executions'[e] = executions[e], QueueUnmoved(e), UNCHANGED worker_vars
      PROVE  RowAgrees(e)' /\ RunAgrees(e)'
  <2>1. Exists(e)
    BY <1>5 DEF Exists, Status
  <2>. QED BY <1>5, <2>1, RowKept, RunKept DEF QueueUnmoved
<1>6. CASE CreateExecution(d) /\ d # e
  BY <1>1, <1>5, <1>6 DEF CreateExecution, QueueUnmoved, TypeOK
<1>7. CASE Submit(d) /\ d # e
  BY <1>1, <1>5, <1>7, CallsOfOthers DEF Submit
<1>8. CASE DeleteExecution(d)
  <2>1. d # e
    BY <1>1, <1>8 DEF DeleteExecution, TypeOK, Exists, Status, NoExecution
  <2>2. QueueUnmoved(e)
    BY <1>1, <1>8, <2>1, CallsOfOthers DEF DeleteExecution, QueueUnmoved
  <2>. QED BY <1>1, <1>5, <1>8, <2>1, <2>2 DEF DeleteExecution, TypeOK
<1>9. CASE CancelWrite(d)
  <2>1. d # e
    BY <1>1, <1>9 DEF CancelWrite, CancelStep, CancelsAreTouched
  <2>. QED BY <1>1, <1>5, <1>9, <2>1 DEF CancelWrite, TypeOK, QueueUnmoved
<1>10. CASE CancelRemove(d)
  <2>1. d # e
    BY <1>1, <1>10 DEF CancelRemove, CancelStep, CancelsAreTouched
  <2>. QED BY <1>1, <1>5, <1>10, <2>1, CallsOfOthers DEF CancelRemove
<1>. QED BY <1>2, <1>3, <1>4, <1>6, <1>7, <1>8, <1>9, <1>10
         DEF Api, SubmitFails, CancelRead, CancelProcess, CancelKilled, CancelFails,
             CancelRemoveFails

(* A worker's round keeps it: the row is settled with what it says. *)
LEMMA AgreementWorker ==
    ASSUME IInv, Q!IInv, ~Faults, NEW w \in Workers, Worker(w),
           NEW e \in Executions, e \notin touched, e \notin touched', Exists(e)', RowAgrees(e),
           RunAgrees(e)
    PROVE  RowAgrees(e)' /\ RunAgrees(e)'
<1>. USE DEF queue_vars, worker_vars, history_vars, WorkerMoves, Goto, At
<1>1. TypeOK /\ Q!TypeOK /\ PutBackIsTouched /\ Nobody \notin Executions
  BY NobodyAssumption DEF IInv, Q!IInv
<1>2. /\ pc \in [Workers -> {"idle", "claimed", "starting", "registering", "executing",
                             "executed", "reporting", "finalizing", "settling"}]
      /\ row \in [Workers -> Execution]
      /\ result \in [Workers -> {"none", "success", "failed", "timeout"}]
      /\ executions \in [Executions -> Execution]
      /\ held \in [Workers -> Executions \cup {Nobody}]
      /\ job_queue \in [Executions -> Q!QueueEntry]
  BY <1>1 DEF TypeOK, Q!TypeOK
<1>3. held[w] = e => /\ e \in submitted /\ job_queue[e].status = "processing"
                     /\ \A v \in Workers : held[v] = e => v = w
  BY <1>1, SoleHolder
<1>4. CASE Dequeue(w) /\ held'[w] = e
  <2>1. e \in submitted /\ job_queue[e].status = "queued"
    <3>1. CASE Q!DequeueMemory(w)
      <4>1. PICK i \in memory_queue : held' = [held EXCEPT ![w] = i.execution_id]
        BY <3>1 DEF Q!DequeueMemory, Q!HeapTop
      <4>2. i.execution_id = e
        BY <1>2, <1>4, <4>1
      <4>. QED BY <1>1, <4>2, ItemWaits
    <3>2. CASE Q!DequeueOverflow(w)
      <4>1. job_queue[e].status = "queued"
        BY <1>2, <1>4, <3>2 DEF Q!DequeueOverflow, Q!Queued, Q!HasStatus
      <4>. QED BY <1>1, <4>1 DEF Q!IInv, Q!UnknownBefore, Q!Unknown, Q!HasStatus
    <3>. QED BY <1>4, <3>1, <3>2 DEF Dequeue
  <2>2. ~Q!Busy(e)
    BY <1>1, <2>1 DEF Q!IInv, Q!SingleDelivery, Q!DeliveredOnce, Q!HolderIsProcessing,
                      PutBackIsTouched, Q!HasStatus
  <2>3. job_queue'[e].status = "processing" /\ submitted' = submitted
    <3>1. Q!SetStatus(e, "processing") /\ submitted' = submitted
      <4>1. CASE Q!DequeueMemory(w)
        BY <1>2, <1>4, <4>1 DEF Q!DequeueMemory
      <4>2. CASE Q!DequeueOverflow(w)
        BY <1>2, <1>4, <4>2 DEF Q!DequeueOverflow
      <4>. QED BY <1>4, <4>1, <4>2 DEF Dequeue
    <3>. QED BY <1>2, <2>1, <3>1 DEF Q!SetStatus, Q!QueueEntry
  <2>4. executions' = executions /\ pc' = [pc EXCEPT ![w] = "claimed"] /\ result' = result
    BY <1>4 DEF Dequeue
  <2>5. RowAgrees(e)'
    BY <1>4, <2>1, <2>3, <2>4 DEF RowAgrees, Q!HasStatus, Q!Busy, Status
  <2>6. \A v \in Workers : v # w => held'[v] = held[v]
    BY <1>2, <1>4 DEF Dequeue, Q!DequeueMemory, Q!DequeueOverflow
  <2>. QED BY <1>2, <2>2, <2>4, <2>5, <2>6 DEF RunAgrees, Q!Busy
<1>5. ASSUME held[w] # e, held'[w] # e, executions'[e] = executions[e], QueueUnmoved(e),
             \A v \in Workers : v # w => pc'[v] = pc[v] /\ result'[v] = result[v]
      PROVE  RowAgrees(e)' /\ RunAgrees(e)'
  <2>1. \A v \in Workers : held'[v] = e => held[v] = e /\ v # w
    BY <1>5 DEF QueueUnmoved
  <2>. QED BY <1>5, <2>1, RowKept, RunKept
<1>6. ASSUME UNCHANGED <<executions, queue_vars>>, pc'[w] # "settling" \/ held[w] # e,
             \A v \in Workers : v # w => pc'[v] = pc[v] /\ result'[v] = result[v]
      PROVE  RowAgrees(e)' /\ RunAgrees(e)'
  <2>1. QueueUnmoved(e)
    BY <1>6 DEF QueueUnmoved
  <2>2. \A v \in Workers : held'[v] = e /\ pc'[v] = "settling" => held[v] = e /\ v # w
    BY <1>6
  <2>. QED BY <1>6, <2>1, <2>2, RowKept, RunKept
<1>7. CASE Dequeue(w) /\ held'[w] # e
  <2>1. held[w] # e
    BY <1>1, <1>7 DEF Dequeue, Q!DequeueMemory, Q!DequeueOverflow
  <2>2. QueueUnmoved(e)
    BY <1>1, <1>7, <2>1, WorkersOfOthers DEF Dequeue
  <2>. QED BY <1>2, <1>5, <1>7, <2>1, <2>2 DEF Dequeue
<1>8. CASE ReadRow(w)
  BY <1>2, <1>6, <1>8 DEF ReadRow
<1>9. CASE WriteRunning(w) /\ held[w] = e
  <2> DEFINE r == [row[w] EXCEPT !.status = "running"]
  <2>1. executions' = [executions EXCEPT ![e] = r] /\ UNCHANGED queue_vars
    BY <1>9 DEF WriteRunning
  <2>2. r.status = "running"
    BY <1>2 DEF Execution
  <2> HIDE DEF r
  <2>3. Status(e)' = "running"
    BY <1>2, <2>1, <2>2 DEF Status
  <2>4. pc' = [pc EXCEPT ![w] = "registering"]
    BY <1>9 DEF WriteRunning
  <2>5. RowAgrees(e)'
    BY <1>3, <1>9, <2>1, <2>3 DEF RowAgrees, Q!HasStatus, Q!Busy
  <2>. QED BY <1>2, <1>3, <1>9, <2>1, <2>4, <2>5 DEF RunAgrees
<1>10. CASE WriteRunning(w) /\ held[w] # e
  <2>1. executions'[e] = executions[e] /\ UNCHANGED queue_vars /\ result' = result
        /\ \A v \in Workers : v # w => pc'[v] = pc[v]
    BY <1>2, <1>10 DEF WriteRunning
  <2>2. QueueUnmoved(e)
    BY <2>1 DEF QueueUnmoved
  <2>. QED BY <1>5, <1>10, <2>1, <2>2
<1>11. CASE StartFails(w)
  <2>1. held[w] # e /\ executions' = executions
    BY <1>11 DEF StartFails, Exists, Status
  <2>2. held'[w] # e
    BY <1>1, <1>2, <1>11, SettlingReleases DEF StartFails
  <2>3. QueueUnmoved(e)
    BY <1>1, <1>11, <2>1, <2>2, WorkersOfOthers DEF StartFails
  <2>. QED BY <1>2, <1>5, <1>11, <2>1, <2>2, <2>3 DEF StartFails
<1>12. CASE Register(w) \/ ProcessEnds(w) \/ CancelReceived(w) \/ Unregister(w)
  BY <1>2, <1>6, <1>12 DEF Register, ProcessEnds, CancelReceived, Unregister
<1>13. CASE CheckCancelled(w)
  BY <1>2, <1>6, <1>13 DEF CheckCancelled, RowAgrees
<1>14. CASE Finalize(w) /\ held[w] = e
  <2> DEFINE r == [executions[e] EXCEPT !.status = result[w], !.completed = TRUE]
  <2>1. executions' = [executions EXCEPT ![e] = r] /\ UNCHANGED <<queue_vars, result>>
    BY <1>14 DEF Finalize
  <2>2. r.status = result[w]
    BY <1>2 DEF Execution
  <2> HIDE DEF r
  <2>3. Status(e)' = result[w] /\ result[w] # "cancelled"
    BY <1>2, <2>1, <2>2 DEF Status
  <2>4. pc' = [pc EXCEPT ![w] = "settling"]
    BY <1>14 DEF Finalize
  <2>5. RowAgrees(e)'
    BY <1>3, <1>14, <2>1, <2>3 DEF RowAgrees, Q!HasStatus, Q!Busy
  <2>. QED BY <1>2, <1>3, <1>14, <2>1, <2>3, <2>5 DEF RunAgrees
<1>15. CASE Finalize(w) /\ held[w] # e
  <2>1. executions'[e] = executions[e] /\ UNCHANGED queue_vars /\ result' = result
        /\ \A v \in Workers : v # w => pc'[v] = pc[v]
    BY <1>2, <1>15 DEF Finalize
  <2>2. QueueUnmoved(e)
    BY <2>1 DEF QueueUnmoved
  <2>. QED BY <1>5, <1>15, <2>1, <2>2
<1>16. CASE FinalizeFails(w)
  <2>1. held[w] # e
    BY <1>16 DEF FinalizeFails, Exists, Status
  <2>. QED BY <1>2, <1>6, <1>16, <2>1 DEF FinalizeFails
<1>17. CASE Settle(w)
  <2>1. held' = [held EXCEPT ![w] = Nobody] /\ executions' = executions
    BY <1>17, SettlingReleases DEF Settle
  <2>2. CASE held[w] # e
    <3>1. held'[w] # e
      BY <1>1, <1>2, <2>1
    <3>2. QueueUnmoved(e)
      BY <1>1, <1>17, <2>2, <3>1, WorkersOfOthers DEF Settle
    <3>. QED BY <1>2, <1>5, <1>17, <2>1, <2>2, <3>1, <3>2 DEF Settle
  <2>3. CASE held[w] = e
    <3>1. \A v \in Workers : held'[v] # e
      BY <1>1, <1>2, <1>3, <2>1, <2>3
    <3>2. Status(e) = result[w] /\ result[w] \in {"success", "failed", "timeout"}
      BY <1>2, <1>17, <2>3 DEF Settle, RunAgrees, IInv, OutcomeKnown
    <3>3. e \notin retried' /\ submitted' = submitted
      BY <1>17 DEF Settle, Q!MarkCompleted, Q!MarkFailedWithRetry
    <3>4. CASE result[w] = "success"
      <4>1. Q!SetStatus(e, "completed")
        BY <1>17, <2>3, <3>4 DEF Settle, Q!MarkCompleted
      <4>2. job_queue'[e].status = "completed"
        BY <1>2, <1>3, <2>3, <4>1 DEF Q!SetStatus, Q!QueueEntry
      <4>. QED BY <1>3, <2>1, <2>3, <3>1, <3>2, <3>3, <3>4, <4>2
               DEF RowAgrees, RunAgrees, Q!HasStatus, Status
    <3>5. CASE result[w] # "success"
      <4>1. Q!MarkFailedWithRetry(w, executions[e].retry_count, JobMaxRetries)
        BY <1>17, <2>1, <2>3, <3>5 DEF Settle, RetryCounts, RetryLimits, Exists, Status
      <4>2. executions[e].retry_count \in 0..JobMaxRetries
        BY <1>2 DEF Execution
      <4>3. ~(executions[e].retry_count < JobMaxRetries)
        BY <1>3, <2>3, <3>3, <4>1 DEF Q!MarkFailedWithRetry, Q!Spawn, Q!HasEntry, Q!HasStatus
      <4>4. executions[e].retry_count >= JobMaxRetries
        BY <4>2, <4>3, RetriesAssumption
      <4>5. Q!SetStatus(e, "dead_letter")
        BY <2>3, <4>1, <4>3 DEF Q!MarkFailedWithRetry
      <4>6. job_queue'[e].status = "dead_letter"
        BY <1>2, <1>3, <2>3, <4>5 DEF Q!SetStatus, Q!QueueEntry
      <4>. QED BY <1>3, <2>1, <2>3, <3>1, <3>2, <3>3, <3>5, <4>4, <4>6
               DEF RowAgrees, RunAgrees, Q!HasStatus, Status
    <3>. QED BY <3>4, <3>5
  <2>. QED BY <2>2, <2>3
<1>. QED BY <1>4, <1>7, <1>8, <1>9, <1>10, <1>11, <1>12, <1>13, <1>14, <1>15, <1>16, <1>17
         DEF Worker, DequeueFails

(* Whoever retries acts for an execution the queue put back. *)
LEMMA RetryTaskPutBack ==
    ASSUME Q!IInv, NEW d \in Executions, RetryTask(d)
    PROVE  d \in retried
<1>1. \E s \in Q!RetryStages : retry_tasks[d][s] > 0
  BY DEF RetryTask, Q!RetryRequeue, Q!RetryRequeueError, Q!RetryPush, Q!RetryUnreadable, Q!Finish,
         Q!RetryStages
<1>. QED BY <1>1 DEF Q!IInv, Q!TasksArePutBack

(* The background tasks and a restart keep the agreement. *)
LEMMA AgreementOthers ==
    ASSUME IInv, Q!IInv, ~Faults, NEW e \in Executions, e \notin touched, RowAgrees(e), RunAgrees(e),
           \/ \E d \in Executions : ReportPid(d) \/ RetryTask(d)
           \/ Cleanup \/ Restart
    PROVE  RowAgrees(e)' /\ RunAgrees(e)'
<1>. USE DEF queue_vars, worker_vars, history_vars
<1>1. TypeOK /\ Q!TypeOK /\ PutBackIsTouched /\ Nobody \notin Executions
  BY NobodyAssumption DEF IInv, Q!IInv
<1>2. e \notin retried /\ job_queue \in [Executions -> Q!QueueEntry]
  BY <1>1 DEF PutBackIsTouched, Q!TypeOK
<1>3. ASSUME NEW d \in Executions, ReportPid(d)
      PROVE  RowAgrees(e)' /\ RunAgrees(e)'
  BY <1>3, RowKept, RunKept DEF ReportPid, QueueUnmoved
<1>4. ASSUME NEW d \in Executions, RetryTask(d)
      PROVE  RowAgrees(e)' /\ RunAgrees(e)'
  <2>1. d # e
    BY <1>2, <1>4, RetryTaskPutBack
  <2>2. QueueUnmoved(e) /\ held' = held
    BY <1>1, <1>4, <2>1, CallsOfOthers, OthersKeepHeld
  <2>. QED BY <1>4, <2>2, RowKept, RunKept DEF RetryTask
<1>5. CASE Cleanup
  <2>1. /\ UNCHANGED <<executions, worker_vars, held, submitted, memory_queue>>
        /\ \/ job_queue'[e] = job_queue[e]
           \/ job_queue[e].status \in {"completed", "failed"} /\ job_queue'[e] = Q!NoEntry
    BY <1>5 DEF Cleanup, Q!Cleanup
  <2>2. RunAgrees(e)'
    BY <2>1, RunKept
  <2>3. CASE job_queue'[e] = job_queue[e]
    BY <2>1, <2>2, <2>3, RowKept DEF QueueUnmoved
  <2>4. CASE job_queue[e].status \in {"completed", "failed"} /\ job_queue'[e] = Q!NoEntry
    <3>1. job_queue[e].status = "completed" /\ Status(e) = "success"
      BY <2>4 DEF RowAgrees, Q!HasStatus
    <3>2. ~Q!Busy(e) /\ \A i \in memory_queue : i.execution_id # e
      BY <1>2, <3>1 DEF Q!IInv, Q!SingleDelivery, Q!DeliveredOnce, Q!HolderIsProcessing,
                        Q!ItemIsWaiting
    <3>3. job_queue'[e].status = "absent"
      BY <2>4 DEF Q!NoEntry
    <3>4. e \in submitted
      BY <1>2, <3>1 DEF Q!IInv, Q!UnknownBefore, Q!Unknown, Q!HasStatus
    <3>. QED BY <2>1, <2>2, <3>1, <3>2, <3>3, <3>4 DEF RowAgrees, Q!HasStatus, Q!Busy, Status
  <2>. QED BY <2>1, <2>3, <2>4
<1>6. CASE Restart
  <2>1. Q!Restart /\ executions' = executions
    BY <1>6 DEF Restart
  <2>2. /\ submitted' = submitted /\ \A w \in Workers : held'[w] # e
        /\ job_queue'[e] = Q!Reset(job_queue[e])
        /\ \A i \in memory_queue' : i.execution_id = e => job_queue'[e].status = "queued"
    BY <1>1, <2>1 DEF Q!Restart, Q!StartUp, Q!RecoverLoad, Q!Recovered
  <2>3. /\ job_queue[e].status = "processing" => job_queue'[e].status = "queued"
        /\ job_queue[e].status # "processing" => job_queue'[e] = job_queue[e]
    BY <1>2, <2>2 DEF Q!Reset, Q!QueueEntry
  <2>4. RunAgrees(e)'
    BY <2>2 DEF RunAgrees
  <2>5. RowAgrees(e)'
    <3>1. CASE job_queue[e].status = "processing"
      <4>1. e \in submitted
        BY <1>2, <3>1 DEF Q!IInv, Q!UnknownBefore, Q!Unknown, Q!HasStatus
      <4>. QED BY <2>1, <2>2, <2>3, <3>1, <4>1 DEF RowAgrees, Q!HasStatus, Status
    <3>2. CASE job_queue[e].status # "processing"
      BY <2>1, <2>2, <2>3, <3>2 DEF RowAgrees, Q!HasStatus, Q!Busy, Status
    <3>. QED BY <3>1, <3>2
  <2>. QED BY <2>4, <2>5
<1>. QED BY <1>3, <1>4, <1>5, <1>6

(* Only a create brings a row about: any other row there is was there before. *)
LEMMA ExistedBefore ==
    ASSUME TypeOK, [Next]_vars, NEW e \in Executions, Exists(e)', ~CreateExecution(e)
    PROVE  Exists(e)
<1>1. executions'[e] # NoExecution /\ (executions'[e] = executions[e] => Exists(e))
  BY DEF Exists, Status, NoExecution
<1>2. \A w \in Workers : held[w] = e /\ (WriteRunning(w) \/ Finalize(w)) => Exists(e)
  BY DEF WriteRunning, Finalize
<1>3. CancelWrite(e) => Exists(e)
  BY DEF CancelWrite
<1>. QED BY <1>1, <1>2, <1>3, RowChanges

(* Every step of the whole system keeps it. *)
LEMMA AgreementStep ==
    ~Faults /\ IInv /\ Q!IInv /\ ClientsKept /\ Agreement /\ [Next]_vars => Agreement'
<1>. SUFFICES ASSUME ~Faults, IInv, Q!IInv, ClientsKept, Agreement, [Next]_vars,
                     NEW e \in Executions, e \notin touched', Exists(e)'
              PROVE  RowAgrees(e)' /\ RunAgrees(e)'
  BY DEF Agreement
<1>1. TypeOK /\ PutBackIsTouched /\ e \notin touched
  BY TouchedStep DEF IInv
<1>2. Exists(e) => RowAgrees(e) /\ RunAgrees(e)
  BY <1>1 DEF Agreement
<1>3. ASSUME NEW d \in Executions, Api(d)
      PROVE  RowAgrees(e)' /\ RunAgrees(e)'
  BY <1>2, <1>3, AgreementApi
<1>4. CASE Exists(e)
  <2>1. ASSUME NEW w \in Workers, Worker(w)
        PROVE  RowAgrees(e)' /\ RunAgrees(e)'
    BY <1>1, <1>2, <1>4, <2>1, AgreementWorker
  <2>2. CASE UNCHANGED vars
    BY <1>2, <1>4, <2>2, RowKept, RunKept DEF vars, queue_vars, worker_vars, QueueUnmoved
  <2>. QED BY <1>1, <1>2, <1>3, <1>4, <2>1, <2>2, AgreementOthers DEF Next
<1>5. CASE ~Exists(e)
  <2>1. CreateExecution(e)
    BY <1>1, <1>5, ExistedBefore
  <2>. QED BY <1>3, <2>1 DEF Api
<1>. QED BY <1>4, <1>5

(* While neither the database nor a client fails, the executions table and
   the queue's table agree on every execution nobody cancelled or put back,
   whatever the workers, the retention and restarts do. *)
THEOREM TablesStayInStep == ASSUME ~Faults PROVE Spec => []TablesAgree
<1>1. Init => ClientsKept /\ Agreement
  BY DEF Init, Q!Init, ClientsKept, Agreement, Exists, Status, NoExecution
<1>2. IInv /\ ClientsKept /\ [Next]_vars => ClientsKept'
  BY ClientsStep DEF IInv
<1>3. IInv /\ Q!IInv /\ ClientsKept /\ Agreement /\ [Next]_vars => Agreement'
  BY AgreementStep
<1>4. Q!IInv /\ Agreement => TablesAgree
  BY AgreementSuffices DEF Q!IInv
<1>. QED BY PoolInvariant, PoolQueueInvariant, <1>1, <1>2, <1>3, <1>4, PTL DEF Spec

-----------------------------------------------------------------------------
(* What a retry of the queue counts for. *)

(* The copy a worker is about to write back has the count of its row. *)
CopiesCountTheSame ==
    \A w \in Workers : At(w, "starting") /\ Exists(held[w]) =>
        row[w].retry_count = executions[held[w]].retry_count

(* Nothing that a worker holds is still to be created. *)
LEMMA HeldIsCreated ==
    ASSUME Q!IInv, ClientsKept, NEW w \in Workers, NEW e \in Executions, held[w] = e
    PROVE  ~CreateExecution(e)
<1>1. e \in submitted
  BY DEF Q!IInv, Q!UnknownBefore, Q!Unknown, Q!Busy
<1>. QED BY <1>1 DEF ClientsKept, CreateExecution

(* A row that is there before and after a step keeps its count. *)
LEMMA CountStays ==
    ASSUME TypeOK, ClientsKept, CopiesCountTheSame, [Next]_vars,
           NEW e \in Executions, Exists(e), Exists(e)'
    PROVE  executions'[e].retry_count = executions[e].retry_count
<1>. USE DEF TypeOK
<1>. DEFINE old == executions[e]
<1>1. ~CreateExecution(e)
  BY DEF ClientsKept, CreateExecution
<1>2. executions'[e] # NoExecution
  BY DEF Exists, Status, NoExecution
<1>3. old \in Execution
  OBVIOUS
<1>4. CASE CancelWrite(e)
  <2>1. executions'[e] = [old EXCEPT !.status = "cancelled", !.completed = TRUE]
    BY <1>4 DEF CancelWrite
  <2>2. [old EXCEPT !.status = "cancelled", !.completed = TRUE].retry_count = old.retry_count
    BY <1>3 DEF Execution
  <2>. QED BY <2>1, <2>2
<1>5. ASSUME NEW w \in Workers, held[w] = e, Finalize(w)
      PROVE  executions'[e].retry_count = executions[e].retry_count
  <2>1. executions'[e] = [old EXCEPT !.status = result[w], !.completed = TRUE]
    BY <1>5 DEF Finalize
  <2>2. [old EXCEPT !.status = result[w], !.completed = TRUE].retry_count = old.retry_count
    BY <1>3 DEF Execution
  <2>. QED BY <2>1, <2>2
<1>6. ASSUME NEW w \in Workers, held[w] = e, WriteRunning(w)
      PROVE  executions'[e].retry_count = executions[e].retry_count
  <2>1. executions'[e] = [row[w] EXCEPT !.status = "running"]
    BY <1>6 DEF WriteRunning
  <2>2. row[w] \in Execution
    OBVIOUS
  <2>3. [row[w] EXCEPT !.status = "running"].retry_count = row[w].retry_count
    BY <2>2 DEF Execution
  <2>4. row[w].retry_count = executions[e].retry_count
    BY <1>6 DEF CopiesCountTheSame, WriteRunning, WorkerMoves
  <2>. QED BY <2>1, <2>3, <2>4
<1>. QED BY <1>1, <1>2, <1>4, <1>5, <1>6, RowChanges

(* A copy is taken from the row, and the row keeps its count under it. *)
LEMMA CopiesStep ==
    IInv /\ Q!IInv /\ ClientsKept /\ CopiesCountTheSame /\ [Next]_vars => CopiesCountTheSame'
<1>. SUFFICES ASSUME IInv, Q!IInv, ClientsKept, CopiesCountTheSame, [Next]_vars,
                     NEW v \in Workers, pc'[v] = "starting", Exists(held[v])'
              PROVE  row'[v].retry_count = executions'[held'[v]].retry_count
  BY DEF CopiesCountTheSame, At, Exists, Status
<1>1. TypeOK /\ held \in [Workers -> Executions \cup {Nobody}] /\ Nobody \notin Executions
  BY NobodyAssumption DEF IInv, Q!IInv, Q!TypeOK
<1>2. CASE pc[v] = "starting" /\ held'[v] = held[v] /\ row'[v] = row[v]
  <2>1. PICK e \in Executions : held[v] = e
    BY <1>1, <1>2 DEF TypeOK, At
  <2>2. Exists(e)' /\ executions'[held'[v]] = executions'[e]
    BY <1>2, <2>1 DEF Exists, Status
  <2>3. ~CreateExecution(e)
    BY <2>1, HeldIsCreated
  <2>4. Exists(e)
    BY <1>1, <2>2, <2>3, ExistedBefore
  <2>5. row[v].retry_count = executions[e].retry_count
    BY <1>2, <2>1, <2>4 DEF CopiesCountTheSame, At
  <2>6. executions'[e].retry_count = executions[e].retry_count
    BY <1>1, <2>2, <2>4, CountStays
  <2>. QED BY <1>2, <2>2, <2>5, <2>6
<1>3. ASSUME NEW w \in Workers, Worker(w)
      PROVE  row'[v].retry_count = executions'[held'[v]].retry_count
  <2>1. CASE v # w
    BY <1>1, <1>2, <1>3, <2>1, WorkerFrame
  <2>2. CASE v = w /\ ReadRow(w)
    <3>1. held' = held /\ executions' = executions
      BY <2>2 DEF ReadRow, queue_vars
    <3>2. row'[v] = executions[held[v]]
      BY <1>1, <2>2 DEF ReadRow, TypeOK
    <3>. QED BY <3>1, <3>2
  <2>3. CASE v = w /\ DequeueFails(w)
    <3>1. held' = held /\ UNCHANGED worker_vars
      BY <2>3, OthersKeepHeld DEF DequeueFails
    <3>. QED BY <1>2, <3>1 DEF worker_vars
  <2>4. v = w => ReadRow(w) \/ DequeueFails(w)
    BY <1>1, <1>3 DEF Worker, Dequeue, WriteRunning, StartFails, Register, ProcessEnds,
                      CancelReceived, Unregister, CheckCancelled, Finalize, FinalizeFails, Settle,
                      WorkerMoves, Goto, At, TypeOK
  <2>. QED BY <2>1, <2>2, <2>3, <2>4
<1>4. CASE Restart
  BY <1>4 DEF Restart
<1>5. CASE UNCHANGED vars
  BY <1>2, <1>5 DEF vars, queue_vars, worker_vars
<1>. QED BY <1>2, <1>3, <1>4, <1>5, OthersFrame DEF Next

(* So the queue decides over every retry from the count an execution was created
   with. *)
CountsKept ==
    [][\A e \in Executions : Exists(e) /\ Exists(e)' =>
           executions'[e].retry_count = executions[e].retry_count]_vars

LEMMA RetriesAreNotCounted == Spec => CountsKept
<1>1. Init => ClientsKept /\ CopiesCountTheSame
  BY DEF Init, Q!Init, ClientsKept, CopiesCountTheSame, Exists, Status, NoExecution, At
<1>2. IInv /\ ClientsKept /\ [Next]_vars => ClientsKept'
  BY ClientsStep DEF IInv
<1>3. IInv /\ Q!IInv /\ ClientsKept /\ CopiesCountTheSame /\ [Next]_vars => CopiesCountTheSame'
  BY CopiesStep
<1>4. IInv /\ ClientsKept /\ CopiesCountTheSame /\ [Next]_vars =>
          [\A e \in Executions : Exists(e) /\ Exists(e)' =>
               executions'[e].retry_count = executions[e].retry_count]_vars
  BY CountStays DEF IInv
<1>. QED BY PoolInvariant, PoolQueueInvariant, <1>1, <1>2, <1>3, <1>4, PTL
         DEF Spec, CountsKept

(* Only a worker that settles a failed run brings an entry to the dead letter
   queue. *)
LEMMA DeadBy ==
    ASSUME Q!TypeOK, [Next]_vars, NEW e \in Executions,
           Q!HasStatus(e, "dead_letter")', ~Q!HasStatus(e, "dead_letter")
    PROVE  \E w \in Workers, n \in RetryCounts(e), max \in RetryLimits(e) :
               held[w] = e /\ Q!MarkFailedWithRetry(w, n, max)
<1>1. /\ job_queue'[e].status = "dead_letter" /\ job_queue[e].status # "dead_letter"
      /\ job_queue \in [Executions -> Q!QueueEntry]
  BY DEF Q!TypeOK, Q!HasStatus
<1>. USE <1>1
<1>2. ASSUME NEW d \in Executions, NEW s, Q!SetStatus(d, s)
      PROVE  d = e /\ s = "dead_letter"
  BY <1>2 DEF Q!SetStatus, Q!QueueEntry
<1>3. ASSUME NEW d \in Executions, Q!DeleteEntry(d)
      PROVE  FALSE
  BY <1>3 DEF Q!DeleteEntry, Q!NoEntry
<1>4. job_queue' # job_queue
  OBVIOUS
<1>5. ASSUME NEW d \in Executions, Api(d) \/ RetryTask(d) \/ ReportPid(d)
      PROVE  FALSE
  <2>1. ASSUME NEW p \in Priorities, Q!Enqueue(d, p)
        PROVE  FALSE
    BY <2>1 DEF Q!Enqueue
  <2>2. ~Q!Remove(d) /\ ~Q!RemoveError(d) /\ ~Q!CascadeDelete(d)
    BY <1>3, <1>4 DEF Q!Remove, Q!RemoveError, Q!CascadeDelete
  <2>3. ~RetryTask(d)
    BY <1>2, <1>4 DEF RetryTask, Q!RetryRequeue, Q!RetryRequeueError, Q!RetryPush,
                      Q!RetryUnreadable
  <2>. QED BY <1>4, <1>5, <2>1, <2>2, <2>3
           DEF Api, CreateExecution, Submit, SubmitFails, DeleteExecution, CancelRead, CancelWrite,
               CancelProcess, CancelKilled, CancelRemove, CancelFails, CancelRemoveFails,
               ReportPid, queue_vars
<1>6. ASSUME NEW w \in Workers, Worker(w)
      PROVE  \E n \in RetryCounts(e), max \in RetryLimits(e) :
                 held[w] = e /\ Q!MarkFailedWithRetry(w, n, max)
  <2>1. ~Q!DequeueMemory(w) /\ ~Q!DequeueOverflow(w)
    BY <1>2 DEF Q!DequeueMemory, Q!DequeueOverflow, Q!HeapTop, Q!QueueItem, Q!TypeOK, Q!Queued
  <2>2. ~Q!DequeueError(w) /\ ~Q!DequeueUnreadable(w) /\ ~Q!DequeueStranded(w)
    BY <1>2, <1>4 DEF Q!DequeueError, Q!DequeueUnreadable, Q!DequeueStranded, Q!Queued
  <2>3. held[w] \in Executions \cup {Nobody}
    BY DEF Q!TypeOK
  <2>4. ~Q!MarkCompleted(w) /\ ~Q!MarkFailed(w) /\ ~Q!MarkError(w)
    BY <1>2, <1>4, <2>3 DEF Q!MarkCompleted, Q!MarkFailed, Q!MarkError
  <2>5. \A n, max : Q!MarkFailedWithRetry(w, n, max) => held[w] = e
    BY <1>2, <1>4, <2>3 DEF Q!MarkFailedWithRetry
  <2>. QED BY <1>4, <1>6, <2>1, <2>2, <2>4, <2>5
           DEF Worker, Dequeue, DequeueFails, ReadRow, WriteRunning, StartFails, Register,
               ProcessEnds, CancelReceived, Unregister, CheckCancelled, Finalize, FinalizeFails,
               Settle, queue_vars
<1>7. ~Cleanup
  BY DEF Cleanup, Q!Cleanup, Q!NoEntry
<1>8. ~Restart
  BY <1>4 DEF Restart, Q!Restart, Q!RestartUnrecovered, Q!Reset, Q!QueueEntry
<1>. QED BY <1>4, <1>5, <1>6, <1>7, <1>8 DEF Next, vars, queue_vars

(* While the database does not fail, no execution is given up that had a
   retry left, whoever cancelled it and however often the queue put it back. *)
THEOREM NothingGivenUpEarly == ASSUME ~Faults PROVE Spec => []OnlySpentOnesAreDead
<1>1. Init => ClientsKept /\ OnlySpentOnesAreDead
  BY DEF Init, Q!Init, ClientsKept, OnlySpentOnesAreDead, Exists, Status, NoExecution
<1>2. IInv /\ ClientsKept /\ [Next]_vars => ClientsKept'
  BY ClientsStep DEF IInv
<1>3. IInv /\ Q!IInv /\ ClientsKept /\ OnlySpentOnesAreDead /\ [Next]_vars
          /\ [\A e \in Executions : Exists(e) /\ Exists(e)' =>
                  executions'[e].retry_count = executions[e].retry_count]_vars
      => OnlySpentOnesAreDead'
  <2>. SUFFICES ASSUME IInv, Q!IInv, ClientsKept, OnlySpentOnesAreDead, [Next]_vars,
                       [\A e \in Executions : Exists(e) /\ Exists(e)' =>
                            executions'[e].retry_count = executions[e].retry_count]_vars,
                       NEW e \in Executions, Exists(e)', Q!HasStatus(e, "dead_letter")'
                PROVE  executions'[e].retry_count >= JobMaxRetries
    BY DEF OnlySpentOnesAreDead
  <2>1. TypeOK /\ Q!TypeOK
    BY DEF IInv, Q!IInv
  <2>2. Exists(e) /\ executions'[e].retry_count = executions[e].retry_count
    <3>1. CASE CreateExecution(e)
      <4>1. e \notin submitted
        BY <3>1 DEF ClientsKept, CreateExecution
      <4>2. job_queue[e].status = "absent" /\ job_queue' = job_queue
        BY <3>1, <4>1 DEF Q!IInv, Q!UnknownBefore, Q!Unknown, Q!HasStatus, CreateExecution,
                          queue_vars
      <4>. QED BY <4>2 DEF Q!HasStatus
    <3>2. CASE ~CreateExecution(e)
      <4>1. Exists(e)
        BY <2>1, <3>2, ExistedBefore
      <4>. QED BY <4>1 DEF vars
    <3>. QED BY <3>1, <3>2
  <2>3. CASE Q!HasStatus(e, "dead_letter")
    BY <2>2, <2>3 DEF OnlySpentOnesAreDead
  <2>4. CASE ~Q!HasStatus(e, "dead_letter")
    <3>1. PICK w \in Workers, n \in RetryCounts(e), max \in RetryLimits(e) :
              held[w] = e /\ Q!MarkFailedWithRetry(w, n, max)
      BY <2>1, <2>4, DeadBy
    <3>2. n = executions[e].retry_count /\ max = JobMaxRetries
      BY <2>2 DEF RetryCounts, RetryLimits
    <3>3. executions[e].retry_count \in 0..JobMaxRetries
      BY <2>1 DEF TypeOK, Execution
    <3>4. ~(n < max)
      <4>1. CASE Q!HasEntry(e)
        BY <2>4, <3>1, <4>1 DEF Q!MarkFailedWithRetry, Q!HasStatus
      <4>2. CASE ~Q!HasEntry(e)
        <5>1. job_queue[e].status = "absent" /\ job_queue \in [Executions -> Q!QueueEntry]
          BY <2>1, <4>2 DEF Q!HasEntry, Q!HasStatus, Q!TypeOK
        <5>2. Q!SetStatus(e, "dead_letter")
          BY <3>1, <4>2 DEF Q!MarkFailedWithRetry
        <5>3. job_queue'[e].status = "absent"
          BY <5>1, <5>2 DEF Q!SetStatus, Q!QueueEntry
        <5>. QED BY <5>3 DEF Q!HasStatus
      <4>. QED BY <4>1, <4>2
    <3>. QED BY <2>2, <3>2, <3>3, <3>4, RetriesAssumption
  <2>. QED BY <2>3, <2>4
<1>. QED BY PoolInvariant, PoolQueueInvariant, RetriesAreNotCounted, <1>1, <1>2, <1>3, PTL
         DEF Spec, CountsKept
=============================================================================
