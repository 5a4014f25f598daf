------------------------- MODULE QueueManagerProofs -------------------------
(***************************************************************************)
(* Proofs about QueueManager, for any executions, workers, priorities and  *)
(* heap size.  IInv is the inductive invariant.                            *)
(***************************************************************************)
EXTENDS QueueManager, FiniteSetTheorems, TLAPS

-----------------------------------------------------------------------------
(* What the operators of the model do to a well-typed state. *)

(* An UPDATE of the status keeps the table's type. *)
LEMMA SetStatusType ==
    ASSUME NEW e \in Executions, NEW s \in QueueStatus, TypeOK, SetStatus(e, s)
    PROVE  /\ job_queue' \in [Executions -> QueueEntry]
           /\ \A d \in Executions \ {e} : job_queue'[d] = job_queue[d]
           /\ HasStatus(e, "absent") => job_queue'[e].status = "absent"
           /\ ~HasStatus(e, "absent") => job_queue'[e].status = s
BY DEF TypeOK, SetStatus, QueueEntry, QueueStatus, HasStatus

(* A DELETE keeps the table's type. *)
LEMMA DeleteEntryType ==
    ASSUME NEW e \in Executions, TypeOK, DeleteEntry(e)
    PROVE  /\ job_queue' \in [Executions -> QueueEntry]
           /\ \A d \in Executions \ {e} : job_queue'[d] = job_queue[d]
           /\ job_queue'[e].status = "absent"
BY DEF TypeOK, DeleteEntry, NoEntry, QueueEntry

(* A push adds at most one item, of that execution, and never overfills. *)
LEMMA HeapPushLemma ==
    ASSUME NEW e \in Executions, NEW p \in Priorities, TypeOK, HeapPush(e, p)
    PROVE  /\ memory_queue' \in SUBSET QueueItem
           /\ IsFiniteSet(memory_queue')
           /\ MemoryBounded => MemoryBounded'
           /\ \E i \in QueueItem : /\ i.execution_id = e
                                   /\ \A j \in memory_queue' : j \in memory_queue \/ j = i
<1> DEFINE n == Cardinality(Copies(e, p)) + 1
           i == [execution_id |-> e, priority |-> p, copy |-> n]
<1>1. IsFiniteSet(memory_queue) /\ Cardinality(memory_queue) \in Nat
  BY FS_CardinalityType DEF TypeOK
<1>2. Copies(e, p) \in SUBSET memory_queue
  BY DEF Copies
<1>3. n \in Nat
  BY <1>1, <1>2, FS_Subset, FS_CardinalityType
<1>4. i \in QueueItem /\ i.execution_id = e
  BY <1>3, PrioritiesAssumption DEF QueueItem
<1>. HIDE DEF n, i
<1>5. IsFiniteSet(memory_queue \cup {i})
      /\ Cardinality(memory_queue \cup {i}) <= Cardinality(memory_queue) + 1
  <2>1. /\ IsFiniteSet(memory_queue \cup {i})
        /\ Cardinality(memory_queue \cup {i}) =
              IF i \in memory_queue THEN Cardinality(memory_queue)
                                    ELSE Cardinality(memory_queue) + 1
    BY <1>1, FS_AddElement
  <2>. QED BY <1>1, <2>1
<1>6. CASE Cardinality(memory_queue) < MaxMemorySize
  <2>1. memory_queue' = memory_queue \cup {i}
    BY <1>6 DEF HeapPush, n, i
  <2>2. Cardinality(memory_queue') \in Nat
    BY <2>1, <1>5, FS_CardinalityType
  <2>3. MemoryBounded'
    BY <2>1, <2>2, <1>1, <1>5, <1>6, BoundsAssumption DEF MemoryBounded
  <2>. QED BY <2>1, <2>3, <1>4, <1>5 DEF TypeOK
<1>7. CASE ~(Cardinality(memory_queue) < MaxMemorySize)
  <2>1. memory_queue' = memory_queue
    BY <1>7 DEF HeapPush
  <2>. QED BY <2>1, <1>4 DEF TypeOK, MemoryBounded
<1>. QED BY <1>6, <1>7

(* Dropping items keeps the heap's type and bound. *)
LEMMA HeapShrinks ==
    ASSUME TypeOK, memory_queue' \in SUBSET memory_queue
    PROVE  /\ memory_queue' \in SUBSET QueueItem
           /\ IsFiniteSet(memory_queue')
           /\ MemoryBounded => MemoryBounded'
<1>1. IsFiniteSet(memory_queue') /\ Cardinality(memory_queue') <= Cardinality(memory_queue)
  BY FS_Subset DEF TypeOK
<1>2. Cardinality(memory_queue) \in Nat /\ Cardinality(memory_queue') \in Nat
  BY <1>1, FS_CardinalityType DEF TypeOK
<1>. QED BY <1>1, <1>2, BoundsAssumption DEF TypeOK, MemoryBounded

(* The items recover may load are finitely many. *)
LEMMA RecoveredFinite ==
    ASSUME NEW q \in [Executions -> QueueEntry]
    PROVE  Recovered(q) \in SUBSET QueueItem /\ IsFiniteSet(Recovered(q))
<1> DEFINE D == {d \in Executions : q[d].status = "queued"}
           item(e) == [execution_id |-> e, priority |-> q[e].priority, copy |-> 1]
           f == [e \in D |-> item(e)]
<1>1. IsFiniteSet(D)
  BY FS_Subset, ExecutionsAssumption
<1>2. f \in Surjection(D, Recovered(q))
  BY DEF Surjection, Recovered
<1>3. IsFiniteSet(Recovered(q))
  BY <1>1, <1>2, FS_Surjection
<1>4. Recovered(q) \in SUBSET QueueItem
  BY DEF Recovered, QueueItem, QueueEntry
<1>. QED BY <1>3, <1>4

(* Loading the heap respects its type and bound. *)
LEMMA RecoverLoadType ==
    ASSUME NEW q \in [Executions -> QueueEntry], RecoverLoad(q)
    PROVE  /\ memory_queue' \in SUBSET QueueItem
           /\ IsFiniteSet(memory_queue')
           /\ MemoryBounded'
           /\ memory_queue' \in SUBSET Recovered(q)
<1>1. PICK loaded \in SUBSET Recovered(q) :
          Cardinality(loaded) <= MaxMemorySize /\ memory_queue' = loaded
  BY DEF RecoverLoad
<1>2. IsFiniteSet(loaded)
  BY <1>1, RecoveredFinite, FS_Subset
<1>. QED BY <1>1, <1>2, RecoveredFinite DEF MemoryBounded

(* Starting and finishing a task keeps the counters within MaxTasks. *)
LEMMA TasksType ==
    ASSUME NEW e \in Executions, NEW s \in RetryStages, TypeOK,
           Spawn(e, s) \/ Finish(e, s)
    PROVE  retry_tasks' \in [Executions -> [RetryStages -> 0..MaxTasks]]
<1> DEFINE N == 0..MaxTasks
           F == [RetryStages -> N]
<1>1. retry_tasks \in [Executions -> F] /\ retry_tasks[e] \in F /\ retry_tasks[e][s] \in N
  BY DEF TypeOK
<1>2. CASE Spawn(e, s)
  <2>1. retry_tasks[e][s] + 1 \in N
    BY <1>1, <1>2, BoundsAssumption DEF Spawn
  <2>2. retry_tasks' = [retry_tasks EXCEPT ![e][s] = retry_tasks[e][s] + 1]
    BY <1>2 DEF Spawn
  <2>. HIDE DEF N
  <2>3. [retry_tasks[e] EXCEPT ![s] = retry_tasks[e][s] + 1] \in F
    BY <1>1, <2>1
  <2>. HIDE DEF F
  <2>4. retry_tasks' \in [Executions -> F]
    BY <1>1, <2>2, <2>3
  <2>. QED BY <2>4 DEF F, N
<1>3. CASE Finish(e, s)
  <2>1. retry_tasks[e][s] - 1 \in N
    BY <1>1, <1>3, BoundsAssumption DEF Finish
  <2>2. retry_tasks' = [retry_tasks EXCEPT ![e][s] = retry_tasks[e][s] - 1]
    BY <1>3 DEF Finish
  <2>. HIDE DEF N
  <2>3. [retry_tasks[e] EXCEPT ![s] = retry_tasks[e][s] - 1] \in F
    BY <1>1, <2>1
  <2>. HIDE DEF F
  <2>4. retry_tasks' \in [Executions -> F]
    BY <1>1, <2>2, <2>3
  <2>. QED BY <2>4 DEF F, N
<1>. QED BY <1>2, <1>3

-----------------------------------------------------------------------------
(* Every step keeps the types and the bound of the heap. *)
LEMMA TypeStep == TypeOK /\ MemoryBounded /\ [Next]_vars => TypeOK' /\ MemoryBounded'
<1>. SUFFICES ASSUME TypeOK, MemoryBounded, [Next]_vars
              PROVE  TypeOK' /\ MemoryBounded'
  OBVIOUS
<1>. USE DEF QueueStatus
<1>1. ASSUME NEW w \in Workers, WorkerStep(w)
      PROVE  TypeOK' /\ MemoryBounded'
  <2>. held[w] \in Executions \cup {Nobody} /\ (held[w] # Nobody => held[w] \in Executions)
    BY DEF TypeOK
  <2>. "sleeping" \in RetryStages
    BY DEF RetryStages
  <2>1. CASE DequeueMemory(w)
    <3>1. PICK i \in memory_queue : /\ memory_queue' = memory_queue \ {i}
                                    /\ SetStatus(i.execution_id, "processing")
                                    /\ held' = [held EXCEPT ![w] = i.execution_id]
      BY <2>1 DEF DequeueMemory, HeapTop
    <3>2. i.execution_id \in Executions
      BY DEF TypeOK, QueueItem
    <3>3. job_queue' \in [Executions -> QueueEntry]
      BY <3>1, <3>2, SetStatusType
    <3>. QED BY <2>1, <3>1, <3>2, <3>3, HeapShrinks DEF DequeueMemory, TypeOK
  <2>2. CASE DequeueError(w)
    <3>1. memory_queue' \in SUBSET memory_queue
      BY <2>2 DEF DequeueError
    <3>. QED BY <2>2, <3>1, HeapShrinks DEF DequeueError, TypeOK
  <2>3. CASE DequeueOverflow(w)
    <3>1. PICK e \in Queued : /\ SetStatus(e, "processing")
                              /\ held' = [held EXCEPT ![w] = e]
      BY <2>3 DEF DequeueOverflow
    <3>2. job_queue' \in [Executions -> QueueEntry]
      BY <3>1, SetStatusType DEF Queued
    <3>. QED BY <2>3, <3>1, <3>2 DEF DequeueOverflow, TypeOK, MemoryBounded, Queued
  <2>4. CASE DequeueUnreadable(w)
    <3>1. job_queue' \in [Executions -> QueueEntry]
      BY <2>4, SetStatusType DEF DequeueUnreadable, Queued
    <3>. QED BY <2>4, <3>1 DEF DequeueUnreadable, TypeOK, MemoryBounded
  <2>9. CASE DequeueStranded(w)
    <3>1. PICK e \in Queued : SetStatus(e, "processing") /\ unrecorded' = unrecorded \cup {e}
      BY <2>9 DEF DequeueStranded
    <3>2. job_queue' \in [Executions -> QueueEntry]
      BY <3>1, SetStatusType DEF Queued
    <3>. QED BY <2>9, <3>1, <3>2 DEF DequeueStranded, TypeOK, MemoryBounded, Queued
  <2>5. CASE MarkCompleted(w)
    <3>1. job_queue' \in [Executions -> QueueEntry]
      BY <2>5, SetStatusType DEF MarkCompleted
    <3>. QED BY <2>5, <3>1 DEF MarkCompleted, Release, TypeOK, MemoryBounded
  <2>6. CASE MarkFailed(w)
    <3>1. job_queue' \in [Executions -> QueueEntry]
      BY <2>6, SetStatusType DEF MarkFailed
    <3>. QED BY <2>6, <3>1 DEF MarkFailed, Release, TypeOK, MemoryBounded
  <2>7. ASSUME NEW n \in 0..1, NEW max \in 0..1, MarkFailedWithRetry(w, n, max)
        PROVE  TypeOK' /\ MemoryBounded'
    <3>1. CASE n < max /\ HasEntry(held[w])
      <4>1. Spawn(held[w], "sleeping") /\ UNCHANGED <<memory_queue, job_queue>>
        BY <2>7, <3>1 DEF MarkFailedWithRetry
      <4>2. retry_tasks' \in [Executions -> [RetryStages -> 0..MaxTasks]]
        BY <2>7, <4>1, TasksType DEF MarkFailedWithRetry
      <4>. QED BY <2>7, <4>1, <4>2 DEF MarkFailedWithRetry, Spawn, Release, TypeOK, MemoryBounded
    <3>2. CASE ~(n < max /\ HasEntry(held[w]))
      <4>1. SetStatus(held[w], "dead_letter") /\ UNCHANGED <<retry_tasks, retried>>
        BY <2>7, <3>2 DEF MarkFailedWithRetry
      <4>2. job_queue' \in [Executions -> QueueEntry]
        BY <2>7, <4>1, SetStatusType DEF MarkFailedWithRetry
      <4>. QED BY <2>7, <4>1, <4>2 DEF MarkFailedWithRetry, Release, TypeOK, MemoryBounded
    <3>. QED BY <3>1, <3>2
  <2>8. CASE MarkError(w)
    BY <2>8 DEF MarkError, Release, TypeOK, MemoryBounded
  <2>. QED BY <1>1, <2>1, <2>2, <2>3, <2>4, <2>5, <2>6, <2>7, <2>8, <2>9 DEF WorkerStep
<1>2. ASSUME NEW e \in Executions, QueueStep(e)
      PROVE  TypeOK' /\ MemoryBounded'
  <2>. "sleeping" \in RetryStages /\ "requeued" \in RetryStages /\ "revived" \in RetryStages
    BY DEF RetryStages
  <2>1. ASSUME NEW p \in Priorities, Enqueue(e, p)
        PROVE  TypeOK' /\ MemoryBounded'
    <3>1. IsFiniteSet(submitted)
      BY ExecutionsAssumption, FS_Subset DEF TypeOK
    <3>2. Cardinality(submitted) \in Nat
      BY <3>1, FS_CardinalityType
    <3>3. job_queue' \in [Executions -> QueueEntry]
      BY <2>1, <3>2, PrioritiesAssumption DEF Enqueue, TypeOK, QueueEntry
    <3>. QED BY <2>1, <3>3, HeapPushLemma DEF Enqueue, TypeOK
  <2>2. CASE Remove(e)
    <3>1. memory_queue' \in SUBSET memory_queue
      BY <2>2 DEF Remove
    <3>. QED BY <2>2, <3>1, HeapShrinks, DeleteEntryType DEF Remove, TypeOK
  <2>3. CASE RemoveError(e)
    <3>1. memory_queue' \in SUBSET memory_queue
      BY <2>3 DEF RemoveError
    <3>. QED BY <2>3, <3>1, HeapShrinks DEF RemoveError, TypeOK
  <2>4. CASE RetryRequeue(e)
    <3>1. job_queue' \in [Executions -> QueueEntry]
      BY <2>4, SetStatusType DEF RetryRequeue
    <3>2. retry_tasks' \in [Executions -> [RetryStages -> 0..MaxTasks]]
      <4> DEFINE N == 0..MaxTasks
                 F == [RetryStages -> N]
      <4>1. retry_tasks \in [Executions -> F] /\ retry_tasks[e] \in F
            /\ retry_tasks[e]["sleeping"] \in N /\ retry_tasks[e]["requeued"] \in N
        BY DEF TypeOK
      <4>2. retry_tasks[e]["sleeping"] - 1 \in N /\ retry_tasks[e]["requeued"] + 1 \in N
        BY <2>4, <4>1, BoundsAssumption DEF RetryRequeue
      <4>3. retry_tasks' = [retry_tasks EXCEPT ![e]["sleeping"] = retry_tasks[e]["sleeping"] - 1,
                                               ![e]["requeued"] = retry_tasks[e]["requeued"] + 1]
        BY <2>4, <4>1 DEF RetryRequeue
      <4>. HIDE DEF N
      <4>4. [retry_tasks[e] EXCEPT !["sleeping"] = retry_tasks[e]["sleeping"] - 1,
                                   !["requeued"] = retry_tasks[e]["requeued"] + 1] \in F
        BY <4>1, <4>2
      <4>. HIDE DEF F
      <4>5. retry_tasks' \in [Executions -> F]
        BY <4>1, <4>3, <4>4
      <4>. QED BY <4>5 DEF F, N
    <3>. QED BY <2>4, <3>1, <3>2 DEF RetryRequeue, TypeOK, MemoryBounded
  <2>5. CASE RetryRequeueError(e)
    <3>1. retry_tasks' \in [Executions -> [RetryStages -> 0..MaxTasks]]
      BY <2>5, TasksType DEF RetryRequeueError
    <3>. QED BY <2>5, <3>1 DEF RetryRequeueError, TypeOK, MemoryBounded
  <2>6. ASSUME NEW stage \in {"requeued", "revived"}, NEW p \in Priorities, RetryPush(e, stage, p)
        PROVE  TypeOK' /\ MemoryBounded'
    <3>1. retry_tasks' \in [Executions -> [RetryStages -> 0..MaxTasks]]
      BY <2>6, TasksType DEF RetryPush
    <3>. QED BY <2>6, <3>1, HeapPushLemma DEF RetryPush, TypeOK
  <2>7. ASSUME NEW stage \in {"requeued", "revived"}, RetryUnreadable(e, stage)
        PROVE  TypeOK' /\ MemoryBounded'
    <3>1. retry_tasks' \in [Executions -> [RetryStages -> 0..MaxTasks]]
      BY <2>7, TasksType DEF RetryUnreadable
    <3>. QED BY <2>7, <3>1 DEF RetryUnreadable, TypeOK, MemoryBounded
  <2>8. CASE RetryDeadLetter(e)
    <3>1. retry_tasks' \in [Executions -> [RetryStages -> 0..MaxTasks]]
      BY <2>8, TasksType DEF RetryDeadLetter
    <3>2. job_queue' \in [Executions -> QueueEntry]
      BY <2>8, SetStatusType DEF RetryDeadLetter
    <3>. QED BY <2>8, <3>1, <3>2 DEF RetryDeadLetter, Spawn, TypeOK, MemoryBounded
  <2>9. CASE CascadeDelete(e)
    BY <2>9, DeleteEntryType DEF CascadeDelete, TypeOK, MemoryBounded
  <2>. QED BY <1>2, <2>1, <2>2, <2>3, <2>4, <2>5, <2>6, <2>7, <2>8, <2>9 DEF QueueStep
<1>3. CASE Cleanup
  <2>1. job_queue' \in [Executions -> QueueEntry]
    BY <1>3 DEF Cleanup, TypeOK, QueueEntry, NoEntry
  <2>. QED BY <1>3, <2>1 DEF Cleanup, TypeOK, MemoryBounded
<1>4. ASSUME StartUp
      PROVE  /\ retry_tasks' \in [Executions -> [RetryStages -> 0..MaxTasks]]
             /\ held' \in [Workers -> Executions \cup {Nobody}]
             /\ retried' = {}
             /\ submitted' \in SUBSET Executions
  BY <1>4, BoundsAssumption DEF StartUp, TypeOK
<1>5. CASE Restart
  <2>1. job_queue' \in [Executions -> QueueEntry]
    BY <1>5 DEF Restart, Reset, TypeOK, QueueEntry
  <2>2. /\ memory_queue' \in SUBSET QueueItem
        /\ IsFiniteSet(memory_queue')
        /\ MemoryBounded'
    BY <1>5, <2>1, RecoverLoadType DEF Restart
  <2>. QED BY <1>4, <1>5, <2>1, <2>2 DEF Restart, TypeOK
<1>6. CASE RestartUnrecovered
  <2>1. memory_queue' = {} /\ IsFiniteSet({}) /\ Cardinality({}) = 0
    BY <1>6, FS_EmptySet DEF RestartUnrecovered
  <2>. QED BY <1>4, <1>6, <2>1, BoundsAssumption DEF RestartUnrecovered, TypeOK, MemoryBounded
<1>7. CASE UNCHANGED vars
  BY <1>7 DEF vars, TypeOK, MemoryBounded
<1>. QED BY <1>1, <1>2, <1>3, <1>5, <1>6, <1>7 DEF Next

(* The initial state is typed and its heap empty. *)
LEMMA TypeInit == Init => TypeOK /\ MemoryBounded
BY FS_EmptySet, BoundsAssumption
   DEF Init, TypeOK, MemoryBounded, NoEntry, QueueEntry

(* In every run of the queue the variables keep their types. *)
THEOREM TypeCorrect == Spec => []TypeOK
<1>1. Spec => [](TypeOK /\ MemoryBounded)
  BY TypeInit, TypeStep, PTL DEF Spec
<1>. QED BY <1>1, PTL

(* The heap keeps to max_size in every run, whoever pushed into it: enqueue,
   the delayed retry, retry_dead_letter or recover. *)
THEOREM MemoryIsBounded == Spec => []MemoryBounded
<1>1. Spec => [](TypeOK /\ MemoryBounded)
  BY TypeInit, TypeStep, PTL DEF Spec
<1>. QED BY <1>1, PTL

-----------------------------------------------------------------------------
(* An execution that a step neither hands out nor puts back is delivered once
   after it if it was before. *)
LEMMA DeliveredOnceKept ==
    ASSUME NEW e \in Executions, DeliveredOnce(e),
           job_queue'[e].status \in {job_queue[e].status, "absent"},
           \A i \in memory_queue' : i.execution_id = e => i \in memory_queue,
           \A w \in Workers : held'[w] = e => held[w] = e
    PROVE  DeliveredOnce(e)'
BY DEF DeliveredOnce, OneHolder, OneItem, ItemIsWaiting, HolderIsProcessing, Busy

(* An execution that is neither in the heap nor held is delivered once. *)
LEMMA DeliveredOnceFree ==
    ASSUME NEW e \in Executions,
           \A i \in memory_queue' : i.execution_id # e,
           \A w \in Workers : held'[w] # e
    PROVE  DeliveredOnce(e)'
BY DEF DeliveredOnce, OneHolder, OneItem, ItemIsWaiting, HolderIsProcessing, Busy

(* One worker is given a free execution whose row turns to processing. *)
LEMMA DeliveredOnceHanded ==
    ASSUME NEW e \in Executions, NEW w \in Workers,
           \A i \in memory_queue' : i.execution_id # e,
           \A v \in Workers : held'[v] = e => v = w,
           job_queue'[e].status \in {"processing", "absent"}
    PROVE  DeliveredOnce(e)'
BY DEF DeliveredOnce, OneHolder, OneItem, ItemIsWaiting, HolderIsProcessing, Busy

(* A worker that settles leaves its execution free, if it was its only one. *)
LEMMA DeliveredOnceSettled ==
    ASSUME TypeOK, NEW e \in Executions, NEW w \in Workers, held[w] = e,
           Release(w), UNCHANGED memory_queue, DeliveredOnce(e)
    PROVE  DeliveredOnce(e)'
<1>1. \A i \in memory_queue' : i.execution_id # e
  BY DEF DeliveredOnce, ItemIsWaiting, Busy
<1>2. \A v \in Workers : held'[v] # e
  BY ExecutionsAssumption DEF Release, DeliveredOnce, OneHolder, TypeOK
<1>. QED BY <1>1, <1>2, DeliveredOnceFree

(* A worker's step keeps SingleDelivery. *)
LEMMA SingleDeliveryWorker ==
    ASSUME IInv, TypeOK', NEW w \in Workers, WorkerStep(w)
    PROVE  SingleDelivery'
<1>. USE DEF QueueStatus
<1>. SUFFICES ASSUME NEW d \in Executions, d \notin retried'
              PROVE  DeliveredOnce(d)'
  BY DEF SingleDelivery
<1>1. TypeOK /\ retried \in SUBSET retried'
  BY DEF IInv, WorkerStep, DequeueMemory, DequeueError, DequeueOverflow, DequeueUnreadable,
         DequeueStranded, MarkCompleted, MarkFailed, MarkFailedWithRetry, MarkError, Spawn
<1>2. DeliveredOnce(d) /\ d # Nobody
  BY <1>1, ExecutionsAssumption DEF IInv, SingleDelivery
<1>. held[w] \in Executions \cup {Nobody}
  BY <1>1 DEF TypeOK
<1>3. CASE DequeueMemory(w)
  <2>1. PICK i \in memory_queue : /\ memory_queue' = memory_queue \ {i}
                                  /\ SetStatus(i.execution_id, "processing")
                                  /\ held' = [held EXCEPT ![w] = i.execution_id]
    BY <1>3 DEF DequeueMemory, HeapTop
  <2> DEFINE e == i.execution_id
  <2>2. e \in Executions
    BY <1>1 DEF TypeOK, QueueItem
  <2>3. CASE d = e
    <3>1. \A j \in memory_queue' : j.execution_id # d
      BY <1>2, <2>1, <2>3 DEF DeliveredOnce, OneItem
    <3>2. \A v \in Workers : held'[v] = d => v = w
      BY <1>1, <1>2, <2>1, <2>3 DEF DeliveredOnce, ItemIsWaiting, Busy, TypeOK
    <3>3. job_queue'[d].status \in {"processing", "absent"}
      BY <1>1, <2>1, <2>2, <2>3, SetStatusType
    <3>. QED BY <3>1, <3>2, <3>3, DeliveredOnceHanded
  <2>4. CASE d # e
    <3>1. job_queue'[d] = job_queue[d]
      BY <1>1, <2>1, <2>2, <2>4, SetStatusType
    <3>2. \A v \in Workers : held'[v] = d => held[v] = d
      BY <1>1, <2>1, <2>4 DEF TypeOK
    <3>. QED BY <1>2, <2>1, <3>1, <3>2, DeliveredOnceKept
  <2>. QED BY <2>3, <2>4
<1>4. CASE DequeueError(w)
  BY <1>2, <1>4, DeliveredOnceKept DEF DequeueError
<1>5. CASE DequeueOverflow(w)
  <2>1. PICK e \in Queued : /\ SetStatus(e, "processing")
                            /\ held' = [held EXCEPT ![w] = e]
    BY <1>5 DEF DequeueOverflow
  <2>2. memory_queue = {} /\ memory_queue' = {} /\ e \in Executions
    BY <1>5 DEF DequeueOverflow, Queued
  <2>3. CASE d = e
    <3>1. \A v \in Workers : held'[v] = d => v = w
      BY <1>1, <1>2, <2>1, <2>3 DEF DeliveredOnce, HolderIsProcessing, Busy, Queued, HasStatus, TypeOK
    <3>2. job_queue'[d].status \in {"processing", "absent"}
      BY <1>1, <2>1, <2>2, <2>3, SetStatusType
    <3>. QED BY <2>2, <3>1, <3>2, DeliveredOnceHanded
  <2>4. CASE d # e
    <3>1. job_queue'[d] = job_queue[d]
      BY <1>1, <2>1, <2>2, <2>4, SetStatusType
    <3>2. \A v \in Workers : held'[v] = d => held[v] = d
      BY <1>1, <2>1, <2>4 DEF TypeOK
    <3>. QED BY <1>2, <2>2, <3>1, <3>2, DeliveredOnceKept
  <2>. QED BY <2>3, <2>4
<1>6. CASE DequeueUnreadable(w) \/ DequeueStranded(w)
  <2>1. PICK e \in Queued : SetStatus(e, "failed") \/ SetStatus(e, "processing")
    BY <1>6 DEF DequeueUnreadable, DequeueStranded
  <2>2. memory_queue' = {} /\ memory_queue = {} /\ held' = held /\ e \in Executions
    BY <1>6, <2>1 DEF DequeueUnreadable, DequeueStranded, Queued
  <2>3. CASE d = e
    <3>1. \A v \in Workers : held'[v] # d
      BY <1>2, <2>1, <2>2, <2>3 DEF DeliveredOnce, HolderIsProcessing, Busy, Queued, HasStatus
    <3>. QED BY <2>2, <3>1, DeliveredOnceFree
  <2>4. CASE d # e
    <3>1. job_queue'[d] = job_queue[d]
      BY <1>1, <2>1, <2>2, <2>4, SetStatusType
    <3>. QED BY <1>2, <2>2, <3>1, DeliveredOnceKept
  <2>. QED BY <2>3, <2>4
<1>7. ASSUME NEW s \in QueueStatus, held[w] # Nobody, Release(w), UNCHANGED memory_queue,
             SetStatus(held[w], s) \/ UNCHANGED job_queue
      PROVE  DeliveredOnce(d)'
  <2>1. held[w] \in Executions
    BY <1>7
  <2>2. CASE d = held[w]
    BY <1>1, <1>2, <1>7, <2>2, DeliveredOnceSettled
  <2>3. CASE d # held[w]
    <3>1. job_queue'[d] = job_queue[d]
      BY <1>1, <1>7, <2>1, <2>3, SetStatusType
    <3>2. \A v \in Workers : held'[v] = d => held[v] = d
      BY <1>1, <1>2, <1>7 DEF Release, TypeOK
    <3>. QED BY <1>2, <1>7, <3>1, <3>2, DeliveredOnceKept
  <2>. QED BY <2>2, <2>3
<1>8. CASE MarkCompleted(w)
  BY <1>7, <1>8 DEF MarkCompleted
<1>9. CASE MarkFailed(w)
  BY <1>7, <1>9 DEF MarkFailed
<1>10. ASSUME NEW n \in 0..1, NEW max \in 0..1, MarkFailedWithRetry(w, n, max)
       PROVE  DeliveredOnce(d)'
  <2>1. SetStatus(held[w], "dead_letter") \/ UNCHANGED job_queue
    BY <1>10 DEF MarkFailedWithRetry
  <2>. QED BY <1>7, <1>10, <2>1 DEF MarkFailedWithRetry
<1>11. CASE MarkError(w)
  <2>1. held[w] # Nobody /\ Release(w) /\ UNCHANGED memory_queue /\ UNCHANGED job_queue
    BY <1>11 DEF MarkError
  <2>. QED BY <1>7, <2>1
<1>. QED BY <1>3, <1>4, <1>5, <1>6, <1>8, <1>9, <1>10, <1>11 DEF WorkerStep

(* A step on one execution by the API or a background task keeps it. *)
LEMMA SingleDeliveryQueue ==
    ASSUME IInv, TypeOK', NEW e \in Executions, QueueStep(e)
    PROVE  SingleDelivery'
<1>. USE DEF QueueStatus
<1>. SUFFICES ASSUME NEW d \in Executions, d \notin retried'
              PROVE  DeliveredOnce(d)'
  BY DEF SingleDelivery
<1>1. TypeOK /\ held' = held /\ retried \in SUBSET retried'
  BY DEF IInv, QueueStep, Enqueue, Remove, RemoveError, RetryRequeue, RetryRequeueError,
         RetryPush, RetryUnreadable, RetryDeadLetter, CascadeDelete, Spawn
<1>2. DeliveredOnce(d)
  BY <1>1 DEF IInv, SingleDelivery
<1>3. ASSUME d # e, job_queue' = job_queue \/ job_queue'[d] = job_queue[d],
             \A i \in memory_queue' : i.execution_id = d => i \in memory_queue
      PROVE  DeliveredOnce(d)'
  BY <1>1, <1>2, <1>3, DeliveredOnceKept
<1>4. ASSUME NEW p \in Priorities, HeapPush(e, p), d # e
      PROVE  \A i \in memory_queue' : i.execution_id = d => i \in memory_queue
  BY <1>1, <1>4, HeapPushLemma
<1>5. ASSUME NEW stage \in RetryStages, retry_tasks[e][stage] > 0
      PROVE  d # e
  BY <1>1, <1>5 DEF IInv, TasksArePutBack
<1>6. ASSUME NEW p \in Priorities, Enqueue(e, p)
      PROVE  DeliveredOnce(d)'
  <2>1. CASE d # e
    <3>1. job_queue'[d] = job_queue[d]
      BY <1>1, <1>6, <2>1 DEF Enqueue, TypeOK
    <3>. QED BY <1>3, <1>4, <1>6, <2>1, <3>1 DEF Enqueue
  <2>2. CASE d = e
    <3>1. Unknown(e)
      BY <1>6 DEF Enqueue, IInv, UnknownBefore
    <3>2. \A w \in Workers : held'[w] # e
      BY <1>1, <3>1 DEF Unknown, Busy
    <3>3. PICK i \in QueueItem : \A j \in memory_queue' : j \in memory_queue \/ j = i
      BY <1>1, <1>6, HeapPushLemma DEF Enqueue
    <3>4. \A j \in memory_queue' : j.execution_id = e => j = i
      BY <3>1, <3>3 DEF Unknown
    <3>5. job_queue'[e].status = "queued"
      BY <1>1, <1>6 DEF Enqueue, TypeOK
    <3>. QED BY <2>2, <3>2, <3>4, <3>5
             DEF DeliveredOnce, OneHolder, OneItem, ItemIsWaiting, HolderIsProcessing, Busy
  <2>. QED BY <2>1, <2>2
<1>7. CASE Remove(e)
  <2>1. job_queue'[d].status \in {job_queue[d].status, "absent"}
    BY <1>1, <1>7, DeleteEntryType DEF Remove
  <2>. QED BY <1>1, <1>2, <1>7, <2>1, DeliveredOnceKept DEF Remove
<1>8. CASE RemoveError(e)
  BY <1>1, <1>2, <1>8, DeliveredOnceKept DEF RemoveError
<1>9. CASE RetryRequeue(e)
  <2>1. "sleeping" \in RetryStages /\ retry_tasks[e]["sleeping"] > 0
    BY <1>9 DEF RetryRequeue, RetryStages
  <2>2. d # e
    BY <1>5, <2>1
  <2>3. job_queue'[d] = job_queue[d]
    BY <1>1, <1>9, <2>2, SetStatusType DEF RetryRequeue
  <2>. QED BY <1>3, <1>9, <2>2, <2>3 DEF RetryRequeue
<1>10. CASE RetryRequeueError(e)
  BY <1>1, <1>2, <1>10, DeliveredOnceKept DEF RetryRequeueError
<1>11. ASSUME NEW stage \in {"requeued", "revived"}, NEW p \in Priorities, RetryPush(e, stage, p)
       PROVE  DeliveredOnce(d)'
  <2>1. stage \in RetryStages /\ retry_tasks[e][stage] > 0
    BY <1>11 DEF RetryPush, RetryStages, Finish
  <2>2. d # e
    BY <1>5, <2>1
  <2>. QED BY <1>3, <1>4, <1>11, <2>2 DEF RetryPush
<1>12. ASSUME NEW stage \in {"requeued", "revived"}, RetryUnreadable(e, stage)
       PROVE  DeliveredOnce(d)'
  BY <1>1, <1>2, <1>12, DeliveredOnceKept DEF RetryUnreadable
<1>13. CASE RetryDeadLetter(e)
  <2>1. d # e
    BY <1>13 DEF RetryDeadLetter, Spawn
  <2>2. job_queue'[d] = job_queue[d]
    BY <1>1, <1>13, <2>1, SetStatusType DEF RetryDeadLetter
  <2>. QED BY <1>3, <1>13, <2>1, <2>2 DEF RetryDeadLetter
<1>14. CASE CascadeDelete(e)
  <2>1. job_queue'[d].status \in {job_queue[d].status, "absent"}
    BY <1>1, <1>14, DeleteEntryType DEF CascadeDelete
  <2>. QED BY <1>1, <1>2, <1>14, <2>1, DeliveredOnceKept DEF CascadeDelete
<1>. QED BY <1>6, <1>7, <1>8, <1>9, <1>10, <1>11, <1>12, <1>13, <1>14 DEF QueueStep

(* A start of the server establishes it, whatever was lost. *)
LEMMA SingleDeliveryStart ==
    ASSUME TypeOK, TypeOK', Restart \/ RestartUnrecovered
    PROVE  SingleDelivery'
<1>. SUFFICES ASSUME NEW d \in Executions
              PROVE  DeliveredOnce(d)'
  BY DEF SingleDelivery
<1>1. \A w \in Workers : held'[w] # d
  BY ExecutionsAssumption DEF Restart, RestartUnrecovered, StartUp
<1>2. CASE Restart
  <2>1. memory_queue' \in SUBSET Recovered(job_queue')
    BY <1>2, RecoverLoadType DEF Restart, TypeOK
  <2>2. \A i \in memory_queue' : i.execution_id = d =>
            /\ i = [execution_id |-> d, priority |-> job_queue'[d].priority, copy |-> 1]
            /\ job_queue'[d].status = "queued"
    BY <2>1 DEF Recovered
  <2>. QED BY <1>1, <2>2
           DEF DeliveredOnce, OneHolder, OneItem, ItemIsWaiting, HolderIsProcessing, Busy
<1>3. CASE RestartUnrecovered
  BY <1>1, <1>3, DeliveredOnceFree DEF RestartUnrecovered
<1>. QED BY <1>2, <1>3

(* Every step keeps it. *)
LEMMA SingleDeliveryStep == IInv /\ TypeOK' /\ [Next]_vars => SingleDelivery'
<1>. SUFFICES ASSUME IInv, TypeOK', [Next]_vars
              PROVE  SingleDelivery'
  OBVIOUS
<1>1. CASE Cleanup
  <2>. SUFFICES ASSUME NEW d \in Executions \ retried
                PROVE  DeliveredOnce(d)'
    BY <1>1 DEF SingleDelivery, Cleanup
  <2>1. DeliveredOnce(d)
    BY DEF IInv, SingleDelivery
  <2>2. job_queue'[d].status \in {job_queue[d].status, "absent"}
    BY <1>1 DEF Cleanup, NoEntry
  <2>. QED BY <1>1, <2>1, <2>2, DeliveredOnceKept DEF Cleanup
<1>2. CASE UNCHANGED vars
  BY <1>2 DEF IInv, SingleDelivery, DeliveredOnce, OneHolder, OneItem, ItemIsWaiting,
              HolderIsProcessing, Busy, vars
<1>. QED BY <1>1, <1>2, SingleDeliveryWorker, SingleDeliveryQueue, SingleDeliveryStart DEF Next, IInv

-----------------------------------------------------------------------------
(* A delayed push exists only for an execution that was put back. *)
LEMMA TasksArePutBackStep ==
    TypeOK /\ TasksArePutBack /\ [Next]_vars => TasksArePutBack'
<1>. SUFFICES ASSUME TypeOK, TasksArePutBack, [Next]_vars,
                     NEW e \in Executions, NEW s \in RetryStages, retry_tasks'[e][s] > 0
              PROVE  e \in retried'
  BY DEF TasksArePutBack
<1>1. retry_tasks[e][s] > 0 => e \in retried
  BY DEF TasksArePutBack
<1>2. CASE UNCHANGED retry_tasks /\ retried \in SUBSET retried'
  BY <1>1, <1>2
<1>3. ASSUME NEW d \in Executions, NEW stage \in RetryStages, Spawn(d, stage)
      PROVE  e \in retried'
  BY <1>1, <1>3 DEF Spawn, TypeOK
<1>4. ASSUME NEW d \in Executions, NEW stage \in RetryStages, Finish(d, stage), retried' = retried
      PROVE  e \in retried'
  <2>1. retry_tasks[d][stage] > 0 /\ (e = d \/ retry_tasks'[e] = retry_tasks[e])
    BY <1>4 DEF Finish, TypeOK
  <2>. QED BY <1>1, <1>4, <2>1 DEF TasksArePutBack
<1>5. ASSUME NEW d \in Executions, RetryRequeue(d)
      PROVE  e \in retried'
  <2>1. "sleeping" \in RetryStages /\ retry_tasks[d]["sleeping"] > 0 /\ retried' = retried
        /\ (e = d \/ retry_tasks'[e] = retry_tasks[e])
    BY <1>5 DEF RetryRequeue, RetryStages, TypeOK
  <2>. QED BY <1>1, <2>1 DEF TasksArePutBack
<1>6. ASSUME NEW w \in Workers, WorkerStep(w)
      PROVE  e \in retried'
  <2>1. ASSUME NEW n \in 0..1, NEW max \in 0..1, MarkFailedWithRetry(w, n, max)
        PROVE  e \in retried'
    <3>1. CASE n < max /\ HasEntry(held[w])
      <4>1. Spawn(held[w], "sleeping") /\ held[w] \in Executions /\ "sleeping" \in RetryStages
        BY <2>1, <3>1 DEF MarkFailedWithRetry, TypeOK, RetryStages
      <4>. QED BY <4>1, <1>3
    <3>2. CASE ~(n < max /\ HasEntry(held[w]))
      BY <1>2, <2>1, <3>2 DEF MarkFailedWithRetry
    <3>. QED BY <3>1, <3>2
  <2>. QED BY <1>2, <1>6, <2>1 DEF WorkerStep, DequeueMemory, DequeueError, DequeueOverflow,
              DequeueUnreadable, DequeueStranded, MarkCompleted, MarkFailed, MarkError
<1>7. ASSUME NEW d \in Executions, QueueStep(d)
      PROVE  e \in retried'
  <2>1. CASE RetryRequeueError(d)
    BY <1>4, <2>1 DEF RetryRequeueError, RetryStages
  <2>2. ASSUME NEW stage \in {"requeued", "revived"}, NEW p \in Priorities, RetryPush(d, stage, p)
        PROVE  e \in retried'
    BY <1>4, <2>2 DEF RetryPush, RetryStages
  <2>3. ASSUME NEW stage \in {"requeued", "revived"}, RetryUnreadable(d, stage)
        PROVE  e \in retried'
    BY <1>4, <2>3 DEF RetryUnreadable, RetryStages
  <2>4. CASE RetryDeadLetter(d)
    BY <1>3, <2>4 DEF RetryDeadLetter, RetryStages
  <2>. QED BY <1>2, <1>5, <1>7, <2>1, <2>2, <2>3, <2>4
           DEF QueueStep, Enqueue, Remove, RemoveError, CascadeDelete
<1>8. CASE Restart \/ RestartUnrecovered
  BY <1>8 DEF Restart, RestartUnrecovered, StartUp
<1>. QED BY <1>2, <1>6, <1>7, <1>8 DEF Next, Cleanup, vars

(* An execution the queue was never given has no item, holder or task. *)
LEMMA UnknownKept ==
    ASSUME NEW e \in Executions, Unknown(e),
           job_queue'[e].status \in {job_queue[e].status, "absent"},
           \A i \in memory_queue' : i.execution_id = e => i \in memory_queue,
           \A w \in Workers : held'[w] = e => held[w] = e,
           e \in retried' => e \in retried
    PROVE  Unknown(e)'
BY DEF Unknown, Busy, HasStatus

(* Only its enqueue makes an execution known to the queue. *)
LEMMA UnknownBeforeStep ==
    IInv /\ TypeOK' /\ [Next]_vars => UnknownBefore'
<1>. USE DEF QueueStatus
<1>. SUFFICES ASSUME IInv, TypeOK', [Next]_vars, NEW d \in Executions, d \notin submitted'
              PROVE  Unknown(d)'
  BY DEF UnknownBefore
<1>1. TypeOK /\ submitted \in SUBSET submitted'
  BY DEF IInv, Next, vars, WorkerStep, QueueStep, Enqueue, DequeueMemory, DequeueError,
         DequeueOverflow, DequeueUnreadable, DequeueStranded, Remove, RemoveError, MarkCompleted, MarkFailed,
         MarkFailedWithRetry, MarkError, RetryRequeue, RetryRequeueError, RetryPush,
         RetryUnreadable, RetryDeadLetter, CascadeDelete, Cleanup, Restart,
         RestartUnrecovered, StartUp
<1>2. Unknown(d)
  BY <1>1 DEF IInv, UnknownBefore
<1>3. ASSUME NEW w \in Workers, WorkerStep(w)
      PROVE  Unknown(d)'
  <2>. held[w] \in Executions \cup {Nobody} /\ held[w] # d /\ d # Nobody
    BY <1>1, <1>2, ExecutionsAssumption DEF TypeOK, Unknown, Busy
  <2>1. CASE DequeueMemory(w)
    <3>1. PICK i \in memory_queue : /\ memory_queue' = memory_queue \ {i}
                                    /\ SetStatus(i.execution_id, "processing")
                                    /\ held' = [held EXCEPT ![w] = i.execution_id]
      BY <2>1 DEF DequeueMemory, HeapTop
    <3>2. i.execution_id \in Executions /\ i.execution_id # d
      BY <1>1, <1>2 DEF TypeOK, QueueItem, Unknown
    <3>3. job_queue'[d] = job_queue[d]
      BY <1>1, <3>1, <3>2, SetStatusType
    <3>. QED BY <1>1, <1>2, <2>1, <3>1, <3>2, <3>3, UnknownKept DEF DequeueMemory, TypeOK
  <2>2. CASE DequeueError(w)
    BY <1>2, <2>2, UnknownKept DEF DequeueError
  <2>3. ASSUME NEW e \in Queued, NEW s \in QueueStatus, SetStatus(e, s)
        PROVE  e # d /\ job_queue'[d] = job_queue[d]
    <3>1. e \in Executions /\ e # d
      BY <1>2 DEF Queued, Unknown, HasStatus
    <3>. QED BY <1>1, <2>3, <3>1, SetStatusType
  <2>4. CASE DequeueOverflow(w)
    <3>1. PICK e \in Queued : /\ SetStatus(e, "processing")
                              /\ held' = [held EXCEPT ![w] = e]
      BY <2>4 DEF DequeueOverflow
    <3>2. e # d /\ job_queue'[d] = job_queue[d]
      BY <2>3, <3>1
    <3>. QED BY <1>1, <1>2, <2>4, <3>1, <3>2, UnknownKept DEF DequeueOverflow, TypeOK
  <2>5. CASE DequeueUnreadable(w) \/ DequeueStranded(w)
    <3>1. job_queue'[d] = job_queue[d]
      BY <2>3, <2>5 DEF DequeueUnreadable, DequeueStranded
    <3>. QED BY <1>2, <2>5, <3>1, UnknownKept DEF DequeueUnreadable, DequeueStranded
  <2>6. ASSUME NEW s \in QueueStatus, held[w] # Nobody, Release(w), UNCHANGED memory_queue,
               SetStatus(held[w], s) \/ UNCHANGED job_queue, d \in retried' => d \in retried
        PROVE  Unknown(d)'
    <3>1. job_queue'[d] = job_queue[d]
      BY <1>1, <2>6, SetStatusType
    <3>2. \A v \in Workers : held'[v] = d => held[v] = d
      BY <1>1, <2>6 DEF Release, TypeOK
    <3>. QED BY <1>2, <2>6, <3>1, <3>2, UnknownKept
  <2>7. CASE MarkCompleted(w)
    BY <2>6, <2>7 DEF MarkCompleted
  <2>8. CASE MarkFailed(w)
    BY <2>6, <2>8 DEF MarkFailed
  <2>9. ASSUME NEW n \in 0..1, NEW max \in 0..1, MarkFailedWithRetry(w, n, max)
        PROVE  Unknown(d)'
    <3>1. SetStatus(held[w], "dead_letter") \/ UNCHANGED job_queue
      BY <2>9 DEF MarkFailedWithRetry
    <3>2. d \in retried' => d \in retried
      BY <2>9 DEF MarkFailedWithRetry, Spawn
    <3>. QED BY <2>6, <2>9, <3>1, <3>2 DEF MarkFailedWithRetry
  <2>10. CASE MarkError(w)
    <3>1. held[w] # Nobody /\ Release(w) /\ UNCHANGED <<memory_queue, job_queue, retried>>
      BY <2>10 DEF MarkError
    <3>. QED BY <2>6, <3>1
  <2>. QED BY <1>3, <2>1, <2>2, <2>4, <2>5, <2>7, <2>8, <2>9, <2>10 DEF WorkerStep
<1>4. ASSUME NEW e \in Executions, QueueStep(e)
      PROVE  Unknown(d)'
  <2>1. held' = held
    BY <1>4 DEF QueueStep, Enqueue, Remove, RemoveError, RetryRequeue, RetryRequeueError,
                RetryPush, RetryUnreadable, RetryDeadLetter, CascadeDelete
  <2>2. ASSUME NEW p \in Priorities, HeapPush(e, p), d # e
        PROVE  \A i \in memory_queue' : i.execution_id = d => i \in memory_queue
    BY <1>1, <2>2, HeapPushLemma
  <2>3. ASSUME NEW stage \in RetryStages, retry_tasks[e][stage] > 0
        PROVE  d # e
    BY <1>2, <2>3 DEF IInv, TasksArePutBack, Unknown
  <2>4. ASSUME NEW p \in Priorities, Enqueue(e, p)
        PROVE  Unknown(d)'
    <3>1. d # e /\ job_queue'[d] = job_queue[d]
      BY <1>1, <2>4 DEF Enqueue, TypeOK
    <3>. QED BY <1>2, <2>1, <2>2, <2>4, <3>1, UnknownKept DEF Enqueue
  <2>5. CASE Remove(e) \/ CascadeDelete(e)
    <3>1. job_queue'[d].status \in {job_queue[d].status, "absent"}
      BY <1>1, <2>5, DeleteEntryType DEF Remove, CascadeDelete
    <3>. QED BY <1>2, <2>1, <2>5, <3>1, UnknownKept DEF Remove, CascadeDelete
  <2>6. CASE RemoveError(e)
    BY <1>2, <2>1, <2>6, UnknownKept DEF RemoveError
  <2>7. CASE RetryRequeue(e)
    <3>1. d # e
      BY <2>3, <2>7 DEF RetryRequeue, RetryStages
    <3>2. job_queue'[d] = job_queue[d]
      BY <1>1, <2>7, <3>1, SetStatusType DEF RetryRequeue
    <3>. QED BY <1>2, <2>1, <2>7, <3>2, UnknownKept DEF RetryRequeue
  <2>8. CASE RetryRequeueError(e)
    BY <1>2, <2>1, <2>8, UnknownKept DEF RetryRequeueError
  <2>9. ASSUME NEW stage \in {"requeued", "revived"}, NEW p \in Priorities, RetryPush(e, stage, p)
        PROVE  Unknown(d)'
    <3>1. stage \in RetryStages /\ retry_tasks[e][stage] > 0
      BY <2>9 DEF RetryPush, Finish, RetryStages
    <3>2. d # e
      BY <2>3, <3>1
    <3>. QED BY <1>2, <2>1, <2>2, <2>9, <3>2, UnknownKept DEF RetryPush
  <2>10. ASSUME NEW stage \in {"requeued", "revived"}, RetryUnreadable(e, stage)
         PROVE  Unknown(d)'
    BY <1>2, <2>1, <2>10, UnknownKept DEF RetryUnreadable
  <2>11. CASE RetryDeadLetter(e)
    <3>1. d # e
      BY <1>2, <2>11 DEF RetryDeadLetter, Unknown, HasStatus
    <3>2. job_queue'[d] = job_queue[d]
      BY <1>1, <2>11, <3>1, SetStatusType DEF RetryDeadLetter
    <3>. QED BY <1>2, <2>1, <2>11, <3>1, <3>2, UnknownKept DEF RetryDeadLetter, Spawn
  <2>. QED BY <1>4, <2>4, <2>5, <2>6, <2>7, <2>8, <2>9, <2>10, <2>11 DEF QueueStep
<1>5. CASE Cleanup
  <2>1. job_queue'[d].status \in {job_queue[d].status, "absent"}
    BY <1>5 DEF Cleanup, NoEntry
  <2>. QED BY <1>2, <1>5, <2>1, UnknownKept DEF Cleanup
<1>6. CASE Restart
  <2>1. memory_queue' \in SUBSET Recovered(job_queue')
    BY <1>6, RecoverLoadType DEF Restart, TypeOK
  <2>2. job_queue'[d] = job_queue[d]
    BY <1>2, <1>6 DEF Restart, Reset, Unknown, HasStatus
  <2>3. \A i \in memory_queue' : i.execution_id # d
    BY <1>2, <2>1, <2>2 DEF Recovered, Unknown, HasStatus
  <2>4. \A w \in Workers : held'[w] # d
    BY <1>6, ExecutionsAssumption DEF Restart, StartUp
  <2>. QED BY <1>2, <1>6, <2>2, <2>3, <2>4, UnknownKept DEF Restart, StartUp
<1>7. CASE RestartUnrecovered
  <2>1. \A w \in Workers : held'[w] # d
    BY <1>7, ExecutionsAssumption DEF RestartUnrecovered, StartUp
  <2>. QED BY <1>2, <1>7, <2>1, UnknownKept DEF RestartUnrecovered, StartUp
<1>8. CASE UNCHANGED vars
  BY <1>2, <1>8, UnknownKept DEF vars
<1>. QED BY <1>3, <1>4, <1>5, <1>6, <1>7, <1>8 DEF Next

(* The inductive invariant holds at the start. *)
LEMMA IInvInit == Init => IInv
<1>. SUFFICES ASSUME Init PROVE IInv
  OBVIOUS
<1>1. TypeOK /\ MemoryBounded
  BY TypeInit
<1>2. UnknownBefore /\ SingleDelivery
  BY ExecutionsAssumption
     DEF Init, NoEntry, UnknownBefore, Unknown, HasStatus, Busy, SingleDelivery, DeliveredOnce,
         OneHolder, OneItem, ItemIsWaiting, HolderIsProcessing
<1>3. TasksArePutBack
  BY DEF Init, TasksArePutBack
<1>. QED BY <1>1, <1>2, <1>3 DEF IInv

(* Every step keeps the inductive invariant. *)
LEMMA IInvStep == IInv /\ [Next]_vars => IInv'
<1>. SUFFICES ASSUME IInv, [Next]_vars PROVE IInv'
  OBVIOUS
<1>1. TypeOK' /\ MemoryBounded'
  BY TypeStep DEF IInv
<1>2. UnknownBefore' /\ TasksArePutBack' /\ SingleDelivery'
  BY <1>1, UnknownBeforeStep, TasksArePutBackStep, SingleDeliveryStep DEF IInv
<1>. QED BY <1>1, <1>2 DEF IInv

(* The inductive invariant holds in every run. *)
THEOREM QueueInvariant == Spec => []IInv
BY IInvInit, IInvStep, PTL DEF Spec

(* An execution that was not put back since the last start is in one place:
   the heap, one worker, or the table alone. *)
THEOREM DeliveredSingly == Spec => []SingleDelivery
<1>1. IInv => SingleDelivery
  BY DEF IInv
<1>. QED BY QueueInvariant, <1>1, PTL

-----------------------------------------------------------------------------
(* A step that reopens a settled row is a put-back: no stale item, worker,
   overflow dequeue or recovery does it. *)
LEMMA SettledStep == IInv /\ [Next]_vars => SettledStaysSettled
<1>. USE DEF QueueStatus
<1>. SUFFICES ASSUME IInv, [Next]_vars, NEW d \in submitted, Settled(job_queue, d),
                     d \notin retried, d \notin retried'
              PROVE  job_queue'[d].status \in {job_queue[d].status, "absent"}
  BY DEF SettledStaysSettled
<1>1. TypeOK /\ d \in Executions /\ DeliveredOnce(d)
  BY DEF IInv, TypeOK, SingleDelivery
<1>2. /\ job_queue[d].status \notin {"queued", "processing"}
      /\ \A w \in Workers : held[w] = d => job_queue[d].status = "absent"
      /\ \A i \in memory_queue : i.execution_id = d => job_queue[d].status = "absent"
  BY <1>1 DEF Settled, DeliveredOnce, HolderIsProcessing, ItemIsWaiting, Busy
<1>3. ASSUME NEW e \in Executions, NEW s \in QueueStatus, SetStatus(e, s),
             e = d => job_queue[d].status = "absent"
      PROVE  job_queue'[d].status \in {job_queue[d].status, "absent"}
  BY <1>1, <1>3, SetStatusType DEF HasStatus
<1>4. CASE UNCHANGED job_queue
  BY <1>4
<1>5. ASSUME NEW w \in Workers, WorkerStep(w)
      PROVE  job_queue'[d].status \in {job_queue[d].status, "absent"}
  <2>. held[w] \in Executions \cup {Nobody}
    BY <1>1 DEF TypeOK
  <2>1. CASE DequeueMemory(w)
    <3>1. PICK i \in memory_queue : SetStatus(i.execution_id, "processing")
      BY <2>1 DEF DequeueMemory, HeapTop
    <3>2. i.execution_id \in Executions
      BY <1>1 DEF TypeOK, QueueItem
    <3>. QED BY <1>2, <1>3, <3>1, <3>2
  <2>2. ASSUME NEW e \in Queued, NEW s \in QueueStatus, SetStatus(e, s)
        PROVE  job_queue'[d].status \in {job_queue[d].status, "absent"}
    <3>1. e \in Executions /\ e # d
      BY <1>2 DEF Queued, HasStatus
    <3>. QED BY <1>3, <2>2, <3>1
  <2>3. CASE DequeueOverflow(w) \/ DequeueUnreadable(w) \/ DequeueStranded(w)
    BY <2>2, <2>3 DEF DequeueOverflow, DequeueUnreadable, DequeueStranded
  <2>4. ASSUME NEW s \in QueueStatus, held[w] # Nobody, SetStatus(held[w], s)
        PROVE  job_queue'[d].status \in {job_queue[d].status, "absent"}
    BY <1>2, <1>3, <2>4
  <2>5. CASE MarkCompleted(w)
    BY <2>4, <2>5 DEF MarkCompleted
  <2>6. CASE MarkFailed(w)
    BY <2>4, <2>6 DEF MarkFailed
  <2>7. ASSUME NEW n \in 0..1, NEW max \in 0..1, MarkFailedWithRetry(w, n, max)
        PROVE  job_queue'[d].status \in {job_queue[d].status, "absent"}
    <3>1. held[w] # Nobody /\ (SetStatus(held[w], "dead_letter") \/ UNCHANGED job_queue)
      BY <2>7 DEF MarkFailedWithRetry
    <3>. QED BY <1>4, <2>4, <3>1
  <2>. QED BY <1>4, <1>5, <2>1, <2>3, <2>5, <2>6, <2>7 DEF WorkerStep, DequeueError, MarkError
<1>6. ASSUME NEW e \in Executions, QueueStep(e)
      PROVE  job_queue'[d].status \in {job_queue[d].status, "absent"}
  <2>1. ASSUME NEW p \in Priorities, Enqueue(e, p)
        PROVE  job_queue'[d].status \in {job_queue[d].status, "absent"}
    BY <1>1, <2>1 DEF Enqueue, TypeOK
  <2>2. CASE Remove(e) \/ CascadeDelete(e)
    BY <1>1, <2>2, DeleteEntryType DEF Remove, CascadeDelete
  <2>3. CASE RetryRequeue(e)
    <3>1. e # d
      BY <2>3 DEF RetryRequeue, RetryStages, IInv, TasksArePutBack
    <3>. QED BY <1>3, <2>3, <3>1 DEF RetryRequeue
  <2>4. CASE RetryDeadLetter(e)
    <3>1. e # d
      BY <2>4 DEF RetryDeadLetter, Spawn
    <3>. QED BY <1>3, <2>4, <3>1 DEF RetryDeadLetter
  <2>. QED BY <1>4, <1>6, <2>1, <2>2, <2>3, <2>4
           DEF QueueStep, RemoveError, RetryRequeueError, RetryPush, RetryUnreadable
<1>7. CASE Cleanup
  BY <1>1, <1>7 DEF Cleanup, NoEntry
<1>8. CASE Restart
  BY <1>1, <1>2, <1>8 DEF Restart, Reset
<1>9. CASE RestartUnrecovered
  BY <1>4, <1>9 DEF RestartUnrecovered
<1>. QED BY <1>4, <1>5, <1>6, <1>7, <1>8, <1>9 DEF Next, vars

(* The same as an action property of every run. *)
THEOREM SettledForGood == Spec => SettledIsFinal
<1>1. Spec => []IInv
  BY QueueInvariant
<1>2. IInv /\ [Next]_vars => [SettledStaysSettled]_vars
  BY SettledStep
<1>3. Spec => [][SettledStaysSettled]_vars
  BY <1>1, <1>2, PTL DEF Spec
<1>. QED BY <1>3 DEF SettledIsFinal

-----------------------------------------------------------------------------
(* Nothing is stranded in processing. *)
LEMMA OwnedStep == TypeOK /\ ProcessingIsOwned /\ [Next]_vars => ProcessingIsOwned'
<1>. USE DEF QueueStatus
<1>. SUFFICES ASSUME TypeOK, ProcessingIsOwned, [Next]_vars, NEW d \in Executions,
                     job_queue'[d].status = "processing"
              PROVE  Owned(d)'
  BY DEF ProcessingIsOwned, HasStatus
<1>1. job_queue[d].status = "processing" => Owned(d)
  BY DEF ProcessingIsOwned, HasStatus
<1>2. ASSUME job_queue[d].status = "processing",
             \A w \in Workers : held[w] = d => held'[w] = d,
             retry_tasks'[d]["sleeping"] = retry_tasks[d]["sleeping"],
             d \in unrecorded => d \in unrecorded'
      PROVE  Owned(d)'
  BY <1>1, <1>2 DEF Owned, Busy
<1>3. ASSUME NEW e \in Executions, NEW s \in QueueStatus, SetStatus(e, s)
      PROVE  (e = d /\ s = "processing") \/ (e # d /\ job_queue[d].status = "processing")
  BY <1>3, SetStatusType DEF HasStatus
<1>4. ASSUME NEW w \in Workers, WorkerStep(w)
      PROVE  Owned(d)'
  <2>. held[w] \in Executions \cup {Nobody} /\ d # Nobody
    BY ExecutionsAssumption DEF TypeOK
  <2>1. CASE DequeueMemory(w)
    <3>1. PICK i \in memory_queue : /\ SetStatus(i.execution_id, "processing")
                                    /\ held' = [held EXCEPT ![w] = i.execution_id]
      BY <2>1 DEF DequeueMemory, HeapTop
    <3>2. i.execution_id \in Executions
      BY DEF TypeOK, QueueItem
    <3>3. held[w] = Nobody /\ UNCHANGED <<retry_tasks, unrecorded>>
      BY <2>1 DEF DequeueMemory
    <3>. QED BY <1>2, <1>3, <3>1, <3>2, <3>3 DEF Owned, Busy, TypeOK
  <2>2. CASE DequeueError(w)
    BY <1>2, <2>2 DEF DequeueError
  <2>3. CASE DequeueOverflow(w)
    <3>1. PICK e \in Executions : SetStatus(e, "processing") /\ held' = [held EXCEPT ![w] = e]
      BY <2>3 DEF DequeueOverflow, Queued
    <3>2. held[w] = Nobody /\ UNCHANGED <<retry_tasks, unrecorded>>
      BY <2>3 DEF DequeueOverflow
    <3>. QED BY <1>2, <1>3, <3>1, <3>2 DEF Owned, Busy, TypeOK
  <2>4. CASE DequeueUnreadable(w)
    <3>1. PICK e \in Executions : SetStatus(e, "failed")
      BY <2>4 DEF DequeueUnreadable, Queued
    <3>. QED BY <1>2, <1>3, <2>4, <3>1 DEF DequeueUnreadable
  <2>10. CASE DequeueStranded(w)
    <3>1. PICK e \in Executions : SetStatus(e, "processing") /\ unrecorded' = unrecorded \cup {e}
      BY <2>10 DEF DequeueStranded, Queued
    <3>. QED BY <1>2, <1>3, <2>10, <3>1 DEF DequeueStranded, Owned
  <2>5. ASSUME NEW s \in QueueStatus, s # "processing", held[w] # Nobody, SetStatus(held[w], s),
               Release(w), UNCHANGED <<retry_tasks, unrecorded>>
        PROVE  Owned(d)'
    <3>1. held[w] # d /\ job_queue[d].status = "processing"
      BY <1>3, <2>5
    <3>. QED BY <1>2, <2>5, <3>1 DEF Release, TypeOK
  <2>6. CASE MarkCompleted(w)
    BY <2>5, <2>6 DEF MarkCompleted
  <2>7. CASE MarkFailed(w)
    BY <2>5, <2>7 DEF MarkFailed
  <2>8. ASSUME NEW n \in 0..1, NEW max \in 0..1, MarkFailedWithRetry(w, n, max)
        PROVE  Owned(d)'
    <3>1. CASE n < max /\ HasEntry(held[w])
      <4>1. /\ Spawn(held[w], "sleeping") /\ Release(w) /\ held[w] \in Executions
            /\ UNCHANGED <<job_queue, unrecorded>>
        BY <2>8, <3>1 DEF MarkFailedWithRetry
      <4>2. CASE held[w] = d
        <5>1. retry_tasks'[d]["sleeping"] > 0
          BY <4>1, <4>2 DEF Spawn, TypeOK, RetryStages
        <5>. QED BY <5>1 DEF Owned
      <4>3. CASE held[w] # d
        <5>1. retry_tasks'[d]["sleeping"] = retry_tasks[d]["sleeping"]
          BY <4>1, <4>3 DEF Spawn, TypeOK
        <5>. QED BY <1>2, <4>1, <4>3, <5>1 DEF Release, TypeOK
      <4>. QED BY <4>2, <4>3
    <3>2. CASE ~(n < max /\ HasEntry(held[w]))
      <4>1. SetStatus(held[w], "dead_letter") /\ Release(w) /\ held[w] # Nobody
            /\ UNCHANGED <<retry_tasks, unrecorded>>
        BY <2>8, <3>2 DEF MarkFailedWithRetry
      <4>. QED BY <2>5, <4>1
    <3>. QED BY <3>1, <3>2
  <2>9. CASE MarkError(w)
    <3>1. CASE held[w] = d
      BY <2>9, <3>1 DEF MarkError, Owned
    <3>2. CASE held[w] # d
      BY <1>2, <2>9, <3>2 DEF MarkError, Release, TypeOK
    <3>. QED BY <3>1, <3>2
  <2>. QED BY <1>4, <2>1, <2>2, <2>3, <2>4, <2>6, <2>7, <2>8, <2>9, <2>10 DEF WorkerStep
<1>5. ASSUME NEW e \in Executions, QueueStep(e)
      PROVE  Owned(d)'
  <2>1. ASSUME NEW p \in Priorities, Enqueue(e, p)
        PROVE  Owned(d)'
    BY <1>2, <2>1 DEF Enqueue, TypeOK
  <2>2. CASE Remove(e) \/ CascadeDelete(e)
    <3>1. job_queue'[d] = job_queue[d]
      BY <2>2, DeleteEntryType DEF Remove, CascadeDelete
    <3>. QED BY <1>2, <2>2, <3>1 DEF Remove, CascadeDelete
  <2>3. CASE RemoveError(e)
    BY <1>2, <2>3 DEF RemoveError
  <2>4. CASE RetryRequeue(e)
    <3>1. e # d /\ job_queue[d].status = "processing"
      BY <1>3, <2>4 DEF RetryRequeue
    <3>. QED BY <1>2, <2>4, <3>1 DEF RetryRequeue, TypeOK
  <2>5. CASE RetryRequeueError(e)
    <3>1. CASE e = d
      BY <2>5, <3>1 DEF RetryRequeueError, Owned
    <3>2. CASE e # d
      BY <1>2, <2>5, <3>2 DEF RetryRequeueError, Finish, TypeOK
    <3>. QED BY <3>1, <3>2
  <2>6. ASSUME NEW stage \in {"requeued", "revived"}, Finish(e, stage)
        PROVE  retry_tasks'[d]["sleeping"] = retry_tasks[d]["sleeping"]
    BY <2>6 DEF Finish, TypeOK, RetryStages
  <2>7. ASSUME NEW stage \in {"requeued", "revived"}, NEW p \in Priorities, RetryPush(e, stage, p)
        PROVE  Owned(d)'
    BY <1>2, <2>6, <2>7 DEF RetryPush
  <2>8. ASSUME NEW stage \in {"requeued", "revived"}, RetryUnreadable(e, stage)
        PROVE  Owned(d)'
    BY <1>2, <2>6, <2>8 DEF RetryUnreadable
  <2>9. CASE RetryDeadLetter(e)
    <3>1. e # d /\ job_queue[d].status = "processing"
      BY <1>3, <2>9 DEF RetryDeadLetter
    <3>. QED BY <1>2, <2>9, <3>1 DEF RetryDeadLetter, Spawn, TypeOK
  <2>. QED BY <1>5, <2>1, <2>2, <2>3, <2>4, <2>5, <2>7, <2>8, <2>9 DEF QueueStep
<1>6. CASE Cleanup
  <2>1. job_queue[d].status = "processing"
    BY <1>6 DEF Cleanup, NoEntry
  <2>. QED BY <1>2, <1>6, <2>1 DEF Cleanup
<1>7. CASE Restart
  BY <1>7 DEF Restart, Reset, TypeOK, QueueEntry
<1>8. CASE RestartUnrecovered
  BY <1>8 DEF RestartUnrecovered, Owned, HasStatus
<1>9. CASE UNCHANGED vars
  BY <1>2, <1>9 DEF vars
<1>. QED BY <1>4, <1>5, <1>6, <1>7, <1>8, <1>9 DEF Next

(* A processing row always has a worker, a sleeping retry or a lost write. *)
THEOREM ProcessingHasOwner == Spec => []ProcessingIsOwned
<1>1. Init => ProcessingIsOwned
  BY DEF Init, NoEntry, ProcessingIsOwned, HasStatus
<1>2. Spec => []TypeOK
  BY TypeCorrect
<1>. QED BY <1>1, <1>2, OwnedStep, PTL DEF Spec

-----------------------------------------------------------------------------
(* An execution whose row was deleted before a worker had it *)
Gone(e) ==
    /\ e \in submitted /\ e \notin retried
    /\ HasStatus(e, "absent") /\ ~Busy(e)
    /\ \A i \in memory_queue : i.execution_id # e
    /\ \A s \in RetryStages : retry_tasks[e][s] = 0

(* A step that gives e no row, no item, no task and no worker keeps it gone. *)
LEMMA GoneKept ==
    ASSUME NEW e \in Executions, Gone(e),
           submitted \subseteq submitted', e \notin retried',
           job_queue'[e].status = job_queue[e].status,
           \A i \in memory_queue' : i.execution_id = e => i \in memory_queue,
           retry_tasks'[e] = retry_tasks[e],
           \A w \in Workers : held'[w] = e => held[w] = e
    PROVE  Gone(e)'
BY DEF Gone, HasStatus, Busy

(* A row that is not there is not brought back by a change of its status. *)
LEMMA AbsentStays ==
    ASSUME TypeOK, NEW e \in Executions, HasStatus(e, "absent"),
           NEW d \in Executions, NEW s \in QueueStatus, SetStatus(d, s)
    PROVE  job_queue'[e].status = job_queue[e].status
BY SetStatusType DEF HasStatus

(* Nothing the queue does brings back an execution that is gone: it enters
   once, and only what a worker held is ever put back. *)
LEMMA GoneStays ==
    ASSUME TypeOK, NEW e \in Executions, Gone(e), [Next]_vars
    PROVE  Gone(e)'
<1>. USE DEF QueueStatus
<1>1. HasStatus(e, "absent") /\ e \in submitted /\ e \notin retried /\ ~Busy(e)
  BY DEF Gone
<1>2. e \notin Queued
  BY <1>1 DEF Queued, HasStatus
<1>3. ASSUME NEW w \in Workers, WorkerStep(w)
      PROVE  Gone(e)'
  <2>. held \in [Workers -> Executions \cup {Nobody}] /\ held[w] # e
    BY <1>1 DEF TypeOK, Busy
  <2>1. CASE DequeueMemory(w)
    <3>1. PICK i \in HeapTop : /\ memory_queue' = memory_queue \ {i}
                               /\ SetStatus(i.execution_id, "processing")
                               /\ held' = [held EXCEPT ![w] = i.execution_id]
      BY <2>1 DEF DequeueMemory
    <3>2. i.execution_id \in Executions \ {e}
      BY DEF HeapTop, TypeOK, QueueItem, Gone
    <3>3. job_queue'[e].status = job_queue[e].status
      BY <1>1, <3>1, <3>2, AbsentStays
    <3>. QED BY <2>1, <3>1, <3>2, <3>3, <1>1, GoneKept DEF DequeueMemory
  <2>2. CASE DequeueOverflow(w) \/ DequeueUnreadable(w) \/ DequeueStranded(w)
    <3>1. PICK d \in Queued, s \in QueueStatus :
             SetStatus(d, s) /\ (held' = held \/ held' = [held EXCEPT ![w] = d])
      BY <2>2 DEF DequeueOverflow, DequeueUnreadable, DequeueStranded
    <3>2. d \in Executions \ {e}
      BY <1>2 DEF Queued
    <3>3. job_queue'[e].status = job_queue[e].status
      BY <1>1, <3>1, <3>2, AbsentStays
    <3>4. \A v \in Workers : held'[v] = e => held[v] = e
      BY <3>1, <3>2
    <3>. QED BY <2>2, <3>3, <3>4, <1>1, GoneKept
             DEF DequeueOverflow, DequeueUnreadable, DequeueStranded
  <2>3. CASE DequeueError(w)
    BY <2>3, <1>1, GoneKept DEF DequeueError
  <2>4. ASSUME held[w] # Nobody, Release(w), memory_queue' = memory_queue,
               UNCHANGED submitted, retry_tasks'[e] = retry_tasks[e], e \notin retried',
               UNCHANGED job_queue \/ \E s \in QueueStatus : SetStatus(held[w], s)
        PROVE  Gone(e)'
    <3>1. job_queue'[e].status = job_queue[e].status
      BY <1>1, <2>4, AbsentStays
    <3>2. \A v \in Workers : held'[v] = e => held[v] = e
      BY <2>4, ExecutionsAssumption DEF Release
    <3>. QED BY <2>4, <3>1, <3>2, GoneKept
  <2>5. CASE MarkCompleted(w) \/ MarkFailed(w) \/ MarkError(w)
    BY <2>4, <2>5, <1>1 DEF MarkCompleted, MarkFailed, MarkError
  <2>6. ASSUME NEW n \in 0..1, NEW max \in 0..1, MarkFailedWithRetry(w, n, max)
        PROVE  Gone(e)'
    <3>1. retry_tasks'[e] = retry_tasks[e] /\ e \notin retried'
      BY <1>1, <2>6 DEF MarkFailedWithRetry, Spawn, TypeOK
    <3>. QED BY <2>4, <2>6, <3>1 DEF MarkFailedWithRetry
  <2>. QED BY <1>3, <2>1, <2>2, <2>3, <2>5, <2>6 DEF WorkerStep
<1>4. ASSUME NEW d \in Executions, QueueStep(d)
      PROVE  Gone(e)'
  <2>1. ASSUME NEW p \in Priorities, HeapPush(d, p), d # e
        PROVE  \A i \in memory_queue' : i.execution_id = e => i \in memory_queue
    BY <2>1 DEF HeapPush
  <2>2. ASSUME NEW p \in Priorities, Enqueue(d, p)
        PROVE  Gone(e)'
    <3>1. d # e
      BY <1>1, <2>2 DEF Enqueue
    <3>. QED BY <1>1, <2>1, <2>2, <3>1, GoneKept DEF Enqueue, TypeOK
  <2>3. CASE Remove(d) \/ CascadeDelete(d)
    <3>1. job_queue'[e].status = job_queue[e].status
      BY <1>1, <2>3, DeleteEntryType DEF Remove, CascadeDelete, HasStatus
    <3>. QED BY <1>1, <2>3, <3>1, GoneKept DEF Remove, CascadeDelete
  <2>4. CASE RemoveError(d)
    BY <1>1, <2>4, GoneKept DEF RemoveError
  <2>5. ASSUME NEW stage \in RetryStages, retry_tasks[d][stage] > 0
        PROVE  d # e
    BY <2>5 DEF Gone
  <2>6. CASE RetryRequeue(d)
    <3>1. d # e
      BY <2>5, <2>6 DEF RetryRequeue, RetryStages
    <3>2. job_queue'[e].status = job_queue[e].status
      BY <1>1, <2>6, AbsentStays DEF RetryRequeue
    <3>. QED BY <1>1, <2>6, <3>1, <3>2, GoneKept DEF RetryRequeue, TypeOK
  <2>7. CASE RetryRequeueError(d)
    <3>1. d # e
      BY <2>5, <2>7 DEF RetryRequeueError, RetryStages, Finish
    <3>. QED BY <1>1, <2>7, <3>1, GoneKept DEF RetryRequeueError, Finish, TypeOK
  <2>8. ASSUME NEW stage \in {"requeued", "revived"},
               (\E p \in Priorities : RetryPush(d, stage, p)) \/ RetryUnreadable(d, stage)
        PROVE  Gone(e)'
    <3>1. Finish(d, stage) /\ stage \in RetryStages
      BY <2>8 DEF RetryPush, RetryUnreadable, RetryStages
    <3>2. d # e
      BY <2>5, <3>1 DEF Finish
    <3>3. retry_tasks'[e] = retry_tasks[e]
      BY <3>1, <3>2 DEF Finish, TypeOK
    <3>. QED BY <1>1, <2>1, <2>8, <3>2, <3>3, GoneKept DEF RetryPush, RetryUnreadable
  <2>9. CASE RetryDeadLetter(d)
    <3>1. d # e
      BY <1>1, <2>9 DEF RetryDeadLetter, HasStatus
    <3>2. job_queue'[e].status = job_queue[e].status
      BY <1>1, <2>9, AbsentStays DEF RetryDeadLetter
    <3>. QED BY <1>1, <2>9, <3>1, <3>2, GoneKept DEF RetryDeadLetter, Spawn, TypeOK
  <2>. QED BY <1>4, <2>2, <2>3, <2>4, <2>6, <2>7, <2>8, <2>9 DEF QueueStep
<1>5. CASE Cleanup
  BY <1>1, <1>5, GoneKept DEF Cleanup, HasStatus, NoEntry
<1>6. CASE Restart \/ RestartUnrecovered
  <2>1. /\ job_queue'[e] = job_queue[e]
        /\ \A i \in memory_queue' : i.execution_id # e
    <3>1. CASE Restart
      <4>1. job_queue'[e] = job_queue[e]
        BY <1>1, <3>1 DEF Restart, Reset, HasStatus
      <4>2. memory_queue' \subseteq Recovered(job_queue')
        BY <3>1 DEF Restart, RecoverLoad
      <4>. QED BY <1>1, <4>1, <4>2 DEF Recovered, HasStatus
    <3>2. CASE RestartUnrecovered
      BY <3>2 DEF RestartUnrecovered
    <3>. QED BY <1>6, <3>1, <3>2
  <2>2. StartUp
    BY <1>6 DEF Restart, RestartUnrecovered
  <2>. QED BY <1>1, <2>1, <2>2, ExecutionsAssumption DEF StartUp, Gone, HasStatus, Busy
<1>7. CASE UNCHANGED vars
  BY <1>1, <1>7, GoneKept DEF vars
<1>. QED BY <1>3, <1>4, <1>5, <1>6, <1>7 DEF Next

(* While the server runs, a row that was not put back is queued only by its
   enqueue. *)
LEMMA QueuedBefore ==
    ASSUME IInv, NEW e \in Executions, e \notin retried', HasStatus(e, "queued")',
           (\E w \in Workers : WorkerStep(w)) \/ (\E d \in Executions : QueueStep(d)) \/ Cleanup
    PROVE  HasStatus(e, "queued") \/ e \notin submitted
<1>. USE DEF HasStatus, QueueStatus
<1>0. TypeOK
  BY DEF IInv
<1>1. CASE UNCHANGED job_queue
  BY <1>1
<1>2. ASSUME NEW d \in Executions, NEW s \in QueueStatus \ {"queued"}, SetStatus(d, s)
      PROVE  HasStatus(e, "queued")
  BY <1>0, <1>2, SetStatusType
<1>3. ASSUME NEW w \in Workers, WorkerStep(w)
      PROVE  HasStatus(e, "queued")
  <2>. held[w] \in Executions \cup {Nobody}
    BY <1>0 DEF TypeOK
  <2>1. CASE DequeueMemory(w)
    <3>1. PICK i \in memory_queue : SetStatus(i.execution_id, "processing")
      BY <2>1 DEF DequeueMemory, HeapTop
    <3>2. i.execution_id \in Executions
      BY <1>0 DEF TypeOK, QueueItem
    <3>. QED BY <1>2, <3>1, <3>2
  <2>2. CASE DequeueOverflow(w) \/ DequeueUnreadable(w) \/ DequeueStranded(w)
    BY <1>2, <2>2 DEF DequeueOverflow, DequeueUnreadable, DequeueStranded, Queued
  <2>3. CASE MarkCompleted(w) \/ MarkFailed(w)
    BY <1>2, <2>3 DEF MarkCompleted, MarkFailed
  <2>4. ASSUME NEW n \in 0..1, NEW max \in 0..1, MarkFailedWithRetry(w, n, max)
        PROVE  HasStatus(e, "queued")
    BY <1>1, <1>2, <2>4 DEF MarkFailedWithRetry
  <2>. QED BY <1>1, <1>3, <2>1, <2>2, <2>3, <2>4 DEF WorkerStep, DequeueError, MarkError
<1>4. ASSUME NEW d \in Executions, QueueStep(d)
      PROVE  HasStatus(e, "queued") \/ e \notin submitted
  <2>1. ASSUME d # e, NEW s \in QueueStatus, SetStatus(d, s)
        PROVE  HasStatus(e, "queued")
    BY <1>0, <2>1, SetStatusType
  <2>2. ASSUME NEW p \in Priorities, Enqueue(d, p)
        PROVE  HasStatus(e, "queued") \/ e \notin submitted
    BY <1>0, <2>2 DEF Enqueue, TypeOK
  <2>3. CASE Remove(d) \/ CascadeDelete(d)
    BY <1>0, <2>3, DeleteEntryType DEF Remove, CascadeDelete
  <2>4. CASE RetryRequeue(d)
    <3>1. d # e
      BY <2>4 DEF RetryRequeue, RetryStages, IInv, TasksArePutBack
    <3>. QED BY <2>1, <2>4, <3>1 DEF RetryRequeue
  <2>5. CASE RetryDeadLetter(d)
    <3>1. d # e
      BY <2>5 DEF RetryDeadLetter, Spawn
    <3>. QED BY <2>1, <2>5, <3>1 DEF RetryDeadLetter
  <2>. QED BY <1>1, <1>4, <2>2, <2>3, <2>4, <2>5
           DEF QueueStep, RemoveError, RetryRequeueError, RetryPush, RetryUnreadable
<1>5. CASE Cleanup
  BY <1>0, <1>5 DEF Cleanup, NoEntry
<1>. QED BY <1>3, <1>4, <1>5
=============================================================================
