# Specification of serverust-less

TLA+ modules, TLC configurations and TLAPS proofs for serverust-less, a
self-hosted platform that runs Python jobs: a REST API (axum) creates
executions and puts them into a two-level queue, a pool of tokio tasks takes
them out and runs each as a Python process, DAGs and cron schedules create more
of them, and an SQLite database records everything. Paths below are relative to
the repository's root.

## The system

| Component | State | Operations | Talks to |
|---|---|---|---|
| Job queue, `src/queue/manager.rs`, `src/db/queue.rs` | a bounded in-memory heap behind an async mutex; the `job_queue` table, one row per execution | enqueue, dequeue (heap, then overflow rows), remove, mark_completed, mark_failed, mark_failed_with_retry (spawns a delayed task), retry_dead_letter, recover, cleanup | called by API, scheduler, DAG engine and workers; reads executions and jobs to rebuild items |
| Worker pool, `src/worker/pool.rs` | per worker: where it is in its loop, the row it read, the outcome | one loop: dequeue, set running, register, run, unregister, finalize, settle the queue entry, DAG callback | queue, process registry, `executions` table, DAG engine |
| Process registry, `src/worker/process_manager.rs` | map execution -> (cancel sender, pid) behind an async RwLock | register, update_pid, unregister, cancel (SIGTERM, grace period, SIGKILL, lock held) | workers and the cancel handler |
| Executions, `src/services/execution_service.rs`, `src/api/executions.rs`, `src/db/executions.rs` | the `executions` table; no locks, rows are read and written back whole | create, execute, retry, cancel, delete, bulk delete, logs, SSE stream | queue, process registry |
| Retention, `src/main.rs:240-306` | none | deletes old executions, logs and settled queue rows | `executions`, `job_queue` |
| Executor and Python runner, `src/worker/executor.rs`, `python_runner.rs` | the child process, its pipes, two reading tasks, a bounded channel | spawn with limits, time out, collect output | workers |
| DAG engine, `src/dag/engine.rs` | `dag_runs`, `dag_node_executions` | trigger a run, completion callback (counters, failure policy), advance, cancel a run | workers call it, it enqueues |
| DAG service, `src/services/dag_service.rs` | `dags`, `dag_edges` | update, add and delete edges (cycle check), topological order, validation | API |
| Scheduler, `src/scheduler/mod.rs`, `src/services/schedule_service.rs` | `job_schedules` | tick: find due, create, enqueue, mark triggered; create, update, toggle, delete | queue, executions |
| Jobs, venvs, `src/services/job_service.rs`, `venv_service.rs` | `jobs`, `venvs`, directories | create, clone, update, toggle, select a venv, delete | API |
| Packages, `src/services/package_service.rs`, `src/worker/package_manager.rs` | `package_cache`, site-packages, the lock of the main venv | install, update, uninstall, delete, clear; conflict strategies | API, pip |
| Queue, audit and log services, configuration, routing, web UI | read-only views, append-only records, wiring | | |

What is hard in it, listed with lines in `PROJECT.json` under `hazards`:

- **Interleaving.** The queue has two levels, and only the heap is under the
  mutex. The delayed retry changes the row first and the heap later. Cancel,
  worker and delete change one execution's row with no lock between them, and so
  do two completions of one DAG run, two requests about one job, one DAG or one
  venv, and the scheduler's loop and an update of a schedule.
- **Partial failure and crashes.** Every await on the database may fail, and most
  failures are only logged. A restart loses heap, workers, tasks and
  registrations and keeps the tables.
- **Retries.** A retry is a detached task, its limit is a count in another table,
  and the DAG engine does not know of it.
- **Boundaries.** Four places push into the heap, each with its own test of the
  capacity; timestamps of two formats are compared as text; pipes and channels
  are bounded and read by different tasks.
- **Processes outside.** Python and pip outlive time-outs, hang-ups and crashes.

## The modules

| Module | What it is |
|---|---|
| `QueueManager` | the queue, all its operations, with their database failures and restarts; its clients are workers that hold at most one execution each |
| `ProcessManager` | the registry; cancel with its grace period is two actions |
| `WorkerPool` | the life of an execution: API requests, worker loop and background tasks over the `executions` table, composed with an instance of each of the other two |
| `DagGraph` | edges, upstreams, cycles: what the DAG modules share |
| `DagValidation` | Kahn's algorithm as the two functions of the DAG service run it |
| `DagService` | one DAG's settings and edges under concurrent requests |
| `DagEngine` | one run of a DAG: trigger, completions, advance, cancellation |
| `ScheduleContract` | what a schedule promises, without rows and loops |
| `Scheduler` | the loop and the requests about schedules; implements `ScheduleContract` |
| `ExecutionStream` | the log of one execution: its attempts write it, its streams page through it |
| `PythonRunner` | one Python process, its pipes, the tasks that read them and the runner that waits |
| `JobCatalog` | jobs and named venvs under concurrent requests |
| `Packages` | the main venv's packages: rows, disk, lock and pip |
| `MC*` | small instances of these for TLC |
| `*Proofs` | theorems |

`QueueManager` and `ProcessManager` are instantiated by `WorkerPool`, which
refines `QueueManager`; `Scheduler` refines `ScheduleContract`. The others stand
beside them: a DAG run, a schedule and a stream meet the pool only in an
execution that is created, ends or is repeated, and each of these modules has
those events as actions of its own.

### State and steps

An action is one stretch of code that no other task can observe half-way: from
one await on shared state to the next. A failure of a database call is an action
of its own where the code goes on differently. Variables marked as history
record what happened for a property to speak of and guard nothing.

**`QueueManager`** keeps the heap as a set of items (`copy` tells two items of one
execution apart), the table as a function from execution to row, the number of
spawned retries per stage, and for each worker what it was `held`. `submitted`,
`retried` (what was put back since the last start: the deliberate second delivery
of an execution) and `unrecorded` (rows about which a write failed) are history.
`enqueue` holds the mutex over the INSERT and the push, so it is one action; the
retry task and `retry_dead_letter` reset the row and lock the heap later, so they
are two.

**`ProcessManager`** keeps, per execution, who registered it and whether the pid is
known. A worker's `cancel_rx` is ready as soon as the map entry is not its own:
the sender fired or was dropped with the entry.

**`WorkerPool`** gives each worker a program counter whose labels are the awaits of
the loop in `WorkerPool::new`. `set_execution_running` is two steps, `ReadRow` and
`WriteRunning`, since the whole row is written back; the check for a cancellation
and `finalize_execution` are two as well. A cancel request is four steps in the
order of `api/executions.rs:174-178`. Requests may stop half-way (a client that
hangs up drops the handler's future). `create_execution` and `retry_execution` are
one action, as they insert the same row but for its count. `QueueSpec` is the abstract specification
of what all these do to the queue.

**`DagValidation`** pops one node at a time in any order inside a level (the code
iterates over a `HashMap`); in-degrees count edges, as a candidate may repeat a
stored edge. **`DagService`** reads, then writes: `AddRead` takes the edges and
decides with `Cyclic`, which `DagValidation` shows to be what the algorithm
computes; `AddInsert` comes later. `overtaken` are the requests whose read was out of
date when they wrote, `unchecked` the edges they inserted.

**`DagEngine`** has a thread for the trigger, one for a cancellation and one per
worker that reports an execution. A thread's `frame` holds the copies it has read;
the loops over nodes take one node per step in the order of `created_at` and write
whole rows from the copies. `Advance` is `advance_dag_run`, for whichever thread
calls it. An execution's own life is reduced to created, queued, ended and repeated by
the queue (`QueueRetries`), or lost on the way: abandoned when its node could not be
marked, stranded when it could not be enqueued. It may end without a report
(`EndsUnreported`): cancelled while it is pending, deleted, or not set running. `CutOff`
ends any thread at any await, for every query may fail and return by `?`, and a client
that hangs up has its request dropped.

**`Scheduler`** has a clock of ticks and days, the rows, the loop with the row at
hand, and requests that hold the row they are to write. A new `next_run_at` is taken
when a request has read the row, or when the loop has enqueued the execution
(`CalculateNext`), and written an await later, so a trigger, its record and the passing
of time fall in between. `Due` compares as the code does, by
the text of two formats, which on one day makes a time later than any `now` of
that day: a row is due once its date is past. An expression is its first
occurrence and a step, 0 for an expression with a year. `last`, `runs` and
`lapsed` are `ScheduleContract`'s variables; `missed` tells which requests a trigger
was recorded behind.

**`ExecutionStream`** lets the `created_at` of an entry stand for the entry, as no
property asks for its text. A worker takes it from the clock before it inserts the
entry, and the table (`rows`) is in its order, so that an entry stored late lands in
the middle. Attempts may overlap; `alone` remembers whether any have. Each reads the
row of the execution and writes it back in a second step, with the `completed_at` it
had when it was read, so that a cancel in between is undone. An INSERT that fails
leaves no entry behind. A stream fetches a page by its offset and then checks whether
the execution is complete, in two steps.

**`PythonRunner`** has the program (lines left to write, an exit, a signal, a
process of its own that keeps the pipes open), two pipes, a reading task for each,
the channel to `on_output` with the task behind it, and the runner: wait, kill,
collect, done. Its kind (`execute` or `execute_streaming`) is chosen in `Init`.

**`JobCatalog`** keeps of a job its name and its venv, the two fields something
else depends on; the rest of the row is written along. A request looks a name up,
reads a row or looks for a directory in one step and writes in another. The foreign
key of `jobs.venv_id` guards each write; ON DELETE SET NULL is part of `DeleteVenv`.

**`Packages`** has requests that install a list of packages one by one, uninstall,
clear rows or delete a list of rows; the lock; and per request its pip, which goes
on when the request has given up on it. Conflicts are looked up before the lock is
taken, rows are written after it is released. Names are spellings: pip folds case, `-`,
`_` and `.` into one package (`Package`), an uninstallation finds the rows that differ
in case (`Alike`), every other query those spelled alike. pip also changes what a
package requires (`Requires`), and may have changed something when it fails; no request
hears of that.

### Abstractions

- A row's timestamps are left out where they follow its status; `queued_at` and
  `created_at` are kept where they order rows. Whether a row is old enough for the
  cleanup is left open: it may be taken at any time.
- Code, input, output, messages and settings nothing else depends on are left out.
- The executions of `WorkerPool` share one job: `JobPriority` and `JobMaxRetries`
  are constants.
- `mark_failed_with_retry` reads the row and then writes it; these are one step,
  since only the row's existence is read and a vanished row makes the write void.
- A hang-up between the INSERT and the push of `enqueue` looks like a full heap:
  the row is there, the item is not. It needs no step of its own.
- `DagEngine`: `FailRun` and `EndRun` read the run and recount its nodes in one step;
  the recount goes into `completed` alone, on which nothing depends.
- `create_venv` looks for the directory twice; as directories are never removed, the
  second look decides and is the one modelled.
- `WorkerPool::shutdown`, `cancel_all`, `retry_dead_letter`,
  `QueueManager::cleanup` and `Execution::increment_retry` have no caller in
  `src/`. `retry_dead_letter` is public, so `QueueManager` has it; `WorkerPool`
  does not call it.

## The runs

| Run | Instance | Question and answer |
|---|---|---|
| `queue` | 2 executions, 2 workers, heap of 1, 1 task per execution and stage, all failures, any number of restarts | `MemoryBounded`, `ProcessingIsOwned`, `SingleDelivery`, `SettledIsFinal`: the heap keeps its limit, no row is stranded, no execution is handed out twice unless it was put back, no settled row reopens |
| `pool` | 1 execution, 2 workers, database failures, hang-ups, 1 retry, 1 restart | `RegistrationsAreLive`, `KilledOnPurpose`, `WithdrawnNeverRuns`: registrations stay with the run that made them, no run is killed by accident, nothing that was withdrawn runs; and the refinement `QueueSpec` |
| `pool_liveness` | 2 executions, 1 worker, 1 restart, no retries, sound database, fair | `TablesAgree`: queue row and execution agree however it ends; `EveryExecutionEnds` |
| `dag_validation` | all graphs of up to 4 stored edges and a candidate over 4 jobs | `DecidesCycles`, `LevelsAreRight`, `Terminates` |
| `dag_service` | 2 requests, 3 jobs, 2 settings of 2 values | `CyclesNeedARace`, `UpdatesHold`: only overlapping requests close a cycle or lose an update |
| `dag_run` | 3 graphs of 3 nodes, one node at a time, `stop`, unusable jobs, failing queries, hang-ups, unreported executions, 1 repetition by the queue | `InertUntilCancelled`, `OnlyFailuresForget`, `StartsOnce`, `NodesTakeTurns`, `RunCloses` |
| `dag_never_starts` | these graphs and a fan-out | violation of `ReadyNodesRun` |
| `schedules` | 1 schedule, 1 job, 2 requests, 2 days of 2 ticks, all failures and crashes | `OccurrencesRunOnce` (the refinement), `NothingOutlivesItsJob`, `DeletedStaysDeleted`, `DueSchedulesRun` |
| `stream` | 1 stream (streams only read, and do not meet), 2 attempts that may overlap, pages of 2, failing queries and INSERTs, cancel, delete, restarts | `SentInOrder`: nothing twice, nothing left out; `StreamsEnd` |
| `runner` | 3 lines, pipes and channel of 1 | `OutputIsComplete`, `SuccessIsReal`, `NoProcessLeft`, `RunEnds`, `TimeoutEnds` |
| `catalog` | 2 requests, 2 jobs, 2 names, 2 venvs of 1 directory | `SelectedVenvsExist`, `NothingTakenTwice`, `JobsStayDeleted` |
| `packages` | 2 requests for 1 name, or 1 for 2 names that differ in case, in a dash, or as package and dependency; 2 versions, 2 rows, strategy "fail" | `OnePipAtATime`, `RowsMatchDisk`, `OneRowPerVersion`, `RequestsEnd` |

No run lists a type invariant: each is part of an inductive invariant that is proved
(below).

**Exceptions the properties name.** Where the code has no protection, a property
holds up to a condition that is stated in it, so that the run says what is the
only way to break it:

- `retried` in `SingleDelivery`: an execution that was put back is delivered again.
- `Repeated` and `MaxConcurrentNodes = 1` in `StartsOnce` and `NodesTakeTurns`: two
  completions at once, or one that the queue repeats, advance the run twice. That
  nothing else does is the theorem `NodesRunInOrder`.
- `Forgotten` in `OnlyFailuresForget`: an execution that could not be enqueued, or whose
  end nobody reported; its node stays running.
- abandoned executions in `StartsOnce` and `NodesTakeTurns`: a node that could not be
  marked running stays waiting and is started again; its first execution never reaches
  the queue.
- "cut" in `RunCloses`: an error or a hang-up ends a completion that has settled its
  node, or a cancellation between the nodes and the run; the run stays "running".
- `overtaken` in `CyclesNeedARace` and `UpdatesHold`.
- `lapsed` in `ScheduleContract`: a trigger that is not recorded (a crash, a failed
  UPDATE, an expression with nothing to come), or a record written over by a request
  that made up its row before (`missed`), with a time not ahead any more (`Rewinds`).
- `alone` in `SentInOrder`: two attempts under way at once, as in `DoubleRun.cfg` or
  when a retry begins before the last entry of the attempt before is written. What one
  stores late shifts the offset: a client gets an entry twice and another never.
- the undone `completed` in `StreamsEnd`: a worker writes the row back as it was before
  a cancel, or the execution is deleted; the stream then polls on.
- `contested` in `NothingTakenTwice`: two requests about to write one name.
- `HeldOpen` in `RunEnds` and `TimeoutEnds`: a process that keeps the pipes open, or
  the child itself when waiting for it has failed.
- `Awaited` in `OnePipAtATime`: a pip left behind by a time-out, a hang-up or a crash.
- `calm` in `RowsMatchDisk` and `OneRowPerVersion`: requests overlap, a query or a
  command fails after pip has acted, or a row is deleted for itself.
- `told` in `RowsMatchDisk`: the rows answer for the names under which a request heard
  of the last change of the package. What pip changes for a dependency's sake or before
  it fails has no row, and an uninstallation leaves the rows of another spelling
  (`a_b` for `a-b`) listed as ready.

**Why the bounds are enough.** A heap of one item with two executions already
fills, so enqueue, retry and recovery all meet a full heap and the overflow path
runs. Two workers are what a race needs: every property speaks of one execution
and at most two holders. One sleeping, one requeued and one revived push per
execution may be in flight together, so the heap can hold an execution twice. One
restart suffices in the pool because a restart leaves only the two tables and
clears the rest; `queue` restarts without a bound. `pool` has retries and
failures, `pool_liveness` two executions that compete: their product is out of
reach. `PoolRetries.cfg` has two executions, API retries and queue retries, without
restarts; `TablesAgree` and `OnlySpentOnesAreDead` hold there too
(2.3 million states). Four jobs hold every shape Kahn's algorithm distinguishes (a cycle with a
tail into it and out of it, a diamond, a repeated edge). In a DAG run, chain,
fan-out and join with each kind of condition a cancelled root can satisfy lead to
every step of the engine; two completions need two branches. `dag_run` leaves the
fan-out to `DagSlots.cfg`, where two nodes run at once: one at a time, it only adds to
the number of runs. A schedule needs two days, as
it is due on the day after; a second schedule only shares the loop's order. Every
pair of requests of `catalog` and `packages` meets on each row, each name and the
lock. In `runner` three lines fill a pipe, a reader and the channel behind it, so
that each writer is held up. What names and dependencies do to the rows is a matter of
one request at a time (`calm`), so `packages` has several names in the workloads of one
request and one name where two requests meet; the proofs have no such bound. A page of two stands for one of a hundred: an attempt
writes up to four entries.

**Deadlock** is checked in `queue` and `schedules`. In the other models the work is
finite (executions, requests or lines are used up), and when it is done nothing
remains; that nothing gets stuck before is what their liveness properties say.

**Fairness.**

- `pool_liveness`: each worker takes steps as long as it can, because the loop never
  returns and a run ends (`runner`); an accepted submit or cancel request and a
  spawned retry run to their end, as tokio tasks do. Nothing is assumed of clients,
  pid reports, the cleanup or restarts. `EveryExecutionEnds` excuses an execution a
  cancel acted on before a restart: the cancel has removed its queue row and the
  worker's late write has made it running again (`CancelFinal.cfg` shows that
  write), so recovery does not know it.
- `dag_run`: the trigger, an accepted cancellation and a completion go on until they
  are cut off, and a queued execution ends, reported or not; nobody has to cancel, and
  the queue need not repeat anything.
- `schedules`: weak fairness of the loop, and strong fairness of its three writes:
  a query may fail any number of times, though not always. Crashes come to an end.
- `stream`: a stream polls on; where queries may fail, its check succeeds now and
  then.
- `runner`: the runtime polls the tasks and the runner. The program owes nothing:
  `RunEnds` has its fairness as an antecedent, `TimeoutEnds` does without.
- `packages`: requests go on and time-outs fire; the lock is handed on in the order
  of requests (tokio's `Mutex` is fair), hence strong fairness of taking it. That
  `pip uninstall` and `pip show` end is an antecedent of `RequestsEnd`: they run under
  the lock without a time-out, and nothing in the code would end them.

## Where code and documentation disagree

The run `dag_never_starts` is the finding: `trigger_dag` sets the roots to ready
(`src/src/dag/engine.rs:84`) and `advance_dag_run` starts only waiting nodes (223),
so no node of a run is ever started, although line 90 says "Advance: start executing
ready nodes". `InertUntilCancelled` shows that only a cancellation sets a run going:
it turns a root to cancelled, which satisfies the conditions "always" of its edges.

The configurations below are kept beside the runs; TLC violates the property of
each with a short trace that tells how the code departs from what it says of itself.

| Configuration | Module | What TLC shows |
|---|---|---|
| `DoubleRun` | `MCWorkerPool` | a retry resets the row (`queue/manager.rs:237`) and pushes the item later; an idle worker takes the row over the overflow path and a second one the item: two workers run one execution. `SingleDelivery` says that nothing else does this |
| `CancelFinal` | `MCWorkerPool` | `set_execution_running` and `finalize_execution` write over a cancellation that arrives after their read |
| `RetriesExhausted` | `MCWorkerPool` | no queue retry increments `retry_count` (`queue/manager.rs:211`): a job that keeps failing is retried for ever, the dead letter queue stays empty. The repository's README (10, 50-51, 152), `worker/pool.rs:220-221` and `queue/manager.rs:216` say that retries are counted and run out |
| `QueuePriority` | `MCQueueManager` | "Dequeue the highest-priority item" (`queue/manager.rs:115`) holds within heap and overflow, not between them |
| `CyclicDag` | `MCDagService` | two edges added at once close a cycle |
| `DagCancel` | `MCDagEngine` | `trigger_dag` writes the roots back from old rows, after a cancellation |
| `DagOverlap` | `MCDagEngine` | two completions together start more than `max_concurrent_nodes` |
| `ScheduleSameDay` | `MCScheduler` | a tick does not find a schedule whose `next_run_at` is earlier today (`db/schedules.rs:132`) |
| `ScheduleTwins` | `MCScheduler` | two requests give one job two schedules |
| `ScheduleDisabled` | `MCScheduler` | the loop finds the job enabled, the owner disables it, `create_execution` enables it again |
| `StreamMisses` | `MCExecutionStream` | the last entries are stored after the last page was fetched and before the check, or after `completed_at`: the stream ends without them |

Met while modelling, and left open by the properties (their exceptions above):
an expression with a year is triggered at every tick once it is due, since there is
no next time to record; a process that a job has started keeps a run open past its
time-out; a run that the out-of-memory killer ends has no exit code and is not
reported as out of memory; the selection of a venv is not used, a job with
`use_custom_venv` runs in `job-<id>`; the directory of a deleted venv stays and keeps
its name taken; clearing the main venv clears rows only; UNIQUE does not hold rows of
`package_cache` apart, whose `venv_id` is NULL; a failed row may hide a conflict; an
uninstallation has no time-out and holds the lock.

## What is proved

`tlapm` checks every proof, for any sets and any bounds that meet the ASSUMEs of
the modules.

`QueueManagerProofs`

- `TypeCorrect`, `MemoryIsBounded`: every push tests the capacity under the mutex.
- `DeliveredSingly`: `SingleDelivery` is inductive only together with two facts.
  `UnknownBefore` says that the queue knows nothing of an execution before its
  enqueue, so a fresh row meets no old item. `TasksArePutBack` says that only an
  execution that was put back has a delayed push, so a push never doubles an
  item of any other. `IInv` is their conjunction with the type and the bound.
- `SettledForGood`: the action property, from the same invariant: a dequeue finds
  a queued row, and an item in the heap belongs to one.
- `ProcessingHasOwner`: inductive by itself over the types.

`WorkerPoolProofs`

- `ImplementsQueue`: every step of the pool is a step of the queue or leaves it
  alone. The retry decision takes any two numbers in the pool and one of
  0 and 1 in the queue; `RetryDecision` shows that only their order matters.
- `PoolKeepsQueue`: so the queue's theorems hold inside the pool, with cancels,
  deletions, failures and restarts going on around it.
- `PoolInvariant`: `IInv` of `WorkerPool`, from which `PoolTypeCorrect`,
  `RegisteredIsRunning` and `NeverKilledByAccident` follow. Registrations go by
  execution, so a second worker with the same execution would take over or drop
  the first one's. The proof shows who can do that (`OwnerLost`), and that two
  workers share an execution only after a retry put it back (`SharedIsTouched`,
  from the inherited `SingleDelivery`).
- `WithdrawnStaysOut`: what keeps a withdrawn execution from running is that the queue
  has nothing left of it, neither row nor item nor task (`WithdrawnGone`). A cancel
  takes several steps to get there, and in between the row must stay as the cancel
  wrote it (`MarkedIsOff`); for that an execution must be created once only, and
  before it is submitted (`ClientsKept`).
- `TablesStayInStep`, under `~Faults`: `Agreement` adds to `TablesAgree` what a worker is
  about to settle an entry with (`RunAgrees`) and that an entry which is gone was
  that of a success with nothing left behind (`RowAgrees`). The hypothesis is needed: a
  `finalize_execution` that fails leaves a running execution beside a completed queue
  row, as the code only logs the failure.
- `NothingGivenUpEarly`, under `~Faults`: `TablesAgree` leaves the
  executions aside that a cancel or a retry acted on; `OnlySpentOnesAreDead` speaks of
  them too. Only a settling worker fills the dead letter queue (`DeadBy`), and the
  count it goes by is the one the row was created with: that is the lemma
  `RetriesAreNotCounted`, which also says for all executions what
  `RetriesExhausted.cfg` shows of one. A worker writes back a whole row it read before,
  so the lemma needs that its copy counts the same (`CopiesCountTheSame`). With failing
  queries the theorem need not hold: an unreadable job is judged by the configured limit.

`DagDefinitionProofs`

- `CyclesAreDecided`: for every finite graph. `Counts` makes the in-degree
  of a node the number of its edges from unsorted ones, `Frontier` says that exactly
  the unsorted nodes without such edges are in the queue or the next level, and
  `CyclesUntouched` that a set of nodes closed under going upstream is never entered.
  At the end the unsorted nodes are such a set: they hold a cycle.
- `LevelsAreCorrect`: the levels rise by one along the queue (`Levels`), so they
  respect the edges and are no higher than these force them to be.
- `AcyclicUnlessOvertaken`: what a request that is not overtaken has read still holds
  when it writes (`ReadsHold`), and taking edges away closes no cycle.
- `UpdatesAreKept`: until an overtaken update writes, the stored settings are those
  of all updates applied in turn.

`DagEngineProofs`

- `NothingStartsByItself`: before a cancellation the trigger is the only thread, no
  node is beyond ready, and when it advances the run every root is ready, so that
  nothing is startable (`OnlyTrigger`).
- `NodesAreLeftByFailures`: every row and every copy of a row names an execution that was
  started for its node and kept (`RowsOwned`), an execution is in one thread's hands until
  it is enqueued or dropped (`HandedOver`, `OneHand`), and a completion settles exactly the
  node of its execution (`Settling`); for any number of completions at once, each cut off at
  any await. So no stale row leaves a node running: only a lost execution or report does.
- `NodesRunInOrder`: with any number of slots, in every run whose advances do not meet
  (`~AdvancesMeet`: no two threads at once have chosen nodes they still have to start),
  each job is given to the queue once, at most `max_concurrent_nodes` nodes are marked
  running, and none before its upstreams are over (`RunsInOrder`), whatever query fails,
  whichever report is lost, whatever is cancelled or is run again by the queue. What a thread has chosen is `Reserved` for it: with the running
  nodes it is within the limit, for all the chosen nodes but the last come before that one
  and are fewer than the free slots (`ChoiceFits`); and no execution is kept for it.
  A node leaves "waiting" before its execution goes to the queue, and no copy that says
  "waiting" is written back later (`NeverWaitsAgain`); if it cannot be marked, its execution
  is abandoned (`Kept`). The limit is one of marked nodes: a cancellation
  frees a slot while its execution still runs. TLC checks it in `DagSlots.cfg` (two
  slots, 1.03 million states).
- `NoJobStartsTwice`, `NodesRunInTurn`: with one slot and no repetition by the queue
  advances do not meet, for a run has one token (`OneToken`): the trigger holds it until
  it advances the run, then the thread that advances, the execution it has put into the
  queue, and the completion of that execution. With one slot one node is chosen, and none
  is left once it is in the queue (`NoneLeft`).

`SchedulerProofs`

- `SchedulerKeepsContract`: `Spec` implements `ScheduleContract`. The invariant adds to
  the types and `NeverEarly` what the rows and their copies say about history. The
  `next_run_at` of a row is later than the last occurrence that was run (`Unrun`),
  unless the schedule has lapsed or the loop has triggered it and is about to record
  that (`RowsKept`); so is the one a request is to write, unless a trigger has been
  recorded since it read the row (`RequestsKept`). What the loop has read is due and
  still to be run, each schedule once (`TickKept`). The mapping is explicit:
  `Contract == INSTANCE ScheduleContract WITH ...`; every step of the code is one of
  the contract's or leaves its variables alone (`StepRefines`).
- `SchedulesGoWithTheirJob`, `DeletionsAreFinal`: a row appears under an id that
  was never given out and while its job is there (`FreshKept`, and the foreign key),
  and what an update writes back names the job its row still has (`UpdatesKept`).

`OutputProofs`, of `PythonRunner`:

- `ProcessesEnd`, `SuccessesAreReal`: the runner leaves only with the process ended
  or ends it itself, and there is no process before it is spawned (`CodeKept`). A
  verdict is given once both reading tasks are done, and a task that is done reads no
  more, so nothing the verdict rests on changes afterwards (`VerdictKept`).
- `TypeCorrect`: with the bounds of the pipes and of the channel.
- `OutputsAreComplete`: what a pipe was written is what was read of it followed by what is
  still inside, unless reading has stopped at a line that is not UTF-8
  (`NothingLost`); and the k-th line of a pipe that passes the channel is the k-th that
  was read (`ChannelKept`). At the end pipes and channel are empty (`Settled`).

and of `ExecutionStream`:

- `LogsAreSentInOrder`: pages go by offset, so an entry that is stored before one
  already sent would be skipped and another one sent twice. As long as no two attempts
  have been under way at once (`OneRuns`) the entry an attempt is about to insert is
  newer than every row (`NewestInHand`), also where INSERTs before it were lost: it
  becomes the last row (`RowIsAdded`), and what was a prefix of the rows stays one.
- `LogTypeCorrect`: from the same invariant.

`JobCatalogProofs`

- `VenvsExist`, `TakenOnce`: one invariant. The name that a request is going to write
  is free but for its own row, or contested (`ClaimsFit`), and what two requests are
  about to write is contested (`ClaimsDiffer`); a venv about to be recorded has been
  made. Each look at the catalog leads to such a request (`ReadingFits`), and a row
  that is put keeps the others so (`RowIsPut`).
- `DeletedForGood`: an insertion takes an unused row, a write one that is there.

`PackagesProofs`

- `TypeCorrect`, `PipsTakeTurns`: the data of a request in each place (`Frames`), and
  the lock with the one request whose pip is waited for or asked about (`LockKept`).
- `RowsTellTheDisk`, `VersionsHaveOneRow`: while calm only one request is busy
  (`CalmKept`). Under each name that is told, what is on disk is in a row or the request
  is about to write one (`Tracked`, `Due`), and a row is of something on disk or the
  request is about to delete it (`Removed`, `Leaving`); a pip that does what no request
  hears of leaves both true, as the names of what it changes are told no more
  (`LeavesTold`, `LeavesFits`). `Reached` says what it found when it looked the row up, so that it
  writes over the one row of a version and inserts where there is none.

Every safety property that a passing run checks is proved, every action property and
both refinements as well. Only model-checked: the liveness properties, for the prover has
no fairness and no ENABLED (`EveryExecutionEnds`, `Terminates`, `RunCloses`,
`DueSchedulesRun`, `StreamsEnd`, `RunEnds`, `TimeoutEnds`, `RequestsEnd`), and the
violations above, which are traces of small instances.

## What is not modelled

- HTTP routing, validation of forms, formatting, the web UI, configuration, start-up's
  wiring, audit records and other read-only or append-only parts: no state that others
  act on.
- Edits and deletions of a DAG and restarts of the server during a run: the code has no
  rule for them, a run interrupted by a crash stays as it is. Deleting an execution also
  clears its name in its node, by which nothing is looked up any more; the model keeps it.
- Time zones and the syntax of cron expressions; the age test of the retention and its
  deletion of old logs.
- The choice of the interpreter, script files, ulimit and the Windows branch of the
  runner; the search for a Python of a given version and the clean-up functions of the
  venv manager that nobody calls.
- The dependency rows of jobs, which an installation reads as a set, and the PyPI search.

What could follow: the pool with the stream, so that the attempts of
`ExecutionStream` are the runs of `WorkerPool`; a DAG run that survives a restart, once
the code has a rule for it; and what `WithdrawnNeverRuns` could promise of an
execution that was cancelled while a worker held it.
