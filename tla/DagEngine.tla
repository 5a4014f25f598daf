----------------------------- MODULE DagEngine -----------------------------
(***************************************************************************)
(* One run of one DAG (dag/engine.rs, db/dags.rs): the request that        *)
(* triggers it, a request that cancels it, and the workers that report the *)
(* end of its executions.  They share the row of the run and the rows of   *)
(* its nodes, each written back whole from a copy read some awaits before. *)
(* Every await may be a thread's last.                                     *)
(***************************************************************************)
EXTENDS Integers, FiniteSets, DagGraph

CONSTANTS
    Executions, NoExecution,
    Graphs,              \* the edges the run may be triggered with
    MaxConcurrentNodes,  \* dag.max_concurrent_nodes
    OnFailure,           \* dag.on_failure
    MaxRetries,          \* bound: how often the queue runs an execution again
    Faults               \* may queries fail, clients hang up and reports be lost?

ASSUME EngineAssumption ==
    /\ IsFiniteSet(Jobs)
    /\ NoExecution \notin Executions \cup Jobs /\ {"trigger", "cancel"} \cap Executions = {}
    /\ MaxConcurrentNodes \in Nat \ {0}
    /\ MaxRetries \in Nat /\ Faults \in BOOLEAN
    /\ \A g \in Graphs : Nodes(g) \subseteq Jobs /\ ~Cyclic(g)

VARIABLES
    edges,       \* of the DAG: nobody edits it during the run
    nodes,       \* dag_node_executions, by job
    created,     \* the order of their created_at
    run,         \* the row of dag_runs
    executions,  \* the executions started for nodes
    frame        \* each thread: where it is, and the rows it has read

vars == <<edges, nodes, created, run, executions, frame>>

Threads == {"trigger", "cancel"} \cup Executions

NodeStatus == {"absent", "waiting", "ready", "running",
               "success", "failed", "skipped", "cancelled"}
Active == {"waiting", "ready", "running"}
Terminal == {"success", "failed", "skipped", "cancelled"}
NewNode(status) == [status |-> status, execution |-> NoExecution]
NewRun(status) == [status |-> status, completed |-> 0, failed |-> 0]

NodesIn(ns, S) == {n \in Jobs : ns[n].status \in S}

(* "created" is a row not yet in the queue, "abandoned" one whose node could not
   be marked running, "stranded" one that could not be enqueued: neither of them
   ever runs.  "ended" is one that a worker is through with. *)
NewExecution == [state |-> "absent", job |-> NoExecution, outcome |-> "none", retries |-> 0]

Blank(label) == [at |-> label, nodes |-> [n \in Jobs |-> NewNode("absent")],
                 todo |-> {}, run |-> NewRun("absent"), execution |-> NoExecution]

Init ==
    /\ edges \in Graphs
    /\ nodes = [n \in Jobs |-> NewNode("absent")]
    /\ created = [n \in Jobs |-> 0]
    /\ run = NewRun("absent")
    /\ executions = [x \in Executions |-> NewExecution]
    /\ frame = [t \in Threads |-> Blank("start")]

At(t, label) == frame[t].at = label
Goto(t, label) == frame' = [frame EXCEPT ![t] = Blank(label)]  \* its copies are dropped
Return(t) == Goto(t, "done")
Over(t) == At(t, "done") \/ At(t, "cut") \/ At(t, "unreported")

(* get_node_executions_by_run_id; the loop that follows visits S in the order
   of created_at *)
ReadNodes(t, label, S) ==
    frame' = [frame EXCEPT ![t] = [@ EXCEPT !.at = label, !.nodes = nodes, !.todo = S]]
Head(t) == CHOOSE n \in frame[t].todo : \A m \in frame[t].todo : created[n] <= created[m]
Left(t) == frame[t].todo \ {Head(t)}

(* update_node_execution: the whole row, from the copy *)
WriteNode(t, n, status) ==
    nodes' = [nodes EXCEPT ![n] = [frame[t].nodes[n] EXCEPT !.status = status]]

(* one turn of a loop that sets every node of todo to status *)
SetNext(t, label, status) ==
    /\ At(t, label)
    /\ frame[t].todo # {}
    /\ WriteNode(t, Head(t), status)
    /\ frame' = [frame EXCEPT ![t].todo = Left(t)]
    /\ UNCHANGED <<edges, created, run, executions>>

-----------------------------------------------------------------------------
(* trigger_dag *)

Roots == {n \in Nodes(edges) : Upstreams(edges, n) = {}}

CreateRun ==
    /\ At("trigger", "start")
    /\ edges # {}
    /\ run' = NewRun("running")
    /\ Goto("trigger", "creating")
    /\ UNCHANGED <<edges, nodes, created, executions>>

CreateNode(n) ==
    /\ At("trigger", "creating")
    /\ n \in Nodes(edges) /\ nodes[n].status = "absent"
    /\ nodes' = [nodes EXCEPT ![n] = NewNode("waiting")]
    /\ created' = [created EXCEPT ![n] = Cardinality({m \in Jobs : created[m] # 0}) + 1]
    /\ UNCHANGED <<edges, run, executions, frame>>

ReadRoots ==
    /\ At("trigger", "creating")
    /\ \A n \in Nodes(edges) : nodes[n].status # "absent"
    /\ ReadNodes("trigger", "marking", Roots)
    /\ UNCHANGED <<edges, nodes, created, run, executions>>

MarkReady == SetNext("trigger", "marking", "ready")

MarkedReady ==
    /\ At("trigger", "marking")
    /\ frame["trigger"].todo = {}
    /\ Goto("trigger", "advance")
    /\ UNCHANGED <<edges, nodes, created, run, executions>>

-----------------------------------------------------------------------------
(* advance_dag_run, for the trigger or a completion t *)

Satisfied(edge, status) ==
    \/ edge.condition = "success" /\ status = "success"
    \/ edge.condition = "failure" /\ status = "failed"
    \/ edge.condition = "skipped" /\ status = "skipped"
    \/ edge.condition = "always" /\ status \in Terminal

(* Mutant: one edge that is satisfied is enough. *)
IsNodeReadyAny(ns, n) ==
    \E e \in edges : e.downstream = n /\ Satisfied(e, ns[e.upstream].status)

IsNodeReady(ns, n) ==
    \A e \in edges : e.downstream = n => Satisfied(e, ns[e.upstream].status)

Slots(ns) == MaxConcurrentNodes - Cardinality(NodesIn(ns, {"running"}))

(* Mutant: nodes that were marked ready are started, too. *)
StartableReady(ns) ==
    LET ready == {n \in NodesIn(ns, {"waiting", "ready"}) : IsNodeReady(ns, n)} IN
    {n \in ready : Cardinality({m \in ready : created[m] < created[n]}) < Slots(ns)}

(* Mutant: nodes that succeeded are started again. *)
StartableAgain(ns) ==
    LET ready == {n \in NodesIn(ns, {"waiting", "success"}) : IsNodeReady(ns, n)} IN
    {n \in ready : Cardinality({m \in ready : created[m] < created[n]}) < Slots(ns)}

(* the first Slots of the waiting nodes that are ready *)
Startable(ns) ==
    LET ready == {n \in NodesIn(ns, {"waiting"}) : IsNodeReady(ns, n)} IN
    {n \in ready : Cardinality({m \in ready : created[m] < created[n]}) < Slots(ns)}

AdvanceRead(t) ==
    /\ At(t, "advance")
    /\ ReadNodes(t, "starting", Startable(nodes))
    /\ UNCHANGED <<edges, nodes, created, run, executions>>

Unused == {x \in Executions : executions[x].state = "absent"}

CreateExecution(t) ==
    /\ At(t, "starting")
    /\ frame[t].todo # {}
    /\ Unused # {}
    /\ LET x == CHOOSE x \in Unused : TRUE IN
        /\ executions' = [executions EXCEPT ![x] = [@ EXCEPT !.state = "created", !.job = Head(t)]]
        /\ frame' = [frame EXCEPT ![t] = [@ EXCEPT !.at = "created", !.execution = x]]
    /\ UNCHANGED <<edges, nodes, created, run>>

(* The job is gone or disabled, or the INSERT fails. *)
StartFails(t) == Faults /\ SetNext(t, "starting", "failed")

(* Mutant: the node does not record its execution. *)
MarkRunningUnnamed(t) ==
    /\ At(t, "created")
    /\ LET x == frame[t].execution IN
        nodes' = [nodes EXCEPT ![executions[x].job] = NewNode("running")]
    /\ frame' = [frame EXCEPT ![t].at = "enqueue"]
    /\ UNCHANGED <<edges, created, run, executions>>

MarkRunning(t) ==
    /\ At(t, "created")
    /\ LET x == frame[t].execution IN
        nodes' = [nodes EXCEPT ![executions[x].job] = [status |-> "running", execution |-> x]]
    /\ frame' = [frame EXCEPT ![t].at = "enqueue"]
    /\ UNCHANGED <<edges, created, run, executions>>

(* A failure is logged, and the node stays as it is. *)
EnqueueNode(t) ==
    /\ At(t, "enqueue")
    /\ \/ executions' = [executions EXCEPT ![frame[t].execution].state = "queued"]
       \/ Faults /\ executions' = [executions EXCEPT ![frame[t].execution].state = "stranded"]
    /\ frame' = [frame EXCEPT ![t] =
           [@ EXCEPT !.at = "starting", !.todo = Left(t), !.execution = NoExecution]]
    /\ UNCHANGED <<edges, nodes, created, run>>

Advanced(t) ==
    /\ At(t, "starting")
    /\ frame[t].todo = {}
    /\ IF t = "trigger" THEN Return(t) ELSE Goto(t, "check")
    /\ UNCHANGED <<edges, nodes, created, run, executions>>

-----------------------------------------------------------------------------
(* A worker runs the execution and reports its end; after a failure the queue
   may run it again. *)

ExecutionEnds(x, outcome) ==
    /\ executions[x].state = "queued"
    /\ At(x, "start") \/ Over(x)
    /\ executions' = [executions EXCEPT ![x] = [@ EXCEPT !.state = "ended", !.outcome = outcome]]
    /\ Goto(x, "find")
    /\ UNCHANGED <<edges, nodes, created, run>>

(* ... or nobody reports it: it is cancelled while it is pending and no worker
   ever has it, or set_execution_running fails and the worker takes the next
   item, or it is deleted.  (The deletion also clears execution_id in its node,
   by which nothing is looked up any more: the name is left here.) *)
EndsUnreported(x, outcome) ==
    /\ Faults
    /\ executions[x].state = "queued"
    /\ At(x, "start") \/ Over(x)
    /\ executions' = [executions EXCEPT ![x] = [@ EXCEPT !.state = "ended", !.outcome = outcome]]
    /\ Goto(x, "unreported")
    /\ UNCHANGED <<edges, nodes, created, run>>

QueueRetries(x) ==
    /\ executions[x].state = "ended" /\ executions[x].outcome = "failed"
    /\ Over(x)
    /\ executions[x].retries < MaxRetries
    /\ executions' = [executions EXCEPT ![x] =
           [@ EXCEPT !.state = "queued", !.retries = executions[x].retries + 1]]
    /\ UNCHANGED <<edges, nodes, created, run, frame>>

-----------------------------------------------------------------------------
(* on_execution_complete(x) *)

NodesOf(x) == {n \in Jobs : nodes[n].execution = x}

(* The node is looked up by its execution; without one there is no more to do. *)
FindNode(x) ==
    /\ At(x, "find")
    /\ IF NodesOf(x) = {} THEN Return(x) ELSE ReadNodes(x, "settle", NodesOf(x))
    /\ UNCHANGED <<edges, nodes, created, run, executions>>

Outcome(x) == executions[x].outcome
Bad(x) == Outcome(x) # "success"

SettleNode(x) ==
    /\ At(x, "settle")
    /\ WriteNode(x, Head(x), Outcome(x))
    /\ Goto(x, "count")
    /\ UNCHANGED <<edges, created, run, executions>>

ReadRun(t, from, to, row) ==
    /\ At(t, from)
    /\ frame' = [frame EXCEPT ![t] = [Blank(to) EXCEPT !.run = row]]
    /\ UNCHANGED <<edges, nodes, created, run, executions>>

CountNode(x) ==
    ReadRun(x, "count", "counted",
            [run EXCEPT !.completed = @ + 1, !.failed = IF Bad(x) THEN @ + 1 ELSE @])

(* update_run writes the status it read along with the counters. *)
WriteCounters(x) ==
    /\ At(x, "counted")
    /\ run' = frame[x].run
    /\ Goto(x, IF Bad(x) /\ OnFailure = "stop" THEN "stop" ELSE "advance")
    /\ UNCHANGED <<edges, nodes, created, executions>>

ReadSkipped(x) ==
    /\ At(x, "stop")
    /\ ReadNodes(x, "skipping", NodesIn(nodes, {"waiting", "ready"}))
    /\ UNCHANGED <<edges, nodes, created, run, executions>>

SkipNode(x) == SetNext(x, "skipping", "skipped")

(* ... unless a node was running when they were read *)
Skipped(x) ==
    /\ At(x, "skipping")
    /\ frame[x].todo = {}
    /\ IF NodesIn(frame[x].nodes, {"running"}) = {} THEN Goto(x, "fail") ELSE Return(x)
    /\ UNCHANGED <<edges, nodes, created, run, executions>>

FailRun(x) ==
    ReadRun(x, "fail", "finish",
            [run EXCEPT !.status = "failed",
                        !.completed = Cardinality(NodesIn(nodes, Terminal))])

CheckEnd(x) ==
    /\ At(x, "check")
    /\ IF NodesIn(nodes, Active) = {} THEN ReadNodes(x, "end", {}) ELSE Return(x)
    /\ UNCHANGED <<edges, nodes, created, run, executions>>

FinalStatus(ns) ==
    IF NodesIn(ns, {"failed", "cancelled"}) = {} THEN "success"
    ELSE IF NodesIn(ns, {"skipped"}) # {} THEN "partial" ELSE "failed"

(* Mutant: only the counter is brought up to date. *)
EndRunOpen(x) ==
    ReadRun(x, "end", "finish",
            [run EXCEPT !.completed = Cardinality(NodesIn(nodes, Terminal \cup Active))])

EndRun(x) ==
    ReadRun(x, "end", "finish",
            [run EXCEPT !.status = FinalStatus(frame[x].nodes),
                        !.completed = Cardinality(NodesIn(nodes, Terminal \cup Active))])

WriteRun(x) ==
    /\ At(x, "finish")
    /\ run' = frame[x].run
    /\ Return(x)
    /\ UNCHANGED <<edges, nodes, created, executions>>

-----------------------------------------------------------------------------
(* cancel_dag_run *)

CancelRead ==
    /\ run.status = "running"
    /\ ReadRun("cancel", "start", "nodes", [run EXCEPT !.status = "cancelled"])

CancelReadNodes ==
    /\ At("cancel", "nodes")
    /\ ReadNodes("cancel", "cancelling", NodesIn(nodes, Active))
    /\ UNCHANGED <<edges, nodes, created, run, executions>>

CancelNode == SetNext("cancel", "cancelling", "cancelled")

CancelRun ==
    /\ At("cancel", "cancelling")
    /\ frame["cancel"].todo = {}
    /\ run' = frame["cancel"].run
    /\ Return("cancel")
    /\ UNCHANGED <<edges, nodes, created, executions>>

-----------------------------------------------------------------------------
(* A query fails, and `?` ends the request or the callback, whose error is only
   logged; or the client hangs up, and its request is dropped at the await it is
   in.  What has been written stays, and an execution in the thread's hands
   never reaches the queue. *)

InHand(t) == At(t, "created") \/ At(t, "enqueue")

DropExecution(t) ==
    executions' = [executions EXCEPT ![frame[t].execution].state =
                       IF At(t, "created") THEN "abandoned" ELSE "stranded"]

CutOff(t) ==
    /\ Faults
    /\ ~At(t, "start") /\ ~Over(t)
    /\ IF InHand(t) THEN DropExecution(t) ELSE UNCHANGED executions
    /\ Goto(t, IF At(t, "find") \/ At(t, "settle") THEN "unreported" ELSE "cut")
    /\ UNCHANGED <<edges, nodes, created, run>>

-----------------------------------------------------------------------------
Advance(t) ==
    \/ AdvanceRead(t) \/ CreateExecution(t) \/ StartFails(t)
    \/ MarkRunning(t) \/ EnqueueNode(t) \/ Advanced(t)

Trigger ==
    \/ CreateRun \/ ReadRoots \/ MarkReady \/ MarkedReady
    \/ \E n \in Jobs : CreateNode(n)
    \/ Advance("trigger")

Complete(x) ==
    \/ FindNode(x) \/ SettleNode(x) \/ CountNode(x) \/ WriteCounters(x)
    \/ ReadSkipped(x) \/ SkipNode(x) \/ Skipped(x) \/ FailRun(x)
    \/ CheckEnd(x) \/ EndRun(x) \/ WriteRun(x)
    \/ Advance(x)

Cancelling == CancelReadNodes \/ CancelNode \/ CancelRun

Run(x) ==
    \/ \E outcome \in {"success", "failed", "cancelled"} : ExecutionEnds(x, outcome)
    \/ \E outcome \in {"failed", "cancelled"} : EndsUnreported(x, outcome)

Next ==
    \/ Trigger \/ CancelRead \/ Cancelling
    \/ \E x \in Executions : Complete(x) \/ Run(x) \/ QueueRetries(x)
    \/ \E t \in Threads : CutOff(t)

(* The server schedules every worker, and every request it has accepted until
   that is cut off; an execution ends, reported or not; nobody has to cancel. *)
Spec == Init /\ [][Next]_vars /\ WF_vars(Trigger) /\ WF_vars(Cancelling)
        /\ \A x \in Executions : WF_vars(Complete(x)) /\ WF_vars(Run(x))

-----------------------------------------------------------------------------
Labels == {"start", "creating", "marking", "advance", "starting", "created", "enqueue",
           "find", "settle", "count", "counted", "stop", "skipping", "fail", "check",
           "end", "finish", "nodes", "cancelling", "done", "cut", "unreported"}
Ids == Executions \cup {NoExecution}
Node == [status : NodeStatus, execution : Ids]
RunRow == [status : {"absent", "running", "cancelled", "success", "failed", "partial"},
           completed : Nat, failed : Nat]

ExecutionRow == [state : {"absent", "created", "abandoned", "stranded", "queued", "ended"},
                 job : Jobs \cup {NoExecution}, retries : 0..MaxRetries,
                 outcome : {"none", "success", "failed", "cancelled"}]
Frame == [at : Labels, nodes : [Jobs -> Node], todo : SUBSET Jobs,
          run : RunRow, execution : Ids]

TypeOK ==
    /\ edges \in Graphs
    /\ nodes \in [Jobs -> Node]
    /\ created \in [Jobs -> Nat]
    /\ run \in RunRow
    /\ executions \in [Executions -> ExecutionRow]
    /\ frame \in [Threads -> Frame]

Started == Executions \ Unused
InFlight == {x \in Executions : executions[x].state \in {"created", "queued"}}

(* What the code does today: roots are made "ready" while advance_dag_run only
   starts "waiting" nodes, so nothing of a run ever starts before a
   cancellation sets a root to "cancelled" under the trigger's feet. *)
InertUntilCancelled == At("cancel", "start") => Started = {}

(* Somebody will still write the node of x ... *)
Owed(x) == x \in InFlight \/ At(x, "find") \/ At(x, "settle")

(* ... or nobody will: x never reached the queue, or its end was not reported. *)
Forgotten(x) == executions[x].state = "stranded" \/ At(x, "unreported")

(* Only a failure leaves a node running for ever: it names the execution that
   was started for it, whose end is still to come unless that failed to be
   enqueued or to be reported.  No row written back from an old copy (of a
   cancellation, a skip, another completion) leaves a node running that
   nobody owes an end. *)
OnlyFailuresForget ==
    \A n \in Jobs : nodes[n].status = "running" =>
        \E x \in Started :
            nodes[n].execution = x /\ executions[x].job = n /\ (Owed(x) \/ Forgotten(x))

(* An execution the queue runs again completes its node again, and with it
   advances the run a second time, at once with whatever it started. *)
Repeated == \E x \in Executions : executions[x].retries > 0

(* An advance that fails to mark a node running leaves it waiting, and another
   one starts an execution for it: of the two only the second reaches the
   queue. *)
Kept == {x \in Started : executions[x].state # "abandoned"}

StartedOnce == \A x, y \in Kept : executions[x].job = executions[y].job => x = y

(* No job of the run is given to the queue twice, as long as the queue repeats
   nothing and completions do not meet. *)
StartsOnce == ~Repeated /\ MaxConcurrentNodes = 1 => StartedOnce

(* README: "respects max_concurrent_nodes and on_failure policy".  Two
   completions that meet start nodes from what each of them has read, and
   together pass the limit. *)
LimitIsKept == Cardinality(InFlight) <= MaxConcurrentNodes

(* README: "topological execution": while a node runs, all it depends on is
   over. *)
OrderIsKept ==
    \A e \in edges :
        nodes[e.downstream].status = "running" => nodes[e.upstream].status \in Terminal

(* Nodes run one at a time and in order, however often a cancellation and late
   completions set the run going, under the same conditions as StartsOnce. *)
NodesTakeTurns == ~Repeated /\ MaxConcurrentNodes = 1 => LimitIsKept /\ OrderIsKept

(* A thread that has chosen nodes from the rows it read still has to start
   some; two of them choose without knowing of each other. *)
Starting(t) == At(t, "created") \/ At(t, "enqueue") \/ (At(t, "starting") /\ frame[t].todo # {})
AdvancesMeet == \E t, u \in Threads : t # u /\ Starting(t) /\ Starting(u)

(* README: "executes nodes in topological order" and "respects
   max_concurrent_nodes".  With any number of slots, as long as advances do not
   meet: each job is given to the queue once, only so many nodes are marked
   running, and none of them before its upstreams are over. *)
RunsInOrder ==
    /\ StartedOnce /\ OrderIsKept
    /\ Cardinality(NodesIn(nodes, {"running"})) <= MaxConcurrentNodes

(* A run whose nodes are all over does not stay "running": the last completion
   closes it, however it overlaps with a cancellation, as long as the
   cancellation and the completions that have settled a node go through. *)
RunCloses ==
    []~(\E t \in Threads \ {"trigger"} : At(t, "cut")) =>
        ((Nodes(edges) = NodesIn(nodes, Terminal)) ~> (run.status # "running"))

(* "Advance: start executing ready nodes": a ready node is started, or is
   cancelled, in the end. *)
ReadyNodesRun ==
    \A n \in Jobs : (nodes[n].status = "ready") ~> (nodes[n].status # "ready")
=============================================================================
