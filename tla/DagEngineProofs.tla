-------------------------- MODULE DagEngineProofs --------------------------
(* What holds of every run, for every graph and any number of workers: nothing
   starts before a cancellation, and only failures leave a node running for
   ever; as long as advances do not meet, the nodes run in order, within the
   limit, each of them once; and with one slot advances do not meet. *)
EXTENDS DagEngine, FiniteSetTheorems, WellFoundedInduction, TLAPS

(* The execution a node row names, if any, was started for that node, and its
   node has been marked running. *)
Leaving(x) == \E t \in Threads : At(t, "created") /\ frame[t].execution = x
Named == {x \in Kept : ~Leaving(x)}

Owned(node, n) ==
    \/ node.execution = NoExecution
    \/ node.execution \in Named /\ executions[node.execution].job = n

RowsOwned ==
    \A n \in Jobs : Owned(nodes[n], n) /\ \A t \in Threads : Owned(frame[t].nodes[n], n)

(* Between its creation and its enqueue an execution is in one thread's hands. *)
HandedOver ==
    \A t \in Threads :
        IF At(t, "created") \/ At(t, "enqueue")
        THEN /\ frame[t].execution \in Executions
             /\ executions[frame[t].execution].state = "created"
        ELSE frame[t].execution = NoExecution

OneHand ==
    \A t, u \in Threads : frame[t].execution = frame[u].execution => t = u \/ frame[t].execution = NoExecution

(* A completion settles exactly the node of its execution. *)
Settling ==
    \A x \in Executions :
        /\ At(x, "find") \/ At(x, "settle") =>
               executions[x].state = "ended" /\ executions[x].outcome # "none"
        /\ At(x, "settle") => frame[x].todo = {executions[x].job}

(* Before a cancellation the only thread is the trigger, and when it advances
   the run every root is already "ready". *)
OnlyTrigger ==
    At("cancel", "start") =>
        /\ Started = {}
        /\ \A x \in Executions : At(x, "start")
        /\ \A n \in Jobs : /\ nodes[n].status \in {"absent", "waiting", "ready"}
                           /\ nodes[n].status # "absent" => n \in Nodes(edges)
        /\ frame["trigger"].at \in {"start", "creating", "marking", "advance", "starting", "done", "cut"}
        /\ \A n \in Roots :
            /\ At("trigger", "marking") => n \in frame["trigger"].todo \/ nodes[n].status = "ready"
            /\ At("trigger", "advance") => nodes[n].status = "ready"
        /\ At("trigger", "marking") => frame["trigger"].todo \subseteq Nodes(edges)
        /\ At("trigger", "starting") => frame["trigger"].todo = {}

Ties == RowsOwned /\ HandedOver /\ OneHand /\ Settling /\ OnlyFailuresForget
IInv == TypeOK /\ Ties /\ OnlyTrigger

-----------------------------------------------------------------------------
(* The loops visit a node of their list: one with the least created_at. *)
LEMMA HeadInTodo ==
    ASSUME TypeOK, NEW t \in Threads, frame[t].todo # {}
    PROVE  Head(t) \in frame[t].todo
<1> DEFINE S == frame[t].todo
           V == {created[n] : n \in S}
<1>1. S \subseteq Jobs /\ V \subseteq Nat /\ V # {}
  BY DEF TypeOK, Frame
<1>2. PICK v \in V : \A w \in V : ~(<<w, v>> \in OpToRel(<, Nat))
  BY <1>1, WFMin, NatLessThanWellFounded
<1>3. PICK n \in S : created[n] = v
  BY <1>2
<1>4. \A m \in S : created[n] <= created[m]
  <2> TAKE m \in S
  <2>1. created[m] \in Nat /\ v \in Nat /\ created[m] \in V
    BY <1>1
  <2>2. ~(created[m] < v)
    BY <1>2, <2>1 DEF OpToRel
  <2>. QED BY <1>3, <2>1, <2>2
<1>. QED BY <1>3, <1>4 DEF Head

LEMMA GraphFacts ==
    ASSUME TypeOK
    PROVE  Nodes(edges) \subseteq Jobs /\ Roots \subseteq Jobs
           /\ \A e \in edges : e.upstream \in Jobs /\ e.downstream \in Jobs
BY EngineAssumption DEF TypeOK, Nodes, Roots

LEMMA CardinalityOfJobs ==
    ASSUME NEW S \in SUBSET Jobs PROVE Cardinality(S) \in Nat
BY EngineAssumption, FS_Subset, FS_CardinalityType

THEOREM InitIInv == Init => IInv
<1> SUFFICES ASSUME Init PROVE IInv
  OBVIOUS
<1> USE EngineAssumption DEF Init, Blank, NewNode, NewRun, NewExecution
<1>1. TypeOK
  BY DEF TypeOK, Node, Ids, NodeStatus, RunRow, Labels, ExecutionRow, Frame
<1>2. RowsOwned
  BY DEF RowsOwned, Owned
<1>3. HandedOver /\ OneHand /\ Settling /\ OnlyFailuresForget
  BY DEF HandedOver, OneHand, Settling, OnlyFailuresForget, At, Threads
<1>4. OnlyTrigger
  BY DEF OnlyTrigger, Started, Unused, At, Threads
<1>. QED BY <1>1, <1>2, <1>3, <1>4 DEF IInv, Ties

-----------------------------------------------------------------------------
LEMMA BlankTyped ==
    ASSUME NEW label \in Labels PROVE Blank(label) \in Frame
BY DEF Blank, NewNode, NewRun, Node, NodeStatus, RunRow, Ids, Frame

LEMMA GotoTyped ==
    ASSUME TypeOK, NEW t \in Threads, NEW label \in Labels, Goto(t, label)
    PROVE  frame' \in [Threads -> Frame]
BY BlankTyped DEF Goto, TypeOK

(* The ways a frame or an execution changes, each within its type. *)
LEMMA FrameTyped ==
    ASSUME NEW f \in Frame, NEW label \in Labels, NEW S \in SUBSET Jobs
    PROVE  /\ [f EXCEPT !.at = label] \in Frame
           /\ [f EXCEPT !.todo = S] \in Frame
           /\ \A ns \in [Jobs -> Node] :
                [f EXCEPT !.at = label, !.nodes = ns, !.todo = S] \in Frame
           /\ \A x \in Ids : [f EXCEPT !.at = label, !.execution = x] \in Frame
           /\ \A x \in Ids : [f EXCEPT !.at = label, !.todo = S, !.execution = x] \in Frame
           /\ \A r \in RunRow : [f EXCEPT !.run = r] \in Frame
BY DEF Frame

LEMMA ExecutionRowTyped ==
    ASSUME NEW e \in ExecutionRow
    PROVE  /\ \A n \in Jobs : [e EXCEPT !.state = "created", !.job = n] \in ExecutionRow
           /\ [e EXCEPT !.state = "queued"] \in ExecutionRow
           /\ [e EXCEPT !.state = "stranded"] \in ExecutionRow
           /\ [e EXCEPT !.state = "abandoned"] \in ExecutionRow
           /\ \A o \in {"success", "failed", "cancelled"} :
                [e EXCEPT !.state = "ended", !.outcome = o] \in ExecutionRow
           /\ e.retries < MaxRetries =>
                [e EXCEPT !.state = "queued", !.retries = e.retries + 1] \in ExecutionRow
<1>1. e.retries \in 0..MaxRetries /\ MaxRetries \in Nat
  BY EngineAssumption DEF ExecutionRow
<1>2. e.retries < MaxRetries => e.retries + 1 \in 0..MaxRetries
  BY <1>1
<1>. QED BY <1>2 DEF ExecutionRow

LEMMA ReadNodesTyped ==
    ASSUME TypeOK, NEW t \in Threads, NEW label \in Labels, NEW S \in SUBSET Jobs,
           ReadNodes(t, label, S)
    PROVE  frame' \in [Threads -> Frame]
<1>1. frame[t] \in Frame /\ nodes \in [Jobs -> Node]
  BY DEF TypeOK
<1>2. [frame[t] EXCEPT !.at = label, !.nodes = nodes, !.todo = S] \in Frame
  BY <1>1, FrameTyped
<1>. QED BY <1>2 DEF ReadNodes, TypeOK

LEMMA ReadRunTyped ==
    ASSUME TypeOK, NEW t \in Threads, NEW from, NEW to \in Labels, NEW row \in RunRow,
           ReadRun(t, from, to, row)
    PROVE  TypeOK'
<1>1. Blank(to) \in Frame
  BY BlankTyped
<1>2. [Blank(to) EXCEPT !.run = row] \in Frame
  BY <1>1 DEF Frame
<1>. QED BY <1>2 DEF ReadRun, TypeOK

LEMMA SetNextTyped ==
    ASSUME TypeOK, NEW t \in Threads, NEW label, NEW status \in NodeStatus,
           SetNext(t, label, status)
    PROVE  TypeOK'
<1>a. frame[t] \in Frame
  BY DEF TypeOK
<1>1. Head(t) \in Jobs
  BY <1>a, HeadInTodo DEF SetNext, Frame
<1>2. [frame[t].nodes[Head(t)] EXCEPT !.status = status] \in Node
  <2>1. frame[t].nodes[Head(t)] \in Node
    BY <1>a, <1>1 DEF Frame
  <2>. QED BY <2>1 DEF Node
<1>3. Left(t) \in SUBSET Jobs
  BY <1>a DEF Left, Frame
<1>4. [frame[t] EXCEPT !.todo = Left(t)] \in Frame
  BY <1>a, <1>3 DEF Frame
<1>. QED BY <1>2, <1>4 DEF SetNext, WriteNode, TypeOK

LEMMA AdvanceTyped ==
    ASSUME TypeOK, HandedOver, NEW t \in Threads, Advance(t) PROVE TypeOK'
<1>a. frame[t] \in Frame
  BY DEF TypeOK
<1>1. CASE AdvanceRead(t)
  <2>1. Startable(nodes) \in SUBSET Jobs /\ "starting" \in Labels
    BY DEF Startable, NodesIn, Labels
  <2>2. ReadNodes(t, "starting", Startable(nodes))
    BY <1>1 DEF AdvanceRead
  <2>. QED BY <1>1, <2>1, <2>2, ReadNodesTyped DEF AdvanceRead, TypeOK
<1>2. CASE CreateExecution(t)
  <2>1. PICK x \in Executions :
          /\ executions' = [executions EXCEPT ![x] =
                               [@ EXCEPT !.state = "created", !.job = Head(t)]]
          /\ frame' = [frame EXCEPT ![t] = [@ EXCEPT !.at = "created", !.execution = x]]
    BY <1>2 DEF CreateExecution, Unused
  <2>2. Head(t) \in Jobs
    BY <1>a, <1>2, HeadInTodo DEF CreateExecution, Frame
  <2>3. [executions[x] EXCEPT !.state = "created", !.job = Head(t)] \in ExecutionRow
    BY <2>2, ExecutionRowTyped DEF TypeOK
  <2>4. [frame[t] EXCEPT !.at = "created", !.execution = x] \in Frame
    BY <1>a, FrameTyped DEF Labels, Ids
  <2>5. executions' \in [Executions -> ExecutionRow] /\ frame' \in [Threads -> Frame]
    BY <2>1, <2>3, <2>4 DEF TypeOK
  <2>. QED BY <1>2, <2>5 DEF CreateExecution, TypeOK
<1>3. CASE StartFails(t)
  BY <1>3, SetNextTyped DEF StartFails, NodeStatus
<1>4. CASE MarkRunning(t)
  <2>1. frame[t].execution \in Executions
    BY <1>4 DEF HandedOver, MarkRunning
  <2>2. [status |-> "running", execution |-> frame[t].execution] \in Node
    BY <2>1 DEF Node, NodeStatus, Ids
  <2>3. [frame[t] EXCEPT !.at = "enqueue"] \in Frame
    BY <1>a DEF Frame, Labels
  <2>. QED BY <1>4, <2>2, <2>3 DEF MarkRunning, TypeOK
<1>5. CASE EnqueueNode(t)
  <2>1. frame[t].execution \in Executions
    BY <1>5 DEF HandedOver, EnqueueNode
  <2>2. [frame[t] EXCEPT !.at = "starting", !.todo = Left(t), !.execution = NoExecution] \in Frame
    BY <1>a DEF Frame, Labels, Left, Ids
  <2>3. [executions[frame[t].execution] EXCEPT !.state = "queued"] \in ExecutionRow
        /\ [executions[frame[t].execution] EXCEPT !.state = "stranded"] \in ExecutionRow
    BY <2>1, ExecutionRowTyped DEF TypeOK
  <2>. QED BY <1>5, <2>1, <2>2, <2>3 DEF EnqueueNode, TypeOK
<1>6. CASE Advanced(t)
  <2>1. Goto(t, IF t = "trigger" THEN "done" ELSE "check")
    BY <1>6 DEF Advanced, Return
  <2>. QED BY <1>6, <2>1, GotoTyped DEF Advanced, TypeOK, Labels
<1>. QED BY <1>1, <1>2, <1>3, <1>4, <1>5, <1>6 DEF Advance

LEMMA TriggerTyped ==
    ASSUME TypeOK, HandedOver, Trigger PROVE TypeOK'
<1> USE DEF Threads
<1>1. CASE CreateRun
  BY <1>1, GotoTyped DEF CreateRun, TypeOK, Labels, NewRun, RunRow
<1>2. CASE ReadRoots
  BY <1>2, ReadNodesTyped, GraphFacts DEF ReadRoots, TypeOK, Labels
<1>3. CASE MarkReady
  BY <1>3, SetNextTyped DEF MarkReady, NodeStatus
<1>4. CASE MarkedReady
  BY <1>4, GotoTyped DEF MarkedReady, TypeOK, Labels
<1>5. ASSUME NEW n \in Jobs, CreateNode(n) PROVE TypeOK'
  <2>1. Cardinality({m \in Jobs : created[m] # 0}) \in Nat
    BY CardinalityOfJobs
  <2>2. NewNode("waiting") \in Node
    BY DEF NewNode, Node, NodeStatus, Ids
  <2>. QED BY <1>5, <2>1, <2>2 DEF CreateNode, TypeOK
<1>6. CASE Advance("trigger")
  BY <1>6, AdvanceTyped
<1>. QED BY <1>1, <1>2, <1>3, <1>4, <1>5, <1>6 DEF Trigger

LEMMA CompleteTyped ==
    ASSUME TypeOK, HandedOver, Settling, NEW x \in Executions, Complete(x) PROVE TypeOK'
<1> USE DEF Threads
<1>a. \A S : Cardinality(NodesIn(nodes, S)) \in Nat
  BY CardinalityOfJobs DEF NodesIn
<1>1. CASE FindNode(x)
  <2>1. NodesOf(x) \in SUBSET Jobs
    BY DEF NodesOf
  <2>. QED BY <1>1, <2>1, GotoTyped, ReadNodesTyped DEF FindNode, Return, TypeOK, Labels
<1>2. CASE SettleNode(x)
  <2>1. frame[x].todo # {} /\ executions[x].outcome # "none"
    BY <1>2 DEF Settling, SettleNode, At
  <2>a. frame[x] \in Frame /\ executions[x] \in ExecutionRow
    BY DEF TypeOK
  <2>2. Head(x) \in Jobs
    BY <2>a, <2>1, HeadInTodo DEF Frame
  <2>3. Outcome(x) \in NodeStatus
    BY <2>a, <2>1 DEF Outcome, ExecutionRow, NodeStatus
  <2>4. [frame[x].nodes[Head(x)] EXCEPT !.status = Outcome(x)] \in Node
    <3>1. frame[x].nodes[Head(x)] \in Node
      BY <2>a, <2>2 DEF Frame
    <3>. QED BY <2>3, <3>1 DEF Node
  <2>5. frame' \in [Threads -> Frame]
    BY <1>2, GotoTyped DEF SettleNode, Labels
  <2>6. nodes' \in [Jobs -> Node]
    BY <1>2, <2>2, <2>4 DEF SettleNode, WriteNode, TypeOK
  <2>. QED BY <1>2, <2>5, <2>6 DEF SettleNode, TypeOK
<1>3. CASE CountNode(x)
  <2>1. [run EXCEPT !.completed = @ + 1, !.failed = IF Bad(x) THEN @ + 1 ELSE @] \in RunRow
    <3>1. run \in RunRow /\ run.completed + 1 \in Nat /\ run.failed + 1 \in Nat
      BY DEF TypeOK, RunRow
    <3>2. CASE Bad(x)
      BY <3>1, <3>2 DEF RunRow
    <3>3. CASE ~Bad(x)
      BY <3>1, <3>3 DEF RunRow
    <3>. QED BY <3>2, <3>3
  <2>. QED BY <1>3, <2>1, ReadRunTyped DEF CountNode, Labels
<1>4. CASE WriteCounters(x)
  <2>1. frame[x].run \in RunRow
    BY DEF TypeOK, Frame
  <2>2. (IF Bad(x) /\ OnFailure = "stop" THEN "stop" ELSE "advance") \in Labels
    BY DEF Labels
  <2>. QED BY <1>4, <2>1, <2>2, GotoTyped DEF WriteCounters, TypeOK
<1>5. CASE ReadSkipped(x)
  <2>1. NodesIn(nodes, {"waiting", "ready"}) \in SUBSET Jobs /\ "skipping" \in Labels
    BY DEF NodesIn, Labels
  <2>2. ReadNodes(x, "skipping", NodesIn(nodes, {"waiting", "ready"}))
    BY <1>5 DEF ReadSkipped
  <2>. QED BY <1>5, <2>1, <2>2, ReadNodesTyped DEF ReadSkipped, TypeOK
<1>6. CASE SkipNode(x)
  BY <1>6, SetNextTyped DEF SkipNode, NodeStatus
<1>7. CASE Skipped(x)
  BY <1>7, GotoTyped DEF Skipped, Return, TypeOK, Labels
<1>8. CASE FailRun(x)
  <2>1. [run EXCEPT !.status = "failed",
                    !.completed = Cardinality(NodesIn(nodes, Terminal))] \in RunRow
    BY <1>a DEF TypeOK, RunRow
  <2>. QED BY <1>8, <2>1, ReadRunTyped DEF FailRun, Labels
<1>9. CASE CheckEnd(x)
  BY <1>9, GotoTyped, ReadNodesTyped DEF CheckEnd, Return, TypeOK, Labels
<1>10. CASE EndRun(x)
  <2>1. [run EXCEPT !.status = FinalStatus(frame[x].nodes),
                    !.completed = Cardinality(NodesIn(nodes, Terminal \cup Active))] \in RunRow
    BY <1>a DEF TypeOK, RunRow, FinalStatus
  <2>. QED BY <1>10, <2>1, ReadRunTyped DEF EndRun, Labels
<1>11. CASE WriteRun(x)
  <2>1. frame[x].run \in RunRow
    BY DEF TypeOK, Frame
  <2>. QED BY <1>11, <2>1, GotoTyped DEF WriteRun, Return, TypeOK, Labels
<1>12. CASE Advance(x)
  BY <1>12, AdvanceTyped
<1>. QED BY <1>1, <1>2, <1>3, <1>4, <1>5, <1>6, <1>7, <1>8, <1>9, <1>10, <1>11, <1>12 DEF Complete

LEMMA CancelTyped ==
    ASSUME TypeOK, CancelRead \/ Cancelling PROVE TypeOK'
<1> USE DEF Threads
<1>1. CASE CancelRead
  <2>1. [run EXCEPT !.status = "cancelled"] \in RunRow
    BY DEF TypeOK, RunRow
  <2>. QED BY <1>1, <2>1, ReadRunTyped DEF CancelRead, Labels
<1>2. CASE CancelReadNodes
  BY <1>2, ReadNodesTyped DEF CancelReadNodes, NodesIn, TypeOK, Labels
<1>3. CASE CancelNode
  BY <1>3, SetNextTyped DEF CancelNode, NodeStatus
<1>4. CASE CancelRun
  <2>1. frame["cancel"].run \in RunRow
    BY DEF TypeOK, Frame
  <2>. QED BY <1>4, <2>1, GotoTyped DEF CancelRun, Return, TypeOK, Labels
<1>. QED BY <1>1, <1>2, <1>3, <1>4 DEF Cancelling

LEMMA ExecutionTyped ==
    ASSUME TypeOK, NEW x \in Executions, Run(x) \/ QueueRetries(x) PROVE TypeOK'
<1>1. CASE Run(x)
  <2>1. PICK o \in {"success", "failed", "cancelled"} : ExecutionEnds(x, o) \/ EndsUnreported(x, o)
    BY <1>1 DEF Run
  <2>2. [executions[x] EXCEPT !.state = "ended", !.outcome = o] \in ExecutionRow
    BY ExecutionRowTyped DEF TypeOK
  <2>3. frame' \in [Threads -> Frame]
    BY <2>1, GotoTyped DEF ExecutionEnds, EndsUnreported, Threads, Labels
  <2>. QED BY <2>1, <2>2, <2>3 DEF ExecutionEnds, EndsUnreported, TypeOK
<1>2. CASE QueueRetries(x)
  <2>1. [executions[x] EXCEPT !.state = "queued", !.retries = executions[x].retries + 1] \in ExecutionRow
    BY <1>2, ExecutionRowTyped DEF QueueRetries, TypeOK
  <2>. QED BY <1>2, <2>1 DEF QueueRetries, TypeOK
<1>. QED BY <1>1, <1>2

LEMMA CutOffTyped ==
    ASSUME TypeOK, HandedOver, NEW t \in Threads, CutOff(t) PROVE TypeOK'
<1>1. frame' \in [Threads -> Frame]
  BY GotoTyped DEF CutOff, Labels
<1>2. CASE InHand(t)
  <2>1. frame[t].execution \in Executions
    BY <1>2 DEF HandedOver, InHand
  <2>2. /\ [executions[frame[t].execution] EXCEPT !.state = "abandoned"] \in ExecutionRow
        /\ [executions[frame[t].execution] EXCEPT !.state = "stranded"] \in ExecutionRow
    BY <2>1, ExecutionRowTyped DEF TypeOK
  <2>. QED BY <1>1, <1>2, <2>1, <2>2 DEF CutOff, DropExecution, TypeOK
<1>3. CASE ~InHand(t)
  BY <1>1, <1>3 DEF CutOff, TypeOK
<1>. QED BY <1>2, <1>3

-----------------------------------------------------------------------------
Held == {"created", "enqueue", "find", "settle", "unreported"}

(* A step in which no execution is created, given up or given its node. *)
LEMMA NamesStay ==
    ASSUME TypeOK, NEW t \in Threads, NEW f, frame' = [frame EXCEPT ![t] = f],
           frame[t].at # "created", f.at # "created", Kept' = Kept
    PROVE  Named' = Named
<1>1. frame'[t] = f /\ \A u \in Threads \ {t} : frame'[u] = frame[u]
  BY DEF TypeOK
<1>2. \A x : Leaving(x)' <=> Leaving(x)
  BY <1>1 DEF Leaving, At
<1>. QED BY <1>2 DEF Named

(* A step of one thread that changes no row of a node or an execution. *)
LEMMA MoveKeepsTies ==
    ASSUME TypeOK, Ties, NEW t \in Threads, NEW f,
           frame[t].at \notin Held, f.at \notin Held, f.execution = NoExecution,
           \A n \in Jobs : Owned(f.nodes[n], n),
           frame' = [frame EXCEPT ![t] = f], UNCHANGED <<nodes, executions>>
    PROVE  Ties'
<1> USE DEF Held
<1>1. /\ frame'[t] = f
      /\ \A u \in Threads \ {t} : frame'[u] = frame[u]
      /\ Started' = Started
  BY DEF TypeOK, Started, Unused
<1>n. Named' = Named
  <2>1. Kept' = Kept
    BY <1>1 DEF Kept
  <2>. QED BY <2>1, NamesStay
<1>2. RowsOwned'
  <2>1. ASSUME NEW n \in Jobs PROVE Owned(nodes[n], n)'
    <3>1. Owned(nodes[n], n)
      BY DEF Ties, RowsOwned
    <3>. QED BY <1>n, <3>1 DEF Owned
  <2>2. ASSUME NEW n \in Jobs, NEW u \in Threads PROVE Owned(frame[u].nodes[n], n)'
    <3>1. Owned(frame[u].nodes[n], n) /\ Owned(f.nodes[n], n) /\ frame'[u] \in {f, frame[u]}
      BY <1>1 DEF Ties, RowsOwned
    <3>. QED BY <1>n, <3>1 DEF Owned
  <2>. QED BY <2>1, <2>2 DEF RowsOwned
<1>3. HandedOver' /\ OneHand'
  BY <1>1 DEF Ties, HandedOver, OneHand, At
<1>4. Settling'
  BY <1>1 DEF Ties, Settling, At, Threads
<1>5. OnlyFailuresForget'
  BY <1>1 DEF Ties, OnlyFailuresForget, Owed, Forgotten, InFlight, At, Threads
<1>. QED BY <1>2, <1>3, <1>4, <1>5 DEF Ties

LEMMA GotoKeepsTies ==
    ASSUME TypeOK, Ties, NEW t \in Threads, NEW label, frame[t].at \notin Held, label \notin Held,
           Goto(t, label), UNCHANGED <<nodes, executions>>
    PROVE  Ties'
<1>1. /\ Blank(label).at = label /\ Blank(label).execution = NoExecution
      /\ \A n \in Jobs : Owned(Blank(label).nodes[n], n)
  BY DEF Blank, NewNode, Owned
<1>. QED BY <1>1, MoveKeepsTies DEF Goto

LEMMA ReadNodesKeepsTies ==
    ASSUME TypeOK, Ties, NEW t \in Threads, NEW label, NEW S, frame[t].at \notin Held, label \notin Held,
           ReadNodes(t, label, S), UNCHANGED <<nodes, executions>>
    PROVE  Ties'
<1> DEFINE f == [frame[t] EXCEPT !.at = label, !.nodes = nodes, !.todo = S]
<1>1. frame[t] \in Frame
  BY DEF TypeOK
<1>2. f.at = label /\ f.nodes = nodes /\ f.execution = frame[t].execution
  BY <1>1 DEF Frame
<1>3. frame[t].execution = NoExecution
  BY DEF Ties, HandedOver, At, Held
<1>4. \A n \in Jobs : Owned(nodes[n], n)
  BY DEF Ties, RowsOwned
<1>5. frame' = [frame EXCEPT ![t] = f]
  BY DEF ReadNodes
<1> HIDE DEF f
<1>. QED BY <1>2, <1>3, <1>4, <1>5, MoveKeepsTies

LEMMA ReadRunKeepsTies ==
    ASSUME TypeOK, Ties, NEW t \in Threads, NEW from, NEW to, NEW row,
           from \notin Held, to \notin Held, ReadRun(t, from, to, row)
    PROVE  Ties'
<1> DEFINE f == [Blank(to) EXCEPT !.run = row]
<1>1. /\ f.at = to /\ f.execution = NoExecution
      /\ \A n \in Jobs : Owned(f.nodes[n], n)
  BY DEF Blank, NewNode, Owned
<1>2. frame[t].at \notin Held /\ frame' = [frame EXCEPT ![t] = f] /\ UNCHANGED <<nodes, executions>>
  BY DEF ReadRun, At
<1> HIDE DEF f
<1>. QED BY <1>1, <1>2, MoveKeepsTies

(* A loop that takes a node out of the way. *)
LEMMA SetNextKeepsTies ==
    ASSUME TypeOK, Ties, NEW t \in Threads, NEW label, NEW status, label \notin Held,
           status # "running", SetNext(t, label, status)
    PROVE  Ties'
<1> DEFINE h == Head(t)
           f == [frame[t] EXCEPT !.todo = Left(t)]
<1>0. frame[t] \in Frame /\ frame[t].at = label
  BY DEF TypeOK, SetNext, At
<1>1. h \in Jobs /\ frame[t].nodes[h] \in Node
  BY <1>0, HeadInTodo DEF SetNext, Frame
<1>2. /\ nodes' = [nodes EXCEPT ![h] = [frame[t].nodes[h] EXCEPT !.status = status]]
      /\ frame' = [frame EXCEPT ![t] = f] /\ executions' = executions
  BY DEF SetNext, WriteNode
<1> HIDE DEF h
<1>3. f.at = label /\ f.nodes = frame[t].nodes /\ f.execution = frame[t].execution
  BY <1>0 DEF Frame
<1> HIDE DEF f
<1>4. /\ nodes'[h].status = status /\ nodes'[h].execution = frame[t].nodes[h].execution
      /\ \A n \in Jobs \ {h} : nodes'[n] = nodes[n]
      /\ frame'[t] = f
      /\ \A u \in Threads \ {t} : frame'[u] = frame[u]
      /\ Started' = Started
  BY <1>1, <1>2 DEF TypeOK, Started, Unused, Node
<1>5. RowsOwned'
  <2>1. executions' = executions /\ Named' = Named
    <3>1. Kept' = Kept
      BY <1>2, <1>4 DEF Kept
    <3>. QED BY <1>0, <1>2, <1>3, <3>1, NamesStay DEF Held
  <2>2. ASSUME NEW n \in Jobs PROVE Owned(nodes[n], n)'
    <3>1. nodes'[n].execution \in {nodes[n].execution, frame[t].nodes[n].execution}
      BY <1>4
    <3>2. Owned(nodes[n], n) /\ Owned(frame[t].nodes[n], n)
      BY DEF Ties, RowsOwned
    <3>. QED BY <2>1, <3>1, <3>2 DEF Owned
  <2>3. ASSUME NEW n \in Jobs, NEW u \in Threads PROVE Owned(frame[u].nodes[n], n)'
    <3>1. frame'[u].nodes = frame[u].nodes
      BY <1>3, <1>4
    <3>2. Owned(frame[u].nodes[n], n)
      BY DEF Ties, RowsOwned
    <3>. QED BY <2>1, <3>1, <3>2 DEF Owned
  <2>. QED BY <2>2, <2>3 DEF RowsOwned
<1>6. HandedOver' /\ OneHand'
  BY <1>0, <1>2, <1>3, <1>4 DEF Ties, HandedOver, OneHand, At, Held
<1>7. Settling'
  BY <1>0, <1>2, <1>3, <1>4 DEF Ties, Settling, At, Threads, Held
<1>8. OnlyFailuresForget'
  BY <1>0, <1>2, <1>3, <1>4 DEF Ties, OnlyFailuresForget, Owed, Forgotten, InFlight, At, Threads, Held
<1>. QED BY <1>5, <1>6, <1>7, <1>8 DEF Ties

(* An execution on its way from its creation to the queue. *)
LEMMA CreateExecutionKeepsTies ==
    ASSUME TypeOK, Ties, NEW t \in Threads, CreateExecution(t)
    PROVE  Ties'
<1>1. PICK x \in Unused :
        /\ executions' = [executions EXCEPT ![x] = [@ EXCEPT !.state = "created", !.job = Head(t)]]
        /\ frame' = [frame EXCEPT ![t] = [@ EXCEPT !.at = "created", !.execution = x]]
  BY DEF CreateExecution
<1>2. /\ x \in Executions /\ executions[x].state = "absent" /\ x # NoExecution
      /\ frame[t] \in Frame /\ executions[x] \in ExecutionRow /\ frame[t].at = "starting"
      /\ nodes' = nodes
  BY EngineAssumption DEF Unused, TypeOK, CreateExecution, At
<1> DEFINE f == [frame[t] EXCEPT !.at = "created", !.execution = x]
<1>3. /\ f.at = "created" /\ f.nodes = frame[t].nodes /\ f.execution = x
      /\ frame' = [frame EXCEPT ![t] = f]
  BY <1>1, <1>2 DEF Frame
<1> HIDE DEF f
<1>4. /\ executions'[x].state = "created"
      /\ \A y \in Executions \ {x} : executions'[y] = executions[y]
      /\ frame'[t] = f
      /\ \A u \in Threads \ {t} : frame'[u] = frame[u]
      /\ Started' = Started \cup {x} /\ x \notin Started
  BY <1>1, <1>2, <1>3 DEF TypeOK, Started, Unused, ExecutionRow
<1>5. RowsOwned'
  <2>1. Kept' = Kept \cup {x} /\ x \notin Kept
    BY <1>2, <1>4 DEF Kept, Started
  <2>2. Leaving(x)' /\ \A y \in Kept : Leaving(y)' <=> Leaving(y)
    BY <1>2, <1>3, <1>4, <2>1 DEF Leaving, At
  <2>3. Named' = Named
    BY <2>1, <2>2 DEF Named
  <2>4. \A y \in Named : executions'[y] = executions[y]
    BY <1>4, <2>1 DEF Named, Kept, Started
  <2>5. \A u \in Threads : frame'[u].nodes = frame[u].nodes
    BY <1>3, <1>4
  <2>. QED BY <1>2, <2>3, <2>4, <2>5 DEF Ties, RowsOwned, Owned
<1>6. HandedOver' /\ OneHand'
  BY <1>2, <1>3, <1>4 DEF Ties, HandedOver, OneHand, At
<1>7. Settling'
  BY <1>2, <1>3, <1>4 DEF Ties, Settling, At, Threads
<1>8. OnlyFailuresForget'
  BY <1>2, <1>3, <1>4 DEF Ties, OnlyFailuresForget, Owed, Forgotten, InFlight, At, Threads, Started
<1>. QED BY <1>5, <1>6, <1>7, <1>8 DEF Ties

LEMMA MarkRunningKeepsTies ==
    ASSUME TypeOK, Ties, NEW t \in Threads, MarkRunning(t)
    PROVE  Ties'
<1> DEFINE x == frame[t].execution
           j == executions[x].job
           f == [frame[t] EXCEPT !.at = "enqueue"]
<1>1. /\ frame[t].at = "created" /\ x \in Executions /\ executions[x].state = "created"
      /\ frame[t] \in Frame
  BY DEF MarkRunning, Ties, HandedOver, TypeOK, At
<1>2. /\ nodes' = [nodes EXCEPT ![j] = [status |-> "running", execution |-> x]]
      /\ frame' = [frame EXCEPT ![t] = f] /\ executions' = executions
  BY DEF MarkRunning
<1>3. /\ f.at = "enqueue" /\ f.nodes = frame[t].nodes /\ f.execution = x
  BY <1>1 DEF Frame
<1> HIDE DEF f
<1>4. /\ \A n \in Jobs \ {j} : nodes'[n] = nodes[n]
      /\ j \in Jobs => nodes'[j] = [status |-> "running", execution |-> x]
      /\ frame'[t] = f
      /\ \A u \in Threads \ {t} : frame'[u] = frame[u]
      /\ Started' = Started /\ x \in Started
  BY <1>1, <1>2 DEF TypeOK, Started, Unused
<1>5. RowsOwned'
  <2>1. executions' = executions /\ Named' = Named \cup {x}
    <3>1. Kept' = Kept /\ x \in Kept
      BY <1>1, <1>2, <1>4 DEF Kept
    <3>2. ~Leaving(x)' /\ \A y \in Kept \ {x} : Leaving(y)' <=> Leaving(y)
      BY <1>1, <1>3, <1>4, EngineAssumption DEF Leaving, Ties, OneHand, At
    <3>. QED BY <1>2, <1>3, <1>4, <3>1, <3>2 DEF Named
  <2>2. ASSUME NEW n \in Jobs PROVE Owned(nodes[n], n)'
    <3>1. CASE n = j
      <4>1. nodes'[n].execution = x /\ executions[x].job = n
        BY <1>4, <3>1
      <4> HIDE DEF x
      <4>. QED BY <2>1, <4>1 DEF Owned
    <3>2. CASE n # j
      <4>1. Owned(nodes[n], n) /\ nodes'[n] = nodes[n]
        BY <1>4, <3>2 DEF Ties, RowsOwned
      <4>. QED BY <2>1, <4>1 DEF Owned
    <3>. QED BY <3>1, <3>2
  <2>3. ASSUME NEW n \in Jobs, NEW u \in Threads PROVE Owned(frame[u].nodes[n], n)'
    <3>1. frame'[u].nodes = frame[u].nodes
      BY <1>3, <1>4
    <3>2. Owned(frame[u].nodes[n], n)
      BY DEF Ties, RowsOwned
    <3>. QED BY <2>1, <3>1, <3>2 DEF Owned
  <2>. QED BY <2>2, <2>3 DEF RowsOwned
<1>6. HandedOver' /\ OneHand'
  BY <1>1, <1>2, <1>3, <1>4 DEF Ties, HandedOver, OneHand, At
<1>7. Settling'
  BY <1>1, <1>2, <1>3, <1>4 DEF Ties, Settling, At, Threads
<1>8. OnlyFailuresForget'
  BY <1>1, <1>2, <1>3, <1>4 DEF Ties, OnlyFailuresForget, Owed, Forgotten, InFlight, At, Threads
<1>. QED BY <1>5, <1>6, <1>7, <1>8 DEF Ties

LEMMA EnqueueNodeKeepsTies ==
    ASSUME TypeOK, Ties, NEW t \in Threads, EnqueueNode(t)
    PROVE  Ties'
<1> DEFINE x == frame[t].execution
           f == [frame[t] EXCEPT !.at = "starting", !.todo = Left(t), !.execution = NoExecution]
<1>1. /\ frame[t].at = "enqueue" /\ x \in Executions /\ executions[x].state = "created"
      /\ frame[t] \in Frame /\ x # NoExecution
  BY EngineAssumption DEF EnqueueNode, Ties, HandedOver, TypeOK, At
<1>2. PICK st \in {"queued", "stranded"} :
        /\ executions' = [executions EXCEPT ![x] = [@ EXCEPT !.state = st]]
        /\ frame' = [frame EXCEPT ![t] = f] /\ nodes' = nodes
  BY DEF EnqueueNode
<1>3. /\ f.at = "starting" /\ f.nodes = frame[t].nodes /\ f.execution = NoExecution
  BY <1>1 DEF Frame
<1> HIDE DEF f
<1>4. /\ executions'[x].state = st /\ executions'[x].job = executions[x].job
      /\ \A y \in Executions \ {x} : executions'[y] = executions[y]
      /\ frame'[t] = f
      /\ \A u \in Threads \ {t} : frame'[u] = frame[u]
      /\ Started' = Started
  BY <1>1, <1>2 DEF TypeOK, Started, Unused, ExecutionRow
<1> HIDE DEF x
<1>5. RowsOwned'
  <2>1. Kept' = Kept
    BY <1>1, <1>2, <1>4 DEF Kept
  <2>2. Named' = Named
    BY <1>1, <1>2, <1>3, <2>1, NamesStay
  <2>3. \A y \in Executions : executions'[y].job = executions[y].job
    BY <1>4
  <2>4. Named \subseteq Executions /\ \A u \in Threads : frame'[u].nodes = frame[u].nodes
    BY <1>3, <1>4 DEF Named, Kept, Started
  <2>. QED BY <1>2, <2>2, <2>3, <2>4 DEF Ties, RowsOwned, Owned
<1>6. HandedOver' /\ OneHand'
  BY <1>1, <1>2, <1>3, <1>4 DEF Ties, HandedOver, OneHand, At, x
<1>7. Settling'
  BY <1>1, <1>2, <1>3, <1>4 DEF Ties, Settling, At, Threads
<1>8. OnlyFailuresForget'
  BY <1>1, <1>2, <1>3, <1>4 DEF Ties, OnlyFailuresForget, Owed, Forgotten, InFlight, At, Threads, Started
<1>. QED BY <1>5, <1>6, <1>7, <1>8 DEF Ties

(* The end of an execution, reported or not. *)
LEMMA EndKeepsTies ==
    ASSUME TypeOK, Ties, NEW x \in Executions, NEW o \in {"success", "failed", "cancelled"},
           NEW label \in {"find", "unreported"},
           executions[x].state = "queued", At(x, "start") \/ Over(x),
           executions' = [executions EXCEPT ![x] = [@ EXCEPT !.state = "ended", !.outcome = o]],
           Goto(x, label), UNCHANGED nodes
    PROVE  Ties'
<1> DEFINE f == Blank(label)
<1>1. /\ executions[x].state = "queued" /\ frame[x].at \in {"start", "done", "cut", "unreported"}
      /\ executions[x] \in ExecutionRow /\ x \in Threads
      /\ executions' = [executions EXCEPT ![x] = [@ EXCEPT !.state = "ended", !.outcome = o]]
      /\ frame' = [frame EXCEPT ![x] = f] /\ nodes' = nodes
  BY DEF Goto, TypeOK, At, Over, Threads
<1>2. f.at = label /\ f.execution = NoExecution /\ \A n \in Jobs : f.nodes[n].execution = NoExecution
  BY DEF Blank, NewNode
<1> HIDE DEF f
<1>3. /\ executions'[x].state = "ended" /\ executions'[x].outcome # "none"
      /\ executions'[x].job = executions[x].job
      /\ \A y \in Executions \ {x} : executions'[y] = executions[y]
      /\ frame'[x] = f
      /\ \A u \in Threads \ {x} : frame'[u] = frame[u]
      /\ Started' = Started
  BY <1>1 DEF TypeOK, Started, Unused, ExecutionRow
<1>4. Named' = Named /\ Named \subseteq Executions
  <2>1. Kept' = Kept
    BY <1>1, <1>3 DEF Kept
  <2>. QED BY <1>1, <1>2, <2>1, NamesStay DEF Named, Kept, Started
<1>5. RowsOwned'
  BY <1>1, <1>2, <1>3, <1>4 DEF Ties, RowsOwned, Owned
<1>6. HandedOver' /\ OneHand'
  BY <1>1, <1>2, <1>3 DEF Ties, HandedOver, OneHand, At
<1>7. Settling'
  BY <1>1, <1>2, <1>3 DEF Ties, Settling, At, Threads
<1>8. OnlyFailuresForget'
  BY <1>1, <1>2, <1>3 DEF Ties, OnlyFailuresForget, Owed, Forgotten, InFlight, At, Threads, Started
<1>. QED BY <1>5, <1>6, <1>7, <1>8 DEF Ties

LEMMA RunKeepsTies ==
    ASSUME TypeOK, Ties, NEW x \in Executions, Run(x)
    PROVE  Ties'
<1>1. PICK o \in {"success", "failed", "cancelled"} : ExecutionEnds(x, o) \/ EndsUnreported(x, o)
  BY DEF Run
<1>. QED BY <1>1, EndKeepsTies DEF ExecutionEnds, EndsUnreported

LEMMA QueueRetriesKeepsTies ==
    ASSUME TypeOK, Ties, NEW x \in Executions, QueueRetries(x)
    PROVE  Ties'
<1>1. /\ executions[x].state = "ended" /\ frame[x].at \in {"done", "cut", "unreported"}
      /\ executions[x] \in ExecutionRow /\ x \in Threads
      /\ frame' = frame /\ nodes' = nodes
  BY DEF QueueRetries, TypeOK, At, Over, Threads
<1>3. /\ executions'[x].state = "queued" /\ executions'[x].job = executions[x].job
      /\ \A y \in Executions \ {x} : executions'[y] = executions[y]
      /\ Started' = Started
  BY <1>1 DEF QueueRetries, TypeOK, Started, Unused, ExecutionRow
<1>4. Named' = Named /\ Named \subseteq Executions
  BY <1>1, <1>3 DEF Named, Kept, Started, Leaving, At
<1>5. RowsOwned'
  BY <1>1, <1>3, <1>4 DEF Ties, RowsOwned, Owned
<1>6. HandedOver' /\ OneHand'
  BY <1>1, <1>3 DEF Ties, HandedOver, OneHand, At
<1>7. Settling'
  BY <1>1, <1>3 DEF Ties, Settling, At, Threads
<1>8. OnlyFailuresForget'
  <2>1. ASSUME NEW n \in Jobs, nodes'[n].status = "running"
        PROVE  \E y \in Started' : nodes'[n].execution = y /\ executions'[y].job = n
                                   /\ (Owed(y)' \/ Forgotten(y)')
    <3>1. PICK y \in Started : nodes[n].execution = y /\ executions[y].job = n
                               /\ (Owed(y) \/ Forgotten(y))
      BY <1>1, <2>1 DEF Ties, OnlyFailuresForget
    <3>2. y \in Started' /\ nodes'[n].execution = y /\ executions'[y].job = n
          /\ (Owed(y)' \/ Forgotten(y)')
      <4>1. y \in Started' /\ nodes'[n].execution = y /\ executions'[y].job = n /\ y \in Executions
        BY <1>1, <1>3, <3>1 DEF Started
      <4>2. CASE y = x
        BY <1>3, <4>1, <4>2 DEF Owed, InFlight
      <4>3. CASE y # x
        BY <1>1, <1>3, <3>1, <4>1, <4>3 DEF Owed, Forgotten, InFlight, At
      <4>. QED BY <4>1, <4>2, <4>3
    <3>. QED BY <3>2
  <2>. QED BY <2>1 DEF OnlyFailuresForget
<1>. QED BY <1>5, <1>6, <1>7, <1>8 DEF Ties

(* The worker finds the node that names its execution, or none, and then no
   running node names it. *)
LEMMA FindNodeKeepsTies ==
    ASSUME TypeOK, Ties, NEW x \in Executions, FindNode(x)
    PROVE  Ties'
<1>1. /\ frame[x].at = "find" /\ x \in Threads /\ nodes' = nodes /\ executions' = executions
      /\ frame[x].execution = NoExecution /\ frame[x] \in Frame
      /\ x # NoExecution /\ x \in Started
      /\ executions[x].state = "ended" /\ executions[x].outcome # "none"
  BY EngineAssumption DEF FindNode, Ties, HandedOver, Settling, TypeOK, At, Threads, Started, Unused
<1>2. \A n \in Jobs : nodes[n].execution = x => n = executions[x].job
  BY <1>1, EngineAssumption DEF Ties, RowsOwned, Owned
<1>3. PICK f : /\ frame' = [frame EXCEPT ![x] = f] /\ f.execution = NoExecution
               /\ \A n \in Jobs : Owned(f.nodes[n], n)
               /\ \/ NodesOf(x) = {} /\ f.at = "done"
                  \/ f.at = "settle" /\ f.todo = NodesOf(x) /\ NodesOf(x) # {}
  <2>1. CASE NodesOf(x) = {}
    <3>1. /\ Blank("done").at = "done" /\ Blank("done").execution = NoExecution
          /\ \A n \in Jobs : Owned(Blank("done").nodes[n], n)
      BY DEF Blank, NewNode, Owned
    <3>. QED BY <2>1, <3>1 DEF FindNode, Return, Goto
  <2>2. CASE NodesOf(x) # {}
    <3> DEFINE g == [frame[x] EXCEPT !.at = "settle", !.nodes = nodes, !.todo = NodesOf(x)]
    <3>1. g.at = "settle" /\ g.nodes = nodes /\ g.todo = NodesOf(x) /\ g.execution = NoExecution
      BY <1>1 DEF Frame
    <3>2. frame' = [frame EXCEPT ![x] = g]
      BY <2>2 DEF FindNode, ReadNodes
    <3>3. \A n \in Jobs : Owned(nodes[n], n)
      BY DEF Ties, RowsOwned
    <3> HIDE DEF g
    <3>. QED BY <2>2, <3>1, <3>2, <3>3
  <2>. QED BY <2>1, <2>2
<1>4. /\ frame'[x] = f /\ Started' = Started
      /\ \A u \in Threads \ {x} : frame'[u] = frame[u]
  BY <1>1, <1>3 DEF TypeOK, Started, Unused
<1>5. RowsOwned'
  <2>1. Kept' = Kept
    BY <1>1, <1>4 DEF Kept
  <2>2. Named' = Named
    BY <1>1, <1>3, <2>1, NamesStay
  <2>. QED BY <1>1, <1>3, <1>4, <2>2 DEF Ties, RowsOwned, Owned
<1>6. HandedOver' /\ OneHand'
  BY <1>1, <1>3, <1>4 DEF Ties, HandedOver, OneHand, At
<1>7. Settling'
  <2>1. f.at = "settle" => f.todo = {executions[x].job}
    BY <1>2, <1>3 DEF NodesOf
  <2>2. f.at # "find"
    BY <1>3
  <2>. QED BY <1>1, <1>4, <2>1, <2>2 DEF Ties, Settling, At, Threads
<1>8. OnlyFailuresForget'
  <2>1. \A n \in Jobs : nodes[n].execution = x => f.at = "settle"
    BY <1>3 DEF NodesOf
  <2> SUFFICES ASSUME NEW n \in Jobs, nodes'[n].status = "running"
               PROVE  \E y \in Started' :
                         nodes'[n].execution = y /\ executions'[y].job = n
                         /\ (Owed(y) \/ Forgotten(y))'
    BY DEF OnlyFailuresForget
  <2>2. PICK y \in Started :
          nodes[n].execution = y /\ executions[y].job = n /\ (Owed(y) \/ Forgotten(y))
    BY <1>1 DEF Ties, OnlyFailuresForget
  <2>3. CASE y = x
    BY <1>1, <1>4, <2>1, <2>2, <2>3 DEF At, Owed
  <2>4. CASE y # x
    BY <1>1, <1>4, <2>2, <2>4 DEF At, Owed, Forgotten, InFlight, Threads, Started
  <2>. QED BY <2>3, <2>4
<1>. QED BY <1>5, <1>6, <1>7, <1>8 DEF Ties

LEMMA SettleNodeKeepsTies ==
    ASSUME TypeOK, Ties, NEW x \in Executions, SettleNode(x)
    PROVE  Ties'
<1> DEFINE j == executions[x].job
           f == Blank("count")
<1>1. /\ frame[x].at = "settle" /\ x \in Threads /\ executions' = executions
      /\ frame[x].execution = NoExecution /\ frame[x] \in Frame
      /\ frame[x].todo = {j} /\ executions[x].outcome # "none"
      /\ executions[x] \in ExecutionRow
  BY EngineAssumption DEF SettleNode, Ties, HandedOver, Settling, TypeOK, At, Threads
<1>2. Head(x) = j /\ j \in Jobs
  BY <1>1, HeadInTodo DEF Frame
<1>3. f.at = "count" /\ f.execution = NoExecution /\ \A n \in Jobs : f.nodes[n].execution = NoExecution
  BY DEF Blank, NewNode
<1>4. /\ nodes' = [nodes EXCEPT ![j] = [frame[x].nodes[j] EXCEPT !.status = Outcome(x)]]
      /\ frame' = [frame EXCEPT ![x] = f]
  BY <1>2 DEF SettleNode, WriteNode, Goto
<1>5. frame[x].nodes[j] \in Node /\ Outcome(x) # "running"
  BY <1>1, <1>2 DEF Frame, Outcome, ExecutionRow
<1> HIDE DEF f, j
<1>6. /\ nodes'[j].status # "running" /\ nodes'[j].execution = frame[x].nodes[j].execution
      /\ \A n \in Jobs \ {j} : nodes'[n] = nodes[n]
      /\ frame'[x] = f /\ Started' = Started
      /\ \A u \in Threads \ {x} : frame'[u] = frame[u]
  BY <1>1, <1>2, <1>4, <1>5 DEF TypeOK, Started, Unused, Node
<1>7. RowsOwned'
  <2>1. Kept' = Kept
    BY <1>1, <1>6 DEF Kept
  <2>2. Named' = Named
    BY <1>1, <1>3, <1>4, <2>1, NamesStay
  <2>. QED BY <1>1, <1>2, <1>3, <1>6, <2>2 DEF Ties, RowsOwned, Owned
<1>8. HandedOver' /\ OneHand'
  BY <1>1, <1>3, <1>6 DEF Ties, HandedOver, OneHand, At
<1>9. Settling'
  BY <1>1, <1>3, <1>6 DEF Ties, Settling, At, Threads
<1>10. OnlyFailuresForget'
  <2> SUFFICES ASSUME NEW n \in Jobs, nodes'[n].status = "running"
               PROVE  \E y \in Started' :
                         nodes'[n].execution = y /\ executions'[y].job = n
                         /\ (Owed(y) \/ Forgotten(y))'
    BY DEF OnlyFailuresForget
  <2>1. n # j /\ nodes[n].status = "running"
    BY <1>6
  <2>2. PICK y \in Started :
          nodes[n].execution = y /\ executions[y].job = n /\ (Owed(y) \/ Forgotten(y))
    BY <2>1 DEF Ties, OnlyFailuresForget
  <2>3. y # x
    BY <2>1, <2>2 DEF j
  <2>. QED BY <1>1, <1>6, <2>1, <2>2, <2>3 DEF At, Owed, Forgotten, InFlight, Threads, Started
<1>. QED BY <1>7, <1>8, <1>9, <1>10 DEF Ties

LEMMA CreateNodeKeepsTies ==
    ASSUME TypeOK, Ties, NEW n \in Jobs, CreateNode(n)
    PROVE  Ties'
<1>1. /\ nodes'[n].status = "waiting" /\ nodes'[n].execution = NoExecution
      /\ \A m \in Jobs \ {n} : nodes'[m] = nodes[m]
      /\ frame' = frame /\ executions' = executions /\ Started' = Started
  BY DEF CreateNode, NewNode, TypeOK, Started, Unused
<1>2. RowsOwned'
  <2>1. Named' = Named
    BY <1>1 DEF Named, Kept, Leaving, At
  <2>. QED BY <1>1, <2>1 DEF Ties, RowsOwned, Owned
<1>3. HandedOver' /\ OneHand' /\ Settling'
  BY <1>1 DEF Ties, HandedOver, OneHand, Settling, At
<1>4. OnlyFailuresForget'
  BY <1>1 DEF Ties, OnlyFailuresForget, Owed, Forgotten, InFlight, At
<1>. QED BY <1>2, <1>3, <1>4 DEF Ties

(* What was in the hands of a thread that is cut off was not named yet, or it
   is stranded. *)
LEMMA CutOffKeepsTies ==
    ASSUME TypeOK, Ties, NEW t \in Threads, CutOff(t)
    PROVE  Ties'
<1>1. CASE ~InHand(t) /\ ~(At(t, "find") \/ At(t, "settle"))
  <2>1. Goto(t, "cut") /\ UNCHANGED <<nodes, executions>>
    BY <1>1 DEF CutOff
  <2>2. frame[t].at \notin Held
    BY <1>1 DEF CutOff, InHand, Over, At, Held
  <2>. QED BY <2>1, <2>2, GotoKeepsTies DEF Held
<1>2. CASE ~InHand(t) /\ (At(t, "find") \/ At(t, "settle"))
  <2> DEFINE f == Blank("unreported")
  <2>1. /\ frame' = [frame EXCEPT ![t] = f] /\ nodes' = nodes /\ executions' = executions
        /\ frame[t].at \in {"find", "settle"} /\ frame[t].execution = NoExecution
    BY <1>2 DEF CutOff, Goto, Ties, HandedOver, At
  <2>2. f.at = "unreported" /\ f.execution = NoExecution /\ \A n \in Jobs : f.nodes[n].execution = NoExecution
    BY DEF Blank, NewNode
  <2> HIDE DEF f
  <2>3. /\ frame'[t] = f /\ \A u \in Threads \ {t} : frame'[u] = frame[u]
        /\ Started' = Started
    BY <2>1 DEF TypeOK, Started, Unused
  <2>4. Kept' = Kept
    BY <2>1, <2>3 DEF Kept
  <2>5. Named' = Named
    BY <2>1, <2>2, <2>4, NamesStay
  <2>6. RowsOwned'
    BY <2>1, <2>2, <2>3, <2>5 DEF Ties, RowsOwned, Owned
  <2>7. HandedOver' /\ OneHand'
    BY <2>1, <2>2, <2>3 DEF Ties, HandedOver, OneHand, At
  <2>8. Settling'
    BY <2>1, <2>2, <2>3 DEF Ties, Settling, At, Threads
  <2>9. OnlyFailuresForget'
    BY <2>1, <2>2, <2>3 DEF Ties, OnlyFailuresForget, Owed, Forgotten, InFlight, At, Threads
  <2>. QED BY <2>6, <2>7, <2>8, <2>9 DEF Ties
<1>3. CASE InHand(t)
  <2> DEFINE f == Blank("cut")
  <2>0. PICK x : x = frame[t].execution
    OBVIOUS
  <2>1. PICK s \in {"abandoned", "stranded"} :
          /\ executions' = [executions EXCEPT ![x].state = s]
          /\ s = "abandoned" <=> At(t, "created")
    BY <1>3, <2>0 DEF CutOff, DropExecution
  <2>2. /\ frame' = [frame EXCEPT ![t] = f] /\ nodes' = nodes
        /\ frame[t].at \in {"created", "enqueue"} /\ x \in Executions /\ executions[x].state = "created"
        /\ x # NoExecution
    BY <1>3, <2>0, EngineAssumption DEF CutOff, InHand, Goto, Ties, HandedOver, At
  <2>3. f.at = "cut" /\ f.execution = NoExecution /\ \A n \in Jobs : f.nodes[n].execution = NoExecution
    BY DEF Blank, NewNode
  <2> HIDE DEF f
  <2>4. /\ frame'[t] = f /\ \A u \in Threads \ {t} : frame'[u] = frame[u]
        /\ executions'[x].state = s /\ \A y \in Executions \ {x} : executions'[y] = executions[y]
        /\ \A y \in Executions : executions'[y].job = executions[y].job
        /\ Started' = Started
    BY <2>1, <2>2 DEF TypeOK, Started, Unused, ExecutionRow
  <2>5. Named' = Named /\ Named \subseteq Executions /\ (s = "abandoned" => x \notin Named)
    <3>1. s = "abandoned" => Leaving(x)
      BY <2>0, <2>1 DEF Leaving
    <3>2. \A y \in Executions \ {x} : Leaving(y)' <=> Leaving(y)
      BY <2>0, <2>2, <2>3, <2>4, EngineAssumption DEF Leaving, At
    <3>3. s = "stranded" => ~Leaving(x) /\ ~Leaving(x)'
      BY <2>0, <2>1, <2>2, <2>3, <2>4 DEF Leaving, Ties, OneHand, At
    <3>4. \A y \in Executions \ {x} : y \in Kept' <=> y \in Kept
      BY <2>4 DEF Kept
    <3>5. /\ x \in Kept /\ (x \in Kept' <=> s = "stranded")
          /\ Kept \subseteq Executions /\ Kept' \subseteq Executions
      BY <2>2, <2>4 DEF Kept, Started, Unused
    <3>. QED BY <3>1, <3>2, <3>3, <3>4, <3>5 DEF Named
  <2>6. RowsOwned'
    BY <2>2, <2>3, <2>4, <2>5 DEF Ties, RowsOwned, Owned
  <2>7. HandedOver' /\ OneHand'
    BY <2>0, <2>2, <2>3, <2>4 DEF Ties, HandedOver, OneHand, At
  <2>8. Settling'
    BY <2>2, <2>3, <2>4 DEF Ties, Settling, At, Threads
  <2>9. OnlyFailuresForget'
    <3> SUFFICES ASSUME NEW n \in Jobs, nodes[n].status = "running"
                 PROVE  \E y \in Started :
                          nodes[n].execution = y /\ executions'[y].job = n
                          /\ (Owed(y) \/ Forgotten(y))'
      BY <2>2, <2>4 DEF OnlyFailuresForget
    <3>1. PICK y \in Started :
            nodes[n].execution = y /\ executions[y].job = n /\ (Owed(y) \/ Forgotten(y))
      BY DEF Ties, OnlyFailuresForget
    <3>2. y \in Named /\ y \in Executions
      BY <3>1, EngineAssumption DEF Ties, RowsOwned, Owned, Started
    <3>3. CASE y = x
      <4>1. s = "stranded" /\ executions'[y].state = s
        BY <2>4, <2>5, <3>2, <3>3
      <4>. QED BY <2>4, <3>1, <3>2, <4>1 DEF Forgotten
    <3>4. CASE y # x
      BY <2>2, <2>3, <2>4, <3>1, <3>2, <3>4 DEF Owed, Forgotten, InFlight, At
    <3>. QED BY <3>3, <3>4
  <2>. QED BY <2>6, <2>7, <2>8, <2>9 DEF Ties
<1>. QED BY <1>1, <1>2, <1>3

-----------------------------------------------------------------------------
LEMMA AdvanceKeepsTies ==
    ASSUME TypeOK, Ties, NEW t \in Threads, Advance(t) PROVE Ties'
<1> USE DEF At, Held
<1>1. CASE AdvanceRead(t)
  BY <1>1, ReadNodesKeepsTies DEF AdvanceRead
<1>2. CASE StartFails(t)
  BY <1>2, SetNextKeepsTies DEF StartFails
<1>3. CASE Advanced(t)
  <2>1. Goto(t, IF t = "trigger" THEN "done" ELSE "check")
    BY <1>3 DEF Advanced, Return
  <2>. QED BY <1>3, <2>1, GotoKeepsTies DEF Advanced
<1>. QED BY <1>1, <1>2, <1>3, CreateExecutionKeepsTies, MarkRunningKeepsTies,
            EnqueueNodeKeepsTies DEF Advance

LEMMA TriggerKeepsTies ==
    ASSUME TypeOK, Ties, Trigger PROVE Ties'
<1> USE DEF At, Held, Threads
<1>1. CASE CreateRun
  BY <1>1, GotoKeepsTies DEF CreateRun
<1>2. CASE ReadRoots
  BY <1>2, ReadNodesKeepsTies DEF ReadRoots
<1>3. CASE MarkReady
  BY <1>3, SetNextKeepsTies DEF MarkReady
<1>4. CASE MarkedReady
  BY <1>4, GotoKeepsTies DEF MarkedReady
<1>. QED BY <1>1, <1>2, <1>3, <1>4, CreateNodeKeepsTies, AdvanceKeepsTies DEF Trigger

LEMMA CompleteKeepsTies ==
    ASSUME TypeOK, Ties, NEW x \in Executions, Complete(x) PROVE Ties'
<1> USE DEF At, Held, Threads
<1>1. CASE FindNode(x) \/ SettleNode(x) \/ Advance(x)
  BY <1>1, FindNodeKeepsTies, SettleNodeKeepsTies, AdvanceKeepsTies
<1>2. CASE CountNode(x) \/ FailRun(x) \/ EndRun(x)
  BY <1>2, ReadRunKeepsTies DEF CountNode, FailRun, EndRun
<1>3. CASE WriteCounters(x)
  <2>1. Goto(x, IF Bad(x) /\ OnFailure = "stop" THEN "stop" ELSE "advance")
    BY <1>3 DEF WriteCounters
  <2>. QED BY <1>3, <2>1, GotoKeepsTies DEF WriteCounters
<1>4. CASE ReadSkipped(x)
  BY <1>4, ReadNodesKeepsTies DEF ReadSkipped
<1>5. CASE SkipNode(x)
  BY <1>5, SetNextKeepsTies DEF SkipNode
<1>6. CASE Skipped(x)
  BY <1>6, GotoKeepsTies DEF Skipped, Return
<1>7. CASE CheckEnd(x)
  BY <1>7, GotoKeepsTies, ReadNodesKeepsTies DEF CheckEnd, Return
<1>8. CASE WriteRun(x)
  BY <1>8, GotoKeepsTies DEF WriteRun, Return
<1>. QED BY <1>1, <1>2, <1>3, <1>4, <1>5, <1>6, <1>7, <1>8 DEF Complete

LEMMA CancelKeepsTies ==
    ASSUME TypeOK, Ties, CancelRead \/ Cancelling PROVE Ties'
<1> USE DEF At, Held, Threads
<1>1. CASE CancelRead
  BY <1>1, ReadRunKeepsTies DEF CancelRead
<1>2. CASE CancelReadNodes
  BY <1>2, ReadNodesKeepsTies DEF CancelReadNodes
<1>3. CASE CancelNode
  BY <1>3, SetNextKeepsTies DEF CancelNode
<1>4. CASE CancelRun
  BY <1>4, GotoKeepsTies DEF CancelRun, Return
<1>. QED BY <1>1, <1>2, <1>3, <1>4 DEF Cancelling

-----------------------------------------------------------------------------
(* Before a cancellation, the trigger finds nothing to start. *)
LEMMA NothingToStart ==
    ASSUME TypeOK, OnlyTrigger, At("cancel", "start"), At("trigger", "advance")
    PROVE  Startable(nodes) = {}
<1> SUFFICES ASSUME NEW n \in Startable(nodes) PROVE FALSE
  OBVIOUS
<1>1. n \in Jobs /\ nodes[n].status = "waiting" /\ IsNodeReady(nodes, n)
  BY DEF Startable, NodesIn
<1>2. n \in Nodes(edges) /\ n \notin Roots
  BY <1>1 DEF OnlyTrigger
<1>3. PICK e \in edges : e.downstream = n
  BY <1>2 DEF Roots, Upstreams
<1>4. e.upstream \in Jobs
  BY GraphFacts
<1>. QED BY <1>1, <1>3, <1>4 DEF OnlyTrigger, IsNodeReady, Satisfied, Terminal

LEMMA TriggerKeepsOnlyTrigger ==
    ASSUME TypeOK, OnlyTrigger, Trigger PROVE OnlyTrigger'
<1> SUFFICES ASSUME At("cancel", "start")' PROVE OnlyTrigger'
  BY DEF OnlyTrigger
<1>a. "trigger" # "cancel" /\ "trigger" \notin Executions /\ "trigger" \in Threads
  BY EngineAssumption DEF Threads
<1>b. UNCHANGED edges => Roots' = Roots /\ Nodes(edges)' = Nodes(edges)
  BY DEF Roots
<1>c. frame["trigger"] \in Frame /\ frame \in [Threads -> Frame]
  BY <1>a DEF TypeOK
<1>1. CASE CreateRun
  BY <1>1, <1>a, <1>b, <1>c DEF CreateRun, Goto, Blank, OnlyTrigger, At, Started, Unused, Threads
<1>2. CASE ReadRoots
  BY <1>2, <1>a, <1>b, <1>c DEF ReadRoots, ReadNodes, OnlyTrigger, At, Started, Unused, Threads, Frame, Roots
<1>3. CASE MarkReady
  <2> DEFINE h == Head("trigger")
             f == [frame["trigger"] EXCEPT !.todo = Left("trigger")]
  <2>1. /\ At("cancel", "start") /\ frame["trigger"].at = "marking"
        /\ frame' = [frame EXCEPT !["trigger"] = f]
    BY <1>3, <1>a, <1>c DEF MarkReady, SetNext, At, Threads
  <2>2. h \in frame["trigger"].todo /\ h \in Jobs /\ h \in Nodes(edges)
    BY <1>3, <1>a, <1>c, <2>1, HeadInTodo DEF MarkReady, SetNext, Frame, OnlyTrigger, At
  <2>3. f.at = "marking" /\ f.todo = frame["trigger"].todo \ {h}
    BY <1>c, <2>1 DEF Frame, Left
  <2> HIDE DEF h, f
  <2>4. /\ nodes'[h].status = "ready" /\ UNCHANGED <<edges, executions>>
        /\ \A n \in Jobs \ {h} : nodes'[n] = nodes[n]
    <3>1. nodes' = [nodes EXCEPT ![h] = [frame["trigger"].nodes[h] EXCEPT !.status = "ready"]]
      BY <1>3 DEF MarkReady, SetNext, WriteNode, h
    <3>2. frame["trigger"].nodes[h] \in Node
      BY <1>c, <2>2 DEF Frame
    <3>. QED BY <1>3, <2>2, <3>1, <3>2 DEF MarkReady, SetNext, TypeOK, Node
  <2>5. /\ frame'["trigger"] = f
        /\ \A t \in Threads \ {"trigger"} : frame'[t] = frame[t]
    BY <1>a, <1>c, <2>1
  <2>6. Started' = {} /\ \A x \in Executions : frame'[x].at = "start"
    BY <1>a, <2>1, <2>4, <2>5 DEF OnlyTrigger, At, Started, Unused, Threads
  <2>7. \A n \in Jobs : /\ nodes'[n].status \in {"absent", "waiting", "ready"}
                        /\ nodes'[n].status # "absent" => n \in Nodes(edges)
    BY <2>1, <2>2, <2>4 DEF OnlyTrigger
  <2>8. \A n \in Roots : n \in f.todo \/ nodes'[n].status = "ready"
    <3>1. \A n \in Roots : n \in Jobs /\ (n \in frame["trigger"].todo \/ nodes[n].status = "ready")
      BY <2>1, GraphFacts DEF OnlyTrigger, At
    <3>. QED BY <2>3, <2>4, <3>1
  <2>9. f.todo \subseteq Nodes(edges)
    BY <2>1, <2>3 DEF OnlyTrigger, At
  <2>. QED BY <1>b, <2>3, <2>4, <2>5, <2>6, <2>7, <2>8, <2>9 DEF OnlyTrigger, At
<1>4. CASE MarkedReady
  BY <1>4, <1>a, <1>b, <1>c DEF MarkedReady, Goto, Blank, OnlyTrigger, At, Started, Unused, Threads
<1>5. ASSUME NEW n \in Jobs, CreateNode(n) PROVE OnlyTrigger'
  BY <1>5, <1>a, <1>b, <1>c DEF CreateNode, NewNode, OnlyTrigger, At, Started, Unused, Threads, TypeOK
<1>6. CASE Advance("trigger")
  <2>1. At("cancel", "start")
    BY <1>6, <1>a, <1>c DEF Advance, AdvanceRead, ReadNodes, CreateExecution, StartFails, SetNext,
       MarkRunning, EnqueueNode, Advanced, Return, Goto, At, Threads
  <2>2. frame["trigger"].at \in {"start", "creating", "marking", "advance", "starting", "done", "cut"}
        /\ (frame["trigger"].at = "starting" => frame["trigger"].todo = {})
    BY <2>1 DEF OnlyTrigger, At
  <2>3. CASE AdvanceRead("trigger")
    <3> DEFINE f == [frame["trigger"] EXCEPT !.at = "starting", !.nodes = nodes, !.todo = {}]
    <3>1. Startable(nodes) = {}
      BY <2>1, <2>3, NothingToStart DEF AdvanceRead
    <3>2. frame' = [frame EXCEPT !["trigger"] = f] /\ UNCHANGED <<edges, nodes, executions>>
      BY <2>3, <3>1 DEF AdvanceRead, ReadNodes
    <3>3. f.at = "starting" /\ f.todo = {}
      BY <1>c DEF Frame
    <3> HIDE DEF f
    <3>4. /\ frame'["trigger"] = f
          /\ \A t \in Threads \ {"trigger"} : frame'[t] = frame[t]
      BY <1>a, <1>c, <3>2
    <3>. QED BY <1>a, <1>b, <2>1, <3>2, <3>3, <3>4 DEF OnlyTrigger, At, Started, Unused, Threads
  <2>4. CASE Advanced("trigger")
    BY <2>4, <2>1, <1>a, <1>b, <1>c DEF Advanced, Return, Goto, Blank, OnlyTrigger, At, Started, Unused, Threads
  <2>5. ~CreateExecution("trigger") /\ ~StartFails("trigger")
        /\ ~MarkRunning("trigger") /\ ~EnqueueNode("trigger")
    BY <2>2 DEF CreateExecution, StartFails, SetNext, MarkRunning, EnqueueNode, At
  <2>. QED BY <1>6, <2>3, <2>4, <2>5 DEF Advance
<1>. QED BY <1>1, <1>2, <1>3, <1>4, <1>5, <1>6 DEF Trigger

(* ... and neither a worker nor the cancellation has anything to do. *)
LEMMA NoOneElse ==
    ASSUME TypeOK, OnlyTrigger, At("cancel", "start")
    PROVE  /\ ~Cancelling
           /\ \A x \in Executions : ~Complete(x) /\ ~Run(x) /\ ~QueueRetries(x)
           /\ \A t \in Threads \ {"trigger"} : ~CutOff(t)
<1>1. ~Cancelling /\ ~CutOff("cancel")
  BY DEF Cancelling, CancelReadNodes, CancelNode, SetNext, CancelRun, CutOff, At
<1>2. ASSUME NEW x \in Executions
      PROVE  ~Complete(x) /\ ~Run(x) /\ ~QueueRetries(x) /\ ~CutOff(x)
  <2>1. At(x, "start") /\ executions[x].state = "absent"
    BY DEF OnlyTrigger, Started, Unused
  <2>2. ~Advance(x)
    BY <2>1 DEF Advance, AdvanceRead, CreateExecution, StartFails, SetNext, MarkRunning, EnqueueNode, Advanced, At
  <2>3. ~Complete(x)
    BY <2>1, <2>2 DEF Complete, FindNode, SettleNode, CountNode, WriteCounters, ReadSkipped, SkipNode, SetNext,
       Skipped, FailRun, CheckEnd, EndRun, WriteRun, ReadRun, At
  <2>4. ~Run(x) /\ ~QueueRetries(x) /\ ~CutOff(x)
    BY <2>1 DEF Run, ExecutionEnds, EndsUnreported, QueueRetries, CutOff
  <2>. QED BY <2>3, <2>4
<1>. QED BY <1>1, <1>2 DEF Threads

LEMMA CutOffKeepsOnlyTrigger ==
    ASSUME TypeOK, OnlyTrigger, At("cancel", "start"), CutOff("trigger") PROVE OnlyTrigger'
<1>1. "trigger" # "cancel" /\ "trigger" \notin Executions /\ "trigger" \in Threads
  BY EngineAssumption DEF Threads
<1>2. frame["trigger"].at \notin {"created", "enqueue", "find", "settle"}
  BY DEF OnlyTrigger
<1>3. frame' = [frame EXCEPT !["trigger"] = Blank("cut")] /\ UNCHANGED <<edges, nodes, executions>>
  BY <1>2 DEF CutOff, InHand, Goto, At
<1>4. /\ frame'["trigger"].at = "cut" /\ \A t \in Threads \ {"trigger"} : frame'[t] = frame[t]
      /\ Roots' = Roots
  BY <1>1, <1>3 DEF TypeOK, Blank, Roots
<1>. QED BY <1>1, <1>3, <1>4 DEF OnlyTrigger, At, Started, Unused, Threads

(* No step takes the cancellation back to its start. *)
LEMMA CancelStarted ==
    ASSUME TypeOK, ~At("cancel", "start"), Next
    PROVE  ~At("cancel", "start")'
<1>a. "trigger" # "cancel" /\ "cancel" \notin Executions /\ "cancel" \in Threads
  BY EngineAssumption DEF Threads
<1>b. frame \in [Threads -> Frame] /\ frame["cancel"] \in Frame
  BY <1>a DEF TypeOK
<1>1. ASSUME NEW t \in Threads, t # "cancel", Advance(t) PROVE frame'["cancel"] = frame["cancel"]
  BY <1>1, <1>a, <1>b DEF Advance, AdvanceRead, ReadNodes, CreateExecution, StartFails, SetNext,
     MarkRunning, EnqueueNode, Advanced, Return, Goto
<1>2. CASE Trigger
  BY <1>2, <1>1, <1>a, <1>b DEF Trigger, CreateRun, Goto, ReadRoots, ReadNodes, MarkReady, SetNext, MarkedReady,
     CreateNode, At, Threads
<1>3. ASSUME NEW x \in Executions, Complete(x) \/ Run(x) \/ QueueRetries(x)
      PROVE  frame'["cancel"] = frame["cancel"]
  BY <1>3, <1>1, <1>a, <1>b DEF Complete, FindNode, SettleNode, CountNode, WriteCounters, ReadSkipped, SkipNode,
     SetNext, Skipped, FailRun, CheckEnd, EndRun, WriteRun, ReadRun, ReadNodes, Goto, Return,
     Run, ExecutionEnds, EndsUnreported, QueueRetries, Threads
<1>4. CASE CancelReadNodes
  <2> DEFINE f == [frame["cancel"] EXCEPT !.at = "cancelling", !.nodes = nodes, !.todo = NodesIn(nodes, Active)]
  <2>1. frame'["cancel"] = f
    BY <1>4, <1>a, <1>b DEF CancelReadNodes, ReadNodes
  <2>2. f.at = "cancelling"
    BY <1>b DEF Frame
  <2>. QED BY <2>1, <2>2 DEF At
<1>6. CASE CancelRun
  BY <1>6, <1>a, <1>b DEF CancelRun, Return, Goto, Blank, At
<1>7. ~CancelRead
  BY DEF CancelRead, ReadRun
<1>5. CASE CancelNode
  BY <1>5, <1>a, <1>b DEF CancelNode, SetNext, At, Frame
<1>8. ASSUME NEW t \in Threads, CutOff(t) PROVE ~At("cancel", "start")'
  <2>1. frame'["cancel"].at \in {frame["cancel"].at, "cut", "unreported"}
    BY <1>8, <1>a, <1>b DEF CutOff, Goto, Blank
  <2>. QED BY <2>1 DEF At
<1>. QED BY <1>2, <1>3, <1>4, <1>5, <1>6, <1>7, <1>8 DEF Next, Cancelling, At

LEMMA NextOnlyTrigger ==
    ASSUME TypeOK, OnlyTrigger, Next PROVE OnlyTrigger'
<1>1. CASE ~At("cancel", "start")
  BY <1>1, CancelStarted DEF OnlyTrigger
<1>2. CASE At("cancel", "start") /\ CancelRead
  <2>1. ~At("cancel", "start")'
    BY <1>2 DEF CancelRead, ReadRun, Blank, At, TypeOK, Threads
  <2>. QED BY <2>1 DEF OnlyTrigger
<1>3. CASE At("cancel", "start") /\ ~CancelRead
  BY <1>3, NoOneElse, TriggerKeepsOnlyTrigger, CutOffKeepsOnlyTrigger DEF Next
<1>. QED BY <1>1, <1>2, <1>3

-----------------------------------------------------------------------------
THEOREM NextIInv == IInv /\ [Next]_vars => IInv'
<1> SUFFICES ASSUME IInv, [Next]_vars PROVE IInv'
  OBVIOUS
<1>1. CASE Next
  <2>1. TypeOK'
    BY <1>1, TriggerTyped, CompleteTyped, CancelTyped, ExecutionTyped, CutOffTyped DEF IInv, Ties, Next
  <2>2. Ties'
    BY <1>1, TriggerKeepsTies, CompleteKeepsTies, CancelKeepsTies, RunKeepsTies,
       QueueRetriesKeepsTies, CutOffKeepsTies DEF IInv, Next
  <2>3. OnlyTrigger'
    BY <1>1, NextOnlyTrigger DEF IInv
  <2>. QED BY <2>1, <2>2, <2>3 DEF IInv
<1>2. CASE UNCHANGED vars
  <2> USE <1>2 DEF vars
  <2>1. TypeOK' /\ RowsOwned' /\ HandedOver' /\ OneHand' /\ Settling' /\ OnlyFailuresForget'
    BY DEF IInv, Ties, TypeOK, RowsOwned, Owned, Named, Kept, Leaving, HandedOver, OneHand, Settling,
       OnlyFailuresForget, Owed, Forgotten, InFlight, At, Started, Unused
  <2>2. OnlyTrigger'
    BY DEF IInv, OnlyTrigger, At, Started, Unused, Roots
  <2>. QED BY <2>1, <2>2 DEF IInv, Ties
<1>. QED BY <1>1, <1>2

(* InertUntilCancelled holds of every run of every DAG: trigger_dag makes the
   roots "ready", advance_dag_run starts "waiting" nodes only, and each of those
   waits for an upstream that is not over. *)
THEOREM NothingStartsByItself == Spec => []InertUntilCancelled
<1>1. IInv => InertUntilCancelled
  BY DEF IInv, OnlyTrigger, InertUntilCancelled
<1>. QED BY <1>1, InitIInv, NextIInv, PTL DEF Spec

(* OnlyFailuresForget holds for any number of jobs, executions and workers, any
   policy and any moment at which a thread is cut off: of a node that stays
   running, the execution could not be enqueued or its end was not reported.  A
   row written back whole from a stale copy is never the reason. *)
THEOREM NodesAreLeftByFailures == Spec => []OnlyFailuresForget
<1>1. IInv => OnlyFailuresForget
  BY DEF IInv, Ties
<1>. QED BY <1>1, InitIInv, NextIInv, PTL DEF Spec

-----------------------------------------------------------------------------
(* Any number of slots: what a thread chooses, it may start, as long as no other
   thread is choosing or starting meanwhile. *)

Early == {"start", "creating", "marking"}

(* No two nodes have been created at one time. *)
NodesCreated == {m \in Jobs : created[m] # 0}
CreatedInOrder ==
    /\ \A n \in Jobs : /\ nodes[n].status = "absent" => created[n] = 0
                       /\ nodes[n].status = "waiting" => created[n] # 0
                       /\ created[n] <= Cardinality(NodesCreated)
    /\ \A m, n \in NodesCreated : created[m] = created[n] => m = n

(* A node leaves "waiting" with its first execution, for good. *)
NeverWaitsAgain ==
    \A x \in Kept :
        /\ executions[x].job \in Jobs
        /\ nodes[executions[x].job].status \notin {"absent", "waiting"} \/ Leaving(x)

(* The nodes a thread still has to start have their slots
   reserved: with those that run they are not more than the limit, all they
   depend on is over, nothing that depends on them runs, and no execution is
   kept for them but the one in the thread's hands. *)
Reserved(t) ==
    LET S == frame[t].todo IN
    /\ S # {}
    /\ \A n \in S, e \in edges :
        /\ e.downstream = n => e.upstream \notin S /\ nodes[e.upstream].status \in Terminal
        /\ e.upstream = n => nodes[e.downstream].status # "running"
    /\ Cardinality(NodesIn(nodes, {"running"}) \cup S) <= MaxConcurrentNodes
    /\ \A x \in Kept : executions[x].job \in S => ~At(t, "starting") /\ x = frame[t].execution
    /\ ~At(t, "starting") => executions[frame[t].execution].job = Head(t)

SlotsInv ==
    /\ CreatedInOrder /\ NeverWaitsAgain
    /\ frame["trigger"].at \in Early =>
        /\ Started = {} /\ \A x \in Executions : At(x, "start")
        /\ \A t \in Threads : ~Starting(t)
    /\ \A t \in Threads : Starting(t) => Reserved(t)
    /\ RunsInOrder

LEMMA SlotsInit == Init => SlotsInv
<1> SUFFICES ASSUME Init PROVE SlotsInv
  OBVIOUS
<1> USE EngineAssumption
<1>1. /\ \A t \in Threads : frame[t].at = "start"
      /\ \A x \in Executions : executions[x].state = "absent"
      /\ \A n \in Jobs : nodes[n].status = "absent" /\ created[n] = 0
  BY DEF Init, Blank, NewNode, NewExecution
<1>2. Started = {} /\ NodesCreated = {} /\ NodesIn(nodes, {"running"}) = {}
  BY <1>1 DEF Started, Unused, NodesCreated, NodesIn
<1>3. CreatedInOrder
  BY <1>1, <1>2, FS_EmptySet DEF CreatedInOrder
<1>4. NeverWaitsAgain /\ StartedOnce /\ \A t \in Threads : ~Starting(t) /\ At(t, "start")
  BY <1>1, <1>2 DEF NeverWaitsAgain, StartedOnce, Kept, Starting, At
<1>5. OrderIsKept
  BY <1>1, GraphFacts, InitIInv DEF OrderIsKept, IInv
<1>6. Cardinality(NodesIn(nodes, {"running"})) <= MaxConcurrentNodes
  BY <1>2, FS_EmptySet
<1>. QED BY <1>2, <1>3, <1>4, <1>5, <1>6 DEF SlotsInv, RunsInOrder, Threads

(* Fewer nodes need no more slots. *)
LEMMA Fewer ==
    ASSUME NEW S \in SUBSET Jobs, NEW T \in SUBSET S, Cardinality(S) <= MaxConcurrentNodes
    PROVE  Cardinality(T) <= MaxConcurrentNodes
<1>1. IsFiniteSet(S)
  BY EngineAssumption, FS_Subset
<1>2. Cardinality(T) <= Cardinality(S) /\ Cardinality(T) \in Nat /\ Cardinality(S) \in Nat
  BY <1>1, FS_Subset, FS_CardinalityType
<1>. QED BY <1>2, EngineAssumption

LEMMA SameHead ==
    ASSUME NEW t, frame'[t].todo = frame[t].todo, UNCHANGED created
    PROVE  Head(t)' = Head(t)
BY DEF Head

(* A step that chooses nothing: a thread moves, keeps none of its nodes or only
   some that were never started, and the nodes it writes are over. *)
LEMMA QuietKeepsSlots ==
    ASSUME IInv, SlotsInv, NEW t \in Threads, NEW f,
           frame' = [frame EXCEPT ![t] = f], UNCHANGED <<created, edges>>,
           \A n \in Jobs : nodes'[n] = nodes[n] \/ nodes'[n].status \in Terminal,
           Started' = Started, Kept' \subseteq Kept,
           \A x \in Executions : executions'[x].job = executions[x].job,
           At(t, "created") => frame[t].execution \notin Kept',
           f.at \notin {"created", "enqueue"},
           f.at = "starting" /\ f.todo # {} =>
               /\ Starting(t) /\ f.todo \subseteq frame[t].todo
               /\ \A x \in Kept : executions[x].job \notin f.todo,
           t = "trigger" /\ f.at \in Early => frame[t].at \in Early,
           t \in Executions /\ At(t, "start") => Started # {} \/ f.at = "start"
    PROVE  SlotsInv'
<1>1. /\ frame'[t] = f /\ \A u \in Threads \ {t} : frame'[u] = frame[u]
      /\ NodesCreated' = NodesCreated /\ Kept \subseteq Executions
  BY DEF IInv, TypeOK, NodesCreated, Started, Kept
<1>2. \A n \in Jobs : /\ nodes'[n].status = "running" => nodes[n].status = "running"
                      /\ nodes'[n].status \in {"absent", "waiting"} => nodes'[n] = nodes[n]
                      /\ nodes[n].status \in Terminal => nodes'[n].status \in Terminal
  BY DEF Terminal
<1>3. NodesIn(nodes, {"running"})' \subseteq NodesIn(nodes, {"running"})
  BY <1>2 DEF NodesIn
<1>4. CreatedInOrder'
  BY <1>1, <1>2 DEF SlotsInv, CreatedInOrder
<1>5. NeverWaitsAgain'
  <2>1. \A x \in Kept' : Leaving(x) => Leaving(x)'
    BY <1>1 DEF Leaving, At
  <2>. QED BY <1>1, <1>2, <2>1 DEF SlotsInv, NeverWaitsAgain
<1>6. \A u \in Threads : Starting(u)' => Starting(u)
  BY <1>1 DEF Starting, At
<1>7. frame'["trigger"].at \in Early =>
        /\ Started' = {} /\ \A x \in Executions : At(x, "start")'
        /\ \A u \in Threads : ~Starting(u)'
  <2>1. SUFFICES ASSUME frame'["trigger"].at \in Early
                 PROVE  /\ frame["trigger"].at \in Early
                        /\ t \in Executions /\ At(t, "start") /\ Started = {} => f.at = "start"
    BY <1>1, <1>6 DEF SlotsInv, At, Threads
  <2>. QED BY <1>1, <2>1 DEF Threads
<1>8. ASSUME NEW u \in Threads, Starting(u)' PROVE Reserved(u)'
  <2>1. /\ frame'[u].todo # {} /\ frame'[u].todo \subseteq frame[u].todo
        /\ Reserved(u) /\ frame[u].todo \subseteq Jobs
        /\ u = t => frame'[u].at = "starting" /\ \A x \in Kept : executions[x].job \notin frame'[u].todo
    BY <1>1, <1>6, <1>8 DEF SlotsInv, Starting, Reserved, At, IInv, TypeOK, Frame
  <2>2. Cardinality(NodesIn(nodes, {"running"})' \cup frame'[u].todo) <= MaxConcurrentNodes
    <3>1. NodesIn(nodes, {"running"}) \cup frame[u].todo \subseteq Jobs
      BY <2>1 DEF NodesIn
    <3>. QED BY <1>3, <2>1, <3>1, Fewer DEF Reserved
  <2>3. \A n \in frame'[u].todo, e \in edges :
          /\ e.downstream = n => e.upstream \notin frame'[u].todo /\ nodes'[e.upstream].status \in Terminal
          /\ e.upstream = n => nodes'[e.downstream].status # "running"
    BY <1>2, <2>1, GraphFacts DEF Reserved, IInv
  <2>4. CASE u = t
    <3>1. \A x \in Kept' : executions'[x].job \notin frame'[u].todo
      BY <1>1, <2>1, <2>4
    <3>2. At(u, "starting")' /\ frame'[u].todo # {}
      BY <2>1, <2>4 DEF At
    <3>. QED BY <2>2, <2>3, <3>1, <3>2 DEF Reserved
  <2>5. CASE u # t
    <3>1. frame'[u] = frame[u] /\ Head(u)' = Head(u)
      BY <1>1, <2>5, SameHead
    <3>2. \A x \in Kept' : executions'[x].job \in frame'[u].todo =>
            ~At(u, "starting")' /\ x = frame'[u].execution
      BY <1>1, <2>1, <3>1 DEF Reserved, At
    <3>3. ~At(u, "starting")' => executions'[frame'[u].execution].job = Head(u)'
      <4>1. ~At(u, "starting")' => frame[u].execution \in Executions
        BY <1>6, <1>8, <3>1 DEF Starting, At, IInv, Ties, HandedOver
      <4>. QED BY <2>1, <3>1, <4>1 DEF Reserved, At
    <3>. QED BY <2>1, <2>2, <2>3, <3>2, <3>3 DEF Reserved
  <2>. QED BY <2>4, <2>5
<1>9. RunsInOrder'
  <2>1. StartedOnce'
    BY <1>1 DEF SlotsInv, RunsInOrder, StartedOnce
  <2>2. OrderIsKept'
    BY <1>2, GraphFacts DEF IInv, SlotsInv, RunsInOrder, OrderIsKept
  <2>3. Cardinality(NodesIn(nodes, {"running"}))' <= MaxConcurrentNodes
    <3>1. NodesIn(nodes, {"running"}) \subseteq Jobs
      BY DEF NodesIn
    <3>. QED BY <1>3, <3>1, Fewer DEF SlotsInv, RunsInOrder
  <2>. QED BY <2>1, <2>2, <2>3 DEF RunsInOrder
<1>. QED BY <1>4, <1>5, <1>7, <1>8, <1>9 DEF SlotsInv

(* A thread may go where it starts nothing. *)
MayMove(t, label) ==
    /\ ~At(t, "created") /\ label \notin {"created", "enqueue"}
    /\ t = "trigger" /\ label \in Early => frame[t].at \in Early
    /\ t \in Executions => ~At(t, "start")

LEMMA GotoKeepsSlots ==
    ASSUME IInv, SlotsInv, NEW t \in Threads, NEW label, MayMove(t, label), Goto(t, label),
           UNCHANGED <<nodes, created, edges, executions>>
    PROVE  SlotsInv'
<1>1. Blank(label).at = label /\ Blank(label).todo = {}
  BY DEF Blank
<1>2. Started' = Started /\ Kept' = Kept
  BY DEF Started, Unused, Kept
<1>. QED BY <1>1, <1>2, QuietKeepsSlots DEF Goto, MayMove, At

LEMMA ReadNodesKeepsSlots ==
    ASSUME IInv, SlotsInv, NEW t \in Threads, NEW label, NEW S, MayMove(t, label),
           label = "starting" => S = {},
           ReadNodes(t, label, S), UNCHANGED <<nodes, created, edges, executions>>
    PROVE  SlotsInv'
<1> DEFINE f == [frame[t] EXCEPT !.at = label, !.nodes = nodes, !.todo = S]
<1>1. frame[t] \in Frame
  BY DEF IInv, TypeOK
<1>2. f.at = label /\ f.todo = S
  BY <1>1 DEF Frame
<1>3. frame' = [frame EXCEPT ![t] = f] /\ Started' = Started /\ Kept' = Kept
  BY DEF ReadNodes, Started, Unused, Kept
<1> HIDE DEF f
<1>. QED BY <1>2, <1>3, QuietKeepsSlots DEF MayMove, At

LEMMA ReadRunKeepsSlots ==
    ASSUME IInv, SlotsInv, NEW t \in Threads, NEW from, NEW to, NEW row, MayMove(t, to),
           to # "starting", ReadRun(t, from, to, row)
    PROVE  SlotsInv'
<1> DEFINE f == [Blank(to) EXCEPT !.run = row]
<1>1. f.at = to
  BY DEF Blank
<1>2. /\ frame' = [frame EXCEPT ![t] = f] /\ UNCHANGED <<edges, nodes, created, executions>>
      /\ Started' = Started /\ Kept' = Kept
  BY DEF ReadRun, Started, Unused, Kept
<1> HIDE DEF f
<1>. QED BY <1>1, <1>2, QuietKeepsSlots DEF MayMove, At

(* A loop that ends nodes, and a node that could not be started *)
LEMMA SetNextKeepsSlots ==
    ASSUME IInv, SlotsInv, NEW t \in Threads, NEW label, NEW status \in Terminal,
           label \notin {"start", "created", "enqueue"} \cup Early, SetNext(t, label, status)
    PROVE  SlotsInv'
<1> DEFINE h == Head(t)
           f == [frame[t] EXCEPT !.todo = Left(t)]
<1>1. /\ frame[t] \in Frame /\ frame[t].at = label /\ h \in frame[t].todo
      /\ frame[t].todo # {}
  BY HeadInTodo DEF IInv, TypeOK, SetNext, At
<1>2. h \in Jobs /\ frame[t].nodes[h] \in Node
  BY <1>1 DEF Frame
<1>3. /\ nodes' = [nodes EXCEPT ![h] = [frame[t].nodes[h] EXCEPT !.status = status]]
      /\ frame' = [frame EXCEPT ![t] = f] /\ UNCHANGED <<edges, created, executions>>
  BY DEF SetNext, WriteNode
<1>4. f.at = label /\ f.todo = frame[t].todo \ {h}
  BY <1>1 DEF Frame, Left
<1> HIDE DEF h, f
<1>5. \A n \in Jobs : nodes'[n] = nodes[n] \/ nodes'[n].status \in Terminal
  BY <1>2, <1>3 DEF IInv, TypeOK, Node
<1>6. label = "starting" =>
        Starting(t) /\ \A x \in Kept : executions[x].job \notin frame[t].todo
  BY <1>1 DEF SlotsInv, Starting, Reserved, At
<1>7. Started' = Started /\ Kept' = Kept
  BY <1>3 DEF Started, Unused, Kept
<1>. QED BY <1>1, <1>3, <1>4, <1>5, <1>6, <1>7, QuietKeepsSlots DEF At

LEMMA SettleKeepsSlots ==
    ASSUME IInv, SlotsInv, NEW x \in Executions, SettleNode(x)
    PROVE  SlotsInv'
<1> DEFINE j == executions[x].job
           f == Blank("count")
<1>1. /\ frame[x].at = "settle" /\ x \in Threads /\ x # "trigger" /\ frame[x] \in Frame
      /\ frame[x].todo = {j} /\ executions[x].outcome # "none"
      /\ executions[x] \in ExecutionRow
  BY EngineAssumption DEF SettleNode, IInv, Ties, Settling, TypeOK, At, Threads
<1>2. Head(x) = j /\ j \in Jobs
  BY <1>1, HeadInTodo DEF IInv, Frame
<1>3. f.at = "count"
  BY DEF Blank
<1>4. /\ nodes' = [nodes EXCEPT ![j] = [frame[x].nodes[j] EXCEPT !.status = Outcome(x)]]
      /\ frame' = [frame EXCEPT ![x] = f] /\ UNCHANGED <<edges, created, executions>>
  BY <1>2 DEF SettleNode, WriteNode, Goto
<1>5. frame[x].nodes[j] \in Node /\ Outcome(x) \in Terminal
  BY <1>1, <1>2 DEF Frame, Outcome, ExecutionRow, Terminal
<1>6. Started' = Started /\ Kept' = Kept
  BY <1>4 DEF Started, Unused, Kept
<1> HIDE DEF f, j
<1>7. \A n \in Jobs : nodes'[n] = nodes[n] \/ nodes'[n].status \in Terminal
  BY <1>2, <1>4, <1>5 DEF IInv, TypeOK, Node
<1>. QED BY <1>1, <1>3, <1>4, <1>6, <1>7, QuietKeepsSlots DEF At

(* The trigger creates the nodes and marks the roots before anything starts. *)
LEMMA EarlyKeepsSlots ==
    ASSUME IInv, SlotsInv, NEW f, frame["trigger"].at \in Early, f.at \in Early,
           frame' = [frame EXCEPT !["trigger"] = f],
           UNCHANGED <<edges, executions>>, CreatedInOrder',
           \A n \in Jobs : nodes'[n] = nodes[n] \/ nodes'[n].status \in {"waiting", "ready"}
    PROVE  SlotsInv'
<1>1. /\ "trigger" \in Threads /\ "trigger" \notin Executions
      /\ frame'["trigger"] = f /\ \A u \in Threads \ {"trigger"} : frame'[u] = frame[u]
  BY EngineAssumption DEF IInv, TypeOK, Threads
<1>2. Started = {} /\ Started' = {}
  BY DEF SlotsInv, Started, Unused
<1>3. \A x \in Executions : At(x, "start")'
  BY <1>1 DEF SlotsInv, At, Threads
<1>4. \A u \in Threads : ~Starting(u)'
  BY <1>1 DEF SlotsInv, Starting, At, Early
<1>5. \A n \in Jobs : nodes'[n].status # "running"
  BY <1>2 DEF IInv, Ties, OnlyFailuresForget
<1>6. NodesIn(nodes, {"running"})' = {}
  BY <1>5 DEF NodesIn
<1>7. OrderIsKept'
  BY <1>5, GraphFacts DEF IInv, OrderIsKept
<1>8. RunsInOrder'
  BY <1>2, <1>6, <1>7, FS_EmptySet, EngineAssumption DEF RunsInOrder, StartedOnce, Kept
<1>. QED BY <1>2, <1>3, <1>4, <1>8 DEF SlotsInv, NeverWaitsAgain, Kept

(* The nodes are created one after the other, each with a time of its own. *)
LEMMA CreateNodeKeepsOrder ==
    ASSUME TypeOK, CreatedInOrder, NEW n \in Jobs, CreateNode(n)
    PROVE  /\ CreatedInOrder' /\ frame["trigger"].at = "creating"
           /\ frame' = [frame EXCEPT !["trigger"] = frame["trigger"]]
           /\ \A m \in Jobs : nodes'[m] = nodes[m] \/ nodes'[m].status = "waiting"
<1> DEFINE c == Cardinality(NodesCreated)
<1>1. /\ frame["trigger"].at = "creating" /\ nodes[n].status = "absent"
      /\ nodes' = [nodes EXCEPT ![n] = NewNode("waiting")]
      /\ created' = [created EXCEPT ![n] = c + 1] /\ UNCHANGED <<edges, executions, frame>>
  BY DEF CreateNode, At, NodesCreated
<1>2. created[n] = 0 /\ created \in [Jobs -> Nat] /\ nodes \in [Jobs -> Node]
  BY <1>1 DEF TypeOK, CreatedInOrder
<1>3. /\ IsFiniteSet(NodesCreated) /\ c \in Nat /\ n \notin NodesCreated
      /\ \A m \in Jobs : created[m] <= c
  BY <1>2, EngineAssumption, FS_Subset, FS_CardinalityType DEF NodesCreated, CreatedInOrder
<1>4. /\ \A m \in Jobs \ {n} : created'[m] = created[m] /\ nodes'[m] = nodes[m]
      /\ created'[n] = c + 1 /\ nodes'[n].status = "waiting"
  BY <1>1, <1>2 DEF NewNode
<1>5. NodesCreated' = NodesCreated \cup {n}
  BY <1>2, <1>3, <1>4 DEF NodesCreated
<1>6. Cardinality(NodesCreated)' = c + 1
  BY <1>3, <1>5, FS_AddElement
<1>7. CreatedInOrder'
  <2>1. \A m \in Jobs : created[m] \in Nat
    BY <1>2
  <2>2. \A m \in Jobs : /\ nodes'[m].status = "absent" => created'[m] = 0
                        /\ nodes'[m].status = "waiting" => created'[m] # 0
    BY <1>3, <1>4 DEF CreatedInOrder
  <2>3. \A m \in Jobs : created'[m] <= c + 1
    BY <2>1, <1>3, <1>4
  <2>4. ASSUME NEW l \in NodesCreated', NEW m \in NodesCreated', created'[l] = created'[m] PROVE l = m
    BY <2>1, <2>4, <1>3, <1>4, <1>5 DEF CreatedInOrder, NodesCreated
  <2>. QED BY <2>2, <2>3, <2>4, <1>6 DEF CreatedInOrder
<1>. QED BY <1>1, <1>4, <1>7 DEF TypeOK

LEMMA CreateNodeKeepsSlots ==
    ASSUME IInv, SlotsInv, NEW n \in Jobs, CreateNode(n) PROVE SlotsInv'
<1>1. /\ CreatedInOrder' /\ frame["trigger"].at \in Early
      /\ frame' = [frame EXCEPT !["trigger"] = frame["trigger"]]
      /\ \A m \in Jobs : nodes'[m] = nodes[m] \/ nodes'[m].status = "waiting"
  BY CreateNodeKeepsOrder DEF IInv, SlotsInv, Early
<1>. QED BY <1>1, EarlyKeepsSlots DEF CreateNode

LEMMA MarkReadyKeepsSlots ==
    ASSUME IInv, SlotsInv, MarkReady PROVE SlotsInv'
<1> DEFINE h == Head("trigger")
           f == [frame["trigger"] EXCEPT !.todo = Left("trigger")]
<1>1. /\ frame["trigger"] \in Frame /\ frame["trigger"].at = "marking"
      /\ h \in frame["trigger"].todo
  BY HeadInTodo DEF IInv, TypeOK, MarkReady, SetNext, At, Threads
<1>2. h \in Jobs /\ frame["trigger"].nodes[h] \in Node
  BY <1>1 DEF Frame
<1>3. /\ nodes' = [nodes EXCEPT ![h] = [frame["trigger"].nodes[h] EXCEPT !.status = "ready"]]
      /\ frame' = [frame EXCEPT !["trigger"] = f] /\ UNCHANGED <<edges, created, executions>>
  BY DEF MarkReady, SetNext, WriteNode
<1>4. f.at \in Early /\ frame["trigger"].at \in Early
  BY <1>1 DEF Frame, Early
<1> HIDE DEF h, f
<1>5. \A n \in Jobs : nodes'[n] = nodes[n] \/ nodes'[n].status = "ready"
  BY <1>2, <1>3 DEF IInv, TypeOK, Node
<1>6. CreatedInOrder'
  BY <1>3, <1>5 DEF SlotsInv, CreatedInOrder, NodesCreated
<1>. QED BY <1>3, <1>4, <1>5, <1>6, EarlyKeepsSlots

(* Of the nodes that are chosen, all but the last to be created come before it,
   and fewer than the free slots do. *)
LEMMA ChoiceFits ==
    ASSUME TypeOK, CreatedInOrder, Startable(nodes) # {}
    PROVE  Cardinality(NodesIn(nodes, {"running"}) \cup Startable(nodes)) <= MaxConcurrentNodes
<1> DEFINE running == NodesIn(nodes, {"running"})
           ready == {n \in NodesIn(nodes, {"waiting"}) : IsNodeReady(nodes, n)}
           before(n) == {m \in ready : created[m] < created[n]}
           S == Startable(nodes)
           c == Cardinality(NodesCreated)
           V == {c - created[n] : n \in S}
<1>1. /\ S \subseteq ready /\ ready \subseteq Jobs /\ running \subseteq Jobs
      /\ \A n \in S : Cardinality(before(n)) < MaxConcurrentNodes - Cardinality(running)
      /\ \A n \in ready : nodes[n].status = "waiting"
  BY DEF Startable, Slots, NodesIn
<1>2. IsFiniteSet(running) /\ IsFiniteSet(S) /\ \A n : IsFiniteSet(before(n))
  BY <1>1, EngineAssumption, FS_Subset
<1>3. /\ c \in Nat /\ \A n \in Jobs : created[n] \in Nat /\ created[n] <= c
      /\ \A n \in ready : n \in NodesCreated
  BY <1>1, CardinalityOfJobs DEF NodesCreated, TypeOK, CreatedInOrder
<1>4. PICK m \in S : \A n \in S : created[n] <= created[m]
  <2>1. V \subseteq Nat /\ V # {}
    BY <1>1, <1>3
  <2>2. PICK v \in V : \A w \in V : ~(<<w, v>> \in OpToRel(<, Nat))
    BY <2>1, WFMin, NatLessThanWellFounded
  <2>3. PICK m \in S : v = c - created[m]
    BY <2>2
  <2>4. ASSUME NEW n \in S PROVE created[n] <= created[m]
    <3>1. c - created[n] \in V /\ c - created[n] \in Nat /\ v \in Nat
      BY <2>1
    <3>2. ~(c - created[n] < v)
      BY <2>2, <3>1 DEF OpToRel
    <3>. QED BY <1>1, <1>3, <2>3, <3>2
  <2>. QED BY <2>4
<1>5. S \subseteq before(m) \cup {m}
  <2> SUFFICES ASSUME NEW n \in S, n # m PROVE created[n] < created[m]
    BY <1>1
  <2>1. created[n] # created[m]
    BY <1>1, <1>3 DEF CreatedInOrder
  <2>. QED BY <1>1, <1>3, <1>4, <2>1
<1> DEFINE B == before(m)
<1> HIDE DEF running, ready, before, S, V, c
<1>6. /\ IsFiniteSet(B \cup {m}) /\ Cardinality(B \cup {m}) <= Cardinality(B) + 1
      /\ Cardinality(B) \in Nat /\ Cardinality(B \cup {m}) \in Nat
  <2>1. IsFiniteSet(B)
    BY <1>2
  <2>. HIDE DEF B
  <2>2. IsFiniteSet(B \cup {m}) /\ Cardinality(B) \in Nat /\ Cardinality(B \cup {m}) \in Nat
    BY <2>1, FS_AddElement, FS_CardinalityType
  <2>. QED BY <2>1, <2>2, FS_AddElement
<1>7. Cardinality(S) <= Cardinality(B) + 1 /\ Cardinality(S) \in Nat
  <2>1. Cardinality(S) <= Cardinality(B \cup {m}) /\ Cardinality(S) \in Nat
    BY <1>2, <1>5, <1>6, FS_Subset, FS_CardinalityType
  <2>. QED BY <1>6, <2>1
<1>8. /\ Cardinality(running \cup S) <= Cardinality(running) + Cardinality(S)
      /\ Cardinality(running) \in Nat /\ Cardinality(running \cup S) \in Nat
  <2>1. Cardinality(running \cup S) = Cardinality(running) + Cardinality(S) - Cardinality(running \cap S)
    BY <1>2, FS_Union
  <2>2. /\ Cardinality(running) \in Nat /\ Cardinality(S) \in Nat
        /\ Cardinality(running \cup S) \in Nat /\ Cardinality(running \cap S) \in Nat
    BY <1>2, FS_Union, FS_Intersection, FS_CardinalityType
  <2>. QED BY <2>1, <2>2
<1>9. Cardinality(B) < MaxConcurrentNodes - Cardinality(running)
  BY <1>1, <1>4
<1>10. Cardinality(running \cup S) <= MaxConcurrentNodes
  BY <1>6, <1>7, <1>8, <1>9, EngineAssumption
<1>. QED BY <1>10 DEF running, S

(* A thread that advances the run reserves the slots, as nobody else is about
   to use them. *)
LEMMA AdvanceReadKeepsSlots ==
    ASSUME IInv, SlotsInv, ~AdvancesMeet', NEW t \in Threads \ {"cancel"}, AdvanceRead(t)
    PROVE  SlotsInv'
<1> DEFINE S == Startable(nodes)
           f == [frame[t] EXCEPT !.at = "starting", !.nodes = nodes, !.todo = S]
<1>1. /\ At(t, "advance") /\ frame[t] \in Frame
      /\ ReadNodes(t, "starting", S) /\ UNCHANGED <<nodes, created, edges, executions>>
  BY DEF AdvanceRead, IInv, TypeOK
<1>2. frame["trigger"].at \notin Early
  BY <1>1 DEF SlotsInv, Threads, At, Early
<1>3. CASE S = {}
  <2>1. MayMove(t, "starting")
    BY <1>1 DEF MayMove, At, Early
  <2>. QED BY <1>1, <1>3, <2>1, ReadNodesKeepsSlots
<1>4. CASE S # {}
  <2>1. f.at = "starting" /\ f.todo = S
    BY <1>1 DEF Frame
  <2>2. /\ frame'[t] = f /\ \A u \in Threads \ {t} : frame'[u] = frame[u]
        /\ Started' = Started /\ Kept' = Kept /\ NodesCreated' = NodesCreated
    BY <1>1 DEF ReadNodes, IInv, TypeOK, Started, Unused, Kept, NodesCreated
  <2>3. /\ S \subseteq Jobs /\ \A n \in S : nodes[n].status = "waiting" /\ IsNodeReady(nodes, n)
    BY DEF Startable, NodesIn
  <2> HIDE DEF f, S
  <2>4. Starting(t)' /\ \A u \in Threads \ {t} : ~Starting(u)' /\ ~Starting(u)
    <3>1. Starting(t)'
      BY <1>4, <2>1, <2>2 DEF Starting, At
    <3>2. \A u \in Threads \ {t} : ~Starting(u)'
      BY <3>1 DEF AdvancesMeet
    <3>. QED BY <2>2, <3>1, <3>2 DEF Starting, At
  <2>5. \A x : ~Leaving(x)
    BY <1>1, <2>4 DEF Leaving, Starting, At
  <2>6. NeverWaitsAgain'
    BY <1>1, <2>2, <2>5 DEF SlotsInv, NeverWaitsAgain
  <2>7. Reserved(t)'
    <3>1. \A n \in S, e \in edges :
            /\ e.downstream = n => e.upstream \notin S /\ nodes[e.upstream].status \in Terminal
            /\ e.upstream = n => nodes[e.downstream].status # "running"
      <4> SUFFICES ASSUME NEW n \in S, NEW e \in edges
                   PROVE  /\ e.downstream = n => e.upstream \notin S /\ nodes[e.upstream].status \in Terminal
                          /\ e.upstream = n => nodes[e.downstream].status # "running"
        OBVIOUS
      <4>1. e.downstream = n => nodes[e.upstream].status \in Terminal
        BY <2>3 DEF IsNodeReady, Satisfied, Terminal
      <4>2. "waiting" \notin Terminal
        BY DEF Terminal
      <4>. QED BY <2>3, <4>1, <4>2 DEF SlotsInv, RunsInOrder, OrderIsKept
    <3>2. Cardinality(NodesIn(nodes, {"running"}) \cup S) <= MaxConcurrentNodes
      BY <1>4, ChoiceFits DEF S, IInv, SlotsInv
    <3>3. \A x \in Kept : executions[x].job \notin S
      BY <2>3, <2>5 DEF SlotsInv, NeverWaitsAgain
    <3>4. NodesIn(nodes, {"running"})' = NodesIn(nodes, {"running"})
      BY <1>1 DEF NodesIn
    <3>. QED BY <1>1, <1>4, <2>1, <2>2, <3>1, <3>2, <3>3, <3>4 DEF Reserved, At
  <2>8. CreatedInOrder' /\ RunsInOrder'
    BY <1>1, <2>2 DEF SlotsInv, CreatedInOrder, RunsInOrder, StartedOnce, OrderIsKept, NodesIn
  <2>9. frame'["trigger"].at \notin Early
    BY <1>2, <2>1, <2>2 DEF Threads, Early
  <2>. QED BY <2>4, <2>6, <2>7, <2>8, <2>9 DEF SlotsInv
<1>. QED BY <1>3, <1>4

(* Only one thread at a time starts nodes. *)
LEMMA OnlyOneStarts ==
    ASSUME ~AdvancesMeet, NEW t \in Threads, Starting(t)
    PROVE  \A u \in Threads \ {t} : ~Starting(u)
BY DEF AdvancesMeet

LEMMA CreateExecutionKeepsSlots ==
    ASSUME IInv, SlotsInv, ~AdvancesMeet, NEW t \in Threads, CreateExecution(t)
    PROVE  SlotsInv'
<1>1. /\ At(t, "starting") /\ frame[t].todo # {} /\ Starting(t) /\ Reserved(t)
      /\ frame[t] \in Frame /\ UNCHANGED <<edges, nodes, created>>
  BY DEF CreateExecution, Starting, SlotsInv, IInv, TypeOK
<1> DEFINE F(x) == [frame[t] EXCEPT !.at = "created", !.execution = x]
           E(x) == [executions[x] EXCEPT !.state = "created", !.job = Head(t)]
<1>2. PICK x \in Unused : /\ executions' = [executions EXCEPT ![x] = E(x)]
                          /\ frame' = [frame EXCEPT ![t] = F(x)]
  BY DEF CreateExecution
<1> DEFINE f == F(x)
           e == E(x)
<1>3. /\ f.at = "created" /\ f.execution = x /\ f.todo = frame[t].todo
      /\ e.state = "created" /\ e.job = Head(t)
  BY <1>1 DEF IInv, TypeOK, Frame, ExecutionRow, Unused
<1>4. /\ frame'[t] = f /\ \A u \in Threads \ {t} : frame'[u] = frame[u]
      /\ executions'[x] = e /\ \A y \in Executions \ {x} : executions'[y] = executions[y]
  BY <1>2 DEF IInv, TypeOK, Unused
<1> HIDE DEF f, e, F, E
<1>5. /\ x \in Executions /\ x \notin Kept /\ Kept' = Kept \cup {x}
      /\ Kept \subseteq Executions
  BY <1>3, <1>4 DEF Started, Unused, Kept
<1>6. Head(t) \in frame[t].todo /\ Head(t) \in Jobs /\ Head(t)' = Head(t)
  BY <1>1, <1>3, <1>4, HeadInTodo, SameHead DEF IInv, Frame
<1>7. \A u \in Threads \ {t} : ~Starting(u) /\ ~Starting(u)'
  BY <1>1, <1>4, OnlyOneStarts DEF Starting, At
<1>8. \A y : ~Leaving(y)
  BY <1>1, <1>7 DEF Leaving, Starting, At
<1>9. NeverWaitsAgain'
  <2>1. Leaving(x)'
    BY <1>3, <1>4 DEF Leaving, At
  <2>2. \A y \in Kept : /\ executions'[y].job \in Jobs
                        /\ nodes'[executions'[y].job].status \notin {"absent", "waiting"}
    BY <1>1, <1>4, <1>5, <1>8 DEF SlotsInv, NeverWaitsAgain
  <2>. QED BY <1>3, <1>4, <1>5, <1>6, <2>1, <2>2 DEF NeverWaitsAgain
<1>10. Reserved(t)'
  <2>1. \A y \in Kept : executions'[y].job \notin frame[t].todo
    BY <1>1, <1>4, <1>5 DEF Reserved
  <2>2. \A y \in Kept' : executions'[y].job \in frame[t].todo => y = x
    BY <1>5, <2>1
  <2>3. NodesIn(nodes, {"running"})' = NodesIn(nodes, {"running"})
    BY <1>1 DEF NodesIn
  <2>. QED BY <1>1, <1>3, <1>4, <1>6, <2>2, <2>3 DEF Reserved, At
<1>11. StartedOnce'
  <2>1. \A y \in Kept : executions'[y].job # executions'[x].job
    BY <1>1, <1>3, <1>4, <1>5, <1>6 DEF Reserved
  <2>. QED BY <1>4, <1>5, <2>1 DEF SlotsInv, RunsInOrder, StartedOnce
<1>12. CreatedInOrder' /\ RunsInOrder'
  BY <1>1, <1>11 DEF SlotsInv, CreatedInOrder, NodesCreated, RunsInOrder, OrderIsKept, NodesIn
<1>13. frame'["trigger"].at \notin Early
  BY <1>1, <1>3, <1>4 DEF SlotsInv, Threads, Early
<1>. QED BY <1>7, <1>9, <1>10, <1>12, <1>13 DEF SlotsInv

LEMMA MarkRunningKeepsSlots ==
    ASSUME IInv, SlotsInv, ~AdvancesMeet, NEW t \in Threads, MarkRunning(t)
    PROVE  SlotsInv'
<1> DEFINE x == frame[t].execution
           S == frame[t].todo
           h == Head(t)
           running == NodesIn(nodes, {"running"})
           f == [frame[t] EXCEPT !.at = "enqueue"]
<1>1. /\ At(t, "created") /\ Starting(t) /\ Reserved(t) /\ frame[t] \in Frame
      /\ x \in Executions /\ executions[x].state = "created"
  BY DEF MarkRunning, Starting, SlotsInv, IInv, TypeOK, Ties, HandedOver, At
<1>2. executions[x].job = h /\ x \in Kept
  BY <1>1 DEF Reserved, At, Started, Unused, Kept
<1>3. h \in S /\ h \in Jobs /\ S \subseteq Jobs
  BY <1>1, HeadInTodo DEF Reserved, IInv, Frame
<1>4. /\ nodes' = [nodes EXCEPT ![h] = [status |-> "running", execution |-> x]]
      /\ frame' = [frame EXCEPT ![t] = f] /\ UNCHANGED <<edges, created, executions>>
  BY <1>2 DEF MarkRunning
<1>5. f.at = "enqueue" /\ f.todo = S /\ f.execution = x
  BY <1>1 DEF Frame
<1>6. /\ frame'[t] = f /\ \A u \in Threads \ {t} : frame'[u] = frame[u]
      /\ nodes'[h].status = "running" /\ \A n \in Jobs \ {h} : nodes'[n] = nodes[n]
      /\ Kept' = Kept /\ NodesCreated' = NodesCreated /\ Head(t)' = Head(t)
  <2>1. frame'[t] = f /\ \A u \in Threads \ {t} : frame'[u] = frame[u]
    BY <1>4 DEF IInv, TypeOK
  <2>2. Head(t)' = Head(t)
    BY <1>4, <1>5, <2>1, SameHead
  <2>3. nodes'[h].status = "running" /\ \A n \in Jobs \ {h} : nodes'[n] = nodes[n]
    BY <1>3, <1>4 DEF IInv, TypeOK
  <2>. QED BY <1>4, <2>1, <2>2, <2>3 DEF Started, Unused, Kept, NodesCreated
<1>7. NodesIn(nodes, {"running"})' = running \cup {h}
  BY <1>3, <1>6 DEF NodesIn
<1>8. /\ Cardinality(running \cup S) <= MaxConcurrentNodes
      /\ \A n \in S, e \in edges :
        /\ e.downstream = n => e.upstream \notin S /\ nodes[e.upstream].status \in Terminal
        /\ e.upstream = n => nodes[e.downstream].status # "running"
      /\ \A y \in Kept : executions[y].job \in S => y = x
  BY <1>1 DEF Reserved
<1>9. \A u \in Threads \ {t} : ~Starting(u) /\ ~Starting(u)'
  BY <1>1, <1>6, OnlyOneStarts DEF Starting, At
<1>10. NodesIn(nodes, {"running"})' \subseteq running \cup S /\ running \cup S \subseteq Jobs
  BY <1>3, <1>7 DEF NodesIn
<1>11. \A e \in edges : e.upstream \in Jobs /\ e.downstream \in Jobs
  BY GraphFacts DEF IInv
<1> HIDE DEF f, h, running, S, x
<1>12. CreatedInOrder'
  <2>1. \A n \in Jobs : nodes'[n].status \in {"absent", "waiting"} => nodes'[n] = nodes[n]
    BY <1>3, <1>6
  <2>. QED BY <1>4, <1>6, <2>1 DEF SlotsInv, CreatedInOrder
<1>13. NeverWaitsAgain'
  <2>1. \A y : Leaving(y) => y = x
    BY <1>9 DEF Leaving, Starting, At, x
  <2>2. \A y \in Kept : /\ executions'[y].job \in Jobs
                        /\ nodes'[executions'[y].job].status \notin {"absent", "waiting"}
    BY <1>2, <1>3, <1>4, <1>6, <2>1 DEF SlotsInv, NeverWaitsAgain
  <2>. QED BY <1>6, <2>2 DEF NeverWaitsAgain
<1>14. OrderIsKept'
  <2> SUFFICES ASSUME NEW e \in edges, nodes'[e.downstream].status = "running"
               PROVE  nodes'[e.upstream].status \in Terminal
    BY <1>4 DEF OrderIsKept
  <2>1. CASE e.downstream = h
    <3>1. e.upstream # h /\ nodes[e.upstream].status \in Terminal
      BY <1>3, <1>8, <2>1
    <3>. QED BY <1>6, <1>11, <3>1
  <2>2. CASE e.downstream # h
    <3>1. nodes[e.downstream].status = "running"
      BY <1>6, <1>11, <2>2
    <3>2. e.upstream # h /\ nodes[e.upstream].status \in Terminal
      BY <1>3, <1>8, <3>1 DEF SlotsInv, RunsInOrder, OrderIsKept
    <3>. QED BY <1>6, <1>11, <3>2
  <2>. QED BY <2>1, <2>2
<1>15. Reserved(t)'
  <2>1. frame'[t].todo = S /\ frame'[t].execution = x
    BY <1>5, <1>6
  <2>2. Cardinality(NodesIn(nodes, {"running"})' \cup S) <= MaxConcurrentNodes
    <3>1. NodesIn(nodes, {"running"})' \cup S = running \cup S
      BY <1>3, <1>7
    <3>. QED BY <1>8, <3>1
  <2>3. \A n \in S, e \in edges :
          /\ e.downstream = n => e.upstream \notin S /\ nodes'[e.upstream].status \in Terminal
          /\ e.upstream = n => nodes'[e.downstream].status # "running"
    <3> SUFFICES ASSUME NEW n \in S, NEW e \in edges
                 PROVE  /\ e.downstream = n => e.upstream \notin S /\ nodes'[e.upstream].status \in Terminal
                        /\ e.upstream = n => nodes'[e.downstream].status # "running"
      OBVIOUS
    <3>1. e.downstream = n => e.upstream # h
      BY <1>3, <1>8
    <3>2. e.upstream = n => e.downstream # h
      BY <1>8, <1>3
    <3>. QED BY <1>6, <1>8, <1>11, <3>1, <3>2
  <2>4. \A y \in Kept' : executions'[y].job \in S => y = x
    BY <1>4, <1>6, <1>8
  <2>5. executions'[x].job = Head(t)' /\ frame'[t].at = "enqueue" /\ S # {}
    BY <1>2, <1>3, <1>4, <1>5, <1>6 DEF h
  <2>. QED BY <1>4, <2>1, <2>2, <2>3, <2>4, <2>5 DEF Reserved, At
<1>16. Cardinality(NodesIn(nodes, {"running"})') <= MaxConcurrentNodes
  BY <1>8, <1>10, Fewer
<1>17. StartedOnce'
  BY <1>4, <1>6 DEF SlotsInv, RunsInOrder, StartedOnce
<1>18. RunsInOrder'
  BY <1>14, <1>16, <1>17 DEF RunsInOrder
<1>19. frame'["trigger"].at \notin Early
  BY <1>1, <1>5, <1>6 DEF SlotsInv, Threads, Early
<1>. QED BY <1>9, <1>12, <1>13, <1>15, <1>18, <1>19 DEF SlotsInv

LEMMA EnqueueNodeKeepsSlots ==
    ASSUME IInv, SlotsInv, NEW t \in Threads, EnqueueNode(t)
    PROVE  SlotsInv'
<1> DEFINE x == frame[t].execution
           f == [frame[t] EXCEPT !.at = "starting", !.todo = Left(t), !.execution = NoExecution]
<1>1. /\ At(t, "enqueue") /\ Starting(t) /\ Reserved(t) /\ frame[t] \in Frame
      /\ x \in Executions /\ executions[x].state = "created"
      /\ UNCHANGED <<edges, nodes, created>>
  BY DEF EnqueueNode, Starting, SlotsInv, IInv, TypeOK, Ties, HandedOver, At
<1>2. f.at = "starting" /\ f.todo = frame[t].todo \ {Head(t)}
  BY <1>1 DEF Frame, Left
<1>3. PICK s \in {"queued", "stranded"} :
         executions' = [executions EXCEPT ![x].state = s] /\ frame' = [frame EXCEPT ![t] = f]
  BY DEF EnqueueNode
<1>4. /\ executions'[x].state = s /\ \A y \in Executions \ {x} : executions'[y] = executions[y]
      /\ \A y \in Executions : executions'[y].job = executions[y].job
  BY <1>1, <1>3 DEF IInv, TypeOK, ExecutionRow
<1>5. Started' = Started /\ Kept' = Kept
  BY <1>1, <1>4 DEF Started, Unused, Kept
<1>6. \A y \in Kept : executions[y].job \notin f.todo
  BY <1>1, <1>2 DEF Reserved, At
<1>7. t \in Executions => ~At(t, "start")
  BY <1>1 DEF At
<1> HIDE DEF f
<1>. QED BY <1>1, <1>2, <1>3, <1>4, <1>5, <1>6, <1>7, QuietKeepsSlots DEF At, Early

LEMMA EndKeepsSlots ==
    ASSUME IInv, SlotsInv, NEW x \in Executions, NEW o, NEW label \in {"find", "unreported"},
           executions[x].state = "queued", ~At(x, "created"),
           executions' = [executions EXCEPT ![x] = [@ EXCEPT !.state = "ended", !.outcome = o]],
           Goto(x, label), UNCHANGED <<edges, nodes, created>>
    PROVE  SlotsInv'
<1>1. x \in Threads /\ x # "trigger" /\ x \in Started
  BY EngineAssumption DEF Threads, Started, Unused
<1>2. Blank(label).at = label
  BY DEF Blank
<1>3. /\ frame' = [frame EXCEPT ![x] = Blank(label)]
      /\ executions'[x].state = "ended" /\ \A y \in Executions \ {x} : executions'[y] = executions[y]
      /\ \A y \in Executions : executions'[y].job = executions[y].job
  BY DEF Goto, IInv, TypeOK, ExecutionRow
<1>4. Started' = Started /\ Kept' = Kept
  BY <1>1, <1>3 DEF Started, Unused, Kept
<1>. QED BY <1>1, <1>2, <1>3, <1>4, QuietKeepsSlots DEF At

LEMMA RunKeepsSlots ==
    ASSUME IInv, SlotsInv, NEW x \in Executions, Run(x)
    PROVE  SlotsInv'
<1>1. ~At(x, "created")
  BY DEF Run, ExecutionEnds, EndsUnreported, Over, At
<1>. QED BY <1>1, EndKeepsSlots DEF Run, ExecutionEnds, EndsUnreported

LEMMA QueueRetriesKeepsSlots ==
    ASSUME IInv, SlotsInv, NEW x \in Executions, QueueRetries(x)
    PROVE  SlotsInv'
<1>1. /\ executions[x].state = "ended" /\ frame[x].at \in {"done", "cut", "unreported"}
      /\ x \in Threads /\ x # "trigger"
      /\ UNCHANGED <<edges, nodes, created, frame>>
  BY EngineAssumption DEF QueueRetries, Over, At, Threads
<1>2. /\ frame' = [frame EXCEPT ![x] = frame[x]]
      /\ executions'[x].state = "queued" /\ \A y \in Executions \ {x} : executions'[y] = executions[y]
      /\ \A y \in Executions : executions'[y].job = executions[y].job
  BY <1>1 DEF QueueRetries, IInv, TypeOK, ExecutionRow
<1>3. Started' = Started /\ Kept' = Kept
  BY <1>1, <1>2 DEF Started, Unused, Kept
<1>. QED BY <1>1, <1>2, <1>3, QuietKeepsSlots DEF At

(* A thread that is cut off leaves its nodes as they are, and drops the
   execution in its hands. *)
LEMMA CutOffKeepsSlots ==
    ASSUME IInv, SlotsInv, NEW t \in Threads, CutOff(t)
    PROVE  SlotsInv'
<1> DEFINE label == IF At(t, "find") \/ At(t, "settle") THEN "unreported" ELSE "cut"
           f == Blank(label)
           x == frame[t].execution
<1>1. /\ f.at \in {"cut", "unreported"}
      /\ frame' = [frame EXCEPT ![t] = f] /\ UNCHANGED <<edges, nodes, created>>
      /\ ~At(t, "start")
  BY DEF CutOff, Goto, Blank
<1> HIDE DEF f, label
<1>2. CASE InHand(t)
  <2>1. x \in Executions /\ executions[x].state = "created" /\ executions[x] \in ExecutionRow
    BY <1>2 DEF IInv, TypeOK, Ties, HandedOver, InHand
  <2>2. PICK s \in {"abandoned", "stranded"} :
           /\ executions' = [executions EXCEPT ![x].state = s]
           /\ At(t, "created") => s = "abandoned"
    BY <1>2 DEF CutOff, DropExecution
  <2>3. /\ executions'[x].state = s /\ \A y \in Executions \ {x} : executions'[y] = executions[y]
        /\ \A y \in Executions : executions'[y].job = executions[y].job
    BY <2>1, <2>2 DEF IInv, TypeOK, ExecutionRow
  <2> HIDE DEF x
  <2>4. Started' = Started /\ Kept' \subseteq Kept /\ (At(t, "created") => x \notin Kept')
    BY <2>1, <2>2, <2>3 DEF Started, Unused, Kept
  <2>. QED BY <1>1, <2>3, <2>4, QuietKeepsSlots DEF Early, x
<1>3. CASE ~InHand(t)
  <2>1. executions' = executions /\ Started' = Started /\ Kept' = Kept /\ ~At(t, "created")
    BY <1>3 DEF CutOff, InHand, Started, Unused, Kept
  <2>. QED BY <1>1, <2>1, QuietKeepsSlots DEF Early
<1>. QED BY <1>2, <1>3

LEMMA AdvanceKeepsSlots ==
    ASSUME IInv, SlotsInv, ~AdvancesMeet, ~AdvancesMeet', NEW t \in Threads \ {"cancel"}, Advance(t)
    PROVE  SlotsInv'
<1>1. CASE StartFails(t)
  BY <1>1, SetNextKeepsSlots DEF StartFails, Terminal, Early
<1>2. CASE Advanced(t)
  <2> DEFINE label == IF t = "trigger" THEN "done" ELSE "check"
  <2>1. MayMove(t, label) /\ Goto(t, label)
    BY <1>2 DEF Advanced, Return, MayMove, At, Early
  <2>. QED BY <1>2, <2>1, GotoKeepsSlots DEF Advanced
<1>. QED BY <1>1, <1>2, AdvanceReadKeepsSlots, CreateExecutionKeepsSlots, MarkRunningKeepsSlots,
            EnqueueNodeKeepsSlots DEF Advance

LEMMA TriggerKeepsSlots ==
    ASSUME IInv, SlotsInv, ~AdvancesMeet, ~AdvancesMeet', Trigger
    PROVE  SlotsInv'
<1>a. "trigger" \in Threads \ {"cancel"} /\ "trigger" \notin Executions
  BY EngineAssumption DEF Threads
<1> USE DEF MayMove, At, Early
<1>1. CASE CreateRun
  <2>1. MayMove("trigger", "creating")
    BY <1>1, <1>a DEF CreateRun
  <2>. QED BY <1>1, <1>a, <2>1, GotoKeepsSlots DEF CreateRun
<1>2. CASE ReadRoots
  <2>1. MayMove("trigger", "marking")
    BY <1>2, <1>a DEF ReadRoots
  <2>. QED BY <1>2, <1>a, <2>1, ReadNodesKeepsSlots DEF ReadRoots
<1>3. CASE MarkedReady
  <2>1. MayMove("trigger", "advance")
    BY <1>3, <1>a DEF MarkedReady
  <2>. QED BY <1>3, <1>a, <2>1, GotoKeepsSlots DEF MarkedReady
<1>4. CASE Advance("trigger")
  BY <1>4, <1>a, AdvanceKeepsSlots
<1>. QED BY <1>1, <1>2, <1>3, <1>4, MarkReadyKeepsSlots, CreateNodeKeepsSlots DEF Trigger

LEMMA CompleteKeepsSlots ==
    ASSUME IInv, SlotsInv, ~AdvancesMeet, ~AdvancesMeet', NEW x \in Executions, Complete(x)
    PROVE  SlotsInv'
<1>a. x \in Threads \ {"cancel"} /\ x # "trigger"
  BY EngineAssumption DEF Threads
<1> USE DEF MayMove, At, Early
<1>1. CASE FindNode(x)
  <2>1. MayMove(x, "done") /\ MayMove(x, "settle")
    BY <1>1, <1>a DEF FindNode
  <2>. QED BY <1>1, <1>a, <2>1, GotoKeepsSlots, ReadNodesKeepsSlots DEF FindNode, Return
<1>2. CASE CountNode(x)
  <2>1. MayMove(x, "counted")
    BY <1>2, <1>a DEF CountNode, ReadRun
  <2>. QED BY <1>2, <1>a, <2>1, ReadRunKeepsSlots DEF CountNode
<1>3. CASE WriteCounters(x)
  <2> DEFINE label == IF Bad(x) /\ OnFailure = "stop" THEN "stop" ELSE "advance"
  <2>1. MayMove(x, label) /\ Goto(x, label)
    BY <1>3, <1>a DEF WriteCounters
  <2>. QED BY <1>3, <1>a, <2>1, GotoKeepsSlots DEF WriteCounters
<1>4. CASE ReadSkipped(x)
  <2>1. MayMove(x, "skipping")
    BY <1>4, <1>a DEF ReadSkipped
  <2>. QED BY <1>4, <1>a, <2>1, ReadNodesKeepsSlots DEF ReadSkipped
<1>5. CASE SkipNode(x)
  BY <1>5, <1>a, SetNextKeepsSlots DEF SkipNode, Terminal
<1>6. CASE Skipped(x)
  <2>1. MayMove(x, "fail") /\ MayMove(x, "done")
    BY <1>6, <1>a DEF Skipped
  <2>. QED BY <1>6, <1>a, <2>1, GotoKeepsSlots DEF Skipped, Return
<1>7. CASE FailRun(x)
  <2>1. MayMove(x, "finish")
    BY <1>7, <1>a DEF FailRun, ReadRun
  <2>. QED BY <1>7, <1>a, <2>1, ReadRunKeepsSlots DEF FailRun
<1>8. CASE CheckEnd(x)
  <2>1. MayMove(x, "end") /\ MayMove(x, "done")
    BY <1>8, <1>a DEF CheckEnd
  <2>. QED BY <1>8, <1>a, <2>1, GotoKeepsSlots, ReadNodesKeepsSlots DEF CheckEnd, Return
<1>9. CASE EndRun(x)
  <2>1. MayMove(x, "finish")
    BY <1>9, <1>a DEF EndRun, ReadRun
  <2>. QED BY <1>9, <1>a, <2>1, ReadRunKeepsSlots DEF EndRun
<1>10. CASE WriteRun(x)
  <2>1. MayMove(x, "done")
    BY <1>10, <1>a DEF WriteRun
  <2>. QED BY <1>10, <1>a, <2>1, GotoKeepsSlots DEF WriteRun, Return
<1>. QED BY <1>a, <1>1, <1>2, <1>3, <1>4, <1>5, <1>6, <1>7, <1>8, <1>9, <1>10,
            SettleKeepsSlots, AdvanceKeepsSlots DEF Complete

LEMMA CancelKeepsSlots ==
    ASSUME IInv, SlotsInv, CancelRead \/ Cancelling PROVE SlotsInv'
<1>a. "cancel" \in Threads /\ "cancel" \notin Executions
  BY EngineAssumption DEF Threads
<1> USE DEF MayMove, At, Early
<1>1. CASE CancelRead
  <2>1. MayMove("cancel", "nodes")
    BY <1>1, <1>a DEF CancelRead, ReadRun
  <2>. QED BY <1>1, <1>a, <2>1, ReadRunKeepsSlots DEF CancelRead
<1>2. CASE CancelReadNodes
  <2>1. MayMove("cancel", "cancelling")
    BY <1>2, <1>a DEF CancelReadNodes
  <2>. QED BY <1>2, <1>a, <2>1, ReadNodesKeepsSlots DEF CancelReadNodes
<1>3. CASE CancelNode
  BY <1>3, <1>a, SetNextKeepsSlots DEF CancelNode, Terminal
<1>4. CASE CancelRun
  <2>1. MayMove("cancel", "done")
    BY <1>4, <1>a DEF CancelRun
  <2>. QED BY <1>4, <1>a, <2>1, GotoKeepsSlots DEF CancelRun, Return
<1>. QED BY <1>1, <1>2, <1>3, <1>4 DEF Cancelling

LEMMA SlotsStep ==
    ASSUME IInv, SlotsInv, ~AdvancesMeet, ~AdvancesMeet', [Next]_vars PROVE SlotsInv'
<1>1. CASE UNCHANGED vars
  <2> USE <1>1 DEF vars, SlotsInv, At
  <2>1. CreatedInOrder' /\ NeverWaitsAgain'
    BY DEF CreatedInOrder, NodesCreated, NeverWaitsAgain, Leaving, Kept, Started, Unused
  <2>2. /\ Started' = Started /\ Kept' = Kept
        /\ \A t \in Threads : Starting(t)' = Starting(t) /\ Head(t)' = Head(t)
    BY SameHead DEF Started, Unused, Kept, Starting
  <2>3. ASSUME NEW t \in Threads, Reserved(t) PROVE Reserved(t)'
    BY <2>2, <2>3 DEF Reserved, NodesIn
  <2>4. RunsInOrder'
    BY <2>2 DEF RunsInOrder, StartedOnce, OrderIsKept, NodesIn
  <2>. QED BY <2>1, <2>2, <2>3, <2>4
<1>2. CASE Next
  BY <1>2, TriggerKeepsSlots, CompleteKeepsSlots, CancelKeepsSlots,
     RunKeepsSlots, QueueRetriesKeepsSlots, CutOffKeepsSlots DEF Next
<1>. QED BY <1>1, <1>2

(* RunsInOrder holds of every graph and any number of slots, whatever query
   fails, whichever execution goes unreported, whatever is cancelled or is run
   again by the queue, in every run whose advances do not meet: two advances
   that choose from rows read before the other's nodes are marked.  A node that
   could not be marked running is started again, but its first execution never
   reached the queue. *)
THEOREM NodesRunInOrder == Spec /\ []~AdvancesMeet => []RunsInOrder
<1>1. Init => SlotsInv
  BY SlotsInit
<1>2. IInv /\ SlotsInv /\ ~AdvancesMeet /\ ~AdvancesMeet' /\ [Next]_vars => SlotsInv'
  BY SlotsStep
<1>3. SlotsInv => RunsInOrder
  BY DEF SlotsInv
<1>. QED BY <1>1, <1>2, <1>3, InitIInv, NextIInv, PTL DEF Spec

-----------------------------------------------------------------------------
(* Taking turns: with one slot and no repetition by the queue, advances do not
   meet, for a run has one token.  The trigger has it first; whoever has it may
   start one node, and then it goes with the node's execution, to the queue, to
   the worker, and to the completion that advances the run again. *)

Carries(t, f) ==
    \/ t = "trigger" /\ f.at \in Early
    \/ f.at \in {"advance", "created", "enqueue", "find", "settle", "count", "counted"}
    \/ f.at = "starting" /\ f.todo # {}
Token(t) == Carries(t, frame[t]) \/ (t \in Executions /\ executions[t].state = "queued")

OneToken == \A t, u \in Threads : Token(t) /\ Token(u) => t = u

(* A completion comes after its execution, and an execution that is created
   but not yet in the queue is in somebody's hands. *)
OnTheWay ==
    \A x \in Executions :
        /\ executions[x].state # "ended" => At(x, "start")
        /\ executions[x].state = "created" => \E t \in Threads : frame[t].execution = x

Passing == OneToken /\ OnTheWay
Turns == Passing /\ SlotsInv
TurnsInv == ~Repeated => Turns

LEMMA TurnsInit == Init => Turns
<1> SUFFICES ASSUME Init PROVE Turns
  OBVIOUS
<1>1. /\ \A t \in Threads : frame[t].at = "start"
      /\ \A x \in Executions : executions[x].state = "absent"
  BY DEF Init, Blank, NewExecution
<1>2. OneToken /\ OnTheWay
  BY <1>1, EngineAssumption DEF OneToken, OnTheWay, Token, Carries, At, Threads
<1>. QED BY <1>2, SlotsInit DEF Turns, Passing

(* The token does not change hands when a thread moves without gaining it. *)
LEMMA QuietStep ==
    ASSUME IInv, Turns, NEW t \in Threads, NEW f,
           frame' = [frame EXCEPT ![t] = f], UNCHANGED executions,
           frame[t].at \in {"created", "enqueue"} => f.execution = frame[t].execution,
           Carries(t, f) => Token(t),
           t \in Executions => executions[t].state = "ended"
    PROVE  Passing'
<1>1. /\ frame'[t] = f /\ \A u \in Threads \ {t} : frame'[u] = frame[u]
      /\ frame[t].at \notin {"created", "enqueue"} => frame[t].execution = NoExecution
  BY DEF IInv, TypeOK, Ties, HandedOver, At
<1>2. \A u \in Threads : Token(u)' => Token(u)
  BY <1>1 DEF Token, Carries, At
<1>3. OneToken'
  BY <1>2 DEF Turns, Passing, OneToken
<1>4. OnTheWay'
  <2> SUFFICES ASSUME NEW x \in Executions
               PROVE  /\ executions[x].state # "ended" => frame'[x].at = "start"
                      /\ executions[x].state = "created" => \E u \in Threads : frame'[u].execution = x
    BY DEF OnTheWay, At
  <2>1. x \in Threads /\ x # NoExecution
    BY EngineAssumption DEF Threads
  <2>. QED BY <1>1, <2>1 DEF Turns, Passing, OnTheWay, At
<1>. QED BY <1>3, <1>4 DEF Passing

(* A thread may go where it gains no token. *)
MayGo(t, label) ==
    /\ frame[t].at \notin {"created", "enqueue"} /\ label \notin {"created", "enqueue"}
    /\ label \in {"advance", "find", "settle", "count", "counted"} => Token(t)
    /\ t = "trigger" /\ label \in Early => frame[t].at \in Early
    /\ t \in Executions => ~At(t, "start")

LEMMA MayGoFacts ==
    ASSUME Turns, NEW t \in Threads, NEW label, MayGo(t, label)
    PROVE  /\ t \in Executions => executions[t].state = "ended"
           /\ t = "trigger" /\ label \in Early => Token(t)
BY DEF Turns, Passing, OnTheWay, MayGo, Token, Carries

LEMMA GotoQuiet ==
    ASSUME IInv, Turns, NEW t \in Threads, NEW label, MayGo(t, label), Goto(t, label),
           UNCHANGED executions
    PROVE  Passing'
<1>1. Blank(label).at = label /\ Blank(label).todo = {}
  BY DEF Blank
<1>. QED BY <1>1, MayGoFacts, QuietStep DEF Goto, MayGo, Carries

LEMMA ReadNodesQuiet ==
    ASSUME IInv, Turns, NEW t \in Threads, NEW label, NEW S, MayGo(t, label),
           label = "starting" => Token(t),
           ReadNodes(t, label, S), UNCHANGED executions
    PROVE  Passing'
<1> DEFINE f == [frame[t] EXCEPT !.at = label, !.nodes = nodes, !.todo = S]
<1>1. f.at = label /\ frame' = [frame EXCEPT ![t] = f]
  BY DEF ReadNodes, IInv, TypeOK, Frame
<1> HIDE DEF f
<1>. QED BY <1>1, MayGoFacts, QuietStep DEF MayGo, Carries

LEMMA ReadRunQuiet ==
    ASSUME IInv, Turns, NEW t \in Threads, NEW from, NEW to, NEW row, MayGo(t, to),
           to # "starting", ReadRun(t, from, to, row)
    PROVE  Passing'
<1> DEFINE f == [Blank(to) EXCEPT !.run = row]
<1>1. f.at = to /\ frame' = [frame EXCEPT ![t] = f] /\ UNCHANGED executions
  BY DEF ReadRun, Blank
<1> HIDE DEF f
<1>. QED BY <1>1, MayGoFacts, QuietStep DEF MayGo, Carries

LEMMA SetNextQuiet ==
    ASSUME IInv, Turns, NEW t \in Threads, NEW label, NEW status,
           label \notin {"start", "created", "enqueue"}, SetNext(t, label, status)
    PROVE  Passing'
<1> DEFINE f == [frame[t] EXCEPT !.todo = Left(t)]
<1>1. /\ frame[t] \in Frame /\ frame[t].at = label /\ UNCHANGED executions
      /\ frame[t].todo # {} /\ frame' = [frame EXCEPT ![t] = f]
  BY DEF IInv, TypeOK, SetNext, At
<1>2. f.at = label
  BY <1>1 DEF Frame
<1> HIDE DEF f
<1>3. Carries(t, f) => Token(t)
  BY <1>1, <1>2 DEF Token, Carries
<1>4. t \in Executions => executions[t].state = "ended"
  BY <1>1 DEF Turns, Passing, OnTheWay, At
<1>. QED BY <1>1, <1>2, <1>3, <1>4, QuietStep

LEMMA SettleQuiet ==
    ASSUME IInv, Turns, NEW x \in Executions, SettleNode(x)
    PROVE  Passing'
<1>1. MayGo(x, "count") /\ x \in Threads
  BY EngineAssumption DEF SettleNode, MayGo, Token, Carries, At, Threads, Early
<1>. QED BY <1>1, GotoQuiet DEF SettleNode

LEMMA CreateNodeQuiet ==
    ASSUME IInv, Turns, NEW n \in Jobs, CreateNode(n)
    PROVE  Passing'
<1>1. /\ "trigger" \in Threads /\ "trigger" \notin Executions
      /\ frame["trigger"].at = "creating"
      /\ frame' = [frame EXCEPT !["trigger"] = frame["trigger"]] /\ UNCHANGED executions
  BY EngineAssumption DEF CreateNode, IInv, TypeOK, Threads, At
<1>2. Token("trigger")
  BY <1>1 DEF Token, Carries, Early
<1>. QED BY <1>1, <1>2, QuietStep

(* Whoever has a node to start has the token, and nobody else has. *)
LEMMA Alone ==
    ASSUME Turns, NEW t \in Threads, Token(t)
    PROVE  \A u \in Threads \ {t} : ~Token(u)
BY DEF Turns, Passing, OneToken

LEMMA NobodyMeets ==
    ASSUME OneToken PROVE ~AdvancesMeet
BY DEF OneToken, Token, Carries, AdvancesMeet, Starting, At

LEMMA CreateExecutionPasses ==
    ASSUME IInv, Turns, NEW t \in Threads, CreateExecution(t)
    PROVE  Passing'
<1>1. At(t, "starting") /\ frame[t].todo # {} /\ Token(t) /\ frame[t] \in Frame
      /\ frame[t].execution = NoExecution
  BY DEF CreateExecution, Token, Carries, IInv, TypeOK, Ties, HandedOver, At
<1> DEFINE F(x) == [frame[t] EXCEPT !.at = "created", !.execution = x]
           E(x) == [executions[x] EXCEPT !.state = "created", !.job = Head(t)]
<1>2. PICK x \in Unused : /\ executions' = [executions EXCEPT ![x] = E(x)]
                          /\ frame' = [frame EXCEPT ![t] = F(x)]
  BY DEF CreateExecution
<1> DEFINE f == F(x)
           e == E(x)
<1>3. f.at = "created" /\ f.execution = x /\ e.state = "created"
  BY <1>1 DEF IInv, TypeOK, Frame, ExecutionRow, Unused
<1>4. /\ frame'[t] = f /\ \A u \in Threads \ {t} : frame'[u] = frame[u]
      /\ executions'[x] = e /\ \A y \in Executions \ {x} : executions'[y] = executions[y]
  BY <1>2 DEF IInv, TypeOK, Unused
<1> HIDE DEF f, e, F, E
<1>5. /\ x \in Executions /\ At(x, "start") /\ x # t
      /\ \A y \in Executions : y \in Threads /\ y # NoExecution
  BY <1>1, EngineAssumption DEF Turns, Passing, OnTheWay, Unused, Threads, At
<1>6. \A u \in Threads : Token(u)' => Token(u)
  BY <1>1, <1>3, <1>4 DEF Token, Carries, At
<1>7. \A y \in Executions \ {x} :
        /\ executions'[y].state # "ended" => frame'[y].at = "start"
        /\ executions'[y].state = "created" => \E u \in Threads : frame'[u].execution = y
  BY <1>1, <1>4, <1>5 DEF Turns, Passing, OnTheWay, At
<1>8. frame'[x].at = "start" /\ \E u \in Threads : frame'[u].execution = x
  BY <1>3, <1>4, <1>5 DEF At
<1>. QED BY <1>6, <1>7, <1>8 DEF Turns, Passing, OneToken, OnTheWay, At

LEMMA MarkRunningQuiet ==
    ASSUME IInv, Turns, NEW t \in Threads, MarkRunning(t)
    PROVE  Passing'
<1> DEFINE f == [frame[t] EXCEPT !.at = "enqueue"]
<1>1. /\ frame[t].at = "created" /\ frame[t] \in Frame
      /\ frame' = [frame EXCEPT ![t] = f] /\ UNCHANGED executions
  BY DEF MarkRunning, IInv, TypeOK, At
<1>2. f.at = "enqueue" /\ f.execution = frame[t].execution
  BY <1>1 DEF Frame
<1> HIDE DEF f
<1>3. Token(t) /\ (t \in Executions => executions[t].state = "ended")
  BY <1>1 DEF Token, Carries, Turns, Passing, OnTheWay, At
<1>. QED BY <1>1, <1>2, <1>3, QuietStep DEF Early

(* With one slot there is one node to start, and then none. *)
LEMMA NoneLeft ==
    ASSUME IInv, SlotsInv, MaxConcurrentNodes = 1, NEW t \in Threads, Starting(t)
    PROVE  Left(t) = {}
<1> DEFINE S == frame[t].todo
<1>1. Reserved(t) /\ S \subseteq Jobs
  BY DEF SlotsInv, IInv, TypeOK, Frame
<1>2. /\ Cardinality(S) <= 1 /\ S # {}
  BY <1>1, Fewer DEF Reserved, NodesIn
<1>3. IsFiniteSet(S) /\ Head(t) \in S
  BY <1>1, <1>2, EngineAssumption, FS_Subset, HeadInTodo DEF IInv
<1> HIDE DEF S
<1>4. /\ Cardinality(S \ {Head(t)}) = Cardinality(S) - 1 /\ IsFiniteSet(S \ {Head(t)})
      /\ Cardinality(S) \in Nat /\ Cardinality(S \ {Head(t)}) \in Nat
  BY <1>3, FS_RemoveElement, FS_CardinalityType
<1>5. Cardinality(S \ {Head(t)}) = 0
  BY <1>2, <1>4
<1>. QED BY <1>4, <1>5, FS_EmptySet DEF Left, S

(* The token goes to the execution, or is lost with it. *)
LEMMA EnqueueNodePasses ==
    ASSUME IInv, Turns, MaxConcurrentNodes = 1, NEW t \in Threads, EnqueueNode(t)
    PROVE  Passing'
<1> DEFINE x == frame[t].execution
           f == [frame[t] EXCEPT !.at = "starting", !.todo = Left(t), !.execution = NoExecution]
<1>1. /\ At(t, "enqueue") /\ Token(t) /\ Starting(t) /\ frame[t] \in Frame
      /\ x \in Executions /\ executions[x].state = "created"
  BY DEF EnqueueNode, Token, Carries, Starting, IInv, TypeOK, Ties, HandedOver, At
<1>2. f.at = "starting" /\ f.todo = {}
  BY <1>1, NoneLeft DEF Turns, Frame
<1>3. PICK s \in {"queued", "stranded"} :
         executions' = [executions EXCEPT ![x].state = s] /\ frame' = [frame EXCEPT ![t] = f]
  BY DEF EnqueueNode
<1>4. /\ frame'[t] = f /\ \A u \in Threads \ {t} : frame'[u] = frame[u]
      /\ executions'[x].state = s /\ \A y \in Executions \ {x} : executions'[y] = executions[y]
  BY <1>1, <1>3 DEF IInv, TypeOK, ExecutionRow
<1> HIDE DEF f
<1>5. /\ x \in Threads /\ At(x, "start") /\ x # t
      /\ \A y \in Executions : y \in Threads /\ y # NoExecution
      /\ t \in Executions => executions[t].state = "ended"
  BY <1>1, EngineAssumption DEF Turns, Passing, OnTheWay, Threads, At
<1>6. ASSUME NEW u \in Threads, Token(u)' PROVE u = x
  <2>1. CASE u = t
    <3>1. ~(t = "trigger" /\ f.at \in Early)
      BY <1>2 DEF Early
    <3>. QED BY <1>6, <2>1, <3>1, <1>2, <1>4, <1>5 DEF Token, Carries, At
  <2>2. CASE u # t /\ u # x
    <3>1. Token(u)
      BY <1>6, <2>2, <1>4 DEF Token, Carries, At
    <3>. QED BY <2>2, <3>1, <1>1, Alone
  <2>. QED BY <2>1, <2>2
<1>7. OnTheWay'
  BY <1>1, <1>2, <1>3, <1>4, <1>5 DEF Turns, Passing, OnTheWay, At
<1>. QED BY <1>6, <1>7 DEF Passing, OneToken

LEMMA EndPasses ==
    ASSUME IInv, Turns, NEW x \in Executions, NEW o, NEW label \in {"find", "unreported"},
           executions[x].state = "queued",
           executions' = [executions EXCEPT ![x] = [@ EXCEPT !.state = "ended", !.outcome = o]],
           Goto(x, label)
    PROVE  Passing'
<1> DEFINE f == Blank(label)
<1>1. /\ executions[x].state = "queued" /\ At(x, "start") /\ x \in Threads /\ Token(x)
      /\ frame[x].execution = NoExecution
  BY DEF Turns, Passing, OnTheWay, Token, Carries, IInv, Ties, HandedOver, At, Threads
<1>2. f.at \in {"find", "unreported"}
  BY DEF Blank
<1>3. /\ frame'[x] = f /\ \A u \in Threads \ {x} : frame'[u] = frame[u]
      /\ executions'[x].state = "ended" /\ \A y \in Executions \ {x} : executions'[y] = executions[y]
  BY <1>1 DEF Goto, IInv, TypeOK, ExecutionRow
<1> HIDE DEF f
<1>4. \A y \in Executions : y \in Threads /\ y # NoExecution
  BY EngineAssumption DEF Threads
<1>5. \A u \in Threads : Token(u)' => Token(u)
  BY <1>1, <1>2, <1>3 DEF Token, Carries, At
<1>6. OnTheWay'
  BY <1>1, <1>3, <1>4 DEF Turns, Passing, OnTheWay, At
<1>. QED BY <1>5, <1>6 DEF Turns, Passing, OneToken

LEMMA RunPasses ==
    ASSUME IInv, Turns, NEW x \in Executions, Run(x)
    PROVE  Passing'
BY EndPasses DEF Run, ExecutionEnds, EndsUnreported

(* A thread that is cut off loses the token, with the execution in its hands. *)
LEMMA CutOffPasses ==
    ASSUME IInv, Turns, NEW t \in Threads, CutOff(t)
    PROVE  Passing'
<1> DEFINE label == IF At(t, "find") \/ At(t, "settle") THEN "unreported" ELSE "cut"
           f == Blank(label)
           x == frame[t].execution
<1>1. /\ f.at \in {"cut", "unreported"} /\ ~At(t, "start")
      /\ frame' = [frame EXCEPT ![t] = f]
  BY DEF CutOff, Goto, Blank
<1> HIDE DEF f, label
<1>2. /\ frame'[t] = f /\ \A u \in Threads \ {t} : frame'[u] = frame[u]
      /\ t \in Executions => executions[t].state = "ended"
      /\ ~Carries(t, f)
  BY <1>1 DEF IInv, TypeOK, Turns, Passing, OnTheWay, Carries, Early
<1>3. CASE InHand(t)
  <2>1. x \in Executions /\ executions[x].state = "created"
    BY <1>3 DEF IInv, Ties, HandedOver, InHand
  <2>2. PICK s \in {"abandoned", "stranded"} : executions' = [executions EXCEPT ![x].state = s]
    BY <1>3 DEF CutOff, DropExecution
  <2>3. executions'[x].state = s /\ \A y \in Executions \ {x} : executions'[y] = executions[y]
    BY <2>1, <2>2 DEF IInv, TypeOK, ExecutionRow
  <2>4. /\ x \in Threads /\ At(x, "start") /\ x # t
        /\ \A y \in Executions : y \in Threads /\ y # NoExecution
    BY <1>1, <2>1, EngineAssumption DEF Turns, Passing, OnTheWay, Threads, At
  <2>5. \A u \in Threads : Token(u)' => Token(u)
    BY <1>2, <2>3, <2>4, <2>1 DEF Token
  <2>6. OnTheWay'
    BY <1>2, <2>1, <2>2, <2>3, <2>4 DEF Turns, Passing, OnTheWay, At
  <2>. QED BY <2>5, <2>6 DEF Turns, Passing, OneToken
<1>4. CASE ~InHand(t)
  <2>1. executions' = executions
    BY <1>4 DEF CutOff
  <2>. QED BY <1>1, <1>2, <1>4, <2>1, QuietStep DEF InHand, At
<1>. QED BY <1>3, <1>4

LEMMA AdvancePasses ==
    ASSUME IInv, Turns, MaxConcurrentNodes = 1, NEW t \in Threads, Advance(t)
    PROVE  Passing'
<1>1. CASE AdvanceRead(t)
  <2>1. MayGo(t, "starting") /\ Token(t)
    BY <1>1 DEF AdvanceRead, MayGo, Token, Carries, At, Early
  <2>. QED BY <1>1, <2>1, ReadNodesQuiet DEF AdvanceRead
<1>2. CASE StartFails(t)
  BY <1>2, SetNextQuiet DEF StartFails
<1>3. CASE Advanced(t)
  <2> DEFINE label == IF t = "trigger" THEN "done" ELSE "check"
  <2>1. MayGo(t, label) /\ Goto(t, label)
    BY <1>3 DEF Advanced, Return, MayGo, At, Early
  <2>. QED BY <1>3, <2>1, GotoQuiet DEF Advanced
<1>. QED BY <1>1, <1>2, <1>3, CreateExecutionPasses, MarkRunningQuiet, EnqueueNodePasses DEF Advance

LEMMA TriggerPasses ==
    ASSUME IInv, Turns, MaxConcurrentNodes = 1, Trigger
    PROVE  Passing'
<1>a. "trigger" \in Threads /\ "trigger" \notin Executions
  BY EngineAssumption DEF Threads
<1>1. CASE CreateRun
  <2>1. MayGo("trigger", "creating")
    BY <1>1, <1>a DEF CreateRun, MayGo, At, Early
  <2>. QED BY <1>1, <1>a, <2>1, GotoQuiet DEF CreateRun
<1>2. CASE ReadRoots
  <2>1. MayGo("trigger", "marking")
    BY <1>2, <1>a DEF ReadRoots, MayGo, At, Early
  <2>. QED BY <1>2, <1>a, <2>1, ReadNodesQuiet DEF ReadRoots
<1>3. CASE MarkReady
  BY <1>3, <1>a, SetNextQuiet DEF MarkReady
<1>4. CASE MarkedReady
  <2>1. MayGo("trigger", "advance")
    BY <1>4, <1>a DEF MarkedReady, MayGo, At, Early, Token, Carries
  <2>. QED BY <1>4, <1>a, <2>1, GotoQuiet DEF MarkedReady
<1>5. CASE Advance("trigger")
  BY <1>5, <1>a, AdvancePasses
<1>. QED BY <1>1, <1>2, <1>3, <1>4, <1>5, CreateNodeQuiet DEF Trigger

LEMMA CompletePasses ==
    ASSUME IInv, Turns, MaxConcurrentNodes = 1, NEW x \in Executions, Complete(x)
    PROVE  Passing'
<1>a. x \in Threads /\ x # "trigger"
  BY EngineAssumption DEF Threads
<1> USE DEF MayGo, At, Early
<1>1. CASE FindNode(x)
  <2>1. MayGo(x, "done") /\ MayGo(x, "settle")
    BY <1>1, <1>a DEF FindNode, Token, Carries
  <2>. QED BY <1>1, <1>a, <2>1, GotoQuiet, ReadNodesQuiet DEF FindNode, Return
<1>2. CASE CountNode(x)
  <2>1. MayGo(x, "counted")
    BY <1>2, <1>a DEF CountNode, ReadRun, Token, Carries
  <2>. QED BY <1>2, <1>a, <2>1, ReadRunQuiet DEF CountNode
<1>3. CASE WriteCounters(x)
  <2> DEFINE label == IF Bad(x) /\ OnFailure = "stop" THEN "stop" ELSE "advance"
  <2>1. MayGo(x, label) /\ Goto(x, label)
    BY <1>3, <1>a DEF WriteCounters, Token, Carries
  <2>. QED BY <1>3, <1>a, <2>1, GotoQuiet DEF WriteCounters
<1>4. CASE ReadSkipped(x)
  <2>1. MayGo(x, "skipping")
    BY <1>4, <1>a DEF ReadSkipped
  <2>. QED BY <1>4, <1>a, <2>1, ReadNodesQuiet DEF ReadSkipped
<1>5. CASE SkipNode(x)
  BY <1>5, <1>a, SetNextQuiet DEF SkipNode
<1>6. CASE Skipped(x)
  <2>1. MayGo(x, "fail") /\ MayGo(x, "done")
    BY <1>6, <1>a DEF Skipped
  <2>. QED BY <1>6, <1>a, <2>1, GotoQuiet DEF Skipped, Return
<1>7. CASE FailRun(x)
  <2>1. MayGo(x, "finish")
    BY <1>7, <1>a DEF FailRun, ReadRun
  <2>. QED BY <1>7, <1>a, <2>1, ReadRunQuiet DEF FailRun
<1>8. CASE CheckEnd(x)
  <2>1. MayGo(x, "end") /\ MayGo(x, "done")
    BY <1>8, <1>a DEF CheckEnd
  <2>. QED BY <1>8, <1>a, <2>1, GotoQuiet, ReadNodesQuiet DEF CheckEnd, Return
<1>9. CASE EndRun(x)
  <2>1. MayGo(x, "finish")
    BY <1>9, <1>a DEF EndRun, ReadRun
  <2>. QED BY <1>9, <1>a, <2>1, ReadRunQuiet DEF EndRun
<1>10. CASE WriteRun(x)
  <2>1. MayGo(x, "done")
    BY <1>10, <1>a DEF WriteRun
  <2>. QED BY <1>10, <1>a, <2>1, GotoQuiet DEF WriteRun, Return
<1>. QED BY <1>a, <1>1, <1>2, <1>3, <1>4, <1>5, <1>6, <1>7, <1>8, <1>9, <1>10,
            SettleQuiet, AdvancePasses DEF Complete

LEMMA CancelPasses ==
    ASSUME IInv, Turns, CancelRead \/ Cancelling PROVE Passing'
<1>a. "cancel" \in Threads /\ "cancel" \notin Executions
  BY EngineAssumption DEF Threads
<1> USE DEF MayGo, At, Early
<1>1. CASE CancelRead
  <2>1. MayGo("cancel", "nodes")
    BY <1>1, <1>a DEF CancelRead, ReadRun
  <2>. QED BY <1>1, <1>a, <2>1, ReadRunQuiet DEF CancelRead
<1>2. CASE CancelReadNodes
  <2>1. MayGo("cancel", "cancelling")
    BY <1>2, <1>a DEF CancelReadNodes
  <2>. QED BY <1>2, <1>a, <2>1, ReadNodesQuiet DEF CancelReadNodes
<1>3. CASE CancelNode
  BY <1>3, <1>a, SetNextQuiet DEF CancelNode
<1>4. CASE CancelRun
  <2>1. MayGo("cancel", "done")
    BY <1>4, <1>a DEF CancelRun
  <2>. QED BY <1>4, <1>a, <2>1, GotoQuiet DEF CancelRun, Return
<1>. QED BY <1>1, <1>2, <1>3, <1>4 DEF Cancelling

(* What the queue has repeated stays repeated. *)
LEMMA RepeatedStays ==
    ASSUME TypeOK, [Next]_vars, Repeated PROVE Repeated'
<1>1. PICK x \in Executions : executions[x].retries > 0
  BY DEF Repeated
<1>2. executions \in [Executions -> ExecutionRow] /\ executions[x].retries \in 0..MaxRetries
      /\ MaxRetries \in Nat
  BY EngineAssumption DEF TypeOK, ExecutionRow
<1>3. ASSUME NEW y \in Executions, NEW e, executions' = [executions EXCEPT ![y] = e],
             e.retries = executions[y].retries \/ e.retries > 0
      PROVE Repeated'
  BY <1>1, <1>2, <1>3 DEF Repeated
<1>4. CASE executions' = executions
  BY <1>1, <1>4 DEF Repeated
<1>5. ASSUME NEW y \in Executions, NEW n, executions' = [executions EXCEPT ![y] =
                 [@ EXCEPT !.state = "created", !.job = n]]
      PROVE Repeated'
  <2>1. [executions[y] EXCEPT !.state = "created", !.job = n].retries = executions[y].retries
    BY <1>2 DEF ExecutionRow
  <2>. QED BY <1>3, <1>5, <2>1
<1>6. ASSUME NEW y \in Executions, NEW s, executions' = [executions EXCEPT ![y].state = s]
      PROVE Repeated'
  <2>1. [executions[y] EXCEPT !.state = s].retries = executions[y].retries
    BY <1>2 DEF ExecutionRow
  <2>. QED BY <1>3, <1>6, <2>1
<1>7. ASSUME NEW y \in Executions, Run(y) PROVE Repeated'
  <2>1. \A o : [executions[y] EXCEPT !.state = "ended", !.outcome = o].retries = executions[y].retries
    BY <1>2 DEF ExecutionRow
  <2>2. PICK o : executions' = [executions EXCEPT ![y] = [@ EXCEPT !.state = "ended", !.outcome = o]]
    BY <1>7 DEF Run, ExecutionEnds, EndsUnreported
  <2>. QED BY <1>3, <2>1, <2>2
<1>8. ASSUME NEW y \in Executions, QueueRetries(y) PROVE Repeated'
  <2>1. executions[y].retries \in 0..MaxRetries
    BY <1>2 DEF ExecutionRow
  <2>2. [executions[y] EXCEPT !.state = "queued", !.retries = executions[y].retries + 1].retries > 0
    BY <1>2, <2>1 DEF ExecutionRow
  <2>. QED BY <1>3, <1>8, <2>2 DEF QueueRetries
<1>0. ASSUME NEW y, NEW s, executions' = [executions EXCEPT ![y].state = s]
      PROVE Repeated'
  <2>1. CASE y \in Executions
    BY <1>0, <1>6, <2>1
  <2>2. CASE y \notin Executions
    BY <1>0, <1>2, <1>4, <2>2
  <2>. QED BY <2>1, <2>2
<1>9. ASSUME NEW t \in Threads, Advance(t) PROVE Repeated'
  <2>1. CASE EnqueueNode(t)
    BY <2>1, <1>0 DEF EnqueueNode
  <2>2. CASE CreateExecution(t)
    BY <2>2, <1>5 DEF CreateExecution, Unused
  <2>. QED BY <1>9, <2>1, <2>2, <1>4 DEF Advance, AdvanceRead, StartFails, SetNext, MarkRunning, Advanced
<1>10. CASE Trigger
  BY <1>10, <1>9, <1>4 DEF Trigger, CreateRun, ReadRoots, MarkReady, SetNext, MarkedReady, CreateNode, Threads
<1>11. CASE CancelRead \/ Cancelling
  BY <1>11, <1>4 DEF CancelRead, ReadRun, Cancelling, CancelReadNodes, CancelNode, SetNext, CancelRun
<1>12. ASSUME NEW y \in Executions, Complete(y) PROVE Repeated'
  BY <1>12, <1>9, <1>4 DEF Complete, FindNode, SettleNode, CountNode, ReadRun, WriteCounters,
     ReadSkipped, SkipNode, SetNext, Skipped, FailRun, CheckEnd, EndRun, WriteRun, Threads
<1>13. ASSUME NEW t \in Threads, CutOff(t) PROVE Repeated'
  BY <1>13, <1>0, <1>4 DEF CutOff, DropExecution
<1>. QED BY <1>4, <1>7, <1>8, <1>10, <1>11, <1>12, <1>13 DEF Next, vars

LEMMA TurnsStep ==
    ASSUME IInv, TurnsInv, MaxConcurrentNodes = 1, [Next]_vars PROVE TurnsInv'
<1> SUFFICES ASSUME ~Repeated' PROVE Turns'
  BY DEF TurnsInv
<1>1. Turns
  BY RepeatedStays DEF TurnsInv, IInv
<1>2. ~\E x \in Executions : QueueRetries(x)
  <2> SUFFICES ASSUME NEW x \in Executions, QueueRetries(x) PROVE Repeated'
    OBVIOUS
  <2>1. executions[x].retries \in 0..MaxRetries /\ MaxRetries \in Nat
    BY EngineAssumption DEF IInv, TypeOK, ExecutionRow
  <2>2. [executions[x] EXCEPT !.state = "queued", !.retries = executions[x].retries + 1].retries > 0
    BY <2>1 DEF IInv, TypeOK, ExecutionRow
  <2>. QED BY <2>2 DEF QueueRetries, Repeated, IInv, TypeOK
<1>3. Passing'
  <2>1. CASE UNCHANGED vars
    BY <1>1, <2>1 DEF vars, Turns, Passing, OneToken, Token, Carries, OnTheWay, At
  <2>2. CASE Next
    BY <1>1, <1>2, <2>2, TriggerPasses, CompletePasses, CancelPasses,
       RunPasses, CutOffPasses DEF Next
  <2>. QED BY <2>1, <2>2
<1>4. ~AdvancesMeet /\ ~AdvancesMeet'
  <2>1. OneToken /\ OneToken'
    BY <1>1, <1>3 DEF Turns, Passing
  <2>2. OneToken' => ~AdvancesMeet'
    BY DEF OneToken, Token, Carries, AdvancesMeet, Starting, At
  <2>. QED BY <2>1, <2>2, NobodyMeets
<1>. QED BY <1>1, <1>3, <1>4, SlotsStep DEF Turns

(* An execution in flight is where the token is. *)
LEMMA OneInFlight ==
    ASSUME IInv, Turns, MaxConcurrentNodes = 1 PROVE LimitIsKept
<1>1. \A x \in Executions : x \in Threads /\ x # NoExecution
  BY EngineAssumption DEF Threads
<1>2. \A x \in InFlight : \/ executions[x].state = "queued" /\ Token(x) /\ At(x, "start")
                          \/ \E t \in Threads : /\ Token(t) /\ frame[t].execution = x
                                                /\ At(t, "created") \/ At(t, "enqueue")
  BY <1>1 DEF InFlight, Turns, Passing, OnTheWay, Token, Carries, IInv, Ties, HandedOver, At
<1>3. ASSUME NEW x \in InFlight, NEW y \in InFlight PROVE x = y
  BY <1>1, <1>2 DEF Turns, Passing, OneToken, At, InFlight
<1>4. InFlight = {} \/ \E x \in InFlight : InFlight = {x}
  BY <1>3
<1>5. Cardinality(InFlight) \in {0, 1}
  BY <1>4, FS_EmptySet, FS_Singleton
<1>. QED BY <1>5 DEF LimitIsKept

(* With one slot the invariant holds throughout; with more, neither property
   says anything. *)
LEMMA TurnsAreTaken == Spec => [](StartsOnce /\ NodesTakeTurns)
<1>1. CASE MaxConcurrentNodes = 1
  <2>1. Init => TurnsInv
    BY TurnsInit DEF TurnsInv
  <2>2. IInv /\ TurnsInv /\ [Next]_vars => TurnsInv'
    BY <1>1, TurnsStep
  <2>3. IInv /\ TurnsInv => StartsOnce /\ NodesTakeTurns
    BY <1>1, OneInFlight DEF TurnsInv, Turns, SlotsInv, RunsInOrder, StartsOnce, NodesTakeTurns
  <2>. QED BY <2>1, <2>2, <2>3, InitIInv, NextIInv, PTL DEF Spec
<1>2. CASE MaxConcurrentNodes # 1
  <2>1. StartsOnce /\ NodesTakeTurns
    BY <1>2 DEF StartsOnce, NodesTakeTurns
  <2>. QED BY <2>1, PTL
<1>. QED BY <1>1, <1>2

(* StartsOnce holds of every graph, whenever somebody cancels and whatever
   fails: a node leaves "waiting" before its execution goes to the queue, and no
   stale row brings it back.  If it cannot be marked it stays "waiting", and its
   execution never goes to the queue. *)
THEOREM NoJobStartsTwice == Spec => []StartsOnce
BY TurnsAreTaken, PTL

(* NodesTakeTurns holds of every graph: the token is never doubled, so
   completions never meet, the limit is kept, and a node is started only when
   all it depends on is over.  With more than one slot, or after the queue has
   run an execution again, completions do meet: the property says so. *)
THEOREM NodesRunInTurn == Spec => []NodesTakeTurns
BY TurnsAreTaken, PTL
=============================================================================
