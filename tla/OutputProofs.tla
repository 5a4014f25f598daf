---------------------------- MODULE OutputProofs ----------------------------
(* The output of an execution, from the program to the client.             *)
(* PythonRunner: whatever the program writes, however much of it the pipes *)
(* and the channel hold and whichever steps fail, a run loses no line of   *)
(* its output, leaves no process of its own behind and calls nothing a     *)
(* success that was not one. ExecutionStream: while no two attempts of an  *)
(* execution overlap its entries reach every client in their order, none   *)
(* twice and none left out.                                                *)
EXTENDS PythonRunner, ExecutionStream, FiniteSetTheorems, TLAPS

Runners ==
    [streaming : BOOLEAN,
     at : {"spawn", "wait", "kill", "collect", "done", "dropped"},
     timed_out : BOOLEAN,
     exit_code : {None} \cup Codes,
     result : {None, "success", "failed", "timeout", "memory"}]

(* TypeOK, with the sequences as such *)
Typed ==
    /\ runner \in Runners
    /\ child \in {None, "running", "killed"} \cup Codes /\ orphan \in BOOLEAN
    /\ left \in 0..MaxLines
    /\ written \in [Pipes -> Seq(Lines)] /\ output \in [Pipes -> Seq(Lines)]
    /\ pipe \in [Pipes -> Seq(Lines)] /\ reader \in [Pipes -> {"reading", "done"}]
    /\ channel \in Seq(Pipes \X Lines) /\ shown \in Seq(Pipes \X Lines)

Bounded == (\A p \in Pipes : Len(pipe[p]) <= PipeSize) /\ Len(channel) <= ChannelSize

(* There is no process before it is spawned, and its exit code is not lost. *)
CodeKept ==
    /\ runner.at = "spawn" => child = None
    /\ runner.exit_code # None => child = runner.exit_code

(* Nothing that a verdict rests on changes once it is given. *)
VerdictKept ==
    runner.result = "success" =>
        /\ runner.at = "done" /\ runner.exit_code = "0" /\ ~runner.timed_out
        /\ \A p \in Pipes : reader[p] = "done"
        /\ "MemoryError" \notin ToSet(output["stderr"])

IInv == Typed /\ Bounded /\ CodeKept /\ VerdictKept /\ NoProcessLeft

-----------------------------------------------------------------------------
(* The elements of a sequence over S are in S. *)
LEMMA Elements ==
    ASSUME NEW S, NEW s \in Seq(S)
    PROVE  ToSet(s) \subseteq S
BY DEF ToSet

(* What the invariant says is what the properties ask for. *)
LEMMA Implied ==
    ASSUME IInv
    PROVE  TypeOK /\ SuccessIsReal
<1>1. \A p \in Pipes : ToSet(written[p]) \subseteq Lines /\ ToSet(output[p]) \subseteq Lines
  BY Elements DEF IInv, Typed
<1>2. ToSet(shown) \subseteq Pipes \X Lines
  BY Elements DEF IInv, Typed
<1>3. TypeOK
  BY <1>1, <1>2 DEF IInv, Typed, Bounded, Runners, TypeOK
<1>4. SuccessIsReal
  BY DEF IInv, CodeKept, VerdictKept, SuccessIsReal, None
<1> QED
  BY <1>3, <1>4

LEMMA Initially == Init => IInv
<1> SUFFICES ASSUME Init PROVE IInv
  OBVIOUS
<1>1. Typed
  <2>1. runner \in Runners
    BY DEF Init, Runners
  <2>2. << >> \in Seq(Lines) /\ << >> \in Seq(Pipes \X Lines)
    OBVIOUS
  <2> QED
    BY <2>1, <2>2 DEF Init, Typed
<1>2. Bounded
  BY RunnerAssumption DEF Init, Bounded
<1> QED
  BY <1>1, <1>2 DEF Init, IInv, CodeKept, VerdictKept, NoProcessLeft, Over, None

-----------------------------------------------------------------------------
(* The program and the process: neither reads anything or moves the runner. *)
LEMMA ProgramSteps ==
    ASSUME IInv, Program \/ Fork \/ OrphanEnds \/ Killed
    PROVE  IInv'
<1> USE DEF IInv
<1>1. ASSUME NEW p \in Pipes, NEW line \in Lines, Write(p, line)
      PROVE  IInv'
  <2>1. written' \in [Pipes -> Seq(Lines)] /\ left' \in 0..MaxLines
    BY <1>1, RunnerAssumption DEF Write, Typed
  <2>2. pipe' \in [Pipes -> Seq(Lines)]
    BY <1>1 DEF Write, Typed
  <2>3. Typed'
    BY <1>1, <2>1, <2>2 DEF Write, Typed
  <2>4. Bounded'
    <3>1. CASE Open(p)
      <4>1. Len(Append(pipe[p], line)) <= PipeSize
        BY <1>1, <3>1, RunnerAssumption DEF Write, Typed
      <4> QED
        BY <1>1, <3>1, <4>1 DEF Write, Typed, Bounded
    <3>2. CASE ~Open(p)
      BY <1>1, <3>2 DEF Write, Bounded
    <3> QED
      BY <3>1, <3>2
  <2> QED
    BY <1>1, <2>3, <2>4 DEF Write, CodeKept, VerdictKept, NoProcessLeft, Over
<1>2. ASSUME NEW code \in Codes, Exit(code)
      PROVE  IInv'
  BY <1>2 DEF Exit, io, Typed, Runners, Bounded, CodeKept, VerdictKept, NoProcessLeft, Over, None, Codes
<1>3. ASSUME Fork \/ OrphanEnds
      PROVE  IInv'
  BY <1>3 DEF Fork, OrphanEnds, io, Typed, Bounded, CodeKept, VerdictKept, NoProcessLeft, Over
<1>4. ASSUME Killed
      PROVE  IInv'
  BY <1>4 DEF Killed, io, Typed, Runners, Bounded, CodeKept, VerdictKept, NoProcessLeft, Over, None, Codes
<1> QED
  BY <1>1, <1>2, <1>3, <1>4 DEF Program

(* The tasks: a task that is done reads no more, so a verdict stands. *)
LEMMA TaskSteps ==
    ASSUME IInv, Tasks
    PROVE  IInv'
<1> USE DEF IInv
<1>1. ASSUME NEW p \in Pipes, Read(p)
      PROVE  IInv'
  <2>1. CodeKept' /\ NoProcessLeft'
    BY <1>1 DEF Read, CodeKept, NoProcessLeft, Over
  <2>2. runner.result # "success"
    BY <1>1 DEF Read, Open, VerdictKept
  <2>3. VerdictKept'
    BY <1>1, <2>2 DEF Read, VerdictKept
  <2>4. CASE Head(pipe[p]) = "bad bytes"
    <3>0. /\ reader' = [reader EXCEPT ![p] = "done"]
          /\ pipe' = [pipe EXCEPT ![p] = << >>]
          /\ UNCHANGED <<output, channel, runner, child, orphan, left, written, shown>>
      BY <1>1, <2>4 DEF Read
    <3>1. Typed'
      BY <3>0 DEF Typed
    <3>2. Bounded'
      BY <3>0, RunnerAssumption DEF Typed, Bounded
    <3> QED
      BY <2>1, <2>3, <3>1, <3>2
  <2>5. CASE Head(pipe[p]) # "bad bytes"
    <3> DEFINE line == Head(pipe[p])
    <3>1. /\ pipe[p] \in Seq(Lines) /\ pipe[p] # << >>
          /\ runner.streaming => Len(channel) < ChannelSize
          /\ pipe' = [pipe EXCEPT ![p] = Tail(@)]
          /\ output' = [output EXCEPT ![p] = Append(@, line)]
          /\ channel' = IF runner.streaming THEN Append(channel, <<p, line>>) ELSE channel
          /\ UNCHANGED <<reader, runner, child, orphan, left, written, shown>>
      BY <1>1, <2>5 DEF Read, Typed
    <3>2. line \in Lines /\ Tail(pipe[p]) \in Seq(Lines)
      BY <3>1
    <3>3. output' \in [Pipes -> Seq(Lines)] /\ pipe' \in [Pipes -> Seq(Lines)]
      BY <3>1, <3>2 DEF Typed
    <3>4. channel' \in Seq(Pipes \X Lines) /\ Len(channel') <= ChannelSize
      BY <3>1, <3>2, RunnerAssumption DEF Typed, Bounded
    <3>5. Len(Tail(pipe[p])) <= PipeSize
      BY <3>1, RunnerAssumption DEF Bounded
    <3>6. Typed'
      BY <3>1, <3>3, <3>4 DEF Typed
    <3>7. Bounded'
      BY <3>1, <3>4, <3>5 DEF Typed, Bounded
    <3> QED
      BY <2>1, <2>3, <3>6, <3>7
  <2> QED
    BY <2>4, <2>5
<1>2. ASSUME NEW p \in Pipes, EndOfFile(p)
      PROVE  IInv'
  BY <1>2 DEF EndOfFile, Typed, Bounded, CodeKept, VerdictKept, NoProcessLeft, Over
<1>3. ASSUME Show
      PROVE  IInv'
  <2>1. channel' \in Seq(Pipes \X Lines) /\ shown' \in Seq(Pipes \X Lines)
    BY <1>3 DEF Show, Typed
  <2>2. Len(channel') <= ChannelSize
    BY <1>3, RunnerAssumption DEF Show, Typed, Bounded
  <2> QED
    BY <1>3, <2>1, <2>2 DEF Show, io, Typed, Bounded, CodeKept, VerdictKept, NoProcessLeft, Over
<1> QED
  BY <1>1, <1>2, <1>3 DEF Tasks

(* A step of the runner or of the process that reads and writes no line *)
LEMMA RunnerMoves ==
    ASSUME IInv, UNCHANGED <<orphan, io, channel, shown>>, runner' \in Runners,
           child' \in {None, "running", "killed"} \cup Codes,
           CodeKept', NoProcessLeft', VerdictKept'
    PROVE  IInv'
<1>1. Typed' /\ Bounded'
  BY DEF IInv, io, Typed, Bounded
<1> QED
  BY <1>1 DEF IInv

(* The runner: it leaves with the process ended, or ends it. *)
LEMMA RunnerSteps ==
    ASSUME IInv, Run \/ WaitFails \/ Timeout \/ Drop
    PROVE  IInv'
<1> USE DEF IInv, Goto
<1>a. runner \in Runners /\ child \in {None, "running", "killed"} \cup Codes
  BY DEF Typed
<1>1. ASSUME Spawn \/ SpawnFails
      PROVE  IInv'
  BY <1>1 DEF Spawn, SpawnFails, io, Typed, Runners, Bounded, CodeKept, VerdictKept,
              NoProcessLeft, Over, None, Codes
<1>2. ASSUME Waited \/ WaitFails \/ Timeout
      PROVE  IInv'
  <2>1. UNCHANGED <<child, orphan, io, channel, shown>> /\ runner.at = "wait"
    BY <1>2 DEF Waited, WaitFails, Timeout
  <2>2. runner' \in Runners
    BY <1>2, <1>a DEF Waited, WaitFails, Timeout, Code, Runners, None, Codes
  <2>3. CodeKept' /\ NoProcessLeft'
    BY <1>2, <1>a, <2>1 DEF Waited, WaitFails, Timeout, Code, Runners, CodeKept, NoProcessLeft,
                            Over, None, Codes
  <2>4. VerdictKept'
    <3>1. runner.result # "success" /\ runner'.result = runner.result
      BY <1>2, <1>a, <2>1 DEF Waited, WaitFails, Timeout, Runners, VerdictKept
    <3> QED
      BY <3>1 DEF VerdictKept
  <2> QED
    BY <1>a, <2>1, <2>2, <2>3, <2>4, RunnerMoves
<1>3. ASSUME Kill \/ Drop
      PROVE  IInv'
  <2>1. /\ UNCHANGED <<orphan, io, channel, shown>> /\ runner.at \in {"wait", "kill", "collect"}
        /\ child' = IF child = "running" THEN "killed" ELSE child
        /\ \E to \in {"collect", "dropped"} : runner' = [runner EXCEPT !.at = to]
    BY <1>3 DEF Kill, Drop
  <2>2. runner' \in Runners /\ child' \in {None, "running", "killed"} \cup Codes
    BY <1>a, <2>1 DEF Runners
  <2>3. CodeKept' /\ NoProcessLeft'
    BY <1>a, <2>1 DEF Runners, CodeKept, NoProcessLeft, Over, None, Codes
  <2>4. VerdictKept'
    <3>1. runner.result # "success" /\ runner'.result = runner.result
      BY <1>a, <2>1 DEF Runners, VerdictKept
    <3> QED
      BY <3>1 DEF VerdictKept
  <2> QED
    BY <2>1, <2>2, <2>3, <2>4, RunnerMoves
<1>4. ASSUME Collect
      PROVE  IInv'
  <2>1. Status \in {"success", "failed", "timeout", "memory"}
    BY DEF Status
  <2>2. Status = "success" => /\ ~runner.timed_out /\ runner.exit_code = "0"
                              /\ "MemoryError" \notin ToSet(output["stderr"])
    BY DEF Status, check_memory_exceeded, Typed, Runners
  <2>3. runner' = [runner EXCEPT !.at = "done", !.result = Status]
    BY <1>4 DEF Collect
  <2>4. VerdictKept'
    BY <1>4, <2>2, <2>3 DEF Collect, io, Typed, Runners, VerdictKept
  <2>5. Typed'
    BY <1>4, <2>1, <2>3 DEF Collect, io, Typed, Runners
  <2> QED
    BY <1>4, <2>3, <2>4, <2>5 DEF Collect, io, Typed, Runners, Bounded, CodeKept,
                                  NoProcessLeft, Over, None, Codes
<1> QED
  BY <1>1, <1>2, <1>3, <1>4 DEF Run

(* The invariant holds throughout. *)
THEOREM Invariance == Spec => []IInv
<1>1. IInv /\ [Next]_vars => IInv'
  <2> SUFFICES ASSUME IInv, [Next]_vars PROVE IInv'
    OBVIOUS
  <2>1. CASE Next
    BY <2>1, ProgramSteps, TaskSteps, RunnerSteps DEF Next
  <2>2. CASE UNCHANGED vars
    BY <2>2 DEF vars, io, IInv, Typed, Bounded, CodeKept, VerdictKept, NoProcessLeft, Over
  <2> QED
    BY <2>1, <2>2
<1> QED
  BY Initially, <1>1, PTL DEF Spec

-----------------------------------------------------------------------------
(* The variables keep their types, and neither a pipe nor the channel to
   on_output holds more than it has room for. *)
THEOREM TypeCorrect == Spec => []TypeOK
<1>1. IInv => TypeOK
  BY Implied
<1> QED
  BY Invariance, <1>1, PTL

(* No process outlives its run, whether it was waited for, timed out, could
   not be waited for or the worker dropped the run. *)
THEOREM ProcessesEnd == Spec => []NoProcessLeft
<1>1. IInv => NoProcessLeft
  BY DEF IInv
<1> QED
  BY Invariance, <1>1, PTL

(* A result that says success is of a process that ended by itself with 0, in
   time and without a memory error in what was read of it. *)
THEOREM SuccessesAreReal == Spec => []SuccessIsReal
<1>1. IInv => SuccessIsReal
  BY Implied
<1> QED
  BY Invariance, <1>1, PTL

-----------------------------------------------------------------------------
(* What is where: the lines of a pipe that is being read are the ones read and
   the ones inside; reading stops at the end, or at a line that is not UTF-8. *)
Unreadable == "bad bytes"
StoppedAtBadBytes(p) ==
    /\ Len(output[p]) < Len(written[p])
    /\ \A i \in 1..Len(output[p]) : written[p][i] = output[p][i]
    /\ written[p][Len(output[p]) + 1] = Unreadable

NothingLost ==
    \A p \in Pipes :
        IF Open(p) THEN written[p] = output[p] \o pipe[p]
        ELSE \/ written[p] = output[p] /\ child \notin {None, "running"} /\ ~orphan
             \/ StoppedAtBadBytes(p)

(* Before the process there is nothing, and at the end everything is read. *)
Settled ==
    /\ child = None => channel = << >> /\ ~orphan /\ \A p \in Pipes : pipe[p] = << >>
    /\ runner.at = "done" => channel = << >> /\ (child = None \/ \A p \in Pipes : ~Open(p))

(* The k-th line of a pipe that goes through the channel is the k-th that was read. *)
InOrder(items, out) ==
    \A i \in DOMAIN items :
        LET p == items[i][1]
            place == Passed(SubSeq(items, 1, i), p)
        IN  place \in DOMAIN out[p] /\ items[i][2] = out[p][place]

AllPassed(items, out) == \A p \in Pipes : Passed(items, p) = Len(out[p])

ChannelKept ==
    IF runner.streaming
    THEN InOrder(shown \o channel, output) /\ AllPassed(shown \o channel, output)
    ELSE shown = << >> /\ channel = << >>

OInv == NothingLost /\ Settled /\ ChannelKept

LEMMA AppendToSecond ==
    ASSUME NEW S, NEW s \in Seq(S), NEW t \in Seq(S), NEW e \in S
    PROVE  s \o Append(t, e) = Append(s \o t, e)
OBVIOUS

LEMMA HeadAcross ==
    ASSUME NEW S, NEW s \in Seq(S), NEW t \in Seq(S), t # << >>
    PROVE  /\ Append(s, Head(t)) \o Tail(t) = s \o t
           /\ Len(s) < Len(s \o t) /\ (s \o t)[Len(s) + 1] = Head(t)
           /\ \A i \in 1..Len(s) : (s \o t)[i] = s[i]
OBVIOUS

LEMMA FirstOfBoth ==
    ASSUME NEW S, NEW s \in Seq(S), NEW t \in Seq(S), NEW i \in DOMAIN s
    PROVE  /\ i \in DOMAIN (s \o t) /\ (s \o t)[i] = s[i]
           /\ SubSeq(s \o t, 1, i) = SubSeq(s, 1, i)
OBVIOUS

LEMMA StoppedStays ==
    ASSUME NEW S, NEW s \in Seq(S), NEW t \in Seq(S), NEW e \in S, NEW bad, Len(s) < Len(t),
           \A i \in 1..Len(s) : t[i] = s[i], t[Len(s) + 1] = bad
    PROVE  /\ Len(s) < Len(Append(t, e)) /\ Append(t, e)[Len(s) + 1] = bad
           /\ \A i \in 1..Len(s) : Append(t, e)[i] = s[i]
<1>1. Len(s) \in Nat /\ Len(t) \in Nat
  OBVIOUS
<1>2. Len(Append(t, e)) = Len(t) + 1 /\ \A i \in 1..Len(t) : Append(t, e)[i] = t[i]
  OBVIOUS
<1>3. Len(s) + 1 \in 1..Len(t) /\ \A i \in 1..Len(s) : i \in 1..Len(t)
  BY <1>1
<1>. QED BY <1>1, <1>2, <1>3

LEMMA StrictPrefix ==
    ASSUME NEW S, NEW s \in Seq(S), NEW t \in Seq(S), Len(s) < Len(t),
           \A i \in 1..Len(s) : t[i] = s[i]
    PROVE  IsStrictPrefix(s, t)
<1>1. SubSeq(s, 1, Len(s)) = s /\ SubSeq(t, 1, Len(s)) = s
  OBVIOUS
<1>2. s # t /\ Len(s) <= Len(t)
  OBVIOUS
<1>. QED BY <1>1, <1>2 DEF IsStrictPrefix, IsPrefix

LEMMA PassedNone == \A p : Passed(<< >>, p) = 0
<1> TAKE p
<1>1. {i \in DOMAIN << >> : << >>[i][1] = p} = {}
  OBVIOUS
<1>. QED BY <1>1, FS_EmptySet DEF Passed

LEMMA PassedOneMore ==
    ASSUME NEW S, NEW items \in Seq(S), NEW item \in S, NEW p
    PROVE  /\ Passed(items, p) \in Nat
           /\ Passed(Append(items, item), p) = Passed(items, p) + (IF item[1] = p THEN 1 ELSE 0)
<1> DEFINE more == Append(items, item)
           before == {i \in DOMAIN items : items[i][1] = p}
           after == {i \in DOMAIN more : more[i][1] = p}
           last == Len(items) + 1
<1>1. IsFiniteSet(before) /\ Cardinality(before) \in Nat
  <2>1. before \subseteq 1..Len(items) /\ Len(items) \in Int
    OBVIOUS
  <2>2. IsFiniteSet(1..Len(items))
    BY <2>1, FS_Interval
  <2> HIDE DEF before
  <2>. QED BY <2>1, <2>2, FS_Subset, FS_CardinalityType
<1>2. after = IF item[1] = p THEN before \cup {last} ELSE before
  <2>1. DOMAIN more = DOMAIN items \cup {last} /\ last \notin DOMAIN items /\ more[last] = item
        /\ \A i \in DOMAIN items : more[i] = items[i]
    OBVIOUS
  <2> HIDE DEF more, last
  <2>. QED BY <2>1
<1>3. last \notin before
  OBVIOUS
<1>4. Cardinality(before \cup {last}) = Cardinality(before) + 1
  BY <1>1, <1>3, FS_AddElement
<1>5. Passed(items, p) = Cardinality(before) /\ Passed(more, p) = Cardinality(after)
  BY DEF Passed
<1> HIDE DEF before, after, last, more
<1>6. Passed(more, p) = Passed(items, p) + (IF item[1] = p THEN 1 ELSE 0)
  BY <1>1, <1>2, <1>4, <1>5
<1>. QED BY <1>1, <1>5, <1>6 DEF more

LEMMA OInit == Init => OInv
<1> SUFFICES ASSUME Init PROVE OInv
  OBVIOUS
<1>1. NothingLost
  BY DEF Init, NothingLost, Open
<1>2. Settled
  BY DEF Init, Settled, None
<1>3. shown \o channel = << >> /\ shown = << >> /\ channel = << >>
  BY DEF Init
<1>4. \A p \in Pipes : Len(output[p]) = 0
  BY DEF Init
<1>5. ChannelKept
  BY <1>3, <1>4, PassedNone DEF ChannelKept, InOrder, AllPassed
<1>. QED BY <1>1, <1>2, <1>5 DEF OInv

(* A line that is written goes into the pipe, or comes after the one that
   stopped the reading. *)
LEMMA WriteKeepsOutput ==
    ASSUME IInv, OInv, NEW p \in Pipes, NEW line \in Lines, Write(p, line) PROVE OInv'
<1>1. /\ written \in [Pipes -> Seq(Lines)] /\ output \in [Pipes -> Seq(Lines)]
      /\ pipe \in [Pipes -> Seq(Lines)]
      /\ written' = [written EXCEPT ![p] = Append(@, line)]
      /\ pipe' = IF Open(p) THEN [pipe EXCEPT ![p] = Append(@, line)] ELSE pipe
      /\ child = "running" \/ orphan
      /\ UNCHANGED <<runner, child, orphan, reader, output, channel, shown>>
  BY DEF IInv, Typed, Write
<1>2. NothingLost'
  <2> SUFFICES ASSUME NEW q \in Pipes
               PROVE IF Open(q) THEN written'[q] = output[q] \o pipe'[q]
                     ELSE \/ written'[q] = output[q] /\ child \notin {None, "running"} /\ ~orphan
                          \/ StoppedAtBadBytes(q)'
    BY <1>1 DEF NothingLost, Open
  <2>1. CASE q # p
    <3>1. written'[q] = written[q] /\ pipe'[q] = pipe[q] /\ output'[q] = output[q]
      BY <1>1, <2>1
    <3>2. IF Open(q) THEN written[q] = output[q] \o pipe[q]
          ELSE \/ written[q] = output[q] /\ child \notin {None, "running"} /\ ~orphan
               \/ StoppedAtBadBytes(q)
      BY DEF OInv, NothingLost
    <3>3. StoppedAtBadBytes(q) => StoppedAtBadBytes(q)'
      BY <3>1 DEF StoppedAtBadBytes
    <3>. QED BY <3>1, <3>2, <3>3
  <2>2. CASE q = p /\ Open(p)
    <3>1. written'[p] = Append(written[p], line) /\ pipe'[p] = Append(pipe[p], line)
      BY <1>1, <2>2
    <3>2. written[p] = output[p] \o pipe[p]
      BY <2>2 DEF OInv, NothingLost
    <3>3. output[p] \o Append(pipe[p], line) = Append(output[p] \o pipe[p], line)
      BY <1>1, AppendToSecond
    <3>4. written'[p] = output[p] \o pipe'[p]
      BY <3>1, <3>2, <3>3
    <3>. QED BY <2>2, <3>4
  <2>3. CASE q = p /\ ~Open(p)
    <3>1. written'[p] = Append(written[p], line) /\ written[p] \in Seq(Lines) /\ output[p] \in Seq(Lines)
      BY <1>1
    <3>2. StoppedAtBadBytes(p)
      BY <1>1, <2>3 DEF OInv, NothingLost
    <3> DEFINE more == Append(written[p], line)
    <3>0. /\ Len(output[p]) < Len(written[p]) /\ written[p][Len(output[p]) + 1] = Unreadable
          /\ \A i \in 1..Len(output[p]) : written[p][i] = output[p][i]
      BY <3>2 DEF StoppedAtBadBytes
    <3>a. /\ Len(output[p]) < Len(more) /\ more[Len(output[p]) + 1] = Unreadable
          /\ \A i \in 1..Len(output[p]) : more[i] = output[p][i]
      <4> DEFINE all == written[p]
                 read == output[p]
      <4>1. /\ all \in Seq(Lines) /\ read \in Seq(Lines)
            /\ Len(read) < Len(all) /\ all[Len(read) + 1] = Unreadable
            /\ \A i \in 1..Len(read) : all[i] = read[i]
        BY <3>0, <3>1
      <4> HIDE DEF all, read
      <4>2. /\ Len(read) < Len(Append(all, line)) /\ Append(all, line)[Len(read) + 1] = Unreadable
            /\ \A i \in 1..Len(read) : Append(all, line)[i] = read[i]
        BY <4>1, StoppedStays
      <4>. QED BY <4>2 DEF all, read
    <3>b. output' = output /\ written'[p] = more
      BY <1>1, <3>1
    <3> HIDE DEF more
    <3>3. StoppedAtBadBytes(p)'
      BY <3>a, <3>b DEF StoppedAtBadBytes
    <3>. QED BY <2>3, <3>3
  <2>. QED BY <2>1, <2>2, <2>3
<1>3. Settled'
  BY <1>1 DEF OInv, Settled, Open, None
<1>4. ChannelKept'
  BY <1>1 DEF OInv, ChannelKept, InOrder, AllPassed
<1>. QED BY <1>2, <1>3, <1>4 DEF OInv

(* The process and the runner touch no line. *)
LEMMA EndsKeepOutput ==
    ASSUME IInv, OInv, UNCHANGED <<io, channel, shown>>, runner'.streaming = runner.streaming,
           child = None => child' = child \/ (child' = "running" /\ runner'.at # "done"),
           child # None => child' # None,
           child \notin {None, "running"} => child' = child,
           orphan' => orphan \/ child = "running",
           runner'.at = "done" => runner.at = "done" \/ child' = None
                                  \/ (channel = << >> /\ \A p \in Pipes : ~Open(p))
    PROVE  OInv'
<1>1. UNCHANGED <<left, written, pipe, reader, output, channel, shown>>
  BY DEF io
<1>2. NothingLost'
  BY <1>1 DEF OInv, NothingLost, Open, StoppedAtBadBytes
<1>3. Settled'
  BY <1>1 DEF OInv, Settled, Open, None
<1>4. ChannelKept'
  BY <1>1 DEF OInv, ChannelKept, InOrder, AllPassed
<1>. QED BY <1>2, <1>3, <1>4 DEF OInv

LEMMA ProcessKeepsOutput ==
    ASSUME IInv, OInv, \/ \E code \in Codes : Exit(code)
                       \/ Fork \/ OrphanEnds \/ Killed \/ Run \/ WaitFails \/ Timeout \/ Drop
    PROVE  OInv'
<1> USE DEF IInv, Goto, None, Typed, Runners, Codes
<1>1. CASE \E code \in Codes : Exit(code)
  BY <1>1, EndsKeepOutput DEF Exit
<1>2. CASE Fork \/ OrphanEnds \/ Killed
  BY <1>2, EndsKeepOutput DEF Fork, OrphanEnds, Killed
<1>3. CASE Spawn
  BY <1>3, EndsKeepOutput DEF Spawn, CodeKept
<1>4. CASE SpawnFails
  BY <1>4, EndsKeepOutput DEF SpawnFails, CodeKept
<1>5. CASE Waited \/ WaitFails \/ Timeout
  <2>1. /\ runner'.streaming = runner.streaming /\ runner'.at # "done"
        /\ UNCHANGED <<child, orphan, io, channel, shown>>
    BY <1>5 DEF Waited, WaitFails, Timeout
  <2>. QED BY <2>1, EndsKeepOutput
<1>6. CASE Kill \/ Drop
  BY <1>6, EndsKeepOutput DEF Kill, Drop
<1>7. CASE Collect
  <2>1. /\ runner'.streaming = runner.streaming
        /\ child' = (IF child = "running" THEN "killed" ELSE child) /\ orphan' = orphan
        /\ channel = << >> /\ (\A p \in Pipes : ~Open(p)) /\ UNCHANGED <<io, channel, shown>>
    BY <1>7 DEF Collect, Open
  <2>. QED BY <2>1, EndsKeepOutput
<1>. QED BY <1>1, <1>2, <1>3, <1>4, <1>5, <1>6, <1>7 DEF Run

(* A line that is read comes last, in its pipe's output and in the channel. *)
LEMMA OneMoreInOrder ==
    ASSUME NEW items \in Seq(Pipes \X Lines), NEW out \in [Pipes -> Seq(Lines)],
           InOrder(items, out), AllPassed(items, out), NEW p \in Pipes, NEW line \in Lines
    PROVE  LET more == Append(items, <<p, line>>)
               longer == [out EXCEPT ![p] = Append(@, line)]
           IN  InOrder(more, longer) /\ AllPassed(more, longer)
<1> DEFINE item == <<p, line>>
           more == Append(items, item)
           longer == [out EXCEPT ![p] = Append(@, line)]
           last == Len(items) + 1
<1>1. item \in Pipes \X Lines /\ item[1] = p /\ item[2] = line
  OBVIOUS
<1>2. /\ out[p] \in Seq(Lines) /\ Len(out[p]) \in Nat
      /\ longer[p] = Append(out[p], line) /\ \A q \in Pipes \ {p} : longer[q] = out[q]
  OBVIOUS
<1>3. /\ Len(longer[p]) = Len(out[p]) + 1 /\ longer[p][Len(out[p]) + 1] = line
      /\ DOMAIN longer[p] = 1..(Len(out[p]) + 1) /\ DOMAIN out[p] = 1..Len(out[p])
      /\ \A i \in DOMAIN out[p] : longer[p][i] = out[p][i]
  BY <1>2
<1>4. \A q \in Pipes : \A i \in DOMAIN out[q] : i \in DOMAIN longer[q] /\ longer[q][i] = out[q][i]
  BY <1>2, <1>3
<1> HIDE DEF longer, item
<1>5. /\ DOMAIN more = DOMAIN items \cup {last} /\ more[last] = item /\ more \in Seq(Pipes \X Lines)
      /\ \A i \in DOMAIN items : more[i] = items[i] /\ SubSeq(more, 1, i) = SubSeq(items, 1, i)
      /\ SubSeq(more, 1, last) = more
  BY <1>1
<1>6. \A q \in Pipes : /\ Passed(items, q) \in Nat
                       /\ Passed(more, q) = Passed(items, q) + (IF q = p THEN 1 ELSE 0)
  BY <1>1, PassedOneMore
<1>7. \A i \in DOMAIN items : items[i][1] \in Pipes
  OBVIOUS
<1> HIDE DEF more, last
<1>8. AllPassed(more, longer)
  BY <1>2, <1>3, <1>6 DEF AllPassed
<1>9. \A i \in DOMAIN items :
        LET q == more[i][1]
            place == Passed(SubSeq(more, 1, i), q)
        IN  place \in DOMAIN longer[q] /\ more[i][2] = longer[q][place]
  <2> TAKE i \in DOMAIN items
  <2> DEFINE q == items[i][1]
             place == Passed(SubSeq(items, 1, i), q)
  <2>1. q \in Pipes /\ more[i] = items[i] /\ SubSeq(more, 1, i) = SubSeq(items, 1, i)
    BY <1>5, <1>7
  <2>2. place \in DOMAIN out[q] /\ items[i][2] = out[q][place]
    BY DEF InOrder
  <2>3. place \in DOMAIN longer[q] /\ longer[q][place] = out[q][place]
    BY <1>4, <2>1, <2>2
  <2>. QED BY <2>1, <2>2, <2>3
<1>10. Passed(more, p) \in DOMAIN longer[p] /\ more[last][2] = longer[p][Passed(more, p)]
  BY <1>1, <1>2, <1>3, <1>5, <1>6 DEF AllPassed
<1>11. InOrder(more, longer)
  BY <1>1, <1>5, <1>9, <1>10 DEF InOrder
<1>. QED BY <1>8, <1>11 DEF more, longer, item

LEMMA ReadKeepsOutput ==
    ASSUME IInv, OInv, NEW p \in Pipes, Read(p) PROVE OInv'
<1> DEFINE line == Head(pipe[p])
<1>1. /\ output \in [Pipes -> Seq(Lines)] /\ pipe \in [Pipes -> Seq(Lines)]
      /\ reader \in [Pipes -> {"reading", "done"}]
      /\ shown \in Seq(Pipes \X Lines) /\ channel \in Seq(Pipes \X Lines)
      /\ pipe[p] \in Seq(Lines) /\ output[p] \in Seq(Lines)
  BY DEF IInv, Typed
<1>2. pipe[p] # << >> /\ UNCHANGED <<runner, child, orphan, left, written, shown>>
  BY DEF Read
<1>3. line \in Lines
  BY <1>1, <1>2
<1>4. written[p] = output[p] \o pipe[p]
  BY DEF OInv, NothingLost, Read
<1>5. /\ Append(output[p], line) \o Tail(pipe[p]) = written[p]
      /\ Len(output[p]) < Len(written[p]) /\ written[p][Len(output[p]) + 1] = line
      /\ \A i \in 1..Len(output[p]) : written[p][i] = output[p][i]
  <2> DEFINE ahead == output[p]
             inside == pipe[p]
  <2>1. ahead \in Seq(Lines) /\ inside \in Seq(Lines) /\ inside # << >>
    BY <1>1, <1>2
  <2> HIDE DEF ahead, inside
  <2>2. /\ Append(ahead, Head(inside)) \o Tail(inside) = ahead \o inside
        /\ Len(ahead) < Len(ahead \o inside) /\ (ahead \o inside)[Len(ahead) + 1] = Head(inside)
        /\ \A i \in 1..Len(ahead) : (ahead \o inside)[i] = ahead[i]
    BY <2>1, HeadAcross
  <2>. QED BY <1>4, <2>2 DEF ahead, inside
<1>6. child # None /\ runner.at # "done" /\ Open(p)
  BY <1>1, <1>2 DEF OInv, Settled, Read
<1>7. Settled'
  BY <1>1, <1>6, <1>2 DEF Settled
<1>8. CASE line = "bad bytes"
  <2>1. /\ reader' = [reader EXCEPT ![p] = "done"] /\ pipe' = [pipe EXCEPT ![p] = << >>]
        /\ output' = output /\ channel' = channel
    BY <1>8 DEF Read
  <2>2. StoppedAtBadBytes(p)'
    BY <1>1, <1>5, <1>8, <2>1, <1>2 DEF StoppedAtBadBytes, Unreadable
  <2>3. NothingLost'
    <3>1. /\ ~Open(p)' /\ UNCHANGED <<written, output, child, orphan>>
          /\ \A q \in Pipes \ {p} : Open(q)' = Open(q) /\ pipe'[q] = pipe[q]
      BY <1>1, <1>2, <2>1 DEF Open
    <3>2. \A q \in Pipes : StoppedAtBadBytes(q)' = StoppedAtBadBytes(q)
      BY <3>1 DEF StoppedAtBadBytes
    <3>3. ASSUME NEW q \in Pipes \ {p}
          PROVE  IF Open(q)' THEN written'[q] = output'[q] \o pipe'[q]
                 ELSE \/ written'[q] = output'[q] /\ child' \notin {None, "running"} /\ ~orphan'
                      \/ StoppedAtBadBytes(q)'
      <4>1. IF Open(q) THEN written[q] = output[q] \o pipe[q]
            ELSE \/ written[q] = output[q] /\ child \notin {None, "running"} /\ ~orphan
                 \/ StoppedAtBadBytes(q)
        BY DEF OInv, NothingLost
      <4>. QED BY <3>1, <3>2, <4>1
    <3>. QED BY <2>2, <3>1, <3>3 DEF NothingLost
  <2>4. ChannelKept'
    BY <1>1, <2>1, <1>2 DEF OInv, ChannelKept
  <2>. QED BY <1>7, <2>3, <2>4 DEF OInv
<1>9. CASE line # "bad bytes"
  <2>1. /\ pipe' = [pipe EXCEPT ![p] = Tail(@)] /\ output' = [output EXCEPT ![p] = Append(@, line)]
        /\ channel' = (IF runner.streaming THEN Append(channel, <<p, line>>) ELSE channel)
        /\ reader' = reader
    BY <1>9 DEF Read
  <2>2. NothingLost'
    <3>1. written'[p] = output'[p] \o pipe'[p]
      BY <1>1, <1>5, <2>1, <1>2
    <3>2. \A q \in Pipes \ {p} : output'[q] = output[q] /\ pipe'[q] = pipe[q]
      BY <1>1, <2>1, <1>2
    <3>3. \A q \in Pipes : Open(q)' = Open(q) /\ written'[q] = written[q]
      BY <1>1, <2>1, <1>2 DEF Open
    <3>4. ASSUME NEW q \in Pipes \ {p}
          PROVE  IF Open(q) THEN written'[q] = output'[q] \o pipe'[q]
                 ELSE \/ written'[q] = output'[q] /\ child \notin {None, "running"} /\ ~orphan
                      \/ StoppedAtBadBytes(q)'
      <4>1. IF Open(q) THEN written[q] = output[q] \o pipe[q]
            ELSE \/ written[q] = output[q] /\ child \notin {None, "running"} /\ ~orphan
                 \/ StoppedAtBadBytes(q)
        BY DEF OInv, NothingLost
      <4>2. StoppedAtBadBytes(q) => StoppedAtBadBytes(q)'
        BY <3>2, <3>3 DEF StoppedAtBadBytes
      <4>3. output'[q] = output[q] /\ pipe'[q] = pipe[q] /\ written'[q] = written[q]
        BY <3>2, <3>3
      <4>. QED BY <4>1, <4>2, <4>3
    <3>. QED BY <1>2, <1>6, <3>1, <3>3, <3>4 DEF NothingLost
  <2>3. ChannelKept'
    <3>1. CASE runner.streaming
      <4> DEFINE items == shown \o channel
      <4>1. items \in Seq(Pipes \X Lines) /\ <<p, line>> \in Pipes \X Lines
        BY <1>1, <1>3
      <4>2. shown \o Append(channel, <<p, line>>) = Append(items, <<p, line>>)
        <5> DEFINE item == <<p, line>>
                   Items == Pipes \X Lines
        <5>1. shown \in Seq(Items) /\ channel \in Seq(Items) /\ item \in Items
          BY <1>1, <4>1
        <5> HIDE DEF item, Items
        <5>2. shown \o Append(channel, item) = Append(shown \o channel, item)
          BY <5>1, AppendToSecond
        <5>. QED BY <5>2 DEF item
      <4>3. shown' \o channel' = Append(items, <<p, line>>)
        BY <1>2, <2>1, <3>1, <4>2
      <4>4. InOrder(items, output) /\ AllPassed(items, output)
        BY <3>1 DEF OInv, ChannelKept
      <4> HIDE DEF items, line
      <4>5. InOrder(Append(items, <<p, line>>), output') /\ AllPassed(Append(items, <<p, line>>), output')
        BY <1>1, <1>3, <2>1, <4>1, <4>4, OneMoreInOrder
      <4>. QED BY <1>1, <3>1, <1>2, <4>3, <4>5 DEF ChannelKept
    <3>2. CASE ~runner.streaming
      BY <1>1, <2>1, <1>2, <3>2 DEF OInv, ChannelKept
    <3>. QED BY <3>1, <3>2
  <2>. QED BY <1>7, <2>2, <2>3 DEF OInv
<1>. QED BY <1>8, <1>9

LEMMA ShowKeepsOutput ==
    ASSUME IInv, OInv, Show PROVE OInv'
<1>1. /\ shown \in Seq(Pipes \X Lines) /\ channel \in Seq(Pipes \X Lines) /\ channel # << >>
      /\ channel' = Tail(channel) /\ shown' = Append(shown, Head(channel))
      /\ UNCHANGED <<runner, child, orphan, left, written, pipe, reader, output>>
  BY DEF IInv, Typed, Show, io
<1>2. shown' \o channel' = shown \o channel
  BY <1>1, HeadAcross
<1>3. NothingLost' /\ Settled'
  BY <1>1 DEF OInv, NothingLost, Settled, Open, StoppedAtBadBytes
<1>4. ChannelKept'
  BY <1>1, <1>2 DEF OInv, ChannelKept
<1>. QED BY <1>3, <1>4 DEF OInv

LEMMA EndOfFileKeepsOutput ==
    ASSUME IInv, OInv, NEW p \in Pipes, EndOfFile(p) PROVE OInv'
<1>1. /\ Open(p) /\ pipe[p] = << >> /\ child \notin {None, "running"} /\ ~orphan
      /\ reader' = [reader EXCEPT ![p] = "done"] /\ reader \in [Pipes -> {"reading", "done"}]
      /\ UNCHANGED <<runner, child, orphan, left, written, pipe, output, channel, shown>>
      /\ output[p] \in Seq(Lines)
  BY DEF IInv, Typed, EndOfFile
<1>2. written[p] = output[p]
  <2>1. output[p] \o << >> = output[p]
    BY <1>1
  <2>. QED BY <1>1, <2>1 DEF OInv, NothingLost
<1>3. NothingLost'
  BY <1>1, <1>2 DEF OInv, NothingLost, Open, StoppedAtBadBytes
<1>4. Settled'
  BY <1>1 DEF OInv, Settled, Open
<1>5. ChannelKept'
  BY <1>1 DEF OInv, ChannelKept
<1>. QED BY <1>3, <1>4, <1>5 DEF OInv

(* What is shown is the part that came through of what was sent. *)
LEMMA OutputImplied ==
    ASSUME IInv, OInv PROVE OutputIsComplete
<1>1. /\ \A p \in Pipes : output[p] \in Seq(Lines) /\ written[p] \in Seq(Lines)
      /\ shown \in Seq(Pipes \X Lines) /\ channel \in Seq(Pipes \X Lines)
  BY DEF IInv, Typed
<1>2. ResultIsComplete
  <2> SUFFICES ASSUME runner.at = "done", child # None, NEW p \in Pipes, output[p] # written[p]
               PROVE  IsStrictPrefix(output[p], written[p])
                      /\ written[p][Len(output[p]) + 1] = "bad bytes"
    BY DEF ResultIsComplete
  <2>1. StoppedAtBadBytes(p)
    BY DEF OInv, Settled, NothingLost
  <2>2. IsStrictPrefix(output[p], written[p])
    BY <1>1, <2>1, StrictPrefix DEF StoppedAtBadBytes
  <2>. QED BY <2>1, <2>2 DEF StoppedAtBadBytes, Unreadable
<1>3. CASE runner.streaming
  <2> DEFINE items == shown \o channel
  <2>1. InOrder(items, output) /\ AllPassed(items, output)
    BY <1>3 DEF OInv, ChannelKept
  <2>2. \A i \in DOMAIN shown : /\ i \in DOMAIN items /\ items[i] = shown[i]
                                /\ SubSeq(items, 1, i) = SubSeq(shown, 1, i)
    BY <1>1, FirstOfBoth
  <2>3. runner.at = "done" => items = shown
    <3>1. shown \o << >> = shown
      BY <1>1
    <3>. QED BY <3>1 DEF OInv, Settled
  <2> HIDE DEF items
  <2>4. InOrder(shown, output)
    BY <2>1, <2>2 DEF InOrder
  <2>5. ShownInOrder
    BY <2>1, <2>3, <2>4 DEF InOrder, AllPassed, ShownInOrder
  <2>. QED BY <1>2, <2>5 DEF OutputIsComplete
<1>4. CASE ~runner.streaming
  <2>1. shown = << >>
    BY <1>4 DEF OInv, ChannelKept
  <2>2. DOMAIN shown = {}
    BY <2>1
  <2>3. ShownInOrder
    BY <1>4, <2>2 DEF ShownInOrder
  <2>. QED BY <1>2, <2>3 DEF OutputIsComplete
<1>. QED BY <1>3, <1>4

(* OutputIsComplete holds for any number of lines, whatever the program leaves
   behind and whenever it is killed: the tasks read on until the pipe is closed
   by everybody or a line cannot be read, and the runner waits for them. *)
THEOREM OutputsAreComplete == Spec => []OutputIsComplete
<1>1. IInv /\ OInv /\ [Next]_vars => OInv'
  <2> SUFFICES ASSUME IInv, OInv, [Next]_vars PROVE OInv'
    OBVIOUS
  <2>1. CASE Next
    BY <2>1, WriteKeepsOutput, ProcessKeepsOutput, ReadKeepsOutput, ShowKeepsOutput,
       EndOfFileKeepsOutput DEF Next, Program, Tasks
  <2>2. CASE UNCHANGED vars
    BY <2>2 DEF vars, io, OInv, NothingLost, Settled, ChannelKept, Open, StoppedAtBadBytes
  <2>. QED BY <2>1, <2>2
<1>2. IInv /\ OInv => OutputIsComplete
  BY OutputImplied
<1>. QED BY Invariance, OInit, <1>1, <1>2, PTL DEF Spec

-----------------------------------------------------------------------------
(* The log of an execution: what is stored, and what has been sent of it *)

Times == Nat
Entries == 1..clock
Hands == [at : {"waiting", "done"} \cup UnderWay, entry : Nat, row : BOOLEAN]
Following ==
    [at : {"idle", "fetch", "check", "ended", "closed"}, last : BOOLEAN, sent : Seq(Times)]

LogTyped ==
    /\ exists \in BOOLEAN /\ completed \in BOOLEAN /\ alone \in BOOLEAN
    /\ clock \in Nat /\ rows \in Seq(Times)
    /\ attempt \in [Attempts -> Hands]
    /\ stream \in [Streams -> Following]

(* Every created_at was taken from the clock. *)
Stamped ==
    /\ \A i \in DOMAIN rows : rows[i] \in Entries
    /\ \A a \in Attempts : attempt[a].entry <= clock
    /\ \A s \in Streams : \A i \in DOMAIN stream[s].sent : stream[s].sent[i] \in Entries

OneRuns ==
    alone => \A a, b \in Attempts :
        attempt[a].at \in UnderWay /\ attempt[b].at \in UnderWay => a = b

(* An attempt has an entry in its hands only where it writes one. *)
EmptyHands == \A a \in Attempts : attempt[a].at \notin Kinds => attempt[a].entry = 0

(* What an attempt that is alone has in its hands is newer than all there is:
   wherever the INSERTs before it have failed, its own adds the last row. *)
NewestInHand ==
    alone => \A a \in Attempts : attempt[a].entry # 0 =>
        \A i \in DOMAIN rows : rows[i] < attempt[a].entry

LogInv == LogTyped /\ Stamped /\ EmptyHands /\ OneRuns /\ NewestInHand /\ SentInOrder

LEMMA PrefixIs ==
    ASSUME NEW S, NEW s \in Seq(S), NEW t \in Seq(S)
    PROVE  IsPrefix(s, t) <=> (Len(s) <= Len(t) /\ \A i \in 1..Len(s) : s[i] = t[i])
<1>1. Len(s) \in Nat /\ Len(t) \in Nat
  OBVIOUS
<1>2. CASE Len(s) <= Len(t)
  <2>1. SubSeq(s, 1, Len(s)) = [i \in 1..Len(s) |-> s[i]]
    BY <1>1
  <2>2. SubSeq(t, 1, Len(s)) = [i \in 1..Len(s) |-> t[i]]
    BY <1>1, <1>2
  <2>3. (SubSeq(s, 1, Len(s)) = SubSeq(t, 1, Len(s))) <=> \A i \in 1..Len(s) : s[i] = t[i]
    BY <2>1, <2>2
  <2>. QED BY <1>2, <2>3 DEF IsPrefix
<1>3. CASE ~(Len(s) <= Len(t))
  BY <1>3 DEF IsPrefix
<1>. QED BY <1>2, <1>3

LEMMA Joined ==
    ASSUME NEW S, NEW s \in Seq(S), NEW t \in Seq(S)
    PROVE  /\ s \o t \in Seq(S)
           /\ Len(s \o t) = Len(s) + Len(t)
           /\ \A i \in 1..Len(s) : (s \o t)[i] = s[i]
           /\ \A i \in (Len(s) + 1)..(Len(s) + Len(t)) : (s \o t)[i] = t[i - Len(s)]
<1>1. s \o t \in Seq(S)
  OBVIOUS
<1>2. Len(s \o t) = Len(s) + Len(t)
  OBVIOUS
<1>3. \A i \in 1..Len(s) : (s \o t)[i] = s[i]
  OBVIOUS
<1>4. \A i \in (Len(s) + 1)..(Len(s) + Len(t)) : (s \o t)[i] = t[i - Len(s)]
  OBVIOUS
<1>. QED BY <1>1, <1>2, <1>3, <1>4

(* An element put after the first k of a sequence *)
LEMMA Inserted ==
    ASSUME NEW S, NEW s \in Seq(S), NEW e \in S, NEW k \in 0..Len(s)
    PROVE  /\ InsertAt(s, k + 1, e) \in Seq(S)
           /\ Len(InsertAt(s, k + 1, e)) = Len(s) + 1
           /\ \A i \in 1..(Len(s) + 1) : InsertAt(s, k + 1, e)[i] =
                  IF i <= k THEN s[i] ELSE IF i = k + 1 THEN e ELSE s[i - 1]
<1>. DEFINE l == SubSeq(s, 1, k)
            r == SubSeq(s, k + 1, Len(s))
<1>1. Len(s) \in Nat /\ k \in Nat /\ k <= Len(s) /\ (k + 1) - 1 = k
  OBVIOUS
<1>2. l \in Seq(S) /\ Len(l) = k
  BY <1>1
<1>3. \A i \in 1..k : l[i] = s[i]
  BY <1>1
<1>4. r \in Seq(S)
  BY <1>1
<1>5. Len(r) = Len(s) - k
  BY <1>1
<1>6. \A i \in 1..(Len(s) - k) : r[i] = s[k + i]
  BY <1>1
<1>7. InsertAt(s, k + 1, e) = (l \o <<e>>) \o r
  BY <1>1 DEF InsertAt
<1>. DEFINE u == <<e>>
<1>8. u \in Seq(S) /\ Len(u) = 1 /\ u[1] = e
  OBVIOUS
<1>. HIDE DEF l, r, u
<1>. DEFINE h == l \o u
<1>9. h \in Seq(S) /\ Len(h) = k + 1
      /\ (\A i \in 1..k : h[i] = l[i]) /\ (\A i \in (k + 1)..(k + 1) : h[i] = u[i - k])
  <2>1. /\ h \in Seq(S) /\ Len(h) = Len(l) + Len(u)
        /\ \A i \in 1..Len(l) : h[i] = l[i]
        /\ \A i \in (Len(l) + 1)..(Len(l) + Len(u)) : h[i] = u[i - Len(l)]
    <3>1. l \in Seq(S) /\ u \in Seq(S)
      BY <1>2, <1>8
    <3>. QED BY ONLY <3>1, Joined DEF h
  <2>. HIDE DEF h
  <2>. QED BY <1>1, <1>2, <1>8, <2>1
<1>10. \A i \in 1..(k + 1) : h[i] = IF i <= k THEN s[i] ELSE e
  <2>1. h[k + 1] = e
    BY <1>1, <1>8, <1>9
  <2>. QED BY <1>1, <1>3, <1>9, <2>1
<1>. HIDE DEF h
<1>11. h \o r \in Seq(S) /\ Len(h \o r) = Len(h) + Len(r)
       /\ (\A i \in 1..Len(h) : (h \o r)[i] = h[i])
       /\ \A i \in (Len(h) + 1)..(Len(h) + Len(r)) : (h \o r)[i] = r[i - Len(h)]
  BY <1>4, <1>9, Joined
<1>12. Len(h \o r) = Len(s) + 1
  BY <1>1, <1>5, <1>9, <1>11
<1>13. ASSUME NEW i \in 1..(Len(s) + 1)
       PROVE  (h \o r)[i] = IF i <= k THEN s[i] ELSE IF i = k + 1 THEN e ELSE s[i - 1]
  <2>1. i \in Nat /\ i >= 1
    BY <1>1, <1>13
  <2>2. CASE i <= k + 1
    <3>1. (h \o r)[i] = h[i]
      BY <1>9, <1>11, <2>1, <2>2
    <3>. QED BY <1>1, <1>10, <2>1, <2>2, <3>1
  <2>3. CASE ~(i <= k + 1)
    <3>1. i - (k + 1) \in 1..(Len(s) - k) /\ k + (i - (k + 1)) = i - 1 /\ ~(i <= k) /\ i # k + 1
      BY <1>1, <1>13, <2>1, <2>3
    <3>2. i \in (Len(h) + 1)..(Len(h) + Len(r))
      BY <1>1, <1>5, <1>9, <1>13, <2>1, <2>3
    <3>3. (h \o r)[i] = r[i - Len(h)]
      BY <1>11, <3>2
    <3>. QED BY <1>6, <1>9, <3>1, <3>3
  <2>. QED BY <2>2, <2>3
<1>14. InsertAt(s, k + 1, e) = h \o r
  BY <1>7 DEF h, u
<1>. QED BY <1>11, <1>12, <1>13, <1>14

(* A row is put where its created_at belongs: *)
LEMMA RowIsAdded ==
    ASSUME NEW e \in Times, rows \in Seq(Times)
    PROVE  LET more == InsertAt(rows, Cardinality(Before(e)) + 1, e) IN
           /\ more \in Seq(Times)
           /\ \A i \in DOMAIN more : more[i] = e \/ \E j \in DOMAIN rows : more[i] = rows[j]
           /\ (\A i \in DOMAIN rows : rows[i] < e) => more = Append(rows, e)
<1>. DEFINE k == Cardinality(Before(e))
            more == InsertAt(rows, k + 1, e)
<1>1. Len(rows) \in Nat /\ DOMAIN rows = 1..Len(rows)
  OBVIOUS
<1>2. IsFiniteSet(1..Len(rows)) /\ Cardinality(1..Len(rows)) = Len(rows)
  BY <1>1, FS_Interval
<1>3. k \in Nat /\ k <= Len(rows)
  <2>1. Before(e) \subseteq 1..Len(rows)
    BY <1>1 DEF Before
  <2>2. IsFiniteSet(Before(e)) /\ Cardinality(Before(e)) <= Len(rows)
    BY <1>2, <2>1, FS_Subset
  <2>. QED BY <2>2, FS_CardinalityType
<1>5. (\A i \in DOMAIN rows : rows[i] < e) => k = Len(rows)
  <2>1. (\A i \in DOMAIN rows : rows[i] < e) => Before(e) = 1..Len(rows)
    BY <1>1 DEF Before
  <2>. QED BY <1>2, <2>1
<1>. HIDE DEF k
<1>8. more \in Seq(Times) /\ Len(more) = Len(rows) + 1
      /\ \A i \in 1..(Len(rows) + 1) :
            more[i] = IF i <= k THEN rows[i] ELSE IF i = k + 1 THEN e ELSE rows[i - 1]
  <2>1. k \in 0..Len(rows)
    BY <1>1, <1>3
  <2>2. e \in Times /\ rows \in Seq(Times)
    OBVIOUS
  <2>3. InsertAt(rows, k + 1, e) \in Seq(Times) /\ Len(InsertAt(rows, k + 1, e)) = Len(rows) + 1
        /\ \A i \in 1..(Len(rows) + 1) : InsertAt(rows, k + 1, e)[i] =
               IF i <= k THEN rows[i] ELSE IF i = k + 1 THEN e ELSE rows[i - 1]
    BY ONLY <2>1, <2>2, Inserted
  <2>. QED BY <2>3
<1>. HIDE DEF more
<1>9. ASSUME NEW i \in DOMAIN more PROVE more[i] = e \/ \E j \in DOMAIN rows : more[i] = rows[j]
  <2>1. i \in 1..(Len(rows) + 1) /\ i \in Nat
    BY <1>1, <1>8, <1>9
  <2>2. i <= k => i \in DOMAIN rows
    BY <1>1, <1>3, <2>1
  <2>3. i > k + 1 => i - 1 \in DOMAIN rows
    BY <1>1, <1>3, <2>1
  <2>. QED BY <1>3, <1>8, <2>1, <2>2, <2>3
<1>10. ASSUME \A i \in DOMAIN rows : rows[i] < e PROVE more = Append(rows, e)
  <2>1. k = Len(rows)
    BY <1>5, <1>10
  <2>2. Append(rows, e) \in Seq(Times) /\ Len(Append(rows, e)) = Len(rows) + 1
        /\ \A i \in 1..(Len(rows) + 1) : Append(rows, e)[i] = IF i <= Len(rows) THEN rows[i] ELSE e
    BY <1>1
  <2>3. \A i \in 1..(Len(rows) + 1) : more[i] = Append(rows, e)[i]
    BY <1>1, <1>8, <2>1, <2>2
  <2>. QED BY <1>8, <2>2, <2>3
<1>. QED BY <1>8, <1>9, <1>10 DEF k, more

-----------------------------------------------------------------------------
(* The attempts *)

(* An attempt that goes on, with nothing new in its hands, leaves the log alone. *)
LEMMA GoesOn ==
    ASSUME LogInv, NEW a \in Attempts, attempt[a].at \in UnderWay, NEW h \in Hands,
           attempt' = [attempt EXCEPT ![a] = h], h.entry \in {0, attempt[a].entry},
           h.at \notin Kinds => h.entry = 0, completed' \in BOOLEAN, UNCHANGED <<exists, log, alone, stream>>
    PROVE  LogInv'
<1>1. attempt' \in [Attempts -> Hands] /\ attempt'[a] = h
      /\ \A b \in Attempts \ {a} : attempt'[b] = attempt[b]
  BY DEF LogInv, LogTyped
<1>2. \A b \in Attempts :
        /\ attempt'[b].entry \in {0, attempt[b].entry} /\ attempt'[b].entry <= clock
        /\ attempt'[b].at \in UnderWay => attempt[b].at \in UnderWay
  BY <1>1 DEF LogInv, LogTyped, Stamped, Hands
<1>3. UNCHANGED <<clock, rows>>
  BY DEF log
<1>. QED BY <1>1, <1>2, <1>3 DEF LogInv, LogTyped, Stamped, OneRuns, EmptyHands, NewestInHand, SentInOrder, Entries

LEMMA AttemptSteps ==
    ASSUME LogInv, NEW a \in Attempts, Attempt(a)
    PROVE  LogInv'
<1>. DEFINE f == attempt[a]
<1>1. LogTyped /\ Stamped /\ OneRuns /\ EmptyHands /\ NewestInHand /\ SentInOrder
  BY DEF LogInv
<1>2. f \in Hands /\ rows \in Seq(Times) /\ clock \in Nat
      /\ \A s \in Streams : stream[s] \in Following /\ stream[s].sent \in Seq(Times)
  BY <1>1 DEF LogTyped, Following
<1>3. CASE ReadExecution(a)
  <2>1. PICK h \in Hands :
            /\ attempt' = [attempt EXCEPT ![a] = h]
            /\ h.entry = 0
    <3>1. \/ attempt' = [attempt EXCEPT ![a] = [f EXCEPT !.at = "mark", !.row = completed]]
          \/ attempt' = [attempt EXCEPT ![a] = [f EXCEPT !.at = "done"]]
      BY <1>3 DEF ReadExecution
    <3>2. f.entry = 0
      BY <1>1, <1>3 DEF ReadExecution, EmptyHands, Kinds
    <3>4. \A at \in {"mark", "done"}, row \in BOOLEAN :
            /\ [f EXCEPT !.at = at, !.row = row] \in Hands /\ [f EXCEPT !.at = at, !.row = row].entry = 0
            /\ [f EXCEPT !.at = at] \in Hands /\ [f EXCEPT !.at = at].entry = 0
      BY <1>2, <3>2 DEF Hands, UnderWay
    <3>3. completed \in BOOLEAN
      BY <1>1 DEF LogTyped
    <3>. QED BY <3>1, <3>3, <3>4
  <2>2. /\ f.at = "waiting" /\ UNCHANGED <<exists, completed, clock, rows, stream>>
        /\ alone' = (alone /\ \A b \in Attempts \ {a} : attempt[b].at \notin UnderWay)
    BY <1>3 DEF ReadExecution, log
  <2>3. attempt' \in [Attempts -> Hands] /\ attempt'[a] = h
        /\ \A b \in Attempts \ {a} : attempt'[b] = attempt[b]
    BY <1>1, <2>1 DEF LogTyped
  <2>4. \A b \in Attempts : attempt'[b].entry \in {0, attempt[b].entry}
    BY <2>1, <2>3
  <2>5. f.at \notin UnderWay
    BY <2>2 DEF UnderWay, Kinds
  <2>6. alone' \in BOOLEAN /\ (alone' => alone /\ \A b \in Attempts : attempt[b].at \notin UnderWay)
    BY <1>1, <2>2, <2>5 DEF LogTyped
  <2>7. LogTyped' /\ Stamped'
    BY <1>1, <1>2, <2>2, <2>3, <2>4, <2>6 DEF LogTyped, Stamped, Entries
  <2>8. OneRuns'
    BY <2>3, <2>6 DEF OneRuns
  <2>9. NewestInHand' /\ EmptyHands'
    BY <1>1, <2>1, <2>2, <2>3, <2>4, <2>6 DEF NewestInHand, EmptyHands
  <2>10. SentInOrder'
    BY <1>1, <2>2, <2>6 DEF SentInOrder
  <2>. QED BY <2>7, <2>8, <2>9, <2>10 DEF LogInv
<1>4. CASE SetRunning(a)
  <2>1. f.at \in UnderWay /\ completed' \in BOOLEAN /\ UNCHANGED <<exists, log, alone, stream>>
    BY <1>1, <1>2, <1>4 DEF SetRunning, UnderWay, Hands, LogTyped
  <2>2. \A at \in {"started", "done"} : LET h == [f EXCEPT !.at = at, !.row = FALSE] IN
            h \in Hands /\ h.entry = 0
    <3>1. f.entry = 0
      BY <1>1, <1>4 DEF SetRunning, EmptyHands, Kinds
    <3>. QED BY <1>2, <3>1 DEF Hands, UnderWay, Kinds
  <2>3. \E at \in {"started", "done"} :
            attempt' = [attempt EXCEPT ![a] = [f EXCEPT !.at = at, !.row = FALSE]]
    BY <1>4 DEF SetRunning
  <2>. QED BY <2>1, <2>2, <2>3, GoesOn
<1>5. CASE Stamp(a)
  <2>. DEFINE h == [f EXCEPT !.entry = clock + 1]
  <2>1. f.at \in UnderWay /\ clock' = clock + 1 /\ attempt' = [attempt EXCEPT ![a] = h]
        /\ UNCHANGED <<exists, completed, rows, alone, stream>>
    BY <1>5 DEF Stamp, UnderWay
  <2>2. h \in Hands /\ h.entry = clock + 1 /\ h.at = f.at
    BY <1>2 DEF Hands
  <2>. HIDE DEF h
  <2>3. attempt' \in [Attempts -> Hands] /\ attempt'[a] = h
        /\ \A b \in Attempts \ {a} : attempt'[b] = attempt[b]
    BY <1>1, <2>1, <2>2 DEF LogTyped
  <2>4. \A b \in Attempts : attempt[b].entry \in Nat
    BY <1>1 DEF LogTyped, Hands
  <2>5. LogTyped'
    BY <1>1, <1>2, <2>1, <2>3 DEF LogTyped
  <2>6. Stamped'
    <3>1. \A b \in Attempts : attempt'[b].entry <= clock'
      BY <1>1, <1>2, <2>1, <2>2, <2>3, <2>4 DEF Stamped
    <3>2. Entries \subseteq Entries'
      BY <1>2, <2>1 DEF Entries
    <3>. QED BY <1>1, <2>1, <3>1, <3>2 DEF Stamped
  <2>7. OneRuns' /\ EmptyHands'
    BY <1>1, <1>5, <2>1, <2>2, <2>3 DEF OneRuns, EmptyHands, Stamp
  <2>8. NewestInHand'
    <3>1. ASSUME alone, NEW b \in Attempts, attempt'[b].entry # 0, NEW i \in DOMAIN rows
          PROVE  rows[i] < attempt'[b].entry
      <4>1. b = a
        <5>1. b # a => attempt[b].at \in UnderWay
          BY <1>1, <2>3, <3>1 DEF EmptyHands, UnderWay
        <5>. QED BY <1>1, <2>1, <3>1, <5>1 DEF OneRuns
      <4>2. rows[i] <= clock /\ rows[i] \in Nat
        BY <1>1, <1>2, <3>1 DEF Stamped, Entries
      <4>. QED BY <1>2, <2>2, <2>3, <4>1, <4>2
    <3>. QED BY <2>1, <3>1 DEF NewestInHand
  <2>9. SentInOrder'
    BY <1>1, <2>1 DEF SentInOrder
  <2>. QED BY <2>5, <2>6, <2>7, <2>8, <2>9 DEF LogInv
<1>6. CASE Insert(a)
  <2>. DEFINE e == f.entry  more == InsertAt(rows, Cardinality(Before(e)) + 1, e)
  <2>1. PICK next \in After(f.at) :
            /\ f.at \in Kinds /\ e # 0
            /\ attempt' = [attempt EXCEPT ![a] = [f EXCEPT !.at = next, !.entry = 0]]
            /\ UNCHANGED <<exists, completed, clock, alone, stream>>
    BY <1>6 DEF Insert
  <2>2. CASE rows' = rows
    <3>1. next \in {"done"} \cup UnderWay /\ f.at \in UnderWay
      BY <2>1 DEF After, Kinds, UnderWay
    <3>. DEFINE h == [f EXCEPT !.at = next, !.entry = 0]
    <3>2. h \in Hands /\ h.entry = 0
      BY <1>2, <3>1 DEF Hands
    <3>3. UNCHANGED <<exists, log, alone, stream>> /\ completed' \in BOOLEAN
      BY <1>1, <2>1, <2>2 DEF log, LogTyped
    <3>. QED BY <2>1, <3>1, <3>2, <3>3, GoesOn
  <2>3. CASE rows' # rows
    <3>1. exists /\ rows' = more
      BY <1>6, <2>3 DEF Insert
    <3>2. e \in Nat /\ e <= clock
      BY <1>1, <1>2 DEF Hands, Stamped
    <3>z. e \in Times
      BY <3>2 DEF Times
    <3>3. /\ more \in Seq(Times)
          /\ \A i \in DOMAIN more : more[i] = e \/ \E j \in DOMAIN rows : more[i] = rows[j]
          /\ (\A i \in DOMAIN rows : rows[i] < e) => more = Append(rows, e)
      BY <1>2, <3>z, RowIsAdded
    <3>. HIDE DEF more
    <3>. DEFINE h == [f EXCEPT !.at = next, !.entry = 0]
    <3>4. next \in {"done"} \cup UnderWay /\ f.at \in UnderWay
      BY <2>1 DEF After, Kinds, UnderWay
    <3>5. h \in Hands /\ h.entry = 0
      BY <1>2, <3>4 DEF Hands
    <3>6. attempt' = [attempt EXCEPT ![a] = h]
      BY <2>1
    <3>. HIDE DEF h
    <3>7. attempt' \in [Attempts -> Hands] /\ attempt'[a] = h
          /\ \A b \in Attempts \ {a} : attempt'[b] = attempt[b]
      BY <1>1, <3>5, <3>6 DEF LogTyped
    <3>8. LogTyped'
      BY <1>1, <2>1, <3>1, <3>3, <3>7 DEF LogTyped
    <3>9. Stamped'
      <4>1. \A i \in DOMAIN more : more[i] \in Entries
        <5>1. e \in Entries
          BY <1>2, <2>1, <3>2 DEF Entries
        <5>. QED BY <1>1, <3>3, <5>1 DEF Stamped
      <4>2. \A b \in Attempts : attempt'[b].entry <= clock
        BY <1>1, <1>2, <3>5, <3>7 DEF Stamped
      <4>. QED BY <1>1, <2>1, <3>1, <4>1, <4>2 DEF Stamped, Entries
    <3>10. OneRuns' /\ EmptyHands'
      BY <1>1, <2>1, <3>4, <3>5, <3>7 DEF OneRuns, EmptyHands
    <3>11. NewestInHand'
      <4>1. ASSUME alone, NEW b \in Attempts, attempt'[b].entry # 0
            PROVE  FALSE
        <5>1. b # a
          BY <3>5, <3>7, <4>1
        <5>2. attempt[b].at \in UnderWay
          BY <1>1, <3>7, <4>1, <5>1 DEF EmptyHands, UnderWay
        <5>. QED BY <1>1, <3>4, <4>1, <5>1, <5>2 DEF OneRuns
      <4>. QED BY <2>1, <4>1 DEF NewestInHand
    <3>12. SentInOrder'
      <4>1. ASSUME alone, NEW s \in Streams PROVE IsPrefix(stream[s].sent, more)
        <5>1. more = Append(rows, e)
          BY <1>1, <2>1, <3>3, <3>4, <4>1 DEF NewestInHand
        <5>2. IsPrefix(stream[s].sent, rows)
          BY <1>1, <3>1, <4>1 DEF SentInOrder
        <5>. DEFINE sent == stream[s].sent
        <5>3. sent \in Seq(Times)
          BY <1>2
        <5>. HIDE DEF sent
        <5>4. IsPrefix(sent, rows)
          BY <5>2 DEF sent
        <5>5. Len(sent) \in Nat /\ Len(rows) \in Nat /\ Len(sent) <= Len(rows)
              /\ \A i \in 1..Len(sent) : sent[i] = rows[i]
          BY <1>2, <5>3, <5>4, PrefixIs
        <5>6. Len(more) = Len(rows) + 1 /\ \A i \in 1..Len(rows) : more[i] = rows[i]
          BY <1>2, <3>z, <5>1
        <5>7. Len(sent) <= Len(more) /\ \A i \in 1..Len(sent) : sent[i] = more[i]
          BY <5>5, <5>6
        <5>8. IsPrefix(sent, more)
          BY <3>3, <5>3, <5>7, PrefixIs
        <5>. QED BY <5>8 DEF sent
      <4>. QED BY <2>1, <3>1, <4>1 DEF SentInOrder
    <3>. QED BY <3>8, <3>9, <3>10, <3>11, <3>12 DEF LogInv
  <2>. QED BY <2>2, <2>3
<1>7. CASE Finalize(a) \/ Settle(a)
  <2>1. PICK to \in {"settle", "completed"} :
            /\ attempt' = [attempt EXCEPT ![a] = [f EXCEPT !.at = to]]
            /\ f.at \in UnderWay
            /\ UNCHANGED <<exists, log, alone, stream>> /\ completed' \in BOOLEAN
    BY <1>1, <1>7 DEF Finalize, Settle, Moves, LogTyped, UnderWay
  <2>. DEFINE h == [f EXCEPT !.at = to]
  <2>2. h \in Hands /\ h.entry = 0
    <3>1. f.entry = 0
      BY <1>1, <1>7 DEF Finalize, Settle, Moves, EmptyHands, Kinds
    <3>. QED BY <1>2, <3>1 DEF Hands, UnderWay, Kinds
  <2>. QED BY <2>1, <2>2, GoesOn
<1>. QED BY <1>3, <1>4, <1>5, <1>6, <1>7 DEF Attempt

-----------------------------------------------------------------------------
(* The streams *)

(* What is sent once a page that ends at m follows. *)
Extended(sent, all, m) == sent \o SubSeq(all, Len(sent) + 1, m)

LEMMA ExtendedSequence ==
    ASSUME NEW S, NEW all \in Seq(S), NEW sent \in Seq(S), NEW m \in Nat,
           Len(sent) <= m, m <= Len(all),
           \A i \in 1..Len(sent) : sent[i] = all[i]
    PROVE  /\ Extended(sent, all, m) \in Seq(S)
           /\ Len(Extended(sent, all, m)) = m
           /\ \A i \in 1..m : Extended(sent, all, m)[i] = all[i]
<1>. DEFINE page == SubSeq(all, Len(sent) + 1, m)
<1>1. page \in Seq(S)
  OBVIOUS
<1>2. Len(page) = m - Len(sent)
  OBVIOUS
<1>3. \A i \in 1..(m - Len(sent)) : page[i] = all[Len(sent) + i]
  OBVIOUS
<1>4. Len(sent) \in Nat
  OBVIOUS
<1>. HIDE DEF page
<1>5. sent \o page \in Seq(S)
  BY <1>1
<1>6. Len(sent \o page) = m
  <2>1. Len(sent \o page) = Len(sent) + Len(page)
    BY <1>1
  <2>. QED BY <1>2, <1>4, <2>1
<1>7. ASSUME NEW i \in 1..m PROVE (sent \o page)[i] = all[i]
  <2>1. CASE i <= Len(sent)
    BY <1>1, <1>2, <2>1
  <2>2. CASE ~(i <= Len(sent))
    <3>1. i - Len(sent) \in 1..(m - Len(sent)) /\ Len(sent) + (i - Len(sent)) = i
      BY <1>4, <2>2
    <3>2. page[i - Len(sent)] = all[i]
      BY <1>3, <3>1
    <3>3. (sent \o page)[i] = page[i - Len(sent)]
      BY <1>1, <1>2, <2>2
    <3>. QED BY <3>2, <3>3
  <2>. QED BY <2>1, <2>2
<1>. QED BY <1>5, <1>6, <1>7 DEF Extended, page

LEMMA PartOf ==
    ASSUME NEW S, NEW all \in Seq(S), NEW n \in Nat, NEW m \in Nat, m <= Len(all)
    PROVE  LET page == SubSeq(all, n + 1, m) IN
           /\ page \in Seq(S)
           /\ \A i \in DOMAIN page : page[i] = all[n + i] /\ n + i \in DOMAIN all
<1>1. Len(all) \in Nat /\ DOMAIN all = 1..Len(all)
  OBVIOUS
<1>2. CASE n + 1 <= m
  <2>1. SubSeq(all, n + 1, m) \in Seq(S)
    BY <1>1, <1>2
  <2>2. Len(SubSeq(all, n + 1, m)) = m - n
    BY <1>1, <1>2
  <2>3. \A i \in 1..(m - n) : SubSeq(all, n + 1, m)[i] = all[n + i]
    BY <1>1, <1>2
  <2>4. DOMAIN SubSeq(all, n + 1, m) = 1..(m - n)
    BY <2>1, <2>2
  <2>. QED BY <1>1, <2>1, <2>3, <2>4
<1>3. CASE ~(n + 1 <= m)
  <2>1. SubSeq(all, n + 1, m) = << >>
    BY <1>1, <1>3
  <2>. QED BY <2>1
<1>. QED BY <1>2, <1>3

(* A page goes on where the last one has stopped. *)
LEMMA PageGoesOn ==
    ASSUME LogTyped, NEW sent \in Seq(Times)
    PROVE  LET more == sent \o Page(Len(sent)) IN
           /\ more \in Seq(Times)
           /\ \A i \in DOMAIN more :
                  (i \in DOMAIN sent /\ more[i] = sent[i]) \/ \E j \in DOMAIN rows : more[i] = rows[j]
           /\ IsPrefix(sent, rows) => IsPrefix(more, rows)
<1>. DEFINE m == Min({Len(sent) + PageSize, Len(rows)})
            page == SubSeq(rows, Len(sent) + 1, m)
<1>1. rows \in Seq(Times) /\ Len(rows) \in Nat /\ DOMAIN rows = 1..Len(rows)
      /\ Len(sent) \in Nat /\ DOMAIN sent = 1..Len(sent) /\ PageSize \in Nat
  BY StreamAssumption DEF LogTyped
<1>2. m \in Nat /\ m <= Len(rows) /\ m \in {Len(sent) + PageSize, Len(rows)}
  <2>1. \E x \in {Len(sent) + PageSize, Len(rows)} :
            \A y \in {Len(sent) + PageSize, Len(rows)} : x =< y
    BY <1>1
  <2>2. m \in {Len(sent) + PageSize, Len(rows)} /\ m <= Len(rows)
    BY <2>1 DEF Min
  <2>. QED BY <1>1, <2>2
<1>3. Page(Len(sent)) = page
  BY DEF Page
<1>. HIDE DEF m
<1>4. page \in Seq(Times) /\ \A i \in DOMAIN page : page[i] = rows[Len(sent) + i] /\ Len(sent) + i \in DOMAIN rows
  BY <1>1, <1>2, PartOf
<1>. HIDE DEF page
<1>5. sent \o page \in Seq(Times) /\ Len(sent \o page) = Len(sent) + Len(page)
      /\ DOMAIN (sent \o page) = 1..(Len(sent) + Len(page))
      /\ Len(page) \in Nat /\ DOMAIN page = 1..Len(page)
  BY <1>1, <1>4
<1>6. ASSUME NEW i \in DOMAIN (sent \o page)
      PROVE  \/ i \in DOMAIN sent /\ (sent \o page)[i] = sent[i]
             \/ \E j \in DOMAIN rows : (sent \o page)[i] = rows[j]
  <2>1. i \in 1..(Len(sent) + Len(page))
    BY <1>5, <1>6
  <2>2. CASE i <= Len(sent)
    BY <1>1, <1>4, <2>1, <2>2
  <2>3. CASE ~(i <= Len(sent))
    <3>1. i - Len(sent) \in DOMAIN page /\ (sent \o page)[i] = page[i - Len(sent)]
      BY <1>1, <1>4, <1>5, <2>1, <2>3
    <3>. QED BY <1>4, <3>1
  <2>. QED BY <2>2, <2>3
<1>7. ASSUME IsPrefix(sent, rows) PROVE IsPrefix(sent \o page, rows)
  <2>1. Len(sent) <= Len(rows) /\ \A i \in 1..Len(sent) : sent[i] = rows[i]
    BY <1>1, <1>7, PrefixIs
  <2>2. Len(sent) <= m
    BY <1>1, <1>2, <2>1
  <2>. DEFINE more == Extended(sent, rows, m)
  <2>3. more \in Seq(Times) /\ Len(more) = m /\ \A i \in 1..m : more[i] = rows[i]
    BY <1>1, <1>2, <2>1, <2>2, ExtendedSequence
  <2>4. more = sent \o page
    BY DEF Extended, page
  <2>. HIDE DEF more
  <2>5. IsPrefix(more, rows)
    BY <1>1, <1>2, <2>3, PrefixIs
  <2>. QED BY <2>4, <2>5
<1>. QED BY <1>3, <1>5, <1>6, <1>7

LEMMA StreamGoes ==
    ASSUME LogInv, NEW s \in Streams, NEW f \in Following, stream' = [stream EXCEPT ![s] = f],
           UNCHANGED <<exists, completed, log, attempt, alone>>,
           \A i \in DOMAIN f.sent : f.sent[i] \in Entries,
           exists /\ alone => IsPrefix(f.sent, rows)
    PROVE  LogInv'
<1>1. UNCHANGED <<exists, completed, clock, rows, attempt, alone>>
  BY DEF log
<1>2. stream' \in [Streams -> Following] /\ stream'[s] = f
      /\ \A t \in Streams \ {s} : stream'[t] = stream[t]
  BY DEF LogInv, LogTyped
<1>3. \A t \in Streams :
        /\ \A i \in DOMAIN stream'[t].sent : stream'[t].sent[i] \in Entries
        /\ exists /\ alone => IsPrefix(stream'[t].sent, rows)
  BY <1>2 DEF LogInv, Stamped, SentInOrder
<1>4. LogTyped' /\ OneRuns' /\ EmptyHands' /\ NewestInHand'
  BY <1>1, <1>2 DEF LogInv, LogTyped, OneRuns, EmptyHands, NewestInHand
<1>5. Stamped' /\ SentInOrder'
  BY <1>1, <1>3 DEF LogInv, Stamped, SentInOrder, Entries
<1>. QED BY <1>4, <1>5 DEF LogInv

LEMMA StreamSteps ==
    ASSUME LogInv, NEW s \in Streams, OpenStream(s) \/ Stream(s) \/ HangUp(s) PROVE LogInv'
<1>. DEFINE f == stream[s]
<1>1. f \in Following /\ f.sent \in Seq(Times)
      /\ (\A i \in DOMAIN f.sent : f.sent[i] \in Entries)
      /\ (exists /\ alone => IsPrefix(f.sent, rows))
  BY DEF LogInv, LogTyped, Following, Stamped, SentInOrder
<1>2. CASE Fetch(s)
  <2>. DEFINE more == f.sent \o Page(Len(f.sent))
              g == [f EXCEPT !.at = "check", !.sent = more]
  <2>1. stream' = [stream EXCEPT ![s] = g] /\ UNCHANGED <<exists, completed, log, attempt, alone>>
    BY <1>2 DEF Fetch, StreamMoves
  <2>2. /\ more \in Seq(Times)
        /\ \A i \in DOMAIN more :
               (i \in DOMAIN f.sent /\ more[i] = f.sent[i]) \/ \E j \in DOMAIN rows : more[i] = rows[j]
        /\ IsPrefix(f.sent, rows) => IsPrefix(more, rows)
    BY <1>1, PageGoesOn DEF LogInv
  <2>. HIDE DEF more
  <2>3. \A i \in DOMAIN more : more[i] \in Entries
    BY <1>1, <2>2 DEF LogInv, Stamped
  <2>4. g \in Following /\ g.sent = more
    BY <1>1, <2>2 DEF Following
  <2>. HIDE DEF g
  <2>. QED BY <1>1, <2>1, <2>2, <2>3, <2>4, StreamGoes
<1>3. CASE ~Fetch(s)
  <2>1. PICK at \in {"fetch", "check", "ended", "closed"}, last \in BOOLEAN :
            /\ stream' = [stream EXCEPT ![s] = [f EXCEPT !.at = at, !.last = last]]
            /\ UNCHANGED <<exists, completed, log, attempt, alone>>
    <3>1. f = [f EXCEPT !.last = f.last] /\ f.last \in BOOLEAN /\ completed \in BOOLEAN
      BY <1>1 DEF Following, LogInv, LogTyped
    <3>2. \A at : [f EXCEPT !.at = at] = [f EXCEPT !.at = at, !.last = f.last]
      BY <1>1 DEF Following
    <3>3. CASE OpenStream(s)
      BY <3>1, <3>3 DEF OpenStream, StreamMoves
    <3>4. CASE FetchFails(s) \/ Check(s) \/ CheckFails(s) \/ HangUp(s)
      <4>1. PICK at \in {"fetch", "check", "ended", "closed"} :
                /\ stream' = [stream EXCEPT ![s] = [f EXCEPT !.at = at]]
                /\ UNCHANGED <<exists, completed, log, attempt, alone>>
        BY <3>4 DEF FetchFails, Check, CheckFails, HangUp, StreamMoves
      <4>. QED BY <3>1, <3>2, <4>1
    <3>. QED BY <1>3, <3>3, <3>4 DEF Stream
  <2>. DEFINE g == [f EXCEPT !.at = at, !.last = last]
  <2>2. g \in Following /\ g.sent = f.sent
    BY <1>1 DEF Following
  <2>. HIDE DEF g
  <2>. QED
    <3>1. stream' = [stream EXCEPT ![s] = g]
      BY <2>1 DEF g
    <3>. QED BY <1>1, <2>1, <2>2, <3>1, StreamGoes
<1>. QED BY <1>2, <1>3

LEMMA LogInitially == LogInit => LogInv
<1>. SUFFICES ASSUME LogInit PROVE LogInv
  OBVIOUS
<1>1. rows = << >> /\ clock = 0 /\ << >> \in Seq(Times) /\ Len(<< >>) = 0 /\ DOMAIN << >> = {}
  BY DEF LogInit
<1>2. \A s \in Streams : stream[s] = [at |-> "idle", last |-> FALSE, sent |-> << >>]
  BY DEF LogInit
<1>3. \A a \in Attempts : attempt[a] = [at |-> "waiting", entry |-> 0, row |-> FALSE]
  BY DEF LogInit
<1>4. LogTyped
  <2>1. [at |-> "waiting", entry |-> 0, row |-> FALSE] \in Hands
    BY DEF Hands
  <2>2. attempt \in [Attempts -> Hands]
    BY <2>1 DEF LogInit
  <2>3. [at |-> "idle", last |-> FALSE, sent |-> << >>] \in Following
    BY <1>1 DEF Following
  <2>4. stream \in [Streams -> Following]
    BY <2>3 DEF LogInit
  <2>5. clock \in Nat /\ exists \in BOOLEAN /\ completed \in BOOLEAN /\ alone \in BOOLEAN
    BY DEF LogInit
  <2>. QED BY <1>1, <2>2, <2>4, <2>5 DEF LogTyped
<1>5. Stamped
  BY <1>1, <1>2, <1>3 DEF Stamped
<1>6. OneRuns /\ EmptyHands /\ NewestInHand
  BY <1>3 DEF OneRuns, EmptyHands, NewestInHand, UnderWay, Kinds
<1>7. SentInOrder
  <2>1. IsPrefix(<< >>, << >>)
    BY DEF IsPrefix
  <2>. QED BY <1>1, <1>2, <2>1 DEF SentInOrder
<1>. QED BY <1>4, <1>5, <1>6, <1>7 DEF LogInv

LEMMA ServerSteps == ASSUME LogInv, Cancel \/ Delete \/ Restart PROVE LogInv'
<1>1. CASE Cancel
  BY <1>1 DEF Cancel, log, LogInv, LogTyped, Stamped, OneRuns, EmptyHands, NewestInHand, SentInOrder, Entries
<1>2. CASE Delete
  <2>1. << >> \in Seq(Times) /\ DOMAIN << >> = {}
    OBVIOUS
  <2>. QED BY <1>2, <2>1
           DEF Delete, LogInv, LogTyped, Stamped, OneRuns, EmptyHands, NewestInHand, SentInOrder, Entries
<1>3. CASE Restart
  <2>1. UNCHANGED <<exists, completed, clock, rows, alone>>
    BY <1>3 DEF Restart, log
  <2>2. \A a \in Attempts : attempt'[a] =
            IF attempt[a].at \in UnderWay THEN [at |-> "done", entry |-> 0, row |-> FALSE] ELSE attempt[a]
    BY <1>3 DEF Restart
  <2>3. \A a \in Attempts :
            /\ attempt'[a] \in Hands /\ attempt'[a].entry \in {0, attempt[a].entry}
            /\ attempt'[a].at \notin UnderWay
    <3>1. [at |-> "done", entry |-> 0, row |-> FALSE] \in Hands /\ "done" \notin UnderWay
      BY DEF Hands, UnderWay, Kinds
    <3>. QED BY <2>2, <3>1 DEF LogInv, LogTyped
  <2>4. attempt' \in [Attempts -> Hands]
    BY <1>3, <2>3 DEF Restart
  <2>5. \A s \in Streams : stream[s] \in Following
    BY DEF LogInv, LogTyped
  <2>6. \A s \in Streams : stream'[s] = stream[s] \/ stream'[s] = [stream[s] EXCEPT !.at = "closed"]
    BY <1>3 DEF Restart
  <2>7. \A s \in Streams : stream'[s] \in Following /\ stream'[s].sent = stream[s].sent
    BY <2>5, <2>6 DEF Following
  <2>8. stream' \in [Streams -> Following]
    BY <1>3, <2>7 DEF Restart
  <2>9. LogTyped'
    BY <2>1, <2>4, <2>8 DEF LogInv, LogTyped
  <2>10. Stamped'
    BY <2>1, <2>3, <2>7 DEF LogInv, LogTyped, Stamped, Entries
  <2>11. OneRuns' /\ EmptyHands' /\ NewestInHand' /\ SentInOrder'
    <3>1. \A a \in Attempts : attempt'[a].at \notin Kinds => attempt'[a].entry = 0
      BY <2>2 DEF LogInv, EmptyHands
    <3>. QED BY <2>1, <2>3, <2>7, <3>1 DEF LogInv, OneRuns, EmptyHands, NewestInHand, SentInOrder
  <2>. QED BY <2>9, <2>10, <2>11 DEF LogInv
<1>. QED BY <1>1, <1>2, <1>3

LEMMA LogSteps == LogInv /\ [LogNext]_log_vars => LogInv'
<1>. SUFFICES ASSUME LogInv, [LogNext]_log_vars PROVE LogInv'
  OBVIOUS
<1>1. CASE UNCHANGED log_vars
  BY <1>1 DEF log_vars, log, LogInv, LogTyped, Stamped, OneRuns, EmptyHands, NewestInHand, SentInOrder, Entries
<1>. QED BY <1>1, AttemptSteps, StreamSteps, ServerSteps DEF LogNext

LEMMA LogInvariance == LogSpec => []LogInv
BY LogInitially, LogSteps, PTL DEF LogSpec

(* The types; what is stored, in hand or sent has a created_at. *)
THEOREM LogTypeCorrect == LogSpec => []LogTypeOK
<1>1. LogInv => LogTypeOK
  <2>. SUFFICES ASSUME LogInv PROVE LogTypeOK
    OBVIOUS
  <2>1. ToSet(rows) \subseteq 1..clock
    BY DEF LogInv, LogTyped, Stamped, Entries, ToSet
  <2>2. \A s \in Streams : ToSet(stream[s].sent) \subseteq 1..clock
    BY DEF LogInv, Stamped, Entries, ToSet
  <2>3. \A a \in Attempts :
            attempt[a] \in [at : {"waiting", "done"} \cup UnderWay, entry : 0..clock, row : BOOLEAN]
    BY DEF LogInv, LogTyped, Stamped, Hands
  <2>. QED BY <2>1, <2>2, <2>3 DEF LogInv, LogTyped, Following, LogTypeOK
<1>. QED BY <1>1, LogInvariance, PTL

(* While attempts do not overlap entries reach every client in the order in
   which they are stored, none twice and none left out, whichever pages its
   polls find and whichever INSERTs are lost. *)
THEOREM LogsAreSentInOrder == LogSpec => []SentInOrder
BY LogInvariance, PTL DEF LogInv
=============================================================================
