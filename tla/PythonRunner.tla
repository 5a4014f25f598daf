--------------------------- MODULE PythonRunner ---------------------------
(***************************************************************************)
(* One run of a job's Python program (worker/python_runner.rs): the        *)
(* program writes lines into two pipes, a task per pipe reads them, and    *)
(* the runner waits for the process, at most timeout_seconds, and then for *)
(* both tasks. A streaming runner (execute_streaming) also passes each     *)
(* line through a bounded channel to a callback.                           *)
(***************************************************************************)
EXTENDS Integers, FiniteSets, Sequences, SequencesExt

CONSTANTS
    MaxLines,    \* bound: lines the program writes
    PipeSize,    \* lines a pipe holds
    ChannelSize  \* mpsc::channel(100)

ASSUME RunnerAssumption ==
    MaxLines \in Nat /\ PipeSize \in Nat \ {0} /\ ChannelSize \in Nat \ {0}

VARIABLES
    runner,   \* its kind, where it is, what it knows of the end, its result
    child,    \* the process and how it ended
    orphan,   \* does a process the program started keep the pipes open?
    left,     \* the lines the program has still to write
    written, pipe, reader, output, \* each pipe: all lines, those inside, its task, what that has read
    channel, shown \* (stream, line): on their way to on_output, and passed to it

io == <<left, written, pipe, reader, output>>
vars == <<runner, child, orphan, io, channel, shown>>

Pipes == {"stdout", "stderr"}
(* A line may name a memory error or not be UTF-8. *)
Lines == {"text", "MemoryError", "bad bytes"}
None == "none"
Codes == {"0", "1", "137"}

Init ==
    /\ runner \in [streaming : BOOLEAN, at : {"spawn"}, timed_out : {FALSE},
                   exit_code : {None}, result : {None}]
    /\ child = None /\ orphan = FALSE
    /\ left \in 0..MaxLines
    /\ written = [p \in Pipes |-> << >>] /\ pipe = [p \in Pipes |-> << >>]
    /\ reader = [p \in Pipes |-> "reading"] /\ output = [p \in Pipes |-> << >>]
    /\ channel = << >> /\ shown = << >>

Goto(from, frame) == runner.at = from /\ runner' = frame

SpawnFails ==
    /\ Goto("spawn", [runner EXCEPT !.at = "done", !.result = "failed"])
    /\ UNCHANGED <<child, orphan, io, channel, shown>>

Spawn ==
    /\ Goto("spawn", [runner EXCEPT !.at = "wait"])
    /\ child' = "running"
    /\ UNCHANGED <<orphan, io, channel, shown>>

-----------------------------------------------------------------------------
(* The program *)

Open(p) == reader[p] = "reading" \* the task holds its end of the pipe

(* A full pipe blocks its writer; into a closed one nothing goes. *)
Write(p, line) ==
    /\ child = "running" \/ orphan
    /\ left > 0 /\ left' = left - 1
    /\ Open(p) => Len(pipe[p]) < PipeSize
    /\ written' = [written EXCEPT ![p] = Append(@, line)]
    /\ pipe' = IF Open(p) THEN [pipe EXCEPT ![p] = Append(@, line)] ELSE pipe
    /\ UNCHANGED <<runner, child, orphan, reader, output, channel, shown>>

Fork ==
    /\ child = "running" /\ ~orphan
    /\ orphan' = TRUE
    /\ UNCHANGED <<runner, child, io, channel, shown>>

OrphanEnds ==
    /\ orphan /\ orphan' = FALSE
    /\ UNCHANGED <<runner, child, io, channel, shown>>

(* The program has written what it had to, or leaves that to the other process. *)
Exit(code) ==
    /\ child = "running"
    /\ left = 0 \/ orphan
    /\ child' = code
    /\ UNCHANGED <<runner, orphan, io, channel, shown>>

(* The out-of-memory killer, or ProcessManager::cancel *)
Killed ==
    /\ child = "running"
    /\ child' = "killed"
    /\ UNCHANGED <<runner, orphan, io, channel, shown>>

-----------------------------------------------------------------------------
(* The tasks that read the pipes *)

(* Mutant: the pipes are read once the process has ended. *)
ReadAfterExit(p) ==
    /\ child # "running" /\ Open(p) /\ pipe[p] # << >>
    /\ runner.streaming => Len(channel) < ChannelSize
    /\ pipe' = [pipe EXCEPT ![p] = Tail(@)]
    /\ output' = [output EXCEPT ![p] = Append(@, Head(pipe[p]))]
    /\ channel' = IF runner.streaming THEN Append(channel, <<p, Head(pipe[p])>>) ELSE channel
    /\ UNCHANGED <<reader, runner, child, orphan, left, written, shown>>

(* next_line fails on a line that is not UTF-8: the task ends and closes the pipe. *)
Read(p) ==
    /\ Open(p) /\ pipe[p] # << >>
    /\ LET line == Head(pipe[p]) IN
        IF line = "bad bytes"
        THEN /\ reader' = [reader EXCEPT ![p] = "done"]
             /\ pipe' = [pipe EXCEPT ![p] = << >>]
             /\ UNCHANGED <<output, channel>>
        ELSE /\ runner.streaming => Len(channel) < ChannelSize
             /\ pipe' = [pipe EXCEPT ![p] = Tail(@)]
             /\ output' = [output EXCEPT ![p] = Append(@, line)]
             /\ channel' = IF runner.streaming THEN Append(channel, <<p, line>>) ELSE channel
             /\ UNCHANGED reader
    /\ UNCHANGED <<runner, child, orphan, left, written, shown>>

(* Mutant: a task ends with the process, whatever the pipe still holds. *)
EndOfProcess(p) ==
    /\ Open(p) /\ child \notin {None, "running"}
    /\ reader' = [reader EXCEPT ![p] = "done"]
    /\ UNCHANGED <<runner, child, orphan, left, written, pipe, output, channel, shown>>

EndOfFile(p) ==
    /\ Open(p) /\ pipe[p] = << >>
    /\ child \notin {None, "running"} /\ ~orphan
    /\ reader' = [reader EXCEPT ![p] = "done"]
    /\ UNCHANGED <<runner, child, orphan, left, written, pipe, output, channel, shown>>

Show ==
    /\ channel # << >>
    /\ channel' = Tail(channel) /\ shown' = Append(shown, Head(channel))
    /\ UNCHANGED <<runner, child, orphan, io>>

-----------------------------------------------------------------------------
(* The runner *)

(* status.code() is None for a process that a signal ended. *)
Code == IF child = "killed" THEN None ELSE child

Waited ==
    /\ child \notin {None, "running"}
    /\ Goto("wait", [runner EXCEPT !.at = "collect", !.exit_code = Code])
    /\ UNCHANGED <<child, orphan, io, channel, shown>>

WaitFails ==
    /\ Goto("wait", [runner EXCEPT !.at = "collect"])
    /\ UNCHANGED <<child, orphan, io, channel, shown>>

Timeout ==
    /\ child = "running"
    /\ Goto("wait", [runner EXCEPT !.at = "kill", !.timed_out = TRUE])
    /\ UNCHANGED <<child, orphan, io, channel, shown>>

(* Mutant: the process is waited for and not killed. *)
KillNothing ==
    /\ Goto("kill", [runner EXCEPT !.at = "collect"])
    /\ UNCHANGED <<child, orphan, io, channel, shown>>

(* It may have ended between the time-out and the signal. *)
Kill ==
    /\ Goto("kill", [runner EXCEPT !.at = "collect"])
    /\ child' = IF child = "running" THEN "killed" ELSE child
    /\ UNCHANGED <<orphan, io, channel, shown>>

(* Mutant: stderr is not searched. *)
check_exit_code == runner.exit_code \in {"-9", "137"}

check_memory_exceeded ==
    \/ runner.exit_code \in {"-9", "137"}
    \/ "MemoryError" \in ToSet(output["stderr"])

(* What the worker makes of the flags of the result *)
Status ==
    CASE runner.timed_out -> "timeout"
      [] ~runner.timed_out /\ check_memory_exceeded -> "memory"
      [] ~runner.timed_out /\ ~check_memory_exceeded /\ runner.exit_code = "0" -> "success"
      [] OTHER -> "failed"

(* Both tasks, and the one behind the channel, are awaited; the
   child is dropped at the end, with kill_on_drop. *)
Collect ==
    /\ \A p \in Pipes : reader[p] = "done"
    /\ channel = << >>
    /\ Goto("collect", [runner EXCEPT !.at = "done", !.result = Status])
    /\ child' = IF child = "running" THEN "killed" ELSE child
    /\ UNCHANGED <<orphan, io, channel, shown>>

(* Mutant: without kill_on_drop *)
DropDetached ==
    /\ runner.at \in {"wait", "kill", "collect"}
    /\ runner' = [runner EXCEPT !.at = "dropped"]
    /\ UNCHANGED <<child, orphan, io, channel, shown>>

(* select! in the worker drops the runner when it is told to cancel. *)
Drop ==
    /\ runner.at \in {"wait", "kill", "collect"}
    /\ runner' = [runner EXCEPT !.at = "dropped"]
    /\ child' = IF child = "running" THEN "killed" ELSE child
    /\ UNCHANGED <<orphan, io, channel, shown>>

Program == (\E p \in Pipes, line \in Lines : Write(p, line)) \/ \E code \in Codes : Exit(code)
Tasks == (\E p \in Pipes : Read(p) \/ EndOfFile(p)) \/ Show
Run == Spawn \/ SpawnFails \/ Waited \/ Kill \/ Collect

Next == Program \/ Fork \/ OrphanEnds \/ Killed \/ Tasks \/ Run \/ WaitFails \/ Timeout \/ Drop

(* The runtime polls the tasks and the runner. *)
Spec == Init /\ [][Next]_vars /\ WF_vars(Tasks) /\ WF_vars(Run)

-----------------------------------------------------------------------------
Over == runner.at \in {"done", "dropped"}

TypeOK ==
    /\ runner.streaming \in BOOLEAN
    /\ runner.at \in {"spawn", "wait", "kill", "collect", "done", "dropped"}
    /\ runner.timed_out \in BOOLEAN
    /\ runner.exit_code \in {None} \cup Codes
    /\ left \in 0..MaxLines
    /\ runner.result \in {None, "success", "failed", "timeout", "memory"}
    /\ child \in {None, "running", "killed"} \cup Codes /\ orphan \in BOOLEAN
    /\ \A p \in Pipes :
        /\ ToSet(written[p]) \subseteq Lines /\ Len(pipe[p]) <= PipeSize
        /\ reader[p] \in {"reading", "done"}
        /\ ToSet(output[p]) \subseteq Lines
    /\ Len(channel) <= ChannelSize /\ ToSet(shown) \subseteq Pipes \X Lines

(* Whatever ended the run, the result holds all that was written on a pipe, up
   to a line that could not be read, ... *)
ResultIsComplete ==
    runner.at = "done" /\ child # None =>
        \A p \in Pipes :
            \/ output[p] = written[p]
            \/ /\ IsStrictPrefix(output[p], written[p])
               /\ written[p][Len(output[p]) + 1] = "bad bytes"

(* ... and on_output gets each pipe's lines in the order they were written, and
   all of those in the result: *)
Passed(items, p) == Cardinality({i \in DOMAIN items : items[i][1] = p})
ShownInOrder ==
    /\ \A i \in DOMAIN shown :
        LET p == shown[i][1]
            place == Passed(SubSeq(shown, 1, i), p)
        IN  place \in DOMAIN output[p] /\ shown[i][2] = output[p][place]
    /\ runner.streaming /\ runner.at = "done" =>
        \A p \in Pipes : Passed(shown, p) = Len(output[p])

(* no line is lost or overtaken at the exit, the kill or the time-out. *)
OutputIsComplete == ResultIsComplete /\ ShownInOrder

(* A run reported as a success ended by itself with exit code 0, and no
   memory error appears in what it wrote before the reading stopped. *)
SuccessIsReal ==
    runner.result = "success" =>
        /\ child = "0" /\ ~runner.timed_out
        /\ "MemoryError" \notin ToSet(output["stderr"])

(* When the runner is done or dropped its process no longer runs, whether it
   was waited for, timed out, could not be waited for or was cancelled. *)
NoProcessLeft == Over => child # "running"

(* What the runner waits for without limit: a process that keeps the pipes, or
   its own one after waiting for it has failed. *)
HeldOpen == orphan \/ (runner.at = "collect" /\ child = "running")

(* No full pipe and no full channel holds up the program and the runner
   together: if the program goes on whenever it can, the run ends without the
   time limit. *)
RunEnds == WF_vars(Program) => ((runner.at = "wait") ~> (Over \/ HeldOpen))

(* A run that has timed out ends, and so does any other one whose process is
   gone, unless the program has left a process behind that keeps the pipes. *)
TimeoutEnds == (runner.timed_out \/ child \notin {None, "running"}) ~> (Over \/ orphan)
=============================================================================
