-------------------------- MODULE ExecutionStream --------------------------
(***************************************************************************)
(* The log of one execution and the clients that follow it over SSE        *)
(* (api/executions.rs, db/execution_logs.rs, worker/pool.rs): each attempt *)
(* of a worker stamps and inserts its entries, each stream pages through   *)
(* those stored, in the order of created_at, until completed_at is set.    *)
(***************************************************************************)
EXTENDS Integers, FiniteSets, Sequences, SequencesExt

CONSTANTS
    Streams,
    MaxAttempts, \* bound: how often the queue runs the execution
    PageSize,    \* limit: Some(100)
    Faults       \* may queries fail, and the server restart?

ASSUME StreamAssumption ==
    /\ MaxAttempts \in Nat \ {0} /\ PageSize \in Nat \ {0}
    /\ Faults \in BOOLEAN

VARIABLES
    exists, completed, \* the row of executions: is it there, has it a completed_at?
    clock,    \* the newest created_at: it stands for the entry that has it
    rows,     \* execution_logs, ORDER BY created_at
    attempt,  \* each attempt: what it does next, the entry and the row in its hands
    alone,    \* history: no two attempts have been under way at once
    stream    \* each stream: where it is, is this its last page, what it has sent

log == <<clock, rows>>
log_vars == <<exists, completed, log, attempt, alone, stream>>

Attempts == 1..MaxAttempts
Kinds == {"started", "stdout", "stderr", "completed"}
UnderWay == {"mark", "finalize", "settle"} \cup Kinds

LogInit ==
    /\ exists = TRUE /\ completed = FALSE
    /\ clock = 0 /\ rows = << >>
    /\ attempt = [a \in Attempts |-> [at |-> "waiting", entry |-> 0, row |-> FALSE]]
    /\ alone = TRUE
    /\ stream = [s \in Streams |-> [at |-> "idle", last |-> FALSE, sent |-> << >>]]

-----------------------------------------------------------------------------
(* An attempt, of the first or of another worker. Attempts are numbered as
   they begin, and may overlap: the queue can hand one execution to two workers
   (WorkerPool), and a retry may start before the last entry is written. *)

Moves(a, from, to) ==
    /\ attempt[a].at = from
    /\ attempt' = [attempt EXCEPT ![a].at = to]

(* set_execution_running reads the row ... *)
ReadExecution(a) ==
    /\ a > 1 => attempt[a - 1].at # "waiting"
    /\ attempt[a].at = "waiting"
    /\ \/ exists /\ attempt' = [attempt EXCEPT ![a] = [@ EXCEPT !.at = "mark", !.row = completed]]
       \/ (~exists \/ Faults) /\ attempt' = [attempt EXCEPT ![a].at = "done"]
    /\ alone' = (alone /\ \A b \in Attempts \ {a} : attempt[b].at \notin UnderWay)
    /\ UNCHANGED <<exists, completed, log, stream>>

(* ... and writes all of it back, the completed_at it had when it was read
   included; it may do so and report an error nevertheless. *)
SetRunning(a) ==
    /\ attempt[a].at = "mark"
    /\ \/ /\ exists
          /\ attempt' = [attempt EXCEPT ![a] = [@ EXCEPT !.at = "started", !.row = FALSE]]
          /\ completed' = attempt[a].row
       \/ /\ ~exists \/ Faults
          /\ attempt' = [attempt EXCEPT ![a] = [@ EXCEPT !.at = "done", !.row = FALSE]]
          /\ completed' \in {completed, exists /\ attempt[a].row}
    /\ UNCHANGED <<exists, log, alone, stream>>

Stamp(a) ==
    /\ attempt[a].at \in Kinds /\ attempt[a].entry = 0
    /\ clock' = clock + 1
    /\ attempt' = [attempt EXCEPT ![a].entry = clock + 1]
    /\ UNCHANGED <<exists, completed, rows, alone, stream>>

(* What is written next: of the output, only what is not empty *)
After(kind) ==
    CASE kind = "started"   -> {"stdout", "stderr", "finalize"}
      [] kind = "stdout"    -> {"stderr", "finalize"}
      [] kind = "stderr"    -> {"finalize"}
      [] kind = "completed" -> {"done"}

Before(entry) == {i \in DOMAIN rows : rows[i] < entry}

(* The foreign key rejects the entry of a deleted execution; whether an INSERT
   succeeds is not looked at, and an entry that is not stored now never is. *)
Insert(a) ==
    /\ attempt[a].at \in Kinds /\ attempt[a].entry # 0
    /\ \/ exists /\ rows' = InsertAt(rows, Cardinality(Before(attempt[a].entry)) + 1, attempt[a].entry)
       \/ (~exists \/ Faults) /\ rows' = rows
    /\ \E next \in After(attempt[a].at) :
            attempt' = [attempt EXCEPT ![a] = [@ EXCEPT !.at = next, !.entry = 0]]
    /\ UNCHANGED <<exists, completed, clock, alone, stream>>

(* The result, or nothing where the row is cancelled and so completed already;
   an error is logged. *)
Finalize(a) ==
    /\ Moves(a, "finalize", "settle")
    /\ (completed' = exists) \/ (Faults /\ completed' = completed)
    /\ UNCHANGED <<exists, log, alone, stream>>

Settle(a) ==
    /\ Moves(a, "settle", "completed")
    /\ UNCHANGED <<exists, completed, log, alone, stream>>

Attempt(a) == ReadExecution(a) \/ SetRunning(a) \/ Stamp(a) \/ Insert(a) \/ Finalize(a) \/ Settle(a)

-----------------------------------------------------------------------------
(* Requests about the execution, and the server *)

Cancel ==
    /\ exists
    /\ completed' = TRUE
    /\ UNCHANGED <<exists, log, attempt, alone, stream>>

(* ... by the API or the retention clean-up; the entries go with the row *)
Delete ==
    /\ exists
    /\ exists' = FALSE /\ completed' = FALSE
    /\ rows' = << >>
    /\ UNCHANGED <<clock, attempt, alone, stream>>

(* The server stops, with every worker and connection, and is started again. *)
Restart ==
    /\ Faults
    /\ attempt' = [a \in Attempts |->
           IF attempt[a].at \in UnderWay THEN [at |-> "done", entry |-> 0, row |-> FALSE]
           ELSE attempt[a]]
    /\ stream' = [s \in Streams |->
           IF stream[s].at \in {"fetch", "check"} THEN [stream[s] EXCEPT !.at = "closed"]
           ELSE stream[s]]
    /\ UNCHANGED <<exists, completed, log, alone>>

-----------------------------------------------------------------------------
(* A stream *)

StreamMoves(s, from, frame) ==
    /\ stream[s].at = from
    /\ stream' = [stream EXCEPT ![s] = frame]
    /\ UNCHANGED <<exists, completed, log, attempt, alone>>

OpenStream(s) ==
    /\ exists
    /\ StreamMoves(s, "idle", [stream[s] EXCEPT !.at = "fetch", !.last = completed])

(* Mutant: the query has no OFFSET. *)
PageFirst(offset) == SubSeq(rows, 1, Min({PageSize, Len(rows)}))

Page(offset) == SubSeq(rows, offset + 1, Min({offset + PageSize, Len(rows)}))

Fetch(s) ==
    /\ exists
    /\ StreamMoves(s, "fetch",
                   [stream[s] EXCEPT !.at = "check", !.sent = @ \o Page(Len(@))])

FetchFails(s) ==
    /\ ~exists \/ Faults
    /\ StreamMoves(s, "fetch", [stream[s] EXCEPT !.at = "check"])

(* Mutant: whether the execution is complete is only looked up at the start. *)
CheckOpened(s) ==
    StreamMoves(s, "check", [stream[s] EXCEPT !.at = IF stream[s].last THEN "ended" ELSE "fetch"])

(* The stream ends when its page was the last, or the execution is complete by
   now; otherwise it polls again. *)
Check(s) ==
    StreamMoves(s, "check",
        [stream[s] EXCEPT !.at = IF stream[s].last \/ (exists /\ completed) THEN "ended" ELSE "fetch"])

CheckFails(s) ==
    /\ Faults /\ ~stream[s].last
    /\ StreamMoves(s, "check", [stream[s] EXCEPT !.at = "fetch"])

Stream(s) == Fetch(s) \/ FetchFails(s) \/ Check(s) \/ CheckFails(s)

HangUp(s) ==
    /\ stream[s].at \in {"fetch", "check"}
    /\ StreamMoves(s, stream[s].at, [stream[s] EXCEPT !.at = "closed"])

LogNext ==
    \/ \E a \in Attempts : Attempt(a)
    \/ Cancel \/ Delete \/ Restart
    \/ \E s \in Streams : OpenStream(s) \/ Stream(s) \/ HangUp(s)

(* The server polls for every open stream; Check is strongly fair where
   queries may fail now and then. *)
LogSpec == LogInit /\ [][LogNext]_log_vars
        /\ \A s \in Streams : WF_log_vars(Stream(s)) /\ SF_log_vars(Check(s))

-----------------------------------------------------------------------------
Ended(s) == stream[s].at \in {"ended", "closed"}

LogTypeOK ==
    /\ exists \in BOOLEAN /\ completed \in BOOLEAN /\ alone \in BOOLEAN
    /\ clock \in Nat
    /\ ToSet(rows) \subseteq 1..clock
    /\ attempt \in [Attempts -> [at : {"waiting", "done"} \cup UnderWay,
                                entry : 0..clock, row : BOOLEAN]]
    /\ \A s \in Streams :
        /\ stream[s].at \in {"idle", "fetch", "check", "ended", "closed"}
        /\ stream[s].last \in BOOLEAN
        /\ ToSet(stream[s].sent) \subseteq 1..clock

(* While no two attempts have run at once a client gets the entries that are
   stored in their order, none twice and none left out, however its polls fall
   between the inserts and whichever of these fail. (An entry that an overlapping
   attempt stamped earlier and stores later shifts the OFFSET: the client gets
   another entry twice, and this one never.) *)
SentInOrder == exists /\ alone => \A s \in Streams : IsPrefix(stream[s].sent, rows)

(* A stream ends once the execution is complete, and stays so: unless it is
   deleted under the stream, or a worker that read the row before writes it
   back without its completed_at. *)
StreamsEnd ==
    \A s \in Streams :
        (exists /\ completed /\ ~Ended(s) /\ stream[s].at # "idle")
            ~> (Ended(s) \/ ~exists \/ ~completed)

(* README: "Real-time execution log streaming via SSE": a stream that has ended
   by itself has sent all there is in the end. *)
AllLogsSent ==
    \A s \in Streams :
        exists /\ stream[s].at = "ended" /\ (\A a \in Attempts : attempt[a].at \notin UnderWay)
            => stream[s].sent = rows
=============================================================================
