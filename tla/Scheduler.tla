----------------------------- MODULE Scheduler -----------------------------
(***************************************************************************)
(* Cron schedules (scheduler/mod.rs, services/schedule_service.rs,         *)
(* db/schedules.rs): the background loop that triggers the due ones, and   *)
(* API requests that create, change, toggle and delete them and enable,    *)
(* disable and delete their jobs.                                          *)
(*                                                                         *)
(* A cron expression is the time of its first occurrence and the step to   *)
(* the next ones; a step of 0 is an expression with a year, which occurs   *)
(* once.  A request rejected for its form changes nothing and is left out. *)
(* next_run_at is never NULL: every write of it has a value.               *)
(***************************************************************************)
EXTENDS Integers, FiniteSets

CONSTANTS
    Schedules, Jobs, Requests,
    Crons,     \* the cron expressions: [first, step]
    DayLength, \* the ticks of the clock in a day
    Horizon,   \* bound: the end of time
    None

ASSUME SchedulerAssumption ==
    /\ None \notin Schedules \cup Jobs /\ None \notin Crons /\ None \notin BOOLEAN
    /\ Crons \subseteq [first : Nat \ {0}, step : Nat]
    /\ DayLength \in Nat \ {0} /\ Horizon \in Nat

VARIABLES
    now,
    jobs,   \* each job: "enabled", "disabled" or "gone"
    rows,   \* job_schedules
    fresh,  \* the schedules not created yet
    tick,   \* the loop: where it is, the rows still to trigger, the one at hand
    request,   \* each request: where it is and the row it is to write
    last, runs, lapsed \* history: see ScheduleContract

history == <<last, runs, lapsed>>
vars == <<now, jobs, rows, fresh, tick, request, history>>

NoRow == [id |-> None, job |-> None, cron |-> [first |-> 1, step |-> 0],
          next |-> 0, enabled |-> FALSE]
Marking == {"calculate", "mark"}  \* triggered, and not yet recorded
Idle == [at |-> "idle", due |-> {}, row |-> NoRow]
NoRequest == [at |-> "idle", row |-> NoRow, missed |-> FALSE]

Init ==
    /\ now = 0
    /\ jobs \in [Jobs -> {"enabled", "disabled"}]
    /\ rows = [s \in Schedules |-> NoRow]
    /\ fresh = Schedules
    /\ tick = Idle
    /\ request = [r \in Requests |-> NoRequest]
    /\ last = [s \in Schedules |-> 0]
    /\ runs = [s \in Schedules |-> 0]
    /\ lapsed = {}

Exists(s) == rows[s].job # None
Of(j) == {s \in Schedules : rows[s].job = j}
Midnight == (now \div DayLength) * DayLength  \* the last one

(* Schedule::upcoming: the first occurrence after now, if there is one *)
Occurring(cron) == now < cron.first \/ cron.step > 0
NextRun(cron) ==
    IF now < cron.first THEN cron.first
    ELSE cron.first + ((now - cron.first) \div cron.step + 1) * cron.step

TimePasses ==
    /\ now < Horizon
    /\ now' = now + 1
    /\ UNCHANGED <<jobs, rows, fresh, tick, request, history>>

-----------------------------------------------------------------------------
(* The loop.  A step that fails is logged and leaves the row to the next tick. *)

Due(s) == Exists(s) /\ rows[s].enabled /\ rows[s].next < Midnight

(* Mutant: the loop finds nothing. *)
GetDueNothing ==
    /\ tick.at = "idle"
    /\ tick' = [Idle EXCEPT !.at = "next"]
    /\ UNCHANGED <<now, jobs, rows, fresh, request, history>>

(* get_due_schedules compares next_run_at, an RFC 3339 text with a "T" between
   date and time, with datetime('now'), which has a space there: the row is due
   once the date of next_run_at is past. *)
GetDue ==
    /\ tick.at = "idle"
    /\ tick' = [Idle EXCEPT !.at = "next", !.due = {rows[s] : s \in {s \in Schedules : Due(s)}}]
    /\ UNCHANGED <<now, jobs, rows, fresh, request, history>>

TickGoes(from, to) == tick.at = from /\ tick' = [tick EXCEPT !.at = to]
NextRow(from) == TickGoes(from, "next")
TickEnds ==
    /\ tick.at = "next" /\ tick.due = {}
    /\ tick' = Idle
    /\ UNCHANGED <<now, jobs, rows, fresh, request, history>>

(* ... ORDER BY next_run_at *)
TakeRow(row) ==
    /\ tick.at = "next"
    /\ \A other \in tick.due : row.next <= other.next
    /\ tick' = [at |-> "check", due |-> tick.due \ {row}, row |-> row]
    /\ UNCHANGED <<now, jobs, rows, fresh, request, history>>

Job == jobs[tick.row.job]

CheckJob ==
    /\ TickGoes("check", IF Job = "enabled" THEN "create" ELSE "next")
    /\ UNCHANGED <<now, jobs, rows, fresh, request, history>>

(* create_execution reads the job again, and enables it if it is disabled. *)
ReadJobAgain ==
    /\ TickGoes("create", CASE Job = "enabled"  -> "insert"
                            [] Job = "disabled" -> "enable"
                            [] Job = "gone"     -> "next")
    /\ UNCHANGED <<now, jobs, rows, fresh, request, history>>

EnableAgain ==
    /\ TickGoes("enable", IF Job = "gone" THEN "next" ELSE "insert")
    /\ jobs' = [jobs EXCEPT ![tick.row.job] = IF @ = "gone" THEN @ ELSE "enabled"]
    /\ UNCHANGED <<now, rows, fresh, request, history>>

InsertExecution ==
    /\ TickGoes("insert", "enqueue") /\ Job # "gone"
    /\ UNCHANGED <<now, jobs, rows, fresh, request, history>>

InsertFails ==
    /\ NextRow("insert")
    /\ UNCHANGED <<now, jobs, rows, fresh, request, history>>

Enqueue ==
    /\ TickGoes("enqueue", "calculate") /\ Job # "gone"
    /\ last' = [last EXCEPT ![tick.row.id] = tick.row.next]
    /\ runs' = [runs EXCEPT ![tick.row.id] = 1 - @]
    /\ UNCHANGED <<now, jobs, rows, fresh, request, lapsed>>

EnqueueFails ==
    /\ NextRow("enqueue")
    /\ UNCHANGED <<now, jobs, rows, fresh, request, history>>

(* The next occurrence is taken before the UPDATE is awaited, from the
   expression the loop has read. *)
CalculateNext ==
    /\ tick.at = "calculate" /\ Occurring(tick.row.cron)
    /\ tick' = [tick EXCEPT !.at = "mark", !.row.next = NextRun(tick.row.cron)]
    /\ UNCHANGED <<now, jobs, rows, fresh, request, history>>

(* History: a request that has read row s before its trigger is recorded. *)
Missing(s) ==
    [r \in Requests |->
        [request[r] EXCEPT !.missed = @ \/ (request[r].at = "update" /\ request[r].row.id = s)]]

(* Mutant: the trigger is not recorded. *)
MarkNothing ==
    /\ NextRow("mark")
    /\ UNCHANGED <<now, jobs, rows, fresh, request, history>>

(* mark_triggered *)
Mark ==
    /\ NextRow("mark")
    /\ rows' = IF Exists(tick.row.id)
               THEN [rows EXCEPT ![tick.row.id].next = tick.row.next] ELSE rows
    /\ request' = Missing(tick.row.id)
    /\ UNCHANGED <<now, jobs, fresh, history>>

(* The expression has no upcoming occurrence, or the UPDATE fails. *)
MarkFails ==
    /\ \/ NextRow("calculate") /\ ~Occurring(tick.row.cron)
       \/ NextRow("mark")
    /\ lapsed' = lapsed \cup {tick.row.id}
    /\ UNCHANGED <<now, jobs, rows, fresh, request, last, runs>>

Tick ==
    \/ GetDue \/ TickEnds \/ (\E row \in tick.due : TakeRow(row))
    \/ CheckJob \/ ReadJobAgain \/ EnableAgain
    \/ InsertExecution \/ InsertFails \/ Enqueue \/ EnqueueFails
    \/ CalculateNext \/ Mark \/ MarkFails

-----------------------------------------------------------------------------
(* The requests: each reads and makes up the row to write, next_run_at included,
   and writes it an await later. *)

Start(r, frame) ==
    /\ request[r].at = "idle"
    /\ request' = [request EXCEPT ![r] = frame]
    /\ UNCHANGED <<now, jobs, rows, fresh, tick, history>>

Finish(r, label) ==
    /\ request[r].at = label
    /\ request' = [request EXCEPT ![r] = NoRequest]
    /\ UNCHANGED <<now, jobs, tick, last, runs>>

CreateRead(r, j, cron) ==
    /\ jobs[j] # "gone"
    /\ Of(j) = {} /\ Occurring(cron)
    /\ Start(r, [NoRequest EXCEPT !.at = "create", !.row =
           [id |-> None, job |-> j, cron |-> cron, next |-> NextRun(cron), enabled |-> TRUE]])

(* Mutant: the row is inserted without its job. *)
CreateInsertOrphan(r) ==
    /\ Finish(r, "create")
    /\ fresh # {}
    /\ LET s == CHOOSE s \in fresh : TRUE IN
        /\ fresh' = fresh \ {s}
        /\ rows' = [rows EXCEPT ![s] = [request[r].row EXCEPT !.id = s]]
    /\ UNCHANGED lapsed

CreateInsert(r) ==
    /\ Finish(r, "create")
    /\ fresh # {} /\ jobs[request[r].row.job] # "gone"
    /\ LET s == CHOOSE s \in fresh : TRUE IN
        /\ fresh' = fresh \ {s}
        /\ rows' = [rows EXCEPT ![s] = [request[r].row EXCEPT !.id = s]]
    /\ UNCHANGED lapsed

(* What update_schedule and toggle_schedule make of the row they have read: a
   new next_run_at if the expression is named or a toggle enables the row. *)
Updated(row, cron, enabled) ==
    [row EXCEPT !.cron    = IF cron = None THEN @ ELSE cron,
                !.next    = IF cron = None THEN @ ELSE NextRun(cron),
                !.enabled = IF enabled = None THEN @ ELSE enabled]

UpdateRead(r, s, cron, enabled) ==
    /\ Exists(s)
    /\ cron # None => Occurring(cron)
    /\ Start(r, [at |-> "update", missed |-> FALSE, row |-> Updated(rows[s], cron, enabled)])

ToggleRead(r, s) ==
    UpdateRead(r, s, IF rows[s].enabled THEN None ELSE rows[s].cron, ~rows[s].enabled)

(* The update writes over the record of a trigger, made since it has read the
   row, and with a time that is not ahead. *)
Rewinds(r) == request[r].missed /\ request[r].row.next <= now

(* Mutant: the update inserts a row that is gone. *)
UpdateOrInsert(r) ==
    /\ Finish(r, "update")
    /\ rows' = [rows EXCEPT ![request[r].row.id] = request[r].row]
    /\ lapsed' = IF Rewinds(r) THEN lapsed \cup {request[r].row.id} ELSE lapsed
    /\ UNCHANGED fresh

Update(r) ==
    /\ Finish(r, "update")
    /\ Exists(request[r].row.id)
    /\ rows' = [rows EXCEPT ![request[r].row.id] = request[r].row]
    /\ lapsed' = IF Rewinds(r) THEN lapsed \cup {request[r].row.id} ELSE lapsed
    /\ UNCHANGED fresh

DeleteRead(r, s) ==
    /\ Exists(s)
    /\ Start(r, [NoRequest EXCEPT !.at = "delete", !.row = rows[s]])

Delete(r) ==
    /\ Finish(r, "delete")
    /\ rows' = [rows EXCEPT ![request[r].row.id] = NoRow]
    /\ UNCHANGED <<fresh, lapsed>>

(* A row or a job gone by now, an error of the database, a client that hangs up. *)
RequestFails(r) ==
    /\ request[r].at # "idle" /\ Finish(r, request[r].at)
    /\ UNCHANGED <<rows, fresh, lapsed>>

Request(r) ==
    \/ \E j \in Jobs, cron \in Crons : CreateRead(r, j, cron)
    \/ \E s \in Schedules, cron \in Crons \cup {None}, enabled \in BOOLEAN \cup {None} :
           UpdateRead(r, s, cron, enabled)
    \/ \E s \in Schedules : ToggleRead(r, s) \/ DeleteRead(r, s)
    \/ CreateInsert(r) \/ Update(r) \/ Delete(r) \/ RequestFails(r)

-----------------------------------------------------------------------------
(* The owner of a job disables, enables or deletes it; the foreign key takes
   its schedules along. *)
SetJob(j, state) ==
    /\ jobs[j] # "gone"
    /\ jobs' = [jobs EXCEPT ![j] = state]
    /\ rows' = IF state = "gone" THEN [s \in Schedules |-> IF s \in Of(j) THEN NoRow ELSE rows[s]]
               ELSE rows
    /\ UNCHANGED <<now, fresh, tick, request, history>>

Crash ==
    /\ tick' = Idle
    /\ request' = [r \in Requests |-> NoRequest]
    /\ lapsed' = IF tick.at \in Marking THEN lapsed \cup {tick.row.id} ELSE lapsed
    /\ UNCHANGED <<now, jobs, rows, fresh, last, runs>>

Next ==
    \/ TimePasses \/ Tick \/ Crash
    \/ \E r \in Requests : Request(r)
    \/ \E j \in Jobs, state \in {"enabled", "disabled", "gone"} : SetJob(j, state)

Spec == Init /\ [][Next]_vars

(* The loop goes on as long as the server runs, crashes come to an end, and what
   fails is not what always fails. *)
FairSpec ==
    /\ Spec /\ WF_vars(Tick) /\ <>[][~Crash]_vars
    /\ SF_vars(InsertExecution) /\ SF_vars(Enqueue) /\ SF_vars(Mark)

-----------------------------------------------------------------------------
Row == [id : Schedules \cup {None}, job : Jobs \cup {None}, cron : [first : Nat \ {0}, step : Nat],
        next : Nat, enabled : BOOLEAN]
TickFrame == [at : {"idle", "next", "check", "create", "enable", "insert", "enqueue"} \cup Marking,
              due : SUBSET Row, row : Row]
RequestFrame == [at : {"idle", "create", "update", "delete"}, row : Row, missed : BOOLEAN]

TypeOK ==
    /\ now \in 0..Horizon
    /\ jobs \in [Jobs -> {"enabled", "disabled", "gone"}]
    /\ rows \in [Schedules -> Row]
    /\ fresh \in SUBSET Schedules
    /\ tick \in TickFrame
    /\ request \in [Requests -> RequestFrame]
    /\ last \in [Schedules -> Nat] /\ runs \in [Schedules -> 0..1]
    /\ lapsed \in SUBSET Schedules

(* The loop and the rows keep what a schedule promises: no occurrence is run
   early, twice or out of order, whatever fails and whatever requests do, until
   a trigger that was made is not recorded, or its record is written over by an
   update that read the row, or took its next_run_at, before. *)
Contract == INSTANCE ScheduleContract
    WITH now <- now, last <- last, runs <- runs, lapsed <- lapsed
OccurrencesRunOnce == Contract!Spec

(* Nothing has run before its time. *)
NeverEarly == \A s \in Schedules : last[s] <= now

(* FOREIGN KEY: no schedule is left of a job that is gone, and none is made for
   it, though requests look the job up some awaits before they write. *)
NothingOutlivesItsJob == \A s \in Schedules : Exists(s) => jobs[rows[s].job] # "gone"

(* A request or a tick that overlaps with a deletion, of the schedule or of its
   job, does not write the row back into being. *)
DeletedStaysDeleted ==
    [][\A s \in Schedules \ fresh : ~Exists(s) => ~Exists(s)']_vars

(* A due schedule of an enabled job does not stay due: the loop gets to it
   after failures and crashes, and however the requests rewrite the row
   meanwhile. *)
Waiting(s) == Due(s) /\ jobs[rows[s].job] = "enabled" /\ Occurring(rows[s].cron)
DueSchedulesRun == \A s \in Schedules : Waiting(s) ~> ~Waiting(s)

(* "Get all due schedules (next_run_at <= now AND enabled)" *)
TickFindsDue ==
    [][GetDue => \A s \in Schedules :
           Exists(s) /\ rows[s].enabled /\ rows[s].next <= now => rows[s] \in tick'.due]_vars

(* "Schedule already exists for this job" *)
OneSchedulePerJob == \A s, t \in Schedules : Exists(s) /\ rows[s].job = rows[t].job => s = t

(* "Verify job exists and is enabled": the loop does not run a job, let alone
   enable one, that its owner has disabled. *)
LoopEnablesNoJob ==
    [][tick' # tick => \A j \in Jobs : jobs[j] = "disabled" => jobs'[j] = "disabled"]_vars
=============================================================================
