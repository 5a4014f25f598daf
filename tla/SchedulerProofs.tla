-------------------------- MODULE SchedulerProofs --------------------------
(* The loop and the rows implement ScheduleContract for every number of
   schedules and requests and every set of expressions, whatever fails and
   whichever steps overlap; schedules go with their job, and deletions are
   final. *)
EXTENDS Scheduler, TLAPS

(* The loop has run an occurrence of s and is about to record it. *)
Triggered(s) == tick.at \in Marking /\ tick.row.id = s

(* A next_run_at for s that is still to be run *)
Unrun(s, next) == last[s] < next \/ s \in lapsed \/ Triggered(s)

(* An occurrence still to be run, of the row as it was read. *)
Ahead(row) ==
    /\ row.id \in Schedules \ fresh /\ row.job \in Jobs
    /\ last[row.id] < row.next \/ row.id \in lapsed
    /\ row.next <= now

InHand == {"check", "create", "enable", "insert", "enqueue"}

RowsKept ==
    \A s \in Schedules :
        /\ Exists(s) => s \notin fresh /\ rows[s].id = s /\ rows[s].cron \in Crons
                        /\ Unrun(s, rows[s].next)
        /\ s \in fresh => last[s] = 0

TickKept ==
    /\ \A row \in tick.due : Ahead(row) /\ row.cron \in Crons
    /\ \A row, other \in tick.due : row.id = other.id => row = other
    /\ tick.at \in InHand => Ahead(tick.row)
    /\ tick.at \in InHand \cup Marking =>
           /\ tick.row.id \in Schedules \ fresh /\ tick.row.cron \in Crons
           /\ \A row \in tick.due : row.id # tick.row.id
    /\ tick.at = "mark" => last[tick.row.id] < tick.row.next

(* What a request is to write: of an update, an occurrence still to be run
   unless a trigger has been recorded since it read the row. *)
RequestsKept ==
    \A r \in Requests : LET row == request[r].row IN
        /\ request[r].at = "create" => row.cron \in Crons /\ row.next > 0
        /\ request[r].at = "update" =>
               /\ row.id \in Schedules \ fresh /\ row.cron \in Crons
               /\ request[r].missed \/ Unrun(row.id, row.next)

IInv == TypeOK /\ NeverEarly /\ RowsKept /\ TickKept /\ RequestsKept

-----------------------------------------------------------------------------
LEMMA NextMultiple ==
    ASSUME NEW a \in Nat, NEW b \in Nat, b > 0
    PROVE  (a \div b + 1) * b > a /\ a \div b \in Nat
OBVIOUS

(* upcoming() is after now. *)
LEMMA NextRunIsLater ==
    ASSUME TypeOK, NEW cron \in Crons, Occurring(cron)
    PROVE  NextRun(cron) \in Nat /\ NextRun(cron) > now
<1>1. now \in Nat /\ cron.first \in Nat /\ cron.step \in Nat
  BY SchedulerAssumption DEF TypeOK
<1>2. CASE now < cron.first
  BY <1>1, <1>2 DEF NextRun
<1>3. CASE now >= cron.first
  <2> DEFINE a == now - cron.first
             q == a \div cron.step + 1
  <2>1. a \in Nat /\ cron.step > 0
    BY <1>1, <1>3 DEF Occurring
  <2>2. q * cron.step > a /\ q \in Nat
    BY <1>1, <2>1, NextMultiple
  <2>3. NextRun(cron) = cron.first + q * cron.step
    BY <1>1, <1>3 DEF NextRun
  <2> HIDE DEF q
  <2>. QED BY <1>1, <1>3, <2>2, <2>3
<1>. QED BY <1>1, <1>2, <1>3

LEMMA RowFacts ==
    /\ NoRow \in Row /\ NoRow.id \notin Schedules /\ NoRow.job = None
    /\ \A row \in Row : row.next \in Nat /\ row.enabled \in BOOLEAN
BY SchedulerAssumption DEF NoRow, Row

LEMMA InitIInv == Init => IInv
<1> SUFFICES ASSUME Init PROVE IInv
  OBVIOUS
<1> USE SchedulerAssumption, RowFacts DEF Init
<1>1. TypeOK
  BY DEF TypeOK, Idle, NoRequest, TickFrame, RequestFrame
<1>2. NeverEarly /\ RowsKept /\ TickKept /\ RequestsKept
  BY DEF NeverEarly, RowsKept, TickKept, RequestsKept, Exists, Idle, NoRequest, InHand, Marking
<1>. QED BY <1>1, <1>2 DEF IInv

(* A step that runs nothing and writes no row, and gives up no record. *)
LEMMA NothingRun ==
    ASSUME IInv, UNCHANGED <<rows, fresh, request, last>>, lapsed \subseteq lapsed',
           \A s \in Schedules : Triggered(s) => Triggered(s)' \/ s \in lapsed'
    PROVE  RowsKept' /\ RequestsKept'
<1>1. \A s \in Schedules : \A next : Unrun(s, next) => Unrun(s, next)'
  BY DEF Unrun
<1>2. RowsKept'
  BY <1>1 DEF IInv, RowsKept, Exists
<1>3. RequestsKept'
  BY <1>1 DEF IInv, RequestsKept
<1>. QED BY <1>2, <1>3

(* A step that changes nothing but the place the loop is at. *)
LEMMA GoesKept ==
    ASSUME IInv, NEW from, NEW to, TickGoes(from, to),
           to \in {"next", "check", "create", "enable", "insert", "enqueue"},
           from \in InHand \cup Marking, from \in Marking => to = "next",
           from \in Marking => tick.row.id \in lapsed',
           lapsed \subseteq lapsed', lapsed' \subseteq Schedules,
           UNCHANGED <<now, rows, fresh, request, last, runs>>,
           jobs' \in [Jobs -> {"enabled", "disabled", "gone"}]
    PROVE  IInv'
<1>1. /\ tick'.at = to /\ tick'.due = tick.due /\ tick'.row = tick.row
      /\ tick' \in TickFrame /\ tick.at = from
  BY DEF IInv, TypeOK, TickFrame, TickGoes, Marking
<1>2. TypeOK'
  BY <1>1 DEF IInv, TypeOK, history
<1>3. NeverEarly' /\ RowsKept' /\ RequestsKept'
  <2>1. \A s \in Schedules : Triggered(s) => s \in lapsed'
    BY <1>1 DEF Triggered
  <2>. QED BY <2>1, NothingRun DEF IInv, NeverEarly
<1>4. TickKept'
  BY <1>1 DEF IInv, TickKept, Ahead, history, InHand, Marking
<1>. QED BY <1>2, <1>3, <1>4 DEF IInv

(* What a recorded trigger makes of the requests *)
LEMMA MissingFacts ==
    ASSUME TypeOK, NEW s
    PROVE  /\ Missing(s) \in [Requests -> RequestFrame]
           /\ \A r \in Requests :
               /\ Missing(s)[r].at = request[r].at /\ Missing(s)[r].row = request[r].row
               /\ request[r].missed => Missing(s)[r].missed
               /\ request[r].at = "update" /\ request[r].row.id = s => Missing(s)[r].missed
<1>1. ASSUME NEW r \in Requests
      PROVE  /\ Missing(s)[r] \in RequestFrame
             /\ Missing(s)[r].at = request[r].at /\ Missing(s)[r].row = request[r].row
             /\ Missing(s)[r].missed =
                    (request[r].missed \/ (request[r].at = "update" /\ request[r].row.id = s))
  <2> DEFINE b == request[r].missed \/ (request[r].at = "update" /\ request[r].row.id = s)
  <2>1. Missing(s)[r] = [request[r] EXCEPT !.missed = b] /\ request[r] \in RequestFrame
    BY DEF Missing, TypeOK
  <2>2. b \in BOOLEAN
    BY <2>1 DEF RequestFrame
  <2> HIDE DEF b
  <2>3. /\ Missing(s)[r] \in RequestFrame /\ Missing(s)[r].missed = b
        /\ Missing(s)[r].at = request[r].at /\ Missing(s)[r].row = request[r].row
    BY <2>1, <2>2 DEF RequestFrame
  <2>. QED BY <2>3 DEF b
<1>2. Missing(s) \in [Requests -> RequestFrame]
  BY <1>1 DEF Missing
<1>. QED BY <1>1, <1>2

LEMMA TickKeptByTick ==
    ASSUME IInv, Tick PROVE IInv'
<1> USE DEF history
<1>t. jobs \in [Jobs -> {"enabled", "disabled", "gone"}] /\ lapsed \subseteq Schedules
  BY DEF IInv, TypeOK
<1>1. CASE GetDue
  <2> DEFINE D == {rows[s] : s \in {s \in Schedules : Due(s)}}
  <2>1. tick' = [at |-> "next", due |-> D, row |-> NoRow] /\ tick.at = "idle"
    BY <1>1 DEF GetDue, Idle
  <2>2. \A s \in Schedules : Due(s) => rows[s].id = s /\ Ahead(rows[s]) /\ rows[s].cron \in Crons
    <3> SUFFICES ASSUME NEW s \in Schedules, Due(s)
                 PROVE  rows[s].id = s /\ Ahead(rows[s]) /\ rows[s].cron \in Crons
      OBVIOUS
    <3>1. Exists(s) /\ rows[s].enabled /\ rows[s].next < Midnight
      BY DEF Due
    <3>2. /\ rows[s].id = s /\ (last[s] < rows[s].next \/ s \in lapsed)
          /\ rows[s].cron \in Crons /\ s \notin fresh
      BY <2>1, <3>1 DEF IInv, RowsKept, Unrun, Triggered, Marking
    <3>3. Midnight <= now /\ Midnight \in Int /\ now \in Nat
      BY SchedulerAssumption DEF Midnight, IInv, TypeOK
    <3>4. rows[s].next \in Nat /\ rows[s].job \in Jobs
      BY <3>1, RowFacts DEF IInv, TypeOK, Exists, Row
    <3>. QED BY <3>1, <3>2, <3>3, <3>4 DEF Ahead
  <2>3. D \subseteq Row /\ tick' \in TickFrame
    BY <2>1, RowFacts DEF IInv, TypeOK, TickFrame
  <2>4. \A row \in D : Ahead(row) /\ row.cron \in Crons
    BY <2>2
  <2>5. \A row, other \in D : row.id = other.id => row = other
    BY <2>2
  <2> HIDE DEF D
  <2>6. TypeOK' /\ NeverEarly' /\ RowsKept' /\ RequestsKept'
    <3>1. TypeOK' /\ NeverEarly'
      BY <1>1, <2>3 DEF GetDue, IInv, TypeOK, NeverEarly
    <3>2. UNCHANGED <<rows, fresh, request, last, lapsed>>
      BY <1>1 DEF GetDue
    <3>. QED BY <2>1, <3>1, <3>2, NothingRun DEF Triggered, Marking
  <2>7. tick'.at = "next" /\ tick'.due = D /\ UNCHANGED <<now, last, lapsed, fresh>>
    <3>1. UNCHANGED <<now, last, lapsed, fresh>>
      BY <1>1 DEF GetDue
    <3>. QED BY <2>1, <3>1
  <2>8. \A row \in D : (Ahead(row) /\ row.cron \in Crons)'
    BY <2>4, <2>7 DEF Ahead
  <2>9. TickKept'
    BY <2>5, <2>7, <2>8 DEF TickKept, InHand, Marking
  <2>. QED BY <2>6, <2>9 DEF IInv
<1>2. CASE TickEnds
  <2>1. tick' \in TickFrame /\ tick'.at = "idle" /\ tick'.due = {} /\ tick.at = "next"
    BY <1>2, RowFacts DEF TickEnds, Idle, TickFrame
  <2>2. TypeOK' /\ NeverEarly'
    BY <1>2, <2>1 DEF TickEnds, IInv, TypeOK, NeverEarly
  <2>3. RowsKept' /\ RequestsKept'
    BY <1>2, <2>1, NothingRun DEF TickEnds, Triggered, Marking
  <2>4. TickKept'
    BY <2>1 DEF TickKept, InHand, Marking
  <2>. QED BY <2>2, <2>3, <2>4 DEF IInv
<1>3. ASSUME NEW row \in tick.due, TakeRow(row) PROVE IInv'
  <2>1. tick' \in TickFrame /\ tick.at = "next" /\ row \in Row
    BY <1>3 DEF TakeRow, IInv, TypeOK, TickFrame
  <2>2. TypeOK' /\ NeverEarly'
    BY <1>3, <2>1 DEF TakeRow, IInv, TypeOK, NeverEarly
  <2>3. /\ tick'.at = "check" /\ tick'.due = tick.due \ {row} /\ tick'.row = row
        /\ UNCHANGED <<now, rows, fresh, request, last, lapsed>>
    BY <1>3 DEF TakeRow
  <2>4. RowsKept' /\ RequestsKept'
    BY <2>1, <2>3, NothingRun DEF Triggered, Marking
  <2>5. TickKept'
    BY <2>3 DEF IInv, TickKept, Ahead, InHand, Marking
  <2>. QED BY <2>2, <2>4, <2>5 DEF IInv
<1>4. CASE CheckJob \/ ReadJobAgain \/ InsertExecution \/ InsertFails \/ EnqueueFails
  <2>a. UNCHANGED <<now, rows, fresh, request, history>> /\ jobs' = jobs
    BY <1>4 DEF CheckJob, ReadJobAgain, InsertExecution, InsertFails, EnqueueFails
  <2>1. CASE CheckJob
    <3>1. TickGoes("check", IF Job = "enabled" THEN "create" ELSE "next")
      BY <2>1 DEF CheckJob
    <3>. QED BY <2>a, <3>1, <1>t, GoesKept DEF InHand, Marking
  <2>2. CASE ReadJobAgain
    <3>1. tick.at = "create" /\ tick.row.job \in Jobs
      BY <2>2 DEF ReadJobAgain, TickGoes, IInv, TickKept, Ahead, InHand
    <3>2. Job \in {"enabled", "disabled", "gone"}
      BY <3>1, <1>t DEF Job
    <3>3. TickGoes("create", "insert") \/ TickGoes("create", "enable") \/ TickGoes("create", "next")
      BY <2>2, <3>2 DEF ReadJobAgain
    <3>. QED BY <2>a, <3>3, <1>t, GoesKept DEF InHand, Marking
  <2>3. CASE InsertExecution \/ InsertFails \/ EnqueueFails
    <3>1. \/ TickGoes("insert", "enqueue") \/ TickGoes("insert", "next") \/ TickGoes("enqueue", "next")
      BY <2>3 DEF InsertExecution, InsertFails, EnqueueFails, NextRow
    <3>. QED BY <2>a, <3>1, <1>t, GoesKept DEF InHand, Marking
  <2>. QED BY <1>4, <2>1, <2>2, <2>3
<1>5. CASE EnableAgain
  <2>1. TickGoes("enable", IF Job = "gone" THEN "next" ELSE "insert")
    BY <1>5 DEF EnableAgain
  <2>2. jobs' \in [Jobs -> {"enabled", "disabled", "gone"}]
    BY <1>5, <1>t DEF EnableAgain
  <2>3. UNCHANGED <<now, rows, fresh, request, last, runs, lapsed>>
    BY <1>5 DEF EnableAgain
  <2>. QED BY <1>t, <2>1, <2>2, <2>3, GoesKept DEF InHand, Marking
<1>6. CASE Enqueue
  <2> DEFINE s == tick.row.id
  <2>1. /\ tick.at = "enqueue" /\ tick'.at = "calculate" /\ tick'.due = tick.due
        /\ tick'.row = tick.row /\ tick' \in TickFrame
    BY <1>6 DEF Enqueue, TickGoes, IInv, TypeOK, TickFrame, Marking
  <2>2. /\ s \in Schedules \ fresh /\ tick.row.next <= now
        /\ tick.row.next \in Nat /\ now \in Nat
    BY <2>1, RowFacts DEF IInv, TickKept, Ahead, InHand, TypeOK, TickFrame
  <2>3. /\ last'[s] = tick.row.next /\ \A t \in Schedules \ {s} : last'[t] = last[t]
        /\ last' \in [Schedules -> Nat] /\ runs' \in [Schedules -> 0..1]
        /\ UNCHANGED <<now, jobs, rows, fresh, request, lapsed>>
    BY <1>6, <2>2 DEF Enqueue, IInv, TypeOK
  <2>4. TypeOK' /\ NeverEarly'
    BY <2>1, <2>2, <2>3 DEF IInv, TypeOK, NeverEarly
  <2>5. \A t \in Schedules : \A next : Unrun(t, next) => Unrun(t, next)'
    BY <2>1, <2>3 DEF Unrun, Triggered, Marking
  <2>6. RowsKept' /\ RequestsKept'
    BY <2>2, <2>3, <2>5 DEF IInv, RowsKept, RequestsKept, Exists
  <2>7. TickKept'
    <3>1. \A row \in tick.due : row.id # s
      BY <2>1 DEF IInv, TickKept, InHand
    <3>2. \A row \in tick.due : (Ahead(row) /\ row.cron \in Crons)'
      BY <2>1, <2>3, <3>1 DEF IInv, TickKept, Ahead
    <3>. QED BY <2>1, <2>3, <3>1, <3>2 DEF IInv, TickKept, InHand, Marking
  <2>. QED BY <2>4, <2>6, <2>7 DEF IInv
<1>7. CASE CalculateNext
  <2> DEFINE s == tick.row.id
             next == NextRun(tick.row.cron)
  <2>1. tick.at = "calculate" /\ tick \in TickFrame /\ tick.row \in Row
    BY <1>7 DEF CalculateNext, IInv, TypeOK, TickFrame
  <2>2. s \in Schedules \ fresh /\ tick.row.cron \in Crons /\ \A row \in tick.due : row.id # s
    BY <2>1 DEF IInv, TickKept, Marking
  <2>3. next \in Nat /\ next > now /\ now \in Nat /\ last[s] \in Nat /\ last[s] <= now
    BY <1>7, <2>2, NextRunIsLater DEF CalculateNext, IInv, TypeOK, NeverEarly
  <2>4. /\ tick'.at = "mark" /\ tick'.due = tick.due /\ tick'.row.id = s
        /\ tick'.row.next = next /\ tick'.row.cron = tick.row.cron /\ tick' \in TickFrame
    <3>1. [tick.row EXCEPT !.next = next] \in Row
      BY <2>1, <2>3 DEF Row
    <3>2. tick' = [tick EXCEPT !.at = "mark", !.row = [tick.row EXCEPT !.next = next]]
      BY <1>7 DEF CalculateNext
    <3>3. /\ tick'.at = "mark" /\ tick'.due = tick.due
          /\ tick'.row = [tick.row EXCEPT !.next = next] /\ tick' \in TickFrame
      BY <2>1, <3>1, <3>2 DEF TickFrame, Marking
    <3>. QED BY <2>1, <3>3 DEF Row
  <2>5. UNCHANGED <<now, jobs, rows, fresh, request, last, runs, lapsed>>
    BY <1>7 DEF CalculateNext
  <2>6. TypeOK' /\ NeverEarly'
    BY <2>4, <2>5 DEF IInv, TypeOK, NeverEarly
  <2>7. RowsKept' /\ RequestsKept'
    BY <2>4, <2>5, NothingRun DEF Triggered, Marking
  <2>8. TickKept'
    BY <2>2, <2>3, <2>4, <2>5 DEF IInv, TickKept, Ahead, InHand, Marking
  <2>. QED BY <2>6, <2>7, <2>8 DEF IInv
<1>8. CASE Mark
  <2> DEFINE s == tick.row.id
             next == tick.row.next
  <2>1. /\ tick.at = "mark" /\ tick'.at = "next" /\ tick'.due = tick.due /\ tick'.row = tick.row
        /\ tick' \in TickFrame
    BY <1>8 DEF Mark, NextRow, TickGoes, IInv, TypeOK, TickFrame
  <2>2. /\ s \in Schedules \ fresh /\ tick.row.cron \in Crons /\ last[s] < next
        /\ next \in Nat
    BY <2>1, RowFacts DEF IInv, TickKept, Marking, TypeOK, TickFrame
  <2>3. UNCHANGED <<now, jobs, fresh, last, runs, lapsed>>
    BY <1>8 DEF Mark, history
  <2>4. /\ \A t \in Schedules \ {s} : rows'[t] = rows[t]
        /\ rows' \in [Schedules -> Row]
        /\ IF Exists(s) THEN /\ rows'[s].id = rows[s].id /\ rows'[s].cron = rows[s].cron
                             /\ rows'[s].next = next
                        ELSE rows'[s] = rows[s]
    <3>1. rows[s] \in Row
      BY <2>2 DEF IInv, TypeOK
    <3>2. [rows[s] EXCEPT !.next = next] \in Row
      BY <2>2, <3>1 DEF Row
    <3>3. CASE Exists(s)
      <4>1. rows' = [rows EXCEPT ![s] = [rows[s] EXCEPT !.next = next]]
        BY <1>8, <3>3 DEF Mark
      <4>2. /\ \A t \in Schedules \ {s} : rows'[t] = rows[t]
            /\ rows' \in [Schedules -> Row]
            /\ rows'[s] = [rows[s] EXCEPT !.next = next]
        BY <2>2, <3>2, <4>1 DEF IInv, TypeOK
      <4>. QED BY <3>1, <3>3, <4>2 DEF Row
    <3>4. CASE ~Exists(s)
      BY <1>8, <3>4 DEF Mark, IInv, TypeOK
    <3>. QED BY <3>3, <3>4
  <2>5. /\ request' \in [Requests -> RequestFrame]
        /\ \A r \in Requests :
            /\ request'[r].at = request[r].at /\ request'[r].row = request[r].row
            /\ request[r].missed => request'[r].missed
            /\ request[r].at = "update" /\ request[r].row.id = s => request'[r].missed
    BY <1>8, MissingFacts DEF Mark, IInv
  <2>6. TypeOK' /\ NeverEarly'
    BY <2>1, <2>3, <2>4, <2>5 DEF IInv, TypeOK, NeverEarly
  <2>7. \A t \in Schedules \ {s} : \A n : Unrun(t, n) => Unrun(t, n)'
    BY <2>3 DEF Unrun, Triggered
  <2>8. RowsKept'
    <3> SUFFICES ASSUME NEW t \in Schedules
                 PROVE  /\ rows'[t].job # None =>
                              /\ t \notin fresh' /\ rows'[t].id = t /\ rows'[t].cron \in Crons
                              /\ last'[t] < rows'[t].next \/ t \in lapsed' \/ Triggered(t)'
                        /\ t \in fresh' => last'[t] = 0
      BY DEF RowsKept, Exists, Unrun, Triggered
    <3>1. CASE t = s
      <4>1. CASE Exists(s)
        BY <2>2, <2>3, <2>4, <3>1, <4>1 DEF IInv, RowsKept
      <4>2. CASE ~Exists(s)
        BY <2>2, <2>3, <2>4, <3>1, <4>2 DEF IInv, RowsKept, Exists
      <4>. QED BY <4>1, <4>2
    <3>2. CASE t # s
      <4>1. Triggered(t) => Triggered(t)' \/ t = s
        BY DEF Triggered
      <4>2. rows'[t] = rows[t] /\ UNCHANGED <<fresh, last, lapsed>>
        BY <2>3, <2>4, <3>2
      <4>. QED BY <3>2, <4>1, <4>2 DEF IInv, RowsKept, Exists, Unrun
    <3>. QED BY <3>1, <3>2
  <2>9. RequestsKept'
    BY <2>3, <2>5, <2>7 DEF IInv, RequestsKept
  <2>10. TickKept'
    BY <2>1, <2>3 DEF IInv, TickKept, Ahead, InHand, Marking
  <2>. QED BY <2>6, <2>8, <2>9, <2>10 DEF IInv
<1>9. CASE MarkFails
  <2>1. /\ TickGoes("mark", "next") \/ TickGoes("calculate", "next")
        /\ lapsed' = lapsed \cup {tick.row.id}
        /\ UNCHANGED <<now, jobs, rows, fresh, request, last, runs>>
    BY <1>9 DEF MarkFails, NextRow
  <2>2. tick.row.id \in Schedules
    BY <2>1 DEF TickGoes, IInv, TickKept, Marking
  <2>. QED BY <2>1, <2>2, <1>t, GoesKept DEF Marking
<1>. QED BY <1>1, <1>2, <1>3, <1>4, <1>5, <1>6, <1>7, <1>8, <1>9 DEF Tick

(* What an update makes of a row *)
LEMMA UpdatedFacts ==
    ASSUME NEW row \in Row, NEW cron \in Crons \cup {None}, NEW enabled \in BOOLEAN \cup {None},
           cron # None => NextRun(cron) \in Nat
    PROVE  LET u == Updated(row, cron, enabled) IN
           /\ u \in Row /\ u.id = row.id /\ u.job = row.job
           /\ u.cron = IF cron = None THEN row.cron ELSE cron
           /\ u.next = IF cron = None THEN row.next ELSE NextRun(cron)
<1> DEFINE c == IF cron = None THEN row.cron ELSE cron
           n == IF cron = None THEN row.next ELSE NextRun(cron)
           e == IF enabled = None THEN row.enabled ELSE enabled
<1>1. c \in [first : Nat \ {0}, step : Nat] /\ n \in Nat /\ e \in BOOLEAN
  BY SchedulerAssumption DEF Row
<1>2. Updated(row, cron, enabled) = [row EXCEPT !.cron = c, !.next = n, !.enabled = e]
  BY DEF Updated
<1> HIDE DEF c, n, e
<1>3. LET u == Updated(row, cron, enabled) IN
      u \in Row /\ u.id = row.id /\ u.job = row.job /\ u.cron = c /\ u.next = n
  BY <1>1, <1>2 DEF Row
<1>. QED BY <1>3 DEF c, n

LEMMA RequestKept ==
    ASSUME IInv, NEW r \in Requests, Request(r) PROVE IInv'
<1> USE DEF history
<1>f. \A f \in RequestFrame : [request EXCEPT ![r] = f] \in [Requests -> RequestFrame]
  BY DEF IInv, TypeOK
<1>n. NoRequest \in RequestFrame /\ NoRequest.at = "idle"
  BY RowFacts DEF NoRequest, RequestFrame
<1>l. now \in Nat /\ lapsed \subseteq Schedules
      /\ \A s \in Schedules : last[s] \in Nat /\ last[s] <= now
  BY DEF IInv, TypeOK, NeverEarly
<1>1. ASSUME NEW f \in RequestFrame, Start(r, f),
             f.at = "update" => f.row.id \in Schedules \ fresh /\ f.row.cron \in Crons
                                /\ Unrun(f.row.id, f.row.next),
             f.at = "create" => f.row.cron \in Crons /\ f.row.next > 0
      PROVE  IInv'
  <2>1. request' = [request EXCEPT ![r] = f] /\ UNCHANGED <<now, jobs, rows, fresh, tick, last, runs, lapsed>>
    BY <1>1 DEF Start
  <2>2. TypeOK' /\ NeverEarly' /\ TickKept'
    BY <1>f, <2>1 DEF IInv, TypeOK, NeverEarly, TickKept, Ahead
  <2>3. \A s \in Schedules : \A next : Unrun(s, next) => Unrun(s, next)'
    BY <2>1 DEF Unrun, Triggered
  <2>4. RowsKept'
    BY <2>1, <2>3 DEF IInv, RowsKept, Exists
  <2>5. RequestsKept'
    <3>1. request'[r] = f /\ \A q \in Requests \ {r} : request'[q] = request[q]
      BY <2>1 DEF IInv, TypeOK
    <3>. QED BY <1>1, <2>1, <2>3, <3>1 DEF IInv, RequestsKept
  <2>. QED BY <2>2, <2>4, <2>5 DEF IInv
<1>2. ASSUME NEW label, Finish(r, label), rows' \in [Schedules -> Row], fresh' \subseteq fresh,
             lapsed \subseteq lapsed', lapsed' \subseteq Schedules,
             \A s \in Schedules : Exists(s)' =>
                \/ rows'[s] = rows[s]
                \/ /\ s \notin fresh' /\ rows'[s].id = s /\ rows'[s].cron \in Crons
                   /\ last[s] < rows'[s].next \/ s \in lapsed' \/ Triggered(s)
      PROVE  IInv'
  <2>1. request' = [request EXCEPT ![r] = NoRequest] /\ UNCHANGED <<now, jobs, tick, last, runs>>
    BY <1>2 DEF Finish
  <2>2. TypeOK' /\ NeverEarly' /\ TickKept'
    <3>1. TypeOK' /\ NeverEarly'
      BY <1>2, <1>f, <1>n, <2>1 DEF IInv, TypeOK, NeverEarly
    <3>2. \A row : Ahead(row) => Ahead(row)'
      BY <1>2, <2>1 DEF Ahead
    <3>. QED BY <1>2, <2>1, <3>1, <3>2 DEF IInv, TickKept
  <2>3. \A s \in Schedules : \A next : Unrun(s, next) => Unrun(s, next)'
    BY <1>2, <2>1 DEF Unrun, Triggered
  <2>4. RowsKept'
    <3> SUFFICES ASSUME NEW s \in Schedules
                 PROVE  /\ Exists(s)' =>
                              /\ s \notin fresh' /\ rows'[s].id = s /\ rows'[s].cron \in Crons
                              /\ last'[s] < rows'[s].next \/ s \in lapsed' \/ Triggered(s)'
                        /\ s \in fresh' => last'[s] = 0
      BY DEF RowsKept, Exists, Unrun, Triggered
    <3>1. s \in fresh' => last'[s] = 0
      BY <1>2, <2>1 DEF IInv, RowsKept
    <3>2. CASE rows'[s] = rows[s]
      BY <1>2, <2>1, <3>1, <3>2 DEF IInv, RowsKept, Exists, Unrun, Triggered
    <3>3. CASE rows'[s] # rows[s]
      BY <1>2, <2>1, <3>1, <3>3 DEF Unrun, Triggered
    <3>. QED BY <3>2, <3>3
  <2>5. RequestsKept'
    <3>1. request'[r].at = "idle" /\ \A q \in Requests \ {r} : request'[q] = request[q]
      BY <1>n, <2>1 DEF IInv, TypeOK
    <3>. QED BY <1>2, <2>3, <3>1 DEF IInv, RequestsKept
  <2>. QED BY <2>2, <2>4, <2>5 DEF IInv
<1>3. ASSUME NEW j \in Jobs, NEW cron \in Crons, CreateRead(r, j, cron) PROVE IInv'
  <2> DEFINE n == [id |-> None, job |-> j, cron |-> cron, next |-> NextRun(cron), enabled |-> TRUE]
             f == [NoRequest EXCEPT !.at = "create", !.row = n]
  <2>1. NextRun(cron) \in Nat /\ NextRun(cron) > now
    BY <1>3, NextRunIsLater DEF CreateRead, IInv
  <2>2. n \in Row /\ n.cron = cron /\ n.next = NextRun(cron)
    BY <2>1, SchedulerAssumption DEF Row
  <2>3. Start(r, f)
    BY <1>3 DEF CreateRead
  <2> HIDE DEF n
  <2>4. f \in RequestFrame /\ f.at = "create" /\ f.row = n
    BY <1>n, <2>2 DEF RequestFrame, NoRequest
  <2> HIDE DEF f
  <2>. QED BY <1>1, <1>l, <2>1, <2>2, <2>3, <2>4
<1>4. ASSUME NEW s \in Schedules, NEW cron \in Crons \cup {None}, NEW enabled \in BOOLEAN \cup {None},
             UpdateRead(r, s, cron, enabled)
      PROVE  IInv'
  <2> DEFINE u == Updated(rows[s], cron, enabled)
             f == [at |-> "update", missed |-> FALSE, row |-> u]
  <2>1. Start(r, f) /\ Exists(s)
    BY <1>4 DEF UpdateRead
  <2>2. cron # None => NextRun(cron) \in Nat /\ NextRun(cron) > now
    BY <1>4, NextRunIsLater DEF UpdateRead, IInv
  <2>3. /\ rows[s] \in Row /\ rows[s].id = s /\ s \notin fresh /\ rows[s].cron \in Crons
        /\ Unrun(s, rows[s].next)
    BY <2>1 DEF IInv, TypeOK, RowsKept
  <2>4. /\ u \in Row /\ u.id = s /\ u.cron \in Crons
        /\ u.next = IF cron = None THEN rows[s].next ELSE NextRun(cron)
    BY <2>2, <2>3, UpdatedFacts
  <2> HIDE DEF u
  <2>5. Unrun(s, u.next)
    BY <1>l, <2>2, <2>3, <2>4 DEF Unrun
  <2>6. f \in RequestFrame /\ f.at = "update" /\ f.row = u
    BY <2>4 DEF RequestFrame
  <2> HIDE DEF f
  <2>. QED BY <1>1, <2>1, <2>3, <2>4, <2>5, <2>6
<1>5. ASSUME NEW s \in Schedules, ToggleRead(r, s) PROVE IInv'
  <2>1. rows[s].enabled \in BOOLEAN
    BY RowFacts DEF IInv, TypeOK
  <2>2. Exists(s)
    BY <1>5 DEF ToggleRead, UpdateRead
  <2>3. (IF rows[s].enabled THEN None ELSE rows[s].cron) \in Crons \cup {None}
    BY <2>2 DEF IInv, RowsKept
  <2>. QED BY <1>4, <1>5, <2>1, <2>3 DEF ToggleRead
<1>6. ASSUME NEW s \in Schedules, DeleteRead(r, s) PROVE IInv'
  <2> DEFINE f == [NoRequest EXCEPT !.at = "delete", !.row = rows[s]]
  <2>1. f \in RequestFrame /\ f.at = "delete"
    BY SchedulerAssumption DEF NoRequest, RequestFrame, IInv, TypeOK
  <2>2. Start(r, f)
    BY <1>6 DEF DeleteRead
  <2> HIDE DEF f
  <2>. QED BY <1>1, <2>1, <2>2
<1>7. CASE CreateInsert(r)
  <2> DEFINE q == request[r].row
  <2>o. lapsed' = lapsed /\ Finish(r, "create") /\ request[r].at = "create"
    BY <1>7 DEF CreateInsert, Finish
  <2>1. PICK s \in fresh : /\ fresh' = fresh \ {s}
                           /\ rows' = [rows EXCEPT ![s] = [q EXCEPT !.id = s]]
    BY <1>7 DEF CreateInsert
  <2>2. s \in Schedules /\ q \in Row /\ q.cron \in Crons /\ q.next > 0 /\ last[s] = 0
    BY <2>o DEF IInv, TypeOK, RequestFrame, RequestsKept, RowsKept
  <2> DEFINE n == [q EXCEPT !.id = s]
  <2>3. n \in Row /\ n.id = s /\ n.cron = q.cron /\ n.next = q.next
    BY <2>2 DEF Row
  <2> HIDE DEF n
  <2>4. /\ rows' \in [Schedules -> Row] /\ fresh' \subseteq fresh /\ s \notin fresh'
        /\ \A t \in Schedules \ {s} : rows'[t] = rows[t]
        /\ rows'[s] = n
    BY <2>1, <2>2, <2>3 DEF IInv, TypeOK, n
  <2>5. last[s] < n.next
    BY <2>2, <2>3
  <2>. QED BY <1>l, <1>2, <2>o, <2>2, <2>3, <2>4, <2>5
<1>8. CASE Update(r)
  <2> DEFINE u == request[r].row
             s == u.id
  <2>1. Finish(r, "update") /\ fresh' = fresh /\ rows' = [rows EXCEPT ![s] = u]
    BY <1>8 DEF Update
  <2>2. lapsed' = IF Rewinds(r) THEN lapsed \cup {s} ELSE lapsed
    BY <1>8 DEF Update
  <2>3. /\ s \in Schedules \ fresh /\ u.cron \in Crons /\ u \in Row /\ u.next \in Nat
        /\ request[r].missed \/ Unrun(s, u.next)
    BY <2>1, RowFacts DEF Finish, IInv, TypeOK, RequestsKept, RequestFrame
  <2>4. last[s] < u.next \/ s \in lapsed' \/ Triggered(s)
    <3>1. CASE Rewinds(r)
      BY <2>2, <3>1
    <3>2. CASE ~Rewinds(r) /\ request[r].missed
      BY <1>l, <2>3, <3>2 DEF Rewinds
    <3>3. CASE ~request[r].missed
      BY <2>2, <2>3, <3>3 DEF Unrun
    <3>. QED BY <3>1, <3>2, <3>3
  <2>5. rows' \in [Schedules -> Row] /\ rows'[s] = u
        /\ \A t \in Schedules \ {s} : rows'[t] = rows[t]
    BY <2>1, <2>3 DEF IInv, TypeOK
  <2>6. lapsed \subseteq lapsed' /\ lapsed' \subseteq Schedules
    BY <1>l, <2>2, <2>3
  <2> HIDE DEF s, u
  <2>7. u.id = s
    BY DEF s
  <2>. QED BY <1>2, <2>1, <2>3, <2>4, <2>5, <2>6, <2>7
<1>9. CASE Delete(r)
  <2>1. rows' \in [Schedules -> Row] /\ \A s \in Schedules : rows'[s] = rows[s] \/ rows'[s] = NoRow
    BY <1>9, RowFacts DEF Delete, IInv, TypeOK
  <2>2. \A s \in Schedules : Exists(s)' => rows'[s] = rows[s]
    BY <2>1, RowFacts DEF Exists
  <2>3. Finish(r, "delete") /\ fresh' = fresh /\ lapsed' = lapsed
    BY <1>9 DEF Delete
  <2>. QED BY <1>l, <1>2, <2>1, <2>2, <2>3
<1>10. CASE RequestFails(r)
  <2>1. rows' = rows /\ fresh' = fresh /\ lapsed' = lapsed /\ Finish(r, request[r].at)
    BY <1>10 DEF RequestFails
  <2>2. rows' \in [Schedules -> Row]
    BY <2>1 DEF IInv, TypeOK
  <2>. QED BY <1>l, <1>2, <2>1, <2>2
<1>. QED BY <1>3, <1>4, <1>5, <1>6, <1>7, <1>8, <1>9, <1>10 DEF Request

LEMMA NextIInv == IInv /\ [Next]_vars => IInv'
<1> SUFFICES ASSUME IInv, [Next]_vars PROVE IInv'
  OBVIOUS
<1> USE DEF history
<1>1. CASE TimePasses
  <2>1. now' = now + 1 /\ now' \in 0..Horizon /\ now \in Nat
        /\ UNCHANGED <<jobs, rows, fresh, tick, request, last, runs, lapsed>>
    BY <1>1, SchedulerAssumption DEF TimePasses, IInv, TypeOK
  <2>2. TypeOK'
    BY <2>1 DEF IInv, TypeOK
  <2>3. NeverEarly'
    BY <2>1 DEF IInv, TypeOK, NeverEarly
  <2>4. RowsKept' /\ RequestsKept'
    BY <2>1, NothingRun DEF Triggered
  <2>5. \A row \in Row : Ahead(row) => Ahead(row)'
    BY <2>1, RowFacts DEF Ahead
  <2>6. tick.due \subseteq Row /\ tick.row \in Row
    BY DEF IInv, TypeOK, TickFrame
  <2>7. TickKept'
    BY <2>1, <2>5, <2>6 DEF IInv, TickKept
  <2>. QED BY <2>2, <2>3, <2>4, <2>7 DEF IInv
<1>2. CASE Tick
  BY <1>2, TickKeptByTick
<1>3. CASE \E r \in Requests : Request(r)
  BY <1>3, RequestKept
<1>4. ASSUME NEW j \in Jobs, NEW state \in {"enabled", "disabled", "gone"}, SetJob(j, state)
      PROVE  IInv'
  <2>1. /\ rows' \in [Schedules -> Row]
        /\ \A s \in Schedules : rows'[s] = rows[s] \/ rows'[s] = NoRow
        /\ UNCHANGED <<now, fresh, tick, request, last, runs, lapsed>>
        /\ jobs' \in [Jobs -> {"enabled", "disabled", "gone"}]
    BY <1>4, RowFacts DEF SetJob, IInv, TypeOK
  <2>2. \A s \in Schedules : Exists(s)' => rows'[s] = rows[s]
    BY <2>1, RowFacts DEF Exists
  <2>3. \A s \in Schedules : \A next : Unrun(s, next)' <=> Unrun(s, next)
    BY <2>1 DEF Unrun, Triggered
  <2>4. TypeOK' /\ NeverEarly' /\ TickKept'
    BY <2>1 DEF IInv, TypeOK, NeverEarly, TickKept, Ahead
  <2>5. RequestsKept'
    BY <2>1, <2>3 DEF IInv, RequestsKept
  <2>6. RowsKept'
    BY <2>1, <2>2, <2>3 DEF IInv, RowsKept, Exists
  <2>. QED BY <2>4, <2>5, <2>6 DEF IInv
<1>5. CASE Crash
  <2>1. /\ tick'.at = "idle" /\ tick'.due = {} /\ tick' \in TickFrame
        /\ request' \in [Requests -> RequestFrame] /\ \A r \in Requests : request'[r].at = "idle"
    BY <1>5, RowFacts DEF Crash, Idle, NoRequest, TickFrame, RequestFrame
  <2>2. /\ UNCHANGED <<now, jobs, rows, fresh, last, runs>>
        /\ lapsed' = IF tick.at \in Marking THEN lapsed \cup {tick.row.id} ELSE lapsed
    BY <1>5 DEF Crash
  <2>3. TypeOK' /\ NeverEarly'
    BY <2>1, <2>2 DEF IInv, TypeOK, NeverEarly, TickKept
  <2>4. \A s \in Schedules : \A next : Unrun(s, next) => Unrun(s, next)'
    BY <2>1, <2>2 DEF Unrun, Triggered
  <2>5. RowsKept'
    BY <2>2, <2>4 DEF IInv, RowsKept, Exists
  <2>6. TickKept' /\ RequestsKept'
    BY <2>1, <2>2 DEF TickKept, RequestsKept, InHand, Marking
  <2>. QED BY <2>3, <2>5, <2>6 DEF IInv
<1>6. CASE UNCHANGED vars
  <2>1. UNCHANGED <<now, jobs, rows, fresh, tick, request, last, runs, lapsed>>
    BY <1>6 DEF vars
  <2>2. TypeOK' /\ NeverEarly' /\ TickKept'
    BY <2>1 DEF IInv, TypeOK, NeverEarly, TickKept, Ahead
  <2>3. RowsKept' /\ RequestsKept'
    BY <2>1, NothingRun DEF Triggered
  <2>. QED BY <2>2, <2>3 DEF IInv
<1>. QED BY <1>1, <1>2, <1>3, <1>4, <1>5, <1>6 DEF Next

(* Every step of the code is a step of the contract, or none. *)
LEMMA StepRefines == IInv /\ [Next]_vars => [Contract!Next]_(Contract!vars)
<1> SUFFICES ASSUME IInv, [Next]_vars PROVE [Contract!Next]_(Contract!vars)
  OBVIOUS
<1> USE DEF history, Contract!vars
<1>1. CASE TimePasses
  <2>1. now \in Nat
    BY DEF IInv, TypeOK
  <2>. QED BY <1>1, <2>1 DEF TimePasses, Contract!Next, Contract!TimePasses
<1>2. CASE Enqueue
  <2> DEFINE s == tick.row.id
             o == tick.row.next
  <2>1. /\ s \in Schedules /\ (last[s] < o \/ s \in lapsed) /\ o <= now
        /\ o \in Nat /\ now \in Nat /\ last[s] \in Nat
    BY <1>2, RowFacts DEF Enqueue, TickGoes, IInv, TypeOK, TickFrame, TickKept, Ahead, InHand
  <2>2. Contract!Occurs(s, o)
    BY <1>2, <2>1 DEF Enqueue, Contract!Occurs
  <2>3. o \in 0..now
    BY <2>1
  <2>. QED BY <2>1, <2>2, <2>3 DEF Contract!Next
<1>3. CASE UNCHANGED vars
  BY <1>3 DEF vars
<1>4. CASE Tick /\ ~Enqueue /\ ~MarkFails
  BY <1>4 DEF Tick, GetDue, TickEnds, TakeRow, CheckJob, ReadJobAgain, EnableAgain,
     InsertExecution, InsertFails, EnqueueFails, CalculateNext, Mark
<1>5. CASE MarkFails
  <2>1. Contract!Lapses(tick.row.id)
    BY <1>5 DEF MarkFails, Contract!Lapses
  <2>2. tick.row.id \in Schedules
    BY <1>5, RowFacts DEF MarkFails, NextRow, TickGoes, IInv, TickKept, Marking
  <2>. QED BY <2>1, <2>2 DEF Contract!Next
<1>6. ASSUME NEW r \in Requests, Request(r)
      PROVE  [Contract!Next]_(Contract!vars)
  <2>1. CASE ~Update(r)
    BY <1>6, <2>1 DEF Request, CreateRead, UpdateRead, ToggleRead, DeleteRead, Start,
       CreateInsert, Delete, RequestFails, Finish
  <2>2. CASE Update(r)
    <3> DEFINE s == request[r].row.id
    <3>1. s \in Schedules
      BY <2>2, RowFacts DEF Update, Finish, IInv, TypeOK, RequestFrame, RequestsKept
    <3>2. UNCHANGED <<now, last, runs>> /\ (lapsed' = lapsed \/ lapsed' = lapsed \cup {s})
      BY <2>2 DEF Update, Finish
    <3>3. lapsed' = lapsed \/ Contract!Lapses(s)
      BY <3>2 DEF Contract!Lapses
    <3>. QED BY <3>1, <3>2, <3>3 DEF Contract!Next
  <2>. QED BY <2>1, <2>2
<1>7. CASE \E j \in Jobs, state \in {"enabled", "disabled", "gone"} : SetJob(j, state)
  BY <1>7 DEF SetJob
<1>8. CASE Crash
  <2> DEFINE s == tick.row.id
  <2>1. UNCHANGED <<now, last, runs>>
        /\ lapsed' = IF tick.at \in Marking THEN lapsed \cup {s} ELSE lapsed
    BY <1>8 DEF Crash
  <2>2. CASE tick.at \in Marking
    <3>1. Contract!Lapses(s)
      BY <2>1, <2>2 DEF Contract!Lapses
    <3>2. s \in Schedules
      BY <2>2 DEF IInv, TickKept
    <3>. QED BY <3>1, <3>2 DEF Contract!Next
  <2>3. CASE tick.at \notin Marking
    BY <2>1, <2>3
  <2>. QED BY <2>2, <2>3
<1>. QED BY <1>1, <1>2, <1>3, <1>4, <1>5, <1>6, <1>7, <1>8 DEF Next, Tick

(* OccurrencesRunOnce holds of every scheduler, whatever fails: the loop and
   the rows of job_schedules refine ScheduleContract. *)
THEOREM SchedulerKeepsContract == Spec => OccurrencesRunOnce
<1>1. Init => Contract!Init
  BY DEF Init, Contract!Init
<1>2. IInv /\ [Next]_vars => IInv'
  BY NextIInv
<1>3. IInv /\ [Next]_vars => [Contract!Next]_(Contract!vars)
  BY StepRefines
<1>. QED BY <1>1, <1>2, <1>3, InitIInv, PTL DEF Spec, OccurrencesRunOnce, Contract!Spec

-----------------------------------------------------------------------------
(* Deletions: an id is given out once, and a row's job never changes. *)

FreshKept == \A s \in fresh : ~Exists(s)

UpdatesKept ==
    \A r \in Requests : request[r].at = "update" =>
        LET row == request[r].row IN
        row.id \notin fresh /\ (Exists(row.id) => rows[row.id].job = row.job)

DeletionInv == IInv /\ FreshKept /\ UpdatesKept

(* The loop and its requests write a row for a job only where there was one,
   or under a fresh id while the job is there. *)
LEMMA RowsWritten ==
    ASSUME DeletionInv, [Next]_vars, NEW s \in Schedules, Exists(s)'
    PROVE  \/ Exists(s) /\ rows'[s].job = rows[s].job
           \/ s \in fresh \ fresh' /\ jobs' = jobs /\ jobs[rows'[s].job] # "gone"
<1>1. /\ IInv /\ rows \in [Schedules -> Row]
      /\ \A t \in Schedules : rows[t].job \in Jobs \cup {None}
  BY DEF DeletionInv, IInv, TypeOK, Row
<1>2. CASE rows' = rows
  BY <1>2 DEF Exists
<1>3. CASE Mark
  <2>1. CASE rows'[s] = rows[s]
    BY <2>1 DEF Exists
  <2>2. CASE rows'[s] # rows[s]
    <3>1. Exists(s) /\ rows'[s] = [rows[s] EXCEPT !.next = tick.row.next]
      BY <1>1, <1>3, <2>2 DEF Mark
    <3>. QED BY <1>1, <3>1 DEF Row
  <2>. QED BY <2>1, <2>2
<1>4. ASSUME NEW r \in Requests, CreateInsert(r)
      PROVE  \/ Exists(s) /\ rows'[s].job = rows[s].job
             \/ s \in fresh \ fresh' /\ jobs' = jobs /\ jobs[rows'[s].job] # "gone"
  <2> DEFINE q == request[r].row
  <2>1. /\ jobs[q.job] # "gone" /\ jobs' = jobs
        /\ \E t \in fresh : fresh' = fresh \ {t} /\ rows' = [rows EXCEPT ![t] = [q EXCEPT !.id = t]]
    BY <1>4 DEF CreateInsert, Finish
  <2>2. PICK t \in fresh : fresh' = fresh \ {t} /\ rows' = [rows EXCEPT ![t] = [q EXCEPT !.id = t]]
    BY <2>1
  <2>3. t \in Schedules /\ [q EXCEPT !.id = t].job = q.job
    BY <1>1 DEF IInv, TypeOK, RequestFrame, Row
  <2>4. CASE s = t
    BY <1>1, <2>1, <2>2, <2>3, <2>4
  <2>5. CASE s # t
    BY <1>1, <2>2, <2>3, <2>5 DEF Exists
  <2>. QED BY <2>4, <2>5
<1>5. ASSUME NEW r \in Requests, Update(r)
      PROVE  Exists(s) /\ rows'[s].job = rows[s].job
  <2> DEFINE q == request[r].row
  <2>1. Finish(r, "update") /\ Exists(q.id) /\ rows' = [rows EXCEPT ![q.id] = q]
    BY <1>5 DEF Update
  <2>2. q \in Row /\ q.id \in Schedules /\ rows[q.id].job = q.job
    BY <1>1, <2>1 DEF Finish, DeletionInv, UpdatesKept, IInv, RequestsKept, TypeOK, RequestFrame
  <2>3. CASE s = q.id
    BY <1>1, <2>1, <2>2, <2>3
  <2>4. CASE s # q.id
    BY <1>1, <2>1, <2>2, <2>4 DEF Exists
  <2>. QED BY <2>3, <2>4
<1>6. ASSUME NEW r \in Requests, Delete(r)
      PROVE  rows'[s] = rows[s] /\ Exists(s)
  <2>1. rows'[s] = rows[s] \/ rows'[s] = NoRow
    BY <1>1, <1>6 DEF Delete
  <2>. QED BY <2>1, RowFacts DEF Exists
<1>7. ASSUME NEW j \in Jobs, NEW state \in {"enabled", "disabled", "gone"}, SetJob(j, state)
      PROVE  rows'[s] = rows[s] /\ Exists(s)
  <2>1. rows'[s] = rows[s] \/ rows'[s] = NoRow
    BY <1>1, <1>7 DEF SetJob
  <2>. QED BY <2>1, RowFacts DEF Exists
<1>8. CASE Tick
  BY <1>2, <1>3, <1>8 DEF Tick, GetDue, TickEnds, TakeRow, CheckJob, ReadJobAgain, EnableAgain,
     InsertExecution, InsertFails, Enqueue, EnqueueFails, CalculateNext, MarkFails
<1>9. ASSUME NEW r \in Requests, Request(r)
      PROVE  \/ Exists(s) /\ rows'[s].job = rows[s].job
             \/ s \in fresh \ fresh' /\ jobs' = jobs /\ jobs[rows'[s].job] # "gone"
  BY <1>2, <1>4, <1>5, <1>6, <1>9 DEF Request, CreateRead, UpdateRead, ToggleRead, DeleteRead,
     Start, RequestFails
<1>. QED BY <1>2, <1>7, <1>8, <1>9 DEF Next, TimePasses, Crash, vars

(* An id is given out once. *)
LEMMA FreshStep ==
    ASSUME DeletionInv, [Next]_vars
    PROVE  FreshKept' /\ fresh' \subseteq fresh
<1>1. fresh' \subseteq fresh
  <2>1. ASSUME NEW r \in Requests, Request(r)
        PROVE  fresh' \subseteq fresh
    BY <2>1 DEF Request, CreateRead, UpdateRead, ToggleRead, DeleteRead, Start, CreateInsert,
       Update, Delete, RequestFails, Finish
  <2>2. CASE Tick
    BY <2>2 DEF Tick, GetDue, TickEnds, TakeRow, CheckJob, ReadJobAgain, EnableAgain,
       InsertExecution, InsertFails, Enqueue, EnqueueFails, CalculateNext, Mark, MarkFails
  <2>. QED BY <2>1, <2>2 DEF Next, TimePasses, SetJob, Crash, vars
<1>2. FreshKept'
  <2> SUFFICES ASSUME NEW s \in fresh', Exists(s)' PROVE FALSE
    BY DEF FreshKept
  <2>1. s \in fresh /\ s \in Schedules /\ ~Exists(s)
    BY <1>1 DEF DeletionInv, IInv, TypeOK, FreshKept
  <2>. QED BY <2>1, RowsWritten
<1>. QED BY <1>1, <1>2

(* What an update has read names the job the row still has. *)
LEMMA UpdatesStep ==
    ASSUME DeletionInv, [Next]_vars
    PROVE  UpdatesKept'
<1>. SUFFICES ASSUME NEW r \in Requests, request'[r].at = "update"
              PROVE  /\ request'[r].row.id \notin fresh'
                     /\ rows'[request'[r].row.id].job # None =>
                            rows'[request'[r].row.id].job = request'[r].row.job
  BY DEF UpdatesKept, Exists
<1>1. IInv /\ fresh' \subseteq fresh
  BY FreshStep DEF DeletionInv
<1> DEFINE same == request'[r].at = request[r].at /\ request'[r].row = request[r].row
<1>2. CASE same
  <2>1. request[r].row.id \in Schedules \ fresh
    BY <1>1, <1>2 DEF IInv, RequestsKept
  <2>. QED BY <1>1, <1>2, <2>1, RowsWritten DEF DeletionInv, UpdatesKept, Exists
<1>3. CASE ~same
  <2>1. \E q \in Requests : Request(q)
    <3>1. ~Crash
      <4> SUFFICES ASSUME Crash PROVE FALSE
        OBVIOUS
      <4>1. request'[r] = NoRequest
        BY DEF Crash
      <4>. QED BY <4>1 DEF NoRequest
    <3>2. ~Tick
      <4>1. ~Mark
        BY <1>1, <1>3, MissingFacts DEF Mark, IInv
      <4>. QED BY <1>3, <4>1 DEF Tick, GetDue, TickEnds, TakeRow, CheckJob, ReadJobAgain,
               EnableAgain, InsertExecution, InsertFails, Enqueue, EnqueueFails, CalculateNext,
               MarkFails
    <3>. QED BY <1>3, <3>1, <3>2 DEF Next, TimePasses, SetJob, vars
  <2>2. PICK q \in Requests : Request(q)
    BY <2>1
  <2>3. request \in [Requests -> RequestFrame]
    BY <1>1 DEF IInv, TypeOK
  <2>4. ~(\E label : Finish(q, label))
    <3> SUFFICES ASSUME NEW label, Finish(q, label) PROVE FALSE
      OBVIOUS
    <3>1. request' = [request EXCEPT ![q] = NoRequest]
      BY DEF Finish
    <3>2. request'[r] = NoRequest
      BY <1>3, <2>3, <3>1
    <3>. QED BY <3>2 DEF NoRequest
  <2>5. ASSUME NEW f, Start(q, f)
        PROVE  request'[r] = f /\ UNCHANGED <<rows, fresh>>
    BY <1>3, <2>3, <2>5 DEF Start
  <2>6. ASSUME NEW s \in Schedules, NEW cron \in Crons \cup {None},
               NEW enabled \in BOOLEAN \cup {None}, UpdateRead(q, s, cron, enabled)
        PROVE  /\ request'[r].row.id \notin fresh'
               /\ rows'[request'[r].row.id].job = request'[r].row.job
    <3> DEFINE u == Updated(rows[s], cron, enabled)
               f == [at |-> "update", missed |-> FALSE, row |-> u]
    <3>1. Exists(s) /\ Start(q, f)
      BY <2>6 DEF UpdateRead
    <3>2. rows[s].id = s /\ s \notin fresh /\ rows[s] \in Row
      BY <1>1, <3>1 DEF IInv, RowsKept, TypeOK
    <3>3. cron # None => NextRun(cron) \in Nat
      BY <1>1, <2>6, NextRunIsLater DEF UpdateRead, IInv
    <3>4. u.id = s /\ u.job = rows[s].job
      BY <3>2, <3>3, UpdatedFacts
    <3>5. request'[r] = f /\ UNCHANGED <<rows, fresh>>
      BY <2>5, <3>1
    <3> HIDE DEF u
    <3>. QED BY <3>2, <3>4, <3>5
  <2>7. ASSUME NEW j \in Jobs, NEW cron \in Crons, CreateRead(q, j, cron)
        PROVE  FALSE
    <3> DEFINE f == [NoRequest EXCEPT !.at = "create", !.row =
                 [id |-> None, job |-> j, cron |-> cron, next |-> NextRun(cron), enabled |-> TRUE]]
    <3>1. f.at = "create"
      BY DEF NoRequest
    <3>2. Start(q, f)
      BY <2>7 DEF CreateRead
    <3> HIDE DEF f
    <3>. QED BY <2>5, <3>1, <3>2
  <2>8. ASSUME NEW s \in Schedules, DeleteRead(q, s)
        PROVE  FALSE
    <3> DEFINE f == [NoRequest EXCEPT !.at = "delete", !.row = rows[s]]
    <3>1. f.at = "delete"
      BY DEF NoRequest
    <3>2. Start(q, f)
      BY <2>8 DEF DeleteRead
    <3> HIDE DEF f
    <3>. QED BY <2>5, <3>1, <3>2
  <2>9. ASSUME NEW s \in Schedules, ToggleRead(q, s)
        PROVE  /\ request'[r].row.id \notin fresh'
               /\ rows'[request'[r].row.id].job = request'[r].row.job
    <3>1. Exists(s) /\ rows[s].enabled \in BOOLEAN
      BY <1>1, <2>9, RowFacts DEF ToggleRead, UpdateRead, IInv, TypeOK
    <3>2. (IF rows[s].enabled THEN None ELSE rows[s].cron) \in Crons \cup {None}
      BY <1>1, <3>1 DEF IInv, RowsKept
    <3>. QED BY <2>6, <2>9, <3>1, <3>2 DEF ToggleRead
  <2>. QED BY <2>2, <2>4, <2>6, <2>7, <2>8, <2>9
           DEF Request, CreateInsert, Update, Delete, RequestFails
<1>. QED BY <1>2, <1>3

(* The foreign key holds across every overlap of requests and deletions. *)
LEMMA OutlivesStep ==
    ASSUME DeletionInv, NothingOutlivesItsJob, [Next]_vars
    PROVE  NothingOutlivesItsJob'
<1>. SUFFICES ASSUME NEW s \in Schedules, Exists(s)', jobs'[rows'[s].job] = "gone"
              PROVE  FALSE
  BY DEF NothingOutlivesItsJob
<1>1. Exists(s) /\ rows'[s].job = rows[s].job
  BY RowsWritten
<1>2. /\ jobs \in [Jobs -> {"enabled", "disabled", "gone"}]
      /\ rows[s].job \in Jobs /\ jobs[rows[s].job] # "gone"
  BY <1>1 DEF NothingOutlivesItsJob, DeletionInv, IInv, TypeOK, Row, Exists
<1>3. ASSUME NEW j \in Jobs, NEW state \in {"enabled", "disabled", "gone"}, SetJob(j, state)
      PROVE  FALSE
  <2>1. j = rows[s].job /\ state = "gone"
    BY <1>1, <1>2, <1>3 DEF SetJob
  <2>2. rows'[s] = NoRow
    BY <1>3, <2>1 DEF SetJob, Of
  <2>. QED BY <2>2, RowFacts DEF Exists
<1>4. CASE EnableAgain
  BY <1>1, <1>2, <1>4 DEF EnableAgain
<1>5. CASE Tick /\ ~EnableAgain
  BY <1>1, <1>2, <1>5 DEF Tick, GetDue, TickEnds, TakeRow, CheckJob, ReadJobAgain,
     InsertExecution, InsertFails, Enqueue, EnqueueFails, CalculateNext, Mark, MarkFails, history
<1>6. ASSUME NEW r \in Requests, Request(r)
      PROVE  FALSE
  BY <1>1, <1>2, <1>6 DEF Request, CreateRead, UpdateRead, ToggleRead, DeleteRead, Start,
     CreateInsert, Update, Delete, RequestFails, Finish
<1>. QED BY <1>1, <1>2, <1>3, <1>4, <1>5, <1>6 DEF Next, TimePasses, Crash, vars

(* Where the deletions start *)
LEMMA DeletionInit == Init => DeletionInv /\ NothingOutlivesItsJob
<1>. SUFFICES ASSUME Init PROVE DeletionInv /\ NothingOutlivesItsJob
  OBVIOUS
<1>1. \A s \in Schedules : ~Exists(s)
  BY RowFacts DEF Init, Exists
<1>2. \A r \in Requests : request[r].at = "idle"
  BY DEF Init, NoRequest
<1>. QED BY <1>1, <1>2, InitIInv
         DEF Init, DeletionInv, FreshKept, UpdatesKept, NothingOutlivesItsJob

LEMMA DeletionStep == DeletionInv /\ [Next]_vars => DeletionInv'
BY NextIInv, FreshStep, UpdatesStep DEF DeletionInv

(* No schedule is left of a job that is gone, and none is made for it,
   although requests look the job up some awaits before they write. *)
THEOREM SchedulesGoWithTheirJob == Spec => []NothingOutlivesItsJob
<1>1. Init => DeletionInv /\ NothingOutlivesItsJob
  BY DeletionInit
<1>2. DeletionInv /\ NothingOutlivesItsJob /\ [Next]_vars => NothingOutlivesItsJob'
  BY OutlivesStep
<1>. QED BY <1>1, <1>2, DeletionStep, PTL DEF Spec

(* No request or tick that overlaps with a deletion writes the row back. *)
THEOREM DeletionsAreFinal == Spec => DeletedStaysDeleted
<1>1. Init => DeletionInv
  BY DeletionInit
<1>2. DeletionInv /\ [Next]_vars =>
          [\A s \in Schedules \ fresh : ~Exists(s) => ~Exists(s)']_vars
  BY RowsWritten
<1>. QED BY <1>1, <1>2, DeletionStep, PTL DEF Spec, DeletedStaysDeleted
=============================================================================
