------------------------------ MODULE Packages ------------------------------
(***************************************************************************)
(* The packages of the main venv: what pip has put on disk, and the rows   *)
(* of package_cache that say so, under concurrent API requests             *)
(* (services/package_service.rs, worker/package_manager.rs,                *)
(* db/packages.rs, api/packages.rs).  A lock holds pip runs apart; the     *)
(* rows are read before it is taken and written after it is released.      *)
(*                                                                         *)
(* pip is outside.  It knows a package by its normalised name, whatever    *)
(* the spelling; the rows keep the spelling that was asked for.  It        *)
(* changes what it was asked for and, for its dependencies, others too,    *)
(* which no request hears of.  The main venv exists since start-up.        *)
(***************************************************************************)
EXTENDS FiniteSets, Naturals

CONSTANTS
    Requests, Versions,
    Names,      \* the spellings of packages that requests use
    Lower,      \* each name in lower case, ...
    Package,    \* ... and as pip knows it: -, _ and . are one to it as well
    Requires,   \* the packages that pip may change for the sake of each package
    Wants,      \* the versions asked for; an update asks for None, the latest
    RowIds,     \* bound: rows of package_cache
    Workloads,  \* bound: the names that each request asks for
    FailOnConflict, \* the strategy is "fail"; the others only warn
    None        \* no version asked for, or none on disk; no row, pip or holder

Packages == {Package[n] : n \in Names}
Alike(name) == {n \in Names : Lower[n] = Lower[name]}
Spellings(packages) == {n \in Names : Package[n] \in packages}

Item == [name : Names, want : Versions \cup {None}]
Row == [name : Names, version : Versions \cup {"latest"}, status : {"ready", "failed"}]

ASSUME PackagesAssumption ==
    /\ None \notin Versions /\ "latest" \notin Versions
    /\ None \notin Requests \cup Row \cup Item \cup [uninstall : Names]
    /\ Requires \in [Packages -> SUBSET Packages]
    /\ \A m, n \in Names : Lower[m] = Lower[n] => Package[m] = Package[n]
    /\ Wants \subseteq Versions \cup {None}
    /\ FailOnConflict \in BOOLEAN
    /\ Workloads \subseteq [Requests -> SUBSET Names]

VARIABLES
    disk, \* the version of each package in the venv
    rows, \* package_cache: id to row
    lock, \* main_venv_lock: who holds it
    pip,  \* what each request's last pip is doing, when it is still running
    req,  \* each request: where it is, with what
    asks, \* the workload
    calm, \* history: one request at a time, all that was tried was done, and
          \* no row was deleted for itself
    told  \* history, while calm: the names under which a request has heard of
          \* the last change of the package; of one made for another package's
          \* sake, or by a pip that failed, it hears nothing

vars == <<disk, rows, lock, pip, req, asks, calm, told>>

Idle == [at |-> "idle"]
Busy == {r \in Requests : req[r].at # "idle"}

Listed == {i \in RowIds : rows[i] # None}
Of(name) == {i \in Listed : rows[i].name = name}
Matching(name, version) == {i \in Of(name) : rows[i].version = version}

Init ==
    /\ disk = [p \in Packages |-> None]
    /\ rows = [i \in RowIds |-> None]
    /\ lock = None
    /\ pip = [r \in Requests |-> None]
    /\ req = [r \in Requests |-> Idle]
    /\ calm = TRUE
    /\ told = Names
    /\ asks \in Workloads

Goes(r, frame) == req' = [req EXCEPT ![r] = frame] /\ UNCHANGED asks
Goto(r, frame) == Goes(r, frame) /\ UNCHANGED <<calm, told>>
Strays(r, frame) == Goes(r, frame) /\ calm' = FALSE /\ told' = {}

(* alike: what the request writes on disk it also writes in the rows *)
Start(r, alike, frame) ==
    /\ req[r].at = "idle" /\ pip[r] = None
    /\ Goes(r, frame)
    /\ calm' = (calm /\ alike /\ Busy = {})
    /\ told' = IF calm' THEN told ELSE {}
    /\ UNCHANGED <<disk, rows, lock, pip>>

-----------------------------------------------------------------------------
(* Requests that install: one package, all that are listed, or those a job
   depends on *)

Installing(items) == [at |-> "next", todo |-> items]

Install(r, item) == Start(r, TRUE, Installing({item}))
UpdateAll(r) ==
    Start(r, TRUE, Installing({[name |-> rows[i].name, want |-> None] : i \in Listed}))
InstallDependencies(r, items) == Start(r, TRUE, Installing(items))

(* The row the version is compared with is any of the package's; when it cannot
   be read there is no conflict. *)
Conflicts(i, item) ==
    /\ FailOnConflict /\ item.want # None
    /\ rows[i].status = "ready" /\ rows[i].version # item.want

CheckConflict(r) ==
    /\ req[r].at = "next"
    /\ \E item \in req[r].todo :
        LET rest == req[r].todo \ {item} IN
        \/ Goto(r, [at |-> "lock", todo |-> rest, item |-> item])
        \/ (\E i \in Of(item.name) : Conflicts(i, item)) /\ Goto(r, Installing(rest))
    /\ UNCHANGED <<disk, rows, lock, pip>>

LockAndInstall(r) ==
    /\ req[r].at = "lock" /\ lock = None
    /\ lock' = r
    /\ pip' = [pip EXCEPT ![r] = req[r].item]
    /\ Goto(r, [req[r] EXCEPT !.at = "pip"])
    /\ UNCHANGED <<disk, rows>>

(* pip show tells the version, if it can; else it is the one asked for. *)
Asked(item) == IF item.want = None THEN "latest" ELSE item.want

InstallEnds(r, version, status) ==
    /\ lock' = None
    /\ Goto(r, [at |-> "update row", todo |-> req[r].todo,
                row |-> [name |-> req[r].item.name, version |-> version, status |-> status]])

(* ... with what was asked for, for want of what is there *)
InstallEndsBadly(r, status) ==
    /\ lock' = None
    /\ Strays(r, [at |-> "update row", todo |-> req[r].todo,
                  row |-> [name |-> req[r].item.name, version |-> Asked(req[r].item),
                           status |-> status]])

Installed(r) ==
    /\ req[r].at = "installed"
    /\ InstallEnds(r, disk[Package[req[r].item.name]], "ready")
    /\ disk[Package[req[r].item.name]] # None
    /\ UNCHANGED <<disk, rows, pip>>

InstalledUnknown(r) ==
    /\ req[r].at = "installed"
    /\ InstallEndsBadly(r, "ready")
    /\ UNCHANGED <<disk, rows, pip>>

InstallFails(r) ==
    /\ req[r].at = "failed"
    /\ InstallEnds(r, Asked(req[r].item), "failed")
    /\ UNCHANGED <<disk, rows, pip>>

(* Mutant: a time-out leaves the lock taken. *)
TimesOutLocked(r) ==
    /\ req[r].at = "pip"
    /\ Strays(r, Installing(req[r].todo))
    /\ UNCHANGED <<disk, rows, lock, pip>>

(* The time-out ends the wait, not pip. *)
TimesOut(r) ==
    /\ req[r].at = "pip"
    /\ InstallEndsBadly(r, "failed")
    /\ UNCHANGED <<disk, rows, pip>>

(* Mutant: an upsert that trusts the UNIQUE constraint *)
InsertAnyway(r) ==
    /\ req[r].at = "update row"
    /\ Goto(r, [req[r] EXCEPT !.at = "insert row"])
    /\ UNCHANGED <<disk, rows, lock, pip>>

(* upsert_cache: an UPDATE and, when it met no row, an INSERT *)
UpdateRow(r) ==
    /\ req[r].at = "update row"
    /\ LET row == req[r].row
           old == Matching(row.name, row.version) IN
        /\ rows' = [i \in RowIds |-> IF i \in old THEN row ELSE rows[i]]
        /\ Goto(r, IF old = {} THEN [req[r] EXCEPT !.at = "insert row"] ELSE Installing(req[r].todo))
    /\ UNCHANGED <<disk, lock, pip>>

InsertRow(r) ==
    /\ req[r].at = "insert row" /\ Listed # RowIds
    /\ rows' = [rows EXCEPT ![CHOOSE i \in RowIds : rows[i] = None] = req[r].row]
    /\ Goto(r, Installing(req[r].todo))
    /\ UNCHANGED <<disk, lock, pip>>

(* Either statement may fail (in this model it must when RowIds is used
   up): the package then counts as not installed. *)
SaveFails(r) ==
    /\ req[r].at \in {"update row", "insert row"}
    /\ Strays(r, Installing(req[r].todo))
    /\ UNCHANGED <<disk, rows, lock, pip>>

AllInstalled(r) ==
    /\ req[r].at = "next" /\ req[r].todo = {}
    /\ Goto(r, Idle)
    /\ UNCHANGED <<disk, rows, lock, pip>>

-----------------------------------------------------------------------------
(* Requests that remove *)

Uninstall(r, name) == Start(r, TRUE, [at |-> "lock to uninstall", name |-> name])

(* Mutant: uninstall_package instead of uninstall_from_main_venv *)
UninstallUnlocked(r) ==
    /\ req[r].at = "lock to uninstall"
    /\ pip' = [pip EXCEPT ![r] = [uninstall |-> req[r].name]]
    /\ Goto(r, [req[r] EXCEPT !.at = "pip uninstall"])
    /\ UNCHANGED <<disk, rows, lock>>

LockAndUninstall(r) ==
    /\ req[r].at = "lock to uninstall" /\ lock = None
    /\ lock' = r
    /\ pip' = [pip EXCEPT ![r] = [uninstall |-> req[r].name]]
    /\ Goto(r, [req[r] EXCEPT !.at = "pip uninstall"])
    /\ UNCHANGED <<disk, rows>>

(* Mutant: only one row of the package is found. *)
DoomedOne(is) ==
    [at |-> "delete rows",
     doomed |-> IF is = {} THEN {}
                ELSE LET i == CHOOSE i \in is : TRUE IN {[name |-> rows[i].name, version |-> rows[i].version]}]

(* The rows of the package, or with clear all rows, are read ... *)
Doomed(is) == [at |-> "delete rows", doomed |-> {[name |-> rows[i].name, version |-> rows[i].version] : i \in is}]

Uninstalled(r) ==
    /\ req[r].at = "uninstalled"
    /\ \/ Goto(r, Doomed({i \in Listed : rows[i].name \in Alike(req[r].name)}))
       \/ Strays(r, Idle)
    /\ UNCHANGED <<disk, rows, lock, pip>>

UninstallFails(r) ==
    /\ req[r].at = "not uninstalled"
    /\ Goto(r, Idle)
    /\ UNCHANGED <<disk, rows, lock, pip>>

Clear(r) == Start(r, FALSE, Doomed(Listed))

Delete(r, name, version) ==
    Start(r, FALSE, [at |-> "delete rows", doomed |-> {[name |-> name, version |-> version]}])

(* ... and deleted one after the other, those that can be. *)
DeleteRows(r) ==
    /\ req[r].at = "delete rows"
    /\ \E d \in req[r].doomed :
        LET rest == [req[r] EXCEPT !.doomed = @ \ {d}] IN
        \/ /\ rows' = [i \in RowIds |-> IF i \in Matching(d.name, d.version) THEN None ELSE rows[i]]
           /\ Goto(r, rest)
        \/ UNCHANGED rows /\ Strays(r, rest)
    /\ UNCHANGED <<disk, lock, pip>>

AllDeleted(r) ==
    /\ req[r].at = "delete rows" /\ req[r].doomed = {}
    /\ Goto(r, Idle)
    /\ UNCHANGED <<disk, rows, lock, pip>>

-----------------------------------------------------------------------------
(* pip; whoever still waits for it learns how it ended. An install keeps the
   lock to ask for the version. *)

InstallPip(r) == pip[r] # None /\ DOMAIN pip[r] = {"name", "want"}
UninstallPip(r) == pip[r] # None /\ DOMAIN pip[r] = {"uninstall"}

PipGoes(r, done) ==
    Goes(r, CASE req[r].at = "pip" -> [req[r] EXCEPT !.at = IF done THEN "installed" ELSE "failed"]
              [] req[r].at = "pip uninstall" ->
                     [req[r] EXCEPT !.at = IF done THEN "uninstalled" ELSE "not uninstalled"]
              [] OTHER -> req[r])

(* Mutant: a failed uninstallation leaves the lock taken. *)
PipEndsLocked(r, done) ==
    /\ pip' = [pip EXCEPT ![r] = None]
    /\ PipGoes(r, done)
    /\ lock' = IF req[r].at = "pip uninstall" /\ done THEN None ELSE lock
    /\ UNCHANGED <<rows, calm>>

PipEnds(r, done) ==
    /\ pip' = [pip EXCEPT ![r] = None]
    /\ PipGoes(r, done)
    /\ lock' = IF req[r].at = "pip uninstall" THEN None ELSE lock
    /\ UNCHANGED <<rows, calm>>

(* What may be on disk when pip has worked on a package, or on its way there *)
Outcomes(package) ==
    {after \in [Packages -> Versions \cup {None}] :
        \A p \in Packages \ ({package} \cup Requires[package]) : after[p] = disk[p]}

(* heard: the names that the request hears of *)
Leaves(after, heard) ==
    /\ disk' = after
    /\ told' = IF calm THEN (told \ Spellings({p \in Packages : after[p] # disk[p]})) \cup heard
               ELSE {}

PipInstalls(r) ==
    /\ InstallPip(r)
    /\ \E after \in Outcomes(Package[pip[r].name]) :
        /\ after[Package[pip[r].name]] \in IF pip[r].want = None THEN Versions ELSE {pip[r].want}
        /\ Leaves(after, {pip[r].name})
    /\ PipEnds(r, TRUE)

PipUninstalls(r) ==
    /\ UninstallPip(r)
    /\ Leaves([disk EXCEPT ![Package[pip[r].uninstall]] = None], Alike(pip[r].uninstall))
    /\ PipEnds(r, TRUE)

(* A pip that fails may have changed something before it did. *)
PipFails(r) ==
    /\ pip[r] # None
    /\ LET name == IF InstallPip(r) THEN pip[r].name ELSE pip[r].uninstall IN
        \E after \in Outcomes(Package[name]) : Leaves(after, {})
    /\ PipEnds(r, FALSE)

-----------------------------------------------------------------------------
(* A client that hangs up has its request dropped, and the lock with it. *)
HangUp(r) ==
    /\ req[r].at # "idle"
    /\ Strays(r, Idle)
    /\ lock' = IF lock = r THEN None ELSE lock
    /\ UNCHANGED <<disk, rows, pip>>

Crash ==
    /\ req' = [r \in Requests |-> Idle] /\ calm' = FALSE /\ told' = {}
    /\ lock' = None
    /\ UNCHANGED <<disk, rows, pip, told, asks>>

Begin(r) ==
    LET items == [name : asks[r], want : Wants] IN
    /\ asks[r] # {}
    /\ \/ \E item \in items : Install(r, item)
       \/ UpdateAll(r)
       \/ \E todo \in SUBSET items : InstallDependencies(r, todo)
       \/ \E name \in asks[r] : Uninstall(r, name)
       \/ Clear(r)
       \/ \E name \in asks[r], version \in Versions : Delete(r, name, version)

Locks(r) == LockAndInstall(r) \/ LockAndUninstall(r)

Shows(r) == Installed(r) \/ InstalledUnknown(r)

Step(r) ==
    \/ CheckConflict(r) \/ InstallFails(r) \/ TimesOut(r)
    \/ UpdateRow(r) \/ InsertRow(r) \/ SaveFails(r) \/ AllInstalled(r)
    \/ Uninstalled(r) \/ UninstallFails(r) \/ DeleteRows(r) \/ AllDeleted(r)

Pip(r) == PipInstalls(r) \/ PipUninstalls(r) \/ PipFails(r)

Next ==
    \/ \E r \in Requests : Begin(r) \/ Locks(r) \/ Step(r) \/ Shows(r) \/ Pip(r) \/ HangUp(r)
    \/ Crash

(* The lock is handed on in the order of its requests (tokio's Mutex is fair);
   timers fire. *)
Spec == Init /\ [][Next]_vars
        /\ \A r \in Requests : WF_vars(Step(r)) /\ SF_vars(Locks(r))

-----------------------------------------------------------------------------
Quiet == Busy = {} /\ \A r \in Requests : pip[r] = None

TypeOK ==
    /\ disk \in [Packages -> Versions \cup {None}]
    /\ \A i \in Listed : rows[i] \in Row
    /\ lock \in Requests \cup {None}
    /\ asks \in Workloads /\ calm \in BOOLEAN /\ told \subseteq Names
    /\ \A r \in Requests :
        /\ pip[r] # None => IF InstallPip(r) THEN pip[r] \in Item ELSE pip[r].uninstall \in Names
        /\ "item" \in DOMAIN req[r] => req[r].item \in Item
        /\ (lock = r) <=> req[r].at \in {"pip", "installed", "failed", "pip uninstall"}

(* "Lock for main venv pip operations": two of them run together only when a
   time-out, a hang-up or a crash has left one behind. *)
Awaited(r) == req[r].at \in {"pip", "pip uninstall"}
OnePipAtATime ==
    \A r, q \in Requests :
        pip[r] # None /\ Awaited(r) /\ pip[q] # None /\ Awaited(q) => r = q

(* Every request comes to its end, whatever it waits for: none waits for the
   lock for ever.  pip install has a time limit; pip show and pip uninstall,
   which hold the lock as well, have none and have to end by themselves. *)
RequestsEnd ==
    (\A r \in Requests : WF_vars(UninstallPip(r) /\ Pip(r)) /\ WF_vars(Shows(r)))
        => \A r \in Requests : (req[r].at # "idle") ~> (req[r].at = "idle")

(* Once requests have come to rest, what pip was last asked to do is what the
   rows say under the name it was asked for, whatever series of installations,
   updates and removals led there: a version on disk has its row, ... *)
InstalledIsTracked ==
    calm /\ Quiet => \A n \in told :
        disk[Package[n]] # None => Matching(n, disk[Package[n]]) # {}

(* ... and a package that was removed is listed as ready in none of the
   spellings that differ in upper and lower case.  (Rows of earlier versions, of
   other spellings, and of what pip changed unasked, may be wrong.) *)
RemovedIsNotReady ==
    calm /\ Quiet => \A n \in told :
        disk[Package[n]] = None => \A i \in Of(n) : rows[i].status # "ready"

(* The rows know what the requests have done to the disk, ... *)
RowsMatchDisk == InstalledIsTracked /\ RemovedIsNotReady

(* ... and there is one row for each version: UNIQUE(package_name, version,
   venv_type, venv_id) cannot see to it, as venv_id is NULL in all of them. *)
OneRowPerVersion ==
    calm => \A i, j \in Listed :
        rows[i].name = rows[j].name /\ rows[i].version = rows[j].version => i = j
=============================================================================
