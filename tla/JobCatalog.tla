----------------------------- MODULE JobCatalog -----------------------------
(***************************************************************************)
(* The jobs and the virtual environments they may select, under concurrent *)
(* API requests (services/job_service.rs, services/venv_service.rs,        *)
(* db/jobs.rs, db/venvs.rs, api/jobs.rs, api/venvs.rs).                    *)
(*                                                                         *)
(* Of a job's row this keeps the fields something else depends on; the     *)
(* others are written along with them. Requests rejected for their form    *)
(* change nothing and are left out, and so is delete_job_venv: no code     *)
(* records a venv for a job, it always answers 404.                        *)
(***************************************************************************)
EXTENDS FiniteSets, Naturals

CONSTANTS
    Requests, Names,
    Ids,       \* bound: the jobs ever created
    Venvs,     \* bound: the venvs ever recorded
    VenvNames, \* directories under the base path
    Updates,   \* the changes that requests ask for
    Keep,      \* the value of a field an update does not name
    None,      \* no venv selected; no row
    Unused, Deleted \* instead of a job's row: never inserted, deleted

Row == [name : Names, venv : Venvs \cup {None}]
Change == [name : Names \cup {Keep}, venv : Venvs \cup {None, Keep}]

ASSUME CatalogAssumption ==
    /\ Updates \subseteq Change
    /\ None \notin Venvs /\ None \notin VenvNames /\ Names \cap VenvNames = {}
    /\ Unused \notin Row /\ Deleted \notin Row /\ Unused # Deleted

VARIABLES
    jobs,   \* the rows
    venvs,  \* the path of each venv's row, or None
    dirs,   \* the venvs on disk
    unused, \* the ids no venv has had
    req,    \* each request: where it is, its job, its row, its change, its venv name
    contested \* history: names that two requests have been about to write at once

vars == <<jobs, venvs, dirs, unused, req, contested>>

Idle == [at |-> "idle"]
Blank == [name |-> Keep, venv |-> Keep] \* a change of other fields

Rows == {i \in Ids : jobs[i] \notin {Unused, Deleted}}
NameExists(name, others) == \E i \in Rows \cap others : jobs[i].name = name

Init ==
    /\ jobs = [i \in Ids |-> Unused]
    /\ venvs = [v \in Venvs |-> None]
    /\ dirs = {}
    /\ unused = Venvs
    /\ req = [r \in Requests |-> Idle]
    /\ contested = {}

Start(r) == req[r].at = "idle"

(* The name a request writes next, having found it free or left it as it was *)
Claim(frame) ==
    CASE frame.at \in {"insert", "write"} -> {frame.row.name}
      [] frame.at \in {"make", "record"} -> {frame.path}
      [] OTHER -> {}

Goto(r, frame) ==
    /\ req' = [req EXCEPT ![r] = frame]
    /\ contested' = contested \cup
           {name \in Claim(frame) : \E q \in Requests \ {r} : name \in Claim(req[q])}
Stay == UNCHANGED <<jobs, venvs, dirs, unused>>

(* What the foreign key of jobs.venv_id lets through *)
Selectable(venv) == venv # None => venvs[venv] # None

-----------------------------------------------------------------------------
(* create_job, of which bulk_create_jobs is a series, and clone_job *)

Create(r, name, venv) ==
    /\ Start(r)
    /\ Goto(r, [at |-> "check", row |-> [name |-> name, venv |-> venv]])
    /\ Stay

Clone(r, i, name) ==
    /\ Start(r) /\ i \in Rows
    /\ Goto(r, [at |-> "check", row |-> [jobs[i] EXCEPT !.name = name]])
    /\ Stay

CheckName(r) ==
    /\ req[r].at = "check"
    /\ Goto(r, IF NameExists(req[r].row.name, Ids) THEN Idle ELSE [req[r] EXCEPT !.at = "insert"])
    /\ Stay

Insert(r) ==
    /\ req[r].at = "insert" /\ Selectable(req[r].row.venv)
    /\ \E i \in Ids :
        /\ jobs[i] = Unused
        /\ jobs' = [jobs EXCEPT ![i] = req[r].row]
    /\ Goto(r, Idle)
    /\ UNCHANGED <<venvs, dirs, unused>>

-----------------------------------------------------------------------------
(* update_job, enable_job, disable_job, and create_execution, which enables *)

Named(new, old) == IF new = Keep THEN old ELSE new
Applied(c, row) ==
    [name |-> Named(c.name, row.name), venv |-> Named(c.venv, row.venv)]

(* Mutant: a renaming is written without looking the name up. *)
ReadRowUnchecked(r, i, c) ==
    Goto(r, [at |-> "write", id |-> i, row |-> Applied(c, jobs[i])])

(* The change is applied to the row read here, and all of it written later. *)
ReadRow(r, i, c) ==
    Goto(r, [at |-> IF c.name \in {Keep, jobs[i].name} THEN "write" ELSE "rename",
             id |-> i, row |-> Applied(c, jobs[i])])

Update(r, i, c) == Start(r) /\ i \in Rows /\ ReadRow(r, i, c) /\ Stay

CheckRename(r) ==
    /\ req[r].at = "rename"
    /\ Goto(r, IF NameExists(req[r].row.name, Ids \ {req[r].id})
               THEN Idle ELSE [req[r] EXCEPT !.at = "write"])
    /\ Stay

(* Mutant: the update inserts the row if it is gone. *)
WriteOrInsert(r) ==
    /\ req[r].at = "write" /\ Selectable(req[r].row.venv)
    /\ jobs' = [jobs EXCEPT ![req[r].id] = req[r].row]
    /\ Goto(r, Idle)
    /\ UNCHANGED <<venvs, dirs, unused>>

(* Mutant: the selection is not tested when the row is written. *)
WriteUnselectable(r) ==
    /\ req[r].at = "write" /\ req[r].id \in Rows
    /\ jobs' = [jobs EXCEPT ![req[r].id] = req[r].row]
    /\ Goto(r, Idle)
    /\ UNCHANGED <<venvs, dirs, unused>>

Write(r) ==
    /\ req[r].at = "write" /\ req[r].id \in Rows /\ Selectable(req[r].row.venv)
    /\ jobs' = [jobs EXCEPT ![req[r].id] = req[r].row]
    /\ Goto(r, Idle)
    /\ UNCHANGED <<venvs, dirs, unused>>

(* toggle_job_venv reads use_custom_venv, then asks for an update to its
   opposite, which reads the row again. *)
Toggle(r, i) ==
    /\ Start(r) /\ i \in Rows
    /\ Goto(r, [at |-> "toggle", id |-> i])
    /\ Stay

ToggleUpdate(r) ==
    /\ req[r].at = "toggle" /\ req[r].id \in Rows
    /\ ReadRow(r, req[r].id, Blank)
    /\ Stay

(* One statement, for one job or for a list *)
DeleteJobs(gone) ==
    /\ gone # {} /\ gone \subseteq Rows
    /\ jobs' = [i \in Ids |-> IF i \in gone THEN Deleted ELSE jobs[i]]
    /\ UNCHANGED <<venvs, dirs, unused, req, contested>>

-----------------------------------------------------------------------------
(* create_venv: the directory is looked for, made by `python -m venv` and only
   then recorded.  It is looked for once more before it is made: as directories
   are never removed, the second look decides. *)

CheckVenv(r, name) ==
    /\ Start(r) /\ name \notin dirs
    /\ Goto(r, [at |-> "make", path |-> name])
    /\ Stay

MakeVenv(r) ==
    /\ req[r].at = "make"
    /\ dirs' = dirs \cup {req[r].path}
    /\ Goto(r, [req[r] EXCEPT !.at = "record"])
    /\ UNCHANGED <<jobs, venvs, unused>>

RecordVenv(r) ==
    /\ req[r].at = "record"
    /\ \E v \in unused :
        /\ venvs' = [venvs EXCEPT ![v] = req[r].path]
        /\ unused' = unused \ {v}
    /\ Goto(r, Idle)
    /\ UNCHANGED <<jobs, dirs>>

(* The row goes, and with it the selections, ON DELETE SET NULL. *)
DeleteVenv(v) ==
    /\ venvs[v] # None
    /\ venvs' = [venvs EXCEPT ![v] = None]
    /\ jobs' = [i \in Ids |-> IF i \in Rows /\ jobs[i].venv = v
                              THEN [jobs[i] EXCEPT !.venv = None] ELSE jobs[i]]
    /\ UNCHANGED <<dirs, unused, req, contested>>

(* 404, a rejected foreign key, a failed query or command, a hang-up *)
RequestFails(r) == req[r].at # "idle" /\ Goto(r, Idle) /\ Stay

Request(r) ==
    \/ \E name \in Names, v \in Venvs \cup {None} : Create(r, name, v)
    \/ \E i \in Ids, name \in Names : Clone(r, i, name)
    \/ CheckName(r) \/ Insert(r)
    \/ \E i \in Ids, c \in Updates : Update(r, i, c)
    \/ CheckRename(r) \/ Write(r)
    \/ \E i \in Ids : Toggle(r, i)
    \/ ToggleUpdate(r)
    \/ \E name \in VenvNames : CheckVenv(r, name)
    \/ MakeVenv(r) \/ RecordVenv(r) \/ RequestFails(r)

Next ==
    \/ \E r \in Requests : Request(r)
    \/ \E gone \in SUBSET Ids : DeleteJobs(gone)
    \/ \E v \in Venvs : DeleteVenv(v)

Spec == Init /\ [][Next]_vars

-----------------------------------------------------------------------------
Frame ==
    [at : {"idle"}]
    \cup [at : {"check", "insert"}, row : Row]
    \cup [at : {"rename", "write"}, id : Ids, row : Row]
    \cup [at : {"toggle"}, id : Ids]
    \cup [at : {"make", "record"}, path : VenvNames]

TypeOK ==
    /\ jobs \in [Ids -> Row \cup {Unused, Deleted}]
    /\ venvs \in [Venvs -> VenvNames \cup {None}]
    /\ dirs \subseteq VenvNames
    /\ unused \subseteq Venvs /\ \A v \in unused : venvs[v] = None
    /\ req \in [Requests -> Frame]
    /\ contested \subseteq Names \cup VenvNames

(* No job selects a venv that is gone, although every update writes back the
   selection it read, of a venv that may have been deleted since. *)
SelectionsExist == \A i \in Rows : Selectable(jobs[i].venv)

(* What is recorded is on disk: a venv can be used as soon as it is listed. *)
RecordedVenvsExist == \A v \in Venvs : venvs[v] # None => venvs[v] \in dirs

(* The venv a job selects is listed, and on disk.  (The executor does not look
   at the selection: executor.rs:31-37.) *)
SelectedVenvsExist == SelectionsExist /\ RecordedVenvsExist

(* The whole-row write of an update does not bring back a deleted job. *)
JobsStayDeleted ==
    [][\A i \in Ids : jobs[i] = Deleted => jobs'[i] = Deleted]_vars

(* 409 "Job name already exists": no two jobs have one name, after any series
   of creations, copies and renamings, however the requests overlap; only when
   two have found the same name free at once, or one writes back a name
   another finds free meanwhile, may both keep it. *)
NamesDiffer ==
    \A i, j \in Rows : jobs[i].name = jobs[j].name => i = j \/ jobs[i].name \in contested

(* "Virtual environment '{}' already exists": no two venvs share a directory,
   but for two requests that look for it before either has made it. *)
PathsDiffer ==
    \A v, w \in Venvs :
        venvs[v] = venvs[w] /\ venvs[v] # None => v = w \/ venvs[v] \in contested

(* Both, whatever series of requests led there *)
NothingTakenTwice == NamesDiffer /\ PathsDiffer
=============================================================================
