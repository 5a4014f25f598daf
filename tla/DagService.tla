----------------------------- MODULE DagService -----------------------------
(***************************************************************************)
(* The definition of one DAG, its row and its edges, under concurrent API  *)
(* requests (services/dag_service.rs, db/dags.rs, api/dags.rs).  No lock   *)
(* and no transaction joins what a request reads to what it later writes.  *)
(*                                                                         *)
(* validate_no_cycles is the operator Cyclic here: DagValidation shows     *)
(* that it rejects exactly those graphs.  A request that is rejected for   *)
(* its form (an empty name, an unknown condition) changes nothing and is   *)
(* left out.                                                               *)
(***************************************************************************)
EXTENDS DagGraph

CONSTANTS
    Requests,
    Fields, Values, \* the settings of a DAG: name, enabled, on_failure, ...
    None            \* the value of a field an update does not name

ASSUME NoneAssumption == None \notin Values

VARIABLES
    exists, settings,  \* the row of dags
    jobs,              \* the jobs that exist
    edges,             \* the rows of dag_edges, UNIQUE by pair of jobs
    pc,                \* each request: where it is ...
    copy,              \* ... the settings it read ...
    change,            \* ... the fields it is to write, if it is an update ...
    candidate,         \* ... and the edge it is to add, if it adds one
    overtaken,  \* history: requests with a write of another after their read
    asked,      \* history: the settings had every update been applied in turn
    lost,       \* history: has an overtaken update written its stale row?
    unchecked   \* history: edges inserted by overtaken requests

request_vars == <<pc, copy, change, candidate>>
settings_history == <<asked, lost>>
vars == <<exists, settings, jobs, edges, request_vars, overtaken, settings_history, unchecked>>

Pairs == {p \in [upstream : Jobs, downstream : Jobs] : p.upstream # p.downstream}

(* An update names some of the fields, the others keep their value. *)
Changes == [Fields -> Values \cup {None}]
Nothing == [f \in Fields |-> None]
Applied(c, s) == [f \in Fields |-> IF c[f] = None THEN s[f] ELSE c[f]]

Init ==
    /\ exists = TRUE
    /\ settings \in [Fields -> Values]
    /\ jobs = Jobs
    /\ edges = {}
    /\ pc = [r \in Requests |-> "idle"]
    /\ copy = [r \in Requests |-> Nothing]
    /\ change = [r \in Requests |-> Nothing]
    /\ candidate = [r \in Requests |-> {}]
    /\ overtaken = {}
    /\ asked = settings
    /\ lost = FALSE
    /\ unchecked = {}

Start(r, label) ==
    /\ exists
    /\ pc[r] = "idle"
    /\ pc' = [pc EXCEPT ![r] = label]
    /\ UNCHANGED <<exists, jobs, edges, settings, overtaken, settings_history, unchecked>>

Finish(r, label) ==
    /\ pc[r] = label
    /\ pc' = [pc EXCEPT ![r] = "idle"]
    /\ change' = [change EXCEPT ![r] = Nothing]
    /\ candidate' = [candidate EXCEPT ![r] = {}]
    /\ copy' = [copy EXCEPT ![r] = Nothing]
    /\ UNCHANGED <<exists, jobs>>

(* r has written: what the other requests at label have read is old *)
Overtake(r, label) == overtaken' = (overtaken \cup {q \in Requests : pc[q] = label}) \ {r}

-----------------------------------------------------------------------------
UpdateRead(r, c) ==
    /\ Start(r, "updating")
    /\ copy' = [copy EXCEPT ![r] = settings]
    /\ change' = [change EXCEPT ![r] = c]
    /\ UNCHANGED candidate

(* Mutant: a field that is not named is reset. *)
UpdateWriteReset(r) ==
    /\ Finish(r, "updating")
    /\ exists
    /\ settings' = Applied(change[r], [f \in Fields |-> CHOOSE v \in Values : TRUE])
    /\ Overtake(r, "updating")
    /\ asked' = Applied(change[r], asked)
    /\ lost' = (lost \/ r \in overtaken)
    /\ UNCHANGED <<edges, unchecked>>

(* The whole row is written back, the fields nobody asked to change included. *)
UpdateWrite(r) ==
    /\ Finish(r, "updating")
    /\ exists
    /\ settings' = Applied(change[r], copy[r])
    /\ Overtake(r, "updating")
    /\ asked' = Applied(change[r], asked)
    /\ lost' = (lost \/ r \in overtaken)
    /\ UNCHANGED <<edges, unchecked>>

(* The row is gone: 404. *)
UpdateFails(r) ==
    /\ Finish(r, "updating")
    /\ ~exists
    /\ overtaken' = overtaken \ {r}
    /\ UNCHANGED <<settings, edges, settings_history, unchecked>>

(* Mutant: the stored edges are checked without the new one. *)
AddReadStored(r, p) ==
    /\ ~Cyclic(edges)
    /\ Start(r, "adding")
    /\ candidate' = [candidate EXCEPT ![r] = {p}]
    /\ UNCHANGED <<copy, change>>

AddRead(r, p) ==
    /\ ~Cyclic(edges \cup {p})
    /\ Start(r, "adding")
    /\ candidate' = [candidate EXCEPT ![r] = {p}]
    /\ UNCHANGED <<copy, change>>

(* what the constraints of dag_edges let an INSERT through *)
Insertable(es) == exists /\ Nodes(es) \subseteq jobs /\ es \cap edges = {}

AddInsert(r) ==
    /\ Finish(r, "adding")
    /\ Insertable(candidate[r])
    /\ edges' = edges \cup candidate[r]
    /\ unchecked' = IF r \in overtaken THEN unchecked \cup candidate[r] ELSE unchecked
    /\ Overtake(r, "adding")
    /\ UNCHANGED <<settings, settings_history>>

AddFails(r) ==
    /\ Finish(r, "adding")
    /\ ~Insertable(candidate[r])
    /\ overtaken' = overtaken \ {r}
    /\ UNCHANGED <<settings, edges, settings_history, unchecked>>

-----------------------------------------------------------------------------
(* Deletions are single statements; the foreign keys take the edges along. *)

Keep(es) ==
    /\ edges' = es
    /\ unchecked' = unchecked \cap es
    /\ UNCHANGED <<settings, request_vars, overtaken, settings_history>>

DeleteEdge(p) == p \in edges /\ Keep(edges \ {p}) /\ UNCHANGED <<exists, jobs>>

DeleteJob(j) ==
    /\ j \in jobs
    /\ jobs' = jobs \ {j}
    /\ Keep({p \in edges : j \notin {p.upstream, p.downstream}})
    /\ UNCHANGED exists

DeleteDag == exists /\ exists' = FALSE /\ Keep({}) /\ UNCHANGED jobs

Request(r) ==
    \/ \E c \in Changes : UpdateRead(r, c)
    \/ UpdateWrite(r) \/ UpdateFails(r)
    \/ \E p \in Pairs : AddRead(r, p)
    \/ AddInsert(r) \/ AddFails(r)

Next ==
    \/ \E r \in Requests : Request(r)
    \/ \E p \in Pairs : DeleteEdge(p)
    \/ \E j \in Jobs : DeleteJob(j)
    \/ DeleteDag

Spec == Init /\ [][Next]_vars

-----------------------------------------------------------------------------
TypeOK ==
    /\ exists \in BOOLEAN
    /\ settings \in [Fields -> Values] /\ asked \in [Fields -> Values]
    /\ jobs \subseteq Jobs
    /\ edges \subseteq Pairs /\ unchecked \subseteq edges
    /\ pc \in [Requests -> {"idle", "updating", "adding"}]
    /\ copy \in [Requests -> Changes]
    /\ \A r \in Requests : pc[r] = "updating" => copy[r] \in [Fields -> Values]
    /\ change \in [Requests -> Changes]
    /\ candidate \in [Requests -> SUBSET Pairs]
    /\ overtaken \subseteq Requests
    /\ lost \in BOOLEAN

(* Every cycle among the stored edges goes through an edge whose request read
   the edges before another request's INSERT and wrote its own after it:
   without overlapping requests add_edge's check keeps the DAG acyclic, and
   deletions and rejected requests never break it. *)
CyclesNeedARace == ~Cyclic(edges \ unchecked)

(* Every acknowledged update is in force, field by field, until an update
   writes back a row that another update has changed since it was read. *)
UpdatesHold == ~lost => settings = asked

(* models/dag.rs: "DAG entity representing a directed acyclic graph of job
   dependencies". *)
StoredEdgesAcyclic == ~Cyclic(edges)
=============================================================================
