--------------------------- MODULE PackagesProofs ---------------------------
(* The rows of the main venv's packages and what pip has put on disk, for any
   number of requests, packages, versions and rows.

   A request that runs by itself owes the rows what it has done to the disk:
   from the end of its pip to its last statement, a frame tells which row is
   still to be written (Due) or still to be deleted (Leaving). *)
EXTENDS Packages, TLAPS

Removals == [uninstall : Names]
Keys == [name : Names, version : Versions \cup {"latest"}]

(* The data of a request at each place in the code. *)
Frames ==
    [at : {"idle"}]
    \cup [at : {"next"}, todo : SUBSET Item]
    \cup [at : {"lock", "pip", "installed", "failed"}, todo : SUBSET Item, item : Item]
    \cup [at : {"update row", "insert row"}, todo : SUBSET Item, row : Row]
    \cup [at : {"lock to uninstall", "pip uninstall", "uninstalled", "not uninstalled"},
          name : Names]
    \cup [at : {"delete rows"}, doomed : SUBSET Keys]

Holding == {"pip", "installed", "failed", "pip uninstall"}

(* The lock is with the request whose pip is waited for or asked about, and
   that is the pip of this very step. *)
LockKept ==
    \A r \in Requests :
        /\ (lock = r) <=> req[r].at \in Holding
        /\ req[r].at = "pip" => pip[r] = req[r].item
        /\ req[r].at = "pip uninstall" => pip[r] = [uninstall |-> req[r].name]

Typed ==
    /\ disk \in [Packages -> Versions \cup {None}]
    /\ rows \in [RowIds -> Row \cup {None}]
    /\ lock \in Requests \cup {None}
    /\ pip \in [Requests -> Item \cup Removals \cup {None}]
    /\ req \in [Requests -> Frames]
    /\ calm \in BOOLEAN /\ told \subseteq Names
    /\ asks \in Workloads
    /\ LockKept

(* What is on disk, by each of its names. *)
There == [n \in Names |-> disk[Package[n]]]

Has(rs, p, v) == \E i \in RowIds : rs[i] # None /\ rs[i].name = p /\ rs[i].version = v

(* f is going to write a row for what it has installed. *)
Due(f, p) ==
    \/ f.at = "installed" /\ f.item.name = p
    \/ f.at \in {"update row", "insert row"} /\ f.row.status = "ready" /\ f.row.name = p

(* f is going to delete the row. *)
Leaving(f, row) ==
    \/ f.at = "uninstalled" /\ row.name \in Alike(f.name)
    \/ f.at = "delete rows" /\ [name |-> row.name, version |-> row.version] \in f.doomed

Tracked(f, d, rs, t) == \A n \in t : d[n] # None => Has(rs, n, d[n]) \/ Due(f, n)

Removed(f, d, rs, t) ==
    \A i \in RowIds : rs[i] # None /\ rs[i].name \in t /\ rs[i].status = "ready" =>
        d[rs[i].name] # None \/ Leaving(f, rs[i])

(* What a request has reached when it is where it is. *)
Reached(f, d, rs) ==
    /\ f.at = "installed" => d[f.item.name] # None
    /\ f.at \in {"update row", "insert row"} /\ f.row.status = "ready" =>
        d[f.row.name] = f.row.version /\ d[f.row.name] # None
    /\ f.at = "insert row" => ~Has(rs, f.row.name, f.row.version)
    /\ f.at = "uninstalled" => d[f.name] = None
    /\ f.at = "delete rows" => \A k \in f.doomed : d[k.name] = None

Fits(f, d, rs, t) == Tracked(f, d, rs, t) /\ Removed(f, d, rs, t) /\ Reached(f, d, rs)

UniqueRows(rs) ==
    \A i, j \in RowIds :
        rs[i] # None /\ rs[j] # None /\ rs[i].name = rs[j].name /\ rs[i].version = rs[j].version
            => i = j

CalmKept == calm =>
    /\ \A r, q \in Busy : r = q
    /\ \A r \in Requests : pip[r] # None => Awaited(r)
    /\ UniqueRows(rows)
    /\ Busy = {} => Fits(Idle, There, rows, told)
    /\ \A r \in Busy : Fits(req[r], There, rows, told)

PInv == Typed /\ CalmKept

-----------------------------------------------------------------------------
(* Frames: their data, and the steps between them *)

InstallSteps == {"lock", "pip", "installed", "failed"}
RowSteps == {"update row", "insert row"}
RemovalSteps == {"lock to uninstall", "pip uninstall", "uninstalled", "not uninstalled"}

LEMMA FrameData ==
    ASSUME NEW f \in Frames
    PROVE  /\ f.at \in {"next"} \cup InstallSteps \cup RowSteps => f.todo \in SUBSET Item
           /\ f.at \in InstallSteps => f.item \in Item
           /\ f.at \in RowSteps => f.row \in Row
           /\ f.at \in RemovalSteps => f.name \in Names
           /\ f.at = "delete rows" => f.doomed \in SUBSET Keys
           /\ "item" \in DOMAIN f => f.item \in Item
<1>. USE DEF Frames, InstallSteps, RowSteps, RemovalSteps
<1>1. CASE f \in [at : {"idle"}]
  BY <1>1
<1>2. CASE f \in [at : {"next"}, todo : SUBSET Item]
  BY <1>2
<1>3. CASE f \in [at : InstallSteps, todo : SUBSET Item, item : Item]
  BY <1>3
<1>4. CASE f \in [at : RowSteps, todo : SUBSET Item, row : Row]
  BY <1>4
<1>5. CASE f \in [at : RemovalSteps, name : Names]
  BY <1>5
<1>6. CASE f \in [at : {"delete rows"}, doomed : SUBSET Keys]
  BY <1>6
<1>. QED BY <1>1, <1>2, <1>3, <1>4, <1>5, <1>6

LEMMA FrameGoesOn ==
    ASSUME NEW f \in Frames, NEW at,
           \/ f.at \in InstallSteps /\ at \in InstallSteps
           \/ f.at \in RowSteps /\ at \in RowSteps
           \/ f.at \in RemovalSteps /\ at \in RemovalSteps
    PROVE  [f EXCEPT !.at = at] \in Frames
<1>. USE DEF Frames, InstallSteps, RowSteps, RemovalSteps
<1>1. CASE f.at \in InstallSteps /\ at \in InstallSteps
  <2>1. f \in [at : InstallSteps, todo : SUBSET Item, item : Item]
    BY <1>1
  <2>. QED BY <1>1, <2>1
<1>2. CASE f.at \in RowSteps /\ at \in RowSteps
  <2>1. f \in [at : RowSteps, todo : SUBSET Item, row : Row]
    BY <1>2
  <2>. QED BY <1>2, <2>1
<1>3. CASE f.at \in RemovalSteps /\ at \in RemovalSteps
  <2>1. f \in [at : RemovalSteps, name : Names]
    BY <1>3
  <2>. QED BY <1>3, <2>1
<1>. QED BY <1>1, <1>2, <1>3

LEMMA NewFrames ==
    /\ Idle \in Frames
    /\ \A todo \in SUBSET Item : Installing(todo) \in Frames
    /\ \A todo \in SUBSET Item, item \in Item :
        [at |-> "lock", todo |-> todo, item |-> item] \in Frames
    /\ \A todo \in SUBSET Item, row \in Row :
        [at |-> "update row", todo |-> todo, row |-> row] \in Frames
    /\ \A name \in Names : [at |-> "lock to uninstall", name |-> name] \in Frames
    /\ \A keys \in SUBSET Keys : [at |-> "delete rows", doomed |-> keys] \in Frames
<1>1. Idle \in [at : {"idle"}]
  BY DEF Idle
<1>2. \A todo \in SUBSET Item : Installing(todo) \in [at : {"next"}, todo : SUBSET Item]
  BY DEF Installing
<1>. QED BY <1>1, <1>2 DEF Frames

(* pips that install and pips that remove *)
LEMMA Pips ==
    /\ \A p \in Item : p # None /\ DOMAIN p = {"name", "want"}
    /\ \A p \in Removals : p # None /\ DOMAIN p = {"uninstall"}
                           /\ p.uninstall \in Names
    /\ {"uninstall"} # {"name", "want"}
    /\ Item \subseteq Item \cup Removals \cup {None}
BY PackagesAssumption DEF Item, Removals

-----------------------------------------------------------------------------
(* Types and the lock *)

LEMMA RequestMoves ==
    ASSUME Typed, NEW r \in Requests, NEW f \in Frames, Goes(r, f),
           pip' \in [Requests -> Item \cup Removals \cup {None}],
           \A q \in Requests \ {r} : pip'[q] = pip[q] /\ (lock' = q <=> lock = q),
           lock' = r <=> f.at \in Holding,
           f.at = "pip" => pip'[r] = f.item,
           f.at = "pip uninstall" => pip'[r] = [uninstall |-> f.name]
    PROVE  req' \in [Requests -> Frames] /\ asks' \in Workloads /\ LockKept'
<1>1. req'[r] = f /\ \A q \in Requests \ {r} : req'[q] = req[q]
  BY DEF Goes, Typed
<1>2. req' \in [Requests -> Frames] /\ asks' \in Workloads
  BY DEF Goes, Typed
<1>3. LockKept
  BY DEF Typed
<1>4. ASSUME NEW q \in Requests \ {r}
      PROVE  /\ (lock' = q) <=> req'[q].at \in Holding
             /\ req'[q].at = "pip" => pip'[q] = req'[q].item
             /\ req'[q].at = "pip uninstall" => pip'[q] = [uninstall |-> req'[q].name]
  <2>1. req'[q] = req[q] /\ pip'[q] = pip[q] /\ (lock' = q <=> lock = q)
    BY <1>1
  <2>. QED BY <1>3, <2>1 DEF LockKept
<1>. QED BY <1>1, <1>2, <1>4 DEF LockKept

(* A step that takes or gives back nothing. *)
LEMMA PlainStep ==
    ASSUME Typed, NEW r \in Requests, NEW f \in Frames, Goes(r, f), UNCHANGED <<lock, pip>>,
           req[r].at \notin Holding, f.at \notin Holding
    PROVE  req' \in [Requests -> Frames] /\ asks' \in Workloads /\ LockKept'
<1>1. lock # r
  BY DEF Typed, LockKept
<1>. HIDE DEF Goes
<1>2. f.at # "pip" /\ f.at # "pip uninstall"
  BY DEF Holding
<1>3. pip' \in [Requests -> Item \cup Removals \cup {None}]
  BY DEF Typed
<1>. QED BY <1>1, <1>2, <1>3, RequestMoves

LEMMA BeginTyped == ASSUME Typed, NEW r \in Requests, Begin(r) PROVE Typed'
<1>1. ASSUME NEW f \in Frames, f.at \notin Holding, Start(r, TRUE, f) \/ Start(r, FALSE, f)
      PROVE  Typed'
  <2>1. /\ Goes(r, f) /\ req[r].at = "idle" /\ UNCHANGED <<disk, rows, lock, pip>>
        /\ calm' \in BOOLEAN /\ told' \subseteq Names
    BY <1>1 DEF Start, Typed
  <2>2. req' \in [Requests -> Frames] /\ asks' \in Workloads /\ LockKept'
    BY <1>1, <2>1, PlainStep DEF Holding
  <2>. QED BY <2>1, <2>2 DEF Typed
<1>2. \A i \in Listed : rows[i] \in Row
  BY DEF Listed, Typed
<1>3. [name : asks[r], want : Wants] \subseteq Item /\ asks[r] \subseteq Names
  <2>1. asks[r] \subseteq Names
    BY PackagesAssumption DEF Typed
  <2>. QED BY <2>1, PackagesAssumption DEF Item
<1>4. \A todo \in SUBSET Item : Installing(todo).at \notin Holding
  BY DEF Installing, Holding
<1>5. CASE \E item \in [name : asks[r], want : Wants] : Install(r, item)
  BY <1>1, <1>3, <1>4, <1>5, NewFrames DEF Install
<1>6. CASE UpdateAll(r)
  <2>1. {[name |-> rows[i].name, want |-> None] : i \in Listed} \in SUBSET Item
    BY <1>2 DEF Row, Item
  <2>. QED BY <1>1, <1>4, <1>6, <2>1, NewFrames DEF UpdateAll
<1>7. CASE \E todo \in SUBSET [name : asks[r], want : Wants] : InstallDependencies(r, todo)
  BY <1>1, <1>3, <1>4, <1>7, NewFrames DEF InstallDependencies
<1>8. CASE \E name \in asks[r] : Uninstall(r, name)
  <2>1. PICK name \in Names : Uninstall(r, name)
    BY <1>3, <1>8
  <2>2. [at |-> "lock to uninstall", name |-> name].at \notin Holding
    BY DEF Holding
  <2>. QED BY <1>1, <2>1, <2>2, NewFrames DEF Uninstall
<1>9. \A keys \in SUBSET Keys : [at |-> "delete rows", doomed |-> keys].at \notin Holding
  BY DEF Holding
<1>10. CASE Clear(r)
  <2>1. {[name |-> rows[i].name, version |-> rows[i].version] : i \in Listed} \in SUBSET Keys
    BY <1>2 DEF Row, Keys
  <2>. QED BY <1>1, <1>9, <1>10, <2>1, NewFrames DEF Clear, Doomed
<1>11. CASE \E name \in asks[r], version \in Versions : Delete(r, name, version)
  <2>1. PICK name \in Names, version \in Versions : Delete(r, name, version)
    BY <1>3, <1>11
  <2>2. {[name |-> name, version |-> version]} \in SUBSET Keys
    BY DEF Keys
  <2>. QED BY <1>1, <1>9, <2>1, <2>2, NewFrames DEF Delete
<1>. QED BY <1>5, <1>6, <1>7, <1>8, <1>10, <1>11 DEF Begin

LEMMA LocksTyped == ASSUME Typed, NEW r \in Requests, Locks(r) PROVE Typed'
<1>. DEFINE f == req[r]
<1>1. f \in Frames
  BY DEF Typed
<1>2. CASE LockAndInstall(r)
  <2>. DEFINE g == [f EXCEPT !.at = "pip"]
  <2>1. f.at = "lock" /\ g.at = "pip" /\ g.item = f.item /\ g \in Frames /\ f.item \in Item
    <3>1. f.at = "lock"
      BY <1>2 DEF LockAndInstall
    <3>2. g \in Frames /\ f.item \in Item
      BY <1>1, <3>1, FrameGoesOn, FrameData DEF InstallSteps
    <3>3. "at" \in DOMAIN f /\ "item" \in DOMAIN f
      BY <1>1, <3>1 DEF Frames
    <3>. QED BY <3>1, <3>2, <3>3
  <2>2. Goes(r, g) /\ lock = None /\ lock' = r /\ pip' = [pip EXCEPT ![r] = f.item]
        /\ UNCHANGED <<disk, rows, calm, told>>
    BY <1>2 DEF LockAndInstall, Goto
  <2>. HIDE DEF f, g
  <2>3. pip' \in [Requests -> Item \cup Removals \cup {None}] /\ pip'[r] = f.item
        /\ \A q \in Requests \ {r} : pip'[q] = pip[q]
    BY <2>1, <2>2 DEF Typed
  <2>4. \A q \in Requests \ {r} : lock' = q <=> lock = q
    BY <2>2, PackagesAssumption
  <2>5. req' \in [Requests -> Frames] /\ asks' \in Workloads /\ LockKept'
    BY <2>1, <2>2, <2>3, <2>4, RequestMoves DEF Holding
  <2>. QED BY <2>2, <2>3, <2>5 DEF Typed
<1>3. CASE LockAndUninstall(r)
  <2>. DEFINE g == [f EXCEPT !.at = "pip uninstall"]
  <2>1. f.at = "lock to uninstall" /\ g.at = "pip uninstall" /\ g.name = f.name /\ g \in Frames
        /\ [uninstall |-> f.name] \in Removals
    <3>1. f.at = "lock to uninstall"
      BY <1>3 DEF LockAndUninstall
    <3>2. g \in Frames /\ f.name \in Names
      BY <1>1, <3>1, FrameGoesOn, FrameData DEF RemovalSteps
    <3>3. "at" \in DOMAIN f /\ "name" \in DOMAIN f
      BY <1>1, <3>1 DEF Frames
    <3>. QED BY <3>1, <3>2, <3>3 DEF Removals
  <2>2. Goes(r, g) /\ lock = None /\ lock' = r /\ pip' = [pip EXCEPT ![r] = [uninstall |-> f.name]]
        /\ UNCHANGED <<disk, rows, calm, told>>
    BY <1>3 DEF LockAndUninstall, Goto
  <2>. HIDE DEF f, g
  <2>3. pip' \in [Requests -> Item \cup Removals \cup {None}] /\ pip'[r] = [uninstall |-> f.name]
        /\ \A q \in Requests \ {r} : pip'[q] = pip[q]
    BY <2>1, <2>2 DEF Typed
  <2>4. \A q \in Requests \ {r} : lock' = q <=> lock = q
    BY <2>2, PackagesAssumption
  <2>5. req' \in [Requests -> Frames] /\ asks' \in Workloads /\ LockKept'
    BY <2>1, <2>2, <2>3, <2>4, RequestMoves DEF Holding
  <2>. QED BY <2>2, <2>3, <2>5 DEF Typed
<1>. QED BY <1>2, <1>3 DEF Locks

(* A step that gives the lock back. *)
LEMMA ReleasingStep ==
    ASSUME Typed, NEW r \in Requests, NEW f \in Frames, Goes(r, f), lock' = None,
           req[r].at \in Holding, f.at \notin Holding,
           pip' \in [Requests -> Item \cup Removals \cup {None}],
           \A q \in Requests \ {r} : pip'[q] = pip[q]
    PROVE  req' \in [Requests -> Frames] /\ asks' \in Workloads /\ LockKept'
<1>. HIDE DEF Goes
<1>1. lock = r
  BY DEF Typed, LockKept
<1>2. lock' # r /\ \A q \in Requests \ {r} : lock' # q /\ lock # q
  BY <1>1, PackagesAssumption
<1>3. f.at # "pip" /\ f.at # "pip uninstall"
  BY DEF Holding
<1>. QED BY <1>2, <1>3, RequestMoves

LEMMA InstallEndTyped ==
    ASSUME Typed, NEW r \in Requests, req[r].at \in {"pip", "installed", "failed"},
           NEW version \in Versions \cup {"latest"}, NEW status \in {"ready", "failed"},
           lock' = None, UNCHANGED <<disk, rows, pip>>, calm' \in BOOLEAN, told' \subseteq Names,
           Goes(r, [at |-> "update row", todo |-> req[r].todo,
                    row |-> [name |-> req[r].item.name, version |-> version, status |-> status]])
    PROVE  Typed'
<1>. DEFINE row == [name |-> req[r].item.name, version |-> version, status |-> status]
            f == [at |-> "update row", todo |-> req[r].todo, row |-> row]
<1>1. req[r] \in Frames
  BY DEF Typed
<1>2. req[r].todo \in SUBSET Item /\ req[r].item \in Item
  BY <1>1, FrameData DEF InstallSteps
<1>3. row \in Row
  BY <1>2 DEF Row, Item
<1>4. f.at \notin Holding /\ req[r].at \in Holding
  BY DEF Holding
<1>. HIDE DEF row
<1>5. f \in Frames
  BY <1>2, <1>3, NewFrames
<1>6. Goes(r, f)
  BY DEF row
<1>. HIDE DEF f
<1>7. pip' \in [Requests -> Item \cup Removals \cup {None}]
      /\ \A q \in Requests \ {r} : pip'[q] = pip[q]
  BY DEF Typed
<1>8. req' \in [Requests -> Frames] /\ asks' \in Workloads /\ LockKept'
  BY <1>4, <1>5, <1>6, <1>7, ReleasingStep
<1>. QED BY <1>7, <1>8 DEF Typed

LEMMA InstallationTyped ==
    ASSUME Typed, NEW r \in Requests,
           Installed(r) \/ InstalledUnknown(r) \/ InstallFails(r) \/ TimesOut(r)
    PROVE  Typed'
<1>1. req[r] \in Frames
  BY DEF Typed
<1>2. ASSUME req[r].at \in InstallSteps
      PROVE  Asked(req[r].item) \in Versions \cup {"latest"} /\ req[r].item.name \in Names
  <2>1. req[r].item \in Item
    BY <1>1, <1>2, FrameData
  <2>. QED BY <2>1 DEF Asked, Item
<1>3. CASE Installed(r)
  <2>1. req[r].at = "installed" /\ req[r].item.name \in Names
    BY <1>2, <1>3 DEF Installed, InstallSteps
  <2>2. disk[Package[req[r].item.name]] \in Versions
    <3>1. Package[req[r].item.name] \in Packages
      BY <2>1 DEF Packages
    <3>. QED BY <1>3, <3>1 DEF Installed, Typed
  <2>. QED BY <1>3, <2>1, <2>2, InstallEndTyped DEF Installed, InstallEnds, Goto, Typed
<1>4. CASE InstallFails(r)
  <2>1. req[r].at = "failed" /\ Asked(req[r].item) \in Versions \cup {"latest"}
    BY <1>2, <1>4 DEF InstallFails, InstallSteps
  <2>. QED BY <1>4, <2>1, InstallEndTyped DEF InstallFails, InstallEnds, Goto, Typed
<1>5. CASE InstalledUnknown(r)
  <2>1. req[r].at = "installed" /\ Asked(req[r].item) \in Versions \cup {"latest"}
    BY <1>2, <1>5 DEF InstalledUnknown, InstallSteps
  <2>. QED BY <1>5, <2>1, InstallEndTyped DEF InstalledUnknown, InstallEndsBadly, Strays
<1>6. CASE TimesOut(r)
  <2>1. req[r].at = "pip" /\ Asked(req[r].item) \in Versions \cup {"latest"}
    BY <1>2, <1>6 DEF TimesOut, InstallSteps
  <2>. QED BY <1>6, <2>1, InstallEndTyped DEF TimesOut, InstallEndsBadly, Strays
<1>. QED BY <1>3, <1>4, <1>5, <1>6

LEMMA PlainTyped ==
    ASSUME Typed, NEW r \in Requests, NEW f \in Frames, Goto(r, f) \/ Strays(r, f),
           UNCHANGED <<disk, lock, pip>>, rows' \in [RowIds -> Row \cup {None}],
           req[r].at \notin Holding, f.at \notin Holding
    PROVE  Typed'
<1>1. Goes(r, f) /\ calm' \in BOOLEAN /\ told' \subseteq Names
  BY DEF Goto, Strays, Typed
<1>2. req' \in [Requests -> Frames] /\ asks' \in Workloads /\ LockKept'
  BY <1>1, PlainStep
<1>. QED BY <1>1, <1>2 DEF Typed

LEMMA StepTyped ==
    ASSUME Typed, NEW r \in Requests, Step(r) \/ Shows(r) PROVE Typed'
<1>1. req[r] \in Frames /\ rows \in [RowIds -> Row \cup {None}]
  BY DEF Typed
<1>. USE DEF Holding
<1>2. \A todo \in SUBSET Item : Installing(todo) \in Frames /\ Installing(todo).at \notin Holding
  BY NewFrames DEF Installing
<1>3. Idle \in Frames /\ Idle.at \notin Holding
  BY NewFrames DEF Idle
<1>4. CASE CheckConflict(r)
  <2>1. req[r].at = "next" /\ req[r].todo \in SUBSET Item
    BY <1>1, <1>4, FrameData DEF CheckConflict
  <2>2. PICK item \in req[r].todo :
            \/ Goto(r, [at |-> "lock", todo |-> req[r].todo \ {item}, item |-> item])
            \/ Goto(r, Installing(req[r].todo \ {item}))
    BY <1>4 DEF CheckConflict
  <2>3. [at |-> "lock", todo |-> req[r].todo \ {item}, item |-> item] \in Frames
        /\ req[r].todo \ {item} \in SUBSET Item
    BY <2>1, NewFrames
  <2>. QED BY <1>1, <1>2, <1>4, <2>1, <2>2, <2>3, PlainTyped DEF CheckConflict
<1>5. CASE UpdateRow(r)
  <2>1. req[r].at = "update row" /\ req[r].todo \in SUBSET Item /\ req[r].row \in Row
    BY <1>1, <1>5, FrameData DEF UpdateRow, RowSteps
  <2>. DEFINE f == [req[r] EXCEPT !.at = "insert row"]
  <2>2. f \in Frames
    BY <1>1, <2>1, FrameGoesOn DEF RowSteps
  <2>3. "at" \in DOMAIN req[r]
    BY <1>1, <2>1 DEF Frames
  <2>4. f.at \notin Holding
    BY <2>3
  <2>5. rows' \in [RowIds -> Row \cup {None}]
    BY <1>1, <1>5, <2>1 DEF UpdateRow
  <2>6. Goto(r, f) \/ Goto(r, Installing(req[r].todo))
    BY <1>5 DEF UpdateRow
  <2>. HIDE DEF f
  <2>. QED BY <1>2, <1>5, <2>1, <2>2, <2>4, <2>5, <2>6, PlainTyped DEF UpdateRow
<1>6. CASE InsertRow(r)
  <2>1. req[r].at = "insert row" /\ req[r].todo \in SUBSET Item /\ req[r].row \in Row
    BY <1>1, <1>6, FrameData DEF InsertRow, RowSteps
  <2>2. rows' \in [RowIds -> Row \cup {None}]
    BY <1>1, <1>6, <2>1 DEF InsertRow
  <2>. QED BY <1>2, <1>6, <2>1, <2>2, PlainTyped DEF InsertRow
<1>7. CASE SaveFails(r)
  <2>1. req[r].at \in RowSteps /\ req[r].todo \in SUBSET Item
    BY <1>1, <1>7, FrameData DEF SaveFails, RowSteps
  <2>. QED BY <1>1, <1>2, <1>7, <2>1, PlainTyped DEF SaveFails, RowSteps
<1>8. CASE AllInstalled(r) \/ UninstallFails(r) \/ AllDeleted(r)
  BY <1>1, <1>3, <1>8, PlainTyped DEF AllInstalled, UninstallFails, AllDeleted
<1>9. CASE Uninstalled(r)
  <2>. DEFINE is == {i \in Listed : rows[i].name \in Alike(req[r].name)}
  <2>1. {[name |-> rows[i].name, version |-> rows[i].version] : i \in is} \in SUBSET Keys
    BY <1>1 DEF Listed, Row, Keys
  <2>2. Doomed(is) \in Frames /\ Doomed(is).at \notin Holding
    BY <2>1, NewFrames DEF Doomed
  <2>. QED BY <1>1, <1>3, <1>9, <2>2, PlainTyped DEF Uninstalled
<1>10. CASE DeleteRows(r)
  <2>1. req[r].at = "delete rows" /\ req[r].doomed \in SUBSET Keys
    BY <1>1, <1>10, FrameData DEF DeleteRows
  <2>2. req[r] \in [at : {"delete rows"}, doomed : SUBSET Keys]
    BY <1>1, <2>1 DEF Frames
  <2>3. PICK d \in req[r].doomed :
            LET rest == [req[r] EXCEPT !.doomed = @ \ {d}] IN
            \/ /\ rows' = [i \in RowIds |-> IF i \in Matching(d.name, d.version) THEN None ELSE rows[i]]
               /\ Goto(r, rest)
            \/ UNCHANGED rows /\ Strays(r, rest)
    BY <1>10 DEF DeleteRows
  <2>. DEFINE rest == [req[r] EXCEPT !.doomed = @ \ {d}]
  <2>4. rest \in Frames /\ rest.at = "delete rows"
    BY <2>2 DEF Frames
  <2>5. rows' \in [RowIds -> Row \cup {None}]
    BY <1>1, <2>3
  <2>6. Goto(r, rest) \/ Strays(r, rest)
    BY <2>3
  <2>. HIDE DEF rest
  <2>. QED BY <1>10, <2>1, <2>4, <2>5, <2>6, PlainTyped DEF DeleteRows
<1>. QED BY <1>4, <1>5, <1>6, <1>7, <1>8, <1>9, <1>10, InstallationTyped
         DEF Step, Shows

LEMMA PipTyped == ASSUME Typed, NEW r \in Requests, Pip(r) PROVE Typed'
<1>1. req[r] \in Frames /\ pip \in [Requests -> Item \cup Removals \cup {None}]
  BY DEF Typed
<1>2. PICK done \in BOOLEAN : PipEnds(r, done)
  BY DEF Pip, PipInstalls, PipUninstalls, PipFails
<1>3. disk' \in [Packages -> Versions \cup {None}] /\ told' \subseteq Names
  <2>1. ASSUME NEW after \in [Packages -> Versions \cup {None}], NEW heard \in SUBSET Names,
               Leaves(after, heard)
        PROVE  disk' \in [Packages -> Versions \cup {None}] /\ told' \subseteq Names
    BY <2>1 DEF Leaves, Typed
  <2>2. CASE PipInstalls(r)
    <3>1. pip[r] \in Item
      BY <1>1, <2>2, Pips DEF PipInstalls, InstallPip
    <3>2. {pip[r].name} \in SUBSET Names
      BY <3>1 DEF Item
    <3>. QED BY <2>1, <2>2, <3>2 DEF PipInstalls, Outcomes
  <2>3. CASE PipUninstalls(r)
    <3>1. Alike(pip[r].uninstall) \in SUBSET Names
      BY DEF Alike
    <3>2. [disk EXCEPT ![Package[pip[r].uninstall]] = None] \in [Packages -> Versions \cup {None}]
      BY DEF Typed
    <3>. QED BY <2>1, <2>3, <3>1, <3>2 DEF PipUninstalls
  <2>4. CASE PipFails(r)
    BY <2>1, <2>4 DEF PipFails, Outcomes
  <2>. QED BY <2>2, <2>3, <2>4 DEF Pip
<1>4. pip' \in [Requests -> Item \cup Removals \cup {None}]
      /\ \A q \in Requests \ {r} : pip'[q] = pip[q]
  BY <1>1, <1>2 DEF PipEnds
<1>5. calm' \in BOOLEAN /\ UNCHANGED rows /\ lock' \in Requests \cup {None}
  BY <1>2 DEF PipEnds, Typed
<1>6. req' \in [Requests -> Frames] /\ asks' \in Workloads /\ LockKept'
  <2>1. CASE req[r].at = "pip"
    <3>. DEFINE f == [req[r] EXCEPT !.at = IF done THEN "installed" ELSE "failed"]
    <3>1. f \in Frames
      BY <1>1, <2>1, FrameGoesOn DEF InstallSteps
    <3>2. "at" \in DOMAIN req[r]
      BY <1>1, <2>1 DEF Frames
    <3>3. f.at \in {"installed", "failed"}
      BY <3>2
    <3>4. Goes(r, f) /\ UNCHANGED lock
      BY <1>2, <2>1 DEF PipEnds, PipGoes
    <3>. HIDE DEF f
    <3>5. lock = r
      BY <2>1 DEF Typed, LockKept, Holding
    <3>. QED BY <1>4, <3>1, <3>3, <3>4, <3>5, RequestMoves DEF Holding
  <2>2. CASE req[r].at = "pip uninstall"
    <3>. DEFINE f == [req[r] EXCEPT !.at = IF done THEN "uninstalled" ELSE "not uninstalled"]
    <3>1. f \in Frames
      BY <1>1, <2>2, FrameGoesOn DEF RemovalSteps
    <3>2. "at" \in DOMAIN req[r]
      BY <1>1, <2>2 DEF Frames
    <3>3. f.at \in {"uninstalled", "not uninstalled"}
      BY <3>2
    <3>4. Goes(r, f) /\ lock' = None
      BY <1>2, <2>2 DEF PipEnds, PipGoes
    <3>. HIDE DEF f
    <3>. QED BY <1>4, <2>2, <3>1, <3>3, <3>4, ReleasingStep DEF Holding
  <2>3. CASE req[r].at \notin {"pip", "pip uninstall"}
    <3>1. Goes(r, req[r]) /\ UNCHANGED lock
      BY <1>2, <2>3 DEF PipEnds, PipGoes
    <3>2. lock = r <=> req[r].at \in Holding
      BY DEF Typed, LockKept
    <3>. QED BY <1>1, <1>4, <2>3, <3>1, <3>2, RequestMoves
  <2>. QED BY <2>1, <2>2, <2>3
<1>. QED BY <1>3, <1>4, <1>5, <1>6 DEF Typed

LEMMA HangUpTyped == ASSUME Typed, NEW r \in Requests, HangUp(r) PROVE Typed'
<1>1. Goes(r, Idle) /\ calm' = FALSE /\ told' = {} /\ UNCHANGED <<disk, rows, pip>>
  BY DEF HangUp, Strays
<1>2. lock' \in Requests \cup {None} /\ lock' # r
      /\ \A q \in Requests \ {r} : lock' = q <=> lock = q
  BY PackagesAssumption DEF HangUp, Typed
<1>3. Idle \in Frames /\ Idle.at = "idle"
  BY NewFrames DEF Idle
<1>4. req' \in [Requests -> Frames] /\ asks' \in Workloads /\ LockKept'
  BY <1>1, <1>2, <1>3, RequestMoves DEF Typed, Holding
<1>. QED BY <1>1, <1>2, <1>4 DEF Typed

LEMMA CrashTyped == ASSUME Typed, Crash PROVE Typed'
<1>1. \A r \in Requests : req'[r].at = "idle"
  BY DEF Crash, Idle
<1>2. LockKept'
  BY <1>1, PackagesAssumption DEF LockKept, Crash, Holding
<1>. QED BY <1>2, NewFrames DEF Typed, Crash

LEMMA InitTyped == Init => Typed
<1>. SUFFICES ASSUME Init PROVE Typed
  OBVIOUS
<1>1. \A r \in Requests : req[r].at = "idle"
  BY DEF Init, Idle
<1>2. LockKept
  BY <1>1, PackagesAssumption DEF LockKept, Init, Holding
<1>. QED BY <1>2, NewFrames DEF Typed, Init

LEMMA NextTyped == Typed /\ [Next]_vars => Typed'
<1>. SUFFICES ASSUME Typed, [Next]_vars PROVE Typed'
  OBVIOUS
<1>1. CASE UNCHANGED vars
  BY <1>1 DEF vars, Typed, LockKept
<1>2. CASE Next
  BY <1>2, BeginTyped, LocksTyped, StepTyped, PipTyped, HangUpTyped, CrashTyped DEF Next
<1>. QED BY <1>1, <1>2

(* The types of a request's data, of the rows and of pip, and the lock: it is
   held by the one request whose pip it waits for or asks about. *)
THEOREM TypeCorrect == Spec => []TypeOK
<1>1. Typed => TypeOK
  <2>. SUFFICES ASSUME Typed PROVE TypeOK
    OBVIOUS
  <2>1. \A i \in Listed : rows[i] \in Row
    BY DEF Typed, Listed
  <2>2. ASSUME NEW r \in Requests, pip[r] # None
        PROVE  IF InstallPip(r) THEN pip[r] \in Item ELSE pip[r].uninstall \in Names
    BY <2>2, Pips DEF Typed, InstallPip
  <2>3. ASSUME NEW r \in Requests, "item" \in DOMAIN req[r] PROVE req[r].item \in Item
    BY <2>3, FrameData DEF Typed
  <2>. QED BY <2>1, <2>2, <2>3 DEF TypeOK, Typed, LockKept, Holding
<1>. QED BY <1>1, InitTyped, NextTyped, PTL DEF Spec

(* main_venv_lock: no two pips that are waited for run together. *)
THEOREM PipsTakeTurns == Spec => []OnePipAtATime
<1>1. Typed => OnePipAtATime
  BY DEF Typed, LockKept, OnePipAtATime, Awaited, Holding
<1>. QED BY <1>1, InitTyped, NextTyped, PTL DEF Spec

-----------------------------------------------------------------------------
(* One request at a time: the rows and the disk *)

LEMMA ThereIs ==
    ASSUME Typed
    PROVE  /\ \A n \in Names : There[n] = disk[Package[n]] /\ There[n] \in Versions \cup {None}
           /\ UNCHANGED disk => UNCHANGED There
<1>1. \A n \in Names : Package[n] \in Packages
  BY DEF Packages
<1>2. UNCHANGED disk => UNCHANGED There
  BY DEF There
<1>. QED BY <1>1, <1>2 DEF There, Typed

(* Places where a request owes the rows nothing. *)
Even == {"idle", "next", "lock", "pip", "failed", "lock to uninstall", "pip uninstall",
         "not uninstalled"}

LEMMA EvenFits ==
    ASSUME NEW f, NEW g, NEW d, NEW rs, NEW t, f.at \in Even, g.at \in Even, Fits(f, d, rs, t)
    PROVE  Fits(g, d, rs, t)
<1>1. \A p : ~Due(f, p) /\ ~Due(g, p)
  BY DEF Due, Even
<1>2. \A row : ~Leaving(f, row) /\ ~Leaving(g, row)
  BY DEF Leaving, Even
<1>3. Reached(g, d, rs)
  BY DEF Reached, Even
<1>. QED BY <1>1, <1>2, <1>3 DEF Fits, Tracked, Removed

LEMMA CalmAlone ==
    ASSUME CalmKept, calm, NEW r \in Requests, req[r].at # "idle"
    PROVE  /\ \A q \in Requests \ {r} : req[q].at = "idle" /\ pip[q] = None
           /\ Fits(req[r], There, rows, told) /\ UniqueRows(rows)
           /\ pip[r] # None => Awaited(r)
<1>1. \A q \in Requests \ {r} : req[q].at = "idle"
  BY DEF CalmKept, Busy
<1>2. \A q \in Requests \ {r} : ~Awaited(q)
  BY <1>1 DEF Awaited
<1>. QED BY <1>1, <1>2 DEF CalmKept, Busy

LEMMA CalmMoves ==
    ASSUME Typed, NEW r \in Requests, NEW f \in Frames, Goes(r, f),
           \A q \in Requests \ {r} : req[q].at = "idle" /\ pip'[q] = None,
           pip'[r] # None => f.at \in {"pip", "pip uninstall"},
           UniqueRows(rows'), Fits(f, There', rows', told')
    PROVE  CalmKept'
<1>1. req'[r] = f /\ \A q \in Requests \ {r} : req'[q].at = "idle"
  BY DEF Goes, Typed
<1>2. Busy' \subseteq {r}
  BY <1>1 DEF Busy
<1>3. \A q \in Requests : pip'[q] # None => Awaited(q)'
  BY <1>1 DEF Awaited
<1>4. Busy' = {} => Fits(Idle, There', rows', told')
  <2>1. SUFFICES ASSUME Busy' = {} PROVE Fits(Idle, There', rows', told')
    OBVIOUS
  <2>2. f.at \in Even /\ Idle.at \in Even
    BY <1>1, <2>1 DEF Busy, Even, Idle
  <2>. QED BY <2>2, EvenFits
<1>5. \A q \in Busy' : Fits(req'[q], There', rows', told')
  BY <1>1, <1>2
<1>6. (Busy = {} => Fits(Idle, There, rows, told))' /\ (\A q \in Busy : Fits(req[q], There, rows, told))'
  BY <1>4, <1>5
<1>7. UniqueRows(rows)'
  OBVIOUS
<1>. QED BY <1>2, <1>3, <1>6, <1>7 DEF CalmKept

LEMMA CalmEven ==
    ASSUME Typed, CalmKept, calm, NEW r \in Requests, NEW f \in Frames, Goes(r, f),
           req[r].at # "idle", req[r].at \in Even, f.at \in Even,
           UNCHANGED <<There, rows, told>>, \A q \in Requests \ {r} : pip'[q] = pip[q],
           pip'[r] # None => f.at \in {"pip", "pip uninstall"}
    PROVE  CalmKept'
<1>1. Fits(f, There, rows, told)
  BY CalmAlone, EvenFits
<1>2. Fits(f, There', rows', told') /\ UniqueRows(rows')
  BY <1>1, CalmAlone
<1>. QED BY <1>2, CalmAlone, CalmMoves

LEMMA BeginCalm ==
    ASSUME Typed, CalmKept, NEW r \in Requests, Begin(r), calm' PROVE CalmKept'
<1>1. ASSUME NEW f \in Frames, f.at \in Even, Start(r, TRUE, f) PROVE CalmKept'
  <2>1. calm /\ Busy = {} /\ pip[r] = None /\ Goes(r, f) /\ UNCHANGED <<There, rows, pip, told>>
    BY <1>1, ThereIs DEF Start
  <2>2. Fits(Idle, There, rows, told) /\ UniqueRows(rows) /\ \A q \in Requests : req[q].at = "idle"
    BY <2>1 DEF CalmKept, Busy
  <2>3. \A q \in Requests : pip'[q] = None
    BY <2>1, <2>2 DEF CalmKept, Awaited
  <2>4. Fits(f, There, rows, told)
    <3>1. Idle.at \in Even
      BY DEF Even, Idle
    <3>. QED BY <1>1, <2>2, <3>1, EvenFits
  <2>5. Fits(f, There', rows', told') /\ UniqueRows(rows')
    BY <2>1, <2>2, <2>4
  <2>. QED BY <2>1, <2>2, <2>3, <2>5, CalmMoves
<1>2. \A todo : Installing(todo).at \in Even
  BY DEF Installing, Even
<1>3. [name : asks[r], want : Wants] \subseteq Item /\ asks[r] \subseteq Names
  <2>1. asks[r] \subseteq Names
    BY PackagesAssumption DEF Typed
  <2>. QED BY <2>1, PackagesAssumption DEF Item
<1>4. ~Clear(r) /\ \A name, version : ~Delete(r, name, version)
  BY DEF Clear, Delete, Start
<1>5. CASE \E item \in [name : asks[r], want : Wants] : Install(r, item)
  BY <1>1, <1>2, <1>3, <1>5, NewFrames DEF Install
<1>6. CASE UpdateAll(r)
  <2>1. {[name |-> rows[i].name, want |-> None] : i \in Listed} \in SUBSET Item
    BY DEF Typed, Listed, Row, Item
  <2>. QED BY <1>1, <1>2, <1>6, <2>1, NewFrames DEF UpdateAll
<1>7. CASE \E todo \in SUBSET [name : asks[r], want : Wants] : InstallDependencies(r, todo)
  BY <1>1, <1>2, <1>3, <1>7, NewFrames DEF InstallDependencies
<1>8. CASE \E name \in asks[r] : Uninstall(r, name)
  <2>1. PICK name \in Names : Uninstall(r, name)
    BY <1>3, <1>8
  <2>2. [at |-> "lock to uninstall", name |-> name].at \in Even
    BY DEF Even
  <2>. QED BY <1>1, <2>1, <2>2, NewFrames DEF Uninstall
<1>. QED BY <1>4, <1>5, <1>6, <1>7, <1>8 DEF Begin

LEMMA LocksCalm ==
    ASSUME Typed, CalmKept, NEW r \in Requests, Locks(r), calm' PROVE CalmKept'
<1>1. req[r] \in Frames /\ pip \in [Requests -> Item \cup Removals \cup {None}]
  BY DEF Typed
<1>2. CASE LockAndInstall(r)
  <2>. DEFINE f == [req[r] EXCEPT !.at = "pip"]
  <2>1. req[r].at = "lock" /\ calm /\ Goes(r, f)
        /\ pip' = [pip EXCEPT ![r] = req[r].item] /\ UNCHANGED <<There, rows, told>>
    BY <1>2, ThereIs DEF LockAndInstall, Goto
  <2>2. f \in Frames /\ f.at = "pip"
    <3>1. "at" \in DOMAIN req[r]
      BY <1>1, <2>1 DEF Frames
    <3>. QED BY <1>1, <2>1, <3>1, FrameGoesOn DEF InstallSteps
  <2>. HIDE DEF f
  <2>3. \A q \in Requests \ {r} : pip'[q] = pip[q]
    BY <1>1, <2>1
  <2>. QED BY <2>1, <2>2, <2>3, CalmEven DEF Even
<1>3. CASE LockAndUninstall(r)
  <2>. DEFINE f == [req[r] EXCEPT !.at = "pip uninstall"]
  <2>1. req[r].at = "lock to uninstall" /\ calm /\ Goes(r, f)
        /\ pip' = [pip EXCEPT ![r] = [uninstall |-> req[r].name]] /\ UNCHANGED <<There, rows, told>>
    BY <1>3, ThereIs DEF LockAndUninstall, Goto
  <2>2. f \in Frames /\ f.at = "pip uninstall"
    <3>1. "at" \in DOMAIN req[r]
      BY <1>1, <2>1 DEF Frames
    <3>. QED BY <1>1, <2>1, <3>1, FrameGoesOn DEF RemovalSteps
  <2>. HIDE DEF f
  <2>3. \A q \in Requests \ {r} : pip'[q] = pip[q]
    BY <1>1, <2>1
  <2>. QED BY <2>1, <2>2, <2>3, CalmEven DEF Even
<1>. QED BY <1>2, <1>3 DEF Locks

(* The end of an installation turns what is installed into a row to write. *)
LEMMA RowFits ==
    ASSUME NEW f, NEW d, NEW rs, NEW t, Fits(f, d, rs, t), NEW todo, NEW row,
           \/ f.at = "failed" /\ row.status = "failed"
           \/ f.at = "installed" /\ row.status = "ready" /\ row.name = f.item.name
              /\ row.version = d[row.name]
    PROVE  Fits([at |-> "update row", todo |-> todo, row |-> row], d, rs, t)
<1>. DEFINE g == [at |-> "update row", todo |-> todo, row |-> row]
<1>1. g.at = "update row" /\ g.row = row
  OBVIOUS
<1>. HIDE DEF g
<1>2. Tracked(g, d, rs, t)
  BY <1>1 DEF Fits, Tracked, Due
<1>3. Removed(g, d, rs, t)
  BY <1>1 DEF Fits, Removed, Leaving
<1>4. Reached(g, d, rs)
  BY <1>1 DEF Fits, Reached
<1>5. Fits(g, d, rs, t)
  BY <1>2, <1>3, <1>4 DEF Fits
<1>. QED BY <1>5 DEF g

LEMMA InstallCalm ==
    ASSUME Typed, CalmKept, NEW r \in Requests, Installed(r) \/ InstallFails(r), calm'
    PROVE  CalmKept'
<1>. DEFINE f == req[r]
            status == IF Installed(r) THEN "ready" ELSE "failed"
            version == IF Installed(r) THEN disk[Package[f.item.name]] ELSE Asked(f.item)
            row == [name |-> f.item.name, version |-> version, status |-> status]
            g == [at |-> "update row", todo |-> f.todo, row |-> row]
<1>1. f \in Frames /\ f.at \in {"installed", "failed"}
  BY DEF Typed, Installed, InstallFails
<1>2. f.item \in Item /\ f.todo \in SUBSET Item
  BY <1>1, FrameData DEF InstallSteps
<1>0. disk[Package[f.item.name]] = There[f.item.name] /\ There[f.item.name] \in Versions \cup {None}
  BY <1>2, ThereIs DEF Item
<1>3. Goes(r, g) /\ calm /\ UNCHANGED <<There, rows, pip, told>>
  BY ThereIs DEF Installed, InstallFails, InstallEnds, Goto
<1>4. version \in Versions \cup {"latest"}
  BY <1>2, <1>0 DEF Installed, Asked, Item
<1>5. row \in Row
  BY <1>2, <1>4 DEF Row, Item
<1>6. \/ f.at = "failed" /\ row.status = "failed"
      \/ f.at = "installed" /\ row.status = "ready" /\ row.name = f.item.name
         /\ row.version = There[row.name]
  BY <1>0 DEF Installed, InstallFails
<1>. HIDE DEF row, version, status
<1>7. g \in Frames /\ g.at = "update row"
  BY <1>2, <1>5, NewFrames
<1>8. /\ \A q \in Requests \ {r} : req[q].at = "idle" /\ pip[q] = None
      /\ Fits(f, There, rows, told) /\ UniqueRows(rows)
      /\ pip[r] = None
  BY <1>1, <1>3, CalmAlone DEF Awaited
<1>. HIDE DEF f
<1>9. Fits(g, There, rows, told)
  BY <1>6, <1>8, RowFits
<1>. HIDE DEF g
<1>10. Fits(g, There', rows', told') /\ UniqueRows(rows')
  BY <1>3, <1>8, <1>9
<1>. QED BY <1>3, <1>7, <1>8, <1>10, CalmMoves

LEMMA UpdateRowCalm ==
    ASSUME Typed, CalmKept, NEW r \in Requests, UpdateRow(r), calm' PROVE CalmKept'
<1>. DEFINE f == req[r]
            row == f.row
            old == Matching(row.name, row.version)
            g == IF old = {} THEN [f EXCEPT !.at = "insert row"] ELSE Installing(f.todo)
<1>1. f \in Frames /\ f.at = "update row" /\ Goes(r, g) /\ calm /\ UNCHANGED <<There, pip, told>>
      /\ rows' = [i \in RowIds |-> IF i \in old THEN row ELSE rows[i]]
  BY ThereIs DEF Typed, UpdateRow, Goto
<1>2. row \in Row /\ f.todo \in SUBSET Item /\ rows \in [RowIds -> Row \cup {None}]
      /\ row # None
  BY <1>1, FrameData, PackagesAssumption DEF RowSteps, Typed
<1>3. /\ \A q \in Requests \ {r} : req[q].at = "idle" /\ pip[q] = None
      /\ Fits(f, There, rows, told) /\ UniqueRows(rows)
      /\ pip[r] = None
  BY <1>1, CalmAlone DEF Awaited
<1>4. \A i \in RowIds :
        /\ rows'[i] # None <=> rows[i] # None
        /\ rows[i] # None => rows'[i].name = rows[i].name /\ rows'[i].version = rows[i].version
        /\ rows'[i] = rows[i] \/ (rows'[i] = row /\ i \in old)
  BY <1>1, <1>2 DEF Matching, Of, Listed
<1>5. UniqueRows(rows')
  BY <1>3, <1>4 DEF UniqueRows
<1>6. \A p, v : Has(rows', p, v) <=> Has(rows, p, v)
  BY <1>4 DEF Has
<1>7. old = {} <=> ~Has(rows, row.name, row.version)
  BY DEF Matching, Of, Listed, Has
<1>8. g \in Frames /\ g.at \in {"insert row", "next"}
      /\ (old = {} => g.at = "insert row" /\ g.row = row) /\ (old # {} => g.at = "next")
  <2>1. CASE old = {}
    <3>. DEFINE h == [f EXCEPT !.at = "insert row"]
    <3>1. h \in Frames
      BY <1>1, FrameGoesOn DEF RowSteps
    <3>2. f \in [at : RowSteps, todo : SUBSET Item, row : Row]
      BY <1>1 DEF Frames, RowSteps
    <3>3. h.at = "insert row" /\ h.row = row
      BY <3>2
    <3>4. g = h
      BY <2>1
    <3>. HIDE DEF h, g
    <3>. QED BY <2>1, <3>1, <3>3, <3>4
  <2>2. CASE old # {}
    BY <1>2, <2>2, NewFrames DEF Installing
  <2>. QED BY <2>1, <2>2
<1>9. /\ \A p : Due(f, p) <=> row.status = "ready" /\ row.name = p
      /\ \A x : ~Leaving(f, x)
      /\ row.status = "ready" => There[row.name] = row.version /\ There[row.name] # None
  BY <1>1, <1>3 DEF Due, Leaving, Fits, Reached
<1>. HIDE DEF old, row, f, g
<1>10. Removed(g, There, rows', told)
  <2>1. ASSUME NEW i \in RowIds, rows'[i] # None, rows'[i].name \in told, rows'[i].status = "ready"
        PROVE  There[rows'[i].name] # None
    BY <1>3, <1>4, <1>9, <2>1 DEF Fits, Removed
  <2>. QED BY <2>1 DEF Removed
<1>11. Tracked(g, There, rows', told)
  <2>1. ASSUME NEW p \in told, There[p] # None PROVE Has(rows', p, There[p]) \/ Due(g, p)
    <3>1. CASE Has(rows, p, There[p])
      BY <1>6, <3>1
    <3>2. CASE row.status = "ready" /\ row.name = p /\ row.version = There[p]
      BY <1>6, <1>7, <1>8, <3>2 DEF Due
    <3>. QED BY <1>3, <1>9, <2>1, <3>1, <3>2 DEF Fits, Tracked
  <2>. QED BY <2>1 DEF Tracked
<1>12. Reached(g, There, rows')
  BY <1>6, <1>7, <1>8, <1>9 DEF Reached
<1>13. Fits(g, There', rows', told')
  BY <1>1, <1>10, <1>11, <1>12 DEF Fits
<1>14. g.at \in {"insert row", "next"} /\ Goes(r, g) /\ \A q \in Requests : pip'[q] = pip[q]
  BY <1>1, <1>8
<1>. QED BY <1>3, <1>5, <1>8, <1>13, <1>14, CalmMoves

LEMMA InsertRowCalm ==
    ASSUME Typed, CalmKept, NEW r \in Requests, InsertRow(r), calm' PROVE CalmKept'
<1>. DEFINE f == req[r]
            row == f.row
            new == CHOOSE i \in RowIds : rows[i] = None
            g == Installing(f.todo)
<1>1. f \in Frames /\ f.at = "insert row" /\ Goes(r, g) /\ calm /\ UNCHANGED <<There, pip, told>>
      /\ rows' = [rows EXCEPT ![new] = row] /\ Listed # RowIds
  BY ThereIs DEF Typed, InsertRow, Goto
<1>2. row \in Row /\ f.todo \in SUBSET Item /\ rows \in [RowIds -> Row \cup {None}]
      /\ row # None
  BY <1>1, FrameData, PackagesAssumption DEF RowSteps, Typed
<1>3. /\ \A q \in Requests \ {r} : req[q].at = "idle" /\ pip[q] = None
      /\ Fits(f, There, rows, told) /\ UniqueRows(rows)
      /\ pip[r] = None
  BY <1>1, CalmAlone DEF Awaited
<1>4. new \in RowIds /\ rows[new] = None
  BY <1>1 DEF Listed
<1>5. rows'[new] = row /\ \A i \in RowIds \ {new} : rows'[i] = rows[i]
  BY <1>1, <1>2, <1>4
<1>6. g \in Frames /\ g.at = "next"
  BY <1>2, NewFrames DEF Installing
<1>7. /\ \A p : Due(f, p) <=> row.status = "ready" /\ row.name = p
      /\ \A x : ~Leaving(f, x)
      /\ row.status = "ready" => There[row.name] = row.version /\ There[row.name] # None
      /\ ~Has(rows, row.name, row.version)
  BY <1>1, <1>3 DEF Due, Leaving, Fits, Reached
<1>. HIDE DEF row, new, f, g
<1>8. UniqueRows(rows')
  BY <1>2, <1>3, <1>4, <1>5, <1>7 DEF UniqueRows, Has
<1>9. Removed(g, There, rows', told)
  <2>1. ASSUME NEW i \in RowIds, rows'[i] # None, rows'[i].name \in told, rows'[i].status = "ready"
        PROVE  There[rows'[i].name] # None
    BY <1>3, <1>5, <1>7, <2>1 DEF Fits, Removed
  <2>. QED BY <2>1 DEF Removed
<1>10. Tracked(g, There, rows', told)
  <2>1. ASSUME NEW p \in told, There[p] # None PROVE Has(rows', p, There[p])
    <3>1. CASE Has(rows, p, There[p])
      BY <1>4, <1>5, <3>1 DEF Has
    <3>2. CASE row.status = "ready" /\ row.name = p /\ row.version = There[p]
      BY <1>2, <1>4, <1>5, <3>2 DEF Has
    <3>. QED BY <1>3, <1>7, <2>1, <3>1, <3>2 DEF Fits, Tracked
  <2>. QED BY <2>1 DEF Tracked
<1>11. Reached(g, There, rows')
  BY <1>6 DEF Reached
<1>12. Fits(g, There', rows', told')
  BY <1>1, <1>9, <1>10, <1>11 DEF Fits
<1>13. Goes(r, g) /\ \A q \in Requests : pip'[q] = pip[q]
  BY <1>1
<1>. QED BY <1>3, <1>6, <1>8, <1>12, <1>13, CalmMoves

(* Names that differ in case alone are one package. *)
LEMMA AlikeIsOne ==
    ASSUME NEW m \in Names, NEW n \in Alike(m) PROVE n \in Names /\ There[n] = There[m]
BY PackagesAssumption DEF Alike, There

(* An uninstallation has to delete each row of its package. *)
LEMMA UninstalledCalm ==
    ASSUME Typed, CalmKept, NEW r \in Requests, Uninstalled(r), calm' PROVE CalmKept'
<1>. DEFINE f == req[r]
            keys == {[name |-> rows[i].name, version |-> rows[i].version] : i \in {k \in Listed : rows[k].name \in Alike(f.name)}}
            g == [at |-> "delete rows", doomed |-> keys]
<1>1. /\ f.at = "uninstalled" /\ Goes(r, g) /\ calm /\ UNCHANGED <<There, rows, pip, told>>
      /\ f \in Frames
  BY ThereIs DEF Uninstalled, Goto, Strays, Doomed, Typed
<1>2. keys \in SUBSET Keys
  BY DEF Typed, Listed, Row, Keys
<1>3. /\ \A q \in Requests \ {r} : req[q].at = "idle" /\ pip[q] = None
      /\ Fits(f, There, rows, told) /\ UniqueRows(rows)
      /\ pip[r] = None
  BY <1>1, CalmAlone DEF Awaited
<1>4. \A i \in RowIds : rows[i] # None /\ rows[i].name \in Alike(f.name) =>
        [name |-> rows[i].name, version |-> rows[i].version] \in keys
  BY DEF Listed
<1>5. \A k \in keys : k.name \in Alike(f.name)
  OBVIOUS
<1>. HIDE DEF keys
<1>6. g.at = "delete rows" /\ g.doomed = keys /\ g \in Frames
  BY <1>2, NewFrames
<1>. HIDE DEF g, f
<1>7. Tracked(g, There, rows, told)
  BY <1>1, <1>3 DEF Fits, Tracked, Due
<1>8. Removed(g, There, rows, told)
  BY <1>1, <1>3, <1>4, <1>6 DEF Fits, Removed, Leaving
<1>9. Reached(g, There, rows)
  <2>1. There[f.name] = None /\ f.name \in Names
    BY <1>1, <1>3, FrameData DEF Fits, Reached, RemovalSteps
  <2>2. \A n \in Alike(f.name) : There[n] = None
    BY <2>1, AlikeIsOne
  <2>. QED BY <1>5, <1>6, <2>2 DEF Reached
<1>10. Fits(g, There', rows', told') /\ UniqueRows(rows') /\ \A q \in Requests : pip'[q] = pip[q]
  BY <1>1, <1>3, <1>7, <1>8, <1>9 DEF Fits
<1>. QED BY <1>1, <1>3, <1>6, <1>10, CalmMoves

LEMMA DeleteRowsCalm ==
    ASSUME Typed, CalmKept, NEW r \in Requests, DeleteRows(r), calm' PROVE CalmKept'
<1>. DEFINE f == req[r]
<1>1. PICK d \in f.doomed :
        /\ rows' = [i \in RowIds |-> IF i \in Matching(d.name, d.version) THEN None ELSE rows[i]]
        /\ Goes(r, [f EXCEPT !.doomed = @ \ {d}]) /\ calm /\ UNCHANGED told
  BY DEF DeleteRows, Goto, Strays
<1>. DEFINE g == [f EXCEPT !.doomed = @ \ {d}]
<1>2. f.at = "delete rows" /\ Goes(r, g) /\ UNCHANGED <<There, pip, told>>
  BY <1>1, ThereIs DEF DeleteRows, Goto
<1>3. f \in [at : {"delete rows"}, doomed : SUBSET Keys]
  BY <1>2 DEF Typed, Frames
<1>4. g \in Frames /\ g.at = "delete rows" /\ g.doomed = f.doomed \ {d} /\ d \in Keys
  BY <1>3 DEF Frames
<1>5. /\ \A q \in Requests \ {r} : req[q].at = "idle" /\ pip[q] = None
      /\ Fits(f, There, rows, told) /\ UniqueRows(rows)
      /\ pip[r] = None
  BY <1>1, <1>2, CalmAlone DEF Awaited
<1>6. \A i \in RowIds : rows'[i] # None =>
        rows'[i] = rows[i] /\ (rows[i].name # d.name \/ rows[i].version # d.version)
  BY <1>1 DEF Matching, Of, Listed
<1>7. \A i \in RowIds : rows[i] # None /\ rows[i].name # d.name => rows'[i] = rows[i]
  BY <1>1 DEF Matching, Of, Listed
<1>8. \A k \in f.doomed : There[k.name] = None
  BY <1>2, <1>5 DEF Fits, Reached
<1>9. \A i \in RowIds : rows'[i] # None =>
        [name |-> rows[i].name, version |-> rows[i].version] # d
  BY <1>6
<1>. HIDE DEF f, g
<1>10. UniqueRows(rows')
  BY <1>5, <1>6 DEF UniqueRows
<1>11. Tracked(g, There, rows', told)
  <2>1. ASSUME NEW p \in told, There[p] # None PROVE Has(rows', p, There[p])
    <3>1. Has(rows, p, There[p])
      BY <1>2, <1>5, <2>1 DEF Fits, Tracked, Due
    <3>2. p # d.name
      BY <1>1, <1>8, <2>1
    <3>. QED BY <1>7, <3>1, <3>2 DEF Has
  <2>. QED BY <2>1 DEF Tracked
<1>12. Removed(g, There, rows', told)
  <2>1. ASSUME NEW i \in RowIds, rows'[i] # None, rows'[i].name \in told, rows'[i].status = "ready"
        PROVE  There[rows'[i].name] # None \/ Leaving(g, rows'[i])
    <3>1. rows'[i] = rows[i]
      BY <1>6, <2>1
    <3>2. There[rows[i].name] # None \/ Leaving(f, rows[i])
      BY <1>5, <2>1, <3>1 DEF Fits, Removed
    <3>3. Leaving(f, rows[i]) => Leaving(g, rows[i])
      BY <1>2, <1>4, <1>9, <2>1 DEF Leaving
    <3>. QED BY <3>1, <3>2, <3>3
  <2>. QED BY <2>1 DEF Removed
<1>13. Reached(g, There, rows')
  BY <1>4, <1>8 DEF Reached
<1>14. Fits(g, There', rows', told') /\ \A q \in Requests : pip'[q] = pip[q]
  BY <1>2, <1>11, <1>12, <1>13 DEF Fits
<1>. QED BY <1>2, <1>4, <1>5, <1>10, <1>14, CalmMoves

LEMMA StepCalm ==
    ASSUME Typed, CalmKept, NEW r \in Requests, Step(r) \/ Shows(r), calm' PROVE CalmKept'
<1>1. req[r] \in Frames
  BY DEF Typed
<1>2. ~InstalledUnknown(r) /\ ~TimesOut(r) /\ ~SaveFails(r)
  BY DEF InstalledUnknown, TimesOut, SaveFails, InstallEndsBadly, Strays
<1>3. Idle \in Frames /\ Idle.at = "idle"
  BY NewFrames DEF Idle
<1>4. CASE CheckConflict(r)
  <2>1. req[r].at = "next" /\ req[r].todo \in SUBSET Item
    BY <1>1, <1>4, FrameData DEF CheckConflict
  <2>2. PICK f : /\ Goto(r, f) /\ UNCHANGED <<disk, rows, lock, pip>>
                 /\ f \in Frames /\ f.at \in {"lock", "next"}
    <3>1. PICK item \in req[r].todo :
            \/ Goto(r, [at |-> "lock", todo |-> req[r].todo \ {item}, item |-> item])
            \/ Goto(r, Installing(req[r].todo \ {item}))
      BY <1>4 DEF CheckConflict
    <3>2. [at |-> "lock", todo |-> req[r].todo \ {item}, item |-> item] \in Frames
          /\ Installing(req[r].todo \ {item}) \in Frames
      BY <2>1, NewFrames
    <3>3. Installing(req[r].todo \ {item}).at = "next"
      BY DEF Installing
    <3>. QED BY <1>4, <3>1, <3>2, <3>3 DEF CheckConflict
  <2>3. calm /\ Goes(r, f) /\ UNCHANGED <<There, rows, pip, told>>
    BY <2>2, ThereIs DEF Goto
  <2>4. pip[r] = None
    BY <2>1, <2>3, CalmAlone DEF Awaited
  <2>. QED BY <2>1, <2>2, <2>3, <2>4, CalmEven DEF Even
<1>5. CASE AllInstalled(r) \/ UninstallFails(r)
  <2>1. /\ req[r].at \in {"next", "not uninstalled"} /\ Goes(r, Idle) /\ calm
        /\ UNCHANGED <<There, rows, pip, told>>
    BY <1>5, ThereIs DEF AllInstalled, UninstallFails, Goto
  <2>2. pip[r] = None
    BY <2>1, CalmAlone DEF Awaited
  <2>. QED BY <1>3, <2>1, <2>2, CalmEven DEF Even
<1>6. CASE AllDeleted(r)
  <2>1. req[r].at = "delete rows" /\ req[r].doomed = {} /\ Goes(r, Idle) /\ calm
        /\ UNCHANGED <<There, rows, pip, told>>
    BY <1>6, ThereIs DEF AllDeleted, Goto
  <2>2. /\ \A q \in Requests \ {r} : req[q].at = "idle" /\ pip[q] = None
        /\ Fits(req[r], There, rows, told) /\ UniqueRows(rows)
        /\ pip[r] = None
    BY <2>1, CalmAlone DEF Awaited
  <2>3. (\A p : ~Due(req[r], p)) /\ \A row : ~Leaving(req[r], row)
    BY <2>1 DEF Due, Leaving
  <2>4. Fits(Idle, There, rows, told)
    BY <1>3, <2>2, <2>3 DEF Fits, Tracked, Removed, Reached
  <2>5. Fits(Idle, There', rows', told') /\ UniqueRows(rows') /\ \A q \in Requests : pip'[q] = pip[q]
    BY <2>1, <2>2, <2>4
  <2>. QED BY <1>3, <2>1, <2>2, <2>5, CalmMoves
<1>. QED BY <1>2, <1>4, <1>5, <1>6, InstallCalm, UpdateRowCalm, InsertRowCalm, UninstalledCalm,
            DeleteRowsCalm DEF Step, Shows

(* Under a name that is told, nothing has changed but what a request hears of. *)
LEMMA LeavesTold ==
    ASSUME Typed, calm, NEW after, NEW heard, Leaves(after, heard)
    PROVE  \A n \in told' : n \in heard \/ (n \in told /\ There'[n] = There[n])
<1>. SUFFICES ASSUME NEW n \in told', n \notin heard PROVE n \in told /\ There'[n] = There[n]
  OBVIOUS
<1>1. n \in told /\ n \notin Spellings({p \in Packages : after[p] # disk[p]}) /\ disk' = after
  BY DEF Leaves
<1>2. n \in Names /\ Package[n] \in Packages
  BY <1>1 DEF Typed, Packages
<1>3. after[Package[n]] = disk[Package[n]]
  BY <1>1, <1>2 DEF Spellings
<1>. QED BY <1>1, <1>2, <1>3 DEF There

(* A pip that does what the request does not hear of leaves its rows right. *)
LEMMA LeavesFits ==
    ASSUME Typed, calm, NEW f, NEW g, NEW after, Leaves(after, {}), Fits(f, There, rows, told),
           f.at \in Even, g.at \in Even
    PROVE  Fits(g, There', rows, told')
<1>1. \A n \in told' : n \in told /\ There'[n] = There[n]
  BY LeavesTold
<1>2. (\A p : ~Due(f, p)) /\ \A row : ~Leaving(f, row)
  BY DEF Due, Leaving, Even
<1>3. Tracked(g, There', rows, told')
  BY <1>1, <1>2 DEF Fits, Tracked
<1>4. Removed(g, There', rows, told')
  BY <1>1, <1>2 DEF Fits, Removed
<1>5. Reached(g, There', rows)
  BY DEF Reached, Even
<1>. QED BY <1>3, <1>4, <1>5 DEF Fits

(* The pip of a calm request is the one it waits for; what it does to the disk
   the request will do to the rows. *)
LEMMA PipCalm ==
    ASSUME Typed, CalmKept, NEW r \in Requests, Pip(r), calm' PROVE CalmKept'
<1>1. req[r] \in Frames /\ pip \in [Requests -> Item \cup Removals \cup {None}]
      /\ disk \in [Packages -> Versions \cup {None}]
  BY DEF Typed
<1>2. PICK done \in BOOLEAN : PipEnds(r, done) /\ (~done => PipFails(r))
                              /\ (done => PipInstalls(r) \/ PipUninstalls(r))
  BY DEF Pip, PipInstalls, PipUninstalls, PipFails
<1>3. calm /\ pip[r] # None /\ UNCHANGED rows /\ pip'[r] = None
      /\ \A q \in Requests \ {r} : pip'[q] = pip[q]
  BY <1>1, <1>2 DEF PipEnds, Pip, PipInstalls, PipUninstalls, PipFails, InstallPip, UninstallPip
<1>4. req[r].at \in {"pip", "pip uninstall"}
  BY <1>3 DEF CalmKept, Awaited
<1>5. /\ \A q \in Requests \ {r} : req[q].at = "idle" /\ pip[q] = None
      /\ Fits(req[r], There, rows, told) /\ UniqueRows(rows)
  BY <1>3, <1>4, CalmAlone
<1>6. (\A p : ~Due(req[r], p)) /\ \A row : ~Leaving(req[r], row)
  BY <1>4 DEF Due, Leaving
<1>7. CASE req[r].at = "pip"
  <2>. DEFINE f == [req[r] EXCEPT !.at = IF done THEN "installed" ELSE "failed"]
  <2>1. req[r] \in [at : InstallSteps, todo : SUBSET Item, item : Item]
    BY <1>1, <1>7 DEF Frames, InstallSteps
  <2>2. f \in Frames /\ f.at = (IF done THEN "installed" ELSE "failed") /\ f.item = req[r].item
        /\ f.item \in Item
    <3>1. f \in [at : InstallSteps, todo : SUBSET Item, item : Item]
      BY <2>1 DEF InstallSteps
    <3>. QED BY <2>1, <3>1 DEF Frames, InstallSteps
  <2>3. Goes(r, f)
    BY <1>2, <1>7 DEF PipEnds, PipGoes
  <2>. HIDE DEF f
  <2>4. CASE done
    <3>1. pip[r] = f.item
      BY <1>7, <2>2 DEF Typed, LockKept
    <3>2. PipInstalls(r)
      BY <1>2, <2>2, <2>4, <3>1, Pips DEF PipUninstalls, UninstallPip
    <3>3. f.item.name \in Names /\ Package[f.item.name] \in Packages
      BY <2>2 DEF Item, Packages
    <3>4. PICK after \in [Packages -> Versions \cup {None}] :
            after[Package[f.item.name]] \in Versions /\ Leaves(after, {f.item.name})
      BY <2>2, <3>1, <3>2 DEF PipInstalls, Outcomes, Item
    <3>5. There'[f.item.name] # None
      BY <3>3, <3>4, PackagesAssumption DEF Leaves, There
    <3>6. \A n \in told' : n = f.item.name \/ (n \in told /\ There'[n] = There[n])
      BY <1>3, <3>4, LeavesTold
    <3>7. Tracked(f, There', rows', told')
      BY <1>3, <1>5, <1>6, <2>2, <2>4, <3>6 DEF Fits, Tracked, Due
    <3>8. Removed(f, There', rows', told')
      BY <1>3, <1>5, <1>6, <3>5, <3>6 DEF Fits, Removed
    <3>9. Reached(f, There', rows')
      BY <2>2, <2>4, <3>5 DEF Reached
    <3>10. Fits(f, There', rows', told')
      BY <3>7, <3>8, <3>9 DEF Fits
    <3>. QED BY <1>3, <1>5, <2>2, <2>3, <3>10, CalmMoves
  <2>5. CASE ~done
    <3>1. PICK after : Leaves(after, {})
      BY <1>2, <2>5 DEF PipFails
    <3>2. f.at = "failed"
      BY <2>2, <2>5
    <3>3. Fits(f, There', rows', told')
      BY <1>3, <1>5, <1>7, <3>1, <3>2, LeavesFits DEF Even
    <3>. QED BY <1>3, <1>5, <2>2, <2>3, <3>3, CalmMoves
  <2>. QED BY <2>4, <2>5
<1>8. CASE req[r].at = "pip uninstall"
  <2>. DEFINE f == [req[r] EXCEPT !.at = IF done THEN "uninstalled" ELSE "not uninstalled"]
  <2>1. req[r] \in [at : RemovalSteps, name : Names]
    BY <1>1, <1>8 DEF Frames, RemovalSteps
  <2>2. f \in Frames /\ f.at = (IF done THEN "uninstalled" ELSE "not uninstalled")
        /\ f.name = req[r].name /\ f.name \in Names
    <3>1. f \in [at : RemovalSteps, name : Names]
      BY <2>1 DEF RemovalSteps
    <3>. QED BY <2>1, <3>1 DEF Frames, RemovalSteps
  <2>3. Goes(r, f)
    BY <1>2, <1>8 DEF PipEnds, PipGoes
  <2>. HIDE DEF f
  <2>4. CASE done
    <3>1. pip[r] = [uninstall |-> req[r].name]
      BY <1>8 DEF Typed, LockKept
    <3>2. pip[r] \in Removals /\ pip[r].uninstall = f.name
      <4>1. \A n \in Names : [uninstall |-> n] \in Removals /\ [uninstall |-> n].uninstall = n
        BY DEF Removals
      <4>. QED BY <2>2, <3>1, <4>1
    <3>3. PipUninstalls(r)
      <4>1. ~InstallPip(r)
        BY <3>2, Pips DEF InstallPip
      <4>. QED BY <1>2, <2>4, <4>1 DEF PipInstalls
    <3>4. Leaves([disk EXCEPT ![Package[f.name]] = None], Alike(f.name))
      BY <3>2, <3>3 DEF PipUninstalls
    <3>5. There'[f.name] = None
      <4>1. Package[f.name] \in Packages
        BY <2>2 DEF Packages
      <4>. QED BY <1>1, <2>2, <3>4, <4>1 DEF Leaves, There
    <3>6. \A n \in told' : n \in Alike(f.name) \/ (n \in told /\ There'[n] = There[n])
      BY <1>3, <3>4, LeavesTold
    <3>7. Tracked(f, There', rows', told')
      <4>1. \A n \in Alike(f.name) : There'[n] = None
        BY <2>2, <3>5, PackagesAssumption DEF Alike, There
      <4>. QED BY <1>3, <1>5, <1>6, <3>6, <4>1 DEF Fits, Tracked
    <3>8. Removed(f, There', rows', told')
      <4>1. f.at = "uninstalled"
        BY <2>2, <2>4
      <4>. QED BY <1>3, <1>5, <1>6, <3>6, <4>1 DEF Fits, Removed, Leaving
    <3>9. Reached(f, There', rows')
      BY <2>2, <2>4, <3>5 DEF Reached
    <3>10. Fits(f, There', rows', told')
      BY <3>7, <3>8, <3>9 DEF Fits
    <3>. QED BY <1>3, <1>5, <2>2, <2>3, <3>10, CalmMoves
  <2>5. CASE ~done
    <3>1. PICK after : Leaves(after, {})
      BY <1>2, <2>5 DEF PipFails
    <3>2. f.at = "not uninstalled"
      BY <2>2, <2>5
    <3>3. Fits(f, There', rows', told')
      BY <1>3, <1>5, <1>8, <3>1, <3>2, LeavesFits DEF Even
    <3>. QED BY <1>3, <1>5, <2>2, <2>3, <3>3, CalmMoves
  <2>. QED BY <2>4, <2>5
<1>. QED BY <1>4, <1>7, <1>8

THEOREM InitPInv == Init => PInv
<1>. SUFFICES ASSUME Init PROVE PInv
  OBVIOUS
<1>1. Busy = {} /\ UniqueRows(rows) /\ \A r \in Requests : pip[r] = None
  BY DEF Init, Busy, Idle, UniqueRows
<1>2. Tracked(Idle, There, rows, told) /\ Removed(Idle, There, rows, told)
  <2>1. \A n \in Names : There[n] = None
    BY DEF Init, There, Packages
  <2>. QED BY <2>1 DEF Init, Tracked, Removed
<1>3. Reached(Idle, There, rows)
  BY DEF Reached, Idle
<1>4. Fits(Idle, There, rows, told)
  BY <1>2, <1>3 DEF Fits
<1>. QED BY <1>1, <1>4, InitTyped DEF PInv, CalmKept

THEOREM NextPInv == PInv /\ [Next]_vars => PInv'
<1>. SUFFICES ASSUME PInv, [Next]_vars PROVE PInv'
  OBVIOUS
<1>1. Typed' /\ Typed /\ CalmKept
  BY NextTyped DEF PInv
<1>2. CASE UNCHANGED vars
  BY <1>1, <1>2, ThereIs DEF vars, PInv, CalmKept, Busy, Awaited
<1>3. CASE Crash
  BY <1>1, <1>3 DEF Crash, PInv, CalmKept
<1>4. ASSUME NEW r \in Requests, HangUp(r) PROVE CalmKept'
  BY <1>4 DEF HangUp, Strays, CalmKept
<1>5. ASSUME NEW r \in Requests, Begin(r) \/ Locks(r) \/ Step(r) \/ Shows(r) \/ Pip(r) PROVE CalmKept'
  <2>1. CASE calm'
    BY <1>1, <1>5, <2>1, BeginCalm, LocksCalm, StepCalm, PipCalm
  <2>2. CASE ~calm'
    BY <2>2 DEF CalmKept
  <2>. QED BY <2>1, <2>2
<1>. QED BY <1>1, <1>2, <1>3, <1>4, <1>5 DEF Next, PInv

(* After installations, updates and removals that run one after the other, and
   whose steps succeed, the rows say under each name what pip was last asked to
   do with it, however the names fall together and whatever pip changes for the
   sake of dependencies or before it fails. *)
THEOREM RowsTellTheDisk == Spec => []RowsMatchDisk
<1>1. PInv => RowsMatchDisk
  <2>. SUFFICES ASSUME PInv, calm, Quiet PROVE RowsMatchDisk
    BY DEF RowsMatchDisk, InstalledIsTracked, RemovedIsNotReady
  <2>1. Fits(Idle, There, rows, told)
    BY DEF PInv, CalmKept, Quiet
  <2>2. (\A p : ~Due(Idle, p)) /\ \A row : ~Leaving(Idle, row)
    BY DEF Due, Leaving, Idle
  <2>3. \A n \in told : n \in Names /\ There[n] = disk[Package[n]]
    BY ThereIs DEF PInv, Typed
  <2>4. \A n \in told : There[n] # None => Matching(n, There[n]) # {}
    BY <2>1, <2>2 DEF Fits, Tracked, Has, Matching, Of, Listed
  <2>5. \A n \in told : There[n] = None => \A i \in Of(n) : rows[i].status # "ready"
    BY <2>1, <2>2 DEF Fits, Removed, Of, Listed
  <2>. QED BY <2>3, <2>4, <2>5 DEF RowsMatchDisk, InstalledIsTracked, RemovedIsNotReady
<1>. QED BY <1>1, InitPInv, NextPInv, PTL DEF Spec

(* upsert_cache keeps the rows apart where UNIQUE does not. *)
THEOREM VersionsHaveOneRow == Spec => []OneRowPerVersion
<1>1. PInv => OneRowPerVersion
  BY DEF PInv, CalmKept, UniqueRows, OneRowPerVersion, Listed
<1>. QED BY <1>1, InitPInv, NextPInv, PTL DEF Spec
=============================================================================
