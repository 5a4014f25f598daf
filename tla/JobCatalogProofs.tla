------------------------- MODULE JobCatalogProofs -------------------------
(* For any jobs, venvs, names and requests, however their steps overlap: a
   selected venv exists, a name is taken twice only by requests that found it
   free together, and a deleted job stays deleted. *)
EXTENDS JobCatalog, TLAPS

(* A name a request writes next is free but for the row it belongs to, unless
   another request was about to write it too. *)
Fits(frame) ==
    /\ frame.at = "insert" =>
        \A i \in Rows : jobs[i].name = frame.row.name => frame.row.name \in contested
    /\ frame.at = "write" =>
        \A i \in Rows \ {frame.id} : jobs[i].name = frame.row.name => frame.row.name \in contested
    /\ frame.at \in {"make", "record"} =>
        \A v \in Venvs : venvs[v] = frame.path => frame.path \in contested
    /\ frame.at = "record" => frame.path \in dirs

ClaimsFit == \A r \in Requests : Fits(req[r])

ClaimsDiffer ==
    \A r, q \in Requests : r # q => Claim(req[r]) \cap Claim(req[q]) \subseteq contested

IInv == TypeOK /\ SelectedVenvsExist /\ NothingTakenTwice /\ ClaimsFit /\ ClaimsDiffer

-----------------------------------------------------------------------------
(* The forms of a frame, by where its request is *)
LEMMA Frames ==
    ASSUME NEW frame \in Frame
    PROVE  /\ frame.at \in {"check", "insert"} =>
               frame \in [at : {"check", "insert"}, row : Row] /\ frame.row \in Row
           /\ frame.at \in {"rename", "write"} =>
               /\ frame \in [at : {"rename", "write"}, id : Ids, row : Row]
               /\ frame.id \in Ids /\ frame.row \in Row
           /\ frame.at = "toggle" => frame.id \in Ids
           /\ frame.at \in {"make", "record"} =>
               frame \in [at : {"make", "record"}, path : VenvNames] /\ frame.path \in VenvNames
BY DEF Frame

LEMMA IdleFits == Idle \in Frame /\ Fits(Idle) /\ Claim(Idle) = {}
BY DEF Idle, Frame, Fits, Claim

LEMMA ClaimsAreNames ==
    ASSUME NEW frame \in Frame
    PROVE  Claim(frame) \subseteq Names \cup VenvNames
<1>1. CASE frame.at \in {"insert", "write"}
  BY <1>1, Frames DEF Claim, Row
<1>2. CASE frame.at \in {"make", "record"}
  BY <1>2, Frames DEF Claim
<1>3. CASE frame.at \notin {"insert", "write", "make", "record"}
  BY <1>3 DEF Claim
<1> QED
  BY <1>1, <1>2, <1>3

(* Whatever step a request takes, names that two claim are contested. *)
LEMMA Moving ==
    ASSUME TypeOK, ClaimsDiffer, NEW r \in Requests, NEW frame \in Frame, Goto(r, frame)
    PROVE  /\ req' \in [Requests -> Frame]
           /\ req'[r] = frame /\ \A q \in Requests \ {r} : req'[q] = req[q]
           /\ contested \subseteq contested' /\ contested' \subseteq Names \cup VenvNames
           /\ \A q \in Requests \ {r} : Claim(frame) \cap Claim(req[q]) \subseteq contested'
           /\ ClaimsDiffer'
<1>1. /\ req' \in [Requests -> Frame]
      /\ req'[r] = frame /\ \A q \in Requests \ {r} : req'[q] = req[q]
  BY DEF Goto, TypeOK
<1>2. contested \subseteq contested' /\ contested' \subseteq Names \cup VenvNames
  BY ClaimsAreNames DEF Goto, TypeOK
<1>3. \A q \in Requests \ {r} : Claim(frame) \cap Claim(req[q]) \subseteq contested'
  BY DEF Goto
<1>4. ClaimsDiffer'
  <2> SUFFICES ASSUME NEW p \in Requests, NEW q \in Requests, p # q
               PROVE  Claim(req'[p]) \cap Claim(req'[q]) \subseteq contested'
    BY DEF ClaimsDiffer, Claim
  <2>1. CASE p = r
    BY <2>1, <1>1, <1>3
  <2>2. CASE q = r
    BY <2>2, <1>1, <1>3
  <2>3. CASE p # r /\ q # r
    BY <2>3, <1>1, <1>2 DEF ClaimsDiffer
  <2> QED
    BY <2>1, <2>2, <2>3
<1> QED
  BY <1>1, <1>2, <1>3, <1>4

(* A step that only moves a request on *)
LEMMA MovingOnly ==
    ASSUME IInv, NEW r \in Requests, NEW frame \in Frame, Fits(frame), Goto(r, frame), Stay
    PROVE  IInv'
<1>0. TypeOK /\ ClaimsDiffer
  BY DEF IInv
<1> USE <1>0, Moving DEF Stay
<1>1. TypeOK'
  BY DEF TypeOK
<1>2. Rows' = Rows
  BY DEF Rows
<1>3. SelectedVenvsExist'
  BY <1>2 DEF IInv, SelectedVenvsExist, SelectionsExist, RecordedVenvsExist, Selectable
<1>4. NothingTakenTwice'
  BY <1>2 DEF IInv, NothingTakenTwice, NamesDiffer, PathsDiffer
<1>5. ClaimsFit'
  <2> SUFFICES ASSUME NEW q \in Requests PROVE Fits(req[q])'
    BY DEF ClaimsFit
  <2>1. Fits(req'[q])
    BY DEF IInv, ClaimsFit
  <2> QED
    BY <1>2, <2>1 DEF Fits
<1> QED
  BY <1>1, <1>3, <1>4, <1>5 DEF IInv

-----------------------------------------------------------------------------
(* Every look at the catalog leads to a frame that fits it. *)
LEMMA ReadingFits ==
    ASSUME IInv, NEW r \in Requests, NEW i \in Rows, NEW c \in Change, ReadRow(r, i, c), Stay
    PROVE  IInv'
<1> DEFINE frame == [at |-> IF c.name \in {Keep, jobs[i].name} THEN "write" ELSE "rename",
                     id |-> i, row |-> Applied(c, jobs[i])]
<1>1. i \in Ids /\ jobs[i] \in Row
  BY DEF IInv, TypeOK, Rows
<1>2. Applied(c, jobs[i]) \in Row
  BY <1>1 DEF Applied, Named, Row, Change
<1>3. frame \in Frame
  BY <1>1, <1>2 DEF Frame
<1>4. Fits(frame)
  <2>1. frame.at = "write" => frame.row.name = jobs[i].name
    BY DEF Applied, Named
  <2>2. \A j \in Rows \ {i} : jobs[j].name = jobs[i].name => jobs[i].name \in contested
    BY DEF IInv, NothingTakenTwice, NamesDiffer
  <2> QED
    BY <2>1, <2>2 DEF Fits
<1>5. Goto(r, frame)
  BY DEF ReadRow
<1> QED
  BY <1>3, <1>4, <1>5, MovingOnly

LEMMA ReadingSteps ==
    ASSUME IInv, NEW r \in Requests,
           \/ \E name \in Names, v \in Venvs \cup {None} : Create(r, name, v)
           \/ \E i \in Ids, name \in Names : Clone(r, i, name)
           \/ CheckName(r) \/ \E i \in Ids, c \in Updates : Update(r, i, c)
           \/ CheckRename(r) \/ \E i \in Ids : Toggle(r, i)
           \/ ToggleUpdate(r) \/ \E name \in VenvNames : CheckVenv(r, name)
           \/ RequestFails(r)
    PROVE  IInv'
<1>0. req[r] \in Frame
  BY DEF IInv, TypeOK
<1>1. ASSUME NEW name \in Names, NEW v \in Venvs \cup {None}, Create(r, name, v)
      PROVE  IInv'
  <2> DEFINE frame == [at |-> "check", row |-> [name |-> name, venv |-> v]]
  <2>1. frame \in Frame /\ Fits(frame)
    BY DEF Frame, Row, Fits
  <2> QED
    BY <1>1, <2>1, MovingOnly DEF Create
<1>2. ASSUME NEW i \in Ids, NEW name \in Names, Clone(r, i, name)
      PROVE  IInv'
  <2> DEFINE frame == [at |-> "check", row |-> [jobs[i] EXCEPT !.name = name]]
  <2>1. jobs[i] \in Row
    BY <1>2 DEF Clone, IInv, TypeOK, Rows
  <2>2. frame \in Frame /\ Fits(frame)
    BY <2>1 DEF Frame, Row, Fits
  <2> QED
    BY <1>2, <2>2, MovingOnly DEF Clone
<1>3. ASSUME CheckName(r)
      PROVE  IInv'
  <2>1. CASE NameExists(req[r].row.name, Ids)
    BY <1>3, <2>1, IdleFits, MovingOnly DEF CheckName
  <2>2. CASE ~NameExists(req[r].row.name, Ids)
    <3> DEFINE frame == [req[r] EXCEPT !.at = "insert"]
    <3>1. req[r] \in [at : {"check", "insert"}, row : Row]
      BY <1>0, <1>3, Frames DEF CheckName
    <3>2. frame \in [at : {"check", "insert"}, row : Row] /\ frame.at = "insert"
          /\ frame.row = req[r].row
      BY <3>1
    <3>3. frame \in Frame /\ Fits(frame)
      BY <2>2, <3>2 DEF Frame, Fits, NameExists, Rows
    <3> QED
      BY <1>3, <2>2, <3>3, MovingOnly DEF CheckName
  <2> QED
    BY <2>1, <2>2
<1>4. ASSUME NEW i \in Ids, NEW c \in Updates, Update(r, i, c)
      PROVE  IInv'
  <2>1. i \in Rows /\ c \in Change /\ ReadRow(r, i, c) /\ Stay
    BY <1>4, CatalogAssumption DEF Update
  <2> QED
    BY <2>1, ReadingFits
<1>5. ASSUME CheckRename(r)
      PROVE  IInv'
  <2>1. CASE NameExists(req[r].row.name, Ids \ {req[r].id})
    BY <1>5, <2>1, IdleFits, MovingOnly DEF CheckRename
  <2>2. CASE ~NameExists(req[r].row.name, Ids \ {req[r].id})
    <3> DEFINE frame == [req[r] EXCEPT !.at = "write"]
    <3>1. req[r] \in [at : {"rename", "write"}, id : Ids, row : Row]
      BY <1>0, <1>5, Frames DEF CheckRename
    <3>2. frame \in [at : {"rename", "write"}, id : Ids, row : Row] /\ frame.at = "write"
          /\ frame.row = req[r].row /\ frame.id = req[r].id
      BY <3>1
    <3>3. frame \in Frame /\ Fits(frame)
      BY <2>2, <3>2 DEF Frame, Fits, NameExists, Rows
    <3> QED
      BY <1>5, <2>2, <3>3, MovingOnly DEF CheckRename
  <2> QED
    BY <2>1, <2>2
<1>6. ASSUME NEW i \in Ids, Toggle(r, i)
      PROVE  IInv'
  <2> DEFINE frame == [at |-> "toggle", id |-> i]
  <2>1. frame \in Frame /\ Fits(frame)
    BY DEF Frame, Fits
  <2> QED
    BY <1>6, <2>1, MovingOnly DEF Toggle
<1>7. ASSUME ToggleUpdate(r)
      PROVE  IInv'
  <2>1. Blank \in Change
    BY DEF Blank, Change
  <2> QED
    BY <1>7, <2>1, ReadingFits DEF ToggleUpdate
<1>8. ASSUME NEW name \in VenvNames, CheckVenv(r, name)
      PROVE  IInv'
  <2> DEFINE frame == [at |-> "make", path |-> name]
  <2>1. \A v \in Venvs : venvs[v] # name
    BY <1>8, CatalogAssumption DEF CheckVenv, IInv, SelectedVenvsExist, RecordedVenvsExist
  <2>2. frame \in Frame /\ Fits(frame)
    BY <2>1 DEF Frame, Fits
  <2> QED
    BY <1>8, <2>2, MovingOnly DEF CheckVenv
<1>9. ASSUME RequestFails(r)
      PROVE  IInv'
  BY <1>9, IdleFits, MovingOnly DEF RequestFails
<1> QED
  BY <1>1, <1>2, <1>3, <1>4, <1>5, <1>6, <1>7, <1>8, <1>9

-----------------------------------------------------------------------------
(* A row is inserted or written whole: its name was free, or is contested. *)
LEMMA RowIsPut ==
    ASSUME IInv, NEW r \in Requests, NEW i \in Ids,
           \/ req[r].at = "insert" /\ jobs[i] = Unused
           \/ req[r].at = "write" /\ req[r].id = i,
           Selectable(req[r].row.venv),
           jobs' = [jobs EXCEPT ![i] = req[r].row],
           Goto(r, Idle), UNCHANGED <<venvs, dirs, unused>>
    PROVE  IInv'
<1> DEFINE row == req[r].row
<1>0. TypeOK /\ ClaimsDiffer /\ Idle \in Frame
  BY IdleFits DEF IInv
<1>1. row \in Row /\ req[r] \in Frame
  BY <1>0, Frames DEF TypeOK
<1>2. /\ req' \in [Requests -> Frame]
      /\ req'[r] = Idle /\ \A q \in Requests \ {r} : req'[q] = req[q]
      /\ contested \subseteq contested' /\ contested' \subseteq Names \cup VenvNames
      /\ ClaimsDiffer'
  BY <1>0, Moving
<1>3. TypeOK'
  BY <1>0, <1>1, <1>2 DEF TypeOK
<1>4. /\ Rows' = Rows \cup {i} /\ jobs'[i] = row
      /\ \A j \in Ids \ {i} : jobs'[j] = jobs[j]
  BY <1>0, <1>1, CatalogAssumption DEF TypeOK, Rows
<1>5. SelectedVenvsExist'
  BY <1>4 DEF Rows, IInv, SelectedVenvsExist, SelectionsExist, RecordedVenvsExist, Selectable
<1>6. \A j \in Rows \ {i} : jobs[j].name = row.name => row.name \in contested
  <2>1. Fits(req[r])
    BY DEF IInv, ClaimsFit
  <2> QED
    BY <2>1 DEF Fits
<1>7. NamesDiffer'
  <2> SUFFICES ASSUME NEW j \in Rows', NEW k \in Rows', j # k, jobs'[j].name = jobs'[k].name
               PROVE  jobs'[j].name \in contested'
    BY DEF NamesDiffer
  <2>1. CASE j = i
    BY <2>1, <1>2, <1>4, <1>6 DEF Rows
  <2>2. CASE k = i
    BY <2>2, <1>2, <1>4, <1>6 DEF Rows
  <2>3. CASE j # i /\ k # i
    BY <2>3, <1>2, <1>4 DEF Rows, IInv, NothingTakenTwice, NamesDiffer
  <2> QED
    BY <2>1, <2>2, <2>3
<1>8. PathsDiffer'
  BY <1>2 DEF IInv, NothingTakenTwice, PathsDiffer
<1>9. ClaimsFit'
  <2> SUFFICES ASSUME NEW q \in Requests PROVE Fits(req[q])'
    BY DEF ClaimsFit
  <2>1. CASE q = r
    BY <2>1, <1>2 DEF Fits, Idle
  <2>2. CASE q # r
    <3>1. Fits(req[q]) /\ req'[q] = req[q]
      BY <2>2, <1>2 DEF IInv, ClaimsFit
    <3>2. req[q].at \in {"insert", "write"} /\ row.name = req[q].row.name => row.name \in contested'
      BY <2>2, <1>2 DEF IInv, ClaimsDiffer, Claim
    <3>3. /\ req[q].at = "insert" =>
               \A j \in Rows' : jobs'[j].name = req[q].row.name => req[q].row.name \in contested'
          /\ req[q].at = "write" =>
               \A j \in Rows' \ {req[q].id} :
                   jobs'[j].name = req[q].row.name => req[q].row.name \in contested'
      BY <3>1, <3>2, <1>2, <1>4 DEF Fits, Rows
    <3> QED
      BY <3>1, <3>3, <1>2 DEF Fits
  <2> QED
    BY <2>1, <2>2
<1> QED
  BY <1>2, <1>3, <1>5, <1>7, <1>8, <1>9 DEF IInv, NothingTakenTwice

(* A venv is made before it is recorded, and both names it as it was free. *)
LEMMA VenvSteps ==
    ASSUME IInv, NEW r \in Requests, MakeVenv(r) \/ RecordVenv(r)
    PROVE  IInv'
<1>0. TypeOK /\ ClaimsDiffer /\ req[r] \in Frame /\ Fits(req[r])
  BY DEF IInv, TypeOK, ClaimsFit
<1>1. ASSUME MakeVenv(r)
      PROVE  IInv'
  <2> DEFINE frame == [req[r] EXCEPT !.at = "record"]
  <2>1. req[r] \in [at : {"make", "record"}, path : VenvNames] /\ req[r].path \in VenvNames
    BY <1>0, <1>1, Frames DEF MakeVenv
  <2>2. /\ frame \in [at : {"make", "record"}, path : VenvNames]
        /\ frame.at = "record" /\ frame.path = req[r].path
    BY <2>1
  <2>3. frame \in Frame /\ Goto(r, frame)
    BY <1>1, <2>2 DEF Frame, MakeVenv
  <2>4. /\ req' \in [Requests -> Frame]
        /\ req'[r] = frame /\ \A q \in Requests \ {r} : req'[q] = req[q]
        /\ contested \subseteq contested' /\ contested' \subseteq Names \cup VenvNames
        /\ ClaimsDiffer'
    BY <1>0, <2>3, Moving
  <2>5. dirs' = dirs \cup {req[r].path} /\ UNCHANGED <<jobs, venvs, unused>> /\ Rows' = Rows
    BY <1>1 DEF MakeVenv, Rows
  <2>6. TypeOK'
    BY <1>0, <2>1, <2>4, <2>5 DEF TypeOK
  <2>7. SelectedVenvsExist' /\ NothingTakenTwice'
    BY <2>4, <2>5 DEF IInv, SelectedVenvsExist, SelectionsExist, RecordedVenvsExist, Selectable,
                      NothingTakenTwice, NamesDiffer, PathsDiffer
  <2>8. ClaimsFit'
    <3> SUFFICES ASSUME NEW q \in Requests PROVE Fits(req[q])'
      BY DEF ClaimsFit
    <3>1. CASE q = r
      BY <3>1, <1>0, <1>1, <2>2, <2>4, <2>5 DEF Fits, MakeVenv
    <3>2. CASE q # r
      BY <3>2, <2>4, <2>5 DEF IInv, ClaimsFit, Fits
    <3> QED
      BY <3>1, <3>2
  <2> QED
    BY <2>4, <2>6, <2>7, <2>8 DEF IInv
<1>2. ASSUME RecordVenv(r)
      PROVE  IInv'
  <2> DEFINE path == req[r].path
  <2>1. PICK v \in unused : /\ venvs' = [venvs EXCEPT ![v] = path]
                            /\ unused' = unused \ {v}
    BY <1>2 DEF RecordVenv
  <2>2. /\ req[r].at = "record" /\ path \in VenvNames /\ path \in dirs
        /\ \A w \in Venvs : venvs[w] = path => path \in contested
    BY <1>0, <1>2, Frames DEF RecordVenv, Fits
  <2>3. /\ req' \in [Requests -> Frame]
        /\ req'[r] = Idle /\ \A q \in Requests \ {r} : req'[q] = req[q]
        /\ contested \subseteq contested' /\ contested' \subseteq Names \cup VenvNames
        /\ ClaimsDiffer'
    BY <1>0, <1>2, IdleFits, Moving DEF RecordVenv
  <2>4. /\ UNCHANGED <<jobs, dirs>> /\ Rows' = Rows
        /\ v \in Venvs /\ venvs[v] = None /\ venvs'[v] = path
        /\ \A w \in Venvs \ {v} : venvs'[w] = venvs[w]
    BY <1>0, <1>2, <2>1 DEF RecordVenv, TypeOK, Rows
  <2>5. TypeOK'
    BY <1>0, <2>1, <2>2, <2>3, <2>4 DEF TypeOK
  <2>6. SelectedVenvsExist'
    BY <2>2, <2>4, CatalogAssumption
    DEF IInv, TypeOK, Rows, Row, SelectedVenvsExist, SelectionsExist, RecordedVenvsExist, Selectable
  <2>7. NamesDiffer'
    BY <2>3, <2>4 DEF IInv, NothingTakenTwice, NamesDiffer
  <2>8. PathsDiffer'
    BY <2>2, <2>3, <2>4 DEF IInv, NothingTakenTwice, PathsDiffer
  <2>9. ClaimsFit'
    <3> SUFFICES ASSUME NEW q \in Requests PROVE Fits(req[q])'
      BY DEF ClaimsFit
    <3>1. CASE q = r
      BY <3>1, <2>3 DEF Fits, Idle
    <3>2. CASE q # r
      <4>1. Fits(req[q]) /\ req'[q] = req[q]
        BY <3>2, <2>3 DEF IInv, ClaimsFit
      <4>2. req[q].at \in {"make", "record"} /\ req[q].path = path => path \in contested'
        BY <3>2, <2>2, <2>3 DEF IInv, ClaimsDiffer, Claim
      <4> QED
        BY <4>1, <4>2, <2>3, <2>4 DEF Fits
    <3> QED
      BY <3>1, <3>2
  <2> QED
    BY <2>3, <2>5, <2>6, <2>7, <2>8, <2>9 DEF IInv, NothingTakenTwice
<1> QED
  BY <1>1, <1>2

(* Deleting only frees names and selections. *)
LEMMA Deletions ==
    ASSUME IInv, \/ \E gone \in SUBSET Ids : DeleteJobs(gone)
                 \/ \E v \in Venvs : DeleteVenv(v)
    PROVE  IInv'
<1>0. TypeOK
  BY DEF IInv
<1>1. ASSUME NEW gone \in SUBSET Ids, DeleteJobs(gone)
      PROVE  IInv'
  <2>1. /\ Rows' = Rows \ gone /\ \A i \in Rows' : jobs'[i] = jobs[i]
        /\ UNCHANGED <<venvs, dirs, unused, req, contested>>
    BY <1>1 DEF DeleteJobs, Rows
  <2>2. TypeOK'
    BY <1>0, <1>1 DEF DeleteJobs, TypeOK
  <2>3. SelectedVenvsExist' /\ NothingTakenTwice'
    BY <2>1 DEF IInv, SelectedVenvsExist, SelectionsExist, RecordedVenvsExist, Selectable,
                NothingTakenTwice, NamesDiffer, PathsDiffer, Rows
  <2>4. ClaimsFit' /\ ClaimsDiffer'
    BY <2>1 DEF IInv, ClaimsFit, Fits, ClaimsDiffer, Claim, Rows
  <2> QED
    BY <2>2, <2>3, <2>4 DEF IInv
<1>2. ASSUME NEW v \in Venvs, DeleteVenv(v)
      PROVE  IInv'
  <2>1. \A i \in Rows : jobs[i] \in Row
    BY <1>0 DEF TypeOK, Rows
  <2>2. \A i \in Rows : jobs'[i] \in Row /\ jobs'[i].name = jobs[i].name
                      /\ jobs'[i].venv \in {jobs[i].venv, None} \ {v}
    BY <1>2, <2>1, CatalogAssumption DEF DeleteVenv, Rows, Row
  <2>3. \A i \in Ids \ Rows : jobs'[i] = jobs[i]
    BY <1>2 DEF DeleteVenv
  <2>4. Rows' = Rows
    BY <2>2, <2>3, CatalogAssumption DEF Rows
  <2>5. /\ \A w \in Venvs \ {v} : venvs'[w] = venvs[w]
        /\ venvs'[v] = None /\ UNCHANGED <<dirs, unused, req, contested>>
    BY <1>0, <1>2 DEF DeleteVenv, TypeOK
  <2>6. TypeOK'
    <3>1. jobs' \in [Ids -> Row \cup {Unused, Deleted}]
      BY <1>0, <1>2, <2>2, <2>3 DEF DeleteVenv, TypeOK, Rows
    <3> QED
      BY <1>0, <1>2, <3>1, <2>5 DEF DeleteVenv, TypeOK
  <2>7. SelectedVenvsExist'
    BY <2>1, <2>2, <2>4, <2>5 DEF IInv, SelectedVenvsExist, SelectionsExist, RecordedVenvsExist,
                                  Selectable, Row, Rows
  <2>8. NothingTakenTwice'
    BY <2>2, <2>4, <2>5 DEF IInv, NothingTakenTwice, NamesDiffer, PathsDiffer, Rows
  <2>9. ClaimsFit' /\ ClaimsDiffer'
    <3>1. \A q \in Requests : req[q].at \in {"make", "record"} => req[q].path # None
      BY <1>0, Frames, CatalogAssumption DEF TypeOK
    <3>2. ClaimsFit'
      BY <3>1, <2>2, <2>4, <2>5 DEF IInv, ClaimsFit, Fits, Rows
    <3> QED
      BY <3>2, <2>5 DEF IInv, ClaimsDiffer, Claim
  <2> QED
    BY <2>6, <2>7, <2>8, <2>9 DEF IInv
<1> QED
  BY <1>1, <1>2

LEMMA Initially == Init => IInv
<1> SUFFICES ASSUME Init PROVE IInv
  OBVIOUS
<1>1. Rows = {} /\ \A r \in Requests : req[r] = Idle
  BY DEF Init, Rows
<1>2. TypeOK
  BY IdleFits DEF Init, TypeOK
<1>3. SelectedVenvsExist /\ NothingTakenTwice
  BY <1>1 DEF Init, SelectedVenvsExist, SelectionsExist, RecordedVenvsExist,
              NothingTakenTwice, NamesDiffer, PathsDiffer
<1>4. ClaimsFit /\ ClaimsDiffer
  BY <1>1, IdleFits DEF ClaimsFit, ClaimsDiffer
<1> QED
  BY <1>2, <1>3, <1>4 DEF IInv

LEMMA Kept == IInv /\ [Next]_vars => IInv'
<1> SUFFICES ASSUME IInv, [Next]_vars PROVE IInv'
  OBVIOUS
<1>1. ASSUME NEW r \in Requests, Request(r)
      PROVE  IInv'
  <2>0. req[r] \in Frame
    BY DEF IInv, TypeOK
  <2>1. CASE Insert(r)
    <3>1. PICK i \in Ids : jobs[i] = Unused /\ jobs' = [jobs EXCEPT ![i] = req[r].row]
      BY <2>1 DEF Insert
    <3> QED
      BY <2>1, <3>1, RowIsPut DEF Insert
  <2>2. CASE Write(r)
    <3>1. req[r].id \in Ids
      BY <2>0, <2>2, Frames DEF Write
    <3> QED
      BY <2>2, <3>1, RowIsPut DEF Write
  <2>3. CASE MakeVenv(r) \/ RecordVenv(r)
    BY <2>3, VenvSteps
  <2>4. CASE ~(Insert(r) \/ Write(r) \/ MakeVenv(r) \/ RecordVenv(r))
    BY <1>1, <2>4, ReadingSteps DEF Request
  <2> QED
    BY <2>1, <2>2, <2>3, <2>4
<1>2. CASE (\E gone \in SUBSET Ids : DeleteJobs(gone)) \/ \E v \in Venvs : DeleteVenv(v)
  BY <1>2, Deletions
<1>3. CASE UNCHANGED vars
  <2>1. UNCHANGED <<jobs, venvs, dirs, unused, req, contested>>
    BY <1>3 DEF vars
  <2> QED
    BY <2>1 DEF IInv, TypeOK, SelectedVenvsExist, SelectionsExist, RecordedVenvsExist, Selectable,
                NothingTakenTwice, NamesDiffer, PathsDiffer, ClaimsFit, Fits, ClaimsDiffer, Claim, Rows
<1> QED
  BY <1>1, <1>2, <1>3 DEF Next

(* The invariant holds throughout. *)
THEOREM Invariance == Spec => []IInv
BY Initially, Kept, PTL DEF Spec

-----------------------------------------------------------------------------
(* The variables keep their types. *)
THEOREM TypeCorrect == Spec => []TypeOK
<1>1. IInv => TypeOK
  BY DEF IInv
<1> QED
  BY Invariance, <1>1, PTL

(* A job's venv exists, in the table and on disk, whatever updates and
   deletions of venvs overlap. *)
THEOREM VenvsExist == Spec => []SelectedVenvsExist
<1>1. IInv => SelectedVenvsExist
  BY DEF IInv
<1> QED
  BY Invariance, <1>1, PTL

(* Two jobs share a name, or two venvs a directory, only if two requests were
   about to write it at once. *)
THEOREM TakenOnce == Spec => []NothingTakenTwice
<1>1. IInv => NothingTakenTwice
  BY DEF IInv
<1> QED
  BY Invariance, <1>1, PTL

(* No write, toggle or deletion of a venv brings back a deleted job. *)
THEOREM DeletedForGood == Spec => JobsStayDeleted
<1> DEFINE StaysDeleted == \A i \in Ids : jobs[i] = Deleted => jobs'[i] = Deleted
<1>1. IInv /\ [Next]_vars => [StaysDeleted]_vars
  <2> SUFFICES ASSUME IInv, Next, NEW i \in Ids, jobs[i] = Deleted
               PROVE  jobs'[i] = Deleted
    OBVIOUS
  <2>1. jobs \in [Ids -> Row \cup {Unused, Deleted}] /\ i \notin Rows
    BY DEF IInv, TypeOK, Rows
  <2>2. ASSUME NEW r \in Requests, Insert(r) \/ Write(r)
        PROVE  jobs'[i] = Deleted
    BY <2>1, <2>2, CatalogAssumption DEF Insert, Write
  <2>3. ASSUME NEW r \in Requests, Request(r), ~(Insert(r) \/ Write(r))
        PROVE  jobs' = jobs
    BY <2>3 DEF Request, Create, Clone, CheckName, Update, CheckRename, Toggle, ToggleUpdate,
                CheckVenv, MakeVenv, RecordVenv, RequestFails, Stay
  <2>4. ASSUME \/ \E gone \in SUBSET Ids : DeleteJobs(gone)
               \/ \E v \in Venvs : DeleteVenv(v)
        PROVE  jobs'[i] = Deleted
    BY <2>1, <2>4 DEF DeleteJobs, DeleteVenv
  <2> QED
    BY <2>2, <2>3, <2>4 DEF Next
<1> QED
  BY Invariance, <1>1, PTL DEF Spec, JobsStayDeleted
=============================================================================
