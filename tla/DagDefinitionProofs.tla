----------------------- MODULE DagDefinitionProofs -----------------------
(* The definition of a DAG: how the service validates its edges, and what
   overlapping requests do to what was validated.

   Kahn's algorithm decides cycles, for every finite graph.  No induction over
   the graph is needed: that a set of nodes closed under going upstream is
   never entered is itself an invariant of the loop. *)
EXTENDS DagValidation, DagService, FiniteSetTheorems, TLAPS

(* The edges into n that in_degree[n] still counts. *)
Pending(n) == {e \in graph : e.downstream = n /\ level[e.upstream] = 0}

Counts ==
    \A n \in Nodes(graph) : in_degree[n] = Cardinality(Pending(n))

(* queue and next are exactly the unsorted nodes with nothing left to wait for *)
Frontier ==
    /\ queue \cap next = {}
    /\ \A n \in Nodes(graph) :
        n \in queue \cup next <=> level[n] = 0 /\ Pending(n) = {}

SortedHaveNoPending ==
    \A n \in Nodes(graph) : level[n] # 0 => Pending(n) = {}

Levels ==
    /\ \A n \in Nodes(graph) : level[n] <= depth
    /\ \A n \in queue : \A u \in Upstreams(graph, n) : level[u] < depth
    /\ \A n \in queue : depth > 1 => \E u \in Upstreams(graph, n) : level[u] = depth - 1
    /\ \A n \in next : \E u \in Upstreams(graph, n) : level[u] = depth

CyclesUntouched ==
    \A S \in SUBSET Nodes(graph) :
        ClosedUpstream(graph, S) => \A n \in S : level[n] = 0

KahnInv == /\ KahnTypeOK /\ Counts /\ Frontier /\ SortedHaveNoPending
        /\ Levels /\ LevelsRespectEdges /\ LevelsAreTight /\ CyclesUntouched

-----------------------------------------------------------------------------
LEMMA EndsAreNodes ==
    \A e \in graph : e.upstream \in Nodes(graph) /\ e.downstream \in Nodes(graph)
BY DEF Nodes

LEMMA FiniteNodes ==
    ASSUME NEW es, IsFiniteSet(es) PROVE IsFiniteSet(Nodes(es))
<1> DEFINE U == {e.upstream : e \in es}
           D == {e.downstream : e \in es}
           up == [e \in es |-> e.upstream]
           down == [e \in es |-> e.downstream]
<1>1. up \in Surjection(es, U) /\ down \in Surjection(es, D)
  BY DEF Surjection
<1>2. IsFiniteSet(U) /\ IsFiniteSet(D)
  BY <1>1, FS_Surjection
<1>3. IsFiniteSet(U \cup D)
  BY <1>2, FS_Union
<1>. QED BY <1>3 DEF Nodes

(* A count of zero and an empty set of pending edges are the same thing. *)
LEMMA CountZero ==
    ASSUME IsFiniteSet(graph), NEW n
    PROVE  /\ IsFiniteSet(Pending(n)) /\ Cardinality(Pending(n)) \in Nat
           /\ Cardinality(Pending(n)) = 0 <=> Pending(n) = {}
<1>1. Pending(n) \in SUBSET graph
  BY DEF Pending
<1>2. IsFiniteSet(Pending(n))
  BY <1>1, FS_Subset
<1>. QED BY <1>2, FS_CardinalityType, FS_EmptySet

THEOREM InitKahnInv == KahnInit => KahnInv
<1> SUFFICES ASSUME KahnInit PROVE KahnInv
  OBVIOUS
<1>1. IsFiniteSet(graph) /\ Nodes(graph) \subseteq Jobs
  BY GraphsAssumption DEF KahnInit
<1>2. \A n \in Nodes(graph) : Pending(n) = Into({n})
  BY EndsAreNodes DEF KahnInit, Pending, Into
<1>3. Counts
  BY <1>2 DEF KahnInit, Counts
<1>4. \A n \in Nodes(graph) : in_degree[n] \in Nat /\ (in_degree[n] = 0 <=> Pending(n) = {})
  BY <1>1, <1>3, CountZero DEF Counts
<1>5. KahnTypeOK
  <2>1. in_degree \in [Nodes(graph) -> Nat]
    BY <1>4 DEF KahnInit
  <2>. QED BY <1>1, <2>1 DEF KahnInit, KahnTypeOK
<1>6. Frontier
  BY <1>4 DEF KahnInit, Frontier
<1>7. SortedHaveNoPending /\ LevelsRespectEdges /\ LevelsAreTight /\ CyclesUntouched
  BY EndsAreNodes DEF KahnInit, SortedHaveNoPending, LevelsRespectEdges, LevelsAreTight,
                      CyclesUntouched
<1>8. Levels
  BY EndsAreNodes DEF KahnInit, Levels, Upstreams
<1>. QED BY <1>3, <1>5, <1>6, <1>7, <1>8 DEF KahnInv

-----------------------------------------------------------------------------
(* Popping n takes exactly the edges out of n from what is pending. *)
LEMMA PopPending ==
    ASSUME KahnInv, NEW n \in queue, Pop(n)
    PROVE  /\ n \in Nodes(graph) /\ level[n] = 0 /\ Pending(n) = {}
           /\ \A m \in Nodes(graph) :
                /\ OutOf({n}) \cap Into({m}) \subseteq Pending(m)
                /\ Pending(m)' = Pending(m) \ (OutOf({n}) \cap Into({m}))
           /\ \A m \in Nodes(graph) : level'[m] = IF m = n THEN depth ELSE level[m]
<1>1. n \in Nodes(graph) /\ level[n] = 0 /\ Pending(n) = {}
  BY DEF KahnInv, KahnTypeOK, Frontier
<1>2. \A m \in Nodes(graph) : level'[m] = IF m = n THEN depth ELSE level[m]
  BY DEF Pop, KahnInv, KahnTypeOK
<1>3. graph' = graph /\ depth # 0
  BY DEF Pop, KahnInv, KahnTypeOK
<1>. QED BY <1>1, <1>2, <1>3, EndsAreNodes DEF Pending, OutOf, Into

LEMMA PopCounts ==
    ASSUME KahnInv, NEW n \in queue, Pop(n)
    PROVE  /\ \A m \in Nodes(graph) :
                /\ in_degree'[m] = Cardinality(Pending(m)')
                /\ in_degree'[m] \in Nat
                /\ in_degree'[m] = 0 <=> Pending(m)' = {}
                /\ Dropped(n, m) > 0 <=> OutOf({n}) \cap Into({m}) # {}
<1> SUFFICES ASSUME NEW m \in Nodes(graph)
             PROVE  /\ in_degree'[m] = Cardinality(Pending(m)')
                    /\ in_degree'[m] \in Nat
                    /\ in_degree'[m] = 0 <=> Pending(m)' = {}
                    /\ Dropped(n, m) > 0 <=> OutOf({n}) \cap Into({m}) # {}
  OBVIOUS
<1> DEFINE D == OutOf({n}) \cap Into({m})
           P == Pending(m)
<1>1. D \subseteq P /\ Pending(m)' = P \ D
  BY PopPending
<1>2. IsFiniteSet(P) /\ Cardinality(P) \in Nat /\ in_degree[m] = Cardinality(P)
  BY CountZero DEF KahnInv, KahnTypeOK, Counts
<1>3. IsFiniteSet(D) /\ Cardinality(D) \in Nat /\ (Cardinality(D) = 0 <=> D = {})
  BY <1>1, <1>2, FS_Subset, FS_CardinalityType, FS_EmptySet
<1>4. IsFiniteSet(P \ D) /\ Cardinality(P \ D) = Cardinality(P) - Cardinality(P \cap D)
  BY <1>2, <1>3, FS_Difference
<1>5. P \cap D = D
  BY <1>1
<1>6. in_degree'[m] = Cardinality(P) - Cardinality(D)
  BY <1>2 DEF Pop, Dropped
<1>7. Cardinality(P \ D) \in Nat /\ (Cardinality(P \ D) = 0 <=> P \ D = {})
  BY <1>4, FS_CardinalityType, FS_EmptySet
<1>. HIDE DEF D, P
<1>8. Cardinality(P \ D) = in_degree'[m]
  BY <1>4, <1>5, <1>6
<1>9. Dropped(n, m) > 0 <=> D # {}
  BY <1>3 DEF Dropped, D
<1>. QED BY <1>1, <1>7, <1>8, <1>9 DEF D

LEMMA PopKeepsKahnInv ==
    ASSUME KahnInv, NEW n \in queue, Pop(n) PROVE KahnInv'
<1>1. graph' = graph /\ depth' = depth /\ Nodes(graph)' = Nodes(graph)
  BY DEF Pop
<1>a. /\ n \in Nodes(graph) /\ level[n] = 0 /\ Pending(n) = {} /\ depth \in Nat \ {0}
      /\ \A m \in Nodes(graph) : level'[m] = IF m = n THEN depth ELSE level[m]
      /\ \A m \in Nodes(graph) : level[m] \in Nat
  BY PopPending DEF KahnInv, KahnTypeOK
<1>b. \A m \in Nodes(graph) :
        /\ OutOf({n}) \cap Into({m}) \subseteq Pending(m)
        /\ Pending(m)' = Pending(m) \ (OutOf({n}) \cap Into({m}))
  BY PopPending
<1>c. \A m \in Nodes(graph) :
        /\ in_degree'[m] = Cardinality(Pending(m)')
        /\ in_degree'[m] \in Nat
        /\ in_degree'[m] = 0 <=> Pending(m)' = {}
        /\ Dropped(n, m) > 0 <=> OutOf({n}) \cap Into({m}) # {}
  BY PopCounts
<1> USE <1>a
<1>2. KahnTypeOK'
  BY <1>1, <1>c DEF KahnInv, KahnTypeOK, Pop
<1>3. Counts'
  BY <1>1, <1>c DEF Counts
<1>4. Frontier'
  <2>1. \A m \in Nodes(graph) :
          m \in next' <=> m \in next \/ (Pending(m) # {} /\ Pending(m)' = {})
    BY <1>1, <1>b, <1>c DEF Pop, KahnInv, KahnTypeOK
  <2>2. \A m \in Nodes(graph) : m \in queue' <=> m \in queue /\ m # n
    BY DEF Pop
  <2>3. next' \subseteq Nodes(graph) /\ queue' \subseteq Nodes(graph)
    BY <1>1, <1>2 DEF KahnTypeOK
  <2>4. depth # 0
    BY DEF KahnInv, KahnTypeOK
  <2>5. queue' \cap next' = {}
    BY <2>1, <2>2, <2>3 DEF KahnInv, Frontier
  <2>6. ASSUME NEW m \in Nodes(graph)
        PROVE  m \in queue' \cup next' <=> level'[m] = 0 /\ Pending(m)' = {}
    <3>1. m \in queue \cup next <=> level[m] = 0 /\ Pending(m) = {}
      BY DEF KahnInv, Frontier
    <3>2. level[m] # 0 => Pending(m) = {}
      BY DEF KahnInv, SortedHaveNoPending
    <3>3. n \notin next
      BY DEF KahnInv, Frontier
    <3>4. Pending(m) = {} => Pending(m)' = {}
      BY <1>b
    <3>. QED BY <2>1, <2>2, <2>4, <3>1, <3>2, <3>3, <3>4
  <2>. QED BY <1>1, <2>5, <2>6 DEF Frontier
<1>5. SortedHaveNoPending'
  BY <1>1, <1>b DEF KahnInv, SortedHaveNoPending
<1>6. \A u \in Upstreams(graph, n) : level[u] # 0 /\ level[u] < depth /\ u # n
  <2>1. \A u \in Upstreams(graph, n) : level[u] # 0
    BY DEF Upstreams, Pending
  <2>. QED BY <2>1 DEF KahnInv, Levels
<1>7. Levels'
  <2>1. \A m \in Nodes(graph) : level'[m] <= depth
    BY DEF KahnInv, Levels, KahnTypeOK
  <2>2. ASSUME NEW m \in queue', NEW u \in Upstreams(graph, m) PROVE level'[u] < depth
    <3>1. m \in queue /\ u \in Nodes(graph)
      BY EndsAreNodes DEF Pop, Upstreams
    <3>2. level[u] # 0 /\ level[u] < depth
      <4>1. Pending(m) = {}
        BY <3>1 DEF KahnInv, Frontier, KahnTypeOK
      <4>. QED BY <3>1, <4>1 DEF KahnInv, Levels, Upstreams, Pending
    <3>. QED BY <3>1, <3>2
  <2>3. ASSUME NEW m \in queue', depth > 1
        PROVE  \E u \in Upstreams(graph, m) : level'[u] = depth - 1
    <3>1. m \in queue
      BY DEF Pop
    <3>2. PICK u \in Upstreams(graph, m) : level[u] = depth - 1
      BY <2>3, <3>1 DEF KahnInv, Levels
    <3>3. u \in Nodes(graph) /\ level[u] # 0
      BY <2>3, <3>2, EndsAreNodes DEF Upstreams, KahnInv, KahnTypeOK
    <3>. QED BY <3>2, <3>3
  <2>4. ASSUME NEW m \in next' PROVE \E u \in Upstreams(graph, m) : level'[u] = depth
    <3>1. CASE m \in next
      <4>1. PICK u \in Upstreams(graph, m) : level[u] = depth
        BY <3>1 DEF KahnInv, Levels
      <4>2. u \in Nodes(graph)
        BY EndsAreNodes DEF Upstreams
      <4>. QED BY <4>1, <4>2
    <3>2. CASE m \notin next
      <4>1. m \in Nodes(graph) /\ OutOf({n}) \cap Into({m}) # {}
        BY <1>c, <3>2 DEF Pop
      <4>2. n \in Upstreams(graph, m)
        BY <4>1 DEF OutOf, Into, Upstreams
      <4>. QED BY <4>2
    <3>. QED BY <3>1, <3>2
  <2>. QED BY <1>1, <2>1, <2>2, <2>3, <2>4 DEF Levels
<1>8. LevelsRespectEdges'
  <2> SUFFICES ASSUME NEW e \in graph, level'[e.downstream] # 0
               PROVE  level'[e.upstream] # 0 /\ level'[e.upstream] < level'[e.downstream]
    BY <1>1 DEF LevelsRespectEdges
  <2>1. e.upstream \in Nodes(graph) /\ e.downstream \in Nodes(graph)
    BY EndsAreNodes
  <2>2. CASE e.downstream = n
    <3>1. e.upstream \in Upstreams(graph, n)
      BY <2>2 DEF Upstreams
    <3>2. level[e.upstream] # 0 /\ level[e.upstream] < depth /\ e.upstream # n
      BY <1>6, <3>1
    <3>. QED BY <2>1, <2>2, <3>2
  <2>3. CASE e.downstream # n
    <3>1. level'[e.downstream] = level[e.downstream]
      BY <2>1, <2>3
    <3>2. level[e.upstream] # 0 /\ level[e.upstream] < level[e.downstream]
      BY <3>1 DEF KahnInv, LevelsRespectEdges
    <3>. QED BY <2>1, <3>1, <3>2
  <2>. QED BY <2>2, <2>3
<1>9. LevelsAreTight'
  <2> SUFFICES ASSUME NEW m \in Nodes(graph), level'[m] > 1
               PROVE  \E u \in Upstreams(graph, m) : level'[u] = level'[m] - 1
    BY <1>1 DEF LevelsAreTight
  <2>1. PICK u \in Upstreams(graph, m) : level[u] = level'[m] - 1
    <3>1. CASE m = n
      <4>1. level'[m] = depth /\ depth > 1
        BY <3>1
      <4>. QED BY <3>1, <4>1 DEF KahnInv, Levels
    <3>2. CASE m # n
      <4>1. level'[m] = level[m] /\ level[m] > 1
        BY <3>2
      <4>. QED BY <4>1 DEF KahnInv, LevelsAreTight
    <3>. QED BY <3>1, <3>2
  <2>2. u \in Nodes(graph) /\ level[u] # 0
    <3>1. u \in Nodes(graph)
      BY EndsAreNodes DEF Upstreams
    <3>2. level'[m] \in Nat
      BY <1>1, <1>2 DEF KahnTypeOK
    <3>. QED BY <2>1, <3>1, <3>2
  <2>. QED BY <2>1, <2>2
<1>10. CyclesUntouched'
  <2>1. ASSUME NEW S \in SUBSET Nodes(graph), ClosedUpstream(graph, S)
        PROVE  \A m \in S : level'[m] = 0
    <3>1. \A m \in S : level[m] = 0
      BY <2>1 DEF KahnInv, CyclesUntouched
    <3>2. ASSUME n \in S PROVE FALSE
      <4>1. PICK u \in Upstreams(graph, n) : u \in S
        BY <2>1, <3>2 DEF ClosedUpstream
      <4>. QED BY <1>6, <3>1, <4>1
    <3>. QED BY <3>1, <3>2
  <2>2. \A S : ClosedUpstream(graph, S)' <=> ClosedUpstream(graph, S)
    BY <1>1 DEF ClosedUpstream, Upstreams
  <2>. QED BY <1>1, <2>1, <2>2 DEF CyclesUntouched
<1>. QED BY <1>2, <1>3, <1>4, <1>5, <1>7, <1>8, <1>9, <1>10 DEF KahnInv

LEMMA NextLevelKeepsKahnInv == KahnInv /\ NextLevel => KahnInv'
<1> SUFFICES ASSUME KahnInv, NextLevel PROVE KahnInv'
  OBVIOUS
<1>1. /\ graph' = graph /\ level' = level /\ in_degree' = in_degree
      /\ queue = {} /\ queue' = next /\ next' = {} /\ depth' = depth + 1
      /\ depth \in Nat \ {0}
  BY DEF NextLevel, KahnInv, KahnTypeOK
<1>2. \A n : Pending(n)' = Pending(n)
  BY <1>1 DEF Pending
<1>3. KahnTypeOK' /\ Counts' /\ SortedHaveNoPending' /\ LevelsRespectEdges' /\ LevelsAreTight'
  BY <1>1, <1>2 DEF KahnInv, KahnTypeOK, Counts, SortedHaveNoPending,
                    LevelsRespectEdges, LevelsAreTight
<1>4. Frontier' /\ CyclesUntouched'
  BY <1>1, <1>2 DEF KahnInv, Frontier, CyclesUntouched
<1>5. Levels'
  <2>1. \A n \in Nodes(graph) : level[n] <= depth /\ level[n] \in Nat
    BY DEF KahnInv, Levels, KahnTypeOK
  <2>2. \A n : \A u \in Upstreams(graph, n) : u \in Nodes(graph)
    BY EndsAreNodes DEF Upstreams
  <2>3. \A n \in Nodes(graph) : level[n] <= depth + 1
    BY <1>1, <2>1
  <2>4. \A n : \A u \in Upstreams(graph, n) : level[u] < depth + 1
    BY <1>1, <2>1, <2>2
  <2>5. \A n \in next : \E u \in Upstreams(graph, n) : level[u] = (depth + 1) - 1
    BY <1>1 DEF KahnInv, Levels
  <2>. QED BY <1>1, <2>3, <2>4, <2>5 DEF Levels
<1>. QED BY <1>3, <1>4, <1>5 DEF KahnInv

THEOREM NextKahnInv == KahnInv /\ [KahnNext]_kahn_vars => KahnInv'
<1> SUFFICES ASSUME KahnInv, [KahnNext]_kahn_vars PROVE KahnInv'
  OBVIOUS
<1>1. CASE \E n \in queue : Pop(n)
  BY <1>1, PopKeepsKahnInv
<1>2. CASE NextLevel
  BY <1>2, NextLevelKeepsKahnInv
<1>3. CASE UNCHANGED kahn_vars
  BY <1>3 DEF kahn_vars, KahnInv, KahnTypeOK, Counts, Frontier, SortedHaveNoPending, Levels,
              LevelsRespectEdges, LevelsAreTight, CyclesUntouched, Pending
<1>. QED BY <1>1, <1>2, <1>3 DEF KahnNext

-----------------------------------------------------------------------------
(* A finished loop has sorted everything exactly if there is no cycle: the
   nodes it left are closed upstream, and those of a cycle are left. *)
LEMMA KahnInvDecides == KahnInv => DecidesCycles
<1> SUFFICES ASSUME KahnInv, Done PROVE Accepted <=> ~Cyclic(graph)
  BY DEF DecidesCycles
<1>1. IsFiniteSet(Nodes(graph)) /\ Sorted \in SUBSET Nodes(graph)
  BY FiniteNodes DEF KahnInv, KahnTypeOK, Sorted
<1>2. Accepted <=> Sorted = Nodes(graph)
  BY <1>1, FS_Subset DEF Accepted
<1> DEFINE Left == Nodes(graph) \ Sorted
<1>3. ClosedUpstream(graph, Left)
  <2>1. \A n \in Left : Pending(n) # {}
    BY DEF KahnInv, Frontier, Done, Sorted
  <2>. QED BY <2>1, EndsAreNodes DEF ClosedUpstream, Pending, Upstreams, Sorted
<1>4. Left # {} => Cyclic(graph)
  BY <1>3 DEF Cyclic
<1>5. Cyclic(graph) => Left # {}
  BY DEF KahnInv, CyclesUntouched, Cyclic, Sorted
<1>. QED BY <1>1, <1>2, <1>4, <1>5

(* validate_no_cycles and topological_levels reject exactly the cyclic graphs. *)
THEOREM CyclesAreDecided == Kahn => []DecidesCycles
<1>1. Kahn => []KahnInv
  BY InitKahnInv, NextKahnInv, PTL DEF Kahn
<1>. QED BY <1>1, KahnInvDecides, PTL

(* The order and the levels they return respect the edges, and no job is put
   in a later level than its upstreams force. *)
THEOREM LevelsAreCorrect == Kahn => []LevelsAreRight
<1>1. Kahn => []KahnInv
  BY InitKahnInv, NextKahnInv, PTL DEF Kahn
<1>2. KahnInv => LevelsAreRight
  BY DEF KahnInv, LevelsAreRight
<1>. QED BY <1>1, <1>2, PTL

-----------------------------------------------------------------------------
(* The stored edges and settings, under overlapping requests: what these can
   and cannot do to them, for any number of requests, jobs and settings. *)

(* A request nobody has overtaken still sees what it read. *)
ReadsHold ==
    \A r \in Requests \ overtaken :
        /\ pc[r] = "updating" /\ ~lost => copy[r] = settings
        /\ pc[r] = "adding" => ~Cyclic(edges \cup candidate[r])

IInv == TypeOK /\ ReadsHold /\ CyclesNeedARace /\ UpdatesHold

(* Removing edges closes no cycle. *)
LEMMA CyclicMonotone ==
    ASSUME NEW es, NEW fs, es \subseteq fs, Cyclic(es) PROVE Cyclic(fs)
<1>1. Nodes(es) \subseteq Nodes(fs)
  BY DEF Nodes
<1>2. PICK S \in SUBSET Nodes(es) : S # {} /\ ClosedUpstream(es, S)
  BY DEF Cyclic
<1>3. \A n : Upstreams(es, n) \subseteq Upstreams(fs, n)
  BY DEF Upstreams
<1>4. ClosedUpstream(fs, S)
  BY <1>2, <1>3 DEF ClosedUpstream
<1>. QED BY <1>1, <1>2, <1>4 DEF Cyclic

LEMMA NoEdgesNoCycle == ~Cyclic({})
BY DEF Cyclic, Nodes

THEOREM InitIInv == Init => IInv
<1> SUFFICES ASSUME Init PROVE IInv
  OBVIOUS
<1>1. TypeOK /\ ReadsHold /\ UpdatesHold
  BY DEF Init, TypeOK, Changes, Nothing, ReadsHold, UpdatesHold
<1>2. edges \ unchecked = {}
  BY DEF Init
<1>3. CyclesNeedARace
  BY <1>2, NoEdgesNoCycle DEF CyclesNeedARace
<1>. QED BY <1>1, <1>3 DEF IInv

THEOREM NextTypeOK == TypeOK /\ [Next]_vars => TypeOK'
<1> SUFFICES ASSUME TypeOK, [Next]_vars PROVE TypeOK'
  OBVIOUS
<1> USE DEF TypeOK, Changes, Nothing
<1>1. ASSUME NEW r \in Requests, NEW c \in Changes, UpdateRead(r, c) PROVE TypeOK'
  BY <1>1 DEF UpdateRead, Start, settings_history
<1>2. ASSUME NEW r \in Requests, UpdateWrite(r) PROVE TypeOK'
  <2>1. Applied(change[r], asked) \in [Fields -> Values]
    BY DEF Applied
  <2>2. settings' \in [Fields -> Values]
    BY <1>2 DEF UpdateWrite, Finish, Applied
  <2>. QED BY <1>2, <2>1, <2>2 DEF UpdateWrite, Finish, Overtake
<1>3. ASSUME NEW r \in Requests, UpdateFails(r) PROVE TypeOK'
  BY <1>3 DEF UpdateFails, Finish, settings_history
<1>4. ASSUME NEW r \in Requests, NEW p \in Pairs, AddRead(r, p) PROVE TypeOK'
  BY <1>4 DEF AddRead, Start, settings_history
<1>5. ASSUME NEW r \in Requests, AddInsert(r) PROVE TypeOK'
  BY <1>5 DEF AddInsert, Finish, Overtake, settings_history
<1>6. ASSUME NEW r \in Requests, AddFails(r) PROVE TypeOK'
  BY <1>6 DEF AddFails, Finish, settings_history
<1>7. ASSUME NEW p \in Pairs, DeleteEdge(p) PROVE TypeOK'
  BY <1>7 DEF DeleteEdge, Keep, request_vars, settings_history
<1>8. ASSUME NEW j \in Jobs, DeleteJob(j) PROVE TypeOK'
  BY <1>8 DEF DeleteJob, Keep, request_vars, settings_history
<1>9. CASE DeleteDag
  BY <1>9 DEF DeleteDag, Keep, request_vars, settings_history
<1>10. CASE UNCHANGED vars
  BY <1>10 DEF vars, request_vars, settings_history
<1>. QED BY <1>1, <1>2, <1>3, <1>4, <1>5, <1>6, <1>7, <1>8, <1>9, <1>10 DEF Next, Request

-----------------------------------------------------------------------------
(* An INSERT nobody overtook was checked against edges that have only become
   fewer since; an overtaken one goes into unchecked. *)
LEMMA InsertKeeps ==
    ASSUME IInv, NEW r \in Requests, AddInsert(r)
    PROVE  ReadsHold' /\ CyclesNeedARace' /\ UpdatesHold'
<1>1. \A q \in Requests : pc'[q] = "adding" => q \in overtaken'
  BY DEF AddInsert, Finish, Overtake, IInv, TypeOK
<1>2. ReadsHold'
  <2>1. ASSUME NEW q \in Requests \ overtaken', pc'[q] = "updating", ~lost
        PROVE  copy'[q] = settings'
    BY <2>1 DEF AddInsert, Finish, Overtake, settings_history, IInv, ReadsHold, TypeOK
  <2>. QED BY <1>1, <2>1 DEF ReadsHold, AddInsert, settings_history
<1>3. ~Cyclic(edges' \ unchecked')
  <2>1. CASE r \in overtaken
    <3>1. edges' \ unchecked' \subseteq edges \ unchecked
      BY <2>1 DEF AddInsert
    <3>. QED BY <3>1, CyclicMonotone DEF IInv, CyclesNeedARace
  <2>2. CASE r \notin overtaken
    <3>1. ~Cyclic(edges \cup candidate[r])
      BY <2>2 DEF IInv, ReadsHold, AddInsert, Finish
    <3>2. edges' \ unchecked' \subseteq edges \cup candidate[r]
      BY DEF AddInsert
    <3>. QED BY <3>1, <3>2, CyclicMonotone
  <2>. QED BY <2>1, <2>2
<1>4. UpdatesHold'
  BY DEF AddInsert, settings_history, IInv, UpdatesHold
<1>. QED BY <1>2, <1>3, <1>4 DEF CyclesNeedARace

LEMMA DeletionKeeps ==
    ASSUME IInv, NEW es, es \subseteq edges, Keep(es)
    PROVE  ReadsHold' /\ CyclesNeedARace' /\ UpdatesHold'
<1>1. edges' \ unchecked' \subseteq edges \ unchecked
  BY DEF Keep
<1>2. CyclesNeedARace'
  BY <1>1, CyclicMonotone DEF IInv, CyclesNeedARace
<1>3. \A r \in Requests : edges' \cup candidate[r] \subseteq edges \cup candidate[r]
  BY DEF Keep
<1>4. \A r \in Requests \ overtaken : pc[r] = "adding" => ~Cyclic(edges' \cup candidate[r])
  BY <1>3, CyclicMonotone DEF IInv, ReadsHold
<1>5. ReadsHold'
  BY <1>4 DEF Keep, request_vars, settings_history, IInv, ReadsHold
<1>6. UpdatesHold'
  BY DEF Keep, settings_history, IInv, UpdatesHold
<1>. QED BY <1>2, <1>5, <1>6

LEMMA ReadKeeps ==
    ASSUME IInv, NEW r \in Requests,
           \/ \E c \in Changes : UpdateRead(r, c)
           \/ \E p \in Pairs : AddRead(r, p)
    PROVE  ReadsHold' /\ CyclesNeedARace' /\ UpdatesHold'
<1>1. CyclesNeedARace' /\ UpdatesHold'
  BY DEF UpdateRead, AddRead, Start, settings_history, IInv, CyclesNeedARace, UpdatesHold
<1>2. ASSUME NEW c \in Changes, UpdateRead(r, c) PROVE ReadsHold'
  BY <1>2 DEF UpdateRead, Start, settings_history, IInv, ReadsHold, TypeOK
<1>3. ASSUME NEW p \in Pairs, AddRead(r, p) PROVE ReadsHold'
  BY <1>3 DEF AddRead, Start, settings_history, IInv, ReadsHold, TypeOK
<1>. QED BY <1>1, <1>2, <1>3

LEMMA UpdateKeeps ==
    ASSUME IInv, NEW r \in Requests, UpdateWrite(r)
    PROVE  ReadsHold' /\ CyclesNeedARace' /\ UpdatesHold'
<1>1. CyclesNeedARace'
  BY DEF UpdateWrite, IInv, CyclesNeedARace
<1>2. UpdatesHold'
  BY DEF UpdateWrite, Finish, IInv, UpdatesHold, ReadsHold
<1>3. \A q \in Requests : pc'[q] = "updating" => q \in overtaken'
  BY DEF UpdateWrite, Finish, Overtake, IInv, TypeOK
<1>4. \A q \in Requests : pc'[q] = "adding" =>
        q # r /\ pc[q] = "adding" /\ candidate'[q] = candidate[q] /\ edges' = edges
  BY DEF UpdateWrite, Finish, IInv, TypeOK
<1>5. \A q \in Requests \ overtaken' : q # r => q \notin overtaken
  BY DEF UpdateWrite, Overtake
<1>6. ReadsHold'
  BY <1>3, <1>4, <1>5 DEF IInv, ReadsHold
<1>. QED BY <1>1, <1>2, <1>6

LEMMA FailKeeps ==
    ASSUME IInv, NEW r \in Requests, UpdateFails(r) \/ AddFails(r)
    PROVE  ReadsHold' /\ CyclesNeedARace' /\ UpdatesHold'
<1>1. CyclesNeedARace' /\ UpdatesHold'
  BY DEF UpdateFails, AddFails, settings_history, IInv, CyclesNeedARace, UpdatesHold
<1>2. ReadsHold'
  BY DEF UpdateFails, AddFails, Finish, settings_history, IInv, ReadsHold, TypeOK
<1>. QED BY <1>1, <1>2

THEOREM NextIInv == IInv /\ [Next]_vars => IInv'
<1> SUFFICES ASSUME IInv, [Next]_vars PROVE IInv'
  OBVIOUS
<1>1. TypeOK'
  BY NextTypeOK DEF IInv
<1> DEFINE Kept == ReadsHold' /\ CyclesNeedARace' /\ UpdatesHold'
<1>2. ASSUME NEW r \in Requests, Request(r) PROVE Kept
  BY <1>2, ReadKeeps, UpdateKeeps, FailKeeps, InsertKeeps DEF Request
<1>3. ASSUME NEW p \in Pairs, DeleteEdge(p) PROVE Kept
  BY <1>3, DeletionKeeps DEF DeleteEdge
<1>4. ASSUME NEW j \in Jobs, DeleteJob(j) PROVE Kept
  <2>1. {p \in edges : j \notin {p.upstream, p.downstream}} \subseteq edges
    OBVIOUS
  <2>. QED BY <1>4, <2>1, DeletionKeeps DEF DeleteJob
<1>5. CASE DeleteDag
  BY <1>1, <1>5, DeletionKeeps DEF DeleteDag, IInv
<1>6. CASE UNCHANGED vars
  BY <1>1, <1>6 DEF vars, request_vars, settings_history, IInv, ReadsHold,
                    CyclesNeedARace, UpdatesHold
<1>. QED BY <1>1, <1>2, <1>3, <1>4, <1>5, <1>6 DEF Next, IInv

-----------------------------------------------------------------------------
(* add_edge keeps a DAG acyclic except where two requests overlap. *)
THEOREM AcyclicUnlessOvertaken == Spec => []CyclesNeedARace
<1>1. Spec => []IInv
  BY InitIInv, NextIInv, PTL DEF Spec
<1>. QED BY <1>1, PTL DEF IInv

(* update_dag loses no setting except where two updates overlap. *)
THEOREM UpdatesAreKept == Spec => []UpdatesHold
<1>1. Spec => []IInv
  BY InitIInv, NextIInv, PTL DEF Spec
<1>. QED BY <1>1, PTL DEF IInv
=============================================================================
