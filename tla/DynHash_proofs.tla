---- MODULE DynHash_proofs ----
(***************************************************************************)
(* Proofs about the hash table, for every capacity, every set of keys and  *)
(* every hash function.                                                    *)
(***************************************************************************)
EXTENDS DynHash, FiniteSetTheorems, TLAPS

\* The slot a probe lands on is a slot of the table.
LEMMA ProbeInTable ==
    ASSUME NEW k \in Keys, NEW n \in Nat
    PROVE  ProbeSlot(k, n) \in Slots
  <1>1. Hash[k] \in Nat /\ Cap \in Nat /\ Cap > 0
    BY DynHashAssumption
  <1>2. n \div 2 \in Nat /\ (n * n) \div 2 \in Nat
    <2>1. n * n \in Nat
      OBVIOUS
    <2>2. \A m \in Nat : m \div 2 \in Nat
      OBVIOUS
    <2> QED
      BY <2>1, <2>2
  <1>3. ProbeOffset(n) \in Nat
    BY <1>2 DEF ProbeOffset
  <1>4. Hash[k] + ProbeOffset(n) \in Nat
    BY <1>1, <1>3
  <1>5. \A m \in Nat : m % Cap \in 0 .. Cap - 1
    BY <1>1
  <1> QED
    BY <1>4, <1>5 DEF ProbeSlot, Slots

LEMMA InitIndInv == Init => IndInv
  <1> SUFFICES ASSUME Init PROVE IndInv
    OBVIOUS
  <1>1. TypeOK
    BY DEF Init, TypeOK
  <1>2. FirstOnChain /\ AbsentNowhere
    BY DEF Init, FirstOnChain, AbsentNowhere
  <1>3. Walked /\ GetReturnsFirst
    BY DynHashAssumption DEF Init, Walked, GetReturnsFirst
  <1> QED
    BY <1>1, <1>2, <1>3 DEF IndInv

LEMMA StepIndInv == IndInv /\ [Next]_vars => IndInv'
  <1> SUFFICES ASSUME IndInv, [Next]_vars PROVE IndInv'
    OBVIOUS
  <1> USE DynHashAssumption
  <1>0. /\ TypeOK /\ FirstOnChain /\ AbsentNowhere /\ Walked
        /\ GetReturnsFirst
    BY DEF IndInv
  <1>1. CASE UNCHANGED vars
    <2>1. TypeOK' /\ Walked' /\ GetReturnsFirst'
      BY <1>0, <1>1 DEF vars, TypeOK, Walked, GetReturnsFirst, ProbeSlot
    <2>2. FirstOnChain' /\ AbsentNowhere'
      BY <1>0, <1>1 DEF vars, FirstOnChain, AbsentNowhere, ProbeSlot
    <2> QED
      BY <2>1, <2>2 DEF IndInv
  <1>2. ASSUME NEW k \in Keys, GetBegin(k) PROVE IndInv'
    <2>1. TypeOK' /\ Walked' /\ GetReturnsFirst'
      BY <1>0, <1>2 DEF GetBegin, TypeOK, Walked, GetReturnsFirst
    <2>2. FirstOnChain' /\ AbsentNowhere'
      BY <1>0, <1>2 DEF GetBegin, FirstOnChain, AbsentNowhere, ProbeSlot
    <2> QED
      BY <2>1, <2>2 DEF IndInv
  <1>3. ASSUME NEW e \in Elems, InsertBegin(e) PROVE IndInv'
    <2>1. TypeOK' /\ Walked' /\ GetReturnsFirst'
      BY <1>0, <1>3 DEF InsertBegin, TypeOK, Walked, GetReturnsFirst, Elems
    <2>2. FirstOnChain' /\ AbsentNowhere'
      BY <1>0, <1>3 DEF InsertBegin, FirstOnChain, AbsentNowhere, ProbeSlot
    <2> QED
      BY <2>1, <2>2 DEF IndInv
  <1>4. ASSUME NEW e \in Elems, InsertFull(e) PROVE IndInv'
    <2>1. TypeOK' /\ Walked' /\ GetReturnsFirst'
      BY <1>0, <1>4 DEF InsertFull, TypeOK, Walked, GetReturnsFirst, Elems
    <2>2. FirstOnChain' /\ AbsentNowhere'
      BY <1>0, <1>4 DEF InsertFull, FirstOnChain, AbsentNowhere, ProbeSlot
    <2> QED
      BY <2>1, <2>2 DEF IndInv
  <1>5. CASE GetMiss
    <2>1. TypeOK' /\ Walked'
      BY <1>0, <1>5 DEF GetMiss, TypeOK, Walked
    <2>2. FirstOnChain' /\ AbsentNowhere'
      BY <1>0, <1>5 DEF GetMiss, FirstOnChain, AbsentNowhere, ProbeSlot
    <2>3. first[key] = None
      <3> SUFFICES ASSUME first[key] # None PROVE FALSE
        OBVIOUS
      <3>1. key \in Keys /\ i \in Nat
        BY <1>0 DEF TypeOK
      <3>2. PICK n \in 0 .. MaxProbe :
              /\ table[ProbeSlot(key, n)] = first[key]
              /\ \A m \in 0 .. n - 1 : table[ProbeSlot(key, m)] # None
        BY <1>0, <3>1 DEF FirstOnChain
      <3>3. first[key].key = key
        BY <1>0, <3>1 DEF FirstOnChain
      <3>4. CASE n < i
        BY <1>0, <1>5, <3>1, <3>2, <3>3, <3>4 DEF Walked, GetMiss
      <3>5. CASE i < n
        BY <1>5, <3>1, <3>2, <3>5 DEF GetMiss
      <3>6. CASE i = n
        BY <1>5, <3>2, <3>6 DEF GetMiss
      <3> QED
        BY <3>1, <3>2, <3>4, <3>5, <3>6
    <2>4. GetReturnsFirst'
      BY <1>5, <2>3 DEF GetMiss, GetReturnsFirst
    <2> QED
      BY <2>1, <2>2, <2>4 DEF IndInv
  <1>6. CASE GetHit
    <2>0. key \in Keys /\ i \in Nat /\ ProbeSlot(key, i) \in Slots
      BY <1>0, ProbeInTable DEF TypeOK
    <2>1. TypeOK' /\ Walked'
      BY <1>0, <1>6, <2>0 DEF GetHit, TypeOK, Walked
    <2>2. FirstOnChain' /\ AbsentNowhere'
      BY <1>0, <1>6 DEF GetHit, FirstOnChain, AbsentNowhere, ProbeSlot
    <2>3. table[ProbeSlot(key, i)] = first[key]
      <3>1. first[key] # None
        BY <1>0, <1>6, <2>0 DEF GetHit, AbsentNowhere
      <3>2. PICK n \in 0 .. MaxProbe :
              /\ table[ProbeSlot(key, n)] = first[key]
              /\ \A m \in 0 .. n - 1 : table[ProbeSlot(key, m)].key # key
        BY <1>0, <2>0, <3>1 DEF FirstOnChain
      <3>3. first[key].key = key
        BY <1>0, <2>0, <3>1 DEF FirstOnChain
      <3>4. ~(n < i)
        BY <1>0, <1>6, <2>0, <3>2, <3>3 DEF Walked, GetHit
      <3>5. ~(i < n)
        BY <1>6, <2>0, <3>2 DEF GetHit
      <3> QED
        BY <2>0, <3>2, <3>4, <3>5
    <2>4. GetReturnsFirst'
      BY <1>6, <2>3 DEF GetHit, GetReturnsFirst
    <2> QED
      BY <2>1, <2>2, <2>4 DEF IndInv
  <1>7. CASE GetNext
    <2>1. TypeOK' /\ GetReturnsFirst'
      BY <1>0, <1>7 DEF GetNext, TypeOK, GetReturnsFirst
    <2>2. FirstOnChain' /\ AbsentNowhere'
      BY <1>0, <1>7 DEF GetNext, FirstOnChain, AbsentNowhere, ProbeSlot
    <2>3. \A m \in 0 .. i : /\ table[ProbeSlot(key, m)] # None
                            /\ table[ProbeSlot(key, m)].key # key
      BY <1>0, <1>7 DEF GetNext, TypeOK, Walked
    <2>4. Walked'
      BY <1>0, <1>7, <2>3 DEF GetNext, TypeOK, Walked, ProbeSlot
    <2> QED
      BY <2>1, <2>2, <2>4 DEF IndInv
  <1>8. CASE InsertNext
    <2>1. TypeOK' /\ GetReturnsFirst'
      BY <1>0, <1>8 DEF InsertNext, TypeOK, GetReturnsFirst
    <2>2. FirstOnChain' /\ AbsentNowhere'
      BY <1>0, <1>8 DEF InsertNext, FirstOnChain, AbsentNowhere, ProbeSlot
    <2>3. \A m \in 0 .. i : table[ProbeSlot(key, m)] # None
      BY <1>0, <1>8 DEF InsertNext, TypeOK, Walked
    <2>4. Walked'
      BY <1>0, <1>8, <2>3 DEF InsertNext, TypeOK, Walked, ProbeSlot
    <2> QED
      BY <2>1, <2>2, <2>4 DEF IndInv
  <1>9. CASE InsertPut
    <2> DEFINE at == ProbeSlot(key, i)
    <2>0. /\ key \in Keys /\ i \in Nat /\ at \in Slots
          /\ elem \in Elems /\ elem.key = key /\ elem # None
          /\ table \in [Slots -> Elems \cup {None}]
          /\ first \in [Keys -> Elems \cup {None}]
      BY <1>0, <1>9, ProbeInTable DEF TypeOK, Walked, InsertPut, Elems
    <2>a. /\ table[at] = None
          /\ table' = [table EXCEPT ![at] = elem]
          /\ fill' = fill + 1 /\ pc' = "ready"
          /\ first' = IF first[key] = None THEN [first EXCEPT ![key] = elem] ELSE first
          /\ UNCHANGED <<key, elem, i, ret>>
      BY <1>9 DEF InsertPut
    <2> HIDE DEF at
    <2>1. TypeOK'
      BY <1>0, <2>0, <2>a DEF TypeOK
    <2>2. Walked' /\ GetReturnsFirst'
      BY <1>0, <2>a DEF Walked, GetReturnsFirst
    <2>3. \A s \in Slots : table[s] # None => table'[s] = table[s]
      BY <2>0, <2>a
    <2>4. table'[at] = elem
      BY <2>0, <2>a
    <2>5. AbsentNowhere'
      <3> SUFFICES ASSUME NEW k \in Keys, first'[k] = None,
                          NEW s \in Slots, table'[s] # None
                   PROVE  table'[s].key # k
        BY DEF AbsentNowhere
      <3>1. first[k] = None /\ k # key
        BY <2>0, <2>a
      <3>2. CASE s = at
        BY <2>0, <2>4, <3>1, <3>2
      <3>3. CASE s # at
        <4>1. table'[s] = table[s]
          BY <2>0, <2>a, <3>3
        <4> QED
          BY <1>0, <3>1, <4>1 DEF AbsentNowhere
      <3> QED
        BY <3>2, <3>3
    <2>6. FirstOnChain'
      <3> SUFFICES ASSUME NEW k \in Keys, first'[k] # None
                   PROVE  /\ first'[k].key = k
                          /\ \E n \in 0 .. MaxProbe :
                                /\ table'[ProbeSlot(k, n)] = first'[k]
                                /\ \A m \in 0 .. n - 1 :
                                     /\ table'[ProbeSlot(k, m)] # None
                                     /\ table'[ProbeSlot(k, m)].key # k
        BY DEF FirstOnChain, ProbeSlot
      <3>1. CASE first[k] # None
        <4>1. first'[k] = first[k]
          BY <2>0, <2>a, <3>1
        <4>2. PICK n \in 0 .. MaxProbe :
                /\ table[ProbeSlot(k, n)] = first[k]
                /\ \A m \in 0 .. n - 1 : /\ table[ProbeSlot(k, m)] # None
                                         /\ table[ProbeSlot(k, m)].key # k
          BY <1>0, <3>1 DEF FirstOnChain
        <4>3. table'[ProbeSlot(k, n)] = first'[k]
          BY <2>3, <3>1, <4>1, <4>2, ProbeInTable
        <4>4. \A m \in 0 .. n - 1 : /\ table'[ProbeSlot(k, m)] # None
                                    /\ table'[ProbeSlot(k, m)].key # k
          BY <2>3, <4>2, ProbeInTable
        <4> QED
          BY <1>0, <3>1, <4>1, <4>3, <4>4 DEF FirstOnChain
      <3>2. CASE first[k] = None
        <4>1. k = key /\ first'[k] = elem
          BY <2>0, <2>a, <3>2
        <4>2. i \in 0 .. MaxProbe
          BY <1>0, <2>0 DEF Walked
        <4>3. \A m \in 0 .. i - 1 : table[ProbeSlot(k, m)] # None
          BY <1>0, <1>9, <4>1 DEF Walked, InsertPut
        <4>4. \A m \in 0 .. i - 1 : /\ table[ProbeSlot(k, m)] # None
                                    /\ table[ProbeSlot(k, m)].key # k
          BY <1>0, <3>2, <4>3, <2>0, ProbeInTable DEF AbsentNowhere
        <4>5. \A m \in 0 .. i - 1 : /\ table'[ProbeSlot(k, m)] # None
                                    /\ table'[ProbeSlot(k, m)].key # k
          BY <2>3, <4>4, <2>0, ProbeInTable
        <4>6. table'[ProbeSlot(k, i)] = first'[k]
          BY <2>4, <4>1 DEF at
        <4> QED
          BY <2>0, <4>1, <4>2, <4>5, <4>6
      <3> QED
        BY <3>1, <3>2
    <2> QED
      BY <2>1, <2>2, <2>5, <2>6 DEF IndInv
  <1> QED
    BY <1>1, <1>2, <1>3, <1>4, <1>5, <1>6, <1>7, <1>8, <1>9 DEF Next, Step

\* Every reachable state is well typed and its probe chains have no holes.
THEOREM Invariance == Spec => []IndInv
  BY InitIndInv, StepIndInv, PTL DEF Spec

\* Type correctness of the table.
THEOREM TypeCorrect == Spec => []TypeOK
  <1>1. IndInv => TypeOK
    BY DEF IndInv
  <1> QED
    BY <1>1, Invariance, PTL

\* A lookup returns the first element inserted for its key, or NULL exactly
\* when there is none, for every capacity and every hash function: a collision
\* never hides a name from get_func or shows it another.
THEOREM LookupCorrect == Spec => []GetReturnsFirst
  <1>1. IndInv => GetReturnsFirst
    BY DEF IndInv
  <1> QED
    BY <1>1, Invariance, PTL

\* No step changes an occupied slot (tacc_dynhash_insert_new only writes to the
\* empty slot insert_func found).
THEOREM SlotsStay == Spec => OccupiedStays
  <1>1. IndInv /\ [Next]_vars
          => [\A s \in Slots : table[s] # None => table'[s] = table[s]]_vars
    <2> SUFFICES ASSUME IndInv, Next, NEW s \in Slots, table[s] # None
                 PROVE  table'[s] = table[s]
      OBVIOUS
    <2>1. CASE InsertPut
      BY <2>1 DEF InsertPut, IndInv, TypeOK
    <2>2. CASE ~InsertPut
      BY <2>2 DEF Next, Step, GetBegin, GetMiss, GetHit, GetNext, InsertBegin,
                  InsertFull, InsertNext
    <2> QED
      BY <2>1, <2>2
  <1> QED
    BY <1>1, Invariance, PTL DEF Spec, OccupiedStays

\* The slot-by-slot table implements the map whose first insertion wins.
THEOREM Refinement == Spec => ImplementsMap
  <1>1. Init => Map!Init
    BY DEF Init, Map!Init
  <1>2. IndInv /\ [Next]_vars => [Map!Next]_(Map!mapVars)
    <2> SUFFICES ASSUME IndInv, [Next]_vars
                 PROVE  [Map!Next]_(Map!mapVars)
      OBVIOUS
    <2>0. TypeOK /\ IndInv'
      BY StepIndInv DEF IndInv
    <2>1. CASE UNCHANGED vars
      BY <2>1 DEF vars, Map!mapVars
    <2>2. ASSUME NEW k \in Keys, GetBegin(k) PROVE Map!Next
      BY <2>2 DEF GetBegin, Idle, Map!Next, Map!CallGet, Map!Idle
    <2>3. ASSUME NEW e \in Elems, InsertBegin(e) PROVE Map!Next
      BY <2>3 DEF InsertBegin, Idle, Elems, Map!Next, Map!CallInsert, Map!Idle,
                  Map!Elems
    <2>4. ASSUME NEW e \in Elems, InsertFull(e) PROVE Map!Next
      BY <2>4 DEF InsertFull, Idle, Elems, Map!Next, Map!Refuse, Map!Idle,
                  Map!Elems
    <2>5. CASE GetMiss \/ GetHit
      <3>1. pc' = "got" /\ ret' = first'[key']
        BY <2>0, <2>5 DEF GetMiss, GetHit, IndInv, GetReturnsFirst
      <3> QED
        BY <2>5, <3>1 DEF GetMiss, GetHit, Map!Next, Map!Get
    <2>6. CASE GetNext \/ InsertNext
      BY <2>6 DEF GetNext, InsertNext, Map!mapVars
    <2>7. CASE InsertPut
      BY <2>7 DEF InsertPut, Map!Next, Map!Insert
    <2> QED
      BY <2>1, <2>2, <2>3, <2>4, <2>5, <2>6, <2>7 DEF Next, Step
  <1> QED
    BY <1>1, <1>2, Invariance, PTL DEF Spec, ImplementsMap, Map!Spec

\* The occupancy count behind the capacity check of insert_func is exact.
THEOREM FillExact == Spec => []FillIsOccupancy
  <1> DEFINE occ == {s \in Slots : table[s] # None}
  <1>1. Init => FillIsOccupancy
    BY FS_EmptySet DEF Init, FillIsOccupancy
  <1>2. FillIsOccupancy /\ IndInv /\ [Next]_vars => FillIsOccupancy'
    <2> SUFFICES ASSUME FillIsOccupancy, IndInv, [Next]_vars
                 PROVE  FillIsOccupancy'
      OBVIOUS
    <2>1. CASE InsertPut
      <3>0. /\ ProbeSlot(key, i) \in Slots
            /\ table \in [Slots -> Elems \cup {None}]
            /\ elem # None
        BY <2>1, ProbeInTable, DynHashAssumption
           DEF InsertPut, IndInv, TypeOK, Walked, Elems
      <3>1. occ' = occ \cup {ProbeSlot(key, i)}
        BY <2>1, <3>0 DEF InsertPut
      <3>2. ProbeSlot(key, i) \notin occ
        BY <2>1 DEF InsertPut
      <3>3. IsFiniteSet(occ)
        <4>1. 0 \in Int /\ Cap - 1 \in Int
          BY DynHashAssumption
        <4>2. IsFiniteSet(Slots)
          BY <4>1, FS_Interval DEF Slots
        <4>3. occ \in SUBSET Slots
          OBVIOUS
        <4> QED
          BY <4>2, <4>3, FS_Subset
      <3>4. Cardinality(occ') = Cardinality(occ) + 1
        BY <3>1, <3>2, <3>3, FS_AddElement
      <3> QED
        BY <2>1, <3>4 DEF InsertPut, FillIsOccupancy
    <2>2. CASE ~InsertPut
      <3>1. UNCHANGED <<table, fill>>
        BY <2>2 DEF Next, Step, GetBegin, GetMiss, GetHit, GetNext,
                    InsertBegin, InsertFull, InsertNext, vars
      <3> QED
        BY <3>1 DEF FillIsOccupancy
    <2> QED
      BY <2>1, <2>2
  <1> QED
    BY <1>1, <1>2, Invariance, PTL DEF Spec
====
