--------------------------- MODULE ConnLifeProofs ---------------------------
(***************************************************************************)
(* Proofs about ConnLife, for every number of slots, every set of          *)
(* descriptors and every set of allocation faults.                         *)
(***************************************************************************)
EXTENDS ConnLife, FiniteSetTheorems, SequenceTheorems, TLAPS
-----------------------------------------------------------------------------
(* The free list as a stack.                                               *)

(* Popping the head takes one slot off the list and keeps the others.      *)
LEMMA PopFacts ==
  ASSUME TypeOK, free_conns # <<>>, PopSlot
  PROVE  /\ Top \in Slots
         /\ Len(free_conns) \in Nat \ {0}
         /\ free_conns' \in Seq(Slots)
         /\ Len(free_conns') = Len(free_conns) - 1
         /\ \A k \in 1 .. Len(free_conns) - 1 : free_conns'[k] = free_conns[k]
<1> DEFINE n == Len(free_conns)
<1>1. free_conns \in Seq(Slots)
  BY DEF TypeOK
<1>2. n \in Nat \ {0} /\ \A k \in 1 .. n : free_conns[k] \in Slots
  BY <1>1
<1>3. \A k \in 1 .. n - 1 : free_conns[k] \in Slots
  BY <1>2
<1>4. /\ SubSeq(free_conns, 1, n - 1) \in Seq(Slots)
      /\ Len(SubSeq(free_conns, 1, n - 1)) = IF 1 <= n - 1 THEN n - 1 - 1 + 1 ELSE 0
      /\ \A i \in 1 .. n - 1 - 1 + 1 :
           SubSeq(free_conns, 1, n - 1)[i] = free_conns[1 + i - 1]
  <2> HIDE DEF n
  <2> QED BY <1>2, <1>3, SubSeqProperties
<1>5. free_conns' = SubSeq(free_conns, 1, n - 1)
  BY DEF PopSlot
<1>6. \A k \in 1 .. n - 1 : 1 + k - 1 = k
  BY <1>2
<1> HIDE DEF n
<1>7. Len(free_conns') = n - 1
  BY <1>2, <1>4, <1>5
<1>8. \A k \in 1 .. n - 1 : free_conns'[k] = free_conns[k]
  BY <1>2, <1>4, <1>5, <1>6
<1>9. QED
  BY <1>2, <1>4, <1>5, <1>7, <1>8 DEF n, Top

(* Freeing a slot puts it on top of the list and keeps the others.         *)
LEMMA PushFacts ==
  ASSUME TypeOK, NEW i \in Slots, free_conns' = Append(free_conns, i)
  PROVE  /\ free_conns' \in Seq(Slots)
         /\ Len(free_conns) \in Nat
         /\ Len(free_conns') = Len(free_conns) + 1
         /\ \A k \in 1 .. Len(free_conns) : free_conns'[k] = free_conns[k]
         /\ free_conns'[Len(free_conns) + 1] = i
BY AppendProperties DEF TypeOK

(* The head of the free list is a slot nobody uses.                        *)
LEMMA TopUnused ==
  ASSUME TypeOK, FreeListExact, free_conns # <<>>
  PROVE  Top \in Slots /\ pool[Top] = "null" /\ Top \notin InUse
         /\ Top \notin Leaked
<1>1. Len(free_conns) \in 1 .. Len(free_conns) /\ Top \in Slots
  BY DEF TypeOK, Top
<1>2. QED
  BY <1>1 DEF FreeListExact, Top, InUse, Leaked

(* The set of slots with a given property is finite.                       *)
LEMMA FiniteSlots ==
  /\ IsFiniteSet(Slots)
  /\ \A T \in SUBSET Slots : IsFiniteSet(T)
<1>1. IsFiniteSet(Slots)
  BY NumSlotsAssumption, FS_Interval DEF Slots
<1>2. QED
  BY <1>1, FS_Subset
-----------------------------------------------------------------------------
(* ws_conn_get, in the two ways that pop a slot.                           *)

LEMMA GetKeepsList ==
  ASSUME TypeOK, FreeListExact, NEW s \in Nat \ {0}, NEW h \in Handlers,
         ConnGet(s, h)
  PROVE  FreeListExact'
<1> DEFINE n == Len(free_conns)
<1>1. /\ Top \in Slots /\ n \in Nat \ {0}
      /\ Len(free_conns') = n - 1
      /\ \A k \in 1 .. n - 1 : free_conns'[k] = free_conns[k]
  BY PopFacts DEF ConnGet
<1>2. pool[Top] = "null" /\ free_conns[n] = Top
  BY TopUnused DEF ConnGet, Top
<1>3. /\ \A i \in Slots : pool'[i] = IF i = Top THEN "live" ELSE pool[i]
      /\ \A i \in Slots : sock'[i] = IF i = Top THEN s ELSE sock[i]
  BY DEF ConnGet, TypeOK
<1>4. \A j, k \in 1 .. n : free_conns[j] = free_conns[k] => j = k
  BY DEF FreeListExact
<1>5. \A i \in Slots : pool[i] = "null" => sock[i] <= 0
  BY DEF FreeListExact
<1>6. \A i \in Slots : pool[i] = "null" <=> \E k \in 1 .. n : free_conns[k] = i
  BY DEF FreeListExact
<1> HIDE DEF n
<1>7. \A j, k \in 1 .. Len(free_conns') : free_conns'[j] = free_conns'[k] => j = k
  BY <1>1, <1>4
<1>8. ASSUME NEW i \in Slots
      PROVE  pool'[i] = "null" <=> \E k \in 1 .. Len(free_conns') : free_conns'[k] = i
  <2>1. CASE i = Top
    BY <2>1, <1>1, <1>2, <1>3, <1>4
  <2>2. CASE i # Top
    <3>1. pool'[i] = pool[i]
      BY <2>2, <1>3
    <3>2. (\E k \in 1 .. n : free_conns[k] = i) <=> (\E k \in 1 .. n - 1 : free_conns[k] = i)
      BY <2>2, <1>1, <1>2
    <3>3. QED
      BY <3>1, <3>2, <1>1, <1>6
  <2>3. QED
    BY <2>1, <2>2
<1>9. \A i \in Slots : pool'[i] = "null" => sock'[i] <= 0
  BY <1>3, <1>5
<1>10. QED
  BY <1>7, <1>8, <1>9 DEF FreeListExact

LEMMA LeakKeepsList ==
  ASSUME TypeOK, FreeListExact, NEW s \in Nat \ {0}, ConnGetLeaks(s)
  PROVE  FreeListExact'
<1> DEFINE n == Len(free_conns)
<1>1. /\ Top \in Slots /\ n \in Nat \ {0}
      /\ Len(free_conns') = n - 1
      /\ \A k \in 1 .. n - 1 : free_conns'[k] = free_conns[k]
  BY PopFacts DEF ConnGetLeaks
<1>2. pool[Top] = "null" /\ free_conns[n] = Top
  BY TopUnused DEF ConnGetLeaks, Top
<1>3. /\ \A i \in Slots : pool'[i] = IF i = Top THEN "dangling" ELSE pool[i]
      /\ \A i \in Slots : sock'[i] = IF i = Top THEN s ELSE sock[i]
  BY DEF ConnGetLeaks, TypeOK
<1>4. \A j, k \in 1 .. n : free_conns[j] = free_conns[k] => j = k
  BY DEF FreeListExact
<1>5. \A i \in Slots : pool[i] = "null" => sock[i] <= 0
  BY DEF FreeListExact
<1>6. \A i \in Slots : pool[i] = "null" <=> \E k \in 1 .. n : free_conns[k] = i
  BY DEF FreeListExact
<1> HIDE DEF n
<1>7. \A j, k \in 1 .. Len(free_conns') : free_conns'[j] = free_conns'[k] => j = k
  BY <1>1, <1>4
<1>8. ASSUME NEW i \in Slots
      PROVE  pool'[i] = "null" <=> \E k \in 1 .. Len(free_conns') : free_conns'[k] = i
  <2>1. CASE i = Top
    BY <2>1, <1>1, <1>2, <1>3, <1>4
  <2>2. CASE i # Top
    <3>1. pool'[i] = pool[i]
      BY <2>2, <1>3
    <3>2. (\E k \in 1 .. n : free_conns[k] = i) <=> (\E k \in 1 .. n - 1 : free_conns[k] = i)
      BY <2>2, <1>1, <1>2
    <3>3. QED
      BY <3>1, <3>2, <1>1, <1>6
  <2>3. QED
    BY <2>1, <2>2
<1>9. \A i \in Slots : pool'[i] = "null" => sock'[i] <= 0
  BY <1>3, <1>5
<1>10. QED
  BY <1>7, <1>8, <1>9 DEF FreeListExact

LEMMA FreeKeepsList ==
  ASSUME TypeOK, FreeListExact, NEW i \in InUse, ConnFree(i)
  PROVE  FreeListExact'
<1> DEFINE n == Len(free_conns)
<1>1. i \in Slots /\ pool[i] = "live"
  BY DEF InUse
<1>2. /\ n \in Nat
      /\ Len(free_conns') = n + 1
      /\ \A k \in 1 .. n : free_conns'[k] = free_conns[k]
      /\ free_conns'[n + 1] = i
  BY <1>1, PushFacts DEF ConnFree
<1>3. /\ \A j \in Slots : pool'[j] = IF j = i THEN "null" ELSE pool[j]
      /\ \A j \in Slots : sock'[j] = IF j = i THEN -1 ELSE sock[j]
  BY <1>1 DEF ConnFree, TypeOK
<1>4. \A j, k \in 1 .. n : free_conns[j] = free_conns[k] => j = k
  BY DEF FreeListExact
<1>5. \A j \in Slots : pool[j] = "null" => sock[j] <= 0
  BY DEF FreeListExact
<1>6. \A j \in Slots : pool[j] = "null" <=> \E k \in 1 .. n : free_conns[k] = j
  BY DEF FreeListExact
<1> HIDE DEF n
<1>7. \A k \in 1 .. n : free_conns[k] # i
  BY <1>1, <1>6
<1>8. \A j, k \in 1 .. Len(free_conns') : free_conns'[j] = free_conns'[k] => j = k
  <2> SUFFICES ASSUME NEW j \in 1 .. n + 1, NEW k \in 1 .. n + 1,
                      free_conns'[j] = free_conns'[k]
               PROVE  j = k
    BY <1>2
  <2>1. CASE j \in 1 .. n /\ k \in 1 .. n
    BY <2>1, <1>2, <1>4
  <2>2. CASE j = n + 1 \/ k = n + 1
    BY <2>2, <1>2, <1>7
  <2>3. QED
    BY <2>1, <2>2, <1>2
<1>9. ASSUME NEW j \in Slots
      PROVE  pool'[j] = "null" <=> \E k \in 1 .. Len(free_conns') : free_conns'[k] = j
  <2>1. CASE j = i
    BY <2>1, <1>2, <1>3
  <2>2. CASE j # i
    <3>1. pool'[j] = pool[j]
      BY <2>2, <1>3
    <3>2. (\E k \in 1 .. n + 1 : free_conns'[k] = j) <=> (\E k \in 1 .. n : free_conns[k] = j)
      BY <2>2, <1>2
    <3>3. QED
      BY <3>1, <3>2, <1>2, <1>6
  <2>3. QED
    BY <2>1, <2>2
<1>10. \A j \in Slots : pool'[j] = "null" => sock'[j] <= 0
  BY <1>3, <1>5
<1>11. QED
  BY <1>8, <1>9, <1>10 DEF FreeListExact

-----------------------------------------------------------------------------
(* The sets of slots after each operation, and the counters.               *)

LEMMA GetSets ==
  ASSUME TypeOK, FreeListExact, NEW s \in Nat \ {0}, NEW h \in Handlers,
         ConnGet(s, h)
  PROVE  /\ InUse' = InUse \cup {Top} /\ Leaked' = Leaked
         /\ Streams' = IF h = "read" THEN Streams \cup {Top} ELSE Streams
         /\ Len(free_conns') = Len(free_conns) - 1
         /\ Top \in Slots \ (InUse \cup Leaked)
<1>1. Top \in Slots \ (InUse \cup Leaked) /\ pool[Top] = "null"
  BY TopUnused DEF ConnGet
<1>2. /\ \A i \in Slots : pool'[i] = IF i = Top THEN "live" ELSE pool[i]
      /\ \A i \in Slots : handler'[i] = IF i = Top THEN h ELSE handler[i]
  BY DEF ConnGet, TypeOK
<1>3. InUse' = InUse \cup {Top} /\ Leaked' = Leaked
  BY <1>1, <1>2 DEF InUse, Leaked
<1>4. Streams' = IF h = "read" THEN Streams \cup {Top} ELSE Streams
  <2>1. InUse \subseteq Slots
    BY DEF InUse
  <2>2. CASE h = "read"
    BY <2>1, <2>2, <1>1, <1>2, <1>3 DEF Streams
  <2>3. CASE h # "read"
    BY <2>1, <2>3, <1>1, <1>2, <1>3 DEF Streams
  <2>4. QED
    BY <2>2, <2>3
<1>5. Len(free_conns') = Len(free_conns) - 1
  BY PopFacts DEF ConnGet
<1>6. QED
  BY <1>1, <1>3, <1>4, <1>5

LEMMA LeakSets ==
  ASSUME TypeOK, FreeListExact, NEW s \in Nat \ {0}, ConnGetLeaks(s)
  PROVE  /\ InUse' = InUse /\ Leaked' = Leaked \cup {Top}
         /\ Streams' = Streams
         /\ Len(free_conns') = Len(free_conns) - 1
         /\ Top \in Slots \ (InUse \cup Leaked)
<1>1. Top \in Slots \ (InUse \cup Leaked) /\ pool[Top] = "null"
  BY TopUnused DEF ConnGetLeaks
<1>2. /\ \A i \in Slots : pool'[i] = IF i = Top THEN "dangling" ELSE pool[i]
      /\ handler' = handler
  BY DEF ConnGetLeaks, TypeOK, eventVars
<1>3. InUse' = InUse /\ Leaked' = Leaked \cup {Top}
  BY <1>1, <1>2 DEF InUse, Leaked
<1>4. Streams' = Streams
  BY <1>2, <1>3 DEF Streams
<1>5. Len(free_conns') = Len(free_conns) - 1
  BY PopFacts DEF ConnGetLeaks
<1>6. QED
  BY <1>1, <1>3, <1>4, <1>5

LEMMA CloseSets ==
  ASSUME TypeOK, FreeListExact, NEW i \in InUse, ConnClose(i)
  PROVE  /\ i \in Slots
         /\ InUse' = InUse \ {i} /\ Leaked' = Leaked /\ Streams' = Streams \ {i}
         /\ Len(free_conns') = Len(free_conns) + 1
<1>1. i \in Slots /\ pool[i] = "live"
  BY DEF InUse
<1>2. /\ \A j \in Slots : pool'[j] = IF j = i THEN "null" ELSE pool[j]
      /\ handler' = handler
  BY <1>1 DEF ConnClose, DelConn, ConnFree, TypeOK
<1>3. InUse' = InUse \ {i} /\ Leaked' = Leaked
  BY <1>1, <1>2 DEF InUse, Leaked
<1>4. Streams' = Streams \ {i}
  BY <1>1, <1>2, <1>3 DEF Streams
<1>5. Len(free_conns') = Len(free_conns) + 1
  BY <1>1, PushFacts DEF ConnClose, DelConn, ConnFree
<1>6. QED
  BY <1>1, <1>3, <1>4, <1>5

LEMMA FiniteInUse == IsFiniteSet(InUse) /\ IsFiniteSet(Leaked)
BY FiniteSlots DEF InUse, Leaked

LEMMA GetKeepsCounters ==
  ASSUME TypeOK, FreeListExact, CountersExact, NEW s \in Nat \ {0},
         NEW h \in Handlers, ConnGet(s, h)
  PROVE  CountersExact'
<1>1. Cardinality(InUse') = Cardinality(InUse) + 1 /\ Leaked' = Leaked
  BY GetSets, FiniteInUse, FS_AddElement
<1>2. conn_num' = conn_num + 1 /\ free_conn_num' = free_conn_num - 1
  BY DEF ConnGet
<1>3. Len(free_conns') = Len(free_conns) - 1 /\ Len(free_conns) \in Nat
  BY GetSets DEF TypeOK
<1>4. Cardinality(InUse) \in Nat /\ Cardinality(Leaked) \in Nat
  BY FiniteInUse, FS_CardinalityType
<1>5. /\ conn_num = Cardinality(InUse)
      /\ free_conn_num = Len(free_conns) + Cardinality(Leaked)
      /\ free_conn_num + conn_num = NumSlots
  BY DEF CountersExact
<1>6. conn_num' = Cardinality(InUse')
  BY <1>1, <1>2, <1>5
<1>7. free_conn_num' = Len(free_conns') + Cardinality(Leaked')
  BY <1>1, <1>2, <1>3, <1>4, <1>5
<1>8. free_conn_num' + conn_num' = NumSlots
  BY <1>2, <1>3, <1>4, <1>5
<1>9. QED
  BY <1>6, <1>7, <1>8 DEF CountersExact

LEMMA LeakKeepsCounters ==
  ASSUME TypeOK, FreeListExact, CountersExact, NEW s \in Nat \ {0},
         ConnGetLeaks(s)
  PROVE  CountersExact'
<1>1. Cardinality(Leaked') = Cardinality(Leaked) + 1 /\ InUse' = InUse
  BY LeakSets, FiniteInUse, FS_AddElement
<1>2. conn_num' = conn_num /\ free_conn_num' = free_conn_num
  BY DEF ConnGetLeaks
<1>3. Len(free_conns') = Len(free_conns) - 1 /\ Len(free_conns) \in Nat
  BY LeakSets DEF TypeOK
<1>4. Cardinality(InUse) \in Nat /\ Cardinality(Leaked) \in Nat
  BY FiniteInUse, FS_CardinalityType
<1>5. /\ conn_num = Cardinality(InUse)
      /\ free_conn_num = Len(free_conns) + Cardinality(Leaked)
      /\ free_conn_num + conn_num = NumSlots
  BY DEF CountersExact
<1>6. conn_num' = Cardinality(InUse')
  BY <1>1, <1>2, <1>5
<1>7. free_conn_num' = Len(free_conns') + Cardinality(Leaked')
  BY <1>1, <1>2, <1>3, <1>4, <1>5
<1>8. free_conn_num' + conn_num' = NumSlots
  BY <1>2, <1>3, <1>4, <1>5
<1>9. QED
  BY <1>6, <1>7, <1>8 DEF CountersExact

LEMMA CloseKeepsCounters ==
  ASSUME TypeOK, FreeListExact, CountersExact, NEW i \in InUse, ConnClose(i)
  PROVE  CountersExact'
<1>1. Cardinality(InUse') = Cardinality(InUse) - 1 /\ Leaked' = Leaked
  BY CloseSets, FiniteInUse, FS_RemoveElement
<1>2. conn_num' = conn_num - 1 /\ free_conn_num' = free_conn_num + 1
  BY DEF ConnClose, DelConn, ConnFree
<1>3. Len(free_conns') = Len(free_conns) + 1 /\ Len(free_conns) \in Nat
  BY CloseSets DEF TypeOK
<1>4. Cardinality(InUse) \in Nat /\ Cardinality(Leaked) \in Nat
  BY FiniteInUse, FS_CardinalityType
<1>5. /\ conn_num = Cardinality(InUse)
      /\ free_conn_num = Len(free_conns) + Cardinality(Leaked)
      /\ free_conn_num + conn_num = NumSlots
  BY DEF CountersExact
<1>6. conn_num' = Cardinality(InUse')
  BY <1>1, <1>2, <1>5
<1>7. free_conn_num' = Len(free_conns') + Cardinality(Leaked')
  BY <1>1, <1>2, <1>3, <1>4, <1>5
<1>8. free_conn_num' + conn_num' = NumSlots
  BY <1>2, <1>3, <1>4, <1>5
<1>9. QED
  BY <1>6, <1>7, <1>8 DEF CountersExact
-----------------------------------------------------------------------------
(* What each operation on a slot keeps of the rest of the invariant.       *)

(* An event is its slot, its kinds and its owner, and marking the events of *)
(* a slot changes the owner only.                                          *)
LEMMA MarkedEvents ==
  ASSUME NEW i, NEW owner, batch \subseteq Events
  PROVE  /\ \A e \in Marked(i, owner) : \E f \in batch :
              e = IF f.slot = i /\ f.owner = "own"
                    THEN [slot |-> f.slot, kinds |-> f.kinds, owner |-> owner] ELSE f
         /\ (\A e \in batch : e.owner = "own" => e.slot # i) => Marked(i, owner) = batch
<1>1. \A f \in batch : f \in [slot : Slots, kinds : EventKinds, owner : Owners]
  BY DEF Events
<1>2. \A f \in batch : [f EXCEPT !.owner = owner]
                         = [slot |-> f.slot, kinds |-> f.kinds, owner |-> owner]
  BY <1>1
<1>3. \A e \in Marked(i, owner) : \E f \in batch :
        e = IF f.slot = i /\ f.owner = "own"
              THEN [slot |-> f.slot, kinds |-> f.kinds, owner |-> owner] ELSE f
  BY <1>2 DEF Marked
<1>4. (\A e \in batch : e.owner = "own" => e.slot # i) => Marked(i, owner) = batch
  BY DEF Marked
<1>5. QED
  BY <1>3, <1>4

LEMMA MarkedType ==
  ASSUME NEW i, NEW owner \in Owners, batch \subseteq Events
  PROVE  Marked(i, owner) \subseteq Events
<1>1. \A f \in batch : f.slot \in Slots /\ f.kinds \in EventKinds
  BY DEF Events
<1>2. \A f \in batch : [slot |-> f.slot, kinds |-> f.kinds, owner |-> owner] \in Events
  BY <1>1 DEF Events
<1>3. QED
  BY <1>2, MarkedEvents

LEMMA DisownedType ==
  ASSUME NEW i, batch \subseteq Events
  PROVE  Disowned(i) \subseteq Events
BY MarkedType DEF Disowned, Owners

LEMMA GetTypes ==
  ASSUME TypeOK, FreeListExact, NEW s \in Nat \ {0}, NEW h \in Handlers,
         ConnGet(s, h)
  PROVE  /\ sock' \in [Slots -> Nat \cup {-1}]
         /\ pool' \in [Slots -> Pools]
         /\ handler' \in [Slots -> Handlers]
         /\ ractive' \in [Slots -> BOOLEAN] /\ wactive' \in [Slots -> BOOLEAN]
         /\ timer' \in [Slots -> BOOLEAN]
         /\ free_conns' \in Seq(Slots)
         /\ free_conn_num' \in Int /\ conn_num' \in Int
         /\ batch' \subseteq Events
<1>1. Top \in Slots /\ free_conns' \in Seq(Slots)
  BY PopFacts DEF ConnGet
<1>2. batch' \subseteq Events
  BY DisownedType DEF ConnGet, TypeOK
<1>3. QED
  BY <1>1, <1>2 DEF ConnGet, TypeOK, Pools

LEMMA LeakTypes ==
  ASSUME TypeOK, FreeListExact, NEW s \in Nat \ {0}, ConnGetLeaks(s)
  PROVE  /\ sock' \in [Slots -> Nat \cup {-1}]
         /\ pool' \in [Slots -> Pools]
         /\ free_conns' \in Seq(Slots)
         /\ batch' \subseteq Events
<1>1. Top \in Slots /\ free_conns' \in Seq(Slots)
  BY PopFacts DEF ConnGetLeaks
<1>2. batch' \subseteq Events
  BY DisownedType DEF ConnGetLeaks, TypeOK
<1>3. QED
  BY <1>1, <1>2 DEF ConnGetLeaks, TypeOK, Pools

LEMMA CloseTypes ==
  ASSUME TypeOK, NEW i \in InUse, ConnClose(i)
  PROVE  /\ sock' \in [Slots -> Nat \cup {-1}]
         /\ pool' \in [Slots -> Pools]
         /\ handler' \in [Slots -> Handlers]
         /\ ractive' \in [Slots -> BOOLEAN] /\ wactive' \in [Slots -> BOOLEAN]
         /\ timer' \in [Slots -> BOOLEAN]
         /\ free_conns' \in Seq(Slots)
         /\ free_conn_num' \in Int /\ conn_num' \in Int
         /\ fds' \subseteq Nat \ {0}
         /\ open' \subseteq Slots /\ known' \subseteq Slots
<1>1. i \in Slots
  BY DEF InUse
<1>2. free_conns' \in Seq(Slots)
  BY <1>1, PushFacts DEF ConnClose, DelConn, ConnFree
<1>3. sock' \in [Slots -> Nat \cup {-1}] /\ pool' \in [Slots -> Pools]
  BY <1>1 DEF ConnClose, DelConn, ConnFree, TypeOK, Pools
<1>4. /\ handler' \in [Slots -> Handlers]
      /\ ractive' \in [Slots -> BOOLEAN] /\ wactive' \in [Slots -> BOOLEAN]
      /\ timer' \in [Slots -> BOOLEAN]
  BY <1>1 DEF ConnClose, DelConn, TypeOK
<1>5. free_conn_num' \in Int /\ conn_num' \in Int
  BY DEF ConnClose, DelConn, ConnFree, TypeOK
<1>6. fds' \subseteq fds /\ open' \subseteq open /\ known' = known
  BY DEF ConnClose, DelConn
<1>7. fds' \subseteq Nat \ {0} /\ open' \subseteq Slots /\ known' \subseteq Slots
  BY <1>6 DEF TypeOK
<1>8. QED
  BY <1>2, <1>3, <1>4, <1>5, <1>7

(* A new connection or listener, for a descriptor no slot in use owns.     *)
LEMMA GetKeeps ==
  ASSUME IInv, NEW s \in Nat \ {0}, NEW h \in Handlers, ConnGet(s, h),
         fds' = fds \cup {s}, \A i \in InUse : sock[i] # s,
         open' = IF h = "read" THEN open \cup {Top} ELSE open,
         pc # "read"
  PROVE  /\ FreeListExact' /\ CountersExact' /\ FdOwned' /\ AppView' /\ ActiveInUse'
         /\ \A i \in Slots : timer'[i] => i \in Streams'
         /\ \A i \in open' : timer'[i] \/ i = Top
         /\ Top \notin open
         /\ h = "read" => Top \in Streams'
<1> USE DEF IInv
<1>1. FreeListExact' /\ CountersExact'
  BY GetKeepsList, GetKeepsCounters
<1>2. /\ InUse' = InUse \cup {Top} /\ Top \in Slots \ InUse
      /\ Streams' = IF h = "read" THEN Streams \cup {Top} ELSE Streams
  BY GetSets
<1>3. InUse \subseteq Slots /\ Streams \subseteq InUse /\ open = Streams
  BY DEF InUse, Streams, AppView
<1>4. /\ \A i \in Slots : sock'[i] = IF i = Top THEN s ELSE sock[i]
      /\ \A i \in Slots : ractive'[i] = IF i = Top THEN h # "none" ELSE ractive[i]
      /\ \A i \in Slots : wactive'[i] = IF i = Top THEN h = "read" ELSE wactive[i]
      /\ \A i \in Slots : timer'[i] = IF i = Top THEN FALSE ELSE timer[i]
  BY DEF ConnGet, TypeOK
<1>5. FdOwned'
  <2>1. \A i \in InUse' : sock'[i] \in fds'
    BY <1>2, <1>3, <1>4 DEF FdOwned
  <2>2. \A i, j \in InUse' : sock'[i] = sock'[j] => i = j
    BY <1>2, <1>3, <1>4 DEF FdOwned
  <2>3. ASSUME NEW d \in fds' \ {ListenFd} PROVE \E i \in InUse' : sock'[i] = d
    <3>1. CASE d = s
      BY <3>1, <1>2, <1>4
    <3>2. CASE d # s
      <4>1. PICK i \in InUse : sock[i] = d
        BY <3>2 DEF FdOwned
      <4>2. QED
        BY <4>1, <1>2, <1>3, <1>4
    <3>3. QED
      BY <3>1, <3>2
  <2>4. QED
    BY <2>1, <2>2, <2>3 DEF FdOwned
<1>6. open' = Streams' /\ Top \notin open
  BY <1>2, <1>3
<1>7. \A i \in Streams' : ractive'[i]
  <2>1. \A i \in Streams : ractive[i] /\ i # Top
    BY <1>2, <1>3 DEF AppView
  <2>2. QED
    BY <2>1, <1>2, <1>3, <1>4
<1>8. ActiveInUse'
  BY <1>2, <1>4 DEF ActiveInUse
<1>9. \A i \in Slots : timer'[i] => i \in Streams'
  BY <1>2, <1>4 DEF TimersBelong
<1>10. \A i \in open' : timer'[i] \/ i = Top
  BY <1>2, <1>3, <1>4 DEF TimersBelong
<1>11. QED
  BY <1>1, <1>2, <1>5, <1>6, <1>7, <1>8, <1>9, <1>10 DEF AppView

(* A slot lost to a failed third allocation; the caller closes the         *)
(* descriptor or, for the listener, keeps it.                              *)
LEMMA LeakKeeps ==
  ASSUME IInv, NEW s \in Nat \ {0}, ConnGetLeaks(s),
         fds' = fds, open' = open
  PROVE  /\ FreeListExact' /\ CountersExact' /\ FdOwned' /\ AppView' /\ ActiveInUse'
         /\ \A i \in Slots : timer'[i] => i \in Streams'
         /\ timer' = timer /\ Streams' = Streams
<1> USE DEF IInv
<1>1. FreeListExact' /\ CountersExact'
  BY LeakKeepsList, LeakKeepsCounters
<1>2. InUse' = InUse /\ Streams' = Streams /\ Top \in Slots \ InUse
  BY LeakSets
<1>3. InUse \subseteq Slots /\ Streams \subseteq InUse
  BY DEF InUse, Streams
<1>4. /\ \A i \in Slots : sock'[i] = IF i = Top THEN s ELSE sock[i]
      /\ ractive' = ractive /\ wactive' = wactive /\ timer' = timer
  BY DEF ConnGetLeaks, TypeOK, eventVars
<1>5. \A i \in InUse : sock'[i] = sock[i]
  BY <1>2, <1>3, <1>4
<1>6. FdOwned'
  BY <1>2, <1>5 DEF FdOwned
<1>7. QED
  BY <1>1, <1>2, <1>4, <1>6 DEF AppView, ActiveInUse, TimersBelong

(* The close of any slot in use.                                           *)
LEMMA CloseKeeps ==
  ASSUME IInv, NEW i \in InUse, ConnClose(i)
  PROVE  /\ FreeListExact' /\ CountersExact' /\ FdOwned' /\ AppView' /\ ActiveInUse'
         /\ \A j \in Slots : timer'[j] => j \in Streams'
         /\ \A j \in open' : j # i /\ timer'[j] = timer[j] /\ j \in open
<1> USE DEF IInv
<1>1. FreeListExact' /\ CountersExact'
  BY CloseKeepsCounters, FreeKeepsList DEF ConnClose, DelConn
<1>2. i \in Slots /\ InUse' = InUse \ {i} /\ Streams' = Streams \ {i}
  BY CloseSets
<1>3. InUse \subseteq Slots /\ Streams \subseteq InUse /\ open = Streams
  BY DEF InUse, Streams, AppView
<1>4. /\ \A j \in Slots \ {i} : sock'[j] = sock[j] /\ timer'[j] = timer[j]
      /\ \A j \in Slots \ {i} : ractive'[j] = ractive[j] /\ wactive'[j] = wactive[j]
      /\ ~ractive'[i] /\ ~wactive'[i] /\ ~timer'[i]
      /\ fds' = fds \ {sock[i]} /\ open' = open \ {i}
  BY <1>2 DEF ConnClose, DelConn, ConnFree, TypeOK
<1>5. FdOwned'
  <2>1. \A j \in InUse' : sock'[j] \in fds'
    BY <1>2, <1>3, <1>4 DEF FdOwned
  <2>2. \A j, k \in InUse' : sock'[j] = sock'[k] => j = k
    BY <1>2, <1>3, <1>4 DEF FdOwned
  <2>3. ASSUME NEW d \in fds' \ {ListenFd} PROVE \E j \in InUse' : sock'[j] = d
    <3>1. PICK j \in InUse : sock[j] = d
      BY <1>4 DEF FdOwned
    <3>2. QED
      BY <3>1, <1>2, <1>3, <1>4
  <2>4. QED
    BY <2>1, <2>2, <2>3 DEF FdOwned
<1>6. AppView'
  BY <1>2, <1>3, <1>4 DEF AppView
<1>7. ActiveInUse'
  BY <1>2, <1>4 DEF ActiveInUse
<1>8. \A j \in Slots : timer'[j] => j \in Streams'
  BY <1>2, <1>4 DEF TimersBelong
<1>9. QED
  BY <1>1, <1>3, <1>4, <1>5, <1>6, <1>7, <1>8

(* Steps that leave the slots, the descriptors and the application's view  *)
(* alone.                                                                  *)
LEMMA QuietKeeps ==
  ASSUME IInv, UNCHANGED <<poolVars, handler, fds, open>>
  PROVE  /\ FreeListExact' /\ CountersExact' /\ FdOwned'
         /\ InUse' = InUse /\ Streams' = Streams /\ Leaked' = Leaked
<1>1. InUse' = InUse /\ Leaked' = Leaked
  BY DEF InUse, Leaked, poolVars
<1>2. Streams' = Streams
  BY <1>1 DEF Streams
<1>3. FreeListExact' /\ CountersExact' /\ FdOwned'
  BY <1>1 DEF IInv, FreeListExact, CountersExact, FdOwned, poolVars
<1>4. QED
  BY <1>1, <1>2, <1>3

(* Steps that touch neither the slots nor epoll's view of them keep the    *)
(* whole invariant unless the thread moves into or out of a read handler,  *)
(* or back before the loop.                                                *)
LEMMA IdleKeeps ==
  ASSUME IInv, UNCHANGED <<poolVars, eventVars, fds, appVars>>, TypeOK',
         pc = "read" => pc' = "read" /\ cur' = cur,
         pc' = "read" => cur' \in Streams,
         pc' = "setup" => pc = "setup"
  PROVE  IInv'
<1>1. /\ FreeListExact' /\ CountersExact' /\ FdOwned'
      /\ InUse' = InUse /\ Streams' = Streams
  BY QuietKeeps DEF eventVars, appVars
<1>2. AppView' /\ ActiveInUse' /\ TimersBelong'
  BY <1>1 DEF IInv, AppView, ActiveInUse, TimersBelong, eventVars, appVars
<1>3. HandlerLive' /\ SetupFds'
  BY <1>1 DEF HandlerLive, SetupFds, IInv
<1>4. QED
  BY <1>1, <1>2, <1>3 DEF IInv

(* A close leaves the rest of the state typed and ends outside a read      *)
(* handler and after the setup.                                            *)
LEMMA ClosingKeeps ==
  ASSUME IInv, NEW i \in InUse, ConnClose(i), UNCHANGED <<cur, after, clientVars>>,
         batch' \subseteq Events, pc' \in Locations \ {"read", "setup"},
         pc = "read" => cur = i
  PROVE  IInv'
<1>1. /\ FreeListExact' /\ CountersExact' /\ FdOwned' /\ AppView' /\ ActiveInUse'
      /\ \A j \in Slots : timer'[j] => j \in Streams'
      /\ \A j \in open' : j # i /\ timer'[j] = timer[j] /\ j \in open
  BY CloseKeeps
<1>2. TypeOK'
  <2>1. /\ pc' \in Locations /\ cur' \in Slots
        /\ after' \in {"accept", "write", "dispatch"}
        /\ backlog' \in Nat /\ arrived' \in Nat
        /\ batch' \subseteq Events
    BY DEF IInv, TypeOK, clientVars
  <2>2. QED
    BY <2>1, CloseTypes DEF IInv, TypeOK
<1>3. TimersBelong'
  BY <1>1 DEF IInv, TimersBelong
<1>4. HandlerLive' /\ SetupFds'
  BY DEF HandlerLive, SetupFds
<1>5. QED
  BY <1>1, <1>2, <1>3, <1>4 DEF IInv

(* Rearming the timer of a stream in use, or switching the interest in     *)
(* output of a slot in use.                                                *)
LEMMA RearmKeeps ==
  ASSUME IInv, NEW i \in InUse, NEW w \in BOOLEAN, NEW t \in BOOLEAN,
         wactive' = [wactive EXCEPT ![i] = w],
         timer' = [timer EXCEPT ![i] = t],
         t = timer[i] \/ (t = TRUE /\ i \in Streams),
         UNCHANGED <<cur, after, poolVars, handler, ractive, fds, clientVars,
                     batch, appVars>>,
         pc' \in Locations \ {"read", "setup"},
         pc = "read" => cur = i /\ t = TRUE
  PROVE  IInv'
<1>1. /\ FreeListExact' /\ CountersExact' /\ FdOwned'
      /\ InUse' = InUse /\ Streams' = Streams
  BY QuietKeeps DEF appVars
<1>2. i \in Slots
  BY DEF InUse
<1>3. TypeOK'
  <2>1. timer' \in [Slots -> BOOLEAN] /\ wactive' \in [Slots -> BOOLEAN]
    BY <1>2 DEF IInv, TypeOK
  <2>2. QED
    BY <2>1 DEF IInv, TypeOK, poolVars, clientVars, appVars
<1>4. /\ \A j \in Slots : timer'[j] = IF j = i THEN t ELSE timer[j]
      /\ \A j \in Slots : wactive'[j] = IF j = i THEN w ELSE wactive[j]
  BY DEF IInv, TypeOK
<1>5. AppView' /\ open \subseteq Slots /\ open' = open
  BY <1>1 DEF IInv, AppView, TypeOK, appVars
<1>6. ActiveInUse'
  <2>1. ASSUME NEW j \in Slots, ractive'[j] \/ wactive'[j] PROVE j \in InUse
    <3>1. CASE j = i
      BY <3>1
    <3>2. CASE j # i
      <4>1. ractive[j] \/ wactive[j]
        BY <2>1, <3>2, <1>4
      <4>2. QED
        BY <4>1 DEF IInv, ActiveInUse
    <3>3. QED
      BY <3>1, <3>2
  <2>2. QED
    BY <2>1, <1>1 DEF ActiveInUse
<1>7. TimersBelong'
  <2>1. ASSUME NEW j \in Slots, timer'[j] PROVE j \in Streams'
    <3>1. timer[j] \/ j \in Streams
      BY <2>1, <1>4
    <3>2. QED
      BY <3>1, <1>1 DEF IInv, TimersBelong
  <2>2. ASSUME NEW j \in open' PROVE timer'[j]
    <3>1. timer[j] \/ (pc = "read" /\ cur = j)
      BY <1>5 DEF IInv, TimersBelong
    <3>2. QED
      BY <3>1, <1>4, <1>5
  <2>3. QED
    BY <2>1, <2>2 DEF TimersBelong
<1>8. HandlerLive' /\ SetupFds'
  BY DEF HandlerLive, SetupFds
<1>9. QED
  BY <1>1, <1>3, <1>5, <1>6, <1>7, <1>8 DEF IInv
-----------------------------------------------------------------------------
(* The invariant holds initially and every action keeps it.                *)

LEMMA InitIInv == ASSUME Init PROVE IInv
<1> USE DEF Init
<1>1. Slots = 0 .. NumSlots - 1 /\ 0 \in Slots /\ NumSlots \in Nat \ {0}
  BY NumSlotsAssumption DEF Slots
<1>2. InUse = {} /\ Leaked = {} /\ Streams = {}
  BY DEF InUse, Leaked, Streams
<1>3. /\ free_conns \in [1 .. NumSlots -> Slots]
      /\ Len(free_conns) = NumSlots
      /\ \A k \in 1 .. NumSlots : free_conns[k] = k - 1
  BY <1>1
<1>4. free_conns \in Seq(Slots)
  BY <1>1, <1>3
<1>5. TypeOK
  <2>1. pc \in Locations /\ cur \in Slots /\ after \in {"accept", "write", "dispatch"}
    BY <1>1 DEF Locations
  <2>2. /\ sock \in [Slots -> Nat \cup {-1}]
        /\ pool \in [Slots -> Pools]
        /\ handler \in [Slots -> Handlers]
    BY DEF Pools, Handlers
  <2>3. /\ ractive \in [Slots -> BOOLEAN] /\ wactive \in [Slots -> BOOLEAN]
        /\ timer \in [Slots -> BOOLEAN]
    OBVIOUS
  <2>4. /\ free_conn_num \in Int /\ conn_num \in Int /\ fds \subseteq Nat \ {0}
        /\ backlog \in Nat /\ arrived \in Nat /\ batch \subseteq Events
        /\ open \subseteq Slots /\ known \subseteq Slots
    BY <1>1, FdsAssumption
  <2>5. QED
    BY <1>4, <2>1, <2>2, <2>3, <2>4 DEF TypeOK
<1>6. FreeListExact
  <2>1. \A j, k \in 1 .. Len(free_conns) : free_conns[j] = free_conns[k] => j = k
    BY <1>1, <1>3
  <2>2. \A i \in Slots : i + 1 \in 1 .. Len(free_conns) /\ free_conns[i + 1] = i
    BY <1>1, <1>3
  <2>3. \A i \in Slots : pool[i] = "null" /\ sock[i] <= 0
    OBVIOUS
  <2>4. QED
    BY <2>1, <2>2, <2>3 DEF FreeListExact
<1>7. CountersExact
  BY <1>1, <1>2, <1>3, FS_EmptySet DEF CountersExact
<1>8. FdOwned /\ TimersBelong /\ AppView
  BY <1>2 DEF FdOwned, TimersBelong, AppView
<1>9. ActiveInUse /\ HandlerLive /\ SetupFds
  BY DEF ActiveInUse, HandlerLive, SetupFds
<1>10. QED
  BY <1>5, <1>6, <1>7, <1>8, <1>9 DEF IInv

LEMMA SetupKeeps == ASSUME IInv, ServerAdd \/ Run PROVE IInv'
<1>1. CASE Run
  <2>1. TypeOK'
    BY <1>1 DEF Run, IInv, TypeOK, Locations, poolVars, eventVars, clientVars, appVars
  <2>2. QED
    BY <1>1, <2>1, IdleKeeps DEF Run
<1>2. CASE ServerAdd /\ ConnGet(ListenFd, "accept")
  <2> USE <1>2 DEF ServerAdd, IInv
  <2>1. /\ ListenFd \in Nat \ {0} /\ "accept" \in Handlers
        /\ fds' = fds \cup {ListenFd} /\ \A i \in InUse : sock[i] # ListenFd
        /\ open' = open /\ pc = "setup" /\ pc' = pc /\ cur' = cur
    BY FdsAssumption DEF SetupFds, Handlers, appVars, InUse
  <2>2. /\ FreeListExact' /\ CountersExact' /\ FdOwned' /\ AppView' /\ ActiveInUse'
        /\ \A i \in Slots : timer'[i] => i \in Streams'
        /\ \A i \in open' : timer'[i] \/ i = Top
        /\ Top \notin open
    BY <2>1, GetKeeps
  <2>3. TypeOK'
    BY <2>1, GetTypes DEF TypeOK, clientVars, appVars
  <2>4. TimersBelong' /\ HandlerLive' /\ SetupFds'
    BY <2>1, <2>2 DEF TimersBelong, HandlerLive, SetupFds
  <2>5. QED
    BY <2>2, <2>3, <2>4
<1>3. CASE ServerAdd /\ ConnGetLeaks(ListenFd)
  <2> USE <1>3 DEF ServerAdd, IInv
  <2>1. ListenFd \in Nat \ {0} /\ fds' = fds /\ open' = open /\ pc' = pc /\ pc = "setup"
    BY FdsAssumption DEF appVars
  <2>2. /\ FreeListExact' /\ CountersExact' /\ FdOwned' /\ AppView' /\ ActiveInUse'
        /\ \A i \in Slots : timer'[i] => i \in Streams'
        /\ timer' = timer
    BY <2>1, LeakKeeps
  <2>3. TypeOK'
    BY LeakTypes, <2>1 DEF TypeOK, clientVars, appVars, eventVars, ConnGetLeaks
  <2>4. TimersBelong' /\ HandlerLive' /\ SetupFds'
    BY <2>1, <2>2 DEF TimersBelong, HandlerLive, SetupFds
  <2>5. QED
    BY <2>2, <2>3, <2>4
<1>4. QED
  BY <1>1, <1>2, <1>3 DEF ServerAdd

LEMMA DispatchKeeps == ASSUME IInv, Dispatch PROVE IInv'
<1> USE DEF IInv
<1>1. ASSUME NEW e \in batch, DispatchError(e) PROVE IInv'
  <2>1. e.slot \in InUse /\ batch' \subseteq Events
    BY <1>1 DEF DispatchError, TypeOK, Events, InUse
  <2>2. QED
    BY <1>1, <2>1, ClosingKeeps DEF DispatchError, Take, Locations
<1>2. ASSUME NEW e \in batch, DispatchCrash(e) PROVE IInv'
  <2>1. TypeOK'
    BY <1>2 DEF DispatchCrash, TypeOK, Locations, poolVars, eventVars, clientVars, appVars
  <2>2. QED
    BY <1>2, <2>1, IdleKeeps DEF DispatchCrash, Take
<1>3. ASSUME NEW e \in batch, DispatchAccept(e) PROVE IInv'
  <2>1. TypeOK'
    BY <1>3 DEF DispatchAccept, TypeOK, Locations, poolVars, eventVars, clientVars, appVars
  <2>2. QED
    BY <1>3, <2>1, IdleKeeps DEF DispatchAccept, Take
<1>4. ASSUME NEW e \in batch, DispatchRead(e) PROVE IInv'
  <2>1. e.slot \in Streams
    <3>1. e.slot \in Slots /\ ractive[e.slot] /\ handler[e.slot] = "read"
      BY <1>4 DEF DispatchRead, Reads, TypeOK, Events
    <3>2. QED
      BY <3>1 DEF ActiveInUse, Streams
  <2>2. e.slot \in Slots
    BY <2>1 DEF Streams, InUse
  <2>3. TypeOK'
    <3>1. pc' \in Locations /\ cur' \in Slots /\ after' \in {"accept", "write", "dispatch"}
      BY <1>4, <2>2 DEF DispatchRead, Locations
    <3>2. QED
      BY <1>4, <3>1 DEF DispatchRead, TypeOK, poolVars, eventVars, clientVars, appVars
  <2>4. QED
    BY <1>4, <2>1, <2>3, IdleKeeps DEF DispatchRead, Take
<1>5. ASSUME NEW e \in batch, DispatchWrite(e) PROVE IInv'
  <2>1. e.slot \in Slots
    BY DEF TypeOK, Events
  <2>2. TypeOK'
    BY <1>5, <2>1 DEF DispatchWrite, TypeOK, Locations, poolVars, eventVars, clientVars, appVars
  <2>3. QED
    BY <1>5, <2>2, IdleKeeps DEF DispatchWrite, Take
<1>6. ASSUME NEW e \in batch, DispatchSkip(e) PROVE IInv'
  <2>1. TypeOK'
    BY <1>6 DEF DispatchSkip, TypeOK, poolVars, eventVars, clientVars, appVars
  <2>2. QED
    BY <1>6, <2>1, IdleKeeps DEF DispatchSkip, Take
<1>7. CASE DispatchDone
  <2>1. TypeOK'
    BY <1>7 DEF DispatchDone, TypeOK, Locations, poolVars, eventVars, clientVars, appVars
  <2>2. QED
    BY <1>7, <2>1, IdleKeeps DEF DispatchDone
<1>8. QED
  BY <1>1, <1>2, <1>3, <1>4, <1>5, <1>6, <1>7 DEF Dispatch

LEMMA EpollWaitKeeps == ASSUME IInv, EpollWait PROVE IInv'
<1>1. batch' \subseteq Events
  <2>1. PICK ready \in [Registered -> {{}} \cup EventKinds] :
          batch' = {[slot |-> i, kinds |-> ready[i], owner |-> "own"] :
                      i \in {j \in Registered : ready[j] # {}}}
    BY DEF EpollWait
  <2>2. \A i \in Registered : i \in Slots /\ ready[i] \in {{}} \cup EventKinds
    BY <2>1 DEF Registered, InUse
  <2>3. ASSUME NEW e \in batch' PROVE e \in Events
    <3>1. PICK i \in Registered :
            ready[i] # {} /\ e = [slot |-> i, kinds |-> ready[i], owner |-> "own"]
      BY <2>1
    <3>2. i \in Slots /\ ready[i] \in EventKinds
      BY <2>2, <3>1
    <3>3. QED
      BY <3>1, <3>2 DEF Events, Owners
  <2>4. QED
    BY <2>3
<1>2. TypeOK'
  BY <1>1 DEF EpollWait, IInv, TypeOK, Locations, poolVars, eventVars, clientVars, appVars
<1>3. QED
  BY <1>2, IdleKeeps DEF EpollWait

LEMMA AcceptKeeps == ASSUME IInv, Accept PROVE IInv'
<1> USE DEF IInv
<1>1. CASE AcceptAgain \/ AcceptNoFd \/ AcceptAborted \/ AcceptRefuse
  <2>1. /\ UNCHANGED <<poolVars, eventVars, fds, batch, appVars>>
        /\ pc = "accept" /\ pc' \in {"accept", "dispatch"} /\ cur' = cur /\ after' = after
        /\ backlog' \in Nat /\ arrived' \in Nat
    BY <1>1 DEF AcceptAgain, AcceptNoFd, AcceptAborted, AcceptRefuse, Accept4,
                EndAccept, TypeOK, clientVars
  <2>2. TypeOK'
    BY <2>1 DEF TypeOK, Locations, poolVars, eventVars, appVars
  <2>3. QED
    BY <2>1, <2>2, IdleKeeps
<1>2. CASE AcceptLeak
  <2>1. PICK s \in Fds : Accept4(s) /\ ConnGetLeaks(s) /\ EndAccept
    BY <1>2 DEF AcceptLeak
  <2>2. /\ s \in Nat \ {0} /\ fds' = fds /\ open' = open
        /\ pc = "accept" /\ pc' = "dispatch" /\ cur' = cur /\ after' = after
        /\ backlog' \in Nat /\ arrived' \in Nat
    BY <1>2, <2>1, FdsAssumption DEF AcceptLeak, Accept4, EndAccept, appVars, TypeOK
  <2>3. /\ FreeListExact' /\ CountersExact' /\ FdOwned' /\ AppView' /\ ActiveInUse'
        /\ \A i \in Slots : timer'[i] => i \in Streams'
        /\ timer' = timer
    BY <2>1, <2>2, LeakKeeps
  <2>4. TypeOK'
    BY <1>2, <2>1, <2>2, LeakTypes
       DEF AcceptLeak, TypeOK, Locations, appVars, eventVars, ConnGetLeaks
  <2>5. TimersBelong' /\ HandlerLive' /\ SetupFds'
    BY <2>2, <2>3 DEF TimersBelong, HandlerLive, SetupFds
  <2>6. QED
    BY <2>3, <2>4, <2>5
<1>3. CASE AcceptHalf
  <2>1. PICK s \in Fds : Accept4(s) /\ ConnGet(s, "none") /\ EndAccept
                        /\ fds' = fds \cup {s}
    BY <1>3 DEF AcceptHalf
  <2>2. /\ s \in Nat \ {0} /\ open' = open /\ known' = known
        /\ \A i \in InUse : sock[i] # s
        /\ pc = "accept" /\ pc' = "dispatch" /\ cur' = cur /\ after' = after
        /\ backlog' \in Nat /\ arrived' \in Nat
        /\ "none" \in Handlers /\ "none" # "read"
    BY <1>3, <2>1, FdsAssumption
       DEF AcceptHalf, Accept4, EndAccept, appVars, TypeOK, FdOwned, Handlers
  <2>3. /\ FreeListExact' /\ CountersExact' /\ FdOwned' /\ AppView' /\ ActiveInUse'
        /\ \A i \in Slots : timer'[i] => i \in Streams'
        /\ \A i \in open' : timer'[i] \/ i = Top
        /\ Top \notin open
    BY <2>1, <2>2, GetKeeps
  <2>4. TypeOK'
    <3>1. fds' \subseteq Nat \ {0} /\ open' \subseteq Slots /\ known' \subseteq Slots
      BY <2>1, <2>2 DEF TypeOK
    <3>2. QED
      BY <2>1, <2>2, <3>1, GetTypes DEF TypeOK, Locations
  <2>5. TimersBelong' /\ HandlerLive' /\ SetupFds'
    BY <2>2, <2>3 DEF TimersBelong, HandlerLive, SetupFds
  <2>6. QED
    BY <2>3, <2>4, <2>5
<1>4. CASE AcceptConn
  <2>1. PICK s \in Fds : /\ Accept4(s) /\ ConnGet(s, "read")
                        /\ pc' = "read" /\ cur' = Top /\ after' = "accept"
                        /\ fds' = fds \cup {s}
                        /\ open' = open \cup {Top} /\ known' = known \cup {Top}
    BY <1>4 DEF AcceptConn
  <2>2. /\ s \in Nat \ {0} /\ \A i \in InUse : sock[i] # s
        /\ pc = "accept"
        /\ backlog' \in Nat /\ arrived' \in Nat /\ "read" \in Handlers
    BY <2>1, FdsAssumption DEF Accept4, TypeOK, FdOwned, Handlers
  <2>3. /\ FreeListExact' /\ CountersExact' /\ FdOwned' /\ AppView' /\ ActiveInUse'
        /\ \A i \in Slots : timer'[i] => i \in Streams'
        /\ \A i \in open' : timer'[i] \/ i = Top
        /\ Top \in Streams'
    BY <2>1, <2>2, GetKeeps
  <2>4. TypeOK'
    <3>1. Top \in Slots
      BY <2>1, GetSets, <2>2
    <3>2. /\ fds' \subseteq Nat \ {0} /\ open' \subseteq Slots /\ known' \subseteq Slots
          /\ cur' \in Slots
      BY <2>1, <2>2, <3>1 DEF TypeOK
    <3>3. QED
      BY <2>1, <2>2, <3>2, GetTypes DEF TypeOK, Locations
  <2>5. TimersBelong' /\ HandlerLive' /\ SetupFds'
    BY <2>1, <2>3 DEF TimersBelong, HandlerLive, SetupFds
  <2>6. QED
    BY <2>3, <2>4, <2>5
<1>5. QED
  BY <1>1, <1>2, <1>3, <1>4 DEF Accept

LEMMA HandleKeeps == ASSUME IInv, Handle PROVE IInv'
<1> USE DEF IInv
<1>1. after \in Locations \ {"read", "setup"}
  BY DEF TypeOK, Locations
<1>2. CASE ReadKeep
  <2>1. cur \in InUse /\ cur \in Streams
    BY <1>2 DEF ReadKeep, HandlerLive, Streams
  <2>2. QED
    BY <1>1, <1>2, <2>1, RearmKeeps DEF ReadKeep
<1>3. CASE ReadClose
  <2>1. cur \in InUse /\ batch' \subseteq Events
    BY <1>3 DEF ReadClose, HandlerLive, Streams, TypeOK
  <2>2. QED
    BY <1>1, <1>3, <2>1, ClosingKeeps DEF ReadClose
<1>4. CASE WriteKeep
  <2>1. CASE ~CanWrite
    <3>1. wactive' = wactive
      BY <1>4, <2>1 DEF WriteKeep, TypeOK
    <3>2. TypeOK'
      BY <1>4, <3>1 DEF WriteKeep, TypeOK, Locations, poolVars, clientVars, appVars
    <3>3. QED
      BY <1>4, <3>1, <3>2, IdleKeeps DEF WriteKeep, eventVars
  <2>2. CASE CanWrite
    <3>1. cur \in InUse /\ timer' = [timer EXCEPT ![cur] = timer[cur]]
      BY <1>4, <2>2 DEF WriteKeep, CanWrite, ActiveInUse, TypeOK
    <3>2. timer[cur] \in BOOLEAN /\ "dispatch" \in Locations \ {"read", "setup"}
      BY DEF TypeOK, Locations
    <3>3. QED
      BY <1>4, <3>1, <3>2, RearmKeeps DEF WriteKeep
  <2>3. QED
    BY <2>1, <2>2
<1>5. CASE WriteFail
  <2>1. cur \in InUse /\ batch' \subseteq Events
    BY <1>5 DEF WriteFail, CanWrite, ActiveInUse, TypeOK
  <2>2. QED
    BY <1>5, <2>1, ClosingKeeps DEF WriteFail, Locations
<1>6. QED
  BY <1>2, <1>3, <1>4, <1>5 DEF Handle

LEMMA TimersKeep == ASSUME IInv, Timers PROVE IInv'
<1> USE DEF IInv
<1>1. ASSUME NEW i \in Slots, Expire(i) PROVE IInv'
  <2>1. i \in InUse /\ batch' \subseteq Events
    BY <1>1 DEF Expire, TimersBelong, Streams, TypeOK
  <2>2. QED
    BY <1>1, <2>1, ClosingKeeps DEF Expire, Locations
<1>2. CASE ExpireDone
  <2>1. TypeOK'
    BY <1>2 DEF ExpireDone, TypeOK, Locations, poolVars, eventVars, clientVars, appVars
  <2>2. QED
    BY <1>2, <2>1, IdleKeeps DEF ExpireDone
<1>3. QED
  BY <1>1, <1>2 DEF Timers

LEMMA RequestsKeep == ASSUME IInv, Requests PROVE IInv'
<1> USE DEF IInv
<1>1. ASSUME NEW i \in Slots, TcpSendKeep(i) PROVE IInv'
  <2>1. i \in InUse /\ timer' = [timer EXCEPT ![i] = timer[i]] /\ timer[i] \in BOOLEAN
    BY <1>1 DEF TcpSendKeep, TypeOK, InUse
  <2>2. "dispatch" \in Locations \ {"read", "setup"}
    BY DEF Locations
  <2>3. QED
    BY <1>1, <2>1, <2>2, RearmKeeps DEF TcpSendKeep
<1>2. ASSUME NEW i \in Slots, TcpSendFail(i) PROVE IInv'
  <2>1. i \in InUse /\ batch' \subseteq Events
    BY <1>2, MarkedType DEF TcpSendFail, InUse, TypeOK, Owners
  <2>2. QED
    BY <1>2, <2>1, ClosingKeeps DEF TcpSendFail, Locations
<1>3. ASSUME NEW i \in Slots, TcpSendCrash(i) PROVE IInv'
  <2>1. TypeOK'
    BY <1>3 DEF TcpSendCrash, TypeOK, Locations, poolVars, eventVars, clientVars, appVars
  <2>2. QED
    BY <1>3, <2>1, IdleKeeps DEF TcpSendCrash
<1>4. QED
  BY <1>1, <1>2, <1>3 DEF Requests

LEMMA StepKeepsIInv == ASSUME IInv, [Next]_vars PROVE IInv'
<1>1. CASE ClientArrives
  <2>1. TypeOK'
    BY <1>1 DEF ClientArrives, IInv, TypeOK, poolVars, eventVars, appVars
  <2>2. pc' = pc /\ cur' = cur /\ (pc' = "read" => cur' \in Streams)
    BY <1>1 DEF ClientArrives, IInv, HandlerLive
  <2>3. QED
    BY <1>1, <2>1, <2>2, IdleKeeps DEF ClientArrives
<1>2. CASE UNCHANGED vars
  <2>1. TypeOK'
    BY <1>2 DEF vars, IInv, TypeOK
  <2>2. QED
    BY <1>2, <2>1, IdleKeeps
       DEF vars, poolVars, eventVars, appVars, IInv, HandlerLive
<1>3. QED
  BY <1>1, <1>2, SetupKeeps, EpollWaitKeeps, DispatchKeeps, AcceptKeeps,
     HandleKeeps, TimersKeep, RequestsKeep DEF Next, Loop
-----------------------------------------------------------------------------
(* The results.                                                            *)

(* In every reachable state of the loop IInv holds.                        *)
THEOREM Invariance == Spec => []IInv
BY InitIInv, StepKeepsIInv, PTL DEF Spec

(* Every part of the state keeps its type, for every number of slots and   *)
(* clients and whatever allocations fail.                                  *)
THEOREM TypeCorrect == Spec => []TypeOK
<1>1. IInv => TypeOK
  BY DEF IInv
<1>2. QED
  BY <1>1, Invariance, PTL

(* ws_conn_get never hands out a slot that is in use, and the counters     *)
(* conn_num and free_conn_num agree with the slots.                        *)
THEOREM PoolIsConserved == Spec => []PoolConserved
<1>1. IInv => PoolConserved
  BY DEF IInv, PoolConserved
<1>2. QED
  BY <1>1, Invariance, PTL

(* No path of ws_event_accept or ws_conn_close loses a descriptor or lets  *)
(* two connections share one.                                              *)
THEOREM DescriptorsOwned == Spec => []FdOwned
<1>1. IInv => FdOwned
  BY DEF IInv
<1>2. QED
  BY <1>1, Invariance, PTL

(* ws_event_timer_expire never runs the handler of a freed slot, and every *)
(* connection the application knows of has a deadline.                     *)
THEOREM DeadlinesBelong == Spec => []TimersBelong
<1>1. IInv => TimersBelong
  BY DEF IInv
<1>2. QED
  BY <1>1, Invariance, PTL

(* What the application was told of by on_connect and on_closed is exactly *)
(* what the loop serves.                                                   *)
THEOREM ApplicationView == Spec => []AppView
<1>1. IInv => AppView
  BY DEF IInv
<1>2. QED
  BY <1>1, Invariance, PTL

-----------------------------------------------------------------------------
(* What no step does: disarm a listener, close a connection the application *)
(* was not told of, or hand an event to a connection that took the slot.    *)
(* The two exceptions are those ClosePaired and NoStaleEvent name.          *)

(* A listener is watched; no error event and no index the application       *)
(* knows names it.  Listeners come to be before the loop runs.              *)
ListenerInv ==
  /\ pc = "setup" => batch = {} /\ known = {}
  /\ \A e \in batch : handler[e.slot] = "accept" => "err" \notin e.kinds
  /\ \A i \in known : handler[i] # "accept"
  /\ \A i \in InUse : handler[i] = "accept" => ractive[i]

(* An event left in the batch is that of the connection in its slot, or of  *)
(* one a request to send closed; no other event names the slot, and the     *)
(* handler that runs is not of a slot with an event of its own left.        *)
OwnEvents ==
  /\ \A e \in batch : e.owner # "other" /\ (e.owner = "own" => e.slot \in InUse)
  /\ \A e, f \in batch : e.slot = f.slot => e = f
  /\ pc \in {"read", "write"} => \A e \in batch : e.owner = "own" => e.slot # cur
  /\ pc \in {"setup", "wait", "expire"} => batch = {}

-----------------------------------------------------------------------------
(* What the pool's operations do to the parts these invariants read.        *)

LEMMA CloseEffect ==
  ASSUME IInv, NEW i \in InUse, ConnClose(i)
  PROVE  /\ i \in Slots /\ handler' = handler /\ known' = known
         /\ InUse' = InUse \ {i}
         /\ \A j \in Slots : j # i => ractive'[j] = ractive[j] /\ wactive'[j] = wactive[j]
         /\ ~ractive'[i] /\ ~wactive'[i] /\ sock'[i] = -1
         /\ \A j \in Slots : j # i => pool'[j] = pool[j]
<1>1. i \in Slots /\ InUse' = InUse \ {i}
  BY CloseSets DEF IInv
<1> QED
  BY <1>1 DEF ConnClose, DelConn, ConnFree, IInv, TypeOK

LEMMA GetEffect ==
  ASSUME IInv, NEW s \in Nat \ {0}, NEW h \in Handlers, ConnGet(s, h)
  PROVE  /\ Top \in Slots \ InUse /\ InUse' = InUse \cup {Top}
         /\ handler'[Top] = h /\ ractive'[Top] = (h # "none") /\ wactive'[Top] = (h = "read")
         /\ \A j \in Slots : j # Top => /\ handler'[j] = handler[j]
                                        /\ ractive'[j] = ractive[j] /\ wactive'[j] = wactive[j]
         /\ batch' = Disowned(Top)
<1>1. Top \in Slots \ InUse /\ InUse' = InUse \cup {Top}
  BY GetSets DEF IInv
<1> QED
  BY <1>1 DEF ConnGet, IInv, TypeOK

LEMMA LeakEffect ==
  ASSUME IInv, NEW s \in Nat \ {0}, ConnGetLeaks(s)
  PROVE  /\ Top \in Slots \ InUse /\ InUse' = InUse
         /\ UNCHANGED <<handler, ractive, wactive>>
         /\ batch' = Disowned(Top)
<1>1. Top \in Slots \ InUse /\ InUse' = InUse
  BY LeakSets DEF IInv
<1> QED
  BY <1>1 DEF ConnGetLeaks, eventVars

(* Disowning marks events of one slot and changes nothing else.             *)
LEMMA DisownedEvents ==
  ASSUME TypeOK, NEW i
  PROVE  /\ \A e \in Disowned(i) : \E f \in batch : e.slot = f.slot /\ e.kinds = f.kinds
         /\ (\A e \in batch : e.owner = "own" => e.slot # i) => Disowned(i) = batch
<1>1. batch \subseteq Events
  BY DEF TypeOK
<1>2. /\ \A e \in Disowned(i) : \E f \in batch :
           e = IF f.slot = i /\ f.owner = "own"
                 THEN [slot |-> f.slot, kinds |-> f.kinds, owner |-> "other"] ELSE f
      /\ (\A e \in batch : e.owner = "own" => e.slot # i) => Disowned(i) = batch
  BY <1>1, MarkedEvents DEF Disowned
<1> QED
  BY <1>2

-----------------------------------------------------------------------------
(* The listener.                                                           *)

\* What ListenerKept says of one step.
Kept == \A i \in InUse : handler[i] = "accept" =>
          pool'[i] = "live" /\ handler'[i] = "accept" /\ ractive'[i]

(* Steps that leave the slots in use and what is watched alone.             *)
LEMMA QuietListener ==
  ASSUME IInv, ListenerInv, UNCHANGED <<pool, handler, ractive, known>>,
         batch' \subseteq batch, pc' = "setup" => pc = "setup"
  PROVE  ListenerInv' /\ Kept
<1>1. InUse' = InUse
  BY DEF InUse
<1> QED
  BY <1>1 DEF ListenerInv, Kept, InUse

LEMMA CloseListener ==
  ASSUME IInv, ListenerInv, NEW i \in InUse, handler[i] # "accept", ConnClose(i),
         \A e \in batch' : \E f \in batch : e.slot = f.slot /\ e.kinds = f.kinds,
         pc' # "setup"
  PROVE  ListenerInv' /\ Kept
<1>1. /\ i \in Slots /\ handler' = handler /\ known' = known
      /\ InUse' = InUse \ {i}
      /\ \A j \in Slots : j # i => ractive'[j] = ractive[j] /\ pool'[j] = pool[j]
  BY CloseEffect
<1>2. InUse \subseteq Slots /\ \A j \in InUse : pool[j] = "live"
  BY DEF InUse
<1>3. Kept
  BY <1>1, <1>2 DEF ListenerInv, Kept
<1> QED
  BY <1>1, <1>2, <1>3 DEF ListenerInv

LEMMA GetListener ==
  ASSUME IInv, ListenerInv, NEW s \in Nat \ {0}, NEW h \in Handlers, ConnGet(s, h),
         h = "accept" => pc = "setup" /\ known' = known,
         known' \subseteq known \cup {Top}, pc' = "setup" => h = "accept"
  PROVE  ListenerInv' /\ Kept
<1>1. /\ Top \in Slots \ InUse /\ InUse' = InUse \cup {Top}
      /\ handler'[Top] = h /\ ractive'[Top] = (h # "none")
      /\ \A j \in Slots : j # Top => handler'[j] = handler[j] /\ ractive'[j] = ractive[j]
      /\ batch' = Disowned(Top)
  BY GetEffect
<1>2. /\ \A e \in batch' : \E f \in batch : e.slot = f.slot /\ e.kinds = f.kinds
      /\ \A f \in batch : f.slot \in Slots
  BY <1>1, DisownedEvents DEF IInv, TypeOK, Events
<1>3. InUse \subseteq Slots /\ known \subseteq Slots /\ \A j \in InUse' : pool'[j] = "live"
  BY DEF InUse, IInv, TypeOK
<1>4. h = "accept" => batch' = {} /\ known' = {}
  BY <1>2 DEF ListenerInv
<1>5. h # "accept" => \A e \in batch' : handler'[e.slot] = "accept" => "err" \notin e.kinds
  BY <1>1, <1>2 DEF ListenerInv
<1>6. \A i \in known' : handler'[i] # "accept"
  BY <1>1, <1>3, <1>4 DEF ListenerInv
<1>7. \A i \in InUse' : handler'[i] = "accept" => ractive'[i]
  BY <1>1, <1>3 DEF ListenerInv
<1>8. Kept
  BY <1>1, <1>3 DEF ListenerInv, Kept
<1> QED
  BY <1>4, <1>5, <1>6, <1>7, <1>8 DEF ListenerInv

LEMMA LeakListener ==
  ASSUME IInv, ListenerInv, NEW s \in Nat \ {0}, ConnGetLeaks(s), known' = known,
         pc' = "setup" => pc = "setup"
  PROVE  ListenerInv' /\ Kept
<1>1. /\ Top \in Slots \ InUse /\ InUse' = InUse
      /\ UNCHANGED <<handler, ractive>> /\ batch' = Disowned(Top)
  BY LeakEffect
<1>2. \A e \in batch' : \E f \in batch : e.slot = f.slot /\ e.kinds = f.kinds
  BY <1>1, DisownedEvents DEF IInv
<1>3. \A j \in InUse' : pool'[j] = "live"
  BY DEF InUse
<1> QED
  BY <1>1, <1>2, <1>3 DEF ListenerInv, Kept

(* A listener is reported for input only.                                   *)
LEMMA WaitListener ==
  ASSUME IInv, ListenerInv, EpollWait
  PROVE  ListenerInv' /\ Kept
<1>1. PICK ready \in [Registered -> {{}} \cup EventKinds] :
        /\ \A i \in Registered : ready[i] \in Reports(i)
        /\ batch' = {[slot |-> i, kinds |-> ready[i], owner |-> "own"] :
                       i \in {j \in Registered : ready[j] # {}}}
  BY DEF EpollWait
<1>2. \A i \in Registered : handler[i] = "accept" => "err" \notin ready[i]
  BY <1>1 DEF Reports
<1>3. \A e \in batch' : handler[e.slot] = "accept" => "err" \notin e.kinds
  BY <1>1, <1>2
<1>4. UNCHANGED <<pool, handler, ractive, known>> /\ pc' # "setup" /\ InUse' = InUse
  BY DEF EpollWait, poolVars, eventVars, appVars, InUse
<1> QED
  BY <1>3, <1>4 DEF ListenerInv, Kept, InUse

LEMMA ListenerInit == ASSUME Init PROVE ListenerInv
BY DEF Init, ListenerInv, InUse

LEMMA ListenerStep ==
  ASSUME IInv, ListenerInv, [Next]_vars
  PROVE  ListenerInv' /\ Kept
<1> USE DEF IInv
<1>1. CASE ServerAdd
  <2>1. ListenFd \in Nat \ {0} /\ "accept" \in Handlers
    BY FdsAssumption DEF Handlers
  <2>2. CASE ConnGet(ListenFd, "accept")
    BY <1>1, <2>1, <2>2, GetListener DEF ServerAdd, appVars
  <2>3. CASE ConnGetLeaks(ListenFd)
    BY <1>1, <2>1, <2>3, LeakListener DEF ServerAdd, appVars
  <2> QED BY <1>1, <2>2, <2>3 DEF ServerAdd
<1>2. CASE Run \/ ClientArrives \/ UNCHANGED vars
  BY <1>2, QuietListener DEF Run, ClientArrives, vars, poolVars, eventVars, appVars
<1>3. CASE EpollWait
  BY <1>3, WaitListener
<1>4. CASE Dispatch
  <2>1. ASSUME NEW e \in batch, DispatchError(e) PROVE ListenerInv' /\ Kept
    <3>1. e.slot \in InUse /\ handler[e.slot] # "accept"
      BY <2>1 DEF DispatchError, TypeOK, Events, InUse, ListenerInv
    <3> QED
      BY <2>1, <3>1, CloseListener DEF DispatchError, Take
  <2>2. ASSUME NEW e \in batch,
               \/ DispatchCrash(e) \/ DispatchAccept(e)
               \/ DispatchRead(e) \/ DispatchWrite(e) \/ DispatchSkip(e)
        PROVE  ListenerInv' /\ Kept
    BY <2>2, QuietListener
    DEF DispatchCrash, DispatchAccept, DispatchRead, DispatchWrite, DispatchSkip, Take,
        poolVars, eventVars, appVars
  <2>3. CASE DispatchDone
    BY <2>3, QuietListener DEF DispatchDone, poolVars, eventVars, appVars
  <2> QED BY <1>4, <2>1, <2>2, <2>3 DEF Dispatch
<1>5. CASE Accept
  <2>1. CASE AcceptAgain \/ AcceptNoFd \/ AcceptAborted \/ AcceptRefuse
    BY <2>1, QuietListener
    DEF AcceptAgain, AcceptNoFd, AcceptAborted, AcceptRefuse, Accept4, EndAccept,
        poolVars, eventVars, appVars
  <2>2. CASE AcceptLeak
    BY <2>2, LeakListener, FdsAssumption DEF AcceptLeak, Accept4, EndAccept, appVars
  <2>3. CASE AcceptHalf
    <3>1. "none" \in Handlers
      BY DEF Handlers
    <3> QED
      BY <2>3, <3>1, GetListener, FdsAssumption DEF AcceptHalf, Accept4, EndAccept, appVars
  <2>4. CASE AcceptConn
    <3>1. "read" \in Handlers
      BY DEF Handlers
    <3> QED
      BY <2>4, <3>1, GetListener, FdsAssumption DEF AcceptConn, Accept4
  <2> QED BY <1>5, <2>1, <2>2, <2>3, <2>4 DEF Accept
<1>6. CASE Handle
  <2>1. CASE ReadKeep \/ WriteKeep
    <3>1. after # "setup"
      BY DEF TypeOK
    <3> QED
      BY <2>1, <3>1, QuietListener DEF ReadKeep, WriteKeep, poolVars, appVars
  <2>2. CASE ReadClose
    <3>1. cur \in InUse /\ handler[cur] # "accept" /\ after # "setup"
      BY <2>2 DEF ReadClose, HandlerLive, Streams, TypeOK
    <3> QED
      BY <2>2, <3>1, CloseListener DEF ReadClose
  <2>3. CASE WriteFail
    <3>1. cur \in InUse /\ handler[cur] # "accept"
      BY <2>3 DEF WriteFail, CanWrite, ActiveInUse, TypeOK
    <3> QED
      BY <2>3, <3>1, CloseListener DEF WriteFail
  <2> QED BY <1>6, <2>1, <2>2, <2>3 DEF Handle
<1>7. CASE Timers
  <2>1. ASSUME NEW i \in Slots, Expire(i) PROVE ListenerInv' /\ Kept
    <3>1. i \in InUse /\ handler[i] # "accept"
      BY <2>1 DEF Expire, TimersBelong, Streams
    <3> QED
      BY <2>1, <3>1, CloseListener DEF Expire
  <2>2. CASE ExpireDone
    BY <2>2, QuietListener DEF ExpireDone, poolVars, eventVars, appVars
  <2> QED BY <1>7, <2>1, <2>2 DEF Timers
<1>8. CASE Requests
  <2>1. ASSUME NEW i \in Slots, TcpSendKeep(i) \/ TcpSendCrash(i) PROVE ListenerInv' /\ Kept
    BY <2>1, QuietListener DEF TcpSendKeep, TcpSendCrash, poolVars, eventVars, appVars
  <2>2. ASSUME NEW i \in Slots, TcpSendFail(i) PROVE ListenerInv' /\ Kept
    <3>1. i \in InUse /\ handler[i] # "accept"
      BY <2>2 DEF TcpSendFail, InUse, ListenerInv
    <3>2. \A e \in batch' : \E f \in batch : e.slot = f.slot /\ e.kinds = f.kinds
      BY <2>2, MarkedEvents DEF TcpSendFail, TypeOK
    <3> QED
      BY <2>2, <3>1, <3>2, CloseListener DEF TcpSendFail
  <2> QED BY <1>8, <2>1, <2>2 DEF Requests
<1> QED
  BY <1>1, <1>2, <1>3, <1>4, <1>5, <1>6, <1>7, <1>8 DEF Next, Loop

(* A server that got its slot keeps it, watched, with the accept handler:   *)
(* no error event, deadline or request to send with a reused index reaches  *)
(* a listener.                                                              *)
THEOREM ListenersStay == Spec => ListenerKept
<1>1. ListenerInv /\ IInv /\ [Next]_vars => ListenerInv'
  BY ListenerStep
<1>2. ListenerInv /\ IInv /\ [Next]_vars =>
        [\A i \in InUse : handler[i] = "accept" =>
           pool'[i] = "live" /\ handler'[i] = "accept" /\ ractive'[i]]_vars
  BY ListenerStep DEF Kept
<1>3. Init => ListenerInv
  BY ListenerInit
<1> QED
  BY <1>1, <1>2, <1>3, Invariance, PTL DEF Spec, ListenerKept

-----------------------------------------------------------------------------
(* The events of a batch.                                                  *)

\* What ClosePaired says of one step.
Paired == \A i \in Slots : pool[i] = "live" /\ pool'[i] = "null"
                             => i \in open \/ handler[i] = "none"

LEMMA QuietEvents ==
  ASSUME IInv, OwnEvents, UNCHANGED <<pool, handler>>, batch' \subseteq batch,
         pc' \in {"read", "write"} => \A e \in batch' : e.owner = "own" => e.slot # cur',
         pc' \in {"setup", "wait", "expire"} => batch' = {}
  PROVE  OwnEvents' /\ Paired
<1>1. InUse' = InUse
  BY DEF InUse
<1>2. Paired
  BY DEF Paired
<1> QED
  BY <1>1, <1>2 DEF OwnEvents

LEMMA CloseEvents ==
  ASSUME IInv, OwnEvents, NEW i \in InUse, handler[i] # "accept", ConnClose(i),
         batch' \subseteq batch \/ batch' = Marked(i, "cut"),
         \A e \in batch' : e.owner = "own" => e.slot # i,
         pc' \in {"read", "write"} => \A e \in batch' : e.owner = "own" => e.slot # cur',
         pc' \in {"setup", "wait", "expire"} => batch' = {}
  PROVE  OwnEvents' /\ Paired
<1>1. i \in open \/ handler[i] = "none"
  <2>1. i \in Slots /\ handler[i] \in Handlers
    BY DEF InUse, IInv, TypeOK
  <2> QED
    BY <2>1 DEF Handlers, Streams, IInv, AppView
<1>2. /\ i \in Slots /\ InUse' = InUse \ {i}
      /\ \A j \in Slots : j # i => pool'[j] = pool[j]
  BY CloseEffect
<1>3. Paired
  BY <1>1, <1>2 DEF Paired
<1>4. /\ \A e \in batch' : e.owner # "other" /\ (e.owner = "own" => e.slot \in InUse)
      /\ \A e, f \in batch' : e.slot = f.slot => e = f
  <2>1. CASE batch' \subseteq batch
    BY <2>1 DEF OwnEvents
  <2>2. CASE batch' = Marked(i, "cut")
    <3>1. \A e \in batch' : \E f \in batch :
            e = IF f.slot = i /\ f.owner = "own"
                  THEN [slot |-> f.slot, kinds |-> f.kinds, owner |-> "cut"] ELSE f
      BY <2>2, MarkedEvents DEF IInv, TypeOK
    <3>2. \A e \in batch' : e.owner # "other" /\ (e.owner = "own" => e.slot \in InUse)
      BY <3>1 DEF OwnEvents
    <3>3. ASSUME NEW e \in batch', NEW f \in batch', e.slot = f.slot PROVE e = f
      <4>1. PICK g \in batch :
              e = IF g.slot = i /\ g.owner = "own"
                    THEN [slot |-> g.slot, kinds |-> g.kinds, owner |-> "cut"] ELSE g
        BY <3>1
      <4>2. PICK h \in batch :
              f = IF h.slot = i /\ h.owner = "own"
                    THEN [slot |-> h.slot, kinds |-> h.kinds, owner |-> "cut"] ELSE h
        BY <3>1
      <4>3. e.slot = g.slot /\ f.slot = h.slot
        BY <4>1, <4>2
      <4>4. g = h
        BY <3>3, <4>3 DEF OwnEvents
      <4> QED
        BY <4>1, <4>2, <4>4
    <3> QED
      BY <3>2, <3>3
  <2> QED
    BY <2>1, <2>2
<1> QED
  BY <1>2, <1>3, <1>4 DEF OwnEvents

(* A slot that is handed out has no event of its own in the batch.          *)
LEMMA GetEvents ==
  ASSUME IInv, OwnEvents, NEW s \in Nat \ {0}, NEW h \in Handlers, ConnGet(s, h),
         pc' \in {"read", "write"} => cur' = Top,
         pc' \in {"setup", "wait", "expire"} => pc = "setup"
  PROVE  OwnEvents' /\ Paired
<1>1. Top \in Slots \ InUse /\ InUse' = InUse \cup {Top} /\ batch' = Disowned(Top)
  BY GetEffect
<1>2. \A e \in batch : e.owner = "own" => e.slot # Top
  BY <1>1 DEF OwnEvents
<1>3. batch' = batch
  BY <1>1, <1>2, DisownedEvents DEF IInv
<1>4. Paired
  BY <1>1 DEF Paired, InUse
<1> QED
  BY <1>1, <1>2, <1>3, <1>4 DEF OwnEvents

LEMMA LeakEvents ==
  ASSUME IInv, OwnEvents, NEW s \in Nat \ {0}, ConnGetLeaks(s),
         pc' \notin {"read", "write"},
         pc' \in {"setup", "wait", "expire"} => pc = "setup"
  PROVE  OwnEvents' /\ Paired
<1>1. /\ Top \in Slots \ InUse /\ InUse' = InUse
      /\ UNCHANGED <<handler, ractive, wactive>> /\ batch' = Disowned(Top)
  BY LeakEffect
<1>2. \A e \in batch : e.owner = "own" => e.slot # Top
  BY <1>1 DEF OwnEvents
<1>3. batch' = batch
  BY <1>1, <1>2, DisownedEvents DEF IInv
<1>4. Paired
  BY <1>1 DEF Paired, InUse
<1> QED
  BY <1>1, <1>3, <1>4 DEF OwnEvents

(* epoll_wait reports each watched slot once.                               *)
LEMMA WaitEvents ==
  ASSUME IInv, OwnEvents, EpollWait
  PROVE  OwnEvents' /\ Paired
<1>1. PICK ready \in [Registered -> {{}} \cup EventKinds] :
        batch' = {[slot |-> i, kinds |-> ready[i], owner |-> "own"] :
                    i \in {j \in Registered : ready[j] # {}}}
  BY DEF EpollWait
<1>2. UNCHANGED <<pool, handler, ractive, wactive>> /\ pc' = "dispatch" /\ InUse' = InUse
  BY DEF EpollWait, poolVars, eventVars, InUse
<1>3. \A i \in Registered : i \in InUse
  BY DEF Registered
<1>4. \A e \in batch' : e.owner # "other" /\ e.slot \in InUse
  BY <1>1, <1>3
<1>5. ASSUME NEW e \in batch', NEW f \in batch', e.slot = f.slot PROVE e = f
  <2>1. PICK i \in Registered : e = [slot |-> i, kinds |-> ready[i], owner |-> "own"]
    BY <1>1
  <2>2. PICK j \in Registered : f = [slot |-> j, kinds |-> ready[j], owner |-> "own"]
    BY <1>1
  <2>3. i = j
    BY <1>5, <2>1, <2>2
  <2> QED
    BY <2>1, <2>2, <2>3
<1>6. Paired
  BY <1>2 DEF Paired
<1> QED
  BY <1>2, <1>4, <1>5, <1>6 DEF OwnEvents

LEMMA EventsInit == ASSUME Init PROVE OwnEvents
BY DEF Init, OwnEvents

LEMMA EventsStep ==
  ASSUME IInv, ListenerInv, OwnEvents, [Next]_vars
  PROVE  OwnEvents' /\ Paired
<1> USE DEF IInv
<1>1. CASE ServerAdd
  <2>1. ListenFd \in Nat \ {0} /\ "accept" \in Handlers
    BY FdsAssumption DEF Handlers
  <2>2. CASE ConnGet(ListenFd, "accept")
    BY <1>1, <2>1, <2>2, GetEvents DEF ServerAdd
  <2>3. CASE ConnGetLeaks(ListenFd)
    BY <1>1, <2>1, <2>3, LeakEvents DEF ServerAdd
  <2> QED BY <1>1, <2>2, <2>3 DEF ServerAdd
<1>2. CASE Run \/ ClientArrives \/ UNCHANGED vars
  <2>1. UNCHANGED <<pool, handler, ractive, wactive, batch, cur>>
    BY <1>2 DEF Run, ClientArrives, vars, poolVars, eventVars
  <2>2. pc' = pc \/ (pc = "setup" /\ pc' = "wait")
    BY <1>2 DEF Run, ClientArrives, vars
  <2> QED
    BY <2>1, <2>2, QuietEvents DEF OwnEvents
<1>3. CASE EpollWait
  BY <1>3, WaitEvents
<1>4. CASE Dispatch
  <2>1. ASSUME NEW e \in batch, DispatchError(e) PROVE OwnEvents' /\ Paired
    <3>1. e.slot \in InUse /\ handler[e.slot] # "accept"
      BY <2>1 DEF DispatchError, ListenerInv, TypeOK, Events, InUse
    <3>2. batch' = batch \ {e} /\ \A f \in batch' : f.slot # e.slot
      BY <2>1 DEF DispatchError, OwnEvents
    <3> QED
      BY <2>1, <3>1, <3>2, CloseEvents DEF DispatchError, Take
  <2>2. ASSUME NEW e \in batch,
               \/ DispatchAccept(e) \/ DispatchRead(e) \/ DispatchWrite(e) \/ DispatchSkip(e)
        PROVE  OwnEvents' /\ Paired
    <3>1. /\ UNCHANGED <<pool, handler, ractive, wactive>>
          /\ batch' = batch \ {e}
          /\ \/ pc' \in {"accept", "dispatch"}
             \/ pc' \in {"read", "write"} /\ cur' = e.slot
      BY <2>2 DEF DispatchAccept, DispatchRead, DispatchWrite, DispatchSkip, Take,
                  poolVars, eventVars
    <3>2. \A f \in batch' : f.slot # e.slot
      BY <3>1 DEF OwnEvents
    <3> QED
      BY <3>1, <3>2, QuietEvents DEF OwnEvents
  <2>3. CASE (\E e \in batch : DispatchCrash(e)) \/ DispatchDone
    <3>1. /\ UNCHANGED <<pool, handler, ractive, wactive, batch>>
          /\ pc' = "crashed" \/ (pc' = "expire" /\ batch = {})
      BY <2>3 DEF DispatchCrash, DispatchDone, poolVars, eventVars
    <3> QED
      BY <3>1, QuietEvents DEF OwnEvents
  <2> QED BY <1>4, <2>1, <2>2, <2>3 DEF Dispatch
<1>5. CASE Accept
  <2>1. CASE AcceptAgain \/ AcceptNoFd \/ AcceptAborted \/ AcceptRefuse
    <3>1. /\ UNCHANGED <<pool, handler, ractive, wactive, batch>>
          /\ pc' \in {"accept", "dispatch"}
      BY <2>1 DEF AcceptAgain, AcceptNoFd, AcceptAborted, AcceptRefuse, Accept4, EndAccept,
                  poolVars, eventVars
    <3> QED
      BY <3>1, QuietEvents DEF OwnEvents
  <2>2. CASE AcceptLeak
    BY <2>2, LeakEvents, FdsAssumption DEF AcceptLeak, Accept4, EndAccept
  <2>3. CASE AcceptHalf
    <3>1. "none" \in Handlers
      BY DEF Handlers
    <3> QED
      BY <2>3, <3>1, GetEvents, FdsAssumption DEF AcceptHalf, Accept4, EndAccept
  <2>4. CASE AcceptConn
    <3>1. "read" \in Handlers
      BY DEF Handlers
    <3> QED
      BY <2>4, <3>1, GetEvents, FdsAssumption DEF AcceptConn, Accept4
  <2> QED BY <1>5, <2>1, <2>2, <2>3, <2>4 DEF Accept
<1>6. CASE Handle
  <2>1. after \in {"accept", "write", "dispatch"}
    BY DEF TypeOK
  <2>2. CASE ReadKeep \/ WriteKeep
    <3>1. /\ UNCHANGED <<pool, handler, batch, cur>>
          /\ pc \in {"read", "write"} /\ pc' \in {"accept", "write", "dispatch"}
      BY <2>1, <2>2 DEF ReadKeep, WriteKeep, poolVars
    <3> QED
      BY <3>1, QuietEvents DEF OwnEvents
  <2>3. CASE ReadClose
    <3>1. /\ cur \in InUse /\ handler[cur] # "accept"
          /\ \A e \in batch : e.owner = "own" => e.slot # cur
      BY <2>3 DEF ReadClose, HandlerLive, Streams, OwnEvents
    <3> QED
      BY <2>1, <2>3, <3>1, CloseEvents DEF ReadClose
  <2>4. CASE WriteFail
    <3>1. /\ cur \in InUse /\ handler[cur] # "accept"
          /\ \A e \in batch : e.owner = "own" => e.slot # cur
      BY <2>4 DEF WriteFail, CanWrite, ActiveInUse, TypeOK, OwnEvents
    <3> QED
      BY <2>4, <3>1, CloseEvents DEF WriteFail
  <2> QED BY <1>6, <2>2, <2>3, <2>4 DEF Handle
<1>7. CASE Timers
  <2>1. ASSUME NEW i \in Slots, Expire(i) PROVE OwnEvents' /\ Paired
    <3>1. /\ i \in InUse /\ handler[i] # "accept"
          /\ batch = {} /\ batch' = {} /\ pc' = "expire"
      BY <2>1 DEF Expire, TimersBelong, Streams, OwnEvents
    <3> QED
      BY <2>1, <3>1, CloseEvents DEF Expire
  <2>2. CASE ExpireDone
    <3>1. UNCHANGED <<pool, handler, ractive, wactive, batch>> /\ pc = "expire" /\ pc' = "wait"
      BY <2>2 DEF ExpireDone, poolVars, eventVars
    <3> QED
      BY <3>1, QuietEvents DEF OwnEvents
  <2> QED BY <1>7, <2>1, <2>2 DEF Timers
<1>8. CASE Requests
  <2>1. ASSUME NEW i \in Slots, TcpSendKeep(i) \/ TcpSendCrash(i) PROVE OwnEvents' /\ Paired
    <3>1. /\ UNCHANGED <<pool, handler, batch>>
          /\ pc' \in {"dispatch", "crashed"}
      BY <2>1 DEF TcpSendKeep, TcpSendCrash, poolVars, eventVars
    <3> QED
      BY <3>1, QuietEvents
  <2>2. ASSUME NEW i \in Slots, TcpSendFail(i) PROVE OwnEvents' /\ Paired
    <3>1. i \in InUse /\ handler[i] # "accept" /\ batch' = Marked(i, "cut") /\ pc' = "dispatch"
      BY <2>2 DEF TcpSendFail, InUse, ListenerInv
    <3>2. \A e \in batch' : e.owner = "own" => e.slot # i
      BY <3>1, MarkedEvents DEF TypeOK
    <3> QED
      BY <2>2, <3>1, <3>2, CloseEvents DEF TcpSendFail
  <2> QED BY <1>8, <2>1, <2>2 DEF Requests
<1> QED
  BY <1>1, <1>2, <1>3, <1>4, <1>5, <1>6, <1>7, <1>8 DEF Next, Loop

LEMMA EventsInvariance == Spec => [](IInv /\ ListenerInv /\ OwnEvents)
<1>1. Init => IInv /\ ListenerInv /\ OwnEvents
  BY InitIInv, ListenerInit, EventsInit
<1>2. (IInv /\ ListenerInv /\ OwnEvents) /\ [Next]_vars => (IInv /\ ListenerInv /\ OwnEvents)'
  BY StepKeepsIInv, ListenerStep, EventsStep
<1> QED
  BY <1>1, <1>2, PTL DEF Spec

(* No event of a batch reaches a connection that took the slot over, unless *)
(* a request to send closed the connection the event was raised for.        *)
THEOREM EventsReachTheirOwn == Spec => []NoStaleEvent
<1>1. IInv /\ ListenerInv /\ OwnEvents => NoStaleEvent
  BY DEF OwnEvents, NoStaleEvent
<1> QED
  BY <1>1, EventsInvariance, PTL

(* on_closed is called only for a connection on_connect was called for, or  *)
(* for one that was left without handlers.                                  *)
THEOREM ClosesArePaired == Spec => ClosePaired
<1>1. IInv /\ ListenerInv /\ OwnEvents /\ [Next]_vars =>
        [\A i \in Slots :
           pool[i] = "live" /\ pool'[i] = "null" => i \in open \/ handler[i] = "none"]_vars
  BY EventsStep DEF Paired
<1> QED
  BY <1>1, EventsInvariance, PTL DEF Spec, ClosePaired
=============================================================================
