--------------------------- MODULE RegionsProofs ---------------------------
(***************************************************************************)
(* Proofs about Regions, for every memory size, capacity and growth        *)
(* factor: the safety invariants of the region tables, and that the tables *)
(* implement the abstract RegionStore.                                     *)
(***************************************************************************)
EXTENDS Regions, SequenceTheorems, TLAPS

\* Multiplying a capacity by the growth factor makes room for one more block.
LEMMA GrowthMakesRoom ==
  ASSUME NEW c \in Nat \ {0}, NEW g \in Nat \ {0, 1}
  PROVE  c * g \in Nat /\ c * g >= c + 1
<1>1. c * g \in Nat
  OBVIOUS
<1>2. PICK k \in Nat : g = k + 2
  <2>1. g - 2 \in Nat /\ g = (g - 2) + 2
    OBVIOUS
  <2> QED BY <2>1
<1>3. c * g = c * k + 2 * c
  BY <1>2
<1>4. c * k >= 0
  BY <1>2
<1> QED BY <1>1, <1>3, <1>4

\* A table that is a function on 1..n is a sequence of slots of length n.
LEMMA TableIsSeq ==
  ASSUME NEW n \in Nat, NEW t, t \in [1 .. n -> Slot]
  PROVE  t \in Seq(Slot) /\ Len(t) = n /\ DOMAIN t = 1 .. n
<1> QED BY SMT

\* A well-formed struct: the part of the invariant that is about one region.
WellFormed(r) == /\ r \in Struct
                 /\ r.capacity >= 1
                 /\ r.size <= r.capacity
                 /\ Len(r.table) = r.capacity \/ (r.table = NullTable /\ r.size = 0)

\* Growing keeps a struct well formed, keeps its size and every recorded
\* block, and leaves room for one more unless the table is missing.
LEMMA GrownProperties ==
  ASSUME NEW r, WellFormed(r)
  PROVE  /\ WellFormed(Grown(r))
         /\ Grown(r).size = r.size
         /\ \A i \in 1 .. r.size : Grown(r).table[i] = r.table[i]
         /\ HasRoom(Grown(r)) <=> r.table # NullTable
<1> USE DEF WellFormed
<1>1. CASE r.size = r.capacity
  <2> DEFINE c == r.capacity * GrowthFactor
             t == [i \in 1 .. c |-> IF i <= Len(r.table) THEN r.table[i] ELSE Uninit]
  <2>1. c \in Nat /\ c >= r.capacity + 1
    BY GrowthMakesRoom, CapacityAssumption DEF Struct
  <2>2. Len(r.table) = r.capacity /\ r.table \in Seq(Slot) /\ r.capacity \in Nat
    BY <1>1 DEF Struct
  <2>3. t \in [1 .. c -> Slot]
    BY <2>1, <2>2 DEF Slot
  <2>4. t \in Seq(Slot) /\ Len(t) = c /\ DOMAIN t = 1 .. c
    BY <2>1, <2>3, TableIsSeq
  <2>5. Grown(r) = [size |-> r.size, capacity |-> c, table |-> t]
    BY <1>1 DEF Grown, Struct
  <2>6. r.table # NullTable
    BY <2>2 DEF NullTable
  <2> HIDE DEF c, t
  <2>7. r.size \in Nat /\ r.size = r.capacity
    BY <1>1 DEF Struct
  <2>8. WellFormed(Grown(r)) /\ Grown(r).size = r.size
    BY <2>1, <2>4, <2>5, <2>7 DEF Struct
  <2>9. HasRoom(Grown(r))
    BY <2>1, <2>4, <2>5, <2>7 DEF HasRoom
  <2>10. \A i \in 1 .. r.size : Grown(r).table[i] = r.table[i]
    BY <2>1, <2>2, <2>5, <2>7 DEF t
  <2> QED BY <2>6, <2>8, <2>9, <2>10
<1>2. CASE r.size # r.capacity
  <2>1. Grown(r) = r
    BY <1>2 DEF Grown
  <2>2. CASE r.table = NullTable
    BY <2>1, <2>2 DEF HasRoom, NullTable, Struct
  <2>3. CASE r.table # NullTable
    BY <1>2, <2>1, <2>3 DEF HasRoom, Struct
  <2> QED BY <2>1, <2>2, <2>3
<1> QED BY <1>1, <1>2

\* Recording a block in a table with room: the old slots stay, the new slot
\* holds the block.
LEMMA RecordedProperties ==
  ASSUME NEW r, WellFormed(r), HasRoom(r), NEW a \in Block \cup {NULL}
  PROVE  /\ WellFormed(Recorded(r, a))
         /\ Recorded(r, a).size = r.size + 1
         /\ \A i \in 1 .. r.size : Recorded(r, a).table[i] = r.table[i]
         /\ Recorded(r, a).table[r.size + 1] = a
<1> USE DEF WellFormed
<1> DEFINE t == [r.table EXCEPT ![r.size + 1] = a]
<1>1. r.size \in Nat /\ r.capacity \in Nat /\ r.table \in Seq(Slot) /\ r.size + 1 \in 1 .. Len(r.table)
  BY DEF Struct, HasRoom
<1>2. Len(r.table) = r.capacity
  BY <1>1 DEF NullTable
<1>3. t \in [1 .. r.capacity -> Slot]
  BY <1>1, <1>2 DEF Slot
<1>4. t \in Seq(Slot) /\ Len(t) = r.capacity
  BY <1>1, <1>3, TableIsSeq
<1>5. Recorded(r, a) = [size |-> r.size + 1, capacity |-> r.capacity, table |-> t]
  <2>1. r = [size |-> r.size, capacity |-> r.capacity, table |-> r.table]
    BY DEF Struct
  <2>2. Recorded(r, a) = [[r EXCEPT !.table = t] EXCEPT !.size = r.size + 1]
    BY DEF Recorded
  <2> HIDE DEF t
  <2> QED BY <2>1, <2>2
<1>6. \A i \in 1 .. r.size : t[i] = r.table[i]
  BY <1>1
<1>7. t[r.size + 1] = a
  BY <1>1
<1> HIDE DEF t
<1>8. WellFormed(Recorded(r, a))
  BY <1>1, <1>2, <1>4, <1>5 DEF Struct
<1> QED BY <1>5, <1>6, <1>7, <1>8

(***************************************************************************)
(* The inductive invariant.  SlotsInBounds, FreesAreValid, FreedOnce and   *)
(* NoLeak support each other; the one thing to add is that a capacity is   *)
(* never 0, or multiplying it would make no room.                          *)
(***************************************************************************)
Positive == \A h \in Live : region[h].capacity >= 1

IInv == TypeOK /\ Positive /\ SlotsInBounds /\ FreesAreValid /\ FreedOnce /\ NoLeak

LEMMA LiveIsWellFormed ==
  ASSUME TypeOK, Positive, SlotsInBounds, NEW h \in Live
  PROVE  WellFormed(region[h])
BY DEF TypeOK, Positive, SlotsInBounds, WellFormed, Live

LEMMA InitInv == Init => IInv
<1> SUFFICES ASSUME Init PROVE IInv
  OBVIOUS
<1>1. Live = {}
  BY DEF Init, Live
<1> QED BY <1>1 DEF Init, IInv, TypeOK, Positive, SlotsInBounds, FreesAreValid, FreedOnce, NoLeak

\* What NewRegion does to the derived state.
LEMMA NewRegionEffect ==
  ASSUME TypeOK, NEW h \in Handle, NewRegion(h)
  PROVE  /\ h \notin Live /\ Live' = Live \cup {h}
         /\ \A g \in Live : region'[g] = region[g]
         /\ WellFormed(region'[h]) /\ region'[h].size = 0
         /\ region' \in [Handle -> Struct \cup {NoRegion}]
<1>1. PICK table \in {FreshTable(InitialCapacity), NullTable} :
        region' = [region EXCEPT ![h] = [size |-> 0, capacity |-> InitialCapacity, table |-> table]]
  BY DEF NewRegion
<1> DEFINE r == [size |-> 0, capacity |-> InitialCapacity, table |-> table]
<1>2. InitialCapacity \in Nat /\ InitialCapacity >= 1
  BY CapacityAssumption
<1>3. /\ FreshTable(InitialCapacity) \in Seq(Slot)
      /\ Len(FreshTable(InitialCapacity)) = InitialCapacity
  <2>1. FreshTable(InitialCapacity) \in [1 .. InitialCapacity -> Slot]
    BY <1>2 DEF FreshTable, Slot
  <2> QED BY <1>2, <2>1, TableIsSeq
<1>4. NullTable \in Seq(Slot)
  BY DEF NullTable
<1>5. WellFormed(r) /\ r.size = 0 /\ r \in Struct
  BY <1>1, <1>2, <1>3, <1>4 DEF WellFormed, Struct
<1> HIDE DEF r
<1>6. r # NoRegion
  BY <1>5, AddressAssumption
<1>7. region' = [region EXCEPT ![h] = r]
  BY <1>1 DEF r
<1> QED BY <1>5, <1>6, <1>7 DEF TypeOK, NewRegion, Live

\* What a successful RegionAlloc does to the derived state.
LEMMA RegionAllocEffect ==
  ASSUME TypeOK, Positive, SlotsInBounds,
         NEW h \in Handle, NEW a \in Block \cup {NULL}, RegionAlloc(h, a)
  PROVE  /\ h \in Live /\ Live' = Live
         /\ \A g \in Live : g # h => region'[g] = region[g]
         /\ WellFormed(region'[h]) /\ region'[h].size = region[h].size + 1
         /\ \A i \in 1 .. region[h].size : region'[h].table[i] = region[h].table[i]
         /\ region'[h].table[region[h].size + 1] = a
         /\ region' \in [Handle -> Struct \cup {NoRegion}]
<1> DEFINE r == Grown(region[h])
           s == Recorded(r, a)
<1>1. h \in Live /\ HasRoom(r) /\ region' = [region EXCEPT ![h] = s]
  BY DEF RegionAlloc
<1>2. WellFormed(region[h])
  BY <1>1, LiveIsWellFormed
<1>3. /\ WellFormed(r) /\ r.size = region[h].size
      /\ \A i \in 1 .. region[h].size : r.table[i] = region[h].table[i]
  BY <1>2, GrownProperties
<1>4. /\ WellFormed(s) /\ s.size = r.size + 1
      /\ \A i \in 1 .. r.size : s.table[i] = r.table[i]
      /\ s.table[r.size + 1] = a
  BY <1>1, <1>3, RecordedProperties
<1>5. s \in Struct /\ s # NoRegion
  BY <1>4, AddressAssumption DEF WellFormed
<1> HIDE DEF r, s
<1>6. region'[h] = s /\ \A g \in Handle : g # h => region'[g] = region[g]
  BY <1>1 DEF TypeOK
<1>7. Live' = Live
  BY <1>1, <1>5, <1>6 DEF Live
<1>8. region' \in [Handle -> Struct \cup {NoRegion}]
  BY <1>1, <1>5 DEF TypeOK
<1> QED BY <1>1, <1>3, <1>4, <1>6, <1>7, <1>8 DEF Live

\* What DeleteRegion does to the derived state.
LEMMA DeleteRegionEffect ==
  ASSUME TypeOK, NEW h \in Handle, DeleteRegion(h)
  PROVE  /\ h \in Live /\ Live' = Live \ {h}
         /\ \A g \in Live \ {h} : region'[g] = region[g]
         /\ region' \in [Handle -> Struct \cup {NoRegion}]
         /\ heap' = heap \ Freed(region[h])
BY DEF TypeOK, DeleteRegion, Live

\* A step that leaves regions and heap alone and is not an overrun.
LEMMA UnchangedInv ==
  ASSUME IInv, UNCHANGED <<region, heap>>,
         status' \in {"running", "out_of_memory", "overrun"},
         status' = "overrun" => status = "overrun"
  PROVE  IInv'
<1> Live' = Live
  BY DEF Live
<1> QED
  BY DEF IInv, TypeOK, Positive, SlotsInBounds, FreesAreValid, FreedOnce, NoLeak, Used, Freed, Owned

LEMMA NewRegionInv ==
  ASSUME IInv, NEW h \in Handle, NewRegion(h)
  PROVE  IInv'
<1> USE DEF IInv
<1>1. /\ h \notin Live /\ Live' = Live \cup {h}
      /\ \A g \in Live : region'[g] = region[g]
      /\ WellFormed(region'[h]) /\ region'[h].size = 0
      /\ region' \in [Handle -> Struct \cup {NoRegion}]
  BY NewRegionEffect
<1>2. heap' = heap /\ status' = status
  BY DEF NewRegion
<1>3. TypeOK'
  BY <1>1, <1>2 DEF TypeOK
<1>4. Positive' /\ SlotsInBounds'
  BY <1>1, <1>2 DEF Positive, SlotsInBounds, WellFormed
<1>5. Freed(region[h])' = {} /\ Used(h)' = {} /\ Owned(h)' = {}
  BY <1>1 DEF Freed, Used, Owned
<1>6. FreesAreValid'
  BY <1>1, <1>2, <1>5 DEF FreesAreValid, Freed
<1>7. FreedOnce'
  BY <1>1, <1>5 DEF FreedOnce, Used
<1>8. NoLeak'
  BY <1>1, <1>2 DEF NoLeak, Owned, Used
<1> QED BY <1>3, <1>4, <1>6, <1>7, <1>8

LEMMA RegionAllocInv ==
  ASSUME IInv, NEW h \in Handle, NEW a \in Block \cup {NULL}, RegionAlloc(h, a)
  PROVE  IInv'
<1> USE DEF IInv
<1> DEFINE n == region[h].size
<1>1. /\ h \in Live /\ Live' = Live
      /\ \A g \in Live : g # h => region'[g] = region[g]
      /\ WellFormed(region'[h]) /\ region'[h].size = n + 1
      /\ \A i \in 1 .. n : region'[h].table[i] = region[h].table[i]
      /\ region'[h].table[n + 1] = a
      /\ region' \in [Handle -> Struct \cup {NoRegion}]
  BY RegionAllocEffect
<1>2. heap' = heap \cup ({a} \ {NULL}) /\ a \notin heap /\ status' = status
  BY DEF RegionAlloc
<1>3. \A g \in Live : region[g].size \in Nat
  BY LiveIsWellFormed DEF WellFormed, Struct
<1>4. TypeOK'
  BY <1>1, <1>2 DEF TypeOK
<1>5. Positive' /\ SlotsInBounds'
  BY <1>1, <1>2 DEF Positive, SlotsInBounds, WellFormed
<1>6. /\ \A g \in Live : g # h => Used(g)' = Used(g)
      /\ Used(h)' = Used(h) \cup {n + 1} /\ n + 1 \notin Used(h)
  BY <1>1, <1>3 DEF Used
<1>7. /\ \A g \in Live : \A i \in Used(g) : region'[g].table[i] = region[g].table[i]
      /\ \A g \in Live : Used(g) \subseteq Used(g)'
  BY <1>1, <1>6 DEF Used
<1>8. \A g \in Live : \A i \in Used(g) : region[g].table[i] \in heap \cup {NULL}
  BY DEF FreesAreValid, Freed, Used
<1>9. \A g \in Live : \A i \in Used(g)' : i \in Used(g) \/ (g = h /\ i = n + 1)
  BY <1>6
<1> HIDE DEF n
<1>10. FreesAreValid'
  <2>1. \A g \in Live : \A i \in Used(g)' : region'[g].table[i] \in heap' \cup {NULL}
    BY <1>1, <1>2, <1>7, <1>8, <1>9
  <2> QED BY <1>1, <2>1 DEF FreesAreValid, Freed, Used
<1>11. FreedOnce'
  <2> SUFFICES ASSUME NEW f \in Live, NEW g \in Live, NEW i \in Used(f)', NEW j \in Used(g)',
                      region'[f].table[i] = region'[g].table[j],
                      region'[f].table[i] # NULL
               PROVE  f = g /\ i = j
    BY <1>1 DEF FreedOnce
  <2>1. CASE i \in Used(f) /\ j \in Used(g)
    BY <1>7, <2>1 DEF FreedOnce
  <2>2. CASE i \in Used(f) /\ g = h /\ j = n + 1
    BY <1>1, <1>2, <1>7, <1>8, <2>2
  <2>3. CASE j \in Used(g) /\ f = h /\ i = n + 1
    BY <1>1, <1>2, <1>7, <1>8, <2>3
  <2>4. CASE f = h /\ i = n + 1 /\ g = h /\ j = n + 1
    BY <2>4
  <2> QED BY <1>9, <2>1, <2>2, <2>3, <2>4
<1>12. NoLeak'
  <2>1. \A b \in heap' : \E g \in Live : \E i \in Used(g)' : region'[g].table[i] = b
    <3> TAKE b \in heap'
    <3>1. CASE b \in heap
      <4>1. PICK g \in Live : \E i \in Used(g) : region[g].table[i] = b
        BY <3>1 DEF NoLeak, Owned
      <4> QED BY <1>7, <4>1
    <3>2. CASE b = a
      BY <1>1, <1>6, <3>2
    <3> QED BY <1>2, <3>1, <3>2
  <2>2. NULL \notin heap'
    BY <1>4, AddressAssumption DEF TypeOK
  <2> QED BY <1>1, <2>1, <2>2 DEF NoLeak, Owned
<1> QED BY <1>4, <1>5, <1>10, <1>11, <1>12

LEMMA DeleteRegionInv ==
  ASSUME IInv, NEW h \in Handle, DeleteRegion(h)
  PROVE  IInv'
<1> USE DEF IInv
<1>1. /\ h \in Live /\ Live' = Live \ {h}
      /\ \A g \in Live \ {h} : region'[g] = region[g]
      /\ region' \in [Handle -> Struct \cup {NoRegion}]
      /\ heap' = heap \ Freed(region[h])
  BY DeleteRegionEffect
<1>2. status' = status
  BY DEF DeleteRegion
<1>3. TypeOK'
  BY <1>1, <1>2 DEF TypeOK
<1>4. Positive' /\ SlotsInBounds'
  BY <1>1, <1>2 DEF Positive, SlotsInBounds
<1>5. \A g \in Live' : Used(g)' = Used(g)
  BY <1>1 DEF Used
<1>6. FreesAreValid'
  <2> SUFFICES ASSUME NEW g \in Live', NEW i \in Used(g)'
               PROVE  region'[g].table[i] \in heap' \cup {NULL}
    BY DEF FreesAreValid, Freed, Used
  <2>1. g \in Live \ {h} /\ i \in Used(g) /\ region'[g].table[i] = region[g].table[i]
    BY <1>1, <1>5
  <2>2. region[g].table[i] \in heap \cup {NULL}
    BY <2>1 DEF FreesAreValid, Freed, Used
  <2>3. region[g].table[i] # NULL => region[g].table[i] \notin Freed(region[h])
    BY <1>1, <2>1 DEF FreedOnce, Freed, Used
  <2> QED BY <1>1, <2>1, <2>2, <2>3
<1>7. FreedOnce'
  BY <1>1, <1>5 DEF FreedOnce
<1>8. NoLeak'
  <2> SUFFICES ASSUME NEW b \in heap' PROVE \E g \in Live' : b \in Owned(g)'
    BY DEF NoLeak
  <2>1. b \in heap /\ b \notin Freed(region[h]) /\ b # NULL
    BY <1>1, AddressAssumption DEF TypeOK
  <2>2. PICK g \in Live : b \in Owned(g)
    BY <2>1 DEF NoLeak
  <2>3. g # h
    BY <2>1, <2>2 DEF Owned, Freed, Used
  <2> QED BY <1>1, <1>5, <2>2, <2>3 DEF Owned
<1> QED BY <1>3, <1>4, <1>6, <1>7, <1>8

\* RegionAllocFails never overruns: a table with slots has room once grown.
LEMMA RegionAllocFailsInv ==
  ASSUME IInv, NEW h \in Handle, RegionAllocFails(h)
  PROVE  IInv'
<1>1. WellFormed(region[h])
  BY LiveIsWellFormed DEF IInv, RegionAllocFails
<1>2. ~HasRoom(Grown(region[h])) => region[h].table = NullTable
  BY <1>1, GrownProperties
<1>3. UNCHANGED <<region, heap>> /\ status' = "out_of_memory"
  BY <1>2 DEF RegionAllocFails, Stop
<1> QED BY <1>3, UnchangedInv

LEMMA NextInv == IInv /\ [Next]_vars => IInv'
<1> SUFFICES ASSUME IInv, [Next]_vars PROVE IInv'
  OBVIOUS
<1>1. ASSUME NEW h \in Handle, NewRegion(h) PROVE IInv'
  BY <1>1, NewRegionInv
<1>2. ASSUME NEW h \in Handle, NEW a \in Block \cup {NULL}, RegionAlloc(h, a) PROVE IInv'
  BY <1>2, RegionAllocInv
<1>3. ASSUME NEW h \in Handle, RegionAllocFails(h) PROVE IInv'
  BY <1>3, RegionAllocFailsInv
<1>4. ASSUME NEW h \in Handle, DeleteRegion(h) PROVE IInv'
  BY <1>4, DeleteRegionInv
<1>5. CASE NewRegionFails
  BY <1>5, UnchangedInv DEF NewRegionFails, Stop
<1>6. CASE Stopped \/ UNCHANGED vars
  <2>1. UNCHANGED <<region, heap, status>>
    BY <1>6 DEF Stopped, vars
  <2>2. status' \in {"running", "out_of_memory", "overrun"}
    BY <2>1 DEF IInv, TypeOK
  <2> QED BY <2>1, <2>2, UnchangedInv
<1> QED BY <1>1, <1>2, <1>3, <1>4, <1>5, <1>6 DEF Next

\* Tables, blocks and structs are in order after every step of every region.
THEOREM Invariance == Spec => []IInv
BY InitInv, NextInv, PTL DEF Spec

\* Every variable keeps its type.
THEOREM TypeCorrect == Spec => []TypeOK
<1>1. IInv => TypeOK
  BY DEF IInv
<1> QED BY <1>1, Invariance, PTL

\* RegionAlloc never stores outside a region's table.
THEOREM BoundsSafe == Spec => []SlotsInBounds
<1>1. IInv => SlotsInBounds
  BY DEF IInv
<1> QED BY <1>1, Invariance, PTL

\* DeleteRegion passes only NULL and allocated blocks to free.
THEOREM FreesSafe == Spec => []FreesAreValid
<1>1. IInv => FreesAreValid
  BY DEF IInv
<1> QED BY <1>1, Invariance, PTL

\* DeleteRegion frees no block twice, whatever regions are deleted.
THEOREM FreesDistinct == Spec => []FreedOnce
<1>1. IInv => FreedOnce
  BY DEF IInv
<1> QED BY <1>1, Invariance, PTL

\* Every allocated block belongs to a region that exists.
THEOREM LeakFree == Spec => []NoLeak
<1>1. IInv => NoLeak
  BY DEF IInv
<1> QED BY <1>1, Invariance, PTL

(***************************************************************************)
(* The refinement.  A successful allocation is StoreAlloc of one block (of *)
(* none when malloc returned NULL), a death of the process is a stutter.   *)
(***************************************************************************)
Blocks == [h \in Handle |-> Owned(h)]

LEMMA InitRefines == Init => Store!StoreInit
<1> SUFFICES ASSUME Init PROVE Store!StoreInit
  OBVIOUS
<1>1. Live = {}
  BY DEF Init, Live
<1>2. \A h \in Handle : Owned(h) = {}
  BY <1>1 DEF Owned
<1> QED BY <1>1, <1>2 DEF Store!StoreInit

LEMMA NextRefines == IInv /\ [Next]_vars => [Store!StoreNext]_(Store!storeVars)
<1> SUFFICES ASSUME IInv, [Next]_vars
             PROVE  Store!StoreNext \/ UNCHANGED <<Live, Blocks>>
  BY DEF Store!storeVars, Blocks
<1> USE DEF IInv
<1>1. ASSUME UNCHANGED region PROVE UNCHANGED <<Live, Blocks>>
  <2>1. Live' = Live
    BY <1>1 DEF Live
  <2>2. \A h \in Handle : Owned(h)' = Owned(h)
    BY <1>1, <2>1 DEF Owned, Used
  <2> QED BY <2>1, <2>2 DEF Blocks
<1>2. ASSUME NEW h \in Handle, NewRegion(h) PROVE Store!StoreNext
  <2>1. /\ h \notin Live /\ Live' = Live \cup {h}
        /\ \A g \in Live : region'[g] = region[g]
        /\ WellFormed(region'[h]) /\ region'[h].size = 0
    BY <1>2, NewRegionEffect
  <2>2. \A g \in Handle : Owned(g)' = Owned(g)
    BY <2>1 DEF Owned, Used
  <2>3. Store!StoreNew(h)
    BY <2>1, <2>2 DEF Store!StoreNew
  <2> QED BY <2>3 DEF Store!StoreNext
<1>3. ASSUME NEW h \in Handle, NEW a \in Block \cup {NULL}, RegionAlloc(h, a)
      PROVE  Store!StoreNext
  <2> DEFINE bs == {a} \ {NULL}
  <2>1. /\ h \in Live /\ Live' = Live
        /\ \A g \in Live : g # h => region'[g] = region[g]
        /\ region'[h].size = region[h].size + 1
        /\ \A i \in 1 .. region[h].size : region'[h].table[i] = region[h].table[i]
        /\ region'[h].table[region[h].size + 1] = a
    BY <1>3, RegionAllocEffect
  <2>2. region[h].size \in Nat
    BY <2>1, LiveIsWellFormed DEF WellFormed, Struct
  <2>3. Owned(h)' = Owned(h) \cup bs
    BY <2>1, <2>2 DEF Owned, Used
  <2>4. \A g \in Handle : g # h => Owned(g)' = Owned(g)
    BY <2>1 DEF Owned, Used
  <2>5. Blocks' = [Blocks EXCEPT ![h] = @ \cup bs]
    BY <2>3, <2>4 DEF Blocks
  <2>6. bs \cap UNION {Blocks[g] : g \in Handle} = {}
    <3>1. \A g \in Handle : Owned(g) \subseteq heap
      BY DEF FreesAreValid, Freed, Owned, Used
    <3> QED BY <1>3, <3>1 DEF Blocks, RegionAlloc
  <2>7. Store!StoreAlloc(h, bs)
    BY <2>1, <2>5, <2>6 DEF Store!StoreAlloc, Store!Allocated, Blocks
  <2>8. bs \in SUBSET Block
    OBVIOUS
  <2> QED BY <2>7, <2>8 DEF Store!StoreNext
<1>4. ASSUME NEW h \in Handle, DeleteRegion(h) PROVE Store!StoreNext
  <2>1. /\ h \in Live /\ Live' = Live \ {h}
        /\ \A g \in Live \ {h} : region'[g] = region[g]
    BY <1>4, DeleteRegionEffect
  <2>2. Owned(h)' = {} /\ \A g \in Handle : g # h => Owned(g)' = Owned(g)
    BY <2>1 DEF Owned, Used
  <2>3. Blocks' = [Blocks EXCEPT ![h] = {}]
    BY <2>2 DEF Blocks
  <2>4. Store!StoreDelete(h)
    BY <2>1, <2>3 DEF Store!StoreDelete, Blocks
  <2> QED BY <2>4 DEF Store!StoreNext
<1>5. ASSUME (\E h \in Handle : RegionAllocFails(h)) \/ NewRegionFails \/ Stopped \/ UNCHANGED vars
      PROVE  UNCHANGED region
  BY <1>5 DEF RegionAllocFails, NewRegionFails, Stop, Stopped, vars
<1> QED BY <1>1, <1>2, <1>3, <1>4, <1>5 DEF Next

\* The tables of regions.c do what regions.h promises.
THEOREM Refinement == Spec => ImplementsStore
BY InitRefines, NextRefines, Invariance, PTL DEF Spec, ImplementsStore, Store!StoreSpec
=============================================================================
