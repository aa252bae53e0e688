------------------------------ MODULE Regions ------------------------------
(***************************************************************************)
(* rtlib/regions.c: a region is a struct with a growing table of the       *)
(* blocks malloc'ed for it.  Every malloc and realloc may fail.  A client  *)
(* is compiled code: it calls RegionAlloc and DeleteRegion only with a     *)
(* handle that NewRegion returned and DeleteRegion has not taken back      *)
(* (module Elism is about the code for which the compiler ensures that).   *)
(*                                                                         *)
(* C's heapAllocatedStuff[i] is table[i + 1] here.                         *)
(***************************************************************************)
EXTENDS Integers, Sequences

CONSTANTS
  Handle,           \* addresses of Region structs
  Block,            \* addresses of allocated blocks
  NULL,             \* the null pointer
  Uninit,           \* content of table memory nothing was stored in yet
  NoRegion,         \* no struct is at this address
  InitialCapacity,  \* 64 in the code
  GrowthFactor,     \* 4 in the code
  IntMax            \* largest value of the int field size

Slot == Block \cup {NULL, Uninit}
Struct == [size : Nat, capacity : Nat, table : Seq(Slot)]

ASSUME CapacityAssumption == /\ InitialCapacity \in Nat \ {0}
                             /\ GrowthFactor \in Nat \ {0, 1}
                             /\ IntMax \in Nat
ASSUME AddressAssumption == /\ NULL \notin Block
                            /\ Uninit \notin Block \cup {NULL}
                            /\ NoRegion \notin Struct

VARIABLES
  region,  \* handle -> NoRegion or the struct at this address
  heap,    \* the allocated blocks that have not been freed
  status   \* "running"; "out_of_memory" after the failed assert or the null
           \* store that follows a failed malloc; "overrun" after a store past
           \* the end of a table

vars == <<region, heap, status>>

Live == {h \in Handle : region[h] # NoRegion}

\* The slots that are in use.
Used(h) == 1 .. region[h].size

Owned(h) == IF h \in Live THEN {region[h].table[i] : i \in Used(h)} \ {NULL} ELSE {}

TypeOK == /\ region \in [Handle -> Struct \cup {NoRegion}]
          /\ heap \in SUBSET Block
          /\ status \in {"running", "out_of_memory", "overrun"}

Init == /\ region = [h \in Handle |-> NoRegion]
        /\ heap = {}
        /\ status = "running"

Stop(why) == status' = why /\ UNCHANGED <<region, heap>>

\* heapAllocatedStuff of the given capacity, nothing stored yet.
FreshTable(capacity) == [i \in 1 .. capacity |-> Uninit]

\* heapAllocatedStuff when its malloc returned NULL: no slot can be accessed.
NullTable == << >>

\* NewRegion when both mallocs succeed, or only the one of the struct.
NewRegion(h) ==
  /\ status = "running"
  /\ region[h] = NoRegion
  /\ \E table \in {FreshTable(InitialCapacity), NullTable} :
       region' = [region EXCEPT ![h] = [size |-> 0, capacity |-> InitialCapacity, table |-> table]]
  /\ UNCHANGED <<heap, status>>

\* NewRegion when the malloc of the struct fails: r->size is a null store.
NewRegionFails == status = "running" /\ Stop("out_of_memory")

\* Slip: the test is > for ==, which notices a full table one block too late.
Grown_late(r) ==
  IF r.size > r.capacity
  THEN [r EXCEPT !.capacity = @ * GrowthFactor,
                 !.table = [i \in 1 .. r.capacity * GrowthFactor |->
                              IF i <= Len(r.table) THEN r.table[i] ELSE Uninit]]
  ELSE r

\* Slip: malloc for realloc, the recorded blocks are not carried over.
Grown_malloc(r) ==
  IF r.size = r.capacity
  THEN [r EXCEPT !.capacity = @ * GrowthFactor,
                 !.table = FreshTable(r.capacity * GrowthFactor)]
  ELSE r

\* The region after "if (r->size == r->capacity)" with a successful realloc.
Grown(r) ==
  IF r.size = r.capacity
  THEN [r EXCEPT !.capacity = @ * GrowthFactor,
                 !.table = [i \in 1 .. r.capacity * GrowthFactor |->
                              IF i <= Len(r.table) THEN r.table[i] ELSE Uninit]]
  ELSE r

\* Environment bound: a region never records more blocks than its int counts.
SizeFits(h) == region[h].size < IntMax

\* Slip: ++r->size for r->size++, the block goes one slot too far.
Recorded_next(r, a) == [r EXCEPT !.table[r.size + 2] = a, !.size = @ + 1]

\* Slip: size-- for size++.
Recorded_down(r, a) == [r EXCEPT !.table[r.size + 1] = a, !.size = @ - 1]

\* heapAllocatedStuff[size++] = a
Recorded(r, a) == [r EXCEPT !.table[r.size + 1] = a, !.size = @ + 1]

\* The store of RegionAlloc hits a slot of the table.
HasRoom(r) == r.size + 1 \in DOMAIN r.table

\* RegionAlloc: grow if full, malloc (a is NULL when it fails), record, count.
RegionAlloc(h, a) ==
  /\ status = "running"
  /\ h \in Live
  /\ SizeFits(h)
  /\ a \notin heap
  /\ HasRoom(Grown(region[h]))
  /\ region' = [region EXCEPT ![h] = Recorded(Grown(@), a)]
  /\ heap' = heap \cup ({a} \ {NULL})
  /\ UNCHANGED status

\* RegionAlloc that dies: by the assert after a failed realloc, or by a store
\* through a table that is not there or too short.
RegionAllocFails(h) ==
  /\ status = "running"
  /\ h \in Live
  /\ SizeFits(h)
  /\ \/ region[h].size = region[h].capacity /\ Stop("out_of_memory")
     \/ /\ ~HasRoom(Grown(region[h]))
        /\ Stop(IF region[h].table = NullTable THEN "out_of_memory" ELSE "overrun")

\* Slip: the loop stops one block early.
Freed_short(r) == {r.table[i] : i \in 1 .. r.size - 1}

\* What the loop of DeleteRegion passes to free.
Freed(r) == {r.table[i] : i \in 1 .. r.size}

\* Slip: the blocks are freed, the region that records them is not.
DeleteRegion_keeps(h) ==
  /\ status = "running"
  /\ h \in Live
  /\ heap' = heap \ Freed(region[h])
  /\ UNCHANGED <<region, status>>

\* DeleteRegion: free every recorded block, the table and the struct.
DeleteRegion(h) ==
  /\ status = "running"
  /\ h \in Live
  /\ heap' = heap \ Freed(region[h])
  /\ region' = [region EXCEPT ![h] = NoRegion]
  /\ UNCHANGED status

\* A process that died stays dead.
Stopped == status # "running" /\ UNCHANGED vars

Next == \/ \E h \in Handle : \/ NewRegion(h)
                             \/ \E a \in Block \cup {NULL} : RegionAlloc(h, a)
                             \/ RegionAllocFails(h)
                             \/ DeleteRegion(h)
        \/ NewRegionFails
        \/ Stopped

Spec == Init /\ [][Next]_vars

(***************************************************************************)
(* Properties.                                                             *)
(***************************************************************************)

\* RegionAlloc's capacity test and growth keep every store inside the table:
\* size never passes capacity and the table really has capacity slots (unless
\* its malloc failed, and then nothing was ever recorded in it).
SlotsInBounds ==
  /\ status # "overrun"
  /\ \A h \in Live : 
       /\ region[h].size <= region[h].capacity
       /\ \/ Len(region[h].table) = region[h].capacity
          \/ region[h].table = NullTable /\ region[h].size = 0

\* Every pointer that DeleteRegion would pass to free is NULL or an allocated
\* block, never table memory that RegionAlloc did not write (after a growth
\* three quarters of the table are such memory).
FreesAreValid ==
  \A h \in Live : Freed(region[h]) \subseteq heap \cup {NULL}

\* No block is recorded in two slots, of one region or of two: the loops of
\* DeleteRegion free no block twice, in whatever order regions are deleted.
FreedOnce ==
  \A g, h \in Live : \A i \in Used(g), j \in Used(h) :
    region[g].table[i] = region[h].table[j]
      => region[g].table[i] = NULL \/ (g = h /\ i = j)

\* Nothing leaks: each allocated block is recorded in a region that exists,
\* so that deleting the regions gives all the memory back.
NoLeak == \A b \in heap : \E h \in Live : b \in Owned(h)

\* The region tables implement the abstract store.
Store == INSTANCE RegionStore WITH live <- Live, blocks <- [h \in Handle |-> Owned(h)]
ImplementsStore == Store!StoreSpec
=============================================================================
