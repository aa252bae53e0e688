---------------------------- MODULE RegionStore ----------------------------
(***************************************************************************)
(* What the run-time library of rtlib/regions.h promises to compiled code: *)
(* a region is made, blocks are allocated in it, and deleting it releases  *)
(* every one of its blocks at once.  Nothing is said of how a region       *)
(* remembers its blocks.  Regions implements this store with the tables of *)
(* rtlib/regions.c; Elism shows that accepted programs use it correctly.   *)
(***************************************************************************)

CONSTANTS
  Handle,  \* addresses a Region struct can have
  Block    \* addresses malloc can return for an allocation

VARIABLES
  live,    \* the handles of the regions that exist
  blocks   \* handle -> the blocks allocated in that region

storeVars == <<live, blocks>>

StoreTypeOK == /\ live \in SUBSET Handle
               /\ blocks \in [Handle -> SUBSET Block]

Allocated == UNION {blocks[h] : h \in Handle}

StoreInit == /\ live = {}
             /\ blocks = [h \in Handle |-> {}]

\* Region *NewRegion(): a handle no other region has, owning nothing.
StoreNew(h) ==
  /\ h \notin live
  /\ live' = live \cup {h}
  /\ UNCHANGED blocks

\* char *RegionAlloc(r, size), one or several times: fresh blocks, owned by r.
StoreAlloc(h, bs) ==
  /\ h \in live
  /\ bs \cap Allocated = {}
  /\ blocks' = [blocks EXCEPT ![h] = @ \cup bs]
  /\ UNCHANGED live

\* void DeleteRegion(r): the region and all its blocks are gone.
StoreDelete(h) ==
  /\ h \in live
  /\ live' = live \ {h}
  /\ blocks' = [blocks EXCEPT ![h] = {}]

StoreNext == \E h \in Handle :
               \/ StoreNew(h)
               \/ \E bs \in SUBSET Block : StoreAlloc(h, bs)
               \/ StoreDelete(h)

StoreSpec == StoreInit /\ [][StoreNext]_storeVars
=============================================================================
