----------------------------- MODULE MCRegions -----------------------------
(***************************************************************************)
(* Regions on small memories.  The first capacity and the growth factor    *)
(* are scaled down (64 and 4 in the code) so that a table grows twice       *)
(* (1, 2, 4) within IntMax blocks.                                         *)
(***************************************************************************)
EXTENDS Regions, TLC
=============================================================================
