----------------------------- MODULE MCDdWriter -----------------------------
(***************************************************************************)
(* Sectors of two bytes, physical ones of one logical sector or of two;    *)
(* blocks, offsets, sources and targets of every length up to the bounds,  *)
(* aligned or not, so that blocks of less than a sector, final blocks with *)
(* and without padding, targets that are just too small and sources that   *)
(* change at any moment all occur.                                         *)
(***************************************************************************)
EXTENDS DdWriter

MCSectorSize   == 2
MCLogicalSizes == {1, 2}
MCMaxBlock     == 3
MCMaxLen       == 5
=============================================================================
