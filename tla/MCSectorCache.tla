---------------------------- MODULE MCSectorCache ----------------------------
(***************************************************************************)
(* Three sectors of two bytes behind a cache of two: every third sector    *)
(* touched evicts, every sector can be written whole or by halves.         *)
(***************************************************************************)
EXTENDS SectorCache

MCSectors    == 3
MCSectorSize == 2
MCByte       == {0, 1}
MCCap        == 2
=============================================================================
