----------------------------- MODULE MCGptDisk -----------------------------
(***************************************************************************)
(* Sectors of one and of two bytes, a "MiB" of eight bytes that the        *)
(* primary table fills to the last sector when sectors are large, an array *)
(* and a loader that are not whole sectors, and every target size from     *)
(* none to a few sectors more than the layouts need.                       *)
(***************************************************************************)
EXTENDS GptDisk

MCSectorSizes   == {1, 2}
MCNtfsSector    == 1
MCMiB           == 8
MCGptArrayBytes == 3
MCFloorBytes    == 2
MCLoaderBytes   == 3
MCMaxBytes      == 20
=============================================================================
