---------------------------- MODULE MCFakeCheck ----------------------------
(***************************************************************************)
(* Blocks of two bytes and four markers over drives of up to five blocks   *)
(* and a byte: ranges and real sizes of every alignment, markers that are  *)
(* neighbours, apart, and fewer than MARKERS + 1 because some coincide.    *)
(***************************************************************************)
EXTENDS FakeCheck

MCBlockSize == 2
MCMARKERS   == 3
MCMaxSize   == 11
=============================================================================
