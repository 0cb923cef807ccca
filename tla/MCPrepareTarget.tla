-------------------------- MODULE MCPrepareTarget --------------------------
(***************************************************************************)
(* A disk named by letters and one whose name it begins, a disk named by a *)
(* number, in one run also one whose name that begins, partitions of one   *)
(* and two digits, two devices mounted at first and up to twice each, and  *)
(* two events in between; a volume is tried twice on Windows.              *)
(***************************************************************************)
EXTENDS PrepareTarget

MCDisks    == {<<"sd", "b">>, <<"sd", "b", "c">>, <<"loop", "1">>}
MCAllDisks == MCDisks \cup {<<"loop", "1", "0">>}

MCNumbers    == {<<"1">>, <<"1", "2">>}
MCLockTries  == 2
MCMaxMounts  == 2
MCMaxMounted == 2
MCMaxNoise   == 2
=============================================================================
