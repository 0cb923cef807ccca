----------------------------- MODULE MCCopyRun -----------------------------
(***************************************************************************)
(* Two files, each readable or dangling, two attempts of either retry loop *)
(* (a first one that fails and a last one), and every kind of image and    *)
(* target.                                                                 *)
(***************************************************************************)
EXTENDS CopyRun

CONSTANTS f1, f2

MCFiles          == {f1, f2}
MCRereadAttempts == 2
MCNodeTries      == 2
=============================================================================
