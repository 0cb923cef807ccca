---------------------------- MODULE CopyRunProofs ----------------------------
(***************************************************************************)
(* Proofs about CopyRun, for every set of files and every number of        *)
(* attempts.                                                               *)
(***************************************************************************)
EXTENDS CopyRun, TLAPS

-----------------------------------------------------------------------------
(* The inductive invariant, one part for each thing a step relies on. *)

\* The steps that may write to the target, and those behind write_gpt().
Writing == {"prepare", "fakecheck", "open", "gpt", "format", "loader", "reread", "node",
            "mkfs", "ntfsmount", "copy", "eltorito", "unmount", "sync"}

Partitioned == {"format", "loader", "reread", "node", "mkfs", "ntfsmount", "copy",
                "eltorito", "unmount", "sync"}

\* The new filesystem is there.
Formatted ==
    \/ pc \in {"ntfsmount", "copy", "eltorito", "unmount", "sync"}
    \/ pc = "reread" /\ job.fs = "fat32"

\* All files were looked at.
AllSeen ==
    \/ pc \in {"eltorito", "unmount", "sync"}
    \/ pc = "reread" /\ job.fs = "fat32"

\* Only the retry loops count, each up to its own bound.
Counted ==
    /\ pc = "reread" => tries < RereadAttempts
    /\ pc = "node" => tries < NodeTries
    /\ pc \notin {"reread", "node"} => tries = 0

\* A run that goes on has no result.
Ended == result # "none" <=> pc \in {"release", "ended"}

\* What may write runs for real, with the user's consent.
Asked ==
    /\ pc \in Writing => round = "real" /\ consent = "yes"
    /\ pc = "start" \/ round = "dry" => consent = "none"
    /\ round = "dry" => result # "declined"
    /\ round = "real" /\ pc # "start" /\ consent # "yes" => result = "declined"
    /\ ConsentBeforeWrite

\* The node of the first partition, which Linux alone formats by, is that of
\* the new table.
Addressed ==
    /\ pc = "node" \/ (pc = "mkfs" /\ job.os = "linux") => kernel = "new"
    /\ pc \in Writing /\ job.fs = "ntfs" => job.os # "macos"
    /\ pc \in {"loader", "node", "mkfs", "ntfsmount"} => job.fs = "ntfs"
    /\ pc \in {"node", "ntfsmount"} => job.os = "linux"
    /\ pc = "format" => job.fs = "fat32"
    /\ NeverFormatsStale

Written ==
    /\ pc \in Partitioned => table = "new"
    /\ Formatted => formatted = "new"

\* The new partition is mounted while it is copied to, on Windows until it is
\* synced as well, and otherwise by nobody the program knows of.
MountedWhile ==
    part # "no" =>
        /\ pc \in {"copy", "eltorito", "unmount", "sync", "release", "ended"}
        /\ pc \in {"copy", "eltorito", "sync"} => part = "mounted"
        /\ pc = "sync" => job.os = "windows" /\ job.fs = "ntfs"

Sorted ==
    /\ copied \subseteq job.readable
    /\ skipped \subseteq Files \ job.readable
    /\ passed \cap (copied \cup skipped) = {}
    /\ AllSeen => copied \cup skipped \cup passed = Files
    /\ pc = "reread" /\ job.fs = "fat32" => stable = copied

\* Nothing is written before the target was prepared; with no desktop around,
\* nothing is mounted once prepare_target() took it all off.
Calm ==
    /\ round = "dry" \/ pc \in {"start", "survey", "mount", "scan", "prepare"} => grip = "none"
    /\ grip = "none" => table = "old" /\ damage = "none" /\ pc \notin Writing \ {"prepare"}
    /\ job.desktop = "quiet" /\ grip = "full" => live = "none" /\ damage = "none"

Complete ==
    result = "ok" /\ round = "real" =>
        /\ table = "new" /\ formatted = "new"
        /\ stable = job.readable \ passed
        /\ skipped = Files \ (job.readable \cup passed)
        /\ part # "no" => job.os = "windows" /\ part = "mounted"

Inv ==
    /\ TypeOK
    /\ Counted /\ Ended /\ Asked /\ Addressed /\ Written /\ MountedWhile
    /\ Sorted /\ Calm /\ Complete

-----------------------------------------------------------------------------
LEMMA JobFacts ==
    ASSUME job \in Job
    PROVE  /\ job.os \in {"linux", "windows", "macos"}
           /\ job.fs \in {"fat32", "ntfs"}
           /\ job.readable \subseteq Files
           /\ job.desktop \in {"quiet", "automounts"}
           /\ job.mounted \in {"none", "old"}
BY DEF Job

LEMMA InitEstablishes == Init => Inv
<1> SUFFICES ASSUME Init PROVE Inv
  OBVIOUS
<1>1. TypeOK
  BY JobFacts, TriesAssumption DEF Init, TypeOK, Steps
<1>2. Counted /\ Ended /\ Asked /\ Addressed
  BY TriesAssumption DEF Init, Counted, Ended, Asked, ConsentBeforeWrite, Writing, Addressed,
     NeverFormatsStale
<1>3. Written /\ MountedWhile /\ Sorted /\ Calm /\ Complete
  BY JobFacts DEF Init, Written, Formatted, Partitioned, MountedWhile, Sorted, AllSeen, Calm,
     Writing, Complete
<1> QED
  BY <1>1, <1>2, <1>3 DEF Inv

LEMMA StepPreserves == Inv /\ [Next]_vars => Inv'
<1> SUFFICES ASSUME Inv, [Next]_vars PROVE Inv'
  OBVIOUS
<1>0. /\ job \in Job /\ job.os \in {"linux", "windows", "macos"}
      /\ job.fs \in {"fat32", "ntfs"} /\ job.readable \subseteq Files
  BY JobFacts DEF Inv, TypeOK
<1> USE TriesAssumption, <1>0
    DEF Inv, TypeOK, Goto, Return, Only, plan, run, mounts, disk, files
<1>1. CASE Start
  <2>1. TypeOK' /\ Counted' /\ Ended' /\ MountedWhile'
    BY <1>1 DEF Start, Steps, Counted, Ended, MountedWhile, Asked, ConsentBeforeWrite
  <2>2. Asked' /\ Addressed' /\ Written'
    BY <1>1 DEF Start, Asked, ConsentBeforeWrite, Writing, Ended, MountedWhile, Addressed,
       NeverFormatsStale, Written, Formatted, Partitioned
  <2>3. Sorted' /\ Calm' /\ Complete'
    BY <1>1 DEF Start, Sorted, AllSeen, Calm, Writing, Complete, Ended, Written, Formatted,
       Partitioned, MountedWhile, Asked, Addressed
  <2> QED
    BY <2>1, <2>2, <2>3
<1>2. CASE Survey
  <2>1. TypeOK' /\ Counted' /\ Ended' /\ MountedWhile'
    BY <1>2 DEF Survey, Steps, Counted, Ended, MountedWhile, Asked, ConsentBeforeWrite
  <2>2. Asked' /\ Addressed' /\ Written'
    BY <1>2 DEF Survey, Asked, ConsentBeforeWrite, Writing, Ended, MountedWhile, Addressed,
       NeverFormatsStale, Written, Formatted, Partitioned
  <2>3. Sorted' /\ Calm' /\ Complete'
    BY <1>2 DEF Survey, Sorted, AllSeen, Calm, Writing, Complete, Ended, Written, Formatted,
       Partitioned, MountedWhile, Asked, Addressed
  <2> QED
    BY <2>1, <2>2, <2>3
<1>3. CASE Mount
  <2>1. TypeOK' /\ Counted' /\ Ended' /\ MountedWhile'
    BY <1>3 DEF Mount, Steps, Counted, Ended, MountedWhile, Asked, ConsentBeforeWrite
  <2>2. Asked' /\ Addressed' /\ Written'
    BY <1>3 DEF Mount, Asked, ConsentBeforeWrite, Writing, Ended, MountedWhile, Addressed,
       NeverFormatsStale, Written, Formatted, Partitioned
  <2>3. Sorted' /\ Calm' /\ Complete'
    BY <1>3 DEF Mount, Sorted, AllSeen, Calm, Writing, Complete, Ended, Written, Formatted,
       Partitioned, MountedWhile, Asked, Addressed
  <2> QED
    BY <2>1, <2>2, <2>3
<1>4. CASE Scan
  <2>1. TypeOK' /\ Counted' /\ Ended' /\ MountedWhile'
    BY <1>4 DEF Scan, Unfit, Steps, Counted, Ended, MountedWhile, Asked, ConsentBeforeWrite
  <2>2. Asked' /\ Addressed' /\ Written'
    BY <1>4 DEF Scan, Unfit, Asked, ConsentBeforeWrite, Writing, Ended, MountedWhile, Addressed,
       NeverFormatsStale, Written, Formatted, Partitioned
  <2>3. Sorted' /\ Calm' /\ Complete'
    BY <1>4 DEF Scan, Unfit, Sorted, AllSeen, Calm, Writing, Complete, Ended, Written, Formatted,
       Partitioned, MountedWhile, Asked, Addressed
  <2> QED
    BY <2>1, <2>2, <2>3
<1>5. CASE Prepare
  <2>1. TypeOK' /\ Counted' /\ Ended' /\ MountedWhile'
    BY <1>5 DEF Prepare, Steps, Counted, Ended, MountedWhile, Asked, ConsentBeforeWrite
  <2>2. Asked' /\ Addressed' /\ Written'
    BY <1>5 DEF Prepare, Asked, ConsentBeforeWrite, Writing, Ended, MountedWhile, Addressed,
       NeverFormatsStale, Written, Formatted, Partitioned
  <2>3. Sorted' /\ Calm' /\ Complete'
    BY <1>5 DEF Prepare, Sorted, AllSeen, Calm, Writing, Complete, Ended, Written, Formatted,
       Partitioned, MountedWhile, Asked, Addressed
  <2> QED
    BY <2>1, <2>2, <2>3
<1>6. CASE FakeCheck
  <2>1. TypeOK' /\ Counted' /\ Ended' /\ MountedWhile'
    BY <1>6 DEF FakeCheck, Steps, Counted, Ended, MountedWhile, Asked, ConsentBeforeWrite
  <2>2. Asked' /\ Addressed' /\ Written'
    BY <1>6 DEF FakeCheck, Asked, ConsentBeforeWrite, Writing, Ended, MountedWhile, Addressed,
       NeverFormatsStale, Written, Formatted, Partitioned
  <2>3. Sorted' /\ Calm' /\ Complete'
    BY <1>6 DEF FakeCheck, Sorted, AllSeen, Calm, Writing, Complete, Ended, Written, Formatted,
       Partitioned, MountedWhile, Asked, Addressed
  <2> QED
    BY <2>1, <2>2, <2>3
<1>7. CASE Open
  <2>1. TypeOK' /\ Counted' /\ Ended' /\ MountedWhile'
    BY <1>7 DEF Open, Steps, Counted, Ended, MountedWhile, Asked, ConsentBeforeWrite
  <2>2. Asked' /\ Addressed' /\ Written'
    BY <1>7 DEF Open, Asked, ConsentBeforeWrite, Writing, Ended, MountedWhile, Addressed,
       NeverFormatsStale, Written, Formatted, Partitioned
  <2>3. Sorted' /\ Calm' /\ Complete'
    BY <1>7 DEF Open, Sorted, AllSeen, Calm, Writing, Complete, Ended, Written, Formatted,
       Partitioned, MountedWhile, Asked, Addressed
  <2> QED
    BY <2>1, <2>2, <2>3
<1>8. CASE Gpt
  <2>1. TypeOK' /\ Counted' /\ Ended' /\ MountedWhile'
    BY <1>8 DEF Gpt, Steps, Counted, Ended, MountedWhile, Asked, ConsentBeforeWrite
  <2>2. Asked' /\ Addressed' /\ Written'
    BY <1>8 DEF Gpt, Asked, ConsentBeforeWrite, Writing, Ended, MountedWhile, Addressed,
       NeverFormatsStale, Written, Formatted, Partitioned
  <2>3. Sorted' /\ Calm' /\ Complete'
    BY <1>8 DEF Gpt, Sorted, AllSeen, Calm, Writing, Complete, Ended, Written, Formatted,
       Partitioned, MountedWhile, Asked, Addressed
  <2> QED
    BY <2>1, <2>2, <2>3
<1>9. CASE Format
  <2>1. TypeOK' /\ Counted' /\ Ended' /\ MountedWhile'
    BY <1>9 DEF Format, Steps, Counted, Ended, MountedWhile, Asked, ConsentBeforeWrite
  <2>2. Asked' /\ Addressed' /\ Written'
    BY <1>9 DEF Format, Asked, ConsentBeforeWrite, Writing, Ended, MountedWhile, Addressed,
       NeverFormatsStale, Written, Formatted, Partitioned
  <2>3. Sorted' /\ Calm' /\ Complete'
    BY <1>9 DEF Format, Sorted, AllSeen, Calm, Writing, Complete, Ended, Written, Formatted,
       Partitioned, MountedWhile, Asked, Addressed
  <2> QED
    BY <2>1, <2>2, <2>3
<1>10. CASE PutLoader
  <2>1. TypeOK' /\ Counted' /\ Ended' /\ MountedWhile'
    BY <1>10 DEF PutLoader, Steps, Counted, Ended, MountedWhile, Asked, ConsentBeforeWrite
  <2>2. Asked' /\ Addressed' /\ Written'
    BY <1>10 DEF PutLoader, Asked, ConsentBeforeWrite, Writing, Ended, MountedWhile, Addressed,
       NeverFormatsStale, Written, Formatted, Partitioned
  <2>3. Sorted' /\ Calm' /\ Complete'
    BY <1>10 DEF PutLoader, Sorted, AllSeen, Calm, Writing, Complete, Ended, Written, Formatted,
       Partitioned, MountedWhile, Asked, Addressed
  <2> QED
    BY <2>1, <2>2, <2>3
<1>11. CASE RereadFails
  <2>1. TypeOK' /\ Counted' /\ Ended' /\ MountedWhile'
    BY <1>11 DEF RereadFails, WithoutReread, AfterReread, Steps, Counted, Ended, MountedWhile, Asked, ConsentBeforeWrite
  <2>2. Asked' /\ Addressed' /\ Written'
    BY <1>11 DEF RereadFails, WithoutReread, AfterReread, Asked, ConsentBeforeWrite, Writing, Ended, MountedWhile, Addressed,
       NeverFormatsStale, Written, Formatted, Partitioned
  <2>3. Sorted' /\ Calm' /\ Complete'
    BY <1>11 DEF RereadFails, WithoutReread, AfterReread, Sorted, AllSeen, Calm, Writing, Complete, Ended, Written, Formatted,
       Partitioned, MountedWhile, Asked, Addressed
  <2> QED
    BY <2>1, <2>2, <2>3
<1>12. CASE RereadWorks
  <2>1. TypeOK' /\ Counted' /\ Ended' /\ MountedWhile'
    BY <1>12 DEF RereadWorks, AfterReread, Steps, Counted, Ended, MountedWhile, Asked, ConsentBeforeWrite, Busy
  <2>2. Asked' /\ Addressed' /\ Written'
    BY <1>12 DEF RereadWorks, AfterReread, Asked, ConsentBeforeWrite, Writing, Ended, MountedWhile, Addressed,
       NeverFormatsStale, Written, Formatted, Partitioned, Busy
  <2>3. Sorted' /\ Calm' /\ Complete'
    BY <1>12 DEF RereadWorks, AfterReread, Sorted, AllSeen, Calm, Writing, Complete, Ended, Written, Formatted,
       Partitioned, MountedWhile, Asked, Addressed, Busy
  <2> QED
    BY <2>1, <2>2, <2>3
<1>13. CASE WaitForNode
  <2>1. TypeOK' /\ Counted' /\ Ended' /\ MountedWhile'
    BY <1>13 DEF WaitForNode, Steps, Counted, Ended, MountedWhile, Asked, ConsentBeforeWrite
  <2>2. Asked' /\ Addressed' /\ Written'
    BY <1>13 DEF WaitForNode, Asked, ConsentBeforeWrite, Writing, Ended, MountedWhile, Addressed,
       NeverFormatsStale, Written, Formatted, Partitioned
  <2>3. Sorted' /\ Calm' /\ Complete'
    BY <1>13 DEF WaitForNode, Sorted, AllSeen, Calm, Writing, Complete, Ended, Written, Formatted,
       Partitioned, MountedWhile, Asked, Addressed
  <2> QED
    BY <2>1, <2>2, <2>3
<1>14. CASE Mkfs
  <2>1. TypeOK' /\ Counted' /\ Ended' /\ MountedWhile'
    BY <1>14 DEF Mkfs, Steps, Counted, Ended, MountedWhile, Asked, ConsentBeforeWrite
  <2>2. Asked' /\ Addressed' /\ Written'
    BY <1>14 DEF Mkfs, Asked, ConsentBeforeWrite, Writing, Ended, MountedWhile, Addressed,
       NeverFormatsStale, Written, Formatted, Partitioned
  <2>3. Sorted' /\ Calm' /\ Complete'
    BY <1>14 DEF Mkfs, Sorted, AllSeen, Calm, Writing, Complete, Ended, Written, Formatted,
       Partitioned, MountedWhile, Asked, Addressed
  <2> QED
    BY <2>1, <2>2, <2>3
<1>15. CASE NtfsMount
  <2>1. TypeOK' /\ Counted' /\ Ended' /\ MountedWhile'
    BY <1>15 DEF NtfsMount, Steps, Counted, Ended, MountedWhile, Asked, ConsentBeforeWrite
  <2>2. Asked' /\ Addressed' /\ Written'
    BY <1>15 DEF NtfsMount, Asked, ConsentBeforeWrite, Writing, Ended, MountedWhile, Addressed,
       NeverFormatsStale, Written, Formatted, Partitioned
  <2>3. Sorted' /\ Calm' /\ Complete'
    BY <1>15 DEF NtfsMount, Sorted, AllSeen, Calm, Writing, Complete, Ended, Written, Formatted,
       Partitioned, MountedWhile, Asked, Addressed
  <2> QED
    BY <2>1, <2>2, <2>3
<1>16. CASE CopyFile
  <2>1. TypeOK' /\ Counted' /\ Ended' /\ MountedWhile'
    BY <1>16 DEF CopyFile, Steps, Counted, Ended, MountedWhile, Asked, ConsentBeforeWrite
  <2>2. Asked' /\ Addressed' /\ Written'
    BY <1>16 DEF CopyFile, Asked, ConsentBeforeWrite, Writing, Ended, MountedWhile, Addressed,
       NeverFormatsStale, Written, Formatted, Partitioned
  <2>3. Sorted' /\ Calm' /\ Complete'
    BY <1>16 DEF CopyFile, Sorted, AllSeen, Calm, Writing, Complete, Ended, Written, Formatted,
       Partitioned, MountedWhile, Asked, Addressed
  <2> QED
    BY <2>1, <2>2, <2>3
<1>17. CASE CopyDone
  <2>1. TypeOK' /\ Counted' /\ Ended' /\ MountedWhile'
    BY <1>17 DEF CopyDone, Settle, Steps, Counted, Ended, MountedWhile, Asked, ConsentBeforeWrite
  <2>2. Asked' /\ Addressed' /\ Written'
    BY <1>17 DEF CopyDone, Settle, Asked, ConsentBeforeWrite, Writing, Ended, MountedWhile, Addressed,
       NeverFormatsStale, Written, Formatted, Partitioned
  <2>3. Sorted' /\ Calm' /\ Complete'
    BY <1>17 DEF CopyDone, Settle, Sorted, AllSeen, Calm, Writing, Complete, Ended, Written, Formatted,
       Partitioned, MountedWhile, Asked, Addressed
  <2> QED
    BY <2>1, <2>2, <2>3
<1>18. CASE ElTorito
  <2>1. TypeOK' /\ Counted' /\ Ended' /\ MountedWhile'
    BY <1>18 DEF ElTorito, Settle, Steps, Counted, Ended, MountedWhile, Asked, ConsentBeforeWrite
  <2>2. Asked' /\ Addressed' /\ Written'
    BY <1>18 DEF ElTorito, Settle, Asked, ConsentBeforeWrite, Writing, Ended, MountedWhile, Addressed,
       NeverFormatsStale, Written, Formatted, Partitioned
  <2>3. Sorted' /\ Calm' /\ Complete'
    BY <1>18 DEF ElTorito, Settle, Sorted, AllSeen, Calm, Writing, Complete, Ended, Written, Formatted,
       Partitioned, MountedWhile, Asked, Addressed
  <2> QED
    BY <2>1, <2>2, <2>3
<1>19. CASE Unmount
  <2>1. TypeOK' /\ Counted' /\ Ended' /\ MountedWhile'
    BY <1>19 DEF Unmount, Steps, Counted, Ended, MountedWhile, Asked, ConsentBeforeWrite
  <2>2. Asked' /\ Addressed' /\ Written'
    BY <1>19 DEF Unmount, Asked, ConsentBeforeWrite, Writing, Ended, MountedWhile, Addressed,
       NeverFormatsStale, Written, Formatted, Partitioned
  <2>3. Sorted' /\ Calm' /\ Complete'
    BY <1>19 DEF Unmount, Sorted, AllSeen, Calm, Writing, Complete, Ended, Written, Formatted,
       Partitioned, MountedWhile, Asked, Addressed
  <2> QED
    BY <2>1, <2>2, <2>3
<1>20. CASE Sync
  <2>1. TypeOK' /\ Counted' /\ Ended' /\ MountedWhile'
    BY <1>20 DEF Sync, Steps, Counted, Ended, MountedWhile, Asked, ConsentBeforeWrite
  <2>2. Asked' /\ Addressed' /\ Written'
    BY <1>20 DEF Sync, Asked, ConsentBeforeWrite, Writing, Ended, MountedWhile, Addressed,
       NeverFormatsStale, Written, Formatted, Partitioned
  <2>3. Sorted' /\ Calm' /\ Complete'
    BY <1>20 DEF Sync, Sorted, AllSeen, Calm, Writing, Complete, Ended, Written, Formatted,
       Partitioned, MountedWhile, Asked, Addressed
  <2> QED
    BY <2>1, <2>2, <2>3
<1>21. CASE Release
  <2>1. TypeOK' /\ Counted' /\ Ended' /\ MountedWhile'
    BY <1>21 DEF Release, Steps, Counted, Ended, MountedWhile, Asked, ConsentBeforeWrite
  <2>2. Asked' /\ Addressed' /\ Written'
    BY <1>21 DEF Release, Asked, ConsentBeforeWrite, Writing, Ended, MountedWhile, Addressed,
       NeverFormatsStale, Written, Formatted, Partitioned
  <2>3. Sorted' /\ Calm' /\ Complete'
    BY <1>21 DEF Release, Sorted, AllSeen, Calm, Writing, Complete, Ended, Written, Formatted,
       Partitioned, MountedWhile, Asked, Addressed
  <2> QED
    BY <2>1, <2>2, <2>3
<1>22. CASE Flash
  <2>1. TypeOK' /\ Counted' /\ Ended' /\ MountedWhile'
    BY <1>22 DEF Flash, Steps, Counted, Ended, MountedWhile, Asked, ConsentBeforeWrite
  <2>2. Asked' /\ Addressed' /\ Written'
    BY <1>22 DEF Flash, Asked, ConsentBeforeWrite, Writing, Ended, MountedWhile, Addressed,
       NeverFormatsStale, Written, Formatted, Partitioned
  <2>3. Sorted' /\ Calm' /\ Complete'
    BY <1>22 DEF Flash, Sorted, AllSeen, Calm, Writing, Complete, Ended, Written, Formatted,
       Partitioned, MountedWhile, Asked, Addressed
  <2> QED
    BY <2>1, <2>2, <2>3
<1>23. CASE Automount
  <2>1. TypeOK' /\ Counted' /\ Ended' /\ MountedWhile'
    BY <1>23 DEF Automount, Steps, Counted, Ended, MountedWhile, Asked, ConsentBeforeWrite
  <2>2. Asked' /\ Addressed' /\ Written'
    BY <1>23 DEF Automount, Asked, ConsentBeforeWrite, Writing, Ended, MountedWhile, Addressed,
       NeverFormatsStale, Written, Formatted, Partitioned
  <2>3. Sorted' /\ Calm' /\ Complete'
    BY <1>23 DEF Automount, Sorted, AllSeen, Calm, Writing, Complete, Ended, Written, Formatted,
       Partitioned, MountedWhile, Asked, Addressed
  <2> QED
    BY <2>1, <2>2, <2>3
<1>24. CASE Eject
  <2>1. TypeOK' /\ Counted' /\ Ended' /\ MountedWhile'
    BY <1>24 DEF Eject, Steps, Counted, Ended, MountedWhile, Asked, ConsentBeforeWrite
  <2>2. Asked' /\ Addressed' /\ Written'
    BY <1>24 DEF Eject, Asked, ConsentBeforeWrite, Writing, Ended, MountedWhile, Addressed,
       NeverFormatsStale, Written, Formatted, Partitioned
  <2>3. Sorted' /\ Calm' /\ Complete'
    BY <1>24 DEF Eject, Sorted, AllSeen, Calm, Writing, Complete, Ended, Written, Formatted,
       Partitioned, MountedWhile, Asked, Addressed
  <2> QED
    BY <2>1, <2>2, <2>3
<1>25. CASE WriteBack
  <2>1. TypeOK' /\ Counted' /\ Ended' /\ MountedWhile'
    BY <1>25 DEF WriteBack, Steps, Counted, Ended, MountedWhile, Asked, ConsentBeforeWrite
  <2>2. Asked' /\ Addressed' /\ Written'
    BY <1>25 DEF WriteBack, Asked, ConsentBeforeWrite, Writing, Ended, MountedWhile, Addressed,
       NeverFormatsStale, Written, Formatted, Partitioned
  <2>3. Sorted' /\ Calm' /\ Complete'
    BY <1>25 DEF WriteBack, Sorted, AllSeen, Calm, Writing, Complete, Ended, Written, Formatted,
       Partitioned, MountedWhile, Asked, Addressed
  <2> QED
    BY <2>1, <2>2, <2>3
<1>26. CASE Reprobe
  <2>1. TypeOK' /\ Counted' /\ Ended' /\ MountedWhile'
    BY <1>26 DEF Reprobe, Steps, Counted, Ended, MountedWhile, Asked, ConsentBeforeWrite, Busy
  <2>2. Asked' /\ Addressed' /\ Written'
    BY <1>26 DEF Reprobe, Asked, ConsentBeforeWrite, Writing, Ended, MountedWhile, Addressed,
       NeverFormatsStale, Written, Formatted, Partitioned, Busy
  <2>3. Sorted' /\ Calm' /\ Complete'
    BY <1>26 DEF Reprobe, Sorted, AllSeen, Calm, Writing, Complete, Ended, Written, Formatted,
       Partitioned, MountedWhile, Asked, Addressed, Busy
  <2> QED
    BY <2>1, <2>2, <2>3
<1>27. CASE FormatVolume
  <2>1. TypeOK' /\ Counted' /\ Ended' /\ MountedWhile'
    BY <1>27 DEF FormatVolume, Steps, Counted, Ended, MountedWhile, Asked, ConsentBeforeWrite
  <2>2. Asked' /\ Addressed' /\ Written'
    BY <1>27 DEF FormatVolume, Asked, ConsentBeforeWrite, Writing, Ended, MountedWhile, Addressed,
       NeverFormatsStale, Written, Formatted, Partitioned
  <2>3. Sorted' /\ Calm' /\ Complete'
    BY <1>27 DEF FormatVolume, Sorted, AllSeen, Calm, Writing, Complete, Ended, Written, Formatted,
       Partitioned, MountedWhile, Asked, Addressed
  <2> QED
    BY <2>1, <2>2, <2>3
<1>28. CASE UNCHANGED vars
  BY <1>28 DEF vars, Counted, Ended, Asked, ConsentBeforeWrite, Addressed, NeverFormatsStale,
     Written, Formatted, AllSeen, MountedWhile, Sorted, Calm, Complete
<1> QED
  BY <1>1, <1>2, <1>3, <1>4, <1>5, <1>6, <1>7, <1>8, <1>9, <1>10, <1>11, <1>12, <1>13, <1>14, <1>15, <1>16, <1>17, <1>18, <1>19, <1>20, <1>21, <1>22, <1>23, <1>24, <1>25, <1>26, <1>27,
     <1>28 DEF Next, Program

LEMMA Inductive == Spec => []Inv
BY InitEstablishes, StepPreserves, PTL DEF Spec

-----------------------------------------------------------------------------
(* The theorems. *)

\* The type invariant of copy mode, for every set of files.
THEOREM TypeCorrect == Spec => []TypeOK
<1>1. Inv => TypeOK
  BY DEF Inv
<1> QED
  BY <1>1, Inductive, PTL

\* Nothing is written by a dry run, nor without the user's consent.
THEOREM NothingWithoutConsent == Spec => []ConsentBeforeWrite
<1>1. Inv => ConsentBeforeWrite
  BY DEF Inv, Asked
<1> QED
  BY <1>1, Inductive, PTL

\* No filesystem is ever made on a partition of the old table, whatever a
\* desktop or udev does.
THEOREM StaleNeverFormatted == Spec => []NeverFormatsStale
<1>1. Inv => NeverFormatsStale
  BY DEF Inv, Addressed
<1> QED
  BY <1>1, Inductive, PTL

\* A flash that succeeds is complete but for the entries passed over, durable,
\* released, and harmed by nothing that prepare_target() could see.
THEOREM SuccessMeansComplete == Spec => []SuccessIsComplete
<1>1. Inv => SuccessIsComplete
  BY JobFacts DEF Inv, TypeOK, Complete, Calm, SuccessIsComplete
<1> QED
  BY <1>1, Inductive, PTL
=============================================================================
