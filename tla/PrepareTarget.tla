--------------------------- MODULE PrepareTarget ---------------------------
(***************************************************************************)
(* prepare_target() of libbuf/src/copy/mod.rs: before it writes, the       *)
(* program takes the target away from the filesystems on it.  On Linux it  *)
(* unmounts what /proc/mounts says is mounted from the target, which       *)
(* is_partition_of() recognises by the name; on macOS diskutil does it; on *)
(* Windows every volume of the drive is locked, dismounted and kept locked *)
(* while the drive is written.  Meanwhile others mount, unmount and open   *)
(* what they like.                                                         *)
(*                                                                         *)
(* A device name is a sequence of tokens: a prefix that never matters,     *)
(* letters, and digits.  partition_node() of libbuf/src/copy/ntfs.rs       *)
(* builds the names of partitions.  On Windows, where a volume tells the   *)
(* number of its drive, names only say which volume is on which drive.     *)
(***************************************************************************)
EXTENDS Integers, Sequences, FiniteSets

CONSTANTS
    Disks,      \* names of the disks of the machine
    Numbers,    \* partition numbers, as sequences of digits
    LockTries,  \* LOCK_TRIES: how often a volume is tried
    MaxMounts,  \* bound: mounts of one device at a time
    MaxMounted, \* bound: devices mounted at first
    MaxNoise    \* bound: mounts and unmounts by others

Digits == {"0", "1", "2", "3", "4", "5", "6", "7", "8", "9"}

ASSUME DisksAssumption   == \A d \in Disks : d \in Seq(STRING) /\ d # <<>>
ASSUME NumbersAssumption == \A i \in Numbers : i \in Seq(Digits) /\ i # <<>>
ASSUME TriesAssumption   == LockTries \in Nat \ {0}
ASSUME BoundAssumption   == \A n \in {MaxMounts, MaxMounted, MaxNoise} : n \in Nat

-----------------------------------------------------------------------------
(* Names. *)

EndsInDigit(disk) == disk[Len(disk)] \in Digits

PartitionNode(disk, i) == disk \o (IF EndsInDigit(disk) THEN <<"p">> ELSE <<>>) \o i

HasPrefix(cand, dev) == Len(dev) <= Len(cand) /\ SubSeq(cand, 1, Len(dev)) = dev
Suffix(cand, dev)    == SubSeq(cand, Len(dev) + 1, Len(cand))
WithoutP(rest)       == IF rest # <<>> /\ Head(rest) = "p" THEN Tail(rest) ELSE rest
AllDigits(s)         == \A k \in DOMAIN s : s[k] \in Digits

\* Mutant of IsPartitionOf: a bare prefix.
IsPrefixed(cand, dev) == HasPrefix(cand, dev) /\ Suffix(cand, dev) # <<>>

IsPartitionOf(cand, dev) ==
    /\ HasPrefix(cand, dev)
    /\ WithoutP(Suffix(cand, dev)) # <<>>
    /\ AllDigits(WithoutP(Suffix(cand, dev)))

\* No disk has the name of a partition of a disk that is named by letters, or
\* the name of another disk and a "p".
ASSUME DisksApart ==
    \A d, t \in Disks :
        /\ ~EndsInDigit(t) /\ d # t /\ HasPrefix(d, t) => ~AllDigits(WithoutP(Suffix(d, t)))
        /\ t # d \o <<"p">>

Partitions(disk) == {PartitionNode(disk, i) : i \in Numbers}
Devices          == Disks \cup UNION {Partitions(d) : d \in Disks}

-----------------------------------------------------------------------------
VARIABLES
    pc,      \* where prepare_target() is
    os,      \* the system it runs on
    target,  \* the disk to be overwritten
    list,    \* "there", or "missing": /proc/mounts cannot be read, the target
             \* is a plain file (macOS), or its name has no drive number (Windows)
    noise,   \* how often others have done something
    mounts,  \* how often each device is mounted
    held,    \* volumes others have open (Windows)
    todo,    \* lines of /proc/mounts still to be unmounted, or volumes still to
             \* be asked for their drive, by device
    vol,     \* the volume that is being locked
    tries,   \* how often it was busy
    locked,  \* volumes the program keeps locked: the PrepGuard
    passed,  \* volumes that could not be asked for their drive
    late,    \* mounts made since the list was read
    robbed   \* devices the program has unmounted or locked

locking == <<vol, tries, locked, passed>>
vars == <<pc, os, target, list, noise, mounts, held, todo, locking, late, robbed>>

None == [d \in Devices |-> 0]

\* What the program is to take over: on Linux it never looks at the whole disk.
Mine == Partitions(target) \cup IF os = "linux" THEN {} ELSE {target}

Init ==
    /\ pc = "read"
    /\ os \in {"linux", "macos", "windows"}
    /\ target \in Disks
    /\ list \in {"there", "missing"}
    /\ noise = 0
    /\ \E S \in {D \in SUBSET Devices : Cardinality(D) <= MaxMounted} :
         /\ \E m \in [S -> 1 .. MaxMounts] :
              /\ os = "windows" => \A d \in S : m[d] = 1
              /\ mounts = [d \in Devices |-> IF d \in S THEN m[d] ELSE 0]
         /\ held \in IF os = "windows" THEN SUBSET S ELSE {{}}
    /\ todo = None /\ late = None /\ robbed = {}
    /\ vol = {} /\ tries = 0 /\ locked = {} /\ passed = {}

-----------------------------------------------------------------------------
(* Linux. *)

\* Mutant of ReadMounts: one line for each device.
ReadMountsOnce ==
    /\ pc = "read" /\ os = "linux"
    /\ todo' = [d \in Devices |->
                  IF list = "there" /\ IsPartitionOf(d, target) /\ mounts[d] > 0 THEN 1 ELSE 0]
    /\ pc' = "unmount"
    /\ UNCHANGED <<os, target, list, noise, mounts, held, locking, late, robbed>>

\* The lines of /proc/mounts that name a partition of the target: none of a
\* file that cannot be read.
ReadMounts ==
    /\ pc = "read" /\ os = "linux"
    /\ todo' = [d \in Devices |->
                  IF list = "there" /\ IsPartitionOf(d, target) THEN mounts[d] ELSE 0]
    /\ pc' = "unmount"
    /\ UNCHANGED <<os, target, list, noise, mounts, held, locking, late, robbed>>

\* Mutant of Unmount: lines are counted up instead of down.
UnmountCountingUp ==
    /\ pc = "unmount"
    /\ \E d \in Devices :
         /\ todo[d] > 0
         /\ \/ /\ mounts[d] > 0
               /\ mounts' = [mounts EXCEPT ![d] = @ - 1]
               /\ todo'   = [todo EXCEPT ![d] = @ + 1]
               /\ robbed' = robbed \cup {d}
               /\ pc' = pc
            \/ pc' = "failed" /\ UNCHANGED <<mounts, todo, robbed>>
    /\ UNCHANGED <<os, target, list, noise, held, locking, late>>

\* The next line, in whatever order they are: umount takes one mount of the
\* device away, or fails, since something uses it or somebody else was faster.
Unmount ==
    /\ pc = "unmount"
    /\ \E d \in Devices :
         /\ todo[d] > 0
         /\ \/ /\ mounts[d] > 0
               /\ mounts' = [mounts EXCEPT ![d] = @ - 1]
               /\ todo'   = [todo EXCEPT ![d] = @ - 1]
               /\ robbed' = robbed \cup {d}
               /\ pc' = pc
            \/ pc' = "failed" /\ UNCHANGED <<mounts, todo, robbed>>
    /\ UNCHANGED <<os, target, list, noise, held, locking, late>>

-----------------------------------------------------------------------------
(* macOS. *)

\* diskutil unmountDisk takes every mount of the disk away, or only some; a
\* plain file has none.
UnmountDisk ==
    /\ pc = "read" /\ os = "macos"
    /\ \E S \in SUBSET {d \in Mine : mounts[d] > 0} :
         /\ \/ pc' = "flash" /\ list = "missing" /\ S = {}
            \/ pc' = "flash" /\ list = "there" /\ S = {d \in Mine : mounts[d] > 0}
            \/ pc' = "failed" /\ list = "there"
         /\ mounts' = [d \in Devices |-> IF d \in S THEN 0 ELSE mounts[d]]
         /\ robbed' = S
    /\ UNCHANGED <<os, target, list, noise, held, todo, locking, late>>

-----------------------------------------------------------------------------
(* Windows. *)

\* enumerate_volumes(): the volumes of every drive.  A target whose name has
\* no drive number is written without a lock.
ListVolumes ==
    /\ pc = "read" /\ os = "windows"
    /\ todo' = IF list = "there" THEN mounts ELSE None
    /\ pc'   = IF list = "there" THEN "lock" ELSE "flash"
    /\ UNCHANGED <<os, target, list, noise, mounts, held, locking, late, robbed>>

\* The next volume: one of another drive is left alone, and so is one that
\* cannot be opened to be asked.
AskVolume ==
    /\ pc = "lock" /\ vol = {}
    /\ \E d \in Devices :
         /\ todo[d] > 0
         /\ todo' = [todo EXCEPT ![d] = @ - 1]
         /\ \/ vol' = {d} \cap Mine /\ passed' = passed
            \/ vol' = {} /\ passed' = passed \cup {d}
    /\ UNCHANGED <<pc, os, target, list, noise, mounts, held, tries, locked, late, robbed>>

\* lock_and_dismount(): nobody else has the volume open.  A dismount that fails
\* goes unnoticed.
Lock ==
    /\ pc = "lock" /\ vol # {} /\ vol \cap held = {}
    /\ mounts' \in {mounts, [d \in Devices |-> IF d \in vol THEN 0 ELSE mounts[d]]}
    /\ locked' = locked \cup vol
    /\ robbed' = robbed \cup vol
    /\ vol' = {} /\ tries' = 0
    /\ UNCHANGED <<pc, os, target, list, noise, held, todo, passed, late>>

\* A volume that stays busy ends the run; the locks go with the list of them.
LockFails ==
    /\ pc = "lock" /\ vol # {}
    /\ \/ tries + 1 < LockTries /\ tries' = tries + 1 /\ UNCHANGED <<pc, vol, locked>>
       \/ tries + 1 = LockTries /\ tries' = 0 /\ pc' = "failed" /\ vol' = {} /\ locked' = {}
    /\ UNCHANGED <<os, target, list, noise, mounts, held, todo, passed, late, robbed>>

-----------------------------------------------------------------------------
(* The flash, and the others. *)

Prepared ==
    /\ pc \in {"unmount", "lock"}
    /\ todo = None /\ vol = {}
    /\ pc' = "flash"
    /\ UNCHANGED <<os, target, list, noise, mounts, held, todo, locking, late, robbed>>

\* The PrepGuard is dropped once everything is written.
Finish ==
    /\ pc = "flash"
    /\ pc' = "done" /\ locked' = {}
    /\ UNCHANGED <<os, target, list, noise, mounts, held, todo, vol, tries, passed, late, robbed>>

\* What others do once the run is over is not part of this.
MoreNoise == noise < MaxNoise /\ noise' = noise + 1 /\ pc \notin {"failed", "done"}

\* Nobody can mount or open what is locked.
MountByOthers ==
    /\ MoreNoise
    /\ \E d \in Devices \ locked :
         /\ mounts[d] < MaxMounts /\ (os = "windows" => mounts[d] = 0)
         /\ mounts' = [mounts EXCEPT ![d] = @ + 1]
         /\ late'   = IF pc = "read" THEN late ELSE [late EXCEPT ![d] = @ + 1]
    /\ UNCHANGED <<pc, os, target, list, held, todo, locking, robbed>>

UnmountByOthers ==
    /\ MoreNoise
    /\ \E d \in Devices \ (locked \cup held) :
         mounts[d] > 0 /\ mounts' = [mounts EXCEPT ![d] = @ - 1]
    /\ UNCHANGED <<pc, os, target, list, held, todo, locking, late, robbed>>

\* Explorer or a scanner opens a volume, or lets go of it.
OpenByOthers ==
    /\ MoreNoise /\ os = "windows"
    /\ \E d \in Devices \ locked :
         \/ d \notin held /\ mounts[d] > 0 /\ held' = held \cup {d}
         \/ d \in held /\ held' = held \ {d}
    /\ UNCHANGED <<pc, os, target, list, mounts, todo, locking, late, robbed>>

Program == \/ ReadMounts \/ Unmount \/ UnmountDisk \/ ListVolumes \/ AskVolume \/ Lock
           \/ LockFails \/ Prepared \/ Finish

Next == Program \/ MountByOthers \/ UnmountByOthers \/ OpenByOthers

Spec == Init /\ [][Next]_vars

-----------------------------------------------------------------------------
(* Correctness *)

TypeOK ==
    /\ pc \in {"read", "unmount", "lock", "flash", "failed", "done"}
    /\ os \in {"linux", "macos", "windows"}
    /\ target \in Disks
    /\ list \in {"there", "missing"}
    /\ noise \in 0 .. MaxNoise
    /\ mounts \in [Devices -> 0 .. MaxMounts]
    /\ todo \in [Devices -> 0 .. MaxMounts]
    /\ late \in [Devices -> 0 .. MaxNoise]
    /\ held \in SUBSET Devices /\ locked \in SUBSET Mine
    /\ vol \in SUBSET Mine /\ passed \in SUBSET Devices
    /\ tries \in 0 .. LockTries - 1
    /\ robbed \in SUBSET Devices

\* While the target is flashed on a machine that could list its mounts, every
\* mount there was of a partition of it is gone, or its volume is locked,
\* however often it was mounted and whoever interferes: what is still mounted
\* was mounted by others after the list was read, or is a volume that did not
\* tell its drive.
OnlyLateMountsRemain ==
    pc = "flash" /\ list = "there" =>
        \A d \in Mine : mounts[d] <= late[d] \/ d \in locked \cup passed

\* A disk that is named by a letter does not cost another disk its mounts,
\* the disks whose names it begins included, and where no name is looked at
\* none does.
LettersRobNobody == os # "linux" \/ ~EndsInDigit(target) => robbed \subseteq Mine

\* What the comment of prepare_target() says: it unmounts the partitions of
\* this device, whose names it does not match by a bare prefix.
OthersLeftAlone == robbed \subseteq Mine
=============================================================================
