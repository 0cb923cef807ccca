------------------------------- MODULE GptDisk -------------------------------
(***************************************************************************)
(* Partitioning and filling the target in copy mode: write_gpt() of        *)
(* libbuf/src/copy/mod.rs, then the FAT32 filesystem that fatfs writes     *)
(* through a Partition window, or the UEFI:NTFS loader and the NTFS        *)
(* partition that the kernel writes.                                       *)
(*                                                                         *)
(* The device is the flat one a SectorCache implements (BlockDevice), here *)
(* one content per sector; every write to it may fail midway.              *)
(***************************************************************************)
EXTENDS CopyLayout

CONSTANT MaxBytes   \* bound: size of the largest target

ASSUME MaxBytesAssumption == MaxBytes \in Nat

VARIABLES
    pc,     \* step of run() and write_gpt()
    job,    \* the target, and the filesystem its files need
    dev,    \* content of every sector of the target
    at      \* position in the Partition window, in bytes

vars == <<pc, job, dev, at>>

Job == [bytes : 0 .. MaxBytes, logical : SectorSizes, ntfs : BOOLEAN]

\* The sector size run() computes with, and what it makes of the target.
SectorSize == IF job.ntfs THEN NtfsSector ELSE job.logical
Total      == job.bytes \div SectorSize
Layout     == Parts(Total, SectorSize, job.ntfs)

\* Sectors of the table, as write_gpt() names them.
Arrays      == ArraySectors(SectorSize)
FirstLba    == AlignLba(SectorSize)
FirstUsable == 2 + Arrays

\* Mutant of LastLba: one past the end.
LastLbaAtEnd == Total

LastLba == Total - 1

BackupArray == LastLba - Arrays
LastUsable  == BackupArray - 1

\* Placement of the i-th partition, back to back from FirstLba.
StartOf(i) == FirstLba + IF i = 2 THEN Layout[1] ELSE 0
EndOf(i)   == StartOf(i) + Layout[i] - 1

-----------------------------------------------------------------------------
(* Contents of a sector. *)

Old     == [kind |-> "old"]
Zero    == [kind |-> "zero"]
Mbr     == [kind |-> "mbr"]
Loader  == [kind |-> "loader"]
Files   == [kind |-> "files"]
Entries(i) == [kind |-> "entries", index |-> i]
Header(my, alt, arr) ==
    [kind |-> "header", my |-> my, alt |-> alt, arr |-> arr,
     first |-> FirstUsable, last |-> LastUsable]

\* The target with n sectors from lba on replaced by content.
Put(lba, n, content) ==
    [l \in DOMAIN dev \cup lba .. lba + n - 1 |->
        IF l \in lba .. lba + n - 1 THEN content[l - lba] ELSE dev[l]]

\* n sectors of one content, and the entry array.
All(n, c)  == [i \in 0 .. n - 1 |-> c]
EntryArray == [i \in 0 .. Arrays - 1 |-> Entries(i)]

\* gpt_write_at(): all of it and on to the next step, or some and no further.
WriteAt(lba, n, content, next) ==
    /\ \/ dev' = Put(lba, n, content) /\ pc' = next
       \/ \E k \in 0 .. n - 1 : dev' = Put(lba, k, content) /\ pc' = "failed"
    /\ UNCHANGED <<job, at>>

-----------------------------------------------------------------------------
Init ==
    /\ pc = "plan"
    /\ job \in Job
    /\ dev = [l \in 0 .. Total - 1 |-> Old]
    /\ at = 0

\* The size checks of both run()s, up to the call of write_gpt(); the NTFS
\* layout is refused on other logical sectors than its own.
Plan ==
    /\ pc = "plan"
    /\ \/ /\ ~TooSmall(job.bytes \div job.logical, job.logical, FALSE)
          /\ job.ntfs => /\ ~TooSmall(Total, NtfsSector, TRUE)
                         /\ job.logical = NtfsSector
          /\ pc' = "place"
       \/ pc' = "failed"
    /\ UNCHANGED <<job, dev, at>>

\* write_gpt() refuses a layout that leaves the usable range.
Place ==
    /\ pc = "place"
    /\ pc' = IF StartOf(1) < FirstUsable \/ EndOf(Len(Layout)) > LastUsable
             THEN "misfit" ELSE "wipe"
    /\ UNCHANGED <<job, dev, at>>

\* Mutant of Wipe: only what the new table occupies.
WipeTableOnly == pc = "wipe" /\ WriteAt(0, FirstUsable, All(FirstUsable, Zero), "mbr")

\* Nothing before the first partition survives, ISO9660 descriptors included.
Wipe          == pc = "wipe"  /\ WriteAt(0, FirstLba, All(FirstLba, Zero), "mbr")
PutMbr        == pc = "mbr"   /\ WriteAt(0, 1, All(1, Mbr), "header")
PutHeader     == pc = "header" /\ WriteAt(1, 1, All(1, Header(1, LastLba, 2)), "array")
PutArray      == pc = "array" /\ WriteAt(2, Arrays, EntryArray, "array2")
PutArray2     == pc = "array2" /\ WriteAt(BackupArray, Arrays, EntryArray, "header2")
PutHeader2    == pc = "header2"
                 /\ WriteAt(LastLba, 1, All(1, Header(LastLba, 1, BackupArray)), "flush")

\* The flush at the end of write_gpt().
Flush ==
    /\ pc = "flush"
    /\ pc' \in {IF job.ntfs THEN "loader" ELSE "fat", "failed"}
    /\ UNCHANGED <<job, dev, at>>

\* Mutant of PutLoader: into the first partition.
PutLoaderFirst ==
    pc = "loader" /\ WriteAt(StartOf(1), Layout[2], All(Layout[2], Loader), "ntfs")

\* The loader image, its flush and sync, and the new table read by the kernel.
PutLoader ==
    pc = "loader" /\ WriteAt(StartOf(2), Layout[2], All(Layout[2], Loader), "ntfs")

-----------------------------------------------------------------------------
(* The Partition window. *)

WindowLen == Layout[1] * SectorSize

\* Mutant of SectorAt: the window's base is not added.
SectorAtStart(pos) == pos \div SectorSize

\* The sector of the target under a position of the window.
SectorAt(pos) == (FirstLba * SectorSize + pos) \div SectorSize

\* One call moves no further than the window and the sector allow.
Transfers ==
    {n \in 1 .. SectorSize : /\ at + n <= WindowLen
                             /\ SectorAt(at + n - 1) = SectorAt(at)}

FatWrite ==
    /\ pc = "fat"
    /\ at < WindowLen     \* or WriteZero, "write past partition end"
    /\ \E n \in Transfers :
          /\ dev' = Put(SectorAt(at), 1, All(1, Files))
          /\ at' = at + n
    /\ UNCHANGED <<pc, job>>

\* At the end of the window a read returns nothing.
FatRead ==
    /\ pc = "fat"
    /\ \E n \in Transfers : at' = at + n
    /\ UNCHANGED <<pc, job, dev>>

\* Anywhere but before the window, past its end too.
FatSeek ==
    /\ pc = "fat"
    /\ at' \in 0 .. WindowLen + 1
    /\ UNCHANGED <<pc, job, dev>>

\* The kernel keeps mkfs.ntfs and the mounted filesystem in partition 1.
NtfsWrite ==
    /\ pc = "ntfs"
    /\ \E l \in StartOf(1) .. EndOf(1) : dev' = Put(l, 1, All(1, Files))
    /\ UNCHANGED <<pc, job, at>>

\* Unmount, flush and sync; or any of it, or the copying before it, fails.
Finish ==
    /\ pc \in {"fat", "ntfs"}
    /\ pc' \in {"done", "failed"}
    /\ UNCHANGED <<job, dev, at>>

Next ==
    \/ Plan \/ Place \/ Wipe \/ PutMbr \/ PutHeader \/ PutArray \/ PutArray2 \/ PutHeader2
    \/ Flush \/ PutLoader \/ FatWrite \/ FatRead \/ FatSeek \/ NtfsWrite \/ Finish

Spec == Init /\ [][Next]_vars

-----------------------------------------------------------------------------
(* Correctness *)

Steps == {"plan", "place", "misfit", "wipe", "mbr", "header", "array", "array2",
          "header2", "flush", "loader", "fat", "ntfs", "done", "failed"}

Kinds == {"old", "zero", "mbr", "loader", "files", "entries", "header"}

\* Every sector written, by the program or a filesystem, is one of the target.
TypeOK ==
    /\ pc \in Steps
    /\ job \in Job
    /\ DOMAIN dev = 0 .. Total - 1
    /\ \A l \in DOMAIN dev : dev[l].kind \in Kinds
    /\ at \in Nat

\* A target that passes the size checks is never refused by write_gpt(), which
\* by then runs on a drive that the fake check has overwritten.
NeverMisfit == pc # "misfit"

Filling == pc \in {"fat", "ntfs", "done"}

\* Whatever the filesystems write, firmware that starts from either header finds
\* the other one, a full entry array, and partitions in the usable range.
FirmwareFindsTable ==
    Filling =>
        /\ dev[0] = Mbr
        /\ \A l \in {1, LastLba} :
             LET h == dev[l] IN
             /\ h.kind = "header" /\ h.my = l
             /\ dev[h.alt].kind = "header" /\ dev[h.alt].alt = l
             /\ \A i \in 0 .. Arrays - 1 : dev[h.arr + i] = Entries(i)
             /\ \A i \in DOMAIN Layout : h.first <= StartOf(i) /\ EndOf(i) <= h.last

\* No sector before the first partition still tells of what the drive held: a
\* stale ISO9660 descriptor would make the drive look like its old self.
OldSignaturesGone == Filling => \A l \in 0 .. FirstLba - 1 : dev[l] # Old

\* The loader partition keeps the whole loader, next to an NTFS partition that
\* fills up to it.
LoaderSurvives ==
    Filling /\ job.ntfs => \A l \in StartOf(2) .. EndOf(2) : dev[l] = Loader
=============================================================================
