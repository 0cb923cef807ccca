------------------------------- MODULE Fat32 -------------------------------
(***************************************************************************)
(* Whether the files of an image fit: what libbuf/src/copy reckons they    *)
(* need on the target, and what the filesystem that fatfs makes there      *)
(* really has room for.                                                    *)
(*                                                                         *)
(* Everything is counted in words of eight bytes, the constants of         *)
(* CopyLayout included: an entry of a FAT32 table is half a word, so that  *)
(* a cluster costs one word of the two tables.                             *)
(***************************************************************************)
EXTENDS CopyLayout, FiniteSetsExt

KiB == 128
GiB == 1024 * MiB

\* The constants of the code, in words.
ASSUME WordsAssumption == /\ MiB = 1024 * KiB /\ FloorBytes = 64 * MiB
                          /\ NtfsSector = 64

RoundUpTo(len, c) == SectorsFor(len, c) * c

\* fat32_cluster(): 512 bytes, 4 KiB, then one KiB for each 2 GiB of the next
\* power of two, and neither below a sector nor above 32 KiB.
Fat32Cluster(part, s) ==
    LET large == {k \in {8, 16, 32} : (part - 1) \div (2 * GiB) < k}
        c     == IF part <= 260 * MiB THEN 64
                 ELSE IF part <= 8 * GiB THEN 4 * KiB
                 ELSE IF large = {} THEN 32 * KiB ELSE Min(large) * KiB
    IN  Min({32 * KiB, Max({s, c})})

\* FAT32_MAX_FILE, 4 GiB - 1 byte.
Fat32MaxFile == 4 * GiB - 1

\* Mutant of FatOverhead: one of the two tables.
FatOverheadOneTable(part, s, c) == 8 * s + (part \div c) \div 2 + c

\* The reserved sectors, two tables, the cluster of the root directory.
FatOverhead(part, s, c) == 8 * s + part \div c + c

\* What the directory entries of a file or a directory are taken to need.
EntryWords(ntfs) == IF ntfs THEN KiB ELSE 16

\* What NTFS is taken to need for itself.
NtfsOverhead == 64 * MiB

-----------------------------------------------------------------------------
(* fatfs 0.3: format_volume() and the allocation of clusters. *)

\* Sectors of one table, for a volume of so many sectors.
TableSectors(volume, s, c) ==
    LET spc == c \div s IN SectorsFor(volume - 8 + 2 * spc, spc * 2 * s + 2)

Clusters(volume, s, c) == (volume - 8 - 2 * TableSectors(volume, s, c)) \div (c \div s)

\* With fewer clusters a volume is FAT16, and fatfs does not make it FAT32.
LeastClusters == 65525

\* A directory entry is 32 bytes; a name takes one and one more for every 13
\* characters.
SlotWords == 4
=============================================================================
