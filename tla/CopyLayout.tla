----------------------------- MODULE CopyLayout -----------------------------
(***************************************************************************)
(* Where copy mode puts what on the target: the arithmetic of run() in     *)
(* libbuf/src/copy/mod.rs (one FAT32 partition) and libbuf/src/copy/ntfs.rs *)
(* (an NTFS partition and the UEFI:NTFS loader behind it), for a logical   *)
(* sector of s bytes and a target of total sectors.                        *)
(***************************************************************************)
EXTENDS Alignment, Sequences

CONSTANTS
    SectorSizes,    \* logical sector sizes copy mode takes
    NtfsSector,     \* SECTOR of ntfs.rs: the only one the NTFS layout takes
    MiB,            \* where the first partition starts, in bytes
    GptArrayBytes,  \* ENTRY_SIZE * ENTRY_COUNT
    FloorBytes,     \* the least a data partition may have
    LoaderBytes     \* length of LOADER_IMG

ASSUME SectorSizesAssumption == SectorSizes \subseteq Nat \ {0} /\ NtfsSector \in SectorSizes
ASSUME BytesAssumption == /\ MiB \in Nat /\ GptArrayBytes \in Nat \ {0}
                          /\ FloorBytes \in Nat /\ LoaderBytes \in Nat \ {0}

\* Sectors that hold so many bytes.
SectorsFor(bytes, s) == (bytes + s - 1) \div s

AlignLba(s)      == MiB \div s
ArraySectors(s)  == SectorsFor(GptArrayBytes, s)
FloorSectors(s)  == FloorBytes \div s
LoaderSectors(s) == SectorsFor(LoaderBytes, s)

\* A MiB holds the primary table, in any sector size from 512 to 4096.
ASSUME AlignAssumption == \A s \in SectorSizes : AlignLba(s) >= 2 + ArraySectors(s)

\* Mutant of GptTail: the backup header is forgotten.
GptTailOfArray(s) == ArraySectors(s)

\* The backup table: its array and its header.
GptTail(s) == ArraySectors(s) + 1

\* What the data partition cannot have.
Reserved(s, ntfs) == AlignLba(s) + GptTail(s) + IF ntfs THEN LoaderSectors(s) ELSE 0

TooSmall(total, s, ntfs) == total <= Reserved(s, ntfs) + FloorSectors(s)

\* Sectors of the partitions write_gpt() is asked for.
Parts(total, s, ntfs) ==
    IF ntfs THEN <<total - Reserved(s, ntfs), LoaderSectors(s)>>
            ELSE <<total - Reserved(s, ntfs)>>
=============================================================================
