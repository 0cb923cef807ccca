----------------------------- MODULE SectorBytes -----------------------------
(***************************************************************************)
(* Sectors, bytes and positions: what the sector cache of                  *)
(* libbuf/src/copy/mod.rs and the flat device it stands for both speak of. *)
(*                                                                         *)
(* A byte position p is the pair [lba |-> p / SectorSize,                  *)
(* inner |-> p % SectorSize]: the two numbers read() and write() compute   *)
(* from it before anything else.                                           *)
(***************************************************************************)
EXTENDS Integers, FiniteSets

CONSTANTS
    Sectors,      \* number of sectors of the device
    SectorSize,   \* logical sector size in bytes
    Byte          \* values of a byte

ASSUME SectorsAssumption    == Sectors \in Nat \ {0}
ASSUME SectorSizeAssumption == SectorSize \in Nat \ {0}

LBA      == 0 .. Sectors - 1
Offset   == 0 .. SectorSize - 1
Sector   == [Offset -> Byte]

Position == [lba : LBA, inner : Offset]
StartPos == [lba |-> 0, inner |-> 0]
EndPos   == [lba |-> Sectors, inner |-> 0]

\* A caller hands write() a buffer of some length, read() a buffer to fill.
\* No call crosses a sector, so lengths above SectorSize act like SectorSize.
Lengths    == 1 .. SectorSize
Data(len)  == [0 .. len - 1 -> Byte]

\* How many of len bytes a call at p moves: up to the end of its sector.
Moved(p, len) == IF len <= SectorSize - p.inner THEN len ELSE SectorSize - p.inner

\* Mutant of Advance: a position that runs off its sector is not carried over.
AdvanceWithoutCarry(p, n) == [lba |-> p.lba, inner |-> p.inner + n]

\* The position n bytes after p, for n bytes that stay within p's sector.
Advance(p, n) ==
    IF p.inner + n = SectorSize THEN [lba |-> p.lba + 1, inner |-> 0]
                                ELSE [lba |-> p.lba, inner |-> p.inner + n]

\* Sector content s with the first n bytes of data laid over it from inner on.
Patch(s, inner, n, data) ==
    [i \in Offset |-> IF i \in inner .. inner + n - 1 THEN data[i - inner] ELSE s[i]]

\* The n bytes of sector content s from inner on.
Slice(s, inner, n) == [i \in 0 .. n - 1 |-> s[inner + i]]

Replies ==
    [call : {"none", "seek", "flush", "drop", "lost", "error"}]
      \cup [call : {"write"}, n : Lengths]
      \cup UNION {[call : {"read"}, got : Data(n)] : n \in Lengths}
=============================================================================
