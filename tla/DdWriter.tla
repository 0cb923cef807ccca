------------------------------ MODULE DdWriter ------------------------------
(***************************************************************************)
(* dd mode: validate() of libbuf/src/validate.rs, then write() of          *)
(* libbuf/src/writer.rs.  One action per step the two functions can be     *)
(* observed between, because the source is a file other processes may      *)
(* still be changing (an image that is still being downloaded, say) and    *)
(* the device may refuse any call.                                         *)
(*                                                                         *)
(* Byte i of the source is written i on the target; bytes the flash did    *)
(* not write yet are Old, markers of the fake check Mark, padding Pad.     *)
(***************************************************************************)
EXTENDS Alignment

CONSTANTS
    SectorSize,   \* what get_sector_size() says: on unix the logical sector of
                  \* the target, on Windows the physical one
    LogicalSizes, \* logical sectors a target may have
    MaxBlock,     \* bytes above which a block size is refused
    MaxLen        \* bound: longest source and target

ASSUME SectorSizeAssumption  == SectorSize \in Nat \ {0}
ASSUME LogicalSizeAssumption == \A l \in LogicalSizes : l \in Nat \ {0} /\ Aligned(SectorSize, l)
ASSUME BoundsAssumption      == MaxBlock \in Nat \ {0} /\ MaxLen \in Nat \ {0}

VARIABLES
    pc,         \* where validate() or write() is
    job,        \* what was asked: the parameters and the kind of target
    srcLen,     \* current length of the source
    srcPos,     \* how far the source has been read
    expected,   \* source_size, measured by validate()
    got,        \* bytes of the block just read
    at,         \* file position of the target
    written,    \* bytes_written
    target,     \* what the target holds
    volatile    \* addresses written since the last sync

vars == <<pc, job, srcLen, srcPos, expected, got, at, written, target, volatile>>

Old  == -1
Mark == -2
Pad  == -3

Job == [block   : 0 .. MaxBlock + 1,     \* --block-size
        offset  : 0 .. MaxLen,           \* --offset
        size    : 0 .. MaxLen,           \* bytes the target has
        device  : BOOLEAN,               \* a block device, or a regular file
        logical : LogicalSizes,          \* the sectors a device is made of
        known   : BOOLEAN,               \* whether device_size() can tell size
        check   : BOOLEAN,               \* --fake-check
        frozen  : BOOLEAN]               \* nobody else changes the source

Steps == {"validate", "prepare", "fakecheck", "seek", "read", "write", "sync",
          "done", "failed"}

\* No flash reaches further: it starts within MaxLen, and each of the at most
\* MaxLen bytes it reads costs it one sector at worst.
Addr == 0 .. MaxLen * (SectorSize + 1)

\* Mutant of AlignedBlock: blocks of the size that was asked for.
BlockAsAsked == job.block

AlignedBlock == RoundUp(job.block, SectorSize)

Goto(step) == pc' = step
Fail       == Goto("failed") /\ UNCHANGED <<job, srcLen, srcPos, expected, got, at,
                                            written, target, volatile>>

Init ==
    /\ pc = "validate"
    /\ job \in Job
    /\ IF job.device THEN Aligned(job.size, job.logical) ELSE job.logical = SectorSize
    /\ srcLen \in 0 .. MaxLen
    /\ srcPos = 0 /\ expected = 0 /\ got = 0 /\ at = 0 /\ written = 0
    /\ target = [a \in Addr |-> Old]
    /\ volatile = {}

\* Mutant of Available: the offset is forgotten.
AvailableFromStart == job.size

\* Space after the offset, as open_target_and_check() sees it.
Available == IF job.size >= job.offset THEN job.size - job.offset ELSE 0

Valid ==
    /\ job.block # 0
    /\ job.block <= MaxBlock
    /\ Aligned(job.offset, SectorSize)
    /\ srcLen # 0
    /\ job.known /\ job.size > 0 => srcLen <= Available

Validate ==
    /\ pc = "validate"
    /\ \/ /\ Valid
          /\ expected' = srcLen
          /\ Goto("prepare")
          /\ UNCHANGED <<job, srcLen, srcPos, got, at, written, target, volatile>>
       \/ Fail   \* a check fails, or a file cannot be opened

\* Open the source and unmount the target; nothing has been written yet.
Prepare ==
    /\ pc = "prepare"
    /\ \/ /\ Goto(IF job.check THEN "fakecheck" ELSE "seek")
          /\ UNCHANGED <<job, srcLen, srcPos, expected, got, at, written, target, volatile>>
       \/ Fail

\* Mutant of TestBlocks: a sector the range only shares is tested as well.
TestBlocksRoundedUp(from, to) ==
    {a \in Addr : from <= a /\ a < RoundUp(to, SectorSize) + SectorSize}

\* The whole sectors of [from, to), where the fake check may leave markers.
TestBlocks(from, to) ==
    {a \in Addr : LET first == RoundDown(a, SectorSize)
                  IN from <= first /\ first + SectorSize <= to}

\* fakecheck::check() on the range about to be written.  It skips targets that
\* are not devices, and refuses fakes with its markers left behind.
FakeCheck ==
    /\ pc = "fakecheck"
    /\ target' \in
         IF job.device
         THEN {target, [a \in Addr |->
                 IF a \in TestBlocks(job.offset, job.offset + expected)
                 THEN Mark ELSE target[a]]}
         ELSE {target}
    /\ pc' \in IF job.device THEN {"seek", "failed"} ELSE {"seek"}
    /\ UNCHANGED <<job, srcLen, srcPos, expected, got, at, written, volatile>>

Seek ==
    /\ pc = "seek"
    /\ \/ /\ at' = job.offset
          /\ Goto("read")
          /\ UNCHANGED <<job, srcLen, srcPos, expected, got, written, target, volatile>>
       \/ Fail

\* read_full(): a block, or what is left of the source.
BytesRead ==
    LET left == IF srcLen > srcPos THEN srcLen - srcPos ELSE 0
    IN  IF left < AlignedBlock THEN left ELSE AlignedBlock

\* Mutant of Read: the end of the source goes unnoticed.
ReadOn ==
    /\ pc = "read"
    /\ got' = BytesRead
    /\ srcPos' = srcPos + BytesRead
    /\ Goto("write")
    /\ UNCHANGED <<job, srcLen, expected, at, written, target, volatile>>

Read ==
    /\ pc = "read"
    /\ \/ /\ got' = BytesRead
          /\ srcPos' = srcPos + BytesRead
          /\ Goto(IF BytesRead = 0 THEN "sync" ELSE "write")
          /\ UNCHANGED <<job, srcLen, expected, at, written, target, volatile>>
       \/ Fail

\* Mutant of Laid: the block is numbered from where the source is now.
LaidFromNext(n) ==
    [a \in Addr |-> IF a \in at .. at + n - 1
                    THEN IF a - at < got THEN srcPos + (a - at) ELSE Pad
                    ELSE target[a]]

\* Mutant of Laid: every block goes to the offset.
LaidAtOffset(n) ==
    [a \in Addr |-> IF a \in job.offset .. job.offset + n - 1
                    THEN IF a - job.offset < got THEN srcPos - got + (a - job.offset) ELSE Pad
                    ELSE target[a]]

\* The target with the first n bytes of the padded block laid at the position.
Laid(n) ==
    [a \in Addr |-> IF a \in at .. at + n - 1
                    THEN IF a - at < got THEN srcPos - got + (a - at) ELSE Pad
                    ELSE target[a]]

\* write_all() of the padded block; a device ends at its last sector, and a
\* refused write may have moved some leading sectors.
Write ==
    /\ pc = "write"
    /\ \E n \in 0 .. RoundUp(got, SectorSize) :
          /\ Aligned(n, job.logical)
          /\ job.device /\ n > 0 => at + n <= job.size
          /\ target' = Laid(n)
          /\ volatile' = volatile \cup at .. at + n - 1
          /\ at' = at + n
          /\ \/ n = RoundUp(got, SectorSize) /\ written' = written + got /\ Goto("read")
             \/ n < RoundUp(got, SectorSize) /\ written' = written /\ Goto("failed")
    /\ UNCHANGED <<job, srcLen, srcPos, expected, got>>

\* Mutant of Sync: a sync the device refuses goes unnoticed.
SyncUnchecked ==
    /\ pc = "sync"
    /\ volatile' \in {{}, volatile}
    /\ Goto("done")
    /\ UNCHANGED <<job, srcLen, srcPos, expected, got, at, written, target>>

\* A length other than the expected one is only a warning.
Sync ==
    /\ pc = "sync"
    /\ \/ /\ volatile' = {}
          /\ Goto("done")
          /\ UNCHANGED <<job, srcLen, srcPos, expected, got, at, written, target>>
       \/ Fail

Program == Validate \/ Prepare \/ FakeCheck \/ Seek \/ Read \/ Write \/ Sync

\* Somebody else truncates or extends the source.
Resize ==
    /\ ~job.frozen
    /\ pc \notin {"done", "failed"}
    /\ srcLen' \in 0 .. MaxLen
    /\ UNCHANGED <<pc, job, srcPos, expected, got, at, written, target, volatile>>

Next == Program \/ Resize

Spec == Init /\ [][Next]_vars

\* Every call the program makes returns, with success or an error.
FairSpec == Spec /\ WF_vars(Program)

-----------------------------------------------------------------------------
(* Correctness *)

TypeOK ==
    /\ pc \in Steps
    /\ job \in Job
    /\ srcLen \in 0 .. MaxLen
    /\ srcPos \in 0 .. MaxLen
    /\ expected \in 0 .. MaxLen
    /\ got \in 0 .. MaxLen
    /\ at \in Addr
    /\ written \in 0 .. MaxLen
    /\ target \in [Addr -> {Old, Mark, Pad} \cup 0 .. MaxLen - 1]
    /\ volatile \in SUBSET Addr

\* The addresses one sector-padded image occupies.
Range(len) == job.offset .. job.offset + RoundUp(len, SectorSize) - 1

\* However writing goes, and whatever the device refuses, bytes before the
\* offset and beyond the padded image keep what they held, and the padding
\* that completes the last sector covers no byte of the image.
OutsideUntouched ==
    job.frozen =>
        /\ \A a \in Addr : target[a] # Old => a \in Range(expected)
        /\ \A a \in Addr : target[a] = Pad => a >= job.offset + expected

\* Every byte of an unchanging source that is on the target is where a boot
\* loader will look for it, offset + i.
FrozenImageInPlace == job.frozen => \A a \in Addr : target[a] >= 0 => a = job.offset + target[a]

\* Success means that the whole image is on the target and beyond the drive's
\* write cache, with no marker of the fake check left in it.
SuccessIsDurableImage ==
    pc = "done" =>
        /\ volatile = {}
        /\ job.frozen => /\ written = expected
                         /\ \A i \in 0 .. expected - 1 : target[job.offset + i] = i

\* The size check of validate() leaves room for the padding as well: a flash it
\* admitted never runs into the end of a device that is whole sectors of the
\* size it is padded to.
AdmittedFits ==
    /\ pc = "write"
    /\ job.logical = SectorSize
    /\ job.frozen /\ job.device /\ job.known /\ job.size > 0
    => at + RoundUp(got, SectorSize) <= job.size

\* No byte of the image is overwritten once it is on the target, also when
\* the source changes under the flash.
NothingWrittenTwice ==
    [][\A a \in Addr : target[a] >= 0 => target'[a] = target[a]]_vars

\* write() returns, as long as every system call it makes does.
Terminates == <>(pc \in {"done", "failed"})
=============================================================================
