------------------------------ MODULE FakeCheck ------------------------------
(***************************************************************************)
(* The counterfeit-drive check of libbuf/src/fakecheck.rs: markers spread  *)
(* over the range a flash will use are written in ascending order, read    *)
(* back in descending order, and the lowest one that came back wrong tells *)
(* how much the drive really stores.                                       *)
(*                                                                         *)
(* The fill of a marker block depends on its address, so a byte of one is  *)
(* the address it was written for.  The drive claims more than it has and  *)
(* loses what lies beyond (limbo) or lays it over its beginning            *)
(* (wraparound), the two fakes of the tests.                               *)
(***************************************************************************)
EXTENDS Alignment

CONSTANTS
    BlockSize,   \* bytes of a marker: the larger of the sector size and 4096
    MARKERS,     \* gaps between the markers
    MaxSize      \* bound: the most bytes a drive claims

ASSUME BlockSizeAssumption == BlockSize \in Nat \ {0}
ASSUME MarkersAssumption   == MARKERS \in Nat \ {0}
ASSUME MaxSizeAssumption   == MaxSize \in Nat /\ MaxSize >= BlockSize

VARIABLES
    pc,         \* where check() and probe() are
    drive,      \* the drive: what it claims and what it is
    start, end, \* the range the flash will use
    store,      \* what the drive holds, by the addresses it really has
    todo,       \* markers the current loop has still to visit
    wrote,      \* markers written without an error
    ok,         \* markers that came back right
    verdict,    \* what probe() found
    lastGood, firstBad  \* the two fields of Bad

vars == <<pc, drive, start, end, store, todo, wrote, ok, verdict, lastGood, firstBad>>

Old  == -1
None == -1
Addr == 0 .. MaxSize - 1

Drive == [claimed : BlockSize .. MaxSize,
          real    : BlockSize .. MaxSize,  \* what it stores
          wrap    : BOOLEAN,               \* laps over its beginning, or forgets
          device  : BOOLEAN,               \* or an image file
          flaky   : BOOLEAN]               \* calls may fail

-----------------------------------------------------------------------------
(* The positions of the markers. *)

First == RoundUp(start, BlockSize)

\* Mutant of Last: the block the range ends in counts.
LastInclusive == RoundDown(end, BlockSize)

\* The last whole block of the range; end is at least two blocks.
Last == RoundDown(end, BlockSize) - BlockSize

At(k) == RoundDown(First + ((Last - First) * k) \div MARKERS, BlockSize)

\* They ascend with k: dropping neighbours that are equal leaves a set.
Positions == {At(k) : k \in 0 .. MARKERS}

-----------------------------------------------------------------------------
(* The drive. *)

Block(p) == p .. p + BlockSize - 1

\* Where the drive keeps address a, if it does.
Kept(a)  == a < drive.real \/ drive.wrap
Place(a) == a % drive.real

\* The drive once the first n bytes of marker p were sent to it.
Laid(p, n) ==
    [x \in Addr |-> IF \E a \in p .. p + n - 1 : Kept(a) /\ Place(a) = x
                    THEN CHOOSE a \in p .. p + n - 1 : Kept(a) /\ Place(a) = x
                    ELSE store[x]]

\* Mutant of Intact: all markers are filled alike.
IntactAlike(p) ==
    \A a \in Block(p) : Kept(a) /\ store[Place(a)] % BlockSize = a % BlockSize

\* Marker p reads back as it was written; what the drive forgets reads as zeros.
Intact(p) == \A a \in Block(p) : Kept(a) /\ store[Place(a)] = a

-----------------------------------------------------------------------------
Init ==
    /\ pc = "check"
    /\ drive \in Drive
    /\ drive.real <= drive.claimed
    /\ start \in 0 .. MaxSize /\ end \in 0 .. MaxSize
    /\ start <= end /\ end <= drive.claimed
    /\ store = [x \in Addr |-> Old]
    /\ todo = {} /\ wrote = {} /\ ok = {}
    /\ verdict = "none" /\ lastGood = None /\ firstBad = None

\* Mutant of TooShort: one block is thought to be enough.
OneBlockIsEnough == end - start < BlockSize

TooShort == end - start < 2 * BlockSize

\* check(): image files and short ranges are not worth a check.
Check ==
    /\ pc = "check"
    /\ \/ /\ ~drive.device \/ TooShort
          /\ pc' = "done" /\ verdict' = "skipped"
          /\ UNCHANGED todo
       \/ /\ drive.device /\ ~TooShort
          /\ pc' = "write" /\ todo' = Positions
          /\ UNCHANGED verdict
       \/ /\ drive.device /\ ~TooShort /\ drive.flaky
          /\ pc' = "done" /\ verdict' = "error"   \* the drive cannot be opened
          /\ UNCHANGED todo
    /\ UNCHANGED <<drive, start, end, store, wrote, ok, lastGood, firstBad>>

\* A write that fails is noted, and may have sent some of the marker.
WriteMarker ==
    /\ pc = "write"
    /\ \E p \in todo :
         /\ \A q \in todo : p <= q
         /\ todo' = todo \ {p}
         /\ \/ store' = Laid(p, BlockSize) /\ wrote' = wrote \cup {p}
            \/ /\ drive.flaky
               /\ \E n \in 0 .. BlockSize - 1 : store' = Laid(p, n)
               /\ UNCHANGED wrote
    /\ UNCHANGED <<pc, drive, start, end, ok, verdict, lastGood, firstBad>>

\* dev.flush(), whose failure is only logged.
Flush ==
    /\ pc = "write" /\ todo = {}
    /\ pc' = "read" /\ todo' = Positions
    /\ UNCHANGED <<drive, start, end, store, wrote, ok, verdict, lastGood, firstBad>>

\* Mutant of ReadMarker: only the start of a block is compared.
ReadStart ==
    /\ pc = "read"
    /\ \E p \in todo :
         /\ \A q \in todo : p >= q
         /\ todo' = todo \ {p}
         /\ \/ ok' = IF p \in wrote /\ Kept(p) /\ store[Place(p)] = p THEN ok \cup {p} ELSE ok
            \/ drive.flaky /\ UNCHANGED ok
    /\ UNCHANGED <<pc, drive, start, end, store, wrote, verdict, lastGood, firstBad>>

ReadMarker ==
    /\ pc = "read"
    /\ \E p \in todo :
         /\ \A q \in todo : p >= q
         /\ todo' = todo \ {p}
         /\ \/ ok' = IF p \in wrote /\ Intact(p) THEN ok \cup {p} ELSE ok
            \/ drive.flaky /\ UNCHANGED ok   \* the read fails
    /\ UNCHANGED <<pc, drive, start, end, store, wrote, verdict, lastGood, firstBad>>

Pass ==
    /\ pc = "read" /\ todo = {}
    /\ Positions \subseteq ok
    /\ pc' = "done" /\ verdict' = "pass"
    /\ UNCHANGED <<drive, start, end, store, todo, wrote, ok, lastGood, firstBad>>

\* Mutant of Accuse: the first bad marker that was read, not the lowest one.
AccuseFirstRead ==
    /\ pc = "read" /\ todo = {}
    /\ \E b \in Positions \ ok :
         /\ \A q \in Positions \ ok : b >= q
         /\ firstBad' = b
         /\ \/ /\ \A q \in Positions : b <= q
               /\ lastGood' = None
            \/ \E g \in Positions : /\ g < b
                                    /\ \A q \in Positions : q < b => q <= g
                                    /\ lastGood' = g
    /\ pc' = "done" /\ verdict' = "counterfeit"
    /\ UNCHANGED <<drive, start, end, store, todo, wrote, ok>>

\* Mutant of Accuse: the last good marker is taken to be the first one.
AccuseFromFirst ==
    /\ pc = "read" /\ todo = {}
    /\ \E b \in Positions \ ok :
         /\ \A q \in Positions \ ok : b <= q
         /\ firstBad' = b
         /\ lastGood' = IF b = First THEN None ELSE First
    /\ pc' = "done" /\ verdict' = "counterfeit"
    /\ UNCHANGED <<drive, start, end, store, todo, wrote, ok>>

\* The lowest marker that came back wrong, and the one before it.
Accuse ==
    /\ pc = "read" /\ todo = {}
    /\ \E b \in Positions \ ok :
         /\ \A q \in Positions \ ok : b <= q
         /\ firstBad' = b
         /\ \/ /\ \A q \in Positions : b <= q
               /\ lastGood' = None
            \/ \E g \in Positions : /\ g < b
                                    /\ \A q \in Positions : q < b => q <= g
                                    /\ lastGood' = g
    /\ pc' = "done" /\ verdict' = "counterfeit"
    /\ UNCHANGED <<drive, start, end, store, todo, wrote, ok>>

Next == Check \/ WriteMarker \/ Flush \/ ReadMarker \/ Pass \/ Accuse

Spec == Init /\ [][Next]_vars

-----------------------------------------------------------------------------
(* Correctness *)

TypeOK ==
    /\ pc \in {"check", "write", "read", "done"}
    /\ drive \in Drive
    /\ start \in 0 .. MaxSize /\ end \in 0 .. MaxSize
    /\ store \in [Addr -> {Old} \cup Addr]
    /\ todo \subseteq Addr /\ wrote \subseteq Addr /\ ok \subseteq Addr
    /\ verdict \in {"none", "skipped", "error", "pass", "counterfeit"}
    /\ lastGood \in {None} \cup Addr /\ firstBad \in {None} \cup Addr

\* dd mode overwrites the range it had checked and nothing else: every byte
\* the check left on the drive was sent to a whole block of that range.
MarkersInsideRange ==
    \A x \in Addr : store[x] # Old =>
        LET block == RoundDown(store[x], BlockSize)
        IN  start <= block /\ block + BlockSize <= end

\* A drive that stores the range is never refused, be it a fake whose lower
\* part alone is used: a flash onto a good drive is not stopped.
GoodRangePasses ==
    pc = "done" /\ ~drive.flaky /\ end <= drive.real
        => verdict \in {"skipped", "pass"}

\* The check passes only if the drive holds every marker, whatever failed and
\* whatever was laid over what: a marker written later may destroy an earlier
\* one, and reading must come after all the writing to notice.
PassMeansAllKept == verdict = "pass" => \A p \in Positions : Intact(p)

\* A limbo fake is refused when the range reaches past its real size, and its
\* real size is where the message says.
LimboRefused ==
    pc = "done" /\ ~drive.wrap /\ ~drive.flaky
      /\ verdict # "skipped" /\ drive.real < Last + BlockSize
    => /\ verdict = "counterfeit"
       /\ lastGood # None => lastGood + BlockSize <= drive.real
       /\ drive.real < firstBad + BlockSize

\* The estimate is as narrow as the markers are close: the two ends are no more
\* than one gap and one block apart.
EstimateWithinOneGap ==
    verdict = "counterfeit" /\ lastGood # None
        => MARKERS * (firstBad - lastGood - BlockSize) <= end - start

\* A wraparound fake passes if and only if no two markers share storage on it:
\* the check relies on the markers it happens to lay over one another.
WraparoundCaughtByCollision ==
    pc = "done" /\ drive.wrap /\ ~drive.flaky /\ verdict # "skipped" =>
        (verdict = "pass" <=>
            \A p, q \in Positions : p # q =>
                \A a \in Block(p), b \in Block(q) : Place(a) # Place(b))

\* What the message of a refused drive says: it stores at least up to the last
\* good marker and no more than up to the first bad one.
EstimateBracketsRealSize ==
    verdict = "counterfeit" /\ lastGood # None /\ ~drive.flaky =>
        lastGood < drive.real /\ drive.real <= firstBad + BlockSize
=============================================================================
