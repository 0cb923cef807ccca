--------------------------- MODULE DdWriterProofs ---------------------------
(***************************************************************************)
(* dd mode writes the image where it belongs and nothing else, for every   *)
(* sector size, block size, offset and length.                             *)
(*                                                                         *)
(* The invariant says what the loop of write() keeps: all of the source up *)
(* to base is on the target, the file position is base rounded up to a     *)
(* sector, and unless the source is exhausted base is a whole number of    *)
(* sectors, which is why only the final block is ever padded.              *)
(***************************************************************************)
EXTENDS DdWriter, TLAPS

-----------------------------------------------------------------------------
(* What rounding and division guarantee, for every divisor. *)

\* The quotient and the remainder, and that nothing else is one.
LEMMA DivMod ==
    ASSUME NEW d \in Nat \ {0}, NEW n \in Int
    PROVE  /\ n \div d \in Int
           /\ n % d \in 0 .. d - 1
           /\ n = d * (n \div d) + (n % d)
OBVIOUS

LEMMA MultipleAtLeast ==
    ASSUME NEW d \in Nat \ {0}, NEW k \in Int, k >= 1
    PROVE  d * k >= d
OBVIOUS

LEMMA DivModUnique ==
    ASSUME NEW d \in Nat \ {0}, NEW n \in Int, NEW q \in Int, NEW r \in 0 .. d - 1,
           n = d * q + r
    PROVE  n \div d = q /\ n % d = r
<1>. DEFINE k == n \div d
            m == n % d
<1>1. k \in Int /\ m \in 0 .. d - 1 /\ n = d * k + m
  BY DivMod
<1>. HIDE DEF k, m
<1>2. d * (q - k) = m - r
  BY <1>1
<1>3. CASE q - k >= 1
  BY <1>1, <1>2, <1>3, MultipleAtLeast
<1>4. CASE k - q >= 1
  BY <1>1, <1>2, <1>4, MultipleAtLeast
<1>5. q = k
  BY <1>1, <1>3, <1>4
<1>. QED
  BY <1>1, <1>5 DEF k, m

\* Aligned numbers are the multiples.
LEMMA AlignedIsMultiple ==
    ASSUME NEW d \in Nat \ {0}, NEW n \in Int
    PROVE  Aligned(n, d) <=> \E k \in Int : n = d * k
<1>1. ASSUME Aligned(n, d) PROVE \E k \in Int : n = d * k
  <2>. WITNESS n \div d \in Int
  <2>. QED
    BY <1>1, DivMod DEF Aligned
<1>2. ASSUME NEW k \in Int, n = d * k PROVE Aligned(n, d)
  <2>1. n = d * k + 0 /\ 0 \in 0 .. d - 1
    BY <1>2
  <2>. QED
    BY <2>1, DivModUnique DEF Aligned
<1>. QED
  BY <1>1, <1>2

LEMMA AlignedSum ==
    ASSUME NEW d \in Nat \ {0}, NEW m \in Int, NEW n \in Int,
           Aligned(m, d), Aligned(n, d)
    PROVE  Aligned(m + n, d) /\ Aligned(m - n, d)
<1>1. PICK j \in Int : m = d * j
  BY AlignedIsMultiple
<1>2. PICK k \in Int : n = d * k
  BY AlignedIsMultiple
<1>3. \E q \in Int : m + n = d * q
  <2>. WITNESS j + k \in Int
  <2>. QED
    BY <1>1, <1>2
<1>4. \E q \in Int : m - n = d * q
  <2>. WITNESS j - k \in Int
  <2>. QED
    BY <1>1, <1>2
<1>5. m + n \in Int /\ m - n \in Int
  OBVIOUS
<1>. HIDE <1>1, <1>2
<1>. QED
  BY <1>3, <1>4, <1>5, AlignedIsMultiple

\* Rounding down gives the last aligned number, rounding up the first.
LEMMA RoundDownFacts ==
    ASSUME NEW d \in Nat \ {0}, NEW n \in Int
    PROVE  /\ RoundDown(n, d) \in Int
           /\ RoundDown(n, d) <= n
           /\ n < RoundDown(n, d) + d
           /\ Aligned(RoundDown(n, d), d)
<1>1. /\ n \div d \in Int
      /\ n % d \in 0 .. d - 1
      /\ n = d * (n \div d) + (n % d)
  BY DivMod
<1>2. \E k \in Int : RoundDown(n, d) = d * k
  <2>. WITNESS n \div d \in Int
  <2>. QED
    BY <1>1 DEF RoundDown
<1>3. RoundDown(n, d) = n - (n % d)
  BY <1>1 DEF RoundDown
<1>4. RoundDown(n, d) \in Int
  BY <1>1, <1>3
<1>5. Aligned(RoundDown(n, d), d)
  BY <1>2, <1>4, AlignedIsMultiple
<1>. QED
  BY <1>1, <1>3, <1>4, <1>5

LEMMA RoundUpFacts ==
    ASSUME NEW d \in Nat \ {0}, NEW n \in Int
    PROVE  /\ RoundUp(n, d) \in Int
           /\ n <= RoundUp(n, d)
           /\ RoundUp(n, d) < n + d
           /\ Aligned(RoundUp(n, d), d)
BY RoundDownFacts DEF RoundUp

\* Different aligned numbers are at least an alignment apart.
LEMMA AlignedApart ==
    ASSUME NEW d \in Nat \ {0}, NEW m \in Int, NEW n \in Int,
           Aligned(m, d), Aligned(n, d), m < n
    PROVE  m + d <= n
<1>1. PICK j \in Int : m = d * j
  BY AlignedIsMultiple
<1>2. PICK k \in Int : n = d * k
  BY AlignedIsMultiple
<1>3. d * (k - j) = n - m
  BY <1>1, <1>2
<1>4. k - j >= 1
  <2>1. CASE k - j <= 0
    <3>1. d * (j - k) >= 0
      BY <2>1
    <3>2. d * (j - k) = m - n
      BY <1>1, <1>2
    <3>. QED
      BY <3>1, <3>2
  <2>. QED
    BY <2>1
<1>5. d * (k - j) >= d
  BY <1>4, MultipleAtLeast
<1>. QED
  BY <1>3, <1>5

\* Rounding up stays below every aligned bound.
LEMMA RoundUpLeast ==
    ASSUME NEW d \in Nat \ {0}, NEW n \in Int, NEW b \in Int, Aligned(b, d), n <= b
    PROVE  RoundUp(n, d) <= b
<1>1. /\ RoundUp(n, d) \in Int
      /\ RoundUp(n, d) < n + d
      /\ Aligned(RoundUp(n, d), d)
  BY RoundUpFacts
<1>2. b < RoundUp(n, d) => b + d <= RoundUp(n, d)
  BY <1>1, AlignedApart
<1>. QED
  BY <1>1, <1>2

LEMMA RoundUpAligned ==
    ASSUME NEW d \in Nat \ {0}, NEW n \in Int, Aligned(n, d)
    PROVE  RoundUp(n, d) = n
<1>1. RoundUp(n, d) \in Int /\ n <= RoundUp(n, d)
  BY RoundUpFacts
<1>2. RoundUp(n, d) <= n
  BY RoundUpLeast
<1>. QED
  BY <1>1, <1>2

\* An aligned part can be taken out of a rounding.
LEMMA RoundUpSum ==
    ASSUME NEW d \in Nat \ {0}, NEW m \in Int, NEW n \in Int, Aligned(m, d)
    PROVE  RoundUp(m + n, d) = m + RoundUp(n, d)
<1>. DEFINE u == RoundUp(n, d)
            v == RoundUp(m + n, d)
<1>1. u \in Int /\ n <= u /\ Aligned(u, d)
  BY RoundUpFacts
<1>2. m + n \in Int
  OBVIOUS
<1>3. v \in Int /\ m + n <= v /\ Aligned(v, d)
  BY <1>2, RoundUpFacts
<1>. HIDE DEF u
<1>4. m + u \in Int /\ m + n <= m + u /\ Aligned(m + u, d)
  BY <1>1, AlignedSum
<1>5. v <= m + u
  BY <1>2, <1>4, RoundUpLeast
<1>. HIDE DEF v
<1>6. v - m \in Int /\ n <= v - m /\ Aligned(v - m, d)
  BY <1>3, AlignedSum
<1>7. u <= v - m
  BY <1>6, RoundUpLeast DEF u
<1>8. v = m + u
  BY <1>1, <1>3, <1>5, <1>7
<1>. QED
  BY <1>8 DEF u, v

\* Steps between a successful validation and the return.
Admitted == pc \notin {"validate", "failed"}
Writing  == pc \in {"read", "write", "sync", "done"}

\* What has been written: everything read, but for the block in hand.
Base == IF pc = "write" THEN srcPos - got ELSE srcPos

\* What validate() established, and the bounds that keep positions in Addr.
Params ==
    /\ Admitted => /\ job.block # 0
                   /\ Aligned(job.offset, SectorSize)
    /\ ~Writing /\ pc # "failed" => srcPos = 0 /\ written = 0
    /\ pc \in {"validate", "prepare", "fakecheck", "seek", "done"} => volatile = {}
    /\ pc = "validate" => expected = 0
    /\ pc = "write" => got >= 1 /\ got <= srcPos
    /\ Writing => written = Base /\ at <= job.offset + SectorSize * Base
    /\ job.device => Aligned(job.size, job.logical)

\* What the target holds, whatever happened so far.
TargetInv ==
    job.frozen =>
        /\ \A a \in Addr : target[a] # Old => a \in Range(expected)
        /\ \A a \in Addr : target[a] = Pad => a >= job.offset + expected
        /\ \A a \in Addr : target[a] >= 0 => a = job.offset + target[a]

\* What the loop of write() keeps while nobody changes the source.
LoopInv ==
    job.frozen =>
        /\ Admitted => expected = srcLen
        /\ Admitted /\ job.device /\ job.known /\ job.size > 0
              => job.offset + expected <= job.size
        /\ Writing =>
              /\ srcPos <= srcLen
              /\ srcPos < srcLen => Aligned(srcPos, SectorSize)
              /\ pc = "write" => Aligned(Base, SectorSize)
              /\ at = job.offset + RoundUp(Base, SectorSize)
              /\ \A i \in 0 .. Base - 1 : target[job.offset + i] = i
        /\ pc \in {"sync", "done"} => srcPos = srcLen

IInv == TypeOK /\ Params /\ TargetInv /\ LoopInv

-----------------------------------------------------------------------------

LEMMA AddrFacts ==
    /\ SectorSize * MaxLen \in Nat
    /\ \A a \in Int : a \in Addr <=> 0 <= a /\ a <= MaxLen + SectorSize * MaxLen
<1>1. MaxLen * (SectorSize + 1) = MaxLen + SectorSize * MaxLen
  BY SectorSizeAssumption, BoundsAssumption
<1>2. SectorSize * MaxLen \in Nat
  BY SectorSizeAssumption, BoundsAssumption
<1>. QED
  BY <1>1, <1>2 DEF Addr

\* A larger count costs at most a sector per byte.
LEMMA SectorPerByte ==
    ASSUME NEW m \in Nat, NEW n \in Nat
    PROVE  /\ SectorSize * m \in Nat
           /\ SectorSize * (m + n) = SectorSize * m + SectorSize * n
           /\ n <= SectorSize * n
           /\ RoundUp(n, SectorSize) <= SectorSize * n
<1>1. SectorSize * m \in Nat /\ SectorSize * n \in Nat
  BY SectorSizeAssumption
<1>2. SectorSize * (m + n) = SectorSize * m + SectorSize * n
  BY SectorSizeAssumption
<1>3. n <= SectorSize * n
  <2>1. (SectorSize - 1) * n >= 0
    BY SectorSizeAssumption
  <2>. QED
    BY <2>1, SectorSizeAssumption
<1>4. Aligned(SectorSize * n, SectorSize)
  <2>1. \E k \in Int : SectorSize * n = SectorSize * k
    OBVIOUS
  <2>. QED
    BY <1>1, <2>1, SectorSizeAssumption, AlignedIsMultiple
<1>5. RoundUp(n, SectorSize) <= SectorSize * n
  BY <1>1, <1>3, <1>4, SectorSizeAssumption, RoundUpLeast
<1>. QED
  BY <1>1, <1>2, <1>3, <1>5

\* A block is at least a byte, a whole number of sectors, and read in full
\* unless the source ends first.
LEMMA BytesReadFacts ==
    ASSUME TypeOK, job.block # 0
    PROVE  /\ BytesRead \in Nat
           /\ srcPos <= srcLen => srcPos + BytesRead <= srcLen
           /\ srcPos + BytesRead <= MaxLen
           /\ BytesRead = 0 => srcLen <= srcPos
           /\ srcPos + BytesRead < srcLen => Aligned(BytesRead, SectorSize)
<1>1. job.block \in Int /\ job.block >= 1
  BY BoundsAssumption DEF TypeOK, Job
<1>2. /\ AlignedBlock \in Nat
      /\ AlignedBlock >= 1
      /\ Aligned(AlignedBlock, SectorSize)
  <2>1. /\ RoundUp(job.block, SectorSize) \in Int
        /\ job.block <= RoundUp(job.block, SectorSize)
        /\ Aligned(RoundUp(job.block, SectorSize), SectorSize)
    BY <1>1, SectorSizeAssumption, RoundUpFacts
  <2>. QED
    BY <1>1, <2>1 DEF AlignedBlock
<1>3. srcLen \in Nat /\ srcPos \in Nat /\ srcLen <= MaxLen /\ srcPos <= MaxLen
  BY BoundsAssumption DEF TypeOK
<1>. QED
  BY <1>2, <1>3, BoundsAssumption DEF BytesRead

LEMMA FailStep == ASSUME IInv, Fail PROVE IInv'
BY DEF IInv, Fail, Goto, TypeOK, Steps, Params, Admitted, Writing, TargetInv, LoopInv, Range

LEMMA InitStep == ASSUME Init PROVE IInv
<1>1. /\ job.offset \in Nat
      /\ 0 \in Addr
      /\ 0 \in 0 .. MaxLen
  BY AddrFacts, BoundsAssumption DEF Init, Job
<1>2. TypeOK
  BY <1>1 DEF Init, TypeOK, Steps, Job, Old
<1>3. Params /\ LoopInv
  BY DEF Init, Params, LoopInv, Admitted, Writing
<1>4. TargetInv
  BY DEF Init, TargetInv, Old, Pad
<1>. QED
  BY <1>2, <1>3, <1>4 DEF IInv

LEMMA ValidateStep == ASSUME IInv, Validate PROVE IInv'
<1>1. CASE Fail
  BY <1>1, FailStep
<1>2. CASE /\ Valid
           /\ expected' = srcLen
           /\ pc' = "prepare"
           /\ UNCHANGED <<job, srcLen, srcPos, got, at, written, target, volatile>>
  <2>1. pc = "validate" /\ expected = 0
    BY DEF Validate, IInv, Params
  <2>2. TypeOK'
    BY <1>2 DEF IInv, TypeOK, Steps
  <2>3. Params'
    BY <1>2, <2>1 DEF IInv, Params, Admitted, Writing, Valid
  <2>4. ASSUME job.frozen PROVE \A a \in Addr : target[a] = Old
    <3>1. \A a \in Int : a \notin Range(0)
      <4>1. RoundUp(0, SectorSize) = 0
        <5>1. \E k \in Int : 0 = SectorSize * k
          <6>. WITNESS 0 \in Int
          <6>. QED
            BY SectorSizeAssumption
        <5>. QED
          BY <5>1, SectorSizeAssumption, AlignedIsMultiple, RoundUpAligned
      <4>. QED
        BY <4>1, BoundsAssumption DEF Range, IInv, TypeOK, Job
    <3>. QED
      BY <2>1, <2>4, <3>1 DEF IInv, TargetInv, Addr
  <2>5. TargetInv'
    BY <1>2, <2>4 DEF TargetInv, Old, Pad
  <2>6. LoopInv'
    <3>1. job.size > 0 => job.offset + srcLen <= job.size \/ ~job.known
      BY <1>2, BoundsAssumption DEF Valid, Available, IInv, TypeOK, Job
    <3>. QED
      BY <1>2, <3>1 DEF LoopInv, Admitted, Writing
  <2>. QED
    BY <2>2, <2>3, <2>5, <2>6 DEF IInv
<1>. QED
  BY <1>1, <1>2 DEF Validate, Goto

LEMMA PrepareStep == ASSUME IInv, Prepare PROVE IInv'
<1>1. CASE Fail
  BY <1>1, FailStep
<1>2. CASE /\ pc = "prepare"
           /\ pc' \in {"fakecheck", "seek"}
           /\ UNCHANGED <<job, srcLen, srcPos, expected, got, at, written, target, volatile>>
  BY <1>2 DEF IInv, TypeOK, Steps, Params, Admitted, Writing, TargetInv, LoopInv, Range
<1>. QED
  BY <1>1, <1>2 DEF Prepare, Goto

LEMMA SeekStep == ASSUME IInv, Seek PROVE IInv'
<1>1. CASE Fail
  BY <1>1, FailStep
<1>2. CASE /\ pc = "seek"
           /\ at' = job.offset
           /\ pc' = "read"
           /\ UNCHANGED <<job, srcLen, srcPos, expected, got, written, target, volatile>>
  <2>1. /\ job.offset \in Nat /\ job.offset <= MaxLen
        /\ srcPos = 0 /\ written = 0
        /\ job.block # 0 /\ Aligned(job.offset, SectorSize)
    BY <1>2, BoundsAssumption DEF IInv, TypeOK, Job, Params, Admitted, Writing
  <2>2. RoundUp(0, SectorSize) = 0 /\ Aligned(0, SectorSize) /\ SectorSize * 0 = 0
    <3>1. \E k \in Int : 0 = SectorSize * k
      <4>. WITNESS 0 \in Int
      <4>. QED
        BY SectorSizeAssumption
    <3>. QED
      BY <3>1, SectorSizeAssumption, AlignedIsMultiple, RoundUpAligned
  <2>3. TypeOK'
    <3>1. at' \in Addr
      BY <1>2, <2>1, AddrFacts, BoundsAssumption
    <3>. QED
      BY <1>2, <3>1 DEF IInv, TypeOK, Steps
  <2>4. Params'
    BY <1>2, <2>1, <2>2 DEF IInv, Params, Admitted, Writing, Base
  <2>5. TargetInv'
    BY <1>2 DEF IInv, TargetInv, Range
  <2>6. LoopInv'
    BY <1>2, <2>1, <2>2 DEF IInv, TypeOK, LoopInv, Admitted, Writing, Base
  <2>. QED
    BY <2>3, <2>4, <2>5, <2>6 DEF IInv
<1>. QED
  BY <1>1, <1>2 DEF Seek, Goto

LEMMA ResizeStep == ASSUME IInv, Resize PROVE IInv'
BY DEF IInv, Resize, TypeOK, Params, Admitted, Writing, Base, TargetInv, LoopInv

LEMMA FakeCheckStep == ASSUME IInv, FakeCheck PROVE IInv'
<1>1. /\ pc = "fakecheck"
      /\ pc' \in {"seek", "failed"}
      /\ UNCHANGED <<job, srcLen, srcPos, expected, got, at, written, volatile>>
  BY DEF FakeCheck
<1>2. /\ job.offset \in Nat /\ expected \in Nat
      /\ Aligned(job.offset, SectorSize)
  BY <1>1, BoundsAssumption DEF IInv, TypeOK, Job, Params, Admitted
<1>. DEFINE M == TestBlocks(job.offset, job.offset + expected)
<1>3. M \subseteq Range(expected)
  <2>. SUFFICES ASSUME NEW a \in M PROVE a \in Range(expected)
    OBVIOUS
  <2>. DEFINE first == RoundDown(a, SectorSize)
  <2>1. /\ a \in Int
        /\ job.offset <= first
        /\ first + SectorSize <= job.offset + expected
    BY DEF TestBlocks, Addr
  <2>2. first \in Int /\ first <= a /\ a < first + SectorSize
    BY <2>1, SectorSizeAssumption, RoundDownFacts
  <2>3. RoundUp(expected, SectorSize) \in Int /\ expected <= RoundUp(expected, SectorSize)
    <3>1. expected \in Int
      BY <1>2
    <3>. QED
      BY <3>1, SectorSizeAssumption, RoundUpFacts
  <2>. HIDE DEF first
  <2>. QED
    BY <1>2, <2>1, <2>2, <2>3, SectorSizeAssumption DEF Range
<1>4. \A a \in Addr : target'[a] = target[a] \/ (a \in M /\ target'[a] = Mark)
  BY DEF FakeCheck
<1>5. target' \in [Addr -> {Old, Mark, Pad} \cup 0 .. MaxLen - 1]
  BY DEF FakeCheck, IInv, TypeOK
<1>. HIDE DEF M
<1>6. TypeOK'
  BY <1>1, <1>5 DEF IInv, TypeOK, Steps
<1>7. Params'
  BY <1>1 DEF IInv, Params, Admitted, Writing
<1>8. TargetInv'
  <2>1. Range(expected)' = Range(expected)
    BY <1>1 DEF Range
  <2>. SUFFICES ASSUME job.frozen, NEW a \in Addr
                PROVE  /\ target'[a] # Old => a \in Range(expected)
                       /\ target'[a] = Pad => a >= job.offset + expected
                       /\ target'[a] >= 0 => a = job.offset + target'[a]
    BY <1>1, <2>1 DEF TargetInv
  <2>2. CASE target'[a] = target[a]
    BY <2>2 DEF IInv, TargetInv
  <2>3. CASE a \in M /\ target'[a] = Mark
    BY <1>3, <2>3 DEF Mark, Pad
  <2>. QED
    BY <1>4, <2>2, <2>3
<1>9. LoopInv'
  BY <1>1 DEF IInv, LoopInv, Admitted, Writing
<1>. QED
  BY <1>6, <1>7, <1>8, <1>9 DEF IInv

LEMMA ReadStep == ASSUME IInv, Read PROVE IInv'
<1>1. CASE Fail
  BY <1>1, FailStep
<1>2. CASE /\ pc = "read"
           /\ got' = BytesRead
           /\ srcPos' = srcPos + BytesRead
           /\ pc' = IF BytesRead = 0 THEN "sync" ELSE "write"
           /\ UNCHANGED <<job, srcLen, expected, at, written, target, volatile>>
  <2>1. /\ BytesRead \in Nat
        /\ srcPos <= srcLen => srcPos + BytesRead <= srcLen
        /\ srcPos + BytesRead <= MaxLen
        /\ BytesRead = 0 => srcLen <= srcPos
        /\ srcPos + BytesRead < srcLen => Aligned(BytesRead, SectorSize)
    BY <1>2, BytesReadFacts DEF IInv, Params, Admitted
  <2>2. srcPos \in Nat /\ srcLen \in Nat /\ srcLen <= MaxLen
    BY BoundsAssumption DEF IInv, TypeOK
  <2>3. Base' = srcPos /\ Base = srcPos
    BY <1>2, <2>1, <2>2 DEF Base
  <2>4. TypeOK'
    BY <1>2, <2>1, <2>2, BoundsAssumption DEF IInv, TypeOK, Steps
  <2>5. Params'
    BY <1>2, <2>1, <2>2, <2>3 DEF IInv, Params, Admitted, Writing
  <2>6. TargetInv'
    BY <1>2 DEF IInv, TargetInv, Range
  <2>7. LoopInv'
    <3>. SUFFICES ASSUME job.frozen PROVE LoopInv'
      BY <1>2 DEF LoopInv
    <3>1. /\ expected = srcLen
          /\ job.device /\ job.known /\ job.size > 0 => job.offset + expected <= job.size
          /\ srcPos <= srcLen
          /\ srcPos < srcLen => Aligned(srcPos, SectorSize)
          /\ at = job.offset + RoundUp(srcPos, SectorSize)
          /\ \A i \in 0 .. srcPos - 1 : target[job.offset + i] = i
      BY <1>2, <2>3 DEF IInv, LoopInv, Admitted, Writing
    <3>2. srcPos' <= srcLen /\ (BytesRead = 0 => srcPos' = srcLen)
      BY <1>2, <2>1, <2>2, <3>1
    <3>3. BytesRead # 0 => srcPos < srcLen
      BY <2>1, <2>2, <3>1
    <3>4. srcPos' < srcLen => Aligned(srcPos', SectorSize)
      BY <1>2, <2>1, <2>2, <3>1, SectorSizeAssumption, AlignedSum
    <3>5. pc' = "write" => Aligned(srcPos, SectorSize)
      BY <1>2, <3>1, <3>3
    <3>. QED
      BY <1>2, <2>3, <3>1, <3>2, <3>4, <3>5 DEF LoopInv, Admitted, Writing
  <2>. QED
    BY <2>4, <2>5, <2>6, <2>7 DEF IInv
<1>. QED
  BY <1>1, <1>2 DEF Read, Goto

LEMMA SyncStep == ASSUME IInv, Sync PROVE IInv'
<1>1. CASE Fail
  BY <1>1, FailStep
<1>2. CASE /\ pc = "sync"
           /\ pc' = "done"
           /\ volatile' = {}
           /\ UNCHANGED <<job, srcLen, srcPos, expected, got, at, written, target>>
  BY <1>2 DEF IInv, TypeOK, Steps, Params, Admitted, Writing, Base, TargetInv, LoopInv, Range
<1>. QED
  BY <1>1, <1>2 DEF Sync, Goto

LEMMA WriteStep == ASSUME IInv, Write PROVE IInv'
<1>. DEFINE len == RoundUp(got, SectorSize)
            base == srcPos - got
<1>1. PICK n \in 0 .. len :
         /\ pc = "write"
         /\ Aligned(n, job.logical)
         /\ job.device /\ n > 0 => at + n <= job.size
         /\ target' = Laid(n)
         /\ volatile' = volatile \cup at .. at + n - 1
         /\ at' = at + n
         /\ \/ n = len /\ written' = written + got /\ pc' = "read"
            \/ n < len /\ written' = written /\ pc' = "failed"
         /\ UNCHANGED <<job, srcLen, srcPos, expected, got>>
  BY DEF Write, Goto
<1>2. /\ got \in Nat /\ got >= 1 /\ base \in Nat /\ srcPos \in Nat /\ srcPos <= MaxLen
      /\ srcPos = base + got
      /\ job.offset \in Nat /\ job.offset <= MaxLen
      /\ at \in Nat /\ at <= job.offset + SectorSize * base
      /\ written = base
  BY <1>1, BoundsAssumption, AddrFacts DEF IInv, TypeOK, Job, Params, Writing, Base, Addr
<1>3. /\ len \in Nat /\ got <= len /\ len < got + SectorSize
      /\ Aligned(len, SectorSize)
  <2>1. got \in Int
    BY <1>2
  <2>2. /\ len \in Int /\ got <= len /\ len < got + SectorSize
        /\ Aligned(len, SectorSize)
    BY <2>1, SectorSizeAssumption, RoundUpFacts
  <2>. HIDE DEF len
  <2>. QED
    BY <1>2, <2>2
<1>4. /\ SectorSize * srcPos = SectorSize * base + SectorSize * got
      /\ len <= SectorSize * got
      /\ SectorSize * base \in Nat /\ SectorSize * got \in Nat
      /\ SectorSize * srcPos <= SectorSize * MaxLen
  <2>1. SectorSize * (base + got) = SectorSize * base + SectorSize * got
    BY <1>2, SectorPerByte
  <2>2. len <= SectorSize * got
    BY <1>2, SectorPerByte
  <2>3. SectorSize * base \in Nat /\ SectorSize * got \in Nat
    BY <1>2, SectorPerByte
  <2>4. SectorSize * srcPos <= SectorSize * MaxLen
    <3>1. MaxLen - srcPos \in Nat /\ MaxLen = srcPos + (MaxLen - srcPos)
      BY <1>2, BoundsAssumption
    <3>2. SectorSize * MaxLen = SectorSize * srcPos + SectorSize * (MaxLen - srcPos)
      BY <1>2, <3>1, SectorSizeAssumption
    <3>3. SectorSize * (MaxLen - srcPos) \in Nat /\ SectorSize * srcPos \in Nat
      BY <1>2, <3>1, SectorPerByte
    <3>. QED
      BY <3>2, <3>3, AddrFacts
  <2>. QED
    BY <1>2, <2>1, <2>2, <2>3, <2>4
<1>. HIDE DEF len, base
<1>5. n \in Nat /\ n <= len
  BY <1>3
<1>6. at + n <= job.offset + SectorSize * srcPos
  BY <1>2, <1>3, <1>4, <1>5
<1>7. at + n \in Addr
  <2>1. at + n \in Int /\ 0 <= at + n
    BY <1>2, <1>5
  <2>2. at + n <= MaxLen + SectorSize * MaxLen
    BY <1>2, <1>4, <1>5, <1>6, AddrFacts, BoundsAssumption
  <2>. QED
    BY <2>1, <2>2, AddrFacts
<1>8. TypeOK'
  <2>1. target' \in [Addr -> {Old, Mark, Pad} \cup 0 .. MaxLen - 1]
    <3>. SUFFICES ASSUME NEW a \in Addr, a \in at .. at + n - 1, a - at < got
                  PROVE  srcPos - got + (a - at) \in 0 .. MaxLen - 1
      BY <1>1 DEF Laid, IInv, TypeOK
    <3>. QED
      BY <1>2, <1>5, BoundsAssumption
  <2>2. volatile' \in SUBSET Addr
    <3>1. ASSUME NEW a \in at .. at + n - 1 PROVE a \in Addr
      <4>1. at + n \in Int /\ at + n <= MaxLen + SectorSize * MaxLen
        BY <1>2, <1>5, <1>7, AddrFacts
      <4>2. a \in Int /\ 0 <= a /\ a <= MaxLen + SectorSize * MaxLen
        BY <1>2, <1>5, <4>1, AddrFacts, BoundsAssumption
      <4>. QED
        BY <4>2, AddrFacts
    <3>. QED
      BY <1>1, <3>1 DEF IInv, TypeOK
  <2>3. written' \in 0 .. MaxLen
    BY <1>1, <1>2, BoundsAssumption
  <2>. QED
    BY <1>1, <1>7, <2>1, <2>2, <2>3 DEF IInv, TypeOK, Steps
<1>9. Params'
  BY <1>1, <1>2, <1>3, <1>6 DEF IInv, Params, Admitted, Writing, Base
<1>10. \A a \in Addr :
         target'[a] = IF a \in at .. at + n - 1
                      THEN IF a - at < got THEN base + (a - at) ELSE Pad
                      ELSE target[a]
  BY <1>1 DEF Laid, base
<1>11. ASSUME job.frozen
       PROVE  /\ expected = srcLen /\ srcPos <= srcLen
              /\ srcPos < srcLen => Aligned(srcPos, SectorSize)
              /\ Aligned(base, SectorSize)
              /\ at = job.offset + base
              /\ \A i \in 0 .. base - 1 : target[job.offset + i] = i
              /\ RoundUp(srcPos, SectorSize) = base + len
              /\ srcPos < srcLen => len = got
              /\ Aligned(job.offset, SectorSize)
  <2>1. /\ expected = srcLen /\ srcPos <= srcLen
        /\ srcPos < srcLen => Aligned(srcPos, SectorSize)
        /\ Aligned(base, SectorSize)
        /\ at = job.offset + RoundUp(base, SectorSize)
        /\ \A i \in 0 .. base - 1 : target[job.offset + i] = i
        /\ Aligned(job.offset, SectorSize)
    BY <1>1, <1>11 DEF IInv, LoopInv, Params, Admitted, Writing, Base, base
  <2>2. base \in Int /\ got \in Int /\ srcPos \in Int
    BY <1>2
  <2>3. RoundUp(base, SectorSize) = base
    BY <2>1, <2>2, SectorSizeAssumption, RoundUpAligned
  <2>4. RoundUp(base + got, SectorSize) = base + RoundUp(got, SectorSize)
    BY <2>1, <2>2, SectorSizeAssumption, RoundUpSum
  <2>5. srcPos < srcLen => RoundUp(srcPos, SectorSize) = srcPos
    BY <2>1, <2>2, SectorSizeAssumption, RoundUpAligned
  <2>6. RoundUp(srcPos, SectorSize) = base + len
    BY <1>2, <2>4 DEF len
  <2>. QED
    BY <1>2, <1>3, <2>1, <2>3, <2>5, <2>6
<1>12. ASSUME job.frozen
       PROVE  base + len <= RoundUp(expected, SectorSize)
  <2>1. srcPos \in Int /\ expected \in Int /\ srcPos <= expected
    BY <1>2, <1>11, <1>12, BoundsAssumption DEF IInv, TypeOK
  <2>2. /\ RoundUp(expected, SectorSize) \in Int
        /\ expected <= RoundUp(expected, SectorSize)
        /\ Aligned(RoundUp(expected, SectorSize), SectorSize)
    BY <2>1, SectorSizeAssumption, RoundUpFacts
  <2>3. RoundUp(srcPos, SectorSize) <= RoundUp(expected, SectorSize)
    BY <2>1, <2>2, SectorSizeAssumption, RoundUpLeast
  <2>. QED
    BY <1>11, <1>12, <2>3
<1>13. TargetInv'
  <2>. SUFFICES ASSUME job.frozen, NEW a \in Addr
                PROVE  /\ target'[a] # Old => a \in Range(expected)
                       /\ target'[a] = Pad => a >= job.offset + expected
                       /\ target'[a] >= 0 => a = job.offset + target'[a]
    BY <1>1 DEF TargetInv, Range
  <2>1. CASE a \notin at .. at + n - 1
    BY <1>1, <2>1 DEF Laid, IInv, TargetInv
  <2>2. CASE a \in at .. at + n - 1
    <3>1. a \in Range(expected)
      <4>1. RoundUp(expected, SectorSize) \in Int
        <5>1. expected \in Int
          BY BoundsAssumption DEF IInv, TypeOK
        <5>. QED
          BY <5>1, SectorSizeAssumption, RoundUpFacts
      <4>. QED
        BY <1>2, <1>3, <1>5, <1>11, <1>12, <2>2, <4>1 DEF Range
    <3>2. target'[a] = IF a - at < got THEN base + (a - at) ELSE Pad
      BY <1>10, <2>2
    <3>3. ASSUME a - at < got
          PROVE  target'[a] = base + (a - at) /\ a = job.offset + target'[a]
      <4>1. target'[a] = base + (a - at)
        BY <3>2, <3>3
      <4>2. at = job.offset + base
        BY <1>11
      <4>3. a \in Int
        BY <1>2, <1>5, <2>2
      <4>. QED
        BY <1>2, <4>1, <4>2, <4>3
    <3>4. a - at >= got => target'[a] = Pad /\ a >= job.offset + expected
      BY <1>2, <1>3, <1>5, <1>11, <2>2, <3>2, BoundsAssumption DEF IInv, TypeOK
    <3>5. a - at < got \/ a - at >= got
      BY <1>2, <2>2
    <3>6. a - at < got => target'[a] >= 0
      BY <1>2, <2>2, <3>3
    <3>. QED
      BY <3>1, <3>3, <3>4, <3>5, <3>6 DEF Pad
  <2>. QED
    BY <2>1, <2>2
<1>14. LoopInv'
  <2>1. CASE pc' = "failed"
    BY <1>1, <2>1 DEF LoopInv, Admitted, Writing
  <2>2. CASE pc' = "read"
    <3>. SUFFICES ASSUME job.frozen PROVE LoopInv'
      BY <1>1 DEF LoopInv
    <3>1. n = len /\ Base' = srcPos
      BY <1>1, <2>2 DEF Base
    <3>2. at' = job.offset + RoundUp(srcPos, SectorSize)
      BY <1>1, <1>2, <1>3, <1>11, <3>1
    <3>3. ASSUME NEW i \in 0 .. srcPos - 1 PROVE target'[job.offset + i] = i
      <4>1. job.offset + i \in Addr
        <5>1. srcPos <= SectorSize * srcPos
          BY <1>2, SectorPerByte
        <5>2. job.offset + i \in Int /\ 0 <= job.offset + i
          BY <1>2
        <5>3. job.offset + i <= MaxLen + SectorSize * MaxLen
          BY <1>2, <1>4, <5>1, AddrFacts, BoundsAssumption
        <5>. QED
          BY <5>2, <5>3, AddrFacts
      <4>2. CASE i < base
        BY <1>2, <1>11, <1>10, <4>1, <4>2
      <4>3. CASE i >= base
        <5>. DEFINE x == job.offset + i
        <5>1. /\ x \in Addr /\ x = job.offset + i
              /\ x \in at .. at + n - 1 /\ x - at < got
              /\ base + (x - at) = i
          BY <1>2, <1>3, <1>11, <3>1, <4>1, <4>3
        <5>. HIDE DEF x
        <5>2. target'[x] = i
          BY <1>10, <5>1
        <5>. QED
          BY <5>1, <5>2
      <4>. QED
        BY <1>2, <4>2, <4>3
    <3>4. Admitted
      BY <1>1 DEF Admitted
    <3>. QED
      BY <1>1, <1>11, <2>2, <3>1, <3>2, <3>3, <3>4 DEF IInv, LoopInv, Admitted, Writing
  <2>. QED
    BY <1>1, <2>1, <2>2
<1>. QED
  BY <1>8, <1>9, <1>13, <1>14 DEF IInv

LEMMA NextStep == ASSUME IInv, [Next]_vars PROVE IInv'
<1>1. CASE UNCHANGED vars
  BY <1>1 DEF vars, IInv, TypeOK, Params, Admitted, Writing, Base, TargetInv, LoopInv, Range
<1>2. CASE Next
  BY <1>2, ValidateStep, PrepareStep, FakeCheckStep, SeekStep, ReadStep, WriteStep,
     SyncStep, ResizeStep DEF Next, Program
<1>. QED
  BY <1>1, <1>2

THEOREM Invariance == Spec => []IInv
<1>1. Init => IInv
  BY InitStep
<1>2. IInv /\ [Next]_vars => IInv'
  BY NextStep
<1>. QED
  BY <1>1, <1>2, PTL DEF Spec

-----------------------------------------------------------------------------
(* The results *)

\* Every variable keeps its type; in particular no write leaves Addr.
THEOREM TypeCorrect == Spec => []TypeOK
<1>1. IInv => TypeOK
  BY DEF IInv
<1>. QED
  BY <1>1, Invariance, PTL

\* Whatever fails and whenever it stops, a flash of an image nobody changes
\* touches nothing but the sectors of the image.
THEOREM Confined == Spec => []OutsideUntouched
<1>1. IInv => OutsideUntouched
  BY DEF IInv, TargetInv, OutsideUntouched
<1>. QED
  BY <1>1, Invariance, PTL

\* The bytes of an image nobody changes land at offset + i.
THEOREM InPlace == Spec => []FrozenImageInPlace
<1>1. IInv => FrozenImageInPlace
  BY DEF IInv, TargetInv, FrozenImageInPlace
<1>. QED
  BY <1>1, Invariance, PTL

\* A flash that reports success has the image on the drive, durably.
THEOREM SuccessMeansDurableImage == Spec => []SuccessIsDurableImage
<1>1. IInv => SuccessIsDurableImage
  BY DEF IInv, Params, LoopInv, Admitted, Writing, Base, SuccessIsDurableImage
<1>. QED
  BY <1>1, Invariance, PTL

\* A flash that validate() admitted does not meet the end of the device.
THEOREM AdmittedNeverOverruns == Spec => []AdmittedFits
<1>1. IInv => AdmittedFits
  <2>. SUFFICES ASSUME IInv, pc = "write", job.logical = SectorSize,
                       job.frozen /\ job.device /\ job.known /\ job.size > 0
                PROVE  at + RoundUp(got, SectorSize) <= job.size
    BY DEF AdmittedFits
  <2>. DEFINE base == srcPos - got
  <2>1. /\ base \in Int /\ got \in Int /\ job.offset \in Int /\ job.size \in Int
        /\ srcPos = base + got
    BY BoundsAssumption DEF IInv, TypeOK, Job
  <2>2. /\ job.offset + srcPos <= job.size
        /\ Aligned(job.offset, SectorSize)
        /\ Aligned(job.size, SectorSize)
        /\ Aligned(base, SectorSize)
        /\ at = job.offset + RoundUp(base, SectorSize)
    BY DEF IInv, TypeOK, Job, Params, LoopInv, Admitted, Writing, Base
  <2>. HIDE DEF base
  <2>3. at = job.offset + base /\ Aligned(job.offset + base, SectorSize)
    BY <2>1, <2>2, SectorSizeAssumption, RoundUpAligned, AlignedSum
  <2>. DEFINE room == job.size - (job.offset + base)
  <2>4. /\ room \in Int /\ got <= room
        /\ job.size = job.offset + base + room
    BY <2>1, <2>2
  <2>5. Aligned(room, SectorSize)
    <3>. DEFINE p == job.offset + base
    <3>1. p \in Int /\ Aligned(p, SectorSize) /\ room = job.size - p
      BY <2>1, <2>3
    <3>. HIDE DEF p, room
    <3>2. Aligned(job.size - p, SectorSize)
      BY <2>1, <2>2, <3>1, SectorSizeAssumption, AlignedSum
    <3>. QED
      BY <3>1, <3>2
  <2>. HIDE DEF room
  <2>6. RoundUp(got, SectorSize) <= room
    BY <2>1, <2>4, <2>5, SectorSizeAssumption, RoundUpLeast
  <2>7. RoundUp(got, SectorSize) \in Int
    BY <2>1, SectorSizeAssumption, RoundUpFacts
  <2>. QED
    BY <2>1, <2>3, <2>4, <2>6, <2>7
<1>. QED
  BY <1>1, Invariance, PTL

-----------------------------------------------------------------------------
(* What a changing source does not change: the flash never goes back. *)

\* Whatever is on the target lies behind the file position.
Passed ==
    \A a \in Addr : target[a] >= 0 =>
        /\ pc \notin {"validate", "prepare", "fakecheck", "seek"}
        /\ pc \in {"read", "write"} => a < at

LEMMA FakeCheckPasses ==
    ASSUME IInv, Passed, FakeCheck
    PROVE  Passed' /\ \A a \in Addr : target[a] >= 0 => target'[a] = target[a]
<1>1. pc = "fakecheck" /\ target' \in [Addr -> Int]
      /\ \A a \in Addr : target'[a] = target[a] \/ target'[a] = Mark
  <2>1. target \in [Addr -> Int]
    BY BoundsAssumption DEF IInv, TypeOK, Old, Mark, Pad
  <2> QED
    BY <2>1 DEF FakeCheck, Mark
<1>2. \A a \in Addr : ~(target[a] >= 0) /\ ~(target'[a] >= 0)
  BY <1>1 DEF Passed, Mark
<1> QED
  BY <1>2 DEF Passed

LEMMA WritePasses ==
    ASSUME IInv, Passed, Write
    PROVE  Passed' /\ \A a \in Addr : target[a] >= 0 => target'[a] = target[a]
<1>1. PICK n \in 0 .. RoundUp(got, SectorSize) :
         pc = "write" /\ target' = Laid(n) /\ at' = at + n /\ pc' \in {"read", "failed"}
  BY DEF Write, Goto
<1>2. n \in Nat /\ at \in Nat
  <2>1. got \in Int /\ at \in Nat
    BY BoundsAssumption DEF IInv, TypeOK, Addr
  <2>2. RoundUp(got, SectorSize) \in Int
    BY <2>1, SectorSizeAssumption, RoundUpFacts
  <2> QED
    BY <2>1, <2>2
<1>3. ASSUME NEW a \in Addr
      PROVE  /\ a \in Int
             /\ a \notin at .. at + n - 1 => target'[a] = target[a]
  BY <1>1 DEF Laid, Addr
<1>4. ASSUME NEW a \in Addr, target[a] >= 0
      PROVE  a < at /\ target'[a] = target[a]
  <2>1. a < at
    BY <1>1, <1>4 DEF Passed
  <2> QED
    BY <1>2, <1>3, <2>1
<1>5. ASSUME NEW a \in Addr, target'[a] >= 0
      PROVE  a < at'
  <2>1. CASE a \in at .. at + n - 1
    BY <1>1, <1>2, <1>3, <2>1
  <2>2. CASE a \notin at .. at + n - 1
    BY <1>1, <1>2, <1>3, <1>4, <1>5, <2>2
  <2> QED
    BY <2>1, <2>2
<1> QED
  BY <1>1, <1>4, <1>5 DEF Passed

\* Every other step leaves the target alone.
LEMMA NextPasses ==
    ASSUME IInv, Passed, [Next]_vars
    PROVE  Passed' /\ \A a \in Addr : target[a] >= 0 => target'[a] = target[a]
<1>1. CASE FakeCheck
  BY <1>1, FakeCheckPasses
<1>2. CASE Write
  BY <1>2, WritePasses
<1>3. CASE Validate \/ Prepare \/ Sync \/ Resize \/ UNCHANGED vars
  BY <1>3 DEF Validate, Prepare, Sync, Resize, vars, Fail, Goto, Passed
<1>4. CASE Seek \/ Read
  BY <1>4 DEF Seek, Read, Fail, Goto, Passed
<1> QED
  BY <1>1, <1>2, <1>3, <1>4 DEF Next, Program

\* What is on the target once stays there, whoever changes the source.
THEOREM WrittenOnce == Spec => NothingWrittenTwice
<1>1. Init => Passed
  BY DEF Init, Passed, Old
<1>2. Spec => []Passed
  BY <1>1, NextPasses, Invariance, PTL DEF Spec
<1>3. IInv /\ Passed /\ [Next]_vars => [\A a \in Addr : target[a] >= 0 => target'[a] = target[a]]_vars
  BY NextPasses
<1> QED
  BY <1>2, <1>3, Invariance, PTL DEF Spec, NothingWrittenTwice
=============================================================================
