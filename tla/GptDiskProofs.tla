---------------------------- MODULE GptDiskProofs ----------------------------
(***************************************************************************)
(* Proofs that every target that passes copy mode's size checks gets a     *)
(* table that fits it, and keeps it whatever the filesystems write, for    *)
(* every sector size, target size and loader.                              *)
(***************************************************************************)
EXTENDS GptDisk, TLAPS

-----------------------------------------------------------------------------
(* What rounding and division guarantee, for every divisor. *)

\* The quotient and the remainder, and that nothing else is one.
LEMMA DivMod ==
    ASSUME NEW d \in Nat \ {0}, NEW n \in Int
    PROVE  /\ n \div d \in Int
           /\ n % d \in 0 .. d - 1
           /\ n = d * (n \div d) + (n % d)
OBVIOUS

LEMMA MultipleAtLeast ==
    ASSUME NEW d \in Nat \ {0}, NEW k \in Int, k >= 1
    PROVE  d * k >= d
OBVIOUS

\* A multiple of d that is less than another one is less by d at least.
LEMMA MultipleStep ==
    ASSUME NEW d \in Nat \ {0}, NEW i \in Int, NEW j \in Int, i < j
    PROVE  d * i + d <= d * j
<1> DEFINE k == j - i
<1>1. k \in Int /\ k >= 1
  OBVIOUS
<1>2. d * k >= d
  <2> HIDE DEF k
  <2> QED  BY <1>1, MultipleAtLeast
<1>3. d * j = d * i + d * k
  OBVIOUS
<1> QED  BY <1>2, <1>3

-----------------------------------------------------------------------------
(* The layout. *)

LEMMA SectorsForFacts ==
    ASSUME NEW s \in Nat \ {0}, NEW bytes \in Nat \ {0}
    PROVE  SectorsFor(bytes, s) \in Nat \ {0}
<1> DEFINE n == bytes + s - 1
           q == n \div s
<1>1. n \in Int /\ n >= s
  OBVIOUS
<1>2. q \in Int /\ n % s \in 0 .. s - 1 /\ n = s * q + (n % s)
  <2> HIDE DEF n
  <2> QED  BY <1>1, DivMod
<1>3. ~(q < 1)
  <2> SUFFICES ASSUME q < 1 PROVE FALSE
    OBVIOUS
  <2>1. s * q + s <= s * 1
    <3> HIDE DEF q, n
    <3> QED  BY <1>2, MultipleStep
  <2> HIDE DEF q, n
  <2> QED  BY <1>1, <1>2, <2>1
<1> HIDE DEF q
<1> QED  BY <1>2, <1>3 DEF q, SectorsFor

LEMMA QuotientNat ==
    ASSUME NEW s \in Nat \ {0}, NEW n \in Nat
    PROVE  n \div s \in Nat
<1> DEFINE q == n \div s
<1>1. q \in Int /\ n % s \in 0 .. s - 1 /\ n = s * q + (n % s)
  BY DivMod
<1>2. ~(q < 0)
  <2> SUFFICES ASSUME q < 0 PROVE FALSE
    OBVIOUS
  <2>1. s * q + s <= s * 0
    <3> HIDE DEF q
    <3> QED  BY <1>1, MultipleStep
  <2> HIDE DEF q
  <2> QED  BY <1>1, <2>1
<1> HIDE DEF q
<1> QED  BY <1>1, <1>2 DEF q

LEMMA Sizes ==
    ASSUME NEW s \in SectorSizes
    PROVE  /\ s \in Nat \ {0}
           /\ ArraySectors(s) \in Nat \ {0} /\ LoaderSectors(s) \in Nat \ {0}
           /\ AlignLba(s) \in Nat /\ FloorSectors(s) \in Nat
           /\ AlignLba(s) >= 2 + ArraySectors(s)
BY SectorsForFacts, QuotientNat, SectorSizesAssumption, BytesAssumption, AlignAssumption
   DEF ArraySectors, LoaderSectors, AlignLba, FloorSectors

\* What the size checks guarantee of the layout.
Fitting == job \in Job /\ ~TooSmall(Total, SectorSize, job.ntfs)

LEMMA JobFacts ==
    ASSUME job \in Job
    PROVE  /\ SectorSize \in SectorSizes /\ SectorSize \in Nat \ {0} /\ Total \in Nat
           /\ Arrays \in Nat \ {0} /\ FirstLba \in Nat /\ FirstLba >= FirstUsable
           /\ FirstUsable = 2 + Arrays
<1>1. SectorSize \in SectorSizes
  BY SectorSizesAssumption DEF Job, SectorSize
<1>2. SectorSize \in Nat \ {0} /\ job.bytes \in Nat
  BY <1>1, Sizes DEF Job
<1>3. Total \in Nat
  BY <1>2, QuotientNat DEF Total
<1> QED  BY <1>1, <1>2, <1>3, Sizes DEF Arrays, FirstLba, FirstUsable

\* The partitions fill the usable range from FirstLba on, to its last sector.
LEMMA LayoutFits ==
    ASSUME Fitting
    PROVE  /\ Layout[1] \in Nat \ {0} /\ StartOf(1) = FirstLba
           /\ EndOf(1) = FirstLba + Layout[1] - 1
           /\ ~job.ntfs => Len(Layout) = 1 /\ DOMAIN Layout = {1} /\ EndOf(1) = LastUsable
           /\ job.ntfs  => /\ Len(Layout) = 2 /\ DOMAIN Layout = {1, 2}
                           /\ Layout[2] \in Nat \ {0}
                           /\ StartOf(2) = EndOf(1) + 1 /\ EndOf(2) = LastUsable
                           /\ EndOf(2) = StartOf(2) + Layout[2] - 1
           /\ EndOf(Len(Layout)) = LastUsable
           /\ LastUsable = BackupArray - 1
           /\ BackupArray \in Int /\ LastLba = BackupArray + Arrays /\ LastLba = Total - 1
<1> DEFINE s == SectorSize
           a == AlignLba(s)
           g == ArraySectors(s)
           n == LoaderSectors(s)
           f == FloorSectors(s)
<1>1. s \in SectorSizes /\ Total \in Nat
  BY JobFacts DEF Fitting
<1>2. a \in Nat /\ g \in Nat \ {0} /\ n \in Nat \ {0} /\ f \in Nat
  BY <1>1, Sizes
<1>3. FirstLba = a /\ Arrays = g
  BY DEF FirstLba, Arrays
<1>4. BackupArray = Total - 1 - g /\ LastUsable = BackupArray - 1 /\ LastLba = Total - 1
  BY DEF BackupArray, LastUsable, LastLba, Arrays
<1>5. CASE ~job.ntfs
  <2>1. Reserved(s, job.ntfs) = a + (g + 1)
    BY <1>2, <1>5 DEF Reserved, GptTail
  <2>2. Total > a + (g + 1) + f
    BY <1>1, <1>2, <2>1 DEF Fitting, TooSmall
  <2>3. Layout = <<Total - (a + (g + 1))>>
    BY <1>5, <2>1 DEF Layout, Parts
  <2>4. Layout[1] = Total - (a + (g + 1)) /\ Len(Layout) = 1 /\ DOMAIN Layout = {1}
    BY <2>3
  <2>5. StartOf(1) = FirstLba /\ EndOf(1) = FirstLba + Layout[1] - 1
    BY <1>1, <1>2, <1>3, <2>4 DEF StartOf, EndOf
  <2> HIDE DEF s, a, g, n, f
  <2> QED  BY <1>1, <1>2, <1>3, <1>4, <1>5, <2>2, <2>4, <2>5
<1>6. CASE job.ntfs
  <2>1. Reserved(s, job.ntfs) = a + (g + 1) + n
    BY <1>2, <1>6 DEF Reserved, GptTail
  <2>2. Total > a + (g + 1) + n + f
    BY <1>1, <1>2, <2>1 DEF Fitting, TooSmall
  <2>3. Layout = <<Total - (a + (g + 1) + n), n>>
    BY <1>6, <2>1 DEF Layout, Parts
  <2>4. /\ Layout[1] = Total - (a + (g + 1) + n) /\ Layout[2] = n
        /\ Len(Layout) = 2 /\ DOMAIN Layout = {1, 2}
    BY <2>3
  <2>5. /\ StartOf(1) = FirstLba /\ EndOf(1) = FirstLba + Layout[1] - 1
        /\ StartOf(2) = FirstLba + Layout[1] /\ EndOf(2) = StartOf(2) + Layout[2] - 1
    <3>1. StartOf(1) = FirstLba + 0 /\ StartOf(2) = FirstLba + Layout[1]
      BY DEF StartOf
    <3> QED  BY <1>2, <1>3, <3>1 DEF EndOf
  <2> HIDE DEF s, a, g, n, f
  <2> QED  BY <1>1, <1>2, <1>3, <1>4, <1>6, <2>2, <2>4, <2>5
<1> QED  BY <1>5, <1>6

-----------------------------------------------------------------------------
(* The inductive invariant: what is in place after each step. *)

AfterArray2 == {"header2", "flush", "loader", "fat", "ntfs", "done"}
AfterArray  == AfterArray2 \cup {"array2"}
AfterHeader == AfterArray \cup {"array"}
AfterMbr    == AfterHeader \cup {"header"}
AfterWipe   == AfterMbr \cup {"mbr"}
AfterTable  == AfterArray2 \ {"header2"}

StepInv ==
    /\ pc # "misfit"
    /\ pc \notin {"plan", "failed"} => Fitting
    /\ pc = "fat" => ~job.ntfs
    /\ pc \in {"loader", "ntfs"} => job.ntfs

TableInv ==
    /\ pc \in AfterWipe   => \A l \in 0 .. FirstLba - 1 : dev[l] # Old
    /\ pc \in AfterMbr    => dev[0] = Mbr
    /\ pc \in AfterHeader => dev[1] = Header(1, LastLba, 2)
    /\ pc \in AfterArray  => \A i \in 0 .. Arrays - 1 : dev[2 + i] = Entries(i)
    /\ pc \in AfterArray2 => \A i \in 0 .. Arrays - 1 : dev[BackupArray + i] = Entries(i)
    /\ pc \in AfterTable  => dev[LastLba] = Header(LastLba, 1, BackupArray)

LoaderInv ==
    pc \in {"ntfs", "done"} /\ job.ntfs => \A l \in StartOf(2) .. EndOf(2) : dev[l] = Loader

IInv == TypeOK /\ StepInv /\ TableInv /\ LoaderInv

LEMMA GeometryFixed ==
    ASSUME UNCHANGED job
    PROVE  /\ SectorSize' = SectorSize /\ Total' = Total /\ Layout' = Layout
           /\ Arrays' = Arrays /\ FirstLba' = FirstLba /\ LastLba' = LastLba
           /\ BackupArray' = BackupArray
           /\ Fitting' = Fitting
           /\ \A i : StartOf(i)' = StartOf(i) /\ EndOf(i)' = EndOf(i)
           /\ \A m, a, r : Header(m, a, r)' = Header(m, a, r)
<1>1. SectorSize' = SectorSize
  BY DEF SectorSize
<1>2. Total' = Total
  BY <1>1 DEF Total
<1>3. Layout' = Layout
  BY <1>1, <1>2 DEF Layout
<1>4. Arrays' = Arrays /\ FirstLba' = FirstLba
  BY <1>1 DEF Arrays, FirstLba
<1>5. LastLba' = LastLba /\ BackupArray' = BackupArray /\ LastUsable' = LastUsable
  BY <1>2, <1>4 DEF LastLba, BackupArray, LastUsable
<1>6. FirstUsable' = FirstUsable
  BY <1>4 DEF FirstUsable
<1>7. Fitting' = Fitting
  BY <1>1, <1>2 DEF Fitting
<1>8. \A i : StartOf(i)' = StartOf(i) /\ EndOf(i)' = EndOf(i)
  BY <1>3, <1>4 DEF StartOf, EndOf
<1>9. \A m, a, r : Header(m, a, r)' = Header(m, a, r)
  BY <1>5, <1>6 DEF Header
<1> QED  BY <1>1, <1>2, <1>3, <1>4, <1>5, <1>7, <1>8, <1>9

\* A write inside the target stays inside, and changes what it covers.
LEMMA PutFacts ==
    ASSUME TypeOK, NEW lba \in Nat, NEW n \in Nat, lba + n <= Total,
           NEW content, \A i \in 0 .. n - 1 : content[i].kind \in Kinds,
           dev' = Put(lba, n, content), UNCHANGED job
    PROVE  /\ DOMAIN dev' = 0 .. Total - 1
           /\ \A l \in DOMAIN dev' : dev'[l].kind \in Kinds
           /\ \A l \in 0 .. Total - 1 :
                IF l \in lba .. lba + n - 1 THEN dev'[l] = content[l - lba]
                                           ELSE dev'[l] = dev[l]
<1>1. job \in Job /\ DOMAIN dev = 0 .. Total - 1
  BY DEF TypeOK
<1>2. Total \in Nat
  BY <1>1, JobFacts
<1>3. DOMAIN dev \cup lba .. lba + n - 1 = 0 .. Total - 1
  BY <1>1, <1>2
<1>4. dev' = [l \in 0 .. Total - 1 |->
                IF l \in lba .. lba + n - 1 THEN content[l - lba] ELSE dev[l]]
  BY <1>3 DEF Put
<1>5. \A l \in 0 .. Total - 1 :
        IF l \in lba .. lba + n - 1 THEN dev'[l] = content[l - lba] ELSE dev'[l] = dev[l]
  BY <1>4
<1>6. \A l \in lba .. lba + n - 1 : l - lba \in 0 .. n - 1
  OBVIOUS
<1>7. \A l \in 0 .. Total - 1 : dev'[l].kind \in Kinds
  BY <1>1, <1>5, <1>6 DEF TypeOK
<1> QED  BY <1>4, <1>5, <1>7

\* A gpt_write_at() inside the target fails, or does all it was asked to.
LEMMA WriteAtFacts ==
    ASSUME TypeOK, NEW lba \in Nat, NEW n \in Nat, lba + n <= Total,
           NEW content, \A i \in 0 .. n - 1 : content[i].kind \in Kinds,
           NEW next \in Steps, WriteAt(lba, n, content, next)
    PROVE  /\ TypeOK' /\ UNCHANGED <<job, at>>
           /\ \/ pc' = "failed"
              \/ /\ pc' = next
                 /\ \A l \in 0 .. Total - 1 :
                      IF l \in lba .. lba + n - 1 THEN dev'[l] = content[l - lba]
                                                 ELSE dev'[l] = dev[l]
<1>1. UNCHANGED <<job, at>>
  BY DEF WriteAt
<1>2. PICK k \in 0 .. n : /\ dev' = Put(lba, k, content)
                          /\ (k = n /\ pc' = next) \/ pc' = "failed"
  <2>1. CASE dev' = Put(lba, n, content) /\ pc' = next
    BY <2>1
  <2>2. CASE \E k \in 0 .. n - 1 : dev' = Put(lba, k, content) /\ pc' = "failed"
    BY <2>2
  <2> QED  BY <2>1, <2>2 DEF WriteAt
<1>3. k \in Nat /\ lba + k <= Total /\ \A i \in 0 .. k - 1 : content[i].kind \in Kinds
  <2>1. Total \in Nat
    BY JobFacts DEF TypeOK
  <2> QED  BY <2>1
<1>4. /\ DOMAIN dev' = 0 .. Total - 1
      /\ \A l \in DOMAIN dev' : dev'[l].kind \in Kinds
      /\ \A l \in 0 .. Total - 1 :
           IF l \in lba .. lba + k - 1 THEN dev'[l] = content[l - lba]
                                      ELSE dev'[l] = dev[l]
  BY <1>1, <1>2, <1>3, PutFacts
<1>5. TypeOK'
  BY <1>1, <1>2, <1>4, GeometryFixed DEF TypeOK, Steps
<1> QED  BY <1>1, <1>2, <1>4, <1>5

LEMMA Initially == Init => IInv
<1> SUFFICES ASSUME Init PROVE IInv
  OBVIOUS
<1>1. TypeOK
  BY DEF Init, TypeOK, Steps, Kinds, Old
<1> QED  BY <1>1 DEF Init, IInv, StepInv, TableInv, LoaderInv,
            AfterWipe, AfterMbr, AfterHeader, AfterArray, AfterArray2, AfterTable

\* The steps after which nothing of the table is promised.
LEMMA FailureKeeps ==
    ASSUME TypeOK', pc' = "failed"
    PROVE  IInv'
BY DEF IInv, StepInv, TableInv, LoaderInv,
       AfterWipe, AfterMbr, AfterHeader, AfterArray, AfterArray2, AfterTable

LEMMA PlanKeeps == IInv /\ Plan => IInv'
<1> SUFFICES ASSUME IInv, Plan PROVE IInv'
  OBVIOUS
<1>1. UNCHANGED <<job, dev, at>> /\ job \in Job
  BY DEF Plan, IInv, TypeOK
<1>2. /\ Total' = Total /\ Fitting' = Fitting
  BY <1>1, GeometryFixed
<1>3. CASE pc' = "failed"
  BY <1>1, <1>2, <1>3, FailureKeeps DEF IInv, TypeOK, Steps
<1>4. CASE /\ ~TooSmall(job.bytes \div job.logical, job.logical, FALSE)
           /\ job.ntfs => /\ ~TooSmall(Total, NtfsSector, TRUE)
                          /\ job.logical = NtfsSector
           /\ pc' = "place"
  <2>1. Fitting
    <3>1. CASE job.ntfs
      <4>1. SectorSize = NtfsSector
        BY <3>1 DEF SectorSize
      <4>2. ~TooSmall(Total, SectorSize, TRUE)
        BY <1>4, <3>1, <4>1
      <4>3. job.ntfs = TRUE
        BY <1>1, <3>1 DEF Job
      <4> QED  BY <1>1, <4>2, <4>3 DEF Fitting
    <3>2. CASE ~job.ntfs
      <4>1. job.ntfs = FALSE
        BY <1>1, <3>2 DEF Job
      <4>2. SectorSize = job.logical /\ Total = job.bytes \div job.logical
        BY <3>2 DEF SectorSize, Total
      <4> QED  BY <1>1, <1>4, <4>1, <4>2 DEF Fitting
    <3> QED  BY <3>1, <3>2
  <2>2. TypeOK'
    BY <1>1, <1>2, <1>4 DEF IInv, TypeOK, Steps
  <2> QED  BY <1>2, <1>4, <2>1, <2>2 DEF IInv, StepInv, TableInv, LoaderInv,
           AfterWipe, AfterMbr, AfterHeader, AfterArray, AfterArray2, AfterTable
<1> QED  BY <1>3, <1>4 DEF Plan

LEMMA PlaceKeeps == IInv /\ Place => IInv'
<1> SUFFICES ASSUME IInv, Place PROVE IInv'
  OBVIOUS
<1>1. UNCHANGED <<job, dev, at>> /\ pc = "place" /\ Fitting
  BY DEF Place, IInv, StepInv
<1>2. /\ Total' = Total /\ Fitting' = Fitting
  BY <1>1, GeometryFixed
<1>3. StartOf(1) >= FirstUsable /\ EndOf(Len(Layout)) = LastUsable /\ LastUsable \in Int
  BY <1>1, LayoutFits, JobFacts DEF Fitting
<1>4. StartOf(1) \in Int /\ FirstUsable \in Int
  BY <1>1, LayoutFits, JobFacts DEF Fitting
<1>5. pc' = "wipe"
  BY <1>3, <1>4 DEF Place
<1>6. TypeOK'
  BY <1>1, <1>2, <1>5 DEF IInv, TypeOK, Steps
<1> QED  BY <1>1, <1>2, <1>5, <1>6 DEF IInv, StepInv, TableInv, LoaderInv,
         AfterWipe, AfterMbr, AfterHeader, AfterArray, AfterArray2, AfterTable

\* Where everything is on a target that passed the checks.
LEMMA Geometry ==
    ASSUME Fitting
    PROVE  /\ Total \in Nat /\ Arrays \in Nat \ {0} /\ FirstLba \in Nat
           /\ FirstLba >= 2 + Arrays
           /\ Layout[1] \in Nat \ {0}
           /\ StartOf(1) = FirstLba /\ EndOf(1) = FirstLba + Layout[1] - 1
           /\ EndOf(1) < BackupArray
           /\ BackupArray \in Nat /\ LastLba = BackupArray + Arrays /\ LastLba = Total - 1
           /\ job.ntfs => /\ Layout[2] \in Nat \ {0}
                          /\ StartOf(2) = EndOf(1) + 1
                          /\ EndOf(2) = StartOf(2) + Layout[2] - 1
                          /\ EndOf(2) < BackupArray
<1>1. /\ Total \in Nat /\ Arrays \in Nat \ {0} /\ FirstLba \in Nat
      /\ FirstLba >= 2 + Arrays
  BY JobFacts DEF Fitting
<1>2. CASE job.ntfs
  BY <1>1, <1>2, LayoutFits
<1>3. CASE ~job.ntfs
  BY <1>1, <1>3, LayoutFits
<1> QED  BY <1>2, <1>3

\* The six writes of write_gpt(), each leaving what the earlier ones wrote.
LEMMA TableKeeps ==
    IInv /\ (Wipe \/ PutMbr \/ PutHeader \/ PutArray \/ PutArray2 \/ PutHeader2) => IInv'
<1> SUFFICES ASSUME IInv, Wipe \/ PutMbr \/ PutHeader \/ PutArray \/ PutArray2 \/ PutHeader2
             PROVE  IInv'
  OBVIOUS
<1>1. Fitting /\ TypeOK
  BY DEF IInv, StepInv, Wipe, PutMbr, PutHeader, PutArray, PutArray2, PutHeader2
<1>2. /\ Total \in Nat /\ Arrays \in Nat \ {0} /\ FirstLba \in Nat
      /\ FirstLba >= 2 + Arrays /\ FirstLba <= BackupArray
      /\ BackupArray \in Nat /\ LastLba = BackupArray + Arrays /\ LastLba = Total - 1
  BY <1>1, Geometry
<1> DEFINE Written(lba, n, content, next) ==
             /\ pc' = next
             /\ \A l \in 0 .. Total - 1 :
                  IF l \in lba .. lba + n - 1 THEN dev'[l] = content[l - lba]
                                             ELSE dev'[l] = dev[l]
<1>3. CASE Wipe
  <2>1. \A i \in 0 .. FirstLba - 1 : All(FirstLba, Zero)[i] = Zero
    BY DEF All
  <2>2. Zero.kind \in Kinds /\ Zero # Old
    BY DEF Zero, Old, Kinds
  <2>3. WriteAt(0, FirstLba, All(FirstLba, Zero), "mbr") /\ pc = "wipe"
    BY <1>3 DEF Wipe
  <2>4. /\ TypeOK' /\ UNCHANGED <<job, at>>
        /\ pc' = "failed" \/ Written(0, FirstLba, All(FirstLba, Zero), "mbr")
    BY <1>1, <1>2, <2>1, <2>2, <2>3, WriteAtFacts DEF Steps
  <2>5. ASSUME Written(0, FirstLba, All(FirstLba, Zero), "mbr") PROVE IInv'
    <3>1. \A l \in 0 .. FirstLba - 1 : dev'[l] # Old
      BY <1>2, <2>1, <2>2, <2>5
    <3> QED  BY <1>1, <2>4, <2>5, <3>1, GeometryFixed DEF IInv, StepInv, TableInv, LoaderInv,
             AfterWipe, AfterMbr, AfterHeader, AfterArray, AfterArray2, AfterTable, Old
  <2> QED  BY <2>4, <2>5, FailureKeeps
<1>4. CASE PutMbr
  <2>1. All(1, Mbr)[0] = Mbr /\ Mbr.kind \in Kinds /\ Mbr # Old
    BY DEF All, Mbr, Kinds, Old
  <2>2. WriteAt(0, 1, All(1, Mbr), "header") /\ pc = "mbr"
    BY <1>4 DEF PutMbr
  <2>3. /\ TypeOK' /\ UNCHANGED <<job, at>>
        /\ pc' = "failed" \/ Written(0, 1, All(1, Mbr), "header")
    BY <1>1, <1>2, <2>1, <2>2, WriteAtFacts DEF Steps
  <2>4. ASSUME Written(0, 1, All(1, Mbr), "header") PROVE IInv'
    <3>1. dev'[0] = Mbr /\ \A l \in 1 .. Total - 1 : dev'[l] = dev[l]
      BY <1>2, <2>1, <2>4
    <3>2. \A l \in 0 .. FirstLba - 1 : dev[l] # Old
      BY <2>2 DEF IInv, TableInv, AfterWipe
    <3>3. \A l \in 0 .. FirstLba - 1 : dev'[l] # Old
      BY <1>2, <2>1, <3>1, <3>2
    <3> QED  BY <1>1, <2>3, <2>4, <3>1, <3>3, GeometryFixed DEF IInv, StepInv, TableInv,
             LoaderInv, AfterWipe, AfterMbr, AfterHeader, AfterArray, AfterArray2, AfterTable,
             Old, Mbr
  <2> QED  BY <2>3, <2>4, FailureKeeps
<1>5. CASE PutHeader
  <2> DEFINE h == Header(1, LastLba, 2)
  <2>1. All(1, h)[0] = h /\ h.kind \in Kinds /\ h # Old
    BY DEF All, Header, Kinds, Old
  <2>2. WriteAt(1, 1, All(1, h), "array") /\ pc = "header"
    BY <1>5 DEF PutHeader
  <2> HIDE DEF h
  <2>3. /\ TypeOK' /\ UNCHANGED <<job, at>>
        /\ pc' = "failed" \/ Written(1, 1, All(1, h), "array")
    BY <1>1, <1>2, <2>1, <2>2, WriteAtFacts DEF Steps
  <2>4. ASSUME Written(1, 1, All(1, h), "array") PROVE IInv'
    <3>1. dev'[1] = h /\ \A l \in 0 .. Total - 1 : l # 1 => dev'[l] = dev[l]
      BY <1>2, <2>1, <2>4
    <3>2. (\A l \in 0 .. FirstLba - 1 : dev[l] # Old) /\ dev[0] = Mbr
      BY <2>2 DEF IInv, TableInv, AfterWipe, AfterMbr
    <3>3. (\A l \in 0 .. FirstLba - 1 : dev'[l] # Old) /\ dev'[0] = Mbr
      BY <1>2, <2>1, <3>1, <3>2
    <3> QED  BY <1>1, <2>3, <2>4, <3>1, <3>3, GeometryFixed DEF IInv, StepInv, TableInv,
             LoaderInv, AfterWipe, AfterMbr, AfterHeader, AfterArray, AfterArray2, AfterTable,
             Old, Mbr, h
  <2> QED  BY <2>3, <2>4, FailureKeeps
<1>6. CASE PutArray
  <2>1. \A i \in 0 .. Arrays - 1 : /\ EntryArray[i] = Entries(i)
                                  /\ EntryArray[i].kind \in Kinds /\ Entries(i) # Old
    BY DEF EntryArray, Entries, Kinds, Old
  <2>2. WriteAt(2, Arrays, EntryArray, "array2") /\ pc = "array"
    BY <1>6 DEF PutArray
  <2>3. /\ TypeOK' /\ UNCHANGED <<job, at>>
        /\ pc' = "failed" \/ Written(2, Arrays, EntryArray, "array2")
    <3>1. 2 \in Nat /\ Arrays \in Nat /\ 2 + Arrays <= Total /\ "array2" \in Steps
      BY <1>2 DEF Steps
    <3> QED  BY <1>1, <2>1, <2>2, <3>1, WriteAtFacts
  <2>4. ASSUME Written(2, Arrays, EntryArray, "array2") PROVE IInv'
    <3>1. /\ \A i \in 0 .. Arrays - 1 : dev'[2 + i] = Entries(i)
          /\ \A l \in 0 .. Total - 1 : l < 2 \/ l >= 2 + Arrays => dev'[l] = dev[l]
      BY <1>2, <2>1, <2>4
    <3>2. /\ \A l \in 0 .. FirstLba - 1 : dev[l] # Old
          /\ dev[0] = Mbr /\ dev[1] = Header(1, LastLba, 2)
      BY <2>2 DEF IInv, TableInv, AfterWipe, AfterMbr, AfterHeader
    <3>3. dev'[0] = Mbr /\ dev'[1] = Header(1, LastLba, 2)
      BY <1>2, <3>1, <3>2
    <3>4. \A l \in 0 .. FirstLba - 1 : dev'[l] # Old
      BY <1>2, <2>1, <2>4, <3>2
    <3> QED  BY <1>1, <2>3, <2>4, <3>1, <3>3, <3>4, GeometryFixed DEF IInv, StepInv, TableInv,
             LoaderInv, AfterWipe, AfterMbr, AfterHeader, AfterArray, AfterArray2, AfterTable,
             Old, Mbr, Entries
  <2> QED  BY <2>3, <2>4, FailureKeeps
<1>7. CASE PutArray2
  <2>1. \A i \in 0 .. Arrays - 1 : /\ EntryArray[i] = Entries(i)
                                  /\ EntryArray[i].kind \in Kinds
    BY DEF EntryArray, Entries, Kinds
  <2>2. WriteAt(BackupArray, Arrays, EntryArray, "header2") /\ pc = "array2"
    BY <1>7 DEF PutArray2
  <2>3. /\ TypeOK' /\ UNCHANGED <<job, at>>
        /\ pc' = "failed" \/ Written(BackupArray, Arrays, EntryArray, "header2")
    <3>1. /\ BackupArray \in Nat /\ Arrays \in Nat /\ BackupArray + Arrays <= Total
          /\ "header2" \in Steps
      BY <1>2 DEF Steps
    <3> QED  BY <1>1, <2>1, <2>2, <3>1, WriteAtFacts
  <2>4. ASSUME Written(BackupArray, Arrays, EntryArray, "header2") PROVE IInv'
    <3>1. /\ \A i \in 0 .. Arrays - 1 : dev'[BackupArray + i] = Entries(i)
          /\ \A l \in 0 .. FirstLba - 1 : dev'[l] = dev[l]
      BY <1>2, <2>1, <2>4
    <3>2. /\ \A l \in 0 .. FirstLba - 1 : dev[l] # Old
          /\ dev[0] = Mbr /\ dev[1] = Header(1, LastLba, 2)
          /\ \A i \in 0 .. Arrays - 1 : dev[2 + i] = Entries(i)
      BY <2>2 DEF IInv, TableInv, AfterWipe, AfterMbr, AfterHeader, AfterArray
    <3>3. /\ \A l \in 0 .. FirstLba - 1 : dev'[l] # Old
          /\ dev'[0] = Mbr /\ dev'[1] = Header(1, LastLba, 2)
          /\ \A i \in 0 .. Arrays - 1 : dev'[2 + i] = Entries(i)
      BY <1>2, <3>1, <3>2
    <3> QED  BY <1>1, <2>3, <2>4, <3>1, <3>3, GeometryFixed DEF IInv, StepInv, TableInv,
             LoaderInv, AfterWipe, AfterMbr, AfterHeader, AfterArray, AfterArray2, AfterTable,
             Old, Mbr, Entries
  <2> QED  BY <2>3, <2>4, FailureKeeps
<1>8. CASE PutHeader2
  <2> DEFINE h == Header(LastLba, 1, BackupArray)
  <2>1. All(1, h)[0] = h /\ h.kind \in Kinds
    BY DEF All, Header, Kinds
  <2>2. WriteAt(LastLba, 1, All(1, h), "flush") /\ pc = "header2"
    BY <1>8 DEF PutHeader2
  <2> HIDE DEF h
  <2>3. /\ TypeOK' /\ UNCHANGED <<job, at>>
        /\ pc' = "failed" \/ Written(LastLba, 1, All(1, h), "flush")
    BY <1>1, <1>2, <2>1, <2>2, WriteAtFacts DEF Steps
  <2>4. ASSUME Written(LastLba, 1, All(1, h), "flush") PROVE IInv'
    <3>1. dev'[LastLba] = h /\ \A l \in 0 .. LastLba - 1 : dev'[l] = dev[l]
      BY <1>2, <2>1, <2>4
    <3>2. /\ \A l \in 0 .. FirstLba - 1 : dev[l] # Old
          /\ dev[0] = Mbr /\ dev[1] = Header(1, LastLba, 2)
          /\ \A i \in 0 .. Arrays - 1 : dev[2 + i] = Entries(i)
          /\ \A i \in 0 .. Arrays - 1 : dev[BackupArray + i] = Entries(i)
      BY <2>2 DEF IInv, TableInv, AfterWipe, AfterMbr, AfterHeader, AfterArray, AfterArray2
    <3>3. /\ \A l \in 0 .. FirstLba - 1 : dev'[l] # Old
          /\ dev'[0] = Mbr /\ dev'[1] = Header(1, LastLba, 2)
          /\ \A i \in 0 .. Arrays - 1 : dev'[2 + i] = Entries(i)
          /\ \A i \in 0 .. Arrays - 1 : dev'[BackupArray + i] = Entries(i)
      BY <1>2, <3>1, <3>2
    <3> QED  BY <1>1, <2>3, <2>4, <3>1, <3>3, GeometryFixed DEF IInv, StepInv, TableInv,
             LoaderInv, AfterWipe, AfterMbr, AfterHeader, AfterArray, AfterArray2, AfterTable,
             Old, Mbr, Entries, h
  <2> QED  BY <2>3, <2>4, FailureKeeps
<1> QED  BY <1>3, <1>4, <1>5, <1>6, <1>7, <1>8

LEMMA FlushKeeps == IInv /\ Flush => IInv'
<1> SUFFICES ASSUME IInv, Flush PROVE IInv'
  OBVIOUS
<1>1. UNCHANGED <<job, dev, at>> /\ pc = "flush" /\ Fitting /\ TypeOK
  BY DEF Flush, IInv, StepInv
<1>2. \/ pc' = "failed"
      \/ pc' = "loader" /\ job.ntfs
      \/ pc' = "fat" /\ ~job.ntfs
  BY DEF Flush
<1>3. TypeOK'
  BY <1>1, <1>2, GeometryFixed DEF TypeOK, Steps
<1>4. CASE pc' = "failed"
  BY <1>3, <1>4, FailureKeeps
<1>5. CASE pc' \in {"loader", "fat"}
  BY <1>1, <1>2, <1>3, <1>5, GeometryFixed DEF IInv, StepInv, TableInv, LoaderInv,
     AfterWipe, AfterMbr, AfterHeader, AfterArray, AfterArray2, AfterTable
<1> QED  BY <1>2, <1>4, <1>5

\* A write between the first partition's start and the backup table.
LEMMA DataKeeps ==
    ASSUME IInv, Fitting, pc \in {"loader", "fat", "ntfs"}, UNCHANGED job, TypeOK',
           pc' \in {"fat", "ntfs"}, pc' = "fat" => ~job.ntfs, pc' = "ntfs" => job.ntfs,
           \A l \in 0 .. Total - 1 : l < FirstLba \/ l >= BackupArray => dev'[l] = dev[l],
           LoaderInv'
    PROVE  IInv'
<1>1. /\ Total \in Nat /\ Arrays \in Nat \ {0} /\ FirstLba \in Nat
      /\ FirstLba >= 2 + Arrays /\ FirstLba <= BackupArray
      /\ BackupArray \in Nat /\ LastLba = BackupArray + Arrays /\ LastLba = Total - 1
  BY Geometry
<1>2. /\ \A l \in 0 .. FirstLba - 1 : dev[l] # Old
      /\ dev[0] = Mbr /\ dev[1] = Header(1, LastLba, 2)
      /\ \A i \in 0 .. Arrays - 1 : dev[2 + i] = Entries(i)
      /\ \A i \in 0 .. Arrays - 1 : dev[BackupArray + i] = Entries(i)
      /\ dev[LastLba] = Header(LastLba, 1, BackupArray)
  BY DEF IInv, TableInv, AfterWipe, AfterMbr, AfterHeader, AfterArray, AfterArray2, AfterTable
<1>3. /\ \A l \in 0 .. FirstLba - 1 : dev'[l] # Old
      /\ dev'[0] = Mbr /\ dev'[1] = Header(1, LastLba, 2)
      /\ \A i \in 0 .. Arrays - 1 : dev'[2 + i] = Entries(i)
  BY <1>1, <1>2
<1>4. /\ \A i \in 0 .. Arrays - 1 : dev'[BackupArray + i] = Entries(i)
      /\ dev'[LastLba] = Header(LastLba, 1, BackupArray)
  BY <1>1, <1>2
<1>5. TableInv'
  BY <1>3, <1>4, GeometryFixed DEF TableInv, Old, Mbr, Entries
<1>6. StepInv'
  BY GeometryFixed DEF StepInv
<1> QED  BY <1>5, <1>6 DEF IInv

LEMMA PutLoaderKeeps == IInv /\ PutLoader => IInv'
<1> SUFFICES ASSUME IInv, PutLoader PROVE IInv'
  OBVIOUS
<1>1. /\ pc = "loader" /\ job.ntfs /\ Fitting /\ TypeOK
      /\ WriteAt(StartOf(2), Layout[2], All(Layout[2], Loader), "ntfs")
  BY DEF PutLoader, IInv, StepInv
<1> DEFINE a == StartOf(2)
           n == Layout[2]
<1>2. /\ a \in Nat /\ n \in Nat \ {0} /\ FirstLba \in Nat /\ FirstLba <= a
      /\ EndOf(2) = a + n - 1 /\ a + n <= BackupArray
      /\ Total \in Nat /\ BackupArray \in Nat /\ BackupArray <= Total
  BY <1>1, Geometry
<1>3. WriteAt(a, n, All(n, Loader), "ntfs")
  BY <1>1
<1> HIDE DEF a, n
<1>4. \A i \in 0 .. n - 1 : All(n, Loader)[i] = Loader /\ Loader.kind \in Kinds
  BY DEF All, Loader, Kinds
<1>5. a + n <= Total /\ "ntfs" \in Steps /\ \A i \in 0 .. n - 1 : All(n, Loader)[i].kind \in Kinds
  BY <1>2, <1>4 DEF Steps
<1>6. /\ TypeOK' /\ UNCHANGED <<job, at>>
      /\ \/ pc' = "failed"
         \/ /\ pc' = "ntfs"
            /\ \A l \in 0 .. Total - 1 :
                 IF l \in a .. a + n - 1 THEN dev'[l] = All(n, Loader)[l - a]
                                        ELSE dev'[l] = dev[l]
  BY <1>1, <1>2, <1>3, <1>5, WriteAtFacts
<1>7. CASE pc' = "failed"
  BY <1>6, <1>7, FailureKeeps
<1>8. CASE pc' # "failed"
  <2>1. \A l \in a .. EndOf(2) : dev'[l] = Loader
    BY <1>2, <1>4, <1>6, <1>8
  <2>2. LoaderInv'
    BY <1>6, <2>1, GeometryFixed DEF LoaderInv, Loader, a
  <2>3. \A l \in 0 .. Total - 1 : l < FirstLba \/ l >= BackupArray => dev'[l] = dev[l]
    BY <1>2, <1>6, <1>8
  <2> QED  BY <1>1, <1>6, <1>8, <2>2, <2>3, DataKeeps
<1> QED  BY <1>7, <1>8

\* No byte of the Partition window is in a sector outside the partition.
LEMMA WindowInPartition ==
    ASSUME Fitting, NEW pos \in Nat, pos < WindowLen
    PROVE  SectorAt(pos) \in StartOf(1) .. EndOf(1)
<1> DEFINE s == SectorSize
           n == FirstLba * s + pos
           q == n \div s
<1>1. /\ s \in Nat \ {0} /\ FirstLba \in Nat /\ Layout[1] \in Nat \ {0}
      /\ StartOf(1) = FirstLba /\ EndOf(1) = FirstLba + Layout[1] - 1
  BY JobFacts, Geometry DEF Fitting
<1>2. pos < Layout[1] * s
  BY DEF WindowLen
<1> HIDE DEF s
<1> DEFINE k == Layout[1]
<1>3. n \in Nat /\ n >= s * FirstLba /\ n < s * (FirstLba + k)
  <2> HIDE DEF k
  <2>1. k \in Nat /\ pos < k * s
    BY <1>1, <1>2 DEF k
  <2>2. s * (FirstLba + k) = FirstLba * s + k * s
    BY <1>1, <2>1
  <2>3. FirstLba * s \in Nat /\ k * s \in Nat /\ s * FirstLba = FirstLba * s
    BY <1>1, <2>1
  <2> QED  BY <2>1, <2>2, <2>3
<1> HIDE DEF n
<1>4. q \in Int /\ n % s \in 0 .. s - 1 /\ n = s * q + (n % s)
  BY <1>1, <1>3, DivMod
<1> HIDE DEF q
<1>5. ~(q < FirstLba)
  <2> SUFFICES ASSUME q < FirstLba PROVE FALSE
    OBVIOUS
  <2>1. s * q + s <= s * FirstLba
    BY <1>1, <1>4, MultipleStep
  <2> QED  BY <1>1, <1>3, <1>4, <2>1
<1>6. ~(q > FirstLba + k - 1)
  <2> HIDE DEF k
  <2> DEFINE e == FirstLba + k
  <2> SUFFICES ASSUME q > FirstLba + k - 1 PROVE FALSE
    OBVIOUS
  <2>1. e \in Int /\ q > e - 1
    BY <1>1 DEF k
  <2>2. n < s * e
    BY <1>3
  <2> HIDE DEF e
  <2>3. CASE q = e
    BY <1>1, <1>4, <2>1, <2>2, <2>3
  <2>4. CASE e < q
    <3>1. s * e + s <= s * q
      BY <1>1, <1>4, <2>1, <2>4, MultipleStep
    <3> QED  BY <1>1, <1>4, <2>1, <2>2, <3>1
  <2> QED  BY <1>4, <2>1, <2>3, <2>4
<1>7. SectorAt(pos) = q
  BY DEF SectorAt, q, n, s
<1> QED  BY <1>1, <1>4, <1>5, <1>6, <1>7

\* Writing one sector of the first partition.
LEMMA PartitionWriteKeeps ==
    ASSUME IInv, pc \in {"fat", "ntfs"}, NEW l \in StartOf(1) .. EndOf(1),
           dev' = Put(l, 1, All(1, Files)), UNCHANGED <<pc, job>>, at' \in Nat
    PROVE  IInv'
<1>1. Fitting /\ TypeOK
  BY DEF IInv, StepInv
<1>2. /\ StartOf(1) = FirstLba /\ FirstLba \in Nat /\ EndOf(1) \in Int
      /\ EndOf(1) < BackupArray /\ BackupArray \in Nat /\ Total \in Nat /\ BackupArray <= Total
      /\ job.ntfs => StartOf(2) = EndOf(1) + 1 /\ EndOf(2) < BackupArray /\ EndOf(2) \in Int
  BY <1>1, Geometry
<1>3. l \in Nat /\ l + 1 <= Total /\ FirstLba <= l /\ l <= EndOf(1)
  BY <1>2
<1>4. \A i \in 0 .. 1 - 1 : All(1, Files)[i].kind \in Kinds
  BY DEF All, Files, Kinds
<1>5. /\ DOMAIN dev' = 0 .. Total - 1
      /\ \A x \in DOMAIN dev' : dev'[x].kind \in Kinds
      /\ \A x \in 0 .. Total - 1 : x # l => dev'[x] = dev[x]
  <2>1. 1 \in Nat
    OBVIOUS
  <2>2. /\ DOMAIN dev' = 0 .. Total - 1
        /\ \A x \in DOMAIN dev' : dev'[x].kind \in Kinds
        /\ \A x \in 0 .. Total - 1 :
             IF x \in l .. l + 1 - 1 THEN dev'[x] = All(1, Files)[x - l]
                                    ELSE dev'[x] = dev[x]
    BY <1>1, <1>3, <1>4, <2>1, PutFacts
  <2> QED  BY <1>3, <2>2
<1>6. TypeOK'
  BY <1>1, <1>5, GeometryFixed DEF TypeOK
<1>7. LoaderInv'
  <2>1. ASSUME pc = "ntfs", job.ntfs
        PROVE  \A x \in StartOf(2) .. EndOf(2) : dev'[x] = Loader
    <3>1. \A x \in StartOf(2) .. EndOf(2) : dev[x] = Loader
      BY <2>1 DEF IInv, LoaderInv
    <3>2. \A x \in StartOf(2) .. EndOf(2) : x \in 0 .. Total - 1 /\ x # l
      BY <1>2, <1>3, <2>1
    <3> QED  BY <1>5, <3>1, <3>2
  <2> QED  BY <2>1, GeometryFixed DEF LoaderInv, Loader
<1>8. \A x \in 0 .. Total - 1 : x < FirstLba \/ x >= BackupArray => dev'[x] = dev[x]
  BY <1>2, <1>3, <1>5
<1>9. /\ pc' \in {"fat", "ntfs"} /\ (pc' = "fat" => ~job.ntfs) /\ (pc' = "ntfs" => job.ntfs)
  BY DEF IInv, StepInv
<1> QED  BY <1>1, <1>6, <1>7, <1>8, <1>9, DataKeeps

\* A transfer keeps the position a position.
LEMMA TransferFacts ==
    ASSUME TypeOK, NEW n \in Transfers
    PROVE  at + n \in Nat
<1>1. at \in Nat /\ SectorSize \in Nat \ {0}
  BY JobFacts DEF TypeOK
<1> QED  BY <1>1 DEF Transfers

LEMMA FatKeeps == IInv /\ (FatWrite \/ FatRead \/ FatSeek) => IInv'
<1> SUFFICES ASSUME IInv, FatWrite \/ FatRead \/ FatSeek PROVE IInv'
  OBVIOUS
<1>1. pc = "fat" /\ UNCHANGED <<pc, job>> /\ Fitting /\ TypeOK /\ at \in Nat
  BY DEF FatWrite, FatRead, FatSeek, IInv, StepInv, TypeOK
<1>2. CASE FatWrite
  <2>1. PICK n \in Transfers : /\ dev' = Put(SectorAt(at), 1, All(1, Files))
                              /\ at' = at + n
    BY <1>2 DEF FatWrite
  <2>2. at < WindowLen
    BY <1>2 DEF FatWrite
  <2>3. SectorAt(at) \in StartOf(1) .. EndOf(1) /\ at' \in Nat
    BY <1>1, <2>1, <2>2, WindowInPartition, TransferFacts
  <2> QED  BY <1>1, <2>1, <2>3, PartitionWriteKeeps
<1>3. CASE FatRead \/ FatSeek
  <2>1. at' \in Nat /\ UNCHANGED dev
    <3>1. CASE FatRead
      BY <1>1, <3>1, TransferFacts DEF FatRead
    <3>2. CASE FatSeek
      BY <3>2 DEF FatSeek
    <3> QED  BY <1>3, <3>1, <3>2
  <2>2. TypeOK'
    BY <1>1, <2>1, GeometryFixed DEF TypeOK
  <2>3. LoaderInv'
    BY <1>1, <2>1, GeometryFixed DEF LoaderInv
  <2>4. ~job.ntfs
    BY <1>1 DEF IInv, StepInv
  <2> QED  BY <1>1, <2>1, <2>2, <2>3, <2>4, DataKeeps
<1> QED  BY <1>2, <1>3

LEMMA NtfsWriteKeeps == IInv /\ NtfsWrite => IInv'
<1> SUFFICES ASSUME IInv, NtfsWrite PROVE IInv'
  OBVIOUS
<1>1. pc = "ntfs" /\ UNCHANGED <<pc, job, at>> /\ at \in Nat
  BY DEF NtfsWrite, IInv, TypeOK
<1>2. PICK l \in StartOf(1) .. EndOf(1) : dev' = Put(l, 1, All(1, Files))
  BY DEF NtfsWrite
<1> QED  BY <1>1, <1>2, PartitionWriteKeeps

LEMMA FinishKeeps == IInv /\ Finish => IInv'
<1> SUFFICES ASSUME IInv, Finish PROVE IInv'
  OBVIOUS
<1>1. /\ UNCHANGED <<job, dev, at>> /\ pc \in {"fat", "ntfs"} /\ pc' \in {"done", "failed"}
      /\ Fitting /\ TypeOK
  BY DEF Finish, IInv, StepInv
<1>2. TypeOK'
  BY <1>1, GeometryFixed DEF TypeOK, Steps
<1>3. CASE pc' = "failed"
  BY <1>2, <1>3, FailureKeeps
<1>4. CASE pc' = "done"
  <2>1. job.ntfs => pc = "ntfs"
    BY <1>1 DEF IInv, StepInv
  <2> QED  BY <1>1, <1>2, <1>4, <2>1, GeometryFixed DEF IInv, StepInv, TableInv, LoaderInv,
           AfterWipe, AfterMbr, AfterHeader, AfterArray, AfterArray2, AfterTable
<1> QED  BY <1>1, <1>3, <1>4

LEMMA StutterKeeps == IInv /\ UNCHANGED vars => IInv'
<1> SUFFICES ASSUME IInv, UNCHANGED vars PROVE IInv'
  OBVIOUS
<1>1. UNCHANGED <<pc, job, dev, at>>
  BY DEF vars
<1>2. TypeOK'
  BY <1>1, GeometryFixed DEF IInv, TypeOK
<1> QED  BY <1>1, <1>2, GeometryFixed DEF IInv, StepInv, TableInv, LoaderInv

\* The invariant holds in every behaviour of a copy-mode run.
THEOREM Invariance == Spec => []IInv
<1>1. Init => IInv
  BY Initially
<1>2. IInv /\ [Next]_vars => IInv'
  BY StutterKeeps, PlanKeeps, PlaceKeeps, TableKeeps, FlushKeeps, PutLoaderKeeps, FatKeeps,
     NtfsWriteKeeps, FinishKeeps DEF Next
<1> QED  BY <1>1, <1>2, PTL DEF Spec

-----------------------------------------------------------------------------
(* The properties. *)

\* TypeOK of GptDisk: no write leaves the target.
THEOREM TypeCorrect == Spec => []TypeOK
<1>1. IInv => TypeOK
  BY DEF IInv
<1> QED  BY <1>1, Invariance, PTL

\* NeverMisfit of GptDisk: the size checks of both layouts imply write_gpt()'s.
THEOREM LayoutsNeverMisfit == Spec => []NeverMisfit
<1>1. IInv => NeverMisfit
  BY DEF IInv, StepInv, NeverMisfit
<1> QED  BY <1>1, Invariance, PTL

\* FirmwareFindsTable of GptDisk: neither the FAT32 filesystem behind its
\* window nor the loader reaches a sector of the table.
THEOREM TableStaysReadable == Spec => []FirmwareFindsTable
<1>1. ASSUME IInv PROVE FirmwareFindsTable
  <2> SUFFICES ASSUME Filling PROVE FirmwareFindsTable
    BY DEF FirmwareFindsTable
  <2>1. Fitting
    BY <1>1 DEF IInv, StepInv, Filling
  <2>2. /\ dev[0] = Mbr /\ dev[1] = Header(1, LastLba, 2)
        /\ dev[LastLba] = Header(LastLba, 1, BackupArray)
        /\ \A i \in 0 .. Arrays - 1 : dev[2 + i] = Entries(i)
        /\ \A i \in 0 .. Arrays - 1 : dev[BackupArray + i] = Entries(i)
    BY <1>1 DEF IInv, TableInv, Filling, AfterWipe, AfterMbr, AfterHeader, AfterArray,
                AfterArray2, AfterTable
  <2>3. \A i \in DOMAIN Layout : FirstUsable <= StartOf(i) /\ EndOf(i) <= LastUsable
    <3>1. /\ FirstUsable <= StartOf(1) /\ EndOf(1) <= LastUsable
          /\ job.ntfs => FirstUsable <= StartOf(2) /\ EndOf(2) <= LastUsable
      <4>1. /\ FirstUsable \in Int /\ FirstUsable <= FirstLba
            /\ BackupArray \in Int /\ LastUsable = BackupArray - 1
        BY <2>1, LayoutFits, JobFacts DEF Fitting
      <4>2. /\ FirstLba \in Nat /\ Layout[1] \in Nat \ {0}
            /\ StartOf(1) = FirstLba /\ EndOf(1) = FirstLba + Layout[1] - 1
            /\ EndOf(1) < BackupArray
        BY <2>1, Geometry
      <4>3. ASSUME job.ntfs PROVE FirstUsable <= StartOf(2) /\ EndOf(2) <= LastUsable
        <5>1. /\ Layout[2] \in Nat \ {0} /\ StartOf(2) = EndOf(1) + 1
              /\ EndOf(2) = StartOf(2) + Layout[2] - 1 /\ EndOf(2) < BackupArray
          BY <2>1, <4>3, Geometry
        <5> QED  BY <4>1, <4>2, <5>1
      <4> QED  BY <4>1, <4>2, <4>3
    <3>2. DOMAIN Layout = IF job.ntfs THEN {1, 2} ELSE {1}
      BY <2>1, LayoutFits
    <3> QED  BY <3>1, <3>2
  <2>4. ASSUME NEW l \in {1, LastLba}
        PROVE  /\ dev[l].kind = "header" /\ dev[l].my = l
               /\ dev[dev[l].alt].kind = "header" /\ dev[dev[l].alt].alt = l
               /\ \A i \in 0 .. Arrays - 1 : dev[dev[l].arr + i] = Entries(i)
               /\ dev[l].first = FirstUsable /\ dev[l].last = LastUsable
    <3>1. /\ dev[1].kind = "header" /\ dev[1].my = 1 /\ dev[1].alt = LastLba
          /\ dev[1].arr = 2 /\ dev[1].first = FirstUsable /\ dev[1].last = LastUsable
      BY <2>2 DEF Header
    <3>2. /\ dev[LastLba].kind = "header" /\ dev[LastLba].my = LastLba
          /\ dev[LastLba].alt = 1 /\ dev[LastLba].arr = BackupArray
          /\ dev[LastLba].first = FirstUsable /\ dev[LastLba].last = LastUsable
      BY <2>2 DEF Header
    <3>3. CASE l = 1
      BY <2>2, <3>1, <3>2, <3>3
    <3>4. CASE l = LastLba
      BY <2>2, <3>1, <3>2, <3>4
    <3> QED  BY <3>3, <3>4
  <2> QED  BY <2>2, <2>3, <2>4 DEF FirmwareFindsTable
<1> QED  BY <1>1, Invariance, PTL

\* OldSignaturesGone of GptDisk.
THEOREM OldSignaturesStayGone == Spec => []OldSignaturesGone
<1>1. IInv => OldSignaturesGone
  BY DEF IInv, TableInv, OldSignaturesGone, Filling, AfterWipe, AfterMbr, AfterHeader,
         AfterArray, AfterArray2, AfterTable
<1> QED  BY <1>1, Invariance, PTL

\* LoaderSurvives of GptDisk: the NTFS partition ends before the loader.
THEOREM LoaderStays == Spec => []LoaderSurvives
<1>1. ASSUME IInv PROVE LoaderSurvives
  <2>1. Filling /\ job.ntfs => pc \in {"ntfs", "done"}
    BY <1>1 DEF IInv, StepInv, Filling
  <2> QED  BY <1>1, <2>1 DEF IInv, LoaderInv, LoaderSurvives
<1> QED  BY <1>1, Invariance, PTL
=============================================================================
