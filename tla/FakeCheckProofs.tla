--------------------------- MODULE FakeCheckProofs ---------------------------
(***************************************************************************)
(* Proofs about the counterfeit-drive check, for every block size, number  *)
(* of markers, range and drive.                                            *)
(***************************************************************************)
EXTENDS FakeCheck, WellFoundedInduction, TLAPS

-----------------------------------------------------------------------------
(* What rounding and division guarantee, for every divisor. *)

\* The quotient and the remainder, and that nothing else is one.
LEMMA DivMod ==
    ASSUME NEW d \in Nat \ {0}, NEW n \in Int
    PROVE  /\ n \div d \in Int
           /\ n % d \in 0 .. d - 1
           /\ n = d * (n \div d) + (n % d)
OBVIOUS

LEMMA MultipleAtLeast ==
    ASSUME NEW d \in Nat \ {0}, NEW k \in Int, k >= 1
    PROVE  d * k >= d
OBVIOUS

LEMMA DivModUnique ==
    ASSUME NEW d \in Nat \ {0}, NEW n \in Int, NEW q \in Int, NEW r \in 0 .. d - 1,
           n = d * q + r
    PROVE  n \div d = q /\ n % d = r
<1>. DEFINE k == n \div d
            m == n % d
<1>1. k \in Int /\ m \in 0 .. d - 1 /\ n = d * k + m
  BY DivMod
<1>. HIDE DEF k, m
<1>2. d * (q - k) = m - r
  BY <1>1
<1>3. CASE q - k >= 1
  BY <1>1, <1>2, <1>3, MultipleAtLeast
<1>4. CASE k - q >= 1
  BY <1>1, <1>2, <1>4, MultipleAtLeast
<1>5. q = k
  BY <1>1, <1>3, <1>4
<1>. QED
  BY <1>1, <1>5 DEF k, m

\* Aligned numbers are the multiples.
LEMMA AlignedIsMultiple ==
    ASSUME NEW d \in Nat \ {0}, NEW n \in Int
    PROVE  Aligned(n, d) <=> \E k \in Int : n = d * k
<1>1. ASSUME Aligned(n, d) PROVE \E k \in Int : n = d * k
  <2>. WITNESS n \div d \in Int
  <2>. QED
    BY <1>1, DivMod DEF Aligned
<1>2. ASSUME NEW k \in Int, n = d * k PROVE Aligned(n, d)
  <2>1. n = d * k + 0 /\ 0 \in 0 .. d - 1
    BY <1>2
  <2>. QED
    BY <2>1, DivModUnique DEF Aligned
<1>. QED
  BY <1>1, <1>2

LEMMA AlignedSum ==
    ASSUME NEW d \in Nat \ {0}, NEW m \in Int, NEW n \in Int,
           Aligned(m, d), Aligned(n, d)
    PROVE  Aligned(m + n, d) /\ Aligned(m - n, d)
<1>1. PICK j \in Int : m = d * j
  BY AlignedIsMultiple
<1>2. PICK k \in Int : n = d * k
  BY AlignedIsMultiple
<1>3. \E q \in Int : m + n = d * q
  <2>. WITNESS j + k \in Int
  <2>. QED
    BY <1>1, <1>2
<1>4. \E q \in Int : m - n = d * q
  <2>. WITNESS j - k \in Int
  <2>. QED
    BY <1>1, <1>2
<1>5. m + n \in Int /\ m - n \in Int
  OBVIOUS
<1>. HIDE <1>1, <1>2
<1>. QED
  BY <1>3, <1>4, <1>5, AlignedIsMultiple

\* Rounding down gives the last aligned number, rounding up the first.
LEMMA RoundDownFacts ==
    ASSUME NEW d \in Nat \ {0}, NEW n \in Int
    PROVE  /\ RoundDown(n, d) \in Int
           /\ RoundDown(n, d) <= n
           /\ n < RoundDown(n, d) + d
           /\ Aligned(RoundDown(n, d), d)
<1>1. /\ n \div d \in Int
      /\ n % d \in 0 .. d - 1
      /\ n = d * (n \div d) + (n % d)
  BY DivMod
<1>2. \E k \in Int : RoundDown(n, d) = d * k
  <2>. WITNESS n \div d \in Int
  <2>. QED
    BY <1>1 DEF RoundDown
<1>3. RoundDown(n, d) = n - (n % d)
  BY <1>1 DEF RoundDown
<1>4. RoundDown(n, d) \in Int
  BY <1>1, <1>3
<1>5. Aligned(RoundDown(n, d), d)
  BY <1>2, <1>4, AlignedIsMultiple
<1>. QED
  BY <1>1, <1>3, <1>4, <1>5

LEMMA RoundUpFacts ==
    ASSUME NEW d \in Nat \ {0}, NEW n \in Int
    PROVE  /\ RoundUp(n, d) \in Int
           /\ n <= RoundUp(n, d)
           /\ RoundUp(n, d) < n + d
           /\ Aligned(RoundUp(n, d), d)
BY RoundDownFacts DEF RoundUp

\* Different aligned numbers are at least an alignment apart.
LEMMA AlignedApart ==
    ASSUME NEW d \in Nat \ {0}, NEW m \in Int, NEW n \in Int,
           Aligned(m, d), Aligned(n, d), m < n
    PROVE  m + d <= n
<1>1. PICK j \in Int : m = d * j
  BY AlignedIsMultiple
<1>2. PICK k \in Int : n = d * k
  BY AlignedIsMultiple
<1>3. d * (k - j) = n - m
  BY <1>1, <1>2
<1>4. k - j >= 1
  <2>1. CASE k - j <= 0
    <3>1. d * (j - k) >= 0
      BY <2>1
    <3>2. d * (j - k) = m - n
      BY <1>1, <1>2
    <3>. QED
      BY <3>1, <3>2
  <2>. QED
    BY <2>1
<1>5. d * (k - j) >= d
  BY <1>4, MultipleAtLeast
<1>. QED
  BY <1>3, <1>5

\* A multiple of d that is less than another one is less by d at least.
LEMMA MultipleStep ==
    ASSUME NEW d \in Nat \ {0}, NEW i \in Int, NEW j \in Int, i < j
    PROVE  d * i + d <= d * j
<1> DEFINE k == j - i
<1>1. k \in Int /\ k >= 1
  OBVIOUS
<1>2. d * k >= d
  <2> HIDE DEF k
  <2> QED  BY <1>1, MultipleAtLeast
<1>3. d * j = d * i + d * k
  OBVIOUS
<1> QED  BY <1>2, <1>3

\* What is aligned rounds to itself.
LEMMA RoundDownAligned ==
    ASSUME NEW d \in Nat \ {0}, NEW n \in Int, Aligned(n, d)
    PROVE  RoundDown(n, d) = n
<1> DEFINE r == RoundDown(n, d)
<1>1. r \in Int /\ r <= n /\ n < r + d /\ Aligned(r, d)
  BY RoundDownFacts
<1>2. ~(r < n)
  <2> HIDE DEF r
  <2> QED  BY <1>1, AlignedApart
<1> QED  BY <1>1, <1>2

-----------------------------------------------------------------------------
(* The positions of the markers. *)

\* A share of k in m of a length is at most the length.
LEMMA ShareInRange ==
    ASSUME NEW m \in Nat \ {0}, NEW k \in 0 .. m, NEW length \in Nat
    PROVE  /\ (length * k) \div m \in 0 .. length
           /\ k = m => (length * k) \div m = length
<1> DEFINE n == length * k
           x == n \div m
<1>1. n \in Int /\ 0 <= n /\ n <= m * length
  OBVIOUS
<1>2. /\ x \in Int
      /\ n % m \in 0 .. m - 1
      /\ n = m * x + (n % m)
  <2> HIDE DEF n
  <2> QED  BY <1>1, DivMod
<1>3. x >= 0
  <2> SUFFICES ASSUME x < 0 PROVE FALSE
    BY <1>2
  <2>1. m * x + m <= m * 0
    <3> HIDE DEF x, n
    <3> QED  BY <1>2, MultipleStep
  <2> HIDE DEF x, n
  <2> QED  BY <2>1, <1>1, <1>2
<1>4. x <= length
  <2> SUFFICES ASSUME length < x PROVE FALSE
    BY <1>2
  <2>1. m * length + m <= m * x
    <3> HIDE DEF x, n
    <3> QED  BY <1>2, MultipleStep
  <2> HIDE DEF x, n
  <2> QED  BY <2>1, <1>1, <1>2
<1>5. k = m => x = length
  <2> SUFFICES ASSUME k = m PROVE x = length
    OBVIOUS
  <2>1. n = m * length + 0
    OBVIOUS
  <2> HIDE DEF n
  <2> QED  BY <2>1, <1>1, DivModUnique
<1> HIDE DEF x
<1> QED  BY <1>2, <1>3, <1>4, <1>5 DEF x

Ranged == start \in Nat /\ end \in Nat /\ ~TooShort

\* A range that is not too short holds a whole block, so that Last - First does
\* not underflow.
LEMMA EndsInRange ==
    ASSUME Ranged
    PROVE  /\ First \in Nat /\ Last \in Nat
           /\ Aligned(First, BlockSize) /\ Aligned(Last, BlockSize)
           /\ start <= First /\ First <= Last /\ Last + BlockSize <= end
<1> USE BlockSizeAssumption
<1> DEFINE d == RoundDown(end, BlockSize)
<1>1. /\ First \in Int /\ start <= First /\ First < start + BlockSize
      /\ Aligned(First, BlockSize)
  BY RoundUpFacts DEF Ranged, First
<1>2. d \in Int /\ d <= end /\ end < d + BlockSize /\ Aligned(d, BlockSize)
  BY RoundDownFacts DEF Ranged
<1>3. Aligned(BlockSize, BlockSize)
  <2>1. BlockSize = BlockSize * 1
    OBVIOUS
  <2> QED  BY <2>1, AlignedIsMultiple
<1>4. Last \in Int /\ Last = d - BlockSize
  BY <1>2 DEF Last
<1>5. Aligned(Last, BlockSize)
  <2> HIDE DEF d
  <2> QED  BY <1>2, <1>3, <1>4, AlignedSum
<1>6. end - start >= 2 * BlockSize /\ start \in Nat /\ end \in Nat
  BY DEF Ranged, TooShort
<1>7. First < Last + BlockSize
  <2> HIDE DEF d
  <2> QED  BY <1>1, <1>2, <1>4, <1>6
<1>8. ~(Last < First)
  BY <1>1, <1>4, <1>5, <1>7, AlignedApart
<1> HIDE DEF d
<1> QED  BY <1>1, <1>2, <1>4, <1>5, <1>6, <1>8

\* Markers are whole aligned blocks of the range, the last block always is one.
LEMMA PositionsInRange ==
    ASSUME Ranged
    PROVE  /\ \A p \in Positions : /\ p \in Nat /\ Aligned(p, BlockSize)
                                   /\ start <= p /\ p + BlockSize <= end
           /\ Last \in Positions
<1> USE BlockSizeAssumption, MarkersAssumption
<1>1. /\ First \in Nat /\ Last \in Nat
      /\ Aligned(First, BlockSize) /\ Aligned(Last, BlockSize)
      /\ start <= First /\ First <= Last /\ Last + BlockSize <= end
  BY EndsInRange
<1>2. ASSUME NEW k \in 0 .. MARKERS
      PROVE  /\ At(k) \in Nat /\ Aligned(At(k), BlockSize)
             /\ First <= At(k) /\ At(k) <= Last
             /\ k = MARKERS => At(k) = Last
  <2> DEFINE length == Last - First
             x == (length * k) \div MARKERS
             y == First + x
  <2>1. length \in Nat
    BY <1>1
  <2>2. x \in 0 .. length /\ (k = MARKERS => x = length)
    <3> HIDE DEF length
    <3> QED  BY <2>1, ShareInRange
  <2>3. y \in Int /\ First <= y /\ y <= Last /\ (k = MARKERS => y = Last)
    <3> HIDE DEF x
    <3> QED  BY <1>1, <2>2
  <2>4. At(k) = RoundDown(y, BlockSize)
    BY DEF At
  <2> HIDE DEF y
  <2>5. At(k) \in Int /\ At(k) <= y /\ y < At(k) + BlockSize /\ Aligned(At(k), BlockSize)
    BY <2>3, <2>4, RoundDownFacts
  <2>6. ~(At(k) < First)
    BY <1>1, <2>3, <2>5, AlignedApart
  <2>7. k = MARKERS => At(k) = Last
    BY <1>1, <2>3, <2>4, RoundDownAligned
  <2> QED  BY <1>1, <2>3, <2>5, <2>6, <2>7
<1>3. Last \in Positions
  BY <1>2 DEF Positions
<1>4. ASSUME NEW p \in Positions
      PROVE  p \in Nat /\ Aligned(p, BlockSize) /\ start <= p /\ p + BlockSize <= end
  <2>1. PICK k \in 0 .. MARKERS : p = At(k)
    BY DEF Positions
  <2> QED  BY <1>1, <1>2, <2>1 DEF Ranged
<1> QED  BY <1>3, <1>4

LEMMA BlocksApart ==
    ASSUME Ranged, NEW p \in Positions, NEW q \in Positions,
           NEW a \in Block(p), a \in Block(q)
    PROVE  p = q
<1> USE BlockSizeAssumption
<1>1. p \in Int /\ q \in Int /\ Aligned(p, BlockSize) /\ Aligned(q, BlockSize)
  BY PositionsInRange
<1>2. a \in Int /\ p <= a /\ a < p + BlockSize /\ q <= a /\ a < q + BlockSize
  BY <1>1 DEF Block
<1>3. ~(p < q) /\ ~(q < p)
  BY <1>1, <1>2, AlignedApart
<1> QED  BY <1>1, <1>3

\* Shares grow with k, from one to the next by little more than length / m.
LEMMA ShareStep ==
    ASSUME NEW m \in Nat \ {0}, NEW length \in Nat, NEW i \in Nat, NEW j \in Nat, i <= j
    PROVE  /\ (length * i) \div m <= (length * j) \div m
           /\ j = i + 1 => m * ((length * j) \div m - (length * i) \div m - 1) <= length
<1> DEFINE a == length * i
           b == length * j
           q == a \div m
           r == b \div m
<1>1. a \in Int /\ b \in Int /\ a <= b /\ (j = i + 1 => b = a + length)
  <2>1. j - i \in Nat /\ b = a + length * (j - i)
    OBVIOUS
  <2>2. length * (j - i) >= 0
    BY <2>1
  <2> QED  BY <2>1, <2>2
<1> HIDE DEF a, b
<1>2. q \in Int /\ a % m \in 0 .. m - 1 /\ a = m * q + (a % m)
  BY <1>1, DivMod
<1>3. r \in Int /\ b % m \in 0 .. m - 1 /\ b = m * r + (b % m)
  BY <1>1, DivMod
<1> HIDE DEF q, r
<1>4. q <= r
  <2> SUFFICES ASSUME r < q PROVE FALSE
    BY <1>2, <1>3
  <2>1. m * r + m <= m * q
    BY <1>2, <1>3, MultipleStep
  <2> QED  BY <2>1, <1>1, <1>2, <1>3
<1>5. ASSUME j = i + 1 PROVE m * (r - q - 1) <= length
  <2>1. m * (r - q - 1) = m * r - m * q - m
    BY <1>2, <1>3
  <2>2. m * r \in Int /\ m * q \in Int
    BY <1>2, <1>3
  <2> QED  BY <2>1, <2>2, <1>1, <1>2, <1>3, <1>5
<1> QED  BY <1>4, <1>5 DEF q, r, a, b

LEMMA LeastNatural ==
    ASSUME NEW T \in SUBSET Nat, T # {}
    PROVE  \E x \in T : \A y \in T : x <= y
<1> DEFINE R == OpToRel(<, Nat)
<1>1. PICK x \in T : \A y \in T : <<y, x>> \notin R
  <2>1. IsWellFoundedOn(R, Nat)
    BY NatLessThanWellFounded
  <2> HIDE DEF R
  <2> QED  BY <2>1, WFMin
<1>2. \A y \in T : y < x => <<y, x>> \in R
  BY DEF OpToRel
<1> HIDE DEF R
<1>3. \A y \in T : y \in Nat /\ x \in Nat /\ ~(y < x)
  BY <1>1, <1>2
<1>4. \A y \in T : x <= y
  BY <1>3
<1> QED  BY <1>4

\* Between two markers with no other in between lie no more than one gap and one
\* block.
LEMMA GapBound ==
    ASSUME Ranged, NEW g \in Positions, NEW b \in Positions, g < b,
           \A q \in Positions : q < b => q <= g
    PROVE  MARKERS * (b - g - BlockSize) <= end - start
<1> USE BlockSizeAssumption, MarkersAssumption
<1> DEFINE length == Last - First
           Share(k) == (length * k) \div MARKERS
<1>1. /\ First \in Nat /\ Last \in Nat /\ Aligned(First, BlockSize)
      /\ start <= First /\ First <= Last /\ Last + BlockSize <= end
      /\ start \in Nat /\ end \in Nat
  BY EndsInRange DEF Ranged
<1>2. length \in Nat
  BY <1>1
<1>3. ASSUME NEW k \in 0 .. MARKERS
      PROVE  /\ Share(k) \in Int /\ At(k) \in Int /\ Aligned(At(k), BlockSize)
             /\ At(k) <= First + Share(k) /\ First + Share(k) < At(k) + BlockSize
             /\ At(k) \in Positions
  <2>1. Share(k) \in Int
    <3> HIDE DEF length
    <3> QED  BY <1>2, ShareInRange
  <2>2. At(k) = RoundDown(First + Share(k), BlockSize)
    BY DEF At
  <2>3. First + Share(k) \in Int
    <3> HIDE DEF Share
    <3> QED  BY <1>1, <2>1
  <2> HIDE DEF Share
  <2> QED  BY <2>1, <2>2, <2>3, RoundDownFacts DEF Positions
<1>4. ASSUME NEW i \in 0 .. MARKERS, NEW j \in 0 .. MARKERS, i <= j
      PROVE  /\ Share(i) <= Share(j) /\ At(i) <= At(j)
             /\ j = i + 1 => MARKERS * (Share(j) - Share(i) - 1) <= length
  <2>1. Share(i) <= Share(j) /\ (j = i + 1 => MARKERS * (Share(j) - Share(i) - 1) <= length)
    <3> HIDE DEF length
    <3> QED  BY <1>2, <1>4, ShareStep
  <2> HIDE DEF Share
  <2>2. ~(At(j) < At(i))
    <3> SUFFICES ASSUME At(j) < At(i) PROVE FALSE
      OBVIOUS
    <3>1. At(j) + BlockSize <= At(i)
      BY <1>3, AlignedApart
    <3> QED  BY <3>1, <2>1, <1>1, <1>3
  <2> QED  BY <2>1, <2>2, <1>3
<1>5. At(0) <= g
  <2>1. PICK i \in 0 .. MARKERS : g = At(i)
    BY DEF Positions
  <2> HIDE DEF Share
  <2> QED  BY <2>1, <1>4
<1>6. PICK j \in 0 .. MARKERS : b = At(j)
  BY DEF Positions
<1>7. PICK n \in 0 .. MARKERS : At(n) >= b /\ \A k \in 0 .. MARKERS : At(k) >= b => n <= k
  <2> DEFINE T == {k \in 0 .. MARKERS : At(k) >= b}
  <2>1. T \in SUBSET Nat /\ j \in T
    BY <1>3, <1>6
  <2>2. PICK x \in T : \A y \in T : x <= y
    <3> HIDE DEF T
    <3> QED  BY <2>1, LeastNatural
  <2> QED  BY <2>2
<1> HIDE DEF Share
<1>8. g \in Int /\ b \in Int
  BY <1>3 DEF Positions
<1>9. n # 0
  BY <1>3, <1>5, <1>7, <1>8
<1>10. n - 1 \in 0 .. MARKERS /\ n = (n - 1) + 1 /\ n - 1 <= n
  BY <1>9
<1>11. At(n) = b
  BY <1>3, <1>4, <1>6, <1>7, <1>8
<1>12. At(n - 1) <= g
  <2>1. ~(At(n - 1) >= b)
    BY <1>7, <1>10
  <2> QED  BY <2>1, <1>3, <1>8, <1>10
<1> DEFINE x == b - g - BlockSize
           y == Share(n) - Share(n - 1) - 1
<1>13. x \in Int /\ y \in Int /\ x <= y
  <2>1. At(n - 1) \in Int /\ Share(n - 1) \in Int /\ First + Share(n - 1) < At(n - 1) + BlockSize
    BY <1>3, <1>10
  <2>2. Share(n) \in Int /\ b <= First + Share(n)
    BY <1>3, <1>11
  <2> QED  BY <2>1, <2>2, <1>1, <1>8, <1>12
<1>14. MARKERS * y <= length
  BY <1>4, <1>10
<1>15. MARKERS * x <= MARKERS * y
  <2> HIDE DEF x, y
  <2>1. x < y => MARKERS * x + MARKERS <= MARKERS * y
    BY <1>13, MultipleStep
  <2> QED  BY <2>1, <1>13
<1>16. MARKERS * x \in Int /\ MARKERS * y \in Int
  <2> HIDE DEF x, y
  <2> QED  BY <1>13
<1> HIDE DEF y
<1>17. MARKERS * x <= end - start
  <2> HIDE DEF x
  <2> QED  BY <1>1, <1>2, <1>14, <1>15, <1>16
<1> QED  BY <1>17

-----------------------------------------------------------------------------
(* What writing a marker does to the drive. *)

LEMMA PlaceFacts ==
    ASSUME drive \in Drive, NEW a \in Nat
    PROVE  /\ Place(a) \in 0 .. drive.real - 1
           /\ Place(a) \in Addr
           /\ a < drive.real => Place(a) = a
<1> USE MaxSizeAssumption, BlockSizeAssumption
<1> DEFINE r == drive.real
<1>1. r \in Nat \ {0} /\ r <= MaxSize
  BY DEF Drive
<1>2. Place(a) = a % r
  BY DEF Place
<1> HIDE DEF r
<1>3. a % r \in 0 .. r - 1
  BY <1>1, DivMod
<1>4. a < r => a % r = a
  <2> SUFFICES ASSUME a < r PROVE a % r = a
    OBVIOUS
  <2>1. a = r * 0 + a /\ a \in 0 .. r - 1
    BY <1>1
  <2> QED  BY <2>1, <1>1, DivModUnique
<1> QED  BY <1>1, <1>2, <1>3, <1>4 DEF Addr, r

\* A drive stores a block at least: no marker is laid over itself.
LEMMA PlacesApart ==
    ASSUME drive \in Drive, NEW p \in Nat, NEW a \in Block(p), NEW b \in Block(p),
           Place(a) = Place(b)
    PROVE  a = b
<1> USE BlockSizeAssumption
<1> DEFINE r == drive.real
           i == a \div r
           j == b \div r
<1>1. r \in Nat \ {0} /\ BlockSize <= r
  BY DEF Drive
<1>2. a \in Nat /\ b \in Nat /\ a - b < BlockSize /\ b - a < BlockSize
  BY DEF Block
<1>3. a % r = b % r
  BY DEF Place
<1> HIDE DEF r
<1>4. i \in Int /\ a % r \in 0 .. r - 1 /\ a = r * i + (a % r)
  BY <1>1, <1>2, DivMod
<1>5. j \in Int /\ b % r \in 0 .. r - 1 /\ b = r * j + (b % r)
  BY <1>1, <1>2, DivMod
<1> HIDE DEF i, j
<1>6. ~(i < j)
  <2> SUFFICES ASSUME i < j PROVE FALSE
    OBVIOUS
  <2>1. r * i + r <= r * j
    BY <1>1, <1>4, <1>5, MultipleStep
  <2> QED  BY <2>1, <1>1, <1>2, <1>3, <1>4, <1>5
<1>7. ~(j < i)
  <2> SUFFICES ASSUME j < i PROVE FALSE
    OBVIOUS
  <2>1. r * j + r <= r * i
    BY <1>1, <1>4, <1>5, MultipleStep
  <2> QED  BY <2>1, <1>1, <1>2, <1>3, <1>4, <1>5
<1>8. i = j
  BY <1>4, <1>5, <1>6, <1>7
<1> QED  BY <1>3, <1>4, <1>5, <1>8

\* A byte changes to one of the marker's, and only where the marker is kept.
LEMMA LaidBytes ==
    ASSUME NEW p \in Nat, NEW n \in 0 .. BlockSize, NEW x \in Addr
    PROVE  /\ Laid(p, n)[x] = store[x] \/ Laid(p, n)[x] \in Block(p)
           /\ (\A a \in Block(p) : Kept(a) => Place(a) # x) => Laid(p, n)[x] = store[x]
<1> USE BlockSizeAssumption
<1>1. p .. p + n - 1 \subseteq Block(p)
  BY DEF Block
<1>2. CASE \E a \in p .. p + n - 1 : Kept(a) /\ Place(a) = x
  <2>1. Laid(p, n)[x] = CHOOSE a \in p .. p + n - 1 : Kept(a) /\ Place(a) = x
    BY <1>2 DEF Laid
  <2> QED  BY <1>1, <1>2, <2>1
<1>3. CASE ~\E a \in p .. p + n - 1 : Kept(a) /\ Place(a) = x
  <2>1. Laid(p, n)[x] = store[x]
    BY <1>3 DEF Laid
  <2> QED  BY <2>1
<1> QED  BY <1>2, <1>3

\* All of a marker's bytes that are kept are there once it was written.
LEMMA LaidWhole ==
    ASSUME drive \in Drive, NEW p \in Nat, NEW a \in Block(p), Kept(a)
    PROVE  Laid(p, BlockSize)[Place(a)] = a
<1> USE BlockSizeAssumption
<1> DEFINE x == Place(a)
           Hit(b) == Kept(b) /\ Place(b) = x
<1>1. a \in Nat
  BY DEF Block
<1>2. x \in Addr
  BY <1>1, PlaceFacts
<1>3. Hit(a) /\ a \in p .. p + BlockSize - 1
  BY DEF Block
<1>4. Laid(p, BlockSize)[x] = CHOOSE b \in p .. p + BlockSize - 1 : Hit(b)
  BY <1>2, <1>3 DEF Laid
<1>5. (CHOOSE b \in p .. p + BlockSize - 1 : Hit(b)) \in Block(p)
    /\ Hit(CHOOSE b \in p .. p + BlockSize - 1 : Hit(b))
  <2> HIDE DEF Hit
  <2> QED  BY <1>3 DEF Block
<1> QED  BY <1>4, <1>5, PlacesApart

LEMMA LaidType ==
    ASSUME TypeOK, NEW p \in Nat, p + BlockSize <= MaxSize, NEW n \in 0 .. BlockSize
    PROVE  Laid(p, n) \in [Addr -> {Old} \cup Addr]
<1> USE BlockSizeAssumption, MaxSizeAssumption
<1>1. Block(p) \subseteq Addr
  BY DEF Block, Addr
<1>2. \A x \in Addr : Laid(p, n)[x] \in {Old} \cup Addr
  BY <1>1, LaidBytes DEF TypeOK
<1>3. Laid(p, n) = [x \in Addr |-> Laid(p, n)[x]]
  BY DEF Laid
<1> QED  BY <1>2, <1>3

-----------------------------------------------------------------------------
(* The inductive invariant. *)

\* probe() is writing, is reading, or has found out.
Judged  == verdict \in {"pass", "counterfeit"}
Reading == pc = "read" \/ Judged
Reliable == ~drive.flaky

\* No two markers are kept in one place.
NoShare ==
    \A p, q \in Positions : p # q =>
        \A a \in Block(p), b \in Block(q) : Kept(a) /\ Kept(b) => Place(a) # Place(b)

RangeInv ==
    /\ TypeOK
    /\ start <= end /\ end <= MaxSize
    /\ pc # "check" /\ verdict \notin {"skipped", "error"} => ~TooShort

PhaseInv ==
    /\ pc = "done" <=> verdict # "none"
    /\ verdict = "error" => ~Reliable
    /\ pc = "check" => wrote = {} /\ ok = {}
    /\ pc = "write" => ok = {} /\ wrote \cap todo = {}
    /\ Judged => todo = {}
    /\ todo \subseteq Positions /\ wrote \subseteq Positions /\ ok \subseteq Positions

StoreInv ==
    \A x \in Addr : store[x] # Old =>
        ~TooShort /\ \E p \in Positions : store[x] \in Block(p)

WrittenInv ==
    /\ NoShare => \A p \in wrote : \A a \in Block(p) : Kept(a) => store[Place(a)] = a
    /\ Reliable /\ pc = "write" => Positions \subseteq wrote \cup todo
    /\ Reliable /\ Reading => Positions \subseteq wrote

OkInv ==
    /\ \A p \in ok : Intact(p)
    /\ Reliable /\ Reading => \A p \in Positions \ todo : Intact(p) => p \in ok

VerdictInv ==
    /\ verdict = "pass" => Positions \subseteq ok
    /\ verdict = "counterfeit" =>
         /\ firstBad \in Positions \ ok
         /\ \A q \in Positions \ ok : firstBad <= q
         /\ lastGood # None => /\ lastGood \in Positions /\ lastGood < firstBad
                              /\ \A q \in Positions : q < firstBad => q <= lastGood

IInv == RangeInv /\ PhaseInv /\ StoreInv /\ WrittenInv /\ OkInv /\ VerdictInv

LEMMA Initially == Init => IInv
<1> SUFFICES ASSUME Init PROVE IInv
  OBVIOUS
<1> USE BlockSizeAssumption, MaxSizeAssumption
<1>1. RangeInv
  BY DEF Init, RangeInv, TypeOK, Old, None, Drive
<1>2. PhaseInv
  BY DEF Init, PhaseInv, Judged
<1>3. StoreInv
  BY DEF Init, StoreInv
<1>4. WrittenInv
  BY DEF Init, WrittenInv, Reading, Judged
<1>5. OkInv
  BY DEF Init, OkInv, Reading, Judged
<1>6. VerdictInv
  BY DEF Init, VerdictInv
<1> QED  BY <1>1, <1>2, <1>3, <1>4, <1>5, <1>6 DEF IInv

\* The layout of the markers and of the drive never changes.
Fixed == UNCHANGED <<drive, start, end>>

LEMMA LayoutFixed ==
    ASSUME Fixed
    PROVE  /\ Positions' = Positions
           /\ TooShort' = TooShort
           /\ Reliable' = Reliable
           /\ \A a : Kept(a)' = Kept(a) /\ Place(a)' = Place(a)
           /\ NoShare' = NoShare
<1>1. First' = First /\ Last' = Last
  BY DEF Fixed, First, Last
<1>2. \A k : At(k)' = At(k)
  BY <1>1 DEF At
<1>3. Positions' = Positions
  BY <1>2 DEF Positions
<1>4. TooShort' = TooShort
  BY DEF Fixed, TooShort
<1>5. Reliable' = Reliable
  BY Zenon DEF Fixed, Reliable
<1>6. \A a : Kept(a)' = Kept(a) /\ Place(a)' = Place(a)
  BY DEF Fixed, Kept, Place
<1>7. NoShare' = NoShare
  BY <1>3, <1>6 DEF NoShare
<1> QED  BY <1>3, <1>4, <1>5, <1>6, <1>7

LEMMA IntactFixed ==
    ASSUME Fixed, UNCHANGED store
    PROVE  \A p : Intact(p)' = Intact(p)
BY LayoutFixed DEF Intact

LEMMA InRange ==
    ASSUME RangeInv, ~TooShort
    PROVE  /\ Ranged
           /\ Positions \subseteq Addr
           /\ \A p \in Positions : p \in Nat /\ p + BlockSize <= MaxSize
<1> USE BlockSizeAssumption, MaxSizeAssumption
<1>1. Ranged /\ end <= MaxSize
  BY DEF RangeInv, TypeOK, Ranged
<1>2. \A p \in Positions : p \in Nat /\ p + BlockSize <= end
  BY <1>1, PositionsInRange
<1>3. \A p \in Positions : p \in Nat /\ p + BlockSize <= MaxSize
  BY <1>1, <1>2 DEF RangeInv, TypeOK
<1> QED  BY <1>1, <1>3 DEF Addr

LEMMA StutterKeeps == IInv /\ UNCHANGED vars => IInv'
<1> SUFFICES ASSUME IInv, UNCHANGED vars PROVE IInv'
  OBVIOUS
<1> USE DEF vars
<1>1. Fixed /\ UNCHANGED store
  BY DEF Fixed
<1>2. /\ Positions' = Positions /\ TooShort' = TooShort /\ Reliable' = Reliable
      /\ NoShare' = NoShare
      /\ \A a : Kept(a)' = Kept(a) /\ Place(a)' = Place(a)
  BY <1>1, LayoutFixed
<1>3. \A p : Intact(p)' = Intact(p)
  BY <1>1, IntactFixed
<1>4. RangeInv'
  BY <1>2 DEF IInv, RangeInv, TypeOK
<1>5. PhaseInv'
  BY <1>2 DEF IInv, PhaseInv, Judged
<1>6. StoreInv'
  BY <1>2 DEF IInv, StoreInv, Block
<1>7. WrittenInv'
  BY <1>2 DEF IInv, WrittenInv, Reading, Judged, Block
<1>8. OkInv'
  BY <1>2, <1>3 DEF IInv, OkInv, Reading, Judged
<1>9. VerdictInv'
  BY <1>2 DEF IInv, VerdictInv
<1> QED  BY <1>4, <1>5, <1>6, <1>7, <1>8, <1>9 DEF IInv

LEMMA CheckKeeps == IInv /\ Check => IInv'
<1> SUFFICES ASSUME IInv, Check PROVE IInv'
  OBVIOUS
<1>1. Fixed /\ UNCHANGED <<store, wrote, ok, lastGood, firstBad>>
  BY DEF Check, Fixed
<1>2. /\ Positions' = Positions /\ TooShort' = TooShort /\ Reliable' = Reliable
      /\ \A a : Kept(a)' = Kept(a) /\ Place(a)' = Place(a)
  BY <1>1, LayoutFixed
<1>3. pc = "check" /\ verdict = "none" /\ wrote = {} /\ ok = {} /\ todo \subseteq Positions
  BY DEF Check, IInv, PhaseInv
<1>4. \/ pc' = "done" /\ verdict' = "skipped" /\ todo' = todo
      \/ pc' = "write" /\ verdict' = verdict /\ todo' = Positions /\ ~TooShort
      \/ pc' = "done" /\ verdict' = "error" /\ todo' = todo /\ ~Reliable
  BY Zenon DEF Check, Reliable
<1>5. RangeInv'
  <2>1. ~TooShort => Positions \subseteq Addr
    BY InRange DEF IInv
  <2>2. TypeOK'
    BY <1>1, <1>3, <1>4, <2>1 DEF IInv, RangeInv, TypeOK, Fixed
  <2> QED  BY <1>1, <1>2, <1>4, <2>2 DEF IInv, RangeInv, Fixed
<1>6. PhaseInv'
  BY <1>1, <1>2, <1>3, <1>4 DEF PhaseInv, Judged
<1>7. StoreInv'
  BY <1>1, <1>2 DEF IInv, StoreInv, Block
<1>8. WrittenInv'
  BY <1>1, <1>2, <1>3, <1>4 DEF WrittenInv, Reading, Judged
<1>9. OkInv'
  BY <1>1, <1>3, <1>4 DEF OkInv, Reading, Judged
<1>10. VerdictInv'
  BY <1>4, <1>3 DEF VerdictInv
<1> QED  BY <1>5, <1>6, <1>7, <1>8, <1>9, <1>10 DEF IInv

LEMMA WriteMarkerKeeps == IInv /\ WriteMarker => IInv'
<1> SUFFICES ASSUME IInv, WriteMarker PROVE IInv'
  OBVIOUS
<1> USE BlockSizeAssumption, MaxSizeAssumption
<1>1. PICK p \in todo :
        /\ todo' = todo \ {p}
        /\ \/ store' = Laid(p, BlockSize) /\ wrote' = wrote \cup {p}
           \/ /\ drive.flaky
              /\ \E n \in 0 .. BlockSize - 1 : store' = Laid(p, n)
              /\ UNCHANGED wrote
  BY DEF WriteMarker
<1>2. /\ Fixed /\ UNCHANGED <<pc, ok, verdict, lastGood, firstBad>>
      /\ pc = "write" /\ ok = {} /\ verdict = "none" /\ wrote \cap todo = {}
  BY DEF WriteMarker, Fixed, IInv, PhaseInv
<1>3. /\ Positions' = Positions /\ TooShort' = TooShort /\ Reliable' = Reliable
      /\ NoShare' = NoShare
      /\ \A a : Kept(a)' = Kept(a) /\ Place(a)' = Place(a)
  BY <1>2, LayoutFixed
<1>4. ~TooShort /\ drive \in Drive
  BY <1>2 DEF IInv, RangeInv, TypeOK
<1>5. p \in Positions /\ p \notin wrote /\ wrote \subseteq Positions
  BY <1>2 DEF IInv, PhaseInv
<1>6. /\ p \in Nat /\ p + BlockSize <= MaxSize
      /\ Positions \subseteq Addr /\ \A q \in Positions : q \in Nat
  BY <1>4, <1>5, InRange DEF IInv
<1>7. PICK n \in 0 .. BlockSize :
        /\ store' = Laid(p, n)
        /\ \/ n = BlockSize /\ wrote' = wrote \cup {p}
           \/ wrote' = wrote /\ ~Reliable
  <2>1. CASE store' = Laid(p, BlockSize) /\ wrote' = wrote \cup {p}
    BY <2>1
  <2>2. CASE /\ drive.flaky
             /\ \E n \in 0 .. BlockSize - 1 : store' = Laid(p, n)
             /\ UNCHANGED wrote
    <3>1. wrote' = wrote /\ ~Reliable
      BY Zenon, <2>2 DEF Reliable
    <3> QED  BY <2>2, <3>1
  <2> QED  BY <1>1, <2>1, <2>2
<1>8. \A x \in Addr : store'[x] = store[x] \/ store'[x] \in Block(p)
  BY <1>6, <1>7, LaidBytes
<1>9. \/ n = BlockSize /\ wrote' = wrote \cup {p} /\ store' = Laid(p, BlockSize)
      \/ wrote' = wrote /\ ~Reliable
  BY <1>7
<1>10. RangeInv'
  <2>1. store' \in [Addr -> {Old} \cup Addr]
    BY <1>6, <1>7, LaidType DEF IInv, RangeInv
  <2>2. TypeOK'
    BY <1>1, <1>2, <1>5, <1>6, <2>1 DEF IInv, RangeInv, TypeOK, Fixed
  <2> QED  BY <1>2, <1>3, <1>4, <2>2 DEF IInv, RangeInv, Fixed
<1>11. PhaseInv'
  BY <1>1, <1>2, <1>3, <1>5, <1>9 DEF IInv, PhaseInv, Judged
<1>12. StoreInv'
  BY <1>3, <1>4, <1>5, <1>8 DEF IInv, StoreInv, Block
<1>13. WrittenInv'
  <2>1. ASSUME NoShare, NEW q \in wrote', NEW a \in Block(q), Kept(a)
        PROVE  store'[Place(a)] = a
    <3>1. q \in Positions /\ q \in Nat
      BY <1>5, <1>9, <1>6
    <3>2. a \in Nat
      BY <3>1 DEF Block
    <3>3. Place(a) \in Addr
      BY <1>4, <3>2, PlaceFacts
    <3>4. CASE q = p
      <4>1. store' = Laid(p, BlockSize)
        BY <1>5, <1>9, <3>4
      <4> QED  BY <1>4, <1>6, <2>1, <3>4, <4>1, LaidWhole
    <3>5. CASE q # p
      <4>1. q \in wrote
        BY <1>9, <3>5
      <4>2. \A b \in Block(p) : Kept(b) => Place(b) # Place(a)
        BY <1>5, <2>1, <3>1, <3>5 DEF NoShare
      <4>3. store'[Place(a)] = store[Place(a)]
        BY <1>6, <1>7, <3>3, <4>2, LaidBytes
      <4> QED  BY <2>1, <4>1, <4>3 DEF IInv, WrittenInv
    <3> QED  BY <3>4, <3>5
  <2>2. NoShare => \A q \in wrote' : \A a \in Block(q) : Kept(a) => store'[Place(a)] = a
    BY <2>1
  <2>3. Reliable => Positions \subseteq wrote' \cup todo'
    BY <1>1, <1>2, <1>9 DEF IInv, WrittenInv
  <2>4. ~Reading'
    BY <1>2 DEF Reading, Judged
  <2> QED  BY <1>2, <1>3, <2>2, <2>3, <2>4 DEF WrittenInv, Block
<1>14. OkInv'
  BY <1>2 DEF OkInv, Reading, Judged
<1>15. VerdictInv'
  BY <1>2 DEF VerdictInv
<1> QED  BY <1>10, <1>11, <1>12, <1>13, <1>14, <1>15 DEF IInv

LEMMA FlushKeeps == IInv /\ Flush => IInv'
<1> SUFFICES ASSUME IInv, Flush PROVE IInv'
  OBVIOUS
<1>1. /\ Fixed /\ UNCHANGED <<store, wrote, ok, verdict, lastGood, firstBad>>
      /\ pc = "write" /\ todo = {} /\ pc' = "read" /\ todo' = Positions
      /\ ok = {} /\ verdict = "none"
  BY DEF Flush, Fixed, IInv, PhaseInv
<1>2. /\ Positions' = Positions /\ TooShort' = TooShort /\ Reliable' = Reliable
      /\ NoShare' = NoShare
      /\ \A a : Kept(a)' = Kept(a) /\ Place(a)' = Place(a)
  BY <1>1, LayoutFixed
<1>3. ~TooShort /\ Positions \subseteq Addr
  BY <1>1, InRange DEF IInv, RangeInv
<1>4. RangeInv'
  BY <1>1, <1>2, <1>3 DEF IInv, RangeInv, TypeOK, Fixed
<1>5. PhaseInv'
  BY <1>1, <1>2 DEF IInv, PhaseInv, Judged
<1>6. StoreInv'
  BY <1>1, <1>2 DEF IInv, StoreInv, Block
<1>7. WrittenInv'
  BY <1>1, <1>2 DEF IInv, WrittenInv, Reading, Judged, Block
<1>8. OkInv'
  BY <1>1, <1>2 DEF OkInv
<1>9. VerdictInv'
  BY <1>1 DEF VerdictInv
<1> QED  BY <1>4, <1>5, <1>6, <1>7, <1>8, <1>9 DEF IInv

LEMMA ReadMarkerKeeps == IInv /\ ReadMarker => IInv'
<1> SUFFICES ASSUME IInv, ReadMarker PROVE IInv'
  OBVIOUS
<1>1. PICK p \in todo :
        /\ todo' = todo \ {p}
        /\ \/ ok' = IF p \in wrote /\ Intact(p) THEN ok \cup {p} ELSE ok
           \/ drive.flaky /\ UNCHANGED ok
  BY DEF ReadMarker
<1>2. /\ Fixed /\ UNCHANGED <<pc, store, wrote, verdict, lastGood, firstBad>>
      /\ pc = "read" /\ verdict = "none" /\ todo \subseteq Positions /\ ok \subseteq Positions
  BY DEF ReadMarker, Fixed, IInv, PhaseInv
<1>3. /\ Positions' = Positions /\ TooShort' = TooShort /\ Reliable' = Reliable
      /\ NoShare' = NoShare
      /\ \A a : Kept(a)' = Kept(a) /\ Place(a)' = Place(a)
  BY <1>2, LayoutFixed
<1>4. \A q : Intact(q)' = Intact(q)
  BY <1>2, IntactFixed
<1>5. /\ ok' = ok \/ (ok' = ok \cup {p} /\ Intact(p))
      /\ Reliable /\ p \in wrote /\ Intact(p) => p \in ok'
      /\ ok \subseteq ok'
  <2>1. CASE ok' = IF p \in wrote /\ Intact(p) THEN ok \cup {p} ELSE ok
    BY <2>1
  <2>2. CASE drive.flaky /\ UNCHANGED ok
    BY Zenon, <2>2 DEF Reliable
  <2> QED  BY <1>1, <2>1, <2>2
<1>6. ~TooShort /\ Positions \subseteq Addr
  BY <1>2, InRange DEF IInv, RangeInv
<1>7. RangeInv'
  <2>1. TypeOK'
    BY <1>1, <1>2, <1>5, <1>6 DEF IInv, RangeInv, TypeOK, Fixed
  <2> QED  BY <1>2, <1>3, <1>6, <2>1 DEF IInv, RangeInv, Fixed
<1>8. PhaseInv'
  BY <1>1, <1>2, <1>3, <1>5 DEF IInv, PhaseInv, Judged
<1>9. StoreInv'
  BY <1>2, <1>3 DEF IInv, StoreInv, Block
<1>10. WrittenInv'
  BY <1>2, <1>3 DEF IInv, WrittenInv, Reading, Judged, Block
<1>11. OkInv'
  <2>1. \A q \in ok' : Intact(q)
    BY <1>5 DEF IInv, OkInv
  <2>2. Reliable => Positions \subseteq wrote
    BY <1>2 DEF IInv, WrittenInv, Reading
  <2>3. ASSUME Reliable, NEW q \in Positions \ todo', Intact(q)
        PROVE  q \in ok'
    <3>1. q = p \/ q \in Positions \ todo
      BY <1>1
    <3>2. q \in Positions \ todo => q \in ok
      BY <1>2, <2>3 DEF IInv, OkInv, Reading
    <3> QED  BY <1>5, <2>2, <2>3, <3>1, <3>2
  <2> QED  BY <1>3, <1>4, <2>1, <2>3 DEF OkInv
<1>12. VerdictInv'
  BY <1>2 DEF VerdictInv
<1> QED  BY <1>7, <1>8, <1>9, <1>10, <1>11, <1>12 DEF IInv

LEMMA JudgeKeeps == IInv /\ (Pass \/ Accuse) => IInv'
<1> SUFFICES ASSUME IInv, Pass \/ Accuse PROVE IInv'
  OBVIOUS
<1>1. /\ Fixed /\ UNCHANGED <<store, todo, wrote, ok>>
      /\ pc = "read" /\ todo = {} /\ pc' = "done" /\ verdict = "none"
      /\ Judged'
  BY DEF Pass, Accuse, Fixed, Judged, IInv, PhaseInv
<1>2. /\ Positions' = Positions /\ TooShort' = TooShort /\ Reliable' = Reliable
      /\ NoShare' = NoShare
      /\ \A a : Kept(a)' = Kept(a) /\ Place(a)' = Place(a)
  BY <1>1, LayoutFixed
<1>3. \A q : Intact(q)' = Intact(q)
  BY <1>1, IntactFixed
<1>4. ~TooShort /\ Positions \subseteq Addr
  BY <1>1, InRange DEF IInv, RangeInv
<1>5. VerdictInv'
  <2>1. CASE Pass
    BY <2>1, <1>2 DEF Pass, VerdictInv
  <2>2. CASE Accuse
    BY <2>2, <1>2 DEF Accuse, VerdictInv
  <2> QED  BY <2>1, <2>2
<1>6. RangeInv'
  <2>1. UNCHANGED <<lastGood, firstBad>> \/
        (firstBad' \in Addr /\ (lastGood' = None \/ lastGood' \in Addr))
    BY <1>4 DEF Pass, Accuse
  <2>2. TypeOK'
    BY <1>1, <2>1 DEF IInv, RangeInv, TypeOK, Fixed, Judged
  <2> QED  BY <1>1, <1>2, <1>4, <2>2 DEF IInv, RangeInv, Fixed
<1>7. PhaseInv'
  BY <1>1, <1>2 DEF IInv, PhaseInv, Judged
<1>8. StoreInv'
  BY <1>1, <1>2 DEF IInv, StoreInv, Block
<1>9. WrittenInv'
  BY <1>1, <1>2 DEF IInv, WrittenInv, Reading, Block
<1>10. OkInv'
  BY <1>1, <1>2, <1>3 DEF IInv, OkInv, Reading
<1> QED  BY <1>5, <1>6, <1>7, <1>8, <1>9, <1>10 DEF IInv

\* The invariant holds in every behaviour of the check.
THEOREM Invariance == Spec => []IInv
<1>1. Init => IInv
  BY Initially
<1>2. IInv /\ [Next]_vars => IInv'
  BY StutterKeeps, CheckKeeps, WriteMarkerKeeps, FlushKeeps, ReadMarkerKeeps, JudgeKeeps
     DEF Next
<1> QED  BY <1>1, <1>2, PTL DEF Spec

-----------------------------------------------------------------------------
(* The properties. *)

\* TypeOK of FakeCheck: no marker is ever sent beyond the largest drive, since
\* all of them lie in the range.
THEOREM TypeCorrect == Spec => []TypeOK
<1>1. IInv => TypeOK
  BY DEF IInv, RangeInv
<1> QED  BY <1>1, Invariance, PTL

\* MarkersInsideRange of FakeCheck: the check of dd mode touches nothing that
\* the flash will not overwrite.
THEOREM MarkersStayInside == Spec => []MarkersInsideRange
<1>1. ASSUME IInv PROVE MarkersInsideRange
  <2> SUFFICES ASSUME NEW x \in Addr, store[x] # Old
               PROVE  LET block == RoundDown(store[x], BlockSize)
                      IN  start <= block /\ block + BlockSize <= end
    BY DEF MarkersInsideRange
  <2> USE BlockSizeAssumption
  <2> DEFINE a == store[x]
             block == RoundDown(a, BlockSize)
  <2>1. ~TooShort
    BY <1>1 DEF IInv, StoreInv
  <2>2. PICK p \in Positions : a \in Block(p)
    BY <1>1 DEF IInv, StoreInv
  <2>3. /\ p \in Nat /\ Aligned(p, BlockSize)
        /\ start <= p /\ p + BlockSize <= end
    BY <1>1, <2>1, InRange, PositionsInRange DEF IInv
  <2>4. a \in Int /\ p <= a /\ a < p + BlockSize
    BY <2>2, <2>3 DEF Block
  <2> HIDE DEF a
  <2>5. block \in Int /\ block <= a /\ a < block + BlockSize /\ Aligned(block, BlockSize)
    BY <2>4, RoundDownFacts
  <2> HIDE DEF block
  <2>6. ~(block < p) /\ ~(p < block)
    BY <2>3, <2>4, <2>5, AlignedApart
  <2>7. block = p
    BY <2>3, <2>5, <2>6
  <2> QED  BY <2>3, <2>7 DEF a, block
<1> QED  BY <1>1, Invariance, PTL

\* Markers of one drive do not share storage as long as it never wraps, or
\* stores the whole range.
LEMMA StraightDrive ==
    ASSUME RangeInv, ~TooShort, ~drive.wrap \/ end <= drive.real
    PROVE  NoShare /\ \A p \in Positions : \A a \in Block(p) : Kept(a) => Place(a) = a
<1> USE BlockSizeAssumption
<1>1. drive \in Drive /\ Ranged
  BY InRange DEF RangeInv, TypeOK
<1>2. drive.real \in Nat /\ end \in Nat
  BY <1>1 DEF Drive, Ranged
<1>3. ASSUME NEW p \in Positions, NEW a \in Block(p), Kept(a)
      PROVE  Place(a) = a
  <2>1. p \in Nat /\ p + BlockSize <= end
    BY <1>1, PositionsInRange
  <2>2. a \in Nat /\ a < end
    BY <1>2, <2>1 DEF Block
  <2>3. a < drive.real
    <3>1. CASE ~drive.wrap
      BY <1>3, <3>1 DEF Kept
    <3>2. CASE end <= drive.real
      BY <1>2, <2>2, <3>2
    <3> QED  BY <3>1, <3>2
  <2> QED  BY <1>1, <2>2, <2>3, PlaceFacts
<1>4. NoShare
  BY <1>1, <1>3, BlocksApart DEF NoShare
<1> QED  BY <1>3, <1>4

\* GoodRangePasses of FakeCheck: every marker of a drive that stores the range
\* is intact, and so comes back right.
THEOREM GoodRangeIsNotRefused == Spec => []GoodRangePasses
<1>1. ASSUME IInv PROVE GoodRangePasses
  <2> SUFFICES ASSUME pc = "done", Reliable, end <= drive.real,
                      verdict \notin {"skipped", "pass"}
               PROVE  FALSE
    BY Zenon DEF GoodRangePasses, Reliable
  <2>1. verdict = "counterfeit"
    BY <1>1 DEF IInv, PhaseInv, RangeInv, TypeOK
  <2>2. ~TooShort /\ Reading /\ todo = {}
    BY <1>1, <2>1 DEF IInv, RangeInv, PhaseInv, Reading, Judged
  <2>3. NoShare
    BY <1>1, <2>2, StraightDrive DEF IInv
  <2>4. Ranged /\ drive.real \in Nat
    BY <1>1, <2>2, InRange DEF IInv, RangeInv, TypeOK, Drive
  <2>5. ASSUME NEW p \in Positions PROVE Intact(p)
    <3>1. p \in Nat /\ p + BlockSize <= end /\ p \in wrote
      BY <1>1, <2>2, <2>4, PositionsInRange DEF IInv, WrittenInv
    <3>2. ASSUME NEW a \in Block(p) PROVE Kept(a) /\ store[Place(a)] = a
      <4>1. a < drive.real
        BY <2>4, <3>1, BlockSizeAssumption DEF Block, Ranged
      <4>2. Kept(a)
        BY <4>1 DEF Kept
      <4> QED  BY <1>1, <2>3, <3>1, <4>2 DEF IInv, WrittenInv
    <3> QED  BY <3>2 DEF Intact
  <2>6. Positions \subseteq ok
    BY <1>1, <2>2, <2>5 DEF IInv, OkInv
  <2> QED  BY <1>1, <2>1, <2>6 DEF IInv, VerdictInv
<1> QED  BY <1>1, Invariance, PTL

\* PassMeansAllKept of FakeCheck: a drive passes only while every marker is on
\* it, after all of them were written.
THEOREM PassIsProof == Spec => []PassMeansAllKept
<1>1. IInv => PassMeansAllKept
  BY DEF IInv, OkInv, VerdictInv, PassMeansAllKept
<1> QED  BY <1>1, Invariance, PTL

\* LimboRefused of FakeCheck: the last block of the range is always a marker, so
\* that a limbo fake smaller than the range never passes.
THEOREM LimboIsRefused == Spec => []LimboRefused
<1>1. ASSUME IInv PROVE LimboRefused
  <2> SUFFICES ASSUME pc = "done", ~drive.wrap, Reliable,
                      verdict # "skipped", drive.real < Last + BlockSize
               PROVE  /\ verdict = "counterfeit"
                      /\ lastGood # None => lastGood + BlockSize <= drive.real
                      /\ drive.real < firstBad + BlockSize
    BY Zenon DEF LimboRefused, Reliable
  <2> USE BlockSizeAssumption
  <2>1. verdict \in {"pass", "counterfeit"}
    BY <1>1 DEF IInv, PhaseInv, RangeInv, TypeOK
  <2>2. ~TooShort /\ Reading /\ todo = {}
    BY <1>1, <2>1 DEF IInv, RangeInv, PhaseInv, Reading, Judged
  <2>3. /\ NoShare /\ Ranged /\ drive.real \in Nat
        /\ \A a : Kept(a) <=> a < drive.real
    <3>1. NoShare
      BY <1>1, <2>2, StraightDrive DEF IInv
    <3>2. Ranged /\ drive.real \in Nat
      BY <1>1, <2>2, InRange DEF IInv, RangeInv, TypeOK, Drive
    <3>3. \A a : Kept(a) <=> a < drive.real
      BY DEF Kept
    <3> QED  BY <3>1, <3>2, <3>3
  <2>4. ASSUME NEW p \in Positions
        PROVE  p \in Nat /\ (Intact(p) <=> p + BlockSize <= drive.real)
    <3>1. p \in Nat /\ p \in wrote
      BY <1>1, <2>2, <2>3, PositionsInRange DEF IInv, WrittenInv
    <3>2. ASSUME Intact(p) PROVE p + BlockSize <= drive.real
      <4>1. p + BlockSize - 1 \in Block(p)
        BY <3>1 DEF Block
      <4>2. p + BlockSize - 1 < drive.real
        BY <2>3, <3>2, <4>1 DEF Intact
      <4> QED  BY <2>3, <3>1, <4>2
    <3>3. ASSUME p + BlockSize <= drive.real PROVE Intact(p)
      <4>1. \A a \in Block(p) : a < drive.real
        BY <2>3, <3>1, <3>3 DEF Block
      <4> QED  BY <1>1, <2>3, <3>1, <4>1 DEF IInv, WrittenInv, Intact
    <3> QED  BY <3>1, <3>2, <3>3
  <2>5. ok = {p \in Positions : p + BlockSize <= drive.real}
    BY <1>1, <2>2, <2>4 DEF IInv, OkInv, PhaseInv
  <2>6. Last \in Positions \ ok
    <3>1. Last \in Positions /\ Last \in Nat
      BY <2>3, PositionsInRange
    <3> QED  BY <2>3, <2>5, <3>1
  <2>7. verdict = "counterfeit"
    BY <1>1, <2>1, <2>6 DEF IInv, VerdictInv
  <2>8. /\ firstBad \in Positions \ ok /\ \A q \in Positions \ ok : firstBad <= q
        /\ lastGood # None => lastGood \in Positions /\ lastGood < firstBad
    BY <1>1, <2>7 DEF IInv, VerdictInv
  <2>9. drive.real < firstBad + BlockSize
    BY <2>3, <2>4, <2>5, <2>8
  <2>10. ASSUME lastGood # None PROVE lastGood + BlockSize <= drive.real
    <3>1. lastGood \in ok
      BY <2>4, <2>8, <2>10
    <3> QED  BY <2>5, <3>1
  <2> QED  BY <2>7, <2>9, <2>10
<1> QED  BY <1>1, Invariance, PTL

\* EstimateWithinOneGap of FakeCheck: the last good marker is the one before the
\* first bad one, and markers lie no farther apart than that.
THEOREM EstimateIsNarrow == Spec => []EstimateWithinOneGap
<1>1. ASSUME IInv PROVE EstimateWithinOneGap
  <2> SUFFICES ASSUME verdict = "counterfeit", lastGood # None
               PROVE  MARKERS * (firstBad - lastGood - BlockSize) <= end - start
    BY DEF EstimateWithinOneGap
  <2>1. Ranged
    BY <1>1, InRange DEF IInv, RangeInv, PhaseInv
  <2>2. /\ firstBad \in Positions /\ lastGood \in Positions /\ lastGood < firstBad
        /\ \A q \in Positions : q < firstBad => q <= lastGood
    BY <1>1 DEF IInv, VerdictInv
  <2> QED  BY <2>1, <2>2, GapBound
<1> QED  BY <1>1, Invariance, PTL

\* WraparoundCaughtByCollision of FakeCheck: what the check can and cannot tell
\* of a drive that laps over its beginning.
THEOREM WraparoundNeedsCollision == Spec => []WraparoundCaughtByCollision
<1>1. ASSUME IInv PROVE WraparoundCaughtByCollision
  <2> SUFFICES ASSUME pc = "done", drive.wrap, Reliable, verdict # "skipped"
               PROVE  verdict = "pass" <=>
                        \A p, q \in Positions : p # q =>
                          \A a \in Block(p), b \in Block(q) : Place(a) # Place(b)
    BY Zenon DEF WraparoundCaughtByCollision, Reliable
  <2>1. verdict \in {"pass", "counterfeit"}
    BY <1>1 DEF IInv, PhaseInv, RangeInv, TypeOK
  <2>2. ~TooShort /\ Reading /\ todo = {}
    BY <1>1, <2>1 DEF IInv, RangeInv, PhaseInv, Reading, Judged
  <2>3. Ranged /\ Positions \subseteq wrote
    BY <1>1, <2>2, InRange DEF IInv, WrittenInv
  <2>4. \A a : Kept(a)
    BY DEF Kept
  <2>5. NoShare <=> \A p, q \in Positions : p # q =>
                      \A a \in Block(p), b \in Block(q) : Place(a) # Place(b)
    BY <2>4 DEF NoShare
  <2>6. ASSUME verdict = "pass" PROVE NoShare
    <3>1. \A p \in Positions : Intact(p)
      BY <1>1, <2>6 DEF IInv, VerdictInv, OkInv
    <3> QED  BY <2>3, <3>1, BlocksApart DEF NoShare, Intact
  <2>7. ASSUME NoShare PROVE verdict = "pass"
    <3>1. \A p \in Positions : Intact(p)
      BY <1>1, <2>3, <2>4, <2>7 DEF IInv, WrittenInv, Intact
    <3>2. Positions \subseteq ok
      BY <1>1, <2>2, <3>1 DEF IInv, OkInv
    <3> QED  BY <1>1, <2>1, <3>2 DEF IInv, VerdictInv
  <2> QED  BY <2>5, <2>6, <2>7
<1> QED  BY <1>1, Invariance, PTL
=============================================================================
