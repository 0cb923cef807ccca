--------------------------- MODULE CopyTreeProofs ---------------------------
(***************************************************************************)
(* Proofs about the copy of the tree, for every image, every target and    *)
(* every way to name files: what a run that succeeds has copied, what a    *)
(* run that is silent has put there to boot from, where the walk through   *)
(* the boot catalog ends, and that what the size check admits does fit.    *)
(***************************************************************************)
EXTENDS CopyTree, FiniteSetTheorems, SequenceTheorems, WellFoundedInduction, TLAPS

-----------------------------------------------------------------------------
(* The least of a set of numbers. *)

LEMMA LeastNatural ==
    ASSUME NEW T \in SUBSET Nat, T # {}
    PROVE  \E n \in T : \A m \in T : n <= m
<1> DEFINE R == OpToRel(<, Nat)
<1>1. PICK n \in T : \A m \in T : <<m, n>> \notin R
  <2>1. IsWellFoundedOn(R, Nat)
    BY NatLessThanWellFounded
  <2> HIDE DEF R
  <2> QED  BY <2>1, WFMin
<1>2. \A m \in T : m < n => <<m, n>> \in R
  BY DEF OpToRel
<1> HIDE DEF R
<1>3. \A m \in T : m \in Nat /\ n \in Nat /\ ~(m < n)
  BY <1>1, <1>2
<1>4. \A m \in T : n <= m
  BY <1>3
<1> QED  BY <1>4

LEMMA MinIsLeast ==
    ASSUME NEW T \in SUBSET Nat, T # {}
    PROVE  Min(T) \in T /\ \A m \in T : Min(T) <= m
BY LeastNatural DEF Min

-----------------------------------------------------------------------------
(* Sums over finite sets. *)

\* Induction over the numbers and over the subsets of a finite set, for what can
\* be collected in a set G.
LEMMA NumberInduction ==
    ASSUME NEW G, 0 \in G, \A n \in Nat : n \in G => n + 1 \in G
    PROVE  \A n \in Nat : n \in G
<1> DEFINE T == {n \in Nat : n \notin G}
<1> SUFFICES ASSUME T # {} PROVE FALSE
  OBVIOUS
<1>1. PICK n \in T : \A m \in T : n <= m
  <2> HIDE DEF T
  <2>1. T \in SUBSET Nat
    BY DEF T
  <2> QED  BY <2>1, LeastNatural
<1>2. n \in Nat \ {0}
  BY <1>1
<1>3. n - 1 \in Nat /\ (n - 1) + 1 = n /\ ~(n <= n - 1)
  BY <1>2
<1>4. n - 1 \in G
  BY <1>1, <1>3
<1> QED  BY <1>1, <1>3, <1>4

LEMMA SetInduction ==
    ASSUME NEW S, IsFiniteSet(S), NEW G, {} \in G,
           \A T \in SUBSET S : \A x \in S \ T : T \in G => T \cup {x} \in G
    PROVE  S \in G
<1> DEFINE P(n) == \A T \in SUBSET S : Cardinality(T) = n => T \in G
           N == {n \in Nat : P(n)}
<1>1. 0 \in N
  <2>1. \A T \in SUBSET S : Cardinality(T) = 0 => T = {}
    BY FS_Subset, FS_EmptySet
  <2> QED  BY <2>1
<1>2. ASSUME NEW n \in Nat, n \in N PROVE n + 1 \in N
  <2> SUFFICES ASSUME NEW T \in SUBSET S, Cardinality(T) = n + 1 PROVE T \in G
    OBVIOUS
  <2>1. IsFiniteSet(T)
    BY FS_Subset
  <2>2. T # {}
    <3>1. Cardinality({}) = 0 /\ n + 1 # 0
      BY FS_EmptySet
    <3> QED  BY <3>1
  <2>3. PICK x \in T : TRUE
    BY <2>2
  <2>4. Cardinality(T \ {x}) = n
    <3>1. Cardinality(T \ {x}) = Cardinality(T) - 1
      BY <2>1, FS_RemoveElement
    <3>2. (n + 1) - 1 = n
      OBVIOUS
    <3> QED  BY <3>1, <3>2
  <2>5. T \ {x} \in G /\ T \ {x} \in SUBSET S /\ x \in S \ (T \ {x})
    BY <1>2, <2>4
  <2>6. (T \ {x}) \cup {x} = T
    OBVIOUS
  <2> QED  BY <2>5, <2>6
<1> HIDE DEF N
<1>3. \A n \in Nat : n \in N
  BY <1>1, <1>2, NumberInduction
<1>4. Cardinality(S) \in Nat
  BY FS_CardinalityType
<1> QED  BY <1>3, <1>4 DEF N

Any(s) == CHOOSE x \in s : TRUE

\* h is the sum of f over every subset of S.
IsSum(f, S, h) == h = [s \in SUBSET S |-> IF s = {} THEN 0 ELSE f[Any(s)] + h[s \ {Any(s)}]]

\* The recursion of the sum defines a function: it goes to smaller sets only.
LEMMA SumExists ==
    ASSUME NEW S, IsFiniteSet(S), NEW f
    PROVE  \E h : IsSum(f, S, h)
<1> DEFINE Up(n) == {s \in SUBSET S : Cardinality(s) <= n}
           Is(n, h) == h = [s \in Up(n) |-> IF s = {} THEN 0 ELSE f[Any(s)] + h[s \ {Any(s)}]]
           N == {n \in Nat : \E h : Is(n, h)}
<1>1. \A s \in SUBSET S : IsFiniteSet(s) /\ Cardinality(s) \in Nat /\ Cardinality(s) <= Cardinality(S)
  BY FS_Subset, FS_CardinalityType
<1>2. Cardinality(S) \in Nat
  BY FS_CardinalityType
<1>3. \A s \in SUBSET S : s # {} => Any(s) \in s
  BY DEF Any
<1>4. ASSUME NEW s \in SUBSET S, s # {}
      PROVE  s \ {Any(s)} \in SUBSET S /\ Cardinality(s \ {Any(s)}) = Cardinality(s) - 1
  BY <1>1, <1>3, <1>4, FS_RemoveElement
<1>5. 0 \in N
  <2> DEFINE h == [s \in Up(0) |-> 0]
  <2>1. \A s \in Up(0) : s = {}
    <3> SUFFICES ASSUME NEW s \in Up(0) PROVE s = {}
      OBVIOUS
    <3>1. IsFiniteSet(s) /\ Cardinality(s) = 0
      BY <1>1
    <3> QED  BY <3>1, FS_EmptySet
  <2>2. Is(0, h)
    BY <2>1
  <2> QED  BY <2>2
<1>6. ASSUME NEW n \in Nat, n \in N PROVE n + 1 \in N
  <2>1. PICK h : Is(n, h)
    BY <1>6
  <2> DEFINE g == [s \in Up(n + 1) |-> IF s = {} THEN 0 ELSE f[Any(s)] + h[s \ {Any(s)}]]
  <2>2. ASSUME NEW s \in Up(n + 1), s # {} PROVE h[s \ {Any(s)}] = g[s \ {Any(s)}]
    <3> DEFINE t == s \ {Any(s)}
    <3>1. t \in Up(n) /\ t \in Up(n + 1)
      BY <1>1, <1>4, <2>2
    <3> HIDE DEF t
    <3>2. h[t] = IF t = {} THEN 0 ELSE f[Any(t)] + h[t \ {Any(t)}]
      <4> HIDE DEF Up
      <4> QED  BY <2>1, <3>1
    <3>3. g[t] = IF t = {} THEN 0 ELSE f[Any(t)] + h[t \ {Any(t)}]
      BY <3>1
    <3> QED  BY <3>2, <3>3 DEF t
  <2>3. Is(n + 1, g)
    <3> HIDE DEF Up
    <3> QED  BY <2>2
  <2>4. n + 1 \in Nat
    OBVIOUS
  <2> HIDE DEF g
  <2>5. \E k : Is(n + 1, k)
    BY <2>3
  <2> HIDE DEF Is
  <2> QED  BY <2>4, <2>5
<1> HIDE DEF N
<1>7. \A n \in Nat : n \in N
  BY <1>5, <1>6, NumberInduction
<1>8. PICK h : Is(Cardinality(S), h)
  BY <1>2, <1>7 DEF N
<1>9. Up(Cardinality(S)) = SUBSET S
  BY <1>1
<1>10. IsSum(f, S, h)
  <2> HIDE DEF Up
  <2> QED  BY <1>8, <1>9 DEF IsSum
<1> QED  BY <1>10

\* In whatever order the elements are taken.
LEMMA SumAdds ==
    ASSUME NEW S, IsFiniteSet(S), NEW f, \A x \in S : f[x] \in Nat, NEW h, IsSum(f, S, h)
    PROVE  /\ h[{}] = 0
           /\ \A T \in SUBSET S : /\ h[T] \in Nat
                                  /\ \A x \in S \ T : h[T \cup {x}] = h[T] + f[x]
<1> DEFINE P(T) == h[T] \in Nat /\ \A x \in S \ T : h[T \cup {x}] = h[T] + f[x]
           N == {n \in Nat : \A T \in SUBSET S : Cardinality(T) <= n => P(T)}
<1>1. \A s \in SUBSET S : IsFiniteSet(s) /\ Cardinality(s) \in Nat /\ Cardinality(s) <= Cardinality(S)
  BY FS_Subset, FS_CardinalityType
<1>2. h[{}] = 0 /\ \A s \in SUBSET S : s # {} => h[s] = f[Any(s)] + h[s \ {Any(s)}]
  BY DEF IsSum
<1>3. \A s \in SUBSET S : s # {} => Any(s) \in s
  BY DEF Any
<1>4. 0 \in N
  <2>1. \A T \in SUBSET S : Cardinality(T) <= 0 => T = {}
    BY <1>1, FS_EmptySet
  <2>2. P({})
    <3>1. ASSUME NEW x \in S PROVE h[{x}] = f[x]
      <4>1. Any({x}) = x /\ {x} \ {x} = {} /\ {x} \in SUBSET S /\ {x} # {}
        BY DEF Any
      <4>2. h[{x}] = f[x] + 0
        BY <1>2, <4>1
      <4> QED  BY <4>2
    <3>2. \A x \in S : {} \cup {x} = {x} /\ f[x] = 0 + f[x]
      OBVIOUS
    <3> QED  BY <1>2, <3>1, <3>2
  <2> HIDE DEF P
  <2> QED  BY <2>1, <2>2
<1>5. ASSUME NEW n \in Nat, n \in N PROVE n + 1 \in N
  <2> SUFFICES ASSUME NEW T \in SUBSET S, Cardinality(T) <= n + 1 PROVE P(T)
    OBVIOUS
  <2>1. \A U \in SUBSET S : Cardinality(U) <= n => P(U)
    BY <1>5
  <2>2. CASE T = {}
    <3>1. Cardinality({}) <= n /\ {} \in SUBSET S
      BY FS_EmptySet
    <3> HIDE DEF P
    <3> QED  BY <2>1, <2>2, <3>1
  <2>3. CASE T # {}
    <3>1. ASSUME NEW z \in T
          PROVE  /\ P(T \ {z}) /\ T \ {z} \in SUBSET S /\ z \in S \ (T \ {z})
                 /\ h[T] = h[T \ {z}] + f[z]
      <4>1. T \ {z} \in SUBSET S /\ Cardinality(T \ {z}) <= n /\ z \in S \ (T \ {z})
        BY <1>1, FS_RemoveElement
      <4>2. P(T \ {z})
        <5> HIDE DEF P
        <5> QED  BY <2>1, <4>1
      <4>3. (T \ {z}) \cup {z} = T
        OBVIOUS
      <4> QED  BY <4>1, <4>2, <4>3
    <3>2. h[T] \in Nat
      <4>1. Any(T) \in T
        BY <1>3, <2>3
      <4>2. h[T] = h[T \ {Any(T)}] + f[Any(T)] /\ h[T \ {Any(T)}] \in Nat
        BY <3>1, <4>1
      <4> QED  BY <4>1, <4>2
    <3>3. ASSUME NEW x \in S \ T PROVE h[T \cup {x}] = h[T] + f[x]
      <4> DEFINE U == T \cup {x}
                 z == Any(U)
      <4>1. z \in U /\ U \in SUBSET S /\ h[U] = f[z] + h[U \ {z}]
        BY <1>2, <1>3, <2>3
      <4>2. CASE z = x
        <5>1. U \ {z} = T
          BY <4>2
        <5> HIDE DEF z, U
        <5>2. h[U] = f[x] + h[T]
          BY <4>1, <4>2, <5>1
        <5>3. f[x] \in Nat
          OBVIOUS
        <5>4. h[U] = h[T] + f[x]
          BY <3>2, <5>2, <5>3
        <5> QED  BY <5>4 DEF U
      <4>3. CASE z # x
        <5>1. z \in T /\ U \ {z} = (T \ {z}) \cup {x} /\ x \in S \ (T \ {z})
          BY <4>1, <4>3
        <5> HIDE DEF z
        <5>2. h[(T \ {z}) \cup {x}] = h[T \ {z}] + f[x] /\ h[T] = h[T \ {z}] + f[z] /\ h[T \ {z}] \in Nat
          BY <3>1, <5>1
        <5> HIDE DEF U
        <5>3. f[z] \in Nat /\ f[x] \in Nat
          BY <5>1
        <5>4. h[U] = f[z] + (h[T \ {z}] + f[x])
          BY <4>1, <5>1, <5>2
        <5>5. h[U] = h[T] + f[x]
          BY <5>2, <5>3, <5>4
        <5> QED  BY <5>5 DEF U
      <4> QED  BY <4>2, <4>3
    <3> QED  BY <3>2, <3>3
  <2> QED  BY <2>2, <2>3
<1> HIDE DEF N
<1>6. \A n \in Nat : n \in N
  BY <1>4, <1>5, NumberInduction
<1>7. ASSUME NEW T \in SUBSET S PROVE P(T)
  <2>1. Cardinality(T) \in Nat /\ Cardinality(T) <= Cardinality(T)
    BY <1>1
  <2> HIDE DEF P
  <2> QED  BY <1>6, <2>1 DEF N
<1> QED  BY <1>2, <1>7

\* What the sum of a function over sets obeys.
LEMMA SumFacts ==
    ASSUME NEW S, IsFiniteSet(S), NEW f, \A x \in S : f[x] \in Nat
    PROVE  /\ SumFunctionOnSet(f, {}) = 0
           /\ \A T \in SUBSET S :
                 /\ SumFunctionOnSet(f, T) \in Nat
                 /\ \A x \in S \ T : SumFunctionOnSet(f, T \cup {x}) = SumFunctionOnSet(f, T) + f[x]
<1>1. \A T : (\E h : IsSum(f, T, h)) => \E h : IsSum(f, T, h) /\ SumFunctionOnSet(f, T) = h[T]
  BY DEF SumFunctionOnSet, FoldFunctionOnSet, MapThenFoldSet, IsSum, Any
<1>2. PICK h : IsSum(f, S, h)
  BY SumExists
<1>3. h[{}] = 0 /\ \A T \in SUBSET S : h[T] \in Nat /\ \A x \in S \ T : h[T \cup {x}] = h[T] + f[x]
  BY <1>2, SumAdds
<1>4. ASSUME NEW T \in SUBSET S PROVE SumFunctionOnSet(f, T) = h[T]
  <2>1. IsFiniteSet(T)
    BY FS_Subset
  <2>2. PICK g : IsSum(f, T, g) /\ SumFunctionOnSet(f, T) = g[T]
    BY <1>1, <2>1, SumExists
  <2> DEFINE G == {U \in SUBSET T : g[U] = h[U]}
  <2>3. h[{}] = 0 /\ \A U \in SUBSET S : \A x \in S \ U : h[U \cup {x}] = h[U] + f[x]
    BY <1>3
  <2>4. \A x \in T : f[x] \in Nat
    OBVIOUS
  <2>5. g[{}] = 0 /\ \A U \in SUBSET T : \A x \in T \ U : g[U \cup {x}] = g[U] + f[x]
    BY <2>1, <2>2, <2>4, SumAdds
  <2>6. {} \in G /\ \A U \in SUBSET T : \A x \in T \ U : U \in G => U \cup {x} \in G
    BY <2>3, <2>5
  <2> HIDE DEF G
  <2>7. T \in G
    BY <2>1, <2>6, SetInduction
  <2> QED  BY <2>2, <2>7 DEF G
<1>5. {} \in SUBSET S /\ \A T \in SUBSET S : \A x \in S \ T : T \cup {x} \in SUBSET S
  OBVIOUS
<1> QED  BY <1>3, <1>4, <1>5

\* Numbers of at most b, and the sum over a part.
LEMMA SumBound ==
    ASSUME NEW S, IsFiniteSet(S), NEW f, NEW b \in Nat, \A x \in S : f[x] \in Nat /\ f[x] <= b
    PROVE  SumFunctionOnSet(f, S) \in Nat /\ SumFunctionOnSet(f, S) <= b * Cardinality(S)
<1> DEFINE G == {T \in SUBSET S : SumFunctionOnSet(f, T) <= b * Cardinality(T)}
<1>1. /\ SumFunctionOnSet(f, {}) = 0
      /\ \A T \in SUBSET S :
            /\ SumFunctionOnSet(f, T) \in Nat
            /\ \A x \in S \ T : SumFunctionOnSet(f, T \cup {x}) = SumFunctionOnSet(f, T) + f[x]
  BY SumFacts
<1>2. {} \in G
  BY <1>1, FS_EmptySet
<1>3. ASSUME NEW T \in SUBSET S, NEW x \in S \ T, T \in G PROVE T \cup {x} \in G
  <2> DEFINE s == SumFunctionOnSet(f, T)
             n == Cardinality(T)
  <2>1. n \in Nat /\ Cardinality(T \cup {x}) = n + 1
    BY FS_Subset, FS_CardinalityType, FS_AddElement
  <2>2. s \in Nat /\ s <= b * n /\ SumFunctionOnSet(f, T \cup {x}) = s + f[x]
    BY <1>1, <1>3
  <2>3. f[x] \in Nat /\ f[x] <= b
    OBVIOUS
  <2> HIDE DEF s, n
  <2>4. s + f[x] <= b * (n + 1)
    BY <2>1, <2>2, <2>3
  <2> QED  BY <2>1, <2>2, <2>4
<1> HIDE DEF G
<1>4. S \in G
  BY <1>2, <1>3, SetInduction
<1> QED  BY <1>1, <1>4 DEF G

LEMMA SumMonotone ==
    ASSUME NEW S, IsFiniteSet(S), NEW f, \A x \in S : f[x] \in Nat, NEW T \in SUBSET S
    PROVE  /\ SumFunctionOnSet(f, T) \in Nat /\ SumFunctionOnSet(f, S) \in Nat
           /\ SumFunctionOnSet(f, T) <= SumFunctionOnSet(f, S)
<1> DEFINE G == {U \in SUBSET (S \ T) : SumFunctionOnSet(f, T) <= SumFunctionOnSet(f, T \cup U)}
<1>1. /\ SumFunctionOnSet(f, {}) = 0
      /\ \A U \in SUBSET S :
            /\ SumFunctionOnSet(f, U) \in Nat
            /\ \A x \in S \ U : SumFunctionOnSet(f, U \cup {x}) = SumFunctionOnSet(f, U) + f[x]
  BY SumFacts
<1>2. {} \in G
  <2>1. T \cup {} = T
    OBVIOUS
  <2> QED  BY <1>1, <2>1
<1>3. ASSUME NEW U \in SUBSET (S \ T), NEW x \in (S \ T) \ U, U \in G PROVE U \cup {x} \in G
  <2>1. T \cup (U \cup {x}) = (T \cup U) \cup {x} /\ x \in S \ (T \cup U) /\ T \cup U \in SUBSET S
    OBVIOUS
  <2>2. SumFunctionOnSet(f, T \cup (U \cup {x})) = SumFunctionOnSet(f, T \cup U) + f[x]
    BY <1>1, <2>1
  <2>3. /\ SumFunctionOnSet(f, T \cup U) \in Nat /\ SumFunctionOnSet(f, T) \in Nat /\ f[x] \in Nat
        /\ SumFunctionOnSet(f, T) <= SumFunctionOnSet(f, T \cup U)
    BY <1>1, <1>3, <2>1
  <2>4. SumFunctionOnSet(f, T) <= SumFunctionOnSet(f, T \cup (U \cup {x}))
    BY <2>2, <2>3
  <2>5. U \cup {x} \in SUBSET (S \ T)
    OBVIOUS
  <2> QED  BY <2>4, <2>5
<1> HIDE DEF G
<1>4. S \ T \in G
  <2>1. IsFiniteSet(S \ T)
    BY FS_Subset
  <2> QED  BY <1>2, <1>3, <2>1, SetInduction
<1>5. T \cup (S \ T) = S
  OBVIOUS
<1>6. SumFunctionOnSet(f, T) <= SumFunctionOnSet(f, S)
  BY <1>4, <1>5 DEF G
<1> QED  BY <1>1, <1>6

-----------------------------------------------------------------------------
(* What a volume has room for. *)

\* What division guarantees, for every divisor.
LEMMA Division ==
    ASSUME NEW d \in Nat \ {0}, NEW n \in Int
    PROVE  /\ n \div d \in Int
           /\ d * (n \div d) <= n
           /\ n < d * (n \div d) + d
OBVIOUS

LEMMA MinMaxPair ==
    ASSUME NEW m \in Int, NEW n \in Int, m <= n
    PROVE  /\ Min({m, n}) = m /\ Min({n, m}) = m
           /\ Max({m, n}) = n
<1>1. Min({m, n}) = m
  <2>1. \E x \in {m, n} : \A y \in {m, n} : x <= y
    OBVIOUS
  <2>2. Min({m, n}) \in {m, n} /\ \A y \in {m, n} : Min({m, n}) <= y
    BY <2>1 DEF Min
  <2> QED  BY <2>2
<1>2. Max({m, n}) = n
  <2>1. \E x \in {m, n} : \A y \in {m, n} : x >= y
    OBVIOUS
  <2>2. Max({m, n}) \in {m, n} /\ \A y \in {m, n} : Max({m, n}) >= y
    BY <2>1 DEF Max
  <2> QED  BY <2>2
<1>3. {n, m} = {m, n}
  OBVIOUS
<1> QED  BY <1>1, <1>2, <1>3

\* The cluster of a volume of v sectors of 512 bytes, and how large the volume
\* is at least.
LEMMA ClusterSizes ==
    ASSUME NEW v \in Nat
    PROVE  \/ Fat32Cluster(v * 64, 64) = 64
           \/ Fat32Cluster(v * 64, 64) = 512 /\ v > 532480
           \/ Fat32Cluster(v * 64, 64) = 1024 /\ v > 16777216
           \/ Fat32Cluster(v * 64, 64) = 2048 /\ v > 33554432
           \/ Fat32Cluster(v * 64, 64) = 4096 /\ v > 67108864
<1> DEFINE p == v * 64
           q == (p - 1) \div (2 * GiB)
           large == {k \in {8, 16, 32} : q < k}
           c == IF p <= 260 * MiB THEN 64
                ELSE IF p <= 8 * GiB THEN 4 * KiB
                ELSE IF large = {} THEN 32 * KiB ELSE Min(large) * KiB
<1>1. KiB = 128 /\ MiB = 131072 /\ GiB = 134217728
  BY SMT, WordsAssumption DEF KiB, GiB
<1>2. p \in Int /\ p - 1 \in Int /\ 2 * GiB = 268435456
  BY SMT, <1>1
<1>3. q \in Int /\ 268435456 * q <= p - 1 /\ p - 1 < 268435456 * q + 268435456
  <2> DEFINE n == p - 1
             d == 2 * GiB
  <2>1. n \in Int /\ d \in Nat \ {0}
    BY SMT, <1>2
  <2> HIDE DEF n, d
  <2>2. n \div d \in Int /\ d * (n \div d) <= n /\ n < d * (n \div d) + d
    BY ONLY <2>1, Division
  <2>3. d = 268435456
    BY SMT, <1>2 DEF d
  <2>4. n \div d \in Int /\ 268435456 * (n \div d) <= n /\ n < 268435456 * (n \div d) + 268435456
    BY SMT, <2>1, <2>2, <2>3
  <2> QED  BY SMT, <2>4 DEF n, d
<1>4. Fat32Cluster(v * 64, 64) = Min({32 * KiB, Max({64, c})})
  BY SMT DEF Fat32Cluster
<1>5. ASSUME NEW n \in Int, c = n, 64 <= n, n <= 4096 PROVE Fat32Cluster(v * 64, 64) = n
  <2>1. Max({64, c}) = n
    <3> HIDE DEF c
    <3> QED  BY SMT, <1>5, MinMaxPair
  <2>2. Min({32 * KiB, n}) = n
    BY SMT, <1>1, <1>5, MinMaxPair
  <2> HIDE DEF c
  <2> QED  BY ONLY <1>4, <2>1, <2>2
<1> HIDE DEF q
<1>6. CASE p <= 260 * MiB
  BY SMT, <1>5, <1>6
<1>7. CASE ~(p <= 260 * MiB) /\ p <= 8 * GiB
  BY SMT, <1>1, <1>5, <1>7
<1>8. CASE ~(p <= 260 * MiB) /\ ~(p <= 8 * GiB)
  <2>1. v > 16777216
    BY SMT, <1>1, <1>8
  <2>2. c = IF large = {} THEN 32 * KiB ELSE Min(large) * KiB
    BY SMT, <1>8
  <2>3. CASE q < 8
    <3>1. large = {8, 16, 32}
      BY SMT, <1>3, <2>3
    <3>2. Min({8, 16, 32}) = 8
      BY SMT DEF Min
    <3>3. c = 1024
      BY SMT, <1>1, <2>2, <3>1, <3>2
    <3> QED  BY SMT, <1>5, <2>1, <3>3
  <2>4. CASE q >= 8 /\ q < 16
    <3>1. large = {16, 32}
      BY SMT, <1>3, <2>4
    <3>2. Min({16, 32}) = 16
      BY SMT, MinMaxPair
    <3>3. c = 2048
      BY SMT, <1>1, <2>2, <3>1, <3>2
    <3>4. v > 33554432
      BY SMT, <1>3, <2>4
    <3> QED  BY SMT, <1>5, <3>3, <3>4
  <2>5. CASE q >= 16
    <3>1. large = {32} \/ large = {}
      BY SMT, <1>3, <2>5
    <3>2. Min({32}) = 32
      BY SMT DEF Min
    <3>3. c = 4096
      BY SMT, <1>1, <2>2, <3>1, <3>2
    <3>4. v > 67108864
      BY SMT, <1>3, <2>5
    <3> QED  BY SMT, <1>5, <3>3, <3>4
  <2> QED  BY SMT, <1>3, <2>3, <2>4, <2>5
<1> QED  BY SMT, <1>6, <1>7, <1>8

\* The clusters a volume can have, in words.
ClusterWords == {64, 512, 1024, 2048, 4096}

\* A volume above the floor has clusters enough to be FAT32, and what the
\* overhead leaves of it is no more than they hold.
LEMMA RoomOnVolume ==
    ASSUME NEW v \in Nat, v > 131072,
           NEW c, c = Fat32Cluster(v * 64, 64)
    PROVE  /\ c \in ClusterWords
           /\ Clusters(v, 64, c) \in Int /\ Clusters(v, 64, c) >= LeastClusters
           /\ \A u \in Nat : u * c + FatOverhead(v * 64, 64, c) - c <= v * 64
                                => u <= Clusters(v, 64, c)
<1>1. ASSUME NEW s \in {1, 8, 16, 32, 64}, c = 64 * s,
             \/ s = 1
             \/ s = 8 /\ v > 532480
             \/ s = 16 /\ v > 16777216
             \/ s = 32 /\ v > 33554432
             \/ s = 64 /\ v > 67108864
      PROVE  /\ Clusters(v, 64, c) \in Int /\ Clusters(v, 64, c) >= LeastClusters
             /\ \A u \in Nat : u * c + FatOverhead(v * 64, 64, c) - c <= v * 64
                                  => u <= Clusters(v, 64, c)
  <2> DEFINE b == s * 2 * 64 + 2
             a == v - 8 + 2 * s + b - 1
             t == a \div b
             n == (v - 8 - 2 * t) \div s
             o == (v * 64) \div c
  <2>1. c \div 64 = s
    BY SMT, <1>1
  <2>2. Clusters(v, 64, c) = n
    BY SMT, <2>1 DEF Clusters, TableSectors, SectorsFor
  <2>3. FatOverhead(v * 64, 64, c) = 512 + o + c
    BY SMT DEF FatOverhead
  <2>4. t \in Int /\ b * t <= a /\ a < b * t + b /\ b \in Nat \ {0}
    <3>1. a \in Int /\ b \in Nat \ {0}
      BY SMT
    <3> HIDE DEF a, b
    <3> QED  BY ONLY <3>1, Division
  <2>5. n \in Int /\ s * n <= v - 8 - 2 * t /\ v - 8 - 2 * t < s * n + s
    <3> DEFINE m == v - 8 - 2 * t
    <3>1. m \in Int /\ s \in Nat \ {0}
      BY SMT, <2>4
    <3> HIDE DEF m
    <3>2. m \div s \in Int /\ s * (m \div s) <= m /\ m < s * (m \div s) + s
      BY ONLY <3>1, Division
    <3> QED  BY SMT, <3>2 DEF m
  <2>6. o \in Int /\ c * o <= v * 64 /\ v * 64 < c * o + c
    <3> DEFINE m == v * 64
    <3>1. m \in Int /\ c \in Nat \ {0}
      BY SMT, <1>1
    <3> HIDE DEF m
    <3>2. m \div c \in Int /\ c * (m \div c) <= m /\ m < c * (m \div c) + c
      BY ONLY <3>1, Division
    <3> QED  BY SMT, <3>2 DEF m
  <2> HIDE DEF t, n, o
  <2>7. n >= 65525
    <3>1. CASE s = 1
      BY SMT, <2>4, <2>5, <3>1
    <3>2. CASE s = 8 /\ v > 532480
      BY SMT, <2>4, <2>5, <3>2
    <3>3. CASE s = 16 /\ v > 16777216
      BY SMT, <2>4, <2>5, <3>3
    <3>4. CASE s = 32 /\ v > 33554432
      BY SMT, <2>4, <2>5, <3>4
    <3>5. CASE s = 64 /\ v > 67108864
      BY SMT, <2>4, <2>5, <3>5
    <3> QED  BY SMT, <1>1, <3>1, <3>2, <3>3, <3>4, <3>5
  <2>8. ASSUME NEW u \in Nat, u * c + 512 + o <= v * 64 PROVE u <= n
    <3>1. CASE s = 1
      BY SMT, <1>1, <2>4, <2>5, <2>6, <2>8, <3>1
    <3>2. CASE s = 8 /\ v > 532480
      BY SMT, <1>1, <2>4, <2>5, <2>6, <2>8, <3>2
    <3>3. CASE s = 16 /\ v > 16777216
      BY SMT, <1>1, <2>4, <2>5, <2>6, <2>8, <3>3
    <3>4. CASE s = 32 /\ v > 33554432
      BY SMT, <1>1, <2>4, <2>5, <2>6, <2>8, <3>4
    <3>5. CASE s = 64 /\ v > 67108864
      BY SMT, <1>1, <2>4, <2>5, <2>6, <2>8, <3>5
    <3> QED  BY SMT, <1>1, <3>1, <3>2, <3>3, <3>4, <3>5
  <2>9. ASSUME NEW u \in Nat, u * c + FatOverhead(v * 64, 64, c) - c <= v * 64 PROVE u <= n
    <3>1. u * c \in Int /\ c \in Int
      BY SMT, <1>1
    <3>2. u * c + 512 + o <= v * 64
      <4> DEFINE uc == u * c
      <4> HIDE DEF uc
      <4> QED  BY SMT, <2>3, <2>6, <2>9, <3>1 DEF uc
    <3> QED  BY SMT, <2>8, <3>2
  <2> QED  BY SMT, <2>2, <2>5, <2>7, <2>9 DEF LeastClusters
<1> USE DEF ClusterWords
<1>2. CASE c = 64
  BY SMT, <1>1, <1>2
<1>3. CASE c = 512 /\ v > 532480
  BY SMT, <1>1, <1>3
<1>4. CASE c = 1024 /\ v > 16777216
  BY SMT, <1>1, <1>4
<1>5. CASE c = 2048 /\ v > 33554432
  BY SMT, <1>1, <1>5
<1>6. CASE c = 4096 /\ v > 67108864
  BY SMT, <1>1, <1>6
<1> QED  BY SMT, <1>2, <1>3, <1>4, <1>5, <1>6, ClusterSizes

\* A directory of n entries of at most four slots each needs a cluster, and
\* 128 bytes more for each of them.
LEMMA DirectoryNeeds ==
    ASSUME NEW c \in ClusterWords, NEW n \in Nat, NEW slots \in Nat, slots <= 4 * n,
           NEW first \in {1, 2}
    PROVE  /\ SectorsFor(SlotWords * (first + slots), c) \in Nat
           /\ c * SectorsFor(SlotWords * (first + slots), c) <= c + 16 * n
<1> DEFINE w == 4 * (first + slots) + c - 1
           q == w \div c
<1>1. w \in Int /\ c \in Nat \ {0} /\ w >= 0
  BY DEF ClusterWords
<1>2. SectorsFor(SlotWords * (first + slots), c) = q
  BY DEF SectorsFor, SlotWords
<1>3. q \in Int /\ c * q <= w /\ w < c * q + c
  <2> HIDE DEF w
  <2> QED  BY ONLY <1>1, Division DEF q
<1> HIDE DEF q
<1>4. CASE c = 64
  BY <1>2, <1>3, <1>4
<1>5. CASE c = 512
  BY <1>2, <1>3, <1>5
<1>6. CASE c = 1024
  BY <1>2, <1>3, <1>6
<1>7. CASE c = 2048
  BY <1>2, <1>3, <1>7
<1>8. CASE c = 4096
  BY <1>2, <1>3, <1>8
<1> QED  BY <1>4, <1>5, <1>6, <1>7, <1>8 DEF ClusterWords

\* A file needs the clusters of its length, a shorter one no more.
LEMMA FileNeeds ==
    ASSUME NEW c \in ClusterWords, NEW n \in Nat, NEW m \in Nat, n <= m
    PROVE  /\ SectorsFor(n, c) \in Nat
           /\ RoundUpTo(m, c) \in Nat
           /\ c * SectorsFor(n, c) <= RoundUpTo(m, c)
<1> DEFINE p == (n + c - 1) \div c
           q == (m + c - 1) \div c
<1>1. c \in Nat \ {0} /\ n + c - 1 \in Int /\ m + c - 1 \in Int
  BY DEF ClusterWords
<1>2. /\ p \in Int /\ c * p <= n + c - 1 /\ n + c - 1 < c * p + c
      /\ q \in Int /\ c * q <= m + c - 1 /\ m + c - 1 < c * q + c
  <2> DEFINE a == n + c - 1
             b == m + c - 1
  <2>1. a \in Int /\ b \in Int
    BY <1>1
  <2> HIDE DEF a, b
  <2>2. /\ a \div c \in Int /\ c * (a \div c) <= a /\ a < c * (a \div c) + c
        /\ b \div c \in Int /\ c * (b \div c) <= b /\ b < c * (b \div c) + c
    BY ONLY <1>1, <2>1, Division
  <2> QED  BY <2>2 DEF a, b
<1>3. SectorsFor(n, c) = p /\ RoundUpTo(m, c) = q * c
  BY DEF SectorsFor, RoundUpTo
<1> HIDE DEF p, q
<1>4. \A k \in {64, 512, 1024, 2048, 4096} : c = k => p \in Nat /\ q \in Nat /\ p <= q
  BY SMT, <1>1, <1>2
<1>5. p \in Nat /\ q \in Nat /\ p <= q
  BY <1>4 DEF ClusterWords
<1>6. q * c \in Nat /\ c * p <= q * c
  BY <1>1, <1>5
<1> QED  BY <1>3, <1>5, <1>6

\* Nodes, each of which needs no more clusters than what it stands for: a
\* directory than its cluster and its entries, a file than a source of its own.
LEMMA NodesNeed ==
    ASSUME NEW N, IsFiniteSet(N), NEW D \in SUBSET N, NEW c \in Nat,
           NEW u, \A k \in N : u[k] \in Nat,
           NEW M, IsFiniteSet(M), NEW up,
           \A k \in D : c * u[k] <= c + 16 * Cardinality({q \in M : up[q] = k}),
           NEW E, IsFiniteSet(E), NEW w, \A e \in E : w[e] \in Nat,
           NEW of, \A k \in N \ D : of[k] \in E /\ c * u[k] <= w[of[k]],
           \A k, l \in N \ D : of[k] = of[l] => k = l
    PROVE  /\ SumFunctionOnSet(u, N) \in Nat
           /\ c * SumFunctionOnSet(u, N) <=
                c * Cardinality(D) + SumFunctionOnSet(w, E) + 16 * Cardinality(M)
<1> DEFINE Ofs(T)  == {of[k] : k \in T \ D}
           Of(T)   == {q \in M : up[q] \in T}
           Sum(T)  == SumFunctionOnSet(u, T)
           Need(T) == SumFunctionOnSet(w, Ofs(T))
           Held(T) == Cardinality(Of(T))
           Made(T) == Cardinality(T \cap D)
           G == {T \in SUBSET N : c * Sum(T) <= c * Made(T) + Need(T) + 16 * Held(T)}
<1>1. /\ SumFunctionOnSet(u, {}) = 0
      /\ \A T \in SUBSET N :
            /\ SumFunctionOnSet(u, T) \in Nat
            /\ \A x \in N \ T : SumFunctionOnSet(u, T \cup {x}) = SumFunctionOnSet(u, T) + u[x]
  BY SumFacts
<1>2. /\ SumFunctionOnSet(w, {}) = 0
      /\ \A T \in SUBSET E :
            /\ SumFunctionOnSet(w, T) \in Nat
            /\ \A x \in E \ T : SumFunctionOnSet(w, T \cup {x}) = SumFunctionOnSet(w, T) + w[x]
  <2>1. IsFiniteSet(E) /\ \A x \in E : w[x] \in Nat
    OBVIOUS
  <2> QED  BY ONLY <2>1, SumFacts
<1>3. \A T \in SUBSET N : /\ Sum(T) \in Nat /\ Need(T) \in Nat
                          /\ IsFiniteSet(Of(T)) /\ Held(T) \in Nat
                          /\ IsFiniteSet(T \cap D) /\ Made(T) \in Nat
  <2> SUFFICES ASSUME NEW T \in SUBSET N
               PROVE  /\ Sum(T) \in Nat /\ Need(T) \in Nat
                      /\ IsFiniteSet(Of(T)) /\ Held(T) \in Nat
                      /\ IsFiniteSet(T \cap D) /\ Made(T) \in Nat
    OBVIOUS
  <2>1. Ofs(T) \in SUBSET E /\ Of(T) \in SUBSET M /\ T \cap D \in SUBSET N
    OBVIOUS
  <2>2. Need(T) \in Nat
    <3> HIDE DEF Ofs
    <3> QED  BY <1>2, <2>1
  <2>3. IsFiniteSet(Of(T)) /\ Held(T) \in Nat
    <3> HIDE DEF Of
    <3> QED  BY <2>1, FS_Subset, FS_CardinalityType
  <2>4. IsFiniteSet(T \cap D) /\ Made(T) \in Nat
    BY <2>1, FS_Subset, FS_CardinalityType
  <2> QED  BY <1>1, <2>2, <2>3, <2>4
<1>4. {} \in G
  <2>1. Sum({}) = 0 /\ c * 0 = 0
    BY <1>1
  <2>2. Made({}) \in Nat /\ Need({}) \in Nat /\ Held({}) \in Nat
    BY <1>3
  <2> HIDE DEF Made, Need, Held, Sum
  <2>3. c * Made({}) \in Nat
    BY <2>2
  <2>4. c * Sum({}) <= c * Made({}) + Need({}) + 16 * Held({})
    BY <2>1, <2>2, <2>3
  <2> QED  BY <2>4
<1>5. ASSUME NEW T \in SUBSET N, NEW x \in N \ T, T \in G PROVE T \cup {x} \in G
  <2> DEFINE U == T \cup {x}
  <2>1. U \in SUBSET N /\ Sum(U) = Sum(T) + u[x] /\ u[x] \in Nat
    BY <1>1
  <2>2. /\ Sum(T) \in Nat /\ Need(T) \in Nat /\ Held(T) \in Nat /\ Made(T) \in Nat
        /\ Need(U) \in Nat /\ Held(U) \in Nat /\ Made(U) \in Nat
    BY <1>3, <2>1
  <2>3. c * Sum(T) <= c * Made(T) + Need(T) + 16 * Held(T)
    BY <1>5
  <2>4. Of(U) = Of(T) \cup {q \in M : up[q] = x} /\ Of(T) \cap {q \in M : up[q] = x} = {}
    OBVIOUS
  <2> DEFINE h == Cardinality({q \in M : up[q] = x})
  <2>5. h \in Nat /\ Held(U) = Held(T) + h
    <3> DEFINE A == Of(T)
               B == {q \in M : up[q] = x}
    <3>1. IsFiniteSet(A) /\ IsFiniteSet(B) /\ A \cap B = {}
      <4>1. A \in SUBSET M /\ B \in SUBSET M
        OBVIOUS
      <4> HIDE DEF A, B
      <4>2. IsFiniteSet(A) /\ IsFiniteSet(B)
        BY <4>1, FS_Subset
      <4> QED  BY <2>4, <4>2 DEF A, B
    <3>2. Of(U) = A \cup B
      BY <2>4
    <3> HIDE DEF A, B, Of
    <3>3. Cardinality(A \cup B) = Cardinality(A) + Cardinality(B) - Cardinality(A \cap B)
      BY <3>1, FS_Union
    <3>4. Cardinality(A \cap B) = 0 /\ Cardinality(A) \in Nat /\ Cardinality(B) \in Nat
      BY <3>1, FS_EmptySet, FS_CardinalityType
    <3>5. Cardinality(A \cup B) = Cardinality(A) + Cardinality(B)
      BY <3>3, <3>4
    <3> QED  BY <3>2, <3>4, <3>5 DEF A, B
  <2>6. CASE x \in D
    <3>1. U \cap D = (T \cap D) \cup {x} /\ x \notin T \cap D /\ Ofs(U) = Ofs(T)
      BY <2>6
    <3>2. Made(U) = Made(T) + 1
      BY <1>3, <3>1, FS_AddElement
    <3>3. Need(U) = Need(T)
      BY <3>1
    <3>4. c * u[x] <= c + 16 * h
      BY <2>6
    <3> HIDE DEF Made, Need, Held, Sum, h, U
    <3>5. c * Sum(U) = c * Sum(T) + c * u[x] /\ c * Made(U) = c * Made(T) + c
      <4>1. \A a, b \in Nat : c * (a + b) = c * a + c * b /\ c * 1 = c
        OBVIOUS
      <4>2. c * (Sum(T) + u[x]) = c * Sum(T) + c * u[x]
        BY <2>1, <2>2, <4>1
      <4>3. c * (Made(T) + 1) = c * Made(T) + c
        BY <2>2, <4>1
      <4> QED  BY <2>1, <3>2, <4>2, <4>3
    <3>6. c * Sum(T) \in Int /\ c * u[x] \in Int /\ c * Made(T) \in Int
      BY <2>1, <2>2
    <3>7. c * Sum(U) <= c * Made(U) + Need(U) + 16 * Held(U)
      BY <2>2, <2>3, <2>5, <3>3, <3>4, <3>5, <3>6
    <3> QED  BY <2>1, <3>7 DEF U
  <2>7. CASE x \notin D
    <3>1. U \cap D = T \cap D /\ Ofs(U) = Ofs(T) \cup {of[x]} /\ Ofs(T) \in SUBSET E
      BY <2>7
    <3>2. of[x] \in E \ Ofs(T) /\ c * u[x] <= w[of[x]] /\ w[of[x]] \in Nat
      BY <2>7
    <3>3. Need(U) = Need(T) + w[of[x]]
      <4> HIDE DEF Ofs, U
      <4> QED  BY <1>2, <3>1, <3>2
    <3>4. Made(U) = Made(T)
      BY <3>1
    <3> HIDE DEF Made, Need, Held, Sum, h, U
    <3>5. c * Sum(U) = c * Sum(T) + c * u[x]
      BY <2>1, <2>2
    <3>6. c * Sum(T) \in Int /\ c * u[x] \in Int /\ c * Made(T) \in Int
      BY <2>1, <2>2
    <3>7. c * Sum(U) <= c * Made(U) + Need(U) + 16 * Held(U)
      BY <2>2, <2>3, <2>5, <3>2, <3>3, <3>4, <3>5, <3>6
    <3> QED  BY <2>1, <3>7 DEF U
  <2> QED  BY <2>6, <2>7
<1> HIDE DEF G
<1>6. N \in G
  BY <1>4, <1>5, SetInduction
<1>7. c * Sum(N) <= c * Made(N) + Need(N) + 16 * Held(N)
  BY <1>6 DEF G
<1>8. Need(N) <= SumFunctionOnSet(w, E) /\ SumFunctionOnSet(w, E) \in Nat
  <2>1. Ofs(N) \in SUBSET E
    OBVIOUS
  <2> HIDE DEF Ofs
  <2> QED  BY <2>1, SumMonotone
<1>9. Held(N) <= Cardinality(M) /\ Cardinality(M) \in Nat
  <2>1. Of(N) \in SUBSET M
    OBVIOUS
  <2> HIDE DEF Of
  <2> QED  BY <2>1, FS_Subset, FS_CardinalityType
<1>10. Made(N) = Cardinality(D) /\ Made(N) \in Nat /\ Need(N) \in Nat /\ Held(N) \in Nat /\ Sum(N) \in Nat
  <2>1. N \cap D = D
    OBVIOUS
  <2> QED  BY <1>3, <2>1
<1> HIDE DEF Need, Held, Made
<1>11. c * Made(N) \in Nat /\ c * Sum(N) \in Nat
  BY <1>10
<1>12. c * Sum(N) <= c * Made(N) + SumFunctionOnSet(w, E) + 16 * Cardinality(M)
  <2> HIDE DEF Sum
  <2> QED  BY <1>7, <1>8, <1>9, <1>10, <1>11
<1> QED  BY <1>10, <1>12

-----------------------------------------------------------------------------
(* The boot catalog. *)

\* One step of the walk of EfiEntry, at slot i, with f as the rest of it.
WalkStep(cat, f, i) ==
    IF i >= Slots \/ ~IsHeader(cat.slot[i]) THEN NoEntry
    ELSE IF cat.slot[i].efi /\ cat.slot[i].count >= 1 THEN EntryAt(cat, i + 1)
    ELSE IF cat.slot[i].id = "final header" THEN NoEntry
    ELSE f[i + 1 + cat.slot[i].count]

IsWalk(cat, f) == f = [i \in Nat |-> WalkStep(cat, f, i)]

LEMMA CatalogTypes ==
    ASSUME NEW cat \in Catalog, NEW i \in Nat, i < Slots
    PROVE  /\ cat.slot[i].count \in Nat
           /\ cat.slot[i].efi \in BOOLEAN
           /\ Behind(cat, i) \in Nat /\ i < Behind(cat, i)
<1>1. cat.slot[i] \in Slot
  BY SlotsAssumption DEF Catalog
<1>2. cat.slot[i].count \in Nat /\ cat.slot[i].efi \in BOOLEAN
  BY <1>1 DEF Slot
<1> QED  BY <1>2 DEF Behind

\* The recursion of EfiEntry defines a function: it runs to higher slots only.
LEMMA WalkExists ==
    ASSUME NEW cat \in Catalog
    PROVE  \E f : IsWalk(cat, f)
<1> DEFINE Right(f, m) == \A i \in Nat : i + m >= Slots => f[i] = WalkStep(cat, f, i)
           Good(m) == \E f : Right(f, m)
           Next1(f) == [i \in Nat |-> WalkStep(cat, f, i)]
<1>1. Good(0)
  <2> DEFINE f == [i \in Nat |-> NoEntry]
  <2>1. Right(f, 0)
    BY SlotsAssumption DEF WalkStep
  <2> QED  BY <2>1
<1>2. ASSUME NEW m \in Nat, NEW f, Right(f, m)
      PROVE  Right(Next1(f), m + 1)
  <2> DEFINE g == Next1(f)
  <2> SUFFICES ASSUME NEW i \in Nat, i + (m + 1) >= Slots
               PROVE  g[i] = WalkStep(cat, g, i)
    OBVIOUS
  <2>1. g[i] = WalkStep(cat, f, i)
    OBVIOUS
  <2>2. CASE i >= Slots
    BY <2>1, <2>2 DEF WalkStep
  <2>3. CASE i < Slots
    <3> DEFINE b == Behind(cat, i)
    <3>1. b \in Nat /\ i < b
      BY <2>3, CatalogTypes
    <3>2. b + m >= Slots
      <4> HIDE DEF b
      <4> QED  BY <3>1, SlotsAssumption
    <3>3. f[b] = WalkStep(cat, f, b)
      <4> HIDE DEF b
      <4> QED  BY <3>1, <3>2, <1>2
    <3>4. g[b] = f[b]
      <4> HIDE DEF b
      <4> QED  BY <3>1, <3>3
    <3> HIDE DEF g
    <3> QED  BY <2>1, <3>4 DEF WalkStep, Behind
  <2> QED  BY <2>2, <2>3, SlotsAssumption
<1>3. ASSUME NEW m \in Nat, Good(m) PROVE Good(m + 1)
  <2>1. PICK f : Right(f, m)
    BY <1>3
  <2> HIDE DEF Right
  <2> QED  BY <1>2, <2>1
<1> HIDE DEF Good
<1>4. \A m \in Nat : Good(m)
  <2> DEFINE Bad == {m \in Nat : ~Good(m)}
  <2>1. CASE Bad = {}
    BY <2>1
  <2>2. CASE Bad # {}
    <3>1. PICK m \in Bad : \A n \in Bad : m <= n
      BY <2>2, LeastNatural
    <3>2. m # 0
      BY <1>1
    <3>3. m - 1 \in Nat /\ m = (m - 1) + 1
      BY <3>2
    <3>4. Good(m - 1)
      BY <3>1, <3>3
    <3> QED  BY <3>3, <3>4, <1>3
  <2> QED  BY <2>1, <2>2
<1>5. PICK f : Right(f, Slots)
  BY <1>4, SlotsAssumption DEF Good
<1>6. \A i \in Nat : f[i] = WalkStep(cat, f, i)
  BY <1>5, SlotsAssumption
<1>7. \A i \in Nat : WalkStep(cat, Next1(f), i) = WalkStep(cat, f, i)
  <2> SUFFICES ASSUME NEW i \in Nat
               PROVE  WalkStep(cat, Next1(f), i) = WalkStep(cat, f, i)
    OBVIOUS
  <2> DEFINE b == Behind(cat, i)
  <2>1. i < Slots => b \in Nat
    BY CatalogTypes
  <2> DEFINE g == Next1(f)
  <2>2. i < Slots => g[b] = f[b]
    <3> HIDE DEF b
    <3> QED  BY <2>1, <1>6
  <2>3. i >= Slots \/ i < Slots
    BY SlotsAssumption
  <2>4. WalkStep(cat, g, i) = WalkStep(cat, f, i)
    <3> HIDE DEF g
    <3> QED  BY <2>2, <2>3, Zenon DEF WalkStep, Behind
  <2> QED  BY <2>4
<1>8. IsWalk(cat, Next1(f))
  BY <1>7 DEF IsWalk
<1> QED  BY <1>8

LEMMA EntryIsWalked ==
    ASSUME NEW cat \in Catalog
    PROVE  \E f : /\ IsWalk(cat, f)
                  /\ EfiEntry(cat) = IF ~cat.valid THEN NoEntry
                                     ELSE IF cat.slot[0].efi THEN EntryAt(cat, 1) ELSE f[2]
<1> DEFINE f == CHOOSE f : IsWalk(cat, f)
<1>1. IsWalk(cat, f)
  BY WalkExists
<1>2. EfiEntry(cat) = IF ~cat.valid THEN NoEntry
                       ELSE IF cat.slot[0].efi THEN EntryAt(cat, 1) ELSE f[2]
  BY DEF EfiEntry, IsWalk, WalkStep
<1> HIDE DEF f
<1> QED  BY <1>1, <1>2

\* The starts of sections are themselves closed: what is behind one that says
\* another one follows is a start.
LEMMA StartsClosed ==
    ASSUME NEW cat \in Catalog
    PROVE  /\ 2 \in SectionStarts(cat)
           /\ SectionStarts(cat) \subseteq 2 .. Slots - 1
           /\ \A i \in SectionStarts(cat) :
                 cat.slot[i].id = "header" /\ Behind(cat, i) < Slots
                    => Behind(cat, i) \in SectionStarts(cat)
<1>1. 2 \in 2 .. Slots - 1
  BY SlotsAssumption
<1>2. SectionStarts(cat) \subseteq 2 .. Slots - 1
  BY DEF SectionStarts
<1>3. \A i \in 2 .. Slots - 1 : Behind(cat, i) < Slots => Behind(cat, i) \in 2 .. Slots - 1
  <2> SUFFICES ASSUME NEW i \in 2 .. Slots - 1, Behind(cat, i) < Slots
               PROVE  Behind(cat, i) \in 2 .. Slots - 1
    OBVIOUS
  <2>1. i \in Nat /\ 2 <= i /\ i < Slots
    BY SlotsAssumption
  <2>2. Behind(cat, i) \in Nat /\ i < Behind(cat, i)
    BY <2>1, CatalogTypes
  <2> QED  BY <2>1, <2>2, SlotsAssumption
<1>4. ASSUME NEW i \in SectionStarts(cat), cat.slot[i].id = "header", Behind(cat, i) < Slots
      PROVE  Behind(cat, i) \in SectionStarts(cat)
  BY <1>2, <1>3, <1>4 DEF SectionStarts
<1> QED  BY <1>1, <1>2, <1>4 DEF SectionStarts

\* Every set of slots that holds the first section, and with a start what is
\* behind it, holds all of them.
LEMMA StartsLeast ==
    ASSUME NEW cat \in Catalog, NEW S \in SUBSET (2 .. Slots - 1),
           2 \in S,
           \A i \in S : cat.slot[i].id = "header" /\ Behind(cat, i) < Slots
                          => Behind(cat, i) \in S
    PROVE  SectionStarts(cat) \subseteq S
BY DEF SectionStarts

\* The walk gets to every start up to the first section for EFI.
LEMMA WalkReaches ==
    ASSUME NEW cat \in Catalog, NEW f, IsWalk(cat, f), NEW i \in SectionStarts(cat),
           \A j \in EfiSections(cat) : ~(j < i)
    PROVE  f[i] = f[2]
<1> DEFINE Passed(k) == \E j \in EfiSections(cat) : j < k
           S == {k \in SectionStarts(cat) : Passed(k) \/ f[k] = f[2]}
<1>1. S \in SUBSET (2 .. Slots - 1) /\ 2 \in S
  BY StartsClosed
<1>2. ASSUME NEW k \in S, cat.slot[k].id = "header", Behind(cat, k) < Slots
      PROVE  Behind(cat, k) \in S
  <2> DEFINE b == Behind(cat, k)
  <2>1. k \in SectionStarts(cat) /\ b \in SectionStarts(cat)
    BY <1>2, StartsClosed
  <2>2. k \in Nat /\ k < Slots
    BY <2>1, StartsClosed, SlotsAssumption
  <2>3. b \in Nat /\ k < b /\ cat.slot[k].efi \in BOOLEAN /\ cat.slot[k].count \in Nat
    BY <2>2, CatalogTypes
  <2>4. CASE Passed(k)
    <3>1. PICK j \in EfiSections(cat) : j < k
      BY <2>4
    <3>2. j \in Nat
      BY StartsClosed, SlotsAssumption DEF EfiSections
    <3>3. j < b
      BY <3>1, <3>2, <2>2, <2>3
    <3> QED  BY <2>1, <3>3
  <2>5. CASE k \in EfiSections(cat)
    BY <2>1, <2>3, <2>5
  <2>6. CASE k \notin EfiSections(cat) /\ f[k] = f[2]
    <3>1. IsHeader(cat.slot[k])
      BY <1>2 DEF IsHeader
    <3>2. ~(cat.slot[k].efi /\ cat.slot[k].count >= 1)
      BY <2>1, <2>6, <3>1 DEF EfiSections
    <3>3. f[k] = WalkStep(cat, f, k)
      BY <2>2 DEF IsWalk
    <3>4. f[k] = f[b]
      BY <1>2, <2>2, <3>1, <3>2, <3>3, SlotsAssumption DEF WalkStep, Behind
    <3> QED  BY <2>1, <2>6, <3>4
  <2> QED  BY <2>4, <2>5, <2>6
<1>3. SectionStarts(cat) \subseteq S
  <2> HIDE DEF S
  <2> QED  BY <1>1, <1>2, StartsLeast
<1> QED  BY <1>3

\* Without a section for EFI the walk finds nothing.
LEMMA WalkFindsNothing ==
    ASSUME NEW cat \in Catalog, NEW f, IsWalk(cat, f), EfiSections(cat) = {}
    PROVE  f[2] = NoEntry
<1> DEFINE T == {n \in Nat : \E i \in SectionStarts(cat) : n = Slots - i}
<1>1. Slots - 2 \in T
  BY StartsClosed, SlotsAssumption
<1>2. PICK n \in T : \A m \in T : n <= m
  <2> HIDE DEF T
  <2>1. T # {}
    BY <1>1
  <2>2. T \in SUBSET Nat
    BY DEF T
  <2> QED  BY <2>1, <2>2, LeastNatural
<1>3. PICK i \in SectionStarts(cat) : n = Slots - i
  BY <1>2
<1>4. i \in Nat /\ i < Slots
  BY StartsClosed, SlotsAssumption
<1>5. \A k \in SectionStarts(cat) : k \in Nat /\ k < Slots /\ Slots - k \in T
  BY StartsClosed, SlotsAssumption
<1>6. \A k \in SectionStarts(cat) : k <= i
  <2> HIDE DEF T
  <2> QED  BY <1>2, <1>3, <1>4, <1>5, SlotsAssumption
<1>7. f[i] = f[2]
  BY WalkReaches
<1>8. f[i] = WalkStep(cat, f, i)
  BY <1>4 DEF IsWalk
<1> DEFINE b == Behind(cat, i)
<1>9. b \in Nat /\ i < b /\ cat.slot[i].efi \in BOOLEAN /\ cat.slot[i].count \in Nat
  BY <1>4, CatalogTypes
<1>10. f[b] = WalkStep(cat, f, b)
  BY <1>9 DEF IsWalk
<1>11. cat.slot[i].id = "header" => b >= Slots
  <2>1. cat.slot[i].id = "header" /\ b < Slots => b <= i
    BY <1>6, StartsClosed
  <2> QED  BY <2>1, <1>4, <1>9, SlotsAssumption
<1>12. b >= Slots => f[b] = NoEntry
  BY <1>10 DEF WalkStep
<1>13. CASE ~IsHeader(cat.slot[i])
  BY <1>7, <1>8, <1>13 DEF WalkStep
<1>14. CASE IsHeader(cat.slot[i])
  <2>1. ~(cat.slot[i].efi /\ cat.slot[i].count >= 1)
    BY <1>14 DEF EfiSections
  <2>2. ~(i >= Slots)
    BY <1>4, SlotsAssumption
  <2>3. f[i] = IF cat.slot[i].id = "final header" THEN NoEntry ELSE f[b]
    BY <1>8, <1>14, <2>1, <2>2 DEF WalkStep, Behind
  <2> QED  BY <1>7, <1>11, <1>12, <1>14, <2>3 DEF IsHeader
<1> QED  BY <1>13, <1>14

LEMMA WalkFindsFirst ==
    ASSUME NEW cat \in Catalog, NEW f, IsWalk(cat, f), EfiSections(cat) # {}
    PROVE  /\ Min(EfiSections(cat)) \in 2 .. Slots - 1
           /\ f[2] = EntryAt(cat, Min(EfiSections(cat)) + 1)
<1> DEFINE T == EfiSections(cat)
           i == Min(T)
<1>1. T \in SUBSET (2 .. Slots - 1) /\ T \in SUBSET SectionStarts(cat)
  BY StartsClosed DEF EfiSections
<1>2. T \in SUBSET Nat /\ T # {}
  BY <1>1, SlotsAssumption
<1>3. i \in T /\ \A j \in T : i <= j
  <2> HIDE DEF T
  <2> QED  BY <1>2, MinIsLeast
<1>4. i \in SectionStarts(cat) /\ i \in Nat /\ i < Slots /\ i \in 2 .. Slots - 1
  <2> HIDE DEF T, i
  <2> QED  BY <1>1, <1>2, <1>3, SlotsAssumption
<1>5. \A j \in T : ~(j < i)
  <2> HIDE DEF i, T
  <2> QED  BY <1>2, <1>3, <1>4
<1> HIDE DEF i
<1>6. f[i] = f[2]
  BY <1>4, <1>5, WalkReaches
<1>7. f[i] = WalkStep(cat, f, i)
  BY <1>4 DEF IsWalk
<1>8. IsHeader(cat.slot[i]) /\ cat.slot[i].efi /\ cat.slot[i].count >= 1
  BY <1>3 DEF EfiSections
<1>9. ~(i >= Slots)
  BY <1>4, SlotsAssumption
<1>10. f[i] = EntryAt(cat, i + 1)
  BY <1>7, <1>8, <1>9 DEF WalkStep
<1> QED  BY <1>4, <1>6, <1>10 DEF i

\* The walk through a catalog ends where UEFI looks, whatever the catalog; it
\* leaves the sector only for an EFI header in the last slot.
THEOREM WalkFindsBootEntry ==
    ASSUME NEW cat \in Catalog
    PROVE  /\ EfiEntry(cat) \in NoEntry .. Beyond
           /\ BootEntry(cat) = IF EfiEntry(cat) = Beyond THEN NoEntry ELSE EfiEntry(cat)
           /\ EfiEntry(cat) = Beyond => Slots - 1 \in EfiSections(cat)
<1>1. PICK f : /\ IsWalk(cat, f)
               /\ EfiEntry(cat) = IF ~cat.valid THEN NoEntry
                                  ELSE IF cat.slot[0].efi THEN EntryAt(cat, 1) ELSE f[2]
  BY EntryIsWalked
<1> DEFINE first == IF cat.slot[0].efi THEN {1}
                    ELSE {1 + Min(S) : S \in {EfiSections(cat)} \ {{}}}
           ready == {i \in first : i < Slots /\ cat.slot[i].id = "bootable"}
<1>2. BootEntry(cat) = IF cat.valid /\ ready # {} THEN Min(ready) ELSE NoEntry
  BY DEF BootEntry
<1>3. \A n \in Nat : Min({n}) = n
  BY MinIsLeast
<1>4. ASSUME NEW n \in Nat, n <= Slots, first = {n}
      PROVE  /\ EntryAt(cat, n) \in NoEntry .. Beyond
             /\ EntryAt(cat, n) = Beyond <=> n = Slots
             /\ (IF ready # {} THEN Min(ready) ELSE NoEntry)
                    = IF n = Slots THEN NoEntry ELSE EntryAt(cat, n)
  <2>1. ready = {n} \/ ready = {}
    BY <1>4
  <2>2. ready = {n} <=> n < Slots /\ cat.slot[n].id = "bootable"
    BY <1>4
  <2>3. Min({n}) = n
    BY <1>3
  <2> HIDE DEF first, ready
  <2>4. CASE n < Slots
    <3>1. ~(n >= Slots) /\ n # Slots
      BY <2>4, SlotsAssumption
    <3>2. EntryAt(cat, n) = IF ready = {n} THEN n ELSE NoEntry
      BY <2>2, <2>4, <3>1 DEF EntryAt
    <3> QED  BY <2>1, <2>3, <2>4, <3>1, <3>2, SlotsAssumption DEF NoEntry, Beyond
  <2>5. CASE n = Slots
    <3>1. n >= Slots /\ ~(n < Slots)
      BY <2>5, SlotsAssumption
    <3>2. EntryAt(cat, n) = Beyond /\ ready = {}
      BY <2>1, <2>2, <3>1 DEF EntryAt
    <3> QED  BY <2>5, <3>2, SlotsAssumption DEF NoEntry, Beyond
  <2> QED  BY <1>4, <2>4, <2>5, SlotsAssumption
<1>5. CASE ~cat.valid
  BY <1>1, <1>2, <1>5, SlotsAssumption DEF NoEntry, Beyond
<1>6. CASE cat.valid /\ cat.slot[0].efi
  <2>1. first = {1}
    BY <1>6
  <2>2. EfiEntry(cat) = EntryAt(cat, 1)
    BY <1>1, <1>6
  <2>3. 1 \in Nat /\ 1 <= Slots /\ 1 # Slots
    BY SlotsAssumption
  <2> HIDE DEF first, ready
  <2> QED  BY <1>2, <1>4, <1>6, <2>1, <2>2, <2>3
<1>7. CASE cat.valid /\ ~cat.slot[0].efi /\ EfiSections(cat) = {}
  <2>1. first = {}
    BY <1>7
  <2>2. ready = {}
    BY <2>1
  <2>3. EfiEntry(cat) = NoEntry
    BY <1>1, <1>7, WalkFindsNothing
  <2> HIDE DEF first, ready
  <2> QED  BY <1>2, <2>2, <2>3, SlotsAssumption DEF NoEntry, Beyond
<1>8. CASE cat.valid /\ ~cat.slot[0].efi /\ EfiSections(cat) # {}
  <2> DEFINE m == Min(EfiSections(cat))
             n == 1 + m
  <2>1. first = {n}
    BY <1>8
  <2>2. m \in 2 .. Slots - 1 /\ f[2] = EntryAt(cat, m + 1)
    BY <1>1, <1>8, WalkFindsFirst
  <2>3. m \in EfiSections(cat)
    <3>1. EfiSections(cat) \subseteq Nat
      BY SlotsAssumption DEF EfiSections, SectionStarts
    <3> QED  BY <1>8, <3>1, MinIsLeast
  <2> HIDE DEF m
  <2>4. n \in Nat /\ n <= Slots /\ n = m + 1 /\ (n = Slots => m = Slots - 1)
    BY <2>2, SlotsAssumption
  <2>5. EfiEntry(cat) = EntryAt(cat, n)
    BY <1>1, <1>8, <2>2, <2>4
  <2> HIDE DEF first, ready, n
  <2> QED  BY <1>2, <1>4, <1>8, <2>1, <2>3, <2>4, <2>5
<1> QED  BY <1>5, <1>6, <1>7, <1>8

-----------------------------------------------------------------------------
(* Paths. *)

\* p is q, or a directory above it.
Above(p, q) == Len(p) <= Len(q) /\ \A i \in 1 .. Len(p) : p[i] = q[i]

LEMMA PathFacts ==
    ASSUME NEW p \in Paths
    PROVE  /\ Len(p) \in Nat /\ DOMAIN p = 1 .. Len(p)
           /\ \A i \in 1 .. Len(p) : p[i] \in Names
           /\ p = <<>> <=> Len(p) = 0
BY DEF Paths

LEMMA SamePath ==
    ASSUME NEW p \in Paths, NEW q \in Paths, Len(p) = Len(q),
           \A i \in 1 .. Len(p) : p[i] = q[i]
    PROVE  p = q
BY SeqEqual DEF Paths

LEMMA ParentFacts ==
    ASSUME NEW p \in Paths, p # <<>>
    PROVE  /\ Parent(p) \in Paths
           /\ Len(Parent(p)) = Len(p) - 1
           /\ \A i \in 1 .. Len(p) - 1 : Parent(p)[i] = p[i]
<1>1. Len(p) \in Nat /\ Len(p) >= 1 /\ \A i \in 1 .. Len(p) : p[i] \in Names
  BY PathFacts
<1>2. Parent(p) = SubSeq(p, 1, Len(p) - 1)
  BY DEF Parent, SX!Front
<1> DEFINE n == Len(p) - 1
<1>3. n \in Nat /\ \A i \in 1 .. n : p[i] \in Names
  BY <1>1
<1> HIDE DEF n
<1>4. /\ SubSeq(p, 1, n) \in Seq(Names)
      /\ Len(SubSeq(p, 1, n)) = n
      /\ \A i \in 1 .. n : SubSeq(p, 1, n)[i] = p[i]
  BY <1>3, SubSeqProperties
<1> QED  BY <1>2, <1>4 DEF Paths, n

LEMMA PrefixFacts ==
    ASSUME NEW p \in Paths, NEW n \in 1 .. Len(p)
    PROVE  /\ SubSeq(p, 1, n) \in Paths
           /\ Len(SubSeq(p, 1, n)) = n
           /\ \A i \in 1 .. n : SubSeq(p, 1, n)[i] = p[i]
<1>1. Len(p) \in Nat /\ \A i \in 1 .. Len(p) : p[i] \in Names
  BY PathFacts
<1> QED  BY <1>1, SubSeqProperties DEF Paths

LEMMA AboveOrder ==
    ASSUME NEW p \in Paths, NEW q \in Paths, NEW r \in Paths
    PROVE  /\ Above(p, p)
           /\ Above(p, q) /\ Above(q, r) => Above(p, r)
           /\ Above(p, q) /\ Above(q, p) => p = q
           /\ Above(p, r) /\ Above(q, r) => Above(p, q) \/ Above(q, p)
<1>1. Len(p) \in Nat /\ Len(q) \in Nat /\ Len(r) \in Nat
  BY PathFacts
<1>2. Above(p, q) /\ Above(q, p) => p = q
  BY <1>1, SamePath DEF Above
<1>3. Above(p, q) /\ Above(q, r) => Above(p, r)
  BY <1>1 DEF Above
<1>4. Above(p, r) /\ Above(q, r) => Above(p, q) \/ Above(q, p)
  BY <1>1 DEF Above
<1> QED  BY <1>1, <1>2, <1>3, <1>4 DEF Above

LEMMA RootAbove ==
    ASSUME NEW p \in Paths
    PROVE  Above(<<>>, p) /\ (Above(p, <<>>) => p = <<>>)
BY PathFacts DEF Above

\* What is strictly above p is above its parent.
LEMMA ParentAbove ==
    ASSUME NEW p \in Paths, NEW q \in Paths, q # <<>>
    PROVE  /\ Above(Parent(q), q) /\ Parent(q) # q
           /\ Above(p, q) /\ p # q => Above(p, Parent(q))
<1>1. Len(p) \in Nat /\ Len(q) \in Nat /\ Len(q) >= 1
  BY PathFacts
<1>2. /\ Len(Parent(q)) = Len(q) - 1
      /\ \A i \in 1 .. Len(q) - 1 : Parent(q)[i] = q[i]
  BY ParentFacts
<1>3. Above(p, q) /\ p # q => Len(p) < Len(q)
  BY <1>1, SamePath DEF Above
<1> QED  BY <1>1, <1>2, <1>3 DEF Above

LEMMA SameParent ==
    ASSUME NEW p \in Paths, NEW q \in Paths, p # <<>>, q # <<>>,
           Parent(p) = Parent(q), Above(p, q)
    PROVE  p = q
<1>1. Len(p) = Len(q) /\ Len(p) \in Nat
  BY ParentFacts, PathFacts
<1> QED  BY <1>1, SamePath DEF Above

\* The step from a directory towards a path below it.
LEMMA StepTowards ==
    ASSUME NEW d \in Paths, NEW q \in Paths, Above(d, q), d # q
    PROVE  \E c \in Paths : /\ c # <<>> /\ Parent(c) = d /\ Above(c, q)
                            /\ c = q \/ c \in Prefixes(q)
<1> DEFINE n == Len(d) + 1
           c == SubSeq(q, 1, n)
<1>1. Len(d) \in Nat /\ Len(q) \in Nat /\ Len(d) <= Len(q)
  BY PathFacts DEF Above
<1>2. Len(d) # Len(q)
  BY SamePath DEF Above
<1>3. n \in 1 .. Len(q) /\ n - 1 = Len(d)
  BY <1>1, <1>2
<1>4. c \in Paths /\ Len(c) = n /\ \A i \in 1 .. n : c[i] = q[i]
  <2> HIDE DEF n
  <2> QED  BY <1>3, PrefixFacts
<1>5. c # <<>>
  BY <1>1, <1>4, PathFacts
<1>6. Above(c, q)
  <2> HIDE DEF c, n
  <2> QED  BY <1>3, <1>4 DEF Above
<1>7. Parent(c) = d
  <2>1. Parent(c) \in Paths /\ Len(Parent(c)) = n - 1 /\ \A i \in 1 .. n - 1 : Parent(c)[i] = c[i]
    <3> HIDE DEF c
    <3> QED  BY <1>4, <1>5, ParentFacts
  <2>2. \A i \in 1 .. Len(d) : Parent(c)[i] = d[i]
    <3> HIDE DEF c
    <3> QED  BY <1>1, <1>3, <1>4, <2>1 DEF Above
  <2> HIDE DEF c
  <2> QED  BY <1>3, <2>1, <2>2, SamePath
<1>8. c = q \/ c \in Prefixes(q)
  <2>1. CASE n = Len(q)
    <3> HIDE DEF c, n
    <3> QED  BY <1>3, <1>4, <2>1, SamePath
  <2>2. CASE n # Len(q)
    <3>1. n \in 1 .. Len(q) - 1
      <4> HIDE DEF n
      <4> QED  BY <1>1, <1>3, <2>2
    <3> QED  BY <3>1 DEF Prefixes
  <2> QED  BY <2>1, <2>2
<1> HIDE DEF c
<1> QED  BY <1>4, <1>5, <1>6, <1>7, <1>8

LEMMA PrefixesAbove ==
    ASSUME NEW p \in Paths, NEW q \in Prefixes(p)
    PROVE  /\ q \in Paths /\ q # <<>> /\ Above(q, p) /\ q # p
           /\ Len(q) \in Nat /\ Len(q) < Len(p)
           /\ Parent(q) = <<>> \/ Parent(q) \in Prefixes(p)
<1>1. PICK n \in 1 .. Len(p) - 1 : q = SubSeq(p, 1, n)
  BY DEF Prefixes
<1>2. Len(p) \in Nat /\ n \in 1 .. Len(p) /\ n < Len(p)
  BY PathFacts
<1>3. q \in Paths /\ Len(q) = n /\ \A i \in 1 .. n : q[i] = p[i]
  BY <1>1, <1>2, PrefixFacts
<1>4. q # <<>>
  BY <1>2, <1>3, PathFacts
<1>5. Parent(q) = <<>> \/ Parent(q) \in Prefixes(p)
  <2>1. Parent(q) \in Paths /\ Len(Parent(q)) = n - 1 /\ \A i \in 1 .. n - 1 : Parent(q)[i] = q[i]
    BY <1>3, <1>4, ParentFacts
  <2>2. CASE n = 1
    BY <2>1, <2>2, PathFacts
  <2>3. CASE n # 1
    <3> DEFINE m == n - 1
    <3>1. m \in 1 .. Len(p) - 1 /\ m \in 1 .. Len(p)
      BY <1>2, <2>3
    <3>2. SubSeq(p, 1, m) \in Paths /\ Len(SubSeq(p, 1, m)) = m /\ \A i \in 1 .. m : SubSeq(p, 1, m)[i] = p[i]
      <4> HIDE DEF m
      <4> QED  BY <3>1, PrefixFacts
    <3>3. \A i \in 1 .. m : Parent(q)[i] = SubSeq(p, 1, m)[i]
      <4>1. \A i \in 1 .. m : i \in 1 .. n
        BY <1>2
      <4> QED  BY <1>3, <2>1, <3>2, <4>1
    <3>4. Parent(q) = SubSeq(p, 1, m)
      <4> HIDE DEF m
      <4>1. Len(Parent(q)) = m
        BY <2>1 DEF m
      <4> QED  BY <2>1, <3>2, <3>3, <4>1, SamePath
    <3> QED  BY <3>1, <3>4 DEF Prefixes
  <2> QED  BY <2>2, <2>3
<1> QED  BY <1>2, <1>3, <1>4, <1>5 DEF Above

LEMMA IsPrefix ==
    ASSUME NEW p \in Paths, NEW q \in Paths, Above(p, q), p # q, p # <<>>
    PROVE  p \in Prefixes(q)
<1>1. Len(p) \in Nat /\ Len(q) \in Nat /\ Len(p) <= Len(q) /\ Len(p) >= 1
  BY PathFacts DEF Above
<1>2. Len(p) # Len(q)
  BY SamePath DEF Above
<1>3. Len(p) \in 1 .. Len(q) - 1 /\ Len(p) \in 1 .. Len(q)
  BY <1>1, <1>2
<1> DEFINE c == SubSeq(q, 1, Len(p))
<1>4. c \in Paths /\ Len(c) = Len(p) /\ \A i \in 1 .. Len(p) : c[i] = q[i]
  BY <1>3, PrefixFacts
<1>5. \A i \in 1 .. Len(p) : p[i] = q[i]
  BY DEF Above
<1>6. p = c
  <2> HIDE DEF c
  <2> QED  BY <1>4, <1>5, SamePath
<1> QED  BY <1>3, <1>6 DEF Prefixes

-----------------------------------------------------------------------------
(* The walk through a tree: t is the tree, st the stack, li the listing. *)

\* Still to be copied: below a directory on the stack, or in the listing or
\* below an entry of it.
Ahead(t, st, li, p) ==
    \/ \E i \in DOMAIN st : st[i] # p /\ Above(st[i], p)
    \/ \E j \in li : Above(t[j].path, p)

Done(t, st, li) == {e \in SX!ToSet(t) : ~Ahead(t, st, li, e.path)}

\* What is still to be done falls apart: none of it is above another part of it.
Apart(t, st, li) ==
    /\ \A i, j \in DOMAIN st : i # j => ~Above(st[i], st[j])
    /\ \A i, j \in li : i # j => ~Above(t[i].path, t[j].path)
    /\ \A i \in DOMAIN st, j \in li :
          ~Above(st[i], t[j].path) /\ ~Above(t[j].path, st[i])

LEMMA TreeFacts ==
    ASSUME NEW t \in Seq(Entry), IsTree(t)
    PROVE  /\ Len(t) \in Nat /\ DOMAIN t = 1 .. Len(t)
           /\ \A i \in DOMAIN t : /\ t[i] \in Entry /\ t[i] \in SX!ToSet(t)
                                  /\ t[i].path \in Paths /\ t[i].path # <<>>
           /\ \A e \in SX!ToSet(t) : /\ e \in Entry /\ e.path \in Paths /\ e.path # <<>>
                                     /\ \E i \in DOMAIN t : e = t[i]
           /\ \A d, e \in SX!ToSet(t) : d.path = e.path => d = e
           /\ \A e \in SX!ToSet(t) : \A q \in Prefixes(e.path) :
                 \E d \in SX!ToSet(t) : d.path = q /\ d.kind = "dir"
<1>1. Len(t) \in Nat /\ DOMAIN t = 1 .. Len(t) /\ \A i \in DOMAIN t : t[i] \in Entry
  OBVIOUS
<1>2. \A e \in Entry : e.path \in Paths
  BY DEF Entry
<1>3. \A i \in DOMAIN t : t[i] \in SX!ToSet(t)
  BY DEF SX!ToSet
<1>4. \A e \in SX!ToSet(t) : \E i \in DOMAIN t : e = t[i]
  BY DEF SX!ToSet
<1>5. \A i \in DOMAIN t : t[i].path # <<>>
  BY DEF IsTree
<1>6. \A i, j \in DOMAIN t : t[i].path = t[j].path => i = j
  BY DEF IsTree
<1>7. \A i \in DOMAIN t : \A q \in Prefixes(t[i].path) :
         \E j \in DOMAIN t : t[j].path = q /\ t[j].kind = "dir"
  BY DEF IsTree
<1>8. \A d, e \in SX!ToSet(t) : d.path = e.path => d = e
  BY <1>4, <1>6
<1>9. \A e \in SX!ToSet(t) : \A q \in Prefixes(e.path) :
         \E d \in SX!ToSet(t) : d.path = q /\ d.kind = "dir"
  BY <1>3, <1>4, <1>7
<1> QED  BY <1>1, <1>2, <1>3, <1>4, <1>5, <1>8, <1>9

\* Only a directory has entries below it.
LEMMA BelowDir ==
    ASSUME NEW t \in Seq(Entry), IsTree(t),
           NEW d \in SX!ToSet(t), NEW e \in SX!ToSet(t), Above(d.path, e.path), d # e
    PROVE  d.kind = "dir" /\ d.path # e.path
<1>1. d.path # e.path /\ d.path \in Paths /\ e.path \in Paths /\ d.path # <<>>
  BY TreeFacts
<1>2. d.path \in Prefixes(e.path)
  BY <1>1, IsPrefix
<1>3. PICK o \in SX!ToSet(t) : o.path = d.path /\ o.kind = "dir"
  <2>1. \A q \in Prefixes(e.path) : \E o \in SX!ToSet(t) : o.path = q /\ o.kind = "dir"
    BY TreeFacts
  <2> QED  BY <1>2, <2>1
<1>4. o = d
  BY <1>3, TreeFacts
<1> QED  BY <1>1, <1>3, <1>4

\* An entry that is not a directory is done with.
LEMMA FileDone ==
    ASSUME NEW t \in Seq(Entry), IsTree(t), NEW st \in Seq(Paths), NEW li \in SUBSET DOMAIN t,
           NEW m \in li, Apart(t, st, li), t[m].kind # "dir"
    PROVE  /\ Done(t, st, li \ {m}) = Done(t, st, li) \cup {t[m]}
           /\ t[m] \notin Done(t, st, li)
           /\ Apart(t, st, li \ {m})
<1>1. t[m] \in SX!ToSet(t) /\ t[m].path \in Paths
  BY TreeFacts
<1>2. t[m] \notin Done(t, st, li)
  BY <1>1, AboveOrder DEF Done, Ahead
<1>3. \A p : Ahead(t, st, li \ {m}, p) => Ahead(t, st, li, p)
  BY DEF Ahead
<1>4. ~Ahead(t, st, li \ {m}, t[m].path)
  BY DEF Ahead, Apart
<1>5. ASSUME NEW e \in SX!ToSet(t), Ahead(t, st, li, e.path), ~Ahead(t, st, li \ {m}, e.path)
      PROVE  e = t[m]
  <2>1. Above(t[m].path, e.path)
    BY <1>5 DEF Ahead
  <2> QED  BY <1>1, <2>1, BelowDir
<1>6. Done(t, st, li \ {m}) = Done(t, st, li) \cup {t[m]}
  BY <1>1, <1>3, <1>4, <1>5 DEF Done
<1>7. Apart(t, st, li \ {m})
  BY DEF Apart
<1> QED  BY <1>2, <1>6, <1>7

\* A directory is done with as well, and what is below it stays ahead.
LEMMA DirDone ==
    ASSUME NEW t \in Seq(Entry), IsTree(t), NEW st \in Seq(Paths), NEW li \in SUBSET DOMAIN t,
           NEW m \in li, Apart(t, st, li)
    PROVE  /\ Done(t, Append(st, t[m].path), li \ {m}) = Done(t, st, li) \cup {t[m]}
           /\ t[m] \notin Done(t, st, li)
           /\ Apart(t, Append(st, t[m].path), li \ {m})
<1> DEFINE sa == Append(st, t[m].path)
           n  == Len(st) + 1
<1>1. t[m] \in SX!ToSet(t) /\ t[m].path \in Paths
  BY TreeFacts
<1>2. t[m] \notin Done(t, st, li)
  BY <1>1, AboveOrder DEF Done, Ahead
<1>3. /\ DOMAIN sa = DOMAIN st \cup {n} /\ n \notin DOMAIN st
      /\ sa[n] = t[m].path /\ \A i \in DOMAIN st : sa[i] = st[i]
  BY <1>1, AppendProperties
<1> HIDE DEF sa, n
<1>4. ~Ahead(t, sa, li \ {m}, t[m].path)
  BY <1>3 DEF Ahead, Apart
<1>5. \A p : Ahead(t, sa, li \ {m}, p) => Ahead(t, st, li, p)
  BY <1>3 DEF Ahead
<1>6. ASSUME NEW e \in SX!ToSet(t), Ahead(t, st, li, e.path), ~Ahead(t, sa, li \ {m}, e.path)
      PROVE  e = t[m]
  <2>1. CASE \E i \in DOMAIN st : st[i] # e.path /\ Above(st[i], e.path)
    BY <1>3, <1>6, <2>1 DEF Ahead
  <2>2. CASE Above(t[m].path, e.path)
    BY <1>1, <1>3, <1>6, <2>2, TreeFacts DEF Ahead
  <2>3. CASE \E j \in li \ {m} : Above(t[j].path, e.path)
    BY <1>6, <2>3 DEF Ahead
  <2> QED  BY <1>6, <2>1, <2>2, <2>3 DEF Ahead
<1>7. Done(t, sa, li \ {m}) = Done(t, st, li) \cup {t[m]}
  BY <1>1, <1>4, <1>5, <1>6 DEF Done
<1>8. Apart(t, sa, li \ {m})
  BY <1>3 DEF Apart
<1> QED  BY <1>2, <1>7, <1>8 DEF sa

\* The listing of a directory takes its place.
LEMMA DirListed ==
    ASSUME NEW t \in Seq(Entry), IsTree(t), NEW st \in Seq(Paths), st # <<>>,
           Apart(t, st, {})
    PROVE  LET li == {j \in DOMAIN t : Parent(t[j].path) = SX!Last(st)}
           IN  /\ Done(t, SX!Front(st), li) = Done(t, st, {})
               /\ Apart(t, SX!Front(st), li)
<1> DEFINE n  == Len(st)
           d  == st[n]
           sf == SX!Front(st)
           li == {j \in DOMAIN t : Parent(t[j].path) = d}
<1>1. n \in DOMAIN st /\ d \in Paths /\ d = SX!Last(st)
  BY DEF SX!Last
<1>2. /\ DOMAIN sf = DOMAIN st \ {n}
      /\ \A i \in DOMAIN sf : sf[i] = st[i]
  <2>1. n \in Nat /\ n - 1 \in Nat /\ n >= 1
    BY EmptySeq
  <2>2. sf = SubSeq(st, 1, n - 1)
    BY DEF SX!Front
  <2>3. \A i \in 1 .. n - 1 : st[i] \in Paths
    BY <2>1
  <2> DEFINE k == n - 1
  <2>4. /\ SubSeq(st, 1, k) \in Seq(Paths) /\ Len(SubSeq(st, 1, k)) = k
        /\ \A i \in 1 .. k : SubSeq(st, 1, k)[i] = st[i]
    <3>1. k \in Nat /\ \A i \in 1 .. k : st[i] \in Paths
      BY <2>1, <2>3
    <3> HIDE DEF k
    <3> QED  BY <3>1, SubSeqProperties
  <2>5. DOMAIN sf = 1 .. k /\ DOMAIN st = 1 .. n
    BY <2>2, <2>4
  <2>6. 1 .. k = (1 .. n) \ {n}
    BY <2>1
  <2> QED  BY <2>2, <2>4, <2>5, <2>6
<1>3. \A i \in DOMAIN st : st[i] \in Paths
  OBVIOUS
<1>4. \A i \in DOMAIN sf : i \in DOMAIN st /\ i # n /\ st[i] \in Paths
                            /\ ~Above(st[i], d) /\ ~Above(d, st[i])
  BY <1>1, <1>2, <1>3 DEF Apart
<1>5. \A j \in li : /\ t[j].path \in Paths /\ t[j].path # <<>>
                    /\ Above(d, t[j].path) /\ d # t[j].path
  <2> SUFFICES ASSUME NEW j \in li
               PROVE  /\ t[j].path \in Paths /\ t[j].path # <<>>
                      /\ Above(d, t[j].path) /\ d # t[j].path
    OBVIOUS
  <2>1. t[j].path \in Paths /\ t[j].path # <<>> /\ Parent(t[j].path) = d
    BY TreeFacts
  <2> QED  BY <2>1, ParentAbove
<1> HIDE DEF sf, d, n
<1>6. ASSUME NEW e \in SX!ToSet(t), Ahead(t, st, {}, e.path)
      PROVE  Ahead(t, sf, li, e.path)
  <2>1. PICK i \in DOMAIN st : st[i] # e.path /\ Above(st[i], e.path)
    BY <1>6 DEF Ahead
  <2>2. CASE i # n
    BY <1>2, <2>1, <2>2 DEF Ahead
  <2>3. CASE i = n
    <3>1. d # e.path /\ Above(d, e.path) /\ e.path \in Paths
      BY <2>1, <2>3, TreeFacts DEF d
    <3>2. PICK c \in Paths : /\ c # <<>> /\ Parent(c) = d /\ Above(c, e.path)
                             /\ c = e.path \/ c \in Prefixes(e.path)
      BY <1>1, <3>1, StepTowards
    <3>3. \E o \in SX!ToSet(t) : o.path = c
      BY <3>2, TreeFacts
    <3>4. PICK j \in DOMAIN t : t[j].path = c
      BY <3>3, TreeFacts
    <3>5. j \in li
      BY <3>2, <3>4
    <3> QED  BY <3>2, <3>4, <3>5 DEF Ahead
  <2> QED  BY <2>2, <2>3
<1>7. ASSUME NEW e \in SX!ToSet(t), Ahead(t, sf, li, e.path)
      PROVE  Ahead(t, st, {}, e.path)
  <2>1. CASE \E i \in DOMAIN sf : sf[i] # e.path /\ Above(sf[i], e.path)
    BY <1>2, <2>1 DEF Ahead
  <2>2. CASE \E j \in li : Above(t[j].path, e.path)
    <3>1. PICK j \in li : Above(t[j].path, e.path)
      BY <2>2
    <3>2. e.path \in Paths /\ t[j].path \in Paths /\ Above(d, t[j].path) /\ d # t[j].path
      BY <1>5, TreeFacts
    <3>3. Above(d, e.path) /\ d # e.path
      BY <1>1, <3>1, <3>2, AboveOrder
    <3> QED  BY <1>1, <3>3 DEF Ahead, d
  <2> QED  BY <1>7, <2>1, <2>2 DEF Ahead
<1>8. Done(t, sf, li) = Done(t, st, {})
  BY <1>6, <1>7 DEF Done
<1>9. \A i, j \in li : i # j => ~Above(t[i].path, t[j].path)
  <2> SUFFICES ASSUME NEW i \in li, NEW j \in li, Above(t[i].path, t[j].path)
               PROVE  i = j
    OBVIOUS
  <2>1. Parent(t[i].path) = Parent(t[j].path)
    OBVIOUS
  <2>2. t[i].path = t[j].path
    BY <1>5, <2>1, SameParent
  <2> QED  BY <2>2 DEF IsTree
<1>10. ASSUME NEW i \in DOMAIN sf, NEW j \in li
       PROVE  ~Above(sf[i], t[j].path) /\ ~Above(t[j].path, sf[i])
  <2> DEFINE p == t[j].path
             s == st[i]
  <2>1. s \in Paths /\ ~Above(s, d) /\ ~Above(d, s) /\ sf[i] = s
    BY <1>2, <1>4
  <2>2. p \in Paths /\ p # <<>> /\ Above(d, p) /\ Parent(p) = d
    BY <1>5
  <2> HIDE DEF p, s
  <2>3. ~Above(p, s)
    BY <1>1, <2>1, <2>2, AboveOrder
  <2>4. ~Above(s, p)
    BY <1>1, <2>1, <2>2, ParentAbove
  <2> QED  BY <2>1, <2>3, <2>4 DEF p
<1>11. \A i, j \in DOMAIN sf : i # j => ~Above(sf[i], sf[j])
  BY <1>2 DEF Apart
<1> HIDE DEF li
<1>12. Apart(t, sf, li)
  BY <1>9, <1>10, <1>11 DEF Apart
<1> QED  BY <1>1, <1>8, <1>12 DEF li, sf

\* Before the walk and behind it.
LEMMA WalkEnds ==
    ASSUME NEW t \in Seq(Entry), IsTree(t)
    PROVE  /\ Done(t, <<<<>>>>, {}) = {}
           /\ Apart(t, <<<<>>>>, {})
           /\ Done(t, <<>>, {}) = SX!ToSet(t)
<1> DEFINE st == <<<<>>>>
<1>1. DOMAIN st = {1} /\ st[1] = <<>>
  OBVIOUS
<1> HIDE DEF st
<1>2. \A e \in SX!ToSet(t) : Ahead(t, st, {}, e.path)
  BY <1>1, TreeFacts, RootAbove DEF Ahead
<1>3. Done(t, st, {}) = {} /\ Apart(t, st, {})
  BY <1>1, <1>2 DEF Done, Apart
<1>4. DOMAIN <<>> = {}
  OBVIOUS
<1>5. \A p : ~Ahead(t, <<>>, {}, p)
  BY <1>4 DEF Ahead
<1> QED  BY <1>3, <1>5 DEF Done, st

-----------------------------------------------------------------------------
(* The invariant. *)

\* The steps of the run and what they settle: nothing is found before the boot
\* image is searched, and it is searched only when the tree has no loader.
Control ==
    /\ pc \in {"scan", "format", "copy", "search", "extract", "ended"}
    /\ job \in Jobs
    /\ fs \in {"none", "fat", "ntfs"}
    /\ boot \in BOOLEAN /\ found \in BOOLEAN
    /\ result \in {"none", "ok", "refused", "failed", "panicked"}
    /\ why \in {"none", "small", "fit", "no ntfs", "sector", "format", "name", "clash",
                "full", "isdir", "io", "entry"}
    /\ pc # "ended" => result = "none" /\ why = "none"
    /\ pc \in {"format", "copy"} => boot = HasEfiBoot
    /\ pc \in {"search", "extract"} => ~boot
    /\ pc \notin {"extract", "ended"} => ~found /\ entry = NoEntry

\* What the search of the catalog came to.
CatalogRead ==
    /\ entry \in NoEntry .. Beyond
    /\ entry # NoEntry \/ pc = "extract" \/ (result = "ok" /\ ~boot) =>
          entry = IF job.record THEN EfiEntry(job.catalog) ELSE NoEntry

LEMMA JobFacts ==
    ASSUME job \in Jobs
    PROVE  /\ job \in Job
           /\ job.tree \in Seq(Entry) /\ IsTree(job.tree)
           /\ job.catalog \in Catalog /\ job.record \in BOOLEAN
           /\ job.image.files \in Seq([path : Paths, len : Nat]) /\ IsImage(job.image.files)
<1>1. job \in Job /\ IsTree(job.tree) /\ IsImage(job.image.files)
  BY JobsAssumption
<1> HIDE JobsAssumption
<1>2. /\ job.tree \in Seq(Entry) /\ job.catalog \in Catalog /\ job.record \in BOOLEAN
      /\ job.image \in [fat : BOOLEAN, files : Seq([path : Paths, len : Nat])]
  BY <1>1 DEF Job
<1> QED  BY <1>1, <1>2

\* What is said of the tree stays so while the job and the filesystem do.
LEMMA Unmoved ==
    ASSUME job' = job
    PROVE  /\ HasEfiBoot' = HasEfiBoot
           /\ Entries' = Entries /\ Dirs' = Dirs /\ NonDirs' = NonDirs
           /\ \A e : Source(e)' = Source(e)
           /\ \A e : IsSkipped(e)' <=> IsSkipped(e)
BY DEF HasEfiBoot, Entries, Dirs, NonDirs, Source, IsSkipped

LEMMA KeysUnmoved ==
    ASSUME job' = job, fs' = fs
    PROVE  /\ \A p : Key(p)' = Key(p)
           /\ \A e : Collides(e)' <=> Collides(e)
BY DEF Key, Collides, Entries

LEMMA ObjectionType ==
    ASSUME NEW ntfs
    PROVE  Objection(ntfs) \in {"none", "small", "fit", "no ntfs", "sector"}
BY DEF Objection

LEMMA ObstacleType ==
    ASSUME NEW p, NEW is, NEW d
    PROVE  Obstacle(p, is, d) \in {"none", "name", "clash", "full"}
BY DEF Obstacle

\* How copying an entry can end.
Causes == {"none", "name", "clash", "full", "isdir"}

LEMMA InitControl == Init => Control /\ CatalogRead
<1> SUFFICES ASSUME Init PROVE Control /\ CatalogRead
  OBVIOUS
<1>1. Control
  BY DEF Init, Control
<1>2. CatalogRead
  BY SlotsAssumption DEF Init, CatalogRead, NoEntry, Beyond
<1> QED  BY <1>1, <1>2

LEMMA NextControl == Control /\ [Next]_vars => Control'
<1> SUFFICES ASSUME Control, [Next]_vars PROVE Control'
  OBVIOUS
<1> USE DEF Control, Return, Goto, end, search, walk
<1>1. CASE Scan
  <2>1. Objection(MaxFile > Fat32MaxFile) \in {"none", "small", "fit", "no ntfs", "sector"}
    BY ObjectionType
  <2>2. HasEfiBoot' = HasEfiBoot
    BY <1>1, Unmoved DEF Scan
  <2>3. HasEfiBoot \in BOOLEAN
    BY DEF HasEfiBoot
  <2> QED  BY <1>1, <2>1, <2>2, <2>3 DEF Scan
<1>2. CASE Format
  BY <1>2, Unmoved DEF Format
<1>3. CASE NextDir
  BY <1>3, Unmoved DEF NextDir
<1>4. CASE PassOver
  BY <1>4, Unmoved DEF PassOver
<1>5. CASE MakeDir
  <2>1. \E cause \in Causes : Step(cause)
    BY <1>5, ObstacleType DEF MakeDir, Causes
  <2>2. pc = "copy" /\ UNCHANGED <<job, fs, boot, search>>
    BY <1>5 DEF MakeDir
  <2> QED  BY <2>1, <2>2, Unmoved DEF Step, Causes
<1>6. CASE SkipLinkedDir
  BY <1>6, Unmoved DEF SkipLinkedDir
<1>7. CASE SkipDangling
  <2>1. \E cause \in Causes : Step(cause)
    BY <1>7, ObstacleType DEF SkipDangling, Causes
  <2>2. pc = "copy" /\ UNCHANGED <<job, fs, boot, search>>
    BY <1>7 DEF SkipDangling
  <2> QED  BY <2>1, <2>2, Unmoved DEF Step, Causes
<1>8. CASE CopyFile
  <2>1. \E cause \in Causes : Step(cause)
    BY <1>8, ObstacleType DEF CopyFile, Causes
  <2>2. pc = "copy" /\ UNCHANGED <<job, fs, boot, search>>
    BY <1>8 DEF CopyFile
  <2> QED  BY <2>1, <2>2, Unmoved DEF Step, Causes
<1>9. CASE CopyFails
  BY <1>9, Unmoved DEF CopyFails
<1>10. CASE CopyDone
  BY <1>10, Unmoved DEF CopyDone
<1>11. CASE Search
  BY <1>11, Unmoved DEF Search
<1>12. CASE Extract
  BY <1>12, Unmoved DEF Extract
<1>13. CASE ExtractFails
  BY <1>13, Unmoved DEF ExtractFails
<1>14. CASE ExtractDone
  BY <1>14, Unmoved DEF ExtractDone
<1>15. CASE UNCHANGED vars
  BY <1>15, Unmoved DEF vars
<1> QED  BY <1>1, <1>2, <1>3, <1>4, <1>5, <1>6, <1>7, <1>8, <1>9, <1>10, <1>11, <1>12, <1>13,
            <1>14, <1>15 DEF Next

LEMMA NextCatalogRead == Control /\ CatalogRead /\ [Next]_vars => CatalogRead'
<1> SUFFICES ASSUME Control, CatalogRead, [Next]_vars PROVE CatalogRead'
  OBVIOUS
<1> USE DEF Control, CatalogRead, Return, Goto, end, search, walk
<1>1. job' = job
  BY DEF Next, vars, Scan, Format, NextDir, PassOver, MakeDir, SkipLinkedDir, SkipDangling, CopyFile,
         CopyFails, CopyDone, Search, Extract, ExtractFails, ExtractDone
<1>2. CASE Search
  <2>1. job.record => EfiEntry(job.catalog) \in NoEntry .. Beyond
    BY JobFacts, WalkFindsBootEntry
  <2>2. entry' \in NoEntry .. Beyond
    BY <1>2, <2>1, SlotsAssumption DEF Search, NoEntry, Beyond
  <2> QED  BY <1>1, <1>2, <2>2 DEF Search
<1>3. CASE ~Search
  <2>1. entry' = entry
    BY <1>3 DEF Next, vars, Scan, Format, NextDir, PassOver, MakeDir, SkipLinkedDir, SkipDangling,
         CopyFile, CopyFails, CopyDone, Extract, ExtractFails, ExtractDone
  <2>2. (pc' = "extract" => pc = "extract") /\
        (result' = "ok" /\ ~boot' => pc = "extract" \/ (result = "ok" /\ ~boot))
    BY <1>3, ObstacleType, ObjectionType DEF Next, vars, Scan, Format, NextDir, PassOver, MakeDir, SkipLinkedDir, SkipDangling,
         CopyFile, CopyFails, CopyDone, Extract, ExtractFails, ExtractDone, Step
  <2> QED  BY <1>1, <2>1, <2>2
<1> QED  BY <1>2, <1>3

\* The directories that are listed or wait for it are of the tree, and what is
\* still ahead falls apart.
WalkOK ==
    /\ stack \in Seq(Paths)
    /\ \A i \in DOMAIN stack : stack[i] = <<>> \/ \E e \in Dirs : e.path = stack[i]
    /\ listing \subseteq DOMAIN job.tree
    /\ pc \in {"scan", "format", "search", "extract"} \/ result = "ok"
          => stack = <<>> /\ listing = {}
    /\ pc = "copy" => Apart(job.tree, stack, listing)

\* The entries that are done with.
Finished == Done(job.tree, stack, listing)

\* The actions that deal with an entry.
Handle == PassOver \/ MakeDir \/ SkipLinkedDir \/ SkipDangling \/ CopyFile

LEMMA EntryFacts ==
    ASSUME job \in Jobs
    PROVE  /\ Len(job.tree) \in Nat /\ DOMAIN job.tree = 1 .. Len(job.tree)
           /\ \A i \in DOMAIN job.tree : /\ job.tree[i] \in Entries /\ job.tree[i] \in Entry
                                         /\ job.tree[i].path \in Paths /\ job.tree[i].path # <<>>
           /\ \A e \in Entries : e \in Entry /\ e.path \in Paths /\ e.path # <<>>
BY JobFacts, TreeFacts DEF Entries

LEMMA CurrentFacts ==
    ASSUME Control, WalkOK, listing # {}
    PROVE  /\ Min(listing) \in listing
           /\ Current \in Entries /\ Current \in Entry
           /\ Current.path \in Paths /\ Current.path # <<>>
<1>1. job \in Jobs /\ listing \in SUBSET DOMAIN job.tree
  BY DEF Control, WalkOK
<1>2. listing \in SUBSET Nat
  BY <1>1, EntryFacts
<1>3. Min(listing) \in listing
  BY <1>2, MinIsLeast
<1> QED  BY <1>1, <1>3, EntryFacts DEF Current

LEMMA HandleFacts ==
    ASSUME Control, WalkOK, Handle
    PROVE  /\ pc = "copy" /\ listing # {}
           /\ job' = job /\ fs' = fs /\ boot' = boot
           /\ entry' = entry /\ rest' = rest /\ found' = found
           /\ listing' = listing \ {Min(listing)}
           /\ stack' = IF Current.kind = "dir" THEN Append(stack, Current.path) ELSE stack
           /\ pc' \in {"copy", "ended"} /\ (result' = "none" \/ result' = "failed")
<1> USE DEF search
<1>1. pc = "copy" /\ listing # {} /\ result = "none"
  BY DEF Handle, PassOver, MakeDir, SkipLinkedDir, SkipDangling, CopyFile, Control
<1>2. /\ job' = job /\ fs' = fs /\ boot' = boot
      /\ entry' = entry /\ rest' = rest /\ found' = found
      /\ listing' = listing \ {Min(listing)}
  BY DEF Handle, PassOver, MakeDir, SkipLinkedDir, SkipDangling, CopyFile
<1>3. stack' = IF Current.kind = "dir" THEN Append(stack, Current.path) ELSE stack
  BY DEF Handle, PassOver, MakeDir, SkipLinkedDir, SkipDangling, CopyFile, IsLinkedDir
<1>4. (\E cause : Step(cause)) \/ UNCHANGED <<pc, end>>
  BY DEF Handle, PassOver, MakeDir, SkipLinkedDir, SkipDangling, CopyFile, end
<1>5. pc' \in {"copy", "ended"} /\ (result' = "none" \/ result' = "failed")
  BY <1>1, <1>4 DEF Step, Return, end
<1> QED  BY <1>1, <1>2, <1>3, <1>5

\* One entry more is done with.
LEMMA HandleWalks ==
    ASSUME Control, WalkOK, Handle
    PROVE  /\ WalkOK'
           /\ Finished' = Finished \cup {Current}
           /\ Current \notin Finished
<1> DEFINE t  == job.tree
           m  == Min(listing)
           la == listing \ {m}
           sa == Append(stack, Current.path)
<1>1. /\ job \in Jobs /\ stack \in Seq(Paths) /\ listing \in SUBSET DOMAIN t /\ m \in listing
      /\ t \in Seq(Entry) /\ IsTree(t) /\ Current = t[m] /\ Current.path \in Paths
      /\ Current \in Entries
  BY HandleFacts, CurrentFacts, JobFacts DEF Control, WalkOK, Current
<1>2. Apart(t, stack, listing)
  BY HandleFacts DEF WalkOK
<1>3. job' = job /\ listing' = la
      /\ stack' = IF Current.kind = "dir" THEN sa ELSE stack
  BY HandleFacts
<1>4. CASE Current.kind # "dir"
  <2>1. /\ Done(t, stack, la) = Done(t, stack, listing) \cup {Current}
        /\ Current \notin Done(t, stack, listing) /\ Apart(t, stack, la)
    <3> HIDE DEF t, m
    <3> QED  BY <1>1, <1>2, <1>4, FileDone
  <2> QED  BY <1>1, <1>3, <1>4, <2>1, HandleFacts, Unmoved DEF WalkOK, Finished
<1>5. CASE Current.kind = "dir"
  <2>1. /\ Done(t, sa, la) = Done(t, stack, listing) \cup {Current}
        /\ Current \notin Done(t, stack, listing) /\ Apart(t, sa, la)
    <3>1. sa = Append(stack, t[m].path)
      BY <1>1
    <3> HIDE DEF t, m, sa
    <3>2. /\ Done(t, Append(stack, t[m].path), listing \ {m}) = Done(t, stack, listing) \cup {t[m]}
          /\ t[m] \notin Done(t, stack, listing)
          /\ Apart(t, Append(stack, t[m].path), listing \ {m})
      BY <1>1, <1>2, DirDone
    <3> QED  BY <1>1, <3>1, <3>2
  <2>2. /\ sa \in Seq(Paths)
        /\ \A i \in DOMAIN sa : sa[i] = Current.path \/ \E j \in DOMAIN stack : sa[i] = stack[j]
    <3>1. /\ Append(stack, Current.path) \in Seq(Paths)
          /\ Len(sa) = Len(stack) + 1 /\ sa[Len(stack) + 1] = Current.path
          /\ \A i \in 1 .. Len(stack) : sa[i] = stack[i]
      BY <1>1, AppendProperties
    <3>2. Len(stack) \in Nat /\ DOMAIN stack = 1 .. Len(stack) /\ DOMAIN sa = 1 .. Len(sa)
      BY <1>1, <3>1
    <3> HIDE DEF sa
    <3> QED  BY <3>1, <3>2 DEF sa
  <2>3. Current \in Dirs
    BY <1>1, <1>5 DEF Dirs
  <2>4. \A i \in DOMAIN sa : sa[i] = <<>> \/ \E e \in Dirs : e.path = sa[i]
    <3> HIDE DEF sa
    <3> QED  BY <2>2, <2>3 DEF WalkOK
  <2>5. stack' = sa
    BY <1>3, <1>5
  <2> HIDE DEF sa
  <2> QED  BY <1>1, <1>3, <2>1, <2>2, <2>4, <2>5, HandleFacts, Unmoved DEF WalkOK, Finished
<1> QED  BY <1>4, <1>5

\* The listing of the next directory is ahead as a whole, as the directory was.
LEMMA NextDirWalks ==
    ASSUME Control, WalkOK, NextDir
    PROVE  WalkOK' /\ Finished' = Finished
<1> DEFINE t  == job.tree
           d  == SX!Last(stack)
           sf == SX!Front(stack)
           la == {j \in DOMAIN t : Parent(t[j].path) = d}
<1>1. /\ job \in Jobs /\ stack \in Seq(Paths) /\ stack # <<>> /\ listing = {}
      /\ t \in Seq(Entry) /\ IsTree(t) /\ Apart(t, stack, {}) /\ pc = "copy" /\ result = "none"
  BY JobFacts DEF NextDir, Control, WalkOK
<1>2. job' = job /\ pc' = pc /\ result' = result /\ stack' = sf /\ listing' = la
  BY DEF NextDir, Listed, end
<1>3. Done(t, sf, la) = Done(t, stack, {}) /\ Apart(t, sf, la)
  <2> HIDE DEF t
  <2> QED  BY <1>1, DirListed
<1>4. sf \in Seq(Paths) /\ \A i \in DOMAIN sf : i \in DOMAIN stack /\ sf[i] = stack[i]
  <2> DEFINE k == Len(stack) - 1
  <2>1. k \in Nat /\ 1 .. k \subseteq DOMAIN stack /\ \A i \in 1 .. k : stack[i] \in Paths
    BY <1>1, EmptySeq
  <2>2. sf = SubSeq(stack, 1, k)
    BY DEF SX!Front
  <2> HIDE DEF k, sf
  <2>3. sf \in Seq(Paths) /\ Len(sf) = k /\ \A i \in 1 .. k : sf[i] = stack[i]
    BY <2>1, <2>2, SubSeqProperties
  <2> QED  BY <2>1, <2>3
<1>5. la \subseteq DOMAIN t
  OBVIOUS
<1> HIDE DEF sf, la
<1> QED  BY <1>1, <1>2, <1>3, <1>4, <1>5, Unmoved DEF WalkOK, Finished

LEMMA InitWalk == Init => WalkOK
BY EmptySeq DEF Init, WalkOK

LEMMA NextWalk == Control /\ WalkOK /\ [Next]_vars => WalkOK'
<1> SUFFICES ASSUME Control, WalkOK, [Next]_vars PROVE WalkOK'
  OBVIOUS
<1> USE DEF Return, Goto, end, search, walk
<1>1. CASE Handle
  BY <1>1, HandleWalks
<1>2. CASE NextDir
  BY <1>2, NextDirWalks
<1>3. CASE Format
  <2>1. CASE stack' = stack /\ pc' = "ended" /\ result' = "failed"
    BY <1>3, <2>1, Unmoved DEF Format, WalkOK
  <2>2. CASE stack' = <<<<>>>> /\ pc' = "copy" /\ result' = result
    <3>1. job' = job /\ listing' = {} /\ result = "none" /\ job \in Jobs
      BY <1>3 DEF Format, Control, WalkOK
    <3>2. Apart(job.tree, <<<<>>>>, {})
      BY <3>1, JobFacts, WalkEnds
    <3>3. <<<<>>>> \in Seq(Paths) /\ \A i \in DOMAIN <<<<>>>> : <<<<>>>>[i] = <<>>
      BY EmptySeq DEF Paths
    <3> QED  BY <2>2, <3>1, <3>2, <3>3 DEF WalkOK
  <2> QED  BY <1>3, <2>1, <2>2 DEF Format
<1>4. ASSUME UNCHANGED <<job, stack, listing>>,
             \/ UNCHANGED <<pc, result>>
             \/ stack = <<>> /\ listing = {} /\ pc' # "copy"
             \/ pc' = "ended" /\ result' = "failed"
      PROVE  WalkOK'
  BY <1>4, Unmoved DEF WalkOK
<1>5. CASE Scan
  BY <1>4, <1>5 DEF Scan, WalkOK
<1>6. CASE CopyFails
  BY <1>4, <1>6 DEF CopyFails
<1>7. CASE CopyDone
  BY <1>4, <1>7 DEF CopyDone
<1>8. CASE Search
  BY <1>4, <1>8 DEF Search, WalkOK
<1>9. CASE Extract
  BY <1>4, <1>9 DEF Extract
<1>10. CASE ExtractFails
  BY <1>4, <1>10 DEF ExtractFails, WalkOK
<1>11. CASE ExtractDone
  BY <1>4, <1>11 DEF ExtractDone, WalkOK
<1>12. CASE UNCHANGED vars
  BY <1>4, <1>12 DEF vars
<1> QED  BY <1>1, <1>2, <1>3, <1>5, <1>6, <1>7, <1>8, <1>9, <1>10, <1>11, <1>12 DEF Next, Handle

-----------------------------------------------------------------------------
(* The new filesystem. *)

LEMMA FoldFacts ==
    ASSUME NEW p \in Paths
    PROVE  /\ FoldPath(p) \in Paths /\ Len(FoldPath(p)) = Len(p)
           /\ \A i \in 1 .. Len(p) : FoldPath(p)[i] = Fold[p[i]]
<1>1. Len(p) \in Nat /\ DOMAIN p = 1 .. Len(p) /\ \A i \in 1 .. Len(p) : p[i] \in Names
  BY PathFacts
<1>2. \A i \in 1 .. Len(p) : Fold[p[i]] \in Names
  BY <1>1, NamesAssumption
<1>3. FoldPath(p) = [i \in 1 .. Len(p) |-> Fold[p[i]]]
  BY <1>1 DEF FoldPath
<1> QED  BY <1>1, <1>2, <1>3 DEF Paths

\* The key of a path is a path of the same length, below the key of its parent.
LEMMA KeyFacts ==
    ASSUME NEW p \in Paths
    PROVE  /\ Key(p) \in Paths /\ Len(Key(p)) = Len(p)
           /\ Key(p) = <<>> <=> p = <<>>
           /\ p # <<>> => Parent(Key(p)) = Key(Parent(p))
<1>1. Key(p) = p \/ Key(p) = FoldPath(p)
  BY DEF Key, FoldPath
<1>2. Key(p) \in Paths /\ Len(Key(p)) = Len(p)
  BY <1>1, FoldFacts
<1>3. Key(p) = <<>> <=> p = <<>>
  BY <1>2, PathFacts
<1>4. ASSUME p # <<>> PROVE Parent(Key(p)) = Key(Parent(p))
  <2>1. /\ Parent(p) \in Paths /\ Len(Parent(p)) = Len(p) - 1
        /\ \A i \in 1 .. Len(p) - 1 : Parent(p)[i] = p[i]
    BY <1>4, ParentFacts
  <2>2. CASE fs = "ntfs" /\ job.os # "windows"
    BY <2>2 DEF Key
  <2>3. CASE ~(fs = "ntfs" /\ job.os # "windows")
    <3>1. Key(p) = FoldPath(p) /\ Key(Parent(p)) = FoldPath(Parent(p))
      BY <2>3 DEF Key, FoldPath
    <3> DEFINE f == FoldPath(p)
               g == FoldPath(Parent(p))
    <3>2. f \in Paths /\ Len(f) = Len(p) /\ \A i \in 1 .. Len(p) : f[i] = Fold[p[i]]
      BY FoldFacts
    <3>3. g \in Paths /\ Len(g) = Len(p) - 1 /\ \A i \in 1 .. Len(p) - 1 : g[i] = Fold[p[i]]
      BY <2>1, FoldFacts
    <3>4. f # <<>> /\ Len(p) \in Nat
      BY <1>4, <3>2, PathFacts
    <3> HIDE DEF f, g
    <3>5. /\ Parent(f) \in Paths /\ Len(Parent(f)) = Len(p) - 1
          /\ \A i \in 1 .. Len(p) - 1 : Parent(f)[i] = f[i]
      BY <3>2, <3>4, ParentFacts
    <3>6. \A i \in 1 .. Len(p) - 1 : Parent(f)[i] = g[i]
      BY <3>2, <3>3, <3>4, <3>5
    <3>7. Parent(f) = g
      BY <3>3, <3>5, <3>6, SamePath
    <3> QED  BY <3>1, <3>7 DEF f, g
  <2> QED  BY <2>2, <2>3
<1> QED  BY <1>2, <1>3, <1>4

\* Every node is one of the tree whose root is the empty path.
Reachable(d) ==
    \A k \in DOMAIN d :
       /\ k \in Paths
       /\ d[k].is \in {"dir", "file"} /\ d[k].len \in Nat
       /\ k # <<>> => Parent(k) \in DOMAIN d /\ d[Parent(k)].is = "dir"

IsNode(node) == node.is \in {"dir", "file"} /\ node.len \in Nat

HasDir(d, k) == k \in DOMAIN d /\ d[k].is = "dir"

\* A node of the kind that is there, or in a directory, keeps the tree a tree.
LEMMA PutReachable ==
    ASSUME NEW d, Reachable(d), NEW k \in Paths, NEW node, IsNode(node),
           k # <<>> => HasDir(d, Parent(k)),
           k \in DOMAIN d => d[k].is = node.is
    PROVE  /\ Reachable(Put(d, k, node))
           /\ \A q : HasDir(d, q) => HasDir(Put(d, k, node), q)
<1> DEFINE e == Put(d, k, node)
<1>1. DOMAIN e = DOMAIN d \cup {k} /\ e[k] = node /\ \A q \in DOMAIN d : q # k => e[q] = d[q]
  BY DEF Put
<1> HIDE DEF e
<1>2. \A q : HasDir(d, q) => HasDir(e, q)
  BY <1>1 DEF HasDir
<1>3. Reachable(e)
  BY <1>1, <1>2 DEF Reachable, HasDir, IsNode
<1> QED  BY <1>2, <1>3 DEF e

\* On the disk: a tree, and in it the directories that are listed or wait for it.
DiskOK ==
    /\ Reachable(disk)
    /\ pc \in {"copy", "search", "extract"} => HasDir(disk, <<>>)
    /\ pc = "copy" => /\ \A i \in DOMAIN stack : HasDir(disk, Key(stack[i]))
                      /\ \A j \in listing : HasDir(disk, Key(Parent(job.tree[j].path)))

\* What dealing with an entry does to the disk: nothing, or a node that does not
\* clash with what is there; a directory, if the run goes on.
LEMMA HandleWrites ==
    ASSUME Control, WalkOK, Reachable(disk), Handle
    PROVE  \/ disk' = disk /\ (pc' = "copy" => Current.kind # "dir")
           \/ \E node : /\ IsNode(node) /\ ~Clash(Key(Current.path), node.is)
                        /\ disk' = Put(disk, Key(Current.path), node)
                        /\ pc' = "copy" /\ Current.kind = "dir" => node.is = "dir"
<1> DEFINE p == Current.path
           k == Key(p)
<1>1. pc = "copy" /\ result = "none" /\ Current \in Entry /\ p \in Paths /\ k \in Paths
  BY HandleFacts, CurrentFacts, KeyFacts DEF Control
<1>2. CASE PassOver
  BY <1>2 DEF PassOver
<1>3. CASE SkipLinkedDir
  BY <1>3 DEF SkipLinkedDir, IsLinkedDir
<1>4. CASE MakeDir
  <2> DEFINE no == Obstacle(p, "dir", Put(disk, k, Dir))
  <2>1. disk' = (IF no = "none" THEN Put(disk, k, Dir) ELSE disk) /\ Step(no)
    BY <1>4 DEF MakeDir
  <2>2. no = "none" => ~Clash(k, "dir")
    BY DEF Obstacle
  <2>3. no # "none" => pc' = "ended"
    BY <2>1 DEF Step, Return
  <2>4. IsNode(Dir) /\ Dir.is = "dir"
    BY DEF IsNode, Dir
  <2> HIDE DEF no
  <2> QED  BY <2>1, <2>2, <2>3, <2>4
<1>5. ASSUME k \in DOMAIN disk => disk[k].is = "file"
      PROVE  IsNode(Before(k)) /\ Before(k).is = "file"
  <2>1. IsNode(EmptyFile) /\ EmptyFile.is = "file"
    BY DEF IsNode, EmptyFile, File
  <2> QED  BY <1>5, <2>1 DEF Before, Reachable, IsNode
<1>6. \A q, d : Obstacle(q, "file", d) = "none" => ~Clash(Key(q), "file")
  BY DEF Obstacle
<1>7. ~Clash(k, "file") => (k \in DOMAIN disk => disk[k].is = "file")
  BY DEF Clash
<1>8. CASE SkipDangling
  <2> DEFINE d  == IF fs = "fat" THEN Put(disk, k, Before(k)) ELSE disk
             no == IF fs = "fat" THEN Obstacle(p, "file", d) ELSE "none"
  <2>1. disk' = (IF no = "none" THEN d ELSE disk) /\ Current.kind \in {"file", "link"}
    BY <1>8 DEF SkipDangling
  <2>2. CASE fs = "fat" /\ no = "none"
    <3>1. ~Clash(k, "file")
      BY <1>6, <2>2
    <3>2. IsNode(Before(k)) /\ Before(k).is = "file"
      BY <1>5, <1>7, <3>1
    <3>3. disk' = Put(disk, k, Before(k))
      BY <2>1, <2>2
    <3> QED  BY <2>1, <3>1, <3>2, <3>3
  <2>3. CASE ~(fs = "fat" /\ no = "none")
    <3>1. disk' = disk
      BY <2>1, <2>3
    <3> QED  BY <2>1, <3>1
  <2> QED  BY <2>2, <2>3
<1>9. CASE CopyFile
  <2> DEFINE src  == Source(Current)
             node == Laid(Before(k), p, src.len)
             d    == Put(disk, k, node)
             no   == IF Obstacle(p, "file", d) = "none" /\ src.is = "dir"
                     THEN "isdir" ELSE Obstacle(p, "file", d)
  <2>1. disk' = (IF no = "none" THEN d ELSE disk) /\ Current.kind \in {"file", "link"}
    BY <1>9 DEF CopyFile
  <2>2. CASE no = "none"
    <3>1. ~Clash(k, "file")
      BY <1>6, <2>2
    <3>2. IsNode(Before(k)) /\ Before(k).is = "file"
      BY <1>5, <1>7, <3>1
    <3>3. src.len \in Nat
      BY <1>1 DEF Source, Entry, Thing
    <3>4. IsNode(node) /\ node.is = "file"
      <4> HIDE DEF k, src
      <4> QED  BY <3>2, <3>3 DEF Laid, IsNode, File
    <3>5. disk' = Put(disk, k, node)
      BY <2>1, <2>2
    <3> HIDE DEF node
    <3> QED  BY <2>1, <3>1, <3>4, <3>5
  <2>3. CASE no # "none"
    <3>1. disk' = disk
      BY <2>1, <2>3
    <3> QED  BY <2>1, <3>1
  <2> QED  BY <2>2, <2>3
<1> QED  BY <1>2, <1>3, <1>4, <1>8, <1>9 DEF Handle

\* What is still to be extracted is of the boot image.
RestOK ==
    /\ rest \in Seq([path : Paths, len : Nat])
    /\ \A i \in DOMAIN rest : \E j \in DOMAIN job.image.files : rest[i] = job.image.files[j]

LEMMA InitRest == Init => RestOK
BY EmptySeq DEF Init, RestOK

LEMMA HeadFacts ==
    ASSUME Control, RestOK, rest # <<>>
    PROVE  /\ Head(rest).path \in Paths /\ Head(rest).path # <<>> /\ Head(rest).len \in Nat
           /\ \E j \in DOMAIN job.image.files : Head(rest) = job.image.files[j]
           /\ Tail(rest) \in Seq([path : Paths, len : Nat])
           /\ \A i \in DOMAIN Tail(rest) : \E j \in DOMAIN rest : Tail(rest)[i] = rest[j]
<1> DEFINE R == [path : Paths, len : Nat]
<1>1. rest \in Seq(R) /\ rest # <<>>
  BY DEF RestOK
<1>2. /\ Head(rest) = rest[1] /\ 1 \in DOMAIN rest
      /\ Head(rest) \in R /\ Tail(rest) \in Seq(R)
      /\ \A i \in DOMAIN Tail(rest) : i + 1 \in DOMAIN rest /\ Tail(rest)[i] = rest[i + 1]
  <2> HIDE DEF R
  <2>1. Len(rest) \in Nat \ {0} /\ Head(rest) = rest[1]
    BY <1>1, EmptySeq
  <2>2. /\ Head(rest) \in R /\ Tail(rest) \in Seq(R) /\ Len(Tail(rest)) = Len(rest) - 1
        /\ \A i \in 1 .. Len(Tail(rest)) : Tail(rest)[i] = rest[i + 1]
    BY <1>1, HeadTailProperties
  <2>3. DOMAIN rest = 1 .. Len(rest) /\ DOMAIN Tail(rest) = 1 .. Len(Tail(rest))
    BY <1>1, <2>2
  <2> QED  BY <2>1, <2>2, <2>3
<1>3. PICK j \in DOMAIN job.image.files : Head(rest) = job.image.files[j]
  BY <1>2 DEF RestOK
<1>4. IsImage(job.image.files)
  BY JobFacts DEF Control
<1>5. Head(rest).path # <<>>
  BY <1>3, <1>4 DEF IsImage
<1> QED  BY <1>2, <1>3, <1>5

LEMMA NextRest == Control /\ RestOK /\ [Next]_vars => RestOK'
<1> SUFFICES ASSUME Control, RestOK, [Next]_vars PROVE RestOK'
  OBVIOUS
<1>1. job' = job
  BY DEF Next, vars, Scan, Format, NextDir, PassOver, MakeDir, SkipLinkedDir, SkipDangling, CopyFile,
         CopyFails, CopyDone, Search, Extract, ExtractFails, ExtractDone
<1>2. rest' = rest \/ rest' = job.image.files \/ (rest # <<>> /\ rest' = Tail(rest))
  BY DEF Next, vars, search, Scan, Format, NextDir, PassOver, MakeDir, SkipLinkedDir, SkipDangling, CopyFile,
         CopyFails, CopyDone, Search, Extract, ExtractFails, ExtractDone
<1>3. CASE rest' = rest
  BY <1>1, <1>3 DEF RestOK
<1>4. CASE rest' = job.image.files
  BY <1>1, <1>4, JobFacts DEF RestOK, Control
<1>5. CASE rest # <<>> /\ rest' = Tail(rest)
  <2>1. /\ Tail(rest) \in Seq([path : Paths, len : Nat])
        /\ \A i \in DOMAIN Tail(rest) : \E j \in DOMAIN rest : Tail(rest)[i] = rest[j]
    BY <1>5, HeadFacts
  <2> QED  BY <1>1, <1>5, <2>1 DEF RestOK
<1> QED  BY <1>2, <1>3, <1>4, <1>5

\* Dealing with an entry keeps the disk a tree, and what is listed or waits in it.
LEMMA HandleDisk ==
    ASSUME Control, WalkOK, DiskOK, Handle
    PROVE  DiskOK'
<1> DEFINE p == Current.path
           k == Key(p)
           m == Min(listing)
<1>1. /\ pc = "copy" /\ job' = job /\ fs' = fs /\ listing' = listing \ {m}
      /\ stack' = IF Current.kind = "dir" THEN Append(stack, p) ELSE stack
      /\ pc' \in {"copy", "ended"}
  BY HandleFacts
<1>2. /\ m \in listing /\ p \in Paths /\ p # <<>> /\ k \in Paths /\ k # <<>>
      /\ Parent(k) = Key(Parent(p)) /\ Current = job.tree[m]
  BY HandleFacts, CurrentFacts, KeyFacts DEF Current
<1>3. HasDir(disk, Parent(k)) /\ HasDir(disk, <<>>) /\ Reachable(disk)
  BY <1>1, <1>2 DEF DiskOK
<1>4. /\ Reachable(disk') /\ \A q : HasDir(disk, q) => HasDir(disk', q)
      /\ pc' = "copy" /\ Current.kind = "dir" => HasDir(disk', k)
  <2>1. CASE disk' = disk /\ (pc' = "copy" => Current.kind # "dir")
    BY <1>3, <2>1
  <2>2. ASSUME NEW node, IsNode(node), ~Clash(k, node.is), disk' = Put(disk, k, node),
               pc' = "copy" /\ Current.kind = "dir" => node.is = "dir"
        PROVE  /\ Reachable(disk') /\ \A q : HasDir(disk, q) => HasDir(disk', q)
               /\ pc' = "copy" /\ Current.kind = "dir" => HasDir(disk', k)
    <3>1. k \in DOMAIN disk => disk[k].is = node.is
      BY <2>2 DEF Clash
    <3>2. Reachable(disk') /\ \A q : HasDir(disk, q) => HasDir(disk', q)
      <4> HIDE DEF k
      <4> QED  BY <1>2, <1>3, <2>2, <3>1, PutReachable
    <3>3. k \in DOMAIN disk' /\ disk'[k] = node
      BY <2>2 DEF Put
    <3> QED  BY <2>2, <3>2, <3>3 DEF HasDir
  <2> QED  BY <1>3, <2>1, <2>2, HandleWrites
<1>5. \A q : Key(q)' = Key(q)
  BY <1>1, KeysUnmoved
<1>6. ASSUME pc' = "copy"
      PROVE  \A i \in DOMAIN stack' : HasDir(disk', Key(stack'[i]))
  <2>1. \A i \in DOMAIN stack : HasDir(disk', Key(stack[i]))
    BY <1>1, <1>4 DEF DiskOK
  <2>2. CASE Current.kind # "dir"
    BY <1>1, <2>1, <2>2
  <2>3. CASE Current.kind = "dir"
    <3> DEFINE sa == Append(stack, p)
    <3>1. stack' = sa /\ stack \in Seq(Paths)
      BY <1>1, <2>3 DEF WalkOK
    <3>2. \A i \in DOMAIN sa : sa[i] = p \/ \E j \in DOMAIN stack : sa[i] = stack[j]
      <4> HIDE DEF p
      <4>1. /\ sa \in Seq(Paths) /\ Len(sa) = Len(stack) + 1 /\ sa[Len(stack) + 1] = p
            /\ \A i \in 1 .. Len(stack) : sa[i] = stack[i]
        BY <1>2, <3>1, AppendProperties
      <4>2. Len(stack) \in Nat /\ DOMAIN stack = 1 .. Len(stack) /\ DOMAIN sa = 1 .. Len(sa)
        BY <3>1, <4>1
      <4> HIDE DEF sa
      <4> QED  BY <4>1, <4>2
    <3> HIDE DEF sa, p
    <3> QED  BY <1>4, <1>6, <2>1, <2>3, <3>1, <3>2
  <2> QED  BY <2>2, <2>3
<1>7. \A j \in listing' : HasDir(disk', Key(Parent(job'.tree[j].path)))
  BY <1>1, <1>4 DEF DiskOK
<1>8. HasDir(disk', <<>>)
  BY <1>3, <1>4
<1> QED  BY <1>1, <1>4, <1>5, <1>6, <1>7, <1>8 DEF DiskOK

LEMMA NextDirDisk ==
    ASSUME Control, WalkOK, DiskOK, NextDir
    PROVE  DiskOK'
<1> DEFINE n == Len(stack)
<1>1. /\ job' = job /\ fs' = fs /\ pc' = pc /\ pc = "copy" /\ disk' = disk
      /\ stack \in Seq(Paths) /\ stack # <<>>
      /\ listing' = {j \in DOMAIN job.tree : Parent(job.tree[j].path) = stack[n]}
      /\ stack' = SubSeq(stack, 1, n - 1)
  BY DEF NextDir, Listed, SX!Last, SX!Front, WalkOK
<1>2. n \in DOMAIN stack
  BY <1>1, EmptySeq
<1>3. \A i \in DOMAIN stack' : i \in DOMAIN stack /\ stack'[i] = stack[i]
  <2>1. n \in Nat /\ n - 1 \in Nat /\ \A i \in 1 .. n - 1 : stack[i] \in Paths
    BY <1>1, EmptySeq
  <2> DEFINE h == n - 1
  <2>2. h \in Nat /\ \A i \in 1 .. h : stack[i] \in Paths /\ i \in DOMAIN stack
    BY <1>1, <2>1
  <2>3. stack' = SubSeq(stack, 1, h)
    BY <1>1
  <2> HIDE DEF h, n
  <2>4. stack' \in Seq(Paths) /\ Len(stack') = h /\ \A i \in 1 .. h : stack'[i] = stack[i]
    BY <2>2, <2>3, SubSeqProperties
  <2> QED  BY <2>2, <2>4
<1>4. HasDir(disk, Key(stack[n])) /\ \A i \in DOMAIN stack : HasDir(disk, Key(stack[i]))
  BY <1>1, <1>2 DEF DiskOK
<1>5. \A q : Key(q)' = Key(q)
  BY <1>1, KeysUnmoved
<1>6. \A i \in DOMAIN stack' : HasDir(disk', Key(stack'[i]))
  <2> HIDE DEF n
  <2> QED  BY <1>1, <1>3, <1>4
<1>7. \A j \in listing' : HasDir(disk', Key(Parent(job'.tree[j].path)))
  <2> HIDE DEF n
  <2> QED  BY <1>1, <1>4
<1> QED  BY <1>1, <1>5, <1>6, <1>7 DEF DiskOK

LEMMA FormatDisk ==
    ASSUME Control, WalkOK, DiskOK, Format
    PROVE  DiskOK'
<1>1. CASE pc' = "ended" /\ disk' = disk
  BY <1>1 DEF DiskOK
<1>2. CASE disk' = [k \in {<<>>} |-> Dir] /\ stack' = <<<<>>>> /\ listing' = {}
  <2>1. <<>> \in Paths
    BY EmptySeq DEF Paths
  <2>2. Key(<<>>) = <<>>
    BY <2>1, KeyFacts
  <2>3. Reachable(disk') /\ HasDir(disk', <<>>)
    BY <1>2, <2>1 DEF Reachable, HasDir, Dir
  <2>4. fs' = fs /\ job' = job
    BY DEF Format
  <2>5. \A i \in DOMAIN stack' : stack'[i] = <<>>
    BY <1>2
  <2>6. \A q : Key(q)' = Key(q)
    BY <2>4, KeysUnmoved
  <2> QED  BY <1>2, <2>2, <2>3, <2>5, <2>6 DEF DiskOK
<1>3. listing = {}
  BY DEF Format, WalkOK
<1> QED  BY <1>1, <1>2, <1>3 DEF Format, Return

\* The directories above a path of the boot image, where nothing is in the way.
LEMMA ParentsReachable ==
    ASSUME NEW p \in Paths, p # <<>>, CanHold(p), Reachable(disk), HasDir(disk, <<>>)
    PROVE  /\ Reachable(WithParents(p))
           /\ \A q : HasDir(disk, q) => HasDir(WithParents(p), q)
           /\ HasDir(WithParents(p), Parent(Key(p)))
           /\ Key(p) \in DOMAIN WithParents(p) => Key(p) \in DOMAIN disk /\ disk[Key(p)].is = "file"
           /\ \A q \in DOMAIN disk : WithParents(p)[q] = disk[q]
           /\ DOMAIN disk \subseteq DOMAIN WithParents(p)
<1> DEFINE w == WithParents(p)
           A == {Key(q) : q \in Prefixes(p)}
<1>1. /\ DOMAIN w = DOMAIN disk \cup A
      /\ \A k \in DOMAIN disk : w[k] = disk[k]
      /\ \A k \in A : k \notin DOMAIN disk => w[k] = Dir
  BY DEF WithParents
<1>2. \A q \in Prefixes(p) : ~Clash(Key(q), "dir")
  BY DEF CanHold
<1>3. \A q \in Prefixes(p) : HasDir(w, Key(q))
  <2> SUFFICES ASSUME NEW q \in Prefixes(p) PROVE HasDir(w, Key(q))
    OBVIOUS
  <2>1. Key(q) \in A
    OBVIOUS
  <2> HIDE DEF w, A
  <2> QED  BY <1>1, <1>2, <2>1 DEF HasDir, Clash, Dir
<1>4. \A q : HasDir(disk, q) => HasDir(w, q)
  <2> HIDE DEF w, A
  <2> QED  BY <1>1 DEF HasDir
<1>5. Key(<<>>) = <<>>
  BY EmptySeq, KeyFacts DEF Paths
<1>6. \A q : q = <<>> \/ q \in Prefixes(p) => HasDir(w, Key(q))
  BY <1>3, <1>4, <1>5
<1>7. \A k \in A : /\ k \in Paths /\ k # <<>> /\ Len(k) < Len(p) /\ Len(k) \in Nat
                   /\ HasDir(w, Parent(k))
  <2> SUFFICES ASSUME NEW q \in Prefixes(p)
               PROVE  /\ Key(q) \in Paths /\ Key(q) # <<>> /\ Len(Key(q)) < Len(p) /\ Len(Key(q)) \in Nat
                      /\ HasDir(w, Parent(Key(q)))
    OBVIOUS
  <2>1. /\ q \in Paths /\ q # <<>> /\ Len(q) \in Nat /\ Len(q) < Len(p)
        /\ Parent(q) = <<>> \/ Parent(q) \in Prefixes(p)
    BY PrefixesAbove
  <2>2. /\ Key(q) \in Paths /\ Len(Key(q)) = Len(q) /\ Key(q) # <<>>
        /\ Parent(Key(q)) = Key(Parent(q))
    BY <2>1, KeyFacts
  <2> HIDE DEF w
  <2> QED  BY <1>6, <2>1, <2>2
<1>8. Parent(p) = <<>> \/ Parent(p) \in Prefixes(p)
  BY ParentFacts, ParentAbove, IsPrefix
<1>9. HasDir(w, Parent(Key(p)))
  <2>1. Parent(Key(p)) = Key(Parent(p))
    BY KeyFacts
  <2> HIDE DEF w
  <2> QED  BY <1>6, <1>8, <2>1
<1>10. Key(p) \notin A /\ ~Clash(Key(p), "file")
  <2>1. Len(Key(p)) = Len(p) /\ Len(p) \in Nat
    BY KeyFacts, PathFacts
  <2> HIDE DEF A
  <2> QED  BY <1>7, <2>1 DEF CanHold
<1> HIDE DEF w, A
<1>11. Key(p) \in DOMAIN w => Key(p) \in DOMAIN disk /\ disk[Key(p)].is = "file"
  BY <1>1, <1>10 DEF Clash
<1>12. Reachable(w)
  <2> SUFFICES ASSUME NEW k \in DOMAIN w
               PROVE  /\ k \in Paths
                      /\ w[k].is \in {"dir", "file"} /\ w[k].len \in Nat
                      /\ k # <<>> => HasDir(w, Parent(k))
    BY DEF Reachable, HasDir
  <2>1. CASE k \in DOMAIN disk
    BY <1>1, <1>4, <2>1 DEF Reachable, HasDir
  <2>2. CASE k \in A /\ k \notin DOMAIN disk
    BY <1>1, <1>7, <2>2 DEF Dir
  <2> QED  BY <1>1, <2>1, <2>2
<1> QED  BY <1>1, <1>4, <1>9, <1>11, <1>12 DEF w

LEMMA ExtractedReachable ==
    ASSUME NEW p \in Paths, p # <<>>, CanHold(p), Reachable(disk), HasDir(disk, <<>>),
           NEW node, IsNode(node), node.is = "file"
    PROVE  Reachable(Extracted(p, node)) /\ HasDir(Extracted(p, node), <<>>)
<1> DEFINE w == WithParents(p)
           k == Key(p)
<1>1. /\ Reachable(w) /\ HasDir(w, <<>>) /\ HasDir(w, Parent(k))
      /\ k \in DOMAIN w => k \in DOMAIN disk /\ disk[k].is = "file"
      /\ \A q \in DOMAIN disk : w[q] = disk[q]
  BY ParentsReachable
<1>2. k \in Paths
  BY KeyFacts
<1>3. Extracted(p, node) = Put(w, k, node)
  BY DEF Extracted
<1> HIDE DEF w, k
<1>4. Reachable(Put(w, k, node)) /\ \A q : HasDir(w, q) => HasDir(Put(w, k, node), q)
  BY <1>1, <1>2, PutReachable
<1> QED  BY <1>1, <1>3, <1>4

LEMMA InitDisk == Init => DiskOK
<1> SUFFICES ASSUME Init PROVE DiskOK
  OBVIOUS
<1>1. disk = << >> /\ pc = "scan"
  BY DEF Init
<1>2. DOMAIN disk = {}
  BY <1>1, EmptySeq
<1> QED  BY <1>1, <1>2 DEF DiskOK, Reachable

LEMMA NextDisk == Control /\ WalkOK /\ RestOK /\ DiskOK /\ [Next]_vars => DiskOK'
<1> SUFFICES ASSUME Control, WalkOK, RestOK, DiskOK, [Next]_vars PROVE DiskOK'
  OBVIOUS
<1> USE DEF Return, Goto, search, walk
<1>1. ASSUME Reachable(disk'), HasDir(disk', <<>>), pc' # "copy" PROVE DiskOK'
  BY <1>1 DEF DiskOK
<1>2. ASSUME disk' = disk, pc' # "copy",
             pc' \in {"search", "extract"} => pc \in {"copy", "search", "extract"}
      PROVE  DiskOK'
  BY <1>2 DEF DiskOK
<1>3. CASE Handle
  BY <1>3, HandleDisk
<1>4. CASE NextDir
  BY <1>4, NextDirDisk
<1>5. CASE Format
  BY <1>5, FormatDisk
<1>6. CASE Scan
  BY <1>2, <1>6 DEF Scan
<1>7. CASE CopyFails
  BY <1>2, <1>7 DEF CopyFails
<1>8. CASE CopyDone
  BY <1>2, <1>8 DEF CopyDone
<1>9. CASE Search
  BY <1>2, <1>9 DEF Search
<1>10. CASE ExtractDone
  BY <1>2, <1>10 DEF ExtractDone
<1>11. ASSUME pc = "extract", rest # <<>>, CanHold(Head(rest).path)
       PROVE  /\ Reachable(WithParents(Head(rest).path)) /\ HasDir(WithParents(Head(rest).path), <<>>)
              /\ \A of, at, n : n \in Nat =>
                    /\ Reachable(Extracted(Head(rest).path, File(of, at, n)))
                    /\ HasDir(Extracted(Head(rest).path, File(of, at, n)), <<>>)
  <2> DEFINE p == Head(rest).path
  <2>1. p \in Paths /\ p # <<>>
    BY <1>11, HeadFacts
  <2>2. Reachable(disk) /\ HasDir(disk, <<>>) /\ CanHold(p)
    BY <1>11 DEF DiskOK
  <2> HIDE DEF p
  <2>3. Reachable(WithParents(p)) /\ HasDir(WithParents(p), <<>>)
    BY <2>1, <2>2, ParentsReachable
  <2>4. ASSUME NEW of, NEW at, NEW n \in Nat
        PROVE  Reachable(Extracted(p, File(of, at, n))) /\ HasDir(Extracted(p, File(of, at, n)), <<>>)
    <3>1. IsNode(File(of, at, n)) /\ File(of, at, n).is = "file"
      BY <2>4 DEF IsNode, File
    <3> QED  BY <2>1, <2>2, <3>1, ExtractedReachable
  <2> QED  BY <2>3, <2>4 DEF p
<1>12. CASE Extract
  <2>1. /\ pc = "extract" /\ rest # <<>> /\ CanHold(Head(rest).path) /\ pc' = "extract"
        /\ disk' = Extracted(Head(rest).path, File("image", Head(rest).path, Head(rest).len))
    BY <1>12 DEF Extract
  <2>2. Head(rest).len \in Nat
    BY <2>1, HeadFacts
  <2> QED  BY <1>1, <1>11, <2>1, <2>2
<1>13. CASE ExtractFails
  <2>1. pc = "extract" /\ rest # <<>> /\ pc' = "ended"
    BY <1>13 DEF ExtractFails
  <2>2. CASE disk' = disk
    BY <1>2, <2>1, <2>2
  <2>3. CASE /\ CanHold(Head(rest).path)
             /\ disk' \in {WithParents(Head(rest).path),
                           Extracted(Head(rest).path, File("mixed", <<>>, 0))}
    BY <1>1, <1>11, <2>1, <2>3
  <2> QED  BY <1>13, <2>2, <2>3 DEF ExtractFails
<1>14. CASE UNCHANGED vars
  <2>1. disk' = disk /\ pc' = pc /\ job' = job /\ fs' = fs /\ stack' = stack /\ listing' = listing
    BY <1>14 DEF vars
  <2>2. \A q : Key(q)' = Key(q)
    BY <2>1, KeysUnmoved
  <2> QED  BY <2>1, <2>2 DEF DiskOK
<1> QED  BY <1>3, <1>4, <1>5, <1>6, <1>7, <1>8, <1>9, <1>10, <1>12, <1>13, <1>14 DEF Next, Handle

-----------------------------------------------------------------------------
(* What is copied. *)

IsFile(e) == e.kind \in {"file", "link"}

\* What was skipped so far.
LeftOut == {e \in Finished : IsFile(e) /\ IsSkipped(e)}
Counted == skipped = Cardinality(LeftOut)

Whole(e) == Key(e.path) \in DOMAIN disk /\ disk[Key(e.path)] = File("tree", e.path, Source(e).len)

DirsMade   == \A e \in Finished : e.kind = "dir" => Key(e.path) \in DOMAIN disk
FilesWhole == \A e \in Finished : IsFile(e) => IsSkipped(e) \/ Collides(e) \/ Whole(e)

\* While the tree is copied, nothing is on the disk that is not of it.
Known == \A k \in DOMAIN disk : k = <<>> \/ \E e \in Finished : Key(e.path) = k

\* The copy of what is finished.
CopyOK ==
    /\ skipped \in 0 .. Len(job.tree)
    /\ pc \in {"scan", "format"} => skipped = 0
    /\ pc = "copy" => Known
    /\ pc \in {"copy", "search", "extract"} \/ result = "ok" => DirsMade /\ FilesWhole /\ Counted

LEMMA EntriesFinite ==
    ASSUME job \in Jobs
    PROVE  /\ IsFiniteSet(Entries) /\ Cardinality(Entries) <= Len(job.tree)
           /\ \A S \in SUBSET Entries : /\ IsFiniteSet(S) /\ Cardinality(S) \in Nat
                                        /\ Cardinality(S) <= Len(job.tree)
<1> DEFINE t == job.tree
           n == Len(t)
           f == [i \in 1 .. n |-> t[i]]
<1>1. n \in Nat /\ DOMAIN t = 1 .. n
  BY EntryFacts
<1>2. f \in Surjection(1 .. n, Entries)
  <2>1. \A e \in Entries : \E i \in 1 .. n : f[i] = e
    BY <1>1 DEF Entries, SX!ToSet
  <2>2. \A i \in 1 .. n : f[i] \in Entries
    BY <1>1 DEF Entries, SX!ToSet
  <2> HIDE DEF n
  <2> QED  BY <2>1, <2>2 DEF Surjection
<1>3. IsFiniteSet(1 .. n) /\ Cardinality(1 .. n) = n
  <2> HIDE DEF n
  <2> QED  BY <1>1, FS_Interval
<1> HIDE DEF f, n
<1>4. IsFiniteSet(Entries) /\ Cardinality(Entries) <= n
  BY <1>2, <1>3, FS_Surjection
<1>5. Cardinality(Entries) \in Nat
  BY <1>4, FS_CardinalityType
<1>6. \A S \in SUBSET Entries : IsFiniteSet(S) /\ Cardinality(S) \in Nat /\ Cardinality(S) <= n
  BY <1>1, <1>4, <1>5, FS_Subset, FS_CardinalityType
<1> QED  BY <1>4, <1>6 DEF n

LEMMA FinishedEntries == Finished \in SUBSET Entries /\ LeftOut \in SUBSET Entries
BY DEF Finished, LeftOut, Done, Entries

\* What dealing with an entry counts.
LEMMA HandleCounts ==
    ASSUME Control, WalkOK, CopyOK, Handle
    PROVE  Counted' /\ skipped' \in 0 .. Len(job'.tree)
<1> USE DEF IsFile
<1>1. /\ pc = "copy" /\ job' = job /\ job \in Jobs /\ Counted /\ skipped \in Nat
      /\ Finished' = Finished \cup {Current} /\ Current \notin Finished
  <2>1. pc = "copy" /\ job' = job /\ job \in Jobs
    BY HandleFacts DEF Control
  <2>2. Counted /\ skipped \in Nat
    BY <2>1, EntryFacts DEF CopyOK
  <2> QED  BY <2>1, <2>2, HandleWalks
<1>2. \A e : IsSkipped(e)' <=> IsSkipped(e)
  BY <1>1, Unmoved
<1>3. LeftOut' = {e \in Finished' : IsFile(e) /\ IsSkipped(e)}
  BY <1>2 DEF LeftOut
<1>4. IsFiniteSet(LeftOut) /\ Current \notin LeftOut
  BY <1>1, EntriesFinite, FinishedEntries DEF LeftOut
<1>5. \/ skipped' = skipped /\ ~(IsFile(Current) /\ IsSkipped(Current))
      \/ skipped' = skipped + 1 /\ IsFile(Current) /\ IsSkipped(Current)
  BY DEF Handle, PassOver, MakeDir, SkipLinkedDir, SkipDangling, CopyFile, IsSkipped, IsLinkedDir
<1>6. \/ skipped' = skipped /\ LeftOut' = LeftOut
      \/ skipped' = skipped + 1 /\ LeftOut' = LeftOut \cup {Current}
  BY <1>1, <1>3, <1>5 DEF LeftOut
<1>7. skipped' = Cardinality(LeftOut')
  BY <1>1, <1>4, <1>6, FS_AddElement DEF Counted
<1>8. LeftOut' \in SUBSET Entries
  BY <1>1, <1>4, <1>6, HandleFacts, CurrentFacts, FinishedEntries
<1>9. skipped' \in Nat /\ skipped' <= Len(job.tree) /\ Len(job.tree) \in Nat
  BY <1>1, <1>7, <1>8, EntriesFinite, EntryFacts
<1> QED  BY <1>1, <1>7, <1>9 DEF Counted

\* What is on the disk once an entry is dealt with and the run goes on.
LEMMA HandleLays ==
    ASSUME Control, WalkOK, DiskOK, Handle, pc' = "copy"
    PROVE  \/ disk' = disk /\ ((IsFile(Current) /\ IsSkipped(Current)) \/ Current.kind = "untyped")
           \/ \E node : /\ disk' = Put(disk, Key(Current.path), node)
                        /\ IsFile(Current) /\ ~IsSkipped(Current) =>
                              node = Laid(Before(Key(Current.path)), Current.path, Source(Current).len)
<1> DEFINE p == Current.path
           k == Key(p)
<1> USE DEF IsFile
<1>1. pc = "copy" /\ Current \in Entry
  BY HandleFacts, CurrentFacts
<1>2. CASE PassOver
  BY <1>2 DEF PassOver
<1>3. CASE SkipLinkedDir
  BY <1>3 DEF SkipLinkedDir, IsLinkedDir, IsSkipped
<1>4. ASSUME NEW cause, Step(cause) PROVE cause = "none"
  BY <1>4 DEF Step, Return
<1>5. CASE MakeDir
  <2> DEFINE no == Obstacle(p, "dir", Put(disk, k, Dir))
  <2>1. /\ disk' = (IF no = "none" THEN Put(disk, k, Dir) ELSE disk) /\ Step(no)
        /\ Current.kind = "dir"
    BY <1>5 DEF MakeDir
  <2> HIDE DEF no
  <2>2. disk' = Put(disk, k, Dir)
    BY <1>4, <2>1
  <2> QED  BY <2>1, <2>2
<1>6. CASE SkipDangling
  <2> DEFINE d  == IF fs = "fat" THEN Put(disk, k, Before(k)) ELSE disk
             no == IF fs = "fat" THEN Obstacle(p, "file", d) ELSE "none"
  <2>1. /\ disk' = (IF no = "none" THEN d ELSE disk) /\ IsFile(Current)
        /\ Source(Current).is = "nothing"
    BY <1>6 DEF SkipDangling
  <2>2. IsSkipped(Current)
    BY <2>1 DEF IsSkipped
  <2>3. disk' = disk \/ disk' = Put(disk, k, Before(k))
    BY <2>1
  <2> QED  BY <2>1, <2>2, <2>3
<1>7. CASE CopyFile
  <2> DEFINE node == Laid(Before(k), p, Source(Current).len)
             d    == Put(disk, k, node)
             no   == IF Obstacle(p, "file", d) = "none" /\ Source(Current).is = "dir"
                     THEN "isdir" ELSE Obstacle(p, "file", d)
  <2>1. disk' = (IF no = "none" THEN d ELSE disk) /\ Step(no)
    BY <1>7 DEF CopyFile
  <2>2. no = "none"
    <3> HIDE DEF no
    <3> QED  BY <1>4, <2>1
  <2>3. disk' = Put(disk, k, node)
    BY <2>1, <2>2
  <2> QED  BY <2>3
<1> QED  BY <1>2, <1>3, <1>5, <1>6, <1>7 DEF Handle

LEMMA HandleCopies ==
    ASSUME Control, WalkOK, DiskOK, CopyOK, Handle, pc' = "copy"
    PROVE  Known' /\ DirsMade' /\ FilesWhole'
<1> DEFINE k == Key(Current.path)
<1>1. /\ pc = "copy" /\ job' = job /\ fs' = fs /\ job \in Jobs /\ Current \in Entries
      /\ Current.path \in Paths /\ Current.path # <<>> /\ Current \in Entry
  BY HandleFacts, CurrentFacts DEF Control
<1>2. Finished' = Finished \cup {Current} /\ Current \notin Finished
  BY HandleWalks
<1>3. Known /\ DirsMade /\ FilesWhole
  BY <1>1 DEF CopyOK
<1>4. /\ \A q : Key(q)' = Key(q)
      /\ \A e : Collides(e)' <=> Collides(e)
      /\ \A e : IsSkipped(e)' <=> IsSkipped(e)
      /\ \A e : Source(e)' = Source(e)
  BY <1>1, KeysUnmoved, Unmoved
<1>5. CASE disk' = disk /\ ((IsFile(Current) /\ IsSkipped(Current)) \/ Current.kind = "untyped")
  <2>1. Known'
    BY <1>2, <1>3, <1>4, <1>5 DEF Known
  <2>2. Current.kind # "dir"
    BY <1>5 DEF IsFile
  <2>3. DirsMade'
    BY <1>2, <1>3, <1>4, <1>5, <2>2 DEF DirsMade
  <2>4. IsFile(Current) => IsSkipped(Current)
    BY <1>5 DEF IsFile
  <2>5. FilesWhole'
    BY <1>2, <1>3, <1>4, <1>5, <2>4 DEF FilesWhole, Whole
  <2> QED  BY <2>1, <2>3, <2>5
<1>6. ASSUME NEW node, disk' = Put(disk, k, node),
             IsFile(Current) /\ ~IsSkipped(Current) =>
                node = Laid(Before(k), Current.path, Source(Current).len)
      PROVE  Known' /\ DirsMade' /\ FilesWhole'
  <2>1. /\ DOMAIN disk' = DOMAIN disk \cup {k} /\ disk'[k] = node
        /\ \A q \in DOMAIN disk : q # k => disk'[q] = disk[q]
    BY <1>6 DEF Put
  <2>2. k # <<>>
    BY <1>1, KeyFacts
  <2>3. Known'
    BY <1>2, <1>3, <1>4, <2>1 DEF Known
  <2>4. DirsMade'
    BY <1>2, <1>3, <1>4, <2>1 DEF DirsMade
  <2>5. ASSUME NEW e \in Finished, IsFile(e), ~IsSkipped(e), ~Collides(e)
        PROVE  Whole(e)'
    <3>1. Whole(e)
      BY <1>3, <2>5 DEF FilesWhole
    <3>2. Key(e.path) # k
      BY <1>1, <1>2, <2>5 DEF Collides
    <3> QED  BY <1>4, <2>1, <3>1, <3>2 DEF Whole
  <2>6. ASSUME NEW e, e = Current, IsFile(e), ~IsSkipped(e), ~Collides(e)
        PROVE  Whole(e)'
    <3>1. k \notin DOMAIN disk
      <4> SUFFICES ASSUME k \in DOMAIN disk PROVE FALSE
        OBVIOUS
      <4>1. PICK o \in Finished : Key(o.path) = k
        BY <1>3, <2>2 DEF Known
      <4>2. o \in Entries \ {e}
        BY <1>2, <2>6, FinishedEntries
      <4> QED  BY <2>6, <4>1, <4>2 DEF Collides
    <3>2. Before(k) = EmptyFile
      BY <3>1 DEF Before
    <3>3. Source(Current).len \in Nat
      BY <1>1 DEF Source, Entry, Thing
    <3>4. node = File("tree", e.path, Source(e).len)
      BY <1>6, <2>6, <3>2, <3>3 DEF Laid, EmptyFile, File
    <3> QED  BY <1>4, <2>1, <2>6, <3>4 DEF Whole
  <2>7. FilesWhole'
    <3> SUFFICES ASSUME NEW e \in Finished', IsFile(e), ~IsSkipped(e), ~Collides(e)
                 PROVE  Whole(e)'
      BY <1>4 DEF FilesWhole
    <3>1. CASE e \in Finished
      BY <2>5, <3>1
    <3>2. CASE e = Current
      BY <2>6, <3>2
    <3> QED  BY <1>2, <3>1, <3>2
  <2> QED  BY <2>3, <2>4, <2>7
<1> QED  BY <1>5, <1>6, HandleLays

LEMMA InitCopy == Init => CopyOK
<1> SUFFICES ASSUME Init PROVE CopyOK
  OBVIOUS
<1>1. job \in Jobs /\ pc = "scan" /\ skipped = 0 /\ result = "none"
  BY DEF Init
<1>2. Len(job.tree) \in Nat
  BY <1>1, EntryFacts
<1> QED  BY <1>1, <1>2 DEF CopyOK

\* A step that leaves the walk alone and no file of the tree changed.
LEMMA StillCopied ==
    ASSUME DirsMade, FilesWhole, Counted,
           job' = job, fs' = fs, stack' = stack, listing' = listing, skipped' = skipped,
           DOMAIN disk \subseteq DOMAIN disk',
           \A e \in Finished : IsFile(e) /\ ~Collides(e) /\ Key(e.path) \in DOMAIN disk
                                 => disk'[Key(e.path)] = disk[Key(e.path)]
    PROVE  DirsMade' /\ FilesWhole' /\ Counted'
<1>1. Finished' = Finished
  BY DEF Finished
<1>2. /\ \A q : Key(q)' = Key(q)
      /\ \A e : Collides(e)' <=> Collides(e)
      /\ \A e : IsSkipped(e)' <=> IsSkipped(e)
      /\ \A e : Source(e)' = Source(e)
  BY KeysUnmoved, Unmoved
<1>3. DirsMade'
  BY <1>1, <1>2 DEF DirsMade
<1>4. LeftOut' = LeftOut
  BY <1>1, <1>2 DEF LeftOut
<1>5. Counted'
  BY <1>4 DEF Counted
<1>6. ASSUME NEW e \in Finished, IsFile(e), ~IsSkipped(e), ~Collides(e) PROVE Whole(e)'
  <2>1. Whole(e)
    BY <1>6 DEF FilesWhole
  <2> QED  BY <1>2, <1>6, <2>1 DEF Whole
<1>7. FilesWhole'
  BY <1>1, <1>2, <1>6 DEF FilesWhole
<1> QED  BY <1>3, <1>5, <1>7

\* The files of the boot image touch no file of the tree that stands alone.
LEMMA ExtractSpares ==
    ASSUME Control, RestOK, DiskOK, pc = "extract", rest # <<>>,
           CanHold(Head(rest).path), DirsMade, FilesWhole, Counted,
           job' = job, fs' = fs, stack' = stack, listing' = listing, skipped' = skipped,
           NEW node,
           disk' \in {WithParents(Head(rest).path), Extracted(Head(rest).path, node)}
    PROVE  DirsMade' /\ FilesWhole' /\ Counted'
<1> DEFINE p == Head(rest).path
           w == WithParents(p)
<1>1. DOMAIN disk \subseteq DOMAIN w /\ \A q \in DOMAIN disk : w[q] = disk[q]
  BY DEF WithParents
<1>2. disk' = w \/ disk' = Put(w, Key(p), node)
  BY DEF Extracted
<1>3. PICK j \in DOMAIN job.image.files : job.image.files[j].path = p
  BY HeadFacts
<1> HIDE DEF p, w
<1>4. ASSUME NEW e \in Finished, ~Collides(e) PROVE Key(e.path) # Key(p)
  BY <1>3, <1>4 DEF Collides
<1>5. DOMAIN disk \subseteq DOMAIN disk' /\ \A q \in DOMAIN disk : q # Key(p) => disk'[q] = disk[q]
  BY <1>1, <1>2 DEF Put
<1> QED  BY <1>4, <1>5, StillCopied

LEMMA NextCopy ==
    Control /\ WalkOK /\ RestOK /\ DiskOK /\ CopyOK /\ [Next]_vars => CopyOK'
<1> SUFFICES ASSUME Control, WalkOK, RestOK, DiskOK, CopyOK, [Next]_vars PROVE CopyOK'
  OBVIOUS
<1> USE DEF Return, Goto, search, walk, end
<1>1. job \in Jobs /\ (pc # "ended" => result = "none")
  BY DEF Control
<1>2. CASE Handle
  <2>1. Counted' /\ skipped' \in 0 .. Len(job'.tree)
    BY <1>2, HandleCounts
  <2>2. pc' \in {"copy", "ended"} /\ result' # "ok"
    BY <1>2, HandleFacts
  <2>3. pc' = "copy" => Known' /\ DirsMade' /\ FilesWhole'
    BY <1>2, HandleCopies
  <2> QED  BY <2>1, <2>2, <2>3 DEF CopyOK
<1>3. ASSUME job' = job, fs' = fs, stack' = stack, listing' = listing, skipped' = skipped,
             disk' = disk,
             pc' \in {"search", "extract"} \/ result' = "ok" =>
                pc \in {"copy", "search", "extract"} \/ result = "ok",
             pc' # "copy" \/ pc' = pc,
             pc' = "scan" \/ pc' = "format" => pc = "scan" \/ pc = "format"
      PROVE  CopyOK'
  <2>1. DirsMade /\ FilesWhole /\ Counted => DirsMade' /\ FilesWhole' /\ Counted'
    BY <1>3, StillCopied
  <2>2. Known => Known'
    <3>1. Finished' = Finished /\ \A q : Key(q)' = Key(q)
      BY <1>3, KeysUnmoved DEF Finished
    <3> QED  BY <1>3, <3>1 DEF Known
  <2> QED  BY <1>3, <2>1, <2>2 DEF CopyOK
<1>4. CASE NextDir
  <2>1. /\ job' = job /\ fs' = fs /\ pc' = pc /\ pc = "copy" /\ disk' = disk /\ skipped' = skipped
        /\ result' = result
    BY <1>4 DEF NextDir
  <2>2. Finished' = Finished
    BY <1>4, NextDirWalks
  <2>3. /\ \A q : Key(q)' = Key(q)
        /\ \A e : Collides(e)' <=> Collides(e)
        /\ \A e : IsSkipped(e)' <=> IsSkipped(e)
        /\ \A e : Source(e)' = Source(e)
    BY <2>1, KeysUnmoved, Unmoved
  <2>4. LeftOut' = LeftOut
    BY <2>2, <2>3 DEF LeftOut
  <2>5. Known' /\ DirsMade' /\ FilesWhole' /\ Counted'
    BY <2>1, <2>2, <2>3, <2>4 DEF CopyOK, Known, DirsMade, FilesWhole, Whole, Counted
  <2> QED  BY <2>1, <2>5 DEF CopyOK
<1>5. CASE Format
  <2>1. /\ pc = "format" /\ job' = job /\ skipped' = skipped /\ skipped = 0 /\ listing' = {}
        /\ Len(job.tree) \in Nat
    BY <1>1, <1>5, EntryFacts DEF Format, CopyOK, WalkOK
  <2>2. CASE pc' = "ended" /\ result' = "failed"
    BY <2>1, <2>2 DEF CopyOK
  <2>3. CASE stack' = <<<<>>>> /\ disk' = [k \in {<<>>} |-> Dir] /\ pc' = "copy"
    <3>1. Done(job.tree, <<<<>>>>, {}) = {}
      BY <1>1, JobFacts, WalkEnds
    <3>2. Finished' = {}
      BY <2>1, <2>3, <3>1 DEF Finished
    <3>3. LeftOut' = {}
      BY <3>2 DEF LeftOut
    <3>4. Counted'
      BY <2>1, <3>3, FS_EmptySet DEF Counted
    <3>5. DirsMade' /\ FilesWhole'
      BY <3>2 DEF DirsMade, FilesWhole
    <3>6. Known'
      BY <2>3 DEF Known
    <3> QED  BY <2>1, <2>3, <3>4, <3>5, <3>6 DEF CopyOK
  <2> QED  BY <1>5, <2>2, <2>3 DEF Format
<1>6. CASE Scan
  BY <1>1, <1>6 DEF Scan, CopyOK
<1>7. CASE CopyFails
  BY <1>3, <1>7 DEF CopyFails
<1>8. CASE CopyDone
  BY <1>3, <1>8 DEF CopyDone
<1>9. CASE Search
  BY <1>3, <1>9 DEF Search
<1>10. CASE ExtractDone
  BY <1>3, <1>10 DEF ExtractDone
<1>11. ASSUME pc = "extract", rest # <<>>, CanHold(Head(rest).path),
              job' = job, fs' = fs, stack' = stack, listing' = listing, skipped' = skipped,
              pc' \in {"extract", "ended"},
              NEW node,
              disk' \in {WithParents(Head(rest).path), Extracted(Head(rest).path, node)}
       PROVE  CopyOK'
  <2>1. DirsMade /\ FilesWhole /\ Counted
    BY <1>11 DEF CopyOK
  <2>2. DirsMade' /\ FilesWhole' /\ Counted'
    BY <1>11, <2>1, ExtractSpares
  <2> QED  BY <1>11, <2>2 DEF CopyOK
<1>12. CASE Extract
  <2> DEFINE node == File("image", Head(rest).path, Head(rest).len)
  <2>1. /\ pc = "extract" /\ rest # <<>> /\ CanHold(Head(rest).path)
        /\ disk' = Extracted(Head(rest).path, node)
        /\ job' = job /\ fs' = fs /\ stack' = stack /\ listing' = listing /\ skipped' = skipped
        /\ pc' = pc
    BY <1>12 DEF Extract
  <2> HIDE DEF node
  <2> QED  BY <1>11, <2>1
<1>13. CASE ExtractFails
  <2>1. /\ pc = "extract" /\ rest # <<>> /\ pc' = "ended"
        /\ job' = job /\ fs' = fs /\ stack' = stack /\ listing' = listing /\ skipped' = skipped
    BY <1>13 DEF ExtractFails
  <2>2. CASE disk' = disk
    BY <1>3, <2>1, <2>2
  <2> DEFINE node == File("mixed", <<>>, 0)
  <2>3. CASE /\ CanHold(Head(rest).path)
             /\ disk' \in {WithParents(Head(rest).path), Extracted(Head(rest).path, node)}
    <3> HIDE DEF node
    <3> QED  BY <1>11, <2>1, <2>3
  <2> QED  BY <1>13, <2>2, <2>3 DEF ExtractFails
<1>14. CASE UNCHANGED vars
  BY <1>3, <1>14 DEF vars
<1> QED  BY <1>2, <1>4, <1>5, <1>6, <1>7, <1>8, <1>9, <1>10, <1>12, <1>13, <1>14 DEF Next, Handle

\* A run that ends well has finished the whole tree.
LEMMA OkIsWhole == Control /\ WalkOK /\ CopyOK => SuccessIsWhole
<1> SUFFICES ASSUME Control, WalkOK, CopyOK, result = "ok" PROVE SuccessIsWhole
  BY DEF SuccessIsWhole
<1>1. DirsMade /\ FilesWhole /\ Counted
  BY DEF CopyOK
<1>2. Finished = Entries
  <2>1. stack = <<>> /\ listing = {}
    BY DEF WalkOK
  <2>2. Done(job.tree, <<>>, {}) = Entries
    BY JobFacts, WalkEnds DEF Control, Entries
  <2> QED  BY <2>1, <2>2 DEF Finished
<1>3. LeftOut = {e \in NonDirs : IsSkipped(e)}
  BY <1>2 DEF LeftOut, IsFile, NonDirs
<1>4. skipped = Cardinality({e \in NonDirs : IsSkipped(e)})
  BY <1>1, <1>3 DEF Counted
<1>5. \A e \in Dirs : Key(e.path) \in DOMAIN disk
  BY <1>1, <1>2 DEF DirsMade, Dirs
<1>6. \A e \in NonDirs : IsSkipped(e) \/ Collides(e) \/ Whole(e)
  BY <1>1, <1>2 DEF FilesWhole, NonDirs, IsFile
<1> QED  BY <1>4, <1>5, <1>6 DEF SuccessIsWhole, Whole

-----------------------------------------------------------------------------
(* The loader. *)

LoaderThere == \E k \in DOMAIN disk : IsLoader(k) /\ disk[k].is = "file" /\ disk[k].of = "image"

\* What the run takes to be a loader is one.
LoaderOK ==
    /\ pc = "extract" /\ found => LoaderThere
    /\ result = "ok" /\ boot => HasEfiBoot \/ LoaderThere

\* Folding a loader's path leaves it a loader's.
LEMMA KeyIsLoader ==
    ASSUME NEW p \in Paths, IsLoader(p)
    PROVE  IsLoader(Key(p))
<1>1. Key(p) = p \/ Key(p) = FoldPath(p)
  BY DEF Key, FoldPath
<1>2. IsLoader(FoldPath(p))
  <2> DEFINE f == FoldPath(p)
             g == FoldPath(f)
  <2>1. f \in Paths /\ Len(f) = Len(p) /\ \A i \in 1 .. Len(p) : f[i] = Fold[p[i]]
    BY FoldFacts
  <2>2. Len(p) \in Nat /\ \A i \in 1 .. Len(p) : p[i] \in Names
    BY PathFacts
  <2> HIDE DEF f
  <2>3. g \in Paths /\ Len(g) = Len(f) /\ \A i \in 1 .. Len(f) : g[i] = Fold[f[i]]
    BY <2>1, FoldFacts
  <2>4. \A i \in 1 .. Len(p) : Fold[f[i]] = f[i]
    BY <2>1, <2>2, NamesAssumption DEF FoldNames
  <2> HIDE DEF g
  <2>5. \A i \in 1 .. Len(p) : g[i] = f[i]
    BY <2>1, <2>3, <2>4
  <2>6. g = f
    BY <2>1, <2>3, <2>5, SamePath
  <2>7. Len(p) = 3 /\ Parent(f) = LoaderDirs /\ Fold[p[3]] \in LoaderNames
    BY DEF IsLoader, f
  <2>8. Len(f) = 3 /\ f[3] = Fold[p[3]] /\ Fold[f[3]] = f[3]
    BY <2>1, <2>4, <2>7
  <2>9. FoldPath(f) = f
    BY <2>6 DEF g
  <2>10. IsLoader(f)
    BY <2>7, <2>8, <2>9 DEF IsLoader
  <2> QED  BY <2>10 DEF f
<1> QED  BY <1>1, <1>2

LEMMA InitLoader == Init => LoaderOK
BY DEF Init, LoaderOK

LEMMA NextLoader ==
    Control /\ RestOK /\ LoaderOK /\ [Next]_vars => LoaderOK'
<1> SUFFICES ASSUME Control, RestOK, LoaderOK, [Next]_vars PROVE LoaderOK'
  OBVIOUS
<1> USE DEF Return, Goto, search, walk, end
<1>1. CASE Extract
  <2> DEFINE p    == Head(rest).path
             k    == Key(p)
             w    == WithParents(p)
             node == File("image", p, Head(rest).len)
  <2>1. /\ pc = "extract" /\ rest # <<>> /\ result' = "none" /\ found' = (found \/ IsLoader(p))
        /\ disk' = Put(w, k, node)
    BY <1>1 DEF Extract, Extracted, Control
  <2>2. p \in Paths
    BY <2>1, HeadFacts
  <2>3. DOMAIN disk \subseteq DOMAIN w /\ \A q \in DOMAIN disk : w[q] = disk[q]
    BY DEF WithParents
  <2>4. IsLoader(p) => IsLoader(k)
    BY <2>2, KeyIsLoader
  <2>5. node.is = "file" /\ node.of = "image"
    BY DEF File
  <2> HIDE DEF p, k, w, node
  <2>6. /\ k \in DOMAIN disk' /\ disk'[k] = node
        /\ \A q \in DOMAIN disk : q \in DOMAIN disk' /\ (q # k => disk'[q] = disk[q])
    BY <2>1, <2>3 DEF Put
  <2>7. CASE IsLoader(p)
    <3>1. LoaderThere'
      BY <2>4, <2>5, <2>6, <2>7 DEF LoaderThere
    <3> QED  BY <2>1, <3>1 DEF LoaderOK
  <2>8. CASE found
    <3>1. PICK q \in DOMAIN disk : IsLoader(q) /\ disk[q].is = "file" /\ disk[q].of = "image"
      BY <2>1, <2>8 DEF LoaderOK, LoaderThere
    <3>2. disk'[q].is = "file" /\ disk'[q].of = "image" /\ q \in DOMAIN disk'
      BY <2>5, <2>6, <3>1
    <3>3. LoaderThere'
      BY <3>1, <3>2 DEF LoaderThere
    <3> QED  BY <2>1, <3>3 DEF LoaderOK
  <2> QED  BY <2>1, <2>7, <2>8 DEF LoaderOK
<1>2. CASE ExtractDone
  BY <1>2 DEF ExtractDone, LoaderOK, LoaderThere
<1>3. CASE ExtractFails
  BY <1>3 DEF ExtractFails, LoaderOK, Control
<1>4. CASE Search
  BY <1>4 DEF Search, LoaderOK, Control
<1>5. CASE CopyDone
  <2>1. HasEfiBoot' = HasEfiBoot
    BY <1>5, Unmoved DEF CopyDone
  <2> QED  BY <1>5, <2>1 DEF CopyDone, LoaderOK, Control
<1>6. CASE Handle
  <2>1. pc' \in {"copy", "ended"} /\ (result' = "none" \/ result' = "failed")
    <3>1. pc = "copy" /\ result = "none"
      BY <1>6 DEF Handle, PassOver, MakeDir, SkipLinkedDir, SkipDangling, CopyFile, Control
    <3>2. (\E cause : Step(cause)) \/ UNCHANGED <<pc, end>>
      BY <1>6 DEF Handle, PassOver, MakeDir, SkipLinkedDir, SkipDangling, CopyFile
    <3> QED  BY <3>1, <3>2 DEF Step
  <2> QED  BY <2>1 DEF LoaderOK
<1>7. CASE Scan \/ Format \/ NextDir \/ CopyFails
  <2>1. pc' # "extract" /\ result' # "ok"
    BY <1>7, ObjectionType DEF Scan, Format, NextDir, CopyFails, Control
  <2> QED  BY <2>1 DEF LoaderOK
<1>8. CASE UNCHANGED vars
  BY <1>8, Unmoved DEF vars, LoaderOK, LoaderThere
<1> QED  BY <1>1, <1>2, <1>3, <1>4, <1>5, <1>6, <1>7, <1>8 DEF Next, Handle

LEMMA SilenceIsBootable ==
    Control /\ WalkOK /\ DiskOK /\ CopyOK /\ LoaderOK => SilenceMeansBootable
<1> SUFFICES ASSUME Control, WalkOK, DiskOK, CopyOK, LoaderOK, result = "ok", boot, skipped = 0
             PROVE  \/ \E k \in DOMAIN disk : /\ IsLoader(k) /\ disk[k].is = "file"
                                              /\ disk[k].of \in {"tree", "image"}
                    \/ \E e \in NonDirs : IsLoader(e.path) /\ Collides(e)
  BY DEF SilenceMeansBootable
<1>1. CASE LoaderThere
  BY <1>1 DEF LoaderThere
<1>2. CASE HasEfiBoot
  <2>1. PICK e \in NonDirs : IsLoader(e.path)
    BY <1>2 DEF HasEfiBoot
  <2>2. SuccessIsWhole
    BY OkIsWhole
  <2> DEFINE S == {o \in NonDirs : IsSkipped(o)}
  <2>3. Cardinality(S) = 0
    BY <2>2 DEF SuccessIsWhole
  <2>4. S \in SUBSET Entries
    BY DEF NonDirs
  <2>5. IsFiniteSet(S)
    <3> HIDE DEF S
    <3> QED  BY <2>4, EntriesFinite DEF Control
  <2>6. S = {}
    <3> HIDE DEF S
    <3> QED  BY <2>3, <2>5, FS_EmptySet
  <2>7. ~IsSkipped(e)
    BY <2>6
  <2>8. CASE Collides(e)
    BY <2>1, <2>8
  <2>9. CASE ~Collides(e)
    <3>1. Key(e.path) \in DOMAIN disk /\ disk[Key(e.path)] = File("tree", e.path, Source(e).len)
      BY <2>2, <2>7, <2>9 DEF SuccessIsWhole
    <3>2. IsLoader(Key(e.path))
      BY <2>1, EntryFacts, KeyIsLoader DEF Control, NonDirs
    <3> QED  BY <3>1, <3>2 DEF File
  <2> QED  BY <2>8, <2>9
<1> QED  BY <1>1, <1>2 DEF LoaderOK

-----------------------------------------------------------------------------
(* Whether what was admitted fits. *)

\* The volume of a target that is not too small.
LEMMA VolumeFacts ==
    ASSUME job \in Jobs, job.sector = NtfsSector, ~TooSmall(Total, job.sector, FALSE)
    PROVE  /\ Cluster \in ClusterWords
           /\ PartWords \in Nat /\ FatOverhead(PartWords, job.sector, Cluster) \in Int
           /\ Clusters(Volume, job.sector, Cluster) \in Int
           /\ Clusters(Volume, job.sector, Cluster) >= LeastClusters
           /\ \A u \in Nat :
                 u * Cluster + FatOverhead(PartWords, job.sector, Cluster) - Cluster <= PartWords
                    => u <= Clusters(Volume, job.sector, Cluster)
<1>1. job.sector = 64 /\ MiB = 131072 /\ FloorBytes = 8388608
  BY SMT, WordsAssumption DEF KiB
<1>2. Total \in Int
  <2>1. job.size \in Nat
    BY JobFacts DEF Job
  <2> DEFINE n == job.size
  <2>2. n \in Int /\ 64 \in Nat \ {0}
    BY <2>1
  <2> HIDE DEF n
  <2>3. n \div 64 \in Int
    BY ONLY <2>2, Division
  <2> QED  BY <1>1, <2>3 DEF Total, n
<1>3. Reserved(64, FALSE) \in Nat
  <2> DEFINE n == GptArrayBytes + 64 - 1
  <2>1. n \in Nat
    BY BytesAssumption
  <2> HIDE DEF n
  <2>2. n \div 64 \in Nat
    BY <2>1
  <2>3. ArraySectors(64) \in Nat
    BY <2>2 DEF ArraySectors, SectorsFor, n
  <2>4. AlignLba(64) = 2048
    BY SMT, <1>1 DEF AlignLba
  <2> QED  BY <2>3, <2>4 DEF Reserved, GptTail
<1>4. FloorSectors(64) = 131072
  BY SMT, <1>1 DEF FloorSectors
<1>5. Volume = Total - Reserved(64, FALSE)
  BY <1>1 DEF Volume, Parts
<1>6. Volume \in Nat /\ Volume > 131072
  <2>1. ~(Total <= Reserved(64, FALSE) + FloorSectors(64))
    <3>1. job.sector = 64
      BY SMT, <1>1
    <3>2. ~TooSmall(Total, job.sector, FALSE)
      OBVIOUS
    <3>3. ~TooSmall(Total, 64, FALSE)
      BY ONLY <3>1, <3>2
    <3> QED  BY ONLY <3>3 DEF TooSmall
  <2> DEFINE t == Total
             r == Reserved(64, FALSE)
  <2>2. t \in Int /\ r \in Nat /\ Volume = t - r
    BY ONLY <1>2, <1>3, <1>5
  <2>3. ~(t <= r + FloorSectors(64))
    BY ONLY <2>1
  <2> HIDE DEF t, r
  <2> QED  BY SMT, <1>4, <2>2, <2>3
<1>7. PartWords = Volume * 64 /\ PartWords \in Nat
  BY <1>1, <1>6 DEF PartWords
<1>8. Cluster = Fat32Cluster(Volume * 64, 64)
  BY <1>1, <1>7 DEF Cluster
<1>9. /\ Cluster \in ClusterWords
      /\ Clusters(Volume, 64, Cluster) \in Int /\ Clusters(Volume, 64, Cluster) >= LeastClusters
      /\ \A u \in Nat : u * Cluster + FatOverhead(Volume * 64, 64, Cluster) - Cluster <= Volume * 64
                           => u <= Clusters(Volume, 64, Cluster)
  <2> DEFINE v == Volume
             c == Cluster
  <2>1. v \in Nat /\ v > 131072 /\ c = Fat32Cluster(v * 64, 64)
    BY ONLY <1>6, <1>8
  <2> HIDE DEF v, c
  <2>2. /\ c \in ClusterWords
        /\ Clusters(v, 64, c) \in Int /\ Clusters(v, 64, c) >= LeastClusters
        /\ \A u \in Nat : u * c + FatOverhead(v * 64, 64, c) - c <= v * 64 => u <= Clusters(v, 64, c)
    BY ONLY <2>1, RoomOnVolume
  <2> QED  BY ONLY <2>2 DEF v, c
<1>10. FatOverhead(PartWords, 64, Cluster) \in Int
  <2> DEFINE p == PartWords
             c == Cluster
  <2>1. p \in Int /\ c \in Nat \ {0}
    BY <1>7, <1>9 DEF ClusterWords
  <2> HIDE DEF p, c
  <2>2. p \div c \in Int
    BY ONLY <2>1, Division
  <2>3. FatOverhead(p, 64, c) \in Int
    BY <2>1, <2>2 DEF FatOverhead
  <2> QED  BY <2>3 DEF p, c
<1> QED  BY ONLY <1>1, <1>7, <1>9, <1>10

\* A key takes no more room in a directory than the name.
LEMMA SlotsOfKey ==
    ASSUME NEW p \in Paths, p # <<>>
    PROVE  /\ NameSlots[SX!Last(p)] \in Nat /\ NameSlots[SX!Last(Key(p))] \in Nat
           /\ NameSlots[SX!Last(Key(p))] <= NameSlots[SX!Last(p)]
<1>1. Len(p) \in Nat /\ Len(p) \in 1 .. Len(p) /\ p[Len(p)] \in Names /\ SX!Last(p) = p[Len(p)]
  BY PathFacts DEF SX!Last
<1>2. Key(p) = p \/ (Key(p) = FoldPath(p) /\ SX!Last(Key(p)) = Fold[p[Len(p)]])
  <2>1. Key(p) = p \/ Key(p) = FoldPath(p)
    BY DEF Key, FoldPath
  <2>2. SX!Last(FoldPath(p)) = Fold[p[Len(p)]]
    BY <1>1, FoldFacts DEF SX!Last
  <2> QED  BY <2>1, <2>2
<1>3. Fold[p[Len(p)]] \in Names
  BY <1>1, NamesAssumption
<1> QED  BY <1>1, <1>2, <1>3, SlotsOfNamesAssumption

\* The entry e accounts for a node at k: it is its own, of its kind, and
\* scan_tree() took it to be no shorter.
Accounts(e, k, node) ==
    /\ Key(e.path) = k
    /\ \/ node.is = "dir" /\ e.kind = "dir"
       \/ node.is = "file" /\ IsFile(e) /\ node.len <= e.seen.len

\* Every node of d but the root is accounted for by an entry of F.
MadeOf(d, F) == \A k \in DOMAIN d : k = <<>> \/ \E e \in F : Accounts(e, k, d[k])

\* What is made of entries of the tree is no more than was reckoned.
LEMMA MadeOfNeeds ==
    ASSUME job \in Jobs, Estimated, Cluster \in ClusterWords,
           NEW d, Reachable(d), HasDir(d, <<>>), MadeOf(d, Entries)
    PROVE  /\ Used(d) \in Nat
           /\ AllocWords(Cluster) \in Nat
           /\ Cardinality(Dirs \cup NonDirs) \in Nat
           /\ Cluster * Used(d) <=
                 Cluster + AllocWords(Cluster) + 16 * Cardinality(Dirs \cup NonDirs)
<1> DEFINE N == DOMAIN d
           M == N \ {<<>>}
           D == {k \in N : d[k].is = "dir"}
           c == Cluster
           of == [k \in M |-> CHOOSE e \in Entries : Accounts(e, k, d[k])]
           up == [k \in M |-> Parent(k)]
           u == [k \in N |-> NodeClusters(d, k)]
           w == [e \in NonDirs |-> RoundUpTo(e.seen.len, c)]
<1>1. \A k \in M : of[k] \in Entries /\ Accounts(of[k], k, d[k])
  BY DEF MadeOf
<1>2. \A k, l \in M : of[k] = of[l] => k = l
  <2> HIDE DEF of
  <2> QED  BY <1>1 DEF Accounts
<1>3. \A k \in M \cap D : of[k] \in Dirs
  <2> HIDE DEF of
  <2> QED  BY <1>1 DEF Accounts, Dirs
<1>4. \A k \in N \ D : /\ k \in M /\ of[k] \in NonDirs
                       /\ d[k].is = "file" /\ d[k].len \in Nat /\ d[k].len <= of[k].seen.len
  <2> HIDE DEF of
  <2> QED  BY <1>1 DEF Accounts, NonDirs, IsFile, HasDir, Reachable
<1>5. \A e \in Entries : e \in Entry /\ e.path \in Paths /\ e.path # <<>> /\ e.seen.len \in Nat
  <2>1. \A e \in Entries : e \in Entry /\ e.path \in Paths /\ e.path # <<>>
    BY EntryFacts
  <2> QED  BY <2>1 DEF Entry, Thing
<1>6. IsFiniteSet(Dirs) /\ IsFiniteSet(NonDirs) /\ IsFiniteSet(Dirs \cup NonDirs)
  <2>1. Dirs \in SUBSET Entries /\ NonDirs \in SUBSET Entries /\ Dirs \cup NonDirs \in SUBSET Entries
    BY DEF Dirs, NonDirs
  <2> QED  BY <2>1, EntriesFinite
<1>7. IsFiniteSet(M) /\ Cardinality(M) <= Cardinality(Dirs \cup NonDirs)
  <2>1. \A k \in M : of[k] \in Dirs \cup NonDirs
    <3>1. \A k \in M : k \in M \cap D \/ k \in N \ D
      OBVIOUS
    <3> HIDE DEF M, N, D, of
    <3> QED  BY <1>3, <1>4, <3>1
  <2>2. of \in Injection(M, Dirs \cup NonDirs)
    <3>1. of \in [M -> Dirs \cup NonDirs]
      BY <2>1
    <3> HIDE DEF of, M
    <3> QED  BY <1>2, <3>1 DEF Injection, IsInjective
  <2> HIDE DEF of, M
  <2> QED  BY <1>6, <2>2, FS_Injection
<1>8. IsFiniteSet(N)
  <2>1. N = M \cup {<<>>} /\ <<>> \notin M
    BY DEF HasDir
  <2> HIDE DEF N, M
  <2> QED  BY <1>7, <2>1, FS_AddElement
<1>9. Cardinality(D) <= 1 + Cardinality(Dirs) /\ Cardinality(D) \in Nat
  <2> DEFINE B == M \cap D
             g == [k \in B |-> of[k]]
  <2>1. D = B \cup {<<>>} /\ <<>> \notin B
    BY DEF HasDir
  <2>2. g \in Injection(B, Dirs)
    <3>1. g \in [B -> Dirs]
      <4> HIDE DEF of
      <4> QED  BY <1>3
    <3>2. \A k, l \in B : g[k] = g[l] => k = l
      <4> HIDE DEF of
      <4> QED  BY <1>2
    <3> HIDE DEF g, B
    <3> QED  BY <3>1, <3>2 DEF Injection, IsInjective
  <2> HIDE DEF g, B, D
  <2>3. IsFiniteSet(B) /\ Cardinality(B) <= Cardinality(Dirs)
    BY <1>6, <2>2, FS_Injection
  <2>4. Cardinality(D) = Cardinality(B) + 1
    BY <2>1, <2>3, FS_AddElement
  <2>5. Cardinality(B) \in Nat /\ Cardinality(Dirs) \in Nat
    BY <1>6, <2>3, FS_CardinalityType
  <2> QED  BY <2>3, <2>4, <2>5
<1>10. \A q \in M : NameSlots[SX!Last(q)] \in Nat /\ NameSlots[SX!Last(q)] <= 4
  <2> SUFFICES ASSUME NEW q \in M PROVE NameSlots[SX!Last(q)] \in Nat /\ NameSlots[SX!Last(q)] <= 4
    OBVIOUS
  <2>1. PICK e \in Entries : Key(e.path) = q
    BY <1>1 DEF Accounts
  <2>2. NameSlots[SX!Last(e.path)] <= 4
    BY DEF Estimated
  <2> QED  BY <1>5, <2>1, <2>2, SlotsOfKey
<1>11. \A k \in D : /\ u[k] \in Nat
                    /\ c * u[k] <= c + 16 * Cardinality({q \in M : up[q] = k})
  <2> SUFFICES ASSUME NEW k \in D
               PROVE  /\ u[k] \in Nat
                      /\ c * u[k] <= c + 16 * Cardinality({q \in M : up[q] = k})
    OBVIOUS
  <2> DEFINE C == Children(d, k)
             f == [q \in C |-> NameSlots[SX!Last(q)]]
             s == SumFunctionOnSet(f, C)
             first == IF k = <<>> THEN 1 ELSE 2
  <2>1. C = {q \in M : up[q] = k}
    BY DEF Children
  <2>2. IsFiniteSet(C) /\ Cardinality(C) \in Nat
    <3>1. C \in SUBSET M
      BY <2>1
    <3> HIDE DEF C, M
    <3> QED  BY <1>7, <3>1, FS_Subset, FS_CardinalityType
  <2>3. \A q \in C : f[q] \in Nat /\ f[q] <= 4
    <3> HIDE DEF M
    <3> QED  BY <1>10, <2>1
  <2>4. s \in Nat /\ s <= 4 * Cardinality(C)
    <3> HIDE DEF C, f
    <3>1. 4 \in Nat
      OBVIOUS
    <3> QED  BY <2>2, <2>3, <3>1, SumBound
  <2>5. u[k] = SectorsFor(SlotWords * (first + s), c)
    <3>1. u[k] = SectorsFor(DirWords(d, k), c)
      BY DEF NodeClusters
    <3>2. DirWords(d, k) = SlotWords * (first + s)
      BY DEF DirWords, SumFunction
    <3> QED  BY <3>1, <3>2
  <2>6. first \in {1, 2}
    OBVIOUS
  <2>7. u[k] \in Nat /\ c * u[k] <= c + 16 * Cardinality(C)
    <3> HIDE DEF s, first, c, C, u
    <3>1. c \in ClusterWords
      BY DEF c
    <3> QED  BY ONLY <2>2, <2>4, <2>5, <2>6, <3>1, DirectoryNeeds
  <2> HIDE DEF C, u, c
  <2> QED  BY <2>1, <2>7
<1>12. \A e \in NonDirs : w[e] \in Nat
  <2> SUFFICES ASSUME NEW e \in NonDirs PROVE RoundUpTo(e.seen.len, c) \in Nat
    OBVIOUS
  <2>1. e.seen.len \in Nat /\ e.seen.len <= e.seen.len
    BY <1>5 DEF NonDirs
  <2> QED  BY <2>1, FileNeeds
<1>13. \A k \in N \ D : u[k] \in Nat /\ of[k] \in NonDirs /\ c * u[k] <= w[of[k]]
  <2> SUFFICES ASSUME NEW k \in N \ D
               PROVE  u[k] \in Nat /\ of[k] \in NonDirs /\ c * u[k] <= w[of[k]]
    OBVIOUS
  <2> HIDE DEF of
  <2>1. of[k] \in NonDirs /\ d[k].is = "file" /\ d[k].len \in Nat /\ d[k].len <= of[k].seen.len
    BY <1>4
  <2>2. of[k].seen.len \in Nat
    BY <1>5, <2>1 DEF NonDirs
  <2>3. u[k] = SectorsFor(d[k].len, c)
    BY <2>1 DEF NodeClusters
  <2>4. w[of[k]] = RoundUpTo(of[k].seen.len, c)
    BY <2>1
  <2> HIDE DEF u, w
  <2> QED  BY <2>1, <2>2, <2>3, <2>4, FileNeeds
<1>14. c \in Nat /\ c \in ClusterWords
  BY DEF ClusterWords
<1>15. /\ SumFunctionOnSet(u, N) \in Nat
       /\ c * SumFunctionOnSet(u, N) <=
            c * Cardinality(D) + SumFunctionOnSet(w, NonDirs) + 16 * Cardinality(M)
  <2>1. D \in SUBSET N /\ \A k \in N : u[k] \in Nat
    <3>1. \A k \in N : k \in D \/ k \in N \ D
      OBVIOUS
    <3>2. D \in SUBSET N
      OBVIOUS
    <3> HIDE DEF D, N, u
    <3> QED  BY <1>11, <1>13, <3>1, <3>2
  <2>2. \A k, l \in N \ D : of[k] = of[l] => k = l
    <3> HIDE DEF of
    <3> QED  BY <1>2, <1>4
  <2> HIDE DEF N, M, D, of, up, u, w, c
  <2> QED  BY ONLY <1>6, <1>7, <1>8, <1>11, <1>12, <1>13, <1>14, <2>1, <2>2, NodesNeed
<1>16. SumFunctionOnSet(w, NonDirs) \in Nat
  <2> HIDE DEF w
  <2> QED  BY <1>6, <1>12, SumMonotone
<1>17. Used(d) = SumFunctionOnSet(u, N)
  BY DEF Used, SumFunction
<1>18. AllocWords(c) = Cardinality(Dirs) * c + SumFunctionOnSet(w, NonDirs)
  BY DEF AllocWords, SumFunction
<1>19. Cardinality(Dirs) \in Nat /\ Cardinality(Dirs \cup NonDirs) \in Nat /\ Cardinality(M) \in Nat
  <2> HIDE DEF M
  <2> QED  BY <1>6, <1>7, FS_CardinalityType
<1> DEFINE sum == SumFunctionOnSet(u, N)
           all == SumFunctionOnSet(w, NonDirs)
<1>20. /\ sum \in Nat
       /\ Cardinality(Dirs) * c + all \in Nat
       /\ c * sum <= c + (Cardinality(Dirs) * c + all) + 16 * Cardinality(Dirs \cup NonDirs)
  <2> HIDE DEF sum, all, c, D, M
  <2>1. Cardinality(Dirs) * c \in Nat /\ c * sum \in Nat /\ c * Cardinality(D) \in Nat
    BY <1>9, <1>14, <1>15, <1>19 DEF sum
  <2>2. c * Cardinality(D) <= c + Cardinality(Dirs) * c
    <3> DEFINE x == Cardinality(D)
               y == Cardinality(Dirs)
    <3>1. x \in Nat /\ y \in Nat /\ x <= 1 + y /\ c \in Nat
      BY <1>9, <1>14, <1>19
    <3> HIDE DEF x, y
    <3>2. c * x <= c * (1 + y) /\ c * (1 + y) = c + y * c
      BY <3>1
    <3>3. c * x <= c + y * c
      BY <3>2
    <3> QED  BY <3>3 DEF x, y
  <2>3. c * sum <= c * Cardinality(D) + all + 16 * Cardinality(M)
    BY <1>15 DEF sum, all
  <2>4. all \in Nat
    BY <1>16 DEF all
  <2>5. sum \in Nat /\ c \in Nat
    BY <1>14, <1>15 DEF sum
  <2>6. Cardinality(M) \in Nat /\ Cardinality(Dirs \cup NonDirs) \in Nat
        /\ Cardinality(M) <= Cardinality(Dirs \cup NonDirs)
    BY <1>7, <1>19
  <2> DEFINE x == c * sum
             y == c * Cardinality(D)
             z == Cardinality(Dirs) * c
             m == Cardinality(M)
             n == Cardinality(Dirs \cup NonDirs)
  <2>7. /\ x \in Nat /\ y \in Nat /\ z \in Nat /\ m \in Nat /\ n \in Nat /\ m <= n
        /\ y <= c + z /\ x <= y + all + 16 * m
    BY <2>1, <2>2, <2>3, <2>6
  <2> HIDE DEF x, y, z, m, n
  <2>8. z + all \in Nat /\ x <= c + (z + all) + 16 * n
    BY <2>4, <2>5, <2>7
  <2> QED  BY <2>5, <2>8 DEF x, z, n
<1> HIDE DEF sum, all, u, w, N, M, D, of, up
<1> QED  BY <1>17, <1>18, <1>19, <1>20 DEF sum, all

\* The size estimate admitted the image to FAT32.
Admitted == ~TooSmall(Total, job.sector, FALSE) /\ ~(Needed(FALSE) > PartWords)

\* What the estimate covers fits: while the tree is copied, entries that are
\* done with account for all that is on the disk.
AdmitOK ==
    Estimated =>
        /\ why \notin {"format", "full"}
        /\ fs = "fat" /\ pc \in {"format", "copy"} => Admitted
        /\ fs = "fat" /\ pc = "copy" => MadeOf(disk, Finished)

LEMMA EstimateUnmoved ==
    ASSUME job' = job
    PROVE  (Admitted' <=> Admitted) /\ (Estimated' <=> Estimated)
<1>1. Dirs' = Dirs /\ NonDirs' = NonDirs /\ Entries' = Entries
  BY Unmoved
<1>2. Total' = Total
  BY DEF Total
<1>3. PartWords' = PartWords /\ Cluster' = Cluster
  BY <1>2 DEF PartWords, Volume, Cluster
<1>4. Needed(FALSE)' = Needed(FALSE)
  BY <1>1, <1>3 DEF Needed, AllocWords
<1>5. Admitted' <=> Admitted
  BY <1>2, <1>3, <1>4 DEF Admitted
<1>6. Estimated' <=> Estimated
  BY <1>1 DEF Estimated
<1> QED  BY <1>5, <1>6

LEMMA MadeUnmoved ==
    ASSUME job' = job, fs' = fs
    PROVE  MadeOf(disk', Finished') => MadeOf(disk, Finished)'
BY KeysUnmoved DEF MadeOf, Accounts, IsFile

\* What is made of the tree of an admitted image does not overflow the volume.
LEMMA AdmittedFits ==
    ASSUME job \in Jobs, Estimated, Admitted,
           NEW d, Reachable(d), HasDir(d, <<>>), MadeOf(d, Entries)
    PROVE  ~Overflows(d)
<1> DEFINE c == Cluster
           u == Used(d)
           o == FatOverhead(PartWords, job.sector, Cluster)
           a == AllocWords(Cluster)
           n == Cardinality(Dirs \cup NonDirs)
           p == PartWords
           m == Clusters(Volume, job.sector, Cluster)
<1>1. /\ c \in ClusterWords /\ p \in Nat /\ o \in Int /\ m \in Int
      /\ \A x \in Nat : x * c + o - c <= p => x <= m
  BY VolumeFacts DEF Estimated, Admitted
<1>2. u \in Nat /\ a \in Nat /\ n \in Nat /\ c * u <= c + a + 16 * n
  BY <1>1, MadeOfNeeds
<1>3. ~(a + n * 16 + o > p)
  BY DEF Admitted, Needed, EntryWords
<1> HIDE DEF c, u, o, a, n, p, m
<1>4. c \in Nat
  BY <1>1 DEF ClusterWords
<1>5. u * c \in Nat /\ c * u = u * c
  BY <1>2, <1>4
<1>6. u * c + o - c <= p
  <2> DEFINE x == u * c
  <2>1. x \in Nat /\ x <= c + a + 16 * n
    BY <1>2, <1>5
  <2> HIDE DEF x
  <2>2. x + o - c <= p
    BY <1>1, <1>2, <1>3, <1>4, <2>1
  <2> QED  BY <2>2 DEF x
<1>7. u <= m
  BY <1>1, <1>2, <1>6
<1>8. ~(u > m)
  BY <1>1, <1>2, <1>7
<1> QED  BY <1>8 DEF Overflows, u, m

\* The node an entry is copied to is accounted for by the entry, or as before.
LEMMA NodeFits ==
    ASSUME Control, WalkOK, DiskOK, AdmitOK, Estimated, fs = "fat", pc = "copy", listing # {},
           NEW e, e = Current,
           NEW node, IsNode(node), ~Clash(Key(e.path), node.is),
           \/ Accounts(e, Key(e.path), node)
           \/ Key(e.path) \in DOMAIN disk /\ node.len = disk[Key(e.path)].len
    PROVE  /\ MadeOf(Put(disk, Key(e.path), node), Finished \cup {e})
           /\ ~Overflows(Put(disk, Key(e.path), node))
<1> DEFINE k == Key(e.path)
           d == Put(disk, k, node)
<1>1. job \in Jobs /\ e \in Entries /\ e.path \in Paths /\ e.path # <<>>
  BY CurrentFacts DEF Control
<1>2. k \in Paths /\ k # <<>> /\ Parent(k) = Key(Parent(e.path))
  BY <1>1, KeyFacts
<1>3. Reachable(disk) /\ HasDir(disk, <<>>) /\ HasDir(disk, Parent(k))
  BY <1>2, CurrentFacts DEF DiskOK, Current
<1>4. k \in DOMAIN disk => disk[k].is = node.is
  BY DEF Clash
<1> HIDE DEF k
<1>5. Reachable(d) /\ HasDir(d, <<>>)
  BY <1>2, <1>3, <1>4, PutReachable
<1>6. DOMAIN d = DOMAIN disk \cup {k} /\ d[k] = node /\ \A q \in DOMAIN disk : q # k => d[q] = disk[q]
  BY DEF Put
<1>7. MadeOf(disk, Finished) /\ Admitted
  BY DEF AdmitOK
<1>8. \E o \in Finished \cup {e} : Accounts(o, k, node)
  <2>1. CASE Accounts(e, k, node)
    BY <2>1
  <2>2. CASE k \in DOMAIN disk /\ node.len = disk[k].len
    <3>1. PICK o \in Finished : Accounts(o, k, disk[k])
      BY <1>2, <1>7, <2>2 DEF MadeOf
    <3>2. Accounts(o, k, node)
      BY <1>4, <2>2, <3>1 DEF Accounts
    <3> QED  BY <3>2
  <2> QED  BY <2>1, <2>2 DEF k
<1> HIDE DEF d
<1>9. MadeOf(d, Finished \cup {e})
  <2> SUFFICES ASSUME NEW q \in DOMAIN d, q # <<>>
               PROVE  \E o \in Finished \cup {e} : Accounts(o, q, d[q])
    BY DEF MadeOf
  <2>1. CASE q = k
    BY <1>6, <1>8, <2>1
  <2>2. CASE q # k
    BY <1>6, <1>7, <2>2 DEF MadeOf
  <2> QED  BY <2>1, <2>2
<1>10. MadeOf(d, Entries)
  <2>1. Finished \cup {e} \subseteq Entries
    BY <1>1, FinishedEntries
  <2> QED  BY <1>9, <2>1 DEF MadeOf
<1>11. ~Overflows(d)
  BY <1>1, <1>5, <1>7, <1>10, AdmittedFits
<1> QED  BY <1>9, <1>11 DEF d, k

\* Dealing with an entry of what the estimate covers.
LEMMA HandleFits ==
    ASSUME Control, WalkOK, DiskOK, AdmitOK, Estimated, Handle
    PROVE  /\ why' \notin {"format", "full"}
           /\ fs = "fat" /\ pc' = "copy" => MadeOf(disk', Finished \cup {Current})
<1> DEFINE e == Current
           p == Current.path
           k == Key(p)
<1>1. pc = "copy" /\ listing # {} /\ why = "none" /\ Current \in Entries /\ Current \in Entry
  BY HandleFacts, CurrentFacts DEF Control
<1>2. ASSUME NEW cause, Step(cause) PROVE why' = cause /\ (pc' = "copy" => cause = "none")
  BY <1>1, <1>2 DEF Step, Return, end
<1>3. fs = "fat" => MadeOf(disk, Finished) /\ MadeOf(disk, Finished \cup {Current})
  BY <1>1 DEF AdmitOK, MadeOf
<1>4. ASSUME NEW node, IsNode(node),
             fs = "fat" /\ ~Clash(k, node.is) =>
                 Accounts(e, k, node) \/ (k \in DOMAIN disk /\ node.len = disk[k].len)
      PROVE  /\ Obstacle(p, node.is, Put(disk, k, node)) # "full"
             /\ fs = "fat" /\ Obstacle(p, node.is, Put(disk, k, node)) = "none"
                   => MadeOf(Put(disk, k, node), Finished \cup {Current})
  <2>1. fs = "fat" /\ ~Clash(k, node.is) => /\ MadeOf(Put(disk, k, node), Finished \cup {Current})
                                            /\ ~Overflows(Put(disk, k, node))
    BY <1>1, <1>4, NodeFits
  <2>2. fs # "fat" => ~Overflows(Put(disk, k, node))
    BY DEF Overflows
  <2> QED  BY <2>1, <2>2 DEF Obstacle
<1>5. CASE PassOver
  BY <1>1, <1>3, <1>5 DEF PassOver, end
<1>6. CASE SkipLinkedDir
  BY <1>1, <1>3, <1>6 DEF SkipLinkedDir, end
<1>7. CASE MakeDir
  <2> DEFINE no == Obstacle(p, "dir", Put(disk, k, Dir))
  <2>1. /\ disk' = (IF no = "none" THEN Put(disk, k, Dir) ELSE disk) /\ Step(no)
        /\ Current.kind = "dir"
    BY <1>7 DEF MakeDir
  <2>2. IsNode(Dir) /\ Dir.is = "dir"
    BY DEF IsNode, Dir
  <2>3. Accounts(e, k, Dir)
    BY <2>1, <2>2 DEF Accounts
  <2>4. no # "full" /\ (fs = "fat" /\ no = "none" => MadeOf(Put(disk, k, Dir), Finished \cup {Current}))
    <3> HIDE DEF k, e, p
    <3> QED  BY <1>4, <2>2, <2>3
  <2>5. no # "format"
    BY ObstacleType
  <2> HIDE DEF no
  <2> QED  BY <1>2, <2>1, <2>4, <2>5
<1>8. IsFile(e) => e.seen.len \in Nat
  BY <1>1 DEF Entry, Thing
<1>9. IsNode(EmptyFile) /\ EmptyFile.is = "file" /\ EmptyFile.len = 0
  BY DEF IsNode, EmptyFile, File
<1>10. ASSUME k \in DOMAIN disk => disk[k].is = "file"
       PROVE  IsNode(Before(k)) /\ Before(k).is = "file"
  BY <1>9, <1>10 DEF Before, DiskOK, Reachable, IsNode
<1>11. \A d : Obstacle(p, "file", d) \in {"none", "name", "clash", "full"}
  BY ObstacleType
<1>12. Clash(k, "file") => \A d : Obstacle(p, "file", d) \in {"name", "clash"}
  BY DEF Obstacle
<1>13. ~Clash(k, "file") => (k \in DOMAIN disk => disk[k].is = "file")
  BY DEF Clash
<1>14. CASE SkipDangling
  <2> DEFINE d  == IF fs = "fat" THEN Put(disk, k, Before(k)) ELSE disk
             no == IF fs = "fat" THEN Obstacle(p, "file", d) ELSE "none"
  <2>1. disk' = (IF no = "none" THEN d ELSE disk) /\ Step(no) /\ IsFile(e)
    BY <1>14 DEF SkipDangling, IsFile
  <2>2. CASE fs # "fat"
    BY <1>2, <2>1, <2>2
  <2>3. CASE fs = "fat" /\ Clash(k, "file")
    <3>1. no \in {"name", "clash"}
      BY <1>12, <2>3
    <3> HIDE DEF no
    <3> QED  BY <1>2, <2>1, <3>1
  <2>4. CASE fs = "fat" /\ ~Clash(k, "file")
    <3>1. IsNode(Before(k)) /\ Before(k).is = "file"
      BY <1>10, <1>13, <2>4
    <3>2. Accounts(e, k, Before(k)) \/ (k \in DOMAIN disk /\ Before(k).len = disk[k].len)
      <4>1. CASE k \in DOMAIN disk
        BY <2>4, <4>1 DEF Before
      <4>2. CASE k \notin DOMAIN disk
        BY <1>8, <1>9, <2>1, <4>2 DEF Before, Accounts
      <4> QED  BY <4>1, <4>2
    <3>3. no = Obstacle(p, "file", Put(disk, k, Before(k))) /\ d = Put(disk, k, Before(k))
      BY <2>4
    <3>4. no # "full" /\ (no = "none" => MadeOf(d, Finished \cup {Current}))
      <4> HIDE DEF k, e, p, no, d
      <4> QED  BY <1>4, <2>4, <3>1, <3>2, <3>3
    <3>5. no # "format"
      BY <1>11, <3>3
    <3> HIDE DEF no, d
    <3> QED  BY <1>2, <2>1, <3>4, <3>5
  <2> QED  BY <2>2, <2>3, <2>4
<1>15. CASE CopyFile
  <2> DEFINE src  == Source(Current)
             node == Laid(Before(k), p, src.len)
             d    == Put(disk, k, node)
             ob   == Obstacle(p, "file", d)
             no   == IF ob = "none" /\ src.is = "dir" THEN "isdir" ELSE ob
  <2>1. disk' = (IF no = "none" THEN d ELSE disk) /\ Step(no) /\ IsFile(e) /\ src.is # "nothing"
    BY <1>15 DEF CopyFile, IsFile
  <2>2. src = e.seen /\ src.len \in Nat
    <3>1. e.seen.is = "nothing" => e.inside.is = "nothing"
      BY <1>1 DEF Estimated
    <3> QED  BY <1>8, <2>1, <3>1 DEF Source
  <2>3. CASE Clash(k, "file")
    <3>1. ob \in {"name", "clash"}
      BY <1>12, <2>3
    <3> HIDE DEF ob
    <3>2. no \in {"name", "clash"}
      BY <3>1
    <3> HIDE DEF no
    <3> QED  BY <1>2, <2>1, <3>2
  <2>4. CASE ~Clash(k, "file")
    <3>1. IsNode(Before(k)) /\ Before(k).is = "file"
      BY <1>10, <1>13, <2>4
    <3>2. \/ src.len >= Before(k).len /\ node = File("tree", p, src.len)
          \/ src.len < Before(k).len /\ node.is = "file" /\ node.len = Before(k).len
      <4> HIDE DEF k, src
      <4> QED  BY <2>2, <3>1 DEF Laid, File, IsNode
    <3>3. IsNode(node) /\ node.is = "file"
      <4> HIDE DEF node, src
      <4> QED  BY <2>2, <3>1, <3>2 DEF IsNode, File
    <3>4. fs = "fat" => Accounts(e, k, node) \/ (k \in DOMAIN disk /\ node.len = disk[k].len)
      <4>1. CASE src.len >= Before(k).len /\ node = File("tree", p, src.len)
        <5>1. node.is = "file" /\ node.len = e.seen.len
          <6> HIDE DEF node
          <6> QED  BY <2>2, <4>1 DEF File
        <5> HIDE DEF node, src
        <5> QED  BY <1>8, <2>1, <5>1 DEF Accounts
      <4>2. CASE src.len < Before(k).len /\ node.len = Before(k).len
        <5>1. Before(k) # EmptyFile
          <6> HIDE DEF node, src
          <6> QED  BY <1>9, <2>2, <4>2
        <5> HIDE DEF node, src
        <5> QED  BY <4>2, <5>1 DEF Before
      <4> HIDE DEF node, src
      <4> QED  BY <3>2, <4>1, <4>2
    <3>5. ob # "full" /\ (fs = "fat" /\ ob = "none" => MadeOf(d, Finished \cup {Current}))
      <4> HIDE DEF k, e, p, node
      <4> QED  BY <1>4, <3>3, <3>4
    <3>6. ob # "format"
      BY <1>11
    <3> HIDE DEF ob
    <3>7. no \notin {"full", "format"} /\ (no = "none" => ob = "none")
      BY <3>5, <3>6
    <3> HIDE DEF no, d
    <3> QED  BY <1>2, <2>1, <3>5, <3>7
  <2> QED  BY <2>3, <2>4
<1> QED  BY <1>5, <1>6, <1>7, <1>14, <1>15 DEF Handle

LEMMA InitAdmit == Init => AdmitOK
BY DEF Init, AdmitOK

LEMMA JobStays == [Next]_vars => job' = job
BY DEF Next, vars, Scan, Format, NextDir, PassOver, MakeDir, SkipLinkedDir, SkipDangling, CopyFile,
       CopyFails, CopyDone, Search, Extract, ExtractFails, ExtractDone

\* What was admitted still fits, and an admitted volume has clusters enough to be
\* FAT32.
LEMMA NextAdmit ==
    Control /\ WalkOK /\ DiskOK /\ AdmitOK /\ [Next]_vars => AdmitOK'
<1> SUFFICES ASSUME Control, WalkOK, DiskOK, AdmitOK, [Next]_vars, Estimated PROVE AdmitOK'
  <2>1. ASSUME [Next]_vars PROVE Estimated' <=> Estimated
    BY <2>1, JobStays, EstimateUnmoved
  <2> QED  BY <2>1 DEF AdmitOK
<1> USE DEF Return, Goto, search, walk, end
<1>1. /\ why \notin {"format", "full"} /\ job \in Jobs /\ job' = job
      /\ (pc # "ended" => why = "none")
      /\ (Admitted' <=> Admitted)
  BY JobStays, EstimateUnmoved DEF AdmitOK, Control
<1>2. CASE Handle
  <2>1. pc = "copy" /\ job' = job /\ fs' = fs /\ pc' \in {"copy", "ended"}
    BY <1>2, HandleFacts
  <2>2. Finished' = Finished \cup {Current}
    BY <1>2, HandleWalks
  <2>3. /\ why' \notin {"format", "full"}
        /\ fs = "fat" /\ pc' = "copy" => MadeOf(disk', Finished')
    BY <1>2, <2>2, HandleFits
  <2>4. fs = "fat" => Admitted
    BY <2>1 DEF AdmitOK
  <2>5. fs = "fat" /\ pc' = "copy" => MadeOf(disk, Finished)'
    BY <2>1, <2>3, MadeUnmoved
  <2> QED  BY <1>1, <2>1, <2>3, <2>4, <2>5 DEF AdmitOK
<1>3. ASSUME fs' = fs, disk' = disk, why' \notin {"format", "full"},
             Finished' = Finished, pc' \in {"format", "copy"} => pc' = pc
      PROVE  AdmitOK'
  <2>1. fs = "fat" /\ pc' \in {"format", "copy"} => Admitted
    BY <1>3 DEF AdmitOK
  <2>2. fs = "fat" /\ pc' = "copy" => MadeOf(disk, Finished)'
    BY <1>1, <1>3, MadeUnmoved DEF AdmitOK
  <2> QED  BY <1>1, <1>3, <2>1, <2>2 DEF AdmitOK
<1>4. CASE NextDir
  <2>1. Finished' = Finished
    BY <1>4, NextDirWalks
  <2> QED  BY <1>1, <1>3, <1>4, <2>1 DEF NextDir
<1>5. CASE Scan
  <2> DEFINE ntfs == MaxFile > Fat32MaxFile
  <2>1. /\ fs' = (IF ntfs THEN "ntfs" ELSE "fat") /\ pc = "scan" /\ why = "none"
        /\ IF Objection(ntfs) = "none" THEN pc' = "format" /\ why' = why
           ELSE pc' = "ended" /\ why' = Objection(ntfs)
    BY <1>1, <1>5 DEF Scan
  <2>2. Objection(ntfs) \notin {"format", "full"}
    BY ObjectionType
  <2>3. ~ntfs /\ Objection(ntfs) = "none" => Admitted
    BY DEF Objection, Admitted
  <2> HIDE DEF ntfs
  <2> QED  BY <1>1, <2>1, <2>2, <2>3 DEF AdmitOK
<1>6. CASE Format
  <2>1. pc = "format" /\ why = "none" /\ fs' = fs /\ (fs = "fat" => Admitted)
    BY <1>1, <1>6 DEF Format, AdmitOK
  <2>2. fs = "fat" => ~(Clusters(Volume, job.sector, Cluster) < LeastClusters)
    <3>1. ASSUME fs = "fat"
          PROVE  /\ Clusters(Volume, job.sector, Cluster) \in Int
                 /\ Clusters(Volume, job.sector, Cluster) >= LeastClusters
      BY <1>1, <2>1, <3>1, VolumeFacts DEF Estimated, Admitted
    <3> QED  BY <3>1 DEF LeastClusters
  <2>3. disk' = [k \in {<<>>} |-> Dir] /\ pc' = "copy" /\ why' = "none"
    BY <1>6, <2>1, <2>2 DEF Format
  <2>4. MadeOf(disk', Finished')
    BY <2>3 DEF MadeOf
  <2>5. MadeOf(disk, Finished)'
    BY <1>1, <2>1, <2>4, MadeUnmoved
  <2> QED  BY <1>1, <2>1, <2>3, <2>5 DEF AdmitOK
<1>7. ASSUME pc' \notin {"format", "copy"}, why' \notin {"format", "full"} PROVE AdmitOK'
  BY <1>7 DEF AdmitOK
<1>8. CASE CopyFails
  BY <1>7, <1>8 DEF CopyFails
<1>9. CASE CopyDone
  BY <1>1, <1>7, <1>9 DEF CopyDone
<1>10. CASE Search
  BY <1>1, <1>7, <1>10 DEF Search
<1>11. CASE Extract
  BY <1>1, <1>7, <1>11 DEF Extract
<1>12. CASE ExtractFails
  BY <1>7, <1>12 DEF ExtractFails
<1>13. CASE ExtractDone
  BY <1>7, <1>13 DEF ExtractDone
<1>14. CASE UNCHANGED vars
  <2>1. Finished' = Finished
    BY <1>1, <1>14 DEF Finished, vars
  <2> QED  BY <1>1, <1>3, <1>14, <2>1 DEF vars
<1> QED  BY <1>2, <1>4, <1>5, <1>6, <1>8, <1>9, <1>10, <1>11, <1>12, <1>13, <1>14 DEF Next, Handle

-----------------------------------------------------------------------------
(* The theorems. *)

IInv == Control /\ CatalogRead /\ WalkOK /\ RestOK /\ DiskOK /\ CopyOK /\ LoaderOK /\ AdmitOK

\* What every state of a run has: the steps of the run in order, the walk, the
\* disk, the copy, the loader and the room that is left.
LEMMA Inductive == Spec => []IInv
<1>1. Init => IInv
  BY InitControl, InitWalk, InitRest, InitDisk, InitCopy, InitLoader, InitAdmit DEF IInv
<1>2. IInv /\ [Next]_vars => IInv'
  BY NextControl, NextCatalogRead, NextWalk, NextRest, NextDisk, NextCopy, NextLoader, NextAdmit
     DEF IInv
<1> QED  BY <1>1, <1>2, PTL DEF Spec

\* The variables have their types, and on the disk every node is reachable from
\* the root: no file is ever laid under a file, or over a directory.
THEOREM TypeCorrect == Spec => []TypeOK
<1>1. IInv => TypeOK
  <2> SUFFICES ASSUME IInv PROVE TypeOK
    OBVIOUS
  <2> USE DEF IInv
  <2>1. job \in Job
    BY JobFacts DEF Control
  <2>2. /\ pc \in {"scan", "format", "copy", "search", "extract", "ended"}
        /\ fs \in {"none", "fat", "ntfs"}
        /\ boot \in BOOLEAN /\ found \in BOOLEAN
        /\ result \in {"none", "ok", "refused", "failed", "panicked"}
        /\ why \in {"none", "small", "fit", "no ntfs", "sector", "format", "name", "clash",
                    "full", "isdir", "io", "entry"}
    BY DEF Control
  <2>3. /\ \A i \in DOMAIN stack : stack[i] = <<>> \/ \E e \in Dirs : e.path = stack[i]
        /\ listing \subseteq DOMAIN job.tree
    BY DEF WalkOK
  <2>4. \A k \in DOMAIN disk :
          /\ k \in Paths
          /\ disk[k].is \in {"dir", "file"} /\ disk[k].len \in Nat
          /\ k # <<>> => Parent(k) \in DOMAIN disk /\ disk[Parent(k)].is = "dir"
    BY DEF DiskOK, Reachable
  <2>5. skipped \in 0 .. Len(job.tree) /\ entry \in NoEntry .. Beyond
    BY DEF CopyOK, CatalogRead
  <2> QED  BY <2>1, <2>2, <2>3, <2>4, <2>5 DEF TypeOK
<1> QED  BY <1>1, Inductive, PTL

\* A run that succeeds has copied the tree: what copy_tree() and
\* copy_tree_native() leave behind when they return Ok, whatever the tree, the
\* names, the links and the files the boot image adds.
THEOREM CopyIsWhole == Spec => []SuccessIsWhole
<1>1. IInv => SuccessIsWhole
  BY OkIsWhole DEF IInv
<1> QED  BY <1>1, Inductive, PTL

\* Without a warning there is a loader: run() is silent only if scan_tree() met
\* one, and then it was copied whole, or if the extraction finished one.
THEOREM Bootable == Spec => []SilenceMeansBootable
<1>1. IInv => SilenceMeansBootable
  BY SilenceIsBootable DEF IInv
<1> QED  BY <1>1, Inductive, PTL

\* An image that ensure_fits() lets through is never found not to fit: whatever
\* the tree, the names and the size of the target, fatfs formats the volume and
\* finds a cluster for every file and directory.
THEOREM NeverFills == Spec => []AdmittedNeverFills
<1>1. IInv => AdmittedNeverFills
  BY DEF IInv, AdmitOK, AdmittedNeverFills
<1> QED  BY <1>1, Inductive, PTL

\* Every run that consults the catalog ends its walk where UEFI looks, or in a
\* panic over a section that has no entry.
THEOREM CatalogRight == Spec => []CatalogWalkIsRight
<1>1. IInv => CatalogWalkIsRight
  <2> SUFFICES ASSUME IInv PROVE CatalogWalkIsRight
    OBVIOUS
  <2>1. job.record => LET e == EfiEntry(job.catalog)
                      IN  /\ BootEntry(job.catalog) = IF e = Beyond THEN NoEntry ELSE e
                          /\ e = Beyond => Slots - 1 \in EfiSections(job.catalog)
    BY JobFacts, WalkFindsBootEntry DEF IInv, Control
  <2>2. NoEntry # Beyond
    BY SlotsAssumption DEF NoEntry, Beyond
  <2> QED  BY <2>1, <2>2 DEF IInv, CatalogRead, CatalogWalkIsRight
<1> QED  BY <1>1, Inductive, PTL
=============================================================================
