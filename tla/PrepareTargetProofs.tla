------------------------ MODULE PrepareTargetProofs ------------------------
(***************************************************************************)
(* Proofs about PrepareTarget, for every set of disks, of partition        *)
(* numbers and every number of mounts.                                     *)
(***************************************************************************)
EXTENDS PrepareTarget, SequenceTheorems, TLAPS

\* Every token of a name.  The provers do not know a string to be in STRING.
Tokens == STRING \cup Digits \cup {"p"}

\* What partition_node() appends to the name of the disk.
Separator(disk) == IF EndsInDigit(disk) THEN <<"p">> ELSE <<>>

-----------------------------------------------------------------------------
(* Names. *)

\* A prefix and the suffix behind it take a concatenation apart again.
LEMMA PrefixAndSuffix ==
    ASSUME NEW d \in Seq(Tokens), d # <<>>, NEW r \in Seq(Tokens), r # <<>>
    PROVE  /\ HasPrefix(d \o r, d)
           /\ Suffix(d \o r, d) = r
<1>1. /\ Len(d) \in Nat /\ Len(r) \in Nat
      /\ Len(d) > 0 /\ Len(r) > 0
      /\ Len(d \o r) = Len(d) + Len(r)
  BY EmptySeq, LenProperties, ConcatProperties
<1>2. SubSeq(d \o r, 1, Len(d)) = d
  <2>1. SubSeq(d \o r, 1, Len(d)) = SubSeq(d, 1, Len(d))
    BY <1>1, SubSeqOfConcat1
  <2> QED
    BY <2>1, SubSeqFull
<1>3. SubSeq(d \o r, Len(d) + 1, Len(d) + Len(r)) = r
  <2>1. SubSeq(d \o r, Len(d) + 1, Len(d) + Len(r)) = SubSeq(r, 1, Len(r))
    BY <1>1, SubSeqOfConcat2
  <2> QED
    BY <2>1, SubSeqFull
<1> QED
  BY <1>1, <1>2, <1>3 DEF HasPrefix, Suffix

\* The number of a partition is found again behind the separator.
LEMMA SeparatorGoes ==
    ASSUME NEW d, NEW i \in Seq(Digits), i # <<>>
    PROVE  /\ Separator(d) \o i \in Seq(Tokens)
           /\ Separator(d) \o i # <<>>
           /\ WithoutP(Separator(d) \o i) = i
<1>1. i \in Seq(Tokens)
  <2>1. Digits \subseteq Tokens
    BY DEF Tokens
  <2> QED
    BY <2>1, SeqMonotonic
<1>2. Len(i) \in Nat \ {0}
  BY EmptySeq
<1>3. CASE EndsInDigit(d)
  <2>1. Separator(d) = <<"p">> /\ <<"p">> \in Seq(Tokens)
    BY <1>3 DEF Separator, Tokens
  <2>2. /\ <<"p">> \o i \in Seq(Tokens)
        /\ Len(<<"p">> \o i) = 1 + Len(i)
        /\ \A k \in 1 .. 1 + Len(i) : (<<"p">> \o i)[k] = IF k <= 1 THEN "p" ELSE i[k - 1]
    BY <1>1, <2>1, ConcatProperties
  <2>3. <<"p">> \o i # <<>> /\ Head(<<"p">> \o i) = "p"
    BY <1>2, <2>2
  <2>4. Tail(<<"p">> \o i) = i
    <3>1. /\ Tail(<<"p">> \o i) \in Seq(Tokens)
          /\ Len(Tail(<<"p">> \o i)) = Len(i)
          /\ \A k \in 1 .. Len(i) : Tail(<<"p">> \o i)[k] = i[k]
      BY <1>2, <2>2, <2>3, HeadTailProperties
    <3> QED
      BY <1>1, <3>1, SeqEqual
  <2> QED
    BY <2>1, <2>2, <2>3, <2>4 DEF WithoutP
<1>4. CASE ~EndsInDigit(d)
  <2>1. Separator(d) \o i = i
    BY <1>1, <1>4, ConcatEmptySeq DEF Separator
  <2>2. Head(i) # "p"
    <3>1. Head(i) \in Digits
      BY HeadTailProperties
    <3> QED
      BY <3>1 DEF Digits
  <2> QED
    BY <1>1, <2>1, <2>2 DEF WithoutP
<1> QED
  BY <1>3, <1>4

\* is_partition_of() recognises every name partition_node() builds.
THEOREM PartitionsRecognised ==
    ASSUME NEW disk \in Disks, NEW i \in Numbers
    PROVE  IsPartitionOf(PartitionNode(disk, i), disk)
<1>1. disk \in Seq(Tokens) /\ disk # <<>> /\ i \in Seq(Digits) /\ i # <<>>
  <2>1. disk \in Seq(STRING) /\ disk # <<>> /\ i \in Seq(Digits) /\ i # <<>>
    BY DisksAssumption, NumbersAssumption
  <2>2. STRING \subseteq Tokens
    BY DEF Tokens
  <2> QED
    BY <2>1, <2>2, SeqMonotonic
<1>2. /\ Separator(disk) \o i \in Seq(Tokens)
      /\ Separator(disk) \o i # <<>>
      /\ WithoutP(Separator(disk) \o i) = i
  BY <1>1, SeparatorGoes
<1>3. PartitionNode(disk, i) = disk \o (Separator(disk) \o i)
  <2>1. Separator(disk) \in Seq(Tokens)
    <3>1. <<"p">> \in Seq(Tokens) /\ <<>> \in Seq(Tokens)
      BY DEF Tokens
    <3> QED
      BY <3>1 DEF Separator
  <2>2. i \in Seq(Tokens)
    <3>1. Digits \subseteq Tokens
      BY DEF Tokens
    <3> QED
      BY <1>1, <3>1, SeqMonotonic
  <2>3. PartitionNode(disk, i) = (disk \o Separator(disk)) \o i
    BY DEF PartitionNode, Separator
  <2> QED
    <3>1. (disk \o Separator(disk)) \o i = disk \o (Separator(disk) \o i)
      BY <1>1, <2>1, <2>2, ConcatAssociative
    <3> QED
      BY <2>3, <3>1
<1>4. AllDigits(i)
  BY <1>1, ElementOfSeq DEF AllDigits
<1>5. /\ HasPrefix(disk \o (Separator(disk) \o i), disk)
      /\ Suffix(disk \o (Separator(disk) \o i), disk) = Separator(disk) \o i
  BY <1>1, <1>2, PrefixAndSuffix
<1> QED
  BY <1>1, <1>2, <1>3, <1>4, <1>5 DEF IsPartitionOf

\* A name is another one followed by a number: at most one "p", then digits.
NumberBehind(c, d) ==
    /\ Len(c) > Len(d) => c[Len(d) + 1] \in Digits \cup {"p"}
    /\ \A k \in Len(d) + 2 .. Len(c) : c[k] \in Digits

\* The test for a number, read element by element.
LEMMA SuffixIsNumber ==
    ASSUME NEW c \in Seq(Tokens), NEW d \in Seq(Tokens), HasPrefix(c, d)
    PROVE  /\ Len(c) \in Nat /\ Len(d) \in Nat /\ Len(d) <= Len(c)
           /\ \A k \in 1 .. Len(d) : c[k] = d[k]
           /\ AllDigits(WithoutP(Suffix(c, d))) <=> NumberBehind(c, d)
<1> DEFINE r == Suffix(c, d)
<1>1. Len(c) \in Nat /\ Len(d) \in Nat /\ Len(d) <= Len(c)
  BY LenProperties DEF HasPrefix
<1>2. \A k \in 1 .. Len(c) : c[k] \in Tokens
  BY ElementOfSeq
<1>3. \A k \in 1 .. Len(d) : c[k] = d[k]
  <2>1. \A k \in 1 .. Len(d) : c[k] \in Tokens
    BY <1>1, <1>2
  <2>2. \A k \in 1 .. Len(d) - 1 + 1 : SubSeq(c, 1, Len(d))[k] = c[1 + k - 1]
    BY <1>1, <2>1, SubSeqProperties
  <2>3. SubSeq(c, 1, Len(d)) = d
    BY DEF HasPrefix
  <2> QED
    BY <1>1, <2>2, <2>3
<1>4. /\ r \in Seq(Tokens)
      /\ Len(r) = Len(c) - Len(d)
      /\ \A k \in 1 .. Len(r) : r[k] = c[Len(d) + k]
  <2>1. \A k \in Len(d) + 1 .. Len(c) : c[k] \in Tokens
    BY <1>1, <1>2
  <2>2. /\ r \in Seq(Tokens)
        /\ Len(r) = IF Len(d) + 1 <= Len(c) THEN Len(c) - (Len(d) + 1) + 1 ELSE 0
        /\ \A k \in 1 .. Len(c) - (Len(d) + 1) + 1 : r[k] = c[Len(d) + 1 + k - 1]
    BY <1>1, <2>1, SubSeqProperties DEF Suffix
  <2> HIDE DEF r
  <2>3. Len(r) = Len(c) - Len(d)
    BY <1>1, <2>2
  <2>4. ASSUME NEW k \in 1 .. Len(r)
        PROVE  r[k] = c[Len(d) + k]
    <3>1. k \in 1 .. Len(c) - (Len(d) + 1) + 1 /\ Len(d) + 1 + k - 1 = Len(d) + k
      BY <1>1, <2>3
    <3> QED
      BY <2>2, <3>1
  <2> QED
    BY <2>2, <2>3, <2>4
<1> HIDE DEF r
<1>5. CASE r = <<>>
  <2>1. Len(c) = Len(d)
    BY <1>1, <1>4, <1>5
  <2>2. AllDigits(WithoutP(r))
    BY <1>5 DEF AllDigits, WithoutP
  <2>3. NumberBehind(c, d)
    BY <1>1, <2>1 DEF NumberBehind
  <2> QED
    BY <1>1, <1>3, <2>2, <2>3 DEF r
<1>6. CASE r # <<>> /\ Head(r) = "p"
  <2>1. Len(r) > 0 /\ Head(r) = r[1]
    BY <1>4, <1>6, EmptySeq
  <2>2. /\ Tail(r) \in Seq(Tokens)
        /\ Len(Tail(r)) = Len(r) - 1
        /\ \A k \in 1 .. Len(r) - 1 : Tail(r)[k] = r[k + 1]
    BY <1>4, <1>6, HeadTailProperties
  <2>3. WithoutP(r) = Tail(r) /\ DOMAIN Tail(r) = 1 .. Len(r) - 1
    BY <1>6, <2>2, LenProperties DEF WithoutP
  <2>4. AllDigits(WithoutP(r)) <=> \A k \in 1 .. Len(r) - 1 : r[k + 1] \in Digits
    BY <2>2, <2>3 DEF AllDigits
  <2>5. (\A k \in 1 .. Len(r) - 1 : r[k + 1] \in Digits)
           <=> \A k \in Len(d) + 2 .. Len(c) : c[k] \in Digits
    <3>1. ASSUME \A k \in 1 .. Len(r) - 1 : r[k + 1] \in Digits, NEW k \in Len(d) + 2 .. Len(c)
          PROVE  c[k] \in Digits
      <4>1. k - Len(d) - 1 \in 1 .. Len(r) - 1 /\ k - Len(d) \in 1 .. Len(r)
        BY <1>1, <1>4
      <4>2. r[(k - Len(d) - 1) + 1] = c[k]
        BY <1>1, <1>4, <4>1
      <4> QED
        BY <3>1, <4>1, <4>2
    <3>2. ASSUME \A k \in Len(d) + 2 .. Len(c) : c[k] \in Digits, NEW k \in 1 .. Len(r) - 1
          PROVE  r[k + 1] \in Digits
      <4>1. Len(d) + (k + 1) \in Len(d) + 2 .. Len(c) /\ k + 1 \in 1 .. Len(r)
        BY <1>1, <1>4
      <4> QED
        BY <1>4, <3>2, <4>1
    <3> QED
      BY <3>1, <3>2
  <2>6. c[Len(d) + 1] = "p"
    BY <1>1, <1>4, <1>6, <2>1
  <2> QED
    BY <1>1, <1>3, <2>4, <2>5, <2>6 DEF NumberBehind, r
<1>7. CASE r # <<>> /\ Head(r) # "p"
  <2>1. Len(r) > 0 /\ Head(r) = r[1]
    BY <1>4, <1>7, EmptySeq
  <2>2. WithoutP(r) = r /\ DOMAIN r = 1 .. Len(r)
    BY <1>4, <1>7, LenProperties DEF WithoutP
  <2>3. AllDigits(WithoutP(r)) <=> \A k \in 1 .. Len(r) : c[Len(d) + k] \in Digits
    BY <1>4, <2>2 DEF AllDigits
  <2>4. c[Len(d) + 1] # "p" /\ Len(c) > Len(d)
    BY <1>1, <1>4, <1>7, <2>1
  <2>5. (\A k \in 1 .. Len(r) : c[Len(d) + k] \in Digits) <=> NumberBehind(c, d)
    <3>1. ASSUME \A k \in 1 .. Len(r) : c[Len(d) + k] \in Digits
          PROVE  NumberBehind(c, d)
      <4>1. \A k \in Len(d) + 1 .. Len(c) : k - Len(d) \in 1 .. Len(r) /\ Len(d) + (k - Len(d)) = k
        BY <1>1, <1>4
      <4>2. \A k \in Len(d) + 1 .. Len(c) : c[k] \in Digits
        BY <3>1, <4>1
      <4> QED
        BY <1>1, <2>4, <4>2 DEF NumberBehind
    <3>2. ASSUME NumberBehind(c, d), NEW k \in 1 .. Len(r)
          PROVE  c[Len(d) + k] \in Digits
      <4>1. c[Len(d) + 1] \in Digits
        BY <2>4, <3>2 DEF NumberBehind
      <4>2. CASE k = 1
        BY <4>1, <4>2
      <4>3. CASE k # 1
        <5>1. Len(d) + k \in Len(d) + 2 .. Len(c)
          BY <1>1, <1>4, <4>3
        <5> QED
          BY <3>2, <5>1 DEF NumberBehind
      <4> QED
        BY <4>2, <4>3
    <3> QED
      BY <3>1, <3>2
  <2> QED
    BY <1>1, <1>3, <2>3, <2>5 DEF r
<1> QED
  BY <1>5, <1>6, <1>7

\* What is_partition_of() takes for a partition of a disk that is named by
\* letters is one.
LEMMA OnlyPartitionsRecognised ==
    ASSUME NEW t \in Disks, ~EndsInDigit(t), NEW d \in Devices, IsPartitionOf(d, t)
    PROVE  d \in Partitions(t)
<1>1. \A e \in Disks : e \in Seq(Tokens) /\ e # <<>>
  <2>1. STRING \subseteq Tokens
    BY DEF Tokens
  <2> QED
    BY <2>1, DisksAssumption, SeqMonotonic
<1>2. HasPrefix(d, t) /\ WithoutP(Suffix(d, t)) # <<>> /\ AllDigits(WithoutP(Suffix(d, t)))
  BY DEF IsPartitionOf
<1>3. CASE d \in Disks
  <2>1. CASE d = t
    <3>1. Len(t) \in Nat
      BY <1>1, LenProperties
    <3>2. Suffix(t, t) = <<>>
      BY <3>1, SubSeqEmpty DEF Suffix
    <3> QED
      BY <1>2, <2>1, <3>2 DEF WithoutP
  <2>2. CASE d # t
    BY <1>2, <1>3, <2>2, DisksApart
  <2> QED
    BY <2>1, <2>2
<1>4. ASSUME NEW e \in Disks, NEW i \in Numbers, d = PartitionNode(e, i)
      PROVE  d \in Partitions(t)
  <2>1. CASE e = t
    BY <1>4, <2>1 DEF Partitions
  <2>2. CASE e # t
    <3>1. i \in Seq(Digits) /\ i # <<>> /\ e \in Seq(Tokens) /\ t \in Seq(Tokens)
      BY <1>1, NumbersAssumption
    <3> DEFINE behind == Separator(e) \o i
    <3>2. /\ behind \in Seq(Tokens)
          /\ Len(behind) \in Nat
          /\ behind[1] \in Digits \cup {"p"}
          /\ behind[1] = "p" => EndsInDigit(e)
          /\ \A k \in 2 .. Len(behind) : behind[k] \in Digits
      <4>1. behind \in Seq(Tokens) /\ Len(behind) \in Nat
        BY <3>1, SeparatorGoes, LenProperties
      <4>2. Len(i) \in Nat \ {0} /\ \A k \in 1 .. Len(i) : i[k] \in Digits
        BY <3>1, EmptySeq, ElementOfSeq
      <4>3. i \in Seq(Tokens)
        <5>1. Digits \subseteq Tokens
          BY DEF Tokens
        <5> QED
          BY <3>1, <5>1, SeqMonotonic
      <4>4. CASE EndsInDigit(e)
        <5>1. Separator(e) = <<"p">> /\ <<"p">> \in Seq(Tokens)
          BY <4>4 DEF Separator, Tokens
        <5>2. /\ Len(behind) = 1 + Len(i)
              /\ \A k \in 1 .. 1 + Len(i) : behind[k] = IF k <= 1 THEN "p" ELSE i[k - 1]
          BY <4>3, <5>1, ConcatProperties
        <5> QED
          BY <4>1, <4>2, <4>4, <5>2
      <4>5. CASE ~EndsInDigit(e)
        <5>1. behind = i
          BY <4>3, <4>5, ConcatEmptySeq DEF Separator
        <5>2. "p" \notin Digits
          BY DEF Digits
        <5> QED
          BY <4>1, <4>2, <5>1, <5>2
      <4> QED
        BY <4>4, <4>5
    <3>3. d = e \o behind
      <4>1. Separator(e) \in Seq(Tokens)
        <5>1. <<"p">> \in Seq(Tokens) /\ <<>> \in Seq(Tokens)
          BY DEF Tokens
        <5> QED
          BY <5>1 DEF Separator
      <4>2. i \in Seq(Tokens)
        <5>1. Digits \subseteq Tokens
          BY DEF Tokens
        <5> QED
          BY <3>1, <5>1, SeqMonotonic
      <4>3. d = (e \o Separator(e)) \o i
        BY <1>4 DEF PartitionNode, Separator
      <4>4. (e \o Separator(e)) \o i = e \o (Separator(e) \o i)
        BY <3>1, <4>1, <4>2, ConcatAssociative
      <4> QED
        BY <4>3, <4>4
    <3> HIDE DEF behind
    <3>4. /\ d \in Seq(Tokens) /\ Len(d) = Len(e) + Len(behind)
          /\ \A k \in 1 .. Len(e) + Len(behind) :
                d[k] = IF k <= Len(e) THEN e[k] ELSE behind[k - Len(e)]
      BY <3>1, <3>2, <3>3, ConcatProperties
    <3>5. /\ Len(d) \in Nat /\ Len(t) \in Nat /\ Len(t) <= Len(d)
          /\ \A k \in 1 .. Len(t) : d[k] = t[k]
          /\ NumberBehind(d, t)
      BY <1>2, <3>1, <3>4, SuffixIsNumber
    <3>6. Len(e) \in Nat /\ Len(t) # 0
      BY <1>1, <3>1, LenProperties, EmptySeq
    <3>7. CASE Len(t) <= Len(e)
      <4>1. \A k \in 1 .. Len(e) : d[k] = e[k]
        BY <3>2, <3>4, <3>6
      <4>2. HasPrefix(e, t)
        <5>1. \A k \in 1 .. Len(t) : e[k] = t[k] /\ e[k] \in Tokens
          BY <3>1, <3>5, <3>6, <3>7, <4>1, ElementOfSeq
        <5>2. /\ SubSeq(e, 1, Len(t)) \in Seq(Tokens)
              /\ Len(SubSeq(e, 1, Len(t))) = IF 1 <= Len(t) THEN Len(t) - 1 + 1 ELSE 0
              /\ \A k \in 1 .. Len(t) - 1 + 1 : SubSeq(e, 1, Len(t))[k] = e[1 + k - 1]
          BY <3>5, <5>1, SubSeqProperties
        <5>3. /\ Len(SubSeq(e, 1, Len(t))) = Len(t)
              /\ \A k \in 1 .. Len(t) : SubSeq(e, 1, Len(t))[k] = t[k]
          BY <3>5, <3>6, <5>1, <5>2
        <5>4. SubSeq(e, 1, Len(t)) = t
          BY <3>1, <5>2, <5>3, SeqEqual
        <5> QED
          BY <3>7, <5>4 DEF HasPrefix
      <4>3. NumberBehind(e, t)
        BY <3>2, <3>4, <3>5, <3>6, <3>7, <4>1 DEF NumberBehind
      <4>4. AllDigits(WithoutP(Suffix(e, t)))
        BY <3>1, <4>2, <4>3, SuffixIsNumber
      <4> QED
        BY <2>2, <4>2, <4>4, DisksApart
    <3>8. CASE Len(t) > Len(e)
      <4>1. t[Len(t)] \notin Digits
        BY DEF EndsInDigit
      <4>2. d[Len(t)] = t[Len(t)] /\ d[Len(t)] = behind[Len(t) - Len(e)]
        BY <3>4, <3>5, <3>6, <3>8
      <4>3. Len(t) - Len(e) = 1 /\ behind[1] = "p"
        <5>1. Len(t) - Len(e) \in 1 .. Len(behind)
          BY <3>2, <3>4, <3>5, <3>6, <3>8
        <5>2. Len(t) - Len(e) \notin 2 .. Len(behind)
          BY <3>2, <4>1, <4>2
        <5>3. Len(t) - Len(e) = 1
          BY <3>2, <5>1, <5>2
        <5> QED
          BY <3>2, <4>1, <4>2, <5>3
      <4>4. <<"p">> \in Seq(Tokens)
        BY DEF Tokens
      <4>5. /\ e \o <<"p">> \in Seq(Tokens)
            /\ Len(e \o <<"p">>) = Len(e) + 1
            /\ \A k \in 1 .. Len(e) + 1 : (e \o <<"p">>)[k] = IF k <= Len(e) THEN e[k] ELSE "p"
        <5>1. /\ e \o <<"p">> \in Seq(Tokens)
              /\ Len(e \o <<"p">>) = Len(e) + Len(<<"p">>)
              /\ \A k \in 1 .. Len(e) + Len(<<"p">>) :
                    (e \o <<"p">>)[k] = IF k <= Len(e) THEN e[k] ELSE <<"p">>[k - Len(e)]
          BY <3>1, <4>4, ConcatProperties
        <5>2. Len(<<"p">>) = 1 /\ <<"p">>[1] = "p"
          OBVIOUS
        <5>3. \A k \in 1 .. Len(e) + 1 : k > Len(e) => k - Len(e) = 1
          BY <3>6
        <5> QED
          BY <3>6, <5>1, <5>2, <5>3
      <4>6. \A k \in 1 .. Len(t) : t[k] = (e \o <<"p">>)[k]
        <5> SUFFICES ASSUME NEW k \in 1 .. Len(t) PROVE t[k] = (e \o <<"p">>)[k]
          OBVIOUS
        <5>1. t[k] = d[k] /\ Len(t) = Len(e) + 1
          BY <3>5, <3>6, <4>3
        <5>2. CASE k <= Len(e)
          BY <3>2, <3>4, <3>5, <3>6, <4>5, <5>1, <5>2
        <5>3. CASE k = Len(e) + 1
          BY <3>6, <4>2, <4>3, <4>5, <5>1, <5>3
        <5> QED
          BY <3>6, <5>1, <5>2, <5>3
      <4>7. t = e \o <<"p">>
        BY <3>1, <3>5, <3>6, <4>3, <4>5, <4>6, SeqEqual
      <4> QED
        BY <4>7, DisksApart
    <3> QED
      BY <3>5, <3>6, <3>7, <3>8
  <2> QED
    BY <2>1, <2>2
<1> QED
  BY <1>3, <1>4 DEF Devices, Partitions

-----------------------------------------------------------------------------
(* The run. *)

\* What the program looks for.
Wanted(d) == IF os = "linux" THEN IsPartitionOf(d, target) ELSE d \in Mine

\* Each system has steps of its own.
Stages == /\ pc = "unmount" => os = "linux"
          /\ pc = "lock" => os = "windows"
          /\ pc = "read" => todo = None /\ vol = {}

\* Others may mount at most as often as they have been seen to.
LateBounded == \A d \in Devices : late[d] <= noise

\* What is mounted from the target is either still to be taken over, or it is
\* locked, or did not tell its drive, or came after the list was read.
Covered ==
    pc \in {"unmount", "lock", "flash"} /\ list = "there" =>
        \A d \in Devices : Wanted(d) =>
            mounts[d] <= todo[d] + late[d] \/ d \in locked \cup passed \cup vol

NothingLeft == pc = "flash" => vol = {} /\ \A d \in Devices : todo[d] = 0

\* Only what is looked for is unmounted or locked.
OnlyWanted == /\ os = "linux" => \A d \in Devices : todo[d] > 0 => Wanted(d)
              /\ \A d \in robbed : Wanted(d)

Inv == TypeOK /\ Stages /\ LateBounded /\ Covered /\ NothingLeft /\ OnlyWanted

LEMMA MineAreDevices == TypeOK => Mine \subseteq Devices
BY DEF TypeOK, Mine, Devices

LEMMA InitEstablishes == Init => Inv
<1> SUFFICES ASSUME Init PROVE Inv
  OBVIOUS
<1>1. MaxMounts \in Nat /\ MaxMounted \in Nat /\ MaxNoise \in Nat /\ LockTries \in Nat \ {0}
  BY BoundAssumption, TriesAssumption
<1>2. PICK S \in {D \in SUBSET Devices : Cardinality(D) <= MaxMounted} :
        /\ \E m \in [S -> 1 .. MaxMounts] :
             /\ os = "windows" => \A d \in S : m[d] = 1
             /\ mounts = [d \in Devices |-> IF d \in S THEN m[d] ELSE 0]
        /\ held \in IF os = "windows" THEN SUBSET S ELSE {{}}
  BY DEF Init
<1>3. mounts \in [Devices -> 0 .. MaxMounts]
  <2>1. PICK m \in [S -> 1 .. MaxMounts] :
          mounts = [d \in Devices |-> IF d \in S THEN m[d] ELSE 0]
    BY <1>2
  <2>2. \A d \in Devices : (IF d \in S THEN m[d] ELSE 0) \in 0 .. MaxMounts
    BY <1>1, <2>1
  <2> QED
    BY <2>1, <2>2
<1>4. held \in SUBSET Devices
  BY <1>2
<1>5. TypeOK
  BY <1>1, <1>3, <1>4 DEF Init, TypeOK, None
<1> QED
  BY <1>1, <1>5 DEF Init, Inv, Stages, LateBounded, Covered, NothingLeft, OnlyWanted, None

\* What no step of this kind changes.
LEMMA WantedStays ==
    ASSUME UNCHANGED <<os, target>>
    PROVE  Mine' = Mine /\ \A d : Wanted(d)' = Wanted(d)
BY DEF Mine, Wanted

LEMMA ReadMountsPreserves == Inv /\ ReadMounts => Inv'
<1> SUFFICES ASSUME Inv, ReadMounts PROVE Inv'
  OBVIOUS
<1> USE DEF Inv
<1>1. Mine' = Mine /\ \A d : Wanted(d)' = Wanted(d)
  BY WantedStays DEF ReadMounts
<1>2. \A d \in Devices : mounts[d] \in 0 .. MaxMounts /\ late[d] \in 0 .. MaxNoise
  BY DEF TypeOK
<1>3. MaxMounts \in Nat /\ MaxNoise \in Nat
  BY BoundAssumption
<1>4. todo' \in [Devices -> 0 .. MaxMounts]
  BY <1>2, <1>3 DEF ReadMounts
<1>5. TypeOK'
  BY <1>1, <1>4 DEF ReadMounts, TypeOK, locking
<1>6. Covered'
  BY <1>1, <1>2, <1>3 DEF ReadMounts, Covered, Wanted
<1>7. OnlyWanted'
  BY <1>1 DEF ReadMounts, OnlyWanted, Wanted
<1> QED
  BY <1>5, <1>6, <1>7 DEF ReadMounts, LateBounded, NothingLeft, Stages

LEMMA UnmountPreserves == Inv /\ Unmount => Inv'
<1> SUFFICES ASSUME Inv, Unmount PROVE Inv'
  OBVIOUS
<1> USE DEF Inv
<1>0. MaxMounts \in Nat /\ MaxNoise \in Nat
  BY BoundAssumption
<1>1. PICK d \in Devices :
        /\ todo[d] > 0
        /\ \/ /\ mounts[d] > 0
              /\ mounts' = [mounts EXCEPT ![d] = @ - 1]
              /\ todo'   = [todo EXCEPT ![d] = @ - 1]
              /\ robbed' = robbed \cup {d}
              /\ pc' = pc
           \/ pc' = "failed" /\ UNCHANGED <<mounts, todo, robbed>>
  BY DEF Unmount
<1>2. pc = "unmount" /\ UNCHANGED <<os, target, list, noise, held, vol, tries, locked, passed, late>>
  BY DEF Unmount, locking
<1>3. Mine' = Mine /\ \A e : Wanted(e)' = Wanted(e)
  BY <1>2, WantedStays
<1>4. CASE pc' = "failed" /\ UNCHANGED <<mounts, todo, robbed>>
  BY <1>2, <1>3, <1>4 DEF TypeOK, Stages, LateBounded, Covered, NothingLeft, OnlyWanted
<1>5. CASE /\ mounts[d] > 0
           /\ mounts' = [mounts EXCEPT ![d] = @ - 1]
           /\ todo'   = [todo EXCEPT ![d] = @ - 1]
           /\ robbed' = robbed \cup {d}
           /\ pc' = pc
  <2>1. /\ mounts' \in [Devices -> 0 .. MaxMounts]
        /\ todo' \in [Devices -> 0 .. MaxMounts]
    BY <1>0, <1>1, <1>5 DEF TypeOK
  <2>2. TypeOK'
    BY <1>2, <1>3, <1>5, <2>1 DEF TypeOK
  <2>3. \A e \in Devices : mounts[e] <= todo[e] + late[e] => mounts'[e] <= todo'[e] + late[e]
    BY <1>0, <1>1, <1>5 DEF TypeOK
  <2>4. Covered'
    BY <1>2, <1>3, <1>5, <2>3 DEF Covered
  <2>5. Wanted(d)
    BY <1>1, <1>2 DEF OnlyWanted, Stages
  <2>6. \A e \in Devices : todo'[e] > 0 => todo[e] > 0
    BY <1>0, <1>1, <1>5 DEF TypeOK
  <2>7. OnlyWanted'
    BY <1>2, <1>3, <1>5, <2>5, <2>6 DEF OnlyWanted
  <2> QED
    BY <1>2, <1>5, <2>2, <2>4, <2>7 DEF LateBounded, NothingLeft, Stages
<1> QED
  BY <1>1, <1>4, <1>5

LEMMA UnmountDiskPreserves == Inv /\ UnmountDisk => Inv'
<1> SUFFICES ASSUME Inv, UnmountDisk PROVE Inv'
  OBVIOUS
<1> USE DEF Inv
<1>0. MaxMounts \in Nat /\ MaxNoise \in Nat
  BY BoundAssumption
<1>1. PICK S \in SUBSET {d \in Mine : mounts[d] > 0} :
        /\ \/ pc' = "flash" /\ list = "missing" /\ S = {}
           \/ pc' = "flash" /\ list = "there" /\ S = {d \in Mine : mounts[d] > 0}
           \/ pc' = "failed" /\ list = "there"
        /\ mounts' = [d \in Devices |-> IF d \in S THEN 0 ELSE mounts[d]]
        /\ robbed' = S
  BY DEF UnmountDisk
<1>2. /\ pc = "read" /\ os = "macos"
      /\ UNCHANGED <<os, target, list, noise, held, todo, vol, tries, locked, passed, late>>
  BY DEF UnmountDisk, locking
<1>3. Mine' = Mine /\ \A d : Wanted(d)' = Wanted(d)
  BY <1>2, WantedStays
<1>4. Mine \subseteq Devices
  BY MineAreDevices
<1>5. TypeOK'
  <2>1. mounts' \in [Devices -> 0 .. MaxMounts]
    BY <1>0, <1>1 DEF TypeOK
  <2>2. robbed' \in SUBSET Devices
    BY <1>1, <1>4
  <2> QED
    BY <1>1, <1>2, <1>3, <2>1, <2>2 DEF TypeOK
<1>6. \A d \in Devices : todo[d] = 0
  BY <1>2 DEF Stages, None
<1>7. Covered'
  <2> SUFFICES ASSUME pc' = "flash", list = "there", NEW d \in Devices, d \in Mine
               PROVE  mounts'[d] <= todo[d] + late[d]
    BY <1>1, <1>2, <1>3 DEF Covered, Wanted
  <2>1. mounts[d] \in 0 .. MaxMounts /\ late[d] \in 0 .. MaxNoise
    BY DEF TypeOK
  <2>2. mounts'[d] = 0
    BY <1>0, <1>1, <2>1
  <2> QED
    BY <1>0, <1>6, <2>1, <2>2
<1>8. OnlyWanted'
  BY <1>1, <1>2, <1>3 DEF OnlyWanted, Wanted
<1> QED
  BY <1>1, <1>2, <1>5, <1>6, <1>7, <1>8 DEF LateBounded, NothingLeft, Stages

LEMMA ListVolumesPreserves == Inv /\ ListVolumes => Inv'
<1> SUFFICES ASSUME Inv, ListVolumes PROVE Inv'
  OBVIOUS
<1> USE DEF Inv
<1>0. MaxMounts \in Nat /\ MaxNoise \in Nat
  BY BoundAssumption
<1>1. Mine' = Mine /\ \A d : Wanted(d)' = Wanted(d)
  BY WantedStays DEF ListVolumes
<1>2. TypeOK'
  BY <1>0, <1>1 DEF ListVolumes, TypeOK, locking, None
<1>3. \A d \in Devices : mounts[d] \in Int /\ late[d] \in Int /\ late[d] >= 0
  BY <1>0 DEF TypeOK
<1>4. Covered'
  BY <1>3 DEF ListVolumes, Covered
<1>5. OnlyWanted'
  BY <1>1 DEF ListVolumes, OnlyWanted
<1> QED
  BY <1>2, <1>4, <1>5 DEF ListVolumes, locking, LateBounded, NothingLeft, Stages, None

LEMMA AskVolumePreserves == Inv /\ AskVolume => Inv'
<1> SUFFICES ASSUME Inv, AskVolume PROVE Inv'
  OBVIOUS
<1> USE DEF Inv
<1>0. MaxMounts \in Nat /\ MaxNoise \in Nat
  BY BoundAssumption
<1>1. PICK d \in Devices :
        /\ todo[d] > 0
        /\ todo' = [todo EXCEPT ![d] = @ - 1]
        /\ \/ vol' = {d} \cap Mine /\ passed' = passed
           \/ vol' = {} /\ passed' = passed \cup {d}
  BY DEF AskVolume
<1>2. /\ pc = "lock" /\ vol = {}
      /\ UNCHANGED <<pc, os, target, list, noise, mounts, held, tries, locked, late, robbed>>
  BY DEF AskVolume
<1>3. Mine' = Mine /\ \A e : Wanted(e)' = Wanted(e)
  BY <1>2, WantedStays
<1>4. todo' \in [Devices -> 0 .. MaxMounts]
  BY <1>0, <1>1 DEF TypeOK
<1>5. TypeOK'
  BY <1>1, <1>2, <1>3, <1>4 DEF TypeOK
<1>6. os = "windows"
  BY <1>2 DEF Stages
<1>7. Covered'
  <2> SUFFICES ASSUME list = "there", NEW e \in Devices, e \in Mine
               PROVE  mounts[e] <= todo'[e] + late[e] \/ e \in locked \cup passed' \cup vol'
    BY <1>2, <1>3, <1>6 DEF Covered, Wanted
  <2>1. mounts[e] <= todo[e] + late[e] \/ e \in locked \cup passed
    BY <1>2, <1>6 DEF Covered, Wanted
  <2>2. CASE e = d
    BY <1>1, <2>2
  <2>3. CASE e # d
    <3>1. todo'[e] = todo[e]
      BY <1>1, <2>3 DEF TypeOK
    <3> QED
      BY <1>1, <2>1, <3>1
  <2> QED
    BY <2>2, <2>3
<1>8. OnlyWanted'
  BY <1>2, <1>3, <1>6 DEF OnlyWanted
<1> QED
  BY <1>2, <1>5, <1>6, <1>7, <1>8 DEF LateBounded, NothingLeft, Stages

LEMMA LockPreserves == Inv /\ Lock => Inv'
<1> SUFFICES ASSUME Inv, Lock PROVE Inv'
  OBVIOUS
<1> USE DEF Inv
<1>0. MaxMounts \in Nat /\ MaxNoise \in Nat /\ LockTries \in Nat \ {0}
  BY BoundAssumption, TriesAssumption
<1>1. /\ pc = "lock"
      /\ mounts' \in {mounts, [d \in Devices |-> IF d \in vol THEN 0 ELSE mounts[d]]}
      /\ locked' = locked \cup vol
      /\ robbed' = robbed \cup vol
      /\ vol' = {} /\ tries' = 0
      /\ UNCHANGED <<pc, os, target, list, noise, held, todo, passed, late>>
  BY DEF Lock
<1>2. Mine' = Mine /\ \A e : Wanted(e)' = Wanted(e)
  BY <1>1, WantedStays
<1>3. Mine \subseteq Devices
  BY MineAreDevices
<1>4. os = "windows"
  BY <1>1 DEF Stages
<1>5. TypeOK'
  <2>1. mounts' \in [Devices -> 0 .. MaxMounts]
    BY <1>0, <1>1 DEF TypeOK
  <2>2. 0 \in 0 .. LockTries - 1
    BY <1>0
  <2>3. /\ locked' \in SUBSET Mine /\ robbed' \in SUBSET Devices
        /\ vol' \in SUBSET Mine /\ tries' \in 0 .. LockTries - 1
    BY <1>1, <1>3, <2>2 DEF TypeOK
  <2> QED
    BY <1>1, <1>2, <2>1, <2>3 DEF TypeOK
<1>6. \A e \in Devices : e \notin vol => mounts'[e] = mounts[e]
  BY <1>1 DEF TypeOK
<1>7. Covered'
  BY <1>1, <1>2, <1>6 DEF Covered
<1>8. OnlyWanted'
  BY <1>1, <1>2, <1>4 DEF OnlyWanted, Wanted, TypeOK
<1> QED
  BY <1>1, <1>4, <1>5, <1>7, <1>8 DEF LateBounded, NothingLeft, Stages

LEMMA LockFailsPreserves == Inv /\ LockFails => Inv'
<1> SUFFICES ASSUME Inv, LockFails PROVE Inv'
  OBVIOUS
<1> USE DEF Inv
<1>0. LockTries \in Nat \ {0}
  BY TriesAssumption
<1>1. UNCHANGED <<os, target, list, noise, mounts, held, todo, passed, late, robbed>>
  BY DEF LockFails
<1>2. Mine' = Mine /\ \A e : Wanted(e)' = Wanted(e)
  BY <1>1, WantedStays
<1>3. pc = "lock"
  BY DEF LockFails
<1>4. CASE tries + 1 < LockTries /\ tries' = tries + 1 /\ UNCHANGED <<pc, vol, locked>>
  <2>1. tries' \in 0 .. LockTries - 1
    BY <1>0, <1>4 DEF TypeOK
  <2>2. TypeOK'
    BY <1>1, <1>2, <1>4, <2>1 DEF TypeOK
  <2> QED
    BY <1>1, <1>2, <1>4, <2>2 DEF Stages, LateBounded, Covered, NothingLeft, OnlyWanted
<1>5. CASE tries' = 0 /\ pc' = "failed" /\ vol' = {} /\ locked' = {}
  <2>1. TypeOK'
    BY <1>0, <1>1, <1>2, <1>5 DEF TypeOK
  <2> QED
    BY <1>1, <1>2, <1>5, <2>1 DEF Stages, LateBounded, Covered, NothingLeft, OnlyWanted
<1> QED
  BY <1>4, <1>5 DEF LockFails

LEMMA EndPreserves == Inv /\ (Prepared \/ Finish) => Inv'
<1> SUFFICES ASSUME Inv, Prepared \/ Finish PROVE Inv'
  OBVIOUS
<1> USE DEF Inv
<1>1. UNCHANGED <<os, target>>
  BY DEF Prepared, Finish
<1>2. Mine' = Mine /\ \A e : Wanted(e)' = Wanted(e)
  BY <1>1, WantedStays
<1>3. CASE Prepared
  <2>1. TypeOK'
    BY <1>2, <1>3 DEF Prepared, TypeOK, locking
  <2>2. Covered'
    BY <1>2, <1>3 DEF Prepared, Covered, locking
  <2> QED
    BY <1>2, <1>3, <2>1, <2>2
       DEF Prepared, locking, Stages, LateBounded, NothingLeft, OnlyWanted, None
<1>4. CASE Finish
  <2>1. TypeOK'
    BY <1>2, <1>4 DEF Finish, TypeOK
  <2> QED
    BY <1>2, <1>4, <2>1
       DEF Finish, Stages, LateBounded, Covered, NothingLeft, OnlyWanted
<1> QED
  BY <1>3, <1>4

LEMMA MountByOthersPreserves == Inv /\ MountByOthers => Inv'
<1> SUFFICES ASSUME Inv, MountByOthers PROVE Inv'
  OBVIOUS
<1> USE DEF Inv
<1>0. MaxMounts \in Nat /\ MaxNoise \in Nat
  BY BoundAssumption
<1>1. PICK d \in Devices :
        /\ mounts[d] < MaxMounts
        /\ mounts' = [mounts EXCEPT ![d] = @ + 1]
        /\ late'   = IF pc = "read" THEN late ELSE [late EXCEPT ![d] = @ + 1]
  BY DEF MountByOthers
<1>2. /\ noise < MaxNoise /\ noise' = noise + 1
      /\ UNCHANGED <<pc, os, target, list, held, todo, vol, tries, locked, passed, robbed>>
  BY DEF MountByOthers, MoreNoise, locking
<1>3. Mine' = Mine /\ \A e : Wanted(e)' = Wanted(e)
  BY <1>2, WantedStays
<1>4. mounts' \in [Devices -> 0 .. MaxMounts]
  BY <1>0, <1>1 DEF TypeOK
<1>5. \A e \in Devices : late'[e] \in Nat /\ late'[e] <= late[e] + 1
  BY <1>0, <1>1 DEF TypeOK
<1>6. late' \in [Devices -> 0 .. MaxNoise] /\ LateBounded'
  <2>1. \A e \in Devices : late'[e] <= noise + 1
    BY <1>0, <1>5 DEF TypeOK, LateBounded
  <2>2. late' \in [Devices -> Int]
    BY <1>0, <1>1 DEF TypeOK
  <2>3. noise \in Int /\ noise + 1 <= MaxNoise
    BY <1>0, <1>2 DEF TypeOK
  <2>4. \A e \in Devices : late'[e] \in 0 .. MaxNoise
    BY <1>0, <1>5, <2>1, <2>2, <2>3
  <2> QED
    BY <1>2, <2>1, <2>2, <2>4 DEF LateBounded
<1>7. TypeOK'
  BY <1>0, <1>2, <1>3, <1>4, <1>6 DEF TypeOK
<1>8. pc # "read" =>
        \A e \in Devices : mounts[e] <= todo[e] + late[e] => mounts'[e] <= todo[e] + late'[e]
  BY <1>0, <1>1 DEF TypeOK
<1>9. Covered'
  BY <1>2, <1>3, <1>8 DEF Covered
<1> QED
  BY <1>2, <1>3, <1>6, <1>7, <1>9 DEF Stages, NothingLeft, OnlyWanted

LEMMA OthersPreserve == Inv /\ (UnmountByOthers \/ OpenByOthers) => Inv'
<1> SUFFICES ASSUME Inv, UnmountByOthers \/ OpenByOthers PROVE Inv'
  OBVIOUS
<1> USE DEF Inv
<1>0. MaxMounts \in Nat /\ MaxNoise \in Nat
  BY BoundAssumption
<1>1. /\ noise < MaxNoise /\ noise' = noise + 1
      /\ UNCHANGED <<pc, os, target, list, todo, vol, tries, locked, passed, late, robbed>>
  BY DEF UnmountByOthers, OpenByOthers, MoreNoise, locking
<1>2. Mine' = Mine /\ \A e : Wanted(e)' = Wanted(e)
  BY <1>1, WantedStays
<1>3. /\ mounts' \in [Devices -> 0 .. MaxMounts] /\ held' \in SUBSET Devices
      /\ \A e \in Devices : mounts'[e] <= mounts[e]
  <2>1. CASE UnmountByOthers
    <3>1. PICK d \in Devices : mounts[d] > 0 /\ mounts' = [mounts EXCEPT ![d] = @ - 1]
      BY <2>1 DEF UnmountByOthers
    <3> QED
      BY <1>0, <2>1, <3>1 DEF UnmountByOthers, TypeOK
  <2>2. CASE OpenByOthers
    BY <1>0, <2>2 DEF OpenByOthers, TypeOK
  <2> QED
    BY <2>1, <2>2
<1>4. TypeOK'
  BY <1>0, <1>1, <1>2, <1>3 DEF TypeOK
<1>5. Covered'
  <2>1. \A e \in Devices : /\ mounts[e] \in Int /\ mounts'[e] \in Int
                           /\ todo[e] \in Int /\ late[e] \in Int
    BY <1>0, <1>3 DEF TypeOK
  <2> QED
    BY <1>1, <1>2, <1>3, <2>1 DEF Covered
<1> QED
  BY <1>0, <1>1, <1>2, <1>4, <1>5 DEF TypeOK, Stages, LateBounded, NothingLeft, OnlyWanted

LEMMA StepPreserves == Inv /\ [Next]_vars => Inv'
<1> SUFFICES ASSUME Inv, [Next]_vars PROVE Inv'
  OBVIOUS
<1>1. CASE Next
  BY <1>1, ReadMountsPreserves, UnmountPreserves, UnmountDiskPreserves, ListVolumesPreserves,
     AskVolumePreserves, LockPreserves, LockFailsPreserves, EndPreserves,
     MountByOthersPreserves, OthersPreserve DEF Next, Program
<1>2. CASE UNCHANGED vars
  <2>1. Mine' = Mine /\ \A e : Wanted(e)' = Wanted(e)
    BY <1>2, WantedStays DEF vars
  <2> QED
    BY <1>2, <2>1 DEF vars, locking, Inv, TypeOK, Stages, LateBounded, Covered, NothingLeft,
                      OnlyWanted
<1> QED
  BY <1>1, <1>2

LEMMA Inductive == Spec => []Inv
BY InitEstablishes, StepPreserves, PTL DEF Spec

\* The type invariant of target preparation, on every machine.
THEOREM TypeCorrect == Spec => []TypeOK
<1>1. Inv => TypeOK
  BY DEF Inv
<1> QED
  BY <1>1, Inductive, PTL

\* While the target is flashed, only mounts made after the list was read, or
\* volumes that did not tell their drive, are left on it unlocked, on every
\* machine.
THEOREM OnlyLateRemain == Spec => []OnlyLateMountsRemain
<1>1. Inv => OnlyLateMountsRemain
  <2> SUFFICES ASSUME Inv, pc = "flash", list = "there", NEW d \in Mine
               PROVE  mounts[d] <= late[d] \/ d \in locked \cup passed
    BY DEF OnlyLateMountsRemain
  <2>1. target \in Disks /\ d \in Devices
    BY MineAreDevices DEF Inv, TypeOK
  <2>2. Wanted(d)
    <3>1. CASE os = "linux"
      <4>1. PICK i \in Numbers : d = PartitionNode(target, i)
        BY <3>1 DEF Mine, Partitions
      <4> QED
        BY <2>1, <3>1, <4>1, PartitionsRecognised DEF Wanted
    <3>2. CASE os # "linux"
      BY <3>2 DEF Wanted
    <3> QED
      BY <3>1, <3>2
  <2>3. todo[d] = 0 /\ vol = {}
    BY <2>1 DEF Inv, NothingLeft
  <2>4. mounts[d] <= 0 + late[d] \/ d \in locked \cup passed
    BY <2>1, <2>2, <2>3 DEF Inv, Covered
  <2>5. late[d] \in Int
    BY <2>1, BoundAssumption DEF Inv, TypeOK
  <2> QED
    BY <2>4, <2>5
<1> QED
  BY <1>1, Inductive, PTL

\* A disk that is named by a letter costs no other disk its mounts, whatever
\* the names of the disks, as long as none is named like a partition of it.
THEOREM LettersRobNone == Spec => []LettersRobNobody
<1>1. Inv => LettersRobNobody
  <2> SUFFICES ASSUME Inv, os # "linux" \/ ~EndsInDigit(target), NEW d \in robbed
               PROVE  d \in Mine
    BY DEF LettersRobNobody
  <2>1. target \in Disks /\ d \in Devices /\ Wanted(d)
    BY DEF Inv, TypeOK, OnlyWanted
  <2>2. CASE os = "linux"
    BY <2>1, <2>2, OnlyPartitionsRecognised DEF Wanted, Mine
  <2>3. CASE os # "linux"
    BY <2>1, <2>3 DEF Wanted
  <2> QED
    BY <2>2, <2>3
<1> QED
  BY <1>1, Inductive, PTL
=============================================================================
