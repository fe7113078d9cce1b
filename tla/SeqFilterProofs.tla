---------------------------- MODULE SeqFilterProofs ----------------------------
(***************************************************************************)
(* What SeqFilter's operators return, for every sequence.  The proofs are  *)
(* inductions, on sets: a set of numbers with 0 and the successor of each  *)
(* of its elements is Nat, and a set of sequences closed under Append is   *)
(* all of them.  Theorems so stated take no operator, unlike those of      *)
(* NaturalsInduction, and follow from WFMin of WellFoundedInduction.       *)
(***************************************************************************)
EXTENDS SeqFilter, SequenceTheorems, WellFoundedInduction, TLAPS

\* Induction, for a set of numbers.
LEMMA NatSets ==
  ASSUME NEW S \in SUBSET Nat, 0 \in S, \A n \in S : n + 1 \in S
  PROVE  S = Nat
PROOF
<1> DEFINE Less == {ss \in Nat \X Nat : ss[1] < ss[2]}
           T == Nat \ S
<1>1. IsWellFoundedOn(Less, Nat)
  BY NatLessThanWellFounded DEF OpToRel
<1>2. ASSUME T # {} PROVE FALSE
  <2>1. PICK x \in T : \A y \in T : ~(<<y, x>> \in Less)
    <3> HIDE DEF Less
    <3> QED
      BY <1>1, <1>2, WFMin
  <2>2. x # 0 /\ x - 1 \in Nat
    BY <2>1
  <2>3. <<x - 1, x>> \in Less
    BY <2>1, <2>2
  <2>4. x - 1 \in S
    BY <2>1, <2>2, <2>3
  <2> QED
    BY <2>1, <2>2, <2>4
<1> QED
  BY <1>2

\* Induction, for the numbers up to n.
LEMMA UpTo ==
  ASSUME NEW n \in Nat, NEW S, 0 \in S, \A i \in 0..(n - 1) : i \in S => i + 1 \in S
  PROVE  0..n \subseteq S
PROOF
<1> DEFINE T == {i \in Nat : i <= n => i \in S}
<1>1. T = Nat
  <2>1. 0 \in T /\ T \in SUBSET Nat
    OBVIOUS
  <2>2. \A i \in T : i + 1 \in T
    OBVIOUS
  <2> HIDE DEF T
  <2> QED
    BY <2>1, <2>2, NatSets
<1> QED
  BY <1>1

\* The equation that defines what is kept, for the first n elements.
KeptUpTo(seq, S, g, n) ==
  g = [i \in 0..n |->
         IF i = 0 THEN <<>>
         ELSE IF seq[i] \in S THEN Append(g[i - 1], seq[i]) ELSE g[i - 1]]

LEMMA KeptExists ==
  ASSUME NEW seq, NEW S, NEW n \in Nat
  PROVE  \E g : KeptUpTo(seq, S, g, n)
PROOF
<1> DEFINE T == {k \in Nat : \E g : KeptUpTo(seq, S, g, k)}
<1>1. 0 \in T
  <2>1. KeptUpTo(seq, S, [i \in 0..0 |-> <<>>], 0)
    BY DEF KeptUpTo
  <2> QED
    BY <2>1
<1>2. ASSUME NEW k \in T PROVE k + 1 \in T
  <2>1. PICK g : KeptUpTo(seq, S, g, k)
    OBVIOUS
  <2> DEFINE last == IF seq[k + 1] \in S THEN Append(g[k], seq[k + 1]) ELSE g[k]
             h == [i \in 0..(k + 1) |-> IF i = k + 1 THEN last ELSE g[i]]
  <2>2. ASSUME NEW i \in 0..(k + 1)
        PROVE  h[i] = IF i = 0 THEN <<>>
                      ELSE IF seq[i] \in S THEN Append(h[i - 1], seq[i]) ELSE h[i - 1]
    <3>1. CASE i = k + 1
      <4>1. h[i] = last /\ i # 0
        BY <3>1
      <4>2. i - 1 = k /\ h[i - 1] = g[k]
        BY <3>1
      <4> QED
        BY <3>1, <4>1, <4>2
    <3>2. CASE i # k + 1
      <4>1. i \in 0..k /\ h[i] = g[i]
        BY <3>2
      <4>2. i # 0 => i - 1 \in 0..k /\ h[i - 1] = g[i - 1]
        BY <4>1
      <4> QED
        BY <2>1, <4>1, <4>2 DEF KeptUpTo
    <3> QED
      BY <3>1, <3>2
  <2>3. KeptUpTo(seq, S, h, k + 1)
    BY <2>2 DEF KeptUpTo
  <2> QED
    BY <2>3
<1>3. T \in SUBSET Nat
  OBVIOUS
<1>4. T = Nat
  <2> HIDE DEF T
  <2> QED
    BY <1>1, <1>2, <1>3, NatSets
<1> QED
  BY <1>4

LEMMA KeptEquation ==
  ASSUME NEW seq, NEW S, Len(seq) \in Nat
  PROVE  KeptUpTo(seq, S, Kept(seq, S), Len(seq))
PROOF
<1>1. Kept(seq, S) = CHOOSE g : KeptUpTo(seq, S, g, Len(seq))
  BY DEF Kept, KeptUpTo
<1>2. \E g : KeptUpTo(seq, S, g, Len(seq))
  BY KeptExists
<1> QED
  BY <1>1, <1>2

\* Induction over sequences that grow at the end.
LEMMA SeqSets ==
  ASSUME NEW T, NEW P \in SUBSET Seq(T), <<>> \in P,
         \A s \in P, e \in T : Append(s, e) \in P
  PROVE  P = Seq(T)
PROOF
<1> DEFINE Long == {n \in Nat : \A s \in Seq(T) : Len(s) = n => s \in P}
<1>1. 0 \in Long
  BY EmptySeq
<1>2. ASSUME NEW n \in Long PROVE n + 1 \in Long
  <2> SUFFICES ASSUME NEW s \in Seq(T), Len(s) = n + 1 PROVE s \in P
    OBVIOUS
  <2>1. s # <<>>
    BY EmptySeq
  <2>2. PICK front \in Seq(T), e \in T : s = Append(front, e)
    BY <2>1, SequenceEmptyOrAppend
  <2>3. Len(front) \in Nat /\ Len(s) = Len(front) + 1
    BY <2>2, AppendProperties, LenProperties
  <2>4. Len(front) = n
    BY <2>3
  <2> QED
    BY <2>2, <2>4
<1>3. Long = Nat
  <2>1. Long \in SUBSET Nat
    OBVIOUS
  <2> HIDE DEF Long
  <2> QED
    BY <1>1, <1>2, <2>1, NatSets
<1>4. ASSUME NEW s \in Seq(T) PROVE s \in P
  <2>1. Len(s) \in Long
    BY <1>3, LenProperties
  <2> QED
    BY <2>1
<1> QED
  BY <1>4

-----------------------------------------------------------------------------
\* The recursion equations of Filter.

LEMMA FilterEmpty ==
  ASSUME NEW S
  PROVE  Filter(<<>>, S) = <<>>
PROOF
<1>1. Len(<<>>) = 0
  OBVIOUS
<1>2. KeptUpTo(<<>>, S, Kept(<<>>, S), 0)
  BY <1>1, KeptEquation
<1> QED
  BY <1>1, <1>2 DEF Filter, KeptUpTo

LEMMA FilterAppend ==
  ASSUME NEW T, NEW seq \in Seq(T), NEW e \in T, NEW S
  PROVE  Filter(Append(seq, e), S) =
           IF e \in S THEN Append(Filter(seq, S), e) ELSE Filter(seq, S)
PROOF
<1> DEFINE more == Append(seq, e)
           n == Len(seq)
           Same == {i \in 0..n : Kept(more, S)[i] = Kept(seq, S)[i]}
<1>1. /\ n \in Nat /\ Len(more) = n + 1
      /\ more[n + 1] = e /\ \A i \in 1..n : more[i] = seq[i]
  BY LenProperties
<1>2. KeptUpTo(seq, S, Kept(seq, S), n) /\ KeptUpTo(more, S, Kept(more, S), n + 1)
  <2>1. KeptUpTo(seq, S, Kept(seq, S), n)
    BY <1>1, KeptEquation
  <2>2. Len(more) \in Nat
    BY <1>1
  <2>3. KeptUpTo(more, S, Kept(more, S), Len(more))
    BY <2>2, KeptEquation
  <2> QED
    BY <1>1, <2>1, <2>3
<1> HIDE DEF more, n
<1>3. 0 \in Same
  BY <1>1, <1>2 DEF KeptUpTo
<1>4. ASSUME NEW i \in 0..(n - 1), i \in Same PROVE i + 1 \in Same
  <2>1. i + 1 \in 1..n /\ i + 1 \in 0..n /\ i + 1 \in 0..(n + 1)
        /\ i + 1 # 0 /\ (i + 1) - 1 = i
    BY <1>1
  <2>2. more[i + 1] = seq[i + 1] /\ Kept(more, S)[i] = Kept(seq, S)[i]
    BY <1>1, <1>4, <2>1
  <2>3. Kept(seq, S)[i + 1] =
          IF seq[i + 1] \in S THEN Append(Kept(seq, S)[i], seq[i + 1]) ELSE Kept(seq, S)[i]
    BY <1>2, <2>1 DEF KeptUpTo
  <2>4. Kept(more, S)[i + 1] =
          IF more[i + 1] \in S THEN Append(Kept(more, S)[i], more[i + 1]) ELSE Kept(more, S)[i]
    BY <1>2, <2>1 DEF KeptUpTo
  <2> QED
    BY <2>1, <2>2, <2>3, <2>4
<1>5. n \in Same
  <2> HIDE DEF Same
  <2>1. 0..n \subseteq Same
    BY <1>1, <1>3, <1>4, UpTo
  <2> QED
    BY <1>1, <2>1
<1>6. Kept(more, S)[n + 1] =
        IF e \in S THEN Append(Kept(seq, S)[n], e) ELSE Kept(seq, S)[n]
  <2>1. n + 1 \in 0..(n + 1) /\ n + 1 # 0 /\ (n + 1) - 1 = n
    BY <1>1
  <2> QED
    BY <1>1, <1>2, <1>5, <2>1 DEF KeptUpTo
<1> QED
  BY <1>1, <1>6 DEF Filter, more, n


-----------------------------------------------------------------------------
\* What a filter leaves.

\* Some of the elements, and all of them in S.
LEMMA FilterType ==
  ASSUME NEW T, NEW seq \in Seq(T), NEW S
  PROVE  /\ Filter(seq, S) \in Seq(T)
         /\ Len(Filter(seq, S)) <= Len(seq)
         /\ \A i \in 1..Len(Filter(seq, S)) : Filter(seq, S)[i] \in S
PROOF
<1> DEFINE Good(s) == /\ Filter(s, S) \in Seq(T)
                      /\ Len(Filter(s, S)) <= Len(s)
                      /\ \A i \in 1..Len(Filter(s, S)) : Filter(s, S)[i] \in S
           P == {s \in Seq(T) : Good(s)}
<1>1. <<>> \in P
  <2>1. Filter(<<>>, S) = <<>> /\ <<>> \in Seq(T) /\ Len(<<>>) = 0
    BY FilterEmpty, EmptySeq
  <2>2. Filter(<<>>, S) \in Seq(T) /\ Len(Filter(<<>>, S)) = 0
    BY <2>1
  <2>3. \A i \in 1..Len(Filter(<<>>, S)) : Filter(<<>>, S)[i] \in S
    BY <2>2
  <2>4. Len(Filter(<<>>, S)) <= Len(<<>>)
    BY <2>1, <2>2
  <2> QED
    BY <2>1, <2>2, <2>3, <2>4
<1>2. ASSUME NEW s \in P, NEW e \in T PROVE Append(s, e) \in P
  <2> DEFINE more == Append(s, e)
             kept == Filter(s, S)
  <2>1. /\ more \in Seq(T) /\ Len(more) = Len(s) + 1
        /\ Len(s) \in Nat /\ Len(kept) \in Nat
    BY AppendProperties, LenProperties
  <2>2. CASE e \in S
    <3>1. Filter(more, S) = Append(kept, e)
      BY <2>2, FilterAppend
    <3>2. /\ Append(kept, e) \in Seq(T) /\ Len(Append(kept, e)) = Len(kept) + 1
          /\ \A i \in 1..Len(kept) : Append(kept, e)[i] = kept[i]
          /\ Append(kept, e)[Len(kept) + 1] = e
      BY AppendProperties
    <3> HIDE DEF more, kept
    <3>3. \A i \in 1..(Len(kept) + 1) : Append(kept, e)[i] \in S
      BY <2>1, <2>2, <3>2 DEF kept
    <3>4. Len(Filter(more, S)) <= Len(more)
      BY <2>1, <3>1, <3>2 DEF kept
    <3>5. Good(more)
      BY <3>1, <3>2, <3>3, <3>4
    <3> QED
      BY <2>1, <3>5 DEF more
  <2>3. CASE e \notin S
    <3>1. Filter(more, S) = kept
      BY <2>3, FilterAppend
    <3> HIDE DEF more, kept
    <3>2. Len(Filter(more, S)) <= Len(more)
      BY <2>1, <3>1 DEF kept
    <3>3. Good(more)
      BY <3>1, <3>2 DEF kept
    <3> QED
      BY <2>1, <3>3 DEF more
  <2> QED
    BY <2>2, <2>3
<1>3. P = Seq(T)
  <2>1. P \in SUBSET Seq(T)
    OBVIOUS
  <2> HIDE DEF P
  <2> QED
    BY <1>1, <1>2, <2>1, SeqSets
<1> QED
  BY <1>3

\* Elements in order are kept in order.
LEMMA FilterOrder ==
  ASSUME NEW T, NEW seq \in Seq(T), NEW S,
         NEW i \in 1..Len(Filter(seq, S)), NEW j \in 1..Len(Filter(seq, S)), i < j
  PROVE  \E k, l \in 1..Len(seq) :
           k < l /\ Filter(seq, S)[i] = seq[k] /\ Filter(seq, S)[j] = seq[l]
PROOF
<1> DEFINE Found(s) == \A x \in 1..Len(Filter(s, S)) :
                         \E k \in 1..Len(s) : Filter(s, S)[x] = s[k]
           Ordered(s) == \A x, y \in 1..Len(Filter(s, S)) :
                           x < y => \E k, l \in 1..Len(s) :
                             k < l /\ Filter(s, S)[x] = s[k] /\ Filter(s, S)[y] = s[l]
           P == {s \in Seq(T) : Found(s) /\ Ordered(s)}
<1>1. <<>> \in P
  BY FilterEmpty, EmptySeq
<1>2. ASSUME NEW s \in P, NEW e \in T PROVE Append(s, e) \in P
  <2> DEFINE more == Append(s, e)
             kept == Filter(s, S)
             n == Len(s)
             m == Len(kept)
  <2>1. /\ more \in Seq(T) /\ Len(more) = n + 1 /\ n \in Nat /\ m \in Nat
        /\ more[n + 1] = e /\ \A x \in 1..n : more[x] = s[x]
    BY AppendProperties, LenProperties, FilterType
  <2>2. /\ \A x \in 1..m : \E k \in 1..n : kept[x] = s[k]
        /\ \A x, y \in 1..m :
             x < y => \E k, l \in 1..n : k < l /\ kept[x] = s[k] /\ kept[y] = s[l]
    OBVIOUS
  <2>3. CASE e \in S
    <3>1. Filter(more, S) = Append(kept, e)
      BY <2>3, FilterAppend
    <3>2. /\ Len(Filter(more, S)) = m + 1 /\ Filter(more, S)[m + 1] = e
          /\ \A x \in 1..m : Filter(more, S)[x] = kept[x]
      BY <3>1, FilterType, AppendProperties
    <3> HIDE DEF more, kept, n, m
    <3>3. ASSUME NEW x \in 1..(m + 1)
          PROVE  \E k \in 1..(n + 1) : Filter(more, S)[x] = more[k]
      <4>1. CASE x \in 1..m
        <5>1. PICK k \in 1..n : kept[x] = s[k]
          BY <2>2, <4>1
        <5> QED
          BY <2>1, <3>2, <4>1, <5>1
      <4>2. CASE x = m + 1
        BY <2>1, <3>2, <4>2
      <4> QED
        BY <2>1, <4>1, <4>2
    <3>4. ASSUME NEW x \in 1..(m + 1), NEW y \in 1..(m + 1), x < y
          PROVE  \E k, l \in 1..(n + 1) :
                   k < l /\ Filter(more, S)[x] = more[k] /\ Filter(more, S)[y] = more[l]
      <4>1. x \in 1..m
        BY <2>1, <3>4
      <4>2. CASE y \in 1..m
        <5>1. PICK k \in 1..n, l \in 1..n : k < l /\ kept[x] = s[k] /\ kept[y] = s[l]
          BY <2>2, <3>4, <4>1, <4>2
        <5> QED
          BY <2>1, <3>2, <4>1, <4>2, <5>1
      <4>3. CASE y = m + 1
        <5>1. PICK k \in 1..n : kept[x] = s[k]
          BY <2>2, <4>1
        <5> QED
          BY <2>1, <3>2, <4>1, <4>3, <5>1
      <4> QED
        BY <2>1, <4>2, <4>3
    <3>5. Found(more) /\ Ordered(more)
      <4>1. Len(Filter(more, S)) = m + 1 /\ Len(more) = n + 1
        BY <2>1, <3>2
      <4>2. Found(more)
        BY <3>3, <4>1
      <4>3. Ordered(more)
        BY <3>4, <4>1
      <4> QED
        BY <4>2, <4>3
    <3> QED
      BY <2>1, <3>5 DEF more
  <2>4. CASE e \notin S
    <3>1. Filter(more, S) = kept
      BY <2>4, FilterAppend
    <3> HIDE DEF more, kept, n
    <3>2. \A k \in 1..n : k \in 1..(n + 1)
      BY <2>1
    <3>3. Found(more) /\ Ordered(more)
      BY <2>1, <2>2, <3>1, <3>2 DEF m
    <3> QED
      BY <2>1, <3>3 DEF more
  <2> QED
    BY <2>3, <2>4
<1>3. P = Seq(T)
  <2>1. P \in SUBSET Seq(T)
    OBVIOUS
  <2> HIDE DEF P
  <2> QED
    BY <1>1, <1>2, <2>1, SeqSets
<1>4. Ordered(seq)
  BY <1>3
<1> QED
  BY <1>4

\* Filtering twice is filtering with the smaller set.
LEMMA FilterTwice ==
  ASSUME NEW T, NEW seq \in Seq(T), NEW R, NEW S, S \subseteq R
  PROVE  Filter(Filter(seq, R), S) = Filter(seq, S)
PROOF
<1> DEFINE P == {s \in Seq(T) : Filter(Filter(s, R), S) = Filter(s, S)}
<1>1. <<>> \in P
  BY FilterEmpty, EmptySeq
<1>2. ASSUME NEW s \in P, NEW e \in T PROVE Append(s, e) \in P
  <2>1. Filter(s, R) \in Seq(T) /\ Append(s, e) \in Seq(T)
    BY FilterType, AppendProperties
  <2>2. Filter(Append(s, e), R) = IF e \in R THEN Append(Filter(s, R), e) ELSE Filter(s, R)
    BY FilterAppend
  <2>3. Filter(Append(s, e), S) = IF e \in S THEN Append(Filter(s, S), e) ELSE Filter(s, S)
    BY FilterAppend
  <2>4. Filter(Append(Filter(s, R), e), S) =
          IF e \in S THEN Append(Filter(Filter(s, R), S), e) ELSE Filter(Filter(s, R), S)
    BY <2>1, FilterAppend
  <2> QED
    BY <2>1, <2>2, <2>3, <2>4
<1>3. P = Seq(T)
  <2>1. P \in SUBSET Seq(T)
    OBVIOUS
  <2> HIDE DEF P
  <2> QED
    BY <1>1, <1>2, <2>1, SeqSets
<1> QED
  BY <1>3

=============================================================================
