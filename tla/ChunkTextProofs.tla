--------------------------- MODULE ChunkTextProofs ---------------------------
(***************************************************************************)
(* What the operators of ChunkText do, for every input and every value of  *)
(* its constants: what one flush is made of is in its chunks.              *)
(*                                                                         *)
(* The induction theorems of the library take an operator, which the       *)
(* provers cannot instantiate.  WFMin, that a nonempty subset of a         *)
(* well-founded set has a least member, takes a set: Induction is made of  *)
(* it, FlattenSeq and the recursion of Split are unfolded with it.         *)
(***************************************************************************)
EXTENDS ChunkText, SequenceTheorems, FiniteSetTheorems, WellFoundedInduction,
        TLAPS

(* Induction over the naturals, with a set in place of the predicate. *)

\* The order of the naturals, as a set of pairs.

NatLess == {p \in Nat \X Nat : p[1] < p[2]}

\* The order of the naturals is well-founded.
LEMMA NatLessWellFounded == IsWellFoundedOn(NatLess, Nat)
BY NatLessThanWellFounded DEF NatLess, OpToRel

\* Every nonempty set of naturals has a least element.
LEMMA LeastNatural ==
    ASSUME NEW T \in SUBSET Nat, T # {}
    PROVE  \E n \in T : \A m \in T : n <= m
<1>1. PICK n \in T : \A m \in T : <<m, n>> \notin NatLess
  BY NatLessWellFounded, WFMin
<1>2. \A m \in T : ~(m < n)
  BY <1>1 DEF NatLess
<1>3. QED
  BY <1>2

\* Induction up to N; the set stands for the predicate that holds of its members.
LEMMA Induction ==
    ASSUME NEW N \in Nat, NEW T, 0 \in T,
           \A n \in 1..N : n - 1 \in T => n \in T
    PROVE  \A n \in 0..N : n \in T
<1> DEFINE U == {n \in 0..N : n \notin T}
<1> SUFFICES ASSUME U # {} PROVE FALSE
  OBVIOUS
<1>1. PICK n \in U : \A m \in U : n <= m
  <2> U \in SUBSET Nat
    OBVIOUS
  <2> HIDE DEF U
  <2> QED BY LeastNatural
<1>2. n # 0
  OBVIOUS
<1> DEFINE p == n - 1
<1>3. p \in 0..N /\ p < n /\ n \in 1..N /\ n \notin T
  BY <1>1, <1>2
<1>4. p \in T
  BY <1>1, <1>3
<1>5. QED
  BY <1>3, <1>4

\* Max of a nonempty set of places is in it, and none is greater.
LEMMA GreatestNatural ==
    ASSUME NEW k \in Nat, NEW I \in SUBSET (1..k), I # {}
    PROVE  Max(I) \in I /\ \A i \in I : i <= Max(I)
<1> DEFINE T == {k - i : i \in I}
<1>1. T \in SUBSET Nat /\ T # {}
  <2>1. \A i \in I : i \in 1..k
    OBVIOUS
  <2>2. \A i \in I : k - i \in Nat
    BY <2>1
  <2> QED BY <2>2
<1>2. PICK n \in T : \A m \in T : n <= m
  <2> HIDE DEF T
  <2> QED BY <1>1, LeastNatural
<1>3. PICK j \in I : n = k - j
  BY <1>2
<1>4. \A i \in I : k - j <= k - i
  BY <1>2, <1>3
<1>5. \A i \in I : j >= i
  BY <1>4
<1>6. Max(I) \in I /\ \A y \in I : Max(I) >= y
  BY <1>5 DEF Max
<1> QED BY <1>6

\* Min of a nonempty set of naturals is in it, and none is less.
LEMMA LeastIsMin ==
    ASSUME NEW I \in SUBSET Nat, I # {}
    PROVE  Min(I) \in I /\ \A i \in I : Min(I) <= i
<1>1. \E x \in I : \A y \in I : x <= y
  BY LeastNatural
<1> QED BY <1>1 DEF Min

-----------------------------------------------------------------------------
(* FlattenSeq. *)

\* f holds what the first n of ss are together, for every n.
Flattens(f, ss, N) ==
    f[0] = <<>> /\ \A i \in 1..N : f[i] = f[i - 1] \o ss[i]

\* The same, as the definition of FlattenSeq has it.
Unfolds(g, ss) ==
    \A i \in 1..Len(ss) : g[i] = IF i = 1 THEN ss[i] ELSE g[i - 1] \o ss[i]

\* The recursive function behind FlattenSeq exists.
LEMMA FlattenSeqExists ==
    ASSUME NEW S, NEW ss \in Seq(Seq(S))
    PROVE  \E f \in [0..Len(ss) -> Seq(S)] : Flattens(f, ss, Len(ss))
<1> DEFINE P(n) == \E f \in [0..n -> Seq(S)] : Flattens(f, ss, n)
           T == {n \in 0..Len(ss) : P(n)}
<1> Len(ss) \in Nat
  OBVIOUS
<1>1. P(0)
  <2> DEFINE f == [i \in 0..0 |-> <<>>]
  <2>1. f \in [0..0 -> Seq(S)] /\ Flattens(f, ss, 0)
    BY DEF Flattens
  <2> QED BY <2>1
<1>2. ASSUME NEW n \in 1..Len(ss), P(n - 1) PROVE P(n)
  <2>1. PICK f \in [0..(n - 1) -> Seq(S)] : Flattens(f, ss, n - 1)
    BY <1>2
  <2>2. ss[n] \in Seq(S) /\ f[n - 1] \in Seq(S)
    OBVIOUS
  <2> DEFINE all == f[n - 1] \o ss[n]
             g == [i \in 0..n |-> IF i < n THEN f[i] ELSE all]
  <2>3. all \in Seq(S)
    BY <2>2
  <2>4. g \in [0..n -> Seq(S)] /\ (\A i \in 0..(n - 1) : g[i] = f[i]) /\ g[n] = all
    <3> HIDE DEF all
    <3> \A i \in 0..n : i < n => i \in 0..(n - 1)
      OBVIOUS
    <3> QED BY <2>3
  <2>5. Flattens(g, ss, n)
    <3> HIDE DEF g
    <3>1. g[0] = <<>>
      BY <2>1, <2>4 DEF Flattens
    <3>2. ASSUME NEW i \in 1..n PROVE g[i] = g[i - 1] \o ss[i]
      <4>1. CASE i = n
        <5>1. n - 1 \in 0..(n - 1)
          OBVIOUS
        <5>2. g[n - 1] = f[n - 1] /\ g[n] = f[n - 1] \o ss[n]
          BY <5>1, <2>4
        <5>3. g[n] = g[n - 1] \o ss[n]
          BY <5>2
        <5> QED BY <4>1, <5>3
      <4>2. CASE i # n
        <5>1. i \in 1..(n - 1) /\ i \in 0..(n - 1) /\ i - 1 \in 0..(n - 1)
          BY <4>2
        <5> QED BY <5>1, <2>1, <2>4 DEF Flattens
      <4> QED BY <4>1, <4>2
    <3> QED BY <3>1, <3>2 DEF Flattens
  <2> HIDE DEF g
  <2> QED BY <2>4, <2>5
<1>3. P(Len(ss))
  <2> HIDE DEF P
  <2>1. 0 \in T
    BY <1>1
  <2>2. \A n \in 1..Len(ss) : n - 1 \in T => n \in T
    BY <1>2
  <2>3. \A n \in 0..Len(ss) : n \in T
    <3> HIDE DEF T
    <3> QED BY <2>1, <2>2, Induction
  <2> QED BY <2>3
<1> QED BY <1>3

\* The functions the definition of FlattenSeq may mean are all the same.
LEMMA FlattensUnique ==
    ASSUME NEW S, NEW ss \in Seq(Seq(S)), NEW f, NEW g,
           Flattens(f, ss, Len(ss)),
           Unfolds(g, ss)
    PROVE  \A n \in 1..Len(ss) : g[n] = f[n]
<1> DEFINE T == {n \in 0..Len(ss) : n > 0 => g[n] = f[n]}
<1>1. 0 \in T
  OBVIOUS
<1>2. ASSUME NEW n \in 1..Len(ss), n - 1 \in T PROVE g[n] = f[n]
  <2>1. f[n] = f[n - 1] \o ss[n] /\ f[0] = <<>>
    BY DEF Flattens
  <2>2. CASE n = 1
    <3>1. g[n] = ss[n] /\ n - 1 = 0 /\ ss[n] \in Seq(S)
      BY <2>2 DEF Unfolds
    <3>2. f[n] = <<>> \o ss[n]
      BY <2>1, <3>1
    <3> QED BY <3>1, <3>2, ConcatEmptySeq
  <2>3. CASE n # 1
    <3>1. g[n - 1] = f[n - 1]
      BY <1>2, <2>3
    <3>2. g[n] = g[n - 1] \o ss[n]
      BY <2>3 DEF Unfolds
    <3> QED BY <2>1, <3>1, <3>2
  <2> QED BY <2>2, <2>3
<1>3. \A n \in 1..Len(ss) : n - 1 \in T => n \in T
  BY <1>2
<1>4. \A n \in 0..Len(ss) : n \in T
  <2> Len(ss) \in Nat
    OBVIOUS
  <2> HIDE DEF T
  <2> QED BY <1>1, <1>3, Induction
<1> QED BY <1>4

\* FlattenSeq(ss) is what such a function says of all of ss.
LEMMA FlattenSeqValue ==
    ASSUME NEW S, NEW ss \in Seq(Seq(S))
    PROVE  \E f \in [0..Len(ss) -> Seq(S)] :
              Flattens(f, ss, Len(ss)) /\ FlattenSeq(ss) = f[Len(ss)]
<1> DEFINE h(g) == [i \in 1..Len(ss) |-> IF i = 1 THEN ss[i] ELSE g[i - 1] \o ss[i]]
           flatten == CHOOSE g : g = h(g)
<1> Len(ss) \in Nat
  OBVIOUS
<1>1. CASE Len(ss) = 0
  <2> DEFINE f == [i \in 0..0 |-> <<>>]
  <2>1. f \in [0..0 -> Seq(S)] /\ Flattens(f, ss, 0)
    BY DEF Flattens
  <2>2. FlattenSeq(ss) = ss /\ ss = <<>> /\ f[0] = <<>>
    BY <1>1 DEF FlattenSeq
  <2> QED BY <1>1, <2>1, <2>2
<1>2. CASE Len(ss) # 0
  <2>1. PICK f \in [0..Len(ss) -> Seq(S)] : Flattens(f, ss, Len(ss))
    BY FlattenSeqExists
  <2> DEFINE e == [i \in 1..Len(ss) |-> f[i]]
  <2>2. e = h(e)
    <3>1. ASSUME NEW i \in 1..Len(ss)
          PROVE  f[i] = IF i = 1 THEN ss[i] ELSE e[i - 1] \o ss[i]
      <4>1. f[i] = f[i - 1] \o ss[i] /\ f[0] = <<>> /\ ss[i] \in Seq(S)
        <5>1. ss[i] \in Seq(S)
          OBVIOUS
        <5> HIDE DEF h, e, flatten
        <5> QED BY <5>1, <2>1 DEF Flattens
      <4>2. CASE i = 1
        <5>1. f[i] = <<>> \o ss[i]
          BY <4>1, <4>2
        <5> QED BY <4>1, <5>1, <4>2, ConcatEmptySeq
      <4>3. CASE i # 1
        <5>1. i - 1 \in 1..Len(ss)
          BY <4>3
        <5>2. e[i - 1] = f[i - 1]
          BY <5>1
        <5> QED BY <4>1, <4>3, <5>2
      <4> QED BY <4>2, <4>3
    <3> HIDE DEF e
    <3>2. h(e) = [i \in 1..Len(ss) |-> f[i]]
      BY <3>1
    <3> QED BY <3>2 DEF e
  <2>3. flatten = h(flatten)
    <3> HIDE DEF h, e
    <3> QED BY <2>2
  <2>4. FlattenSeq(ss) = flatten[Len(ss)]
    BY <1>2 DEF FlattenSeq
  <2>5. PICK g : g = h(g) /\ FlattenSeq(ss) = g[Len(ss)]
    <3> HIDE DEF flatten, h
    <3> QED BY <2>3, <2>4
  <2> HIDE DEF e
  <2>6. Unfolds(g, ss)
    <3>1. g = [i \in 1..Len(ss) |-> IF i = 1 THEN ss[i] ELSE g[i - 1] \o ss[i]]
      BY <2>5
    <3> HIDE DEF h, flatten
    <3> QED BY ONLY <3>1 DEF Unfolds
  <2> HIDE DEF h, flatten
  <2>7. \A n \in 1..Len(ss) : g[n] = f[n]
    <3>1. Flattens(f, ss, Len(ss))
      BY <2>1
    <3> QED BY <2>6, <3>1, FlattensUnique
  <2>8. g[Len(ss)] = f[Len(ss)]
    BY <2>7, <1>2
  <2> QED BY <2>1, <2>5, <2>8
<1> QED BY <1>1, <1>2

-----------------------------------------------------------------------------
\* What holds of the empty sequence and is kept by Append holds of every one.
LEMMA SequenceInduction ==
    ASSUME NEW S, NEW T, <<>> \in T,
           \A s \in Seq(S), e \in S : s \in T => Append(s, e) \in T
    PROVE  \A s \in Seq(S) : s \in T
<1> SUFFICES ASSUME NEW s \in Seq(S) PROVE s \in T
  OBVIOUS
<1> DEFINE P(n) == SubSeq(s, 1, n) \in T
           U == {n \in 0..Len(s) : P(n)}
<1> Len(s) \in Nat
  OBVIOUS
<1>1. 0 \in U
  <2>1. SubSeq(s, 1, 0) = <<>>
    BY SubSeqEmpty
  <2>2. P(0)
    BY <2>1
  <2> HIDE DEF P
  <2> QED BY <2>2
<1>2. ASSUME NEW n \in 1..Len(s), n - 1 \in U PROVE n \in U
  <2>1. SubSeq(s, 1, n) = SubSeq(s, 1, n - 1) \o <<s[n]>>
    BY SubSeqRecursiveSecond
  <2>2. SubSeq(s, 1, n - 1) \in Seq(S) /\ s[n] \in S
    OBVIOUS
  <2>3. SubSeq(s, 1, n) = Append(SubSeq(s, 1, n - 1), s[n])
    BY <2>1, <2>2, AppendIsConcat
  <2>4. SubSeq(s, 1, n - 1) \in T
    BY <1>2
  <2>5. SubSeq(s, 1, n) \in T
    <3> HIDE DEF U
    <3> QED BY <2>2, <2>3, <2>4
  <2> QED BY <2>5
<1>3. \A n \in 0..Len(s) : n \in U
  <2>1. \A n \in 1..Len(s) : n - 1 \in U => n \in U
    BY <1>2
  <2> HIDE DEF U
  <2> QED BY <1>1, <2>1, Induction
<1>4. SubSeq(s, 1, Len(s)) \in T
  BY <1>3
<1> QED BY <1>4, SubSeqFull

\* Nothing to put together.
LEMMA FlattenEmpty == FlattenSeq(<<>>) = <<>>
BY DEF FlattenSeq

\* What is put together holds the members of the parts.
LEMMA FlattenType ==
    ASSUME NEW S, NEW ss \in Seq(Seq(S))
    PROVE  FlattenSeq(ss) \in Seq(S)
<1>1. PICK f \in [0..Len(ss) -> Seq(S)] :
          Flattens(f, ss, Len(ss)) /\ FlattenSeq(ss) = f[Len(ss)]
  BY FlattenSeqValue
<1>2. Len(ss) \in 0..Len(ss)
  OBVIOUS
<1> QED BY <1>1, <1>2

\* One part more at the end.
LEMMA FlattenAppend ==
    ASSUME NEW S, NEW ss \in Seq(Seq(S)), NEW x \in Seq(S)
    PROVE  FlattenSeq(Append(ss, x)) = FlattenSeq(ss) \o x
<1> DEFINE tt == Append(ss, x)
           m == Len(ss)
<1>1. tt \in Seq(Seq(S)) /\ m \in Nat /\ Len(tt) = m + 1 /\ tt[m + 1] = x
      /\ \A i \in 1..m : tt[i] = ss[i]
  BY AppendProperties
<1> HIDE DEF tt
<1>2. PICK f \in [0..m -> Seq(S)] : Flattens(f, ss, m) /\ FlattenSeq(ss) = f[m]
  BY FlattenSeqValue
<1>3. PICK g \in [0..(m + 1) -> Seq(S)] :
          Flattens(g, tt, m + 1) /\ FlattenSeq(tt) = g[m + 1]
  BY <1>1, FlattenSeqValue
<1> HIDE DEF m
<1> DEFINE T == {n \in 0..m : g[n] = f[n]}
<1>4. 0 \in T
  BY <1>1, <1>2, <1>3 DEF Flattens
<1>5. ASSUME NEW n \in 1..m, n - 1 \in T PROVE n \in T
  <2>1. n \in 1..(m + 1)
    BY <1>1
  <2>2. f[n] = f[n - 1] \o ss[n] /\ g[n] = g[n - 1] \o tt[n]
    BY <1>2, <1>3, <2>1 DEF Flattens
  <2>3. g[n - 1] = f[n - 1] /\ tt[n] = ss[n]
    BY <1>1, <1>5
  <2>4. g[n] = f[n]
    BY <2>2, <2>3
  <2> QED BY <1>1, <2>4
<1>6. \A n \in 0..m : n \in T
  <2>1. \A n \in 1..m : n - 1 \in T => n \in T
    BY <1>5
  <2> HIDE DEF T
  <2> QED BY <1>1, <1>4, <2>1, Induction
<1>7. g[m] = f[m]
  BY <1>1, <1>6
<1>8. g[m + 1] = g[m] \o x
  <2>1. m + 1 \in 1..(m + 1) /\ m + 1 - 1 = m
    BY <1>1
  <2>2. \A k \in 1..(m + 1) : g[k] = g[k - 1] \o tt[k]
    BY <1>3 DEF Flattens
  <2>3. g[m + 1] = g[m] \o tt[m + 1]
    <3> DEFINE k == m + 1
    <3>1. k \in 1..(m + 1) /\ k - 1 = m
      BY <1>1
    <3> HIDE DEF k
    <3>2. g[k] = g[k - 1] \o tt[k]
      BY <2>2, <3>1
    <3>3. g[k] = g[m] \o tt[k]
      BY <3>1, <3>2
    <3> QED BY <3>3 DEF k
  <2> QED BY <1>1, <2>3
<1> QED BY <1>2, <1>3, <1>7, <1>8 DEF tt

\* What the first n sequences of ss are together.
Upto(ss, n) == FlattenSeq(SubSeq(ss, 1, n))

\* The first n parts hold the members of all of them.
LEMMA UptoType ==
    ASSUME NEW S, NEW ss \in Seq(Seq(S)), NEW n \in 0..Len(ss)
    PROVE  Upto(ss, n) \in Seq(S)
<1>1. SubSeq(ss, 1, n) \in Seq(Seq(S))
  OBVIOUS
<1> QED BY <1>1, FlattenType DEF Upto

\* None of the parts, and all of them.
LEMMA UptoEnds ==
    ASSUME NEW S, NEW ss \in Seq(Seq(S))
    PROVE  Upto(ss, 0) = <<>> /\ Upto(ss, Len(ss)) = FlattenSeq(ss)
<1>1. SubSeq(ss, 1, 0) = <<>>
  BY SubSeqEmpty
<1>2. SubSeq(ss, 1, Len(ss)) = ss
  BY SubSeqFull
<1> QED BY <1>1, <1>2, FlattenEmpty DEF Upto

\* One part more.
LEMMA UptoStep ==
    ASSUME NEW S, NEW ss \in Seq(Seq(S)), NEW n \in 1..Len(ss)
    PROVE  Upto(ss, n) = Upto(ss, n - 1) \o ss[n]
<1>1. SubSeq(ss, 1, n) = SubSeq(ss, 1, n - 1) \o <<ss[n]>>
  BY SubSeqRecursiveSecond
<1>2. SubSeq(ss, 1, n - 1) \in Seq(Seq(S)) /\ ss[n] \in Seq(S)
  OBVIOUS
<1>3. SubSeq(ss, 1, n) = Append(SubSeq(ss, 1, n - 1), ss[n])
  BY <1>1, <1>2, AppendIsConcat
<1> QED BY <1>2, <1>3, FlattenAppend DEF Upto

\* ConcatAssociative, as a formula.
LEMMA ConcatAssociates ==
    \A S : \A s, t, u \in Seq(S) : (s \o t) \o u = s \o (t \o u)
<1> TAKE S
<1> TAKE s, t, u \in Seq(S)
<1> QED BY ONLY s \in Seq(S), t \in Seq(S), u \in Seq(S), ConcatAssociative

\* The parts of one sequence behind those of another.
LEMMA FlattenConcat ==
    ASSUME NEW S, NEW ss \in Seq(Seq(S)), NEW tt \in Seq(Seq(S))
    PROVE  FlattenSeq(ss \o tt) = FlattenSeq(ss) \o FlattenSeq(tt)
<1> DEFINE T == {t \in Seq(Seq(S)) :
                    FlattenSeq(ss \o t) = FlattenSeq(ss) \o FlattenSeq(t)}
<1>1. <<>> \in T
  <2>1. FlattenSeq(ss) \in Seq(S) /\ ss \o <<>> = ss
    BY FlattenType, ConcatEmptySeq
  <2>2. FlattenSeq(ss) \o <<>> = FlattenSeq(ss)
    BY <2>1, ConcatEmptySeq
  <2> QED BY <2>1, <2>2, FlattenEmpty
<1>2. ASSUME NEW t \in Seq(Seq(S)), NEW x \in Seq(S), t \in T
      PROVE  Append(t, x) \in T
  <2>1. ss \o Append(t, x) = Append(ss \o t, x) /\ ss \o t \in Seq(Seq(S))
    OBVIOUS
  <2>2. FlattenSeq(ss \o Append(t, x)) = FlattenSeq(ss \o t) \o x
    BY <2>1, FlattenAppend
  <2>3. FlattenSeq(Append(t, x)) = FlattenSeq(t) \o x
    BY FlattenAppend
  <2>4. FlattenSeq(ss \o t) = FlattenSeq(ss) \o FlattenSeq(t)
    BY <1>2
  <2>5. FlattenSeq(ss) \in Seq(S) /\ FlattenSeq(t) \in Seq(S)
    BY FlattenType
  <2>6. (FlattenSeq(ss) \o FlattenSeq(t)) \o x = FlattenSeq(ss) \o (FlattenSeq(t) \o x)
    <3> DEFINE y == FlattenSeq(ss)
               z == FlattenSeq(t)
    <3>1. y \in Seq(S) /\ z \in Seq(S)
      BY <2>5
    <3> HIDE DEF y, z
    <3>2. (y \o z) \o x = y \o (z \o x)
      BY ONLY <3>1, x \in Seq(S), ConcatAssociates, SMTT(30)
    <3> QED BY <3>2 DEF y, z
  <2>7. FlattenSeq(ss \o Append(t, x)) = FlattenSeq(ss) \o FlattenSeq(Append(t, x))
    BY <2>2, <2>3, <2>4, <2>6
  <2> QED BY <2>7
<1>3. \A t \in Seq(Seq(S)), x \in Seq(S) : t \in T => Append(t, x) \in T
  BY <1>2
<1>4. \A t \in Seq(Seq(S)) : t \in T
  <2> HIDE DEF T
  <2> QED BY <1>1, <1>3, SequenceInduction
<1> QED BY <1>4

\* Taken apart character by character and put together again.
LEMMA FlattenSingletons ==
    ASSUME NEW S, NEW s \in Seq(S)
    PROVE  FlattenSeq([i \in 1..Len(s) |-> <<s[i]>>]) = s
<1> DEFINE ss == [i \in 1..Len(s) |-> <<s[i]>>]
           P(n) == Upto(ss, n) = SubSeq(s, 1, n)
           T == {n \in 0..Len(s) : P(n)}
<1>1. ss \in Seq(Seq(S)) /\ Len(ss) = Len(s) /\ Len(s) \in Nat
      /\ \A i \in 1..Len(s) : ss[i] = <<s[i]>>
  OBVIOUS
<1> HIDE DEF ss
<1>2. P(0)
  <2>1. Upto(ss, 0) = <<>>
    BY <1>1, UptoEnds
  <2>2. SubSeq(s, 1, 0) = <<>>
    BY SubSeqEmpty
  <2> QED BY <2>1, <2>2
<1>3. ASSUME NEW n \in 1..Len(s), P(n - 1) PROVE P(n)
  <2>1. Upto(ss, n) = Upto(ss, n - 1) \o ss[n]
    BY <1>1, UptoStep
  <2>2. SubSeq(s, 1, n) = SubSeq(s, 1, n - 1) \o <<s[n]>>
    BY SubSeqRecursiveSecond
  <2> QED BY <1>1, <1>3, <2>1, <2>2
<1>4. \A n \in 0..Len(s) : n \in T
  <2> HIDE DEF P
  <2>1. 0 \in T /\ \A n \in 1..Len(s) : n - 1 \in T => n \in T
    BY <1>1, <1>2, <1>3
  <2> HIDE DEF T
  <2> QED BY <1>1, <2>1, Induction
<1>5. Upto(ss, Len(s)) = SubSeq(s, 1, Len(s))
  BY <1>1, <1>4
<1>6. FlattenSeq(ss) = s
  BY <1>1, <1>5, UptoEnds, SubSeqFull
<1> QED BY <1>6 DEF ss

-----------------------------------------------------------------------------
(* Without. *)

\* What is left holds no member of D.
LEMMA WithoutType ==
    ASSUME NEW S, NEW s \in Seq(S), NEW D
    PROVE  Without(s, D) \in Seq(S \ D)
<1> DEFINE ss == [i \in 1..Len(s) |-> IF s[i] \in D THEN <<>> ELSE <<s[i]>>]
<1>1. ss \in Seq(Seq(S \ D))
  <2>1. \A c \in S : (IF c \in D THEN <<>> ELSE <<c>>) \in Seq(S \ D)
    <3> TAKE c \in S
    <3>1. CASE c \in D
      BY <3>1
    <3>2. CASE c \notin D
      BY <3>2
    <3> QED BY <3>1, <3>2
  <2>2. \A i \in 1..Len(s) :
            (IF s[i] \in D THEN <<>> ELSE <<s[i]>>) \in Seq(S \ D)
    <3> TAKE i \in 1..Len(s)
    <3>1. s[i] \in S
      OBVIOUS
    <3> QED BY <2>1, <3>1
  <2>3. Len(s) \in Nat
    OBVIOUS
  <2> QED BY <2>2, <2>3
<1> HIDE DEF ss
<1>2. FlattenSeq(ss) \in Seq(S \ D)
  BY <1>1, FlattenType
<1> QED BY <1>2 DEF Without, ss

\* Nothing to leave out of nothing.
LEMMA WithoutEmpty == \A D : Without(<<>>, D) = <<>>
<1> TAKE D
<1>1. [i \in 1..0 |-> IF <<>>[i] \in D THEN <<>> ELSE <<<<>>[i]>>] = <<>>
  OBVIOUS
<1> QED BY <1>1, FlattenEmpty DEF Without

\* A character at the end stays or is left out by itself.
LEMMA WithoutAppend ==
    ASSUME NEW S, NEW s \in Seq(S), NEW e \in S, NEW D
    PROVE  Without(Append(s, e), D) =
              Without(s, D) \o (IF e \in D THEN <<>> ELSE <<e>>)
<1> DEFINE piece(c) == IF c \in D THEN <<>> ELSE <<c>>
           ss == [i \in 1..Len(s) |-> piece(s[i])]
           t == Append(s, e)
           tt == [i \in 1..Len(t) |-> piece(t[i])]
<1>1. \A c \in S : piece(c) \in Seq(S)
  OBVIOUS
<1>2. Len(s) \in Nat /\ \A i \in 1..Len(s) : s[i] \in S
  OBVIOUS
<1>3. t \in Seq(S) /\ Len(t) = Len(s) + 1 /\ t[Len(s) + 1] = e
      /\ \A i \in 1..Len(s) : t[i] = s[i]
  BY AppendProperties
<1>4. Without(s, D) = FlattenSeq(ss) /\ Without(t, D) = FlattenSeq(tt)
  BY DEF Without
<1> HIDE DEF piece, t
<1>5. ss \in Seq(Seq(S)) /\ Len(ss) = Len(s)
      /\ \A i \in 1..Len(s) : ss[i] = piece(s[i])
  BY <1>1, <1>2
<1>6. tt \in Seq(Seq(S)) /\ Len(tt) = Len(s) + 1
      /\ \A i \in 1..(Len(s) + 1) : tt[i] = piece(t[i])
  BY <1>1, <1>2, <1>3
<1> HIDE DEF ss, tt
<1>7. tt = Append(ss, piece(e))
  <2>1. piece(e) \in Seq(S)
    BY <1>1
  <2>2. Append(ss, piece(e)) \in Seq(Seq(S)) /\ Len(Append(ss, piece(e))) = Len(tt)
    BY <1>5, <1>6, <2>1, AppendProperties
  <2>3. ASSUME NEW i \in 1..Len(tt) PROVE tt[i] = Append(ss, piece(e))[i]
    <3>1. CASE i \in 1..Len(s)
      <4>1. Append(ss, piece(e))[i] = ss[i]
        BY <3>1, <1>5, <2>1, AppendProperties
      <4> QED BY <3>1, <4>1, <1>2, <1>3, <1>5, <1>6
    <3>2. CASE i = Len(s) + 1
      <4>1. Append(ss, piece(e))[Len(s) + 1] = piece(e)
        BY <1>5, <2>1, AppendProperties
      <4>2. tt[Len(s) + 1] = piece(e)
        BY <1>2, <1>3, <1>6
      <4> QED BY <3>2, <4>1, <4>2
    <3>3. i \in 1..Len(s) \/ i = Len(s) + 1
      BY <1>2, <1>6
    <3> QED BY ONLY <3>1, <3>2, <3>3
  <2> QED BY <1>6, <2>2, <2>3, SeqEqual
<1>8. FlattenSeq(tt) = FlattenSeq(ss) \o piece(e)
  BY <1>1, <1>5, <1>7, FlattenAppend
<1> QED BY <1>4, <1>8 DEF piece, t

\* The same, as a formula.
LEMMA WithoutAppends ==
    \A S, D : \A s \in Seq(S), e \in S :
        Without(Append(s, e), D) =
            Without(s, D) \o (IF e \in D THEN <<>> ELSE <<e>>)
<1> TAKE S, D
<1> TAKE s \in Seq(S), e \in S
<1> QED BY ONLY s \in Seq(S), e \in S, WithoutAppend

\* What is left of two parts is what is left of each.
LEMMA WithoutConcat ==
    ASSUME NEW S, NEW s \in Seq(S), NEW t \in Seq(S), NEW D
    PROVE  Without(s \o t, D) = Without(s, D) \o Without(t, D)
<1> DEFINE T == {u \in Seq(S) : Without(s \o u, D) = Without(s, D) \o Without(u, D)}
<1>1. <<>> \in T
  <2>1. Without(s, D) \in Seq(S \ D) /\ s \o <<>> = s
    BY WithoutType, ConcatEmptySeq
  <2>2. Without(s, D) \o <<>> = Without(s, D)
    BY <2>1, ConcatEmptySeq
  <2> QED BY <2>1, <2>2, WithoutEmpty
<1>2. ASSUME NEW u \in Seq(S), NEW e \in S, u \in T
      PROVE  Append(u, e) \in T
  <2> DEFINE last == IF e \in D THEN <<>> ELSE <<e>>
  <2>1. s \o Append(u, e) = Append(s \o u, e) /\ s \o u \in Seq(S)
    OBVIOUS
  <2>2. Without(s \o Append(u, e), D) = Without(s \o u, D) \o last
    <3>1. Without(Append(s \o u, e), D) = Without(s \o u, D) \o last
      <4> DEFINE v == s \o u
      <4>1. v \in Seq(S)
        BY <2>1
      <4> HIDE DEF v, T
      <4>2. Without(Append(v, e), D) = Without(v, D) \o last
        BY ONLY <4>1, e \in S, WithoutAppends
      <4> QED BY <4>2 DEF v
    <3> QED BY <2>1, <3>1
  <2>3. Without(Append(u, e), D) = Without(u, D) \o last
    BY ONLY u \in Seq(S), e \in S, WithoutAppends
  <2>4. Without(s \o u, D) = Without(s, D) \o Without(u, D)
    BY <1>2
  <2>5. Without(s, D) \in Seq(S \ D) /\ Without(u, D) \in Seq(S \ D)
        /\ last \in Seq(S \ D)
    <3>1. last \in Seq(S \ D)
      <4>1. CASE e \in D
        BY <4>1
      <4>2. CASE e \notin D
        BY <4>2
      <4> QED BY <4>1, <4>2
    <3> HIDE DEF last
    <3>2. Without(s, D) \in Seq(S \ D)
      BY WithoutType
    <3>3. Without(u, D) \in Seq(S \ D)
      BY WithoutType
    <3> QED BY <3>1, <3>2, <3>3
  <2> HIDE DEF last
  <2>6. (Without(s, D) \o Without(u, D)) \o last
            = Without(s, D) \o (Without(u, D) \o last)
    <3> DEFINE x == Without(s, D)
               y == Without(u, D)
               E == S \ D
    <3>1. x \in Seq(E) /\ y \in Seq(E) /\ last \in Seq(E)
      BY <2>5
    <3> HIDE DEF x, y, E
    <3>2. (x \o y) \o last = x \o (y \o last)
      BY ONLY <3>1, ConcatAssociates, SMTT(30)
    <3> QED BY <3>2 DEF x, y
  <2>7. Without(s \o Append(u, e), D) = Without(s, D) \o Without(Append(u, e), D)
    BY <2>2, <2>3, <2>4, <2>6
  <2> QED BY <2>7
<1>3. \A u \in Seq(S), e \in S : u \in T => Append(u, e) \in T
  BY <1>2
<1>4. \A u \in Seq(S) : u \in T
  <2> HIDE DEF T
  <2> QED BY <1>1, <1>3, SequenceInduction
<1> QED BY <1>4

\* The same, as a formula.
LEMMA WithoutConcats ==
    \A S, D : \A s, t \in Seq(S) :
        Without(s \o t, D) = Without(s, D) \o Without(t, D)
<1> TAKE S, D
<1> TAKE s, t \in Seq(S)
<1> QED BY ONLY s \in Seq(S), t \in Seq(S), WithoutConcat

\* Everything is left out.
LEMMA WithoutAll ==
    ASSUME NEW D, NEW s \in Seq(D)
    PROVE  Without(s, D) = <<>>
<1>1. Without(s, D) \in Seq(D \ D)
  BY WithoutType
<1>2. D \ D = {}
  OBVIOUS
<1>3. \A t \in Seq({}) : t = <<>>
  <2> TAKE t \in Seq({})
  <2>1. Len(t) \in Nat /\ \A i \in 1..Len(t) : t[i] \in {}
    OBVIOUS
  <2>2. Len(t) = 0
    BY <2>1
  <2> QED BY <2>2
<1> QED BY <1>1, <1>2, <1>3

\* Pieces that differ in members of D only.
LEMMA WithoutPieces ==
    ASSUME NEW S, NEW D, NEW ss \in Seq(Seq(S)), NEW tt \in Seq(Seq(S)),
           Len(ss) = Len(tt),
           \A i \in 1..Len(ss) : Without(ss[i], D) = Without(tt[i], D)
    PROVE  Without(FlattenSeq(ss), D) = Without(FlattenSeq(tt), D)
<1> DEFINE P(n) == Without(Upto(ss, n), D) = Without(Upto(tt, n), D)
           T == {n \in 0..Len(ss) : P(n)}
<1>0. Len(ss) \in Nat
  OBVIOUS
<1>1. P(0)
  BY UptoEnds
<1>2. ASSUME NEW n \in 1..Len(ss), P(n - 1) PROVE P(n)
  <2>0. n \in 1..Len(tt) /\ n - 1 \in 0..Len(ss) /\ n - 1 \in 0..Len(tt)
    OBVIOUS
  <2>1. Upto(ss, n) = Upto(ss, n - 1) \o ss[n] /\ Upto(tt, n) = Upto(tt, n - 1) \o tt[n]
    BY <2>0, UptoStep
  <2>2. Upto(ss, n - 1) \in Seq(S) /\ Upto(tt, n - 1) \in Seq(S)
    BY <2>0, UptoType
  <2>3. ss[n] \in Seq(S) /\ tt[n] \in Seq(S)
    BY <2>0
  <2>4. \A u, v \in Seq(S) : Without(u \o v, D) = Without(u, D) \o Without(v, D)
    BY WithoutConcats
  <2>5. /\ Without(Upto(ss, n), D) = Without(Upto(ss, n - 1), D) \o Without(ss[n], D)
        /\ Without(Upto(tt, n), D) = Without(Upto(tt, n - 1), D) \o Without(tt[n], D)
    BY <2>1, <2>2, <2>3, <2>4
  <2>6. Without(ss[n], D) = Without(tt[n], D)
    OBVIOUS
  <2> QED BY <1>2, <2>5, <2>6
<1>3. \A n \in 0..Len(ss) : n \in T
  <2> HIDE DEF P
  <2>1. 0 \in T /\ \A n \in 1..Len(ss) : n - 1 \in T => n \in T
    BY <1>0, <1>1, <1>2
  <2> HIDE DEF T
  <2> QED BY <1>0, <2>1, Induction
<1>4. P(Len(ss))
  BY <1>0, <1>3
<1> QED BY <1>4, UptoEnds

\* What is left out depends on D only where it meets the sequence.
LEMMA WithoutSame ==
    ASSUME NEW S, NEW D, NEW E, NEW s \in Seq(S), S \cap D = S \cap E
    PROVE  Without(s, D) = Without(s, E)
<1>1. \A i \in 1..Len(s) : s[i] \in S
  OBVIOUS
<1>2. \A i \in 1..Len(s) : s[i] \in D <=> s[i] \in E
  BY <1>1
<1> QED BY <1>2 DEF Without

\* What is cut off at the end says nothing, if it is all in D.
LEMMA WithoutRest ==
    ASSUME NEW S, NEW D, NEW s \in Seq(S), NEW k \in 0..Len(s),
           \A i \in (k + 1)..Len(s) : s[i] \in D
    PROVE  Without(SubSeq(s, 1, k), D) = Without(s, D)
<1> DEFINE u == SubSeq(s, 1, k)
           v == SubSeq(s, k + 1, Len(s))
<1>1. u \in Seq(S) /\ v \in Seq(S) /\ v \in Seq(D)
  OBVIOUS
<1>2. s = u \o v
  <2>1. SubSeq(s, 1, k) \o SubSeq(s, k + 1, Len(s)) = SubSeq(s, 1, Len(s))
    <3>1. 1 \in 1..Len(s) + 1 /\ k \in (1 - 1)..Len(s) /\ Len(s) \in k..Len(s)
      OBVIOUS
    <3> QED BY <3>1, ConcatAdjacentSubSeq
  <2> QED BY <2>1, SubSeqFull
<1> HIDE DEF u, v
<1>3. Without(u \o v, D) = Without(u, D) \o Without(v, D)
  BY <1>1, WithoutConcat
<1>4. Without(v, D) = <<>>
  BY <1>1, WithoutAll
<1>5. Without(u, D) \o <<>> = Without(u, D)
  <2>1. Without(u, D) \in Seq(S \ D)
    BY <1>1, WithoutType
  <2> QED BY <2>1, ConcatEmptySeq
<1>6. Without(u, D) = Without(s, D)
  BY <1>2, <1>3, <1>4, <1>5
<1> QED BY <1>6 DEF u

-----------------------------------------------------------------------------
(* Where a text is cut. *)

\* LastOf is 0 or a place of a member of D, and none is behind it (rposition,
\* rfind).
LEMMA LastOfPlace ==
    ASSUME NEW S, NEW s \in Seq(S), NEW D
    PROVE  /\ LastOf(s, D) \in 0..Len(s)
           /\ LastOf(s, D) > 0 => s[LastOf(s, D)] \in D
           /\ \A i \in (LastOf(s, D) + 1)..Len(s) : s[i] \notin D
<1> DEFINE I == {i \in 1..Len(s) : s[i] \in D}
<1>0. Len(s) \in Nat
  OBVIOUS
<1>1. LastOf(s, D) = IF I # {} THEN Max(I) ELSE 0
  BY DEF LastOf, SelectLastInSeq
<1>2. CASE I = {}
  <2>1. LastOf(s, D) = 0
    BY <1>1, <1>2
  <2> QED BY <1>0, <1>2, <2>1
<1>3. CASE I # {}
  <2>1. I \in SUBSET (1..Len(s))
    OBVIOUS
  <2>2. Max(I) \in I /\ \A i \in I : i <= Max(I)
    <3> HIDE DEF I
    <3> QED BY <1>0, <1>3, <2>1, GreatestNatural
  <2>3. LastOf(s, D) = Max(I)
    BY <1>1, <1>3
  <2> DEFINE m == Max(I)
  <2> HIDE DEF m
  <2>4. m \in 1..Len(s) /\ s[m] \in D
    BY <2>2 DEF m
  <2>5. ASSUME NEW i \in (m + 1)..Len(s) PROVE s[i] \notin D
    <3>1. i \in 1..Len(s) /\ ~(i <= m)
      BY <1>0, <2>4
    <3>2. i \notin I
      BY <2>2, <3>1 DEF m
    <3> QED BY <3>1, <3>2
  <2>6. m \in 0..Len(s)
    BY <2>4
  <2> HIDE DEF I
  <2> QED BY <2>3, <2>4, <2>5, <2>6 DEF m
<1> QED BY <1>2, <1>3

\* trim_end_matches cuts newlines off the end and nothing else.
LEMMA TrimEndKeeps ==
    ASSUME NEW s \in Seq(Chars)
    PROVE  /\ TrimEnd(s) \in Seq(Chars)
           /\ Len(TrimEnd(s)) <= Len(s)
           /\ \A D : "\n" \in D => Without(TrimEnd(s), D) = Without(s, D)
<1> DEFINE k == LastOf(s, Chars \ {"\n"})
<1>1. k \in 0..Len(s) /\ \A i \in (k + 1)..Len(s) : s[i] \notin Chars \ {"\n"}
  BY LastOfPlace
<1>2. TrimEnd(s) = SubSeq(s, 1, k)
  BY DEF TrimEnd
<1> HIDE DEF k
<1>3. \A i \in (k + 1)..Len(s) : s[i] = "\n"
  <2> TAKE i \in (k + 1)..Len(s)
  <2>1. s[i] \in Chars
    BY <1>1
  <2>2. s[i] \notin Chars \ {"\n"}
    BY <1>1
  <2> QED BY <2>1, <2>2
<1>4. SubSeq(s, 1, k) \in Seq(Chars) /\ Len(SubSeq(s, 1, k)) <= Len(s)
  BY <1>1
<1>5. ASSUME NEW D, "\n" \in D
      PROVE  Without(SubSeq(s, 1, k), D) = Without(s, D)
  BY <1>1, <1>3, <1>5, WithoutRest
<1> QED BY <1>2, <1>4, <1>5

\* trim_start_matches skips spaces and nothing else.
LEMMA TrimStartPlace ==
    ASSUME NEW text \in Seq(Chars), NEW i \in 1..(Len(text) + 1)
    PROVE  /\ TrimStart(text, i) \in i..(Len(text) + 1)
           /\ \A j \in i..(TrimStart(text, i) - 1) : text[j] = " "
<1> DEFINE I == {j \in i..(Len(text) + 1) : j <= Len(text) => text[j] # " "}
<1>0. Len(text) \in Nat
  OBVIOUS
<1>1. I \in SUBSET Nat /\ I # {}
  <2>1. \A j \in i..(Len(text) + 1) : j \in Nat
    BY <1>0
  <2>2. Len(text) + 1 \in i..(Len(text) + 1) /\ ~(Len(text) + 1 <= Len(text))
    BY <1>0
  <2>3. Len(text) + 1 \in I
    BY <2>2
  <2> QED BY <2>1, <2>3
<1>2. Min(I) \in I /\ \A j \in I : Min(I) <= j
  <2> HIDE DEF I
  <2> QED BY <1>1, LeastIsMin
<1>3. TrimStart(text, i) = Min(I)
  BY DEF TrimStart
<1> DEFINE m == Min(I)
<1> HIDE DEF m
<1>4. m \in i..(Len(text) + 1)
  BY <1>2 DEF m
<1>5. ASSUME NEW j \in i..(m - 1) PROVE text[j] = " "
  <2>1. j \in i..(Len(text) + 1) /\ ~(m <= j) /\ j <= Len(text)
    BY <1>0, <1>4
  <2>2. j \notin I
    BY <1>2, <2>1 DEF m
  <2> QED BY <2>1, <2>2
<1> HIDE DEF I
<1> QED BY <1>3, <1>4, <1>5 DEF m

\* A text is cut within the window and never before its first character.
LEMMA BreakPlace ==
    ASSUME NEW S, NEW window \in Seq(S), window # <<>>
    PROVE  BreakAt(window) \in 1..Len(window)
<1>1. LastOf(window, {"\n"}) \in 0..Len(window)
  BY LastOfPlace
<1>2. LastOf(window, WhiteSpace) \in 0..Len(window)
  BY LastOfPlace
<1>3. Len(window) \in Nat \ {0}
  OBVIOUS
<1> QED BY <1>1, <1>2, <1>3 DEF BreakAt

\* What is left of max_chars for text is at least LeastChars, and leaves room for
\* the prefix wherever max_chars has any (chunker.rs:146-148).
LEMMA InnerMaxType ==
    /\ InnerMax \in Nat \ {0}
    /\ InnerMax >= LeastChars
    /\ NumberChunks /\ MaxChars >= LeastChars + PrefixBudget =>
          InnerMax <= MaxChars - PrefixBudget
    /\ ~NumberChunks /\ MaxChars >= LeastChars => InnerMax <= MaxChars
<1>1. /\ MaxLines \in Nat \ {0} /\ MaxChars \in Nat \ {0} /\ LeastChars \in Nat \ {0}
      /\ PrefixBudget \in Nat /\ BurstCap \in Nat /\ NumberChunks \in BOOLEAN
  BY ChunkAssumption DEF ChunkAssumption
<1> QED BY <1>1 DEF InnerMax

\* What the split trims is white space.
LEMMA WhiteSpaces == " " \in WhiteSpace /\ "\n" \in WhiteSpace
BY Zenon DEF WhiteSpace

-----------------------------------------------------------------------------
(* Split. *)

\* Characters, and what stands for a split that panicked.
AnyChar == Chars \cup {"torn"}

\* The bodies that are no longer than a chunk may be.
Fitting == {b \in Seq(Chars) : Len(b) <= InnerMax}

\* What the recursive function behind Split says of place i.
SplitStep(text, f, i) ==
    IF i > Len(text) THEN <<>>
    ELSE IF Len(text) < i + InnerMax THEN <<TrimEnd(From(text, i))>>
    ELSE LET window == SubSeq(text, i, i + InnerMax - 1)
             k == i + BreakAt(window)
         IN  IF CutInside(window) THEN <<Torn>>
             ELSE <<TrimEnd(SubSeq(text, i, k - 1))>> \o f[TrimStart(text, k)]

\* Where the text goes on behind the body cut at i.
CutPlace(text, i) == i + BreakAt(SubSeq(text, i, i + InnerMax - 1))

\* The cut is behind i and within the text, and so is where it goes on.
LEMMA CutPlaceRange ==
    ASSUME NEW text \in Seq(Chars), NEW i \in 1..Len(text),
           ~(Len(text) < i + InnerMax)
    PROVE  /\ CutPlace(text, i) \in (i + 1)..(i + InnerMax)
           /\ CutPlace(text, i) \in (i + 1)..Len(text)
           /\ TrimStart(text, CutPlace(text, i))
                  \in CutPlace(text, i)..(Len(text) + 1)
           /\ \A j \in CutPlace(text, i)..(TrimStart(text, CutPlace(text, i)) - 1) :
                  text[j] = " "
<1> DEFINE window == SubSeq(text, i, i + InnerMax - 1)
           k == CutPlace(text, i)
<1>0. Len(text) \in Nat /\ InnerMax \in Nat \ {0}
  BY InnerMaxType
<1>1. window \in Seq(Chars) /\ Len(window) = InnerMax
  BY <1>0
<1> HIDE DEF window
<1>2. window # <<>>
  BY <1>0, <1>1
<1>3. BreakAt(window) \in 1..InnerMax
  BY <1>1, <1>2, BreakPlace
<1>4. k = i + BreakAt(window)
  BY DEF CutPlace, window
<1> HIDE DEF k
<1>5. k \in (i + 1)..(i + InnerMax) /\ k \in (i + 1)..Len(text)
  BY <1>0, <1>3, <1>4
<1>6. k \in 1..(Len(text) + 1)
  BY <1>0, <1>5
<1>7. TrimStart(text, k) \in k..(Len(text) + 1)
      /\ \A j \in k..(TrimStart(text, k) - 1) : text[j] = " "
  BY <1>6, TrimStartPlace
<1> QED BY <1>5, <1>7 DEF k

\* At place i the text is over, or its rest fits, or the cut is inside a
\* character, or it is cut and goes on.
LEMMA SplitStepCases ==
    ASSUME NEW text \in Seq(Chars), NEW f, NEW i \in 1..(Len(text) + 1)
    PROVE  \/ i = Len(text) + 1 /\ SplitStep(text, f, i) = <<>>
           \/ /\ i \in 1..Len(text) /\ Len(text) < i + InnerMax
              /\ SplitStep(text, f, i) = <<TrimEnd(From(text, i))>>
           \/ /\ i \in 1..Len(text) /\ ~(Len(text) < i + InnerMax)
              /\ SplitStep(text, f, i) = <<Torn>>
           \/ /\ i \in 1..Len(text) /\ ~(Len(text) < i + InnerMax)
              /\ SplitStep(text, f, i) =
                    <<TrimEnd(SubSeq(text, i, CutPlace(text, i) - 1))>>
                        \o f[TrimStart(text, CutPlace(text, i))]
<1>0. Len(text) \in Nat /\ InnerMax \in Nat
  BY InnerMaxType
<1>1. i > Len(text) => i = Len(text) + 1
  BY <1>0
<1>2. ~(i > Len(text)) => i \in 1..Len(text)
  BY <1>0
<1> QED BY <1>1, <1>2, Zenon DEF SplitStep, CutPlace

\* The bodies cut at i depend on those cut behind i only.
LEMMA SplitStepReads ==
    ASSUME NEW text \in Seq(Chars), NEW f, NEW g, NEW i \in 1..(Len(text) + 1),
           \A j \in (i + 1)..(Len(text) + 1) : f[j] = g[j]
    PROVE  SplitStep(text, f, i) = SplitStep(text, g, i)
<1>1. CASE i > Len(text) \/ Len(text) < i + InnerMax
  BY <1>1 DEF SplitStep
<1>2. CASE ~(i > Len(text)) /\ ~(Len(text) < i + InnerMax)
  <2>1. i \in 1..Len(text) /\ Len(text) \in Nat
    BY <1>2
  <2>2. TrimStart(text, CutPlace(text, i)) \in (i + 1)..(Len(text) + 1)
    <3>1. CutPlace(text, i) \in (i + 1)..Len(text)
          /\ TrimStart(text, CutPlace(text, i)) \in CutPlace(text, i)..(Len(text) + 1)
      BY <1>2, <2>1, CutPlaceRange
    <3> QED BY <2>1, <3>1
  <2>3. f[TrimStart(text, CutPlace(text, i))] = g[TrimStart(text, CutPlace(text, i))]
    BY <2>2
  <2> QED BY <1>2, <2>3, Zenon DEF SplitStep, CutPlace
<1> QED BY <1>1, <1>2

\* The bodies cut at i are sequences, if those behind them are.
LEMMA SplitStepType ==
    ASSUME NEW text \in Seq(Chars), NEW i \in 1..(Len(text) + 1), NEW f,
           \A j \in (i + 1)..(Len(text) + 1) : f[j] \in Seq(Seq(AnyChar))
    PROVE  SplitStep(text, f, i) \in Seq(Seq(AnyChar))
<1>0. Len(text) \in Nat
  OBVIOUS
<1>1. \A s \in Seq(Chars) : s \in Seq(AnyChar) /\ <<s>> \in Seq(Seq(AnyChar))
  BY DEF AnyChar
<1>2. \A s \in Seq(Chars) : TrimEnd(s) \in Seq(Chars)
  BY TrimEndKeeps
<1>3. <<Torn>> \in Seq(Seq(AnyChar))
  BY DEF Torn, AnyChar
<1>4. CASE SplitStep(text, f, i) = <<>>
  <2>1. <<>> \in Seq(Seq(AnyChar))
    BY EmptySeq
  <2> QED BY ONLY <1>4, <2>1
<1>5. CASE i \in 1..Len(text) /\ SplitStep(text, f, i) = <<TrimEnd(From(text, i))>>
  <2>1. From(text, i) \in Seq(Chars)
    BY <1>0, <1>5 DEF From
  <2>2. <<TrimEnd(From(text, i))>> \in Seq(Seq(AnyChar))
    BY <2>1, <1>1, <1>2
  <2> QED BY <1>5, <2>2
<1>6. CASE SplitStep(text, f, i) = <<Torn>>
  BY <1>3, <1>6
<1>7. CASE /\ i \in 1..Len(text) /\ ~(Len(text) < i + InnerMax)
           /\ SplitStep(text, f, i) =
                    <<TrimEnd(SubSeq(text, i, CutPlace(text, i) - 1))>>
                        \o f[TrimStart(text, CutPlace(text, i))]
  <2> DEFINE k == CutPlace(text, i)
             j == TrimStart(text, k)
  <2>1. k \in (i + 1)..Len(text) /\ j \in k..(Len(text) + 1)
    BY <1>7, CutPlaceRange
  <2> HIDE DEF j
  <2>2. f[j] \in Seq(Seq(AnyChar))
    <3>1. j \in (i + 1)..(Len(text) + 1)
      BY <1>0, <2>1
    <3> QED BY <3>1
  <2> HIDE DEF k
  <2>3. SubSeq(text, i, k - 1) \in Seq(Chars)
    BY <1>0, <1>7, <2>1
  <2>4. <<TrimEnd(SubSeq(text, i, k - 1))>> \in Seq(Seq(AnyChar))
    BY <2>3, <1>1, <1>2
  <2> DEFINE b == <<TrimEnd(SubSeq(text, i, k - 1))>>
  <2> HIDE DEF b
  <2>5. b \o f[j] \in Seq(Seq(AnyChar))
    <3>1. \A u, v \in Seq(Seq(AnyChar)) : u \o v \in Seq(Seq(AnyChar))
      OBVIOUS
    <3> QED BY ONLY <3>1, <2>2, <2>4 DEF b
  <2> QED BY <1>7, <2>5 DEF b, j, k
<1> QED BY <1>4, <1>5, <1>6, <1>7, SplitStepCases

\* The recursive function behind Split exists, and Split is its value at 1.
LEMMA SplitExists ==
    ASSUME NEW text \in Seq(Chars)
    PROVE  \E f \in [1..(Len(text) + 1) -> Seq(Seq(AnyChar))] :
              \A i \in 1..(Len(text) + 1) : f[i] = SplitStep(text, f, i)
<1> DEFINE N == Len(text) + 1
           B == Seq(Seq(AnyChar))
           P(n) == \E f \in [1..N -> B] : \A i \in (N - n)..N : f[i] = SplitStep(text, f, i)
           T == {n \in 0..(N - 1) : P(n)}
<1>0. N \in Nat \ {0} /\ Len(text) \in Nat
  OBVIOUS
<1>1. P(0)
  <2> DEFINE f == [i \in 1..N |-> <<>>]
  <2>1. f \in [1..N -> B]
    OBVIOUS
  <2>2. N > Len(text) /\ N \in 1..N
    BY <1>0
  <2>3. f[N] = SplitStep(text, f, N)
    <3>1. f[N] = <<>>
      BY <2>2
    <3>2. SplitStep(text, f, N) = <<>>
      BY <2>2 DEF SplitStep
    <3> QED BY <3>1, <3>2
  <2>4. \A i \in (N - 0)..N : i = N
    BY <1>0
  <2> HIDE DEF f, N
  <2> QED BY <2>1, <2>3, <2>4
<1>2. ASSUME NEW n \in 1..(N - 1), P(n - 1) PROVE P(n)
  <2>1. PICK f \in [1..N -> B] :
            \A i \in (N - (n - 1))..N : f[i] = SplitStep(text, f, i)
    BY <1>2
  <2> DEFINE p == N - n
             b == SplitStep(text, f, p)
             g == [f EXCEPT ![p] = b]
  <2>2. p \in 1..N /\ p + 1 = N - (n - 1)
    BY <1>0
  <2>3. b \in B
    <3>1. \A j \in (p + 1)..(Len(text) + 1) : f[j] \in B
      BY <2>2
    <3> HIDE DEF p
    <3> QED BY <2>2, <3>1, SplitStepType
  <2> HIDE DEF p, b, N
  <2>4. g \in [1..N -> B] /\ g[p] = b /\ \A j \in 1..N : j # p => g[j] = f[j]
    BY <2>2, <2>3
  <2> HIDE DEF g
  <2>5. ASSUME NEW i \in p..N PROVE g[i] = SplitStep(text, g, i)
    <3>1. i \in 1..(Len(text) + 1) /\ \A j \in (i + 1)..(Len(text) + 1) : g[j] = f[j]
      BY <1>0, <2>2, <2>4 DEF N
    <3>2. SplitStep(text, g, i) = SplitStep(text, f, i)
      BY <3>1, SplitStepReads
    <3>3. CASE i = p
      BY <3>2, <3>3, <2>4 DEF b
    <3>4. CASE i # p
      <4>1. i \in (N - (n - 1))..N /\ i \in 1..N
        BY <1>0, <2>2, <3>4
      <4> QED BY <4>1, <2>1, <2>4, <3>2, <3>4
    <3> QED BY <3>3, <3>4
  <2> QED BY <2>4, <2>5 DEF p
<1>3. \A n \in 0..(N - 1) : n \in T
  <2> HIDE DEF P, N
  <2>1. 0 \in T /\ \A n \in 1..(N - 1) : n - 1 \in T => n \in T
    BY <1>0, <1>1, <1>2
  <2>2. N - 1 \in Nat
    BY <1>0
  <2> HIDE DEF T
  <2> QED BY <2>1, <2>2, Induction
<1>4. P(N - 1)
  <2> HIDE DEF P, N
  <2> QED BY <1>0, <1>3
<1>5. N - (N - 1) = 1
  BY <1>0
<1> QED BY <1>4, <1>5

\* Split is the value at 1 of a function with the recursion of the source's loop.
LEMMA SplitUnfolds ==
    ASSUME NEW text \in Seq(Chars)
    PROVE  \E f : /\ \A i \in 1..(Len(text) + 1) : f[i] = SplitStep(text, f, i)
                  /\ Split(text) = f[1]
<1> DEFINE h(f) == [i \in 1..(Len(text) + 1) |-> SplitStep(text, f, i)]
           from == CHOOSE f : f = h(f)
<1>1. \E f : f = h(f)
  <2>1. PICK f \in [1..(Len(text) + 1) -> Seq(Seq(AnyChar))] :
            \A i \in 1..(Len(text) + 1) : f[i] = SplitStep(text, f, i)
    BY SplitExists
  <2>2. f = h(f)
    BY <2>1
  <2> HIDE DEF h
  <2> QED BY <2>2
<1>2. from = h(from)
  <2> HIDE DEF h
  <2> QED BY <1>1
<1>3. Split(text) = from[1]
  BY Zenon DEF Split, SplitStep
<1>4. \A i \in 1..(Len(text) + 1) : from[i] = SplitStep(text, from, i)
  <2> HIDE DEF from
  <2> QED BY <1>2
<1> HIDE DEF from
<1> QED BY <1>3, <1>4

\* The bodies cut from place i on say what the text does from there, without D.
Says(text, D, i, bodies) ==
    \/ bodies # <<>> /\ Last(bodies) = Torn
    \/ /\ bodies \in Seq(Fitting)
       /\ Without(FlattenSeq(bodies), D) = Without(From(text, i), D)

\* One body more at the front.
LEMMA FlattenCons ==
    ASSUME NEW S, NEW b \in Seq(S), NEW bs \in Seq(Seq(S))
    PROVE  FlattenSeq(<<b>> \o bs) = b \o FlattenSeq(bs)
<1>1. <<b>> \in Seq(Seq(S)) /\ <<>> \in Seq(Seq(S)) /\ <<b>> = Append(<<>>, b)
  OBVIOUS
<1>2. FlattenSeq(<<b>> \o bs) = FlattenSeq(<<b>>) \o FlattenSeq(bs)
  BY <1>1, FlattenConcat
<1>3. FlattenSeq(Append(<<>>, b)) = FlattenSeq(<<>>) \o b
  BY <1>1, FlattenAppend
<1>4. <<>> \o b = b
  BY ConcatEmptySeq
<1>5. FlattenSeq(<<b>>) = b
  BY <1>1, <1>3, <1>4, FlattenEmpty
<1> QED BY <1>2, <1>5

\* A text from i on is what is cut at k, what is skipped up to j, and the rest.
LEMMA WithoutSkipped ==
    ASSUME NEW S, NEW text \in Seq(S), NEW D, NEW i \in 1..Len(text),
           NEW k \in (i + 1)..Len(text), NEW j \in k..(Len(text) + 1),
           \A l \in k..(j - 1) : text[l] \in D
    PROVE  Without(From(text, i), D)
              = Without(SubSeq(text, i, k - 1), D) \o Without(From(text, j), D)
<1> DEFINE u == SubSeq(text, i, k - 1)
           v == SubSeq(text, k, j - 1)
           w == SubSeq(text, j, Len(text))
<1>0. Len(text) \in Nat /\ k - 1 + 1 = k /\ j - 1 + 1 = j
  OBVIOUS
<1>1. u \in Seq(S) /\ w \in Seq(S)
  BY <1>0
<1>2. v \in Seq(D) /\ v \in Seq(S)
  BY <1>0
<1>3. u \o v = SubSeq(text, i, j - 1)
  <2>1. i \in 1..(Len(text) + 1) /\ k - 1 \in (i - 1)..Len(text)
        /\ j - 1 \in (k - 1)..Len(text)
    BY <1>0
  <2>2. SubSeq(text, i, k - 1) \o SubSeq(text, k - 1 + 1, j - 1) = SubSeq(text, i, j - 1)
    BY <2>1, ConcatAdjacentSubSeq
  <2> QED BY <2>2, <1>0
<1>4. (u \o v) \o w = From(text, i)
  <2>1. i \in 1..(Len(text) + 1) /\ j - 1 \in (i - 1)..Len(text)
        /\ Len(text) \in (j - 1)..Len(text)
    BY <1>0
  <2>2. SubSeq(text, i, j - 1) \o SubSeq(text, j - 1 + 1, Len(text))
            = SubSeq(text, i, Len(text))
    BY <2>1, ConcatAdjacentSubSeq
  <2> QED BY <2>2, <1>0, <1>3 DEF From
<1>5. w = From(text, j)
  BY DEF From
<1> HIDE DEF u, v, w
<1>6. Without(u \o v, D) = Without(u, D)
  <2>1. Without(u \o v, D) = Without(u, D) \o Without(v, D)
    <3>1. u \in Seq(S) /\ v \in Seq(S)
      BY <1>1, <1>2
    <3> QED BY ONLY <3>1, WithoutConcats
  <2>2. Without(v, D) = <<>>
    BY <1>2, WithoutAll
  <2>3. Without(u, D) \in Seq(S \ D)
    BY <1>1, WithoutType
  <2>4. Without(u, D) \o <<>> = Without(u, D)
    BY <2>3, ConcatEmptySeq
  <2> QED BY <2>1, <2>2, <2>4
<1>7. Without((u \o v) \o w, D) = Without(u \o v, D) \o Without(w, D)
  <2>1. u \o v \in Seq(S)
    BY <1>1, <1>2, ConcatProperties
  <2>2. w \in Seq(S)
    BY <1>1
  <2> QED BY ONLY <2>1, <2>2, WithoutConcats
<1> QED BY <1>4, <1>5, <1>6, <1>7 DEF u

\* At the end of the text there is nothing more to say.
LEMMA SplitEnd ==
    ASSUME NEW text \in Seq(Chars), NEW D
    PROVE  Says(text, D, Len(text) + 1, <<>>)
<1>1. Len(text) + 1 \in Int /\ Len(text) \in Int /\ Len(text) < Len(text) + 1
  OBVIOUS
<1>2. From(text, Len(text) + 1) = <<>>
  BY <1>1, SubSeqEmpty DEF From
<1>3. <<>> \in Seq(Fitting)
  BY EmptySeq
<1> QED BY <1>2, <1>3, FlattenEmpty DEF Says

\* A body is what trim_end_matches leaves of a text that fits.
LEMMA TrimEndFits ==
    ASSUME NEW s \in Seq(Chars), Len(s) <= InnerMax
    PROVE  TrimEnd(s) \in Fitting /\ TrimEnd(s) \in Seq(Chars)
<1>1. TrimEnd(s) \in Seq(Chars) /\ Len(TrimEnd(s)) <= Len(s)
  BY TrimEndKeeps
<1>2. Len(s) \in Nat /\ InnerMax \in Nat
  BY InnerMaxType
<1> DEFINE b == TrimEnd(s)
           m == InnerMax
<1>3. b \in Seq(Chars) /\ Len(b) <= Len(s) /\ Len(s) <= m
  BY <1>1
<1> HIDE DEF b, m
<1>4. Len(b) <= m
  <2>1. Len(b) \in Nat /\ Len(s) \in Nat /\ m \in Nat
    BY <1>2, <1>3 DEF m
  <2> QED BY <2>1, <1>3
<1> QED BY <1>3, <1>4 DEF b, m, Fitting

\* A rest that fits is said by one body.
LEMMA SplitLast ==
    ASSUME NEW text \in Seq(Chars), NEW i \in 1..Len(text), NEW D,
           WhiteSpace \subseteq D, Len(text) < i + InnerMax
    PROVE  Says(text, D, i, <<TrimEnd(From(text, i))>>)
<1> DEFINE s == From(text, i)
           b == TrimEnd(s)
<1>1. s \in Seq(Chars) /\ Len(s) = Len(text) - i + 1
  BY DEF From
<1>2. Len(s) <= InnerMax
  <2>1. InnerMax \in Nat /\ Len(text) \in Nat
    BY InnerMaxType
  <2> DEFINE m == InnerMax
  <2>2. m \in Nat /\ Len(text) < i + m
    BY <2>1
  <2> HIDE DEF m, s
  <2>3. Len(s) <= m
    BY <1>1, <2>1, <2>2
  <2> QED BY <2>3 DEF m
<1> HIDE DEF s
<1>3. b \in Fitting /\ b \in Seq(Chars)
  BY <1>1, <1>2, TrimEndFits
<1>4. Without(b, D) = Without(s, D)
  <2>1. "\n" \in D
    BY WhiteSpaces, Zenon
  <2> QED BY <1>1, <2>1, TrimEndKeeps
<1> HIDE DEF b
<1>5. <<b>> \in Seq(Fitting)
  BY <1>3
<1>6. FlattenSeq(<<b>>) = b
  <2>1. <<b>> = <<b>> \o <<>> /\ <<>> \in Seq(Seq(Chars))
    OBVIOUS
  <2>2. FlattenSeq(<<b>> \o <<>>) = b \o FlattenSeq(<<>>)
    BY ONLY <1>3, <2>1, FlattenCons
  <2>3. b \o <<>> = b
    BY <1>3, ConcatEmptySeq
  <2> QED BY <2>1, <2>2, <2>3, FlattenEmpty
<1>7. Without(FlattenSeq(<<b>>), D) = Without(From(text, i), D)
  BY <1>4, <1>6 DEF s
<1> QED BY <1>5, <1>7 DEF Says, b, s

\* What is cut off is no longer than the window.
LEMMA CutLength ==
    ASSUME NEW S, NEW text \in Seq(S), NEW i \in 1..Len(text), NEW m \in Nat,
           NEW k \in (i + 1)..(i + m), k <= Len(text)
    PROVE  SubSeq(text, i, k - 1) \in Seq(S) /\ Len(SubSeq(text, i, k - 1)) <= m
<1>1. \A l \in i..(k - 1) : text[l] \in S
  OBVIOUS
<1>2. /\ SubSeq(text, i, k - 1) \in Seq(S)
      /\ Len(SubSeq(text, i, k - 1)) = IF i <= k - 1 THEN k - 1 - i + 1 ELSE 0
  <2>1. i \in Int /\ k - 1 \in Int
    OBVIOUS
  <2> QED BY <1>1, <2>1, SubSeqProperties
<1> QED BY <1>2

\* A body at the front and the bodies that say the rest say the whole.
LEMMA SplitMore ==
    ASSUME NEW text \in Seq(Chars), NEW i \in 1..Len(text), NEW D, NEW bs,
           WhiteSpace \subseteq D, ~(Len(text) < i + InnerMax),
           Says(text, D, TrimStart(text, CutPlace(text, i)), bs),
           bs \in Seq(Seq(AnyChar))
    PROVE  Says(text, D, i, <<TrimEnd(SubSeq(text, i, CutPlace(text, i) - 1))>> \o bs)
<1> DEFINE k == CutPlace(text, i)
           j == TrimStart(text, k)
           s == SubSeq(text, i, k - 1)
           b == TrimEnd(s)
           m == InnerMax
<1>0. \A l \in k..(j - 1) : text[l] = " "
  BY CutPlaceRange
<1>1. /\ k \in (i + 1)..(i + m) /\ k \in (i + 1)..Len(text)
      /\ j \in k..(Len(text) + 1)
  BY CutPlaceRange
<1>2. Says(text, D, j, bs)
  OBVIOUS
<1>3. m \in Nat /\ Len(text) \in Nat
  BY InnerMaxType
<1> HIDE DEF k, j, m
<1>4. s \in Seq(Chars) /\ Len(s) <= m
  <2>1. k \in (i + 1)..(i + m) /\ k <= Len(text)
    <3> HIDE DEF b, s
    <3>1. k <= Len(text)
      BY <1>1, <1>3
    <3> QED BY ONLY <1>1, <3>1
  <2> QED BY <1>3, <2>1, CutLength
<1>5. Without(From(text, i), D) = Without(s, D) \o Without(From(text, j), D)
  <2>1. \A l \in k..(j - 1) : text[l] \in D
    <3>1. " " \in D
      BY WhiteSpaces, Zenon
    <3> QED BY <1>0, <3>1
  <2> HIDE DEF b
  <2> QED BY <1>1, <2>1, WithoutSkipped
<1> HIDE DEF s
<1>6. b \in Fitting /\ b \in Seq(Chars)
  BY <1>4, TrimEndFits DEF m
<1>7. Without(b, D) = Without(s, D)
  <2>1. "\n" \in D
    BY WhiteSpaces, Zenon
  <2> QED BY <1>4, <2>1, TrimEndKeeps
<1> HIDE DEF b
<1>8. CASE bs # <<>> /\ Last(bs) = Torn
  <2>1. <<b>> \in Seq(Seq(AnyChar))
    <3>1. b \in Seq(AnyChar)
      BY <1>6 DEF AnyChar
    <3> QED BY <3>1
  <2>2. <<b>> \o bs # <<>> /\ Last(<<b>> \o bs) = Last(bs)
    <3>1. \A u, v \in Seq(Seq(AnyChar)) :
              v # <<>> => u \o v # <<>> /\ Last(u \o v) = Last(v)
      BY DEF Last
    <3> QED BY ONLY <2>1, <3>1, <1>8, bs \in Seq(Seq(AnyChar))
  <2>3. Says(text, D, i, <<b>> \o bs)
    BY <1>8, <2>2 DEF Says
  <2> QED BY <2>3 DEF b, s, k
<1>9. CASE bs \in Seq(Fitting) /\ Without(FlattenSeq(bs), D) = Without(From(text, j), D)
  <2>1. bs \in Seq(Seq(Chars))
    <3>1. Fitting \subseteq Seq(Chars)
      BY DEF Fitting
    <3> QED BY ONLY <1>9, <3>1, SeqMonotonic
  <2>2. FlattenSeq(<<b>> \o bs) = b \o FlattenSeq(bs)
    BY ONLY <1>6, <2>1, FlattenCons
  <2>3. Without(b \o FlattenSeq(bs), D) = Without(b, D) \o Without(FlattenSeq(bs), D)
    <3>1. FlattenSeq(bs) \in Seq(Chars) /\ b \in Seq(Chars)
      BY ONLY <1>6, <2>1, FlattenType
    <3> QED BY ONLY <3>1, WithoutConcats
  <2>4. <<b>> \o bs \in Seq(Fitting)
    BY ONLY <1>6, <1>9
  <2>5. Without(FlattenSeq(<<b>> \o bs), D) = Without(From(text, i), D)
    BY <1>5, <1>7, <1>9, <2>2, <2>3
  <2>6. Says(text, D, i, <<b>> \o bs)
    BY <2>4, <2>5 DEF Says
  <2> QED BY <2>6 DEF b, s, k
<1> QED BY <1>2, <1>8, <1>9 DEF Says

\* The bodies cut at i say the text from i, if those behind it do.
LEMMA SplitStepSays ==
    ASSUME NEW text \in Seq(Chars), NEW i \in 1..(Len(text) + 1), NEW f,
           NEW D, WhiteSpace \subseteq D,
           \A j \in (i + 1)..(Len(text) + 1) :
              f[j] \in Seq(Seq(AnyChar)) /\ Says(text, D, j, f[j])
    PROVE  Says(text, D, i, SplitStep(text, f, i))
<1>1. CASE i = Len(text) + 1 /\ SplitStep(text, f, i) = <<>>
  <2>1. Says(text, D, Len(text) + 1, <<>>)
    BY SplitEnd
  <2> QED BY ONLY <1>1, <2>1
<1>2. CASE /\ i \in 1..Len(text) /\ Len(text) < i + InnerMax
           /\ SplitStep(text, f, i) = <<TrimEnd(From(text, i))>>
  <2>1. Says(text, D, i, <<TrimEnd(From(text, i))>>)
    BY <1>2, SplitLast
  <2> QED BY ONLY <1>2, <2>1
<1>3. CASE SplitStep(text, f, i) = <<Torn>>
  <2>1. <<Torn>> # <<>> /\ Last(<<Torn>>) = Torn
    BY DEF Last
  <2>2. Says(text, D, i, <<Torn>>)
    BY ONLY <2>1 DEF Says
  <2> QED BY ONLY <1>3, <2>2
<1>4. CASE /\ i \in 1..Len(text) /\ ~(Len(text) < i + InnerMax)
           /\ SplitStep(text, f, i) =
                    <<TrimEnd(SubSeq(text, i, CutPlace(text, i) - 1))>>
                        \o f[TrimStart(text, CutPlace(text, i))]
  <2> DEFINE k == CutPlace(text, i)
             j == TrimStart(text, k)
  <2>1. k \in (i + 1)..Len(text) /\ j \in k..(Len(text) + 1)
    BY <1>4, CutPlaceRange
  <2>2. j \in (i + 1)..(Len(text) + 1)
    <3> HIDE DEF k, j
    <3> Len(text) \in Nat
      OBVIOUS
    <3> QED BY <2>1
  <2>3. f[j] \in Seq(Seq(AnyChar)) /\ Says(text, D, j, f[j])
    <3> HIDE DEF j
    <3> QED BY <2>2
  <2>4. Says(text, D, i, <<TrimEnd(SubSeq(text, i, CutPlace(text, i) - 1))>> \o f[j])
    BY <1>4, <2>3, SplitMore
  <2> QED BY ONLY <1>4, <2>4
<1> QED BY <1>1, <1>2, <1>3, <1>4, SplitStepCases

\* split_into_char_chunks, whatever the text: unless a cut falls inside a
\* character, every body fits, and together they say all of the text but for
\* the white space cut off at their ends (chunker.rs:235-273).
THEOREM SplitSays ==
    ASSUME NEW text \in Seq(Chars), NEW D, WhiteSpace \subseteq D
    PROVE  Split(text) \in Seq(Seq(AnyChar)) /\ Says(text, D, 1, Split(text))
<1> DEFINE N == Len(text) + 1
<1>0. N \in Nat \ {0}
  OBVIOUS
<1>1. PICK f : /\ \A i \in 1..N : f[i] = SplitStep(text, f, i)
               /\ Split(text) = f[1]
  BY SplitUnfolds
<1> DEFINE G(i) == f[i] \in Seq(Seq(AnyChar)) /\ Says(text, D, i, f[i])
           P(n) == \A i \in (N - n)..N : G(i)
           T == {n \in 0..(N - 1) : P(n)}
<1>2. ASSUME NEW i \in 1..N, \A j \in (i + 1)..N : G(j) PROVE G(i)
  <2>1. f[i] = SplitStep(text, f, i)
    BY <1>1
  <2>2. SplitStep(text, f, i) \in Seq(Seq(AnyChar))
    BY <1>2, SplitStepType
  <2>3. Says(text, D, i, SplitStep(text, f, i))
    BY <1>2, SplitStepSays
  <2> QED BY <2>1, <2>2, <2>3
<1> HIDE DEF G, N
<1>3. P(0)
  <2>1. N \in 1..N /\ \A j \in (N + 1)..N : G(j)
    BY <1>0
  <2>2. \A i \in (N - 0)..N : i = N
    BY <1>0
  <2> QED BY <1>2, <2>1, <2>2
<1>4. ASSUME NEW n \in 1..(N - 1), P(n - 1) PROVE P(n)
  <2> DEFINE p == N - n
  <2>1. p \in 1..N /\ p + 1 = N - (n - 1)
    BY <1>0
  <2>2. \A j \in (p + 1)..N : G(j)
    BY <1>4, <2>1
  <2>3. \A i \in p..N : i = p \/ i \in (p + 1)..N
    BY <1>0, <2>1
  <2> HIDE DEF p
  <2>4. G(p)
    BY <1>2, <2>1, <2>2
  <2>5. \A i \in p..N : G(i)
    BY <2>2, <2>3, <2>4
  <2> QED BY <2>5 DEF p
<1>5. \A n \in 0..(N - 1) : n \in T
  <2> HIDE DEF P
  <2>1. 0 \in T /\ \A n \in 1..(N - 1) : n - 1 \in T => n \in T
    BY <1>0, <1>3, <1>4
  <2>2. N - 1 \in Nat
    BY <1>0
  <2> HIDE DEF T
  <2> QED BY <2>1, <2>2, Induction
<1>6. P(N - 1)
  <2> HIDE DEF P
  <2> QED BY <1>0, <1>5
<1>7. G(1)
  <2>1. N - (N - 1) = 1 /\ 1 \in 1..N
    BY <1>0
  <2> QED BY <1>6, <2>1
<1> QED BY <1>1, <1>7 DEF G

-----------------------------------------------------------------------------
(* From bytes to text. *)

\* What the shell's output can be decoded to: no marker of the chunker's own.
PlainChars == Chars \ {"[...]", "truncated"}

\* strip leaves no start of an escape sequence.
LEMMA StripType ==
    ASSUME NEW bytes \in Seq(Bytes)
    PROVE  Strip(bytes) \in Seq(Bytes \ {"E1"})
<1> DEFINE piece(i) == IF bytes[i] = "E1" \/ (bytes[i] = "E2" /\ Before(bytes, i) = "E1")
                       THEN <<>> ELSE <<bytes[i]>>
           ss == [i \in 1..Len(bytes) |-> piece(i)]
<1>1. ASSUME NEW i \in 1..Len(bytes) PROVE piece(i) \in Seq(Bytes \ {"E1"})
  <2>1. CASE bytes[i] = "E1" \/ (bytes[i] = "E2" /\ Before(bytes, i) = "E1")
    BY <2>1
  <2>2. CASE ~(bytes[i] = "E1" \/ (bytes[i] = "E2" /\ Before(bytes, i) = "E1"))
    <3>1. bytes[i] \in Bytes \ {"E1"}
      BY <2>2
    <3> QED BY <2>2, <3>1
  <2> QED BY <2>1, <2>2
<1>2. ss \in Seq(Seq(Bytes \ {"E1"}))
  <2> HIDE DEF piece
  <2> Len(bytes) \in Nat
    OBVIOUS
  <2> QED BY <1>1
<1>3. Strip(bytes) = FlattenSeq(ss)
  BY DEF Strip
<1> HIDE DEF ss
<1> QED BY <1>2, <1>3, FlattenType

\* The character a lone byte of the line ending becomes.
LEMMA NewlineByte == "\n" \in Bytes \ {"E1", "\r"}
BY Zenon DEF Bytes

\* normalize_text leaves no carriage return.
LEMMA NormalizeType ==
    ASSUME NEW bytes \in Seq(Bytes)
    PROVE  Normalize(bytes) \in Seq(Bytes \ {"E1", "\r"})
<1> DEFINE s == Strip(bytes)
           B == Bytes \ {"E1", "\r"}
           piece(i) == IF s[i] # "\r" THEN <<s[i]>>
                       ELSE IF After(s, i) = "\n" THEN <<>> ELSE <<"\n">>
           ss == [i \in 1..Len(s) |-> piece(i)]
<1>1. s \in Seq(Bytes \ {"E1"})
  BY StripType
<1>2. Normalize(bytes) = FlattenSeq(ss)
  BY DEF Normalize
<1> HIDE DEF s
<1>3. ASSUME NEW i \in 1..Len(s) PROVE piece(i) \in Seq(B)
  <2>1. \/ piece(i) = <<s[i]>> /\ s[i] # "\r"
        \/ piece(i) = <<>>
        \/ piece(i) = <<"\n">>
    BY Zenon
  <2>2. s[i] \in Bytes \ {"E1"}
    BY <1>1
  <2> HIDE DEF piece
  <2>3. CASE piece(i) = <<s[i]>> /\ s[i] # "\r"
    <3>1. s[i] \in B
      BY <2>2, <2>3, Zenon
    <3> HIDE DEF B
    <3> QED BY ONLY <2>3, <3>1
  <2>4. CASE piece(i) = <<>>
    BY <2>4
  <2>5. CASE piece(i) = <<"\n">>
    <3>1. "\n" \in B
      BY NewlineByte
    <3> HIDE DEF B
    <3> QED BY ONLY <2>5, <3>1
  <2> QED BY ONLY <2>1, <2>3, <2>4, <2>5
<1>4. ss \in Seq(Seq(B))
  <2> HIDE DEF piece, B
  <2> Len(s) \in Nat
    BY <1>1
  <2> QED BY <1>3
<1> HIDE DEF ss, B
<1>5. FlattenSeq(ss) \in Seq(B)
  BY <1>4, FlattenType
<1> QED BY <1>2, <1>5 DEF B

\* The characters Decode may make.
LEMMA DecodedChars ==
    /\ {"?", "L", "W", "m"} \subseteq PlainChars
    /\ \A b \in Bytes \ {"E1", "\r"} :
          b \notin {"L1", "W1", "L2", "W2", "E2"} => b \in PlainChars \ {"?", "m"}
BY Zenon DEF PlainChars, Chars, Bytes

\* What Decode makes of the byte at i.
DecodePiece(bytes, i) ==
    CASE bytes[i] \in {"L1", "W1"} ->
            IF After(bytes, i) # RestOf(bytes[i]) THEN <<"?">>
            ELSE IF bytes[i] = "L1" THEN <<"L">> ELSE <<"W">>
      [] bytes[i] = "L2" -> IF Before(bytes, i) = "L1" THEN <<>> ELSE <<"?">>
      [] bytes[i] = "W2" -> IF Before(bytes, i) = "W1" THEN <<>> ELSE <<"?">>
      [] bytes[i] = "E2" -> <<"m">>
      [] OTHER -> <<bytes[i]>>

\* A byte decodes to characters.
LEMMA DecodePieceType ==
    ASSUME NEW bytes \in Seq(Bytes \ {"E1", "\r"}), NEW i \in 1..Len(bytes)
    PROVE  DecodePiece(bytes, i) \in Seq(PlainChars)
<1> DEFINE b == bytes[i]
<1>1. b \in Bytes \ {"E1", "\r"}
  <2> DEFINE B == Bytes \ {"E1", "\r"}
  <2>1. bytes \in Seq(B)
    OBVIOUS
  <2> HIDE DEF B
  <2>2. bytes[i] \in B
    BY ONLY <2>1, i \in 1..Len(bytes)
  <2> QED BY <2>2 DEF B
<1>2. \/ b \in {"L1", "W1"} /\ DecodePiece(bytes, i) \in {<<"?">>, <<"L">>, <<"W">>}
      \/ b = "L2" /\ DecodePiece(bytes, i) \in {<<>>, <<"?">>}
      \/ b = "W2" /\ DecodePiece(bytes, i) \in {<<>>, <<"?">>}
      \/ b = "E2" /\ DecodePiece(bytes, i) = <<"m">>
      \/ b \notin {"L1", "W1", "L2", "W2", "E2"} /\ DecodePiece(bytes, i) = <<b>>
  <2> HIDE DEF b
  <2>1. DecodePiece(bytes, i) =
            CASE b \in {"L1", "W1"} ->
                    IF After(bytes, i) # RestOf(b) THEN <<"?">>
                    ELSE IF b = "L1" THEN <<"L">> ELSE <<"W">>
              [] b = "L2" -> IF Before(bytes, i) = "L1" THEN <<>> ELSE <<"?">>
              [] b = "W2" -> IF Before(bytes, i) = "W1" THEN <<>> ELSE <<"?">>
              [] b = "E2" -> <<"m">>
              [] OTHER -> <<b>>
    BY DEF DecodePiece, b
  <2> QED BY ONLY <2>1
<1>3. \A c \in PlainChars : <<c>> \in Seq(PlainChars)
  OBVIOUS
<1>4. <<>> \in Seq(PlainChars)
  OBVIOUS
<1>5. b \notin {"L1", "W1", "L2", "W2", "E2"} => b \in PlainChars
  BY <1>1, DecodedChars, Zenon
<1>6. "?" \in PlainChars /\ "L" \in PlainChars /\ "W" \in PlainChars /\ "m" \in PlainChars
  BY DecodedChars, Zenon
<1> HIDE DEF b
<1> QED BY ONLY <1>2, <1>3, <1>4, <1>5, <1>6

\* The text is over every set that holds what its bytes decode to.
LEMMA DecodePieces ==
    ASSUME NEW S, NEW bytes \in Seq(S), NEW C,
           \A i \in 1..Len(bytes) : DecodePiece(bytes, i) \in Seq(C)
    PROVE  Decode(bytes) \in Seq(C)
<1> DEFINE ss == [i \in 1..Len(bytes) |-> DecodePiece(bytes, i)]
<1>1. ss \in Seq(Seq(C))
  <2> Len(bytes) \in Nat
    OBVIOUS
  <2> QED OBVIOUS
<1>2. Decode(bytes) = FlattenSeq(ss)
  BY DEF Decode, DecodePiece
<1> HIDE DEF ss
<1> QED BY <1>1, <1>2, FlattenType

\* The text of a flush holds no marker of the chunker's own.
LEMMA TextType ==
    ASSUME NEW bytes \in Seq(Bytes)
    PROVE  Text(bytes) \in Seq(PlainChars)
<1> DEFINE s == Normalize(bytes)
           B == Bytes \ {"E1", "\r"}
<1>1. s \in Seq(B)
  BY NormalizeType
<1> HIDE DEF s
<1>2. \A i \in 1..Len(s) : DecodePiece(s, i) \in Seq(PlainChars)
  BY <1>1, DecodePieceType
<1> HIDE DEF B
<1>3. Decode(s) \in Seq(PlainChars)
  BY ONLY <1>1, <1>2, DecodePieces
<1> QED BY <1>3 DEF Text, s

-----------------------------------------------------------------------------
(* From text to chunks. *)

\* Lines are numbered.
LEMMA LineOfType ==
    ASSUME NEW text, NEW i \in Nat
    PROVE  LineOf(text, i) \in Nat
<1> DEFINE J == {j \in 1..(i - 1) : text[j] = "\n"}
<1>1. IsFiniteSet(1..(i - 1)) /\ J \in SUBSET (1..(i - 1))
  BY FS_Interval
<1>2. IsFiniteSet(J)
  BY <1>1, FS_Subset
<1>3. Cardinality(J) \in Nat
  BY <1>2, FS_CardinalityType
<1> QED BY <1>3 DEF LineOf

\* collapse_blank_lines leaves out white space and nothing else.
LEMMA CollapseKeeps ==
    ASSUME NEW S, NEW text \in Seq(S), NEW D, WhiteSpace \subseteq D
    PROVE  /\ CollapseBlankLines(text) \in Seq(S)
           /\ Without(CollapseBlankLines(text), D) = Without(text, D)
<1> DEFINE third(n) == n > 2 /\ \A m \in (n - 2)..n : BlankLine(text, m)
           piece(i) == IF third(LineOf(text, i)) THEN <<>> ELSE <<text[i]>>
           ss == [i \in 1..Len(text) |-> piece(i)]
           tt == [i \in 1..Len(text) |-> <<text[i]>>]
<1>0. Len(text) \in Nat
  OBVIOUS
<1>1. ASSUME NEW i \in 1..Len(text), third(LineOf(text, i)) PROVE text[i] \in D
  <2>1. LineOf(text, i) \in Nat
    BY LineOfType
  <2>2. BlankLine(text, LineOf(text, i))
    BY <1>1, <2>1
  <2>3. text[i] \in WhiteSpace
    BY <2>2 DEF BlankLine
  <2> QED BY <2>3
<1>2. CollapseBlankLines(text) = FlattenSeq(ss)
  BY DEF CollapseBlankLines
<1> HIDE DEF third
<1>3. ASSUME NEW i \in 1..Len(text)
      PROVE  piece(i) \in Seq(S) /\ Without(piece(i), D) = Without(<<text[i]>>, D)
  <2>0. text[i] \in S
    OBVIOUS
  <2>1. CASE third(LineOf(text, i))
    <3>1. piece(i) = <<>> /\ text[i] \in D
      BY <1>1, <2>1
    <3>2. <<text[i]>> \in Seq(D) /\ <<>> \in Seq(S)
      BY <3>1
    <3>3. Without(<<text[i]>>, D) = <<>>
      BY <3>2, WithoutAll
    <3> HIDE DEF piece
    <3> QED BY <3>1, <3>2, <3>3, WithoutEmpty
  <2>2. CASE ~third(LineOf(text, i))
    <3>1. piece(i) = <<text[i]>>
      BY <2>2
    <3> HIDE DEF piece
    <3> QED BY <2>0, <3>1
  <2> QED BY <2>1, <2>2
<1> HIDE DEF piece
<1>4. ss \in Seq(Seq(S)) /\ Len(ss) = Len(text) /\ \A i \in 1..Len(text) : ss[i] = piece(i)
  <2>1. \A i \in 1..Len(text) : piece(i) \in Seq(S)
    BY <1>3
  <2> QED BY ONLY <1>0, <2>1
<1>5. tt \in Seq(Seq(S)) /\ Len(tt) = Len(text) /\ \A i \in 1..Len(text) : tt[i] = <<text[i]>>
  BY <1>0
<1>6. FlattenSeq(tt) = text
  BY FlattenSingletons
<1> HIDE DEF ss, tt
<1>7. \A i \in 1..Len(ss) : Without(ss[i], D) = Without(tt[i], D)
  BY <1>3, <1>4, <1>5
<1>8. Without(FlattenSeq(ss), D) = Without(FlattenSeq(tt), D)
  BY <1>4, <1>5, <1>7, WithoutPieces
<1>9. FlattenSeq(ss) \in Seq(S)
  BY <1>4, FlattenType
<1> QED BY <1>2, <1>6, <1>8, <1>9

\* cap_lines leaves the text alone or ends it early, with a line that says so.
LEMMA CapLinesCases ==
    ASSUME NEW S, NEW text \in Seq(S)
    PROVE  \/ CapLines(text) = text
           \/ \E k \in 0..Len(text) :
                 CapLines(text) = SubSeq(text, 1, k) \o <<"[...]", "\n">>
<1> DEFINE I == {i \in 1..Len(text) : LineOf(text, i) <= MaxLines}
<1>0. Len(text) \in Nat
  OBVIOUS
<1>1. IsFiniteSet(1..Len(text)) /\ Cardinality(1..Len(text)) = Len(text)
  BY <1>0, FS_Interval
<1>2. I \in SUBSET (1..Len(text))
  OBVIOUS
<1>3. IsFiniteSet(I) /\ Cardinality(I) <= Len(text)
  <2> HIDE DEF I
  <2> QED BY <1>1, <1>2, FS_Subset
<1>4. Cardinality(I) \in 0..Len(text)
  <2> HIDE DEF I
  <2> Cardinality(I) \in Nat
    BY <1>3, FS_CardinalityType
  <2> QED BY <1>0, <1>3
<1>5. CapLines(text) = text
        \/ CapLines(text) = SubSeq(text, 1, Cardinality(I)) \o <<"[...]", "\n">>
  BY DEF CapLines, FirstLines
<1> HIDE DEF I
<1> QED BY <1>4, <1>5

\* Blank text is all white space.
LEMMA BlankIsAll ==
    ASSUME NEW S, NEW s \in Seq(S), Blank(s)
    PROVE  s \in Seq(WhiteSpace)
BY DEF Blank

\* retain drops blank bodies and nothing else.
LEMMA NonBlankKeeps ==
    ASSUME NEW C, NEW F \in SUBSET Seq(C), NEW bodies \in Seq(F),
           NEW D, WhiteSpace \subseteq D
    PROVE  /\ NonBlank(bodies) \in Seq(F)
           /\ Without(FlattenSeq(NonBlank(bodies)), D) = Without(FlattenSeq(bodies), D)
<1> DEFINE piece(i) == IF Blank(bodies[i]) THEN <<>> ELSE <<bodies[i]>>
           pp == [i \in 1..Len(bodies) |-> piece(i)]
           P(n) == Without(FlattenSeq(Upto(pp, n)), D) = Without(Upto(bodies, n), D)
           T == {n \in 0..Len(bodies) : P(n)}
<1>0. Len(bodies) \in Nat /\ bodies \in Seq(Seq(C))
  <2>1. bodies \in Seq(Seq(C))
    BY SeqMonotonic
  <2> QED BY <2>1
<1>1. ASSUME NEW i \in 1..Len(bodies)
      PROVE  /\ piece(i) \in Seq(F) /\ piece(i) \in Seq(Seq(C))
             /\ FlattenSeq(piece(i)) \in Seq(C)
             /\ Without(FlattenSeq(piece(i)), D) = Without(bodies[i], D)
  <2> DEFINE b == bodies[i]
  <2>0. b \in F /\ b \in Seq(C)
    OBVIOUS
  <2> HIDE DEF b
  <2>1. CASE Blank(b)
    <3>1. piece(i) = <<>>
      BY <2>1 DEF b
    <3>2. b \in Seq(WhiteSpace)
      BY <2>0, <2>1, BlankIsAll
    <3>3. b \in Seq(D)
      BY ONLY <3>2, SeqMonotonic, WhiteSpace \subseteq D
    <3>4. Without(b, D) = <<>>
      BY <3>3, WithoutAll
    <3>5. <<>> \in Seq(F) /\ <<>> \in Seq(Seq(C)) /\ <<>> \in Seq(C)
      BY EmptySeq
    <3> HIDE DEF piece
    <3> QED BY <3>1, <3>4, <3>5, FlattenEmpty, WithoutEmpty DEF b
  <2>2. CASE ~Blank(b)
    <3>1. piece(i) = <<b>>
      BY <2>2 DEF b
    <3>2. <<b>> \in Seq(F) /\ <<b>> \in Seq(Seq(C))
      BY ONLY <2>0
    <3>3. FlattenSeq(<<b>>) = b
      <4>1. <<b>> = <<b>> \o <<>> /\ <<>> \in Seq(Seq(C))
        BY ONLY <3>2, EmptySeq, ConcatEmptySeq
      <4>2. FlattenSeq(<<b>> \o <<>>) = b \o FlattenSeq(<<>>)
        BY ONLY <2>0, <4>1, FlattenCons
      <4>3. b \o <<>> = b
        BY ONLY <2>0, ConcatEmptySeq
      <4> QED BY ONLY <4>1, <4>2, <4>3, FlattenEmpty
    <3> HIDE DEF piece
    <3> QED BY ONLY <2>0, <3>1, <3>2, <3>3 DEF b
  <2> QED BY <2>1, <2>2
<1> HIDE DEF piece
<1>2. /\ pp \in Seq(Seq(F)) /\ pp \in Seq(Seq(Seq(C))) /\ Len(pp) = Len(bodies)
      /\ \A i \in 1..Len(bodies) : pp[i] = piece(i)
  BY <1>0, <1>1
<1>3. NonBlank(bodies) = FlattenSeq(pp)
  BY DEF NonBlank, piece
<1> HIDE DEF pp
<1>4. P(0)
  <2>1. Upto(pp, 0) = <<>> /\ Upto(bodies, 0) = <<>>
    BY <1>0, <1>2, UptoEnds
  <2> QED BY <2>1, FlattenEmpty
<1>5. ASSUME NEW n \in 1..Len(bodies), P(n - 1) PROVE P(n)
  <2> DEFINE u == Upto(pp, n - 1)
             v == Upto(bodies, n - 1)
             x == piece(n)
             b == bodies[n]
  <2>0. n \in 1..Len(pp) /\ n - 1 \in 0..Len(pp) /\ n - 1 \in 0..Len(bodies)
    BY <1>0, <1>2
  <2>1. Upto(pp, n) = u \o x
    BY <1>2, <2>0, UptoStep
  <2>2. Upto(bodies, n) = v \o b
    BY <1>0, UptoStep
  <2>3. u \in Seq(Seq(C))
    BY <1>2, <2>0, UptoType
  <2>4. v \in Seq(C)
    BY <1>0, <2>0, UptoType
  <2>5. x \in Seq(Seq(C)) /\ FlattenSeq(x) \in Seq(C) /\ b \in Seq(C)
        /\ Without(FlattenSeq(x), D) = Without(b, D)
    BY <1>0, <1>1
  <2>6. Without(FlattenSeq(u), D) = Without(v, D)
    BY <1>5
  <2> HIDE DEF u, v, x, b
  <2>7. FlattenSeq(u \o x) = FlattenSeq(u) \o FlattenSeq(x)
    BY ONLY <2>3, <2>5, FlattenConcat
  <2>8. FlattenSeq(u) \in Seq(C)
    BY ONLY <2>3, FlattenType
  <2>9. Without(FlattenSeq(u) \o FlattenSeq(x), D)
            = Without(FlattenSeq(u), D) \o Without(FlattenSeq(x), D)
    BY ONLY <2>5, <2>8, WithoutConcats
  <2>10. Without(v \o b, D) = Without(v, D) \o Without(b, D)
    BY ONLY <2>4, <2>5, WithoutConcats
  <2> QED BY ONLY <2>1, <2>2, <2>5, <2>6, <2>7, <2>9, <2>10
<1>6. \A n \in 0..Len(bodies) : n \in T
  <2> HIDE DEF P
  <2>1. 0 \in T /\ \A n \in 1..Len(bodies) : n - 1 \in T => n \in T
    BY <1>0, <1>4, <1>5
  <2> HIDE DEF T
  <2> QED BY <1>0, <2>1, Induction
<1>7. P(Len(bodies))
  BY <1>0, <1>6
<1>8. Upto(pp, Len(bodies)) = FlattenSeq(pp) /\ Upto(bodies, Len(bodies)) = FlattenSeq(bodies)
  BY <1>0, <1>2, UptoEnds
<1>9. FlattenSeq(pp) \in Seq(F)
  BY <1>2, FlattenType
<1> QED BY <1>3, <1>7, <1>8, <1>9

\* The chunks with these bodies, the marker's like the others', numbered on from 1.
InOne(all) == [i \in 1..Len(all) |-> Numbered(i, Len(all), all[i])]

\* Append, place by place.
LEMMA AppendPlaces ==
    ASSUME NEW S, NEW s \in Seq(S), NEW e \in S
    PROVE  Append(s, e) = [i \in 1..(Len(s) + 1) |-> IF i = Len(s) + 1 THEN e ELSE s[i]]
<1> DEFINE t == Append(s, e)
           n == Len(s) + 1
<1>1. t \in Seq(S) /\ Len(t) = n /\ n \in Nat
  BY AppendProperties
<1>2. \A i \in 1..n : t[i] = IF i = n THEN e ELSE s[i]
  BY AppendProperties
<1> HIDE DEF t, n
<1>3. t = [i \in 1..n |-> t[i]]
  BY <1>1
<1> QED BY <1>2, <1>3 DEF t, n

\* The marker is appended with the number it has among all of them.
LEMMA OneByOne ==
    ASSUME NEW F, NEW kept \in Seq(F), NEW e \in F
    PROVE  LET n == Len(kept) + 1 IN
           Append([i \in 1..Len(kept) |-> Numbered(i, n, kept[i])], Numbered(n, n, e))
               = InOne(Append(kept, e))
<1> DEFINE m == Len(kept)
           n == m + 1
           all == Append(kept, e)
           out == [i \in 1..m |-> Numbered(i, n, kept[i])]
           G == [i : Nat, of : Nat, body : F]
<1>1. m \in Nat /\ \A i \in 1..m : kept[i] \in F
  OBVIOUS
<1>2. Len(all) = n /\ all[n] = e /\ \A i \in 1..m : all[i] = kept[i]
  OBVIOUS
<1> HIDE DEF all, m
<1>3. out \in Seq(G) /\ Len(out) = m /\ Numbered(n, n, e) \in G
  <2>1. \A i \in Nat : \A x \in F : Numbered(i, n, x) \in G
    BY <1>1 DEF Numbered
  <2> HIDE DEF G
  <2>2. \A i \in 1..m : Numbered(i, n, kept[i]) \in G
    BY <1>1, <2>1
  <2>3. out \in Seq(G) /\ Len(out) = m
    BY <1>1, <2>2
  <2> HIDE DEF out
  <2> QED BY <1>1, <2>1, <2>3
<1> DEFINE l == Append(out, Numbered(n, n, e))
<1>4. l = [i \in 1..n |-> IF i = n THEN Numbered(n, n, e) ELSE out[i]]
  <2> HIDE DEF out, G
  <2> QED BY <1>3, AppendPlaces
<1>5. \A i \in 1..n : (IF i = n THEN Numbered(n, n, e) ELSE out[i]) = Numbered(i, n, all[i])
  <2> SUFFICES ASSUME NEW i \in 1..n
               PROVE  (IF i = n THEN Numbered(n, n, e) ELSE out[i]) = Numbered(i, n, all[i])
    OBVIOUS
  <2>1. CASE i = n
    BY <1>2, <2>1
  <2>2. CASE i # n
    <3>1. i \in 1..m
      BY <1>1, <2>2
    <3> QED BY <1>2, <2>2, <3>1
  <2> QED BY <2>1, <2>2
<1>6. InOne(all) = [i \in 1..n |-> Numbered(i, n, all[i])]
  BY <1>2 DEF InOne
<1> HIDE DEF l, out, n
<1>7. l = InOne(all)
  BY <1>4, <1>5, <1>6
<1> QED BY <1>7 DEF l, out, n, m, all

\* The burst cap leaves the bodies alone or ends them early, with the marker;
\* the chunks are what is left, numbered.
LEMMA ChunksCases ==
    ASSUME NEW F, NEW bodies \in Seq(F), Marker \in F
    PROVE  \E all \in Seq(F) :
              /\ \/ all = bodies
                 \/ /\ BurstCap < Len(bodies)
                    /\ all = Append(SubSeq(bodies, 1, BurstCap), Marker)
              /\ Chunks(bodies) = InOne(all)
<1>0. Len(bodies) \in Nat /\ BurstCap \in Nat
  BY ChunkAssumption DEF ChunkAssumption
<1>1. CASE Len(bodies) > BurstCap
  <2> DEFINE all == Append(SubSeq(bodies, 1, BurstCap), Marker)
  <2>1. SubSeq(bodies, 1, BurstCap) \in Seq(F)
    BY <1>0, <1>1
  <2>2. all \in Seq(F)
    BY ONLY <2>1, Marker \in F, AppendProperties
  <2>3. Chunks(bodies) = InOne(all)
    <3> DEFINE kept == SubSeq(bodies, 1, BurstCap)
               n == Len(kept) + 1
    <3>1. Chunks(bodies) = Append([i \in 1..Len(kept) |-> Numbered(i, n, kept[i])],
                                  Numbered(n, n, Marker))
      BY <1>1, Zenon DEF Chunks
    <3> HIDE DEF kept
    <3>2. kept \in Seq(F)
      BY <2>1 DEF kept
    <3>3. Chunks(bodies) = InOne(Append(kept, Marker))
      BY ONLY <3>1, <3>2, Marker \in F, OneByOne
    <3> QED BY <3>3 DEF kept
  <2>4. BurstCap < Len(bodies)
    BY <1>0, <1>1
  <2> HIDE DEF all
  <2> QED BY <2>2, <2>3, <2>4 DEF all
<1>2. CASE ~(Len(bodies) > BurstCap)
  <2>1. Len(bodies) + 0 = Len(bodies)
    BY <1>0
  <2>2. Chunks(bodies) = InOne(bodies)
    BY <1>2, <2>1, Zenon DEF Chunks, InOne
  <2> QED BY <2>2
<1> QED BY <1>1, <1>2

\* What of the characters is white space, and what a marker.
LEMMA Markers ==
    /\ "[...]" \in Chars /\ "\n" \in Chars /\ "truncated" \in Chars
    /\ WhiteSpace \subseteq Chars
    /\ "\n" \in WhiteSpace
    /\ "[...]" \notin WhiteSpace
    /\ PlainChars \subseteq Chars
    /\ PlainChars \cap (WhiteSpace \cup {"[...]", "truncated"}) = PlainChars \cap WhiteSpace
BY Zenon DEF Chars, WhiteSpace, PlainChars

\* The marker of the burst cap fits in a chunk.
LEMMA MarkerFits == Marker \in Fitting
<1>1. InnerMax \in Nat \ {0}
  BY InnerMaxType
<1>2. Marker \in Seq(Chars) /\ Len(Marker) = 1
  <2>1. "truncated" \in Chars
    BY Markers
  <2> HIDE DEF Marker
  <2>2. Marker = <<"truncated">>
    BY DEF Marker
  <2> QED BY <2>1, <2>2
<1> DEFINE m == InnerMax
<1>3. m \in Nat \ {0}
  BY <1>1
<1> HIDE DEF m
<1>4. Len(Marker) <= m
  BY <1>2, <1>3
<1> QED BY <1>2, <1>4 DEF m, Fitting

\* cap_lines makes text of text.
LEMMA CapLinesType ==
    ASSUME NEW text \in Seq(Chars)
    PROVE  CapLines(text) \in Seq(Chars)
<1>1. <<"[...]", "\n">> \in Seq(Chars)
  <2>1. \A a, b \in Chars : <<a, b>> \in Seq(Chars)
    OBVIOUS
  <2> QED BY <2>1, Markers, Zenon
<1>2. \A k \in 0..Len(text) : SubSeq(text, 1, k) \in Seq(Chars)
  OBVIOUS
<1>3. \A u, v \in Seq(Chars) : u \o v \in Seq(Chars)
  OBVIOUS
<1>4. CapLines(text) = text
        \/ \E k \in 0..Len(text) : CapLines(text) = SubSeq(text, 1, k) \o <<"[...]", "\n">>
  BY CapLinesCases
<1> QED BY <1>1, <1>2, <1>3, <1>4, Zenon

\* The text the split is given.
Shown(bytes) == CapLines(CollapseBlankLines(Text(bytes)))

\* What the bodies of a flush are, if the split does not panic.
LEMMA BodiesSay ==
    ASSUME NEW bytes \in Seq(Bytes), ~Panics(bytes), ~Blank(Text(bytes)),
           NEW D, WhiteSpace \subseteq D
    PROVE  /\ NonBlank(Bodies(Text(bytes))) \in Seq(Fitting)
           /\ Without(FlattenSeq(NonBlank(Bodies(Text(bytes)))), D)
                 = Without(Shown(bytes), D)
<1> DEFINE c == Shown(bytes)
           bodies == Bodies(Text(bytes))
<1>1. c \in Seq(Chars)
  <2>1. Text(bytes) \in Seq(PlainChars)
    BY TextType
  <2>2. Text(bytes) \in Seq(Chars)
    BY ONLY <2>1, Markers, SeqMonotonic
  <2>3. WhiteSpace \subseteq WhiteSpace
    OBVIOUS
  <2>4. CollapseBlankLines(Text(bytes)) \in Seq(Chars)
    BY ONLY <2>2, <2>3, CollapseKeeps
  <2> QED BY <2>4, CapLinesType DEF Shown
<1>2. bodies = Split(c)
  BY DEF Bodies, Shown
<1>3. Last(bodies) # Torn
  BY DEF Panics
<1> HIDE DEF c, bodies
<1>4. Says(c, D, 1, bodies)
  BY <1>1, <1>2, SplitSays
<1>5. bodies \in Seq(Fitting) /\ Without(FlattenSeq(bodies), D) = Without(From(c, 1), D)
  BY <1>3, <1>4 DEF Says
<1>6. From(c, 1) = c
  BY <1>1, SubSeqFull DEF From
<1>7. Fitting \in SUBSET Seq(Chars)
  BY DEF Fitting
<1>8. /\ NonBlank(bodies) \in Seq(Fitting)
      /\ Without(FlattenSeq(NonBlank(bodies)), D) = Without(FlattenSeq(bodies), D)
  BY ONLY <1>5, <1>7, WhiteSpace \subseteq D, NonBlankKeeps
<1>9. Without(FlattenSeq(NonBlank(bodies)), D) = Without(c, D)
  BY <1>5, <1>6, <1>8
<1> QED BY <1>8, <1>9 DEF c, bodies

-----------------------------------------------------------------------------
\* What chunks_from_text returns: bodies that fit, all of them or, if there are
\* more than the burst cap, the first of them and the marker; numbered on from
\* 1, each with their number, if there are several.
LEMMA ChunksFromTextCases ==
    ASSUME NEW bytes \in Seq(Bytes), ~Panics(bytes)
    PROVE  \/ Blank(Text(bytes)) /\ ChunksFromText(bytes) = <<>>
           \/ /\ ~Blank(Text(bytes))
              /\ \E all \in Seq(Fitting) :
                    LET bodies == NonBlank(Bodies(Text(bytes))) IN
                    /\ \/ all = bodies
                       \/ /\ BurstCap < Len(bodies)
                          /\ all = Append(SubSeq(bodies, 1, BurstCap), Marker)
                    /\ ChunksFromText(bytes) = InOne(all)
<1>1. CASE Blank(Text(bytes))
  BY <1>1 DEF ChunksFromText
<1>2. CASE ~Blank(Text(bytes))
  <2> DEFINE bodies == NonBlank(Bodies(Text(bytes)))
  <2>1. bodies \in Seq(Fitting)
    <3>1. WhiteSpace \subseteq WhiteSpace
      OBVIOUS
    <3> QED BY <1>2, <3>1, BodiesSay
  <2>2. ChunksFromText(bytes) = Chunks(bodies)
    BY <1>2 DEF ChunksFromText
  <2> HIDE DEF bodies
  <2>3. \E all \in Seq(Fitting) :
              /\ \/ all = bodies
                 \/ /\ BurstCap < Len(bodies)
                    /\ all = Append(SubSeq(bodies, 1, BurstCap), Marker)
              /\ Chunks(bodies) = InOne(all)
    BY ONLY <2>1, MarkerFits, ChunksCases
  <2> QED BY <1>2, <2>2, <2>3, Zenon DEF bodies
<1> QED BY <1>1, <1>2

\* The chunks have the bodies given, one by one, and their numbers.
LEMMA NumberedChunks ==
    ASSUME NEW all \in Seq(Fitting)
    PROVE  /\ Len(InOne(all)) = Len(all)
           /\ InOne(all) \in Seq([i : Nat, of : Nat, body : Seq(Chars)])
           /\ \A i \in 1..Len(all) :
                 /\ InOne(all)[i].body = all[i]
                 /\ IF NumberChunks /\ Len(all) > 1
                    THEN InOne(all)[i].i = i /\ InOne(all)[i].of = Len(all)
                    ELSE InOne(all)[i].of = 0
<1> DEFINE chunk(i) == IF NumberChunks /\ Len(all) > 1
                       THEN [i |-> i, of |-> Len(all), body |-> all[i]]
                       ELSE [i |-> 0, of |-> 0, body |-> all[i]]
           C == [i : Nat, of : Nat, body : Seq(Chars)]
<1>0. Len(all) \in Nat
  OBVIOUS
<1>1. ASSUME NEW i \in 1..Len(all)
      PROVE  /\ chunk(i) \in C /\ chunk(i).body = all[i]
             /\ IF NumberChunks /\ Len(all) > 1
                THEN chunk(i).i = i /\ chunk(i).of = Len(all)
                ELSE chunk(i).of = 0
  <2>1. all[i] \in Seq(Chars)
    <3>1. all[i] \in Fitting
      OBVIOUS
    <3> QED BY <3>1 DEF Fitting
  <2> DEFINE b == all[i]
             n == Len(all)
  <2>2. b \in Seq(Chars) /\ i \in Nat /\ n \in Nat
    BY <1>0, <2>1
  <2> HIDE DEF b, n
  <2>3. /\ [i |-> i, of |-> n, body |-> b] \in C
        /\ [i |-> 0, of |-> 0, body |-> b] \in C
    BY ONLY <2>2
  <2> QED BY <2>3 DEF b, n
<1>2. InOne(all) = [i \in 1..Len(all) |-> chunk(i)]
  BY DEF InOne, Numbered
<1> HIDE DEF chunk, C
<1>3. /\ Len(InOne(all)) = Len(all) /\ InOne(all) \in Seq(C)
      /\ \A i \in 1..Len(all) : InOne(all)[i] = chunk(i)
  <2>1. \A i \in 1..Len(all) : chunk(i) \in C
    BY <1>1
  <2> QED BY ONLY <1>0, <1>2, <2>1
<1>4. \A i \in 1..Len(all) :
                 /\ InOne(all)[i].body = all[i]
                 /\ IF NumberChunks /\ Len(all) > 1
                    THEN InOne(all)[i].i = i /\ InOne(all)[i].of = Len(all)
                    ELSE InOne(all)[i].of = 0
  BY <1>1, <1>3
<1> QED BY <1>3, <1>4 DEF C

\* t is s, and more.
Extends(s, t) == \E w \in Seq(Chars) : t = s \o w

\* What is extended is a prefix.
LEMMA ExtendsIsPrefix ==
    ASSUME NEW s \in Seq(Chars), NEW t \in Seq(Chars), Extends(s, t)
    PROVE  IsPrefix(s, t)
<1>1. PICK w \in Seq(Chars) : t = s \o w
  BY DEF Extends
<1>2. Len(s) \in Nat /\ Len(w) \in Nat /\ Len(t) = Len(s) + Len(w)
  BY <1>1
<1>3. SubSeq(t, 1, Len(s)) = s /\ SubSeq(s, 1, Len(s)) = s
  BY <1>1
<1> QED BY <1>2, <1>3 DEF IsPrefix

\* More than more.
LEMMA ExtendsTransitive ==
    ASSUME NEW s \in Seq(Chars), NEW t, NEW u, Extends(s, t), Extends(t, u)
    PROVE  Extends(s, u)
<1>1. PICK w \in Seq(Chars) : t = s \o w
  BY DEF Extends
<1>2. PICK x \in Seq(Chars) : u = t \o x
  BY DEF Extends
<1>3. u = s \o (w \o x) /\ w \o x \in Seq(Chars)
  BY ONLY <1>1, <1>2, s \in Seq(Chars), ConcatAssociative, ConcatProperties
<1> QED BY <1>3 DEF Extends

\* Nothing more.
LEMMA ExtendsItself ==
    ASSUME NEW s \in Seq(Chars)
    PROVE  Extends(s, s)
<1>1. s = s \o <<>> /\ <<>> \in Seq(Chars)
  OBVIOUS
<1> QED BY <1>1 DEF Extends

\* The start of a text says the start of what the text says.
LEMMA WithoutStart ==
    ASSUME NEW s \in Seq(Chars), NEW k \in 0..Len(s), NEW D
    PROVE  Extends(Without(SubSeq(s, 1, k), D), Without(s, D))
<1> DEFINE u == SubSeq(s, 1, k)
           v == SubSeq(s, k + 1, Len(s))
<1>1. u \in Seq(Chars) /\ v \in Seq(Chars)
  OBVIOUS
<1>2. s = u \o v
  <2>1. 1 \in 1..Len(s) + 1 /\ k \in (1 - 1)..Len(s) /\ Len(s) \in k..Len(s)
    OBVIOUS
  <2>2. SubSeq(s, 1, k) \o SubSeq(s, k + 1, Len(s)) = SubSeq(s, 1, Len(s))
    BY <2>1, ConcatAdjacentSubSeq
  <2> QED BY <2>2, SubSeqFull
<1> HIDE DEF u, v
<1>3. Without(s, D) = Without(u, D) \o Without(v, D)
  BY ONLY <1>1, <1>2, WithoutConcats
<1>4. Without(v, D) \in Seq(Chars)
  <2>1. Without(v, D) \in Seq(Chars \ D)
    BY <1>1, WithoutType
  <2>2. Chars \ D \subseteq Chars
    OBVIOUS
  <2> QED BY ONLY <2>1, <2>2, SeqMonotonic
<1> QED BY <1>3, <1>4 DEF u, Extends

\* What is left of a text is text.
LEMMA WithoutChars ==
    ASSUME NEW s \in Seq(Chars), NEW D
    PROVE  Without(s, D) \in Seq(Chars)
<1>1. Without(s, D) \in Seq(Chars \ D)
  BY WithoutType
<1>2. Chars \ D \subseteq Chars
  OBVIOUS
<1> QED BY ONLY <1>1, <1>2, SeqMonotonic

\* What is no content of the shell's.
NoContent == WhiteSpace \cup {"[...]", "truncated"}

\* What the split is given says the start of what one can see of the flush, and
\* all of it unless it ends with the line cap's marker.
LEMMA ShownSays ==
    ASSUME NEW bytes \in Seq(Bytes)
    PROVE  /\ Shown(bytes) \in Seq(Chars)
           /\ Extends(Without(Shown(bytes), NoContent), Visible(Text(bytes)))
           /\ \/ Without(Shown(bytes), NoContent) = Visible(Text(bytes))
              \/ \E s \in Seq(Chars) : Shown(bytes) = s \o <<"[...]", "\n">>
<1> DEFINE t == Text(bytes)
           c == CollapseBlankLines(t)
           tail == <<"[...]", "\n">>
<1>1. t \in Seq(PlainChars)
  BY TextType
<1>2. t \in Seq(Chars)
  BY ONLY <1>1, Markers, SeqMonotonic
<1>3. WhiteSpace \subseteq NoContent
  BY DEF NoContent
<1>4. c \in Seq(Chars) /\ Without(c, NoContent) = Without(t, NoContent)
  BY ONLY <1>2, <1>3, CollapseKeeps
<1>5. Without(t, NoContent) = Visible(t)
  <2>1. PlainChars \cap NoContent = PlainChars \cap WhiteSpace
    BY Markers DEF NoContent
  <2>2. Without(t, NoContent) = Without(t, WhiteSpace)
    BY ONLY <1>1, <2>1, WithoutSame
  <2> QED BY <2>2 DEF Visible
<1>6. tail \in Seq(Chars) /\ Without(tail, NoContent) = <<>>
  <2>1. \A S : \A a, b \in S : <<a, b>> \in Seq(S)
    OBVIOUS
  <2>2. "[...]" \in NoContent /\ "\n" \in NoContent
    BY Markers, Zenon DEF NoContent
  <2>3. "[...]" \in Chars /\ "\n" \in Chars
    BY Markers
  <2>4. tail \in Seq(NoContent) /\ tail \in Seq(Chars)
    BY <2>1, <2>2, <2>3, Zenon
  <2> HIDE DEF tail
  <2> QED BY <2>4, WithoutAll
<1>7. Shown(bytes) = CapLines(c)
  BY DEF Shown
<1> HIDE DEF t, c, tail
<1>8. CASE CapLines(c) = c
  <2>1. Without(Shown(bytes), NoContent) = Visible(t)
    BY <1>4, <1>5, <1>7, <1>8
  <2>2. Visible(t) \in Seq(Chars)
    BY ONLY <1>2, WithoutChars DEF Visible
  <2>3. Extends(Visible(t), Visible(t))
    BY <2>2, ExtendsItself
  <2> QED BY <1>4, <1>7, <1>8, <2>1, <2>3 DEF t
<1>9. ASSUME NEW k \in 0..Len(c), CapLines(c) = SubSeq(c, 1, k) \o tail
      PROVE  /\ Shown(bytes) \in Seq(Chars)
             /\ Extends(Without(Shown(bytes), NoContent), Visible(t))
             /\ \E s \in Seq(Chars) : Shown(bytes) = s \o tail
  <2> DEFINE s == SubSeq(c, 1, k)
  <2>1. s \in Seq(Chars)
    BY <1>4
  <2>2. Extends(Without(s, NoContent), Without(c, NoContent))
    BY <1>4, WithoutStart
  <2>3. Shown(bytes) = s \o tail
    BY <1>7, <1>9
  <2> HIDE DEF s
  <2>4. Without(s \o tail, NoContent) = Without(s, NoContent) \o <<>>
    <3>1. tail \in Seq(Chars)
      BY <1>6
    <3>2. Without(s \o tail, NoContent) = Without(s, NoContent) \o Without(tail, NoContent)
      BY ONLY <2>1, <3>1, WithoutConcats
    <3> QED BY <1>6, <3>2
  <2>5. Without(s, NoContent) \o <<>> = Without(s, NoContent)
    <3>1. Without(s, NoContent) \in Seq(Chars)
      BY <2>1, WithoutChars
    <3> QED BY ONLY <3>1, ConcatEmptySeq
  <2>6. Extends(Without(Shown(bytes), NoContent), Visible(t))
    BY <1>4, <1>5, <2>2, <2>3, <2>4, <2>5
  <2>7. Shown(bytes) \in Seq(Chars)
    BY ONLY <1>6, <2>1, <2>3, ConcatProperties
  <2> QED BY <2>1, <2>3, <2>6, <2>7
<1>10. CapLines(c) = c \/ \E k \in 0..Len(c) : CapLines(c) = SubSeq(c, 1, k) \o tail
  BY <1>4, CapLinesCases DEF tail
<1> QED BY <1>8, <1>9, <1>10 DEF t, tail

\* A sequence is one over every set that holds its members.
LEMMA SeqOver ==
    ASSUME NEW S, NEW T, NEW s \in Seq(S), \A i \in 1..Len(s) : s[i] \in T
    PROVE  s \in Seq(T)
OBVIOUS

\* Bodies that say a text with the marker of the line cap hold that marker.
LEMMA CapMarkerKept ==
    ASSUME NEW all \in Seq(Seq(Chars)), NEW s \in Seq(Chars),
           Without(FlattenSeq(all), WhiteSpace) = Without(s \o <<"[...]", "\n">>, WhiteSpace)
    PROVE  \E i \in 1..Len(all) : Contains(all[i], "[...]")
<1> SUFFICES ASSUME \A i \in 1..Len(all) : ~Contains(all[i], "[...]") PROVE FALSE
  OBVIOUS
<1> DEFINE C == Chars \ {"[...]"}
           tail == <<"[...]", "\n">>
           u == Without(s, WhiteSpace)
           v == Without(tail, WhiteSpace)
           w == Without(FlattenSeq(all), WhiteSpace)
<1>1. all \in Seq(Seq(C))
  <2>1. ASSUME NEW i \in 1..Len(all) PROVE all[i] \in Seq(C)
    <3>1. all[i] \in Seq(Chars)
      OBVIOUS
    <3>2. \A j \in 1..Len(all[i]) : all[i][j] # "[...]"
      BY DEF Contains
    <3> DEFINE b == all[i]
    <3>3. b \in Seq(Chars) /\ \A j \in 1..Len(b) : b[j] # "[...]"
      BY <3>1, <3>2
    <3> HIDE DEF b
    <3>4. Len(b) \in Nat /\ \A j \in 1..Len(b) : b[j] \in C
      BY ONLY <3>3
    <3> HIDE DEF C
    <3>5. b \in Seq(C)
      BY ONLY <3>3, <3>4
    <3> QED BY <3>5 DEF b
  <2> HIDE DEF C
  <2>2. \A i \in 1..Len(all) : all[i] \in Seq(C)
    BY <2>1
  <2> QED BY ONLY all \in Seq(Seq(Chars)), <2>2, SeqOver
<1>2. w \in Seq(C)
  <2> HIDE DEF C
  <2>1. FlattenSeq(all) \in Seq(C)
    BY ONLY <1>1, FlattenType
  <2>2. w \in Seq(C \ WhiteSpace)
    BY ONLY <2>1, WithoutType
  <2>3. C \ WhiteSpace \subseteq C
    OBVIOUS
  <2> QED BY ONLY <2>2, <2>3, SeqMonotonic
<1>3. tail \in Seq(Chars)
  <2>1. \A S : \A a, b \in S : <<a, b>> \in Seq(S)
    OBVIOUS
  <2> QED BY <2>1, Markers, Zenon
<1>4. w = u \o v
  <2> HIDE DEF tail
  <2>1. Without(s \o tail, WhiteSpace) = u \o v
    BY ONLY <1>3, s \in Seq(Chars), WithoutConcats
  <2> QED BY <2>1 DEF tail
<1>5. v = <<"[...]">>
  <2> DEFINE a == "[...]"
             n == "\n"
  <2>1. a \in Chars /\ n \in Chars /\ a \notin WhiteSpace /\ n \in WhiteSpace
    BY Markers
  <2> HIDE DEF a, n
  <2>2. <<>> \in Seq(Chars) /\ <<a>> \in Seq(Chars)
        /\ <<a>> = Append(<<>>, a) /\ <<a, n>> = Append(<<a>>, n)
    BY ONLY <2>1
  <2> DEFINE none == <<>>
             one == <<a>>
  <2>3. Without(Append(none, a), WhiteSpace) = Without(none, WhiteSpace) \o one
    <3>1. none \in Seq(Chars)
      BY <2>2
    <3> HIDE DEF none
    <3> QED BY ONLY <2>1, <3>1, WithoutAppend
  <2>4. Without(Append(one, n), WhiteSpace) = Without(one, WhiteSpace) \o none
    <3>1. one \in Seq(Chars)
      BY <2>2
    <3> HIDE DEF one, none
    <3>2. Without(Append(one, n), WhiteSpace) =
             Without(one, WhiteSpace) \o (IF n \in WhiteSpace THEN <<>> ELSE <<n>>)
      BY ONLY <2>1, <3>1, WithoutAppends
    <3> QED BY <2>1, <3>2 DEF none
  <2>5. <<>> \o <<a>> = <<a>> /\ <<a>> \o <<>> = <<a>>
    BY ONLY <2>2, ConcatEmptySeq
  <2>6. Without(<<a, n>>, WhiteSpace) = <<a>>
    BY <2>2, <2>3, <2>4, <2>5, WithoutEmpty
  <2> QED BY <2>6 DEF a, n
<1>6. u \in Seq(Chars)
  BY WithoutChars
<1> HIDE DEF u, v, w, C
<1>7. Len(u) \in Nat /\ Len(w) = Len(u) + 1 /\ w[Len(u) + 1] = "[...]"
  BY ONLY <1>4, <1>5, <1>6
<1>8. w[Len(u) + 1] \in C
  BY ONLY <1>2, <1>7
<1> QED BY <1>7, <1>8 DEF C

\* What one can see of the bytes arrives in order and without a gap, and where
\* it ends early, one of the bodies is a marker or holds one.
LEMMA AllSays ==
    ASSUME NEW bytes \in Seq(Bytes), ~Panics(bytes), ~Blank(Text(bytes)),
           NEW all \in Seq(Fitting), NEW bodies,
           bodies = NonBlank(Bodies(Text(bytes))),
           \/ all = bodies
           \/ /\ BurstCap < Len(bodies)
              /\ all = Append(SubSeq(bodies, 1, BurstCap), Marker)
    PROVE  /\ Extends(Without(FlattenSeq(all), NoContent), Visible(Text(bytes)))
           /\ \/ Without(FlattenSeq(all), NoContent) = Visible(Text(bytes))
              \/ \E i \in 1..Len(all) : Contains(all[i], "[...]") \/ all[i] = Marker
<1> DEFINE V(s) == Without(s, NoContent)
           shown == Shown(bytes)
           visible == Visible(Text(bytes))
<1>1. bodies \in Seq(Fitting) /\ V(FlattenSeq(bodies)) = V(shown)
  <2>1. WhiteSpace \subseteq NoContent
    BY DEF NoContent
  <2> QED BY <2>1, BodiesSay
<1>2. Fitting \subseteq Seq(Chars)
  BY DEF Fitting
<1>3. bodies \in Seq(Seq(Chars)) /\ all \in Seq(Seq(Chars))
  BY ONLY <1>1, <1>2, all \in Seq(Fitting), SeqMonotonic
<1>4. /\ shown \in Seq(Chars)
      /\ Extends(V(shown), visible)
      /\ V(shown) = visible \/ \E s \in Seq(Chars) : shown = s \o <<"[...]", "\n">>
  BY ShownSays
<1>5. CASE all = bodies
  <2>1. Extends(V(FlattenSeq(all)), visible)
    BY <1>1, <1>4, <1>5
  <2>2. ASSUME NEW s \in Seq(Chars), shown = s \o <<"[...]", "\n">>
        PROVE  \E i \in 1..Len(all) : Contains(all[i], "[...]")
    <3>1. WhiteSpace \subseteq WhiteSpace
      OBVIOUS
    <3>2. Without(FlattenSeq(all), WhiteSpace) = Without(shown, WhiteSpace)
      BY <1>5, <3>1, BodiesSay
    <3> QED BY <1>3, <2>2, <3>2, CapMarkerKept
  <2>3. V(FlattenSeq(all)) = visible
          \/ \E i \in 1..Len(all) : Contains(all[i], "[...]")
    BY <1>1, <1>4, <1>5, <2>2
  <2> HIDE DEF visible
  <2> QED BY <2>1, <2>3, Zenon DEF visible
<1>6. CASE BurstCap < Len(bodies) /\ all = Append(SubSeq(bodies, 1, BurstCap), Marker)
  <2> DEFINE kept == SubSeq(bodies, 1, BurstCap)
             rest == SubSeq(bodies, BurstCap + 1, Len(bodies))
             marker == Marker
  <2>1. BurstCap \in Nat /\ Len(bodies) \in Nat
    BY <1>1, ChunkAssumption DEF ChunkAssumption
  <2>2. kept \in Seq(Seq(Chars)) /\ rest \in Seq(Seq(Chars))
    BY ONLY <1>3, <1>6, <2>1
  <2>3. bodies = kept \o rest
    <3>1. 1 \in 1..Len(bodies) + 1 /\ BurstCap \in (1 - 1)..Len(bodies)
          /\ Len(bodies) \in BurstCap..Len(bodies)
      BY <1>6, <2>1
    <3>2. kept \o rest = SubSeq(bodies, 1, Len(bodies))
      BY ONLY <1>1, <3>1, ConcatAdjacentSubSeq
    <3> QED BY ONLY <1>1, <3>2, SubSeqFull
  <2>4. marker \in Seq(Chars) /\ V(marker) = <<>>
    <3>1. \A S : \A a \in S : <<a>> \in Seq(S)
      OBVIOUS
    <3>2. "truncated" \in NoContent /\ "truncated" \in Chars
      BY Markers DEF NoContent
    <3>3. marker \in Seq(NoContent) /\ marker \in Seq(Chars)
      BY <3>1, <3>2, Zenon DEF Marker
    <3> HIDE DEF marker
    <3> QED BY <3>3, WithoutAll
  <2>5. all = Append(kept, marker)
    BY <1>6
  <2>6. all[Len(all)] = marker /\ Len(all) \in 1..Len(all)
    <3> HIDE DEF kept, marker, rest
    <3>1. \A S : \A t \in Seq(S), e \in S :
              Append(t, e)[Len(Append(t, e))] = e /\ Len(Append(t, e)) \in 1..Len(Append(t, e))
      OBVIOUS
    <3>2. marker \in Seq(Chars)
      BY <2>4
    <3> QED BY ONLY <2>2, <2>5, <3>1, <3>2
  <2> HIDE DEF kept, rest, marker, V
  <2>7. FlattenSeq(all) = FlattenSeq(kept) \o marker
    <3>1. marker \in Seq(Chars) /\ kept \in Seq(Seq(Chars))
      BY <2>2, <2>4
    <3> QED BY ONLY <2>5, <3>1, FlattenAppend
  <2>8. FlattenSeq(bodies) = FlattenSeq(kept) \o FlattenSeq(rest)
    BY ONLY <2>2, <2>3, FlattenConcat
  <2>9. FlattenSeq(kept) \in Seq(Chars) /\ FlattenSeq(rest) \in Seq(Chars)
    BY ONLY <2>2, FlattenType
  <2>10. V(FlattenSeq(all)) = V(FlattenSeq(kept))
    <3>1. marker \in Seq(Chars)
      BY <2>4
    <3>2. V(FlattenSeq(kept) \o marker) = V(FlattenSeq(kept)) \o V(marker)
      BY ONLY <2>9, <3>1, WithoutConcats DEF V
    <3>3. V(FlattenSeq(kept)) \in Seq(Chars)
      BY ONLY <2>9, WithoutChars DEF V
    <3>4. V(FlattenSeq(kept)) \o <<>> = V(FlattenSeq(kept))
      BY ONLY <3>3, ConcatEmptySeq
    <3> QED BY <2>4, <2>7, <3>2, <3>4
  <2>11. Extends(V(FlattenSeq(kept)), V(FlattenSeq(bodies)))
    <3>1. V(FlattenSeq(bodies)) = V(FlattenSeq(kept)) \o V(FlattenSeq(rest))
      BY ONLY <2>8, <2>9, WithoutConcats DEF V
    <3>2. V(FlattenSeq(rest)) \in Seq(Chars)
      BY ONLY <2>9, WithoutChars DEF V
    <3> QED BY <3>1, <3>2 DEF Extends
  <2>12. Extends(V(FlattenSeq(all)), visible)
    <3>1. V(FlattenSeq(kept)) \in Seq(Chars)
      BY ONLY <2>9, WithoutChars DEF V
    <3>2. Extends(V(FlattenSeq(kept)), V(shown)) /\ Extends(V(shown), visible)
      BY <1>1, <1>4, <2>11 DEF V
    <3>3. Extends(V(FlattenSeq(kept)), visible)
      BY ONLY <3>1, <3>2, ExtendsTransitive
    <3> QED BY <2>10, <3>3
  <2>13. \E i \in 1..Len(all) : all[i] = Marker
    BY <2>6 DEF marker
  <2> QED BY <2>12, <2>13, Zenon DEF V
<1> QED BY <1>5, <1>6
=============================================================================
