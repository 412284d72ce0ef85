---------------------------- MODULE ChunkerProofs ----------------------------
(***************************************************************************)
(* Theorems about Chunker, for every value of its constants and every      *)
(* output of the shell, however the pty cuts it.                           *)
(***************************************************************************)
EXTENDS Chunker, ChunkTextProofs

-----------------------------------------------------------------------------
(* The bytes of a shell. *)

\* What stands for no byte.  (By a name of its own: the SMT backend does not
\* bear the empty string in the context of arithmetic.)
NoByte == ""

\* Before, Open and Follow with that name.
LEMMA NoByteIs ==
    /\ \A s, i : i > 1 => Before(s, i) = s[i - 1]
    /\ \A s, i : ~(i > 1) => Before(s, i) = NoByte
    /\ \A b : b \in Opening => Open(b) = b
    /\ \A b : b \notin Opening => Open(b) = NoByte
    /\ \A open : open # NoByte => Follow(open) = {RestOf(open)}
    /\ Follow(NoByte) = Bytes \ {"E2", "L2", "W2"}
BY Zenon DEF NoByte, Before, Open, Follow

\* Bytes that stand for themselves, and those of letters and wide white space.
PlainBytes == {"a", " ", "\n", "\r"}
LetterBytes == {"L1", "L2", "W1", "W2"}

\* The letter or wide white space b opens.
LetterOf(b) == IF b \in {"L1", "W1"} THEN b ELSE NoByte

\* Which bytes there are.
LEMMA ByteFacts ==
    /\ PlainBytes \subseteq Bytes /\ LetterBytes \subseteq Bytes
    /\ NoByte \notin Bytes /\ NoByte \notin Opening /\ Opening \subseteq Bytes
    /\ "E1" \notin PlainBytes \cup LetterBytes /\ "E2" \notin PlainBytes \cup LetterBytes
    /\ \A b \in Bytes : b \in PlainBytes \cup LetterBytes \/ b = "E1" \/ b = "E2"
    /\ "\n" \in PlainBytes /\ "\n" \notin Opening
    /\ \A c \in PlainBytes : c \notin Opening /\ c \notin {"E2", "L2", "W2"}
BY Zenon DEF PlainBytes, LetterBytes, Bytes, Opening, NoByte

\* A character that is open is one of three, or none is.
LEMMA OpenType == \A b : Open(b) \in Opening \cup {NoByte}
BY NoByteIs

\* A plain byte opens nothing and may follow where nothing is open.
LEMMA OpenFacts ==
    /\ Open(NoByte) = NoByte /\ Open("\n") = NoByte
    /\ \A c \in PlainBytes : Open(c) = NoByte /\ c \in Follow(NoByte)
  <1>1. Open(NoByte) = NoByte /\ Open("\n") = NoByte /\ \A c \in PlainBytes : Open(c) = NoByte
    BY ByteFacts, NoByteIs, Zenon
  <1>2. \A c \in PlainBytes : c \in Follow(NoByte)
    BY ByteFacts, NoByteIs, Zenon
  <1> QED BY <1>1, <1>2

\* What a byte that may follow says of the one before it.
LEMMA FollowFacts ==
    ASSUME NEW a \in Bytes \cup {NoByte}, NEW b \in Follow(Open(a))
    PROVE  /\ b \in LetterBytes => b \in Follow(LetterOf(a)) /\ Open(b) = LetterOf(b)
           /\ b \notin LetterBytes => LetterOf(a) = NoByte /\ LetterOf(b) = NoByte
           /\ b = "E2" => a = "E1"
           /\ b = "L2" => a = "L1"
           /\ b = "W2" => a = "W1"
           /\ a \in {"L1", "W1"} => b = RestOf(a)
<1>1. RestOf("E1") = "E2" /\ RestOf("L1") = "L2" /\ RestOf("W1") = "W2"
  BY DEF RestOf
<1>2. a \in Opening => a = "E1" \/ a = "L1" \/ a = "W1"
  BY DEF Opening
<1>3. "E1" \in Opening /\ "L1" \in Opening /\ "W1" \in Opening /\ NoByte \notin Opening
  BY Zenon DEF Opening, NoByte
<1>4. \A open : open # NoByte => Follow(open) = {RestOf(open)}
  BY NoByteIs
<1>5. Follow(NoByte) = Bytes \ {"E2", "L2", "W2"}
  BY NoByteIs
<1>6. \A c : c \in LetterBytes <=> c = "L1" \/ c = "L2" \/ c = "W1" \/ c = "W2"
  BY DEF LetterBytes
<1>7. CASE a = "E1"
  <2>1. b = "E2"
    BY <1>1, <1>3, <1>4, <1>7, NoByteIs
  <2>2. LetterOf("E1") = NoByte /\ LetterOf("E2") = NoByte
    BY Zenon DEF LetterOf
  <2>6. "E2" \notin LetterBytes
    BY Zenon DEF LetterBytes
  <2>3. "E1" \notin {"L1", "W1"}
    OBVIOUS
  <2>4. a \notin {"L1", "W1"} /\ LetterOf(a) = NoByte /\ LetterOf(b) = NoByte /\ b \notin LetterBytes
    BY <1>7, <2>1, <2>2, <2>3, <2>6
  <2>5. b # "L2" /\ b # "W2"
    BY <2>1
  <2> QED BY <1>7, <2>4, <2>5
<1>8. CASE a = "L1"
  <2>1. b = "L2"
    BY <1>1, <1>3, <1>4, <1>8, NoByteIs
  <2>2. LetterOf(a) = a /\ Open(a) = a
    BY <1>3, <1>8, NoByteIs DEF LetterOf
  <2>3. "L2" \notin Opening /\ "L2" \notin {"L1", "W1"}
    BY DEF Opening
  <2> QED BY <1>1, <1>6, <1>8, <2>1, <2>2, <2>3, NoByteIs DEF LetterOf
<1>9. CASE a = "W1"
  <2>1. b = "W2"
    BY <1>1, <1>3, <1>4, <1>9, NoByteIs
  <2>2. LetterOf(a) = a /\ Open(a) = a
    BY <1>3, <1>9, NoByteIs DEF LetterOf
  <2>3. "W2" \notin Opening /\ "W2" \notin {"L1", "W1"}
    BY DEF Opening
  <2> QED BY <1>1, <1>6, <1>9, <2>1, <2>2, <2>3, NoByteIs DEF LetterOf
<1>10. CASE a \notin Opening
  <2>1. Open(a) = NoByte /\ LetterOf(a) = NoByte
    BY <1>3, <1>10, NoByteIs DEF LetterOf
  <2>2. b \notin {"E2", "L2", "W2"}
    BY <1>5, <2>1
  <2>3. b \in LetterBytes => b = "L1" \/ b = "W1"
    BY <1>6, <2>2
  <2>4. b \in LetterBytes => Open(b) = b /\ LetterOf(b) = b
    BY <1>3, <2>3, NoByteIs DEF LetterOf
  <2>5. b \notin LetterBytes => LetterOf(b) = NoByte
    BY <1>6 DEF LetterOf
  <2> QED BY <1>3, <1>10, <2>1, <2>2, <2>4, <2>5
<1> QED BY <1>2, <1>7, <1>8, <1>9, <1>10

-----------------------------------------------------------------------------
(* Bytes that follow each other. *)

\* Each byte of s may follow the one before it, the first one what is open.
FollowsFrom(open, s) ==
    \A i \in 1..Len(s) : s[i] \in Follow(IF i = 1 THEN open ELSE Open(s[i - 1]))

\* What is open behind s.
OpenAt(open, s) == IF s = <<>> THEN open ELSE OpenAfter(s)

\* No bytes follow anything, and leave open what was.
LEMMA FollowsNothing == \A open : FollowsFrom(open, <<>>) /\ OpenAt(open, <<>>) = open
BY DEF FollowsFrom, OpenAt

\* Two parts that follow each other, put together.
LEMMA FollowsConcat ==
    ASSUME NEW open, NEW s \in Seq(Bytes), NEW t \in Seq(Bytes),
           FollowsFrom(open, s), FollowsFrom(OpenAt(open, s), t)
    PROVE  /\ FollowsFrom(open, s \o t)
           /\ OpenAt(open, s \o t) = OpenAt(OpenAt(open, s), t)
<1> DEFINE u == s \o t
<1>1. /\ u \in Seq(Bytes) /\ Len(s) \in Nat /\ Len(t) \in Nat /\ Len(u) = Len(s) + Len(t)
      /\ \A i \in 1..Len(s) : u[i] = s[i]
      /\ \A i \in (Len(s) + 1)..Len(u) : u[i] = t[i - Len(s)]
  OBVIOUS
<1>2. CASE s = <<>>
  <2>1. u = t /\ OpenAt(open, s) = open
    BY <1>2 DEF OpenAt
  <2> QED BY <2>1
<1>3. CASE t = <<>>
  <2>1. u = s
    BY <1>3
  <2>2. OpenAt(OpenAt(open, s), t) = OpenAt(open, s)
    BY <1>3 DEF OpenAt
  <2> QED BY <2>1, <2>2
<1>4. CASE s # <<>> /\ t # <<>>
  <2>1. Len(s) > 0 /\ Len(t) > 0 /\ u # <<>>
    BY <1>1, <1>4
  <2>2. u[Len(u)] = t[Len(t)]
    <3>1. Len(u) \in (Len(s) + 1)..Len(u) /\ Len(u) - Len(s) = Len(t)
      BY <1>1, <2>1
    <3>2. u[Len(u)] = t[Len(u) - Len(s)]
      BY <1>1, <3>1
    <3> QED BY <3>1, <3>2
  <2>3. OpenAt(open, u) = OpenAt(OpenAt(open, s), t)
    BY <1>4, <2>1, <2>2 DEF OpenAt, OpenAfter, Last
  <2>4. OpenAt(open, s) = Open(s[Len(s)])
    BY <1>4 DEF OpenAt, OpenAfter, Last
  <2> HIDE DEF u
  <2>5. ASSUME NEW i \in 1..Len(u)
        PROVE  u[i] \in Follow(IF i = 1 THEN open ELSE Open(u[i - 1]))
    <3>1. CASE i <= Len(s)
      <4>1. i \in 1..Len(s) /\ u[i] = s[i]
        BY <1>1, <3>1
      <4>2. i # 1 => u[i - 1] = s[i - 1]
        <5> SUFFICES ASSUME i # 1 PROVE u[i - 1] = s[i - 1]
          OBVIOUS
        <5>1. i - 1 \in 1..Len(s)
          BY <1>1, <4>1
        <5> QED BY <1>1, <5>1
      <4>3. s[i] \in Follow(IF i = 1 THEN open ELSE Open(s[i - 1]))
        BY <4>1 DEF FollowsFrom
      <4> QED BY <4>1, <4>2, <4>3
    <3>2. CASE ~(i <= Len(s))
      <4> DEFINE j == i - Len(s)
      <4>1. j \in 1..Len(t) /\ u[i] = t[j] /\ i # 1 /\ i \in Nat
        BY <1>1, <2>1, <3>2
      <4>2. t[j] \in Follow(IF j = 1 THEN Open(s[Len(s)]) ELSE Open(t[j - 1]))
        <5> HIDE DEF j
        <5> QED BY <2>4, <4>1 DEF FollowsFrom
      <4>3. CASE j = 1
        <5>1. i - 1 = Len(s) /\ Len(s) \in 1..Len(s)
          BY <1>1, <2>1, <4>1, <4>3
        <5>2. u[i - 1] = s[Len(s)]
          BY <1>1, <5>1
        <5> QED BY <4>1, <4>2, <4>3, <5>2
      <4>4. CASE j # 1
        <5>0. Len(s) \in Nat /\ Len(t) \in Nat /\ Len(u) = Len(s) + Len(t)
          BY <1>1
        <5>1. i - 1 \in (Len(s) + 1)..Len(u) /\ i - 1 - Len(s) = j - 1
          BY ONLY <4>1, <4>4, <5>0
        <5>2. u[i - 1] = t[i - 1 - Len(s)]
          BY <1>1, <5>1
        <5>3. u[i - 1] = t[j - 1]
          BY <5>1, <5>2
        <5>4. u[i] \in Follow(Open(t[j - 1]))
          BY ONLY <4>1, <4>2, <4>4
        <5>5. u[i] \in Follow(Open(u[i - 1]))
          BY ONLY <5>3, <5>4
        <5> QED BY ONLY <4>1, <5>5
      <4> QED BY <4>3, <4>4
    <3> QED BY <3>1, <3>2
  <2> QED BY <2>3, <2>5 DEF FollowsFrom, u
<1> QED BY <1>2, <1>3, <1>4

\* The bytes up to and behind a newline.
LEMMA FollowsNewline ==
    ASSUME NEW open, NEW s \in Seq(Bytes), NEW k \in 1..Len(s), s[k] = "\n",
           FollowsFrom(open, s)
    PROVE  /\ FollowsFrom(open, SubSeq(s, 1, k)) /\ OpenAt(open, SubSeq(s, 1, k)) = NoByte
           /\ FollowsFrom(NoByte, From(s, k + 1))
           /\ OpenAt(NoByte, From(s, k + 1)) = OpenAt(open, s)
<1> DEFINE u == SubSeq(s, 1, k)
           v == SubSeq(s, k + 1, Len(s))
<1>0. Len(s) \in Nat /\ s # <<>>
  OBVIOUS
<1>1. u \in Seq(Bytes) /\ Len(u) = k /\ \A i \in 1..k : u[i] = s[i]
  OBVIOUS
<1>2. v \in Seq(Bytes) /\ Len(v) = Len(s) - k /\ \A i \in 1..Len(v) : v[i] = s[i + k]
  OBVIOUS
<1> HIDE DEF u, v
<1>3. FollowsFrom(open, u)
  <2>1. ASSUME NEW i \in 1..k
        PROVE  u[i] \in Follow(IF i = 1 THEN open ELSE Open(u[i - 1]))
    <3>1. s[i] \in Follow(IF i = 1 THEN open ELSE Open(s[i - 1]))
      BY DEF FollowsFrom
    <3>2. i # 1 => u[i - 1] = s[i - 1]
      <4> SUFFICES ASSUME i # 1 PROVE u[i - 1] = s[i - 1]
        OBVIOUS
      <4>1. i - 1 \in 1..k
        OBVIOUS
      <4> QED BY <1>1, <4>1
    <3> QED BY <1>1, <3>1, <3>2
  <2> QED BY <1>1, <2>1 DEF FollowsFrom
<1>4. OpenAt(open, u) = NoByte
  <2>1. u # <<>> /\ u[Len(u)] = "\n"
    BY <1>1
  <2> QED BY <2>1, OpenFacts DEF OpenAt, OpenAfter, Last
<1>5. FollowsFrom(NoByte, v)
  <2>1. ASSUME NEW i \in 1..Len(v)
        PROVE  v[i] \in Follow(IF i = 1 THEN NoByte ELSE Open(v[i - 1]))
    <3> DEFINE j == i + k
    <3>1. j \in 1..Len(s) /\ j # 1 /\ v[i] = s[j]
      BY <1>0, <1>2
    <3>2. s[j] \in Follow(Open(s[j - 1]))
      <4> HIDE DEF j
      <4> QED BY <3>1 DEF FollowsFrom
    <3>3. CASE i = 1
      <4>1. j - 1 = k
        BY <3>3
      <4>2. Open(s[j - 1]) = NoByte
        BY <4>1, OpenFacts
      <4> HIDE DEF j
      <4> QED BY <3>1, <3>2, <3>3, <4>2
    <3>4. CASE i # 1
      <4>1. i - 1 \in 1..Len(v) /\ i - 1 + k = j - 1
        BY <1>0, <1>2, <3>4
      <4>2. v[i - 1] = s[i - 1 + k]
        BY <1>2, <4>1
      <4>3. v[i - 1] = s[j - 1]
        BY <4>1, <4>2
      <4> HIDE DEF j
      <4> QED BY <3>1, <3>2, <3>4, <4>3
    <3> QED BY <3>3, <3>4
  <2> QED BY <2>1 DEF FollowsFrom
<1>6. OpenAt(NoByte, v) = OpenAt(open, s)
  <2>1. CASE k = Len(s)
    <3>1. v = <<>>
      BY <1>0, <1>2, <2>1
    <3>2. OpenAt(open, s) = NoByte
      BY <1>0, <2>1, OpenFacts DEF OpenAt, OpenAfter, Last
    <3> QED BY <3>1, <3>2 DEF OpenAt
  <2>2. CASE k # Len(s)
    <3>1. v # <<>> /\ Len(v) \in 1..Len(v) /\ Len(v) + k = Len(s)
      BY <1>0, <1>2, <2>2
    <3>2. v[Len(v)] = s[Len(v) + k]
      BY <1>2, <3>1
    <3>3. v[Len(v)] = s[Len(s)]
      BY <3>1, <3>2
    <3> QED BY <1>0, <3>1, <3>3 DEF OpenAt, OpenAfter, Last
  <2> QED BY <2>1, <2>2
<1> QED BY <1>3, <1>4, <1>5, <1>6 DEF u, v, From

-----------------------------------------------------------------------------
(* Text of whole characters. *)

\* No character of s is cut off at its start or its end.
Whole(s) == FollowsFrom(NoByte, s) /\ OpenAt(NoByte, s) = NoByte

\* What is before the byte behind the n-th.
LEMMA BeforeNext == ASSUME NEW s, NEW n \in Nat, n >= 1 PROVE Before(s, n + 1) = s[n]
<1>1. n + 1 > 1 /\ n + 1 - 1 = n
  OBVIOUS
<1>2. \A i : i > 1 => Before(s, i) = s[i - 1]
  BY NoByteIs, Zenon
<1> QED BY ONLY <1>1, <1>2

\* Each byte may follow the one before it.
LEMMA FollowsBefore ==
    ASSUME NEW s \in Seq(Bytes), FollowsFrom(NoByte, s), NEW i \in 1..Len(s)
    PROVE  s[i] \in Follow(Open(Before(s, i))) /\ Before(s, i) \in Bytes \cup {NoByte}
<1>1. s[i] \in Follow(IF i = 1 THEN NoByte ELSE Open(s[i - 1]))
  BY DEF FollowsFrom
<1>2. CASE i = 1
  <2>1. Before(s, i) = NoByte
    BY <1>2, NoByteIs
  <2> QED BY <1>1, <1>2, <2>1, OpenFacts
<1>3. CASE i # 1
  <2>1. i > 1 /\ i - 1 \in 1..Len(s)
    BY <1>3
  <2>2. Before(s, i) = s[i - 1] /\ s[i - 1] \in Bytes
    BY <2>1, NoByteIs
  <2> QED BY <1>1, <1>3, <2>2
<1> QED BY <1>2, <1>3

\* One byte that may follow.
LEMMA FollowsOne ==
    ASSUME NEW open, NEW b \in Follow(open)
    PROVE  FollowsFrom(open, <<b>>) /\ OpenAt(open, <<b>>) = Open(b)
<1>1. <<b>> # <<>> /\ Len(<<b>>) = 1 /\ <<b>>[1] = b
  OBVIOUS
<1>2. \A i \in 1..1 : i = 1
  OBVIOUS
<1>3. FollowsFrom(open, <<b>>)
  BY <1>1, <1>2 DEF FollowsFrom
<1>4. OpenAt(open, <<b>>) = Open(b)
  BY <1>1 DEF OpenAt, OpenAfter, Last
<1> QED BY <1>3, <1>4

\* Plain bytes follow each other and leave nothing open.
LEMMA FollowsPlain ==
    ASSUME NEW s \in Seq(PlainBytes)
    PROVE  FollowsFrom(NoByte, s) /\ OpenAt(NoByte, s) = NoByte
<1>1. \A i \in 1..Len(s) : s[i] \in PlainBytes
  OBVIOUS
<1>2. ASSUME NEW i \in 1..Len(s)
      PROVE  (IF i = 1 THEN NoByte ELSE Open(s[i - 1])) = NoByte
  <2>1. i # 1 => i - 1 \in 1..Len(s)
    OBVIOUS
  <2>2. i # 1 => Open(s[i - 1]) = NoByte
    BY <1>1, <2>1, OpenFacts
  <2> QED BY <2>2
<1>3. FollowsFrom(NoByte, s)
  BY <1>1, <1>2, OpenFacts DEF FollowsFrom
<1>4. CASE s = <<>>
  BY <1>3, <1>4 DEF OpenAt
<1>5. CASE s # <<>>
  <2>1. Len(s) \in 1..Len(s)
    BY <1>5
  <2>2. Open(s[Len(s)]) = NoByte
    BY <1>1, <2>1, OpenFacts
  <2> QED BY <1>3, <1>5, <2>2 DEF OpenAt, OpenAfter, Last
<1> QED BY <1>4, <1>5

\* What keeps the bytes of letters one by one, and puts only plain bytes in
\* the place of others, keeps what is whole whole.
LEMMA KeptWhole ==
    ASSUME NEW s \in Seq(Bytes), Whole(s),
           NEW ss \in Seq(Seq(LetterBytes \cup PlainBytes)), Len(ss) = Len(s),
           \A i \in 1..Len(s) : IF s[i] \in LetterBytes THEN ss[i] = <<s[i]>>
                                ELSE ss[i] \in Seq(PlainBytes)
    PROVE  FlattenSeq(ss) \in Seq(LetterBytes \cup PlainBytes) /\ Whole(FlattenSeq(ss))
<1> DEFINE N == Len(s)
           B == LetterBytes \cup PlainBytes
           P(n) == /\ FollowsFrom(NoByte, Upto(ss, n))
                   /\ OpenAt(NoByte, Upto(ss, n)) = LetterOf(Before(s, n + 1))
           T == {n \in 0..N : P(n)}
<1>1. N \in Nat /\ B \subseteq Bytes /\ ss \in Seq(Seq(B))
  BY ByteFacts
<1>2. LetterOf(NoByte) = NoByte
  BY DEF LetterOf
<1>3. P(0)
  <2>1. Upto(ss, 0) = <<>>
    BY <1>1, UptoEnds
  <2>2. Before(s, 0 + 1) = NoByte
    BY NoByteIs
  <2> QED BY <1>2, <2>1, <2>2, FollowsNothing
<1>4. ASSUME NEW n \in 1..N, P(n - 1) PROVE P(n)
  <2> DEFINE a == Before(s, n)
             b == s[n]
             u == Upto(ss, n - 1)
  <2>1. b \in Follow(Open(a)) /\ a \in Bytes \cup {NoByte}
    BY FollowsBefore DEF Whole
  <2>2. FollowsFrom(NoByte, u) /\ OpenAt(NoByte, u) = LetterOf(a)
    <3>1. n - 1 + 1 = n
      OBVIOUS
    <3> QED BY <1>4, <3>1
  <2>3. Before(s, n + 1) = b
    BY <1>1, BeforeNext
  <2>4. Upto(ss, n) = u \o ss[n]
    BY <1>1, UptoStep
  <2>5. u \in Seq(Bytes) /\ ss[n] \in Seq(Bytes)
    <3>1. n - 1 \in 0..Len(ss) /\ n \in 1..Len(ss)
      OBVIOUS
    <3>2. u \in Seq(B)
      BY <1>1, <3>1, UptoType
    <3>3. ss[n] \in Seq(B)
      BY <1>1, <3>1
    <3> HIDE DEF B, u
    <3>4. \A r \in Seq(B) : r \in Seq(Bytes)
      BY <1>1
    <3> QED BY ONLY <3>2, <3>3, <3>4
  <2>6. FollowsFrom(LetterOf(a), ss[n]) /\ OpenAt(LetterOf(a), ss[n]) = LetterOf(b)
    <3> HIDE DEF a, u
    <3>1. CASE b \in LetterBytes
      <4>1. ss[n] = <<b>>
        BY <3>1
      <4>2. b \in Follow(LetterOf(a)) /\ Open(b) = LetterOf(b)
        BY <2>1, <3>1, FollowFacts
      <4> QED BY <4>1, <4>2, FollowsOne
    <3>2. CASE b \notin LetterBytes
      <4>1. ss[n] \in Seq(PlainBytes)
        BY <3>2
      <4>2. LetterOf(a) = NoByte /\ LetterOf(b) = NoByte
        BY <2>1, <3>2, FollowFacts
      <4> QED BY <4>1, <4>2, FollowsPlain
    <3> QED BY <3>1, <3>2
  <2> HIDE DEF a, b, u
  <2>7. FollowsFrom(NoByte, u \o ss[n]) /\ OpenAt(NoByte, u \o ss[n]) = LetterOf(b)
    BY <2>2, <2>5, <2>6, FollowsConcat
  <2> QED BY <2>3, <2>4, <2>7
<1> HIDE DEF P
<1>5. \A n \in 0..N : n \in T
  <2>1. 0 \in T
    BY <1>1, <1>3
  <2>2. \A n \in 1..N : n - 1 \in T => n \in T
    BY <1>1, <1>4
  <2> HIDE DEF T
  <2> QED BY <1>1, <2>1, <2>2, Induction
<1>6. P(N)
  BY <1>1, <1>5
<1>7. Upto(ss, N) = FlattenSeq(ss)
  BY <1>1, UptoEnds
<1>8. LetterOf(Before(s, N + 1)) = NoByte
  <2>1. CASE N = 0
    BY <1>2, <2>1, NoByteIs
  <2>2. CASE N # 0
    <3>1. N + 1 > 1 /\ N + 1 - 1 = N /\ s # <<>>
      BY <1>1, <2>2
    <3>2. Before(s, N + 1) = s[N] /\ Open(s[N]) = NoByte
      BY <3>1, NoByteIs DEF Whole, OpenAt, OpenAfter, Last
    <3>3. s[N] \in Bytes
      BY <1>1, <2>2
    <3>4. s[N] \notin {"L1", "W1"}
      <4>1. "L1" \in Opening /\ "W1" \in Opening
        BY DEF Opening
      <4> QED BY <3>2, <3>3, <4>1, ByteFacts, NoByteIs
    <3> QED BY <3>2, <3>4 DEF LetterOf
  <2> QED BY <2>1, <2>2
<1>9. FlattenSeq(ss) \in Seq(B)
  BY <1>1, FlattenType
<1> QED BY <1>6, <1>7, <1>8, <1>9 DEF P, Whole

\* strip takes escape sequences out as a whole, and no character with them.
LEMMA StripWhole ==
    ASSUME NEW bytes \in Seq(Bytes), Whole(bytes)
    PROVE  Strip(bytes) \in Seq(LetterBytes \cup PlainBytes) /\ Whole(Strip(bytes))
<1> DEFINE piece(i) == IF bytes[i] = "E1" \/ (bytes[i] = "E2" /\ Before(bytes, i) = "E1")
                       THEN <<>> ELSE <<bytes[i]>>
           ss == [i \in 1..Len(bytes) |-> piece(i)]
           B == LetterBytes \cup PlainBytes
<1>1. ASSUME NEW i \in 1..Len(bytes)
      PROVE  /\ piece(i) \in Seq(B)
             /\ IF bytes[i] \in LetterBytes THEN piece(i) = <<bytes[i]>>
                ELSE piece(i) \in Seq(PlainBytes)
  <2> DEFINE b == bytes[i]
             gone == b = "E1" \/ (b = "E2" /\ Before(bytes, i) = "E1")
  <2>1. b \in Bytes
    OBVIOUS
  <2>2. piece(i) = IF gone THEN <<>> ELSE <<b>>
    OBVIOUS
  <2>3. b \in LetterBytes => ~gone
    BY ByteFacts
  <2>4. ~gone => b \in B
    <3>1. b = "E2" => Before(bytes, i) = "E1"
      <4> HIDE DEF b
      <4>1. b \in Follow(Open(Before(bytes, i))) /\ Before(bytes, i) \in Bytes \cup {NoByte}
        BY FollowsBefore DEF Whole, b
      <4> QED BY ONLY <4>1, FollowFacts
    <3> QED BY <2>1, <3>1, ByteFacts
  <2> HIDE DEF b, gone, piece
  <2>5. CASE gone
    BY <2>2, <2>3, <2>5 DEF b
  <2>6. CASE ~gone
    <3>1. b \notin LetterBytes => b \in PlainBytes
      BY <2>4, <2>6
    <3>2. <<b>> \in Seq(B)
      <4> HIDE DEF B
      <4> QED BY <2>4, <2>6
    <3>3. b \notin LetterBytes => <<b>> \in Seq(PlainBytes)
      BY <3>1
    <3> QED BY <2>2, <2>6, <3>2, <3>3 DEF b
  <2> QED BY <2>5, <2>6
<1>2. Strip(bytes) = FlattenSeq(ss)
  BY DEF Strip
<1>3. Len(bytes) \in Nat /\ Len(ss) = Len(bytes)
  OBVIOUS
<1> HIDE DEF piece
<1>4. ss \in Seq(Seq(B))
  <2> HIDE DEF B
  <2> QED BY <1>1, <1>3
<1>5. \A i \in 1..Len(bytes) : IF bytes[i] \in LetterBytes THEN ss[i] = <<bytes[i]>>
                               ELSE ss[i] \in Seq(PlainBytes)
  BY <1>1
<1> HIDE DEF ss
<1> QED BY <1>2, <1>3, <1>4, <1>5, KeptWhole

\* ... and the line endings become newlines: no character is touched.
LEMMA NormalizeWhole ==
    ASSUME NEW bytes \in Seq(Bytes), Whole(bytes)
    PROVE  Normalize(bytes) \in Seq(LetterBytes \cup PlainBytes) /\ Whole(Normalize(bytes))
<1> DEFINE s == Strip(bytes)
           piece(i) == IF s[i] # "\r" THEN <<s[i]>>
                       ELSE IF After(s, i) = "\n" THEN <<>> ELSE <<"\n">>
           ss == [i \in 1..Len(s) |-> piece(i)]
           B == LetterBytes \cup PlainBytes
<1>1. Normalize(bytes) = FlattenSeq(ss)
  BY DEF Normalize
<1>2. s \in Seq(B) /\ Whole(s)
  BY StripWhole
<1> HIDE DEF s
<1>3. \A b \in LetterBytes : b # "\r"
  BY Zenon DEF LetterBytes
<1>4. "\n" \in PlainBytes
  BY ByteFacts
<1>5. ASSUME NEW i \in 1..Len(s)
      PROVE  /\ piece(i) \in Seq(B)
             /\ IF s[i] \in LetterBytes THEN piece(i) = <<s[i]>>
                ELSE piece(i) \in Seq(PlainBytes)
  <2> DEFINE b == s[i]
             c == "\n"
  <2>1. b \in B
    <3> HIDE DEF B
    <3> QED BY <1>2
  <2>2. piece(i) = <<b>> \/ (b \notin LetterBytes /\ (piece(i) = <<>> \/ piece(i) = <<c>>))
    <3>1. piece(i) = <<b>> \/ (b = "\r" /\ (piece(i) = <<>> \/ piece(i) = <<c>>))
      BY Zenon
    <3> HIDE DEF piece, c
    <3> QED BY <1>3, <3>1
  <2>3. c \in PlainBytes
    BY <1>4
  <2> HIDE DEF b, c, piece
  <2>4. b \notin LetterBytes => b \in PlainBytes
    BY <2>1
  <2>5. \A x \in B : <<x>> \in Seq(B)
    OBVIOUS
  <2>6. \A x \in PlainBytes : <<x>> \in Seq(PlainBytes) /\ <<x>> \in Seq(B)
    OBVIOUS
  <2>7. <<>> \in Seq(PlainBytes) /\ <<>> \in Seq(B)
    OBVIOUS
  <2>8. /\ piece(i) \in Seq(B)
        /\ IF b \in LetterBytes THEN piece(i) = <<b>> ELSE piece(i) \in Seq(PlainBytes)
    <3> HIDE DEF B
    <3> QED BY ONLY <2>1, <2>2, <2>3, <2>4, <2>5, <2>6, <2>7
  <2> QED BY <2>8 DEF b
<1> HIDE DEF piece
<1>6. Len(s) \in Nat /\ Len(ss) = Len(s) /\ s \in Seq(Bytes)
  <2>1. B \subseteq Bytes
    BY ByteFacts
  <2> HIDE DEF B
  <2> QED BY <1>2, <2>1
<1>7. ss \in Seq(Seq(B))
  <2> HIDE DEF B
  <2> QED BY <1>5, <1>6
<1>8. \A i \in 1..Len(s) : IF s[i] \in LetterBytes THEN ss[i] = <<s[i]>>
                           ELSE ss[i] \in Seq(PlainBytes)
  BY <1>5
<1> HIDE DEF ss
<1> QED BY <1>1, <1>2, <1>6, <1>7, <1>8, KeptWhole

\* Among whole characters no byte decodes to a replacement character, and none
\* is the end of an escape sequence.
LEMMA DecodePieceWhole ==
    ASSUME NEW s \in Seq(Bytes), s \in Seq(Bytes \ {"E1", "\r"}), Whole(s),
           s \in Seq(LetterBytes \cup PlainBytes), NEW i \in 1..Len(s)
    PROVE  DecodePiece(s, i) \in Seq(PlainChars \ {"?", "m"})
<1> DEFINE b == s[i]
           C == PlainChars \ {"?", "m"}
<1>1. b \in Bytes \ {"E1", "\r"}
  <2> DEFINE B == Bytes \ {"E1", "\r"}
  <2>1. s \in Seq(B)
    OBVIOUS
  <2> HIDE DEF B
  <2>2. s[i] \in B
    BY ONLY <2>1, i \in 1..Len(s)
  <2> QED BY <2>2 DEF B
<1>2. b # "E2"
  <2> DEFINE B == LetterBytes \cup PlainBytes
  <2>1. s \in Seq(B)
    OBVIOUS
  <2> HIDE DEF B
  <2>2. s[i] \in B
    BY ONLY <2>1, i \in 1..Len(s)
  <2> QED BY <2>2, ByteFacts DEF B
<1>3. b \in {"L1", "W1"} => After(s, i) = RestOf(b)
  <2> SUFFICES ASSUME b \in {"L1", "W1"} PROVE After(s, i) = RestOf(b)
    OBVIOUS
  <2>1. b \in Opening /\ Open(b) # NoByte
    <3>1. b \in Opening
      BY Zenon DEF Opening
    <3> QED BY <3>1, ByteFacts, NoByteIs
  <2>2. i < Len(s)
    <3>1. s # <<>> => OpenAt(NoByte, s) = Open(s[Len(s)])
      BY DEF OpenAt, OpenAfter, Last
    <3>2. s # <<>> /\ i \in Nat /\ Len(s) \in Nat /\ i <= Len(s)
      OBVIOUS
    <3>3. i # Len(s)
      BY <2>1, <3>1, <3>2 DEF Whole
    <3> QED BY <3>2, <3>3
  <2>3. i + 1 \in 1..Len(s) /\ i + 1 > 1 /\ i + 1 - 1 = i
    BY ONLY <2>2, i \in 1..Len(s), s \in Seq(Bytes)
  <2>4. s[i + 1] \in Follow(Open(Before(s, i + 1)))
    BY <2>3, FollowsBefore DEF Whole
  <2>5. Before(s, i + 1) = b
    BY <2>3, NoByteIs
  <2>6. b \in Bytes \cup {NoByte}
    BY <1>1
  <2> HIDE DEF b
  <2>7. s[i + 1] = RestOf(b)
    BY <2>4, <2>5, <2>6, FollowFacts
  <2> QED BY <2>2, <2>7 DEF After
<1>4. (b = "L2" => Before(s, i) = "L1") /\ (b = "W2" => Before(s, i) = "W1")
  <2>1. b \in Follow(Open(Before(s, i))) /\ Before(s, i) \in Bytes \cup {NoByte}
    BY FollowsBefore DEF Whole
  <2> HIDE DEF b
  <2> QED BY ONLY <2>1, FollowFacts
<1>5. \/ DecodePiece(s, i) \in {<<"L">>, <<"W">>, <<>>}
      \/ b \notin {"L1", "W1", "L2", "W2", "E2"} /\ DecodePiece(s, i) = <<b>>
  <2> HIDE DEF b
  <2>1. DecodePiece(s, i) =
            CASE b \in {"L1", "W1"} ->
                    IF After(s, i) # RestOf(b) THEN <<"?">>
                    ELSE IF b = "L1" THEN <<"L">> ELSE <<"W">>
              [] b = "L2" -> IF Before(s, i) = "L1" THEN <<>> ELSE <<"?">>
              [] b = "W2" -> IF Before(s, i) = "W1" THEN <<>> ELSE <<"?">>
              [] b = "E2" -> <<"m">>
              [] OTHER -> <<b>>
    BY DEF DecodePiece, b
  <2> QED BY ONLY <1>2, <1>3, <1>4, <2>1
<1>6. b \notin {"L1", "W1", "L2", "W2", "E2"} => b \in C
  BY <1>1, DecodedChars, Zenon
<1>7. "L" \in C /\ "W" \in C
  BY DecodedChars, Zenon
<1> HIDE DEF b, C
<1>8. \A c \in C : <<c>> \in Seq(C)
  OBVIOUS
<1>9. <<>> \in Seq(C)
  OBVIOUS
<1>10. DecodePiece(s, i) \in Seq(C)
  BY ONLY <1>5, <1>6, <1>7, <1>8, <1>9
<1> QED BY <1>10 DEF C

\* Bytes that cut no character and no escape sequence, at their start or at
\* their end, become text without a replacement character and without the rest
\* of an escape sequence (normalize_text, chunker.rs:112-129).
THEOREM TextOfWhole ==
    ASSUME NEW bytes \in Seq(Bytes), Whole(bytes)
    PROVE  Text(bytes) \in Seq(PlainChars \ {"?", "m"})
<1> DEFINE s == Normalize(bytes)
           B == Bytes \ {"E1", "\r"}
           D == LetterBytes \cup PlainBytes
           C == PlainChars \ {"?", "m"}
<1>1. s \in Seq(B)
  BY NormalizeType
<1>2. s \in Seq(D) /\ Whole(s)
  BY NormalizeWhole
<1>3. s \in Seq(Bytes)
  <2>1. D \subseteq Bytes
    BY ByteFacts
  <2> HIDE DEF D, s
  <2> QED BY <1>2, <2>1
<1> HIDE DEF s
<1>4. \A i \in 1..Len(s) : DecodePiece(s, i) \in Seq(C)
  BY <1>1, <1>2, <1>3, DecodePieceWhole
<1> HIDE DEF B, C, D
<1>5. Decode(s) \in Seq(C)
  BY ONLY <1>1, <1>4, DecodePieces
<1> QED BY <1>5 DEF Text, s, C

-----------------------------------------------------------------------------
(* What a call is given, and what it returns. *)

\* A call that flushes nothing returns nothing.
LEMMA NothingFlushed ==
    /\ Text(<<>>) = <<>> /\ ~Panics(<<>>) /\ ChunksFromText(<<>>) = <<>>
    /\ Whole(<<>>)
<1>2. Strip(<<>>) = <<>>
  <2> DEFINE p(i) == IF <<>>[i] = "E1" \/ (<<>>[i] = "E2" /\ Before(<<>>, i) = "E1")
                     THEN <<>> ELSE <<(<<>>[i])>>
  <2>1. Strip(<<>>) = FlattenSeq([i \in 1..Len(<<>>) |-> p(i)])
    BY DEF Strip
  <2> HIDE DEF p
  <2>2. [i \in 1..Len(<<>>) |-> p(i)] = <<>>
    OBVIOUS
  <2> QED BY <2>1, <2>2, FlattenEmpty
<1>3. Normalize(<<>>) = <<>>
  <2> DEFINE p(i) == IF <<>>[i] # "\r" THEN <<(<<>>[i])>>
                     ELSE IF After(<<>>, i) = "\n" THEN <<>> ELSE <<"\n">>
  <2>1. Normalize(<<>>) = FlattenSeq([i \in 1..Len(<<>>) |-> p(i)])
    BY <1>2 DEF Normalize
  <2> HIDE DEF p
  <2>2. [i \in 1..Len(<<>>) |-> p(i)] = <<>>
    OBVIOUS
  <2> QED BY <2>1, <2>2, FlattenEmpty
<1>4. Decode(<<>>) = <<>>
  <2> DEFINE p(i) == DecodePiece(<<>>, i)
  <2>1. Decode(<<>>) = FlattenSeq([i \in 1..Len(<<>>) |-> p(i)])
    BY DEF Decode, DecodePiece
  <2> HIDE DEF p
  <2>2. [i \in 1..Len(<<>>) |-> p(i)] = <<>>
    OBVIOUS
  <2> QED BY <2>1, <2>2, FlattenEmpty
<1>5. Text(<<>>) = <<>>
  BY <1>3, <1>4 DEF Text
<1>6. Blank(<<>>)
  BY DEF Blank
<1> QED BY <1>5, <1>6, FollowsNothing DEF Panics, ChunksFromText, Whole

\* A read is bytes that follow what is open.
LEMMA ReadsFollow ==
    ASSUME NEW n \in 0..MaxBytes, NEW open \in Opening \cup {NoByte},
           NEW read \in Reads[n][open]
    PROVE  read \in Seq(Bytes) /\ Len(read) = n /\ FollowsFrom(open, read)
<1>0. n \in Nat
  BY SilenceAssumption DEF SilenceAssumption
<1> DEFINE O == Opening \cup {NoByte}
           R(m, o) == {r \in [1..m -> Bytes] :
                \A i \in 1..m : r[i] \in Follow(IF i = 1 THEN o ELSE Open(r[i - 1]))}
<1>1. Reads = [m \in 0..MaxBytes |-> [o \in O |-> R(m, o)]]
  BY Zenon DEF Reads, NoByte
<1>2. read \in R(n, open)
  <2>1. open \in O
    OBVIOUS
  <2> HIDE DEF R, O
  <2>2. Reads[n][open] = R(n, open)
    BY ONLY <1>1, <2>1, n \in 0..MaxBytes
  <2> QED BY <2>2
<1> HIDE DEF O
<1>3. /\ read \in [1..n -> Bytes]
      /\ \A i \in 1..n : read[i] \in Follow(IF i = 1 THEN open ELSE Open(read[i - 1]))
  BY ONLY <1>2, Zenon DEF R
<1>4. read \in Seq(Bytes) /\ Len(read) = n
  BY ONLY <1>0, <1>3
<1> QED BY <1>3, <1>4 DEF FollowsFrom

\* The text of the chunks cs.
SentIn(cs) == Without(FlattenSeq([i \in 1..Len(cs) |-> cs[i].body]), NoContent)

\* chunks_from_text, whatever the bytes, unless the split panics: the chunks
\* fit, are numbered, and say in order and without a gap what one can see of
\* the bytes, all of it unless a marker says that it ends early
\* (chunker.rs:132-188).
THEOREM ChunksSay ==
    ASSUME NEW bytes \in Seq(Bytes), ~Panics(bytes)
    PROVE  LET cs == ChunksFromText(bytes)
               visible == Visible(Text(bytes))
           IN  /\ cs \in Seq(NumberedChunk)
               /\ \A i \in 1..Len(cs) :
                     /\ Len(cs[i].body) <= InnerMax
                     /\ IF NumberChunks /\ Len(cs) > 1
                        THEN cs[i].i = i /\ cs[i].of = Len(cs)
                        ELSE cs[i].of = 0
               /\ IsPrefix(SentIn(cs), visible)
               /\ \/ SentIn(cs) = visible
                  \/ \E i \in 1..Len(cs) :
                        Contains(cs[i].body, "[...]") \/ cs[i].body = Marker
<1> DEFINE cs == ChunksFromText(bytes)
           visible == Visible(Text(bytes))
<1>0. visible \in Seq(Chars)
  <2>1. Text(bytes) \in Seq(PlainChars)
    BY TextType
  <2>2. Text(bytes) \in Seq(Chars)
    BY <2>1, Markers, SeqMonotonic
  <2> QED BY ONLY <2>2, WithoutChars DEF Visible
<1>1. CASE Blank(Text(bytes))
  <2>1. cs = <<>>
    BY <1>1 DEF ChunksFromText
  <2>2. [i \in 1..Len(<<>>) |-> <<>>[i].body] = <<>>
    OBVIOUS
  <2>3. SentIn(<<>>) = <<>>
    BY <2>2, FlattenEmpty, WithoutEmpty DEF SentIn
  <2>4. visible = <<>>
    <3> DEFINE t == Text(bytes)
    <3>1. t \in Seq(PlainChars)
      BY TextType
    <3>2. \A i \in 1..Len(t) : t[i] \in WhiteSpace
      BY <1>1 DEF Blank
    <3> HIDE DEF t
    <3>3. t \in Seq(WhiteSpace) /\ t \in Seq(Chars)
      BY <3>1, <3>2, Markers
    <3> QED BY <3>3, WithoutAll DEF Visible, t
  <2>5. IsPrefix(<<>>, <<>>)
    BY DEF IsPrefix
  <2> HIDE DEF cs, visible
  <2>6. cs \in Seq(NumberedChunk) /\ 1..Len(cs) = {}
    BY <2>1
  <2> QED BY <2>1, <2>3, <2>4, <2>5, <2>6 DEF cs, visible
<1>2. CASE ~Blank(Text(bytes))
  <2> DEFINE bodies == NonBlank(Bodies(Text(bytes)))
  <2>1. PICK all \in Seq(Fitting) :
            /\ \/ all = bodies
               \/ /\ BurstCap < Len(bodies)
                  /\ all = Append(SubSeq(bodies, 1, BurstCap), Marker)
            /\ cs = InOne(all)
    BY <1>2, ChunksFromTextCases, Zenon
  <2>2. /\ Extends(Without(FlattenSeq(all), NoContent), visible)
        /\ \/ Without(FlattenSeq(all), NoContent) = visible
           \/ \E i \in 1..Len(all) : Contains(all[i], "[...]") \/ all[i] = Marker
    <3> HIDE DEF visible
    <3> QED BY <1>2, <2>1, AllSays DEF visible
  <2> HIDE DEF cs, visible, bodies
  <2>3. /\ Len(cs) = Len(all) /\ cs \in Seq(NumberedChunk)
        /\ \A i \in 1..Len(all) :
              /\ cs[i].body = all[i]
              /\ IF NumberChunks /\ Len(all) > 1
                 THEN cs[i].i = i /\ cs[i].of = Len(all)
                 ELSE cs[i].of = 0
    BY <2>1, NumberedChunks DEF NumberedChunk
  <2>4. [i \in 1..Len(cs) |-> cs[i].body] = all
    BY <2>3
  <2>5. SentIn(cs) = Without(FlattenSeq(all), NoContent)
    BY <2>4 DEF SentIn
  <2>6. \A i \in 1..Len(all) : Len(all[i]) <= InnerMax
    <3>1. \A i \in 1..Len(all) : all[i] \in Fitting
      OBVIOUS
    <3> QED BY <3>1 DEF Fitting
  <2>7. IsPrefix(SentIn(cs), visible)
    <3>1. Fitting \subseteq Seq(Chars)
      BY DEF Fitting
    <3>2. all \in Seq(Seq(Chars))
      BY ONLY <3>1, all \in Seq(Fitting), SeqMonotonic
    <3>3. FlattenSeq(all) \in Seq(Chars)
      BY ONLY <3>2, FlattenType
    <3>4. SentIn(cs) \in Seq(Chars)
      BY <2>5, <3>3, WithoutChars
    <3> QED BY <1>0, <2>2, <2>5, <3>4, ExtendsIsPrefix
  <2>8. \/ SentIn(cs) = visible
        \/ \E i \in 1..Len(cs) : Contains(cs[i].body, "[...]") \/ cs[i].body = Marker
    <3>1. CASE SentIn(cs) = visible
      BY <3>1
    <3>2. CASE \E i \in 1..Len(all) : Contains(all[i], "[...]") \/ all[i] = Marker
      <4>1. PICK i \in 1..Len(all) : Contains(all[i], "[...]") \/ all[i] = Marker
        BY <3>2
      <4>2. i \in 1..Len(cs) /\ cs[i].body = all[i]
        BY <2>3
      <4>3. Contains(cs[i].body, "[...]") \/ cs[i].body = Marker
        BY <4>1, <4>2
      <4> QED BY <4>2, <4>3
    <3> QED BY <2>2, <2>5, <3>1, <3>2
  <2>9. \A i \in 1..Len(cs) :
           /\ Len(cs[i].body) <= InnerMax
           /\ IF NumberChunks /\ Len(cs) > 1
              THEN cs[i].i = i /\ cs[i].of = Len(cs)
              ELSE cs[i].of = 0
    BY <2>3, <2>6
  <2> QED BY <2>3, <2>7, <2>8, <2>9 DEF cs, visible
<1> QED BY <1>1, <1>2

-----------------------------------------------------------------------------
(* The inductive invariant. *)

\* What a call returned is what chunks_from_text makes of the bytes it flushed,
\* which is nothing of nothing, unless the split has torn a character.
ChunksOfFlushed ==
    IF state = "panicked" THEN chunks = <<>>
    ELSE ~Panics(flushed) /\ chunks = ChunksFromText(flushed)

\* Once the silence arm has run, nothing waits that it could run for.
WokenOnce == wakes = 0 \/ (wakes = 1 /\ buf = <<>>)

\* Unless a silence fell into a character, what waits begins with a whole
\* character, and what was flushed also ended with one.
WholeReads ==
    ~cut => /\ FollowsFrom(NoByte, buf) /\ inside = OpenAt(NoByte, buf)
            /\ Whole(flushed)

IInv == TypeOK /\ ChunksOfFlushed /\ WokenOnce /\ WholeReads

\* The constants and the values without a number.
LEMMA Bounds ==
    /\ Silence \in Nat /\ Silence >= 1 /\ MaxBytes \in Nat
    /\ Never = -1
BY SilenceAssumption DEF SilenceAssumption, Never

\* TypeOK, without the empty string.
LEMMA TypeFacts ==
    TypeOK <=>
    /\ buf \in Seq(Bytes) /\ Len(buf) <= MaxBytes
    /\ lastPush \in {Never} \cup 0..(Silence + 1)
    /\ given \in Seq(Bytes) /\ flushed \in Seq(Bytes)
    /\ chunks \in Seq(NumberedChunk)
    /\ inside \in Opening \cup {NoByte}
    /\ cut \in BOOLEAN
    /\ wakes \in Nat
    /\ state \in {"loop", "ended", "panicked"}
    /\ buf # <<>> => lastPush # Never
BY Zenon DEF TypeOK, NoByte

\* The same of the next state.
LEMMA TypeFactsNext ==
    TypeOK' <=>
    /\ buf' \in Seq(Bytes) /\ Len(buf') <= MaxBytes
    /\ lastPush' \in {Never} \cup 0..(Silence + 1)
    /\ given' \in Seq(Bytes) /\ flushed' \in Seq(Bytes)
    /\ chunks' \in Seq(NumberedChunk)
    /\ inside' \in Opening \cup {NoByte}
    /\ cut' \in BOOLEAN
    /\ wakes' \in Nat
    /\ state' \in {"loop", "ended", "panicked"}
    /\ buf' # <<>> => lastPush' # Never
BY Zenon DEF TypeOK, NoByte

\* The invariant holds at the start.
LEMMA InitHolds == Init => IInv
<1> SUFFICES ASSUME Init PROVE IInv
  OBVIOUS
<1>1. /\ buf = <<>> /\ lastPush = Never /\ given = <<>> /\ flushed = <<>>
      /\ chunks = <<>> /\ inside = NoByte /\ cut = FALSE /\ wakes = 0 /\ state = "loop"
  BY Zenon DEF Init, NoByte
<1>2. TypeOK
  <2>1. \A S : <<>> \in Seq(S)
    OBVIOUS
  <2>2. Len(<<>>) <= MaxBytes
    BY Bounds
  <2> QED BY <1>1, <2>1, <2>2, TypeFacts
<1>3. ChunksOfFlushed
  BY <1>1, NothingFlushed DEF ChunksOfFlushed
<1>4. WokenOnce
  BY <1>1 DEF WokenOnce
<1>5. WholeReads
  BY <1>1, NothingFlushed, FollowsNothing DEF WholeReads
<1> QED BY <1>2, <1>3, <1>4, <1>5 DEF IInv

\* What Flush leaves behind.
LEMMA FlushHolds ==
    ASSUME NEW bytes \in Seq(Bytes), Flush(bytes), state = "loop"
    PROVE  /\ flushed' \in Seq(Bytes) /\ chunks' \in Seq(NumberedChunk)
           /\ state' \in {"loop", "panicked"}
           /\ ChunksOfFlushed'
<1>1. CASE Panics(bytes)
  <2>1. flushed' = bytes /\ chunks' = <<>> /\ state' = "panicked"
    BY <1>1 DEF Flush
  <2> QED BY <2>1 DEF ChunksOfFlushed
<1>2. CASE ~Panics(bytes)
  <2>1. flushed' = bytes /\ chunks' = ChunksFromText(bytes) /\ state' = "loop"
    BY <1>2 DEF Flush
  <2>2. ChunksFromText(bytes) \in Seq(NumberedChunk)
    BY <1>2, ChunksSay
  <2> QED BY <1>2, <2>1, <2>2 DEF ChunksOfFlushed
<1> QED BY <1>1, <1>2

\* What a call that flushes nothing leaves behind.
LEMMA NoFlushHolds ==
    ASSUME NoFlush, state = "loop"
    PROVE  /\ flushed' \in Seq(Bytes) /\ chunks' \in Seq(NumberedChunk)
           /\ state' = "loop" /\ flushed' = <<>>
           /\ ChunksOfFlushed'
BY NothingFlushed DEF NoFlush, ChunksOfFlushed

\* A read of at most the room there is.
LEMMA OutputReads ==
    ASSUME TypeOK, Output
    PROVE  \E read \in Seq(Bytes) :
              /\ read # <<>> /\ Len(buf) + Len(read) <= MaxBytes
              /\ FollowsFrom(inside, read) /\ Push(read) /\ wakes' = 0
<1>1. buf \in Seq(Bytes) /\ inside \in Opening \cup {NoByte}
  BY TypeFacts
<1>2. PICK n \in 1..(MaxBytes - Len(buf)) : \E read \in Reads[n][inside] : Push(read)
  BY DEF Output
<1>3. PICK read \in Reads[n][inside] : Push(read)
  BY <1>2
<1>4. Len(buf) \in Nat
  BY <1>1
<1>5. n \in 0..MaxBytes /\ n > 0 /\ Len(buf) + n <= MaxBytes
  BY <1>4, Bounds
<1>6. read \in Seq(Bytes) /\ Len(read) = n /\ FollowsFrom(inside, read)
  BY <1>1, <1>5, ReadsFollow
<1>7. read # <<>>
  BY <1>5, <1>6
<1>8. wakes' = 0
  BY DEF Output
<1> QED BY <1>3, <1>5, <1>6, <1>7, <1>8

\* push keeps the invariant and loses no byte (chunker.rs:53-62, 92-102).
LEMMA PushHolds ==
    ASSUME IInv, Free, NEW read \in Seq(Bytes), read # <<>>,
           Len(buf) + Len(read) <= MaxBytes, FollowsFrom(inside, read), Push(read),
           wakes' = 0
    PROVE  IInv' /\ buf \o given' = flushed' \o buf'
<1> DEFINE b == buf \o read
           k == Committed(b)
<1>1. buf \in Seq(Bytes) /\ cut \in BOOLEAN /\ state = "loop"
  BY TypeFacts DEF IInv, Free
<1>2. b \in Seq(Bytes) /\ Len(b) = Len(buf) + Len(read) /\ Len(b) \in Nat
  BY <1>1
<1>3. k \in 0..Len(b) /\ (k > 0 => b[k] = "\n")
  BY <1>2, LastOfPlace DEF Committed
<1>4. given' = read /\ lastPush' = 0 /\ inside' = OpenAfter(read) /\ cut' = cut
      /\ wakes' \in Nat /\ WokenOnce'
  BY DEF Push, WokenOnce
<1>5. inside' \in Opening \cup {NoByte} /\ inside' = OpenAt(inside, read)
  BY <1>4, OpenType DEF OpenAfter, OpenAt
<1>6. ~cut => FollowsFrom(NoByte, b) /\ OpenAt(NoByte, b) = inside'
  <2>1. ~cut => FollowsFrom(NoByte, buf) /\ inside = OpenAt(NoByte, buf)
    BY DEF IInv, WholeReads
  <2> QED BY <1>1, <1>5, <2>1, FollowsConcat
<1>7. \/ k > 0 /\ Flush(SubSeq(b, 1, k)) /\ buf' = From(b, k + 1)
      \/ ~(k > 0) /\ NoFlush /\ buf' = b
  BY Zenon DEF Push
<1> HIDE DEF b, k
<1>8. CASE k > 0 /\ Flush(SubSeq(b, 1, k)) /\ buf' = From(b, k + 1)
  <2>1. k \in 1..Len(b) /\ b[k] = "\n"
    BY <1>2, <1>3, <1>8
  <2>2. SubSeq(b, 1, k) \in Seq(Bytes) /\ From(b, k + 1) \in Seq(Bytes)
        /\ Len(From(b, k + 1)) <= Len(b)
    BY <1>2, <2>1 DEF From
  <2>3. /\ flushed' \in Seq(Bytes) /\ chunks' \in Seq(NumberedChunk)
        /\ state' \in {"loop", "panicked"} /\ ChunksOfFlushed'
    BY <1>1, <1>8, <2>2, FlushHolds
  <2>4. flushed' = SubSeq(b, 1, k)
    BY <1>8 DEF Flush
  <2>5. ~cut => /\ FollowsFrom(NoByte, From(b, k + 1))
                /\ OpenAt(NoByte, From(b, k + 1)) = OpenAt(NoByte, b)
                /\ Whole(SubSeq(b, 1, k))
    BY <1>2, <1>6, <2>1, FollowsNewline DEF Whole
  <2>6. WholeReads'
    BY <1>4, <1>6, <1>8, <2>4, <2>5 DEF WholeReads
  <2>7. TypeOK'
    <3>1. Len(From(b, k + 1)) \in Nat
      BY <2>2
    <3>2. Len(buf') <= MaxBytes
      BY <1>2, <1>8, <2>2, <3>1, Bounds
    <3>3. lastPush' \in {Never} \cup 0..(Silence + 1) /\ lastPush' # Never
      BY <1>4, Bounds
    <3> QED BY <1>1, <1>4, <1>5, <1>8, <2>2, <2>3, <3>2, <3>3, TypeFactsNext
  <2>8. buf \o given' = flushed' \o buf'
    <3>1. SubSeq(b, 1, k) \o SubSeq(b, k + 1, Len(b)) = SubSeq(b, 1, Len(b))
      <4>1. 1 \in 1..Len(b) + 1 /\ k \in (1 - 1)..Len(b) /\ Len(b) \in k..Len(b)
        BY <1>2, <2>1
      <4> QED BY <1>2, <4>1, ConcatAdjacentSubSeq
    <3>2. SubSeq(b, 1, Len(b)) = b
      BY <1>2, SubSeqFull
    <3> QED BY <1>4, <1>8, <2>4, <3>1, <3>2 DEF b, From
  <2> QED BY <1>4, <2>3, <2>6, <2>7, <2>8 DEF IInv
<1>9. CASE ~(k > 0) /\ NoFlush /\ buf' = b
  <2>1. /\ flushed' \in Seq(Bytes) /\ chunks' \in Seq(NumberedChunk)
        /\ state' = "loop" /\ flushed' = <<>> /\ ChunksOfFlushed'
    BY <1>1, <1>9, NoFlushHolds
  <2>2. WholeReads'
    BY <1>4, <1>6, <1>9, <2>1, NothingFlushed DEF WholeReads
  <2>3. TypeOK'
    <3>1. Len(buf') <= MaxBytes
      BY <1>2, <1>9
    <3>2. lastPush' \in {Never} \cup 0..(Silence + 1) /\ lastPush' # Never
      BY <1>4, Bounds
    <3> QED BY <1>1, <1>2, <1>4, <1>5, <1>9, <2>1, <3>1, <3>2, TypeFactsNext
  <2>4. buf \o given' = flushed' \o buf'
    <3>1. <<>> \o b = b
      BY <1>2
    <3> QED BY <1>4, <1>9, <2>1, <3>1 DEF b
  <2> QED BY <1>4, <2>1, <2>2, <2>3, <2>4 DEF IInv
<1> QED BY <1>7, <1>8, <1>9

\* What waits is whole when no character is open.
LEMMA WholeBuffer ==
    ASSUME WholeReads
    PROVE  ~(cut \/ inside # "") => Whole(buf)
<1>1. NoByte = ""
  BY Zenon DEF NoByte
<1>2. ~(cut \/ inside # NoByte) => Whole(buf)
  BY DEF WholeReads, Whole
<1> QED BY <1>1, <1>2, Zenon

\* The silence arm keeps the invariant and loses no byte: there is a deadline
\* only while bytes wait, when it has not run yet, and maybe_flush takes them all
\* (chunker.rs:64-73, 85-90, 104-110).
LEMMA WakeHolds ==
    ASSUME IInv, Wake
    PROVE  IInv' /\ buf \o given' = flushed' \o buf'
<1>1. /\ buf \in Seq(Bytes) /\ cut \in BOOLEAN /\ inside \in Opening \cup {NoByte}
      /\ state = "loop" /\ given = <<>>
  BY TypeFacts DEF IInv, Wake, Free
<1>2. SilenceElapsed
  BY DEF Wake, DeadlinePassed, SilenceElapsed
<1>3. Flush(buf) /\ buf' = <<>> /\ lastPush' = Never /\ given' = <<>> /\ inside' = inside
  BY <1>1, <1>2, Zenon DEF Wake, DrainAll
<1>4. wakes' \in Nat /\ WokenOnce'
  <2>1. buf # <<>> /\ wakes' = wakes + 1
    BY DEF Wake, DeadlinePassed
  <2>2. wakes = 0
    BY <2>1 DEF IInv, WokenOnce
  <2> QED BY <1>3, <2>1, <2>2 DEF WokenOnce
<1>5. cut' \in BOOLEAN /\ (~cut' => ~cut /\ inside = NoByte /\ Whole(buf))
  <2>1. cut' = (cut \/ inside # "")
    BY Zenon DEF Wake
  <2>2. ~(cut \/ inside # "") => Whole(buf)
    BY WholeBuffer DEF IInv
  <2>3. NoByte = ""
    BY Zenon DEF NoByte
  <2> QED BY <2>1, <2>2, <2>3, Zenon
<1>6. /\ flushed' = buf /\ flushed' \in Seq(Bytes) /\ chunks' \in Seq(NumberedChunk)
      /\ state' \in {"loop", "panicked"} /\ ChunksOfFlushed'
  BY <1>1, <1>3, FlushHolds DEF Flush
<1>7. WholeReads'
  BY <1>3, <1>5, <1>6, FollowsNothing DEF WholeReads
<1>8. TypeOK'
  <2>1. <<>> \in Seq(Bytes) /\ Len(<<>>) <= MaxBytes
    BY Bounds
  <2> QED BY <1>1, <1>3, <1>5, <1>6, <1>4, <2>1, TypeFactsNext
<1>9. buf \o given' = flushed' \o buf'
  BY <1>3, <1>6
<1> QED BY <1>6, <1>7, <1>8, <1>9, <1>4 DEF IInv

\* So does flush_force at the end of the session (chunker.rs:75-78, 104-110).
LEMMA EndHolds ==
    ASSUME IInv, End
    PROVE  IInv' /\ buf \o given' = flushed' \o buf'
<1>1. /\ buf \in Seq(Bytes) /\ cut \in BOOLEAN /\ inside \in Opening \cup {NoByte}
      /\ given = <<>> /\ wakes \in Nat
  BY TypeFacts DEF IInv, End, Free
<1>2. flushed' = buf /\ buf' = <<>> /\ lastPush' = Never /\ given' = <<>>
      /\ inside' = inside /\ wakes' = wakes
  BY <1>1, Zenon DEF End
<1>3. cut' \in BOOLEAN /\ (~cut' => ~cut /\ inside = NoByte /\ Whole(buf))
  <2>1. cut' = (cut \/ inside # "")
    BY Zenon DEF End
  <2>2. ~(cut \/ inside # "") => Whole(buf)
    BY WholeBuffer DEF IInv
  <2>3. NoByte = ""
    BY Zenon DEF NoByte
  <2> QED BY <2>1, <2>2, <2>3, Zenon
<1>4. \/ Panics(buf) /\ chunks' = <<>> /\ state' = "panicked"
      \/ ~Panics(buf) /\ chunks' = ChunksFromText(buf) /\ state' = "ended"
  BY Zenon DEF End
<1>5. chunks' \in Seq(NumberedChunk) /\ state' \in {"ended", "panicked"} /\ ChunksOfFlushed'
  <2>1. CASE Panics(buf) /\ chunks' = <<>> /\ state' = "panicked"
    BY <2>1 DEF ChunksOfFlushed
  <2>2. CASE ~Panics(buf) /\ chunks' = ChunksFromText(buf) /\ state' = "ended"
    <3>1. ChunksFromText(buf) \in Seq(NumberedChunk)
      BY <1>1, <2>2, ChunksSay
    <3> QED BY <1>2, <2>2, <3>1 DEF ChunksOfFlushed
  <2> QED BY <1>4, <2>1, <2>2
<1>6. WholeReads'
  BY <1>2, <1>3, FollowsNothing DEF WholeReads
<1>7. TypeOK'
  <2>1. <<>> \in Seq(Bytes) /\ Len(<<>>) <= MaxBytes
    BY Bounds
  <2> QED BY <1>1, <1>2, <1>3, <1>5, <2>1, TypeFactsNext
<1>8. buf \o given' = flushed' \o buf'
  BY <1>2
<1>9. WokenOnce'
  BY <1>2 DEF IInv, WokenOnce
<1> QED BY <1>5, <1>6, <1>7, <1>8, <1>9 DEF IInv

\* Time keeps the invariant.
LEMMA TickHolds ==
    ASSUME IInv, Tick
    PROVE  IInv' /\ buf \o given' = flushed' \o buf'
<1>1. /\ buf' = buf /\ given' = given /\ flushed' = flushed /\ chunks' = chunks
      /\ inside' = inside /\ cut' = cut /\ wakes' = wakes /\ state' = state
      /\ given = <<>> /\ flushed = <<>>
      /\ lastPush # Never /\ lastPush <= Silence /\ lastPush' = lastPush + 1
  BY DEF Tick, Free
<1>2. /\ buf \in Seq(Bytes) /\ lastPush \in {Never} \cup 0..(Silence + 1)
  BY TypeFacts DEF IInv
<1>3. lastPush' \in 0..(Silence + 1) /\ lastPush' # Never
  BY <1>1, <1>2, Bounds
<1>4. TypeOK'
  BY <1>1, <1>3, TypeFacts, TypeFactsNext DEF IInv
<1>5. ChunksOfFlushed' /\ WholeReads' /\ WokenOnce'
  BY <1>1 DEF IInv, ChunksOfFlushed, WholeReads, WokenOnce
<1>6. buf \o given' = flushed' \o buf'
  BY <1>1, <1>2
<1> QED BY <1>3, <1>4, <1>5, <1>6 DEF IInv

\* The actor keeps the invariant when it has enqueued a call's chunks.
LEMMA EnqueuedHolds ==
    ASSUME IInv, Enqueued
    PROVE  IInv' /\ buf \o given' = flushed' \o buf'
<1>1. /\ buf' = buf /\ lastPush' = lastPush /\ inside' = inside /\ cut' = cut
      /\ wakes' = wakes /\ state' = state /\ state = "loop"
      /\ given' = <<>> /\ flushed' = <<>> /\ chunks' = <<>>
      /\ given # <<>> \/ flushed # <<>>
  BY DEF Enqueued, Free
<1>2. buf \in Seq(Bytes)
  BY TypeFacts DEF IInv
<1>3. TypeOK'
  <2>1. \A S : <<>> \in Seq(S)
    OBVIOUS
  <2> QED BY <1>1, <2>1, TypeFacts, TypeFactsNext DEF IInv
<1>4. ChunksOfFlushed'
  BY <1>1, NothingFlushed DEF ChunksOfFlushed
<1>5. WholeReads' /\ WokenOnce'
  BY <1>1, NothingFlushed DEF IInv, WholeReads, WokenOnce
<1>6. buf \o given' = flushed' \o buf'
  BY <1>1, <1>2
<1> QED BY <1>3, <1>4, <1>5, <1>6 DEF IInv

\* A step that changes nothing keeps the invariant.
LEMMA StutterHolds == ASSUME IInv, UNCHANGED vars PROVE IInv'
<1>1. /\ buf' = buf /\ lastPush' = lastPush /\ given' = given /\ flushed' = flushed
      /\ chunks' = chunks /\ inside' = inside /\ cut' = cut /\ wakes' = wakes
      /\ state' = state
  BY DEF vars
<1>2. TypeOK'
  BY <1>1, TypeFacts, TypeFactsNext DEF IInv
<1> QED BY <1>1, <1>2 DEF IInv, ChunksOfFlushed, WholeReads, WokenOnce

\* A step keeps the invariant and loses no byte.
LEMMA StepHolds ==
    ASSUME IInv, Next
    PROVE  IInv' /\ ((buf \o given' = flushed' \o buf') \/ UNCHANGED vars)
<1>1. CASE Output
  <2>1. TypeOK
    BY DEF IInv
  <2>2. PICK read \in Seq(Bytes) :
            /\ read # <<>> /\ Len(buf) + Len(read) <= MaxBytes
            /\ FollowsFrom(inside, read) /\ Push(read) /\ wakes' = 0
    BY <1>1, <2>1, OutputReads
  <2>3. Free
    BY <1>1 DEF Output
  <2>4. IInv' /\ buf \o given' = flushed' \o buf'
    BY <2>2, <2>3, PushHolds
  <2> QED BY <2>4
<1>2. CASE Wake
  BY <1>2, WakeHolds
<1>3. CASE End
  BY <1>3, EndHolds
<1>4. CASE Tick
  BY <1>4, TickHolds
<1>5. CASE Enqueued
  BY <1>5, EnqueuedHolds
<1>6. CASE Finished
  BY <1>6, StutterHolds DEF Finished
<1> QED BY <1>1, <1>2, <1>3, <1>4, <1>5, <1>6 DEF Next

\* The invariant is one.
LEMMA Invariant == Spec => []IInv
<1>1. IInv /\ [Next]_vars => IInv'
  BY StepHolds, StutterHolds
<1> QED BY InitHolds, <1>1, PTL DEF Spec

-----------------------------------------------------------------------------
(* The theorems. *)

\* The chunker's state stays what it is meant to be, whatever the reads hold
\* and wherever they are cut: the buffer within its bound, and a last push
\* known while bytes wait, so that next_deadline is some (chunker.rs:85-90).
THEOREM TypeCorrect == Spec => []TypeOK
BY Invariant, PTL DEF IInv

\* What one can see of a flush arrives in order and without a gap, and where
\* the line cap or the burst cap end it, a marker says so
\* (chunker.rs:132-188, 190-216).
THEOREM ContentIsKept == Spec => []ContentKept
<1>1. IInv => ContentKept
  <2> SUFFICES ASSUME IInv, state # "panicked" PROVE
          LET visible == Visible(Text(flushed)) IN
          /\ IsPrefix(Sent, visible)
          /\ Sent = visible \/ IsMarked
    BY Zenon DEF ContentKept
  <2>1. flushed \in Seq(Bytes) /\ ~Panics(flushed) /\ chunks = ChunksFromText(flushed)
    BY TypeFacts DEF IInv, ChunksOfFlushed
  <2>2. Sent = SentIn(chunks)
    BY Zenon DEF Sent, SentIn, NoContent
  <2>3. /\ IsPrefix(SentIn(chunks), Visible(Text(flushed)))
        /\ \/ SentIn(chunks) = Visible(Text(flushed))
           \/ \E i \in 1..Len(chunks) :
                 Contains(chunks[i].body, "[...]") \/ chunks[i].body = Marker
    BY <2>1, ChunksSay
  <2> QED BY <2>2, <2>3, Zenon DEF IsMarked
<1> QED BY Invariant, <1>1, PTL

\* A chunk with its number stays within max_chars wherever max_chars leaves
\* room for the number and the least a chunk holds, and the marker wherever it
\* leaves room for the marker (chunker.rs:145-148, 164-185).
THEOREM ChunksDoFit == Spec => []ChunksFit
<1>1. IInv => ChunksFit
  <2> SUFFICES ASSUME IInv, NEW i \in 1..Len(chunks), MaxChars >= Least(chunks[i])
               PROVE  Size(chunks[i]) <= MaxChars
    BY DEF ChunksFit
  <2>1. state # "panicked"
    BY DEF IInv, ChunksOfFlushed
  <2>2. flushed \in Seq(Bytes) /\ ~Panics(flushed) /\ chunks = ChunksFromText(flushed)
        /\ chunks \in Seq(NumberedChunk)
    BY <2>1, TypeFacts DEF IInv, ChunksOfFlushed
  <2>3. /\ Len(chunks[i].body) <= InnerMax
        /\ IF NumberChunks /\ Len(chunks) > 1
           THEN chunks[i].i = i /\ chunks[i].of = Len(chunks)
           ELSE chunks[i].of = 0
    BY <2>2, ChunksSay
  <2>4. PrefixBudget \in Nat /\ MaxChars \in Nat /\ LeastChars \in Nat /\ MarkerLength \in Nat
    BY ChunkAssumption DEF ChunkAssumption
  <2>5. Len(chunks[i].body) \in Nat /\ InnerMax \in Nat
    <3>1. chunks[i] \in NumberedChunk
      BY <2>2
    <3>2. chunks[i].body \in Seq(Chars)
      BY <3>1 DEF NumberedChunk
    <3>3. InnerMax \in Nat
      BY InnerMaxType
    <3> QED BY <3>2, <3>3
  <2>6. chunks[i].of > 0 => NumberChunks
    BY <2>3
  <2> DEFINE body == IF chunks[i].body = Marker THEN MarkerLength ELSE Len(chunks[i].body)
             least == IF chunks[i].body = Marker THEN MarkerLength ELSE LeastChars
             numbered == chunks[i].of > 0
  <2>7. body \in Nat /\ least \in Nat
    BY <2>4, <2>5
  <2>8. Size(chunks[i]) = body + (IF numbered THEN PrefixBudget ELSE 0)
    BY DEF Size
  <2>9. MaxChars >= least + (IF NumberChunks THEN PrefixBudget ELSE 0)
    BY DEF Least
  <2>10. CASE NumberChunks
    <3>1. MaxChars >= least + PrefixBudget
      BY <2>9, <2>10
    <3>2. body + PrefixBudget <= MaxChars
      <4>1. CASE chunks[i].body = Marker
        BY <3>1, <4>1
      <4>2. CASE chunks[i].body # Marker
        <5>1. MaxChars >= LeastChars + PrefixBudget /\ body = Len(chunks[i].body)
          BY <3>1, <4>2
        <5>2. InnerMax <= MaxChars - PrefixBudget
          BY <2>10, <5>1, InnerMaxType
        <5> HIDE DEF body
        <5> QED BY <2>3, <2>4, <2>5, <5>1, <5>2
      <4> QED BY <4>1, <4>2
    <3> HIDE DEF body, numbered
    <3> QED BY <2>4, <2>7, <2>8, <3>2
  <2>11. CASE ~NumberChunks
    <3>1. MaxChars >= least /\ ~numbered
      <4>1. MaxChars >= least + 0
        BY <2>9, <2>11
      <4> HIDE DEF least
      <4> QED BY <2>6, <2>7, <2>11, <4>1
    <3>2. body <= MaxChars
      <4>1. CASE chunks[i].body = Marker
        BY <3>1, <4>1
      <4>2. CASE chunks[i].body # Marker
        <5>1. MaxChars >= LeastChars /\ body = Len(chunks[i].body)
          BY <3>1, <4>2
        <5>2. InnerMax <= MaxChars
          BY <2>11, <5>1, InnerMaxType
        <5> HIDE DEF body
        <5> QED BY <2>3, <2>4, <2>5, <5>1, <5>2
      <4> QED BY <4>1, <4>2
    <3> HIDE DEF body, numbered
    <3> QED BY <2>4, <2>7, <2>8, <3>1, <3>2
  <2> QED BY <2>10, <2>11
<1> QED BY Invariant, <1>1, PTL

\* However the pty cuts its reads, no character is broken and no escape
\* sequence is read as text, unless a silence fell into the middle of it: a
\* flush up to a newline never cuts a character (chunker.rs:92-102,
\* where the text is decoded at 100).
THEOREM ReadsBreakNothing == Spec => []ReadsDoNotBreak
<1>1. IInv => ReadsDoNotBreak
  <2> SUFFICES ASSUME IInv, ~cut, NEW c \in {"?", "m"}, Contains(Text(flushed), c)
               PROVE  FALSE
    BY DEF ReadsDoNotBreak
  <2> DEFINE C == PlainChars \ {"?", "m"}
             t == Text(flushed)
  <2>1. flushed \in Seq(Bytes) /\ Whole(flushed)
    BY TypeFacts DEF IInv, WholeReads
  <2>2. t \in Seq(C)
    BY <2>1, TextOfWhole
  <2>3. c \notin C
    OBVIOUS
  <2> HIDE DEF C, t
  <2>4. PICK i \in 1..Len(t) : t[i] = c
    BY DEF Contains, t
  <2> QED BY <2>2, <2>3, <2>4
<1> QED BY Invariant, <1>1, PTL

\* No byte is lost or doubled between the calls: what one flushes and keeps is
\* what was held and what it was given (chunker.rs:53-78, 92-110).
THEOREM NoByteIsLost == Spec => NothingLost
<1>1. IInv /\ [Next]_vars => [buf \o given' = flushed' \o buf']_vars
  BY StepHolds
<1> QED BY Invariant, <1>1, PTL DEF Spec, NothingLost

\* The loop does not spin: however the reads come, and whether they end on a
\* newline or leave a tail, the silence arm runs at most once from one read to
\* the next (chunker.rs:64-73, 80-90).
THEOREM SilenceWakesOnce == Spec => []OneWakePerRead
<1>1. IInv => OneWakePerRead
  BY DEF IInv, WokenOnce, OneWakePerRead
<1> QED BY Invariant, <1>1, PTL
=============================================================================
