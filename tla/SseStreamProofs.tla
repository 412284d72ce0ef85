--------------------------- MODULE SseStreamProofs ---------------------------
(***************************************************************************)
(* Theorems about SseStream, for every set of frames and every depth of    *)
(* the channel to the main task.                                           *)
(***************************************************************************)
EXTENDS SseStream, TLAPS

WireItem == [n : Nat, first : BOOLEAN, frame : Frames]

-----------------------------------------------------------------------------
(* What the channels' operations do to a sequence. *)

LEMMA EmptySeq ==
    ASSUME NEW S
    PROVE  <<>> \in Seq(S) /\ Len(<<>>) = 0
OBVIOUS

LEMMA OneSeq ==
    ASSUME NEW S, NEW e \in S
    PROVE  <<e>> \in Seq(S) /\ Len(<<e>>) = 1 /\ Head(<<e>>) = e /\ <<e>>[1] = e
OBVIOUS

LEMMA AppendSeq ==
    ASSUME NEW S, NEW s \in Seq(S), NEW e \in S
    PROVE  /\ Append(s, e) \in Seq(S)
           /\ Len(Append(s, e)) = Len(s) + 1
           /\ \A i \in 1..Len(s) : Append(s, e)[i] = s[i]
           /\ Append(s, e)[Len(s) + 1] = e
OBVIOUS

LEMMA PopSeq ==
    ASSUME NEW S, NEW s \in Seq(S), s # <<>>
    PROVE  /\ Head(s) \in S /\ Head(s) = s[1]
           /\ Tail(s) \in Seq(S)
           /\ Len(s) >= 1 /\ Len(Tail(s)) = Len(s) - 1
           /\ \A i \in 1..Len(Tail(s)) : Tail(s)[i] = s[i + 1]
OBVIOUS

LEMMA PrefixSeq ==
    ASSUME NEW S, NEW s \in Seq(S), NEW k \in 0..Len(s)
    PROVE  /\ SubSeq(s, 1, k) \in Seq(S)
           /\ Len(SubSeq(s, 1, k)) = k
           /\ \A i \in 1..k : SubSeq(s, 1, k)[i] = s[i]
OBVIOUS

LEMMA LenNat == ASSUME NEW S, NEW s \in Seq(S) PROVE Len(s) \in Nat
OBVIOUS

LEMMA NonEmpty == ASSUME NEW S, NEW s \in Seq(S), Len(s) = 1 PROVE s # <<>>
OBVIOUS

-----------------------------------------------------------------------------
(* Type correctness. *)

LEMMA InitType == Init => TypeOK
<1> SUFFICES ASSUME Init PROVE TypeOK
  OBVIOUS
<1>1. Nothing \in Event
  BY DEF Nothing, Event, Kinds, Meanings
<1>2. wire \in Seq(WireItem) /\ Len(wire) = 0
  BY EmptySeq DEF Init
<1>3. hand \in Seq(Event) /\ Len(hand) = 0 /\ queue \in Seq(Event) /\ Len(queue) = 0
  BY EmptySeq DEF Init
<1> QED
  BY <1>1, <1>2, <1>3, BoundAssumption
     DEF Init, TypeOK, WireItem, Pcs, BackoffCap

LEMMA EventType ==
    ASSUME NEW f \in WireItem
    PROVE  [n |-> f.n, first |-> f.first, kind |-> KindOf(f.frame),
            meant |-> f.frame.meant] \in Event
<1>1. f.n \in Nat /\ f.first \in BOOLEAN /\ f.frame \in FrameState
  BY FrameAssumption DEF WireItem
<1>2. KindOf(f.frame) \in Kinds
  BY DEF KindOf, ParseEvent, Kinds
<1>3. f.frame.meant \in Meanings
  BY <1>1 DEF FrameState
<1> QED
  BY <1>1, <1>2, <1>3 DEF Event

LEMMA NetworkType == TypeOK /\ Network => TypeOK'
<1> SUFFICES ASSUME TypeOK, Network PROVE TypeOK'
  OBVIOUS
<1>0. wire \in Seq(WireItem) /\ Len(wire) <= WireDepth /\ Len(wire) \in Nat
  BY LenNat DEF TypeOK, WireItem
<1> USE DEF TypeOK, link, delay, mainSide
<1>1. ASSUME NEW f \in Frames, BridgeSays(f) PROVE TypeOK'
  <2>1. said' = said + 1 /\ said' \in 0..MaxFrames
    BY <1>1, BoundAssumption DEF BridgeSays
  <2>2. wire' \in Seq(WireItem) /\ Len(wire') <= WireDepth /\ fresh' \in BOOLEAN
    <3>1. CASE conn = "up"
      <4>1. [n |-> said + 1, first |-> fresh, frame |-> f] \in WireItem
        BY <2>1 DEF WireItem
      <4> DEFINE x == [n |-> said + 1, first |-> fresh, frame |-> f]
      <4>2. Len(wire) < WireDepth /\ wire' = Append(wire, x) /\ fresh' = FALSE
        BY <1>1, <3>1 DEF BridgeSays
      <4> HIDE DEF x
      <4>3. x \in WireItem
        BY <4>1 DEF x
      <4>4. Append(wire, x) \in Seq(WireItem) /\ Len(Append(wire, x)) = Len(wire) + 1
        BY <1>0, <4>3, AppendSeq
      <4>5. Len(wire) + 1 <= WireDepth
        BY <1>0, <4>2, BoundAssumption
      <4> QED
        BY <4>2, <4>4, <4>5
    <3>2. CASE conn # "up"
      BY <1>0, <1>1, <3>2 DEF BridgeSays
    <3> QED
      BY <3>1, <3>2
  <2> QED
    BY <1>1, <2>1, <2>2 DEF BridgeSays, WireItem
<1>2. CASE StreamEnds
  BY <1>2 DEF StreamEnds
<1>3. CASE LinkDies
  BY <1>3 DEF LinkDies
<1>4. CASE LinkBreaks
  <2>1. PICK k \in 0..Len(wire) : wire' = SubSeq(wire, 1, k)
    BY <1>4 DEF LinkBreaks
  <2>2. wire' \in Seq(WireItem) /\ Len(wire') <= WireDepth
    BY <1>0, <2>1, PrefixSeq, BoundAssumption
  <2> QED
    BY <1>4, <2>2 DEF LinkBreaks, WireItem
<1> QED
  BY <1>1, <1>2, <1>3, <1>4 DEF Network

LEMMA ConnectType == TypeOK /\ (Connected \/ ConnectFails) => TypeOK'
<1> SUFFICES ASSUME TypeOK, Connected \/ ConnectFails PROVE TypeOK'
  OBVIOUS
<1> USE BoundAssumption DEF TypeOK, WireItem, link, delay, mainSide, Pcs, BackoffCap
<1>1. CASE Connected
  BY <1>1 DEF Connected
<1>2. CASE ConnectFails
  BY <1>2 DEF ConnectFails, Rest
<1> QED
  BY <1>1, <1>2

LEMMA ClosedType ==
    CloseStream => /\ wire' \in Seq(WireItem) /\ Len(wire') <= WireDepth
                   /\ fresh' \in BOOLEAN /\ conn' = "none"
<1>1. <<>> \in Seq(WireItem) /\ Len(<<>>) = 0
  BY EmptySeq
<1> QED
  BY <1>1, BoundAssumption DEF CloseStream

LEMMA TaskType == TypeOK /\ Task => TypeOK'
<1> SUFFICES ASSUME TypeOK, Task PROVE TypeOK'
  OBVIOUS
<1>0. wire \in Seq(WireItem) /\ Len(wire) <= WireDepth /\ Len(wire) \in Nat
  BY LenNat DEF TypeOK, WireItem
<1> USE BoundAssumption DEF TypeOK, link, delay, mainSide, Pcs, BackoffCap
<1>1. CASE Check
  BY <1>1 DEF Check
<1>2. CASE SleepOver
  BY <1>2 DEF SleepOver
<1>3. CASE SleepSeesShutdown
  BY <1>3 DEF SleepSeesShutdown
<1>4. CASE ReadSeesShutdown
  BY <1>4, ClosedType DEF ReadSeesShutdown, WireItem
<1>5. CASE NextFrame
  <2>1. Head(wire) \in WireItem /\ Tail(wire) \in Seq(WireItem)
        /\ Len(Tail(wire)) = Len(wire) - 1
    BY <1>0, <1>5, PopSeq DEF NextFrame
  <2> DEFINE e == [n |-> Head(wire).n, first |-> Head(wire).first,
                   kind |-> KindOf(Head(wire).frame),
                   meant |-> Head(wire).frame.meant]
  <2>2. e \in Event
    BY <2>1, EventType
  <2>3. hand' = <<e>>
    BY <1>5 DEF NextFrame
  <2> HIDE DEF e
  <2>4. hand' \in Seq(Event) /\ Len(hand') = 1
    BY <2>2, <2>3, OneSeq
  <2>5. wire' \in Seq(WireItem) /\ Len(wire') <= WireDepth
    <3>1. wire' = Tail(wire)
      BY <1>5 DEF NextFrame
    <3>2. Len(wire) - 1 <= WireDepth
      BY <1>0
    <3> QED
      BY <2>1, <3>1, <3>2
  <2> QED
    BY <1>5, <2>4, <2>5 DEF NextFrame, Reads, WireItem
<1>6. CASE FramePanics
  BY <1>6, ClosedType DEF FramePanics, Reads, WireItem
<1>7. CASE WatchdogTrips
  BY <1>7, ClosedType DEF WatchdogTrips, Reads, Rest, WireItem
<1>8. CASE SeesEnd
  BY <1>8, ClosedType DEF SeesEnd, Reads, Rest, WireItem
<1>9. CASE Send
  <2>1. hand # <<>> /\ Head(hand) \in Event
    BY <1>9, NonEmpty, PopSeq DEF Send
  <2>2. queue' \in Seq(Event) /\ Len(queue') <= EventDepth
    BY <1>9, <2>1, AppendSeq, LenNat DEF Send
  <2>3. hand' \in Seq(Event) /\ Len(hand') = 0
    BY <1>9, EmptySeq DEF Send
  <2> QED
    BY <1>9, <2>2, <2>3 DEF Send
<1>10. CASE SendFails
  <2>1. hand' \in Seq(Event) /\ Len(hand') = 0
    BY <1>10, EmptySeq DEF SendFails
  <2>2. CASE Head(hand).kind = "comment"
    BY <1>10, <2>1, <2>2 DEF SendFails
  <2>3. CASE Head(hand).kind # "comment"
    BY <1>10, <2>1, <2>3, ClosedType DEF SendFails, WireItem
  <2> QED
    BY <2>2, <2>3
<1> QED
  BY <1>1, <1>2, <1>3, <1>4, <1>5, <1>6, <1>7, <1>8, <1>9, <1>10 DEF Task

LEMMA MainType == TypeOK /\ (MainTakes \/ MainStops \/ MainReturns) => TypeOK'
<1> SUFFICES ASSUME TypeOK, MainTakes \/ MainStops \/ MainReturns PROVE TypeOK'
  OBVIOUS
<1> USE BoundAssumption DEF TypeOK, WireItem, link, delay, mainSide
<1>1. CASE MainTakes
  <2>1. last' \in Event /\ queue' \in Seq(Event) /\ Len(queue') <= EventDepth
    BY <1>1, PopSeq, LenNat DEF MainTakes
  <2> QED
    BY <1>1, <2>1 DEF MainTakes
<1>2. CASE MainStops
  BY <1>2 DEF MainStops
<1>3. CASE MainReturns
  <2>1. queue' \in Seq(Event) /\ Len(queue') <= EventDepth
    BY <1>3, EmptySeq DEF MainReturns
  <2> QED
    BY <1>3, <2>1 DEF MainReturns
<1> QED
  BY <1>1, <1>2, <1>3

LEMMA NextType == TypeOK /\ [Next]_vars => TypeOK'
<1>1. TypeOK /\ UNCHANGED vars => TypeOK'
  BY DEF TypeOK, vars, link, delay, mainSide
<1> QED
  BY <1>1, NetworkType, ConnectType, TaskType, MainType DEF Next, Finished

LEMMA TypeInvariant == Spec => []TypeOK
  BY InitType, NextType, PTL DEF Spec

\* Type correctness: the channel and the wire never hold more than their depth,
\* an event is in the task's hand exactly while it is being sent on, and a
\* stream is held exactly while it is read.
THEOREM TypeCorrect == Spec => []TypeOK
  BY TypeInvariant, PTL

-----------------------------------------------------------------------------
(* Parsing.  What the queue holds was in the task's hand before. *)

AsMeant(e) ==
    /\ e.meant = "inbound" => e.kind = "dm"
    /\ e.meant = "echo" => e.kind # "dm"

MeantInv == ParsedAsMeant /\ (hand # <<>> => AsMeant(Head(hand)))

(* parse_event makes a DM of an inbound DM, and none of an echo. *)
LEMMA FrameMeant ==
    ASSUME NEW f \in Frames
    PROVE  /\ f.meant = "inbound" => KindOf(f) = "dm"
           /\ f.meant = "echo" => KindOf(f) # "dm"
<1>1. f.meant = "inbound" => KindOf(f) = "dm"
  BY FrameAssumption DEF KindOf, ParseEvent
<1>2. KindOf(f) = "dm" => f.type # "sent_dm" /\ f.direction # "out"
  BY DEF KindOf, ParseEvent
<1> QED
  BY <1>1, <1>2, FrameAssumption

LEMMA MeantNext == TypeOK /\ MeantInv /\ [Next]_vars => MeantInv'
<1> SUFFICES ASSUME TypeOK, MeantInv, [Next]_vars PROVE MeantInv'
  OBVIOUS
<1>0. /\ queue \in Seq(Event) /\ hand \in Seq(Event) /\ wire \in Seq(WireItem)
      /\ Len(hand) = (IF pc = "sending" THEN 1 ELSE 0)
  BY DEF TypeOK, WireItem
<1>1. UNCHANGED <<hand, queue>> => MeantInv'
  BY DEF MeantInv, ParsedAsMeant, AsMeant
<1>2. CASE NextFrame
  <2>1. Head(wire) \in WireItem
    BY <1>0, <1>2, PopSeq DEF NextFrame
  <2>2. Head(wire).frame \in Frames
    BY <2>1 DEF WireItem
  <2> DEFINE e == [n |-> Head(wire).n, first |-> Head(wire).first,
                   kind |-> KindOf(Head(wire).frame),
                   meant |-> Head(wire).frame.meant]
  <2>3. hand' = <<e>> /\ queue' = queue
    BY <1>2 DEF NextFrame
  <2>4. AsMeant(e)
    BY <2>2, FrameMeant DEF AsMeant
  <2>5. e \in Event
    BY <2>1, EventType
  <2> HIDE DEF e
  <2>6. Head(hand') = e
    BY <2>3, <2>5, OneSeq
  <2> QED
    BY <2>3, <2>4, <2>6 DEF MeantInv, ParsedAsMeant, AsMeant
<1>3. CASE Send
  <2>1. hand # <<>> /\ Head(hand) \in Event
    BY <1>0, <1>3, NonEmpty, PopSeq DEF Send
  <2>2. AsMeant(Head(hand))
    BY <2>1 DEF MeantInv
  <2>3. queue' = Append(queue, Head(hand)) /\ hand' = <<>>
    BY <1>3 DEF Send
  <2> DEFINE e == Head(hand)
  <2>4. \A i \in 1..Len(queue) : AsMeant(queue[i])
    BY DEF MeantInv, ParsedAsMeant, AsMeant
  <2> HIDE DEF e
  <2>5. \A i \in 1..Len(Append(queue, e)) : AsMeant(Append(queue, e)[i])
    <3>1. e \in Event /\ AsMeant(e) /\ Len(queue) \in Nat
      BY <1>0, <2>1, <2>2, LenNat DEF e
    <3> QED
      BY <1>0, <2>4, <3>1, AppendSeq
  <2> QED
    BY <2>3, <2>5 DEF e, MeantInv, ParsedAsMeant, AsMeant
<1>4. CASE SendFails
  BY <1>4 DEF SendFails, MeantInv, ParsedAsMeant, AsMeant
<1>5. CASE MainTakes
  <2>1. queue # <<>> /\ queue' = Tail(queue) /\ hand' = hand
    BY <1>5 DEF MainTakes
  <2>2. \A i \in 1..Len(queue) : AsMeant(queue[i])
    BY DEF MeantInv, ParsedAsMeant, AsMeant
  <2>3. \A i \in 1..Len(Tail(queue)) : AsMeant(Tail(queue)[i])
    <3> SUFFICES ASSUME NEW i \in 1..Len(Tail(queue)) PROVE AsMeant(Tail(queue)[i])
      OBVIOUS
    <3>1. i + 1 \in 1..Len(queue) /\ Tail(queue)[i] = queue[i + 1]
      BY <1>0, <2>1, PopSeq, LenNat
    <3> QED
      BY <2>2, <3>1
  <2> QED
    BY <2>1, <2>3 DEF MeantInv, ParsedAsMeant, AsMeant
<1>6. CASE MainReturns
  <2>1. Len(queue') = 0 /\ hand' = hand
    BY <1>6, EmptySeq DEF MainReturns
  <2> QED
    BY <2>1 DEF MeantInv, ParsedAsMeant, AsMeant
<1>7. CASE Network
  BY <1>1, <1>7 DEF Network, BridgeSays, StreamEnds, LinkDies, LinkBreaks
<1>8. CASE Connected \/ ConnectFails
  BY <1>1, <1>8 DEF Connected, ConnectFails
<1>9. CASE Check \/ SleepOver \/ SleepSeesShutdown \/ ReadSeesShutdown
  BY <1>1, <1>9 DEF Check, SleepOver, SleepSeesShutdown, ReadSeesShutdown
<1>10. CASE FramePanics \/ WatchdogTrips \/ SeesEnd \/ MainStops
  BY <1>1, <1>10 DEF FramePanics, WatchdogTrips, SeesEnd, MainStops
<1>11. CASE UNCHANGED vars
  BY <1>1, <1>11 DEF vars
<1> QED
  BY <1>2, <1>3, <1>4, <1>5, <1>6, <1>7, <1>8, <1>9, <1>10, <1>11
     DEF Next, Task, Finished

LEMMA MeantInvariant == Spec => []MeantInv
<1>1. Init => MeantInv
  BY EmptySeq DEF Init, MeantInv, ParsedAsMeant
<1>2. TypeOK /\ MeantInv /\ [Next]_vars => MeantInv'
  BY MeantNext
<1> QED
  BY <1>1, <1>2, TypeInvariant, PTL DEF Spec

\* Whatever else the bridge sends, and in whatever form: the main task gets an
\* inbound DM as a DM, and no echo as one (sse.rs:243-261).  Nothing is said of
\* channel messages, which it does get as DMs.
THEOREM EchoesStayOut == Spec => []ParsedAsMeant
<1>1. MeantInv => ParsedAsMeant
  BY DEF MeantInv
<1> QED
  BY <1>1, MeantInvariant, PTL

-----------------------------------------------------------------------------
(* Order.  Everything between the main task and the bridge, in one line: what *)
(* a step does to it is to shift it by one, to cut off its end, or to add one *)
(* frame there.                                                               *)

Item == Event \cup WireItem

AllOf(l, q, h, w) == <<l>> \o q \o h \o w
All == AllOf(last, queue, hand, wire)

InOrder(a) == \A i \in 2..Len(a) : Follows(a[i - 1], a[i])
Upto(a, n) == \A i \in 1..Len(a) : a[i].n <= n
EndsAt(a, n) == a[Len(a)].n = n

(* A stream that has brought something goes on where the line ends.           *)
OrderInv ==
    /\ conn = "none" => fresh
    /\ main # "returned" =>
          /\ InOrder(All) /\ Upto(All, said)
          /\ conn = "up" /\ ~fresh => EndsAt(All, said)

IsLine(a, l, q, h, w) ==
    /\ Len(a) = 1 + Len(q) + Len(h) + Len(w)
    /\ \A i \in 1..Len(a) : a[i] =
          IF i = 1 THEN l
          ELSE IF i <= 1 + Len(q) THEN q[i - 1]
          ELSE IF i <= 1 + Len(q) + Len(h) THEN h[i - 1 - Len(q)]
          ELSE w[i - 1 - Len(q) - Len(h)]

LEMMA AllIsLine ==
    ASSUME NEW S, NEW l \in S, NEW q \in Seq(S), NEW h \in Seq(S), NEW w \in Seq(S)
    PROVE  IsLine(AllOf(l, q, h, w), l, q, h, w)
<1> DEFINE a == AllOf(l, q, h, w)
<1>1. Len(a) = 1 + Len(q) + Len(h) + Len(w)
  BY DEF AllOf
<1>2. ASSUME NEW i \in 1..Len(a)
      PROVE  a[i] =
                IF i = 1 THEN l
                ELSE IF i <= 1 + Len(q) THEN q[i - 1]
                ELSE IF i <= 1 + Len(q) + Len(h) THEN h[i - 1 - Len(q)]
                ELSE w[i - 1 - Len(q) - Len(h)]
  BY DEF AllOf
<1> QED
  BY <1>1, <1>2 DEF IsLine

(* What each step does to the line, element by element. *)

LEMMA LineTaken ==
    ASSUME NEW l \in Item, NEW q \in Seq(Item), NEW h \in Seq(Item),
           NEW w \in Seq(Item), q # <<>>,
           NEW a, IsLine(a, l, q, h, w),
           NEW b, IsLine(b, Head(q), Tail(q), h, w)
    PROVE  /\ Len(a) \in Nat /\ Len(b) = Len(a) - 1 /\ Len(b) >= 1
           /\ \A i \in 1..Len(b) : b[i] = a[i + 1]
<1>1. /\ Head(q) = q[1] /\ Len(q) >= 1 /\ Len(Tail(q)) = Len(q) - 1
      /\ \A i \in 1..Len(Tail(q)) : Tail(q)[i] = q[i + 1]
  BY PopSeq
<1>2. Len(q) \in Nat /\ Len(h) \in Nat /\ Len(w) \in Nat
  BY LenNat
<1> DEFINE x == Head(q)
           r == Tail(q)
<1> HIDE DEF x, r
<1>3. Len(a) = 1 + Len(q) + Len(h) + Len(w) /\ Len(b) = 1 + Len(r) + Len(h) + Len(w)
  BY DEF IsLine, r
<1>4. ASSUME NEW i \in 1..Len(b) PROVE b[i] = a[i + 1]
  <2>1. b[i] = IF i = 1 THEN x
               ELSE IF i <= 1 + Len(r) THEN r[i - 1]
               ELSE IF i <= 1 + Len(r) + Len(h) THEN h[i - 1 - Len(r)]
               ELSE w[i - 1 - Len(r) - Len(h)]
    BY DEF IsLine, x, r
  <2>2. i + 1 \in 1..Len(a)
    BY <1>1, <1>2, <1>3 DEF r
  <2>3. a[i + 1] = IF i + 1 = 1 THEN l
               ELSE IF i + 1 <= 1 + Len(q) THEN q[i + 1 - 1]
               ELSE IF i + 1 <= 1 + Len(q) + Len(h) THEN h[i + 1 - 1 - Len(q)]
               ELSE w[i + 1 - 1 - Len(q) - Len(h)]
    BY <2>2 DEF IsLine
  <2> QED
    BY <1>1, <1>2, <2>1, <2>3, <1>3, SMTT(30) DEF x, r
<1>5. Len(b) = Len(a) - 1 /\ Len(a) \in Nat /\ Len(b) >= 1
  BY <1>1, <1>2, <1>3 DEF r
<1> QED
  BY <1>4, <1>5

LEMMA LineRead ==
    ASSUME NEW l \in Item, NEW q \in Seq(Item), NEW w \in Seq(Item), w # <<>>,
           NEW e \in Item, e.n = Head(w).n, e.first = Head(w).first,
           NEW a, IsLine(a, l, q, <<>>, w),
           NEW b, IsLine(b, l, q, <<e>>, Tail(w))
    PROVE  /\ Len(a) \in Nat /\ Len(b) = Len(a)
           /\ \A i \in 1..Len(b) : b[i].n = a[i].n /\ b[i].first = a[i].first
<1>1. /\ Head(w) = w[1] /\ Len(w) >= 1 /\ Len(Tail(w)) = Len(w) - 1
      /\ \A i \in 1..Len(Tail(w)) : Tail(w)[i] = w[i + 1]
  BY PopSeq
<1>2. Len(q) \in Nat /\ Len(w) \in Nat
  BY LenNat
<1> DEFINE r == Tail(w)
           h == <<e>>
           o == <<>>
<1>3. Len(o) = 0 /\ Len(h) = 1 /\ h[1] = e
  OBVIOUS
<1> HIDE DEF r, h, o
<1>4. Len(a) = 1 + Len(q) + Len(w) /\ Len(b) = Len(a)
  <2>1. Len(a) = 1 + Len(q) + Len(o) + Len(w)
    BY DEF IsLine, o
  <2>2. Len(b) = 1 + Len(q) + Len(h) + Len(r)
    BY DEF IsLine, r, h
  <2> QED
    BY <1>1, <1>2, <1>3, <2>1, <2>2 DEF r
<1>5. ASSUME NEW i \in 1..Len(b) PROVE b[i].n = a[i].n /\ b[i].first = a[i].first
  <2>1. b[i] = IF i = 1 THEN l
               ELSE IF i <= 1 + Len(q) THEN q[i - 1]
               ELSE IF i <= 1 + Len(q) + Len(h) THEN h[i - 1 - Len(q)]
               ELSE r[i - 1 - Len(q) - Len(h)]
    BY DEF IsLine, h, r
  <2>2. a[i] = IF i = 1 THEN l
               ELSE IF i <= 1 + Len(q) THEN q[i - 1]
               ELSE IF i <= 1 + Len(q) + Len(o) THEN o[i - 1 - Len(q)]
               ELSE w[i - 1 - Len(q) - Len(o)]
    BY <1>4 DEF IsLine, o
  <2>3. CASE i <= 1 + Len(q)
    BY <1>2, <2>1, <2>2, <2>3
  <2>4. CASE i = 2 + Len(q)
    <3>1. b[i] = h[1] /\ a[i] = w[1]
      BY <1>2, <1>3, <2>1, <2>2, <2>4
    <3> QED
      BY <1>1, <1>3, <3>1
  <2>5. CASE i > 2 + Len(q)
    <3>1. b[i] = r[i - 2 - Len(q)] /\ a[i] = w[i - 1 - Len(q)]
      BY <1>2, <1>3, <2>1, <2>2, <2>5
    <3>2. i - 2 - Len(q) \in 1..Len(r)
      BY <1>1, <1>2, <1>4, <2>5 DEF r
    <3>3. r[i - 2 - Len(q)] = w[i - 2 - Len(q) + 1]
      BY <1>1, <3>2 DEF r
    <3>4. i - 2 - Len(q) + 1 = i - 1 - Len(q)
      BY <1>2
    <3> QED
      BY <3>1, <3>3, <3>4
  <2>6. i \in Nat
    OBVIOUS
  <2> QED
    BY <1>2, <2>3, <2>4, <2>5, <2>6
<1> QED
  BY <1>2, <1>4, <1>5

LEMMA LineSent ==
    ASSUME NEW l \in Item, NEW q \in Seq(Item), NEW h \in Seq(Item),
           NEW w \in Seq(Item), Len(h) = 1,
           NEW a, IsLine(a, l, q, h, w),
           NEW b, IsLine(b, l, Append(q, Head(h)), <<>>, w)
    PROVE  /\ Len(a) \in Nat /\ Len(b) = Len(a)
           /\ \A i \in 1..Len(b) : b[i] = a[i]
<1> DEFINE r == Append(q, Head(h))
           o == <<>>
<1>1. Head(h) \in Item /\ Head(h) = h[1]
  BY NonEmpty, PopSeq
<1>2. /\ Len(r) = Len(q) + 1 /\ r[Len(q) + 1] = h[1]
      /\ \A i \in 1..Len(q) : r[i] = q[i]
  BY <1>1, AppendSeq
<1>3. Len(o) = 0
  OBVIOUS
<1>4. Len(q) \in Nat /\ Len(w) \in Nat
  BY LenNat
<1> HIDE DEF r, o
<1>5. Len(a) = 2 + Len(q) + Len(w) /\ Len(b) = Len(a)
  <2>1. Len(a) = 1 + Len(q) + Len(h) + Len(w)
    BY DEF IsLine
  <2>2. Len(b) = 1 + Len(r) + Len(o) + Len(w)
    BY DEF IsLine, r, o
  <2> QED
    BY <1>2, <1>3, <1>4, <2>1, <2>2
<1>6. ASSUME NEW i \in 1..Len(b) PROVE b[i] = a[i]
  <2>1. b[i] = IF i = 1 THEN l
               ELSE IF i <= 1 + Len(r) THEN r[i - 1]
               ELSE IF i <= 1 + Len(r) + Len(o) THEN o[i - 1 - Len(r)]
               ELSE w[i - 1 - Len(r) - Len(o)]
    BY DEF IsLine, r, o
  <2>2. a[i] = IF i = 1 THEN l
               ELSE IF i <= 1 + Len(q) THEN q[i - 1]
               ELSE IF i <= 1 + Len(q) + Len(h) THEN h[i - 1 - Len(q)]
               ELSE w[i - 1 - Len(q) - Len(h)]
    BY <1>5 DEF IsLine
  <2>3. CASE i = 1
    BY <2>1, <2>2, <2>3
  <2>4. CASE i > 1 /\ i <= 1 + Len(q)
    <3>1. i - 1 \in 1..Len(q)
      BY <1>4, <2>4
    <3>2. b[i] = r[i - 1] /\ a[i] = q[i - 1]
      BY <1>2, <1>4, <2>1, <2>2, <2>4
    <3> QED
      BY <1>2, <3>1, <3>2
  <2>5. CASE i = 2 + Len(q)
    <3>1. b[i] = r[i - 1] /\ a[i] = h[i - 1 - Len(q)]
      BY <1>2, <1>4, <2>1, <2>2, <2>5
    <3>2. i - 1 = Len(q) + 1 /\ i - 1 - Len(q) = 1
      BY <1>4, <2>5
    <3> QED
      BY <1>2, <3>1, <3>2
  <2>6. CASE i > 2 + Len(q)
    BY <1>2, <1>3, <1>4, <2>1, <2>2, <2>6
  <2>7. i \in Nat /\ i >= 1
    OBVIOUS
  <2> QED
    BY <1>4, <2>3, <2>4, <2>5, <2>6, <2>7
<1> QED
  BY <1>4, <1>5, <1>6

LEMMA LineCut ==
    ASSUME NEW l \in Item, NEW q \in Seq(Item), NEW h \in Seq(Item),
           NEW w \in Seq(Item), NEW v \in Seq(Item), Len(v) <= Len(w),
           \A i \in 1..Len(v) : v[i] = w[i],
           NEW a, IsLine(a, l, q, h, w),
           NEW b, IsLine(b, l, q, h, v)
    PROVE  /\ Len(a) \in Nat /\ Len(b) \in Nat /\ Len(b) <= Len(a)
           /\ \A i \in 1..Len(b) : b[i] = a[i]
<1>1. Len(q) \in Nat /\ Len(h) \in Nat /\ Len(w) \in Nat /\ Len(v) \in Nat
  BY LenNat
<1>2. Len(a) = 1 + Len(q) + Len(h) + Len(w) /\ Len(b) = 1 + Len(q) + Len(h) + Len(v)
  BY DEF IsLine
<1>3. ASSUME NEW i \in 1..Len(b) PROVE b[i] = a[i]
  <2>1. i \in 1..Len(a)
    BY <1>1, <1>2
  <2>2. b[i] = IF i = 1 THEN l
               ELSE IF i <= 1 + Len(q) THEN q[i - 1]
               ELSE IF i <= 1 + Len(q) + Len(h) THEN h[i - 1 - Len(q)]
               ELSE v[i - 1 - Len(q) - Len(h)]
    BY DEF IsLine
  <2>3. a[i] = IF i = 1 THEN l
               ELSE IF i <= 1 + Len(q) THEN q[i - 1]
               ELSE IF i <= 1 + Len(q) + Len(h) THEN h[i - 1 - Len(q)]
               ELSE w[i - 1 - Len(q) - Len(h)]
    BY <2>1 DEF IsLine
  <2>4. CASE i <= 1 + Len(q) + Len(h)
    BY <1>1, <2>2, <2>3, <2>4
  <2>5. CASE i > 1 + Len(q) + Len(h)
    <3>1. i - 1 - Len(q) - Len(h) \in 1..Len(v)
      BY <1>1, <1>2, <2>5
    <3>2. /\ b[i] = v[i - 1 - Len(q) - Len(h)]
          /\ a[i] = w[i - 1 - Len(q) - Len(h)]
      BY <1>1, <2>2, <2>3, <2>5
    <3> QED
      BY <3>1, <3>2
  <2> QED
    BY <1>1, <2>4, <2>5
<1> QED
  BY <1>1, <1>2, <1>3

LEMMA LineGrown ==
    ASSUME NEW l \in Item, NEW q \in Seq(Item), NEW h \in Seq(Item),
           NEW w \in Seq(Item), NEW x \in Item,
           NEW a, IsLine(a, l, q, h, w),
           NEW b, IsLine(b, l, q, h, Append(w, x))
    PROVE  /\ Len(a) \in Nat /\ Len(a) >= 1 /\ Len(b) = Len(a) + 1
           /\ b[Len(b)] = x
           /\ \A i \in 1..Len(a) : b[i] = a[i]
<1> DEFINE v == Append(w, x)
<1>1. /\ v \in Seq(Item) /\ Len(v) = Len(w) + 1 /\ v[Len(w) + 1] = x
      /\ \A i \in 1..Len(w) : v[i] = w[i]
  BY AppendSeq
<1> HIDE DEF v
<1>2. Len(q) \in Nat /\ Len(h) \in Nat /\ Len(w) \in Nat
  BY LenNat
<1>3. Len(a) = 1 + Len(q) + Len(h) + Len(w) /\ Len(b) = 1 + Len(q) + Len(h) + Len(v)
  BY DEF IsLine, v
<1>4. b[Len(b)] = x
  <2>1. Len(b) \in 1..Len(b) /\ Len(b) > 1 + Len(q) + Len(h)
    BY <1>1, <1>2, <1>3
  <2>2. b[Len(b)] = IF Len(b) = 1 THEN l
               ELSE IF Len(b) <= 1 + Len(q) THEN q[Len(b) - 1]
               ELSE IF Len(b) <= 1 + Len(q) + Len(h) THEN h[Len(b) - 1 - Len(q)]
               ELSE v[Len(b) - 1 - Len(q) - Len(h)]
    BY <2>1 DEF IsLine, v
  <2>3. b[Len(b)] = v[Len(b) - 1 - Len(q) - Len(h)]
    BY <1>2, <2>1, <2>2
  <2>4. Len(b) - 1 - Len(q) - Len(h) = Len(w) + 1
    BY <1>1, <1>2, <1>3
  <2> QED
    BY <1>1, <2>3, <2>4
<1>5. /\ Len(a) \in Nat /\ Len(b) \in Nat /\ Len(a) <= Len(b)
      /\ \A i \in 1..Len(a) : a[i] = b[i]
  <2>1. IsLine(b, l, q, h, v)
    BY DEF v
  <2>2. Len(w) <= Len(v) /\ \A i \in 1..Len(w) : w[i] = v[i]
    BY <1>1, <1>2
  <2> QED
    BY <1>1, <2>1, <2>2, LineCut
<1> QED
  BY <1>1, <1>2, <1>3, <1>4, <1>5

(* What that means for its order. *)

LEMMA OrderSame ==
    ASSUME NEW a, NEW b, NEW n, Len(a) \in Nat, Len(b) \in Nat, Len(b) <= Len(a),
           \A i \in 1..Len(b) : b[i].n = a[i].n /\ b[i].first = a[i].first,
           InOrder(a), Upto(a, n)
    PROVE  InOrder(b) /\ Upto(b, n)
<1>1. ASSUME NEW i \in 2..Len(b) PROVE Follows(b[i - 1], b[i])
  <2>1. i \in 2..Len(a) /\ i \in 1..Len(b) /\ i - 1 \in 1..Len(b)
    OBVIOUS
  <2>2. Follows(a[i - 1], a[i])
    BY <2>1 DEF InOrder
  <2> QED
    BY <2>1, <2>2 DEF Follows
<1>2. ASSUME NEW i \in 1..Len(b) PROVE b[i].n <= n
  <2>1. i \in 1..Len(a)
    OBVIOUS
  <2> QED
    BY <2>1 DEF Upto
<1> QED
  BY <1>1, <1>2 DEF InOrder, Upto

LEMMA OrderTaken ==
    ASSUME NEW a, NEW b, NEW n, Len(a) \in Nat, Len(b) = Len(a) - 1, Len(b) >= 1,
           \A i \in 1..Len(b) : b[i] = a[i + 1],
           InOrder(a), Upto(a, n)
    PROVE  InOrder(b) /\ Upto(b, n) /\ (EndsAt(a, n) => EndsAt(b, n))
<1>1. ASSUME NEW i \in 2..Len(b) PROVE Follows(b[i - 1], b[i])
  <2>1. i + 1 \in 2..Len(a) /\ i \in 1..Len(b) /\ i - 1 \in 1..Len(b)
    OBVIOUS
  <2>2. Follows(a[i + 1 - 1], a[i + 1])
    BY <2>1 DEF InOrder
  <2>3. i + 1 - 1 = i - 1 + 1
    OBVIOUS
  <2>4. b[i - 1] = a[i - 1 + 1] /\ b[i] = a[i + 1]
    BY <2>1
  <2> QED
    BY <2>2, <2>3, <2>4
<1>2. ASSUME NEW i \in 1..Len(b) PROVE b[i].n <= n
  <2>1. i + 1 \in 1..Len(a)
    OBVIOUS
  <2> QED
    BY <2>1 DEF Upto
<1>3. b[Len(b)] = a[Len(a)]
  <2>1. Len(b) \in 1..Len(b) /\ Len(b) + 1 = Len(a)
    OBVIOUS
  <2> QED
    BY <2>1
<1> QED
  BY <1>1, <1>2, <1>3 DEF InOrder, Upto, EndsAt

LEMMA OrderGrown ==
    ASSUME NEW a, NEW b, NEW n \in Nat, NEW x,
           Len(a) \in Nat, Len(a) >= 1, Len(b) = Len(a) + 1, b[Len(b)] = x,
           \A i \in 1..Len(a) : b[i] = a[i],
           \A i \in 1..Len(a) : a[i].n \in Nat,
           InOrder(a), Upto(a, n),
           x.n = n + 1, ~x.first => EndsAt(a, n)
    PROVE  InOrder(b) /\ Upto(b, n + 1) /\ EndsAt(b, n + 1)
<1>0. Len(a) \in 1..Len(a)
  OBVIOUS
<1>1. ASSUME NEW i \in 2..Len(b) PROVE Follows(b[i - 1], b[i])
  <2>1. CASE i <= Len(a)
    <3>1. i \in 2..Len(a) /\ i \in 1..Len(a) /\ i - 1 \in 1..Len(a)
      BY <2>1
    <3>2. Follows(a[i - 1], a[i])
      BY <3>1 DEF InOrder
    <3> QED
      BY <3>1, <3>2
  <2>2. CASE i > Len(a)
    <3>1. i = Len(b) /\ i - 1 = Len(a)
      BY <2>2
    <3>2. b[i] = x /\ b[i - 1] = a[Len(a)]
      BY <1>0, <3>1
    <3>3. a[Len(a)].n <= n /\ a[Len(a)].n \in Nat
      BY <1>0 DEF Upto
    <3>4. ~x.first => a[Len(a)].n = n
      BY DEF EndsAt
    <3>5. a[Len(a)].n < n + 1 /\ (~x.first => n + 1 = a[Len(a)].n + 1)
      BY <3>3, <3>4
    <3> QED
      BY <3>2, <3>5 DEF Follows
  <2> QED
    BY <2>1, <2>2
<1>2. ASSUME NEW i \in 1..Len(b) PROVE b[i].n <= n + 1
  <2>1. CASE i <= Len(a)
    <3>1. i \in 1..Len(a)
      BY <2>1
    <3>2. b[i] = a[i] /\ a[i].n \in Nat /\ a[i].n <= n
      BY <3>1 DEF Upto
    <3> QED
      BY <3>2
  <2>2. CASE i > Len(a)
    <3>1. i = Len(b)
      BY <2>2
    <3> QED
      BY <3>1
  <2> QED
    BY <2>1, <2>2
<1> QED
  BY <1>1, <1>2 DEF InOrder, Upto, EndsAt

(* The channels and the line as the type invariant has them. *)
LineOK ==
    /\ last \in Item /\ queue \in Seq(Item) /\ hand \in Seq(Item)
    /\ wire \in Seq(Item) /\ said \in Nat
    /\ Len(hand) = (IF pc = "sending" THEN 1 ELSE 0)
    /\ IsLine(All, last, queue, hand, wire)
    /\ Len(All) \in Nat /\ Len(All) >= 1
    /\ \A i \in 1..Len(All) : All[i].n \in Nat

LEMMA LineTypes == TypeOK => LineOK
<1> SUFFICES ASSUME TypeOK PROVE LineOK
  OBVIOUS
<1>1. last \in Item /\ Len(hand) = (IF pc = "sending" THEN 1 ELSE 0)
  BY DEF TypeOK, Item
<1>2. said \in Nat
  BY BoundAssumption DEF TypeOK
<1>3. queue \in Seq(Item) /\ hand \in Seq(Item) /\ wire \in Seq(Item)
  <2>1. queue \in Seq(Event) /\ hand \in Seq(Event) /\ wire \in Seq(WireItem)
    BY DEF TypeOK, WireItem
  <2>2. ASSUME NEW S, NEW T, S \subseteq T, NEW s \in Seq(S) PROVE s \in Seq(T)
    BY <2>2
  <2> QED
    BY <2>1, <2>2 DEF Item
<1>4. IsLine(All, last, queue, hand, wire)
  BY <1>1, <1>3, AllIsLine DEF All
<1>5. All \in Seq(Item)
  <2>1. ASSUME NEW S, NEW l \in S, NEW q \in Seq(S), NEW h \in Seq(S), NEW w \in Seq(S)
        PROVE  AllOf(l, q, h, w) \in Seq(S)
    BY <2>1 DEF AllOf
  <2> QED
    BY <1>1, <1>3, <2>1 DEF All
<1>6. Len(All) \in Nat /\ Len(All) >= 1
  <2>1. Len(queue) \in Nat /\ Len(hand) \in Nat /\ Len(wire) \in Nat
    BY <1>3, LenNat
  <2> QED
    BY <1>4, <2>1 DEF IsLine
<1>7. ASSUME NEW i \in 1..Len(All) PROVE All[i].n \in Nat
  <2>1. All[i] \in Item
    BY <1>5, <1>6
  <2> QED
    BY <2>1 DEF Item, Event, WireItem
<1> QED
  BY <1>1, <1>2, <1>3, <1>4, <1>6, <1>7 DEF LineOK

(* The order of the line, and where it ends.                                  *)
Line == InOrder(All) /\ Upto(All, said)
LineEnds == conn = "up" /\ ~fresh => EndsAt(All, said)

LEMMA OrderNext == TypeOK /\ OrderInv /\ [Next]_vars => OrderInv'
<1> SUFFICES ASSUME TypeOK, OrderInv, [Next]_vars PROVE OrderInv'
  OBVIOUS
<1> USE DEF link, delay, mainSide
<1>1. TypeOK'
  BY NextType
<1>2. LineOK
  BY LineTypes
<1>3. LineOK'
  BY <1>1, LineTypes, PTL
<1>4. CASE main = "returned"
  <2>1. main' = "returned"
    BY <1>4 DEF Next, Network, BridgeSays, StreamEnds, LinkDies, LinkBreaks, Connected,
       ConnectFails, Task, Check, SleepOver, SleepSeesShutdown, ReadSeesShutdown,
       NextFrame, FramePanics, WatchdogTrips, SeesEnd, Send, SendFails, MainTakes,
       MainStops, MainReturns, Finished, vars
  <2>2. conn' = "none" => fresh'
    BY DEF OrderInv, Next, Network, BridgeSays, StreamEnds, LinkDies, LinkBreaks,
       Connected, ConnectFails, Task, Check, SleepOver, SleepSeesShutdown,
       ReadSeesShutdown, NextFrame, FramePanics, WatchdogTrips, SeesEnd, Send,
       SendFails, CloseStream, MainTakes, MainStops, MainReturns, Finished, vars
  <2> QED
    BY <2>1, <2>2 DEF OrderInv
<1>5. CASE main # "returned"
  <2>0. (conn = "none" => fresh) /\ Line /\ LineEnds
    BY <1>5 DEF OrderInv, Line, LineEnds
  <2>1. (conn' = "none" => fresh') /\ Line' /\ LineEnds' => OrderInv'
    BY DEF OrderInv, Line, LineEnds
  <2>2. All' = All /\ said' = said => Line'
    BY <2>0 DEF Line
  <2>3. All' = All /\ said' = said /\ UNCHANGED <<conn, fresh>> => LineEnds'
    BY <2>0 DEF LineEnds
  <2>4. UNCHANGED <<last, queue, hand, wire>> => All' = All
    BY DEF All
  <2>5. CASE Check \/ SleepOver \/ SleepSeesShutdown \/ ConnectFails \/ MainStops
             \/ UNCHANGED vars
    <3>1. UNCHANGED <<last, queue, hand, wire, said, conn, fresh>>
      BY <2>5 DEF Check, SleepOver, SleepSeesShutdown, ConnectFails, MainStops, vars
    <3> QED
      BY <2>0, <2>1, <2>2, <2>3, <2>4, <3>1
  <2>6. CASE Connected
    <3>1. UNCHANGED <<last, queue, hand, wire, said, fresh>> /\ conn' = "up"
      BY <2>6 DEF Connected
    <3>2. conn = "none"
      BY <2>6 DEF Connected, TypeOK
    <3> QED
      BY <2>0, <2>1, <2>2, <2>4, <3>1, <3>2 DEF LineEnds
  <2>7. CASE StreamEnds \/ LinkDies
    <3>1. UNCHANGED <<last, queue, hand, wire, said>> /\ conn' \notin {"up", "none"}
      BY <2>7 DEF StreamEnds, LinkDies
    <3> QED
      BY <2>1, <2>2, <2>4, <3>1 DEF LineEnds
  <2>8. ASSUME UNCHANGED <<last, queue, hand, said>>, conn' # "up",
               Len(wire') <= Len(wire), \A i \in 1..Len(wire') : wire'[i] = wire[i],
               conn' = "none" => fresh'
        PROVE  OrderInv'
    <3>1. IsLine(All', last, queue, hand, wire')
      BY <1>3, <2>8 DEF LineOK
    <3>2. /\ Len(All) \in Nat /\ Len(All') \in Nat /\ Len(All') <= Len(All)
          /\ \A i \in 1..Len(All') : All'[i] = All[i]
      BY <1>2, <1>3, <2>8, <3>1, LineCut DEF LineOK
    <3>3. InOrder(All') /\ Upto(All', said)
      BY <2>0, <3>2, OrderSame DEF Line
    <3> QED
      BY <2>1, <2>8, <3>3 DEF Line, LineEnds
  <2>9. CASE ReadSeesShutdown \/ FramePanics \/ WatchdogTrips \/ SeesEnd
    <3>1. UNCHANGED <<last, queue, hand, said>> /\ CloseStream
      BY <2>9 DEF ReadSeesShutdown, FramePanics, WatchdogTrips, SeesEnd
    <3>2. conn' = "none" /\ fresh' /\ Len(wire') = 0
      BY <3>1, EmptySeq DEF CloseStream
    <3>3. Len(wire) \in Nat
      BY <1>2, LenNat DEF LineOK
    <3> QED
      BY <2>8, <3>1, <3>2, <3>3
  <2>10. CASE LinkBreaks
    <3>1. UNCHANGED <<last, queue, hand, said>> /\ conn' = "broken"
      BY <2>10 DEF LinkBreaks
    <3>2. PICK k \in 0..Len(wire) : wire' = SubSeq(wire, 1, k)
      BY <2>10 DEF LinkBreaks
    <3>3. /\ Len(SubSeq(wire, 1, k)) = k
          /\ \A i \in 1..k : SubSeq(wire, 1, k)[i] = wire[i]
      BY <1>2, PrefixSeq DEF LineOK
    <3>4. Len(wire) \in Nat
      BY <1>2, LenNat DEF LineOK
    <3> QED
      BY <2>8, <3>1, <3>2, <3>3, <3>4
  <2>11. ASSUME NEW f \in Frames, BridgeSays(f) PROVE OrderInv'
    <3>1. said' = said + 1 /\ UNCHANGED <<last, queue, hand, conn>>
      BY <2>11 DEF BridgeSays
    <3>2. CASE conn = "up"
      <4> DEFINE x == [n |-> said + 1, first |-> fresh, frame |-> f]
      <4>1. wire' = Append(wire, x) /\ fresh' = FALSE
        BY <2>11, <3>2 DEF BridgeSays
      <4>2. x \in Item
        BY <1>2 DEF LineOK, TypeOK, Item, WireItem
      <4>3. x.n = said + 1 /\ x.first = fresh
        OBVIOUS
      <4> HIDE DEF x
      <4>4. IsLine(All', last, queue, hand, Append(wire, x))
        BY <1>3, <3>1, <4>1 DEF LineOK
      <4>5. /\ Len(All) \in Nat /\ Len(All) >= 1 /\ Len(All') = Len(All) + 1
            /\ All'[Len(All')] = x
            /\ \A i \in 1..Len(All) : All'[i] = All[i]
        BY <1>2, <4>2, <4>4, LineGrown DEF LineOK
      <4>6. ~x.first => EndsAt(All, said)
        BY <2>0, <3>2, <4>3 DEF LineEnds
      <4>7. InOrder(All') /\ Upto(All', said + 1) /\ EndsAt(All', said + 1)
        BY <1>2, <2>0, <4>3, <4>5, <4>6, OrderGrown DEF Line, LineOK
      <4> QED
        BY <2>1, <3>1, <3>2, <4>1, <4>7 DEF Line, LineEnds
    <3>3. CASE conn # "up"
      <4>1. UNCHANGED <<wire, fresh>>
        BY <2>11, <3>3 DEF BridgeSays
      <4>2. All' = All
        BY <2>4, <3>1, <4>1
      <4>3. Upto(All, said + 1)
        BY <1>2, <2>0 DEF Line, Upto, LineOK
      <4> QED
        BY <2>0, <2>1, <3>1, <3>3, <4>1, <4>2, <4>3 DEF Line, LineEnds
    <3> QED
      BY <3>2, <3>3
  <2>12. CASE NextFrame
    <3> DEFINE e == [n |-> Head(wire).n, first |-> Head(wire).first,
                     kind |-> KindOf(Head(wire).frame),
                     meant |-> Head(wire).frame.meant]
    <3>1. wire # <<>> /\ hand' = <<e>> /\ wire' = Tail(wire)
      BY <2>12 DEF NextFrame, Reads
    <3>2. UNCHANGED <<last, queue, said, conn, fresh>> /\ pc = "reading"
      BY <2>12 DEF NextFrame, Reads
    <3>3. e \in Item
      <4>1. wire \in Seq(WireItem)
        BY DEF TypeOK, WireItem
      <4>2. Head(wire) \in WireItem
        BY <3>1, <4>1, PopSeq
      <4> QED
        BY <4>2, EventType DEF Item
    <3>4. e.n = Head(wire).n /\ e.first = Head(wire).first
      OBVIOUS
    <3> HIDE DEF e
    <3>5. hand = <<>>
      <4>1. Len(hand) = 0 /\ hand \in Seq(Item)
        BY <1>2, <3>2 DEF LineOK
      <4> QED
        BY <4>1
    <3>6. IsLine(All, last, queue, <<>>, wire)
      BY <1>2, <3>5 DEF LineOK
    <3>7. IsLine(All', last, queue, <<e>>, Tail(wire))
      BY <1>3, <3>1, <3>2 DEF LineOK
    <3>8. /\ Len(All) \in Nat /\ Len(All') = Len(All)
          /\ \A i \in 1..Len(All') : All'[i].n = All[i].n /\ All'[i].first = All[i].first
      BY <1>2, <3>1, <3>3, <3>4, <3>6, <3>7, LineRead, SMTT(30) DEF LineOK
    <3>9. InOrder(All') /\ Upto(All', said)
      BY <2>0, <3>8, OrderSame DEF Line
    <3>10. All'[Len(All')].n = All[Len(All)].n
      BY <1>2, <3>8 DEF LineOK
    <3> QED
      BY <2>0, <2>1, <3>2, <3>9, <3>10 DEF Line, LineEnds, EndsAt
  <2>13. CASE Send
    <3>1. queue' = Append(queue, Head(hand)) /\ hand' = <<>>
      BY <2>13 DEF Send
    <3>2. UNCHANGED <<last, wire, said, conn, fresh>> /\ pc = "sending"
      BY <2>13 DEF Send
    <3>3. IsLine(All', last, Append(queue, Head(hand)), <<>>, wire)
      BY <1>3, <3>1, <3>2 DEF LineOK
    <3>4. Len(hand) = 1
      BY <1>2, <3>2 DEF LineOK
    <3>5. /\ Len(All) \in Nat /\ Len(All') = Len(All)
          /\ \A i \in 1..Len(All') : All'[i] = All[i]
      BY <1>2, <3>3, <3>4, LineSent DEF LineOK
    <3>6. InOrder(All') /\ Upto(All', said)
      BY <2>0, <3>5, OrderSame DEF Line
    <3>7. All'[Len(All')].n = All[Len(All)].n
      BY <1>2, <3>5 DEF LineOK
    <3> QED
      BY <2>0, <2>1, <3>2, <3>6, <3>7 DEF Line, LineEnds, EndsAt
  <2>14. CASE MainTakes
    <3>1. queue # <<>> /\ last' = Head(queue) /\ queue' = Tail(queue)
      BY <2>14 DEF MainTakes
    <3>2. UNCHANGED <<hand, wire, said, conn, fresh>>
      BY <2>14 DEF MainTakes
    <3>3. IsLine(All', Head(queue), Tail(queue), hand, wire)
      BY <1>3, <3>1, <3>2 DEF LineOK
    <3>4. /\ Len(All) \in Nat /\ Len(All') = Len(All) - 1 /\ Len(All') >= 1
          /\ \A i \in 1..Len(All') : All'[i] = All[i + 1]
      BY <1>2, <3>1, <3>3, LineTaken DEF LineOK
    <3>5. InOrder(All') /\ Upto(All', said) /\ (EndsAt(All, said) => EndsAt(All', said))
      BY <2>0, <3>4, OrderTaken DEF Line
    <3> QED
      BY <2>0, <2>1, <3>2, <3>5 DEF Line, LineEnds
  <2>15. CASE MainReturns
    BY <2>0, <2>15 DEF MainReturns, OrderInv
  <2>16. CASE SendFails
    BY <1>5, <2>16 DEF SendFails
  <2> QED
    BY <2>5, <2>6, <2>7, <2>9, <2>10, <2>11, <2>12, <2>13, <2>14, <2>15, <2>16
       DEF Next, Network, Task, Finished
<1> QED
  BY <1>4, <1>5

LEMMA OrderInit == Init => OrderInv
<1> SUFFICES ASSUME Init PROVE OrderInv
  OBVIOUS
<1>1. Len(All) = 1 /\ All[1] = Nothing
  BY DEF Init, All, AllOf
<1> QED
  BY <1>1 DEF Init, OrderInv, InOrder, Upto, Nothing

LEMMA OrderInvariant == Spec => []OrderInv
<1>1. TypeOK /\ OrderInv /\ [Next]_vars => OrderInv'
  BY OrderNext
<1> QED
  BY <1>1, OrderInit, TypeInvariant, PTL DEF Spec

\* For every depth of the channel: as long as the main task listens, what it has
\* taken, what waits for it, what the task holds and what is on the wire is in
\* the order in which the bridge said it, with gaps only where a stream begins.
THEOREM EventsInOrder == Spec => []DeliveredInOrder
<1>1. OrderInv => DeliveredInOrder
  BY DEF OrderInv, DeliveredInOrder, InOrder, All, AllOf
<1> QED
  BY <1>1, OrderInvariant, PTL

-----------------------------------------------------------------------------
(* The backoff.  What the next sleep takes says how often the task has slept   *)
(* since the last connection, wherever the task is on its way around the loop. *)

\* Behind the sleep it is the one that comes next, and on a stream the first.
BackoffInv ==
    /\ pc = "sleeping" => fails >= 1 /\ backoff = SleepOf(fails)
    /\ pc \in {"check", "connecting"} => backoff = SleepOf(fails + 1)
    /\ pc \in {"reading", "sending"} => fails = 0 /\ backoff = 1

\* From one sleep to the next the backoff doubles, up to its cap.
LEMMA SleepGrows ==
    /\ SleepOf(1) = 1
    /\ \A n \in Nat : n >= 1 =>
          SleepOf(n + 1) = IF SleepOf(n) * 2 < BackoffCap THEN SleepOf(n) * 2
                           ELSE BackoffCap
<1>1. /\ SleepOf(1) = 1 /\ SleepOf(2) = 2 /\ SleepOf(3) = 4 /\ SleepOf(4) = 8
      /\ SleepOf(5) = 16 /\ SleepOf(6) = 32
  BY DEF SleepOf
<1>2. \A n \in Nat : n > 6 => SleepOf(n) = 60
  BY DEF SleepOf
<1>3. SleepOf(7) = 60
  BY <1>2
<1>4. ASSUME NEW n \in Nat, n >= 1
      PROVE  SleepOf(n + 1) = IF SleepOf(n) * 2 < BackoffCap THEN SleepOf(n) * 2
                              ELSE BackoffCap
  <2>1. CASE n > 6
    <3>1. SleepOf(n) = 60 /\ SleepOf(n + 1) = 60
      BY <1>2, <2>1
    <3> QED
      BY <3>1 DEF BackoffCap
  <2>2. CASE n \in {1, 2, 3, 4, 5, 6}
    BY <1>1, <1>3, <2>2 DEF BackoffCap
  <2>3. n > 6 \/ n \in {1, 2, 3, 4, 5, 6}
    BY <1>4
  <2> QED
    BY <2>1, <2>2, <2>3
<1> QED
  BY <1>1, <1>4

\* A step keeps the relation of the backoff to the sleeps so far.
LEMMA BackoffNext == TypeOK /\ BackoffInv /\ [Next]_vars => BackoffInv'
<1> SUFFICES ASSUME TypeOK, BackoffInv, [Next]_vars PROVE BackoffInv'
  OBVIOUS
<1> USE DEF delay, link, mainSide
<1>0. fails \in 0..MaxFails /\ MaxFails \in Nat /\ MaxFails > 6 /\ backoff \in Int
  BY BoundAssumption DEF TypeOK, BackoffCap
<1>1. CASE UNCHANGED <<pc, backoff, fails>>
  BY <1>1 DEF BackoffInv
<1>2. CASE Check
  BY <1>2 DEF Check, BackoffInv
<1>3. CASE Connected
  BY <1>3 DEF Connected, BackoffInv
<1>4. ASSUME Rest, backoff' = backoff, pc \in {"connecting", "reading"}
      PROVE  BackoffInv'
  <2>1. pc' = "sleeping" /\ fails' = IF fails < MaxFails THEN fails + 1 ELSE fails
    BY <1>4 DEF Rest
  <2>2. fails' >= 1
    BY <1>0, <2>1
  <2>3. backoff = SleepOf(fails + 1)
    <3>1. pc = "reading" => backoff = SleepOf(0 + 1) /\ fails = 0
      BY SleepGrows DEF BackoffInv
    <3> QED
      BY <1>4, <3>1 DEF BackoffInv
  <2>4. backoff = SleepOf(fails')
    <3>1. CASE fails < MaxFails
      BY <2>1, <2>3, <3>1
    <3>2. CASE ~(fails < MaxFails)
      <4>1. fails > 6 /\ fails + 1 > 6 /\ fails' = fails
        BY <1>0, <2>1, <3>2
      <4> QED
        BY <2>3, <4>1 DEF SleepOf
    <3> QED
      BY <3>1, <3>2
  <2> QED
    BY <1>4, <2>1, <2>2, <2>4 DEF BackoffInv
<1>5. CASE ConnectFails
  BY <1>4, <1>5 DEF ConnectFails
<1>6. CASE WatchdogTrips \/ SeesEnd
  BY <1>4, <1>6 DEF WatchdogTrips, SeesEnd, Reads
<1>7. CASE SleepOver
  <2>1. fails \in Nat /\ fails >= 1 /\ backoff = SleepOf(fails)
    BY <1>0, <1>7 DEF SleepOver, BackoffInv
  <2>2. /\ pc' = "check" /\ fails' = fails
        /\ backoff' = IF backoff * 2 < BackoffCap THEN backoff * 2 ELSE BackoffCap
    BY <1>7 DEF SleepOver
  <2>3. backoff' = SleepOf(fails + 1)
    BY <2>1, <2>2, SleepGrows
  <2> QED
    BY <2>2, <2>3 DEF BackoffInv
<1>8. CASE SleepSeesShutdown \/ ReadSeesShutdown \/ FramePanics
  BY <1>8 DEF SleepSeesShutdown, ReadSeesShutdown, FramePanics, BackoffInv
<1>9. CASE NextFrame \/ Send
  BY <1>9 DEF NextFrame, Send, Reads, BackoffInv
<1>10. CASE SendFails
  BY <1>10 DEF SendFails, BackoffInv
<1>11. CASE Network \/ MainTakes \/ MainStops \/ MainReturns \/ UNCHANGED vars
  BY <1>1, <1>11 DEF Network, BridgeSays, StreamEnds, LinkDies, LinkBreaks,
     MainTakes, MainStops, MainReturns, vars
<1> QED
  BY <1>2, <1>3, <1>5, <1>6, <1>7, <1>8, <1>9, <1>10, <1>11 DEF Next, Task, Finished

\* It holds at the start.
LEMMA BackoffInit == Init => BackoffInv
BY SleepGrows DEF Init, BackoffInv

\* However many attempts fail, in whatever way, and however often the task has
\* been connected before: the sleeps of one outage take 1, 2, 4, 8, 16, 32 and
\* then 60 seconds each, and 1 again in the next one (sse.rs:119-141, 194-197).
THEOREM BackoffsDouble == Spec => []BackoffDoubles
<1>1. BackoffInv => BackoffDoubles
  BY DEF BackoffInv, BackoffDoubles
<1> QED
  BY <1>1, BackoffInit, BackoffNext, TypeInvariant, PTL DEF Spec
=============================================================================
