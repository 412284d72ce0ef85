-------------------------- MODULE PeerSessionProofs --------------------------
(***************************************************************************)
(* Theorems about PeerSession, for every depth of the queues and every     *)
(* bound.                                                                  *)
(***************************************************************************)
EXTENDS PeerSession, TLAPS

-----------------------------------------------------------------------------
(* What the channels' operations do to a sequence. *)

LEMMA EmptySeq ==
    ASSUME NEW S
    PROVE  <<>> \in Seq(S) /\ Len(<<>>) = 0
  OBVIOUS

LEMMA OneSeq ==
    ASSUME NEW S, NEW e \in S
    PROVE  <<e>> \in Seq(S) /\ Len(<<e>>) = 1 /\ Head(<<e>>) = e /\ <<e>> # <<>>
  OBVIOUS

LEMMA AppendSeq ==
    ASSUME NEW S, NEW s \in Seq(S), NEW e \in S
    PROVE  Append(s, e) \in Seq(S) /\ Len(Append(s, e)) = Len(s) + 1
  OBVIOUS

LEMMA PopSeq ==
    ASSUME NEW S, NEW s \in Seq(S), s # <<>>
    PROVE  /\ Head(s) \in S
           /\ Tail(s) \in Seq(S)
           /\ Len(Tail(s)) = Len(s) - 1
  OBVIOUS

LEMMA LenNat == ASSUME NEW S, NEW s \in Seq(S) PROVE Len(s) \in Nat
  OBVIOUS

LEMMA LenZero == ASSUME NEW S, NEW s \in Seq(S) PROVE s = <<>> <=> Len(s) = 0
  OBVIOUS

LEMMA HandLen ==
    ASSUME NEW S, NEW s \in Seq(S), s # <<>>, Len(s) <= 1
    PROVE  Len(s) = 1
<1>1. Len(s) # 0
  BY LenZero
<1>2. Len(s) \in Nat
  BY LenNat
<1> QED
  BY <1>1, <1>2

LEMMA FlushSeq ==
    ASSUME NEW m \in Nat, NEW k \in Nat
    PROVE  [i \in 1..k |-> m + i] \in Seq(Nat)
  OBVIOUS

-----------------------------------------------------------------------------
(* Type correctness.  A step takes a line, a chunk or an item from the hand *)
(* its program counter says is full, so the type invariant is inductive     *)
(* only together with the agreement of program counters and hands.          *)

HandsAgree ==
    /\ actorPc = "forward" <=> actorHand # <<>>
    /\ actorPc = "marker" => actorOut # <<>>
    /\ senderPc \in {"limited", "post"} <=> senderHand # <<>>

(* A component whose variables a step leaves alone keeps its type. *)

LEMMA TypeFrame ==
    /\ WriterTypeOK /\ UNCHANGED writerSide => WriterTypeOK'
    /\ ReaderTypeOK /\ UNCHANGED readerSide => ReaderTypeOK'
    /\ TerminalTypeOK /\ UNCHANGED terminal => TerminalTypeOK'
    /\ PtyTypeOK /\ UNCHANGED ptyVars => PtyTypeOK'
    /\ HandleTypeOK /\ UNCHANGED <<daemonVars, inputQ, idle>> => HandleTypeOK'
    /\ LoopTypeOK /\ UNCHANGED loopVars => LoopTypeOK'
    /\ ChunkTypeOK /\ UNCHANGED chunkVars => ChunkTypeOK'
    /\ OutTypeOK /\ UNCHANGED <<outQ, senderVars>> => OutTypeOK'
<1>1. WriterTypeOK /\ UNCHANGED writerSide => WriterTypeOK'
  BY DEF WriterTypeOK, writerSide, AtMostOne
<1>2. ReaderTypeOK /\ UNCHANGED readerSide => ReaderTypeOK'
  BY DEF ReaderTypeOK, readerSide, AtMostOne
<1>3. TerminalTypeOK /\ UNCHANGED terminal => TerminalTypeOK'
  BY DEF TerminalTypeOK, terminal
<1>4. PtyTypeOK /\ UNCHANGED ptyVars => PtyTypeOK'
  BY <1>1, <1>2, <1>3 DEF PtyTypeOK, ptyVars, ends
<1>5. HandleTypeOK /\ UNCHANGED <<daemonVars, inputQ, idle>> => HandleTypeOK'
  BY DEF HandleTypeOK, daemonVars
<1>6. LoopTypeOK /\ UNCHANGED loopVars => LoopTypeOK'
  BY DEF LoopTypeOK, loopVars, AtMostOne
<1>7. ChunkTypeOK /\ UNCHANGED chunkVars => ChunkTypeOK'
  BY DEF ChunkTypeOK, chunkVars
<1>8. OutTypeOK /\ UNCHANGED <<outQ, senderVars>> => OutTypeOK'
  BY DEF OutTypeOK, senderVars, AtMostOne
<1> QED
  BY <1>1, <1>2, <1>3, <1>4, <1>5, <1>6, <1>7, <1>8

LEMMA TypeInit == Init => TypeOK
<1> SUFFICES ASSUME Init PROVE TypeOK
  OBVIOUS
<1>1. ptyIn = <<>> /\ writerHand = <<>> /\ writerDone = FALSE /\ written = 0
  BY DEF Init, PtyInit
<1>2. readerHand = <<>> /\ readerDone = FALSE /\ ptyOut = <<>>
  BY DEF Init, PtyInit
<1>3. ttyIn = 0 /\ ttyOut = 0 /\ shell = "alive" /\ owed = 1
  BY DEF Init, PtyInit
<1>4. ptyInOpen = TRUE /\ ptyOutOpen = TRUE
  BY DEF Init, PtyInit
<1>5. actorPc = "select" /\ actorHand = <<>> /\ reason = "none" /\ late = 0
  BY DEF Init
<1>6. outQ = <<>> /\ senderPc = "recv" /\ senderHand = <<>> /\ posted = NoItem
  BY DEF Init
<1>7. WriterTypeOK
  <2>1. ptyIn \in Seq(Nat) /\ writerHand \in Seq(Nat)
    BY <1>1, EmptySeq
  <2>2. Len(ptyIn) <= PtyInDepth /\ AtMostOne(writerHand)
    BY <1>1, EmptySeq, PtyAssumption DEF AtMostOne
  <2> QED
    BY <1>1, <2>1, <2>2 DEF WriterTypeOK
<1>8. ReaderTypeOK
  <2>1. readerHand \in Seq(ReadKinds) /\ ptyOut \in Seq(ReadKinds)
    BY <1>2, EmptySeq
  <2>2. Len(ptyOut) <= PtyOutDepth /\ AtMostOne(readerHand)
    BY <1>2, EmptySeq, PtyAssumption DEF AtMostOne
  <2> QED
    BY <1>2, <2>1, <2>2 DEF ReaderTypeOK
<1>9. TerminalTypeOK
  <2>1. ttyIn \in 0..TtyInDepth /\ ttyOut \in 0..TtyOutDepth
    BY <1>3, PtyAssumption
  <2>2. shell \in ShellStates /\ owed \in Nat
    BY <1>3 DEF ShellStates
  <2> QED
    BY <2>1, <2>2 DEF TerminalTypeOK
<1>10. HandleTypeOK
  <2>1. inputQ \in Seq(Nat) /\ Len(inputQ) = 0
    BY EmptySeq DEF Init
  <2>2. Len(inputQ) <= InDepth
    BY <2>1, SessionAssumption
  <2> QED
    BY <2>1, <2>2 DEF Init, HandleTypeOK
<1>11. LoopTypeOK
  BY <1>5, EmptySeq DEF LoopTypeOK, ActorPcs, Reasons, AtMostOne
<1>12. ChunkTypeOK
  BY EmptySeq DEF Init, ChunkTypeOK
<1>13. OutTypeOK
  BY <1>6, EmptySeq, SessionAssumption DEF OutTypeOK, SenderPcs, AtMostOne
<1> QED
  BY <1>4, <1>7, <1>8, <1>9, <1>10, <1>11, <1>12, <1>13 DEF TypeOK, PtyTypeOK

LEMMA TypeBashGone ==
    TerminalTypeOK /\ BashGone /\ ttyOut' = ttyOut => TerminalTypeOK'
<1> SUFFICES ASSUME TerminalTypeOK, BashGone, ttyOut' = ttyOut
             PROVE  TerminalTypeOK'
  OBVIOUS
<1>1. ttyIn' \in 0..TtyInDepth /\ ttyOut' \in 0..TtyOutDepth
  BY PtyAssumption DEF BashGone, TerminalTypeOK
<1>2. shell' \in ShellStates
  BY DEF BashGone, ShellStates
<1>3. owed' \in Nat
  BY PtyAssumption DEF BashGone
<1> QED
  BY <1>1, <1>2, <1>3 DEF TerminalTypeOK

LEMMA TypePtyStep ==
    ASSUME PtyTypeOK, PtyThreads \/ Shell
    PROVE  PtyTypeOK'
<1> USE PtyAssumption DEF PtyTypeOK
<1>1. CASE WriterRecv
  <2>1. WriterTypeOK'
    BY <1>1, PopSeq, OneSeq, LenNat DEF WriterRecv, WriterTypeOK, AtMostOne
  <2> QED
    BY <1>1, <2>1, TypeFrame DEF WriterRecv, ends
<1>2. CASE WriterWrite
  <2>1. WriterTypeOK'
    BY <1>2, PopSeq, EmptySeq DEF WriterWrite, WriterTypeOK, AtMostOne
  <2>2. TerminalTypeOK'
    BY <1>2 DEF WriterWrite, TerminalTypeOK
  <2> QED
    BY <1>2, <2>1, <2>2, TypeFrame DEF WriterWrite, ends
<1>3. CASE WriterFail
  <2>1. WriterTypeOK'
    BY <1>3, EmptySeq DEF WriterFail, WriterTypeOK, AtMostOne
  <2> QED
    BY <1>3, <2>1, TypeFrame DEF WriterFail, ends
<1>4. CASE WriterEnd
  <2>1. WriterTypeOK'
    BY <1>4 DEF WriterEnd, WriterTypeOK, AtMostOne
  <2> QED
    BY <1>4, <2>1, TypeFrame DEF WriterEnd, ends
<1>5. CASE ReaderRead
  <2>1. ReaderTypeOK'
    BY <1>5, OneSeq DEF ReaderRead, ReaderTypeOK, AtMostOne
  <2>2. TerminalTypeOK'
    BY <1>5 DEF ReaderRead, TerminalTypeOK
  <2> QED
    BY <1>5, <2>1, <2>2, TypeFrame DEF ReaderRead, ends
<1>6. CASE ReaderSend
  <2>1. ReaderTypeOK'
    BY <1>6, PopSeq, AppendSeq, EmptySeq, LenNat
       DEF ReaderSend, ReaderTypeOK, AtMostOne
  <2> QED
    BY <1>6, <2>1, TypeFrame DEF ReaderSend, ends
<1>7. CASE ReaderEnd
  <2>1. ReaderTypeOK'
    BY <1>7, EmptySeq DEF ReaderEnd, ReaderTypeOK, AtMostOne
  <2> QED
    BY <1>7, <2>1, TypeFrame DEF ReaderEnd, ends
<1>8. CASE ShellRead
  <2>1. TerminalTypeOK'
    BY <1>8 DEF ShellRead, TerminalTypeOK
  <2> QED
    BY <1>8, <2>1, TypeFrame DEF ShellRead, ends
<1>9. CASE ShellPrint
  <2>1. TerminalTypeOK'
    BY <1>9 DEF ShellPrint, TerminalTypeOK
  <2> QED
    BY <1>9, <2>1, TypeFrame DEF ShellPrint, ends
<1>10. CASE ShellExit
  <2>1. TerminalTypeOK'
    BY <1>10, TypeBashGone DEF ShellExit
  <2> QED
    BY <1>10, <2>1, TypeFrame DEF ShellExit, ends
<1>11. CASE JobsEnd
  <2>1. TerminalTypeOK'
    BY <1>11, PtyAssumption DEF JobsEnd, TerminalTypeOK, ShellStates
  <2> QED
    BY <1>11, <2>1, TypeFrame DEF JobsEnd, ends
<1> QED
  BY <1>1, <1>2, <1>3, <1>4, <1>5, <1>6, <1>7, <1>8, <1>9, <1>10, <1>11
     DEF PtyThreads, Shell

LEMMA TypeEnvironment == TypeOK /\ Environment => TypeOK'
<1> SUFFICES ASSUME TypeOK, Environment PROVE TypeOK'
  OBVIOUS
<1> USE DEF TypeOK
<1>1. CASE Deliver
  <2>1. HandleTypeOK'
    <3>1. CASE Len(inputQ) < InDepth
      <4>1. inputQ' = Append(inputQ, accepted + 1) /\ accepted' = accepted + 1
        BY <1>1, <3>1 DEF Deliver
      <4>2. inputQ' \in Seq(Nat) /\ Len(inputQ') = Len(inputQ) + 1
        BY <4>1, AppendSeq DEF HandleTypeOK
      <4>3. Len(inputQ') <= InDepth
        BY <4>2, <3>1, LenNat, SessionAssumption DEF HandleTypeOK
      <4>4. accepted' \in Nat /\ idle' = FALSE /\ UNCHANGED <<handle, shutdown>>
        BY <1>1, <4>1 DEF Deliver, HandleTypeOK
      <4> QED
        BY <4>2, <4>3, <4>4 DEF HandleTypeOK
    <3>2. CASE ~(Len(inputQ) < InDepth)
      BY <1>1, <3>2 DEF Deliver, HandleTypeOK
    <3> QED
      BY <3>1, <3>2
  <2> QED
    BY <1>1, <2>1, TypeFrame DEF Deliver
<1>2. ASSUME NEW why \in ShutdownReasons, Shutdown(why) PROVE TypeOK'
  <2>1. HandleTypeOK'
    BY <1>2 DEF Shutdown, HandleTypeOK
  <2> QED
    BY <1>2, <2>1, TypeFrame DEF Shutdown
<1>3. CASE DropHandle
  <2>1. HandleTypeOK'
    BY <1>3 DEF DropHandle, HandleTypeOK
  <2> QED
    BY <1>3, <2>1, TypeFrame DEF DropHandle
<1>4. CASE IdleElapses
  <2>1. HandleTypeOK'
    BY <1>4 DEF IdleElapses, HandleTypeOK, daemonVars
  <2> QED
    BY <1>4, <2>1, TypeFrame DEF IdleElapses
<1>5. CASE SilenceElapses
  <2>1. ChunkTypeOK'
    BY <1>5 DEF SilenceElapses, ChunkTypeOK
  <2> QED
    BY <1>5, <2>1, TypeFrame DEF SilenceElapses
<1> QED
  BY <1>1, <1>2, <1>3, <1>4, <1>5 DEF Environment

\* Leaving the loop: a flush of the chunker and a reason.
LEMMA TypeBreak ==
    ASSUME ChunkTypeOK, LoopTypeOK, NEW why \in Reasons, Break(why)
    PROVE  /\ ChunkTypeOK'
           /\ actorPc' = "drain" /\ reason' \in Reasons
<1>1. PICK k \in 0..(IF buffered THEN MaxChunks ELSE 0) : Flush(k)
  BY DEF Break
<1>2. k \in Nat
  BY SessionAssumption
<1>3. actorOut' \in Seq(Nat) /\ made' \in Nat
  BY <1>1, <1>2, FlushSeq DEF Flush, ChunkTypeOK
<1> QED
  BY <1>3 DEF Break, ChunkTypeOK

LEMMA TypeActorLoop ==
    ASSUME TypeOK, HandsAgree,
           \/ SeesShutdown \/ SeesIdle \/ SeesSilence \/ PollChannels
           \/ TakeLine \/ SeesInputClosed \/ TakeOutput \/ SeesEof
           \/ Forward \/ ForwardFails
    PROVE  TypeOK'
<1> USE DEF TypeOK
<1>1. CASE SeesShutdown
  <2>1. shutdown \in Reasons
    BY <1>1 DEF SeesShutdown, HandleTypeOK, Reasons
  <2>2. ChunkTypeOK' /\ actorPc' = "drain" /\ reason' \in Reasons
    BY <1>1, <2>1, TypeBreak DEF SeesShutdown
  <2>3. LoopTypeOK'
    BY <1>1, <2>2 DEF SeesShutdown, LoopTypeOK, ActorPcs, AtMostOne
  <2> QED
    BY <1>1, <2>2, <2>3, TypeFrame DEF SeesShutdown
<1>2. CASE SeesIdle
  <2>1. ChunkTypeOK' /\ actorPc' = "drain" /\ reason' \in Reasons
    BY <1>2, TypeBreak DEF SeesIdle, Reasons
  <2>2. LoopTypeOK'
    BY <1>2, <2>1 DEF SeesIdle, LoopTypeOK, ActorPcs, AtMostOne
  <2> QED
    BY <1>2, <2>1, <2>2, TypeFrame DEF SeesIdle
<1>3. CASE SeesSilence
  <2>1. PICK k \in 0..MaxChunks : Flush(k)
    BY <1>3 DEF SeesSilence
  <2>2. actorOut' \in Seq(Nat) /\ made' \in Nat
    BY <2>1, FlushSeq, SessionAssumption DEF Flush, ChunkTypeOK
  <2>3. ChunkTypeOK'
    BY <1>3, <2>2 DEF SeesSilence, ChunkTypeOK
  <2>4. LoopTypeOK'
    BY <1>3 DEF SeesSilence, LoopTypeOK, ActorPcs, AtMostOne
  <2> QED
    BY <1>3, <2>3, <2>4, TypeFrame DEF SeesSilence
<1>4. CASE PollChannels
  <2>1. LoopTypeOK'
    BY <1>4 DEF PollChannels, LoopTypeOK, ActorPcs, AtMostOne
  <2> QED
    BY <1>4, <2>1, TypeFrame DEF PollChannels
<1>5. CASE TakeLine
  <2>1. HandleTypeOK'
    <3>1. inputQ' \in Seq(Nat) /\ Len(inputQ') = Len(inputQ) - 1
      BY <1>5, PopSeq DEF TakeLine, HandleTypeOK
    <3>2. Len(inputQ') <= InDepth
      BY <3>1, LenNat, SessionAssumption DEF HandleTypeOK
    <3> QED
      BY <1>5, <3>1, <3>2 DEF TakeLine, HandleTypeOK, daemonVars
  <2>2. LoopTypeOK'
    BY <1>5, PopSeq, OneSeq
       DEF TakeLine, LoopTypeOK, HandleTypeOK, ActorPcs, AtMostOne
  <2> QED
    BY <1>5, <2>1, <2>2, TypeFrame DEF TakeLine
<1>6. CASE SeesInputClosed
  <2>1. ChunkTypeOK' /\ actorPc' = "drain" /\ reason' \in Reasons
    BY <1>6, TypeBreak DEF SeesInputClosed, Reasons
  <2>2. LoopTypeOK'
    BY <1>6, <2>1 DEF SeesInputClosed, LoopTypeOK, ActorPcs, AtMostOne
  <2> QED
    BY <1>6, <2>1, <2>2, TypeFrame DEF SeesInputClosed
<1>7. CASE TakeOutput
  <2>1. PICK k \in 0..(IF Head(ptyOut) = "part" THEN 0 ELSE MaxChunks) : Flush(k)
    BY <1>7 DEF TakeOutput
  <2>2. k \in Nat
    BY SessionAssumption
  <2>3. actorOut' \in Seq(Nat) /\ made' \in Nat
    BY <2>1, <2>2, FlushSeq DEF Flush, ChunkTypeOK
  <2>4. ChunkTypeOK'
    BY <1>7, <2>3 DEF TakeOutput, ChunkTypeOK
  <2>5. ReaderTypeOK'
    <3>1. ptyOut' \in Seq(ReadKinds) /\ Len(ptyOut') = Len(ptyOut) - 1
      BY <1>7, PopSeq DEF TakeOutput, PtyTypeOK, ReaderTypeOK
    <3>2. Len(ptyOut') <= PtyOutDepth
      BY <3>1, LenNat, PtyAssumption DEF PtyTypeOK, ReaderTypeOK
    <3> QED
      BY <1>7, <3>1, <3>2
         DEF TakeOutput, PtyTypeOK, ReaderTypeOK, AtMostOne
  <2>6. PtyTypeOK'
    BY <1>7, <2>5, TypeFrame DEF TakeOutput, PtyTypeOK, ends
  <2>7. HandleTypeOK'
    BY <1>7 DEF TakeOutput, HandleTypeOK, daemonVars
  <2>8. LoopTypeOK'
    BY <1>7 DEF TakeOutput, LoopTypeOK, ActorPcs, AtMostOne
  <2> QED
    BY <1>7, <2>4, <2>6, <2>7, <2>8, TypeFrame DEF TakeOutput
<1>8. CASE SeesEof
  <2>1. ChunkTypeOK' /\ actorPc' = "drain" /\ reason' \in Reasons
    BY <1>8, TypeBreak DEF SeesEof, Reasons
  <2>2. LoopTypeOK'
    BY <1>8, <2>1 DEF SeesEof, LoopTypeOK, ActorPcs, AtMostOne
  <2> QED
    BY <1>8, <2>1, <2>2, TypeFrame DEF SeesEof
<1>9. CASE Forward
  <2>1. Head(actorHand) \in Nat
    BY <1>9, PopSeq DEF Forward, HandsAgree, LoopTypeOK
  <2>2. ptyIn' \in Seq(Nat) /\ Len(ptyIn') = Len(ptyIn) + 1
    BY <1>9, <2>1, AppendSeq DEF Forward, PtyTypeOK, WriterTypeOK
  <2>3. Len(ptyIn') <= PtyInDepth
    BY <1>9, <2>2, LenNat, PtyAssumption
       DEF Forward, PtyTypeOK, WriterTypeOK
  <2>4. WriterTypeOK'
    BY <1>9, <2>2, <2>3
       DEF Forward, PtyTypeOK, WriterTypeOK, AtMostOne
  <2>5. PtyTypeOK'
    BY <1>9, <2>4, TypeFrame DEF Forward, PtyTypeOK, ends
  <2>6. LoopTypeOK'
    BY <1>9, EmptySeq DEF Forward, LoopTypeOK, ActorPcs, AtMostOne
  <2> QED
    BY <1>9, <2>5, <2>6, TypeFrame DEF Forward
<1>10. CASE ForwardFails
  <2>1. ChunkTypeOK' /\ actorPc' = "drain" /\ reason' \in Reasons
    BY <1>10, TypeBreak DEF ForwardFails, Reasons
  <2>2. LoopTypeOK'
    BY <1>10, <2>1, EmptySeq DEF ForwardFails, LoopTypeOK, ActorPcs, AtMostOne
  <2> QED
    BY <1>10, <2>1, <2>2, TypeFrame DEF ForwardFails
<1> QED
  BY <1>1, <1>2, <1>3, <1>4, <1>5, <1>6, <1>7, <1>8, <1>9, <1>10

LEMMA TypeActorEnd ==
    ASSUME TypeOK, HandsAgree,
           \/ EnqueueChunk \/ EnqueueMarker
           \/ DrainChunk \/ Farewell \/ JoinSender \/ Reap
    PROVE  TypeOK'
<1> USE DEF TypeOK
<1>1. ASSUME NEW type \in {"chunk", "marker", "bye"}, NEW n \in Nat,
             OutRoom, Enqueue(type, n)
      PROVE  outQ' \in Seq(Item) /\ Len(outQ') <= OutDepth
  <2>1. [t |-> type, n |-> n] \in Item
    BY DEF Item
  <2>2. outQ' \in Seq(Item) /\ Len(outQ') = Len(outQ) + 1
    BY <1>1, <2>1, AppendSeq DEF Enqueue, OutTypeOK
  <2> QED
    BY <1>1, <2>2, LenNat, SessionAssumption DEF OutRoom, OutTypeOK
<1>2. ASSUME NEW type \in {"chunk", "marker", "bye"}, NEW n \in Nat,
             IF OutRoom THEN Enqueue(type, n) ELSE UNCHANGED outQ,
             UNCHANGED senderVars
      PROVE  OutTypeOK'
  <2>1. outQ' \in Seq(Item) /\ Len(outQ') <= OutDepth
    BY <1>1, <1>2 DEF OutTypeOK
  <2> QED
    BY <1>2, <2>1 DEF OutTypeOK, senderVars, AtMostOne
<1>3. actorOut # <<>> => Head(actorOut) \in Nat /\ Tail(actorOut) \in Seq(Nat)
  BY PopSeq DEF ChunkTypeOK
<1>4. CASE EnqueueChunk
  <2>1. CASE actorOut # <<>> /\ OutRoom
    <3>1. OutTypeOK'
      BY <1>2, <1>3, <1>4, <2>1 DEF EnqueueChunk
    <3>2. ChunkTypeOK'
      BY <1>3, <1>4, <2>1 DEF EnqueueChunk, ChunkTypeOK
    <3>3. LoopTypeOK'
      BY <1>4, <2>1 DEF EnqueueChunk, LoopTypeOK, AtMostOne
    <3> QED
      BY <1>4, <3>1, <3>2, <3>3, TypeFrame DEF EnqueueChunk
  <2>2. CASE ~(actorOut # <<>> /\ OutRoom)
    <3>1. ChunkTypeOK' /\ OutTypeOK'
      BY <1>4, <2>2, TypeFrame DEF EnqueueChunk, chunkVars
    <3>2. LoopTypeOK'
      BY <1>4, <2>2 DEF EnqueueChunk, LoopTypeOK, ActorPcs, AtMostOne
    <3> QED
      BY <1>4, <3>1, <3>2, TypeFrame DEF EnqueueChunk
  <2> QED
    BY <2>1, <2>2
<1>5. CASE EnqueueMarker
  <2>1. OutTypeOK'
    BY <1>2, <1>3, <1>5 DEF EnqueueMarker, HandsAgree
  <2>2. ChunkTypeOK'
    BY <1>3, <1>5 DEF EnqueueMarker, ChunkTypeOK, HandsAgree
  <2>3. LoopTypeOK'
    BY <1>5 DEF EnqueueMarker, LoopTypeOK, ActorPcs, AtMostOne
  <2> QED
    BY <1>5, <2>1, <2>2, <2>3, TypeFrame DEF EnqueueMarker
<1>6. CASE DrainChunk
  <2>1. OutTypeOK'
    BY <1>2, <1>3, <1>6 DEF DrainChunk
  <2>2. ChunkTypeOK'
    BY <1>3, <1>6 DEF DrainChunk, ChunkTypeOK
  <2> QED
    BY <1>6, <2>1, <2>2, TypeFrame DEF DrainChunk
<1>7. CASE Farewell
  <2>1. OutTypeOK'
    BY <1>2, <1>7 DEF Farewell, ChunkTypeOK
  <2>2. ChunkTypeOK'
    BY <1>7 DEF Farewell, ChunkTypeOK
  <2>3. LoopTypeOK'
    BY <1>7 DEF Farewell, LoopTypeOK, ActorPcs, AtMostOne
  <2> QED
    BY <1>7, <2>1, <2>2, <2>3, TypeFrame DEF Farewell
<1>8. CASE JoinSender
  <2>1. PtyTypeOK'
    BY <1>8, TypeFrame DEF JoinSender, PtyTypeOK
  <2>2. LoopTypeOK'
    BY <1>8 DEF JoinSender, LoopTypeOK, ActorPcs, AtMostOne
  <2> QED
    BY <1>8, <2>1, <2>2, TypeFrame DEF JoinSender
<1>9. CASE Reap
  <2>1. ReaderTypeOK'
    <3>1. ptyOut' \in Seq(ReadKinds) /\ Len(ptyOut') = 0
      BY <1>9, EmptySeq DEF Reap
    <3>2. Len(ptyOut') <= PtyOutDepth
      BY <3>1, PtyAssumption
    <3> QED
      BY <1>9, <3>1, <3>2 DEF Reap, PtyTypeOK, ReaderTypeOK, AtMostOne
  <2>2. TerminalTypeOK'
    BY <1>9, TypeBashGone DEF Reap, PtyTypeOK, TerminalTypeOK
  <2>3. PtyTypeOK'
    BY <1>9, <2>1, <2>2, TypeFrame DEF Reap, PtyTypeOK
  <2>4. HandleTypeOK'
    <3>1. inputQ' \in Seq(Nat) /\ Len(inputQ') = 0
      BY <1>9, EmptySeq DEF Reap
    <3>2. Len(inputQ') <= InDepth
      BY <3>1, SessionAssumption
    <3> QED
      BY <1>9, <3>1, <3>2 DEF Reap, HandleTypeOK, daemonVars
  <2>5. LoopTypeOK'
    BY <1>9 DEF Reap, LoopTypeOK, ActorPcs, AtMostOne
  <2> QED
    BY <1>9, <2>3, <2>4, <2>5, TypeFrame DEF Reap
<1> QED
  BY <1>4, <1>5, <1>6, <1>7, <1>8, <1>9

LEMMA TypeSender == TypeOK /\ HandsAgree /\ Sender => TypeOK'
<1> SUFFICES ASSUME TypeOK, HandsAgree, Sender PROVE TypeOK'
  OBVIOUS
<1> USE DEF TypeOK
<1>1. CASE SenderRecv
  <2>1. Head(outQ) \in Item /\ Tail(outQ) \in Seq(Item)
        /\ Len(Tail(outQ)) = Len(outQ) - 1
    BY <1>1, PopSeq DEF SenderRecv, OutTypeOK
  <2>2. outQ' \in Seq(Item) /\ Len(outQ') <= OutDepth
    BY <1>1, <2>1, LenNat, SessionAssumption DEF SenderRecv, OutTypeOK
  <2>3. senderHand' \in Seq(Item) /\ AtMostOne(senderHand')
    BY <1>1, <2>1, OneSeq DEF SenderRecv, AtMostOne
  <2>4. OutTypeOK'
    BY <1>1, <2>2, <2>3 DEF SenderRecv, OutTypeOK, SenderPcs
  <2> QED
    BY <1>1, <2>4, TypeFrame DEF SenderRecv
<1>2. CASE SenderReady
  <2>1. OutTypeOK'
    BY <1>2 DEF SenderReady, OutTypeOK, SenderPcs, AtMostOne
  <2> QED
    BY <1>2, <2>1, TypeFrame DEF SenderReady
<1>3. CASE SenderPost
  <2>1. Head(senderHand) \in Item
    BY <1>3, PopSeq DEF SenderPost, OutTypeOK, HandsAgree
  <2>2. senderHand' \in Seq(Item) /\ AtMostOne(senderHand')
    BY <1>3, EmptySeq DEF SenderPost, AtMostOne
  <2>3. OutTypeOK'
    BY <1>3, <2>1, <2>2 DEF SenderPost, OutTypeOK, SenderPcs
  <2> QED
    BY <1>3, <2>3, TypeFrame DEF SenderPost
<1>4. CASE SenderEnd
  <2>1. OutTypeOK'
    BY <1>4 DEF SenderEnd, OutTypeOK, SenderPcs, AtMostOne
  <2> QED
    BY <1>4, <2>1, TypeFrame DEF SenderEnd
<1> QED
  BY <1>1, <1>2, <1>3, <1>4 DEF Sender

LEMMA TypeNext == TypeOK /\ HandsAgree /\ [Next]_vars => TypeOK'
<1> SUFFICES ASSUME TypeOK, HandsAgree, [Next]_vars PROVE TypeOK'
  OBVIOUS
<1>1. CASE Environment
  BY <1>1, TypeEnvironment
<1>2. CASE Actor
  BY <1>2, TypeActorLoop, TypeActorEnd DEF Actor
<1>3. CASE Sender
  BY <1>3, TypeSender
<1>4. CASE (PtyThreads \/ Shell) /\ UNCHANGED sessionVars
  BY <1>4, TypePtyStep, TypeFrame DEF sessionVars, TypeOK
<1>5. CASE UNCHANGED vars
  BY <1>5, TypeFrame DEF vars, TypeOK
<1> QED
  BY <1>1, <1>2, <1>3, <1>4, <1>5 DEF Next, Finished

LEMMA HandsNext == HandsAgree /\ TypeOK /\ [Next]_vars => HandsAgree'
<1> SUFFICES ASSUME HandsAgree, TypeOK, [Next]_vars PROVE HandsAgree'
  OBVIOUS
<1>1. CASE Environment
  BY <1>1 DEF HandsAgree, Environment, Deliver, Shutdown, DropHandle,
     IdleElapses, SilenceElapses, loopVars, chunkVars, senderVars
<1>2. CASE Actor
  <2> USE DEF HandsAgree, senderVars, loopVars, chunkVars
  <2>1. CASE SeesShutdown \/ SeesIdle \/ SeesSilence \/ PollChannels \/ TakeLine
    <3>1. CASE TakeLine
      BY <3>1, OneSeq DEF TakeLine
    <3> QED
      BY <2>1, <3>1 DEF SeesShutdown, SeesIdle, SeesSilence, PollChannels, Break
  <2>2. CASE SeesInputClosed \/ TakeOutput \/ SeesEof \/ Forward \/ ForwardFails
    BY <2>2 DEF SeesInputClosed, TakeOutput, SeesEof, Forward, ForwardFails, Break
  <2>3. CASE EnqueueChunk \/ EnqueueMarker \/ DrainChunk \/ Farewell
    BY <2>3 DEF EnqueueChunk, EnqueueMarker, DrainChunk, Farewell
  <2>4. CASE JoinSender \/ Reap
    BY <2>4 DEF JoinSender, Reap
  <2> QED
    BY <1>2, <2>1, <2>2, <2>3, <2>4 DEF Actor
<1>3. CASE Sender
  BY <1>3, SMTT(30) DEF HandsAgree, Sender, SenderRecv, SenderReady, SenderPost,
     SenderEnd, loopVars, chunkVars
<1>4. CASE UNCHANGED sessionVars
  BY <1>4 DEF HandsAgree, sessionVars, loopVars, chunkVars, senderVars
<1>5. CASE UNCHANGED vars
  BY <1>5 DEF HandsAgree, vars, loopVars, chunkVars, senderVars
<1> QED
  BY <1>1, <1>2, <1>3, <1>4, <1>5 DEF Next, Finished

LEMMA TypeInvariant == Spec => [](TypeOK /\ HandsAgree)
<1>1. Init => TypeOK /\ HandsAgree
  BY TypeInit DEF Init, HandsAgree
<1>2. TypeOK /\ HandsAgree /\ [Next]_vars => (TypeOK /\ HandsAgree)'
  BY TypeNext, HandsNext
<1> QED
  BY <1>1, <1>2, PTL DEF Spec

\* Type correctness: no channel ever holds more than its depth, whatever the
\* daemon, the tasks, the threads and the shell do.
THEOREM TypeCorrect == Spec => []TypeOK
  BY TypeInvariant, PTL

-----------------------------------------------------------------------------
(* The end of a session, in the order of PeerActor::run: chunks, farewell,  *)
(* join of the sender task, end of input, end of the shell.                 *)

WindDown ==
    /\ actorPc \notin {"enqueue", "marker", "drain"} => actorOut = <<>>
    /\ senderPc = "done" => actorPc \in {"join", "reap", "ended"} /\ outQ = <<>>
    /\ actorPc \in {"reap", "ended"} => senderPc = "done"
    /\ ptyInOpen <=> actorPc \notin {"reap", "ended"}
    /\ ptyOutOpen <=> actorPc # "ended"
    /\ actorPc = "ended" => shell # "alive"

LEMMA WindDownNext == TypeOK /\ WindDown /\ [Next]_vars => WindDown'
<1> SUFFICES ASSUME TypeOK, WindDown, [Next]_vars PROVE WindDown'
  OBVIOUS
<1> USE DEF WindDown
<1>1. CASE Environment
  BY <1>1 DEF Environment, Deliver, Shutdown, DropHandle, IdleElapses,
     SilenceElapses, ptyVars, ends, terminal, loopVars, chunkVars, senderVars
<1>2. CASE Actor
  <2> USE DEF ptyVars, ends, terminal, loopVars, chunkVars, senderVars
  <2>1. CASE SeesShutdown \/ SeesIdle \/ SeesSilence \/ PollChannels \/ TakeLine
    BY <2>1 DEF SeesShutdown, SeesIdle, SeesSilence, PollChannels, TakeLine, Break
  <2>2. CASE SeesInputClosed \/ TakeOutput \/ SeesEof \/ Forward \/ ForwardFails
    BY <2>2 DEF SeesInputClosed, TakeOutput, SeesEof, Forward, ForwardFails, Break
  <2>3. CASE EnqueueChunk \/ EnqueueMarker \/ DrainChunk \/ Farewell
    BY <2>3 DEF EnqueueChunk, EnqueueMarker, DrainChunk, Farewell
  <2>4. CASE JoinSender \/ Reap
    BY <2>4 DEF JoinSender, Reap, BashGone
  <2> QED
    BY <1>2, <2>1, <2>2, <2>3, <2>4 DEF Actor
<1>3. CASE Sender
  BY <1>3 DEF Sender, SenderRecv, SenderReady, SenderPost, SenderEnd,
     ptyVars, ends, terminal, loopVars, chunkVars, senderVars
<1>4. CASE PtyThreads /\ UNCHANGED sessionVars
  BY <1>4 DEF PtyThreads, WriterRecv, WriterWrite, WriterFail, WriterEnd,
     ReaderRead, ReaderSend, ReaderEnd, sessionVars, ends, terminal, loopVars,
     chunkVars, senderVars
<1>5. CASE Shell /\ UNCHANGED sessionVars
  BY <1>5 DEF Shell, ShellRead, ShellPrint, ShellExit, BashGone, JobsEnd,
     sessionVars, ends,
     loopVars, chunkVars, senderVars
<1>6. CASE UNCHANGED vars
  BY <1>6 DEF vars, ptyVars, ends, terminal, loopVars, chunkVars, senderVars
<1> QED
  BY <1>1, <1>2, <1>3, <1>4, <1>5, <1>6 DEF Next, Finished

LEMMA WindDownInvariant == Spec => []WindDown
<1>1. Init => WindDown
  BY DEF Init, PtyInit, WindDown
<1> QED
  BY <1>1, WindDownNext, TypeInvariant, PTL DEF Spec

\* When the actor of a session has returned, its shell is gone, its sender task
\* has posted everything that was queued, and its ends of the Pty are closed.
THEOREM SessionLeavesNothing == Spec => []NothingLeftBehind
<1>1. TypeOK /\ HandsAgree /\ WindDown => NothingLeftBehind
  BY DEF HandsAgree, WindDown, NothingLeftBehind
<1> QED
  BY <1>1, TypeInvariant, WindDownInvariant, PTL

-----------------------------------------------------------------------------
(* The bias of the select.  A poll reaches the channels only while no       *)
(* shutdown was sent, so until then nothing was late.                       *)

LateInv ==
    /\ shutdown = "none" => late = 0
    /\ actorPc = "polled" => late = 0
    /\ late \in {0, 1}

LEMMA LateNext == LateInv /\ [Next]_vars => LateInv'
<1> SUFFICES ASSUME LateInv, [Next]_vars PROVE LateInv'
  OBVIOUS
<1> USE DEF LateInv, daemonVars, loopVars
<1>1. CASE Environment
  BY <1>1 DEF Environment, Deliver, Shutdown, DropHandle, IdleElapses,
     SilenceElapses, ShutdownReasons
<1>2. CASE Actor
  BY <1>2 DEF Actor, Break, SeesShutdown, SeesIdle, SeesSilence, PollChannels,
     TakeLine, SeesInputClosed, TakeOutput, SeesEof, Forward, ForwardFails,
     EnqueueChunk, EnqueueMarker, DrainChunk, Farewell, JoinSender, Reap
<1>3. CASE Sender
  BY <1>3 DEF Sender, SenderRecv, SenderReady, SenderPost, SenderEnd
<1>4. CASE UNCHANGED sessionVars
  BY <1>4 DEF sessionVars
<1>5. CASE UNCHANGED vars
  BY <1>5 DEF vars
<1> QED
  BY <1>1, <1>2, <1>3, <1>4, <1>5 DEF Next, Finished

\* After a shutdown was sent, at most one more line goes to the shell.
THEOREM ShutdownStopsInput == Spec => []AtMostOneLateLine
<1>1. Init => LateInv
  BY DEF Init, LateInv
<1>2. LateInv => AtMostOneLateLine
  BY DEF LateInv, AtMostOneLateLine
<1> QED
  BY <1>1, <1>2, LateNext, PTL DEF Spec

-----------------------------------------------------------------------------
(* No line is lost.  Each hand-over moves the first number of one run to    *)
(* the end of the run before it.                                            *)

LEMMA RunAppend ==
    ASSUME NEW s \in Seq(Nat), NEW a \in Nat, IsRun(s, a)
    PROVE  IsRun(Append(s, a + Len(s) + 1), a)
  BY DEF IsRun

LEMMA RunPop ==
    ASSUME NEW s \in Seq(Nat), s # <<>>, NEW a \in Nat, IsRun(s, a)
    PROVE  /\ Head(s) = a + 1
           /\ IsRun(Tail(s), a + 1)
  BY DEF IsRun

LEMMA RunEmpty == ASSUME NEW a PROVE IsRun(<<>>, a)
  BY DEF IsRun

LEMMA RunOne == ASSUME NEW a \in Nat PROVE IsRun(<<a + 1>>, a)
  BY DEF IsRun

LEMMA RunFrame ==
    ASSUME LinesInFlight,
           UNCHANGED <<written, writerHand, ptyIn, actorHand, inputQ, accepted>>,
           actorPc = "ended" <=> actorPc' = "ended"
    PROVE  LinesInFlight'
  BY DEF LinesInFlight, IsRun

LEMMA LinesNext == TypeOK /\ HandsAgree /\ NoLineLost /\ [Next]_vars => NoLineLost'
<1> SUFFICES ASSUME TypeOK, HandsAgree, NoLineLost, [Next]_vars,
                    ~writerDone'
             PROVE  LinesInFlight'
  BY DEF NoLineLost
<1> USE DEF writerSide, daemonVars, loopVars
<1>1. accepted \in Nat /\ inputQ \in Seq(Nat) /\ actorHand \in Seq(Nat)
      /\ ptyIn \in Seq(Nat) /\ writerHand \in Seq(Nat) /\ written \in Nat
      /\ Len(writerHand) <= 1 /\ Len(actorHand) <= 1
  BY DEF TypeOK, PtyTypeOK, WriterTypeOK, HandleTypeOK, LoopTypeOK, AtMostOne
<1>2. Len(writerHand) \in Nat /\ Len(ptyIn) \in Nat /\ Len(actorHand) \in Nat
      /\ Len(inputQ) \in Nat
  BY <1>1, LenNat
<1>3. CASE Deliver
  <2>0. actorPc # "ended" /\ actorPc' = actorPc
    BY <1>3 DEF Deliver
  <2>1. LinesInFlight
    BY <1>3 DEF NoLineLost, Deliver, ptyVars
  <2>2. CASE Len(inputQ) < InDepth
    <3>1. inputQ' = Append(inputQ, accepted + 1) /\ accepted' = accepted + 1
          /\ UNCHANGED <<written, writerHand, ptyIn, actorHand>>
      BY <1>3, <2>2 DEF Deliver, ptyVars
    <3> DEFINE a == written + Len(writerHand) + Len(ptyIn) + Len(actorHand)
    <3>2. a \in Nat /\ IsRun(inputQ, a) /\ accepted = a + Len(inputQ)
      BY <1>1, <1>2, <2>1, <2>0 DEF LinesInFlight
    <3>3. IsRun(inputQ', a)
      BY <1>1, <3>1, <3>2, RunAppend
    <3>4. Len(inputQ') = Len(inputQ) + 1
      BY <1>1, <3>1, AppendSeq
    <3>5. accepted' = a + Len(inputQ')
      BY <1>2, <3>1, <3>2, <3>4
    <3> QED
      BY <2>0, <2>1, <3>1, <3>3, <3>5 DEF LinesInFlight, IsRun
  <2>3. CASE ~(Len(inputQ) < InDepth)
    BY <1>3, <2>0, <2>1, <2>3, RunFrame DEF Deliver, ptyVars
  <2> QED
    BY <2>2, <2>3
<1>4. CASE TakeLine
  <2>0. actorPc # "ended" /\ actorPc' # "ended"
    BY <1>4 DEF TakeLine
  <2>1. LinesInFlight
    BY <1>4 DEF NoLineLost, TakeLine, ptyVars
  <2>2. actorHand = <<>> /\ Len(actorHand) = 0
    BY <1>4, EmptySeq DEF HandsAgree, TakeLine
  <2> DEFINE p == written + Len(writerHand) + Len(ptyIn)
  <2>3. p \in Nat /\ IsRun(inputQ, p) /\ accepted = p + Len(inputQ)
    BY <2>0, <1>1, <1>2, <2>1, <2>2 DEF LinesInFlight
  <2>4. inputQ # <<>> /\ inputQ' = Tail(inputQ) /\ actorHand' = <<Head(inputQ)>>
        /\ UNCHANGED <<written, writerHand, ptyIn, accepted>>
    BY <1>4 DEF TakeLine, ptyVars
  <2>5. Head(inputQ) = p + 1 /\ IsRun(inputQ', p + 1)
    BY <1>1, <2>3, <2>4, RunPop
  <2>6. Len(inputQ') = Len(inputQ) - 1 /\ Len(actorHand') = 1
    BY <1>1, <2>4, PopSeq, OneSeq
  <2>7. IsRun(actorHand', p)
    BY <2>3, <2>4, <2>5, RunOne
  <2>8. accepted' = p + 1 + Len(inputQ')
    BY <1>2, <2>3, <2>4, <2>6
  <2> QED
    BY <2>0, <2>1, <2>4, <2>5, <2>6, <2>7, <2>8 DEF LinesInFlight, IsRun
<1>5. CASE Forward
  <2>0. actorPc # "ended" /\ actorPc' # "ended"
    BY <1>5 DEF Forward
  <2>1. LinesInFlight
    BY <1>5 DEF NoLineLost, Forward
  <2>2. actorHand # <<>> /\ Len(actorHand) = 1
    BY <1>1, <1>5, HandLen DEF HandsAgree, Forward
  <2> DEFINE w == written + Len(writerHand)
  <2>3. w \in Nat /\ IsRun(ptyIn, w) /\ IsRun(actorHand, w + Len(ptyIn))
        /\ IsRun(inputQ, w + Len(ptyIn) + 1)
        /\ accepted = w + Len(ptyIn) + 1 + Len(inputQ)
    BY <2>0, <1>1, <1>2, <2>1, <2>2 DEF LinesInFlight
  <2>4. Head(actorHand) = w + Len(ptyIn) + 1
    BY <1>1, <1>2, <2>2, <2>3, RunPop
  <2>5. ptyIn' = Append(ptyIn, w + Len(ptyIn) + 1) /\ actorHand' = <<>>
        /\ UNCHANGED <<written, writerHand, inputQ, accepted>>
    BY <1>5, <2>4 DEF Forward
  <2>6. IsRun(ptyIn', w)
    BY <1>1, <2>3, <2>5, RunAppend
  <2>7. Len(ptyIn') = Len(ptyIn) + 1 /\ Len(actorHand') = 0
    BY <1>1, <1>2, <2>3, <2>5, AppendSeq, EmptySeq
  <2>8. IsRun(actorHand', w + Len(ptyIn'))
    BY <2>5, RunEmpty
  <2> QED
    BY <1>2, <2>0, <2>1, <2>3, <2>5, <2>6, <2>7, <2>8, SMTT(30) DEF LinesInFlight, IsRun
<1>6. CASE WriterRecv /\ UNCHANGED sessionVars
  <2>1. LinesInFlight
    BY <1>6 DEF NoLineLost, WriterRecv, sessionVars
  <2>2. writerHand = <<>> /\ Len(writerHand) = 0
    BY <1>6, EmptySeq DEF WriterRecv
  <2>3. IsRun(ptyIn, written)
    BY <1>1, <2>1, <2>2 DEF LinesInFlight
  <2>4. ptyIn # <<>> /\ ptyIn' = Tail(ptyIn) /\ writerHand' = <<Head(ptyIn)>>
        /\ UNCHANGED <<written, actorHand, inputQ, accepted, actorPc>>
    BY <1>6 DEF WriterRecv, sessionVars
  <2>5. Head(ptyIn) = written + 1 /\ IsRun(ptyIn', written + 1)
    BY <1>1, <2>3, <2>4, RunPop
  <2>6. Len(ptyIn') = Len(ptyIn) - 1 /\ Len(writerHand') = 1
    BY <1>1, <2>4, PopSeq, OneSeq
  <2>7. IsRun(writerHand', written)
    BY <1>1, <2>4, <2>5, RunOne
  <2>8. written + Len(writerHand') + Len(ptyIn')
          = written + Len(writerHand) + Len(ptyIn)
    BY <1>1, <1>2, <2>2, <2>6
  <2> QED
    BY <2>1, <2>4, <2>5, <2>6, <2>7, <2>8 DEF LinesInFlight, IsRun
<1>7. CASE WriterWrite /\ UNCHANGED sessionVars
  <2>1. LinesInFlight
    BY <1>7 DEF NoLineLost, WriterWrite, sessionVars
  <2>2. writerHand # <<>> /\ Len(writerHand) = 1
    BY <1>1, <1>7, HandLen DEF WriterWrite
  <2>3. Head(writerHand) = written + 1
    BY <1>1, <2>1, <2>2, RunPop DEF LinesInFlight
  <2>4. written' = written + 1 /\ writerHand' = <<>>
        /\ UNCHANGED <<ptyIn, actorHand, inputQ, accepted, actorPc>>
    BY <1>7, <2>3 DEF WriterWrite, sessionVars
  <2>5. Len(writerHand') = 0 /\ IsRun(writerHand', written')
    BY <2>4, EmptySeq, RunEmpty
  <2>6. written' + Len(writerHand') = written + Len(writerHand)
    BY <1>1, <2>2, <2>4, <2>5
  <2> QED
    BY <2>1, <2>4, <2>5, <2>6 DEF LinesInFlight, IsRun
<1>8. CASE WriterFail \/ WriterEnd
  BY <1>8 DEF WriterFail, WriterEnd
<1>9. CASE Reap
  <2>1. LinesInFlight
    BY <1>9 DEF NoLineLost, Reap
  <2>2. inputQ' = <<>> /\ actorPc' = "ended"
        /\ UNCHANGED <<written, writerHand, ptyIn, actorHand, accepted>>
    BY <1>9 DEF Reap
  <2>3. Len(inputQ') = 0
    BY <2>2, EmptySeq
  <2>4. actorPc # "ended"
    BY <1>9 DEF Reap
  <2> DEFINE a == written + Len(writerHand) + Len(ptyIn) + Len(actorHand)
  <2>5. a \in Nat /\ accepted = a + Len(inputQ)
    BY <1>1, <1>2, <2>1, <2>4 DEF LinesInFlight
  <2>6. a + Len(inputQ') <= accepted
    BY <1>2, <2>3, <2>5
  <2>7. IsRun(inputQ', a)
    BY <2>2, RunEmpty
  <2> QED
    BY <2>1, <2>2, <2>6, <2>7 DEF LinesInFlight, IsRun
<1>10. CASE ForwardFails
  BY <1>10 DEF ForwardFails, ptyVars
<1>11. ASSUME UNCHANGED <<written, writerHand, ptyIn, actorHand, inputQ, accepted,
                          writerDone>>,
              actorPc = "ended" <=> actorPc' = "ended"
       PROVE  LinesInFlight'
  BY <1>11, RunFrame DEF NoLineLost
<1>12. CASE Environment
  BY <1>3, <1>11, <1>12 DEF Environment, Shutdown, DropHandle, IdleElapses,
     SilenceElapses, ptyVars
<1>13. CASE Actor
  <2>1. CASE SeesShutdown \/ SeesIdle \/ SeesSilence \/ PollChannels
    BY <1>11, <2>1 DEF SeesShutdown, SeesIdle, SeesSilence, PollChannels,
       Break, ptyVars
  <2>2. CASE SeesInputClosed \/ TakeOutput \/ SeesEof
    BY <1>11, <2>2 DEF SeesInputClosed, TakeOutput, SeesEof, Break, ptyVars
  <2>3. CASE EnqueueChunk \/ EnqueueMarker \/ DrainChunk \/ Farewell \/ JoinSender
    BY <1>11, <2>3 DEF EnqueueChunk, EnqueueMarker, DrainChunk, Farewell,
       JoinSender, ptyVars
  <2> QED
    BY <1>4, <1>5, <1>9, <1>10, <1>13, <2>1, <2>2, <2>3 DEF Actor
<1>14. CASE Sender
  BY <1>11, <1>14 DEF Sender, SenderRecv, SenderReady, SenderPost, SenderEnd,
     ptyVars
<1>15. CASE PtyThreads /\ UNCHANGED sessionVars
  <2>1. CASE ReaderRead \/ ReaderSend \/ ReaderEnd
    BY <1>11, <1>15, <2>1 DEF ReaderRead, ReaderSend, ReaderEnd, sessionVars
  <2> QED
    BY <1>6, <1>7, <1>8, <1>15, <2>1 DEF PtyThreads
<1>16. CASE Shell /\ UNCHANGED sessionVars
  BY <1>11, <1>16 DEF Shell, ShellRead, ShellPrint, ShellExit, JobsEnd,
     sessionVars
<1>17. CASE UNCHANGED vars
  BY <1>11, <1>17 DEF vars, ptyVars
<1> QED
  BY <1>12, <1>13, <1>14, <1>15, <1>16, <1>17 DEF Next, Finished

\* Every accepted line is typed once and in order, or still on its way, until
\* the terminal fails or the actor returns.
THEOREM LinesKept == Spec => []NoLineLost
<1>1. Init => NoLineLost
  <2> SUFFICES ASSUME Init PROVE LinesInFlight
    BY DEF NoLineLost
  <2>1. written = 0 /\ writerHand = <<>> /\ ptyIn = <<>> /\ actorHand = <<>>
        /\ inputQ = <<>> /\ accepted = 0
    BY DEF Init, PtyInit
  <2>2. Len(<<>>) = 0
    BY EmptySeq
  <2>3. IsRun(<<>>, 0)
    BY RunEmpty
  <2> QED
    BY <2>1, <2>2, <2>3 DEF LinesInFlight
<1> QED
  BY <1>1, LinesNext, TypeInvariant, PTL DEF Spec

-----------------------------------------------------------------------------
(* The order of the output.  upto is the number of the last chunk that has  *)
(* left the actor; everything not yet posted and not in actorOut is below.  *)

Upto == made - Len(actorOut)
Leaving == {"join", "reap", "ended"}

\* The queue holds a farewell only once the actor has queued its last.
FarewellIsLast ==
    /\ posted.t = "bye" => actorPc \in Leaving
    /\ \A i \in 1..Len(senderHand) : senderHand[i].t = "bye" => actorPc \in Leaving
    /\ \A i \in 1..Len(outQ) : outQ[i].t = "bye" => actorPc \in Leaving

OrderInv == OutputInOrder /\ FarewellIsLast

LEMMA OrderTypes ==
    TypeOK => /\ made \in Nat /\ actorOut \in Seq(Nat) /\ Len(actorOut) \in Nat
              /\ outQ \in Seq(Item) /\ senderHand \in Seq(Item)
              /\ Len(outQ) \in Nat /\ Len(senderHand) \in Nat
              /\ posted.n \in Nat /\ Len(senderHand) <= 1
  BY LenNat DEF TypeOK, ChunkTypeOK, OutTypeOK, Item, NoItem, AtMostOne

\* What a step of the actor leaves alone stays in order when more chunks leave.
LEMMA OrderFrame ==
    ASSUME OrderInv, TypeOK, UNCHANGED <<posted, senderHand, outQ>>,
           Upto' \in Int, Upto <= Upto', IsRun(actorOut', Upto'),
           actorPc \in Leaving => actorPc' \in Leaving
    PROVE  OrderInv'
<1>1. posted.n \in Nat /\ Upto \in Int
  BY OrderTypes DEF Upto
<1>2. posted.n <= Upto'
  BY <1>1 DEF OrderInv, OutputInOrder, Upto
<1>3. ASSUME NEW m \in posted.n + 1 .. Upto PROVE m \in posted.n + 1 .. Upto'
  BY <1>1
<1>4. OutputInOrder'
  BY <1>2, <1>3 DEF OrderInv, OutputInOrder, Upto
<1>5. FarewellIsLast'
  BY DEF OrderInv, FarewellIsLast
<1> QED
  BY <1>4, <1>5 DEF OrderInv

LEMMA AppendAt ==
    ASSUME NEW S, NEW s \in Seq(S), NEW e \in S, NEW i \in 1..Len(Append(s, e))
    PROVE  /\ i \in 1..Len(s) => Append(s, e)[i] = s[i]
           /\ i \notin 1..Len(s) => i = Len(s) + 1 /\ Append(s, e)[i] = e
  OBVIOUS

\* The next number goes to the end of the queue.
LEMMA OrderEnqueue ==
    ASSUME OrderInv, TypeOK, actorPc \notin Leaving,
           NEW type \in {"chunk", "marker", "bye"},
           Enqueue(type, Upto + 1), UNCHANGED <<posted, senderHand>>,
           Upto' = Upto + 1, IsRun(actorOut', Upto'),
           type = "bye" => actorPc' \in Leaving
    PROVE  OrderInv'
<1>1. posted.n \in Nat /\ Upto \in Int /\ posted.n <= Upto /\ outQ \in Seq(Item)
      /\ Len(outQ) \in Nat
  BY OrderTypes DEF OrderInv, OutputInOrder, Upto
<1> DEFINE e == [t |-> type, n |-> Upto + 1]
<1>2. e \in Item /\ e.n = Upto + 1 /\ e.t = type
  BY <1>1 DEF Item
<1>3. outQ' = Append(outQ, e)
  BY DEF Enqueue
<1>4. Len(outQ') = Len(outQ) + 1
  BY <1>1, <1>2, <1>3, AppendSeq
<1>5. ASSUME NEW i \in 1..Len(outQ')
      PROVE  /\ i \in 1..Len(outQ) => outQ'[i] = outQ[i]
             /\ i \notin 1..Len(outQ) => i = Len(outQ) + 1 /\ outQ'[i] = e
  BY <1>1, <1>2, <1>3, AppendAt
<1>6. ASSUME NEW m \in posted.n + 1 .. Upto
      PROVE  m \in posted.n + 1 .. Upto' /\ m < Upto + 1
  BY <1>1
<1>7. /\ posted.t # "bye"
      /\ \A i \in 1..Len(senderHand) : senderHand[i].t # "bye"
      /\ \A i \in 1..Len(outQ) : outQ[i].t # "bye"
  BY DEF OrderInv, FarewellIsLast
<1>8. \A i \in 1..Len(senderHand) : senderHand[i].n \in posted.n + 1 .. Upto
  BY DEF OrderInv, OutputInOrder, Upto
<1>9. ASSUME NEW i \in 1..Len(outQ')
      PROVE  /\ outQ'[i].n \in posted.n + 1 .. Upto'
             /\ \A j \in 1..Len(senderHand) : senderHand[j].n < outQ'[i].n
             /\ \A j \in 1..(i - 1) : outQ'[j].n < outQ'[i].n
             /\ outQ'[i].t = "bye" => i = Len(outQ') /\ type = "bye"
  <2>1. CASE i \in 1..Len(outQ)
    <3>1. outQ'[i] = outQ[i] /\ outQ[i].n \in posted.n + 1 .. Upto
      BY <1>5, <2>1 DEF OrderInv, OutputInOrder, Upto
    <3>2. \A j \in 1..Len(senderHand) : senderHand[j].n < outQ'[i].n
      BY <2>1, <3>1 DEF OrderInv, OutputInOrder
    <3>3. ASSUME NEW j \in 1..(i - 1) PROVE outQ'[j].n < outQ'[i].n
      <4>1. j \in 1..Len(outQ) /\ j \in 1..Len(outQ')
        BY <1>1, <1>4, <2>1
      <4> QED
        BY <1>5, <2>1, <3>1, <4>1 DEF OrderInv, OutputInOrder
    <3> QED
      BY <1>6, <1>7, <2>1, <3>1, <3>2, <3>3
  <2>2. CASE i \notin 1..Len(outQ)
    <3>1. i = Len(outQ) + 1 /\ outQ'[i].n = Upto + 1 /\ outQ'[i].t = type
      BY <1>2, <1>5, <2>2
    <3>2. outQ'[i].n \in posted.n + 1 .. Upto'
      BY <1>1, <3>1
    <3>3. \A j \in 1..Len(senderHand) : senderHand[j].n < outQ'[i].n
      BY <1>6, <1>8, <3>1
    <3>4. ASSUME NEW j \in 1..(i - 1) PROVE outQ'[j].n < outQ'[i].n
      <4>1. j \in 1..Len(outQ) /\ j \in 1..Len(outQ')
        BY <1>1, <1>4, <3>1
      <4>2. outQ'[j] = outQ[j] /\ outQ[j].n \in posted.n + 1 .. Upto
        BY <1>5, <4>1 DEF OrderInv, OutputInOrder, Upto
      <4> QED
        BY <1>6, <3>1, <4>2
    <3> QED
      BY <1>4, <3>1, <3>2, <3>3, <3>4
  <2> QED
    BY <2>1, <2>2
<1>10. \A i \in 1..Len(senderHand') : senderHand'[i].n \in posted'.n + 1 .. Upto'
  BY <1>6, <1>8
<1>11. OutputInOrder'
  BY <1>1, <1>7, <1>9, <1>10 DEF OutputInOrder, Upto
<1>12. FarewellIsLast'
  BY <1>7, <1>9 DEF FarewellIsLast
<1> QED
  BY <1>11, <1>12 DEF OrderInv

LEMMA FlushRun ==
    ASSUME NEW m \in Nat, NEW k \in Nat
    PROVE  /\ IsRun([i \in 1..k |-> m + i], m)
           /\ Len([i \in 1..k |-> m + i]) = k
  BY DEF IsRun

\* A flush of the chunker starts from an empty actorOut and ends at made'.
LEMMA OrderFlush ==
    ASSUME OrderInv, TypeOK, actorOut = <<>>, NEW k \in Nat, Flush(k),
           UNCHANGED <<posted, senderHand, outQ>>, actorPc \notin Leaving
    PROVE  OrderInv'
<1>1. made \in Nat /\ Len(actorOut) = 0
  BY OrderTypes, EmptySeq
<1>2. IsRun(actorOut', made) /\ Len(actorOut') = k /\ made' = made + k
  BY <1>1, FlushRun DEF Flush
<1>3. Upto = made /\ Upto' = made
  BY <1>1, <1>2 DEF Upto
<1> QED
  BY <1>1, <1>2, <1>3, OrderFrame

\* The first chunk of actorOut leaves it, for the queue or for nowhere.
LEMMA OrderPop ==
    ASSUME OrderInv, TypeOK, actorOut # <<>>, actorOut' = Tail(actorOut),
           UNCHANGED made
    PROVE  /\ Head(actorOut) = Upto + 1
           /\ Upto' = Upto + 1 /\ Upto \in Int
           /\ IsRun(actorOut', Upto')
<1>1. made \in Nat /\ actorOut \in Seq(Nat) /\ Upto \in Nat /\ IsRun(actorOut, Upto)
  BY OrderTypes DEF OrderInv, OutputInOrder, Upto
<1>2. Head(actorOut) = Upto + 1 /\ IsRun(actorOut', Upto + 1)
  BY <1>1, RunPop
<1>3. Len(actorOut') = Len(actorOut) - 1 /\ Len(actorOut) \in Nat
  BY <1>1, PopSeq, LenNat
<1>4. Upto' = Upto + 1
  BY <1>1, <1>3 DEF Upto
<1> QED
  BY <1>1, <1>2, <1>4

LEMMA OrderSender == OrderInv /\ TypeOK /\ HandsAgree /\ Sender => OrderInv'
<1> SUFFICES ASSUME OrderInv, TypeOK, HandsAgree, Sender PROVE OrderInv'
  OBVIOUS
<1> USE DEF loopVars, chunkVars
<1>1. posted.n \in Nat /\ Upto \in Int /\ outQ \in Seq(Item) /\ Len(outQ) \in Nat
      /\ senderHand \in Seq(Item) /\ Len(senderHand) <= 1
  BY OrderTypes DEF Upto
<1>2. CASE SenderRecv
  <2>1. outQ # <<>> /\ senderHand = <<>> /\ senderHand' = <<Head(outQ)>>
        /\ outQ' = Tail(outQ) /\ UNCHANGED <<posted, made, actorOut, actorPc>>
    BY <1>2 DEF SenderRecv, HandsAgree
  <2>2. Len(outQ') = Len(outQ) - 1 /\ Len(senderHand') = 1 /\ Len(outQ) > 0
        /\ senderHand'[1] = outQ[1]
        /\ \A i \in 1..Len(outQ') : outQ'[i] = outQ[i + 1]
    BY <1>1, <2>1
  <2>3. \A i \in 1..Len(senderHand') : senderHand'[i] = outQ[1] /\ 1 \in 1..Len(outQ)
    BY <1>1, <2>2
  <2>4. ASSUME NEW i \in 1..Len(outQ')
        PROVE  /\ outQ'[i] = outQ[i + 1] /\ i + 1 \in 1..Len(outQ)
               /\ outQ[1].n < outQ'[i].n
               /\ \A j \in 1..(i - 1) : outQ'[j].n < outQ'[i].n
    <3>1. outQ'[i] = outQ[i + 1] /\ i + 1 \in 1..Len(outQ) /\ 1 \in 1..((i + 1) - 1)
      BY <1>1, <2>2
    <3>2. outQ[1].n < outQ'[i].n
      BY <3>1 DEF OrderInv, OutputInOrder
    <3>3. ASSUME NEW j \in 1..(i - 1) PROVE outQ'[j].n < outQ'[i].n
      <4>1. outQ'[j] = outQ[j + 1] /\ j + 1 \in 1..((i + 1) - 1)
        BY <1>1, <2>2
      <4> QED
        BY <3>1, <4>1 DEF OrderInv, OutputInOrder
    <3> QED
      BY <3>1, <3>2, <3>3
  <2>5. outQ[1].t = "bye" => outQ' = <<>>
    <3>1. outQ[1].t = "bye" => Len(outQ) = 1
      BY <1>1, <2>2 DEF OrderInv, OutputInOrder
    <3>2. outQ' \in Seq(Item)
      BY <1>1, <2>1, PopSeq
    <3>3. Len(outQ') = 0 => outQ' = <<>>
      BY <3>2, LenZero
    <3> QED
      BY <2>2, <3>1, <3>3
  <2>6. \A i \in 1..Len(outQ') : outQ'[i].t = "bye" => i = Len(outQ')
    BY <1>1, <2>2, <2>4, SMTT(30) DEF OrderInv, OutputInOrder
  <2>7. posted.t # "bye"
    BY <2>1 DEF OrderInv, OutputInOrder
  <2>8. Upto' = Upto /\ IsRun(actorOut', Upto') /\ posted.n <= Upto
    BY <2>1 DEF OrderInv, OutputInOrder, Upto
  <2>9. \A i \in 1..Len(outQ) : outQ[i].n \in posted.n + 1 .. Upto
    BY DEF OrderInv, OutputInOrder, Upto
  <2>10. OutputInOrder'
    BY <2>1, <2>3, <2>4, <2>5, <2>6, <2>7, <2>8, <2>9 DEF OutputInOrder, Upto
  <2>11. FarewellIsLast'
    BY <2>1, <2>3, <2>4 DEF OrderInv, FarewellIsLast
  <2> QED
    BY <2>10, <2>11 DEF OrderInv
<1>3. CASE SenderPost
  <2>1. senderHand # <<>> /\ posted' = Head(senderHand) /\ senderHand' = <<>>
        /\ UNCHANGED <<outQ, made, actorOut, actorPc>>
    BY <1>3 DEF SenderPost, HandsAgree
  <2>2. Len(senderHand) = 1 /\ posted' = senderHand[1] /\ 1 \in 1..Len(senderHand)
    BY <1>1, <2>1, HandLen
  <2>3. posted'.n \in posted.n + 1 .. Upto
    BY <2>2 DEF OrderInv, OutputInOrder, Upto
  <2>4. Upto' = Upto /\ IsRun(actorOut', Upto') /\ posted'.n <= Upto'
    BY <1>1, <2>1, <2>3 DEF OrderInv, OutputInOrder, Upto
  <2>5. ASSUME NEW i \in 1..Len(outQ) PROVE outQ[i].n \in posted'.n + 1 .. Upto'
    <3>1. outQ[i].n \in posted.n + 1 .. Upto /\ posted'.n < outQ[i].n
      BY <2>2 DEF OrderInv, OutputInOrder, Upto
    <3> QED
      BY <1>1, <2>3, <2>4, <3>1
  <2>6. posted'.t = "bye" => outQ = <<>>
    BY <2>2 DEF OrderInv, OutputInOrder
  <2>7. Len(senderHand') = 0
    BY <2>1, EmptySeq
  <2>8. OutputInOrder'
    BY <2>1, <2>4, <2>5, <2>6, <2>7 DEF OrderInv, OutputInOrder, Upto
  <2>9. FarewellIsLast'
    BY <2>1, <2>2, <2>7 DEF OrderInv, FarewellIsLast
  <2> QED
    BY <2>8, <2>9 DEF OrderInv
<1>4. CASE SenderReady \/ SenderEnd
  <2>1. UNCHANGED <<posted, senderHand, outQ, made, actorOut, actorPc>>
    BY <1>4 DEF SenderReady, SenderEnd
  <2>2. Upto' = Upto /\ IsRun(actorOut', Upto')
    BY <2>1 DEF OrderInv, OutputInOrder, Upto
  <2> QED
    BY <1>1, <2>1, <2>2, OrderFrame
<1> QED
  BY <1>2, <1>3, <1>4 DEF Sender

LEMMA OrderActor ==
    OrderInv /\ TypeOK /\ HandsAgree /\ WindDown /\ Actor => OrderInv'
<1> SUFFICES ASSUME OrderInv, TypeOK, HandsAgree, WindDown, Actor PROVE OrderInv'
  OBVIOUS
<1> USE DEF loopVars, chunkVars, senderVars
<1>1. Upto \in Int /\ IsRun(actorOut, Upto)
  BY OrderTypes DEF OrderInv, OutputInOrder, Upto
<1>2. ASSUME UNCHANGED <<posted, senderHand, outQ, made, actorOut>>,
             actorPc \in Leaving => actorPc' \in Leaving
      PROVE  OrderInv'
  <2>1. Upto' = Upto /\ IsRun(actorOut', Upto')
    BY <1>1, <1>2 DEF Upto
  <2> QED
    BY <1>1, <1>2, <2>1, OrderFrame
<1>3. ASSUME NEW why, Break(why), actorPc \in {"select", "polled", "forward"},
             UNCHANGED <<posted, senderHand, outQ>>
      PROVE  OrderInv'
  <2>1. PICK k \in 0..(IF buffered THEN MaxChunks ELSE 0) : Flush(k)
    BY <1>3 DEF Break
  <2>2. k \in Nat /\ actorOut = <<>> /\ actorPc \notin Leaving
    BY <1>3, SessionAssumption DEF WindDown, Leaving
  <2> QED
    BY <1>3, <2>1, <2>2, OrderFlush
<1>4. CASE SeesShutdown \/ SeesIdle \/ SeesInputClosed \/ SeesEof \/ ForwardFails
  BY <1>3, <1>4
     DEF SeesShutdown, SeesIdle, SeesInputClosed, SeesEof, ForwardFails
<1>5. CASE SeesSilence
  <2>1. PICK k \in 0..MaxChunks : Flush(k)
    BY <1>5 DEF SeesSilence
  <2>2. k \in Nat /\ actorOut = <<>> /\ actorPc \notin Leaving
    BY <1>5, SessionAssumption DEF SeesSilence, WindDown, Leaving
  <2> QED
    BY <1>5, <2>1, <2>2, OrderFlush DEF SeesSilence
<1>6. CASE TakeOutput
  <2>1. PICK k \in 0..(IF Head(ptyOut) = "part" THEN 0 ELSE MaxChunks) : Flush(k)
    BY <1>6 DEF TakeOutput
  <2>2. k \in Nat /\ actorOut = <<>> /\ actorPc \notin Leaving
    BY <1>6, SessionAssumption DEF TakeOutput, WindDown, Leaving
  <2> QED
    BY <1>6, <2>1, <2>2, OrderFlush DEF TakeOutput
<1>7. CASE PollChannels \/ TakeLine \/ Forward \/ JoinSender \/ Reap
  BY <1>2, <1>7 DEF PollChannels, TakeLine, Forward, JoinSender, Reap, Leaving
<1>8. ASSUME NEW type \in {"chunk", "marker"}, actorOut # <<>>,
             IF OutRoom THEN Enqueue(type, Head(actorOut)) ELSE UNCHANGED outQ,
             actorOut' = Tail(actorOut), UNCHANGED <<made, posted, senderHand>>,
             actorPc \notin Leaving
      PROVE  OrderInv'
  <2>1. Head(actorOut) = Upto + 1 /\ Upto' = Upto + 1 /\ IsRun(actorOut', Upto')
    BY <1>8, OrderPop
  <2>2. CASE OutRoom
    BY <1>8, <2>1, <2>2, OrderEnqueue
  <2>3. CASE ~OutRoom
    BY <1>1, <1>8, <2>1, <2>3, OrderFrame
  <2> QED
    BY <2>2, <2>3
<1>9. CASE EnqueueChunk
  <2>1. CASE actorOut # <<>> /\ OutRoom
    BY <1>8, <1>9, <2>1 DEF EnqueueChunk, Leaving
  <2>2. CASE ~(actorOut # <<>> /\ OutRoom)
    BY <1>2, <1>9, <2>2 DEF EnqueueChunk, Leaving
  <2> QED
    BY <2>1, <2>2
<1>10. CASE EnqueueMarker
  BY <1>8, <1>10 DEF EnqueueMarker, HandsAgree, Leaving
<1>11. CASE DrainChunk
  BY <1>8, <1>11 DEF DrainChunk, Leaving
<1>12. CASE Farewell
  <2>1. actorOut = <<>> /\ UNCHANGED <<actorOut, posted, senderHand>>
        /\ made' = made + 1 /\ actorPc' \in Leaving /\ actorPc \notin Leaving
    BY <1>12 DEF Farewell, Leaving
  <2>2. made \in Nat /\ Upto = made /\ Upto' = Upto + 1
    BY <2>1, EmptySeq, OrderTypes DEF Upto
  <2>3. IsRun(actorOut', Upto')
    BY <2>1, RunEmpty
  <2>4. CASE OutRoom
    BY <1>12, <2>1, <2>2, <2>3, <2>4, OrderEnqueue DEF Farewell
  <2>5. CASE ~OutRoom
    BY <1>12, <2>1, <2>2, <2>3, <2>5, OrderFrame DEF Farewell
  <2> QED
    BY <2>4, <2>5
<1> QED
  BY <1>4, <1>5, <1>6, <1>7, <1>9, <1>10, <1>11, <1>12 DEF Actor

LEMMA OrderNext ==
    OrderInv /\ TypeOK /\ HandsAgree /\ WindDown /\ [Next]_vars => OrderInv'
<1> SUFFICES ASSUME OrderInv, TypeOK, HandsAgree, WindDown, [Next]_vars
             PROVE  OrderInv'
  OBVIOUS
<1>1. ASSUME UNCHANGED <<posted, senderHand, outQ, made, actorOut, actorPc>>
      PROVE  OrderInv'
  <2>1. Upto \in Int /\ Upto' = Upto /\ IsRun(actorOut', Upto')
    BY <1>1, OrderTypes DEF OrderInv, OutputInOrder, Upto
  <2> QED
    BY <1>1, <2>1, OrderFrame
<1>2. CASE Environment
  BY <1>1, <1>2 DEF Environment, Deliver, Shutdown, DropHandle, IdleElapses,
     SilenceElapses, loopVars, chunkVars, senderVars
<1>3. CASE Actor \/ Sender
  BY <1>3, OrderActor, OrderSender
<1>4. CASE UNCHANGED sessionVars
  BY <1>1, <1>4 DEF sessionVars, loopVars, chunkVars, senderVars
<1>5. CASE UNCHANGED vars
  BY <1>1, <1>5 DEF vars, loopVars, chunkVars, senderVars
<1> QED
  BY <1>2, <1>3, <1>4, <1>5 DEF Next, Finished

LEMMA OrderInit == Init => OrderInv
<1> SUFFICES ASSUME Init PROVE OrderInv
  OBVIOUS
<1>1. actorOut = <<>> /\ outQ = <<>> /\ senderHand = <<>> /\ made = 0
      /\ posted.n = 0 /\ posted.t # "bye"
  BY DEF Init, NoItem
<1>2. Len(<<>>) = 0
  BY EmptySeq
<1>3. OutputInOrder
  BY <1>1, <1>2, RunEmpty DEF OutputInOrder
<1>4. FarewellIsLast
  BY <1>1, <1>2 DEF FarewellIsLast
<1> QED
  BY <1>3, <1>4 DEF OrderInv

LEMMA OrderInvariant == Spec => []OrderInv
  BY OrderInit, OrderNext, TypeInvariant, WindDownInvariant, PTL DEF Spec

\* Whatever is dropped on the way, what the peer receives is in the order in
\* which the chunker made it, and nothing follows the farewell.
THEOREM OutputOrdered == Spec => []OutputInOrder
<1>1. OrderInv => OutputInOrder
  BY DEF OrderInv
<1> QED
  BY <1>1, OrderInvariant, PTL
=============================================================================
