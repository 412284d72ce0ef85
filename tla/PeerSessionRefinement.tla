------------------------ MODULE PeerSessionRefinement ------------------------
(***************************************************************************)
(* PeerSession implements ShellSession: each of its steps is a step of the *)
(* abstract session, or leaves phase, accepted, written and posted alone.  *)
(***************************************************************************)
EXTENDS PeerSessionProofs

SessionInv ==
    TypeOK /\ HandsAgree /\ WindDown /\ NoLineLost /\ OrderInv

\* A step that only moves the actor within the loop, or within its ending.
LEMMA RefineQuiet ==
    ASSUME UNCHANGED <<accepted, written, posted>>, phase' = phase
    PROVE  UNCHANGED Abstract!vars
  BY DEF Abstract!vars

\* A step that leaves the select loop.
LEMMA RefineClose ==
    ASSUME UNCHANGED <<accepted, written, posted>>,
           actorPc \in {"select", "polled", "forward"}, actorPc' = "drain"
    PROVE  Abstract!Close
<1>1. phase = "open" /\ phase' = "closing"
  BY DEF phase
<1> QED
  BY <1>1 DEF Abstract!Close

LEMMA RefineEnvironment == Environment => [Abstract!Next]_(Abstract!vars)
<1> SUFFICES ASSUME Environment PROVE [Abstract!Next]_(Abstract!vars)
  OBVIOUS
<1> USE DEF ptyVars, writerSide, daemonVars, loopVars, senderVars
<1>1. CASE Deliver
  <2>1. phase # "closed" /\ phase' = phase /\ UNCHANGED <<written, posted>>
    BY <1>1 DEF Deliver, phase
  <2>2. CASE Len(inputQ) < InDepth
    BY <1>1, <2>1, <2>2 DEF Deliver, Abstract!Next, Abstract!Accept
  <2>3. CASE ~(Len(inputQ) < InDepth)
    BY <1>1, <2>1, <2>3, RefineQuiet DEF Deliver
  <2> QED
    BY <2>2, <2>3
<1>2. CASE ~Deliver
  <2>1. UNCHANGED <<accepted, written, posted>> /\ phase' = phase
    BY <1>2 DEF Environment, Shutdown, DropHandle, IdleElapses, SilenceElapses,
       phase
  <2> QED
    BY <2>1, RefineQuiet
<1> QED
  BY <1>1, <1>2

LEMMA RefineActor == Actor => [Abstract!Next]_(Abstract!vars)
<1> SUFFICES ASSUME Actor PROVE [Abstract!Next]_(Abstract!vars)
  OBVIOUS
<1> USE DEF ptyVars, writerSide, daemonVars, loopVars, senderVars
<1>1. CASE SeesShutdown \/ SeesIdle \/ SeesInputClosed \/ SeesEof \/ ForwardFails
  <2>1. Abstract!Close
    BY <1>1, RefineClose DEF SeesShutdown, SeesIdle, SeesInputClosed, SeesEof,
       ForwardFails, Break
  <2> QED
    BY <2>1 DEF Abstract!Next
<1>2. CASE Reap
  <2>1. phase = "closing" /\ phase' = "closed"
    BY <1>2 DEF Reap, phase
  <2>2. Abstract!End
    BY <1>2, <2>1 DEF Reap, Abstract!End
  <2> QED
    BY <2>2 DEF Abstract!Next
<1>3. CASE SeesSilence \/ PollChannels \/ TakeLine \/ TakeOutput \/ Forward
  <2>1. UNCHANGED <<accepted, written, posted>> /\ phase' = phase
    BY <1>3 DEF SeesSilence, PollChannels, TakeLine, TakeOutput, Forward, phase
  <2> QED
    BY <2>1, RefineQuiet
<1>4. CASE EnqueueChunk \/ EnqueueMarker \/ DrainChunk \/ Farewell \/ JoinSender
  <2>1. UNCHANGED <<accepted, written, posted>> /\ phase' = phase
    BY <1>4 DEF EnqueueChunk, EnqueueMarker, DrainChunk, Farewell, JoinSender,
       phase
  <2> QED
    BY <2>1, RefineQuiet
<1> QED
  BY <1>1, <1>2, <1>3, <1>4 DEF Actor

LEMMA RefineSender == SessionInv /\ Sender => [Abstract!Next]_(Abstract!vars)
<1> SUFFICES ASSUME SessionInv, Sender PROVE [Abstract!Next]_(Abstract!vars)
  OBVIOUS
<1> USE DEF ptyVars, writerSide, daemonVars, loopVars, SessionInv
<1>1. CASE SenderPost
  <2>1. phase' = phase /\ UNCHANGED <<accepted, written>>
    BY <1>1 DEF SenderPost, phase
  <2>2. actorPc # "ended"
    BY <1>1 DEF SenderPost, WindDown
  <2>3. senderHand # <<>> /\ senderHand \in Seq(Item) /\ Len(senderHand) = 1
    BY <1>1, OrderTypes, HandLen DEF SenderPost, HandsAgree
  <2>4. posted' = senderHand[1] /\ posted' \in Item
    BY <1>1, <2>3 DEF SenderPost
  <2>5. 1 \in 1..Len(senderHand)
    BY <2>3
  <2>6. posted.t # "bye"
    BY <2>3 DEF OrderInv, OutputInOrder
  <2>7. posted'.n > posted.n
    <3>1. posted'.n \in posted.n + 1 .. Upto
      BY <2>4, <2>5 DEF OrderInv, OutputInOrder, Upto
    <3>2. posted.n \in Nat /\ Upto \in Int
      BY OrderTypes DEF Upto
    <3> QED
      BY <3>1, <3>2
  <2>8. posted'.t = "bye" => phase = "closing"
    <3>1. posted'.t = "bye" => actorPc \in Leaving
      BY <2>4, <2>5 DEF OrderInv, FarewellIsLast
    <3> QED
      BY <2>2, <3>1 DEF Leaving, phase
  <2>9. posted' \in [t : Abstract!ItemTypes \ {"none"}, n : {posted'.n}]
    BY <2>4 DEF Item, Abstract!ItemTypes
  <2>10. Abstract!Post
    BY <2>1, <2>2, <2>6, <2>7, <2>8, <2>9 DEF Abstract!Post, phase
  <2> QED
    BY <2>10 DEF Abstract!Next
<1>2. CASE SenderRecv \/ SenderReady \/ SenderEnd
  <2>1. UNCHANGED <<accepted, written, posted>> /\ phase' = phase
    BY <1>2 DEF SenderRecv, SenderReady, SenderEnd, phase
  <2> QED
    BY <2>1, RefineQuiet
<1> QED
  BY <1>1, <1>2 DEF Sender

LEMMA RefinePty ==
    SessionInv /\ (PtyThreads \/ Shell) /\ UNCHANGED sessionVars
        => [Abstract!Next]_(Abstract!vars)
<1> SUFFICES ASSUME SessionInv, PtyThreads \/ Shell, UNCHANGED sessionVars
             PROVE  [Abstract!Next]_(Abstract!vars)
  OBVIOUS
<1> USE DEF SessionInv, sessionVars, daemonVars, loopVars, senderVars, writerSide
<1>1. phase' = phase /\ UNCHANGED <<accepted, posted>>
  BY DEF phase
<1>2. CASE WriterWrite
  <2>1. ~writerDone
    BY <1>2 DEF WriterWrite
  <2>2. LinesInFlight
    BY <2>1 DEF NoLineLost
  <2>3. writerHand \in Seq(Nat) /\ Len(writerHand) = 1 /\ written \in Nat
    BY <1>2, HandLen
       DEF WriterWrite, TypeOK, PtyTypeOK, WriterTypeOK, AtMostOne
  <2>4. written' = written + 1
    BY <1>2, <2>2, <2>3, RunPop DEF WriterWrite, LinesInFlight
  <2>5. Len(ptyIn) \in Nat /\ Len(actorHand) \in Nat /\ Len(inputQ) \in Nat
    BY LenNat DEF TypeOK, PtyTypeOK, WriterTypeOK, HandleTypeOK, LoopTypeOK
  <2>6. accepted \in Nat
        /\ written + 1 + Len(ptyIn) + Len(actorHand) + Len(inputQ) <= accepted
    BY <2>2, <2>3, <2>5 DEF LinesInFlight, TypeOK, HandleTypeOK
  <2>7. written < accepted
    BY <2>3, <2>5, <2>6
  <2>8. Abstract!Write
    BY <1>1, <2>4, <2>7 DEF Abstract!Write, phase
  <2> QED
    BY <2>8 DEF Abstract!Next
<1>3. CASE WriterRecv \/ WriterFail \/ WriterEnd \/ ReaderRead \/ ReaderSend
           \/ ReaderEnd \/ Shell
  <2>1. UNCHANGED written
    BY <1>3 DEF WriterRecv, WriterFail, WriterEnd, ReaderRead, ReaderSend,
       ReaderEnd, Shell, ShellRead, ShellPrint, ShellExit, JobsEnd
  <2> QED
    BY <1>1, <2>1, RefineQuiet
<1> QED
  BY <1>2, <1>3 DEF PtyThreads

\* A session, with all its queues, tasks and threads, does what ShellSession
\* promises: lines typed in order and once, output in order, nothing after the
\* farewell, and neither once it is closed.
THEOREM SessionRefinement == Spec => ImplementsShellSession
<1>1. Init => Abstract!Init
  BY DEF Init, PtyInit, NoItem, phase, Abstract!Init
<1>2. SessionInv /\ [Next]_vars => [Abstract!Next]_(Abstract!vars)
  <2> SUFFICES ASSUME SessionInv, [Next]_vars
               PROVE  [Abstract!Next]_(Abstract!vars)
    OBVIOUS
  <2>1. CASE UNCHANGED vars
    <3>1. UNCHANGED <<accepted, written, posted>> /\ phase' = phase
      BY <2>1 DEF vars, ptyVars, writerSide, daemonVars, loopVars, senderVars,
         phase
    <3> QED
      BY <3>1, RefineQuiet
  <2> QED
    BY <2>1, RefineEnvironment, RefineActor, RefineSender, RefinePty
       DEF Next, Finished
<1>3. Spec => []SessionInv
  BY TypeInvariant, WindDownInvariant, LinesKept, OrderInvariant, PTL
     DEF SessionInv
<1> QED
  BY <1>1, <1>2, <1>3, PTL DEF Spec, ImplementsShellSession, Abstract!Spec
=============================================================================
