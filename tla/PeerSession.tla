---------------------------- MODULE PeerSession ----------------------------
(***************************************************************************)
(* One session of one peer (src/src/peer.rs): the actor's select loop, the *)
(* sender task, and the handle the daemon keeps, around one Pty.           *)
(*                                                                         *)
(*   daemon --inputQ--> actor --ptyIn--> Pty --ptyOut--> actor             *)
(*                      actor --outQ--> sender --> bridge                  *)
(*                                                                         *)
(* One action is one stretch of a task between two points where another    *)
(* task can run.  A poll of the biased select! is two steps: the shutdown  *)
(* arm and the timers first, then the channels, for the daemon runs on     *)
(* another worker and may send the shutdown or drop the handle in between. *)
(*                                                                         *)
(* Time is abstracted to two facts: idle (now - last_activity exceeds the  *)
(* timeout) and silent (the chunker's deadline has passed).                *)
(* Chunks are numbered in the order the chunker makes them.                *)
(***************************************************************************)
EXTENDS Pty

CONSTANTS
    InDepth,        \* limits.inbound_channel_depth   (32 by default)
    OutDepth,       \* limits.outbound_channel_depth  (64 by default)
    MaxLines,       \* bound: lines the daemon hands over
    MaxChunks       \* bound: chunks one flush of the chunker makes

ASSUME SessionAssumption ==
    /\ InDepth \in Nat \ {0}
    /\ OutDepth \in Nat \ {0}
    /\ MaxLines \in Nat
    /\ MaxChunks \in Nat

VARIABLES
    accepted,       \* number of lines accepted into inputQ
    inputQ,         \* channel of lines from the daemon
    handle,         \* "held" by the daemon | "dropped"
    shutdown,       \* "none", or the reason sent on the oneshot channel
    idle,           \* the last activity is older than the idle timeout
    actorPc,        \* where the actor is
    actorHand,      \* the line the actor is forwarding
    reason,         \* why the loop was left
    late,           \* number of lines taken after the shutdown was sent
    buffered,       \* the chunker's buffer holds bytes
    silent,         \* ... and nothing was pushed for flush_silence
    made,           \* number of chunks made, counting the farewell
    actorOut,       \* chunks of the last flush, not yet enqueued
    outQ,           \* channel of items towards the sender task
    senderPc,       \* where the sender task is
    senderHand,     \* the item the sender task holds
    posted          \* the last item handed to send_dm

daemonVars == <<accepted, handle, shutdown>>
loopVars == <<actorPc, actorHand, reason, late>>
chunkVars == <<buffered, silent, made, actorOut>>
senderVars == <<senderPc, senderHand, posted>>
vars == <<ptyVars, daemonVars, inputQ, idle, loopVars, chunkVars, outQ,
          senderVars>>

ShutdownReasons == {"revoked", "shutdown"}
Reasons == ShutdownReasons \cup
    {"none", "idle", "input_closed", "pty_closed", "pty_eof"}
ActorPcs == {"select", "polled", "forward", "enqueue", "marker", "drain",
             "join", "reap", "ended"}
SenderPcs == {"recv", "limited", "post", "done"}
Item == [t : {"chunk", "marker", "bye"}, n : Nat]
NoItem == [t |-> "none", n |-> 0]

HandleTypeOK ==
    /\ accepted \in Nat
    /\ inputQ \in Seq(Nat) /\ Len(inputQ) <= InDepth
    /\ handle \in {"held", "dropped"}
    /\ shutdown \in ShutdownReasons \cup {"none"}
    /\ idle \in BOOLEAN

LoopTypeOK ==
    /\ actorPc \in ActorPcs
    /\ actorHand \in Seq(Nat) /\ AtMostOne(actorHand)
    /\ reason \in Reasons
    /\ late \in Nat

ChunkTypeOK ==
    /\ buffered \in BOOLEAN
    /\ silent \in BOOLEAN
    /\ made \in Nat
    /\ actorOut \in Seq(Nat)

OutTypeOK ==
    /\ outQ \in Seq(Item) /\ Len(outQ) <= OutDepth
    /\ senderPc \in SenderPcs
    /\ senderHand \in Seq(Item) /\ AtMostOne(senderHand)
    /\ posted \in Item \cup {NoItem}

TypeOK == PtyTypeOK /\ HandleTypeOK /\ LoopTypeOK /\ ChunkTypeOK /\ OutTypeOK

Init ==
    /\ PtyInit
    /\ accepted = 0
    /\ inputQ = <<>>
    /\ handle = "held"
    /\ shutdown = "none"
    /\ idle = FALSE
    /\ actorPc = "select"
    /\ actorHand = <<>>
    /\ reason = "none"
    /\ late = 0
    /\ buffered = FALSE
    /\ silent = FALSE
    /\ made = 0
    /\ actorOut = <<>>
    /\ outQ = <<>>
    /\ senderPc = "recv"
    /\ senderHand = <<>>
    /\ posted = NoItem

-----------------------------------------------------------------------------
(* The daemon's side of the handle, and time. *)

\* Mutant: a channel without a bound.
DeliverUnbounded ==
    /\ handle = "held" /\ shutdown = "none" /\ actorPc # "ended"
    /\ accepted < MaxLines
    /\ idle' = FALSE
    /\ inputQ' = Append(inputQ, accepted + 1)
    /\ accepted' = accepted + 1
    /\ UNCHANGED <<ptyVars, handle, shutdown, loopVars, chunkVars, outQ,
                   senderVars>>

\* handle_sse_event: touch, then try_send: a full channel drops the line.
Deliver ==
    /\ handle = "held" /\ shutdown = "none" /\ actorPc # "ended"
    /\ accepted < MaxLines
    /\ idle' = FALSE
    /\ IF Len(inputQ) < InDepth
       THEN /\ inputQ' = Append(inputQ, accepted + 1)
            /\ accepted' = accepted + 1
       ELSE UNCHANGED <<inputQ, accepted>>
    /\ UNCHANGED <<ptyVars, handle, shutdown, loopVars, chunkVars, outQ,
                   senderVars>>

\* PeerHandle::shutdown takes the oneshot sender, so it sends at most once.
Shutdown(why) ==
    /\ handle = "held" /\ shutdown = "none"
    /\ shutdown' = why
    /\ UNCHANGED <<ptyVars, accepted, handle, inputQ, idle, loopVars, chunkVars,
                   outQ, senderVars>>

\* The registry forgets the handle: after a shutdown, or as a stale one.
DropHandle ==
    /\ handle = "held"
    /\ shutdown # "none" \/ actorPc = "ended"
    /\ handle' = "dropped"
    /\ UNCHANGED <<ptyVars, accepted, shutdown, inputQ, idle, loopVars,
                   chunkVars, outQ, senderVars>>

\* idle_timeout goes by without activity.
IdleElapses ==
    /\ ~idle /\ actorPc # "ended"
    /\ idle' = TRUE
    /\ UNCHANGED <<ptyVars, daemonVars, inputQ, loopVars, chunkVars, outQ,
                   senderVars>>

\* flush_silence goes by after the last push: next_deadline has passed.
SilenceElapses ==
    /\ buffered /\ ~silent
    /\ silent' = TRUE
    /\ UNCHANGED <<ptyVars, daemonVars, inputQ, idle, loopVars, buffered, made,
                   actorOut, outQ, senderVars>>

-----------------------------------------------------------------------------
(* The actor: the select loop. *)

\* The chunker turns what it holds into k chunks, none if it is all blank.
Flush(k) ==
    /\ actorOut' = [i \in 1..k |-> made + i]
    /\ made' = made + k

\* The loop is left: flush_force empties the chunker, the drain follows.
Break(why) ==
    /\ reason' = why
    /\ actorPc' = "drain"
    /\ \E k \in 0..(IF buffered THEN MaxChunks ELSE 0) : Flush(k)
    /\ buffered' = FALSE
    /\ silent' = FALSE

SeesShutdown ==
    /\ actorPc = "select" /\ shutdown # "none"
    /\ Break(shutdown)
    /\ UNCHANGED <<ptyVars, daemonVars, inputQ, idle, actorHand, late, outQ,
                   senderVars>>

\* Mutant: activity is only known once a first line has come.
SeesIdleAfterLine ==
    /\ actorPc = "select" /\ shutdown = "none" /\ idle /\ accepted > 0
    /\ Break("idle")
    /\ UNCHANGED <<ptyVars, daemonVars, inputQ, idle, actorHand, late, outQ,
                   senderVars>>

\* The idle tick finds the timeout exceeded.  A tick that does not changes
\* nothing, so the 60 s interval only decides when this step is taken.
SeesIdle ==
    /\ actorPc = "select" /\ shutdown = "none" /\ idle
    /\ Break("idle")
    /\ UNCHANGED <<ptyVars, daemonVars, inputQ, idle, actorHand, late, outQ,
                   senderVars>>

\* Mutant: the silence arm flushes whole lines only, like push.
SeesSilenceWholeLines ==
    /\ actorPc = "select" /\ shutdown = "none"
    /\ buffered /\ silent
    /\ silent' = FALSE
    /\ actorPc' = "enqueue"
    /\ UNCHANGED <<ptyVars, daemonVars, inputQ, idle, actorHand, reason, late,
                   buffered, made, actorOut, outQ, senderVars>>

\* The silence arm: maybe_flush drains the buffer.
SeesSilence ==
    /\ actorPc = "select" /\ shutdown = "none"
    /\ buffered /\ silent
    /\ \E k \in 0..MaxChunks : Flush(k)
    /\ buffered' = FALSE
    /\ silent' = FALSE
    /\ actorPc' = "enqueue"
    /\ UNCHANGED <<ptyVars, daemonVars, inputQ, idle, actorHand, reason, late,
                   outQ, senderVars>>

\* Mutant: a select! that is not biased may poll the channels first.
PollUnbiased ==
    /\ actorPc = "select"
    /\ ~(buffered /\ silent)
    /\ \/ inputQ # <<>> \/ handle = "dropped"
       \/ ptyOut # <<>> \/ readerDone
    /\ actorPc' = "polled"
    /\ UNCHANGED <<ptyVars, daemonVars, inputQ, idle, actorHand, reason, late,
                   chunkVars, outQ, senderVars>>

\* Shutdown and timers are pending; a channel is ready.
PollChannels ==
    /\ actorPc = "select" /\ shutdown = "none"
    /\ ~(buffered /\ silent)
    /\ \/ inputQ # <<>> \/ handle = "dropped"
       \/ ptyOut # <<>> \/ readerDone
    /\ actorPc' = "polled"
    /\ UNCHANGED <<ptyVars, daemonVars, inputQ, idle, actorHand, reason, late,
                   chunkVars, outQ, senderVars>>

TakeLine ==
    /\ actorPc = "polled" /\ inputQ # <<>>
    /\ actorHand' = <<Head(inputQ)>>
    /\ inputQ' = Tail(inputQ)
    /\ idle' = FALSE
    /\ late' = IF shutdown = "none" THEN late ELSE late + 1
    /\ actorPc' = "forward"
    /\ UNCHANGED <<ptyVars, daemonVars, reason, chunkVars, outQ, senderVars>>

\* recv() yields None: the channel is empty and the handle is gone.
SeesInputClosed ==
    /\ actorPc = "polled" /\ inputQ = <<>> /\ handle = "dropped"
    /\ Break("input_closed")
    /\ UNCHANGED <<ptyVars, daemonVars, inputQ, idle, actorHand, late, outQ,
                   senderVars>>

NoInput == inputQ = <<>> /\ handle = "held"

\* A read arrives: push flushes up to its last newline and keeps the rest.
TakeOutput ==
    /\ actorPc = "polled" /\ NoInput /\ ptyOut # <<>>
    /\ ptyOut' = Tail(ptyOut)
    /\ idle' = FALSE
    /\ \E k \in 0..(IF Head(ptyOut) = "part" THEN 0 ELSE MaxChunks) : Flush(k)
    /\ buffered' = (Head(ptyOut) # "line")
    /\ silent' = FALSE
    /\ actorPc' = "enqueue"
    /\ UNCHANGED <<writerSide, terminal, readerHand, readerDone, ends, daemonVars, inputQ, actorHand, reason,
                   late, outQ, senderVars>>

\* recv() yields None: the reader thread is gone and its channel is empty.
SeesEof ==
    /\ actorPc = "polled" /\ NoInput /\ ptyOut = <<>> /\ readerDone
    /\ Break("pty_eof")
    /\ UNCHANGED <<ptyVars, daemonVars, inputQ, idle, actorHand, late, outQ,
                   senderVars>>

\* Mutant: try_send instead of send: a full channel loses the line.
ForwardOrDrop ==
    /\ actorPc = "forward" /\ ~writerDone
    /\ ptyIn' = IF Len(ptyIn) < PtyInDepth THEN Append(ptyIn, Head(actorHand))
                ELSE ptyIn
    /\ actorHand' = <<>>
    /\ actorPc' = "select"
    /\ UNCHANGED <<writerHand, writerDone, written, readerSide, terminal, ends,
                   daemonVars, inputQ, idle, reason, late, chunkVars, outQ,
                   senderVars>>

\* pty.input_tx.send().await: waits for room, inside the arm's handler, where
\* no other arm is polled.
Forward ==
    /\ actorPc = "forward" /\ ~writerDone
    /\ Len(ptyIn) < PtyInDepth
    /\ ptyIn' = Append(ptyIn, Head(actorHand))
    /\ actorHand' = <<>>
    /\ actorPc' = "select"
    /\ UNCHANGED <<writerHand, writerDone, written, readerSide, terminal, ends,
                   daemonVars, inputQ, idle, reason, late, chunkVars, outQ,
                   senderVars>>

\* ... or fails once the writer thread has dropped its receiver.
ForwardFails ==
    /\ actorPc = "forward" /\ writerDone
    /\ actorHand' = <<>>
    /\ Break("pty_closed")
    /\ UNCHANGED <<ptyVars, daemonVars, inputQ, idle, late, outQ, senderVars>>

-----------------------------------------------------------------------------
(* The actor: enqueue_chunk, and the end of the session. *)

OutRoom == Len(outQ) < OutDepth
Enqueue(type, n) == outQ' = Append(outQ, [t |-> type, n |-> n])

\* try_send for each chunk of the flush; a full queue leads to the marker.
EnqueueChunk ==
    /\ actorPc = "enqueue"
    /\ IF actorOut = <<>>
       THEN actorPc' = "select" /\ UNCHANGED <<actorOut, outQ>>
       ELSE IF OutRoom
       THEN /\ Enqueue("chunk", Head(actorOut))
            /\ actorOut' = Tail(actorOut)
            /\ UNCHANGED actorPc
       ELSE actorPc' = "marker" /\ UNCHANGED <<actorOut, outQ>>
    /\ UNCHANGED <<ptyVars, daemonVars, inputQ, idle, actorHand, reason, late,
                   buffered, silent, made, senderVars>>

\* The chunk is lost.  The marker is tried a few times without waiting: it
\* takes the chunk's place if the sender task made room meanwhile.
EnqueueMarker ==
    /\ actorPc = "marker"
    /\ IF OutRoom THEN Enqueue("marker", Head(actorOut)) ELSE UNCHANGED outQ
    /\ actorOut' = Tail(actorOut)
    /\ actorPc' = "enqueue"
    /\ UNCHANGED <<ptyVars, daemonVars, inputQ, idle, actorHand, reason, late,
                   buffered, silent, made, senderVars>>

\* After the loop: what the chunker still held, best effort.
DrainChunk ==
    /\ actorPc = "drain" /\ actorOut # <<>>
    /\ IF OutRoom THEN Enqueue("chunk", Head(actorOut)) ELSE UNCHANGED outQ
    /\ actorOut' = Tail(actorOut)
    /\ UNCHANGED <<ptyVars, daemonVars, inputQ, idle, loopVars, buffered,
                   silent, made, senderVars>>

\* Mutant: the farewell is sent ahead of what the chunker still held.
FarewellFirst ==
    /\ actorPc = "drain"
    /\ IF OutRoom THEN Enqueue("bye", made + 1) ELSE UNCHANGED outQ
    /\ made' = made + 1
    /\ actorPc' = IF actorOut = <<>> THEN "join" ELSE "drain"
    /\ UNCHANGED <<ptyVars, daemonVars, inputQ, idle, actorHand, reason, late,
                   buffered, silent, actorOut, senderVars>>

\* The farewell, best effort as well; then chunk_tx is dropped.
Farewell ==
    /\ actorPc = "drain" /\ actorOut = <<>>
    /\ IF OutRoom THEN Enqueue("bye", made + 1) ELSE UNCHANGED outQ
    /\ made' = made + 1
    /\ actorPc' = "join"
    /\ UNCHANGED <<ptyVars, daemonVars, inputQ, idle, actorHand, reason, late,
                   buffered, silent, actorOut, senderVars>>

\* Mutant: a clone of pty.input_tx outlives the actor.
JoinKeepsInput ==
    /\ actorPc = "join" /\ senderPc = "done"
    /\ actorPc' = "reap"
    /\ UNCHANGED <<ptyVars, daemonVars, inputQ, idle, actorHand, reason, late,
                   chunkVars, outQ, senderVars>>

\* Mutant: the sender task is left to finish on its own.
JoinNobody ==
    /\ actorPc = "join"
    /\ ptyInOpen' = FALSE
    /\ actorPc' = "reap"
    /\ UNCHANGED <<writerSide, readerSide, terminal, ptyOutOpen, daemonVars,
                   inputQ, idle, actorHand, reason, late, chunkVars, outQ,
                   senderVars>>

\* sender_handle.await returns; pty.input_tx is dropped.
JoinSender ==
    /\ actorPc = "join" /\ senderPc = "done"
    /\ ptyInOpen' = FALSE
    /\ actorPc' = "reap"
    /\ UNCHANGED <<writerSide, readerSide, terminal, ptyOutOpen, daemonVars,
                   inputQ, idle, actorHand, reason, late, chunkVars, outQ,
                   senderVars>>

\* Mutant: a child that does not exit within 3 s is left alone.
ReapWithoutKill ==
    /\ actorPc = "reap"
    /\ ptyOut' = <<>>
    /\ ptyOutOpen' = FALSE
    /\ inputQ' = <<>>
    /\ actorPc' = "ended"
    /\ UNCHANGED <<writerSide, terminal, ptyInOpen, readerHand, readerDone,
                   daemonVars, idle, actorHand, reason, late, chunkVars, outQ,
                   senderVars>>

\* The child has exited within 3 s (ShellExit came first) or is killed; jobs
\* it left are not.  The actor returns and drops its receivers.
Reap ==
    /\ actorPc = "reap"
    /\ IF shell = "alive" THEN BashGone ELSE UNCHANGED <<shell, ttyIn, owed>>
    /\ ptyOut' = <<>>
    /\ ptyOutOpen' = FALSE
    /\ inputQ' = <<>>
    /\ actorPc' = "ended"
    /\ UNCHANGED <<writerSide, ttyOut, ptyInOpen, readerHand, readerDone,
                   daemonVars, idle, actorHand, reason, late, chunkVars, outQ,
                   senderVars>>

-----------------------------------------------------------------------------
(* The sender task. *)

SenderRecv ==
    /\ senderPc = "recv" /\ outQ # <<>>
    /\ senderHand' = <<Head(outQ)>>
    /\ outQ' = Tail(outQ)
    /\ senderPc' = "limited"
    /\ UNCHANGED <<ptyVars, daemonVars, inputQ, idle, loopVars, chunkVars,
                   posted>>

\* The per-peer and then the global rate limiter let the item pass.
SenderReady ==
    /\ senderPc = "limited"
    /\ senderPc' = "post"
    /\ UNCHANGED <<ptyVars, daemonVars, inputQ, idle, loopVars, chunkVars, outQ,
                   senderHand, posted>>

\* send_dm answers.  Whether it succeeded is only logged: there is no retry.
SenderPost ==
    /\ senderPc = "post"
    /\ posted' = Head(senderHand)
    /\ senderHand' = <<>>
    /\ senderPc' = "recv"
    /\ UNCHANGED <<ptyVars, daemonVars, inputQ, idle, loopVars, chunkVars, outQ>>

\* Mutant: the actor awaits the sender task before it drops chunk_tx.
SenderEndAfterActor ==
    /\ senderPc = "recv" /\ outQ = <<>>
    /\ actorPc \in {"reap", "ended"}
    /\ senderPc' = "done"
    /\ UNCHANGED <<ptyVars, daemonVars, inputQ, idle, loopVars, chunkVars, outQ,
                   senderHand, posted>>

\* recv() yields None: the queue is empty and the actor dropped chunk_tx.
SenderEnd ==
    /\ senderPc = "recv" /\ outQ = <<>>
    /\ actorPc \in {"join", "reap", "ended"}
    /\ senderPc' = "done"
    /\ UNCHANGED <<ptyVars, daemonVars, inputQ, idle, loopVars, chunkVars, outQ,
                   senderHand, posted>>

-----------------------------------------------------------------------------

sessionVars == <<daemonVars, inputQ, idle, loopVars, chunkVars, outQ,
                 senderVars>>

Environment ==
    \/ Deliver
    \/ \E why \in ShutdownReasons : Shutdown(why)
    \/ DropHandle \/ IdleElapses \/ SilenceElapses

Actor ==
    \/ SeesShutdown \/ SeesIdle \/ SeesSilence \/ PollChannels
    \/ TakeLine \/ SeesInputClosed \/ TakeOutput \/ SeesEof
    \/ Forward \/ ForwardFails
    \/ EnqueueChunk \/ EnqueueMarker
    \/ DrainChunk \/ Farewell \/ JoinSender \/ Reap

Sender == SenderRecv \/ SenderReady \/ SenderPost \/ SenderEnd

\* Everything has returned: the only state in which nothing may happen.
Finished ==
    /\ actorPc = "ended" /\ handle = "dropped" /\ writerDone /\ readerDone
    /\ UNCHANGED vars

Next ==
    \/ Environment
    \/ Actor
    \/ Sender
    \/ PtyThreads /\ UNCHANGED sessionVars
    \/ Shell /\ UNCHANGED sessionVars
    \/ Finished

Spec == Init /\ [][Next]_vars

\* Tokio polls a task that can go on, the threads run, time passes, and the
\* rate limiters let every item pass in the end.  Nothing makes the shell read
\* its input, or the bridge answer a request: send_dm has no timeout.
TaskFairness ==
    /\ WF_vars(Actor)
    /\ WF_vars(SenderRecv \/ SenderReady \/ SenderEnd)
    /\ WF_vars(PtyThreads /\ UNCHANGED sessionVars)
    /\ WF_vars(SilenceElapses)

BridgeAnswers == WF_vars(SenderPost)

\* A shell that never stops reading and printing, as long as it can, and leaves
\* no job that runs for ever.
ShellGoesOn ==
    /\ WF_vars((ShellRead \/ ShellPrint) /\ UNCHANGED sessionVars)
    /\ WF_vars(JobsEnd /\ UNCHANGED sessionVars)

FairSpec == Spec /\ TaskFairness /\ BridgeAnswers
BusyShellSpec == FairSpec /\ ShellGoesOn
SilentBridgeSpec == Spec /\ TaskFairness

-----------------------------------------------------------------------------
(* Safety. *)

\* s holds the numbers that follow a, without a gap.
IsRun(s, a) == \A i \in 1..Len(s) : s[i] = a + i

\* Lines the actor, the channels and the writer thread hold, nearest to the
\* terminal first, number on from the last one written, up to the last accepted.
LinesInFlight ==
    LET w == written + Len(writerHand)
        p == w + Len(ptyIn)
        a == p + Len(actorHand)
    IN  /\ IsRun(writerHand, written)
        /\ IsRun(ptyIn, w)
        /\ IsRun(actorHand, p)
        /\ IsRun(inputQ, a)
        /\ IF actorPc = "ended" THEN a + Len(inputQ) <= accepted
           ELSE accepted = a + Len(inputQ)

\* Every line a session accepted is typed once, in the order of arrival, or is
\* still on its way, until the terminal fails; when the actor returns, the
\* lines it has not read are lost and those it has read are still on their way.
\* The hand-overs from channel to channel neither lose nor swap a line.
NoLineLost == ~writerDone => LinesInFlight

\* Chunks leave in the order the chunker made them, whatever the queue drops:
\* posted, in the sender's hand, queued and not yet queued, each before the
\* next; and nothing is queued behind the farewell.
OutputInOrder ==
    LET upto == made - Len(actorOut)
        inHand == posted.n + 1 .. upto
    IN  /\ IsRun(actorOut, upto)
        /\ posted.n <= upto
        /\ \A i \in 1..Len(senderHand) : senderHand[i].n \in inHand
        /\ \A i \in 1..Len(outQ) :
              /\ outQ[i].n \in inHand
              /\ \A j \in 1..Len(senderHand) : senderHand[j].n < outQ[i].n
              /\ \A j \in 1..(i - 1) : outQ[j].n < outQ[i].n
        /\ posted.t = "bye" => senderHand = <<>> /\ outQ = <<>>
        /\ \A i \in 1..Len(senderHand) : senderHand[i].t = "bye" => outQ = <<>>
        /\ \A i \in 1..Len(outQ) : outQ[i].t = "bye" => i = Len(outQ)

\* The select is biased towards the shutdown, so a revoked peer gets at most
\* one more line through: the one a poll had already reached.
AtMostOneLateLine == late <= 1

\* The actor does not return before its shell is gone, everything queued has
\* been posted, and its ends of the Pty are closed.
NothingLeftBehind ==
    actorPc = "ended" =>
        /\ shell # "alive"
        /\ senderPc = "done" /\ outQ = <<>> /\ senderHand = <<>>
        /\ ~ptyInOpen /\ ~ptyOutOpen

\* The session as its user sees it: the abstract ShellSession.
phase == CASE actorPc = "ended" -> "closed"
           [] actorPc \in {"drain", "join", "reap"} -> "closing"
           [] OTHER -> "open"

Abstract == INSTANCE ShellSession
ImplementsShellSession == Abstract!Spec

-----------------------------------------------------------------------------
(* Liveness. *)

\* The actor waits for ever for room towards a terminal nobody reads: the one
\* await of the loop that neither the shutdown nor a timer interrupts.
StuckForwarding == <>[](actorPc = "forward")

\* The sender task waits for ever for the answer to a request that has no
\* timeout (client.rs:105-108), and with it, at the end, the actor that joins it.
StuckPosting == <>[](senderPc = "post")

\* A session told to shut down ends, and its shell with it, unless the actor is
\* stuck forwarding a line or the sender task posting an item (peer.rs:168, 192,
\* 221): no third place can hold it.
ShutdownEndsUnlessStuck ==
    StuckForwarding \/ StuckPosting \/ (shutdown # "none" ~> actorPc = "ended")

\* A prompt has no newline: the silence window, not a newline, must flush it
\* (peer.rs:182), once the shell pauses, whether the bridge answers or not.
PartialOutputIsFlushed == StuckForwarding \/ (buffered ~> ~buffered)

\* A session with no activity ends, and its shell with it (peer.rs:171), but for
\* the same two places.
IdleSessionEnds ==
    StuckForwarding \/ StuckPosting \/ (<>[]idle => <>(actorPc = "ended"))

\* The blocking threads of a session that has ended return once nobody has the
\* terminal open any more: the end of input reaches the writer, the end of the
\* terminal or of the receiver the reader (pty.rs:67-99).  They are never
\* joined, and each holds one of the runtime's blocking threads.
ThreadsReturn ==
    actorPc = "ended" /\ shell = "exited" ~> writerDone /\ readerDone

-----------------------------------------------------------------------------
(* What the documents say and the code does not do. *)

\* README.md:19-20: on a reload, a removed peer's "PTY is killed".
ShutdownEndsSession == shutdown # "none" ~> actorPc = "ended"

\* README.md:127: "Closing the session is a normal `exit`."
ExitClosesSession == shell # "alive" ~> actorPc = "ended"

\* README.md:19-20: "Removed peers get a polite `session closed: revoked` DM".
RevokedPeerGetsFarewell ==
    actorPc = "ended" /\ reason = "revoked" => posted.t = "bye"

\* peer.rs:275: "Drain + replace with marker": whoever loses a chunk to the
\* backlog is told so.
DropIsMarked ==
    [][actorPc = "marker" /\ actorPc' = "enqueue" => Len(outQ') > Len(outQ)]_vars
=============================================================================
