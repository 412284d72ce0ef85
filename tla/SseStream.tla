------------------------------ MODULE SseStream ------------------------------
(***************************************************************************)
(* The SSE task (src/src/api/sse.rs) between the bridge and the main task. *)
(*                                                                         *)
(*   bridge --wire--> SSE task --queue--> main task                        *)
(*                                                                         *)
(* The task connects, reads frames, and hands on what it makes of each; it *)
(* leaves a stream that ended, failed or fell silent, sleeps its backoff   *)
(* and connects again.  Frames are numbered in the order the bridge has    *)
(* something to say: what it says while there is no stream is lost.        *)
(***************************************************************************)
EXTENDS Integers, Sequences

CONSTANTS
    Frames,         \* the frames the bridge sends, see FrameAssumption
    EventDepth,     \* capacity of the channel to the main task (256 in the code)
    WireDepth,      \* bound: frames on their way to the task
    MaxFrames,      \* bound: frames the bridge has to send
    MaxFails        \* bound: how far sleeps in a row are counted

Forms == {"json", "malformed", "malformed, cut", "empty"}
Meanings == {"inbound", "echo", "channel", "foreign", "none"}

\* A frame by what parse_event looks at: type and direction; whether the rest
\* fits DmEvent, and has a text and a key; "cut" is malformed JSON with byte 200
\* inside a character.  The bridge marks an echo in its type or its direction
\* (sse.rs:226-231); an inbound DM is marked as such and complete.  A channel
\* message looks like one but for its channel id, which the code does not read; a
\* foreign frame is a DM of a type the code does not know.  Of these, and of
\* whatever else the bridge sends, nothing is assumed.
FrameState == [meant : Meanings, form : Forms,
               type : {"dm", "sent_dm", "", "status", "dm.recv"},
               direction : {"in", "out", ""}, fits : BOOLEAN, whole : BOOLEAN]

ASSUME FrameAssumption ==
    /\ Frames \subseteq FrameState
    /\ \A f \in Frames :
        /\ f.meant = "echo" => f.direction = "out" \/ f.type = "sent_dm"
        /\ f.meant = "inbound" =>
              /\ f.form = "json" /\ f.type \in {"dm", ""} /\ f.direction = "in"
              /\ f.fits /\ f.whole

ASSUME BoundAssumption ==
    /\ EventDepth \in Nat \ {0} /\ WireDepth \in Nat \ {0}
    /\ MaxFrames \in Nat /\ MaxFails \in Nat \ 0..6

VARIABLES
    pc,         \* where the SSE task is
    conn,       \* the stream: none, up, dead (half open), ended or broken
    wire,       \* frames on their way to the task
    fresh,      \* nothing was sent on this stream yet
    hand,       \* the event the task is sending on
    queue,      \* channel of events to the main task
    backoff,    \* seconds the next sleep takes
    fails,      \* sleeps in a row without a connection, counted to MaxFails
    main,       \* main task: running, told (it has sent the shutdown), returned
    last,       \* the last event the main task has taken
    said        \* frames the bridge had to send so far

link == <<conn, wire, fresh>>
delay == <<backoff, fails>>
mainSide == <<main, last>>
vars == <<pc, link, hand, queue, delay, mainSide, said>>

Pcs == {"check", "connecting", "sleeping", "reading", "sending", "stopped",
        "panicked"}
Gone == {"stopped", "panicked"}
Kinds == {"dm", "echo", "other", "comment"}
BackoffCap == 60

Event == [n : Nat, first : BOOLEAN, kind : Kinds, meant : Meanings]
Nothing == [n |-> 0, first |-> TRUE, kind |-> "comment", meant |-> "none"]

TypeOK ==
    /\ pc \in Pcs
    /\ conn \in {"none", "up", "dead", "ended", "broken"}
    /\ wire \in Seq([n : Nat, first : BOOLEAN, frame : Frames])
    /\ Len(wire) <= WireDepth
    /\ fresh \in BOOLEAN
    /\ hand \in Seq(Event) /\ Len(hand) = (IF pc = "sending" THEN 1 ELSE 0)
    /\ queue \in Seq(Event) /\ Len(queue) <= EventDepth
    /\ backoff \in 1..BackoffCap
    /\ fails \in 0..MaxFails
    /\ main \in {"running", "told", "returned"}
    /\ last \in Event
    /\ said \in 0..MaxFrames
    /\ pc \in {"reading", "sending"} <=> conn # "none"

Init ==
    /\ pc = "check"
    /\ conn = "none" /\ wire = <<>> /\ fresh = TRUE
    /\ hand = <<>> /\ queue = <<>>
    /\ backoff = 1 /\ fails = 0
    /\ main = "running" /\ last = Nothing
    /\ said = 0

-----------------------------------------------------------------------------
(* parse_event. *)

\* Mutant: whatever has a peer and a text is a DM.
ParseByShape(f) ==
    IF f.form = "json" /\ f.fits /\ f.whole THEN "dm" ELSE "other"

\* What is outbound by its direction or its type is never a DM.
ParseEvent(f) ==
    LET dm == f.form = "json" /\ f.fits
        outbound == f.direction = "out" \/ f.type = "sent_dm"
        inbound == f.type \in {"dm", ""} /\ f.direction = "in"
    IN  IF dm /\ outbound THEN "echo"
        ELSE IF dm /\ ~outbound /\ inbound /\ f.whole THEN "dm"
        ELSE "other"

\* A frame without data is handed on as a comment.
KindOf(f) == IF f.form = "empty" THEN "comment" ELSE ParseEvent(f)

-----------------------------------------------------------------------------
(* The bridge and the network. *)

BridgeSays(f) ==
    /\ pc \notin Gone /\ said < MaxFrames
    /\ conn = "up" => Len(wire) < WireDepth
    /\ said' = said + 1
    /\ IF conn = "up"
       THEN /\ wire' = Append(wire, [n |-> said + 1, first |-> fresh, frame |-> f])
            /\ fresh' = FALSE
       ELSE UNCHANGED <<wire, fresh>>
    /\ UNCHANGED <<pc, conn, hand, queue, delay, mainSide>>

\* The bridge closes the stream, behind what it has sent.
StreamEnds ==
    /\ conn = "up"
    /\ conn' = "ended"
    /\ UNCHANGED <<pc, wire, fresh, hand, queue, delay, mainSide, said>>

\* The bridge is gone and nobody says so: a half-open connection.
LinkDies ==
    /\ conn = "up"
    /\ conn' = "dead"
    /\ UNCHANGED <<pc, wire, fresh, hand, queue, delay, mainSide, said>>

\* The connection is reset, or a chunk is garbled: the rest of the wire is lost.
LinkBreaks ==
    /\ conn \in {"up", "dead"}
    /\ conn' = "broken"
    /\ \E k \in 0..Len(wire) : wire' = SubSeq(wire, 1, k)
    /\ UNCHANGED <<pc, fresh, hand, queue, delay, mainSide, said>>

-----------------------------------------------------------------------------
(* The SSE task. *)

Told == main # "running"

Rest ==
    /\ pc' = "sleeping"
    /\ fails' = IF fails < MaxFails THEN fails + 1 ELSE fails

\* The response is dropped, and what it still held.
CloseStream == conn' = "none" /\ wire' = <<>> /\ fresh' = TRUE

\* The top of the loop: *shutdown_rx.borrow().
Check ==
    /\ pc = "check"
    /\ pc' = IF Told THEN "stopped" ELSE "connecting"
    /\ UNCHANGED <<link, hand, queue, delay, mainSide, said>>

\* Mutant: the backoff is not reset.
ConnectedTired ==
    /\ pc = "connecting"
    /\ pc' = "reading"
    /\ conn' = "up"
    /\ fails' = 0
    /\ UNCHANGED <<wire, fresh, hand, queue, backoff, mainSide, said>>

Connected ==
    /\ pc = "connecting"
    /\ pc' = "reading"
    /\ conn' = "up"
    /\ backoff' = 1 /\ fails' = 0
    /\ UNCHANGED <<wire, fresh, hand, queue, mainSide, said>>

\* Mutant: a status that is not 2xx ends the task.
ConnectFailsForGood ==
    /\ pc = "connecting"
    /\ pc' = "stopped"
    /\ UNCHANGED <<link, hand, queue, delay, mainSide, said>>

\* The GET fails, or its status is not 2xx.  It sees no shutdown.
ConnectFails ==
    /\ pc = "connecting"
    /\ Rest
    /\ UNCHANGED <<link, hand, queue, backoff, mainSide, said>>

\* sleep_with_shutdown returns true; the backoff doubles, up to its cap.
SleepOver ==
    /\ pc = "sleeping"
    /\ pc' = "check"
    /\ backoff' = IF backoff * 2 < BackoffCap THEN backoff * 2 ELSE BackoffCap
    /\ UNCHANGED <<link, hand, queue, fails, mainSide, said>>

SleepSeesShutdown ==
    /\ pc = "sleeping" /\ Told
    /\ pc' = "stopped"
    /\ UNCHANGED <<link, hand, queue, delay, mainSide, said>>

\* Mutant: a change that is seen is not acted on.
ReadsOn ==
    /\ pc = "reading" /\ Told
    /\ UNCHANGED vars

\* The select is biased: the shutdown comes before any frame.
ReadSeesShutdown ==
    /\ pc = "reading" /\ Told
    /\ pc' = "stopped"
    /\ CloseStream
    /\ UNCHANGED <<hand, queue, delay, mainSide, said>>

Reads == pc = "reading" /\ ~Told

\* A frame is parsed and held until there is room for it.
NextFrame ==
    /\ Reads /\ wire # <<>>
    /\ LET f == Head(wire) IN
       /\ f.frame.form # "malformed, cut"
       /\ hand' = <<[n |-> f.n, first |-> f.first, kind |-> KindOf(f.frame),
                     meant |-> f.frame.meant]>>
    /\ wire' = Tail(wire)
    /\ pc' = "sending"
    /\ UNCHANGED <<conn, fresh, queue, delay, mainSide, said>>

\* debug! takes the first 200 bytes of what is not JSON: the slice panics when
\* they end inside a character.  The task is gone, its sender and stream too.
FramePanics ==
    /\ Reads /\ wire # <<>>
    /\ Head(wire).frame.form = "malformed, cut"
    /\ pc' = "panicked"
    /\ CloseStream
    /\ UNCHANGED <<hand, queue, delay, mainSide, said>>

\* Mutant: no timeout around the read.
NoWatchdog == FALSE

\* Nothing came for 60 s.
WatchdogTrips ==
    /\ Reads /\ wire = <<>> /\ conn \in {"up", "dead"}
    /\ Rest /\ CloseStream
    /\ UNCHANGED <<hand, queue, backoff, mainSide, said>>

\* The end of the stream or a frame error.
SeesEnd ==
    /\ Reads /\ wire = <<>> /\ conn \in {"ended", "broken"}
    /\ Rest /\ CloseStream
    /\ UNCHANGED <<hand, queue, backoff, mainSide, said>>

\* Mutant: a channel without a bound.
SendUnbounded ==
    /\ pc = "sending" /\ main # "returned"
    /\ queue' = Append(queue, Head(hand))
    /\ hand' = <<>>
    /\ pc' = "reading"
    /\ UNCHANGED <<link, delay, mainSide, said>>

\* Mutant: try_send: a full channel loses the event.
SendOrDrop ==
    /\ pc = "sending" /\ main # "returned"
    /\ queue' = IF Len(queue) < EventDepth THEN Append(queue, Head(hand))
                ELSE queue
    /\ hand' = <<>>
    /\ pc' = "reading"
    /\ UNCHANGED <<link, delay, mainSide, said>>

\* tx.send().await waits for room, where no shutdown is seen.
Send ==
    /\ pc = "sending" /\ main # "returned" /\ Len(queue) < EventDepth
    /\ queue' = Append(queue, Head(hand))
    /\ hand' = <<>>
    /\ pc' = "reading"
    /\ UNCHANGED <<link, delay, mainSide, said>>

\* ... and fails once the main task has dropped its receiver.  For a comment
\* that goes unnoticed.
SendFails ==
    /\ pc = "sending" /\ main = "returned"
    /\ hand' = <<>>
    /\ IF Head(hand).kind = "comment"
       THEN pc' = "reading" /\ UNCHANGED link
       ELSE pc' = "stopped" /\ CloseStream
    /\ UNCHANGED <<queue, delay, mainSide, said>>

Task ==
    \/ Check \/ SleepOver \/ SleepSeesShutdown
    \/ ReadSeesShutdown \/ NextFrame \/ FramePanics \/ WatchdogTrips \/ SeesEnd
    \/ Send \/ SendFails

-----------------------------------------------------------------------------
(* The main task, as far as the SSE task sees it. *)

MainTakes ==
    /\ main = "running" /\ queue # <<>>
    /\ last' = Head(queue)
    /\ queue' = Tail(queue)
    /\ UNCHANGED <<pc, link, hand, delay, main, said>>

\* A signal ends the main loop; or recv() yields None: the loop ends as well.
MainStops ==
    /\ main = "running"
    /\ main' = "told"
    /\ UNCHANGED <<pc, link, hand, queue, delay, last, said>>

\* run returns, and drops the receiver: the task has ended, or 10 s are over.
MainReturns ==
    /\ main = "told"
    /\ main' = "returned"
    /\ queue' = <<>>
    /\ UNCHANGED <<pc, link, hand, delay, last, said>>

MainSeesEnd == MainStops /\ pc \in Gone /\ queue = <<>>

-----------------------------------------------------------------------------

Network == (\E f \in Frames : BridgeSays(f)) \/ StreamEnds \/ LinkDies \/ LinkBreaks

Finished == pc \in Gone /\ main = "returned" /\ UNCHANGED vars

Next ==
    \/ Network
    \/ Connected \/ ConnectFails
    \/ Task
    \/ MainTakes \/ MainStops \/ MainReturns
    \/ Finished

Spec == Init /\ [][Next]_vars

\* Tasks run and time passes.  A GET need not be answered: only the handshake
\* has a timeout (client.rs:112).
FairSpec ==
    /\ Spec
    /\ WF_vars(Task)
    /\ WF_vars(MainTakes) /\ WF_vars(MainSeesEnd) /\ WF_vars(MainReturns)

-----------------------------------------------------------------------------
(* Safety. *)

\* a comes before b, and next to it unless b is the first of its stream.
Follows(a, b) == IF b.first THEN a.n < b.n ELSE b.n = a.n + 1

\* The main task gets what the bridge says on one stream in order and without a
\* gap, however long it takes to handle an event: a full channel, the hand and
\* the wire hold back what follows.  Gaps are where a stream was left.
DeliveredInOrder ==
    LET all == <<last>> \o queue \o hand \o wire IN
    main # "returned" =>
        \A i \in 2..Len(all) : Follows(all[i - 1], all[i])

\* An inbound DM arrives as one, and an echo of what a session has sent, of
\* whatever shape, never does: it would reach the shell as a line, whose answer
\* has an echo again (sse.rs:243-261).  Channel messages are not kept out, see
\* OnlyDirectMessages.
ParsedAsMeant ==
    \A i \in 1..Len(queue) :
        /\ queue[i].meant = "inbound" => queue[i].kind = "dm"
        /\ queue[i].meant = "echo" => queue[i].kind # "dm"

SleepOf(n) == IF n > 6 THEN 60 ELSE <<1, 2, 4, 8, 16, 32>>[n]

\* The sleeps of one outage take 1, 2, 4, 8, 16, 32 and then 60 seconds, and 1
\* again in the next one.
BackoffDoubles == pc = "sleeping" => backoff = SleepOf(fails)

-----------------------------------------------------------------------------
(* Liveness. *)

\* A half-open connection is given up (sse.rs:147-161).
DeadLinkIsLeft == conn = "dead" ~> conn # "dead"

\* The task never gives the bridge up: whatever happened to the stream or to an
\* attempt, it does not end untold, and reads or asks again (sse.rs:114-202).
KeepsAsking ==
    /\ [](pc = "stopped" => Told)
    /\ []<>(pc \in {"connecting", "reading", "panicked"} \/ Told)

\* The task ends after the shutdown, even when it waits for room in a channel
\* nobody reads any more (sse.rs:181-187), unless a GET is never answered.
ShutdownIsSeen == <>[](pc = "connecting") \/ (Told ~> pc \in Gone)

-----------------------------------------------------------------------------
(* What the documents say and the code does not do. *)

\* sse.rs:5-8: "We parse leniently: 1. Dispatch by SSE `event:` field if present.
\* 2. Fall back to a structural probe: any object with `peer_pubkey_hex` + `text`
\* is a DM-ish.  3. Unknown -> `SseEvent::Other`, optionally logged to a raw-log
\* file."  No frame is left over that ends the task.
NoFrameEndsTheTask == pc \in Gone => Told

\* sse.rs:227-231 tells inbound DMs ("type="dm" direction="in"") from channel
\* messages ("type="dm"/...  direction="in" with channel_id set"); the code does
\* not look at the channel id.
OnlyDirectMessages ==
    \A i \in 1..Len(queue) : queue[i].kind = "dm" => queue[i].meant # "channel"

\* README.md:112-115: what is "not yet mapped (e.g. `dm.recv`)" can rely on the
\* structural fallback: "any object with `peer_pubkey_hex` + `text` + `direction
\* == "in"` is treated as inbound DM".  The code wants the type "dm" or none.
ShapeIsEnough ==
    \A i \in 1..Len(queue) : queue[i].meant = "foreign" => queue[i].kind = "dm"
=============================================================================
