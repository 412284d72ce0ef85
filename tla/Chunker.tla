------------------------------- MODULE Chunker -------------------------------
(***************************************************************************)
(* The chunker of a session (src/src/chunker.rs, struct Chunker) under the *)
(* actor that uses it (src/src/peer.rs, the select loop): reads of the pty *)
(* arrive cut anywhere, also inside a character; the actor wakes at the    *)
(* chunker's deadline, and takes the rest at the end of the session.       *)
(***************************************************************************)
EXTENDS ChunkText

CONSTANTS
    Silence,        \* opts.flush_silence, in ticks
    MaxBytes        \* bound: bytes the chunker holds at once

ASSUME SilenceAssumption == Silence \in Nat \ {0} /\ MaxBytes \in Nat

VARIABLES
    buf,        \* bytes that wait
    lastPush,   \* ticks since the last push, counted to Silence + 1, or Never
    given,      \* the bytes the last call was given
    flushed,    \* the bytes it flushed
    chunks,     \* ... and the chunks it returned for them
    inside,     \* the last byte pushed was not the end of its character
    cut,        \* a silence has cut a character that is not over
    wakes,      \* how often the silence arm has run since the last read
    state       \* the actor's: loop, ended, or panicked

\* cut and wakes are an observer's: no step looks at them.
vars == <<buf, lastPush, given, flushed, chunks, inside, cut, wakes, state>>

Never == -1
NumberedChunk == [i : Nat, of : Nat, body : Seq(Chars)]

TypeOK ==
    /\ buf \in Seq(Bytes) /\ Len(buf) <= MaxBytes
    /\ lastPush \in {Never} \cup 0..(Silence + 1)
    /\ given \in Seq(Bytes) /\ flushed \in Seq(Bytes)
    /\ chunks \in Seq(NumberedChunk)
    /\ inside \in Opening \cup {""}
    /\ cut \in BOOLEAN
    /\ wakes \in Nat
    /\ state \in {"loop", "ended", "panicked"}
    /\ buf # <<>> => lastPush # Never

Init ==
    /\ buf = <<>> /\ lastPush = Never
    /\ given = <<>> /\ flushed = <<>> /\ chunks = <<>>
    /\ inside = "" /\ cut = FALSE /\ wakes = 0
    /\ state = "loop"

\* The shell's output is UTF-8: whoever opens a character goes on with its rest.
Follow(open) ==
    IF open # "" THEN {RestOf(open)} ELSE Bytes \ {"E2", "L2", "W2"}

Open(b) == IF b \in Opening THEN b ELSE ""

OpenAfter(bytes) == Open(Last(bytes))

\* The reads of n bytes that may follow.
Reads == [n \in 0..MaxBytes |-> [open \in Opening \cup {""} |->
    {r \in [1..n -> Bytes] :
        \A i \in 1..n : r[i] \in Follow(IF i = 1 THEN open ELSE Open(r[i - 1]))}]]

-----------------------------------------------------------------------------
(* Struct Chunker. *)

\* What is flushed becomes chunks, unless the split panics: then the actor's
\* task is gone, with all it held.
Flush(bytes) ==
    /\ flushed' = bytes
    /\ IF Panics(bytes)
       THEN chunks' = <<>> /\ state' = "panicked"
       ELSE chunks' = ChunksFromText(bytes) /\ UNCHANGED state

NoFlush == flushed' = <<>> /\ chunks' = <<>> /\ UNCHANGED state

\* Mutant: a newline flushes all there is.
CommittedAll(b) == IF Contains(b, "\n") THEN Len(b) ELSE 0

\* flush_committed: up to the last newline.
Committed(b) == LastOf(b, {"\n"})

\* Mutant: the whole buffer is cleared.
PushClears(read) ==
    LET b == buf \o read
        k == Committed(b)
    IN  /\ given' = read /\ lastPush' = 0
        /\ IF k > 0
           THEN Flush(SubSeq(b, 1, k)) /\ buf' = <<>>
           ELSE NoFlush /\ buf' = b
        /\ inside' = OpenAfter(read)
        /\ UNCHANGED cut

Push(read) ==
    LET b == buf \o read
        k == Committed(b)
    IN  /\ given' = read /\ lastPush' = 0
        /\ IF k > 0
           THEN Flush(SubSeq(b, 1, k)) /\ buf' = From(b, k + 1)
           ELSE NoFlush /\ buf' = b
        /\ inside' = OpenAfter(read)
        /\ UNCHANGED cut

\* Mutant: the buffer is copied and not taken.
DrainCopies == Flush(buf) /\ UNCHANGED buf /\ lastPush' = Never

DrainAll == Flush(buf) /\ buf' = <<>> /\ lastPush' = Never

\* maybe_flush's condition.
SilenceElapsed == buf # <<>> /\ lastPush >= Silence

\* Mutant: an empty buffer has a deadline, too.
StaleDeadline == lastPush # Never /\ lastPush >= Silence

\* next_deadline is some and has passed.
DeadlinePassed == buf # <<>> /\ lastPush # Never /\ lastPush >= Silence

-----------------------------------------------------------------------------
(* The actor. *)

\* Chunks are enqueued before the next call.
Free == state = "loop" /\ given = <<>> /\ flushed = <<>>

Enqueued ==
    /\ state = "loop" /\ ~Free
    /\ given' = <<>> /\ flushed' = <<>> /\ chunks' = <<>>
    /\ UNCHANGED <<buf, lastPush, inside, cut, wakes, state>>

Output ==
    /\ Free
    /\ \E n \in 1..(MaxBytes - Len(buf)) :
          \E read \in Reads[n][inside] : Push(read)
    /\ wakes' = 0

\* The silence arm: maybe_flush at the deadline or later.  (Without a deadline it
\* runs once an hour, and flushes nothing.)
Wake ==
    /\ Free /\ DeadlinePassed
    /\ IF SilenceElapsed THEN DrainAll ELSE NoFlush /\ UNCHANGED <<buf, lastPush>>
    /\ cut' = (cut \/ inside # "")
    /\ wakes' = wakes + 1
    /\ UNCHANGED <<given, inside>>

\* The loop is left: flush_force.
End ==
    /\ Free
    /\ flushed' = buf
    /\ buf' = <<>> /\ lastPush' = Never
    /\ IF Panics(buf) THEN chunks' = <<>> /\ state' = "panicked"
       ELSE chunks' = ChunksFromText(buf) /\ state' = "ended"
    /\ cut' = (cut \/ inside # "")
    /\ UNCHANGED <<given, inside, wakes>>

Tick ==
    /\ Free /\ lastPush # Never /\ lastPush <= Silence
    /\ lastPush' = lastPush + 1
    /\ UNCHANGED <<buf, given, flushed, chunks, inside, cut, wakes, state>>

Finished == state # "loop" /\ UNCHANGED vars

Next == Output \/ Wake \/ End \/ Tick \/ Enqueued \/ Finished

Spec == Init /\ [][Next]_vars

-----------------------------------------------------------------------------
(* Properties. *)

\* No byte is lost or doubled between the calls: what one flushes and keeps is
\* what was held and what it was given.
NothingLost == [][buf \o given' = flushed' \o buf']_vars

\* The loop does not spin: from one read to the next the silence arm runs at
\* most once, neither on a deadline that an emptied buffer has left behind nor on
\* one at which maybe_flush has nothing to do yet (chunker.rs:64-73, 80-90).
OneWakePerRead == wakes <= 1

IsMarked == \E i \in 1..Len(chunks) :
                Contains(chunks[i].body, "[...]") \/ chunks[i].body = Marker

Sent ==
    Without(FlattenSeq([i \in 1..Len(chunks) |-> chunks[i].body]),
            WhiteSpace \cup {"[...]", "truncated"})

\* What one can see of a flush arrives in order and without a gap, as far as
\* the line cap and the burst cap allow, and where they cut it off, a marker
\* says so.
ContentKept ==
    state # "panicked" =>
        LET visible == Visible(Text(flushed)) IN
        /\ IsPrefix(Sent, visible)
        /\ Sent = visible \/ IsMarked

Size(chunk) ==
    (IF chunk.body = Marker THEN MarkerLength ELSE Len(chunk.body))
        + (IF chunk.of > 0 THEN PrefixBudget ELSE 0)

Least(chunk) ==
    (IF chunk.body = Marker THEN MarkerLength ELSE LeastChars)
        + (IF NumberChunks THEN PrefixBudget ELSE 0)

\* A chunk with its number stays within max_chars, if max_chars leaves room for
\* the number and the least a chunk holds, or the marker if it is the marker.
ChunksFit ==
    \A i \in 1..Len(chunks) :
        MaxChars >= Least(chunks[i]) => Size(chunks[i]) <= MaxChars

\* However the pty cuts its reads, no character is broken, and no escape
\* sequence read as text, unless a silence fell into the middle of it.
ReadsDoNotBreak ==
    ~cut => \A c \in {"?", "m"} : ~Contains(Text(flushed), c)

-----------------------------------------------------------------------------
(* What the documents say and the code does not do. *)

\* chunker.rs:235: "Split text into UTF-8-safe slices".
SplitIsUtf8Safe == state # "panicked"
=============================================================================
