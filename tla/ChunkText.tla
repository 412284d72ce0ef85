------------------------------ MODULE ChunkText ------------------------------
(***************************************************************************)
(* What the chunker makes of the bytes of one flush                        *)
(* (src/src/chunker.rs, normalize_text and chunks_from_text).              *)
(*                                                                         *)
(* Bytes: "a", " ", "\n", "\r"; the two halves of an escape sequence E, of *)
(* a letter L and of a white space character W (U+00A0) that take more     *)
(* than one byte.  Characters: "a", " ", "\n", "L", "W", and "?" for what  *)
(* is not UTF-8.  All lengths are scaled down: they are constants.         *)
(***************************************************************************)
EXTENDS Integers, Sequences, SequencesExt

CONSTANTS
    MaxLines,       \* MAX_LINES_PER_FLUSH (10 in the code)
    MaxChars,       \* opts.max_chars
    PrefixBudget,   \* what "[i/N] " may take (10 in the code)
    LeastChars,     \* the least a chunk may hold (20 in the code)
    BurstCap,       \* opts.burst_chunk_cap
    MarkerLength,   \* what the burst cap's marker takes (40 or so in the code)
    NumberChunks    \* opts.number_chunks

ASSUME ChunkAssumption ==
    /\ {MaxLines, MaxChars, LeastChars} \subseteq Nat \ {0}
    /\ {PrefixBudget, BurstCap, MarkerLength} \subseteq Nat
    /\ NumberChunks \in BOOLEAN

Bytes == {"a", " ", "\n", "\r", "E1", "E2", "L1", "L2", "W1", "W2"}
Chars == {"a", "m", " ", "\n", "L", "W", "?", "[...]", "truncated"}
WhiteSpace == {" ", "\n", "W"}
Opening == {"E1", "L1", "W1"}
RestOf(b) == CASE b = "E1" -> "E2" [] b = "L1" -> "L2" [] b = "W1" -> "W2"

After(s, i) == IF i < Len(s) THEN s[i + 1] ELSE ""
Before(s, i) == IF i > 1 THEN s[i - 1] ELSE ""
Blank(s) == \A i \in 1..Len(s) : s[i] \in WhiteSpace
From(s, i) == SubSeq(s, i, Len(s))

\* What is left of s without the members of D, and the last place of one of D
\* in s, 0 if there is none.
Without(s, D) ==
    FlattenSeq([i \in 1..Len(s) |-> IF s[i] \in D THEN <<>> ELSE <<s[i]>>])
LastOf(s, D) == SelectLastInSeq(s, LAMBDA c : c \in D)

Visible(s) == Without(s, WhiteSpace)

-----------------------------------------------------------------------------
(* Bytes to text. *)

\* strip_ansi_escapes::strip (external): escape sequences go, also one that has
\* no end yet; the end of one that began in an earlier flush is text.
Strip(bytes) ==
    FlattenSeq([i \in 1..Len(bytes) |->
        IF bytes[i] = "E1" \/ (bytes[i] = "E2" /\ Before(bytes, i) = "E1")
        THEN <<>> ELSE <<bytes[i]>>])

\* normalize_text: "\r\n" and a "\r" of its own become "\n".
Normalize(bytes) ==
    LET s == Strip(bytes) IN
    FlattenSeq([i \in 1..Len(s) |->
        IF s[i] # "\r" THEN <<s[i]>>
        ELSE IF After(s, i) = "\n" THEN <<>> ELSE <<"\n">>])

\* from_utf8_lossy, with "?" for the replacement character.
Decode(bytes) ==
    FlattenSeq([i \in 1..Len(bytes) |->
        CASE bytes[i] \in {"L1", "W1"} ->
                IF After(bytes, i) # RestOf(bytes[i]) THEN <<"?">>
                ELSE IF bytes[i] = "L1" THEN <<"L">> ELSE <<"W">>
          [] bytes[i] = "L2" -> IF Before(bytes, i) = "L1" THEN <<>> ELSE <<"?">>
          [] bytes[i] = "W2" -> IF Before(bytes, i) = "W1" THEN <<>> ELSE <<"?">>
          [] bytes[i] = "E2" -> <<"m">>
          [] OTHER -> <<bytes[i]>>])

Text(bytes) == Decode(Normalize(bytes))

-----------------------------------------------------------------------------
(* Text to chunks. *)

\* split_inclusive('\n'): the line character i is on, its newline included.
LineOf(text, i) == 1 + Cardinality({j \in 1..(i - 1) : text[j] = "\n"})

LineCount(text) == IF text = <<>> THEN 0 ELSE LineOf(text, Len(text))

BlankLine(text, n) ==
    \A i \in 1..Len(text) : LineOf(text, i) = n => text[i] \in WhiteSpace

\* collapse_blank_lines: no more than two blank lines in a row.
CollapseBlankLines(text) ==
    LET third(n) == n > 2 /\ \A m \in (n - 2)..n : BlankLine(text, m)
    IN  FlattenSeq([i \in 1..Len(text) |->
            IF third(LineOf(text, i)) THEN <<>> ELSE <<text[i]>>])

\* The characters of the first MaxLines lines.
FirstLines(text) ==
    SubSeq(text, 1,
           Cardinality({i \in 1..Len(text) : LineOf(text, i) <= MaxLines}))

\* Mutant: lines are cut off and nothing says so.
CapLinesSilently(text) == FirstLines(text)

\* cap_lines.  "[...]" starts a line of its own and is never cut: one symbol.
CapLines(text) ==
    IF LineCount(text) <= MaxLines THEN text
    ELSE FirstLines(text) \o <<"[...]", "\n">>

\* Mutant: no room is kept for the prefix.
InnerMaxWithoutPrefix == IF MaxChars < LeastChars THEN LeastChars ELSE MaxChars

\* What of max_chars is left for the text of a chunk.
InnerMax ==
    LET room == MaxChars - (IF NumberChunks THEN PrefixBudget ELSE 0)
    IN  IF room < LeastChars THEN LeastChars ELSE room

\* trim_end_matches('\n').
TrimEnd(s) == SubSeq(s, 1, LastOf(s, Chars \ {"\n"}))

\* trim_start_matches of spaces: where the text goes on from i.
TrimStart(text, i) ==
    Min({j \in i..(Len(text) + 1) : j <= Len(text) => text[j] # " "})

\* Where a text longer than a chunk is cut: behind the last newline in the
\* window, else behind the last white space, else at its end.
BreakAt(window) ==
    LET nl == LastOf(window, {"\n"})
        ws == LastOf(window, WhiteSpace)
    IN  IF nl > 0 THEN nl ELSE IF ws > 0 THEN ws ELSE Len(window)

\* "Behind" is one byte behind the first of the character (chunker.rs:264):
\* split_at panics in the middle of a wide one.
CutInside(window) == window[BreakAt(window)] = "W"

Torn == <<"torn">>

\* split_into_char_chunks; the last chunk is Torn if it panics.
Split(text) ==
    LET from[i \in 1..(Len(text) + 1)] ==
            IF i > Len(text) THEN <<>>
            ELSE IF Len(text) < i + InnerMax THEN <<TrimEnd(From(text, i))>>
            ELSE LET window == SubSeq(text, i, i + InnerMax - 1)
                     k == i + BreakAt(window)
                 IN  IF CutInside(window) THEN <<Torn>>
                     ELSE <<TrimEnd(SubSeq(text, i, k - 1))>>
                              \o from[TrimStart(text, k)]
    IN  from[1]

Marker == <<"truncated">>

\* "[i/N] " in front of a body, if there are several; 0 of 0 is no number.
Numbered(i, n, body) ==
    IF NumberChunks /\ n > 1 THEN [i |-> i, of |-> n, body |-> body]
    ELSE [i |-> 0, of |-> 0, body |-> body]

\* The burst cap, the bodies it leaves, each with its number, and its marker,
\* which is the last of them.
Chunks(bodies) ==
    LET capped == Len(bodies) > BurstCap
        kept == IF capped THEN SubSeq(bodies, 1, BurstCap) ELSE bodies
        n == Len(kept) + (IF capped THEN 1 ELSE 0)
        out == [i \in 1..Len(kept) |-> Numbered(i, n, kept[i])]
    IN  IF capped THEN Append(out, Numbered(n, n, Marker)) ELSE out

Bodies(text) == Split(CapLines(CollapseBlankLines(text)))

Panics(bytes) ==
    LET text == Text(bytes) IN
    ~Blank(text) /\ LET bodies == Bodies(text) IN Last(bodies) = Torn

\* retain: no blank chunks.
NonBlank(bodies) ==
    FlattenSeq([i \in 1..Len(bodies) |->
                   IF Blank(bodies[i]) THEN <<>> ELSE <<bodies[i]>>])

\* chunks_from_text: nothing for blank text.
ChunksFromText(bytes) ==
    LET text == Text(bytes) IN
    IF Blank(text) THEN <<>> ELSE Chunks(NonBlank(Bodies(text)))
=============================================================================
