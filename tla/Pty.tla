-------------------------------- MODULE Pty --------------------------------
(***************************************************************************)
(* One bash on a pseudo terminal and the two blocking threads that bridge  *)
(* it to the peer actor (src/src/pty.rs).                                  *)
(*                                                                         *)
(*   actor --ptyIn--> writer thread --ttyIn--> bash                        *)
(*   actor <--ptyOut-- reader thread <--ttyOut-- bash                      *)
(*                                                                         *)
(* Every arrow is bounded: the two mpsc channels by their capacity, the    *)
(* two directions of the terminal by the kernel's buffers, and a full one  *)
(* blocks whoever writes to it.  The shell and the kernel are external:    *)
(* they are modelled by what the code relies on.                           *)
(*                                                                         *)
(* A line is the number of its arrival (the first line a session accepts   *)
(* is 1), so that order, loss and duplication are visible.  A read from    *)
(* the terminal is one of ReadKinds: what the chunker distinguishes.  The  *)
(* hands of the threads are sequences of length at most one: <<>> means    *)
(* the thread is waiting for something to take.                            *)
(***************************************************************************)
EXTENDS Integers, Sequences

CONSTANTS
    PtyInDepth,     \* capacity of pty.input_tx   (64 in the code)
    PtyOutDepth,    \* capacity of pty.output_rx  (256 in the code)
    TtyInDepth,     \* lines the kernel buffers towards the shell
    TtyOutDepth,    \* reads the kernel buffers from the shell
    MaxPrint,       \* bound: most reads' worth of output one line causes
    CtrlC,          \* the lines that are the [ctrl-c] token
    Kinds           \* bound: the kinds of reads that happen (see ReadKinds)

\* The bytes of a read end with a newline, hold none, or go on after one.
ReadKinds == {"line", "part", "mixed"}

ASSUME PtyAssumption ==
    /\ PtyInDepth \in Nat \ {0}
    /\ PtyOutDepth \in Nat \ {0}
    /\ TtyInDepth \in Nat \ {0}
    /\ TtyOutDepth \in Nat \ {0}
    /\ MaxPrint \in Nat
    /\ CtrlC \subseteq Nat
    /\ Kinds \subseteq ReadKinds

VARIABLES
    ptyIn,          \* channel of lines towards the writer thread
    ptyInOpen,      \* the actor still holds pty.input_tx
    writerHand,     \* the line the writer thread is writing
    writerDone,     \* the writer thread has returned and dropped its receiver
    written,        \* the number of the last line written to the terminal
    ttyIn,          \* number of lines waiting in the terminal
    ttyOut,         \* number of reads waiting in the terminal
    shell,          \* "alive" | "orphaned" | "exited" (see ShellStates)
    owed,           \* reads' worth of output still to be printed
    readerHand,     \* the read the reader thread is passing on
    readerDone,     \* the reader thread has returned and dropped its sender
    ptyOut,         \* channel of reads towards the actor
    ptyOutOpen      \* the actor still holds pty.output_rx

\* orphaned: bash is gone, a job it left behind has the terminal still open.
\* exited: nobody has it open, so reads end and writes fail.
ShellStates == {"alive", "orphaned", "exited"}

AtMostOne(s) == Len(s) <= 1

writerSide == <<ptyIn, writerHand, writerDone, written>>
readerSide == <<readerHand, readerDone, ptyOut>>
terminal == <<ttyIn, ttyOut, shell, owed>>
ends == <<ptyInOpen, ptyOutOpen>>
ptyVars == <<writerSide, readerSide, terminal, ends>>

WriterTypeOK ==
    /\ ptyIn \in Seq(Nat) /\ Len(ptyIn) <= PtyInDepth
    /\ writerHand \in Seq(Nat) /\ AtMostOne(writerHand)
    /\ writerDone \in BOOLEAN
    /\ written \in Nat

ReaderTypeOK ==
    /\ readerHand \in Seq(ReadKinds) /\ AtMostOne(readerHand)
    /\ readerDone \in BOOLEAN
    /\ ptyOut \in Seq(ReadKinds) /\ Len(ptyOut) <= PtyOutDepth

TerminalTypeOK ==
    /\ ttyIn \in 0..TtyInDepth
    /\ ttyOut \in 0..TtyOutDepth
    /\ shell \in ShellStates
    /\ owed \in Nat

PtyTypeOK ==
    /\ WriterTypeOK /\ ReaderTypeOK /\ TerminalTypeOK
    /\ ptyInOpen \in BOOLEAN /\ ptyOutOpen \in BOOLEAN

\* spawn_bash: both threads wait, bash is about to print its prompt.
PtyInit ==
    /\ ptyIn = <<>>
    /\ ptyInOpen = TRUE
    /\ writerHand = <<>>
    /\ writerDone = FALSE
    /\ written = 0
    /\ ttyIn = 0
    /\ ttyOut = 0
    /\ shell = "alive"
    /\ owed = 1
    /\ readerHand = <<>>
    /\ readerDone = FALSE
    /\ ptyOut = <<>>
    /\ ptyOutOpen = TRUE

-----------------------------------------------------------------------------
(* The writer thread. *)

\* in_rx.blocking_recv() returns a line.
WriterRecv ==
    /\ ~writerDone /\ writerHand = <<>> /\ ptyIn # <<>>
    /\ writerHand' = <<Head(ptyIn)>>
    /\ ptyIn' = Tail(ptyIn)
    /\ UNCHANGED <<writerDone, written, readerSide, terminal, ends>>

\* write_all succeeds once the terminal has room.  The byte 0x03 of a [ctrl-c]
\* makes the terminal interrupt the foreground job, which prints no more, and
\* drop the input the job had not read.
WriterWrite ==
    /\ ~writerDone /\ writerHand # <<>>
    /\ shell # "exited" /\ ttyIn < TtyInDepth
    /\ written' = Head(writerHand)
    /\ writerHand' = <<>>
    /\ IF Head(writerHand) \in CtrlC
       THEN ttyIn' = 0 /\ owed' = IF shell = "alive" THEN 0 ELSE owed
       ELSE ttyIn' = ttyIn + 1 /\ UNCHANGED owed
    /\ UNCHANGED <<ptyIn, writerDone, ttyOut, shell, readerSide, ends>>

\* write_all fails once nobody has the terminal open any more: the thread
\* returns, and the lines still in its channel go with the receiver.
WriterFail ==
    /\ ~writerDone /\ writerHand # <<>> /\ shell = "exited"
    /\ writerDone' = TRUE
    /\ writerHand' = <<>>
    /\ ptyIn' = <<>>
    /\ UNCHANGED <<written, readerSide, terminal, ends>>

\* The channel is empty and its sender is gone: the loop ends.
WriterEnd ==
    /\ ~writerDone /\ writerHand = <<>> /\ ptyIn = <<>> /\ ~ptyInOpen
    /\ writerDone' = TRUE
    /\ UNCHANGED <<ptyIn, writerHand, written, readerSide, terminal, ends>>

-----------------------------------------------------------------------------
(* The reader thread. *)

\* master_reader.read returns bytes: where a read ends is not the program's
\* choice, so any kind of read is possible.
ReaderRead ==
    /\ ~readerDone /\ readerHand = <<>> /\ ttyOut > 0
    /\ \E kind \in Kinds : readerHand' = <<kind>>
    /\ ttyOut' = ttyOut - 1
    /\ UNCHANGED <<readerDone, ptyOut, ttyIn, shell, owed, writerSide, ends>>

\* blocking_send waits for room in the channel.
ReaderSend ==
    /\ ~readerDone /\ readerHand # <<>>
    /\ ptyOutOpen /\ Len(ptyOut) < PtyOutDepth
    /\ ptyOut' = Append(ptyOut, Head(readerHand))
    /\ readerHand' = <<>>
    /\ UNCHANGED <<readerDone, writerSide, terminal, ends>>

\* read returns 0 or an error once nobody has the terminal open and it is
\* drained, or blocking_send finds the receiver gone: the thread returns.
ReaderEnd ==
    /\ ~readerDone
    /\ \/ readerHand = <<>> /\ ttyOut = 0 /\ shell = "exited"
       \/ readerHand # <<>> /\ ~ptyOutOpen
    /\ readerDone' = TRUE
    /\ readerHand' = <<>>
    /\ UNCHANGED <<ptyOut, writerSide, terminal, ends>>

-----------------------------------------------------------------------------
(* The shell and what runs in it (external). *)

\* The shell, or the program it runs, reads a line when it has nothing left to
\* print, and the line makes it print something.
ShellRead ==
    /\ shell = "alive" /\ owed = 0 /\ ttyIn > 0
    /\ ttyIn' = ttyIn - 1
    /\ owed' \in 0..MaxPrint
    /\ UNCHANGED <<ttyOut, shell, writerSide, readerSide, ends>>

\* Printing blocks while the terminal's output buffer is full.
ShellPrint ==
    /\ shell # "exited" /\ owed > 0 /\ ttyOut < TtyOutDepth
    /\ owed' = owed - 1
    /\ ttyOut' = ttyOut + 1
    /\ UNCHANGED <<ttyIn, shell, writerSide, readerSide, ends>>

\* bash is gone.  A job it has put in the background and that keeps the
\* terminal open goes on printing, and reads nothing: the input stays.
BashGone ==
    \/ /\ shell' = "exited"
       /\ ttyIn' = 0
       /\ owed' = 0
    \/ /\ shell' = "orphaned"
       /\ owed' \in 0..MaxPrint
       /\ UNCHANGED ttyIn

\* The shell ends: "exit", end of file, a signal.
ShellExit ==
    /\ shell = "alive"
    /\ BashGone
    /\ UNCHANGED <<ttyOut, writerSide, readerSide, ends>>

\* The last job that had the terminal open ends.
JobsEnd ==
    /\ shell = "orphaned"
    /\ shell' = "exited"
    /\ ttyIn' = 0
    /\ owed' = 0
    /\ UNCHANGED <<ttyOut, writerSide, readerSide, ends>>

PtyThreads ==
    WriterRecv \/ WriterWrite \/ WriterFail \/ WriterEnd
        \/ ReaderRead \/ ReaderSend \/ ReaderEnd

Shell == ShellRead \/ ShellPrint \/ ShellExit \/ JobsEnd
=============================================================================
