---------------------------- MODULE ShellSession ----------------------------
(***************************************************************************)
(* What one session promises, whatever its queues, threads and tasks do:   *)
(*                                                                         *)
(*   - every line handed to it is typed into the shell at most once, in    *)
(*     the order of arrival, and none is skipped;                          *)
(*   - what it posts to the peer leaves in the order it was produced, and  *)
(*     nothing follows the farewell;                                       *)
(*   - it is open, then closing, then closed, and a closed session takes   *)
(*     no line and posts nothing.  What it took before may still go to a   *)
(*     terminal that a job left behind keeps open.                         *)
(*                                                                         *)
(* PeerSession implements this module; Daemon relies on its phases.        *)
(***************************************************************************)
EXTENDS Integers

VARIABLES
    phase,      \* "open" | "closing" | "closed"
    accepted,   \* number of lines handed to the session
    written,    \* number of lines typed into the shell
    posted      \* the last item posted: its type and its place in the output

vars == <<phase, accepted, written, posted>>

ItemTypes == {"none", "chunk", "marker", "bye"}

Init ==
    /\ phase = "open"
    /\ accepted = 0
    /\ written = 0
    /\ posted = [t |-> "none", n |-> 0]

Accept ==
    /\ phase # "closed"
    /\ accepted' = accepted + 1
    /\ UNCHANGED <<phase, written, posted>>

Write ==
    /\ written < accepted
    /\ written' = written + 1
    /\ UNCHANGED <<phase, accepted, posted>>

Post ==
    /\ phase # "closed"
    /\ posted.t # "bye"
    /\ posted' \in [t : ItemTypes \ {"none"}, n : {posted'.n}]
    /\ posted'.n > posted.n
    /\ posted'.t = "bye" => phase = "closing"
    /\ UNCHANGED <<phase, accepted, written>>

Close ==
    /\ phase = "open"
    /\ phase' = "closing"
    /\ UNCHANGED <<accepted, written, posted>>

End ==
    /\ phase = "closing"
    /\ phase' = "closed"
    /\ UNCHANGED <<accepted, written, posted>>

Next == Accept \/ Write \/ Post \/ Close \/ End

Spec == Init /\ [][Next]_vars
=============================================================================
