------------------------------ MODULE RateLimit ------------------------------
(***************************************************************************)
(* What the rate limiters let out (src/src/peer.rs, src/src/daemon.rs).    *)
(*                                                                         *)
(*   sender of a session --own limiter--> --shared limiter--> bridge       *)
(*                                                                         *)
(* Every session has a limiter of its own, made with the session; one      *)
(* limiter is shared by all of them and lives as long as the daemon.  A    *)
(* limiter is the governor crate's (external): a quota of one item per     *)
(* period, and a burst.  It is its debt: the time until it is back to a    *)
(* full burst.  An item adds a period to the debt, time pays it off, and   *)
(* an item passes while the debt stays within the burst.                   *)
(*                                                                         *)
(* A peer may have more than one sender at once: the session of a peer     *)
(* that was taken off the whitelist goes on sending what it has queued,    *)
(* and once the peer is back on it, its next line starts another session   *)
(* (daemon.rs:186-199, 270-275; peer.rs:138, 220-221).                     *)
(*                                                                         *)
(* A window is an observer's: it opens at any moment and counts what       *)
(* passes until MaxWindow has gone by.                                     *)
(***************************************************************************)
EXTENDS Integers, FiniteSets

CONSTANTS
    Senders,            \* places for sender tasks, of any peers: see NewSession
    PerPeerPeriod,      \* limits.per_peer_period, in ticks
    PerPeerBurst,       \* limits.per_peer_burst, as configured
    GlobalPeriod,       \* limits.global_period, in ticks
    GlobalBurst,        \* limits.global_burst, as configured
    ShortestPeriod,     \* 100 ms, in ticks
    MaxWindow           \* bound: how long a window is watched

ASSUME RateAssumption ==
    /\ IsFiniteSet(Senders)
    /\ {PerPeerPeriod, PerPeerBurst, GlobalPeriod, GlobalBurst} \subseteq Nat
    /\ ShortestPeriod \in Nat \ {0}
    /\ MaxWindow \in Nat

VARIABLES
    stage,      \* senders: where the task is
    debt,       \* senders: the debt of the session's limiter
    shared,     \* the debt of the shared limiter
    watching,   \* a window is open
    age,        \* ... for so long
    passes,     \* ... items the shared limiter has let pass since
    taken,      \* ... senders: debt the items of its sessions have made since
    restarts    \* ... senders: debt forgiven by new sessions since

limiters == <<debt, shared>>
window == <<watching, age, passes, taken, restarts>>
vars == <<stage, limiters, window>>

Stages == {"recv", "peer", "global", "post"}
AtLeast(n, least) == IF n < least THEN least ELSE n

\* Mutant: a burst is used as it is configured, also if it is 0.
QuotaAsConfigured(period, burst) ==
    [period |-> AtLeast(period, ShortestPeriod),
     most |-> burst * AtLeast(period, ShortestPeriod)]

\* A period of at least 100 ms, a burst of at least one item; most is the debt
\* a full burst makes.
Quota(period, burst) ==
    [period |-> AtLeast(period, ShortestPeriod),
     most |-> AtLeast(burst, 1) * AtLeast(period, ShortestPeriod)]

OwnQuota == Quota(PerPeerPeriod, PerPeerBurst)
SharedQuota == Quota(GlobalPeriod, GlobalBurst)

Admits(quota, d) == d + quota.period <= quota.most
PayOff(d) == IF d > 0 THEN d - 1 ELSE 0

TypeOK ==
    /\ stage \in [Senders -> Stages]
    /\ debt \in [Senders -> 0..OwnQuota.most]
    /\ shared \in 0..SharedQuota.most
    /\ watching \in BOOLEAN
    /\ age \in 0..MaxWindow
    /\ passes \in Nat
    /\ taken \in [Senders -> Nat]
    /\ restarts \in [Senders -> Nat]

Zero == [s \in Senders |-> 0]

NoWindow ==
    /\ watching' = FALSE
    /\ age' = 0 /\ passes' = 0
    /\ taken' = Zero /\ restarts' = Zero

Init ==
    /\ stage = [s \in Senders |-> "recv"]
    /\ debt = Zero
    /\ shared = 0
    /\ watching = FALSE
    /\ age = 0 /\ passes = 0
    /\ taken = Zero /\ restarts = Zero

\* n more while a window is open.
Counted(count, n) == IF watching THEN count + n ELSE count
CountedFor(counts, s, n) ==
    IF watching THEN [counts EXCEPT ![s] = @ + n] ELSE counts

-----------------------------------------------------------------------------
(* The sender tasks. *)

\* rx.recv() returns a chunk.
Recv(s) ==
    /\ stage[s] = "recv"
    /\ stage' = [stage EXCEPT ![s] = "peer"]
    /\ UNCHANGED <<limiters, window>>

\* Mutant: the limiter is asked, and its answer not waited for.
PeerUnlimited(s) ==
    /\ stage[s] = "peer"
    /\ debt' = [debt EXCEPT ![s] = @ + OwnQuota.period]
    /\ taken' = CountedFor(taken, s, OwnQuota.period)
    /\ stage' = [stage EXCEPT ![s] = "global"]
    /\ UNCHANGED <<shared, watching, age, passes, restarts>>

\* per_peer_limiter.until_ready().
PeerReady(s) ==
    /\ stage[s] = "peer" /\ Admits(OwnQuota, debt[s])
    /\ debt' = [debt EXCEPT ![s] = @ + OwnQuota.period]
    /\ taken' = CountedFor(taken, s, OwnQuota.period)
    /\ stage' = [stage EXCEPT ![s] = "global"]
    /\ UNCHANGED <<shared, watching, age, passes, restarts>>

\* Mutant: who finds the limiter free does not take its item from it.
GlobalPeeked(s) ==
    /\ stage[s] = "global" /\ Admits(SharedQuota, shared)
    /\ passes' = Counted(passes, 1)
    /\ stage' = [stage EXCEPT ![s] = "post"]
    /\ UNCHANGED <<limiters, watching, age, taken, restarts>>

\* global_limiter.until_ready(): whoever wakes first takes the item.
GlobalReady(s) ==
    /\ stage[s] = "global" /\ Admits(SharedQuota, shared)
    /\ shared' = shared + SharedQuota.period
    /\ passes' = Counted(passes, 1)
    /\ stage' = [stage EXCEPT ![s] = "post"]
    /\ UNCHANGED <<debt, watching, age, taken, restarts>>

\* send_dm, as soon or as late as the bridge answers.
Post(s) ==
    /\ stage[s] = "post"
    /\ stage' = [stage EXCEPT ![s] = "recv"]
    /\ UNCHANGED <<limiters, window>>

Sender(s) == PeerReady(s) \/ GlobalReady(s) \/ Post(s)

\* Mutant: the new session's limiter starts with a burst on top.
NewSessionInCredit(s) ==
    /\ stage[s] = "recv"
    /\ debt' = [debt EXCEPT ![s] = 0]
    /\ UNCHANGED <<stage, shared, window>>

\* The queue is empty and its session gone: the sender task ends.  In its place
\* comes that of another session, of the same peer or another one, with a limiter
\* of its own and nothing owed; the shared one stays as it is.
NewSession(s) ==
    /\ stage[s] = "recv"
    /\ debt' = [debt EXCEPT ![s] = 0]
    /\ restarts' = CountedFor(restarts, s, debt[s])
    /\ UNCHANGED <<stage, shared, watching, age, passes, taken>>

-----------------------------------------------------------------------------
(* Time and the observer. *)

\* A sender that may pass is woken before the next tick: ticks are of a length
\* at which a woken task runs at once.
Waiting(s) ==
    \/ stage[s] = "peer" /\ Admits(OwnQuota, debt[s])
    \/ stage[s] = "global" /\ Admits(SharedQuota, shared)

Tick ==
    /\ ~\E s \in Senders : Waiting(s)
    /\ debt' = [s \in Senders |-> PayOff(debt[s])]
    /\ shared' = PayOff(shared)
    /\ IF watching /\ age = MaxWindow
       THEN NoWindow
       ELSE /\ age' = Counted(age, 1)
            /\ UNCHANGED <<watching, passes, taken, restarts>>
    /\ UNCHANGED stage

OpenWindow ==
    /\ ~watching
    /\ watching' = TRUE
    /\ UNCHANGED <<stage, limiters, age, passes, taken, restarts>>

Next ==
    \/ \E s \in Senders : Recv(s) \/ Sender(s) \/ NewSession(s)
    \/ Tick \/ OpenWindow

Spec == Init /\ [][Next]_vars

\* Tasks run, time passes and the bridge answers.
FairSpec ==
    /\ Spec
    /\ WF_vars(Tick)
    /\ \A s \in Senders : WF_vars(Sender(s))

-----------------------------------------------------------------------------
(* Safety. *)

\* However many sessions there are and however often they end and start again,
\* in any window the shared limiter lets at most a burst pass and one item more
\* per period (daemon.rs:65-72).
GlobalRate ==
    passes * SharedQuota.period <= age + SharedQuota.most

\* In any window a session sends at most a burst and one item per period, and
\* sessions that follow each other that much, plus what each new one has been
\* forgiven: at most another burst (peer.rs:130-138).  A peer with several senders
\* at once gets as much of each of them.
SenderRate ==
    \A s \in Senders : taken[s] <= age + OwnQuota.most + restarts[s]

-----------------------------------------------------------------------------
(* Liveness. *)

\* A chunk that waits for its turn gets it, whatever the other sessions send, if
\* the shared limiter admits all of them at their own rate and sessions do not
\* start for ever: until_ready keeps no queue, and new sessions, which owe
\* nothing, may overtake for ever (peer.rs:138, 293-295).
NoSenderStarves ==
    \/ \A s \in Senders : stage[s] = "peer" ~> stage[s] = "recv"
    \/ []<><<\E s \in Senders : NewSession(s)>>_vars
=============================================================================
