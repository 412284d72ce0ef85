------------------------------- MODULE Daemon -------------------------------
(***************************************************************************)
(* The daemon's main task (src/src/daemon.rs), the signal task             *)
(* (src/src/signals.rs), the whitelist file, the events of the bridge, and *)
(* the sessions the main task starts and forgets.                          *)
(*                                                                         *)
(*   signals --> signal task --sigQ--> main task --Accept--> sessions      *)
(*   bridge  --> SSE task --events--> main task                            *)
(*                                                                         *)
(* A session is seen as ShellSession describes it; PeerSession implements  *)
(* that module.  The main task is alone in using the registry, so its      *)
(* locks never wait; but the sessions go on between its look at a handle   *)
(* (is_closed) and its use of it (try_send), which are two steps.          *)
(***************************************************************************)
EXTENDS Integers, Sequences

CONSTANTS
    Peers,          \* the pubkeys that occur
    Noise,          \* an event that is not a usable DM: echo, comment, other
    Closed,         \* the end of the channel of events: its SSE task is gone
    Broken,         \* a whitelist file that does not load
    SigDepth,       \* capacity of sig_rx   (4 in the code)
    EventDepth,     \* capacity of sse_rx   (256 in the code)
    MaxSessions,    \* bound: sessions started in one run of the daemon
    MaxEvents,      \* bound: events the bridge sends
    MaxEdits,       \* bound: edits of the whitelist file
    MaxHups         \* bound: SIGHUPs sent

ASSUME DaemonAssumption ==
    /\ Noise \notin Peers
    /\ Closed \notin Peers \cup {Noise}
    /\ \A ps \in SUBSET Peers : Broken # ps
    /\ SigDepth \in Nat \ {0}
    /\ EventDepth \in Nat \ {0}
    /\ {MaxSessions, MaxEvents, MaxEdits, MaxHups} \subseteq Nat

VARIABLES
    file,           \* what the whitelist file lists, or Broken
    dirty,          \* the file was edited and no SIGHUP was sent since
    whitelist,      \* the whitelist in force
    registry,       \* peers: each peer's session, 0 if none
    session,        \* the sessions started, in order
    events,         \* channel of events from the SSE task
    mainPc,         \* where the main task is
    dm,             \* the peer whose DM is being handled
    hup, term,      \* a signal was delivered and not yet received
    sigPc,          \* where the signal task is
    sigQ,           \* channel of signals to the main task
    counts          \* events, edits and SIGHUPs so far (see the bounds)

configVars == <<file, dirty, whitelist>>
peerVars == <<registry, session>>
mainVars == <<mainPc, dm>>
signalVars == <<hup, term, sigPc, sigQ>>
vars == <<configVars, peerVars, events, mainVars, signalVars, counts>>

MainPcs == {"startup", "loop", "send", "await", "returned", "failed", "killed"}
SigPcs == {"unspawned", "install", "wait", "reload", "shutdown", "gone"}
Phases == {"open", "closing", "closed"}
Told == {"none", "revoked", "shutdown"}
Ended == {"returned", "failed", "killed"}
NoPost == [t |-> "none", n |-> 0]
Farewell == [t |-> "bye", n |-> 1]
NewSession(p) == [owner |-> p, phase |-> "open", told |-> "none",
                  accepted |-> 0, written |-> 0, posted |-> NoPost]
Started == 1..Len(session)

SessionState == [owner : Peers, phase : Phases, told : Told,
                 accepted : Nat, written : Nat, posted : {NoPost, Farewell}]

ConfigTypeOK ==
    /\ file \in {Broken} \cup SUBSET Peers
    /\ dirty \in BOOLEAN
    /\ whitelist \in SUBSET Peers

\* A handle is of a session of the peer it is kept for.
PeerTypeOK ==
    /\ session \in Seq(SessionState)
    /\ registry \in [Peers -> {0} \cup Started]
    /\ \A p \in Peers : registry[p] # 0 => session[registry[p]].owner = p

SseTaskRuns == \A i \in 1..Len(events) : events[i] # Closed

\* What the SSE task has sent, and the end of the channel behind it.
EventTypeOK ==
    /\ events \in Seq(Peers \cup {Noise, Closed})
    /\ \/ Len(events) <= EventDepth
       \/ Len(events) = EventDepth + 1 /\ ~SseTaskRuns

\* The main task is at try_send only with a peer that has a handle.
MainTypeOK ==
    /\ mainPc \in MainPcs
    /\ dm \in Peers \cup {Noise}
    /\ mainPc = "send" => dm \in Peers /\ registry[dm] # 0

SignalTypeOK ==
    /\ hup \in BOOLEAN /\ term \in BOOLEAN
    /\ sigPc \in SigPcs
    /\ sigQ \in Seq({"reload", "shutdown"}) /\ Len(sigQ) <= SigDepth

CountTypeOK ==
    counts \in [events : 0..MaxEvents, edits : 0..MaxEdits, hups : 0..MaxHups]

TypeOK ==
    ConfigTypeOK /\ PeerTypeOK /\ MainTypeOK /\ EventTypeOK /\ SignalTypeOK
        /\ CountTypeOK

\* Config, whitelist and token are loaded; resolve_identity waits for the bridge.
Init ==
    /\ file \in SUBSET Peers
    /\ dirty = FALSE
    /\ whitelist = file
    /\ registry = [p \in Peers |-> 0]
    /\ session = <<>>
    /\ events = <<>>
    /\ mainPc = "startup"
    /\ dm = Noise
    /\ hup = FALSE /\ term = FALSE
    /\ sigPc = "unspawned"
    /\ sigQ = <<>>
    /\ counts = [events |-> 0, edits |-> 0, hups |-> 0]

-----------------------------------------------------------------------------
(* The world: the administrator, the signals, the bridge. *)

EditFile ==
    /\ counts.edits < MaxEdits
    /\ file' \in ({Broken} \cup SUBSET Peers) \ {file}
    /\ dirty' = TRUE
    /\ counts' = [counts EXCEPT !.edits = @ + 1]
    /\ UNCHANGED <<whitelist, peerVars, events, mainVars, signalVars>>

\* Until the signal task has installed its handlers, the default action of
\* the signal applies: the process is gone.  A handler only sets a flag.
SendHup ==
    /\ mainPc \notin Ended /\ counts.hups < MaxHups
    /\ counts' = [counts EXCEPT !.hups = @ + 1]
    /\ dirty' = FALSE
    /\ IF sigPc \in {"unspawned", "install"}
       THEN mainPc' = "killed" /\ UNCHANGED hup
       ELSE hup' = TRUE /\ UNCHANGED mainPc
    /\ UNCHANGED <<file, whitelist, peerVars, events, dm, term, sigPc, sigQ>>

SendTerm ==
    /\ mainPc \notin Ended /\ ~term
    /\ term' = TRUE
    /\ mainPc' = IF sigPc \in {"unspawned", "install"} THEN "killed" ELSE mainPc
    /\ UNCHANGED <<configVars, peerVars, events, dm, hup, sigPc, sigQ, counts>>

\* The SSE task waits for room in its channel.
EventArrives ==
    /\ mainPc \in {"loop", "send"} /\ counts.events < MaxEvents
    /\ SseTaskRuns /\ Len(events) < EventDepth
    /\ \E e \in Peers \cup {Noise} : events' = Append(events, e)
    /\ counts' = [counts EXCEPT !.events = @ + 1]
    /\ UNCHANGED <<configVars, peerVars, mainVars, signalVars>>

\* It has panicked (SseStream): its sender is dropped, what it sent remains.
SseTaskEnds ==
    /\ mainPc \in {"loop", "send"} /\ SseTaskRuns
    /\ events' = Append(events, Closed)
    /\ UNCHANGED <<configVars, peerVars, mainVars, signalVars, counts>>

-----------------------------------------------------------------------------
(* The sessions: the steps of ShellSession they take by themselves. *)

Running == mainPc \notin Ended

LineWritten(s) ==
    /\ Running
    /\ session[s].written < session[s].accepted
    /\ session' = [session EXCEPT ![s].written = @ + 1]
    /\ UNCHANGED <<configVars, registry, events, mainVars, signalVars, counts>>

\* Told to, idle, at end of file, or without a handle: only PeerSession knows.
SessionCloses(s) ==
    /\ Running /\ session[s].phase = "open"
    /\ session' = [session EXCEPT ![s].phase = "closing"]
    /\ UNCHANGED <<configVars, registry, events, mainVars, signalVars, counts>>

FarewellPosted(s) ==
    /\ Running /\ session[s].phase = "closing" /\ session[s].posted = NoPost
    /\ session' = [session EXCEPT ![s].posted = Farewell]
    /\ UNCHANGED <<configVars, registry, events, mainVars, signalVars, counts>>

\* The actor returns, and with it the receiver of input_tx.
SessionEnds(s) ==
    /\ Running /\ session[s].phase = "closing"
    /\ session' = [session EXCEPT ![s].phase = "closed"]
    /\ UNCHANGED <<configVars, registry, events, mainVars, signalVars, counts>>

SessionSteps ==
    \E s \in Started :
        LineWritten(s) \/ SessionCloses(s) \/ FarewellPosted(s) \/ SessionEnds(s)

-----------------------------------------------------------------------------
(* The signal task. *)

Install ==
    /\ sigPc = "install" /\ Running
    /\ sigPc' = "wait"
    /\ UNCHANGED <<configVars, peerVars, events, mainVars, hup, term, sigQ, counts>>

\* A handler cannot be installed: the task returns and drops its sender.
InstallFails ==
    /\ sigPc = "install" /\ Running
    /\ sigPc' = "gone"
    /\ UNCHANGED <<configVars, peerVars, events, mainVars, hup, term, sigQ, counts>>

\* Signals of one kind that come before recv() returns are one.
TakeHup ==
    /\ sigPc = "wait" /\ hup /\ Running
    /\ hup' = FALSE
    /\ sigPc' = "reload"
    /\ UNCHANGED <<configVars, peerVars, events, mainVars, term, sigQ, counts>>

TakeTerm ==
    /\ sigPc = "wait" /\ term /\ Running
    /\ sigPc' = "shutdown"
    /\ UNCHANGED <<configVars, peerVars, events, mainVars, hup, term, sigQ, counts>>

\* Mutant: a channel without a bound.
PassOnUnbounded ==
    /\ sigPc \in {"reload", "shutdown"} /\ Running
    /\ sigQ' = Append(sigQ, sigPc)
    /\ sigPc' = IF sigPc = "reload" THEN "wait" ELSE "gone"
    /\ UNCHANGED <<configVars, peerVars, events, mainVars, hup, term, counts>>

\* tx.send().await waits for room; the task ends with the shutdown it sends.
PassOn ==
    /\ sigPc \in {"reload", "shutdown"} /\ Running
    /\ Len(sigQ) < SigDepth
    /\ sigQ' = Append(sigQ, sigPc)
    /\ sigPc' = IF sigPc = "reload" THEN "wait" ELSE "gone"
    /\ UNCHANGED <<configVars, peerVars, events, mainVars, hup, term, counts>>

SignalTask == Install \/ InstallFails \/ TakeHup \/ TakeTerm \/ PassOn

-----------------------------------------------------------------------------
(* The main task. *)

\* The identity is resolved: the SSE and the signal task are spawned.
StartupDone ==
    /\ mainPc = "startup"
    /\ mainPc' = "loop"
    /\ sigPc' = "install"
    /\ UNCHANGED <<configVars, peerVars, events, dm, hup, term, sigQ, counts>>

StartupFails ==
    /\ mainPc = "startup"
    /\ mainPc' = "failed"
    /\ UNCHANGED <<configVars, peerVars, events, dm, signalVars, counts>>

\* diff_whitelist: the peers on the list in force and not in the file.
Removed == whitelist \ file

\* Telling the sessions of the peers in ps to shut down.
Tell(ps, why) ==
    [s \in Started |->
        IF session[s].owner \in ps /\ registry[session[s].owner] = s
        THEN [session[s] EXCEPT !.told = why] ELSE session[s]]

\* Mutant: removed peers are told, and stay in the registry.
ReloadKeepsHandles ==
    /\ mainPc = "loop" /\ sigQ # <<>> /\ Head(sigQ) = "reload" /\ file # Broken
    /\ whitelist' = file
    /\ session' = Tell(Removed, "revoked")
    /\ sigQ' = Tail(sigQ)
    /\ UNCHANGED <<file, dirty, registry, events, mainVars, hup, term, sigPc,
                   counts>>

\* Mutant: removed peers are only forgotten.
ReloadForgets ==
    /\ mainPc = "loop" /\ sigQ # <<>> /\ Head(sigQ) = "reload" /\ file # Broken
    /\ whitelist' = file
    /\ registry' = [p \in Peers |-> IF p \in Removed THEN 0
                                    ELSE registry[p]]
    /\ sigQ' = Tail(sigQ)
    /\ UNCHANGED <<file, dirty, session, events, mainVars, hup, term, sigPc,
                   counts>>

\* Mutant: a whitelist that removes nobody is taken for unchanged.
ReloadRemovalsOnly ==
    /\ mainPc = "loop" /\ sigQ # <<>> /\ Head(sigQ) = "reload" /\ file # Broken
    /\ whitelist' = IF whitelist \subseteq file THEN whitelist ELSE file
    /\ session' = Tell(Removed, "revoked")
    /\ registry' = [p \in Peers |-> IF p \in Removed THEN 0
                                    ELSE registry[p]]
    /\ sigQ' = Tail(sigQ)
    /\ UNCHANGED <<file, dirty, events, mainVars, hup, term, sigPc, counts>>

\* reload_whitelist: the new list is in force, the removed peers are told and
\* their handles dropped.
Reload ==
    /\ mainPc = "loop" /\ sigQ # <<>> /\ Head(sigQ) = "reload" /\ file # Broken
    /\ whitelist' = file
    /\ session' = Tell(Removed, "revoked")
    /\ registry' = [p \in Peers |-> IF p \in Removed THEN 0
                                    ELSE registry[p]]
    /\ sigQ' = Tail(sigQ)
    /\ UNCHANGED <<file, dirty, events, mainVars, hup, term, sigPc, counts>>

\* The file does not load: the list in force stays.
ReloadFails ==
    /\ mainPc = "loop" /\ sigQ # <<>> /\ Head(sigQ) = "reload" /\ file = Broken
    /\ sigQ' = Tail(sigQ)
    /\ UNCHANGED <<configVars, peerVars, events, mainVars, hup, term, sigPc,
                   counts>>

\* Mutant: the loop is left once there is no session any more.
LeaveWhenIdle ==
    /\ mainPc = "loop"
    /\ registry = [p \in Peers |-> 0]
    /\ \/ sigQ # <<>> /\ Head(sigQ) = "shutdown"
       \/ sigQ = <<>> /\ sigPc = "gone"
       \/ sigQ = <<>> /\ events # <<>> /\ Head(events) = Closed
    /\ mainPc' = "await"
    /\ sigQ' = <<>>
    /\ UNCHANGED <<configVars, peerVars, events, dm, hup, term, sigPc, counts>>

\* A shutdown, or the end of the signal or of the SSE task, ends the loop: the
\* sessions in the registry are told, and the handles dropped.
LeaveLoop ==
    /\ mainPc = "loop"
    /\ \/ sigQ # <<>> /\ Head(sigQ) = "shutdown"
       \/ sigQ = <<>> /\ sigPc = "gone"
       \/ sigQ = <<>> /\ events # <<>> /\ Head(events) = Closed
    /\ mainPc' = "await"
    /\ session' = Tell(Peers, "shutdown")
    /\ registry' = [p \in Peers |-> 0]
    /\ sigQ' = <<>>
    /\ UNCHANGED <<configVars, events, dm, hup, term, sigPc, counts>>

\* The SSE task has seen the shutdown, or 10 s are over: run returns, and main
\* drops the runtime with the actors in it.
Return ==
    /\ mainPc = "await"
    /\ mainPc' = "returned"
    /\ UNCHANGED <<configVars, peerVars, events, dm, signalVars, counts>>

\* is_closed: a handle whose actor has returned is stale.
HasLiveHandle(p) == registry[p] # 0 /\ session[registry[p]].phase # "closed"

\* The select is biased: an event is taken only when no signal waits.
NextEvent ==
    /\ mainPc = "loop" /\ sigQ = <<>> /\ sigPc # "gone" /\ events # <<>>
    /\ events' = Tail(events)

\* Echoes, comments, malformed DMs, and DMs of peers not on the whitelist.
IgnoreEvent ==
    /\ NextEvent /\ Head(events) \notin whitelist \cup {Closed}
    /\ UNCHANGED <<configVars, peerVars, mainVars, signalVars, counts>>

\* The handle's channel is open.
FindSession ==
    /\ NextEvent /\ Head(events) \in whitelist
    /\ HasLiveHandle(Head(events))
    /\ dm' = Head(events)
    /\ mainPc' = "send"
    /\ UNCHANGED <<configVars, peerVars, signalVars, counts>>

\* Mutant: a DM of any peer starts a session.
StartSessionOfAnybody ==
    /\ NextEvent /\ Head(events) \in Peers
    /\ LET p == Head(events) IN
       /\ ~HasLiveHandle(p)
       /\ Len(session) < MaxSessions
       /\ session' = Append(session, NewSession(p))
       /\ registry' = [registry EXCEPT ![p] = Len(session) + 1]
       /\ dm' = p
    /\ mainPc' = "send"
    /\ UNCHANGED <<configVars, signalVars, counts>>

\* There is no handle, or a stale one: spawn_peer.
StartSession ==
    /\ NextEvent /\ Head(events) \in whitelist
    /\ LET p == Head(events) IN
       /\ ~HasLiveHandle(p)
       /\ Len(session) < MaxSessions
       /\ session' = Append(session, NewSession(p))
       /\ registry' = [registry EXCEPT ![p] = Len(session) + 1]
       /\ dm' = p
    /\ mainPc' = "send"
    /\ UNCHANGED <<configVars, signalVars, counts>>

\* spawn_peer fails: the stale handle is gone all the same.
StartFails ==
    /\ NextEvent /\ Head(events) \in whitelist
    /\ LET p == Head(events) IN
       /\ ~HasLiveHandle(p)
       /\ registry' = [registry EXCEPT ![p] = 0]
    /\ UNCHANGED <<configVars, session, mainVars, signalVars, counts>>

\* Mutant: a line is taken for delivered whatever became of the session.
DeliverUnchecked ==
    /\ mainPc = "send"
    /\ session' = [session EXCEPT ![registry[dm]].accepted = @ + 1]
    /\ mainPc' = "loop"
    /\ dm' = Noise
    /\ UNCHANGED <<configVars, registry, events, signalVars, counts>>

\* try_send: the line is accepted while the receiver lives and has room.
Deliver ==
    /\ mainPc = "send"
    /\ session[registry[dm]].phase # "closed"
    /\ session' = [session EXCEPT ![registry[dm]].accepted = @ + 1]
    /\ mainPc' = "loop"
    /\ dm' = Noise
    /\ UNCHANGED <<configVars, registry, events, signalVars, counts>>

\* ... and is lost if the queue is full, or the actor returned meanwhile.
DeliverFails ==
    /\ mainPc = "send"
    /\ mainPc' = "loop"
    /\ dm' = Noise
    /\ UNCHANGED <<configVars, peerVars, events, signalVars, counts>>

MainTask ==
    \/ StartupDone \/ StartupFails
    \/ Reload \/ ReloadFails \/ LeaveLoop \/ Return
    \/ IgnoreEvent \/ FindSession \/ StartSession \/ StartFails
    \/ Deliver \/ DeliverFails

-----------------------------------------------------------------------------

World == EditFile \/ SendHup \/ SendTerm \/ EventArrives \/ SseTaskEnds

Stopped == mainPc \in Ended /\ UNCHANGED vars

Next == World \/ SessionSteps \/ SignalTask \/ MainTask \/ Stopped

Spec == Init /\ [][Next]_vars

\* The runtime polls both tasks as long as the process runs.  Nothing makes a
\* session end, or the bridge answer at startup: its requests have no timeout.
FairSpec ==
    /\ Spec
    /\ WF_vars(SignalTask)
    /\ WF_vars(mainPc # "startup" /\ MainTask)

-----------------------------------------------------------------------------
(* Safety. *)

\* The registry never holds a peer that is not on the whitelist in force, in
\* whatever order reloads, DMs and ends of sessions come.
RegistryWhitelisted == \A p \in Peers : registry[p] # 0 => p \in whitelist

\* Every session that the registry does not hold has been told to end or has
\* ended: no shell is left running that nobody can reach, and a peer has one
\* session at most that was not told.
NoSessionForgotten ==
    \A s \in Started :
        session[s].told = "none" /\ session[s].phase # "closed"
            => registry[session[s].owner] = s

\* The trust boundary (README.md:5: "Whitelisted peer pubkeys are the only thing
\* allowed to drive a shell session"): a line reaches a session only while its
\* owner is on the whitelist in force and the session was not told to end.
OnlyWhitelistedDrive ==
    [][\A s \in Started :
          session'[s].accepted > session[s].accepted
              => session[s].owner \in whitelist /\ session[s].told = "none"]_vars

\* Each session is used as ShellSession allows: no line after it closed.
At(s) == IF s \in Started THEN session[s] ELSE NewSession(Noise)

Shell(s) == INSTANCE ShellSession WITH
    phase <- At(s).phase, accepted <- At(s).accepted,
    written <- At(s).written, posted <- At(s).posted

SessionsAreShellSessions ==
    /\ \A s \in 1..MaxSessions : Shell(s)!Init
    /\ [][\A s \in 1..MaxSessions :
              Shell(s)!Next \/ UNCHANGED Shell(s)!vars]_vars

-----------------------------------------------------------------------------
(* Liveness. *)

\* However SIGHUPs coalesce and queue, a SIGHUP after the last edit brings the
\* file into force, unless the daemon stops.
ReloadTakesEffect ==
    \A f \in SUBSET Peers :
        <>[](file = f /\ ~dirty)
            => <>[](whitelist = f) \/ <>(mainPc \in Ended)

\* SIGTERM makes run return, whatever is queued and whatever sessions do: the
\* select is biased towards signals, and nothing it awaits depends on a session.
TermEndsDaemon == term ~> mainPc \in Ended

-----------------------------------------------------------------------------
(* What the documents say and the code does not do. *)

\* daemon.rs:174-176: a handle whose session is over must be found stale,
\* "otherwise the next DM gets silently dropped": a session that has left its
\* loop reads no more input, so it should accept none.
ClosingSessionTakesNoLine ==
    [][\A s \in Started :
          session'[s].accepted > session[s].accepted
              => session[s].phase = "open"]_vars

\* daemon.rs:125: "Drop all peers (their actors will send farewells)".
FarewellsAreSent ==
    mainPc = "returned" =>
        \A s \in Started :
            session[s].told = "shutdown" /\ session[s].phase # "closed"
                => session[s].posted = Farewell
=============================================================================
