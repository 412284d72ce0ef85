---------------------------- MODULE DaemonProofs ----------------------------
(***************************************************************************)
(* Theorems about the daemon's main task, its registry and the whitelist,  *)
(* for any set of peers, any depth of the channels, any number of events,  *)
(* edits and signals.  The cases of Next follow the tasks: what neither    *)
(* the main task nor a session does leaves registry and sessions alone.    *)
(***************************************************************************)
EXTENDS Daemon, TLAPS

USE DaemonAssumption

-----------------------------------------------------------------------------
(* Sequences. *)

LEMMA EmptySeq == ASSUME NEW S PROVE <<>> \in Seq(S) /\ Len(<<>>) = 0
  OBVIOUS

LEMMA AppendSeq ==
    ASSUME NEW S, NEW q \in Seq(S), NEW e \in S
    PROVE  /\ Append(q, e) \in Seq(S)
           /\ Len(Append(q, e)) = Len(q) + 1
           /\ \A i \in 1..Len(q) : Append(q, e)[i] = q[i]
           /\ Append(q, e)[Len(q) + 1] = e
  OBVIOUS

LEMMA PopSeq ==
    ASSUME NEW S, NEW q \in Seq(S), q # <<>>
    PROVE  Head(q) \in S /\ Tail(q) \in Seq(S) /\ Len(Tail(q)) = Len(q) - 1
  OBVIOUS

LEMMA LenNat == ASSUME NEW S, NEW q \in Seq(S) PROVE Len(q) \in Nat
  OBVIOUS

LEMMA MapSeq ==
    ASSUME NEW S, NEW n \in Nat, NEW f \in [1..n -> S]
    PROVE  f \in Seq(S) /\ Len(f) = n
  OBVIOUS

LEMMA PutSeq ==
    ASSUME NEW S, NEW q \in Seq(S), NEW i \in 1..Len(q), NEW e \in S
    PROVE  [q EXCEPT ![i] = e] \in Seq(S) /\ Len([q EXCEPT ![i] = e]) = Len(q)
  OBVIOUS
-----------------------------------------------------------------------------
(* The registry and the sessions.  HeldIsUntold is the strengthening: a     *)
(* reload tells and forgets in one step, so a handle that is still kept has *)
(* not been told, and the next one to be started is the only such session.  *)

HeldIsUntold ==
    \A p \in Peers : registry[p] # 0 => session[registry[p]].told = "none"

PeerInv ==
    PeerTypeOK /\ RegistryWhitelisted /\ HeldIsUntold /\ NoSessionForgotten

LEMMA PeerFrame ==
    PeerInv /\ UNCHANGED <<whitelist, peerVars>> => PeerInv'
  BY DEF PeerInv, PeerTypeOK, RegistryWhitelisted, HeldIsUntold,
     NoSessionForgotten, Started, peerVars

\* A session that changes neither owner nor what it was told, and stays closed
\* if it was.
LEMMA PeerTouch ==
    ASSUME PeerInv, NEW s \in Started, NEW r \in SessionState,
           r.owner = session[s].owner, r.told = session[s].told,
           session[s].phase = "closed" => r.phase = "closed",
           session' = [session EXCEPT ![s] = r],
           UNCHANGED <<registry, whitelist>>
    PROVE  PeerInv'
<1>1. session \in Seq(SessionState)
  BY DEF PeerInv, PeerTypeOK
<1>2. session' \in Seq(SessionState) /\ Started' = Started
  BY <1>1, PutSeq DEF Started
<1>3. session'[s] = r /\ \A t \in Started : t # s => session'[t] = session[t]
  BY <1>1, LenNat DEF Started
<1>4. \A t \in Started :
         /\ session'[t].owner = session[t].owner
         /\ session'[t].told = session[t].told
         /\ session[t].phase = "closed" => session'[t].phase = "closed"
  BY <1>3
<1>5. \A p \in Peers : registry[p] # 0 => registry[p] \in Started
  BY DEF PeerInv, PeerTypeOK
<1>6. PeerTypeOK'
  BY <1>2, <1>4, <1>5 DEF PeerInv, PeerTypeOK
<1>7. HeldIsUntold' /\ RegistryWhitelisted'
  BY <1>4, <1>5 DEF PeerInv, HeldIsUntold, RegistryWhitelisted
<1>8. NoSessionForgotten'
  BY <1>2, <1>4 DEF PeerInv, NoSessionForgotten
<1> QED
  BY <1>6, <1>7, <1>8 DEF PeerInv

LEMMA PeerSessionSteps == PeerInv /\ SessionSteps => PeerInv'
<1> SUFFICES ASSUME PeerInv, NEW s \in Started,
                    LineWritten(s) \/ SessionCloses(s) \/ FarewellPosted(s)
                       \/ SessionEnds(s)
             PROVE  PeerInv'
  BY DEF SessionSteps
<1>1. session \in Seq(SessionState) /\ session[s] \in SessionState
  BY DEF PeerInv, PeerTypeOK, Started
<1>2. UNCHANGED <<registry, whitelist>>
  BY DEF LineWritten, SessionCloses, FarewellPosted, SessionEnds, configVars
<1>3. CASE LineWritten(s)
  <2> DEFINE w == session[s].written + 1
             r == [session[s] EXCEPT !.written = w]
  <2>1. r \in SessionState
    <3>1. w \in Nat
      BY <1>1 DEF SessionState
    <3> HIDE DEF w
    <3> QED
      BY <1>1, <3>1 DEF SessionState
  <2>2. session' = [session EXCEPT ![s] = r]
    BY <1>3 DEF LineWritten
  <2> QED
    BY <1>1, <1>2, <2>1, <2>2, PeerTouch DEF SessionState
<1>4. CASE SessionCloses(s)
  <2> DEFINE r == [session[s] EXCEPT !.phase = "closing"]
  <2>1. r \in SessionState /\ session' = [session EXCEPT ![s] = r]
        /\ session[s].phase = "open"
    BY <1>1, <1>4 DEF SessionState, SessionCloses, Phases
  <2> QED
    BY <1>1, <1>2, <2>1, PeerTouch DEF SessionState
<1>5. CASE FarewellPosted(s)
  <2> DEFINE r == [session[s] EXCEPT !.posted = Farewell]
  <2>1. r \in SessionState /\ session' = [session EXCEPT ![s] = r]
    BY <1>1, <1>5 DEF SessionState, FarewellPosted
  <2> QED
    BY <1>1, <1>2, <2>1, PeerTouch DEF SessionState
<1>6. CASE SessionEnds(s)
  <2> DEFINE r == [session[s] EXCEPT !.phase = "closed"]
  <2>1. r \in SessionState /\ session' = [session EXCEPT ![s] = r]
    BY <1>1, <1>6 DEF SessionState, SessionEnds, Phases
  <2> QED
    BY <1>1, <1>2, <2>1, PeerTouch DEF SessionState
<1> QED
  BY <1>3, <1>4, <1>5, <1>6

\* Telling the sessions of ps and forgetting their handles in one step.
LEMMA PeerTell ==
    ASSUME PeerInv, NEW ps \in SUBSET Peers, NEW why \in Told \ {"none"},
           session' = Tell(ps, why),
           registry' = [p \in Peers |-> IF p \in ps THEN 0 ELSE registry[p]],
           \A p \in Peers : p \in whitelist /\ p \notin ps => p \in whitelist'
    PROVE  PeerInv'
<1>1. session \in Seq(SessionState) /\ Len(session) \in Nat
      /\ \A t \in Started : session[t] \in SessionState
  BY LenNat DEF PeerInv, PeerTypeOK, Started
<1>2. registry \in [Peers -> {0} \cup Started]
      /\ \A p \in Peers : registry[p] # 0 => session[registry[p]].owner = p
  BY DEF PeerInv, PeerTypeOK
<1> DEFINE told(t) == /\ session[t].owner \in ps
                      /\ registry[session[t].owner] = t
<1>3. \A t \in Started :
         session'[t] = IF told(t) THEN [session[t] EXCEPT !.told = why]
                       ELSE session[t]
  BY DEF Tell
<1>4. \A t \in Started : session'[t] \in SessionState
  BY <1>1, <1>3, ZenonT(30) DEF SessionState
<1>5. session' \in [1..Len(session) -> SessionState]
  BY <1>4 DEF Tell, Started
<1>6. session' \in Seq(SessionState) /\ Started' = Started
  BY <1>1, <1>5, MapSeq DEF Started
<1>7. \A t \in Started :
         /\ session'[t].owner = session[t].owner
         /\ session'[t].phase = session[t].phase
         /\ session'[t].told = IF told(t) THEN why ELSE session[t].told
  BY <1>1, <1>3 DEF SessionState
<1>8. \A p \in Peers : registry'[p] # 0 =>
         /\ p \notin ps /\ registry'[p] = registry[p]
         /\ registry[p] # 0 /\ registry[p] \in Started
         /\ session[registry[p]].owner = p
  BY <1>2
<1>9. PeerTypeOK'
  <2>1. registry' \in [Peers -> {0} \cup Started]
    BY <1>2
  <2>2. \A p \in Peers : registry'[p] # 0 => session'[registry'[p]].owner = p
    BY <1>7, <1>8
  <2> QED
    BY <1>6, <2>1, <2>2 DEF PeerTypeOK
<1>10. RegistryWhitelisted'
  BY <1>8 DEF PeerInv, RegistryWhitelisted
<1>11. HeldIsUntold'
  BY <1>7, <1>8 DEF PeerInv, HeldIsUntold
<1>12. NoSessionForgotten'
  <2> SUFFICES ASSUME NEW t \in Started,
                      session'[t].told = "none", session'[t].phase # "closed"
               PROVE  registry'[session'[t].owner] = t
    BY <1>6 DEF NoSessionForgotten
  <2>1. ~told(t) /\ session[t].told = "none" /\ session[t].phase # "closed"
    BY <1>7
  <2>2. registry[session[t].owner] = t /\ session[t].owner \in Peers
    BY <1>1, <2>1 DEF PeerInv, NoSessionForgotten, SessionState
  <2> QED
    BY <1>7, <2>1, <2>2
<1> QED
  BY <1>9, <1>10, <1>11, <1>12 DEF PeerInv
LEMMA PeerReload == PeerInv /\ ConfigTypeOK /\ Reload => PeerInv'
<1> SUFFICES ASSUME PeerInv, ConfigTypeOK, Reload PROVE PeerInv'
  OBVIOUS
<1>1. session' = Tell(Removed, "revoked") /\ whitelist' = file
      /\ registry' = [p \in Peers |-> IF p \in Removed THEN 0 ELSE registry[p]]
  BY DEF Reload
<1>2. Removed \in SUBSET Peers
  BY DEF ConfigTypeOK, Removed
<1>3. \A p \in Peers : p \in whitelist /\ p \notin Removed => p \in whitelist'
  BY <1>1 DEF Removed
<1> QED
  BY <1>1, <1>2, <1>3, PeerTell DEF Told

LEMMA PeerLeave == PeerInv /\ LeaveLoop => PeerInv'
<1> SUFFICES ASSUME PeerInv, LeaveLoop PROVE PeerInv'
  OBVIOUS
<1>1. session' = Tell(Peers, "shutdown") /\ whitelist' = whitelist
      /\ registry' = [p \in Peers |-> IF p \in Peers THEN 0 ELSE registry[p]]
  BY DEF LeaveLoop, configVars
<1> QED
  BY <1>1, PeerTell DEF Told

\* A stale handle may be forgotten: its session has ended.
LEMMA PeerStartFails == PeerInv /\ ConfigTypeOK /\ StartFails => PeerInv'
<1> SUFFICES ASSUME PeerInv, ConfigTypeOK, StartFails PROVE PeerInv'
  OBVIOUS
<1> DEFINE p == Head(events)
<1>1. p \in Peers /\ ~HasLiveHandle(p) /\ registry' = [registry EXCEPT ![p] = 0]
      /\ UNCHANGED <<session, whitelist>>
  BY DEF StartFails, ConfigTypeOK, configVars
<1>2. registry \in [Peers -> {0} \cup Started]
  BY DEF PeerInv, PeerTypeOK
<1>3. registry'[p] = 0 /\ \A q \in Peers : q # p => registry'[q] = registry[q]
  BY <1>1, <1>2
<1>4. PeerTypeOK'
  BY <1>1, <1>2, <1>3 DEF PeerInv, PeerTypeOK, Started
<1>5. RegistryWhitelisted' /\ HeldIsUntold'
  BY <1>1, <1>3 DEF PeerInv, RegistryWhitelisted, HeldIsUntold
<1>6. NoSessionForgotten'
  <2> SUFFICES ASSUME NEW t \in Started,
                      session[t].told = "none", session[t].phase # "closed"
               PROVE  registry'[session[t].owner] = t
    BY <1>1 DEF NoSessionForgotten, Started
  <2>1. registry[session[t].owner] = t
    BY DEF PeerInv, NoSessionForgotten
  <2>2. t # 0 /\ session[t].owner \in Peers
    <3>1. session[t] \in SessionState
      BY DEF PeerInv, PeerTypeOK, Started
    <3> QED
      BY <3>1 DEF Started, SessionState
  <2>3. session[t].owner # p
    BY <1>1, <2>1, <2>2 DEF HasLiveHandle
  <2> QED
    BY <1>3, <2>1, <2>2, <2>3
<1> QED
  BY <1>4, <1>5, <1>6 DEF PeerInv

\* The new session takes the place of one that has ended, or of none.
LEMMA PeerStart == PeerInv /\ ConfigTypeOK /\ StartSession => PeerInv'
<1> SUFFICES ASSUME PeerInv, ConfigTypeOK, StartSession PROVE PeerInv'
  OBVIOUS
<1> DEFINE p == Head(events)
           n == Len(session) + 1
<1>1. p \in Peers /\ p \in whitelist /\ ~HasLiveHandle(p)
      /\ registry' = [registry EXCEPT ![p] = n]
      /\ session' = Append(session, NewSession(p)) /\ whitelist' = whitelist
  BY DEF StartSession, ConfigTypeOK, configVars
<1>2. registry \in [Peers -> {0} \cup Started] /\ session \in Seq(SessionState)
      /\ Len(session) \in Nat
  BY LenNat DEF PeerInv, PeerTypeOK
<1>3. registry'[p] = n /\ \A q \in Peers : q # p => registry'[q] = registry[q]
  BY <1>1, <1>2
<1>4. NewSession(p) \in SessionState
  BY <1>1 DEF NewSession, SessionState, Phases, Told
<1>5. /\ session' \in Seq(SessionState) /\ Len(session') = n
      /\ \A t \in Started : session'[t] = session[t]
      /\ session'[n] = NewSession(p)
  BY <1>1, <1>2, <1>4, AppendSeq DEF Started
<1>6. Started' = Started \cup {n} /\ n \notin Started /\ n # 0
  BY <1>2, <1>5 DEF Started
<1>7. PeerTypeOK'
  <2>1. registry' \in [Peers -> {0} \cup Started']
    BY <1>1, <1>2, <1>6
  <2>2. \A q \in Peers : registry'[q] # 0 => session'[registry'[q]].owner = q
    BY <1>2, <1>3, <1>5 DEF PeerInv, PeerTypeOK, NewSession
  <2> QED
    BY <1>5, <2>1, <2>2 DEF PeerTypeOK
<1>8. RegistryWhitelisted'
  BY <1>1, <1>3 DEF PeerInv, RegistryWhitelisted
<1>9. HeldIsUntold'
  BY <1>2, <1>3, <1>5 DEF PeerInv, HeldIsUntold, NewSession
<1>10. NoSessionForgotten'
  <2> SUFFICES ASSUME NEW t \in Started',
                      session'[t].told = "none", session'[t].phase # "closed"
               PROVE  registry'[session'[t].owner] = t
    BY DEF NoSessionForgotten
  <2>1. CASE t = n
    BY <1>3, <1>5, <2>1 DEF NewSession
  <2>2. CASE t \in Started
    <3>1. registry[session[t].owner] = t /\ session[t].phase # "closed"
          /\ session'[t] = session[t]
      BY <1>5, <2>2 DEF PeerInv, NoSessionForgotten
    <3>2. t # 0 /\ session[t].owner \in Peers
      <4>1. session[t] \in SessionState
        BY <1>2, <2>2 DEF Started
      <4> QED
        BY <2>2, <4>1 DEF Started, SessionState
    <3>3. session[t].owner # p
      BY <1>1, <3>1, <3>2 DEF HasLiveHandle
    <3> QED
      BY <1>3, <3>1, <3>2, <3>3
  <2> QED
    BY <1>6, <2>1, <2>2
<1> QED
  BY <1>7, <1>8, <1>9, <1>10 DEF PeerInv
-----------------------------------------------------------------------------
(* Type correctness of the rest, and the invariant of the specification.    *)

LEMMA ConfigNext == ConfigTypeOK /\ [Next]_vars => ConfigTypeOK'
<1> SUFFICES ASSUME ConfigTypeOK, [Next]_vars PROVE ConfigTypeOK'
  OBVIOUS
<1> USE DEF ConfigTypeOK, configVars
<1>1. CASE World
  BY <1>1 DEF World, EditFile, SendHup, SendTerm, EventArrives, SseTaskEnds
<1>2. CASE SessionSteps
  BY <1>2 DEF SessionSteps, LineWritten, SessionCloses, FarewellPosted,
     SessionEnds
<1>3. CASE SignalTask
  BY <1>3 DEF SignalTask, Install, InstallFails, TakeHup, TakeTerm, PassOn
<1>4. CASE MainTask
  BY <1>4 DEF MainTask, StartupDone, StartupFails, Reload, ReloadFails,
     LeaveLoop, Return, IgnoreEvent, FindSession, StartSession, StartFails,
     Deliver, DeliverFails
<1>5. CASE UNCHANGED vars
  BY <1>5 DEF vars
<1> QED
  BY <1>1, <1>2, <1>3, <1>4, <1>5 DEF Next, Stopped

LEMMA CountNext == CountTypeOK /\ [Next]_vars => CountTypeOK'
<1> SUFFICES ASSUME CountTypeOK, [Next]_vars PROVE CountTypeOK'
  OBVIOUS
<1> USE DEF CountTypeOK
<1>1. CASE EditFile
  BY <1>1 DEF EditFile
<1>2. CASE SendHup
  BY <1>2 DEF SendHup
<1>3. CASE EventArrives
  BY <1>3 DEF EventArrives
<1>4. ASSUME UNCHANGED counts PROVE CountTypeOK'
  BY <1>4
<1>5. CASE SendTerm \/ SseTaskEnds \/ SessionSteps \/ SignalTask
  BY <1>4, <1>5 DEF SendTerm, SseTaskEnds, SessionSteps, LineWritten, SessionCloses,
     FarewellPosted, SessionEnds, SignalTask, Install, InstallFails, TakeHup,
     TakeTerm, PassOn
<1>6. CASE MainTask
  BY <1>4, <1>6 DEF MainTask, StartupDone, StartupFails, Reload, ReloadFails,
     LeaveLoop, Return, IgnoreEvent, FindSession, StartSession, StartFails,
     Deliver, DeliverFails
<1>7. CASE UNCHANGED vars
  BY <1>4, <1>7 DEF vars
<1> QED
  BY <1>1, <1>2, <1>3, <1>5, <1>6, <1>7 DEF Next, World, Stopped

LEMMA SignalNext == SignalTypeOK /\ [Next]_vars => SignalTypeOK'
<1> SUFFICES ASSUME SignalTypeOK, [Next]_vars PROVE SignalTypeOK'
  OBVIOUS
<1> USE DEF SignalTypeOK, signalVars
<1>1. ASSUME UNCHANGED signalVars PROVE SignalTypeOK'
  BY <1>1
<1>2. CASE SendHup \/ SendTerm
  BY <1>2 DEF SendHup, SendTerm
<1>3. CASE EditFile \/ EventArrives \/ SseTaskEnds \/ SessionSteps
  BY <1>1, <1>3 DEF EditFile, EventArrives, SseTaskEnds, SessionSteps, LineWritten,
     SessionCloses, FarewellPosted, SessionEnds
<1>4. CASE Install \/ InstallFails \/ TakeHup \/ TakeTerm
  BY <1>4 DEF Install, InstallFails, TakeHup, TakeTerm, SigPcs
<1>5. CASE PassOn
  <2>1. /\ sigQ' \in Seq({"reload", "shutdown"})
        /\ Len(sigQ') = Len(sigQ) + 1
    BY <1>5, AppendSeq DEF PassOn
  <2>2. Len(sigQ') <= SigDepth
    BY <1>5, <2>1, LenNat DEF PassOn
  <2> QED
    BY <1>5, <2>1, <2>2 DEF PassOn, SigPcs
<1>6. CASE Reload \/ ReloadFails
  <2>1. sigQ # <<>> /\ sigQ' = Tail(sigQ) /\ UNCHANGED <<hup, term, sigPc>>
    BY <1>6 DEF Reload, ReloadFails
  <2>2. sigQ' \in Seq({"reload", "shutdown"}) /\ Len(sigQ') = Len(sigQ) - 1
    BY <2>1, PopSeq
  <2>3. Len(sigQ') <= SigDepth
    BY <2>2, LenNat
  <2> QED
    BY <2>1, <2>2, <2>3
<1>7. CASE LeaveLoop
  <2>1. sigQ' = <<>> /\ UNCHANGED <<hup, term, sigPc>>
    BY <1>7 DEF LeaveLoop
  <2>2. sigQ' \in Seq({"reload", "shutdown"}) /\ Len(sigQ') <= SigDepth
    BY <2>1, EmptySeq
  <2> QED
    BY <2>1, <2>2
<1>8. CASE StartupDone
  BY <1>8 DEF StartupDone, SigPcs
<1>9. CASE StartupFails \/ Return \/ IgnoreEvent \/ FindSession \/ StartSession
  BY <1>1, <1>9 DEF StartupFails, Return, IgnoreEvent, FindSession, StartSession
<1>10. CASE StartFails \/ Deliver \/ DeliverFails
  BY <1>1, <1>10 DEF StartFails, Deliver, DeliverFails
<1>11. CASE UNCHANGED vars
  BY <1>1, <1>11 DEF vars
<1> QED
  BY <1>2, <1>3, <1>4, <1>5, <1>6, <1>7, <1>8, <1>9, <1>10, <1>11
     DEF Next, World, SignalTask, MainTask, Stopped
LEMMA EventNext == EventTypeOK /\ [Next]_vars => EventTypeOK'
<1> SUFFICES ASSUME EventTypeOK, [Next]_vars PROVE EventTypeOK'
  OBVIOUS
<1> USE DEF EventTypeOK
<1>1. ASSUME UNCHANGED events PROVE EventTypeOK'
  BY <1>1 DEF SseTaskRuns
<1>2. CASE EventArrives
  <2>1. PICK e \in Peers \cup {Noise} : events' = Append(events, e)
    BY <1>2 DEF EventArrives
  <2>2. events' \in Seq(Peers \cup {Noise, Closed})
        /\ Len(events') = Len(events) + 1
    BY <2>1, AppendSeq
  <2>3. Len(events') <= EventDepth
    BY <1>2, <2>2, LenNat DEF EventArrives
  <2> HIDE DEF SseTaskRuns
  <2> QED
    BY <2>2, <2>3
<1>3. CASE NextEvent
  <2>1. events # <<>> /\ events' = Tail(events)
    BY <1>3 DEF NextEvent
  <2>2. events' \in Seq(Peers \cup {Noise, Closed})
        /\ Len(events') = Len(events) - 1
    BY <2>1, PopSeq
  <2>3. Len(events') <= EventDepth
    BY <2>2, LenNat
  <2> QED
    BY <2>2, <2>3
<1>4. CASE IgnoreEvent \/ FindSession \/ StartSession \/ StartFails
  BY <1>3, <1>4 DEF IgnoreEvent, FindSession, StartSession, StartFails
<1>5. CASE EditFile \/ SendHup \/ SendTerm \/ SessionSteps \/ SignalTask
  BY <1>1, <1>5 DEF EditFile, SendHup, SendTerm, SessionSteps, LineWritten,
     SessionCloses, FarewellPosted, SessionEnds, SignalTask, Install,
     InstallFails, TakeHup, TakeTerm, PassOn
<1>6. CASE StartupDone \/ StartupFails \/ Reload \/ ReloadFails \/ LeaveLoop
  BY <1>1, <1>6 DEF StartupDone, StartupFails, Reload, ReloadFails, LeaveLoop
<1>7. CASE Return \/ Deliver \/ DeliverFails
  BY <1>1, <1>7 DEF Return, Deliver, DeliverFails
<1>8. CASE UNCHANGED vars
  BY <1>1, <1>8 DEF vars
<1>9. CASE SseTaskEnds
  <2>1. Len(events) <= EventDepth /\ events' = Append(events, Closed)
    BY <1>9, LenNat DEF SseTaskEnds
  <2>2. /\ events' \in Seq(Peers \cup {Noise, Closed})
        /\ Len(events') = Len(events) + 1 /\ events'[Len(events')] = Closed
    BY <2>1, AppendSeq
  <2>3. Len(events') <= EventDepth \/ Len(events') = EventDepth + 1
    BY <2>1, <2>2, LenNat
  <2>4. ~SseTaskRuns'
    BY <2>2, LenNat, EmptySeq DEF SseTaskRuns
  <2> QED
    BY <2>2, <2>3, <2>4
<1> QED
  BY <1>2, <1>4, <1>5, <1>6, <1>7, <1>8, <1>9 DEF Next, World, MainTask, Stopped

LEMMA MainNext ==
    MainTypeOK /\ PeerTypeOK /\ ConfigTypeOK /\ [Next]_vars => MainTypeOK'
<1> SUFFICES ASSUME MainTypeOK, PeerTypeOK, ConfigTypeOK, [Next]_vars
             PROVE  MainTypeOK'
  OBVIOUS
<1> USE DEF MainTypeOK, mainVars, peerVars
<1>1. ASSUME UNCHANGED <<mainVars, registry>> PROVE MainTypeOK'
  BY <1>1
<1>2. CASE SendHup \/ SendTerm
  BY <1>2 DEF SendHup, SendTerm, MainPcs
<1>3. CASE EditFile \/ EventArrives \/ SseTaskEnds \/ SessionSteps \/ SignalTask
  BY <1>1, <1>3 DEF EditFile, EventArrives, SseTaskEnds, SessionSteps, LineWritten,
     SessionCloses, FarewellPosted, SessionEnds, SignalTask, Install,
     InstallFails, TakeHup, TakeTerm, PassOn
<1>4. CASE StartupDone \/ StartupFails \/ LeaveLoop \/ Return
  BY <1>4 DEF StartupDone, StartupFails, LeaveLoop, Return, MainPcs
<1>5. CASE Reload \/ ReloadFails \/ IgnoreEvent \/ StartFails
  BY <1>5 DEF Reload, ReloadFails, IgnoreEvent, StartFails, NextEvent
<1>6. CASE FindSession
  BY <1>6 DEF FindSession, HasLiveHandle, MainPcs, ConfigTypeOK
<1>7. CASE StartSession
  <2> DEFINE p == Head(events)
  <2>1. p \in Peers /\ dm' = p /\ mainPc' = "send"
        /\ registry' = [registry EXCEPT ![p] = Len(session) + 1]
    BY <1>7 DEF StartSession, ConfigTypeOK
  <2>2. Len(session) \in Nat
    BY LenNat DEF PeerTypeOK
  <2>3. registry'[p] = Len(session) + 1
    BY <2>1 DEF PeerTypeOK
  <2> QED
    BY <2>1, <2>2, <2>3 DEF MainPcs
<1>8. CASE Deliver \/ DeliverFails
  BY <1>8 DEF Deliver, DeliverFails, MainPcs
<1>9. CASE UNCHANGED vars
  BY <1>1, <1>9 DEF vars
<1> QED
  BY <1>2, <1>3, <1>4, <1>5, <1>6, <1>7, <1>8, <1>9
     DEF Next, World, MainTask, Stopped

LEMMA PeerDeliver == PeerInv /\ MainTypeOK /\ Deliver => PeerInv'
<1> SUFFICES ASSUME PeerInv, MainTypeOK, Deliver PROVE PeerInv'
  OBVIOUS
<1> DEFINE s == registry[dm]
           w == session[s].accepted + 1
           r == [session[s] EXCEPT !.accepted = w]
<1>1. s \in Started /\ session[s] \in SessionState
  BY DEF PeerInv, PeerTypeOK, MainTypeOK, Deliver, Started
<1>2. r \in SessionState /\ r.owner = session[s].owner
      /\ r.told = session[s].told /\ r.phase = session[s].phase
  <2>1. w \in Nat
    BY <1>1 DEF SessionState
  <2> HIDE DEF s, w
  <2> QED
    BY <1>1, <2>1 DEF SessionState
<1>3. session' = [session EXCEPT ![s] = r] /\ UNCHANGED <<registry, whitelist>>
  BY DEF Deliver, configVars
<1> HIDE DEF s, r
<1> QED
  BY <1>1, <1>2, <1>3, PeerTouch

LEMMA PeerNext ==
    PeerInv /\ ConfigTypeOK /\ MainTypeOK /\ [Next]_vars => PeerInv'
<1> SUFFICES ASSUME PeerInv, ConfigTypeOK, MainTypeOK, [Next]_vars PROVE PeerInv'
  OBVIOUS
<1> USE DEF configVars, peerVars
<1>1. CASE World \/ SignalTask
  BY <1>1, PeerFrame DEF World, EditFile, SendHup, SendTerm, EventArrives,
     SseTaskEnds, SignalTask, Install, InstallFails, TakeHup, TakeTerm, PassOn
<1>2. CASE SessionSteps
  BY <1>2, PeerSessionSteps
<1>3. CASE MainTask
  <2>1. CASE StartupDone \/ StartupFails \/ ReloadFails \/ Return
    BY <2>1, PeerFrame DEF StartupDone, StartupFails, ReloadFails, Return
  <2>2. CASE IgnoreEvent \/ FindSession \/ DeliverFails
    BY <2>2, PeerFrame DEF IgnoreEvent, FindSession, DeliverFails
  <2> QED
    BY <1>3, <2>1, <2>2, PeerReload, PeerLeave, PeerStart, PeerStartFails,
       PeerDeliver DEF MainTask
<1>4. CASE UNCHANGED vars
  BY <1>4, PeerFrame DEF vars
<1> QED
  BY <1>1, <1>2, <1>3, <1>4 DEF Next, Stopped

DaemonInv ==
    ConfigTypeOK /\ PeerInv /\ MainTypeOK /\ EventTypeOK /\ SignalTypeOK
        /\ CountTypeOK

LEMMA DaemonInit == Init => DaemonInv
<1> SUFFICES ASSUME Init PROVE DaemonInv
  OBVIOUS
<1>1. ConfigTypeOK
  BY DEF Init, ConfigTypeOK
<1>7. CountTypeOK
  <2>1. 0 \in 0..MaxEvents /\ 0 \in 0..MaxEdits /\ 0 \in 0..MaxHups
    OBVIOUS
  <2> QED
    BY <2>1 DEF Init, CountTypeOK
<1>2. session = <<>> /\ registry = [p \in Peers |-> 0] /\ events = <<>>
      /\ sigQ = <<>> /\ mainPc = "startup" /\ dm = Noise /\ hup = FALSE
      /\ term = FALSE /\ sigPc = "unspawned"
  BY DEF Init
<1>3. Len(session) = 0 /\ Len(events) = 0 /\ Len(sigQ) = 0 /\ Started = {}
  BY <1>2, EmptySeq DEF Started
<1>4. PeerInv
  <2>1. session \in Seq(SessionState) /\ \A p \in Peers : registry[p] = 0
    BY <1>2, EmptySeq
  <2> QED
    BY <1>2, <1>3, <2>1 DEF PeerInv, PeerTypeOK, RegistryWhitelisted,
       HeldIsUntold, NoSessionForgotten
<1>5. MainTypeOK
  BY <1>2 DEF MainTypeOK, MainPcs
<1>6. EventTypeOK /\ SignalTypeOK
  <2>1. /\ events \in Seq(Peers \cup {Noise, Closed})
        /\ sigQ \in Seq({"reload", "shutdown"})
    BY <1>2, EmptySeq
  <2>2. Len(events) <= EventDepth /\ Len(sigQ) <= SigDepth
    BY <1>3
  <2> QED
    BY <1>2, <2>1, <2>2 DEF EventTypeOK, SignalTypeOK, SigPcs
<1> QED
  BY <1>1, <1>4, <1>5, <1>6, <1>7 DEF DaemonInv

LEMMA DaemonInvariant == Spec => []DaemonInv
<1>1. DaemonInv /\ [Next]_vars => DaemonInv'
  BY ConfigNext, PeerNext, MainNext, EventNext, SignalNext, CountNext
     DEF DaemonInv, PeerInv
<1> QED
  BY <1>1, DaemonInit, PTL DEF Spec

-----------------------------------------------------------------------------
(* The theorems. *)

\* The channels of events and signals never hold more than their depth, and a
\* peer's handle always is one of a session of that peer.
THEOREM TypeCorrect == Spec => []TypeOK
<1>1. DaemonInv => TypeOK
  BY DEF DaemonInv, PeerInv, TypeOK
<1> QED
  BY <1>1, DaemonInvariant, PTL

\* The registry never holds a peer that is not on the whitelist in force.
THEOREM RegistryFollowsWhitelist == Spec => []RegistryWhitelisted
<1>1. DaemonInv => RegistryWhitelisted
  BY DEF DaemonInv, PeerInv
<1> QED
  BY <1>1, DaemonInvariant, PTL

\* A session the registry does not hold was told to end or has ended: a peer
\* has at most one session that was not told.
THEOREM SessionsRemembered == Spec => []NoSessionForgotten
<1>1. DaemonInv => NoSessionForgotten
  BY DEF DaemonInv, PeerInv
<1> QED
  BY <1>1, DaemonInvariant, PTL
LEMMA OnlyDeliverDrives ==
    ASSUME DaemonInv, [Next]_vars, ~Deliver, NEW s \in Started
    PROVE  session'[s].accepted = session[s].accepted
<1>1. session \in Seq(SessionState) /\ session[s] \in SessionState
  BY DEF DaemonInv, PeerInv, PeerTypeOK, Started
<1>2. CASE UNCHANGED session
  BY <1>2
<1>3. CASE World \/ SignalTask
  BY <1>2, <1>3 DEF World, EditFile, SendHup, SendTerm, EventArrives, SseTaskEnds,
     peerVars,
     SignalTask, Install, InstallFails, TakeHup, TakeTerm, PassOn
<1>4. CASE SessionSteps
  <2> SUFFICES ASSUME NEW t \in Started,
                      LineWritten(t) \/ SessionCloses(t) \/ FarewellPosted(t)
                         \/ SessionEnds(t)
               PROVE  session'[s].accepted = session[s].accepted
    BY <1>4 DEF SessionSteps
  <2>1. session[t] \in SessionState
    BY DEF DaemonInv, PeerInv, PeerTypeOK, Started
  <2>2. CASE LineWritten(t)
    <3>1. session' = [session EXCEPT ![t].written = @ + 1]
      BY <2>2 DEF LineWritten
    <3> QED
      BY <1>1, <2>1, <3>1 DEF SessionState, Started
  <2>3. CASE SessionCloses(t)
    <3>1. session' = [session EXCEPT ![t].phase = "closing"]
      BY <2>3 DEF SessionCloses
    <3> QED
      BY <1>1, <2>1, <3>1 DEF SessionState, Started
  <2>4. CASE FarewellPosted(t)
    <3>1. session' = [session EXCEPT ![t].posted = Farewell]
      BY <2>4 DEF FarewellPosted
    <3> QED
      BY <1>1, <2>1, <3>1 DEF SessionState, Started
  <2>5. CASE SessionEnds(t)
    <3>1. session' = [session EXCEPT ![t].phase = "closed"]
      BY <2>5 DEF SessionEnds
    <3> QED
      BY <1>1, <2>1, <3>1 DEF SessionState, Started
  <2> QED
    BY <2>2, <2>3, <2>4, <2>5
<1>5. CASE Reload \/ LeaveLoop
  <2>1. \E ps, why : session' = Tell(ps, why)
    BY <1>5 DEF Reload, LeaveLoop
  <2> QED
    BY <1>1, <2>1 DEF Tell, SessionState
<1>6. CASE StartSession
  <2>1. Head(events) \in Peers
    BY <1>6 DEF StartSession, DaemonInv, ConfigTypeOK
  <2>2. NewSession(Head(events)) \in SessionState
    BY <2>1 DEF NewSession, SessionState, Phases, Told
  <2>3. session' = Append(session, NewSession(Head(events)))
    BY <1>6 DEF StartSession
  <2>4. session'[s] = session[s]
    BY <1>1, <2>2, <2>3, AppendSeq DEF Started
  <2> QED
    BY <2>4
<1>7. CASE StartupDone \/ StartupFails \/ ReloadFails \/ Return \/ IgnoreEvent
  BY <1>2, <1>7 DEF StartupDone, StartupFails, ReloadFails, Return, IgnoreEvent,
     peerVars
<1>8. CASE FindSession \/ StartFails \/ DeliverFails
  BY <1>2, <1>8 DEF FindSession, StartFails, DeliverFails, peerVars
<1>9. CASE UNCHANGED vars
  BY <1>2, <1>9 DEF vars, peerVars
<1> QED
  BY <1>3, <1>4, <1>5, <1>6, <1>7, <1>8, <1>9 DEF Next, MainTask, Stopped

\* The trust boundary: a line reaches a session only while its owner is on the
\* whitelist in force and the session was not told to end.
THEOREM WhitelistedDrive == Spec => OnlyWhitelistedDrive
<1> DEFINE Drive(s) ==
      session'[s].accepted > session[s].accepted
          => session[s].owner \in whitelist /\ session[s].told = "none"
<1>1. ASSUME DaemonInv, [Next]_vars, NEW s \in Started PROVE Drive(s)
  <2>1. session \in Seq(SessionState) /\ session[s] \in SessionState
    BY <1>1 DEF DaemonInv, PeerInv, PeerTypeOK, Started
  <2>2. CASE ~Deliver
    <3>1. session'[s].accepted = session[s].accepted
      BY <1>1, <2>2, OnlyDeliverDrives
    <3>2. session[s].accepted \in Nat
      BY <2>1 DEF SessionState
    <3> QED
      BY <3>1, <3>2
  <2>3. CASE Deliver /\ s # registry[dm]
    <3>1. session'[s] = session[s]
      BY <2>1, <2>3 DEF Deliver, Started
    <3>2. session[s].accepted \in Nat
      BY <2>1 DEF SessionState
    <3> QED
      BY <3>1, <3>2
  <2>4. CASE Deliver /\ s = registry[dm]
    <3>1. dm \in Peers /\ registry[dm] # 0
      BY <1>1, <2>4 DEF DaemonInv, MainTypeOK, Deliver
    <3>2. session[s].owner = dm /\ dm \in whitelist /\ session[s].told = "none"
      BY <1>1, <2>4, <3>1 DEF DaemonInv, PeerInv, PeerTypeOK,
         RegistryWhitelisted, HeldIsUntold
    <3> QED
      BY <3>2
  <2> QED
    BY <2>2, <2>3, <2>4
<1>2. DaemonInv /\ [Next]_vars => [\A s \in Started : Drive(s)]_vars
  BY <1>1
<1> QED
  BY <1>2, DaemonInvariant, PTL DEF Spec, OnlyWhitelistedDrive

-----------------------------------------------------------------------------
(* Every session is used as ShellSession allows.  A number that no session   *)
(* has yet stands for one that has not begun, so that the start of a session *)
(* is a stutter of it.                                                       *)

ShellStep(s) == Shell(s)!Next \/ UNCHANGED Shell(s)!vars

LEMMA ShellStutter ==
    ASSUME NEW s, At(s)'.phase = At(s).phase, At(s)'.accepted = At(s).accepted,
           At(s)'.written = At(s).written, At(s)'.posted = At(s).posted
    PROVE  ShellStep(s)
  BY DEF ShellStep, Shell!vars

\* What changes no session is a stutter of all of them, and a change of one of
\* them is a stutter of the others.
LEMMA ShellKept ==
    ASSUME NEW s, PeerTypeOK, UNCHANGED session PROVE ShellStep(s)
<1>1. At(s)' = At(s)
  BY DEF At, Started
<1> QED
  BY <1>1, ShellStutter

LEMMA ShellPut ==
    ASSUME PeerTypeOK, NEW t \in Started, NEW r,
           session' = [session EXCEPT ![t] = r], NEW s
    PROVE  /\ At(t) = session[t] /\ At(t)' = r
           /\ s # t => ShellStep(s)
<1>1. session \in Seq(SessionState)
  BY DEF PeerTypeOK
<1>2. Started' = Started /\ session'[t] = r
      /\ \A i \in Started : i # t => session'[i] = session[i]
  BY <1>1 DEF Started
<1>3. At(t) = session[t] /\ At(t)' = r
  BY <1>2 DEF At
<1>4. ASSUME s # t PROVE At(s)' = At(s)
  BY <1>2, <1>4 DEF At
<1> QED
  BY <1>3, <1>4, ShellStutter

LEMMA ShellSessionSteps ==
    ASSUME PeerTypeOK, SessionSteps, NEW s PROVE ShellStep(s)
<1> SUFFICES ASSUME NEW t \in Started,
                    LineWritten(t) \/ SessionCloses(t) \/ FarewellPosted(t)
                       \/ SessionEnds(t)
             PROVE  ShellStep(s)
  BY DEF SessionSteps
<1>1. session[t] \in SessionState
  BY DEF PeerTypeOK, Started
<1>2. CASE LineWritten(t)
  <2> DEFINE r == [session[t] EXCEPT !.written = @ + 1]
  <2>1. session' = [session EXCEPT ![t] = r]
        /\ session[t].written < session[t].accepted
    BY <1>2 DEF LineWritten
  <2>2. r.phase = session[t].phase /\ r.accepted = session[t].accepted
        /\ r.written = session[t].written + 1 /\ r.posted = session[t].posted
    BY <1>1 DEF SessionState
  <2> HIDE DEF r
  <2>3. s = t => Shell(s)!Write
    BY <2>1, <2>2, ShellPut, ZenonT(30) DEF Shell!Write
  <2> QED
    BY <2>1, <2>3, ShellPut DEF ShellStep, Shell!Next
<1>3. CASE SessionCloses(t)
  <2> DEFINE r == [session[t] EXCEPT !.phase = "closing"]
  <2>1. session' = [session EXCEPT ![t] = r] /\ session[t].phase = "open"
    BY <1>3 DEF SessionCloses
  <2>2. r.phase = "closing" /\ r.accepted = session[t].accepted
        /\ r.written = session[t].written /\ r.posted = session[t].posted
    BY <1>1 DEF SessionState
  <2> HIDE DEF r
  <2>3. s = t => Shell(s)!Close
    BY <2>1, <2>2, ShellPut, ZenonT(30) DEF Shell!Close
  <2> QED
    BY <2>1, <2>3, ShellPut DEF ShellStep, Shell!Next
<1>4. CASE FarewellPosted(t)
  <2> DEFINE r == [session[t] EXCEPT !.posted = Farewell]
  <2>1. session' = [session EXCEPT ![t] = r] /\ session[t].phase = "closing"
        /\ session[t].posted = NoPost
    BY <1>4 DEF FarewellPosted
  <2>2. r.phase = session[t].phase /\ r.accepted = session[t].accepted
        /\ r.written = session[t].written /\ r.posted = Farewell
    BY <1>1 DEF SessionState
  <2> HIDE DEF r
  <2>3. /\ Farewell \in [t : Shell(s)!ItemTypes \ {"none"}, n : {Farewell.n}]
        /\ Farewell.t = "bye" /\ Farewell.n = 1
        /\ NoPost.t = "none" /\ NoPost.n = 0
    BY DEF Farewell, NoPost, Shell!ItemTypes
  <2>4. s = t => Shell(s)!Post
    <3> SUFFICES ASSUME s = t PROVE Shell(s)!Post
      OBVIOUS
    <3>1. At(s) = session[t] /\ At(s)' = r
      BY <2>1, ShellPut
    <3> QED
      BY <2>1, <2>2, <2>3, <3>1 DEF Shell!Post
  <2> QED
    BY <2>1, <2>4, ShellPut DEF ShellStep, Shell!Next
<1>5. CASE SessionEnds(t)
  <2> DEFINE r == [session[t] EXCEPT !.phase = "closed"]
  <2>1. session' = [session EXCEPT ![t] = r] /\ session[t].phase = "closing"
    BY <1>5 DEF SessionEnds
  <2>2. r.phase = "closed" /\ r.accepted = session[t].accepted
        /\ r.written = session[t].written /\ r.posted = session[t].posted
    BY <1>1 DEF SessionState
  <2> HIDE DEF r
  <2>3. s = t => Shell(s)!End
    BY <2>1, <2>2, ShellPut, ZenonT(30) DEF Shell!End
  <2> QED
    BY <2>1, <2>3, ShellPut DEF ShellStep, Shell!Next
<1> QED
  BY <1>2, <1>3, <1>4, <1>5

\* Telling leaves alone what ShellSession sees of a session.
LEMMA ShellTold ==
    ASSUME PeerTypeOK, NEW ps, NEW why, session' = Tell(ps, why), NEW s
    PROVE  ShellStep(s)
<1>1. session \in Seq(SessionState)
  BY DEF PeerTypeOK
<1>2. Started' = Started
  BY <1>1 DEF Tell, Started
<1>3. CASE s \in Started
  <2>1. session[s] \in SessionState
    BY <1>1, <1>3 DEF Started
  <2>2. session'[s] = session[s]
        \/ session'[s] = [session[s] EXCEPT !.told = why]
    BY <1>3 DEF Tell
  <2>3. At(s) = session[s] /\ At(s)' = session'[s]
    BY <1>2, <1>3 DEF At
  <2>4. /\ session'[s].phase = session[s].phase
        /\ session'[s].accepted = session[s].accepted
        /\ session'[s].written = session[s].written
        /\ session'[s].posted = session[s].posted
    BY <2>1, <2>2 DEF SessionState
  <2> QED
    BY <2>3, <2>4, ShellStutter
<1>4. CASE s \notin Started
  <2>1. At(s)' = At(s)
    BY <1>2, <1>4 DEF At
  <2> QED
    BY <2>1, ShellStutter
<1> QED
  BY <1>3, <1>4

LEMMA ShellStarts ==
    ASSUME PeerTypeOK, ConfigTypeOK, StartSession, NEW s PROVE ShellStep(s)
<1> DEFINE p == Head(events)
<1>1. p \in Peers /\ session' = Append(session, NewSession(p))
  BY DEF StartSession, ConfigTypeOK
<1>2. NewSession(p) \in SessionState /\ session \in Seq(SessionState)
  BY <1>1 DEF NewSession, SessionState, Phases, Told, PeerTypeOK
<1>3. Started' = 1..(Len(session) + 1) /\ Len(session) \in Nat
  BY <1>1, <1>2, AppendSeq, LenNat DEF Started
<1>4. CASE s \in Started
  <2>1. s \in Started' /\ session'[s] = session[s]
    BY <1>1, <1>2, <1>3, <1>4, AppendSeq DEF Started
  <2>2. At(s)' = At(s)
    BY <1>4, <2>1 DEF At
  <2> QED
    BY <2>2, ShellStutter
<1>5. CASE s = Len(session) + 1
  <2>1. s \notin Started /\ s \in Started' /\ session'[s] = NewSession(p)
    BY <1>1, <1>2, <1>3, <1>5, AppendSeq DEF Started
  <2>2. At(s) = NewSession(Noise) /\ At(s)' = NewSession(p)
    BY <2>1 DEF At
  <2> QED
    BY <2>2, ShellStutter DEF NewSession
<1>6. CASE s \notin Started /\ s # Len(session) + 1
  <2>1. s \notin Started'
    BY <1>3, <1>6 DEF Started
  <2>2. At(s)' = At(s)
    BY <1>6, <2>1 DEF At, NewSession
  <2> QED
    BY <2>2, ShellStutter
<1> QED
  BY <1>4, <1>5, <1>6

LEMMA ShellDelivers ==
    ASSUME PeerTypeOK, MainTypeOK, Deliver, NEW s PROVE ShellStep(s)
<1> DEFINE t == registry[dm]
           r == [session[t] EXCEPT !.accepted = @ + 1]
<1>1. t \in Started /\ session[t] \in SessionState
  BY DEF PeerTypeOK, MainTypeOK, Deliver, Started
<1>2. session' = [session EXCEPT ![t] = r] /\ session[t].phase # "closed"
  BY DEF Deliver
<1>3. r.phase = session[t].phase /\ r.accepted = session[t].accepted + 1
      /\ r.written = session[t].written /\ r.posted = session[t].posted
  BY <1>1 DEF SessionState
<1> HIDE DEF r, t
<1>4. s = t => Shell(s)!Accept
  BY <1>1, <1>2, <1>3, ShellPut, ZenonT(30) DEF Shell!Accept
<1> QED
  BY <1>1, <1>2, <1>4, ShellPut DEF ShellStep, Shell!Next

LEMMA ShellNext ==
    ASSUME DaemonInv, [Next]_vars, NEW s PROVE ShellStep(s)
<1>1. PeerTypeOK /\ ConfigTypeOK /\ MainTypeOK
  BY DEF DaemonInv, PeerInv
<1>2. CASE UNCHANGED session
  BY <1>1, <1>2, ShellKept
<1>3. CASE World \/ SignalTask
  BY <1>2, <1>3 DEF World, EditFile, SendHup, SendTerm, EventArrives,
     SseTaskEnds, peerVars, SignalTask, Install, InstallFails, TakeHup,
     TakeTerm, PassOn
<1>4. CASE Reload \/ LeaveLoop
  <2>1. \E ps, why : session' = Tell(ps, why)
    BY <1>4 DEF Reload, LeaveLoop
  <2> QED
    BY <1>1, <2>1, ShellTold
<1>5. CASE StartupDone \/ StartupFails \/ ReloadFails \/ Return \/ IgnoreEvent
  BY <1>2, <1>5 DEF StartupDone, StartupFails, ReloadFails, Return, IgnoreEvent,
     peerVars
<1>6. CASE FindSession \/ StartFails \/ DeliverFails
  BY <1>2, <1>6 DEF FindSession, StartFails, DeliverFails, peerVars
<1>7. CASE UNCHANGED vars
  BY <1>2, <1>7 DEF vars, peerVars
<1> QED
  BY <1>1, <1>3, <1>4, <1>5, <1>6, <1>7, ShellSessionSteps, ShellStarts,
     ShellDelivers DEF Next, MainTask, Stopped

\* No session takes a line or posts after it closed, types a line it was not
\* handed, or opens again: what the daemon and the sessions do together is what
\* ShellSession allows, for every session.
THEOREM SessionsRespected == Spec => SessionsAreShellSessions
<1>1. Init => \A s \in 1..MaxSessions : Shell(s)!Init
  BY DEF Init, At, Started, NewSession, NoPost, Shell!Init
<1>2. DaemonInv /\ [Next]_vars =>
         [\A s \in 1..MaxSessions :
             Shell(s)!Next \/ UNCHANGED Shell(s)!vars]_vars
  BY ShellNext DEF ShellStep
<1> QED
  BY <1>1, <1>2, DaemonInvariant, PTL DEF Spec, SessionsAreShellSessions
=============================================================================
