------------------------- MODULE ConfigurationProofs -------------------------
(***************************************************************************)
(* Theorems about Configuration, for all peers, files of any length, and   *)
(* all lists of identities.                                                *)
(***************************************************************************)
EXTENDS Configuration, FiniteSetTheorems, TLAPS

-----------------------------------------------------------------------------
(* What a file that loads becomes. *)

Keys(f) == {f.entries[i].key : i \in 1..Len(f.entries)}

WholeFile(f, list) ==
    LET es == f.entries IN
    /\ Cardinality(DOMAIN list) = Len(es)
    /\ \A i \in 1..Len(es) :
        /\ es[i].spelling # "wrong" /\ es[i].key \in DOMAIN list
        /\ LET s == list[es[i].key] IN
           /\ s.idle = Or(es[i].own.idle, f.default.idle)
           /\ s.chars = Or(es[i].own.chars, f.default.chars)

LEMMA FileType ==
    ASSUME NEW f \in File
    PROVE  /\ Len(f.entries) \in Nat
           /\ \A i \in 1..Len(f.entries) : f.entries[i] \in Entry
           /\ f.default \in Settings
<1>1. f.entries \in SeqsUpTo(Entry, MaxEntries) /\ f.default \in Settings
  BY DEF File
<1>2. PICK m \in 0..MaxEntries : f.entries \in [1..m -> Entry]
  BY <1>1 DEF SeqsUpTo
<1>3. m \in Nat
  BY ConfigurationAssumption
<1>4. Len(f.entries) = m
  BY <1>2, <1>3
<1> QED
  BY <1>1, <1>2, <1>3, <1>4

LEMMA ValidatedType ==
    ASSUME NEW f \in File
    PROVE  /\ DOMAIN Validated(f) = Keys(f) /\ Keys(f) \subseteq Peers
           /\ \A p \in Keys(f) : Validated(f)[p] \in Settings
<1>1. DOMAIN Validated(f) = Keys(f)
  BY DEF Validated, Keys
<1>2. Keys(f) \subseteq Peers
  BY FileType DEF Keys, Entry
<1>3. ASSUME NEW p \in Keys(f) PROVE Validated(f)[p] \in Settings
  <2> DEFINE e == CHOOSE i \in 1..Len(f.entries) : f.entries[i].key = p
             own == f.entries[e].own
  <2>1. e \in 1..Len(f.entries)
    BY <1>3 DEF Keys
  <2>2. f.entries[e] \in Entry
    BY <2>1, FileType
  <2>3. own \in Settings /\ f.default \in Settings
    BY <2>2, FileType DEF Entry
  <2>4. Validated(f)[p] = [idle |-> Or(own.idle, f.default.idle),
                           chars |-> Or(own.chars, f.default.chars)]
    BY <1>3 DEF Validated, Keys
  <2> HIDE DEF own
  <2> QED
    BY <2>3, <2>4 DEF Settings, Or
<1> QED
  BY <1>1, <1>2, <1>3

(* No entry is lost: keys that differ as peers are as many as the entries.   *)
LEMMA LoadedWhole ==
    ASSUME NEW f \in File, Loads(f)
    PROVE  WholeFile(f, Validated(f))
<1> DEFINE n == Len(f.entries)
<1>1. n \in Nat
  BY FileType
<1>2. ASSUME NEW i \in 1..n, NEW j \in 1..n, f.entries[i].key = f.entries[j].key
      PROVE  i = j
  <2>1. ~(i < j) /\ ~(j < i)
    BY <1>1, <1>2 DEF Loads, Seen
  <2> QED
    BY <1>1, <2>1
<1>3. Cardinality(Keys(f)) = n
  <2> DEFINE key == [i \in 1..n |-> f.entries[i].key]
  <2>1. key \in Bijection(1..n, Keys(f))
    <3>1. key \in [1..n -> Keys(f)]
      BY DEF Keys
    <3>2. \A i, j \in 1..n : key[i] = key[j] => i = j
      BY <1>2
    <3>3. \A k \in Keys(f) : \E i \in 1..n : key[i] = k
      BY DEF Keys
    <3> QED
      BY <3>1, <3>2, <3>3 DEF Bijection, Injection, Surjection, IsInjective
  <2>2. IsFiniteSet(1..n) /\ Cardinality(1..n) = n
    <3>1. Cardinality(1..n) = (IF 1 > n THEN 0 ELSE n - 1 + 1) /\ IsFiniteSet(1..n)
      BY <1>1, FS_Interval, SMTT(30)
    <3> QED
      BY <1>1, <3>1
  <2>3. ExistsBijection(1..n, Keys(f))
    BY <2>1 DEF ExistsBijection
  <2> QED
    BY <2>2, <2>3, FS_Bijection
<1>4. ASSUME NEW i \in 1..n
      PROVE  LET e == f.entries[i]
                 s == Validated(f)[e.key]
             IN  /\ e.spelling # "wrong" /\ e.key \in Keys(f)
                 /\ s.idle = Or(e.own.idle, f.default.idle)
                 /\ s.chars = Or(e.own.chars, f.default.chars)
  <2> DEFINE p == f.entries[i].key
             e == CHOOSE j \in 1..n : f.entries[j].key = p
  <2>1. e \in 1..n /\ f.entries[e].key = p
    OBVIOUS
  <2>2. e = i
    BY <1>2, <2>1
  <2>3. p \in Keys(f)
    BY DEF Keys
  <2>4. Validated(f)[p] = [idle |-> Or(f.entries[e].own.idle, f.default.idle),
                           chars |-> Or(f.entries[e].own.chars, f.default.chars)]
    BY <2>3 DEF Validated, Keys
  <2>5. f.entries[i].spelling # "wrong"
    BY DEF Loads
  <2> HIDE DEF e
  <2>6. /\ Validated(f)[p].idle = Or(f.entries[e].own.idle, f.default.idle)
        /\ Validated(f)[p].chars = Or(f.entries[e].own.chars, f.default.chars)
    BY <2>4
  <2> QED
    BY <2>2, <2>3, <2>5, <2>6
<1> QED
  BY <1>3, <1>4, ValidatedType DEF WholeFile

-----------------------------------------------------------------------------
(* The inductive invariant: there are no sessions before the loop.           *)

NoSessionYet == phase # "running" => \A p \in Peers : handle[p] = None

ConfInv ==
    /\ TypeOK /\ NoSessionYet
    /\ WholeFileInForce /\ StaleChangeCounted

LEMMA InForce == WholeFileInForce <=> WholeFile(accepted, whitelist)
BY DEF WholeFileInForce, WholeFile

LEMMA InitConf == Init => ConfInv
<1> SUFFICES ASSUME Init PROVE ConfInv
  OBVIOUS
<1>1. DOMAIN whitelist = {} /\ accepted.entries = <<>>
  BY DEF Init, NoList, NoFile
<1>2. TypeOK
  BY <1>1 DEF Init, TypeOK, Phases
<1>3. WholeFileInForce
  <2>1. Len(accepted.entries) = 0 /\ Cardinality(DOMAIN whitelist) = 0
    BY <1>1, FS_EmptySet
  <2> QED
    BY <2>1 DEF WholeFileInForce
<1> QED
  BY <1>2, <1>3 DEF Init, ConfInv, NoSessionYet, StaleChangeCounted

(* Steps that leave list and sessions alone. *)
LEMMA FrameConf ==
    ASSUME ConfInv, UNCHANGED <<listVars, sessionVars>>,
           phase' \in Phases, phase' # "running" \/ phase = "running"
              \/ \A p \in Peers : handle[p] = None,
           phase = "running" => phase' = "running",
           wanted' \in Ids \cup {None}, identity' \in Ids \cup {None},
           token' \in {Sources[i] : i \in 1..4} \cup {None}
    PROVE  ConfInv'
<1>1. TypeOK'
  BY DEF ConfInv, TypeOK, listVars, sessionVars
<1> QED
  BY <1>1 DEF ConfInv, NoSessionYet, WholeFileInForce, StaleChangeCounted,
     listVars, sessionVars

LEMMA StartupConf ==
    ASSUME ConfInv,
           \/ LoadConfig
           \/ \E f \in File : LoadWhitelist(f)
           \/ \E w \in Worlds : LoadToken(w)
           \/ \E listed \in SUBSET Ids : ResolveIdentity(listed)
           \/ ListingFails \/ Begin
    PROVE  ConfInv'
<1>0. /\ phase \in Phases /\ wanted \in Ids \cup {None}
      /\ identity \in Ids \cup {None}
      /\ token \in {Sources[i] : i \in 1..4} \cup {None}
  BY DEF ConfInv, TypeOK
<1>1. ASSUME NEW w, Fail(w), phase # "running" PROVE ConfInv'
  BY <1>0, <1>1, FrameConf DEF Fail, Phases
<1>2. CASE LoadConfig
  <2>1. CASE Fail(None)
    BY <1>1, <1>2, <2>1 DEF LoadConfig
  <2>2. CASE ~Fail(None)
    BY <1>0, <1>2, <2>2, FrameConf DEF LoadConfig, Phases
  <2> QED
    BY <2>1, <2>2
<1>3. ASSUME NEW f \in File, LoadWhitelist(f) PROVE ConfInv'
  <2>1. CASE Loads(f)
    <3>1. /\ accepted' = f /\ whitelist' = Validated(f) /\ phase' = "token"
          /\ UNCHANGED <<wanted, token, identity, handle, counted>>
      BY <1>3, <2>1 DEF LoadWhitelist, sessionVars
    <3>2. \A p \in Peers : handle[p] = None
      BY <1>3 DEF LoadWhitelist, ConfInv, NoSessionYet
    <3>3. TypeOK'
      BY <1>0, <3>1, <3>2, ValidatedType DEF ConfInv, TypeOK, Phases
    <3>4. WholeFileInForce'
      BY <2>1, <3>1, LoadedWhole DEF WholeFileInForce, WholeFile
    <3> QED
      BY <3>1, <3>2, <3>3, <3>4 DEF ConfInv, NoSessionYet, StaleChangeCounted
  <2>2. CASE ~Loads(f)
    BY <1>1, <1>3, <2>2 DEF LoadWhitelist
  <2> QED
    BY <2>1, <2>2
<1>4. ASSUME NEW w \in Worlds, LoadToken(w) PROVE ConfInv'
  <2>1. CASE \E v : Fail(v)
    BY <1>1, <1>4, <2>1 DEF LoadToken
  <2>2. CASE ~\E v : Fail(v)
    <3>1. /\ token' \in {Sources[i] : i \in 1..4} /\ phase' = "identity"
          /\ UNCHANGED <<wanted, identity, listVars, sessionVars>>
      BY <1>4, <2>2 DEF LoadToken
    <3> QED
      BY <1>0, <1>4, <3>1, FrameConf DEF Phases, LoadToken
  <2> QED
    BY <2>1, <2>2
<1>5. ASSUME NEW listed \in SUBSET Ids, ResolveIdentity(listed) PROVE ConfInv'
  <2>1. CASE Fail(listed)
    BY <1>1, <1>5, <2>1 DEF ResolveIdentity
  <2>2. CASE ~Fail(listed)
    <3> DEFINE chosen == IF wanted = None THEN listed ELSE listed \cap {wanted}
    <3>1. /\ Cardinality(chosen) = 1 /\ identity' = CHOOSE i \in chosen : TRUE
          /\ phase' = "resolved"
          /\ UNCHANGED <<wanted, token, listVars, sessionVars>>
      BY <1>5, <2>2 DEF ResolveIdentity
    <3>2. chosen \subseteq Ids /\ chosen # {}
      BY <3>1, FS_EmptySet
    <3>3. identity' \in Ids
      BY <3>1, <3>2
    <3> QED
      BY <1>0, <1>5, <3>1, <3>3, FrameConf DEF Phases, ResolveIdentity
  <2> QED
    BY <2>1, <2>2
<1>6. CASE ListingFails
  BY <1>1, <1>6 DEF ListingFails
<1>7. CASE Begin
  <2>1. \A p \in Peers : handle[p] = None
    BY <1>7 DEF Begin, ConfInv, NoSessionYet
  <2> QED
    BY <1>0, <1>7, <2>1, FrameConf DEF Begin, Phases
<1> QED
  BY <1>2, <1>3, <1>4, <1>5, <1>6, <1>7

LEMMA ReloadConf ==
    ASSUME ConfInv, NEW f \in File, Reload(f) PROVE ConfInv'
<1> DEFINE new == Validated(f)
<1>1. /\ accepted' = f /\ whitelist' = new
      /\ handle' = [p \in Peers |-> IF p \in Removed(new) THEN None ELSE handle[p]]
      /\ counted' = {p \in IF Changed(new) # {} THEN Peers ELSE counted : handle'[p] # None}
      /\ UNCHANGED startupVars /\ phase = "running" /\ Loads(f)
  BY DEF Reload, CountedBy
<1>2. /\ DOMAIN new \subseteq Peers
      /\ \A p \in DOMAIN new : new[p] \in Settings
  BY ValidatedType
<1>3. WholeFile(f, new)
  BY <1>1, LoadedWhole
<1> HIDE DEF new
<1>4. handle \in [Peers -> Settings \cup {None}] /\ counted \in SUBSET Peers
      /\ DOMAIN whitelist \subseteq Peers
      /\ \A p \in Peers : handle[p] # None => p \in DOMAIN whitelist
  BY DEF ConfInv, TypeOK
<1>5. TypeOK'
  <2>1. handle' \in [Peers -> Settings \cup {None}]
    BY <1>1, <1>4
  <2>2. counted' \in SUBSET Peers
    BY <1>1, <1>4
  <2>3. \A p \in Peers : handle'[p] # None => p \in DOMAIN whitelist'
    BY <1>1, <1>4 DEF Removed
  <2>4. UNCHANGED <<phase, wanted, token, identity>>
    BY <1>1 DEF startupVars
  <2>5. DOMAIN whitelist' \subseteq Peers
        /\ \A p \in DOMAIN whitelist' : whitelist'[p] \in Settings
    BY <1>1, <1>2
  <2>6. /\ phase \in Phases /\ wanted \in Ids \cup {None}
        /\ identity \in Ids \cup {None}
        /\ token \in {Sources[i] : i \in 1..4} \cup {None}
    BY DEF ConfInv, TypeOK
  <2> QED
    BY <2>1, <2>2, <2>3, <2>4, <2>5, <2>6 DEF TypeOK
<1>6. NoSessionYet'
  BY <1>1 DEF NoSessionYet, startupVars
<1>7. WholeFileInForce'
  BY <1>1, <1>3 DEF WholeFileInForce, WholeFile
<1>8. StaleChangeCounted'
  <2> SUFFICES ASSUME NEW p \in Peers, handle'[p] # None, handle'[p] # whitelist'[p]
               PROVE  p \in counted'
    BY DEF StaleChangeCounted
  <2>1. p \notin Removed(new) /\ handle'[p] = handle[p]
    BY <1>1
  <2>2. p \in DOMAIN whitelist \cap DOMAIN new
    BY <1>4, <2>1 DEF Removed
  <2>3. CASE whitelist[p] # new[p]
    BY <1>1, <2>2, <2>3 DEF Changed
  <2>4. CASE whitelist[p] = new[p]
    <3>1. p \in counted
      BY <1>1, <2>1, <2>4 DEF ConfInv, StaleChangeCounted
    <3> QED
      BY <1>1, <3>1
  <2> QED
    BY <2>3, <2>4
<1> QED
  BY <1>5, <1>6, <1>7, <1>8 DEF ConfInv

LEMMA SessionConf ==
    ASSUME ConfInv, NEW p \in Peers, StartSession(p) \/ EndSession(p)
    PROVE  ConfInv'
<1>0. /\ UNCHANGED <<phase, wanted, token, identity, accepted, whitelist>>
      /\ phase = "running"
  BY DEF StartSession, EndSession, startupVars, listVars
<1>1. handle \in [Peers -> Settings \cup {None}] /\ counted \in SUBSET Peers
      /\ \A q \in DOMAIN whitelist : whitelist[q] \in Settings
  BY DEF ConfInv, TypeOK
<1>2. handle' \in [Peers -> Settings \cup {None}] /\ counted' \in SUBSET Peers
  BY <1>1 DEF StartSession, EndSession
<1>3. \A q \in Peers : handle'[q] # None => q \in DOMAIN whitelist'
  BY <1>0, <1>1 DEF StartSession, EndSession, ConfInv, TypeOK
<1>4. TypeOK'
  BY <1>0, <1>2, <1>3 DEF ConfInv, TypeOK
<1>5. WholeFileInForce'
  BY <1>0 DEF ConfInv, WholeFileInForce
<1>6. StaleChangeCounted'
  BY <1>0, <1>1 DEF StartSession, EndSession, ConfInv, StaleChangeCounted
<1> QED
  BY <1>0, <1>4, <1>5, <1>6 DEF ConfInv, NoSessionYet

LEMMA NextConf == ConfInv /\ [Next]_vars => ConfInv'
<1> SUFFICES ASSUME ConfInv, [Next]_vars PROVE ConfInv'
  OBVIOUS
<1>1. CASE UNCHANGED vars
  BY <1>1 DEF vars, startupVars, listVars, sessionVars, ConfInv, TypeOK, NoSessionYet,
     WholeFileInForce, StaleChangeCounted
<1>2. CASE \E f \in File : Reload(f) \/ ReloadFails(f)
  BY <1>1, <1>2, ReloadConf DEF ReloadFails
<1> QED
  BY <1>1, <1>2, StartupConf, SessionConf DEF Next, NextWith, Stopped

LEMMA ConfInvariant == Spec => []ConfInv
BY InitConf, NextConf, PTL DEF Spec

\* Type correctness: what is in force are settings of peers, and only a peer of
\* the whitelist in force has a session.
THEOREM TypeCorrect == Spec => []TypeOK
<1>1. ConfInv => TypeOK
  BY DEF ConfInv
<1> QED
  BY <1>1, ConfInvariant, PTL

\* Whatever files an editor writes and whichever of them load, the list in force
\* is all of one file and nothing of another.
THEOREM OneWholeFile == Spec => []WholeFileInForce
<1>1. ConfInv => WholeFileInForce
  BY DEF ConfInv
<1> QED
  BY <1>1, ConfInvariant, PTL

\* Over any number of reloads, a session whose settings are no longer those of
\* the list has seen a reload that counted a changed peer in the log.
THEOREM StaleChangesCounted == Spec => []StaleChangeCounted
<1>1. ConfInv => StaleChangeCounted
  BY DEF ConfInv
<1> QED
  BY <1>1, ConfInvariant, PTL

-----------------------------------------------------------------------------
(* The startup.  What is found outside is remembered for one step. *)

(* A fault of the source in use ends the startup. *)
LEMMA TokenChosen ==
    ASSUME NEW w \in Worlds, LoadToken(w), phase' = "identity"
    PROVE  NoOtherToken'
<1>1. PICK i \in 1..4 :
         /\ ~AsksOn(w, i) /\ \A j \in 1..(i - 1) : AsksOn(w, j)
         /\ Good(w, i) /\ token' = Sources[i] /\ world' = w
  BY DEF LoadToken, Fail
<1>2. w[i] \notin {"none", "blank", "unreadable", "malformed"}
  BY <1>1 DEF Good
<1>3. i > 1 => w[i] # "insecure"
  BY <1>1 DEF Good
<1>4. \A j \in 1..(i - 1) : w[j] \in {"none", "blank"} /\ (w[j] = "blank" => j = 3)
  BY <1>1 DEF AsksOn
<1> QED
  BY <1>1, <1>2, <1>3, <1>4 DEF NoOtherToken

LEMMA IdentityChosen ==
    ASSUME NEW listed \in SUBSET Ids, ResolveIdentity(listed), phase' = "resolved"
    PROVE  SpeaksForOneIdentity'
<1> DEFINE chosen == IF wanted = None THEN listed ELSE listed \cap {wanted}
<1>1. /\ Cardinality(chosen) = 1 /\ identity' = CHOOSE i \in chosen : TRUE
      /\ world' = listed /\ wanted' = wanted
  BY DEF ResolveIdentity, Fail
<1>2. IsFiniteSet(chosen)
  <2>1. chosen \subseteq Ids
    OBVIOUS
  <2> QED
    BY <2>1, FS_Subset, ConfigurationAssumption
<1> HIDE DEF chosen
<1>3. PICK i : chosen = {i}
  BY <1>1, <1>2, FS_Singleton
<1>4. identity' = i /\ i \in chosen
  BY <1>1, <1>3
<1>5. CASE wanted = None
  BY <1>1, <1>3, <1>4, <1>5 DEF chosen, SpeaksForOneIdentity
<1>6. CASE wanted # None
  <2>1. i \in listed /\ i = wanted
    BY <1>4, <1>6 DEF chosen
  <2> QED
    BY <1>1, <1>4, <1>6, <2>1 DEF SpeaksForOneIdentity
<1> QED
  BY <1>5, <1>6

LEMMA StartupNext ==
    NoOtherToken /\ SpeaksForOneIdentity /\ [Next]_vars
        => NoOtherToken' /\ SpeaksForOneIdentity'
<1> SUFFICES ASSUME NoOtherToken, SpeaksForOneIdentity, [Next]_vars
             PROVE  NoOtherToken' /\ SpeaksForOneIdentity'
  OBVIOUS
<1>0. ASSUME phase' \notin {"identity", "resolved"}
      PROVE  NoOtherToken' /\ SpeaksForOneIdentity'
  BY <1>0 DEF NoOtherToken, SpeaksForOneIdentity
<1>1. CASE UNCHANGED startupVars
  BY <1>1 DEF startupVars, NoOtherToken, SpeaksForOneIdentity
<1>2. CASE LoadConfig \/ ListingFails \/ Begin \/ \E f \in File : LoadWhitelist(f)
  BY <1>0, <1>2 DEF LoadConfig, ListingFails, Begin, LoadWhitelist, Fail
<1>3. ASSUME NEW w \in Worlds, LoadToken(w)
      PROVE  NoOtherToken' /\ SpeaksForOneIdentity'
  <2>1. CASE phase' = "identity"
    BY <1>3, <2>1, TokenChosen DEF SpeaksForOneIdentity
  <2>2. CASE phase' # "identity"
    BY <1>0, <1>3, <2>2 DEF LoadToken, Fail
  <2> QED
    BY <2>1, <2>2
<1>4. ASSUME NEW listed \in SUBSET Ids, ResolveIdentity(listed)
      PROVE  NoOtherToken' /\ SpeaksForOneIdentity'
  <2>1. CASE phase' = "resolved"
    BY <1>4, <2>1, IdentityChosen DEF NoOtherToken
  <2>2. CASE phase' # "resolved"
    BY <1>0, <1>4, <2>2 DEF ResolveIdentity, Fail
  <2> QED
    BY <2>1, <2>2
<1>5. CASE \E f \in File : Reload(f) \/ ReloadFails(f)
  BY <1>1, <1>5 DEF Reload, ReloadFails, vars, startupVars
<1>6. CASE \E p \in Peers : StartSession(p) \/ EndSession(p)
  BY <1>1, <1>6 DEF StartSession, EndSession
<1>7. CASE Stopped \/ UNCHANGED vars
  BY <1>1, <1>7 DEF Stopped, vars, startupVars
<1> QED
  BY <1>2, <1>3, <1>4, <1>5, <1>6, <1>7 DEF Next, NextWith

LEMMA StartupInvariant == Spec => [](NoOtherToken /\ SpeaksForOneIdentity)
<1>1. Init => NoOtherToken /\ SpeaksForOneIdentity
  BY DEF Init, NoOtherToken, SpeaksForOneIdentity
<1> QED
  BY <1>1, StartupNext, PTL DEF Spec

\* The token in use is of the first source that is configured, in every state
\* the four sources can be in.
THEOREM FirstTokenOnly == Spec => []NoOtherToken
BY StartupInvariant, PTL

\* Whatever identities the bridge lists, the daemon starts for the named one, or
\* for the only one.
THEOREM OneIdentity == Spec => []SpeaksForOneIdentity
BY StartupInvariant, PTL
=============================================================================
