---------------------------- MODULE Configuration ----------------------------
(***************************************************************************)
(* What the daemon runs with: the startup (src/src/daemon.rs, run,         *)
(* load_token, resolve_identity), the whitelist file (src/src/config.rs)   *)
(* with its reloads, and the settings each session was started with.       *)
(***************************************************************************)
EXTENDS Integers, Sequences, FiniteSets

CONSTANTS
    Peers,          \* canonical pubkeys
    Values,         \* values a setting may have
    Ids,            \* identities of the bridge
    None,           \* a setting, an identity or a source that is not there
    MaxEntries      \* bound: entries of a whitelist file

ASSUME ConfigurationAssumption ==
    /\ None \notin Peers \cup Values \cup Ids
    /\ IsFiniteSet(Ids)
    /\ MaxEntries \in Nat

VARIABLES
    phase,          \* how far the startup is
    wanted,         \* config.identity.id
    world,          \* what the last step of the startup found outside
    token,          \* the source of the token in use
    identity,       \* the identity in use
    accepted,       \* the file the whitelist in force was loaded from
    whitelist,      \* the whitelist in force: settings of its peers
    handle,         \* peers: the settings of the session, None without one
    counted         \* ghost: peers since the start of whose session a reload has
                    \* logged a count of changed peers that was not zero

startupVars == <<phase, wanted, world, token, identity>>
listVars == <<accepted, whitelist>>
sessionVars == <<handle, counted>>
vars == <<startupVars, listVars, sessionVars>>

Phases == {"config", "whitelist", "token", "identity", "resolved", "running",
           "failed"}

\* An entry writes its pubkey in lower case, or in upper case with white space
\* around it, or wrong: too short, too long, not hexadecimal.
Spellings == {"canonical", "odd", "wrong"}
Settings == [idle : Values \cup {None}, chars : Values \cup {None}]
Entry == [key : Peers, spelling : Spellings, own : Settings]
SeqsUpTo(S, n) == UNION {[1..m -> S] : m \in 0..n}
File == [entries : SeqsUpTo(Entry, MaxEntries), default : Settings]

\* The sources of a token, in the order they are asked.
Sources == <<"credential", "--token-file", "$LORATERM_TOKEN", "paths.token_file">>
SourceStates == {"none", "blank", "unreadable", "insecure", "malformed", "good"}

\* A variable cannot be unreadable or insecure.
Worlds == {w \in [1..4 -> SourceStates] : w[3] \notin {"unreadable", "insecure"}}

TypeOK ==
    /\ phase \in Phases
    /\ wanted \in Ids \cup {None}
    /\ token \in {Sources[i] : i \in 1..4} \cup {None}
    /\ identity \in Ids \cup {None}
    /\ DOMAIN whitelist \subseteq Peers
    /\ \A p \in DOMAIN whitelist : whitelist[p] \in Settings
    /\ handle \in [Peers -> Settings \cup {None}]
    /\ counted \in SUBSET Peers
    /\ \A p \in Peers : handle[p] # None => p \in DOMAIN whitelist

NoFile == [entries |-> <<>>, default |-> [idle |-> None, chars |-> None]]
NoList == [p \in {} |-> None]

Init ==
    /\ phase = "config"
    /\ wanted = None /\ world = None /\ token = None /\ identity = None
    /\ accepted = NoFile /\ whitelist = NoList
    /\ handle = [p \in Peers |-> None]
    /\ counted = {}

-----------------------------------------------------------------------------
(* Whitelist::load and diff_whitelist. *)

Or(own, default) == IF own # None THEN own ELSE default

\* Mutant: keys are compared as they are written.
SeenAsWritten(f, i) == \E j \in 1..(i - 1) : f.entries[j].key = f.entries[i].key
                            /\ f.entries[j].spelling = f.entries[i].spelling

\* seen.insert fails: an earlier entry has the same key, however it is written.
Seen(f, i) == \E j \in 1..(i - 1) : f.entries[j].key = f.entries[i].key

\* The first entry that is wrong or a duplicate is the error of the file.
Loads(f) == \A i \in 1..Len(f.entries) :
                f.entries[i].spelling # "wrong" /\ ~Seen(f, i)

Validated(f) ==
    [p \in {f.entries[i].key : i \in 1..Len(f.entries)} |->
        LET e == CHOOSE i \in 1..Len(f.entries) : f.entries[i].key = p
            own == f.entries[e].own
        IN  [idle |-> Or(own.idle, f.default.idle),
             chars |-> Or(own.chars, f.default.chars)]]

Removed(new) == DOMAIN whitelist \ DOMAIN new

\* Mutant: only the idle timeout is compared.
ChangedIdle(new) == {p \in DOMAIN whitelist \cap DOMAIN new :
                        whitelist[p].idle # new[p].idle}

\* Every field is compared, the defaults filled in.
Changed(new) == {p \in DOMAIN whitelist \cap DOMAIN new : whitelist[p] # new[p]}

\* What the log line of a reload, which counts the changed peers and names none,
\* tells of the sessions that go on.
CountedBy(new) == {p \in IF Changed(new) # {} THEN Peers ELSE counted :
                        handle'[p] # None}

-----------------------------------------------------------------------------
(* The startup. *)

Fail(w) ==
    /\ phase' = "failed" /\ world' = w
    /\ UNCHANGED <<wanted, token, identity, listVars, sessionVars>>

\* Config::load: the file does not load, or says which identity is wanted.
LoadConfig ==
    /\ phase = "config"
    /\ \/ Fail(None)
       \/ /\ wanted' \in Ids \cup {None}
          /\ phase' = "whitelist"
          /\ UNCHANGED <<world, token, identity, listVars, sessionVars>>

LoadWhitelist(f) ==
    /\ phase = "whitelist"
    /\ IF Loads(f)
       THEN /\ accepted' = f /\ whitelist' = Validated(f)
            /\ phase' = "token"
            /\ UNCHANGED <<wanted, world, token, identity, sessionVars>>
       ELSE Fail(None)

\* Mutant: a source that gives no good token is passed over.
AsksNext(w, i) == w[i] # "good"

\* A source that is there is used, and its fault is the end: only what is not
\* set at all, and a blank variable, leads to the next source.  The credential
\* is used whatever its mode.
AsksOn(w, i) == w[i] = "none" \/ (i = 3 /\ w[i] = "blank")

Good(w, i) == w[i] = "good" \/ (i = 1 /\ w[i] = "insecure")

\* load_token, and Token::new for what it returns.
LoadToken(w) ==
    /\ phase = "token"
    /\ LET there == {i \in 1..4 : ~AsksOn(w, i) /\ \A j \in 1..(i - 1) : AsksOn(w, j)}
       IN  \/ there = {} /\ Fail(w)
           \/ \E i \in there :
                IF Good(w, i)
                THEN /\ token' = Sources[i] /\ world' = w
                     /\ phase' = "identity"
                     /\ UNCHANGED <<wanted, identity, listVars, sessionVars>>
                ELSE Fail(w)

\* Mutant: of several identities the first is taken.
ResolveFirst(listed) ==
    /\ phase = "identity"
    /\ LET chosen == IF wanted = None THEN listed ELSE listed \cap {wanted}
       IN  IF chosen # {}
           THEN /\ identity' = CHOOSE i \in chosen : TRUE
                /\ world' = listed
                /\ phase' = "resolved"
                /\ UNCHANGED <<wanted, token, listVars, sessionVars>>
           ELSE Fail(listed)

\* resolve_identity: the identities the bridge lists for the token.  It may
\* also answer with an error, which fails, or never, which waits.
ResolveIdentity(listed) ==
    /\ phase = "identity"
    /\ LET chosen == IF wanted = None THEN listed ELSE listed \cap {wanted}
       IN  IF Cardinality(chosen) = 1
           THEN /\ identity' = CHOOSE i \in chosen : TRUE
                /\ world' = listed
                /\ phase' = "resolved"
                /\ UNCHANGED <<wanted, token, listVars, sessionVars>>
           ELSE Fail(listed)

ListingFails == phase = "identity" /\ Fail(None)

\* The loop begins; what only the startup needs is forgotten.
Begin ==
    /\ phase = "resolved"
    /\ phase' = "running"
    /\ wanted' = None /\ world' = None /\ token' = None
    /\ UNCHANGED <<identity, listVars, sessionVars>>

-----------------------------------------------------------------------------
(* The daemon runs: reloads and sessions. *)

\* Mutant: a file is loaded as far as it is right.
ReloadWhatLoads(f) ==
    /\ phase = "running"
    /\ LET right == SelectSeq(f.entries, LAMBDA e : e.spelling # "wrong")
           new == Validated([f EXCEPT !.entries = right])
       IN  /\ accepted' = f /\ whitelist' = new
           /\ handle' = [p \in Peers |->
                            IF p \in Removed(new) THEN None ELSE handle[p]]
           /\ counted' = CountedBy(new)
    /\ UNCHANGED startupVars

\* Mutant: the sessions of removed peers are left.
ReloadKeepsSessions(f) ==
    /\ phase = "running" /\ Loads(f)
    /\ accepted' = f /\ whitelist' = Validated(f)
    /\ UNCHANGED <<startupVars, handle>>
    /\ counted' = CountedBy(Validated(f))

\* reload_whitelist: a file that loads replaces the list, and removed peers lose
\* their session; changed peers keep theirs, settings included.
Reload(f) ==
    /\ phase = "running" /\ Loads(f)
    /\ LET new == Validated(f) IN
       /\ accepted' = f /\ whitelist' = new
       /\ handle' = [p \in Peers |->
                        IF p \in Removed(new) THEN None ELSE handle[p]]
       /\ counted' = CountedBy(new)
    /\ UNCHANGED startupVars

\* ... and one that does not changes nothing at all.
ReloadFails(f) ==
    /\ phase = "running" /\ ~Loads(f)
    /\ UNCHANGED vars

\* A DM of a peer without a session: spawn_peer with its entry.
StartSession(p) ==
    /\ phase = "running" /\ p \in DOMAIN whitelist /\ handle[p] = None
    /\ handle' = [handle EXCEPT ![p] = whitelist[p]]
    /\ UNCHANGED <<startupVars, listVars, counted>>

EndSession(p) ==
    /\ phase = "running" /\ handle[p] # None
    /\ handle' = [handle EXCEPT ![p] = None]
    /\ counted' = counted \ {p}
    /\ UNCHANGED <<startupVars, listVars>>

Stopped == phase = "failed" /\ UNCHANGED vars

\* The files an editor may write are given by the module that checks this one.
NextWith(files) ==
    \/ LoadConfig
    \/ \E f \in files : LoadWhitelist(f)
    \/ \E w \in Worlds : LoadToken(w)
    \/ \E listed \in SUBSET Ids : ResolveIdentity(listed)
    \/ ListingFails \/ Begin
    \/ \E f \in files : Reload(f) \/ ReloadFails(f)
    \/ \E p \in Peers : StartSession(p) \/ EndSession(p)
    \/ Stopped

Next == NextWith(File)

Spec == Init /\ [][Next]_vars

-----------------------------------------------------------------------------
(* Properties. *)

\* The list in force is all of one file: every entry of it, none of them wrong
\* or twice, each with its own settings or else the defaults of the same file.
WholeFileInForce ==
    LET es == accepted.entries IN
    /\ Cardinality(DOMAIN whitelist) = Len(es)
    /\ \A i \in 1..Len(es) :
        /\ es[i].spelling # "wrong" /\ es[i].key \in DOMAIN whitelist
        /\ LET s == whitelist[es[i].key] IN
           /\ s.idle = Or(es[i].own.idle, accepted.default.idle)
           /\ s.chars = Or(es[i].own.chars, accepted.default.chars)

\* A session runs with other settings than the list in force only if a reload
\* since it began has logged a changed count above zero (daemon.rs:262-267): who
\* has seen only zeros knows that every session runs with what the file says,
\* the defaults included.  The log does not tell whose settings are old.
StaleChangeCounted ==
    \A p \in Peers :
        handle[p] # None /\ handle[p] # whitelist[p] => p \in counted

\* The token in use is of the first source that was configured, whatever the
\* state of the others: a fault of it is never covered by another one.
NoOtherToken ==
    phase = "identity" =>
        \E i \in 1..4 :
            /\ token = Sources[i]
            /\ world[i] \notin {"none", "blank", "unreadable", "malformed"}
            /\ i > 1 => world[i] # "insecure"
            /\ \A j \in 1..(i - 1) : world[j] \in {"none", "blank"}
            /\ \A j \in 1..(i - 1) : world[j] = "blank" => j = 3

\* The daemon speaks for the identity the configuration names, and if it names
\* none, for the only one its token can see.
SpeaksForOneIdentity ==
    phase = "resolved" =>
        /\ identity \in world
        /\ IF wanted # None THEN identity = wanted ELSE world = {identity}
=============================================================================
