# A TLA+ model of loraterm

loraterm gives the peers of a LoRa mesh a shell: a DM a whitelisted peer sends
is typed into that peer's bash, and what bash prints goes back as DMs. The
program is small, but it is almost entirely concurrency: per peer two blocking
threads, two tasks and six bounded queues, around one main task that starts the
sessions, tells them to end, and forgets them. The modules here model that
machinery. They are written from the Rust code under `src/src/`; line numbers
in this file and in the modules are of the files there.

```
 administrator, systemd            MeshCore bridge (HTTP)
     |  SIGHUP/SIGTERM        SSE stream |            ^ POST dm
     v                                   v            |
 [signal task] --sig_rx(4)--> [main task] <--sse_rx(256)-- [SSE task]
                                 |  registry: peer -> handle
                                 v  try_send, shutdown(reason)
          input_tx(32)      +---------+   chunk_tx(64)   +-------------+
        ------------------> |  actor  | ---------------> | sender task | --> bridge
                            +---------+                  +-------------+
                  pty.input_tx(64) |  ^ pty.output_rx(256)
                                   v  |
                     [writer thread]  [reader thread]
                                   v  ^
                               terminal / bash
```

## 1. The system's parts

| Part | Source | State | Operations | What makes it correct |
|---|---|---|---|---|
| Pty bridge | `pty.rs` | two mpsc channels, the line the writer thread holds, the read the reader thread holds, the child | spawn; receive, write, fail, end; read, send, end | each line is typed once and in order; both threads end when the session does |
| Peer session | `peer.rs` | input queue, oneshot for the shutdown, last activity, chunker, outbound queue, sender's item | the five arms of a biased `select!`; `enqueue_chunk`; drain, farewell, join, kill; the sender task; `touch`, `shutdown` | output leaves in order, the farewell last; a session told to end ends, and its shell with it; nothing is left behind |
| Chunker | `chunker.rs` | the bytes since the last flush, the time of the last push | `push`, `maybe_flush`, `flush_force`, `next_deadline`; strip ANSI, collapse, split, number, cap | no chunk is longer than the link allows; text is neither lost nor reordered below the cap; a prompt without a newline is flushed |
| Main task | `daemon.rs` | whitelist in force, registry of handles, global rate limiter | startup, dispatch of a DM, reload, shutdown | only whitelisted peers reach a shell; no session is forgotten while it runs; a peer has one session that was not told to end |
| Signal task | `signals.rs` | the kernel's pending flags, a channel of four | install, receive, send | a SIGHUP after the last edit takes effect; SIGTERM is seen |
| Whitelist file | `config.rs` | the file, the parsed entries | load, normalise, diff | what is removed is found, what is broken changes nothing |
| SSE task | `api/sse.rs` | connection, backoff, watchdog | connect, retry, read, parse, stop | events arrive in order; it reconnects; it stops when told |
| Bridge client | `api/client.rs` | none | `send_dm`, identities | each call ends |
| Startup | `main.rs`, `config.rs`, `daemon.rs` | configuration, token, identity | `load_token`, `resolve_identity` | precedence of the sources |
| Rate limiting | the governor crate, used in `peer.rs` and `daemon.rs` | one cell per session and one for all | `until_ready` | at most a burst plus one item a period |
| Deployment | `systemd/`, `config/` | none | none | |

**How they interact.** The main task is the only one to use the registry and to
store the whitelist; DMs and reloads are therefore serial. It reaches a session
through its handle only: `input_tx.try_send`, the oneshot `shutdown_tx`, and
the shared `last_activity`. A session never answers; the main task learns that
one is over from `input_tx.is_closed()` at the peer's next DM. The actor and
its sender task share the outbound queue, the actor and the two threads the
channels of the Pty. Everything else is queues.

**What is hard about it.**

* *Interleaving.* The main task sends the shutdown and drops the handle while
  the actor is in the middle of a poll; the actor may return between
  `is_closed()` and `try_send()`; the sender task makes room in the outbound
  queue between two `try_send`s of the actor.
* *Waiting.* The actor awaits `pty.input_tx.send()` inside an arm's handler,
  where no other arm is polled. `sender_handle.await` depends on a request
  without a timeout. Blocking threads can be stopped by nothing but their
  channels and their terminal.
* *Bounds.* All queues are bounded, and each has its own answer to being full:
  wait (Pty, signals, events), lose the new item (DMs, farewell), lose it and
  try to say so (chunks).
* *Order at the end.* Drain, farewell, drop of the queue, join, end of input,
  kill, drop of the receivers: each placed where an error would lose output or
  leave a shell running.
* *Cuts.* Reads of the terminal end anywhere, in the middle of a character or of
  an escape sequence too; so do windows of the splitter, and the first 200
  bytes of a log line.
* *Failure.* bash exits at any time, a write to the terminal fails, a whitelist
  does not load, a signal handler cannot be installed, a session cannot be
  spawned; the stream of events ends, breaks or goes silent.
* *Coalescing.* SIGHUPs merge, wait behind a full channel, and the file changes
  between signal and reload.

`PROJECT.json` lists these one by one under "hazards", each at its line and
with the properties that would catch it.

## 2. The modules

| Module | What it is |
|---|---|
| `Pty` | `pty.rs`: both channels, both threads; bash and the kernel's buffers as an environment |
| `PeerSession` | `peer.rs` around one `Pty` (it EXTENDS it): actor, sender task, handle; the chunker as far as it decides what is enqueued when |
| `ShellSession` | the abstract specification of a session: three numbers and a phase |
| `Daemon` | main task, signal task, whitelist, registry and event queue; its sessions are those of `ShellSession` |
| `SseStream` | `api/sse.rs`: the SSE task between bridge and main task |
| `ChunkText` | `chunker.rs`, what one flush becomes: operators only |
| `Chunker` | `chunker.rs`, the struct, under the actor's loop (it EXTENDS `ChunkText`) |
| `RateLimit` | the two limiters of `peer.rs` and `daemon.rs`, and an observer who counts what passes |
| `Configuration` | `config.rs` and the startup in `daemon.rs`: token, identity, whitelist file, reloads, the settings sessions keep |
| `MCPeerSession`, `MCSseStream`, `MCRateLimit`, `MCConfiguration` | constants, sets of inputs and symmetry for TLC |
| `PeerSessionProofs`, `DaemonProofs`, `SseStreamProofs`, `ChunkTextProofs`, `ChunkerProofs`, `RateLimitProofs`, `ConfigurationProofs` | theorems about the module they are named for; `ChunkerProofs` EXTENDS `ChunkTextProofs` |
| `PeerSessionRefinement` | the proof that `PeerSession` implements `ShellSession` |

The composition is in two layers. `PeerSession` implements `ShellSession`
(`ImplementsShellSession`, checked and proved), and `Daemon` moves its sessions
only by steps of `ShellSession` (`SessionsAreShellSessions`, checked and
proved). What the daemon does with a session is thus checked against all a
session may do without multiplying six queues by the number of peers.

The other modules each take one part out of that picture and look into it. They
meet the two layers at these places:

| Here | is there |
|---|---|
| `Daemon`'s events, and `SseTaskEnds` | what `SseStream` hands on with `Send`, and its task in `"stopped"` or `"panicked"` |
| `SseStream`'s `MainTakes`, `MainStops`, `MainReturns` | `Daemon`'s `NextEvent`, `LeaveLoop`, `Return` |
| `PeerSession`'s flush, of any number of chunks up to `MaxChunks` | `Chunker`'s `chunks` of one `Output`, `Wake` or `End` |
| `PeerSession`'s `SenderReady` | `RateLimit`'s `PeerReady` and `GlobalReady` |
| `Daemon`'s `StartupDone`, `StartupFails` | the path of `Configuration` from `LoadConfig` to `Begin`, or to `Fail` |
| `Daemon`'s whitelist, a set of peers or `Broken` | `Configuration`'s `DOMAIN whitelist`, and a file that does not load |

### Pty and PeerSession against the code

One action is one stretch of a task between two points where another task or
thread may run. Lines are numbered in the order the session accepted them,
chunks in the order the chunker made them, so loss, duplication and reordering
show as gaps.

| Code | Model |
|---|---|
| `handle_sse_event`: `touch`, `try_send` (daemon.rs:209-216) | `Deliver` |
| `PeerHandle::shutdown`, then `remove`/`clear` | `Shutdown(why)`, `DropHandle` |
| one poll of the biased `select!` | `SeesShutdown`, `SeesIdle`, `SeesSilence` first; `PollChannels` when the first is pending and no flush is due; then `TakeLine`, `SeesInputClosed`, `TakeOutput`, `SeesEof` in the order of the arms |
| `pty.input_tx.send(payload).await` | `Forward` waits, `ForwardFails` |
| `enqueue_chunk` | `EnqueueChunk`, and `EnqueueMarker` when the queue was full |
| after the loop | `Break` (`flush_force`), `DrainChunk`, `Farewell`, `JoinSender`, `Reap` |
| `SenderTask::run` | `SenderRecv`, `SenderReady` (both limiters), `SenderPost`, `SenderEnd` |
| the writer thread | `WriterRecv`, `WriterWrite`, `WriterFail`, `WriterEnd` |
| the reader thread | `ReaderRead`, `ReaderSend`, `ReaderEnd` |
| bash, the terminal | `ShellRead`, `ShellPrint`, `ShellExit`, `JobsEnd` (external) |

A poll is two steps because the main task runs on another worker thread: the
shutdown may be sent, and the handle dropped, after the shutdown arm has been
polled and before the input arm is. That is the whole reason why one more line
can get through (`AtMostOneLateLine`).

Abstractions. *Time* is two facts, each with the step that makes it true:
`idle` (the last activity is older than the timeout; any line or output makes
it false again) and `silent` (the chunker's deadline has passed). *Bytes*: a
read is a "line" (ends with a newline), a "part" (has none) or "mixed"; a flush
makes any number of chunks up to `MaxChunks`, also none, as blank output does.
*[ctrl-c]* is one of the lines: the terminal drops its unread input and the
foreground job stops printing. *The shell* is alive, exited, or "orphaned": bash
is gone, but a job it put in the background has the terminal still open, so that
reads from it do not end and writes to it do not fail. Killing bash does not
kill such jobs. *The five tries for the marker* are one step
whose outcome depends on whether the sender has made room. The sender's steps
between two tries are those it takes before `EnqueueMarker`.

### Daemon against the code

| Code | Model |
|---|---|
| `run` up to the loop (53-84) | `StartupDone`, `StartupFails` |
| `signals.rs` | `Install`, `InstallFails`, `TakeHup`, `TakeTerm`, `PassOn`; before that a signal takes its default action: `SendHup`, `SendTerm` |
| biased `select!` (86-119) | signals before events: the guard of `NextEvent` |
| `reload_whitelist` | `Reload`, `ReloadFails` |
| `handle_sse_event` | `IgnoreEvent`; `FindSession` (handle live), `StartSession`, `StartFails` (none or stale); then, a step later, `Deliver` or `DeliverFails` |
| the SSE task is gone and has dropped its sender | `SseTaskEnds`, which puts the mark `Closed` behind the last event: `recv()` yields `None` |
| break, on a signal or on `None`; shutdown, `clear` | `LeaveLoop` |
| wait for the SSE task, return | `Return` |

Between `FindSession` and `Deliver` other tasks run: a session found open may
have returned. `Return` stands for the end of `run`; `main` then drops the
runtime, which drops the actors where they are, so sessions take no step any
more.

### SseStream against the code

| Code | Model |
|---|---|
| the top of `run_inner`'s loop (`shutdown_rx.borrow()`) | `Check` |
| `stream_events()`, its errors and its status | `Connected`, `ConnectFails` |
| `sleep_with_shutdown`, `backoff * 2` up to 60 s | `SleepOver`, `SleepSeesShutdown` |
| the biased `select!` over shutdown and `timeout(60 s, stream.next())` | `ReadSeesShutdown`; then `NextFrame`, `WatchdogTrips`, `SeesEnd` |
| `parse_event` | `ParseEvent`, `KindOf` |
| the slice of 200 bytes for the log | `FramePanics` |
| `tx.send(event).await` | `Send`, `SendFails` |
| bridge and network (external) | `BridgeSays`, `StreamEnds`, `LinkDies`, `LinkBreaks` |

A frame is what `parse_event` looks at (type, direction, whether the rest fits a
`DmEvent` and is whole), together with what the bridge meant by it; thirteen kinds
of them, right, odd and broken, are `EveryFrame` in `MCSseStream`. Among them are a
channel message, which has the shape of an inbound DM but for a channel id the code
does not look at (sse.rs:227-231), and a DM of a type the code does not know. What the
bridge has to say is numbered also while nobody listens, so a gap shows where a
stream was left and nowhere else. `LinkDies` is the half-open connection the
watchdog is there for.

### ChunkText and Chunker against the code

| Code | Model |
|---|---|
| `strip_ansi_escapes`, `\r\n`, lone `\r` | `Strip` (external), `Normalize` |
| `from_utf8_lossy` | `Decode` |
| `split_inclusive('\n')`, lines counted, blank lines | `LineOf`, `LineCount`, `BlankLine` |
| `collapse_blank_lines`, `cap_lines` | `CollapseBlankLines`; `FirstLines`, `CapLines` |
| `split_into_char_chunks` | `Split`, `BreakAt`, `CutInside`, `TrimEnd`, `TrimStart` |
| `retain`, burst cap, marker, `[i/N] ` | `NonBlank`, `Chunks`, `Numbered` |
| `push`, `flush_committed` | `Push`, in the actor's `Output` |
| `maybe_flush` at `next_deadline` | `Wake` |
| `flush_force` | `End` |
| `enqueue_chunk` for each chunk | `Enqueued` |

Text is a sequence over nine characters, among them a letter and a white space
(U+00A0) that take more than one byte, and an escape sequence; each of the
three is two bytes, so that a read, a flush or a cut may fall between them.
Limits are scaled down (a chunk holds 2 characters and its number), the rules are not.
The prefix of a chunk and the marker of the burst cap count by their length
(`PrefixBudget`, `MarkerLength`) in `ChunksFit` only; "[...]" stands at the start
of a line of its own, is shorter than the least chunk and never cut, and is one
symbol. `Split` is a recursive function over the places of the text, and a line is the
number of newlines before it, so that both can be proved about.

### RateLimit against the code

| Code | Model |
|---|---|
| `Quota::with_period(..).allow_burst(..)`, with their least values (peer.rs, daemon.rs) | `Quota` |
| `rx.recv()` | `Recv` |
| `per_peer_limiter.until_ready()` | `PeerReady` |
| `global_limiter.until_ready()` | `GlobalReady` |
| `send_dm` | `Post` |
| a sender task ends; another session's takes its place, with a limiter of its own | `NewSession` |
| the clock of the governor crate (external) | `Tick` |

A limiter is its debt: an item adds a period, a tick pays one off, and an item
passes while the debt stays within the burst. This is the cell rate algorithm
with its theoretical arrival time taken relative to now. `Senders` are places for
sender tasks, not peers: a session that was revoked goes on sending what it has
queued, and once its peer is back on the list the next DM starts another one beside
it (daemon.rs:186-199, 270-275), with a limiter of its own (peer.rs:138). Two places
are thus two peers, or two sessions of one. The window
(`OpenWindow`, `age`, `passes`, `taken`, `restarts`) is an observer's; no guard
looks at it.

### Configuration against the code

| Code | Model |
|---|---|
| `Config::load` | `LoadConfig` |
| `Whitelist::load`: normalise, duplicates, defaults | `Loads`, `Validated`, in `LoadWhitelist` and `Reload`, `ReloadFails` |
| `diff_whitelist` | `Removed`, `Changed` |
| `load_token`, `Token::new` | `AsksOn`, `Good`, `LoadToken` |
| `resolve_identity` | `ResolveIdentity`, `ListingFails` |
| the loop begins | `Begin` |
| `spawn_peer` with the entry in force; the session's end | `StartSession`, `EndSession` |

`world` holds what the last step of the startup found outside, so that the
properties can compare the choice with what there was to choose from;
`counted` are the peers since the start of whose session a reload has logged a
count of changed peers above zero, which is all the log line of a reload tells.

## 3. The runs

| Run | Question | States |
|---|---|---|
| `session_safety` | Does a line get lost, doubled or swapped on its way, including a [ctrl-c]; does output stay in order, with the farewell last, when the outbound queue is full; how many lines pass a shutdown; what is left when a session is over; is it a `ShellSession`? | 3 800 000 |
| `session_live` | Does a session end when told or idle, and where else can it stay; is a prompt flushed; do the threads of a session return? | 330 000 |
| `daemon` | In every order of edits, SIGHUPs, DMs, ends of sessions and of the SSE or signal task: does the registry follow the whitelist, is a running session forgotten, does anybody else reach a shell; does a reload take effect in the end, does SIGTERM end `run`? | 528 000 |
| `sse_stream` | Do events arrive in order and with the meaning they had; does the task leave a dead stream, ask again with the right sleeps, and stop when told? | 155 000 |
| `chunker` | However output is cut into reads: does any of it get lost, broken or oversized; is it flushed after a silence, once? | 263 000 |
| `rate_limit` | How much passes in any window, for one session and for all, over restarts of sessions; does a sender wait for ever? | 754 000 |
| `configuration` | Does the daemon run with one whole whitelist file, the first configured token and the right identity; does a session run with old settings that no reload has counted? | 155 000 |

The other runs each show one disagreement between a document and the code; TLC
finds a counterexample.

| Run | Says who | What happens |
|---|---|---|
| `circular_wait` | README.md:19-20, "their PTY is killed" | With a shell that always reads and prints when it can: the terminal's input is full, so the writer thread waits; its channel is full, so the actor waits in `send().await`; so nobody takes output, the reader thread waits, the terminal's output is full, the shell waits. The revoked session is there for ever |
| `exit_ignored` | README.md:127, "Closing the session is a normal `exit`" | bash exits, a background job keeps its terminal open, the reader thread sees no end; the session types on into a terminal nobody reads, and each line keeps it from idling out |
| `cut_farewell` | daemon.rs:125, "their actors will send farewells" | `run` returns first |
| `split_char` | chunker.rs:235, "UTF-8-safe slices" | a line longer than a chunk, whose last white space in the window is a U+00A0: the splitter cuts one byte behind its first (chunker.rs:264), which is inside it, and panics. The actor is gone, without a farewell and without a kill |
| `panic_frame` | sse.rs:5-8, "We parse leniently: 1. Dispatch by SSE `event:` field if present. 2. Fall back to a structural probe: any object with `peer_pubkey_hex` + `text` is a DM-ish. 3. Unknown → `SseEvent::Other`, optionally logged to a raw-log file.", and the test `malformed_json_becomes_other_string` (sse.rs:327) | a frame that is not JSON and has its byte 200 inside a character: the slice for the log panics (sse.rs:218; main.rs:41 enables debug for the crate by default). The SSE task is gone, `recv()` yields `None`, and `run` returns `Ok`: `Restart=on-failure` (loraterm.service:12) does not start it again |

Seven more configurations have a counterexample each. They are smaller than the
above or variations on it, and are kept for the reader, not in the list of runs:

| Configuration | Module | Says who | What happens |
|---|---|---|---|
| `silent_bridge.cfg` | `MCPeerSession` | README.md:19-20, "their PTY is killed"; client.rs:105-108 | one request the bridge never answers: the sender task, then the join, then the kill wait for ever |
| `lost_farewell.cfg` | `MCPeerSession` | README.md:19-20, "a polite `session closed: revoked` DM" | the farewell is `try_send` into a full queue |
| `unmarked_drop.cfg` | `MCPeerSession` | peer.rs:275, "Drain + replace with marker" | nothing is drained: chunk and marker are both lost |
| `late_line.cfg` | `Daemon` | daemon.rs:174-176, "otherwise the next DM gets silently dropped" | a session that has left its loop has not closed its channel yet |
| `channel_message.cfg` | `MCSseStream` | sse.rs:227-231, which tells channel messages ("`direction="in"` with channel_id set") from inbound DMs | the channel id is not looked at: a channel message with a key and a text is typed into the shell of its author, if that peer is whitelisted |
| `foreign_type.cfg` | `MCSseStream` | README.md:112-115, "any object with `peer_pubkey_hex` + `text` + `direction == "in"` is treated as inbound DM", also of a type "not yet mapped (e.g. `dm.recv`)" | the code wants the type `dm` or none |
| `peer_quota.cfg` | `MCRateLimit` | config.rs:88, "Per-peer outbound DM rate; one DM per `dm_period`, with `dm_burst` initial budget" | the rate is a session's: two sender tasks of one peer, one of them of a revoked session, have it each |

Smaller disagreements, of words and not of behaviour over time, met on the way:
the help of `--token-file` (main.rs:26) calls it an override of the credential,
which in fact comes before it (daemon.rs:280); README.md:127 says sessions idle
out after 30 minutes, the default is six hours; README.md:115 says the `event:`
field name is dispatched on, the code looks at the JSON's `type` and
`direction`; chunker.rs:134, "Trims trailing whitespace", trims newlines;
config.rs:88 speaks of `dm_period` and `dm_burst`, which are `per_peer_period`
and `per_peer_burst`.

### Properties

*Session, safety.* `NoLineLost`: the lines between `input_tx` and the terminal
number on without a gap. `AtMostOneLateLine`. `OutputInOrder`: posted, in the
sender's hand, queued and still to be queued, in the order of making, nothing
behind the farewell. `NothingLeftBehind`: when the actor has returned, bash is
gone, everything queued was posted, and its ends of the Pty are closed.
`ImplementsShellSession`.

*Session, liveness.* `ShutdownEndsUnlessStuck`, `PartialOutputIsFlushed`,
`IdleSessionEnds`. They have two exceptions. `StuckForwarding`: the actor stays in
`send().await` for ever, which is the finding of `circular_wait`. `StuckPosting`:
the sender task waits for ever for an answer to a request without a timeout, and
the actor, which joins it before it kills the shell, with it; `silent_bridge.cfg`
shows that this happens. Nothing is assumed of the bridge, so what the three show is
that there is no third place where a session can be caught, and that a prompt is
flushed whether the bridge answers or not. `ThreadsReturn`: the two blocking threads, which nobody joins, come to
their end once the actor has and nobody has the terminal open.

*Daemon.* `RegistryWhitelisted`, `NoSessionForgotten`, `OnlyWhitelistedDrive`
(an action property), `SessionsAreShellSessions`; `ReloadTakesEffect`,
`TermEndsDaemon`, which also covers the loop's end when the SSE task is gone.

*SSE stream.* `DeliveredInOrder`: last taken, queued, in the hand and on the
wire number on, with gaps only where a stream began. `ParsedAsMeant`: a complete
inbound DM reaches the main task as one, and an echo of a session's own output
never does. It says nothing of other frames: channel messages do (see above). `BackoffDoubles`. `DeadLinkIsLeft`,
`KeepsAsking`, `ShutdownIsSeen`.

*Chunker.* `NothingLost` and `OneWakePerRead` are about the buffer and its deadline:
no byte is lost or doubled between calls, and from one read to the next the silence
arm runs once at most. A deadline that an emptied buffer leaves behind, or one at
which `maybe_flush` has nothing to do yet, would make the loop spin. `ContentKept` is about what a flush becomes: the visible
characters, in order, up to the caps, whose markers then are there.
`ChunksFit`. `ReadsDoNotBreak`: a cut of the reads is not to be
seen in the text, unless a silence fell into it.

*Rate limits.* `GlobalRate`, `SenderRate`: the burst and an item per period, in any
window; for a session, and those that take its place, plus what the new ones have
been forgiven. Of a peer with two sessions at once each gets that much, so there is
no such bound per peer (`peer_quota.cfg`). `NoSenderStarves`:
unless sessions restart for ever. (They may: a peer whose sessions always start
with a fresh burst can keep the others off the shared limiter, which keeps no
queue.)

*Configuration.* `WholeFileInForce`: the list in force is all of one file.
`StaleChangeCounted`: while a session runs with other settings than the list, a
reload since it began has logged a `changed` above zero. The line has the count only:
that somebody's settings are old can be known from the log, whose cannot.
`NoOtherToken`: a fault of the first configured source is never covered by the next.
`SpeaksForOneIdentity`.

Every property of a passing run also has a mutant: an operator next to the
definition it changes, marked "Mutant:" in the module, that makes the mistake the
property is there for (the farewell ahead of the drain, a reload that forgets a
handle without telling its session, a backoff that is not reset, a limiter that
is asked and not waited for). The property fails with it.

### Bounds

| Bound | In the code | In the runs | Why it is enough |
|---|---|---|---|
| `InDepth`, `OutDepth`, `PtyInDepth`, `PtyOutDepth` | 32, 64, 64, 256 | 1 or 2 | empty, full, and between the two; the proofs hold for all depths |
| `TtyInDepth`, `TtyOutDepth` | the kernel's (about 4 KiB each) | 1 | full blocks the writer, whatever the size |
| `MaxLines` | none | 1 to 5 | the lines that fit between daemon and shell with depths of one, plus one that waits |
| `MaxChunks` | `burst_chunk_cap` and a marker | 0 to 2 | two chunks and a queue of one place: one is queued, one dropped |
| `MaxPrint` | none | 0; 3 in `circular_wait` | with 0 the prompt is all that is printed, one read, whose chunks fill the outbound queue; 3 fill the way back from the terminal. Output over several reads and flushes is in the proofs, which hold for every bound |
| `Kinds` | all | all, or those that matter to the run | |
| `SigDepth`, `EventDepth` | 4, 256 | 1 | full and empty |
| `MaxSessions`, `MaxEvents`, `MaxEdits`, `MaxHups` | none | up to 2 each | two sessions of a peer; two edits remove and restore; a SIGHUP under way and one that waits |
| `Peers` of `Daemon` | any | 1 | its peers share only the order of events and reloads; the proofs hold for any set, and two peers were too many for liveness |
| `WireDepth`, `MaxFrames` | none | 2, 3 | one event taken, one queued, one in the hand or on the wire |
| `MaxFails` | none | 7 | the first sleep of 60 s is the seventh |
| `MaxChars`, `PrefixBudget`, `LeastChars` | 120 by default, 10, 20 | 4, 2, 1 | chunks of two characters and a number: cuts at newlines, at white space and in the middle of a word |
| `MarkerLength` | 40 or so | 2 | as long as a chunk's text |
| `MaxLines`, `BurstCap` of the chunker | 10, 50 by default | 3, 2 | one line and one chunk too many fit into six bytes |
| `MaxBytes` | none | 6 (5 in `split_char`) | every text of up to six bytes, in every division into reads |
| `Silence` | 600 ms by default | 1 tick | before, at and after the deadline |
| periods and bursts | any | own 3 and 2, shared 0 and 0, raised to 1 and 1 | two senders that at their own rate are admitted by the shared limiter; the configuration's zeros |
| `MaxWindow` | | 3 ticks | as long as an item of a peer takes to be paid off; the proofs hold for all |
| files of `Configuration` | any | up to 2 entries, in three spellings, two peers, one value | right before wrong, wrong before right, and the same key twice in two spellings |

The one symmetry is that of peers and of identities in `configuration`, where no
liveness is checked.

### Fairness

`TaskFairness` is weak fairness of the actor, of the sender task without its
request, of the two threads and of the silence timer: Tokio polls a task that
is ready, the kernel schedules threads, time passes. In a session the rate
limiters let every item pass in the end; `NoSenderStarves` says when that is
so. `BridgeAnswers` is separate, because the code sets no timeout:
`SilentBridgeSpec`, under which `session_live` runs, has it not. `FairSpec` has it,
for `exit_ignored` and `circular_wait`, so that the bridge is not to blame there. Nothing is assumed of the shell: it may never
read or exit, except in `BusyShellSpec`, where `circular_wait` gives it the best
behaviour there is, to show that the circle is not its fault; it also has the
jobs a shell leaves end some day. `IdleElapses` has no fairness;
`IdleSessionEnds` is about sessions that stay idle.

In `Daemon` the signal task and the main task are weakly fair, the main task
after startup only: `resolve_identity` makes requests without a timeout. No
session has to end, and the SSE task need not end.

In `SseStream` the task is fair, except for the GET: the client has a timeout
for the handshake only (client.rs:112), so that a response may never come, and
`ShutdownIsSeen` and `KeepsAsking` say what holds then. The bridge and the
network may do nothing at all. The main task takes events while it runs, sees
that the channel has ended, and returns once it was told, after 10 s at the
latest.

In `RateLimit` time and the senders are fair, with the answer of the bridge in
`Post`; nobody has to have output. A sender that may pass is woken before the
next tick: a tick is long compared with the wake-up of a task. `Chunker` and
`Configuration` state safety only.

A deadlock would be reported: `Finished` and `Stopped` are the only states in
which nothing may happen, and they say so in their guards.

## 4. The proofs

**The session.** `PeerSessionProofs` and `PeerSessionRefinement` prove, for all
depths of the queues, all bounds and all sets of [ctrl-c] lines, from
`PtyAssumption` and `SessionAssumption` only (depths are positive, bounds are
naturals):

| Theorem | Statement |
|---|---|
| `TypeCorrect` | `Spec => []TypeOK` |
| `LinesKept` | `Spec => []NoLineLost` |
| `OutputOrdered` | `Spec => []OutputInOrder` |
| `ShutdownStopsInput` | `Spec => []AtMostOneLateLine` |
| `SessionLeavesNothing` | `Spec => []NothingLeftBehind` |
| `SessionRefinement` | `Spec => ImplementsShellSession` |

The argument goes up in layers, each using the ones below:

1. `TypeInvariant`: `TypeOK` together with `HandsAgree`, which ties each "hand"
   to its owner's program counter (the actor holds a line exactly while
   forwarding, the sender an item exactly between receiving and posting, and
   there is a chunk in hand while the marker is tried). Without it `Head` of a
   hand has no type.
2. `WindDown`: what is closed at which place of the wind-down (the sender is
   done from `reap` on, and once it is done nothing is queued; the actor holds its
   ends of the Pty until it gives them up). It implies `NothingLeftBehind`.
3. `LateInv`: `late` is 0 while no shutdown was sent; after one it can grow only
   from "polled", which a shutdown keeps the actor from reaching again. It
   implies `AtMostOneLateLine`.
4. `LinesInFlight` with its guard: `NoLineLost` is inductive once the types are
   known; each hand-over shifts one number from the head of a sequence to the
   end of the next. It goes on past the actor's return, with the lines the
   actor never read gone, because the writer thread may still be typing into a
   terminal that a job holds open.
5. `OrderInv`: `OutputInOrder` and the facts about the farewell it rests on
   (it is made only once, after the last chunk, on the way to the join).
6. The refinement: the abstract state is `phase`, `accepted`, `written` and
   `posted`; `Deliver`, `WriterWrite`, `SenderPost`, `Break` and `Reap` map to
   steps, everything else to a stutter. `SessionInv`, the conjunction of all of
   the above, supplies the guards: `written < accepted` from `LinesInFlight`,
   `posted'.n > posted.n` and "a farewell is posted only while closing" from
   `OrderInv`, and "nothing is posted once closed" from `WindDown`.

**The daemon.** `DaemonProofs` proves, for any set of peers and all bounds, from
`DaemonAssumption`:

| Theorem | Statement |
|---|---|
| `TypeCorrect` | `Spec => []TypeOK` |
| `RegistryFollowsWhitelist` | `Spec => []RegistryWhitelisted` |
| `SessionsRemembered` | `Spec => []NoSessionForgotten` |
| `WhitelistedDrive` | `Spec => OnlyWhitelistedDrive` |
| `SessionsRespected` | `Spec => SessionsAreShellSessions` |

The invariant is `DaemonInv`. Its heart is `PeerInv`: a handle is one of a
session of its peer, its peer is on the whitelist, its session has not been told
to end (`HeldIsUntold`), and every session that is running and untold has its
handle kept (`NoSessionForgotten`). None of the four can be had alone:
`StartSession` forgets no one because an untold running session would have been
found live, and a reload keeps `HeldIsUntold` because it tells exactly those it
forgets. Four lemmas cover all that can happen to registry and sessions: nothing
(`PeerFrame`), one session goes on (`PeerTouch`), some are told and forgotten
(`PeerTell`), and one is started or found stale (`PeerStart`,
`PeerStartFails`). `WhitelistedDrive` then needs only that no step but `Deliver`
hands a line over (`OnlyDeliverDrives`). `SessionsRespected` goes through every
step of the daemon and shows of each session that it takes a step of
`ShellSession` or none; a number no session has yet stands for one that has not
begun, so that its start is a stutter, and the guards come from `DaemonInv`
(`HeldIsUntold` for the line handed over, the numbering for the start).

**The SSE stream.** `SseStreamProofs` proves, for every set of frames that
satisfies `FrameAssumption` and all depths:

| Theorem | Statement |
|---|---|
| `TypeCorrect` | `Spec => []TypeOK` |
| `EchoesStayOut` | `Spec => []ParsedAsMeant` |
| `EventsInOrder` | `Spec => []DeliveredInOrder` |
| `BackoffsDouble` | `Spec => []BackoffDoubles` |

`FrameAssumption` is the contract with the bridge: it marks an echo in its type
or its direction, and an inbound DM is complete. `FrameMeant` shows from it what
`KindOf` makes of these two, and `MeantInv` carries that from the hand to
the queue. For the order, everything between main task and wire is one line:
the last event taken, the queue, the hand, the wire. `OrderInv` says that it is
in order, that nothing on it is newer than what the bridge has said, and that it
ends with just that while the stream is up and not fresh; the last part is what
makes the next frame follow without a gap. Each step shifts the line by one
(`LineTaken`, `LineSent`, `LineRead`), cuts its end (`LineCut`) or adds a frame
(`LineGrown`). `BackoffDoubles` speaks of the sleep only. `BackoffInv` adds what the
backoff is everywhere else on the way around the loop: the sleep that comes next
behind the sleep and while connecting, and one second on a stream, which is the
reset a failure after a good connection relies on. `SleepGrows` is its arithmetic.

**The chunker.** `ChunkTextProofs` proves what the operators on one flush do, and
`ChunkerProofs` what becomes of any output in any division into reads; for bytes,
texts, limits and caps of any size, from `ChunkAssumption` and
`SilenceAssumption` only:

| Theorem | Statement |
|---|---|
| `SplitSays` | `split_into_char_chunks`: every piece fits, and together they say all of the text but white space cut off at their ends |
| `ChunksSay` | `chunks_from_text`: types, lengths, numbers, and the visible text in order, all of it or up to a marker |
| `TextOfWhole` | bytes that cut no character and no escape sequence become text without `?` and without the rest of an escape |
| `TypeCorrect` | `Spec => []TypeOK` |
| `ContentIsKept` | `Spec => []ContentKept` |
| `ChunksDoFit` | `Spec => []ChunksFit` |
| `ReadsBreakNothing` | `Spec => []ReadsDoNotBreak` |
| `NoByteIsLost` | `Spec => NothingLost` |
| `SilenceWakesOnce` | `Spec => []OneWakePerRead` |

Each of the first three says of what the code does to one flush what the runs
can only try for texts of six bytes. `SplitSays` goes back from the end of the text:
what is said from a place on (`Says`) is the piece cut there and what is said from
the place the rest begins at, which is further on because `CutPlace` is
(`SplitStepSays`). `ChunksSay` then follows the text through the stages: blank lines
dropped (`CollapseKeeps`), lines capped with a marker (`CapLinesCases`), split,
blank pieces dropped (`NonBlankKeeps`), chunks capped with a marker and numbered
(`ChunksCases`, `NumberedChunks`); each keeps what one can see or ends it with a
marker. `TextOfWhole` reads a byte by what the one before it has opened: `Strip`
takes an escape sequence whole (`StripWhole`), `Normalize` replaces only bytes that
open nothing (`NormalizeWhole`), and then every half of a character has its other
half next to it (`DecodePieceWhole`).

The invariant is `IInv`, which TLC checked on `chunker.cfg` before it was proved:

* `ChunksOfFlushed`: the chunks a call has returned are `ChunksFromText` of the
  bytes it flushed, and the actor is gone if their split panicked. With it
  `ContentKept` and `ChunksFit` are facts about one operator, so `ChunksSay` gives
  them.
* `WokenOnce`: since the last read the silence arm has not run, or it has run once
  and the buffer is empty. `OneWakePerRead` alone is not inductive: it does not know
  that nothing is left for a second deadline.
* `WholeReads`: unless a silence fell into a character, the buffer begins with a
  whole one, `inside` is what it leaves open, and what was flushed cut none. A
  flush up to a newline keeps this because a newline opens nothing
  and nothing that is open allows one (`FollowsNewline`): that is why `push` may
  flush whatever the reads were.

**The rate limits.** `RateLimitProofs` proves, for any finite set of senders and
all quotas, from `RateAssumption`:

| Theorem | Statement |
|---|---|
| `TypeCorrect` | `Spec => []TypeOK` |
| `GlobalRateBounded` | `Spec => []GlobalRate` |
| `SenderRateBounded` | `Spec => []SenderRate` |

`RateInv` adds to the types what each item that passed has become: a part of the
limiter's debt, a tick of the window, or, for a sender, forgiven (`PassesPaid`,
`TakenPaid`); outside a window all counts are zero (`Uncounted`). As a debt is at
most the burst, the bounds follow. The bounds alone are not inductive: they do not
know how much debt there was when the window opened.

**The configuration.** `ConfigurationProofs` proves, for files of any length, any
set of peers and any finite set of identities, from `ConfigurationAssumption`:

| Theorem | Statement |
|---|---|
| `TypeCorrect` | `Spec => []TypeOK` |
| `OneWholeFile` | `Spec => []WholeFileInForce` |
| `StaleChangesCounted` | `Spec => []StaleChangeCounted` |
| `FirstTokenOnly` | `Spec => []NoOtherToken` |
| `OneIdentity` | `Spec => []SpeaksForOneIdentity` |

`ConfInv` is the types, the two invariants about the list, and `NoSessionYet`:
before the loop there is no session a first load could make stale. `LoadedWhole`
is the one lemma with weight: a file that loads has as many keys as entries,
by a bijection, so counting its keys shows that no entry was lost. The two
theorems about the startup need only the step that makes the choice, because
`Begin` and `Fail` leave the phase they speak of.

**Induction.** The induction theorems of the library take the predicate as an
operator, which the provers cannot instantiate. `WFMin`, that a nonempty subset of
a well-founded set has a least member, takes a set. `Induction` and
`SequenceInduction` in `ChunkTextProofs` are made of it, with the set of the
members a fact holds of in place of the predicate; with them `FlattenSeq`, which
is a recursive function in the community modules, is shown to exist and to go on
by one element at a time (`FlattenSeqValue`, `FlattenAppend`), and so is the
recursion of `Split` (`SplitUnfolds`).

**Checked by TLC only.** Liveness, of which TLAPS proves nothing that rests on
fairness or on ENABLED: the three properties of `session_live` and `ThreadsReturn`,
`ReloadTakesEffect`, `TermEndsDaemon`, `DeadLinkIsLeft`, `KeepsAsking`,
`ShutdownIsSeen` and `NoSenderStarves`. Every invariant and every action property
of a passing run is also proved.

## 5. What is not modelled

* What the process does after `run` has returned. The drop of the runtime ends
  the tasks at an await and waits for the blocking threads, which wait for
  shells nobody has killed: the process may outlive its main task until systemd
  kills it. That is tokio's and systemd's doing; `ThreadsReturn` says when the
  threads themselves return, and `Daemon` ends where `run` does.
* A failure of `clone_reader` or `take_writer` after bash has started
  (pty.rs:59). `StartFails` is one step; what would be leaked is a process no
  state of the daemon knows of.
* The failure of `child.kill()`: the code ignores it, the model has it succeed.
* A channel depth of 0 in the configuration (peer.rs:68), with which
  `mpsc::channel` panics: the models assume depths of at least one.
* Two peers whose keys share their first 16 hexadecimal digits share a home
  directory (daemon.rs:188). Their sessions share nothing else, and what is in
  the directory is the shells' business.
* The chunker's buffer has no bound in the code; `MaxBytes` is the model's.
* What the `strip_ansi_escapes` crate makes of sequences of other forms than the one
  in `Strip`, which is whole or cut; the theorems about text rest on `Strip` as
  it stands.
* A number longer than the ten characters the code keeps room for (1000 chunks and
  more): `ChunksFit` counts every number as `PrefixBudget`.
* Control characters other than newline and carriage return, and characters of more
  than two bytes. What `strip_ansi_escapes`, whose source is not in the repository,
  does with control characters is left open: `Strip` leaves `\r` in the text, as the
  lines behind it and the test `cr_is_normalized_to_lf` (chunker.rs:119-127, 328)
  have it, and no property depends on that.
* Comment frames, which the `eventsource-stream` crate swallows: a keep-alive of
  that kind does not reset the watchdog. In the model it is a bridge that says
  nothing.
* The channel id of an event, which the code does not look at: a channel message is
  a frame of the shape of an inbound DM (`channel_message.cfg`).
* A failure of `try_wait` at the end of a session (peer.rs:226-242), after
  which the code does not kill the child.
* The syntax of TOML and JSON (a file does or does not load, a frame does or does
  not parse), the client's wording of a status, permissions changing between
  the look at a file and its read.
* The raw SSE log, a file that is appended to and never read; log output; the
  command line.
* Deployment: the unit and the example configuration have no behaviour of their
  own; the restart policy is used above, in `panic_frame`.

## 6. Plan

Done, in this order: `Pty` and `PeerSession`; `ShellSession` and the refinement;
`Daemon`; the proofs about both; `SseStream`, `ChunkText` and `Chunker`,
`RateLimit`, `Configuration`; the proofs about three of these and about
`SessionsAreShellSessions`; and the proofs about `ChunkText` and `Chunker`.

Left, for who wants to go on:

1. `RuntimeDrop`: `Pty` after `run` has returned, with actors dropped wherever
   they are. It needs a model of tokio's shutdown that its documents only hint
   at.
2. `Daemon` with the task of `SseStream` in place of its events, for two peers:
   far beyond what TLC can enumerate today; a proof that `SseStream` implements
   the event queue of `Daemon` would do as well.

## 7. Running it

```
tlc -config session_safety.cfg MCPeerSession.tla
tlc -config session_live.cfg MCPeerSession.tla
tlc -config daemon.cfg Daemon.tla
tlc -config sse_stream.cfg MCSseStream.tla
tlc -config chunker.cfg Chunker.tla
tlc -config rate_limit.cfg MCRateLimit.tla
tlc -config configuration.cfg MCConfiguration.tla
tlapm PeerSessionProofs.tla
tlapm PeerSessionRefinement.tla
tlapm DaemonProofs.tla
tlapm SseStreamProofs.tla
tlapm ChunkTextProofs.tla
tlapm ChunkerProofs.tla
tlapm RateLimitProofs.tla
tlapm ConfigurationProofs.tla
```

`circular_wait` and `exit_ignored` run with `MCPeerSession`, `cut_farewell` with
`Daemon`, `split_char` with `Chunker` and `panic_frame` with `MCSseStream`; the
seven configurations kept for the reader with the module named above.

`PROJECT.json` lists the runs with their properties, the mutant of each
property, the source lines every definition models, the findings and the
hazards. The runs take from a few seconds to four minutes each.
