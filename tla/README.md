# Specification of the baozi client core

baozi is an iOS and Android client that controls AI coding agents running on
other machines. The user interfaces are thin; the behaviour lives in the shared
Rust workspace `src/shared/rust-bridge/` (paths below are relative to it unless
they start with `src/`). This project specifies that core in TLA+, checks it
with TLC on small instances and proves properties of it with TLAPS.

`PROJECT.json` has the same information in tables: components, runs, mutants,
the source lines of every definition, findings, hazards and theorems.

## 1. Inventory

### The modelled core

| Component | Source | State it keeps | Operations | What is hard | Correct when |
| --- | --- | --- | --- | --- | --- |
| Slingshot stream | `codex-slingshot/src/stream.rs` | next number, replay queue, resume cursor, chunk assemblies, line buffer | write, shutdown, drop, connect, replay, split and send, receive message, chunk or acknowledgement, timeouts | loss and duplication across reconnects, a send failing between segments, shutdown while disconnected | both directions are in order and once; only abandoned lines are missing |
| Segment sizes | the splitter of `stream.rs` | none | `split_client_wire_envelope_for_transport` | rounding at the limits | as many segments as announced, each within the limit |
| Server session | `codex-mobile-client/src/session/connection.rs` | health, command channel per runtime, client and keepalive per worker | request, notify, resolve, reject, disconnect, reconnect | retry after a transport error, several workers publishing one health value, disconnect during a request | answers are true, every call returns, health is that of the links |
| IPC client | `codex-ipc/src/client/{handle,connection,pending}.rs` | pending requests, oneshots, write channel, two tasks | request, timeout, response, discovery, disconnect | late answers, requests on a dying connection, a full channel | every waiter has an entry or an answer, every call returns |
| Reconnecting IPC client | `codex-ipc/src/client/reconnect.rs` | the slot, published state, handler, pending signals | invalidate, set handler, shutdown, the reconnect loop | three updates in three steps, references that outlive the slot | one client with an open connection, a true report, a replacement after loss |
| Thread subscriptions | `codex-mobile-client/src/mobile_client/{mod,event_loop}.rs` | resume markers, loaded and active threads, health reader, resubscribers | resume, refresh, unsubscribe, open, abandon, resubscribe | answers of an older connection, a watch channel that skips values | a marker means a subscription, what was shown is subscribed again |
| Session registry | `mobile_client/{mod,event_loop}.rs`, `ffi/`, `store/reducer.rs` | the session of a server id, its health reader, the server's entry in the store | six kinds of connect, attach, replace, disconnect, restart, requests that fail, health events | check, await, insert; events and errors of a replaced session; a detached disconnect | at rest the store shows the registered session; none runs outside the registry but for named reasons |
| Approvals and user input | `session/events.rs`, `store/reducer.rs`, `mobile_client/mod.rs` | two lists of requests of app-servers, the event channel before them | ask, resolve, withdraw, answer, drop, restart, remove thread or server | ids that coincide, an overwriting channel, an id looked up after the choice, answers across a restart | at rest the lists agree with the servers, and an answer reaches who asked, but for named reasons |
| Saved-server reconnection | `reconnect.rs` | none (the saved record) | `compute_reconnect_plan_with_slingshot` | ten branches, any order of which looks right | the plan keeps to what the user chose |
| Follow-up queue | `mobile_client/{mod,store_listener}.rs`, `store/reducer.rs` | queued drafts, active turn | start turn, steer, delete, automatic send | a turn ending while a draft is sent, steered or deleted; a request taken before its connection broke | no answered request takes a message a second time; a queued one is not lost |

### How they interact

The control task of the stream owns the websocket and talks to its user through
two unbounded channels of bytes; to the session above it, it is a transport
that never fails. A session has one worker per agent runtime: callers put
commands into a bounded channel and wait on a oneshot; the worker alternates
between the channel and the events of its client, reconnects in place, and
publishes one health value shared by all workers. The mobile client keeps the
sessions by server id. It has two reader tasks per session: events go through a
broadcast channel to a listener that applies them to the store and sends the
next queued follow-up; health goes through a watch channel to a reader that
reports it to the same listener and starts a resubscriber after a reconnect.
Requests the server makes of the user arrive as events too; the answers go back
through the session that the registry has by then. The IPC client is the corresponding
pair of tasks for a local router, with a wrapper that replaces it.

### The rest of the repository

| Component | Source | Why it is not modelled |
| --- | --- | --- |
| Local in-process session | `connection.rs:578-800` | a loop over an external client that never reconnects |
| Push registrations | `src/services/push-proxy/` | a TypeScript service beside the core; its hazard is listed |
| Rest of the store, event mapping, hydration, parsing | `store/`, `session/events.rs`, `parser.rs`, `hydration.rs` | sequential projection of server data for display |
| Voice | `session/voice_handoff.rs`, `store/voice.rs` | depends on audio services outside the repository |
| IPC conversation bridge, framing | `codex-ipc/src/{bridge,conversation_state}.rs`, `transport/`, `protocol/` | patches over JSON and encoding |
| Slingshot API, enrollment, keys | `codex-slingshot/src/{api,enrollment,device_key}.rs` | HTTP and cryptography; here an attempt that succeeds or fails |
| Alleycat, SSH, pairing, discovery, cloud sync | `alleycat.rs`, `ssh/`, `pair/`, ... | network I/O; again attempts |
| Terminal, device runtimes, saved apps, widgets, recorder, preferences | `terminal/`, `ish_*`, `proot_*`, ... | features above the core, external processes, storage |
| FFI, bindings, developer tools, applications, other services | `ffi/`, `codex-bridge/`, `codex-tui/`, `src/apps/`, `src/services/` | forwarding and user interfaces |

## 2. The modules

| Module | What it is |
| --- | --- |
| `LineChannel` | abstract: what a stream of lines promises its user |
| `SlingshotStream` | the stream, the network and the server; implements `LineChannel` |
| `SlingshotSegments` | the arithmetic of the splitter |
| `CallContract` | abstract: what a caller may conclude from an answer |
| `ServerSession` | a session with its workers; implements `CallContract` |
| `IpcClient` | one IPC connection; implements `CallContract` |
| `IpcReconnect` | the wrapper that replaces IPC connections |
| `ThreadSubscription` | subscriptions over one session's reconnects |
| `SessionRegistry` | which session a server id names, and what the store shows of it |
| `PendingRequests` | requests of app-servers, from the event to the user's answer |
| `ReconnectPlan` | the decision tree for a saved server |
| `FollowUpQueue` | the drafts of one thread and the agent's turns |
| `*Proofs` | theorems of the module they are named after; the splitter's are in `SlingshotStreamProofs`, the plan's in `SessionRegistryProofs` |
| `MC*` | instances for TLC; `MCPureDecisions` puts the two modules without behaviour, `SlingshotSegments` and `ReconnectPlan`, side by side |

An operator introduced with "Mutant:" is a wrong version of the definition
below it. It takes part in no specification; it is there so that each property
can be seen to fail when that definition is replaced by it.

### SlingshotStream

`phase` is the await at which `control_loop` stands: outside (`connect`), in the
handshake, in `replay_unacked_wire`, in the inner select (`open`), in a send
between the segments of a line (`send`), ended (`done`). Everything between two
awaits is one action. A line is its index in the order of writing. The replay
queue holds envelopes (line, number, segment); `Pending` is the queue followed
by the segments of the current line that are still to be queued. The user's
channel holds payloads and newlines separately, as the JSON-line writer sends
them. The server is external and modelled from the client's expectations: it
accepts a message when all its segments have arrived under a number above the
last accepted one, acknowledges it, resumes its own messages after the cursor of
the websocket request, and may split a half-sent message differently after a
reconnect. `lost` is history: lines refused by the splitter or cut off by a
failing send. The connection attempt, the handshake, the replay and every send
are awaited without a deadline; only in the select does one run, and `Unbounded`
is the set of the places where none does. Outside the model: what a timeout's
length is, the HTTP variant of the functions (never called), sequence numbers at
the end of 64 bits (`saturating_add`), which no stream reaches.

### ServerSession

`pc[r]` is the await of runtime `r`'s worker (`idle` in its select, `awaiting` a
request, `answered` with the server's response not yet handed over,
`connecting` in `reconnect_remote_client`, `exited`), `queue[r]` its bounded
channel, `link[r]` the state of its client's connection. `copies[c]` is the fate
of the first send of call `c` and of its retry. `stop` and `toStop` follow
`disconnect_inner` through its sends. Outside: the events themselves, keepalive
objects, SSH commands on disconnect, the in-process worker.

### IpcClient and IpcReconnect

In `IpcClient` the insertion into the pending map, the send into the channel and
the end of the wait are three steps of the caller; the write task takes an
envelope, which leaves its place in the channel (`Room`), and is suspended in
the write until the router reads; the read task is suspended in `answering`
while it waits for room in the same channel. In `IpcReconnect` `link[c]` is the
connection of client `c`, and a client is dropped only when none of slot, task,
user and shutdown hold it: `Arc::try_unwrap` in `disconnect` is modelled by that
count. A handshake that fails, times out or is cancelled may leave a connection
`unclaimed`: its tasks run, and no client was given. The loop's sections between
two awaits are chains of steps, since other threads call the wrapper meanwhile.

### ThreadSubscription

One session with one worker, reduced to what a subscription depends on: its
channel, the await it stands at, which copy of a request is under way. `health`
and `unseen` are the watch value and whether the reader has yet to look.
`markers` is `direct_resumed_threads`. An answer delivered by the worker and the
continuation of the caller that acts on it (`Finish`) are separate steps, and
so are the two halves of `abandon_alleycat_connections`. Resubscribers are
started by the reader and may overlap. `missed` and `late` are history: a
reconnect the reader never saw; markers put by an overtaken answer.

### SessionRegistry

One server id: entries of the map do not depend on each other. `current` is the
entry, a session is known by the order of its creation, `calls[c]` is the await
at which caller `c`'s connect, disconnect, restart or request stands, and
`reader[s]` that of the health reader of session `s`. The six kinds of connect
differ in what they reuse, announce, replace and report, which sets such as
`ReusesActive` and `Replaces` say in one place. `events` is the channel to the
store listener, `unseen` the sessions whose watch value their reader has not
taken. The reader finds its session in the map in one step and reports in the
next: no lock is held between them. `displaced`, `overtaken` and `astray` are
history: sessions pushed out of the map by a connect that makes no room or by one
of two concurrent connects; sessions that left the map between their reader's
check and its report; whether a failed call or such a report was the last to
write the store. `MaxIncidents` bounds calls and dropped links together.

### PendingRequests

Any number of servers, each a process that counts its requests from the same
number (`NextId`); `events` is the broadcast channel of UI events, whose oldest
entry is overwritten when it is full; `shown` stands for the two lists of the
store, `calls` for the answers under way. Whether a connection is up, retrying
or given up decides what becomes of a request, its withdrawal and its answer.
The user chooses an entry (`Tap`); the call carries its id and looks for it in
the list as it is later (`LookUp`). The history variables name why an entry is
missing (`cause`), whose end went unheard (`unheard`), whether the tapped entry
had left the list at the lookup (`left`), and which answers reached another
request than the one tapped, with the entry found (`misled`). `MaxFaults` bounds
connections that break and processes that are started again. Outside: the seeds
of the thread's display state and the texts.

### ReconnectPlan

The saved record is the state; every record is an initial state. Strings are the
prefixes the code looks for. A port may be 0, which the code takes for none; a
record lists up to `MaxPorts` of them. The ten branches are a sequence in the
code's order, and the first that holds decides.

### FollowUpQueue

`drafts` and `activeTurn` are the store's thread; `events` what the server has
emitted and the listener has not applied; `turn`, `turns` and `taken` the agent.
Each message has a writer that runs `start_turn` from its snapshot of the thread
to the end; each tap is a user's steer or delete, from its snapshot to its
write. A request is answered, refused, or its connection breaks under it; then the
worker may send it once more (`SendAgain`), and the server may take what was sent
on the broken connection at any later time, or never (`adrift`, `Arrive`).
`Copy(m, n)` says how the agent got a message: by an answered request (0), or by the
one under which the connection broke as the n-th failure. `clobbered` is history: a
delete wrote back a queue that had changed since it was read. One thread; a
connection that breaks loses no event, and display state is left out.

## 3. The runs

Every passing run searches its whole state space. Every property of a passing
run is accompanied by a mutant of the modelled code that breaks it.

| Run | Instance | Distinct states | Shows |
| --- | --- | --- | --- |
| `uplink` | lines of 2, 0 (refused), 3 and 1 segments, 2 failed connections, shutdown and drop at any time | 69,108 | order of the replay queue, nothing unacknowledged is forgotten, no line is lost silently and the close comes last, refinement of `LineChannel` |
| `downlink` | one line up; three messages down, the first split into 2 or 3 segments, anew after a reconnect; one stamped with a cursor on every segment; 2 failures | 122,227 | messages are delivered once and in order, from one assembly; unless an await without deadline holds the task, lines and messages arrive and the queue drains |
| `segments` | every size up to 200 with the limits of the source at one hundredth; every saved record, credential and flag over two ports and 0, modes known and unknown | 337,159 | announced counts are honest, segments fit; a plan keeps to what the user chose |
| `session` | two runtimes, a request for a runtime the session lacks, a resolve after it, channels of 2 places, 2 attempts, 2 failures, a disconnect | 120,580 | health follows the links, answers are true, refinement of `CallContract`, every call is answered, `disconnect` returns and the workers exit |
| `ipc_client` | two callers, a channel of one place, 2 discovery questions | 12,520 | waiters are tracked, refinement of `CallContract`, a call whose envelope got into the channel returns, others unless a write waits for ever |
| `ipc_reconnect` | one handler, 2 attempts, 3 clients, 2 invalidations, shutdown | 116,523 | one client with an open connection, a truthful report, invalidated clients are replaced |
| `threads` | two threads, one refusable, one user with 2 calls, 2 failed or abandoned connections, paginated server | 737,302 | stale markers have two causes only; what is collected is resubscribed |
| `registry` | two callers (symmetric), three incidents: calls (six kinds of connect, disconnect, restart, a request) and dropped links; two sessions | 1,524,290 | at rest the store shows a connected session as connected, but after a failed call or a reader's belated report; sessions outside the map are accounted for, and so are readers that sleep on one |
| `requests` | two servers (symmetric), two requests, one answer at a time, a channel of 2 events, one drop or one restart | 671,086 | lists agree with the servers but for named reasons; an answer reaches the request tapped unless that had left the list or the process was started again |
| `requests_hidden` | the same | violation | a request stays hidden behind another server's |
| `followups` | three messages, one without text, 2 taps (messages and taps symmetric), 1 request refused or broken, sent again | 1,002,782 | a message reaches the agent once, but for a copy of each broken request, unless a delete overwrote a changed queue |
| `followup_lost` | three messages, no taps, no failures | violation | a queued message can vanish |

### Why the bounds are enough

- **Two failures.** One interrupts the normal course, the second the recovery
  from it (a replay, a retry, a resubscription). A third meets no state the
  second has not.
- **Lines of 2, 0, 3 and 1 segments.** A segmented line before and after a
  refused one, a failure between segments with lines on both sides, and an
  acknowledgement that covers several segments and stops inside the queue.
- **Messages split in 2 or 3.** A reconnect between segments can lead to
  another count for the same number; a message follows and one precedes it.
- **Sizes up to 200** pass the limit on reassembled sizes (144) by more than four
  segments. The real limits are in the same ratio and the proofs cover them.
- **Two ports** are the fewest between which a choice can be wanted. A record
  lists at most two, which with its own makes three entries, a repetition and a
  0 among them. Proved for any ports and any length of the list.
- **Two runtimes, two calls.** Two workers are the fewest to share a health
  value; two calls in one channel are the fewest where one is served while the
  other waits or is refused. The proofs below hold for any numbers.
- **A channel of one or two places** makes callers, the reader and `disconnect`
  wait. A session's channel has 2 places, so that the shutdown command finds a
  full one when both calls are in it.
- **Three clients, two signals** in `ipc_reconnect`: a second signal meets the
  replacement of the first.
- **Two threads.** The list of a resubscriber has an entry behind a refused
  one, and an active thread comes first. The run was repeated without
  pagination, where a marker without turns does not skip the request.
- **Two callers, three incidents, two sessions** in `registry`: a connect overlaps
  another, or a disconnect, restart or failing request, and a third call
  meets what they left; or a link drops in place of one of the calls. Proved for
  any number.
- **Two requests, two servers.** The fewest for ids to coincide, across servers
  or across a restart of one. Two places in the event channel (256 in the code)
  let a third event overwrite the first. One fault is a restart, or a drop
  with all it leads to. The run was repeated with two answers at a time (2,809,508
  states) and with one and two faults (2,523,896), which take longer. Proved for
  any number of each.
- **Three messages, two taps.** A turn, a draft sent automatically, and one
  behind it; two taps can be duplicates or a steer racing a delete. One broken
  request brings a late copy beside its second sending. The run was repeated with
  one tap and two failures, where both sendings of a request break. Proved for
  any number of each.

`CHECK_DEADLOCK FALSE` stands in every configuration: a stream that was shut
down, a client that was disconnected, a user without further taps are ends the
system may come to.

### Fairness

- The Tokio runtime polls every task that can make progress: weak fairness of
  the loops of the stream, the workers, the readers, the resubscribers, and of
  callers that are inside a call.
- A server answers on a connection that holds: weak fairness of the server's
  steps. Nothing makes it answer on a connection that failed.
- An attempt of a session to connect ends, in success or in giving up after
  `REMOTE_RECONNECT_MAX_ATTEMPTS`.
- The stream's select notices a dead connection: the pong deadline is one of its
  arms (a ping or a pong of ours is taken as sent at once). Nowhere else does the
  code set a deadline: not for the connection attempt, the handshake, the replay or
  a suspended send. There the loop has no fairness, and a silent peer may hold it
  for ever; the liveness of the stream has "that does not happen" (`Unheld`) as its
  hypothesis. The stream retries for ever, and its failures are bounded by
  `MaxBreaks`, so its liveness is "once failures stop".
- The router of an IPC client need not read: a write ends under fairness only when
  the socket is closed. A caller whose envelope got into the channel has a timeout;
  one that waits for room returns if no write waits for ever (`EveryCallReturns`).
- Nothing is assumed of users, failures, invalidations, shutdown or drop.
- `SessionRegistry`, `PendingRequests` and `FollowUpQueue` state no fairness:
  their properties are invariants, of states at rest where rest matters.

## 4. The proofs

TLAPS checks these for every value of the constants that satisfies the
assumption named in the module. Any number of lines, failures, runtimes, calls.

| Theorem | Says | Rests on |
| --- | --- | --- |
| `SlingshotStreamProofs!TypeCorrect` | `Spec => []TypeOK` | `StreamAssumption`; one step per action |
| `SlingshotStreamProofs!ReplayOrder` | `Spec => []ReplaySorted` | `QueueInv` |
| `SlingshotStreamProofs!NothingUnackedForgotten` | `Spec => []UnackedKept` | `QueueInv` |
| `SlingshotStreamProofs!NothingLostSilently` | `Spec => []NoSilentLoss` | `QueueInv`, `LineInv` |
| `SlingshotStreamProofs!StreamIsALineChannel` | `Spec => ChannelSpec` | the same |
| `SlingshotStreamProofs!MessagesArriveOnce` | `WholeOrSplit`: `Spec => []InboundExactlyOnce` | `MessageInv` |
| `SlingshotStreamProofs!SegmentsAnnounced` | `EverySize => []CountIsHonest` | `SegmentAssumption`, bounds of integer division |
| `SlingshotStreamProofs!LongMessagesFit` | `EverySize => []SegmentsFit` | the same |
| `ServerSessionProofs!TypeCorrect` | `Spec => []TypeOK` | `SessionAssumption` |
| `ServerSessionProofs!HealthIsReported` | `Spec => []HealthyLinksReported` | `HealthInv` |
| `ServerSessionProofs!AnswersCanBeTrusted` | `Spec => []AnswersAreTrue` | `AnswerInv` |
| `ServerSessionProofs!ContractKept` | `Spec => ContractSpec` | `AnswerInv`, `RetryOnce` |
| `IpcClientProofs!TypeCorrect` | `Spec => []TypeOK` | `ClientAssumption` |
| `IpcClientProofs!NobodyForgotten` | `Spec => []WaitersAreTracked` | `IInv` |
| `IpcClientProofs!ContractKept` | `Spec => ContractSpec` | `IInv` |
| `IpcReconnectProofs!TypeCorrect` | `Spec => []TypeOK` | `ReconnectAssumption` |
| `IpcReconnectProofs!AtMostOneOpen` | `Spec => []OneOpenClient` | `Kept`, `Placed`, `Given` |
| `IpcReconnectProofs!WatchersAreTold` | `Spec => []ReportedTruly` | `Placed` |
| `ThreadSubscriptionProofs!TypeCorrect` | `Spec => []TypeOK` | `SubscriptionAssumption` |
| `ThreadSubscriptionProofs!MarkersExplained` | `Spec => []StaleMarkersExplained` | `Explained` and what the worker, callers and reader know |
| `SessionRegistryProofs!TypeCorrect` | `Spec => []TypeOK` | `RegistryAssumption` |
| `SessionRegistryProofs!StoreIsRight` | `Spec => []StoreAgrees` | `StoreFollows`, `LastReported`, `Overtaking` |
| `SessionRegistryProofs!NoOrphans` | `Spec => []OrphansExplained` | `AttachedOnce`, `RoomMade` |
| `SessionRegistryProofs!ReadersEnd` | `Spec => []StaleReadersWake` | `Numbered`, `StaleReadersRouse` |
| `PendingRequestsProofs!TypeCorrect` | `Spec => []TypeOK` | `PendingAssumption` |
| `PendingRequestsProofs!ListsAgree` | `Spec => []ListsAreTrue` | `Lists` |
| `PendingRequestsProofs!AnswersFindTheirAsker` | `Spec => []AnswerReachesAsker` | `Ids`, `Exact` |
| `FollowUpQueueProofs!TypeCorrect` | `Spec => []TypeOK` | `Named` |
| `FollowUpQueueProofs!NothingSentTwice` | `Spec => []AtMostOnce` | `OrderInv`, `QueueInv`, `Numbered` |
| `SessionRegistryProofs!ChoiceIsKept` | `PlanKeepsChoice`, of every record | `PortsAssumption`, `DialledPort` |

**The replay queue.** `ReplaySorted` and `UnackedKept` speak of the queue and the
segments still to be queued together. Neither says that those segments belong
to one line, nor that there are none outside the sending of a line, and without
that a failed send could drop segments of a line that `lost` does not name.
`SendingShape` adds both, and `QueueInv` is the conjunction. The steps that
matter have a lemma each: a line gets its number, a segment moves into the
queue, a send fails, an acknowledgement removes a prefix, a refused line uses a
number. All other actions leave the queue alone. That an acknowledgement
removes a prefix is where the order is needed to show that nothing is
forgotten, which is why the two are one invariant.

**The way of a line.** End to end the loss of a line is an affair of three
actors: the loop may believe it sent what the socket never carried, the
connection delivers a prefix, and the server throws an assembly away as soon as
an envelope with another number comes. `LineInv` follows one line through them.
`Commands`: the i-th line gets number i, since payloads and newlines come out of
the channel in pairs. `WireShape`: the wire is in the order of numbers, and what
is about to be sent comes behind it. `NoGaps` is the core: an envelope on the
wire has all earlier ones settled, where settled means abandoned, accepted, on
the wire, or in the server's assembly with nothing on the wire that would end it
(`Got`); on a connection that holds, so is all the loop has gone through. So if
the server sees a number beyond the next one, each one it passed over was
abandoned: of any other it would hold every segment, and accept it
(`NothingSkipped`). `Unfinished` is the converse: the last segment of an
abandoned line is nowhere, and the server can never complete it. Deliver,
abandon and the end of the stream then are the steps `LineChannel` allows.

**The way of a message.** `Route` says that there is a path of positions along
what is on the way to the reader, which starts where the reader can go on
(`Reach`) and, on a connection that holds, ends where the server stands. A break
cuts the path, a new connection starts one at the cursor. An assembly is a
beginning of the message that is due (`Beginning`), and once the cursor points
into a message the server keeps its count. So a chunk can disagree with
the assembly only at the first segment, with the cursor still in front of it:
dropping the assembly loses nothing. The hypothesis `WholeOrSplit` (a message
that fits one envelope is never split) is needed for the assembly only: without
it the message is delivered once, and its assembly stays behind.

**The segment count.** With `c` the announced count and `k` the rounded-up size,
`c` pieces of `k` bytes cover the message; the count is honest when `c - 1` pieces
do not. If they did, `k` would be less than `c`, and the message at most
`(c - 1) * (c - 1)` bytes; but it is longer, since `c` comes from dividing by
`TargetBytes` and is at most `TargetBytes`. `SegmentAssumption` states that ratio
of the source's limits (1024 segments of 102,400 bytes), without which the
statement is false.

**Health.** A worker that is reconnecting does not hold a connection
(`ConnectingIsDown`), so a worker publishes anything but `Connected` only while
a link is down, and the last link to come up publishes `Connected`.

**Answers.** A call in a channel is in one channel, once, and unsent
(`QueuedOnce`); the call a worker serves is in no channel and unanswered
(`ServedAlone`); a worker that holds an answer has had the request run
(`HasRun`); a caller outside a channel has sent nothing (`Asked`). So the calls
a closing channel refuses were never sent, and an answer of ok follows a run.

**The contract of a call.** `CallContract` counts the runs of a call and lets it
be answered ok after a run, refused before one. A session sends a request
again after a transport error, and each copy may run; `RetryOnce` says that the
second copy is unsent while the worker serves the first, and that a worker
reconnects on behalf of the first only, which gives the bound of two. In an IPC
client the envelope of a call takes one way once: `ChannelOnce` (in the channel
at most once, before the router has it) and `RouterHonest` (the router has only
what was submitted, and responds to what it ran). The envelope the write task is
suspended in is the first of the channel until the write ends. Every step then
maps to a run, an answer, or a stutter.

**The reconnecting wrapper.** While it runs, one client at most may be up, and
where the task stands says which: the one in the slot, or the one the task is
about to put there (`Keeper`). `Placed` relates slot, held client and report at
each place of the loop. A connection that a handshake left `unclaimed` may be open
beside it; that nobody holds its client is `Given`: whoever has a client was given
it by an attempt that succeeded.

**Markers.** A marker without a subscription that is not in the history variable
`late` is doomed: the link is down, a reconnect was missed or not yet seen by the
reader, a resubscriber is about to clear the markers, or an unsubscription that
succeeded is about to remove it (`Doomed`). `Told` ties the watch value to the
link, `Waiting` and `Asking` the worker's channel to the callers, so that an
answer is known to come from the connection it was asked on, or to be `late`.

**The registry.** Sessions are numbered as they are made, and one is attached
once, by the call that made it (`Numbered`, `Named`, `AttachedOnce`). A call that
replaced the entry finds the map empty when it attaches, or another connect ran
beside it (`RoomMade`); hence a session leaves the map unshut only when `displaced`
says so. A reader that is about to report, though its session has left the map,
lost it since its check (`Overtaking`), so its event is marked as late. Once the
reader of the registered session has reported, the last event of the channel is
that report or a late one (`LastReported`), and when all are applied the store
shows it, unless a call that announced itself will write again, or the last write
was a failed call's or a late report's (`StoreFollows`). `StaleReadersRouse` is
`StaleReadersWake` one step earlier, for readers that will sleep after a report.

**Pending requests.** A process gives an id once because it counts, and never
forgets how many it gave: `Counted` bounds an id by the number of requests of the
same process, from which `Distinct` follows. With `OneEach` (a list has an id once)
a lookup finds what was tapped, or the tapped entry has left the list (`Exact`); and
a server that still runs the process that asked waits for the request found, or
for none under the id. For the lists: an open
request that is missing is on its way or has a cause (`Awaited`), an entry whose
request has ended will be removed or its end went unheard (`Outlived`), and a
request's end comes behind it in the channel (`BeginsBeforeEnds`), even after
the channel overwrote its oldest events.

**The follow-up queue.** A message is with its `start_turn`, in the queue, or with
the agent, and three actors move it: the listener, the user's taps, and the
store as it applies the server's events. What arrives from a broken connection
only adds a copy under the number of that failure, of which there is one, on the
connection or with the agent (`Numbered`); to the rest it is a step that leaves the
answered requests alone (`Quiet`), and below "has" means by an answered request.
First the order of events (`OrderInv`).
Applied to the store one after the other, the events under way start a turn only
when none is active and end the active one, and leave the turn the server runs
(`Orderly`). So a tap that names the running turn read it from the store, which
has it still (`LiveIsActive`); and the listener sends only for a thread without a
turn (`IdleOutside`). Then `QueueInv`, which has a part for each place: a message
that `start_turn` has yet to hand on is nowhere else (`Unwritten`); the queue
has it once (`Drafted`); the draft being sent has not been sent and is first or
gone (`AtHand`); of two steers the server may still take, none has the message
of the other (`Steered`). The core is `TakenLeaves`: a draft the agent already has
leaves the queue before the listener sends again. Either the start of a turn
is the next event and takes it off, or it was steered into the active turn, whose
end removes it. The steps that take a message (`TakingStep`) and those that only
drop drafts (`QuietStep`) have a lemma each. A delete that writes back what
deleting would give now is of the second kind; one that overwrites a changed
queue may bring back a draft the agent has, and nothing is claimed after it
(`clobbered` in `AtMostOnce`).

**The plan.** The sequence of branches is read as the ladder of conditions the
code has (`LadderIsPlan`). Then the statement is one about the ports on offer:
`DirectPorts` has exactly the record's ports but 0 (`RecordPorts`), so the only port
on offer is the only one of the record, and `DialledPort` follows from the case
in which no choice is needed.

**Recursive functions.** Which drafts a filter keeps (`Kept`) and which ports a list
has (`OnceEach`) are computed by functions that recur on the length of a prefix.
That such a function exists, and what it returns, is shown through the least
prefix for which it would not hold (`LeastNumber`, from `WFMin` of the library),
since the library's induction theorems take an operator as a parameter, which
the provers cannot instantiate.

Every invariant a run checks is a theorem. Only model-checked: all liveness,
since fairness brings in ENABLED, which is outside the prover's reach.

## 5. Findings

1. **A queued message vanishes** (`followup_lost`). The first draft is removed
   both when a turn starts and when the user message that started it arrives.
2. **A request is never shown** (`requests_hidden`). Approvals are told apart by
   id, and every app-server process counts its ids from the same number. The
   second of two servers that use the same id has its approval dropped, and its
   agent waits.

### Known limits

What the code does as written and no document contradicts; the models have it,
and the properties are stated around it.

- Stream: after a send fails between segments the line is abandoned for good; a
  refused line uses a number and breaks the connection; shutdown and drop
  discard what is still queued behind them; the client never acknowledges nor
  compares sequence numbers, so delivery once depends on the server's cursors:
  a server that stamps a cursor on some segments only, and splits the rest
  differently after a reconnect, loses the message; one that splits a message
  and sends it whole after a reconnect leaves the assembly behind for good; the
  connection attempt, the handshake, the replay and a suspended send have no
  deadline, and a peer that goes silent there holds the stream for ever.
- Session: `disconnect` aborts the task that joins the workers, not the workers.
  One that awaits a request or a reconnect runs on, and a later success
  publishes `Connected`; it exits at the shutdown command (`DisconnectEnds`).
- IPC: an entry of a request that timed out is removed only by its answer or
  the end of the connection; one inserted after the reader's final clear waits
  for its timeout; neither a write nor the wait for room in its channel is covered by
  a timeout, so a router that stops reading holds the write task, and the callers
  that wait for room, until the connection is closed; a handshake that fails, times
  out or is cancelled leaves its tasks and its socket behind, beside the next
  client's; a handler set during a reconnect can be missed by the new client;
  a client whose peer closed stays in the slot until somebody invalidates it;
  shutdown leaves a connection open that another holder has cloned, and nothing
  in `Drop` closes it. The wrapper has no user in the repository.
- Threads: the watch channel keeps the last value, so a reconnect published
  before the reader runs is missed, and the markers stay; a resume between the
  two halves of `abandon_alleycat_connections` may put a marker that the closing
  falsifies; a resubscription can undo an unsubscription; threads neither active
  nor loaded are not resubscribed.
- Registry: of two overlapping connects one session is displaced and runs on
  without an owner to stop it; so does the one a guided SSH connect replaces; the
  health reader keeps the session alive while it sleeps; a failed SSH connect
  leaves the server `Connecting` (`mod.rs:2088`); a `disconnect_server` between
  the insertion into the store and into the map leaves a live session the store
  does not know; an error of a request on a replaced session, or an alleycat
  server without the runtime, marks the server `Disconnected` although its
  session is up, until the next report; a reader that checked its session before it
  was replaced may report after the new one has (`event_loop.rs:189`, `206`), and
  the store is wrong until the next report.
- Requests: an answer sent after the server's process was started again can
  reach another request with the same id; an answer carries an id only, which
  finds another server's entry if that has come in the place of the one tapped
  (`mod.rs:3459`, `event_loop.rs:401`); the sync of the thread list removes
  requests of threads it did not list; `EventProcessor.pending_approvals` only
  grows; the removal of a thread compares thread ids without the server.
- Plan: the local branch is unreachable from the pass over saved servers; a
  record that asks for a choice falls back to SSH when a credential is stored; a
  bridge's URL is dialled as a websocket when the flag is off.
- Follow-ups: a delete can restore a draft that was already sent, which is then
  sent again; a message queued on a snapshot older than the turn's end waits
  for another turn; a failed steer loses its draft at the end of the turn; a
  message whose request was taken before the connection broke reaches the agent
  again, by the worker's second send (`connection.rs:1639`), by the fall-through from
  steer to start, or from the queue.

## 6. Plan

Built, in this order: stream and splitter, session, IPC client and wrapper,
thread subscriptions, follow-up queue, registry, approvals, the plan for a saved
server; and the proofs of every invariant.

What is left, in this order:

1. The pass over saved servers with its `try_lock`, on top of `ReconnectPlan`
   and `SessionRegistry`; a session with several runtimes in `PendingRequests`.
2. The in-process worker as a second kind of worker in `ServerSession`.
3. Push registrations: the alarm against a deregistration.

### What is not modelled

The modules stand for about 4,100 of the 83,000 lines of the implementation, the
part in which tasks, connections and queues meet. The rest is for the most part
sequential: it projects server data into the records the interfaces show
(`parser.rs`, `hydration.rs`, `conversation.rs`, most of `store/reducer.rs` and
`session/events.rs`), forwards calls over the FFI, starts external programs,
draws, or stores preferences. A state machine of these would restate
assignments. The table at the end of section 1 gives the reason for each part.
