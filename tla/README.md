# A verification project for PJS (sjsp)

PJS streams JSON by priority: a client opens a *session*, the session holds
*streams*, each stream sends its document as frames, most important first. The
core (`crates/pjs-core`) is layered: a domain with aggregates and events, command
and query handlers over ports, and infrastructure that implements the ports
(in-memory repositories, publishers, HTTP, WebSocket, pools). Two clients, one in
Rust and one in JavaScript (`crates/pjs-js-client`), put the frames together again.

This directory holds TLA+ modules translated from that code, the TLC
configurations that check them on small instances, and proofs, checked by
TLAPS, that the main results hold for every value of the constants. Paths
below are relative to `src/crates/pjs-core/src/` unless they begin with `js:`,
which stands for `src/crates/pjs-js-client/src/`.

## The system

| component | its state | what is hard | what makes it correct |
|---|---|---|---|
| Session aggregate and streams (`domain/aggregates/stream_session.rs`, `domain/entities/`) | session state, streams, counters, queue of events, expiry; per stream its number of the next frame and statistics | counters kept by increments in many methods; `close()` forgets some; stream methods do not look at the session | counters, states and limit agree; the events tell the history; a finished stream stays so; frames are numbered without a gap |
| Command handlers (`application/handlers/command_handlers.rs`) | a copy of a session and its events per request | they interleave at every await; no version, no lock; a publisher that fails half way | no torn session; causes published before effects; what the last writer owes |
| Session workflows (`application/services/session_service.rs`) | none: sequences of commands and queries | other clients run between the commands | nothing is left half done, nothing of another client's is cancelled, reports are true |
| Query handlers (`application/handlers/query_handlers.rs`, `application/dto/`) | none: they read | pages and later queries of a store that changes | nothing missed or found twice; answers side by side agree |
| Repositories (`infrastructure/adapters/memory_repository.rs`, `repository_adapters.rs`) | maps behind several locks | lock order; stale indices; versions | indices agree with what they index; a conditional save discards nobody's |
| Connection manager and timeout monitor (`domain/services/connection_manager.rs`, `infrastructure/services/timeout_monitor.rs`) | table of connections, last activity | the sweep works off a list that goes stale | only racing traffic is cut off; idle connections are closed |
| HTTP adapter (`infrastructure/http/`) | sessions and connection table, in two hands | an await between the two; adapters over streams that may be pending | the table follows the sessions; every frame is delivered |
| WebSocket transport (`infrastructure/websocket/`) | sessions, broadcast channel, a task per socket | lag of the channel, `select!` | laggards catch up, acknowledgements are of deliveries |
| Event service and publishers (`application/services/event_service.rs`, `infrastructure/adapters/event_publisher.rs`) | store, subscribers, bounded log | subscribers before the store, retries, fail-fast | what is stored was seen; Ok means received |
| Stream writers (`infrastructure/adapters/tokio_writer.rs`) | priority queue, a call under way | timeouts and errors between the pop and the end of a write | nothing is lost unnoticed |
| Streamer, reconstructors, compression (`stream/`, `compression/`, `js:core/`) | a document in pieces, dictionaries | partial application, losses, indices of another dictionary | what is shown is a true picture of the document |
| Parsers and detectors (`parser/`, `semantic.rs`) | a position in a text; a buffer | two ways of parsing, depth, texts that come bit by bit; two sets of rules | they take JSON for what it is and agree |
| Values and paths (`domain/value_objects/`) | immutable, save for `set_path` | paths are texts and taken apart by searching | a path is its segments; equal values hash alike |
| Adaptive services (`application/services/*`, `domain/services/priority_service.rs`) | windows of samples, rules, a threshold per session | many thresholds, adjustments that overwrite one another | worse conditions never admit less important frames; advice agrees |
| Pools, metrics, responses (`infrastructure/integration/`, `parser/buffer_pool.rs`, `metrics_collector.rs`) | queues and maps with statistics under other locks | two locks for one call; used objects | tables agree; a response holds what was put in it |
| JavaScript client (`js:core/client.ts`, `js:transport/`) | the current stream, a promise per call, sockets and timers | frames without a stream identifier; timers nobody stops | a call is answered, with its own data |

They meet in this way. An HTTP request reaches a command handler, directly or by
way of a session workflow. The handler copies the session out of the
repository, calls the aggregate, stores the copy, and hands the aggregate's
events to a publisher. The HTTP adapter also registers each session with the
connection table and touches it on activity; the timeout monitor is a task that
sweeps that table every 30 seconds. Frames go through stream adapters and writers to
a socket, or over the broadcast channel, to a client that rebuilds the document. The
analysis of recorded samples sets the threshold below which frames are held back.
The pools serve the response builders and parsers on whatever thread they run.

## Modules

Components that are proved about:

| module | what it is |
|---|---|
| `SessionAggregate` | the aggregate as operators on a session value: `MayOp`, the condition for `Ok`, and `AfterOp`, the session left behind; what a consistent session is; what its events must tell |
| `StreamLifecycle` | the abstract contract: streams are created once in an open session, start, end and stay ended; closing leaves nothing running |
| `StreamSession` | one session under its methods one at a time, a clock that may expire it, a caller that drains the events; implements `StreamLifecycle` |
| `SessionCommands` | the command handlers of several clients on one stored session; uses the operators of `SessionAggregate`, and `StreamSession` as its sequential specification |
| `ConnectionManager` | the connection table, its clock and the monitors |
| `ObjectPool` | the pool's queue and statistics, in two steps each |
| `*_proofs` | the theorems about the module of that name; of `Services` they are in `Services_proofs`, for the services, and `Stores_proofs`, for the stores, which builds on `Reporting_proofs`; those of `ConnectionManager` and `ObjectPool`, the two that keep a table to a limit, are in `Limits_proofs` |

Components whose clients wait for an end, instantiated by `Progress`:

| module | what it is |
|---|---|
| `SessionWorkflows` | create-and-start, complete-and-maybe-close and graceful shutdown of several clients on one session, each a sequence of commands that may be refused or fail to publish; uses `SessionAggregate` |
| `SessionRepository` | the versioned repository: optimistic saves, transactions, pages, and the two calls that take both locks in opposite orders |
| `WebSocketDelivery` | controller, bounded broadcast channel, a task per socket with its `select!`, clients that acknowledge |
| `JsClient` | `stream()` called several times over three transports, from callbacks too while a chunk of frames is handed out, with timeouts, reconnection and disconnect |
| `JsSocket` | the WebSocket beneath it: sockets that are refused or dropped, timers that open new ones, callbacks that share fields |

The others; `EventService`, `EventPublishers`, `HttpApi`, `FrameWriter` and
`SessionRepository`, the services, and `StreamStore`, `CacheStore`, `BufferPool`,
`MetricsCollector` and `WebResponses`, the stores they are built on, are instantiated by
`Services` (the metrics by `Reporting`, which it extends), the rest by `MCServices`, which
extends `Services`:

| module | what it is |
|---|---|
| `EventService`, `EventPublishers` | telling subscribers and storing; the composite of a bounded log and an endpoint over a network that loses requests and answers |
| `EventQueries`, `SessionQueries` | readers that follow events, or go through a search page by page, while the store changes, by commands that overlap too; DTOs exported and replayed; health, statistics and overview |
| `StreamStore`, `FrameStore`, `CacheStore` | stores of two maps, or a map and its statistics, under separate locks; over frames, the domain's `StreamingOrchestrator` with its cached pages |
| `HttpApi` | the HTTP handlers between sessions and connection table; uses `ConnectionManager` and `SessionAggregate` |
| `FrameStreams`, `FrameWriter` | response bodies: requests checked, the `poll_next` of the stream adapters over an inner stream that may be pending, what is written between the frames, the buffer of `StreamProcessor`; the writers with backpressure, errors and abandoned futures |
| `StreamFrames` | the frames of one stream, numbered, validated and counted; skeletons and batches of patches |
| `Reconstruction` | a document taken apart and put together in Rust; the same frames in the JavaScript client, with and without its frame processor |
| `Compression` | analysis, dictionary, run-length, delta and hybrid encoding, and the decompressor with its context |
| `ZeroCopyParser`, `SemanticDetection` | the zero-copy parser, its SIMD twin and the incremental parser; what the simple and the sonic parser take a document for |
| `JsonPaths`, `PriorityRules`, `JsonValues` | paths as texts; rules for paths, patterns, fields and types, with their learning; values with get, set, equality and hash |
| `AdaptiveStreaming`, `PerformanceHistory` | prioritisation, streaming, optimisation and orchestration over a context; the windows of samples that contexts, reports and frame distributions are made from |
| `BufferPool`, `MetricsCollector`, `WebResponses` | buffers by size class; gauges, entries and Prometheus vectors under a composite; responses built of pooled objects in the format a request prefers |

`Services`, `MCServices` and `Progress` put modules side by side that share no state. A
behaviour chooses one, `part`, at its start; the others stay as they are, so the
state space is the sum of theirs and not the product. `Services` and `Progress`
reach no recursive operator and are what the proofs are about; `MCServices` adds the
parts that only TLC evaluates. Each invariant is one
sentence about components that make the same promise, and is the conjunction of
the properties stated in their modules, each guarded by the part it is about. A
guarded conjunct is true only where another part is exercised; every conjunct
with substance has a mutant of its own in `PROJECT.json`.

### How state and actions correspond to the code

Every module's head says what of its source is left out and what its constants
stand for. What is not evident from there:

**SessionAggregate, StreamSession.** "Absent" is a key the hash map does not hold.
The states `Closing` and `Failed` of `SessionState` are not in the type: `close`
assigns `Closing` and overwrites it in the same method, and no code assigns
`Failed`. Time is one bit, `expired` (`now > expires_at`, always an hour after the
creation), read only by `is_active`. Frame generation leaves the modelled state alone:
`Stream::extract_patches` returns an empty list, so no frame is counted
and `FramesBatched` is never raised; its guards are modelled, because they decide
whether a command saves. A call that returns `Err` changes nothing and is no step.

**SessionCommands.** Each client is one in-flight handler at a time:
`CreateSession`, or `Load` (`find_session`), then `Apply` (the domain method and
`save_session`) or `Refuse`, then `Publish` for each event, `PublishFails` if the
publisher refuses one, `Return`. Domain method and save are one step because only
the handler's own copy changes between them. `Save` stores the copy with its
queue of events still full and takes the events afterwards, as the code does:
`save_session(session.clone())` precedes `take_events()`. A handler whose future
is dropped at an await leaves no further trace than a client that never moves
again, or one whose publisher has failed. The publisher counts what it is given.

**SessionWorkflows, HttpApi.** A command is one step, applied and answered with Ok,
applied and answered with an error because the publisher failed, or refused. Races
inside a command are the subject of `SessionCommands`.

**SessionQueries.** The other clients' commands load and save an await apart, as the
handlers do: `Change` saves at once or leaves a copy in `slow`, which `Save` stores later
without asking what the session has become. This can undo a close between a session's query
and its health's, so `HealthFitsTheSession` excepts a session that was overwritten in between.

**JsClient.** `Receive` takes a chunk off the network; `Announce` and `Deliver` hand out its
frames one by one, to the application's listeners first and then to the handler that was
current by then. Between these steps the application's callbacks may call `stream()`. Nothing
else runs until the chunk is over, then the `finally` of the promises settled (`Finally`),
then whatever the event loop turns to. `disconnect()` from a callback is taken to happen
when the chunk is over, and callbacks do not throw.

**ConnectionManager.** Each method holds the lock for its whole body and is one
step. `process_timeouts` is not: `CheckTimeouts` copies the identifiers of idle
connections, `CloseTimedOut` closes one of them at a time, and everything else may
happen in between. The clock is the action `BecomeIdle`.

**Locks.** A call that takes two locks one after the other is two steps, and
remembers in between what it still has to do (`task`, `owed`, `storing`, `call`);
a call that holds the first while it asks for the second blocks in between. The
metrics' `parking_lot` locks are not poisoned by a panic.

**Futures.** Where a component takes `&mut self`, calls do not overlap, but a
future may be dropped at any await: `EventService` and `FrameWriter` have an
action for that, and what was popped or told before stays popped and told.

**Clocks and measurements.** A time is a number that only orders events, or one bit
(idle, stale, expired). A measurement takes a value between every two thresholds
of the code, and one beyond.

**Texts.** Only `ZeroCopyParser` and `JsonPaths` speak of characters, over an
alphabet with one character of each class the code tells apart. Everywhere else a
text is a value.

## Runs

Checked with TLC, two workers, each in less than five minutes.

| run | instance | shows |
|---|---|---|
| `stream_session` | 3 identifiers, limit 2 | `TypeOK`; `SessionConsistent`: counters, states and limit agree, and how far `active` is off after `close()`; `EventsTellTheSession`: the events, drained in any portions, are the ordered history of every stream and of the session; `FollowsLifecycle`: refinement of `StreamLifecycle` |
| `session_commands` | 2 clients, 2 identifiers, limit 1 | the races: `NoTornSession`, `NoTornHistory` (each stored session's queue is exactly its own history), `CausesPublishedFirst`, `LastWriterPublishesAll`, and `SerialUntilOverwrite` (every step is one of the sequential session until a save discards another) |
| `connection_manager` | 3 clients, 2 places, 2 monitors | `OnlyRacingTrafficIsCutOff`, `ClosedUntilRegistered`, and the liveness property `IdleConnectionsAreClosed` |
| `object_pool` | 4 threads, capacity 1, 16-valued usize, 7 gets | `CountsAccountForTheQueue`, `SizeErrorIsBounded` |
| `services` | 24 parts, see below | fourteen invariants, see below |
| `progress` | 5 parts, see below | `ShutdownReportsTheTruth`, `PreparingIsAttendedTo`, `CloseCancelsOnlyUnseen`, `ShutdownCloses` (workflows); `AnsweredOrDeadlocked` (repository); `SocketsDeliver` (sockets of both kinds); `ResolvedWithItsOwn`, `EveryCallSettles` (JavaScript client) |
| `lost_update` | 2 clients, 1 identifier | **violation** of `FinishedStaysFinished` |
| `limit_counts_finished` | 1 client, 2 identifiers, limit 1 | **violation** of `LimitIsOnConcurrentStreams` |
| `events_published_once` | 1 client, 1 identifier | **violation** of `EventsPublishedOnce` |
| `pool_size_drift` | 2 threads, capacity 1 | **violation** of `SizeIsExactAtRest` |
| `repository_deadlock` | 2 clients, 2 sessions | **violation** of `EveryCallIsAnswered` |
| `round_trip` | 9 documents | **violation** of `RebuildsTheDocument` |

The invariants of `services`:

| invariant | says |
|---|---|
| `StoredWasSeenByAll` | whatever the event store has, every subscriber was told before, in the order handed in, in spite of failures and abandoned calls |
| `OkMeansReceived` | Ok of a publisher means that every destination has the event, in spite of lost requests, lost answers, retries and fail-fast |
| `AdaptsTheRightWay` | worse conditions never make a strategy less selective, alone, in combination, in a plan or a recommendation; alarms about errors have the last word; services that advise on the same measurements agree; estimates are shares; reports follow the recorded samples |
| `ParsesJson` | JSON is parsed to its end and little else is; the two ways of parsing agree; a container that comes bit by bit is not thrown away before it is whole; the detectors agree, and what they claim is true of the document |
| `FramesComeOut` | stream adapters yield each frame once, in order, and keep none; a stream numbers its frames without a gap and accounts for each; skeletons show shapes only; batches hold all patches; a stream that `StreamingOrchestrator` completes has sent a whole page of frames that fits its own threshold, more important ones first, whatever others cache, store and clean up meanwhile |
| `NothingIsLostUnnoticed` | a write answered with Ok has written its frames whole and in order or dropped them on purpose, in spite of failed calls before |
| `PictureIsTrue` | what is rebuilt is a true part of the document at any moment, with frames lost too, in Rust and in JavaScript alike; no word is replaced by another dictionary's |
| `ConditionalSaveDiscardsNobody` | a save that names a version discards nobody else's save, removals and new creations included |
| `LookupMissesNothing` | pages, stale indices, event readers and pairs of queries miss nothing and contradict nothing, under the conditions the code can hold that |
| `PathsLeadToValues` | a path is its segments; rules give a priority that does not hang on the hash map's order; optimising turns no two fields round; what is set is found, and nothing else is changed |
| `HoldsWhatItSays` | the streams stored are the ones listed, unless a store and a delete raced; the cache's memory is not understated; a buffer is as large as asked; gets are counted once; a response has its own headers and frames and nothing of an earlier one |
| `TablesAgree` | gauges and entries, and both metrics collectors, agree, up to calls under way; the average is within its bound |
| `ConnectionsFollowSessions` | the connection table and the sessions behind the HTTP routes do not contradict each other |

Where the code does not keep the plain promise, the invariant says exactly how far
it does, and the comment above it names the exception; the exceptions are listed
below.

The bounds, and why they are enough:

* `StreamId` (1 to 3) against `MaxConcurrentStreams` (1 to 3): where the limit matters
  there is one identifier more than it allows. A stream raises at most three
  events, so sessions are finite and no other bound is needed.
* Two clients: a race needs a reader and a writer, or two writers and what one of
  them read before; a third adds interleavings and no new relation between a copy
  and the store. Where a third party is needed it is there: an expiry, a monitor, a
  third thread that takes the buffer another returns. The proofs hold for any number.
* Publishers: the log holds two events and three are published, so that it is shortened
  with a call under way.
* Queues, logs, pools, channels and tables hold one or two, and more is put in: each
  is met at its limit. `MaxStores`, `MaxVersion`, `MaxFrames`, `MaxSets`, `MaxGets`,
  `MaxEvents`, `MaxRequests`, `MaxSessions`, `MaxParses`, `MaxResponses`, `MaxOptimised`
  cap how often something is done, at two or three calls after the limit is met.
* `MaxFailures`, `MaxLosses`: one failure, or two losses, at any moment.
* `WordSize` = 16 stands for 2^64; the assumption `WordSize > 2 * MaxGets` keeps a
  wrapped value distinct from a real one. Four threads and seven gets drive the
  reported size above the number of objects made.
* Measurements have a value between every two thresholds of the code. Documents have
  arrays of every length class at the root and below it, nested objects, and keys
  of every priority. Texts are all of up to three (parser) or five (paths)
  characters of an alphabet with one character per class, and all texts one edit away
  from five longer ones.
* `FrameStore` keeps its index only until the orchestrator is first asked for a stream, which
  reads no index; three frames to pages of two then meet a full page, a cached one and one
  that was cleaned up.
* `SessionQueries`: one command at a time is slow, on one of three sessions: the one that
  overwrites, while any number of others come in between.
* `JsClient`: two calls and a response of three frames: a chunk can begin and end at
  each of them, with a callback before, between and after.
* `Window` is 3 for 100 samples: it fills, overflows and is compared with fewer.

Symmetry is used for safety properties over `Client` and `StreamId` in the runs of
`SessionCommands`, never with a liveness or refinement property. Deadlock is checked in
`session_commands` and `connection_manager`; a single session that is closed and
drained, the one-client violation runs, the bounded pool and the bounded calls of
`services` and `progress` really stop, and the cfgs say so.

Fairness, weak but for the timers of `JsClient`, and only of what the code schedules:

* `MonitorFairness`: `TimeoutMonitor::start` spawns a task with an endless loop around
  an interval and `process_timeouts`. `IdleConnectionsAreClosed` needs more to be
  true: a close that fails because the connection is gone must not end the sweep.
* `SessionWorkflows`: a workflow that has begun goes on; its handlers are awaited in a
  row. Nobody has to begin one.
* `SessionRepository`: a task that waits for a lock is run when the lock is free. It
  is not assumed that the lock becomes free, which is what `repository_deadlock` is about.
* `WebSocketDelivery`: each socket's task and each client's tasks are run; the `select!`
  takes a branch that is ready. Nothing is assumed of lags or of the application.
* `JsClient`: a chunk is handed out to its end, and the timer of a call fires. A timer is
  disabled while a chunk is handed out, and a server may send one after another for ever:
  its fairness is strong, because the event loop runs timers that are due between messages.
* `JsSocket`: reconnection timers fire, and an attempt to connect succeeds or fails. The
  network owes nothing.

## What the code does that its texts do not say

Shown by a violation, with the text quoted in `PROJECT.json`:

* **Lost updates** (`lost_update`). Handlers load, change and store whole sessions
  with no version check. A finished stream can be Streaming again. What the races
  cannot do is in the passing run: tear a session, or publish an effect before
  its cause.
* **The concurrency limit counts finished streams** (`limit_counts_finished`).
* **Events are published again by every command** (`events_published_once`), since
  the session is stored before its events are taken. This is also what makes
  `LastWriterPublishesAll` and `CausesPublishedFirst` true: a repair that only moved
  `take_events` before the save would lose events; their mutants are that repair.
* **The pool's size drifts** (`pool_size_drift`) and stays too high for good, by less
  than the number of threads (proved); the subtraction at object_pool.rs:61 can then
  underflow.
* **Two calls of the session repository deadlock** (`repository_deadlock`).
* **A document taken apart and put together is not the document** (`round_trip`):
  arrays of objects are doubled, long arrays at the root reordered, bare values null.

Kept as the code has it, and stated as exceptions in the modules:

* Sessions and connections: `close()` leaves `active_streams` too high by the streams it
  cancels and raises no event for them; closed connections keep their place in the
  table and nothing outside the tests removes them; no HTTP route closes a session;
  `stream_frames` returns five made-up frames; `CommandValidator` is never called.
* A transaction of the session repository drops its operations and reports success.
* `StreamingOrchestrator` asks for frames sorted by priority, and `get_frames_by_stream` does
  not look at the order: past a thousand frames, what is left out may matter more than what is
  sent. A page read early may overwrite, in the cache, one read later.
* WebSocket: the client's request creates a session under another identifier and does
  not start it; the client's table of sessions is never hit, so it acknowledges every
  frame and applies none; a socket that lags falls asleep until its client speaks.
* Publishers and streams: the priority stream ends when its buffer is empty and its inner
  stream only pending, and what comes later is lost (`FramesComeOut` excepts it); `retry_attempts` of zero answers Ok without sending; the JSON of a
  batch stream, concatenated, is not JSON; a frame of a stream may follow its
  completion, `max_frame_size` is enforced nowhere, progress falls when the first frame is
  made; `create_patch_frames` never yields a frame, and all frames of one batch would
  bear the same number.
* Rebuilding: in JavaScript `Priority.High` is 75 and in Rust 80, though `js:types/index.ts`
  says "matching the Rust implementation"; a Complete frame of the core has no priority
  and is refused by `FrameProcessor`, which `PJSClient` makes and never calls; the
  JavaScript client does not know the path `$` and rejects a document that is an array.
* Compression: the analysis never chooses Delta or Hybrid; decoders for delta and
  run-length encoding do not exist; a number below the dictionary's size becomes a word.
* Parsing: keys of any type pass; `\u` escapes are dropped; the SIMD way differs on
  space around a text, on most escapes, and on aligned texts with braces in strings;
  the incremental parser empties its buffer at the first prefix that parses, so "12" in
  two bits is cleared at "1", and returns no value ever. The detectors of the two parsers
  differ on matrices, "coord", tables of two rows and uneven rows; every time series
  claims the fields "timestamp" and "value".
* Paths, values and rules: `append_key` lets pass keys that `new` refuses; an unterminated last
  bracket and the index "+1" are accepted; the parent of `$.a[0]` is `$`; `is_prefix_of`
  counts bytes. 0.0 and -0.0 are equal and hash differently; integers beyond `i64`
  become floats. Optimising can lower a frequent field that had no rule; the rule for
  type `object_deep` never matches; one key with `.`, `[` or `]` and no value of the
  document gets a priority.
* Adaptive services: `default_strategy` and `history_retention_duration` are read by
  no code; after a window full of errors no success brings the error
  rate below a half again; a transfer in no time inflates the average throughput; a
  streaming batch may be of size zero, and a low throughput undoes what an alarming
  latency asked for; compression is turned on for low bandwidth while a busy
  processor is advised against it; the average session duration of the system
  statistics is always zero.
* Pools, metrics, responses: the buffer pool's memory usage is always zero and its two limits
  are never read; builders that finish keep their objects, so only abandoned ones
  refill the pools; the SSE fallback writes a backslash and an n; `UniversalAdapter::to_response`
  always fails; the preferred format is looked up under the lower-case header name only;
  stream identifiers POSTed to `axum_extension` are stored nowhere. The Prometheus collector
  (behind a feature) panics when the number of labels of a metric changes, which the end of
  every stream does, and in a composite keeps the collectors after it from hearing of it.
* JavaScript `stream()`: `http.ts` says "Cancel any existing stream" and aborts the fetch, but the
  loop over the lines of a chunk already read goes on; `client.ts` says "Ignore frames for other
  streams" and compares the current stream, not the frame's, with its own. A `stream()` called
  from a callback is handed the rest of the old chunk and may resolve with the old response
  or, at its Complete, with nothing. Over a WebSocket, frames of all calls reach the last one.
* JavaScript WebSocket: `disconnect()` and a new `connect()` do not stop a reconnection that
  is due; a first `connect()` that failed goes on in the background; a failed attempt is
  reported as a disconnect although the next may succeed; a late close of a socket left
  behind declares the new one closed; a `connect()` that fails while another socket is
  open is never answered.

## Proofs

All theorems are checked to the last leaf by TLAPS with Z3, Zenon and LS4, and
hold for every value of the constants that meets the assumptions named in the
modules. What these demand, and why the code justifies it:

* `StreamId`, `SessionId`, `Caller`, `Client`, `Socket`, `Thread` and the keys of the cache are
  finite: cardinalities and sums are taken over them, and a process has finitely many.
* Sizes and capacities are naturals, frames are text, and a request does not have its
  `Accept` header twice, in both spellings: the header map of a request has it under one.
* Limits, bounds and priorities are naturals; the pool's capacity is positive, as `ArrayQueue::new`
  demands; the log is shortened by at least one event and by no more than it holds;
  a JavaScript response has more than one frame; the word is wide enough for the
  count of gets.
* Values that stand for nothing (`NoStream`, `NoSession`, `NoCall`, `NoSocket`, `Absent`)
  are none of what they stand apart from, and no client is called `Nobody`.

No assumption speaks of a variable. What is proved, and along which argument:

* `SessionAggregate_proofs` has the lemmas: how the number of streams in a set of
  states changes when one stream moves (`CountAfterMove`), and that each method
  keeps a session typed and `Consistent`.
* `StreamSession_proofs`: `TypeCorrect`, `CountersAreConsistent`,
  `ImplementsLifecycle`. The invariant is `TypeOK /\ Consistent(session)`.
  Consistency is inductive only as a whole: the saturating decrement of `active`
  is exact because the stream that ends was counted; and a stream method, which
  never looks at the session's state, keeps to `StreamLifecycle` because no stream
  runs outside an Active session (`RunsOnlyWhileActive`).
  `HistoryIsComplete` adds the events. What is drained and what is still queued make
  one log. A history is stated by what the log tells of a stream (`Told`, one of the
  `Stories` of the stream's state) and by positions in it (`InOrder`: later stages come
  later), not as a filtered sequence, whose facts would need induction. A method raises one
  event or none (`LogAppended`, `RaisingTells`), and it is the next of its history.
* `SessionCommands_proofs`: `CommandsAreTyped`, `NothingIsTorn`,
  `SerializableUntilOverwrite`. For the first two the invariant says that the
  stored session and every copy are consistent, and that a handler that is loaded
  has a command and a session to apply it to. For the third it adds that a copy whose owner is
  not in `outdated` equals the stored session; so until some owner in `outdated` saves,
  the method applied to the copy is the method applied to the store.
  `NoHistoryIsTorn`: every stored session, and every copy, carries exactly its own
  history, by the lemmas of the aggregate (`SavesTellTheStory`).
  `CausesGoFirst` needs `OutboxInOrder`: the events a handler has still to publish are
  in order, and the causes of each are before it in the outbox or published. Handlers
  publish all the history they found, so a cause is never left to another handler.
  `NothingGoesUnannounced` needs `OwingIsPublishing`: the last writer, as long as it
  owes events, is publishing.
* `Progress_proofs`, for the components whose clients wait for an end. The parts share
  no state, so each has an invariant of its own that the steps of the others leave alone.
  * Workflows: `ShutdownIsTruthful`, `NobodyIsLeftPreparing` and the action property
    `ClosingSparesTheSeen`, from `WorkflowsIInv`: what a workflow remembers of its
    query was true then and can have changed in one direction only (`RemembersTruly`),
    reports list only what happened (`ReportIsTrue`), and the session is the
    consistent one of the aggregate (`SessionKept`). A stream in Preparing is in the
    hands of a workflow about to start it, or orphaned with an error (`Attended`).
  * JavaScript client: `ResolvedIsItsOwn`, from `JsIInv`: for a call that can only be
    given whole responses (`Orderly`), what has been built is what came in of one response
    (`BuiltFrom`): its own, or, for a call made from a callback, the one of the chunk under way,
    of which it has nothing or all (`Follows`). This holds of the stream that is current
    (`CurrentIsInOrder`) and of the one that was so when the frame in hand was announced
    (`ToldIsInOrder`), and the two may differ. And for the socket
    beneath from `WiresIInv`: timers and attempts are bounded (`CountsAreBounded`), and
    while connections are made one at a time at most one socket is alive and it is
    the current one (`OneAtATime`).
  * WebSocket transport: `AcknowledgedIsDelivered`, from `SocketsIInv`. That
    acknowledgements do not outnumber deliveries is not inductive: an acknowledgement
    under way must be counted with those that arrived. A frame is sent once per
    session (`SentOnce`), each client gets it once over any number of channels
    (`GotOnce`), acknowledges it once (`AckedOnce`), and what is counted plus what is
    under way is at most what was delivered (`AcksAreCounted`); likewise
    for requests and the sessions they make (`RequestsAreCounted`).
  * `ProgressIsTyped`: the types and bounds of all five.
* `Services_proofs`, for services whose clients are answered.
  * `StoreIsNeverAhead`: the event service tells every subscriber and then stores. The
    invariant fixes how far a call under way has come (`CallIsUnderWay`), that the store
    is behind what was told to each subscriber of its time (`StoreIsBehind`), and that each was told
    in order and without gaps (`ToldInOrder`, `ToldSoFar`), for calls given up too.
  * `OkIsTruthful`: the invariant is a promise a caller's record makes at every point
    between the start and the answer: what is behind it in the batch, and the
    destinations behind it for this event, have arrived (`Promised`). An answer of Ok
    is that promise at the end. Retries may deliver twice and never undo an arrival
    (`Grows`). `LogIsRecent`: the log is the end of all that was logged.
  * `NobodyIsDiscarded`: versions are drawn in turn, so a number that a client knows as its
    own is nobody else's, and is never used again, not even after a removal
    (`VersionsAreOld`, `KnownMeansSaved`).
  * `NothingIsLost`: a frame is to be written, in the queue or on the wire, and there
    once (`InOnePlace`), or it has failed or was dropped (`NoneForgotten`). Written
    in order does not follow from that alone, for the queue hands out the least
    important frame first: it needs that the queue holds one frame at most that has
    not failed (`QueueIsLeftOver`), because a call drains it after each push, and that what
    is on the wire is ahead of the queue, and the queue ahead of what the call
    has in hand (`WireIsAhead`). Every way a call can end is one lemma (`CallIsOver`).
  * `TableFollows`: between the two awaits of a handler, its request remembers what it
    created (`RequestsAreSound`); what the table shows was started and stays so
    (`ShownAreSettled`, `TableIsTold`).
* `Stores_proofs`, for the stores beneath: `StoresHoldWhatTheySay` and `TablesDoAgree`, from
  `StoresIInv`, again one invariant per part.
  * `FlattenSeq` and `SumFunction` are defined by recursion over data. Well-founded
    induction over naturals and over finite sets is therefore derived first-order, for
    members of a set instead of a predicate (`NumberInduction`, `SubsetInduction`, from
    `WFMin`), and from it what the two operators compute: that the sum over a
    finite set is defined, grows with its terms and changes by the difference when one
    term does (`SumIsDefined` to `SumCounts`); that what holds of the empty text and
    survives one more part holds of all parts joined (`FlattenInduction`). These lemmas
    are in `Reporting_proofs`.
  * Streams of a session (`ListingIInv`): a stream being stored is in the map and
    nobody is deleting it; a delete that found it gone is right; otherwise list and map
    agree, but for the delete that is about to take it off the list. All of it is claimed of
    streams for which no store and delete overlapped.
  * The cache (`CacheIInv`): the claim is inductive as it stands, for each call changes
    one term of one sum. The memory counted is only ever added to, when an entry
    is set: nothing that takes entries away lowers it.
  * The buffers (`BuffersIInv`): the class chosen for a capacity is no smaller
    (`ForCapacityIsEnough`), and the gets counted are hits, misses and the threads that wait.
  * The responses (`ResponsesIInv`): a builder has the headers of its type under its own, its own
    events and nothing else (`IsOnesOwn`), since what is taken from a pool is empty
    however it came back (`ObtainedIsEmpty`); the objects made are in the pool, in
    builders, in responses or thrown away, and none is in two places (`Balanced`). A body read
    as its type is read gives its frames, for any list of frames (`EventsAreRead`,
    `BodiesAreRead`), and the formats chosen are accepted (`FormatsAgree`).
  * The metrics (`MetricsIInv`, in `Reporting_proofs`). A call goes through the steps of both
    collectors in either order, no step twice and paired steps in a row (`TasksIInv`,
    `InTurn`), or stops at a panic. The entries are those of what was begun, is not
    ended, and waits for no step (`EntriesIInv`); the gauges are their number, up to the
    calls that have taken the first step of a pair and owe the second (`GaugesIInv`). A step
    moves one caller from one such set to the next, so each equation is about
    cardinalities that change by one. For Prometheus it is said of each identifier what
    its series shows at each point of its calls (`SessionShown`, `StreamShown`), and the
    totals follow by `SumCounts`. The average is bounded by some duration recorded
    (`AverageIInv`), which, unlike a bound by the longest, each step preserves as it stands.
    `Reporting` declares the metrics apart from the other parts, for the proof to be
    about them alone.
* `Limits_proofs`, for the connection manager and the object pool. It extends both,
  which is why the pool's specification has names of its own (`PoolSpec`, `PoolTypeOK`).
  * `TableIsCorrect`, `MonitorCutsOffOnlyRacers`, `RevivedByRegistrationOnly`, of
    the connections whatever uses them. The invariant (`TableIInv`) is the
    conjunction of the first two.
  * `PoolIsTyped`, `CountsAreExact`, `ErrorIsBounded`. The bound on the error needs
    that an error can only grow while another thread is between its push and its
    count (`SomeoneElsePushes`): a pop that saturates at zero has overtaken such a
    thread.

Each inductive invariant was checked with TLC on the instance of its run
before it was proved, with a finite range where it quantifies over `Nat`.

Model-checked only:

* All liveness: `IdleConnectionsAreClosed`, `ShutdownCloses`, `AnsweredOrDeadlocked`,
  `EveryCallSettles`, and of `SocketsDeliver` that laggards catch up and that speaking
  wakes a socket. Fairness and `ENABLED` are beyond the prover.
* The modules with recursion over data, which declare `RECURSIVE` operators: `Compression`,
  `JsonPaths`, `JsonValues`, `PriorityRules`, `Reconstruction`,
  `StreamFrames`, `ZeroCopyParser`. The prover takes no module that declares one.
* The modules whose steps filter and sort whole collections: `FrameStore`, `FrameStreams`.
  The library defines `SelectSeq` and `SortSeq` by recursion, which the provers cannot unfold.
* `AdaptiveStreaming` and `PerformanceHistory`, whose states are inputs that are all
  enumerated; the readers `EventQueries` and `SessionQueries`; `SemanticDetection`.

## Not modelled

* `parser/hybrid.rs`: not compiled. The middleware and routing: no state.
* serde_json, sonic-rs and the SIMD serialisation of `simd_acceleration.rs`, which only speeds
  up what the libraries do; the wire format of `frame.rs` with its checksum: bits, better
  tested than model-checked.
* Averages of the writer's metrics, configuration, error texts and logging: nothing
  modelled reads them.
* Of the JavaScript client: statistics, progress events, what is rendered, callbacks that throw, and utilities.
* The demo, the benchmarks and the examples, which use the core.

The map covers about 31 % of the lines of the implementation. Much of the rest are
tests inside the source files, derived and delegating methods, texts and the parts above.

## Plan

1. The index of `FrameStore` in a form that does not filter, as the list of `StreamStore` is
   stated now.
2. An atomic map as the abstract specification of `StreamStore` away from races.
3. The two halves of a workflow's command, as in `SessionCommands`, under
   `SessionWorkflows`: what shutdown can still promise when commands overlap.
