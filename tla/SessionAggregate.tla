-------------------------- MODULE SessionAggregate --------------------------
(***************************************************************************)
(* The StreamSession aggregate root and the Stream entities it owns        *)
(* (domain/aggregates/stream_session.rs, domain/entities/stream.rs), as    *)
(* operators on a session value: for every method `op`, MayOp is the       *)
(* condition under which it returns Ok and AfterOp the session it leaves.  *)
(* A method that returns Err leaves the session as it was.                 *)
(*                                                                         *)
(* The command handlers copy whole sessions in and out of a repository, so *)
(* the aggregate is a value here; StreamSession.tla gives it a life of its *)
(* own and SessionCommands.tla the concurrent one.                         *)
(*                                                                         *)
(* Abstracted: timestamps (the clock only matters through `expired`), byte *)
(* and frame counters, client metadata and the source data.  Frame         *)
(* generation changes no modelled state because Stream::extract_patches    *)
(* returns no patch.                                                       *)
(***************************************************************************)
EXTENDS Naturals, Sequences, FiniteSets

CONSTANTS
  StreamId,              \* the identifiers StreamId::new can draw, never twice
  MaxConcurrentStreams,  \* SessionConfig::max_concurrent_streams
  NoStream               \* the subject of an event about the session itself

ASSUME StreamIdAssumption == IsFiniteSet(StreamId) /\ NoStream \notin StreamId
ASSUME MaxConcurrentStreamsAssumption == MaxConcurrentStreams \in Nat

-----------------------------------------------------------------------------
\* Stream::is_active and Stream::is_finished.
ActiveStates   == {"Preparing", "Streaming"}
FinishedStates == {"Completed", "Failed", "Cancelled"}

\* "Absent": the identifier is not a key of StreamSession::streams.
StreamState == {"Absent"} \cup ActiveStates \cup FinishedStates

\* Closing is assigned and overwritten inside one method, and no code sets
\* Failed: neither is a state another party can find a session in.
SessionState == {"Initializing", "Active", "Completed"}

StreamEventKind  == {"StreamCreated", "StreamStarted", "StreamCompleted", "StreamFailed"}
SessionEventKind == {"SessionActivated", "SessionClosed"}

Event == [kind : StreamEventKind, stream : StreamId]
           \cup [kind : SessionEventKind, stream : {NoStream}]

SessionStats == [total : Nat, active : Nat, completed : Nat, failed : Nat]

Session == [state   : SessionState,
            streams : [StreamId -> StreamState],
            stats   : SessionStats,
            pending : Seq(Event)]

NewSession ==
  [state   |-> "Initializing",
   streams |-> [id \in StreamId |-> "Absent"],
   stats   |-> [total |-> 0, active |-> 0, completed |-> 0, failed |-> 0],
   pending |-> << >>]

\* The streams of s whose state is one of K.
StreamsIn(s, K) == {id \in StreamId : s.streams[id] \in K}
Count(s, K)     == Cardinality(StreamsIn(s, K))
Known           == ActiveStates \cup FinishedStates

SessionEvent(kind)    == [kind |-> kind, stream |-> NoStream]
StreamEvent(kind, id) == [kind |-> kind, stream |-> id]

\* u64::saturating_sub(1)
SaturatingDec(n) == IF n = 0 THEN 0 ELSE n - 1

-----------------------------------------------------------------------------
(* Session methods *)

IsActive(s, expired) == s.state = "Active" /\ ~expired

MayActivate(s)   == s.state = "Initializing"
AfterActivate(s) ==
  [s EXCEPT !.state   = "Active",
            !.pending = Append(@, SessionEvent("SessionActivated"))]

\* The limit counts every key of the map: streams.len(), finished ones too.
HasRoom(s) == Count(s, Known) < MaxConcurrentStreams

MayCreateStream(s, expired, id) ==
  /\ IsActive(s, expired)
  /\ HasRoom(s)
  /\ s.streams[id] = "Absent"

\* One stream of the session changes its state, the counters follow and an
\* event tells of it.
Moved(s, id, to, stats, kind) ==
  [state   |-> s.state,
   streams |-> [s.streams EXCEPT ![id] = to],
   stats   |-> stats,
   pending |-> Append(s.pending, StreamEvent(kind, id))]

\* Mutant: the new stream is not counted as active.
AfterCreateStreamUncounted(s, id) ==
  Moved(s, id, "Preparing", [s.stats EXCEPT !.total = @ + 1], "StreamCreated")

AfterCreateStream(s, id) ==
  Moved(s, id, "Preparing",
        [s.stats EXCEPT !.total = @ + 1, !.active = @ + 1], "StreamCreated")

\* Mutant: any live stream may be started, as if the match had no guard.
MayStartAnyStream(s, id) == s.streams[id] # "Absent"

MayStartStream(s, id)   == s.streams[id] = "Preparing"
AfterStartStream(s, id) == Moved(s, id, "Streaming", s.stats, "StreamStarted")

MayCompleteStream(s, id)   == s.streams[id] = "Streaming"
AfterCompleteStream(s, id) ==
  Moved(s, id, "Completed",
        [s.stats EXCEPT !.active = SaturatingDec(@), !.completed = @ + 1],
        "StreamCompleted")

MayFailStream(s, id)   == s.streams[id] \in ActiveStates
AfterFailStream(s, id) ==
  Moved(s, id, "Failed",
        [s.stats EXCEPT !.active = SaturatingDec(@), !.failed = @ + 1],
        "StreamFailed")

\* Frames of one stream: Stream::create_patch_frames wants it Streaming.
MayGenerateFrames(s, id) == s.streams[id] = "Streaming"

\* Frames of all active streams: the `?` on the first stream that is still
\* Preparing makes the whole batch fail.
MayCreatePriorityFrames(s, expired) ==
  /\ IsActive(s, expired)
  /\ StreamsIn(s, {"Preparing"}) = {}

MayClose(s)   == s.state = "Active"

\* Mutant: close() stops after its first assignment to the state.
AfterCloseHalfway(s) ==
  [s EXCEPT !.state   = "Closing",
            !.streams = [id \in StreamId |->
                           IF @[id] \in ActiveStates THEN "Cancelled" ELSE @[id]],
            !.pending = Append(@, SessionEvent("SessionClosed"))]

\* Cancels every active stream; neither stats nor events tell of it.
AfterClose(s) ==
  [s EXCEPT !.state   = "Completed",
            !.streams = [id \in StreamId |->
                           IF @[id] \in ActiveStates THEN "Cancelled" ELSE @[id]],
            !.pending = Append(@, SessionEvent("SessionClosed"))]

AfterTakeEvents(s) == [s EXCEPT !.pending = << >>]
-----------------------------------------------------------------------------
(* What makes a session value a sound one *)

\* The counters of SessionStats, kept by increments in five methods, agree
\* with the streams themselves.  The active counter is exact until close(),
\* which cancels streams without uncounting them: from then on it is too
\* high by the number of streams it cancelled, for good.
StatsAgree(s) ==
  /\ s.stats.total     = Count(s, Known)
  /\ s.stats.active    = Count(s, ActiveStates \cup {"Cancelled"})
  /\ s.stats.completed = Count(s, {"Completed"})
  /\ s.stats.failed    = Count(s, {"Failed"})
  /\ s.state # "Completed" => StreamsIn(s, {"Cancelled"}) = {}

\* start_stream, complete_stream and fail_stream never look at the state of
\* the session; still no stream runs in a session that is not Active, so no
\* stream can change in one.
RunsOnlyWhileActive(s) == s.state # "Active" => StreamsIn(s, ActiveStates) = {}

\* A session never holds more streams than its limit.
WithinLimit(s) == Count(s, Known) <= MaxConcurrentStreams

Consistent(s) == StatsAgree(s) /\ RunsOnlyWhileActive(s) /\ WithinLimit(s)

\* The kinds of the events about one stream.
Told(log, id) == {log[i].kind : i \in {j \in DOMAIN log : log[j].stream = id}}

\* How late in the life of a stream an event comes; it has one end only.
Stage(kind) ==
  CASE kind = "StreamCreated" -> 1
    [] kind = "StreamStarted" -> 2
    [] kind \in {"StreamCompleted", "StreamFailed"} -> 3

\* Each stream's events come in the order of its life, and each only once.
InOrder(log) ==
  \A i, j \in DOMAIN log :
    i < j /\ log[i].stream = log[j].stream /\ log[i].stream \in StreamId
      => Stage(log[i].kind) < Stage(log[j].kind)

\* What may have been told of a stream in the given state.
Stories(state) ==
  LET created == {"StreamCreated"}
      started == {"StreamCreated", "StreamStarted"}
  IN  CASE state = "Absent"    -> {{}}
        [] state = "Preparing" -> {created}
        [] state = "Streaming" -> {started}
        [] state = "Completed" -> {started \cup {"StreamCompleted"}}
        [] state = "Failed"    -> {created \cup {"StreamFailed"}, started \cup {"StreamFailed"}}
        [] state = "Cancelled" -> {created, started}

\* A consumer that replays the events, drained in any portions, learns what
\* happened to every stream; a cancelled stream is the one whose story stops
\* short of its end in a closed session.  The session's own events open and
\* close the log: nothing is raised after SessionClosed.
EventsTellTheStory(log, s) ==
  /\ \A id \in StreamId : Told(log, id) \in Stories(s.streams[id])
  /\ InOrder(log)
  /\ (s.state # "Initializing") <=> (log # << >>)
  /\ \A i \in DOMAIN log :
       /\ log[i].kind = "SessionActivated" <=> i = 1
       /\ log[i].kind = "SessionClosed" => i = Len(log)
  /\ s.state = "Completed" <=> \E i \in DOMAIN log : log[i].kind = "SessionClosed"
=============================================================================
