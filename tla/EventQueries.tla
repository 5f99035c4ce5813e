---------------------------- MODULE EventQueries ----------------------------
(***************************************************************************)
(* Domain events (domain/events/mod.rs) in an InMemoryEventStore, exported *)
(* and replayed as DTOs (application/dto/event_dto.rs, event_service.rs),  *)
(* and EventQueryHandler (application/handlers/query_handlers.rs) as a     *)
(* reader uses it that follows the events of one session or stream: it     *)
(* asks each time for those since the last it has got, some at a time.     *)
(***************************************************************************)
EXTENDS Naturals, Sequences, FiniteSetsExt, SequencesExt, TLC

CONSTANTS
  Happenings, \* what events are of: a variant, a session and a stream
  Queries,    \* what may be followed: a session with types, or a stream
  Times,      \* the clock that events carry
  Limits,     \* of a query
  MaxEvents   \* bound: events in the store

VARIABLES
  events,  \* InMemoryEventStore::events
  reader   \* the query, what the reader has got, the time of the last of it,
           \* and, of the last answer, total_count, its length and the store's

vars == << events, reader >>

-----------------------------------------------------------------------------
(* Events *)

\* event_type, which is also the tag of the DTO
EventType ==
  [SessionActivated |-> "session_activated", SessionClosed |-> "session_closed",
   SessionExpired |-> "session_expired", StreamCreated |-> "stream_created",
   StreamStarted |-> "stream_started", StreamCompleted |-> "stream_completed",
   StreamFailed |-> "stream_failed", StreamCancelled |-> "stream_cancelled",
   SkeletonGenerated |-> "skeleton_generated",
   PatchFramesGenerated |-> "patch_frames_generated", FramesBatched |-> "frames_batched",
   PriorityThresholdAdjusted |-> "priority_threshold_adjusted",
   StreamConfigUpdated |-> "stream_config_updated",
   PerformanceMetricsRecorded |-> "performance_metrics_recorded"]

Variants == DOMAIN EventType
OfSessions == {"SessionActivated", "SessionClosed", "SessionExpired", "FramesBatched",
               "PriorityThresholdAdjusted", "PerformanceMetricsRecorded"}

\* What a variant has beside its session, its stream and its time
Details(variant) ==
  CASE variant = "StreamFailed"               -> {"error"}
    [] variant = "SkeletonGenerated"          -> {"frame_size_bytes"}
    [] variant = "PatchFramesGenerated"       -> {"frame_count", "total_bytes", "highest_priority"}
    [] variant = "FramesBatched"              -> {"frame_count"}
    [] variant = "PriorityThresholdAdjusted"  -> {"old_threshold", "new_threshold", "reason"}
    [] variant = "PerformanceMetricsRecorded" -> {"metrics"}
    [] OTHER                                  -> {}

\* DomainEvent: a variant with its fields
Event(what, time) ==
  [variant |-> what.variant,
   fields  |-> [session_id |-> what.session, timestamp |-> time]
                 @@ (IF what.variant \in OfSessions THEN << >> ELSE [stream_id |-> what.stream])
                 @@ [d \in Details(what.variant) |-> d]]

SessionOf(e) == e.fields.session_id
StreamOf(e)  == IF "stream_id" \in DOMAIN e.fields THEN e.fields.stream_id ELSE "None"
TimeOf(e)    == e.fields.timestamp

\* DomainEventDto: a tag beside the fields, with identifiers as UUIDs
Ids == {"session_id", "stream_id"}

ToDto(e) ==
  [event_type |-> EventType[e.variant]]
    @@ [f \in DOMAIN e.fields |-> IF f \in Ids THEN [uuid |-> e.fields[f]] ELSE e.fields[f]]

FromDto(dto) ==
  [variant |-> CHOOSE v \in Variants : EventType[v] = dto.event_type,
   fields  |-> [f \in DOMAIN dto \ {"event_type"} |-> IF f \in Ids THEN dto[f].uuid ELSE dto[f]]]

Dtos(seq)    == [i \in DOMAIN seq |-> ToDto(seq[i])]
Replay(dtos) == [i \in DOMAIN dtos |-> FromDto(dtos[i])]

-----------------------------------------------------------------------------
(* The store and the queries: places of events in the store *)

Following(query) == [query |-> query, since |-> 0, got |-> << >>,
                     answer |-> [total |-> 0, at |-> 0]]

Init == events = << >> /\ reader \in {Following(query) : query \in Queries}

\* Handlers append what they have taken from sessions: not in the order of time.
AppendEvent(what, time) ==
  /\ Len(events) < MaxEvents
  /\ events' = Append(events, Event(what, time))
  /\ UNCHANGED reader

Where(Test(_)) == SelectSeq([i \in DOMAIN events |-> i], LAMBDA i : Test(events[i]))

EventsForSession(s)   == Where(LAMBDA e : SessionOf(e) = s)
EventsForStream(s)    == Where(LAMBDA e : StreamOf(e) = s)
StoredSince(time)     == Where(LAMBDA e : TimeOf(e) > time)

Answer(places, limit) ==
  [total |-> Len(places), page |-> SubSeq(places, 1, Min({limit, Len(places)}))]

\* Mutant: the last event is among those since it.
EventsFrom(s, types, since, limit) ==
  Answer(SelectSeq(EventsForSession(s), LAMBDA i :
           TimeOf(events[i]) >= since /\ EventType[events[i].variant] \in types), limit)

\* GetSessionEventsQuery: retain what is newer and of the types, count, truncate
SessionEvents(s, types, since, limit) ==
  Answer(SelectSeq(EventsForSession(s), LAMBDA i :
           TimeOf(events[i]) > since /\ EventType[events[i].variant] \in types), limit)

\* GetStreamEventsQuery
StreamEvents(s, since, limit) ==
  Answer(SelectSeq(EventsForStream(s), LAMBDA i : TimeOf(events[i]) > since), limit)

Asked(query, since, limit) ==
  IF "session" \in DOMAIN query THEN SessionEvents(query.session, query.types, since, limit)
  ELSE StreamEvents(query.stream, since, limit)

Poll(limit) ==
  LET answer == Asked(reader.query, reader.since, limit)
  IN  /\ answer.page # << >>
      /\ reader' = [reader EXCEPT
                      !.since  = Max({TimeOf(events[i]) : i \in ToSet(answer.page)}),
                      !.got    = @ \o answer.page,
                      !.answer = [total |-> answer.total - Len(answer.page), at |-> Len(events)]]
      /\ UNCHANGED events

Next ==
  \/ \E what \in Happenings, time \in Times : AppendEvent(what, time)
  \/ \E limit \in Limits : Poll(limit)

Spec == Init /\ [][Next]_vars

-----------------------------------------------------------------------------
(* Properties *)

TypeOK ==
  /\ Len(events) <= MaxEvents
  /\ ToSet(reader.got) \subseteq DOMAIN events
  /\ \A i \in DOMAIN events : events[i].variant \in Variants

\* What the reader is after
Mine ==
  LET q == reader.query
  IN  {i \in DOMAIN events :
         IF "session" \in DOMAIN q
         THEN SessionOf(events[i]) = q.session /\ EventType[events[i].variant] \in q.types
         ELSE StreamOf(events[i]) = q.stream}

\* No event is got twice; and in a store where the times of a reader's events
\* increase, it misses none, whatever the limits, and knows from total_count
\* how many are left.  (Events with equal times that a limit separates, and
\* events appended late, are missed.)
ReaderFollows ==
  /\ IsInjective(reader.got)
  /\ (\A i, j \in Mine : i < j => TimeOf(events[i]) < TimeOf(events[j])) =>
       /\ \A i \in Mine : TimeOf(events[i]) <= reader.since => i \in ToSet(reader.got)
       /\ reader.answer.total =
            Cardinality({i \in Mine \ ToSet(reader.got) : i <= reader.answer.at})

\* What is exported by session, by stream or by time is replayed as it was:
\* every event, in the same order, with its kind, its ids and its time.
ExportsReplay ==
  LET At(places) == [i \in DOMAIN places |-> events[places[i]]]
  IN  \A e \in ToSet(events) :
        \A places \in {EventsForSession(SessionOf(e)), EventsForStream(StreamOf(e)),
                       StoredSince(TimeOf(e))} :
          Replay(Dtos(At(places))) = At(places)
=============================================================================
