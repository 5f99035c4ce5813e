------------------------ MODULE StreamSession_proofs ------------------------
(***************************************************************************)
(* A session's counters agree with its streams after every sequence of     *)
(* calls, for every limit and every set of stream identifiers, and the     *)
(* session implements StreamLifecycle.                                     *)
(***************************************************************************)
EXTENDS StreamSession, SessionAggregate_proofs

\* What the calls preserve.
IInv == TypeOK /\ SessionConsistent

\* The inductive step: one case per method of the aggregate.
LEMMA IInvStep ==
  ASSUME IInv, [Next]_vars
  PROVE  IInv'
<1>1. /\ session \in Session /\ Consistent(session)
      /\ expired \in BOOLEAN /\ taken \in Seq(Event)
  BY DEF IInv, TypeOK, SessionConsistent
<1>2. ASSUME NEW s \in Session, Consistent(s), Becomes(s)
      PROVE  IInv'
  BY <1>1, <1>2 DEF IInv, TypeOK, SessionConsistent, Becomes
<1>3. CASE Activate
  BY <1>1, <1>2, <1>3, ActivateConsistent DEF Activate
<1>4. ASSUME NEW id \in StreamId, CreateStream(id)
      PROVE  IInv'
  BY <1>1, <1>2, <1>4, CreateStreamConsistent DEF CreateStream
<1>5. ASSUME NEW id \in StreamId, StartStream(id)
      PROVE  IInv'
  BY <1>1, <1>2, <1>5, StartStreamConsistent DEF StartStream
<1>6. ASSUME NEW id \in StreamId, CompleteStream(id)
      PROVE  IInv'
  BY <1>1, <1>2, <1>6, CompleteStreamConsistent DEF CompleteStream
<1>7. ASSUME NEW id \in StreamId, FailStream(id)
      PROVE  IInv'
  BY <1>1, <1>2, <1>7, FailStreamConsistent DEF FailStream
<1>8. CASE Close
  BY <1>1, <1>2, <1>8, CloseConsistent DEF Close
<1>9. CASE TakeEvents
  <2>1. AfterTakeEvents(session) \in Session /\ Consistent(AfterTakeEvents(session))
    BY <1>1, TakeEventsConsistent
  <2>2. taken \o session.pending \in Seq(Event)
    BY <1>1, SessionFields
  <2>3. QED
    BY <1>1, <1>9, <2>1, <2>2 DEF TakeEvents, IInv, TypeOK, SessionConsistent
<1>10. CASE Expire
  BY <1>1, <1>10 DEF Expire, IInv, TypeOK, SessionConsistent
<1>11. CASE UNCHANGED vars
  BY <1>1, <1>11 DEF vars, IInv, TypeOK, SessionConsistent
<1>12. QED
  BY <1>3, <1>4, <1>5, <1>6, <1>7, <1>8, <1>9, <1>10, <1>11 DEF Next

\* The invariant holds at first.
LEMMA IInvInit == Init => IInv
<1>1. << >> \in Seq(Event)
  OBVIOUS
<1>2. QED
  BY <1>1, NewSessionConsistent DEF Init, IInv, TypeOK, SessionConsistent

\* The variables keep their types, whatever is called in whatever order.
THEOREM TypeCorrect == Spec => []TypeOK
<1>1. IInv /\ [Next]_vars => IInv'
  BY IInvStep
<1>2. IInv => TypeOK
  BY DEF IInv
<1>3. QED
  BY IInvInit, <1>1, <1>2, PTL DEF Spec

\* The counters of SessionStats agree with the streams, no stream runs
\* outside an active session and the limit is kept: for any number of
\* streams, any limit and any sequence of method calls.
THEOREM CountersAreConsistent == Spec => []SessionConsistent
<1>1. IInv /\ [Next]_vars => IInv'
  BY IInvStep
<1>2. IInv => SessionConsistent
  BY DEF IInv
<1>3. QED
  BY IInvInit, <1>1, <1>2, PTL DEF Spec

-----------------------------------------------------------------------------
(* The history *)

\* What is drained and what is pending, after an event has been raised.
LEMMA LogAppended ==
  ASSUME TypeOK, NEW e \in Event
  PROVE  /\ Log \in Seq(Event)
         /\ taken \o Append(session.pending, e) = Append(Log, e)
<1>1. session.pending \in Seq(Event) /\ taken \in Seq(Event)
  BY SessionFields DEF TypeOK
<1>2. QED
  BY <1>1 DEF Log

\* A method that raises one event.
LEMMA RaisingTells ==
  ASSUME TypeOK, NEW s, Becomes(s), NEW e \in Event,
         s.pending = Append(session.pending, e), EventsTellTheStory(Append(Log, e), s)
  PROVE  EventsTellTheSession'
<1>1. Log' = Append(Log, e)
  BY LogAppended DEF Becomes, Log
<1>2. QED
  BY <1>1 DEF EventsTellTheSession, Becomes

\* The events the methods raise, and what they append to.
LEMMA RaisedEvents ==
  ASSUME TypeOK
  PROVE  /\ session \in Session /\ Log \in Seq(Event)
         /\ \A kind \in SessionEventKind : SessionEvent(kind) \in Event
         /\ \A kind \in StreamEventKind, id \in StreamId : StreamEvent(kind, id) \in Event
         /\ AfterActivate(session).pending =
              Append(session.pending, SessionEvent("SessionActivated"))
         /\ AfterClose(session).pending =
              Append(session.pending, SessionEvent("SessionClosed"))
<1>1. session \in Session /\ Log \in Seq(Event)
  BY SessionFields DEF TypeOK, Log
<1>2. /\ \A kind \in SessionEventKind : SessionEvent(kind) \in Event
      /\ \A kind \in StreamEventKind, id \in StreamId : StreamEvent(kind, id) \in Event
  BY DEF SessionEvent, StreamEvent, Event
<1>3. /\ AfterActivate(session).pending =
           Append(session.pending, SessionEvent("SessionActivated"))
      /\ AfterClose(session).pending =
           Append(session.pending, SessionEvent("SessionClosed"))
  BY <1>1 DEF AfterActivate, AfterClose, Session
<1>4. QED
  BY <1>1, <1>2, <1>3

\* The inductive step, on top of the counters: that a stream runs only in an
\* active session is what lets an event about it join the log.
LEMMA HistoryStep ==
  ASSUME IInv, EventsTellTheSession, [Next]_vars
  PROVE  EventsTellTheSession'
<1>1. /\ TypeOK /\ Consistent(session)
      /\ EventsTellTheStory(Log, session)
  BY DEF IInv, SessionConsistent, EventsTellTheSession
<1>2. /\ {"SessionActivated", "SessionClosed"} \subseteq SessionEventKind
      /\ {"StreamCreated", "StreamStarted", "StreamCompleted", "StreamFailed"}
           \subseteq StreamEventKind
  BY DEF SessionEventKind, StreamEventKind
<1>3. CASE Activate
  <2>1. EventsTellTheStory(Append(Log, SessionEvent("SessionActivated")), AfterActivate(session))
    BY <1>1, <1>3, RaisedEvents, ActivateTellsTheStory DEF Activate
  <2>2. QED
    BY <1>1, <1>2, <1>3, <2>1, RaisedEvents, RaisingTells DEF Activate
<1>4. ASSUME NEW id \in StreamId, CreateStream(id)
      PROVE  EventsTellTheSession'
  <2>1. EventsTellTheStory(Append(Log, StreamEvent("StreamCreated", id)),
                           AfterCreateStream(session, id))
    BY <1>1, <1>4, RaisedEvents, CreateStreamTellsTheStory DEF CreateStream
  <2>2. AfterCreateStream(session, id).pending =
          Append(session.pending, StreamEvent("StreamCreated", id))
    BY DEF AfterCreateStream, Moved
  <2>3. QED
    BY <1>1, <1>2, <1>4, <2>1, <2>2, RaisedEvents, RaisingTells DEF CreateStream
<1>5. ASSUME NEW id \in StreamId, StartStream(id)
      PROVE  EventsTellTheSession'
  <2>1. EventsTellTheStory(Append(Log, StreamEvent("StreamStarted", id)),
                           AfterStartStream(session, id))
    BY <1>1, <1>5, RaisedEvents, StartStreamTellsTheStory DEF StartStream
  <2>2. AfterStartStream(session, id).pending =
          Append(session.pending, StreamEvent("StreamStarted", id))
    BY DEF AfterStartStream, Moved
  <2>3. QED
    BY <1>1, <1>2, <1>5, <2>1, <2>2, RaisedEvents, RaisingTells DEF StartStream
<1>6. ASSUME NEW id \in StreamId, CompleteStream(id)
      PROVE  EventsTellTheSession'
  <2>1. EventsTellTheStory(Append(Log, StreamEvent("StreamCompleted", id)),
                           AfterCompleteStream(session, id))
    BY <1>1, <1>6, RaisedEvents, CompleteStreamTellsTheStory DEF CompleteStream
  <2>2. AfterCompleteStream(session, id).pending =
          Append(session.pending, StreamEvent("StreamCompleted", id))
    BY DEF AfterCompleteStream, Moved
  <2>3. QED
    BY <1>1, <1>2, <1>6, <2>1, <2>2, RaisedEvents, RaisingTells DEF CompleteStream
<1>7. ASSUME NEW id \in StreamId, FailStream(id)
      PROVE  EventsTellTheSession'
  <2>1. EventsTellTheStory(Append(Log, StreamEvent("StreamFailed", id)),
                           AfterFailStream(session, id))
    BY <1>1, <1>7, RaisedEvents, FailStreamTellsTheStory DEF FailStream
  <2>2. AfterFailStream(session, id).pending =
          Append(session.pending, StreamEvent("StreamFailed", id))
    BY DEF AfterFailStream, Moved
  <2>3. QED
    BY <1>1, <1>2, <1>7, <2>1, <2>2, RaisedEvents, RaisingTells DEF FailStream
<1>8. CASE Close
  <2>1. EventsTellTheStory(Append(Log, SessionEvent("SessionClosed")), AfterClose(session))
    BY <1>1, <1>8, RaisedEvents, CloseTellsTheStory DEF Close
  <2>2. QED
    BY <1>1, <1>2, <1>8, <2>1, RaisedEvents, RaisingTells DEF Close
<1>9. CASE TakeEvents
  <2>1. session' = [session EXCEPT !.pending = << >>] /\ taken' = taken \o session.pending
    BY <1>9 DEF TakeEvents, AfterTakeEvents
  <2>2. /\ session'.pending = << >> /\ session'.state = session.state
        /\ session'.streams = session.streams
    BY <1>1, <2>1 DEF TypeOK, Session
  <2>3. Log' = Log
    BY <1>1, <2>1, <2>2, SessionFields DEF TypeOK, Log
  <2>4. QED
    BY <1>1, <2>2, <2>3 DEF EventsTellTheSession, EventsTellTheStory
<1>10. CASE Expire \/ UNCHANGED vars
  BY <1>1, <1>10 DEF Expire, vars, EventsTellTheSession, Log
<1>11. QED
  BY <1>3, <1>4, <1>5, <1>6, <1>7, <1>8, <1>9, <1>10 DEF Next

\* A consumer that drains the queue when it likes has, together with what is
\* still pending, the whole history of the session and of each stream, in order
\* and without repetition.
THEOREM HistoryIsComplete == Spec => []EventsTellTheSession
<1>1. Init => EventsTellTheSession
  <2>1. SUFFICES ASSUME Init PROVE EventsTellTheSession
    OBVIOUS
  <2>2. Log = << >> /\ session = NewSession
    BY <2>1 DEF Init, Log, NewSession
  <2>3. QED
    BY <2>2, NewSessionTellsTheStory DEF EventsTellTheSession
<1>2. IInv /\ [Next]_vars => IInv'
  BY IInvStep
<1>3. IInv /\ EventsTellTheSession /\ [Next]_vars => EventsTellTheSession'
  BY HistoryStep
<1>4. QED
  BY IInvInit, <1>1, <1>2, <1>3, PTL DEF Spec

-----------------------------------------------------------------------------
(* Refinement of StreamLifecycle *)

\* One stream of an active session moves.
LEMMA MovedMapsToMoves ==
  ASSUME IInv, NEW id \in StreamId, NEW to, NEW stats, NEW kind,
         Becomes(Moved(session, id, to, stats, kind)), session.state = "Active"
  PROVE  Lifecycle!Moves(id, session.streams[id], to)
<1>1. session'.streams = [session.streams EXCEPT ![id] = to] /\ session'.state = "Active"
  BY DEF Becomes, Moved
<1>2. QED
  BY <1>1 DEF Lifecycle!Moves

\* Every step of the session is a step of the lifecycle or leaves it alone.
LEMMA StepsFollowLifecycle ==
  ASSUME IInv, [Next]_vars
  PROVE  [Lifecycle!Next]_(Lifecycle!vars)
<1>1. session \in Session /\ Consistent(session)
  BY DEF IInv, TypeOK, SessionConsistent
<1>2. CASE Activate
  <2>1. session.state = "Initializing" /\ session'.state = "Active"
        /\ session'.streams = session.streams
    BY <1>1, <1>2 DEF Activate, Becomes, MayActivate, AfterActivate, Session
  <2>2. Lifecycle!Open
    BY <2>1 DEF Lifecycle!Open
  <2>3. QED
    BY <2>2 DEF Lifecycle!Next
<1>3. ASSUME NEW id \in StreamId, CreateStream(id)
      PROVE  Lifecycle!Next
  <2>1. session.state = "Active" /\ session.streams[id] = "Absent"
    BY <1>3 DEF CreateStream, MayCreateStream, IsActive
  <2>2. Lifecycle!Create(id)
    BY <1>3, <2>1, MovedMapsToMoves DEF CreateStream, AfterCreateStream, Lifecycle!Create
  <2>3. QED
    BY <2>2 DEF Lifecycle!Next
<1>4. ASSUME NEW id \in StreamId, StartStream(id)
      PROVE  Lifecycle!Next
  <2>1. session.streams[id] = "Preparing"
    BY <1>4 DEF StartStream, MayStartStream
  <2>2. session.state = "Active"
    BY <1>1, <2>1, RunningStream DEF ActiveStates
  <2>3. Lifecycle!Start(id)
    BY <1>4, <2>1, <2>2, MovedMapsToMoves DEF StartStream, AfterStartStream, Lifecycle!Start
  <2>4. QED
    BY <2>3 DEF Lifecycle!Next
<1>5. ASSUME NEW id \in StreamId, CompleteStream(id)
      PROVE  Lifecycle!Next
  <2>1. session.streams[id] = "Streaming"
    BY <1>5 DEF CompleteStream, MayCompleteStream
  <2>2. session.state = "Active"
    BY <1>1, <2>1, RunningStream DEF ActiveStates
  <2>3. Lifecycle!Finish(id)
    BY <1>5, <2>1, <2>2, MovedMapsToMoves
       DEF CompleteStream, AfterCompleteStream, Lifecycle!Finish
  <2>4. QED
    BY <2>3 DEF Lifecycle!Next
<1>6. ASSUME NEW id \in StreamId, FailStream(id)
      PROVE  Lifecycle!Next
  <2>1. session.streams[id] \in ActiveStates
    BY <1>6 DEF FailStream, MayFailStream
  <2>2. session.state = "Active"
    BY <1>1, <2>1, RunningStream
  <2>3. Lifecycle!Moves(id, session.streams[id], "Failed")
    BY <1>6, <2>2, MovedMapsToMoves DEF FailStream, AfterFailStream
  <2>4. Lifecycle!Fail(id)
    BY <2>1, <2>3 DEF Lifecycle!Fail, ActiveStates
  <2>5. QED
    BY <2>4 DEF Lifecycle!Next
<1>7. CASE Close
  <2>1. session.state = "Active" /\ session'.state = "Completed"
    BY <1>1, <1>7 DEF Close, Becomes, MayClose, AfterClose, Session
  <2>2. session'.streams = [id \in StreamId |->
          IF session.streams[id] \in ActiveStates THEN "Cancelled" ELSE session.streams[id]]
    BY <1>1, <1>7 DEF Close, Becomes, AfterClose, Session
  <2>3. Lifecycle!Close
    BY <2>1, <2>2 DEF Lifecycle!Close, Lifecycle!Running, ActiveStates
  <2>4. QED
    BY <2>3 DEF Lifecycle!Next
<1>8. CASE TakeEvents
  <2>1. session'.streams = session.streams /\ session'.state = session.state
    BY <1>1, <1>8 DEF TakeEvents, AfterTakeEvents, Session
  <2>2. QED
    BY <2>1 DEF Lifecycle!vars
<1>9. CASE Expire
  BY <1>9 DEF Expire, Lifecycle!vars
<1>10. CASE UNCHANGED vars
  BY <1>10 DEF vars, Lifecycle!vars
<1>11. QED
  BY <1>2, <1>3, <1>4, <1>5, <1>6, <1>7, <1>8, <1>9, <1>10 DEF Next

\* Whatever is called, each stream is created once, starts once, ends once
\* and then stays as it is; closing leaves none running.
THEOREM ImplementsLifecycle == Spec => FollowsLifecycle
<1>1. Init => Lifecycle!Init
  BY DEF Init, NewSession, Lifecycle!Init
<1>2. IInv /\ [Next]_vars => IInv'
  BY IInvStep
<1>3. IInv /\ [Next]_vars => [Lifecycle!Next]_(Lifecycle!vars)
  BY StepsFollowLifecycle
<1>4. QED
  BY IInvInit, <1>1, <1>2, <1>3, PTL DEF Spec, FollowsLifecycle, Lifecycle!Spec
=============================================================================
