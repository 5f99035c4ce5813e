----------------------- MODULE SessionAggregate_proofs -----------------------
(***************************************************************************)
(* Every method of the aggregate maps a consistent session to a consistent *)
(* session.  These lemmas are about session values, so that the sequential *)
(* life of a session and the concurrent handlers both rest on them.        *)
(***************************************************************************)
EXTENDS SessionAggregate, FiniteSetTheorems, TLAPS

\* The streams in K are finitely many.
LEMMA CountType ==
  ASSUME NEW s, NEW K
  PROVE  IsFiniteSet(StreamsIn(s, K)) /\ Count(s, K) \in Nat
<1>1. StreamsIn(s, K) \subseteq StreamId
  BY DEF StreamsIn
<1>2. IsFiniteSet(StreamsIn(s, K))
  BY <1>1, FS_Subset, StreamIdAssumption
<1>3. QED
  BY <1>2, FS_CardinalityType DEF Count

\* A class with a member is not counted as empty.
LEMMA CountPositive ==
  ASSUME NEW s, NEW K, NEW id \in StreamId, s.streams[id] \in K
  PROVE  Count(s, K) > 0
<1>1. id \in StreamsIn(s, K)
  BY DEF StreamsIn
<1>2. IsFiniteSet(StreamsIn(s, K)) /\ Cardinality(StreamsIn(s, K)) \in Nat
  BY CountType DEF Count
<1>3. Cardinality(StreamsIn(s, K)) # 0
  BY <1>1, <1>2, FS_EmptySet
<1>4. QED
  BY <1>2, <1>3 DEF Count

\* What class K gains when a stream in state `old` moves to state `new`.
Gain(old, new, K) == (IF new \in K THEN 1 ELSE 0) - (IF old \in K THEN 1 ELSE 0)

\* How moving one stream from one state to another changes the size of a class.
LEMMA CountAfterMove ==
  ASSUME NEW s \in Session, NEW t, NEW id \in StreamId, NEW new, NEW K,
         t.streams = [s.streams EXCEPT ![id] = new]
  PROVE  Count(t, K) = Count(s, K) + Gain(s.streams[id], new, K)
<1> DEFINE S == StreamsIn(s, K)
<1> DEFINE T == StreamsIn(t, K)
<1>1. IsFiniteSet(S) /\ Cardinality(S) \in Nat
  BY CountType DEF Count
<1>2. t.streams[id] = new /\ \A x \in StreamId \ {id} : t.streams[x] = s.streams[x]
  BY DEF Session
<1>3. (s.streams[id] \in K <=> new \in K) => T = S
  BY <1>2 DEF StreamsIn
<1>4. ASSUME s.streams[id] \notin K, new \in K
      PROVE  Cardinality(T) = Cardinality(S) + 1
  <2>1. T = S \cup {id} /\ id \notin S
    BY <1>2, <1>4 DEF StreamsIn
  <2>2. Cardinality(S \cup {id}) = Cardinality(S) + 1
    BY <2>1, <1>1, FS_AddElement
  <2>3. QED
    BY <2>1, <2>2
<1>5. ASSUME s.streams[id] \in K, new \notin K
      PROVE  Cardinality(T) = Cardinality(S) - 1
  <2>1. T = S \ {id} /\ id \in S
    BY <1>2, <1>5 DEF StreamsIn
  <2>2. Cardinality(S \ {id}) = Cardinality(S) - 1
    BY <2>1, <1>1, FS_RemoveElement
  <2>3. QED
    BY <2>1, <2>2
<1> HIDE DEF S, T
<1>6. (s.streams[id] \in K <=> new \in K) => Cardinality(T) = Cardinality(S)
  BY <1>3
<1>7. Count(s, K) = Cardinality(S) /\ Count(t, K) = Cardinality(T)
  BY DEF Count, S, T
<1>8. QED
  BY <1>1, <1>4, <1>5, <1>6, <1>7 DEF Gain

\* A session that has not been activated is consistent.
LEMMA NewSessionConsistent ==
  NewSession \in Session /\ Consistent(NewSession)
<1>1. NewSession \in Session
  BY DEF NewSession, Session, SessionState, SessionStats, StreamState
<1>2. \A K : "Absent" \notin K => StreamsIn(NewSession, K) = {}
  BY DEF StreamsIn, NewSession
<1>3. \A K : "Absent" \notin K => Count(NewSession, K) = 0
  BY <1>2, FS_EmptySet DEF Count
<1>4. QED
  BY <1>1, <1>2, <1>3, MaxConcurrentStreamsAssumption
     DEF Consistent, StatsAgree, RunsOnlyWhileActive, WithinLimit, NewSession,
         Known, ActiveStates, FinishedStates

\* Raising an event keeps the queue a queue of events.
LEMMA RaisedIsEvent ==
  ASSUME NEW s \in Session
  PROVE  /\ \A k \in SessionEventKind : Append(s.pending, SessionEvent(k)) \in Seq(Event)
         /\ \A k \in StreamEventKind, id \in StreamId :
              Append(s.pending, StreamEvent(k, id)) \in Seq(Event)
<1>1. s.pending \in Seq(Event)
  BY DEF Session
<1>2. \A k \in SessionEventKind : SessionEvent(k) \in Event
  BY DEF SessionEvent, Event
<1>3. \A k \in StreamEventKind, id \in StreamId : StreamEvent(k, id) \in Event
  BY DEF StreamEvent, Event
<1>4. \A e \in Event : Append(s.pending, e) \in Seq(Event)
  BY <1>1
<1>5. QED
  BY <1>2, <1>3, <1>4

\* The fields of a session.
LEMMA SessionFields ==
  ASSUME NEW s \in Session
  PROVE  /\ s.state \in SessionState
         /\ s.streams \in [StreamId -> StreamState]
         /\ s.stats \in SessionStats
         /\ s.stats.total \in Nat /\ s.stats.active \in Nat
         /\ s.stats.completed \in Nat /\ s.stats.failed \in Nat
         /\ s.pending \in Seq(Event)
BY DEF Session, SessionStats

\* activate
LEMMA ActivateConsistent ==
  ASSUME NEW s \in Session, Consistent(s), MayActivate(s)
  PROVE  AfterActivate(s) \in Session /\ Consistent(AfterActivate(s))
<1> DEFINE t == AfterActivate(s)
<1>1. Append(s.pending, SessionEvent("SessionActivated")) \in Seq(Event)
  BY RaisedIsEvent DEF SessionEventKind
<1>2. t \in Session
  BY <1>1 DEF AfterActivate, Session, SessionState
<1>3. /\ t.streams = s.streams /\ t.stats = s.stats
      /\ t.state = "Active" /\ s.state = "Initializing"
  BY DEF MayActivate, AfterActivate, Session
<1>4. \A K : StreamsIn(t, K) = StreamsIn(s, K)
  BY <1>3 DEF StreamsIn
<1>5. \A K : Count(t, K) = Count(s, K)
  BY <1>4 DEF Count
<1> HIDE DEF t
<1>6. QED
  BY <1>2, <1>3, <1>4, <1>5
     DEF Consistent, StatsAgree, RunsOnlyWhileActive, WithinLimit, t

\* u64::saturating_sub stays in range.
LEMMA SaturatingDecType ==
  \A n \in Nat : SaturatingDec(n) \in Nat /\ (n > 0 => SaturatingDec(n) = n - 1)
BY DEF SaturatingDec

\* Writing two counters leaves a record of counters.
LEMMA CountersWritten ==
  ASSUME NEW st \in SessionStats, NEW a \in Nat, NEW b \in Nat
  PROVE  /\ [st EXCEPT !.total = a, !.active = b] \in SessionStats
         /\ [st EXCEPT !.active = a, !.completed = b] \in SessionStats
         /\ [st EXCEPT !.active = a, !.failed = b] \in SessionStats
BY DEF SessionStats

\* The methods that move one stream: when the counters move with it, an
\* active session stays consistent.
LEMMA MovedConsistent ==
  ASSUME NEW s \in Session, Consistent(s), s.state = "Active",
         NEW id \in StreamId, NEW new \in ActiveStates \cup {"Completed", "Failed"},
         NEW stats \in SessionStats, NEW kind \in StreamEventKind,
         stats.total = s.stats.total + Gain(s.streams[id], new, Known),
         stats.active =
           s.stats.active + Gain(s.streams[id], new, ActiveStates \cup {"Cancelled"}),
         stats.completed = s.stats.completed + Gain(s.streams[id], new, {"Completed"}),
         stats.failed = s.stats.failed + Gain(s.streams[id], new, {"Failed"}),
         s.streams[id] = "Absent" => HasRoom(s)
  PROVE  /\ Moved(s, id, new, stats, kind) \in Session
         /\ Consistent(Moved(s, id, new, stats, kind))
<1> DEFINE t == Moved(s, id, new, stats, kind)
<1>1. /\ t.state = s.state /\ t.stats = stats
      /\ t.streams = [s.streams EXCEPT ![id] = new]
  BY DEF Moved
<1>2. new \in StreamState /\ new # "Absent" /\ new # "Cancelled" /\ new \in Known
  BY DEF StreamState, Known, ActiveStates, FinishedStates
<1>3. t \in Session
  <2>1. Append(s.pending, StreamEvent(kind, id)) \in Seq(Event)
    BY RaisedIsEvent
  <2>2. [s.streams EXCEPT ![id] = new] \in [StreamId -> StreamState]
    BY <1>2, SessionFields
  <2>3. QED
    BY <2>1, <2>2, SessionFields DEF Moved, Session
<1> HIDE DEF t
<1>4. \A K : Count(t, K) = Count(s, K) + Gain(s.streams[id], new, K)
  BY <1>1, CountAfterMove
<1>5. \A K : Count(s, K) \in Nat /\ Count(t, K) \in Nat
  BY CountType
<1>6. StreamsIn(t, {"Cancelled"}) = {}
  <2>1. StreamsIn(s, {"Cancelled"}) = {}
    BY DEF Consistent, StatsAgree
  <2>2. QED
    BY <1>1, <1>2, <2>1, SessionFields DEF StreamsIn
<1>7. StatsAgree(t)
  BY <1>1, <1>4, <1>6 DEF Consistent, StatsAgree
<1>8. RunsOnlyWhileActive(t)
  BY <1>1 DEF RunsOnlyWhileActive
<1>9. WithinLimit(t)
  <2>1. Count(t, Known) = Count(s, Known) + Gain(s.streams[id], new, Known)
    BY <1>4
  <2>2. CASE s.streams[id] = "Absent"
    BY <2>1, <2>2, <1>2, <1>5, MaxConcurrentStreamsAssumption DEF WithinLimit, HasRoom, Gain
  <2>3. CASE s.streams[id] # "Absent"
    <3>1. s.streams[id] \in Known
      BY <2>3, SessionFields DEF Known, StreamState
    <3>2. QED
      BY <2>1, <3>1, <1>2, <1>5 DEF Consistent, WithinLimit, Gain
  <2>4. QED
    BY <2>2, <2>3
<1>10. QED
  BY <1>3, <1>7, <1>8, <1>9 DEF Consistent, t

\* A stream that runs does so in an active session, and is counted there.
LEMMA RunningStream ==
  ASSUME NEW s \in Session, Consistent(s), NEW id \in StreamId, s.streams[id] \in ActiveStates
  PROVE  s.state = "Active" /\ s.stats.active > 0
<1>1. s.state = "Active"
  BY DEF Consistent, RunsOnlyWhileActive, StreamsIn
<1>2. Count(s, ActiveStates \cup {"Cancelled"}) > 0
  BY CountPositive
<1>3. QED
  BY <1>1, <1>2 DEF Consistent, StatsAgree

\* create_stream
LEMMA CreateStreamConsistent ==
  ASSUME NEW s \in Session, NEW expired, NEW id \in StreamId, Consistent(s), MayCreateStream(s, expired, id)
  PROVE  AfterCreateStream(s, id) \in Session /\ Consistent(AfterCreateStream(s, id))
<1> DEFINE stats == [s.stats EXCEPT !.total = @ + 1, !.active = @ + 1]
<1>1. s.streams[id] \in {"Absent"} /\ s.state = "Active" /\ HasRoom(s)
  BY DEF MayCreateStream, IsActive
<1>2. stats \in SessionStats
  <2>1. \A n \in Nat : n + 1 \in Nat /\ SaturatingDec(n) \in Nat
    BY SaturatingDecType
  <2>2. QED
    BY <2>1, SessionFields, CountersWritten
<1>3. /\ stats.total = s.stats.total + 1
      /\ stats.active = s.stats.active + 1
      /\ stats.completed = s.stats.completed
      /\ stats.failed = s.stats.failed
  BY <1>1, SessionFields, SaturatingDecType DEF SessionStats
<1> HIDE DEF stats
<1>4. /\ stats.total = s.stats.total + Gain(s.streams[id], "Preparing", Known)
      /\ stats.active =
           s.stats.active + Gain(s.streams[id], "Preparing", ActiveStates \cup {"Cancelled"})
      /\ stats.completed = s.stats.completed + Gain(s.streams[id], "Preparing", {"Completed"})
      /\ stats.failed = s.stats.failed + Gain(s.streams[id], "Preparing", {"Failed"})
  BY <1>1, <1>3, SessionFields DEF Gain, Known, ActiveStates, FinishedStates
<1>5. /\ s.streams[id] # "Cancelled"
      /\ "Preparing" \in ActiveStates \cup {"Completed", "Failed"}
      /\ "StreamCreated" \in StreamEventKind
      /\ s.streams[id] = "Absent" => HasRoom(s)
  BY <1>1 DEF ActiveStates, StreamEventKind
<1>6. /\ Moved(s, id, "Preparing", stats, "StreamCreated") \in Session
      /\ Consistent(Moved(s, id, "Preparing", stats, "StreamCreated"))
  BY <1>1, <1>2, <1>4, <1>5, MovedConsistent
<1>7. QED
  BY <1>6 DEF AfterCreateStream, stats

\* start_stream
LEMMA StartStreamConsistent ==
  ASSUME NEW s \in Session, NEW id \in StreamId, Consistent(s), MayStartStream(s, id)
  PROVE  AfterStartStream(s, id) \in Session /\ Consistent(AfterStartStream(s, id))
<1> DEFINE stats == s.stats
<1>1. s.streams[id] \in {"Preparing"} /\ s.state = "Active"
  BY RunningStream DEF MayStartStream, ActiveStates
<1>2. stats \in SessionStats
  <2>1. \A n \in Nat : n + 1 \in Nat /\ SaturatingDec(n) \in Nat
    BY SaturatingDecType
  <2>2. QED
    BY <2>1, SessionFields, CountersWritten
<1>3. /\ stats.total = s.stats.total
      /\ stats.active = s.stats.active
      /\ stats.completed = s.stats.completed
      /\ stats.failed = s.stats.failed
  BY <1>1, RunningStream, SessionFields, SaturatingDecType DEF SessionStats, ActiveStates
<1> HIDE DEF stats
<1>4. /\ stats.total = s.stats.total + Gain(s.streams[id], "Streaming", Known)
      /\ stats.active =
           s.stats.active + Gain(s.streams[id], "Streaming", ActiveStates \cup {"Cancelled"})
      /\ stats.completed = s.stats.completed + Gain(s.streams[id], "Streaming", {"Completed"})
      /\ stats.failed = s.stats.failed + Gain(s.streams[id], "Streaming", {"Failed"})
  BY <1>1, <1>3, SessionFields DEF Gain, Known, ActiveStates, FinishedStates
<1>5. /\ s.streams[id] # "Cancelled"
      /\ "Streaming" \in ActiveStates \cup {"Completed", "Failed"}
      /\ "StreamStarted" \in StreamEventKind
      /\ s.streams[id] = "Absent" => HasRoom(s)
  BY <1>1 DEF ActiveStates, StreamEventKind
<1>6. /\ Moved(s, id, "Streaming", stats, "StreamStarted") \in Session
      /\ Consistent(Moved(s, id, "Streaming", stats, "StreamStarted"))
  BY <1>1, <1>2, <1>4, <1>5, MovedConsistent
<1>7. QED
  BY <1>6 DEF AfterStartStream, stats

\* complete_stream
LEMMA CompleteStreamConsistent ==
  ASSUME NEW s \in Session, NEW id \in StreamId, Consistent(s), MayCompleteStream(s, id)
  PROVE  AfterCompleteStream(s, id) \in Session /\ Consistent(AfterCompleteStream(s, id))
<1> DEFINE stats == [s.stats EXCEPT !.active = SaturatingDec(@), !.completed = @ + 1]
<1>1. s.streams[id] \in {"Streaming"} /\ s.state = "Active"
  BY RunningStream DEF MayCompleteStream, ActiveStates
<1>2. stats \in SessionStats
  <2>1. \A n \in Nat : n + 1 \in Nat /\ SaturatingDec(n) \in Nat
    BY SaturatingDecType
  <2>2. QED
    BY <2>1, SessionFields, CountersWritten
<1>3. /\ stats.total = s.stats.total
      /\ stats.active = s.stats.active - 1
      /\ stats.completed = s.stats.completed + 1
      /\ stats.failed = s.stats.failed
  BY <1>1, RunningStream, SessionFields, SaturatingDecType DEF SessionStats, ActiveStates
<1> HIDE DEF stats
<1>4. /\ stats.total = s.stats.total + Gain(s.streams[id], "Completed", Known)
      /\ stats.active =
           s.stats.active + Gain(s.streams[id], "Completed", ActiveStates \cup {"Cancelled"})
      /\ stats.completed = s.stats.completed + Gain(s.streams[id], "Completed", {"Completed"})
      /\ stats.failed = s.stats.failed + Gain(s.streams[id], "Completed", {"Failed"})
  BY <1>1, <1>3, SessionFields DEF Gain, Known, ActiveStates, FinishedStates
<1>5. /\ s.streams[id] # "Cancelled"
      /\ "Completed" \in ActiveStates \cup {"Completed", "Failed"}
      /\ "StreamCompleted" \in StreamEventKind
      /\ s.streams[id] = "Absent" => HasRoom(s)
  BY <1>1 DEF ActiveStates, StreamEventKind
<1>6. /\ Moved(s, id, "Completed", stats, "StreamCompleted") \in Session
      /\ Consistent(Moved(s, id, "Completed", stats, "StreamCompleted"))
  BY <1>1, <1>2, <1>4, <1>5, MovedConsistent
<1>7. QED
  BY <1>6 DEF AfterCompleteStream, stats

\* fail_stream
LEMMA FailStreamConsistent ==
  ASSUME NEW s \in Session, NEW id \in StreamId, Consistent(s), MayFailStream(s, id)
  PROVE  AfterFailStream(s, id) \in Session /\ Consistent(AfterFailStream(s, id))
<1> DEFINE stats == [s.stats EXCEPT !.active = SaturatingDec(@), !.failed = @ + 1]
<1>1. s.streams[id] \in ActiveStates /\ s.state = "Active"
  BY RunningStream DEF MayFailStream
<1>2. stats \in SessionStats
  <2>1. \A n \in Nat : n + 1 \in Nat /\ SaturatingDec(n) \in Nat
    BY SaturatingDecType
  <2>2. QED
    BY <2>1, SessionFields, CountersWritten
<1>3. /\ stats.total = s.stats.total
      /\ stats.active = s.stats.active - 1
      /\ stats.completed = s.stats.completed
      /\ stats.failed = s.stats.failed + 1
  BY <1>1, RunningStream, SessionFields, SaturatingDecType DEF SessionStats
<1> HIDE DEF stats
<1>4. /\ stats.total = s.stats.total + Gain(s.streams[id], "Failed", Known)
      /\ stats.active =
           s.stats.active + Gain(s.streams[id], "Failed", ActiveStates \cup {"Cancelled"})
      /\ stats.completed = s.stats.completed + Gain(s.streams[id], "Failed", {"Completed"})
      /\ stats.failed = s.stats.failed + Gain(s.streams[id], "Failed", {"Failed"})
  BY <1>1, <1>3, SessionFields DEF Gain, Known, ActiveStates, FinishedStates
<1>5. /\ s.streams[id] # "Cancelled"
      /\ "Failed" \in ActiveStates \cup {"Completed", "Failed"}
      /\ "StreamFailed" \in StreamEventKind
      /\ s.streams[id] = "Absent" => HasRoom(s)
  BY <1>1 DEF ActiveStates, StreamEventKind
<1>6. /\ Moved(s, id, "Failed", stats, "StreamFailed") \in Session
      /\ Consistent(Moved(s, id, "Failed", stats, "StreamFailed"))
  BY <1>1, <1>2, <1>4, <1>5, MovedConsistent
<1>7. QED
  BY <1>6 DEF AfterFailStream, stats

\* close: the streams it cancels were counted as active and stay so, which is
\* what the active counter of a completed session says.
LEMMA CloseConsistent ==
  ASSUME NEW s \in Session, Consistent(s), MayClose(s)
  PROVE  AfterClose(s) \in Session /\ Consistent(AfterClose(s))
<1> DEFINE t == AfterClose(s)
<1>1. Append(s.pending, SessionEvent("SessionClosed")) \in Seq(Event)
  BY RaisedIsEvent DEF SessionEventKind
<1>2. /\ t.state = "Completed" /\ s.state = "Active" /\ t.stats = s.stats
      /\ \A id \in StreamId :
           t.streams[id] = IF s.streams[id] \in ActiveStates THEN "Cancelled" ELSE s.streams[id]
  BY SessionFields DEF MayClose, AfterClose, Session
<1>3. t \in Session
  BY <1>1, SessionFields DEF AfterClose, Session, SessionState, StreamState, FinishedStates
<1> HIDE DEF t
<1>4. /\ StreamsIn(t, Known) = StreamsIn(s, Known)
      /\ StreamsIn(t, ActiveStates \cup {"Cancelled"}) = StreamsIn(s, ActiveStates \cup {"Cancelled"})
      /\ StreamsIn(t, {"Completed"}) = StreamsIn(s, {"Completed"})
      /\ StreamsIn(t, {"Failed"}) = StreamsIn(s, {"Failed"})
      /\ StreamsIn(t, ActiveStates) = {}
  BY <1>2 DEF StreamsIn, Known, ActiveStates, FinishedStates
<1>5. QED
  BY <1>2, <1>3, <1>4 DEF Consistent, StatsAgree, RunsOnlyWhileActive, WithinLimit, Count, t

\* take_events
LEMMA TakeEventsConsistent ==
  ASSUME NEW s \in Session, Consistent(s)
  PROVE  AfterTakeEvents(s) \in Session /\ Consistent(AfterTakeEvents(s))
<1> DEFINE t == AfterTakeEvents(s)
<1>1. t \in Session
  <2>1. << >> \in Seq(Event)
    OBVIOUS
  <2>2. QED
    BY <2>1 DEF AfterTakeEvents, Session
<1>2. t.streams = s.streams /\ t.stats = s.stats /\ t.state = s.state
  BY DEF AfterTakeEvents, Session
<1>3. \A K : StreamsIn(t, K) = StreamsIn(s, K)
  BY <1>2 DEF StreamsIn
<1> HIDE DEF t
<1>4. QED
  BY <1>1, <1>2, <1>3
     DEF Consistent, StatsAgree, RunsOnlyWhileActive, WithinLimit, Count, t

-----------------------------------------------------------------------------
(* The events of a session tell its story *)

\* What appending does to a log.
LEMMA Appended ==
  ASSUME NEW log \in Seq(Event), NEW e \in Event
  PROVE  /\ Append(log, e) \in Seq(Event) /\ Append(log, e) # << >>
         /\ DOMAIN Append(log, e) = DOMAIN log \cup {Len(log) + 1}
         /\ DOMAIN log = 1 .. Len(log) /\ Len(log) \in Nat
         /\ Len(Append(log, e)) = Len(log) + 1
         /\ \A i \in DOMAIN log : Append(log, e)[i] = log[i] /\ log[i] \in Event
         /\ Append(log, e)[Len(log) + 1] = e
OBVIOUS

\* An event adds its kind to what is told of its stream, and to no other.
LEMMA ToldAfterAppend ==
  ASSUME NEW log \in Seq(Event), NEW e \in Event, NEW id
  PROVE  Told(Append(log, e), id) =
           IF e.stream = id THEN Told(log, id) \cup {e.kind} ELSE Told(log, id)
BY Appended DEF Told

\* An event keeps the order if it is later in its stream's life than all that
\* has been told of it.
LEMMA InOrderAfterAppend ==
  ASSUME NEW log \in Seq(Event), NEW e \in Event, InOrder(log),
         e.stream \in StreamId => \A kind \in Told(log, e.stream) : Stage(kind) < Stage(e.kind)
  PROVE  InOrder(Append(log, e))
<1>1. SUFFICES ASSUME NEW i \in DOMAIN Append(log, e), NEW j \in DOMAIN Append(log, e), i < j,
                      Append(log, e)[i].stream = Append(log, e)[j].stream,
                      Append(log, e)[i].stream \in StreamId
               PROVE  Stage(Append(log, e)[i].kind) < Stage(Append(log, e)[j].kind)
  BY DEF InOrder
<1>2. i \in DOMAIN log /\ Append(log, e)[i] = log[i]
  BY <1>1, Appended
<1>3. CASE j \in DOMAIN log
  BY <1>1, <1>2, <1>3, Appended DEF InOrder
<1>4. CASE j = Len(log) + 1
  <2>1. Append(log, e)[j] = e
    BY <1>4, Appended
  <2>2. log[i].kind \in Told(log, e.stream)
    BY <1>1, <1>2, <2>1 DEF Told
  <2>3. QED
    BY <1>1, <1>2, <2>1, <2>2
<1>5. QED
  BY <1>3, <1>4, Appended

\* An open session is neither new nor closed: its log has begun, and nothing
\* in it says that it is over.
LEMMA StoryOfActive ==
  ASSUME NEW s, NEW log \in Seq(Event), EventsTellTheStory(log, s), s.state = "Active"
  PROVE  log # << >> /\ \A i \in DOMAIN log : log[i].kind # "SessionClosed"
BY DEF EventsTellTheStory

\* The methods that move one stream tell of it: the kind of the event is later
\* than all before, and with it the story fits the stream's new state.
LEMMA MovedTellsTheStory ==
  ASSUME NEW s \in Session, NEW log \in Seq(Event), EventsTellTheStory(log, s),
         s.state = "Active", NEW id \in StreamId, NEW new, NEW stats,
         NEW kind \in StreamEventKind,
         \A k \in Told(log, id) : Stage(k) < Stage(kind),
         Told(log, id) \cup {kind} \in Stories(new)
  PROVE  EventsTellTheStory(Append(log, StreamEvent(kind, id)),
                            Moved(s, id, new, stats, kind))
<1> DEFINE e == StreamEvent(kind, id)
           t == Moved(s, id, new, stats, kind)
<1>1. e \in Event /\ e.stream = id /\ e.kind = kind
  BY DEF StreamEvent, Event
<1>2. t.state = "Active" /\ t.streams = [s.streams EXCEPT ![id] = new]
  BY DEF Moved
<1>3. kind \notin {"SessionActivated", "SessionClosed"}
  BY DEF StreamEventKind
<1> HIDE DEF e, t
<1>4. ASSUME NEW x \in StreamId
      PROVE  Told(Append(log, e), x) \in Stories(t.streams[x])
  <2>1. CASE x = id
    BY <1>1, <1>2, <2>1, ToldAfterAppend, SessionFields
  <2>2. CASE x # id
    <3>1. Told(log, x) \in Stories(s.streams[x])
      BY DEF EventsTellTheStory
    <3>2. t.streams[x] = s.streams[x]
      BY <1>2, <2>2, SessionFields
    <3>3. QED
      BY <1>1, <2>2, <3>1, <3>2, ToldAfterAppend
  <2>3. QED
    BY <2>1, <2>2
<1>5. InOrder(Append(log, e))
  BY <1>1, InOrderAfterAppend DEF EventsTellTheStory
<1>6. \A i \in DOMAIN Append(log, e) :
        /\ Append(log, e)[i].kind = "SessionActivated" <=> i = 1
        /\ Append(log, e)[i].kind # "SessionClosed"
  <2>1. log # << >> /\ \A i \in DOMAIN log : log[i].kind # "SessionClosed"
    BY StoryOfActive
  <2>2. \A i \in DOMAIN log : log[i].kind = "SessionActivated" <=> i = 1
    BY DEF EventsTellTheStory
  <2>3. Len(log) + 1 # 1
    BY <2>1
  <2>4. QED
    BY <1>1, <1>3, <2>1, <2>2, <2>3, Appended
<1>7. Append(log, e) # << >>
  BY <1>1, Appended
<1>8. EventsTellTheStory(Append(log, e), t)
  BY <1>2, <1>4, <1>5, <1>6, <1>7 DEF EventsTellTheStory
<1>9. QED
  BY <1>8 DEF e, t

\* What has been told of a stream when it may be moved.
LEMMA ToldBefore ==
  ASSUME NEW s, NEW log, EventsTellTheStory(log, s), NEW id \in StreamId
  PROVE  /\ s.streams[id] = "Absent" => Told(log, id) = {}
         /\ s.streams[id] = "Preparing" => Told(log, id) = {"StreamCreated"}
         /\ s.streams[id] = "Streaming" => Told(log, id) = {"StreamCreated", "StreamStarted"}
BY DEF EventsTellTheStory, Stories

\* create_stream
LEMMA CreateStreamTellsTheStory ==
  ASSUME NEW s \in Session, NEW log \in Seq(Event), EventsTellTheStory(log, s),
         NEW expired, NEW id \in StreamId, MayCreateStream(s, expired, id)
  PROVE  EventsTellTheStory(Append(log, StreamEvent("StreamCreated", id)),
                            AfterCreateStream(s, id))
<1>1. s.state = "Active" /\ Told(log, id) = {}
  BY ToldBefore DEF MayCreateStream, IsActive
<1>2. /\ "StreamCreated" \in StreamEventKind
      /\ \A k \in Told(log, id) : Stage(k) < Stage("StreamCreated")
      /\ Told(log, id) \cup {"StreamCreated"} \in Stories("Preparing")
  BY <1>1 DEF StreamEventKind, Stories
<1>3. QED
  BY <1>1, <1>2, MovedTellsTheStory DEF AfterCreateStream

\* start_stream
LEMMA StartStreamTellsTheStory ==
  ASSUME NEW s \in Session, Consistent(s), NEW log \in Seq(Event), EventsTellTheStory(log, s),
         NEW id \in StreamId, MayStartStream(s, id)
  PROVE  EventsTellTheStory(Append(log, StreamEvent("StreamStarted", id)),
                            AfterStartStream(s, id))
<1>1. s.state = "Active" /\ Told(log, id) = {"StreamCreated"}
  BY ToldBefore, RunningStream DEF MayStartStream, ActiveStates
<1>2. /\ "StreamStarted" \in StreamEventKind
      /\ \A k \in Told(log, id) : Stage(k) < Stage("StreamStarted")
      /\ Told(log, id) \cup {"StreamStarted"} \in Stories("Streaming")
  BY <1>1 DEF StreamEventKind, Stage, Stories
<1>3. QED
  BY <1>1, <1>2, MovedTellsTheStory DEF AfterStartStream

\* complete_stream
LEMMA CompleteStreamTellsTheStory ==
  ASSUME NEW s \in Session, Consistent(s), NEW log \in Seq(Event), EventsTellTheStory(log, s),
         NEW id \in StreamId, MayCompleteStream(s, id)
  PROVE  EventsTellTheStory(Append(log, StreamEvent("StreamCompleted", id)),
                            AfterCompleteStream(s, id))
<1>1. s.state = "Active" /\ Told(log, id) = {"StreamCreated", "StreamStarted"}
  BY ToldBefore, RunningStream DEF MayCompleteStream, ActiveStates
<1>2. /\ "StreamCompleted" \in StreamEventKind
      /\ \A k \in Told(log, id) : Stage(k) < Stage("StreamCompleted")
      /\ Told(log, id) \cup {"StreamCompleted"} \in Stories("Completed")
  BY <1>1 DEF StreamEventKind, Stage, Stories
<1>3. QED
  BY <1>1, <1>2, MovedTellsTheStory DEF AfterCompleteStream

\* fail_stream
LEMMA FailStreamTellsTheStory ==
  ASSUME NEW s \in Session, Consistent(s), NEW log \in Seq(Event), EventsTellTheStory(log, s),
         NEW id \in StreamId, MayFailStream(s, id)
  PROVE  EventsTellTheStory(Append(log, StreamEvent("StreamFailed", id)),
                            AfterFailStream(s, id))
<1>1. /\ s.state = "Active"
      /\ Told(log, id) \in {{"StreamCreated"}, {"StreamCreated", "StreamStarted"}}
  BY ToldBefore, RunningStream DEF MayFailStream, ActiveStates
<1>2. /\ "StreamFailed" \in StreamEventKind
      /\ \A k \in Told(log, id) : Stage(k) < Stage("StreamFailed")
      /\ Told(log, id) \cup {"StreamFailed"} \in Stories("Failed")
  BY <1>1 DEF StreamEventKind, Stage, Stories
<1>3. QED
  BY <1>1, <1>2, MovedTellsTheStory DEF AfterFailStream

\* An event about the session itself tells nothing of its streams.
LEMMA SessionEventTellsNoStream ==
  ASSUME NEW log \in Seq(Event), NEW kind \in SessionEventKind
  PROVE  /\ SessionEvent(kind) \in Event /\ SessionEvent(kind).kind = kind
         /\ \A id \in StreamId : Told(Append(log, SessionEvent(kind)), id) = Told(log, id)
         /\ InOrder(log) => InOrder(Append(log, SessionEvent(kind)))
<1>1. /\ SessionEvent(kind) \in Event /\ SessionEvent(kind).kind = kind
      /\ SessionEvent(kind).stream \notin StreamId
  BY StreamIdAssumption DEF SessionEvent, Event
<1>2. QED
  BY <1>1, ToldAfterAppend, InOrderAfterAppend

\* The log of a new session is empty.
LEMMA NewSessionTellsTheStory == EventsTellTheStory(<< >>, NewSession)
<1>1. \A id \in StreamId : Told(<< >>, id) \in Stories(NewSession.streams[id])
  BY DEF Told, Stories, NewSession
<1>2. QED
  BY <1>1 DEF EventsTellTheStory, InOrder, NewSession

\* activate
LEMMA ActivateTellsTheStory ==
  ASSUME NEW s \in Session, NEW log \in Seq(Event), EventsTellTheStory(log, s), MayActivate(s)
  PROVE  EventsTellTheStory(Append(log, SessionEvent("SessionActivated")), AfterActivate(s))
<1> DEFINE e == SessionEvent("SessionActivated")
           t == AfterActivate(s)
<1>1. log = << >> /\ t.state = "Active" /\ t.streams = s.streams
  BY DEF EventsTellTheStory, MayActivate, AfterActivate, Session
<1>2. "SessionActivated" \in SessionEventKind
  BY DEF SessionEventKind
<1>3. /\ e \in Event /\ e.kind = "SessionActivated"
      /\ \A id \in StreamId : Told(Append(log, e), id) = Told(log, id)
      /\ InOrder(Append(log, e))
  BY <1>2, SessionEventTellsNoStream DEF EventsTellTheStory
<1> HIDE DEF e, t
<1>4. DOMAIN Append(log, e) = {1} /\ Append(log, e)[1] = e
  BY <1>1, <1>3
<1>5. EventsTellTheStory(Append(log, e), t)
  BY <1>1, <1>3, <1>4 DEF EventsTellTheStory
<1>6. QED
  BY <1>5 DEF e, t

\* close: a stream it cancels has no end in the log.
LEMMA CloseTellsTheStory ==
  ASSUME NEW s \in Session, NEW log \in Seq(Event), EventsTellTheStory(log, s), MayClose(s)
  PROVE  EventsTellTheStory(Append(log, SessionEvent("SessionClosed")), AfterClose(s))
<1> DEFINE e == SessionEvent("SessionClosed")
           t == AfterClose(s)
<1>1. /\ t.state = "Completed" /\ s.state = "Active"
      /\ \A id \in StreamId :
           t.streams[id] = IF s.streams[id] \in ActiveStates THEN "Cancelled" ELSE s.streams[id]
  BY SessionFields DEF MayClose, AfterClose, Session
<1>2. "SessionClosed" \in SessionEventKind
  BY DEF SessionEventKind
<1>3. /\ e \in Event /\ e.kind = "SessionClosed"
      /\ \A id \in StreamId : Told(Append(log, e), id) = Told(log, id)
      /\ InOrder(Append(log, e))
  BY <1>2, SessionEventTellsNoStream DEF EventsTellTheStory
<1>4. log # << >> /\ \A i \in DOMAIN log : log[i].kind # "SessionClosed"
  BY <1>1, StoryOfActive
<1> HIDE DEF e, t
<1>5. \A id \in StreamId : Told(Append(log, e), id) \in Stories(t.streams[id])
  BY <1>1, <1>3 DEF EventsTellTheStory, Stories, ActiveStates
<1>6. \A i \in DOMAIN Append(log, e) :
        /\ Append(log, e)[i].kind = "SessionActivated" <=> i = 1
        /\ Append(log, e)[i].kind = "SessionClosed" <=> i = Len(Append(log, e))
  <2>1. \A i \in DOMAIN log : log[i].kind = "SessionActivated" <=> i = 1
    BY DEF EventsTellTheStory
  <2>2. Len(log) + 1 # 1
    BY <1>4
  <2>3. QED
    BY <1>3, <1>4, <2>1, <2>2, Appended
<1>7. \E i \in DOMAIN Append(log, e) : Append(log, e)[i].kind = "SessionClosed"
  BY <1>3, Appended
<1>8. EventsTellTheStory(Append(log, e), t)
  BY <1>1, <1>3, <1>5, <1>6, <1>7, Appended DEF EventsTellTheStory
<1>9. QED
  BY <1>8 DEF e, t
=============================================================================
