-------------------------- MODULE MetricsCollector --------------------------
(***************************************************************************)
(* infrastructure/adapters/metrics_collector.rs: the in-memory collector,  *)
(* with gauges and totals in one map, an entry per session and per stream  *)
(* in two more and a bounded series of snapshots, each under its own lock; *)
(* the Prometheus collector, with a vector per metric name; and the        *)
(* composite, which calls its collectors one after another and ignores     *)
(* their errors, but not a panic.                                          *)
(*                                                                         *)
(* Reporters use it as its names say: a session or stream is recorded as   *)
(* created once and as ended once, later.  Byte totals and the set_gauge   *)
(* that overwrites a gauge of the in-memory collector are left out.        *)
(***************************************************************************)
EXTENDS Naturals, Sequences, FiniteSetsExt, SequencesExt

CONSTANTS
  Reporter,
  SessionId,
  StreamId,
  Settings,     \* the composite's collectors in their order, and the
                \* metadata of each session, as a set of label values
  Durations,    \* of a frame, in milliseconds
  SeriesLimit,  \* max_time_series_entries
  DrainSize,    \* how many entries are dropped when the series is over it
  MaxFrames     \* bound: frames counted

VARIABLES
  setting,   \* the one of Settings in use
  metrics,     \* PerformanceMetrics
  sessions,    \* session_metrics: session -> streams_created
  streams,     \* stream_metrics: stream -> [session, open]
  series,    \* the length of time_series
  vectors,   \* of Prometheus: name -> number of labels, label values -> value
  task,      \* the call each reporter is in and what it has still to do
  begun, ended,  \* what was reported as created and as ended: the callers' own bookkeeping
  timings      \* the durations reported

vars == << setting, metrics, sessions, streams, series, vectors, task, begun, ended, timings >>

-----------------------------------------------------------------------------
\* Every collector's steps in a call, one for each lock it takes
Memory ==
  [session_created  |-> << "count session", "add session", "push" >>,
   session_ended    |-> << "uncount session", "remove session", "push" >>,
   stream_created   |-> << "count stream", "credit session", "add stream" >>,
   stream_completed |-> << "uncount stream", "complete stream" >>,
   timing           |-> << "average" >>,
   frames           |-> << "count frames" >>]

Prometheus ==
  [session_created  |-> << "pjs_sessions_created_total", "pjs_active_sessions" >>,
   session_ended    |-> << "pjs_active_sessions" >>,
   stream_created   |-> << "pjs_streams_created_total", "pjs_active_streams" >>,
   stream_completed |-> << "pjs_active_streams" >>,
   timing           |-> << "frame_processing" >>,
   frames           |-> << "frames_processed" >>]

Counters == {"pjs_sessions_created_total", "pjs_streams_created_total", "frames_processed"}
Gauges   == {"pjs_active_sessions", "pjs_active_streams"}

\* The composite goes through its collectors.
Steps(name) ==
  FlattenSeq([i \in DOMAIN setting.collectors |->
                IF setting.collectors[i] = "memory" THEN Memory[name] ELSE Prometheus[name]])

\* A hash map with a value put in for a key
Insert(map, key, value) == [k \in DOMAIN map \cup {key} |-> IF k = key THEN value ELSE map[k]]

Idle          == [todo |-> << >>]
Doing(r, s)   == task[r].todo # << >> /\ Head(task[r].todo) = s
Then(r, call) == task' = [task EXCEPT ![r] = IF Len(call.todo) = 1 THEN Idle
                                             ELSE [call EXCEPT !.todo = Tail(@)]]
Done(r)       == Then(r, task[r])
Arg(r)        == task[r].id
AtWork        == {r \in Reporter : task[r] # Idle}
Free(id)      == \A r \in AtWork : Arg(r) # id

Begin(r, name, id, labels, of) ==
  /\ task[r] = Idle
  /\ task' = [task EXCEPT ![r] = [todo |-> Steps(name), call |-> name, id |-> id,
                                  labels |-> labels, of |-> of]]
  /\ UNCHANGED << setting, metrics, sessions, streams, series, vectors >>

Init ==
  /\ setting \in Settings
  /\ metrics = [active_sessions |-> 0, total_sessions_created |-> 0, active_streams |-> 0,
                total_streams_created |-> 0, frames_processed |-> 0, average |-> 0]
  /\ sessions = << >> /\ streams = << >> /\ series = 0 /\ vectors = << >>
  /\ task = [r \in Reporter |-> Idle]
  /\ begun = {} /\ ended = {} /\ timings = {}

-----------------------------------------------------------------------------
(* Calls.  A hash map gives its keys, and so its label values, in an order of its own. *)

RecordSessionCreated(r, id) ==
  /\ timings = {}                                   \* bound: timings on their own
  /\ id \notin begun
  /\ begun' = begun \cup {id}
  /\ \E labels \in SetToSeqs(setting.metadata[id] \cup {id}) : Begin(r, "session_created", id, labels, id)
  /\ UNCHANGED << ended, timings >>

RecordStreamCreated(r, id, session) ==
  /\ id \notin begun /\ session \in begun
  /\ begun' = begun \cup {id}
  /\ \E labels \in SetToSeqs({id, session}) : Begin(r, "stream_created", id, labels, session)
  /\ UNCHANGED << ended, timings >>

RecordEnd(r, id) ==
  /\ id \in begun \ ended /\ Free(id)
  /\ ended' = ended \cup {id}
  /\ Begin(r, IF id \in SessionId THEN "session_ended" ELSE "stream_completed", id, << id >>, id)
  /\ UNCHANGED << begun, timings >>

RecordTiming(r, duration) ==
  /\ begun = {} /\ duration \notin timings            \* bound
  /\ timings' = timings \cup {duration}
  /\ Begin(r, "timing", duration, << >>, duration)
  /\ UNCHANGED << begun, ended >>

CountFrames(r) ==
  /\ begun = {} /\ metrics.frames_processed < MaxFrames
  /\ Begin(r, "frames", 1, << >>, 1)
  /\ UNCHANGED << begun, ended, timings >>

-----------------------------------------------------------------------------
(* Steps of the in-memory collector *)

Others == << setting, vectors, begun, ended, timings >>

Change(r, step, change(_)) ==
  /\ Doing(r, step)
  /\ metrics' = change(metrics)
  /\ Done(r)
  /\ UNCHANGED << Others, sessions, streams, series >>

Dec(n) == IF n > 0 THEN n - 1 ELSE n

CountSession(r) ==
  Change(r, "count session",
         LAMBDA m : [m EXCEPT !.total_sessions_created = @ + 1, !.active_sessions = @ + 1])

UncountSession(r) ==
  Change(r, "uncount session", LAMBDA m : [m EXCEPT !.active_sessions = Dec(@)])

CountStream(r) ==
  Change(r, "count stream",
         LAMBDA m : [m EXCEPT !.total_streams_created = @ + 1, !.active_streams = @ + 1])

\* Mutant: a completed stream is not taken off the gauge.
UncountStreamNot(r) == Change(r, "uncount stream", LAMBDA m : m)

UncountStream(r) ==
  Change(r, "uncount stream", LAMBDA m : [m EXCEPT !.active_streams = Dec(@)])

\* Mutant: the duration itself is not counted.
AverageOverOthers(r) ==
  Change(r, "average",
         LAMBDA m : [m EXCEPT !.average =
                       IF m.frames_processed = 0 THEN Arg(r)
                       ELSE (@ * m.frames_processed + Arg(r)) \div m.frames_processed])

\* The weight of the average so far is the count of frames, which is kept by other calls.
Average(r) ==
  Change(r, "average",
         LAMBDA m : [m EXCEPT !.average =
                       IF m.frames_processed = 0 THEN Arg(r)
                       ELSE (@ * m.frames_processed + Arg(r)) \div (m.frames_processed + 1)])

AddFrames(r) ==
  Change(r, "count frames", LAMBDA m : [m EXCEPT !.frames_processed = @ + Arg(r)])

AddSession(r) ==
  /\ Doing(r, "add session")
  /\ sessions' = Insert(sessions, Arg(r), 0)
  /\ Done(r)
  /\ UNCHANGED << Others, metrics, streams, series >>

RemoveSession(r) ==
  /\ Doing(r, "remove session")
  /\ sessions' = [s \in DOMAIN sessions \ {Arg(r)} |-> sessions[s]]
  /\ Done(r)
  /\ UNCHANGED << Others, metrics, streams, series >>

CreditSession(r) ==
  /\ Doing(r, "credit session")
  /\ sessions' = [s \in DOMAIN sessions |-> sessions[s] + IF s = task[r].of THEN 1 ELSE 0]
  /\ Done(r)
  /\ UNCHANGED << Others, metrics, streams, series >>

AddStream(r) ==
  /\ Doing(r, "add stream")
  /\ streams' = Insert(streams, Arg(r), [session |-> task[r].of, open |-> TRUE])
  /\ Done(r)
  /\ UNCHANGED << Others, metrics, sessions, series >>

\* The entry of a completed stream stays for good.
CompleteStream(r) ==
  /\ Doing(r, "complete stream")
  /\ streams' = [s \in DOMAIN streams |->
                   IF s = Arg(r) THEN [streams[s] EXCEPT !.open = FALSE] ELSE streams[s]]
  /\ Done(r)
  /\ UNCHANGED << Others, metrics, sessions, series >>

Drained(n, limit) == IF n > limit THEN n - DrainSize ELSE n

\* Mutant: the oldest entries are dropped one push too late.
PushSnapshotLate(r) ==
  /\ Doing(r, "push")
  /\ series' = Drained(series + 1, SeriesLimit + 1)
  /\ Done(r)
  /\ UNCHANGED << Others, metrics, sessions, streams >>

\* record_time_series_snapshot: a series over its limit loses its oldest entries.
PushSnapshot(r) ==
  /\ Doing(r, "push")
  /\ series' = Drained(series + 1, SeriesLimit)
  /\ Done(r)
  /\ UNCHANGED << Others, metrics, sessions, streams >>

-----------------------------------------------------------------------------
(* Steps of the Prometheus collector: one vector, under the lock of its kind. *)
(* The first call with a name fixes the number of labels; with_label_values   *)
(* panics when another comes.                                                 *)

\* Mutant: the end of a session sets its gauge as its beginning does.
ValueOfAnyCall(r, name, before) ==
  IF name \in Counters THEN before + 1 ELSE IF name \in Gauges THEN 1 ELSE before + Arg(r)

Value(r, name, before) ==
  CASE name \in Counters -> before + 1
    [] name \in Gauges   -> IF task[r].call \in {"session_created", "stream_created"} THEN 1 ELSE 0
    [] OTHER             -> before + Arg(r)

Sample(r) ==
  /\ task[r] # Idle
  /\ LET name   == Head(task[r].todo)
         labels == task[r].labels
         vector == IF name \in DOMAIN vectors THEN vectors[name]
                   ELSE [labels |-> Len(labels), values |-> << >>]
         before == IF labels \in DOMAIN vector.values THEN vector.values[labels] ELSE 0
     IN  /\ name \in Counters \cup Gauges \cup {"frame_processing"}
         /\ IF vector.labels = Len(labels)
            THEN /\ vectors' = Insert(vectors, name,
                                [vector EXCEPT !.values = Insert(@, labels, Value(r, name, before))])
                 /\ Done(r)
                 /\ UNCHANGED ended
            ELSE /\ task' = [task EXCEPT ![r] = Idle]
                 /\ ended' = ended \cup {Arg(r)}     \* whose caller is gone with the call
                 /\ UNCHANGED vectors
  /\ UNCHANGED << setting, metrics, sessions, streams, series, begun, timings >>

Next ==
  \E r \in Reporter :
    \/ \E id \in SessionId : RecordSessionCreated(r, id)
    \/ \E id \in StreamId, s \in SessionId : RecordStreamCreated(r, id, s)
    \/ \E id \in SessionId \cup StreamId : RecordEnd(r, id)
    \/ \E d \in Durations : RecordTiming(r, d)
    \/ CountFrames(r)
    \/ CountSession(r) \/ AddSession(r) \/ UncountSession(r) \/ RemoveSession(r)
    \/ PushSnapshot(r)
    \/ CountStream(r) \/ CreditSession(r) \/ AddStream(r) \/ UncountStream(r) \/ CompleteStream(r)
    \/ Average(r) \/ AddFrames(r)
    \/ Sample(r)

Spec == Init /\ [][Next]_vars

-----------------------------------------------------------------------------
(* Properties *)

TypeOK ==
  /\ metrics.active_sessions \in 0 .. Cardinality(SessionId)
  /\ DOMAIN sessions \subseteq SessionId /\ DOMAIN streams \subseteq StreamId
  /\ series <= SeriesLimit
  /\ ended \subseteq begun /\ begun \subseteq SessionId \cup StreamId

\* Those who have taken one step of a call and owe another
Between(first, second) ==
  Cardinality({r \in Reporter : /\ second \in ToSet(task[r].todo)
                                /\ first \notin ToSet(task[r].todo)})

\* The gauges and the entries are kept under different locks.  Between
\* calls they agree; in the middle of one they differ by what is under way,
\* and the guard against underflow never hides a lost decrement.  A session
\* counts no stream it does not have.
GaugesAgreeWithEntries ==
  /\ metrics.active_sessions + Between("uncount session", "remove session")
       = Cardinality(DOMAIN sessions) + Between("count session", "add session")
  /\ metrics.active_streams + Between("uncount stream", "complete stream")
       = Cardinality({s \in DOMAIN streams : streams[s].open}) + Between("count stream", "add stream")
  /\ \A s \in DOMAIN sessions :
       sessions[s] <= Cardinality({t \in DOMAIN streams : streams[t].session = s})
                        + Between("credit session", "add stream")

\* export_prometheus, of the in-memory collector
Exported ==
  [pjs_active_sessions |-> metrics.active_sessions,
   pjs_sessions_created_total |-> metrics.total_sessions_created,
   pjs_active_streams |-> metrics.active_streams]

Total(name) == IF name \notin DOMAIN vectors THEN 0
               ELSE SumFunction(vectors[name].values)

\* Sessions without metadata are the same to both collectors whenever nobody is
\* in a call, whatever the order of the collectors and of the calls.  (With
\* metadata the end of a session has other labels than its beginning, and so
\* has the end of every stream: those calls panic, and Prometheus shows them
\* as active for good.)
CollectorsAgree ==
  /\ (\A id \in SessionId : setting.metadata[id] = {}) /\ AtWork = {} =>
       \A name \in {"pjs_active_sessions", "pjs_sessions_created_total"} :
         Total(name) = Exported[name]
  /\ AtWork = {} => Total("pjs_active_streams") >= Exported.pjs_active_streams

\* The average is never longer than the longest duration, however counts of
\* frames and durations interleave.  (It may be shorter than the shortest: a
\* frame counted before the first duration weighs in as one of zero.)
AverageIsBounded ==
  AtWork = {} /\ timings # {} => metrics.average <= Max(timings)
=============================================================================
