--------------------------- MODULE Progress_proofs ---------------------------
(***************************************************************************)
(* What the workflows, the WebSocket transport and the JavaScript client   *)
(* never do, and the types of all the parts, proved for any number of      *)
(* clients, streams, sessions, calls and sockets.  That their clients are  *)
(* answered in the end is liveness, which TLC checks.                      *)
(***************************************************************************)
EXTENDS Progress, FiniteSetTheorems, TLAPS

-----------------------------------------------------------------------------
(* The workflows of the session service *)

\* What a client's workflow remembers is true: the streams a closing workflow
\* saw are finished, those a shutdown has completed are Completed, and those
\* it still has to do are neither in this list nor among the failed.
RemembersTruly(c) ==
  /\ flow[c].at = "closing" =>
       \A id \in flow[c].seen : session.streams[id] \in Workflows!FinishedStates
  /\ flow[c].at = "shutting" =>
       /\ \A id \in flow[c].completed : session.streams[id] = "Completed"
       /\ flow[c].todo \cap (flow[c].completed \cup flow[c].failed) = {}

\* What the last shutdown reported is true.
ReportIsTrue ==
  /\ outcome.closed => session.state = "Completed"
  /\ \A id \in outcome.completed : session.streams[id] = "Completed"

\* A session that was activated before anyone knew it is open or closed for
\* good, and a closed one runs nothing.
WorkflowsIInv ==
  /\ Workflows!TypeOK
  /\ session.state \in {"Active", "Completed"}
  /\ Workflows!RunsOnlyWhileActive(session)
  /\ ReportIsTrue
  /\ \A c \in Client : RemembersTruly(c)

\* What every step of a workflow leaves of the session: its type, the two
\* states and what runs in them; a closed session and a finished stream for good.
SessionKept ==
  /\ session' \in Workflows!Session
  /\ session'.state \in {"Active", "Completed"}
  /\ Workflows!RunsOnlyWhileActive(session')
  /\ session.state = "Completed" => session'.state = "Completed"
  /\ \A id \in StreamId :
       session.streams[id] \in Workflows!FinishedStates =>
         session'.streams[id] = session.streams[id]

\* A stream that is not finished moves on in an active session.
LEMMA MovedIsKept ==
  ASSUME WorkflowsIInv, NEW id \in StreamId, NEW to \in Workflows!StreamState,
         NEW stats \in Workflows!SessionStats, NEW kind,
         session.state = "Active", session.streams[id] \notin Workflows!FinishedStates,
         session' = Workflows!Quiet(Workflows!Moved(session, id, to, stats, kind))
  PROVE  /\ SessionKept
         /\ session'.streams = [session.streams EXCEPT ![id] = to]
<1>1. session \in Workflows!Session
  BY DEF WorkflowsIInv, Workflows!TypeOK
<1>2. session' = [state |-> session.state, streams |-> [session.streams EXCEPT ![id] = to],
                  stats |-> stats, pending |-> << >>]
  BY DEF Workflows!Quiet, Workflows!Moved
<1>3. session' \in Workflows!Session
  BY <1>1, <1>2 DEF Workflows!Session
<1>4. session'.state = "Active" /\ session'.streams = [session.streams EXCEPT ![id] = to]
  BY <1>2
<1>5. \A x \in StreamId : session'.streams[x] = IF x = id THEN to ELSE session.streams[x]
  BY <1>1, <1>4 DEF Workflows!Session
<1>6. QED
  BY <1>3, <1>4, <1>5 DEF SessionKept, Workflows!RunsOnlyWhileActive

\* Writing two counters leaves a record of counters.
LEMMA CountersWritten ==
  ASSUME NEW st \in Workflows!SessionStats, NEW a \in Nat, NEW b \in Nat
  PROVE  /\ [st EXCEPT !.total = a, !.active = b] \in Workflows!SessionStats
         /\ [st EXCEPT !.active = a, !.completed = b] \in Workflows!SessionStats
BY DEF Workflows!SessionStats

\* The counters of a session are naturals however they are stepped.
LEMMA CountersAreTyped ==
  ASSUME WorkflowsIInv
  PROVE  /\ session \in Workflows!Session
         /\ session.stats \in Workflows!SessionStats
         /\ [session.stats EXCEPT !.total = @ + 1, !.active = @ + 1] \in Workflows!SessionStats
         /\ [session.stats EXCEPT !.active = Workflows!SaturatingDec(@), !.completed = @ + 1]
              \in Workflows!SessionStats
<1>1. session \in Workflows!Session
  BY DEF WorkflowsIInv, Workflows!TypeOK
<1>2. session.stats \in Workflows!SessionStats
  BY <1>1 DEF Workflows!Session
<1>3. session.stats.total \in Nat /\ session.stats.active \in Nat
        /\ session.stats.completed \in Nat
  BY <1>2 DEF Workflows!SessionStats
<1>4. /\ session.stats.total + 1 \in Nat /\ session.stats.active + 1 \in Nat
      /\ session.stats.completed + 1 \in Nat
      /\ Workflows!SaturatingDec(session.stats.active) \in Nat
  BY <1>3 DEF Workflows!SaturatingDec
<1>5. QED
  BY <1>1, <1>2, <1>4, CountersWritten

\* A command that creates a stream.
LEMMA CreateIsKept ==
  ASSUME WorkflowsIInv, NEW id \in StreamId,
         Workflows!MayCreateStream(session, expired, id),
         session' = Workflows!Quiet(Workflows!AfterCreateStream(session, id))
  PROVE  /\ SessionKept
         /\ session'.streams = [session.streams EXCEPT ![id] = "Preparing"]
<1>1. session.state = "Active" /\ session.streams[id] = "Absent"
  BY DEF Workflows!MayCreateStream, Workflows!IsActive
<1>2. "Preparing" \in Workflows!StreamState
  BY DEF Workflows!StreamState, Workflows!ActiveStates
<1>3. session.streams[id] \notin Workflows!FinishedStates
  BY <1>1 DEF Workflows!FinishedStates
<1>4. QED
  BY <1>1, <1>2, <1>3, CountersAreTyped, MovedIsKept DEF Workflows!AfterCreateStream

\* A stream runs only in an active session, so one that runs may move on.
LEMMA RunningMeansActive ==
  ASSUME WorkflowsIInv, NEW id \in StreamId, session.streams[id] \in Workflows!ActiveStates
  PROVE  session.state = "Active" /\ session.streams[id] \notin Workflows!FinishedStates
<1>1. session.state # "Active" => Workflows!StreamsIn(session, Workflows!ActiveStates) = {}
  BY DEF WorkflowsIInv, Workflows!RunsOnlyWhileActive
<1>2. id \in Workflows!StreamsIn(session, Workflows!ActiveStates)
  BY DEF Workflows!StreamsIn
<1>3. QED
  BY <1>1, <1>2 DEF Workflows!ActiveStates, Workflows!FinishedStates

\* A command that starts a stream.
LEMMA StartIsKept ==
  ASSUME WorkflowsIInv, NEW id \in StreamId,
         Workflows!MayStartStream(session, id),
         session' = Workflows!Quiet(Workflows!AfterStartStream(session, id))
  PROVE  /\ SessionKept
         /\ session'.streams = [session.streams EXCEPT ![id] = "Streaming"]
<1>1. session.streams[id] \in Workflows!ActiveStates
  BY DEF Workflows!MayStartStream, Workflows!ActiveStates
<1>2. "Streaming" \in Workflows!StreamState
  BY DEF Workflows!StreamState, Workflows!ActiveStates
<1>3. QED
  BY <1>1, <1>2, RunningMeansActive, CountersAreTyped, MovedIsKept
     DEF Workflows!AfterStartStream

\* A command that completes a stream.
LEMMA CompleteIsKept ==
  ASSUME WorkflowsIInv, NEW id \in StreamId,
         Workflows!MayCompleteStream(session, id),
         session' = Workflows!Quiet(Workflows!AfterCompleteStream(session, id))
  PROVE  /\ SessionKept
         /\ session'.streams = [session.streams EXCEPT ![id] = "Completed"]
<1>1. session.streams[id] \in Workflows!ActiveStates
  BY DEF Workflows!MayCompleteStream, Workflows!ActiveStates
<1>2. "Completed" \in Workflows!StreamState
  BY DEF Workflows!StreamState, Workflows!FinishedStates
<1>3. QED
  BY <1>1, <1>2, RunningMeansActive, CountersAreTyped, MovedIsKept
     DEF Workflows!AfterCompleteStream

\* The command that closes the session: nothing is left running.
LEMMA CloseIsKept ==
  ASSUME WorkflowsIInv, session' = Workflows!Quiet(Workflows!AfterClose(session))
  PROVE  /\ SessionKept
         /\ session'.state = "Completed"
         /\ \A id \in StreamId : session'.streams[id] \notin Workflows!ActiveStates
<1>1. session \in Workflows!Session
  BY CountersAreTyped
<1>2. session' =
        [state   |-> "Completed",
         streams |-> [id \in StreamId |-> IF session.streams[id] \in Workflows!ActiveStates
                                          THEN "Cancelled" ELSE session.streams[id]],
         stats   |-> session.stats,
         pending |-> << >>]
  BY <1>1 DEF Workflows!Quiet, Workflows!AfterClose, Workflows!Session
<1>3. session' \in Workflows!Session
  BY <1>1, <1>2 DEF Workflows!Session, Workflows!SessionState, Workflows!StreamState,
     Workflows!FinishedStates
<1>4. \A id \in StreamId :
        session'.streams[id] = IF session.streams[id] \in Workflows!ActiveStates
                               THEN "Cancelled" ELSE session.streams[id]
  BY <1>2
<1>5. \A id \in StreamId : session'.streams[id] \notin Workflows!ActiveStates
  BY <1>4 DEF Workflows!ActiveStates
<1>6. \A id \in StreamId : session.streams[id] \in Workflows!FinishedStates =>
                              session'.streams[id] = session.streams[id]
  BY <1>4 DEF Workflows!ActiveStates, Workflows!FinishedStates
<1>7. Workflows!RunsOnlyWhileActive(session')
  BY <1>5 DEF Workflows!RunsOnlyWhileActive, Workflows!StreamsIn
<1>8. QED
  BY <1>2, <1>3, <1>5, <1>6, <1>7 DEF SessionKept

\* A step that leaves the session alone.
LEMMA UnchangedIsKept ==
  ASSUME WorkflowsIInv, UNCHANGED session
  PROVE  SessionKept
BY CountersAreTyped DEF SessionKept, WorkflowsIInv

\* A client takes the next step of its workflow, whatever it does to the
\* session that keeps it as above.
LEMMA WorkflowGoesOn ==
  ASSUME WorkflowsIInv, SessionKept, NEW c \in Client, NEW f \in Workflows!Flow,
         flow' = [flow EXCEPT ![c] = f],
         expired' \in BOOLEAN, failures' \in 0 .. MaxFailures, orphaned' \subseteq StreamId,
         RemembersTruly(c)',
         \/ UNCHANGED outcome
         \/ /\ outcome' \in [closed : BOOLEAN, completed : SUBSET StreamId,
                             failed : SUBSET StreamId]
            /\ ReportIsTrue'
  PROVE  WorkflowsIInv'
<1> USE DEF Workflows!TypeOK
<1>1. flow \in [Client -> Workflows!Flow]
  BY DEF WorkflowsIInv
<1>2. flow' \in [Client -> Workflows!Flow] /\ \A d \in Client \ {c} : flow'[d] = flow[d]
  BY <1>1
<1>3. outcome' \in [closed : BOOLEAN, completed : SUBSET StreamId, failed : SUBSET StreamId]
  BY DEF WorkflowsIInv
<1>4. Workflows!TypeOK'
  BY <1>2, <1>3 DEF SessionKept
<1>5. session'.state \in {"Active", "Completed"} /\ Workflows!RunsOnlyWhileActive(session)'
  BY DEF SessionKept
<1>6. \A id \in StreamId : session.streams[id] = "Completed" => session'.streams[id] = "Completed"
  BY DEF SessionKept, Workflows!FinishedStates
<1>7. ReportIsTrue'
  BY <1>3, <1>6 DEF WorkflowsIInv, ReportIsTrue, SessionKept
<1>8. ASSUME NEW d \in Client \ {c}
      PROVE  RemembersTruly(d)'
  <2>1. RemembersTruly(d) /\ flow'[d] = flow[d] /\ flow[d] \in Workflows!Flow
    BY <1>1, <1>2 DEF WorkflowsIInv
  <2>2. flow[d].at = "closing" => flow[d].seen \subseteq StreamId
    BY <2>1 DEF Workflows!Flow, Workflows!Idle
  <2>3. flow[d].at = "shutting" => flow[d].completed \subseteq StreamId
    BY <2>1 DEF Workflows!Flow, Workflows!Idle
  <2>4. QED
    BY <1>6, <2>1, <2>2, <2>3 DEF RemembersTruly, SessionKept
<1>9. QED
  BY <1>4, <1>5, <1>7, <1>8 DEF WorkflowsIInv

\* A command changes the failures counted at most by one, within their bound.
LEMMA FailuresAreBounded ==
  ASSUME WorkflowsIInv, NEW s,
         Workflows!Succeeds(s) \/ Workflows!SucceedsUnpublished(s)
  PROVE  session' = Workflows!Quiet(s) /\ failures' \in 0 .. MaxFailures
BY WorkflowsAssumption
   DEF WorkflowsIInv, Workflows!TypeOK, Workflows!Succeeds, Workflows!SucceedsUnpublished

\* Every step of a workflow keeps the session and what is known of it.
LEMMA WorkflowsStep ==
  ASSUME WorkflowsIInv, Workflows!Next
  PROVE  WorkflowsIInv' /\ SessionKept
<1> USE DEF Workflows!TypeOK, Workflows!Goes
<1>0. /\ session \in Workflows!Session /\ expired \in BOOLEAN
      /\ flow \in [Client -> Workflows!Flow] /\ failures \in 0 .. MaxFailures
      /\ orphaned \subseteq StreamId
  BY DEF WorkflowsIInv
<1>i. Workflows!Idle \in Workflows!Flow /\ Workflows!Idle.at = "idle"
  BY DEF Workflows!Flow, Workflows!Idle
<1>1. ASSUME NEW c \in Client, NEW id \in StreamId, Workflows!Create(c, id)
      PROVE  WorkflowsIInv' /\ SessionKept
  <2>1. session' = Workflows!Quiet(Workflows!AfterCreateStream(session, id))
        /\ failures' \in 0 .. MaxFailures
    BY <1>1, FailuresAreBounded DEF Workflows!Create
  <2>2. SessionKept
    BY <1>1, <2>1, CreateIsKept DEF Workflows!Create
  <2>3. PICK f \in {Workflows!Idle, [at |-> "starting", id |-> id]} :
          flow' = [flow EXCEPT ![c] = f]
    BY <1>1 DEF Workflows!Create
  <2>4. f \in Workflows!Flow /\ f.at \notin {"closing", "shutting"}
    BY <2>3 DEF Workflows!Flow, Workflows!Idle
  <2>5. flow'[c] = f
    BY <1>0, <2>3
  <2>6. RemembersTruly(c)'
    BY <2>4, <2>5 DEF RemembersTruly
  <2>7. orphaned' \subseteq StreamId /\ expired' \in BOOLEAN /\ UNCHANGED outcome
    BY <1>0, <1>1 DEF Workflows!Create
  <2>8. QED
    BY <2>1, <2>2, <2>3, <2>4, <2>6, <2>7, WorkflowGoesOn
<1>2. ASSUME NEW c \in Client, NEW id \in StreamId, Workflows!Complete(c, id)
      PROVE  WorkflowsIInv' /\ SessionKept
  <2>1. session' = Workflows!Quiet(Workflows!AfterCompleteStream(session, id))
        /\ failures' \in 0 .. MaxFailures
    BY <1>2, FailuresAreBounded DEF Workflows!Complete
  <2>2. SessionKept
    BY <1>2, <2>1, CompleteIsKept DEF Workflows!Complete
  <2>3. PICK f \in {Workflows!Idle, [at |-> "counting"]} : flow' = [flow EXCEPT ![c] = f]
    BY <1>2 DEF Workflows!Complete
  <2>4. f \in Workflows!Flow /\ f.at \notin {"closing", "shutting"}
    BY <2>3 DEF Workflows!Flow, Workflows!Idle
  <2>5. flow'[c] = f
    BY <1>0, <2>3
  <2>6. RemembersTruly(c)'
    BY <2>4, <2>5 DEF RemembersTruly
  <2>7. orphaned' \subseteq StreamId /\ expired' \in BOOLEAN /\ UNCHANGED outcome
    BY <1>0, <1>2 DEF Workflows!Complete
  <2>8. QED
    BY <2>1, <2>2, <2>3, <2>4, <2>6, <2>7, WorkflowGoesOn
<1>3. ASSUME NEW c \in Client, NEW id \in StreamId, Workflows!ShutStream(c, id)
      PROVE  WorkflowsIInv' /\ SessionKept
  <2>1. /\ flow[c].at = "shutting" /\ id \in flow[c].todo
        /\ UNCHANGED << expired, orphaned, outcome >>
    BY <1>3 DEF Workflows!ShutStream
  <2>2. flow[c] \in [at : {"shutting"}, todo : SUBSET StreamId,
                     completed : SUBSET StreamId, failed : SUBSET StreamId]
    BY <1>0, <2>1 DEF Workflows!Flow, Workflows!Idle
  <2>3. RemembersTruly(c)
    BY DEF WorkflowsIInv
  <2>4. CASE /\ Workflows!MayCompleteStream(session, id)
             /\ Workflows!Succeeds(Workflows!AfterCompleteStream(session, id))
             /\ flow' = [flow EXCEPT ![c].todo = @ \ {id}, ![c].completed = @ \cup {id}]
    <3>1. session' = Workflows!Quiet(Workflows!AfterCompleteStream(session, id))
          /\ failures' \in 0 .. MaxFailures
      BY <2>4, FailuresAreBounded
    <3>2. SessionKept /\ session'.streams = [session.streams EXCEPT ![id] = "Completed"]
      BY <2>4, <3>1, CompleteIsKept
    <3> DEFINE f == [flow[c] EXCEPT !.todo = @ \ {id}, !.completed = @ \cup {id}]
    <3>3. flow' = [flow EXCEPT ![c] = f]
      BY <2>4
    <3>4. f \in Workflows!Flow
      BY <2>2 DEF Workflows!Flow
    <3>5. /\ f.at = "shutting" /\ f.todo = flow[c].todo \ {id} /\ f.failed = flow[c].failed
          /\ f.completed = flow[c].completed \cup {id}
      BY <2>2
    <3>6. flow'[c] = f
      BY <1>0, <3>3
    <3> HIDE DEF f
    <3>7. \A x \in StreamId : session'.streams[x] = IF x = id THEN "Completed"
                                                   ELSE session.streams[x]
      BY <1>0, <3>2 DEF Workflows!Session
    <3>8. RemembersTruly(c)'
      BY <2>1, <2>2, <2>3, <3>5, <3>6, <3>7 DEF RemembersTruly
    <3>9. QED
      BY <1>0, <2>1, <3>1, <3>2, <3>3, <3>4, <3>8, WorkflowGoesOn
  <2>5. CASE /\ IF Workflows!MayCompleteStream(session, id)
                THEN Workflows!SucceedsUnpublished(Workflows!AfterCompleteStream(session, id))
                ELSE Workflows!Refused
             /\ flow' = [flow EXCEPT ![c].todo = @ \ {id}, ![c].failed = @ \cup {id}]
    <3>1. SessionKept /\ failures' \in 0 .. MaxFailures
      <4>1. CASE Workflows!MayCompleteStream(session, id)
        BY <2>5, <4>1, FailuresAreBounded, CompleteIsKept
      <4>2. CASE ~Workflows!MayCompleteStream(session, id)
        BY <1>0, <2>5, <4>2, UnchangedIsKept DEF Workflows!Refused
      <4>3. QED
        BY <4>1, <4>2
    <3> DEFINE f == [flow[c] EXCEPT !.todo = @ \ {id}, !.failed = @ \cup {id}]
    <3>2. flow' = [flow EXCEPT ![c] = f]
      BY <2>5
    <3>3. f \in Workflows!Flow
      BY <2>2 DEF Workflows!Flow
    <3>4. /\ f.at = "shutting" /\ f.todo = flow[c].todo \ {id}
          /\ f.completed = flow[c].completed /\ f.failed = flow[c].failed \cup {id}
      BY <2>2
    <3>5. flow'[c] = f
      BY <1>0, <3>2
    <3> HIDE DEF f
    <3>6. RemembersTruly(c)'
      BY <2>1, <2>2, <2>3, <3>1, <3>4, <3>5
         DEF RemembersTruly, SessionKept, Workflows!FinishedStates
    <3>7. QED
      BY <1>0, <2>1, <3>1, <3>2, <3>3, <3>6, WorkflowGoesOn
  <2>6. QED
    BY <1>3, <2>4, <2>5 DEF Workflows!ShutStream
<1>4. ASSUME NEW c \in Client, Workflows!Start(c)
      PROVE  WorkflowsIInv' /\ SessionKept
  <2>1. flow[c].at = "starting" /\ flow[c].id \in StreamId
    BY <1>0, <1>4 DEF Workflows!Start, Workflows!Flow, Workflows!Idle
  <2>2. SessionKept /\ failures' \in 0 .. MaxFailures
    <3>1. CASE Workflows!MayStartStream(session, flow[c].id)
      <4>1. session' = Workflows!Quiet(Workflows!AfterStartStream(session, flow[c].id))
            /\ failures' \in 0 .. MaxFailures
        BY <1>4, <3>1, FailuresAreBounded DEF Workflows!Start
      <4>2. QED
        BY <2>1, <3>1, <4>1, StartIsKept
    <3>2. CASE ~Workflows!MayStartStream(session, flow[c].id)
      BY <1>0, <1>4, <3>2, UnchangedIsKept DEF Workflows!Start, Workflows!Refused
    <3>3. QED
      BY <3>1, <3>2
  <2>3. flow' = [flow EXCEPT ![c] = Workflows!Idle] /\ UNCHANGED << expired, orphaned, outcome >>
    BY <1>4 DEF Workflows!Start
  <2>4. flow'[c] = Workflows!Idle
    BY <1>0, <2>3
  <2>5. RemembersTruly(c)'
    BY <1>i, <2>4 DEF RemembersTruly
  <2>6. QED
    BY <1>0, <1>i, <2>2, <2>3, <2>5, WorkflowGoesOn
<1>5. ASSUME NEW c \in Client, Workflows!CountActive(c)
      PROVE  WorkflowsIInv' /\ SessionKept
  <2>1. UNCHANGED << session, expired, failures, orphaned, outcome >>
    BY <1>5 DEF Workflows!CountActive
  <2>2. SessionKept
    BY <2>1, UnchangedIsKept
  <2>3. CASE Workflows!Active = {}
    <3> DEFINE f == [at |-> "closing", seen |-> Workflows!StreamsIn(session, Workflows!Known)]
    <3>1. flow' = [flow EXCEPT ![c] = f]
      BY <1>5, <2>3 DEF Workflows!CountActive
    <3>2. f \in Workflows!Flow
      BY DEF Workflows!Flow, Workflows!StreamsIn
    <3>3. \A id \in f.seen : session.streams[id] \in Workflows!FinishedStates
      BY <2>3 DEF Workflows!Active, Workflows!StreamsIn, Workflows!Known
    <3>4. flow'[c] = f
      BY <1>0, <3>1
    <3>5. RemembersTruly(c)'
      BY <2>1, <3>3, <3>4 DEF RemembersTruly
    <3>6. QED
      BY <1>0, <2>1, <2>2, <3>1, <3>2, <3>5, WorkflowGoesOn
  <2>4. CASE Workflows!Active # {}
    <3>1. flow' = [flow EXCEPT ![c] = Workflows!Idle]
      BY <1>5, <2>4 DEF Workflows!CountActive
    <3>2. flow'[c] = Workflows!Idle
      BY <1>0, <3>1
    <3>3. RemembersTruly(c)'
      BY <1>i, <3>2 DEF RemembersTruly
    <3>4. QED
      BY <1>0, <1>i, <2>1, <2>2, <3>1, <3>3, WorkflowGoesOn
  <2>5. QED
    BY <2>3, <2>4
<1>6. ASSUME NEW c \in Client, Workflows!CloseWhenDone(c)
      PROVE  WorkflowsIInv' /\ SessionKept
  <2>1. SessionKept /\ failures' \in 0 .. MaxFailures
    <3>1. CASE Workflows!MayClose(session)
      <4>1. session' = Workflows!Quiet(Workflows!AfterClose(session))
            /\ failures' \in 0 .. MaxFailures
        BY <1>6, <3>1, FailuresAreBounded DEF Workflows!CloseWhenDone
      <4>2. QED
        BY <4>1, CloseIsKept
    <3>2. CASE ~Workflows!MayClose(session)
      BY <1>0, <1>6, <3>2, UnchangedIsKept DEF Workflows!CloseWhenDone, Workflows!Refused
    <3>3. QED
      BY <3>1, <3>2
  <2>2. flow' = [flow EXCEPT ![c] = Workflows!Idle] /\ UNCHANGED << expired, orphaned, outcome >>
    BY <1>6 DEF Workflows!CloseWhenDone
  <2>3. flow'[c] = Workflows!Idle
    BY <1>0, <2>2
  <2>4. RemembersTruly(c)'
    BY <1>i, <2>3 DEF RemembersTruly
  <2>5. QED
    BY <1>0, <1>i, <2>1, <2>2, <2>4, WorkflowGoesOn
<1>7. ASSUME NEW c \in Client, Workflows!BeginShutdown(c)
      PROVE  WorkflowsIInv' /\ SessionKept
  <2> DEFINE f == [at |-> "shutting", todo |-> Workflows!Active, completed |-> {}, failed |-> {}]
  <2>1. /\ UNCHANGED << session, expired, failures, orphaned, outcome >>
        /\ flow' = [flow EXCEPT ![c] = f]
    BY <1>7 DEF Workflows!BeginShutdown
  <2>2. SessionKept
    BY <2>1, UnchangedIsKept
  <2>3. f \in Workflows!Flow
    BY DEF Workflows!Flow, Workflows!Active, Workflows!StreamsIn
  <2>4. flow'[c] = f
    BY <1>0, <2>1
  <2>5. RemembersTruly(c)'
    BY <2>4 DEF RemembersTruly
  <2>6. QED
    BY <1>0, <2>1, <2>2, <2>3, <2>5, WorkflowGoesOn
<1>8. ASSUME NEW c \in Client, Workflows!ShutSession(c)
      PROVE  WorkflowsIInv' /\ SessionKept
  <2>1. PICK ok \in BOOLEAN :
          /\ IF ok THEN /\ Workflows!MayClose(session)
                        /\ Workflows!Succeeds(Workflows!AfterClose(session))
             ELSE IF Workflows!MayClose(session)
             THEN Workflows!SucceedsUnpublished(Workflows!AfterClose(session))
             ELSE Workflows!Refused
          /\ outcome' = [closed |-> ok, completed |-> flow[c].completed,
                         failed |-> flow[c].failed]
    BY <1>8 DEF Workflows!ShutSession
  <2>2. /\ flow[c].at = "shutting" /\ flow' = [flow EXCEPT ![c] = Workflows!Idle]
        /\ UNCHANGED << expired, orphaned >>
    BY <1>8 DEF Workflows!ShutSession
  <2>3. /\ flow[c].completed \subseteq StreamId /\ flow[c].failed \subseteq StreamId
        /\ \A id \in flow[c].completed : session.streams[id] = "Completed"
    BY <1>0, <2>2 DEF Workflows!Flow, Workflows!Idle, WorkflowsIInv, RemembersTruly
  <2>4. /\ SessionKept /\ failures' \in 0 .. MaxFailures
        /\ ok => session'.state = "Completed"
    <3>1. CASE Workflows!MayClose(session)
      <4>1. session' = Workflows!Quiet(Workflows!AfterClose(session))
            /\ failures' \in 0 .. MaxFailures
        BY <2>1, <3>1, FailuresAreBounded
      <4>2. QED
        BY <4>1, CloseIsKept
    <3>2. CASE ~Workflows!MayClose(session)
      BY <1>0, <2>1, <3>2, UnchangedIsKept DEF Workflows!Refused
    <3>3. QED
      BY <3>1, <3>2
  <2>5. /\ outcome' \in [closed : BOOLEAN, completed : SUBSET StreamId, failed : SUBSET StreamId]
        /\ ReportIsTrue'
    BY <2>1, <2>3, <2>4 DEF ReportIsTrue, SessionKept, Workflows!FinishedStates
  <2>6. flow'[c] = Workflows!Idle
    BY <1>0, <2>2
  <2>7. RemembersTruly(c)'
    BY <1>i, <2>6 DEF RemembersTruly
  <2>8. QED
    BY <1>0, <1>i, <2>2, <2>4, <2>5, <2>7, WorkflowGoesOn
<1>9. ASSUME Workflows!Expire
      PROVE  WorkflowsIInv' /\ SessionKept
  <2>1. expired' = TRUE /\ UNCHANGED << session, flow, failures, orphaned, outcome >>
    BY <1>9 DEF Workflows!Expire
  <2>2. QED
    BY <2>1, UnchangedIsKept
       DEF WorkflowsIInv, RemembersTruly, ReportIsTrue, Workflows!RunsOnlyWhileActive,
           Workflows!StreamsIn
<1>10. QED
  BY <1>1, <1>2, <1>3, <1>4, <1>5, <1>6, <1>7, <1>8, <1>9 DEF Workflows!Next

\* Who looks after a stream that is Preparing.
Attended(id) == id \in orphaned \/ \E c \in Client : flow[c].at = "starting" /\ flow[c].id = id

\* A client's step leaves attended what somebody else, or nobody, is to start.
LEMMA StillAttended ==
  ASSUME WorkflowsIInv, NEW id \in StreamId, Attended(id), NEW c \in Client,
         flow[c].at = "starting" => flow[c].id # id,
         \A d \in Client \ {c} : flow'[d] = flow[d],
         orphaned \subseteq orphaned'
  PROVE  Attended(id)'
BY DEF Attended

\* No step leaves a stream Preparing with nobody to start it.
LEMMA AttendedStep ==
  ASSUME WorkflowsIInv, Workflows!PreparingIsAttendedTo, Workflows!Next
  PROVE  Workflows!PreparingIsAttendedTo'
<1> USE DEF Workflows!Goes
<1>0. /\ session \in Workflows!Session /\ session' \in Workflows!Session
      /\ flow \in [Client -> Workflows!Flow]
  BY WorkflowsStep DEF WorkflowsIInv, Workflows!TypeOK
<1>1. Workflows!Idle.at = "idle"
  BY DEF Workflows!Idle
<1>2. SUFFICES ASSUME NEW id \in StreamId, session'.streams[id] = "Preparing"
               PROVE  Attended(id)'
  BY DEF Workflows!PreparingIsAttendedTo, Workflows!StreamsIn, Attended
<1>3. session.streams[id] = "Preparing" => Attended(id)
  BY DEF Workflows!PreparingIsAttendedTo, Workflows!StreamsIn, Attended
<1>4. ASSUME NEW c \in Client, NEW x \in StreamId, Workflows!Create(c, x)
      PROVE  Attended(id)'
  <2>1. session' = Workflows!Quiet(Workflows!AfterCreateStream(session, x))
    BY <1>4, FailuresAreBounded DEF Workflows!Create
  <2>2. session'.streams = [session.streams EXCEPT ![x] = "Preparing"]
    BY <1>4, <2>1, CreateIsKept DEF Workflows!Create
  <2>3. CASE id = x
    BY <1>0, <1>4, <2>3 DEF Workflows!Create, Attended
  <2>4. CASE id # x
    <3>1. session.streams[id] = "Preparing"
      BY <1>0, <1>2, <2>2, <2>4 DEF Workflows!Session
    <3>2. /\ flow[c] = Workflows!Idle /\ orphaned \subseteq orphaned'
          /\ \A d \in Client \ {c} : flow'[d] = flow[d]
      BY <1>0, <1>4 DEF Workflows!Create
    <3>3. QED
      BY <1>1, <1>3, <3>1, <3>2, StillAttended
  <2>5. QED
    BY <2>3, <2>4
<1>5. ASSUME NEW c \in Client, Workflows!Start(c)
      PROVE  Attended(id)'
  <2>1. flow[c].at = "starting" /\ flow[c].id \in StreamId
    BY <1>0, <1>5 DEF Workflows!Start, Workflows!Flow, Workflows!Idle
  <2>2. /\ UNCHANGED orphaned
        /\ \A d \in Client \ {c} : flow'[d] = flow[d]
    BY <1>0, <1>5 DEF Workflows!Start
  <2>3. CASE Workflows!MayStartStream(session, flow[c].id)
    <3>1. session' = Workflows!Quiet(Workflows!AfterStartStream(session, flow[c].id))
      BY <1>5, <2>3, FailuresAreBounded DEF Workflows!Start
    <3>2. session'.streams = [session.streams EXCEPT ![flow[c].id] = "Streaming"]
      BY <2>1, <2>3, <3>1, StartIsKept
    <3>3. id # flow[c].id /\ session.streams[id] = "Preparing"
      BY <1>0, <1>2, <2>1, <3>2 DEF Workflows!Session
    <3>4. QED
      BY <1>3, <2>2, <3>3, StillAttended
  <2>4. CASE ~Workflows!MayStartStream(session, flow[c].id)
    <3>1. UNCHANGED session
      BY <1>5, <2>4 DEF Workflows!Start, Workflows!Refused
    <3>2. id # flow[c].id
      BY <1>2, <2>4, <3>1 DEF Workflows!MayStartStream
    <3>3. QED
      BY <1>2, <1>3, <2>2, <3>1, <3>2, StillAttended
  <2>5. QED
    BY <2>3, <2>4
<1>6. ASSUME NEW x \in StreamId, Workflows!MayCompleteStream(session, x),
             \/ Workflows!Succeeds(Workflows!AfterCompleteStream(session, x))
             \/ Workflows!SucceedsUnpublished(Workflows!AfterCompleteStream(session, x))
      PROVE  session.streams[id] = "Preparing"
  <2>1. session'.streams = [session.streams EXCEPT ![x] = "Completed"]
    BY <1>6, FailuresAreBounded, CompleteIsKept
  <2>2. QED
    BY <1>0, <1>2, <2>1 DEF Workflows!Session
<1>7. ASSUME NEW c \in Client, NEW x \in StreamId, Workflows!Complete(c, x)
      PROVE  Attended(id)'
  <2>1. session.streams[id] = "Preparing"
    BY <1>6, <1>7 DEF Workflows!Complete
  <2>2. /\ flow[c] = Workflows!Idle /\ UNCHANGED orphaned
        /\ \A d \in Client \ {c} : flow'[d] = flow[d]
    BY <1>0, <1>7 DEF Workflows!Complete
  <2>3. QED
    BY <1>1, <1>3, <2>1, <2>2, StillAttended
<1>8. ASSUME NEW c \in Client, NEW x \in StreamId, Workflows!ShutStream(c, x)
      PROVE  Attended(id)'
  <2>1. session.streams[id] = "Preparing"
    <3>1. CASE Workflows!MayCompleteStream(session, x)
      BY <1>6, <1>8, <3>1 DEF Workflows!ShutStream
    <3>2. CASE ~Workflows!MayCompleteStream(session, x)
      BY <1>2, <1>8, <3>2 DEF Workflows!ShutStream, Workflows!Refused
    <3>3. QED
      BY <3>1, <3>2
  <2>2. /\ flow[c].at = "shutting" /\ UNCHANGED orphaned
        /\ \A d \in Client \ {c} : flow'[d] = flow[d]
    BY <1>0, <1>8 DEF Workflows!ShutStream
  <2>3. QED
    BY <1>3, <2>1, <2>2, StillAttended
<1>9. ASSUME Workflows!MayClose(session),
             \/ Workflows!Succeeds(Workflows!AfterClose(session))
             \/ Workflows!SucceedsUnpublished(Workflows!AfterClose(session))
      PROVE  FALSE
  BY <1>2, <1>9, FailuresAreBounded, CloseIsKept DEF Workflows!ActiveStates
<1>10. ASSUME NEW c \in Client, Workflows!CloseWhenDone(c) \/ Workflows!ShutSession(c)
       PROVE  Attended(id)'
  <2>1. UNCHANGED session
    BY <1>9, <1>10 DEF Workflows!CloseWhenDone, Workflows!ShutSession, Workflows!Refused
  <2>2. /\ flow[c].at \in {"closing", "shutting"} /\ UNCHANGED orphaned
        /\ \A d \in Client \ {c} : flow'[d] = flow[d]
    BY <1>0, <1>10 DEF Workflows!CloseWhenDone, Workflows!ShutSession
  <2>3. QED
    BY <1>2, <1>3, <2>1, <2>2, StillAttended
<1>11. ASSUME NEW c \in Client, Workflows!CountActive(c) \/ Workflows!BeginShutdown(c)
       PROVE  Attended(id)'
  <2>1. /\ flow[c].at # "starting" /\ UNCHANGED << session, orphaned >>
        /\ \A d \in Client \ {c} : flow'[d] = flow[d]
    BY <1>0, <1>1, <1>11 DEF Workflows!CountActive, Workflows!BeginShutdown
  <2>2. QED
    BY <1>2, <1>3, <2>1, StillAttended
<1>12. ASSUME Workflows!Expire
       PROVE  Attended(id)'
  BY <1>2, <1>3, <1>12 DEF Workflows!Expire, Attended
<1>13. QED
  BY <1>4, <1>5, <1>7, <1>8, <1>10, <1>11, <1>12 DEF Workflows!Next

\* At the start there is an active session without streams.
LEMMA WorkflowsInit ==
  ASSUME Workflows!Init
  PROVE  WorkflowsIInv /\ Workflows!PreparingIsAttendedTo
<1> USE DEF Workflows!Init
<1>1. session = [state |-> "Active", streams |-> [id \in StreamId |-> "Absent"],
                 stats |-> [total |-> 0, active |-> 0, completed |-> 0, failed |-> 0],
                 pending |-> << >>]
  BY DEF Workflows!Quiet, Workflows!AfterActivate, Workflows!NewSession
<1>2. session \in Workflows!Session
  BY <1>1 DEF Workflows!Session, Workflows!SessionState, Workflows!StreamState,
     Workflows!SessionStats
<1>3. flow \in [Client -> Workflows!Flow] /\ \A c \in Client : flow[c].at = "idle"
  BY DEF Workflows!Flow, Workflows!Idle
<1>4. Workflows!TypeOK
  <2>1. Workflows!None
          \in [closed : BOOLEAN, completed : SUBSET StreamId, failed : SUBSET StreamId]
    BY DEF Workflows!None
  <2>2. 0 \in 0 .. MaxFailures
    BY WorkflowsAssumption
  <2>3. QED
    BY <1>2, <1>3, <2>1, <2>2 DEF Workflows!TypeOK
<1>5. ReportIsTrue /\ \A c \in Client : RemembersTruly(c)
  BY <1>3 DEF ReportIsTrue, RemembersTruly, Workflows!None
<1>6. session.state = "Active" /\ \A id \in StreamId : session.streams[id] = "Absent"
  BY <1>1
<1>7. QED
  BY <1>4, <1>5, <1>6
     DEF WorkflowsIInv, Workflows!RunsOnlyWhileActive, Workflows!PreparingIsAttendedTo,
         Workflows!StreamsIn

\* A step of the whole is one of the workflows or leaves their state alone.
LEMMA WorkflowsAlone ==
  ASSUME WorkflowsIInv, Workflows!PreparingIsAttendedTo, [Next]_vars
  PROVE  WorkflowsIInv' /\ Workflows!PreparingIsAttendedTo' /\ SessionKept
<1>1. CASE Workflows!Next
  BY <1>1, WorkflowsStep, AttendedStep
<1>2. CASE UNCHANGED workflowVars
  <2>1. SessionKept
    BY <1>2, UnchangedIsKept DEF workflowVars
  <2>2. WorkflowsIInv'
    BY <1>2 DEF workflowVars, WorkflowsIInv, RemembersTruly, ReportIsTrue, Workflows!TypeOK,
       Workflows!RunsOnlyWhileActive, Workflows!StreamsIn
  <2>3. Workflows!PreparingIsAttendedTo'
    BY <1>2 DEF workflowVars, Workflows!PreparingIsAttendedTo, Workflows!StreamsIn
  <2>4. QED
    BY <2>1, <2>2, <2>3
<1>3. QED
  BY <1>1, <1>2 DEF Next, vars

\* However workflows, failures of the publisher and the expiry are interleaved,
\* the invariant holds.
LEMMA WorkflowsAlways == Spec => [](WorkflowsIInv /\ Workflows!PreparingIsAttendedTo)
<1>1. Init => WorkflowsIInv /\ Workflows!PreparingIsAttendedTo
  BY WorkflowsInit DEF Init
<1>2. WorkflowsIInv /\ Workflows!PreparingIsAttendedTo /\ [Next]_vars
        => (WorkflowsIInv /\ Workflows!PreparingIsAttendedTo)'
  BY WorkflowsAlone
<1>3. QED
  BY <1>1, <1>2, PTL DEF Spec

\* graceful_shutdown_session: what it reports as completed is Completed for
\* good, what it reports closed has nothing active, and no stream is in its
\* lists and still to be done.
THEOREM ShutdownIsTruthful == Spec => []ShutdownReportsTheTruth
<1>1. WorkflowsIInv => ShutdownReportsTheTruth
  BY DEF WorkflowsIInv, RemembersTruly, ReportIsTrue, ShutdownReportsTheTruth,
     Workflows!ShutdownReportsTheTruth, Workflows!RunsOnlyWhileActive, Workflows!Active
<1>2. QED
  BY <1>1, WorkflowsAlways, PTL

\* create_and_start_stream: no stream stays in Preparing, where it would block
\* all frames, unless somebody is about to start it or was told of an error.
THEOREM NobodyIsLeftPreparing == Spec => []PreparingIsAttendedTo
<1>1. Workflows!PreparingIsAttendedTo => PreparingIsAttendedTo
  BY DEF PreparingIsAttendedTo
<1>2. QED
  BY <1>1, WorkflowsAlways, PTL

\* complete_stream_and_maybe_close_session: the close at its end cancels only
\* streams that were created after its query.
THEOREM ClosingSparesTheSeen == Spec => CloseCancelsOnlyUnseen
<1>1. WorkflowsIInv /\ Workflows!PreparingIsAttendedTo /\ [Next]_vars
        => [\A c \in Client :
              flow[c].at = "closing" /\ flow'[c] = Workflows!Idle =>
                \A id \in flow[c].seen : ~Workflows!Becomes(id, "Cancelled")]_Workflows!vars
  <2>1. SUFFICES ASSUME WorkflowsIInv, Workflows!PreparingIsAttendedTo, [Next]_vars,
                        NEW c \in Client, flow[c].at = "closing", NEW id \in flow[c].seen
                 PROVE  ~Workflows!Becomes(id, "Cancelled")
    OBVIOUS
  <2>2. SessionKept
    BY <2>1, WorkflowsAlone
  <2>3. flow[c].seen \subseteq StreamId
    BY <2>1 DEF WorkflowsIInv, Workflows!TypeOK, Workflows!Flow, Workflows!Idle
  <2>4. session.streams[id] \in Workflows!FinishedStates
    BY <2>1 DEF WorkflowsIInv, RemembersTruly
  <2>5. session'.streams[id] = session.streams[id]
    BY <2>1, <2>2, <2>3, <2>4 DEF SessionKept
  <2>6. QED
    BY <2>5 DEF Workflows!Becomes
<1>2. QED
  BY <1>1, WorkflowsAlways, PTL DEF Spec, CloseCancelsOnlyUnseen, Workflows!CloseCancelsOnlyUnseen

-----------------------------------------------------------------------------
(* The streams of the JavaScript client *)

\* What is built from the first n frames of the response to s.
BuiltFrom(s, n) == [i \in 1 .. n |-> << s, i >>]

\* Calls of which the handler can only get whole responses: over HTTP one
\* response after the other comes in, even if it is not the call's own.
Orderly(c) == transport = "http" \/ c \notin crossed

\* What has been built for c goes on with the next frame of the chunk, begins
\* with it, or is nothing, because c came when it was under way.
Follows(c) ==
  /\ c \in crossed \/ chunk.of = c
  /\ \/ chunk.next = 1
     \/ result[c] = BuiltFrom(chunk.of, chunk.next - 1)
     \/ c \in crossed /\ result[c] = << >>

\* The response of the current stream is the only one to come in, and
\* what has been built is what has come in of it, or of a chunk under way.
\* A stream that has been started since a frame was announced has heard nothing.
CurrentIsInOrder ==
  current # NoCall /\ promise[current] = "open" /\ Orderly(current) =>
    /\ Js!Live \subseteq {current}
    /\ chunk = Js!Nothing /\ response[current] \in 1 .. LastFrame - 1 =>
         result[current] = BuiltFrom(current, response[current])
    /\ chunk # Js!Nothing /\ chunk.of = current => response[current] \in {chunk.last, LastFrame + 1}
    /\ chunk # Js!Nothing /\ chunk.of # current => response[current] = 0
    /\ chunk # Js!Nothing /\ told = NoCall => Follows(current)
    /\ told # NoCall /\ told # current =>
         /\ chunk.of # current
         /\ chunk.next < chunk.last => current \in crossed /\ result[current] = << >>

\* So does the stream that was current when the frame was announced.
ToldIsInOrder ==
  told # NoCall /\ promise[told] = "open" /\ Orderly(told) => Follows(told)

\* Nothing comes in for a call that has not been made, and messages come in
\* one at a time.
Beginnings ==
  /\ \A s \in StreamCall : promise[s] = "none" => response[s] = 0 /\ result[s] = << >>
  /\ chunk # Js!Nothing => promise[chunk.of] # "none"
  /\ told # NoCall => promise[told] # "none"
  /\ transport # "http" /\ chunk # Js!Nothing => told # NoCall /\ chunk.next = chunk.last

JsIInv ==
  /\ transport \in {"http", "sse", "websocket"}
  /\ crossed \subseteq StreamCall
  /\ Js!TypeOK
  /\ result \in [StreamCall -> Seq(StreamCall \X (1 .. LastFrame))]
  /\ Beginnings
  /\ CurrentIsInOrder
  /\ ToldIsInOrder
  /\ Js!ResolvedWithItsOwn

\* One more frame applied in order.
LEMMA BuiltFromNext ==
  ASSUME NEW s, NEW n \in Nat
  PROVE  Append(BuiltFrom(s, n), << s, n + 1 >>) = BuiltFrom(s, n + 1)
<1>1. BuiltFrom(s, n) \in Seq({<< s, i >> : i \in 1 .. n}) /\ Len(BuiltFrom(s, n)) = n
  BY DEF BuiltFrom
<1>2. QED
  BY <1>1 DEF BuiltFrom

\* A response begins with its first frame, whatever was built before.
LEMMA BuiltFromFirst ==
  ASSUME NEW s
  PROVE  << << s, 1 >> >> = BuiltFrom(s, 1)
BY DEF BuiltFrom

\* A chunk under way is a record of a call and two numbers.
LEMMA ChunkIsRecord ==
  ASSUME Js!TypeOK, chunk # Js!Nothing
  PROVE  /\ chunk = [of |-> chunk.of, next |-> chunk.next, last |-> chunk.last]
         /\ chunk.of \in StreamCall
         /\ chunk.next \in 1 .. LastFrame /\ chunk.last \in 1 .. LastFrame
         /\ chunk.next <= chunk.last
BY DEF Js!TypeOK

\* The chunk after a frame, whose number is one more unless there is none left
LEMMA NextFrameIs ==
  ASSUME Js!TypeOK, chunk # Js!Nothing, Js!NextFrame
  PROVE  \/ chunk.next = chunk.last /\ chunk' = Js!Nothing
         \/ /\ chunk.next < chunk.last /\ chunk' # Js!Nothing
            /\ chunk' = [of |-> chunk.of, next |-> chunk.next + 1, last |-> chunk.last]
            /\ chunk'.of = chunk.of /\ chunk'.next = chunk.next + 1 /\ chunk'.last = chunk.last
            /\ chunk'.next \in 1 .. LastFrame
<1>1. /\ chunk = [of |-> chunk.of, next |-> chunk.next, last |-> chunk.last]
      /\ chunk.of \in StreamCall
      /\ chunk.next \in 1 .. LastFrame /\ chunk.last \in 1 .. LastFrame
      /\ chunk.next <= chunk.last
  BY ChunkIsRecord
<1>2. CASE chunk.next < chunk.last
  <2>1. chunk' = [of |-> chunk.of, next |-> chunk.next + 1, last |-> chunk.last]
    BY <1>1, <1>2 DEF Js!NextFrame
  <2>2. chunk'.of = chunk.of /\ chunk'.next = chunk.next + 1 /\ chunk'.last = chunk.last
    BY <2>1
  <2>3. chunk' # Js!Nothing
    BY <1>1, <2>2, JsAssumption DEF Js!Nothing
  <2>4. QED
    BY <1>1, <1>2, <2>1, <2>2, <2>3, JsAssumption
<1>3. CASE ~(chunk.next < chunk.last)
  BY <1>1, <1>3, JsAssumption DEF Js!NextFrame
<1>4. QED
  BY <1>2, <1>3

\* What JsIInv says of the types, with the records and numbers spelt out
LEMMA JsTypes ==
  ASSUME JsIInv
  PROVE  /\ transport \in {"http", "sse", "websocket"} /\ crossed \subseteq StreamCall
         /\ current \in StreamCall \cup {NoCall}
         /\ promise \in [StreamCall -> {"none", "open", "resolved", "rejected"}]
         /\ settling \subseteq StreamCall
         /\ response \in [StreamCall -> 0 .. LastFrame + 1]
         /\ result \in [StreamCall -> Seq(StreamCall \X (1 .. LastFrame))]
         /\ told # NoCall => told \in StreamCall /\ chunk # Js!Nothing
         /\ Js!Live = {s \in StreamCall : promise[s] # "none" /\ response[s] # LastFrame + 1}
         /\ LastFrame \in Nat /\ LastFrame > 1 /\ NoCall \notin StreamCall
BY JsAssumption DEF JsIInv, Js!TypeOK, Js!Over, Js!Live

\* A settled call keeps what it resolved with, whoever gets mixed up later.
LEMMA ResolvedStays ==
  ASSUME JsIInv, UNCHANGED transport, crossed \subseteq crossed',
         \A s \in StreamCall : promise'[s] = "resolved" =>
           \/ promise[s] = "resolved" /\ result'[s] = result[s]
           \/ result'[s] = Js!Whole(s)
           \/ /\ s \in crossed
              /\ transport = "http" =>
                   result'[s] = << >> \/ \E r \in StreamCall : result'[s] = Js!Whole(r)
  PROVE  Js!ResolvedWithItsOwn'
<1>1. \A r : Js!Whole(r)' = Js!Whole(r)
  BY DEF Js!Whole
<1>2. QED
  BY <1>1 DEF JsIInv, Js!ResolvedWithItsOwn

\* stream(): the new call is alone, or it is mixed up with others.
LEMMA JsStream ==
  ASSUME JsIInv, NEW s \in StreamCall, Js!Stream(s)
  PROVE  JsIInv'
<1>0. /\ transport \in {"http", "sse", "websocket"} /\ crossed \subseteq StreamCall
      /\ current \in StreamCall \cup {NoCall}
      /\ promise \in [StreamCall -> {"none", "open", "resolved", "rejected"}]
      /\ response \in [StreamCall -> 0 .. LastFrame + 1]
      /\ told # NoCall => told \in StreamCall /\ chunk # Js!Nothing
      /\ Js!Live = {r \in StreamCall : promise[r] # "none" /\ response[r] # LastFrame + 1}
      /\ LastFrame \in Nat /\ LastFrame > 1 /\ NoCall \notin StreamCall
  BY JsTypes
<1>1. /\ promise[s] = "none"
      /\ promise' = [promise EXCEPT ![s] = "open"] /\ current' = s
      /\ response' = IF transport = "websocket" THEN response
                     ELSE [r \in StreamCall |-> IF r \in Js!Live THEN LastFrame + 1
                                                ELSE response[r]]
      /\ crossed' = crossed \cup Js!MixedUp(s)
      /\ UNCHANGED << transport, settling, chunk, told, result >>
  BY DEF Js!Stream, Js!Over
<1>2. response[s] = 0 /\ result[s] = << >> /\ s # told /\ (chunk # Js!Nothing => chunk.of # s)
  BY <1>0, <1>1 DEF JsIInv, Beginnings
<1>3. /\ promise' \in [StreamCall -> {"none", "open", "resolved", "rejected"}]
      /\ promise'[s] = "open" /\ \A r \in StreamCall \ {s} : promise'[r] = promise[r]
  BY <1>0, <1>1
<1>4. /\ response' \in [StreamCall -> 0 .. LastFrame + 1]
      /\ \A r \in StreamCall : r \notin Js!Live => response'[r] = response[r]
      /\ response'[s] = 0
  BY <1>0, <1>1, <1>2
<1>5. crossed' \subseteq StreamCall
  BY <1>0, <1>1 DEF Js!MixedUp
<1>6. Js!TypeOK'
  BY <1>1, <1>3, <1>4 DEF JsIInv, Js!TypeOK, Js!Over, Js!Nothing
<1>7. Beginnings'
  BY <1>0, <1>1, <1>2, <1>3, <1>4 DEF JsIInv, Js!TypeOK, Beginnings, Js!Nothing
<1>8. Orderly(s)' => Js!Live' \subseteq {s}
  <2>1. Js!Live' = {r \in StreamCall : promise'[r] # "none" /\ response'[r] # LastFrame + 1}
    BY DEF Js!Live, Js!Over
  <2>2. CASE transport = "websocket"
    BY <1>0, <1>1, <1>3, <2>1, <2>2 DEF Orderly, Js!MixedUp
  <2>3. CASE transport # "websocket"
    BY <1>0, <1>1, <1>3, <1>4, <2>1, <2>3
  <2>4. QED
    BY <2>2, <2>3
<1>9. /\ chunk # Js!Nothing /\ told = NoCall => s \in crossed' /\ transport = "http"
      /\ Orderly(s)' /\ told # NoCall /\ chunk.next < chunk.last => s \in crossed'
  <2>1. chunk # Js!Nothing /\ told = NoCall => transport = "http"
    BY DEF JsIInv, Beginnings
  <2>2. told # NoCall /\ chunk.next < chunk.last => transport = "http"
    BY <1>0, JsTypes, ChunkIsRecord DEF JsIInv, Beginnings
  <2>3. QED
    BY <1>0, <1>1, <2>1, <2>2 DEF Js!MixedUp, Js!FramesLeft
<1>10. CurrentIsInOrder'
  BY <1>1, <1>2, <1>4, <1>8, <1>9 DEF CurrentIsInOrder, Follows, Js!Nothing
<1>11. ToldIsInOrder'
  BY <1>0, <1>1, <1>2, <1>3 DEF JsIInv, ToldIsInOrder, Follows, Orderly, Js!Nothing, BuiltFrom
<1>12. Js!ResolvedWithItsOwn'
  <2>1. \A r \in StreamCall : promise'[r] = "resolved" => promise[r] = "resolved"
    BY <1>3
  <2>2. QED
    BY <1>1, <2>1, ResolvedStays
<1>13. QED
  BY <1>0, <1>1, <1>5, <1>6, <1>7, <1>10, <1>11, <1>12 DEF JsIInv

\* Frames come in, for the only call that may get them whole if it is current.
LEMMA JsReceive ==
  ASSUME JsIInv, NEW s \in StreamCall, NEW m \in 1 .. LastFrame, Js!Receive(s, m)
  PROVE  JsIInv'
<1>0. /\ transport \in {"http", "sse", "websocket"} /\ crossed \subseteq StreamCall
      /\ current \in StreamCall \cup {NoCall}
      /\ response \in [StreamCall -> 0 .. LastFrame + 1]
      /\ Js!Live = {r \in StreamCall : promise[r] # "none" /\ response[r] # LastFrame + 1}
      /\ LastFrame \in Nat /\ LastFrame > 1 /\ NoCall \notin StreamCall
  BY JsTypes
<1> DEFINE new == [of |-> s, next |-> response[s] + 1, last |-> m]
<1>1. /\ s \in Js!Live /\ m > response[s] /\ chunk = Js!Nothing
      /\ \/ transport = "http"
         \/ m = response[s] + 1 /\ settling = {}
      /\ response' = [response EXCEPT ![s] = IF m = LastFrame /\ transport # "sse"
                                            THEN LastFrame + 1 ELSE m]
      /\ chunk' = IF transport # "http" /\ current = NoCall THEN Js!Nothing ELSE new
      /\ told' = IF transport = "http" THEN NoCall ELSE current
      /\ UNCHANGED << transport, current, promise, settling, result, crossed >>
  BY DEF Js!Receive, Js!Over
<1>2. /\ promise[s] # "none" /\ response[s] \in 0 .. LastFrame
      /\ response[s] + 1 \in 1 .. LastFrame /\ response[s] + 1 <= m
  BY <1>0, <1>1
<1>3. /\ new \in [of : StreamCall, next : 1 .. LastFrame, last : 1 .. LastFrame]
      /\ new.of = s /\ new.next = response[s] + 1 /\ new.last = m /\ new # Js!Nothing
  BY <1>0, <1>2 DEF Js!Nothing
<1>4. /\ response' \in [StreamCall -> 0 .. LastFrame + 1]
      /\ response'[s] \in {m, LastFrame + 1}
      /\ response'[s] = LastFrame + 1 \/ response'[s] = m
      /\ \A r \in StreamCall \ {s} : response'[r] = response[r]
  BY <1>0, <1>1
<1> HIDE DEF new
<1>5. Js!TypeOK'
  <2>1. \/ chunk' = Js!Nothing
        \/ /\ chunk' \in [of : StreamCall, next : 1 .. LastFrame, last : 1 .. LastFrame]
           /\ chunk'.next <= chunk'.last
    BY <1>1, <1>2, <1>3
  <2>2. told' # NoCall => told' \in StreamCall /\ chunk' # Js!Nothing
    BY <1>0, <1>1, <1>3
  <2>3. QED
    BY <1>1, <1>4, <2>1, <2>2 DEF JsIInv, Js!TypeOK, Js!Over, Js!Nothing
<1>6. Beginnings'
  <2>1. \A r \in StreamCall : promise'[r] = "none" => response'[r] = 0 /\ result'[r] = << >>
    BY <1>1, <1>2, <1>4 DEF JsIInv, Beginnings
  <2>2. chunk' # Js!Nothing => promise'[chunk'.of] # "none"
    BY <1>1, <1>2, <1>3
  <2>3. told' # NoCall => promise'[told'] # "none"
    <3>1. current # NoCall => promise[current] # "none"
      BY DEF JsIInv, Js!TypeOK
    <3>2. QED
      BY <1>1, <3>1
  <2>4. transport' # "http" /\ chunk' # Js!Nothing => told' # NoCall /\ chunk'.next = chunk'.last
    BY <1>1, <1>3
  <2>5. QED
    BY <2>1, <2>2, <2>3, <2>4 DEF Beginnings, Js!Nothing
<1>7. ASSUME current # NoCall, promise[current] = "open", Orderly(current)
      PROVE  /\ s = current /\ Js!Live' \subseteq {current} /\ chunk' = new
             /\ Follows(current)'
  <2>1. /\ s = current /\ Js!Live \subseteq {current}
        /\ response[s] \in 1 .. LastFrame - 1 => result[s] = BuiltFrom(s, response[s])
    BY <1>1, <1>7 DEF JsIInv, CurrentIsInOrder
  <2>2. Js!Live' \subseteq {current}
    BY <1>0, <1>1, <1>2, <1>4, <2>1 DEF Js!Live, Js!Over
  <2>3. chunk' = new
    BY <1>1, <1>7
  <2>4. response[s] # LastFrame
    BY <1>0, <1>1, <1>2
  <2>5. new.next = 1 \/ result[s] = BuiltFrom(s, new.next - 1)
    BY <1>0, <1>2, <1>3, <2>1, <2>4
  <2>6. QED
    BY <1>1, <1>3, <2>1, <2>2, <2>3, <2>5 DEF Follows, BuiltFrom
<1>8. CurrentIsInOrder'
  <2>1. Orderly(current)' <=> Orderly(current)
    BY <1>1 DEF Orderly
  <2>2. QED
    BY <1>1, <1>3, <1>4, <1>7, <2>1 DEF CurrentIsInOrder, Js!Nothing
<1>9. ToldIsInOrder'
  BY <1>1, <1>7 DEF ToldIsInOrder, Follows, Orderly, BuiltFrom
<1>10. Js!ResolvedWithItsOwn'
  BY <1>1, ResolvedStays
<1>11. QED
  BY <1>0, <1>1, <1>5, <1>6, <1>8, <1>9, <1>10 DEF JsIInv

\* A frame is announced to the handler of the current stream.
LEMMA JsAnnounce ==
  ASSUME JsIInv, Js!Announce
  PROVE  JsIInv'
<1>0. current \in StreamCall \cup {NoCall} /\ NoCall \notin StreamCall
  BY JsTypes
<1>1. /\ chunk # Js!Nothing /\ told = NoCall /\ told' = current
      /\ IF current = NoCall THEN Js!NextFrame ELSE UNCHANGED chunk
      /\ UNCHANGED << transport, current, promise, settling, response, result, crossed >>
  BY DEF Js!Announce
<1>2. Js!ResolvedWithItsOwn'
  BY <1>1, ResolvedStays
<1>3. current # NoCall => promise[current] # "none"
  BY DEF JsIInv, Js!TypeOK
<1>4. transport = "http"
  BY <1>1 DEF JsIInv, Beginnings
<1>5. CASE current = NoCall
  <2>1. \/ chunk' = Js!Nothing
        \/ /\ chunk' = [of |-> chunk.of, next |-> chunk.next + 1, last |-> chunk.last]
           /\ chunk.next < chunk.last /\ chunk'.of = chunk.of
    BY <1>1, <1>5, NextFrameIs DEF JsIInv
  <2>2. Js!TypeOK'
    <3>1. \/ chunk' = Js!Nothing
          \/ /\ chunk' \in [of : StreamCall, next : 1 .. LastFrame, last : 1 .. LastFrame]
             /\ chunk'.next <= chunk'.last
      BY <1>1, <2>1, ChunkIsRecord, JsAssumption DEF JsIInv
    <3>2. QED
      BY <1>1, <1>5, <3>1 DEF JsIInv, Js!TypeOK, Js!Nothing
  <2>3. Beginnings'
    BY <1>1, <1>4, <1>5, <2>1 DEF JsIInv, Beginnings, Js!Nothing
  <2>4. CurrentIsInOrder' /\ ToldIsInOrder'
    BY <1>1, <1>5 DEF CurrentIsInOrder, ToldIsInOrder
  <2>5. QED
    BY <1>1, <1>2, <2>2, <2>3, <2>4 DEF JsIInv
<1>6. CASE current # NoCall
  <2>1. Js!TypeOK'
    BY <1>0, <1>1, <1>6 DEF JsIInv, Js!TypeOK, Js!Nothing
  <2>2. Beginnings'
    BY <1>1, <1>3, <1>4, <1>6 DEF JsIInv, Beginnings, Js!Nothing
  <2>3. CurrentIsInOrder' /\ ToldIsInOrder'
    BY <1>1, <1>6 DEF JsIInv, CurrentIsInOrder, ToldIsInOrder, Follows, Orderly, Js!Live,
                      Js!Nothing, Js!Over, BuiltFrom
  <2>4. QED
    BY <1>1, <1>2, <2>1, <2>2, <2>3 DEF JsIInv
<1>7. QED
  BY <1>5, <1>6

\* A handler goes on with what it has built, or settles, and everyone else has
\* heard nothing.
LEMMA JsDeliver ==
  ASSUME JsIInv, Js!Deliver
  PROVE  JsIInv'
<1> DEFINE t == told
           r == chunk.of
           n == chunk.next
<1>0. /\ transport \in {"http", "sse", "websocket"} /\ crossed \subseteq StreamCall
      /\ current \in StreamCall \cup {NoCall}
      /\ promise \in [StreamCall -> {"none", "open", "resolved", "rejected"}]
      /\ result \in [StreamCall -> Seq(StreamCall \X (1 .. LastFrame))]
      /\ response \in [StreamCall -> 0 .. LastFrame + 1]
      /\ told # NoCall => told \in StreamCall /\ chunk # Js!Nothing
      /\ LastFrame \in Nat /\ LastFrame > 1 /\ NoCall \notin StreamCall
  BY JsTypes
<1>1. /\ told # NoCall /\ told' = NoCall /\ Js!NextFrame
      /\ UNCHANGED << transport, current, response, crossed >>
      /\ \/ promise[told] = "open" /\ (current = told \/ n = LastFrame) /\ Js!Handle(told, r, n)
         \/ (promise[told] # "open" \/ current # told) /\ UNCHANGED << promise, settling, result >>
  BY DEF Js!Deliver
<1>2. /\ t \in StreamCall /\ chunk # Js!Nothing /\ r \in StreamCall
      /\ n \in 1 .. LastFrame /\ chunk.last \in 1 .. LastFrame /\ n <= chunk.last
  BY <1>0, <1>1, ChunkIsRecord DEF JsIInv
<1>3. \/ n = chunk.last /\ chunk' = Js!Nothing
      \/ /\ n < chunk.last /\ chunk' # Js!Nothing
         /\ chunk' = [of |-> r, next |-> n + 1, last |-> chunk.last]
         /\ chunk'.of = r /\ chunk'.next = n + 1 /\ chunk'.last = chunk.last
         /\ chunk'.next \in 1 .. LastFrame
  BY <1>1, <1>2, NextFrameIs DEF JsIInv
<1>4. /\ promise[t] = "open" /\ Orderly(t) =>
           /\ t \in crossed \/ r = t
           /\ n = 1 \/ result[t] = BuiltFrom(r, n - 1) \/ (t \in crossed /\ result[t] = << >>)
      /\ promise[t] # "none" /\ promise[r] # "none"
  BY <1>1, <1>2 DEF JsIInv, ToldIsInOrder, Follows, Beginnings
<1>5. transport # "http" => chunk' = Js!Nothing
  BY <1>1, <1>2, <1>3 DEF JsIInv, Beginnings
<1>6. \/ chunk' = Js!Nothing
      \/ /\ chunk' \in [of : StreamCall, next : 1 .. LastFrame, last : 1 .. LastFrame]
         /\ chunk'.next <= chunk'.last
  BY <1>0, <1>2, <1>3
<1>7. ASSUME current # NoCall, promise[current] = "open", Orderly(current), current # t
      PROVE  /\ r # current /\ response[current] = 0 /\ Js!Live \subseteq {current}
             /\ n < chunk.last => current \in crossed /\ result[current] = << >>
  BY <1>1, <1>2, <1>7 DEF JsIInv, CurrentIsInOrder
<1>8. ASSUME current = t, promise[t] = "open", Orderly(t)
      PROVE  /\ Js!Live \subseteq {t}
             /\ r = t => response[t] \in {chunk.last, LastFrame + 1}
             /\ r # t => response[t] = 0
  BY <1>1, <1>2, <1>8 DEF JsIInv, CurrentIsInOrder
<1> HIDE DEF t, r, n
<1>9. ASSUME promise' \in [StreamCall -> {"none", "open", "resolved", "rejected"}],
             result' \in [StreamCall -> Seq(StreamCall \X (1 .. LastFrame))],
             promise'[t] # "none",
             \A s \in StreamCall \ {t} : promise'[s] = promise[s] /\ result'[s] = result[s],
             promise'[t] = "open" /\ current = t /\ Orderly(t) =>
               promise[t] = "open" /\ result'[t] = BuiltFrom(r, n),
             promise'[t] = "resolved" =>
               \/ promise[t] = "resolved" /\ result'[t] = result[t]
               \/ result'[t] = Js!Whole(t)
               \/ /\ t \in crossed
                  /\ transport = "http" =>
                       result'[t] = << >> \/ \E s \in StreamCall : result'[t] = Js!Whole(s),
             settling' \subseteq {s \in StreamCall : promise'[s] \in {"resolved", "rejected"}},
             current # NoCall => promise'[current] = "open" \/ current \in settling'
      PROVE  JsIInv'
  <2>1. Js!TypeOK'
    BY <1>0, <1>1, <1>6, <1>9 DEF JsIInv, Js!TypeOK, Js!Over, Js!Nothing
  <2>2. Beginnings'
    <3>1. \A s \in StreamCall : promise'[s] = "none" => response'[s] = 0 /\ result'[s] = << >>
      BY <1>1, <1>2, <1>9 DEF JsIInv, Beginnings
    <3>2. chunk' # Js!Nothing => promise'[chunk'.of] # "none"
      BY <1>2, <1>3, <1>4, <1>9
    <3>3. QED
      BY <1>1, <1>5, <3>1, <3>2 DEF Beginnings, Js!Nothing
  <2>3. Js!Live' \subseteq Js!Live
    <3>1. \A s \in StreamCall : promise'[s] # "none" => promise[s] # "none"
      BY <1>4, <1>9
    <3>2. QED
      BY <1>1, <3>1 DEF Js!Live, Js!Over
  <2>4. ASSUME current # NoCall, promise'[current] = "open", Orderly(current), current # t
        PROVE  /\ r # current /\ response[current] = 0 /\ Js!Live \subseteq {current}
               /\ n < chunk.last => current \in crossed /\ result'[current] = << >>
    BY <1>0, <1>7, <1>9, <2>4
  <2>5. ASSUME current = t, promise'[t] = "open", Orderly(t)
        PROVE  /\ result'[t] = BuiltFrom(r, n) /\ Js!Live \subseteq {t}
               /\ r = t => response[t] \in {chunk.last, LastFrame + 1}
               /\ r # t => response[t] = 0
               /\ t \in crossed \/ r = t
    BY <1>4, <1>8, <1>9, <2>5
  <2>6. Orderly(current)' <=> Orderly(current)
    BY <1>1 DEF Orderly
  <2>7. ASSUME current # NoCall, promise'[current] = "open", Orderly(current)
        PROVE  /\ Js!Live' \subseteq {current}
               /\ chunk' = Js!Nothing /\ response'[current] \in 1 .. LastFrame - 1 =>
                    result'[current] = BuiltFrom(current, response'[current])
               /\ chunk' # Js!Nothing /\ chunk'.of = current =>
                    response'[current] \in {chunk'.last, LastFrame + 1}
               /\ chunk' # Js!Nothing /\ chunk'.of # current => response'[current] = 0
               /\ chunk' # Js!Nothing => Follows(current)'
    <3>1. CASE current = t
      <4>1. /\ Js!Live \subseteq {t} /\ result'[t] = BuiltFrom(r, n)
            /\ r = t => response[t] \in {chunk.last, LastFrame + 1}
            /\ r # t => response[t] = 0
            /\ t \in crossed \/ r = t
        BY <2>5, <2>7, <3>1
      <4>2. CASE n = chunk.last /\ chunk' = Js!Nothing
        BY <1>0, <1>1, <1>2, <2>3, <3>1, <4>1, <4>2
      <4>3. CASE /\ chunk' # Js!Nothing /\ chunk'.of = r
                 /\ chunk'.next = n + 1 /\ chunk'.last = chunk.last
        <5>1. chunk'.next - 1 = n
          BY <1>2, <4>3
        <5>2. result'[t] = BuiltFrom(chunk'.of, chunk'.next - 1)
          BY <4>1, <4>3, <5>1
        <5>3. Follows(current)'
          <6>1. crossed' = crossed /\ current' = t
            BY <1>1, <3>1
          <6>2. current' \in crossed' \/ chunk'.of = current'
            BY <4>1, <4>3, <6>1
          <6>3. result'[current'] = BuiltFrom(chunk'.of, chunk'.next - 1)
            BY <5>2, <6>1
          <6>4. QED
            BY <6>2, <6>3 DEF Follows, BuiltFrom
        <5>4. QED
          BY <1>1, <2>3, <3>1, <4>1, <4>3, <5>3
      <4>4. QED
        BY <1>3, <4>2, <4>3
    <3>2. CASE current # t
      <4>1. /\ r # current /\ response[current] = 0 /\ Js!Live \subseteq {current}
            /\ n < chunk.last => current \in crossed /\ result'[current] = << >>
        BY <2>4, <2>7, <3>2
      <4>2. CASE n = chunk.last /\ chunk' = Js!Nothing
        BY <1>0, <1>1, <2>3, <4>1, <4>2
      <4>3. CASE n < chunk.last /\ chunk' # Js!Nothing /\ chunk'.of = r
        <5>1. Follows(current)'
          BY <1>1, <4>1, <4>3 DEF Follows
        <5>2. QED
          BY <1>1, <2>3, <4>1, <4>3, <5>1
      <4>4. QED
        BY <1>3, <4>2, <4>3
    <3>3. QED
      BY <3>1, <3>2
  <2>8. CurrentIsInOrder'
    BY <1>1, <2>6, <2>7 DEF CurrentIsInOrder, Js!Nothing, BuiltFrom
  <2>9. ToldIsInOrder'
    BY <1>1 DEF ToldIsInOrder
  <2>10. Js!ResolvedWithItsOwn'
    BY <1>1, <1>9, ResolvedStays
  <2>11. QED
    BY <1>0, <1>1, <1>9, <2>1, <2>2, <2>8, <2>9, <2>10 DEF JsIInv
<1>10. settling \subseteq {s \in StreamCall : promise[s] \in {"resolved", "rejected"}}
       /\ (current # NoCall => promise[current] = "open" \/ current \in settling)
  BY DEF JsIInv, Js!TypeOK
<1>11. CASE (promise[t] # "open" \/ current # t) /\ UNCHANGED << promise, settling, result >>
  BY <1>0, <1>4, <1>9, <1>10, <1>11
<1>12. ASSUME promise[t] = "open", current = t \/ n = LastFrame, Js!Handle(t, r, n)
       PROVE  JsIInv'
  <2>1. ASSUME NEW end \in {"resolved", "rejected"}, Js!Settle(t, end), UNCHANGED result,
               end = "resolved" => n = LastFrame
        PROVE  JsIInv'
    <3>1. /\ promise' \in [StreamCall -> {"none", "open", "resolved", "rejected"}]
          /\ promise'[t] = end /\ \A s \in StreamCall \ {t} : promise'[s] = promise[s]
          /\ settling' = settling \cup {t}
      BY <1>0, <1>2, <2>1 DEF Js!Settle
    <3>2. /\ settling' \subseteq {s \in StreamCall : promise'[s] \in {"resolved", "rejected"}}
          /\ current # NoCall => promise'[current] = "open" \/ current \in settling'
      BY <1>0, <1>2, <1>10, <3>1
    <3>3. n = LastFrame => BuiltFrom(r, n - 1) = Js!Whole(r)
      BY DEF BuiltFrom, Js!Whole
    <3>4. end = "resolved" => \/ result[t] = Js!Whole(t)
                              \/ /\ t \in crossed
                                 /\ transport = "http" => \/ result[t] = << >>
                                                          \/ \E s \in StreamCall : result[t] = Js!Whole(s)
      <4>1. CASE Orderly(t)
        BY <1>0, <1>2, <1>4, <1>12, <2>1, <3>3, <4>1
      <4>2. CASE ~Orderly(t)
        BY <4>2 DEF Orderly
      <4>3. QED
        BY <4>1, <4>2
    <3>5. QED
      BY <1>0, <1>9, <2>1, <3>1, <3>2, <3>4
  <2>2. CASE n = LastFrame
    BY <1>12, <2>1, <2>2 DEF Js!Handle
  <2>3. CASE n # LastFrame /\ n > 1 /\ result[t] = << >>
    BY <1>12, <2>1, <2>3 DEF Js!Handle
  <2>4. CASE n # LastFrame /\ ~(n > 1 /\ result[t] = << >>)
    <3> DEFINE frames == IF n = 1 THEN << << r, 1 >> >> ELSE Append(result[t], << r, n >>)
    <3>1. current = t /\ UNCHANGED << promise, settling >> /\ result' = [result EXCEPT ![t] = frames]
      BY <1>12, <2>4 DEF Js!Handle
    <3>2. frames \in Seq(StreamCall \X (1 .. LastFrame))
      <4>1. << r, n >> \in StreamCall \X (1 .. LastFrame)
        BY <1>2
      <4>2. n = 1 => << << r, n >> >> \in Seq(StreamCall \X (1 .. LastFrame))
        BY <4>1
      <4>3. result[t] \in Seq(StreamCall \X (1 .. LastFrame))
        BY <1>0, <1>2
      <4>4. Append(result[t], << r, n >>) \in Seq(StreamCall \X (1 .. LastFrame))
        BY <4>1, <4>3
      <4>5. QED
        BY <4>2, <4>4
    <3>3. Orderly(t) => frames = BuiltFrom(r, n)
      <4>1. CASE n = 1
        BY <4>1, BuiltFromFirst
      <4>2. CASE n # 1
        <5>1. n > 1 /\ n - 1 \in Nat /\ (n - 1) + 1 = n
          BY <1>2, <4>2
        <5>2. Append(BuiltFrom(r, n - 1), << r, n >>) = BuiltFrom(r, n)
          BY <5>1, BuiltFromNext
        <5>3. QED
          BY <1>4, <1>12, <2>4, <4>2, <5>1, <5>2
      <4>3. QED
        BY <4>1, <4>2
    <3> HIDE DEF frames
    <3>4. /\ result' \in [StreamCall -> Seq(StreamCall \X (1 .. LastFrame))]
          /\ result'[t] = frames /\ \A s \in StreamCall \ {t} : result'[s] = result[s]
      BY <1>0, <1>2, <3>1, <3>2
    <3>5. QED
      BY <1>0, <1>4, <1>9, <1>10, <1>12, <3>1, <3>3, <3>4
  <2>5. QED
    BY <2>2, <2>3, <2>4
<1>13. QED
  BY <1>1, <1>11, <1>12 DEF t, r, n

\* A call that settles otherwise is no longer served, and the response that
\* breaks off or begins again is at its beginning or its end.
LEMMA JsSettles ==
  ASSUME JsIInv, NEW s \in StreamCall, chunk = Js!Nothing,
         \/ UNCHANGED << promise, settling >>
         \/ promise[s] = "open" /\ Js!Settle(s, "rejected"),
         \/ response' = response
         \/ /\ promise[s] # "none"
            /\ response' = [response EXCEPT ![s] = LastFrame + 1]
         \/ /\ s \in Js!Live
            /\ response' = [response EXCEPT ![s] = 0],
         UNCHANGED << transport, current, chunk, told, result, crossed >>
  PROVE  JsIInv'
<1>0. /\ current \in StreamCall \cup {NoCall}
      /\ promise \in [StreamCall -> {"none", "open", "resolved", "rejected"}]
      /\ response \in [StreamCall -> 0 .. LastFrame + 1]
      /\ told = NoCall
      /\ Js!Live = {r \in StreamCall : promise[r] # "none" /\ response[r] # LastFrame + 1}
      /\ LastFrame \in Nat /\ LastFrame > 1 /\ NoCall \notin StreamCall
  BY JsTypes
<1>1. /\ promise' \in [StreamCall -> {"none", "open", "resolved", "rejected"}]
      /\ \A r \in StreamCall : \/ promise'[r] = promise[r]
                               \/ promise[r] = "open" /\ promise'[r] = "rejected"
  BY <1>0 DEF Js!Settle
<1>2. /\ settling' \subseteq {r \in StreamCall : promise'[r] \in {"resolved", "rejected"}}
      /\ current # NoCall => promise'[current] = "open" \/ current \in settling'
  <2>1. /\ settling \subseteq {r \in StreamCall : promise[r] \in {"resolved", "rejected"}}
        /\ current # NoCall => promise[current] = "open" \/ current \in settling
    BY DEF JsIInv, Js!TypeOK
  <2>2. CASE UNCHANGED << promise, settling >>
    BY <2>1, <2>2
  <2>3. CASE promise' = [promise EXCEPT ![s] = "rejected"] /\ settling' = settling \cup {s}
    BY <1>0, <2>1, <2>3
  <2>4. QED
    BY <2>2, <2>3 DEF Js!Settle
<1>3. /\ response' \in [StreamCall -> 0 .. LastFrame + 1]
      /\ \A r \in StreamCall : \/ response'[r] = response[r]
                               \/ promise[r] # "none" /\ response'[r] = LastFrame + 1
                               \/ r \in Js!Live /\ response'[r] = 0
  BY <1>0
<1>4. Js!TypeOK'
  BY <1>0, <1>1, <1>2, <1>3 DEF JsIInv, Js!TypeOK, Js!Over, Js!Nothing
<1>5. Beginnings'
  BY <1>0, <1>1, <1>3 DEF JsIInv, Beginnings, Js!Nothing
<1>6. Js!Live' \subseteq Js!Live
  BY <1>0, <1>1, <1>3 DEF Js!Live, Js!Over
<1>7. CurrentIsInOrder'
  <2>1. ASSUME current # NoCall, promise'[current] = "open", Orderly(current)
        PROVE  /\ Js!Live' \subseteq {current}
               /\ response'[current] \in 1 .. LastFrame - 1 =>
                    result[current] = BuiltFrom(current, response'[current])
    <3>1. /\ Js!Live \subseteq {current}
          /\ response[current] \in 1 .. LastFrame - 1 =>
               result[current] = BuiltFrom(current, response[current])
      BY <1>0, <1>1, <2>1 DEF JsIInv, CurrentIsInOrder
    <3>2. response'[current] \in {response[current], LastFrame + 1, 0}
      BY <1>0, <1>3, <2>1
    <3>3. QED
      BY <1>0, <1>6, <3>1, <3>2
  <2>2. /\ Orderly(current)' <=> Orderly(current)
        /\ chunk' = Js!Nothing /\ told' = NoCall
    BY <1>0 DEF Orderly
  <2>3. QED
    BY <2>1, <2>2 DEF CurrentIsInOrder, Js!Nothing, BuiltFrom
<1>8. ToldIsInOrder'
  BY <1>0 DEF ToldIsInOrder
<1>9. Js!ResolvedWithItsOwn'
  BY <1>1, ResolvedStays
<1>10. QED
  BY <1>4, <1>5, <1>7, <1>8, <1>9 DEF JsIInv

\* No stream is current after `finally` and after disconnect().
LEMMA JsForgets ==
  ASSUME JsIInv, chunk = Js!Nothing, current' = NoCall, settling' \subseteq settling,
         response' = response \/ Js!Disconnect,
         UNCHANGED << transport, promise, chunk, told, result, crossed >>
  PROVE  JsIInv'
<1>0. /\ response \in [StreamCall -> 0 .. LastFrame + 1]
      /\ told = NoCall
      /\ Js!Live = {r \in StreamCall : promise[r] # "none" /\ response[r] # LastFrame + 1}
      /\ LastFrame \in Nat /\ LastFrame > 1 /\ NoCall \notin StreamCall
  BY JsTypes
<1>1. /\ response' \in [StreamCall -> 0 .. LastFrame + 1]
      /\ \A r \in StreamCall : promise[r] = "none" => response'[r] = response[r]
  BY <1>0 DEF Js!Disconnect, Js!Over
<1>2. Js!TypeOK'
  BY <1>0, <1>1 DEF JsIInv, Js!TypeOK, Js!Over, Js!Nothing
<1>3. Beginnings'
  BY <1>0, <1>1 DEF JsIInv, Beginnings, Js!Nothing
<1>4. CurrentIsInOrder' /\ ToldIsInOrder'
  BY <1>0 DEF CurrentIsInOrder, ToldIsInOrder
<1>5. Js!ResolvedWithItsOwn'
  BY ResolvedStays
<1>6. QED
  BY <1>2, <1>3, <1>4, <1>5 DEF JsIInv

\* Every step of the client keeps the invariant.
LEMMA JsStep ==
  ASSUME JsIInv, Js!Next
  PROVE  JsIInv'
<1>1. ASSUME NEW s \in StreamCall, Js!Break(s)
      PROVE  JsIInv'
  <2>1. promise[s] # "none" /\ chunk = Js!Nothing
        /\ response' = [response EXCEPT ![s] = LastFrame + 1]
    BY <1>1 DEF Js!Break, Js!Live, Js!Over
  <2>2. QED
    BY <1>1, <2>1, JsSettles DEF Js!Break
<1>2. ASSUME NEW s \in StreamCall, Js!Reconnect(s)
      PROVE  JsIInv'
  BY <1>2, JsSettles DEF Js!Reconnect
<1>3. ASSUME NEW s \in StreamCall, Js!Timeout(s)
      PROVE  JsIInv'
  BY <1>3, JsSettles DEF Js!Timeout
<1>4. ASSUME NEW s \in StreamCall, Js!Finally(s)
      PROVE  JsIInv'
  BY <1>4, JsForgets DEF Js!Finally
<1>5. ASSUME Js!Disconnect
      PROVE  JsIInv'
  BY <1>5, JsForgets DEF Js!Disconnect
<1>6. QED
  BY <1>1, <1>2, <1>3, <1>4, <1>5, JsStream, JsReceive, JsAnnounce, JsDeliver
     DEF Js!Next, Js!Run

\* At the start nothing has been asked for.
LEMMA JsInit ==
  ASSUME Js!Init
  PROVE  JsIInv
<1> USE DEF Js!Init
<1>1. Js!TypeOK
  BY JsAssumption DEF Js!TypeOK, Js!Over
<1>2. << >> \in Seq(StreamCall \X (1 .. LastFrame))
  OBVIOUS
<1>3. QED
  BY <1>1, <1>2
     DEF JsIInv, Beginnings, CurrentIsInOrder, ToldIsInOrder, Js!ResolvedWithItsOwn

-----------------------------------------------------------------------------
(* Its sockets *)

\* Sockets and timers are as many as can be told apart, and so are attempts,
\* whose bound several sockets share.
CountsAreBounded ==
  /\ timers \in Nat /\ attempts \in Nat
  /\ Cardinality(Wires!Alive) + timers < Cardinality(Socket)
  /\ attempts + timers < MaxReconnectAttempts + Cardinality(Socket)

\* There is one socket or one timer or neither; the socket is `ws` for as long
\* as it is of any use, and no connect() waits for another.
OneAtATime ==
  /\ \/ Wires!Alive = {} /\ timers <= 1
     \/ timers = 0 /\ \E s \in Socket : Wires!Alive = {s}
  /\ \A s \in Socket : wsSockets[s].is \in {"connecting", "open"} => ws = s
  /\ ~hanging

Live == [is : {"connecting", "open", "closing", "cancelled"}, opener : {"client", "timer"}]

\* The fields are those of one socket for as long as no connection is begun
\* beside another.
WiresIInv ==
  /\ wsSockets \in [Socket -> Live \cup {Wires!Closed}]
  /\ ws \in Socket \cup {NoSocket}
  /\ opened => \E s \in Socket : wsSockets[s].is = "open"
  /\ CountsAreBounded
  /\ ~doubled => OneAtATime

\* The sockets that are alive are finitely many.
LEMMA AliveIsFinite ==
  IsFiniteSet(Wires!Alive) /\ Cardinality(Wires!Alive) \in Nat /\ Cardinality(Socket) \in Nat
<1>1. Wires!Alive \subseteq Socket
  BY DEF Wires!Alive
<1>2. QED
  BY <1>1, FS_Subset, FS_CardinalityType, WiresAssumption

\* A socket that is alive is known by what it does.
LEMMA AliveIsLive ==
  ASSUME WiresIInv, NEW s \in Socket
  PROVE  /\ s \in Wires!Alive <=> wsSockets[s].is # "closed"
         /\ s \in Wires!Alive <=> wsSockets[s] \in Live
BY DEF WiresIInv, Wires!Alive, Wires!Closed, Live

\* What is moved from one counter to another keeps their bound.
LEMMA SumStaysBelow ==
  \A a, b, m, n, k, l \in Nat : a + b <= m + n /\ m + n < k + l => a + b < k + l
OBVIOUS

\* A connection is begun: one more is alive, and it is `ws`.
LEMMA BeginStep ==
  ASSUME WiresIInv, NEW s \in Socket, NEW opener \in {"client", "timer"},
         Wires!Begin(s, opener), UNCHANGED << opened, hanging >>,
         timers' \in Nat, attempts' \in Nat,
         timers' <= timers, attempts' + timers' <= attempts + timers,
         Cardinality(Wires!Alive) + 1 + timers' < Cardinality(Socket),
         ~doubled' => ~doubled /\ Wires!Alive = {} /\ timers' = 0
  PROVE  WiresIInv'
<1>1. /\ wsSockets[s] = Wires!Closed /\ ws' = s
      /\ wsSockets' = [wsSockets EXCEPT ![s] = [is |-> "connecting", opener |-> opener]]
      /\ wsSockets \in [Socket -> Live \cup {Wires!Closed}]
  BY DEF Wires!Begin, WiresIInv
<1>2. [is |-> "connecting", opener |-> opener] \in Live
  BY DEF Live
<1>3. /\ wsSockets' \in [Socket -> Live \cup {Wires!Closed}]
      /\ wsSockets'[s] = [is |-> "connecting", opener |-> opener]
      /\ \A r \in Socket \ {s} : wsSockets'[r] = wsSockets[r]
  BY <1>1, <1>2
<1>4. s \notin Wires!Alive /\ Wires!Alive' = Wires!Alive \cup {s}
  BY <1>1, <1>3 DEF Wires!Alive, Wires!Closed
<1>5. Cardinality(Wires!Alive') = Cardinality(Wires!Alive) + 1
  BY <1>4, AliveIsFinite, FS_AddElement
<1>6. CountsAreBounded'
  <2>1. /\ timers \in Nat /\ attempts \in Nat
        /\ attempts + timers < MaxReconnectAttempts + Cardinality(Socket)
    BY DEF CountsAreBounded, WiresIInv
  <2>2. attempts' + timers' < MaxReconnectAttempts + Cardinality(Socket)
    BY <2>1, AliveIsFinite, WiresAssumption, SumStaysBelow
  <2>3. Cardinality(Wires!Alive') + timers' < Cardinality(Socket)
    BY <1>5, AliveIsFinite
  <2>4. QED
    BY <2>2, <2>3 DEF CountsAreBounded
<1>7. opened' => \E r \in Socket : wsSockets'[r].is = "open"
  BY <1>1, <1>3 DEF WiresIInv, Wires!Closed
<1>8. ASSUME ~doubled'
      PROVE  OneAtATime'
  <2>1. ~doubled /\ Wires!Alive = {} /\ timers' = 0
    BY <1>8
  <2>2. Wires!Alive' = {s} /\ ~hanging'
    BY <1>4, <2>1 DEF WiresIInv, OneAtATime
  <2>3. \A r \in Socket \ {s} : wsSockets'[r].is = "closed"
    BY <1>3, <2>1 DEF Wires!Alive, Wires!Closed
  <2>4. QED
    BY <1>1, <2>1, <2>2, <2>3 DEF OneAtATime
<1>9. QED
  BY <1>1, <1>3, <1>6, <1>7, <1>8 DEF WiresIInv

\* A socket goes: one less is alive, and at most one timer more.
LEMMA GoesStep ==
  ASSUME WiresIInv, NEW s \in Wires!Alive,
         wsSockets' = [wsSockets EXCEPT ![s] = Wires!Closed], opened' = FALSE,
         \/ UNCHANGED timers
         \/ attempts < MaxReconnectAttempts /\ timers' = timers + 1,
         UNCHANGED << ws, attempts, doubled >>,
         ~doubled => ~hanging'
  PROVE  WiresIInv'
<1>1. /\ s \in Socket /\ wsSockets \in [Socket -> Live \cup {Wires!Closed}]
      /\ timers \in Nat /\ attempts \in Nat
      /\ Cardinality(Wires!Alive) + timers < Cardinality(Socket)
      /\ attempts + timers < MaxReconnectAttempts + Cardinality(Socket)
  BY DEF Wires!Alive, WiresIInv, CountsAreBounded
<1>2. /\ wsSockets' \in [Socket -> Live \cup {Wires!Closed}] /\ wsSockets'[s] = Wires!Closed
      /\ \A r \in Socket \ {s} : wsSockets'[r] = wsSockets[r]
  BY <1>1
<1>3. Wires!Alive' = Wires!Alive \ {s}
  BY <1>1, <1>2 DEF Wires!Alive, Wires!Closed
<1>4. Cardinality(Wires!Alive') = Cardinality(Wires!Alive) - 1
  BY <1>3, AliveIsFinite, FS_RemoveElement
<1>5. Cardinality(Wires!Alive) # 0
  BY AliveIsFinite, FS_EmptySet
<1>6. CountsAreBounded'
  BY <1>1, <1>4, <1>5, AliveIsFinite, WiresAssumption DEF CountsAreBounded
<1>7. ASSUME ~doubled'
      PROVE  OneAtATime'
  <2>1. OneAtATime
    BY <1>7 DEF WiresIInv
  <2>2. Wires!Alive = {s} /\ timers = 0
    BY <2>1 DEF OneAtATime
  <2>3. Wires!Alive' = {} /\ timers' <= 1
    BY <1>3, <2>2
  <2>4. \A r \in Socket : wsSockets'[r].is = "closed"
    BY <2>3 DEF Wires!Alive, Wires!Closed
  <2>5. QED
    BY <1>7, <2>3, <2>4 DEF OneAtATime
<1>8. QED
  BY <1>2, <1>6, <1>7 DEF WiresIInv

\* Every step of the transport and of the client around it keeps the invariant.
LEMMA WiresStep ==
  ASSUME WiresIInv, Wires!Next
  PROVE  WiresIInv'
<1>0. /\ wsSockets \in [Socket -> Live \cup {Wires!Closed}]
      /\ timers \in Nat /\ attempts \in Nat
      /\ Cardinality(Wires!Alive) + timers < Cardinality(Socket)
  BY DEF WiresIInv, CountsAreBounded
<1>c. \A S : Wires!Cardinality(S) = Cardinality(S)
  BY DEF Wires!Cardinality, Cardinality
<1>1. ASSUME NEW s \in Socket, Wires!Connect(s)
      PROVE  WiresIInv'
  <2>1. /\ Wires!Begin(s, "client") /\ UNCHANGED << opened, attempts, timers, hanging >>
        /\ doubled' = (doubled \/ Wires!Alive # {} \/ timers > 0)
        /\ Cardinality(Wires!Alive) + timers < Cardinality(Socket) - 1
    BY <1>c, <1>1 DEF Wires!Connect
  <2>2. ~doubled' => ~doubled /\ Wires!Alive = {} /\ ~(timers > 0)
    BY <2>1
  <2>3. ~(timers > 0) => timers = 0
    BY <1>0
  <2>4. QED
    BY <1>0, <2>1, <2>2, <2>3, AliveIsFinite, BeginStep
<1>2. ASSUME NEW s \in Socket, Wires!Reconnect(s)
      PROVE  WiresIInv'
  <2>1. /\ Wires!Begin(s, "timer") /\ UNCHANGED << opened, hanging >>
        /\ timers > 0 /\ timers' = timers - 1 /\ attempts' = attempts + 1
        /\ doubled' = (doubled \/ Wires!Alive # {} \/ timers > 1)
    BY <1>2 DEF Wires!Reconnect
  <2>2. ~doubled' => ~doubled /\ Wires!Alive = {} /\ ~(timers > 1)
    BY <2>1
  <2>3. ~(timers > 1) => timers' = 0
    BY <1>0, <2>1
  <2>4. QED
    BY <1>0, <2>1, <2>2, <2>3, AliveIsFinite, BeginStep
<1>3. ASSUME NEW s \in Socket, Wires!Open(s)
      PROVE  WiresIInv'
  <2>1. /\ wsSockets[s].is = "connecting" /\ attempts' = 0
        /\ wsSockets' = [wsSockets EXCEPT ![s] = [@ EXCEPT !.is = "open"]]
        /\ UNCHANGED << ws, timers, doubled, hanging >>
    BY <1>3 DEF Wires!Open
  <2>2. wsSockets[s] \in Live /\ s \in Wires!Alive
    BY <2>1, AliveIsLive
  <2>3. /\ [wsSockets[s] EXCEPT !.is = "open"] \in Live
        /\ [wsSockets[s] EXCEPT !.is = "open"].is = "open"
    BY <2>2 DEF Live
  <2>4. /\ wsSockets' \in [Socket -> Live \cup {Wires!Closed}] /\ wsSockets'[s].is = "open"
        /\ \A r \in Socket \ {s} : wsSockets'[r] = wsSockets[r]
    BY <1>0, <2>1, <2>3
  <2>5. Wires!Alive' = Wires!Alive
    BY <2>2, <2>4 DEF Wires!Alive, Wires!Closed
  <2>6. CountsAreBounded'
    BY <1>0, <2>1, <2>5, AliveIsFinite, WiresAssumption DEF CountsAreBounded
  <2>7. ~doubled' => OneAtATime'
    BY <2>1, <2>4, <2>5 DEF WiresIInv, OneAtATime
  <2>8. QED
    BY <2>1, <2>4, <2>6, <2>7 DEF WiresIInv
<1>4. ASSUME NEW s \in Socket, wsSockets[s].is # "closed",
             Wires!OnNormalClose(s) \/ (\E tell \in BOOLEAN : Wires!OnClose(s, tell)),
             UNCHANGED << ws, attempts, doubled >>, ~doubled => ~hanging'
      PROVE  WiresIInv'
  <2>1. s \in Wires!Alive
    BY <1>4, AliveIsLive
  <2>2. /\ wsSockets' = [wsSockets EXCEPT ![s] = Wires!Closed] /\ opened' = FALSE
        /\ \/ UNCHANGED timers
           \/ attempts < MaxReconnectAttempts /\ timers' = timers + 1
    BY <1>4 DEF Wires!OnClose, Wires!OnNormalClose
  <2>3. QED
    BY <1>4, <2>1, <2>2, GoesStep
<1>5. ASSUME NEW s \in Socket, Wires!Refuse(s)
      PROVE  WiresIInv'
  <2>1. /\ wsSockets[s].is \in {"connecting", "cancelled"}
        /\ \E tell \in BOOLEAN : Wires!OnClose(s, tell)
        /\ hanging' = (hanging \/ (opened /\ wsSockets[s].opener = "client"))
        /\ UNCHANGED << ws, attempts, doubled >>
    <3>1. (wsSockets[s].opener = "timer" /\ ~opened) \in BOOLEAN
      OBVIOUS
    <3>2. QED
      BY <1>5, <3>1 DEF Wires!Refuse
  <2>2. ASSUME ~doubled
        PROVE  ~opened /\ ~hanging
    <3>1. OneAtATime
      BY <2>2 DEF WiresIInv
    <3>2. s \in Wires!Alive
      BY <2>1, AliveIsLive
    <3>3. \A r \in Socket : wsSockets[r].is = "open" => r = s
      BY <3>1, <3>2, AliveIsLive DEF OneAtATime
    <3>4. QED
      BY <2>1, <3>1, <3>3 DEF WiresIInv, OneAtATime
  <2>3. QED
    BY <1>4, <2>1, <2>2
<1>6. ASSUME NEW s \in Socket, Wires!Drop(s) \/ Wires!Close(s)
      PROVE  WiresIInv'
  <2>1. /\ wsSockets[s].is \in {"open", "closing"}
        /\ UNCHANGED << ws, attempts, doubled, hanging >>
        /\ Wires!OnNormalClose(s) \/ Wires!OnClose(s, FALSE)
    BY <1>6 DEF Wires!Drop, Wires!Close
  <2>2. ~doubled => ~hanging'
    BY <2>1 DEF WiresIInv, OneAtATime
  <2>3. QED
    BY <1>4, <2>1, <2>2
<1>7. ASSUME Wires!Disconnect
      PROVE  WiresIInv'
  <2> DEFINE left == CASE wsSockets[ws].is = "open"       -> [wsSockets[ws] EXCEPT !.is = "closing"]
                       [] wsSockets[ws].is = "connecting" -> [wsSockets[ws] EXCEPT !.is = "cancelled"]
                       [] OTHER                           -> wsSockets[ws]
  <2>1. /\ wsSockets' = [s \in Socket |-> IF s # ws THEN wsSockets[s] ELSE left]
        /\ ws' = NoSocket /\ opened' = FALSE
        /\ UNCHANGED << attempts, timers, doubled, hanging >>
    BY <1>7 DEF Wires!Disconnect
  <2>2. ASSUME ws \in Socket
        PROVE  /\ left \in Live \cup {Wires!Closed}
               /\ left.is \notin {"connecting", "open"}
               /\ left = Wires!Closed <=> wsSockets[ws] = Wires!Closed
    <3>1. wsSockets[ws] \in Live \cup {Wires!Closed}
      BY <1>0, <2>2
    <3>2. QED
      BY <3>1 DEF Live, Wires!Closed
  <2> HIDE DEF left
  <2>3. /\ wsSockets' \in [Socket -> Live \cup {Wires!Closed}]
        /\ \A s \in Socket : wsSockets'[s] = IF s # ws THEN wsSockets[s] ELSE left
    BY <1>0, <2>1, <2>2
  <2>4. Wires!Alive' = Wires!Alive
    BY <2>2, <2>3 DEF Wires!Alive, Wires!Closed
  <2>5. CountsAreBounded'
    BY <2>1, <2>4 DEF CountsAreBounded, WiresIInv
  <2>6. ~doubled' => OneAtATime'
    BY <2>1, <2>2, <2>3, <2>4 DEF WiresIInv, OneAtATime
  <2>7. QED
    BY <2>1, <2>3, <2>5, <2>6 DEF WiresIInv
<1>8. QED
  BY <1>1, <1>2, <1>3, <1>5, <1>6, <1>7 DEF Wires!Next

\* At the start no socket is alive and no timer runs.
LEMMA WiresInit ==
  ASSUME Wires!Init
  PROVE  WiresIInv
<1> USE DEF Wires!Init
<1>1. Wires!Alive = {} /\ \A s \in Socket : wsSockets[s] = Wires!Closed
  BY DEF Wires!Alive
<1>2. Cardinality(Wires!Alive) = 0 /\ Cardinality(Socket) > 0
  BY <1>1, AliveIsFinite, FS_EmptySet, WiresAssumption
<1>3. CountsAreBounded
  BY <1>2, AliveIsFinite, WiresAssumption DEF CountsAreBounded
<1>4. OneAtATime
  BY <1>1 DEF OneAtATime, Wires!Closed
<1>5. QED
  BY <1>1, <1>3, <1>4 DEF WiresIInv

\* What the transport keeps track of is what it calls connected.
LEMMA UsableWhileOneAtATime == WiresIInv => Wires!ConnectedIsUsable
<1> SUFFICES ASSUME WiresIInv, ~doubled
             PROVE  /\ opened /\ online => wsSockets[ws].is = "open"
                    /\ Wires!Cardinality(Wires!Alive) + timers <= 1
                    /\ ~hanging
  BY DEF Wires!ConnectedIsUsable
<1>1. OneAtATime /\ timers \in Nat
  BY DEF WiresIInv, CountsAreBounded
<1>2. opened => wsSockets[ws].is = "open"
  BY <1>1 DEF WiresIInv, OneAtATime
<1>3. Cardinality(Wires!Alive) + timers <= 1
  BY <1>1, FS_EmptySet, FS_Singleton DEF OneAtATime
<1>4. Wires!Cardinality(Wires!Alive) = Cardinality(Wires!Alive)
  BY DEF Wires!Cardinality, Cardinality
<1>5. QED
  BY <1>1, <1>2, <1>3, <1>4 DEF OneAtATime

-----------------------------------------------------------------------------
(* The JavaScript client as a whole *)

\* A step of the whole is one of the part exercised.
LEMMA JsAlone ==
  ASSUME JsIInv, WiresIInv, [Next]_vars
  PROVE  JsIInv' /\ WiresIInv'
<1>1. CASE Js!Next /\ UNCHANGED wireVars
  <2>1. WiresIInv'
    BY <1>1 DEF wireVars, WiresIInv, CountsAreBounded, OneAtATime, Wires!Alive
  <2>2. QED
    BY <1>1, <2>1, JsStep
<1>2. CASE UNCHANGED jsVars
  <2>1. JsIInv'
    BY <1>2 DEF jsVars, JsIInv, Beginnings, CurrentIsInOrder, ToldIsInOrder, Orderly, Follows,
                Js!TypeOK, Js!ResolvedWithItsOwn, Js!Live, Js!Nothing, Js!Whole
  <2>2. CASE UNCHANGED wireVars
    BY <2>1, <2>2 DEF wireVars, WiresIInv, CountsAreBounded, OneAtATime, Wires!Alive
  <2>3. CASE Wires!Next
    BY <2>1, <2>3, WiresStep
  <2>4. QED
    BY <1>2, <2>2, <2>3 DEF Next, vars, wireVars, jsVars
<1>3. QED
  BY <1>1, <1>2 DEF Next, vars

\* The client's streams and sockets keep their invariants.
LEMMA JsAlways == Spec => [](JsIInv /\ WiresIInv)
<1>1. Init => JsIInv /\ WiresIInv
  BY JsInit, WiresInit DEF Init
<1>2. JsIInv /\ WiresIInv /\ [Next]_vars => (JsIInv /\ WiresIInv)'
  BY JsAlone
<1>3. QED
  BY <1>1, <1>2, PTL DEF Spec

\* PJSClient.stream(): a call that resolves is given its own response, whole
\* and in order, unless it was made while a WebSocket was carrying another
\* response, or that of another such call, or over HTTP while a chunk of another
\* was being handed out, and then it is given a whole response or nothing; and
\* a socket that is called connected can be sent on, unless a connection was
\* begun beside another.
THEOREM ResolvedIsItsOwn == Spec => []ResolvedWithItsOwn
<1>1. JsIInv /\ WiresIInv => ResolvedWithItsOwn
  BY UsableWhileOneAtATime DEF JsIInv, ResolvedWithItsOwn
<1>2. QED
  BY <1>1, JsAlways, PTL

-----------------------------------------------------------------------------
(* The WebSocket transport *)

FrameOf(s)  == [kind |-> "StreamFrame", session |-> s]
AckOf(s)    == [kind |-> "FrameAck", session |-> s]
StreamInit  == [kind |-> "StreamInit"]
FromClient  == {StreamInit} \cup {AckOf(s) : s \in SessionId}
SocketEnd    == [state : {"new", "open", "closed"}, next : Nat, hears : BOOLEAN]

\* A session's frame has been broadcast or lost.
HasGone(s) == task[s] \in {"StreamComplete", "done"}

\* Client c has got the frame of s, or will get it.
Gets(c, s) == c \in delivered[s] \/ \E i \in DOMAIN down[c] : down[c][i] = FrameOf(s)

SocketTypes ==
  /\ connections \subseteq SessionId
  /\ idle \in Nat
  /\ task \in [SessionId -> {"new", "StreamFrame", "StreamComplete", "done"}]
  /\ sent \in Seq(Sockets!Message)
  /\ down \in [Client -> Seq(Sockets!Message)]
  /\ up \in [Client -> Seq(FromClient)]
  /\ requested \in [Client -> 0 .. MaxRequests]
  /\ acks \in [SessionId -> Nat]
  /\ delivered \in [SessionId -> SUBSET Client]
  /\ socket \in [Client -> SocketEnd]
  /\ \A c \in Client : socket[c].next \in 1 .. Len(sent) + 1

\* Each frame is broadcast once, by the task that is at it.
SentOnce ==
  \A s \in SessionId :
    /\ \A i, j \in DOMAIN sent : sent[i] = FrameOf(s) /\ sent[j] = FrameOf(s) => i = j
    /\ \A i \in DOMAIN sent : sent[i] = FrameOf(s) => HasGone(s)

\* A client gets a frame once: it is not in the channel before it, nor twice
\* on its way.
GotOnce ==
  \A c \in Client, s \in SessionId :
    /\ \A i, j \in DOMAIN down[c] : down[c][i] = FrameOf(s) /\ down[c][j] = FrameOf(s) => i = j
    /\ c \in delivered[s] => \A i \in DOMAIN down[c] : down[c][i] # FrameOf(s)
    /\ Gets(c, s) => HasGone(s)
    /\ Gets(c, s) /\ socket[c].state = "open" =>
         \A i \in DOMAIN sent : sent[i] = FrameOf(s) => i < socket[c].next

\* What a client has got it acknowledges once.
AckedOnce ==
  \A c \in Client, s \in SessionId :
    /\ \A i, j \in DOMAIN up[c] : up[c][i] = AckOf(s) /\ up[c][j] = AckOf(s) => i = j
    /\ \A i \in DOMAIN up[c] : up[c][i] = AckOf(s) => c \in delivered[s]

\* The clients whose acknowledgement of s is under way
Acking(s) == {c \in Client : \E i \in DOMAIN up[c] : up[c][i] = AckOf(s)}

AcksAreCounted ==
  \A s \in SessionId : acks[s] + Cardinality(Acking(s)) <= Cardinality(delivered[s])

\* What the clients have asked for, and what of it is under way
Asked   == {p \in Client \X (1 .. MaxRequests) : p[2] <= requested[p[1]]}
Waiting == {p \in Client \X Nat : p[2] \in DOMAIN up[p[1]] /\ up[p[1]][p[2]] = StreamInit}

RequestsAreCounted ==
  IsFiniteSet(Waiting) /\ idle + Cardinality(Waiting) <= Cardinality(Asked)

SocketsIInv ==
  /\ SocketTypes /\ SentOnce /\ GotOnce /\ AckedOnce
  /\ AcksAreCounted /\ RequestsAreCounted

\* A sequence without its head
LEMMA Headless ==
  ASSUME NEW S, NEW s \in Seq(S), s # << >>
  PROVE  /\ Tail(s) \in Seq(S) /\ Head(s) = s[1] /\ 1 \in DOMAIN s /\ s[1] \in S
         /\ \A i \in DOMAIN Tail(s) : i + 1 \in DOMAIN s /\ Tail(s)[i] = s[i + 1]
         /\ \A i \in DOMAIN s : i # 1 => i - 1 \in DOMAIN Tail(s)
OBVIOUS

\* A sequence with one more element
LEMMA Lengthened ==
  ASSUME NEW S, NEW s \in Seq(S), NEW x \in S
  PROVE  /\ Append(s, x) \in Seq(S)
         /\ DOMAIN Append(s, x) = DOMAIN s \cup {Len(s) + 1} /\ Len(s) + 1 \notin DOMAIN s
         /\ \A i \in DOMAIN s : Append(s, x)[i] = s[i]
         /\ Append(s, x)[Len(s) + 1] = x
         /\ DOMAIN s = 1 .. Len(s) /\ Len(s) \in Nat /\ Len(Append(s, x)) = Len(s) + 1
OBVIOUS

\* The sets that are counted are finite.
LEMMA CountedAreFinite ==
  ASSUME SocketTypes
  PROVE  /\ IsFiniteSet(Asked)
         /\ Cardinality(Asked) <= MaxRequests * Cardinality(Client)
         /\ \A s \in SessionId : IsFiniteSet(Acking(s)) /\ IsFiniteSet(delivered[s])
<1> DEFINE all == Client \X (1 .. MaxRequests)
<1>1. IsFiniteSet(1 .. MaxRequests) /\ Cardinality(1 .. MaxRequests) = MaxRequests
  <2>1. 1 \in Int /\ MaxRequests \in Int /\ MaxRequests \in Nat
    BY SocketsAssumption
  <2>2. QED
    BY <2>1, FS_Interval
<1>2. IsFiniteSet(all) /\ Cardinality(all) = Cardinality(Client) * MaxRequests
  BY <1>1, SocketsAssumption, FS_Product
<1>3. IsFiniteSet(Asked) /\ Cardinality(Asked) <= Cardinality(all)
  <2>1. Asked \subseteq all
    BY DEF Asked
  <2>2. QED
    BY <1>2, <2>1, FS_Subset
<1>4. Cardinality(Client) \in Nat /\ MaxRequests \in Nat /\ Cardinality(Asked) \in Nat
  BY <1>3, SocketsAssumption, FS_CardinalityType
<1>5. ASSUME NEW s \in SessionId
      PROVE  IsFiniteSet(Acking(s)) /\ IsFiniteSet(delivered[s])
  <2>1. Acking(s) \subseteq Client /\ delivered[s] \subseteq Client
    BY DEF Acking, SocketTypes
  <2>2. QED
    BY <2>1, SocketsAssumption, FS_Subset
<1> HIDE DEF all
<1>6. Cardinality(Client) * MaxRequests = MaxRequests * Cardinality(Client)
  BY <1>4
<1>7. QED
  BY <1>2, <1>3, <1>5, <1>6

\* A message is taken from the front of what a client has sent.
LEMMA WaitingIsShifted ==
  ASSUME NEW c \in Client, up \in [Client -> Seq(FromClient)], up[c] # << >>,
         IsFiniteSet(Waiting), up' = [up EXCEPT ![c] = Tail(up[c])]
  PROVE  /\ IsFiniteSet(Waiting') /\ Cardinality(Waiting') <= Cardinality(Waiting)
         /\ up[c][1] = StreamInit => Cardinality(Waiting') < Cardinality(Waiting)
<1> DEFINE first == << c, 1 >>
           W == IF up[c][1] = StreamInit THEN Waiting \ {first} ELSE Waiting
           f == [p \in W |-> IF p[1] = c THEN << c, p[2] - 1 >> ELSE p]
<1>1. /\ up[c] \in Seq(FromClient) /\ up'[c] = Tail(up[c])
      /\ \A d \in Client \ {c} : up'[d] = up[d]
  OBVIOUS
<1>2. /\ 1 \in DOMAIN up[c]
      /\ \A i \in DOMAIN up'[c] : i + 1 \in DOMAIN up[c] /\ up'[c][i] = up[c][i + 1]
      /\ \A i \in DOMAIN up[c] : i # 1 => i - 1 \in DOMAIN up'[c]
      /\ DOMAIN up[c] \subseteq Nat /\ DOMAIN up'[c] \subseteq Nat \ {0}
  BY <1>1, Headless
<1>3. /\ IsFiniteSet(W) /\ Cardinality(W) \in Nat /\ Cardinality(Waiting) \in Nat
      /\ IF up[c][1] = StreamInit THEN Cardinality(W) = Cardinality(Waiting) - 1
         ELSE Cardinality(W) = Cardinality(Waiting)
  <2>1. up[c][1] = StreamInit => first \in Waiting
    BY <1>2 DEF Waiting
  <2>2. IsFiniteSet(Waiting \ {first})
        /\ (first \in Waiting => Cardinality(Waiting \ {first}) = Cardinality(Waiting) - 1)
    BY FS_RemoveElement
  <2>3. QED
    BY <2>1, <2>2, FS_CardinalityType
<1>4. \A p \in W : p \in Client \X Nat /\ p[2] \in DOMAIN up[p[1]] /\ up[p[1]][p[2]] = StreamInit
                    /\ (p[1] = c => p[2] # 1)
  BY DEF Waiting
<1>5. \A p \in W : f[p] \in Waiting'
  <2> SUFFICES ASSUME NEW p \in W PROVE f[p] \in Waiting'
    OBVIOUS
  <2>1. CASE p[1] = c
    <3> DEFINE i == p[2] - 1
    <3>1. p[2] \in DOMAIN up[c] /\ p[2] # 1 /\ up[c][p[2]] = StreamInit /\ p[2] \in Nat
      BY <1>4, <2>1
    <3>2. i \in DOMAIN up'[c] /\ i \in Nat /\ i + 1 = p[2]
      BY <1>2, <3>1
    <3>3. up'[c][i] = StreamInit
      BY <1>2, <3>1, <3>2
    <3>4. << c, i >> \in Waiting'
      BY <3>2, <3>3 DEF Waiting, StreamInit
    <3>5. QED
      BY <2>1, <3>4
  <2>2. CASE p[1] # c
    <3>1. f[p] = p /\ up'[p[1]] = up[p[1]]
      BY <1>1, <1>4, <2>2
    <3>2. QED
      BY <1>4, <3>1 DEF Waiting, StreamInit
  <2>3. QED
    BY <2>1, <2>2
<1>6. \A q \in Waiting' : \E p \in W : f[p] = q
  <2> SUFFICES ASSUME NEW q \in Waiting' PROVE \E p \in W : f[p] = q
    OBVIOUS
  <2>1. q \in Client \X Nat /\ q[2] \in DOMAIN up'[q[1]] /\ up'[q[1]][q[2]] = StreamInit
    BY DEF Waiting, StreamInit
  <2>2. CASE q[1] = c
    <3> DEFINE i == q[2] + 1
               p == << c, i >>
    <3>1. q[2] \in DOMAIN up'[c] /\ q[2] \in Nat \ {0} /\ q = << c, q[2] >>
      BY <1>2, <2>1, <2>2
    <3>2. i \in DOMAIN up[c] /\ i \in Nat /\ i # 1 /\ i - 1 = q[2] /\ up[c][i] = up'[c][q[2]]
      BY <1>2, <3>1
    <3>3. p \in Waiting /\ p # first
      BY <2>1, <2>2, <3>2 DEF Waiting
    <3>4. p \in W
      BY <3>3
    <3>5. f[p] = q
      BY <3>1, <3>2, <3>4
    <3>6. QED
      BY <3>4, <3>5
  <2>3. CASE q[1] # c
    <3>1. up'[q[1]] = up[q[1]]
      BY <1>1, <2>1, <2>3
    <3>2. q \in Waiting /\ q # first
      BY <2>1, <2>3, <3>1 DEF Waiting
    <3>3. q \in W /\ f[q] = q
      BY <2>3, <3>2
    <3>4. QED
      BY <3>3
  <2>4. QED
    BY <2>2, <2>3
<1>7. f \in Surjection(W, Waiting')
  BY <1>5, <1>6 DEF Surjection
<1> HIDE DEF W, f
<1>8. IsFiniteSet(Waiting') /\ Cardinality(Waiting') <= Cardinality(W)
  BY <1>3, <1>7, FS_Surjection
<1>9. Cardinality(Waiting') \in Nat
  BY <1>8, FS_CardinalityType
<1>10. QED
  BY <1>3, <1>8, <1>9

\* Acknowledgements stand while nobody sends or takes one.
LEMMA AcksStand ==
  ASSUME SocketsIInv, UNCHANGED << acks, up, delivered >>
  PROVE  AckedOnce' /\ AcksAreCounted'
BY DEF SocketsIInv, AckedOnce, AcksAreCounted, Acking, AckOf

\* So do requests.
LEMMA RequestsStand ==
  ASSUME SocketsIInv, UNCHANGED << idle, up, requested >>
  PROVE  RequestsAreCounted'
BY DEF SocketsIInv, RequestsAreCounted, Asked, Waiting, StreamInit

\* A socket that hears no less of the channel's past gets nothing twice.
LEMMA FramesStand ==
  ASSUME SocketsIInv, UNCHANGED << task, sent, down, delivered >>,
         \A c \in Client : socket'[c].state = "open" =>
           \/ socket'[c].next = Len(sent) + 1
           \/ socket[c].state = "open" /\ socket'[c].next >= socket[c].next,
         SocketTypes'
  PROVE  SentOnce' /\ GotOnce'
<1>1. SentOnce'
  BY DEF SocketsIInv, SentOnce, HasGone, FrameOf
<1>2. ASSUME NEW c \in Client, NEW s \in SessionId
      PROVE  /\ \A i, j \in DOMAIN down'[c] :
                  down'[c][i] = FrameOf(s) /\ down'[c][j] = FrameOf(s) => i = j
             /\ c \in delivered'[s] => \A i \in DOMAIN down'[c] : down'[c][i] # FrameOf(s)
             /\ Gets(c, s)' => HasGone(s)'
             /\ Gets(c, s)' = Gets(c, s)
  BY DEF SocketsIInv, GotOnce, Gets, HasGone, FrameOf
<1>3. ASSUME NEW c \in Client, NEW s \in SessionId, Gets(c, s), socket'[c].state = "open",
             NEW i \in DOMAIN sent, sent[i] = FrameOf(s)
      PROVE  i < socket'[c].next
  <2>1. i \in 1 .. Len(sent) /\ Len(sent) \in Nat
    BY DEF SocketsIInv, SocketTypes
  <2>2. CASE socket'[c].next = Len(sent) + 1
    BY <2>1, <2>2
  <2>3. CASE socket[c].state = "open" /\ socket'[c].next >= socket[c].next
    <3>1. i < socket[c].next
      BY <1>3, <2>3 DEF SocketsIInv, GotOnce
    <3>2. socket[c].next \in Nat /\ socket'[c].next \in Nat
      BY DEF SocketsIInv, SocketTypes, SocketEnd
    <3>3. QED
      BY <2>1, <2>3, <3>1, <3>2
  <2>4. QED
    BY <1>3, <2>2, <2>3
<1>4. GotOnce'
  BY <1>2, <1>3 DEF GotOnce, FrameOf
<1>5. QED
  BY <1>1, <1>4

\* A stream is started, or its session expires: the task has sent nothing yet,
\* or goes on.
LEMMA ControllerStep ==
  ASSUME SocketsIInv, NEW s \in SessionId, Sockets!StartStream(s) \/ Sockets!Expire(s)
  PROVE  SocketsIInv'
<1>1. /\ connections' \subseteq SessionId
      /\ UNCHANGED << idle, sent, socket, down, up, requested, acks, delivered >>
      /\ task' \in [SessionId -> {"new", "StreamFrame", "StreamComplete", "done"}]
      /\ \A r \in SessionId : HasGone(r)' = HasGone(r)
  <2> USE DEF SocketsIInv, SocketTypes, HasGone
  <2>1. CASE Sockets!StartStream(s)
    <3>1. connections' \subseteq SessionId
      BY <2>1 DEF Sockets!StartStream
    <3>2. /\ task' = [task EXCEPT ![s] = "StreamFrame"] /\ task[s] = "new"
          /\ UNCHANGED << idle, sent, socket, down, up, requested, acks, delivered >>
      BY <2>1 DEF Sockets!StartStream
    <3>3. QED
      BY <3>1, <3>2
  <2>2. CASE Sockets!Expire(s)
    BY <2>2 DEF Sockets!Expire
  <2>3. QED
    BY <2>1, <2>2
<1>2. SocketTypes'
  BY <1>1 DEF SocketsIInv, SocketTypes
<1>3. SentOnce' /\ GotOnce'
  BY <1>1 DEF SocketsIInv, SentOnce, GotOnce, Gets, FrameOf
<1>4. QED
  BY <1>1, <1>2, <1>3, AcksStand, RequestsStand DEF SocketsIInv

\* The task of a session broadcasts its frame or its completion.
LEMMA BroadcastStep ==
  ASSUME SocketsIInv, NEW s \in SessionId, Sockets!Broadcast(s)
  PROVE  SocketsIInv'
<1> DEFINE message == [kind |-> task[s], session |-> s]
<1>1. /\ task[s] \in {"StreamFrame", "StreamComplete"}
      /\ sent' = Append(sent, message) \/ UNCHANGED sent
      /\ task' = [task EXCEPT ![s] = IF task[s] = "StreamFrame" THEN "StreamComplete" ELSE "done"]
      /\ UNCHANGED << connections, idle, socket, down, up, requested, acks, delivered >>
  BY DEF Sockets!Broadcast
<1>2. /\ message \in Sockets!Message
      /\ \A r \in SessionId : message = FrameOf(r) => r = s /\ task[s] = "StreamFrame"
  BY <1>1 DEF Sockets!Message, FrameOf
<1>3. sent \in Seq(Sockets!Message) /\ task \in [SessionId -> {"new", "StreamFrame", "StreamComplete", "done"}]
  BY DEF SocketsIInv, SocketTypes
<1>4. /\ task' \in [SessionId -> {"new", "StreamFrame", "StreamComplete", "done"}]
      /\ \A r \in SessionId : HasGone(r) => HasGone(r)'
      /\ HasGone(s)'
      /\ task[s] = "StreamFrame" => ~HasGone(s)
  BY <1>1, <1>3 DEF HasGone
<1> HIDE DEF message
<1>5. /\ sent' \in Seq(Sockets!Message) /\ Len(sent') >= Len(sent)
      /\ \A i \in DOMAIN sent' : \/ i \in DOMAIN sent /\ sent'[i] = sent[i]
                                 \/ i = Len(sent) + 1 /\ sent'[i] = message
      /\ DOMAIN sent = 1 .. Len(sent) /\ Len(sent) \in Nat
  <2>1. CASE sent' = Append(sent, message)
    BY <1>2, <1>3, <2>1, Lengthened
  <2>2. CASE UNCHANGED sent
    BY <1>3, <2>2
  <2>3. QED
    BY <1>1, <2>1, <2>2
<1>6. SocketTypes'
  <2>1. \A c \in Client : socket'[c].next \in 1 .. Len(sent') + 1
    <3> SUFFICES ASSUME NEW c \in Client PROVE socket'[c].next \in 1 .. Len(sent') + 1
      OBVIOUS
    <3>1. socket'[c].next \in 1 .. Len(sent) + 1 /\ Len(sent') \in Nat
      BY <1>1, <1>5 DEF SocketsIInv, SocketTypes
    <3>2. QED
      BY <1>5, <3>1
  <2>2. QED
    BY <1>1, <1>4, <1>5, <2>1 DEF SocketsIInv, SocketTypes
<1>7. ASSUME NEW r \in SessionId, NEW i \in DOMAIN sent', sent'[i] = FrameOf(r)
      PROVE  \/ i \in DOMAIN sent /\ sent[i] = FrameOf(r) /\ HasGone(r)
             \/ i = Len(sent) + 1 /\ r = s /\ ~HasGone(s)
  BY <1>2, <1>4, <1>5, <1>7 DEF SocketsIInv, SentOnce
<1>8. SentOnce'
  <2>1. ASSUME NEW r \in SessionId, NEW i \in DOMAIN sent', NEW j \in DOMAIN sent',
               sent'[i] = FrameOf(r), sent'[j] = FrameOf(r)
        PROVE  i = j
    BY <1>7, <2>1 DEF SocketsIInv, SentOnce
  <2>2. ASSUME NEW r \in SessionId, NEW i \in DOMAIN sent', sent'[i] = FrameOf(r)
        PROVE  HasGone(r)'
    BY <1>4, <1>7, <2>2
  <2>3. QED
    BY <2>1, <2>2 DEF SentOnce, FrameOf
<1>9. GotOnce'
  <2> SUFFICES ASSUME NEW c \in Client, NEW r \in SessionId
               PROVE  /\ \A i, j \in DOMAIN down'[c] :
                           down'[c][i] = FrameOf(r) /\ down'[c][j] = FrameOf(r) => i = j
                      /\ c \in delivered'[r] => \A i \in DOMAIN down'[c] : down'[c][i] # FrameOf(r)
                      /\ Gets(c, r)' => HasGone(r)'
                      /\ Gets(c, r)' /\ socket'[c].state = "open" =>
                           \A i \in DOMAIN sent' : sent'[i] = FrameOf(r) => i < socket'[c].next
    BY DEF GotOnce, FrameOf
  <2>1. Gets(c, r)' = Gets(c, r)
    BY <1>1 DEF Gets, FrameOf
  <2>2. ASSUME Gets(c, r), socket[c].state = "open", NEW i \in DOMAIN sent', sent'[i] = FrameOf(r)
        PROVE  i < socket[c].next
    BY <1>7, <2>2 DEF SocketsIInv, GotOnce
  <2>3. QED
    BY <1>1, <1>4, <2>1, <2>2 DEF SocketsIInv, GotOnce
<1>10. QED
  BY <1>1, <1>6, <1>8, <1>9, AcksStand, RequestsStand DEF SocketsIInv

\* A client connects, or its socket lags behind the channel.
LEMMA SubscriptionStep ==
  ASSUME SocketsIInv, NEW c \in Client, Sockets!Connect(c) \/ Sockets!Lag(c)
  PROVE  SocketsIInv'
<1>1. /\ UNCHANGED << connections, idle, task, sent, down, up, requested, acks, delivered >>
      /\ \A d \in Client \ {c} : socket'[d] = socket[d]
      /\ Len(sent) \in Nat /\ socket[c].next \in Nat /\ Capacity \in Nat
      /\ socket \in [Client -> SocketEnd] /\ socket[c].next \in 1 .. Len(sent) + 1
  BY SocketsAssumption DEF Sockets!Connect, Sockets!Lag, SocketsIInv, SocketTypes, SocketEnd
<1>2. /\ socket' \in [Client -> SocketEnd]
      /\ socket'[c].state = "open" /\ socket'[c].next \in 1 .. Len(sent) + 1
      /\ \/ socket'[c].next = Len(sent) + 1
         \/ socket[c].state = "open" /\ socket'[c].next >= socket[c].next
  <2>1. CASE Sockets!Connect(c)
    <3>1. socket' = [socket EXCEPT ![c] = [state |-> "open", next |-> Len(sent) + 1, hears |-> TRUE]]
      BY <2>1 DEF Sockets!Connect
    <3>2. Len(sent) + 1 \in Nat /\ Len(sent) + 1 \in 1 .. Len(sent) + 1
      BY <1>1
    <3>3. [state |-> "open", next |-> Len(sent) + 1, hears |-> TRUE] \in SocketEnd
      BY <3>2 DEF SocketEnd
    <3>4. QED
      BY <1>1, <3>1, <3>2, <3>3
  <2>2. CASE Sockets!Lag(c)
    <3> DEFINE n == Len(sent) - Capacity + 1
    <3>1. /\ socket' = [socket EXCEPT ![c].next = n, ![c].hears = FALSE]
          /\ socket[c].state = "open" /\ socket[c].next + Capacity <= Len(sent)
      BY <2>2 DEF Sockets!Lag, Sockets!Open, Sockets!Overwritten
    <3>2. n \in Nat /\ n >= socket[c].next /\ n \in 1 .. Len(sent) + 1
      BY <1>1, <3>1
    <3> HIDE DEF n
    <3>3. /\ socket'[c].next = n /\ socket'[c].state = "open"
          /\ socket' \in [Client -> SocketEnd]
      BY <1>1, <3>1, <3>2 DEF SocketEnd
    <3>4. QED
      BY <3>1, <3>2, <3>3
  <2>3. QED
    BY <2>1, <2>2
<1>3. SocketTypes'
  BY <1>1, <1>2 DEF SocketsIInv, SocketTypes
<1>4. \A d \in Client : socket'[d].state = "open" =>
        \/ socket'[d].next = Len(sent) + 1
        \/ socket[d].state = "open" /\ socket'[d].next >= socket[d].next
  <2> SUFFICES ASSUME NEW d \in Client \ {c}, socket'[d].state = "open"
               PROVE  socket[d].state = "open" /\ socket'[d].next >= socket[d].next
    BY <1>2
  <2>1. socket'[d] = socket[d] /\ socket[d].next \in Nat
    BY <1>1 DEF SocketEnd
  <2>2. \A n \in Nat : n >= n
    OBVIOUS
  <2>3. socket'[d].next >= socket[d].next
    BY <2>1, <2>2, Zenon
  <2>4. QED
    BY <2>1, <2>3
<1>5. QED
  BY <1>1, <1>3, <1>4, FramesStand, AcksStand, RequestsStand DEF SocketsIInv

\* The socket's task forwards the next message of the channel.
LEMMA ForwardStep ==
  ASSUME SocketsIInv, NEW c \in Client, Sockets!Forward(c)
  PROVE  SocketsIInv'
<1> DEFINE n == socket[c].next
           message == sent[n]
<1>1. /\ UNCHANGED << connections, idle, task, sent, up, requested, acks, delivered >>
      /\ down' = [down EXCEPT ![c] = Append(down[c], message)]
      /\ socket' = [socket EXCEPT ![c].next = n + 1]
      /\ socket[c].state = "open" /\ n <= Len(sent)
  BY DEF Sockets!Forward, Sockets!Open, Sockets!Behind
<1>2. /\ sent \in Seq(Sockets!Message) /\ Len(sent) \in Nat /\ n \in 1 .. Len(sent) + 1
      /\ down \in [Client -> Seq(Sockets!Message)] /\ socket \in [Client -> SocketEnd]
  BY DEF SocketsIInv, SocketTypes
<1>3. n \in DOMAIN sent /\ n \in Nat /\ n + 1 \in Nat /\ n + 1 \in 1 .. Len(sent) + 1 /\ DOMAIN sent = 1 .. Len(sent)
  BY <1>1, <1>2
<1>4. message \in Sockets!Message
  BY <1>2, <1>3
<1>5. /\ socket' \in [Client -> SocketEnd] /\ socket'[c].next = n + 1
      /\ \A d \in Client \ {c} : socket'[d] = socket[d] /\ down'[d] = down[d]
      /\ down'[c] = Append(down[c], message)
  BY <1>1, <1>2, <1>3 DEF SocketEnd
<1> DEFINE last == Len(down[c]) + 1
<1>6. /\ down'[c] \in Seq(Sockets!Message)
      /\ DOMAIN down'[c] = DOMAIN down[c] \cup {last} /\ last \notin DOMAIN down[c]
      /\ \A i \in DOMAIN down[c] : down'[c][i] = down[c][i]
      /\ down'[c][last] = message
  BY <1>2, <1>4, <1>5, Lengthened
<1>7. SocketTypes'
  <2>1. down' \in [Client -> Seq(Sockets!Message)]
    BY <1>1, <1>2, <1>6
  <2>2. \A d \in Client : socket'[d].next \in 1 .. Len(sent) + 1
    BY <1>3, <1>5 DEF SocketsIInv, SocketTypes
  <2>3. QED
    BY <1>1, <1>5, <2>1, <2>2 DEF SocketsIInv, SocketTypes
<1>8. SentOnce'
  BY <1>1 DEF SocketsIInv, SentOnce, HasGone, FrameOf
<1>9. \A s \in SessionId : message = FrameOf(s) => ~Gets(c, s) /\ HasGone(s)
  <2> SUFFICES ASSUME NEW s \in SessionId, message = FrameOf(s) PROVE ~Gets(c, s) /\ HasGone(s)
    OBVIOUS
  <2>1. HasGone(s)
    BY <1>3 DEF SocketsIInv, SentOnce
  <2>2. Gets(c, s) => n < n
    BY <1>1, <1>3 DEF SocketsIInv, GotOnce
  <2>3. ~(n < n)
    BY <1>3
  <2>4. QED
    BY <2>1, <2>2, <2>3
<1> HIDE DEF message, last, n
<1>10. ASSUME NEW d \in Client, NEW s \in SessionId
       PROVE  /\ \A i, j \in DOMAIN down'[d] :
                   down'[d][i] = FrameOf(s) /\ down'[d][j] = FrameOf(s) => i = j
              /\ d \in delivered'[s] => \A i \in DOMAIN down'[d] : down'[d][i] # FrameOf(s)
              /\ Gets(d, s)' => Gets(d, s) \/ (d = c /\ message = FrameOf(s))
  <2>1. CASE d = c
    <3>1. /\ \A i, j \in DOMAIN down[c] : down[c][i] = FrameOf(s) /\ down[c][j] = FrameOf(s) => i = j
          /\ c \in delivered[s] => \A i \in DOMAIN down[c] : down[c][i] # FrameOf(s)
      BY DEF SocketsIInv, GotOnce
    <3>2. \A i \in DOMAIN down'[c] :
            \/ i \in DOMAIN down[c] /\ down'[c][i] = down[c][i]
            \/ i = last /\ down'[c][i] = message
      BY <1>6
    <3>3. (\E i \in DOMAIN down[c] : down[c][i] = FrameOf(s)) \/ c \in delivered[s] => message # FrameOf(s)
      BY <1>9 DEF Gets
    <3>4. \A i, j \in DOMAIN down'[c] :
            down'[c][i] = FrameOf(s) /\ down'[c][j] = FrameOf(s) => i = j
      BY <3>1, <3>2, <3>3
    <3>5. c \in delivered'[s] => \A i \in DOMAIN down'[c] : down'[c][i] # FrameOf(s)
      BY <1>1, <3>1, <3>2, <3>3
    <3>6. Gets(c, s)' => Gets(c, s) \/ message = FrameOf(s)
      BY <1>1, <3>2 DEF Gets, FrameOf
    <3>7. QED
      BY <2>1, <3>4, <3>5, <3>6 DEF Gets
  <2>2. CASE d # c
    <3>1. down'[d] = down[d] /\ delivered' = delivered
      BY <1>1, <1>5, <2>2
    <3>2. Gets(d, s)' = Gets(d, s)
      BY <3>1 DEF Gets, FrameOf
    <3>3. QED
      BY <3>1, <3>2 DEF SocketsIInv, GotOnce
  <2>3. QED
    BY <2>1, <2>2
<1>11. ASSUME NEW d \in Client, NEW s \in SessionId, Gets(d, s)'
       PROVE  HasGone(s)'
  BY <1>1, <1>9, <1>10, <1>11 DEF SocketsIInv, GotOnce, HasGone
<1>12. ASSUME NEW d \in Client, NEW s \in SessionId, Gets(d, s)', socket'[d].state = "open",
              NEW i \in DOMAIN sent, sent[i] = FrameOf(s)
       PROVE  i < socket'[d].next
  <2>1. CASE d # c
    BY <1>5, <1>10, <1>12, <2>1 DEF SocketsIInv, GotOnce
  <2>2. CASE d = c /\ Gets(c, s)
    <3>1. i < n
      BY <1>1, <1>12, <2>2 DEF SocketsIInv, GotOnce, n
    <3>2. i \in Nat
      BY <1>3
    <3>3. i < n + 1
      BY <1>3, <3>1, <3>2
    <3>4. QED
      BY <1>5, <2>2, <3>3
  <2>3. CASE d = c /\ message = FrameOf(s)
    <3>1. i = n
      BY <1>3, <1>12, <2>3 DEF SocketsIInv, SentOnce, message
    <3>2. n < n + 1
      BY <1>3
    <3>3. QED
      BY <1>5, <2>3, <3>1, <3>2
  <2>4. QED
    BY <1>10, <1>12, <2>1, <2>2, <2>3
<1>13. GotOnce'
  BY <1>1, <1>10, <1>11, <1>12 DEF GotOnce, FrameOf
<1>14. QED
  BY <1>1, <1>7, <1>8, <1>13, AcksStand, RequestsStand DEF SocketsIInv

\* Either side closes: nothing is under way any more.
LEMMA CloseStep ==
  ASSUME SocketsIInv, NEW c \in Client, Sockets!Close(c)
  PROVE  SocketsIInv'
<1>1. /\ UNCHANGED << connections, idle, task, sent, requested, acks, delivered >>
      /\ socket' = [socket EXCEPT ![c] = [state |-> "closed", next |-> 1, hears |-> FALSE]]
      /\ down' = [down EXCEPT ![c] = << >>]
      /\ up' = [up EXCEPT ![c] = << >>]
  BY DEF Sockets!Close
<1>2. /\ sent \in Seq(Sockets!Message) /\ Len(sent) \in Nat /\ up \in [Client -> Seq(FromClient)]
      /\ down \in [Client -> Seq(Sockets!Message)] /\ socket \in [Client -> SocketEnd]
      /\ acks \in [SessionId -> Nat]
  BY DEF SocketsIInv, SocketTypes
<1>3. /\ \A d \in Client \ {c} : down'[d] = down[d] /\ up'[d] = up[d] /\ socket'[d] = socket[d]
      /\ DOMAIN down'[c] = {} /\ DOMAIN up'[c] = {}
      /\ socket'[c].state = "closed" /\ socket'[c].next = 1
      /\ socket' \in [Client -> SocketEnd]
      /\ down' \in [Client -> Seq(Sockets!Message)] /\ up' \in [Client -> Seq(FromClient)]
  BY <1>1, <1>2 DEF SocketEnd
<1>4. SocketTypes'
  <2>1. \A d \in Client : socket'[d].next \in 1 .. Len(sent) + 1
    <3>1. 1 \in 1 .. Len(sent) + 1
      BY <1>2
    <3>2. QED
      BY <1>3, <3>1 DEF SocketsIInv, SocketTypes
  <2>2. QED
    BY <1>1, <1>3, <2>1 DEF SocketsIInv, SocketTypes
<1>5. SentOnce'
  BY <1>1 DEF SocketsIInv, SentOnce, HasGone, FrameOf
<1>6. GotOnce'
  <2> SUFFICES ASSUME NEW d \in Client, NEW s \in SessionId
               PROVE  /\ \A i, j \in DOMAIN down'[d] :
                           down'[d][i] = FrameOf(s) /\ down'[d][j] = FrameOf(s) => i = j
                      /\ d \in delivered'[s] => \A i \in DOMAIN down'[d] : down'[d][i] # FrameOf(s)
                      /\ Gets(d, s)' => HasGone(s)'
                      /\ Gets(d, s)' /\ socket'[d].state = "open" =>
                           \A i \in DOMAIN sent' : sent'[i] = FrameOf(s) => i < socket'[d].next
    BY DEF GotOnce, FrameOf
  <2>1. Gets(d, s)' => Gets(d, s)
    BY <1>1, <1>3 DEF Gets, FrameOf
  <2>2. QED
    BY <1>1, <1>3, <2>1 DEF SocketsIInv, GotOnce, HasGone
<1>7. AckedOnce'
  BY <1>1, <1>3 DEF SocketsIInv, AckedOnce, AckOf
<1>8. AcksAreCounted'
  <2> SUFFICES ASSUME NEW s \in SessionId
               PROVE  acks[s] + Cardinality(Acking(s)') <= Cardinality(delivered[s])
    BY <1>1 DEF AcksAreCounted, Acking, AckOf
  <2>1. Acking(s)' \subseteq Acking(s)
    BY <1>3 DEF Acking, AckOf
  <2>2. /\ IsFiniteSet(Acking(s)) /\ IsFiniteSet(delivered[s])
        /\ acks[s] + Cardinality(Acking(s)) <= Cardinality(delivered[s])
    BY CountedAreFinite DEF SocketsIInv, AcksAreCounted
  <2>3. /\ Cardinality(Acking(s)') <= Cardinality(Acking(s)) /\ Cardinality(Acking(s)') \in Nat
        /\ Cardinality(Acking(s)) \in Nat /\ Cardinality(delivered[s]) \in Nat /\ acks[s] \in Nat
    BY <1>2, <2>1, <2>2, FS_Subset, FS_CardinalityType
  <2>4. QED
    BY <2>2, <2>3
<1>9. RequestsAreCounted'
  <2>1. Asked' = Asked /\ Waiting' \subseteq Waiting
    BY <1>1, <1>3 DEF Asked, Waiting, StreamInit
  <2>2. /\ IsFiniteSet(Waiting) /\ IsFiniteSet(Asked) /\ idle \in Nat
        /\ idle + Cardinality(Waiting) <= Cardinality(Asked)
    BY CountedAreFinite DEF SocketsIInv, RequestsAreCounted, SocketTypes
  <2>3. /\ IsFiniteSet(Waiting') /\ Cardinality(Waiting') <= Cardinality(Waiting)
        /\ Cardinality(Waiting') \in Nat /\ Cardinality(Waiting) \in Nat /\ Cardinality(Asked) \in Nat
    BY <2>1, <2>2, FS_Subset, FS_CardinalityType
  <2>4. idle + Cardinality(Waiting') <= Cardinality(Asked)
    BY <2>2, <2>3
  <2>5. QED
    BY <1>1, <2>1, <2>3, <2>4 DEF RequestsAreCounted
<1>10. QED
  BY <1>4, <1>5, <1>6, <1>7, <1>8, <1>9 DEF SocketsIInv

\* A message is taken from a client: an acknowledgement is counted and is no
\* longer under way; neither is a request.
LEMMA ReceiveStep ==
  ASSUME SocketsIInv, NEW c \in Client, Sockets!Receive(c)
  PROVE  SocketsIInv'
<1> DEFINE message == up[c][1]
<1>1. up \in [Client -> Seq(FromClient)] /\ up[c] # << >> /\ up[c] \in Seq(FromClient)
  BY DEF Sockets!Receive, SocketsIInv, SocketTypes
<1>2. /\ message \in FromClient /\ Head(up[c]) = message /\ 1 \in DOMAIN up[c]
      /\ Tail(up[c]) \in Seq(FromClient)
      /\ \A i \in DOMAIN Tail(up[c]) : i + 1 \in DOMAIN up[c] /\ Tail(up[c])[i] = up[c][i + 1]
      /\ DOMAIN Tail(up[c]) \subseteq Nat \ {0}
  BY <1>1, Headless
<1>3. /\ up' = [up EXCEPT ![c] = Tail(up[c])]
      /\ socket' = [socket EXCEPT ![c].hears = TRUE]
      /\ UNCHANGED << connections, task, sent, down, requested, delivered >>
      /\ \/ message.kind = "FrameAck" /\ idle' = idle
            /\ acks' = IF message.session \in connections
                       THEN [acks EXCEPT ![message.session] = acks[message.session] + 1] ELSE acks
         \/ message.kind = "StreamInit" /\ idle' = idle + 1 /\ acks' = acks
  BY <1>2 DEF Sockets!Receive, Sockets!HandleAck, Sockets!HandleInit
<1>4. /\ up' \in [Client -> Seq(FromClient)] /\ up'[c] = Tail(up[c])
      /\ \A d \in Client \ {c} : up'[d] = up[d]
  BY <1>1, <1>2, <1>3
<1> HIDE DEF message
<1>5. \/ /\ message = StreamInit /\ idle' = idle + 1 /\ acks' = acks
         /\ \A s \in SessionId : message # AckOf(s)
      \/ \E s \in SessionId :
           /\ message = AckOf(s) /\ message # StreamInit /\ idle' = idle
           /\ acks' = acks \/ acks' = [acks EXCEPT ![s] = acks[s] + 1]
  BY <1>2, <1>3 DEF FromClient, StreamInit, AckOf
<1>6. idle \in Nat /\ idle' \in Nat /\ acks \in [SessionId -> Nat] /\ acks' \in [SessionId -> Nat]
  <2>1. idle \in Nat /\ acks \in [SessionId -> Nat]
    BY DEF SocketsIInv, SocketTypes
  <2>2. CASE idle' = idle + 1 /\ acks' = acks
    BY <2>1, <2>2
  <2>3. ASSUME NEW s \in SessionId, idle' = idle,
               acks' = acks \/ acks' = [acks EXCEPT ![s] = acks[s] + 1]
        PROVE  idle' \in Nat /\ acks' \in [SessionId -> Nat]
    BY <2>1, <2>3
  <2>4. QED
    BY <1>5, <2>1, <2>2, <2>3
<1>7. /\ socket' \in [Client -> SocketEnd]
      /\ \A d \in Client : socket'[d].state = socket[d].state /\ socket'[d].next = socket[d].next
  BY <1>3 DEF SocketsIInv, SocketTypes, SocketEnd
<1>8. SocketTypes'
  BY <1>3, <1>4, <1>6, <1>7 DEF SocketsIInv, SocketTypes
<1>9. SentOnce' /\ GotOnce'
  <2>1. SentOnce'
    BY <1>3 DEF SocketsIInv, SentOnce, HasGone, FrameOf
  <2>2. \A d \in Client, s \in SessionId : Gets(d, s)' = Gets(d, s) /\ HasGone(s)' = HasGone(s)
    BY <1>3 DEF Gets, HasGone, FrameOf
  <2>3. QED
    BY <1>3, <1>7, <2>1, <2>2 DEF SocketsIInv, GotOnce, FrameOf
<1>10. ASSUME NEW d \in Client, NEW s \in SessionId
       PROVE  /\ \A i, j \in DOMAIN up'[d] : up'[d][i] = AckOf(s) /\ up'[d][j] = AckOf(s) => i = j
              /\ \A i \in DOMAIN up'[d] : up'[d][i] = AckOf(s) => \E j \in DOMAIN up[d] : up[d][j] = AckOf(s)
              /\ d = c /\ message = AckOf(s) => \A i \in DOMAIN up'[d] : up'[d][i] # AckOf(s)
  <2>1. \A i, j \in DOMAIN up[d] : up[d][i] = AckOf(s) /\ up[d][j] = AckOf(s) => i = j
    BY DEF SocketsIInv, AckedOnce
  <2>2. CASE d # c
    BY <1>4, <2>1, <2>2
  <2>3. CASE d = c
    <3>1. \A i \in DOMAIN up'[c] : i \in Nat \ {0} /\ i + 1 \in DOMAIN up[c] /\ up'[c][i] = up[c][i + 1]
      BY <1>2, <1>4
    <3>2. ASSUME NEW i \in DOMAIN up'[c], NEW j \in DOMAIN up'[c],
                 up'[c][i] = AckOf(s), up'[c][j] = AckOf(s)
          PROVE  i = j
      <4>1. i + 1 = j + 1
        BY <2>1, <2>3, <3>1, <3>2
      <4>2. QED
        BY <3>1, <4>1
    <3>3. ASSUME NEW i \in DOMAIN up'[c], up'[c][i] = AckOf(s)
          PROVE  (\E j \in DOMAIN up[c] : up[c][j] = AckOf(s)) /\ message # AckOf(s)
      <4>1. i + 1 \in DOMAIN up[c] /\ up[c][i + 1] = AckOf(s) /\ i + 1 # 1
        BY <3>1, <3>3
      <4>2. message # AckOf(s)
        BY <1>2, <2>1, <2>3, <4>1 DEF message
      <4>3. QED
        BY <4>1, <4>2
    <3>4. QED
      BY <2>3, <3>2, <3>3
  <2>4. QED
    BY <2>2, <2>3
<1>11. AckedOnce'
  <2>1. ASSUME NEW d \in Client, NEW s \in SessionId, NEW i \in DOMAIN up'[d], up'[d][i] = AckOf(s)
        PROVE  d \in delivered[s]
    BY <1>10, <2>1 DEF SocketsIInv, AckedOnce
  <2>2. QED
    BY <1>3, <1>10, <2>1 DEF AckedOnce, AckOf
<1>12. AcksAreCounted'
  <2> SUFFICES ASSUME NEW s \in SessionId
               PROVE  acks'[s] + Cardinality(Acking(s)') <= Cardinality(delivered[s])
    BY <1>3 DEF AcksAreCounted, Acking, AckOf
  <2>1. /\ IsFiniteSet(Acking(s)) /\ IsFiniteSet(delivered[s])
        /\ acks[s] + Cardinality(Acking(s)) <= Cardinality(delivered[s])
        /\ acks[s] \in Nat
    BY <1>6, CountedAreFinite DEF SocketsIInv, AcksAreCounted
  <2>2. /\ Acking(s)' \subseteq Acking(s)
        /\ message = AckOf(s) => c \notin Acking(s)' /\ c \in Acking(s)
    BY <1>2, <1>10 DEF Acking, AckOf, message
  <2>3. CASE acks'[s] = acks[s]
    <3>1. /\ Cardinality(Acking(s)') <= Cardinality(Acking(s)) /\ Cardinality(Acking(s)') \in Nat
          /\ Cardinality(Acking(s)) \in Nat /\ Cardinality(delivered[s]) \in Nat
      BY <2>1, <2>2, FS_Subset, FS_CardinalityType
    <3>2. QED
      BY <2>1, <2>3, <3>1
  <2>4. CASE message = AckOf(s) /\ acks'[s] = acks[s] + 1
    <3>1. Acking(s)' \subseteq Acking(s) \ {c}
      BY <2>2, <2>4
    <3>2. IsFiniteSet(Acking(s) \ {c}) /\ Cardinality(Acking(s) \ {c}) = Cardinality(Acking(s)) - 1
      BY <2>1, <2>2, <2>4, FS_RemoveElement
    <3>3. Cardinality(Acking(s)') <= Cardinality(Acking(s) \ {c}) /\ IsFiniteSet(Acking(s)')
      BY <3>1, <3>2, FS_Subset
    <3>4. /\ Cardinality(Acking(s)') \in Nat /\ Cardinality(Acking(s) \ {c}) \in Nat
          /\ Cardinality(Acking(s)) \in Nat /\ Cardinality(delivered[s]) \in Nat
      BY <2>1, <3>2, <3>3, FS_CardinalityType
    <3>5. QED
      BY <2>1, <2>4, <3>2, <3>3, <3>4
  <2>5. acks'[s] = acks[s] \/ (message = AckOf(s) /\ acks'[s] = acks[s] + 1)
    <3>1. ASSUME NEW r \in SessionId, message = AckOf(r),
                 acks' = acks \/ acks' = [acks EXCEPT ![r] = acks[r] + 1]
          PROVE  acks'[s] = acks[s] \/ (message = AckOf(s) /\ acks'[s] = acks[s] + 1)
      <4>1. CASE r = s
        BY <1>6, <3>1, <4>1
      <4>2. CASE r # s
        BY <1>6, <3>1, <4>2
      <4>3. QED
        BY <4>1, <4>2
    <3>2. QED
      BY <1>5, <3>1
  <2>6. QED
    BY <2>3, <2>4, <2>5
<1>13. RequestsAreCounted'
  <2>1. /\ IsFiniteSet(Waiting) /\ IsFiniteSet(Asked)
        /\ idle + Cardinality(Waiting) <= Cardinality(Asked)
    BY CountedAreFinite DEF SocketsIInv, RequestsAreCounted
  <2>2. Asked' = Asked
    BY <1>3 DEF Asked
  <2>3. /\ IsFiniteSet(Waiting') /\ Cardinality(Waiting') <= Cardinality(Waiting)
        /\ up[c][1] = StreamInit => Cardinality(Waiting') < Cardinality(Waiting)
    BY <1>1, <1>3, <2>1, WaitingIsShifted
  <2>4. Cardinality(Waiting') \in Nat /\ Cardinality(Waiting) \in Nat /\ Cardinality(Asked) \in Nat
    BY <2>1, <2>3, FS_CardinalityType
  <2>5. \/ idle' = idle
        \/ idle' = idle + 1 /\ Cardinality(Waiting') < Cardinality(Waiting)
    BY <1>5, <2>3 DEF message
  <2>6. idle' + Cardinality(Waiting') <= Cardinality(Asked)
    BY <1>6, <2>1, <2>3, <2>4, <2>5
  <2>7. QED
    BY <2>2, <2>3, <2>6 DEF RequestsAreCounted
<1>14. QED
  BY <1>8, <1>9, <1>11, <1>12, <1>13 DEF SocketsIInv

\* A client asks for one stream more, and the request is under way.
LEMMA RequestStreamStep ==
  ASSUME SocketsIInv, NEW c \in Client, Sockets!RequestStream(c)
  PROVE  SocketsIInv'
<1> DEFINE n == requested[c] + 1
           last == Len(up[c]) + 1
<1>1. /\ UNCHANGED << connections, idle, task, sent, socket, down, acks, delivered >>
      /\ requested' = [requested EXCEPT ![c] = n]
      /\ up' = [up EXCEPT ![c] = Append(up[c], StreamInit)]
      /\ requested[c] < MaxRequests
  BY DEF Sockets!RequestStream, StreamInit
<1>2. /\ up \in [Client -> Seq(FromClient)] /\ requested \in [Client -> 0 .. MaxRequests]
      /\ MaxRequests \in Nat /\ StreamInit \in FromClient
  BY SocketsAssumption DEF SocketsIInv, SocketTypes, FromClient
<1>3. n \in 1 .. MaxRequests /\ requested[c] \in Nat
  BY <1>1, <1>2
<1>4. /\ Append(up[c], StreamInit) \in Seq(FromClient)
      /\ DOMAIN Append(up[c], StreamInit) = DOMAIN up[c] \cup {last} /\ last \notin DOMAIN up[c]
      /\ \A i \in DOMAIN up[c] : Append(up[c], StreamInit)[i] = up[c][i]
      /\ Append(up[c], StreamInit)[last] = StreamInit /\ last \in Nat
  BY <1>2, Lengthened
<1> HIDE DEF n, last
<1>5. /\ up' \in [Client -> Seq(FromClient)] /\ requested' \in [Client -> 0 .. MaxRequests]
      /\ requested'[c] = n /\ up'[c] = Append(up[c], StreamInit)
      /\ \A d \in Client \ {c} : up'[d] = up[d] /\ requested'[d] = requested[d]
  <2>1. n \in 0 .. MaxRequests
    BY <1>2, <1>3
  <2>2. QED
    BY <1>1, <1>2, <1>4, <2>1
<1>6. /\ DOMAIN up'[c] = DOMAIN up[c] \cup {last} /\ last \notin DOMAIN up[c] /\ last \in Nat
      /\ \A i \in DOMAIN up[c] : up'[c][i] = up[c][i]
      /\ up'[c][last] = StreamInit
  BY <1>4, <1>5
<1>7. SocketTypes'
  BY <1>1, <1>5 DEF SocketsIInv, SocketTypes
<1>8. SentOnce' /\ GotOnce'
  BY <1>1 DEF SocketsIInv, SentOnce, GotOnce, Gets, HasGone, FrameOf
<1>9. \A d \in Client, s \in SessionId : \A i \in DOMAIN up'[d] :
        up'[d][i] = AckOf(s) => i \in DOMAIN up[d] /\ up[d][i] = AckOf(s)
  <2>1. \A s \in SessionId : StreamInit # AckOf(s)
    BY DEF StreamInit, AckOf
  <2>2. QED
    BY <1>5, <1>6, <2>1
<1>10. AckedOnce'
  <2> SUFFICES ASSUME NEW d \in Client, NEW s \in SessionId
               PROVE  /\ \A i, j \in DOMAIN up'[d] :
                           up'[d][i] = AckOf(s) /\ up'[d][j] = AckOf(s) => i = j
                      /\ \A i \in DOMAIN up'[d] : up'[d][i] = AckOf(s) => d \in delivered[s]
    BY <1>1 DEF AckedOnce, AckOf
  <2>1. QED
    BY <1>9 DEF SocketsIInv, AckedOnce
<1>11. AcksAreCounted'
  <2> SUFFICES ASSUME NEW s \in SessionId
               PROVE  acks[s] + Cardinality(Acking(s)') <= Cardinality(delivered[s])
    BY <1>1 DEF AcksAreCounted, Acking, AckOf
  <2>1. \A d \in Client : (\E i \in DOMAIN up'[d] : up'[d][i] = AckOf(s))
                            <=> (\E i \in DOMAIN up[d] : up[d][i] = AckOf(s))
    BY <1>5, <1>6, <1>9
  <2>2. Acking(s)' = Acking(s)
    BY <2>1 DEF Acking, AckOf
  <2>3. QED
    BY <2>2 DEF SocketsIInv, AcksAreCounted
<1>12. Waiting' \subseteq Waiting \cup {<< c, last >>}
  <2> SUFFICES ASSUME NEW p \in Waiting', p # << c, last >> PROVE p \in Waiting
    OBVIOUS
  <2>1. p \in Client \X Nat /\ p[2] \in DOMAIN up'[p[1]] /\ up'[p[1]][p[2]] = StreamInit
    BY DEF Waiting, StreamInit
  <2>2. CASE p[1] = c
    <3>1. p = << c, p[2] >>
      BY <2>1, <2>2
    <3>2. p[2] \in DOMAIN up[c] /\ up[c][p[2]] = StreamInit
      BY <1>6, <2>1, <2>2, <3>1
    <3>3. QED
      BY <2>1, <2>2, <3>2 DEF Waiting
  <2>3. CASE p[1] # c
    BY <1>5, <2>1, <2>3 DEF Waiting
  <2>4. QED
    BY <2>2, <2>3
<1>13. Asked \cup {<< c, n >>} \subseteq Asked' /\ << c, n >> \notin Asked
  <2>1. << c, n >> \notin Asked
    BY <1>3 DEF Asked, n
  <2>2. << c, n >> \in Asked'
    BY <1>3, <1>5 DEF Asked
  <2>3. ASSUME NEW p \in Asked PROVE p \in Asked'
    <3>1. p \in Client \X (1 .. MaxRequests) /\ p[2] <= requested[p[1]]
      BY DEF Asked
    <3>2. p[2] <= requested'[p[1]]
      <4>1. CASE p[1] = c
        <5>1. p[2] \in Nat /\ requested[c] \in Nat /\ p[2] <= requested[c]
          BY <1>3, <3>1, <4>1
        <5>2. p[2] <= n
          BY <5>1 DEF n
        <5>3. QED
          BY <1>5, <4>1, <5>2
      <4>2. CASE p[1] # c
        BY <1>5, <3>1, <4>2
      <4>3. QED
        BY <4>1, <4>2
    <3>3. QED
      BY <3>1, <3>2 DEF Asked
  <2>4. QED
    BY <2>1, <2>2, <2>3
<1>14. RequestsAreCounted'
  <2>1. /\ IsFiniteSet(Waiting) /\ IsFiniteSet(Asked) /\ IsFiniteSet(Asked') /\ idle \in Nat
        /\ idle + Cardinality(Waiting) <= Cardinality(Asked)
    <3>1. IsFiniteSet(Asked')
      <4>1. Asked' \subseteq Client \X (1 .. MaxRequests)
        BY DEF Asked
      <4>2. IsFiniteSet(1 .. MaxRequests)
        <5>1. 1 \in Int /\ MaxRequests \in Int
          BY <1>2
        <5>2. QED
          BY <5>1, FS_Interval
      <4>3. QED
        BY <4>1, <4>2, SocketsAssumption, FS_Product, FS_Subset
    <3>2. QED
      BY <3>1, CountedAreFinite DEF SocketsIInv, SocketTypes, RequestsAreCounted
  <2>2. /\ IsFiniteSet(Waiting') /\ Cardinality(Waiting') <= Cardinality(Waiting) + 1
        /\ Cardinality(Waiting') \in Nat /\ Cardinality(Waiting) \in Nat
    <3> DEFINE W == Waiting \cup {<< c, last >>}
    <3>1. IsFiniteSet(W) /\ Cardinality(W) \in {Cardinality(Waiting), Cardinality(Waiting) + 1}
      BY <2>1, FS_AddElement
    <3>2. IsFiniteSet(Waiting') /\ Cardinality(Waiting') <= Cardinality(W)
      BY <1>12, <3>1, FS_Subset
    <3> HIDE DEF W
    <3>3. Cardinality(Waiting') \in Nat /\ Cardinality(Waiting) \in Nat /\ Cardinality(W) \in Nat
      BY <2>1, <3>1, <3>2, FS_CardinalityType
    <3>4. QED
      BY <3>1, <3>2, <3>3
  <2>3. /\ Cardinality(Asked) + 1 <= Cardinality(Asked')
        /\ Cardinality(Asked') \in Nat /\ Cardinality(Asked) \in Nat
    <3> DEFINE A == Asked \cup {<< c, n >>}
    <3>1. IsFiniteSet(A) /\ Cardinality(A) = Cardinality(Asked) + 1
      BY <1>13, <2>1, FS_AddElement
    <3>2. Cardinality(A) <= Cardinality(Asked')
      BY <1>13, <2>1, FS_Subset
    <3>3. QED
      BY <2>1, <3>1, <3>2, FS_CardinalityType
  <2>4. idle + Cardinality(Waiting') <= Cardinality(Asked')
    BY <2>1, <2>2, <2>3
  <2>5. QED
    BY <1>1, <2>2, <2>4 DEF RequestsAreCounted
<1>15. QED
  BY <1>7, <1>8, <1>10, <1>11, <1>14 DEF SocketsIInv

\* A client takes a message; a frame it acknowledges, and only that once.
LEMMA GetStep ==
  ASSUME SocketsIInv, NEW c \in Client, Sockets!Get(c)
  PROVE  SocketsIInv'
<1> DEFINE message == down[c][1]
           r == message.session
           last == Len(up[c]) + 1
<1>1. /\ down \in [Client -> Seq(Sockets!Message)] /\ down[c] # << >>
      /\ down[c] \in Seq(Sockets!Message) /\ up \in [Client -> Seq(FromClient)]
      /\ delivered \in [SessionId -> SUBSET Client]
  BY DEF Sockets!Get, SocketsIInv, SocketTypes
<1>2. /\ message \in Sockets!Message /\ Head(down[c]) = message /\ 1 \in DOMAIN down[c]
      /\ Tail(down[c]) \in Seq(Sockets!Message)
      /\ \A i \in DOMAIN Tail(down[c]) : i + 1 \in DOMAIN down[c] /\ Tail(down[c])[i] = down[c][i + 1]
      /\ DOMAIN Tail(down[c]) \subseteq Nat \ {0}
  BY <1>1, Headless
<1>3. r \in SessionId /\ (message.kind = "StreamFrame" <=> message = FrameOf(r))
      /\ \A s \in SessionId : message = FrameOf(s) => s = r
  BY <1>2 DEF Sockets!Message, FrameOf
<1>4. /\ down' = [down EXCEPT ![c] = Tail(down[c])]
      /\ UNCHANGED << connections, idle, task, sent, socket, requested, acks >>
      /\ \/ /\ message = FrameOf(r)
            /\ up' = [up EXCEPT ![c] = Append(up[c], AckOf(r))]
            /\ delivered' = [delivered EXCEPT ![r] = delivered[r] \cup {c}]
         \/ message # FrameOf(r) /\ UNCHANGED << up, delivered >>
  BY <1>2, <1>3 DEF Sockets!Get, AckOf
<1> HIDE DEF message, r
<1>5. /\ down'[c] = Tail(down[c]) /\ down' \in [Client -> Seq(Sockets!Message)]
      /\ \A d \in Client \ {c} : down'[d] = down[d]
      /\ \A i \in DOMAIN down'[c] : i \in Nat \ {0} /\ i + 1 \in DOMAIN down[c]
                                    /\ down'[c][i] = down[c][i + 1]
  BY <1>1, <1>2, <1>4
<1>6. /\ AckOf(r) \in FromClient /\ Append(up[c], AckOf(r)) \in Seq(FromClient)
      /\ DOMAIN Append(up[c], AckOf(r)) = DOMAIN up[c] \cup {last} /\ last \notin DOMAIN up[c]
      /\ \A i \in DOMAIN up[c] : Append(up[c], AckOf(r))[i] = up[c][i]
      /\ Append(up[c], AckOf(r))[last] = AckOf(r)
  <2>1. AckOf(r) \in FromClient
    BY <1>3 DEF FromClient
  <2>2. up[c] \in Seq(FromClient)
    BY <1>1
  <2>3. QED
    BY <2>1, <2>2, Lengthened
<1> HIDE DEF last
<1>7. up' \in [Client -> Seq(FromClient)] /\ delivered' \in [SessionId -> SUBSET Client]
  <2>1. CASE UNCHANGED << up, delivered >>
    BY <1>1, <2>1
  <2>2. CASE up' = [up EXCEPT ![c] = Append(up[c], AckOf(r))]
             /\ delivered' = [delivered EXCEPT ![r] = delivered[r] \cup {c}]
    <3>1. up' \in [Client -> Seq(FromClient)]
      BY <1>1, <1>6, <2>2
    <3>2. delivered[r] \cup {c} \in SUBSET Client
      BY <1>1, <1>3
    <3>3. delivered' \in [SessionId -> SUBSET Client]
      BY <1>1, <2>2, <3>2
    <3>4. QED
      BY <3>1, <3>3
  <2>3. QED
    BY <1>4, <2>1, <2>2
<1>8. SocketTypes'
  BY <1>4, <1>5, <1>7 DEF SocketsIInv, SocketTypes
<1>9. SentOnce'
  BY <1>4 DEF SocketsIInv, SentOnce, HasGone, FrameOf
<1>10. \A d \in Client, s \in SessionId :
         d \in delivered'[s] <=> (d \in delivered[s] \/ (d = c /\ message = FrameOf(s)))
  BY <1>1, <1>3, <1>4
<1>11. \A s \in SessionId : message = FrameOf(s) =>
         c \notin delivered[s] /\ \A i \in DOMAIN down'[c] : down'[c][i] # FrameOf(s)
  <2> SUFFICES ASSUME NEW s \in SessionId, message = FrameOf(s)
               PROVE  c \notin delivered[s] /\ \A i \in DOMAIN down'[c] : down'[c][i] # FrameOf(s)
    OBVIOUS
  <2>1. c \notin delivered[s]
    BY <1>2 DEF SocketsIInv, GotOnce, message
  <2>2. ASSUME NEW i \in DOMAIN down'[c], down'[c][i] = FrameOf(s) PROVE FALSE
    <3>1. i + 1 \in DOMAIN down[c] /\ down[c][i + 1] = FrameOf(s) /\ i + 1 # 1
      BY <1>5, <2>2
    <3>2. QED
      BY <1>2, <3>1 DEF SocketsIInv, GotOnce, message
  <2>3. QED
    BY <2>1, <2>2
<1>12. \A d \in Client, s \in SessionId : Gets(d, s)' => Gets(d, s)
  <2> SUFFICES ASSUME NEW d \in Client, NEW s \in SessionId, Gets(d, s)' PROVE Gets(d, s)
    OBVIOUS
  <2>1. d \in delivered'[s] => Gets(d, s)
    BY <1>2, <1>10 DEF Gets, message
  <2>2. ASSUME NEW i \in DOMAIN down'[d], down'[d][i] = FrameOf(s) PROVE Gets(d, s)
    <3>1. \E j \in DOMAIN down[d] : down[d][j] = FrameOf(s)
      <4>1. CASE d = c
        <5>1. i + 1 \in DOMAIN down[d] /\ down[d][i + 1] = FrameOf(s)
          BY <1>5, <2>2, <4>1
        <5>2. QED
          BY <5>1
      <4>2. CASE d # c
        BY <1>5, <2>2, <4>2
      <4>3. QED
        BY <4>1, <4>2
    <3>2. QED
      BY <3>1 DEF Gets
  <2>3. QED
    BY <2>1, <2>2 DEF Gets, FrameOf
<1>13. ASSUME NEW d \in Client, NEW s \in SessionId
       PROVE  /\ \A i, j \in DOMAIN down'[d] :
                   down'[d][i] = FrameOf(s) /\ down'[d][j] = FrameOf(s) => i = j
              /\ d \in delivered'[s] => \A i \in DOMAIN down'[d] : down'[d][i] # FrameOf(s)
  <2>1. /\ \A i, j \in DOMAIN down[d] : down[d][i] = FrameOf(s) /\ down[d][j] = FrameOf(s) => i = j
        /\ d \in delivered[s] => \A i \in DOMAIN down[d] : down[d][i] # FrameOf(s)
    BY DEF SocketsIInv, GotOnce
  <2>2. CASE d # c
    BY <1>5, <1>10, <2>1, <2>2
  <2>3. CASE d = c
    <3>1. ASSUME NEW i \in DOMAIN down'[c], NEW j \in DOMAIN down'[c],
                 down'[c][i] = FrameOf(s), down'[c][j] = FrameOf(s)
          PROVE  i = j
      <4>1. i + 1 = j + 1
        BY <1>5, <2>1, <2>3, <3>1
      <4>2. QED
        BY <1>5, <4>1
    <3>2. ASSUME c \in delivered'[s], NEW i \in DOMAIN down'[c]
          PROVE  down'[c][i] # FrameOf(s)
      BY <1>5, <1>10, <1>11, <2>1, <2>3, <3>2
    <3>3. QED
      BY <2>3, <3>1, <3>2
  <2>4. QED
    BY <2>2, <2>3
<1>14. GotOnce'
  <2>1. \A d \in Client, s \in SessionId :
          /\ Gets(d, s)' => HasGone(s)'
          /\ Gets(d, s)' /\ socket'[d].state = "open" =>
               \A i \in DOMAIN sent' : sent'[i] = FrameOf(s) => i < socket'[d].next
    BY <1>4, <1>12 DEF SocketsIInv, GotOnce, HasGone
  <2>2. QED
    BY <1>13, <2>1 DEF GotOnce, FrameOf
<1>15. ASSUME NEW d \in Client, NEW i \in DOMAIN up'[d]
       PROVE  \/ i \in DOMAIN up[d] /\ up'[d][i] = up[d][i]
              \/ d = c /\ i = last /\ up'[d][i] = AckOf(r) /\ message = FrameOf(r)
  <2>1. CASE message # FrameOf(r) \/ d # c
    BY <1>1, <1>4, <2>1
  <2>2. CASE message = FrameOf(r) /\ d = c
    <3>1. up'[c] = Append(up[c], AckOf(r))
      BY <1>1, <1>4, <2>2
    <3>2. QED
      BY <1>6, <2>2, <3>1
  <2>3. QED
    BY <2>1, <2>2
<1>16. \A s \in SessionId : AckOf(r) = AckOf(s) => r = s
  BY DEF AckOf
<1>17. AckedOnce'
  <2> SUFFICES ASSUME NEW d \in Client, NEW s \in SessionId
               PROVE  /\ \A i, j \in DOMAIN up'[d] :
                           up'[d][i] = AckOf(s) /\ up'[d][j] = AckOf(s) => i = j
                      /\ \A i \in DOMAIN up'[d] : up'[d][i] = AckOf(s) => d \in delivered'[s]
    BY DEF AckedOnce, AckOf
  <2>1. /\ \A i, j \in DOMAIN up[d] : up[d][i] = AckOf(s) /\ up[d][j] = AckOf(s) => i = j
        /\ \A i \in DOMAIN up[d] : up[d][i] = AckOf(s) => d \in delivered[s]
    BY DEF SocketsIInv, AckedOnce
  <2>2. ASSUME NEW i \in DOMAIN up'[d], up'[d][i] = AckOf(s)
        PROVE  \/ i \in DOMAIN up[d] /\ up[d][i] = AckOf(s) /\ d \in delivered[s]
               \/ d = c /\ i = last /\ message = FrameOf(s) /\ d \notin delivered[s]
    <3>1. CASE i \in DOMAIN up[d] /\ up'[d][i] = up[d][i]
      BY <2>1, <2>2, <3>1
    <3>2. CASE d = c /\ i = last /\ up'[d][i] = AckOf(r) /\ message = FrameOf(r)
      <4>1. r = s
        BY <1>16, <2>2, <3>2
      <4>2. QED
        BY <1>11, <3>2, <4>1
    <3>3. QED
      BY <1>15, <3>1, <3>2
  <2>3. QED
    BY <1>10, <2>1, <2>2
<1>18. AcksAreCounted'
  <2> SUFFICES ASSUME NEW s \in SessionId
               PROVE  acks[s] + Cardinality(Acking(s)') <= Cardinality(delivered'[s])
    BY <1>4 DEF AcksAreCounted, Acking, AckOf
  <2>1. /\ IsFiniteSet(Acking(s)) /\ IsFiniteSet(delivered[s]) /\ acks[s] \in Nat
        /\ acks[s] + Cardinality(Acking(s)) <= Cardinality(delivered[s])
        /\ Cardinality(Acking(s)) \in Nat /\ Cardinality(delivered[s]) \in Nat
    BY CountedAreFinite, FS_CardinalityType DEF SocketsIInv, SocketTypes, AcksAreCounted
  <2>2. CASE message = FrameOf(s)
    <3>1. Acking(s)' \subseteq Acking(s) \cup {c}
      <4> SUFFICES ASSUME NEW d \in Client, NEW i \in DOMAIN up'[d], up'[d][i] = AckOf(s), d # c
                   PROVE  d \in Acking(s)
        BY DEF Acking, AckOf
      <4>1. QED
        BY <1>15 DEF Acking
    <3>2. IsFiniteSet(Acking(s) \cup {c})
          /\ Cardinality(Acking(s) \cup {c}) \in {Cardinality(Acking(s)), Cardinality(Acking(s)) + 1}
      BY <2>1, FS_AddElement
    <3>3. /\ IsFiniteSet(Acking(s)') /\ Cardinality(Acking(s)') <= Cardinality(Acking(s) \cup {c})
          /\ Cardinality(Acking(s)') \in Nat /\ Cardinality(Acking(s) \cup {c}) \in Nat
      BY <3>1, <3>2, FS_Subset, FS_CardinalityType
    <3>4. delivered'[s] = delivered[s] \cup {c} /\ c \notin delivered[s]
      BY <1>7, <1>10, <1>11, <2>2, <1>1
    <3>5. Cardinality(delivered'[s]) = Cardinality(delivered[s]) + 1
      BY <2>1, <3>4, FS_AddElement
    <3>6. QED
      BY <2>1, <3>2, <3>3, <3>5
  <2>3. CASE message # FrameOf(s)
    <3>1. delivered'[s] = delivered[s]
      BY <1>1, <1>7, <1>10, <2>3
    <3>2. Acking(s)' \subseteq Acking(s)
      <4> SUFFICES ASSUME NEW d \in Client, NEW i \in DOMAIN up'[d], up'[d][i] = AckOf(s)
                   PROVE  d \in Acking(s)
        BY DEF Acking, AckOf
      <4>1. QED
        BY <1>15, <1>16, <2>3 DEF Acking
    <3>3. /\ Cardinality(Acking(s)') <= Cardinality(Acking(s)) /\ IsFiniteSet(Acking(s)')
          /\ Cardinality(Acking(s)') \in Nat
      BY <2>1, <3>2, FS_Subset, FS_CardinalityType
    <3>4. acks[s] + Cardinality(Acking(s)') <= Cardinality(delivered[s])
      BY <2>1, <3>3
    <3>5. QED
      BY <3>1, <3>4
  <2>4. QED
    BY <2>2, <2>3
<1>19. RequestsAreCounted'
  <2>1. Waiting' \subseteq Waiting /\ Asked' = Asked
    <3>1. AckOf(r) # StreamInit
      BY DEF AckOf, StreamInit
    <3>2. ASSUME NEW p \in Waiting' PROVE p \in Waiting
      <4>1. p \in Client \X Nat /\ p[2] \in DOMAIN up'[p[1]] /\ up'[p[1]][p[2]] = StreamInit
        BY DEF Waiting, StreamInit
      <4>2. p[2] \in DOMAIN up[p[1]] /\ up[p[1]][p[2]] = StreamInit
        BY <1>15, <3>1, <4>1
      <4>3. QED
        BY <4>1, <4>2 DEF Waiting
    <3>3. QED
      BY <1>4, <3>2 DEF Asked
  <2>2. /\ IsFiniteSet(Waiting) /\ IsFiniteSet(Asked) /\ idle \in Nat
        /\ idle + Cardinality(Waiting) <= Cardinality(Asked)
    BY CountedAreFinite DEF SocketsIInv, SocketTypes, RequestsAreCounted
  <2>3. /\ IsFiniteSet(Waiting') /\ Cardinality(Waiting') <= Cardinality(Waiting)
        /\ Cardinality(Waiting') \in Nat /\ Cardinality(Waiting) \in Nat /\ Cardinality(Asked) \in Nat
    BY <2>1, <2>2, FS_Subset, FS_CardinalityType
  <2>4. idle + Cardinality(Waiting') <= Cardinality(Asked)
    BY <2>2, <2>3
  <2>5. QED
    BY <1>4, <2>1, <2>3, <2>4 DEF RequestsAreCounted
<1>20. QED
  BY <1>8, <1>9, <1>14, <1>17, <1>18, <1>19 DEF SocketsIInv

\* Nothing has been sent at the start.
LEMMA SocketsInit == Sockets!Init => SocketsIInv
<1> SUFFICES ASSUME Sockets!Init PROVE SocketsIInv
  OBVIOUS
<1>1. /\ connections = {} /\ idle = 0 /\ sent = << >>
      /\ task = [s \in SessionId |-> "new"]
      /\ socket = [c \in Client |-> [state |-> "new", next |-> 1, hears |-> TRUE]]
      /\ down = [c \in Client |-> << >>] /\ up = [c \in Client |-> << >>]
      /\ requested = [c \in Client |-> 0]
      /\ acks = [s \in SessionId |-> 0] /\ delivered = [s \in SessionId |-> {}]
  BY DEF Sockets!Init
<1>2. SocketTypes
  <2>1. /\ << >> \in Seq(Sockets!Message) /\ << >> \in Seq(FromClient) /\ Len(sent) = 0
        /\ 0 \in 0 .. MaxRequests
    BY <1>1, SocketsAssumption
  <2>2. [state |-> "new", next |-> 1, hears |-> TRUE] \in SocketEnd
    BY DEF SocketEnd
  <2>3. QED
    BY <1>1, <2>1, <2>2 DEF SocketTypes
<1>3. \A c \in Client : DOMAIN down[c] = {} /\ DOMAIN up[c] = {}
  BY <1>1
<1>4. DOMAIN sent = {} /\ \A s \in SessionId : delivered[s] = {} /\ acks[s] = 0
  BY <1>1
<1>5. SentOnce /\ GotOnce /\ AckedOnce
  BY <1>3, <1>4 DEF SentOnce, GotOnce, Gets, AckedOnce
<1>6. AcksAreCounted
  <2>1. \A s \in SessionId : Acking(s) = {}
    BY <1>3 DEF Acking
  <2>2. Cardinality({}) = 0 /\ 0 + 0 <= 0
    BY FS_EmptySet
  <2>3. ASSUME NEW s \in SessionId
        PROVE  acks[s] + Cardinality(Acking(s)) <= Cardinality(delivered[s])
    <3>1. acks[s] = 0 /\ Cardinality(Acking(s)) = 0 /\ Cardinality(delivered[s]) = 0
      BY <1>4, <2>1, <2>2
    <3>2. QED
      BY <3>1
  <2>4. QED
    BY <2>3 DEF AcksAreCounted
<1>7. RequestsAreCounted
  <2>1. Waiting = {} /\ IsFiniteSet(Asked)
    BY <1>2, <1>3, CountedAreFinite DEF Waiting
  <2>2. Cardinality(Waiting) = 0 /\ IsFiniteSet(Waiting) /\ Cardinality(Asked) \in Nat
    BY <2>1, FS_EmptySet, FS_CardinalityType
  <2>3. QED
    BY <1>1, <2>2 DEF RequestsAreCounted
<1>8. QED
  BY <1>2, <1>5, <1>6, <1>7 DEF SocketsIInv

\* Every step of the transport keeps its invariant.
LEMMA SocketsStep ==
  ASSUME SocketsIInv, Sockets!Next
  PROVE  SocketsIInv'
BY ControllerStep, BroadcastStep, SubscriptionStep, ForwardStep, ReceiveStep, CloseStep,
   RequestStreamStep, GetStep DEF Sockets!Next

\* The invariant says what TLC checks of the transport.
LEMMA SocketsAreSound ==
  ASSUME SocketsIInv
  PROVE  Sockets!TypeOK /\ Sockets!AcksAreForDeliveries
<1>1. \A S : Sockets!Cardinality(S) = Cardinality(S)
  BY DEF Sockets!Cardinality, Cardinality
<1>2. idle <= MaxRequests * Cardinality(Client)
  <2>1. /\ idle \in Nat /\ IsFiniteSet(Waiting) /\ IsFiniteSet(Asked)
        /\ idle + Cardinality(Waiting) <= Cardinality(Asked)
        /\ Cardinality(Asked) <= MaxRequests * Cardinality(Client)
    BY CountedAreFinite DEF SocketsIInv, SocketTypes, RequestsAreCounted
  <2>2. /\ Cardinality(Waiting) \in Nat /\ Cardinality(Asked) \in Nat
        /\ Cardinality(Client) \in Nat /\ MaxRequests \in Nat
    BY <2>1, SocketsAssumption, FS_CardinalityType
  <2>3. idle <= Cardinality(Asked)
    BY <2>1, <2>2
  <2>4. MaxRequests * Cardinality(Client) \in Nat
    BY <2>2
  <2>5. QED
    BY <2>1, <2>2, <2>3, <2>4
<1>3. socket \in [Client -> [state : {"new", "open", "closed"},
                             next : 1 .. Len(sent) + 1, hears : BOOLEAN]]
  BY DEF SocketsIInv, SocketTypes, SocketEnd
<1>4. Sockets!TypeOK
  BY <1>1, <1>2, <1>3 DEF SocketsIInv, SocketTypes, Sockets!TypeOK
<1>5. ASSUME NEW s \in SessionId
      PROVE  acks[s] <= Cardinality(delivered[s])
  <2>1. /\ acks[s] \in Nat /\ IsFiniteSet(Acking(s)) /\ IsFiniteSet(delivered[s])
        /\ acks[s] + Cardinality(Acking(s)) <= Cardinality(delivered[s])
    BY CountedAreFinite DEF SocketsIInv, SocketTypes, AcksAreCounted
  <2>2. Cardinality(Acking(s)) \in Nat /\ Cardinality(delivered[s]) \in Nat
    BY <2>1, FS_CardinalityType
  <2>3. QED
    BY <2>1, <2>2
<1>6. QED
  BY <1>1, <1>4, <1>5 DEF Sockets!AcksAreForDeliveries

-----------------------------------------------------------------------------
(* The repository, of which only the types are at stake here *)

\* The repository's types are kept.
LEMMA RepositoryTypes ==
  ASSUME Repository!TypeOK, Repository!Next
  PROVE  Repository!TypeOK'
<1> USE RepositoryAssumption DEF Repository!TypeOK
<1>1. Repository!Idle \in Repository!Call
      /\ \A id \in SessionId : /\ [op |-> "removing", id |-> id] \in Repository!Call
                               /\ [op |-> "checkingHealth", id |-> id] \in Repository!Call
  BY DEF Repository!Call
<1>2. ASSUME NEW c \in Client, NEW id \in SessionId, NEW expected, NEW state \in Repository!State,
             NEW streams \in 0 .. MaxStreams, Repository!Save(c, id, expected, state, streams)
      PROVE  Repository!TypeOK'
  <2> DEFINE new == [author |-> c, state |-> state, streams |-> streams, version |-> nextVersion]
  <2>1. /\ sessions' = [sessions EXCEPT ![id] = new] /\ nextVersion' = nextVersion + 1
        /\ known' = [known EXCEPT ![c][id] = nextVersion] /\ UNCHANGED << call, transaction >>
        /\ nextVersion <= MaxVersion
    BY <1>2 DEF Repository!Save
  <2>2. nextVersion \in 1 .. MaxVersion /\ nextVersion \in 0 .. MaxVersion
        /\ nextVersion + 1 \in 1 .. MaxVersion + 1
    BY <2>1
  <2>3. new \in Repository!Entry
    BY <2>2 DEF Repository!Entry
  <2> HIDE DEF new
  <2>4. sessions' \in [SessionId -> Repository!Entry \cup {Absent}]
    BY <2>1, <2>3
  <2>5. known' \in [Client -> [SessionId -> 0 .. MaxVersion]]
    BY <2>1, <2>2
  <2>6. QED
    BY <2>1, <2>2, <2>4, <2>5
<1>3. ASSUME NEW c \in Client, NEW id \in SessionId,
             \/ Repository!RemoveSession(c, id) \/ Repository!ReadHealth(c, id)
             \/ Repository!AskRemoval(c, id)
      PROVE  Repository!TypeOK'
  <2>1. CASE Repository!RemoveSession(c, id)
    BY <1>1, <2>1 DEF Repository!RemoveSession
  <2>2. CASE Repository!ReadHealth(c, id)
    BY <1>1, <2>2 DEF Repository!ReadHealth
  <2>3. CASE Repository!AskRemoval(c, id)
    <3>1. transaction[c] \cup {id} \in SUBSET SessionId
      BY <2>3 DEF Repository!AskRemoval
    <3>2. QED
      BY <2>3, <3>1 DEF Repository!AskRemoval
  <2>4. QED
    BY <1>3, <2>1, <2>2, <2>3
<1>4. ASSUME NEW c \in Client,
             \/ Repository!RemoveHealth(c) \/ Repository!AnswerHealth(c)
             \/ Repository!Begin(c) \/ Repository!Commit(c) \/ Repository!Rollback(c)
      PROVE  Repository!TypeOK'
  BY <1>1, <1>4 DEF Repository!RemoveHealth, Repository!AnswerHealth, Repository!Begin,
     Repository!Commit, Repository!Rollback
<1>5. QED
  BY <1>2, <1>3, <1>4 DEF Repository!Next

\* Steps of the transport or of the repository keep both, and so do all others.
LEMMA WireAndStoreAlone ==
  ASSUME SocketsIInv, Repository!TypeOK, [Next]_vars
  PROVE  SocketsIInv' /\ Repository!TypeOK'
<1>1. \/ Sockets!Next
      \/ UNCHANGED socketVars
  BY DEF Next, vars
<1>2. \/ Repository!Next
      \/ UNCHANGED repositoryVars
  BY DEF Next, vars
<1>3. CASE UNCHANGED socketVars
  <2>1. SocketTypes' /\ SentOnce' /\ GotOnce'
    BY <1>3 DEF socketVars, SocketsIInv, SocketTypes, SentOnce, GotOnce, Gets, HasGone, FrameOf
  <2>2. QED
    BY <1>2, <1>3, <2>1, AcksStand, RequestsStand, RepositoryTypes
       DEF socketVars, SocketsIInv, repositoryVars, Repository!TypeOK
<1>4. CASE UNCHANGED repositoryVars
  <2>1. Repository!TypeOK'
    BY <1>4 DEF repositoryVars, Repository!TypeOK
  <2>2. QED
    BY <1>1, <1>3, <2>1, SocketsStep
<1>5. QED
  BY <1>3, <1>4 DEF Next, vars

\* The transport keeps its invariant, the repository its types.
LEMMA WireAndStoreAlways == Spec => [](SocketsIInv /\ Repository!TypeOK)
<1>1. Init => SocketsIInv /\ Repository!TypeOK
  <2>1. Repository!Init => Repository!TypeOK
    <3> SUFFICES ASSUME Repository!Init PROVE Repository!TypeOK
      OBVIOUS
    <3>1. /\ MaxVersion \in Nat /\ 1 \in 1 .. MaxVersion + 1 /\ 0 \in 0 .. MaxVersion
      BY RepositoryAssumption
    <3>2. Repository!Idle \in Repository!Call
      BY DEF Repository!Call
    <3>3. QED
      BY <3>1, <3>2 DEF Repository!Init, Repository!TypeOK
  <2>2. QED
    BY <2>1, SocketsInit DEF Init
<1>2. SocketsIInv /\ Repository!TypeOK /\ [Next]_vars => (SocketsIInv /\ Repository!TypeOK)'
  BY WireAndStoreAlone
<1>3. QED
  BY <1>1, <1>2, PTL DEF Spec

\* The WebSocket transport counts no more acknowledgements of a session's frame
\* (acknowledged_frames) than there are clients that got it, through lags, closed
\* sockets and sessions that expire.
THEOREM AcknowledgedIsDelivered == Spec => []Sockets!AcksAreForDeliveries
<1>1. SocketsIInv => Sockets!AcksAreForDeliveries
  BY SocketsAreSound
<1>2. QED
  BY <1>1, WireAndStoreAlways, PTL

\* All five components keep their types and their bounds: in particular, as
\* many sessions are made as clients asked for, and attempts to reconnect are
\* limited by their maximum and the sockets there are.
THEOREM ProgressIsTyped == Spec => []TypeOK
<1> DEFINE Named == part \in {"workflows", "repository", "sockets", "js", "wires"}
<1>1. Init => Named
  BY PartsAssumption DEF Init
<1>2. Named /\ [Next]_vars => Named'
  BY DEF Next, vars
<1>3. JsIInv => Js!TypeOK
  BY DEF JsIInv
<1>4. WiresIInv => Wires!TypeOK
  <2> SUFFICES ASSUME WiresIInv PROVE Wires!TypeOK
    OBVIOUS
  <2>1. \A S : Wires!Cardinality(S) = Cardinality(S)
    BY DEF Wires!Cardinality, Cardinality
  <2>2. attempts < MaxReconnectAttempts + Cardinality(Socket)
    <3>1. Cardinality(Socket) \in Nat /\ MaxReconnectAttempts \in Nat
      BY WiresAssumption, AliveIsFinite
    <3>2. QED
      BY <3>1 DEF WiresIInv, CountsAreBounded
  <2>3. QED
    BY <2>1, <2>2 DEF WiresIInv, CountsAreBounded, Live, Wires!TypeOK
<1>5. WorkflowsIInv => Workflows!TypeOK
  BY DEF WorkflowsIInv
<1>6. SocketsIInv => Sockets!TypeOK
  BY SocketsAreSound
<1>7. Named /\ Workflows!TypeOK /\ Repository!TypeOK /\ Sockets!TypeOK /\ Js!TypeOK /\ Wires!TypeOK
        => TypeOK
  BY DEF TypeOK
<1> HIDE DEF Named
<1>8. QED
  BY <1>1, <1>2, <1>3, <1>4, <1>5, <1>6, <1>7, WorkflowsAlways, JsAlways, WireAndStoreAlways, PTL
     DEF Spec
=============================================================================
