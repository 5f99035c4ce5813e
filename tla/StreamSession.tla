---------------------------- MODULE StreamSession ----------------------------
(***************************************************************************)
(* The life of one session under the methods of the aggregate, called one  *)
(* at a time, with the clock that may pass expires_at between two calls    *)
(* and a caller that drains the queue of events.                           *)
(***************************************************************************)
EXTENDS SessionAggregate

VARIABLES
  session,  \* the aggregate
  expired,  \* Utc::now() > expires_at
  taken     \* the events take_events has handed out so far

vars == << session, expired, taken >>

Init ==
  /\ session = NewSession
  /\ expired = FALSE
  /\ taken = << >>

Becomes(s) == session' = s /\ UNCHANGED << expired, taken >>

Activate == MayActivate(session) /\ Becomes(AfterActivate(session))

CreateStream(id) ==
  /\ MayCreateStream(session, expired, id)
  /\ Becomes(AfterCreateStream(session, id))

StartStream(id) ==
  MayStartStream(session, id) /\ Becomes(AfterStartStream(session, id))

CompleteStream(id) ==
  MayCompleteStream(session, id) /\ Becomes(AfterCompleteStream(session, id))

FailStream(id) ==
  MayFailStream(session, id) /\ Becomes(AfterFailStream(session, id))

Close == MayClose(session) /\ Becomes(AfterClose(session))

\* Mutant: the events are handed out and kept.
TakeEventsKeeping ==
  /\ taken' = taken \o session.pending
  /\ session.pending # << >>
  /\ UNCHANGED << session, expired >>

TakeEvents ==
  /\ taken' = taken \o session.pending
  /\ session.pending # << >>
  /\ session' = AfterTakeEvents(session)
  /\ UNCHANGED expired

Expire == ~expired /\ expired' = TRUE /\ UNCHANGED << session, taken >>

Next ==
  \/ Activate
  \/ \E id \in StreamId : \/ CreateStream(id) \/ StartStream(id)
                          \/ CompleteStream(id) \/ FailStream(id)
  \/ Close
  \/ TakeEvents
  \/ Expire

Spec == Init /\ [][Next]_vars

-----------------------------------------------------------------------------
(* Properties *)

TypeOK ==
  /\ session \in Session
  /\ expired \in BOOLEAN
  /\ taken \in Seq(Event)

\* The session's counters, states and limit agree after any sequence of calls.
SessionConsistent == Consistent(session)

\* All the events the session has raised, oldest first.
Log == taken \o session.pending

\* The event log is a faithful, ordered history of the session.
EventsTellTheSession == EventsTellTheStory(Log, session)

\* The session implements StreamLifecycle: whatever the calls, a stream that
\* has ended stays as it is, and a closed session leaves nothing running.
Lifecycle ==
  INSTANCE StreamLifecycle WITH
    streams <- session.streams,
    door    <- CASE session.state = "Initializing" -> "unopened"
                 [] session.state = "Active"       -> "open"
                 [] session.state = "Completed"    -> "shut"

FollowsLifecycle == Lifecycle!Spec
=============================================================================
