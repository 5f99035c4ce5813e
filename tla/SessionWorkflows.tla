-------------------------- MODULE SessionWorkflows --------------------------
(***************************************************************************)
(* SessionService (application/services/session_service.rs): workflows of  *)
(* several commands and queries on one session, each waiting for the       *)
(* answer before the next is sent.  Other clients' workflows run in        *)
(* between; nothing holds the session for the length of a workflow.        *)
(*                                                                         *)
(* A command is one step here.  The races inside a command, which can undo *)
(* what another has done, are the subject of SessionCommands; what is said *)
(* here holds where commands do not overlap, and is about what happens     *)
(* between them.  A command is applied and answered with Ok, applied and   *)
(* answered with an error because the publisher failed, or refused.  The   *)
(* events themselves are left out: a session's queue is kept empty.        *)
(***************************************************************************)
EXTENDS SessionAggregate

CONSTANTS
  Client,
  MaxFailures  \* bound: how often the publisher fails

VARIABLES
  session,   \* the stored session, activated before anyone knows it
  expired,
  flow,      \* the workflow each client is in, and how far
  failures,  \* how often the publisher has failed
  orphaned,  \* history: streams whose creator was told of an error
  outcome    \* history: what the last shutdown of the session reported

vars == << session, expired, flow, failures, orphaned, outcome >>

Quiet(s) == [s EXCEPT !.pending = << >>]
Idle     == [at |-> "idle"]

Flow ==
  {Idle} \cup [at : {"starting"}, id : StreamId] \cup [at : {"counting"}]
         \cup [at : {"closing"}, seen : SUBSET StreamId]
         \cup [at : {"shutting"}, todo : SUBSET StreamId,
               completed : SUBSET StreamId, failed : SUBSET StreamId]

Goes(c, f) == flow' = [flow EXCEPT ![c] = f]
Active   == StreamsIn(session, ActiveStates)

None == [closed |-> FALSE, completed |-> {}, failed |-> {}]

Init ==
  /\ session = Quiet(AfterActivate(NewSession))
  /\ expired = FALSE
  /\ flow = [c \in Client |-> Idle]
  /\ failures = 0
  /\ orphaned = {}
  /\ outcome = None

\* A command that the session accepts and whose event is published ...
Succeeds(s) == session' = Quiet(s) /\ UNCHANGED failures

\* ... or is not: the session has changed, the caller gets an error.
SucceedsUnpublished(s) ==
  /\ session' = Quiet(s)
  /\ failures < MaxFailures
  /\ failures' = failures + 1

Refused == UNCHANGED << session, failures >>

-----------------------------------------------------------------------------
(* create_and_start_stream *)

Create(c, id) ==
  /\ flow[c] = Idle
  /\ MayCreateStream(session, expired, id)
  /\ \/ /\ Succeeds(AfterCreateStream(session, id))
        /\ Goes(c, [at |-> "starting", id |-> id])
        /\ UNCHANGED orphaned
     \/ /\ SucceedsUnpublished(AfterCreateStream(session, id))
        /\ Goes(c, Idle)
        /\ orphaned' = orphaned \cup {id}
  /\ UNCHANGED << expired, outcome >>

\* Mutant: starting looks at the expiry, as creating does.
StartUnexpired(c) ==
  /\ flow[c].at = "starting"
  /\ LET id == flow[c].id
     IN  IF MayStartStream(session, id) /\ ~expired
         THEN \/ Succeeds(AfterStartStream(session, id))
              \/ SucceedsUnpublished(AfterStartStream(session, id))
         ELSE Refused
  /\ Goes(c, Idle)
  /\ UNCHANGED << expired, orphaned, outcome >>

\* A stream that was cancelled or failed in the meantime cannot be started.
Start(c) ==
  /\ flow[c].at = "starting"
  /\ LET id == flow[c].id
     IN  IF MayStartStream(session, id)
         THEN \/ Succeeds(AfterStartStream(session, id))
              \/ SucceedsUnpublished(AfterStartStream(session, id))
         ELSE Refused
  /\ Goes(c, Idle)
  /\ UNCHANGED << expired, orphaned, outcome >>

-----------------------------------------------------------------------------
(* complete_stream_and_maybe_close_session *)

\* A refused or unpublished completion ends the workflow.
Complete(c, id) ==
  /\ flow[c] = Idle
  /\ MayCompleteStream(session, id)
  /\ \/ Succeeds(AfterCompleteStream(session, id)) /\ Goes(c, [at |-> "counting"])
     \/ SucceedsUnpublished(AfterCompleteStream(session, id)) /\ Goes(c, Idle)
  /\ UNCHANGED << expired, orphaned, outcome >>

\* Mutant: only the streams that are being sent count as active.
CountActiveStreaming(c) ==
  /\ flow[c].at = "counting"
  /\ Goes(c, IF StreamsIn(session, {"Streaming"}) = {}
             THEN [at |-> "closing", seen |-> StreamsIn(session, Known)] ELSE Idle)
  /\ UNCHANGED << session, expired, failures, orphaned, outcome >>

\* The query.  `seen` is what the answer showed, for the property below.
CountActive(c) ==
  /\ flow[c].at = "counting"
  /\ Goes(c, IF Active = {}
             THEN [at |-> "closing", seen |-> StreamsIn(session, Known)] ELSE Idle)
  /\ UNCHANGED << session, expired, failures, orphaned, outcome >>

CloseWhenDone(c) ==
  /\ flow[c].at = "closing"
  /\ IF MayClose(session)
     THEN Succeeds(AfterClose(session)) \/ SucceedsUnpublished(AfterClose(session))
     ELSE Refused
  /\ Goes(c, Idle)
  /\ UNCHANGED << expired, orphaned, outcome >>

-----------------------------------------------------------------------------
(* graceful_shutdown_session *)

\* The query: the streams to complete are those active now.
BeginShutdown(c) ==
  /\ flow[c] = Idle
  /\ Goes(c, [at |-> "shutting", todo |-> Active, completed |-> {}, failed |-> {}])
  /\ UNCHANGED << session, expired, failures, orphaned, outcome >>

\* Mutant: a completion that is refused is reported as done.
ShutStreamAnyway(c, id) ==
  /\ flow[c].at = "shutting" /\ id \in flow[c].todo
  /\ IF MayCompleteStream(session, id)
     THEN Succeeds(AfterCompleteStream(session, id)) ELSE Refused
  /\ flow' = [flow EXCEPT ![c].todo = @ \ {id}, ![c].completed = @ \cup {id}]
  /\ UNCHANGED << expired, orphaned, outcome >>

\* Mutant: the first error ends the shutdown.
ShutStreamOrGiveUp(c, id) ==
  /\ flow[c].at = "shutting" /\ id \in flow[c].todo
  /\ \/ /\ MayCompleteStream(session, id)
        /\ Succeeds(AfterCompleteStream(session, id))
        /\ flow' = [flow EXCEPT ![c].todo = @ \ {id}, ![c].completed = @ \cup {id}]
     \/ /\ IF MayCompleteStream(session, id)
           THEN SucceedsUnpublished(AfterCompleteStream(session, id)) ELSE Refused
        /\ Goes(c, Idle)
  /\ UNCHANGED << expired, orphaned, outcome >>

\* One stream after another, in the order of the map: Ok is reported as
\* completed, an error as failed, and the loop goes on.
ShutStream(c, id) ==
  /\ flow[c].at = "shutting" /\ id \in flow[c].todo
  /\ \/ /\ MayCompleteStream(session, id)
        /\ Succeeds(AfterCompleteStream(session, id))
        /\ flow' = [flow EXCEPT ![c].todo = @ \ {id}, ![c].completed = @ \cup {id}]
     \/ /\ IF MayCompleteStream(session, id)
           THEN SucceedsUnpublished(AfterCompleteStream(session, id)) ELSE Refused
        /\ flow' = [flow EXCEPT ![c].todo = @ \ {id}, ![c].failed = @ \cup {id}]
  /\ UNCHANGED << expired, orphaned, outcome >>

ShutSession(c) ==
  /\ flow[c].at = "shutting" /\ flow[c].todo = {}
  /\ \E ok \in BOOLEAN :
       /\ IF ok THEN MayClose(session) /\ Succeeds(AfterClose(session))
          ELSE IF MayClose(session) THEN SucceedsUnpublished(AfterClose(session))
          ELSE Refused
       /\ outcome' = [closed |-> ok, completed |-> flow[c].completed, failed |-> flow[c].failed]
  /\ Goes(c, Idle)
  /\ UNCHANGED << expired, orphaned >>

Expire ==
  /\ ~expired
  /\ expired' = TRUE
  /\ UNCHANGED << session, flow, failures, orphaned, outcome >>

Next ==
  \/ \E c \in Client :
       \/ \E id \in StreamId : Create(c, id) \/ Complete(c, id) \/ ShutStream(c, id)
       \/ Start(c) \/ CountActive(c) \/ CloseWhenDone(c)
       \/ BeginShutdown(c) \/ ShutSession(c)
  \/ Expire

\* A client whose workflow is under way goes on with it.
Fairness ==
  \A c \in Client :
    WF_vars(Start(c) \/ CountActive(c) \/ CloseWhenDone(c) \/ ShutSession(c)
              \/ \E id \in StreamId : ShutStream(c, id))

Spec == Init /\ [][Next]_vars /\ Fairness

-----------------------------------------------------------------------------
(* Properties *)

TypeOK ==
  /\ session \in Session
  /\ expired \in BOOLEAN
  /\ flow \in [Client -> Flow]
  /\ failures \in 0 .. MaxFailures
  /\ orphaned \subseteq StreamId
  /\ outcome \in [closed : BOOLEAN, completed : SUBSET StreamId, failed : SUBSET StreamId]

Becomes(id, state) == session.streams[id] # state /\ session'.streams[id] = state

\* The close at the end of a workflow cancels what is active at that moment.
\* When a client completes its last stream, this can only hit streams that
\* were created behind its back, after its query.
CloseCancelsOnlyUnseen ==
  [][\A c \in Client :
       flow[c].at = "closing" /\ flow'[c] = Idle =>
         \A id \in flow[c].seen : ~Becomes(id, "Cancelled")]_vars

\* What a shutdown reports as completed is Completed, now and later, though
\* others change the session between its commands.  One that reports the
\* session closed has left no stream active, and while it is under way no
\* stream in one of its two lists is still to be done.
ShutdownReportsTheTruth ==
  /\ \A id \in outcome.completed : session.streams[id] = "Completed"
  /\ outcome.closed => Active = {}
  /\ \A c \in Client :
       flow[c].at = "shutting" =>
         /\ \A id \in flow[c].completed : session.streams[id] = "Completed"
         /\ flow[c].todo \cap (flow[c].completed \cup flow[c].failed) = {}

\* A stream created by this service does not stay in Preparing while the
\* session lives, where it would block all frames of the session: somebody
\* is about to start it, or its creator was told that creating it failed.
PreparingIsAttendedTo ==
  \A id \in StreamsIn(session, {"Preparing"}) :
    id \in orphaned \/ \E c \in Client : flow[c].at = "starting" /\ flow[c].id = id

\* A shutdown comes to its end, and the session is closed by then or was
\* before; a publisher that fails does not stop it.
ShutdownCloses ==
  \A c \in Client : flow[c].at = "shutting" ~> session.state = "Completed"
=============================================================================
