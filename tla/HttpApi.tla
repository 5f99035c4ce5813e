------------------------------- MODULE HttpApi -------------------------------
(***************************************************************************)
(* The handlers behind the HTTP routes (infrastructure/http/               *)
(* axum_adapter.rs).  Each works on two parties that know nothing of each  *)
(* other, the session service and the connection table, with an await in   *)
(* between; a refusal by the table is logged and the request goes on.  The *)
(* timeout monitor sweeps the table meanwhile, and the application closes  *)
(* sessions behind the handlers' back.                                     *)
(*                                                                         *)
(* A command of the session service is one step, as in SessionWorkflows.   *)
(* No route closes a session or removes a connection.  The frames of       *)
(* stream_frames are made up by FrameStream::poll_next, five for each      *)
(* request whatever the session holds, and touch neither party.            *)
(***************************************************************************)
EXTENDS SessionAggregate

CONSTANTS
  SessionId,
  MaxConnections,
  Monitor,
  Client,
  MaxFailures,  \* bound: how often the publisher fails
  Absent        \* the repository has no such session

VARIABLES
  connections, active, idle, due, touched,  \* ConnectionManager
  streamOf,  \* stream_id of each connection
  sessions,  \* the stored session of each identifier, or Absent
  expired,   \* those whose expires_at is over
  request,   \* the request each client is in, and how far
  answered,  \* history: the sessions some client was told of
  failures   \* how often the publisher has failed

Table == INSTANCE ConnectionManager

table == << connections, active, idle, due, touched >>
vars  == << table, streamOf, sessions, expired, request, answered, failures >>

Idle     == [at |-> "idle"]
Quiet(s) == [s EXCEPT !.pending = << >>]
Stores(s, session) == sessions' = [sessions EXCEPT ![s] = Quiet(session)]
Goes(c, r) == request' = [request EXCEPT ![c] = r]

Init ==
  /\ Table!Init
  /\ streamOf = [s \in SessionId |-> NoStream]
  /\ sessions = [s \in SessionId |-> Absent]
  /\ expired = {}
  /\ request = [c \in Client |-> Idle]
  /\ answered = {}
  /\ failures = 0

\* The publisher fails after the session was stored: the request is answered
\* with an error.
Unpublished(c) ==
  /\ failures < MaxFailures
  /\ failures' = failures + 1
  /\ Goes(c, Idle)

-----------------------------------------------------------------------------
(* create_session *)

CreateSession(c, s) ==
  /\ request[c] = Idle
  /\ sessions[s] = Absent
  /\ Stores(s, AfterActivate(NewSession))
  /\ \/ Goes(c, [at |-> "registering", session |-> s]) /\ UNCHANGED failures
     \/ Unpublished(c)
  /\ UNCHANGED << table, streamOf, expired, answered >>

\* Mutant: the last place of the table is never given away.
RegisterLeavingOne(c) ==
  /\ request[c].at = "registering"
  /\ LET s == request[c].session
     IN  /\ IF Cardinality(connections) + 1 < MaxConnections
            THEN Table!RegisterConnection(s) ELSE UNCHANGED table
         /\ answered' = answered \cup {s}
  /\ Goes(c, Idle)
  /\ UNCHANGED << streamOf, sessions, expired, failures >>

Register(c) ==
  /\ request[c].at = "registering"
  /\ LET s == request[c].session
     IN  /\ IF Cardinality(connections) < MaxConnections
            THEN Table!RegisterConnection(s) ELSE UNCHANGED table
         /\ answered' = answered \cup {s}
  /\ Goes(c, Idle)
  /\ UNCHANGED << streamOf, sessions, expired, failures >>

-----------------------------------------------------------------------------
(* start_stream *)

\* update_activity
Touch(s) == IF s \in connections THEN Table!TouchConnection(s) ELSE UNCHANGED table

BeginStream(c, s) ==
  /\ request[c] = Idle
  /\ s \in answered
  /\ Touch(s)
  /\ Goes(c, [at |-> "creating", session |-> s])
  /\ UNCHANGED << streamOf, sessions, expired, answered, failures >>

\* create_and_start_stream: the first command ...
CreateStream(c) ==
  /\ request[c].at = "creating"
  /\ LET s   == request[c].session
         new == {id \in StreamId : MayCreateStream(sessions[s], s \in expired, id)}
     IN  \/ \E id \in new :
              /\ Stores(s, AfterCreateStream(sessions[s], id))
              /\ \/ /\ Goes(c, [at |-> "starting", session |-> s, stream |-> id])
                    /\ UNCHANGED failures
                 \/ Unpublished(c)
         \/ new = {} /\ Goes(c, Idle) /\ UNCHANGED << sessions, failures >>
  /\ UNCHANGED << table, streamOf, expired, answered >>

\* ... and the second, which fails if the session was closed in between.
StartStream(c) ==
  /\ request[c].at = "starting"
  /\ LET s  == request[c].session
         id == request[c].stream
     IN  \/ /\ MayStartStream(sessions[s], id)
            /\ Stores(s, AfterStartStream(sessions[s], id))
            /\ \/ Goes(c, [request[c] EXCEPT !.at = "showing"]) /\ UNCHANGED failures
               \/ Unpublished(c)
         \/ /\ ~MayStartStream(sessions[s], id)
            /\ Goes(c, Idle) /\ UNCHANGED << sessions, failures >>
  /\ UNCHANGED << table, streamOf, expired, answered >>

\* set_stream
ShowStream(c) ==
  /\ request[c].at = "showing"
  /\ LET s == request[c].session
     IN  /\ Touch(s)
         /\ streamOf' = IF s \in connections
                        THEN [streamOf EXCEPT ![s] = request[c].stream] ELSE streamOf
  /\ Goes(c, Idle)
  /\ UNCHANGED << sessions, expired, answered, failures >>

-----------------------------------------------------------------------------
(* The others *)

\* The application closes a session.
CloseSession(s) ==
  /\ s \in answered
  /\ MayClose(sessions[s])
  /\ Stores(s, AfterClose(sessions[s]))
  /\ UNCHANGED << table, streamOf, expired, request, answered, failures >>

Expire(s) ==
  /\ s \in answered \ expired
  /\ expired' = expired \cup {s}
  /\ UNCHANGED << table, streamOf, sessions, request, answered, failures >>

\* The timeout monitor and the clock
Sweep ==
  /\ \/ \E m \in Monitor : Table!CheckTimeouts(m) \/ Table!CloseTimedOut(m)
     \/ \E s \in SessionId : Table!BecomeIdle(s)
  /\ UNCHANGED << streamOf, sessions, expired, request, answered, failures >>

Next ==
  \/ \E c \in Client :
       \/ \E s \in SessionId : CreateSession(c, s) \/ BeginStream(c, s)
       \/ Register(c) \/ CreateStream(c) \/ StartStream(c) \/ ShowStream(c)
  \/ \E s \in SessionId : CloseSession(s) \/ Expire(s)
  \/ Sweep

Spec == Init /\ [][Next]_vars

-----------------------------------------------------------------------------
(* Properties *)

TypeOK ==
  /\ Table!TypeOK
  /\ sessions \in [SessionId -> Session \cup {Absent}]
  /\ streamOf \in [SessionId -> StreamId \cup {NoStream}]
  /\ failures \in 0 .. MaxFailures

\* The two parties agree in spite of the awaits between them: only sessions
\* a client was told of have a connection; one that was told of and has none
\* found the table full, and since nothing is ever removed it still is; and
\* the stream a connection shows is one of its session that was created and
\* is not waiting to be started.
ConnectionsFollowSessions ==
  /\ connections \subseteq answered
  /\ \A s \in answered \ connections : Cardinality(connections) = MaxConnections
  /\ \A s \in connections :
       streamOf[s] # NoStream =>
         sessions[s].streams[streamOf[s]] \notin {"Absent", "Preparing"}
=============================================================================
