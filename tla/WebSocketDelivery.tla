-------------------------- MODULE WebSocketDelivery --------------------------
(***************************************************************************)
(* The WebSocket transport (infrastructure/websocket): the controller with *)
(* its broadcast channel (mod.rs), one server task per socket (server.rs)  *)
(* and the Rust client (client.rs).  Every socket is sent the messages of  *)
(* every session.                                                          *)
(*                                                                         *)
(* A client asks for a stream under an identifier of its own; the server   *)
(* enters a session under another one and does not start it.  Streams are  *)
(* started by the application, with start_stream.  A plan is one frame,    *)
(* after which StreamComplete is sent.  The client knows none of the       *)
(* server's identifiers: it applies no frame, and acknowledges them all.   *)
(*                                                                         *)
(* The network delivers in order until a socket is closed.  Payloads,      *)
(* checksums, metrics, pings and errors are left out.                      *)
(***************************************************************************)
EXTENDS Naturals, Sequences, FiniteSets

CONSTANTS
  Client,
  SessionId,    \* identifiers of the sessions the application starts
  Capacity,     \* of the broadcast channel, 1000 in the code
  MaxRequests,  \* bound: requests of a client
  MaxParties    \* bound: clients that connect and streams that start, together

VARIABLES
  sessions,   \* AdaptiveStreamController::sessions, those that are started
  idle,       \* how many were entered for clients' requests
  task,       \* stream_frames of each session: what it will send next
  sent,       \* all that was broadcast; the channel keeps the last Capacity
  socket,     \* the server's end: its state, next message, and if it hears the channel
  down, up,   \* what is under way to and from each client
  requested,  \* how many PjsWebSocketClient::sessions has
  acks,       \* acknowledged_frames of each session
  delivered   \* history: the clients that have got each session's frame

vars == << sessions, idle, task, sent, socket, down, up, requested, acks, delivered >>

Message == [kind : {"StreamFrame", "StreamComplete"}, session : SessionId]

Init ==
  /\ sessions = {}
  /\ idle = 0
  /\ task = [s \in SessionId |-> "new"]
  /\ sent = << >>
  /\ socket = [c \in Client |-> [state |-> "new", next |-> 1, hears |-> TRUE]]
  /\ down = [c \in Client |-> << >>]
  /\ up = [c \in Client |-> << >>]
  /\ requested = [c \in Client |-> 0]
  /\ acks = [s \in SessionId |-> 0]
  /\ delivered = [s \in SessionId |-> {}]

Parties == Cardinality({c \in Client : socket[c].state # "new"})
             + Cardinality({s \in SessionId : task[s] # "new"})

Open(c) == socket[c].state = "open"

-----------------------------------------------------------------------------
(* The controller *)

\* start_stream: create_session, then start_streaming
StartStream(s) ==
  /\ task[s] = "new" /\ Parties < MaxParties
  /\ sessions' = sessions \cup {s}
  /\ task' = [task EXCEPT ![s] = "StreamFrame"]
  /\ UNCHANGED << idle, sent, socket, down, up, requested, acks, delivered >>

\* stream_frames.  Sending fails when no socket is subscribed: the frame is
\* lost, and the task goes on to the completion.
Broadcast(s) ==
  /\ task[s] \in {"StreamFrame", "StreamComplete"}
  /\ sent' = IF \E c \in Client : Open(c)
             THEN Append(sent, [kind |-> task[s], session |-> s]) ELSE sent
  /\ task' = [task EXCEPT ![s] = IF @ = "StreamFrame" THEN "StreamComplete" ELSE "done"]
  /\ UNCHANGED << sessions, idle, socket, down, up, requested, acks, delivered >>

\* cleanup_expired_sessions; a task goes on without its session.
Expire(s) ==
  /\ s \in sessions
  /\ sessions' = sessions \ {s}
  /\ UNCHANGED << idle, task, sent, socket, down, up, requested, acks, delivered >>

-----------------------------------------------------------------------------
(* handle_socket *)

Connect(c) ==
  /\ socket[c].state = "new" /\ Parties < MaxParties
  /\ socket' = [socket EXCEPT ![c] =
                  [state |-> "open", next |-> Len(sent) + 1, hears |-> TRUE]]
  /\ UNCHANGED << sessions, idle, task, sent, down, up, requested, acks, delivered >>

Overwritten(c) == socket[c].next + Capacity <= Len(sent)
Behind(c)      == socket[c].next <= Len(sent)

Forward(c) ==
  /\ Open(c) /\ socket[c].hears /\ Behind(c) /\ ~Overwritten(c)
  /\ down' = [down EXCEPT ![c] = Append(@, sent[socket[c].next])]
  /\ socket' = [socket EXCEPT ![c].next = @ + 1]
  /\ UNCHANGED << sessions, idle, task, sent, up, requested, acks, delivered >>

\* Lagged is an Err: the branch of the select! does not match and is switched
\* off until another branch is taken.
Lag(c) ==
  /\ Open(c) /\ socket[c].hears /\ Overwritten(c)
  /\ socket' = [socket EXCEPT ![c].next = Len(sent) - Capacity + 1, ![c].hears = FALSE]
  /\ UNCHANGED << sessions, idle, task, sent, down, up, requested, acks, delivered >>

\* handle_websocket_message, an acknowledgement: refused if the session is gone
HandleAck(c, message) ==
  /\ message.kind = "FrameAck"
  /\ acks' = IF message.session \in sessions
             THEN [acks EXCEPT ![message.session] = @ + 1] ELSE acks
  /\ UNCHANGED << sessions, idle >>

\* A StreamInit: a session under a new identifier, which is not started
HandleInit(c, message) ==
  /\ message.kind = "StreamInit"
  /\ idle' = idle + 1
  /\ UNCHANGED << sessions, acks >>

\* Mutant: the select! is not entered again.
ReceiveOnly(c) ==
  /\ Open(c) /\ up[c] # << >>
  /\ HandleAck(c, Head(up[c])) \/ HandleInit(c, Head(up[c]))
  /\ up' = [up EXCEPT ![c] = Tail(@)]
  /\ UNCHANGED << socket, task, sent, down, requested, delivered >>

\* Any message from the client ends the select!, and all branches are tried again.
Receive(c) ==
  /\ Open(c) /\ up[c] # << >>
  /\ HandleAck(c, Head(up[c])) \/ HandleInit(c, Head(up[c]))
  /\ up' = [up EXCEPT ![c] = Tail(@)]
  /\ socket' = [socket EXCEPT ![c].hears = TRUE]
  /\ UNCHANGED << task, sent, down, requested, delivered >>

\* Either side closes; what was under way is lost.
Close(c) ==
  /\ Open(c)
  /\ socket' = [socket EXCEPT ![c] = [state |-> "closed", next |-> 1, hears |-> FALSE]]
  /\ down' = [down EXCEPT ![c] = << >>]
  /\ up' = [up EXCEPT ![c] = << >>]
  /\ UNCHANGED << sessions, idle, task, sent, requested, acks, delivered >>

-----------------------------------------------------------------------------
(* The client *)

\* request_stream, before or after connect
RequestStream(c) ==
  /\ socket[c].state # "closed"
  /\ requested[c] < MaxRequests
  /\ requested' = [requested EXCEPT ![c] = @ + 1]
  /\ up' = [up EXCEPT ![c] = Append(@, [kind |-> "StreamInit"])]
  /\ UNCHANGED << sessions, idle, task, sent, socket, down, acks, delivered >>

\* handle_incoming_message
Get(c) ==
  /\ down[c] # << >>
  /\ LET message == Head(down[c])
     IN  IF message.kind = "StreamFrame"
         THEN /\ up' = [up EXCEPT ![c] =
                          Append(@, [kind |-> "FrameAck", session |-> message.session])]
              /\ delivered' = [delivered EXCEPT ![message.session] = @ \cup {c}]
         ELSE UNCHANGED << up, delivered >>
  /\ down' = [down EXCEPT ![c] = Tail(@)]
  /\ UNCHANGED << sessions, idle, task, sent, socket, requested, acks >>

Next ==
  \/ \E s \in SessionId : StartStream(s) \/ Broadcast(s) \/ Expire(s)
  \/ \E c \in Client :
       Connect(c) \/ Forward(c) \/ Lag(c) \/ Receive(c) \/ Close(c) \/ Get(c) \/ RequestStream(c)

\* The socket tasks and the client's tasks go on; a select! takes a branch
\* that is ready.
Fairness ==
  \A c \in Client : WF_vars(Forward(c) \/ Lag(c)) /\ WF_vars(Receive(c)) /\ WF_vars(Get(c))

Spec == Init /\ [][Next]_vars /\ Fairness

-----------------------------------------------------------------------------
(* Properties *)

TypeOK ==
  /\ sessions \subseteq SessionId
  /\ idle <= MaxRequests * Cardinality(Client)
  /\ sent \in Seq(Message)
  /\ \A c \in Client : down[c] \in Seq(Message)
  /\ socket \in [Client -> [state : {"new", "open", "closed"},
                            next : 1 .. Len(sent) + 1, hears : BOOLEAN]]

\* A session counts no more acknowledgements than clients have got its frame.
AcksAreForDeliveries ==
  \A s \in SessionId : acks[s] <= Cardinality(delivered[s])

\* A socket that falls behind catches up or is closed, or it has fallen
\* asleep over a lag and its client is silent.  Finitely many messages are
\* broadcast: a socket that never caught up would keep this from coming true
\* again.
Asleep(c) == ~socket[c].hears /\ up[c] = << >>
LaggardsCatchUp == []<>(\A c \in Client : Open(c) /\ Behind(c) => Asleep(c))

\* A client that says anything wakes its socket up.
SpeakingWakes ==
  \A c \in Client : ~socket[c].hears /\ up[c] # << >> ~> socket[c].hears \/ ~Open(c)

SocketsDeliver == []AcksAreForDeliveries /\ LaggardsCatchUp /\ SpeakingWakes
=============================================================================
