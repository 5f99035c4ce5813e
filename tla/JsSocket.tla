------------------------------- MODULE JsSocket -------------------------------
(***************************************************************************)
(* The WebSocket transport of the JavaScript client (crates/pjs-js-client/ *)
(* src/transport/websocket.ts) with connect() and disconnect() of the      *)
(* client around it.  The network may drop a socket or refuse one; the     *)
(* transport then connects again after a while, with a delay that doubles, *)
(* and neither disconnect() nor a new connect() stops that timer.  Every   *)
(* socket keeps its callbacks, and they all share the transport's fields,  *)
(* also when `ws` has long been another socket.                            *)
(*                                                                         *)
(* The connections of JsClient are of one step; here they take their time. *)
(* A socket that is closed and no longer `ws` is of no effect, and stands  *)
(* for the next one.  Messages and the delays themselves are left out.     *)
(***************************************************************************)
EXTENDS Naturals, FiniteSets

CONSTANTS
  Socket,  \* bounds how many are alive or waited for at a time
  MaxReconnectAttempts,
  NoSocket

VARIABLES
  sockets,    \* of each: what it does, and for whom it is opened
  ws,
  opened,     \* isConnected of the transport
  connected,  \* isConnected of the client
  attempts,   \* reconnectAttempts
  timers,     \* how many reconnections are due
  doubled,    \* history: a connection was begun while another was alive
  hanging     \* history: a connect() that will never be answered

vars == << sockets, ws, opened, connected, attempts, timers, doubled, hanging >>

Closed == [is |-> "closed", opener |-> "nobody"]
Alive  == {s \in Socket : sockets[s] # Closed}

Init ==
  /\ sockets = [s \in Socket |-> Closed]
  /\ ws = NoSocket
  /\ opened = FALSE /\ connected = FALSE
  /\ attempts = 0 /\ timers = 0
  /\ doubled = FALSE /\ hanging = FALSE

\* WebSocketTransport.connect
Begin(s, opener) ==
  /\ sockets[s] = Closed /\ s # ws
  /\ sockets' = [sockets EXCEPT ![s] = [is |-> "connecting", opener |-> opener]]
  /\ ws' = s

\* PJSClient.connect, which stream() calls as well: nothing says that a
\* connection is under way.
Connect(s) ==
  /\ ~connected
  /\ Cardinality(Alive) + timers < Cardinality(Socket) - 1
  /\ Begin(s, "client")
  /\ doubled' = (doubled \/ Alive # {} \/ timers > 0)
  /\ UNCHANGED << opened, connected, attempts, timers, hanging >>

\* onopen
Open(s) ==
  /\ sockets[s].is = "connecting"
  /\ sockets' = [sockets EXCEPT ![s].is = "open"]
  /\ opened' = TRUE
  /\ attempts' = 0
  /\ connected' = (connected \/ sockets[s].opener = "client")
  /\ UNCHANGED << ws, timers, doubled, hanging >>

\* Mutant: neither a failed attempt nor the last one is reported.
OnCloseQuietly(s, told) ==
  /\ sockets' = [sockets EXCEPT ![s] = Closed]
  /\ opened' = FALSE
  /\ timers' = IF attempts < MaxReconnectAttempts THEN timers + 1 ELSE timers
  /\ UNCHANGED connected

\* onclose, unless the code is 1000; `told` if a disconnect is emitted anyway.
\* A failed last attempt is reported twice.
OnClose(s, told) ==
  LET again == attempts < MaxReconnectAttempts
  IN  /\ sockets' = [sockets EXCEPT ![s] = Closed]
      /\ opened' = FALSE
      /\ timers' = IF again THEN timers + 1 ELSE timers
      /\ connected' = (connected /\ again /\ ~told)

\* onclose with 1000: the client is told.
OnNormalClose(s) ==
  /\ sockets' = [sockets EXCEPT ![s] = Closed]
  /\ opened' = FALSE
  /\ connected' = FALSE
  /\ UNCHANGED timers

\* onerror and onclose of a socket that does not open.  While another is open
\* the error is emitted, and the promise of connect() neither resolved nor
\* rejected; otherwise it is rejected, and a failed reconnection is a
\* disconnect, even if there will be another.
Refuse(s) ==
  /\ sockets[s].is \in {"connecting", "cancelled"}
  /\ OnClose(s, sockets[s].opener = "timer" /\ ~opened)
  /\ hanging' = (hanging \/ (opened /\ sockets[s].opener = "client"))
  /\ UNCHANGED << ws, attempts, doubled >>

\* The network drops an open socket, perhaps before it has taken leave.
Drop(s) ==
  /\ sockets[s].is \in {"open", "closing"}
  /\ OnClose(s, FALSE)
  /\ UNCHANGED << ws, attempts, doubled, hanging >>

\* An open socket is closed by the server, or has been by disconnect().
Close(s) ==
  /\ sockets[s].is \in {"open", "closing"}
  /\ OnNormalClose(s)
  /\ UNCHANGED << ws, attempts, doubled, hanging >>

\* Mutant: the timer goes on.
ReconnectRepeatedly(s) ==
  /\ timers > 0 /\ attempts < MaxReconnectAttempts
  /\ attempts' = attempts + 1
  /\ Begin(s, "timer")
  /\ doubled' = (doubled \/ Alive # {} \/ timers > 1)
  /\ UNCHANGED << opened, connected, timers, hanging >>

\* The timer fires.
Reconnect(s) ==
  /\ timers > 0
  /\ timers' = timers - 1
  /\ attempts' = attempts + 1
  /\ Begin(s, "timer")
  /\ doubled' = (doubled \/ Alive # {} \/ timers > 1)
  /\ UNCHANGED << opened, connected, hanging >>

\* disconnect() closes `ws`; one that is still connecting fails by that.
Disconnect ==
  /\ connected
  /\ sockets' = [s \in Socket |->
                   IF s # ws THEN sockets[s]
                   ELSE CASE sockets[s].is = "open"       -> [sockets[s] EXCEPT !.is = "closing"]
                          [] sockets[s].is = "connecting" -> [sockets[s] EXCEPT !.is = "cancelled"]
                          [] OTHER                        -> sockets[s]]
  /\ ws' = NoSocket
  /\ opened' = FALSE /\ connected' = FALSE
  /\ UNCHANGED << attempts, timers, doubled, hanging >>

Next ==
  \/ \E s \in Socket :
       Connect(s) \/ Open(s) \/ Refuse(s) \/ Drop(s) \/ Close(s) \/ Reconnect(s)
  \/ Disconnect

\* Timers fire and attempts to connect come to an end.
Fairness ==
  /\ WF_vars(\E s \in Socket : Reconnect(s))
  /\ \A s \in Socket : WF_vars(Open(s) \/ Refuse(s))

Spec == Init /\ [][Next]_vars /\ Fairness

-----------------------------------------------------------------------------
(* Properties *)

\* Reconnections are bounded, although those of several sockets count the
\* same attempts.
TypeOK ==
  /\ sockets \in [Socket -> [is : {"connecting", "open", "closing", "cancelled"},
                             opener : {"client", "timer"}] \cup {Closed}]
  /\ ws \in Socket \cup {NoSocket}
  /\ Cardinality(Alive) + timers < Cardinality(Socket)
  /\ attempts < MaxReconnectAttempts + Cardinality(Socket)
  /\ opened => \E s \in Socket : sockets[s].is = "open"

\* What client and transport both call connected is a socket that can be
\* sent on, and every connect() is answered, for as long as no connection is
\* begun while another is alive or due: sockets left behind share the fields.
ConnectedIsUsable ==
  ~doubled =>
    /\ opened /\ connected => sockets[ws].is = "open"
    /\ Cardinality(Alive) + timers <= 1
    /\ ~hanging

\* A connection that is lost is restored, or the client is told.
LostIsRestoredOrTold == (connected /\ ~opened) ~> (opened \/ ~connected)
=============================================================================
