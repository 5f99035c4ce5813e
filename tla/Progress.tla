------------------------------ MODULE Progress ------------------------------
(***************************************************************************)
(* The components whose clients wait for an end: the workflows of the      *)
(* session service, the versioned session repository, the WebSocket        *)
(* transport and the JavaScript client with its socket.  They share no     *)
(* state; each behaviour exercises one of them, chosen at the start, so    *)
(* that the state space is the sum of theirs.                              *)
(***************************************************************************)
EXTENDS Naturals, Sequences, FiniteSets

CONSTANTS
  Parts,                                                    \* what is exercised
  Client, SessionId, Absent, MaxVersion, MaxStreams,        \* SessionRepository
  StreamId, NoStream, MaxConcurrentStreams, MaxFailures,    \* SessionWorkflows
  Capacity, MaxRequests, MaxParties,                        \* WebSocketDelivery
  StreamCall, NoCall, LastFrame,                            \* JsClient
  Socket, NoSocket, MaxReconnectAttempts                    \* JsSocket

ASSUME WorkflowsAssumption ==
  /\ IsFiniteSet(StreamId) /\ NoStream \notin StreamId
  /\ MaxConcurrentStreams \in Nat /\ MaxFailures \in Nat

\* A response is a skeleton, any number of patches, and Complete.
ASSUME JsAssumption ==
  NoCall \notin StreamCall /\ LastFrame \in Nat /\ LastFrame > 1

ASSUME WiresAssumption ==
  IsFiniteSet(Socket) /\ Socket # {} /\ NoSocket \notin Socket /\ MaxReconnectAttempts \in Nat

\* Each party of a wire is one of finitely many, and asks finitely often.
ASSUME SocketsAssumption ==
  IsFiniteSet(Client) /\ Capacity \in Nat /\ MaxRequests \in Nat

ASSUME RepositoryAssumption == MaxVersion \in Nat

ASSUME PartsAssumption ==
  Parts \subseteq {"workflows", "repository", "sockets", "js", "wires"}

VARIABLES
  part,                                                     \* the component exercised
  session, expired, flow, failures, orphaned, outcome,      \* SessionWorkflows
  sessions, nextVersion, call, known, transaction,          \* SessionRepository
  connections, idle, task, sent, socket, down, up,          \* WebSocketDelivery
  requested, acks, delivered,
  transport, connected, current, promise, settling,         \* JsClient
  response, chunk, told, result, crossed,
  wsSockets, ws, opened, online, attempts, timers, doubled, \* JsSocket
  hanging

Workflows  == INSTANCE SessionWorkflows
Repository == INSTANCE SessionRepository
Sockets    == INSTANCE WebSocketDelivery WITH sessions <- connections
Js         == INSTANCE JsClient WITH Last <- LastFrame
Wires      == INSTANCE JsSocket WITH sockets <- wsSockets, connected <- online

\* How a part is set up matters only where it is the part exercised.
Init ==
  /\ part \in Parts
  /\ part = "js" \/ transport = "http"
  /\ Workflows!Init /\ Repository!Init /\ Sockets!Init /\ Js!Init /\ Wires!Init

workflowVars   == << session, expired, flow, failures, orphaned, outcome >>
repositoryVars == << sessions, nextVersion, call, known, transaction >>
socketVars     == << connections, idle, task, sent, socket, down, up, requested, acks,
                     delivered >>
jsVars         == << transport, connected, current, promise, settling, response, chunk, told,
                     result, crossed >>
wireVars       == << wsSockets, ws, opened, online, attempts, timers, doubled, hanging >>

vars == << part, workflowVars, repositoryVars, socketVars, jsVars, wireVars >>

\* Every part but the one exercised stays as it was.
Next ==
  /\ UNCHANGED part
  /\ \/ /\ part = "workflows" /\ Workflows!Next
        /\ UNCHANGED << repositoryVars, socketVars, jsVars, wireVars >>
     \/ /\ part = "repository" /\ Repository!Next
        /\ UNCHANGED << workflowVars, socketVars, jsVars, wireVars >>
     \/ /\ part = "sockets" /\ Sockets!Next
        /\ UNCHANGED << workflowVars, repositoryVars, jsVars, wireVars >>
     \/ /\ part = "js" /\ Js!Next
        /\ UNCHANGED << workflowVars, repositoryVars, socketVars, wireVars >>
     \/ /\ part = "wires" /\ Wires!Next
        /\ UNCHANGED << workflowVars, repositoryVars, socketVars, jsVars >>

\* Repository!Fairness: a task that waits for a lock is run when it is free.
LocksAreFair ==
  \A c \in Client :
    /\ WF_repositoryVars(Repository!RemoveHealth(c))
    /\ WF_repositoryVars(Repository!AnswerHealth(c))

Spec ==
  /\ Init /\ [][Next]_vars
  /\ Workflows!Fairness /\ LocksAreFair /\ Sockets!Fairness /\ Js!Fairness /\ Wires!Fairness

-----------------------------------------------------------------------------
(* The properties, stated in the modules of the parts *)

\* Every part keeps its types and its bounds.
TypeOK ==
  CASE part = "workflows"  -> Workflows!TypeOK
    [] part = "repository" -> Repository!TypeOK
    [] part = "sockets"    -> Sockets!TypeOK
    [] part = "js"         -> Js!TypeOK
    [] part = "wires"      -> Wires!TypeOK

\* The closing workflow cancels no stream it could know of.
CloseCancelsOnlyUnseen == Workflows!CloseCancelsOnlyUnseen

\* The lists a graceful shutdown reports are true and stay true.
ShutdownReportsTheTruth == part = "workflows" => Workflows!ShutdownReportsTheTruth

\* No stream is left in Preparing unless its creator was told of an error.
PreparingIsAttendedTo == part = "workflows" => Workflows!PreparingIsAttendedTo

\* A graceful shutdown ends with the session closed.
ShutdownCloses == Workflows!ShutdownCloses

\* Repository calls are answered unless the two lock orders meet.
AnsweredOrDeadlocked == Repository!AnsweredOrDeadlocked

\* Health queries and removals are answered: false of the code, which takes
\* the two locks in two orders.
EveryCallIsAnswered == Repository!EveryCallIsAnswered

\* Acknowledgements are of frames delivered, and a socket catches up unless a
\* lag has put it to sleep; one that the network drops is replaced, or the
\* client is told.
SocketsDeliver == Sockets!SocketsDeliver /\ Wires!LostIsRestoredOrTold

\* A stream of the JavaScript client that resolves has its own data, and one
\* that may be sent on is connected.
ResolvedWithItsOwn ==
  /\ part = "js" => Js!ResolvedWithItsOwn
  /\ part = "wires" => Wires!ConnectedIsUsable

\* A stream of the JavaScript client is answered in the end.
EveryCallSettles == Js!EveryCallSettles
=============================================================================
