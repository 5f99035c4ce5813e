------------------------------ MODULE JsClient ------------------------------
(***************************************************************************)
(* PJSClient of the JavaScript client (crates/pjs-js-client/src/core/      *)
(* client.ts) over its three transports.  stream() may be called while     *)
(* another call is under way; frames carry no stream identifier, and each  *)
(* goes to the handler of the stream that is current, if any.              *)
(*                                                                         *)
(* The server answers a request with frames 1 .. Last: a skeleton, patches *)
(* and Complete.  What is built from them is the sequence of frames        *)
(* applied.  Over HTTP they come in chunks, whose frames are handed out    *)
(* one after the other with callbacks of the application in between        *)
(* (listeners, onRender, onProgress), whatever becomes of the request; an  *)
(* EventSource and a WebSocket hand out one message at a time.  A promise  *)
(* that is settled is cleaned up after (`finally`) once that is over.      *)
(*                                                                         *)
(* Connecting is one step, and so is disconnect(), which takes effect when *)
(* a chunk is over.  The application listens to errors and its callbacks   *)
(* do not throw; statistics, progress and rendering are left out.          *)
(***************************************************************************)
EXTENDS Naturals, Sequences, FiniteSets

CONSTANTS
  StreamCall,  \* the calls of stream()
  Last,        \* the Complete frame
  NoCall

VARIABLES
  transport,
  connected,
  current,   \* currentStreamId
  promise,   \* of each call
  settling,  \* calls whose promise is settled and whose `finally` is to come
  response,  \* of each call: the last frame that has come in, or that it is over
  chunk,     \* what is being handed out: frames next .. last of a response
  told,      \* the call that was current when frame chunk.next was announced
  result,    \* of each call: the frames applied since the last skeleton
  crossed    \* history: calls that may be given frames of another's response

vars == << transport, connected, current, promise, settling, response, chunk, told,
           result, crossed >>

Over    == Last + 1
Nothing == [of |-> NoCall, next |-> 1, last |-> 0]

Live == {s \in StreamCall : promise[s] # "none" /\ response[s] # Over}

Init ==
  /\ transport \in {"http", "sse", "websocket"}
  /\ connected = FALSE
  /\ current = NoCall
  /\ promise = [s \in StreamCall |-> "none"]
  /\ settling = {}
  /\ response = [s \in StreamCall |-> 0]
  /\ chunk = Nothing
  /\ told = NoCall
  /\ result = [s \in StreamCall |-> << >>]
  /\ crossed = {}

\* The promise is settled, and with it the handler and the timer are removed.
Settle(s, outcome) ==
  /\ promise' = [promise EXCEPT ![s] = outcome]
  /\ settling' = settling \cup {s}

\* Mutant: the stream stays the current one.
FinallyKeepsCurrent(s) ==
  /\ s \in settling /\ chunk = Nothing
  /\ settling' = settling \ {s}
  /\ UNCHANGED << transport, connected, current, promise, response, chunk, told, result, crossed >>

\* `finally` of stream() clears the current stream, whichever it is.  The
\* transport is not told.
Finally(s) ==
  /\ s \in settling /\ chunk = Nothing
  /\ settling' = settling \ {s}
  /\ current' = NoCall
  /\ UNCHANGED << transport, connected, promise, response, chunk, told, result, crossed >>

\* The application gets to run: between chunks, from a callback, and over
\* HTTP also between a chunk's arrival and its first frame.  From there
\* it can start a stream only on a client that is connected.
ApplicationRuns ==
  \/ chunk = Nothing
  \/ connected /\ (told # NoCall \/ transport = "http")

\* Frames of the chunk that one who starts listening now will hear
FramesLeft == chunk # Nothing /\ (told = NoCall \/ chunk.next < chunk.last)

\* Whose frames may be mixed up when s starts: over a WebSocket, those of all
\* that come in; over HTTP, s is given what is left of a chunk.
MixedUp(s) ==
  IF transport = "websocket" THEN IF Live = {} THEN {} ELSE Live \cup {s}
  ELSE IF FramesLeft THEN {s} ELSE {}

\* Mutant: the request before is not cancelled.
StreamAlongside(s) ==
  /\ promise[s] = "none" /\ ApplicationRuns
  /\ promise' = [promise EXCEPT ![s] = "open"]
  /\ current' = s
  /\ connected' = TRUE
  /\ crossed' = crossed \cup MixedUp(s)
  /\ UNCHANGED << transport, settling, response, chunk, told, result >>

\* stream(), processStream() and startStream().  HTTP and SSE read no more of
\* what came before; a WebSocket carries all of it.
Stream(s) ==
  /\ promise[s] = "none" /\ ApplicationRuns
  /\ promise' = [promise EXCEPT ![s] = "open"]
  /\ current' = s
  /\ connected' = TRUE
  /\ response' = IF transport = "websocket" THEN response
                 ELSE [r \in StreamCall |-> IF r \in Live THEN Over ELSE response[r]]
  /\ crossed' = crossed \cup MixedUp(s)
  /\ UNCHANGED << transport, settling, chunk, told, result >>

\* Frames of the response to s come in, up to m: over HTTP in a chunk, of
\* which nothing has been announced yet; else one, announced at once, which
\* nobody hears when no stream is current.
Receive(s, m) ==
  /\ s \in Live /\ m > response[s] /\ chunk = Nothing
  /\ \/ transport = "http"
     \/ m = response[s] + 1 /\ settling = {}
  /\ response' = [response EXCEPT ![s] = IF m = Last /\ transport # "sse" THEN Over ELSE m]
  /\ chunk' = IF transport # "http" /\ current = NoCall THEN Nothing
              ELSE [of |-> s, next |-> response[s] + 1, last |-> m]
  /\ told' = IF transport = "http" THEN NoCall ELSE current
  /\ UNCHANGED << transport, connected, current, promise, settling, result, crossed >>

NextFrame == chunk' = IF chunk.next < chunk.last THEN [chunk EXCEPT !.next = @ + 1] ELSE Nothing

\* Frame chunk.next is emitted: to the listeners of the application first, and
\* of the handlers only to those that are there by now.
Announce ==
  /\ chunk # Nothing /\ told = NoCall
  /\ told' = current
  /\ IF current = NoCall THEN NextFrame ELSE UNCHANGED chunk
  /\ UNCHANGED << transport, connected, current, promise, settling, response, result, crossed >>

\* frameHandler of the call c, given frame n of the response to s: a patch
\* before any skeleton is an error, Complete needs nothing before it.
Handle(c, s, n) ==
  IF n = Last THEN Settle(c, "resolved") /\ UNCHANGED result
  ELSE IF n > 1 /\ result[c] = << >> THEN Settle(c, "rejected") /\ UNCHANGED result
  ELSE /\ result' = [result EXCEPT ![c] = IF n = 1 THEN << << s, 1 >> >>
                                          ELSE Append(@, << s, n >>)]
       /\ UNCHANGED << promise, settling >>

\* The handler gets the frame unless its stream is no longer current, because
\* a listener has started another.  Complete is in its hands, too, when it was
\* one of its own callbacks that did so, before it resolves.
Deliver ==
  /\ told # NoCall
  /\ told' = NoCall
  /\ NextFrame
  /\ \/ /\ promise[told] = "open"
        /\ current = told \/ chunk.next = Last
        /\ Handle(told, chunk.of, chunk.next)
     \/ /\ promise[told] # "open" \/ current # told
        /\ UNCHANGED << promise, settling, result >>
  /\ UNCHANGED << transport, connected, current, response, crossed >>

\* The server ends without Complete, or refuses: over HTTP an error reaches
\* the caller, an end does not.
Break(s) ==
  /\ s \in Live /\ chunk = Nothing
  /\ response' = [response EXCEPT ![s] = Over]
  /\ \/ UNCHANGED << promise, settling >>
     \/ transport = "http" /\ promise[s] = "open" /\ Settle(s, "rejected")
  /\ UNCHANGED << transport, connected, current, chunk, told, result, crossed >>

\* An EventSource connects again by itself, and the server begins again; also
\* after Complete, because no code closes it then.
Reconnect(s) ==
  /\ transport = "sse" /\ s \in Live /\ chunk = Nothing
  /\ response' = [response EXCEPT ![s] = 0]
  /\ UNCHANGED << transport, connected, current, promise, settling, chunk, told, result, crossed >>

\* Mutant: one timer for all calls.
TimeoutOfCurrent(s) ==
  /\ promise[s] = "open" /\ current = s /\ chunk = Nothing /\ settling = {}
  /\ Settle(s, "rejected")
  /\ UNCHANGED << transport, connected, current, response, chunk, told, result, crossed >>

\* A timer fires when nothing else runs.
Timeout(s) ==
  /\ promise[s] = "open" /\ chunk = Nothing /\ settling = {}
  /\ Settle(s, "rejected")
  /\ UNCHANGED << transport, connected, current, response, chunk, told, result, crossed >>

\* Streams under way are not told and run into their timeouts.
Disconnect ==
  /\ connected /\ chunk = Nothing
  /\ connected' = FALSE
  /\ current' = NoCall
  /\ response' = [s \in StreamCall |-> IF s \in Live THEN Over ELSE response[s]]
  /\ UNCHANGED << transport, promise, settling, chunk, told, result, crossed >>

\* What runs to its end before the event loop turns to anything else
Run == Announce \/ Deliver \/ \E s \in StreamCall : Finally(s)

Next ==
  \/ \E s \in StreamCall :
       \/ Stream(s) \/ Break(s) \/ Reconnect(s) \/ Timeout(s)
       \/ \E m \in 1 .. Last : Receive(s, m)
  \/ Run \/ Disconnect

\* What runs comes to its end, and between messages, as many as there may be,
\* timers fire.
Fairness ==
  /\ WF_vars(Run)
  /\ \A s \in StreamCall : SF_vars(Timeout(s))

Spec == Init /\ [][Next]_vars /\ Fairness

-----------------------------------------------------------------------------
(* Properties *)

TypeOK ==
  /\ current \in StreamCall \cup {NoCall}
  /\ promise \in [StreamCall -> {"none", "open", "resolved", "rejected"}]
  /\ settling \subseteq {s \in StreamCall : promise[s] \in {"resolved", "rejected"}}
  /\ response \in [StreamCall -> 0 .. Over]
  /\ chunk = Nothing \/ /\ chunk \in [of : StreamCall, next : 1 .. Last, last : 1 .. Last]
                        /\ chunk.next <= chunk.last
  /\ told # NoCall => told \in StreamCall /\ chunk # Nothing
  /\ current # NoCall => promise[current] = "open" \/ current \in settling

\* What is built from a response as a whole, when Complete comes
Whole(s) == [n \in 1 .. Last - 1 |-> << s, n >>]

\* A stream that resolves has been built from the whole of its own response
\* in order, whatever other calls, timeouts, reconnections and refusals came
\* in between.  Excepted are calls made while a WebSocket was carrying a
\* response, and the calls of those responses; and over HTTP a call made from
\* a callback while more of a chunk was to be handed out.  That one may
\* resolve with another's response, or with nothing, but never with a mixture.
ResolvedWithItsOwn ==
  \A s \in StreamCall :
    promise[s] = "resolved" /\ result[s] # Whole(s) =>
      /\ s \in crossed
      /\ transport = "http" => result[s] = << >> \/ \E r \in StreamCall : result[s] = Whole(r)

\* Every call is answered in the end, also one that another call's
\* settlement has made deaf: there are finitely many calls, and one that
\* stayed open would keep this from coming true again.
EveryCallSettles == []<>(\A s \in StreamCall : promise[s] # "open")
=============================================================================
