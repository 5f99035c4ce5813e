-------------------------- MODULE EventPublishers --------------------------
(***************************************************************************)
(* The event publishers (infrastructure/adapters/event_publisher.rs): a    *)
(* CompositeEventPublisher hands each batch to its destinations in turn,   *)
(* in memory (a bounded log, a channel, subscribers) or over HTTP with     *)
(* retries, for any number of callers at a time.                           *)
(*                                                                         *)
(* The network may lose a request, or the answer to one that was received. *)
(* Events are numbered as they are handed in; publish is publish_batch of  *)
(* one event.  Errors of subscribers are logged and change nothing, so     *)
(* telling them is one step.                                               *)
(***************************************************************************)
EXTENDS Naturals, Sequences, FiniteSets, SequencesExt

CONSTANTS
  Caller,
  Compositions,   \* sequences of destinations, "memory" and "http" at most once
  RetrySettings,  \* the values of HttpEventPublisher::retry_attempts
  LogLimit,       \* 10000 in the code
  DrainSize,      \* 1000 in the code
  BatchSizes,
  MaxEvents       \* bound: events handed in

VARIABLES
  destinations,  \* CompositeEventPublisher::publishers
  failFast,      \* CompositeEventPublisher::fail_fast
  attempts,      \* HttpEventPublisher::retry_attempts
  call,          \* the batch each caller is publishing, and how far it is
  log,           \* event_log
  channel,       \* what was sent to the channel
  received,      \* how often the HTTP endpoint has received each event
  logged,        \* history: all that was ever pushed to the log
  answered,      \* history: batches answered with Ok
  handedIn

vars == << destinations, failFast, attempts, call, log, channel, received, logged, answered, handedIn >>

Event == 1 .. MaxEvents

Idle == [batch |-> << >>, to |-> 1, step |-> "log", event |-> 1, attempt |-> 0, failed |-> FALSE]

Init ==
  /\ destinations \in Compositions
  /\ failFast \in BOOLEAN
  /\ attempts \in RetrySettings
  /\ call = [c \in Caller |-> Idle]
  /\ log = << >>
  /\ channel = << >>
  /\ received = [e \in Event |-> 0]
  /\ logged = << >>
  /\ answered = {}
  /\ handedIn = 0

Busy(c)   == call[c] # Idle
Done(c)   == call[c].to > Len(destinations)
At(c, kind) == Busy(c) /\ ~Done(c) /\ destinations[call[c].to] = kind
Current(c)  == call[c].batch[call[c].event]

Becomes(c, value) == call' = [call EXCEPT ![c] = value]

NextDestination(c) == [call[c] EXCEPT !.to = @ + 1, !.step = "log", !.event = 1, !.attempt = 0]

Publish(c, n) ==
  /\ ~Busy(c)
  /\ handedIn + n <= MaxEvents
  /\ Becomes(c, [Idle EXCEPT !.batch = [i \in 1 .. n |-> handedIn + i]])
  /\ handedIn' = handedIn + n
  /\ UNCHANGED << destinations, failFast, attempts, log, channel, received, logged, answered >>

-----------------------------------------------------------------------------
(* In memory *)

\* Under one lock: push, and drop the oldest when there are too many.
Log(c) ==
  /\ At(c, "memory") /\ call[c].step = "log"
  /\ LET longer == Append(log, Current(c))
     IN  log' = IF Len(longer) > LogLimit
                THEN SubSeq(longer, DrainSize + 1, Len(longer)) ELSE longer
  /\ logged' = Append(logged, Current(c))
  /\ Becomes(c, [call[c] EXCEPT !.step = "send"])
  /\ UNCHANGED << destinations, failFast, attempts, channel, received, answered, handedIn >>

\* Under another: the channel; other callers may have come in between.
Send(c) ==
  /\ At(c, "memory") /\ call[c].step = "send"
  /\ channel' = Append(channel, Current(c))
  /\ Becomes(c, [call[c] EXCEPT !.step = "notify"])
  /\ UNCHANGED << destinations, failFast, attempts, log, received, logged, answered, handedIn >>

\* The subscribers are told; then the next event of the batch, if any.
Notify(c) ==
  /\ At(c, "memory") /\ call[c].step = "notify"
  /\ Becomes(c, IF call[c].event < Len(call[c].batch)
                  THEN [call[c] EXCEPT !.step = "log", !.event = @ + 1]
                  ELSE NextDestination(c))
  /\ UNCHANGED << destinations, failFast, attempts, log, channel, received, logged, answered, handedIn >>

-----------------------------------------------------------------------------
(* Over HTTP *)

Receive(c) == received' = [e \in Event |->
  IF \E i \in DOMAIN call[c].batch : call[c].batch[i] = e THEN received[e] + 1 ELSE received[e]]

Deliver(c) ==
  /\ At(c, "http") /\ call[c].attempt < attempts
  /\ Receive(c)
  /\ Becomes(c, NextDestination(c))
  /\ UNCHANGED << destinations, failFast, attempts, log, channel, logged, answered, handedIn >>

\* A destination that failed: at once for everybody, or noted for the end.
AfterFailure(c) ==
  IF failFast THEN Idle ELSE [NextDestination(c) EXCEPT !.failed = TRUE]

\* Mutant: the last attempt is not recognised, and the loop falls through
\* to Ok.
RetryThenOk(c) ==
  /\ At(c, "http") /\ call[c].attempt < attempts
  /\ Receive(c) \/ UNCHANGED received
  /\ Becomes(c, IF call[c].attempt = attempts - 1 THEN NextDestination(c)
                ELSE [call[c] EXCEPT !.attempt = @ + 1])
  /\ UNCHANGED << destinations, failFast, attempts, log, channel, logged, answered, handedIn >>

\* The request or its answer is lost, or the answer is an error: once more,
\* after a pause, unless it was the last attempt.
Retry(c) ==
  /\ At(c, "http") /\ call[c].attempt < attempts
  /\ Receive(c) \/ UNCHANGED received
  /\ Becomes(c, IF call[c].attempt = attempts - 1 THEN AfterFailure(c)
                ELSE [call[c] EXCEPT !.attempt = @ + 1])
  /\ UNCHANGED << destinations, failFast, attempts, log, channel, logged, answered, handedIn >>

\* A publisher set to no attempts sends nothing and answers Ok.
NeverTry(c) ==
  /\ At(c, "http") /\ attempts = 0
  /\ Becomes(c, NextDestination(c))
  /\ UNCHANGED << destinations, failFast, attempts, log, channel, received, logged, answered, handedIn >>

-----------------------------------------------------------------------------
\* Ok if no destination failed.
Answer(c) ==
  /\ Busy(c) /\ Done(c)
  /\ answered' = IF call[c].failed THEN answered
                 ELSE answered \cup {call[c].batch[i] : i \in DOMAIN call[c].batch}
  /\ Becomes(c, Idle)
  /\ UNCHANGED << destinations, failFast, attempts, log, channel, received, logged, handedIn >>

Next ==
  \E c \in Caller :
    \/ \E n \in BatchSizes : Publish(c, n)
    \/ Log(c) \/ Send(c) \/ Notify(c) \/ Deliver(c) \/ Retry(c) \/ NeverTry(c)
    \/ Answer(c)

Spec == Init /\ [][Next]_vars

-----------------------------------------------------------------------------
(* Properties *)

TypeOK ==
  /\ destinations \in Compositions
  /\ failFast \in BOOLEAN
  /\ attempts \in RetrySettings
  /\ Len(log) <= LogLimit
  /\ received \in [Event -> 0 .. attempts]
  /\ logged \in Seq(Event) /\ channel \in Seq(Event)
  /\ answered \subseteq Event
  /\ handedIn \in 0 .. MaxEvents

Has(kind) == \E i \in DOMAIN destinations : destinations[i] = kind
In(e, s)  == \E i \in DOMAIN s : s[i] = e

\* Ok means that every destination has received the event, in spite of lost
\* requests, lost answers, retries and fail-fast: the endpoint at least once
\* (unless it is set to no attempts at all), the channel too, and the log,
\* which still has it if it is among the newest LogLimit - DrainSize.
OkMeansReceived ==
  /\ \A e \in answered :
       /\ Has("memory") => In(e, logged) /\ In(e, channel)
       /\ Has("http") /\ attempts > 0 => received[e] >= 1
  /\ \A i \in DOMAIN logged :
       i > Len(logged) - (LogLimit - DrainSize) => In(logged[i], log)
=============================================================================
