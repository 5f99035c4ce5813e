---------------------------- MODULE EventService ----------------------------
(***************************************************************************)
(* EventService (application/services/event_service.rs) on the in-memory   *)
(* event store (domain/events/mod.rs).  publish_event and publish_events   *)
(* tell every subscriber of every event, one await each, and append the    *)
(* batch to the store afterwards.  They take &mut self: a call excludes    *)
(* every other, but the future may be dropped at any of its awaits.        *)
(*                                                                         *)
(* Events are numbered in the order they are handed in; which kind they    *)
(* are and of which stream decides only what a query selects.              *)
(***************************************************************************)
EXTENDS Naturals, Sequences, SequencesExt

CONSTANTS
  MaxSubscribers,  \* bound
  MaxEvents,       \* bound: events handed in
  BatchSizes       \* of publish_events; 1 is publish_event as well

VARIABLES
  subscribers,  \* how many there are, in the order they were added
  since,        \* subscriber -> the last event handed in before it was added
  told,         \* subscriber -> the events it has handled
  stored,       \* InMemoryEventStore::events
  call,         \* the batch being published, and whom to tell of what next
  handedIn      \* how many events have been handed in

vars == << subscribers, since, told, stored, call, handedIn >>

Idle == [batch |-> << >>, event |-> 1, subscriber |-> 1]

Subscriber == 1 .. MaxSubscribers

Init ==
  /\ subscribers = 0
  /\ since = [s \in Subscriber |-> 0]
  /\ told = [s \in Subscriber |-> << >>]
  /\ stored = << >>
  /\ call = Idle
  /\ handedIn = 0

AddSubscriber ==
  /\ call = Idle
  /\ subscribers < MaxSubscribers
  /\ subscribers' = subscribers + 1
  /\ since' = [since EXCEPT ![subscribers + 1] = handedIn]
  /\ UNCHANGED << told, stored, call, handedIn >>

Publish(n) ==
  /\ call = Idle
  /\ handedIn + n <= MaxEvents
  /\ call' = [Idle EXCEPT !.batch = [i \in 1 .. n |-> handedIn + i]]
  /\ handedIn' = handedIn + n
  /\ UNCHANGED << subscribers, since, told, stored >>

AllTold == call.event > Len(call.batch) \/ subscribers = 0

\* Event by event, and each to one subscriber after another.
AfterTelling ==
  IF call.subscriber = subscribers
    THEN [call EXCEPT !.event = @ + 1, !.subscriber = 1]
    ELSE [call EXCEPT !.subscriber = @ + 1]

Tell ==
  /\ call # Idle /\ ~AllTold
  /\ told' = [told EXCEPT ![call.subscriber] = Append(@, call.batch[call.event])]
  /\ call' = AfterTelling
  /\ UNCHANGED << subscribers, since, stored, handedIn >>

\* Mutant: a subscriber's error is passed over, as the publishers do.
PassOver ==
  /\ call # Idle /\ ~AllTold
  /\ call' = AfterTelling
  /\ UNCHANGED << subscribers, since, told, stored, handedIn >>

\* A subscriber's error ends the call, as does dropping its future: no
\* later subscriber is told, nothing of the batch is stored.
GiveUp ==
  /\ call # Idle /\ ~AllTold
  /\ call' = Idle
  /\ UNCHANGED << subscribers, since, told, stored, handedIn >>

\* append_events: the whole batch, under the store's mutex
Store ==
  /\ call # Idle /\ AllTold
  /\ stored' = stored \o call.batch
  /\ call' = Idle
  /\ UNCHANGED << subscribers, since, told, handedIn >>

Next ==
  \/ AddSubscriber
  \/ \E n \in BatchSizes : Publish(n)
  \/ Tell \/ GiveUp \/ Store

Spec == Init /\ [][Next]_vars

-----------------------------------------------------------------------------
(* Properties *)

TypeOK ==
  /\ subscribers \in 0 .. MaxSubscribers
  /\ since \in [Subscriber -> 0 .. MaxEvents]
  /\ told \in [Subscriber -> Seq(1 .. MaxEvents)]
  /\ stored \in Seq(1 .. MaxEvents)
  /\ handedIn \in 0 .. MaxEvents

Increasing(s) == \A i, j \in DOMAIN s : i < j => s[i] < s[j]

\* The store never knows more than the subscribers do: whatever is stored
\* has been handled before by everybody who had subscribed, and both saw it in
\* the order in which it was handed in.  A failure in the middle of a batch
\* leaves events some subscribers know and the store does not, never the
\* other way round.
StoredWasSeenByAll ==
  /\ Increasing(stored)
  /\ \A s \in 1 .. subscribers :
       /\ Increasing(told[s])
       /\ \A i \in DOMAIN stored :
            stored[i] > since[s] => \E j \in DOMAIN told[s] : told[s][j] = stored[i]
=============================================================================
