--------------------------- MODULE SessionCommands ---------------------------
(***************************************************************************)
(* The command handlers (application/handlers/command_handlers.rs) serving *)
(* several clients at once on one session.  Every handler is the same      *)
(* sequence of awaits:                                                     *)
(*                                                                         *)
(*   find_session        copy the stored session                           *)
(*   <domain method>     change the copy, or return its error              *)
(*   save_session        overwrite the stored session with the copy        *)
(*   take_events         move the copy's queue into the handler, after the *)
(*                       copy with its full queue has been stored          *)
(*   publish, publish..  one event at a time; an error ends the command    *)
(*                                                                         *)
(* Between two awaits any other handler may run: there is no version check *)
(* and no lock held across the handler.  The domain method and the save    *)
(* are one step, since nothing is shared in between.  Sessions do not      *)
(* interact in the repository, so one is modelled; CreateSession draws its *)
(* identifier, so it happens once.                                         *)
(***************************************************************************)
EXTENDS SessionAggregate, TLC

CONSTANTS
  Client,
  NoSession,   \* the repository has no such session
  MaxCopies    \* bound: publications of an event are counted up to this

ASSUME NoSessionAssumption == NoSession \notin Session
ASSUME MaxCopiesAssumption == MaxCopies \in Nat \ {0}
ASSUME ClientAssumption == Client \cap {"Nobody", "Defaulted"} = {}

VARIABLES
  repo,       \* the stored session, as InMemoryStreamRepository keeps it
  expired,    \* Utc::now() > expires_at
  phase,      \* where each client's handler is
  command,    \* the command it has loaded the session for
  copy,       \* the session it loaded
  outbox,     \* the events it still has to publish
  published,  \* how often each event went to the publisher, up to MaxCopies
  \* History variables, read by no guard:
  outdated,   \* the clients whose copy has been overtaken by another save
  overwrote,  \* whether some save has discarded another client's save
  owing       \* who still has to publish what the stored session holds

handler == << phase, command, copy, outbox >>
ghosts  == << outdated, overwrote, owing >>
vars    == << repo, expired, handler, published, ghosts >>

Nobody    == "Nobody"     \* all of it is published
Defaulted == "Defaulted"  \* the publisher failed its last writer

Command ==
  [op : {"CreateStream", "BatchGenerateFrames", "CloseSession"}, stream : {NoStream}]
    \cup [op : {"StartStream", "CompleteStream", "GenerateFrames"}, stream : StreamId]

Phase  == {"idle", "loaded", "publishing"}
Nothing == [op |-> "none", stream |-> NoStream]

\* For TLC: no client, and no stream identifier, is told from another.
Symmetry == Permutations(Client) \cup Permutations(StreamId)

Init ==
  /\ repo = NoSession
  /\ expired = FALSE
  /\ phase = [c \in Client |-> "idle"]
  /\ command = [c \in Client |-> Nothing]
  /\ copy = [c \in Client |-> NoSession]
  /\ outbox = [c \in Client |-> << >>]
  /\ published = [e \in Event |-> 0]
  /\ outdated = {}
  /\ overwrote = FALSE
  /\ owing = Nobody

-----------------------------------------------------------------------------
(* The domain method of each command, on the loaded copy *)

\* The sessions the command can leave when its method returns Ok; none when
\* it returns Err.  Frames come back empty and leave the session unchanged.
Outcomes(s, cmd) ==
  CASE cmd.op = "CreateStream" ->
         {AfterCreateStream(s, id) : id \in {i \in StreamId : MayCreateStream(s, expired, i)}}
    [] cmd.op = "StartStream" ->
         IF MayStartStream(s, cmd.stream) THEN {AfterStartStream(s, cmd.stream)} ELSE {}
    [] cmd.op = "CompleteStream" ->
         IF MayCompleteStream(s, cmd.stream) THEN {AfterCompleteStream(s, cmd.stream)} ELSE {}
    [] cmd.op = "GenerateFrames" ->
         IF MayGenerateFrames(s, cmd.stream) THEN {s} ELSE {}
    [] cmd.op = "BatchGenerateFrames" ->
         IF MayCreatePriorityFrames(s, expired) THEN {s} ELSE {}
    [] cmd.op = "CloseSession" ->
         IF MayClose(s) THEN {AfterClose(s)} ELSE {}

\* Err(TooManyStreams) is what the command gets.
RefusedForLimit(s, cmd) ==
  cmd.op = "CreateStream" /\ IsActive(s, expired) /\ ~HasRoom(s)

-----------------------------------------------------------------------------
(* The awaits of a handler *)

\* The handler of c has stored a session: it goes on with the events it took
\* from its own copy, and every other copy in flight is now out of date.
Stored(c, events) ==
  /\ outbox' = [outbox EXCEPT ![c] = events]
  /\ phase' = [phase EXCEPT ![c] = "publishing"]
  /\ command' = [command EXCEPT ![c] = Nothing]
  /\ copy' = [copy EXCEPT ![c] = NoSession]
  /\ outdated' = (outdated \cup {d \in Client : phase[d] = "loaded"}) \ {c}
  /\ overwrote' = (overwrote \/ c \in outdated)
  /\ owing' = c

\* Mutant: take_events comes before the save, so the store keeps no event.
SaveDrained(c, s) ==
  /\ repo' = AfterTakeEvents(s)
  /\ Stored(c, s.pending)

\* Mutant: the counters are not written back.
SaveWithoutStats(c, s) ==
  /\ repo' = IF repo = NoSession THEN s ELSE [s EXCEPT !.stats = repo.stats]
  /\ Stored(c, s.pending)

\* save_session(session.clone()), then take_events from the handler's copy:
\* what is stored keeps every event ever raised.
Save(c, s) ==
  /\ repo' = s
  /\ Stored(c, s.pending)

\* The session is built and activated before anyone can know of it.
CreateSession(c) ==
  /\ phase[c] = "idle"
  /\ repo = NoSession
  /\ Save(c, AfterActivate(NewSession))
  /\ UNCHANGED << expired, published >>

\* A find_session that returns None ends the command with no effect, as does
\* a domain error below.
Load(c, cmd) ==
  /\ phase[c] = "idle"
  /\ repo # NoSession
  /\ phase' = [phase EXCEPT ![c] = "loaded"]
  /\ command' = [command EXCEPT ![c] = cmd]
  /\ copy' = [copy EXCEPT ![c] = repo]
  /\ UNCHANGED << repo, expired, outbox, published, ghosts >>

Apply(c) ==
  /\ phase[c] = "loaded"
  /\ \E s \in Outcomes(copy[c], command[c]) : Save(c, s)
  /\ UNCHANGED << expired, published >>

Ends(c) ==
  /\ phase' = [phase EXCEPT ![c] = "idle"]
  /\ command' = [command EXCEPT ![c] = Nothing]
  /\ copy' = [copy EXCEPT ![c] = NoSession]
  /\ outbox' = [outbox EXCEPT ![c] = << >>]

Refuse(c) ==
  /\ phase[c] = "loaded"
  /\ Outcomes(copy[c], command[c]) = {}
  /\ Ends(c)
  /\ outdated' = outdated \ {c}
  /\ UNCHANGED << repo, expired, published, overwrote, owing >>

Publish(c) ==
  /\ phase[c] = "publishing"
  /\ outbox[c] # << >>
  /\ published' = [published EXCEPT ![Head(outbox[c])] =
                     IF @ < MaxCopies THEN @ + 1 ELSE @]
  /\ outbox' = [outbox EXCEPT ![c] = Tail(@)]
  /\ UNCHANGED << repo, expired, phase, command, copy, ghosts >>

\* Mutant: the handler returns without waiting for its events.
ReturnEarly(c) ==
  /\ phase[c] = "publishing"
  /\ Ends(c)
  /\ owing' = IF owing = c THEN Nobody ELSE owing
  /\ UNCHANGED << repo, expired, published, outdated, overwrote >>

Return(c) ==
  /\ phase[c] = "publishing"
  /\ outbox[c] = << >>
  /\ Ends(c)
  /\ owing' = IF owing = c THEN Nobody ELSE owing
  /\ UNCHANGED << repo, expired, published, outdated, overwrote >>

\* The publisher refuses the next event: the command is reported as failed,
\* its save stands and the rest of its events are dropped.
PublishFails(c) ==
  /\ phase[c] = "publishing"
  /\ outbox[c] # << >>
  /\ Ends(c)
  /\ owing' = IF owing = c THEN Defaulted ELSE owing
  /\ UNCHANGED << repo, expired, published, outdated, overwrote >>

Expire ==
  /\ ~expired
  /\ expired' = TRUE
  /\ UNCHANGED << repo, handler, published, ghosts >>

Next ==
  \/ \E c \in Client :
       \/ CreateSession(c)
       \/ \E cmd \in Command : Load(c, cmd)
       \/ Apply(c) \/ Refuse(c)
       \/ Publish(c) \/ PublishFails(c) \/ Return(c)
  \/ Expire

Spec == Init /\ [][Next]_vars

-----------------------------------------------------------------------------
(* Properties *)

SessionOrNone == Session \cup {NoSession}

TypeOK ==
  /\ repo \in SessionOrNone
  /\ expired \in BOOLEAN
  /\ phase \in [Client -> Phase]
  /\ command \in [Client -> Command \cup {Nothing}]
  /\ copy \in [Client -> SessionOrNone]
  /\ outbox \in [Client -> Seq(Event)]
  /\ published \in [Event -> 0 .. MaxCopies]
  /\ outdated \subseteq Client
  /\ overwrote \in BOOLEAN
  /\ owing \in Client \cup {Nobody, Defaulted}

\* The sequential aggregate, seen through the repository: its events are
\* never taken out of the stored session.
Aggregate ==
  INSTANCE StreamSession WITH
    session <- IF repo = NoSession THEN NewSession ELSE repo,
    taken   <- << >>

\* The sessions anyone holds.
Held == ({repo} \cup {copy[c] : c \in Client}) \ {NoSession}

\* Handlers race, but each stores a whole session it has computed from a
\* whole stored one: no stored session and no copy in flight is ever a mix
\* of two, with counters and states that disagree.
NoTornSession == \A s \in Held : Consistent(s)

\* Nor is the queue of events stored with it: it is the history of that
\* session, even when the store has forgotten another one.
NoTornHistory == \A s \in Held : EventsTellTheStory(s.pending, s)

\* Until a save discards another client's save, concurrent commands amount
\* to calling the aggregate's methods one after another.
SerialUntilOverwrite ==
  [][overwrote' \/ [Aggregate!Next]_(Aggregate!vars)]_vars

\* What has to be published before an event, if it is published at all.
Before(e) ==
  CASE e.kind = "SessionActivated" -> {}
    [] e.kind \in {"SessionClosed", "StreamCreated"} -> {SessionEvent("SessionActivated")}
    [] e.kind \in {"StreamStarted", "StreamFailed"} -> {StreamEvent("StreamCreated", e.stream)}
    [] e.kind = "StreamCompleted" -> {StreamEvent("StreamStarted", e.stream)}

\* Clients publish without coordinating and may stop half way, yet nobody
\* sees a stream start before it was created or end before it started:
\* every handler publishes the whole history it saved, from the beginning.
CausesPublishedFirst ==
  \A e \in Event : published[e] > 0 => \A d \in Before(e) : published[d] > 0

\* An event in the store is published, or the last writer still has it in
\* hand, or the publisher failed that writer.  A later command, by anyone,
\* takes over what an earlier one failed to publish.
LastWriterPublishesAll ==
  repo # NoSession =>
    \A i \in DOMAIN repo.pending :
      LET e == repo.pending[i]
      IN  \/ published[e] > 0
          \/ owing = Defaulted
          \/ owing \in Client /\ \E j \in DOMAIN outbox[owing] : outbox[owing][j] = e

\* Stated by the documentation, false of the code: see the README.
\* A stream the repository has once recorded as finished stays finished.
FinishedStaysFinished ==
  [][repo # NoSession =>
       \A id \in StreamId :
         repo.streams[id] \in FinishedStates => repo'.streams[id] = repo.streams[id]]_repo

\* Taking the events out of the session clears its queue, so that an event
\* is published once.
EventsPublishedOnce == \A e \in Event : published[e] <= 1

\* A stream is refused for the concurrency limit only when that many
\* streams of the session are in fact active.
LimitIsOnConcurrentStreams ==
  [][\A c \in Client :
       Refuse(c) /\ RefusedForLimit(copy[c], command[c]) =>
         Count(copy[c], ActiveStates) >= MaxConcurrentStreams]_vars
=============================================================================
