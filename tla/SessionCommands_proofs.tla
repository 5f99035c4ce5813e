----------------------- MODULE SessionCommands_proofs -----------------------
(***************************************************************************)
(* For any number of clients on one session: no session is ever stored or  *)
(* held torn, nor its history; until a save discards another client's save *)
(* the handlers amount to calling the aggregate's methods one after        *)
(* another; and what the handlers publish comes in causal order, all of it *)
(* sooner or later in the hands of the last writer.                        *)
(***************************************************************************)
EXTENDS SessionCommands, SessionAggregate_proofs

\* A handler at work on a command has a session, and the repository has one.
LoadedIsWhole ==
  \A c \in Client : phase[c] = "loaded" =>
    repo # NoSession /\ copy[c] # NoSession /\ command[c] \in Command

\* What a handler holds is what is stored, unless another save came between.
CurrentUnlessOutdated ==
  \A c \in Client : phase[c] = "loaded" /\ c \notin outdated => copy[c] = repo

IInv == TypeOK /\ NoTornSession /\ LoadedIsWhole /\ CurrentUnlessOutdated

\* A session is sound to store.
Sound(s) == s \in Session /\ Consistent(s)

\* The stored session and the copies are sound.
LEMMA HeldAreSound ==
  ASSUME TypeOK, NoTornSession
  PROVE  /\ repo # NoSession => Sound(repo)
         /\ \A c \in Client : copy[c] # NoSession => Sound(copy[c])
BY DEF TypeOK, NoTornSession, Held, SessionOrNone, Sound

\* Whatever command runs on a sound session leaves a sound session.
LEMMA OutcomesAreSound ==
  ASSUME NEW s, Sound(s), NEW cmd \in Command, NEW t \in Outcomes(s, cmd)
  PROVE  Sound(t)
<1>1. s \in Session /\ Consistent(s)
  BY DEF Sound
<1>2. CASE cmd.op = "CreateStream"
  <2>1. PICK id \in StreamId : MayCreateStream(s, expired, id) /\ t = AfterCreateStream(s, id)
    BY <1>2 DEF Outcomes
  <2>2. QED
    BY <1>1, <2>1, CreateStreamConsistent DEF Sound
<1>3. CASE cmd.op = "StartStream"
  <2>1. cmd.stream \in StreamId
    BY <1>3 DEF Command
  <2>2. MayStartStream(s, cmd.stream) /\ t = AfterStartStream(s, cmd.stream)
    BY <1>3 DEF Outcomes
  <2>3. QED
    BY <1>1, <2>1, <2>2, StartStreamConsistent DEF Sound
<1>4. CASE cmd.op = "CompleteStream"
  <2>1. cmd.stream \in StreamId
    BY <1>4 DEF Command
  <2>2. MayCompleteStream(s, cmd.stream) /\ t = AfterCompleteStream(s, cmd.stream)
    BY <1>4 DEF Outcomes
  <2>3. QED
    BY <1>1, <2>1, <2>2, CompleteStreamConsistent DEF Sound
<1>5. CASE cmd.op \in {"GenerateFrames", "BatchGenerateFrames"}
  <2>1. t = s
    BY <1>5 DEF Outcomes
  <2>2. QED
    BY <2>1
<1>6. CASE cmd.op = "CloseSession"
  <2>1. MayClose(s) /\ t = AfterClose(s)
    BY <1>6 DEF Outcomes
  <2>2. QED
    BY <1>1, <2>1, CloseConsistent DEF Sound
<1>7. QED
  BY <1>2, <1>3, <1>4, <1>5, <1>6 DEF Command

\* Storing a sound session keeps the invariant: everyone else who holds a
\* copy is marked as outdated.
LEMMA SaveKeeps ==
  ASSUME IInv, NEW c \in Client, NEW s, Sound(s), Save(c, s),
         UNCHANGED << expired, published >>
  PROVE  IInv'
<1>1. /\ repo' = s
      /\ outbox' = [outbox EXCEPT ![c] = s.pending]
      /\ phase' = [phase EXCEPT ![c] = "publishing"]
      /\ command' = [command EXCEPT ![c] = Nothing]
      /\ copy' = [copy EXCEPT ![c] = NoSession]
      /\ outdated' = (outdated \cup {d \in Client : phase[d] = "loaded"}) \ {c}
      /\ overwrote' = (overwrote \/ c \in outdated)
      /\ owing' = c
  BY DEF Save, Stored
<1>2. s \in Session /\ s # NoSession /\ s.pending \in Seq(Event)
  BY NoSessionAssumption, SessionFields DEF Sound
<1>3. TypeOK'
  BY <1>1, <1>2 DEF IInv, TypeOK, SessionOrNone, Phase
<1>4. NoTornSession'
  <2>1. \A d \in Client : copy'[d] # NoSession => copy'[d] = copy[d] /\ Sound(copy[d])
    BY <1>1, HeldAreSound DEF IInv, TypeOK
  <2>2. QED
    BY <1>1, <1>2, <2>1 DEF NoTornSession, Held, Sound
<1>5. LoadedIsWhole'
  BY <1>1, <1>2 DEF IInv, TypeOK, LoadedIsWhole
<1>6. CurrentUnlessOutdated'
  BY <1>1 DEF IInv, TypeOK, CurrentUnlessOutdated
<1>7. QED
  BY <1>3, <1>4, <1>5, <1>6 DEF IInv

\* A handler that ends keeps the invariant.
LEMMA EndsKeeps ==
  ASSUME IInv, NEW c \in Client, Ends(c), repo' = repo,
         UNCHANGED << expired, published, overwrote >>,
         outdated' \in {outdated, outdated \ {c}},
         owing' \in Client \cup {Nobody, Defaulted}
  PROVE  IInv'
<1>1. /\ phase' = [phase EXCEPT ![c] = "idle"]
      /\ command' = [command EXCEPT ![c] = Nothing]
      /\ copy' = [copy EXCEPT ![c] = NoSession]
      /\ outbox' = [outbox EXCEPT ![c] = << >>]
  BY DEF Ends
<1>2. << >> \in Seq(Event)
  OBVIOUS
<1>3. TypeOK'
  BY <1>1, <1>2 DEF IInv, TypeOK, SessionOrNone, Phase
<1>4. NoTornSession'
  BY <1>1 DEF IInv, TypeOK, NoTornSession, Held
<1>5. LoadedIsWhole'
  BY <1>1 DEF IInv, TypeOK, LoadedIsWhole
<1>6. CurrentUnlessOutdated'
  BY <1>1 DEF IInv, TypeOK, CurrentUnlessOutdated
<1>7. QED
  BY <1>3, <1>4, <1>5, <1>6 DEF IInv

\* The inductive step: one case per await of a handler.
LEMMA IInvStep ==
  ASSUME IInv, [Next]_vars
  PROVE  IInv'
<1>1. ASSUME NEW c \in Client, CreateSession(c)
      PROVE  IInv'
  <2>1. Sound(AfterActivate(NewSession))
    BY NewSessionConsistent, ActivateConsistent DEF Sound, MayActivate, NewSession
  <2>2. QED
    BY <1>1, <2>1, SaveKeeps DEF CreateSession
<1>2. ASSUME NEW c \in Client, NEW cmd \in Command, Load(c, cmd)
      PROVE  IInv'
  <2>1. /\ repo # NoSession /\ repo' = repo /\ outdated' = outdated
        /\ phase' = [phase EXCEPT ![c] = "loaded"]
        /\ command' = [command EXCEPT ![c] = cmd]
        /\ copy' = [copy EXCEPT ![c] = repo]
    BY <1>2 DEF Load, ghosts
  <2>2. TypeOK'
    BY <1>2, <2>1 DEF Load, ghosts, IInv, TypeOK, Phase
  <2>3. NoTornSession'
    BY <2>1 DEF IInv, TypeOK, NoTornSession, Held
  <2>4. LoadedIsWhole' /\ CurrentUnlessOutdated'
    BY <2>1 DEF IInv, TypeOK, LoadedIsWhole, CurrentUnlessOutdated
  <2>5. QED
    BY <2>2, <2>3, <2>4 DEF IInv
<1>3. ASSUME NEW c \in Client, Apply(c)
      PROVE  IInv'
  <2>1. PICK s \in Outcomes(copy[c], command[c]) : Save(c, s)
    BY <1>3 DEF Apply
  <2>2. phase[c] = "loaded"
    BY <1>3 DEF Apply
  <2>3. Sound(copy[c]) /\ command[c] \in Command
    BY <2>2, HeldAreSound DEF IInv, LoadedIsWhole
  <2>4. Sound(s)
    BY <2>1, <2>3, OutcomesAreSound
  <2>5. QED
    BY <1>3, <2>1, <2>4, SaveKeeps DEF Apply
<1>4. ASSUME NEW c \in Client, Refuse(c)
      PROVE  IInv'
  BY <1>4, EndsKeeps DEF Refuse, IInv, TypeOK
<1>5. ASSUME NEW c \in Client, Publish(c)
      PROVE  IInv'
  <2>1. outbox[c] \in Seq(Event) /\ outbox[c] # << >>
    BY <1>5 DEF Publish, IInv, TypeOK
  <2>2. Head(outbox[c]) \in Event /\ Tail(outbox[c]) \in Seq(Event)
    BY <2>1
  <2>3. published' \in [Event -> 0 .. MaxCopies]
    <3>1. published' = [published EXCEPT ![Head(outbox[c])] =
                          IF @ < MaxCopies THEN @ + 1 ELSE @]
      BY <1>5 DEF Publish
    <3>2. published[Head(outbox[c])] \in 0 .. MaxCopies
      BY <2>2 DEF IInv, TypeOK
    <3>3. QED
      BY <3>1, <3>2, <2>2, MaxCopiesAssumption DEF IInv, TypeOK
  <2>4. TypeOK'
    BY <1>5, <2>2, <2>3 DEF Publish, ghosts, IInv, TypeOK
  <2>5. NoTornSession' /\ LoadedIsWhole' /\ CurrentUnlessOutdated'
    BY <1>5 DEF Publish, ghosts, IInv, NoTornSession, Held, LoadedIsWhole,
                CurrentUnlessOutdated
  <2>6. QED
    BY <2>4, <2>5 DEF IInv
<1>6. ASSUME NEW c \in Client, PublishFails(c) \/ Return(c)
      PROVE  IInv'
  <2>1. /\ Ends(c) /\ repo' = repo /\ outdated' = outdated
        /\ UNCHANGED << expired, published, overwrote >>
    BY <1>6 DEF PublishFails, Return
  <2>2. owing' \in Client \cup {Nobody, Defaulted}
    BY <1>6 DEF PublishFails, Return, IInv, TypeOK
  <2>3. QED
    BY <2>1, <2>2, EndsKeeps
<1>7. CASE Expire
  BY <1>7 DEF Expire, handler, ghosts, IInv, TypeOK, NoTornSession, Held, LoadedIsWhole,
              CurrentUnlessOutdated
<1>8. CASE UNCHANGED vars
  BY <1>8 DEF vars, handler, ghosts, IInv, TypeOK, NoTornSession, Held, LoadedIsWhole,
              CurrentUnlessOutdated
<1>9. QED
  BY <1>1, <1>2, <1>3, <1>4, <1>5, <1>6, <1>7, <1>8 DEF Next

\* Nothing is stored and nobody at work.
LEMMA IInvInit == Init => IInv
<1>1. SUFFICES ASSUME Init PROVE IInv
  OBVIOUS
<1>2. TypeOK
  <2>1. << >> \in Seq(Event) /\ 0 \in 0 .. MaxCopies
    BY MaxCopiesAssumption
  <2>2. QED
    BY <1>1, <2>1 DEF Init, TypeOK, SessionOrNone, Phase
<1>3. QED
  BY <1>1, <1>2 DEF Init, IInv, NoTornSession, Held, LoadedIsWhole, CurrentUnlessOutdated

-----------------------------------------------------------------------------
(* Theorems *)

\* The variables keep their types.
THEOREM CommandsAreTyped == Spec => []TypeOK
<1>1. IInv /\ [Next]_vars => IInv'
  BY IInvStep
<1>2. IInv => TypeOK
  BY DEF IInv
<1>3. QED
  BY IInvInit, <1>1, <1>2, PTL DEF Spec

\* However the handlers of any number of clients interleave, the stored
\* session and every copy in flight have counters that agree with their
\* streams, keep the limit and run nothing in a session that is not active.
THEOREM NothingIsTorn == Spec => []NoTornSession
<1>1. IInv /\ [Next]_vars => IInv'
  BY IInvStep
<1>2. IInv => NoTornSession
  BY DEF IInv
<1>3. QED
  BY IInvInit, <1>1, <1>2, PTL DEF Spec

-----------------------------------------------------------------------------
(* Serial until a save is overwritten *)

\* The session the aggregate's own specification is given.
Stood == IF repo = NoSession THEN NewSession ELSE repo

\* The aggregate's specification speaks of the same methods.  (An instance
\* has its own copy of every operator, Cardinality of FiniteSets included.)
LEMMA SameMethods ==
  ASSUME NEW s, NEW e, NEW id
  PROVE  /\ Aggregate!MayActivate(s) <=> MayActivate(s)
         /\ Aggregate!AfterActivate(s) = AfterActivate(s)
         /\ Aggregate!MayCreateStream(s, e, id) <=> MayCreateStream(s, e, id)
         /\ Aggregate!AfterCreateStream(s, id) = AfterCreateStream(s, id)
         /\ Aggregate!MayStartStream(s, id) <=> MayStartStream(s, id)
         /\ Aggregate!AfterStartStream(s, id) = AfterStartStream(s, id)
         /\ Aggregate!MayCompleteStream(s, id) <=> MayCompleteStream(s, id)
         /\ Aggregate!AfterCompleteStream(s, id) = AfterCompleteStream(s, id)
         /\ Aggregate!MayClose(s) <=> MayClose(s)
         /\ Aggregate!AfterClose(s) = AfterClose(s)
<1>1. \A kind : /\ Aggregate!SessionEvent(kind) = SessionEvent(kind)
                /\ Aggregate!StreamEvent(kind, id) = StreamEvent(kind, id)
  BY DEF Aggregate!SessionEvent, SessionEvent, Aggregate!StreamEvent, StreamEvent
<1>2. \A n : Aggregate!SaturatingDec(n) = SaturatingDec(n)
  BY DEF Aggregate!SaturatingDec, SaturatingDec
<1>3. ASSUME NEW K PROVE Aggregate!Count(s, K) = Count(s, K)
  <2>1. Aggregate!StreamsIn(s, K) = StreamsIn(s, K)
    BY DEF Aggregate!StreamsIn, StreamsIn
  <2>2. QED
    BY <2>1 DEF Aggregate!Count, Count, Aggregate!Cardinality, Cardinality
<1>4. Aggregate!MayActivate(s) <=> MayActivate(s)
  BY DEF Aggregate!MayActivate, MayActivate
<1>5. Aggregate!AfterActivate(s) = AfterActivate(s)
  BY <1>1 DEF Aggregate!AfterActivate, AfterActivate
<1>6. Aggregate!MayCreateStream(s, e, id) <=> MayCreateStream(s, e, id)
  BY <1>3 DEF Aggregate!MayCreateStream, MayCreateStream, Aggregate!IsActive, IsActive,
              Aggregate!HasRoom, HasRoom, Aggregate!Known, Known,
              Aggregate!ActiveStates, ActiveStates, Aggregate!FinishedStates, FinishedStates
<1>7. Aggregate!AfterCreateStream(s, id) = AfterCreateStream(s, id)
  BY <1>1 DEF Aggregate!AfterCreateStream, AfterCreateStream, Aggregate!Moved, Moved
<1>8. Aggregate!MayStartStream(s, id) <=> MayStartStream(s, id)
  BY DEF Aggregate!MayStartStream, MayStartStream
<1>9. Aggregate!AfterStartStream(s, id) = AfterStartStream(s, id)
  BY <1>1 DEF Aggregate!AfterStartStream, AfterStartStream, Aggregate!Moved, Moved
<1>10. Aggregate!MayCompleteStream(s, id) <=> MayCompleteStream(s, id)
  BY DEF Aggregate!MayCompleteStream, MayCompleteStream
<1>11. Aggregate!AfterCompleteStream(s, id) = AfterCompleteStream(s, id)
  BY <1>1, <1>2 DEF Aggregate!AfterCompleteStream, AfterCompleteStream,
                    Aggregate!Moved, Moved
<1>12. Aggregate!MayClose(s) <=> MayClose(s)
  BY DEF Aggregate!MayClose, MayClose
<1>13. Aggregate!AfterClose(s) = AfterClose(s)
  BY <1>1 DEF Aggregate!AfterClose, AfterClose, Aggregate!ActiveStates, ActiveStates
<1>14. QED
  BY <1>4, <1>5, <1>6, <1>7, <1>8, <1>9, <1>10, <1>11, <1>12, <1>13

\* What a handler stores is what a method of the aggregate makes of the
\* session it holds, or that session itself.
LEMMA OutcomesAreMethods ==
  ASSUME IInv, repo # NoSession, NEW cmd \in Command, NEW s \in Outcomes(repo, cmd),
         repo' = s, s # NoSession, UNCHANGED expired
  PROVE  [Aggregate!Next]_(Aggregate!vars)
<1>1. Stood = repo /\ Stood' = s
  BY DEF Stood
<1>2. ASSUME NEW t, t = s
      PROVE  Aggregate!Becomes(t)
  BY <1>1, <1>2 DEF Aggregate!Becomes, Stood
<1>3. CASE cmd.op = "CreateStream"
  <2>1. PICK id \in StreamId :
          MayCreateStream(repo, expired, id) /\ s = AfterCreateStream(repo, id)
    BY <1>3 DEF Outcomes
  <2>2. Aggregate!CreateStream(id)
    BY <1>1, <1>2, <2>1, SameMethods DEF Aggregate!CreateStream, Stood
  <2>3. QED
    BY <2>2 DEF Aggregate!Next
<1>4. CASE cmd.op = "StartStream"
  <2>1. cmd.stream \in StreamId
    BY <1>4 DEF Command
  <2>2. MayStartStream(repo, cmd.stream) /\ s = AfterStartStream(repo, cmd.stream)
    BY <1>4 DEF Outcomes
  <2>3. Aggregate!StartStream(cmd.stream)
    BY <1>1, <1>2, <2>2, SameMethods DEF Aggregate!StartStream, Stood
  <2>4. QED
    BY <2>1, <2>3 DEF Aggregate!Next
<1>5. CASE cmd.op = "CompleteStream"
  <2>1. cmd.stream \in StreamId
    BY <1>5 DEF Command
  <2>2. MayCompleteStream(repo, cmd.stream) /\ s = AfterCompleteStream(repo, cmd.stream)
    BY <1>5 DEF Outcomes
  <2>3. Aggregate!CompleteStream(cmd.stream)
    BY <1>1, <1>2, <2>2, SameMethods DEF Aggregate!CompleteStream, Stood
  <2>4. QED
    BY <2>1, <2>3 DEF Aggregate!Next
<1>6. CASE cmd.op \in {"GenerateFrames", "BatchGenerateFrames"}
  <2>1. s = repo
    BY <1>6 DEF Outcomes
  <2>2. QED
    BY <2>1 DEF Aggregate!vars
<1>7. CASE cmd.op = "CloseSession"
  <2>1. MayClose(repo) /\ s = AfterClose(repo)
    BY <1>7 DEF Outcomes
  <2>2. Aggregate!Close
    BY <1>1, <1>2, <2>1, SameMethods DEF Aggregate!Close, Stood
  <2>3. QED
    BY <2>2 DEF Aggregate!Next
<1>8. QED
  BY <1>3, <1>4, <1>5, <1>6, <1>7 DEF Command

\* Every await is a method of the aggregate, leaves the stored session
\* alone, or discards another client's save.
LEMMA StepsAreSerial ==
  ASSUME IInv, [Next]_vars
  PROVE  overwrote' \/ [Aggregate!Next]_(Aggregate!vars)
<1>1. ASSUME repo' = repo, expired' = expired
      PROVE  UNCHANGED Aggregate!vars
  BY <1>1 DEF Aggregate!vars
<1>2. ASSUME NEW c \in Client, CreateSession(c)
      PROVE  [Aggregate!Next]_(Aggregate!vars)
  <2>1. repo = NoSession /\ repo' = AfterActivate(NewSession) /\ expired' = expired
    BY <1>2 DEF CreateSession, Save
  <2>2. repo' # NoSession
    BY <2>1, NewSessionConsistent, ActivateConsistent, NoSessionAssumption
       DEF MayActivate, NewSession
  <2>3. Aggregate!Activate
    BY <2>1, <2>2, SameMethods
       DEF Aggregate!Activate, Aggregate!Becomes, MayActivate, NewSession
  <2>4. QED
    BY <2>3 DEF Aggregate!Next
<1>3. ASSUME NEW c \in Client, Apply(c)
      PROVE  overwrote' \/ [Aggregate!Next]_(Aggregate!vars)
  <2>1. PICK s \in Outcomes(copy[c], command[c]) : Save(c, s)
    BY <1>3 DEF Apply
  <2>2. phase[c] = "loaded" /\ expired' = expired
    BY <1>3 DEF Apply
  <2>3. repo # NoSession /\ Sound(copy[c]) /\ command[c] \in Command
    BY <2>2, HeldAreSound DEF IInv, LoadedIsWhole
  <2>4. s # NoSession
    BY <2>1, <2>3, OutcomesAreSound, NoSessionAssumption DEF Sound
  <2>5. CASE c \in outdated
    BY <2>1, <2>5 DEF Save, Stored
  <2>6. CASE c \notin outdated
    <3>1. copy[c] = repo
      BY <2>2, <2>6 DEF IInv, CurrentUnlessOutdated
    <3>2. repo' = s
      BY <2>1 DEF Save
    <3>3. QED
      BY <2>1, <2>2, <2>3, <2>4, <3>1, <3>2, OutcomesAreMethods
  <2>7. QED
    BY <2>5, <2>6
<1>4. CASE Expire
  <2>1. Aggregate!Expire
    BY <1>4 DEF Expire, Aggregate!Expire
  <2>2. QED
    BY <2>1 DEF Aggregate!Next
<1>5. CASE UNCHANGED vars
  BY <1>1, <1>5 DEF vars
<1>6. ASSUME NEW c \in Client,
             \/ \E cmd \in Command : Load(c, cmd)
             \/ Refuse(c) \/ Publish(c) \/ PublishFails(c) \/ Return(c)
      PROVE  [Aggregate!Next]_(Aggregate!vars)
  BY <1>1, <1>6 DEF Load, Refuse, Publish, PublishFails, Return
<1>7. QED
  BY <1>2, <1>3, <1>4, <1>5, <1>6 DEF Next

\* Without lost updates the concurrent handlers are serializable: each of
\* their steps is one call on the one stored aggregate.
THEOREM SerializableUntilOverwrite == Spec => SerialUntilOverwrite
<1>1. IInv /\ [Next]_vars => IInv'
  BY IInvStep
<1>2. IInv /\ [Next]_vars => [overwrote' \/ [Aggregate!Next]_(Aggregate!vars)]_vars
  BY StepsAreSerial
<1>3. QED
  BY IInvInit, <1>1, <1>2, PTL DEF Spec, SerialUntilOverwrite

-----------------------------------------------------------------------------
(* The history that is stored with a session *)

\* Raising an event about a stream, or about the session.
LEMMA PendingAfter ==
  ASSUME NEW s \in Session, NEW id \in StreamId
  PROVE  /\ AfterCreateStream(s, id).pending = Append(s.pending, StreamEvent("StreamCreated", id))
         /\ AfterStartStream(s, id).pending = Append(s.pending, StreamEvent("StreamStarted", id))
         /\ AfterCompleteStream(s, id).pending = Append(s.pending, StreamEvent("StreamCompleted", id))
BY DEF AfterCreateStream, AfterStartStream, AfterCompleteStream, Moved

\* The same for an event about the session itself.
LEMMA SessionPendingAfter ==
  ASSUME NEW s \in Session
  PROVE  /\ AfterActivate(s).pending = Append(s.pending, SessionEvent("SessionActivated"))
         /\ AfterClose(s).pending = Append(s.pending, SessionEvent("SessionClosed"))
BY DEF AfterActivate, AfterClose, Session

\* Whatever command runs on a session that holds its history leaves one that
\* holds its own.
LEMMA OutcomesTellTheStory ==
  ASSUME NEW s, Sound(s), EventsTellTheStory(s.pending, s),
         NEW cmd \in Command, NEW t \in Outcomes(s, cmd)
  PROVE  EventsTellTheStory(t.pending, t)
<1>1. s \in Session /\ Consistent(s) /\ s.pending \in Seq(Event)
  BY SessionFields DEF Sound
<1>2. CASE cmd.op = "CreateStream"
  <2>1. PICK id \in StreamId : MayCreateStream(s, expired, id) /\ t = AfterCreateStream(s, id)
    BY <1>2 DEF Outcomes
  <2>2. QED
    BY <1>1, <2>1, CreateStreamTellsTheStory, PendingAfter
<1>3. CASE cmd.op = "StartStream"
  <2>1. cmd.stream \in StreamId
    BY <1>3 DEF Command
  <2>2. MayStartStream(s, cmd.stream) /\ t = AfterStartStream(s, cmd.stream)
    BY <1>3 DEF Outcomes
  <2>3. QED
    BY <1>1, <2>1, <2>2, StartStreamTellsTheStory, PendingAfter
<1>4. CASE cmd.op = "CompleteStream"
  <2>1. cmd.stream \in StreamId
    BY <1>4 DEF Command
  <2>2. MayCompleteStream(s, cmd.stream) /\ t = AfterCompleteStream(s, cmd.stream)
    BY <1>4 DEF Outcomes
  <2>3. QED
    BY <1>1, <2>1, <2>2, CompleteStreamTellsTheStory, PendingAfter
<1>5. CASE cmd.op \in {"GenerateFrames", "BatchGenerateFrames"}
  <2>1. t = s
    BY <1>5 DEF Outcomes
  <2>2. QED
    BY <2>1
<1>6. CASE cmd.op = "CloseSession"
  <2>1. MayClose(s) /\ t = AfterClose(s)
    BY <1>6 DEF Outcomes
  <2>2. QED
    BY <1>1, <2>1, CloseTellsTheStory, SessionPendingAfter
<1>7. QED
  BY <1>2, <1>3, <1>4, <1>5, <1>6 DEF Command

\* A save stores a session that is sound and holds its history.
LEMMA SavesTellTheStory ==
  ASSUME IInv, NoTornHistory, NEW c \in Client, NEW s, Save(c, s),
         \/ CreateSession(c) /\ s = AfterActivate(NewSession)
         \/ Apply(c) /\ s \in Outcomes(copy[c], command[c])
  PROVE  Sound(s) /\ s # NoSession /\ EventsTellTheStory(s.pending, s)
<1>1. Sound(s) => s # NoSession
  BY NoSessionAssumption DEF Sound
<1>2. CASE CreateSession(c) /\ s = AfterActivate(NewSession)
  <2>1. /\ NewSession \in Session /\ Consistent(NewSession)
        /\ MayActivate(NewSession) /\ NewSession.pending = << >>
    BY NewSessionConsistent DEF MayActivate, NewSession
  <2>2. << >> \in Seq(Event)
    OBVIOUS
  <2>3. QED
    BY <1>1, <1>2, <2>1, <2>2, ActivateConsistent, NewSessionTellsTheStory,
       ActivateTellsTheStory, SessionPendingAfter DEF Sound
<1>3. CASE Apply(c) /\ s \in Outcomes(copy[c], command[c])
  <2>1. phase[c] = "loaded"
    BY <1>3 DEF Apply
  <2>2. Sound(copy[c]) /\ copy[c] # NoSession /\ command[c] \in Command
    BY <2>1, HeldAreSound DEF IInv, LoadedIsWhole
  <2>3. EventsTellTheStory(copy[c].pending, copy[c])
    BY <2>2 DEF NoTornHistory, Held
  <2>4. QED
    BY <1>1, <1>3, <2>2, <2>3, OutcomesAreSound, OutcomesTellTheStory
<1>4. QED
  BY <1>2, <1>3

\* The ways the await of a handler can go: it saves, ends, or goes on.
LEMMA Awaits ==
  ASSUME IInv, NoTornHistory, [Next]_vars
  PROVE  \/ \E c \in Client : \E s :
              /\ Save(c, s) /\ published' = published
              /\ Sound(s) /\ s # NoSession /\ EventsTellTheStory(s.pending, s)
         \/ \E c \in Client : \E cmd \in Command : Load(c, cmd)
         \/ \E c \in Client : Refuse(c) \/ Return(c) \/ PublishFails(c)
         \/ \E c \in Client : Publish(c)
         \/ UNCHANGED << repo, handler, published, ghosts >>
<1>1. ASSUME NEW c \in Client, CreateSession(c)
      PROVE  /\ Save(c, AfterActivate(NewSession)) /\ published' = published
             /\ Sound(AfterActivate(NewSession)) /\ AfterActivate(NewSession) # NoSession
             /\ EventsTellTheStory(AfterActivate(NewSession).pending, AfterActivate(NewSession))
  <2>1. Save(c, AfterActivate(NewSession)) /\ published' = published
    BY <1>1 DEF CreateSession
  <2>2. QED
    BY <1>1, <2>1, SavesTellTheStory
<1>2. ASSUME NEW c \in Client, Apply(c)
      PROVE  \E s : /\ Save(c, s) /\ published' = published
                    /\ Sound(s) /\ s # NoSession /\ EventsTellTheStory(s.pending, s)
  <2>1. PICK s \in Outcomes(copy[c], command[c]) : Save(c, s)
    BY <1>2 DEF Apply
  <2>2. published' = published
    BY <1>2 DEF Apply
  <2>3. QED
    BY <1>2, <2>1, <2>2, SavesTellTheStory
<1>3. CASE Expire \/ UNCHANGED vars
  BY <1>3 DEF Expire, vars
<1>4. QED
  BY <1>1, <1>2, <1>3 DEF Next

\* The inductive step: a save brings in a session with its history, and
\* everything else that is held was held before.
LEMMA NoTornHistoryStep ==
  ASSUME IInv, NoTornHistory, [Next]_vars
  PROVE  NoTornHistory'
<1>1. ASSUME NEW c \in Client, NEW s, Save(c, s), EventsTellTheStory(s.pending, s)
      PROVE  NoTornHistory'
  <2>1. repo' = s /\ copy' = [copy EXCEPT ![c] = NoSession]
    BY <1>1 DEF Save, Stored
  <2>2. Held' \subseteq Held \cup {s}
    BY <2>1 DEF Held, IInv, TypeOK
  <2>3. QED
    BY <1>1, <2>2 DEF NoTornHistory
<1>2. ASSUME NEW c \in Client, NEW cmd \in Command, Load(c, cmd)
      PROVE  NoTornHistory'
  <2>1. repo' = repo /\ copy' = [copy EXCEPT ![c] = repo]
    BY <1>2 DEF Load
  <2>2. Held' \subseteq Held
    BY <2>1 DEF Held, IInv, TypeOK
  <2>3. QED
    BY <2>2 DEF NoTornHistory
<1>3. ASSUME NEW c \in Client, Refuse(c) \/ Return(c) \/ PublishFails(c)
      PROVE  NoTornHistory'
  <2>1. repo' = repo /\ copy' = [copy EXCEPT ![c] = NoSession]
    BY <1>3 DEF Refuse, Return, PublishFails, Ends
  <2>2. Held' \subseteq Held
    BY <2>1 DEF Held, IInv, TypeOK
  <2>3. QED
    BY <2>2 DEF NoTornHistory
<1>4. ASSUME NEW c \in Client, Publish(c)
      PROVE  NoTornHistory'
  BY <1>4 DEF Publish, NoTornHistory, Held
<1>5. CASE UNCHANGED << repo, handler, published, ghosts >>
  BY <1>5 DEF handler, NoTornHistory, Held
<1>6. QED
  BY <1>1, <1>2, <1>3, <1>4, <1>5, Awaits

\* Nothing is held yet.
LEMMA NoTornHistoryInit == Init => NoTornHistory
BY DEF Init, NoTornHistory, Held

\* Whoever overtakes whom, and however often the store forgets a session: the
\* events stored with a session are the history of exactly that session.
THEOREM NoHistoryIsTorn == Spec => []NoTornHistory
<1>1. IInv /\ [Next]_vars => IInv'
  BY IInvStep
<1>2. IInv /\ NoTornHistory /\ [Next]_vars => NoTornHistory'
  BY NoTornHistoryStep
<1>3. QED
  BY IInvInit, NoTornHistoryInit, <1>1, <1>2, PTL DEF Spec

-----------------------------------------------------------------------------
(* What is published, and in which order *)

\* The events a handler has in hand come after their causes: those are out
\* already, or in its hand before them.
OutboxInOrder ==
  \A c \in Client : \A j \in DOMAIN outbox[c] : \A d \in Before(outbox[c][j]) :
    \/ published[d] > 0
    \/ \E i \in DOMAIN outbox[c] : i < j /\ outbox[c][i] = d

\* Whoever owes the store its events is at work on them.
OwingIsPublishing == owing \in Client => phase[owing] = "publishing"

\* An event is what its kind and its stream say.
LEMMA EventIsItsFields ==
  ASSUME NEW e \in Event
  PROVE  /\ e.kind \in StreamEventKind => e.stream \in StreamId /\ e = StreamEvent(e.kind, e.stream)
         /\ e.kind \in SessionEventKind => e = SessionEvent(e.kind)
         /\ e.kind \in StreamEventKind \cup SessionEventKind
<1>1. CASE e \in [kind : StreamEventKind, stream : StreamId]
  BY <1>1 DEF StreamEvent, StreamEventKind, SessionEventKind
<1>2. CASE e \in [kind : SessionEventKind, stream : {NoStream}]
  BY <1>2 DEF SessionEvent, StreamEventKind, SessionEventKind
<1>3. QED
  BY <1>1, <1>2 DEF Event

\* The causes of an event are events.
LEMMA CausesAreEvents ==
  ASSUME NEW e \in Event
  PROVE  Before(e) \subseteq Event
<1>1. e.kind \in StreamEventKind => e.stream \in StreamId
  BY EventIsItsFields
<1>2. QED
  BY <1>1, EventIsItsFields
     DEF Before, SessionEvent, StreamEvent, Event, StreamEventKind, SessionEventKind

\* In a history the causes of an event come before it.
LEMMA CausesAreEarlier ==
  ASSUME NEW s \in Session, NEW log \in Seq(Event), EventsTellTheStory(log, s),
         NEW j \in DOMAIN log, NEW d \in Before(log[j])
  PROVE  \E i \in DOMAIN log : i < j /\ log[i] = d
<1> DEFINE e == log[j]
<1>1. e \in Event /\ j \in 1 .. Len(log) /\ Len(log) \in Nat /\ DOMAIN log = 1 .. Len(log)
  OBVIOUS
<1>2. \A i \in DOMAIN log : log[i] \in Event
  OBVIOUS
<1>3. CASE e.kind \in {"SessionClosed", "StreamCreated"}
  <2>1. d = SessionEvent("SessionActivated")
    BY <1>3 DEF Before
  <2>2. 1 \in DOMAIN log /\ log[1].kind = "SessionActivated" /\ j # 1
    BY <1>1, <1>3 DEF EventsTellTheStory
  <2>3. log[1] = SessionEvent("SessionActivated")
    BY <1>2, <2>2, EventIsItsFields DEF SessionEventKind
  <2>4. QED
    BY <1>1, <2>1, <2>2, <2>3
<1>4. ASSUME NEW kind \in {"StreamCreated", "StreamStarted"}, d = StreamEvent(kind, e.stream),
             e.stream \in StreamId, kind \in Told(log, e.stream), Stage(kind) < Stage(e.kind),
             Stage(kind) \in Nat, Stage(e.kind) \in Nat
      PROVE  \E i \in DOMAIN log : i < j /\ log[i] = d
  <2>1. PICK i \in DOMAIN log : log[i].stream = e.stream /\ log[i].kind = kind
    BY <1>4 DEF Told
  <2>2. log[i] = d
    BY <1>2, <1>4, <2>1, EventIsItsFields DEF StreamEventKind
  <2>3. ~(j < i) /\ i # j
    BY <1>4, <2>1 DEF EventsTellTheStory, InOrder
  <2>4. QED
    BY <1>1, <2>2, <2>3
<1>5. e.kind \in StreamEventKind =>
        /\ e.stream \in StreamId /\ e.kind \in Told(log, e.stream)
        /\ Told(log, e.stream) \in Stories(s.streams[e.stream])
  <2>1. e.kind \in StreamEventKind => e.stream \in StreamId
    BY <1>1, EventIsItsFields
  <2>2. QED
    BY <2>1 DEF Told, EventsTellTheStory
<1>6. CASE e.kind \in {"StreamStarted", "StreamFailed"}
  <2>1. d = StreamEvent("StreamCreated", e.stream)
    BY <1>6 DEF Before
  <2>2. "StreamCreated" \in Told(log, e.stream) /\ e.stream \in StreamId
    <3>1. /\ e.kind \in Told(log, e.stream) /\ e.stream \in StreamId
          /\ Told(log, e.stream) \in Stories(s.streams[e.stream])
          /\ s.streams[e.stream] \in StreamState
      BY <1>5, <1>6, SessionFields DEF StreamEventKind
    <3>2. QED
      BY <3>1, <1>6 DEF Stories, StreamState, ActiveStates, FinishedStates
  <2>3. QED
    BY <1>4, <1>6, <2>1, <2>2 DEF Stage
<1>7. CASE e.kind = "StreamCompleted"
  <2>1. d = StreamEvent("StreamStarted", e.stream)
    BY <1>7 DEF Before
  <2>2. "StreamStarted" \in Told(log, e.stream) /\ e.stream \in StreamId
    <3>1. /\ e.kind \in Told(log, e.stream) /\ e.stream \in StreamId
          /\ Told(log, e.stream) \in Stories(s.streams[e.stream])
          /\ s.streams[e.stream] \in StreamState
      BY <1>5, <1>7, SessionFields DEF StreamEventKind
    <3>2. QED
      BY <3>1, <1>7 DEF Stories, StreamState, ActiveStates, FinishedStates
  <2>3. QED
    BY <1>4, <1>7, <2>1, <2>2 DEF Stage
<1>8. e.kind # "SessionActivated"
  BY DEF Before
<1>9. QED
  BY <1>1, <1>3, <1>6, <1>7, <1>8, EventIsItsFields DEF StreamEventKind, SessionEventKind

\* What publishing does: the first event is out, the rest stay in hand in
\* their order, and what was out stays out.
LEMMA PublishFirst ==
  ASSUME TypeOK, NEW c \in Client, Publish(c)
  PROVE  /\ outbox[c] \in Seq(Event) /\ outbox[c] # << >> /\ 1 \in DOMAIN outbox[c]
         /\ published'[outbox[c][1]] > 0
         /\ \A e \in Event : published[e] > 0 => published'[e] > 0
         /\ \A e \in Event : published'[e] > 0 => published[e] > 0 \/ e = outbox[c][1]
         /\ \A j \in DOMAIN outbox[c] : j # 1 =>
              j - 1 \in DOMAIN outbox'[c] /\ outbox'[c][j - 1] = outbox[c][j]
         /\ \A j \in DOMAIN outbox'[c] :
              j + 1 \in DOMAIN outbox[c] /\ outbox'[c][j] = outbox[c][j + 1]
         /\ \A d \in Client \ {c} : outbox'[d] = outbox[d]
<1>1. outbox[c] \in Seq(Event) /\ outbox[c] # << >>
  BY DEF Publish, TypeOK
<1>2. 1 \in DOMAIN outbox[c] /\ Head(outbox[c]) = outbox[c][1] /\ outbox[c][1] \in Event
  BY <1>1
<1>3. outbox' = [outbox EXCEPT ![c] = Tail(outbox[c])]
  BY DEF Publish
<1>4. outbox'[c] = Tail(outbox[c]) /\ \A d \in Client \ {c} : outbox'[d] = outbox[d]
  BY <1>3 DEF TypeOK
<1>5. published' = [published EXCEPT ![outbox[c][1]] =
                      IF published[outbox[c][1]] < MaxCopies
                        THEN published[outbox[c][1]] + 1 ELSE published[outbox[c][1]]]
  BY <1>2 DEF Publish
<1>6. \A e \in Event : published[e] \in 0 .. MaxCopies
  BY DEF TypeOK
<1>7. published'[outbox[c][1]] > 0
  BY <1>2, <1>5, <1>6, MaxCopiesAssumption DEF TypeOK
<1>8. \A e \in Event : e # outbox[c][1] => published'[e] = published[e]
  BY <1>2, <1>5 DEF TypeOK
<1>9. \A j \in DOMAIN outbox[c] : j # 1 =>
        j - 1 \in DOMAIN Tail(outbox[c]) /\ Tail(outbox[c])[j - 1] = outbox[c][j]
  BY <1>1
<1>10. \A j \in DOMAIN Tail(outbox[c]) :
         j + 1 \in DOMAIN outbox[c] /\ Tail(outbox[c])[j] = outbox[c][j + 1]
  BY <1>1
<1>11. QED
  BY <1>1, <1>2, <1>4, <1>7, <1>8, <1>9, <1>10

\* A handler that saves goes on with the history of what it saved; one that
\* ends has nothing in hand; the others keep what they have.
LEMMA Hands ==
  ASSUME TypeOK, NEW c \in Client
  PROVE  /\ \A s : Save(c, s) => /\ outbox'[c] = s.pending /\ phase'[c] = "publishing"
                                 /\ repo' = s /\ owing' = c
                                 /\ \A d \in Client \ {c} : outbox'[d] = outbox[d]
         /\ Ends(c) => /\ outbox'[c] = << >>
                       /\ \A d \in Client \ {c} : outbox'[d] = outbox[d] /\ phase'[d] = phase[d]
BY DEF Save, Stored, Ends, TypeOK

\* The inductive step for the order in hand.
LEMMA OutboxInOrderStep ==
  ASSUME IInv, NoTornHistory, OutboxInOrder, [Next]_vars
  PROVE  OutboxInOrder'
<1> DEFINE Ready(c) ==
             \A j \in DOMAIN outbox[c] : \A d \in Before(outbox[c][j]) :
               \/ published[d] > 0
               \/ \E i \in DOMAIN outbox[c] : i < j /\ outbox[c][i] = d
<1>1. TypeOK
  BY DEF IInv
<1>2. ASSUME NEW d \in Client, outbox'[d] = outbox[d], published' = published
      PROVE  Ready(d)'
  BY <1>2 DEF OutboxInOrder
<1>3. ASSUME NEW c \in Client, NEW s, Save(c, s), published' = published,
             Sound(s), EventsTellTheStory(s.pending, s)
      PROVE  OutboxInOrder'
  <2>1. s \in Session /\ s.pending \in Seq(Event)
    BY <1>3, SessionFields DEF Sound
  <2>2. \A j \in DOMAIN s.pending : \A d \in Before(s.pending[j]) :
          \E i \in DOMAIN s.pending : i < j /\ s.pending[i] = d
    BY <1>3, <2>1, CausesAreEarlier
  <2>3. outbox'[c] = s.pending /\ \A d \in Client \ {c} : outbox'[d] = outbox[d]
    BY <1>1, <1>3, Hands
  <2>4. Ready(c)'
    BY <2>2, <2>3
  <2>5. QED
    BY <1>2, <1>3, <2>3, <2>4 DEF OutboxInOrder
<1>4. ASSUME NEW c \in Client, NEW cmd \in Command, Load(c, cmd)
      PROVE  OutboxInOrder'
  BY <1>4 DEF Load, OutboxInOrder
<1>5. ASSUME NEW c \in Client, Refuse(c) \/ Return(c) \/ PublishFails(c)
      PROVE  OutboxInOrder'
  <2>1. Ends(c) /\ published' = published
    BY <1>5 DEF Refuse, Return, PublishFails
  <2>2. DOMAIN outbox'[c] = {} /\ \A d \in Client \ {c} : outbox'[d] = outbox[d]
    BY <1>1, <2>1, Hands
  <2>3. Ready(c)'
    BY <2>2
  <2>4. QED
    BY <1>2, <2>1, <2>2, <2>3 DEF OutboxInOrder
<1>6. ASSUME NEW c \in Client, Publish(c)
      PROVE  OutboxInOrder'
  <2>1. ASSUME NEW x \in Client, NEW j \in DOMAIN outbox[x], NEW d \in Before(outbox[x][j])
        PROVE  \/ published'[d] > 0
               \/ \E i \in DOMAIN outbox[x] : i < j /\ outbox[x][i] = d
    <3>1. outbox[x][j] \in Event
      BY <1>1 DEF TypeOK
    <3>2. d \in Event
      BY <2>1, <3>1, CausesAreEvents
    <3>3. QED
      BY <1>1, <1>6, <2>1, <3>2, PublishFirst DEF OutboxInOrder
  <2>2. ASSUME NEW x \in Client \ {c}
        PROVE  Ready(x)'
    <3>1. outbox'[x] = outbox[x]
      BY <1>1, <1>6, PublishFirst
    <3>2. QED
      BY <2>1, <3>1
  <2>3. Ready(c)'
    <3>1. SUFFICES ASSUME NEW j \in DOMAIN outbox'[c], NEW d \in Before(outbox'[c][j])
                   PROVE  \/ published'[d] > 0
                          \/ \E i \in DOMAIN outbox'[c] : i < j /\ outbox'[c][i] = d
      BY DEF Before
    <3>2. j + 1 \in DOMAIN outbox[c] /\ outbox'[c][j] = outbox[c][j + 1]
      BY <1>1, <1>6, PublishFirst
    <3>3. CASE published'[d] > 0
      BY <3>3
    <3>4. CASE \E i \in DOMAIN outbox[c] : i < j + 1 /\ outbox[c][i] = d
      <4>1. PICK i \in DOMAIN outbox[c] : i < j + 1 /\ outbox[c][i] = d
        BY <3>4
      <4>2. CASE i = 1
        BY <1>1, <1>6, <4>1, <4>2, PublishFirst
      <4>3. CASE i # 1
        <5>1. /\ i - 1 \in DOMAIN outbox'[c] /\ outbox'[c][i - 1] = d
              /\ outbox[c] \in Seq(Event)
          BY <1>1, <1>6, <4>1, <4>3, PublishFirst
        <5>2. i \in Nat /\ j + 1 \in Nat
          BY <3>2, <5>1
        <5>3. j \in Int
          BY <1>1, <1>6, <3>2 DEF Publish, TypeOK
        <5>4. i - 1 < j
          BY <4>1, <5>2, <5>3
        <5>5. QED
          BY <5>1, <5>4
      <4>4. QED
        BY <4>2, <4>3
    <3>5. QED
      BY <2>1, <3>2, <3>3, <3>4
  <2>4. QED
    BY <2>2, <2>3 DEF OutboxInOrder
<1>7. CASE UNCHANGED << repo, handler, published, ghosts >>
  BY <1>7 DEF handler, OutboxInOrder
<1>8. QED
  BY <1>3, <1>4, <1>5, <1>6, <1>7, Awaits

\* The inductive step for what is out: only the first event in a hand goes
\* out, and its causes cannot be in that hand before it.
LEMMA CausesPublishedFirstStep ==
  ASSUME IInv, NoTornHistory, OutboxInOrder, CausesPublishedFirst, [Next]_vars
  PROVE  CausesPublishedFirst'
<1>1. ASSUME published' = published
      PROVE  CausesPublishedFirst'
  BY <1>1 DEF CausesPublishedFirst
<1>2. ASSUME NEW c \in Client, Publish(c)
      PROVE  CausesPublishedFirst'
  <2>1. TypeOK
    BY DEF IInv
  <2>2. ASSUME NEW d \in Before(outbox[c][1])
        PROVE  published[d] > 0
    <3>1. \A i \in DOMAIN outbox[c] : ~(i < 1)
      BY <1>2, <2>1, PublishFirst
    <3>2. QED
      BY <1>2, <2>1, <2>2, <3>1, PublishFirst DEF OutboxInOrder
  <2>3. \A e \in Event : published'[e] > 0 => \A d \in Before(e) : published[d] > 0
    BY <1>2, <2>1, <2>2, PublishFirst DEF CausesPublishedFirst
  <2>4. \A e \in Event : \A d \in Before(e) : published[d] > 0 => published'[d] > 0
    BY <1>2, <2>1, PublishFirst, CausesAreEvents
  <2>5. QED
    BY <2>3, <2>4 DEF CausesPublishedFirst
<1>3. published' = published \/ \E c \in Client : Publish(c)
  BY DEF Next, CreateSession, Load, Apply, Refuse, Return, PublishFails, Expire, vars
<1>4. QED
  BY <1>1, <1>2, <1>3

\* Clients publish without coordinating, overtake each other and stop half
\* way: whatever an outside listener has seen, it has seen its causes.
THEOREM CausesGoFirst == Spec => []CausesPublishedFirst
<1>1. Init => OutboxInOrder /\ CausesPublishedFirst
  BY DEF Init, OutboxInOrder, CausesPublishedFirst
<1>2. IInv /\ [Next]_vars => IInv'
  BY IInvStep
<1>3. IInv /\ NoTornHistory /\ [Next]_vars => NoTornHistory'
  BY NoTornHistoryStep
<1>4. IInv /\ NoTornHistory /\ OutboxInOrder /\ [Next]_vars => OutboxInOrder'
  BY OutboxInOrderStep
<1>5. IInv /\ NoTornHistory /\ OutboxInOrder /\ CausesPublishedFirst /\ [Next]_vars
        => CausesPublishedFirst'
  BY CausesPublishedFirstStep
<1>6. QED
  BY IInvInit, NoTornHistoryInit, <1>1, <1>2, <1>3, <1>4, <1>5, PTL DEF Spec

-----------------------------------------------------------------------------
(* Nothing that is stored goes unannounced *)

\* The inductive step: the debt passes to every handler that saves, and only
\* that handler's own publications, return or failure settle it.
LEMMA LastWriterStep ==
  ASSUME IInv, NoTornHistory, OwingIsPublishing, LastWriterPublishesAll, [Next]_vars
  PROVE  OwingIsPublishing' /\ LastWriterPublishesAll'
<1>1. TypeOK
  BY DEF IInv
<1>2. ASSUME NEW c \in Client, NEW s, Save(c, s), s # NoSession
      PROVE  OwingIsPublishing' /\ LastWriterPublishesAll'
  <2>1. outbox'[c] = s.pending /\ phase'[c] = "publishing" /\ repo' = s /\ owing' = c
    BY <1>1, <1>2, Hands
  <2>2. QED
    BY <2>1 DEF OwingIsPublishing, LastWriterPublishesAll
<1>3. ASSUME repo' = repo, published' = published, owing' = owing,
             owing \in Client => outbox'[owing] = outbox[owing] /\ phase'[owing] = phase[owing]
      PROVE  OwingIsPublishing' /\ LastWriterPublishesAll'
  BY <1>3 DEF OwingIsPublishing, LastWriterPublishesAll
<1>4. ASSUME NEW c \in Client, NEW cmd \in Command, Load(c, cmd)
      PROVE  OwingIsPublishing' /\ LastWriterPublishesAll'
  <2>1. phase[c] = "idle" /\ phase' = [phase EXCEPT ![c] = "loaded"]
    BY <1>4 DEF Load
  <2>2. owing \in Client => owing # c /\ phase'[owing] = phase[owing]
    BY <1>1, <2>1 DEF OwingIsPublishing, TypeOK
  <2>3. QED
    BY <1>3, <1>4, <2>2 DEF Load, ghosts
<1>5. ASSUME NEW c \in Client, Refuse(c)
      PROVE  OwingIsPublishing' /\ LastWriterPublishesAll'
  <2>1. phase[c] = "loaded" /\ Ends(c)
    BY <1>5 DEF Refuse
  <2>2. owing \in Client => owing # c
    BY <2>1 DEF OwingIsPublishing
  <2>3. owing \in Client => outbox'[owing] = outbox[owing] /\ phase'[owing] = phase[owing]
    BY <1>1, <2>1, <2>2, Hands
  <2>4. QED
    BY <1>3, <1>5, <2>3 DEF Refuse
<1>6. ASSUME NEW c \in Client, PublishFails(c) \/ Return(c)
      PROVE  OwingIsPublishing' /\ LastWriterPublishesAll'
  <2>1. Ends(c) /\ repo' = repo /\ published' = published
    BY <1>6 DEF PublishFails, Return
  <2>2. CASE owing # c
    <3>1. owing' = owing
      BY <1>6, <2>2 DEF PublishFails, Return
    <3>2. owing \in Client => outbox'[owing] = outbox[owing] /\ phase'[owing] = phase[owing]
      BY <1>1, <2>1, <2>2, Hands
    <3>3. QED
      BY <1>3, <2>1, <3>1, <3>2
  <2>3. CASE owing = c /\ PublishFails(c)
    <3>1. owing' = Defaulted /\ Defaulted \notin Client
      BY <2>3, ClientAssumption DEF PublishFails, Defaulted
    <3>2. QED
      BY <3>1 DEF OwingIsPublishing, LastWriterPublishesAll
  <2>4. CASE owing = c /\ Return(c)
    <3>1. owing' = Nobody /\ Nobody \notin Client /\ owing # Defaulted
      BY <2>4, ClientAssumption DEF Return, Nobody, Defaulted
    <3>2. DOMAIN outbox[c] = {}
      BY <2>4 DEF Return
    <3>3. repo # NoSession => \A i \in DOMAIN repo.pending : published[repo.pending[i]] > 0
      BY <2>4, <3>1, <3>2 DEF LastWriterPublishesAll
    <3>4. QED
      BY <2>1, <3>1, <3>3 DEF OwingIsPublishing, LastWriterPublishesAll
  <2>5. QED
    BY <1>6, <2>2, <2>3, <2>4
<1>7. ASSUME NEW c \in Client, Publish(c)
      PROVE  OwingIsPublishing' /\ LastWriterPublishesAll'
  <2>1. repo' = repo /\ owing' = owing /\ phase' = phase
    BY <1>7 DEF Publish, ghosts
  <2>2. repo # NoSession => \A i \in DOMAIN repo.pending : repo.pending[i] \in Event
    <3>1. repo # NoSession => repo.pending \in Seq(Event)
      BY <1>1, SessionFields DEF TypeOK, SessionOrNone
    <3>2. QED
      BY <3>1
  <2>3. ASSUME repo # NoSession, NEW i \in DOMAIN repo.pending, published'[repo.pending[i]] <= 0,
               owing # Defaulted
        PROVE  owing \in Client /\ \E j \in DOMAIN outbox'[owing] : outbox'[owing][j] = repo.pending[i]
    <3>1. ~(published[repo.pending[i]] > 0) /\ repo.pending[i] # outbox[c][1]
      <4>1. published'[repo.pending[i]] \in Nat
        BY <1>7, <2>2, <2>3, IInvStep DEF IInv, TypeOK
      <4>2. ~(published'[repo.pending[i]] > 0)
        BY <2>3, <4>1
      <4>3. QED
        BY <1>1, <1>7, <2>2, <2>3, <4>2, PublishFirst
    <3>2. PICK j \in DOMAIN outbox[owing] : owing \in Client /\ outbox[owing][j] = repo.pending[i]
      BY <2>3, <3>1 DEF LastWriterPublishesAll
    <3>3. CASE owing = c
      BY <1>1, <1>7, <3>1, <3>2, <3>3, PublishFirst
    <3>4. CASE owing # c
      BY <1>1, <1>7, <3>2, <3>4, PublishFirst
    <3>5. QED
      BY <3>3, <3>4
  <2>4. repo # NoSession => \A i \in DOMAIN repo.pending : published'[repo.pending[i]] \in Nat
    BY <1>7, <2>2, IInvStep DEF IInv, TypeOK
  <2>5. LastWriterPublishesAll'
    BY <2>1, <2>3, <2>4 DEF LastWriterPublishesAll
  <2>6. QED
    BY <2>1, <2>5 DEF OwingIsPublishing
<1>8. CASE UNCHANGED << repo, handler, published, ghosts >>
  BY <1>3, <1>8 DEF handler, ghosts
<1>9. QED
  BY <1>2, <1>4, <1>5, <1>6, <1>7, <1>8, Awaits

\* Every event in the store is out, or in the hand of the last writer, or was
\* dropped because the publisher failed that writer.
THEOREM NothingGoesUnannounced == Spec => []LastWriterPublishesAll
<1>1. Init => OwingIsPublishing /\ LastWriterPublishesAll
  BY ClientAssumption DEF Init, OwingIsPublishing, LastWriterPublishesAll, Nobody
<1>2. IInv /\ [Next]_vars => IInv'
  BY IInvStep
<1>3. IInv /\ NoTornHistory /\ [Next]_vars => NoTornHistory'
  BY NoTornHistoryStep
<1>4. IInv /\ NoTornHistory /\ OwingIsPublishing /\ LastWriterPublishesAll /\ [Next]_vars
        => OwingIsPublishing' /\ LastWriterPublishesAll'
  BY LastWriterStep
<1>5. QED
  BY IInvInit, NoTornHistoryInit, <1>1, <1>2, <1>3, <1>4, PTL DEF Spec
=============================================================================
