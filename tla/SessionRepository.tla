------------------------- MODULE SessionRepository -------------------------
(***************************************************************************)
(* The versioned session repository                                        *)
(* (infrastructure/adapters/repository_adapters.rs), shared by concurrent  *)
(* clients: optimistic saves, removal, health queries, queries by criteria *)
(* and transactions.                                                       *)
(*                                                                         *)
(* Two read-write locks guard it.  Every call but two takes the one on     *)
(* `sessions` alone and is one step.  remove_session takes it and then the *)
(* one on `health_snapshots`; get_session_health takes them the other way  *)
(* round; each of these is two steps and holds its first lock in between.  *)
(* No code inserts a health snapshot, so that map is always empty.         *)
(*                                                                         *)
(* A stored session is who saved it, in which state and with how many      *)
(* streams.  Nobody reads the version back: find_session drops it, so a    *)
(* client only knows the versions its own saves returned.                  *)
(***************************************************************************)
EXTENDS Naturals, FiniteSets, Sequences, SequencesExt

CONSTANTS
  Client,
  SessionId,
  Absent,      \* the map has no such key
  MaxStreams,  \* bound: streams of a session
  MaxVersion   \* bound: versions drawn

VARIABLES
  sessions,     \* SessionId -> the stored session and its version, or Absent
  nextVersion,
  call,         \* the two-step call a client is in
  known,        \* the version a client's last save of a session returned
  transaction   \* what a client's open transaction is to remove, or Absent

vars == << sessions, nextVersion, call, known, transaction >>

State == {"Active", "Completed"}

Entry == [author : Client, state : State, streams : 0 .. MaxStreams, version : 1 .. MaxVersion]

Idle == [op |-> "idle"]
Call == {Idle} \cup [op : {"removing", "checkingHealth"}, id : SessionId]

Present == {id \in SessionId : sessions[id] # Absent}

Init ==
  /\ sessions = [id \in SessionId |-> Absent]
  /\ nextVersion = 1
  /\ call = [c \in Client |-> Idle]
  /\ known = [c \in Client |-> [id \in SessionId |-> 0]]
  /\ transaction = [c \in Client |-> Absent]

\* The locks are held from the first step of these calls to their second.
SessionsLocked == \E c \in Client : call[c].op = "removing"
HealthRead     == \E c \in Client : call[c].op = "checkingHealth"

Calls(c) == call[c] = Idle /\ ~SessionsLocked

-----------------------------------------------------------------------------
(* Sessions *)

\* Mutant: a save is refused only when its version is ahead of the stored one.
NotInConflictLately(id, expected) ==
  expected # 0 /\ id \in Present => sessions[id].version >= expected

\* The version is compared only when the caller names one and the session is
\* there: 0 stands for None.
NotInConflict(id, expected) ==
  expected # 0 /\ id \in Present => sessions[id].version = expected

Save(c, id, expected, state, streams) ==
  /\ Calls(c)
  /\ nextVersion <= MaxVersion
  /\ NotInConflict(id, expected)
  /\ sessions' = [sessions EXCEPT ![id] =
       [author |-> c, state |-> state, streams |-> streams, version |-> nextVersion]]
  /\ nextVersion' = nextVersion + 1
  /\ known' = [known EXCEPT ![c][id] = nextVersion]
  /\ UNCHANGED << call, transaction >>

\* remove_session: the session goes while the lock on the sessions is held,
\* and stays held until the health snapshots are free to write.
RemoveSession(c, id) ==
  /\ Calls(c)
  /\ sessions' = [sessions EXCEPT ![id] = Absent]
  /\ call' = [call EXCEPT ![c] = [op |-> "removing", id |-> id]]
  /\ UNCHANGED << nextVersion, known, transaction >>

RemoveHealth(c) ==
  /\ call[c].op = "removing"
  /\ ~HealthRead
  /\ call' = [call EXCEPT ![c] = Idle]
  /\ UNCHANGED << sessions, nextVersion, known, transaction >>

\* get_session_health: with the (empty) snapshots locked for reading, wait
\* for the sessions.
ReadHealth(c, id) ==
  /\ call[c] = Idle
  /\ call' = [call EXCEPT ![c] = [op |-> "checkingHealth", id |-> id]]
  /\ UNCHANGED << sessions, nextVersion, known, transaction >>

\* Mutant: the query also waits for the other health queries to be over.
AnswerHealthAlone(c) ==
  /\ call[c].op = "checkingHealth"
  /\ ~SessionsLocked
  /\ \A d \in Client \ {c} : call[d].op # "checkingHealth"
  /\ call' = [call EXCEPT ![c] = Idle]
  /\ UNCHANGED << sessions, nextVersion, known, transaction >>

AnswerHealth(c) ==
  /\ call[c].op = "checkingHealth"
  /\ ~SessionsLocked
  /\ call' = [call EXCEPT ![c] = Idle]
  /\ UNCHANGED << sessions, nextVersion, known, transaction >>

-----------------------------------------------------------------------------
(* Queries: functions of the sessions, under one read lock *)

Matches(s, criteria) ==
  /\ s.state \in criteria.states
  /\ s.streams \in criteria.least .. criteria.most

\* Mutant: a page after the first begins one too early.
PageOverlapping(criteria, offset, limit) ==
  LET found  == {id \in Present : Matches(sessions[id], criteria)}
      sorted == SetToSortSeq(found, LAMBDA a, b :
                  sessions[a].streams < sessions[b].streams)
      last   == IF offset + limit < Len(sorted) THEN offset + limit ELSE Len(sorted)
      page   == SubSeq(sorted, IF offset = 0 THEN 1 ELSE offset, last)
  IN  [page |-> page, total |-> Len(sorted), more |-> Len(sorted) > offset + Len(page)]

\* One page of the sessions that match, by number of streams; sort_by is
\* stable, so equals keep the order of the map.
Page(criteria, offset, limit) ==
  LET found  == {id \in Present : Matches(sessions[id], criteria)}
      sorted == SetToSortSeq(found, LAMBDA a, b :
                  sessions[a].streams < sessions[b].streams)
      last   == IF offset + limit < Len(sorted) THEN offset + limit ELSE Len(sorted)
      page   == SubSeq(sorted, offset + 1, last)
  IN  [page |-> page, total |-> Len(sorted), more |-> Len(sorted) > offset + Len(page)]

-----------------------------------------------------------------------------
(* Transactions *)

\* Bound: one transaction at a time; they share nothing and hold no lock.
Begin(c) ==
  /\ call[c] = Idle
  /\ \A d \in Client : transaction[d] = Absent
  /\ transaction' = [transaction EXCEPT ![c] = {}]
  /\ UNCHANGED << sessions, nextVersion, call, known >>

\* save_session, remove_session and add_stream return Ok and leave no trace
\* in the transaction.  What a client asked to have removed is remembered
\* here for the property below and nowhere in the code.
AskRemoval(c, id) ==
  /\ call[c] = Idle
  /\ transaction[c] # Absent
  /\ transaction' = [transaction EXCEPT ![c] = @ \cup {id}]
  /\ UNCHANGED << sessions, nextVersion, call, known >>

\* commit takes the write lock and applies pending_changes, where no call has
\* put anything, and returns Ok.
Commit(c) ==
  /\ Calls(c)
  /\ transaction[c] # Absent
  /\ transaction' = [transaction EXCEPT ![c] = Absent]
  /\ UNCHANGED << sessions, nextVersion, call, known >>

Rollback(c) ==
  /\ call[c] = Idle
  /\ transaction[c] # Absent
  /\ transaction' = [transaction EXCEPT ![c] = Absent]
  /\ UNCHANGED << sessions, nextVersion, call, known >>

-----------------------------------------------------------------------------
Next ==
  \E c \in Client :
    \/ \E id \in SessionId :
         \/ \E expected \in {0, known[c][id]}, state \in State, streams \in 0 .. MaxStreams :
              Save(c, id, expected, state, streams)
         \/ RemoveSession(c, id) \/ ReadHealth(c, id) \/ AskRemoval(c, id)
    \/ RemoveHealth(c) \/ AnswerHealth(c)
    \/ Begin(c) \/ Commit(c) \/ Rollback(c)

\* A task that waits for a lock is run when the lock is free.
Fairness == \A c \in Client : WF_vars(RemoveHealth(c)) /\ WF_vars(AnswerHealth(c))

Spec == Init /\ [][Next]_vars /\ Fairness

-----------------------------------------------------------------------------
(* Properties *)

TypeOK ==
  /\ sessions \in [SessionId -> Entry \cup {Absent}]
  /\ nextVersion \in 1 .. MaxVersion + 1
  /\ call \in [Client -> Call]
  /\ known \in [Client -> [SessionId -> 0 .. MaxVersion]]
  /\ transaction \in [Client -> (SUBSET SessionId) \cup {Absent}]

\* Optimistic concurrency: a save that names a version and finds the session
\* discards nobody else's save, whatever was saved, removed and created again
\* in between.
ConditionalSaveDiscardsNobody ==
  \A c \in Client, id \in Present :
    known[c][id] # 0 /\ NotInConflict(id, known[c][id]) => sessions[id].author = c

\* The two calls that take both locks take them in opposite orders.  A call
\* that is under way is answered, unless such a pair wait for each other.
Deadlocked == SessionsLocked /\ HealthRead

AnsweredOrDeadlocked ==
  \A c \in Client : call[c] # Idle ~> call[c] = Idle \/ Deadlocked

\* A client that asks for page after page while there is more sees every
\* session that matches exactly once, as long as nobody changes the store.
PagingFindsEachOnce ==
  (\A c \in Client : call[c] = Idle /\ transaction[c] = Absent) =>
  \A states \in SUBSET State, least \in 0 .. MaxStreams, limit \in 1 .. 2 :
    LET criteria == [states |-> states, least |-> least, most |-> MaxStreams]
        found    == {id \in Present : Matches(sessions[id], criteria)}
        page(k)  == Page(criteria, k * limit, limit)
        asked    == {k \in 0 .. Cardinality(SessionId) : \A j \in 0 .. k - 1 : page(j).more}
    IN  \A id \in found :
          Cardinality({k \in asked : \E i \in DOMAIN page(k).page : page(k).page[i] = id}) = 1

\* Stated by the documentation, false of the code: every call is answered,
\* whatever other callers do at the same time.
EveryCallIsAnswered == \A c \in Client : call[c] # Idle ~> call[c] = Idle
=============================================================================
