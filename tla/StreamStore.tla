---------------------------- MODULE StreamStore ----------------------------
(***************************************************************************)
(* InMemoryStreamStore (infrastructure/adapters/memory_repository.rs): the *)
(* streams in one map, the identifiers of each session's streams in        *)
(* another, each under a lock of its own.  store_stream locks them one     *)
(* after the other, delete_stream the first one twice and then the second: *)
(* two and three steps, with other callers in between.                     *)
(*                                                                         *)
(* One session is modelled: a stream belongs to one session for good, and  *)
(* the lists of two sessions never meet.                                   *)
(* clear() is called by tests alone, with nobody else at work: it is Init. *)
(***************************************************************************)
EXTENDS Naturals, Sequences, SequencesExt

CONSTANTS
  Caller,
  StreamId,
  MaxStores  \* bound: calls of store_stream

VARIABLES
  streams,  \* the keys of `streams`
  listed,   \* session_streams[session], empty when the session has no entry
  task,     \* the call each caller is in
  stores,   \* how often store_stream has been called
  raced     \* history: streams stored and deleted at the same time

vars == << streams, listed, task, stores, raced >>

Idle == [op |-> "idle"]
Task == {Idle}
          \cup [op : {"storing", "deleting", "unlisting"}, id : StreamId]
          \cup [op : {"deletingUnknown"}, id : StreamId]

Init ==
  /\ streams = {}
  /\ listed = << >>
  /\ task = [c \in Caller |-> Idle]
  /\ stores = 0
  /\ raced = {}

Busy(kinds, id) == \E c \in Caller : task[c].op \in kinds /\ task[c].id = id
Deleting(id)    == Busy({"deleting", "deletingUnknown", "unlisting"}, id)
Storing(id)     == Busy({"storing"}, id)

Becomes(c, t) == task' = [task EXCEPT ![c] = t]

-----------------------------------------------------------------------------
\* store_stream: into the map ...
Store(c, id) ==
  /\ task[c] = Idle
  /\ stores < MaxStores
  /\ streams' = streams \cup {id}
  /\ stores' = stores + 1
  /\ Becomes(c, [op |-> "storing", id |-> id])
  /\ raced' = IF Deleting(id) THEN raced \cup {id} ELSE raced
  /\ UNCHANGED listed

\* Mutant: the list is written first and the entry found there is kept.
ListOnce(c) ==
  /\ task[c].op = "storing"
  /\ listed' = IF listed = << >> THEN << task[c].id >> ELSE listed
  /\ Becomes(c, Idle)
  /\ UNCHANGED << streams, stores, raced >>

\* ... then onto the list, again if it is there already.
List(c) ==
  /\ task[c].op = "storing"
  /\ listed' = Append(listed, task[c].id)
  /\ Becomes(c, Idle)
  /\ UNCHANGED << streams, stores, raced >>

\* delete_stream: look up the session of the stream ...
Delete(c, id) ==
  /\ task[c] = Idle
  /\ Becomes(c, [op |-> IF id \in streams THEN "deleting" ELSE "deletingUnknown", id |-> id])
  /\ raced' = IF Storing(id) THEN raced \cup {id} ELSE raced
  /\ UNCHANGED << streams, listed, stores >>

\* ... remove the stream ...
Drop(c) ==
  /\ task[c].op \in {"deleting", "deletingUnknown"}
  /\ streams' = streams \ {task[c].id}
  /\ Becomes(c, IF task[c].op = "deleting"
                  THEN [task[c] EXCEPT !.op = "unlisting"] ELSE Idle)
  /\ UNCHANGED << listed, stores, raced >>

\* The list with every entry of a stream taken off it, in its order
Without(id) ==
  FlattenSeq([i \in DOMAIN listed |-> IF listed[i] = id THEN << >> ELSE << listed[i] >>])

\* ... and take every entry of it off the list.
Unlist(c) ==
  /\ task[c].op = "unlisting"
  /\ listed' = Without(task[c].id)
  /\ Becomes(c, Idle)
  /\ UNCHANGED << streams, stores, raced >>

\* clear()
Clear ==
  /\ \A c \in Caller : task[c] = Idle
  /\ streams' = {}
  /\ listed' = << >>
  /\ UNCHANGED << task, stores, raced >>

\* list_streams_for_session: the streams of the list that are in the map.
Listing == SelectSeq(listed, LAMBDA id : id \in streams)

Next ==
  \/ \E c \in Caller :
       \/ \E id \in StreamId : Store(c, id) \/ Delete(c, id)
       \/ List(c) \/ Drop(c) \/ Unlist(c)
  \/ Clear

Spec == Init /\ [][Next]_vars

-----------------------------------------------------------------------------
(* Properties *)

TypeOK ==
  /\ streams \subseteq StreamId
  /\ listed \in Seq(StreamId)
  /\ Len(listed) <= MaxStores
  /\ task \in [Caller -> Task]
  /\ stores \in 0 .. MaxStores
  /\ raced \subseteq StreamId

\* The two maps agree on a stream nobody is storing or deleting: it is listed
\* if and only if it is stored.  Only a store and a delete of the same stream
\* that overlapped can leave a listed stream that is gone, or a stored one
\* that no listing shows.
ListedUnlessRaced ==
  \A id \in StreamId \ raced :
    ~Storing(id) /\ ~Deleting(id) =>
      (id \in streams <=> \E i \in DOMAIN listed : listed[i] = id)
=============================================================================
