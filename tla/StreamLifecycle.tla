--------------------------- MODULE StreamLifecycle ---------------------------
(***************************************************************************)
(* What a session promises of its streams: each is created at most once,   *)
(* while the session is open, starts at most once, ends at most once and   *)
(* never changes after that; a session opens once, closes once, and leaves *)
(* nothing running when it does.  This is the contract behind              *)
(* domain/entities/stream.rs and domain/aggregates/stream_session.rs;      *)
(* StreamSession implements it.                                            *)
(***************************************************************************)
CONSTANT StreamId

VARIABLES
  streams,  \* the state of each stream, "Absent" before it is created
  door      \* "unopened", "open" (the session accepts streams) or "shut"

vars == << streams, door >>

Running(id) == streams[id] \in {"Preparing", "Streaming"}

Init ==
  /\ streams = [id \in StreamId |-> "Absent"]
  /\ door = "unopened"

Moves(id, from, to) ==
  /\ door = "open"
  /\ streams[id] = from
  /\ streams' = [streams EXCEPT ![id] = to]
  /\ UNCHANGED door

Create(id) == Moves(id, "Absent", "Preparing")
Start(id)  == Moves(id, "Preparing", "Streaming")
Finish(id) == Moves(id, "Streaming", "Completed")
Fail(id)   == Moves(id, "Preparing", "Failed") \/ Moves(id, "Streaming", "Failed")

Open == door = "unopened" /\ door' = "open" /\ UNCHANGED streams

Close ==
  /\ door = "open"
  /\ door' = "shut"
  /\ streams' = [id \in StreamId |-> IF Running(id) THEN "Cancelled" ELSE streams[id]]

Next ==
  \/ Open
  \/ Close
  \/ \E id \in StreamId : Create(id) \/ Start(id) \/ Finish(id) \/ Fail(id)

Spec == Init /\ [][Next]_vars
=============================================================================
