-------------------------- MODULE ConnectionManager --------------------------
(***************************************************************************)
(* The connection table (domain/services/connection_manager.rs), the HTTP  *)
(* handlers that touch it and the timeout monitor that sweeps it           *)
(* (infrastructure/services/timeout_monitor.rs).                           *)
(*                                                                         *)
(* Every method holds the table's lock for its whole body, so each is one  *)
(* step.  process_timeouts is not: it takes the list of idle connections   *)
(* under one lock and closes them one by one under others, without looking *)
(* at them again.                                                          *)
(*                                                                         *)
(* The clock is abstracted to whether a connection's last activity is more *)
(* than timeout_duration ago.  Byte counts and the stream identifier are   *)
(* left out: only reports read them.                                       *)
(***************************************************************************)
EXTENDS Naturals, FiniteSets

CONSTANTS
  SessionId,
  MaxConnections,  \* ConnectionManager::max_connections
  Monitor          \* the tasks TimeoutMonitor::start has spawned

ASSUME SessionIdAssumption == IsFiniteSet(SessionId)
ASSUME MaxConnectionsAssumption == MaxConnections \in Nat

VARIABLES
  connections,  \* the keys of the table
  active,       \* those with is_active set
  idle,         \* those whose last_activity is longer ago than the timeout
  due,          \* per monitor, what is left of its list of timed-out ids
  touched       \* history: connections used since the monitor took its list

table == << connections, active, idle >>
vars  == << table, due, touched >>

Init ==
  /\ connections = {}
  /\ active = {}
  /\ idle = {}
  /\ due = [m \in Monitor |-> {}]
  /\ touched = [m \in Monitor |-> {}]

-----------------------------------------------------------------------------
(* The methods of the table *)

\* last_activity becomes Instant::now().
Used(s) ==
  /\ idle' = idle \ {s}
  /\ touched' = [m \in Monitor |-> touched[m] \cup {s}]

\* Mutant: one connection too many.
RegisterOneTooMany(s) ==
  /\ Cardinality(connections) <= MaxConnections
  /\ connections' = connections \cup {s}
  /\ active' = active \cup {s}
  /\ Used(s)
  /\ UNCHANGED due

\* The limit is on the length of the table: closed connections keep their
\* place, and a full table refuses even an identifier it already holds.
RegisterConnection(s) ==
  /\ Cardinality(connections) < MaxConnections
  /\ connections' = connections \cup {s}
  /\ active' = active \cup {s}
  /\ Used(s)
  /\ UNCHANGED due

\* Mutant: any traffic puts a closed connection back to work.
ReviveConnection(s) ==
  /\ s \in connections
  /\ active' = active \cup {s}
  /\ Used(s)
  /\ UNCHANGED << connections, due >>

\* update_activity, update_metrics and set_stream.  A closed connection is
\* found too: they return Ok and it stays closed.
TouchConnection(s) ==
  /\ s \in connections
  /\ Used(s)
  /\ UNCHANGED << connections, active, due >>

CloseConnection(s) ==
  /\ s \in connections
  /\ active' = active \ {s}
  /\ UNCHANGED << connections, idle, due, touched >>

RemoveConnection(s) ==
  /\ s \in connections
  /\ connections' = connections \ {s}
  /\ active' = active \ {s}
  /\ idle' = idle \ {s}
  /\ UNCHANGED << due, touched >>

-----------------------------------------------------------------------------
(* The monitor and the clock *)

\* Mutant: every active connection is listed, however recently used.
CheckAll(m) ==
  /\ due[m] = {}
  /\ due' = [due EXCEPT ![m] = active]
  /\ touched' = [touched EXCEPT ![m] = {}]
  /\ UNCHANGED table

\* A tick: check_timeouts lists the connections to close.  The next tick is
\* only awaited once the list has been worked off.
CheckTimeouts(m) ==
  /\ due[m] = {}
  /\ due' = [due EXCEPT ![m] = active \cap idle]
  /\ touched' = [touched EXCEPT ![m] = {}]
  /\ UNCHANGED table

\* Mutant: a connection that has been removed meanwhile ends the task.
CloseTimedOutOrStop(m) ==
  \E s \in due[m] :
    /\ s \in connections
    /\ active' = active \ {s}
    /\ due' = [due EXCEPT ![m] = @ \ {s}]
    /\ UNCHANGED << connections, idle, touched >>

\* close_connection on one of them, in the order of the hash map, whatever
\* has happened to it since; one that has been removed is only logged.
CloseTimedOut(m) ==
  \E s \in due[m] :
    /\ active' = active \ {s}
    /\ due' = [due EXCEPT ![m] = @ \ {s}]
    /\ UNCHANGED << connections, idle, touched >>

\* timeout_duration passes without activity.
BecomeIdle(s) ==
  /\ s \in connections \ idle
  /\ idle' = idle \cup {s}
  /\ UNCHANGED << connections, active, due, touched >>

Next ==
  \/ \E s \in SessionId :
       \/ RegisterConnection(s) \/ TouchConnection(s)
       \/ CloseConnection(s) \/ RemoveConnection(s)
       \/ BecomeIdle(s)
  \/ \E m \in Monitor : CheckTimeouts(m) \/ CloseTimedOut(m)

Spec == Init /\ [][Next]_vars

\* The monitor is a loop in a task of its own: its interval keeps ticking
\* and no lock of the table is held across an await.
MonitorFairness ==
  \A m \in Monitor : WF_vars(CheckTimeouts(m)) /\ WF_vars(CloseTimedOut(m))

FairSpec == Spec /\ MonitorFairness

-----------------------------------------------------------------------------
(* Properties *)

TypeOK ==
  /\ connections \subseteq SessionId
  /\ active \subseteq connections
  /\ idle \subseteq connections
  /\ Cardinality(connections) <= MaxConnections
  /\ due \in [Monitor -> SUBSET SessionId]
  /\ touched \in [Monitor -> SUBSET SessionId]

\* The race between the list and the closing can hurt no more than it has
\* to: a connection the monitor is about to close is still idle, or closed
\* or gone already, or has been used in the moment since the list was taken.
OnlyRacingTrafficIsCutOff ==
  \A m \in Monitor : \A s \in due[m] :
    s \in active => s \in idle \/ s \in touched[m]

\* Activity on a timed-out connection is accepted and does not revive it: it
\* takes a registration, and that needs a free place in the table.
ClosedUntilRegistered ==
  [][\A s \in SessionId :
       s \in connections \ active /\ s \in active' =>
         Cardinality(connections) < MaxConnections /\ s \notin idle']_vars

\* A connection that stays idle is eventually closed, however many others
\* are removed, closed or registered under the monitor's feet.
IdleConnectionsAreClosed ==
  \A s \in SessionId : s \in active \cap idle ~> s \notin active \cap idle
=============================================================================
