---------------------------- MODULE Limits_proofs ----------------------------
(***************************************************************************)
(* The two components that keep a table to a limit, the connection manager *)
(* and the object pool.                                                    *)
(*                                                                         *)
(* The table of connections keeps its limit and the monitor's stale list   *)
(* cuts off racing traffic only, for any number of clients, places and     *)
(* monitors.  The counts of the pool account for its queue and the size it *)
(* reports is never too low, for any number of threads and any capacity.   *)
(***************************************************************************)
EXTENDS ConnectionManager, ObjectPool, FiniteSetTheorems, TLAPS

-----------------------------------------------------------------------------
(* The table of connections *)

\* What every method and every step of the monitor preserves.
TableIInv == TypeOK /\ OnlyRacingTrafficIsCutOff

\* A registration that finds a place fits into the table, and one that
\* replaces an entry takes no place at all.
LEMMA OneMoreFits ==
  ASSUME NEW C \in SUBSET SessionId, NEW s \in SessionId,
         Cardinality(C) < MaxConnections
  PROVE  Cardinality(C \cup {s}) <= MaxConnections
<1>1. IsFiniteSet(C)
  BY SessionIdAssumption, FS_Subset
<1>2. Cardinality(C) \in Nat
  BY <1>1, FS_CardinalityType
<1>3. Cardinality(C \cup {s}) = IF s \in C THEN Cardinality(C) ELSE Cardinality(C) + 1
  BY <1>1, FS_AddElement
<1>4. QED
  BY <1>2, <1>3, MaxConnectionsAssumption

\* Taking a connection out of the table leaves room.
LEMMA OneLessFits ==
  ASSUME NEW C \in SUBSET SessionId, NEW s, Cardinality(C) <= MaxConnections
  PROVE  Cardinality(C \ {s}) <= MaxConnections
<1>1. IsFiniteSet(C)
  BY SessionIdAssumption, FS_Subset
<1>2. Cardinality(C \ {s}) <= Cardinality(C)
  BY <1>1, FS_Subset
<1>3. Cardinality(C) \in Nat /\ Cardinality(C \ {s}) \in Nat
  BY <1>1, FS_Subset, FS_CardinalityType
<1>4. QED
  BY <1>2, <1>3, MaxConnectionsAssumption

\* The inductive step: one case per method, and the monitor's two steps.
LEMMA TableStep ==
  ASSUME TableIInv, [Next]_vars
  PROVE  TableIInv'
<1>. USE DEF TableIInv, TypeOK, OnlyRacingTrafficIsCutOff, table
<1>1. ASSUME NEW s \in SessionId, RegisterConnection(s)
      PROVE  TableIInv'
  <2>1. Cardinality(connections') <= MaxConnections
    BY <1>1, OneMoreFits DEF RegisterConnection
  <2>2. TypeOK'
    BY <1>1, <2>1 DEF RegisterConnection, Used
  <2>3. OnlyRacingTrafficIsCutOff'
    BY <1>1 DEF RegisterConnection, Used
  <2>4. QED
    BY <2>2, <2>3
<1>2. ASSUME NEW s \in SessionId, TouchConnection(s)
      PROVE  TableIInv'
  BY <1>2 DEF TouchConnection, Used
<1>3. ASSUME NEW s \in SessionId, CloseConnection(s)
      PROVE  TableIInv'
  BY <1>3 DEF CloseConnection
<1>4. ASSUME NEW s \in SessionId, RemoveConnection(s)
      PROVE  TableIInv'
  <2>1. Cardinality(connections') <= MaxConnections
    BY <1>4, OneLessFits DEF RemoveConnection
  <2>2. QED
    BY <1>4, <2>1 DEF RemoveConnection
<1>5. ASSUME NEW s \in SessionId, BecomeIdle(s)
      PROVE  TableIInv'
  BY <1>5 DEF BecomeIdle
<1>6. ASSUME NEW m \in Monitor, CheckTimeouts(m)
      PROVE  TableIInv'
  BY <1>6 DEF CheckTimeouts
<1>7. ASSUME NEW m \in Monitor, CloseTimedOut(m)
      PROVE  TableIInv'
  BY <1>7 DEF CloseTimedOut
<1>8. CASE UNCHANGED vars
  BY <1>8 DEF vars
<1>9. QED
  BY <1>1, <1>2, <1>3, <1>4, <1>5, <1>6, <1>7, <1>8 DEF Next

\* The empty table satisfies the invariant.
LEMMA TableInit == Init => TableIInv
<1>1. Cardinality({}) = 0
  BY FS_EmptySet
<1>2. QED
  BY <1>1, MaxConnectionsAssumption
     DEF Init, TableIInv, TypeOK, OnlyRacingTrafficIsCutOff

\* The table holds no more than max_connections, and only connections it
\* knows are active or idle.
THEOREM TableIsCorrect == Spec => []TypeOK
<1>1. TableIInv /\ [Next]_vars => TableIInv'
  BY TableStep
<1>2. TableIInv => TypeOK
  BY DEF TableIInv
<1>3. QED
  BY TableInit, <1>1, <1>2, PTL DEF Spec

\* A connection that has not been used since the monitor took its list is
\* never closed by it while busy.
THEOREM MonitorCutsOffOnlyRacers == Spec => []OnlyRacingTrafficIsCutOff
<1>1. TableIInv /\ [Next]_vars => TableIInv'
  BY TableStep
<1>2. TableIInv => OnlyRacingTrafficIsCutOff
  BY DEF TableIInv
<1>3. QED
  BY TableInit, <1>1, <1>2, PTL DEF Spec

\* Only a registration that finds a free place brings a closed connection
\* back, and it comes back fresh.
THEOREM RevivedByRegistrationOnly == Spec => ClosedUntilRegistered
<1>1. ASSUME NEW s \in SessionId, s \in connections \ active, s \in active', [Next]_vars
      PROVE  Cardinality(connections) < MaxConnections /\ s \notin idle'
  <2>1. ASSUME NEW r \in SessionId, RegisterConnection(r)
        PROVE  Cardinality(connections) < MaxConnections /\ s \notin idle'
    BY <1>1, <2>1 DEF RegisterConnection, Used
  <2>2. ASSUME NEW r \in SessionId, ~RegisterConnection(r),
               \/ TouchConnection(r) \/ CloseConnection(r)
               \/ RemoveConnection(r) \/ BecomeIdle(r)
        PROVE  FALSE
    BY <1>1, <2>2
       DEF TouchConnection, CloseConnection, RemoveConnection, BecomeIdle
  <2>3. ASSUME NEW m \in Monitor, CheckTimeouts(m) \/ CloseTimedOut(m)
        PROVE  FALSE
    BY <1>1, <2>3 DEF CheckTimeouts, CloseTimedOut, table
  <2>4. CASE UNCHANGED vars
    BY <1>1, <2>4 DEF vars, table
  <2>5. QED
    BY <1>1, <2>1, <2>2, <2>3, <2>4 DEF Next
<1>2. [Next]_vars =>
        [\A s \in SessionId :
           s \in connections \ active /\ s \in active' =>
             Cardinality(connections) < MaxConnections /\ s \notin idle']_vars
  BY <1>1
<1>3. QED
  BY <1>2, PTL DEF Spec, ClosedUntilRegistered

-----------------------------------------------------------------------------
(* The pool *)

\* What current_pool_size has too much.
Error == (stats.size + InFlight("pushed")) - (pooled + InFlight("popped"))

\* What every step of every thread preserves.
PoolIInv ==
  /\ PoolTypeOK
  /\ CountsAccountForTheQueue
  /\ 0 <= Error
  /\ Error # 0 => Error < Cardinality(Thread)

\* The threads in a phase can be counted.
LEMMA InFlightType ==
  ASSUME NEW p
  PROVE  IsFiniteSet(InPhase(p)) /\ InFlight(p) \in Nat
<1>1. InPhase(p) \subseteq Thread
  BY DEF InPhase
<1>2. QED
  BY <1>1, ThreadAssumption, FS_Subset, FS_CardinalityType DEF InFlight

\* A thread that goes from one phase to another leaves the first with one
\* thread less, the second with one more and all others alone.
LEMMA InFlightAfter ==
  ASSUME NEW t \in Thread, NEW p, NEW q, p # q, Goes(t, p, q),
         phase \in [Thread -> Phase]
  PROVE  /\ InFlight(p)' = InFlight(p) - 1
         /\ InFlight(q)' = InFlight(q) + 1
         /\ \A r : r # p /\ r # q => InFlight(r)' = InFlight(r)
<1>1. phase[t] = p /\ phase' = [phase EXCEPT ![t] = q]
  BY DEF Goes
<1>2. InPhase(p)' = InPhase(p) \ {t} /\ t \in InPhase(p)
  BY <1>1 DEF InPhase
<1>3. InPhase(q)' = InPhase(q) \cup {t} /\ t \notin InPhase(q)
  BY <1>1 DEF InPhase
<1>4. \A r : r # p /\ r # q => InPhase(r)' = InPhase(r)
  BY <1>1 DEF InPhase
<1>5. Cardinality(InPhase(p) \ {t}) = Cardinality(InPhase(p)) - 1
  BY <1>2, InFlightType, FS_RemoveElement
<1>6. Cardinality(InPhase(q) \cup {t}) = Cardinality(InPhase(q)) + 1
  BY <1>3, InFlightType, FS_AddElement
<1>7. QED
  BY <1>2, <1>3, <1>4, <1>5, <1>6 DEF InFlight

\* A thread on its way to count a pop is not one of those with a push to
\* count: there is one of them less than there are threads, at most.
LEMMA SomeoneElsePushes ==
  ASSUME NEW t \in Thread, phase[t] = "popped"
  PROVE  /\ Cardinality(Thread) \in Nat
         /\ InFlight("pushed") < Cardinality(Thread)
         /\ InFlight("popped") > 0
<1>1. InPhase("pushed") \subseteq Thread \ {t} /\ t \in InPhase("popped")
  BY DEF InPhase
<1>2. IsFiniteSet(Thread \ {t}) /\ Cardinality(Thread \ {t}) = Cardinality(Thread) - 1
  BY ThreadAssumption, FS_RemoveElement
<1>3. Cardinality(Thread) \in Nat
  BY ThreadAssumption, FS_CardinalityType
<1>4. InFlight("pushed") <= Cardinality(Thread \ {t})
  BY <1>1, <1>2, FS_Subset DEF InFlight
<1>5. InFlight("popped") # 0
  BY <1>1, InFlightType, FS_EmptySet DEF InFlight
<1>6. QED
  BY <1>2, <1>3, <1>4, <1>5, InFlightType

\* The fields of the statistics are naturals.
LEMMA StatsFields ==
  ASSUME stats \in PoolStats
  PROVE  /\ stats.created \in Nat /\ stats.reused \in Nat
         /\ stats.returned \in Nat /\ stats.peak \in Nat /\ stats.size \in Nat
BY DEF PoolStats

\* A wrapped subtraction is still a natural number.
LEMMA PeakIsNatural ==
  ASSUME stats \in PoolStats
  PROVE  Larger(stats.peak, WrappingSub(stats.created + 1, stats.size)) \in Nat
<1>1. WordSize \in Nat \ {0}
  BY WordSizeAssumption, MaxGetsAssumption
<1>2. (stats.created + 1) - stats.size \in Int
  BY StatsFields
<1>3. WrappingSub(stats.created + 1, stats.size) \in Nat
  BY <1>1, <1>2 DEF WrappingSub
<1>4. QED
  BY <1>3, StatsFields DEF Larger

-----------------------------------------------------------------------------
(* The inductive step, thread by thread *)

\* get, by way of the queue
LEMMA PopKeeps ==
  ASSUME PoolIInv, NEW t \in Thread, Pop(t)
  PROVE  PoolIInv'
<1>1. Goes(t, "without", "popped") /\ pooled > 0 /\ pooled' = pooled - 1 /\ stats' = stats
  BY DEF Pop
<1>2. /\ InFlight("popped")' = InFlight("popped") + 1
      /\ InFlight("pushed")' = InFlight("pushed")
  BY <1>1, InFlightAfter DEF PoolIInv, PoolTypeOK
<1>3. PoolTypeOK'
  BY <1>1, CapacityAssumption DEF PoolIInv, PoolTypeOK, Goes, Phase
<1>4. CountsAccountForTheQueue'
  BY <1>1, <1>2, InFlightType, StatsFields, CapacityAssumption
     DEF PoolIInv, PoolTypeOK, CountsAccountForTheQueue
<1>5. Error' = Error
  BY <1>1, <1>2, InFlightType, StatsFields, CapacityAssumption
     DEF PoolIInv, PoolTypeOK, Error
<1>6. QED
  BY <1>3, <1>4, <1>5 DEF PoolIInv

\* The reuse is counted.  If the size is already zero it stays there, and
\* the error grows: then fewer pushes are uncounted than there are threads.
LEMMA CountReuseKeeps ==
  ASSUME PoolIInv, NEW t \in Thread, CountReuse(t)
  PROVE  PoolIInv'
<1>1. /\ Goes(t, "popped", "holding") /\ pooled' = pooled
      /\ stats' = [stats EXCEPT !.reused = @ + 1, !.size = SaturatingDec(@)]
  BY DEF CountReuse
<1>2. /\ InFlight("popped")' = InFlight("popped") - 1
      /\ InFlight("pushed")' = InFlight("pushed")
  BY <1>1, InFlightAfter DEF PoolIInv, PoolTypeOK
<1>3. /\ stats'.reused = stats.reused + 1 /\ stats'.returned = stats.returned
      /\ stats'.size = SaturatingDec(stats.size)
      /\ stats' \in PoolStats
  <2>1. stats \in PoolStats
    BY DEF PoolIInv, PoolTypeOK
  <2> DEFINE a == stats.reused + 1
  <2> DEFINE b == SaturatingDec(stats.size)
  <2>2. a \in Nat /\ b \in Nat
    BY <2>1, StatsFields DEF SaturatingDec
  <2>3. stats' = [stats EXCEPT !.reused = a, !.size = b]
    BY <1>1
  <2> HIDE DEF a, b
  <2>4. stats'.reused = a /\ stats'.size = b /\ stats' \in PoolStats
    BY <2>1, <2>2, <2>3 DEF PoolStats
  <2>5. \A f \in {"created", "reused", "returned", "peak", "size"} \ {"reused", "size"} :
          stats'[f] = stats[f]
    BY <2>1, <2>3 DEF PoolStats
  <2>6. QED
    BY <2>4, <2>5 DEF a, b
<1>4. PoolTypeOK'
  BY <1>1, <1>3 DEF PoolIInv, PoolTypeOK, Goes, Phase
<1>5. phase[t] = "popped"
  BY <1>1 DEF Goes
<1>6. CountsAccountForTheQueue'
  BY <1>1, <1>2, <1>3, InFlightType, StatsFields, CapacityAssumption
     DEF PoolIInv, PoolTypeOK, CountsAccountForTheQueue
<1>7. 0 <= Error' /\ (Error' # 0 => Error' < Cardinality(Thread))
  BY <1>1, <1>2, <1>3, <1>5, SomeoneElsePushes, InFlightType, StatsFields,
     CapacityAssumption
     DEF PoolIInv, PoolTypeOK, Error, SaturatingDec
<1>8. QED
  BY <1>4, <1>6, <1>7 DEF PoolIInv

\* get, by way of the factory: neither count nor queue changes
LEMMA MakeKeeps ==
  ASSUME PoolIInv, NEW t \in Thread, Make(t)
  PROVE  PoolIInv'
<1>1. Goes(t, "without", "made") /\ pooled' = pooled /\ stats' = stats
  BY DEF Make
<1>2. /\ InFlight("popped")' = InFlight("popped")
      /\ InFlight("pushed")' = InFlight("pushed")
  BY <1>1, InFlightAfter DEF PoolIInv, PoolTypeOK
<1>3. PoolTypeOK'
  BY <1>1 DEF PoolIInv, PoolTypeOK, Goes, Phase
<1>4. QED
  BY <1>1, <1>2, <1>3 DEF PoolIInv, Error, CountsAccountForTheQueue

\* The creation is counted, and with it a peak that may have wrapped.
LEMMA CountCreationKeeps ==
  ASSUME PoolIInv, NEW t \in Thread, CountCreation(t)
  PROVE  PoolIInv'
<1>1. /\ Goes(t, "made", "holding") /\ pooled' = pooled
      /\ stats' = [stats EXCEPT !.created = @ + 1,
                     !.peak = Larger(@, WrappingSub(stats.created + 1, stats.size))]
  BY DEF CountCreation
<1>2. /\ InFlight("popped")' = InFlight("popped")
      /\ InFlight("pushed")' = InFlight("pushed")
  BY <1>1, InFlightAfter DEF PoolIInv, PoolTypeOK
<1>3. /\ stats'.reused = stats.reused /\ stats'.returned = stats.returned
      /\ stats'.size = stats.size
      /\ stats' \in PoolStats
  <2>1. stats \in PoolStats
    BY DEF PoolIInv, PoolTypeOK
  <2> DEFINE a == stats.created + 1
  <2> DEFINE b == Larger(stats.peak, WrappingSub(stats.created + 1, stats.size))
  <2>2. a \in Nat /\ b \in Nat
    BY <2>1, StatsFields, PeakIsNatural
  <2>3. stats' = [stats EXCEPT !.created = a, !.peak = b]
    BY <1>1
  <2> HIDE DEF a, b
  <2>4. stats'.created = a /\ stats'.peak = b /\ stats' \in PoolStats
    BY <2>1, <2>2, <2>3 DEF PoolStats
  <2>5. \A f \in {"created", "reused", "returned", "peak", "size"} \ {"created", "peak"} :
          stats'[f] = stats[f]
    BY <2>1, <2>3 DEF PoolStats
  <2>6. QED
    BY <2>4, <2>5 DEF a, b
<1>4. PoolTypeOK'
  BY <1>1, <1>3 DEF PoolIInv, PoolTypeOK, Goes, Phase
<1>5. CountsAccountForTheQueue'
  BY <1>1, <1>2, <1>3, InFlightType, StatsFields, CapacityAssumption
     DEF PoolIInv, PoolTypeOK, CountsAccountForTheQueue
<1>6. Error' = Error
  BY <1>1, <1>2, <1>3, InFlightType, StatsFields, CapacityAssumption
     DEF PoolIInv, PoolTypeOK, Error
<1>7. QED
  BY <1>4, <1>5, <1>6 DEF PoolIInv

\* drop, with room in the queue
LEMMA PushKeeps ==
  ASSUME PoolIInv, NEW t \in Thread, Push(t)
  PROVE  PoolIInv'
<1>1. /\ Goes(t, "holding", "pushed") /\ pooled < Capacity
      /\ pooled' = pooled + 1 /\ stats' = stats
  BY DEF Push
<1>2. /\ InFlight("popped")' = InFlight("popped")
      /\ InFlight("pushed")' = InFlight("pushed") + 1
  BY <1>1, InFlightAfter DEF PoolIInv, PoolTypeOK
<1>3. PoolTypeOK'
  BY <1>1, CapacityAssumption DEF PoolIInv, PoolTypeOK, Goes, Phase
<1>4. CountsAccountForTheQueue'
  <2>1. /\ InFlight("pushed") \in Nat /\ InFlight("popped") \in Nat
        /\ stats.returned \in Nat /\ stats.reused \in Nat /\ pooled \in Nat
    BY InFlightType, StatsFields, CapacityAssumption DEF PoolIInv, PoolTypeOK
  <2>2. stats.returned + InFlight("pushed") = stats.reused + InFlight("popped") + pooled
    BY DEF PoolIInv, CountsAccountForTheQueue
  <2>3. QED
    BY <1>1, <1>2, <2>1, <2>2 DEF CountsAccountForTheQueue
<1>5. Error' = Error
  BY <1>1, <1>2, InFlightType, StatsFields, CapacityAssumption
     DEF PoolIInv, PoolTypeOK, Error
<1>6. QED
  BY <1>3, <1>4, <1>5 DEF PoolIInv

\* The return is counted.
LEMMA CountReturnKeeps ==
  ASSUME PoolIInv, NEW t \in Thread, CountReturn(t)
  PROVE  PoolIInv'
<1>1. /\ Goes(t, "pushed", "without") /\ pooled' = pooled
      /\ stats' = [stats EXCEPT !.returned = @ + 1, !.size = @ + 1]
  BY DEF CountReturn
<1>2. /\ InFlight("popped")' = InFlight("popped")
      /\ InFlight("pushed")' = InFlight("pushed") - 1
  BY <1>1, InFlightAfter DEF PoolIInv, PoolTypeOK
<1>3. /\ stats'.reused = stats.reused /\ stats'.returned = stats.returned + 1
      /\ stats'.size = stats.size + 1
      /\ stats' \in PoolStats
  <2>1. stats \in PoolStats
    BY DEF PoolIInv, PoolTypeOK
  <2> DEFINE a == stats.returned + 1
  <2> DEFINE b == stats.size + 1
  <2>2. a \in Nat /\ b \in Nat
    BY <2>1, StatsFields
  <2>3. stats' = [stats EXCEPT !.returned = a, !.size = b]
    BY <1>1
  <2> HIDE DEF a, b
  <2>4. stats'.returned = a /\ stats'.size = b /\ stats' \in PoolStats
    BY <2>1, <2>2, <2>3 DEF PoolStats
  <2>5. \A f \in {"created", "reused", "returned", "peak", "size"} \ {"returned", "size"} :
          stats'[f] = stats[f]
    BY <2>1, <2>3 DEF PoolStats
  <2>6. QED
    BY <2>4, <2>5 DEF a, b
<1>4. PoolTypeOK'
  BY <1>1, <1>3 DEF PoolIInv, PoolTypeOK, Goes, Phase
<1>5. CountsAccountForTheQueue'
  BY <1>1, <1>2, <1>3, InFlightType, StatsFields, CapacityAssumption
     DEF PoolIInv, PoolTypeOK, CountsAccountForTheQueue
<1>6. Error' = Error
  BY <1>1, <1>2, <1>3, InFlightType, StatsFields, CapacityAssumption
     DEF PoolIInv, PoolTypeOK, Error
<1>7. QED
  BY <1>4, <1>5, <1>6 DEF PoolIInv

\* The object leaves the pool, dropped or taken.
LEMMA LeaveKeeps ==
  ASSUME PoolIInv, NEW t \in Thread, Drop(t) \/ Take(t)
  PROVE  PoolIInv'
<1>1. Goes(t, "holding", "without") /\ pooled' = pooled /\ stats' = stats
  BY DEF Drop, Take
<1>2. /\ InFlight("popped")' = InFlight("popped")
      /\ InFlight("pushed")' = InFlight("pushed")
  BY <1>1, InFlightAfter DEF PoolIInv, PoolTypeOK
<1>3. PoolTypeOK'
  BY <1>1 DEF PoolIInv, PoolTypeOK, Goes, Phase
<1>4. QED
  BY <1>1, <1>2, <1>3 DEF PoolIInv, Error, CountsAccountForTheQueue

\* The inductive step.
LEMMA PoolStep ==
  ASSUME PoolIInv, [PoolNext]_poolVars
  PROVE  PoolIInv'
<1>1. CASE UNCHANGED poolVars
  BY <1>1 DEF poolVars, PoolIInv, PoolTypeOK, Error, CountsAccountForTheQueue, InFlight, InPhase
<1>2. QED
  BY <1>1, PopKeeps, CountReuseKeeps, MakeKeeps, CountCreationKeeps, PushKeeps,
     CountReturnKeeps, LeaveKeeps DEF PoolNext

\* An empty pool and nobody on the way to it.
LEMMA PoolBegins == PoolInit => PoolIInv
<1>1. SUFFICES ASSUME PoolInit PROVE PoolIInv
  OBVIOUS
<1>2. InPhase("popped") = {} /\ InPhase("pushed") = {}
  BY <1>1 DEF PoolInit, InPhase
<1>3. InFlight("popped") = 0 /\ InFlight("pushed") = 0
  BY <1>2, FS_EmptySet DEF InFlight
<1>4. PoolTypeOK
  BY <1>1, CapacityAssumption DEF PoolInit, PoolTypeOK, PoolStats, Phase
<1>5. QED
  BY <1>1, <1>3, <1>4 DEF PoolInit, PoolIInv, Error, CountsAccountForTheQueue

\* The queue never exceeds its capacity, and the statistics are naturals
\* even where the subtraction wraps.
THEOREM PoolIsTyped == PoolSpec => []PoolTypeOK
<1>1. PoolIInv /\ [PoolNext]_poolVars => PoolIInv'
  BY PoolStep
<1>2. PoolIInv => PoolTypeOK
  BY DEF PoolIInv
<1>3. QED
  BY PoolBegins, <1>1, <1>2, PTL DEF PoolSpec

\* Returns and reuses account for the queue, whatever the threads' order.
THEOREM CountsAreExact == PoolSpec => []CountsAccountForTheQueue
<1>1. PoolIInv /\ [PoolNext]_poolVars => PoolIInv'
  BY PoolStep
<1>2. PoolIInv => CountsAccountForTheQueue
  BY DEF PoolIInv
<1>3. QED
  BY PoolBegins, <1>1, <1>2, PTL DEF PoolSpec

\* current_pool_size is never too low, and too high by less than the number
\* of threads.
THEOREM ErrorIsBounded == PoolSpec => []SizeErrorIsBounded
<1>1. PoolIInv /\ [PoolNext]_poolVars => PoolIInv'
  BY PoolStep
<1>2. PoolIInv => SizeErrorIsBounded
  BY DEF PoolIInv, Error, SizeErrorIsBounded
<1>3. QED
  BY PoolBegins, <1>1, <1>2, PTL DEF PoolSpec
=============================================================================
