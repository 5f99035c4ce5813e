----------------------------- MODULE ObjectPool -----------------------------
(***************************************************************************)
(* The object pool of the response builders                                *)
(* (infrastructure/integration/object_pool.rs).  The pooled objects live   *)
(* in a lock-free ArrayQueue and the statistics behind a mutex of their    *)
(* own, so every get and every return is two steps, and the statistics are *)
(* updated in whatever order the threads reach the mutex.                  *)
(*                                                                         *)
(* A thread stands for one PooledObject and its owner.  Objects have no    *)
(* identity here: the queue is its length.  The subtraction of usize in    *)
(* `get` wraps, as it does in the release profile; a debug build panics at *)
(* that point instead.                                                     *)
(***************************************************************************)
EXTENDS Integers, FiniteSets

CONSTANTS
  Thread,
  Capacity,  \* ObjectPool::max_capacity, the capacity of the queue
  WordSize,  \* 2 ^ (the width of a usize)
  MaxGets    \* bound: how many objects are ever asked for

ASSUME ThreadAssumption == IsFiniteSet(Thread)
ASSUME CapacityAssumption == Capacity \in Nat \ {0}
ASSUME WordSizeAssumption == WordSize \in Nat /\ WordSize > 2 * MaxGets
ASSUME MaxGetsAssumption == MaxGets \in Nat

VARIABLES
  pooled,  \* objects.len()
  stats,   \* PoolStats
  phase    \* where each thread is

poolVars == << pooled, stats, phase >>

\* "popped", "made" and "pushed": the queue has been seen to, the statistics
\* have not.
Phase == {"without", "popped", "made", "holding", "pushed"}

PoolStats == [created : Nat, reused : Nat, returned : Nat, peak : Nat, size : Nat]

PoolInit ==
  /\ pooled = 0
  /\ stats = [created |-> 0, reused |-> 0, returned |-> 0, peak |-> 0, size |-> 0]
  /\ phase = [t \in Thread |-> "without"]

InPhase(p)  == {t \in Thread : phase[t] = p}
InFlight(p) == Cardinality(InPhase(p))

Goes(t, p, q) == phase[t] = p /\ phase' = [phase EXCEPT ![t] = q]

MayGet == stats.created + stats.reused + InFlight("popped") + InFlight("made") < MaxGets

SaturatingDec(n) == IF n = 0 THEN 0 ELSE n - 1
WrappingSub(a, b) == (a - b) % WordSize
Larger(a, b) == IF a >= b THEN a ELSE b

-----------------------------------------------------------------------------
\* get: objects.pop() yields an object
Pop(t) ==
  /\ MayGet
  /\ Goes(t, "without", "popped")
  /\ pooled > 0
  /\ pooled' = pooled - 1
  /\ UNCHANGED stats

CountReuse(t) ==
  /\ Goes(t, "popped", "holding")
  /\ stats' = [stats EXCEPT !.reused = @ + 1, !.size = SaturatingDec(@)]
  /\ UNCHANGED pooled

\* get: the queue is empty, the factory makes an object
Make(t) ==
  /\ MayGet
  /\ Goes(t, "without", "made")
  /\ pooled = 0
  /\ UNCHANGED << pooled, stats >>

CountCreation(t) ==
  /\ Goes(t, "made", "holding")
  /\ stats' = [stats EXCEPT
                 !.created = @ + 1,
                 !.peak = Larger(@, WrappingSub(stats.created + 1, stats.size))]
  /\ UNCHANGED pooled

\* Mutant: the queue is taken to have room for one more than it holds.
PushOneTooMany(t) ==
  /\ Goes(t, "holding", "pushed")
  /\ pooled <= Capacity
  /\ pooled' = pooled + 1
  /\ UNCHANGED stats

\* drop: return_object pushes the object back
Push(t) ==
  /\ Goes(t, "holding", "pushed")
  /\ pooled < Capacity
  /\ pooled' = pooled + 1
  /\ UNCHANGED stats

\* Mutant: an object the queue had no room for is counted as returned.
DropCounted(t) ==
  /\ Goes(t, "holding", "pushed")
  /\ pooled = Capacity
  /\ UNCHANGED << pooled, stats >>

\* drop: the queue is full and the object is dropped, uncounted
Drop(t) ==
  /\ Goes(t, "holding", "without")
  /\ pooled = Capacity
  /\ UNCHANGED << pooled, stats >>

\* Mutant: the size is not maintained on return.
CountReturnWithoutSize(t) ==
  /\ Goes(t, "pushed", "without")
  /\ stats' = [stats EXCEPT !.returned = @ + 1]
  /\ UNCHANGED pooled

CountReturn(t) ==
  /\ Goes(t, "pushed", "without")
  /\ stats' = [stats EXCEPT !.returned = @ + 1, !.size = @ + 1]
  /\ UNCHANGED pooled

\* take: the owner keeps the object, the pool forgets it
Take(t) ==
  /\ Goes(t, "holding", "without")
  /\ UNCHANGED << pooled, stats >>

PoolNext ==
  \E t \in Thread :
    \/ Pop(t) \/ CountReuse(t)
    \/ Make(t) \/ CountCreation(t)
    \/ Push(t) \/ CountReturn(t)
    \/ Drop(t) \/ Take(t)

PoolSpec == PoolInit /\ [][PoolNext]_poolVars

-----------------------------------------------------------------------------
(* Properties *)

PoolTypeOK ==
  /\ pooled \in 0 .. Capacity
  /\ stats \in PoolStats
  /\ phase \in [Thread -> Phase]

\* The counts of returns and reuses are exact up to the threads on their way
\* to the mutex: the length of the queue can be told from them.
CountsAccountForTheQueue ==
  stats.returned + InFlight("pushed") = stats.reused + InFlight("popped") + pooled

\* current_pool_size is wrong in one direction only, and by a bounded amount.
\* A pop that is counted before the push it undoes saturates at zero, and from
\* then on the size is too high; but only as many pops can do so as there are
\* other threads with a push to count.
SizeErrorIsBounded ==
  LET error == (stats.size + InFlight("pushed")) - (pooled + InFlight("popped"))
  IN  0 <= error /\ (error # 0 => error < Cardinality(Thread))

\* Stated by the code, false of it: when no thread is between the queue and
\* the statistics, current_pool_size is the length of the queue.
SizeIsExactAtRest ==
  (\A t \in Thread : phase[t] \in {"without", "holding"}) => stats.size = pooled
=============================================================================
