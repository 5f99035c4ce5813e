----------------------------- MODULE BufferPool -----------------------------
(***************************************************************************)
(* The buffer pool of the zero-copy parsers (parser/buffer_pool.rs):       *)
(* buckets of buffers by size, under one mutex, with statistics under      *)
(* another.  A get counts the allocation first and takes the mutex later;  *)
(* all the rest is one step under the mutex of the buckets.                *)
(*                                                                         *)
(* A pooled buffer is whether it has been idle longer than buffer_ttl.  A  *)
(* bucket is a stack: the latest buffer returned is the first reused.      *)
(* max_buffers_per_bucket and max_total_memory of the configuration are    *)
(* read by no code; BucketLimit is the 50 in PooledBuffer::drop.           *)
(***************************************************************************)
EXTENDS Naturals, Sequences, FiniteSets, FiniteSetsExt, SequencesExt

CONSTANTS
  Thread,
  Capacities,   \* the capacities asked for
  BucketLimit,
  MaxGets       \* bound: buffers asked for, if they are counted

VARIABLES
  config,   \* the PoolConfig in use
  buckets,  \* size -> the buffers pooled, the next to be reused last
  user,     \* what each thread is doing: asking for, or holding, a buffer
  stats

vars == << config, buckets, user, stats >>

\* BufferSize, with its discriminants.
Huge       == 4194304
BufferSize == {1024, 8192, 65536, 524288, Huge}

\* Mutant: the bounds of the sizes are exclusive.
RoundDown(capacity) ==
  LET enough == {size \in BufferSize : capacity <= size + 1}
  IN  IF enough = {} THEN Huge ELSE Min(enough)

\* BufferSize::for_capacity
ForCapacity(capacity) ==
  LET enough == {size \in BufferSize : capacity <= size}
  IN  IF enough = {} THEN Huge ELSE Min(enough)

\* PoolConfig: simd_alignment and track_stats
Default       == [alignment |-> 32, track_stats |-> TRUE]
SimdOptimized == [alignment |-> 64, track_stats |-> TRUE]
LowMemory     == [alignment |-> 32, track_stats |-> FALSE]

\* AlignedBuffer::new: up to the next multiple of the alignment.
Aligned(size) ==
  ((size + config.alignment - 1) \div config.alignment) * config.alignment

Away == [at |-> "away"]
User == {Away} \cup [at : {"asking", "holding"}, wanted : Capacities]

Is(t, at)  == user[t].at = at
SizeOf(t)  == ForCapacity(user[t].wanted)

Tracked(counted) == IF config.track_stats THEN counted ELSE stats

Init ==
  /\ config \in {Default, SimdOptimized, LowMemory}
  /\ buckets = [size \in BufferSize |-> << >>]
  /\ user = [t \in Thread |-> Away]
  /\ stats = [total |-> 0, hits |-> 0, misses |-> 0, current |-> 0, peak |-> 0]

-----------------------------------------------------------------------------
\* get_buffer_with_capacity: the allocation is counted
Ask(t, wanted) ==
  /\ Is(t, "away")
  /\ stats.total < MaxGets
  /\ stats' = Tracked([stats EXCEPT !.total = @ + 1])
  /\ user' = [user EXCEPT ![t] = [at |-> "asking", wanted |-> wanted]]
  /\ UNCHANGED << config, buckets >>

\* Mutant: a reused buffer is not counted as a hit.
GetUncounted(t) ==
  /\ Is(t, "asking")
  /\ user' = [user EXCEPT ![t].at = "holding"]
  /\ stats' = Tracked([stats EXCEPT !.misses = @ + IF buckets[SizeOf(t)] = << >> THEN 1 ELSE 0])
  /\ buckets' = [buckets EXCEPT ![SizeOf(t)] = IF @ = << >> THEN @ ELSE Front(@)]
  /\ UNCHANGED config

\* get_buffer: a pooled buffer is reused, or a new one made
Get(t) ==
  /\ Is(t, "asking")
  /\ user' = [user EXCEPT ![t].at = "holding"]
  /\ LET bucket == buckets[SizeOf(t)]
     IN  IF bucket # << >>
         THEN /\ buckets' = [buckets EXCEPT ![SizeOf(t)] = Front(bucket)]
              /\ stats' = Tracked([stats EXCEPT !.hits = @ + 1])
         ELSE /\ stats' = Tracked([stats EXCEPT !.misses = @ + 1])
              /\ UNCHANGED buckets
  /\ UNCHANGED config

\* PooledBuffer::drop: back to its bucket, as fresh, or freed for want of room
Return(t) ==
  /\ Is(t, "holding")
  /\ user' = [user EXCEPT ![t] = Away]
  /\ buckets' = [buckets EXCEPT ![SizeOf(t)] =
                   IF Len(@) < BucketLimit THEN Append(@, "fresh") ELSE @]
  /\ UNCHANGED << config, stats >>

\* update_current_memory_usage(-freed), in i64 and clamped at zero; no code
\* ever increases the usage.
LessMemory(freed) ==
  LET current == IF stats.current < freed THEN 0 ELSE stats.current - freed
  IN  [stats EXCEPT !.current = current, !.peak = Max({@, current})]

Freed(size) == Aligned(size) * Len(SelectSeq(buckets[size], LAMBDA b : b = "idle"))

\* cleanup: the buffers idle for too long are freed
Cleanup ==
  /\ buckets' = [size \in BufferSize |-> SelectSeq(buckets[size], LAMBDA b : b = "fresh")]
  /\ stats' = Tracked(LessMemory(MapThenSumSet(Freed, BufferSize)))
  /\ UNCHANGED << config, user >>

\* Time passes: what is pooled now has been idle too long.
Age ==
  /\ buckets' = [size \in BufferSize |-> [i \in DOMAIN buckets[size] |-> "idle"]]
  /\ UNCHANGED << config, user, stats >>

Next ==
  \/ \E t \in Thread : (\E wanted \in Capacities : Ask(t, wanted)) \/ Get(t) \/ Return(t)
  \/ Cleanup
  \/ Age

Spec == Init /\ [][Next]_vars

-----------------------------------------------------------------------------
(* Properties *)

TypeOK ==
  /\ \A size \in BufferSize : Len(buckets[size]) <= BucketLimit
  /\ \A size \in BufferSize : \A i \in DOMAIN buckets[size] : buckets[size][i] \in {"fresh", "idle"}
  /\ user \in [Thread -> User]
  /\ stats \in [total : 0 .. MaxGets, hits : 0 .. MaxGets, misses : 0 .. MaxGets,
                current : {0}, peak : {0}]

\* A buffer, new or used, is as large as it was asked to be; beyond the
\* largest size the caller gets that one, and no error.
LargeEnough ==
  \A t \in Thread :
    Is(t, "holding") =>
      \/ Aligned(SizeOf(t)) >= user[t].wanted
      \/ user[t].wanted > Huge

\* Every buffer asked for is counted as reused or as new, but for those that
\* threads are waiting for: under two locks, and never twice.
CountsAddUp ==
  config.track_stats =>
    stats.total = stats.hits + stats.misses + Cardinality({t \in Thread : Is(t, "asking")})
=============================================================================
