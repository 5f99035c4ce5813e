----------------------------- MODULE CacheStore -----------------------------
(***************************************************************************)
(* InMemoryCache (infrastructure/adapters/repository_adapters.rs): entries *)
(* with an optional time to live, and statistics behind a lock of their    *)
(* own.  get, set, remove and clear_prefix see to the entries first and to *)
(* the statistics later, with whatever they read of the entries before.    *)
(*                                                                         *)
(* An entry is the size of its key and value, and whether its time to live *)
(* has passed; all keys share one prefix.  Hit and miss rates are left     *)
(* out: the percentages are multiplied by 100 once more and taken for a    *)
(* count of ten thousand requests, so they hardly move after the first.    *)
(***************************************************************************)
EXTENDS Naturals, FiniteSets, FiniteSetsExt, Functions

CONSTANTS
  Client,
  Key,
  Size,      \* the sizes of entries, positive
  NoEntry,
  MaxSets    \* bound: calls of set_bytes

VARIABLES
  data,      \* Key -> [size, expired] or NoEntry
  stats,     \* CacheStatistics: total_keys, memory_usage_bytes
  owed,      \* what a client will tell the statistics
  sets       \* how often set_bytes has been called

vars == << data, stats, owed, sets >>

Nothing == [op |-> "none"]
Owed == {Nothing}
          \cup [op : {"set"}, keys : 0 .. Cardinality(Key), size : Size]
          \cup [op : {"remove"}, keys : 0 .. Cardinality(Key)]

Keys(d) == Cardinality({k \in Key : d[k] # NoEntry})

Init ==
  /\ data = [k \in Key |-> NoEntry]
  /\ stats = [keys |-> 0, memory |-> 0]
  /\ owed = [c \in Client |-> Nothing]
  /\ sets = 0

-----------------------------------------------------------------------------
\* get_bytes: an entry that has outlived its time is not returned, and not
\* removed either.  An expired entry is a miss.
Get(k) == IF data[k] = NoEntry \/ data[k].expired THEN NoEntry ELSE data[k]

Set(c, k, size) ==
  /\ owed[c] = Nothing
  /\ sets < MaxSets
  /\ data' = [data EXCEPT ![k] = [size |-> size, expired |-> FALSE]]
  /\ owed' = [owed EXCEPT ![c] = [op |-> "set", keys |-> Keys(data'), size |-> size]]
  /\ sets' = sets + 1
  /\ UNCHANGED stats

\* remove
Evict(c, k) ==
  /\ owed[c] = Nothing
  /\ data' = [data EXCEPT ![k] = NoEntry]
  /\ owed' = [owed EXCEPT ![c] = [op |-> "remove", keys |-> Keys(data')]]
  /\ UNCHANGED << stats, sets >>

ClearPrefix(c) ==
  /\ owed[c] = Nothing
  /\ data' = [k \in Key |-> NoEntry]
  /\ owed' = [owed EXCEPT ![c] = [op |-> "remove", keys |-> 0]]
  /\ UNCHANGED << stats, sets >>

\* Mutant: the size replaces the usage instead of adding to it.
CountSetAnew(c) ==
  /\ owed[c].op = "set"
  /\ stats' = [keys |-> owed[c].keys, memory |-> owed[c].size]
  /\ owed' = [owed EXCEPT ![c] = Nothing]
  /\ UNCHANGED << data, sets >>

\* The size of the value is added, that of the value it replaced is not
\* taken off.
CountSet(c) ==
  /\ owed[c].op = "set"
  /\ stats' = [keys |-> owed[c].keys, memory |-> stats.memory + owed[c].size]
  /\ owed' = [owed EXCEPT ![c] = Nothing]
  /\ UNCHANGED << data, sets >>

\* eviction_count goes up; the memory does not come down.
CountEviction(c) ==
  /\ owed[c].op = "remove"
  /\ stats' = [stats EXCEPT !.keys = owed[c].keys]
  /\ owed' = [owed EXCEPT ![c] = Nothing]
  /\ UNCHANGED << data, sets >>

Expire(k) ==
  /\ Get(k) # NoEntry
  /\ data' = [data EXCEPT ![k].expired = TRUE]
  /\ UNCHANGED << stats, owed, sets >>

Next ==
  \/ \E c \in Client :
       \/ \E k \in Key : Evict(c, k) \/ \E size \in Size : Set(c, k, size)
       \/ ClearPrefix(c) \/ CountSet(c) \/ CountEviction(c)
  \/ \E k \in Key : Expire(k)

Spec == Init /\ [][Next]_vars

-----------------------------------------------------------------------------
(* Properties *)

TypeOK ==
  /\ data \in [Key -> [size : Size, expired : BOOLEAN] \cup {NoEntry}]
  /\ stats \in [keys : 0 .. Cardinality(Key), memory : 0 .. MaxSets * Max(Size)]
  /\ owed \in [Client -> Owed]
  /\ sets \in 0 .. MaxSets

Taken     == [k \in Key |-> IF data[k] = NoEntry THEN 0 ELSE data[k].size]
Uncounted == [c \in Client |-> IF owed[c].op = "set" THEN owed[c].size ELSE 0]

\* The statistics arrive late, in another order, and never come down; still
\* the memory they report is never less than what the entries take, up to
\* the sets that are still to be counted.
MemoryIsNotUnderstated == SumFunction(Taken) <= stats.memory + SumFunction(Uncounted)
=============================================================================
