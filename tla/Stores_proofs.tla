---------------------------- MODULE Stores_proofs ----------------------------
(***************************************************************************)
(* What the stores behind the services promise, proved for any number of   *)
(* callers, keys, sessions and streams.  The induction over sums and over  *)
(* sequences put together from others, and the metrics, are in             *)
(* Reporting_proofs.                                                       *)
(***************************************************************************)
EXTENDS Services, Reporting_proofs

-----------------------------------------------------------------------------
(* The streams of a session *)

IsListed(id) == \E i \in DOMAIN listed : listed[i] = id

Unlisting(id) == Listing!Busy({"unlisting"}, id)
\* A delete that has found the stream gone, or has taken it out of the map
Gone(id)      == Listing!Busy({"deletingUnknown", "unlisting"}, id)

\* A stream that is being stored is in the map and not being deleted.
StoringIsStored(id) == Listing!Storing(id) => id \in streams /\ ~Listing!Deleting(id)

\* Such a delete is right, unless the stream is stored again.
GoneIsGone(id) == Gone(id) => id \notin streams

\* Otherwise the list agrees with the map, but for who is about to take the
\* stream off the list.
ListedOrUnderWay(id) ==
  ~Listing!Storing(id) =>
    /\ id \in streams => IsListed(id)
    /\ id \notin streams /\ IsListed(id) => Unlisting(id)

ListingIInv ==
  /\ listed \in Seq(StoredId)
  /\ storeTask \in [Caller -> Listing!Task]
  /\ \A id \in StoredId \ raced :
       StoringIsStored(id) /\ GoneIsGone(id) /\ ListedOrUnderWay(id)

\* Nobody is at work at the beginning.
LEMMA ListingInit == Listing!Init => ListingIInv
BY DEF Listing!Init, ListingIInv, StoringIsStored, GoneIsGone, ListedOrUnderWay, IsListed,
       Gone, Unlisting, Listing!Storing, Listing!Deleting, Listing!Busy, Listing!Idle, Listing!Task

\* A task names what is done to a stream.
LEMMA TaskFields ==
  ASSUME NEW t \in Listing!Task
  PROVE  /\ t.op \in {"idle", "storing", "deleting", "unlisting", "deletingUnknown"}
         /\ t.op # "idle" => t.id \in StoredId
         /\ t.op = "idle" <=> t = Listing!Idle
         /\ t.op = "deleting" => [t EXCEPT !.op = "unlisting"] = [op |-> "unlisting", id |-> t.id]
BY DEF Listing!Task, Listing!Idle

\* Who takes a stream off the list has seen it gone, and is deleting it.
LEMMA UnlistingIsGone ==
  ASSUME NEW id
  PROVE  (Unlisting(id) => Gone(id)) /\ (Gone(id) => Listing!Deleting(id))
BY DEF Unlisting, Gone, Listing!Deleting, Listing!Busy

\* Who is busy with a stream after a caller has taken on a task, and after a
\* caller has changed or ended one
LEMMA BusyAfter ==
  ASSUME storeTask \in [Caller -> Listing!Task], NEW c \in Caller, NEW t \in Listing!Task,
         Listing!Becomes(c, t), NEW kinds, "idle" \notin kinds, NEW id
  PROVE  /\ storeTask' \in [Caller -> Listing!Task]
         /\ t.op \in kinds /\ t.id = id => Listing!Busy(kinds, id)'
         /\ t.op \notin kinds \/ t.id # id => (Listing!Busy(kinds, id)' => Listing!Busy(kinds, id))
         /\ storeTask[c].op \notin kinds \/ storeTask[c].id # id =>
              (Listing!Busy(kinds, id) => Listing!Busy(kinds, id)')
BY DEF Listing!Becomes, Listing!Busy

\* The same for what the callers do to streams
LEMMA WhoIsBusy ==
  ASSUME storeTask \in [Caller -> Listing!Task], NEW c \in Caller, NEW t \in Listing!Task,
         Listing!Becomes(c, t), NEW id
  PROVE  /\ t.op = "storing" /\ t.id = id => Listing!Storing(id)'
         /\ t.op # "storing" \/ t.id # id => (Listing!Storing(id)' => Listing!Storing(id))
         /\ storeTask[c].op # "storing" \/ storeTask[c].id # id =>
              (Listing!Storing(id) => Listing!Storing(id)')
         /\ t.op \notin {"deleting", "deletingUnknown", "unlisting"} \/ t.id # id =>
              (Listing!Deleting(id)' => Listing!Deleting(id))
         /\ t.op \notin {"deletingUnknown", "unlisting"} \/ t.id # id => (Gone(id)' => Gone(id))
         /\ t.op = "unlisting" /\ t.id = id => Unlisting(id)'
         /\ storeTask[c].op # "unlisting" \/ storeTask[c].id # id =>
              (Unlisting(id) => Unlisting(id)')
<1>1. "idle" \notin {"storing"} /\ "idle" \notin {"deleting", "deletingUnknown", "unlisting"}
      /\ "idle" \notin {"deletingUnknown", "unlisting"} /\ "idle" \notin {"unlisting"}
  OBVIOUS
<1>2. /\ t.op = "storing" /\ t.id = id => Listing!Storing(id)'
      /\ t.op # "storing" \/ t.id # id => (Listing!Storing(id)' => Listing!Storing(id))
      /\ storeTask[c].op # "storing" \/ storeTask[c].id # id =>
           (Listing!Storing(id) => Listing!Storing(id)')
  BY <1>1, BusyAfter DEF Listing!Storing
<1>3. t.op \notin {"deleting", "deletingUnknown", "unlisting"} \/ t.id # id =>
        (Listing!Deleting(id)' => Listing!Deleting(id))
  BY <1>1, BusyAfter DEF Listing!Deleting
<1>4. t.op \notin {"deletingUnknown", "unlisting"} \/ t.id # id => (Gone(id)' => Gone(id))
  BY <1>1, BusyAfter DEF Gone
<1>5. /\ t.op = "unlisting" /\ t.id = id => Unlisting(id)'
      /\ storeTask[c].op # "unlisting" \/ storeTask[c].id # id =>
           (Unlisting(id) => Unlisting(id)')
  BY <1>1, BusyAfter DEF Unlisting
<1>6. QED
  BY <1>2, <1>3, <1>4, <1>5

\* What is taken off the list is not on it any more, all else is.
LEMMA WithoutIsWithout ==
  ASSUME listed \in Seq(StoredId), NEW id
  PROVE  /\ Listing!Without(id) \in Seq(StoredId)
         /\ \A x : (\E i \in DOMAIN Listing!Without(id) : Listing!Without(id)[i] = x)
                     <=> IsListed(x) /\ x # id
<1> DEFINE seqs == [i \in DOMAIN listed |-> IF listed[i] = id THEN << >> ELSE << listed[i] >>]
<1>1. seqs \in Seq(Seq(StoredId)) /\ DOMAIN seqs = DOMAIN listed
  <2> DEFINE piece(i) == IF listed[i] = id THEN << >> ELSE << listed[i] >>
  <2>1. \A i \in 1 .. Len(listed) : piece(i) \in Seq(StoredId)
    OBVIOUS
  <2>2. seqs = [i \in 1 .. Len(listed) |-> piece(i)]
    OBVIOUS
  <2> HIDE DEF piece, seqs
  <2> QED
    BY <2>1, <2>2
<1>2. Listing!Without(id) = FlattenSeq(seqs)
  BY Zenon DEF Listing!Without, Listing!FlattenSeq, FlattenSeq
<1>3. ASSUME NEW x
      PROVE  (\E j \in DOMAIN seqs : \E i \in DOMAIN seqs[j] : seqs[j][i] = x)
               <=> IsListed(x) /\ x # id
  <2>1. \A j \in DOMAIN listed : listed[j] = id => DOMAIN seqs[j] = {}
    OBVIOUS
  <2>2. \A j \in DOMAIN listed : listed[j] # id => DOMAIN seqs[j] = {1} /\ seqs[j][1] = listed[j]
    OBVIOUS
  <2> HIDE DEF seqs
  <2> QED
    BY <1>1, <2>1, <2>2 DEF IsListed
<1>4. /\ FlattenSeq(seqs) \in Seq(StoredId)
      /\ \A x : (\E i \in DOMAIN FlattenSeq(seqs) : FlattenSeq(seqs)[i] = x)
                  <=> \E j \in DOMAIN seqs : \E i \in DOMAIN seqs[j] : seqs[j][i] = x
  <2> HIDE DEF seqs
  <2> QED
    BY <1>1, FlattenHolds
<1>5. QED
  <2> HIDE DEF seqs
  <2> QED
    BY <1>2, <1>3, <1>4

\* A task says what its caller is busy with.
LEMMA TaskIsBusy ==
  ASSUME NEW c \in Caller
  PROVE  /\ storeTask[c].op = "storing" => Listing!Storing(storeTask[c].id)
         /\ storeTask[c].op \in {"deleting", "deletingUnknown"} =>
              Listing!Deleting(storeTask[c].id)
         /\ storeTask[c].op = "deletingUnknown" => Gone(storeTask[c].id)
         /\ storeTask[c].op = "unlisting" => Gone(storeTask[c].id)
BY DEF Listing!Storing, Listing!Deleting, Gone, Listing!Busy

\* Every step of a caller keeps the list and the map together.
LEMMA ListingStep ==
  ASSUME ListingIInv, Listing!Next
  PROVE  ListingIInv'
<1> USE DEF StoringIsStored, GoneIsGone, ListedOrUnderWay
<1>1. listed \in Seq(StoredId) /\ storeTask \in [Caller -> Listing!Task]
  BY DEF ListingIInv
<1>2. \A id \in StoredId \ raced : StoringIsStored(id) /\ GoneIsGone(id) /\ ListedOrUnderWay(id)
  BY DEF ListingIInv
<1>3. ASSUME listed' \in Seq(StoredId), NEW c \in Caller, NEW t \in Listing!Task,
             Listing!Becomes(c, t),
             \A id \in StoredId \ raced' :
               StoringIsStored(id)' /\ GoneIsGone(id)' /\ ListedOrUnderWay(id)'
      PROVE  ListingIInv'
  BY <1>1, <1>3 DEF ListingIInv, Listing!Becomes
<1>4. ASSUME NEW c \in Caller, NEW id \in StoredId, Listing!Store(c, id) PROVE ListingIInv'
  <2> DEFINE t == [op |-> "storing", id |-> id]
  <2>1. /\ t \in Listing!Task /\ Listing!Becomes(c, t) /\ storeTask[c].op = "idle"
        /\ t.op = "storing" /\ t.id = id /\ streams' = streams \cup {id} /\ listed' = listed
        /\ raced' = IF Listing!Deleting(id) THEN raced \cup {id} ELSE raced
    BY <1>4 DEF Listing!Store, Listing!Task, Listing!Idle
  <2> HIDE DEF t
  <2>2. ASSUME NEW x \in StoredId \ raced'
        PROVE  StoringIsStored(x)' /\ GoneIsGone(x)' /\ ListedOrUnderWay(x)'
    <3>1. x \in StoredId \ raced /\ (x = id => ~Listing!Deleting(id))
      BY <2>1, <2>2
    <3>2. IsListed(x)' = IsListed(x)
      BY <2>1 DEF IsListed
    <3>3. QED
      BY <1>1, <1>2, <2>1, <3>1, <3>2, WhoIsBusy, UnlistingIsGone
  <2>3. QED
    BY <1>1, <1>3, <2>1, <2>2
<1>5. ASSUME NEW c \in Caller, NEW id \in StoredId, Listing!Delete(c, id) PROVE ListingIInv'
  <2> DEFINE t == [op |-> IF id \in streams THEN "deleting" ELSE "deletingUnknown", id |-> id]
  <2>1. /\ t \in Listing!Task /\ Listing!Becomes(c, t) /\ storeTask[c].op = "idle"
        /\ t.op = (IF id \in streams THEN "deleting" ELSE "deletingUnknown") /\ t.id = id
        /\ streams' = streams /\ listed' = listed
        /\ raced' = IF Listing!Storing(id) THEN raced \cup {id} ELSE raced
    BY <1>5 DEF Listing!Delete, Listing!Task, Listing!Idle
  <2> HIDE DEF t
  <2>2. ASSUME NEW x \in StoredId \ raced'
        PROVE  StoringIsStored(x)' /\ GoneIsGone(x)' /\ ListedOrUnderWay(x)'
    <3>1. x \in StoredId \ raced /\ (x = id => ~Listing!Storing(id))
      BY <2>1, <2>2
    <3>2. IsListed(x)' = IsListed(x)
      BY <2>1 DEF IsListed
    <3>3. QED
      BY <1>1, <1>2, <2>1, <3>1, <3>2, WhoIsBusy
  <2>3. QED
    BY <1>1, <1>3, <2>1, <2>2
<1>6. ASSUME NEW c \in Caller, Listing!List(c) PROVE ListingIInv'
  <2> DEFINE id == storeTask[c].id
  <2>1. /\ Listing!Idle \in Listing!Task /\ Listing!Idle.op = "idle" /\ id \in StoredId
        /\ Listing!Becomes(c, Listing!Idle) /\ storeTask[c].op = "storing"
        /\ streams' = streams /\ raced' = raced /\ listed' = Append(listed, id)
    BY <1>1, <1>6, TaskFields DEF Listing!List, Listing!Task, Listing!Idle
  <2>2. listed' \in Seq(StoredId) /\ \A x : IsListed(x)' <=> IsListed(x) \/ x = id
    <3> HIDE DEF id
    <3>1. listed' \in Seq(StoredId) /\ DOMAIN listed' = (DOMAIN listed) \cup {Len(listed) + 1}
      BY <1>1, <2>1
    <3>2. listed'[Len(listed) + 1] = id /\ \A i \in DOMAIN listed : listed'[i] = listed[i]
      BY <1>1, <2>1
    <3>3. QED
      BY <3>1, <3>2 DEF IsListed
  <2>3. Listing!Storing(id)
    BY <2>1, TaskIsBusy
  <2> HIDE DEF id
  <2>4. ASSUME NEW x \in StoredId \ raced'
        PROVE  StoringIsStored(x)' /\ GoneIsGone(x)' /\ ListedOrUnderWay(x)'
    BY <1>1, <1>2, <2>1, <2>2, <2>3, WhoIsBusy DEF id
  <2>5. QED
    BY <1>1, <1>3, <2>1, <2>2, <2>4
<1>7. ASSUME NEW c \in Caller, Listing!Drop(c) PROVE ListingIInv'
  <2> DEFINE id == storeTask[c].id
             t  == IF storeTask[c].op = "deleting"
                   THEN [storeTask[c] EXCEPT !.op = "unlisting"] ELSE Listing!Idle
  <2>1. /\ storeTask[c] \in Listing!Task /\ id \in StoredId
        /\ storeTask[c].op \in {"deleting", "deletingUnknown"} /\ Listing!Becomes(c, t)
        /\ streams' = streams \ {id} /\ listed' = listed /\ raced' = raced
    BY <1>1, <1>7, TaskFields DEF Listing!Drop
  <2>2. /\ t \in Listing!Task
        /\ storeTask[c].op = "deleting" => t.op = "unlisting" /\ t.id = id
        /\ storeTask[c].op = "deletingUnknown" => t.op = "idle"
    BY <2>1, TaskFields DEF Listing!Task, Listing!Idle
  <2>3. Listing!Deleting(id) /\ (storeTask[c].op = "deletingUnknown" => Gone(id))
    BY <2>1, TaskIsBusy
  <2> HIDE DEF t
  <2>4. ASSUME NEW x \in StoredId \ raced'
        PROVE  StoringIsStored(x)' /\ GoneIsGone(x)' /\ ListedOrUnderWay(x)'
    <3>1. IsListed(x)' = IsListed(x)
      BY <2>1 DEF IsListed
    <3>2. CASE x = id
      BY <1>1, <1>2, <2>1, <2>2, <2>3, <3>1, <3>2, WhoIsBusy
    <3>3. CASE x # id
      BY <1>1, <1>2, <2>1, <2>2, <2>3, <3>1, <3>3, WhoIsBusy
    <3>4. QED
      BY <3>2, <3>3
  <2>5. QED
    BY <1>1, <1>3, <2>1, <2>2, <2>4
<1>8. ASSUME NEW c \in Caller, Listing!Unlist(c) PROVE ListingIInv'
  <2> DEFINE id == storeTask[c].id
  <2>1. /\ Listing!Idle \in Listing!Task /\ Listing!Idle.op = "idle" /\ id \in StoredId
        /\ Listing!Becomes(c, Listing!Idle) /\ storeTask[c].op = "unlisting"
        /\ streams' = streams /\ raced' = raced /\ listed' = Listing!Without(id)
    BY <1>1, <1>8, TaskFields DEF Listing!Unlist, Listing!Task, Listing!Idle
  <2>2. listed' \in Seq(StoredId) /\ \A x : IsListed(x)' <=> IsListed(x) /\ x # id
    <3> DEFINE w == Listing!Without(id)
    <3>1. /\ w \in Seq(StoredId)
          /\ \A x : (\E i \in DOMAIN w : w[i] = x) <=> IsListed(x) /\ x # id
      BY <1>1, WithoutIsWithout
    <3>2. listed' = w
      BY <2>1
    <3>3. ASSUME NEW x PROVE IsListed(x)' <=> \E i \in DOMAIN w : w[i] = x
      <4> HIDE DEF w
      <4> QED
        BY <3>2 DEF IsListed
    <3> HIDE DEF w, id
    <3> QED
      BY <3>1, <3>2, <3>3
  <2>3. Gone(id)
    BY <2>1, TaskIsBusy
  <2>4. ASSUME NEW x \in StoredId \ raced'
        PROVE  StoringIsStored(x)' /\ GoneIsGone(x)' /\ ListedOrUnderWay(x)'
    BY <1>1, <1>2, <2>1, <2>2, <2>3, WhoIsBusy
  <2>5. QED
    BY <1>1, <1>3, <2>1, <2>2, <2>4
<1>9. CASE Listing!Clear
  <2>1. \A id : ~Listing!Storing(id)' /\ ~Gone(id)'
    BY <1>9 DEF Listing!Clear, Listing!Storing, Gone, Listing!Busy, Listing!Idle
  <2>2. /\ streams' = {} /\ listed' = << >> /\ listed' \in Seq(StoredId)
        /\ storeTask' = storeTask
    BY <1>9 DEF Listing!Clear
  <2>3. \A id : ~IsListed(id)'
    BY <2>2 DEF IsListed
  <2>4. QED
    BY <1>1, <2>1, <2>2, <2>3 DEF ListingIInv
<1>10. QED
  BY <1>4, <1>5, <1>6, <1>7, <1>8, <1>9 DEF Listing!Next

\* What is claimed of the two maps follows.
LEMMA ListingAgrees == ListingIInv => Listing!ListedUnlessRaced
BY UnlistingIsGone
   DEF ListingIInv, ListedOrUnderWay, IsListed, Listing!ListedUnlessRaced

-----------------------------------------------------------------------------
(* The cache *)

CacheIInv ==
  /\ data \in [EntryKey -> [size : EntrySize, expired : BOOLEAN] \cup {Absent}]
  /\ cacheStats \in [keys : Nat, memory : Nat]
  /\ owed \in [Client -> Cache!Owed]
  /\ Cache!MemoryIsNotUnderstated

Total(f) == SumFunctionOnSet(f, DOMAIN f)

\* What is owed to the statistics has its fields.
LEMMA OwedFields ==
  /\ \A o \in Cache!Owed : o.op = "set" => o.keys \in Nat /\ o.size \in EntrySize
  /\ \A o \in Cache!Owed : o.op = "remove" => o.keys \in Nat
  /\ Cache!Nothing \in Cache!Owed /\ Cache!Nothing.op = "none"
  /\ \A d : Cache!Keys(d) \in Nat
  /\ \A d : [op |-> "remove", keys |-> Cache!Keys(d)] \in Cache!Owed
  /\ [op |-> "remove", keys |-> 0] \in Cache!Owed
  /\ \A d : \A size \in EntrySize :
       [op |-> "set", keys |-> Cache!Keys(d), size |-> size] \in Cache!Owed
<1>1. \A S : Cache!Cardinality(S) = Cardinality(S)
  BY Zenon DEF Cache!Cardinality, Cardinality
<1>2. Cache!Cardinality(EntryKey) \in Nat
  BY <1>1, StoresAssumption, FS_CardinalityType
<1>3. ASSUME NEW d PROVE Cache!Keys(d) \in 0 .. Cache!Cardinality(EntryKey)
  <2>1. {k \in EntryKey : d[k] # Absent} \subseteq EntryKey
    OBVIOUS
  <2> DEFINE some == {k \in EntryKey : d[k] # Absent}
  <2>2. some \subseteq EntryKey
    BY <2>1
  <2>3. Cache!Keys(d) = Cardinality(some)
    BY <1>1 DEF Cache!Keys
  <2> HIDE DEF some
  <2>4. Cardinality(some) \in Nat /\ Cardinality(some) <= Cardinality(EntryKey)
    BY <2>2, StoresAssumption, FS_Subset, FS_CardinalityType
  <2>5. QED
    BY <1>1, <1>2, <2>3, <2>4
<1>4. \A o \in Cache!Owed : o.op = "set" => o.keys \in Nat /\ o.size \in EntrySize
  BY <1>2 DEF Cache!Owed, Cache!Nothing
<1>5. \A o \in Cache!Owed : o.op = "remove" => o.keys \in Nat
  BY <1>2 DEF Cache!Owed, Cache!Nothing
<1>6. Cache!Nothing \in Cache!Owed /\ Cache!Nothing.op = "none"
  BY DEF Cache!Owed, Cache!Nothing
<1>7. \A d : [op |-> "remove", keys |-> Cache!Keys(d)] \in Cache!Owed
  BY <1>3 DEF Cache!Owed
<1>8. [op |-> "remove", keys |-> 0] \in Cache!Owed
  BY <1>2 DEF Cache!Owed
<1>9. \A d : \A size \in EntrySize :
        [op |-> "set", keys |-> Cache!Keys(d), size |-> size] \in Cache!Owed
  BY <1>3 DEF Cache!Owed
<1>10. QED
  BY <1>2, <1>3, <1>4, <1>5, <1>6, <1>7, <1>8, <1>9

\* The sums of the cache are the library's.
LEMMA CacheSum ==
  ASSUME NEW f
  PROVE  Cache!SumFunction(f) = Total(f)
BY Zenon
   DEF Cache!SumFunction, Cache!SumFunctionOnSet, SumFunctionOnSet, Total,
       Cache!FoldFunctionOnSet, FoldFunctionOnSet, Cache!MapThenFoldSet, MapThenFoldSet

\* Entries and what is owed for them have sizes.
LEMMA CacheSizes ==
  /\ data \in [EntryKey -> [size : EntrySize, expired : BOOLEAN] \cup {Absent}] =>
       Cache!Taken \in [EntryKey -> Nat] /\ Total(Cache!Taken) \in Nat
  /\ owed \in [Client -> Cache!Owed] =>
       Cache!Uncounted \in [Client -> Nat] /\ Total(Cache!Uncounted) \in Nat
<1>1. ASSUME data \in [EntryKey -> [size : EntrySize, expired : BOOLEAN] \cup {Absent}]
      PROVE  Cache!Taken \in [EntryKey -> Nat] /\ Total(Cache!Taken) \in Nat
  <2>1. Cache!Taken \in [EntryKey -> Nat]
    BY <1>1, StoresAssumption DEF Cache!Taken
  <2>2. QED
    BY <2>1, StoresAssumption, SumIsNat DEF Total
<1>2. ASSUME owed \in [Client -> Cache!Owed]
      PROVE  Cache!Uncounted \in [Client -> Nat] /\ Total(Cache!Uncounted) \in Nat
  <2>1. Cache!Uncounted \in [Client -> Nat]
    BY <1>2, OwedFields, StoresAssumption DEF Cache!Uncounted
  <2>2. QED
    BY <2>1, StoresAssumption, SumIsNat DEF Total
<1>3. QED
  BY <1>1, <1>2

\* Nothing is stored and nothing owed at the beginning.
LEMMA CacheInit == Cache!Init => CacheIInv
<1> SUFFICES ASSUME Cache!Init PROVE CacheIInv
  OBVIOUS
<1>1. /\ data \in [EntryKey -> [size : EntrySize, expired : BOOLEAN] \cup {Absent}]
      /\ cacheStats \in [keys : Nat, memory : Nat] /\ cacheStats.memory = 0
      /\ owed \in [Client -> Cache!Owed]
  BY OwedFields DEF Cache!Init
<1>2. DOMAIN Cache!Taken = EntryKey /\ \A k \in EntryKey : Cache!Taken[k] = 0
  BY DEF Cache!Init, Cache!Taken
<1>3. Total(Cache!Taken) = 0
  <2>1. {k \in EntryKey : Cache!Taken[k] = 1} = {}
    BY <1>2
  <2>2. QED
    BY <1>2, <2>1, StoresAssumption, SumCounts, FS_EmptySet DEF Total
<1>4. QED
  BY <1>1, <1>3, CacheSizes, CacheSum DEF CacheIInv, Cache!MemoryIsNotUnderstated

\* Whatever is put in is owed to the statistics, and what is told them stays.
LEMMA CacheStep ==
  ASSUME CacheIInv, Cache!Next
  PROVE  CacheIInv'
<1> DEFINE Entries == [size : EntrySize, expired : BOOLEAN]
           taken == Total(Cache!Taken)
           uncounted == Total(Cache!Uncounted)
<1>1. /\ data \in [EntryKey -> Entries \cup {Absent}] /\ owed \in [Client -> Cache!Owed]
      /\ cacheStats \in [keys : Nat, memory : Nat] /\ cacheStats.memory \in Nat
  BY DEF CacheIInv
<1>2. taken \in Nat /\ uncounted \in Nat /\ taken <= cacheStats.memory + uncounted
  BY <1>1, CacheSizes, CacheSum DEF CacheIInv, Cache!MemoryIsNotUnderstated
<1>3. ASSUME data' \in [EntryKey -> Entries \cup {Absent}], owed' \in [Client -> Cache!Owed],
             cacheStats' \in [keys : Nat, memory : Nat],
             taken' <= cacheStats'.memory + uncounted'
      PROVE  CacheIInv'
  BY <1>3, CacheSum DEF CacheIInv, Cache!MemoryIsNotUnderstated
<1>4. ASSUME NEW k \in EntryKey, data' \in [EntryKey -> Entries \cup {Absent}],
             \A j \in EntryKey \ {k} : data'[j] = data[j]
      PROVE  taken' \in Nat /\ taken' + Cache!Taken[k] = taken + Cache!Taken'[k]
             /\ Cache!Taken[k] \in Nat /\ Cache!Taken'[k] \in Nat
  <2>1. Cache!Taken \in [EntryKey -> Nat] /\ Cache!Taken' \in [EntryKey -> Nat]
    BY <1>1, <1>4, StoresAssumption DEF Cache!Taken
  <2>2. \A j \in EntryKey : j # k => Cache!Taken'[j] = Cache!Taken[j]
    BY <1>4 DEF Cache!Taken
  <2>3. taken' = SumFunctionOnSet(Cache!Taken', EntryKey) /\ taken = SumFunctionOnSet(Cache!Taken, EntryKey)
    BY <2>1 DEF Total
  <2>4. QED
    BY <2>1, <2>2, <2>3, StoresAssumption, SumUpdated, SumIsNat
<1>5. ASSUME NEW c \in Client, owed' \in [Client -> Cache!Owed],
             \A d \in Client \ {c} : owed'[d] = owed[d]
      PROVE  uncounted' \in Nat /\ uncounted' + Cache!Uncounted[c] = uncounted + Cache!Uncounted'[c]
             /\ Cache!Uncounted[c] \in Nat /\ Cache!Uncounted'[c] \in Nat
  <2>1. Cache!Uncounted \in [Client -> Nat] /\ Cache!Uncounted' \in [Client -> Nat]
    BY <1>1, <1>5, OwedFields, StoresAssumption DEF Cache!Uncounted
  <2>2. \A d \in Client : d # c => Cache!Uncounted'[d] = Cache!Uncounted[d]
    BY <1>5 DEF Cache!Uncounted
  <2>3. /\ uncounted' = SumFunctionOnSet(Cache!Uncounted', Client)
        /\ uncounted = SumFunctionOnSet(Cache!Uncounted, Client)
    BY <2>1 DEF Total
  <2>4. QED
    BY <2>1, <2>2, <2>3, StoresAssumption, SumUpdated, SumIsNat
<1>6. UNCHANGED data => taken' = taken
  BY DEF Total, Cache!Taken
<1>7. UNCHANGED owed => uncounted' = uncounted
  BY DEF Total, Cache!Uncounted
<1> HIDE DEF taken, uncounted
<1>8. ASSUME NEW c \in Client, NEW k \in EntryKey, NEW size \in EntrySize, Cache!Set(c, k, size)
      PROVE  CacheIInv'
  <2>1. /\ data' \in [EntryKey -> Entries \cup {Absent}] /\ data'[k] = [size |-> size, expired |-> FALSE]
        /\ \A j \in EntryKey \ {k} : data'[j] = data[j]
    BY <1>1, <1>8 DEF Cache!Set
  <2>2. /\ owed' \in [Client -> Cache!Owed] /\ owed[c] = Cache!Nothing
        /\ owed'[c] = [op |-> "set", keys |-> Cache!Keys(data'), size |-> size]
        /\ cacheStats' = cacheStats /\ \A d \in Client \ {c} : owed'[d] = owed[d]
    BY <1>1, <1>8, OwedFields DEF Cache!Set
  <2>3. Cache!Taken'[k] = size
    <3>1. [size |-> size, expired |-> FALSE] \in [size : EntrySize, expired : BOOLEAN]
      OBVIOUS
    <3>2. Absent # [size |-> size, expired |-> FALSE]
      BY <3>1, StoresAssumption, Zenon
    <3>3. data'[k] # Absent /\ data'[k].size = size
      BY <2>1, <3>2
    <3>4. QED
      BY <3>3 DEF Cache!Taken
  <2>4. Cache!Uncounted'[c] = size /\ Cache!Uncounted[c] = 0
    BY <2>2, OwedFields DEF Cache!Uncounted
  <2>5. taken' <= cacheStats.memory + uncounted'
    BY <1>1, <1>2, <1>4, <1>5, <2>1, <2>2, <2>3, <2>4
  <2>6. QED
    BY <1>1, <1>3, <2>1, <2>2, <2>5
<1>9. ASSUME NEW c \in Client, NEW k \in EntryKey, Cache!Evict(c, k) PROVE CacheIInv'
  <2>1. /\ data' \in [EntryKey -> Entries \cup {Absent}] /\ data'[k] = Absent
        /\ \A j \in EntryKey \ {k} : data'[j] = data[j]
    BY <1>1, <1>9 DEF Cache!Evict
  <2>2. /\ owed' \in [Client -> Cache!Owed] /\ owed[c] = Cache!Nothing
        /\ owed'[c] = [op |-> "remove", keys |-> Cache!Keys(data')]
        /\ cacheStats' = cacheStats /\ \A d \in Client \ {c} : owed'[d] = owed[d]
    BY <1>1, <1>9, OwedFields DEF Cache!Evict
  <2>3. Cache!Taken'[k] = 0
    BY <2>1 DEF Cache!Taken
  <2>4. Cache!Uncounted'[c] = 0 /\ Cache!Uncounted[c] = 0
    BY <2>2, OwedFields DEF Cache!Uncounted
  <2>5. taken' <= cacheStats.memory + uncounted'
    BY <1>1, <1>2, <1>4, <1>5, <2>1, <2>2, <2>3, <2>4
  <2>6. QED
    BY <1>1, <1>3, <2>1, <2>2, <2>5
<1>10. ASSUME NEW c \in Client, Cache!ClearPrefix(c) PROVE CacheIInv'
  <2>1. data' = [k \in EntryKey |-> Absent] /\ data' \in [EntryKey -> Entries \cup {Absent}]
    BY <1>10 DEF Cache!ClearPrefix
  <2>2. /\ owed' \in [Client -> Cache!Owed] /\ owed[c] = Cache!Nothing
        /\ owed'[c] = [op |-> "remove", keys |-> 0]
        /\ cacheStats' = cacheStats /\ \A d \in Client \ {c} : owed'[d] = owed[d]
    BY <1>1, <1>10, OwedFields DEF Cache!ClearPrefix
  <2>3. taken' = 0
    <3>1. DOMAIN Cache!Taken' = EntryKey /\ \A k \in EntryKey : Cache!Taken'[k] = 0
      BY <2>1 DEF Cache!Taken
    <3>2. {k \in EntryKey : Cache!Taken'[k] = 1} = {}
      BY <3>1
    <3>3. QED
      BY <3>1, <3>2, StoresAssumption, SumCounts, FS_EmptySet DEF Total, taken
  <2>4. uncounted' \in Nat
    BY <1>5, <2>2
  <2>5. QED
    BY <1>1, <1>3, <2>1, <2>2, <2>3, <2>4
<1>11. ASSUME NEW c \in Client, Cache!CountSet(c) PROVE CacheIInv'
  <2>1. owed[c].op = "set" /\ owed[c] \in Cache!Owed
    BY <1>1, <1>11 DEF Cache!CountSet
  <2>2. owed[c].keys \in Nat /\ owed[c].size \in Nat
    BY <2>1, OwedFields, StoresAssumption
  <2>3. /\ owed' \in [Client -> Cache!Owed] /\ owed'[c] = Cache!Nothing
        /\ \A d \in Client \ {c} : owed'[d] = owed[d]
        /\ cacheStats' = [keys |-> owed[c].keys, memory |-> cacheStats.memory + owed[c].size]
        /\ data' = data
    BY <1>1, <1>11, OwedFields DEF Cache!CountSet
  <2>4. Cache!Uncounted'[c] = 0 /\ Cache!Uncounted[c] = owed[c].size
    BY <2>1, <2>3, OwedFields DEF Cache!Uncounted
  <2>5. cacheStats' \in [keys : Nat, memory : Nat]
        /\ cacheStats'.memory = cacheStats.memory + owed[c].size
    BY <1>1, <2>2, <2>3
  <2>6. taken' <= cacheStats'.memory + uncounted'
    BY <1>1, <1>2, <1>5, <1>6, <2>2, <2>3, <2>4, <2>5
  <2>7. QED
    BY <1>1, <1>3, <2>3, <2>5, <2>6
<1>12. ASSUME NEW c \in Client, Cache!CountEviction(c) PROVE CacheIInv'
  <2>1. owed[c].op = "remove" /\ owed[c] \in Cache!Owed
    BY <1>1, <1>12 DEF Cache!CountEviction
  <2>2. owed[c].keys \in Nat
    BY <2>1, OwedFields
  <2>3. /\ owed' \in [Client -> Cache!Owed] /\ owed'[c] = Cache!Nothing
        /\ \A d \in Client \ {c} : owed'[d] = owed[d]
        /\ cacheStats' = [cacheStats EXCEPT !.keys = owed[c].keys] /\ data' = data
    BY <1>1, <1>12, OwedFields DEF Cache!CountEviction
  <2>4. Cache!Uncounted'[c] = 0 /\ Cache!Uncounted[c] = 0
    BY <2>1, <2>3, OwedFields DEF Cache!Uncounted
  <2>5. cacheStats' \in [keys : Nat, memory : Nat] /\ cacheStats'.memory = cacheStats.memory
    BY <1>1, <2>2, <2>3
  <2>6. taken' <= cacheStats'.memory + uncounted'
    BY <1>1, <1>2, <1>5, <1>6, <2>3, <2>4, <2>5
  <2>7. QED
    BY <1>1, <1>3, <2>3, <2>5, <2>6
<1>13. ASSUME NEW k \in EntryKey, Cache!Expire(k) PROVE CacheIInv'
  <2>1. data[k] # Absent /\ data[k] \in Entries
    BY <1>1, <1>13 DEF Cache!Expire, Cache!Get
  <2>2. /\ data' \in [EntryKey -> Entries \cup {Absent}] /\ data'[k] \in Entries
        /\ data'[k].size = data[k].size /\ \A j \in EntryKey \ {k} : data'[j] = data[j]
        /\ owed' = owed /\ cacheStats' = cacheStats
    BY <1>1, <1>13, <2>1 DEF Cache!Expire
  <2>3. Cache!Taken'[k] = Cache!Taken[k]
    BY <2>1, <2>2, StoresAssumption DEF Cache!Taken
  <2>4. taken' <= cacheStats'.memory + uncounted'
    BY <1>1, <1>2, <1>4, <1>7, <2>2, <2>3
  <2>5. QED
    BY <1>1, <1>3, <2>2, <2>4
<1>14. QED
  BY <1>8, <1>9, <1>10, <1>11, <1>12, <1>13 DEF Cache!Next

-----------------------------------------------------------------------------
(* The buffers *)

Counters == {"total", "hits", "misses", "current", "peak"}

Asking == {t \in Thread : Buffers!Is(t, "asking")}

BuffersIInv ==
  /\ poolConfig \in {Buffers!Default, Buffers!SimdOptimized, Buffers!LowMemory}
  /\ user \in [Thread -> Buffers!User]
  /\ poolStats = [counter \in Counters |-> poolStats[counter]]
  /\ poolStats.total \in Nat /\ poolStats.hits \in Nat /\ poolStats.misses \in Nat
  /\ poolConfig.track_stats =>
       poolStats.total = poolStats.hits + poolStats.misses + Cardinality(Asking)

\* The size chosen for a capacity is no smaller, up to the largest there is.
LEMMA ForCapacityIsEnough ==
  ASSUME NEW capacity \in Nat
  PROVE  /\ Buffers!ForCapacity(capacity) \in Nat
         /\ capacity <= Buffers!ForCapacity(capacity) \/ capacity > Buffers!Huge
<1> DEFINE enough == {size \in Buffers!BufferSize : capacity <= size}
<1>1. CASE enough = {}
  <2>1. Buffers!ForCapacity(capacity) = Buffers!Huge /\ Buffers!Huge \notin enough
    BY <1>1 DEF Buffers!ForCapacity
  <2>2. QED
    BY <2>1 DEF Buffers!Huge, Buffers!BufferSize
<1>2. CASE enough # {}
  <2>1. Buffers!ForCapacity(capacity) = Buffers!Min(enough)
    BY <1>2 DEF Buffers!ForCapacity
  <2>2. \E x \in enough : \A y \in enough : x <= y
    <3>1. CASE capacity <= 1024
      BY <3>1 DEF Buffers!BufferSize, Buffers!Huge
    <3>2. CASE capacity > 1024 /\ capacity <= 8192
      BY <3>2 DEF Buffers!BufferSize, Buffers!Huge
    <3>3. CASE capacity > 8192 /\ capacity <= 65536
      BY <3>3 DEF Buffers!BufferSize, Buffers!Huge
    <3>4. CASE capacity > 65536 /\ capacity <= 524288
      BY <3>4 DEF Buffers!BufferSize, Buffers!Huge
    <3>5. CASE capacity > 524288
      BY <1>2, <3>5 DEF Buffers!BufferSize, Buffers!Huge
    <3>6. QED
      BY <3>1, <3>2, <3>3, <3>4, <3>5
  <2>3. \A x \in enough : x \in Nat /\ capacity <= x
    BY DEF Buffers!BufferSize, Buffers!Huge
  <2> HIDE DEF enough
  <2>4. Buffers!Min(enough) \in enough
    BY <2>2 DEF Buffers!Min
  <2>5. QED
    BY <2>1, <2>3, <2>4
<1>3. QED
  BY <1>1, <1>2

\* A thread that holds a buffer asked for less than that, or for too much.
LEMMA BuffersAreLargeEnough == BuffersIInv => Buffers!LargeEnough
<1> SUFFICES ASSUME BuffersIInv, NEW t \in Thread, Buffers!Is(t, "holding")
             PROVE  Buffers!Aligned(Buffers!SizeOf(t)) >= user[t].wanted
                    \/ user[t].wanted > Buffers!Huge
  BY DEF Buffers!LargeEnough
<1>1. user[t].wanted \in Nat
  BY StoresAssumption DEF BuffersIInv, Buffers!User, Buffers!Away, Buffers!Is
<1>2. poolConfig.alignment \in {32, 64}
  BY DEF BuffersIInv, Buffers!Default, Buffers!SimdOptimized, Buffers!LowMemory
<1>3. ASSUME NEW n \in Nat PROVE Buffers!Aligned(n) >= n /\ Buffers!Aligned(n) \in Nat
  <2>1. CASE poolConfig.alignment = 32
    BY <2>1 DEF Buffers!Aligned
  <2>2. CASE poolConfig.alignment = 64
    BY <2>2 DEF Buffers!Aligned
  <2>3. QED
    BY <1>2, <2>1, <2>2
<1>4. Buffers!SizeOf(t) \in Nat
      /\ (user[t].wanted <= Buffers!SizeOf(t) \/ user[t].wanted > Buffers!Huge)
  BY <1>1, ForCapacityIsEnough DEF Buffers!SizeOf
<1>5. QED
  BY <1>1, <1>3, <1>4

\* The counts add up as they are stated to.
LEMMA BuffersAddUp == BuffersIInv => Buffers!CountsAddUp
<1>1. \A S : Buffers!Cardinality(S) = Cardinality(S)
  BY Zenon DEF Buffers!Cardinality, Cardinality
<1>2. QED
  BY <1>1 DEF BuffersIInv, Buffers!CountsAddUp, Asking

\* Nobody is asking and no bucket is made.
LEMMA BuffersInit == Buffers!Init => BuffersIInv
<1> SUFFICES ASSUME Buffers!Init PROVE BuffersIInv
  OBVIOUS
<1>1. Asking = {}
  BY DEF Asking, Buffers!Init, Buffers!Is, Buffers!Away
<1>2. Cardinality(Asking) = 0
  BY <1>1, FS_EmptySet
<1>3. /\ poolStats = [counter \in Counters |-> poolStats[counter]]
      /\ poolStats.total = 0 /\ poolStats.hits = 0 /\ poolStats.misses = 0
  BY DEF Buffers!Init, Counters
<1>4. QED
  BY <1>2, <1>3 DEF BuffersIInv, Buffers!Init, Buffers!User

\* An allocation is counted when it is asked for, and once more when it is met.
LEMMA BuffersStep ==
  ASSUME BuffersIInv, Buffers!Next
  PROVE  BuffersIInv'
<1>1. /\ poolConfig \in {Buffers!Default, Buffers!SimdOptimized, Buffers!LowMemory}
      /\ user \in [Thread -> Buffers!User]
      /\ poolStats = [counter \in Counters |-> poolStats[counter]]
      /\ poolStats.total \in Nat /\ poolStats.hits \in Nat /\ poolStats.misses \in Nat
      /\ poolConfig.track_stats =>
           poolStats.total = poolStats.hits + poolStats.misses + Cardinality(Asking)
  BY DEF BuffersIInv
<1>2. IsFiniteSet(Asking) /\ Asking \subseteq Thread /\ Cardinality(Asking) \in Nat
  <2>1. Asking \subseteq Thread
    BY DEF Asking
  <2>2. QED
    BY <2>1, StoresAssumption, FS_Subset, FS_CardinalityType
<1>3. poolConfig' = poolConfig
  BY DEF Buffers!Next, Buffers!Ask, Buffers!Get, Buffers!Return, Buffers!Cleanup, Buffers!Age
<1>4. \A t \in Thread : t \in Asking <=> user[t].at = "asking"
  BY DEF Asking, Buffers!Is
<1>5. \A t \in Thread : (t \in Asking)' <=> user'[t].at = "asking"
  BY DEF Asking, Buffers!Is
<1>6. Asking' \subseteq Thread
  BY DEF Asking
<1>7. ASSUME NEW t \in Thread, NEW wanted \in Capacities, Buffers!Ask(t, wanted)
      PROVE  BuffersIInv'
  <2>1. /\ user[t].at = "away" /\ user' = [user EXCEPT ![t] = [at |-> "asking", wanted |-> wanted]]
        /\ poolStats' = IF poolConfig.track_stats THEN [poolStats EXCEPT !.total = @ + 1] ELSE poolStats
    BY <1>7 DEF Buffers!Ask, Buffers!Is, Buffers!Tracked
  <2>2. user' \in [Thread -> Buffers!User]
    BY <1>1, <2>1 DEF Buffers!User
  <2>3. t \notin Asking /\ Asking' = Asking \cup {t}
    BY <1>1, <1>2, <1>4, <1>5, <1>6, <2>1
  <2>4. Cardinality(Asking') = Cardinality(Asking) + 1
    BY <1>2, <2>3, FS_AddElement
  <2>5. /\ poolStats' = [counter \in Counters |-> poolStats'[counter]]
        /\ poolStats'.hits = poolStats.hits /\ poolStats'.misses = poolStats.misses
        /\ poolStats'.total = IF poolConfig.track_stats THEN poolStats.total + 1 ELSE poolStats.total
    BY <1>1, <1>3, <2>1 DEF Counters
  <2>6. QED
    BY <1>1, <1>2, <1>3, <2>2, <2>4, <2>5 DEF BuffersIInv
<1>8. ASSUME NEW t \in Thread, Buffers!Get(t) PROVE BuffersIInv'
  <2>1. /\ user[t].at = "asking" /\ user' = [user EXCEPT ![t].at = "holding"]
        /\ \/ poolStats' = IF poolConfig.track_stats THEN [poolStats EXCEPT !.hits = @ + 1] ELSE poolStats
           \/ poolStats' = IF poolConfig.track_stats THEN [poolStats EXCEPT !.misses = @ + 1] ELSE poolStats
    BY <1>8 DEF Buffers!Get, Buffers!Is, Buffers!Tracked
  <2>2. user' \in [Thread -> Buffers!User] /\ user'[t].at = "holding"
    BY <1>1, <2>1 DEF Buffers!User, Buffers!Away
  <2>3. t \in Asking /\ Asking' = Asking \ {t}
    BY <1>1, <1>2, <1>4, <1>5, <1>6, <2>1, <2>2
  <2>4. Cardinality(Asking') = Cardinality(Asking) - 1
    BY <1>2, <2>3, FS_RemoveElement
  <2>5. /\ poolStats' = [counter \in Counters |-> poolStats'[counter]]
        /\ poolStats'.total = poolStats.total
        /\ poolStats'.hits \in Nat /\ poolStats'.misses \in Nat
        /\ poolConfig.track_stats =>
             poolStats'.hits + poolStats'.misses = poolStats.hits + poolStats.misses + 1
    BY <1>1, <1>3, <2>1 DEF Counters
  <2>6. QED
    BY <1>1, <1>2, <1>3, <2>2, <2>4, <2>5 DEF BuffersIInv
<1>9. ASSUME NEW t \in Thread, Buffers!Return(t) PROVE BuffersIInv'
  <2>1. /\ user[t].at = "holding" /\ user' = [user EXCEPT ![t] = Buffers!Away]
        /\ poolStats' = poolStats
    BY <1>9 DEF Buffers!Return, Buffers!Is
  <2>2. user' \in [Thread -> Buffers!User] /\ user'[t].at = "away"
    BY <1>1, <2>1 DEF Buffers!User, Buffers!Away
  <2>3. Asking' = Asking
    BY <1>1, <1>2, <1>4, <1>5, <1>6, <2>1, <2>2
  <2>4. QED
    BY <1>1, <1>3, <2>1, <2>2, <2>3 DEF BuffersIInv
<1>10. ASSUME Buffers!Cleanup PROVE BuffersIInv'
  <2>1. user' = user /\ \E current, peak :
          poolStats' = IF poolConfig.track_stats
                       THEN [poolStats EXCEPT !.current = current, !.peak = peak] ELSE poolStats
    BY <1>10, Zenon DEF Buffers!Cleanup, Buffers!Tracked, Buffers!LessMemory
  <2>2. /\ poolStats' = [counter \in Counters |-> poolStats'[counter]]
        /\ poolStats'.total = poolStats.total /\ poolStats'.hits = poolStats.hits
        /\ poolStats'.misses = poolStats.misses
    BY <1>1, <1>3, <2>1 DEF Counters
  <2>3. Asking' = Asking
    BY <2>1 DEF Asking, Buffers!Is
  <2>4. QED
    BY <1>1, <1>3, <2>1, <2>2, <2>3 DEF BuffersIInv
<1>11. ASSUME Buffers!Age PROVE BuffersIInv'
  <2>1. user' = user /\ poolStats' = poolStats
    BY <1>11 DEF Buffers!Age
  <2>2. Asking' = Asking
    BY <2>1 DEF Asking, Buffers!Is
  <2>3. QED
    BY <1>1, <1>3, <2>1, <2>2 DEF BuffersIInv
<1>12. QED
  BY <1>7, <1>8, <1>9, <1>10, <1>11 DEF Buffers!Next

-----------------------------------------------------------------------------
(* The pooled responses *)

HeaderNames  == DOMAIN Headers \cup DOMAIN Responses!SseHeaders
HeaderValues == Responses!ToSet(Headers) \cup Responses!ToSet(Responses!SseHeaders)

\* What is in a header map, and what putting one over another comes to.
LEMMA HeaderMaps ==
  /\ \A f : (/\ f = [name \in DOMAIN f |-> f[name]] /\ DOMAIN f \subseteq HeaderNames
             /\ \A name \in DOMAIN f : f[name] \in HeaderValues) => f \in Responses!HeaderMap
  /\ \A f \in Responses!HeaderMap :
       /\ f = [name \in DOMAIN f |-> f[name]] /\ DOMAIN f \subseteq HeaderNames
       /\ \A name \in DOMAIN f : f[name] \in HeaderValues
<1>1. Responses!HeaderMap = UNION {[names -> HeaderValues] : names \in SUBSET HeaderNames}
  BY DEF Responses!HeaderMap, HeaderNames, HeaderValues
<1> HIDE DEF HeaderNames, HeaderValues
<1>2. ASSUME NEW f, f = [name \in DOMAIN f |-> f[name]], DOMAIN f \subseteq HeaderNames,
             \A name \in DOMAIN f : f[name] \in HeaderValues
      PROVE  f \in Responses!HeaderMap
  <2>1. f \in [DOMAIN f -> HeaderValues]
    BY <1>2
  <2>2. DOMAIN f \in SUBSET HeaderNames
    BY <1>2
  <2>3. QED
    BY <1>1, <2>1, <2>2
<1>3. ASSUME NEW f \in Responses!HeaderMap
      PROVE  /\ f = [name \in DOMAIN f |-> f[name]] /\ DOMAIN f \subseteq HeaderNames
             /\ \A name \in DOMAIN f : f[name] \in HeaderValues
  <2>1. PICK names \in SUBSET HeaderNames : f \in [names -> HeaderValues]
    BY <1>1, <1>3
  <2>2. DOMAIN f = names
    BY <2>1
  <2>3. QED
    BY <2>1, <2>2
<1>4. QED
  BY <1>2, <1>3

\* Maps are put over each other in one order, whichever is put on first; and
\* nothing makes no difference.
LEMMA Layers ==
  /\ \A a, b, c : Responses!Over(a, Responses!Over(b, c)) = Responses!Over(Responses!Over(a, b), c)
  /\ \A a \in Responses!HeaderMap : /\ Responses!Over(<< >>, a) = a
                                    /\ Responses!Over(a, << >>) = a
  /\ \A a, b \in Responses!HeaderMap : Responses!Over(a, b) \in Responses!HeaderMap
<1>1. \A a, b, c : Responses!Over(a, Responses!Over(b, c)) = Responses!Over(Responses!Over(a, b), c)
  BY DEF Responses!Over
<1>2. ASSUME NEW a \in Responses!HeaderMap
      PROVE  Responses!Over(<< >>, a) = a /\ Responses!Over(a, << >>) = a
  <2>1. a = [name \in DOMAIN a |-> a[name]]
    BY HeaderMaps
  <2>2. QED
    BY <2>1 DEF Responses!Over
<1>3. ASSUME NEW a \in Responses!HeaderMap, NEW b \in Responses!HeaderMap
      PROVE  Responses!Over(a, b) \in Responses!HeaderMap
  <2> DEFINE f == Responses!Over(a, b)
  <2>1. f = [name \in DOMAIN f |-> f[name]] /\ DOMAIN f = DOMAIN a \cup DOMAIN b
    BY DEF Responses!Over
  <2>2. \A name \in DOMAIN f : \/ f[name] = a[name] /\ name \in DOMAIN a
                               \/ f[name] = b[name] /\ name \in DOMAIN b
    <3>1. \A name \in DOMAIN f : f[name] = IF name \in DOMAIN a THEN a[name] ELSE b[name]
      BY DEF Responses!Over
    <3> HIDE DEF f
    <3>2. QED
      BY <2>1, <3>1
  <2> HIDE DEF f
  <2>3. /\ DOMAIN a \subseteq HeaderNames /\ DOMAIN b \subseteq HeaderNames
        /\ \A name \in DOMAIN a : a[name] \in HeaderValues
        /\ \A name \in DOMAIN b : b[name] \in HeaderValues
    BY HeaderMaps
  <2>4. DOMAIN f \subseteq HeaderNames /\ \A name \in DOMAIN f : f[name] \in HeaderValues
    BY <2>1, <2>2, <2>3
  <2>5. f \in Responses!HeaderMap
    BY <2>1, <2>4, HeaderMaps
  <2>6. QED
    BY <2>5 DEF f
<1>4. QED
  BY <1>1, <1>2, <1>3

\* What maps are made of are maps.
LEMMA SomeHeaderMaps ==
  /\ << >> \in Responses!HeaderMap /\ Responses!SseHeaders \in Responses!HeaderMap
  /\ \A name \in DOMAIN Headers :
       Responses!Entry(name, Headers[name]) \in Responses!HeaderMap
<1>1. << >> \in Responses!HeaderMap
  <2>1. << >> = [name \in DOMAIN << >> |-> << >>[name]] /\ DOMAIN << >> = {}
    OBVIOUS
  <2>2. QED
    BY <2>1, HeaderMaps
<1>2. Responses!SseHeaders \in Responses!HeaderMap
  <2>1. Responses!SseHeaders = [name \in DOMAIN Responses!SseHeaders |-> Responses!SseHeaders[name]]
    BY DEF Responses!SseHeaders, Responses!Over
  <2>2. DOMAIN Responses!SseHeaders \subseteq HeaderNames
    BY DEF HeaderNames
  <2>3. \A name \in DOMAIN Responses!SseHeaders : Responses!SseHeaders[name] \in HeaderValues
    BY DEF HeaderValues, Responses!ToSet
  <2>4. QED
    BY <2>1, <2>2, <2>3, HeaderMaps
<1>3. ASSUME NEW name \in DOMAIN Headers
      PROVE  Responses!Entry(name, Headers[name]) \in Responses!HeaderMap
  <2> DEFINE f == Responses!Entry(name, Headers[name])
  <2>1. f = [n \in DOMAIN f |-> f[n]] /\ DOMAIN f = {name} /\ f[name] = Headers[name]
    BY DEF Responses!Entry
  <2>2. name \in HeaderNames /\ Headers[name] \in HeaderValues
    BY DEF HeaderNames, HeaderValues, Responses!ToSet
  <2> HIDE DEF f
  <2>3. DOMAIN f \subseteq HeaderNames /\ \A n \in DOMAIN f : f[n] \in HeaderValues
    BY <2>1, <2>2
  <2>4. f \in Responses!HeaderMap
    BY <2>1, <2>3, HeaderMaps
  <2>5. QED
    BY <2>4 DEF f
<1>4. QED
  BY <1>1, <1>2, <1>3

-----------------------------------------------------------------------------
(* What a body says *)

\* What two sequences come to, one after the other.
LEMMA Concatenated ==
  ASSUME NEW V, NEW s \in Seq(V), NEW e \in Seq(V)
  PROVE  /\ s \o e \in Seq(V) /\ Len(s \o e) = Len(s) + Len(e)
         /\ \A j \in 1 .. Len(s) : (s \o e)[j] = s[j]
         /\ \A j \in 1 .. Len(e) : (s \o e)[Len(s) + j] = e[j]
<1>1. s \o e \in Seq(V) /\ Len(s \o e) = Len(s) + Len(e)
  OBVIOUS
<1>2. ASSUME NEW j \in 1 .. Len(s) PROVE (s \o e)[j] = s[j]
  OBVIOUS
<1>3. ASSUME NEW j \in 1 .. Len(e) PROVE (s \o e)[Len(s) + j] = e[j]
  OBVIOUS
<1>4. QED
  BY <1>1, <1>2, <1>3

\* One piece of text for each item is the text.
LEMMA LinesFlatten ==
  ASSUME NEW V, NEW fs \in Seq(V)
  PROVE  FlattenSeq([i \in DOMAIN fs |-> << fs[i] >>]) = fs
<1> DEFINE n     == Len(fs)
           lines == [i \in 1 .. n |-> << fs[i] >>]
           Good  == {p \in Nat \X Seq(V) :
                       Len(p[2]) = p[1] /\ \A i \in 1 .. p[1] : p[2][i] = fs[i]}
<1>1. lines \in Seq(Seq(V)) /\ Len(lines) = n
  OBVIOUS
<1>2. << 0, << >> >> \in Good
  <2> DEFINE none == << >>
  <2>1. none \in Seq(V) /\ Len(none) = 0 /\ 0 \in Nat /\ \A i \in 1 .. 0 : FALSE
    OBVIOUS
  <2> HIDE DEF none
  <2>2. << 0, none >> \in Good
    BY <2>1
  <2>3. QED
    BY <2>2 DEF none
<1>3. ASSUME NEW k \in 0 .. n - 1, NEW s \in Seq(V), << k, s >> \in Good
      PROVE  << k + 1, s \o lines[k + 1] >> \in Good
  <2>1. k + 1 \in 1 .. n /\ lines[k + 1] = << fs[k + 1] >> /\ fs[k + 1] \in V
    OBVIOUS
  <2>2. Len(s) = k /\ \A i \in 1 .. k : s[i] = fs[i]
    BY <1>3
  <2> DEFINE r == s \o << fs[k + 1] >>
  <2>3. r \in Seq(V) /\ Len(r) = k + 1 /\ r[k + 1] = fs[k + 1]
        /\ \A i \in 1 .. k : r[i] = s[i]
    BY <2>1, <2>2
  <2> HIDE DEF r
  <2>4. \A i \in 1 .. k + 1 : r[i] = fs[i]
    BY <2>2, <2>3
  <2>5. << k + 1, r >> \in Good
    BY <2>3, <2>4
  <2>6. QED
    BY <2>1, <2>5 DEF r
<1> HIDE DEF Good, lines
<1>4. FlattenSeq(lines) \in Seq(V) /\ << n, FlattenSeq(lines) >> \in Good
  <2>1. \A k \in 0 .. Len(lines) - 1 : \A s \in Seq(V) :
          << k, s >> \in Good => << k + 1, s \o lines[k + 1] >> \in Good
    BY <1>1, <1>3
  <2>2. QED
    BY <1>1, <1>2, <2>1, FlattenInduction
<1>5. FlattenSeq(lines) = fs
  BY <1>4 DEF Good
<1>6. QED
  BY <1>5 DEF lines

\* One text is what it is.
LEMMA OneFlattens ==
  ASSUME NEW V, NEW text \in Seq(V)
  PROVE  FlattenSeq(<< text >>) = text
<1> DEFINE Good == {<< 0, << >> >>, << 1, text >>}
<1>1. << text >> \in Seq(Seq(V)) /\ Len(<< text >>) = 1 /\ << text >>[1] = text
  OBVIOUS
<1>2. << 0, << >> >> \in Good
  OBVIOUS
<1>3. ASSUME NEW k \in 0 .. 0, NEW s \in Seq(V), << k, s >> \in Good
      PROVE  << k + 1, s \o << text >>[k + 1] >> \in Good
  <2>1. k = 0 /\ s = << >> /\ s \o text = text
    BY <1>3
  <2>2. QED
    BY <1>1, <2>1
<1> HIDE DEF Good
<1>4. << 1, FlattenSeq(<< text >>) >> \in Good
  <2>1. \A k \in 0 .. Len(<< text >>) - 1 : \A s \in Seq(V) :
          << k, s >> \in Good => << k + 1, s \o << text >>[k + 1] >> \in Good
    <3>1. Len(<< text >>) - 1 = 0
      BY <1>1
    <3>2. QED
      BY <1>3, <3>1, Zenon
  <2>2. QED
    BY <1>1, <1>2, <2>1, FlattenInduction
<1>5. QED
  BY <1>4 DEF Good

\* A frame between a beginning and an end, one after the other
LEMMA EventsFlatten ==
  ASSUME NEW V, NEW fs \in Seq(V), NEW before \in V, NEW after \in V
  PROVE  LET text == FlattenSeq([i \in DOMAIN fs |-> << before, fs[i], after >>])
         IN  /\ text \in Seq(V) /\ Len(text) = 3 * Len(fs)
             /\ \A i \in 1 .. Len(fs) :
                  text[3 * i - 2] = before /\ text[3 * i - 1] = fs[i] /\ text[3 * i] = after
<1> DEFINE n     == Len(fs)
           Event(i) == << before, fs[i], after >>
           lines == [i \in 1 .. n |-> Event(i)]
           Holds(m, r) == /\ Len(r) = 3 * m
                          /\ \A i \in 1 .. m : /\ r[3 * i - 2] = before
                                               /\ r[3 * i - 1] = fs[i]
                                               /\ r[3 * i] = after
           Good  == {p \in Nat \X Seq(V) : Holds(p[1], p[2])}
<1>1. /\ \A i \in 1 .. n : Event(i) \in Seq(V) /\ Len(Event(i)) = 3 /\ Event(i)[1] = before
                           /\ Event(i)[2] = fs[i] /\ Event(i)[3] = after
      /\ n \in Nat /\ DOMAIN fs = 1 .. n
  OBVIOUS
<1> HIDE DEF Event
<1>2. lines \in Seq(Seq(V)) /\ Len(lines) = n /\ \A i \in 1 .. n : lines[i] = Event(i)
  BY <1>1
<1>3. << 0, << >> >> \in Good
  <2> DEFINE none == << >>
  <2>1. none \in Seq(V) /\ Len(none) = 0 /\ 0 \in Nat /\ \A i \in 1 .. 0 : FALSE
    OBVIOUS
  <2> HIDE DEF none
  <2>2. Holds(0, none)
    BY <2>1
  <2> HIDE DEF Holds
  <2>3. << 0, none >> \in Good
    BY <2>1, <2>2
  <2>4. QED
    BY <2>3 DEF none
<1>4. ASSUME NEW k \in 0 .. n - 1, NEW s \in Seq(V), << k, s >> \in Good
      PROVE  << k + 1, s \o lines[k + 1] >> \in Good
  <2>1. /\ k + 1 \in 1 .. n /\ Len(s) = 3 * k
        /\ \A i \in 1 .. k : s[3 * i - 2] = before /\ s[3 * i - 1] = fs[i] /\ s[3 * i] = after
    BY <1>4
  <2> DEFINE r == s \o Event(k + 1)
  <2>2. /\ r \in Seq(V) /\ Len(r) = 3 * k + 3
        /\ \A j \in 1 .. 3 * k : r[j] = s[j]
        /\ r[3 * k + 1] = before /\ r[3 * k + 2] = fs[k + 1] /\ r[3 * k + 3] = after
    <3> DEFINE e == Event(k + 1)
               m == 3 * k
    <3>1. /\ e \in Seq(V) /\ Len(e) = 3 /\ e[1] = before /\ e[2] = fs[k + 1] /\ e[3] = after
          /\ s \in Seq(V) /\ Len(s) = m /\ m \in Nat
      BY <1>1, <2>1
    <3> HIDE DEF e, m
    <3>2. s \o e \in Seq(V) /\ Len(s \o e) = m + 3
      <4>1. s \o e \in Seq(V) /\ Len(s \o e) = Len(s) + Len(e)
        BY <3>1, Concatenated, Zenon
      <4>2. QED
        BY <3>1, <4>1
    <3>3. \A j \in 1 .. m : (s \o e)[j] = s[j]
      BY <3>1, Concatenated
    <3>4. /\ (s \o e)[m + 1] = before /\ (s \o e)[m + 2] = fs[k + 1]
          /\ (s \o e)[m + 3] = after
      <4>1. 1 \in 1 .. Len(e) /\ 2 \in 1 .. Len(e) /\ 3 \in 1 .. Len(e)
        BY <3>1
      <4>2. /\ (s \o e)[Len(s) + 1] = e[1] /\ (s \o e)[Len(s) + 2] = e[2]
            /\ (s \o e)[Len(s) + 3] = e[3]
        BY <3>1, <4>1, Concatenated
      <4>3. QED
        BY <3>1, <4>2
    <3>5. QED
      BY <3>2, <3>3, <3>4 DEF e, m
  <2> HIDE DEF r
  <2>3. \A i \in 1 .. k + 1 :
          r[3 * i - 2] = before /\ r[3 * i - 1] = fs[i] /\ r[3 * i] = after
    <3> TAKE i \in 1 .. k + 1
    <3>1. CASE i = k + 1
      <4>1. 3 * i - 2 = 3 * k + 1 /\ 3 * i - 1 = 3 * k + 2 /\ 3 * i = 3 * k + 3
        BY <3>1
      <4>2. QED
        BY <3>1, <4>1, <2>2
    <3>2. CASE i # k + 1
      <4>1. i \in 1 .. k /\ 3 * i - 2 \in 1 .. 3 * k /\ 3 * i - 1 \in 1 .. 3 * k /\ 3 * i \in 1 .. 3 * k
        BY <3>2
      <4>2. QED
        BY <4>1, <2>1, <2>2
    <3>3. QED
      BY <3>1, <3>2
  <2>4. << k + 1, r >> \in Good
    BY <2>2, <2>3
  <2>5. QED
    BY <1>2, <2>1, <2>4 DEF r
<1> HIDE DEF Good, lines
<1>5. FlattenSeq(lines) \in Seq(V) /\ << n, FlattenSeq(lines) >> \in Good
  <2>1. \A k \in 0 .. Len(lines) - 1 : \A s \in Seq(V) :
          << k, s >> \in Good => << k + 1, s \o lines[k + 1] >> \in Good
    BY <1>2, <1>4
  <2>2. QED
    BY <1>2, <1>3, <2>1, FlattenInduction
<1>6. lines = [i \in DOMAIN fs |-> << before, fs[i], after >>]
  BY <1>1, Zenon DEF lines, Event
<1>7. Len(FlattenSeq(lines)) = 3 * n /\ \A i \in 1 .. n :
        /\ FlattenSeq(lines)[3 * i - 2] = before /\ FlattenSeq(lines)[3 * i - 1] = fs[i]
        /\ FlattenSeq(lines)[3 * i] = after
  BY <1>5 DEF Good
<1>8. QED
  BY <1>5, <1>6, <1>7

-----------------------------------------------------------------------------
(* The objects of the pools *)

Content    == Responses!HeaderMap \cup Seq(EventData)
PoolStats  == [created : Nat, reused : Nat, returned : Nat, size : Nat, peak : Nat]
Holders(p) == {t \in Client : work[t] # Absent /\ p \in work[t].pooled}

BaseOf(builder) == IF builder.type = Responses!Sse THEN Responses!SseHeaders ELSE << >>

\* A builder holds what was put in, over the headers of its type.
IsOnesOwn(builder, putIn) ==
  /\ builder.headers = Responses!Over(putIn.headers, BaseOf(builder))
  /\ "events" \in DOMAIN builder => builder.events = putIn.events

\* Where the objects of a pool are, by its statistics
Balanced(p) ==
  LET s == responseStats[p]
  IN  /\ s.created = Len(pools[p]) + Cardinality(Holders(p)) + given[p] + thrown[p]
      /\ s.size = Len(pools[p]) /\ s.returned = s.reused + s.size
      /\ s.returned <= abandoned /\ s.peak = s.created

Says(a) ==
  a.response # Absent =>
    /\ DOMAIN a.response.headers
         \subseteq DOMAIN Responses!SseHeaders \cup {"X-PJS-Session-ID"}
    /\ ~a.refused => Responses!Frames(a.response) = a.frames

ResponsesTyped ==
  /\ pools \in [Responses!Pool -> Seq(Content)]
  /\ responseStats \in [Responses!Pool -> PoolStats]
  /\ work \in [Client -> Responses!Builder \cup {Absent}]
  /\ DOMAIN put = Client
  /\ \A t \in Client : put[t] = [headers |-> put[t].headers, events |-> put[t].events]
  /\ given \in [Responses!Pool -> Nat] /\ thrown \in [Responses!Pool -> Nat]
  /\ abandoned \in Nat

ResponsesIInv ==
  /\ ResponsesTyped
  /\ \A p \in Responses!Pool : Balanced(p)
  /\ \A t \in Client : work[t] # Absent => IsOnesOwn(work[t], put[t])
  /\ Says(answer)

\* The fields of a builder.
LEMMA BuilderFields ==
  \A b \in Responses!Builder :
    /\ b.headers \in Responses!HeaderMap
    /\ \/ DOMAIN b = {"pooled", "type", "headers"} /\ b.pooled = {"map"}
            /\ b.type = Responses!Json
       \/ DOMAIN b = {"pooled", "type", "headers", "events"} /\ b.pooled = Responses!Pool
            /\ b.type = Responses!Sse /\ b.events \in Seq(EventData)
<1> DEFINE Plain  == [pooled : {{"map"}}, type : {Responses!Json}, headers : Responses!HeaderMap]
           Evented == [pooled : {Responses!Pool}, type : {Responses!Sse},
                       headers : Responses!HeaderMap, events : Seq(EventData)]
<1>1. ASSUME NEW b \in Plain
      PROVE  DOMAIN b = {"pooled", "type", "headers"} /\ b.pooled = {"map"}
             /\ b.type = Responses!Json /\ b.headers \in Responses!HeaderMap
  OBVIOUS
<1>2. ASSUME NEW b \in Evented
      PROVE  DOMAIN b = {"pooled", "type", "headers", "events"} /\ b.pooled = Responses!Pool
             /\ b.type = Responses!Sse /\ b.headers \in Responses!HeaderMap
             /\ b.events \in Seq(EventData)
  OBVIOUS
<1>3. Responses!Builder = Plain \cup Evented
  BY DEF Responses!Builder
<1> HIDE DEF Plain, Evented
<1>4. QED
  BY <1>1, <1>2, <1>3

\* When one thread is at work with something else, no other is counted anew.
LEMMA HoldersChange ==
  ASSUME NEW p, NEW t \in Client, \A u \in Client \ {t} : work'[u] = work[u]
  PROVE  /\ Cardinality(Holders(p)) \in Nat /\ Cardinality(Holders(p)') \in Nat
         /\ t \in Holders(p) /\ t \in Holders(p)' =>
              Cardinality(Holders(p)') = Cardinality(Holders(p))
         /\ t \notin Holders(p) /\ t \notin Holders(p)' =>
              Cardinality(Holders(p)') = Cardinality(Holders(p))
         /\ t \in Holders(p) /\ t \notin Holders(p)' =>
              Cardinality(Holders(p)') = Cardinality(Holders(p)) - 1
         /\ t \notin Holders(p) /\ t \in Holders(p)' =>
              Cardinality(Holders(p)') = Cardinality(Holders(p)) + 1
<1> DEFINE H == Holders(p)
           K == Holders(p)'
<1>1. H \subseteq Client /\ K \subseteq Client
  BY DEF Holders
<1>2. \A u \in Client \ {t} : u \in H <=> u \in K
  BY DEF Holders
<1> HIDE DEF H, K
<1>3. IsFiniteSet(H) /\ IsFiniteSet(K) /\ Cardinality(H) \in Nat /\ Cardinality(K) \in Nat
  BY <1>1, StoresAssumption, FS_Subset, FS_CardinalityType
<1>4. CASE t \in H <=> t \in K
  <2>1. H = K
    BY <1>1, <1>2, <1>4
  <2>2. QED
    BY <1>3, <1>4, <2>1 DEF H, K
<1>5. CASE t \in H /\ t \notin K
  <2>1. K = H \ {t}
    BY <1>1, <1>2, <1>5
  <2>2. Cardinality(K) = Cardinality(H) - 1
    BY <1>3, <1>5, <2>1, FS_RemoveElement
  <2>3. QED
    BY <1>3, <1>5, <2>2 DEF H, K
<1>6. CASE t \notin H /\ t \in K
  <2>1. K = H \cup {t}
    BY <1>1, <1>2, <1>6
  <2>2. Cardinality(K) = Cardinality(H) + 1
    BY <1>3, <1>6, <2>1, FS_AddElement
  <2>3. QED
    BY <1>3, <1>6, <2>2 DEF H, K
<1>7. QED
  BY <1>4, <1>5, <1>6

\* An object is handed out empty, whatever it was used for.
LEMMA ObtainedIsEmpty == \A p : Responses!Obtained(p) = << >>
BY DEF Responses!Obtained, Responses!Cleaned

\* What happens to statistics: an object is taken, made, or given back.
Taking(s)    == [s EXCEPT !.reused = @ + 1, !.size = @ - 1]
Making(s, n) == [s EXCEPT !.created = @ + 1, !.peak = n]
Giving(s)    == [s EXCEPT !.returned = @ + 1, !.size = @ + 1]

\* Statistics are what their counters are.
LEMMA StatsChange ==
  ASSUME NEW s \in PoolStats, NEW n
  PROVE  /\ s.created \in Nat /\ s.reused \in Nat /\ s.returned \in Nat /\ s.size \in Nat
         /\ s.peak \in Nat
         /\ Taking(s) = [created |-> s.created, reused |-> s.reused + 1, returned |-> s.returned,
                         size |-> s.size - 1, peak |-> s.peak]
         /\ Making(s, n) = [created |-> s.created + 1, reused |-> s.reused,
                            returned |-> s.returned, size |-> s.size, peak |-> n]
         /\ Giving(s) = [created |-> s.created, reused |-> s.reused, returned |-> s.returned + 1,
                         size |-> s.size + 1, peak |-> s.peak]
<1>1. /\ s.created \in Nat /\ s.reused \in Nat /\ s.returned \in Nat /\ s.size \in Nat
      /\ s.peak \in Nat
      /\ s = [created |-> s.created, reused |-> s.reused, returned |-> s.returned,
              size |-> s.size, peak |-> s.peak]
  BY DEF PoolStats
<1>2. Taking(s) = [created |-> s.created, reused |-> s.reused + 1, returned |-> s.returned, size |-> s.size - 1, peak |-> s.peak]
  <2> DEFINE r == [s EXCEPT !.reused = s.reused + 1]
  <2>1. r = [created |-> s.created, reused |-> s.reused + 1, returned |-> s.returned, size |-> s.size, peak |-> s.peak] /\ r.size = s.size /\ r.peak = s.peak
    BY <1>1
  <2> HIDE DEF r
  <2>2. [r EXCEPT !.size = s.size - 1] = [created |-> s.created, reused |-> s.reused + 1, returned |-> s.returned, size |-> s.size - 1, peak |-> s.peak]
    BY <2>1
  <2>3. Taking(s) = [r EXCEPT !.size = s.size - 1]
    BY <2>1, Zenon DEF r, Taking
  <2>4. QED
    BY <2>2, <2>3
<1>3. Making(s, n) = [created |-> s.created + 1, reused |-> s.reused, returned |-> s.returned, size |-> s.size, peak |-> n]
  <2> DEFINE r == [s EXCEPT !.created = s.created + 1]
  <2>1. r = [created |-> s.created + 1, reused |-> s.reused, returned |-> s.returned, size |-> s.size, peak |-> s.peak] /\ r.size = s.size /\ r.peak = s.peak
    BY <1>1
  <2> HIDE DEF r
  <2>2. [r EXCEPT !.peak = n] = [created |-> s.created + 1, reused |-> s.reused, returned |-> s.returned, size |-> s.size, peak |-> n]
    BY <2>1
  <2>3. Making(s, n) = [r EXCEPT !.peak = n]
    BY <2>1, Zenon DEF r, Making
  <2>4. QED
    BY <2>2, <2>3
<1>4. Giving(s) = [created |-> s.created, reused |-> s.reused, returned |-> s.returned + 1, size |-> s.size + 1, peak |-> s.peak]
  <2> DEFINE r == [s EXCEPT !.returned = s.returned + 1]
  <2>1. r = [created |-> s.created, reused |-> s.reused, returned |-> s.returned + 1, size |-> s.size, peak |-> s.peak] /\ r.size = s.size /\ r.peak = s.peak
    BY <1>1
  <2> HIDE DEF r
  <2>2. [r EXCEPT !.size = s.size + 1] = [created |-> s.created, reused |-> s.reused, returned |-> s.returned + 1, size |-> s.size + 1, peak |-> s.peak]
    BY <2>1
  <2>3. Giving(s) = [r EXCEPT !.size = s.size + 1]
    BY <2>1, Zenon DEF r, Giving
  <2>4. QED
    BY <2>2, <2>3
<1>5. QED
  BY <1>1, <1>2, <1>3, <1>4, Zenon

\* What is taken from a pool was there, or is made.
LEMMA Getting ==
  ASSUME ResponsesTyped, \A p \in Responses!Pool : Balanced(p),
         NEW ps \in SUBSET Responses!Pool, Responses!Get(ps)
  PROVE  /\ pools' \in [Responses!Pool -> Seq(Content)]
         /\ responseStats' \in [Responses!Pool -> PoolStats]
         /\ \A p \in Responses!Pool \ ps : pools'[p] = pools[p] /\ responseStats'[p] = responseStats[p]
         /\ \A p \in ps :
              LET s == responseStats'[p]
              IN  /\ s.created + Len(pools[p]) = responseStats[p].created + Len(pools'[p]) + 1
                  /\ s.size = Len(pools'[p]) /\ s.returned = s.reused + s.size
                  /\ s.returned = responseStats[p].returned /\ s.peak = s.created
<1>1. ASSUME NEW p \in Responses!Pool, p \notin ps
      PROVE  pools'[p] = pools[p] /\ responseStats'[p] = responseStats[p]
  BY <1>1 DEF Responses!Get
<1>2. ASSUME NEW p \in ps
      PROVE  /\ pools'[p] \in Seq(Content) /\ responseStats'[p] \in PoolStats
             /\ responseStats'[p].created + Len(pools[p])
                  = responseStats[p].created + Len(pools'[p]) + 1
             /\ responseStats'[p].size = Len(pools'[p])
             /\ responseStats'[p].returned = responseStats'[p].reused + responseStats'[p].size
             /\ responseStats'[p].returned = responseStats[p].returned
             /\ responseStats'[p].peak = responseStats'[p].created
  <2>1. p \in Responses!Pool /\ pools[p] \in Seq(Content) /\ responseStats[p] \in PoolStats
    BY DEF ResponsesTyped
  <2>2. /\ responseStats[p].size = Len(pools[p]) /\ responseStats[p].peak = responseStats[p].created
        /\ responseStats[p].returned = responseStats[p].reused + responseStats[p].size
    BY <2>1 DEF Balanced
  <2>3. CASE pools[p] # << >>
    <3>1. pools'[p] = Tail(pools[p]) /\ responseStats'[p] = Taking(responseStats[p])
      BY <1>2, <2>1, <2>3, Zenon DEF Responses!Get, Taking
    <3>2. Tail(pools[p]) \in Seq(Content) /\ Len(Tail(pools[p])) = Len(pools[p]) - 1
          /\ Len(pools[p]) \in Nat \ {0}
      BY <2>1, <2>3
    <3> DEFINE old == responseStats[p]
    <3>3. old.created \in Nat /\ old.reused \in Nat /\ old.returned \in Nat /\ old.size \in Nat
          /\ old.peak \in Nat
      BY <2>1, StatsChange, Zenon
    <3>4. old.reused + 1 \in Nat /\ old.size - 1 \in Nat
      BY <2>2, <3>2, <3>3
    <3>5. responseStats'[p] = [created |-> old.created, reused |-> old.reused + 1,
                               returned |-> old.returned, size |-> old.size - 1,
                               peak |-> old.peak]
      BY <2>1, <3>1, StatsChange, Zenon
    <3> HIDE DEF old
    <3>6. responseStats'[p] \in PoolStats
      BY <3>3, <3>4, <3>5 DEF PoolStats
    <3>7. QED
      BY <2>2, <3>1, <3>2, <3>3, <3>5, <3>6 DEF old
  <2>4. CASE pools[p] = << >>
    <3>1. pools'[p] = pools[p] /\ responseStats'[p] = Making(responseStats[p],
            Responses!Larger(responseStats[p].peak,
                             responseStats[p].created + 1 - responseStats[p].size))
      <4> DEFINE r == [responseStats[p] EXCEPT !.created = @ + 1]
      <4>1. r.peak = responseStats[p].peak
        BY <2>1 DEF PoolStats
      <4> HIDE DEF r
      <4>2. QED
        BY <1>2, <2>1, <2>4, <4>1, Zenon DEF Responses!Get, Making, r
    <3>2. responseStats[p].size = 0 /\ Len(pools[p]) = 0
      BY <2>2, <2>4
    <3>3. responseStats[p].created \in Nat
          /\ Responses!Larger(responseStats[p].peak,
                 responseStats[p].created + 1 - responseStats[p].size) = responseStats[p].created + 1
      BY <2>1, <2>2, <3>2 DEF PoolStats, Responses!Larger
    <3> DEFINE old == responseStats[p]
    <3>4. old.created \in Nat /\ old.reused \in Nat /\ old.returned \in Nat /\ old.size \in Nat
      BY <2>1, StatsChange, Zenon
    <3>5. responseStats'[p] = [created |-> old.created + 1, reused |-> old.reused,
                               returned |-> old.returned, size |-> old.size,
                               peak |-> old.created + 1]
      BY <2>1, <3>1, <3>3, StatsChange, Zenon
    <3> HIDE DEF old
    <3>6. responseStats'[p] \in PoolStats
      BY <3>4, <3>5 DEF PoolStats
    <3>7. /\ responseStats'[p].created = old.created + 1 /\ responseStats'[p].size = old.size
          /\ responseStats'[p].returned = old.returned /\ responseStats'[p].reused = old.reused
          /\ responseStats'[p].peak = old.created + 1
      BY <3>5
    <3>8. Len(pools'[p]) = 0 /\ pools'[p] \in Seq(Content)
      BY <2>1, <2>4, <3>1, <3>2
    <3>9. QED
      BY <2>2, <3>2, <3>4, <3>6, <3>7, <3>8 DEF old
  <2>5. QED
    BY <2>3, <2>4
<1>3. \A p \in Responses!Pool : pools'[p] \in Seq(Content) /\ responseStats'[p] \in PoolStats
  BY <1>1, <1>2 DEF ResponsesTyped
<1>4. pools' = [p \in Responses!Pool |-> pools'[p]]
      /\ responseStats' = [p \in Responses!Pool |-> responseStats'[p]]
  BY DEF Responses!Get
<1>5. QED
  BY <1>1, <1>2, <1>3, <1>4

\* What is given back is in the pool again, or there was no room.
LEMMA Returning ==
  ASSUME ResponsesTyped, \A p \in Responses!Pool : Balanced(p),
         NEW contents, DOMAIN contents \subseteq Responses!Pool,
         \A p \in DOMAIN contents : contents[p] \in Content, Responses!Return(contents)
  PROVE  /\ pools' \in [Responses!Pool -> Seq(Content)]
         /\ responseStats' \in [Responses!Pool -> PoolStats]
         /\ thrown' \in [Responses!Pool -> Nat]
         /\ \A p \in Responses!Pool \ DOMAIN contents :
              /\ pools'[p] = pools[p] /\ responseStats'[p] = responseStats[p]
              /\ thrown'[p] = thrown[p]
         /\ \A p \in DOMAIN contents :
              LET s == responseStats'[p]
              IN  /\ s.created = responseStats[p].created
                  /\ Len(pools'[p]) + thrown'[p] = Len(pools[p]) + thrown[p] + 1
                  /\ s.size = Len(pools'[p]) /\ s.returned = s.reused + s.size
                  /\ s.returned <= responseStats[p].returned + 1 /\ s.peak = s.created
<1> DEFINE back == {p \in DOMAIN contents : Len(pools[p]) < PoolCapacity}
<1>1. \A p \in Responses!Pool :
        /\ pools'[p] = IF p \in back THEN Append(pools[p], contents[p]) ELSE pools[p]
        /\ responseStats'[p] = IF p \in back THEN Giving(responseStats[p]) ELSE responseStats[p]
        /\ thrown'[p] = thrown[p] + (IF p \in DOMAIN contents \ back THEN 1 ELSE 0)
  <2> TAKE p \in Responses!Pool
  <2>1. pools'[p] = IF p \in back THEN Append(pools[p], contents[p]) ELSE pools[p]
    BY DEF Responses!Return
  <2>2. thrown'[p] = thrown[p] + (IF p \in DOMAIN contents \ back THEN 1 ELSE 0)
    BY DEF Responses!Return
  <2>3. responseStats'[p] = IF p \in back
          THEN [responseStats[p] EXCEPT !.returned = @ + 1, !.size = @ + 1] ELSE responseStats[p]
    BY Zenon DEF Responses!Return
  <2>4. QED
    BY <2>1, <2>2, <2>3, Zenon DEF Giving
<1>2. pools' = [p \in Responses!Pool |-> pools'[p]] /\ thrown' = [p \in Responses!Pool |-> thrown'[p]]
      /\ responseStats' = [p \in Responses!Pool |-> responseStats'[p]]
  BY DEF Responses!Return
<1>3. back \subseteq DOMAIN contents
  OBVIOUS
<1> HIDE DEF back
<1>4. ASSUME NEW p \in Responses!Pool, p \notin DOMAIN contents
      PROVE  /\ pools'[p] = pools[p] /\ responseStats'[p] = responseStats[p]
             /\ thrown'[p] = thrown[p]
  <2>1. thrown[p] \in Nat
    BY DEF ResponsesTyped
  <2>2. QED
    BY <1>1, <1>3, <1>4, <2>1
<1>5. ASSUME NEW p \in DOMAIN contents
      PROVE  /\ pools'[p] \in Seq(Content) /\ responseStats'[p] \in PoolStats
             /\ thrown'[p] \in Nat
             /\ responseStats'[p].created = responseStats[p].created
             /\ Len(pools'[p]) + thrown'[p] = Len(pools[p]) + thrown[p] + 1
             /\ responseStats'[p].size = Len(pools'[p])
             /\ responseStats'[p].returned = responseStats'[p].reused + responseStats'[p].size
             /\ responseStats'[p].returned <= responseStats[p].returned + 1
             /\ responseStats'[p].peak = responseStats'[p].created
  <2> DEFINE old == responseStats[p]
  <2>1. /\ p \in Responses!Pool /\ pools[p] \in Seq(Content) /\ old \in PoolStats
        /\ thrown[p] \in Nat /\ contents[p] \in Content
    BY DEF ResponsesTyped
  <2>2. old.created \in Nat /\ old.reused \in Nat /\ old.returned \in Nat /\ old.size \in Nat
        /\ old.peak \in Nat
    BY <2>1, StatsChange, Zenon
  <2>3. /\ old.size = Len(pools[p]) /\ old.peak = old.created
        /\ old.returned = old.reused + old.size
    BY <2>1 DEF Balanced
  <2>4. CASE p \in back
    <3>1. pools'[p] = Append(pools[p], contents[p]) /\ responseStats'[p] = Giving(old)
          /\ thrown'[p] = thrown[p] + 0
      BY <1>1, <2>1, <2>4
    <3>2. responseStats'[p] = [created |-> old.created, reused |-> old.reused,
                               returned |-> old.returned + 1, size |-> old.size + 1,
                               peak |-> old.peak]
      BY <2>1, <3>1, StatsChange, Zenon
    <3> HIDE DEF old
    <3>3. responseStats'[p] \in PoolStats
      BY <2>2, <3>2 DEF PoolStats
    <3>4. /\ responseStats'[p].created = old.created /\ responseStats'[p].reused = old.reused
          /\ responseStats'[p].returned = old.returned + 1
          /\ responseStats'[p].size = old.size + 1 /\ responseStats'[p].peak = old.peak
      BY <3>2
    <3>5. pools'[p] \in Seq(Content) /\ Len(pools'[p]) = Len(pools[p]) + 1 /\ Len(pools[p]) \in Nat
      BY <2>1, <3>1
    <3>6. thrown'[p] \in Nat /\ Len(pools'[p]) + thrown'[p] = Len(pools[p]) + thrown[p] + 1
      <4>1. thrown'[p] = thrown[p] /\ thrown[p] \in Nat
        BY <2>1, <3>1
      <4>2. QED
        BY <3>5, <4>1
    <3>7. /\ responseStats'[p].size = Len(pools'[p])
          /\ responseStats'[p].returned = responseStats'[p].reused + responseStats'[p].size
          /\ responseStats'[p].returned <= old.returned + 1
          /\ responseStats'[p].peak = responseStats'[p].created
      BY <2>1, <2>2, <2>3, <3>1, <3>4, <3>5
    <3>8. QED
      BY <3>3, <3>4, <3>5, <3>6, <3>7 DEF old
  <2>5. CASE p \notin back
    <3>1. pools'[p] = pools[p] /\ responseStats'[p] = old /\ thrown'[p] = thrown[p] + 1
      BY <1>1, <2>1, <2>5
    <3> HIDE DEF old
    <3>2. Len(pools[p]) \in Nat
      BY <2>1
    <3>3. thrown'[p] \in Nat /\ Len(pools'[p]) + thrown'[p] = Len(pools[p]) + thrown[p] + 1
      BY <2>1, <2>2, <2>3, <3>1, <3>2
    <3>4. /\ responseStats'[p].size = Len(pools'[p])
          /\ responseStats'[p].returned = responseStats'[p].reused + responseStats'[p].size
          /\ responseStats'[p].returned <= old.returned + 1
          /\ responseStats'[p].peak = responseStats'[p].created
      BY <2>1, <2>2, <2>3, <3>1, <3>2
    <3>5. QED
      BY <2>1, <3>1, <3>3, <3>4 DEF old
  <2>6. QED
    BY <2>4, <2>5
<1>6. \A p \in Responses!Pool : /\ pools'[p] \in Seq(Content) /\ responseStats'[p] \in PoolStats
                                /\ thrown'[p] \in Nat
  BY <1>4, <1>5 DEF ResponsesTyped
<1>7. QED
  BY <1>2, <1>4, <1>5, <1>6

-----------------------------------------------------------------------------
(* The responses *)

\* Formats are named by the request, and the same on both sides.
LEMMA FormatsAgree ==
  /\ Responses!FormatsAreAccepted
  /\ \A r \in Requests : Responses!PreferredStreamingFormat(r)
       \in {Responses!Json, Responses!Ndjson, Responses!Sse, Responses!Binary}
<1> DEFINE Names == {Responses!Json, Responses!Ndjson, Responses!Sse, Responses!Binary}
<1>1. ASSUME NEW types
      PROVE  /\ Responses!FromAcceptHeader(types) \in Names
             /\ Responses!FromAcceptHeader(types) \in types
                \/ Responses!FromAcceptHeader(types) = Responses!Json
             /\ Responses!Binary \notin types =>
                  Responses!FromAcceptHeader(types)
                    = IF Responses!Sse \in types THEN Responses!Sse
                      ELSE IF Responses!Ndjson \in types THEN Responses!Ndjson
                      ELSE Responses!Json
  BY DEF Responses!FromAcceptHeader
<1>2. ASSUME NEW r \in Requests, "accept" \in DOMAIN r
      PROVE  /\ Responses!PreferredStreamingFormat(r) \in Names
             /\ Responses!PreferredStreamingFormat(r) = Responses!Json
                \/ Responses!Accepts(r, Responses!PreferredStreamingFormat(r))
             /\ Responses!Binary \notin Responses!Accepted(r) =>
                  Responses!PreferredStreamingFormat(r) = Responses!StreamRequestFormat(r)
             /\ Responses!PjsStream(r) # Responses!Json =>
                  \/ Responses!Accepts(r, Responses!Sse)
                  \/ Responses!Accepts(r, Responses!PjsStream(r)) \/ "x-pjs-stream" \in DOMAIN r
  <2> DEFINE types == r["accept"]
  <2>1. DOMAIN r \cap {"accept", "Accept"} = {"accept"}
    BY <1>2, ResponsesAssumption
  <2>2. Responses!Accepted(r) = types
    BY <2>1 DEF Responses!Accepted
  <2>3. \A type : Responses!Accepts(r, type) <=> type \in types
    BY <1>2 DEF Responses!Accepts
  <2>4. Responses!PreferredStreamingFormat(r) = Responses!FromAcceptHeader(types)
    BY <1>2 DEF Responses!PreferredStreamingFormat
  <2> HIDE DEF types
  <2>5. Responses!Binary \notin Responses!Accepted(r) =>
          Responses!PreferredStreamingFormat(r) = Responses!StreamRequestFormat(r)
    BY <1>1, <2>2, <2>4 DEF Responses!StreamRequestFormat
  <2>6. Responses!PjsStream(r) # Responses!Json =>
          \/ Responses!Accepts(r, Responses!Sse)
          \/ Responses!Accepts(r, Responses!PjsStream(r)) \/ "x-pjs-stream" \in DOMAIN r
    BY <2>2, <2>3 DEF Responses!PjsStream, Responses!WantsPjs
  <2>7. QED
    BY <1>1, <2>3, <2>4, <2>5, <2>6
<1>3. ASSUME NEW r \in Requests, "accept" \notin DOMAIN r
      PROVE  /\ Responses!PreferredStreamingFormat(r) = Responses!Json
             /\ "Accept" \notin DOMAIN r =>
                  Responses!PreferredStreamingFormat(r) = Responses!StreamRequestFormat(r)
             /\ Responses!PjsStream(r) # Responses!Json =>
                  \/ Responses!Accepts(r, Responses!Sse)
                  \/ Responses!Accepts(r, Responses!PjsStream(r)) \/ "x-pjs-stream" \in DOMAIN r
  <2>1. Responses!PreferredStreamingFormat(r) = Responses!Json
    BY <1>3 DEF Responses!PreferredStreamingFormat
  <2>2. ASSUME "Accept" \notin DOMAIN r PROVE Responses!StreamRequestFormat(r) = Responses!Json
    <3>1. Responses!Accepted(r) = {}
      BY <1>3, <2>2 DEF Responses!Accepted
    <3>2. QED
      BY <3>1 DEF Responses!StreamRequestFormat
  <2>3. ASSUME Responses!PjsStream(r) # Responses!Json
        PROVE  \/ Responses!Accepts(r, Responses!Sse)
               \/ Responses!Accepts(r, Responses!PjsStream(r)) \/ "x-pjs-stream" \in DOMAIN r
    <3>1. Responses!WantsPjs(r) /\ Responses!PjsStream(r) = "application/pjs-stream"
      BY <2>3 DEF Responses!PjsStream
    <3>2. DOMAIN r \cap {"accept", "Accept"} = {"Accept"}
      BY <1>3, <3>1 DEF Responses!WantsPjs
    <3>3. Responses!Accepted(r) = r["Accept"]
      BY <3>2 DEF Responses!Accepted
    <3>4. \A type : Responses!Accepts(r, type) <=> type \in r["Accept"]
      BY <1>3, <3>2 DEF Responses!Accepts
    <3>5. QED
      BY <3>1, <3>3, <3>4 DEF Responses!WantsPjs
  <2>4. QED
    BY <2>1, <2>2, <2>3
<1> HIDE DEF Names
<1>4. Responses!Json \in Names
  BY DEF Names
<1>5. \A r \in Requests : Responses!PreferredStreamingFormat(r) \in Names
  BY <1>2, <1>3, <1>4
<1>6. Responses!FormatsAreAccepted
  BY <1>2, <1>3 DEF Responses!FormatsAreAccepted
<1>7. QED
  BY <1>5, <1>6 DEF Names

\* Events written with line ends hold the frames they are made of.
LEMMA EventsAreRead ==
  ASSUME NEW fs \in FrameLists
  PROVE  Responses!Frames(Responses!SseResponse(fs, FALSE)) = fs
<1> DEFINE before == "data: "
           after == "\n\n"
           lines == [i \in DOMAIN fs |-> << before, fs[i], after >>]
           text  == FlattenSeq(lines)
           n     == Len(fs)
<1>1. fs \in Seq(STRING) /\ n \in Nat /\ fs = [i \in 1 .. n |-> fs[i]]
  BY ResponsesAssumption
<1>2. \A s : Responses!FlattenSeq(s) = FlattenSeq(s)
  BY Zenon DEF Responses!FlattenSeq, FlattenSeq
<1>3. /\ \E V : text \in Seq(V)
      /\ Len(text) = 3 * n
      /\ \A i \in 1 .. n : /\ text[3 * i - 2] = before /\ text[3 * i - 1] = fs[i]
                           /\ text[3 * i] = after
  <2> DEFINE V == STRING \cup {before, after}
  <2> HIDE DEF before, after
  <2>1. fs \in Seq(V)
    BY <1>1
  <2>2. before \in V /\ after \in V
    OBVIOUS
  <2> HIDE DEF V
  <2>3. /\ text \in Seq(V) /\ Len(text) = 3 * Len(fs)
        /\ \A i \in 1 .. Len(fs) :
             text[3 * i - 2] = before /\ text[3 * i - 1] = fs[i] /\ text[3 * i] = after
    BY <2>1, <2>2, EventsFlatten
  <2>4. QED
    BY <2>3, Zenon
<1> HIDE DEF lines
<1>4. Responses!SseResponse(fs, FALSE).type = Responses!Sse
      /\ Responses!SseResponse(fs, FALSE).items = << text >>
  BY <1>2 DEF Responses!SseResponse, Responses!Response, lines
<1>5. Responses!FlattenSeq(<< text >>) = text
  <2> HIDE DEF text
  <2>1. QED
    BY <1>2, <1>3, OneFlattens
<1> HIDE DEF text, n
<1>6. Len(text) \div 3 = n
  <2>1. \A m \in Nat : (3 * m) \div 3 = m
    OBVIOUS
  <2>2. n \in Nat /\ Len(text) = 3 * n
    BY <1>1, <1>3
  <2>3. QED
    BY <2>1, <2>2, Zenon
<1>7. Responses!Frames(Responses!SseResponse(fs, FALSE)) = [i \in 1 .. n |-> text[3 * i - 1]]
  BY <1>3, <1>4, <1>5, <1>6 DEF Responses!Frames
<1>8. QED
  BY <1>1, <1>3, <1>7

\* So do lines, and bytes.
LEMMA BodiesAreRead ==
  ASSUME NEW fs \in FrameLists, NEW headers,
         NEW format \in {Responses!Json, Responses!Ndjson, Responses!Binary}
  PROVE  /\ Responses!Frames(Responses!StreamingResponse(format, headers, fs)) = fs
         /\ Responses!StreamingResponse(format, headers, fs).headers = headers
<1> DEFINE response == Responses!StreamingResponse(format, headers, fs)
<1>1. fs \in Seq(STRING)
  BY ResponsesAssumption
<1>2. \A s : Responses!FlattenSeq(s) = FlattenSeq(s)
  BY Zenon DEF Responses!FlattenSeq, FlattenSeq
<1>3. /\ response.type # Responses!Sse /\ response.headers = headers
      /\ response.items = Responses!Lines(fs) \/ response.items = << fs >>
  BY DEF Responses!StreamingResponse, Responses!Response, Responses!Json, Responses!Ndjson,
         Responses!Binary, Responses!Sse
<1>4. FlattenSeq(Responses!Lines(fs)) = fs
  BY <1>1, LinesFlatten DEF Responses!Lines
<1>5. FlattenSeq(<< fs >>) = fs
  BY <1>1, OneFlattens
<1> HIDE DEF response
<1>6. Responses!Frames(response) = fs
  BY <1>2, <1>3, <1>4, <1>5 DEF Responses!Frames
<1>7. QED
  BY <1>3, <1>6 DEF response

\* The pools are empty and nobody builds anything.
LEMMA ResponsesInit == Responses!Init => ResponsesIInv
<1> SUFFICES ASSUME Responses!Init PROVE ResponsesIInv
  OBVIOUS
<1>1. /\ pools = [p \in Responses!Pool |-> << >>]
      /\ responseStats = [p \in Responses!Pool |->
           [created |-> 0, reused |-> 0, returned |-> 0, size |-> 0, peak |-> 0]]
      /\ work = [t \in Client |-> Absent]
      /\ put = [t \in Client |-> [headers |-> << >>, events |-> << >>]]
      /\ given = [p \in Responses!Pool |-> 0] /\ thrown = [p \in Responses!Pool |-> 0]
      /\ abandoned = 0 /\ answer = [response |-> Absent]
  BY DEF Responses!Init
<1>2. ResponsesTyped
  BY <1>1 DEF ResponsesTyped, PoolStats
<1>3. ASSUME NEW p \in Responses!Pool PROVE Balanced(p)
  <2>1. Holders(p) = {}
    BY <1>1 DEF Holders
  <2>2. Cardinality(Holders(p)) = 0 /\ Len(pools[p]) = 0
    BY <1>1, <2>1, FS_EmptySet
  <2>3. QED
    BY <1>1, <2>2 DEF Balanced
<1>4. Says(answer) /\ \A t \in Client : work[t] = Absent
  BY <1>1 DEF Says
<1>5. QED
  BY <1>2, <1>3, <1>4 DEF ResponsesIInv

\* A response that is begun takes an object of each kind it is built with.
LEMMA BeginStep ==
  ASSUME ResponsesIInv, NEW t \in Client, NEW b \in Responses!Builder,
         Responses!Begin(t, b, b.pooled),
         IsOnesOwn(b, [headers |-> << >>, events |-> << >>])
  PROVE  ResponsesIInv'
<1>1. /\ ResponsesTyped /\ \A p \in Responses!Pool : Balanced(p)
      /\ \A u \in Client : work[u] # Absent => IsOnesOwn(work[u], put[u])
      /\ Says(answer)
  BY DEF ResponsesIInv
<1>2. /\ work[t] = Absent /\ work' = [work EXCEPT ![t] = b]
      /\ put' = [put EXCEPT ![t] = [headers |-> << >>, events |-> << >>]]
      /\ given' = given /\ thrown' = thrown /\ abandoned' = abandoned /\ answer' = answer
      /\ Responses!Get(b.pooled)
  BY DEF Responses!Begin
<1>3. b.pooled \in SUBSET Responses!Pool
  BY BuilderFields DEF Responses!Pool
<1>4. /\ work \in [Client -> Responses!Builder \cup {Absent}] /\ DOMAIN put = Client
      /\ \A u \in Client : put[u] = [headers |-> put[u].headers, events |-> put[u].events]
      /\ given \in [Responses!Pool -> Nat] /\ thrown \in [Responses!Pool -> Nat]
      /\ abandoned \in Nat
      /\ pools \in [Responses!Pool -> Seq(Content)]
      /\ responseStats \in [Responses!Pool -> PoolStats]
  BY <1>1 DEF ResponsesTyped
<1>5. /\ work' \in [Client -> Responses!Builder \cup {Absent}] /\ work'[t] = b
      /\ \A u \in Client \ {t} : work'[u] = work[u]
      /\ DOMAIN put' = Client /\ put'[t] = [headers |-> << >>, events |-> << >>]
      /\ \A u \in Client \ {t} : put'[u] = put[u]
  BY <1>2, <1>4
<1>6. /\ pools' \in [Responses!Pool -> Seq(Content)]
      /\ responseStats' \in [Responses!Pool -> PoolStats]
      /\ \A p \in Responses!Pool \ b.pooled :
           pools'[p] = pools[p] /\ responseStats'[p] = responseStats[p]
      /\ \A p \in b.pooled :
           LET s == responseStats'[p]
           IN  /\ s.created + Len(pools[p]) = responseStats[p].created + Len(pools'[p]) + 1
               /\ s.size = Len(pools'[p]) /\ s.returned = s.reused + s.size
               /\ s.returned = responseStats[p].returned /\ s.peak = s.created
  BY <1>1, <1>2, <1>3, Getting
<1>7. ResponsesTyped'
  <2>1. \A u \in Client : put'[u] = [headers |-> put'[u].headers, events |-> put'[u].events]
    BY <1>4, <1>5
  <2>2. QED
    BY <1>2, <1>4, <1>5, <1>6, <2>1 DEF ResponsesTyped
<1>8. ASSUME NEW p \in Responses!Pool PROVE Balanced(p)'
  <2>1. t \notin Holders(p) /\ (t \in Holders(p)' <=> p \in b.pooled)
    BY <1>2, <1>5, ResponsesAssumption DEF Holders
  <2>2. /\ Cardinality(Holders(p)) \in Nat
        /\ p \in b.pooled => Cardinality(Holders(p)') = Cardinality(Holders(p)) + 1
        /\ p \notin b.pooled => Cardinality(Holders(p)') = Cardinality(Holders(p))
    BY <1>5, <2>1, HoldersChange
  <2>3. given[p] \in Nat /\ thrown[p] \in Nat /\ Len(pools[p]) \in Nat /\ Len(pools'[p]) \in Nat
        /\ responseStats[p].created \in Nat /\ responseStats'[p].created \in Nat
    <3>1. pools[p] \in Seq(Content) /\ pools'[p] \in Seq(Content)
          /\ responseStats[p] \in PoolStats /\ responseStats'[p] \in PoolStats
      BY <1>4, <1>6
    <3>2. responseStats[p].created \in Nat /\ responseStats'[p].created \in Nat
      BY <3>1, StatsChange, Zenon
    <3>3. QED
      BY <1>4, <3>1, <3>2
  <2>4. /\ responseStats[p].created
             = Len(pools[p]) + Cardinality(Holders(p)) + given[p] + thrown[p]
        /\ responseStats[p].size = Len(pools[p])
        /\ responseStats[p].returned = responseStats[p].reused + responseStats[p].size
        /\ responseStats[p].returned <= abandoned
        /\ responseStats[p].peak = responseStats[p].created
    BY <1>1 DEF Balanced
  <2>5. CASE p \in b.pooled
    <3>1. responseStats'[p].created = Len(pools'[p]) + Cardinality(Holders(p)') + given[p] + thrown[p]
      <4>1. responseStats'[p].created + Len(pools[p])
              = responseStats[p].created + Len(pools'[p]) + 1
        BY <1>6, <2>5, Zenon
      <4> DEFINE c == responseStats[p].created
                 d == responseStats'[p].created
                 l == Len(pools[p])
                 m == Len(pools'[p])
                 h == Cardinality(Holders(p))
                 k == Cardinality(Holders(p)')
                 g == given[p]
                 o == thrown[p]
      <4>2. /\ c \in Nat /\ d \in Nat /\ l \in Nat /\ m \in Nat /\ h \in Nat /\ g \in Nat
            /\ o \in Nat /\ k = h + 1 /\ c = l + h + g + o /\ d + l = c + m + 1
        BY <2>2, <2>3, <2>4, <2>5, <4>1
      <4> HIDE DEF c, d, l, m, h, k, g, o
      <4>3. d = m + k + g + o
        BY <4>2
      <4>4. QED
        BY <4>3 DEF d, m, k, g, o
    <3>2. QED
      BY <1>2, <1>6, <2>4, <2>5, <3>1 DEF Balanced
  <2>6. CASE p \notin b.pooled
    BY <1>2, <1>6, <2>2, <2>4, <2>6 DEF Balanced
  <2>7. QED
    BY <2>5, <2>6
<1>9. \A u \in Client : work'[u] # Absent => IsOnesOwn(work'[u], put'[u])
  BY <1>1, <1>5
<1>10. QED
  BY <1>1, <1>2, <1>7, <1>8, <1>9 DEF ResponsesIInv

\* A builder into which something is put is a builder.
LEMMA BuilderChange ==
  ASSUME NEW b \in Responses!Builder
  PROVE  /\ \A h \in Responses!HeaderMap :
              LET n == [b EXCEPT !.headers = h]
              IN  /\ n \in Responses!Builder /\ n.pooled = b.pooled /\ n.type = b.type
                  /\ n.headers = h /\ DOMAIN n = DOMAIN b
                  /\ "events" \in DOMAIN b => n.events = b.events
         /\ \A e \in Seq(EventData) :
              LET n == [b EXCEPT !.events = e]
              IN  "events" \in DOMAIN b =>
                    /\ n \in Responses!Builder /\ n.pooled = b.pooled /\ n.type = b.type
                    /\ n.headers = b.headers /\ DOMAIN n = DOMAIN b /\ n.events = e
<1> DEFINE Plain  == [pooled : {{"map"}}, type : {Responses!Json}, headers : Responses!HeaderMap]
           Evented == [pooled : {Responses!Pool}, type : {Responses!Sse},
                       headers : Responses!HeaderMap, events : Seq(EventData)]
           Goal ==
             /\ \A h \in Responses!HeaderMap :
                  LET n == [b EXCEPT !.headers = h]
                  IN  /\ n \in Responses!Builder /\ n.pooled = b.pooled /\ n.type = b.type
                      /\ n.headers = h /\ DOMAIN n = DOMAIN b
                      /\ "events" \in DOMAIN b => n.events = b.events
             /\ \A e \in Seq(EventData) :
                  LET n == [b EXCEPT !.events = e]
                  IN  "events" \in DOMAIN b =>
                        /\ n \in Responses!Builder /\ n.pooled = b.pooled /\ n.type = b.type
                        /\ n.headers = b.headers /\ DOMAIN n = DOMAIN b /\ n.events = e
<1>1. Responses!Builder = Plain \cup Evented
  BY DEF Responses!Builder
<1>2. ASSUME b \in Plain PROVE Goal
  <2>1. "events" \notin DOMAIN b
    BY <1>2
  <2>2. ASSUME NEW h \in Responses!HeaderMap
        PROVE  LET n == [b EXCEPT !.headers = h]
               IN  /\ n \in Plain /\ n.pooled = b.pooled /\ n.type = b.type
                   /\ n.headers = h /\ DOMAIN n = DOMAIN b
    BY <1>2
  <2> HIDE DEF Plain, Evented
  <2>3. QED
    BY <1>1, <2>1, <2>2
<1>3. ASSUME b \in Evented PROVE Goal
  <2>1. ASSUME NEW h \in Responses!HeaderMap
        PROVE  LET n == [b EXCEPT !.headers = h]
               IN  /\ n \in Evented /\ n.pooled = b.pooled /\ n.type = b.type
                   /\ n.headers = h /\ DOMAIN n = DOMAIN b /\ n.events = b.events
    BY <1>3
  <2>2. ASSUME NEW e \in Seq(EventData)
        PROVE  LET n == [b EXCEPT !.events = e]
               IN  /\ n \in Evented /\ n.pooled = b.pooled /\ n.type = b.type
                   /\ n.headers = b.headers /\ DOMAIN n = DOMAIN b /\ n.events = e
    BY <1>3
  <2> HIDE DEF Plain, Evented
  <2>3. QED
    BY <1>1, <2>1, <2>2
<1>4. b \in Plain \/ b \in Evented
  BY <1>1
<1> HIDE DEF Plain, Evented, Goal
<1>5. Goal
  BY <1>2, <1>3, <1>4
<1>6. QED
  BY <1>5 DEF Goal

\* Putting something in puts it where it is looked for.
LEMMA PutStep ==
  ASSUME ResponsesIInv, NEW t \in Client,
         (\E name \in DOMAIN Headers : Responses!Header(t, name))
           \/ \E datum \in EventData : Responses!Event(t, datum)
  PROVE  ResponsesIInv'
<1> DEFINE old == work[t]
           new == work'[t]
           Kind == /\ new \in Responses!Builder /\ new.pooled = old.pooled
                   /\ IsOnesOwn(new, put'[t]) /\ DOMAIN put' = Client
                   /\ \A u \in Client \ {t} : put'[u] = put[u] /\ work'[u] = work[u]
                   /\ put'[t] = [headers |-> put'[t].headers, events |-> put'[t].events]
                   /\ work' \in [Client -> Responses!Builder \cup {Absent}]
<1>1. /\ ResponsesTyped /\ \A p \in Responses!Pool : Balanced(p)
      /\ \A u \in Client : work[u] # Absent => IsOnesOwn(work[u], put[u])
      /\ Says(answer)
  BY DEF ResponsesIInv
<1>2. /\ work \in [Client -> Responses!Builder \cup {Absent}] /\ DOMAIN put = Client
      /\ \A u \in Client : put[u] = [headers |-> put[u].headers, events |-> put[u].events]
  BY <1>1 DEF ResponsesTyped
<1>3. /\ old # Absent /\ pools' = pools /\ responseStats' = responseStats /\ given' = given
      /\ thrown' = thrown /\ abandoned' = abandoned /\ answer' = answer
  BY DEF Responses!Header, Responses!Event
<1>4. old \in Responses!Builder /\ IsOnesOwn(old, put[t])
  BY <1>1, <1>2, <1>3
<1>5. ASSUME NEW name \in DOMAIN Headers, Responses!Header(t, name) PROVE Kind
  <2> DEFINE E == Responses!Entry(name, Headers[name])
             h == Responses!Over(E, old.headers)
  <2>1. /\ new = [old EXCEPT !.headers = h] /\ \A u \in Client \ {t} : work'[u] = work[u]
        /\ work' = [u \in Client |-> work'[u]]
    BY <1>2, <1>5 DEF Responses!Header
  <2>2. /\ put'[t] = [put[t] EXCEPT !.headers = Responses!Over(E, put[t].headers)]
        /\ DOMAIN put' = Client /\ \A u \in Client \ {t} : put'[u] = put[u]
    BY <1>2, <1>5 DEF Responses!Header
  <2>3. h \in Responses!HeaderMap
    BY <1>4, BuilderFields, Layers, SomeHeaderMaps
  <2>4. /\ new \in Responses!Builder /\ new.pooled = old.pooled /\ new.type = old.type
        /\ new.headers = h /\ DOMAIN new = DOMAIN old
        /\ "events" \in DOMAIN old => new.events = old.events
    <3> HIDE DEF h, old, new
    <3>1. QED
      BY <1>4, <2>1, <2>3, BuilderChange
  <2>5. put'[t] = [headers |-> Responses!Over(E, put[t].headers), events |-> put[t].events]
    BY <1>2, <2>2
  <2>6. old.headers = Responses!Over(put[t].headers, BaseOf(old)) /\ BaseOf(new) = BaseOf(old)
        /\ ("events" \in DOMAIN old => old.events = put[t].events)
    BY <1>4, <2>4 DEF IsOnesOwn, BaseOf
  <2>7. h = Responses!Over(Responses!Over(E, put[t].headers), BaseOf(new))
    BY <2>6, Layers
  <2>8. put'[t].headers = Responses!Over(E, put[t].headers) /\ put'[t].events = put[t].events
        /\ put'[t] = [headers |-> put'[t].headers, events |-> put'[t].events]
    BY <2>5
  <2> HIDE DEF h, E, old, new
  <2>9. IsOnesOwn(new, put'[t])
    BY <2>4, <2>6, <2>7, <2>8 DEF IsOnesOwn
  <2>10. work' \in [Client -> Responses!Builder \cup {Absent}]
    BY <1>2, <2>1, <2>4 DEF new
  <2>11. QED
    BY <2>1, <2>2, <2>4, <2>8, <2>9, <2>10
<1>6. ASSUME NEW datum \in EventData, Responses!Event(t, datum) PROVE Kind
  <2> DEFINE e == Append(old.events, datum)
  <2>1. /\ new = [old EXCEPT !.events = e] /\ \A u \in Client \ {t} : work'[u] = work[u]
        /\ work' = [u \in Client |-> work'[u]] /\ "events" \in DOMAIN old
    BY <1>2, <1>6 DEF Responses!Event
  <2>2. /\ put'[t] = [put[t] EXCEPT !.events = Append(put[t].events, datum)]
        /\ DOMAIN put' = Client /\ \A u \in Client \ {t} : put'[u] = put[u]
    BY <1>2, <1>6 DEF Responses!Event
  <2>3. e \in Seq(EventData)
    <3>1. old.events \in Seq(EventData)
      BY <1>4, <2>1, BuilderFields
    <3>2. QED
      BY <3>1
  <2>4. /\ new \in Responses!Builder /\ new.pooled = old.pooled /\ new.type = old.type
        /\ new.headers = old.headers /\ DOMAIN new = DOMAIN old /\ new.events = e
    <3> HIDE DEF e, old, new
    <3>1. "events" \in DOMAIN old
      BY <2>1
    <3>2. QED
      BY <1>4, <2>1, <2>3, <3>1, BuilderChange
  <2>5. put'[t] = [headers |-> put[t].headers, events |-> Append(put[t].events, datum)]
    BY <1>2, <2>2
  <2>6. old.headers = Responses!Over(put[t].headers, BaseOf(old)) /\ BaseOf(new) = BaseOf(old)
        /\ old.events = put[t].events
    BY <1>4, <2>1, <2>4 DEF IsOnesOwn, BaseOf
  <2>7. put'[t].headers = put[t].headers /\ put'[t].events = Append(put[t].events, datum)
        /\ put'[t] = [headers |-> put'[t].headers, events |-> put'[t].events]
    BY <2>5
  <2>8. e = put'[t].events
    BY <2>6, <2>7
  <2> HIDE DEF e, old, new
  <2>9. IsOnesOwn(new, put'[t])
    BY <2>4, <2>6, <2>7, <2>8 DEF IsOnesOwn
  <2>10. work' \in [Client -> Responses!Builder \cup {Absent}]
    BY <1>2, <2>1, <2>4 DEF new
  <2>11. QED
    BY <2>1, <2>2, <2>4, <2>7, <2>9, <2>10
<1>7. Kind
  BY <1>5, <1>6
<1>8. ResponsesTyped'
  <2>1. \A u \in Client : put'[u] = [headers |-> put'[u].headers, events |-> put'[u].events]
    BY <1>2, <1>7
  <2>2. QED
    BY <1>1, <1>3, <1>7, <2>1 DEF ResponsesTyped
<1>9. ASSUME NEW p \in Responses!Pool PROVE Balanced(p)'
  <2>1. t \in Holders(p) <=> t \in Holders(p)'
    BY <1>3, <1>7, ResponsesAssumption DEF Holders
  <2>2. Cardinality(Holders(p)') = Cardinality(Holders(p))
    BY <1>7, <2>1, HoldersChange
  <2>3. QED
    BY <1>1, <1>3, <2>2 DEF Balanced
<1>10. \A u \in Client : work'[u] # Absent => IsOnesOwn(work'[u], put'[u])
  BY <1>1, <1>7
<1>11. QED
  BY <1>1, <1>3, <1>8, <1>9, <1>10 DEF ResponsesIInv

\* A builder that is finished or given up holds no objects any more.
LEMMA EndStep ==
  ASSUME ResponsesIInv, NEW t \in Client, Responses!Finish(t) \/ Responses!Abandon(t)
  PROVE  ResponsesIInv'
<1> DEFINE old == work[t]
           Pooled == old.pooled
<1>1. /\ ResponsesTyped /\ \A p \in Responses!Pool : Balanced(p)
      /\ \A u \in Client : work[u] # Absent => IsOnesOwn(work[u], put[u])
      /\ Says(answer)
  BY DEF ResponsesIInv
<1>2. /\ work \in [Client -> Responses!Builder \cup {Absent}]
      /\ given \in [Responses!Pool -> Nat] /\ thrown \in [Responses!Pool -> Nat]
      /\ abandoned \in Nat
      /\ pools \in [Responses!Pool -> Seq(Content)]
      /\ responseStats \in [Responses!Pool -> PoolStats]
  BY <1>1 DEF ResponsesTyped
<1>3. /\ old # Absent /\ work' = [work EXCEPT ![t] = Absent] /\ put' = put /\ answer' = answer
  BY DEF Responses!Finish, Responses!Abandon
<1>4. /\ old \in Responses!Builder /\ work'[t] = Absent
      /\ \A u \in Client \ {t} : work'[u] = work[u]
      /\ work' \in [Client -> Responses!Builder \cup {Absent}]
  BY <1>2, <1>3
<1>5. Pooled \subseteq Responses!Pool /\ ("vec" \in Pooled => old.events \in Seq(EventData))
      /\ old.headers \in Responses!HeaderMap
  <2>1. \/ Pooled = {"map"}
        \/ Pooled = Responses!Pool /\ old.events \in Seq(EventData)
    BY <1>4, BuilderFields
  <2>2. QED
    BY <1>4, <2>1, BuilderFields DEF Responses!Pool
<1>6. ASSUME NEW p \in Responses!Pool
      PROVE  /\ Cardinality(Holders(p)) \in Nat
             /\ p \in Pooled => Cardinality(Holders(p)') = Cardinality(Holders(p)) - 1
             /\ p \notin Pooled => Cardinality(Holders(p)') = Cardinality(Holders(p))
  <2>1. (t \in Holders(p) <=> p \in Pooled) /\ t \notin Holders(p)'
    BY <1>3, <1>4 DEF Holders
  <2>2. QED
    BY <1>4, <2>1, HoldersChange
<1>7. ASSUME NEW p \in Responses!Pool
      PROVE  /\ given[p] \in Nat /\ thrown[p] \in Nat /\ Len(pools[p]) \in Nat
             /\ responseStats[p].created \in Nat /\ responseStats[p].returned \in Nat
             /\ responseStats[p].created
                  = Len(pools[p]) + Cardinality(Holders(p)) + given[p] + thrown[p]
             /\ responseStats[p].size = Len(pools[p])
             /\ responseStats[p].returned = responseStats[p].reused + responseStats[p].size
             /\ responseStats[p].returned <= abandoned
             /\ responseStats[p].peak = responseStats[p].created
  <2>1. pools[p] \in Seq(Content) /\ responseStats[p] \in PoolStats
    BY <1>2
  <2>2. responseStats[p].created \in Nat /\ responseStats[p].returned \in Nat
    BY <2>1, StatsChange, Zenon
  <2>3. given[p] \in Nat /\ thrown[p] \in Nat /\ Len(pools[p]) \in Nat
    BY <1>2, <2>1
  <2>4. QED
    BY <1>1, <2>2, <2>3 DEF Balanced
<1>8. \A u \in Client : work'[u] # Absent => IsOnesOwn(work'[u], put'[u])
  BY <1>1, <1>3, <1>4
<1> HIDE DEF Pooled
<1>9. CASE Responses!Finish(t)
  <2>1. /\ given' = [p \in Responses!Pool |-> given[p] + (IF p \in Pooled THEN 1 ELSE 0)]
        /\ pools' = pools /\ responseStats' = responseStats /\ thrown' = thrown
        /\ abandoned' = abandoned
    BY <1>9 DEF Responses!Finish, Pooled
  <2>2. ResponsesTyped'
    BY <1>1, <1>2, <1>3, <1>4, <2>1 DEF ResponsesTyped
  <2>3. ASSUME NEW p \in Responses!Pool PROVE Balanced(p)'
    <3>1. given'[p] = given[p] + (IF p \in Pooled THEN 1 ELSE 0)
      BY <2>1
    <3>2. Cardinality(Holders(p)') + given'[p] = Cardinality(Holders(p)) + given[p]
          /\ Cardinality(Holders(p)') \in Int /\ given'[p] \in Nat
      BY <1>6, <1>7, <3>1
    <3>3. /\ Cardinality(Holders(p)) \in Nat /\ given[p] \in Nat /\ thrown[p] \in Nat
          /\ Len(pools[p]) \in Nat
          /\ responseStats[p].created
               = Len(pools[p]) + Cardinality(Holders(p)) + given[p] + thrown[p]
      BY <1>6, <1>7
    <3>4. responseStats[p].created
            = Len(pools[p]) + Cardinality(Holders(p)') + given'[p] + thrown[p]
      <4> DEFINE c == responseStats[p].created
                 l == Len(pools[p])
                 h == Cardinality(Holders(p))
                 k == Cardinality(Holders(p)')
                 f == given'[p]
                 g == given[p]
                 o == thrown[p]
      <4>1. /\ c = l + h + g + o /\ k + f = h + g /\ k \in Int /\ f \in Nat
            /\ h \in Nat /\ g \in Nat /\ o \in Nat /\ l \in Nat
        BY <3>2, <3>3
      <4> HIDE DEF c, l, h, k, f, g, o
      <4>2. c = l + k + f + o
        BY <4>1
      <4>3. QED
        BY <4>2 DEF c, l, k, f, o
    <3>5. QED
      BY <1>7, <2>1, <3>4 DEF Balanced
  <2>4. QED
    BY <1>1, <1>3, <1>8, <2>2, <2>3 DEF ResponsesIInv
<1>10. CASE Responses!Abandon(t)
  <2> DEFINE contents == [p \in Pooled |-> IF p = "map" THEN old.headers ELSE old.events]
  <2>1. Responses!Return(contents) /\ abandoned' = abandoned + 1 /\ given' = given
    BY <1>10 DEF Responses!Abandon, Pooled
  <2>2. DOMAIN contents = Pooled /\ \A p \in Pooled : contents[p] \in Content
    BY <1>5 DEF Content, Responses!Pool
  <2> HIDE DEF contents
  <2>3. /\ pools' \in [Responses!Pool -> Seq(Content)]
        /\ responseStats' \in [Responses!Pool -> PoolStats]
        /\ thrown' \in [Responses!Pool -> Nat]
        /\ \A p \in Responses!Pool \ Pooled :
             /\ pools'[p] = pools[p] /\ responseStats'[p] = responseStats[p]
             /\ thrown'[p] = thrown[p]
        /\ \A p \in Pooled :
             LET s == responseStats'[p]
             IN  /\ s.created = responseStats[p].created
                 /\ Len(pools'[p]) + thrown'[p] = Len(pools[p]) + thrown[p] + 1
                 /\ s.size = Len(pools'[p]) /\ s.returned = s.reused + s.size
                 /\ s.returned <= responseStats[p].returned + 1 /\ s.peak = s.created
    BY <1>1, <1>5, <2>1, <2>2, Returning
  <2>4. ResponsesTyped'
    BY <1>1, <1>2, <1>3, <1>4, <2>1, <2>3 DEF ResponsesTyped
  <2>5. ASSUME NEW p \in Responses!Pool PROVE Balanced(p)'
    <3>1. Len(pools'[p]) \in Nat /\ thrown'[p] \in Nat /\ responseStats'[p].returned \in Nat
      <4>1. pools'[p] \in Seq(Content) /\ responseStats'[p] \in PoolStats /\ thrown'[p] \in Nat
        BY <2>3
      <4>2. responseStats'[p].returned \in Nat
        BY <4>1, StatsChange, Zenon
      <4>3. QED
        BY <4>1, <4>2
    <3>2. CASE p \in Pooled
      <4>1. /\ responseStats'[p].created = responseStats[p].created
            /\ Len(pools'[p]) + thrown'[p] = Len(pools[p]) + thrown[p] + 1
            /\ responseStats'[p].size = Len(pools'[p])
            /\ responseStats'[p].returned = responseStats'[p].reused + responseStats'[p].size
            /\ responseStats'[p].returned <= responseStats[p].returned + 1
            /\ responseStats'[p].peak = responseStats'[p].created
        BY <2>3, <3>2, Zenon
      <4>2. responseStats'[p].created
              = Len(pools'[p]) + Cardinality(Holders(p)') + given[p] + thrown'[p]
        <5>1. /\ Cardinality(Holders(p)) \in Nat /\ given[p] \in Nat /\ thrown[p] \in Nat
              /\ Len(pools[p]) \in Nat
              /\ responseStats[p].created
                   = Len(pools[p]) + Cardinality(Holders(p)) + given[p] + thrown[p]
              /\ Cardinality(Holders(p)') = Cardinality(Holders(p)) - 1
          BY <1>6, <1>7, <3>2
        <5> DEFINE c == responseStats[p].created
                   d == responseStats'[p].created
                   l == Len(pools[p])
                   m == Len(pools'[p])
                   h == Cardinality(Holders(p))
                   k == Cardinality(Holders(p)')
                   g == given[p]
                   o == thrown[p]
                   n == thrown'[p]
        <5>2. /\ c = l + h + g + o /\ d = c /\ k = h - 1 /\ m + n = l + o + 1
              /\ h \in Nat /\ g \in Nat /\ o \in Nat /\ l \in Nat /\ m \in Nat /\ n \in Nat
          BY <3>1, <4>1, <5>1
        <5> HIDE DEF c, d, l, m, h, k, g, o, n
        <5>3. d = m + k + g + n
          BY <5>2
        <5>4. QED
          BY <5>3 DEF d, m, k, g, n
      <4>3. responseStats'[p].returned <= abandoned + 1
        BY <1>2, <1>7, <3>1, <4>1
      <4>4. QED
        BY <2>1, <4>1, <4>2, <4>3 DEF Balanced
    <3>3. CASE p \notin Pooled
      <4>1. /\ pools'[p] = pools[p] /\ responseStats'[p] = responseStats[p]
            /\ thrown'[p] = thrown[p]
        BY <2>3, <3>3
      <4>2. responseStats[p].returned <= abandoned + 1
        BY <1>2, <1>7
      <4>3. QED
        BY <1>6, <1>7, <2>1, <3>3, <4>1, <4>2 DEF Balanced
    <3>4. QED
      BY <3>2, <3>3
  <2>6. QED
    BY <1>1, <1>3, <1>8, <2>4, <2>5 DEF ResponsesIInv
<1>11. QED
  BY <1>9, <1>10

\* A response for frames holds them, and takes an object at most to give it away.
LEMMA AnswerStep ==
  ASSUME ResponsesIInv, NEW t \in Client, NEW r \in Requests, NEW frames1 \in FrameLists,
         NEW refused \in BOOLEAN,
         Responses!AutoStreamResponse(t, Responses!PreferredStreamingFormat(r), frames1, refused)
  PROVE  ResponsesIInv'
<1> DEFINE format == Responses!PreferredStreamingFormat(r)
<1>1. /\ ResponsesTyped /\ \A p \in Responses!Pool : Balanced(p)
      /\ \A u \in Client : work[u] # Absent => IsOnesOwn(work[u], put[u])
  BY DEF ResponsesIInv
<1>2. /\ work' = work /\ put' = put /\ thrown' = thrown /\ abandoned' = abandoned
      /\ \A p : Holders(p)' = Holders(p)
  BY DEF Responses!AutoStreamResponse, Holders
<1>3. CASE format = Responses!Sse
  <2>1. /\ answer' = [frames |-> frames1, refused |-> refused,
                      response |-> Responses!SseResponse(frames1, refused)]
        /\ pools' = pools /\ responseStats' = responseStats /\ given' = given
    BY <1>3 DEF Responses!AutoStreamResponse
  <2>2. DOMAIN Responses!SseResponse(frames1, refused).headers
          \subseteq DOMAIN Responses!SseHeaders \cup {"X-PJS-Session-ID"}
    BY DEF Responses!SseResponse, Responses!Response, Responses!Over, Responses!Entry
  <2>3. ~refused => Responses!Frames(Responses!SseResponse(frames1, refused)) = frames1
    <3>1. ~refused => refused = FALSE
      OBVIOUS
    <3>2. QED
      BY <3>1, EventsAreRead
  <2>4. /\ answer'.frames = frames1 /\ (answer'.refused <=> refused)
        /\ answer'.response = Responses!SseResponse(frames1, refused)
    BY <2>1
  <2>5. Says(answer)'
    BY <2>2, <2>3, <2>4 DEF Says
  <2>6. QED
    BY <1>1, <1>2, <2>1, <2>5 DEF ResponsesIInv, ResponsesTyped, Balanced
<1>4. CASE format # Responses!Sse
  <2> DEFINE response == Responses!StreamingResponse(format, << >>, frames1)
  <2>1. /\ answer' = [frames |-> frames1, refused |-> FALSE, response |-> response]
        /\ Responses!Get({"map"}) /\ given' = [given EXCEPT !["map"] = @ + 1]
    BY <1>4, ObtainedIsEmpty DEF Responses!AutoStreamResponse
  <2>2. format \in {Responses!Json, Responses!Ndjson, Responses!Binary}
    BY <1>4, FormatsAgree
  <2>3. Responses!Frames(response) = frames1 /\ response.headers = << >>
    BY <2>2, BodiesAreRead
  <2> HIDE DEF response
  <2>4. Says(answer)'
    <3>1. answer'.frames = frames1 /\ answer'.response = response
      BY <2>1
    <3>2. DOMAIN response.headers = {}
      BY <2>3
    <3>3. QED
      BY <2>3, <3>1, <3>2 DEF Says
  <2>5. "map" \in Responses!Pool /\ {"map"} \in SUBSET Responses!Pool
    BY DEF Responses!Pool
  <2>6. /\ pools' \in [Responses!Pool -> Seq(Content)]
        /\ responseStats' \in [Responses!Pool -> PoolStats]
        /\ \A p \in Responses!Pool \ {"map"} :
             pools'[p] = pools[p] /\ responseStats'[p] = responseStats[p]
        /\ \A p \in {"map"} :
             LET s == responseStats'[p]
             IN  /\ s.created + Len(pools[p]) = responseStats[p].created + Len(pools'[p]) + 1
                 /\ s.size = Len(pools'[p]) /\ s.returned = s.reused + s.size
                 /\ s.returned = responseStats[p].returned /\ s.peak = s.created
    BY <1>1, <2>1, <2>5, Getting
  <2>7. given \in [Responses!Pool -> Nat] /\ thrown \in [Responses!Pool -> Nat]
        /\ pools \in [Responses!Pool -> Seq(Content)]
        /\ responseStats \in [Responses!Pool -> PoolStats]
    BY <1>1 DEF ResponsesTyped
  <2>8. given' \in [Responses!Pool -> Nat] /\ given'["map"] = given["map"] + 1
        /\ \A p \in Responses!Pool \ {"map"} : given'[p] = given[p]
    BY <2>1, <2>5, <2>7
  <2>9. ResponsesTyped'
    BY <1>1, <1>2, <2>6, <2>8 DEF ResponsesTyped
  <2>10. ASSUME NEW p \in Responses!Pool PROVE Balanced(p)'
    <3>1. /\ responseStats[p].created
               = Len(pools[p]) + Cardinality(Holders(p)) + given[p] + thrown[p]
          /\ responseStats[p].size = Len(pools[p])
          /\ responseStats[p].returned = responseStats[p].reused + responseStats[p].size
          /\ responseStats[p].returned <= abandoned
          /\ responseStats[p].peak = responseStats[p].created
      BY <1>1 DEF Balanced
    <3>2. CASE p = "map"
      <4>1. /\ responseStats'[p].created + Len(pools[p])
                 = responseStats[p].created + Len(pools'[p]) + 1
            /\ responseStats'[p].size = Len(pools'[p])
            /\ responseStats'[p].returned = responseStats'[p].reused + responseStats'[p].size
            /\ responseStats'[p].returned = responseStats[p].returned
            /\ responseStats'[p].peak = responseStats'[p].created
        BY <2>6, <3>2, Zenon
      <4>2. /\ pools[p] \in Seq(Content) /\ pools'[p] \in Seq(Content)
            /\ responseStats[p] \in PoolStats /\ responseStats'[p] \in PoolStats
            /\ given[p] \in Nat /\ thrown[p] \in Nat /\ given'[p] = given[p] + 1
        BY <2>6, <2>7, <2>8, <3>2
      <4>3. responseStats[p].created \in Nat /\ responseStats'[p].created \in Nat
        BY <4>2, StatsChange, Zenon
      <4>4. Cardinality(Holders(p)) \in Nat /\ Len(pools[p]) \in Nat /\ Len(pools'[p]) \in Nat
        <5>1. Holders(p) \subseteq Client
          BY DEF Holders
        <5>2. QED
          BY <4>2, <5>1, StoresAssumption, FS_Subset, FS_CardinalityType
      <4>5. responseStats'[p].created
              = Len(pools'[p]) + Cardinality(Holders(p)) + given'[p] + thrown[p]
        <5> DEFINE c == responseStats[p].created
                   d == responseStats'[p].created
                   l == Len(pools[p])
                   m == Len(pools'[p])
                   h == Cardinality(Holders(p))
                   f == given'[p]
                   g == given[p]
                   o == thrown[p]
        <5>1. /\ c \in Nat /\ d \in Nat /\ l \in Nat /\ m \in Nat /\ h \in Nat /\ g \in Nat
              /\ o \in Nat /\ f = g + 1 /\ c = l + h + g + o /\ d + l = c + m + 1
          BY <3>1, <4>1, <4>2, <4>3, <4>4
        <5> HIDE DEF c, d, l, m, h, f, g, o
        <5>2. d = m + h + f + o
          BY <5>1
        <5>3. QED
          BY <5>2 DEF d, m, h, f, o
      <4>6. QED
        BY <1>2, <3>1, <4>1, <4>5 DEF Balanced
    <3>3. CASE p # "map"
      BY <1>2, <2>6, <2>8, <3>1, <3>3 DEF Balanced
    <3>4. QED
      BY <3>2, <3>3
  <2>11. QED
    BY <1>1, <1>2, <2>4, <2>9, <2>10 DEF ResponsesIInv
<1>5. QED
  BY <1>3, <1>4

\* The inductive step of the responses: one case per action.
LEMMA ResponsesStep ==
  ASSUME ResponsesIInv, Responses!Next
  PROVE  ResponsesIInv'
<1> PICK t \in Client :
      \/ Responses!NewResponseBuilder(t) \/ Responses!NewSseBuilder(t)
      \/ \E name \in DOMAIN Headers : Responses!Header(t, name)
      \/ \E datum \in EventData : Responses!Event(t, datum)
      \/ Responses!Finish(t) \/ Responses!Abandon(t)
      \/ \E r \in Requests, frames1 \in FrameLists, refused \in BOOLEAN :
           Responses!AutoStreamResponse(t, Responses!PreferredStreamingFormat(r), frames1, refused)
  BY DEF Responses!Next
<1>1. ASSUME Responses!NewResponseBuilder(t) PROVE ResponsesIInv'
  <2> DEFINE b == [pooled |-> {"map"}, type |-> Responses!Json, headers |-> << >>]
  <2>1. Responses!Begin(t, b, {"map"})
    BY <1>1, ObtainedIsEmpty DEF Responses!NewResponseBuilder
  <2>2. b \in Responses!Builder
    BY SomeHeaderMaps DEF Responses!Builder
  <2>3. Responses!Over(<< >>, << >>) = << >> /\ Responses!Json # Responses!Sse
    BY SomeHeaderMaps, Layers DEF Responses!Json, Responses!Sse
  <2>4. /\ b.headers = << >> /\ b.type = Responses!Json /\ b.pooled = {"map"}
        /\ "events" \notin DOMAIN b
    OBVIOUS
  <2> HIDE DEF b
  <2>5. IsOnesOwn(b, [headers |-> << >>, events |-> << >>])
    BY <2>3, <2>4 DEF IsOnesOwn, BaseOf
  <2>6. QED
    BY <2>1, <2>2, <2>4, <2>5, BeginStep
<1>2. ASSUME Responses!NewSseBuilder(t) PROVE ResponsesIInv'
  <2> DEFINE b == [pooled |-> Responses!Pool, type |-> Responses!Sse,
                   headers |-> Responses!SseHeaders, events |-> << >>]
  <2>1. Responses!Over(Responses!SseHeaders, << >>) = Responses!SseHeaders
        /\ Responses!Over(<< >>, Responses!SseHeaders) = Responses!SseHeaders
    BY SomeHeaderMaps, Layers
  <2>2. Responses!Begin(t, b, Responses!Pool)
    BY <1>2, <2>1, ObtainedIsEmpty DEF Responses!NewSseBuilder
  <2>3. b \in Responses!Builder
    BY SomeHeaderMaps DEF Responses!Builder
  <2>4. /\ b.headers = Responses!SseHeaders /\ b.type = Responses!Sse /\ b.pooled = Responses!Pool
        /\ b.events = << >>
    OBVIOUS
  <2> HIDE DEF b
  <2>5. IsOnesOwn(b, [headers |-> << >>, events |-> << >>])
    BY <2>1, <2>4 DEF IsOnesOwn, BaseOf
  <2>6. QED
    BY <2>2, <2>3, <2>4, <2>5, BeginStep
<1>3. QED
  BY <1>1, <1>2, PutStep, EndStep, AnswerStep

\* What is claimed of the responses follows.
LEMMA ResponsesAreKept == ResponsesIInv => Responses!ResponsesAreOnesOwn
<1> SUFFICES ASSUME ResponsesIInv PROVE Responses!ResponsesAreOnesOwn
  OBVIOUS
<1>1. Responses!NothingIsLeftOver
  BY DEF ResponsesIInv, IsOnesOwn, BaseOf, Says, Responses!NothingIsLeftOver
<1>2. Responses!HoldsAllFrames
  BY DEF ResponsesIInv, Says, Responses!HoldsAllFrames
<1>3. Responses!ObjectsAreAccountedFor
  <2> SUFFICES ASSUME NEW p \in Responses!Pool
               PROVE  LET h == Responses!Cardinality(
                                    {t \in Client : work[t] # Absent /\ p \in work[t].pooled})
                          s    == responseStats[p]
                      IN  /\ s.created = Len(pools[p]) + h + given[p] + thrown[p]
                          /\ s.size = Len(pools[p]) /\ s.returned - s.reused = s.size
                          /\ s.reused <= abandoned
                          /\ h <= s.peak /\ s.peak <= s.created
    BY DEF Responses!ObjectsAreAccountedFor
  <2>1. Responses!Cardinality({t \in Client : work[t] # Absent /\ p \in work[t].pooled})
          = Cardinality(Holders(p))
    BY Zenon DEF Responses!Cardinality, Cardinality, Holders
  <2>2. Balanced(p) /\ pools[p] \in Seq(Content) /\ responseStats[p] \in PoolStats
        /\ given[p] \in Nat /\ thrown[p] \in Nat /\ abandoned \in Nat
    BY DEF ResponsesIInv, ResponsesTyped
  <2>3. /\ responseStats[p].created \in Nat /\ responseStats[p].reused \in Nat
        /\ responseStats[p].returned \in Nat /\ responseStats[p].size \in Nat
        /\ responseStats[p].peak \in Nat
    BY <2>2, StatsChange, Zenon
  <2>4. Cardinality(Holders(p)) \in Nat /\ Len(pools[p]) \in Nat
    <3>1. Holders(p) \subseteq Client
      BY DEF Holders
    <3>2. QED
      BY <2>2, <3>1, StoresAssumption, FS_Subset, FS_CardinalityType
  <2>5. /\ responseStats[p].created
             = Len(pools[p]) + Cardinality(Holders(p)) + given[p] + thrown[p]
        /\ responseStats[p].size = Len(pools[p])
        /\ responseStats[p].returned = responseStats[p].reused + responseStats[p].size
        /\ responseStats[p].returned <= abandoned
        /\ responseStats[p].peak = responseStats[p].created
    BY <2>2 DEF Balanced
  <2>6. /\ responseStats[p].returned - responseStats[p].reused = responseStats[p].size
        /\ responseStats[p].reused <= abandoned
        /\ Cardinality(Holders(p)) <= responseStats[p].peak
        /\ responseStats[p].peak <= responseStats[p].created
    <3>1. Cardinality(Holders(p)) <= responseStats[p].created
      BY <2>2, <2>3, <2>4, <2>5
    <3>2. /\ responseStats[p].returned - responseStats[p].reused = responseStats[p].size
          /\ responseStats[p].reused <= responseStats[p].returned
      BY <2>3, <2>5
    <3>3. responseStats[p].reused <= abandoned
      BY <2>2, <2>3, <2>5, <3>2
    <3>4. QED
      BY <2>3, <2>5, <3>1, <3>2, <3>3
  <2>7. QED
    BY <2>1, <2>5, <2>6
<1>4. QED
  BY <1>1, <1>2, <1>3, FormatsAgree DEF Responses!ResponsesAreOnesOwn

-----------------------------------------------------------------------------
(* All of them *)

StoresIInv ==
  /\ part = "streamStore" => ListingIInv
  /\ part = "cache" => CacheIInv
  /\ part = "buffers" => BuffersIInv
  /\ part = "metrics" => MetricsIInv
  /\ part = "responses" => ResponsesIInv

\* Each store begins in its invariant.
LEMMA StoresInit == Init => StoresIInv
BY ListingInit, CacheInit, BuffersInit, MetricsInit, ResponsesInit DEF Init, StoresIInv

\* Nothing changes in a store that is left alone.
LEMMA StoresStand ==
  /\ ListingIInv /\ UNCHANGED listingVars => ListingIInv'
  /\ CacheIInv /\ UNCHANGED cacheVars => CacheIInv'
  /\ BuffersIInv /\ UNCHANGED bufferVars => BuffersIInv'
  /\ MetricsIInv /\ UNCHANGED metricVars => MetricsIInv'
  /\ ResponsesIInv /\ UNCHANGED responseVars => ResponsesIInv'
<1>1. ListingIInv /\ UNCHANGED listingVars => ListingIInv'
  BY DEF listingVars, ListingIInv, StoringIsStored, GoneIsGone, ListedOrUnderWay, IsListed,
         Unlisting, Gone, Listing!Busy, Listing!Storing, Listing!Deleting
<1>2. CacheIInv /\ UNCHANGED cacheVars => CacheIInv'
  BY DEF cacheVars, CacheIInv, Cache!MemoryIsNotUnderstated, Cache!Taken, Cache!Uncounted
<1>3. BuffersIInv /\ UNCHANGED bufferVars => BuffersIInv'
  BY DEF bufferVars, BuffersIInv, Asking, Buffers!Is
<1>4. ResponsesIInv /\ UNCHANGED responseVars => ResponsesIInv'
  BY DEF responseVars, ResponsesIInv, ResponsesTyped, Balanced, Holders, Says
<1>5. MetricsIInv /\ UNCHANGED metricVars => MetricsIInv'
  BY MetricsStep
<1>6. QED
  BY <1>1, <1>2, <1>3, <1>4, <1>5

\* A step of the store exercised keeps the invariant of that store, and a step
\* of a service leaves the stores alone.
LEMMA StoresStep == StoresIInv /\ [Next]_vars => StoresIInv'
<1> SUFFICES ASSUME StoresIInv, [Next]_vars PROVE StoresIInv'
  OBVIOUS
<1>1. CASE part = "streamStore" /\ Listing!Next /\ UNCHANGED part
  BY <1>1, ListingStep DEF StoresIInv
<1>2. CASE part = "cache" /\ Cache!Next /\ UNCHANGED part
  BY <1>2, CacheStep DEF StoresIInv
<1>3. CASE part = "buffers" /\ Buffers!Next /\ UNCHANGED part
  BY <1>3, BuffersStep DEF StoresIInv
<1>4. CASE part = "responses" /\ Responses!Next /\ UNCHANGED part
  BY <1>4, ResponsesStep DEF StoresIInv
<1>5. CASE part = "metrics" /\ Metrics!Next /\ UNCHANGED part
  BY <1>5, MetricsStep DEF StoresIInv
<1>6. CASE UNCHANGED << part, storeVars >>
  BY <1>6, StoresStand DEF StoresIInv, storeVars
<1>7. QED
  BY <1>1, <1>2, <1>3, <1>4, <1>5, <1>6 DEF Next, Kept, vars

\* Each of the five stores keeps its inductive invariant (StreamStore,
\* CacheStore, BufferPool, MetricsCollector, WebResponses), for every value of
\* the constants the assumptions allow.
THEOREM StoresInvariant == Spec => []StoresIInv
BY StoresInit, StoresStep, PTL DEF Spec

\* A store holds what it says it holds: streams nobody raced for are listed
\* when they are stored (stream_store.rs), the cache never reports less memory
\* than its entries take (cache.rs), a buffer is as large as was asked for and
\* is counted once (buffer_pool.rs), and a response holds the headers, events
\* and frames of its own builder and nothing of an object used before
\* (object_pool.rs, response builders), for any number of callers, keys, sizes,
\* threads, headers and frames.
THEOREM StoresHoldWhatTheySay == Spec => []HoldsWhatItSays
<1>1. StoresIInv => HoldsWhatItSays
  <2>1. CacheIInv => Cache!MemoryIsNotUnderstated
    BY DEF CacheIInv
  <2>2. QED
    BY <2>1, ListingAgrees, BuffersAreLargeEnough, BuffersAddUp, ResponsesAreKept
    DEF StoresIInv, HoldsWhatItSays
<1>2. QED
  BY <1>1, StoresInvariant, PTL

\* The metrics agree with each other (metrics_collector.rs): the gauges of
\* active sessions and streams differ from the entries, kept under another lock,
\* by the calls between the two and by nothing else; no session counts more
\* streams than it has or is being given; when nobody is in a call, Prometheus
\* shows the sessions the in-memory collector shows if none has metadata, and
\* never fewer streams, and the average is not above the longest duration
\* recorded; for any number of callers, sessions and streams and any durations.
THEOREM TablesDoAgree == Spec => []TablesAgree
<1>1. StoresIInv => TablesAgree
  BY GaugesDoAgree, CollectorsDoAgree, AverageIsWithin DEF StoresIInv, TablesAgree
<1>2. QED
  BY <1>1, StoresInvariant, PTL
=============================================================================
