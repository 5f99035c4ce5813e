--------------------------- MODULE Services_proofs ---------------------------
(***************************************************************************)
(* What the services promise whoever calls them, proved for any number of  *)
(* subscribers, callers and clients and for batches of any size.           *)
(***************************************************************************)
EXTENDS Services, FiniteSetTheorems, TLAPS

-----------------------------------------------------------------------------
(* The event service *)

\* The last event handed in before the batch being published
Before == handed - Len(serviceCall.batch)

\* The last event subscriber s was told of at the most, as far as the call is
Latest(s) ==
  IF s < serviceCall.subscriber THEN Before + serviceCall.event ELSE Before + serviceCall.event - 1

\* The call goes through its batch, the newest events there are, and through
\* the subscribers.
CallIsUnderWay ==
  /\ serviceCall \in [batch : Seq(Nat), event : Nat, subscriber : Nat]
  /\ serviceCall.event \in 1 .. Len(serviceCall.batch) + 1
  /\ \/ serviceCall.subscriber = 1
     \/ serviceCall.subscriber \in 1 .. subscribers /\ serviceCall.event <= Len(serviceCall.batch)
  /\ Before \in Nat
  /\ \A i \in 1 .. Len(serviceCall.batch) : serviceCall.batch[i] = Before + i

\* Nothing is stored before its batch has been told of, and nobody has
\* subscribed during a call.
StoreIsBehind ==
  /\ stored \in Seq(Nat)
  /\ Events!Increasing(stored)
  /\ \A i \in DOMAIN stored : stored[i] <= Before
  /\ \A s \in 1 .. subscribers : since[s] <= Before

\* A subscriber is told in order and no further than the call is.
ToldInOrder ==
  \A s \in 1 .. MaxSubscribers :
    /\ Events!Increasing(told[s])
    /\ \A i \in DOMAIN told[s] : told[s][i] <= Latest(s)

ToldTo(s) == {told[s][j] : j \in DOMAIN told[s]}

\* A subscriber knows what was stored in its time, and so much of the batch.
ToldSoFar ==
  \A s \in 1 .. subscribers :
    /\ \A i \in DOMAIN stored : stored[i] > since[s] => stored[i] \in ToldTo(s)
    /\ \A e \in Before + 1 .. Latest(s) : e \in ToldTo(s)

EventsIInv ==
  /\ subscribers \in 0 .. MaxSubscribers /\ handed \in Nat
  /\ since \in [1 .. MaxSubscribers -> Nat]
  /\ told \in [1 .. MaxSubscribers -> Seq(Nat)]
  /\ CallIsUnderWay /\ StoreIsBehind /\ ToldInOrder /\ ToldSoFar

\* Appending a greater number to an increasing sequence leaves it increasing.
LEMMA AppendedIncreases ==
  ASSUME NEW s \in Seq(Nat), NEW n \in Nat, Events!Increasing(s),
         \A i \in DOMAIN s : s[i] < n
  PROVE  Events!Increasing(Append(s, n))
BY DEF Events!Increasing

\* So does appending a batch of events that come after all of them.
LEMMA ExtendedIncreases ==
  ASSUME NEW s \in Seq(Nat), NEW b \in Seq(Nat), NEW n \in Nat, Events!Increasing(s),
         \A i \in DOMAIN s : s[i] <= n, \A i \in 1 .. Len(b) : b[i] = n + i
  PROVE  /\ s \o b \in Seq(Nat) /\ Events!Increasing(s \o b)
         /\ \A i \in DOMAIN (s \o b) :
              \/ i \in DOMAIN s /\ (s \o b)[i] = s[i]
              \/ (s \o b)[i] \in n + 1 .. n + Len(b)
<1> DEFINE r == s \o b
<1>1. /\ r \in Seq(Nat) /\ Len(r) = Len(s) + Len(b) /\ Len(s) \in Nat /\ Len(b) \in Nat
      /\ DOMAIN r = 1 .. Len(s) + Len(b)
  OBVIOUS
<1>2. \A i \in 1 .. Len(s) : r[i] = s[i] /\ r[i] <= n /\ r[i] \in Nat
  OBVIOUS
<1>3. \A i \in Len(s) + 1 .. Len(s) + Len(b) : r[i] = b[i - Len(s)]
  OBVIOUS
<1>4. \A i \in Len(s) + 1 .. Len(s) + Len(b) : r[i] = n + (i - Len(s))
  BY <1>1, <1>3
<1> HIDE DEF r
<1>5. Events!Increasing(r)
  <2> SUFFICES ASSUME NEW i \in 1 .. Len(s) + Len(b), NEW j \in 1 .. Len(s) + Len(b), i < j
               PROVE  r[i] < r[j]
    BY <1>1 DEF Events!Increasing
  <2>1. CASE j \in 1 .. Len(s)
    <3>1. s[i] < s[j]
      BY <1>1, <2>1, SMTT(30) DEF Events!Increasing
    <3>2. i \in 1 .. Len(s)
      BY <1>1, <2>1
    <3>3. r[i] = s[i] /\ r[j] = s[j]
      BY <1>2, <2>1, <3>2
    <3>4. QED
      BY <3>1, <3>3
  <2>2. CASE j \in Len(s) + 1 .. Len(s) + Len(b)
    <3>1. r[j] = n + (j - Len(s))
      BY <1>4, <2>2
    <3>2. CASE i \in 1 .. Len(s)
      <4>1. r[i] <= n /\ r[i] \in Nat
        BY <1>2, <3>2
      <4>2. n < n + (j - Len(s)) /\ n + (j - Len(s)) \in Nat
        BY <1>1, <2>2
      <4>3. QED
        BY <3>1, <4>1, <4>2
    <3>3. CASE i \in Len(s) + 1 .. Len(s) + Len(b)
      BY <1>1, <1>4, <2>2, <3>1, <3>3
    <3>4. QED
      BY <1>1, <3>2, <3>3
  <2>3. QED
    BY <1>1, <2>1, <2>2
<1>6. ASSUME NEW i \in DOMAIN r
      PROVE  \/ i \in DOMAIN s /\ r[i] = s[i]
             \/ r[i] \in n + 1 .. n + Len(b)
  <2>1. CASE i \in 1 .. Len(s)
    BY <1>2, <2>1
  <2>2. CASE i \in Len(s) + 1 .. Len(s) + Len(b)
    BY <1>1, <1>4, <2>2
  <2>3. QED
    BY <1>1, <2>1, <2>2
<1>7. QED
  BY <1>1, <1>5, <1>6 DEF r

\* At rest the bounds are those of a call that is over.
LEMMA AtRest ==
  ASSUME EventsIInv, serviceCall = Events!Idle
  PROVE  /\ Before = handed /\ Len(serviceCall.batch) = 0
         /\ \A s \in 1 .. MaxSubscribers : Latest(s) = handed
BY DEF Before, Latest, Events!Idle, EventsIInv

\* Before anything has happened
LEMMA EventsInit == Events!Init => EventsIInv
<1> SUFFICES ASSUME Events!Init PROVE EventsIInv
  OBVIOUS
<1>1. /\ subscribers = 0 /\ stored = << >> /\ handed = 0
      /\ since = [s \in 1 .. MaxSubscribers |-> 0]
      /\ told = [s \in 1 .. MaxSubscribers |-> << >>]
      /\ serviceCall = [batch |-> << >>, event |-> 1, subscriber |-> 1]
  BY DEF Events!Init, Events!Idle, Events!Subscriber
<1>2. Len(serviceCall.batch) = 0
  BY <1>1
<1>3. Before = 0
  BY <1>1, <1>2, 0 - 0 = 0 DEF Before
<1>4. CallIsUnderWay
  BY <1>1, <1>2, <1>3 DEF CallIsUnderWay
<1>5. StoreIsBehind
  BY <1>1 DEF StoreIsBehind, Events!Increasing
<1>6. ToldInOrder
  BY <1>1 DEF ToldInOrder, Events!Increasing
<1>7. ToldSoFar
  BY <1>1 DEF ToldSoFar
<1>8. QED
  BY <1>1, <1>4, <1>5, <1>6, <1>7, EventsAssumption DEF EventsIInv

\* The bounds of a call, one by one
LEMMA CallBounds ==
  ASSUME EventsIInv
  PROVE  /\ MaxSubscribers \in Nat /\ subscribers \in Nat /\ subscribers <= MaxSubscribers
         /\ handed \in Nat /\ Before \in Nat /\ handed = Before + Len(serviceCall.batch)
         /\ serviceCall.batch \in Seq(Nat) /\ Len(serviceCall.batch) \in Nat
         /\ serviceCall.event \in Nat /\ serviceCall.subscriber \in Nat
         /\ 1 <= serviceCall.event /\ serviceCall.event <= Len(serviceCall.batch) + 1
         /\ serviceCall.subscriber = 1 \/ serviceCall.event <= Len(serviceCall.batch)
         /\ 1 <= serviceCall.subscriber
         /\ serviceCall.subscriber = 1 \/ serviceCall.subscriber <= subscribers
         /\ \A s \in 1 .. subscribers : s \in 1 .. MaxSubscribers
<1>1. /\ serviceCall.batch \in Seq(Nat) /\ Len(serviceCall.batch) \in Nat
      /\ serviceCall.event \in Nat /\ serviceCall.subscriber \in Nat
  BY DEF EventsIInv, CallIsUnderWay
<1>2. MaxSubscribers \in Nat /\ subscribers \in Nat /\ subscribers <= MaxSubscribers /\ handed \in Nat
  BY EventsAssumption DEF EventsIInv
<1>3. Before \in Nat
  BY DEF EventsIInv, CallIsUnderWay
<1>4. handed = Before + Len(serviceCall.batch)
  BY <1>1, <1>2 DEF Before
<1>5. /\ serviceCall.event \in 1 .. Len(serviceCall.batch) + 1
      /\ \/ serviceCall.subscriber = 1
         \/ serviceCall.subscriber \in 1 .. subscribers /\ serviceCall.event <= Len(serviceCall.batch)
  BY DEF EventsIInv, CallIsUnderWay
<1>6. QED
  BY <1>1, <1>2, <1>3, <1>4, <1>5

\* Nobody has been told of more than has been handed in.
LEMMA NobodyIsAhead ==
  ASSUME EventsIInv, NEW s \in 1 .. MaxSubscribers
  PROVE  /\ Before <= handed
         /\ Latest(s) <= handed /\ Latest(s) \in Nat
<1>1. CASE s < serviceCall.subscriber
  <2>1. Latest(s) = Before + serviceCall.event
    BY <1>1 DEF Latest
  <2>2. s # 0 /\ serviceCall.subscriber # 1
    BY <1>1, CallBounds
  <2>3. QED
    BY <2>1, <2>2, CallBounds, SMTT(30)
<1>2. CASE ~(s < serviceCall.subscriber)
  <2>1. Latest(s) = Before + serviceCall.event - 1
    BY <1>2 DEF Latest
  <2>2. QED
    BY <2>1, CallBounds, SMTT(30)
<1>3. QED
  BY <1>1, <1>2

\* A call that ends, one way or the other, leaves nobody behind.
LEMMA CallEnds ==
  ASSUME EventsIInv, serviceCall' = Events!Idle, UNCHANGED << subscribers, since, told, handed >>,
         \/ UNCHANGED stored
         \/ /\ stored' = stored \o serviceCall.batch
            /\ serviceCall.event > Len(serviceCall.batch) \/ subscribers = 0
  PROVE  EventsIInv'
<1>0. /\ CallIsUnderWay /\ StoreIsBehind /\ ToldInOrder /\ ToldSoFar
      /\ CallIsUnderWay' /\ StoreIsBehind' /\ ToldInOrder' /\ ToldSoFar' => EventsIInv'
  BY DEF EventsIInv
<1>1. /\ Before' = handed /\ serviceCall' = [batch |-> << >>, event |-> 1, subscriber |-> 1]
      /\ Len(serviceCall'.batch) = 0
  <2>1. serviceCall' = [batch |-> << >>, event |-> 1, subscriber |-> 1]
    BY DEF Events!Idle
  <2>2. Len(serviceCall'.batch) = 0 /\ handed' = handed /\ handed \in Nat
    BY <2>1, CallBounds
  <2>3. QED
    BY <2>1, <2>2 DEF Before
<1>2. CallIsUnderWay'
  BY <1>1, CallBounds DEF CallIsUnderWay
<1>3. ToldInOrder'
  <2>1. \A s \in 1 .. MaxSubscribers : Latest(s)' = handed
    BY <1>1, CallBounds DEF Latest
  <2>2. \A s \in 1 .. MaxSubscribers : told[s] \in Seq(Nat) /\ Latest(s) <= handed /\ Latest(s) \in Nat
    BY NobodyIsAhead DEF EventsIInv
  <2> SUFFICES ASSUME NEW s \in 1 .. MaxSubscribers
               PROVE  /\ Events!Increasing(told[s])
                      /\ \A i \in DOMAIN told[s] : told[s][i] <= handed
    BY <2>1 DEF ToldInOrder
  <2>3. Events!Increasing(told[s]) /\ \A i \in DOMAIN told[s] : told[s][i] <= Latest(s)
    BY <1>0 DEF ToldInOrder
  <2>4. /\ told[s] \in Seq(Nat) /\ Latest(s) <= handed /\ Latest(s) \in Nat /\ handed \in Nat
        /\ \A i \in DOMAIN told[s] : told[s][i] \in Nat
    BY <2>2, CallBounds
  <2>5. QED
    BY <2>3, <2>4
<1>4. \A s \in 1 .. subscribers : \A e \in Before' + 1 .. Latest(s)' : FALSE
  BY <1>1, CallBounds DEF Latest
<1>5. \A s \in 1 .. subscribers : s \in 1 .. MaxSubscribers /\ since[s] <= Before'
  <2> SUFFICES ASSUME NEW s \in 1 .. subscribers
               PROVE  s \in 1 .. MaxSubscribers /\ since[s] <= handed
    BY <1>1
  <2>1. s \in 1 .. MaxSubscribers
    BY CallBounds
  <2>2. since[s] <= Before
    BY <1>0 DEF StoreIsBehind
  <2>3. since[s] \in Nat
    BY <2>1 DEF EventsIInv
  <2>4. QED
    BY <2>1, <2>2, <2>3, CallBounds, SMTT(30)
<1>6. CASE UNCHANGED stored
  <2>1. StoreIsBehind'
    <3>1. Before <= handed /\ Before \in Nat
      BY CallBounds
    <3>2. QED
      BY <1>0, <1>1, <1>5, <1>6, <3>1, CallBounds DEF StoreIsBehind
  <2>2. ToldSoFar'
    BY <1>0, <1>4, <1>6 DEF ToldSoFar, ToldTo
  <2>3. QED
    BY <1>0, <1>2, <1>3, <2>1, <2>2
<1>7. CASE /\ stored' = stored \o serviceCall.batch
           /\ serviceCall.event > Len(serviceCall.batch) \/ subscribers = 0
  <2> DEFINE b == serviceCall.batch
  <2>1. /\ b \in Seq(Nat) /\ stored \in Seq(Nat) /\ Len(b) \in Nat
        /\ Before \in Nat /\ handed = Before + Len(b)
        /\ \A i \in 1 .. Len(b) : b[i] = Before + i
    BY <1>0, CallBounds DEF CallIsUnderWay, StoreIsBehind
  <2>2. /\ stored' \in Seq(Nat) /\ Events!Increasing(stored')
        /\ \A i \in DOMAIN stored' :
             \/ i \in DOMAIN stored /\ stored'[i] = stored[i]
             \/ stored'[i] \in Before + 1 .. Before + Len(b)
    <3>1. stored' = stored \o b
      BY <1>7
    <3>2. \A i \in DOMAIN stored : stored[i] <= Before
      BY <1>0 DEF StoreIsBehind
    <3>3. Events!Increasing(stored)
      BY <1>0 DEF StoreIsBehind
    <3> HIDE DEF b
    <3>4. QED
      BY <2>1, <3>1, <3>2, <3>3, ExtendedIncreases
  <2>3. StoreIsBehind'
    <3>1. ASSUME NEW i \in DOMAIN stored' PROVE stored'[i] <= handed
      <4>1. CASE i \in DOMAIN stored /\ stored'[i] = stored[i]
        <5>1. stored[i] <= Before /\ stored[i] \in Nat
          BY <1>0, <2>1, <4>1 DEF StoreIsBehind
        <5>2. QED
          BY <2>1, <4>1, <5>1, CallBounds
      <4>2. CASE stored'[i] \in Before + 1 .. Before + Len(b)
        BY <2>1, <4>2, CallBounds
      <4>3. QED
        BY <2>2, <4>1, <4>2
    <3>2. QED
      BY <1>1, <1>5, <2>2, <3>1 DEF StoreIsBehind, Events!Increasing
  <2>4. ToldSoFar'
    <3> SUFFICES ASSUME NEW s \in 1 .. subscribers, NEW i \in DOMAIN stored',
                        stored'[i] > since[s]
                 PROVE  stored'[i] \in ToldTo(s)
      BY <1>4 DEF ToldSoFar, ToldTo
    <3>1. CASE i \in DOMAIN stored /\ stored'[i] = stored[i]
      BY <1>0, <3>1 DEF ToldSoFar
    <3>2. CASE stored'[i] \in Before + 1 .. Before + Len(b)
      <4>1. subscribers # 0
        BY CallBounds
      <4>2. serviceCall.event = Len(serviceCall.batch) + 1 /\ serviceCall.subscriber = 1
        BY <1>7, <4>1, CallBounds, SMTT(30)
      <4>3. ~(s < serviceCall.subscriber)
        BY <4>2, CallBounds
      <4>4. Latest(s) = Before + Len(b)
        BY <2>1, <4>2, <4>3 DEF Latest
      <4>5. stored'[i] \in Before + 1 .. Latest(s)
        BY <3>2, <4>4
      <4>6. QED
        BY <1>0, <4>5 DEF ToldSoFar
    <3>3. QED
      BY <2>2, <3>1, <3>2
  <2>5. QED
    BY <1>0, <1>2, <1>3, <2>3, <2>4
<1>8. QED
  BY <1>6, <1>7

\* How far a subscriber may have been told moves with the call only for the one
\* that is told.
LEMMA BoundMoves ==
  ASSUME NEW n \in Nat, NEW e \in Nat, 1 <= e, NEW to \in Nat, NEW last \in Nat, NEW s \in Nat,
         NEW old, NEW new, to <= last,
         s < to => old = n + e, ~(s < to) => old = n + e - 1,
         to = last => new = n + e,
         to < last => (s < to + 1 => new = n + e) /\ (~(s < to + 1) => new = n + e - 1)
  PROVE  /\ old <= new /\ old \in Nat /\ new \in Nat
         /\ s = to => old = n + e - 1 /\ new = n + e
         /\ s <= last /\ s # to => new = old
<1>1. CASE s < to
  <2>1. old = n + e /\ new = n + e
    BY <1>1
  <2>2. QED
    BY <1>1, <2>1
<1>2. CASE s = to
  <2>1. old = n + e - 1 /\ new = n + e
    BY <1>2
  <2>2. QED
    BY <1>2, <2>1
<1>3. CASE s > to
  <2>1. old = n + e - 1 
    BY <1>3
  <2>2. new = n + e - 1 \/ (new = n + e /\ to = last)
    BY <1>3
  <2>3. QED
    BY <1>3, <2>1, <2>2
<1>4. QED
  BY <1>1, <1>2, <1>3

\* One more event for one subscriber
LEMMA TellStep ==
  ASSUME EventsIInv, Events!Tell
  PROVE  EventsIInv'
<1> DEFINE to == serviceCall.subscriber
           b  == serviceCall.batch
           e  == serviceCall.event
<1>0. ~(serviceCall.event > Len(serviceCall.batch)) /\ subscribers # 0
  BY DEF Events!Tell, Events!AllTold
<1>1. /\ to \in 1 .. subscribers /\ to \in 1 .. MaxSubscribers
      /\ e \in 1 .. Len(b) /\ b \in Seq(Nat) /\ b[e] = Before + e /\ Before \in Nat
      /\ subscribers \in Nat /\ Len(b) \in Nat /\ MaxSubscribers \in Nat
  BY <1>0, CallBounds, SMTT(30) DEF EventsIInv, CallIsUnderWay
<1>2. /\ told' = [told EXCEPT ![to] = Append(@, b[e])]
      /\ UNCHANGED << subscribers, since, stored, handed >>
      /\ serviceCall' = Events!AfterTelling
  BY DEF Events!Tell
<1>3. /\ serviceCall'.batch = b
      /\ \/ to = subscribers /\ serviceCall'.event = e + 1 /\ serviceCall'.subscriber = 1
         \/ to < subscribers /\ serviceCall'.event = e /\ serviceCall'.subscriber = to + 1
      /\ serviceCall' \in [batch : Seq(Nat), event : Nat, subscriber : Nat]
  <2>0. e + 1 \in Nat /\ to + 1 \in Nat
    BY <1>1, SMTT(30)
  <2>1. serviceCall \in [batch : Seq(Nat), event : Nat, subscriber : Nat]
    BY DEF EventsIInv, CallIsUnderWay
  <2>2. CASE to = subscribers
    <3>1. serviceCall' = [serviceCall EXCEPT !.event = e + 1, !.subscriber = 1]
      BY <1>2, <2>2 DEF Events!AfterTelling
    <3>2. QED
      BY <2>0, <2>1, <2>2, <3>1
  <2>3. CASE to # subscribers
    <3>1. serviceCall' = [serviceCall EXCEPT !.subscriber = to + 1]
      BY <1>2, <2>3 DEF Events!AfterTelling
    <3>2. to < subscribers
      BY <1>1, <2>3
    <3>3. QED
      BY <2>0, <2>1, <3>1, <3>2
  <2>4. QED
    BY <2>2, <2>3
<1>4. Before' = Before
  BY <1>2, <1>3 DEF Before
<1>5. CallIsUnderWay'
  <2>1. \A i \in 1 .. Len(b) : b[i] = Before + i
    BY DEF EventsIInv, CallIsUnderWay
  <2>2. serviceCall'.event \in 1 .. Len(b) + 1
    BY <1>1, <1>3
  <2>3. \/ serviceCall'.subscriber = 1
        \/ serviceCall'.subscriber \in 1 .. subscribers /\ serviceCall'.event <= Len(b)
    BY <1>1, <1>3
  <2>4. QED
    BY <1>1, <1>2, <1>3, <1>4, <2>1, <2>2, <2>3 DEF CallIsUnderWay
<1>6. ASSUME NEW s \in 1 .. MaxSubscribers
      PROVE  /\ Latest(s) <= Latest(s)' /\ Latest(s) \in Nat /\ Latest(s)' \in Nat
             /\ s = to => Latest(s) = Before + e - 1 /\ Latest(s)' = Before + e
             /\ s <= subscribers /\ s # to => Latest(s)' = Latest(s)
  <2>1. s < to => Latest(s) = Before + e
    BY DEF Latest
  <2>2. ~(s < to) => Latest(s) = Before + e - 1
    BY DEF Latest
  <2>3. to = subscribers => Latest(s)' = Before + e
    <3>1. CASE to = subscribers
      <4>1. serviceCall'.event = e + 1 /\ serviceCall'.subscriber = 1
        BY <1>1, <1>3, <3>1
      <4>2. ~(s < serviceCall'.subscriber) /\ Before' + serviceCall'.event - 1 = Before + e
        BY <1>1, <1>4, <4>1
      <4>3. QED
        BY <4>2 DEF Latest
    <3>2. QED
      BY <3>1
  <2>4. /\ to < subscribers /\ s < to + 1 => Latest(s)' = Before + e
        /\ to < subscribers /\ ~(s < to + 1) => Latest(s)' = Before + e - 1
    <3>1. CASE to < subscribers
      <4>1. serviceCall'.event = e /\ serviceCall'.subscriber = to + 1
        BY <1>1, <1>3, <3>1
      <4>2. QED
        BY <1>4, <4>1 DEF Latest
    <3>2. QED
      BY <3>1
  <2>5. /\ Before \in Nat /\ e \in Nat /\ 1 <= e /\ to \in Nat /\ subscribers \in Nat
        /\ s \in Nat /\ to <= subscribers
    BY <1>1
  <2> DEFINE old == Latest(s)
             new == Latest(s)'
  <2> HIDE DEF old, new
  <2>6. /\ s < to => old = Before + e
        /\ ~(s < to) => old = Before + e - 1
        /\ to = subscribers => new = Before + e
        /\ to < subscribers => (s < to + 1 => new = Before + e) /\ (~(s < to + 1) => new = Before + e - 1)
    BY <2>1, <2>2, <2>3, <2>4 DEF old, new
  <2>7. /\ old <= new /\ old \in Nat /\ new \in Nat
        /\ s = to => old = Before + e - 1 /\ new = Before + e
        /\ s <= subscribers /\ s # to => new = old
    BY <2>5, <2>6, BoundMoves
  <2>8. QED
    BY <2>7 DEF old, new
<1>7. StoreIsBehind'
  BY <1>2, <1>4 DEF EventsIInv, StoreIsBehind
<1>8. /\ told' \in [1 .. MaxSubscribers -> Seq(Nat)]
      /\ told[to] \in Seq(Nat) /\ told'[to] = Append(told[to], Before + e)
      /\ \A s \in 1 .. MaxSubscribers : s # to => told'[s] = told[s]
  <2>1. told \in [1 .. MaxSubscribers -> Seq(Nat)]
    BY DEF EventsIInv
  <2>2. Append(told[to], b[e]) \in Seq(Nat)
    BY <1>1, <2>1, SMTT(30)
  <2>3. QED
    BY <1>1, <1>2, <2>1, <2>2
<1>9. ToldInOrder'
  <2> SUFFICES ASSUME NEW s \in 1 .. MaxSubscribers
               PROVE  /\ Events!Increasing(told'[s])
                      /\ \A i \in DOMAIN told'[s] : told'[s][i] <= Latest(s)'
    BY DEF ToldInOrder, Events!Increasing
  <2>1. /\ Events!Increasing(told[s]) /\ told[s] \in Seq(Nat)
        /\ \A i \in DOMAIN told[s] : told[s][i] <= Latest(s)
    BY DEF EventsIInv, ToldInOrder
  <2>2. CASE s = to
    <3> DEFINE n == Before + e
               t == told[s]
    <3>0. n \in Nat /\ n - 1 < n /\ t \in Seq(Nat) /\ told'[s] = Append(t, n)
      BY <1>1, <1>8, <2>2, SMTT(30)
    <3>1. Latest(s)' = n /\ Latest(s) = n - 1
      <4>1. s = to => Latest(s) = Before + e - 1 /\ Latest(s)' = Before + e
        BY <1>6
      <4>2. Before + e - 1 = n - 1
        BY <1>1
      <4>3. QED
        BY <2>2, <4>1, <4>2
    <3>2. \A i \in DOMAIN t : t[i] < n
      <4> SUFFICES ASSUME NEW i \in DOMAIN t PROVE t[i] < n
        OBVIOUS
      <4>1. t[i] <= Latest(s) /\ t[i] \in Nat /\ Latest(s) \in Nat
        BY <1>6, <2>1
      <4>2. QED
        BY <3>0, <3>1, <4>1
    <3>3. Events!Increasing(t)
      BY <2>1
    <3> HIDE DEF n, t
    <3>4. Events!Increasing(Append(t, n))
      BY <3>0, <3>2, <3>3, AppendedIncreases
    <3>5. \A i \in DOMAIN Append(t, n) : Append(t, n)[i] <= n
      BY <3>0, <3>2
    <3>6. QED
      BY <3>0, <3>1, <3>4, <3>5
  <2>3. CASE s # to
    <3>1. told'[s] = told[s]
      BY <1>8, <2>3
    <3>2. ASSUME NEW i \in DOMAIN told[s] PROVE told[s][i] <= Latest(s)'
      <4>1. told[s][i] \in Nat /\ told[s][i] <= Latest(s)
        BY <2>1
      <4>2. QED
        BY <1>6, <4>1
    <3>3. QED
      BY <2>1, <3>1, <3>2
  <2>4. QED
    BY <2>2, <2>3
<1>10. ToldSoFar'
  <2>1. \A s \in 1 .. subscribers : ToldTo(s) \subseteq ToldTo(s)'
    <3> SUFFICES ASSUME NEW s \in 1 .. subscribers, NEW j \in DOMAIN told[s]
                 PROVE  j \in DOMAIN told'[s] /\ told'[s][j] = told[s][j]
      BY DEF ToldTo
    <3>1. CASE s = to
      <4>1. told[s] \in Seq(Nat) /\ told'[s] = Append(told[s], Before + e)
        BY <1>8, <3>1
      <4>2. Before + e \in Nat
        BY <1>1
      <4>3. QED
        BY <4>1, <4>2
    <3>2. CASE s # to
      BY <1>8, <3>2, CallBounds
    <3>3. QED
      BY <3>1, <3>2
  <2>2. ASSUME NEW s \in 1 .. subscribers, s = to PROVE Before + e \in ToldTo(s)'
    <3>1. Len(told[to]) + 1 \in DOMAIN told'[to] /\ told'[to][Len(told[to]) + 1] = Before + e
      BY <1>1, <1>8, SMTT(30)
    <3>2. QED
      BY <2>2, <3>1 DEF ToldTo
  <2> SUFFICES ASSUME NEW s \in 1 .. subscribers
               PROVE  /\ \A i \in DOMAIN stored : stored[i] > since[s] => stored[i] \in ToldTo(s)'
                      /\ \A n \in Before + 1 .. Latest(s)' : n \in ToldTo(s)'
    BY <1>2, <1>4 DEF ToldSoFar
  <2>3. \A i \in DOMAIN stored : stored[i] > since[s] => stored[i] \in ToldTo(s)'
    BY <2>1 DEF EventsIInv, ToldSoFar
  <2>4. ASSUME NEW n \in Before + 1 .. Latest(s)' PROVE n \in ToldTo(s)'
    <3>1. CASE n \in Before + 1 .. Latest(s)
      BY <2>1, <3>1 DEF EventsIInv, ToldSoFar
    <3>2. CASE s = to /\ n = Before + e
      BY <2>2, <3>2
    <3>3. s \in 1 .. MaxSubscribers /\ s <= subscribers /\ subscribers \in Nat
      BY CallBounds
    <3>4. s # to => Latest(s)' = Latest(s)
      BY <1>6, <3>3
    <3>5. s = to => Latest(s) = Before + e - 1 /\ Latest(s)' = Before + e
      BY <1>6, <3>3
    <3>6. QED
      BY <1>1, <3>1, <3>2, <3>4, <3>5, SMTT(30)
  <2>5. QED
    BY <2>3, <2>4
<1>11. QED
  BY <1>2, <1>5, <1>7, <1>8, <1>9, <1>10 DEF EventsIInv

\* Every step of the event service keeps its invariant: a batch begins, the
\* next subscriber is told, the call is given up or its batch is stored.
LEMMA EventsStep ==
  ASSUME EventsIInv, Events!Next
  PROVE  EventsIInv'
<1>1. CASE Events!AddSubscriber
  <2>1. /\ subscribers' = subscribers + 1 /\ subscribers < MaxSubscribers
        /\ since' = [since EXCEPT ![subscribers + 1] = handed]
        /\ UNCHANGED << told, stored, serviceCall, handed >>
        /\ subscribers \in Nat /\ MaxSubscribers \in Nat
    BY <1>1, EventsAssumption DEF Events!AddSubscriber, EventsIInv
  <2>2. /\ Before = handed /\ Before' = handed /\ Len(serviceCall.batch) = 0
        /\ \A s \in 1 .. MaxSubscribers : Latest(s) = handed /\ Latest(s)' = handed
        /\ serviceCall.subscriber = 1
    <3>1. serviceCall = Events!Idle
      BY <1>1 DEF Events!AddSubscriber
    <3>2. serviceCall.subscriber = 1
      BY <3>1 DEF Events!Idle
    <3>3. QED
      BY <2>1, <3>1, <3>2, AtRest DEF Before, Latest
  <2>3. CallIsUnderWay'
    BY <2>1, <2>2 DEF EventsIInv, CallIsUnderWay, Before
  <2>4. StoreIsBehind'
    BY <2>1, <2>2 DEF EventsIInv, StoreIsBehind
  <2>5. ToldInOrder'
    BY <2>1, <2>2 DEF EventsIInv, ToldInOrder
  <2>6. ToldSoFar'
    <3> SUFFICES ASSUME NEW s \in 1 .. subscribers + 1, NEW i \in DOMAIN stored,
                        stored[i] > since'[s]
                 PROVE  stored[i] \in ToldTo(s)
      BY <2>1, <2>2 DEF ToldSoFar, ToldTo, EventsIInv
    <3>1. since'[subscribers + 1] = handed /\ stored[i] <= handed /\ stored[i] \in Nat /\ handed \in Nat
      BY <2>1, <2>2, SMTT(30) DEF EventsIInv, StoreIsBehind
    <3>2. s \in 1 .. subscribers /\ since'[s] = since[s]
      BY <2>1, <3>1 DEF EventsIInv
    <3>3. QED
      BY <3>2 DEF EventsIInv, ToldSoFar
  <2>7. QED
    BY <2>1, <2>3, <2>4, <2>5, <2>6 DEF EventsIInv
<1>2. ASSUME NEW n \in BatchSizes, Events!Publish(n) PROVE EventsIInv'
  <2> DEFINE b == [i \in 1 .. n |-> handed + i]
  <2>1. /\ n \in Nat /\ handed \in Nat /\ handed' = handed + n
        /\ serviceCall' = [batch |-> b, event |-> 1, subscriber |-> 1]
        /\ UNCHANGED << subscribers, since, told, stored >>
        /\ serviceCall = Events!Idle
    BY <1>2, EventsAssumption DEF Events!Publish, Events!Idle, EventsIInv
  <2>2. b \in Seq(Nat) /\ Len(b) = n /\ \A i \in 1 .. n : b[i] = handed + i
    BY <2>1
  <2>3. Before = handed /\ Before' = handed
    BY <2>1, <2>2, AtRest DEF Before
  <2>4. \A s \in 1 .. MaxSubscribers : Latest(s) = handed /\ Latest(s)' = handed
    BY <2>1, <2>3, AtRest DEF Latest
  <2>5. CallIsUnderWay'
    BY <2>1, <2>2, <2>3 DEF CallIsUnderWay
  <2>6. StoreIsBehind' /\ ToldInOrder'
    BY <2>1, <2>3, <2>4 DEF EventsIInv, StoreIsBehind, ToldInOrder
  <2>8. ToldSoFar'
    <3>1. \A s \in 1 .. subscribers : s \in 1 .. MaxSubscribers
      BY EventsAssumption DEF EventsIInv
    <3>2. \A s \in 1 .. subscribers : ToldTo(s)' = ToldTo(s)
      BY <2>1 DEF ToldTo
    <3>3. QED
      BY <2>1, <2>3, <2>4, <3>1, <3>2 DEF EventsIInv, ToldSoFar
  <2>7. QED
    BY <2>1, <2>5, <2>6, <2>8 DEF EventsIInv
<1>3. CASE Events!GiveUp
  BY <1>3, CallEnds DEF Events!GiveUp
<1>4. CASE Events!Store
  BY <1>4, CallEnds DEF Events!Store, Events!AllTold
<1>5. QED
  BY <1>1, <1>2, <1>3, <1>4, TellStep DEF Events!Next

-----------------------------------------------------------------------------
(* The event publishers *)

PublisherCall ==
  [batch : Seq(Publishers!Event), to : Nat, step : {"log", "send", "notify"}, event : Nat,
   attempt : Nat, failed : BOOLEAN]

PublisherTypes ==
  /\ destinations \in Seq({"memory", "http"}) /\ failFast \in BOOLEAN /\ attempts \in Nat
  /\ call \in [Caller -> PublisherCall]
  /\ logged \in Seq(Publishers!Event) /\ log \in Seq(Publishers!Event)
  /\ channel \in Seq(Publishers!Event)
  /\ received \in [Publishers!Event -> Nat]
  /\ answered \subseteq Publishers!Event
  /\ handedIn \in Nat

\* The event has come through a destination of the given kind.
Reached(e) == received[e] >= 1

Arrived(kind, e) ==
  /\ kind = "memory" => Publishers!In(e, logged) /\ Publishers!In(e, channel)
  /\ kind = "http" /\ attempts > 0 => Reached(e)

\* The destinations a call is done with have received its batch, unless one of
\* them failed.
DoneWith(r) ==
  r.failed \/ \A k \in 1 .. Len(destinations) :
                k < r.to => \A i \in DOMAIN r.batch : Arrived(destinations[k], r.batch[i])

\* In memory, event by event, first the log and then the channel.
InMemory(r) ==
  /\ \A i \in DOMAIN r.batch : i < r.event => Arrived("memory", r.batch[i])
  /\ r.step \in {"send", "notify"} => Publishers!In(r.batch[r.event], logged)
  /\ r.step = "notify" => Publishers!In(r.batch[r.event], channel)

OneOfItsBatch(r) == r = Publishers!Idle \/ r.event \in DOMAIN r.batch

Promised(r) == DoneWith(r) /\ InMemory(r) /\ OneOfItsBatch(r)

\* An answer is only given when nothing is left to do.
AnsweredArrived ==
  \A e \in answered : \A k \in 1 .. Len(destinations) : Arrived(destinations[k], e)

\* The log is the end of all that was logged, and not too short an end.
Recent(l, g, d) ==
  /\ Len(g) = d + Len(l)
  /\ \A i \in 1 .. Len(l) : l[i] = g[d + i]
  /\ d = 0 \/ Len(l) >= LogLimit - DrainSize

LogIsRecent == Len(log) <= LogLimit /\ \E d \in Nat : Recent(log, logged, d)

PublishersIInv ==
  /\ PublisherTypes
  /\ \A c \in Caller : Promised(call[c])
  /\ AnsweredArrived
  /\ LogIsRecent

\* What has arrived does not go away.
Grows ==
  /\ \A e : Publishers!In(e, logged) => Publishers!In(e, logged')
  /\ \A e : Publishers!In(e, channel) => Publishers!In(e, channel')
  /\ \A e \in Publishers!Event : Reached(e) => Reached(e)'
  /\ UNCHANGED << destinations, attempts >>

\* What has arrived at a destination stays arrived.
LEMMA StaysArrived ==
  ASSUME Grows, NEW kind, NEW e \in Publishers!Event, Arrived(kind, e)
  PROVE  Arrived(kind, e)'
BY DEF Grows, Arrived

\* A caller that does nothing keeps what it has achieved.
LEMMA PromiseStands ==
  ASSUME Grows, NEW d \in Caller, call[d] \in PublisherCall, Promised(call[d]), call'[d] = call[d]
  PROVE  Promised(call[d])'
<1>1. \A i \in DOMAIN call[d].batch : call[d].batch[i] \in Publishers!Event
  BY DEF PublisherCall
<1>2. DoneWith(call[d])'
  BY <1>1, StaysArrived DEF Grows, Promised, DoneWith
<1>3. InMemory(call[d])'
  BY <1>1, StaysArrived DEF Grows, Promised, InMemory
<1>4. QED
  BY <1>2, <1>3 DEF Promised, OneOfItsBatch, Publishers!Idle

\* What a step has to show if it leaves the logs alone: the promise of the caller.
LEMMA OneCallerMoves ==
  ASSUME PublishersIInv, Grows, NEW c \in Caller, NEW r \in PublisherCall,
         call' = [call EXCEPT ![c] = r], Promised(call[c])'
  PROVE  call' \in [Caller -> PublisherCall] /\ \A d \in Caller : Promised(call[d])'
<1>1. call \in [Caller -> PublisherCall] /\ call' \in [Caller -> PublisherCall]
  BY DEF PublishersIInv, PublisherTypes
<1>2. ASSUME NEW d \in Caller, d # c PROVE Promised(call[d])'
  <2>1. call'[d] = call[d] /\ call[d] \in PublisherCall /\ Promised(call[d])
    BY <1>1, <1>2 DEF PublishersIInv
  <2>2. QED
    BY <2>1, PromiseStands
<1>3. QED
  BY <1>1, <1>2

\* What was answered stays true.
LEMMA AnswersStand ==
  ASSUME PublishersIInv, Grows, UNCHANGED answered
  PROVE  AnsweredArrived'
BY StaysArrived DEF PublishersIInv, PublisherTypes, AnsweredArrived, Grows

\* The log stands while nobody touches it.
LEMMA LogStands ==
  ASSUME PublishersIInv, UNCHANGED << log, logged >>
  PROVE  LogIsRecent'
BY DEF PublishersIInv, LogIsRecent

\* Pushing to a sequence adds an element and loses none.
LEMMA Pushed ==
  ASSUME NEW S, NEW s \in Seq(S), NEW x \in S
  PROVE  /\ Append(s, x) \in Seq(S) /\ Publishers!In(x, Append(s, x))
         /\ \A e : Publishers!In(e, s) => Publishers!In(e, Append(s, x))
<1>1. /\ Append(s, x) \in Seq(S) /\ Len(s) + 1 \in DOMAIN Append(s, x) /\ Append(s, x)[Len(s) + 1] = x
      /\ \A i \in DOMAIN s : i \in DOMAIN Append(s, x) /\ Append(s, x)[i] = s[i]
  OBVIOUS
<1>2. QED
  BY <1>1 DEF Publishers!In

\* What touches no destination takes nothing from one.
LEMMA NothingArrives ==
  ASSUME UNCHANGED << destinations, attempts, channel, received, logged >>
  PROVE  Grows
BY DEF Grows, Reached

\* What the invariant says of one caller
LEMMA CallTypes ==
  ASSUME PublishersIInv, NEW c \in Caller
  PROVE  /\ call[c] \in PublisherCall /\ Promised(call[c])
         /\ call[c].batch \in Seq(Publishers!Event) /\ call[c].event \in Nat /\ call[c].to \in Nat
         /\ Publishers!Busy(c) => call[c].event \in DOMAIN call[c].batch
<1>1. call[c] \in PublisherCall /\ Promised(call[c])
  BY DEF PublishersIInv, PublisherTypes
<1>2. QED
  BY <1>1 DEF PublisherCall, Promised, OneOfItsBatch, Publishers!Busy

\* The call that publishes a batch begins with its first event at the first
\* destination.
LEMMA WithBatch ==
  ASSUME NEW b \in Seq(Publishers!Event), NEW r, r = [Publishers!Idle EXCEPT !.batch = b]
  PROVE  /\ r \in PublisherCall /\ r.batch = b /\ r.to = 1 /\ r.event = 1
         /\ r.step = "log" /\ r.failed = FALSE
<1>1. /\ Publishers!Idle \in PublisherCall /\ Publishers!Idle.to = 1 /\ Publishers!Idle.event = 1
      /\ Publishers!Idle.step = "log" /\ Publishers!Idle.failed = FALSE
  BY DEF Publishers!Idle, PublisherCall
<1>2. QED
  BY <1>1 DEF PublisherCall

\* A caller hands in a batch of new events.
LEMMA PublishStep ==
  ASSUME PublishersIInv, NEW c \in Caller, NEW n \in BatchSizes, Publishers!Publish(c, n)
  PROVE  PublishersIInv'
<1> DEFINE b == [i \in 1 .. n |-> handedIn + i]
           r == [Publishers!Idle EXCEPT !.batch = b]
<1>1. /\ handedIn' = handedIn + n /\ handedIn + n <= MaxPublished
      /\ UNCHANGED << destinations, failFast, attempts, log, channel, received, logged, answered >>
      /\ call' = [call EXCEPT ![c] = r]
  BY DEF Publishers!Publish, Publishers!Becomes
<1>2. n \in Nat /\ handedIn \in Nat /\ handedIn' \in Nat
  BY <1>1, EventsAssumption DEF PublishersIInv, PublisherTypes
<1>3. b \in Seq(Publishers!Event) /\ DOMAIN b = 1 .. n
  <2>1. \A i \in 1 .. n : handedIn + i \in 1 .. MaxPublished
    BY <1>1, <1>2, PublishersAssumption
  <2>2. QED
    BY <1>2, <2>1 DEF Publishers!Event
<1> HIDE DEF b
<1>4. /\ r \in PublisherCall /\ r.batch = b /\ r.to = 1 /\ r.event = 1
      /\ r.step = "log" /\ r.failed = FALSE
  BY <1>3, WithBatch
<1>5. Grows
  BY <1>1, NothingArrives
<1>6. call'[c] = r
  BY <1>1 DEF PublishersIInv, PublisherTypes
<1> HIDE DEF r
<1>7. DoneWith(call[c])'
  BY <1>4, <1>6 DEF DoneWith
<1>8. InMemory(call[c])'
  BY <1>3, <1>4, <1>6 DEF InMemory
<1>9. OneOfItsBatch(call[c])'
  <2>1. CASE n = 0
    <3>1. b = << >>
      BY <1>3, <2>1
    <3>2. QED
      BY <1>6, <3>1 DEF OneOfItsBatch, Publishers!Idle, r
  <2>2. CASE n # 0
    BY <1>2, <1>3, <1>4, <1>6, <2>2 DEF OneOfItsBatch
  <2>3. QED
    BY <2>1, <2>2
<1>10. /\ call' \in [Caller -> PublisherCall] /\ \A d \in Caller : Promised(call[d])'
  BY <1>1, <1>4, <1>5, <1>7, <1>8, <1>9, OneCallerMoves DEF Promised
<1>11. QED
  BY <1>1, <1>2, <1>5, <1>10, AnswersStand, LogStands DEF PublishersIInv, PublisherTypes

\* How the log l of what was logged, g, is one event later
Shortened(l) ==
  IF Len(l) > LogLimit THEN SubSeq(l, DrainSize + 1, Len(l)) ELSE l

\* Logging one more event, and draining a full log, leaves the newest.
LEMMA StillRecent ==
  ASSUME NEW S, NEW l \in Seq(S), NEW g \in Seq(S), NEW x \in S, NEW d \in Nat,
         Len(l) <= LogLimit, Recent(l, g, d)
  PROVE  /\ Shortened(Append(l, x)) \in Seq(S) /\ Len(Shortened(Append(l, x))) <= LogLimit
         /\ \E e \in Nat : Recent(Shortened(Append(l, x)), Append(g, x), e)
<1> DEFINE longer == Append(l, x)
           h == Append(g, x)
<1>1. /\ LogLimit \in Nat /\ DrainSize \in Nat /\ 1 <= DrainSize /\ DrainSize <= LogLimit
      /\ Len(l) \in Nat /\ Len(g) \in Nat
      /\ Len(g) = d + Len(l)
      /\ d = 0 \/ Len(l) >= LogLimit - DrainSize
  BY PublishersAssumption DEF Recent
<1>2. /\ longer \in Seq(S) /\ Len(longer) = Len(l) + 1 /\ h \in Seq(S) /\ Len(h) = Len(g) + 1
      /\ \A i \in 1 .. Len(l) : longer[i] = l[i]
      /\ \A i \in 1 .. Len(g) : h[i] = g[i]
      /\ longer[Len(l) + 1] = x /\ h[Len(g) + 1] = x
  OBVIOUS
<1> HIDE DEF longer, h
<1>3. ASSUME NEW i \in 1 .. Len(l) + 1 PROVE longer[i] = h[d + i]
  <2>1. CASE i \in 1 .. Len(l)
    <3>1. d + i \in 1 .. Len(g)
      BY <1>1, <2>1
    <3>2. l[i] = g[d + i]
      BY <2>1 DEF Recent
    <3>3. QED
      BY <1>2, <2>1, <3>1, <3>2
  <2>2. CASE i = Len(l) + 1
    <3>1. d + i = Len(g) + 1
      BY <1>1, <2>2
    <3>2. QED
      BY <1>2, <2>2, <3>1
  <2>3. QED
    BY <1>1, <2>1, <2>2
<1>4. CASE Len(l) + 1 <= LogLimit
  <2>1. Shortened(longer) = longer
    <3>1. ~(Len(longer) > LogLimit)
      BY <1>1, <1>2, <1>4
    <3>2. QED
      BY <3>1 DEF Shortened
  <2>2. Len(h) = d + Len(longer) /\ (d = 0 \/ Len(longer) >= LogLimit - DrainSize)
    BY <1>1, <1>2
  <2>3. Recent(longer, h, d)
    BY <1>2, <1>3, <2>2 DEF Recent
  <2>4. Len(longer) <= LogLimit
    BY <1>2, <1>4
  <2>5. QED
    BY <1>2, <2>1, <2>3, <2>4 DEF longer, h
<1>5. CASE Len(l) = LogLimit
  <2> DEFINE s == SubSeq(longer, DrainSize + 1, Len(longer))
  <2>1. Shortened(longer) = s
    <3>1. Len(longer) > LogLimit
      BY <1>1, <1>2, <1>5
    <3>2. QED
      BY <3>1 DEF Shortened
  <2>2. /\ s \in Seq(S) /\ Len(s) = LogLimit + 1 - DrainSize
        /\ \A i \in 1 .. LogLimit + 1 - DrainSize : s[i] = longer[DrainSize + i]
    BY <1>1, <1>2, <1>5
  <2>3. ASSUME NEW i \in 1 .. LogLimit + 1 - DrainSize PROVE s[i] = h[(d + DrainSize) + i]
    <3>1. DrainSize + i \in 1 .. Len(l) + 1 /\ d + (DrainSize + i) = (d + DrainSize) + i
      BY <1>1, <1>5
    <3>2. longer[DrainSize + i] = h[d + (DrainSize + i)]
      BY <1>3, <3>1
    <3>3. QED
      BY <2>2, <3>1, <3>2
  <2> HIDE DEF s
  <2>4. /\ Len(h) = (d + DrainSize) + Len(s) /\ Len(s) <= LogLimit
        /\ Len(s) >= LogLimit - DrainSize /\ d + DrainSize \in Nat
    BY <1>1, <1>2, <1>5, <2>2
  <2>5. \A i \in 1 .. Len(s) : s[i] = h[(d + DrainSize) + i]
    BY <2>2, <2>3
  <2>6. Recent(s, h, d + DrainSize)
    BY <2>4, <2>5 DEF Recent
  <2>7. QED
    BY <2>1, <2>2, <2>4, <2>6 DEF longer, h
<1>6. Len(l) + 1 <= LogLimit \/ Len(l) = LogLimit
  BY <1>1
<1>7. QED
  BY <1>4, <1>5, <1>6

\* The in-memory publisher writes the event into its log.
LEMMA LogStep ==
  ASSUME PublishersIInv, NEW c \in Caller, Publishers!Log(c)
  PROVE  PublishersIInv'
<1> DEFINE x == call[c].batch[call[c].event]
           r == [call[c] EXCEPT !.step = "send"]
           longer == Append(log, x)
<1>1. /\ call' = [call EXCEPT ![c] = r] /\ logged' = Append(logged, x)
      /\ log' = IF Len(longer) > LogLimit THEN SubSeq(longer, DrainSize + 1, Len(longer)) ELSE longer
      /\ UNCHANGED << destinations, failFast, attempts, channel, received, answered, handedIn >>
      /\ Publishers!Busy(c)
  BY DEF Publishers!Log, Publishers!Becomes, Publishers!At, Publishers!Current
<1>2. x \in Publishers!Event /\ r \in PublisherCall
  <2>1. x \in Publishers!Event
    BY <1>1, CallTypes
  <2>2. r \in PublisherCall
    BY CallTypes DEF PublisherCall
  <2>3. QED
    BY <2>1, <2>2
<1>3. /\ logged' \in Seq(Publishers!Event) /\ Publishers!In(x, logged')
      /\ \A e : Publishers!In(e, logged) => Publishers!In(e, logged')
  BY <1>1, <1>2, Pushed DEF PublishersIInv, PublisherTypes
<1>4. Grows
  BY <1>1, <1>3 DEF Grows, Reached
<1>5. call'[c] = r
  BY <1>1 DEF PublishersIInv, PublisherTypes
<1>6. /\ call'[c].batch = call[c].batch /\ call'[c].to = call[c].to /\ call'[c].step = "send"
      /\ call'[c].event = call[c].event /\ call'[c].failed = call[c].failed
  BY <1>5, CallTypes DEF PublisherCall
<1>7. Promised(call[c])'
  <2>1. \A i \in DOMAIN call[c].batch : call[c].batch[i] \in Publishers!Event
    BY CallTypes
  <2>2. DoneWith(call[c])'
    BY <1>1, <1>4, <1>6, <2>1, CallTypes, StaysArrived DEF Promised, DoneWith
  <2>3. InMemory(call[c])'
    BY <1>3, <1>4, <1>6, <2>1, CallTypes, StaysArrived DEF Promised, InMemory
  <2>4. OneOfItsBatch(call[c])'
    BY <1>1, <1>6, CallTypes DEF OneOfItsBatch
  <2>5. QED
    BY <2>2, <2>3, <2>4 DEF Promised
<1>8. /\ call' \in [Caller -> PublisherCall] /\ \A d \in Caller : Promised(call[d])'
  BY <1>1, <1>2, <1>4, <1>7, OneCallerMoves
<1>9. LogIsRecent' /\ log' \in Seq(Publishers!Event)
  <2>1. log' = Shortened(Append(log, x))
    BY <1>1 DEF Shortened
  <2>2. log \in Seq(Publishers!Event) /\ logged \in Seq(Publishers!Event) /\ Len(log) <= LogLimit
    BY DEF PublishersIInv, PublisherTypes, LogIsRecent
  <2>3. PICK d \in Nat : Recent(log, logged, d)
    BY DEF PublishersIInv, LogIsRecent
  <2> HIDE DEF x
  <2>4. /\ log' \in Seq(Publishers!Event) /\ Len(log') <= LogLimit
        /\ \E e \in Nat : Recent(log', logged', e)
    <3>1. /\ Shortened(Append(log, x)) \in Seq(Publishers!Event)
          /\ Len(Shortened(Append(log, x))) <= LogLimit
          /\ \E e \in Nat : Recent(Shortened(Append(log, x)), Append(logged, x), e)
      BY <1>2, <2>2, <2>3, StillRecent
    <3>2. logged' = Append(logged, x)
      BY <1>1
    <3>3. QED
      BY <2>1, <3>1, <3>2
  <2>5. QED
    BY <2>4 DEF LogIsRecent, Recent
<1>10. QED
  BY <1>1, <1>3, <1>4, <1>8, <1>9, AnswersStand DEF PublishersIInv, PublisherTypes

\* A step that neither logs nor answers has only its caller's promise to keep.
LEMMA QuietStep ==
  ASSUME PublishersIInv, Grows, NEW c \in Caller, NEW r \in PublisherCall,
         call' = [call EXCEPT ![c] = r], Promised(call[c])',
         UNCHANGED << failFast, log, logged, answered, handedIn >>,
         channel' \in Seq(Publishers!Event), received' \in [Publishers!Event -> Nat]
  PROVE  PublishersIInv'
<1>1. call' \in [Caller -> PublisherCall] /\ \A d \in Caller : Promised(call[d])'
  BY OneCallerMoves
<1>2. AnsweredArrived' /\ LogIsRecent'
  BY AnswersStand, LogStands
<1>3. UNCHANGED << destinations, attempts >>
  BY DEF Grows
<1>4. QED
  BY <1>1, <1>2, <1>3 DEF PublishersIInv, PublisherTypes

\* A destination that has received the batch can be left.
LEMMA LeftDestination ==
  ASSUME PublishersIInv, Grows, NEW c \in Caller, Publishers!Busy(c),
         call'[c].batch = call[c].batch, call'[c].to = call[c].to + 1,
         call'[c].step = "log", call'[c].event = 1,
         \/ call'[c].failed
         \/ /\ call'[c].failed = call[c].failed
            /\ \A kind, e : kind = destinations[call[c].to] /\ Publishers!In(e, call[c].batch)
                              => Arrived(kind, e)'
  PROVE  Promised(call[c])'
<1>1. /\ call[c].batch \in Seq(Publishers!Event) /\ call[c].event \in DOMAIN call[c].batch
      /\ call[c].to \in Nat
  BY CallTypes
<1>2. OneOfItsBatch(call[c])'
  BY <1>1 DEF OneOfItsBatch
<1>3. InMemory(call[c])'
  BY <1>1 DEF InMemory
<1>4. DoneWith(call[c])'
  <2>1. CASE call'[c].failed
    BY <2>1 DEF DoneWith
  <2>2. CASE ~call'[c].failed
    <3> SUFFICES ASSUME NEW k \in 1 .. Len(destinations), k < call[c].to + 1,
                        NEW i \in DOMAIN call[c].batch
                 PROVE  Arrived(destinations[k], call[c].batch[i])'
      BY <2>2 DEF DoneWith, Grows
    <3>1. destinations' = destinations /\ call'[c].batch = call[c].batch
      BY DEF Grows
    <3>2. CASE k = call[c].to
      <4>1. Publishers!In(call[c].batch[i], call[c].batch)
        BY DEF Publishers!In
      <4>2. QED
        BY <2>2, <3>1, <3>2, <4>1
    <3>3. CASE k < call[c].to
      <4>1. Arrived(destinations[k], call[c].batch[i])
        BY <2>2, <3>3, CallTypes DEF Promised, DoneWith
      <4>2. QED
        BY <1>1, <3>1, <4>1, StaysArrived
    <3>4. QED
      BY <1>1, <3>2, <3>3
  <2>3. QED
    BY <2>1, <2>2
<1>5. QED
  BY <1>2, <1>3, <1>4 DEF Promised

\* The in-memory publisher sends the event on its channel.
LEMMA SendStep ==
  ASSUME PublishersIInv, NEW c \in Caller, Publishers!Send(c)
  PROVE  PublishersIInv'
<1> DEFINE x == call[c].batch[call[c].event]
           r == [call[c] EXCEPT !.step = "notify"]
<1>1. /\ call' = [call EXCEPT ![c] = r] /\ channel' = Append(channel, x)
      /\ UNCHANGED << destinations, failFast, attempts, log, received, logged, answered, handedIn >>
      /\ Publishers!Busy(c) /\ call[c].step = "send"
  BY DEF Publishers!Send, Publishers!Becomes, Publishers!At, Publishers!Current
<1>2. x \in Publishers!Event /\ r \in PublisherCall
  <2>1. x \in Publishers!Event
    BY <1>1, CallTypes
  <2>2. r \in PublisherCall
    BY CallTypes DEF PublisherCall
  <2>3. QED
    BY <2>1, <2>2
<1>3. /\ channel' \in Seq(Publishers!Event) /\ Publishers!In(x, channel')
      /\ \A e : Publishers!In(e, channel) => Publishers!In(e, channel')
  BY <1>1, <1>2, Pushed DEF PublishersIInv, PublisherTypes
<1>4. Grows
  BY <1>1, <1>3 DEF Grows, Reached
<1>5. call'[c] = r
  BY <1>1 DEF PublishersIInv, PublisherTypes
<1>6. /\ call'[c].batch = call[c].batch /\ call'[c].to = call[c].to /\ call'[c].step = "notify"
      /\ call'[c].event = call[c].event /\ call'[c].failed = call[c].failed
  BY <1>5, CallTypes DEF PublisherCall
<1>7. Promised(call[c])'
  <2>1. \A i \in DOMAIN call[c].batch : call[c].batch[i] \in Publishers!Event
    BY CallTypes
  <2>2. DoneWith(call[c])'
    BY <1>1, <1>4, <1>6, <2>1, CallTypes, StaysArrived DEF Promised, DoneWith
  <2>3. InMemory(call[c])'
    <3>1. \A i \in DOMAIN call[c].batch : i < call[c].event => Arrived("memory", call[c].batch[i])'
      BY <1>4, <1>6, <2>1, CallTypes, StaysArrived DEF Promised, InMemory
    <3>2. Publishers!In(x, logged)
      BY <1>1, CallTypes DEF Promised, InMemory
    <3>3. QED
      BY <1>1, <1>3, <1>6, <3>1, <3>2 DEF InMemory
  <2>4. OneOfItsBatch(call[c])'
    BY <1>1, <1>6, CallTypes DEF OneOfItsBatch
  <2>5. QED
    BY <2>2, <2>3, <2>4 DEF Promised
<1>8. received' \in [Publishers!Event -> Nat]
  BY <1>1 DEF PublishersIInv, PublisherTypes
<1>9. QED
  BY <1>1, <1>2, <1>3, <1>4, <1>7, <1>8, QuietStep

\* The record of a call that goes to its next destination
LEMMA NextRecord ==
  ASSUME PublishersIInv, NEW c \in Caller, NEW r,
         r = Publishers!NextDestination(c) \/ r = [Publishers!NextDestination(c) EXCEPT !.failed = TRUE]
  PROVE  /\ r \in PublisherCall /\ r.batch = call[c].batch /\ r.to = call[c].to + 1
         /\ r.step = "log" /\ r.event = 1
         /\ r.failed \/ r.failed = call[c].failed
<1>1. call[c] \in PublisherCall /\ call[c].to + 1 \in Nat
  BY CallTypes
<1> DEFINE n == Publishers!NextDestination(c)
<1>2. /\ n \in PublisherCall /\ n.batch = call[c].batch /\ n.to = call[c].to + 1
      /\ n.step = "log" /\ n.event = 1 /\ n.failed = call[c].failed
  BY <1>1 DEF Publishers!NextDestination, PublisherCall
<1> HIDE DEF n
<1>3. CASE r = n
  BY <1>2, <1>3
<1>4. CASE r = [n EXCEPT !.failed = TRUE]
  BY <1>2, <1>4 DEF PublisherCall
<1>5. QED
  BY <1>3, <1>4 DEF n

\* The subscribers in memory are notified; then the next event of the batch,
\* or the next destination.
LEMMA NotifyStep ==
  ASSUME PublishersIInv, NEW c \in Caller, Publishers!Notify(c)
  PROVE  PublishersIInv'
<1> DEFINE b == call[c].batch
           e == call[c].event
<1>1. /\ UNCHANGED << destinations, failFast, attempts, log, channel, received, logged, answered, handedIn >>
      /\ Publishers!Busy(c) /\ call[c].step = "notify" /\ destinations[call[c].to] = "memory"
  BY DEF Publishers!Notify, Publishers!At
<1>2. Grows
  BY <1>1, NothingArrives
<1>3. channel' \in Seq(Publishers!Event) /\ received' \in [Publishers!Event -> Nat]
  BY <1>1 DEF PublishersIInv, PublisherTypes
<1>4. /\ b \in Seq(Publishers!Event) /\ e \in DOMAIN b /\ e \in Nat
      /\ \A i \in DOMAIN b : b[i] \in Publishers!Event
  BY <1>1, CallTypes
<1>5. \A i \in DOMAIN b : i <= e => Arrived("memory", b[i])
  <2>1. Arrived("memory", b[e])
    BY <1>1, CallTypes DEF Promised, InMemory, Arrived
  <2>2. \A i \in DOMAIN b : i < e => Arrived("memory", b[i])
    BY CallTypes DEF Promised, InMemory
  <2>3. QED
    BY <1>4, <2>1, <2>2
<1>6. CASE e < Len(b)
  <2> DEFINE r == [call[c] EXCEPT !.step = "log", !.event = e + 1]
  <2>1. call' = [call EXCEPT ![c] = r]
    BY <1>6 DEF Publishers!Notify, Publishers!Becomes
  <2>2. r \in PublisherCall
    <3>1. e + 1 \in Nat /\ call[c] \in PublisherCall
      BY <1>4, CallTypes
    <3>2. QED
      BY <3>1 DEF PublisherCall
  <2>3. call'[c] = r
    BY <2>1 DEF PublishersIInv, PublisherTypes
  <2>4. /\ call'[c].batch = b /\ call'[c].to = call[c].to /\ call'[c].step = "log"
        /\ call'[c].event = e + 1 /\ call'[c].failed = call[c].failed
    BY <2>3, CallTypes DEF PublisherCall
  <2>5. DoneWith(call[c])'
    BY <1>1, <1>2, <1>4, <2>4, CallTypes, StaysArrived DEF Promised, DoneWith
  <2>6. InMemory(call[c])'
    <3>1. ASSUME NEW i \in DOMAIN b, i < e + 1 PROVE Arrived("memory", b[i])
      BY <1>4, <1>5, <3>1
    <3>2. ASSUME NEW i \in DOMAIN b, i < e + 1 PROVE Arrived("memory", call[c].batch[i])'
      <4>1. \A x \in Publishers!Event : Arrived("memory", x) => Arrived("memory", x)'
        BY <1>2, StaysArrived
      <4>2. call'[c].batch[i] = b[i] /\ b[i] \in Publishers!Event /\ Arrived("memory", b[i])
        BY <1>4, <2>4, <3>1, <3>2
      <4>3. QED
        BY <4>1, <4>2
    <3>3. \A i \in DOMAIN call'[c].batch : i < call'[c].event => Arrived("memory", call[c].batch[i])'
      BY <2>4, <3>2
    <3>4. QED
      BY <2>4, <3>3 DEF InMemory
  <2>7. OneOfItsBatch(call[c])'
    BY <1>4, <1>6, <2>4 DEF OneOfItsBatch
  <2>8. QED
    BY <1>1, <1>2, <1>3, <2>1, <2>2, <2>5, <2>6, <2>7, QuietStep DEF Promised
<1>7. CASE ~(e < Len(b))
  <2> DEFINE r == Publishers!NextDestination(c)
  <2>1. call' = [call EXCEPT ![c] = r]
    BY <1>7 DEF Publishers!Notify, Publishers!Becomes
  <2>2. /\ r \in PublisherCall /\ r.batch = call[c].batch /\ r.to = call[c].to + 1
        /\ r.step = "log" /\ r.event = 1 /\ (r.failed \/ r.failed = call[c].failed)
    BY NextRecord
  <2>3. call'[c] = r
    BY <2>1 DEF PublishersIInv, PublisherTypes
  <2> HIDE DEF r
  <2>4. ASSUME NEW kind, NEW x, kind = destinations[call[c].to], Publishers!In(x, b)
        PROVE  Arrived(kind, x)'
    <3>1. PICK i \in DOMAIN b : b[i] = x
      BY <2>4 DEF Publishers!In
    <3>2. i <= e
      BY <1>4, <1>7
    <3>3. Arrived("memory", x)
      BY <1>5, <3>1, <3>2
    <3>4. QED
      BY <1>1, <1>2, <1>4, <2>4, <3>1, <3>3, StaysArrived
  <2>5. Promised(call[c])'
    BY <1>1, <1>2, <2>2, <2>3, <2>4, LeftDestination
  <2>6. QED
    BY <1>1, <1>2, <1>3, <2>1, <2>2, <2>5, QuietStep
<1>8. QED
  BY <1>6, <1>7

\* Every event of the batch has reached the endpoint once more.
LEMMA Receiving ==
  ASSUME PublishersIInv, NEW c \in Caller, Publishers!Receive(c),
         UNCHANGED << destinations, attempts, channel, logged >>
  PROVE  /\ Grows /\ received' \in [Publishers!Event -> Nat]
         /\ \A e \in Publishers!Event : Publishers!In(e, call[c].batch) => Reached(e)'
<1>1. received \in [Publishers!Event -> Nat]
  BY DEF PublishersIInv, PublisherTypes
<1>2. \A e \in Publishers!Event :
        /\ Publishers!In(e, call[c].batch) => received'[e] = received[e] + 1
        /\ ~Publishers!In(e, call[c].batch) => received'[e] = received[e]
  BY DEF Publishers!Receive, Publishers!In
<1>3. ASSUME NEW e \in Publishers!Event
      PROVE  /\ Reached(e) => Reached(e)'
             /\ Publishers!In(e, call[c].batch) => Reached(e)'
             /\ received'[e] \in Nat
  <2>1. received[e] \in Nat
    BY <1>1
  <2>2. CASE Publishers!In(e, call[c].batch)
    <3>1. received'[e] = received[e] + 1
      BY <1>2, <2>2
    <3>2. received'[e] >= 1 /\ received'[e] \in Nat
      BY <2>1, <3>1
    <3>3. QED
      BY <2>2, <3>2 DEF Reached
  <2>3. CASE ~Publishers!In(e, call[c].batch)
    <3>1. received'[e] = received[e]
      BY <1>2, <2>3
    <3>2. QED
      BY <2>1, <2>3, <3>1 DEF Reached
  <2>4. QED
    BY <2>2, <2>3
<1>4. received' \in [Publishers!Event -> Nat]
  <2>1. received' = [e \in Publishers!Event |-> received'[e]]
    BY DEF Publishers!Receive
  <2>2. QED
    BY <1>3, <2>1
<1>5. Grows
  BY <1>3 DEF Grows
<1>6. QED
  BY <1>3, <1>4, <1>5

\* A destination is done with the event, having taken it or having failed.
LEMMA ToTheNext ==
  ASSUME PublishersIInv, Grows, NEW c \in Caller, NEW r,
         Publishers!At(c, "http"), call' = [call EXCEPT ![c] = r],
         UNCHANGED << failFast, log, logged, answered, handedIn, channel >>,
         received' \in [Publishers!Event -> Nat],
         \/ r = [Publishers!NextDestination(c) EXCEPT !.failed = TRUE]
         \/ /\ r = Publishers!NextDestination(c)
            /\ \A e \in Publishers!Event :
                 Publishers!In(e, call[c].batch) => Arrived("http", e)'
  PROVE  PublishersIInv'
<1>1. /\ r \in PublisherCall /\ r.batch = call[c].batch /\ r.to = call[c].to + 1
      /\ r.step = "log" /\ r.event = 1 /\ (r.failed \/ r.failed = call[c].failed)
  BY NextRecord
<1>2. call'[c] = r
  BY DEF PublishersIInv, PublisherTypes
<1>3. channel' \in Seq(Publishers!Event)
  BY DEF PublishersIInv, PublisherTypes
<1>4. Publishers!Busy(c) /\ destinations[call[c].to] = "http"
  BY DEF Publishers!At
<1>5. ASSUME NEW e, Publishers!In(e, call[c].batch) PROVE e \in Publishers!Event
  BY <1>5, CallTypes DEF Publishers!In
<1>6. Promised(call[c])'
  <2>1. CASE r.failed
    BY <1>1, <1>2, <1>4, <2>1, LeftDestination
  <2>2. CASE ~r.failed
    <3>1. r # [Publishers!NextDestination(c) EXCEPT !.failed = TRUE]
      BY <2>2, CallTypes DEF Publishers!NextDestination, PublisherCall
    <3>2. QED
      BY <1>1, <1>2, <1>4, <1>5, <2>2, <3>1, LeftDestination
  <2>3. QED
    BY <2>1, <2>2
<1>7. QED
  BY <1>1, <1>3, <1>6, QuietStep

\* A call that is over promises nothing.
LEMMA BackToIdle ==
  ASSUME PublishersIInv, NEW c \in Caller, call' = [call EXCEPT ![c] = Publishers!Idle]
  PROVE  Publishers!Idle \in PublisherCall /\ Promised(call[c])'
<1>1. call'[c] = Publishers!Idle
  BY DEF PublishersIInv, PublisherTypes
<1>2. Publishers!Idle \in PublisherCall
  BY DEF Publishers!Idle, PublisherCall
<1>3. /\ Publishers!Idle.batch = << >> /\ Publishers!Idle.to = 1 /\ Publishers!Idle.step = "log"
  BY DEF Publishers!Idle
<1>4. DoneWith(call[c])' /\ InMemory(call[c])'
  BY <1>1, <1>3 DEF DoneWith, InMemory
<1>5. OneOfItsBatch(call[c])'
  BY <1>1 DEF OneOfItsBatch, Publishers!Idle
<1>6. QED
  BY <1>2, <1>4, <1>5 DEF Promised

\* The HTTP publisher delivers the event.
LEMMA DeliverStep ==
  ASSUME PublishersIInv, NEW c \in Caller, Publishers!Deliver(c)
  PROVE  PublishersIInv'
<1>1. /\ Publishers!At(c, "http") /\ Publishers!Receive(c)
      /\ call' = [call EXCEPT ![c] = Publishers!NextDestination(c)]
      /\ UNCHANGED << destinations, failFast, attempts, log, channel, logged, answered, handedIn >>
  BY DEF Publishers!Deliver, Publishers!Becomes
<1>2. /\ Grows /\ received' \in [Publishers!Event -> Nat]
      /\ \A e \in Publishers!Event : Publishers!In(e, call[c].batch) => Reached(e)'
  BY <1>1, Receiving
<1>3. \A e \in Publishers!Event : Publishers!In(e, call[c].batch) => Arrived("http", e)'
  BY <1>2 DEF Arrived
<1>4. QED
  BY <1>1, <1>2, <1>3, ToTheNext

\* An attempt fails, whether or not the event arrived; after the last one
\* the destination has failed.
LEMMA RetryStep ==
  ASSUME PublishersIInv, NEW c \in Caller, Publishers!Retry(c)
  PROVE  PublishersIInv'
<1>1. /\ Publishers!At(c, "http") /\ (Publishers!Receive(c) \/ UNCHANGED received)
      /\ UNCHANGED << destinations, failFast, attempts, log, channel, logged, answered, handedIn >>
      /\ call' = [call EXCEPT ![c] = IF call[c].attempt = attempts - 1 THEN Publishers!AfterFailure(c)
                                     ELSE [call[c] EXCEPT !.attempt = call[c].attempt + 1]]
  BY DEF Publishers!Retry, Publishers!Becomes
<1>2. Grows /\ received' \in [Publishers!Event -> Nat]
  <2>1. CASE Publishers!Receive(c)
    BY <1>1, <2>1, Receiving
  <2>2. CASE UNCHANGED received
    BY <1>1, <2>2, NothingArrives DEF PublishersIInv, PublisherTypes
  <2>3. QED
    BY <1>1, <2>1, <2>2
<1>3. channel' \in Seq(Publishers!Event)
  BY <1>1 DEF PublishersIInv, PublisherTypes
<1>4. CASE call[c].attempt = attempts - 1
  <2>1. call' = [call EXCEPT ![c] = Publishers!AfterFailure(c)]
    BY <1>1, <1>4
  <2>2. CASE failFast
    <3>1. call' = [call EXCEPT ![c] = Publishers!Idle]
      BY <2>1, <2>2 DEF Publishers!AfterFailure
    <3>2. QED
      BY <1>1, <1>2, <1>3, <3>1, BackToIdle, QuietStep
  <2>3. CASE ~failFast
    <3>1. call' = [call EXCEPT ![c] = [Publishers!NextDestination(c) EXCEPT !.failed = TRUE]]
      BY <2>1, <2>3 DEF Publishers!AfterFailure
    <3>2. QED
      BY <1>1, <1>2, <3>1, ToTheNext
  <2>4. QED
    BY <2>2, <2>3
<1>5. CASE call[c].attempt # attempts - 1
  <2> DEFINE r == [call[c] EXCEPT !.attempt = call[c].attempt + 1]
  <2>1. call' = [call EXCEPT ![c] = r]
    BY <1>1, <1>5
  <2>2. r \in PublisherCall
    <3>1. call[c] \in PublisherCall
      BY CallTypes
    <3>2. call[c].attempt + 1 \in Nat
      BY <3>1 DEF PublisherCall
    <3>3. QED
      BY <3>1, <3>2 DEF PublisherCall
  <2>3. call'[c] = r
    BY <2>1 DEF PublishersIInv, PublisherTypes
  <2>4. /\ call'[c].batch = call[c].batch /\ call'[c].to = call[c].to /\ call'[c].step = call[c].step
        /\ call'[c].event = call[c].event /\ call'[c].failed = call[c].failed
    BY <2>3, CallTypes DEF PublisherCall
  <2>5. \A i \in DOMAIN call[c].batch : call[c].batch[i] \in Publishers!Event
    BY CallTypes
  <2>6. DoneWith(call[c])'
    BY <1>1, <1>2, <2>4, <2>5, CallTypes, StaysArrived DEF Promised, DoneWith
  <2>7. InMemory(call[c])'
    BY <1>1, <1>2, <2>4, <2>5, CallTypes, StaysArrived DEF Promised, InMemory
  <2>8. OneOfItsBatch(call[c])'
    BY <1>1, <2>4, CallTypes DEF OneOfItsBatch, Publishers!At
  <2>9. QED
    BY <1>1, <1>2, <1>3, <2>1, <2>2, <2>6, <2>7, <2>8, QuietStep DEF Promised
<1>6. QED
  BY <1>4, <1>5

\* With no attempts allowed the HTTP publisher reports success untried.
LEMMA NeverTryStep ==
  ASSUME PublishersIInv, NEW c \in Caller, Publishers!NeverTry(c)
  PROVE  PublishersIInv'
<1>1. /\ Publishers!At(c, "http") /\ attempts = 0
      /\ call' = [call EXCEPT ![c] = Publishers!NextDestination(c)]
      /\ UNCHANGED << destinations, failFast, attempts, log, channel, received, logged, answered, handedIn >>
  BY DEF Publishers!NeverTry, Publishers!Becomes
<1>2. Grows /\ received' \in [Publishers!Event -> Nat]
  BY <1>1, NothingArrives DEF PublishersIInv, PublisherTypes
<1>3. \A e : Arrived("http", e)'
  <2>1. ~(attempts' > 0)
    BY <1>1
  <2>2. QED
    BY <2>1 DEF Arrived
<1>4. QED
  BY <1>1, <1>2, <1>3, ToTheNext

\* The caller is answered, with Ok when no destination failed.
LEMMA AnswerStep ==
  ASSUME PublishersIInv, NEW c \in Caller, Publishers!Answer(c)
  PROVE  PublishersIInv'
<1>1. /\ Publishers!Busy(c) /\ call[c].to > Len(destinations)
      /\ answered' = IF call[c].failed THEN answered
                     ELSE answered \cup {call[c].batch[i] : i \in DOMAIN call[c].batch}
      /\ call' = [call EXCEPT ![c] = Publishers!Idle]
      /\ UNCHANGED << destinations, failFast, attempts, log, channel, received, logged, handedIn >>
  BY DEF Publishers!Answer, Publishers!Done, Publishers!Becomes
<1>2. Grows
  BY <1>1, NothingArrives
<1>3. call' \in [Caller -> PublisherCall] /\ \A d \in Caller : Promised(call[d])'
  BY <1>1, <1>2, BackToIdle, OneCallerMoves
<1>4. \A i \in DOMAIN call[c].batch : call[c].batch[i] \in Publishers!Event
  BY CallTypes
<1>5. answered' \subseteq Publishers!Event
  BY <1>1, <1>4 DEF PublishersIInv, PublisherTypes
<1>6. AnsweredArrived'
  <2>1. ASSUME NEW e \in answered', NEW k \in 1 .. Len(destinations)
        PROVE  Arrived(destinations[k], e)
    <3>1. CASE e \in answered
      BY <3>1 DEF PublishersIInv, AnsweredArrived
    <3>2. CASE ~call[c].failed /\ e \in {call[c].batch[i] : i \in DOMAIN call[c].batch}
      <4>1. k < call[c].to
        BY <1>1, CallTypes DEF PublishersIInv, PublisherTypes
      <4>2. QED
        BY <3>2, <4>1, CallTypes DEF Promised, DoneWith
    <3>3. QED
      BY <1>1, <3>1, <3>2
  <2>2. QED
    BY <1>1, <1>2, <1>5, <2>1, StaysArrived DEF AnsweredArrived
<1>7. LogIsRecent'
  BY <1>1, LogStands
<1>8. QED
  BY <1>1, <1>3, <1>5, <1>6, <1>7 DEF PublishersIInv, PublisherTypes

\* Nothing is published at the start.
LEMMA PublishersInit == Publishers!Init => PublishersIInv
<1> SUFFICES ASSUME Publishers!Init PROVE PublishersIInv
  OBVIOUS
<1>1. /\ destinations \in Compositions /\ failFast \in BOOLEAN /\ attempts \in RetrySettings
      /\ call = [c \in Caller |-> Publishers!Idle]
      /\ log = << >> /\ channel = << >> /\ logged = << >> /\ answered = {} /\ handedIn = 0
      /\ received = [e \in Publishers!Event |-> 0]
  BY DEF Publishers!Init
<1>2. Publishers!Idle \in PublisherCall
  BY DEF Publishers!Idle, PublisherCall
<1>3. PublisherTypes
  BY <1>1, <1>2, PublishersAssumption DEF PublisherTypes
<1>4. ASSUME NEW c \in Caller PROVE Promised(call[c])
  <2>1. call[c] = Publishers!Idle
    BY <1>1
  <2>2. Publishers!Idle.batch = << >> /\ Publishers!Idle.step = "log"
    BY DEF Publishers!Idle
  <2>3. QED
    BY <2>1, <2>2 DEF Promised, DoneWith, InMemory, OneOfItsBatch
<1>5. AnsweredArrived
  BY <1>1 DEF AnsweredArrived
<1>6. LogIsRecent
  BY <1>1, PublishersAssumption DEF LogIsRecent, Recent
<1>7. QED
  BY <1>3, <1>4, <1>5, <1>6 DEF PublishersIInv

\* Every step of the publishers keeps their invariant.
LEMMA PublishersStep ==
  ASSUME PublishersIInv, Publishers!Next
  PROVE  PublishersIInv'
BY PublishStep, LogStep, SendStep, NotifyStep, DeliverStep, RetryStep, NeverTryStep, AnswerStep
   DEF Publishers!Next

\* What was answered with Ok has arrived, and the log has the newest of it.
LEMMA PublishersKeepTheirWord ==
  ASSUME PublishersIInv
  PROVE  Publishers!OkMeansReceived
<1>1. ASSUME NEW e \in answered
      PROVE  /\ Publishers!Has("memory") => Publishers!In(e, logged) /\ Publishers!In(e, channel)
             /\ Publishers!Has("http") /\ attempts > 0 => received[e] >= 1
  <2>1. \A k \in DOMAIN destinations : Arrived(destinations[k], e)
    <3>1. DOMAIN destinations = 1 .. Len(destinations)
      BY DEF PublishersIInv, PublisherTypes
    <3>2. QED
      BY <3>1 DEF PublishersIInv, AnsweredArrived
  <2>2. Publishers!Has("memory") => Publishers!In(e, logged) /\ Publishers!In(e, channel)
    BY <2>1 DEF Arrived, Publishers!Has
  <2>3. Publishers!Has("http") /\ attempts > 0 => Reached(e)
    BY <2>1 DEF Arrived, Publishers!Has
  <2>4. QED
    BY <2>2, <2>3 DEF Reached
<1>2. ASSUME NEW i \in DOMAIN logged, i > Len(logged) - (LogLimit - DrainSize)
      PROVE  Publishers!In(logged[i], log)
  <2>1. PICK d \in Nat : Recent(log, logged, d)
    BY DEF PublishersIInv, LogIsRecent
  <2>2. /\ Len(log) \in Nat /\ Len(logged) \in Nat /\ i \in 1 .. Len(logged)
        /\ LogLimit \in Nat /\ DrainSize \in Nat /\ DrainSize <= LogLimit
        /\ DOMAIN log = 1 .. Len(log)
    BY PublishersAssumption DEF PublishersIInv, PublisherTypes
  <2>3. i - d \in 1 .. Len(log)
    BY <1>2, <2>1, <2>2 DEF Recent
  <2>4. log[i - d] = logged[i]
    <3>1. d + (i - d) = i
      BY <2>2
    <3>2. QED
      BY <2>1, <2>3, <3>1 DEF Recent
  <2>5. QED
    BY <2>2, <2>3, <2>4 DEF Publishers!In
<1>3. QED
  BY <1>1, <1>2 DEF Publishers!OkMeansReceived

-----------------------------------------------------------------------------
(* The versioned repository *)

\* Versions are drawn in turn, so those drawn are older than the next.
VersionsAreOld ==
  /\ \A d \in Client, i \in SessionId : known[d][i] < nextVersion
  /\ \A i \in Repository!Present : sessions[i].version < nextVersion

\* Nobody else draws the version a client knows as its own.
KnownMeansSaved ==
  \A d \in Client, i \in Repository!Present :
    known[d][i] = sessions[i].version => sessions[i].author = d

RepositoryIInv ==
  /\ sessions \in [SessionId -> Repository!Entry \cup {Absent}]
  /\ known \in [Client -> [SessionId -> Nat]]
  /\ nextVersion \in Nat /\ nextVersion >= 1
  /\ VersionsAreOld
  /\ KnownMeansSaved

\* The repository is empty at the start.
LEMMA RepositoryInit == Repository!Init => RepositoryIInv
BY DEF Repository!Init, RepositoryIInv, VersionsAreOld, KnownMeansSaved, Repository!Present

\* A save, whatever the version it names
LEMMA SaveStep ==
  ASSUME RepositoryIInv, NEW c \in Client, NEW id \in SessionId, NEW expected,
         NEW state \in Repository!State, NEW ss \in 0 .. MaxStreams,
         Repository!Save(c, id, expected, state, ss)
  PROVE  RepositoryIInv'
<1> DEFINE e == [author |-> c, state |-> state, streams |-> ss, version |-> nextVersion]
<1>1. /\ nextVersion <= MaxVersion
      /\ sessions' = [sessions EXCEPT ![id] = e]
      /\ nextVersion' = nextVersion + 1
      /\ known' = [known EXCEPT ![c][id] = nextVersion]
  BY DEF Repository!Save
<1>2. nextVersion \in Nat /\ nextVersion >= 1 /\ nextVersion' \in Nat /\ nextVersion' >= 1
  BY <1>1 DEF RepositoryIInv
<1>3. e \in Repository!Entry /\ e.author = c /\ e.version = nextVersion /\ e # Absent
  BY <1>1, <1>2, RepositoryAssumption DEF Repository!Entry
<1> HIDE DEF e
<1>4. /\ sessions' \in [SessionId -> Repository!Entry \cup {Absent}]
      /\ sessions'[id] = e /\ \A i \in SessionId : i # id => sessions'[i] = sessions[i]
  BY <1>1, <1>3 DEF RepositoryIInv
<1>5. /\ known' \in [Client -> [SessionId -> Nat]] /\ known'[c][id] = nextVersion
      /\ \A d \in Client, i \in SessionId : d # c \/ i # id => known'[d][i] = known[d][i]
  BY <1>1, <1>2 DEF RepositoryIInv
<1>6. \A i \in SessionId : i # id => (i \in Repository!Present' <=> i \in Repository!Present)
  BY <1>4 DEF Repository!Present
<1>7. ASSUME NEW d \in Client, NEW i \in SessionId
      PROVE  known'[d][i] < nextVersion' /\ (d # c \/ i # id => known[d][i] < nextVersion)
  <2>1. known[d][i] \in Nat /\ known[d][i] < nextVersion
    BY DEF RepositoryIInv, VersionsAreOld
  <2>2. CASE d = c /\ i = id
    BY <1>1, <1>2, <1>5, <2>2
  <2>3. CASE d # c \/ i # id
    BY <1>1, <1>2, <1>5, <2>1, <2>3
  <2>4. QED
    BY <2>2, <2>3
<1>8. ASSUME NEW i \in Repository!Present'
      PROVE  sessions'[i].version < nextVersion'
  <2>0. i \in SessionId
    BY DEF Repository!Present
  <2>1. CASE i = id
    BY <1>1, <1>2, <1>3, <1>4, <2>1
  <2>2. CASE i # id
    <3>1. i \in Repository!Present /\ sessions[i] \in Repository!Entry
      BY <1>6, <2>0, <2>2 DEF Repository!Present, RepositoryIInv
    <3>2. sessions[i].version < nextVersion
      BY <3>1 DEF RepositoryIInv, VersionsAreOld
    <3>3. sessions[i].version \in Nat
      BY <3>1, RepositoryAssumption DEF Repository!Entry
    <3>4. sessions'[i] = sessions[i]
      BY <1>4, <2>0, <2>2
    <3>5. QED
      BY <1>1, <1>2, <3>2, <3>3, <3>4
  <2>3. QED
    BY <2>1, <2>2
<1>9. ASSUME NEW d \in Client, NEW i \in Repository!Present', known'[d][i] = sessions'[i].version
      PROVE  sessions'[i].author = d
  <2>0. i \in SessionId
    BY DEF Repository!Present
  <2>1. CASE i = id
    <3>1. sessions'[i].version = nextVersion /\ sessions'[i].author = c
      BY <1>3, <1>4, <2>1
    <3>2. CASE d = c
      BY <3>1, <3>2
    <3>3. CASE d # c
      <4>1. known'[d][i] < nextVersion /\ known'[d][i] \in Nat
        BY <1>5, <1>7, <2>0, <3>3
      <4>2. QED
        BY <1>2, <1>9, <3>1, <4>1
    <3>4. QED
      BY <3>2, <3>3
  <2>2. CASE i # id
    BY <1>4, <1>5, <1>6, <1>9, <2>0, <2>2 DEF RepositoryIInv, KnownMeansSaved
  <2>3. QED
    BY <2>1, <2>2
<1>10. QED
  BY <1>2, <1>4, <1>5, <1>7, <1>8, <1>9 DEF RepositoryIInv, VersionsAreOld, KnownMeansSaved

\* A session is removed.
LEMMA RemovalStep ==
  ASSUME RepositoryIInv, NEW c \in Client, NEW id \in SessionId, Repository!RemoveSession(c, id)
  PROVE  RepositoryIInv'
<1>1. sessions' = [sessions EXCEPT ![id] = Absent] /\ UNCHANGED << nextVersion, known >>
  BY DEF Repository!RemoveSession
<1>2. /\ sessions' \in [SessionId -> Repository!Entry \cup {Absent}]
      /\ \A i \in Repository!Present' : i \in Repository!Present /\ sessions'[i] = sessions[i]
  BY <1>1 DEF RepositoryIInv, Repository!Present
<1>3. QED
  BY <1>1, <1>2 DEF RepositoryIInv, VersionsAreOld, KnownMeansSaved

\* Every step of the repository keeps its invariant.
LEMMA RepositoryStep ==
  ASSUME RepositoryIInv, Repository!Next
  PROVE  RepositoryIInv'
<1>1. \/ \E c \in Client, id \in SessionId :
           \/ \E expected \in {0, known[c][id]}, state \in Repository!State, ss \in 0 .. MaxStreams :
                Repository!Save(c, id, expected, state, ss)
           \/ Repository!RemoveSession(c, id)
      \/ UNCHANGED << sessions, nextVersion, known >>
  BY DEF Repository!Next, Repository!ReadHealth, Repository!AskRemoval, Repository!RemoveHealth,
         Repository!AnswerHealth, Repository!Begin, Repository!Commit, Repository!Rollback
<1>2. CASE UNCHANGED << sessions, nextVersion, known >>
  BY <1>2 DEF RepositoryIInv, VersionsAreOld, KnownMeansSaved, Repository!Present
<1>3. QED
  BY <1>1, <1>2, SaveStep, RemovalStep

\* A version a client knows that is still current names what it saved.
LEMMA RepositoryDiscardsNobody ==
  ASSUME RepositoryIInv
  PROVE  Repository!ConditionalSaveDiscardsNobody
BY DEF RepositoryIInv, KnownMeansSaved, Repository!ConditionalSaveDiscardsNobody,
       Repository!NotInConflict

-----------------------------------------------------------------------------
(* The handlers behind the HTTP routes *)

Unsettled == {"Absent", "Preparing"}

\* The session has the stream, and it has been started at the least.
Settled(s, id) == held[s] # Absent /\ held[s].streams[id] \notin Unsettled

HttpRequest ==
  {Http!Idle} \cup [at : {"registering", "creating"}, session : SessionId]
    \cup [at : {"starting", "showing"}, session : SessionId, stream : StreamId]

HttpTypes ==
  /\ held \in [SessionId -> Http!Session \cup {Absent}]
  /\ request \in [Client -> HttpRequest]
  /\ streamOf \in [SessionId -> StreamId \cup {Absent}]
  /\ connections \subseteq SessionId /\ toldOf \subseteq SessionId

\* Who is told of a session is told of one there is, and found a place in the
\* table or found it full.
TableIsTold ==
  /\ \A s \in toldOf : held[s] # Absent
  /\ connections \subseteq toldOf
  /\ Cardinality(connections) <= MaxConnections
  /\ \A s \in toldOf \ connections : Cardinality(connections) = MaxConnections

\* A request under way is about a session there is, and shows a stream of it
\* that was started.
RequestsAreSound ==
  \A c \in Client :
    /\ request[c] # Http!Idle => held[request[c].session] # Absent
    /\ request[c].at = "showing" => Settled(request[c].session, request[c].stream)

ShownAreSettled == \A s \in SessionId : streamOf[s] # Absent => Settled(s, streamOf[s])

HttpIInv == HttpTypes /\ TableIsTold /\ RequestsAreSound /\ ShownAreSettled

\* Sessions are kept, and so are their streams once they have been started.
HeldKept ==
  /\ held' \in [SessionId -> Http!Session \cup {Absent}]
  /\ \A s \in SessionId : held[s] # Absent =>
       /\ held'[s] # Absent
       /\ \A id \in StreamId : held[s].streams[id] \notin Unsettled
                                 => held'[s].streams[id] \notin Unsettled

\* A stream that is settled stays settled.
LEMMA SettledStays ==
  ASSUME HeldKept, NEW s \in SessionId, NEW id \in StreamId, Settled(s, id)
  PROVE  Settled(s, id)'
BY DEF HeldKept, Settled

\* Sessions nobody writes keep their streams.
LEMMA HeldUnchanged ==
  ASSUME HttpIInv, UNCHANGED held
  PROVE  HeldKept
BY DEF HttpIInv, HttpTypes, HeldKept

\* One session is written.
LEMMA OneIsWritten ==
  ASSUME HttpIInv, NEW s \in SessionId, NEW n \in Http!Session,
         held' = [held EXCEPT ![s] = n],
         held[s] # Absent => \A id \in StreamId : held[s].streams[id] \notin Unsettled
                                                   => n.streams[id] \notin Unsettled
  PROVE  HeldKept /\ held'[s] # Absent /\ held'[s] = n
<1>1. n # Absent
  BY HttpAssumption
<1>2. QED
  BY <1>1 DEF HttpIInv, HttpTypes, HeldKept

\* The counters after a stream was created
LEMMA HttpCounters ==
  ASSUME NEW v \in Http!Session
  PROVE  /\ v.stats \in Http!SessionStats
         /\ [v.stats EXCEPT !.total = @ + 1, !.active = @ + 1] \in Http!SessionStats
<1>1. v.stats \in Http!SessionStats
  BY DEF Http!Session
<1>2. v.stats.total + 1 \in Nat /\ v.stats.active + 1 \in Nat
  BY <1>1 DEF Http!SessionStats
<1>3. QED
  BY <1>1, <1>2 DEF Http!SessionStats

\* A command that moves a stream on from where it was not settled.
LEMMA StreamMoves ==
  ASSUME HttpIInv, NEW s \in SessionId, held[s] # Absent, NEW id \in StreamId,
         NEW to \in Http!StreamState, NEW stats \in Http!SessionStats, NEW kind,
         held[s].streams[id] \in Unsettled,
         Http!Stores(s, Http!Moved(held[s], id, to, stats, kind))
  PROVE  /\ HeldKept /\ held'[s] # Absent
         /\ held'[s].streams[id] = to
<1> DEFINE n == [state |-> held[s].state, streams |-> [held[s].streams EXCEPT ![id] = to],
                 stats |-> stats, pending |-> << >>]
<1>1. held[s] \in Http!Session
  BY DEF HttpIInv, HttpTypes
<1>2. held' = [held EXCEPT ![s] = n]
  <2>1. Http!Quiet(Http!Moved(held[s], id, to, stats, kind)) = n
    BY DEF Http!Quiet, Http!Moved
  <2>2. QED
    BY <2>1 DEF Http!Stores
<1>3. n \in Http!Session
  BY <1>1 DEF Http!Session
<1>4. \A x \in StreamId : n.streams[x] = IF x = id THEN to ELSE held[s].streams[x]
  BY <1>1 DEF Http!Session
<1> HIDE DEF n
<1>5. \A x \in StreamId : held[s].streams[x] \notin Unsettled => n.streams[x] \notin Unsettled
  BY <1>4
<1>6. HeldKept /\ held'[s] # Absent /\ held'[s] = n
  BY <1>2, <1>3, <1>5, OneIsWritten
<1>7. QED
  BY <1>4, <1>6

\* What a step keeps if it writes sessions on behalf of one client at the most
LEMMA RequestsGoOn ==
  ASSUME HttpIInv, HeldKept, NEW c \in Client, NEW r \in HttpRequest,
         request' = [request EXCEPT ![c] = r],
         r # Http!Idle => held'[r.session] # Absent,
         r.at = "showing" => held'[r.session].streams[r.stream] \notin Unsettled
  PROVE  request' \in [Client -> HttpRequest] /\ RequestsAreSound'
<1>1. /\ request' \in [Client -> HttpRequest] /\ request'[c] = r
      /\ \A d \in Client : d # c => request'[d] = request[d]
  BY DEF HttpIInv, HttpTypes
<1>2. ASSUME NEW d \in Client
      PROVE  /\ request'[d] # Http!Idle => held'[request'[d].session] # Absent
             /\ request'[d].at = "showing" =>
                  /\ held'[request'[d].session] # Absent
                  /\ held'[request'[d].session].streams[request'[d].stream] \notin Unsettled
  <2>1. CASE d = c
    <3>1. r.at = "showing" => r # Http!Idle
      BY DEF Http!Idle
    <3>2. QED
      BY <1>1, <2>1, <3>1
  <2>2. CASE d # c
    <3>1. request'[d] = request[d] /\ request[d] \in HttpRequest
      BY <1>1, <2>2 DEF HttpIInv, HttpTypes
    <3>2. CASE request[d] = Http!Idle
      BY <3>1, <3>2 DEF Http!Idle
    <3>3. CASE request[d] # Http!Idle
      <4>1. request[d].session \in SessionId
        BY <3>1, <3>3 DEF HttpRequest
      <4>2. held'[request[d].session] # Absent
        BY <3>3, <4>1 DEF HttpIInv, RequestsAreSound, HeldKept
      <4>3. CASE request[d].at = "showing"
        <5>1. request[d].stream \in StreamId
          BY <3>1, <3>3, <4>3 DEF HttpRequest
        <5>2. Settled(request[d].session, request[d].stream)
          BY <4>3 DEF HttpIInv, RequestsAreSound
        <5>3. held'[request[d].session].streams[request[d].stream] \notin Unsettled
          BY <4>1, <5>1, <5>2 DEF HeldKept, Settled
        <5>4. QED
          BY <3>1, <4>2, <5>3
      <4>4. QED
        BY <3>1, <4>2, <4>3
    <3>4. QED
      BY <3>2, <3>3
  <2>3. QED
    BY <2>1, <2>2
<1>3. RequestsAreSound'
  BY <1>2 DEF RequestsAreSound, Settled, Http!Idle
<1>4. QED
  BY <1>1, <1>3

\* What is shown stays settled.
LEMMA ShownStand ==
  ASSUME HttpIInv, HeldKept, UNCHANGED streamOf
  PROVE  ShownAreSettled'
<1> SUFFICES ASSUME NEW s \in SessionId, streamOf[s] # Absent
             PROVE  held'[s] # Absent /\ held'[s].streams[streamOf[s]] \notin Unsettled
  BY DEF ShownAreSettled, Settled
<1>1. streamOf[s] \in StreamId /\ Settled(s, streamOf[s])
  BY DEF HttpIInv, HttpTypes, ShownAreSettled
<1>2. QED
  BY <1>1 DEF HeldKept, Settled

\* So does what was told of the sessions, if nobody else is told.
LEMMA TableStands ==
  ASSUME HttpIInv, HeldKept, UNCHANGED << connections, toldOf >>
  PROVE  TableIsTold' /\ connections' \subseteq SessionId /\ toldOf' \subseteq SessionId
BY DEF HttpIInv, HttpTypes, TableIsTold, HeldKept

\* A step of one client that touches no connection and shows no stream
LEMMA ClientMoves ==
  ASSUME HttpIInv, HeldKept, UNCHANGED << connections, toldOf, streamOf >>,
         NEW c \in Client, NEW r \in HttpRequest, request' = [request EXCEPT ![c] = r],
         r # Http!Idle => held'[r.session] # Absent,
         r.at = "showing" => held'[r.session].streams[r.stream] \notin Unsettled
  PROVE  HttpIInv'
<1>1. request' \in [Client -> HttpRequest] /\ RequestsAreSound'
  BY RequestsGoOn
<1>2. HttpTypes'
  BY <1>1, TableStands DEF HttpIInv, HttpTypes, HeldKept
<1>3. QED
  BY <1>1, <1>2, TableStands, ShownStand DEF HttpIInv

\* A request that is over says nothing.
LEMMA RequestOver ==
  ASSUME HttpIInv, HeldKept, UNCHANGED << connections, toldOf, streamOf >>,
         NEW c \in Client, request' = [request EXCEPT ![c] = Http!Idle]
  PROVE  HttpIInv'
<1>1. Http!Idle \in HttpRequest
  BY DEF HttpRequest
<1>2. Http!Idle.at # "showing"
  BY DEF Http!Idle
<1>3. QED
  BY <1>1, <1>2, ClientMoves

\* A session is created, to be registered or without an answer.
LEMMA CreateSessionStep ==
  ASSUME HttpIInv, NEW c \in Client, NEW s \in SessionId, Http!CreateSession(c, s)
  PROVE  HttpIInv'
<1> DEFINE n == Http!Quiet(Http!AfterActivate(Http!NewSession))
           r == [at |-> "registering", session |-> s]
<1>1. /\ held[s] = Absent /\ held' = [held EXCEPT ![s] = n]
      /\ UNCHANGED << connections, toldOf, streamOf >>
      /\ \/ request' = [request EXCEPT ![c] = r]
         \/ request' = [request EXCEPT ![c] = Http!Idle]
  BY DEF Http!CreateSession, Http!Stores, Http!Goes, Http!Unpublished, Http!table
<1>2. n \in Http!Session
  <2>1. Http!NewSession \in Http!Session
    <3>1. [total |-> 0, active |-> 0, completed |-> 0, failed |-> 0] \in Http!SessionStats
      BY DEF Http!SessionStats
    <3>2. [id \in StreamId |-> "Absent"] \in [StreamId -> Http!StreamState]
      BY DEF Http!StreamState
    <3>3. "Initializing" \in Http!SessionState /\ << >> \in Seq(Http!Event)
      BY DEF Http!SessionState
    <3>4. QED
      BY <3>1, <3>2, <3>3 DEF Http!NewSession, Http!Session
  <2>2. ASSUME NEW v \in Http!Session, NEW m, m = Http!Quiet(Http!AfterActivate(v))
        PROVE  m \in Http!Session
    <3>1. m = [state |-> "Active", streams |-> v.streams, stats |-> v.stats, pending |-> << >>]
      BY <2>2 DEF Http!Quiet, Http!AfterActivate, Http!Session
    <3>2. "Active" \in Http!SessionState
      BY DEF Http!SessionState
    <3>3. QED
      BY <3>1, <3>2 DEF Http!Session
  <2>3. QED
    BY <2>1, <2>2
<1> HIDE DEF n
<1>3. HeldKept /\ held'[s] # Absent
  BY <1>1, <1>2, OneIsWritten
<1>4. CASE request' = [request EXCEPT ![c] = r]
  <2>1. r \in HttpRequest /\ r.session = s /\ r.at # "showing"
    BY DEF HttpRequest
  <2> HIDE DEF r
  <2>2. QED
    BY <1>1, <1>3, <1>4, <2>1, ClientMoves
<1>5. CASE request' = [request EXCEPT ![c] = Http!Idle]
  BY <1>1, <1>3, <1>5, RequestOver
<1>6. QED
  BY <1>1, <1>4, <1>5

\* What the table's limit is counted by
LEMMA FiniteTable ==
  ASSUME HttpIInv
  PROVE  /\ IsFiniteSet(connections) /\ Cardinality(connections) \in Nat
         /\ Http!Cardinality(connections) = Cardinality(connections)
         /\ Http!Table!Cardinality(connections) = Cardinality(connections)
<1>1. IsFiniteSet(connections)
  BY ReportersAssumption, FS_Subset DEF HttpIInv, HttpTypes
<1>2. QED
  BY <1>1, FS_CardinalityType DEF Http!Cardinality, Http!Table!Cardinality, Cardinality

\* The session that was created is registered, if the table has room.
LEMMA RegisterStep ==
  ASSUME HttpIInv, NEW c \in Client, Http!Register(c)
  PROVE  HttpIInv'
<1> DEFINE s == request[c].session
<1>1. /\ request[c].at = "registering"
      /\ toldOf' = toldOf \cup {s}
      /\ request' = [request EXCEPT ![c] = Http!Idle]
      /\ UNCHANGED << streamOf, held >>
      /\ \/ /\ Cardinality(connections) < MaxConnections
            /\ connections' = connections \cup {s}
         \/ /\ ~(Cardinality(connections) < MaxConnections)
            /\ connections' = connections
  BY FiniteTable DEF Http!Register, Http!Goes, Http!Table!RegisterConnection, Http!table
<1>2. s \in SessionId /\ held[s] # Absent
  <2>1. request[c] \in HttpRequest /\ request[c] # Http!Idle
    BY <1>1 DEF HttpIInv, HttpTypes, Http!Idle
  <2>2. QED
    BY <2>1 DEF HttpRequest, HttpIInv, RequestsAreSound
<1> HIDE DEF s
<1>3. HeldKept
  BY <1>1, HeldUnchanged
<1>4. Http!Idle \in HttpRequest /\ Http!Idle.at # "showing"
  BY DEF HttpRequest, Http!Idle
<1>5. request' \in [Client -> HttpRequest] /\ RequestsAreSound'
  BY <1>1, <1>3, <1>4, RequestsGoOn
<1>6. HttpTypes'
  BY <1>1, <1>2, <1>5 DEF HttpIInv, HttpTypes
<1>7. TableIsTold'
  <2>1. /\ \A x \in toldOf' : held'[x] # Absent
        /\ connections' \subseteq toldOf'
    BY <1>1, <1>2 DEF HttpIInv, TableIsTold
  <2>2. /\ Cardinality(connections') <= MaxConnections
        /\ \A x \in toldOf' \ connections' : Cardinality(connections') = MaxConnections
    <3>1. /\ Cardinality(connections) <= MaxConnections /\ MaxConnections \in Nat
          /\ Cardinality(connections) \in Nat /\ IsFiniteSet(connections)
      BY HttpAssumption, FiniteTable DEF HttpIInv, TableIsTold
    <3>2. CASE Cardinality(connections) < MaxConnections /\ connections' = connections \cup {s}
      <4>1. toldOf \subseteq connections
        BY <3>1, <3>2 DEF HttpIInv, TableIsTold
      <4>2. toldOf' \ connections' = {}
        BY <1>1, <3>2, <4>1
      <4>3. Cardinality(connections') <= MaxConnections
        <5>1. CASE s \in connections
          BY <3>1, <3>2, <5>1
        <5>2. CASE s \notin connections
          <6>1. Cardinality(connections \cup {s}) = Cardinality(connections) + 1
            BY <3>1, <5>2, FS_AddElement
          <6>2. QED
            BY <3>1, <3>2, <6>1
        <5>3. QED
          BY <5>1, <5>2
      <4>4. QED
        BY <4>2, <4>3
    <3>3. CASE ~(Cardinality(connections) < MaxConnections) /\ connections' = connections
      <4>1. Cardinality(connections) = MaxConnections
        BY <3>1, <3>3
      <4>2. QED
        BY <3>1, <3>3, <4>1
    <3>4. QED
      BY <1>1, <3>2, <3>3
  <2>3. QED
    BY <2>1, <2>2 DEF TableIsTold
<1>8. ShownAreSettled'
  BY <1>1, <1>3, ShownStand
<1>9. QED
  BY <1>5, <1>6, <1>7, <1>8 DEF HttpIInv

\* A client asks for a stream in a session it knows.
LEMMA BeginStreamStep ==
  ASSUME HttpIInv, NEW c \in Client, NEW s \in SessionId, Http!BeginStream(c, s)
  PROVE  HttpIInv'
<1> DEFINE r == [at |-> "creating", session |-> s]
<1>1. /\ s \in toldOf /\ request' = [request EXCEPT ![c] = r]
      /\ UNCHANGED << connections, toldOf, streamOf, held >>
  BY DEF Http!BeginStream, Http!Touch, Http!Goes, Http!Table!TouchConnection, Http!table
<1>2. HeldKept
  BY <1>1, HeldUnchanged
<1>3. held'[s] # Absent
  BY <1>1 DEF HttpIInv, TableIsTold
<1>4. r \in HttpRequest /\ r.session = s /\ r.at # "showing"
  BY DEF HttpRequest
<1> HIDE DEF r
<1>5. QED
  BY <1>1, <1>2, <1>3, <1>4, ClientMoves

\* A request that is past its first step is about a session there is.
LEMMA RequestTyped ==
  ASSUME HttpIInv, NEW c \in Client, request[c] # Http!Idle
  PROVE  /\ request[c] \in HttpRequest /\ request[c].session \in SessionId
         /\ held[request[c].session] # Absent
         /\ held[request[c].session] \in Http!Session
         /\ request[c].at \in {"starting", "showing"} => request[c].stream \in StreamId
<1>1. request[c] \in HttpRequest
  BY DEF HttpIInv, HttpTypes
<1>2. /\ request[c].session \in SessionId
      /\ request[c].at \in {"starting", "showing"} => request[c].stream \in StreamId
  BY <1>1 DEF HttpRequest
<1>3. held[request[c].session] # Absent
  BY DEF HttpIInv, RequestsAreSound
<1>4. QED
  BY <1>1, <1>2, <1>3 DEF HttpIInv, HttpTypes

\* The stream is created in its session, or refused.
LEMMA CreateStreamStep ==
  ASSUME HttpIInv, NEW c \in Client, Http!CreateStream(c)
  PROVE  HttpIInv'
<1> DEFINE s == request[c].session
<1>1. /\ request[c].at = "creating"
      /\ UNCHANGED << connections, toldOf, streamOf >>
      /\ \/ \E id \in StreamId :
              /\ Http!MayCreateStream(held[s], s \in expired, id)
              /\ Http!Stores(s, Http!AfterCreateStream(held[s], id))
              /\ \/ request' = [request EXCEPT ![c] = [at |-> "starting", session |-> s, stream |-> id]]
                 \/ request' = [request EXCEPT ![c] = Http!Idle]
         \/ request' = [request EXCEPT ![c] = Http!Idle] /\ UNCHANGED held
  BY DEF Http!CreateStream, Http!Goes, Http!Unpublished, Http!table
<1>2. /\ s \in SessionId /\ held[s] # Absent /\ held[s] \in Http!Session
  <2>1. request[c] # Http!Idle
    BY <1>1 DEF Http!Idle
  <2>2. QED
    BY <2>1, RequestTyped
<1> HIDE DEF s
<1>3. ASSUME NEW id \in StreamId, Http!MayCreateStream(held[s], s \in expired, id),
             Http!Stores(s, Http!AfterCreateStream(held[s], id)),
             \/ request' = [request EXCEPT ![c] = [at |-> "starting", session |-> s, stream |-> id]]
             \/ request' = [request EXCEPT ![c] = Http!Idle]
      PROVE  HttpIInv'
  <2>1. held[s].streams[id] \in Unsettled
    BY <1>3 DEF Http!MayCreateStream, Unsettled
  <2>2. "Preparing" \in Http!StreamState
    BY DEF Http!StreamState, Http!ActiveStates
  <2>3. HeldKept /\ held'[s] # Absent
    BY <1>2, <1>3, <2>1, <2>2, HttpCounters, StreamMoves DEF Http!AfterCreateStream
  <2> DEFINE r == [at |-> "starting", session |-> s, stream |-> id]
  <2>4. r \in HttpRequest /\ r.session = s /\ r.at # "showing"
    BY <1>2 DEF HttpRequest
  <2>5. CASE request' = [request EXCEPT ![c] = r]
    <3> HIDE DEF r
    <3>1. QED
      BY <1>1, <2>3, <2>4, <2>5, ClientMoves
  <2>6. CASE request' = [request EXCEPT ![c] = Http!Idle]
    BY <1>1, <2>3, <2>6, RequestOver
  <2>7. QED
    BY <1>3, <2>5, <2>6
<1>4. CASE request' = [request EXCEPT ![c] = Http!Idle] /\ UNCHANGED held
  BY <1>1, <1>4, HeldUnchanged, RequestOver
<1>5. QED
  BY <1>1, <1>3, <1>4

\* The stream that was created is started, or its start fails.
LEMMA StartStreamStep ==
  ASSUME HttpIInv, NEW c \in Client, Http!StartStream(c)
  PROVE  HttpIInv'
<1> DEFINE s  == request[c].session
           id == request[c].stream
           r  == [request[c] EXCEPT !.at = "showing"]
<1>1. /\ request[c].at = "starting"
      /\ UNCHANGED << connections, toldOf, streamOf >>
      /\ \/ /\ Http!MayStartStream(held[s], id)
            /\ Http!Stores(s, Http!AfterStartStream(held[s], id))
            /\ \/ request' = [request EXCEPT ![c] = r]
               \/ request' = [request EXCEPT ![c] = Http!Idle]
         \/ request' = [request EXCEPT ![c] = Http!Idle] /\ UNCHANGED held
  BY DEF Http!StartStream, Http!Goes, Http!Unpublished, Http!table
<1>2. /\ request[c] # Http!Idle /\ request[c] \in HttpRequest
      /\ s \in SessionId /\ held[s] # Absent /\ held[s] \in Http!Session /\ id \in StreamId
  <2>1. request[c] # Http!Idle
    BY <1>1 DEF Http!Idle
  <2>2. QED
    BY <1>1, <2>1, RequestTyped
<1>3. r \in HttpRequest /\ r.session = s /\ r.stream = id
  BY <1>1, <1>2 DEF HttpRequest, Http!Idle
<1> HIDE DEF s, id, r
<1>4. CASE /\ Http!MayStartStream(held[s], id)
           /\ Http!Stores(s, Http!AfterStartStream(held[s], id))
           /\ \/ request' = [request EXCEPT ![c] = r]
              \/ request' = [request EXCEPT ![c] = Http!Idle]
  <2>1. held[s].streams[id] \in Unsettled
    BY <1>4 DEF Http!MayStartStream, Unsettled
  <2>2. "Streaming" \in Http!StreamState
    BY DEF Http!StreamState, Http!ActiveStates
  <2>3. HeldKept /\ held'[s] # Absent /\ held'[s].streams[id] = "Streaming"
    BY <1>2, <1>4, <2>1, <2>2, HttpCounters, StreamMoves DEF Http!AfterStartStream
  <2>4. CASE request' = [request EXCEPT ![c] = r]
    BY <1>1, <1>3, <2>3, <2>4, ClientMoves DEF Unsettled
  <2>5. CASE request' = [request EXCEPT ![c] = Http!Idle]
    BY <1>1, <2>3, <2>5, RequestOver
  <2>6. QED
    BY <1>4, <2>4, <2>5
<1>5. CASE request' = [request EXCEPT ![c] = Http!Idle] /\ UNCHANGED held
  BY <1>1, <1>5, HeldUnchanged, RequestOver
<1>6. QED
  BY <1>1, <1>4, <1>5

\* The stream that was started is shown in the table.
LEMMA ShowStreamStep ==
  ASSUME HttpIInv, NEW c \in Client, Http!ShowStream(c)
  PROVE  HttpIInv'
<1> DEFINE s  == request[c].session
           id == request[c].stream
<1>1. /\ request[c].at = "showing"
      /\ streamOf' = IF s \in connections THEN [streamOf EXCEPT ![s] = id] ELSE streamOf
      /\ request' = [request EXCEPT ![c] = Http!Idle]
      /\ UNCHANGED << connections, toldOf, held >>
  BY DEF Http!ShowStream, Http!Touch, Http!Goes, Http!Table!TouchConnection, Http!table
<1>2. s \in SessionId /\ id \in StreamId /\ Settled(s, id)
  <2>1. request[c] # Http!Idle
    BY <1>1 DEF Http!Idle
  <2>2. QED
    BY <1>1, <2>1, RequestTyped DEF HttpIInv, RequestsAreSound
<1> HIDE DEF s, id
<1>3. HeldKept
  BY <1>1, HeldUnchanged
<1>4. Http!Idle \in HttpRequest /\ Http!Idle.at # "showing"
  BY DEF HttpRequest, Http!Idle
<1>5. request' \in [Client -> HttpRequest] /\ RequestsAreSound'
  BY <1>1, <1>3, <1>4, RequestsGoOn
<1>6. streamOf' \in [SessionId -> StreamId \cup {Absent}]
  BY <1>1, <1>2 DEF HttpIInv, HttpTypes
<1>7. HttpTypes' /\ TableIsTold'
  BY <1>1, <1>3, <1>5, <1>6, TableStands DEF HttpIInv, HttpTypes, HeldKept
<1>8. ShownAreSettled'
  <2> SUFFICES ASSUME NEW x \in SessionId, streamOf'[x] # Absent
               PROVE  held[x] # Absent /\ held[x].streams[streamOf'[x]] \notin Unsettled
    BY <1>1 DEF ShownAreSettled, Settled
  <2>1. CASE streamOf'[x] = streamOf[x]
    BY <2>1 DEF HttpIInv, ShownAreSettled, Settled
  <2>2. CASE x = s /\ streamOf'[x] = id
    BY <1>2, <2>2 DEF Settled
  <2>3. QED
    BY <1>1, <2>1, <2>2 DEF HttpIInv, HttpTypes
<1>9. QED
  BY <1>5, <1>7, <1>8 DEF HttpIInv

\* Steps on nobody's behalf: no request moves.
LEMMA NobodyMoves ==
  ASSUME HttpIInv, HeldKept, UNCHANGED << connections, toldOf, streamOf, request >>
  PROVE  HttpIInv'
<1>1. ASSUME NEW c \in Client
      PROVE  /\ request[c] # Http!Idle => held'[request[c].session] # Absent
             /\ request[c].at = "showing" =>
                  /\ held'[request[c].session] # Absent
                  /\ held'[request[c].session].streams[request[c].stream] \notin Unsettled
  <2>1. CASE request[c] = Http!Idle
    BY <2>1 DEF Http!Idle
  <2>2. CASE request[c] # Http!Idle
    <3>1. request[c].session \in SessionId /\ held'[request[c].session] # Absent
      BY <2>2, RequestTyped DEF HeldKept
    <3>2. CASE request[c].at = "showing"
      <4>1. request[c].stream \in StreamId
        BY <2>2, <3>2, RequestTyped
      <4>2. Settled(request[c].session, request[c].stream)
        BY <3>2 DEF HttpIInv, RequestsAreSound
      <4>3. held'[request[c].session].streams[request[c].stream] \notin Unsettled
        BY <3>1, <4>1, <4>2 DEF HeldKept, Settled
      <4>4. QED
        BY <3>1, <4>3
    <3>3. QED
      BY <3>1, <3>2
  <2>3. QED
    BY <2>1, <2>2
<1>2. RequestsAreSound'
  BY <1>1 DEF RequestsAreSound, Settled, Http!Idle
<1>3. HttpTypes' /\ TableIsTold'
  BY TableStands DEF HttpIInv, HttpTypes, HeldKept
<1>4. QED
  BY <1>2, <1>3, ShownStand DEF HttpIInv

\* A session is closed, and its streams with it.
LEMMA CloseSessionStep ==
  ASSUME HttpIInv, NEW s \in SessionId, Http!CloseSession(s)
  PROVE  HttpIInv'
<1>1. /\ s \in toldOf /\ held' = [held EXCEPT ![s] = Http!Quiet(Http!AfterClose(held[s]))]
      /\ UNCHANGED << connections, toldOf, streamOf, request >>
  BY DEF Http!CloseSession, Http!Stores, Http!table
<1>2. held[s] # Absent /\ held[s] \in Http!Session
  BY <1>1 DEF HttpIInv, HttpTypes, TableIsTold
<1>3. ASSUME NEW n, n = Http!Quiet(Http!AfterClose(held[s]))
      PROVE  /\ n \in Http!Session
             /\ \A id \in StreamId : held[s].streams[id] \notin Unsettled => n.streams[id] \notin Unsettled
  <2>1. n = [state   |-> "Completed",
             streams |-> [id \in StreamId |-> IF held[s].streams[id] \in Http!ActiveStates
                                              THEN "Cancelled" ELSE held[s].streams[id]],
             stats   |-> held[s].stats,
             pending |-> << >>]
    BY <1>2, <1>3 DEF Http!Quiet, Http!AfterClose, Http!Session
  <2>2. n \in Http!Session
    BY <1>2, <2>1 DEF Http!Session, Http!SessionState, Http!StreamState, Http!FinishedStates
  <2>3. \A id \in StreamId :
          n.streams[id] = IF held[s].streams[id] \in Http!ActiveStates
                          THEN "Cancelled" ELSE held[s].streams[id]
    BY <2>1
  <2>4. QED
    BY <2>2, <2>3 DEF Unsettled
<1>4. HeldKept
  BY <1>1, <1>3, OneIsWritten
<1>5. QED
  BY <1>1, <1>4, NobodyMoves

\* Every step behind the routes keeps their invariant.
LEMMA HttpStep ==
  ASSUME HttpIInv, Http!Next
  PROVE  HttpIInv'
<1>1. ASSUME NEW s \in SessionId, Http!Expire(s) PROVE HttpIInv'
  BY <1>1, HeldUnchanged, NobodyMoves DEF Http!Expire, Http!table
<1>2. ASSUME Http!Sweep PROVE HttpIInv'
  <2>1. UNCHANGED << connections, toldOf, streamOf, request, held >>
    BY <1>2 DEF Http!Sweep, Http!Table!CheckTimeouts, Http!Table!CloseTimedOut,
                Http!Table!BecomeIdle, Http!Table!table
  <2>2. QED
    BY <2>1, HeldUnchanged, NobodyMoves
<1>3. QED
  BY <1>1, <1>2, CreateSessionStep, BeginStreamStep, RegisterStep, CreateStreamStep,
     StartStreamStep, ShowStreamStep, CloseSessionStep DEF Http!Next

\* There are no sessions and no connections at the start.
LEMMA HttpInit == Http!Init => HttpIInv
<1> SUFFICES ASSUME Http!Init PROVE HttpIInv
  OBVIOUS
<1>1. /\ connections = {} /\ toldOf = {}
      /\ streamOf = [s \in SessionId |-> Absent]
      /\ held = [s \in SessionId |-> Absent]
      /\ request = [c \in Client |-> Http!Idle]
  BY DEF Http!Init, Http!Table!Init
<1>2. HttpTypes
  BY <1>1 DEF HttpTypes, HttpRequest
<1>3. TableIsTold
  BY <1>1, FS_EmptySet, HttpAssumption DEF TableIsTold
<1>4. RequestsAreSound
  BY <1>1 DEF RequestsAreSound, Http!Idle
<1>5. ShownAreSettled
  BY <1>1 DEF ShownAreSettled
<1>6. QED
  BY <1>2, <1>3, <1>4, <1>5 DEF HttpIInv

\* The invariant says that the table follows the sessions.
LEMMA HttpConnectionsFollow ==
  ASSUME HttpIInv
  PROVE  Http!ConnectionsFollowSessions
<1>1. \A s \in toldOf \ connections : Http!Cardinality(connections) = MaxConnections
  BY FiniteTable DEF HttpIInv, TableIsTold
<1>2. \A s \in connections : streamOf[s] # Absent => held[s].streams[streamOf[s]] \notin Unsettled
  BY DEF HttpIInv, HttpTypes, ShownAreSettled, Settled
<1>3. QED
  BY <1>1, <1>2 DEF HttpIInv, TableIsTold, Unsettled, Http!ConnectionsFollowSessions

-----------------------------------------------------------------------------
(* The stream writers *)

HandedIn   == [priority : Nat, call : Nat, sorted : BOOLEAN]
WriterCall == [kind : {"none", "single", "batch", "queued", "draining"}, todo : Seq(Nat)]

OnWire == {written[i][1] : i \in DOMAIN written}
Todo   == {writing.todo[i] : i \in DOMAIN writing.todo}

WriterTypes ==
  /\ frames \in Seq(HandedIn)
  /\ writing \in WriterCall
  /\ written \in Seq(Nat \X BOOLEAN)
  /\ queue \cup Todo \cup OnWire \subseteq DOMAIN frames
  /\ \A f \in DOMAIN frames : frames[f].call <= Len(frames)

WrittenOnce == \A i, j \in DOMAIN written : written[i][1] = written[j][1] => i = j
TornHaveFailed == \A i \in DOMAIN written : ~written[i][2] => written[i][1] \in failed

\* A frame is to be written, or in the queue, or on the wire, and there once.
InOnePlace ==
  /\ \A i, j \in DOMAIN writing.todo : writing.todo[i] = writing.todo[j] => i = j
  /\ WrittenOnce
  /\ Todo \cap queue = {} /\ Todo \cap OnWire = {} /\ queue \cap OnWire = {}

NoneForgotten ==
  /\ \A f \in DOMAIN frames :
       \/ f \in failed \cup dropped \cup Todo \cup queue
       \/ \E i \in DOMAIN written : written[i] = << f, TRUE >>
  /\ TornHaveFailed

\* Of the frames in the queue one at most is of the call under way, while it
\* drains; the others were left by calls that failed.
QueueIsLeftOver ==
  /\ writing.kind # "draining" => queue \subseteq failed
  /\ \A f, g \in queue \ failed : f = g

CallIsSound ==
  /\ writing.kind = "none" => writing = Writing!NoCall
  /\ writing.kind = "single" => Len(writing.todo) = 1

\* f may be written before g, unless one of them failed or was of another call.
Ahead(f, g) ==
  frames[f].call = frames[g].call /\ f \notin failed /\ g \notin failed =>
    IF frames[f].sorted THEN frames[f].priority >= frames[g].priority ELSE f < g

WrittenInOrder ==
  \A i, j \in DOMAIN written : i < j => Ahead(written[i][1], written[j][1])

\* Frames go from the call by way of the queue to the wire, in order.
WireIsAhead ==
  /\ WrittenInOrder
  /\ \A f \in OnWire, g \in queue \cup Todo : Ahead(f, g)
  /\ \A f \in queue, g \in Todo : Ahead(f, g)
  /\ \A i, j \in DOMAIN writing.todo : i < j => Ahead(writing.todo[i], writing.todo[j])

WriterIInv ==
  /\ WriterTypes /\ InOnePlace /\ NoneForgotten /\ QueueIsLeftOver /\ CallIsSound
  /\ WireIsAhead

\* A writer begins with nothing.
LEMMA WriterInit == Writing!Init => WriterIInv
<1> SUFFICES ASSUME Writing!Init PROVE WriterIInv
  OBVIOUS
<1>1. /\ frames = << >> /\ writing = [kind |-> "none", todo |-> << >>] /\ queue = {}
      /\ written = << >> /\ failed = {}
  BY DEF Writing!Init, Writing!NoCall
<1>2. Todo = {} /\ OnWire = {}
  BY <1>1 DEF Todo, OnWire
<1>3. WriterTypes
  BY <1>1, <1>2 DEF WriterTypes, WriterCall
<1>4. QED
  BY <1>1, <1>2, <1>3 DEF WriterIInv, InOnePlace, NoneForgotten, QueueIsLeftOver, CallIsSound,
                          WireIsAhead, WrittenOnce, TornHaveFailed, WrittenInOrder,
                          Writing!NoCall

\* What the writer's parts look like, with the types in hand.
LEMMA WriterFields ==
  ASSUME WriterTypes
  PROVE  /\ writing.todo \in Seq(Nat)
         /\ writing.kind \in {"none", "single", "batch", "queued", "draining"}
         /\ \A f \in DOMAIN frames : /\ f \in Nat /\ frames[f].priority \in Nat
                                     /\ frames[f].call \in Nat /\ frames[f].sorted \in BOOLEAN
         /\ \A i \in DOMAIN written : /\ written[i][1] \in Nat /\ written[i][2] \in BOOLEAN
                                      /\ written[i] = << written[i][1], written[i][2] >>
         /\ \A i \in DOMAIN written : written[i][1] \in OnWire
         /\ \A i \in DOMAIN writing.todo : writing.todo[i] \in Todo
<1>1. \A i \in DOMAIN written : written[i] \in Nat \X BOOLEAN
  BY DEF WriterTypes
<1>2. \A f \in DOMAIN frames : f \in Nat /\ frames[f] \in HandedIn
  BY DEF WriterTypes
<1>3. QED
  BY <1>1, <1>2 DEF WriterTypes, WriterCall, HandedIn, OnWire, Todo

\* What was ahead stays ahead, as more frames fail.
LEMMA StaysAhead ==
  ASSUME UNCHANGED frames, failed \subseteq failed'
  PROVE  \A f, g : Ahead(f, g) => Ahead(f, g)'
BY DEF Ahead

\* Frames that were on no wire go on it, in their order and after the others.
LEMMA WireExtends ==
  ASSUME WriterIInv, NEW ext \in Seq(Nat),
         UNCHANGED frames, failed \subseteq failed',
         written' \in Seq(Nat \X BOOLEAN), Len(written') = Len(written) + Len(ext),
         \A i \in 1 .. Len(written) : written'[i] = written[i],
         \A i \in 1 .. Len(ext) :
           /\ written'[Len(written) + i][1] = ext[i]
           /\ ~written'[Len(written) + i][2] => ext[i] \in failed'
           /\ ext[i] \notin OnWire
           /\ \A f \in OnWire : Ahead(f, ext[i])',
         \A i, j \in 1 .. Len(ext) : ext[i] = ext[j] => i = j,
         \A i, j \in 1 .. Len(ext) : i < j => Ahead(ext[i], ext[j])'
  PROVE  /\ WrittenOnce' /\ TornHaveFailed' /\ WrittenInOrder'
         /\ OnWire' = OnWire \cup {ext[i] : i \in 1 .. Len(ext)}
         /\ \A f : (\E i \in DOMAIN written : written[i] = << f, TRUE >>)
                     => \E i \in DOMAIN written' : written'[i] = << f, TRUE >>
<1> DEFINE n == Len(written)
           m == Len(ext)
<1>1. n \in Nat /\ m \in Nat /\ DOMAIN written = 1 .. n /\ DOMAIN written' = 1 .. (n + m)
  BY DEF WriterIInv, WriterTypes
<1>2. \A i \in 1 .. n : written[i][1] \in OnWire
  BY <1>1, WriterFields DEF WriterIInv
<1>3. \A k \in 1 .. (n + m) : k \in 1 .. n \/ \E i \in 1 .. m : k = n + i
  <2> SUFFICES ASSUME NEW k \in 1 .. (n + m), k \notin 1 .. n
               PROVE  \E i \in 1 .. m : k = n + i
    OBVIOUS
  <2>1. k - n \in 1 .. m /\ k = n + (k - n)
    BY <1>1
  <2>2. QED
    BY <2>1
<1>4. \A k \in 1 .. n : k \in 1 .. (n + m) /\ \A i \in 1 .. m : k < n + i /\ n + i \in 1 .. (n + m)
  BY <1>1, SMTT(30)
<1> HIDE DEF n, m
<1>5. WrittenOnce'
  <2> SUFFICES ASSUME NEW k \in 1 .. (n + m), NEW l \in 1 .. (n + m),
                      written'[k][1] = written'[l][1]
               PROVE  k = l
    BY <1>1 DEF WrittenOnce
  <2>1. CASE k \in 1 .. n /\ l \in 1 .. n
    <3>1. written[k][1] = written[l][1]
      BY <2>1 DEF n
    <3>2. WrittenOnce
      BY DEF WriterIInv, InOnePlace
    <3>3. QED
      BY <3>1, <3>2, <2>1, <1>1 DEF WrittenOnce
  <2>2. ASSUME NEW a \in 1 .. n, NEW i \in 1 .. m PROVE written'[a][1] # written'[n + i][1]
    BY <1>2 DEF n, m
  <2>3. ASSUME NEW i \in 1 .. m, NEW j \in 1 .. m, written'[n + i][1] = written'[n + j][1]
        PROVE  i = j
    BY <2>3 DEF n, m
  <2>4. CASE k \in 1 .. n /\ l \notin 1 .. n
    <3>1. PICK i \in 1 .. m : l = n + i
      BY <2>4, <1>3
    <3>2. QED
      BY <2>2, <2>4, <3>1
  <2>5. CASE k \notin 1 .. n /\ l \in 1 .. n
    <3>1. PICK i \in 1 .. m : k = n + i
      BY <2>5, <1>3
    <3>2. QED
      BY <2>2, <2>5, <3>1
  <2>6. CASE k \notin 1 .. n /\ l \notin 1 .. n
    <3>1. PICK i \in 1 .. m, j \in 1 .. m : k = n + i /\ l = n + j
      BY <2>6, <1>3
    <3>2. QED
      BY <2>3, <3>1
  <2>7. QED
    BY <2>1, <2>4, <2>5, <2>6
<1>6. TornHaveFailed'
  <2> SUFFICES ASSUME NEW k \in 1 .. (n + m), ~written'[k][2] PROVE written'[k][1] \in failed'
    BY <1>1 DEF TornHaveFailed
  <2>1. CASE k \in 1 .. n
    BY <2>1, <1>1 DEF WriterIInv, NoneForgotten, TornHaveFailed, n
  <2>2. CASE \E i \in 1 .. m : k = n + i
    BY <2>2 DEF n, m
  <2>3. QED
    BY <1>3, <2>1, <2>2
<1>7. WrittenInOrder'
  <2> SUFFICES ASSUME NEW k \in 1 .. (n + m), NEW l \in 1 .. (n + m), k < l
               PROVE  Ahead(written[k][1], written[l][1])'
    BY <1>1 DEF WrittenInOrder
  <2>1. CASE k \in 1 .. n /\ l \in 1 .. n
    <3>1. Ahead(written[k][1], written[l][1])
      BY <2>1, <1>1 DEF WriterIInv, WireIsAhead, WrittenInOrder
    <3>2. written'[k] = written[k] /\ written'[l] = written[l]
      BY <2>1 DEF n
    <3>3. QED
      BY <3>1, <3>2 DEF Ahead
  <2>2. CASE k \in 1 .. n /\ l \notin 1 .. n
    <3>1. PICK i \in 1 .. m : l = n + i
      BY <2>2, <1>3
    <3>2. written[k][1] \in OnWire /\ written'[k] = written[k] /\ written'[l][1] = ext[i]
      BY <2>2, <3>1, <1>2 DEF n, m
    <3>3. \A f \in OnWire : Ahead(f, ext[i])'
      BY DEF m
    <3>4. QED
      BY <3>2, <3>3 DEF Ahead
  <2>3. CASE k \notin 1 .. n /\ l \notin 1 .. n
    <3>1. PICK i \in 1 .. m, j \in 1 .. m : k = n + i /\ l = n + j
      BY <2>3, <1>3
    <3>2. i < j /\ written'[k][1] = ext[i] /\ written'[l][1] = ext[j]
      BY <3>1, <1>1, SMTT(30) DEF n, m
    <3>3. Ahead(ext[i], ext[j])'
      BY <3>2 DEF m
    <3>4. QED
      BY <3>2, <3>3 DEF Ahead
  <2>4. CASE k \notin 1 .. n /\ l \in 1 .. n
    BY <2>4, <1>3, <1>1
  <2>5. QED
    BY <2>1, <2>2, <2>3, <2>4
<1>8. OnWire' = OnWire \cup {ext[i] : i \in 1 .. m}
  <2>1. OnWire' = {written'[k][1] : k \in 1 .. (n + m)} /\ OnWire = {written[k][1] : k \in 1 .. n}
    BY <1>1 DEF OnWire
  <2>2. \A k \in 1 .. n : written'[k][1] = written[k][1]
    BY DEF n
  <2>3. \A i \in 1 .. m : written'[n + i][1] = ext[i]
    BY DEF n, m
  <2>4. ASSUME NEW k \in 1 .. (n + m)
        PROVE  written'[k][1] \in OnWire \cup {ext[i] : i \in 1 .. m}
    <3>1. CASE k \in 1 .. n
      BY <3>1, <2>1, <2>2
    <3>2. CASE \E i \in 1 .. m : k = n + i
      BY <3>2, <2>3
    <3>3. QED
      BY <3>1, <3>2, <1>3
  <2>5. \A k \in 1 .. n : written[k][1] \in OnWire'
    BY <2>1, <2>2, <1>4
  <2>6. \A i \in 1 .. m : ext[i] \in OnWire'
    <3> SUFFICES ASSUME NEW i \in 1 .. m PROVE ext[i] \in OnWire'
      OBVIOUS
    <3>1. n + i \in 1 .. (n + m)
      BY <1>1
    <3>2. written'[n + i][1] \in OnWire'
      BY <3>1, <2>1
    <3>3. QED
      BY <3>2, <2>3
  <2>7. ASSUME NEW x \in OnWire' PROVE x \in OnWire \cup {ext[i] : i \in 1 .. m}
    <3>1. PICK k \in 1 .. (n + m) : x = written'[k][1]
      BY <2>1
    <3>2. QED
      BY <3>1, <2>4
  <2>8. ASSUME NEW x \in OnWire PROVE x \in OnWire'
    <3>1. PICK k \in 1 .. n : x = written[k][1]
      BY <2>1
    <3>2. QED
      BY <3>1, <2>5
  <2>9. {ext[i] : i \in 1 .. m} \subseteq OnWire'
    BY <2>6
  <2>10. QED
    BY <2>7, <2>8, <2>9
<1>9. QED
  BY <1>1, <1>4, <1>5, <1>6, <1>7, <1>8 DEF n, m

\* The wire as it was.
LEMMA WireStands ==
  ASSUME WriterIInv, UNCHANGED << frames, written >>, failed \subseteq failed'
  PROVE  WrittenOnce' /\ TornHaveFailed' /\ WrittenInOrder' /\ OnWire' = OnWire
BY StaysAhead DEF WriterIInv, InOnePlace, NoneForgotten, WireIsAhead, WrittenOnce, TornHaveFailed,
                  WrittenInOrder, OnWire

\* One frame goes on the wire.
LEMMA FrameIsWritten ==
  ASSUME WriterIInv, NEW f \in Nat, NEW whole \in BOOLEAN, f \notin OnWire,
         UNCHANGED frames, failed \subseteq failed',
         written' = Append(written, << f, whole >>), ~whole => f \in failed',
         \A g \in OnWire : Ahead(g, f)'
  PROVE  /\ WrittenOnce' /\ TornHaveFailed' /\ WrittenInOrder'
         /\ OnWire' = OnWire \cup {f}
         /\ written' \in Seq(Nat \X BOOLEAN)
         /\ \A g : (\E i \in DOMAIN written : written[i] = << g, TRUE >>) \/ (whole /\ g = f)
                     => \E i \in DOMAIN written' : written'[i] = << g, TRUE >>
<1> DEFINE ext == << f >>
<1>1. ext \in Seq(Nat) /\ Len(ext) = 1 /\ ext[1] = f /\ \A i \in 1 .. Len(ext) : i = 1
  OBVIOUS
<1>2. << f, whole >> \in Nat \X BOOLEAN /\ written \in Seq(Nat \X BOOLEAN)
  BY DEF WriterIInv, WriterTypes
<1>3. /\ written' \in Seq(Nat \X BOOLEAN) /\ Len(written') = Len(written) + 1
      /\ \A i \in 1 .. Len(written) : written'[i] = written[i]
      /\ written'[Len(written) + 1] = << f, whole >>
      /\ Len(written) + 1 \in DOMAIN written'
  BY <1>2
<1>4. written'[Len(written) + 1][1] = f /\ (~written'[Len(written) + 1][2] => f \in failed')
  BY <1>3
<1> HIDE DEF ext
<1>5. \A i \in 1 .. Len(ext) :
           /\ written'[Len(written) + i][1] = ext[i]
           /\ ~written'[Len(written) + i][2] => ext[i] \in failed'
           /\ ext[i] \notin OnWire
           /\ \A g \in OnWire : Ahead(g, ext[i])'
  BY <1>1, <1>4
<1>6. /\ \A i, j \in 1 .. Len(ext) : ext[i] = ext[j] => i = j
      /\ \A i, j \in 1 .. Len(ext) : ~(i < j)
  BY <1>1
<1>7. /\ WrittenOnce' /\ TornHaveFailed' /\ WrittenInOrder'
      /\ OnWire' = OnWire \cup {ext[i] : i \in 1 .. Len(ext)}
      /\ \A g : (\E i \in DOMAIN written : written[i] = << g, TRUE >>)
                     => \E i \in DOMAIN written' : written'[i] = << g, TRUE >>
  BY <1>1, <1>3, <1>5, <1>6, WireExtends
<1>8. {ext[i] : i \in 1 .. Len(ext)} = {f}
  BY <1>1
<1>9. QED
  BY <1>3, <1>7, <1>8

\* A call that is over, with whatever answer: what was in its hands is on the
\* wire or has failed, and so has what it leaves in the queue.
LEMMA CallIsOver ==
  ASSUME WriterIInv, UNCHANGED << frames, dropped >>, writing' = Writing!NoCall,
         failed \subseteq failed', queue' \subseteq queue \cap failed',
         written' \in Seq(Nat \X BOOLEAN),
         WrittenOnce', TornHaveFailed', WrittenInOrder',
         OnWire' \subseteq OnWire \cup Todo \cup (queue \ queue'),
         \A f : (\E i \in DOMAIN written : written[i] = << f, TRUE >>)
                  => \E i \in DOMAIN written' : written'[i] = << f, TRUE >>,
         \A f \in Todo \cup queue :
           f \in failed' \/ \E i \in DOMAIN written' : written'[i] = << f, TRUE >>
  PROVE  WriterIInv'
<1>1. writing' = [kind |-> "none", todo |-> << >>] /\ Todo' = {} /\ DOMAIN writing'.todo = {}
  BY DEF Writing!NoCall, Todo
<1>2. WriterTypes'
  <2>1. writing' \in WriterCall
    BY <1>1 DEF WriterCall
  <2>2. queue' \cup Todo' \cup OnWire' \subseteq DOMAIN frames
    BY <1>1 DEF WriterIInv, WriterTypes
  <2>3. QED
    BY <2>1, <2>2 DEF WriterIInv, WriterTypes
<1>3. InOnePlace'
  <2>1. queue' \cap OnWire' = {}
    BY DEF WriterIInv, InOnePlace
  <2>2. QED
    BY <1>1, <2>1 DEF InOnePlace
<1>4. NoneForgotten'
  <2> SUFFICES ASSUME NEW f \in DOMAIN frames
               PROVE  \/ f \in failed' \cup dropped' \cup Todo' \cup queue'
                      \/ \E i \in DOMAIN written' : written'[i] = << f, TRUE >>
    BY DEF NoneForgotten
  <2>1. \/ f \in failed \cup dropped \cup Todo \cup queue
        \/ \E i \in DOMAIN written : written[i] = << f, TRUE >>
    BY DEF WriterIInv, NoneForgotten
  <2>2. QED
    BY <2>1
<1>5. QueueIsLeftOver' /\ CallIsSound'
  BY <1>1 DEF QueueIsLeftOver, CallIsSound, Writing!NoCall
<1>6. WireIsAhead'
  <2>1. \A f \in OnWire', g \in queue' : Ahead(f, g)'
    BY DEF Ahead
  <2>2. QED
    BY <1>1, <2>1 DEF WireIsAhead
<1>7. QED
  BY <1>2, <1>3, <1>4, <1>5, <1>6 DEF WriterIInv

\* A call that is answered with an error leaves the wire alone ...
LEMMA CallFailsQuietly ==
  ASSUME WriterIInv, UNCHANGED << frames, dropped, written >>, writing' = Writing!NoCall,
         failed' = failed \cup Todo \cup queue, queue' \subseteq queue
  PROVE  WriterIInv'
<1>1. failed \subseteq failed'
  OBVIOUS
<1>2. WrittenOnce' /\ TornHaveFailed' /\ WrittenInOrder' /\ OnWire' = OnWire
  BY <1>1, WireStands
<1>3. written' \in Seq(Nat \X BOOLEAN)
  BY DEF WriterIInv, WriterTypes
<1>4. queue' \subseteq queue \cap failed' /\ \A f \in Todo \cup queue : f \in failed'
  OBVIOUS
<1>5. QED
  BY <1>1, <1>2, <1>3, <1>4, CallIsOver

\* ... or part of one of its frames on it.
LEMMA CallFailsTorn ==
  ASSUME WriterIInv, UNCHANGED << frames, dropped >>, writing' = Writing!NoCall,
         failed' = failed \cup Todo \cup queue, queue' \subseteq queue,
         NEW f \in Todo \cup (queue \ queue'), written' = Append(written, << f, FALSE >>)
  PROVE  WriterIInv'
<1>1. failed \subseteq failed' /\ f \in failed'
  OBVIOUS
<1>2. f \in Nat /\ f \notin OnWire
  BY WriterFields DEF WriterIInv, WriterTypes, InOnePlace
<1>3. \A g \in OnWire : Ahead(g, f)'
  BY <1>1 DEF Ahead
<1>4. /\ WrittenOnce' /\ TornHaveFailed' /\ WrittenInOrder' /\ OnWire' = OnWire \cup {f}
      /\ written' \in Seq(Nat \X BOOLEAN)
      /\ \A g : (\E i \in DOMAIN written : written[i] = << g, TRUE >>)
                  => \E i \in DOMAIN written' : written'[i] = << g, TRUE >>
  BY <1>1, <1>2, <1>3, FrameIsWritten, ZenonT(30)
<1>5. queue' \subseteq queue \cap failed' /\ \A g \in Todo \cup queue : g \in failed'
  OBVIOUS
<1>6. QED
  BY <1>1, <1>4, <1>5, CallIsOver

\* The first frame of a call is taken out of its hands.
LEMMA FirstIsTaken ==
  ASSUME WriterIInv, writing.todo # << >>, writing'.todo = Tail(writing.todo)
  PROVE  /\ Tail(writing.todo) \in Seq(Nat)
         /\ Head(writing.todo) = writing.todo[1] /\ 1 \in DOMAIN writing.todo
         /\ Head(writing.todo) \in Todo
         /\ Todo' = Todo \ {Head(writing.todo)}
         /\ \A i, j \in DOMAIN writing'.todo :
              /\ writing'.todo[i] = writing'.todo[j] => i = j
              /\ i < j => Ahead(writing'.todo[i], writing'.todo[j])
         /\ \A g \in Todo' : Ahead(Head(writing.todo), g)
<1> DEFINE todo == writing.todo
<1>1. todo \in Seq(Nat) /\ todo # << >>
  BY WriterFields DEF WriterIInv
<1>2. /\ Tail(todo) \in Seq(Nat) /\ Head(todo) = todo[1] /\ 1 \in DOMAIN todo
      /\ Len(todo) \in Nat /\ DOMAIN todo = 1 .. Len(todo)
      /\ DOMAIN Tail(todo) = 1 .. Len(todo) - 1
      /\ \A i \in 1 .. Len(todo) - 1 : Tail(todo)[i] = todo[i + 1]
  BY <1>1
<1>3. /\ \A i, j \in DOMAIN todo : todo[i] = todo[j] => i = j
      /\ \A i, j \in DOMAIN todo : i < j => Ahead(todo[i], todo[j])
  BY DEF WriterIInv, InOnePlace, WireIsAhead
<1>4. \A i \in DOMAIN Tail(todo) : i + 1 \in DOMAIN todo /\ Tail(todo)[i] = todo[i + 1]
  BY <1>2
<1>5. \A i \in DOMAIN todo : i # 1 => i - 1 \in DOMAIN Tail(todo) /\ Tail(todo)[i - 1] = todo[i]
  <2> SUFFICES ASSUME NEW i \in DOMAIN todo, i # 1
               PROVE  i - 1 \in DOMAIN Tail(todo) /\ Tail(todo)[i - 1] = todo[i]
    OBVIOUS
  <2>1. i - 1 \in 1 .. Len(todo) - 1 /\ (i - 1) + 1 = i
    BY <1>2
  <2>2. QED
    BY <2>1, <1>2
<1>6. Todo = {todo[i] : i \in DOMAIN todo} /\ Todo' = {Tail(todo)[i] : i \in DOMAIN Tail(todo)}
  BY DEF Todo
<1>7. \A i \in DOMAIN Tail(todo) : i + 1 # 1 /\ 1 < i + 1 /\ i \in Nat
  BY <1>2
<1> HIDE DEF todo
<1>8. Todo' = Todo \ {Head(todo)}
  <2>1. ASSUME NEW x \in Todo' PROVE x \in Todo \ {Head(todo)}
    <3>1. PICK i \in DOMAIN Tail(todo) : x = Tail(todo)[i]
      BY <1>6
    <3>2. x = todo[i + 1] /\ i + 1 \in DOMAIN todo /\ i + 1 # 1
      BY <3>1, <1>4, <1>7
    <3>3. QED
      BY <3>2, <1>2, <1>3, <1>6
  <2>2. ASSUME NEW x \in Todo \ {Head(todo)} PROVE x \in Todo'
    <3>1. PICK i \in DOMAIN todo : x = todo[i]
      BY <1>6
    <3>2. QED
      BY <3>1, <1>2, <1>5, <1>6
  <2>3. QED
    BY <2>1, <2>2
<1>9. \A g \in Todo' : Ahead(Head(todo), g)
  <2> SUFFICES ASSUME NEW g \in Todo' PROVE Ahead(Head(todo), g)
    OBVIOUS
  <2>1. PICK i \in DOMAIN Tail(todo) : g = Tail(todo)[i]
    BY <1>6
  <2>2. QED
    BY <2>1, <1>2, <1>3, <1>4, <1>7
<1>10. ASSUME NEW i \in DOMAIN Tail(todo), NEW j \in DOMAIN Tail(todo)
       PROVE  /\ Tail(todo)[i] = Tail(todo)[j] => i = j
              /\ i < j => Ahead(Tail(todo)[i], Tail(todo)[j])
  <2>1. i + 1 \in DOMAIN todo /\ j + 1 \in DOMAIN todo /\ i \in Nat /\ j \in Nat
    BY <1>4, <1>7
  <2>2. Tail(todo)[i] = todo[i + 1] /\ Tail(todo)[j] = todo[j + 1]
    BY <1>4
  <2>3. i + 1 = j + 1 => i = j
    BY <2>1
  <2>4. i < j => i + 1 < j + 1
    BY <2>1
  <2>5. QED
    BY <2>1, <2>2, <2>3, <2>4, <1>3
<1>11. Head(todo) \in Todo
  BY <1>2, <1>6
<1>12. QED
  BY <1>2, <1>8, <1>9, <1>10, <1>11 DEF todo

\* The first frame of a call goes into the queue, or is dropped.
LEMMA EnqueueStep ==
  ASSUME WriterIInv, writing.kind = "queued", writing.todo # << >>,
         UNCHANGED << frames, written, failed >>,
         NEW kind, writing' = [kind |-> kind, todo |-> Tail(writing.todo)],
         \/ /\ queue' = queue \cup {Head(writing.todo)} /\ UNCHANGED dropped
            /\ kind = "draining"
         \/ /\ UNCHANGED queue /\ dropped' = dropped \cup {Head(writing.todo)}
            /\ kind = "queued"
  PROVE  WriterIInv'
<1> DEFINE f == Head(writing.todo)
<1>1. writing'.todo = Tail(writing.todo) /\ writing'.kind = kind
  OBVIOUS
<1>2. /\ Tail(writing.todo) \in Seq(Nat) /\ f \in Todo /\ Todo' = Todo \ {f}
      /\ \A i, j \in DOMAIN writing'.todo :
           /\ writing'.todo[i] = writing'.todo[j] => i = j
           /\ i < j => Ahead(writing'.todo[i], writing'.todo[j])
      /\ \A g \in Todo' : Ahead(f, g)
  BY <1>1, FirstIsTaken
<1>3. WrittenOnce' /\ TornHaveFailed' /\ WrittenInOrder' /\ OnWire' = OnWire
  BY WireStands
<1>4. queue' \subseteq queue \cup {f} /\ (kind = "queued" => queue' = queue)
  OBVIOUS
<1> HIDE DEF f
<1>5. WriterTypes'
  <2>1. writing' \in WriterCall
    BY <1>2 DEF WriterCall
  <2>2. QED
    BY <2>1, <1>2, <1>3, <1>4 DEF WriterIInv, WriterTypes
<1>6. InOnePlace'
  BY <1>2, <1>3, <1>4 DEF WriterIInv, InOnePlace
<1>7. NoneForgotten'
  BY <1>2, <1>3 DEF WriterIInv, NoneForgotten, f
<1>8. QueueIsLeftOver' /\ CallIsSound'
  <2>1. queue \subseteq failed
    BY DEF WriterIInv, QueueIsLeftOver
  <2>2. QED
    BY <2>1, <1>1, <1>4 DEF QueueIsLeftOver, CallIsSound
<1>9. WireIsAhead'
  <2>1. \A g, h : Ahead(g, h) => Ahead(g, h)'
    BY StaysAhead
  <2>2. \A g \in OnWire', h \in queue' \cup Todo' : Ahead(g, h)
    BY <1>2, <1>3, <1>4 DEF WriterIInv, WireIsAhead
  <2>3. \A g \in queue', h \in Todo' : Ahead(g, h)
    BY <1>2, <1>4 DEF WriterIInv, WireIsAhead
  <2>4. \A i, j \in DOMAIN writing'.todo : i < j => Ahead(writing.todo[i], writing.todo[j])'
    BY <1>2, ZenonT(30) DEF Ahead
  <2>5. QED
    BY <1>3, <2>1, <2>2, <2>3, <2>4 DEF WireIsAhead
<1>10. QED
  BY <1>5, <1>6, <1>7, <1>8, <1>9 DEF WriterIInv

\* A frame of the queue is written.
LEMMA PopStep ==
  ASSUME WriterIInv, writing.kind = "draining", NEW f \in queue, queue' = queue \ {f},
         UNCHANGED << frames, failed, dropped >>, written' = Append(written, << f, TRUE >>),
         writing' = [writing EXCEPT !.kind = IF queue' = {} THEN "queued" ELSE "draining"]
  PROVE  WriterIInv'
<1>1. /\ writing'.todo = writing.todo /\ writing'.kind \in {"queued", "draining"}
      /\ writing'.kind = "queued" => queue' = {}
      /\ writing' \in WriterCall
  BY DEF WriterIInv, WriterTypes, WriterCall
<1>2. Todo' = Todo
  BY <1>1 DEF Todo
<1>3. f \in Nat /\ f \notin OnWire
  BY WriterFields DEF WriterIInv, WriterTypes, InOnePlace
<1>4. \A g, h : Ahead(g, h) => Ahead(g, h)'
  BY StaysAhead
<1>5. \A g \in OnWire : Ahead(g, f)'
  BY <1>4 DEF WriterIInv, WireIsAhead
<1>6. /\ WrittenOnce' /\ TornHaveFailed' /\ WrittenInOrder' /\ OnWire' = OnWire \cup {f}
      /\ written' \in Seq(Nat \X BOOLEAN)
      /\ \A g : (\E i \in DOMAIN written : written[i] = << g, TRUE >>) \/ g = f
                  => \E i \in DOMAIN written' : written'[i] = << g, TRUE >>
  BY <1>3, <1>5, FrameIsWritten, ZenonT(30)
<1>7. WriterTypes'
  BY <1>1, <1>2, <1>6 DEF WriterIInv, WriterTypes
<1>8. InOnePlace'
  BY <1>1, <1>2, <1>6 DEF WriterIInv, InOnePlace
<1>9. NoneForgotten'
  BY <1>2, <1>6 DEF WriterIInv, NoneForgotten
<1>10. QueueIsLeftOver' /\ CallIsSound'
  BY <1>1 DEF WriterIInv, QueueIsLeftOver, CallIsSound
<1>11. WireIsAhead'
  <2>1. \A g \in OnWire, h \in queue' \cup Todo' : Ahead(g, h)
    BY <1>2 DEF WriterIInv, WireIsAhead
  <2>2. \A h \in queue' : Ahead(f, h)
    BY DEF WriterIInv, QueueIsLeftOver, Ahead
  <2>3. \A h \in Todo' : Ahead(f, h)
    BY <1>2 DEF WriterIInv, WireIsAhead
  <2>4. \A g \in queue', h \in Todo' : Ahead(g, h)
    BY <1>2 DEF WriterIInv, WireIsAhead
  <2>5. \A i, j \in DOMAIN writing'.todo : i < j => Ahead(writing.todo[i], writing.todo[j])'
    BY <1>1, <1>4 DEF WriterIInv, WireIsAhead, Ahead
  <2>6. QED
    BY <1>4, <1>6, <2>1, <2>2, <2>3, <2>4, <2>5 DEF WireIsAhead
<1>12. QED
  BY <1>7, <1>8, <1>9, <1>10, <1>11 DEF WriterIInv

\* The frames of a new call follow those of the others.
LEMMA FramesAreAdded ==
  ASSUME WriterIInv, NEW kind, NEW priorities \in Seq(Priorities),
         frames' = frames \o [i \in DOMAIN priorities |->
                                [priority |-> priorities[i], call |-> Len(frames) + 1,
                                 sorted |-> kind = "queued"]]
  PROVE  /\ frames' \in Seq(HandedIn)
         /\ Len(frames) \in Nat /\ Len(priorities) \in Nat
         /\ Len(frames') = Len(frames) + Len(priorities)
         /\ \A f \in 1 .. Len(frames) : frames'[f] = frames[f]
         /\ \A i \in 1 .. Len(priorities) :
              /\ frames'[Len(frames) + i].call = Len(frames) + 1
              /\ frames'[Len(frames) + i].sorted <=> kind = "queued"
<1> DEFINE n == Len(frames)
           m == Len(priorities)
           new == [i \in DOMAIN priorities |->
                     [priority |-> priorities[i], call |-> n + 1, sorted |-> kind = "queued"]]
<1>1. n \in Nat /\ m \in Nat /\ DOMAIN priorities = 1 .. m /\ frames \in Seq(HandedIn)
  BY DEF WriterIInv, WriterTypes
<1>2. \A i \in 1 .. m : priorities[i] \in Nat
  <2>1. \A i \in 1 .. m : priorities[i] \in Priorities
    BY <1>1
  <2>2. QED
    BY <2>1, WriterAssumption
<1>3. new \in Seq(HandedIn) /\ Len(new) = m
  <2>1. \A i \in 1 .. m : new[i] \in HandedIn
    BY <1>1, <1>2 DEF HandedIn
  <2>2. new = [i \in 1 .. m |-> new[i]]
    BY <1>1
  <2>3. QED
    BY <1>1, <2>1, <2>2
<1>4. frames' = frames \o new
  OBVIOUS
<1> HIDE DEF new
<1>5. /\ frames' \in Seq(HandedIn) /\ Len(frames') = n + m
      /\ \A f \in 1 .. n : frames'[f] = frames[f]
      /\ \A i \in 1 .. m : frames'[n + i] = new[i]
  BY <1>1, <1>3, <1>4, SMTT(30)
<1>6. \A i \in 1 .. m : frames'[n + i].call = n + 1 /\ (frames'[n + i].sorted <=> kind = "queued")
  <2>1. \A i \in 1 .. m :
          new[i] = [priority |-> priorities[i], call |-> n + 1, sorted |-> kind = "queued"]
    BY <1>1 DEF new
  <2>2. ASSUME NEW i \in 1 .. m
        PROVE  new[i].call = n + 1 /\ (new[i].sorted <=> kind = "queued")
    <3>1. new[i] = [priority |-> priorities[i], call |-> n + 1, sorted |-> kind = "queued"]
      BY <2>1
    <3>2. new[i].call = n + 1
      BY <3>1
    <3>3. new[i].sorted = (kind = "queued")
      BY <3>1
    <3>4. QED
      BY <3>2, <3>3
  <2>3. QED
    BY <1>5, <2>2
<1>7. QED
  BY <1>1, <1>5, <1>6

\* A function from 1 .. m into numbers is a sequence of them.
LEMMA NumbersInOrder ==
  ASSUME NEW m \in Nat, NEW S \in SUBSET Nat, NEW order \in [1 .. m -> S]
  PROVE  order \in Seq(Nat) /\ Len(order) = m /\ DOMAIN order = 1 .. m
<1>1. \A i \in 1 .. m : order[i] \in Nat
  OBVIOUS
<1>2. order = [i \in 1 .. m |-> order[i]]
  OBVIOUS
<1>3. QED
  BY <1>1, <1>2

\* The frames of a new call, in the order in which it will write them.
LEMMA FramesOfCall ==
  ASSUME WriterIInv, NEW kind, NEW priorities \in Seq(Priorities),
         Writing!Call(kind, priorities)
  PROVE  /\ frames' \in Seq(HandedIn)
         /\ Len(frames) \in Nat /\ Len(priorities) \in Nat
         /\ Len(frames') = Len(frames) + Len(priorities)
         /\ \A f \in 1 .. Len(frames) : frames'[f] = frames[f]
         /\ \A f \in Len(frames) + 1 .. Len(frames') : frames'[f].call = Len(frames) + 1
         /\ writing' = [kind |-> kind, todo |-> writing'.todo]
         /\ writing'.todo \in Seq(Nat) /\ Len(writing'.todo) = Len(priorities)
         /\ {writing'.todo[i] : i \in DOMAIN writing'.todo} = Len(frames) + 1 .. Len(frames')
         /\ \A i, j \in DOMAIN writing'.todo :
              /\ writing'.todo[i] = writing'.todo[j] => i = j
              /\ i < j => Ahead(writing.todo[i], writing.todo[j])'
<1> DEFINE n == Len(frames)
           m == Len(priorities)
<1>1. /\ n \in Nat /\ m \in Nat /\ DOMAIN priorities = 1 .. m
      /\ frames' \in Seq(HandedIn) /\ Len(frames') = n + m
      /\ \A f \in 1 .. n : frames'[f] = frames[f]
      /\ \A i \in 1 .. m :
           frames'[n + i].call = n + 1 /\ (frames'[n + i].sorted <=> kind = "queued")
  <2>1. frames' = frames \o [i \in DOMAIN priorities |->
                               [priority |-> priorities[i], call |-> Len(frames) + 1,
                                sorted |-> kind = "queued"]]
    BY DEF Writing!Call
  <2>2. DOMAIN priorities = 1 .. m
    OBVIOUS
  <2>3. QED
    BY <2>1, <2>2, FramesAreAdded
<1> DEFINE batch == [i \in 1 .. m |-> n + i]
<1>2. PICK order \in IF kind = "queued" THEN Writing!ByPriority(batch) ELSE {batch} :
        writing' = [kind |-> kind, todo |-> order]
  BY <1>1 DEF Writing!Call
<1>3. \A f \in n + 1 .. n + m : f - n \in 1 .. m /\ n + (f - n) = f
  BY <1>1
<1>4. \A f \in n + 1 .. n + m : frames'[f].call = n + 1 /\ (frames'[f].sorted <=> kind = "queued")
  BY <1>1, <1>3, ZenonT(30)
<1>5. \A f \in n + 1 .. n + m : frames'[f].priority \in Nat
  <2>1. \A f \in n + 1 .. n + m : f \in 1 .. Len(frames')
    BY <1>1
  <2>2. \A f \in 1 .. Len(frames') : frames'[f] \in HandedIn
    BY <1>1
  <2>3. QED
    BY <2>1, <2>2 DEF HandedIn
<1>6. {batch[i] : i \in 1 .. m} = n + 1 .. n + m
  <2>1. \A i \in 1 .. m : batch[i] \in n + 1 .. n + m
    BY <1>1
  <2>2. \A f \in n + 1 .. n + m : batch[f - n] = f
    BY <1>1, <1>3
  <2>3. ASSUME NEW f \in n + 1 .. n + m PROVE f \in {batch[i] : i \in 1 .. m}
    <3>1. f - n \in 1 .. m /\ batch[f - n] = f
      BY <1>3, <2>2
    <3>2. QED
      BY <3>1
  <2>4. QED
    BY <2>1, <2>3
<1>7. order \in Seq(Nat) /\ Len(order) = m /\ DOMAIN order = 1 .. m
       /\ {order[i] : i \in 1 .. m} = n + 1 .. n + m
       /\ \A i, j \in 1 .. m :
              /\ order[i] = order[j] => i = j
              /\ i < j => Ahead(order[i], order[j])'
  <2>1. CASE kind = "queued"
    <3>1. /\ order \in [1 .. m -> Writing!ToSet(batch)] /\ Writing!ToSet(order) = Writing!ToSet(batch)
          /\ \A i, j \in 1 .. m :
               i < j => \/ frames'[order[i]].priority > frames'[order[j]].priority
                        \/ /\ frames'[order[i]].priority = frames'[order[j]].priority
                           /\ order[i] < order[j]
      BY <1>2, <2>1, <1>1 DEF Writing!ByPriority, Writing!Priority
    <3>2. Writing!ToSet(batch) = n + 1 .. n + m
      BY <1>1, <1>6 DEF Writing!ToSet
    <3>3. order \in Seq(Nat) /\ Len(order) = m /\ DOMAIN order = 1 .. m
      <4>1. order \in [1 .. m -> n + 1 .. n + m]
        BY <3>1, <3>2, ZenonT(30)
      <4>2. n + 1 .. n + m \in SUBSET Nat /\ m \in Nat
        BY <1>1
      <4>3. QED
        BY <4>1, <4>2, NumbersInOrder, ZenonT(30)
    <3>4. {order[i] : i \in 1 .. m} = n + 1 .. n + m
      BY <3>1, <3>2, <3>3 DEF Writing!ToSet
    <3>5. ASSUME NEW i \in 1 .. m, NEW j \in 1 .. m
          PROVE  /\ order[i] = order[j] => i = j
                 /\ i < j => Ahead(order[i], order[j])'
      <4>1. order[i] \in n + 1 .. n + m /\ order[j] \in n + 1 .. n + m
        BY <3>1, <3>2
      <4>2. /\ frames'[order[i]].priority \in Nat /\ frames'[order[j]].priority \in Nat
            /\ order[i] \in Nat /\ order[j] \in Nat
            /\ frames'[order[i]].sorted
        BY <4>1, <1>1, <1>4, <1>5, <2>1, SMTT(30)
      <4>3. order[i] = order[j] => ~(i < j) /\ ~(j < i)
        BY <3>1, <4>2
      <4>4. i < j => frames'[order[i]].priority >= frames'[order[j]].priority
        BY <3>1, <4>2
      <4>5. QED
        BY <4>2, <4>3, <4>4 DEF Ahead
    <3>6. QED
      BY <3>3, <3>4, <3>5
  <2>2. CASE kind # "queued"
    <3>1. order = [i \in 1 .. m |-> n + i]
      BY <1>2, <2>2, <1>1
    <3>2. order \in Seq(Nat) /\ Len(order) = m /\ DOMAIN order = 1 .. m
      BY <1>1, <3>1
    <3>3. {order[i] : i \in 1 .. m} = n + 1 .. n + m
      BY <1>1, <1>6, <3>1
    <3>4. ASSUME NEW i \in 1 .. m, NEW j \in 1 .. m
          PROVE  /\ order[i] = order[j] => i = j
                 /\ i < j => Ahead(order[i], order[j])'
      <4>1. order[i] = n + i /\ order[j] = n + j
        BY <3>1
      <4>2. ~frames'[order[i]].sorted
        BY <2>2, <4>1, <1>1
      <4>3. (order[i] = order[j] => i = j) /\ (i < j => order[i] < order[j])
        BY <4>1, <1>1
      <4>4. QED
        BY <4>2, <4>3 DEF Ahead
    <3>5. QED
      BY <3>2, <3>3, <3>4
  <2>3. QED
    BY <2>1, <2>2
<1>8. writing'.todo = order
  BY <1>2
<1>9. /\ writing' = [kind |-> kind, todo |-> writing'.todo]
       /\ writing'.todo \in Seq(Nat) /\ Len(writing'.todo) = m
       /\ {writing'.todo[i] : i \in DOMAIN writing'.todo} = n + 1 .. n + m
  <2>1. {order[i] : i \in DOMAIN order} = n + 1 .. n + m
    BY <1>7
  <2>2. QED
    BY <2>1, <1>2, <1>7, <1>8
<1>10. ASSUME NEW i \in DOMAIN writing'.todo, NEW j \in DOMAIN writing'.todo
       PROVE  /\ writing'.todo[i] = writing'.todo[j] => i = j
              /\ i < j => Ahead(writing.todo[i], writing.todo[j])'
  <2>1. i \in 1 .. m /\ j \in 1 .. m
    BY <1>7, <1>8
  <2>2. QED
    BY <2>1, <1>7, <1>8 DEF Ahead
<1>11. QED
  BY <1>1, <1>4, <1>9, <1>10

\* A call begins with new frames, when no other is under way.
LEMMA CallStep ==
  ASSUME WriterIInv, NEW kind \in {"single", "batch", "queued"},
         NEW priorities \in Seq(Priorities), kind = "single" => Len(priorities) = 1,
         Writing!Call(kind, priorities)
  PROVE  WriterIInv'
<1> DEFINE n == Len(frames)
           order == writing'.todo
<1>1. writing' = [kind |-> kind, todo |-> order]
  BY FramesOfCall
<1>2. /\ writing = [kind |-> "none", todo |-> << >>]
      /\ UNCHANGED << queue, written, failed, dropped >>
  BY DEF Writing!Call, Writing!NoCall
<1>3. /\ frames' \in Seq(HandedIn) /\ n \in Nat /\ Len(priorities) \in Nat
      /\ Len(frames') = n + Len(priorities)
      /\ \A f \in 1 .. n : frames'[f] = frames[f]
      /\ \A f \in n + 1 .. Len(frames') : frames'[f].call = n + 1
      /\ order \in Seq(Nat) /\ Len(order) = Len(priorities)
      /\ {order[i] : i \in DOMAIN order} = n + 1 .. Len(frames')
      /\ \A i, j \in DOMAIN order :
           /\ order[i] = order[j] => i = j
           /\ i < j => Ahead(writing.todo[i], writing.todo[j])'
  BY FramesOfCall
<1>4. /\ Todo = {} /\ Todo' = n + 1 .. Len(frames') /\ OnWire' = OnWire
      /\ writing'.todo = order /\ writing'.kind = kind
  BY <1>1, <1>2, <1>3 DEF Todo, OnWire
<1>5. /\ DOMAIN frames = 1 .. n /\ DOMAIN frames' = 1 .. Len(frames')
      /\ 1 .. n \subseteq 1 .. Len(frames')
      /\ queue \cup OnWire \subseteq 1 .. n
      /\ \A f \in 1 .. n : frames[f].call \in Nat /\ frames[f].call <= n
  BY <1>3, WriterFields DEF WriterIInv, WriterTypes
<1>6. \A f \in 1 .. Len(frames') : f \in 1 .. n \/ f \in n + 1 .. Len(frames')
  BY <1>3
<1>7. \A f \in n + 1 .. Len(frames') : f \notin 1 .. n /\ f \in 1 .. Len(frames')
  BY <1>3
<1> HIDE DEF n
<1>8. WriterTypes'
  <2>1. writing' \in WriterCall
    BY <1>1, <1>3 DEF WriterCall
  <2>2. \A f \in DOMAIN frames' : frames'[f].call <= Len(frames')
    <3> SUFFICES ASSUME NEW f \in 1 .. Len(frames') PROVE frames'[f].call <= Len(frames')
      BY <1>1
    <3>1. CASE f \in 1 .. n
      <4>1. frames'[f].call \in Nat /\ frames'[f].call <= n
        BY <3>1, <1>3, <1>5
      <4>2. QED
        BY <4>1, <1>3
    <3>2. CASE f \in n + 1 .. Len(frames')
      <4>1. frames'[f].call = n + 1
        BY <3>2, <1>3
      <4>2. QED
        BY <3>2, <4>1, <1>3
    <3>3. QED
      BY <3>1, <3>2, <1>6
  <2>3. queue' \cup Todo' \cup OnWire' \subseteq DOMAIN frames'
    BY <1>2, <1>4, <1>5, <1>7
  <2>4. QED
    BY <2>1, <2>2, <2>3, <1>2, <1>3 DEF WriterIInv, WriterTypes
<1>9. InOnePlace'
  <2>1. Todo' \cap queue' = {} /\ Todo' \cap OnWire' = {}
    BY <1>2, <1>4, <1>5, <1>7
  <2>2. QED
    BY <2>1, <1>2, <1>3, <1>4 DEF WriterIInv, InOnePlace, WrittenOnce
<1>10. NoneForgotten'
  <2>1. \A f \in DOMAIN frames' :
       \/ f \in failed' \cup dropped' \cup Todo' \cup queue'
       \/ \E i \in DOMAIN written' : written'[i] = << f, TRUE >>
    BY <1>2, <1>4, <1>5, <1>6 DEF WriterIInv, NoneForgotten
  <2>2. QED
    BY <2>1, <1>2 DEF WriterIInv, NoneForgotten, TornHaveFailed
<1>11. QueueIsLeftOver' /\ CallIsSound'
  <2>1. queue \subseteq failed
    BY <1>2 DEF WriterIInv, QueueIsLeftOver
  <2>2. QED
    BY <2>1, <1>2, <1>3, <1>4 DEF QueueIsLeftOver, CallIsSound
<1>12. WireIsAhead'
  <2>1. ASSUME NEW f \in 1 .. n, NEW g \in 1 .. n, Ahead(f, g) PROVE Ahead(f, g)'
    BY <2>1, <1>2, <1>3 DEF Ahead
  <2>2. ASSUME NEW f \in 1 .. n, NEW g \in n + 1 .. Len(frames') PROVE Ahead(f, g)'
    <3>1. frames'[f].call \in Nat /\ frames'[f].call <= n /\ frames'[g].call = n + 1
      BY <1>3, <1>5
    <3>2. QED
      BY <3>1, <1>3 DEF Ahead
  <2>3. WrittenInOrder'
    <3> SUFFICES ASSUME NEW i \in DOMAIN written, NEW j \in DOMAIN written, i < j
                 PROVE  Ahead(written[i][1], written[j][1])'
      BY <1>2 DEF WrittenInOrder
    <3>1. Ahead(written[i][1], written[j][1])
      BY DEF WriterIInv, WireIsAhead, WrittenInOrder
    <3>2. written[i][1] \in 1 .. n /\ written[j][1] \in 1 .. n
      BY <1>5, WriterFields DEF WriterIInv
    <3>3. QED
      BY <1>2, <1>3, <3>1, <3>2 DEF Ahead
  <2>4. \A f \in OnWire', g \in queue' : Ahead(f, g)'
    BY <1>2, <1>4, <1>5, <2>1 DEF WriterIInv, WireIsAhead
  <2>5. \A f \in OnWire' \cup queue', g \in Todo' : Ahead(f, g)'
    BY <1>2, <1>4, <1>5, <2>2
  <2>6. \A i, j \in DOMAIN writing'.todo : i < j => Ahead(writing.todo[i], writing.todo[j])'
    BY <1>3
  <2>7. QED
    BY <2>3, <2>4, <2>5, <2>6 DEF WireIsAhead
<1>13. QED
  BY <1>8, <1>9, <1>10, <1>11, <1>12 DEF WriterIInv

\* A frame goes past the queue.
LEMMA FrameStep ==
  ASSUME WriterIInv, Writing!WriteFrame
  PROVE  WriterIInv'
<1>1. /\ writing.kind = "single" /\ UNCHANGED << frames, queue, dropped >>
      /\ writing' = Writing!NoCall
  BY DEF Writing!WriteFrame, Writing!Calling
<1>2. PICK f : f = Head(writing.todo)
  OBVIOUS
<1>3. f = writing.todo[1] /\ DOMAIN writing.todo = {1}
  <2>1. WriterTypes /\ Len(writing.todo) = 1
    BY <1>1 DEF WriterIInv, CallIsSound
  <2>2. writing.todo \in Seq(Nat)
    BY <2>1, WriterFields
  <2>3. QED
    BY <1>2, <2>1, <2>2
<1>4. Todo = {f}
  BY <1>3 DEF Todo
<1>5. f \in Nat /\ f \notin OnWire /\ queue \subseteq failed
  BY <1>1, <1>4, WriterFields DEF WriterIInv, WriterTypes, InOnePlace, QueueIsLeftOver
<1>6. CASE Writing!Written(f) /\ UNCHANGED failed
  <2>1. written' = Append(written, << f, TRUE >>)
    BY <1>6 DEF Writing!Written
  <2>2. \A g, h : Ahead(g, h) => Ahead(g, h)'
    BY <1>1, <1>6, StaysAhead
  <2>3. \A g \in OnWire : Ahead(g, f)'
    BY <1>4, <2>2 DEF WriterIInv, WireIsAhead
  <2>4. /\ WrittenOnce' /\ TornHaveFailed' /\ WrittenInOrder' /\ OnWire' = OnWire \cup {f}
        /\ written' \in Seq(Nat \X BOOLEAN)
        /\ \A g : (\E i \in DOMAIN written : written[i] = << g, TRUE >>) \/ g = f
                    => \E i \in DOMAIN written' : written'[i] = << g, TRUE >>
    BY <1>1, <1>5, <1>6, <2>1, <2>3, FrameIsWritten, ZenonT(30)
  <2>5. QED
    BY <1>1, <1>4, <1>5, <1>6, <2>4, CallIsOver
<1>7. CASE Writing!NotWritten(f) /\ failed' = failed \cup {f}
  <2>1. failed' = failed \cup Todo \cup queue
    BY <1>4, <1>5, <1>7
  <2>2. CASE UNCHANGED written
    BY <1>1, <2>1, <2>2, CallFailsQuietly
  <2>3. CASE written' = Append(written, << f, FALSE >>)
    BY <1>1, <1>4, <2>1, <2>3, CallFailsTorn
  <2>4. QED
    BY <1>7, <2>2, <2>3 DEF Writing!NotWritten
<1>8. QED
  BY <1>2, <1>6, <1>7 DEF Writing!WriteFrame

\* The elements of a concatenation.
LEMMA Concatenated ==
  ASSUME NEW S, NEW s \in Seq(S), NEW t \in Seq(S)
  PROVE  /\ s \o t \in Seq(S) /\ Len(s) \in Nat /\ Len(s \o t) = Len(s) + Len(t)
         /\ \A i \in 1 .. Len(s) : (s \o t)[i] = s[i]
         /\ \A i \in 1 .. Len(t) : (s \o t)[Len(s) + i] = t[i]
OBVIOUS

\* Three sequences together.
LEMMA ConcatenatedThree ==
  ASSUME NEW S, NEW s \in Seq(S), NEW t \in Seq(S), NEW u \in Seq(S)
  PROVE  /\ s \o t \o u \in Seq(S) /\ Len(s) \in Nat /\ Len(t) \in Nat
         /\ Len(s \o t \o u) = Len(s) + Len(t) + Len(u)
         /\ \A i \in 1 .. Len(s) : (s \o t \o u)[i] = s[i]
         /\ \A i \in 1 .. Len(t) : (s \o t \o u)[Len(s) + i] = t[i]
         /\ \A i \in 1 .. Len(u) : (s \o t \o u)[Len(s) + Len(t) + i] = u[i]
<1> DEFINE st == s \o t
<1>1. /\ st \in Seq(S) /\ Len(s) \in Nat /\ Len(t) \in Nat /\ Len(st) = Len(s) + Len(t)
      /\ \A i \in 1 .. Len(s) : st[i] = s[i] /\ i \in 1 .. Len(st)
      /\ \A i \in 1 .. Len(t) : st[Len(s) + i] = t[i] /\ Len(s) + i \in 1 .. Len(st)
  OBVIOUS
<1>2. st \in Seq(S)
  BY <1>1
<1> HIDE DEF st
<1>3. /\ st \o u \in Seq(S) /\ Len(st \o u) = Len(st) + Len(u)
      /\ \A i \in 1 .. Len(st) : (st \o u)[i] = st[i]
      /\ \A i \in 1 .. Len(u) : (st \o u)[Len(st) + i] = u[i]
  BY <1>2, Concatenated
<1>4. QED
  BY <1>1, <1>3 DEF st

\* The first n frames of a batch, written whole, and what there may be of the next.
InWhole(todo, n)      == [i \in 1 .. n |-> << todo[i], TRUE >>]
InPart(todo, n, torn) == IF torn THEN << << todo[n + 1], FALSE >> >> ELSE << >>

\* A frame and whether it was written whole
LEMMA FrameAndWhether == \A f \in Nat, whole \in BOOLEAN : << f, whole >> \in Nat \X BOOLEAN
OBVIOUS

\* Frames written whole are the first of those to be written, in order.
LEMMA FramesInWhole ==
  ASSUME NEW todo \in Seq(Nat), NEW n \in 0 .. Len(todo)
  PROVE  /\ InWhole(todo, n) \in Seq(Nat \X BOOLEAN) /\ Len(InWhole(todo, n)) = n
         /\ \A i \in 1 .. n : InWhole(todo, n)[i] = << todo[i], TRUE >>
<1>1. \A i \in 1 .. n : InWhole(todo, n)[i] = << todo[i], TRUE >>
  BY DEF InWhole
<1>2. n \in Nat /\ \A i \in 1 .. n : todo[i] \in Nat
  OBVIOUS
<1>3. ASSUME NEW i \in 1 .. n PROVE InWhole(todo, n)[i] \in Nat \X BOOLEAN
  BY <1>1, <1>2, FrameAndWhether, Zenon
<1>4. InWhole(todo, n) \in [1 .. n -> Nat \X BOOLEAN]
  BY <1>3 DEF InWhole
<1>5. InWhole(todo, n) \in Seq(Nat \X BOOLEAN) /\ Len(InWhole(todo, n)) = n
  BY <1>2, <1>4
<1>6. QED
  BY <1>1, <1>5

\* The one after them, if any, is the one written in part.
LEMMA FrameInPart ==
  ASSUME NEW todo \in Seq(Nat), NEW n \in 0 .. Len(todo),
         NEW torn \in BOOLEAN, torn => n < Len(todo)
  PROVE  /\ InPart(todo, n, torn) \in Seq(Nat \X BOOLEAN)
         /\ Len(InPart(todo, n, torn)) = IF torn THEN 1 ELSE 0
         /\ torn => InPart(todo, n, torn)[1] = << todo[n + 1], FALSE >>
<1>1. CASE torn
  <2> DEFINE last == << todo[n + 1], FALSE >>
  <2>1. last \in Nat \X BOOLEAN
    <3>1. todo[n + 1] \in Nat
      BY <1>1
    <3>2. QED
      BY <3>1, FrameAndWhether, Zenon
  <2>2. InPart(todo, n, torn) = << last >>
    BY <1>1 DEF InPart
  <2> HIDE DEF last
  <2>3. /\ InPart(todo, n, torn) \in Seq(Nat \X BOOLEAN)
        /\ Len(InPart(todo, n, torn)) = 1 /\ InPart(todo, n, torn)[1] = last
    BY <2>1, <2>2
  <2>4. QED
    BY <1>1, <2>3 DEF last
<1>2. CASE ~torn
  <2>1. InPart(todo, n, torn) = << >>
    BY <1>2 DEF InPart
  <2>2. InPart(todo, n, torn) \in Seq(Nat \X BOOLEAN) /\ Len(InPart(todo, n, torn)) = 0
    BY <2>1
  <2>3. QED
    BY <1>2, <2>2
<1>3. QED
  BY <1>1, <1>2

\* A batch writes some frames whole, and then perhaps part of one.
LEMMA BatchOnWire ==
  ASSUME NEW before \in Seq(Nat \X BOOLEAN), NEW todo \in Seq(Nat), NEW n \in 0 .. Len(todo),
         NEW torn \in BOOLEAN, torn => n < Len(todo)
  PROVE  LET after == before \o InWhole(todo, n) \o InPart(todo, n, torn)
         IN  /\ after \in Seq(Nat \X BOOLEAN)
             /\ Len(after) = Len(before) + IF torn THEN n + 1 ELSE n
             /\ \A i \in 1 .. Len(before) : after[i] = before[i]
             /\ \A i \in 1 .. n : after[Len(before) + i] = << todo[i], TRUE >>
             /\ torn => after[Len(before) + (n + 1)] = << todo[n + 1], FALSE >>
<1> DEFINE whole == InWhole(todo, n)
           rest  == InPart(todo, n, torn)
           after == before \o whole \o rest
<1>1. n \in Nat
  OBVIOUS
<1>2. /\ whole \in Seq(Nat \X BOOLEAN) /\ Len(whole) = n
      /\ \A i \in 1 .. n : whole[i] = << todo[i], TRUE >>
  BY FramesInWhole
<1>3. /\ rest \in Seq(Nat \X BOOLEAN) /\ Len(rest) = IF torn THEN 1 ELSE 0
      /\ torn => rest[1] = << todo[n + 1], FALSE >>
  BY FrameInPart
<1>4. /\ after \in Seq(Nat \X BOOLEAN) /\ Len(before) \in Nat
      /\ Len(after) = Len(before) + Len(whole) + Len(rest)
      /\ \A i \in 1 .. Len(before) : after[i] = before[i]
      /\ \A i \in 1 .. Len(whole) : after[Len(before) + i] = whole[i]
      /\ \A i \in 1 .. Len(rest) : after[Len(before) + Len(whole) + i] = rest[i]
  <2>1. whole \in Seq(Nat \X BOOLEAN) /\ rest \in Seq(Nat \X BOOLEAN)
    BY <1>2, <1>3
  <2>2. QED
    BY <2>1, ConcatenatedThree
<1> HIDE DEF after
<1>5. \A i \in 1 .. n : after[Len(before) + i] = << todo[i], TRUE >>
  BY <1>2, <1>4
<1>6. ASSUME torn
      PROVE  Len(after) = Len(before) + (n + 1) /\ after[Len(before) + (n + 1)] = << todo[n + 1], FALSE >>
  <2>1. Len(rest) = 1 /\ Len(before) + n + 1 = Len(before) + (n + 1)
    BY <1>1, <1>3, <1>4, <1>6
  <2>2. after[Len(before) + n + 1] = rest[1]
    BY <1>2, <1>4, <2>1
  <2>3. QED
    BY <1>2, <1>3, <1>4, <1>6, <2>1, <2>2
<1>7. ASSUME ~torn PROVE Len(after) = Len(before) + n
  <2>1. Len(rest) = 0 /\ Len(before) + n + 0 = Len(before) + n
    BY <1>1, <1>3, <1>4, <1>7
  <2>2. QED
    BY <1>2, <1>4, <2>1
<1>8. /\ Len(after) = Len(before) + IF torn THEN n + 1 ELSE n
      /\ torn => after[Len(before) + (n + 1)] = << todo[n + 1], FALSE >>
  BY <1>6, <1>7
<1>9. QED
  BY <1>4, <1>5, <1>8, Zenon DEF after

\* The frames of a batch go past the queue: all of them, or some and then an error.
LEMMA BatchStep ==
  ASSUME WriterIInv, Writing!WriteFrames
  PROVE  WriterIInv'
<1>1. /\ writing.kind = "batch" /\ UNCHANGED << frames, queue, dropped >>
      /\ writing' = Writing!NoCall
  BY DEF Writing!WriteFrames, Writing!Calling
<1>2. PICK todo : todo = writing.todo
  OBVIOUS
<1> DEFINE m == Len(todo)
<1>3. /\ todo \in Seq(Nat) /\ m \in Nat /\ DOMAIN todo = 1 .. m
      /\ written \in Seq(Nat \X BOOLEAN) /\ queue \subseteq failed
  BY <1>1, <1>2, WriterFields DEF WriterIInv, WriterTypes, QueueIsLeftOver
<1>4. Todo = {todo[i] : i \in 1 .. m} /\ Writing!ToSet(todo) = Todo
  BY <1>2, <1>3 DEF Todo, Writing!ToSet
<1>5. PICK n \in 0 .. m, torn \in BOOLEAN :
        /\ torn => n < m /\ failed' = failed \cup Todo
        /\ written' = written \o InWhole(todo, n) \o InPart(todo, n, torn)
        /\ (n = m /\ UNCHANGED failed) \/ failed' = failed \cup Todo
  <2>1. CASE /\ written' = written \o [i \in DOMAIN todo |-> << todo[i], TRUE >>]
             /\ UNCHANGED failed
    <3>1. m \in 0 .. m /\ m \in 0 .. Len(todo)
      BY <1>3
    <3>2. InWhole(todo, m) \in Seq(Nat \X BOOLEAN)
      BY <1>3, <3>1, FramesInWhole, Zenon
    <3>3. written' = written \o InWhole(todo, m)
      BY <2>1, <1>3 DEF InWhole
    <3>4. written' = written \o InWhole(todo, m) \o << >>
      BY <1>3, <3>2, <3>3
    <3>5. << >> = InPart(todo, m, FALSE)
      BY DEF InPart
    <3>6. QED
      BY <2>1, <3>1, <3>4, <3>5
  <2>2. CASE /\ \E n \in 0 .. m - 1, torn \in BOOLEAN :
                  written' = written \o [i \in 1 .. n |-> << todo[i], TRUE >>]
                               \o IF torn THEN << << todo[n + 1], FALSE >> >> ELSE << >>
             /\ failed' = failed \cup Todo
    <3>1. \A n \in 0 .. m - 1 : n \in 0 .. m /\ n < m
      BY <1>3
    <3>2. QED
      BY <2>2, <3>1 DEF InWhole, InPart
  <2>3. QED
    BY <1>2, <1>4, <2>1, <2>2 DEF Writing!WriteFrames
<1> DEFINE k == IF torn THEN n + 1 ELSE n
<1>6. /\ n \in Nat /\ k \in Nat /\ \A i \in 1 .. k : i \in 1 .. m
      /\ \A i \in 1 .. k : i \in 1 .. n \/ (torn /\ i = n + 1 /\ failed' = failed \cup Todo)
  <2>1. CASE torn
    <3>1. k = n + 1
      BY <2>1
    <3>2. n \in 0 .. m /\ n < m /\ failed' = failed \cup Todo
      BY <1>5, <2>1
    <3> HIDE DEF k
    <3>3. QED
      BY <1>3, <2>1, <3>1, <3>2
  <2>2. CASE ~torn
    <3>1. k = n
      BY <2>2
    <3> HIDE DEF k
    <3>2. QED
      BY <1>3, <3>1
  <2>3. QED
    BY <2>1, <2>2
<1>7. /\ written' \in Seq(Nat \X BOOLEAN) /\ Len(written') = Len(written) + k
      /\ \A i \in 1 .. Len(written) : written'[i] = written[i]
      /\ \A i \in 1 .. n : written'[Len(written) + i] = << todo[i], TRUE >>
      /\ torn => written'[Len(written) + (n + 1)] = << todo[n + 1], FALSE >>
  <2>1. written \in Seq(Nat \X BOOLEAN) /\ todo \in Seq(Nat)
    BY <1>3
  <2>2. n \in 0 .. Len(todo) /\ (torn => n < Len(todo))
    BY <1>5
  <2> DEFINE after == written \o InWhole(todo, n) \o InPart(todo, n, torn)
  <2>3. /\ after \in Seq(Nat \X BOOLEAN) /\ Len(after) = Len(written) + k
        /\ \A i \in 1 .. Len(written) : after[i] = written[i]
        /\ \A i \in 1 .. n : after[Len(written) + i] = << todo[i], TRUE >>
        /\ torn => after[Len(written) + (n + 1)] = << todo[n + 1], FALSE >>
    BY <2>1, <2>2, BatchOnWire, ZenonT(60)
  <2>4. written' = after
    BY <1>5
  <2> HIDE DEF after, k
  <2>5. QED
    BY <2>3, <2>4
<1> DEFINE ext == [i \in 1 .. k |-> todo[i]]
<1> HIDE DEF m
<1>8. \A i \in 1 .. m : todo[i] \in Nat /\ todo[i] \in Todo
  BY <1>3, <1>4
<1>9. ext \in Seq(Nat) /\ Len(ext) = k
  BY <1>6, <1>8
<1>10. \A i \in 1 .. k : ext[i] = todo[i]
  OBVIOUS
<1> HIDE DEF k, ext
<1>11. failed \subseteq failed' /\ \A g, h : Ahead(g, h) => Ahead(g, h)'
  BY <1>1, <1>5, StaysAhead
<1>12. ASSUME NEW i \in 1 .. k
       PROVE  /\ written'[Len(written) + i][1] = ext[i]
              /\ ~written'[Len(written) + i][2] => ext[i] \in failed'
              /\ ext[i] \notin OnWire
              /\ \A g \in OnWire : Ahead(g, ext[i])'
  <2>1. ext[i] \in Todo
    BY <1>6, <1>8, <1>10
  <2>2. /\ written'[Len(written) + i][1] = ext[i]
        /\ ~written'[Len(written) + i][2] => ext[i] \in failed'
    <3>1. CASE i \in 1 .. n
      <4>1. written'[Len(written) + i] = << todo[i], TRUE >>
        BY <3>1, <1>7
      <4>2. written'[Len(written) + i][1] = todo[i] /\ written'[Len(written) + i][2]
        BY <4>1
      <4>3. QED
        BY <4>2, <1>10
    <3>2. CASE torn /\ i = n + 1 /\ failed' = failed \cup Todo
      <4>1. written'[Len(written) + i] = << todo[i], FALSE >>
        BY <3>2, <1>7
      <4>2. ext[i] \in failed'
        BY <3>2, <2>1
      <4>3. written'[Len(written) + i][1] = todo[i]
        BY <4>1
      <4>4. QED
        BY <4>2, <4>3, <1>10
    <3>3. QED
      BY <3>1, <3>2, <1>6
  <2>3. \A g \in OnWire : Ahead(g, ext[i])
    BY <2>1 DEF WriterIInv, WireIsAhead
  <2>4. \A g \in OnWire : Ahead(g, ext[i])'
    BY <2>3, <1>11
  <2>5. QED
    BY <2>1, <2>2, <2>4 DEF WriterIInv, InOnePlace
<1>13. ASSUME NEW i \in 1 .. k, NEW j \in 1 .. k
       PROVE  (ext[i] = ext[j] => i = j) /\ (i < j => Ahead(ext[i], ext[j])')
  <2>1. i \in DOMAIN writing.todo /\ j \in DOMAIN writing.todo
    BY <1>2, <1>3, <1>6 DEF m
  <2>2. /\ writing.todo[i] = writing.todo[j] => i = j
        /\ i < j => Ahead(writing.todo[i], writing.todo[j])
    BY <2>1 DEF WriterIInv, InOnePlace, WireIsAhead
  <2>3. /\ ext[i] = ext[j] => i = j
        /\ i < j => Ahead(ext[i], ext[j])
    BY <2>2, <1>2, <1>10
  <2>4. QED
    BY <2>3, <1>11
<1>14. /\ WrittenOnce' /\ TornHaveFailed' /\ WrittenInOrder'
       /\ OnWire' = OnWire \cup {ext[i] : i \in 1 .. k}
       /\ \A f : (\E i \in DOMAIN written : written[i] = << f, TRUE >>)
                   => \E i \in DOMAIN written' : written'[i] = << f, TRUE >>
  BY <1>1, <1>7, <1>9, <1>11, <1>12, <1>13, WireExtends
<1>15. {ext[i] : i \in 1 .. k} \subseteq Todo
  BY <1>6, <1>8, <1>10
<1>16. ASSUME NEW f \in Todo \cup queue
       PROVE  f \in failed' \/ \E i \in DOMAIN written' : written'[i] = << f, TRUE >>
  <2>1. CASE failed' = failed \cup Todo \/ f \in queue
    BY <2>1, <1>3, <1>11
  <2>2. CASE n = m /\ f \in Todo
    <3>1. PICK i \in 1 .. n : f = todo[i]
      BY <2>2, <1>4 DEF m
    <3>2. written'[Len(written) + i] = << f, TRUE >>
      BY <3>1, <1>7
    <3>3. Len(written) + i \in DOMAIN written'
      BY <1>3, <1>6, <1>7, SMTT(30) DEF k
    <3>4. QED
      BY <3>2, <3>3
  <2>3. QED
    BY <2>1, <2>2, <1>5
<1>17. queue' \subseteq queue \cap failed'
  BY <1>1, <1>3, <1>11
<1>18. QED
  BY <1>1, <1>7, <1>11, <1>14, <1>15, <1>16, <1>17, CallIsOver

\* Nothing happens to the frames.
LEMMA WriterStands ==
  ASSUME WriterIInv, UNCHANGED << frames, writing, queue, written, failed, dropped >>
  PROVE  WriterIInv'
<1>1. Todo' = Todo /\ OnWire' = OnWire
  BY DEF Todo, OnWire
<1>2. WriterTypes' /\ QueueIsLeftOver' /\ CallIsSound'
  BY <1>1 DEF WriterIInv, WriterTypes, QueueIsLeftOver, CallIsSound, Writing!NoCall
<1>3. InOnePlace' /\ NoneForgotten'
  BY <1>1 DEF WriterIInv, InOnePlace, NoneForgotten, WrittenOnce, TornHaveFailed
<1>4. WireIsAhead'
  BY <1>1, Zenon DEF WriterIInv, WireIsAhead, WrittenInOrder, Ahead
<1>5. QED
  BY <1>2, <1>3, <1>4 DEF WriterIInv

\* Every step of a writer keeps its frames accounted for.
LEMMA WriterStep == WriterIInv /\ Writing!Next => WriterIInv'
<1> SUFFICES ASSUME WriterIInv, Writing!Next PROVE WriterIInv'
  OBVIOUS
<1>1. Writing!ToSet(writing.todo) = Todo
  BY DEF Writing!ToSet, Todo
<1>2. ASSUME Writing!EndWithError
      PROVE  failed' = failed \cup Todo \cup queue /\ writing' = Writing!NoCall
  BY <1>1, <1>2 DEF Writing!EndWithError
<1>3. ASSUME NEW p \in Priorities, Writing!Call("single", << p >>) \/ Writing!Call("queued", << p >>)
      PROVE  WriterIInv'
  <2>1. << p >> \in Seq(Priorities) /\ Len(<< p >>) = 1
    OBVIOUS
  <2>2. QED
    BY <1>3, <2>1, CallStep
<1>4. ASSUME NEW p \in Priorities, NEW q \in Priorities,
             Writing!Call("batch", << p, q >>) \/ Writing!Call("queued", << p, q >>)
      PROVE  WriterIInv'
  <2>1. << p, q >> \in Seq(Priorities)
    OBVIOUS
  <2>2. QED
    BY <1>4, <2>1, CallStep
<1>5. CASE Writing!Enqueue
  <2> DEFINE f == Head(writing.todo)
  <2>1. writing.kind = "queued" /\ writing.todo # << >> /\ UNCHANGED << frames, written >>
    BY <1>5 DEF Writing!Enqueue, Writing!Calling
  <2>2. CASE Writing!EndWithError /\ UNCHANGED << queue, dropped >>
    BY <2>1, <2>2, <1>2, CallFailsQuietly
  <2>3. CASE /\ dropped' = dropped \cup {f} /\ UNCHANGED << queue, failed >>
             /\ writing' = [writing EXCEPT !.todo = Tail(@)]
    <3>1. writing' = [kind |-> "queued", todo |-> Tail(writing.todo)]
      BY <2>1, <2>3 DEF WriterIInv, WriterTypes, WriterCall
    <3>2. QED
      BY <2>1, <2>3, <3>1, EnqueueStep
  <2>4. CASE /\ queue' = queue \cup {f} /\ UNCHANGED << failed, dropped >>
             /\ writing' = [kind |-> "draining", todo |-> Tail(writing.todo)]
    BY <2>1, <2>4, EnqueueStep
  <2>5. QED
    BY <1>5, <2>2, <2>3, <2>4 DEF Writing!Enqueue
<1>6. CASE Writing!Process
  <2>1. PICK f \in queue :
          /\ queue' = queue \ {f}
          /\ \/ /\ Writing!Written(f) /\ UNCHANGED failed
                /\ writing' = [writing EXCEPT !.kind = IF queue' = {} THEN "queued" ELSE "draining"]
             \/ Writing!NotWritten(f) /\ Writing!EndWithError
    BY <1>6 DEF Writing!Process
  <2>2. writing.kind = "draining" /\ UNCHANGED << frames, dropped >>
    BY <1>6 DEF Writing!Process, Writing!Calling
  <2>3. CASE /\ Writing!Written(f) /\ UNCHANGED failed
             /\ writing' = [writing EXCEPT !.kind = IF queue' = {} THEN "queued" ELSE "draining"]
    BY <2>1, <2>2, <2>3, PopStep DEF Writing!Written
  <2>4. CASE Writing!NotWritten(f) /\ Writing!EndWithError
    <3>1. CASE UNCHANGED written
      BY <2>1, <2>2, <2>4, <3>1, <1>2, CallFailsQuietly
    <3>2. CASE written' = Append(written, << f, FALSE >>)
      BY <2>1, <2>2, <2>4, <3>2, <1>2, CallFailsTorn
    <3>3. QED
      BY <2>4, <3>1, <3>2 DEF Writing!NotWritten
  <2>5. QED
    BY <2>1, <2>3, <2>4
<1>7. CASE Writing!Answer
  <2>1. /\ writing.kind = "queued" /\ writing.todo = << >> /\ writing' = Writing!NoCall
        /\ UNCHANGED << frames, dropped, written, failed, queue >>
    BY <1>7 DEF Writing!Answer, Writing!Calling
  <2>2. Todo = {} /\ queue \subseteq failed
    BY <2>1 DEF Todo, WriterIInv, QueueIsLeftOver
  <2>3. WrittenOnce' /\ TornHaveFailed' /\ WrittenInOrder' /\ OnWire' = OnWire
    BY <2>1, WireStands
  <2>4. written' \in Seq(Nat \X BOOLEAN)
    BY <2>1 DEF WriterIInv, WriterTypes
  <2>5. QED
    BY <2>1, <2>2, <2>3, <2>4, CallIsOver
<1>8. CASE Writing!Abandon
  <2>1. UNCHANGED << frames, dropped >>
    BY <1>8 DEF Writing!Abandon
  <2>2. CASE UNCHANGED << queue, written >> /\ Writing!EndWithError
    BY <2>1, <2>2, <1>2, CallFailsQuietly
  <2>3. ASSUME NEW f \in queue, queue' = queue \ {f}, Writing!EndWithError,
               written' \in {written, Append(written, << f, FALSE >>)}
        PROVE  WriterIInv'
    <3>1. CASE UNCHANGED written
      BY <2>1, <2>3, <3>1, <1>2, CallFailsQuietly
    <3>2. CASE written' = Append(written, << f, FALSE >>)
      BY <2>1, <2>3, <3>2, <1>2, CallFailsTorn
    <3>3. QED
      BY <2>3, <3>1, <3>2
  <2>4. QED
    BY <1>8, <2>2, <2>3 DEF Writing!Abandon
<1>9. CASE Writing!Close \/ \E size \in BufferSizes : Writing!SetBackpressureThreshold(size \div 2)
  <2>1. UNCHANGED << frames, writing, queue, written, failed, dropped >>
    BY <1>9 DEF Writing!Close, Writing!SetBackpressureThreshold
  <2>2. QED
    BY <2>1, WriterStands
<1>10. QED
  BY <1>3, <1>4, <1>5, <1>6, <1>7, <1>8, <1>9, FrameStep, BatchStep DEF Writing!Next

\* What is claimed of a writer follows.
LEMMA WriterIsHonest == WriterIInv => Writing!NothingIsLostUnnoticed
<1> SUFFICES ASSUME WriterIInv PROVE Writing!NothingIsLostUnnoticed
  OBVIOUS
<1>1. Writing!ToSet(writing.todo) = Todo
  BY DEF Writing!ToSet, Todo
<1>2. Writing!EveryFrameIsAccountedFor
  <2>1. \A f \in Writing!Frame : \/ f \in failed \cup dropped \cup Writing!Whole
                                 \/ f \in Todo \cup queue
    BY DEF WriterIInv, NoneForgotten, Writing!Frame, Writing!Whole
  <2>2. writing = Writing!NoCall => queue \subseteq failed
    BY DEF WriterIInv, QueueIsLeftOver, Writing!NoCall
  <2>3. /\ \A i, j \in DOMAIN written : written[i][1] = written[j][1] => i = j
        /\ \A i \in DOMAIN written : ~written[i][2] => written[i][1] \in failed
    BY DEF WriterIInv, InOnePlace, NoneForgotten, WrittenOnce, TornHaveFailed
  <2>4. QED
    BY <1>1, <2>1, <2>2, <2>3 DEF Writing!EveryFrameIsAccountedFor
<1>3. Writing!ImportantFirst
  BY DEF WriterIInv, WireIsAhead, WrittenInOrder, Ahead, Writing!ImportantFirst, Writing!Priority
<1>4. QED
  BY <1>2, <1>3 DEF Writing!NothingIsLostUnnoticed

-----------------------------------------------------------------------------
(* All of them *)

ServicesIInv ==
  /\ part = "events" => EventsIInv
  /\ part = "publishers" => PublishersIInv
  /\ part = "repository" => RepositoryIInv
  /\ part = "writer" => WriterIInv
  /\ part = "http" => HttpIInv

\* Each part begins in its invariant.
LEMMA ServicesInit == Init => ServicesIInv
BY EventsInit, PublishersInit, RepositoryInit, WriterInit, HttpInit DEF Init, ServicesIInv

\* A step of the part exercised keeps the invariant of that part, and a step
\* of a store leaves the services alone.
LEMMA ServicesStep == ServicesIInv /\ [Next]_vars => ServicesIInv'
<1> SUFFICES ASSUME ServicesIInv, [Next]_vars PROVE ServicesIInv'
  OBVIOUS
<1>1. CASE part = "events" /\ Events!Next /\ UNCHANGED part
  BY <1>1, EventsStep DEF ServicesIInv
<1>2. CASE part = "publishers" /\ Publishers!Next /\ UNCHANGED part
  BY <1>2, PublishersStep DEF ServicesIInv
<1>3. CASE part = "repository" /\ Repository!Next /\ UNCHANGED part
  BY <1>3, RepositoryStep DEF ServicesIInv
<1>4. CASE part = "writer" /\ Writing!Next /\ UNCHANGED part
  BY <1>4, WriterStep DEF ServicesIInv
<1>5. CASE part = "http" /\ Http!Next /\ UNCHANGED part
  BY <1>5, HttpStep DEF ServicesIInv
<1>6. CASE UNCHANGED << part, serviceVars >>
  <2>1. EventsIInv => EventsIInv'
    BY <1>6 DEF serviceVars, eventVars, EventsIInv, CallIsUnderWay, StoreIsBehind,
                ToldInOrder, ToldSoFar, ToldTo, Before, Latest
  <2>2. PublishersIInv => PublishersIInv'
    BY <1>6 DEF serviceVars, publisherVars, PublishersIInv, PublisherTypes, Promised,
                DoneWith, InMemory, OneOfItsBatch, Arrived, Reached, AnsweredArrived, LogIsRecent,
                Publishers!Idle
  <2>3. RepositoryIInv => RepositoryIInv'
    BY <1>6 DEF serviceVars, repositoryVars, RepositoryIInv, VersionsAreOld,
                KnownMeansSaved, Repository!Present
  <2>4. WriterIInv => WriterIInv'
    BY <1>6, WriterStands DEF serviceVars, writerVars
  <2>5. HttpIInv => HttpIInv'
    BY <1>6, HeldUnchanged, NobodyMoves DEF serviceVars, httpVars
  <2>6. QED
    BY <1>6, <2>1, <2>2, <2>3, <2>4, <2>5 DEF ServicesIInv
<1>7. QED
  BY <1>1, <1>2, <1>3, <1>4, <1>5, <1>6 DEF Next, Served, vars

\* Each of the five parts keeps its inductive invariant (EventService,
\* EventPublishers, SessionRepository, FrameWriter, HttpApi), for every value of
\* the constants the assumptions allow.
THEOREM ServicesInvariant == Spec => []ServicesIInv
BY ServicesInit, ServicesStep, PTL DEF Spec

\* The event store is never ahead of its subscribers (EventService): whatever
\* is stored was handled by each subscriber of its time, in order, for any
\* number of subscribers and events, whichever calls are given up half-way.
THEOREM StoreIsNeverAhead == Spec => []StoredWasSeenByAll
<1>1. ServicesIInv => StoredWasSeenByAll
  <2> SUFFICES ASSUME EventsIInv PROVE Events!StoredWasSeenByAll
    BY DEF ServicesIInv, StoredWasSeenByAll
  <2>1. \A s \in 1 .. subscribers : s \in 1 .. MaxSubscribers
    BY CallBounds
  <2>2. \A s \in 1 .. subscribers : \A i \in DOMAIN stored :
          stored[i] > since[s] => \E j \in DOMAIN told[s] : told[s][j] = stored[i]
    BY DEF EventsIInv, ToldSoFar, ToldTo
  <2>3. QED
    BY <2>1, <2>2 DEF EventsIInv, StoreIsBehind, ToldInOrder, Events!StoredWasSeenByAll
<1>2. QED
  BY <1>1, ServicesInvariant, PTL

\* Ok means received (CompositeEventPublisher): for any composition, number of
\* attempts and callers, and for any limit of the log and any drain.
THEOREM OkIsTruthful == Spec => []OkMeansReceived
<1>1. ServicesIInv => OkMeansReceived
  BY PublishersKeepTheirWord DEF ServicesIInv, OkMeansReceived
<1>2. QED
  BY <1>1, ServicesInvariant, PTL

\* A save that names a version discards nobody else's (the versioned
\* repository), for any number of clients, sessions and versions.
THEOREM NobodyIsDiscarded == Spec => []ConditionalSaveDiscardsNobody
<1>1. ServicesIInv => ConditionalSaveDiscardsNobody
  BY RepositoryDiscardsNobody DEF ServicesIInv, ConditionalSaveDiscardsNobody
<1>2. QED
  BY <1>1, ServicesInvariant, PTL

\* A call of a stream writer answered with Ok has written its frames, once, whole
\* and in order, or dropped them on purpose (tokio_writer.rs), for any number of
\* frames, priorities and sizes of the buffer, after any number of calls that
\* failed half-way or were abandoned and left frames in the queue.
THEOREM NothingIsLost == Spec => []NothingIsLostUnnoticed
<1>1. ServicesIInv => NothingIsLostUnnoticed
  BY WriterIsHonest DEF ServicesIInv, NothingIsLostUnnoticed
<1>2. QED
  BY <1>1, ServicesInvariant, PTL

\* The connection table follows the sessions behind the routes (axum_adapter.rs),
\* for any number of clients, sessions and places in the table.
THEOREM TableFollows == Spec => []ConnectionsFollowSessions
<1>1. ServicesIInv => ConnectionsFollowSessions
  BY HttpConnectionsFollow DEF ServicesIInv, ConnectionsFollowSessions
<1>2. QED
  BY <1>1, ServicesInvariant, PTL
=============================================================================
