------------------------- MODULE BroadcasterProofs -------------------------
(***************************************************************************)
(* Theorems about Broadcaster, for any number of subscriptions, any ids    *)
(* (shared or not), any buffer sizes and any number of changes.            *)
(***************************************************************************)
EXTENDS Broadcaster, SequenceTheorems, TLAPS

USE BroadcasterAssumption

(* What ties the map, the mutex and the life of a subscription together:   *)
(* a subscription sits under its own id only, what Publish has yet to      *)
(* visit is in the map, and a call of Subscribe that has not happened has  *)
(* left no trace.                                                          *)
MapConsistent ==
    /\ \A id \in Ids : subscribers[id] # NoSub => IdOf[subscribers[id]] = id
    /\ \A s \in toOffer : publishing /\ Mapped(s)
    /\ \A s \in Subs : reader[s] = "new" =>
          /\ ~Mapped(s)
          /\ s \notin closed
          /\ chan[s] = <<>>
          /\ received[s] = <<>>
          /\ dropped[s] = 0

\* Every variable keeps its type.
THEOREM TypeCorrect == Spec => []TypeOK
<1>1. Init => TypeOK
  <2> SUFFICES ASSUME Init
               PROVE  TypeOK
    OBVIOUS
  <2>1. <<>> \in Seq(Nat)
    OBVIOUS
  <2>2. /\ chan \in [Subs -> Seq(Nat)]
        /\ received \in [Subs -> Seq(Nat)]
    BY <2>1 DEF Init
  <2>3. QED
    BY <2>2, ZenonT(30) DEF Init, TypeOK
<1>2. TypeOK /\ [Next]_vars => TypeOK'
  <2> SUFFICES ASSUME TypeOK, [Next]_vars
               PROVE  TypeOK'
    OBVIOUS
  <2> USE DEF TypeOK
  <2>1. ASSUME NEW s \in Subs, Subscribe(s)
        PROVE  TypeOK'
    BY <2>1 DEF Subscribe
  <2>2. ASSUME NEW id \in Ids, Unsubscribe(id)
        PROVE  TypeOK'
    BY <2>2 DEF Unsubscribe
  <2>3. CASE PublishBegin
    BY <2>3 DEF PublishBegin
  <2>4. ASSUME NEW s \in Subs, Offer(s)
        PROVE  TypeOK'
    <3>1. chan' \in [Subs -> Seq(Nat)]
      <4>1. Append(chan[s], published) \in Seq(Nat)
        BY AppendProperties
      <4>2. QED
        BY <2>4, <4>1 DEF Offer
    <3>2. dropped' \in [Subs -> Nat]
      <4>1. dropped[s] + 1 \in Nat
        OBVIOUS
      <4>2. QED
        BY <2>4, <4>1 DEF Offer
    <3>3. QED
      BY <2>4, <3>1, <3>2 DEF Offer
  <2>5. CASE PublishEnd
    BY <2>5 DEF PublishEnd
  <2>6. ASSUME NEW s \in Subs, Receive(s)
        PROVE  TypeOK'
    <3>1. /\ Head(chan[s]) \in Nat
          /\ Tail(chan[s]) \in Seq(Nat)
      BY <2>6, HeadTailProperties DEF Receive
    <3>2. QED
      BY <2>6, <3>1 DEF Receive
  <2>7. ASSUME NEW s \in Subs, ReceiveClosed(s)
        PROVE  TypeOK'
    BY <2>7 DEF ReceiveClosed
  <2>8. CASE UNCHANGED vars
    BY <2>8 DEF vars
  <2>9. QED
    BY <2>1, <2>2, <2>3, <2>4, <2>5, <2>6, <2>7, <2>8 DEF Next
<1>3. QED
  BY <1>1, <1>2, PTL DEF Spec

(* MapConsistent is inductive given the types.                             *)
LEMMA MapConsistentStep ==
  ASSUME TypeOK, MapConsistent, [Next]_vars
  PROVE  MapConsistent'
<1> USE DEF TypeOK, MapConsistent, Mapped
<1>1. ASSUME NEW s \in Subs, Subscribe(s)
      PROVE  MapConsistent'
  <2>1. subscribers' = [subscribers EXCEPT ![IdOf[s]] = s]
    BY <1>1 DEF Subscribe
  <2>2. \A id \in Ids : subscribers'[id] # NoSub => IdOf[subscribers'[id]] = id
    BY <2>1
  <2>3. \A r \in toOffer' : publishing' /\ Mapped(r)'
    BY <1>1 DEF Subscribe
  <2>4. ASSUME NEW r \in Subs, reader'[r] = "new"
        PROVE  /\ ~Mapped(r)'
               /\ r \notin closed'
               /\ chan'[r] = <<>>
               /\ received'[r] = <<>>
               /\ dropped'[r] = 0
    <3>1. r # s /\ reader[r] = "new"
      BY <1>1, <2>4 DEF Subscribe
    <3>2. ~Mapped(r)'
      BY <2>1, <3>1
    <3>3. QED
      BY <1>1, <3>1, <3>2 DEF Subscribe
  <2>5. QED
    BY <2>2, <2>3, <2>4
<1>2. ASSUME NEW id \in Ids, Unsubscribe(id)
      PROVE  MapConsistent'
  <2>1. subscribers' = [subscribers EXCEPT ![id] = NoSub]
    BY <1>2 DEF Unsubscribe
  <2>2. \A i \in Ids : subscribers'[i] # NoSub => IdOf[subscribers'[i]] = i
    BY <2>1
  <2>3. toOffer' = {}
    BY <1>2 DEF Unsubscribe
  <2>4. ASSUME NEW r \in Subs, reader'[r] = "new"
        PROVE  /\ ~Mapped(r)'
               /\ r \notin closed'
               /\ chan'[r] = <<>>
               /\ received'[r] = <<>>
               /\ dropped'[r] = 0
    <3>1. reader[r] = "new"
      BY <1>2, <2>4 DEF Unsubscribe
    <3>2. ~Mapped(r)'
      BY <2>1, <3>1
    <3>3. r # subscribers[id]
      BY <1>2, <3>1 DEF Unsubscribe
    <3>4. QED
      BY <1>2, <3>1, <3>2, <3>3 DEF Unsubscribe
  <2>5. QED
    BY <2>2, <2>3, <2>4
<1>3. CASE PublishBegin
  BY <1>3 DEF PublishBegin
<1>4. ASSUME NEW s \in Subs, Offer(s)
      PROVE  MapConsistent'
  BY <1>4 DEF Offer
<1>5. CASE PublishEnd
  BY <1>5 DEF PublishEnd
<1>6. ASSUME NEW s \in Subs, Receive(s)
      PROVE  MapConsistent'
  BY <1>6 DEF Receive
<1>7. ASSUME NEW s \in Subs, ReceiveClosed(s)
      PROVE  MapConsistent'
  BY <1>7 DEF ReceiveClosed
<1>8. CASE UNCHANGED vars
  BY <1>8 DEF vars
<1>9. QED
  BY <1>1, <1>2, <1>3, <1>4, <1>5, <1>6, <1>7, <1>8 DEF Next

THEOREM MapIsConsistent == Spec => []MapConsistent
<1>1. Init => MapConsistent
  BY DEF Init, MapConsistent, Mapped
<1>2. QED
  BY <1>1, MapConsistentStep, TypeCorrect, PTL DEF Spec

\* However Publish, Subscribe, Unsubscribe and the readers interleave, and
\* whether or not ids are reused, no channel is sent to or closed again after
\* it was closed.
THEOREM NoSendOnClosedChannel == Spec => []NoSendOnClosed
<1>1. Init => NoSendOnClosed
  BY DEF Init, NoSendOnClosed
<1>2. ASSUME TypeOK, MapConsistent, NoSendOnClosed, [Next]_vars
      PROVE  NoSendOnClosed'
  <2> USE DEF TypeOK, MapConsistent, Mapped, NoSendOnClosed
  <2>1. ASSUME NEW s \in Subs, Subscribe(s)
        PROVE  NoSendOnClosed'
    BY <1>2, <2>1 DEF Subscribe
  <2>2. ASSUME NEW id \in Ids, Unsubscribe(id)
        PROVE  NoSendOnClosed'
    <3>1. toOffer' = {}
      BY <1>2, <2>2 DEF Unsubscribe
    <3>2. ASSUME NEW i \in Ids
          PROVE  subscribers'[i] \notin closed'
      <4>1. CASE i = id
        BY <1>2, <2>2, <4>1 DEF Unsubscribe
      <4>2. CASE i # id
        BY <1>2, <2>2, <4>2 DEF Unsubscribe
      <4>3. QED
        BY <4>1, <4>2
    <3>3. QED
      BY <3>1, <3>2
  <2>3. CASE PublishBegin
    BY <1>2, <2>3 DEF PublishBegin
  <2>4. ASSUME NEW s \in Subs, Offer(s)
        PROVE  NoSendOnClosed'
    BY <1>2, <2>4 DEF Offer
  <2>5. CASE PublishEnd
    BY <1>2, <2>5 DEF PublishEnd
  <2>6. ASSUME NEW s \in Subs, Receive(s)
        PROVE  NoSendOnClosed'
    BY <1>2, <2>6 DEF Receive
  <2>7. ASSUME NEW s \in Subs, ReceiveClosed(s)
        PROVE  NoSendOnClosed'
    BY <1>2, <2>7 DEF ReceiveClosed
  <2>8. CASE UNCHANGED vars
    BY <1>2, <2>8 DEF vars
  <2>9. QED
    BY <1>2, <2>1, <2>2, <2>3, <2>4, <2>5, <2>6, <2>7, <2>8 DEF Next
<1>3. QED
  BY <1>1, <1>2, TypeCorrect, MapIsConsistent, PTL DEF Spec


\* For a subscription in the map, at every moment, also half way through a
\* Publish: taken + buffered + counted as dropped = offered.
THEOREM Accounting == Spec => []EveryChangeAccounted
<1> DEFINE Count(r) == since[r] + Len(received[r]) + Len(chan[r]) + dropped[r]
<1>1. Init => EveryChangeAccounted
  BY DEF Init, EveryChangeAccounted, Mapped
<1>2. ASSUME TypeOK, TypeOK', MapConsistent, EveryChangeAccounted, [Next]_vars
      PROVE  EveryChangeAccounted'
  <2> SUFFICES ASSUME NEW r \in Subs, Mapped(r)'
               PROVE  Count(r)' = LastOffered(r)'
    BY DEF EveryChangeAccounted
  <2>a. /\ since \in [Subs -> Nat] /\ dropped \in [Subs -> Nat]
        /\ chan \in [Subs -> Seq(Nat)] /\ received \in [Subs -> Seq(Nat)]
        /\ published \in Nat /\ toOffer \in SUBSET Subs
    BY <1>2 DEF TypeOK
  <2>b. Mapped(r) => Count(r) = LastOffered(r)
    BY <1>2 DEF EveryChangeAccounted
  <2>c. ASSUME UNCHANGED <<since, received, chan, dropped>>, Mapped(r),
               LastOffered(r)' = LastOffered(r)
        PROVE  Count(r)' = LastOffered(r)'
    BY <2>b, <2>c
  <2>1. ASSUME NEW s \in Subs, Subscribe(s)
        PROVE  Count(r)' = LastOffered(r)'
    <3>1. toOffer = {} /\ toOffer' = {} /\ published' = published
      BY <1>2, <2>1 DEF Subscribe, MapConsistent
    <3>2. LastOffered(r)' = published /\ LastOffered(r) = published
      BY <3>1 DEF LastOffered
    <3>3. CASE r = s
      <4>1. since' = [since EXCEPT ![s] = published]
        BY <2>1 DEF Subscribe
      <4>2. chan'[r] = <<>> /\ received'[r] = <<>> /\ dropped'[r] = 0
        BY <1>2, <2>1, <3>3 DEF Subscribe, MapConsistent
      <4>3. since'[r] = published /\ Len(chan'[r]) = 0 /\ Len(received'[r]) = 0
        BY <2>a, <3>3, <4>1, <4>2
      <4>4. Count(r)' = published
        BY <2>a, <4>2, <4>3
      <4>5. QED
        BY <3>2, <4>4
    <3>4. CASE r # s
      <4>1. Mapped(r)
        BY <1>2, <2>1, <3>4 DEF Subscribe, Mapped, TypeOK
      <4>2. since'[r] = since[r]
        BY <2>1, <2>a, <3>4 DEF Subscribe
      <4>3. Count(r)' = Count(r)
        BY <2>1, <4>2 DEF Subscribe
      <4>4. QED
        BY <2>b, <3>2, <4>1, <4>3
    <3>5. QED
      BY <3>3, <3>4
  <2>2. ASSUME NEW id \in Ids, Unsubscribe(id)
        PROVE  Count(r)' = LastOffered(r)'
    <3>1. Mapped(r)
      BY <1>2, <2>2 DEF Unsubscribe, Mapped, TypeOK
    <3>2. QED
      BY <2>2, <2>c, <3>1 DEF Unsubscribe, LastOffered
  <2>3. CASE PublishBegin
    <3>1. Mapped(r)
      BY <2>3 DEF PublishBegin, Mapped
    <3>2. r \in toOffer' /\ r \notin toOffer
      BY <1>2, <2>3, <3>1 DEF PublishBegin, MapConsistent
    <3>3. published' = published + 1
      BY <2>3 DEF PublishBegin
    <3>4. LastOffered(r)' = LastOffered(r)
      BY <2>a, <3>2, <3>3 DEF LastOffered
    <3>5. QED
      BY <2>3, <2>c, <3>1, <3>4 DEF PublishBegin
  <2>4. ASSUME NEW s \in Subs, Offer(s)
        PROVE  Count(r)' = LastOffered(r)'
    <3>1. Mapped(r)
      BY <2>4 DEF Offer, Mapped
    <3>2. /\ UNCHANGED <<since, received, published>>
          /\ s \in toOffer
          /\ toOffer' = toOffer \ {s}
      BY <2>4 DEF Offer
    <3>3. CASE r = s
      <4>1. LastOffered(r)' = published /\ LastOffered(r) = published - 1
        BY <3>2, <3>3 DEF LastOffered
      <4>2. CASE chan' = [chan EXCEPT ![s] = Append(@, published)] /\ UNCHANGED dropped
        <5>1. chan'[r] = Append(chan[r], published)
          BY <2>a, <3>3, <4>2
        <5>2. Len(chan'[r]) = Len(chan[r]) + 1 /\ chan' \in [Subs -> Seq(Nat)]
          BY <1>2, <2>a, <5>1, AppendProperties DEF TypeOK
        <5>3. Count(r)' = Count(r) + 1
          BY <2>a, <3>2, <4>2, <5>2
        <5>4. QED
          BY <2>a, <2>b, <3>1, <4>1, <5>3
      <4>3. CASE dropped' = [dropped EXCEPT ![s] = @ + 1] /\ UNCHANGED chan
        <5>1. Count(r)' = Count(r) + 1
          BY <2>a, <3>2, <3>3, <4>3
        <5>2. QED
          BY <2>a, <2>b, <3>1, <4>1, <5>1
      <4>4. QED
        BY <2>4, <4>2, <4>3 DEF Offer
    <3>4. CASE r # s
      <4>1. LastOffered(r)' = LastOffered(r)
        BY <3>2, <3>4 DEF LastOffered
      <4>2. chan'[r] = chan[r] /\ dropped'[r] = dropped[r]
        BY <2>4, <2>a, <3>4 DEF Offer
      <4>3. QED
        BY <2>b, <3>1, <3>2, <4>1, <4>2
    <3>5. QED
      BY <3>3, <3>4
  <2>5. CASE PublishEnd
    BY <2>5, <2>c DEF PublishEnd, Mapped, LastOffered
  <2>6. ASSUME NEW s \in Subs, Receive(s)
        PROVE  Count(r)' = LastOffered(r)'
    <3>1. /\ Mapped(r)
          /\ LastOffered(r)' = LastOffered(r)
          /\ UNCHANGED <<since, dropped>>
      BY <2>6 DEF Receive, Mapped, LastOffered
    <3>2. CASE r = s
      <4>1. /\ chan[r] # <<>>
            /\ chan'[r] = Tail(chan[r])
            /\ received'[r] = Append(received[r], Head(chan[r]))
        BY <2>6, <2>a, <3>2 DEF Receive
      <4>2. /\ Len(received'[r]) = Len(received[r]) + 1
            /\ Len(chan[r]) = Len(chan'[r]) + 1
            /\ chan'[r] \in Seq(Nat)
        BY <2>a, <4>1, HeadTailProperties, AppendProperties
      <4>3. Count(r)' = Count(r)
        BY <2>a, <3>1, <4>2
      <4>4. QED
        BY <2>b, <3>1, <4>3
    <3>3. CASE r # s
      <4>1. chan'[r] = chan[r] /\ received'[r] = received[r]
        BY <2>6, <2>a, <3>3 DEF Receive
      <4>2. QED
        BY <2>b, <3>1, <4>1
    <3>4. QED
      BY <3>2, <3>3
  <2>7. ASSUME NEW s \in Subs, ReceiveClosed(s)
        PROVE  Count(r)' = LastOffered(r)'
    BY <2>7, <2>c DEF ReceiveClosed, Mapped, LastOffered
  <2>8. CASE UNCHANGED vars
    BY <2>8, <2>c DEF vars, Mapped, LastOffered
  <2>9. QED
    BY <1>2, <2>1, <2>2, <2>3, <2>4, <2>5, <2>6, <2>7, <2>8 DEF Next
<1>3. QED
  BY <1>1, <1>2, TypeCorrect, MapIsConsistent, PTL DEF Spec

-----------------------------------------------------------------------------
(* The order of publication.  What a reader has taken and what it has yet  *)
(* to take form one sequence, which only Offer extends.                    *)

Seen(s) == received[s] \o chan[s]

Ascending(s) ==
    \A i, j \in 1 .. Len(Seen(s)) : i < j => Seen(s)[i] < Seen(s)[j]

(* What was seen lies between the subscription and the running Publish.    *)
Within(s) ==
    /\ since[s] <= published
    /\ s \in toOffer => since[s] < published
    /\ \A i \in 1 .. Len(Seen(s)) :
          /\ since[s] < Seen(s)[i]
          /\ Seen(s)[i] <= published
          /\ s \in toOffer => Seen(s)[i] < published

FirstKept(s) ==
    Mapped(s) =>
        \A i \in 1 .. BufferSize[s] : i <= LastOffered(s) - since[s] =>
            i <= Len(Seen(s)) /\ Seen(s)[i] = since[s] + i

OrderInv(s) == Ascending(s) /\ Within(s) /\ FirstKept(s)

SeenOK(s) ==
    /\ received[s] \in Seq(Nat) /\ chan[s] \in Seq(Nat)
    /\ Seen(s) \in Seq(Nat) /\ Len(Seen(s)) = Len(received[s]) + Len(chan[s])
    /\ since[s] \in Nat /\ published \in Nat /\ LastOffered(s) \in Int
    /\ BufferSize[s] \in Nat \ {0}

LEMMA SeenTyped == TypeOK => \A s \in Subs : SeenOK(s)
<1> SUFFICES ASSUME TypeOK, NEW s \in Subs
             PROVE  SeenOK(s)
  OBVIOUS
<1>1. received[s] \in Seq(Nat) /\ chan[s] \in Seq(Nat) /\ since[s] \in Nat /\ published \in Nat
  BY DEF TypeOK
<1>2. Seen(s) \in Seq(Nat) /\ Len(Seen(s)) = Len(received[s]) + Len(chan[s])
  BY <1>1, ConcatProperties DEF Seen
<1>3. LastOffered(s) \in Int
  BY <1>1 DEF LastOffered
<1>4. BufferSize[s] \in Nat \ {0}
  BY BroadcasterAssumption
<1>5. QED
  BY <1>1, <1>2, <1>3, <1>4 DEF SeenOK

(* Facts about sequences and numbers that the steps below need.            *)

LEMMA SendLast ==
  ASSUME NEW S, NEW s \in Seq(S), NEW t \in Seq(S), NEW e \in S
  PROVE  s \o Append(t, e) = Append(s \o t, e)
<1>1. <<e>> \in Seq(S) /\ s \o t \in Seq(S)
  OBVIOUS
<1>2. Append(t, e) = t \o <<e>> /\ Append(s \o t, e) = (s \o t) \o <<e>>
  BY <1>1, AppendIsConcat
<1>3. QED
  BY <1>1, <1>2, ConcatAssociative

LEMMA TakeFirst ==
  ASSUME NEW S, NEW s \in Seq(S), NEW t \in Seq(S), t # <<>>
  PROVE  Append(s, Head(t)) \o Tail(t) = s \o t
<1>1. Head(t) \in S /\ Tail(t) \in Seq(S) /\ <<Head(t)>> \in Seq(S)
  OBVIOUS
<1>2. Append(s, Head(t)) = s \o <<Head(t)>>
  BY <1>1, AppendIsConcat
<1>3. <<Head(t)>> \o Tail(t) = t
  BY <1>1
<1>4. QED
  BY <1>1, <1>2, <1>3, ConcatAssociative

LEMMA Counted ==
  ASSUME NEW a \in Nat, NEW l \in Nat, NEW m \in Nat, NEW d \in Nat, NEW p \in Nat,
         a + l + m + d = p - 1
  PROVE  l + m <= p - 1 - a /\ m <= p - 1 - a
OBVIOUS

LEMMA Squeezed ==
  ASSUME NEW n \in Nat, NEW i \in Nat, NEW a \in Nat, NEW p \in Nat,
         i - 1 <= n, n <= p - 1 - a, i = p - a
  PROVE  n = i - 1
OBVIOUS

(* A sequence q that begins with the successors of a, to which p is added. *)
LEMMA Extended ==
  ASSUME NEW q \in Seq(Nat), NEW a \in Nat, NEW p \in Nat, NEW b \in Nat \ {0},
         a < p, Len(q) <= p - 1 - a,
         \A i, j \in 1 .. Len(q) : i < j => q[i] < q[j],
         \A i \in 1 .. Len(q) : a < q[i] /\ q[i] < p,
         \A i \in 1 .. b : i <= p - 1 - a => i <= Len(q) /\ q[i] = a + i,
         NEW e, e = Append(q, p)
  PROVE  /\ Len(e) = Len(q) + 1
         /\ \A i, j \in 1 .. Len(e) : i < j => e[i] < e[j]
         /\ \A i \in 1 .. Len(e) : a < e[i] /\ e[i] <= p
         /\ \A i \in 1 .. b : i <= p - a => i <= Len(e) /\ e[i] = a + i
<1> DEFINE n == Len(q)
<1>1. /\ n \in Nat /\ Len(e) = n + 1 /\ e[n + 1] = p
      /\ \A i \in 1 .. n : e[i] = q[i] /\ q[i] \in Nat
  BY AppendProperties
<1>2. \A i \in 1 .. n + 1 : i = n + 1 \/ i \in 1 .. n
  BY <1>1
<1>3. ASSUME NEW i \in 1 .. n + 1, NEW j \in 1 .. n + 1, i < j
      PROVE  e[i] < e[j]
  <2>1. CASE j = n + 1
    BY <1>1, <1>2, <1>3, <2>1
  <2>2. CASE j \in 1 .. n
    BY <1>1, <1>3, <2>2
  <2>3. QED
    BY <1>2, <2>1, <2>2
<1>4. ASSUME NEW i \in 1 .. n + 1
      PROVE  a < e[i] /\ e[i] <= p
  <2>1. CASE i = n + 1
    BY <1>1, <2>1
  <2>2. CASE i \in 1 .. n
    BY <1>1, <2>2
  <2>3. QED
    BY <1>2, <2>1, <2>2
<1>5. ASSUME NEW i \in 1 .. b, i <= p - a
      PROVE  i <= n + 1 /\ e[i] = a + i
  <2>1. CASE i <= p - 1 - a
    BY <1>1, <2>1
  <2>2. CASE i = p - a
    <3>1. n = i - 1
      <4>1. CASE i = 1
        BY <1>1, <2>2, <4>1
      <4>2. CASE i # 1
        <5>1. i - 1 \in 1 .. b /\ i - 1 <= p - 1 - a
          BY <2>2, <4>2
        <5>2. i - 1 <= n
          BY <5>1
        <5>3. i \in Nat /\ Len(q) \in Nat /\ Len(q) <= p - 1 - a
          BY <1>1
        <5> HIDE DEF n
        <5>4. n \in Nat /\ n <= p - 1 - a
          BY <5>3 DEF n
        <5>5. QED
          BY <2>2, <5>2, <5>3, <5>4, Squeezed
      <4>3. QED
        BY <4>1, <4>2
    <3>2. QED
      BY <1>1, <2>2, <3>1
  <2>3. QED
    BY <1>5, <2>1, <2>2
<1>6. QED
  BY <1>1, <1>3, <1>4, <1>5

(* A step that leaves what s has seen alone.                               *)
LEMMA SeenKept ==
  ASSUME NEW s \in Subs, OrderInv(s), SeenOK(s), SeenOK(s)',
         Seen(s)' = Seen(s), since'[s] = since[s],
         Mapped(s)' => Mapped(s) /\ LastOffered(s)' = LastOffered(s),
         \/ published' = published /\ (s \in toOffer' => s \in toOffer)
         \/ published' = published + 1
  PROVE  OrderInv(s)'
<1>1. Ascending(s)'
  BY DEF OrderInv, Ascending
<1>2. Within(s)'
  <2>1. /\ since'[s] \in Nat /\ published \in Nat /\ published' \in Nat
        /\ \A i \in 1 .. Len(Seen(s)) : Seen(s)[i] \in Nat
    <3>1. Seen(s)' \in Seq(Nat) /\ since'[s] \in Nat /\ published \in Nat /\ published' \in Nat
      BY DEF SeenOK
    <3>2. \A i \in 1 .. Len(Seen(s)') : Seen(s)'[i] \in Nat
      BY <3>1
    <3>3. QED
      BY <3>1, <3>2
  <2>2. CASE published' = published /\ (s \in toOffer' => s \in toOffer)
    BY <2>2 DEF OrderInv, Within
  <2>3. CASE published' = published + 1
    <3>1. /\ since'[s] <= published
          /\ \A i \in 1 .. Len(Seen(s)) : since'[s] < Seen(s)[i] /\ Seen(s)[i] <= published
      BY DEF OrderInv, Within
    <3>2. since'[s] < published'
      BY <2>1, <2>3, <3>1
    <3>3. \A i \in 1 .. Len(Seen(s)) : Seen(s)[i] < published'
      BY <2>1, <2>3, <3>1
    <3>4. QED
      BY <2>1, <3>1, <3>2, <3>3 DEF Within
  <2>4. QED
    BY <2>2, <2>3
<1>3. FirstKept(s)'
  BY DEF OrderInv, FirstKept
<1>4. QED
  BY <1>1, <1>2, <1>3 DEF OrderInv

(* Publish sends to s: the channel has room.                               *)
LEMMA SeenExtended ==
  ASSUME NEW s \in Subs, OrderInv(s), SeenOK(s), SeenOK(s)', EveryChangeAccounted,
         dropped[s] \in Nat,
         s \in toOffer, s \notin toOffer', published' = published, since' = since,
         Mapped(s), Seen(s)' = Append(Seen(s), published)
  PROVE  OrderInv(s)'
<1>1. LastOffered(s) = published - 1 /\ LastOffered(s)' = published
  BY DEF LastOffered
<1>2. since[s] + Len(received[s]) + Len(chan[s]) + dropped[s] = published - 1
  BY <1>1 DEF EveryChangeAccounted
<1>3. /\ Seen(s) \in Seq(Nat) /\ since[s] \in Nat /\ published \in Nat
      /\ BufferSize[s] \in Nat \ {0}
      /\ Len(Seen(s)) = Len(received[s]) + Len(chan[s])
      /\ Len(received[s]) \in Nat /\ Len(chan[s]) \in Nat
  BY LenProperties DEF SeenOK
<1>4. Len(Seen(s)) <= published - 1 - since[s]
  <2>1. Len(received[s]) + Len(chan[s]) <= published - 1 - since[s]
    BY <1>2, <1>3, Counted
  <2>2. QED
    BY <1>3, <2>1
<1>5. /\ since[s] < published
      /\ \A i \in 1 .. Len(Seen(s)) : since[s] < Seen(s)[i] /\ Seen(s)[i] < published
  BY DEF OrderInv, Within
<1>6. \A i \in 1 .. BufferSize[s] : i <= published - 1 - since[s] =>
          i <= Len(Seen(s)) /\ Seen(s)[i] = since[s] + i
  BY <1>1 DEF OrderInv, FirstKept
<1>7. \A i, j \in 1 .. Len(Seen(s)) : i < j => Seen(s)[i] < Seen(s)[j]
  BY DEF OrderInv, Ascending
<1> DEFINE e == Seen(s)'
<1>8. e = Append(Seen(s), published)
  OBVIOUS
<1> HIDE DEF e
<1>9. /\ \A i, j \in 1 .. Len(e) : i < j => e[i] < e[j]
      /\ \A i \in 1 .. Len(e) : since[s] < e[i] /\ e[i] <= published
      /\ \A i \in 1 .. BufferSize[s] : i <= published - since[s] =>
             i <= Len(e) /\ e[i] = since[s] + i
  <2>1. PICK q \in Seq(Nat), a \in Nat, p \in Nat, b \in Nat \ {0} :
            q = Seen(s) /\ a = since[s] /\ p = published /\ b = BufferSize[s]
    BY <1>3
  <2>2. a < p /\ Len(q) <= p - 1 - a /\ e = Append(q, p)
    BY <1>4, <1>5, <1>8, <2>1
  <2>3. /\ \A i, j \in 1 .. Len(q) : i < j => q[i] < q[j]
        /\ \A i \in 1 .. Len(q) : a < q[i] /\ q[i] < p
    BY <1>5, <1>7, <2>1
  <2>4. \A i \in 1 .. b : i <= p - 1 - a => i <= Len(q) /\ q[i] = a + i
    BY <1>6, <2>1
  <2>5. /\ \A i, j \in 1 .. Len(e) : i < j => e[i] < e[j]
        /\ \A i \in 1 .. Len(e) : a < e[i] /\ e[i] <= p
        /\ \A i \in 1 .. b : i <= p - a => i <= Len(e) /\ e[i] = a + i
    BY <2>1, <2>2, <2>3, <2>4, Extended, SMTT(60)
  <2>6. QED
    BY <2>1, <2>5
<1>10. Ascending(s)'
  BY <1>9 DEF Ascending, e
<1>11. Within(s)'
  <2>1. since[s] <= published
    BY <1>3, <1>5
  <2>2. QED
    BY <1>9, <2>1 DEF Within, e
<1>12. FirstKept(s)'
  BY <1>1, <1>9 DEF FirstKept, e
<1>13. QED
  BY <1>10, <1>11, <1>12 DEF OrderInv

(* Publish counts a drop: the channel is full.                             *)
LEMMA SeenDropped ==
  ASSUME NEW s \in Subs, OrderInv(s), SeenOK(s), SeenOK(s)', EveryChangeAccounted,
         dropped[s] \in Nat, BufferSize[s] <= Len(chan[s]),
         s \in toOffer, s \notin toOffer', published' = published, since' = since,
         Mapped(s), Seen(s)' = Seen(s)
  PROVE  OrderInv(s)'
<1>1. LastOffered(s) = published - 1 /\ LastOffered(s)' = published
  BY DEF LastOffered
<1>2. Ascending(s)' /\ Within(s)'
  BY DEF OrderInv, Ascending, Within
<1>3. BufferSize[s] <= published - 1 - since[s]
  <2>1. since[s] + Len(received[s]) + Len(chan[s]) + dropped[s] = published - 1
    BY <1>1 DEF EveryChangeAccounted
  <2>2. /\ Len(received[s]) \in Nat /\ Len(chan[s]) \in Nat /\ BufferSize[s] \in Nat
        /\ since[s] \in Nat /\ published \in Nat
    BY LenProperties DEF SeenOK
  <2>3. Len(chan[s]) <= published - 1 - since[s]
    BY <2>1, <2>2, Counted
  <2>4. QED
    BY <2>2, <2>3
<1>4. FirstKept(s)'
  <2> SUFFICES ASSUME NEW i \in 1 .. BufferSize[s]
               PROVE  i <= Len(Seen(s)) /\ Seen(s)[i] = since[s] + i
    BY <1>1 DEF FirstKept
  <2>1. BufferSize[s] \in Nat /\ since[s] \in Nat /\ published \in Nat
    BY DEF SeenOK
  <2>2. i <= published - 1 - since[s]
    BY <1>3, <2>1
  <2>3. QED
    BY <1>1, <2>2 DEF OrderInv, FirstKept
<1>5. QED
  BY <1>2, <1>4 DEF OrderInv

LEMMA OrderStep ==
  ASSUME TypeOK, \A s \in Subs : SeenOK(s) /\ SeenOK(s)', MapConsistent,
         EveryChangeAccounted, \A s \in Subs : OrderInv(s), [Next]_vars
  PROVE  \A s \in Subs : OrderInv(s)'
<1> SUFFICES ASSUME NEW r \in Subs
             PROVE  OrderInv(r)'
  OBVIOUS
<1>a. OrderInv(r) /\ SeenOK(r) /\ SeenOK(r)'
  OBVIOUS
<1>b. /\ since \in [Subs -> Nat] /\ dropped \in [Subs -> Nat]
      /\ chan \in [Subs -> Seq(Nat)] /\ received \in [Subs -> Seq(Nat)]
      /\ subscribers \in [Ids -> Subs \cup {NoSub}]
      /\ published \in Nat
  BY DEF TypeOK
<1>1. ASSUME NEW s \in Subs, Subscribe(s)
      PROVE  OrderInv(r)'
  <2>1. /\ toOffer = {} /\ toOffer' = {} /\ published' = published
        /\ received' = received /\ chan' = chan
        /\ since' = [since EXCEPT ![s] = published]
        /\ subscribers' = [subscribers EXCEPT ![IdOf[s]] = s]
    BY <1>1 DEF Subscribe, MapConsistent
  <2>2. CASE r = s
    <3>1. received'[r] = <<>> /\ chan'[r] = <<>>
      BY <1>1, <2>1, <2>2 DEF Subscribe, MapConsistent
    <3>2. Len(Seen(r)') = 0
      BY <1>a, <3>1 DEF SeenOK
    <3>3. since'[r] = published /\ LastOffered(r)' = published
      BY <1>b, <2>1, <2>2 DEF LastOffered
    <3>4. Ascending(r)'
      BY <3>2 DEF Ascending
    <3>5. Within(r)'
      BY <1>b, <2>1, <3>2, <3>3 DEF Within
    <3>6. FirstKept(r)'
      BY <1>b, <3>3 DEF FirstKept
    <3>7. QED
      BY <3>4, <3>5, <3>6 DEF OrderInv
  <2>3. CASE r # s
    <3>1. Seen(r)' = Seen(r) /\ since'[r] = since[r]
      BY <1>b, <2>1, <2>3 DEF Seen
    <3>2. LastOffered(r)' = LastOffered(r)
      BY <2>1 DEF LastOffered
    <3>3. Mapped(r)' => Mapped(r)
      BY <1>b, <2>1, <2>3 DEF Mapped
    <3>4. QED
      BY <1>a, <2>1, <3>1, <3>2, <3>3, SeenKept
  <2>4. QED
    BY <2>2, <2>3
<1>2. ASSUME NEW id \in Ids, Unsubscribe(id)
      PROVE  OrderInv(r)'
  <2>1. /\ Seen(r)' = Seen(r) /\ LastOffered(r)' = LastOffered(r)
        /\ since' = since /\ published' = published /\ toOffer' = toOffer
    BY <1>2 DEF Unsubscribe, Seen, LastOffered
  <2>2. Mapped(r)' => Mapped(r)
    BY <1>2, <1>b DEF Unsubscribe, Mapped
  <2>3. QED
    BY <1>a, <2>1, <2>2, SeenKept
<1>3. CASE PublishBegin
  <2>1. Seen(r)' = Seen(r) /\ since' = since /\ published' = published + 1
    BY <1>3 DEF PublishBegin, Seen
  <2>2. Mapped(r)' => Mapped(r) /\ LastOffered(r)' = LastOffered(r)
    <3>1. ASSUME Mapped(r)'
          PROVE  Mapped(r) /\ r \in toOffer' /\ r \notin toOffer
      BY <1>3, <3>1 DEF PublishBegin, Mapped, MapConsistent
    <3>2. QED
      BY <1>b, <2>1, <3>1 DEF LastOffered
  <2>3. QED
    BY <1>a, <2>1, <2>2, SeenKept
<1>4. ASSUME NEW s \in Subs, Offer(s)
      PROVE  OrderInv(r)'
  <2>1. /\ UNCHANGED <<subscribers, since, received, published>>
        /\ s \in toOffer /\ toOffer' = toOffer \ {s}
    BY <1>4 DEF Offer
  <2>2. CASE r # s
    <3>1. Seen(r)' = Seen(r)
      BY <1>4, <1>b, <2>1, <2>2 DEF Offer, Seen
    <3>2. LastOffered(r)' = LastOffered(r) /\ (Mapped(r)' => Mapped(r))
      BY <2>1, <2>2 DEF LastOffered, Mapped
    <3>3. QED
      BY <1>a, <2>1, <3>1, <3>2, SeenKept
  <2>3. CASE r = s
    <3>1. Mapped(r) /\ dropped[r] \in Nat /\ r \in toOffer /\ r \notin toOffer'
      BY <1>b, <2>1, <2>3 DEF MapConsistent
    <3>2. CASE chan' = [chan EXCEPT ![s] = Append(@, published)]
      <4>1. chan'[r] = Append(chan[r], published) /\ received'[r] = received[r]
        BY <1>b, <2>1, <2>3, <3>2
      <4>2. received[r] \o Append(chan[r], published) = Append(received[r] \o chan[r], published)
        <5>1. received[r] \in Seq(Nat) /\ chan[r] \in Seq(Nat) /\ published \in Nat
          BY <1>b
        <5>2. \A s1, s2 \in Seq(Nat), p \in Nat : s1 \o Append(s2, p) = Append(s1 \o s2, p)
          BY SendLast
        <5>3. QED
          BY <5>1, <5>2
      <4>3. Seen(r)' = Append(Seen(r), published)
        BY <4>1, <4>2 DEF Seen
      <4>4. QED
        BY <1>a, <2>1, <3>1, <4>3, SeenExtended
    <3>3. CASE Len(chan[s]) >= BufferSize[s] /\ chan' = chan
      <4>1. Seen(r)' = Seen(r) /\ BufferSize[r] <= Len(chan[r])
        <5>1. Len(chan[r]) \in Nat /\ BufferSize[r] \in Nat
          BY <1>a, LenProperties DEF SeenOK
        <5>2. QED
          BY <2>1, <2>3, <3>3, <5>1 DEF Seen
      <4>2. QED
        BY <1>a, <2>1, <3>1, <4>1, SeenDropped
    <3>4. QED
      BY <1>4, <3>2, <3>3 DEF Offer
  <2>4. QED
    BY <2>2, <2>3
<1>5. ASSUME NEW s \in Subs, Receive(s)
      PROVE  OrderInv(r)'
  <2>1. /\ UNCHANGED <<subscribers, since, published, toOffer>>
        /\ received' = [received EXCEPT ![s] = Append(@, Head(chan[s]))]
        /\ chan' = [chan EXCEPT ![s] = Tail(@)]
        /\ chan[s] # <<>>
    BY <1>5 DEF Receive
  <2>2. Seen(r)' = Seen(r)
    <3>1. CASE r = s
      <4>1. received'[r] = Append(received[r], Head(chan[r])) /\ chan'[r] = Tail(chan[r])
        BY <1>b, <2>1, <3>1
      <4>2. Append(received[r], Head(chan[r])) \o Tail(chan[r]) = received[r] \o chan[r]
        <5>1. received[r] \in Seq(Nat) /\ chan[r] \in Seq(Nat) /\ chan[r] # <<>>
          BY <1>b, <2>1, <3>1
        <5>2. QED
          BY <5>1, TakeFirst
      <4>3. QED
        BY <4>1, <4>2 DEF Seen
    <3>2. CASE r # s
      BY <1>b, <2>1, <3>2 DEF Seen
    <3>3. QED
      BY <3>1, <3>2
  <2>3. LastOffered(r)' = LastOffered(r) /\ (Mapped(r)' => Mapped(r))
    BY <2>1 DEF LastOffered, Mapped
  <2>4. QED
    BY <1>a, <2>1, <2>2, <2>3, SeenKept
<1>6. CASE PublishEnd \/ (\E s \in Subs : ReceiveClosed(s)) \/ UNCHANGED vars
  <2>1. UNCHANGED <<subscribers, since, published, toOffer, received, chan>>
    BY <1>6 DEF PublishEnd, ReceiveClosed, vars
  <2>2. /\ Seen(r)' = Seen(r) /\ LastOffered(r)' = LastOffered(r)
        /\ Mapped(r)' => Mapped(r)
    BY <2>1 DEF Seen, LastOffered, Mapped
  <2>3. QED
    BY <1>a, <2>1, <2>2, SeenKept
<1>7. QED
  BY <1>1, <1>2, <1>3, <1>4, <1>5, <1>6 DEF Next

LEMMA MinOfTwo ==
  ASSUME NEW a \in Int, NEW b \in Int
  PROVE  Min({a, b}) \in {a, b} /\ Min({a, b}) <= a /\ Min({a, b}) <= b
<1>1. \E x \in {a, b} : \A y \in {a, b} : x <= y
  <2>1. CASE a <= b
    BY <2>1
  <2>2. CASE ~(a <= b)
    BY <2>2
  <2>3. QED
    BY <2>1, <2>2
<1>2. QED
  BY <1>1 DEF Min

\* Whatever drops, readers and other subscribers do in between, a subscription
\* sees the changes in the order of publication, and the first ones up to the
\* size of its buffer without a gap.
THEOREM PublicationOrder == Spec => []InPublicationOrder
<1>1. Init => \A s \in Subs : OrderInv(s)
  <2> SUFFICES ASSUME Init, NEW s \in Subs
               PROVE  OrderInv(s)
    OBVIOUS
  <2>1. Seen(s) = <<>> /\ Len(Seen(s)) = 0
    BY DEF Init, Seen
  <2>2. since[s] = 0 /\ published = 0 /\ toOffer = {}
    BY DEF Init
  <2>3. ~Mapped(s)
    BY BroadcasterAssumption DEF Init, Mapped
  <2>4. QED
    BY <2>1, <2>2, <2>3 DEF OrderInv, Ascending, Within, FirstKept
<1>s. Spec => [](\A s \in Subs : SeenOK(s))
  BY SeenTyped, TypeCorrect, PTL
<1>2. /\ TypeOK /\ (\A s \in Subs : SeenOK(s)) /\ (\A s \in Subs : SeenOK(s))'
      /\ MapConsistent /\ EveryChangeAccounted
      /\ (\A s \in Subs : OrderInv(s)) /\ [Next]_vars
      => (\A s \in Subs : OrderInv(s))'
  BY OrderStep
<1>3. ASSUME TypeOK, \A s \in Subs : OrderInv(s)
      PROVE  InPublicationOrder
  <2> SUFFICES ASSUME NEW s \in Subs
               PROVE  /\ Ascending(s)
                      /\ \A i \in 1 .. Len(Seen(s)) : since[s] < Seen(s)[i]
                      /\ Mapped(s) =>
                           \A i \in 1 .. Min({LastOffered(s) - since[s], BufferSize[s]}) :
                               i <= Len(Seen(s)) /\ Seen(s)[i] = since[s] + i
    BY DEF InPublicationOrder, Ascending, Seen
  <2>1. Ascending(s) /\ \A i \in 1 .. Len(Seen(s)) : since[s] < Seen(s)[i]
    BY <1>3 DEF OrderInv, Within
  <2>2. ASSUME Mapped(s),
               NEW i \in 1 .. Min({LastOffered(s) - since[s], BufferSize[s]})
        PROVE  i <= Len(Seen(s)) /\ Seen(s)[i] = since[s] + i
    <3> DEFINE a == LastOffered(s) - since[s]
               b == BufferSize[s]
    <3>1. a \in Int /\ b \in Int /\ b \in Nat
      <4>1. SeenOK(s)
        BY <1>3, SeenTyped
      <4>2. QED
        BY <4>1 DEF SeenOK
    <3>2. Min({a, b}) \in Int /\ Min({a, b}) <= a /\ Min({a, b}) <= b
      BY <3>1, MinOfTwo
    <3>3. i \in 1 .. b /\ i <= a
      BY <3>1, <3>2
    <3>4. QED
      BY <1>3, <2>2, <3>3 DEF OrderInv, FirstKept
  <2>3. QED
    BY <2>1, <2>2
<1>4. QED
  BY <1>1, <1>s, <1>2, <1>3, TypeCorrect, MapIsConsistent, Accounting, PTL DEF Spec

-----------------------------------------------------------------------------
(* What closing a channel means for its reader.                            *)

(* The reader's range over the channel has ended.                          *)
EndedHasAll == \A s \in Subs : reader[s] = "done" => s \in closed /\ chan[s] = <<>>

\* A reader never ends early: one that has ended saw its channel closed, left
\* nothing in the buffer, and no Publish that was under way then puts anything
\* into that buffer afterwards.
THEOREM EndedReadersHaveAll == Spec => []EndedHasAll
<1>1. Init => EndedHasAll
  BY DEF Init, EndedHasAll
<1>2. ASSUME TypeOK, NoSendOnClosed, EndedHasAll, [Next]_vars
      PROVE  EndedHasAll'
  <2> SUFFICES ASSUME NEW r \in Subs, reader'[r] = "done"
               PROVE  r \in closed' /\ chan'[r] = <<>>
    BY DEF EndedHasAll
  <2> USE <1>2 DEF TypeOK, EndedHasAll
  <2>1. ASSUME NEW s \in Subs, Subscribe(s)
        PROVE  r \in closed' /\ chan'[r] = <<>>
    BY <2>1 DEF Subscribe
  <2>2. ASSUME NEW id \in Ids, Unsubscribe(id)
        PROVE  r \in closed' /\ chan'[r] = <<>>
    BY <2>2 DEF Unsubscribe
  <2>3. CASE PublishBegin \/ PublishEnd
    BY <2>3 DEF PublishBegin, PublishEnd
  <2>4. ASSUME NEW s \in Subs, Offer(s)
        PROVE  r \in closed' /\ chan'[r] = <<>>
    <3>1. r \in closed /\ chan[r] = <<>> /\ closed' = closed
      BY <2>4 DEF Offer
    <3>2. r # s
      BY <2>4, <3>1 DEF Offer, NoSendOnClosed
    <3>3. QED
      BY <2>4, <3>1, <3>2 DEF Offer
  <2>5. ASSUME NEW s \in Subs, Receive(s)
        PROVE  r \in closed' /\ chan'[r] = <<>>
    BY <2>5 DEF Receive
  <2>6. ASSUME NEW s \in Subs, ReceiveClosed(s)
        PROVE  r \in closed' /\ chan'[r] = <<>>
    BY <2>6 DEF ReceiveClosed
  <2>7. CASE UNCHANGED vars
    BY <2>7 DEF vars
  <2>8. QED
    BY <2>1, <2>2, <2>3, <2>4, <2>5, <2>6, <2>7 DEF Next
<1>3. QED
  BY <1>1, <1>2, TypeCorrect, NoSendOnClosedChannel, PTL DEF Spec

\* A reader whose channel is open is out of the map exactly when a later
\* Subscribe with its id took its place there: Unsubscribe leaves no reader
\* behind, and nothing ever ends one that was replaced.
THEOREM ReadersHaveASource == Spec => []OrphansWereReplaced
<1> DEFINE Orphan(r) == reader[r] = "reading" /\ ~Mapped(r) /\ r \notin closed
<1>1. Init => OrphansWereReplaced
  BY DEF Init, OrphansWereReplaced
<1>2. ASSUME TypeOK, TypeOK', MapConsistent, NoSendOnClosed, EndedHasAll,
             OrphansWereReplaced, [Next]_vars
      PROVE  OrphansWereReplaced'
  <2> USE <1>2 DEF TypeOK
  <2>a. \A r \in Subs : r \in replaced <=> Orphan(r)
    BY DEF OrphansWereReplaced
  <2>b. ASSUME \A r \in Subs : r \in replaced' <=> Orphan(r)'
        PROVE  OrphansWereReplaced'
    BY <2>b DEF OrphansWereReplaced
  <2>1. ASSUME NEW s \in Subs, Subscribe(s)
        PROVE  OrphansWereReplaced'
    <3> SUFFICES ASSUME NEW r \in Subs
                 PROVE  r \in replaced' <=> Orphan(r)'
      BY <2>b
    <3>1. /\ subscribers' = [subscribers EXCEPT ![IdOf[s]] = s]
          /\ reader' = [reader EXCEPT ![s] = "reading"]
          /\ replaced' = replaced \cup ({subscribers[IdOf[s]]} \ {NoSub})
          /\ closed' = closed /\ reader[s] = "new"
      BY <2>1 DEF Subscribe
    <3>2. CASE r = s
      <4>1. subscribers[IdOf[s]] # s /\ ~Orphan(r)
        BY <3>1, <3>2 DEF MapConsistent, Mapped
      <4>2. subscribers'[IdOf[s]] = s
        BY <3>1
      <4>3. QED
        BY <2>a, <3>1, <3>2, <4>1, <4>2 DEF Mapped
    <3>3. CASE r # s /\ IdOf[r] = IdOf[s]
      <4>1. subscribers'[IdOf[r]] = s /\ reader'[r] = reader[r]
        BY <3>1, <3>3
      <4>2. Orphan(r)' <=> reader[r] = "reading" /\ r \notin closed
        BY <3>1, <3>3, <4>1 DEF Mapped
      <4>3. r \in replaced' <=> r \in replaced \/ Mapped(r)
        BY <3>1, <3>3 DEF Mapped
      <4>4. Mapped(r) => reader[r] # "new" /\ r \notin closed
        BY DEF MapConsistent, NoSendOnClosed, Mapped
      <4>5. Mapped(r) => reader[r] # "done"
        BY <4>4 DEF EndedHasAll
      <4>6. QED
        BY <2>a, <4>2, <4>3, <4>4, <4>5
    <3>4. CASE r # s /\ IdOf[r] # IdOf[s]
      <4>1. subscribers'[IdOf[r]] = subscribers[IdOf[r]] /\ reader'[r] = reader[r]
        BY <3>1, <3>4
      <4>2. r # subscribers[IdOf[s]]
        BY <3>4 DEF MapConsistent
      <4>3. QED
        BY <2>a, <3>1, <4>1, <4>2 DEF Mapped
    <3>5. QED
      BY <3>2, <3>3, <3>4
  <2>2. ASSUME NEW id \in Ids, Unsubscribe(id)
        PROVE  OrphansWereReplaced'
    <3> SUFFICES ASSUME NEW r \in Subs
                 PROVE  r \in replaced' <=> Orphan(r)'
      BY <2>b
    <3>1. /\ subscribers' = [subscribers EXCEPT ![id] = NoSub]
          /\ closed' = closed \cup {subscribers[id]}
          /\ reader' = reader /\ replaced' = replaced /\ subscribers[id] # NoSub
      BY <2>2 DEF Unsubscribe
    <3>2. CASE r = subscribers[id]
      <4>1. Mapped(r) /\ r \in closed'
        BY <3>1, <3>2 DEF MapConsistent, Mapped
      <4>2. QED
        BY <2>a, <3>1, <4>1
    <3>3. CASE r # subscribers[id]
      <4>1. Mapped(r)' <=> Mapped(r)
        <5>1. CASE IdOf[r] = id
          BY <3>1, <3>3, <5>1 DEF Mapped
        <5>2. CASE IdOf[r] # id
          BY <3>1, <5>2 DEF Mapped
        <5>3. QED
          BY <5>1, <5>2
      <4>2. QED
        BY <2>a, <3>1, <3>3, <4>1
    <3>4. QED
      BY <3>2, <3>3
  <2>3. ASSUME UNCHANGED <<subscribers, closed, reader, replaced>>
        PROVE  OrphansWereReplaced'
    BY <2>3, <2>a, <2>b DEF Mapped
  <2>4. CASE PublishBegin \/ PublishEnd
    BY <2>4, <2>3 DEF PublishBegin, PublishEnd
  <2>5. ASSUME NEW s \in Subs, Offer(s) \/ Receive(s)
        PROVE  OrphansWereReplaced'
    BY <2>5, <2>3 DEF Offer, Receive
  <2>6. ASSUME NEW s \in Subs, ReceiveClosed(s)
        PROVE  OrphansWereReplaced'
    <3>1. /\ reader' = [reader EXCEPT ![s] = "done"] /\ s \in closed
          /\ UNCHANGED <<subscribers, closed, replaced>>
      BY <2>6 DEF ReceiveClosed
    <3>2. ASSUME NEW r \in Subs
          PROVE  r \in replaced' <=> Orphan(r)'
      <4>1. CASE r = s
        BY <2>a, <3>1, <4>1
      <4>2. CASE r # s
        BY <2>a, <3>1, <4>2 DEF Mapped
      <4>3. QED
        BY <4>1, <4>2
    <3>3. QED
      BY <2>b, <3>2
  <2>7. CASE UNCHANGED vars
    BY <2>7, <2>3 DEF vars
  <2>8. QED
    BY <1>2, <2>1, <2>2, <2>4, <2>5, <2>6, <2>7 DEF Next
<1>3. QED
  BY <1>1, <1>2, TypeCorrect, MapIsConsistent, NoSendOnClosedChannel,
     EndedReadersHaveAll, PTL DEF Spec

(* A step that opens no closed channel and adds nothing to what its reader *)
(* has taken and will take, nor to its drop counter.                       *)
ClosingIsFinal ==
    \A s \in closed :
        s \in closed' /\ Seen(s)' = Seen(s) /\ dropped'[s] = dropped[s]

\* With the close everything a subscription will ever be given is settled:
\* what its reader still takes is what its buffer held at that moment, and
\* no change counts as dropped later.
THEOREM ClosedIsSettled == Spec => [][ClosingIsFinal]_vars
<1>1. ASSUME TypeOK, NoSendOnClosed, [Next]_vars
      PROVE  [ClosingIsFinal]_vars
  <2> SUFFICES ASSUME NEW r \in closed, Next
               PROVE  r \in closed' /\ Seen(r)' = Seen(r) /\ dropped'[r] = dropped[r]
    BY <1>1 DEF ClosingIsFinal
  <2>a. /\ r \in Subs /\ dropped \in [Subs -> Nat]
        /\ chan \in [Subs -> Seq(Nat)] /\ received \in [Subs -> Seq(Nat)]
    BY <1>1 DEF TypeOK
  <2>1. ASSUME NEW s \in Subs, Subscribe(s)
        PROVE  r \in closed' /\ Seen(r)' = Seen(r) /\ dropped'[r] = dropped[r]
    BY <2>1 DEF Subscribe, Seen
  <2>2. ASSUME NEW id \in Ids, Unsubscribe(id)
        PROVE  r \in closed' /\ Seen(r)' = Seen(r) /\ dropped'[r] = dropped[r]
    BY <2>2 DEF Unsubscribe, Seen
  <2>3. CASE PublishBegin \/ PublishEnd
    BY <2>3 DEF PublishBegin, PublishEnd, Seen
  <2>4. ASSUME NEW s \in Subs, Offer(s)
        PROVE  r \in closed' /\ Seen(r)' = Seen(r) /\ dropped'[r] = dropped[r]
    <3>1. r # s
      BY <1>1, <2>4 DEF Offer, NoSendOnClosed
    <3>2. chan'[r] = chan[r] /\ dropped'[r] = dropped[r]
      BY <2>4, <2>a, <3>1 DEF Offer
    <3>3. received' = received /\ closed' = closed
      BY <2>4 DEF Offer
    <3>4. QED
      BY <3>2, <3>3 DEF Seen
  <2>5. ASSUME NEW s \in Subs, Receive(s)
        PROVE  r \in closed' /\ Seen(r)' = Seen(r) /\ dropped'[r] = dropped[r]
    <3>1. /\ received' = [received EXCEPT ![s] = Append(@, Head(chan[s]))]
          /\ chan' = [chan EXCEPT ![s] = Tail(@)]
          /\ chan[s] # <<>>
          /\ closed' = closed /\ dropped' = dropped
      BY <2>5 DEF Receive
    <3>2. Seen(r)' = Seen(r)
      <4>1. CASE r = s
        <5>1. received'[r] = Append(received[r], Head(chan[r])) /\ chan'[r] = Tail(chan[r])
          BY <2>a, <3>1, <4>1
        <5>2. received[r] \in Seq(Nat) /\ chan[r] \in Seq(Nat) /\ chan[r] # <<>>
          BY <2>a, <3>1, <4>1
        <5>3. Append(received[r], Head(chan[r])) \o Tail(chan[r]) = received[r] \o chan[r]
          BY <5>2, TakeFirst
        <5>4. QED
          BY <5>1, <5>3 DEF Seen
      <4>2. CASE r # s
        BY <2>a, <3>1, <4>2 DEF Seen
      <4>3. QED
        BY <4>1, <4>2
    <3>3. QED
      BY <3>1, <3>2
  <2>6. ASSUME NEW s \in Subs, ReceiveClosed(s)
        PROVE  r \in closed' /\ Seen(r)' = Seen(r) /\ dropped'[r] = dropped[r]
    BY <2>6 DEF ReceiveClosed, Seen
  <2>7. QED
    BY <2>1, <2>2, <2>3, <2>4, <2>5, <2>6 DEF Next
<1>2. QED
  BY <1>1, TypeCorrect, NoSendOnClosedChannel, PTL DEF Spec
=============================================================================
