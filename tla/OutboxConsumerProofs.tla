------------------------ MODULE OutboxConsumerProofs ------------------------
(* Theorems about OutboxConsumer, for any number of topics, drainers, rows *)
(* and retries and any capacity of the semaphore and the queues: types,    *)
(* drainers, acks and order; then that no row is lost or duplicated, that  *)
(* the counters are right, and that the whole implements OutboxPromise.    *)
EXTENDS OutboxConsumer, FiniteSetTheorems, SequenceTheorems, TLAPS

(* What indexes what: the row in the hands of the receive loop has a       *)
(* topic, a drainer that exists serves one, and one at work has a row.     *)
WellFormed ==
    /\ rpc \in {"acquire", "send"} => received \in Rows /\ topicOf[received] \in Topics
    /\ \A d \in Drainers : dpc[d] \in Live => serves[d] \in Topics
    /\ \A d \in Drainers : dpc[d] \in Busy => hand[d] \in Rows

TypeInv == TypeOK /\ WellFormed

LEMMA TypeInit == Init => TypeInv
<1> USE OutboxAssumption DEF OutboxAssumption, Init
<1>1. ASSUME Init PROVE TypeOK
  <2>1. queue \in [Topics -> Seq(Rows)]
    BY <1>1
  <2>2. dpc \in [Drainers -> {"free", "exited"} \cup Live] /\ fate \in [Rows -> Fates]
    BY <1>1 DEF Live, Fates
  <2>3. received \in 0 .. MaxRows /\ hand \in [Drainers -> 0 .. MaxRows]
        /\ attempt \in [Drainers -> 0 .. MaxRetries]
    BY <1>1
  <2>4. cancelled \in BOOLEAN
    BY <1>1, Zenon
  <2>5. QED
    BY <1>1, <2>1, <2>2, <2>3, <2>4 DEF TypeOK
<1>2. Init => WellFormed
  BY DEF WellFormed, Live, Busy
<1>3. QED
  BY <1>1, <1>2 DEF TypeInv

LEMMA TypeStep == TypeInv /\ [Next]_vars => TypeInv'
<1> SUFFICES ASSUME TypeInv, [Next]_vars
             PROVE  TypeInv'
  OBVIOUS
<1> USE OutboxAssumption DEF OutboxAssumption, TypeInv, TypeOK, WellFormed, Rows, Fates, Live, Busy,
        vars, loopVars, drainerVars, counters
<1>1. CASE HandleMalformed
  BY <1>1 DEF HandleMalformed
<1>2. ASSUME NEW t \in Topics, Handle(t)
      PROVE  TypeInv'
  BY <1>2 DEF Handle
<1>3. ASSUME NEW d \in Drainers, StartDrainer(d)
      PROVE  TypeInv'
  BY <1>3 DEF StartDrainer
<1>4. CASE Enqueue
  BY <1>4 DEF Enqueue
<1>5. CASE DropRow
  BY <1>5 DEF DropRow
<1>6. CASE Stop
  BY <1>6 DEF Stop
<1>7. CASE Cancel
  BY <1>7 DEF Cancel
<1>8. ASSUME NEW d \in Drainers, Take(d)
      PROVE  TypeInv'
  <2>1. queue[serves[d]] \in Seq(Rows) /\ queue[serves[d]] # <<>>
    BY <1>8 DEF Take
  <2>2. Head(queue[serves[d]]) \in Rows /\ Tail(queue[serves[d]]) \in Seq(Rows)
    <3> HIDE DEF Rows
    <3>1. QED
      BY <2>1
  <2>3. QED
    BY <1>8, <2>2 DEF Take
<1>9. ASSUME NEW d \in Drainers, Exit(d)
      PROVE  TypeInv'
  BY <1>9 DEF Exit
<1>10. ASSUME NEW d \in Drainers, DeliverOK(d)
       PROVE  TypeInv'
  BY <1>10 DEF DeliverOK
<1>11. ASSUME NEW d \in Drainers, DeliverRetry(d)
       PROVE  TypeInv'
  BY <1>11 DEF DeliverRetry
<1>12. ASSUME NEW d \in Drainers, DeliverGiveUp(d)
       PROVE  TypeInv'
  BY <1>12 DEF DeliverGiveUp
<1>13. ASSUME NEW d \in Drainers, BackoffElapsed(d)
       PROVE  TypeInv'
  BY <1>13 DEF BackoffElapsed
<1>14. ASSUME NEW d \in Drainers, BackoffCancelled(d)
       PROVE  TypeInv'
  BY <1>14 DEF BackoffCancelled
<1>15. ASSUME NEW d \in Drainers, LockAck(d)
       PROVE  TypeInv'
  BY <1>15 DEF LockAck
<1>16. ASSUME NEW d \in Drainers, Ack(d)
       PROVE  TypeInv'
  <2>1. hand[d] \in Rows
    BY <1>16 DEF Ack
  <2>2. acked' \in SUBSET Rows
    BY <1>16, <2>1 DEF Ack
  <2>3. QED
    BY <1>16, <2>2 DEF Ack
<1>17. CASE UNCHANGED vars
  BY <1>17
<1>18. QED
  BY <1>1, <1>2, <1>3, <1>4, <1>5, <1>6, <1>7, <1>8, <1>9, <1>10, <1>11, <1>12,
     <1>13, <1>14, <1>15, <1>16, <1>17 DEF Next

(* The types, whatever the constants: no counter of rows goes below zero,  *)
(* and no retry exceeds MaxRetries.                                        *)
THEOREM OutboxTypeCorrect == Spec => []TypeOK
<1>1. TypeInv => TypeOK
  BY DEF TypeInv
<1>2. QED
  BY <1>1, TypeInit, TypeStep, PTL DEF Spec

-----------------------------------------------------------------------------
(* DrainersBounded is inductive once it says why a second drainer of a     *)
(* topic cannot start: the sync.Once of every topic served has run, and    *)
(* the receive loop asks for a token only for a topic whose has not.       *)
OnceInv ==
    /\ \A d \in Drainers : dpc[d] # "free" => serves[d] \in started
    /\ rpc = "acquire" => topicOf[received] \notin started

DrainerInv == DrainersBounded /\ OnceInv

LEMMA DrainerInit == Init => DrainerInv
<1> SUFFICES ASSUME Init
             PROVE  DrainerInv
  OBVIOUS
<1>1. LiveDrainers = {}
  BY DEF Init, LiveDrainers, Live, Busy
<1>2. tokens = Cardinality(LiveDrainers) /\ tokens <= MaxDrainers
  BY <1>1, FS_EmptySet, OutboxAssumption DEF Init, OutboxAssumption
<1>3. QED
  BY <1>2 DEF DrainerInv, DrainersBounded, OnceInv, Init

(* A step that neither starts nor ends a drainer leaves the set as it is.  *)
LEMMA SameDrainers ==
  ASSUME TypeInv, DrainerInv, LiveDrainers' = LiveDrainers, UNCHANGED <<tokens, serves, started>>,
         \A d \in Drainers : dpc'[d] # "free" => dpc[d] # "free",
         rpc' = "acquire" => topicOf'[received'] \notin started
  PROVE  DrainerInv'
BY DEF TypeInv, TypeOK, DrainerInv, DrainersBounded, OnceInv

LEMMA DrainerStep ==
  ASSUME TypeInv, DrainerInv, [Next]_vars
  PROVE  DrainerInv'
<1> USE DEF vars, loopVars, drainerVars, counters
<1>t. dpc \in [Drainers -> {"free", "exited"} \cup Live]
      /\ topicOf \in [Rows -> Topics \cup {NoTopic}] /\ tokens \in Int
      /\ received \in 0 .. MaxRows
  BY DEF TypeInv, TypeOK
<1>f. IsFiniteSet(LiveDrainers)
  BY FS_Subset, OutboxAssumption DEF OutboxAssumption, LiveDrainers
<1>1. CASE HandleMalformed
  BY <1>1, SameDrainers DEF HandleMalformed, LiveDrainers
<1>2. ASSUME NEW t \in Topics, Handle(t)
      PROVE  DrainerInv'
  <2>1. received + 1 \in Rows
    BY <1>2, <1>t, OutboxAssumption DEF Handle, OutboxAssumption, Rows
  <2>2. topicOf'[received'] = t
    BY <1>2, <1>t, <2>1 DEF Handle
  <2>3. QED
    BY <1>2, <2>2, SameDrainers DEF Handle, LiveDrainers
<1>3. ASSUME NEW d \in Drainers, StartDrainer(d)
      PROVE  DrainerInv'
  <2> USE <1>3 DEF StartDrainer
  <2>1. d \notin LiveDrainers
    BY DEF LiveDrainers, Live, Busy
  <2>2. LiveDrainers' = LiveDrainers \cup {d}
    BY <1>t DEF LiveDrainers, Live, Busy
  <2>3. Cardinality(LiveDrainers') = Cardinality(LiveDrainers) + 1
    BY <1>f, <2>1, <2>2, FS_AddElement
  <2>4. tokens' = Cardinality(LiveDrainers') /\ tokens' <= MaxDrainers
    BY <2>3, <1>t, OutboxAssumption DEF DrainerInv, DrainersBounded, OutboxAssumption
  <2>5. \A e \in Drainers : dpc'[e] # "free" => e = d \/ (dpc[e] # "free" /\ serves'[e] = serves[e])
    BY <1>t DEF TypeInv, TypeOK
  <2>6. serves'[d] = topicOf[received] /\ topicOf[received] \notin started
    BY DEF TypeInv, TypeOK, DrainerInv, OnceInv
  <2>7. ASSUME NEW e \in Drainers, e # d, dpc'[e] # "free"
        PROVE  serves'[e] # serves'[d]
    <3>1. dpc[e] # "free" /\ serves'[e] = serves[e]
      BY <2>5, <2>7
    <3>2. serves[e] \in started
      BY <3>1 DEF DrainerInv, OnceInv
    <3>3. QED
      BY <2>6, <3>1, <3>2
  <2>8. \A e, g \in Drainers :
            dpc'[e] # "free" /\ dpc'[g] # "free" /\ serves'[e] = serves'[g] => e = g
    BY <2>5, <2>7 DEF DrainerInv, DrainersBounded
  <2>9. OnceInv'
    BY <2>5, <2>6 DEF DrainerInv, OnceInv
  <2>10. QED
    BY <2>4, <2>8, <2>9 DEF DrainerInv, DrainersBounded
<1>4. CASE Enqueue
  BY <1>4, SameDrainers DEF Enqueue, LiveDrainers
<1>5. CASE DropRow
  BY <1>5, SameDrainers DEF DropRow, LiveDrainers
<1>6. CASE Stop
  BY <1>6, SameDrainers DEF Stop, LiveDrainers
<1>7. CASE Cancel
  BY <1>7, SameDrainers DEF Cancel, LiveDrainers, DrainerInv, OnceInv
<1>8. ASSUME NEW d \in Drainers, Take(d)
      PROVE  DrainerInv'
  BY <1>8, <1>t, SameDrainers DEF Take, LiveDrainers, Live, Busy, DrainerInv, OnceInv
<1>9. ASSUME NEW d \in Drainers, Exit(d)
      PROVE  DrainerInv'
  <2> USE <1>9 DEF Exit
  <2>1. d \in LiveDrainers
    BY DEF LiveDrainers, Live
  <2>2. LiveDrainers' = LiveDrainers \ {d}
    BY <1>t DEF LiveDrainers, Live, Busy
  <2>3. Cardinality(LiveDrainers') = Cardinality(LiveDrainers) - 1
    BY <1>f, <2>1, <2>2, FS_RemoveElement
  <2>4. tokens' = Cardinality(LiveDrainers') /\ tokens' <= MaxDrainers
    BY <2>3, <1>t, OutboxAssumption DEF DrainerInv, DrainersBounded, OutboxAssumption
  <2>5. \A e \in Drainers : dpc'[e] # "free" => dpc[e] # "free"
    BY <1>t
  <2>6. QED
    BY <2>4, <2>5 DEF DrainerInv, DrainersBounded, OnceInv
<1>10. ASSUME NEW d \in Drainers, DeliverOK(d)
       PROVE  DrainerInv'
  BY <1>10, <1>t, SameDrainers DEF DeliverOK, LiveDrainers, Live, Busy, DrainerInv, OnceInv
<1>11. ASSUME NEW d \in Drainers, DeliverRetry(d)
       PROVE  DrainerInv'
  BY <1>11, <1>t, SameDrainers DEF DeliverRetry, LiveDrainers, Live, Busy, DrainerInv, OnceInv
<1>12. ASSUME NEW d \in Drainers, DeliverGiveUp(d)
       PROVE  DrainerInv'
  BY <1>12, <1>t, SameDrainers DEF DeliverGiveUp, LiveDrainers, Live, Busy, DrainerInv, OnceInv
<1>13. ASSUME NEW d \in Drainers, BackoffElapsed(d)
       PROVE  DrainerInv'
  BY <1>13, <1>t, SameDrainers DEF BackoffElapsed, LiveDrainers, Live, Busy, DrainerInv, OnceInv
<1>14. ASSUME NEW d \in Drainers, BackoffCancelled(d)
       PROVE  DrainerInv'
  BY <1>14, <1>t, SameDrainers DEF BackoffCancelled, LiveDrainers, Live, Busy, DrainerInv, OnceInv
<1>15. ASSUME NEW d \in Drainers, LockAck(d)
       PROVE  DrainerInv'
  BY <1>15, <1>t, SameDrainers DEF LockAck, LiveDrainers, Live, Busy, DrainerInv, OnceInv
<1>16. ASSUME NEW d \in Drainers, Ack(d)
       PROVE  DrainerInv'
  BY <1>16, <1>t, SameDrainers DEF Ack, LiveDrainers, Live, Busy, DrainerInv, OnceInv
<1>17. CASE UNCHANGED vars
  BY <1>17, SameDrainers DEF LiveDrainers, DrainerInv, OnceInv
<1>18. QED
  BY <1>1, <1>2, <1>3, <1>4, <1>5, <1>6, <1>7, <1>8, <1>9, <1>10, <1>11, <1>12,
     <1>13, <1>14, <1>15, <1>16, <1>17 DEF Next

(* The semaphore bounds the drainers, and no topic ever has two.           *)
THEOREM DrainersAreBounded == Spec => []DrainersBounded
<1>1. DrainerInv => DrainersBounded
  BY DEF DrainerInv
<1>2. QED
  BY <1>1, TypeInit, TypeStep, DrainerInit, DrainerStep, PTL DEF Spec

(* Once there are no more topics than tokens, the first row of a topic     *)
(* does not hold up the receive loop: a token is free when Handle asks for *)
(* one, and so is a goroutine, of which there is no shortage.              *)
AcquireNeverWaits ==
    rpc = "acquire" => tokens < MaxDrainers /\ \E d \in Drainers : dpc[d] = "free"

\* That a new topic waits for a token takes more topics than the semaphore has
\* tokens: with at most MaxDrainers of them the claim that deliveries never
\* block WAL consumption holds of the semaphore, however slow they are.
THEOREM EnoughTokens ==
  ASSUME Cardinality(Topics) <= MaxDrainers
  PROVE  Spec => []AcquireNeverWaits
<1>1. TypeInv /\ DrainerInv => AcquireNeverWaits
  <2> SUFFICES ASSUME TypeInv, DrainerInv, rpc = "acquire"
               PROVE  tokens < MaxDrainers /\ \E d \in Drainers : dpc[d] = "free"
    BY DEF AcquireNeverWaits
  <2> DEFINE Used == {d \in Drainers : dpc[d] # "free"}
             f == [d \in Used |-> serves[d]]
             t == topicOf[received]
  <2>1. /\ t \in Topics /\ t \notin started /\ started \subseteq Topics
        /\ tokens = Cardinality(LiveDrainers)
    BY DEF TypeInv, TypeOK, WellFormed, DrainerInv, OnceInv, DrainersBounded
  <2>2. /\ IsFiniteSet(Topics) /\ IsFiniteSet(Drainers) /\ MaxDrainers \in Nat
        /\ Cardinality(Topics) <= Cardinality(Drainers)
    BY OutboxAssumption DEF OutboxAssumption
  <2>3. f \in Injection(Used, started)
    BY DEF DrainerInv, OnceInv, DrainersBounded, Injection, IsInjective
  <2>4. IsFiniteSet(started) /\ Cardinality(started) < Cardinality(Topics)
    <3>1. IsFiniteSet(started) /\ Cardinality(started) <= Cardinality(Topics)
          /\ (Cardinality(Topics) = Cardinality(started) => Topics = started)
      BY <2>1, <2>2, FS_Subset
    <3>2. Topics # started
      BY <2>1
    <3>3. Cardinality(started) \in Nat /\ Cardinality(Topics) \in Nat
      BY <2>2, <3>1, FS_CardinalityType
    <3>4. QED
      BY <3>1, <3>2, <3>3
  <2>5. IsFiniteSet(Used) /\ Cardinality(Used) <= Cardinality(started)
    <3> HIDE DEF f, Used
    <3>1. QED
      BY <2>3, <2>4, FS_Injection
  <2>6. Cardinality(LiveDrainers) <= Cardinality(Used)
    <3>1. LiveDrainers \in SUBSET Used
      BY DEF LiveDrainers, Live, Busy
    <3> HIDE DEF Used
    <3>2. QED
      BY <2>5, <3>1, FS_Subset
  <2>7. /\ Cardinality(Used) \in Nat /\ Cardinality(started) \in Nat
        /\ Cardinality(Topics) \in Nat /\ Cardinality(Drainers) \in Nat
        /\ Cardinality(LiveDrainers) \in Nat
    <3>1. LiveDrainers \in SUBSET Drainers
      BY DEF LiveDrainers
    <3>2. IsFiniteSet(LiveDrainers)
      BY <2>2, <3>1, FS_Subset
    <3> HIDE DEF Used
    <3>3. QED
      BY <2>2, <2>4, <2>5, <3>2, FS_CardinalityType
  <2>8. tokens < MaxDrainers
    <3> HIDE DEF Used
    <3>1. QED
      BY <2>1, <2>2, <2>4, <2>5, <2>6, <2>7
  <2>9. Used # Drainers
    <3> HIDE DEF Used
    <3>1. Cardinality(Used) < Cardinality(Drainers)
      BY <2>2, <2>4, <2>5, <2>7
    <3>2. QED
      BY <2>7, <3>1
  <2>10. QED
    BY <2>8, <2>9
<1>2. QED
  BY <1>1, TypeInit, TypeStep, DrainerInit, DrainerStep, PTL DEF Spec

-----------------------------------------------------------------------------
(* What a row joining or leaving a queue does to the other rows in it.     *)
LEMMA AppendEntries ==
  ASSUME NEW S, NEW s \in Seq(S), NEW x \in S
  PROVE  /\ DOMAIN Append(s, x) = 1 .. Len(s) + 1
         /\ DOMAIN s = 1 .. Len(s)
         /\ Append(s, x)[Len(s) + 1] = x
         /\ \A i \in DOMAIN s : Append(s, x)[i] = s[i]
OBVIOUS

LEMMA TailEntries ==
  ASSUME NEW S, NEW s \in Seq(S), s # <<>>
  PROVE  /\ Head(s) = s[1] /\ 1 \in DOMAIN s
         /\ \A i \in DOMAIN Tail(s) : i \in Nat /\ i >= 1 /\ i + 1 \in DOMAIN s /\ Tail(s)[i] = s[i + 1]
         /\ \A i \in DOMAIN s : i # 1 => i - 1 \in DOMAIN Tail(s) /\ Tail(s)[i - 1] = s[i]
OBVIOUS

InHandle == rpc \in {"acquire", "send"}
Delivering(d) == dpc[d] \in {"deliver", "backoff"}
Acking(d) == dpc[d] \in {"ack", "exec"}

(* A row the receive loop has not reached, or has in its hands.            *)
LoopRows ==
    /\ \A n \in Rows : n > received => fate[n] = "unseen"
    /\ InHandle => fate[received] = "open"

(* The rows of a queue: of its topic, unsettled, earlier than the one in   *)
(* the hands of the receive loop, in order.                                *)
QueuedRows ==
    /\ \A t \in Topics : \A i \in DOMAIN queue[t] :
          /\ queue[t][i] <= received
          /\ InHandle => queue[t][i] < received
          /\ topicOf[queue[t][i]] = t
          /\ fate[queue[t][i]] = "open"
    /\ \A t \in Topics : \A i, j \in DOMAIN queue[t] : i < j => queue[t][i] < queue[t][j]

(* The row a drainer is delivering: of its topic, unsettled, earlier than  *)
(* those still in its queue and the one in the hands of the receive loop.  *)
HeldRows ==
    \A d \in Drainers : Delivering(d) =>
        /\ hand[d] <= received
        /\ InHandle => hand[d] < received
        /\ topicOf[hand[d]] = serves[d]
        /\ fate[hand[d]] = "open"
        /\ \A i \in DOMAIN queue[serves[d]] : hand[d] < queue[serves[d]][i]

(* The row a drainer is marking, and the rows marked.                      *)
AckedRows ==
    /\ \A d \in Drainers : Acking(d) => fate[hand[d]] = "delivered"
    /\ AckedOnlyIfDelivered

LaneInv == LoopRows /\ QueuedRows /\ HeldRows /\ AckedRows

LEMMA LaneInit == Init => LaneInv
BY DEF Init, LaneInv, LoopRows, QueuedRows, HeldRows, AckedRows, InHandle,
       Delivering, Acking, AckedOnlyIfDelivered

(* Two drainers never have the same unsettled row.                         *)
LEMMA HandsDiffer ==
  ASSUME TypeInv, DrainerInv, LaneInv, NEW d \in Drainers, NEW e \in Drainers,
         Delivering(d), Delivering(e), d # e
  PROVE  hand[d] # hand[e] /\ serves[d] # serves[e]
BY DEF DrainerInv, DrainersBounded, LaneInv, HeldRows, Delivering

(* A row that a drainer settles leaves everything else as it was.          *)
LEMMA SettleKeepsLanes ==
  ASSUME TypeInv, DrainerInv, LaneInv, NEW d \in Drainers, Delivering(d), NEW f \in Fates,
         UNCHANGED <<rpc, received, topicOf, queue, serves, hand, acked>>,
         fate' = [fate EXCEPT ![hand[d]] = f],
         \/ f = "delivered" /\ dpc' = [dpc EXCEPT ![d] = "ack"]
         \/ f # "open" /\ dpc' = [dpc EXCEPT ![d] = "select"]
  PROVE  LaneInv'
<1>t. /\ fate \in [Rows -> Fates] /\ hand[d] \in Rows /\ dpc \in [Drainers -> {"free", "exited"} \cup Live]
      /\ serves[d] \in Topics /\ queue \in [Topics -> Seq(Rows)] /\ received \in 0 .. MaxRows
      /\ acked \in SUBSET Rows /\ hand \in [Drainers -> 0 .. MaxRows]
  BY DEF TypeInv, TypeOK, WellFormed, Delivering, Live, Busy
<1>h. hand[d] <= received /\ fate[hand[d]] = "open" /\ topicOf[hand[d]] = serves[d]
      /\ (InHandle => hand[d] < received)
  BY DEF LaneInv, HeldRows
<1>o. \A n \in Rows : n # hand[d] => fate'[n] = fate[n]
  BY <1>t
<1>n. hand[d] \in Nat /\ received \in Nat
  BY <1>t, OutboxAssumption DEF Rows, OutboxAssumption
<1>1. LoopRows'
  <2>1. \A n \in Rows : n > received => fate'[n] = "unseen"
    BY <1>h, <1>o, <1>n DEF LaneInv, LoopRows, Rows
  <2>2. ASSUME InHandle PROVE fate'[received] = "open"
    <3>1. received \in Rows /\ received # hand[d] /\ fate[received] = "open"
      BY <2>2, <1>h, <1>n DEF TypeInv, WellFormed, InHandle, LaneInv, LoopRows
    <3>2. QED
      BY <3>1, <1>o
  <2>3. QED
    BY <2>1, <2>2 DEF LoopRows, InHandle
<1>2. QueuedRows'
  <2>1. ASSUME NEW t \in Topics, NEW i \in DOMAIN queue[t]
        PROVE  queue[t][i] \in Rows /\ queue[t][i] # hand[d]
    <3>1. queue[t][i] \in Rows
      BY <1>t
    <3>2. CASE t = serves[d]
      BY <3>1, <3>2, <1>n DEF LaneInv, HeldRows, Rows
    <3>3. CASE t # serves[d]
      BY <3>1, <3>3, <1>h DEF LaneInv, QueuedRows
    <3>4. QED
      BY <3>1, <3>2, <3>3
  <2>2. \A t \in Topics : \A i \in DOMAIN queue[t] : fate'[queue[t][i]] = "open"
    BY <2>1, <1>o DEF LaneInv, QueuedRows
  <2>3. QED
    BY <2>2 DEF LaneInv, QueuedRows, InHandle
<1>3. HeldRows'
  <2>1. ASSUME NEW e \in Drainers, Delivering(e)'
        PROVE  e # d /\ Delivering(e) /\ hand[e] # hand[d] /\ hand[e] \in Rows
    <3>1. e # d
      BY <2>1, <1>t DEF Delivering
    <3>2. Delivering(e)
      BY <2>1, <3>1, <1>t DEF Delivering
    <3>3. QED
      BY <3>1, <3>2, HandsDiffer DEF TypeInv, WellFormed, Delivering, Busy
  <2>2. \A e \in Drainers : Delivering(e)' => Delivering(e) /\ fate'[hand[e]] = "open"
    BY <2>1, <1>o DEF LaneInv, HeldRows
  <2>3. QED
    BY <2>2 DEF LaneInv, HeldRows, InHandle
<1>4. AckedRows'
  <2>1. ASSUME NEW e \in Drainers, Acking(e)'
        PROVE  fate'[hand[e]] = "delivered"
    <3>1. CASE e = d
      BY <3>1, <2>1, <1>t DEF Acking
    <3>2. CASE e # d
      <4>1. Acking(e)
        BY <3>2, <2>1, <1>t DEF Acking
      <4>2. hand[e] \in Rows /\ fate[hand[e]] = "delivered"
        BY <4>1 DEF LaneInv, AckedRows, TypeInv, WellFormed, Acking, Busy
      <4>3. QED
        BY <4>2, <1>o, <1>h
    <3>3. QED
      BY <3>1, <3>2
  <2>2. \A n \in acked : fate'[n] = "delivered"
    BY <1>o, <1>h, <1>t DEF LaneInv, AckedRows, AckedOnlyIfDelivered
  <2>3. QED
    BY <2>1, <2>2 DEF AckedRows, AckedOnlyIfDelivered
<1>5. QED
  BY <1>1, <1>2, <1>3, <1>4 DEF LaneInv

(* A step that changes no lane: only the drainers that deliver, and the    *)
(* rows they have, may not change.                                         *)
LEMMA SameLanes ==
  ASSUME TypeInv, LaneInv, UNCHANGED <<received, topicOf, queue, fate, acked>>,
         InHandle' => InHandle,
         \A d \in Drainers : Delivering(d)' =>
             Delivering(d) /\ hand'[d] = hand[d] /\ serves'[d] = serves[d],
         \A d \in Drainers : Acking(d)' => Acking(d) /\ hand'[d] = hand[d]
  PROVE  LaneInv'
<1>1. LoopRows'
  BY DEF LaneInv, LoopRows
<1>2. QueuedRows'
  BY DEF LaneInv, QueuedRows
<1>3. HeldRows'
  BY DEF LaneInv, HeldRows
<1>4. AckedRows'
  BY DEF LaneInv, AckedRows, AckedOnlyIfDelivered
<1>5. QED
  BY <1>1, <1>2, <1>3, <1>4 DEF LaneInv

LEMMA LaneHandle ==
  ASSUME TypeInv, LaneInv, received < MaxRows, received' = received + 1, ~InHandle,
         NEW f \in Fates, f # "unseen",
         fate' = [fate EXCEPT ![received + 1] = f],
         UNCHANGED <<queue, dpc, serves, hand, acked>>,
         \/ f = "open"
         \/ f # "open" /\ ~InHandle',
         \A n \in Rows : n # received + 1 => topicOf'[n] = topicOf[n]
  PROVE  LaneInv'
<1>t. /\ fate \in [Rows -> Fates] /\ queue \in [Topics -> Seq(Rows)] /\ received \in 0 .. MaxRows
      /\ acked \in SUBSET Rows /\ MaxRows \in Nat /\ received \in Nat
  BY OutboxAssumption DEF OutboxAssumption, TypeInv, TypeOK
<1>r. received + 1 \in Rows /\ fate[received + 1] = "unseen"
  BY <1>t DEF LaneInv, LoopRows, Rows
<1>o. \A n \in Rows : n # received + 1 => fate'[n] = fate[n]
  BY <1>t
<1>1. LoopRows'
  BY <1>t, <1>r, <1>o DEF LaneInv, LoopRows, Rows, InHandle
<1>2. QueuedRows'
  <2>1. ASSUME NEW t \in Topics, NEW i \in DOMAIN queue[t]
        PROVE  /\ queue[t][i] \in Rows /\ queue[t][i] < received + 1
               /\ topicOf'[queue[t][i]] = t /\ fate'[queue[t][i]] = "open"
    <3>1. queue[t][i] \in Rows /\ queue[t][i] <= received
      BY <1>t DEF LaneInv, QueuedRows
    <3>2. queue[t][i] < received + 1
      BY <3>1, <1>t DEF Rows
    <3>3. queue[t][i] # received + 1
      BY <3>1, <3>2, <1>t DEF Rows
    <3>4. topicOf'[queue[t][i]] = t /\ fate'[queue[t][i]] = "open"
      BY <3>1, <3>3, <1>o DEF LaneInv, QueuedRows
    <3>5. QED
      BY <3>1, <3>2, <3>4
  <2>2. QED
    BY <2>1, <1>t DEF LaneInv, QueuedRows, Rows
<1>3. HeldRows'
  <2>1. ASSUME NEW d \in Drainers, Delivering(d)'
        PROVE  /\ Delivering(d) /\ hand[d] \in Rows /\ hand[d] < received + 1
               /\ topicOf'[hand[d]] = serves[d] /\ fate'[hand[d]] = "open"
    <3>1. Delivering(d) /\ hand[d] \in Rows /\ hand[d] <= received
      BY <2>1 DEF LaneInv, HeldRows, Delivering, TypeInv, WellFormed, Busy
    <3>2. hand[d] < received + 1
      BY <3>1, <1>t DEF Rows
    <3>3. QED
      BY <3>1, <3>2, <1>o, <1>t DEF LaneInv, HeldRows, Rows
  <2>2. \A d \in Drainers : Delivering(d)' => hand[d] <= received' /\ hand[d] < received'
    BY <2>1, <1>t DEF Rows
  <2>3. \A d \in Drainers : Delivering(d)' =>
            \A i \in DOMAIN queue[serves[d]] : hand[d] < queue[serves[d]][i]
    BY <2>1 DEF LaneInv, HeldRows
  <2>4. QED
    BY <2>1, <2>2, <2>3 DEF HeldRows
<1>4. AckedRows'
  <2>1. ASSUME NEW d \in Drainers, Acking(d)'
        PROVE  fate'[hand[d]] = "delivered"
    <3>1. Acking(d) /\ hand[d] \in Rows /\ fate[hand[d]] = "delivered"
      BY <2>1 DEF LaneInv, AckedRows, Acking, TypeInv, WellFormed, Busy
    <3>2. QED
      BY <3>1, <1>o, <1>r
  <2>2. \A n \in acked : fate'[n] = "delivered"
    BY <1>o, <1>r, <1>t DEF LaneInv, AckedRows, AckedOnlyIfDelivered
  <2>3. QED
    BY <2>1, <2>2 DEF AckedRows, AckedOnlyIfDelivered
<1>5. QED
  BY <1>1, <1>2, <1>3, <1>4 DEF LaneInv

LEMMA LaneEnqueue ==
  ASSUME TypeInv, LaneInv, Enqueue
  PROVE  LaneInv'
<1> DEFINE t0 == topicOf[received]
<1> USE DEF Enqueue, drainerVars, counters
<1>t. /\ queue \in [Topics -> Seq(Rows)] /\ received \in Rows /\ t0 \in Topics
      /\ queue[t0] \in Seq(Rows) /\ received \in Nat /\ InHandle /\ ~InHandle'
  BY OutboxAssumption DEF OutboxAssumption, TypeInv, TypeOK, WellFormed, Rows, InHandle
<1>q. /\ \A t \in Topics : t # t0 => queue'[t] = queue[t]
      /\ queue'[t0] = Append(queue[t0], received)
  BY <1>t
<1>a. /\ DOMAIN queue'[t0] = 1 .. Len(queue[t0]) + 1
      /\ DOMAIN queue[t0] = 1 .. Len(queue[t0])
      /\ queue'[t0][Len(queue[t0]) + 1] = received
      /\ \A i \in DOMAIN queue[t0] : queue'[t0][i] = queue[t0][i]
      /\ Len(queue[t0]) \in Nat
  BY <1>t, <1>q, AppendEntries
<1>d. \A i \in DOMAIN queue'[t0] : i = Len(queue[t0]) + 1 \/ i \in DOMAIN queue[t0]
  BY <1>a
<1>1. LoopRows'
  BY <1>t DEF LaneInv, LoopRows
<1>2. QueuedRows'
  <2>1. ASSUME NEW t \in Topics, NEW i \in DOMAIN queue'[t]
        PROVE  queue'[t][i] <= received /\ topicOf[queue'[t][i]] = t /\ fate[queue'[t][i]] = "open"
    <3>1. CASE t # t0
      BY <3>1, <1>q DEF LaneInv, QueuedRows
    <3>2. CASE t = t0 /\ i = Len(queue[t0]) + 1
      BY <3>2, <1>a, <1>t DEF LaneInv, LoopRows
    <3>3. CASE t = t0 /\ i \in DOMAIN queue[t0]
      BY <3>3, <1>a, <1>t DEF LaneInv, QueuedRows
    <3>4. QED
      BY <3>1, <3>2, <3>3, <1>d
  <2>2. ASSUME NEW t \in Topics, NEW i \in DOMAIN queue'[t], NEW j \in DOMAIN queue'[t], i < j
        PROVE  queue'[t][i] < queue'[t][j]
    <3>1. CASE t # t0
      BY <3>1, <2>2, <1>q DEF LaneInv, QueuedRows
    <3>2. CASE t = t0 /\ j = Len(queue[t0]) + 1
      <4>1. i \in DOMAIN queue[t0]
        BY <3>2, <2>2, <1>a
      <4>2. QED
        BY <4>1, <3>2, <1>a, <1>t DEF LaneInv, QueuedRows
    <3>3. CASE t = t0 /\ j \in DOMAIN queue[t0]
      <4>1. i \in DOMAIN queue[t0]
        BY <3>3, <2>2, <1>a
      <4>2. QED
        BY <4>1, <3>3, <2>2, <1>a, <1>t DEF LaneInv, QueuedRows
    <3>4. QED
      BY <3>1, <3>2, <3>3, <1>d
  <2>3. QED
    BY <2>1, <2>2, <1>t DEF QueuedRows
<1>3. HeldRows'
  <2>1. ASSUME NEW d \in Drainers, Delivering(d)', NEW i \in DOMAIN queue'[serves[d]]
        PROVE  hand[d] < queue'[serves[d]][i]
    <3>1. Delivering(d) /\ hand[d] < received /\ serves[d] \in Topics
      BY <2>1, <1>t DEF LaneInv, HeldRows, Delivering, TypeInv, WellFormed, Live, Busy
    <3>2. CASE serves[d] # t0
      BY <3>1, <3>2, <2>1, <1>q DEF LaneInv, HeldRows
    <3>3. CASE serves[d] = t0 /\ i = Len(queue[t0]) + 1
      BY <3>1, <3>3, <1>a
    <3>4. CASE serves[d] = t0 /\ i \in DOMAIN queue[t0]
      BY <3>1, <3>4, <1>a DEF LaneInv, HeldRows
    <3>5. QED
      BY <3>2, <3>3, <3>4, <2>1, <1>d
  <2>2. QED
    BY <2>1, <1>t DEF LaneInv, HeldRows, Delivering
<1>4. AckedRows'
  BY DEF LaneInv, AckedRows, AckedOnlyIfDelivered, Acking
<1>5. QED
  BY <1>1, <1>2, <1>3, <1>4 DEF LaneInv

LEMMA LaneDrop ==
  ASSUME TypeInv, LaneInv, DropRow
  PROVE  LaneInv'
<1> USE DEF DropRow, drainerVars, counters
<1>t. /\ fate \in [Rows -> Fates] /\ queue \in [Topics -> Seq(Rows)] /\ received \in Rows
      /\ acked \in SUBSET Rows /\ received \in Nat /\ InHandle /\ ~InHandle'
  BY OutboxAssumption DEF OutboxAssumption, TypeInv, TypeOK, WellFormed, Rows, InHandle
<1>o. \A n \in Rows : n # received => fate'[n] = fate[n]
  BY <1>t
<1>1. LoopRows'
  BY <1>t, <1>o DEF LaneInv, LoopRows
<1>2. QueuedRows'
  <2>1. ASSUME NEW t \in Topics, NEW i \in DOMAIN queue[t]
        PROVE  fate'[queue[t][i]] = "open"
    <3>1. queue[t][i] \in Rows /\ queue[t][i] < received
      BY <1>t DEF LaneInv, QueuedRows
    <3>2. queue[t][i] # received
      BY <3>1, <1>t
    <3>3. QED
      BY <3>1, <3>2, <1>o DEF LaneInv, QueuedRows
  <2>2. QED
    BY <2>1, <1>t DEF LaneInv, QueuedRows
<1>3. HeldRows'
  <2>1. ASSUME NEW d \in Drainers, Delivering(d)
        PROVE  fate'[hand[d]] = "open"
    <3>1. hand[d] \in Rows /\ hand[d] < received
      BY <2>1, <1>t DEF LaneInv, HeldRows, Delivering, TypeInv, WellFormed, Busy
    <3>2. hand[d] # received
      BY <3>1, <1>t
    <3>3. QED
      BY <2>1, <3>1, <3>2, <1>o DEF LaneInv, HeldRows
  <2>2. QED
    BY <2>1, <1>t DEF LaneInv, HeldRows, Delivering
<1>4. AckedRows'
  <2>1. ASSUME NEW d \in Drainers, Acking(d)
        PROVE  fate'[hand[d]] = "delivered"
    <3>1. hand[d] \in Rows /\ fate[hand[d]] = "delivered" /\ fate[received] = "open"
      BY <2>1, <1>t DEF LaneInv, LoopRows, AckedRows, Acking, TypeInv, WellFormed, Busy
    <3>2. QED
      BY <3>1, <1>o
  <2>2. \A n \in acked : fate'[n] = "delivered"
    BY <1>o, <1>t DEF LaneInv, LoopRows, AckedRows, AckedOnlyIfDelivered
  <2>3. QED
    BY <2>1, <2>2 DEF AckedRows, AckedOnlyIfDelivered, Acking
<1>5. QED
  BY <1>1, <1>2, <1>3, <1>4 DEF LaneInv

LEMMA LaneTake ==
  ASSUME TypeInv, DrainerInv, LaneInv, NEW d \in Drainers, Take(d)
  PROVE  LaneInv'
<1> DEFINE t0 == serves[d]
<1> USE DEF Take, loopVars, counters
<1>t. /\ queue \in [Topics -> Seq(Rows)] /\ t0 \in Topics /\ queue[t0] \in Seq(Rows)
      /\ queue[t0] # <<>> /\ dpc[d] = "select" /\ hand \in [Drainers -> 0 .. MaxRows]
      /\ dpc \in [Drainers -> {"free", "exited"} \cup Live]
  BY DEF TypeInv, TypeOK, WellFormed, Live
<1>q. /\ \A t \in Topics : t # t0 => queue'[t] = queue[t]
      /\ queue'[t0] = Tail(queue[t0])
  BY <1>t
<1>a. /\ Head(queue[t0]) = queue[t0][1] /\ 1 \in DOMAIN queue[t0]
      /\ \A i \in DOMAIN queue'[t0] :
            i \in Nat /\ i >= 1 /\ i + 1 \in DOMAIN queue[t0] /\ queue'[t0][i] = queue[t0][i + 1]
  BY <1>t, <1>q, TailEntries
<1>h. hand'[d] = queue[t0][1] /\ \A e \in Drainers : e # d => hand'[e] = hand[e]
  BY <1>t, <1>a
<1>s. dpc'[d] = "deliver" /\ \A e \in Drainers : e # d => dpc'[e] = dpc[e]
  BY <1>t
<1>1. LoopRows'
  BY DEF LaneInv, LoopRows, InHandle
<1>2. QueuedRows'
  <2>1. ASSUME NEW t \in Topics, NEW i \in DOMAIN queue'[t]
        PROVE  /\ queue'[t][i] <= received
               /\ InHandle => queue'[t][i] < received
               /\ topicOf[queue'[t][i]] = t
               /\ fate[queue'[t][i]] = "open"
    <3>1. CASE t # t0
      BY <3>1, <1>q DEF LaneInv, QueuedRows
    <3>2. CASE t = t0
      BY <3>2, <1>a, <1>t DEF LaneInv, QueuedRows
    <3>3. QED
      BY <3>1, <3>2
  <2>2. ASSUME NEW t \in Topics, NEW i \in DOMAIN queue'[t], NEW j \in DOMAIN queue'[t], i < j
        PROVE  queue'[t][i] < queue'[t][j]
    <3>1. CASE t # t0
      BY <3>1, <2>2, <1>q DEF LaneInv, QueuedRows
    <3>2. CASE t = t0
      <4>1. i + 1 \in DOMAIN queue[t0] /\ j + 1 \in DOMAIN queue[t0] /\ i + 1 < j + 1
        BY <3>2, <2>2, <1>a
      <4>2. QED
        BY <4>1, <3>2, <1>a, <1>t DEF LaneInv, QueuedRows
    <3>3. QED
      BY <3>1, <3>2
  <2>3. QED
    BY <2>1, <2>2 DEF QueuedRows, InHandle
<1>3. HeldRows'
  <2>1. ASSUME NEW e \in Drainers, Delivering(e)'
        PROVE  /\ hand'[e] <= received
               /\ InHandle => hand'[e] < received
               /\ topicOf[hand'[e]] = serves[e]
               /\ fate[hand'[e]] = "open"
               /\ \A i \in DOMAIN queue'[serves[e]] : hand'[e] < queue'[serves[e]][i]
    <3>1. CASE e = d
      <4>1. ASSUME NEW i \in DOMAIN queue'[t0]
            PROVE  queue[t0][1] < queue'[t0][i]
        <5>1. i + 1 \in DOMAIN queue[t0] /\ 1 < i + 1 /\ queue'[t0][i] = queue[t0][i + 1]
          BY <4>1, <1>a
        <5>2. QED
          BY <5>1, <1>a, <1>t DEF LaneInv, QueuedRows
      <4>2. QED
        BY <3>1, <4>1, <1>h, <1>a, <1>t DEF LaneInv, QueuedRows
    <3>2. CASE e # d
      <4>1. Delivering(e) /\ hand'[e] = hand[e] /\ serves[e] \in Topics
        BY <3>2, <2>1, <1>s, <1>h DEF Delivering, TypeInv, WellFormed, Live, Busy
      <4>2. serves[e] # t0
        BY <3>2, <4>1, <1>t DEF Delivering, DrainerInv, DrainersBounded
      <4>3. queue'[serves[e]] = queue[serves[e]]
        BY <4>1, <4>2, <1>q
      <4>4. QED
        BY <4>1, <4>3 DEF LaneInv, HeldRows
    <3>3. QED
      BY <3>1, <3>2
  <2>2. QED
    BY <2>1 DEF HeldRows, InHandle
<1>4. AckedRows'
  <2>1. \A e \in Drainers : Acking(e)' => Acking(e) /\ hand'[e] = hand[e]
    BY <1>s, <1>h DEF Acking
  <2>2. QED
    BY <2>1 DEF LaneInv, AckedRows, AckedOnlyIfDelivered
<1>5. QED
  BY <1>1, <1>2, <1>3, <1>4 DEF LaneInv

LEMMA LaneAck ==
  ASSUME TypeInv, LaneInv, NEW d \in Drainers, Ack(d)
  PROVE  LaneInv'
<1> USE DEF Ack, loopVars
<1>s. dpc[d] = "exec" /\ dpc'[d] = "select" /\ \A e \in Drainers : e # d => dpc'[e] = dpc[e]
  BY DEF TypeInv, TypeOK
<1>c. \A e \in Drainers : (Delivering(e)' => Delivering(e)) /\ (Acking(e)' => Acking(e))
  BY <1>s DEF Delivering, Acking
<1>1. LoopRows'
  BY DEF LaneInv, LoopRows, InHandle
<1>2. QueuedRows'
  BY DEF LaneInv, QueuedRows, InHandle
<1>3. HeldRows'
  BY <1>c DEF LaneInv, HeldRows, InHandle
<1>4. AckedRows'
  <2>1. fate[hand[d]] = "delivered"
    BY <1>s DEF LaneInv, AckedRows, Acking
  <2>2. \A n \in acked' : n \in acked \/ n = hand[d]
    OBVIOUS
  <2>3. \A n \in acked' : fate'[n] = "delivered"
    BY <2>1, <2>2 DEF LaneInv, AckedRows, AckedOnlyIfDelivered
  <2>4. QED
    BY <1>c, <2>3 DEF LaneInv, AckedRows, AckedOnlyIfDelivered
<1>5. QED
  BY <1>1, <1>2, <1>3, <1>4 DEF LaneInv

LEMMA LaneStep ==
  ASSUME TypeInv, DrainerInv, LaneInv, [Next]_vars
  PROVE  LaneInv'
<1> USE DEF vars, loopVars, drainerVars, counters
<1>t. /\ dpc \in [Drainers -> {"free", "exited"} \cup Live] /\ received \in 0 .. MaxRows
      /\ serves \in [Drainers -> Topics \cup {NoTopic}] /\ MaxRows \in Nat
      /\ topicOf \in [Rows -> Topics \cup {NoTopic}]
  BY OutboxAssumption DEF TypeInv, TypeOK, OutboxAssumption
<1>1. CASE HandleMalformed
  BY <1>1, LaneHandle DEF HandleMalformed, InHandle, Fates
<1>2. ASSUME NEW t \in Topics, Handle(t)
      PROVE  LaneInv'
  BY <1>2, <1>t, LaneHandle DEF Handle, InHandle, Fates
<1>3. ASSUME NEW d \in Drainers, StartDrainer(d)
      PROVE  LaneInv'
  BY <1>3, <1>t, SameLanes DEF StartDrainer, InHandle, Delivering, Acking
<1>4. CASE Enqueue
  BY <1>4, LaneEnqueue
<1>5. CASE DropRow
  BY <1>5, LaneDrop
<1>6. CASE Stop
  BY <1>6, SameLanes DEF Stop, InHandle, Delivering, Acking
<1>7. CASE Cancel
  BY <1>7, SameLanes DEF Cancel, InHandle, Delivering, Acking
<1>8. ASSUME NEW d \in Drainers, Take(d)
      PROVE  LaneInv'
  BY <1>8, LaneTake
<1>9. ASSUME NEW d \in Drainers, Exit(d)
      PROVE  LaneInv'
  BY <1>9, <1>t, SameLanes DEF Exit, InHandle, Delivering, Acking
<1>10. ASSUME NEW d \in Drainers, DeliverOK(d)
       PROVE  LaneInv'
  BY <1>10, SettleKeepsLanes DEF DeliverOK, Delivering, Fates
<1>11. ASSUME NEW d \in Drainers, DeliverRetry(d)
       PROVE  LaneInv'
  BY <1>11, <1>t, SameLanes DEF DeliverRetry, InHandle, Delivering, Acking
<1>12. ASSUME NEW d \in Drainers, DeliverGiveUp(d)
       PROVE  LaneInv'
  BY <1>12, SettleKeepsLanes DEF DeliverGiveUp, Delivering, Fates
<1>13. ASSUME NEW d \in Drainers, BackoffElapsed(d)
       PROVE  LaneInv'
  BY <1>13, <1>t, SameLanes DEF BackoffElapsed, InHandle, Delivering, Acking
<1>14. ASSUME NEW d \in Drainers, BackoffCancelled(d)
       PROVE  LaneInv'
  BY <1>14, SettleKeepsLanes DEF BackoffCancelled, Delivering, Fates
<1>15. ASSUME NEW d \in Drainers, LockAck(d)
       PROVE  LaneInv'
  BY <1>15, <1>t, SameLanes DEF LockAck, InHandle, Delivering, Acking
<1>16. ASSUME NEW d \in Drainers, Ack(d)
       PROVE  LaneInv'
  BY <1>16, LaneAck
<1>17. CASE UNCHANGED vars
  BY <1>17, SameLanes DEF InHandle, Delivering, Acking
<1>18. QED
  BY <1>1, <1>2, <1>3, <1>4, <1>5, <1>6, <1>7, <1>8, <1>9, <1>10, <1>11, <1>12,
     <1>13, <1>14, <1>15, <1>16, <1>17 DEF Next

(* delivered_at is never set for a row whose delivery did not succeed.     *)
THEOREM AckedWereDelivered == Spec => []AckedOnlyIfDelivered
<1>1. LaneInv => AckedOnlyIfDelivered
  BY DEF LaneInv, AckedRows
<1>2. QED
  BY <1>1, TypeInit, TypeStep, DrainerInit, DrainerStep, LaneInit, LaneStep, PTL DEF Spec

-----------------------------------------------------------------------------
(* Order.  An unsettled row is somewhere; with LaneInv, where it is tells  *)
(* which rows of its topic may have been begun before it.                  *)
Queued(n) == \E i \in DOMAIN queue[topicOf[n]] : queue[topicOf[n]][i] = n
Held(n) == \E d \in Drainers : Delivering(d) /\ hand[d] = n

RowsLocated ==
    \A n \in 1 .. received : fate[n] = "open" =>
        topicOf[n] \in Topics /\ (AtReceiveLoop(n) \/ Queued(n) \/ Held(n))

OrderInv == RowsLocated /\ InOrderWithinTopic

LEMMA OrderInit == Init => OrderInv
BY DEF Init, OrderInv, RowsLocated, InOrderWithinTopic, Rows

(* A step that begins no row and opens none keeps the order.               *)
LEMMA OrderKept ==
  ASSUME TypeInv, InOrderWithinTopic, UNCHANGED <<received, topicOf>>,
         \A n \in Rows : fate'[n] = "open" => fate[n] = "open",
         \A n \in Rows : Begun(n)' => Begun(n)
  PROVE  InOrderWithinTopic'
<1>1. \A n \in 1 .. received : n \in Rows
  BY OutboxAssumption DEF OutboxAssumption, TypeInv, TypeOK, Rows
<1>2. QED
  BY <1>1 DEF InOrderWithinTopic

(* A step that moves no unsettled row, in no lane, keeps rows located.     *)
LEMMA LocationKept ==
  ASSUME TypeInv, RowsLocated, UNCHANGED <<received, topicOf, queue>>,
         InHandle => InHandle',
         \A n \in Rows : fate'[n] = "open" => fate[n] = "open",
         \A d \in Drainers : Delivering(d) /\ fate'[hand[d]] = "open" =>
             Delivering(d)' /\ hand'[d] = hand[d]
  PROVE  RowsLocated'
<1> SUFFICES ASSUME NEW n \in 1 .. received, fate'[n] = "open"
             PROVE  topicOf[n] \in Topics /\ (AtReceiveLoop(n)' \/ Queued(n)' \/ Held(n)')
  BY DEF RowsLocated
<1>1. n \in Rows
  BY OutboxAssumption DEF OutboxAssumption, TypeInv, TypeOK, Rows
<1>2. topicOf[n] \in Topics /\ (AtReceiveLoop(n) \/ Queued(n) \/ Held(n))
  BY <1>1 DEF RowsLocated
<1>3. AtReceiveLoop(n) => AtReceiveLoop(n)'
  BY DEF AtReceiveLoop, InHandle
<1>4. Queued(n) => Queued(n)'
  BY DEF Queued
<1>5. Held(n) => Held(n)'
  BY DEF Held
<1>6. QED
  BY <1>2, <1>3, <1>4, <1>5

LEMMA OrderHandle ==
  ASSUME TypeInv, LaneInv, OrderInv, received < MaxRows, received' = received + 1, ~InHandle,
         NEW f \in Fates, f \in {"open", "malformed"},
         fate' = [fate EXCEPT ![received + 1] = f],
         UNCHANGED <<queue, dpc, hand>>,
         f = "open" => InHandle' /\ topicOf'[received + 1] \in Topics,
         \A n \in Rows : n # received + 1 => topicOf'[n] = topicOf[n]
  PROVE  OrderInv'
<1>t. /\ fate \in [Rows -> Fates] /\ received \in Nat /\ MaxRows \in Nat
  BY OutboxAssumption DEF OutboxAssumption, TypeInv, TypeOK
<1>r. /\ received + 1 \in Rows /\ received + 1 \notin 1 .. received
      /\ \A n \in 1 .. received : n \in Rows /\ n # received + 1
      /\ \A n \in 1 .. received' : n \in 1 .. received \/ n = received + 1
  BY <1>t DEF Rows
<1>o. \A n \in 1 .. received : fate'[n] = fate[n] /\ topicOf'[n] = topicOf[n]
  BY <1>t, <1>r
<1>1. RowsLocated'
  <2> SUFFICES ASSUME NEW n \in 1 .. received', fate'[n] = "open"
               PROVE  topicOf'[n] \in Topics /\ (AtReceiveLoop(n)' \/ Queued(n)' \/ Held(n)')
    BY DEF RowsLocated
  <2>1. CASE n = received + 1
    <3>1. f = "open"
      BY <2>1, <1>t, <1>r
    <3>2. QED
      BY <2>1, <3>1 DEF AtReceiveLoop, InHandle
  <2>2. CASE n \in 1 .. received
    <3>1. topicOf[n] \in Topics /\ (Queued(n) \/ Held(n))
      BY <2>2, <1>o DEF OrderInv, RowsLocated, AtReceiveLoop, InHandle
    <3>2. topicOf'[n] = topicOf[n]
      BY <2>2, <1>o
    <3>3. Queued(n) => Queued(n)'
      BY <3>2 DEF Queued
    <3>4. Held(n) => Held(n)'
      BY DEF Held, Delivering
    <3>5. QED
      BY <3>1, <3>2, <3>3, <3>4
  <2>3. QED
    BY <2>1, <2>2, <1>r
<1>2. InOrderWithinTopic'
  <2>k. PICK k \in Rows : k = received + 1
    BY <1>r
  <2>1. ~Begun(k)'
    <3>1. fate'[k] \notin {"delivered", "failed", "abandoned"}
      BY <1>t, <2>k
    <3>2. ASSUME NEW d \in Drainers, dpc[d] \in Busy
          PROVE  hand[d] # k
      <4>1. hand[d] \in Rows /\ fate[hand[d]] # "unseen"
        BY <3>2 DEF TypeInv, WellFormed, LaneInv, HeldRows, AckedRows, Busy, Delivering, Acking
      <4>2. fate[k] = "unseen"
        BY <2>k, <1>t DEF LaneInv, LoopRows
      <4>3. QED
        BY <4>1, <4>2
    <3>3. QED
      BY <3>1, <3>2 DEF Begun
  <2>2. \A n \in 1 .. received : Begun(n)' => Begun(n)
    BY <1>o DEF Begun
  <2>3. ASSUME NEW m \in 1 .. received', NEW n \in 1 .. received', m < n,
               topicOf'[m] = topicOf'[n], Begun(n)'
        PROVE  fate'[m] # "open"
    <3>1. n \in 1 .. received
      BY <2>1, <2>3, <2>k, <1>r
    <3>2. m \in 1 .. received
      BY <2>3, <3>1, <1>t
    <3>3. Begun(n) /\ topicOf[m] = topicOf[n] /\ fate'[m] = fate[m]
      BY <2>2, <2>3, <3>1, <3>2, <1>o
    <3>4. QED
      BY <2>3, <3>1, <3>2, <3>3 DEF OrderInv, InOrderWithinTopic
  <2>4. QED
    BY <2>3 DEF InOrderWithinTopic
<1>3. QED
  BY <1>1, <1>2 DEF OrderInv

LEMMA OrderEnqueue ==
  ASSUME TypeInv, OrderInv, Enqueue
  PROVE  OrderInv'
<1> DEFINE t0 == topicOf[received]
<1> USE DEF Enqueue, drainerVars, counters
<1>t. /\ queue \in [Topics -> Seq(Rows)] /\ received \in Rows /\ t0 \in Topics
      /\ queue[t0] \in Seq(Rows)
  BY DEF TypeInv, TypeOK, WellFormed
<1>q. /\ \A t \in Topics : t # t0 => queue'[t] = queue[t]
      /\ queue'[t0] = Append(queue[t0], received)
  BY <1>t
<1>a. /\ Len(queue[t0]) + 1 \in DOMAIN queue'[t0]
      /\ queue'[t0][Len(queue[t0]) + 1] = received
      /\ \A i \in DOMAIN queue[t0] : i \in DOMAIN queue'[t0] /\ queue'[t0][i] = queue[t0][i]
  BY <1>t, <1>q, AppendEntries
<1>1. RowsLocated'
  <2> SUFFICES ASSUME NEW n \in 1 .. received, fate[n] = "open"
               PROVE  topicOf[n] \in Topics /\ (Queued(n)' \/ Held(n)')
    BY DEF RowsLocated
  <2>1. topicOf[n] \in Topics /\ (AtReceiveLoop(n) \/ Queued(n) \/ Held(n))
    BY DEF OrderInv, RowsLocated
  <2>2. AtReceiveLoop(n) => Queued(n)'
    BY <1>a DEF AtReceiveLoop, Queued
  <2>3. Queued(n) => Queued(n)'
    <3>1. CASE topicOf[n] = t0
      BY <3>1, <1>a DEF Queued
    <3>2. CASE topicOf[n] # t0
      BY <3>2, <2>1, <1>q DEF Queued
    <3>3. QED
      BY <3>1, <3>2
  <2>4. Held(n) => Held(n)'
    BY DEF Held, Delivering
  <2>5. QED
    BY <2>1, <2>2, <2>3, <2>4
<1>2. InOrderWithinTopic'
  BY OrderKept DEF OrderInv, Begun
<1>3. QED
  BY <1>1, <1>2 DEF OrderInv

(* The heart of the matter: the row taken is the earliest of its topic.    *)
LEMMA OrderTake ==
  ASSUME TypeInv, DrainerInv, LaneInv, OrderInv, NEW d \in Drainers, Take(d)
  PROVE  OrderInv'
<1> DEFINE t0 == serves[d]
<1> USE DEF Take, loopVars, counters
<1>t. /\ queue \in [Topics -> Seq(Rows)] /\ t0 \in Topics /\ queue[t0] \in Seq(Rows)
      /\ queue[t0] # <<>> /\ dpc[d] = "select" /\ hand \in [Drainers -> 0 .. MaxRows]
      /\ dpc \in [Drainers -> {"free", "exited"} \cup Live]
      /\ \A n \in 1 .. received : n \in Rows
  BY OutboxAssumption DEF OutboxAssumption, TypeInv, TypeOK, WellFormed, Live, Rows
<1>q. /\ \A t \in Topics : t # t0 => queue'[t] = queue[t]
      /\ queue'[t0] = Tail(queue[t0])
  BY <1>t
<1>a. /\ Head(queue[t0]) = queue[t0][1] /\ 1 \in DOMAIN queue[t0]
      /\ \A i \in DOMAIN queue[t0] : i # 1 =>
            i - 1 \in DOMAIN queue'[t0] /\ queue'[t0][i - 1] = queue[t0][i]
  BY <1>t, <1>q, TailEntries
<1>h. hand'[d] = queue[t0][1] /\ \A e \in Drainers : e # d => hand'[e] = hand[e]
  BY <1>t, <1>a
<1>s. dpc'[d] = "deliver" /\ \A e \in Drainers : e # d => dpc'[e] = dpc[e]
  BY <1>t
<1>1. RowsLocated'
  <2> SUFFICES ASSUME NEW n \in 1 .. received, fate[n] = "open"
               PROVE  topicOf[n] \in Topics /\ (AtReceiveLoop(n)' \/ Queued(n)' \/ Held(n)')
    BY DEF RowsLocated
  <2>1. topicOf[n] \in Topics /\ (AtReceiveLoop(n) \/ Queued(n) \/ Held(n))
    BY DEF OrderInv, RowsLocated
  <2>2. AtReceiveLoop(n) => AtReceiveLoop(n)'
    BY DEF AtReceiveLoop
  <2>3. ASSUME Queued(n)
        PROVE  Queued(n)' \/ Held(n)'
    <3>1. PICK i \in DOMAIN queue[topicOf[n]] : queue[topicOf[n]][i] = n
      BY <2>3 DEF Queued
    <3>2. CASE topicOf[n] # t0
      BY <3>1, <3>2, <2>1, <1>q DEF Queued
    <3>3. CASE topicOf[n] = t0 /\ i = 1
      <4>1. Delivering(d)' /\ hand'[d] = n
        BY <3>1, <3>3, <1>h, <1>s DEF Delivering
      <4>2. QED
        BY <4>1 DEF Held
    <3>4. CASE topicOf[n] = t0 /\ i # 1
      <4>1. topicOf'[n] = t0
        BY <3>4
      <4>2. i - 1 \in DOMAIN queue'[t0] /\ queue'[t0][i - 1] = n
        BY <3>1, <3>4, <1>a
      <4>3. QED
        BY <4>1, <4>2 DEF Queued
    <3>5. QED
      BY <3>2, <3>3, <3>4
  <2>4. Held(n) => Held(n)'
    <3>1. \A e \in Drainers : Delivering(e) => e # d
      BY <1>t DEF Delivering
    <3>2. \A e \in Drainers : Delivering(e) => Delivering(e)' /\ hand'[e] = hand[e]
      BY <3>1, <1>s, <1>h DEF Delivering
    <3>3. QED
      BY <3>2 DEF Held
  <2>5. QED
    BY <2>1, <2>2, <2>3, <2>4
<1>2. InOrderWithinTopic'
  <2>1. ASSUME NEW n \in Rows, Begun(n)'
        PROVE  Begun(n) \/ n = queue[t0][1]
    BY <2>1, <1>h, <1>s DEF Begun
  <2>2. ASSUME NEW m \in 1 .. received, NEW n \in 1 .. received, m < n,
               topicOf[m] = topicOf[n], n = queue[t0][1], fate[m] = "open"
        PROVE  FALSE
    <3>1. topicOf[m] = t0
      BY <2>2, <1>t, <1>a DEF LaneInv, QueuedRows
    <3>2. ~AtReceiveLoop(m)
      BY <2>2, <1>t, <1>a DEF LaneInv, QueuedRows, AtReceiveLoop, InHandle
    <3>3. ~Queued(m)
      <4>1. SUFFICES ASSUME NEW i \in DOMAIN queue[t0], queue[t0][i] = m
                     PROVE  FALSE
        BY <3>1 DEF Queued
      <4>2. i # 1
        BY <4>1, <2>2
      <4>3. 1 < i
        BY <4>2, <1>t
      <4>4. queue[t0][1] < queue[t0][i]
        BY <4>3, <1>t, <1>a DEF LaneInv, QueuedRows
      <4>5. QED
        BY <4>1, <4>4, <2>2
    <3>4. ~Held(m)
      <4>1. SUFFICES ASSUME NEW e \in Drainers, Delivering(e), hand[e] = m
                     PROVE  FALSE
        BY DEF Held
      <4>2. serves[e] = t0
        BY <4>1, <3>1 DEF LaneInv, HeldRows
      <4>3. e = d
        BY <4>1, <4>2, <1>t DEF Delivering, DrainerInv, DrainersBounded
      <4>4. QED
        BY <4>1, <4>3, <1>t DEF Delivering
    <3>5. QED
      BY <2>2, <3>2, <3>3, <3>4 DEF OrderInv, RowsLocated
  <2>3. QED
    BY <2>1, <2>2, <1>t DEF OrderInv, InOrderWithinTopic
<1>3. QED
  BY <1>1, <1>2 DEF OrderInv

(* Any other step begins no row, opens none and moves none.                *)
LEMMA OrderOther ==
  ASSUME TypeInv, OrderInv, UNCHANGED <<received, topicOf, queue>>,
         InHandle => InHandle',
         \A n \in Rows : fate'[n] = "open" => fate[n] = "open",
         \A d \in Drainers : Delivering(d) /\ fate'[hand[d]] = "open" =>
             Delivering(d)' /\ hand'[d] = hand[d],
         \A n \in Rows : Begun(n)' => Begun(n)
  PROVE  OrderInv'
BY LocationKept, OrderKept DEF OrderInv

LEMMA OrderSettle ==
  ASSUME TypeInv, OrderInv, NEW d \in Drainers, Delivering(d), NEW f \in Fates, f # "open",
         UNCHANGED <<rpc, received, topicOf, queue, hand>>,
         fate' = [fate EXCEPT ![hand[d]] = f],
         \E s \in {"ack", "select"} : dpc' = [dpc EXCEPT ![d] = s]
  PROVE  OrderInv'
<1>t. /\ fate \in [Rows -> Fates] /\ hand[d] \in Rows
      /\ dpc \in [Drainers -> {"free", "exited"} \cup Live] /\ dpc[d] \in Busy
  BY DEF TypeInv, TypeOK, WellFormed, Delivering, Busy
<1>1. \A n \in Rows : n # hand[d] => fate'[n] = fate[n]
  BY <1>t
<1>2. fate'[hand[d]] = f
  BY <1>t
<1>3. \A e \in Drainers : e # d => dpc'[e] = dpc[e]
  BY <1>t
<1>4. \A n \in Rows : fate'[n] = "open" => fate[n] = "open"
  BY <1>1, <1>2
<1>5. \A e \in Drainers : Delivering(e) /\ fate'[hand[e]] = "open" => Delivering(e)'
  BY <1>2, <1>3 DEF Delivering
<1>6. ASSUME NEW n \in Rows, Begun(n)'
      PROVE  Begun(n)
  <2>1. CASE n = hand[d]
    BY <2>1, <1>t DEF Begun
  <2>2. CASE n # hand[d]
    BY <2>2, <1>6, <1>1, <1>3 DEF Begun
  <2>3. QED
    BY <2>1, <2>2
<1>7. QED
  BY <1>4, <1>5, <1>6, OrderOther DEF InHandle

LEMMA OrderStep ==
  ASSUME TypeInv, DrainerInv, LaneInv, OrderInv, [Next]_vars
  PROVE  OrderInv'
<1> USE DEF vars, loopVars, drainerVars, counters
<1>t. /\ dpc \in [Drainers -> {"free", "exited"} \cup Live] /\ received \in 0 .. MaxRows
      /\ topicOf \in [Rows -> Topics \cup {NoTopic}] /\ MaxRows \in Nat
      /\ fate \in [Rows -> Fates] /\ hand \in [Drainers -> 0 .. MaxRows]
  BY OutboxAssumption DEF TypeInv, TypeOK, OutboxAssumption
<1>1. CASE HandleMalformed
  BY <1>1, OrderHandle DEF HandleMalformed, InHandle, Fates
<1>2. ASSUME NEW t \in Topics, Handle(t)
      PROVE  OrderInv'
  <2>1. received + 1 \in Rows
    BY <1>2, <1>t DEF Handle, Rows
  <2>2. topicOf'[received + 1] = t /\ InHandle' /\ ~InHandle
    BY <1>2, <1>t, <2>1 DEF Handle, InHandle
  <2>3. \A n \in Rows : n # received + 1 => topicOf'[n] = topicOf[n]
    BY <1>2, <1>t DEF Handle
  <2>4. QED
    BY <1>2, <2>2, <2>3, OrderHandle DEF Handle, Fates
<1>3. ASSUME NEW d \in Drainers, StartDrainer(d)
      PROVE  OrderInv'
  BY <1>3, <1>t, OrderOther DEF StartDrainer, InHandle, Delivering, Begun, Busy
<1>4. CASE Enqueue
  BY <1>4, OrderEnqueue
<1>5. CASE DropRow
  <2> USE <1>5 DEF DropRow
  <2>1. received \in Rows
    BY DEF TypeInv, WellFormed
  <2>2. fate'[received] = "dropped" /\ \A n \in Rows : n # received => fate'[n] = fate[n]
    BY <2>1, <1>t
  <2>3. \A n \in Rows : fate'[n] = "open" => fate[n] = "open"
    BY <2>2
  <2>4. \A n \in Rows : Begun(n)' => Begun(n)
    BY <2>2 DEF Begun
  <2>5. ASSUME NEW n \in 1 .. received, fate'[n] = "open"
        PROVE  topicOf[n] \in Topics /\ (Queued(n)' \/ Held(n)')
    <3>1. n # received /\ fate[n] = "open"
      BY <2>5, <2>2, <1>t DEF Rows
    <3>2. topicOf[n] \in Topics /\ (Queued(n) \/ Held(n))
      BY <3>1 DEF OrderInv, RowsLocated, AtReceiveLoop
    <3>3. (Queued(n) => Queued(n)') /\ (Held(n) => Held(n)')
      BY DEF Queued, Held, Delivering
    <3>4. QED
      BY <3>2, <3>3
  <2>6. RowsLocated'
    BY <2>5 DEF RowsLocated
  <2>7. InOrderWithinTopic'
    BY <2>3, <2>4, OrderKept DEF OrderInv
  <2>8. QED
    BY <2>6, <2>7 DEF OrderInv
<1>6. CASE Stop
  BY <1>6, OrderOther DEF Stop, InHandle, Delivering, Begun
<1>7. CASE Cancel
  BY <1>7, OrderOther DEF Cancel, InHandle, Delivering, Begun
<1>8. ASSUME NEW d \in Drainers, Take(d)
      PROVE  OrderInv'
  BY <1>8, OrderTake
<1>9. ASSUME NEW d \in Drainers, Exit(d)
      PROVE  OrderInv'
  BY <1>9, <1>t, OrderOther DEF Exit, InHandle, Delivering, Begun, Busy
<1>10. ASSUME NEW d \in Drainers, DeliverOK(d)
       PROVE  OrderInv'
  BY <1>10, OrderSettle DEF DeliverOK, Delivering, Fates
<1>11. ASSUME NEW d \in Drainers, DeliverRetry(d)
       PROVE  OrderInv'
  BY <1>11, <1>t, OrderOther DEF DeliverRetry, InHandle, Delivering, Begun, Busy
<1>12. ASSUME NEW d \in Drainers, DeliverGiveUp(d)
       PROVE  OrderInv'
  BY <1>12, OrderSettle DEF DeliverGiveUp, Delivering, Fates
<1>13. ASSUME NEW d \in Drainers, BackoffElapsed(d)
       PROVE  OrderInv'
  BY <1>13, <1>t, OrderOther DEF BackoffElapsed, InHandle, Delivering, Begun, Busy
<1>14. ASSUME NEW d \in Drainers, BackoffCancelled(d)
       PROVE  OrderInv'
  BY <1>14, OrderSettle DEF BackoffCancelled, Delivering, Fates
<1>15. ASSUME NEW d \in Drainers, LockAck(d)
       PROVE  OrderInv'
  BY <1>15, <1>t, OrderOther DEF LockAck, InHandle, Delivering, Begun, Busy
<1>16. ASSUME NEW d \in Drainers, Ack(d)
       PROVE  OrderInv'
  BY <1>16, <1>t, OrderOther DEF Ack, InHandle, Delivering, Begun, Busy
<1>17. CASE UNCHANGED vars
  BY <1>17, OrderOther DEF InHandle, Delivering, Begun
<1>18. QED
  BY <1>1, <1>2, <1>3, <1>4, <1>5, <1>6, <1>7, <1>8, <1>9, <1>10, <1>11, <1>12,
     <1>13, <1>14, <1>15, <1>16, <1>17 DEF Next

(* Within a topic rows are delivered strictly in order, through retries,   *)
(* drops, cancellation and any interleaving of the drainers.               *)
THEOREM DeliveredInOrder == Spec => []InOrderWithinTopic
<1>1. OrderInv => InOrderWithinTopic
  BY DEF OrderInv
<1>2. QED
  BY <1>1, TypeInit, TypeStep, DrainerInit, DrainerStep, LaneInit, LaneStep,
     OrderInit, OrderStep, PTL DEF Spec

-----------------------------------------------------------------------------
(* The mutex: whoever executes the UPDATE holds it.                        *)
LockHeld == \A d \in Drainers : dpc[d] = "exec" => ackLock = {d}

LEMMA LockStep ==
  ASSUME TypeInv, LockHeld, [Next]_vars
  PROVE  LockHeld'
<1> USE DEF vars, loopVars, drainerVars, counters, LockHeld
<1>t. dpc \in [Drainers -> {"free", "exited"} \cup Live]
  BY DEF TypeInv, TypeOK
<1>1. ASSUME NEW d \in Drainers, LockAck(d)
      PROVE  LockHeld'
  BY <1>1, <1>t DEF LockAck
<1>2. ASSUME NEW d \in Drainers, Ack(d)
      PROVE  LockHeld'
  BY <1>2, <1>t DEF Ack
<1>3. ASSUME NEW d \in Drainers,
             \/ StartDrainer(d) \/ Take(d) \/ Exit(d) \/ DeliverOK(d) \/ DeliverRetry(d)
             \/ DeliverGiveUp(d) \/ BackoffElapsed(d) \/ BackoffCancelled(d)
      PROVE  LockHeld'
  BY <1>3, <1>t DEF StartDrainer, Take, Exit, DeliverOK, DeliverRetry, DeliverGiveUp,
     BackoffElapsed, BackoffCancelled
<1>4. ASSUME HandleMalformed \/ (\E t \in Topics : Handle(t)) \/ Enqueue \/ DropRow
             \/ Stop \/ Cancel \/ UNCHANGED vars
      PROVE  LockHeld'
  BY <1>4 DEF HandleMalformed, Handle, Enqueue, DropRow, Stop, Cancel
<1>5. QED
  BY <1>1, <1>2, <1>3, <1>4 DEF Next

(* The connection of the acks is never used by two drainers at once.       *)
THEOREM AcksAreSerial == Spec => []OneAckAtATime
<1>1. Init => LockHeld
  BY DEF Init, LockHeld
<1>2. LockHeld => OneAckAtATime
  BY DEF LockHeld, OneAckAtATime
<1>3. QED
  BY <1>1, <1>2, TypeInit, TypeStep, LockStep, PTL DEF Spec

-----------------------------------------------------------------------------
(* Only an unsettled row changes its fate: the one that arrives, the one   *)
(* in the hands of the receive loop, the one a drainer delivers.           *)
LEMMA FateStep ==
  ASSUME TypeInv, LaneInv, Next, NEW n \in Rows, fate[n] \notin {"unseen", "open"}
  PROVE  fate'[n] = fate[n]
<1> USE DEF loopVars, drainerVars, counters
<1>t. fate \in [Rows -> Fates] /\ received \in 0 .. MaxRows
  BY DEF TypeInv, TypeOK
<1>1. ASSUME HandleMalformed \/ \E t \in Topics : Handle(t)
      PROVE  fate'[n] = fate[n]
  <2>1. received < MaxRows
    BY <1>1 DEF HandleMalformed, Handle
  <2>2. received + 1 \in Rows /\ received + 1 > received
    BY <2>1, <1>t, OutboxAssumption DEF Rows, OutboxAssumption
  <2>3. fate[received + 1] = "unseen"
    BY <2>2 DEF LaneInv, LoopRows
  <2>4. QED
    BY <1>1, <1>t, <2>3 DEF HandleMalformed, Handle
<1>2. CASE DropRow
  BY <1>2, <1>t DEF DropRow, LaneInv, LoopRows, InHandle
<1>3. ASSUME NEW d \in Drainers, DeliverOK(d) \/ DeliverGiveUp(d) \/ BackoffCancelled(d)
      PROVE  fate'[n] = fate[n]
  <2>1. fate[hand[d]] = "open"
    BY <1>3 DEF DeliverOK, DeliverGiveUp, BackoffCancelled, Delivering, LaneInv, HeldRows
  <2>2. QED
    BY <1>3, <1>t, <2>1 DEF DeliverOK, DeliverGiveUp, BackoffCancelled
<1>4. ASSUME NEW d \in Drainers,
             \/ StartDrainer(d) \/ Take(d) \/ Exit(d) \/ DeliverRetry(d)
             \/ BackoffElapsed(d) \/ LockAck(d) \/ Ack(d)
      PROVE  fate'[n] = fate[n]
  BY <1>4 DEF StartDrainer, Take, Exit, DeliverRetry, BackoffElapsed, LockAck, Ack
<1>5. ASSUME Enqueue \/ Stop \/ Cancel
      PROVE  fate'[n] = fate[n]
  BY <1>5 DEF Enqueue, Stop, Cancel
<1>6. QED
  BY <1>1, <1>2, <1>3, <1>4, <1>5 DEF Next

(* What became of a row never changes.                                     *)
THEOREM FatesAreFinal == Spec => FateIsFinal
<1>1. TypeInv /\ LaneInv /\ [Next]_vars =>
          [\A n \in Rows : fate[n] \notin {"unseen", "open"} => fate'[n] = fate[n]]_vars
  BY FateStep
<1>2. QED
  BY <1>1, TypeInit, TypeStep, DrainerInit, DrainerStep, LaneInit, LaneStep,
     PTL DEF Spec, FateIsFinal

-----------------------------------------------------------------------------
(* The capacity of a channel.                                              *)
CapInv == \A t \in Topics : Len(queue[t]) <= QueueCap

LEMMA CapStep ==
  ASSUME TypeInv, CapInv, [Next]_vars
  PROVE  CapInv'
<1>q. \A t \in Topics : queue[t] \in Seq(Rows)
  BY DEF TypeInv, TypeOK
<1>1. CASE Enqueue
  <2>1. received \in Rows /\ topicOf[received] \in Topics /\ QueueCap \in Nat
    BY <1>1, OutboxAssumption DEF Enqueue, TypeInv, WellFormed, OutboxAssumption
  <2>2. \A t \in Topics : queue'[t] = IF t = topicOf[received] THEN Append(queue[t], received)
                                                               ELSE queue[t]
    BY <1>1 DEF Enqueue, TypeInv, TypeOK
  <2>3. QED
    BY <1>1, <1>q, <2>1, <2>2 DEF Enqueue, CapInv
<1>2. ASSUME NEW d \in Drainers, Take(d)
      PROVE  CapInv'
  <2>1. serves[d] \in Topics /\ QueueCap \in Nat
    BY <1>2, OutboxAssumption DEF Take, TypeInv, WellFormed, OutboxAssumption, Live
  <2>2. \A t \in Topics : queue'[t] = IF t = serves[d] THEN Tail(queue[t]) ELSE queue[t]
    BY <1>2, <2>1 DEF Take, TypeInv, TypeOK
  <2>3. QED
    BY <1>2, <1>q, <2>1, <2>2 DEF Take, CapInv
<1>3. CASE UNCHANGED queue
  BY <1>3 DEF CapInv
<1>4. [Next]_vars => Enqueue \/ (\E d \in Drainers : Take(d)) \/ UNCHANGED queue
  BY DEF Next, vars, HandleMalformed, Handle, StartDrainer, DropRow, Stop, Cancel, Exit,
         DeliverOK, DeliverRetry, DeliverGiveUp, BackoffElapsed, BackoffCancelled, LockAck, Ack
<1>5. QED
  BY <1>1, <1>2, <1>3, <1>4

(* Where a row is: what LaneInv and OrderInv say, counted.                 *)
LEMMA SlotOf ==
  ASSUME TypeInv, LaneInv, CapInv, NEW n \in Rows, NEW i \in DOMAIN queue[topicOf[n]],
         topicOf[n] \in Topics, queue[topicOf[n]][i] = n
  PROVE  QueueSlots(n) = {<<topicOf[n], i>>}
<1>1. \A t \in Topics : DOMAIN queue[t] = 1 .. Len(queue[t]) /\ Len(queue[t]) \in Nat
  BY DEF TypeInv, TypeOK
<1>2. i \in 1 .. QueueCap
  BY <1>1, OutboxAssumption DEF CapInv, OutboxAssumption
<1>3. ASSUME NEW t \in Topics, NEW j \in DOMAIN queue[t], queue[t][j] = n
      PROVE  t = topicOf[n] /\ j = i
  <2>1. t = topicOf[n]
    BY <1>3 DEF LaneInv, QueuedRows
  <2>2. ~(i < j) /\ ~(j < i)
    BY <1>3, <2>1 DEF LaneInv, QueuedRows, Rows
  <2>3. QED
    BY <1>1, <2>1, <2>2
<1>4. <<topicOf[n], i>> \in QueueSlots(n)
  BY <1>2 DEF QueueSlots
<1>5. \A q \in QueueSlots(n) : q = <<topicOf[n], i>>
  BY <1>3 DEF QueueSlots
<1>6. QED
  BY <1>4, <1>5

LEMMA OnePlace ==
  ASSUME TypeInv, DrainerInv, LaneInv, OrderInv, CapInv
  PROVE  EveryRowInOnePlace
<1>t. received \in 0 .. MaxRows /\ MaxRows \in Nat
  BY OutboxAssumption DEF OutboxAssumption, TypeInv, TypeOK
<1> SUFFICES ASSUME NEW n \in 1 .. received
             PROVE  /\ (IF AtReceiveLoop(n) THEN 1 ELSE 0)
                          + Cardinality(QueueSlots(n)) + Cardinality(Holders(n))
                       = IF fate[n] = "open" THEN 1 ELSE 0
                    /\ \A q \in QueueSlots(n) : q[1] = topicOf[n]
                    /\ \A d \in Holders(n) : serves[d] = topicOf[n]
  BY DEF EveryRowInOnePlace
<1>r. n \in Rows
  BY <1>t DEF Rows
<1>0. Cardinality({}) = 0 /\ \A x : Cardinality({x}) = 1
  BY FS_EmptySet, FS_Singleton
<1>1. \A q \in QueueSlots(n) : /\ q[1] = topicOf[n] /\ q[1] \in Topics /\ fate[n] = "open"
                               /\ q[2] \in DOMAIN queue[q[1]] /\ queue[q[1]][q[2]] = n
                               /\ ~AtReceiveLoop(n)
  BY <1>r DEF QueueSlots, LaneInv, QueuedRows, AtReceiveLoop, InHandle, Rows
<1>2. \A d \in Holders(n) : /\ serves[d] = topicOf[n] /\ fate[n] = "open"
                            /\ ~AtReceiveLoop(n)
                            /\ \A i \in DOMAIN queue[topicOf[n]] : queue[topicOf[n]][i] # n
  BY <1>r DEF Holders, LaneInv, HeldRows, Delivering, AtReceiveLoop, InHandle, Rows
<1>3. \A d, e \in Holders(n) : d = e
  BY HandsDiffer DEF Holders, Delivering
<1>4. CASE fate[n] # "open"
  <2>1. QueueSlots(n) = {} /\ Holders(n) = {} /\ ~AtReceiveLoop(n)
    BY <1>1, <1>2, <1>4 DEF AtReceiveLoop, LaneInv, LoopRows, InHandle
  <2>2. QED
    BY <1>0, <1>4, <2>1
<1>5. CASE fate[n] = "open" /\ AtReceiveLoop(n)
  <2>1. QueueSlots(n) = {} /\ Holders(n) = {}
    BY <1>1, <1>2, <1>5
  <2>2. QED
    BY <1>0, <1>5, <2>1
<1>6. CASE fate[n] = "open" /\ Queued(n)
  <2>1. topicOf[n] \in Topics
    BY <1>6 DEF OrderInv, RowsLocated
  <2>2. PICK i \in DOMAIN queue[topicOf[n]] : queue[topicOf[n]][i] = n
    BY <1>6 DEF Queued
  <2>3. QueueSlots(n) = {<<topicOf[n], i>>}
    BY <1>r, <2>1, <2>2, SlotOf
  <2>4. Holders(n) = {}
    BY <1>2, <2>2
  <2>5. <<topicOf[n], i>> \in QueueSlots(n)
    BY <2>3
  <2>6. ~AtReceiveLoop(n)
    BY <1>1, <2>5
  <2>7. Cardinality(QueueSlots(n)) = 1 /\ Cardinality(Holders(n)) = 0
    BY <1>0, <2>3, <2>4
  <2>8. \A q \in QueueSlots(n) : q[1] = topicOf[n]
    BY <2>3
  <2>9. QED
    BY <1>6, <2>4, <2>6, <2>7, <2>8
<1>7. CASE fate[n] = "open" /\ Held(n)
  <2>1. PICK d \in Drainers : d \in Holders(n)
    BY <1>7 DEF Held, Holders, Delivering
  <2>2. Holders(n) = {d}
    BY <1>3, <2>1
  <2>3. ASSUME NEW q \in QueueSlots(n)
        PROVE  FALSE
    <3>1. q[1] = topicOf[n] /\ q[2] \in DOMAIN queue[q[1]] /\ queue[q[1]][q[2]] = n
      BY <1>1
    <3>2. q[2] \in DOMAIN queue[topicOf[n]] /\ queue[topicOf[n]][q[2]] = n
      BY <3>1
    <3>3. QED
      BY <1>2, <2>1, <3>2
  <2>4. ~AtReceiveLoop(n) /\ QueueSlots(n) = {}
    BY <1>2, <2>1, <2>3
  <2>5. QED
    BY <1>0, <1>1, <1>2, <1>7, <2>2, <2>4
<1>8. QED
  BY <1>4, <1>5, <1>6, <1>7 DEF OrderInv, RowsLocated

\* No row is lost or duplicated between Handle and the end of its delivery:
\* an open one is in the hands of the receive loop, in one slot of its topic's
\* queue or with one drainer, for any topics, drainers and cancellations.
THEOREM RowsInOnePlace == Spec => []EveryRowInOnePlace
<1>1. Init => CapInv
  BY OutboxAssumption DEF Init, CapInv, OutboxAssumption
<1>2. QED
  BY <1>1, CapStep, OnePlace, TypeInit, TypeStep, DrainerInit, DrainerStep, LaneInit, LaneStep,
     OrderInit, OrderStep, PTL DEF Spec

-----------------------------------------------------------------------------
(* Counting: how many have one of some values changes with one of them.    *)
Count(S, f, V) == Cardinality({e \in S : f[e] \in V})

Changes(f, g, S, x, v) ==
    /\ IsFiniteSet(S) /\ x \in S
    /\ g[x] = v /\ \A e \in S : e # x => g[e] = f[e]

LEMMA OneChanges ==
  ASSUME NEW S, NEW f, NEW g, NEW x, NEW v, Changes(f, g, S, x, v), NEW V
  PROVE  /\ Count(S, f, V) \in Nat
         /\ Count(S, g, V) = Count(S, f, V) + (IF v \in V THEN 1 ELSE 0)
                                            - (IF f[x] \in V THEN 1 ELSE 0)
<1> DEFINE before == {e \in S : f[e] \in V}
           after == {e \in S : g[e] \in V}
<1> USE DEF Changes
<1>1. IsFiniteSet(before) /\ Cardinality(before) \in Nat
  BY FS_Subset, FS_CardinalityType
<1>2. Count(S, f, V) = Cardinality(before) /\ Count(S, g, V) = Cardinality(after)
  BY DEF Count
<1>3. CASE v \in V /\ f[x] \notin V
  <2>1. after = before \cup {x} /\ x \notin before
    BY <1>3
  <2>2. Cardinality(after) = Cardinality(before) + 1
    BY <1>1, <2>1, FS_AddElement
  <2>3. QED
    BY <1>1, <1>2, <1>3, <2>2
<1>4. CASE v \notin V /\ f[x] \in V
  <2>1. after = before \ {x} /\ x \in before
    BY <1>4
  <2>2. Cardinality(after) = Cardinality(before) - 1
    BY <1>1, <2>1, FS_RemoveElement
  <2>3. QED
    BY <1>1, <1>2, <1>4, <2>2
<1>5. CASE v \in V /\ f[x] \in V
  <2>1. after = before
    BY <1>5
  <2> HIDE DEF before, after
  <2>2. QED
    BY <1>1, <1>2, <1>5, <2>1
<1>6. CASE v \notin V /\ f[x] \notin V
  <2>1. after = before
    BY <1>6
  <2> HIDE DEF before, after
  <2>2. QED
    BY <1>1, <1>2, <1>6, <2>1
<1>7. QED
  BY <1>3, <1>4, <1>5, <1>6

(* One drainer goes on to place p; one row gets fate f.                    *)
Moves(d, p) == Changes(dpc, dpc', Drainers, d, p)
Settles(n, f) == Changes(fate, fate', Rows, n, f)

LEMMA OneStep ==
  ASSUME TypeInv
  PROVE  /\ \A d \in Drainers : \A p : dpc' = [dpc EXCEPT ![d] = p] => Moves(d, p)
         /\ \A n \in Rows : \A f : fate' = [fate EXCEPT ![n] = f] => Settles(n, f)
<1>1. IsFiniteSet(Drainers) /\ IsFiniteSet(Rows)
  BY FS_Interval, OutboxAssumption DEF OutboxAssumption, Rows
<1>2. QED
  BY <1>1 DEF TypeInv, TypeOK, Moves, Settles, Changes

LEMMA DrainerMoves ==
  ASSUME NEW d, NEW p, Moves(d, p), NEW P
  PROVE  /\ Count(Drainers, dpc, P) \in Nat
         /\ Count(Drainers, dpc', P) = Count(Drainers, dpc, P)
                + (IF p \in P THEN 1 ELSE 0) - (IF dpc[d] \in P THEN 1 ELSE 0)
BY OneChanges DEF Moves

LEMMA RowSettles ==
  ASSUME NEW n, NEW f, Settles(n, f), NEW P
  PROVE  /\ Count(Rows, fate, P) \in Nat
         /\ Count(Rows, fate', P) = Count(Rows, fate, P)
                + (IF f \in P THEN 1 ELSE 0) - (IF fate[n] \in P THEN 1 ELSE 0)
BY OneChanges DEF Settles

(* What is counted: the places in ack, and the fates delivered and failed. *)
InAck == {"ack", "exec"}
Delivered == {"delivered"}
Failed == {"failed"}

CountInv ==
    /\ inflight = Count(Drainers, dpc, Busy)
    /\ delivered + Count(Drainers, dpc, InAck) = Count(Rows, fate, Delivered)
    /\ failed = Count(Rows, fate, Failed)

LEMMA CountInit == Init => CountInv
<1> SUFFICES ASSUME Init PROVE CountInv
  OBVIOUS
<1>1. Cardinality({}) = 0
  BY FS_EmptySet
<1>2. \A P : "free" \notin P => {d \in Drainers : dpc[d] \in P} = {}
  BY DEF Init
<1>3. Count(Drainers, dpc, Busy) = 0 /\ Count(Drainers, dpc, InAck) = 0
  BY <1>1, <1>2 DEF Count, Busy, InAck
<1>4. \A P : "unseen" \notin P => {n \in Rows : fate[n] \in P} = {}
  BY DEF Init
<1>5. Count(Rows, fate, Delivered) = 0 /\ Count(Rows, fate, Failed) = 0
  BY <1>1, <1>4 DEF Count, Delivered, Failed
<1>6. QED
  BY <1>3, <1>5 DEF Init, CountInv

(* A step of a drainer that settles no row and ends no delivery.           *)
LEMMA CountMove ==
  ASSUME TypeInv, CountInv, NEW d \in Drainers, NEW p, Moves(d, p),
         p \in Busy <=> dpc[d] \in Busy, p \in InAck <=> dpc[d] \in InAck,
         UNCHANGED <<fate, counters>>
  PROVE  CountInv'
<1>1. Count(Drainers, dpc, Busy) \in Nat /\ Count(Drainers, dpc', Busy) = Count(Drainers, dpc, Busy)
  BY DrainerMoves
<1>2. /\ Count(Drainers, dpc, InAck) \in Nat
      /\ Count(Drainers, dpc', InAck) = Count(Drainers, dpc, InAck)
  BY DrainerMoves
<1>3. \A P : Count(Rows, fate', P) = Count(Rows, fate, P)
  BY DEF Count
<1>4. QED
  BY <1>1, <1>2, <1>3 DEF CountInv, counters

(* A step of the receive loop, which settles no row by a delivery.         *)
LEMMA CountRow ==
  ASSUME TypeInv, CountInv, NEW n \in Rows, NEW f, Settles(n, f),
         fate[n] \notin Delivered \cup Failed, f \notin Delivered \cup Failed,
         UNCHANGED <<dpc, counters>>
  PROVE  CountInv'
<1>1. /\ Count(Rows, fate', Delivered) = Count(Rows, fate, Delivered)
      /\ Count(Rows, fate', Failed) = Count(Rows, fate, Failed)
  BY RowSettles
<1>2. \A P : Count(Drainers, dpc', P) = Count(Drainers, dpc, P)
  BY DEF Count
<1>3. QED
  BY <1>1, <1>2 DEF CountInv, counters

LEMMA CountStep ==
  ASSUME TypeInv, LaneInv, CountInv, [Next]_vars
  PROVE  CountInv'
<1> USE DEF loopVars, drainerVars, counters
<1>t. /\ inflight \in Int /\ delivered \in Nat /\ failed \in Nat
      /\ received \in 0 .. MaxRows /\ MaxRows \in Nat
  BY OutboxAssumption DEF OutboxAssumption, TypeInv, TypeOK
<1>u. ASSUME NEW n \in Rows, n > received
      PROVE  fate[n] = "unseen"
  BY <1>u DEF LaneInv, LoopRows
<1>h. ASSUME NEW d \in Drainers, dpc[d] \in {"deliver", "backoff"}
      PROVE  hand[d] \in Rows /\ fate[hand[d]] = "open"
  BY <1>h DEF LaneInv, HeldRows, Delivering, TypeInv, WellFormed, Busy
<1>b. "select" \notin Busy /\ "free" \notin Busy /\ "exited" \notin Busy
      /\ {"deliver", "backoff", "ack", "exec"} \subseteq Busy
      /\ "select" \notin InAck /\ "deliver" \notin InAck /\ "backoff" \notin InAck
      /\ "free" \notin InAck /\ "exited" \notin InAck /\ "ack" \in InAck /\ "exec" \in InAck
      /\ "delivered" \in Delivered /\ (\A f : f # "delivered" => f \notin Delivered)
      /\ "failed" \in Failed /\ (\A f : f # "failed" => f \notin Failed)
  BY DEF Busy, InAck, Delivered, Failed
<1>1. CASE HandleMalformed
  <2>1. received + 1 \in Rows
    BY <1>1, <1>t DEF HandleMalformed, Rows
  <2>2. fate[received + 1] = "unseen"
    BY <1>t, <1>u, <2>1
  <2>3. Settles(received + 1, "malformed") /\ UNCHANGED <<dpc, counters>>
    BY <1>1, <2>1, OneStep DEF HandleMalformed
  <2>4. QED
    BY <1>b, <2>1, <2>2, <2>3, CountRow
<1>2. ASSUME NEW t \in Topics, Handle(t)
      PROVE  CountInv'
  <2>1. received + 1 \in Rows
    BY <1>2, <1>t DEF Handle, Rows
  <2>2. fate[received + 1] = "unseen"
    BY <1>t, <1>u, <2>1
  <2>3. Settles(received + 1, "open") /\ UNCHANGED <<dpc, counters>>
    BY <1>2, <2>1, OneStep DEF Handle
  <2>4. QED
    BY <1>b, <2>1, <2>2, <2>3, CountRow
<1>3. ASSUME NEW d \in Drainers, StartDrainer(d)
      PROVE  CountInv'
  BY <1>3, <1>b, CountMove, OneStep DEF StartDrainer
<1>4. CASE DropRow
  <2>1. received \in Rows /\ fate[received] = "open"
    BY <1>4 DEF DropRow, TypeInv, WellFormed, LaneInv, LoopRows, InHandle
  <2>2. Settles(received, "dropped") /\ UNCHANGED <<dpc, counters>>
    BY <1>4, <2>1, OneStep DEF DropRow
  <2>3. QED
    BY <1>b, <2>1, <2>2, CountRow
<1>5. CASE Enqueue \/ Stop \/ Cancel \/ UNCHANGED vars
  <2>1. UNCHANGED <<dpc, fate, counters>>
    BY <1>5 DEF Enqueue, Stop, Cancel, vars
  <2>2. QED
    BY <2>1 DEF CountInv, Count, RowsWith
<1>6. ASSUME NEW d \in Drainers, Take(d)
      PROVE  CountInv'
  <2>1. Moves(d, "deliver") /\ dpc[d] = "select" /\ inflight' = inflight + 1
        /\ UNCHANGED <<fate, delivered, failed>>
    BY <1>6, OneStep DEF Take
  <2>2. Count(Drainers, dpc, Busy) \in Nat /\ Count(Drainers, dpc', Busy) = Count(Drainers, dpc, Busy) + 1
    BY <1>b, <2>1, DrainerMoves
  <2>3. Count(Drainers, dpc, InAck) \in Nat /\ Count(Drainers, dpc', InAck) = Count(Drainers, dpc, InAck)
    BY <1>b, <2>1, DrainerMoves
  <2>4. \A P : Count(Rows, fate', P) = Count(Rows, fate, P)
    BY <2>1 DEF Count
  <2>5. QED
    BY <2>1, <2>2, <2>3, <2>4 DEF CountInv
<1>7. ASSUME NEW d \in Drainers, Exit(d)
      PROVE  CountInv'
  BY <1>7, <1>b, CountMove, OneStep DEF Exit
<1>8. ASSUME NEW d \in Drainers, DeliverOK(d)
      PROVE  CountInv'
  <2>1. /\ Moves(d, "ack") /\ dpc[d] = "deliver"
        /\ Settles(hand[d], "delivered") /\ UNCHANGED counters
    BY <1>8, <1>h, OneStep DEF DeliverOK
  <2>2. hand[d] \in Rows /\ fate[hand[d]] = "open"
    BY <1>h, <2>1
  <2>3. Count(Drainers, dpc, Busy) \in Nat /\ Count(Drainers, dpc', Busy) = Count(Drainers, dpc, Busy)
    BY <1>b, <2>1, DrainerMoves
  <2>4. /\ Count(Drainers, dpc, InAck) \in Nat
        /\ Count(Drainers, dpc', InAck) = Count(Drainers, dpc, InAck) + 1
    BY <1>b, <2>1, DrainerMoves
  <2>5. Count(Rows, fate, Delivered) \in Nat /\ Count(Rows, fate', Delivered) = Count(Rows, fate, Delivered) + 1
    BY <1>b, <2>1, <2>2, RowSettles
  <2>6. Count(Rows, fate, Failed) \in Nat /\ Count(Rows, fate', Failed) = Count(Rows, fate, Failed)
    BY <1>b, <2>1, <2>2, RowSettles
  <2>7. QED
    BY <1>t, <2>1, <2>3, <2>4, <2>5, <2>6 DEF CountInv
<1>9. ASSUME NEW d \in Drainers, DeliverGiveUp(d) \/ BackoffCancelled(d)
      PROVE  CountInv'
  <2>1. PICK f \in {"failed", "abandoned"} :
            /\ Moves(d, "select") /\ dpc[d] \in {"deliver", "backoff"}
            /\ Settles(hand[d], f)
            /\ failed' = IF f = "failed" THEN failed + 1 ELSE failed
            /\ inflight' = inflight - 1 /\ delivered' = delivered
    BY <1>9, <1>h, OneStep DEF DeliverGiveUp, BackoffCancelled
  <2>2. hand[d] \in Rows /\ fate[hand[d]] = "open"
    BY <1>h, <2>1
  <2>3. Count(Drainers, dpc, Busy) \in Nat /\ Count(Drainers, dpc', Busy) = Count(Drainers, dpc, Busy) - 1
    BY <1>b, <2>1, DrainerMoves
  <2>4. Count(Drainers, dpc, InAck) \in Nat /\ Count(Drainers, dpc', InAck) = Count(Drainers, dpc, InAck)
    BY <1>b, <2>1, DrainerMoves
  <2>5. Count(Rows, fate, Delivered) \in Nat /\ Count(Rows, fate', Delivered) = Count(Rows, fate, Delivered)
    BY <1>b, <2>1, <2>2, RowSettles
  <2>6. /\ Count(Rows, fate, Failed) \in Nat
        /\ Count(Rows, fate', Failed) = Count(Rows, fate, Failed) + (IF f = "failed" THEN 1 ELSE 0)
    BY <1>b, <2>1, <2>2, RowSettles
  <2>7. QED
    BY <1>t, <2>1, <2>3, <2>4, <2>5, <2>6 DEF CountInv
<1>10. ASSUME NEW d \in Drainers, DeliverRetry(d) \/ BackoffElapsed(d) \/ LockAck(d)
       PROVE  CountInv'
  <2>1. CASE DeliverRetry(d)
    BY <1>b, <2>1, CountMove, OneStep DEF DeliverRetry
  <2>2. CASE BackoffElapsed(d)
    BY <1>b, <2>2, CountMove, OneStep DEF BackoffElapsed
  <2>3. CASE LockAck(d)
    BY <1>b, <2>3, CountMove, OneStep DEF LockAck
  <2>4. QED
    BY <1>10, <2>1, <2>2, <2>3
<1>11. ASSUME NEW d \in Drainers, Ack(d)
       PROVE  CountInv'
  <2>1. /\ Moves(d, "select") /\ dpc[d] = "exec"
        /\ inflight' = inflight - 1 /\ delivered' = delivered + 1 /\ UNCHANGED <<fate, failed>>
    BY <1>11, OneStep DEF Ack
  <2>2. Count(Drainers, dpc, Busy) \in Nat /\ Count(Drainers, dpc', Busy) = Count(Drainers, dpc, Busy) - 1
    BY <1>b, <2>1, DrainerMoves
  <2>3. /\ Count(Drainers, dpc, InAck) \in Nat
        /\ Count(Drainers, dpc', InAck) = Count(Drainers, dpc, InAck) - 1
    BY <1>b, <2>1, DrainerMoves
  <2>4. \A P : Count(Rows, fate', P) = Count(Rows, fate, P)
    BY <2>1 DEF Count
  <2>5. QED
    BY <1>t, <2>1, <2>2, <2>3, <2>4 DEF CountInv
<1>12. QED
  BY <1>1, <1>2, <1>3, <1>4, <1>5, <1>6, <1>7, <1>8, <1>9, <1>10, <1>11 DEF Next

\* What Stats returns is right whichever way the deliveries end: inflight is
\* the number of rows in deliverWithRetry, and a row is counted as delivered or
\* as failed once.
THEOREM CountersAreRight == Spec => []CountersAgree
<1>1. ASSUME CountInv
      PROVE  CountersAgree
  <2>1. /\ RowsWith("delivered") = {n \in Rows : fate[n] \in Delivered}
        /\ RowsWith("failed") = {n \in Rows : fate[n] \in Failed}
    BY DEF RowsWith, Delivered, Failed
  <2>2. {d \in Drainers : dpc[d] \in {"ack", "exec"}} = {d \in Drainers : dpc[d] \in InAck}
    BY DEF InAck
  <2>3. QED
    BY <1>1, <2>1, <2>2, Zenon DEF CountInv, CountersAgree, Count
<1>2. QED
  BY <1>1, CountInit, CountStep, TypeInit, TypeStep, DrainerInit, DrainerStep, LaneInit,
     LaneStep, PTL DEF Spec

-----------------------------------------------------------------------------
(* The refinement.  What a lane is made of, at its ends.                   *)
LEMMA LaneEnds ==
  ASSUME NEW a \in Seq(Rows), NEW b \in Seq(Rows), NEW x \in Rows
  PROVE  LET s == (a \o b) \o <<x>>
         IN  /\ s = Append((a \o b) \o <<>>, x)
             /\ s = (a \o Append(b, x)) \o <<>>
             /\ Len(s) = Len(a) + Len(b) + 1 /\ s[Len(s)] = x
             /\ SubSeq(s, 1, Len(s) - 1) = (a \o b) \o <<>>
<1> DEFINE c == a \o b
<1>1. c \in Seq(Rows) /\ Len(c) = Len(a) + Len(b)
  OBVIOUS
<1>2. c \o <<>> = c /\ c \o <<x>> = Append(c, x)
  BY <1>1, ConcatEmptySeq, AppendIsConcat
<1>3. a \o Append(b, x) = Append(c, x)
  <2>1. Append(b, x) = b \o <<x>> /\ <<x>> \in Seq(Rows)
    BY AppendIsConcat
  <2>2. QED
    BY <1>2, <2>1, ConcatAssociative
<1>4. Append(c, x) \o <<>> = Append(c, x)
  BY <1>1, ConcatEmptySeq
<1>5. /\ Len(Append(c, x)) = Len(c) + 1 /\ Append(c, x)[Len(c) + 1] = x
      /\ SubSeq(Append(c, x), 1, Len(c)) = c
  BY <1>1
<1>6. QED
  BY <1>1, <1>2, <1>3, <1>4, <1>5

LEMMA LaneHeads ==
  ASSUME NEW b \in Seq(Rows), NEW c \in Seq(Rows), NEW x \in Rows
  PROVE  /\ Head((<<x>> \o b) \o c) = x
         /\ Tail((<<x>> \o b) \o c) = (<<>> \o b) \o c
         /\ (<<x>> \o b) \o c # <<>>
         /\ b # <<>> => (<<Head(b)>> \o Tail(b)) \o c = (<<>> \o b) \o c
<1>1. <<>> \o b = b
  BY ConcatEmptySeq
<1>2. (<<x>> \o b) \o c = <<x>> \o (b \o c)
  <2>1. <<x>> \in Seq(Rows)
    OBVIOUS
  <2>2. QED
    BY <2>1, ConcatAssociative
<1>3. b \o c \in Seq(Rows)
  OBVIOUS
<1>4. \A s \in Seq(Rows) : /\ Head(<<x>> \o s) = x /\ Tail(<<x>> \o s) = s /\ <<x>> \o s # <<>>
  OBVIOUS
<1>5. b # <<>> => <<Head(b)>> \o Tail(b) = b
  OBVIOUS
<1>6. QED
  BY <1>1, <1>2, <1>3, <1>4, <1>5

(* The drainer's part of a lane, before and after a step.                  *)
LEMMA DrainerRow ==
  ASSUME NEW t, NEW d \in Drainers,
         \A e \in Drainers : Delivering(e) /\ serves[e] = t <=> e = d
  PROVE  RowOfDrainer(t) = <<hand[d]>>
<1>1. {e \in Drainers : dpc[e] \in {"deliver", "backoff"} /\ serves[e] = t} = {d}
  BY DEF Delivering
<1>2. (CHOOSE e \in {d} : TRUE) = d
  OBVIOUS
<1>3. QED
  BY <1>1, <1>2, Zenon DEF RowOfDrainer

LEMMA DrainerRowNext ==
  ASSUME NEW t, NEW d \in Drainers,
         \A e \in Drainers : Delivering(e)' /\ serves'[e] = t <=> e = d
  PROVE  RowOfDrainer(t)' = <<hand'[d]>>
<1>1. {e \in Drainers : dpc'[e] \in {"deliver", "backoff"} /\ serves'[e] = t} = {d}
  BY DEF Delivering
<1>2. (CHOOSE e \in {d} : TRUE) = d
  OBVIOUS
<1>3. QED
  BY <1>1, <1>2, Zenon DEF RowOfDrainer

LEMMA NoDrainerRow ==
  ASSUME NEW t
  PROVE  /\ (\A e \in Drainers : ~(Delivering(e) /\ serves[e] = t)) => RowOfDrainer(t) = <<>>
         /\ (\A e \in Drainers : ~(Delivering(e)' /\ serves'[e] = t)) => RowOfDrainer(t)' = <<>>
BY DEF RowOfDrainer, Delivering

LEMMA SameDrainerRow ==
  ASSUME NEW t,
         \A e \in Drainers : Delivering(e) /\ serves[e] = t <=> Delivering(e)' /\ serves'[e] = t,
         \A e \in Drainers : Delivering(e) /\ serves[e] = t => hand'[e] = hand[e]
  PROVE  RowOfDrainer(t)' = RowOfDrainer(t)
<1> DEFINE working == {e \in Drainers : dpc[e] \in {"deliver", "backoff"} /\ serves[e] = t}
           workingNext == {e \in Drainers : dpc'[e] \in {"deliver", "backoff"} /\ serves'[e] = t}
<1>1. workingNext = working
  BY DEF Delivering
<1>2. working # {} => (CHOOSE e \in working : TRUE) \in working
  OBVIOUS
<1>3. \A e \in working : hand'[e] = hand[e]
  BY DEF Delivering
<1>4. /\ RowOfDrainer(t) = IF working = {} THEN <<>> ELSE <<hand[CHOOSE e \in working : TRUE]>>
      /\ RowOfDrainer(t)' = IF workingNext = {} THEN <<>>
                            ELSE <<hand'[CHOOSE e \in workingNext : TRUE]>>
  BY DEF RowOfDrainer
<1> HIDE DEF working, workingNext
<1>5. QED
  BY <1>1, <1>2, <1>3, <1>4

LEMMA LaneTypes ==
  ASSUME TypeInv
  PROVE  \A t \in Topics : /\ RowOfDrainer(t) \in Seq(Rows)
                           /\ queue[t] \in Seq(Rows)
                           /\ RowOfLoop(t) \in Seq(Rows)
<1> SUFFICES ASSUME NEW t \in Topics
             PROVE  /\ RowOfDrainer(t) \in Seq(Rows)
                    /\ queue[t] \in Seq(Rows)
                    /\ RowOfLoop(t) \in Seq(Rows)
  OBVIOUS
<1>1. RowOfDrainer(t) \in Seq(Rows)
  <2> DEFINE working == {e \in Drainers : dpc[e] \in {"deliver", "backoff"} /\ serves[e] = t}
  <2>1. \A e \in working : hand[e] \in Rows
    BY DEF TypeInv, WellFormed, Busy
  <2>2. working # {} => (CHOOSE e \in working : TRUE) \in working
    OBVIOUS
  <2>3. RowOfDrainer(t) = IF working = {} THEN <<>> ELSE <<hand[CHOOSE e \in working : TRUE]>>
    BY DEF RowOfDrainer
  <2> HIDE DEF working
  <2>4. QED
    BY <2>1, <2>2, <2>3
<1>2. RowOfLoop(t) \in Seq(Rows)
  BY DEF RowOfLoop, TypeInv, WellFormed
<1>3. QED
  BY <1>1, <1>2 DEF TypeInv, TypeOK

LEMMA SameLane ==
  ASSUME UNCHANGED queue, \A t \in Topics : RowOfDrainer(t)' = RowOfDrainer(t),
         \A t \in Topics : RowOfLoop(t)' = RowOfLoop(t)
  PROVE  UNCHANGED Lane
BY DEF Lane

(* A step that changes the lane of one topic.                              *)
LEMMA OneLane ==
  ASSUME NEW t \in Topics,
         \A u \in Topics \ {t} : /\ RowOfDrainer(u)' = RowOfDrainer(u)
                                 /\ queue'[u] = queue[u]
                                 /\ RowOfLoop(u)' = RowOfLoop(u)
  PROVE  Lane' = [Lane EXCEPT ![t] = (RowOfDrainer(t)' \o queue'[t]) \o RowOfLoop(t)']
<1>1. \A u \in Topics \ {t} : Lane'[u] = Lane[u]
  BY DEF Lane
<1>2. Lane'[t] = (RowOfDrainer(t)' \o queue'[t]) \o RowOfLoop(t)'
  BY DEF Lane
<1>3. DOMAIN Lane = Topics /\ Lane' = [u \in Topics |-> Lane'[u]]
  BY DEF Lane
<1>4. QED
  BY <1>1, <1>2, <1>3, Zenon

LEMMA PromiseInit == Init => Promise!Init
<1> SUFFICES ASSUME Init
             PROVE  Promise!Init
  OBVIOUS
<1>1. \A t \in Topics : RowOfDrainer(t) = <<>> /\ queue[t] = <<>> /\ RowOfLoop(t) = <<>>
  BY NoDrainerRow DEF Init, Delivering, RowOfLoop
<1>2. (<<>> \o <<>>) \o <<>> = <<>>
  OBVIOUS
<1>3. Lane = [t \in Topics |-> <<>>]
  BY <1>1, <1>2 DEF Lane
<1>4. QED
  BY <1>3 DEF Init, Promise!Init, Rows

(* Handle, for a row that decodes, adds it to the end of its lane.         *)
LEMMA HandleAccepts ==
  ASSUME TypeInv, NEW t \in Topics, Handle(t)
  PROVE  Promise!Accept(t)
<1>1. received + 1 \in Rows /\ topicOf'[received + 1] = t
  BY OutboxAssumption DEF Handle, TypeInv, TypeOK, Rows, OutboxAssumption
<1>2. \A u \in Topics : RowOfDrainer(u)' = RowOfDrainer(u)
  BY SameDrainerRow DEF Handle, Delivering, drainerVars
<1>3. /\ RowOfLoop(t) = <<>> /\ RowOfLoop(t)' = <<received + 1>>
      /\ \A u \in Topics \ {t} : RowOfLoop(u)' = RowOfLoop(u)
  BY <1>1 DEF Handle, RowOfLoop
<1>4. UNCHANGED queue
  BY DEF Handle
<1>5. Lane' = [Lane EXCEPT ![t] = (RowOfDrainer(t) \o queue[t]) \o <<received + 1>>]
  BY <1>2, <1>3, <1>4, OneLane
<1>6. (RowOfDrainer(t) \o queue[t]) \o <<received + 1>> = Append(Lane[t], received + 1)
  BY <1>1, <1>3, LaneTypes, LaneEnds DEF Lane
<1>7. QED
  BY <1>5, <1>6 DEF Handle, Promise!Accept

(* The timer of a full queue refuses the row at the end of its lane.       *)
LEMMA DropRefuses ==
  ASSUME TypeInv, NEW t \in Topics, topicOf[received] = t, DropRow
  PROVE  Promise!Refuse(t)
<1>1. received \in Rows
  BY DEF DropRow, TypeInv, WellFormed
<1>2. \A u \in Topics : RowOfDrainer(u)' = RowOfDrainer(u)
  BY SameDrainerRow DEF DropRow, Delivering, drainerVars
<1>3. /\ RowOfLoop(t) = <<received>> /\ RowOfLoop(t)' = <<>>
      /\ \A u \in Topics \ {t} : RowOfLoop(u)' = RowOfLoop(u)
  BY DEF DropRow, RowOfLoop
<1>4. UNCHANGED queue
  BY DEF DropRow
<1>5. Lane' = [Lane EXCEPT ![t] = (RowOfDrainer(t) \o queue[t]) \o <<>>]
  BY <1>1, <1>2, <1>3, <1>4, OneLane
<1>6. Lane[t] = (RowOfDrainer(t) \o queue[t]) \o <<received>>
  BY <1>1, <1>3 DEF Lane
<1>7. /\ Len(Lane[t]) = Len(RowOfDrainer(t)) + Len(queue[t]) + 1
      /\ Lane[t][Len(Lane[t])] = received
      /\ SubSeq(Lane[t], 1, Len(Lane[t]) - 1) = (RowOfDrainer(t) \o queue[t]) \o <<>>
  <2>1. RowOfDrainer(t) \in Seq(Rows) /\ queue[t] \in Seq(Rows)
    BY LaneTypes
  <2> DEFINE s == (RowOfDrainer(t) \o queue[t]) \o <<received>>
  <2>2. /\ Len(s) = Len(RowOfDrainer(t)) + Len(queue[t]) + 1 /\ s[Len(s)] = received
        /\ SubSeq(s, 1, Len(s) - 1) = (RowOfDrainer(t) \o queue[t]) \o <<>>
    BY <1>1, <2>1, LaneEnds, Zenon
  <2>3. Lane[t] = s
    BY <1>6
  <2> HIDE DEF s
  <2>4. QED
    BY <2>2, <2>3
<1>8. Len(queue[t]) >= QueueCap
  BY DEF DropRow
<1>9. Len(Lane[t]) > QueueCap
  <2>1. Len(RowOfDrainer(t)) \in Nat /\ Len(queue[t]) \in Nat
    BY <1>1, LaneTypes
  <2>2. QED
    BY <1>7, <1>8, <2>1, OutboxAssumption DEF OutboxAssumption
<1>10. Promise!Last(Lane[t]) = received
  BY <1>7 DEF Promise!Last
<1>11. Promise!Front(Lane[t]) = (RowOfDrainer(t) \o queue[t]) \o <<>>
  BY <1>7 DEF Promise!Front
<1>12. fate' = [fate EXCEPT ![received] = "dropped"] /\ UNCHANGED <<received, cancelled>>
  BY DEF DropRow
<1>13. QED
  BY <1>5, <1>9, <1>10, <1>11, <1>12 DEF Promise!Refuse

(* A drainer that is done with its row settles the head of its lane.       *)
LEMMA WorkSettles ==
  ASSUME TypeInv, DrainerInv, NEW d \in Drainers, NEW t \in Topics, serves[d] = t,
         Delivering(d), ~Delivering(d)', UNCHANGED <<queue, rpc, received, topicOf, serves>>,
         \A e \in Drainers \ {d} : dpc'[e] = dpc[e], UNCHANGED <<hand, cancelled>>,
         NEW f \in {"delivered", "failed"} \cup (IF cancelled THEN {"abandoned"} ELSE {}),
         fate' = [fate EXCEPT ![hand[d]] = f]
  PROVE  Promise!Settle(t)
<1>1. hand[d] \in Rows
  BY DEF TypeInv, WellFormed, Delivering, Busy
<1>2. \A e \in Drainers : Delivering(e) /\ serves[e] = t <=> e = d
  BY DEF DrainerInv, DrainersBounded, Delivering
<1>3. RowOfDrainer(t) = <<hand[d]>>
  BY <1>2, DrainerRow
<1>4. \A e \in Drainers : ~(Delivering(e)' /\ serves'[e] = t)
  BY <1>2 DEF Delivering
<1>5. RowOfDrainer(t)' = <<>>
  BY <1>4, NoDrainerRow
<1>6. ASSUME NEW u \in Topics \ {t}
      PROVE  RowOfDrainer(u)' = RowOfDrainer(u)
  <2>1. \A e \in Drainers :
            Delivering(e) /\ serves[e] = u <=> Delivering(e)' /\ serves'[e] = u
    BY DEF Delivering
  <2>2. QED
    BY <2>1, SameDrainerRow
<1>7. \A u \in Topics : RowOfLoop(u)' = RowOfLoop(u) /\ RowOfLoop(u) \in Seq(Rows)
  BY LaneTypes DEF RowOfLoop
<1>8. Lane' = [Lane EXCEPT ![t] = (<<>> \o queue[t]) \o RowOfLoop(t)]
  BY <1>5, <1>6, <1>7, OneLane
<1>9. Lane[t] = (<<hand[d]>> \o queue[t]) \o RowOfLoop(t)
  BY <1>3 DEF Lane
<1>10. /\ Head(Lane[t]) = hand[d] /\ Lane[t] # <<>>
       /\ Tail(Lane[t]) = (<<>> \o queue[t]) \o RowOfLoop(t)
  <2>1. queue[t] \in Seq(Rows) /\ RowOfLoop(t) \in Seq(Rows)
    BY LaneTypes
  <2>2. /\ Head((<<hand[d]>> \o queue[t]) \o RowOfLoop(t)) = hand[d]
        /\ (<<hand[d]>> \o queue[t]) \o RowOfLoop(t) # <<>>
        /\ Tail((<<hand[d]>> \o queue[t]) \o RowOfLoop(t)) = (<<>> \o queue[t]) \o RowOfLoop(t)
    BY <1>1, <2>1, LaneHeads, Zenon
  <2>3. QED
    BY <1>9, <2>2, Zenon
<1>11. QED
  BY <1>8, <1>10 DEF Promise!Settle

(* Any other step of a drainer or of the receive loop leaves the lanes.    *)
LEMMA TakeStutters ==
  ASSUME TypeInv, DrainerInv, NEW d \in Drainers, NEW t \in Topics, serves[d] = t, Take(d)
  PROVE  UNCHANGED Lane
<1>1. queue[t] \in Seq(Rows) /\ queue[t] # <<>>
  BY DEF Take, TypeInv, TypeOK
<1>2. /\ dpc[d] = "select" /\ dpc'[d] = "deliver" /\ UNCHANGED serves
      /\ \A e \in Drainers \ {d} : dpc'[e] = dpc[e] /\ hand'[e] = hand[e]
      /\ hand'[d] = Head(queue[t])
  BY DEF Take, TypeInv, TypeOK
<1>3. queue'[t] = Tail(queue[t]) /\ \A u \in Topics \ {t} : queue'[u] = queue[u]
  BY DEF Take, TypeInv, TypeOK
<1>4. \A e \in Drainers : ~(Delivering(e) /\ serves[e] = t)
  BY <1>2 DEF DrainerInv, DrainersBounded, Delivering
<1>5. \A e \in Drainers : Delivering(e)' /\ serves'[e] = t <=> e = d
  BY <1>2, <1>4 DEF Delivering
<1>6. RowOfDrainer(t) = <<>> /\ RowOfDrainer(t)' = <<Head(queue[t])>>
  BY <1>2, <1>4, <1>5, NoDrainerRow, DrainerRowNext
<1>7. ASSUME NEW u \in Topics \ {t}
      PROVE  RowOfDrainer(u)' = RowOfDrainer(u)
  <2>1. \A e \in Drainers :
            Delivering(e) /\ serves[e] = u <=> Delivering(e)' /\ serves'[e] = u
    BY <1>2 DEF Delivering
  <2>2. \A e \in Drainers : Delivering(e) /\ serves[e] = u => hand'[e] = hand[e]
    BY <1>2
  <2>3. QED
    BY <2>1, <2>2, SameDrainerRow
<1>8. \A u \in Topics : RowOfLoop(u)' = RowOfLoop(u) /\ RowOfLoop(u) \in Seq(Rows)
  BY LaneTypes DEF RowOfLoop, Take, loopVars
<1>9. Lane' = [Lane EXCEPT ![t] = (<<Head(queue[t])>> \o Tail(queue[t])) \o RowOfLoop(t)]
  BY <1>3, <1>6, <1>7, <1>8, OneLane
<1>10. (<<Head(queue[t])>> \o Tail(queue[t])) \o RowOfLoop(t) = Lane[t]
  <2>1. Head(queue[t]) \in Rows
    BY <1>1
  <2>2. (<<Head(queue[t])>> \o Tail(queue[t])) \o RowOfLoop(t) = (<<>> \o queue[t]) \o RowOfLoop(t)
    BY <1>1, <1>8, <2>1, LaneHeads
  <2>3. QED
    BY <1>6, <2>2 DEF Lane
<1>11. QED
  BY <1>9, <1>10 DEF Lane

LEMMA EnqueueStutters ==
  ASSUME TypeInv, NEW t \in Topics, topicOf[received] = t, Enqueue
  PROVE  UNCHANGED Lane
<1>1. received \in Rows
  BY DEF Enqueue, TypeInv, WellFormed
<1>2. \A u \in Topics : RowOfDrainer(u)' = RowOfDrainer(u)
  BY SameDrainerRow DEF Enqueue, Delivering, drainerVars
<1>3. /\ RowOfLoop(t) = <<received>> /\ RowOfLoop(t)' = <<>>
      /\ \A u \in Topics \ {t} : RowOfLoop(u)' = RowOfLoop(u)
  BY DEF Enqueue, RowOfLoop
<1>4. queue'[t] = Append(queue[t], received) /\ \A u \in Topics \ {t} : queue'[u] = queue[u]
  BY DEF Enqueue, TypeInv, TypeOK
<1>5. Lane' = [Lane EXCEPT ![t] = (RowOfDrainer(t) \o Append(queue[t], received)) \o <<>>]
  BY <1>2, <1>3, <1>4, OneLane
<1>6. (RowOfDrainer(t) \o Append(queue[t], received)) \o <<>> = Lane[t]
  <2>1. RowOfDrainer(t) \in Seq(Rows) /\ queue[t] \in Seq(Rows)
    BY LaneTypes
  <2>2. Lane[t] = (RowOfDrainer(t) \o queue[t]) \o <<received>>
    BY <1>3 DEF Lane
  <2>3. QED
    BY <1>1, <2>1, <2>2, LaneEnds
<1>7. QED
  BY <1>5, <1>6 DEF Lane

(* No drainer begins or is done with a row.                                *)
LEMMA NoWorkChanges ==
  ASSUME \A e \in Drainers : Delivering(e)' <=> Delivering(e),
         \A e \in Drainers : Delivering(e) => serves'[e] = serves[e] /\ hand'[e] = hand[e]
  PROVE  \A t \in Topics : RowOfDrainer(t)' = RowOfDrainer(t)
<1> SUFFICES ASSUME NEW t \in Topics
             PROVE  RowOfDrainer(t)' = RowOfDrainer(t)
  OBVIOUS
<1>1. \A e \in Drainers : Delivering(e) /\ serves[e] = t <=> Delivering(e)' /\ serves'[e] = t
  OBVIOUS
<1>2. QED
  BY <1>1, SameDrainerRow

LEMMA OtherStepsStutter ==
  ASSUME TypeInv,
         \/ Stop \/ HandleMalformed \/ Cancel \/ UNCHANGED vars
         \/ \E d \in Drainers : \/ StartDrainer(d) \/ Exit(d) \/ DeliverRetry(d)
                               \/ BackoffElapsed(d) \/ LockAck(d) \/ Ack(d)
  PROVE  UNCHANGED Lane
<1> USE DEF vars, loopVars, drainerVars
<1>1. UNCHANGED queue
  BY DEF StartDrainer, Exit, DeliverRetry, BackoffElapsed, LockAck, Ack, Stop, HandleMalformed, Cancel
<1>2. \A t \in Topics : RowOfLoop(t)' = RowOfLoop(t)
  BY DEF StartDrainer, Exit, DeliverRetry, BackoffElapsed, LockAck, Ack, Stop, HandleMalformed,
         Cancel, RowOfLoop
<1>3. \A e \in Drainers : Delivering(e)' <=> Delivering(e)
  BY DEF StartDrainer, Exit, DeliverRetry, BackoffElapsed, LockAck, Ack, Stop, HandleMalformed,
         Cancel, Delivering, TypeInv, TypeOK
<1>4. \A e \in Drainers : Delivering(e) => serves'[e] = serves[e] /\ hand'[e] = hand[e]
  BY DEF StartDrainer, Exit, DeliverRetry, BackoffElapsed, LockAck, Ack, Stop, HandleMalformed,
         Cancel, Delivering, TypeInv, TypeOK
<1>5. QED
  BY <1>1, <1>2, <1>3, <1>4, NoWorkChanges, SameLane

LEMMA PromiseStep ==
  ASSUME TypeInv, DrainerInv, [Next]_vars
  PROVE  [Promise!Next]_(Promise!vars)
<1> USE DEF vars, loopVars, drainerVars
<1>1. CASE HandleMalformed
  <2>1. UNCHANGED Lane
    BY <1>1, OtherStepsStutter
  <2>2. Promise!Skip
    BY <1>1, <2>1 DEF HandleMalformed, Promise!Skip
  <2>3. QED
    BY <2>2 DEF Promise!Next
<1>2. ASSUME NEW t \in Topics, Handle(t)
      PROVE  Promise!Next
  BY <1>2, HandleAccepts DEF Promise!Next
<1>3. CASE DropRow
  <2>1. topicOf[received] \in Topics
    BY <1>3 DEF DropRow, TypeInv, WellFormed
  <2>2. \E t \in Topics : Promise!Refuse(t)
    BY <1>3, <2>1, DropRefuses
  <2>3. QED
    BY <2>2 DEF Promise!Next
<1>4. CASE Enqueue
  <2>1. topicOf[received] \in Topics
    BY <1>4 DEF Enqueue, TypeInv, WellFormed
  <2>2. UNCHANGED Lane
    BY <1>4, <2>1, EnqueueStutters
  <2>3. QED
    BY <1>4, <2>2 DEF Enqueue, Promise!vars
<1>5. CASE Cancel
  <2>1. UNCHANGED Lane
    BY <1>5, OtherStepsStutter
  <2>2. Promise!Cancel
    BY <1>5, <2>1 DEF Cancel, Promise!Cancel
  <2>3. QED
    BY <2>2 DEF Promise!Next
<1>6. ASSUME NEW d \in Drainers, Take(d)
      PROVE  UNCHANGED Promise!vars
  <2>1. serves[d] \in Topics
    BY <1>6 DEF Take, TypeInv, WellFormed, Live
  <2>2. UNCHANGED Lane
    BY <1>6, <2>1, TakeStutters
  <2>3. QED
    BY <1>6, <2>2 DEF Take, Promise!vars
<1>7. ASSUME NEW d \in Drainers,
             StartDrainer(d) \/ Exit(d) \/ DeliverRetry(d) \/ BackoffElapsed(d) \/ LockAck(d) \/ Ack(d)
      PROVE  UNCHANGED Promise!vars
  <2>1. UNCHANGED Lane
    BY <1>7, OtherStepsStutter
  <2>2. QED
    BY <1>7, <2>1 DEF StartDrainer, Exit, DeliverRetry, BackoffElapsed, LockAck, Ack, Promise!vars
<1>8. ASSUME NEW d \in Drainers, DeliverOK(d) \/ DeliverGiveUp(d) \/ BackoffCancelled(d)
      PROVE  Promise!Next
  <2>1. \E t \in Topics : serves[d] = t
    BY <1>8 DEF DeliverOK, DeliverGiveUp, BackoffCancelled, TypeInv, WellFormed, Live, Busy
  <2>2. /\ Delivering(d) /\ ~Delivering(d)' /\ \A e \in Drainers \ {d} : dpc'[e] = dpc[e]
        /\ UNCHANGED <<queue, rpc, received, topicOf, serves>> /\ UNCHANGED <<hand, cancelled>>
    BY <1>8 DEF DeliverOK, DeliverGiveUp, BackoffCancelled, Delivering, TypeInv, TypeOK
  <2>3. \E f \in {"delivered", "failed"} \cup (IF cancelled THEN {"abandoned"} ELSE {}) :
            fate' = [fate EXCEPT ![hand[d]] = f]
    BY <1>8 DEF DeliverOK, DeliverGiveUp, BackoffCancelled
  <2>4. \E t \in Topics : Promise!Settle(t)
    BY <2>1, <2>2, <2>3, WorkSettles
  <2>5. QED
    BY <2>4 DEF Promise!Next
<1>9. CASE Stop \/ UNCHANGED vars
  <2>1. UNCHANGED Lane
    BY <1>9, OtherStepsStutter
  <2>2. QED
    BY <1>9, <2>1 DEF Stop, Promise!vars
<1>10. QED
  BY <1>1, <1>2, <1>3, <1>4, <1>5, <1>6, <1>7, <1>8, <1>9 DEF Next

\* The whole pipeline, with its semaphore, its queues, its retries and acks,
\* implements one lane of rows for every topic, for any number of topics,
\* goroutines, rows and retries and any capacity of the queues.
THEOREM ImplementsThePromise == Spec => ImplementsPromise
<1>1. QED
  BY PromiseInit, PromiseStep, TypeInit, TypeStep, DrainerInit, DrainerStep,
     PTL DEF Spec, ImplementsPromise, Promise!Spec
=============================================================================
