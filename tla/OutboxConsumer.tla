--------------------------- MODULE OutboxConsumer ---------------------------
(***************************************************************************)
(* The delivery pipeline of src/outbox.go.  The receive loop of the        *)
(* replication stream calls Handle for every decoded change; a row of the  *)
(* outbox table goes to the queue of its topic, which one goroutine, the   *)
(* topic's drainer, empties by calling the user's DeliveryFunc, with       *)
(* retries, and marking the row in the database (ack).  The first row of a *)
(* topic starts its drainer, for which the receive loop first has to get a *)
(* token of a semaphore; a drainer gives its token back only when the      *)
(* context is cancelled.                                                   *)
(*                                                                         *)
(* Rows are the numbers 1, 2, 3, ... in the order the WAL delivers them.   *)
(* A member of Drainers is a goroutine.                                    *)
(***************************************************************************)
EXTENDS Integers, Sequences, FiniteSets

CONSTANTS
    Topics,       \* the topics rows are addressed to
    Drainers,     \* goroutines; there is no limit on them but the semaphore
    NoTopic,      \* the topic of a goroutine that does not exist yet
    MaxDrainers,  \* capacity of the semaphore (64)
    QueueCap,     \* capacity of a topic's queue (256)
    MaxRetries,   \* retries after the first attempt (5)
    OutboxTable,  \* the configured table name
    AckMayFail,   \* whether the UPDATE of an ack fails now and then
    MaxRows       \* bound: how many rows arrive

ASSUME OutboxAssumption ==
    /\ IsFiniteSet(Topics) /\ IsFiniteSet(Drainers)
    /\ Cardinality(Topics) <= Cardinality(Drainers)
    /\ NoTopic \notin Topics
    /\ MaxDrainers \in Nat \ {0}
    /\ QueueCap \in Nat \ {0}
    /\ MaxRetries \in Nat
    /\ AckMayFail \in BOOLEAN
    /\ MaxRows \in Nat

VARIABLES
    rpc,        \* the receive loop: "idle", in Handle ("acquire", "send"), "stopped"
    received,   \* how many rows it has received; in Handle, the row in its hands
    topicOf,    \* the topic of each row received
    started,    \* the topics whose sync.Once has run
    tokens,     \* tokens of the semaphore that are taken
    queue,      \* the content of each topic's channel
    dpc,        \* where each drainer is
    serves,     \* the topic of each drainer
    hand,       \* the row each drainer last took
    attempt,    \* the attempt it is at
    ackLock,    \* the drainers (at most one) in the critical section of ack
    cancelled,  \* the context is cancelled
    fate,       \* what became of each row
    acked,      \* the rows whose delivered_at is set
    delivered, inflight, failed  \* the counters Stats returns

loopVars == <<rpc, received, topicOf>>
drainerVars == <<dpc, serves, hand, attempt>>
counters == <<delivered, inflight, failed>>
vars == <<rpc, received, topicOf, started, tokens, queue, dpc, serves, hand,
          attempt, ackLock, cancelled, fate, acked, delivered, inflight, failed>>

Rows == 1 .. MaxRows
Fates == {"unseen", "open", "malformed", "dropped", "delivered", "failed", "abandoned"}
Busy == {"deliver", "backoff", "ack", "exec"}   \* inside deliverWithRetry
Live == {"select"} \cup Busy                    \* the goroutine exists

TypeOK ==
    /\ rpc \in {"idle", "acquire", "send", "stopped"}
    /\ received \in 0 .. MaxRows
    /\ topicOf \in [Rows -> Topics \cup {NoTopic}]
    /\ started \in SUBSET Topics
    /\ tokens \in Int
    /\ queue \in [Topics -> Seq(Rows)]
    /\ dpc \in [Drainers -> {"free", "exited"} \cup Live]
    /\ serves \in [Drainers -> Topics \cup {NoTopic}]
    /\ hand \in [Drainers -> 0 .. MaxRows]
    /\ attempt \in [Drainers -> 0 .. MaxRetries]
    /\ ackLock \in SUBSET Drainers
    /\ cancelled \in BOOLEAN
    /\ fate \in [Rows -> Fates]
    /\ acked \in SUBSET Rows
    /\ delivered \in Nat /\ inflight \in Int /\ failed \in Nat

\* NewOutboxConsumer
Init ==
    /\ rpc = "idle" /\ received = 0
    /\ topicOf = [n \in Rows |-> NoTopic]
    /\ started = {} /\ tokens = 0
    /\ queue = [t \in Topics |-> <<>>]
    /\ dpc = [d \in Drainers |-> "free"]
    /\ serves = [d \in Drainers |-> NoTopic]
    /\ hand = [d \in Drainers |-> 0]
    /\ attempt = [d \in Drainers |-> 0]
    /\ ackLock = {} /\ cancelled = FALSE
    /\ fate = [n \in Rows |-> "unseen"]
    /\ acked = {}
    /\ delivered = 0 /\ inflight = 0 /\ failed = 0

-----------------------------------------------------------------------------
(* Handle, on the goroutine of the receive loop.                           *)

\* A row of the outbox table that does not decode is logged and skipped.
HandleMalformed ==
    /\ rpc = "idle" /\ ~cancelled
    /\ received < MaxRows
    /\ received' = received + 1
    /\ fate' = [fate EXCEPT ![received + 1] = "malformed"]
    /\ UNCHANGED <<rpc, topicOf, started, tokens, queue, drainerVars, ackLock,
                   cancelled, acked, counters>>

\* Any other one is enqueued; the first of its topic runs the sync.Once.
Handle(t) ==
    /\ rpc = "idle" /\ ~cancelled
    /\ received < MaxRows
    /\ received' = received + 1
    /\ topicOf' = [topicOf EXCEPT ![received + 1] = t]
    /\ fate' = [fate EXCEPT ![received + 1] = "open"]
    /\ rpc' = IF t \in started THEN "send" ELSE "acquire"
    /\ UNCHANGED <<started, tokens, queue, drainerVars, ackLock, cancelled,
                   acked, counters>>

\* Mutant: without the sync.Once every row of a topic starts a drainer.
StartDrainerAgain(d) ==
    /\ rpc = "acquire"
    /\ tokens < MaxDrainers
    /\ dpc[d] = "free"
    /\ tokens' = tokens + 1
    /\ dpc' = [dpc EXCEPT ![d] = "select"]
    /\ serves' = [serves EXCEPT ![d] = topicOf[received]]
    /\ rpc' = "send"
    /\ UNCHANGED <<received, topicOf, started, queue, hand, attempt, ackLock,
                   cancelled, fate, acked, counters>>

\* `oc.sem <- struct{}{}` waits for a token, with no timeout and without
\* looking at the context; then the drainer is spawned.
StartDrainer(d) ==
    /\ rpc = "acquire"
    /\ tokens < MaxDrainers
    /\ dpc[d] = "free"
    /\ tokens' = tokens + 1
    /\ started' = started \cup {topicOf[received]}
    /\ dpc' = [dpc EXCEPT ![d] = "select"]
    /\ serves' = [serves EXCEPT ![d] = topicOf[received]]
    /\ rpc' = "send"
    /\ UNCHANGED <<received, topicOf, queue, hand, attempt, ackLock, cancelled,
                   fate, acked, counters>>

Enqueue ==
    /\ rpc = "send"
    /\ Len(queue[topicOf[received]]) < QueueCap
    /\ queue' = [queue EXCEPT ![topicOf[received]] = Append(@, received)]
    /\ rpc' = "idle"
    /\ UNCHANGED <<received, topicOf, started, tokens, drainerVars, ackLock,
                   cancelled, fate, acked, counters>>

\* Mutants: the oldest row of the queue makes room for the new one; the row
\* is dropped without waiting for room.
DropRowOldest ==
    /\ rpc = "send"
    /\ Len(queue[topicOf[received]]) >= QueueCap
    /\ fate' = [fate EXCEPT ![received] = "dropped"]
    /\ queue' = [queue EXCEPT ![topicOf[received]] = Append(Tail(@), received)]
    /\ rpc' = "idle"
    /\ UNCHANGED <<received, topicOf, started, tokens, drainerVars, ackLock,
                   cancelled, acked, counters>>

DropRowAtOnce ==
    /\ rpc = "send"
    /\ fate' = [fate EXCEPT ![received] = "dropped"]
    /\ rpc' = "idle"
    /\ UNCHANGED <<received, topicOf, started, tokens, queue, drainerVars,
                   ackLock, cancelled, acked, counters>>

\* The queue stays full for the two seconds of the timer.
DropRow ==
    /\ rpc = "send"
    /\ Len(queue[topicOf[received]]) >= QueueCap
    /\ fate' = [fate EXCEPT ![received] = "dropped"]
    /\ rpc' = "idle"
    /\ UNCHANGED <<received, topicOf, started, tokens, queue, drainerVars,
                   ackLock, cancelled, acked, counters>>

\* Run returns: the context was cancelled, or the connection was lost.  In
\* the second case the drainers live on.
Stop ==
    /\ rpc = "idle"
    /\ rpc' = "stopped"
    /\ UNCHANGED <<received, topicOf, started, tokens, queue, drainerVars,
                   ackLock, cancelled, fate, acked, counters>>

Cancel ==
    /\ ~cancelled
    /\ cancelled' = TRUE
    /\ UNCHANGED <<loopVars, started, tokens, queue, drainerVars, ackLock, fate,
                   acked, counters>>

-----------------------------------------------------------------------------
(* A drainer.  Its select picks either ready case.                         *)

Take(d) ==
    /\ dpc[d] = "select"
    /\ queue[serves[d]] # <<>>
    /\ hand' = [hand EXCEPT ![d] = Head(queue[serves[d]])]
    /\ queue' = [queue EXCEPT ![serves[d]] = Tail(@)]
    /\ dpc' = [dpc EXCEPT ![d] = "deliver"]
    /\ attempt' = [attempt EXCEPT ![d] = 0]
    /\ inflight' = inflight + 1
    /\ UNCHANGED <<loopVars, started, tokens, serves, ackLock, cancelled, fate,
                   acked, delivered, failed>>

\* Mutant: the deferred release of the token is forgotten.
ExitKeepsToken(d) ==
    /\ dpc[d] = "select"
    /\ cancelled
    /\ dpc' = [dpc EXCEPT ![d] = "exited"]
    /\ UNCHANGED <<loopVars, started, tokens, queue, serves, hand, attempt,
                   ackLock, cancelled, fate, acked, counters>>

Exit(d) ==
    /\ dpc[d] = "select"
    /\ cancelled
    /\ dpc' = [dpc EXCEPT ![d] = "exited"]
    /\ tokens' = tokens - 1
    /\ UNCHANGED <<loopVars, started, queue, serves, hand, attempt, ackLock,
                   cancelled, fate, acked, counters>>

\* The user's DeliveryFunc returns nil ...
DeliverOK(d) ==
    /\ dpc[d] = "deliver"
    /\ fate' = [fate EXCEPT ![hand[d]] = "delivered"]
    /\ dpc' = [dpc EXCEPT ![d] = "ack"]
    /\ UNCHANGED <<loopVars, started, tokens, queue, serves, hand, attempt,
                   ackLock, cancelled, acked, counters>>

\* Mutants: one retry too many; retries that are not counted; a row that goes
\* back to the end of its queue to be retried.
DeliverRetryOnceMore(d) ==
    /\ dpc[d] = "deliver"
    /\ attempt[d] <= MaxRetries
    /\ attempt' = [attempt EXCEPT ![d] = @ + 1]
    /\ dpc' = [dpc EXCEPT ![d] = "backoff"]
    /\ UNCHANGED <<loopVars, started, tokens, queue, serves, hand, ackLock,
                   cancelled, fate, acked, counters>>

DeliverRetryForEver(d) ==
    /\ dpc[d] = "deliver"
    /\ attempt[d] < MaxRetries
    /\ dpc' = [dpc EXCEPT ![d] = "backoff"]
    /\ UNCHANGED <<loopVars, started, tokens, queue, serves, hand, attempt, ackLock,
                   cancelled, fate, acked, counters>>

DeliverRetryAtBack(d) ==
    /\ dpc[d] = "deliver"
    /\ attempt[d] < MaxRetries
    /\ queue' = [queue EXCEPT ![serves[d]] = Append(@, hand[d])]
    /\ dpc' = [dpc EXCEPT ![d] = "select"]
    /\ inflight' = inflight - 1
    /\ UNCHANGED <<loopVars, started, tokens, serves, hand, attempt, ackLock,
                   cancelled, fate, acked, delivered, failed>>

\* ... or an error, with retries left ...
DeliverRetry(d) ==
    /\ dpc[d] = "deliver"
    /\ attempt[d] < MaxRetries
    /\ attempt' = [attempt EXCEPT ![d] = @ + 1]
    /\ dpc' = [dpc EXCEPT ![d] = "backoff"]
    /\ UNCHANGED <<loopVars, started, tokens, queue, serves, hand, ackLock,
                   cancelled, fate, acked, counters>>

\* ... or with none: the row is left pending in the database.
DeliverGiveUp(d) ==
    /\ dpc[d] = "deliver"
    /\ attempt[d] = MaxRetries
    /\ fate' = [fate EXCEPT ![hand[d]] = "failed"]
    /\ dpc' = [dpc EXCEPT ![d] = "select"]
    /\ failed' = failed + 1
    /\ inflight' = inflight - 1
    /\ UNCHANGED <<loopVars, started, tokens, queue, serves, hand, attempt,
                   ackLock, cancelled, acked, delivered>>

BackoffElapsed(d) ==
    /\ dpc[d] = "backoff"
    /\ dpc' = [dpc EXCEPT ![d] = "deliver"]
    /\ UNCHANGED <<loopVars, started, tokens, queue, serves, hand, attempt,
                   ackLock, cancelled, fate, acked, counters>>

\* Mutant: inflight is not decremented on this way out.
BackoffCancelledUncounted(d) ==
    /\ dpc[d] = "backoff"
    /\ cancelled
    /\ fate' = [fate EXCEPT ![hand[d]] = "abandoned"]
    /\ dpc' = [dpc EXCEPT ![d] = "select"]
    /\ UNCHANGED <<loopVars, started, tokens, queue, serves, hand, attempt,
                   ackLock, cancelled, acked, counters>>

\* Only this row is given up: the drainer goes back to its select, where it
\* may still take another row before it picks ctx.Done.
BackoffCancelled(d) ==
    /\ dpc[d] = "backoff"
    /\ cancelled
    /\ fate' = [fate EXCEPT ![hand[d]] = "abandoned"]
    /\ dpc' = [dpc EXCEPT ![d] = "select"]
    /\ inflight' = inflight - 1
    /\ UNCHANGED <<loopVars, started, tokens, queue, serves, hand, attempt,
                   ackLock, cancelled, acked, delivered, failed>>

\* ack: one connection, one mutex.
LockAck(d) ==
    /\ dpc[d] = "ack"
    /\ ackLock = {}
    /\ ackLock' = {d}
    /\ dpc' = [dpc EXCEPT ![d] = "exec"]
    /\ UNCHANGED <<loopVars, started, tokens, queue, serves, hand, attempt,
                   cancelled, fate, acked, counters>>

\* The table the UPDATE names is "outbox" whatever the configured one is.  It
\* fails once the context is cancelled, and otherwise when the database or the
\* connection does, with or without the update done.  The error is logged, and
\* the row is counted as delivered either way.
AckTable == "outbox"

Ack(d) ==
    /\ dpc[d] = "exec"
    /\ \/ acked' = IF AckTable = OutboxTable THEN acked \cup {hand[d]} ELSE acked
       \/ (AckMayFail \/ cancelled) /\ UNCHANGED acked
    /\ ackLock' = ackLock \ {d}
    /\ delivered' = delivered + 1
    /\ inflight' = inflight - 1
    /\ dpc' = [dpc EXCEPT ![d] = "select"]
    /\ UNCHANGED <<loopVars, started, tokens, queue, serves, hand, attempt,
                   cancelled, fate, failed>>

-----------------------------------------------------------------------------
Deliver(d) == DeliverOK(d) \/ DeliverRetry(d) \/ DeliverGiveUp(d)

Next ==
    \/ HandleMalformed
    \/ \E t \in Topics : Handle(t)
    \/ \E d \in Drainers : StartDrainer(d)
    \/ Enqueue
    \/ DropRow
    \/ Stop
    \/ Cancel
    \/ \E d \in Drainers :
          \/ Take(d) \/ Exit(d)
          \/ DeliverOK(d) \/ DeliverRetry(d) \/ DeliverGiveUp(d)
          \/ BackoffElapsed(d) \/ BackoffCancelled(d)
          \/ LockAck(d) \/ Ack(d)

Spec == Init /\ [][Next]_vars

(* Goroutines that can run do, timers fire, the DeliveryFunc and the       *)
(* UPDATE return.  The mutex of ack is served in turn: a Go mutex hands    *)
(* itself to a waiter that has waited for a millisecond.  A cancelled      *)
(* context ends Run.  Nothing obliges rows to arrive, a delivery to        *)
(* succeed or the context to be cancelled.                                 *)
Fairness ==
    /\ WF_vars(\E d \in Drainers : StartDrainer(d))
    /\ WF_vars(Enqueue)
    /\ WF_vars(DropRow)
    /\ WF_vars(cancelled /\ Stop)
    /\ \A d \in Drainers :
          /\ WF_vars(Take(d) \/ Exit(d))
          /\ WF_vars(Deliver(d))
          /\ WF_vars(BackoffElapsed(d) \/ BackoffCancelled(d))
          /\ SF_vars(LockAck(d))
          /\ WF_vars(Ack(d))

FairSpec == Spec /\ Fairness

-----------------------------------------------------------------------------
(* What the pipeline promises.                                             *)

LiveDrainers == {d \in Drainers : dpc[d] \in Live}

\* Never more goroutines than the semaphore allows, and never two on one
\* topic: a token is taken for every drainer that lives and for no other.
DrainersBounded ==
    /\ tokens = Cardinality(LiveDrainers)
    /\ tokens <= MaxDrainers
    /\ \A d, e \in Drainers :
          dpc[d] # "free" /\ dpc[e] # "free" /\ serves[d] = serves[e] => d = e

\* The DeliveryFunc was called, or is about to be, for row n.
Begun(n) ==
    \/ fate[n] \in {"delivered", "failed", "abandoned"}
    \/ \E d \in Drainers : dpc[d] \in Busy /\ hand[d] = n

\* Within a topic rows are delivered strictly in order: no row is begun while
\* an earlier row of its topic still waits or is still being retried.
InOrderWithinTopic ==
    \A m, n \in 1 .. received :
        m < n /\ topicOf[m] = topicOf[n] /\ Begun(n) => fate[m] # "open"

\* Where an unsettled row can be: in the hands of the receive loop, in the
\* queue of its topic, in the hands of its drainer.
AtReceiveLoop(n) == rpc \in {"acquire", "send"} /\ received = n
QueueSlots(n) == {q \in Topics \X (1 .. QueueCap) :
                     q[2] \in DOMAIN queue[q[1]] /\ queue[q[1]][q[2]] = n}
Holders(n) == {d \in Drainers : dpc[d] \in {"deliver", "backoff"} /\ hand[d] = n}

\* No row is lost or duplicated on its way: one that is open is in exactly
\* one of these places, under its own topic, and one that is settled in none.
EveryRowInOnePlace ==
    \A n \in 1 .. received :
        /\ (IF AtReceiveLoop(n) THEN 1 ELSE 0)
              + Cardinality(QueueSlots(n)) + Cardinality(Holders(n))
           = IF fate[n] = "open" THEN 1 ELSE 0
        /\ \A q \in QueueSlots(n) : q[1] = topicOf[n]
        /\ \A d \in Holders(n) : serves[d] = topicOf[n]

RowsWith(f) == {n \in Rows : fate[n] = f}

\* What Stats returns agrees with what happened to the rows: inflight counts
\* the rows inside deliverWithRetry on every way out of it, and a row counts
\* as delivered or failed once, when it leaves.
CountersAgree ==
    /\ inflight = Cardinality({d \in Drainers : dpc[d] \in Busy})
    /\ delivered + Cardinality({d \in Drainers : dpc[d] \in {"ack", "exec"}})
          = Cardinality(RowsWith("delivered"))
    /\ failed = Cardinality(RowsWith("failed"))

\* delivered_at is only ever set for a row whose DeliveryFunc returned nil.
AckedOnlyIfDelivered == \A n \in acked : fate[n] = "delivered"

\* The connection of the acks, which must not be used concurrently, is used
\* by one drainer at a time.
OneAckAtATime ==
    \A d, e \in Drainers : dpc[d] = "exec" /\ dpc[e] = "exec" => d = e

\* What became of a row never changes: nothing delivers a row that was
\* dropped, given up or delivered before.
FateIsFinal ==
    [][\A n \in Rows : fate[n] \notin {"unseen", "open"} => fate'[n] = fate[n]]_vars

\* As long as the context lives, a row that was received is delivered, given
\* up after its retries, or dropped; none waits for ever.
EveryRowSettles == \A n \in Rows : (fate[n] = "open") ~> (fate[n] # "open" \/ cancelled)

\* Cancelling the context ends the receive loop and every drainer, wherever
\* they are: in a backoff, in a delivery, waiting for the ack mutex.
CancellationEndsDelivery ==
    cancelled ~> (rpc = "stopped" /\ LiveDrainers = {} /\ tokens = 0)

\* A comment of OutboxConsumer: "each row is dispatched to a per-topic drainer
\* goroutine, so a slow or down broker never blocks WAL consumption".
NeverBlocksReceiveLoop == (rpc = "acquire") ~> (rpc # "acquire")

-----------------------------------------------------------------------------
(* The mapping to OutboxPromise.  The lane of a topic: the row its drainer *)
(* is delivering, the rows in its queue, the row the receive loop is about *)
(* to enqueue.                                                             *)
RowOfDrainer(t) ==
    LET working == {d \in Drainers : dpc[d] \in {"deliver", "backoff"} /\ serves[d] = t}
    IN  IF working = {} THEN <<>> ELSE <<hand[CHOOSE d \in working : TRUE]>>

RowOfLoop(t) ==
    IF rpc \in {"acquire", "send"} /\ topicOf[received] = t THEN <<received>> ELSE <<>>

Lane == [t \in Topics |-> RowOfDrainer(t) \o queue[t] \o RowOfLoop(t)]

Promise == INSTANCE OutboxPromise WITH arrived <- received, lane <- Lane

\* Through all the interleavings of the receive loop with the drainers, the
\* pipeline does nothing its lanes do not: rows leave a lane at its head, one
\* by one, and a row is turned away only behind QueueCap rows of its topic.
ImplementsPromise == Promise!Spec
=============================================================================
