---------------------------- MODULE Broadcaster ----------------------------
(***************************************************************************)
(* The fan-out of src/broadcast.go: a map from subscriber id to a buffered *)
(* channel, guarded by one mutex.  Publish walks the map holding the mutex *)
(* and offers the change to every channel without ever blocking; Subscribe *)
(* and Unsubscribe change the map and close channels under the same mutex. *)
(* Readers take from their channel without the mutex, so they interleave   *)
(* with a Publish that is half way through the map.                        *)
(*                                                                         *)
(* A member of Subs is one call of Subscribe, with the channel it made and *)
(* the goroutine that reads it.  Several of them may use the same id.      *)
(* Changes are the numbers 1, 2, 3, ... in the order they are published.   *)
(***************************************************************************)
EXTENDS Integers, Sequences, FiniteSetsExt

CONSTANTS
    Subs,        \* the Subscribe calls, each with its channel and its reader
    Ids,         \* the subscriber ids
    IdOf,        \* IdOf[s]: the id the call s passes
    BufferSize,  \* BufferSize[s]: the capacity of the channel s makes
    NoSub,       \* an id that is not in the map
    MaxChanges   \* bound: how many changes are published

ASSUME BroadcasterAssumption ==
    /\ IdOf \in [Subs -> Ids]
    /\ BufferSize \in [Subs -> Nat \ {0}]
    /\ NoSub \notin Subs
    /\ MaxChanges \in Nat

VARIABLES
    subscribers,  \* id -> the subscription the map holds for it, or NoSub
    toOffer,      \* the subscriptions the running Publish has yet to visit
    publishing,   \* Publish holds the mutex
    published,    \* how many changes Publish has been called with
    chan,         \* the content of each channel
    closed,       \* the channels that were closed
    dropped,      \* the drop counter of each subscription
    reader,       \* "new", then "reading" until the channel ends: "done"
    received,     \* history: what each reader took from its channel
    since,        \* history: the value of published when s subscribed
    replaced      \* history: the subscriptions a Subscribe found under its id

vars == <<subscribers, toOffer, publishing, published, chan, closed, dropped,
          reader, received, since, replaced>>

Mapped(s) == subscribers[IdOf[s]] = s

TypeOK ==
    /\ subscribers \in [Ids -> Subs \cup {NoSub}]
    /\ toOffer \in SUBSET Subs
    /\ publishing \in BOOLEAN
    /\ published \in Nat
    /\ chan \in [Subs -> Seq(Nat)]
    /\ closed \in SUBSET Subs
    /\ dropped \in [Subs -> Nat]
    /\ reader \in [Subs -> {"new", "reading", "done"}]
    /\ received \in [Subs -> Seq(Nat)]
    /\ since \in [Subs -> Nat]
    /\ replaced \in SUBSET Subs

Init ==
    /\ subscribers = [id \in Ids |-> NoSub]
    /\ toOffer = {}
    /\ publishing = FALSE
    /\ published = 0
    /\ chan = [s \in Subs |-> <<>>]
    /\ closed = {}
    /\ dropped = [s \in Subs |-> 0]
    /\ reader = [s \in Subs |-> "new"]
    /\ received = [s \in Subs |-> <<>>]
    /\ since = [s \in Subs |-> 0]
    /\ replaced = {}

-----------------------------------------------------------------------------
(* The methods.  Subscribe and Unsubscribe wait for the mutex, so neither  *)
(* runs while a Publish is under way.                                      *)

\* An id already in the map is overwritten; its channel stays open, and
\* nothing reaches it any more.
Subscribe(s) ==
    /\ ~publishing
    /\ reader[s] = "new"
    /\ subscribers' = [subscribers EXCEPT ![IdOf[s]] = s]
    /\ reader' = [reader EXCEPT ![s] = "reading"]
    /\ since' = [since EXCEPT ![s] = published]
    /\ replaced' = replaced \cup ({subscribers[IdOf[s]]} \ {NoSub})
    /\ UNCHANGED <<toOffer, publishing, published, chan, closed, dropped, received>>

\* Mutants: the lookup of the id, the close, or the mutex is left out.
UnsubscribeUnknown(id) ==
    /\ ~publishing
    /\ closed' = closed \cup {subscribers[id]}
    /\ subscribers' = [subscribers EXCEPT ![id] = NoSub]
    /\ UNCHANGED <<toOffer, publishing, published, chan, dropped,
                   reader, received, since, replaced>>

UnsubscribeNoClose(id) ==
    /\ ~publishing
    /\ subscribers[id] # NoSub
    /\ subscribers' = [subscribers EXCEPT ![id] = NoSub]
    /\ UNCHANGED <<toOffer, publishing, published, chan, closed, dropped,
                   reader, received, since, replaced>>

UnsubscribeNoMutex(id) ==
    /\ subscribers[id] # NoSub
    /\ closed' = closed \cup {subscribers[id]}
    /\ subscribers' = [subscribers EXCEPT ![id] = NoSub]
    /\ UNCHANGED <<toOffer, publishing, published, chan, dropped,
                   reader, received, since, replaced>>

\* Closes the channel the map holds for the id; an unknown id is a no-op.
Unsubscribe(id) ==
    /\ ~publishing
    /\ subscribers[id] # NoSub
    /\ closed' = closed \cup {subscribers[id]}
    /\ subscribers' = [subscribers EXCEPT ![id] = NoSub]
    /\ UNCHANGED <<toOffer, publishing, published, chan, dropped,
                   reader, received, since, replaced>>

\* Publish takes the mutex ...
PublishBegin ==
    /\ ~publishing
    /\ published < MaxChanges
    /\ publishing' = TRUE
    /\ published' = published + 1
    /\ toOffer' = {s \in Subs : Mapped(s)}
    /\ UNCHANGED <<subscribers, chan, closed, dropped,
                   reader, received, since, replaced>>

\* Mutants: a drop is not counted; a subscription is visited twice; the send
\* waits for room.
OfferUncounted(s) ==
    /\ publishing
    /\ s \in toOffer
    /\ toOffer' = toOffer \ {s}
    /\ chan' = IF Len(chan[s]) < BufferSize[s]
               THEN [chan EXCEPT ![s] = Append(@, published)] ELSE chan
    /\ UNCHANGED <<subscribers, publishing, published, closed, dropped,
                   reader, received, since, replaced>>

OfferTwice(s) ==
    /\ publishing
    /\ s \in toOffer
    /\ Len(chan[s]) < BufferSize[s]
    /\ chan' = [chan EXCEPT ![s] = Append(@, published)]
    /\ UNCHANGED <<subscribers, toOffer, publishing, published, closed, dropped,
                   reader, received, since, replaced>>

OfferBlocking(s) ==
    /\ publishing
    /\ s \in toOffer
    /\ toOffer' = toOffer \ {s}
    /\ Len(chan[s]) < BufferSize[s]
    /\ chan' = [chan EXCEPT ![s] = Append(@, published)]
    /\ UNCHANGED <<subscribers, publishing, published, closed, dropped,
                   reader, received, since, replaced>>

\* ... visits the map in any order (Go randomises it), sending where the
\* buffer has room and counting a drop where it has not ...
Offer(s) ==
    /\ publishing
    /\ s \in toOffer
    /\ toOffer' = toOffer \ {s}
    /\ \/ /\ Len(chan[s]) < BufferSize[s]
          /\ chan' = [chan EXCEPT ![s] = Append(@, published)]
          /\ UNCHANGED dropped
       \/ /\ Len(chan[s]) >= BufferSize[s]
          /\ dropped' = [dropped EXCEPT ![s] = @ + 1]
          /\ UNCHANGED chan
    /\ UNCHANGED <<subscribers, publishing, published, closed,
                   reader, received, since, replaced>>

\* ... and releases the mutex.
PublishEnd ==
    /\ publishing
    /\ toOffer = {}
    /\ publishing' = FALSE
    /\ UNCHANGED <<subscribers, toOffer, published, chan, closed, dropped, reader,
                   received, since, replaced>>

-----------------------------------------------------------------------------
(* The reader of a channel: `for change := range ch` of CDC.OnChange.      *)

Receive(s) ==
    /\ reader[s] = "reading"
    /\ chan[s] # <<>>
    /\ received' = [received EXCEPT ![s] = Append(@, Head(chan[s]))]
    /\ chan' = [chan EXCEPT ![s] = Tail(@)]
    /\ UNCHANGED <<subscribers, toOffer, publishing, published, closed, dropped,
                   reader, since, replaced>>

\* Mutant: the end of the channel is not noticed.
ReceiveClosedIgnored(s) ==
    /\ reader[s] = "reading"
    /\ s \in closed
    /\ chan[s] = <<>>
    /\ UNCHANGED vars

\* A closed channel ends the range only when its buffer is empty.
ReceiveClosed(s) ==
    /\ reader[s] = "reading"
    /\ s \in closed
    /\ chan[s] = <<>>
    /\ reader' = [reader EXCEPT ![s] = "done"]
    /\ UNCHANGED <<subscribers, toOffer, publishing, published, chan, closed,
                   dropped, received, since, replaced>>

-----------------------------------------------------------------------------
Next ==
    \/ \E s \in Subs : Subscribe(s)
    \/ \E id \in Ids : Unsubscribe(id)
    \/ PublishBegin
    \/ \E s \in Subs : Offer(s)
    \/ PublishEnd
    \/ \E s \in Subs : Receive(s)
    \/ \E s \in Subs : ReceiveClosed(s)

Spec == Init /\ [][Next]_vars

(* A Publish that has the mutex goes on.  Nothing obliges anybody to       *)
(* subscribe, to unsubscribe, to publish, or to read: a reader that goes   *)
(* on reading is a premise of the property that needs it.                  *)
Fairness == WF_vars((\E s \in Subs : Offer(s)) \/ PublishEnd)

FairSpec == Spec /\ Fairness

KeepsReading(s) == WF_vars(Receive(s) \/ ReceiveClosed(s))

-----------------------------------------------------------------------------
(* What the broadcaster promises.                                          *)

\* No send on a closed channel and no double close (either panics): what
\* Publish has still to visit, and whatever the map holds for Unsubscribe to
\* close, is open.
NoSendOnClosed ==
    /\ toOffer \cap closed = {}
    /\ \A id \in Ids : subscribers[id] \notin closed

\* The last change offered to s: the running Publish may have yet to visit s.
LastOffered(s) == IF s \in toOffer THEN published - 1 ELSE published

\* A subscription in the map accounts for every change published since it
\* subscribed: its reader took it, its buffer holds it, or its drop counter
\* counts it.  Nothing is lost uncounted and nothing is counted twice.
EveryChangeAccounted ==
    \A s \in Subs : Mapped(s) =>
        since[s] + Len(received[s]) + Len(chan[s]) + dropped[s] = LastOffered(s)

\* Through the whole life of a subscription, over all interleavings of
\* Publish with the reader, changes come out in the order of publication,
\* none twice, and none older than the subscription.  A buffer of n keeps the
\* first n changes even for a reader that never runs: a drop is possible from
\* the n+1st change on.
InPublicationOrder ==
    \A s \in Subs :
        LET seen == received[s] \o chan[s] IN
        /\ \A i, j \in 1 .. Len(seen) : i < j => seen[i] < seen[j]
        /\ \A i \in 1 .. Len(seen) : since[s] < seen[i]
        /\ Mapped(s) =>
              \A i \in 1 .. Min({LastOffered(s) - since[s], BufferSize[s]}) :
                  i <= Len(seen) /\ seen[i] = since[s] + i

\* A reader waits for nothing, with its channel open and out of the map, if
\* and only if a later Subscribe with its id took its place while it was
\* there: no Unsubscribe leaves a reader behind, and no Unsubscribe of the id
\* ever ends the reader that was replaced.  (CDC.OnChange numbers its ids.)
OrphansWereReplaced ==
    replaced = {s \in Subs : reader[s] = "reading" /\ ~Mapped(s) /\ s \notin closed}

\* A reader that stalls for ever never holds up Publish: every Publish ends.
PublishNeverBlocks == publishing ~> ~publishing

\* Unsubscribing ends a reader that goes on reading, and only after it has
\* taken every change that was in its buffer when the channel was closed.
UnsubscribedReaderExits ==
    \A s \in Subs :
        KeepsReading(s) => (s \in closed ~> reader[s] = "done" /\ chan[s] = <<>>)
=============================================================================
