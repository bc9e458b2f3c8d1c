# phylax in TLA+

Specifications, model-checking configurations and machine-checked proofs for
phylax (`src/`), a change data capture client for PostgreSQL written in Go.
Each definition that models code is tied to its lines in `PROJECT.json` under
`map`. Line numbers below refer to the files of `src/`.

## 1. The system

phylax opens a logical replication session with a PostgreSQL server, decodes
the changes it streams, and hands each one to subscribers in the process
(callbacks, webhooks, SSE clients) or, for inserts on an outbox table, to a
delivery function with retries.

| Component | State it keeps | Operations | Model |
|---|---|---|---|
| Broadcaster (`broadcast.go`) | map id -> channel and drop counter, one mutex | `Subscribe`, `Unsubscribe`, `Publish`, `SubscriberCount`, `ChangesDropped` | `Broadcaster` |
| Outbox consumer (`outbox.go`) | a queue and a `sync.Once` per topic, a semaphore of 64, the ack mutex, three counters | `Handle`, `enqueue`, a drainer goroutine per topic, `deliverWithRetry`, `ack`, `Stats` | `OutboxConsumer`, `OutboxPromise`, `Pipeline` |
| Replication stream (`stream.go`) | `lastLSN`, `serverWALEnd`, `replyNow`, the relation cache | `Run`, `handleCopyData`, `heartbeatLoop`, `sendStatusUpdate`, `ReplicationLag` | `ReplicationStream`, `Pipeline` |
| CDC client (`cdc.go`) | subscriber ids, the current stream, the delivery function | `OnChange`, `Start`, `runOnce`, `retryable`, `unsubscribeAll`, `MetricsSnapshot` | `CDC`, `Clients` |
| Slot, publication, connections (`slot.go`, `publication.go`, `connect.go`, `replication.go`) | none; the state is the server's | `EnsureReplicationSlot`, `SlotConfirmedFlushLSN`, `EnsurePublication` | steps of `CDC` and `ReplicationStream` |
| Decoder (`decode.go`) | the relation cache | `Decode` | `Decode` |
| SSE server (`sse.go`, `dashboard.go`) | the `http.Server`, subscriber numbers | `Serve`, `Shutdown`, two handlers | `Clients` |
| Metrics (`metrics.go`) | a counter | `MetricsSnapshot` | the counters in `Decode`, `OutboxConsumer`, `Broadcaster` |
| Commands (`cmd/phylax`, `cmd/sse-client`) | the webhook semaphore | webhook pool with retries | `Webhook` / not modelled |
| Dashboard page (`dashboard.html`) | what it displays | | not modelled |

How they interact:

```
 PostgreSQL --XLogData, keepalive--> Run / handleCopyData --lastLSN--> heartbeatLoop --status update--> slot
                                        |            |
                              outbox insert      any other change
                                        |            |
                           OutboxConsumer.Handle   Broadcaster.Publish --> readers (OnChange, SSE)
                                        |
                      drainer per topic --> DeliveryFunc --> ack (UPDATE on its own connection)
```

All of the left side runs on the goroutine of `Run`: whatever blocks in
`Handle` or in `Publish` blocks WAL consumption. The heartbeat goroutine shares
only the atomic `lastLSN` and the one-place channel `replyNow` with it. A
drainer shares its queue with the loop, and the ack mutex with other drainers.
`CDC.Start` runs sessions one after another; drainers outlive a lost session,
because they end only with the context of `Start`. The webhook of the `phylax`
command is one more reader of the broadcaster, with a pool of goroutines behind
it.

What is hard: readers interleave with a `Publish` half way through its map;
the position is stored before the change is handled and may be reported in
between; positions are not monotonic; connections and processes die between any
two steps; retries must keep the order of a topic; one step of several fails
(delivery without ack, slot without publication); queues, buffers, the
semaphore and the server's connections have limits. `PROJECT.json` lists each
of these under `hazards`, at its line, with the properties that would catch it.

What makes each component correct:

- Broadcaster: no send on a closed channel, no uncounted loss, order, `Publish`
  never blocks, readers end.
- Outbox: strict order within a topic, no row lost or delivered twice by one
  consumer, bounded goroutines, the gauge returns to zero, only delivered rows
  are marked, every accepted row is settled, cancellation ends everything.
- Stream and slot: no position ever reaches the slot ahead of a change that was
  not handed on, over any sessions; every change is handed on, up to one that
  cannot be decoded, which nobody skips; the slot advances.
- Pipeline: a row the server will not send again was settled or is in memory,
  unless its queue was full; every row gets somewhere. (At least once and in
  order, as the docs promise, it is not: see the violations.)
- Decoder: a change comes out as it was written whatever has become of the
  schema since, the decoder never falls out of step, each change counts once.
- Webhook: as many tokens out as posts under way, every accepted change posted
  or given up, a bounded loss at the end of the program.
- Clients: a handler that serves is subscribed, nobody ends another's
  subscription, nobody leaves one behind, goroutines end with `Start`, `Serve`
  ends with `Shutdown`.
- CDC: never stream without slot and publication; retry transient failures and
  those only; return on cancellation.

## 2. Modules

| Module | Content |
|---|---|
| `Broadcaster` | the fan-out and its readers |
| `MCBroadcaster` | three subscriptions, two of them under one id |
| `BroadcasterProofs` | theorems |
| `OutboxConsumer` | the delivery pipeline of one session, and its mapping to `OutboxPromise` |
| `OutboxPromise` | what a caller may rely on: lanes of rows, no goroutines |
| `MCOutboxConsumer` | two topics, two drainers |
| `OutboxConsumerProofs` | theorems: drainers, order, rows, counters, tokens; `OutboxConsumer` implements `OutboxPromise` |
| `ReplicationStream` | receive loop, heartbeat, slot; sessions in sequence |
| `MCReplicationStream` | a log with adjacent commit records |
| `ReplicationStreamProofs` | theorems |
| `Pipeline` | extends `ReplicationStream` by the outbox consumers of the sessions |
| `MCPipeline` | a log of two overlapping transactions |
| `PipelineProofs` | theorems |
| `Decode` | the decoder against a server whose schemas change |
| `MCDecode` | two tables and their schemas |
| `DecodeProofs` | theorems |
| `CDC` | the life of a client: setup steps, retries, cancellation, server faults |
| `CDCProofs` | theorems |
| `Clients` | registrations and SSE handlers on one `Broadcaster` (`INSTANCE`), `Serve` and `Shutdown` |
| `MCClients` | a registration and two requests, to one `Server` or to one each |
| `ClientsProofs` | theorems; `Clients` implements `Broadcaster` |
| `Webhook` | the callback, the semaphore and the posts of the `phylax` command |
| `WebhookProofs` | theorems |

Definitions whose name extends the name of an action or operator, under a
comment that begins with "Mutant", are plausible bugs: each property of each
passing run is violated when the definition is replaced by one of them (listed
under `mutants`).

### Broadcaster

`subscribers` is the map of the code; a member of `Subs` is one call of
`Subscribe` with its channel (`chan`, `closed`), its drop counter and the
goroutine that reads it. `replaced` records, for the history, which subscription
a `Subscribe` found in the map under its id. `Publish` is split into `PublishBegin` (takes the
mutex), one `Offer` per subscription in any order (the `select` with `default`)
and `PublishEnd`; `Subscribe` and `Unsubscribe` wait for the mutex and are one
step each. `Receive` and `ReceiveClosed` are the `for range` of `OnChange` and
need no mutex. Changes are numbered in the order of publication.

### OutboxConsumer

The receive loop (`rpc`) is in `Handle` or not. `Handle(t)` or
`HandleMalformed` receive a row, `StartDrainer` is the body of `once.Do` (the
blocking send on the semaphore and the `go`), `Enqueue` and `DropRow` the
`select` with its two-second timer. Each drainer (`dpc`) is in its `select`, in
the user's function (`deliver`), in a backoff, waiting for the ack mutex
(`ack`), or in the `UPDATE` (`exec`). `fate` and `acked` record what became of
each row. Times are abstracted: a timer may fire whenever it runs; `DropRow`
needs a queue that is full, since a waiting sender is served the moment there
is room.

`OutboxPromise` is the abstract specification: rows of a topic form a lane and
leave it from its head, delivered, failed or (after a cancellation) abandoned;
a row is refused only on arrival and only behind a full queue. The mapping in
`OutboxConsumer` makes a lane of the row in the drainer's hands, the queue and
the row in the receive loop's hands.

### ReplicationStream

The WAL is a fixed log of messages in the order the server sends them
(transactions in commit order). `Start[i]` and `Length[i]` are `WALStart` and
`len(WALData)`; `Commit[i]` is the commit position of the message's
transaction. When a session starts at a position, the server sends the
transactions that did not commit before it (`FirstFrom`); that is how
PostgreSQL's logical decoding skips transactions, and it is marked external.
`Pos(i)` is the position `handleCopyData` stores. `ReceiveData` stores it,
`HandleData`/`RejectData` decode and hand on; between them the heartbeat may
load it (`HeartbeatWake`), send it (`HeartbeatSend`), and the server may move the
slot (`ServerFeedback`). `Drop`, `Crash` and `GracefulStop` end sessions
anywhere; `ReadSlot` and `StartReplication` open the next one. `SlotMayGoBack`
covers both kinds of server: older ones set the slot to any reported position,
newer ones never lower it.

`undecodable` are the messages `Decode` fails on, any of those in `Rejected`. It
never changes: the server sends the same message in every session, `Decode`
fails on it again, and `Start` goes on opening sessions. Handing on cannot fail
otherwise, as the change handler of `Start` returns no error.

### Pipeline

`ReplicationStream` sees the end of a change when it is handed on. `Pipeline`
adds what becomes of it if it is an outbox row: each session has a consumer of
its own (`lane[k]`, the rows in delivery or queued, of one topic, in order),
`HandOn` extends `HandleData` by the row that goes to the session's consumer,
or that it gives up because the queue is full (`QueueCap`, 256 in the code); the
two seconds that `enqueue` holds the receive loop before are time it spends in
`pc = "handle"`. `Settle` takes the row at the head of a consumer's lane,
delivered or given up. `OutboxPromise` is the reason why a lane is enough. With
one topic a consumer never waits for the token of its drainer (`EnoughTokens`);
that wait is in `OutboxConsumer` and its run `outbox_few_tokens`. `SessionEnds`
leaves the consumers as they are, since their context is that of `Start`;
`ProcessEnds` (`Crash`, `GracefulStop`, or the end of the process between two
sessions) empties them all into `lost`, where refused rows are as well.

### Decode

The server keeps a schema for each table, describes a table
(`RelationMessage`) before the first row of it that it sends in a session and
again after each `Alter`; rows travel without names, on a `wire`. That is
external, and so is PostgreSQL's choice of old rows: none, or the key's. A row
maps each column to "n" (NULL), "u" (unchanged TOAST) or "t" (text), and the text
of a value is abstracted to the name of the column it was written to, so that a
value under another name shows. A message also says, for the history, what was
written (`meant`) and how many changes were written before it (`before`).
`DecodeRelation`, `DecodeRow` (`Insert`, `Update`
and `Delete`, which differ in their rows only) and `DecodeTruncate` are the
branches of `Decode`; `TupleToMap` is `tupleToMap`. `NewSession` begins with an
empty cache and new counters, as `NewReplicationStream` does.

### CDC

`pc` walks through the steps of `runOnce` and the loop of `Start`. Each step may
fail because the context is cancelled, because the server refuses (`Refuses`
names the steps where it may do so for good), or because the server stops
(`Outage`). `acks` counts the ack connections the server serves; the code never
closes one, so it goes only when the server stops, the process dies, or the
garbage collector finds it unreferenced (`Collect`). A drainer blocked in its
`select` refers to its consumer and so to the connection (`held`).

### Clients

Composes `Broadcaster` with those who subscribe to it, and `Fanout` is the mapping
back: a handler that has left its loop, its channel still open, is for the
broadcaster a reader that never reads again (`Waiting`). A registration records
its id under the mutex of the CDC (`RecordID`) and subscribes without it
(`SubscribeRegistration`); `TakeIDs` and `UnsubscribeNext` are `unsubscribeAll`,
which takes the recorded ids under the mutex and unsubscribes them one by one
without it. A request is accepted, subscribes, sends events, and ends when its
client is gone: `LeaveLoop` stands for a write that fails and for the context
of the request. `SubscriberID` is the id as the code makes it: one number series
for registrations, and one for each `Server`. `ServeMakes`/`ShutdownMakes` are
`httpServer` and its twin in `Shutdown`; `http.Server` itself is modelled by its
in-shutdown flag (`down`), which `Serve` checks when it gets its listener. One
`Shutdown` per `Server`; it may return before the handlers have ended, as the
code's does when its context expires.

### Webhook

Every change has a place (`fate`): the subscriber's channel, the callback, a
post under way or its backoff, or the end. `Publish`, `Receive` and `Spawn` are
the broadcaster's select, the loop of `OnChange` and the callback of
`registerWebhook`; `PostOK`, `PostFails`, `Retry` and `GiveUp` are
`postWithRetry`. A post that fails may have reached the endpoint. `StartReturns`
and `Exit` are the rest of `run` and `main`: what `Exit` finds under way is never
done.

## 3. Runs

Deadlock checking is off throughout: every model stops when its bound of
changes, rows or sessions is used up, or when the program has returned.

Runs that pass:

| Run | Shows |
|---|---|
| `broadcaster` | no send on a closed channel; every change received, buffered or counted as dropped; order, and the first changes kept up to the size of the buffer; every `Publish` ends though readers stall; a reader is orphaned exactly if a later `Subscribe` took the place of its id, and one that keeps reading ends when it is unsubscribed |
| `outbox` | order within a topic, conservation of rows, counters, semaphore; refinement of `OutboxPromise`; rows are settled; the receive loop gets on; after a cancellation all drainers end and all tokens return |
| `pipeline` | with messages that fail to decode in every session, full queues, lost connections, crashes and stops: no position from the receive loop to the slot is ahead of a row not handed on; a row that is not sent again is settled or in memory unless its queue was full or the process ended; nobody gets past a row that cannot be decoded, and every row before it gets somewhere; if all can be decoded, the slot comes to rest at the position of the receive loop |
| `cdc_life` | never streaming without slot and publication; refusals, and only those, end `Start`; streaming again after any other fault; return on cancellation |
| `clients` | a handler that serves is subscribed on an open channel; a client that goes away, however early, leaves no subscription; registrations end with `Start`; once `Shutdown` is called `Serve` ends |
| `webhook` | the tokens out are the posts under way, on whichever way they end; every accepted change is posted or given up; what the end of the program takes is bounded by channel, callback and tokens |
| `decode` | though schemas change while messages are under way, the decoder stays in step with the server, gives back each change as it was written, and counts it once |

Runs that find a violation of what the repository says. Each is a finding in
`PROJECT.json`, with the sentence it contradicts:

| Run | The code |
|---|---|
| `outbox_few_tokens` | the topic after the last token blocks the receive loop for ever |
| `stream_adjacent_commits` | `WALStart + len(WALData)` may lie beyond the next commit, whose change is then never sent |
| `pipeline_crash` | the slot moves past rows that are in a queue; after a crash they are neither sent again nor delivered |
| `pipeline_reconnect` | a consumer that outlives its session delivers a row after the next session's consumer has delivered a later one |
| `cdc_slot_active` | 55006 after a reconnect counts as permanent |

Further disagreements between docs or comments and code that the modules show in
their actions, without a run of their own:

- No status update is sent on a graceful stop, so changes since the last
  heartbeat are replayed (`GracefulStop`, stream.go:171, against README.md:82).
- Two `Server`s of one client both number their connections from `sse-1`
  (sse.go:162, against sse.go:159-161): with `Servers <- MCTwoServers` and
  `ServerOf <- MCServerOfTwo` in `MCClients.cfg`, `ServedWhileConnected` fails.
- Ack connections are never closed (`OpenAck`, cdc.go:221, against cdc.go:128-129
  and 137-138): with outbox rows, lost sessions use up the server's connections.
  With `OutboxInUse = TRUE` in `CDCLife.cfg`, `StreamsInTheEnd` fails.
- The changes a webhook has in its channel, in posts or in backoffs when the
  program ends are gone, the slot being past them (`Exit`, main.go:130, against
  README.md:252); `LossBounded` says how many.
- The old row of an update or a delete has a NULL for every column that is not
  of the key (`KeyRow`, decode.go:34-35), which a reader cannot tell from a NULL in
  the table.
- The ack names the table `outbox` whatever is configured, so with another one no
  row is ever marked (`AckTable`, outbox.go:202, against outbox.go:24).
- A registration that has recorded its id and not yet subscribed when `Start`
  returns is never unsubscribed, and its goroutine stays (`late` in `Clients`,
  cdc.go:115, against cdc.go:108-109).
- `delivered` counts rows whose ack failed (`Ack`, outbox.go:190, against
  outbox.go:54).
- A full queue drops the row after two seconds (`DropRow`, outbox.go:163, against
  outbox.go:141-142).
- "Schema changes can desync decoding" (README.md:260, and README.md:38) is more
  cautious than the code: `decode` and its theorems find no change of schema that
  does. They rest on the server (`Alter`, `Send`: external), which describes a
  table again before its next row; `DecodeRelation` replaces the description
  (decode.go:59). The DDL itself is not reported: a reader finds other columns.
- `lastLSN` is the latest, not the highest position (`ReceiveData`,
  stream.go:272, against stream.go:42).
- An `ErrorResponse` while streaming is retried however permanent it is
  (`StreamRefused`, stream.go:183, against cdc.go:134-135).

### Bounds

- Broadcaster: 3 subscriptions, two of them under one id (as two `Server`s on
  one broadcaster make them) and one alone (as `OnChange` does), buffers of 1, 2
  and 1, 3 changes. Buffers overflow, recover and overflow again; a mapped, an
  overwritten and an unsubscribed subscription exist side by side.
- Outbox: 2 topics, 2 drainers (a third can never exist: one per topic), a
  queue of 1, one retry, 3 rows. Three rows of one topic give one in delivery,
  one queued and one refused; of two topics, one lane that is busy and one that
  starts. A single retry shows a row waiting in a backoff with others behind it.
- Pipeline: 4 messages in 2 transactions that overlap, 3 sessions, 1 status
  update in flight; every session boundary falls anywhere in the log. Either
  change, both or none cannot be decoded. The bound on sessions applies to faults
  too, so that the last session finishes or ends at such a change, as all later
  ones would. Queues hold one row in `pipeline`, where the second row may find
  the first in its way, and 256, as in the code, in the two runs about
  deliveries. The log leaves out the
  `RelationMessage`s, which PostgreSQL sends with a `WALStart` of 0; the theorem
  `PositionsSafe` covers them. `stream_adjacent_commits` has a log of its own.
- CDC: 4 faults, 3 connections (2 faults in `cdc_slot_active`). The admin
  connection and the ack connections of two sessions then compete. `cdc_life`
  has no outbox rows and a server that has noticed the lost connection when a
  backoff ends; `cdc_slot_active` drops the second restriction.
- Clients: one registration, two requests, buffers of 1, one change: the steps
  that matter here are those of coming and going, and `broadcaster` has the
  longer publications. One change is enough for a buffer that is full when its
  registration is unsubscribed.
- Webhook: 5 changes, a channel of 1, 2 tokens, the code's 3 attempts. Then both
  tokens are out, the callback waits with the third change, the channel holds the
  fourth and the fifth is dropped.
- Decode: 2 tables, one with three schemas (columns swapped; renamed with a column
  more), 2 messages on the wire when another is sent, 2 changes in a session, 2
  sessions: a row can be on its way in an old schema while its table has the next
  one, and a truncate can need a description of each table.

### Fairness

- Goroutines that can run do; timers fire; the delivery function and SQL
  statements return. (`WF` on each such step. That a delivery function returns
  is the user's business: a hanging one stops its topic, see `hazards`.)
- The ack mutex is fair to a waiter (`SF` on `LockAck`): Go's mutex goes into
  starvation mode after a millisecond.
- The steps of a session are taken while there are any (one `WF` for the
  program), the heartbeat's ticker ticks, and the server reads the status updates.
  Data arrives over a connection that is up even if keepalives keep coming (`SF`
  on `ReceiveData`). Some drainer is done with its row as long as there are rows
  (`Pipeline`; `outbox` shows it for each).
- An outage ends, a dead walsender releases its slot, the collector runs, and
  somebody starts the program again after a crash (`CDC`).
- Calls that were made go on: `OnChange` and the handlers get the mutex (it is
  held by `Publish` alone, which ends), the callback returns, and a handler
  finds out that its client is gone, by its heartbeat at the latest (`Clients`).
- The goroutines of the webhook get on; the HTTP client's timeout of ten seconds
  ends every post (`Webhook`). `Start` need not return.
- Nothing obliges rows, changes, faults, deliveries that succeed, subscriptions
  or cancellations to happen. Readers of the broadcaster have no fairness at
  all; `UnsubscribedReaderExits` has the reader's as its premise.

`SlotFollows` supposes that all messages can be decoded: otherwise session after
session ends at the same message, and `lastLSN` goes back and forth with each. It
says that the slot comes to rest at `lastLSN` of the last session, not at the end of
the log: on a server that lowers the slot to any position reported
(`SlotMayGoBack = TRUE`), the heartbeat of a session that has nothing left to
receive reports the position it resumed from. Nothing is lost by it.

## 4. Proofs

`tlapm` checks all proofs; nothing is assumed but the named assumptions on the
constants (`BroadcasterAssumption`, `OutboxAssumption`, `StreamAssumption`,
`PipelineAssumption`, `CDCAssumption`, `ClientsAssumption`, `WebhookAssumption`,
`DecodeAssumption`) and,
where a theorem says so, a condition on the log, the server, the numbering or the
number of topics. Every invariant that a passing run checks is stated by a theorem.

**Broadcaster.** `TypeCorrect`; `NoSendOnClosedChannel` rests on
`MapConsistent`: what the map holds subscribed under that very id, is open,
and what `Publish` has still to visit is in the map. A subscription that was
overwritten is not in the map and so never closed nor visited. `Accounting`
adds the equation of `EveryChangeAccounted`, which is inductive once
`MapConsistent` says who is visited. `ReadersHaveASource` proves
`OrphansWereReplaced`: the step that puts a reader among the replaced ones is the
one that takes it out of the map without a close, since what the map holds is
subscribed, open (`NoSendOnClosed`) and so not ended (`EndedHasAll`). `PublicationOrder` is three invariants: what
a reader has seen ascends, lies between the subscription and the last change that
was offered to it, and begins with the first changes up to the size of the buffer.
The last is inductive because of the accounting equation: while nothing was
dropped, what is seen is exactly as long as what was offered, and while fewer
changes were offered than the buffer holds, nothing can be dropped. Two theorems
say what a close means: `EndedReadersHaveAll`, that a reader ends only on a closed
channel that it has emptied, and `ClosedIsSettled`, an action property, that
nothing is added after the close. Both come from `NoSendOnClosed`: a `Publish` under
way has no closed channel left to visit.

**Outbox.** `OutboxTypeCorrect`; `DrainersAreBounded` (with `OnceInv`: a topic's
once has run exactly if a drainer serves it, and two drainers serve different
topics); `AckedWereDelivered`, `AcksAreSerial`, `FatesAreFinal`. The main result
is `DeliveredInOrder`. `InOrderWithinTopic` alone is not inductive: it speaks
of settled rows only. `LaneInv` places every row that is under way:
the row in the loop's hands is the newest and open (`LoopRows`), queues hold
open rows of their topic in increasing order (`QueuedRows`), the row in a
drainer's hands precedes its queue (`HeldRows`), and `RowsLocated` says that an
open row is in one of these three places. A drainer that settles its row then
settles the oldest open row of its topic.

`RowsInOnePlace` counts what `LaneInv` and `RowsLocated` say: queues are strictly
increasing, so a row has one slot at most, and with `CapInv` (no queue is longer
than its capacity) every slot is one that `QueueSlots` looks at. `CountersAreRight`
follows from `CountInv`, the same equations over sets of goroutines and rows; each
step moves one element of these sets or none. `ImplementsThePromise` shows that
every step maps to a step of `OutboxPromise` or a stutter: a row joins its lane in
`Handle`, leaves it in `DropRow`, `DeliverOK`, `DeliverGiveUp` or
`BackoffCancelled`, and moves inside it in `Enqueue` and `Take`, which change the
parts of the lane and not the lane. That a topic has one drainer (`DrainerInv`) is
what makes the row in a drainer's hands the head of the lane.

`EnoughTokens` is the other side of the run `outbox_few_tokens`: with at most as
many topics as the semaphore has tokens (64 in the code), a token is free whenever
`Handle` asks for one, however slow the deliveries are. Live drainers serve
different topics, and none of them the new one.

(`AckedOnlyIfDelivered`, `OneAckAtATime` and `FateIsFinal` are stated in the
module and proved; no run spends time on them.)

**Stream.** `PositionsSafe` proves `EveryPositionSafe` for every log, any
faults, any number of sessions and of updates under way, and `NothingIsLost`
follows. The inductive invariant adds `SessionContiguous`: what a session has
behind it is handed on, but for the message in hand. The assumption
`NoOvershoot` says that no message ends beyond the commit record of a change
sent with or after it. It is a property of the log and not of the program, and
it is needed: `stream_adjacent_commits` is a log that breaks it, and there the
code loses a change. A message longer than the WAL it stands for (a value that
was compressed, or bytes that pgoutput writes in hexadecimal) may break it too.
`RejectedIsNeverSkipped` proves `NothingPastRejected` on the same condition: a
change that cannot be decoded is not handed on, so by `PositionsSafe` no position is
ahead of it, every session is sent it, and none has more than it in hand
(`NonePassed`).

**Pipeline.** `RowsAreKept` builds on `PositionsSafe`, which holds here because
every step is one of the sessions' or leaves them alone (`PipelineSessions`, by the
shape of the actions: it says nothing about how long a full queue holds the receive
loop). `RowsInv` says that every row handed on is settled, lost, refused by a full
queue, or waiting in a lane, and a row the slot is past was handed on. `NoOvershoot` is needed here too. `EachConsumerInOrder` needs
no condition: a consumer has its rows in the order of the log, none twice, because
those of the present session are behind what it has yet to hand on and a session to
come begins with a consumer that has none (`LanesBehind`). So the disorder that
`pipeline_reconnect` finds is between consumers and never within one.

**CDC.** `SetupComplete` rests on `SetupInv`, which says what each step of
`runOnce` finds done; a crash between slot and publication ends the walk, and the
next one starts over. `AckInv` keeps the references to ack connections below the
number the server serves. `OnlyPermanentErrors` assumes `~SlowServer`: then no
session begins with the slot still active (`ErrorInv`). Without it,
`cdc_slot_active` is the counterexample.

**Clients.** `ServedWhoeverLeaves` assumes that no two connections have one
number, as those of one `Server` do not. Then ids differ (`IdsDiffer`), a handler
that has not subscribed is neither in the map nor closed, and unsubscribing an id
hits its owner only. What `unsubscribeAll` has taken are ids of registrations
(`ClosingOK`). `NobodyLeftBehind` needs no such condition: no registration that
subscribed in time survives `Start` (`RegistrationsClosed`), and a handler that is
gone is not in the map (`GoneNotMapped`). The ids of registrations and of handlers
never coincide, and each registration's id is in the hands of the one who will
unsubscribe it (`RegistrationOK`): recorded, taken, or done. `ClientsUseBroadcaster`
shows that every step is one of `Broadcaster` or none of its steps. What is proved
of `Broadcaster` holds of the clients with that; the prover does not cite a theorem
of another module through `INSTANCE`, so those instances are not repeated here.

**Decode.** `TypeOK`, `InStep`, `RowsAsWritten` and `EveryChangeCounted` follow from
one invariant (`DecodeInductive`). Its centre is `Knows`: what the cache will hold
for a table when message i is decoded, that is the description sent last before i,
or what the cache has now if there is none. `Right` says that a row or a truncate is
decoded under the very schema it was built under, however the table was altered
since and whatever else is on the wire; a change of schema at the server touches no
message that is on its way, and a table with a new schema is described again before
its next row. `NamesPutBack` is the lemma about `TupleToMap`: of a tuple built from a
row under a schema whose columns have different names, it gives back that row.
`Counted` chains the numbers of the messages, so that the count needs no sum over
the wire. `DecodeAssumption` says that columns of one table have different names and
that `Null` is not a value of another kind.

**Webhook.** `PostsAreBounded` is an equation between a counter and the size of a
set, inductive as it stands. `LossIsBounded` counts: what is untraced at the end is
queued, in the callback or with a post, and each of these is bounded (`PlaceInv`).

**Model-checked only.** The liveness properties: `tlapm` does not reason about
fairness. They are `PublishNeverBlocks` and `UnsubscribedReaderExits`,
`EveryRowSettles`, `NeverBlocksReceiveLoop` and `CancellationEndsDelivery`,
`EveryRowSettled` and `SlotFollows`, `StreamsInTheEnd` and
`CancelReturns`, `NoGhosts`, `RegistrationsEnd` and `ShutdownEndsServe`, and
`EveryChangePosted`. Their safety parts, where they have one, are among the
theorems: `EndedReadersHaveAll`, `EnoughTokens`, `NobodyLeftBehind`.

## 5. Not modelled, and why

- Contents of messages, rows and SQL texts; logging; formatting of JSON.
- Durations. Timers fire at any time; that a backoff lasts a second and longer
  appears in `CDC` only as "the server has noticed the lost connection, or
  (`SlowServer`) has not".
- `sse-client` and the dashboard page: no state that the rest depends on.
- `NewMetricsHandler` and the dashboard handler: they keep no state and end like
  a handler of `/events`. A marshalling error ends a handler like a failed write.
- `SubscriberCount`, `ChangesDropped`, `Stats`, `MetricsSnapshot`: they only
  read; what they read is in the modules above.
- `ReplicationLag`: reads three variables and a clock, changes nothing, and
  nothing in the program acts on it.
- Configuration (`config.go`), flags, printing to stdout: input and output.

## 6. Plan

Done: every component that keeps state, and the composition of sessions with
consumers (`Pipeline`) and of subscribers with the broadcaster (`Clients`).

What remains: `Pipeline` with more than one topic, by way of `OutboxPromise`.
