-------------------------------- MODULE CDC --------------------------------
(***************************************************************************)
(* The life of a CDC client (src/cdc.go): Start runs one replication       *)
(* session after another (runOnce), waits between them, and gives up on an *)
(* error that retryable does not call transient.  A session opens the      *)
(* replication, the admin and the ack connection, makes sure that the slot *)
(* (src/slot.go) and the publication (src/publication.go) exist, and       *)
(* streams.  What streaming does is the subject of ReplicationStream; how  *)
(* long a backoff takes is left out.                                       *)
(*                                                                         *)
(* The server and the network fail now and then.  A fault that hits a      *)
(* session makes the call it is in return an error; a CREATE whose answer  *)
(* is lost is a CREATE that succeeds before a fault of the next call.      *)
(***************************************************************************)
EXTENDS Integers, FiniteSets

CONSTANTS
    Refuses,         \* the steps at which the server may refuse for good
    SlowServer,      \* whether it may still hold the slot for a dead connection
                     \* when the backoff has elapsed
    OutboxInUse,     \* whether sessions deliver outbox rows
    MaxConnections,  \* how many ordinary connections the server serves
    MaxFaults        \* bound: how many outages, lost connections and crashes

ASSUME CDCAssumption ==
    /\ SlowServer \in BOOLEAN /\ OutboxInUse \in BOOLEAN
    /\ MaxConnections \in Nat /\ MaxFaults \in Nat

VARIABLES
    pc,           \* where Start is
    err,          \* lastErr
    cancelled,    \* the context is cancelled
    open,         \* which of the connections "repl" and "admin" are open
    acks,         \* how many ack connections (outboxConn) the server serves
    held,         \* those of them that only drainers of earlier sessions refer to
    current,      \* the one of the stream that c.stream points to is served
    slot,         \* "none", "idle", or "active": held by a walsender
    publication,  \* the publication exists
    up,           \* the server answers
    faults,       \* how many faults there were
    result        \* what Start returned: "none" yet, "nil", or an error

server == <<slot, publication, up>>
ackVars == <<acks, held, current>>
vars == <<pc, err, cancelled, open, acks, held, current, slot, publication, up,
          faults, result>>

\* The steps of runOnce that talk to the server.
Session == {"repl", "admin", "position", "slot", "publication", "ackconn",
            "stream", "run"}

Errors == {"unavailable", "too_many", "lost", "cancelled",
           "refused",       \* a PgError with any other SQLSTATE
           "slot_active",   \* one of them: 55006, object_in_use
           "server_error"}  \* an ErrorResponse that Run turned into a text

TypeOK ==
    /\ pc \in Session \cup {"ended", "backoff", "shutdown", "returned", "down"}
    /\ err \in Errors \cup {"none"}
    /\ cancelled \in BOOLEAN
    /\ open \in SUBSET {"repl", "admin"}
    /\ held \in Nat /\ current \in BOOLEAN
    /\ acks \in Nat
    /\ held + (IF current THEN 1 ELSE 0) <= acks
    /\ slot \in {"none", "idle", "active"}
    /\ publication \in BOOLEAN /\ up \in BOOLEAN
    /\ faults \in 0 .. MaxFaults
    /\ result \in Errors \cup {"none", "nil"}

Init ==
    /\ pc = "repl" /\ err = "none" /\ cancelled = FALSE /\ open = {}
    /\ acks = 0 /\ held = 0 /\ current = FALSE
    /\ slot = "none" /\ publication = FALSE /\ up = TRUE
    /\ faults = 0 /\ result = "none"

-----------------------------------------------------------------------------
(* runOnce.                                                                *)

\* Mutant: the deferred calls of Close are missing.
EndSessionOpen(e) ==
    /\ pc' = "ended"
    /\ err' = e
    /\ UNCHANGED open

\* It returns e; the deferred calls close two of the three connections.
EndSession(e) ==
    /\ pc' = "ended"
    /\ err' = e
    /\ open' = {}

\* The context is cancelled during the call, or the server refuses.
StepFails ==
    /\ \/ cancelled /\ EndSession("cancelled")
       \/ pc \in Refuses /\ EndSession("refused")
    /\ UNCHANGED <<cancelled, ackVars, server, faults, result>>

HasRoom == acks + (IF "admin" \in open THEN 1 ELSE 0) < MaxConnections

OpenRepl ==
    /\ pc = "repl"
    /\ \/ /\ up
          /\ open' = {"repl"}
          /\ pc' = "admin"
          /\ UNCHANGED err
       \/ ~up /\ EndSession("unavailable")
    /\ UNCHANGED <<cancelled, ackVars, server, faults, result>>

OpenAdmin ==
    /\ pc = "admin"
    /\ \/ /\ HasRoom
          /\ open' = open \cup {"admin"}
          /\ pc' = "position"
          /\ UNCHANGED err
       \/ ~HasRoom /\ EndSession("too_many")
    /\ UNCHANGED <<cancelled, ackVars, server, faults, result>>

\* IdentifySystem, then SlotConfirmedFlushLSN.
ReadPosition ==
    /\ pc = "position"
    /\ pc' = "slot"
    /\ UNCHANGED <<err, cancelled, open, ackVars, server, faults, result>>

\* Mutant: who finds the slot takes the publication to exist as well.
EnsureReplicationSlotOnly ==
    /\ pc = "slot"
    /\ slot' = IF slot = "none" THEN "idle" ELSE slot
    /\ pc' = IF slot = "none" THEN "publication" ELSE "ackconn"
    /\ UNCHANGED <<err, cancelled, open, ackVars, publication, up, faults, result>>

EnsureReplicationSlot ==
    /\ pc = "slot"
    /\ slot' = IF slot = "none" THEN "idle" ELSE slot
    /\ pc' = "publication"
    /\ UNCHANGED <<err, cancelled, open, ackVars, publication, up, faults, result>>

EnsurePublication ==
    /\ pc = "publication"
    /\ publication' = TRUE
    /\ pc' = "ackconn"
    /\ UNCHANGED <<err, cancelled, open, ackVars, slot, up, faults, result>>

\* Mutant: the acks go over the admin connection.
OpenAckShared ==
    /\ pc = "ackconn"
    /\ pc' = "stream"
    /\ UNCHANGED <<err, cancelled, open, ackVars, server, faults, result>>

OpenAck ==
    /\ pc = "ackconn"
    /\ \/ /\ HasRoom
          /\ acks' = acks + 1
          /\ pc' = "stream"
          /\ UNCHANGED <<err, open>>
       \/ /\ ~HasRoom
          /\ EndSession("too_many")
          /\ UNCHANGED acks
    /\ UNCHANGED <<cancelled, held, current, server, faults, result>>

\* NewReplicationStream; c.stream then points to the new stream.  The old one
\* is garbage, unless a drainer of its outbox consumer still runs.
StartStream ==
    /\ pc = "stream"
    /\ \/ /\ slot = "idle"
          /\ slot' = "active"
          /\ pc' = "run"
          /\ current' = TRUE
          /\ held' \in IF current /\ OutboxInUse THEN {held, held + 1} ELSE {held}
          /\ UNCHANGED <<err, open>>
       \/ /\ slot = "active"
          /\ EndSession("slot_active")
          /\ UNCHANGED <<slot, held, current>>
    /\ UNCHANGED <<cancelled, acks, publication, up, faults, result>>

\* The server breaks off with an ErrorResponse.
StreamRefused ==
    /\ pc = "run" /\ "run" \in Refuses
    /\ EndSession("server_error")
    /\ UNCHANGED <<cancelled, ackVars, server, faults, result>>

-----------------------------------------------------------------------------
(* Start.                                                                  *)

\* Mutant: too_many_connections is not on the list.
RetryableFew(e) == e \in {"unavailable", "lost", "server_error"}

\* A PgError is transient if its SQLSTATE is on a list, anything else is.
retryable(e) == e \in {"unavailable", "too_many", "lost", "server_error"}

Decide ==
    /\ pc = "ended"
    /\ pc' = IF cancelled \/ ~retryable(err) THEN "shutdown" ELSE "backoff"
    /\ UNCHANGED <<err, cancelled, open, ackVars, server, faults, result>>

\* sleepCtx returns.  In a second a server that is not slow has noticed that
\* the last connection is gone.
BackoffElapsed ==
    /\ pc = "backoff"
    /\ SlowServer \/ slot # "active"
    /\ pc' = "repl"
    /\ UNCHANGED <<err, cancelled, open, ackVars, server, faults, result>>

BackoffCancelled ==
    /\ pc = "backoff"
    /\ cancelled
    /\ pc' = "shutdown"
    /\ UNCHANGED <<err, cancelled, open, ackVars, server, faults, result>>

\* unsubscribeAll, and the return.
Return ==
    /\ pc = "shutdown"
    /\ pc' = "returned"
    /\ result' = IF cancelled THEN "nil" ELSE err
    /\ UNCHANGED <<err, cancelled, open, ackVars, server, faults>>

Cancel ==
    /\ ~cancelled
    /\ pc \notin {"returned", "down"}
    /\ cancelled' = TRUE
    /\ UNCHANGED <<pc, err, open, ackVars, server, faults, result>>

\* The process is started again after a crash.
Restart ==
    /\ pc = "down"
    /\ SlowServer \/ slot # "active"
    /\ pc' = "repl" /\ err' = "none"
    /\ UNCHANGED <<cancelled, open, ackVars, server, faults, result>>

-----------------------------------------------------------------------------
(* The server, the network, the runtime.                                   *)

\* The server stops: every connection is gone, and the slot is free.
Outage ==
    /\ up /\ faults < MaxFaults
    /\ faults' = faults + 1
    /\ up' = FALSE
    /\ slot' = IF slot = "none" THEN "none" ELSE "idle"
    /\ acks' = 0 /\ held' = 0 /\ current' = FALSE
    /\ IF pc \in Session THEN EndSession("unavailable") ELSE UNCHANGED <<pc, err, open>>
    /\ UNCHANGED <<cancelled, publication, result>>

Recovery ==
    /\ ~up
    /\ up' = TRUE
    /\ UNCHANGED <<pc, err, cancelled, open, ackVars, slot, publication, faults, result>>

\* The replication connection is lost; the others are not.
ConnectionLost ==
    /\ pc = "run" /\ faults < MaxFaults
    /\ faults' = faults + 1
    /\ EndSession("lost")
    /\ UNCHANGED <<cancelled, ackVars, server, result>>

\* The server notices that the walsender has nobody to send to.
ReleaseSlot ==
    /\ slot = "active" /\ pc # "run"
    /\ slot' = "idle"
    /\ UNCHANGED <<pc, err, cancelled, open, ackVars, publication, up, faults, result>>

Crash ==
    /\ pc \notin {"returned", "down"} /\ faults < MaxFaults
    /\ faults' = faults + 1
    /\ pc' = "down" /\ err' = "none" /\ cancelled' = FALSE /\ open' = {}
    /\ acks' = 0 /\ held' = 0 /\ current' = FALSE
    /\ UNCHANGED <<server, result>>

\* The garbage collector closes an ack connection nothing refers to.
Collect ==
    /\ acks > held + (IF current THEN 1 ELSE 0) + (IF pc = "stream" THEN 1 ELSE 0)
    /\ acks' = acks - 1
    /\ UNCHANGED <<pc, err, cancelled, open, held, current, server, faults, result>>

-----------------------------------------------------------------------------
RunOnce ==
    \/ OpenRepl \/ OpenAdmin \/ ReadPosition \/ EnsureReplicationSlot
    \/ EnsurePublication \/ OpenAck \/ StartStream

Fails == pc \in Session /\ StepFails

Between == Decide \/ BackoffElapsed \/ BackoffCancelled \/ Return \/ Restart

Next ==
    \/ RunOnce \/ Fails \/ StreamRefused \/ Between
    \/ Cancel \/ Crash
    \/ Outage \/ Recovery \/ ConnectionLost \/ ReleaseSlot \/ Collect

Spec == Init /\ [][Next]_vars

(* Calls return and the program goes on; a cancelled context ends the call *)
(* it is passed to; an outage ends; a walsender notices in the end that    *)
(* its peer is gone; the garbage collector runs.  Somebody starts the      *)
(* program again after a crash.                                            *)
Fairness ==
    /\ WF_vars(RunOnce)
    /\ WF_vars(pc = "run" /\ cancelled /\ StepFails)
    /\ WF_vars(Between)
    /\ WF_vars(Recovery) /\ WF_vars(ReleaseSlot) /\ WF_vars(Collect)

FairSpec == Spec /\ Fairness

-----------------------------------------------------------------------------
(* What Start promises.                                                    *)

\* The setup is idempotent and restart-safe: whichever of its steps a fault
\* interrupted, in this session or an earlier one or in a process before this
\* one, streaming never begins without the slot and the publication.
StreamsProvisioned == pc = "run" => slot = "active" /\ publication

\* "Only transient failures (connection loss, server restart) are retried" and
\* "It keeps retrying until ctx is cancelled" (Start): however faults, retries
\* and a cancellation fall together, an error that Start returns is one that
\* the server gave for good.
OnlyPermanentReturned ==
    pc = "returned" => result \in {"nil", "refused"}

\* Whatever faults come before, Start is streaming again and again, until it is
\* cancelled or refused for good: "Start reconnects with exponential backoff".
StreamsInTheEnd == []<>(pc = "run" \/ cancelled \/ result = "refused")

\* A cancelled context makes Start return nil, out of any call of any session
\* and out of the backoff, with the connections of the session closed.
CancelReturns ==
    cancelled ~> \/ pc = "returned" /\ result = "nil" /\ open = {}
                 \/ ~cancelled
=============================================================================
