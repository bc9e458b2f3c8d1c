------------------------------ MODULE Webhook ------------------------------
(***************************************************************************)
(* The webhook of the phylax command (cmd/phylax/main.go).  run registers  *)
(* a callback with OnChange: its goroutine takes the changes out of the    *)
(* subscriber's channel one by one, takes a token of a semaphore and       *)
(* leaves the change to a goroutine of its own, which posts it up to       *)
(* MaxAttempts times.  When Start returns, run shuts the console down and  *)
(* main returns: whatever the goroutines had left to do is not done.       *)
(*                                                                         *)
(* Changes are numbered in the order of publication, so the channel is     *)
(* the set of the queued ones.  Payloads are left out.                     *)
(***************************************************************************)
EXTENDS Integers, FiniteSets

CONSTANTS
    MaxChanges,   \* bound: how many changes are published
    BufferSize,   \* the buffer of the subscriber's channel
    Concurrency,  \* webhookConcurrency
    MaxAttempts   \* postWithRetry's three attempts

Changes == 1 .. MaxChanges

ASSUME WebhookAssumption ==
    /\ MaxChanges \in Nat
    /\ BufferSize \in Nat \ {0}
    /\ Concurrency \in Nat \ {0}
    /\ MaxAttempts \in Nat \ {0}

VARIABLES
    fate,      \* where each change is
    attempt,   \* the attempt postWithRetry is at with it
    tokens,    \* tokens taken from sem
    app,       \* "running", "closed" (Start has returned), "exited"
    received   \* history: what the endpoint got

vars == <<fate, attempt, tokens, app, received>>

At(place) == {c \in Changes : fate[c] = place}
First(place, c) == c \in At(place) /\ \A d \in At(place) : c <= d
Posts == At("posting") \cup At("sleeping")

TypeOK ==
    /\ fate \in [Changes -> {"unpublished", "dropped", "queued", "held",
                             "posting", "sleeping", "done", "given up"}]
    /\ attempt \in [Changes -> 0 .. MaxAttempts]
    /\ tokens \in 0 .. Concurrency
    /\ app \in {"running", "closed", "exited"}
    /\ received \in SUBSET Changes

Init ==
    /\ fate = [c \in Changes |-> "unpublished"]
    /\ attempt = [c \in Changes |-> 0]
    /\ tokens = 0
    /\ app = "running"
    /\ received = {}

Move(c, place) == fate' = [fate EXCEPT ![c] = place]

-----------------------------------------------------------------------------
(* The channel, and the callback.                                          *)

\* Publish never waits: the change is dropped, and counted, if the buffer is
\* full.
Publish ==
    /\ app = "running"
    /\ \E c \in Changes :
          /\ First("unpublished", c)
          /\ IF Cardinality(At("queued")) < BufferSize THEN Move(c, "queued")
                                                      ELSE Move(c, "dropped")
    /\ UNCHANGED <<attempt, tokens, app, received>>

\* Mutant: the token is taken in the new goroutine, the callback goes on.
ReceiveAhead ==
    /\ app # "exited"
    /\ \E c \in Changes : First("queued", c) /\ Move(c, "held")
    /\ UNCHANGED <<attempt, tokens, app, received>>

\* The goroutine of OnChange takes a change when the callback has returned;
\* it still does after the channel was closed.
Receive ==
    /\ app # "exited" /\ At("held") = {}
    /\ \E c \in Changes : First("queued", c) /\ Move(c, "held")
    /\ UNCHANGED <<attempt, tokens, app, received>>

\* The callback gets a token and leaves the change to postWithRetry.
Spawn ==
    /\ app # "exited" /\ tokens < Concurrency
    /\ \E c \in At("held") :
          /\ Move(c, "posting")
          /\ attempt' = [attempt EXCEPT ![c] = 1]
    /\ tokens' = tokens + 1
    /\ UNCHANGED <<app, received>>

-----------------------------------------------------------------------------
(* postWithRetry, postJSON.                                                *)

PostOK(c) ==
    /\ app # "exited" /\ fate[c] = "posting"
    /\ Move(c, "done")
    /\ received' = received \cup {c}
    /\ attempt' = [attempt EXCEPT ![c] = 0]
    /\ tokens' = tokens - 1
    /\ UNCHANGED app

\* Mutant: the token is given back while postWithRetry sleeps.
PostFailsReleases(c) ==
    /\ app # "exited" /\ fate[c] = "posting"
    /\ Move(c, "sleeping")
    /\ received' \in {received, received \cup {c}}
    /\ tokens' = tokens - 1
    /\ UNCHANGED <<attempt, app>>

\* The request or its answer is lost or late, or the answer is not a 2xx: the
\* endpoint may have got the change.  It sleeps after the last failure too.
PostFails(c) ==
    /\ app # "exited" /\ fate[c] = "posting"
    /\ Move(c, "sleeping")
    /\ received' \in {received, received \cup {c}}
    /\ UNCHANGED <<attempt, tokens, app>>

\* Mutant: one attempt too many.
RetryOnceMore(c) ==
    /\ app # "exited" /\ fate[c] = "sleeping" /\ attempt[c] <= MaxAttempts
    /\ Move(c, "posting")
    /\ attempt' = [attempt EXCEPT ![c] = @ + 1]
    /\ UNCHANGED <<tokens, app, received>>

Retry(c) ==
    /\ app # "exited" /\ fate[c] = "sleeping" /\ attempt[c] < MaxAttempts
    /\ Move(c, "posting")
    /\ attempt' = [attempt EXCEPT ![c] = @ + 1]
    /\ UNCHANGED <<tokens, app, received>>

\* Mutant: the token is only given back after a success.
GiveUpKeepsToken(c) ==
    /\ app # "exited" /\ fate[c] = "sleeping" /\ attempt[c] = MaxAttempts
    /\ Move(c, "given up")
    /\ attempt' = [attempt EXCEPT ![c] = 0]
    /\ UNCHANGED <<tokens, app, received>>

\* The change is logged and dropped.
GiveUp(c) ==
    /\ app # "exited" /\ fate[c] = "sleeping" /\ attempt[c] = MaxAttempts
    /\ Move(c, "given up")
    /\ attempt' = [attempt EXCEPT ![c] = 0]
    /\ tokens' = tokens - 1
    /\ UNCHANGED <<app, received>>

-----------------------------------------------------------------------------
(* run and main.                                                           *)

\* On a signal or a permanent error; Start closes the channel.
StartReturns ==
    /\ app = "running"
    /\ app' = "closed"
    /\ UNCHANGED <<fate, attempt, tokens, received>>

\* After the console was shut down, which takes two seconds at most, main
\* returns; nothing waits for the posts.
Exit ==
    /\ app = "closed"
    /\ app' = "exited"
    /\ UNCHANGED <<fate, attempt, tokens, received>>

-----------------------------------------------------------------------------
Delivery ==
    \/ Receive \/ Spawn
    \/ \E c \in Changes : PostOK(c) \/ PostFails(c) \/ Retry(c) \/ GiveUp(c)

Next == Publish \/ Delivery \/ StartReturns \/ Exit

Spec == Init /\ [][Next]_vars

\* The goroutines get on, and the client's timeout of ten seconds ends every
\* request.  (A change takes finitely many steps, so that some step is taken
\* is enough.)  Nothing has to be published, and Start need not return.
FairSpec == Spec /\ WF_vars(Delivery)

-----------------------------------------------------------------------------

\* "Bounded by a semaphore of webhookConcurrency": there are as many tokens
\* out as changes being posted or retried, whichever way a post ends, so the
\* callback waits only while that many are under way.
PostsBounded == tokens = Cardinality(Posts) /\ tokens <= Concurrency

\* Every change that was not dropped is posted, or given up after the last
\* attempt, whatever becomes of the others, unless the program ends.
EveryChangePosted ==
    \A c \in Changes :
        fate[c] = "queued" ~> (fate[c] \in {"done", "given up"} \/ app = "exited")

\* What was published, never reached the endpoint, and was neither counted as
\* dropped nor logged as given up.
Untraced == Changes \ (received \cup At("unpublished") \cup At("dropped") \cup At("given up"))

\* "A slow webhook queues changes in the subscriber channel instead of
\* spawning unbounded goroutines": what the end of the program can take with
\* it, the slot being past it, is a full channel, the change in the callback
\* and one change for each token.
LossBounded == app = "exited" => Cardinality(Untraced) <= BufferSize + Concurrency + 1
=============================================================================
