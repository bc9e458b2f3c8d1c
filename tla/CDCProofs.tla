----------------------------- MODULE CDCProofs -----------------------------
(***************************************************************************)
(* Theorems about CDC: for any refusals, any number of faults, any number  *)
(* of connections, a server that is slow or not.                           *)
(***************************************************************************)
EXTENDS CDC, TLAPS

USE CDCAssumption

(* The ack connections: those that somebody refers to are served, that of  *)
(* a session about to stream besides.  OfStream counts the one of the      *)
(* stream.                                                                 *)
OfStream == IF current THEN 1 ELSE 0

AckInv ==
    /\ acks \in Nat /\ held \in Nat /\ OfStream \in {0, 1}
    /\ held + OfStream <= acks
    /\ pc = "stream" => held + OfStream + 1 <= acks

FlagsOK ==
    cancelled \in BOOLEAN /\ publication \in BOOLEAN /\ up \in BOOLEAN /\ current \in BOOLEAN

FaultsOK == faults \in 0 .. MaxFaults

PlacesOK ==
    /\ pc \in Session \cup {"ended", "backoff", "shutdown", "returned", "down"}
    /\ err \in Errors \cup {"none"} /\ result \in Errors \cup {"none", "nil"}
    /\ open \in SUBSET {"repl", "admin"}
    /\ slot \in {"none", "idle", "active"}

LEMMA OfStreamValues ==
    /\ current' = TRUE => OfStream' = 1
    /\ current' = FALSE => OfStream' = 0
    /\ current = TRUE => OfStream = 1
    /\ current = FALSE => OfStream = 0
    /\ current' = current => OfStream' = OfStream
BY DEF OfStream

LEMMA AckInvStep ==
  ASSUME AckInv, FlagsOK, [Next]_vars
  PROVE  AckInv'
<1> USE DEF AckInv, Session, server, ackVars
<1>1. CASE RunOnce /\ ~StartStream
  <2>1. OfStream' = OfStream
    BY <1>1, OfStreamValues DEF RunOnce, OpenRepl, OpenAdmin, ReadPosition,
             EnsureReplicationSlot, EnsurePublication, OpenAck
  <2>2. QED
    BY <1>1, <2>1 DEF RunOnce, OpenRepl, OpenAdmin, ReadPosition,
             EnsureReplicationSlot, EnsurePublication, OpenAck, EndSession
<1>2. CASE StartStream
  <2>1. acks' = acks /\ pc = "stream" /\ pc' # "stream"
    BY <1>2 DEF StartStream, EndSession
  <2>2. CASE slot = "idle" /\ current = TRUE
    <3>1. current' = TRUE /\ (held' = held \/ held' = held + 1)
      BY <1>2, <2>2 DEF StartStream
    <3>2. OfStream = 1 /\ OfStream' = 1
      BY <2>2, <3>1, OfStreamValues
    <3>3. QED
      BY <2>1, <3>1, <3>2
  <2>3. CASE slot = "idle" /\ current = FALSE
    <3>1. current' = TRUE /\ held' = held
      BY <1>2, <2>3 DEF StartStream
    <3>2. OfStream = 0 /\ OfStream' = 1
      BY <2>3, <3>1, OfStreamValues
    <3>3. QED
      BY <2>1, <3>1, <3>2
  <2>4. CASE slot = "active"
    <3>1. OfStream' = OfStream /\ held' = held
      BY <1>2, <2>4, OfStreamValues DEF StartStream
    <3>2. QED
      BY <2>1, <3>1
  <2>5. slot = "idle" \/ slot = "active"
    BY <1>2 DEF StartStream
  <2>6. current = TRUE \/ current = FALSE
    BY DEF FlagsOK
  <2>7. QED
    BY <2>2, <2>3, <2>4, <2>5, <2>6
<1>3. CASE Fails \/ StreamRefused \/ ConnectionLost
  <2>1. acks' = acks /\ held' = held /\ current' = current /\ pc' = "ended"
    BY <1>3 DEF Fails, StepFails, StreamRefused, ConnectionLost, EndSession
  <2>2. QED
    BY <2>1, OfStreamValues
<1>4. CASE Between
  <2>1. acks' = acks /\ held' = held /\ current' = current /\ pc' # "stream"
    BY <1>4 DEF Between, Decide, BackoffElapsed, BackoffCancelled, Return, Restart
  <2>2. QED
    BY <2>1, OfStreamValues
<1>5. CASE Cancel \/ Recovery \/ ReleaseSlot \/ UNCHANGED vars
  <2>1. acks' = acks /\ held' = held /\ current' = current /\ pc' = pc
    BY <1>5 DEF Cancel, Recovery, ReleaseSlot, vars
  <2>2. QED
    BY <2>1, OfStreamValues
<1>6. CASE Crash \/ Outage
  <2>1. acks' = 0 /\ held' = 0 /\ current' = FALSE
    BY <1>6 DEF Crash, Outage
  <2>2. pc' # "stream"
    BY <1>6 DEF Crash, Outage, EndSession
  <2>3. QED
    BY <2>1, <2>2, OfStreamValues
<1>7. CASE Collect
  <2>1. /\ held' = held /\ current' = current /\ pc' = pc /\ acks' = acks - 1
        /\ acks > held + OfStream + (IF pc = "stream" THEN 1 ELSE 0)
    BY <1>7 DEF Collect, OfStream
  <2>2. QED
    BY <2>1, OfStreamValues
<1>8. QED
  BY <1>1, <1>2, <1>3, <1>4, <1>5, <1>6, <1>7 DEF Next

LEMMA FlagsStep ==
  ASSUME FlagsOK, [Next]_vars
  PROVE  FlagsOK'
<1> USE DEF FlagsOK, server, ackVars
<1>1. CASE RunOnce
  BY <1>1 DEF RunOnce, OpenRepl, OpenAdmin, ReadPosition, EnsureReplicationSlot,
              EnsurePublication, OpenAck, StartStream
<1>2. CASE Fails \/ StreamRefused \/ ConnectionLost
  BY <1>2 DEF Fails, StepFails, StreamRefused, ConnectionLost
<1>3. CASE Between
  BY <1>3 DEF Between, Decide, BackoffElapsed, BackoffCancelled, Return, Restart
<1>4. CASE Cancel \/ Crash \/ Recovery \/ ReleaseSlot \/ Collect
  BY <1>4 DEF Cancel, Crash, Recovery, ReleaseSlot, Collect
<1>5. CASE Outage
  BY <1>5 DEF Outage
<1>6. CASE UNCHANGED vars
  BY <1>6 DEF vars
<1>7. QED
  BY <1>1, <1>2, <1>3, <1>4, <1>5, <1>6 DEF Next

LEMMA FaultsStep ==
  ASSUME FaultsOK, [Next]_vars
  PROVE  FaultsOK'
<1>1. faults' = faults \/ (faults < MaxFaults /\ faults' = faults + 1)
  BY DEF Next, RunOnce, OpenRepl, OpenAdmin, ReadPosition, EnsureReplicationSlot,
         EnsurePublication, OpenAck, StartStream, Fails, StepFails, StreamRefused,
         ConnectionLost, Between, Decide, BackoffElapsed, BackoffCancelled, Return,
         Restart, Cancel, Crash, Recovery, ReleaseSlot, Collect, Outage, vars
<1>2. QED
  BY <1>1 DEF FaultsOK

LEMMA PlacesStep ==
  ASSUME PlacesOK, [Next]_vars
  PROVE  PlacesOK'
<1> USE DEF PlacesOK, Session, Errors, server
<1>1. CASE RunOnce
  BY <1>1 DEF RunOnce, OpenRepl, OpenAdmin, ReadPosition, EnsureReplicationSlot,
              EnsurePublication, OpenAck, StartStream, EndSession
<1>2. CASE Fails \/ StreamRefused \/ ConnectionLost
  BY <1>2 DEF Fails, StepFails, StreamRefused, ConnectionLost, EndSession
<1>3. CASE Between
  BY <1>3 DEF Between, Decide, BackoffElapsed, BackoffCancelled, Return, Restart
<1>4. CASE Cancel \/ Crash \/ Recovery \/ ReleaseSlot \/ Collect
  BY <1>4 DEF Cancel, Crash, Recovery, ReleaseSlot, Collect
<1>5. CASE Outage
  BY <1>5 DEF Outage, EndSession
<1>6. CASE UNCHANGED vars
  BY <1>6 DEF vars
<1>7. QED
  BY <1>1, <1>2, <1>3, <1>4, <1>5, <1>6 DEF Next

\* Every variable keeps its type; in particular the server still serves the
\* ack connections that somebody refers to.
THEOREM CDCTypeCorrect == Spec => []TypeOK
<1>1. Init => FlagsOK /\ PlacesOK
  BY DEF Init, FlagsOK, PlacesOK, Session
<1>2. Init => AckInv /\ FaultsOK
  <2>1. SUFFICES ASSUME Init
                 PROVE  AckInv /\ FaultsOK
    OBVIOUS
  <2>2. OfStream = 0
    BY <2>1 DEF Init, OfStream
  <2>3. pc = "repl" /\ acks = 0 /\ held = 0 /\ faults = 0
    BY <2>1 DEF Init
  <2>4. QED
    BY <2>2, <2>3 DEF AckInv, FaultsOK
<1>3. AckInv /\ FlagsOK /\ FaultsOK /\ PlacesOK => TypeOK
  BY DEF AckInv, FlagsOK, FaultsOK, PlacesOK, TypeOK, OfStream
<1>4. QED
  BY <1>1, <1>2, <1>3, AckInvStep, FlagsStep, FaultsStep, PlacesStep, PTL DEF Spec

(* What each step of runOnce may rely on the earlier ones for.  Neither    *)
(* the slot nor the publication ever goes away, and only Run has a         *)
(* walsender it does not lose.                                             *)
SetupInv ==
    /\ pc \in {"publication", "ackconn", "stream", "run"} => slot # "none"
    /\ pc \in {"ackconn", "stream", "run"} => publication
    /\ pc = "run" => slot = "active"

\* Streaming never begins without the slot and the publication, whichever
\* steps failed before, in this process or an earlier one.
THEOREM SetupComplete == Spec => []StreamsProvisioned
<1>1. Init => SetupInv
  BY DEF Init, SetupInv
<1>2. ASSUME SetupInv, [Next]_vars
      PROVE  SetupInv'
  <2> USE <1>2 DEF SetupInv, Session, vars, server, ackVars
  <2>1. CASE RunOnce
    BY <2>1 DEF RunOnce, OpenRepl, OpenAdmin, ReadPosition, EnsureReplicationSlot,
                EnsurePublication, OpenAck, StartStream, EndSession
  <2>2. CASE Fails \/ StreamRefused \/ ConnectionLost
    BY <2>2 DEF Fails, StepFails, StreamRefused, ConnectionLost, EndSession
  <2>3. CASE Between
    BY <2>3 DEF Between, Decide, BackoffElapsed, BackoffCancelled, Return, Restart
  <2>4. CASE Cancel \/ Crash
    BY <2>4 DEF Cancel, Crash
  <2>5. CASE Outage
    BY <2>5 DEF Outage, EndSession
  <2>6. CASE Recovery \/ ReleaseSlot \/ Collect
    BY <2>6 DEF Recovery, ReleaseSlot, Collect
  <2>7. CASE UNCHANGED vars
    BY <2>7
  <2>8. QED
    BY <2>1, <2>2, <2>3, <2>4, <2>5, <2>6, <2>7 DEF Next
<1>3. SetupInv => StreamsProvisioned
  BY DEF SetupInv, StreamsProvisioned
<1>4. QED
  BY <1>1, <1>2, <1>3, PTL DEF Spec

(* Why Start ends: the slot is free for a session that opens, so no error  *)
(* says that it is active; a call says it was cancelled only if it was;    *)
(* and what Decide does not retry is a refusal.                            *)
ErrorInv ==
    /\ pc \in Session \ {"run"} => slot # "active"
    /\ err # "slot_active"
    /\ err = "cancelled" => cancelled
    /\ pc = "ended" => err # "none"
    /\ pc = "shutdown" => cancelled \/ err = "refused"
    /\ OnlyPermanentReturned

\* If the server notices a lost connection before the backoff is over, what
\* Start returns is nil or an error that the server gave for good.  (If not,
\* it may be 55006: run cdc_slot_active.)
THEOREM OnlyPermanentErrors ==
  ASSUME ~SlowServer
  PROVE  Spec => []OnlyPermanentReturned
<1>1. Init => ErrorInv
  BY DEF Init, ErrorInv, OnlyPermanentReturned
<1>2. ASSUME TypeOK, ErrorInv, [Next]_vars
      PROVE  ErrorInv'
  <2> USE <1>2 DEF ErrorInv, OnlyPermanentReturned, Session, vars, server, ackVars
  <2>1. CASE RunOnce
    BY <2>1 DEF RunOnce, OpenRepl, OpenAdmin, ReadPosition, EnsureReplicationSlot,
                EnsurePublication, OpenAck, StartStream, EndSession
  <2>2. CASE Fails \/ StreamRefused \/ ConnectionLost
    BY <2>2 DEF Fails, StepFails, StreamRefused, ConnectionLost, EndSession
  <2>3. CASE Decide
    BY <2>3 DEF Decide, retryable, TypeOK, Errors
  <2>4. CASE BackoffElapsed \/ BackoffCancelled \/ Return \/ Restart
    BY <2>4 DEF BackoffElapsed, BackoffCancelled, Return, Restart
  <2>5. CASE Cancel \/ Crash
    BY <2>5 DEF Cancel, Crash
  <2>6. CASE Outage
    BY <2>6 DEF Outage, EndSession
  <2>7. CASE Recovery \/ ReleaseSlot \/ Collect
    BY <2>7 DEF Recovery, ReleaseSlot, Collect
  <2>8. CASE UNCHANGED vars
    BY <2>8
  <2>9. QED
    BY <2>1, <2>2, <2>3, <2>4, <2>5, <2>6, <2>7, <2>8 DEF Next, Between
<1>3. ErrorInv => OnlyPermanentReturned
  BY DEF ErrorInv
<1>4. QED
  BY <1>1, <1>2, <1>3, CDCTypeCorrect, PTL DEF Spec
=============================================================================
