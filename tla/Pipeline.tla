------------------------------ MODULE Pipeline ------------------------------
(***************************************************************************)
(* The outbox from end to end: ReplicationStream, whose changes are the    *)
(* rows of one topic, and the consumers that deliver them.  Every session  *)
(* makes a consumer of its own (NewReplicationStream), and a row counts as *)
(* received, so its position may be confirmed, once it is in a queue of    *)
(* the consumer: nothing ties the slot to the delivery.  A lost session    *)
(* leaves its consumer running, since Start's context lives on; the rows   *)
(* it holds are in memory only.                                            *)
(*                                                                         *)
(* What a drainer does with a row is in OutboxConsumer.  With one topic to *)
(* a consumer its drainer never waits for a token (EnoughTokens there);    *)
(* enqueue waits up to two seconds for room in the queue, in which the     *)
(* receive loop stays in handleCopyData, and then gives the row up.        *)
(***************************************************************************)
EXTENDS ReplicationStream

CONSTANT QueueCap  \* the capacity of a queue (256)

ASSUME PipelineAssumption == QueueCap \in Nat \ {0}

VARIABLES
    lane,    \* the rows of each session's consumer, in delivery or queued
    settled, \* history: rows delivered, or given up after the last retry
    lost     \* history: rows a full queue did not take, or in memory when the
             \* process ended

consumers == <<lane, settled, lost>>
pipelineVars == <<vars, consumers>>

InMemory == UNION {Range(lane[k]) : k \in 1 .. MaxSessions}

PipelineInit ==
    /\ Init
    /\ lane = [k \in 1 .. MaxSessions |-> <<>>]
    /\ settled = {} /\ lost = {}

\* handleCopyData gives a row to Handle, which queues it for its topic, behind
\* the row in delivery and a queue that is not full, or gives it up; either way
\* it counts as handed on.
HandOn ==
    /\ HandleData
    /\ \/ /\ next - 1 \in Changes /\ Len(lane[sessions]) <= QueueCap
          /\ lane' = [lane EXCEPT ![sessions] = Append(@, next - 1)]
          /\ UNCHANGED lost
       \/ /\ next - 1 \in Changes /\ Len(lane[sessions]) >= QueueCap
          /\ lost' = lost \cup {next - 1}
          /\ UNCHANGED lane
       \/ next - 1 \notin Changes /\ UNCHANGED <<lane, lost>>
    /\ UNCHANGED settled

\* What else the session and its surroundings do.
SessionStep ==
    /\ \/ ReadSlot \/ StartReplication
       \/ CheckHeartbeat \/ ReceiveData \/ ReceiveKeepalive
       \/ HeartbeatWake \/ HeartbeatSend
       \/ ServerFeedback \/ Drop
    /\ UNCHANGED consumers

\* Mutant: the consumer ends with its session.
SessionEndsConsumer ==
    /\ ReceiveError \/ RejectData
    /\ lane' = [lane EXCEPT ![sessions] = <<>>]
    /\ UNCHANGED <<settled, lost>>

\* The session is lost, its consumer goes on.
SessionEnds ==
    /\ ReceiveError \/ RejectData
    /\ UNCHANGED consumers

\* The drainer of a session's consumer is done with a row.
Settle(k) ==
    /\ lane[k] # <<>>
    /\ settled' = settled \cup {Head(lane[k])}
    /\ lane' = [lane EXCEPT ![k] = Tail(@)]
    /\ UNCHANGED <<vars, lost>>

\* The process dies or stops, in a session or between two: what it had in
\* memory is gone.
ProcessEnds ==
    /\ \/ Crash \/ GracefulStop
       \/ /\ Faults \cap {"crash", "stop"} # {} /\ sessions < MaxSessions
          /\ pc = "down" /\ InMemory # {}
          /\ UNCHANGED vars
    /\ lost' = lost \cup InMemory
    /\ lane' = [k \in 1 .. MaxSessions |-> <<>>]
    /\ UNCHANGED settled

PipelineNext ==
    \/ HandOn \/ SessionStep \/ SessionEnds \/ ProcessEnds
    \/ \E k \in 1 .. MaxSessions : Settle(k)

PipelineSpec == PipelineInit /\ [][PipelineNext]_pipelineVars

\* A delivery returns: the user's function does, the retries are bounded.
PipelineFairSpec ==
    /\ PipelineSpec /\ Fairness
    /\ WF_pipelineVars(\E k \in 1 .. MaxSessions : Settle(k))

-----------------------------------------------------------------------------

\* A row the server will not send again is settled or in the memory of some
\* consumer, over lost connections and rejected messages; only a full queue
\* keeps it out, and only the end of the process takes it from there.
KeptOrSentAgain ==
    \A i \in Changes :
        Commit[i] < confirmed => i \in settled \cup lost \cup InMemory

\* Every row of the log before the first message that cannot be decoded gets
\* somewhere in the end, however many sessions and consumers it takes.
EveryRowSettled ==
    <>({i \in Changes : \A m \in undecodable : i < m}
           \subseteq settled \cup lost)

\* "phylax resumes from the slot's saved position on restart and replays every
\* outbox insert" (the README): a row is delivered at least once, or given up.
AtLeastOnce == <>(Changes \subseteq settled)

\* "Within a topic, rows are delivered strictly in order": no row is settled
\* while an earlier one, handed on as well, has yet to be.
TopicOrder ==
    \A i \in handled, j \in settled : i < j => i \in settled
=============================================================================
