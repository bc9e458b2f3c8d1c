--------------------------- MODULE PipelineProofs ---------------------------
(***************************************************************************)
(* Theorems about Pipeline: for every log, any faults, any number of       *)
(* sessions and of status updates under way.                               *)
(***************************************************************************)
EXTENDS Pipeline, ReplicationStreamProofs

(* A session that has begun has a consumer.                                *)
SessionsInv ==
    /\ sessions \in 0 .. MaxSessions
    /\ pc = "resume" => sessions < MaxSessions
    /\ InSession => sessions > 0

(* The row is in a queue, or in the hands of a drainer.                    *)
Waiting(i) == \E k \in 1 .. MaxSessions : \E n \in 1 .. Len(lane[k]) : lane[k][n] = i

LanesOK == lane \in [1 .. MaxSessions -> Seq(Changes)]

(* Every row handed on is somewhere.                                       *)
RowsInv == \A i \in handled : i \in settled \/ i \in lost \/ Waiting(i)

LEMMA WaitingInMemory ==
  ASSUME LanesOK
  PROVE  \A i : Waiting(i) <=> i \in InMemory
<1>1. \A k \in 1 .. MaxSessions : DOMAIN lane[k] = 1 .. Len(lane[k])
  BY DEF LanesOK
<1>2. QED
  BY <1>1 DEF Waiting, InMemory, Range

-----------------------------------------------------------------------------

(* Every step of the pipeline is one of the sessions or leaves them as     *)
(* they are, so that what was proved of ReplicationStream holds here.      *)
(* That a full queue holds the receive loop for a while is in no step: the *)
(* loop may stay in handleCopyData as long as it likes.                    *)
LEMMA PipelineSessions == PipelineSpec => Spec
<1>1. PipelineInit => Init
  BY DEF PipelineInit
<1>2. [PipelineNext]_pipelineVars => [Next]_vars
  <2>1. HandOn => Next
    BY DEF HandOn, Next
  <2>2. SessionStep => Next
    BY DEF SessionStep, Next
  <2>3. SessionEnds => Next
    BY DEF SessionEnds, Next
  <2>4. ProcessEnds => Next \/ UNCHANGED vars
    BY DEF ProcessEnds, Next
  <2>5. ASSUME NEW k \in 1 .. MaxSessions
        PROVE  Settle(k) => UNCHANGED vars
    BY DEF Settle
  <2>6. UNCHANGED pipelineVars => UNCHANGED vars
    BY DEF pipelineVars
  <2>7. QED
    BY <2>1, <2>2, <2>3, <2>4, <2>5, <2>6 DEF PipelineNext
<1>3. QED
  BY <1>1, <1>2, PTL DEF PipelineSpec, Spec

LEMMA SessionsStep ==
  ASSUME SessionsInv, [Next]_vars
  PROVE  SessionsInv'
<1> USE DEF SessionsInv, InSession, EndSession, vars, sessionVars
<1>1. CASE ReadSlot \/ StartReplication
  <2>1. CASE ReadSlot
    BY <2>1 DEF ReadSlot
  <2>2. CASE StartReplication
    <3>1. sessions' = sessions + 1 /\ pc = "resume" /\ pc' = "top"
      BY <2>2 DEF StartReplication
    <3>2. sessions' \in 0 .. MaxSessions /\ sessions' > 0
      BY <3>1, StreamAssumption
    <3>3. QED
      BY <3>1, <3>2
  <2>3. QED
    BY <1>1, <2>1, <2>2
<1>2. CASE CheckHeartbeat \/ RejectData \/ ReceiveError \/ Crash \/ GracefulStop
  BY <1>2 DEF CheckHeartbeat, RejectData, ReceiveError, Crash, GracefulStop
<1>3. CASE ReceiveData \/ HandleData \/ ReceiveKeepalive
  BY <1>3 DEF ReceiveData, HandleData, ReceiveKeepalive
<1>4. CASE HeartbeatWake \/ HeartbeatSend \/ ServerFeedback \/ Drop
  BY <1>4 DEF HeartbeatWake, HeartbeatSend, ServerFeedback, Drop
<1>5. CASE UNCHANGED vars
  BY <1>5
<1>6. QED
  BY <1>1, <1>2, <1>3, <1>4, <1>5 DEF Next

LEMMA LanesStep ==
  ASSUME LanesOK, [PipelineNext]_pipelineVars
  PROVE  LanesOK'
<1> USE DEF LanesOK
<1>1. CASE HandOn
  <2>1. CASE lane' = lane
    BY <2>1
  <2>2. CASE next - 1 \in Changes /\ lane' = [lane EXCEPT ![sessions] = Append(@, next - 1)]
    <3>1. CASE sessions \in 1 .. MaxSessions
      <4>1. Append(lane[sessions], next - 1) \in Seq(Changes)
        BY <2>2, <3>1, AppendProperties
      <4>2. QED
        BY <2>2, <4>1
    <3>2. CASE sessions \notin 1 .. MaxSessions
      BY <2>2, <3>2
    <3>3. QED
      BY <3>1, <3>2
  <2>3. QED
    BY <1>1, <2>1, <2>2 DEF HandOn
<1>2. CASE SessionStep \/ SessionEnds \/ UNCHANGED pipelineVars
  BY <1>2 DEF SessionStep, SessionEnds, consumers, pipelineVars
<1>3. CASE ProcessEnds
  BY <1>3 DEF ProcessEnds
<1>4. ASSUME NEW k \in 1 .. MaxSessions, Settle(k)
      PROVE  LanesOK'
  <2>1. Tail(lane[k]) \in Seq(Changes)
    BY <1>4 DEF Settle
  <2>2. QED
    BY <1>4, <2>1 DEF Settle
<1>5. QED
  BY <1>1, <1>2, <1>3, <1>4 DEF PipelineNext

(* What HandOn adds to the lane of the present session: the row, or        *)
(* nothing, when the queue is full or the message is not a row.            *)
LEMMA HandedOn ==
  ASSUME LanesOK, SessionsInv, HandOn
  PROVE  \E s \in {<<>>, <<next - 1>>} :
            /\ s \in Seq(Changes)
            /\ lane' = [lane EXCEPT ![sessions] = @ \o s]
            /\ next - 1 \in Changes => s = <<next - 1>> \/ next - 1 \in lost'
<1>1. sessions \in 1 .. MaxSessions /\ lane[sessions] \in Seq(Changes)
  BY DEF HandOn, HandleData, SessionsInv, InSession, LanesOK
<1>2. CASE next - 1 \in Changes /\ lane' = [lane EXCEPT ![sessions] = Append(@, next - 1)]
  <2>1. <<next - 1>> \in Seq(Changes)
    BY <1>2
  <2>2. Append(lane[sessions], next - 1) = lane[sessions] \o <<next - 1>>
    BY <1>1, <1>2
  <2>3. QED
    BY <1>2, <2>1, <2>2
<1>3. CASE lane' = lane /\ (next - 1 \in Changes => next - 1 \in lost')
  <2>1. <<>> \in Seq(Changes) /\ lane[sessions] \o <<>> = lane[sessions]
    BY <1>1
  <2>2. lane' = [lane EXCEPT ![sessions] = @ \o <<>>]
    BY <1>3, <2>1 DEF LanesOK
  <2>3. QED
    BY <1>3, <2>1, <2>2
<1>4. QED
  BY <1>2, <1>3 DEF HandOn

LEMMA RowsStep ==
  ASSUME LanesOK, LanesOK', SessionsInv, RowsInv, [PipelineNext]_pipelineVars
  PROVE  RowsInv'
<1>s. ASSUME handled' = handled, lane' = lane, settled \subseteq settled', lost \subseteq lost'
      PROVE  RowsInv'
  BY <1>s DEF RowsInv, Waiting
<1>1. CASE HandOn
  <2> DEFINE m == next - 1
  <2>a. PICK s \in {<<>>, <<m>>} :
           /\ s \in Seq(Changes)
           /\ lane' = [lane EXCEPT ![sessions] = @ \o s]
           /\ m \in Changes => s = <<m>> \/ m \in lost'
    BY <1>1, HandedOn
  <2>1. /\ sessions \in 1 .. MaxSessions
        /\ settled' = settled /\ lost \subseteq lost'
        /\ handled' = handled \cup ({m} \cap Changes)
    BY <1>1 DEF HandOn, HandleData, SessionsInv, InSession
  <2>2. s \in Seq(Changes) /\ lane[sessions] \in Seq(Changes)
    BY <2>1, <2>a DEF LanesOK
  <2>3. lane'[sessions] = lane[sessions] \o s
    BY <2>1, <2>a DEF LanesOK
  <2> SUFFICES ASSUME NEW i \in handled', i \notin settled, i \notin lost'
               PROVE  Waiting(i)'
    BY <2>1 DEF RowsInv
  <2>4. CASE i \in handled
    <3>1. PICK k \in 1 .. MaxSessions : \E n \in 1 .. Len(lane[k]) : lane[k][n] = i
      BY <2>1, <2>4 DEF RowsInv, Waiting
    <3>2. PICK n \in 1 .. Len(lane[k]) : lane[k][n] = i
      BY <3>1
    <3>3. CASE k = sessions
      <4>1. n \in 1 .. Len(lane'[k]) /\ lane'[k][n] = i
        <5> DEFINE q == lane[sessions]
        <5>1. q \in Seq(Changes) /\ n \in 1 .. Len(q) /\ q[n] = i
          BY <2>2, <3>2, <3>3
        <5> HIDE DEF q
        <5>2. n \in 1 .. Len(q \o s) /\ (q \o s)[n] = i
          BY <2>2, <5>1
        <5>3. QED
          BY <2>3, <3>3, <5>2 DEF q
      <4>2. QED
        BY <4>1 DEF Waiting
    <3>4. CASE k # sessions
      <4>1. lane'[k] = lane[k]
        BY <2>a, <3>4 DEF LanesOK
      <4>2. QED
        BY <3>2, <4>1 DEF Waiting
    <3>5. QED
      BY <3>3, <3>4
  <2>5. CASE i \notin handled
    <3>1. i = m /\ m \in Changes
      BY <2>1, <2>5
    <3>2. s = <<i>>
      BY <2>a, <3>1
    <3> HIDE DEF m
    <3>3. /\ Len(lane[sessions]) + 1 \in 1 .. Len(lane'[sessions])
          /\ lane'[sessions][Len(lane[sessions]) + 1] = i
      BY <2>2, <2>3, <3>2
    <3>4. QED
      BY <2>1, <3>3 DEF Waiting
  <2>6. QED
    BY <2>4, <2>5
<1>2. CASE SessionStep
  <2>1. handled' = handled
    BY <1>2 DEF SessionStep, ReadSlot, StartReplication, CheckHeartbeat, ReceiveData,
             ReceiveKeepalive, HeartbeatWake, HeartbeatSend, ServerFeedback, Drop
  <2>2. QED
    BY <1>2, <1>s, <2>1 DEF SessionStep, consumers
<1>3. CASE SessionEnds
  BY <1>3, <1>s DEF SessionEnds, consumers, ReceiveError, RejectData
<1>4. CASE ProcessEnds
  <2>1. handled' = handled
    BY <1>4 DEF ProcessEnds, Crash, GracefulStop, vars
  <2>2. settled' = settled /\ lost' = lost \cup InMemory
    BY <1>4 DEF ProcessEnds
  <2>3. QED
    BY <2>1, <2>2, WaitingInMemory DEF RowsInv
<1>5. ASSUME NEW k \in 1 .. MaxSessions, Settle(k)
      PROVE  RowsInv'
  <2>1. /\ lane[k] \in Seq(Changes) /\ lane[k] # <<>>
        /\ lane'[k] = Tail(lane[k])
        /\ \A l \in 1 .. MaxSessions : l # k => lane'[l] = lane[l]
        /\ settled' = settled \cup {lane[k][1]}
        /\ lost' = lost /\ handled' = handled
    BY <1>5 DEF Settle, LanesOK, vars
  <2> SUFFICES ASSUME NEW i \in handled, i \notin settled', i \notin lost
               PROVE  Waiting(i)'
    BY <2>1 DEF RowsInv
  <2>2. PICK l \in 1 .. MaxSessions : \E n \in 1 .. Len(lane[l]) : lane[l][n] = i
    BY <2>1 DEF RowsInv, Waiting
  <2>3. PICK n \in 1 .. Len(lane[l]) : lane[l][n] = i
    BY <2>2
  <2>4. CASE l = k
    <3>1. n # 1
      BY <2>1, <2>3, <2>4
    <3>2. n - 1 \in 1 .. Len(lane'[k]) /\ lane'[k][n - 1] = i
      BY <2>1, <2>3, <2>4, <3>1
    <3>3. QED
      BY <3>2 DEF Waiting
  <2>5. CASE l # k
    <3>1. lane'[l] = lane[l]
      BY <2>1, <2>5
    <3>2. QED
      BY <2>3, <3>1 DEF Waiting
  <2>6. QED
    BY <2>4, <2>5
<1>6. CASE UNCHANGED pipelineVars
  BY <1>6, <1>s DEF pipelineVars, consumers, vars
<1>7. QED
  BY <1>1, <1>2, <1>3, <1>4, <1>5, <1>6 DEF PipelineNext

\* If no message ends beyond the commit record of a change sent with or after
\* it, a row that the server will not send again was settled, is in the memory
\* of some consumer, or found its queue full or its process ending: no lost
\* connection and no rejected message can lose a row.
THEOREM RowsAreKept ==
  ASSUME NoOvershoot
  PROVE  PipelineSpec => []KeptOrSentAgain
<1>1. PipelineInit => SessionsInv /\ LanesOK /\ RowsInv
  <2>1. PipelineInit => SessionsInv
    <3>1. 0 \in 0 .. MaxSessions
      BY StreamAssumption
    <3>2. PipelineInit => sessions = 0 /\ pc = "down"
      BY DEF PipelineInit, Init
    <3>3. QED
      BY <3>1, <3>2 DEF SessionsInv, InSession
  <2>2. PipelineInit => LanesOK /\ RowsInv
    BY DEF PipelineInit, Init, LanesOK, RowsInv
  <2>3. QED
    BY <2>1, <2>2
<1>2. SessionsInv /\ [Next]_vars => SessionsInv'
  BY SessionsStep
<1>3. LanesOK /\ [PipelineNext]_pipelineVars => LanesOK'
  BY LanesStep
<1>4. LanesOK /\ LanesOK' /\ SessionsInv /\ RowsInv /\ [PipelineNext]_pipelineVars => RowsInv'
  BY RowsStep
<1>5. EveryPositionSafe /\ LanesOK /\ RowsInv => KeptOrSentAgain
  BY WaitingInMemory DEF EveryPositionSafe, Safe, RowsInv, KeptOrSentAgain
<1>6. QED
  BY <1>1, <1>2, <1>3, <1>4, <1>5, PipelineSessions, PositionsSafe, PTL
     DEF PipelineSpec, Spec

-----------------------------------------------------------------------------
(* The order within one consumer.  TopicOrder does not hold of a topic,    *)
(* because a new session has a consumer of its own; what does hold is that *)
(* each consumer has its rows in the order of the log, none twice.         *)

InLogOrder(k) == \A a, b \in 1 .. Len(lane[k]) : a < b => lane[k][a] < lane[k][b]

LogOrder == \A k \in 1 .. MaxSessions : InLogOrder(k)

(* What the session in progress has yet to hand on.                        *)
Front == IF pc = "handle" THEN next - 1 ELSE next

(* The consumer of a session to come has no rows; the rows of the present  *)
(* one's are behind what its session has yet to hand on.                   *)
LanesBehind ==
    /\ \A k \in 1 .. MaxSessions : sessions < k => lane[k] = <<>>
    /\ InSession => \A a \in 1 .. Len(lane[sessions]) : lane[sessions][a] < Front

OrderInv == LogOrder /\ LanesBehind

(* A row behind another keeps its place when the first one is taken.       *)
LEMMA TakenFromFront ==
  ASSUME NEW q \in Seq(Changes), q # <<>>
  PROVE  /\ Tail(q) \in Seq(Changes)
         /\ \A a \in 1 .. Len(Tail(q)) : a + 1 \in 1 .. Len(q) /\ Tail(q)[a] = q[a + 1]
  OBVIOUS

(* Neither the lanes nor the position of the session move.                 *)
LEMMA LanesUndisturbed ==
  ASSUME OrderInv, lane' = lane, sessions' = sessions,
         InSession' => InSession /\ Front' = Front
  PROVE  OrderInv'
BY DEF OrderInv, LogOrder, InLogOrder, LanesBehind

LEMMA OrderInvStep ==
  ASSUME TypeOK, TypeOK', LanesOK, LanesOK', SessionsInv, SessionsInv', OrderInv,
         [PipelineNext]_pipelineVars
  PROVE  OrderInv'
<1>a. next \in Nat /\ sessions \in 0 .. MaxSessions /\ MaxSessions \in Nat
  BY StreamAssumption DEF TypeOK, SessionsInv
<1>1. CASE HandOn
  <2> DEFINE m == next - 1
             q == lane[sessions]
  <2>a. PICK s \in {<<>>, <<m>>} :
           /\ s \in Seq(Changes)
           /\ lane' = [lane EXCEPT ![sessions] = @ \o s]
    BY <1>1, HandedOn
  <2>1. /\ sessions \in 1 .. MaxSessions /\ sessions' = sessions
        /\ pc = "handle" /\ pc' = "top" /\ next' = next
    BY <1>1 DEF HandOn, HandleData, SessionsInv, InSession
  <2>2. q \in Seq(Changes) /\ s \in Seq(Changes)
    BY <2>1, <2>a DEF LanesOK
  <2>3. /\ lane'[sessions] = q \o s
        /\ \A k \in 1 .. MaxSessions : k # sessions => lane'[k] = lane[k]
    BY <2>1, <2>a DEF LanesOK
  <2>4. /\ \A a \in 1 .. Len(q) : q[a] < m
        /\ \A a, b \in 1 .. Len(q) : a < b => q[a] < q[b]
    BY <2>1 DEF OrderInv, LogOrder, InLogOrder, LanesBehind, InSession, Front
  <2>5. m \in Int /\ m < next /\ Front' = next /\ Changes \subseteq Nat
    <3>1. Changes \subseteq Nat
      BY StreamAssumption DEF Msgs
    <3>2. Front' = next' /\ next' = next
      BY <2>1 DEF Front
    <3>3. QED
      BY <1>a, <3>1, <3>2
  <2>6. /\ \A a, b \in 1 .. Len(q \o s) : a < b => (q \o s)[a] < (q \o s)[b]
        /\ \A a \in 1 .. Len(q \o s) : (q \o s)[a] < next
    <3>1. CASE s = <<m>>
      <4>1. s = <<m>>
        BY <3>1
      <4> HIDE DEF q, m
      <4>2. /\ Len(q \o s) = Len(q) + 1
            /\ (q \o s)[Len(q) + 1] = m
            /\ \A a \in 1 .. Len(q) : (q \o s)[a] = q[a]
        BY <2>2, <4>1
      <4>3. Len(q) \in Nat /\ \A a \in 1 .. Len(q) : q[a] \in Nat
        <5>1. \A a \in 1 .. Len(q) : q[a] \in Changes
          BY <2>2
        <5>2. Len(q) \in Nat
          BY <2>2
        <5>3. \A a \in 1 .. Len(q) : q[a] \in Nat
          BY <2>5, <5>1
        <5>4. QED
          BY <5>2, <5>3
      <4>4. \A a \in 1 .. Len(q \o s) : a = Len(q) + 1 \/ a \in 1 .. Len(q)
        BY <4>2, <4>3
      <4>5. \A a \in 1 .. Len(q \o s) : (q \o s)[a] < next
        <5> SUFFICES ASSUME NEW a \in 1 .. Len(q \o s)
                     PROVE  (q \o s)[a] < next
          OBVIOUS
        <5>1. CASE a = Len(q) + 1
          BY <2>5, <4>2, <5>1
        <5>2. CASE a \in 1 .. Len(q)
          BY <1>a, <2>4, <2>5, <4>2, <4>3, <5>2
        <5>3. QED
          BY <4>4, <5>1, <5>2
      <4>6. ASSUME NEW a \in 1 .. Len(q \o s), NEW b \in 1 .. Len(q \o s), a < b
            PROVE  (q \o s)[a] < (q \o s)[b]
        <5>1. a \in 1 .. Len(q)
          BY <4>2, <4>3, <4>6
        <5>2. CASE b = Len(q) + 1
          BY <2>4, <4>2, <5>1, <5>2
        <5>3. CASE b \in 1 .. Len(q)
          BY <2>4, <4>2, <4>6, <5>1, <5>3
        <5>4. QED
          BY <4>4, <5>2, <5>3
      <4>7. QED
        BY <4>5, <4>6
    <3>2. CASE s = <<>>
      <4>1. s = <<>>
        BY <3>2
      <4> HIDE DEF q, m
      <4>2. q \o s = q /\ \A a \in 1 .. Len(q) : q[a] \in Nat
        <5>1. \A a \in 1 .. Len(q) : q[a] \in Changes
          BY <2>2
        <5>2. q \o s = q
          BY <2>2, <4>1
        <5>3. QED
          BY <2>5, <5>1, <5>2
      <4>3. \A a \in 1 .. Len(q) : q[a] < next
        BY <1>a, <2>4, <2>5, <4>2
      <4>4. QED
        BY <2>4, <4>2, <4>3
    <3>3. QED
      BY <2>a, <3>1, <3>2
  <2> HIDE DEF q, m
  <2>7. LogOrder'
    <3> SUFFICES ASSUME NEW k \in 1 .. MaxSessions
                 PROVE  InLogOrder(k)'
      BY DEF LogOrder
    <3>1. CASE k = sessions
      BY <2>3, <2>6, <3>1 DEF InLogOrder
    <3>2. CASE k # sessions
      BY <2>3, <3>2 DEF OrderInv, LogOrder, InLogOrder
    <3>3. QED
      BY <3>1, <3>2
  <2>8. LanesBehind'
    <3>1. ASSUME NEW k \in 1 .. MaxSessions, sessions' < k
          PROVE  lane'[k] = <<>>
      <4>1. k # sessions /\ sessions < k
        BY <1>a, <2>1, <3>1
      <4>2. QED
        BY <2>3, <4>1 DEF OrderInv, LanesBehind
    <3>2. \A a \in 1 .. Len(lane'[sessions']) : lane'[sessions'][a] < Front'
      BY <2>1, <2>3, <2>5, <2>6
    <3>3. QED
      BY <3>1, <3>2 DEF LanesBehind
  <2>9. QED
    BY <2>7, <2>8 DEF OrderInv
<1>2. CASE SessionStep
  <2>1. lane' = lane
    BY <1>2 DEF SessionStep, consumers
  <2>2. CASE StartReplication
    <3>1. sessions' = sessions + 1 /\ pc = "resume" /\ pc' = "top"
      BY <2>2 DEF StartReplication
    <3>2. sessions' \in 1 .. MaxSessions
      BY <1>a, <3>1 DEF SessionsInv
    <3>3. lane'[sessions'] = <<>>
      <4>1. sessions < sessions'
        BY <1>a, <3>1
      <4>2. QED
        BY <2>1, <3>2, <4>1 DEF OrderInv, LanesBehind
    <3>4. \A k \in 1 .. MaxSessions : sessions' < k => lane'[k] = <<>>
      <4>1. \A k \in 1 .. MaxSessions : sessions' < k => sessions < k
        BY <1>a, <3>1
      <4>2. QED
        BY <2>1, <4>1 DEF OrderInv, LanesBehind
    <3>5. LanesBehind'
      <4>1. Len(lane'[sessions']) = 0
        BY <3>3
      <4>2. 1 .. Len(lane'[sessions']) = {}
        BY <4>1
      <4>3. QED
        BY <3>4, <4>2 DEF LanesBehind
    <3>6. LogOrder'
      BY <2>1 DEF OrderInv, LogOrder, InLogOrder
    <3>7. QED
      BY <3>5, <3>6 DEF OrderInv
  <2>3. CASE ReceiveData
    <3>1. /\ pc = "recv" /\ pc' = "handle" /\ next' = next + 1 /\ sessions' = sessions
      BY <2>3 DEF ReceiveData
    <3>2. Front' = Front /\ InSession
      BY <1>a, <3>1 DEF Front, InSession
    <3>3. QED
      BY <2>1, <3>1, <3>2, LanesUndisturbed
  <2>4. CASE ReadSlot
    BY <2>1, <2>4, LanesUndisturbed DEF ReadSlot, InSession
  <2>5. CASE CheckHeartbeat \/ ReceiveKeepalive
    <3>1. sessions' = sessions /\ next' = next /\ pc \in {"top", "recv"} /\ pc' # "handle"
      BY <2>5 DEF CheckHeartbeat, ReceiveKeepalive, EndSession
    <3>2. QED
      BY <2>1, <3>1, LanesUndisturbed DEF InSession, Front
  <2>6. CASE HeartbeatWake \/ HeartbeatSend \/ ServerFeedback \/ Drop
    <3>1. sessions' = sessions /\ next' = next /\ pc' = pc
      BY <2>6 DEF HeartbeatWake, HeartbeatSend, ServerFeedback, Drop, sessionVars
    <3>2. QED
      BY <2>1, <3>1, LanesUndisturbed DEF InSession, Front
  <2>7. QED
    BY <1>2, <2>2, <2>3, <2>4, <2>5, <2>6 DEF SessionStep
<1>3. CASE SessionEnds
  <2>1. lane' = lane /\ sessions' = sessions /\ pc' = "down"
    BY <1>3 DEF SessionEnds, consumers, ReceiveError, RejectData, EndSession
  <2>2. QED
    BY <2>1, LanesUndisturbed DEF InSession
<1>4. CASE ProcessEnds
  <2>1. \A k \in 1 .. MaxSessions : lane'[k] = <<>> /\ Len(lane'[k]) = 0
    BY <1>4 DEF ProcessEnds
  <2>2. pc' = "down"
    BY <1>4 DEF ProcessEnds, Crash, GracefulStop, EndSession, vars
  <2>3. LogOrder'
    BY <2>1 DEF LogOrder, InLogOrder
  <2>4. QED
    BY <2>1, <2>2, <2>3 DEF OrderInv, LanesBehind, InSession
<1>5. ASSUME NEW k \in 1 .. MaxSessions, Settle(k)
      PROVE  OrderInv'
  <2>1. /\ lane[k] \in Seq(Changes) /\ lane[k] # <<>>
        /\ lane'[k] = Tail(lane[k])
        /\ \A l \in 1 .. MaxSessions : l # k => lane'[l] = lane[l]
        /\ sessions' = sessions /\ Front' = Front /\ InSession' = InSession
    BY <1>5 DEF Settle, LanesOK, vars, Front, InSession
  <2>2. \A a \in 1 .. Len(lane'[k]) : a + 1 \in 1 .. Len(lane[k]) /\ lane'[k][a] = lane[k][a + 1]
    BY <2>1, TakenFromFront
  <2>3. InLogOrder(k)'
    <3> SUFFICES ASSUME NEW a \in 1 .. Len(lane'[k]), NEW b \in 1 .. Len(lane'[k]), a < b
                 PROVE  lane'[k][a] < lane'[k][b]
      BY DEF InLogOrder
    <3>1. a + 1 < b + 1
      OBVIOUS
    <3>2. lane[k][a + 1] < lane[k][b + 1]
      BY <2>2, <3>1 DEF OrderInv, LogOrder, InLogOrder
    <3>3. QED
      BY <2>2, <3>2
  <2>4. LogOrder'
    <3> SUFFICES ASSUME NEW l \in 1 .. MaxSessions
                 PROVE  InLogOrder(l)'
      BY DEF LogOrder
    <3>1. CASE l = k
      BY <2>3, <3>1
    <3>2. CASE l # k
      BY <2>1, <3>2 DEF OrderInv, LogOrder, InLogOrder
    <3>3. QED
      BY <3>1, <3>2
  <2>5. ASSUME NEW l \in 1 .. MaxSessions, sessions' < l
        PROVE  lane'[l] = <<>>
    <3>1. lane[l] = <<>>
      BY <2>1, <2>5 DEF OrderInv, LanesBehind
    <3>2. l # k
      BY <2>1, <3>1
    <3>3. QED
      BY <2>1, <3>1, <3>2
  <2>6. ASSUME InSession'
        PROVE  \A a \in 1 .. Len(lane'[sessions']) : lane'[sessions'][a] < Front'
    <3>1. sessions \in 1 .. MaxSessions
      BY <2>1, <2>6 DEF SessionsInv
    <3>2. \A a \in 1 .. Len(lane[sessions]) : lane[sessions][a] < Front
      BY <2>1, <2>6 DEF OrderInv, LanesBehind
    <3>3. CASE sessions = k
      BY <2>1, <2>2, <3>2, <3>3
    <3>4. CASE sessions # k
      BY <2>1, <3>1, <3>2, <3>4
    <3>5. QED
      BY <3>3, <3>4
  <2>7. QED
    BY <2>4, <2>5, <2>6 DEF OrderInv, LanesBehind
<1>6. CASE UNCHANGED pipelineVars
  BY <1>6, LanesUndisturbed DEF pipelineVars, consumers, vars, InSession, Front
<1>7. QED
  BY <1>1, <1>2, <1>3, <1>4, <1>5, <1>6 DEF PipelineNext

\* Over any faults and any number of sessions, each consumer holds its rows in
\* the order of the log and none of them twice, so that it settles them in that
\* order: a topic gets out of order only across consumers.
THEOREM EachConsumerInOrder == PipelineSpec => []LogOrder
<1>1. PipelineInit => SessionsInv /\ LanesOK /\ OrderInv
  <2> SUFFICES ASSUME PipelineInit
               PROVE  SessionsInv /\ LanesOK /\ OrderInv
    OBVIOUS
  <2>1. /\ 0 \in 0 .. MaxSessions /\ sessions = 0 /\ pc = "down"
        /\ lane = [k \in 1 .. MaxSessions |-> <<>>]
    BY StreamAssumption DEF PipelineInit, Init
  <2>2. SessionsInv
    BY <2>1 DEF SessionsInv, InSession
  <2>3. LanesOK
    BY <2>1 DEF LanesOK
  <2>4. LogOrder /\ LanesBehind
    BY <2>1 DEF LogOrder, InLogOrder, LanesBehind, InSession
  <2>5. QED
    BY <2>2, <2>3, <2>4 DEF OrderInv
<1>2. SessionsInv /\ [Next]_vars => SessionsInv'
  BY SessionsStep
<1>3. LanesOK /\ [PipelineNext]_pipelineVars => LanesOK'
  BY LanesStep
<1>4. /\ TypeOK /\ TypeOK' /\ LanesOK /\ LanesOK' /\ SessionsInv /\ SessionsInv'
      /\ OrderInv /\ [PipelineNext]_pipelineVars
      => OrderInv'
  BY OrderInvStep
<1>5. OrderInv => LogOrder
  BY DEF OrderInv
<1>6. QED
  BY <1>1, <1>2, <1>3, <1>4, <1>5, PipelineSessions, StreamTypeCorrect, PTL
     DEF PipelineSpec, Spec
=============================================================================
