----------------------- MODULE ReplicationStreamProofs -----------------------
(***************************************************************************)
(* Theorems about ReplicationStream: for every log, any faults, any number *)
(* of sessions and of status updates under way.                            *)
(***************************************************************************)
EXTENDS ReplicationStream, SequenceTheorems, TLAPS

LEMMA SumOfNats == \A a, b \in Nat : a + b \in Nat
OBVIOUS

USE StreamAssumption DEF Msgs

(* What a session has behind it is handed on, but for the message in the   *)
(* hands of handleCopyData.                                                *)
SessionContiguous ==
    /\ pc \in {"top", "recv"} => \A i \in Changes : i < next => i \in handled
    /\ pc = "handle" => \A i \in Changes : i < next - 1 => i \in handled

FeedbackSafe == \A k \in 1 .. Len(feedback) : Safe(feedback[k])

(* The inductive invariant.                                                *)
StreamInv == EveryPositionSafe /\ SessionContiguous

\* Every variable keeps its type.
THEOREM StreamTypeCorrect == Spec => []TypeOK
<1>1. ASSUME Init
      PROVE  TypeOK
  <2>1. <<>> \in Seq(Nat) /\ 1 \in 1 .. N + 1
    OBVIOUS
  <2>2. SlotLSN \in Nat
    OBVIOUS
  <2>3. /\ confirmed \in Nat /\ resume \in Nat /\ lastLSN \in Nat /\ hbLSN \in Nat
        /\ feedback \in Seq(Nat) /\ next \in 1 .. N + 1
    BY <1>1, <2>1, <2>2, Zenon DEF Init
  <2>4. QED
    BY <1>1, <2>3 DEF Init, TypeOK
<1>2. ASSUME TypeOK, [Next]_vars
      PROVE  TypeOK'
  <2> USE DEF TypeOK, vars, sessionVars
  <2>e. ASSUME EndSession, UNCHANGED <<undecodable, handled>>
        PROVE  TypeOK'
    BY <1>2, <2>e DEF EndSession
  <2>1. CASE ReadSlot
    BY <1>2, <2>1 DEF ReadSlot
  <2>2. CASE StartReplication
    <3>1. <<>> \in Seq(Nat)
      OBVIOUS
    <3>2. feedback' \in Seq(Nat)
      BY <2>2, <3>1, Zenon DEF StartReplication
    <3>3. next' \in 1 .. N + 1 /\ lastLSN' \in Nat
      BY <1>2, <2>2 DEF StartReplication
    <3>4. pc' = "top" /\ sessions' \in Nat
      BY <1>2, <2>2 DEF StartReplication
    <3>5. QED
      BY <1>2, <2>2, <3>2, <3>3, <3>4, Zenon DEF StartReplication
  <2>3. CASE CheckHeartbeat
    BY <1>2, <2>3, <2>e DEF CheckHeartbeat
  <2>4. CASE ReceiveData
    <3>1. next \in Msgs /\ next + 1 \in 1 .. N + 1 /\ next + 1 > 1
      BY <1>2, <2>4 DEF ReceiveData
    <3>2. Pos(next) \in Nat
      BY <3>1 DEF Pos
    <3>3. QED
      BY <1>2, <2>4, <3>1, <3>2 DEF ReceiveData
  <2>5. CASE HandleData
    BY <1>2, <2>5 DEF HandleData
  <2>6. CASE RejectData
    BY <2>6, <2>e DEF RejectData
  <2>7. CASE ReceiveKeepalive
    BY <1>2, <2>7 DEF ReceiveKeepalive
  <2>8. CASE ReceiveError
    BY <2>8, <2>e DEF ReceiveError
  <2>9. CASE HeartbeatWake
    BY <1>2, <2>9 DEF HeartbeatWake
  <2>10. CASE HeartbeatSend
    <3>1. Append(feedback, hbLSN) \in Seq(Nat)
      BY <1>2, AppendProperties
    <3>2. QED
      BY <1>2, <2>10, <3>1 DEF HeartbeatSend
  <2>11. CASE ServerFeedback
    <3>1. Head(feedback) \in Nat /\ Tail(feedback) \in Seq(Nat)
      BY <1>2, <2>11, HeadTailProperties DEF ServerFeedback
    <3>2. QED
      BY <1>2, <2>11, <3>1 DEF ServerFeedback
  <2>12. CASE Drop
    BY <1>2, <2>12 DEF Drop
  <2>13. CASE Crash
    BY <2>13, <2>e DEF Crash
  <2>14. CASE GracefulStop
    BY <2>14, <2>e DEF GracefulStop
  <2>15. CASE UNCHANGED vars
    BY <1>2, <2>15
  <2>16. QED
    BY <1>2, <2>1, <2>2, <2>3, <2>4, <2>5, <2>6, <2>7, <2>8, <2>9, <2>10,
       <2>11, <2>12, <2>13, <2>14, <2>15 DEF Next
<1>3. QED
  BY <1>1, <1>2, PTL DEF Spec

(* The position stored for a message is safe if all before it is handed on.*)
LEMMA PositionOfNextSafe ==
  ASSUME NoOvershoot, NEW m \in Msgs,
         \A i \in Changes : i < m => i \in handled
  PROVE  Safe(Pos(m))
<1> SUFFICES ASSUME NEW i \in Changes, Commit[i] < Pos(m)
             PROVE  i \in handled
  BY DEF Safe
<1>1. Pos(m) \in Nat /\ Commit[i] \in Nat /\ i \in Msgs
  <2>1. i \in Msgs
    OBVIOUS
  <2>2. Start[m] \in Nat /\ Length[m] \in Nat /\ Commit[i] \in Nat
    BY <2>1
  <2>3. Start[m] + Length[m] \in Nat
    BY <2>2, SumOfNats, Zenon
  <2>4. QED
    BY <2>1, <2>2, <2>3 DEF Pos
<1>2. ~(m <= i)
  BY <1>1 DEF NoOvershoot
<1>3. QED
  BY <1>1, <1>2

(* StreamInv is inductive.                                                 *)
LEMMA StreamInvStep ==
  ASSUME NoOvershoot, TypeOK, TypeOK', StreamInv, [Next]_vars
  PROVE  StreamInv'
<1> USE DEF vars, sessionVars
<1>m. handled \subseteq handled'
  BY DEF Next, ReadSlot, StartReplication, CheckHeartbeat, ReceiveData, HandleData,
         RejectData, ReceiveKeepalive, ReceiveError, HeartbeatWake, HeartbeatSend,
         ServerFeedback, Drop, Crash, GracefulStop
<1>s. /\ Safe(confirmed)' \/ confirmed' # confirmed
      /\ Safe(resume)' \/ resume' # resume
      /\ Safe(lastLSN)' \/ lastLSN' # lastLSN
      /\ Safe(hbLSN)' \/ hbLSN' # hbLSN
  BY <1>m DEF StreamInv, EveryPositionSafe, Safe
<1>f. FeedbackSafe /\ (FeedbackSafe' \/ feedback' # feedback)
  <2>1. FeedbackSafe
    BY DEF StreamInv, EveryPositionSafe, FeedbackSafe
  <2>2. ASSUME feedback' = feedback
        PROVE  FeedbackSafe'
    BY <1>m, <2>1, <2>2 DEF FeedbackSafe, Safe
  <2>3. QED
    BY <2>1, <2>2
<1>i. /\ (Safe(confirmed) /\ Safe(resume) /\ Safe(lastLSN) /\ Safe(hbLSN))'
      /\ FeedbackSafe' /\ SessionContiguous'
      => StreamInv'
  BY DEF StreamInv, EveryPositionSafe, FeedbackSafe
<1>0. hbLSN' = 0 => Safe(hbLSN)'
  BY DEF Safe
<1>e. ASSUME EndSession, UNCHANGED <<undecodable, handled>>
      PROVE  StreamInv'
  BY <1>e, <1>0, <1>i, <1>s, <1>f DEF EndSession, StreamInv, SessionContiguous
<1>1. CASE ReadSlot
  <2>1. Safe(resume)'
    <3>1. CASE resume' = ServerLSN
      BY <3>1 DEF Safe
    <3>2. CASE resume' = confirmed
      BY <1>1, <1>s, <3>2 DEF ReadSlot
    <3>3. QED
      BY <1>1, <3>1, <3>2 DEF ReadSlot
  <2>2. QED
    BY <1>1, <1>i, <1>s, <1>f, <2>1 DEF ReadSlot, StreamInv, SessionContiguous
<1>2. CASE StartReplication
  <2>1. Safe(lastLSN)'
    BY <1>2, <1>s DEF StartReplication
  <2>2. FeedbackSafe'
    <3>1. feedback' = <<>>
      BY <1>2 DEF StartReplication
    <3>2. Len(feedback') = 0
      BY <3>1
    <3>3. QED
      BY <3>2 DEF FeedbackSafe
  <2>3. ASSUME NEW i \in Changes, i < next'
        PROVE  i \in handled'
    <3>1. Commit[i] < confirmed \/ Commit[i] < resume
      BY <1>2, <2>3 DEF StartReplication, FirstFrom, TypeOK
    <3>2. QED
      BY <1>2, <3>1 DEF StartReplication, StreamInv, EveryPositionSafe, Safe
  <2>4. SessionContiguous'
    BY <1>2, <2>3 DEF StartReplication, SessionContiguous
  <2>5. QED
    BY <1>2, <1>i, <1>s, <2>1, <2>2, <2>4 DEF StartReplication
<1>3. CASE CheckHeartbeat
  <2>1. CASE EndSession /\ UNCHANGED <<undecodable, handled>>
    BY <2>1, <1>e
  <2>2. CASE pc = "top" /\ pc' = "recv" /\ UNCHANGED <<confirmed, feedback, resume,
             next, lastLSN, hbLSN, handled>>
    BY <2>2, <1>i, <1>s, <1>f DEF StreamInv, SessionContiguous
  <2>3. QED
    BY <1>3, <2>1, <2>2 DEF CheckHeartbeat
<1>4. CASE ReceiveData
  <2>1. next \in Msgs /\ lastLSN' = Pos(next) /\ next' = next + 1 /\ pc = "recv"
    BY <1>4 DEF ReceiveData, TypeOK
  <2>2. \A i \in Changes : i < next => i \in handled
    BY <2>1 DEF StreamInv, SessionContiguous
  <2>3. Safe(Pos(next))
    BY <2>1, <2>2, PositionOfNextSafe
  <2>4. Safe(lastLSN)'
    BY <1>m, <2>1, <2>3 DEF Safe
  <2>5. SessionContiguous'
    BY <1>4, <1>m, <2>1, <2>2 DEF ReceiveData, SessionContiguous, TypeOK
  <2>6. QED
    BY <1>4, <1>i, <1>s, <1>f, <2>4, <2>5 DEF ReceiveData
<1>5. CASE HandleData
  <2>1. ASSUME NEW i \in Changes, i < next
        PROVE  i \in handled'
    <3>1. i \in Nat /\ next \in Nat
      BY DEF TypeOK
    <3>2. i < next - 1 \/ i = next - 1
      BY <2>1, <3>1
    <3>3. CASE i < next - 1
      BY <1>5, <1>m, <3>3 DEF HandleData, StreamInv, SessionContiguous
    <3>4. CASE i = next - 1
      BY <1>5, <3>4 DEF HandleData
    <3>5. QED
      BY <3>2, <3>3, <3>4
  <2>2. SessionContiguous'
    BY <1>5, <2>1 DEF HandleData, SessionContiguous
  <2>3. QED
    BY <1>5, <1>i, <1>s, <1>f, <2>2 DEF HandleData
<1>6. CASE RejectData
  BY <1>6, <1>e DEF RejectData
<1>7. CASE ReceiveKeepalive
  BY <1>7, <1>i, <1>s, <1>f DEF ReceiveKeepalive, StreamInv, SessionContiguous
<1>8. CASE ReceiveError
  BY <1>8, <1>e DEF ReceiveError
<1>9. CASE HeartbeatWake
  <2>1. Safe(hbLSN)'
    BY <1>9, <1>s DEF HeartbeatWake
  <2>2. QED
    BY <1>9, <1>i, <1>s, <1>f, <2>1 DEF HeartbeatWake, StreamInv, SessionContiguous
<1>10. CASE HeartbeatSend
  <2>1. CASE feedback' = Append(feedback, hbLSN)
    <3>1. ASSUME NEW k \in 1 .. Len(feedback'), NEW i \in Changes,
                 Commit[i] < feedback'[k]
          PROVE  i \in handled'
      <4>1. Len(feedback') = Len(feedback) + 1 /\ Len(feedback) \in Nat
        BY <2>1, AppendProperties DEF TypeOK
      <4>2. CASE k = Len(feedback) + 1
        <5>1. feedback'[k] = hbLSN
          BY <2>1, <4>2, AppendProperties DEF TypeOK
        <5>2. QED
          BY <1>m, <3>1, <5>1 DEF StreamInv, EveryPositionSafe, Safe
      <4>3. CASE k \in 1 .. Len(feedback)
        <5>1. feedback'[k] = feedback[k]
          BY <2>1, <4>3, AppendProperties DEF TypeOK
        <5>2. Safe(feedback[k])
          BY <1>f, <4>3 DEF FeedbackSafe
        <5>3. Commit[i] < feedback[k]
          BY <3>1, <5>1, Zenon
        <5>4. QED
          BY <1>m, <5>2, <5>3, Zenon DEF Safe
      <4>4. QED
        BY <3>1, <4>1, <4>2, <4>3
    <3>2. FeedbackSafe'
      BY <3>1 DEF FeedbackSafe, Safe
    <3>3. QED
      BY <1>10, <1>0, <1>i, <1>s, <3>2 DEF HeartbeatSend, StreamInv, SessionContiguous
  <2>2. CASE feedback' = feedback
    BY <1>10, <1>0, <1>i, <1>s, <1>f, <2>2 DEF HeartbeatSend, StreamInv, SessionContiguous
  <2>3. QED
    BY <1>10, <2>1, <2>2 DEF HeartbeatSend
<1>11. CASE ServerFeedback
  <2>1. feedback # <<>> /\ feedback' = Tail(feedback)
    BY <1>11 DEF ServerFeedback
  <2>2. 1 \in 1 .. Len(feedback) /\ Head(feedback) = feedback[1]
    <3>1. feedback \in Seq(Nat)
      BY DEF TypeOK
    <3>2. QED
      BY <2>1, <3>1
  <2>3. Safe(Head(feedback)) /\ Safe(confirmed)
    BY <1>f, <2>2 DEF StreamInv, EveryPositionSafe, FeedbackSafe
  <2>4. Safe(confirmed)'
    BY <1>11, <1>m, <2>3 DEF ServerFeedback, Safe
  <2>5. ASSUME NEW k \in 1 .. Len(feedback'), NEW i \in Changes,
               Commit[i] < feedback'[k]
        PROVE  i \in handled'
    <3>1. k + 1 \in 1 .. Len(feedback) /\ feedback'[k] = feedback[k + 1]
      BY <2>1, <2>5, HeadTailProperties DEF TypeOK
    <3>2. Safe(feedback[k + 1])
      BY <1>f, <3>1 DEF FeedbackSafe
    <3>3. QED
      BY <1>m, <2>5, <3>1, <3>2 DEF Safe
  <2>6. FeedbackSafe'
    BY <2>5 DEF FeedbackSafe, Safe
  <2>7. QED
    BY <1>11, <1>i, <1>s, <2>4, <2>6 DEF ServerFeedback, StreamInv, SessionContiguous
<1>12. CASE Drop
  BY <1>12, <1>i, <1>s, <1>f DEF Drop, StreamInv, SessionContiguous
<1>13. CASE Crash
  BY <1>13, <1>e DEF Crash
<1>14. CASE GracefulStop
  BY <1>14, <1>e DEF GracefulStop
<1>15. CASE UNCHANGED vars
  BY <1>15, <1>i, <1>s, <1>f DEF StreamInv, SessionContiguous
<1>16. QED
  BY <1>1, <1>2, <1>3, <1>4, <1>5, <1>6, <1>7, <1>8, <1>9, <1>10, <1>11, <1>12,
     <1>13, <1>14, <1>15 DEF Next

\* If no message ends beyond the commit record of a change sent with or after
\* it, no position anywhere between the receive loop and the slot is ahead of
\* a change that was not handed on.
THEOREM PositionsSafe ==
  ASSUME NoOvershoot
  PROVE  Spec => []EveryPositionSafe
<1>1. Init => StreamInv
  BY DEF Init, StreamInv, EveryPositionSafe, SessionContiguous, Safe
<1>2. TypeOK /\ TypeOK' /\ StreamInv /\ [Next]_vars => StreamInv'
  BY StreamInvStep
<1>3. StreamInv => EveryPositionSafe
  BY DEF StreamInv
<1>4. QED
  BY <1>1, <1>2, <1>3, StreamTypeCorrect, PTL DEF Spec

\* On the same condition a session never opens behind a lost change, whatever
\* connections, sessions and processes died before.
THEOREM NothingIsLost ==
  ASSUME NoOvershoot
  PROVE  Spec => []NothingLost
<1>1. EveryPositionSafe => NothingLost
  BY DEF EveryPositionSafe, NothingLost
<1>2. QED
  BY <1>1, PositionsSafe, PTL

-----------------------------------------------------------------------------
(* Why no session gets past a change that cannot be decoded: it is not     *)
(* handed on, so no position is ahead of it and every session is sent it;  *)
(* the session has not received it, or has it in the hands of              *)
(* handleCopyData, or has ended.                                           *)

NotPassed(m) ==
    /\ \A i \in handled : i < m
    /\ pc \in {"top", "recv"} => next <= m
    /\ pc = "handle" => next - 1 <= m

NonePassed == \A m \in undecodable \cap Changes : NotPassed(m)

LEMMA NonePassedStep ==
  ASSUME TypeOK, EveryPositionSafe, NonePassed, [Next]_vars
  PROVE  NonePassed'
<1> SUFFICES ASSUME NEW m \in undecodable' \cap Changes
             PROVE  NotPassed(m)'
  BY DEF NonePassed
<1> USE DEF vars, sessionVars
<1>u. undecodable' = undecodable
  BY DEF Next, ReadSlot, StartReplication, CheckHeartbeat, ReceiveData, HandleData,
         RejectData, ReceiveKeepalive, ReceiveError, HeartbeatWake, HeartbeatSend,
         ServerFeedback, Drop, Crash, GracefulStop
<1>a. /\ m \in undecodable /\ m \in Changes /\ m \in Nat
      /\ next \in Nat /\ handled \subseteq Nat /\ NotPassed(m)
  BY <1>u DEF TypeOK, NonePassed
<1>e. ASSUME EndSession, UNCHANGED <<undecodable, handled>>
      PROVE  NotPassed(m)'
  BY <1>a, <1>e DEF EndSession, NotPassed
<1>k. ASSUME UNCHANGED <<pc, next, handled>>
      PROVE  NotPassed(m)'
  BY <1>a, <1>k DEF NotPassed
<1>1. CASE ReadSlot
  BY <1>1, <1>a DEF ReadSlot, NotPassed
<1>2. CASE StartReplication
  <2>1. m \notin handled
    BY <1>a DEF NotPassed
  <2>2. ~(Commit[m] < confirmed) /\ ~(Commit[m] < resume)
    BY <1>a, <2>1 DEF EveryPositionSafe, Safe
  <2>3. next' \in Nat /\ ~(m < next')
    BY <1>2, <1>a, <2>2 DEF StartReplication, FirstFrom
  <2>4. next' <= m
    BY <1>a, <2>3
  <2>5. QED
    BY <1>2, <1>a, <2>4 DEF StartReplication, NotPassed
<1>3. CASE CheckHeartbeat
  <2>1. CASE EndSession /\ UNCHANGED <<undecodable, handled>>
    BY <2>1, <1>e
  <2>2. CASE pc = "top" /\ pc' = "recv" /\ UNCHANGED <<next, handled>>
    BY <1>a, <2>2 DEF NotPassed
  <2>3. QED
    BY <1>3, <2>1, <2>2 DEF CheckHeartbeat
<1>4. CASE ReceiveData
  BY <1>4, <1>a DEF ReceiveData, NotPassed
<1>5. CASE HandleData
  <2>1. next - 1 < m
    <3>1. next - 1 # m
      BY <1>5, <1>a DEF HandleData
    <3>2. next - 1 <= m
      BY <1>5, <1>a DEF HandleData, NotPassed
    <3>3. QED
      BY <1>a, <3>1, <3>2
  <2>2. QED
    BY <1>5, <1>a, <2>1 DEF HandleData, NotPassed
<1>6. CASE ReceiveKeepalive
  BY <1>6, <1>a DEF ReceiveKeepalive, NotPassed
<1>7. CASE RejectData \/ ReceiveError \/ Crash \/ GracefulStop
  BY <1>7, <1>e DEF RejectData, ReceiveError, Crash, GracefulStop
<1>8. CASE HeartbeatWake \/ HeartbeatSend \/ ServerFeedback \/ Drop
  BY <1>8, <1>k DEF HeartbeatWake, HeartbeatSend, ServerFeedback, Drop
<1>9. CASE UNCHANGED vars
  BY <1>9, <1>k
<1>10. QED
  BY <1>1, <1>2, <1>3, <1>4, <1>5, <1>6, <1>7, <1>8, <1>9 DEF Next

\* On the same condition a change that cannot be decoded is never skipped:
\* over any faults and any number of sessions, whatever was handed on was sent
\* before it.
THEOREM RejectedIsNeverSkipped ==
  ASSUME NoOvershoot
  PROVE  Spec => []NothingPastRejected
<1>1. Init => NonePassed
  BY DEF Init, NonePassed, NotPassed
<1>2. TypeOK /\ EveryPositionSafe /\ NonePassed /\ [Next]_vars => NonePassed'
  BY NonePassedStep
<1>3. NonePassed => NothingPastRejected
  BY DEF NonePassed, NotPassed, NothingPastRejected
<1>4. QED
  BY <1>1, <1>2, <1>3, StreamTypeCorrect, PositionsSafe, PTL DEF Spec
=============================================================================
