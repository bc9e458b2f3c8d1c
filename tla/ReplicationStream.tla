-------------------------- MODULE ReplicationStream --------------------------
(***************************************************************************)
(* The replication sessions of src/stream.go, with the part of             *)
(* src/cdc.go (runOnce and the retry loop of Start) that opens them.       *)
(*                                                                         *)
(* The server sends the messages of the WAL transaction by transaction, in *)
(* commit order.  The receive loop (Run, handleCopyData) notes the         *)
(* position it has reached, then hands the message on; the heartbeat       *)
(* goroutine (heartbeatLoop) reports that position to the server, which    *)
(* keeps it in the slot and drops every transaction that committed before  *)
(* it from what a later session is sent.  Sessions end by a lost           *)
(* connection, a message Decode fails on, a cancelled context or a crash.  *)
(* A message that cannot be decoded fails in every session that is sent    *)
(* it, and Start opens one session after another.                          *)
(*                                                                         *)
(* A position (LSN) is a number.  The log is fixed: Start[i] and Length[i] *)
(* are WALStart and len(WALData) of the i-th message, Commit[i] is the     *)
(* position of the commit record of its transaction.                       *)
(***************************************************************************)
EXTENDS Integers, Sequences, FiniteSetsExt

CONSTANTS
    N,             \* how many messages the log has
    Start, Length, Commit,
    Changes,       \* the messages that carry a change, not a BEGIN, COMMIT, ...
    ServerLSN,     \* XLogPos of IDENTIFY_SYSTEM before the slot was created
    SlotLSN,       \* where the slot was created
    Rejected,      \* the messages that may be undecodable
    Faults,        \* which of "drop", "crash", "stop" happen
    SlotMayGoBack, \* whether the server lets a status update move the slot back
    MaxSessions,   \* bound: how many sessions are opened
    MaxFeedback    \* bound: how many status updates are under way at once

Msgs == 1 .. N

ASSUME StreamAssumption ==
    /\ N \in Nat
    /\ Start \in [Msgs -> Nat] /\ Length \in [Msgs -> Nat]
    /\ Commit \in [Msgs -> Nat]
    /\ \A i, j \in Msgs : i <= j => Commit[i] <= Commit[j]
    /\ Changes \in SUBSET Msgs
    /\ ServerLSN \in Nat /\ SlotLSN \in Nat /\ ServerLSN <= SlotLSN
    /\ \A i \in Msgs : SlotLSN <= Commit[i]
    /\ Rejected \in SUBSET Msgs
    /\ SlotMayGoBack \in BOOLEAN
    /\ MaxSessions \in Nat /\ MaxFeedback \in Nat

VARIABLES
    confirmed,  \* the slot's confirmed_flush_lsn, at the server
    feedback,   \* status updates on their way to the server
    conn,       \* the replication connection is up
    pc,         \* the session: "down", "resume" (slot read), and in Run at the
                \* head of the loop ("top"), in ReceiveMessage ("recv"), in
                \* handleCopyData ("handle")
    sessions,   \* how many sessions were opened
    resume,     \* resumeLSN of runOnce
    next,       \* the message the connection delivers next
    lastLSN,
    replyNow,   \* a token is in the channel replyNow
    hb,         \* the heartbeat goroutine: "off", "wait", "send", "failed"
    hbLSN,      \* the position it has loaded (0: none)
    undecodable, \* the messages Decode fails on: given by the log, never changed
    handled     \* history: the changes handed on

sessionVars == <<conn, pc, next, lastLSN, replyNow, hb, hbLSN>>
vars == <<confirmed, feedback, conn, pc, sessions, resume, next, lastLSN,
          replyNow, hb, hbLSN, undecodable, handled>>

InSession == pc \in {"top", "recv", "handle"}

\* The position stored for a message: WALStart + len(WALData).
Pos(i) == Start[i] + Length[i]

TypeOK ==
    /\ confirmed \in Nat /\ resume \in Nat /\ lastLSN \in Nat /\ hbLSN \in Nat
    /\ feedback \in Seq(Nat)
    /\ conn \in BOOLEAN /\ replyNow \in BOOLEAN
    /\ pc \in {"down", "resume", "top", "recv", "handle"}
    /\ sessions \in Nat
    /\ next \in 1 .. N + 1
    /\ hb \in {"off", "wait", "send", "failed"}
    /\ undecodable \in SUBSET Rejected
    /\ handled \in SUBSET Changes
    /\ pc = "handle" => next > 1

Init ==
    /\ confirmed = SlotLSN /\ feedback = <<>>
    /\ conn = FALSE /\ pc = "down" /\ sessions = 0
    /\ resume = SlotLSN /\ next = 1
    /\ lastLSN = SlotLSN /\ replyNow = FALSE
    /\ hb = "off" /\ hbLSN = 0
    /\ undecodable \in SUBSET Rejected
    /\ handled = {}

-----------------------------------------------------------------------------
(* Opening a session (runOnce).                                            *)

\* SlotConfirmedFlushLSN, on the admin connection.  The first session may find
\* no slot; it then goes by IdentifySystem, and makes the slot.
ReadSlot ==
    /\ pc = "down" /\ sessions < MaxSessions
    /\ resume' \in IF sessions = 0 THEN {ServerLSN, confirmed} ELSE {confirmed}
    /\ pc' = "resume"
    /\ UNCHANGED <<confirmed, feedback, conn, sessions, next, lastLSN, replyNow,
                   hb, hbLSN, undecodable, handled>>

\* The first message of the first transaction that did not commit before v.
FirstFrom(v, n) ==
    /\ \A i \in Msgs : i < n => Commit[i] < v
    /\ \A i \in Msgs : i >= n => Commit[i] >= v

\* NewReplicationStream, and the start of Run.  The server goes by the later
\* of the position asked for and its own; nothing of the previous connection
\* reaches it any more.
StartReplication ==
    /\ pc = "resume"
    /\ \E n \in 1 .. N + 1 :
          /\ FirstFrom(IF resume < confirmed THEN confirmed ELSE resume, n)
          /\ next' = n
    /\ feedback' = <<>>
    /\ conn' = TRUE
    /\ sessions' = sessions + 1
    /\ lastLSN' = resume
    /\ replyNow' = FALSE
    /\ hb' = "wait"
    /\ pc' = "top"
    /\ UNCHANGED <<confirmed, resume, hbLSN, undecodable, handled>>

\* Run returns and runOnce closes the connection; no last status update is
\* sent.  Start opens another session, or somebody starts the program again.
EndSession ==
    /\ pc' = "down"
    /\ conn' = FALSE
    /\ replyNow' = FALSE
    /\ hb' = "off" /\ hbLSN' = 0
    /\ UNCHANGED <<confirmed, feedback, sessions, resume, next, lastLSN>>

-----------------------------------------------------------------------------
(* The receive loop (Run, handleCopyData).                                 *)

\* The failure of the heartbeat goroutine is noticed between two messages.
CheckHeartbeat ==
    /\ pc = "top"
    /\ \/ hb = "failed" /\ EndSession
       \/ /\ hb # "failed"
          /\ pc' = "recv"
          /\ UNCHANGED <<confirmed, feedback, conn, sessions, resume, next,
                         lastLSN, replyNow, hb, hbLSN>>
    /\ UNCHANGED <<undecodable, handled>>

\* XLogData: the position is stored before the message is decoded.  What was
\* buffered when the connection was lost may still be read.
ReceiveData ==
    /\ pc = "recv" /\ next <= N
    /\ lastLSN' = Pos(next)
    /\ next' = next + 1
    /\ pc' = "handle"
    /\ UNCHANGED <<confirmed, feedback, conn, sessions, resume, replyNow, hb,
                   hbLSN, undecodable, handled>>

\* Mutant: BEGIN, COMMIT and RELATION messages are handed on as changes.
HandleDataAll ==
    /\ pc = "handle" /\ next - 1 \notin undecodable
    /\ handled' = handled \cup {next - 1}
    /\ pc' = "top"
    /\ UNCHANGED <<confirmed, feedback, conn, sessions, resume, next, lastLSN,
                   replyNow, hb, hbLSN, undecodable>>

\* Decode, then Handle, Publish and the change handler.
HandleData ==
    /\ pc = "handle" /\ next - 1 \notin undecodable
    /\ handled' = handled \cup ({next - 1} \cap Changes)
    /\ pc' = "top"
    /\ UNCHANGED <<confirmed, feedback, conn, sessions, resume, next, lastLSN,
                   replyNow, hb, hbLSN, undecodable>>

\* Mutant: the error is logged and the message skipped.
RejectDataSkips ==
    /\ pc = "handle" /\ next - 1 \in undecodable
    /\ pc' = "top"
    /\ UNCHANGED <<confirmed, feedback, conn, sessions, resume, next, lastLSN,
                   replyNow, hb, hbLSN, undecodable, handled>>

\* An error of Decode ends the session, in this one and in every later one
\* that gets to the message.
RejectData ==
    /\ pc = "handle" /\ next - 1 \in undecodable
    /\ EndSession
    /\ UNCHANGED <<undecodable, handled>>

\* Mutant: the end of the server's WAL is taken for the position received.
ReceiveKeepaliveServerEnd ==
    /\ pc = "recv" /\ conn
    /\ replyNow' \in {replyNow, TRUE}
    /\ lastLSN' = Pos(N)
    /\ pc' = "top"
    /\ UNCHANGED <<confirmed, feedback, conn, sessions, resume, next, hb, hbLSN,
                   undecodable, handled>>

\* A keepalive leaves a token for the heartbeat if it asks for a reply.
ReceiveKeepalive ==
    /\ pc = "recv" /\ conn
    /\ replyNow' \in {replyNow, TRUE}
    /\ pc' = "top"
    /\ UNCHANGED <<confirmed, feedback, conn, sessions, resume, next, lastLSN,
                   hb, hbLSN, undecodable, handled>>

\* Mutant: Run tries again on the same connection.
ReceiveErrorIgnored ==
    /\ pc = "recv" /\ ~conn
    /\ pc' = "top"
    /\ UNCHANGED <<confirmed, feedback, conn, sessions, resume, next, lastLSN,
                   replyNow, hb, hbLSN, undecodable, handled>>

ReceiveError ==
    /\ pc = "recv" /\ ~conn
    /\ EndSession
    /\ UNCHANGED <<undecodable, handled>>

-----------------------------------------------------------------------------
(* The heartbeat goroutine (heartbeatLoop, sendStatusUpdate).              *)

\* Mutant: it reports where the session began.
HeartbeatWakeResume ==
    /\ hb = "wait"
    /\ replyNow' \in {replyNow, FALSE}
    /\ hbLSN' = resume
    /\ hb' = "send"
    /\ UNCHANGED <<confirmed, feedback, conn, pc, sessions, resume, next, lastLSN,
                   undecodable, handled>>

\* A tick, or a token, wakes it; it loads the position.
HeartbeatWake ==
    /\ hb = "wait"
    /\ replyNow' \in {replyNow, FALSE}
    /\ hbLSN' = lastLSN
    /\ hb' = "send"
    /\ UNCHANGED <<confirmed, feedback, conn, pc, sessions, resume, next, lastLSN,
                   undecodable, handled>>

\* Over a dead connection the send fails, or is lost without an error.
HeartbeatSend ==
    /\ hb = "send"
    /\ \/ /\ conn /\ Len(feedback) < MaxFeedback
          /\ feedback' = Append(feedback, hbLSN)
          /\ hb' = "wait"
       \/ /\ ~conn
          /\ hb' \in {"wait", "failed"}
          /\ UNCHANGED feedback
    /\ hbLSN' = 0
    /\ UNCHANGED <<confirmed, conn, pc, sessions, resume, next, lastLSN, replyNow,
                   undecodable, handled>>

-----------------------------------------------------------------------------
(* The server, the network and the operator.                               *)

\* The walsender moves the slot to a reported position; whether it also lets
\* it go back depends on the version of the server.
ServerFeedback ==
    /\ feedback # <<>>
    /\ confirmed' = IF Head(feedback) < confirmed /\ ~SlotMayGoBack
                    THEN confirmed ELSE Head(feedback)
    /\ feedback' = Tail(feedback)
    /\ UNCHANGED <<sessionVars, sessions, resume, undecodable, handled>>

Drop ==
    /\ "drop" \in Faults /\ sessions < MaxSessions
    /\ conn
    /\ conn' = FALSE
    /\ UNCHANGED <<confirmed, feedback, pc, sessions, resume, next, lastLSN,
                   replyNow, hb, hbLSN, undecodable, handled>>

\* The process dies; what it had in memory is gone.
Crash ==
    /\ "crash" \in Faults /\ sessions < MaxSessions
    /\ InSession
    /\ EndSession
    /\ UNCHANGED <<undecodable, handled>>

\* The context is cancelled: ReceiveMessage returns.
GracefulStop ==
    /\ "stop" \in Faults /\ sessions < MaxSessions
    /\ pc = "recv"
    /\ EndSession
    /\ UNCHANGED <<undecodable, handled>>

-----------------------------------------------------------------------------
Next ==
    \/ ReadSlot \/ StartReplication
    \/ CheckHeartbeat \/ ReceiveData \/ HandleData \/ RejectData
    \/ ReceiveKeepalive \/ ReceiveError
    \/ HeartbeatWake \/ HeartbeatSend
    \/ ServerFeedback \/ Drop \/ Crash \/ GracefulStop

Spec == Init /\ [][Next]_vars

(* The program keeps going (at most one of these is possible at a time),   *)
(* the heartbeat ticks, the server reads what it is sent.  Keepalives may  *)
(* come between data for as long as the server likes, but over a           *)
(* connection that is up the data does arrive (strong fairness).  Faults   *)
(* are never obliged to happen.                                            *)
Fairness ==
    /\ WF_vars(\/ ReadSlot \/ StartReplication \/ CheckHeartbeat
               \/ HandleData \/ RejectData \/ ReceiveError)
    /\ SF_vars(conn /\ ReceiveData)
    /\ WF_vars(HeartbeatWake \/ HeartbeatSend)
    /\ WF_vars(ServerFeedback)

-----------------------------------------------------------------------------
(* What the sessions promise.                                              *)

\* No message ends beyond the commit record of a change that is sent with it
\* or after it.  It is a fact about the log, not about the program.
NoOvershoot == \A i \in Msgs, j \in Changes : i <= j => Pos(i) <= Commit[j]

\* A position is safe for the slot if every change the server would never
\* send again after it was confirmed has been handed on.
Safe(v) == \A i \in Changes : Commit[i] < v => i \in handled

\* "On a reconnect this is the last confirmed flush LSN, so nothing is lost"
\* (runOnce): whenever a session is about to open, over any number of lost
\* connections, rejected messages, crashes and restarts, what the server will
\* not send again has been handed on.
NothingLost == pc = "resume" => Safe(confirmed)

\* Why: no position on its way to the slot is ever ahead of a change that is
\* not handed on, neither at the server, nor in the network, nor loaded by the
\* heartbeat, nor stored by the receive loop for the message in its hands.
EveryPositionSafe ==
    /\ Safe(confirmed) /\ Safe(resume) /\ Safe(lastLSN) /\ Safe(hbLSN)
    /\ \A k \in 1 .. Len(feedback) : Safe(feedback[k])

\* Nobody gets past a change that cannot be decoded: a session that is sent it
\* ends before it hands on anything sent after it, and no position, of this
\* session's heartbeat or of an earlier one, ever lets the server skip it.
NothingPastRejected ==
    \A m \in undecodable \cap Changes, i \in handled : i < m

\* If every message can be decoded, the slot ends up, and stays, where the
\* receive loop is: the server can discard what was received even if no
\* message follows it.
SlotFollows == undecodable = {} => <>[](confirmed = lastLSN)
=============================================================================
