---------------------------- MODULE OutboxPromise ----------------------------
(***************************************************************************)
(* What a caller of the outbox may rely on, without goroutines, queues,    *)
(* tokens or retries.  Every topic is a lane.  A row joins the end of its  *)
(* lane; only the row at the head of a lane is ever given to the           *)
(* DeliveryFunc, and leaves the lane delivered, failed, or, once the       *)
(* context is cancelled, abandoned.  A row is refused only on arrival and  *)
(* only behind a full queue of rows of its own topic.                      *)
(***************************************************************************)
EXTENDS Integers, Sequences, SequencesExt

CONSTANTS Topics, QueueCap, MaxRows

VARIABLES arrived, lane, fate, cancelled

vars == <<arrived, lane, fate, cancelled>>

Init ==
    /\ arrived = 0
    /\ lane = [t \in Topics |-> <<>>]
    /\ fate = [n \in 1 .. MaxRows |-> "unseen"]
    /\ cancelled = FALSE

Accept(t) ==
    /\ arrived < MaxRows /\ ~cancelled
    /\ arrived' = arrived + 1
    /\ lane' = [lane EXCEPT ![t] = Append(@, arrived + 1)]
    /\ fate' = [fate EXCEPT ![arrived + 1] = "open"]
    /\ UNCHANGED cancelled

Skip ==
    /\ arrived < MaxRows /\ ~cancelled
    /\ arrived' = arrived + 1
    /\ fate' = [fate EXCEPT ![arrived + 1] = "malformed"]
    /\ UNCHANGED <<lane, cancelled>>

Refuse(t) ==
    /\ Len(lane[t]) > QueueCap
    /\ Last(lane[t]) = arrived
    /\ lane' = [lane EXCEPT ![t] = Front(@)]
    /\ fate' = [fate EXCEPT ![arrived] = "dropped"]
    /\ UNCHANGED <<arrived, cancelled>>

Settle(t) ==
    /\ lane[t] # <<>>
    /\ \E f \in {"delivered", "failed"} \cup (IF cancelled THEN {"abandoned"} ELSE {}) :
          fate' = [fate EXCEPT ![Head(lane[t])] = f]
    /\ lane' = [lane EXCEPT ![t] = Tail(@)]
    /\ UNCHANGED <<arrived, cancelled>>

Cancel ==
    /\ ~cancelled
    /\ cancelled' = TRUE
    /\ UNCHANGED <<arrived, lane, fate>>

Next ==
    \/ Skip
    \/ Cancel
    \/ \E t \in Topics : Accept(t) \/ Refuse(t) \/ Settle(t)

Spec == Init /\ [][Next]_vars
=============================================================================
