---------------------------- MODULE ClientsProofs ----------------------------
(***************************************************************************)
(* A theorem about Clients: for any registrations, any requests, any       *)
(* Servers, as long as no two requests have the same number.               *)
(***************************************************************************)
EXTENDS Clients, TLAPS

USE ClientsAssumption

(* The numbers of the connections differ, as those of one Server do.       *)
NumbersDiffer == \A g, h \in Handlers : Number[g] = Number[h] => g = h

LEMMA IdsDiffer ==
  ASSUME NumbersDiffer
  PROVE  /\ \A r, s \in Subs : SubscriberID(r) = SubscriberID(s) => r = s
         /\ \A s \in Subs : SubscriberID(s) \in Ids /\ IdOf[s] = SubscriberID(s)
<1>1. \A g, h \in Handlers : SubscriberID(g) = SubscriberID(h) => g = h
  BY DEF NumbersDiffer, SubscriberID
<1>2. \A r, s \in Registrations : SubscriberID(r) = SubscriberID(s) => r = s
  BY DEF SubscriberID
<1>3. \A r \in Registrations, h \in Handlers : SubscriberID(r) # SubscriberID(h)
  BY DEF SubscriberID
<1>4. \A s \in Subs : SubscriberID(s) \in Ids /\ IdOf[s] = SubscriberID(s)
  BY DEF Ids, IdOf
<1>5. QED
  BY <1>1, <1>2, <1>3, <1>4 DEF Subs

(* Who is in the map is there under its own id; a handler that has not     *)
(* subscribed is neither there nor closed, and what unsubscribeAll will    *)
(* unsubscribe is not a handler's.                                         *)
MapOK ==
    /\ subscribers \in [Ids -> Subs \cup {NoSub}]
    /\ \A id \in Ids : subscribers[id] # NoSub => SubscriberID(subscribers[id]) = id

NotYet(h) == h \notin closed /\ \A id \in Ids : subscribers[id] # h

HandlersOK ==
    \A h \in Handlers :
        /\ handler[h] \in {"new", "accepted"} => NotYet(h)
        /\ handler[h] = "serving" => subscribers[SubscriberID(h)] = h /\ h \notin closed

RegistrationIDs == {SubscriberID(r) : r \in Registrations}

ClosingOK == subIDs \subseteq RegistrationIDs /\ toClose \subseteq RegistrationIDs

HandlerOK == handler \in [Handlers -> {"new", "accepted", "serving", "leaving", "gone"}]

ServedInv == MapOK /\ HandlersOK /\ ClosingOK /\ HandlerOK

LEMMA ClosingStep ==
  ASSUME ClosingOK, [Next]_vars
  PROVE  ClosingOK'
<1> USE DEF ClosingOK, RegistrationIDs, broadcasterVars, cdcVars, httpVars
<1>1. ASSUME NEW r \in Registrations, RecordID(r) \/ SubscribeRegistration(r) \/ CallBack(r)
      PROVE  ClosingOK'
  BY <1>1 DEF RecordID, SubscribeRegistration, CallBack
<1>2. CASE Publish \/ TakeIDs \/ StartReturns
  BY <1>2 DEF Publish, TakeIDs, StartReturns
<1>3. ASSUME NEW id \in Ids, UnsubscribeNext(id)
      PROVE  ClosingOK'
  BY <1>3 DEF UnsubscribeNext
<1>4. ASSUME NEW h \in Handlers,
             \/ Accept(h) \/ SubscribeHandler(h) \/ SendEvent(h)
             \/ Disconnect(h) \/ LeaveLoop(h) \/ EndHandler(h)
      PROVE  ClosingOK'
  BY <1>4 DEF Accept, SubscribeHandler, SendEvent, Disconnect, LeaveLoop, EndHandler
<1>5. ASSUME NEW v \in Servers,
             \/ ServeMakes(v) \/ ServeListens(v) \/ ServeReturns(v)
             \/ ShutdownMakes(v) \/ ShutdownMarks(v) \/ ShutdownReturns(v)
      PROVE  ClosingOK'
  BY <1>5 DEF ServeMakes, ServeListens, ServeReturns, ShutdownMakes, ShutdownMarks,
              ShutdownReturns
<1>6. CASE UNCHANGED vars
  BY <1>6 DEF vars
<1>7. QED
  BY <1>1, <1>2, <1>3, <1>4, <1>5, <1>6 DEF Next

(* What the steps do to the map.                                           *)
Subscribed(s) ==
    /\ subscribers' = [subscribers EXCEPT ![SubscriberID(s)] = s]
    /\ closed' = closed

Unsubscribed(id) ==
    \/ subscribers[id] = NoSub /\ subscribers' = subscribers /\ closed' = closed
    \/ /\ subscribers[id] # NoSub
       /\ subscribers' = [subscribers EXCEPT ![id] = NoSub]
       /\ closed' = closed \cup {subscribers[id]}

LEMMA UnsubscribeEffect ==
  ASSUME NEW id, Unsubscribe(id)
  PROVE  Unsubscribed(id)
BY DEF Unsubscribe, Unsubscribed, B!Unsubscribe, broadcasterVars

LEMMA SubscribeEffect ==
  ASSUME NumbersDiffer, NEW s \in Subs, B!Subscribe(s)
  PROVE  Subscribed(s)
BY IdsDiffer DEF Subscribed, B!Subscribe

LEMMA SubscribedKeeps ==
  ASSUME NumbersDiffer, MapOK, NEW s \in Subs, Subscribed(s)
  PROVE  /\ MapOK'
         /\ \A h \in Subs : h # s /\ NotYet(h) => NotYet(h)'
         /\ \A h \in Subs : h # s /\ subscribers[SubscriberID(h)] = h
                => subscribers'[SubscriberID(h)] = h
         /\ subscribers'[SubscriberID(s)] = s
<1>1. /\ \A h \in Subs : SubscriberID(h) \in Ids
      /\ \A h \in Subs : h # s => SubscriberID(h) # SubscriberID(s)
  BY IdsDiffer
<1>2. MapOK'
  BY <1>1 DEF Subscribed, MapOK
<1>3. QED
  BY <1>1, <1>2 DEF Subscribed, MapOK, NotYet

LEMMA UnsubscribedKeeps ==
  ASSUME NumbersDiffer, MapOK, NEW id \in Ids, Unsubscribed(id)
  PROVE  /\ MapOK'
         /\ \A h \in Subs : NotYet(h) => NotYet(h)'
         /\ \A h \in Subs : /\ SubscriberID(h) # id
                            /\ subscribers[SubscriberID(h)] = h /\ h \notin closed
                => subscribers'[SubscriberID(h)] = h /\ h \notin closed'
<1>1. \A h \in Subs : SubscriberID(h) \in Ids /\ h # NoSub
  BY IdsDiffer
<1>2. CASE subscribers' = subscribers /\ closed' = closed
  BY <1>2 DEF MapOK, NotYet
<1>3. CASE /\ subscribers[id] # NoSub
           /\ subscribers' = [subscribers EXCEPT ![id] = NoSub]
           /\ closed' = closed \cup {subscribers[id]}
  <2>1. MapOK'
    BY <1>3 DEF MapOK
  <2>2. \A h \in Subs : NotYet(h) => NotYet(h)'
    BY <1>1, <1>3 DEF MapOK, NotYet
  <2>3. ASSUME NEW h \in Subs, SubscriberID(h) # id,
               subscribers[SubscriberID(h)] = h, h \notin closed
        PROVE  subscribers'[SubscriberID(h)] = h /\ h \notin closed'
    BY <1>1, <1>3, <2>3 DEF MapOK
  <2>4. QED
    BY <2>1, <2>2, <2>3
<1>4. QED
  BY <1>2, <1>3 DEF Unsubscribed

LEMMA ServedStep ==
  ASSUME NumbersDiffer, ServedInv, [Next]_vars
  PROVE  ServedInv'
<1>h. Handlers \subseteq Subs /\ Registrations \subseteq Subs
  BY DEF Subs
<1>c. ClosingOK'
  BY ClosingStep DEF ServedInv
<1>i. MapOK /\ HandlersOK /\ ClosingOK /\ HandlerOK
  BY DEF ServedInv
<1>s. ASSUME subscribers' = subscribers, closed' = closed,
             HandlerOK',
             \A h \in Handlers : \/ handler'[h] = handler[h]
                                 \/ handler[h] = "new" /\ handler'[h] = "accepted"
                                 \/ handler'[h] \notin {"new", "accepted", "serving"}
      PROVE  ServedInv'
  <2>1. MapOK'
    BY <1>i, <1>s DEF MapOK
  <2>2. HandlersOK'
    BY <1>i, <1>s DEF HandlersOK, NotYet
  <2>3. QED
    BY <1>c, <1>s, <2>1, <2>2 DEF ServedInv
<1>1. ASSUME NEW r \in Registrations, SubscribeRegistration(r)
      PROVE  ServedInv'
  <2>1. Subscribed(r) /\ handler' = handler
    BY <1>1, <1>h, SubscribeEffect DEF SubscribeRegistration, httpVars
  <2>2. \A h \in Handlers : h # r /\ h \in Subs
    BY <1>h, <1>1
  <2>3. MapOK'
    BY <1>h, <1>i, <2>1, SubscribedKeeps
  <2>4. ASSUME NEW h \in Handlers
        PROVE  /\ handler'[h] \in {"new", "accepted"} => NotYet(h)'
               /\ handler'[h] = "serving" => subscribers'[SubscriberID(h)] = h /\ h \notin closed'
    <3>1. h # r /\ h \in Subs /\ r \in Subs /\ handler'[h] = handler[h] /\ closed' = closed
      BY <1>h, <2>1, <2>2 DEF Subscribed
    <3>2. handler[h] \in {"new", "accepted"} => NotYet(h)'
      BY <1>i, <2>1, <3>1, SubscribedKeeps DEF HandlersOK
    <3>3. handler[h] = "serving" => subscribers'[SubscriberID(h)] = h /\ h \notin closed'
      BY <1>i, <2>1, <3>1, SubscribedKeeps DEF HandlersOK
    <3>4. QED
      BY <3>1, <3>2, <3>3
  <2>5. HandlersOK'
    BY <2>4 DEF HandlersOK
  <2>6. HandlerOK'
    BY <1>i, <2>1 DEF HandlerOK
  <2>7. QED
    BY <1>c, <2>3, <2>5, <2>6 DEF ServedInv
<1>2. ASSUME NEW g \in Handlers, SubscribeHandler(g)
      PROVE  ServedInv'
  <2>1. /\ Subscribed(g) /\ handler[g] = "accepted"
        /\ handler' = [handler EXCEPT ![g] = "serving"]
    BY <1>2, <1>h, SubscribeEffect DEF SubscribeHandler
  <2>2. MapOK'
    BY <1>h, <1>i, <2>1, SubscribedKeeps
  <2>3. ASSUME NEW h \in Handlers
        PROVE  /\ handler'[h] \in {"new", "accepted"} => NotYet(h)'
               /\ handler'[h] = "serving" => subscribers'[SubscriberID(h)] = h /\ h \notin closed'
    <3>1. CASE h = g
      <4>1. handler'[h] = "serving" /\ h \notin closed
        BY <1>i, <2>1, <3>1 DEF HandlersOK, NotYet, HandlerOK
      <4>2. subscribers'[SubscriberID(h)] = h /\ closed' = closed
        BY <1>h, <1>i, <2>1, <3>1, SubscribedKeeps DEF Subscribed
      <4>3. QED
        BY <4>1, <4>2
    <3>2. CASE h # g
      <4>1. handler'[h] = handler[h]
        BY <1>i, <2>1, <3>2 DEF HandlerOK
      <4>2. QED
        BY <1>h, <1>i, <2>1, <3>2, <4>1, SubscribedKeeps DEF HandlersOK, Subscribed
    <3>3. QED
      BY <3>1, <3>2
  <2>4. HandlersOK'
    BY <2>3 DEF HandlersOK
  <2>5. HandlerOK'
    BY <1>i, <2>1 DEF HandlerOK
  <2>6. QED
    BY <1>c, <2>2, <2>4, <2>5 DEF ServedInv
<1>3. ASSUME NEW id \in Ids, UnsubscribeNext(id)
      PROVE  ServedInv'
  <2>1. Unsubscribed(id) /\ id \in toClose /\ handler' = handler
    BY <1>3, UnsubscribeEffect DEF UnsubscribeNext, httpVars
  <2>2. \A h \in Handlers : SubscriberID(h) # id /\ h \in Subs
    <3>1. PICK r \in Registrations : id = SubscriberID(r)
      BY <1>i, <2>1 DEF ClosingOK, RegistrationIDs
    <3>2. QED
      BY <1>h, <3>1, IdsDiffer
  <2>3. MapOK'
    BY <1>i, <2>1, UnsubscribedKeeps
  <2>4. HandlersOK'
    BY <1>i, <2>1, <2>2, UnsubscribedKeeps DEF HandlersOK
  <2>5. HandlerOK'
    BY <1>i, <2>1 DEF HandlerOK
  <2>6. QED
    BY <1>c, <2>3, <2>4, <2>5 DEF ServedInv
<1>4. ASSUME NEW g \in Handlers, EndHandler(g)
      PROVE  ServedInv'
  <2>1. /\ Unsubscribed(SubscriberID(g)) /\ handler[g] = "leaving"
        /\ handler' = [handler EXCEPT ![g] = "gone"]
    BY <1>4, UnsubscribeEffect DEF EndHandler
  <2>2. SubscriberID(g) \in Ids
    BY <1>h, IdsDiffer
  <2>3. MapOK'
    BY <1>i, <2>1, <2>2, UnsubscribedKeeps
  <2>4. ASSUME NEW h \in Handlers
        PROVE  /\ handler'[h] \in {"new", "accepted"} => NotYet(h)'
               /\ handler'[h] = "serving" => subscribers'[SubscriberID(h)] = h /\ h \notin closed'
    <3>1. CASE h = g
      BY <1>i, <2>1, <3>1 DEF HandlerOK
    <3>2. CASE h # g
      <4>1. handler'[h] = handler[h] /\ SubscriberID(h) # SubscriberID(g) /\ h \in Subs
        BY <1>h, <1>i, <2>1, <3>2, IdsDiffer DEF HandlerOK
      <4>2. QED
        BY <1>i, <2>1, <2>2, <4>1, UnsubscribedKeeps DEF HandlersOK
    <3>3. QED
      BY <3>1, <3>2
  <2>5. HandlersOK'
    BY <2>4 DEF HandlersOK
  <2>6. HandlerOK'
    BY <1>i, <2>1 DEF HandlerOK
  <2>7. QED
    BY <1>c, <2>3, <2>5, <2>6 DEF ServedInv
<1>5. ASSUME NEW h \in Handlers, Accept(h) \/ LeaveLoop(h)
      PROVE  ServedInv'
  <2>1. /\ subscribers' = subscribers /\ closed' = closed
        /\ \/ handler[h] = "new" /\ handler' = [handler EXCEPT ![h] = "accepted"]
           \/ handler' = [handler EXCEPT ![h] = "leaving"]
    BY <1>5 DEF Accept, LeaveLoop, broadcasterVars
  <2>2. HandlerOK'
    BY <1>i, <2>1 DEF HandlerOK
  <2>3. \A g \in Handlers : \/ handler'[g] = handler[g]
                            \/ handler[g] = "new" /\ handler'[g] = "accepted"
                            \/ handler'[g] \notin {"new", "accepted", "serving"}
    BY <1>i, <2>1 DEF HandlerOK
  <2>4. QED
    BY <1>s, <2>1, <2>2, <2>3
<1>6. ASSUME \/ Publish \/ TakeIDs \/ StartReturns \/ UNCHANGED vars
             \/ \E r \in Registrations : RecordID(r) \/ CallBack(r)
             \/ \E h \in Handlers : SendEvent(h) \/ Disconnect(h)
             \/ \E v \in Servers : \/ ServeMakes(v) \/ ServeListens(v) \/ ServeReturns(v)
                                   \/ ShutdownMakes(v) \/ ShutdownMarks(v)
                                   \/ ShutdownReturns(v)
      PROVE  ServedInv'
  <2>1. subscribers' = subscribers /\ closed' = closed /\ handler' = handler
    BY <1>6 DEF Publish, B!PublishBegin, B!Offer, B!PublishEnd, TakeIDs, StartReturns,
         RecordID, CallBack, B!Receive, B!ReceiveClosed, SendEvent, Disconnect,
         ServeMakes, ServeListens, ServeReturns, ShutdownMakes, ShutdownMarks,
         ShutdownReturns, vars, broadcasterVars, cdcVars, httpVars
  <2>2. HandlerOK'
    BY <1>i, <2>1 DEF HandlerOK
  <2>3. QED
    BY <1>s, <2>1, <2>2
<1>7. QED
  BY <1>1, <1>2, <1>3, <1>4, <1>5, <1>6 DEF Next

\* While no two connections have the same number, whoever registers, connects,
\* leaves or is unsubscribed beside it, a handler that serves reads from a
\* channel that is open and that Publish sends to.  (With two Servers, whose
\* numbers coincide, it may not.)
THEOREM ServedWhoeverLeaves ==
  ASSUME NumbersDiffer
  PROVE  Spec => []ServedWhileConnected
<1>1. Init => ServedInv
  <2> SUFFICES ASSUME Init
               PROVE  ServedInv
    OBVIOUS
  <2>1. subscribers = [id \in Ids |-> NoSub] /\ closed = {}
    BY DEF Init, B!Init
  <2>2. handler = [h \in Handlers |-> "new"] /\ subIDs = {} /\ toClose = {}
    BY DEF Init
  <2>3. MapOK
    BY <2>1 DEF MapOK
  <2>4. HandlersOK
    BY <2>1, <2>2 DEF HandlersOK, NotYet, Subs
  <2>5. HandlerOK /\ ClosingOK
    BY <2>2 DEF HandlerOK, ClosingOK
  <2>6. QED
    BY <2>3, <2>4, <2>5 DEF ServedInv
<1>2. ServedInv /\ [Next]_vars => ServedInv'
  BY ServedStep
<1>3. ServedInv => ServedWhileConnected
  <2> SUFFICES ASSUME ServedInv, NEW h \in Handlers, handler[h] = "serving"
               PROVE  B!Mapped(h) /\ h \notin closed
    BY DEF ServedWhileConnected
  <2>1. IdOf[h] = SubscriberID(h)
    BY IdsDiffer DEF Subs
  <2>2. QED
    BY <2>1 DEF ServedInv, HandlersOK, B!Mapped
<1>4. QED
  BY <1>1, <1>2, <1>3, PTL DEF Spec
-----------------------------------------------------------------------------
(* Types.                                                                  *)
FanoutVars == <<subscribers, toOffer, publishing, published, chan, closed,
                dropped, reader, received, since, replaced>>

LEMMA IdOfType == IdOf \in [Subs -> Ids]
BY DEF IdOf, Ids

\* A step of the broadcaster, by whoever takes it.
FanoutStep ==
    \/ \E s \in Subs : B!Subscribe(s) \/ B!Offer(s) \/ B!Receive(s) \/ B!ReceiveClosed(s)
    \/ \E id \in Ids : B!Unsubscribe(id)
    \/ B!PublishBegin \/ B!PublishEnd

LEMMA FanoutTypeStep ==
  ASSUME B!TypeOK, FanoutStep
  PROVE  B!TypeOK'
<1> USE DEF B!TypeOK
<1>1. ASSUME NEW s \in Subs, B!Subscribe(s)
      PROVE  B!TypeOK'
  <2>1. IdOf[s] \in Ids
    BY IdOfType
  <2>2. QED
    BY <1>1, <2>1 DEF B!Subscribe
<1>2. ASSUME NEW id \in Ids, B!Unsubscribe(id)
      PROVE  B!TypeOK'
  BY <1>2 DEF B!Unsubscribe
<1>3. CASE B!PublishBegin
  <2>1. publishing' \in BOOLEAN
    BY <1>3 DEF B!PublishBegin
  <2>2. toOffer' \in SUBSET Subs /\ published' \in Nat
    BY <1>3 DEF B!PublishBegin
  <2>3. UNCHANGED <<subscribers, chan, closed, dropped, reader, received, since, replaced>>
    BY <1>3 DEF B!PublishBegin
  <2>4. QED
    BY <2>1, <2>2, <2>3
<1>8. CASE B!PublishEnd
  <2>1. publishing' \in BOOLEAN
    BY <1>8 DEF B!PublishEnd
  <2>2. UNCHANGED <<subscribers, toOffer, published, chan, closed, dropped, reader,
                    received, since, replaced>>
    BY <1>8 DEF B!PublishEnd
  <2>3. QED
    BY <2>1, <2>2
<1>4. ASSUME NEW s \in Subs, B!Offer(s)
      PROVE  B!TypeOK'
  <2>1. Append(chan[s], published) \in Seq(Nat) /\ dropped[s] + 1 \in Nat
    OBVIOUS
  <2>2. CASE Len(chan[s]) < BufferSize[s]
    <3>1. chan' = [chan EXCEPT ![s] = Append(chan[s], published)]
      BY <1>4, <2>2 DEF B!Offer
    <3>2. chan' \in [Subs -> Seq(Nat)]
      BY <2>1, <3>1
    <3>3. dropped' = dropped
      BY <1>4, <2>2 DEF B!Offer
    <3>4. QED
      BY <1>4, <3>2, <3>3 DEF B!Offer
  <2>3. CASE ~(Len(chan[s]) < BufferSize[s])
    <3>1. dropped' = [dropped EXCEPT ![s] = dropped[s] + 1] /\ chan' = chan
      BY <1>4, <2>3 DEF B!Offer
    <3>2. dropped' \in [Subs -> Nat]
      BY <2>1, <3>1
    <3>3. QED
      BY <1>4, <3>1, <3>2 DEF B!Offer
  <2>4. QED
    BY <2>2, <2>3
<1>5. ASSUME NEW s \in Subs, B!Receive(s)
      PROVE  B!TypeOK'
  <2>1. chan[s] \in Seq(Nat) /\ chan[s] # <<>> /\ received[s] \in Seq(Nat)
    BY <1>5 DEF B!Receive
  <2>2. Tail(chan[s]) \in Seq(Nat) /\ Append(received[s], Head(chan[s])) \in Seq(Nat)
    BY <2>1
  <2>3. chan' \in [Subs -> Seq(Nat)] /\ received' \in [Subs -> Seq(Nat)]
    BY <1>5, <2>2 DEF B!Receive
  <2>4. QED
    BY <1>5, <2>3 DEF B!Receive
<1>6. ASSUME NEW s \in Subs, B!ReceiveClosed(s)
      PROVE  B!TypeOK'
  BY <1>6 DEF B!ReceiveClosed
<1>7. QED
  BY <1>1, <1>2, <1>3, <1>4, <1>5, <1>6, <1>8 DEF FanoutStep

\* An http.Server that is to be shut down has been made.
TypeInv == TypeOK /\ \A v \in Servers : shutdown[v] = "made" => v \in made

LEMMA TypeStep ==
  ASSUME TypeInv, [Next]_vars
  PROVE  TypeInv'
<1> USE DEF TypeInv, TypeOK, broadcasterVars, cdcVars, httpVars
<1>h. /\ Handlers \subseteq Subs /\ Registrations \subseteq Subs
      /\ \A s \in Subs : SubscriberID(s) \in Ids
  BY DEF Subs, Ids
<1>u. ASSUME UNCHANGED broadcasterVars
      PROVE  B!TypeOK'
  BY <1>u DEF B!TypeOK
<1>v. ASSUME NEW id \in Ids, Unsubscribe(id)
      PROVE  B!TypeOK'
  BY <1>u, <1>v, FanoutTypeStep DEF Unsubscribe, FanoutStep
<1> HIDE DEF broadcasterVars
<1>1. ASSUME NEW r \in Registrations, RecordID(r)
      PROVE  TypeInv'
  BY <1>1, <1>h, <1>u DEF RecordID
<1>2. ASSUME NEW r \in Registrations, SubscribeRegistration(r)
      PROVE  TypeInv'
  <2>1. B!TypeOK'
    BY <1>2, <1>h, FanoutTypeStep DEF SubscribeRegistration, FanoutStep
  <2>2. QED
    BY <1>2, <2>1 DEF SubscribeRegistration
<1>3. ASSUME NEW r \in Registrations, CallBack(r)
      PROVE  TypeInv'
  <2>1. B!TypeOK'
    BY <1>3, <1>h, FanoutTypeStep DEF CallBack, FanoutStep
  <2>2. QED
    BY <1>3, <2>1 DEF CallBack
<1>4. CASE Publish
  <2>1. B!TypeOK'
    BY <1>4, FanoutTypeStep DEF Publish, FanoutStep
  <2>2. QED
    BY <1>4, <2>1 DEF Publish
<1>5. CASE TakeIDs \/ StartReturns
  BY <1>5, <1>u DEF TakeIDs, StartReturns
<1>6. ASSUME NEW id \in Ids, UnsubscribeNext(id)
      PROVE  TypeInv'
  <2>1. B!TypeOK'
    BY <1>6, <1>v DEF UnsubscribeNext
  <2>2. QED
    BY <1>6, <2>1 DEF UnsubscribeNext
<1>7. ASSUME NEW h \in Handlers, Accept(h) \/ Disconnect(h)
      PROVE  TypeInv'
  BY <1>7, <1>u DEF Accept, Disconnect
<1>8. ASSUME NEW h \in Handlers, SubscribeHandler(h)
      PROVE  TypeInv'
  <2>1. B!TypeOK'
    BY <1>8, <1>h, FanoutTypeStep DEF SubscribeHandler, FanoutStep
  <2>2. QED
    BY <1>8, <2>1 DEF SubscribeHandler
<1>9. ASSUME NEW h \in Handlers, SendEvent(h)
      PROVE  TypeInv'
  <2>1. B!TypeOK'
    BY <1>9, <1>h, FanoutTypeStep DEF SendEvent, FanoutStep
  <2>2. QED
    BY <1>9, <2>1 DEF SendEvent
<1>10. ASSUME NEW h \in Handlers, LeaveLoop(h)
       PROVE  TypeInv'
  <2>1. B!TypeOK'
    BY <1>10 DEF LeaveLoop, B!TypeOK
  <2>2. QED
    BY <1>10, <2>1 DEF LeaveLoop
<1>11. ASSUME NEW h \in Handlers, EndHandler(h)
       PROVE  TypeInv'
  <2>1. B!TypeOK'
    BY <1>11, <1>h, <1>v DEF EndHandler
  <2>2. QED
    BY <1>11, <2>1 DEF EndHandler
<1>12. ASSUME NEW v \in Servers, ServeMakes(v) \/ ServeListens(v) \/ ServeReturns(v)
       PROVE  TypeInv'
  BY <1>12, <1>u DEF ServeMakes, ServeListens, ServeReturns
<1>13. ASSUME NEW v \in Servers, ShutdownMakes(v) \/ ShutdownMarks(v) \/ ShutdownReturns(v)
       PROVE  TypeInv'
  BY <1>13, <1>u DEF ShutdownMakes, ShutdownMarks, ShutdownReturns
<1>14. CASE UNCHANGED vars
  BY <1>14, <1>u DEF vars
<1>15. QED
  BY <1>1, <1>2, <1>3, <1>4, <1>5, <1>6, <1>7, <1>8, <1>9, <1>10, <1>11, <1>12, <1>13, <1>14
     DEF Next

LEMMA InitTypes == Init => TypeInv
<1> SUFFICES ASSUME Init PROVE TypeInv
  OBVIOUS
<1>1. B!TypeOK
  <2>1. <<>> \in Seq(Nat)
    OBVIOUS
  <2>2. chan \in [Subs -> Seq(Nat)] /\ received \in [Subs -> Seq(Nat)]
    BY <2>1 DEF Init, B!Init
  <2>3. QED
    BY <2>2, ZenonT(30) DEF Init, B!Init, B!TypeOK
<1>2. QED
  BY <1>1 DEF Init, TypeInv, TypeOK

\* Every variable keeps its type; only an http.Server that was made is shut down.
THEOREM ClientsTypeCorrect == Spec => []TypeOK
<1>1. Init => TypeInv
  BY InitTypes
<1>2. TypeInv /\ [Next]_vars => TypeInv'
  BY TypeStep
<1>3. TypeInv => TypeOK
  BY DEF TypeInv
<1>4. QED
  BY <1>1, <1>2, <1>3, PTL DEF Spec
-----------------------------------------------------------------------------
(* The clients keep the rules of the broadcaster.                          *)

\* The calls of Subscribe and the readers of the channels.
LifeInv ==
    /\ \A r \in Registrations : calls[r] # "returned" <=> reader[r] = "new"
    /\ \A h \in Handlers :
          /\ handler[h] \in {"new", "accepted"} <=> reader[h] = "new"
          /\ handler[h] = "serving" => reader[h] = "reading"

LEMMA LifeStep ==
  ASSUME TypeInv, LifeInv, [Next]_vars
  PROVE  LifeInv'
<1> USE DEF LifeInv, cdcVars, httpVars
<1>t. /\ calls \in [Registrations -> {"new", "recorded", "returned"}]
      /\ handler \in [Handlers -> {"new", "accepted", "serving", "leaving", "gone"}]
      /\ reader \in [Subs -> {"new", "reading", "done"}]
      /\ Handlers \subseteq Subs /\ Registrations \subseteq Subs
      /\ \A r \in Registrations : r \notin Handlers
  BY DEF TypeInv, TypeOK, B!TypeOK, Subs
<1>1. ASSUME NEW r \in Registrations, RecordID(r)
      PROVE  LifeInv'
  BY <1>1, <1>t DEF RecordID, broadcasterVars
<1>2. ASSUME NEW r \in Registrations, SubscribeRegistration(r)
      PROVE  LifeInv'
  BY <1>2, <1>t DEF SubscribeRegistration, B!Subscribe
<1>3. ASSUME NEW r \in Registrations, CallBack(r)
      PROVE  LifeInv'
  BY <1>3, <1>t DEF CallBack, B!Receive, B!ReceiveClosed
<1>4. CASE Publish
  BY <1>4 DEF Publish, B!PublishBegin, B!Offer, B!PublishEnd
<1>5. CASE TakeIDs \/ StartReturns
  BY <1>5 DEF TakeIDs, StartReturns, broadcasterVars
<1>6. ASSUME NEW id \in Ids, UnsubscribeNext(id)
      PROVE  LifeInv'
  BY <1>6 DEF UnsubscribeNext, Unsubscribe, B!Unsubscribe, broadcasterVars
<1>7. ASSUME NEW h \in Handlers, Accept(h) \/ Disconnect(h)
      PROVE  LifeInv'
  BY <1>7, <1>t DEF Accept, Disconnect, broadcasterVars
<1>8. ASSUME NEW h \in Handlers, SubscribeHandler(h)
      PROVE  LifeInv'
  BY <1>8, <1>t DEF SubscribeHandler, B!Subscribe
<1>9. ASSUME NEW h \in Handlers, SendEvent(h)
      PROVE  LifeInv'
  BY <1>9 DEF SendEvent, B!Receive
<1>10. ASSUME NEW h \in Handlers, LeaveLoop(h)
       PROVE  LifeInv'
  BY <1>10, <1>t DEF LeaveLoop
<1>11. ASSUME NEW h \in Handlers, EndHandler(h)
       PROVE  LifeInv'
  BY <1>11, <1>t DEF EndHandler, Unsubscribe, B!Unsubscribe, broadcasterVars
<1>12. ASSUME NEW v \in Servers,
              \/ ServeMakes(v) \/ ServeListens(v) \/ ServeReturns(v)
              \/ ShutdownMakes(v) \/ ShutdownMarks(v) \/ ShutdownReturns(v)
       PROVE  LifeInv'
  BY <1>12 DEF ServeMakes, ServeListens, ServeReturns, ShutdownMakes, ShutdownMarks,
               ShutdownReturns, broadcasterVars
<1>13. CASE UNCHANGED vars
  BY <1>13 DEF vars, broadcasterVars
<1>14. QED
  BY <1>1, <1>2, <1>3, <1>4, <1>5, <1>6, <1>7, <1>8, <1>9, <1>10, <1>11, <1>12, <1>13 DEF Next

LEMMA LifeHolds == Spec => [](TypeInv /\ LifeInv)
<1>1. Init => TypeInv /\ LifeInv
  <2> SUFFICES ASSUME Init PROVE TypeInv /\ LifeInv
    OBVIOUS
  <2>1. TypeInv
    BY InitTypes
  <2>2. LifeInv
    BY DEF Init, B!Init, LifeInv, Subs
  <2>3. QED
    BY <2>1, <2>2
<1>2. TypeInv /\ LifeInv /\ [Next]_vars => (TypeInv /\ LifeInv)'
  BY TypeStep, LifeStep
<1>3. QED
  BY <1>1, <1>2, PTL DEF Spec

\* The assumptions of Broadcaster hold of the clients.
LEMMA FanoutAssumption ==
  /\ IdOf \in [Subs -> Ids]
  /\ BufferSize \in [Subs -> Nat \ {0}]
  /\ NoSub \notin Subs
  /\ MaxChanges \in Nat
BY IdOfType

\* The registrations and the requests are subscribers of one Broadcaster like
\* any others: every step of theirs, of Start, of Serve and of Shutdown is a
\* step of Broadcaster or none of its steps.  A handler that has left its loop
\* is a reader that never reads again.  So all that is proved of Broadcaster,
\* for any subscribers, holds of them, whether or not their ids coincide.
THEOREM ClientsUseBroadcaster == Spec => Fanout!Spec
<1>1. Init => Fanout!Init
  <2> SUFFICES ASSUME Init PROVE Fanout!Init
    OBVIOUS
  <2>1. reader = [s \in Subs |-> "new"]
    BY DEF Init, B!Init
  <2>2. Waiting = [s \in Subs |-> "new"]
    BY <2>1 DEF Waiting
  <2>3. QED
    BY <2>2 DEF Init, B!Init, Fanout!Init
<1>2. ASSUME TypeInv, LifeInv, TypeInv', [Next]_vars
      PROVE  [Fanout!Next]_(Fanout!vars)
  <2>t. /\ reader \in [Subs -> {"new", "reading", "done"}]
        /\ reader' \in [Subs -> {"new", "reading", "done"}]
        /\ Handlers \subseteq Subs /\ Registrations \subseteq Subs
        /\ \A r \in Registrations : r \notin Handlers
        /\ \A s \in Subs : SubscriberID(s) \in Ids
    BY <1>2 DEF TypeInv, TypeOK, B!TypeOK, Subs, Ids
  <2>w. reader' = reader => Waiting' = Waiting
    BY DEF Waiting
  <2>o. \A s \in Subs : s \notin Handlers \/ reader[s] # "done" => Waiting[s] = reader[s]
    BY DEF Waiting
  <2>s. ASSUME NEW s \in Subs, B!Subscribe(s)
        PROVE  Fanout!Subscribe(s)
    <3>1. reader[s] = "new" /\ reader' = [reader EXCEPT ![s] = "reading"]
      BY <2>s DEF B!Subscribe
    <3>2. Waiting[s] = "new" /\ Waiting' = [Waiting EXCEPT ![s] = "reading"]
      BY <2>t, <3>1 DEF Waiting
    <3>3. QED
      BY <2>s, <3>2 DEF B!Subscribe, Fanout!Subscribe
  <2>r. ASSUME NEW s \in Subs, B!Receive(s)
        PROVE  Fanout!Receive(s)
    <3>1. Waiting[s] = "reading" /\ Waiting' = Waiting
      BY <2>r, <2>w, <2>o DEF B!Receive
    <3>2. QED
      BY <2>r, <3>1 DEF B!Receive, Fanout!Receive
  <2>u. ASSUME NEW id \in Ids, Unsubscribe(id)
        PROVE  Fanout!Unsubscribe(id) \/ UNCHANGED Fanout!vars
    <3>1. CASE B!Unsubscribe(id)
      BY <2>w, <3>1 DEF B!Unsubscribe, Fanout!Unsubscribe
    <3>2. CASE UNCHANGED broadcasterVars
      BY <2>w, <3>2 DEF broadcasterVars, Fanout!vars
    <3>3. QED
      BY <2>u, <3>1, <3>2 DEF Unsubscribe
  <2>1. ASSUME NEW r \in Registrations, SubscribeRegistration(r)
        PROVE  Fanout!Next
    BY <2>1, <2>t, <2>s DEF SubscribeRegistration, Fanout!Next
  <2>2. ASSUME NEW r \in Registrations, CallBack(r)
        PROVE  Fanout!Next
    <3>1. CASE B!Receive(r)
      BY <2>t, <2>r, <3>1 DEF Fanout!Next
    <3>2. CASE B!ReceiveClosed(r)
      <4>1. reader[r] = "reading" /\ reader' = [reader EXCEPT ![r] = "done"]
        BY <3>2 DEF B!ReceiveClosed
      <4>2. Waiting[r] = "reading" /\ Waiting' = [Waiting EXCEPT ![r] = "done"]
        BY <2>t, <4>1 DEF Waiting
      <4>3. Fanout!ReceiveClosed(r)
        BY <3>2, <4>2 DEF B!ReceiveClosed, Fanout!ReceiveClosed
      <4>4. QED
        BY <2>t, <4>3 DEF Fanout!Next
    <3>3. QED
      BY <2>2, <3>1, <3>2 DEF CallBack
  <2>3. CASE Publish
    <3>1. Waiting' = Waiting
      BY <2>3, <2>w DEF Publish, B!PublishBegin, B!Offer, B!PublishEnd
    <3>2. CASE B!PublishBegin
      <4>1. Fanout!PublishBegin
        BY <3>1, <3>2 DEF B!PublishBegin, Fanout!PublishBegin, B!Mapped, Fanout!Mapped
      <4>2. QED
        BY <4>1 DEF Fanout!Next
    <3>3. ASSUME NEW s \in Subs, B!Offer(s)
          PROVE  Fanout!Next
      <4>1. Fanout!Offer(s)
        BY <3>1, <3>3 DEF B!Offer, Fanout!Offer
      <4>2. QED
        BY <4>1 DEF Fanout!Next
    <3>4. CASE B!PublishEnd
      <4>1. Fanout!PublishEnd
        BY <3>1, <3>4 DEF B!PublishEnd, Fanout!PublishEnd
      <4>2. QED
        BY <4>1 DEF Fanout!Next
    <3>5. QED
      BY <2>3, <3>2, <3>3, <3>4 DEF Publish
  <2>4. ASSUME NEW id \in Ids, UnsubscribeNext(id)
        PROVE  Fanout!Next \/ UNCHANGED Fanout!vars
    BY <2>4, <2>u DEF UnsubscribeNext, Fanout!Next
  <2>5. ASSUME NEW h \in Handlers, SubscribeHandler(h)
        PROVE  Fanout!Next
    BY <2>5, <2>t, <2>s DEF SubscribeHandler, Fanout!Next
  <2>6. ASSUME NEW h \in Handlers, SendEvent(h)
        PROVE  Fanout!Next
    BY <2>6, <2>t, <2>r DEF SendEvent, Fanout!Next
  <2>7. ASSUME NEW h \in Handlers, LeaveLoop(h)
        PROVE  UNCHANGED Fanout!vars
    <3>1. reader[h] = "reading" /\ reader' = [reader EXCEPT ![h] = "done"]
      BY <1>2, <2>7 DEF LifeInv, LeaveLoop
    <3>2. Waiting' = Waiting
      BY <2>t, <3>1 DEF Waiting
    <3>3. QED
      BY <2>7, <3>2 DEF LeaveLoop, Fanout!vars
  <2>8. ASSUME NEW h \in Handlers, EndHandler(h)
        PROVE  Fanout!Next \/ UNCHANGED Fanout!vars
    BY <2>8, <2>t, <2>u DEF EndHandler, Fanout!Next
  <2>9. ASSUME UNCHANGED broadcasterVars
        PROVE  UNCHANGED Fanout!vars
    BY <2>9, <2>w DEF broadcasterVars, Fanout!vars
  <2>10. CASE \/ \E r \in Registrations : RecordID(r)
              \/ TakeIDs \/ StartReturns \/ UNCHANGED vars
              \/ \E h \in Handlers : Accept(h) \/ Disconnect(h)
              \/ \E v \in Servers : \/ ServeMakes(v) \/ ServeListens(v) \/ ServeReturns(v)
                                    \/ ShutdownMakes(v) \/ ShutdownMarks(v)
                                    \/ ShutdownReturns(v)
    <3>1. UNCHANGED broadcasterVars
      BY <2>10 DEF RecordID, TakeIDs, StartReturns, vars, Accept, Disconnect, ServeMakes,
           ServeListens, ServeReturns, ShutdownMakes, ShutdownMarks, ShutdownReturns
    <3>2. QED
      BY <2>9, <3>1
  <2>11. QED
    BY <1>2, <2>1, <2>2, <2>3, <2>4, <2>5, <2>6, <2>7, <2>8, <2>10 DEF Next
<1>3. QED
  BY <1>1, <1>2, LifeHolds, PTL DEF Spec, Fanout!Spec
-----------------------------------------------------------------------------
(* Who has gone is not in the map, and what Start must end it has ended.   *)

\* When Start has returned, every registration that subscribed while it was
\* running has been unsubscribed: its channel is closed.  (unsubscribeAll takes
\* the ids that were recorded before they subscribed.)
RegistrationsClosed ==
    \A r \in Registrations :
        start = "returned" /\ calls[r] = "returned" /\ r \notin late => r \in closed

\* A handler that has ended is not in the map, even if it was connected beside
\* others with its id.
GoneNotMapped == \A h \in Handlers : handler[h] = "gone" => ~B!Mapped(h)

InMap(r) == subscribers[SubscriberID(r)] = r

\* A registration that is not late is in the map, with its id in the hands of
\* unsubscribeAll, until it is closed.
RegistrationOK(r) ==
    /\ calls[r] = "recorded" /\ start = "running" => SubscriberID(r) \in subIDs
    /\ calls[r] = "returned" /\ r \notin late =>
          IF start = "running" THEN InMap(r) /\ SubscriberID(r) \in subIDs
          ELSE r \in closed \/ (InMap(r) /\ SubscriberID(r) \in toClose)

EndInv ==
    /\ MapOK
    /\ start # "closing" => toClose = {}
    /\ \A r \in Registrations : RegistrationOK(r)
    /\ \A h \in Handlers : handler[h] = "gone" => ~InMap(h)

LEMMA RegistrationIdsDiffer ==
  /\ \A r \in Registrations, s \in Subs : SubscriberID(r) = SubscriberID(s) => r = s
  /\ \A s \in Subs : SubscriberID(s) \in Ids /\ IdOf[s] = SubscriberID(s) /\ s # NoSub
<1>1. \A r, s \in Registrations : SubscriberID(r) = SubscriberID(s) => r = s
  BY DEF SubscriberID
<1>2. \A r \in Registrations, h \in Handlers : SubscriberID(r) # SubscriberID(h)
  BY DEF SubscriberID
<1>3. \A s \in Subs : SubscriberID(s) \in Ids /\ IdOf[s] = SubscriberID(s)
  BY DEF Ids, IdOf
<1>4. QED
  BY <1>1, <1>2, <1>3 DEF Subs

LEMMA EndMapSubscribe ==
  ASSUME MapOK, NEW s \in Subs, B!Subscribe(s)
  PROVE  /\ MapOK' /\ closed' = closed
         /\ \A r \in Registrations : r # s /\ InMap(r) => InMap(r)'
         /\ InMap(s)'
         /\ \A h \in Subs : h # s /\ ~InMap(h) => ~InMap(h)'
<1>1. subscribers' = [subscribers EXCEPT ![SubscriberID(s)] = s] /\ closed' = closed
  BY RegistrationIdsDiffer DEF B!Subscribe
<1>2. MapOK'
  BY <1>1, RegistrationIdsDiffer DEF MapOK
<1>3. \A r \in Registrations : r # s /\ InMap(r) => InMap(r)'
  <2>1. \A r \in Registrations : r # s => SubscriberID(r) # SubscriberID(s) /\ SubscriberID(r) \in Ids
    BY RegistrationIdsDiffer DEF Subs
  <2>2. QED
    BY <1>1, <2>1 DEF MapOK, InMap
<1>4. InMap(s)'
  BY <1>1, RegistrationIdsDiffer DEF MapOK, InMap
<1>5. \A h \in Subs : h # s /\ ~InMap(h) => ~InMap(h)'
  BY <1>1, RegistrationIdsDiffer DEF MapOK, InMap
<1>6. QED
  BY <1>1, <1>2, <1>3, <1>4, <1>5

LEMMA EndMapUnsubscribe ==
  ASSUME MapOK, NEW id \in Ids, Unsubscribe(id)
  PROVE  /\ MapOK' /\ closed \subseteq closed'
         /\ \A r \in Subs : InMap(r) => InMap(r)' \/ (SubscriberID(r) = id /\ r \in closed')
         /\ \A h \in Subs : ~InMap(h) => ~InMap(h)'
         /\ \A h \in Subs : SubscriberID(h) = id => ~InMap(h)'
<1>1. \A h \in Subs : SubscriberID(h) \in Ids /\ h # NoSub
  BY RegistrationIdsDiffer
<1>2. CASE subscribers[id] = NoSub /\ subscribers' = subscribers /\ closed' = closed
  BY <1>1, <1>2 DEF MapOK, InMap
<1>3. CASE /\ subscribers[id] # NoSub
           /\ subscribers' = [subscribers EXCEPT ![id] = NoSub]
           /\ closed' = closed \cup {subscribers[id]}
  <2>1. MapOK'
    BY <1>3 DEF MapOK
  <2>2. \A h \in Subs : InMap(h)' <=> InMap(h) /\ SubscriberID(h) # id
    BY <1>1, <1>3 DEF MapOK, InMap
  <2>3. \A r \in Subs : InMap(r) /\ SubscriberID(r) = id => r \in closed'
    BY <1>3 DEF InMap
  <2>4. QED
    BY <1>3, <2>1, <2>2, <2>3
<1>4. QED
  BY <1>2, <1>3, UnsubscribeEffect DEF Unsubscribed

LEMMA EndStep ==
  ASSUME TypeInv, EndInv, [Next]_vars
  PROVE  EndInv'
<1> USE DEF EndInv, cdcVars, httpVars
<1>t. /\ calls \in [Registrations -> {"new", "recorded", "returned"}]
      /\ handler \in [Handlers -> {"new", "accepted", "serving", "leaving", "gone"}]
      /\ start \in {"running", "closing", "returned"}
      /\ Handlers \subseteq Subs /\ Registrations \subseteq Subs
      /\ \A r \in Registrations : r \notin Handlers
  BY DEF TypeInv, TypeOK, Subs
<1>s. ASSUME subscribers' = subscribers, closed' = closed
      PROVE  MapOK' /\ \A s : InMap(s)' = InMap(s)
  BY <1>s DEF MapOK, InMap
<1>1. ASSUME NEW r \in Registrations, RecordID(r)
      PROVE  EndInv'
  BY <1>1, <1>t, <1>s DEF RecordID, broadcasterVars, RegistrationOK
<1>2. ASSUME NEW r \in Registrations, SubscribeRegistration(r)
      PROVE  EndInv'
  <2>1. /\ B!Subscribe(r) /\ calls[r] = "recorded"
        /\ calls' = [calls EXCEPT ![r] = "returned"]
        /\ late' = IF start = "running" THEN late ELSE late \cup {r}
        /\ start' = start /\ subIDs' = subIDs /\ toClose' = toClose /\ handler' = handler
    BY <1>2 DEF SubscribeRegistration
  <2>2. /\ MapOK' /\ closed' = closed /\ InMap(r)'
        /\ \A q \in Registrations : q # r /\ InMap(q) => InMap(q)'
        /\ \A h \in Handlers : ~InMap(h) => ~InMap(h)'
    BY <1>t, <2>1, EndMapSubscribe
  <2>3. ASSUME NEW q \in Registrations
        PROVE  RegistrationOK(q)'
    <3>1. RegistrationOK(q)
      OBVIOUS
    <3>2. CASE q = r
      BY <1>t, <2>1, <2>2, <3>1, <3>2 DEF RegistrationOK
    <3>3. CASE q # r
      BY <1>t, <2>1, <2>2, <3>1, <3>3 DEF RegistrationOK
    <3>4. QED
      BY <3>2, <3>3
  <2>4. QED
    BY <2>1, <2>2, <2>3
<1>3. ASSUME NEW h \in Handlers, SubscribeHandler(h)
      PROVE  EndInv'
  <2>1. /\ B!Subscribe(h) /\ handler[h] = "accepted"
        /\ handler' = [handler EXCEPT ![h] = "serving"]
        /\ UNCHANGED cdcVars
    BY <1>3 DEF SubscribeHandler
  <2>2. /\ MapOK' /\ closed' = closed
        /\ \A q \in Registrations : InMap(q) => InMap(q)'
        /\ \A g \in Handlers : g # h /\ ~InMap(g) => ~InMap(g)'
    BY <1>t, <2>1, EndMapSubscribe
  <2>3. \A q \in Registrations : RegistrationOK(q)'
    BY <2>1, <2>2 DEF RegistrationOK
  <2>4. \A g \in Handlers : handler'[g] = "gone" => ~InMap(g)'
    BY <1>t, <2>1, <2>2
  <2>5. QED
    BY <2>1, <2>2, <2>3, <2>4
<1>4. ASSUME NEW id \in Ids, UnsubscribeNext(id)
      PROVE  EndInv'
  <2>1. /\ Unsubscribe(id) /\ id \in toClose /\ toClose' = toClose \ {id}
        /\ start' = start /\ subIDs' = subIDs /\ calls' = calls /\ late' = late
        /\ handler' = handler
    BY <1>4 DEF UnsubscribeNext
  <2>2. /\ MapOK' /\ closed \subseteq closed'
        /\ \A r \in Registrations :
              InMap(r) => InMap(r)' \/ (SubscriberID(r) = id /\ r \in closed')
        /\ \A h \in Handlers : ~InMap(h) => ~InMap(h)'
        /\ \A h \in Subs : SubscriberID(h) = id => ~InMap(h)'
    BY <1>t, <2>1, EndMapUnsubscribe
  <2>3. start = "closing"
    BY <2>1
  <2>4. ASSUME NEW r \in Registrations
        PROVE  RegistrationOK(r)'
    <3>1. RegistrationOK(r)
      OBVIOUS
    <3>2. QED
      BY <1>t, <2>1, <2>2, <2>3, <3>1 DEF RegistrationOK
  <2>5. QED
    BY <2>1, <2>2, <2>3, <2>4
<1>5. ASSUME NEW h \in Handlers, EndHandler(h)
      PROVE  EndInv'
  <2>1. /\ Unsubscribe(SubscriberID(h)) /\ handler' = [handler EXCEPT ![h] = "gone"]
        /\ UNCHANGED cdcVars /\ SubscriberID(h) \in Ids
    BY <1>5, <1>t, RegistrationIdsDiffer DEF EndHandler
  <2>2. /\ MapOK' /\ closed \subseteq closed'
        /\ \A r \in Registrations :
              InMap(r) => InMap(r)' \/ (SubscriberID(r) = SubscriberID(h) /\ r \in closed')
        /\ \A g \in Handlers : ~InMap(g) => ~InMap(g)'
        /\ ~InMap(h)'
    BY <1>t, <2>1, EndMapUnsubscribe
  <2>3. ASSUME NEW r \in Registrations
        PROVE  RegistrationOK(r)'
    <3>1. SubscriberID(r) # SubscriberID(h) /\ RegistrationOK(r)
      BY <1>t, RegistrationIdsDiffer
    <3>2. QED
      BY <2>1, <2>2, <3>1 DEF RegistrationOK
  <2>4. \A g \in Handlers : handler'[g] = "gone" => ~InMap(g)'
    BY <1>t, <2>1, <2>2
  <2>5. QED
    BY <2>1, <2>2, <2>3, <2>4
<1>6. CASE TakeIDs
  BY <1>6, <1>s, <1>t DEF TakeIDs, broadcasterVars, RegistrationOK
<1>7. CASE StartReturns
  BY <1>7, <1>s, <1>t DEF StartReturns, broadcasterVars, RegistrationOK
<1>8. ASSUME NEW h \in Handlers, Accept(h) \/ LeaveLoop(h)
      PROVE  EndInv'
  <2>1. /\ subscribers' = subscribers /\ closed' = closed /\ UNCHANGED cdcVars
        /\ handler' = [handler EXCEPT ![h] = "accepted"] \/ handler' = [handler EXCEPT ![h] = "leaving"]
    BY <1>8 DEF Accept, LeaveLoop, broadcasterVars
  <2>2. QED
    BY <1>s, <1>t, <2>1 DEF RegistrationOK
<1>9. CASE \/ Publish \/ UNCHANGED vars
           \/ \E r \in Registrations : CallBack(r)
           \/ \E h \in Handlers : SendEvent(h) \/ Disconnect(h)
           \/ \E v \in Servers : \/ ServeMakes(v) \/ ServeListens(v) \/ ServeReturns(v)
                                 \/ ShutdownMakes(v) \/ ShutdownMarks(v)
                                 \/ ShutdownReturns(v)
  <2>1. subscribers' = subscribers /\ closed' = closed /\ UNCHANGED cdcVars /\ handler' = handler
    BY <1>9 DEF Publish, B!PublishBegin, B!Offer, B!PublishEnd, CallBack, B!Receive,
         B!ReceiveClosed, SendEvent, Disconnect, ServeMakes, ServeListens, ServeReturns,
         ShutdownMakes, ShutdownMarks, ShutdownReturns, vars, broadcasterVars
  <2>2. QED
    BY <1>s, <2>1 DEF RegistrationOK
<1>10. QED
  BY <1>1, <1>2, <1>3, <1>4, <1>5, <1>6, <1>7, <1>8, <1>9 DEF Next

\* Start does not return and leave a callback waiting for ever, except one that
\* had not subscribed when it took the ids; and no handler leaves itself in the
\* map.  Whoever else subscribes or leaves in between makes no difference, and
\* neither do equal numbers of connections at different Servers.
THEOREM NobodyLeftBehind == Spec => [](RegistrationsClosed /\ GoneNotMapped)
<1>1. Init => EndInv
  BY RegistrationIdsDiffer DEF Init, B!Init, EndInv, MapOK, RegistrationOK
<1>2. TypeInv /\ EndInv /\ [Next]_vars => EndInv'
  BY EndStep
<1>3. EndInv => RegistrationsClosed /\ GoneNotMapped
  BY RegistrationIdsDiffer
     DEF EndInv, RegistrationOK, RegistrationsClosed, GoneNotMapped, InMap, B!Mapped, Subs
<1>4. QED
  BY <1>1, <1>2, <1>3, LifeHolds, PTL DEF Spec
=============================================================================
