------------------------------- MODULE Clients -------------------------------
(***************************************************************************)
(* Who subscribes to the broadcaster of a CDC client, and when they go:    *)
(* the registrations of OnChange (src/cdc.go), which end when Start        *)
(* returns, and the SSE handlers of one or more Servers (src/sse.go),      *)
(* which end when their client goes away.  All of them share one           *)
(* Broadcaster, whose methods are the actions of that module.              *)
(*                                                                         *)
(* The n-th registration has the id "onchange-n"; the n-th connection of a *)
(* Server has the id "sse-n", so that every Server begins with "sse-1".    *)
(* net/http's Server is modelled by what this code relies on.              *)
(***************************************************************************)
EXTENDS Integers, Sequences

CONSTANTS
    Registrations,  \* the calls of OnChange
    Handlers,       \* the requests for /events
    Servers,
    ServerOf,       \* the Server that gets a request
    Number,         \* the number a registration or a request is given
    RemoteAddr,     \* the address a request comes from
    BufferSize, NoSub, MaxChanges

Subs == Registrations \cup Handlers

\* Mutant: connections are told apart by their remote address.
SubscriberIDOfAddr(s) ==
    IF s \in Handlers THEN <<"sse", RemoteAddr[s]>> ELSE <<"onchange", Number[s]>>

SubscriberID(s) == <<IF s \in Handlers THEN "sse" ELSE "onchange", Number[s]>>

Ids == {SubscriberID(s) : s \in Subs}
IdOf == [s \in Subs |-> SubscriberID(s)]

ASSUME ClientsAssumption ==
    /\ Registrations \cap Handlers = {}
    /\ NoSub \notin Subs
    /\ ServerOf \in [Handlers -> Servers]
    /\ \A r, s \in Registrations : Number[r] = Number[s] => r = s
    /\ \A g, h \in Handlers :
          ServerOf[g] = ServerOf[h] /\ Number[g] = Number[h] => g = h
    /\ BufferSize \in [Subs -> Nat \ {0}]
    /\ MaxChanges \in Nat

VARIABLES
    subscribers, toOffer, publishing, published, chan, closed, dropped, reader,
    received, since, replaced,  \* of the Broadcaster
    start,    \* Start: "running", in unsubscribeAll ("closing"), "returned"
    subIDs,   \* the ids recorded for unsubscribeAll
    toClose,  \* the ids unsubscribeAll has taken and not yet unsubscribed
    calls,    \* each call of OnChange: "new", "recorded", "returned"
    late,     \* history: the registrations that subscribed after subIDs was taken
    handler,  \* each request: "new", "accepted", "serving", "leaving", "gone"
    client,   \* the clients that are still there
    made,     \* the Servers that have made their http.Server
    down,     \* the http.Servers that are marked as shut down
    serve,    \* each call of Serve: "new", "made", "serving", "returned"
    shutdown  \* each call of Shutdown: "new", "made", "waiting", "returned"

B == INSTANCE Broadcaster

broadcasterVars == <<subscribers, toOffer, publishing, published, chan, closed,
                     dropped, reader, received, since, replaced>>
cdcVars == <<start, subIDs, toClose, calls, late>>
httpVars == <<handler, client, made, down, serve, shutdown>>
vars == <<broadcasterVars, cdcVars, httpVars>>

TypeOK ==
    /\ B!TypeOK
    /\ start \in {"running", "closing", "returned"}
    /\ subIDs \in SUBSET Ids /\ toClose \in SUBSET Ids
    /\ calls \in [Registrations -> {"new", "recorded", "returned"}]
    /\ late \in SUBSET Registrations
    /\ handler \in [Handlers -> {"new", "accepted", "serving", "leaving", "gone"}]
    /\ client \in SUBSET Handlers
    /\ made \in SUBSET Servers
    /\ down \in SUBSET made
    /\ serve \in [Servers -> {"new", "made", "serving", "returned"}]
    /\ shutdown \in [Servers -> {"new", "made", "waiting", "returned"}]

Init ==
    /\ B!Init
    /\ start = "running" /\ subIDs = {} /\ toClose = {}
    /\ calls = [r \in Registrations |-> "new"]
    /\ late = {}
    /\ handler = [h \in Handlers |-> "new"]
    /\ client = Handlers
    /\ made = {} /\ down = {}
    /\ serve = [v \in Servers |-> "new"]
    /\ shutdown = [v \in Servers |-> "new"]

\* Broadcaster.Unsubscribe, of any id.
Unsubscribe(id) ==
    /\ ~publishing
    /\ \/ B!Unsubscribe(id)
       \/ subscribers[id] = NoSub /\ UNCHANGED broadcasterVars

-----------------------------------------------------------------------------
(* OnChange and Start.                                                     *)

\* OnChange records its id under the mutex of the CDC ...
RecordID(r) ==
    /\ calls[r] = "new"
    /\ subIDs' = subIDs \cup {SubscriberID(r)}
    /\ calls' = [calls EXCEPT ![r] = "recorded"]
    /\ UNCHANGED <<broadcasterVars, start, toClose, late, httpVars>>

\* ... and subscribes without it.
SubscribeRegistration(r) ==
    /\ calls[r] = "recorded"
    /\ B!Subscribe(r)
    /\ calls' = [calls EXCEPT ![r] = "returned"]
    /\ late' = IF start = "running" THEN late ELSE late \cup {r}
    /\ UNCHANGED <<start, subIDs, toClose, httpVars>>

\* The callback is called with the next change, or the channel has ended.
CallBack(r) ==
    /\ B!Receive(r) \/ B!ReceiveClosed(r)
    /\ UNCHANGED <<cdcVars, httpVars>>

\* The stream publishes, as long as Start runs it.
Publish ==
    /\ \/ start = "running" /\ B!PublishBegin
       \/ \E s \in Subs : B!Offer(s)
       \/ B!PublishEnd
    /\ UNCHANGED <<cdcVars, httpVars>>

\* Mutant: the set is emptied before the ids are copied.
TakeIDsCleared ==
    /\ start = "running" /\ ~publishing
    /\ start' = "closing"
    /\ toClose' = {}
    /\ subIDs' = {}
    /\ UNCHANGED <<broadcasterVars, calls, late, httpVars>>

\* unsubscribeAll takes the ids under the mutex of the CDC ...
TakeIDs ==
    /\ start = "running" /\ ~publishing
    /\ start' = "closing"
    /\ toClose' = subIDs
    /\ subIDs' = {}
    /\ UNCHANGED <<broadcasterVars, calls, late, httpVars>>

\* ... and unsubscribes them one after the other.
UnsubscribeNext(id) ==
    /\ id \in toClose
    /\ toClose' = toClose \ {id}
    /\ Unsubscribe(id)
    /\ UNCHANGED <<start, subIDs, calls, late, httpVars>>

StartReturns ==
    /\ start = "closing" /\ toClose = {}
    /\ start' = "returned"
    /\ UNCHANGED <<broadcasterVars, subIDs, toClose, calls, late, httpVars>>

-----------------------------------------------------------------------------
(* A request for /events (NewSSEHandler).                                  *)

Accept(h) ==
    /\ handler[h] = "new"
    /\ serve[ServerOf[h]] = "serving" /\ ServerOf[h] \notin down
    /\ handler' = [handler EXCEPT ![h] = "accepted"]
    /\ UNCHANGED <<broadcasterVars, cdcVars, client, made, down, serve, shutdown>>

SubscribeHandler(h) ==
    /\ handler[h] = "accepted"
    /\ B!Subscribe(h)
    /\ handler' = [handler EXCEPT ![h] = "serving"]
    /\ UNCHANGED <<cdcVars, client, made, down, serve, shutdown>>

\* One event.  (On a closed channel the loop would go on with nil changes.)
SendEvent(h) ==
    /\ handler[h] = "serving"
    /\ B!Receive(h)
    /\ UNCHANGED <<cdcVars, httpVars>>

Disconnect(h) ==
    /\ h \in client /\ handler[h] # "new"
    /\ client' = client \ {h}
    /\ UNCHANGED <<broadcasterVars, cdcVars, handler, made, down, serve, shutdown>>

\* A write fails, or the context of the request is done.
LeaveLoop(h) ==
    /\ handler[h] = "serving" /\ h \notin client
    /\ handler' = [handler EXCEPT ![h] = "leaving"]
    /\ reader' = [reader EXCEPT ![h] = "done"]
    /\ UNCHANGED <<subscribers, toOffer, publishing, published, chan, closed,
                   dropped, received, since, replaced>>
    /\ UNCHANGED <<cdcVars, client, made, down, serve, shutdown>>

\* Mutant: the deferred Unsubscribe is missing.
EndHandlerSubscribed(h) ==
    /\ handler[h] = "leaving"
    /\ handler' = [handler EXCEPT ![h] = "gone"]
    /\ UNCHANGED <<broadcasterVars, cdcVars, client, made, down, serve, shutdown>>

\* The deferred Unsubscribe goes by the id.
EndHandler(h) ==
    /\ handler[h] = "leaving"
    /\ handler' = [handler EXCEPT ![h] = "gone"]
    /\ Unsubscribe(SubscriberID(h))
    /\ UNCHANGED <<cdcVars, client, made, down, serve, shutdown>>

-----------------------------------------------------------------------------
(* Serve and Shutdown, called once each, in any order.                     *)

\* httpServer: made by whichever call comes first.
ServeMakes(v) ==
    /\ serve[v] = "new"
    /\ serve' = [serve EXCEPT ![v] = "made"]
    /\ made' = made \cup {v}
    /\ UNCHANGED <<broadcasterVars, cdcVars, handler, client, down, shutdown>>

\* http.Server.Serve refuses its listener if it is marked as shut down.
ServeListens(v) ==
    /\ serve[v] = "made"
    /\ serve' = [serve EXCEPT ![v] = IF v \in down THEN "returned" ELSE "serving"]
    /\ UNCHANGED <<broadcasterVars, cdcVars, handler, client, made, down, shutdown>>

ServeReturns(v) ==
    /\ serve[v] = "serving" /\ v \in down
    /\ serve' = [serve EXCEPT ![v] = "returned"]
    /\ UNCHANGED <<broadcasterVars, cdcVars, handler, client, made, down, shutdown>>

\* Mutant: without an http.Server there is nothing to shut down.
ShutdownOnlyMade(v) ==
    /\ shutdown[v] = "new"
    /\ shutdown' = [shutdown EXCEPT ![v] = IF v \in made THEN "made" ELSE "returned"]
    /\ UNCHANGED <<broadcasterVars, cdcVars, handler, client, made, down, serve>>

\* Mutant: Shutdown does not keep the http.Server it makes.
ShutdownForgets(v) ==
    /\ shutdown[v] = "new"
    /\ shutdown' = [shutdown EXCEPT ![v] = "made"]
    /\ UNCHANGED <<broadcasterVars, cdcVars, handler, client, made, down, serve>>

ShutdownMakes(v) ==
    /\ shutdown[v] = "new"
    /\ shutdown' = [shutdown EXCEPT ![v] = "made"]
    /\ made' = made \cup {v}
    /\ UNCHANGED <<broadcasterVars, cdcVars, handler, client, down, serve>>

\* http.Server.Shutdown marks the server and closes its listeners ...
ShutdownMarks(v) ==
    /\ shutdown[v] = "made"
    /\ shutdown' = [shutdown EXCEPT ![v] = "waiting"]
    /\ down' = down \cup {v}
    /\ UNCHANGED <<broadcasterVars, cdcVars, handler, client, made, serve>>

\* ... and waits for the requests, or for the end of its own context.
ShutdownReturns(v) ==
    /\ shutdown[v] = "waiting"
    /\ shutdown' = [shutdown EXCEPT ![v] = "returned"]
    /\ UNCHANGED <<broadcasterVars, cdcVars, handler, client, made, down, serve>>

-----------------------------------------------------------------------------
Next ==
    \/ \E r \in Registrations : RecordID(r) \/ SubscribeRegistration(r) \/ CallBack(r)
    \/ Publish
    \/ TakeIDs \/ StartReturns
    \/ \E id \in Ids : UnsubscribeNext(id)
    \/ \E h \in Handlers :
          \/ Accept(h) \/ SubscribeHandler(h) \/ SendEvent(h)
          \/ Disconnect(h) \/ LeaveLoop(h) \/ EndHandler(h)
    \/ \E v \in Servers :
          \/ ServeMakes(v) \/ ServeListens(v) \/ ServeReturns(v)
          \/ ShutdownMakes(v) \/ ShutdownMarks(v) \/ ShutdownReturns(v)

Spec == Init /\ [][Next]_vars

(* Calls that were made go on, and the callback returns.  The heartbeat    *)
(* of a handler finds out a client that is gone.  Weak fairness is enough  *)
(* for those who wait for the mutex, since it is Publish that holds it.    *)
Fairness ==
    /\ WF_vars(Publish /\ publishing)
    /\ WF_vars(StartReturns \/ \E id \in Ids : UnsubscribeNext(id))
    /\ \A r \in Registrations : WF_vars(SubscribeRegistration(r) \/ CallBack(r))
    /\ \A h \in Handlers : WF_vars(SubscribeHandler(h) \/ LeaveLoop(h) \/ EndHandler(h))
    /\ \A v \in Servers :
          /\ WF_vars(ServeListens(v) \/ ServeReturns(v))
          /\ WF_vars(ShutdownMarks(v) \/ ShutdownReturns(v))

FairSpec == Spec /\ Fairness

-----------------------------------------------------------------------------
(* The clients as readers of the broadcaster: one that has left its loop,  *)
(* with its channel still open, is for the broadcaster one that waits and  *)
(* never reads again.                                                      *)
Waiting ==
    [s \in Subs |-> IF s \in Handlers /\ reader[s] = "done" THEN "reading" ELSE reader[s]]

Fanout == INSTANCE Broadcaster WITH reader <- Waiting

-----------------------------------------------------------------------------
(* What clients may rely on.                                               *)

\* A comment of NewSSEHandler: "two clients behind the same remote address
\* cannot collide and close each other's channel".  The channel a handler
\* reads from is open and in the map, whoever comes and goes beside it, and
\* whatever unsubscribeAll does.
ServedWhileConnected ==
    \A h \in Handlers : handler[h] = "serving" => B!Mapped(h) /\ h \notin closed

\* A client that goes away leaves no subscription behind, even if it goes
\* before its handler has subscribed or while Publish holds the mutex.
NoGhosts ==
    \A h \in Handlers :
        (handler[h] # "new" /\ h \notin client) ~> (handler[h] = "gone" /\ ~B!Mapped(h))

\* The goroutine of a registration that subscribed while Start was running ends
\* once Start returns, having called back with all that was in its buffer.
\* (One that has recorded its id and not yet subscribed may never end.)
RegistrationsEnd ==
    \A r \in Registrations :
        (start = "returned" /\ calls[r] = "returned" /\ r \notin late)
            ~> (reader[r] = "done" /\ chan[r] = <<>>)

\* "A Serve that starts afterwards refuses its listener and returns instead of
\* serving forever" (Shutdown): in whatever order the steps of Serve and
\* Shutdown fall, once Shutdown was called Serve does not go on for ever.
ShutdownEndsServe ==
    \A v \in Servers : (shutdown[v] # "new") ~> (serve[v] \in {"new", "returned"})
=============================================================================
