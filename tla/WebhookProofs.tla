---------------------------- MODULE WebhookProofs ----------------------------
(***************************************************************************)
(* Theorems about Webhook: for any number of changes and of tokens, any    *)
(* buffer, any number of attempts.                                         *)
(***************************************************************************)
EXTENDS Webhook, FiniteSetTheorems, TLAPS

USE WebhookAssumption

Places == {"unpublished", "dropped", "queued", "held", "posting", "sleeping",
           "done", "given up"}

(* The semaphore: its tokens are held by the posts.                        *)
TokenInv ==
    /\ tokens \in Nat
    /\ PostsBounded

(* The channel has room for BufferSize changes, the callback for one; and  *)
(* what has arrived has arrived.                                           *)
PlaceInv ==
    /\ Cardinality(At("queued")) <= BufferSize
    /\ \A c, d \in At("held") : c = d
    /\ At("done") \subseteq received

DataInv ==
    /\ fate \in [Changes -> Places]
    /\ attempt \in [Changes -> 0 .. MaxAttempts]
    /\ app \in {"running", "closed", "exited"}
    /\ received \in SUBSET Changes

-----------------------------------------------------------------------------

LEMMA FinitePlaces ==
    /\ \A q : IsFiniteSet(At(q)) /\ Cardinality(At(q)) \in Nat
    /\ IsFiniteSet(Posts) /\ Cardinality(Posts) \in Nat
<1>1. IsFiniteSet(Changes)
  BY FS_Interval DEF Changes
<1>2. \A q : At(q) \in SUBSET Changes
  BY DEF At
<1>3. Posts \in SUBSET Changes
  BY <1>2 DEF Posts
<1>4. QED
  BY <1>1, <1>2, <1>3, FS_Subset, FS_CardinalityType

(* A move takes a change from its place to another.                        *)
LEMMA Moved ==
  ASSUME fate \in [Changes -> Places], NEW c \in Changes, NEW p, Move(c, p)
  PROVE  /\ At(p)' = At(p) \cup {c}
         /\ \A q : q # p => At(q)' = At(q) \ {c}
BY DEF At, Move

(* What a move does to the posts.                                          *)
LEMMA PostsMoved ==
  ASSUME fate \in [Changes -> Places], NEW c \in Changes, NEW p, Move(c, p)
  PROVE  /\ p \in {"posting", "sleeping"} => Posts' = Posts \cup {c}
         /\ p \notin {"posting", "sleeping"} => Posts' = Posts \ {c}
         /\ fate[c] \in {"posting", "sleeping"} <=> c \in Posts
<1>1. Posts' = At("posting")' \cup At("sleeping")'
  BY DEF Posts
<1>2. \A q : q \in {"posting", "sleeping"} =>
            At(q)' = IF q = p THEN At(q) \cup {c} ELSE At(q) \ {c}
  BY Moved
<1>3. CASE p \in {"posting", "sleeping"}
  BY <1>1, <1>2, <1>3 DEF Posts, At
<1>4. CASE p \notin {"posting", "sleeping"}
  BY <1>1, <1>2, <1>4 DEF Posts, At
<1>5. fate[c] \in {"posting", "sleeping"} <=> c \in Posts
  BY DEF Posts, At
<1>6. QED
  BY <1>3, <1>4, <1>5

LEMMA DataStep ==
  ASSUME DataInv, [Next]_vars
  PROVE  DataInv'
<1> USE DEF DataInv
<1>s. ASSUME NEW c \in Changes, NEW p \in Places, Move(c, p)
      PROVE  fate' \in [Changes -> Places]
  BY <1>s DEF Move
<1>n. ASSUME NEW c \in Changes, NEW n \in 0 .. MaxAttempts,
             attempt' = [attempt EXCEPT ![c] = n]
      PROVE  attempt' \in [Changes -> 0 .. MaxAttempts]
  BY <1>n
<1>1. CASE Publish \/ Receive
  <2>1. PICK c \in Changes, p \in Places : Move(c, p)
    BY <1>1 DEF Publish, Receive, Places
  <2>2. QED
    BY <1>1, <1>s, <2>1 DEF Publish, Receive
<1>2. CASE Spawn
  <2>1. PICK c \in Changes : Move(c, "posting") /\ attempt' = [attempt EXCEPT ![c] = 1]
    BY <1>2 DEF Spawn, At
  <2>2. 1 \in 0 .. MaxAttempts
    OBVIOUS
  <2>3. "posting" \in Places
    BY DEF Places
  <2>4. QED
    BY <1>2, <1>s, <1>n, <2>1, <2>2, <2>3 DEF Spawn
<1>3. ASSUME NEW c \in Changes, PostOK(c) \/ PostFails(c) \/ Retry(c) \/ GiveUp(c)
      PROVE  DataInv'
  <2>1. \E p \in Places : Move(c, p)
    BY <1>3 DEF PostOK, PostFails, Retry, GiveUp, Places
  <2>2. \/ attempt' = attempt
        \/ \E n \in 0 .. MaxAttempts : attempt' = [attempt EXCEPT ![c] = n]
    <3>1. CASE PostOK(c) \/ PostFails(c) \/ GiveUp(c)
      <4>1. attempt' = attempt \/ attempt' = [attempt EXCEPT ![c] = 0]
        BY <3>1 DEF PostOK, PostFails, GiveUp
      <4>2. 0 \in 0 .. MaxAttempts
        OBVIOUS
      <4>3. QED
        BY <4>1, <4>2
    <3>2. CASE Retry(c)
      <4>1. attempt[c] + 1 \in 0 .. MaxAttempts
        BY <3>2 DEF Retry
      <4>2. attempt' = [attempt EXCEPT ![c] = attempt[c] + 1]
        BY <3>2 DEF Retry
      <4>3. QED
        BY <4>1, <4>2
    <3>3. QED
      BY <1>3, <3>1, <3>2
  <2>3. attempt' \in [Changes -> 0 .. MaxAttempts]
    BY <1>n, <2>2
  <2>4. app' = app /\ received' \in SUBSET Changes
    BY <1>3 DEF PostOK, PostFails, Retry, GiveUp
  <2>5. QED
    BY <1>s, <2>1, <2>3, <2>4
<1>4. CASE StartReturns \/ Exit \/ UNCHANGED vars
  BY <1>4 DEF StartReturns, Exit, vars
<1>5. QED
  BY <1>1, <1>2, <1>3, <1>4 DEF Next, Delivery

LEMMA TokenBack ==
  ASSUME tokens \in Nat, tokens # 0, tokens <= Concurrency, tokens' = tokens - 1
  PROVE  tokens' \in Nat /\ tokens' <= Concurrency
OBVIOUS

LEMMA TokenStep ==
  ASSUME DataInv, TokenInv, [Next]_vars
  PROVE  TokenInv'
<1> fate \in [Changes -> Places]
  BY DEF DataInv
<1> USE DEF TokenInv, PostsBounded
<1>s. ASSUME tokens' = tokens, Posts' = Posts
      PROVE  TokenInv'
  BY <1>s
<1>1. CASE Publish \/ Receive
  <2>1. PICK c \in Changes, p \in {"queued", "dropped", "held"} :
            /\ Move(c, p) /\ tokens' = tokens
            /\ fate[c] \in {"unpublished", "queued"}
    BY <1>1 DEF Publish, Receive, First, At
  <2>2. QED
    BY <1>s, <2>1, PostsMoved
<1>2. CASE Spawn
  <2>1. PICK c \in Changes :
            /\ Move(c, "posting") /\ tokens' = tokens + 1
            /\ tokens < Concurrency /\ fate[c] = "held"
    BY <1>2 DEF Spawn, At
  <2>2. Posts' = Posts \cup {c} /\ c \notin Posts
    BY <2>1, PostsMoved
  <2>3. Cardinality(Posts') = Cardinality(Posts) + 1
    BY <2>2, FinitePlaces, FS_AddElement
  <2>4. QED
    BY <2>1, <2>3
<1>3. ASSUME NEW c \in Changes, PostOK(c) \/ GiveUp(c)
      PROVE  TokenInv'
  <2>1. PICK p \in {"done", "given up"} :
            /\ Move(c, p) /\ tokens' = tokens - 1
            /\ fate[c] \in {"posting", "sleeping"}
    BY <1>3 DEF PostOK, GiveUp
  <2>2. Posts' = Posts \ {c} /\ c \in Posts
    BY <2>1, PostsMoved
  <2>3. Cardinality(Posts') = Cardinality(Posts) - 1
    BY <2>2, FinitePlaces, FS_RemoveElement
  <2>4. Cardinality(Posts) # 0
    BY <2>2, FinitePlaces, FS_EmptySet
  <2>5. Cardinality(Posts) \in Nat
    BY FinitePlaces
  <2>6. tokens = Cardinality(Posts) /\ tokens' = tokens - 1
    BY <2>1
  <2>7. tokens' = Cardinality(Posts')
    BY <2>3, <2>6
  <2>8. tokens \in Nat /\ tokens # 0
    BY <2>4, <2>5, <2>6
  <2>9. tokens' \in Nat /\ tokens' <= Concurrency
    BY <2>6, <2>8, TokenBack
  <2>10. QED
    BY <2>7, <2>9
<1>4. ASSUME NEW c \in Changes, PostFails(c) \/ Retry(c)
      PROVE  TokenInv'
  <2>1. PICK p \in {"posting", "sleeping"} :
            /\ Move(c, p) /\ tokens' = tokens
            /\ fate[c] \in {"posting", "sleeping"}
    BY <1>4 DEF PostFails, Retry
  <2>2. QED
    BY <1>s, <2>1, PostsMoved
<1>5. CASE StartReturns \/ Exit \/ UNCHANGED vars
  BY <1>5, <1>s DEF StartReturns, Exit, vars, Posts, At
<1>6. QED
  BY <1>1, <1>2, <1>3, <1>4, <1>5 DEF Next, Delivery

LEMMA PlaceStep ==
  ASSUME DataInv, PlaceInv, [Next]_vars
  PROVE  PlaceInv'
<1> fate \in [Changes -> Places]
  BY DEF DataInv
<1> USE DEF PlaceInv
<1>s. ASSUME NEW S, S \in SUBSET At("queued")
      PROVE  Cardinality(S) \in Nat /\ Cardinality(S) <= Cardinality(At("queued"))
  BY <1>s, FinitePlaces, FS_Subset, FS_CardinalityType
<1>k. ASSUME NEW c \in Changes, NEW p, p \notin {"queued", "held"}, Move(c, p),
             p = "done" => c \in received', received \subseteq received'
      PROVE  PlaceInv'
  <2>1. /\ At("queued")' = At("queued") \ {c} /\ At("held")' = At("held") \ {c}
        /\ At("done")' \subseteq received'
    BY <1>k, Moved
  <2>2. Cardinality(At("queued")') <= BufferSize
    BY <1>s, <2>1, FinitePlaces
  <2>3. QED
    BY <2>1, <2>2
<1>1. CASE Publish
  <2>1. PICK c \in Changes :
            /\ fate[c] = "unpublished" /\ received' = received
            /\ \/ Cardinality(At("queued")) < BufferSize /\ Move(c, "queued")
               \/ Move(c, "dropped")
    BY <1>1 DEF Publish, First, At
  <2>2. CASE Cardinality(At("queued")) < BufferSize /\ Move(c, "queued")
    <3>1. /\ At("queued")' = At("queued") \cup {c} /\ At("held")' = At("held") \ {c}
          /\ At("done")' = At("done") \ {c}
      BY <2>2, Moved
    <3>2. c \notin At("queued")
      BY <2>1 DEF At
    <3>3. Cardinality(At("queued")') = Cardinality(At("queued")) + 1
      BY <3>1, <3>2, FinitePlaces, FS_AddElement
    <3>4. QED
      BY <2>1, <2>2, <3>1, <3>3, FinitePlaces
  <2>3. CASE Move(c, "dropped")
    BY <1>k, <2>1, <2>3
  <2>4. QED
    BY <2>1, <2>2, <2>3
<1>2. CASE Receive
  <2>1. PICK c \in Changes :
            Move(c, "held") /\ At("held") = {} /\ received' = received
    BY <1>2 DEF Receive
  <2>2. /\ At("queued")' = At("queued") \ {c} /\ At("held")' = {c}
        /\ At("done")' = At("done") \ {c}
    BY <2>1, Moved
  <2>3. Cardinality(At("queued")') <= BufferSize
    BY <1>s, <2>2, FinitePlaces
  <2>4. QED
    BY <2>1, <2>2, <2>3
<1>3. CASE Spawn
  BY <1>3, <1>k DEF Spawn, At
<1>4. ASSUME NEW c \in Changes, PostOK(c)
      PROVE  PlaceInv'
  BY <1>4, <1>k DEF PostOK
<1>5. ASSUME NEW c \in Changes, PostFails(c) \/ Retry(c) \/ GiveUp(c)
      PROVE  PlaceInv'
  BY <1>5, <1>k DEF PostFails, Retry, GiveUp
<1>6. CASE StartReturns \/ Exit \/ UNCHANGED vars
  BY <1>6 DEF StartReturns, Exit, vars, At
<1>7. QED
  BY <1>1, <1>2, <1>3, <1>4, <1>5, <1>6 DEF Next, Delivery

-----------------------------------------------------------------------------

LEMMA WebhookInit == Init => DataInv /\ TokenInv /\ PlaceInv
<1>1. SUFFICES ASSUME Init
               PROVE  DataInv /\ TokenInv /\ PlaceInv
  OBVIOUS
<1>2. At("queued") = {} /\ At("held") = {} /\ At("done") = {} /\ Posts = {}
  BY <1>1 DEF Init, At, Posts
<1>3. DataInv
  BY <1>1 DEF Init, DataInv, Places
<1>4. QED
  BY <1>1, <1>2, <1>3, FS_EmptySet DEF Init, TokenInv, PostsBounded, PlaceInv

LEMMA WebhookInv == Spec => [](DataInv /\ TokenInv /\ PlaceInv)
BY WebhookInit, DataStep, TokenStep, PlaceStep, PTL DEF Spec

\* Every variable keeps its type.
THEOREM WebhookTypeCorrect == Spec => []TypeOK
<1>1. DataInv /\ TokenInv => TypeOK
  <2>1. ASSUME TokenInv
        PROVE  tokens \in 0 .. Concurrency
    BY <2>1 DEF TokenInv, PostsBounded
  <2>2. QED
    BY <2>1 DEF DataInv, TypeOK, Places
<1>2. QED
  BY <1>1, WebhookInv, PTL

\* The tokens out are the changes being posted or retried, and never more than
\* the semaphore has.
THEOREM PostsAreBounded == Spec => []PostsBounded
<1>1. TokenInv => PostsBounded
  BY DEF TokenInv
<1>2. QED
  BY <1>1, WebhookInv, PTL

\* Whenever the program ends, it takes no more with it than a full channel, the
\* change in the callback, and a change for each token.
THEOREM LossIsBounded == Spec => []LossBounded
<1>1. ASSUME DataInv, TokenInv, PlaceInv
      PROVE  LossBounded
  <2> DEFINE U == At("queued") \cup At("held")
  <2>1. Untraced \subseteq U \cup Posts
    BY <1>1 DEF Untraced, PlaceInv, DataInv, Places, Posts, At
  <2>2. Cardinality(At("held")) <= 1
    <3>1. CASE At("held") = {}
      BY <3>1, FS_EmptySet
    <3>2. CASE At("held") # {}
      <4>1. PICK c : At("held") = {c}
        BY <1>1, <3>2 DEF PlaceInv
      <4>2. Cardinality({c}) = 1
        BY FS_Singleton
      <4>3. QED
        BY <4>1, <4>2
    <3>3. QED
      BY <3>1, <3>2
  <2>3. /\ IsFiniteSet(U)
        /\ Cardinality(U) <= Cardinality(At("queued")) + Cardinality(At("held"))
    <3>1. At("queued") \cap At("held") \in SUBSET At("held")
      OBVIOUS
    <3>2. Cardinality(At("queued") \cap At("held")) \in Nat
      BY <3>1, FinitePlaces, FS_Subset, FS_CardinalityType
    <3>3. Cardinality(U) = Cardinality(At("queued")) + Cardinality(At("held"))
                             - Cardinality(At("queued") \cap At("held"))
      BY FinitePlaces, FS_Union
    <3>4. IsFiniteSet(U)
      BY FinitePlaces, FS_Union
    <3>5. QED
      BY <3>2, <3>3, <3>4, FinitePlaces
  <2>4. Cardinality(U) \in Nat
    BY <2>3, FS_CardinalityType
  <2>5. /\ IsFiniteSet(U \cup Posts)
        /\ Cardinality(U \cup Posts) <= Cardinality(U) + Cardinality(Posts)
    <3>1. U \cap Posts \in SUBSET Posts
      OBVIOUS
    <3>2. Cardinality(U \cap Posts) \in Nat
      BY <3>1, FinitePlaces, FS_Subset, FS_CardinalityType
    <3>3. QED
      BY <2>3, <2>4, <3>2, FinitePlaces, FS_Union
  <2>6. Cardinality(Untraced) <= Cardinality(U \cup Posts) /\ Cardinality(Untraced) \in Nat
    BY <2>1, <2>5, FS_Subset, FS_CardinalityType
  <2>7. Cardinality(U \cup Posts) \in Nat
    BY <2>5, FS_CardinalityType
  <2>8. Cardinality(At("queued")) <= BufferSize /\ Cardinality(Posts) <= Concurrency
    BY <1>1 DEF PlaceInv, TokenInv, PostsBounded
  <2> HIDE DEF U
  <2>9. Cardinality(Untraced) <= BufferSize + Concurrency + 1
    BY <2>2, <2>3, <2>4, <2>5, <2>6, <2>7, <2>8, FinitePlaces
  <2>10. QED
    BY <2>9 DEF LossBounded
<1>2. QED
  BY <1>1, WebhookInv, PTL
=============================================================================
