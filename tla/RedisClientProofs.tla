------------------------- MODULE RedisClientProofs -------------------------
(***************************************************************************)
(* Theorems about RedisClient, for any users and any bounds.  The          *)
(* inductive invariant says where the owner is for each state of the       *)
(* contexts and of the subscription thread (OwnerInv), that every context  *)
(* allocated is one of the two (CountInv), and that whatever Redis has for *)
(* the client is for its present callback, or in a second subscribe() for  *)
(* the one before it (MessageInv).                                         *)
(***************************************************************************)
EXTENDS RedisClient, TLAPS

Allocated(c) == IF c = "null" THEN 0 ELSE 1

CountInv == contexts = Allocated(ctx) + Allocated(sub)

(* Where the owner is while the client is connected.                       *)
Calm == {"idle", "subscribe", "resubscribe"}

OwnerInv ==
    /\ connected => ctx # "null" /\ sub # "null" /\ owner \in Calm
    /\ worker # "none" => sub # "null" /\ owner \in Calm \cup {"join"}
    /\ owner \in Calm =>
          connected \/ (ctx = "null" /\ sub = "null" /\ worker = "none")
    /\ owner \in {"subscribe", "resubscribe"} => worker # "none"
    /\ owner = "dial" => ctx = "null" /\ sub = "null"
    /\ owner \in {"auth", "dialSub"} => ctx # "null" /\ sub = "null"
    /\ owner = "authSub" => ctx # "null" /\ sub # "null"

(* The subscription Redis knows of: in a second subscribe() the callback   *)
(* is already the next one.                                                *)
Current == IF owner = "resubscribe" THEN callback - 1 ELSE callback

MessageInv ==
    /\ channel \in {None, Current}
    /\ \A i \in DOMAIN inbox : inbox[i] = Current
    /\ worker = "call" => reply = Current
    /\ worker = "none" /\ owner # "free" => channel = None /\ inbox = << >>

ClientInv == TypeOK /\ CountInv /\ OwnerInv /\ MessageInv

-----------------------------------------------------------------------------
(* What a queue of numbers keeps under the operations of Redis.            *)
LEMMA QueueFacts ==
    ASSUME NEW S, NEW q \in Seq(S), NEW c,
           \A i \in DOMAIN q : q[i] = c
    PROVE  /\ \A e \in S : Append(q, e) \in Seq(S)
           /\ c \in S => \A i \in DOMAIN Append(q, c) : Append(q, c)[i] = c
           /\ q # << >> => /\ Head(q) \in S /\ Head(q) = c
                           /\ Tail(q) \in Seq(S)
                           /\ \A i \in DOMAIN Tail(q) : Tail(q)[i] = c
           /\ \A n \in 0 .. Len(q) :
                 /\ SubSeq(q, 1, n) \in Seq(S)
                 /\ \A i \in DOMAIN SubSeq(q, 1, n) : SubSeq(q, 1, n)[i] = c
  OBVIOUS

LEMMA InitClientInv == Init => ClientInv
<1> SUFFICES ASSUME Init PROVE ClientInv
  OBVIOUS
<1>1. TypeOK
  <2>1. contexts \in 0 .. 2 /\ published \in 0 .. MaxPublished
    BY ClientConstants DEF Init
  <2>2. connected \in BOOLEAN /\ subscribing \in BOOLEAN /\ alive \in BOOLEAN
    BY DEF Init
  <2>3. inbox \in Seq(Subscription) /\ user \in [User -> {"idle", "lock", "wait"}]
    BY DEF Init
  <2> QED BY <2>1, <2>2, <2>3 DEF Init, TypeOK, ContextState
<1>2. CountInv /\ OwnerInv
  BY DEF Init, CountInv, OwnerInv, Calm, Allocated
<1>3. MessageInv
  BY DEF Init, MessageInv
<1> QED BY <1>1, <1>2, <1>3 DEF ClientInv

(* connect(): each of its steps, successful or not.                        *)
LEMMA ConnectKeepsInv ==
    ASSUME ClientInv, CallConnect \/ Dial \/ Auth
    PROVE  ClientInv'
<1> USE DEF ClientInv, process, redis
<1>1. CASE CallConnect
  BY <1>1 DEF CallConnect, TypeOK, CountInv, OwnerInv, Calm, MessageInv, Current, Allocated
<1>2. CASE Dial
  <2>1. TypeOK'
    BY <1>2 DEF Dial, Abandon, TypeOK, ContextState, CountInv, OwnerInv, Calm, Allocated
  <2>2. CountInv' /\ OwnerInv'
    BY <1>2 DEF Dial, Abandon, CountInv, OwnerInv, Calm, Allocated, TypeOK, ContextState
  <2>3. MessageInv'
    BY <1>2 DEF Dial, Abandon, MessageInv, Current, OwnerInv, Calm
  <2> QED BY <2>1, <2>2, <2>3
<1>3. CASE Auth
  <2>1. TypeOK'
    <3>1. /\ ctx' \in ContextState /\ sub' \in ContextState
          /\ owner' \in {"idle", "dialSub"}
          /\ contexts' \in {contexts, 0}
      BY <1>3 DEF Auth, Abandon, TypeOK, ContextState
    <3>2. contexts' \in 0 .. 2
      BY <3>1 DEF TypeOK
    <3>3. connected' \in BOOLEAN
      BY <1>3 DEF Auth, Abandon, TypeOK
    <3> QED BY <1>3, <3>1, <3>2, <3>3 DEF Auth, TypeOK
  <2>2. CountInv' /\ OwnerInv'
    BY <1>3 DEF Auth, Abandon, CountInv, OwnerInv, Calm, Allocated, TypeOK, ContextState
  <2>3. MessageInv'
    BY <1>3 DEF Auth, Abandon, MessageInv, Current, OwnerInv, Calm
  <2> QED BY <2>1, <2>2, <2>3
<1> QED BY <1>1, <1>2, <1>3

(* disconnect(): the thread is joined before the contexts go.              *)
LEMMA DisconnectKeepsInv ==
    ASSUME ClientInv, CallDisconnect \/ Join \/ Free
    PROVE  ClientInv'
<1> USE DEF ClientInv, process, redis
<1>1. CASE CallDisconnect
  BY <1>1 DEF CallDisconnect, TypeOK, CountInv, OwnerInv, Calm, MessageInv, Current, Allocated
<1>2. CASE Join
  BY <1>2 DEF Join, TypeOK, CountInv, OwnerInv, Calm, MessageInv, Current, Allocated
<1>3. CASE Free
  BY <1>3 DEF Free, TypeOK, CountInv, OwnerInv, Calm, MessageInv, Current, Allocated, ContextState,
     None
<1> QED BY <1>1, <1>2, <1>3

(* subscribe() and the subscription thread.                                *)
LEMMA SubscriptionKeepsInv ==
    ASSUME ClientInv, CallSubscribe \/ SendSubscribe \/ AssignThread \/ WorkerStep
    PROVE  ClientInv'
<1> USE DEF ClientInv, process, redis
<1>1. CASE CallSubscribe
  <2>1. TypeOK'
    <3>1. callback' \in Subscription \cup {None}
      <4>1. callback' = callback \/ (callback < MaxSubscriptions
                                      /\ callback' = callback + 1)
        BY <1>1 DEF CallSubscribe
      <4> QED BY <4>1, ClientConstants DEF TypeOK, Subscription, None
    <3>2. /\ subscribing' \in BOOLEAN /\ alive' \in BOOLEAN
          /\ worker' \in {"none", "test", "get", "call", "sleep", "done"}
          /\ owner' \in {"resubscribe", "subscribe"}
      BY <1>1 DEF CallSubscribe, TypeOK
    <3> QED BY <1>1, <3>1, <3>2 DEF CallSubscribe, TypeOK
  <2>2. CountInv' /\ OwnerInv'
    BY <1>1 DEF CallSubscribe, CountInv, OwnerInv, Calm, Allocated
  <2>3. MessageInv'
    <3>1. CASE worker = "none"
      BY <1>1, <3>1 DEF CallSubscribe, MessageInv, Current
    <3>2. CASE worker # "none"
      <4>1. callback' - 1 = callback
        BY <1>1, ClientConstants DEF CallSubscribe, TypeOK, Subscription, None
      <4> QED BY <1>1, <3>2, <4>1 DEF CallSubscribe, MessageInv, Current
    <3> QED BY <3>1, <3>2
  <2> QED BY <2>1, <2>2, <2>3
<1>2. CASE SendSubscribe
  BY <1>2 DEF SendSubscribe, TypeOK, CountInv, OwnerInv, Calm, MessageInv, Current, Allocated
<1>3. CASE WorkerTest
  BY <1>3 DEF WorkerTest, TypeOK, CountInv, OwnerInv, Calm, MessageInv, Current, Allocated
<1>4. CASE WorkerGets
  <2>1. inbox # << >> => /\ Head(inbox) \in Subscription /\ Head(inbox) = Current
                         /\ Tail(inbox) \in Seq(Subscription)
                         /\ \A i \in DOMAIN Tail(inbox) : Tail(inbox)[i] = Current
    BY QueueFacts DEF TypeOK, MessageInv
  <2> QED BY <1>4, <2>1 DEF WorkerGets, TypeOK, CountInv, OwnerInv, Calm, MessageInv, Current,
             Allocated
<1>5. CASE WorkerReturns
  BY <1>5 DEF WorkerReturns, TypeOK, CountInv, OwnerInv, Calm, MessageInv, Current, Allocated
<1>6. CASE AssignThread
  BY <1>6 DEF AssignThread, TypeOK, CountInv, OwnerInv, Calm, MessageInv, Current,
     Allocated
<1> QED BY <1>1, <1>2, <1>3, <1>4, <1>5, <1>6 DEF WorkerStep

(* Commands touch neither the contexts nor the subscription.               *)
LEMMA CommandKeepsInv ==
    ASSUME ClientInv, NEW u \in User, Test(u) \/ UserStep(u)
    PROVE  ClientInv'
<1> USE DEF ClientInv, process, redis
<1>1. /\ user' \in [User -> {"idle", "lock", "wait"}]
      /\ alive' \in BOOLEAN
      /\ UNCHANGED <<connected, subscribing, ctx, sub, contexts, callback, owner,
                     worker, reply, channel, inbox, published>>
  BY DEF Test, UserStep, Command, Finish, TypeOK
<1>2. TypeOK'
  BY <1>1 DEF TypeOK
<1> QED BY <1>1, <1>2 DEF CountInv, OwnerInv, Calm, MessageInv, Current, Allocated

(* Redis: messages arrive, connections are lost.                           *)
LEMMA RedisKeepsInv ==
    ASSUME ClientInv, Publish \/ ConnectionLost
    PROVE  ClientInv'
<1> USE DEF ClientInv, process, redis
<1>1. CASE Publish
  <2>1. /\ channel = Current /\ Current \in Subscription
        /\ worker = "none" => owner = "free"
    BY <1>1 DEF Publish, MessageInv, TypeOK, None
  <2>2. /\ inbox' \in Seq(Subscription)
        /\ \A i \in DOMAIN inbox' : inbox'[i] = Current
    BY <1>1, <2>1, QueueFacts DEF Publish, MessageInv, TypeOK
  <2>3. TypeOK'
    BY <1>1, <2>2, ClientConstants DEF Publish, TypeOK
  <2> QED BY <1>1, <2>1, <2>2, <2>3
          DEF Publish, CountInv, OwnerInv, Calm, MessageInv, Current, Allocated
<1>2. CASE ConnectionLost
  <2>1. /\ inbox' \in Seq(Subscription)
        /\ \A i \in DOMAIN inbox' : inbox'[i] = Current
    BY <1>2, QueueFacts DEF ConnectionLost, MessageInv, TypeOK
  <2>2. inbox = << >> => inbox' = << >>
    BY <1>2 DEF ConnectionLost
  <2>3. TypeOK'
    BY <1>2, <2>1 DEF ConnectionLost, TypeOK, ContextState, None
  <2>4. CountInv' /\ OwnerInv'
    BY <1>2 DEF ConnectionLost, CountInv, OwnerInv, Calm, Allocated
  <2>5. Current' = Current
    BY <1>2 DEF ConnectionLost, Current
  <2> QED BY <1>2, <2>1, <2>2, <2>3, <2>4, <2>5 DEF ConnectionLost, MessageInv, None
<1> QED BY <1>1, <1>2

LEMMA InvariantHolds == Spec => []ClientInv
<1>1. ClientInv /\ [Next]_vars => ClientInv'
  <2> SUFFICES ASSUME ClientInv, [Next]_vars PROVE ClientInv'
    OBVIOUS
  <2>1. CASE UNCHANGED vars
    BY <2>1 DEF vars, process, redis, ClientInv, TypeOK, CountInv, OwnerInv,
       Calm, MessageInv, Current, Allocated
  <2>2. CASE Next
    BY <2>2, ConnectKeepsInv, DisconnectKeepsInv, SubscriptionKeepsInv,
       CommandKeepsInv, RedisKeepsInv DEF Next, OwnerStep
  <2> QED BY <2>1, <2>2
<1> QED BY InitClientInv, <1>1, PTL DEF Spec

-----------------------------------------------------------------------------
(* The types of redis_client.hpp, and never more than two contexts.        *)
THEOREM ClientTypeCorrect == Spec => []TypeOK
  BY InvariantHolds, PTL DEF ClientInv

(* The subscription thread never reads from a context that disconnect()    *)
(* has freed, and does not outlive disconnect().                           *)
THEOREM NoUseAfterFree == Spec => []WorkerHasContext
<1>1. ClientInv => WorkerHasContext
  BY DEF ClientInv, OwnerInv, WorkerHasContext
<1> QED BY InvariantHolds, <1>1, PTL

(* A message goes to the callback it was subscribed with, although         *)
(* message_callback_ is assigned without a lock; only while a second       *)
(* subscribe() is about to end the process can it reach the next one.      *)
THEOREM MessagesReachTheirCallback == Spec => []OwnCallback
<1>1. ClientInv => OwnCallback
  BY DEF ClientInv, MessageInv, Current, OwnCallback
<1> QED BY InvariantHolds, <1>1, PTL

(* connect() that fails at any of its steps frees what it had allocated.   *)
THEOREM ContextsAreFreed == Spec => []NoLeakedContext
<1>1. ClientInv => NoLeakedContext
  BY DEF ClientInv, CountInv, Allocated, NoLeakedContext
<1> QED BY InvariantHolds, <1>1, PTL
=============================================================================
