---------------------------- MODULE RedisClient ----------------------------
(***************************************************************************)
(* One RedisClient (common/redis_client.cpp) in a process of several       *)
(* threads: its owner connects, subscribes and disconnects, users run      *)
(* commands, and the subscription thread waits for messages.  The threads  *)
(* share two contexts, two atomic flags and two mutexes.  The Redis server *)
(* is external; it may drop either connection at any time.                 *)
(***************************************************************************)
EXTENDS Integers, Sequences

CONSTANTS
    User,              \* the threads that run commands
    MaxPublished,      \* bound on the messages published
    MaxSubscriptions   \* bound on the calls of subscribe()

ASSUME ClientConstants ==
    MaxPublished \in Nat /\ MaxSubscriptions \in Nat

VARIABLES
    connected,    \* connected_
    subscribing,  \* subscribing_
    ctx, sub,     \* context_ and sub_context_
    contexts,     \* how many contexts are allocated
    callback,     \* message_callback_: the subscription it was passed to
    owner,        \* where the owner is: in a call of connect, ...
    worker,       \* subscription_thread_; "none" is not joinable
    reply,        \* what the worker has just read
    user,         \* where each user is in executeRedisCommand
    alive,        \* the process
    channel,      \* Redis: the subscription of the sub connection
    inbox,        \* Redis: messages on their way to the worker
    published     \* Redis: how many messages were published

process == <<connected, subscribing, ctx, sub, contexts, callback, alive>>
redis == <<channel, inbox, published>>
vars == <<process, owner, worker, reply, user, redis>>

(* A hiredis context: null, connected, or with its connection lost.  A     *)
(* message is the subscription it was received for.                        *)
ContextState == {"null", "up", "err"}
Subscription == 1 .. MaxSubscriptions
None == 0

TypeOK ==
    /\ connected \in BOOLEAN /\ subscribing \in BOOLEAN /\ alive \in BOOLEAN
    /\ ctx \in ContextState /\ sub \in ContextState
    /\ contexts \in 0 .. 2
    /\ callback \in Subscription \cup {None}
    /\ owner \in {"idle", "dial", "auth", "dialSub", "authSub",
                  "subscribe", "resubscribe", "join", "free"}
    /\ worker \in {"none", "test", "get", "call", "sleep", "done"}
    /\ reply \in Subscription \cup {None}
    /\ user \in [User -> {"idle", "lock", "wait"}]
    /\ channel \in Subscription \cup {None}
    /\ inbox \in Seq(Subscription)
    /\ published \in 0 .. MaxPublished

Init ==
    /\ connected = FALSE /\ subscribing = FALSE /\ alive = TRUE
    /\ ctx = "null" /\ sub = "null" /\ contexts = 0
    /\ callback = None
    /\ owner = "idle"
    /\ worker = "none"
    /\ reply = None
    /\ user = [u \in User |-> "idle"]
    /\ channel = None
    /\ inbox = << >>
    /\ published = 0

(* Who holds the mutexes: connect() keeps context_mutex_ to its end, a     *)
(* command until it has its reply, and the worker keeps sub_context_mutex_ *)
(* while it reads, calls back and sleeps.                                  *)
Connecting == owner \in {"dial", "auth", "dialSub", "authSub"}

(* Mutant: disconnect() takes context_mutex_ first.                        *)
ContextLockedByJoin ==
    Connecting \/ owner = "join" \/ \E u \in User : user[u] = "wait"

ContextLocked == Connecting \/ \E u \in User : user[u] = "wait"
SubLocked == worker \in {"get", "call", "sleep"}

-----------------------------------------------------------------------------
(* connect() *)

(* The owner calls connect() only on a client that is not connected.       *)
CallConnect ==
    /\ alive
    /\ owner = "idle" /\ ~connected
    /\ ~ContextLocked
    /\ owner' = "dial"
    /\ UNCHANGED <<process, worker, reply, user, redis>>

(* A failure frees what was connected so far and returns false.            *)
Abandon ==
    /\ ctx' = "null" /\ sub' = "null"
    /\ contexts' = 0
    /\ owner' = "idle"
    /\ UNCHANGED connected

Dial ==
    /\ alive
    /\ \/ /\ owner = "dial"
          /\ ctx' = "up" /\ contexts' = contexts + 1
          /\ owner' = "auth"
          /\ UNCHANGED <<sub, connected>>
       \/ /\ owner = "dialSub"
          /\ sub' = "up" /\ contexts' = contexts + 1
          /\ owner' = "authSub"
          /\ UNCHANGED <<ctx, connected>>
       \/ /\ owner \in {"dial", "dialSub"}
          /\ Abandon
    /\ UNCHANGED <<subscribing, callback, alive, worker, reply, user, redis>>

(* Mutant: when the subscription connection is refused, only its own       *)
(* context is freed.                                                       *)
AuthKeepsContext ==
    /\ alive
    /\ \/ /\ owner = "auth" /\ ctx = "up"
          /\ owner' = "dialSub"
          /\ UNCHANGED <<ctx, sub, contexts, connected>>
       \/ /\ owner = "authSub" /\ sub = "up"
          /\ connected' = TRUE
          /\ owner' = "idle"
          /\ UNCHANGED <<ctx, sub, contexts>>
       \/ /\ owner \in {"auth", "authSub"}
          /\ ctx' = "null" /\ sub' = "null"
          /\ contexts' = contexts - 1
          /\ owner' = "idle"
          /\ UNCHANGED connected
    /\ UNCHANGED <<subscribing, callback, alive, worker, reply, user, redis>>

(* AUTH on either context, when there is a password.                       *)
Auth ==
    /\ alive
    /\ \/ /\ owner = "auth" /\ ctx = "up"
          /\ owner' = "dialSub"
          /\ UNCHANGED <<ctx, sub, contexts, connected>>
       \/ /\ owner = "authSub" /\ sub = "up"
          /\ connected' = TRUE
          /\ owner' = "idle"
          /\ UNCHANGED <<ctx, sub, contexts>>
       \/ /\ owner \in {"auth", "authSub"}
          /\ Abandon
    /\ UNCHANGED <<subscribing, callback, alive, worker, reply, user, redis>>

-----------------------------------------------------------------------------
(* disconnect() *)

CallDisconnect ==
    /\ alive
    /\ owner = "idle"
    /\ connected' = FALSE /\ subscribing' = FALSE
    /\ owner' = "join"
    /\ UNCHANGED <<ctx, sub, contexts, callback, alive, worker, reply, user,
                   redis>>

(* Mutant: the thread is left to itself.                                   *)
JoinNot ==
    /\ alive
    /\ owner = "join"
    /\ owner' = "free"
    /\ UNCHANGED <<process, worker, reply, user, redis>>

(* join(), if joinable(): returns when the worker has left its loop.       *)
Join ==
    /\ alive
    /\ owner = "join"
    /\ worker \in {"none", "done"}
    /\ worker' = "none"
    /\ owner' = "free"
    /\ UNCHANGED <<process, reply, user, redis>>

(* Mutant: the subscription context is only set to null.                   *)
FreeOne ==
    /\ alive
    /\ owner = "free"
    /\ ~ContextLocked
    /\ ctx' = "null" /\ sub' = "null"
    /\ contexts' = IF ctx = "null" THEN contexts ELSE contexts - 1
    /\ channel' = None /\ inbox' = << >>
    /\ owner' = "idle"
    /\ UNCHANGED <<connected, subscribing, callback, alive, worker, reply, user,
                   published>>

(* The contexts go; so does what Redis had for them.                       *)
Free ==
    /\ alive
    /\ owner = "free"
    /\ ~ContextLocked
    /\ ctx' = "null" /\ sub' = "null"
    /\ contexts' = 0
    /\ channel' = None /\ inbox' = << >>
    /\ owner' = "idle"
    /\ UNCHANGED <<connected, subscribing, callback, alive, worker, reply, user,
                   published>>

-----------------------------------------------------------------------------
(* subscribe() and the subscription thread *)

(* Mutant: while a thread runs, a second call only replaces the callback.  *)
CallSubscribeReplaces ==
    /\ alive
    /\ owner = "idle" /\ connected
    /\ callback < MaxSubscriptions
    /\ callback' = callback + 1
    /\ subscribing' = TRUE
    /\ worker' = IF worker = "none" THEN "test" ELSE worker
    /\ owner' = "subscribe"
    /\ UNCHANGED <<connected, ctx, sub, contexts, alive, reply, user, redis>>

(* message_callback_ and subscribing_ are assigned whether or not a thread *)
(* is running; so is a new thread started.  Two threads in the loop take   *)
(* turns under sub_context_mutex_ and call the same callback: the worker   *)
(* stands for both.                                                        *)
CallSubscribe ==
    /\ alive
    /\ owner = "idle" /\ connected
    /\ callback < MaxSubscriptions
    /\ callback' = callback + 1
    /\ subscribing' = TRUE
    /\ IF worker = "none"
       THEN worker' = "test" /\ owner' = "subscribe"
       ELSE owner' = "resubscribe" /\ UNCHANGED worker
    /\ UNCHANGED <<connected, ctx, sub, contexts, alive, reply, user, redis>>

(* The new thread is assigned to one that is joinable: std::terminate.     *)
AssignThread ==
    /\ alive
    /\ owner = "resubscribe"
    /\ alive' = FALSE
    /\ UNCHANGED <<connected, subscribing, ctx, sub, contexts, callback, owner,
                   worker, reply, user, redis>>

(* SUBSCRIBE and its confirmation; its result is ignored.                  *)
SendSubscribe ==
    /\ alive
    /\ owner = "subscribe"
    /\ ~SubLocked
    /\ channel' = IF sub = "up" THEN callback ELSE channel
    /\ owner' = "idle"
    /\ UNCHANGED <<process, worker, reply, user, inbox, published>>

(* Mutant: the loop does not look at the flags.                            *)
WorkerTestNothing ==
    /\ alive
    /\ worker = "test"
    /\ worker' = "get"
    /\ UNCHANGED <<process, owner, reply, user, redis>>

(* The loop's condition, and then the lock.                                *)
WorkerTest ==
    /\ alive
    /\ worker = "test"
    /\ worker' = IF subscribing /\ connected THEN "get" ELSE "done"
    /\ UNCHANGED <<process, owner, reply, user, redis>>

(* redisGetReply() waits until there is a message or an error.             *)
WorkerGets ==
    /\ alive
    /\ worker = "get"
    /\ \/ /\ inbox # << >>
          /\ reply' = Head(inbox)
          /\ inbox' = Tail(inbox)
          /\ worker' = "call"
       \/ /\ inbox = << >> /\ sub # "up"
          /\ worker' = "sleep"
          /\ UNCHANGED <<reply, inbox>>
    /\ UNCHANGED <<process, owner, user, channel, published>>

(* The callback returns, or 100 ms have passed; the lock is released.      *)
WorkerReturns ==
    /\ alive
    /\ worker \in {"call", "sleep"}
    /\ worker' = "test"
    /\ reply' = None
    /\ UNCHANGED <<process, owner, user, redis>>

-----------------------------------------------------------------------------
(* Commands: set, get, del, sadd, srem, smembers, publish *)

(* The tests of connected_ and context_, before the lock is taken.         *)
Test(u) ==
    /\ alive
    /\ user[u] = "idle"
    /\ connected /\ ctx # "null"
    /\ user' = [user EXCEPT ![u] = "lock"]
    /\ UNCHANGED <<process, owner, worker, reply, redis>>

(* With the lock: redisvCommand on a null context ends the process.        *)
Command(u) ==
    /\ alive
    /\ user[u] = "lock"
    /\ ~ContextLocked
    /\ IF ctx = "null"
       THEN alive' = FALSE /\ UNCHANGED user
       ELSE user' = [user EXCEPT ![u] = "wait"] /\ UNCHANGED alive
    /\ UNCHANGED <<connected, subscribing, ctx, sub, contexts, callback, owner,
                   worker, reply, redis>>

(* The reply is there, or the connection is lost, and the lock released.   *)
Finish(u) ==
    /\ alive
    /\ user[u] = "wait"
    /\ user' = [user EXCEPT ![u] = "idle"]
    /\ UNCHANGED <<process, owner, worker, reply, redis>>

-----------------------------------------------------------------------------
(* Redis *)

(* Somebody, this process or another server, publishes to the channel.     *)
Publish ==
    /\ alive
    /\ channel # None
    /\ published < MaxPublished
    /\ published' = published + 1
    /\ inbox' = Append(inbox, channel)
    /\ UNCHANGED <<process, owner, worker, reply, user, channel>>

(* Redis goes away: the last messages may be lost with the connection.     *)
ConnectionLost ==
    /\ alive
    /\ \/ /\ ctx = "up" /\ ctx' = "err"
          /\ UNCHANGED <<sub, channel, inbox>>
       \/ /\ sub = "up" /\ sub' = "err"
          /\ channel' = None
          /\ \E n \in 0 .. Len(inbox) : inbox' = SubSeq(inbox, 1, n)
          /\ UNCHANGED ctx
    /\ UNCHANGED <<connected, subscribing, contexts, callback, alive, owner,
                   worker, reply, user, published>>

OwnerStep == Dial \/ Auth \/ Join \/ Free \/ SendSubscribe \/ AssignThread
WorkerStep == WorkerTest \/ WorkerGets \/ WorkerReturns
UserStep(u) == Command(u) \/ Finish(u)

Next ==
    \/ CallConnect \/ CallDisconnect \/ CallSubscribe
    \/ OwnerStep \/ WorkerStep
    \/ \E u \in User : Test(u) \/ UserStep(u)
    \/ Publish \/ ConnectionLost

Spec == Init /\ [][Next]_vars

(* The threads run, commands are answered or fail.  Nothing is assumed of  *)
(* the calls that are made, of messages, of a connection's loss, or of who *)
(* gets a mutex first.                                                     *)
Fairness ==
    /\ WF_vars(OwnerStep)
    /\ WF_vars(WorkerStep)
    /\ \A u \in User : WF_vars(Command(u)) /\ WF_vars(Finish(u))

FairSpec == Spec /\ Fairness

-----------------------------------------------------------------------------
(* The subscription thread never reads from a context that was freed, and  *)
(* once disconnect() has returned it is gone: no callback follows          *)
(* (redis_client.cpp:84 join before redisFree).                            *)
WorkerHasContext ==
    /\ worker = "get" => sub # "null"
    /\ owner = "idle" /\ ~connected => worker = "none"

(* A message goes to the callback of the subscription it was received for, *)
(* over any number of reconnections, although message_callback_ is assigned*)
(* without a lock (redis_client.cpp:211).  The one exception is the window *)
(* in a second subscribe() between its assignments and the end of the      *)
(* process: there the callback may be given the previous one's message.    *)
OwnCallback ==
    worker = "call" =>
        reply = callback \/ (owner = "resubscribe" /\ reply = callback - 1)

(* Between calls the client holds the contexts it can reach and no other,  *)
(* whichever step of connect() failed (redis_client.cpp:49-72).            *)
NoLeakedContext ==
    owner = "idle" =>
        contexts = (IF ctx = "null" THEN 0 ELSE 1) + (IF sub = "null" THEN 0 ELSE 1)

(* disconnect() comes back once a message arrives or the connection is     *)
(* lost; until then it waits for the thread (redis_client.cpp:84-86).      *)
DisconnectReturns ==
    (owner = "join" /\ (inbox # << >> \/ sub = "err"))
        ~> (owner = "idle" \/ ~alive)

(* While commands wait for context_mutex_ one of them gets it, unless a    *)
(* connect() has it, although the owner may wait for the subscription      *)
(* thread for ever: disconnect() asks for the mutex only after the join    *)
(* (redis_client.cpp:84-88,281).                                           *)
CommandsAreServed ==
    (\E u \in User : user[u] = "lock")
        ~> (~alive \/ Connecting \/ \E u \in User : user[u] = "wait")
=============================================================================
