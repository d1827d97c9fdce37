---------------------------- MODULE MessageFlow -----------------------------
(***************************************************************************)
(* The way of a chat line through the server: the read handler of its      *)
(* sender saves it and hands it, under sessions_mutex_, to the sessions    *)
(* of the recipients (src/server/session.cpp, src/server/server.cpp); each *)
(* session has a write queue of which one message is being written at a    *)
(* time, under write_mutex_.                                               *)
(*                                                                         *)
(* The handlers of different sessions run on different workers and         *)
(* interleave; the lines of one session are handled one after the other.   *)
(* ChatServer has the registry; here a session comes in and goes once.     *)
(***************************************************************************)
EXTENDS Naturals, Sequences, FiniteSets, SequencesExt, Filter

CONSTANTS
    Session, NoSession,
    Lines,        \* bound: lines the peer of each session sends
    Private,      \* the sessions of which they may be private messages
    InsertFails   \* bound: the sessions of whose lines an insertion may fail

ASSUME FlowAssumption ==
    /\ NoSession \notin Session
    /\ Lines \in [Session -> Nat]
    /\ Private \subseteq Session
    /\ InsertFails \subseteq Session

VARIABLES
    pc,         \* per session, where its read handler is
    line,       \* the line it handles
    out,        \* what it has still to hand over, and to whom
    holder,     \* sessions_mutex_
    member,     \* sessions_by_username_
    gone,       \* sessions that were removed
    queue,      \* write_queue_
    writing,    \* async_write operations outstanding
    broken,     \* sessions of which a write failed
    delivered,  \* what the peer received
    saved,      \* table messages
    lost,       \* history: lines of which the insertion failed
    log, start  \* history: broadcasts in the order of their fan-out, and
                \* where in it each session came in

vars == <<pc, line, out, holder, member, gone, queue, writing, broken,
          delivered, saved, lost, log, start>>

LineNo == UNION {1 .. Lines[s] : s \in Session}
Broadcast == [kind : {"say"}, from : Session, line : LineNo]
PrivateText == [kind : {"private"}, from : Session, line : LineNo, to : Session]
Answer == [kind : {"sent", "offline"}, to : Session]
Message == Broadcast \cup PrivateText \cup Answer
NoLine == [kind |-> "none"]

(* The lines that saveMessage was called with.                             *)
Tried == saved \cup lost

(* How many lines of session s were handled.                               *)
Count(s) == Cardinality({m \in Tried : m.from = s})

TypeOK ==
    /\ pc \in [Session -> {"idle", "save", "lock", "send"}]
    /\ line \in [Session -> Broadcast \cup PrivateText \cup {NoLine}]
    /\ out \in [Session -> Seq(Session \X Message)]
    /\ holder \in Session \cup {NoSession}
    /\ member \subseteq Session
    /\ gone \subseteq Session \ member
    /\ queue \in [Session -> Seq(Message)]
    /\ writing \in [Session -> 0 .. 1]
    /\ broken \subseteq Session
    /\ delivered \in [Session -> Seq(Message)]
    /\ saved \subseteq Broadcast \cup PrivateText
    /\ lost \subseteq Broadcast \cup PrivateText
    /\ log \in Seq(Broadcast)
    /\ start \in [Session -> Nat]

Init ==
    /\ pc = [s \in Session |-> "idle"]
    /\ line = [s \in Session |-> NoLine]
    /\ out = [s \in Session |-> << >>]
    /\ holder = NoSession
    /\ member = {}
    /\ gone = {}
    /\ queue = [s \in Session |-> << >>]
    /\ writing = [s \in Session |-> 0]
    /\ broken = {}
    /\ delivered = [s \in Session |-> << >>]
    /\ saved = {}
    /\ lost = {}
    /\ log = << >>
    /\ start = [s \in Session |-> 0]

-----------------------------------------------------------------------------
(* Mutant: a write is started for every message.                           *)
PushAndWrite(r, m) ==
    /\ queue' = [queue EXCEPT ![r] = Append(@, m)]
    /\ writing' = [writing EXCEPT ![r] = @ + 1]

(* sendMessage: a write is started only when none is in progress.          *)
Push(r, m) ==
    /\ queue' = [queue EXCEPT ![r] = Append(@, m)]
    /\ writing' = [writing EXCEPT ![r] = IF queue[r] = << >> THEN @ + 1 ELSE @]

(* Mutant: the queue is popped but the next write is not started.          *)
WriteDoneStops(r) ==
    /\ r \notin gone
    /\ writing[r] > 0
    /\ delivered' = [delivered EXCEPT ![r] = Append(@, Head(queue[r]))]
    /\ queue' = [queue EXCEPT ![r] = Tail(@)]
    /\ writing' = [writing EXCEPT ![r] = @ - 1]
    /\ UNCHANGED <<pc, line, out, holder, member, gone, broken, saved, lost, log,
                   start>>

(* handleWrite without error: the front is what was written.  A write that *)
(* is overtaken by the closing of the socket counts as done before it.     *)
WriteDone(r) ==
    /\ r \notin gone
    /\ writing[r] > 0
    /\ delivered' = [delivered EXCEPT ![r] = Append(@, Head(queue[r]))]
    /\ queue' = [queue EXCEPT ![r] = Tail(@)]
    /\ writing' = [writing EXCEPT ![r] = IF Tail(queue[r]) = << >> THEN @ - 1
                                         ELSE @]
    /\ UNCHANGED <<pc, line, out, holder, member, gone, broken, saved, lost, log,
                   start>>

(* handleWrite with an error: the front stays, so no write is ever started *)
(* again; removeSession follows (Leave).                                   *)
WriteFails(r) ==
    /\ writing[r] > 0
    /\ writing' = [writing EXCEPT ![r] = @ - 1]
    /\ broken' = broken \cup {r}
    /\ UNCHANGED <<pc, line, out, holder, member, gone, queue, delivered, saved, lost,
                   log, start>>

(* addSession, at the end of the login: the session is in the map.         *)
ComeIn(s) ==
    /\ s \notin member \cup gone
    /\ holder = NoSession
    /\ member' = member \cup {s}
    /\ start' = [start EXCEPT ![s] = Len(log) + 1]
    /\ UNCHANGED <<pc, line, out, holder, gone, broken, queue, writing,
                   delivered, saved, lost, log>>

(* removeSession: the session leaves the map and its socket is closed; its *)
(* read handler may be under way when a failed write is the reason.        *)
Leave(s) ==
    /\ s \in member
    /\ holder = NoSession
    /\ member' = member \ {s}
    /\ gone' = gone \cup {s}
    /\ UNCHANGED <<pc, line, out, holder, broken, queue, writing, delivered,
                   saved, lost, log, start>>

(* handleRead: the peer's next line, a broadcast or a private message.  A  *)
(* session that a failed write or the signal removed still has lines in its*)
(* read buffer, and they are handled all the same.                         *)
ReadLine(s) ==
    /\ s \in member \cup gone
    /\ pc[s] = "idle"
    /\ Count(s) < Lines[s]
    /\ pc' = [pc EXCEPT ![s] = "save"]
    /\ \/ line' = [line EXCEPT ![s] = [kind |-> "say", from |-> s,
                                       line |-> Count(s) + 1]]
       \/ /\ s \in Private
          /\ \E to \in Session :
                line' = [line EXCEPT ![s] =
                           [kind |-> "private", from |-> s,
                            line |-> Count(s) + 1, to |-> to]]
    /\ UNCHANGED <<out, holder, member, gone, broken, queue, writing,
                   delivered, saved, lost, log, start>>

(* Mutant: the line is handed over without being saved first.              *)
SaveLater(s) ==
    /\ pc[s] = "save"
    /\ pc' = [pc EXCEPT ![s] = "lock"]
    /\ UNCHANGED <<line, out, holder, member, gone, broken, queue, writing,
                   delivered, saved, lost, log, start>>

(* saveMessage: the statement can fail, and nobody looks at the answer.    *)
Save(s) ==
    /\ pc[s] = "save"
    /\ \/ saved' = saved \cup {line[s]} /\ UNCHANGED lost
       \/ s \in InsertFails /\ lost' = lost \cup {line[s]} /\ UNCHANGED saved
    /\ pc' = [pc EXCEPT ![s] = "lock"]
    /\ UNCHANGED <<line, out, holder, member, gone, broken, queue, writing,
                   delivered, log, start>>

(* Mutant: the sender is not excluded.                                     *)
FanOutToAll(s) ==
    /\ line[s].kind = "say"
    /\ \E order \in SetToSeqs(member) :
          out' = [out EXCEPT ![s] =
                    [i \in DOMAIN order |-> <<order[i], line[s]>>]]
    /\ log' = Append(log, line[s])

(* broadcastMessage: everybody in the map but the sender, in the order of  *)
(* the hash map.                                                           *)
FanOut(s) ==
    /\ line[s].kind = "say"
    /\ \E order \in SetToSeqs(member \ {s}) :
          out' = [out EXCEPT ![s] =
                    [i \in DOMAIN order |-> <<order[i], line[s]>>]]
    /\ log' = Append(log, line[s])

(* Mutant: the confirmation does not depend on the recipient being online. *)
DirectAlways(s) ==
    LET to == line[s].to
        answer(kind) == <<s, [kind |-> kind, to |-> to]>>
    IN /\ line[s].kind = "private"
       /\ out' = [out EXCEPT ![s] = IF to \in member
                                    THEN <<<<to, line[s]>>, answer("sent")>>
                                    ELSE <<answer("sent")>>]
       /\ UNCHANGED log

(* sendPrivateMessage: the recipient and then a confirmation, or an error. *)
Direct(s) ==
    LET to == line[s].to
        answer(kind) == <<s, [kind |-> kind, to |-> to]>>
    IN /\ line[s].kind = "private"
       /\ out' = [out EXCEPT ![s] = IF to \in member
                                    THEN <<<<to, line[s]>>, answer("sent")>>
                                    ELSE <<answer("offline")>>]
       /\ UNCHANGED log

Lock(s) ==
    /\ pc[s] = "lock"
    /\ holder = NoSession
    /\ holder' = s
    /\ pc' = [pc EXCEPT ![s] = "send"]
    /\ FanOut(s) \/ Direct(s)
    /\ UNCHANGED <<line, member, gone, broken, queue, writing, delivered,
                   saved, lost, start>>

(* One turn of the loop.                                                   *)
Send(s) ==
    /\ pc[s] = "send"
    /\ out[s] # << >>
    /\ Push(Head(out[s])[1], Head(out[s])[2])
    /\ out' = [out EXCEPT ![s] = Tail(@)]
    /\ UNCHANGED <<pc, line, holder, member, gone, broken, delivered, saved, lost,
                   log, start>>

(* The lock is released and the next read started.                         *)
Done(s) ==
    /\ pc[s] = "send"
    /\ out[s] = << >>
    /\ holder' = NoSession
    /\ pc' = [pc EXCEPT ![s] = "idle"]
    /\ line' = [line EXCEPT ![s] = NoLine]
    /\ UNCHANGED <<out, member, gone, broken, queue, writing, delivered, saved, lost,
                   log, start>>

-----------------------------------------------------------------------------
Handler(s) == Save(s) \/ Lock(s) \/ Send(s) \/ Done(s)

Next ==
    \E s \in Session :
        ComeIn(s) \/ Leave(s) \/ ReadLine(s) \/ Handler(s)
        \/ WriteDone(s) \/ WriteFails(s)

Spec == Init /\ [][Next]_vars

(* The workers run handlers that are ready, a free mutex is granted, and   *)
(* the peers read what is written to them.                                 *)
Fairness ==
    \A s \in Session :
        /\ WF_vars(Save(s)) /\ WF_vars(Lock(s))
        /\ WF_vars(Send(s)) /\ WF_vars(Done(s))
        /\ WF_vars(WriteDone(s))

FairSpec == Spec /\ Fairness

-----------------------------------------------------------------------------
(* At most one async_write per session is outstanding, and one is exactly  *)
(* when something is queued and none has failed: overlapping writes would  *)
(* mix two messages on the wire, a queue without a write would never be    *)
(* sent (session.cpp:271-299).                                             *)
OneWrite ==
    \A s \in Session :
        writing[s] = IF queue[s] = << >> \/ s \in broken THEN 0 ELSE 1

(* What a peer sees is in the message table already, unless its insertion  *)
(* failed: it is never handed over with the insertion still to come        *)
(* (session.cpp:245,248 and 262,266).                                      *)
SavedBeforeSeen ==
    \A s \in Session : \A i \in DOMAIN delivered[s] :
        "line" \in DOMAIN delivered[s][i] => delivered[s][i] \in Tried

(* A private text reaches its recipient only, and its sender is told       *)
(* "sent" no more often than the recipient's queue was given a text        *)
(* (server.cpp:211-221).                                                   *)
Given(s) == delivered[s] \o queue[s]
Texts(s) == [kind : {"private"}, from : {s}, line : LineNo, to : Session]
Confirmations(to) == [kind : {"sent"}, to : {to}]
PrivateIsPrivate ==
    \A s, to \in Session :
        /\ Len(Only(Given(s), Confirmations(to))) <= Len(Only(Given(to), Texts(s)))
        /\ \A i \in DOMAIN delivered[s] :
              delivered[s][i].kind = "private" => delivered[s][i].to = s

(* Broadcasting keeps the promise of ChatRoom.                             *)
Heard(s) == Only(delivered[s], Broadcast)
Room == INSTANCE ChatRoom WITH Line <- LineNo,
                               heard <- [s \in Session |-> Heard(s)]
RoomSpec == Room!Spec

(* What is said while a session is in the room it does hear, unless it     *)
(* leaves or breaks: no message stays in a queue (session.cpp:284-294).    *)
EverybodyHears ==
    \A s \in Session : \A from \in Session \ {s} : \A n \in 1 .. Lines[from] :
        LET m == [kind |-> "say", from |-> from, line |-> n]
        IN Contains(Room!Stream(s), m)
             ~> Contains(Heard(s), m) \/ s \in gone \cup broken
=============================================================================
