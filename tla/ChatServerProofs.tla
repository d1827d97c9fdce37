-------------------------- MODULE ChatServerProofs --------------------------
(***************************************************************************)
(* Proofs about ChatServer, for every set of workers, sessions and users,  *)
(* every bound and either kind of mutex.                                   *)
(***************************************************************************)
EXTENDS ChatServer, TLAPS

(* Where the handlers of a line can be, logged in or not, and removal.     *)
LoginPC == {"checkOnline", "createSession", "publish"}
AuthPC == {"addSession", "listAdd", "welcome", "broadcast", "private", "users",
           "usersReply"}
RemovePC == {"remove", "listRemove"}

(* What a frame says of the session it works for.                          *)
GoodFrame(f) ==
    /\ f \in Frame
    /\ f.pc = "idle" => f = Idle
    /\ f.pc = "sweep" => f.s = NoSession /\ f.via = "none"
    /\ f.pc \notin {"idle", "sweep"} => f.s \in Session
    /\ f.pc \in LoginPC \cup AuthPC \cup {"createUser"} => f.via = "read"
    /\ f.pc \in RemovePC => f.via # "none"
    /\ f.pc \in LoginPC \cup {"createUser", "private"} => f.u \in User

FrameInv == \A t \in Worker : GoodFrame(frame[t])

(* sessions_mutex_ is held exactly between the two locks.                  *)
MutexInv ==
    \A t \in Worker : frame[t].pc \in {"listAdd", "listRemove"} <=> holder = t

ShapeInv == TypeOK /\ FrameInv /\ MutexInv

-----------------------------------------------------------------------------
(* Types and frames *)

LEMMA CallType ==
    ASSUME NEW p \in PC, NEW s \in Session \cup {NoSession},
           NEW u \in User \cup {NoUser}, NEW v \in Via
    PROVE  Call(p, s, u, v) \in Frame
BY DEF Call, Frame

LEMMA IdleType == Idle \in Frame /\ Idle.pc = "idle" /\ Idle.s = NoSession
                  /\ Idle.via = "none"
BY DEF Idle, Call, Frame, PC, Via

LEMMA PushType ==
    ASSUME NEW S, TypeOK, Push(S)
    PROVE  writer' \in [Session -> WriterState]
BY DEF TypeOK, Push, WriterState

(* Going on in a handler changes nothing but the place it is at.           *)
LEMMA GotoFrame ==
    ASSUME NEW t \in Worker, NEW p \in PC, TypeOK, Goto(t, p)
    PROVE  /\ frame' \in [Worker -> Frame]
           /\ frame'[t].pc = p /\ frame'[t].s = frame[t].s
           /\ frame'[t].u = frame[t].u /\ frame'[t].via = frame[t].via
           /\ \A t2 \in Worker \ {t} : frame'[t2] = frame[t2]
BY DEF TypeOK, Goto, Frame

LEMMA ReturnFrame ==
    ASSUME NEW t \in Worker, TypeOK, Return(t)
    PROVE  /\ frame' \in [Worker -> Frame]
           /\ frame'[t] = Idle
           /\ \A t2 \in Worker \ {t} : frame'[t2] = frame[t2]
BY IdleType DEF TypeOK, Return

(* What deleteSession does to the rows not yet given up.                   *)
LEMMA DeletedOrKept ==
    ASSUME NEW S, DeleteRows(S)
    PROVE  /\ rows' \subseteq rows
           /\ kept' \subseteq rows'
           /\ rows' \ kept' \subseteq rows \ kept
           /\ \A s \in S : <<s, token[s]>> \notin rows' \ kept'
BY DEF DeleteRows

LEMMA TypeHandler ==
    ASSUME TypeOK, FrameInv, NEW t \in Worker, HandlerStep(t)
    PROVE  TypeOK'
<1> USE PushType, GotoFrame, ReturnFrame DEF TypeOK, PC, ReturnAndRead
<1>0. frame[t] \in Frame
  BY DEF TypeOK
<1>1. CASE CheckOnline(t)
  BY <1>1 DEF CheckOnline
<1>2. CASE CreateSession(t)
  <2>1. frame[t].s \in Session
    BY <1>2 DEF CreateSession, At, FrameInv, GoodFrame
  <2>2. token' \in [Session -> Nat] /\ rows' \subseteq Session \X Nat
    BY <1>2, <2>1 DEF CreateSession
  <2> QED BY <1>2, <2>2 DEF CreateSession
<1>3. CASE Publish(t)
  BY <1>0, <1>3 DEF Publish, Frame
<1>4. CASE AddSession(t)
  <2>1. frame[t].s \in Session
    BY <1>4 DEF AddSession, At, FrameInv, GoodFrame, AuthPC
  <2> QED BY <1>4, <2>1 DEF AddSession
<1>5. CASE ListAdd(t)
  BY <1>5 DEF ListAdd, SendUserList, Online
<1>6. CASE Welcome(t)
  BY <1>6 DEF Welcome
<1>7. CASE CreateUser(t)
  <2>1. frame[t].u \in User
    BY <1>7 DEF CreateUser, At, FrameInv, GoodFrame
  <2> QED BY <1>7, <2>1 DEF CreateUser
<1>8. CASE Broadcast(t)
  BY <1>8 DEF Broadcast
<1>9. CASE Private(t)
  BY <1>9 DEF Private
<1>10. CASE Users(t)
  BY <1>0, <1>10 DEF Users, Frame, Online
<1>11. CASE UsersReply(t)
  BY <1>0, <1>11 DEF UsersReply, Frame
<1>12. CASE RemoveNameless(t)
  BY <1>12, DeletedOrKept DEF RemoveNameless, StopSession, AfterRemove, SockState
<1>13. CASE Remove(t)
  BY <1>13 DEF Remove
<1>14. CASE ListRemove(t)
  BY <1>14, DeletedOrKept DEF ListRemove, StopSession, AfterRemove, SockState, SendUserList, Online
<1>15. CASE StopSweep(t)
  BY <1>15, DeletedOrKept DEF StopSweep, SockState
<1> QED
  BY <1>1, <1>2, <1>3, <1>4, <1>5, <1>6, <1>7, <1>8, <1>9, <1>10, <1>11, <1>12,
     <1>13, <1>14, <1>15 DEF HandlerStep

(* The frames that a completion puts on an idle worker.                    *)
LEMMA NewFrames ==
    ASSUME NEW s \in Session
    PROVE  /\ GoodFrame(Call("remove", s, NoUser, "readError"))
           /\ GoodFrame(Call("remove", s, NoUser, "writeError"))
           /\ GoodFrame(Call("remove", s, NoUser, "read"))
           /\ GoodFrame(Call("broadcast", s, NoUser, "read"))
           /\ GoodFrame(Call("users", s, NoUser, "read"))
           /\ GoodFrame(Call("sweep", NoSession, NoUser, "none"))
           /\ \A u \in User : /\ GoodFrame(Call("checkOnline", s, u, "read"))
                             /\ GoodFrame(Call("createUser", s, u, "read"))
                             /\ GoodFrame(Call("private", s, u, "read"))
BY CallType DEF GoodFrame, Call, LoginPC, AuthPC, RemovePC, PC, Via

LEMMA TypeNetwork ==
    ASSUME TypeOK, NEW t \in Worker, NEW s \in Session, Network(t, s)
    PROVE  TypeOK'
<1> USE NewFrames DEF TypeOK, GoodFrame
<1>1. CASE Accept(t, s) \/ HandshakeDone(t, s) \/ HandshakeFails(t, s)
  BY <1>1 DEF Accept, HandshakeDone, HandshakeFails, SockState
<1>2. CASE ReadFails(t, s)
  BY <1>2 DEF ReadFails
<1>3. CASE WriteDone(t, s) \/ WriteFails(t, s)
  BY <1>3 DEF WriteDone, WriteFails, WriterState
<1> QED
  BY <1>1, <1>2, <1>3 DEF Network

(* A line is dispatched with one budget less and a good frame.             *)
LEMMA TypeDispatch ==
    ASSUME TypeOK, NEW t \in Worker, NEW s \in Session, NEW f \in Frame,
           Dispatch(t, s, f), auth' \in [Session -> BOOLEAN]
    PROVE  TypeOK'
<1>1. lines[s] - 1 \in Nat
  BY ConstantsAssumption DEF TypeOK, Dispatch
<1>2. lines' \in [Session -> Nat]
  BY <1>1 DEF TypeOK, Dispatch
<1> QED
  BY <1>2 DEF TypeOK, Dispatch

LEMMA TypeLine ==
    ASSUME TypeOK, NEW t \in Worker, NEW s \in Session, Line(t, s)
    PROVE  TypeOK'
<1> USE NewFrames, TypeDispatch DEF GoodFrame
<1>1. CASE RefusedLine(t, s)
  <2>1. lines[s] - 1 \in Nat
    BY <1>1, ConstantsAssumption DEF TypeOK, RefusedLine
  <2>2. lines' \in [Session -> Nat]
    BY <1>1, <2>1 DEF TypeOK, RefusedLine
  <2> QED BY <1>1, <2>2, PushType DEF RefusedLine, TypeOK
<1>2. ASSUME NEW u \in User,
             LoginLine(t, s, u) \/ RegisterLine(t, s, u) \/ PrivateLine(t, s, u)
      PROVE  TypeOK'
  <2>1. auth' \in [Session -> BOOLEAN]
    BY <1>2 DEF TypeOK, LoginLine, RegisterLine, PrivateLine
  <2> QED BY <1>2, <2>1 DEF LoginLine, RegisterLine, PrivateLine
<1>3. CASE BroadcastLine(t, s) \/ UsersLine(t, s) \/ LogoutLine(t, s)
  <2>1. auth' \in [Session -> BOOLEAN]
    BY <1>3 DEF TypeOK, BroadcastLine, UsersLine, LogoutLine
  <2> QED BY <1>3, <2>1 DEF BroadcastLine, UsersLine, LogoutLine
<1> QED
  BY <1>1, <1>2, <1>3 DEF Line

LEMMA TypeStep == TypeOK /\ FrameInv /\ [Next]_vars => TypeOK'
<1> SUFFICES ASSUME TypeOK, FrameInv, [Next]_vars PROVE TypeOK'
  OBVIOUS
<1>1. ASSUME NEW t \in Worker, StopBegin(t) PROVE TypeOK'
  BY <1>1, CallType DEF TypeOK, StopBegin, PC, Via
<1>2. ASSUME NEW s \in Session, PeerCloses(s) PROVE TypeOK'
  BY <1>2 DEF TypeOK, PeerCloses, SockState
<1>3. CASE UNCHANGED vars
  BY <1>3 DEF TypeOK, vars
<1> QED
  BY <1>1, <1>2, <1>3, TypeHandler, TypeLine, TypeNetwork DEF Next, Terminated

(* A step that changes at most one frame, into a good one, keeps FrameInv. *)
LEMMA OneFrame ==
    ASSUME FrameInv, NEW t \in Worker, GoodFrame(frame'[t]),
           \A t2 \in Worker \ {t} : frame'[t2] = frame[t2]
    PROVE  FrameInv'
BY DEF FrameInv, GoodFrame

LEMMA FrameStep == TypeOK /\ FrameInv /\ [Next]_vars => FrameInv'
<1> SUFFICES ASSUME TypeOK, FrameInv, [Next]_vars PROVE FrameInv'
  OBVIOUS
<1> USE DEF Dispatch
<1>1. ASSUME NEW t \in Worker, HandlerStep(t) PROVE FrameInv'
  <2>0. GoodFrame(frame[t]) /\ GoodFrame(Idle)
    BY IdleType DEF FrameInv, GoodFrame, LoginPC, AuthPC, RemovePC
  <2>1. CASE Return(t)
    BY <2>0, <2>1, ReturnFrame, OneFrame
  <2>2. ASSUME NEW p \in PC, Goto(t, p),
               \/ frame[t].pc \in LoginPC /\ p \in {"createSession", "publish", "addSession"}
               \/ frame[t].pc \in AuthPC /\ p \in {"listAdd", "welcome"}
               \/ frame[t].pc = "remove" /\ p = "listRemove"
        PROVE FrameInv'
    <3>1. GoodFrame(frame'[t])
      BY <2>0, <2>2, GotoFrame DEF GoodFrame, LoginPC, AuthPC, RemovePC, TypeOK
    <3> QED BY <2>2, <3>1, GotoFrame, OneFrame
  <2>3. CASE Users(t)
    <3>1. /\ GoodFrame(frame'[t])
          /\ \A t2 \in Worker \ {t} : frame'[t2] = frame[t2]
      BY <2>0, <2>3 DEF Users, At, GoodFrame, Frame, LoginPC, AuthPC, RemovePC, TypeOK, PC, Online
    <3> QED BY <3>1, OneFrame
  <2>4. CASE CheckOnline(t) \/ CreateSession(t) \/ Publish(t)
    BY <2>1, <2>2, <2>4 DEF CheckOnline, CreateSession, Publish, At, LoginPC, PC,
       ReturnAndRead
  <2>5. CASE AddSession(t) \/ ListAdd(t)
    BY <2>2, <2>5 DEF AddSession, ListAdd, At, AuthPC, PC
  <2>6. CASE Remove(t)
    BY <2>2, <2>6 DEF Remove, At, PC
  <2>7. CASE Welcome(t) \/ CreateUser(t) \/ Broadcast(t) \/ Private(t) \/ UsersReply(t)
    BY <2>1, <2>7 DEF Welcome, CreateUser, Broadcast, Private, UsersReply, ReturnAndRead
  <2>8. CASE RemoveNameless(t) \/ ListRemove(t) \/ StopSweep(t)
    BY <2>1, <2>8 DEF RemoveNameless, ListRemove, StopSweep, AfterRemove
  <2> QED
    BY <1>1, <2>3, <2>4, <2>5, <2>6, <2>7, <2>8 DEF HandlerStep
<1>2. ASSUME NEW t \in Worker, NEW f, GoodFrame(f), frame' = [frame EXCEPT ![t] = f]
      PROVE FrameInv'
  BY <1>2, OneFrame DEF TypeOK
<1>3. ASSUME NEW t \in Worker, NEW s \in Session, Network(t, s) PROVE FrameInv'
  <2>1. GoodFrame(Call("remove", s, NoUser, "readError"))
        /\ GoodFrame(Call("remove", s, NoUser, "writeError"))
    BY CallType DEF GoodFrame, Call, LoginPC, AuthPC, RemovePC, PC, Via
  <2>2. CASE UNCHANGED frame
    BY <2>2 DEF FrameInv
  <2> QED
    BY <1>2, <1>3, <2>1, <2>2 DEF Network, Accept, HandshakeDone, HandshakeFails,
       ReadFails, WriteDone, WriteFails
<1>4. ASSUME NEW t \in Worker, NEW s \in Session, Line(t, s) PROVE FrameInv'
  <2>1. \A u \in User : /\ GoodFrame(Call("checkOnline", s, u, "read"))
                        /\ GoodFrame(Call("createUser", s, u, "read"))
                        /\ GoodFrame(Call("private", s, u, "read"))
    BY CallType DEF GoodFrame, Call, LoginPC, AuthPC, RemovePC, PC, Via
  <2>2. /\ GoodFrame(Call("broadcast", s, NoUser, "read"))
        /\ GoodFrame(Call("users", s, NoUser, "read"))
        /\ GoodFrame(Call("remove", s, NoUser, "read"))
    BY CallType DEF GoodFrame, Call, LoginPC, AuthPC, RemovePC, PC, Via
  <2>3. CASE UNCHANGED frame
    BY <2>3 DEF FrameInv
  <2> QED
    BY <1>2, <1>4, <2>1, <2>2, <2>3 DEF Line, RefusedLine, LoginLine, RegisterLine,
       PrivateLine, BroadcastLine, UsersLine, LogoutLine
<1>5. ASSUME NEW t \in Worker, StopBegin(t) PROVE FrameInv'
  <2>1. GoodFrame(Call("sweep", NoSession, NoUser, "none"))
    BY CallType DEF GoodFrame, Call, LoginPC, AuthPC, RemovePC, PC, Via
  <2> QED BY <1>2, <1>5, <2>1 DEF StopBegin
<1>6. CASE UNCHANGED frame
  BY <1>6 DEF FrameInv
<1> QED
  BY <1>1, <1>3, <1>4, <1>5, <1>6 DEF Next, PeerCloses, Terminated, vars

LEMMA ShapeInit == Init => TypeOK /\ FrameInv /\ MutexInv
<1> SUFFICES ASSUME Init PROVE TypeOK /\ FrameInv /\ MutexInv
  OBVIOUS
<1>1. GoodFrame(Idle)
  BY IdleType DEF GoodFrame, LoginPC, AuthPC, RemovePC
<1>2. TypeOK
  BY ConstantsAssumption, IdleType DEF Init, TypeOK, SockState, WriterState
<1> QED
  BY <1>1, <1>2, IdleType, ConstantsAssumption DEF Init, FrameInv, MutexInv

-----------------------------------------------------------------------------
(* The mutex *)

(* Only the holder is between the two locks: a step keeps this.            *)
LEMMA MutexStep == TypeOK /\ FrameInv /\ MutexInv /\ [Next]_vars => MutexInv'
<1> SUFFICES ASSUME TypeOK, FrameInv, MutexInv, [Next]_vars PROVE MutexInv'
  OBVIOUS
<1>1. ASSUME NEW t \in Worker, UNCHANGED holder,
             frame[t].pc \notin {"listAdd", "listRemove"},
             frame'[t].pc \notin {"listAdd", "listRemove"},
             \A t2 \in Worker \ {t} : frame'[t2] = frame[t2]
      PROVE  MutexInv'
  BY <1>1 DEF MutexInv
<1>2. ASSUME NEW t \in Worker, HandlerStep(t) PROVE MutexInv'
  <2>1. CASE Return(t) /\ UNCHANGED holder
             /\ frame[t].pc \notin {"listAdd", "listRemove"}
    BY <1>1, <2>1, ReturnFrame, IdleType
  <2>2. CASE CheckOnline(t) \/ CreateSession(t) \/ Publish(t)
    BY <1>1, <2>1, <2>2, GotoFrame DEF CheckOnline, CreateSession, Publish, At,
       ReturnAndRead, PC
  <2>3. CASE AddSession(t) \/ Remove(t)
    BY <2>3, GotoFrame, ConstantsAssumption DEF AddSession, Remove, At, MutexInv, CanLock, PC
  <2>4. CASE ListAdd(t)
    BY <2>4, GotoFrame, ConstantsAssumption DEF ListAdd, SendUserList, At, MutexInv, CanLock, PC
  <2>5. CASE ListRemove(t)
    BY <2>5, ReturnFrame, IdleType, ConstantsAssumption DEF ListRemove, SendUserList,
       AfterRemove, At, MutexInv, CanLock
  <2>6. CASE Users(t)
    BY <2>6, <1>1 DEF Users, At, TypeOK, Frame
  <2>7. CASE Welcome(t) \/ CreateUser(t) \/ Broadcast(t) \/ Private(t) \/ UsersReply(t)
    BY <2>1, <2>7 DEF Welcome, CreateUser, Broadcast, Private, UsersReply, At,
       ReturnAndRead
  <2>8. CASE RemoveNameless(t) \/ StopSweep(t)
    BY <2>1, <2>8 DEF RemoveNameless, StopSweep, At, AfterRemove
  <2> QED
    BY <1>2, <2>2, <2>3, <2>4, <2>5, <2>6, <2>7, <2>8 DEF HandlerStep
<1>3. ASSUME NEW t \in Worker, NEW f, f.pc \notin {"listAdd", "listRemove"},
             frame[t] = Idle, UNCHANGED holder, frame' = [frame EXCEPT ![t] = f]
      PROVE  MutexInv'
  <2>1. frame'[t] = f /\ \A t2 \in Worker \ {t} : frame'[t2] = frame[t2]
    BY <1>3 DEF TypeOK
  <2> QED BY <1>1, <1>3, <2>1, IdleType
<1>4. ASSUME NEW t \in Worker, NEW s \in Session, Network(t, s) PROVE MutexInv'
  <2>1. CASE ReadFails(t, s)
    BY <1>3, <2>1 DEF ReadFails, Call
  <2>2. CASE WriteFails(t, s)
    BY <1>3, <2>2 DEF WriteFails, Call
  <2> QED
    BY <1>4, <2>1, <2>2 DEF Network, Accept, HandshakeDone, HandshakeFails,
       WriteDone, MutexInv
<1>5. ASSUME NEW t \in Worker, NEW s \in Session, Line(t, s) PROVE MutexInv'
  <2>1. ASSUME NEW p \in {"checkOnline", "createUser", "private", "broadcast",
                          "users", "remove"},
               NEW u \in User \cup {NoUser}, Dispatch(t, s, Call(p, s, u, "read"))
        PROVE  MutexInv'
    BY <1>3, <2>1 DEF Dispatch, Call
  <2>2. CASE RefusedLine(t, s)
    BY <2>2 DEF RefusedLine, MutexInv
  <2> QED
    BY <1>5, <2>1, <2>2 DEF Line, LoginLine, RegisterLine, PrivateLine,
       BroadcastLine, UsersLine, LogoutLine
<1>6. ASSUME NEW t \in Worker, StopBegin(t) PROVE MutexInv'
  BY <1>3, <1>6 DEF StopBegin, Call
<1>7. CASE UNCHANGED <<frame, holder>>
  BY <1>7 DEF MutexInv
<1> QED
  BY <1>2, <1>4, <1>5, <1>6, <1>7 DEF Next, PeerCloses, Terminated, vars

(* ShapeInv is inductive: types, frames and the mutex.                     *)
LEMMA ShapeAlways == Spec => []ShapeInv
<1>1. Init => ShapeInv
  BY ShapeInit DEF ShapeInv
<1>2. ShapeInv /\ [Next]_vars => ShapeInv'
  BY TypeStep, FrameStep, MutexStep DEF ShapeInv
<1> QED
  BY <1>1, <1>2, PTL DEF Spec

(* Type correctness, for every instance.                                   *)
THEOREM TypeCorrect == Spec => []TypeOK
<1>1. ShapeInv => TypeOK
  BY DEF ShapeInv
<1> QED
  BY <1>1, ShapeAlways, PTL

-----------------------------------------------------------------------------
(* Reading: every step is of one of six kinds for frame and reading.       *)

Others(t) == \A t2 \in Worker \ {t} : frame'[t2] = frame[t2]

(* A worker takes the outstanding read of s,                               *)
Take(t, s) ==
    /\ frame[t] = Idle
    /\ reading[s]
    /\ reading' = [reading EXCEPT ![s] = FALSE]
    /\ frame'[t].s = s
    /\ frame'[t].via \in {"read", "readError"}
    /\ Others(t)

(* goes on in the handler it is in,                                        *)
Keep(t) ==
    /\ frame'[t].s = frame[t].s
    /\ frame'[t].via = frame[t].via
    /\ Others(t)
    /\ UNCHANGED reading

(* ends it with startRead,                                                 *)
Resume(t) ==
    /\ frame[t].s \in Session
    /\ frame[t].via = "read"
    /\ frame'[t] = Idle
    /\ reading' = [reading EXCEPT ![frame[t].s] = TRUE]
    /\ Others(t)

(* ends it without,                                                        *)
Leave(t) ==
    /\ frame[t].via # "read"
    /\ RemoveNameless(t) \/ ListRemove(t) \/ StopSweep(t)
    /\ frame'[t] = Idle
    /\ Others(t)
    /\ UNCHANGED reading

(* enters one that reads nothing,                                          *)
Enter(t) ==
    /\ frame[t] = Idle
    /\ frame'[t].via \in {"writeError", "none"}
    /\ frame'[t].s = NoSession \/ sock[frame'[t].s] \in {"gone", "closed"}
    /\ Others(t)
    /\ UNCHANGED reading

(* or starts the first read.                                               *)
Connect(s) ==
    /\ sock[s] = "handshake"
    /\ sock' = [sock EXCEPT ![s] = "open"]
    /\ reading' = [reading EXCEPT ![s] = TRUE]
    /\ UNCHANGED frame

LEMMA KindHandler ==
    ASSUME ShapeInv, NEW t \in Worker, HandlerStep(t)
    PROVE  Keep(t) \/ Resume(t) \/ Leave(t)
<1>0. TypeOK /\ GoodFrame(frame[t])
  BY DEF ShapeInv, FrameInv
<1>1. ASSUME ReturnAndRead(t), frame[t].pc \in LoginPC \cup AuthPC \cup {"createUser"}
      PROVE  Resume(t)
  BY <1>0, <1>1, ReturnFrame DEF ReturnAndRead, Resume, GoodFrame, LoginPC, AuthPC, Others
<1>2. ASSUME AfterRemove(t), RemoveNameless(t) \/ ListRemove(t),
             frame[t].pc \in RemovePC
      PROVE  Resume(t) \/ Leave(t)
  BY <1>0, <1>2, ReturnFrame DEF AfterRemove, Resume, Leave, GoodFrame, RemovePC, Others
<1>3. ASSUME NEW p \in PC, Goto(t, p), UNCHANGED reading
      PROVE  Keep(t)
  BY <1>0, <1>3, GotoFrame DEF Keep, Others
<1>4. CASE CheckOnline(t) \/ CreateSession(t) \/ Publish(t)
  BY <1>1, <1>3, <1>4 DEF CheckOnline, CreateSession, Publish, At, LoginPC, PC
<1>5. CASE AddSession(t) \/ ListAdd(t) \/ Remove(t)
  BY <1>3, <1>5 DEF AddSession, ListAdd, Remove, PC
<1>6. CASE Welcome(t) \/ CreateUser(t) \/ Broadcast(t) \/ Private(t) \/ UsersReply(t)
  BY <1>1, <1>6 DEF Welcome, CreateUser, Broadcast, Private, UsersReply, At, AuthPC
<1>7. CASE Users(t)
  BY <1>0, <1>7 DEF Users, Keep, Others, TypeOK, Frame
<1>8. CASE RemoveNameless(t) \/ ListRemove(t)
  BY <1>2, <1>8 DEF RemoveNameless, ListRemove, At, RemovePC
<1>9. CASE StopSweep(t)
  BY <1>0, <1>9, ReturnFrame DEF StopSweep, At, GoodFrame, Leave, Others
<1> QED
  BY <1>4, <1>5, <1>6, <1>7, <1>8, <1>9 DEF HandlerStep

LEMMA KindStep ==
    ASSUME ShapeInv, [Next]_vars
    PROVE  \/ UNCHANGED <<frame, reading>>
           \/ \E t \in Worker : Keep(t) \/ Resume(t) \/ Leave(t) \/ Enter(t)
           \/ \E t \in Worker, s \in Session : Take(t, s)
           \/ \E s \in Session : Connect(s)
<1>0. TypeOK
  BY DEF ShapeInv
<1>1. ASSUME NEW t \in Worker, NEW s \in Session, Network(t, s)
      PROVE  UNCHANGED <<frame, reading>> \/ Enter(t) \/ Take(t, s) \/ Connect(s)
  <2>1. CASE ReadFails(t, s)
    BY <1>0, <2>1 DEF ReadFails, Take, Others, Call, TypeOK
  <2>2. CASE WriteFails(t, s)
    BY <1>0, <2>2 DEF WriteFails, Enter, Others, Call, TypeOK
  <2> QED
    BY <1>1, <2>1, <2>2 DEF Network, Accept, HandshakeDone, HandshakeFails, WriteDone,
       Connect
<1>2. ASSUME NEW t \in Worker, NEW s \in Session, Line(t, s)
      PROVE  UNCHANGED <<frame, reading>> \/ Take(t, s)
  <2>1. ASSUME NEW p, NEW u, Dispatch(t, s, Call(p, s, u, "read"))
        PROVE  Take(t, s)
    BY <1>0, <2>1 DEF Dispatch, Take, Others, Call, TypeOK
  <2> QED
    BY <1>2, <2>1 DEF Line, RefusedLine, LoginLine, RegisterLine, PrivateLine,
       BroadcastLine, UsersLine, LogoutLine
<1>3. ASSUME NEW t \in Worker, StopBegin(t) PROVE Enter(t)
  BY <1>0, <1>3 DEF StopBegin, Enter, Others, Call, TypeOK
<1>4. CASE UNCHANGED <<frame, reading>>
  BY <1>4
<1> QED
  BY <1>1, <1>2, <1>3, <1>4, KindHandler DEF Next, PeerCloses, Terminated, vars

(* Nobody works for a session that is not connected yet.                   *)
SockInv ==
    \A s \in Session : sock[s] \in {"free", "handshake"} =>
        ~reading[s] /\ \A t \in Worker : frame[t].s # s

LEMMA SockStep == ShapeInv /\ SockInv /\ [Next]_vars => SockInv'
<1> SUFFICES ASSUME ShapeInv, SockInv, [Next]_vars,
                    NEW s \in Session, sock'[s] \in {"free", "handshake"}
             PROVE  ~reading'[s] /\ \A t \in Worker : frame'[t].s # s
  BY DEF SockInv
<1>0. TypeOK
  BY DEF ShapeInv
<1>1. sock[s] \in {"free", "handshake"}
  <2>1. ASSUME NEW t \in Worker, HandlerStep(t)
        PROVE  UNCHANGED sock \/ \E S : sock' = [x \in Session |->
                                             IF x \in S THEN "closed" ELSE sock[x]]
    <3>1. CASE RemoveNameless(t) \/ ListRemove(t)
      <4>1. sock' = [sock EXCEPT ![frame[t].s] = "closed"]
        BY <3>1 DEF RemoveNameless, ListRemove, StopSession
      <4>2. sock' = [x \in Session |-> IF x \in {frame[t].s} THEN "closed" ELSE sock[x]]
        BY <1>0, <4>1 DEF TypeOK
      <4> QED BY <4>2
    <3> QED
      BY <2>1, <3>1 DEF HandlerStep, CheckOnline, CreateSession, Publish, AddSession,
         ListAdd, Welcome, CreateUser, Broadcast, Private, Users, UsersReply, Remove,
         StopSweep
  <2>2. ASSUME NEW t \in Worker, NEW s2 \in Session, Line(t, s2) PROVE UNCHANGED sock
    BY <2>2 DEF Line, RefusedLine, LoginLine, RegisterLine, PrivateLine, BroadcastLine,
       UsersLine, LogoutLine, Dispatch
  <2>3. ASSUME NEW t \in Worker, NEW s2 \in Session, Network(t, s2)
        PROVE  sock[s] \in {"free", "handshake"}
    BY <1>0, <2>3 DEF Network, Accept, HandshakeDone, HandshakeFails, ReadFails,
       WriteDone, WriteFails, TypeOK
  <2>4. CASE \E s2 \in Session : PeerCloses(s2)
    BY <1>0, <2>4 DEF PeerCloses, TypeOK
  <2> QED
    BY <2>1, <2>2, <2>3, <2>4 DEF Next, vars, StopBegin, Terminated
<1>2. ~reading[s] /\ \A t \in Worker : frame[t].s # s
  BY <1>1 DEF SockInv
<1>3. CASE UNCHANGED <<frame, reading>>
  BY <1>2, <1>3
<1>4. ASSUME NEW t \in Worker, Keep(t) \/ Resume(t) \/ Leave(t) \/ Enter(t)
      PROVE  ~reading'[s] /\ \A t2 \in Worker : frame'[t2].s # s
  BY <1>0, <1>1, <1>2, <1>4, IdleType, ConstantsAssumption
     DEF Keep, Resume, Leave, Enter, Others, TypeOK
<1>5. ASSUME NEW t \in Worker, NEW s2 \in Session, Take(t, s2)
      PROVE  ~reading'[s] /\ \A t2 \in Worker : frame'[t2].s # s
  BY <1>0, <1>2, <1>5 DEF Take, Others, TypeOK
<1>6. ASSUME NEW s2 \in Session, Connect(s2)
      PROVE  ~reading'[s] /\ \A t2 \in Worker : frame'[t2].s # s
  BY <1>0, <1>2, <1>6 DEF Connect, TypeOK
<1> QED
  BY <1>3, <1>4, <1>5, <1>6, KindStep

LEMMA OneReaderStep == ShapeInv /\ SockInv /\ OneReader /\ [Next]_vars => OneReader'
<1> SUFFICES ASSUME ShapeInv, SockInv, OneReader, [Next]_vars PROVE OneReader'
  OBVIOUS
<1>0. TypeOK
  BY DEF ShapeInv
<1> USE IdleType, ConstantsAssumption DEF OneReader, ReadHandler
<1>1. CASE UNCHANGED <<frame, reading>>
  BY <1>1
<1>2. ASSUME NEW t \in Worker, Keep(t) PROVE OneReader'
  BY <1>0, <1>2 DEF Keep, Others
<1>3. ASSUME NEW t \in Worker, Resume(t) PROVE OneReader'
  BY <1>0, <1>3 DEF Resume, Others, TypeOK
<1>4. ASSUME NEW t \in Worker, Leave(t) \/ Enter(t) PROVE OneReader'
  BY <1>0, <1>4 DEF Leave, Enter, Others
<1>5. ASSUME NEW t \in Worker, NEW s \in Session, Take(t, s) PROVE OneReader'
  BY <1>0, <1>5 DEF Take, Others, TypeOK
<1>6. ASSUME NEW s \in Session, Connect(s) PROVE OneReader'
  BY <1>0, <1>6 DEF Connect, SockInv, TypeOK
<1> QED
  BY <1>1, <1>2, <1>3, <1>4, <1>5, <1>6, KindStep

(* What is being read stays so until the removal that its end of file      *)
(* started is over.                                                        *)
LEMMA BeingReadKept ==
    ASSUME ShapeInv, [Next]_vars, NEW s \in Session, BeingRead(s)
    PROVE  \/ BeingRead(s)'
           \/ \E t \in Worker : /\ Leave(t)
                               /\ frame[t].s = s
                               /\ frame[t].via = "readError"
<1>0. TypeOK
  BY DEF ShapeInv
<1> USE DEF BeingRead, ReadHandler
<1>1. CASE UNCHANGED <<frame, reading>>
  BY <1>1
<1>2. ASSUME NEW t \in Worker, Keep(t) PROVE BeingRead(s)'
  BY <1>2 DEF Keep, Others
<1>3. ASSUME NEW t \in Worker, Resume(t) PROVE BeingRead(s)'
  BY <1>0, <1>3 DEF Resume, Others, TypeOK
<1>4. ASSUME NEW t \in Worker, Leave(t), ~(frame[t].s = s /\ frame[t].via = "readError")
      PROVE  BeingRead(s)'
  BY <1>4 DEF Leave, Others
<1>5. ASSUME NEW t \in Worker, Enter(t) PROVE BeingRead(s)'
  BY <1>5, IdleType DEF Enter, Others
<1>6. ASSUME NEW t \in Worker, NEW s2 \in Session, Take(t, s2) PROVE BeingRead(s)'
  BY <1>0, <1>6, IdleType DEF Take, Others, TypeOK
<1>7. ASSUME NEW s2 \in Session, Connect(s2) PROVE BeingRead(s)'
  BY <1>0, <1>7 DEF Connect, TypeOK
<1> QED
  BY <1>1, <1>2, <1>3, <1>4, <1>5, <1>6, <1>7, KindStep

-----------------------------------------------------------------------------
(* Who is logged in, by the place its read handler is at.                  *)
AuthFrame(f) ==
    /\ f.pc \in LoginPC => ~auth[f.s]
    /\ f.pc \in AuthPC => auth[f.s]
    /\ f.pc \in RemovePC /\ f.via = "read" => ~auth[f.s]

AuthInv ==
    /\ \A s \in Session : auth[s] => username[s] \in User
    /\ \A t \in Worker : AuthFrame(frame[t])

(* A name is on the map only while its session is logged in, or is just    *)
(* about to be removed by its own logout.                                  *)
LoggingOut(s) ==
    \E t \in Worker : frame[t].s = s /\ frame[t].pc = "remove" /\ frame[t].via = "read"

RegistryInv ==
    \A u \in User, s \in Session :
        byName[u] = s => username[s] = u /\ (auth[s] \/ LoggingOut(s))

(* Between its two locks removeSession has taken the session out.          *)
RemovedInv ==
    \A t \in Worker :
        frame[t].pc = "listRemove" => frame[t].s \notin Registered \cup allSessions

CoreInv ==
    /\ ShapeInv
    /\ SockInv
    /\ OneReader
    /\ AuthInv
    /\ RegistryInv
    /\ RemovedInv
    /\ NoGhosts

LEMMA AuthStep == CoreInv /\ [Next]_vars => AuthInv'
<1> SUFFICES ASSUME CoreInv, [Next]_vars PROVE AuthInv'
  OBVIOUS
<1>0. /\ TypeOK /\ OneReader /\ AuthInv
      /\ \A t \in Worker : GoodFrame(frame[t])
  BY DEF CoreInv, ShapeInv, FrameInv
<1>1. ASSUME NEW t \in Worker, UNCHANGED <<auth, username>>, AuthFrame(frame'[t]),
             Others(t)
      PROVE  AuthInv'
  BY <1>0, <1>1 DEF AuthInv, AuthFrame, Others
<1>2. CASE UNCHANGED <<auth, username, frame>>
  BY <1>0, <1>2 DEF AuthInv, AuthFrame
<1>3. ASSUME NEW t \in Worker, UNCHANGED <<auth, username>>, Return(t)
      PROVE  AuthInv'
  BY <1>0, <1>1, <1>3, ReturnFrame, IdleType
     DEF AuthFrame, Others, LoginPC, AuthPC, RemovePC
<1>4. ASSUME NEW t \in Worker, UNCHANGED <<auth, username>>, NEW p \in PC, Goto(t, p),
             \/ frame[t].pc \in LoginPC /\ p \in LoginPC
             \/ frame[t].pc \in AuthPC /\ p \in AuthPC
             \/ frame[t].pc = "remove" /\ p = "listRemove"
      PROVE  AuthInv'
  BY <1>0, <1>1, <1>4, GotoFrame
     DEF AuthInv, AuthFrame, Others, LoginPC, AuthPC, RemovePC
<1>5. ASSUME NEW t \in Worker, Publish(t) PROVE AuthInv'
  <2> DEFINE s == frame[t].s
  <2>1. s \in Session /\ frame[t].u \in User /\ frame[t].via = "read"
    BY <1>0, <1>5 DEF Publish, At, GoodFrame, LoginPC
  <2>2. auth' = [auth EXCEPT ![s] = TRUE] /\ username' = [username EXCEPT ![s] = frame[t].u]
    BY <1>5 DEF Publish
  <2>3. \A x \in Session : auth'[x] => username'[x] \in User
    BY <1>0, <2>1, <2>2 DEF TypeOK, AuthInv
  <2>4. AuthFrame(frame[t])' /\ Others(t)
    BY <1>0, <1>5, <2>1, <2>2, GotoFrame
       DEF Publish, AuthFrame, Others, LoginPC, AuthPC, RemovePC, PC, TypeOK
  <2>5. ASSUME NEW t2 \in Worker \ {t} PROVE AuthFrame(frame[t2])'
    <3>1. frame'[t2] = frame[t2]
      BY <2>4 DEF Others
    <3>2. CASE frame[t2].s = s
      <4>1. frame[t2].via \notin {"read", "readError"}
        BY <1>0, <2>1, <3>2 DEF OneReader, ReadHandler
      <4> QED BY <1>0, <3>1, <4>1 DEF GoodFrame, AuthFrame
    <3>3. CASE frame[t2].s # s
      BY <1>0, <2>1, <2>2, <3>1, <3>3 DEF AuthInv, AuthFrame, TypeOK
    <3> QED BY <3>2, <3>3
  <2> QED BY <2>3, <2>4, <2>5 DEF AuthInv
<1>6. ASSUME NEW t \in Worker, NEW s \in Session, LogoutLine(t, s) PROVE AuthInv'
  <2>1. /\ reading[s]
        /\ auth' = [auth EXCEPT ![s] = FALSE]
        /\ username' = username
        /\ frame'[t] = Call("remove", s, NoUser, "read")
        /\ Others(t)
    BY <1>0, <1>6 DEF LogoutLine, Dispatch, TypeOK, Others
  <2>2. \A x \in Session : auth'[x] => username'[x] \in User
    BY <1>0, <2>1 DEF TypeOK, AuthInv
  <2>3. AuthFrame(frame[t])'
    BY <1>0, <2>1 DEF AuthFrame, Call, LoginPC, AuthPC, RemovePC, TypeOK
  <2>4. ASSUME NEW t2 \in Worker \ {t} PROVE AuthFrame(frame[t2])'
    <3>1. frame'[t2] = frame[t2]
      BY <2>1 DEF Others
    <3>2. CASE frame[t2].s = s
      <4>1. frame[t2].via \notin {"read", "readError"}
        BY <1>0, <2>1, <3>2 DEF OneReader, ReadHandler
      <4> QED BY <1>0, <3>1, <4>1 DEF GoodFrame, AuthFrame
    <3>3. CASE frame[t2].s # s
      BY <1>0, <2>1, <3>1, <3>3 DEF AuthInv, AuthFrame, TypeOK
    <3> QED BY <3>2, <3>3
  <2> QED BY <2>2, <2>3, <2>4 DEF AuthInv
<1>7. ASSUME NEW t \in Worker, HandlerStep(t) PROVE AuthInv'
  <2>1. CASE CheckOnline(t) \/ CreateSession(t)
    BY <1>3, <1>4, <2>1 DEF CheckOnline, CreateSession, At, ReturnAndRead, LoginPC, PC
  <2>2. CASE AddSession(t) \/ ListAdd(t) \/ Remove(t)
    BY <1>4, <2>2 DEF AddSession, ListAdd, Remove, At, AuthPC, PC
  <2>3. CASE Users(t)
    BY <1>0, <1>1, <2>3 DEF Users, At, AuthInv, AuthFrame, Others, AuthPC, LoginPC,
       RemovePC, TypeOK, Frame
  <2>4. CASE Welcome(t) \/ CreateUser(t) \/ Broadcast(t) \/ Private(t) \/ UsersReply(t)
    BY <1>3, <2>4 DEF Welcome, CreateUser, Broadcast, Private, UsersReply, ReturnAndRead
  <2>5. CASE RemoveNameless(t) \/ ListRemove(t) \/ StopSweep(t)
    BY <1>3, <2>5 DEF RemoveNameless, ListRemove, StopSweep, AfterRemove
  <2> QED
    BY <1>5, <1>7, <2>1, <2>2, <2>3, <2>4, <2>5 DEF HandlerStep
<1>8. ASSUME NEW t \in Worker, NEW f, UNCHANGED <<auth, username>>,
             frame' = [frame EXCEPT ![t] = f], AuthFrame(f)
      PROVE  AuthInv'
  BY <1>0, <1>1, <1>8 DEF TypeOK, Others
<1>9. ASSUME NEW t \in Worker, NEW s \in Session, Line(t, s) PROVE AuthInv'
  <2>1. ASSUME NEW u \in User, LoginLine(t, s, u) PROVE AuthInv'
    BY <1>8, <2>1 DEF LoginLine, Dispatch, AuthFrame, Call, LoginPC, AuthPC, RemovePC
  <2>2. ASSUME NEW u \in User, RegisterLine(t, s, u) PROVE AuthInv'
    BY <1>8, <2>2 DEF RegisterLine, Dispatch, AuthFrame, Call, LoginPC, AuthPC, RemovePC
  <2>3. ASSUME NEW u \in User, PrivateLine(t, s, u) PROVE AuthInv'
    BY <1>8, <2>3 DEF PrivateLine, Dispatch, AuthFrame, Call, LoginPC, AuthPC, RemovePC
  <2>4. CASE BroadcastLine(t, s)
    BY <1>8, <2>4 DEF BroadcastLine, Dispatch, AuthFrame, Call, LoginPC, AuthPC, RemovePC
  <2>5. CASE UsersLine(t, s)
    BY <1>8, <2>5 DEF UsersLine, Dispatch, AuthFrame, Call, LoginPC, AuthPC, RemovePC
  <2>6. CASE RefusedLine(t, s)
    BY <1>2, <2>6 DEF RefusedLine
  <2> QED
    BY <1>6, <1>9, <2>1, <2>2, <2>3, <2>4, <2>5, <2>6 DEF Line
<1>10. ASSUME NEW t \in Worker, NEW s \in Session, Network(t, s) PROVE AuthInv'
  <2>1. CASE ReadFails(t, s)
    BY <1>8, <2>1 DEF ReadFails, AuthFrame, Call, LoginPC, AuthPC
  <2>2. CASE WriteFails(t, s)
    BY <1>8, <2>2 DEF WriteFails, AuthFrame, Call, LoginPC, AuthPC
  <2> QED
    BY <1>2, <1>10, <2>1, <2>2 DEF Network, Accept, HandshakeDone, HandshakeFails,
       WriteDone
<1>11. ASSUME NEW t \in Worker, StopBegin(t) PROVE AuthInv'
  BY <1>8, <1>11 DEF StopBegin, AuthFrame, Call, LoginPC, AuthPC, RemovePC
<1> QED
  BY <1>2, <1>7, <1>9, <1>10, <1>11 DEF Next, PeerCloses, Terminated, vars

LEMMA RegistryStep == CoreInv /\ [Next]_vars => RegistryInv'
<1> SUFFICES ASSUME CoreInv, [Next]_vars PROVE RegistryInv'
  OBVIOUS
<1>0. /\ TypeOK /\ OneReader /\ AuthInv /\ RegistryInv
      /\ \A t \in Worker : GoodFrame(frame[t])
  BY DEF CoreInv, ShapeInv, FrameInv
<1>1. CASE UNCHANGED <<byName, username, auth, frame>>
  BY <1>0, <1>1 DEF RegistryInv, LoggingOut
<1>2. ASSUME NEW t \in Worker, UNCHANGED <<byName, username, auth>>, Others(t),
             ~(frame[t].pc = "remove" /\ frame[t].via = "read")
      PROVE  RegistryInv'
  BY <1>0, <1>2 DEF RegistryInv, LoggingOut, Others
<1>3. ASSUME NEW t \in Worker, AddSession(t) PROVE RegistryInv'
  <2>1. frame[t].s \in Session /\ auth[frame[t].s] /\ Others(t) /\ At(t, "addSession")
    BY <1>0, <1>3, GotoFrame DEF AddSession, At, GoodFrame, AuthInv, AuthFrame, AuthPC,
       Others, PC
  <2>2. /\ byName' = [byName EXCEPT ![username[frame[t].s]] = frame[t].s]
        /\ UNCHANGED <<username, auth>>
    BY <1>3 DEF AddSession
  <2>3. \A s \in Session : LoggingOut(s) => LoggingOut(s)'
    BY <2>1 DEF LoggingOut, Others, At
  <2> QED BY <1>0, <2>1, <2>2, <2>3 DEF RegistryInv, TypeOK
<1>4. ASSUME NEW t \in Worker, Remove(t) PROVE RegistryInv'
  <2>1. Others(t) /\ frame[t].s \in Session
    BY <1>0, <1>4, GotoFrame DEF Remove, At, GoodFrame, Others, PC
  <2>2. /\ byName' = [byName EXCEPT ![username[frame[t].s]] = NoSession]
        /\ UNCHANGED <<username, auth>>
    BY <1>4 DEF Remove
  <2>3. \A s \in Session \ {frame[t].s} : LoggingOut(s) => LoggingOut(s)'
    BY <2>1 DEF LoggingOut, Others
  <2> QED BY <1>0, <2>1, <2>2, <2>3, ConstantsAssumption DEF RegistryInv, TypeOK
<1>5. ASSUME NEW t \in Worker, RemoveNameless(t) PROVE RegistryInv'
  <2>1. Others(t) /\ username[frame[t].s] = NoUser /\ UNCHANGED <<byName, username, auth>>
    BY <1>0, <1>5, ReturnFrame DEF RemoveNameless, AfterRemove, Others
  <2>2. \A s \in Session \ {frame[t].s} : LoggingOut(s) => LoggingOut(s)'
    BY <2>1 DEF LoggingOut, Others
  <2> QED BY <1>0, <2>1, <2>2, ConstantsAssumption DEF RegistryInv
<1>6. ASSUME NEW t \in Worker, StopSweep(t) PROVE RegistryInv'
  BY <1>6, ConstantsAssumption DEF StopSweep, RegistryInv
<1>7. ASSUME NEW t \in Worker, Publish(t) PROVE RegistryInv'
  <2>1. /\ Others(t) /\ frame[t].s \in Session /\ ~auth[frame[t].s]
        /\ frame[t].via = "read" /\ frame[t].pc = "publish"
    BY <1>0, <1>7, GotoFrame DEF Publish, At, GoodFrame, AuthInv, AuthFrame, LoginPC,
       Others, PC
  <2>2. /\ UNCHANGED byName
        /\ username' = [username EXCEPT ![frame[t].s] = frame[t].u]
        /\ auth' = [auth EXCEPT ![frame[t].s] = TRUE]
    BY <1>7 DEF Publish
  <2>3. ~LoggingOut(frame[t].s)
    BY <1>0, <2>1 DEF LoggingOut, OneReader, ReadHandler
  <2>4. \A s \in Session : LoggingOut(s) => LoggingOut(s)'
    BY <2>1 DEF LoggingOut, Others
  <2> QED BY <1>0, <2>1, <2>2, <2>3, <2>4 DEF RegistryInv, TypeOK
<1>8. ASSUME NEW t \in Worker, NEW s \in Session, LogoutLine(t, s) PROVE RegistryInv'
  <2>1. /\ UNCHANGED <<byName, username>>
        /\ auth' = [auth EXCEPT ![s] = FALSE]
        /\ frame[t] = Idle
        /\ frame'[t] = Call("remove", s, NoUser, "read")
        /\ Others(t)
    BY <1>0, <1>8 DEF LogoutLine, Dispatch, Others, TypeOK
  <2>2. LoggingOut(s)' /\ \A x \in Session : LoggingOut(x) => LoggingOut(x)'
    BY <2>1, IdleType DEF LoggingOut, Others, Call
  <2> QED BY <1>0, <2>1, <2>2 DEF RegistryInv, TypeOK
<1>9. ASSUME NEW t \in Worker, HandlerStep(t) PROVE RegistryInv'
  <2>1. CASE CheckOnline(t) \/ CreateSession(t)
    BY <1>0, <1>2, <2>1, GotoFrame, ReturnFrame
       DEF CheckOnline, CreateSession, At, ReturnAndRead, Others, PC
  <2>2. CASE ListAdd(t)
    BY <1>0, <1>2, <2>2, GotoFrame DEF ListAdd, At, Others, PC
  <2>3. CASE Users(t)
    BY <1>0, <1>2, <2>3 DEF Users, At, Others, TypeOK
  <2>4. CASE Welcome(t) \/ CreateUser(t) \/ Broadcast(t) \/ Private(t) \/ UsersReply(t)
    BY <1>0, <1>2, <2>4, ReturnFrame
       DEF Welcome, CreateUser, Broadcast, Private, UsersReply, At, ReturnAndRead, Others
  <2>5. CASE ListRemove(t)
    BY <1>0, <1>2, <2>5, ReturnFrame DEF ListRemove, AfterRemove, At, Others
  <2> QED
    BY <1>3, <1>4, <1>5, <1>6, <1>7, <1>9, <2>1, <2>2, <2>3, <2>4, <2>5 DEF HandlerStep
<1>10. ASSUME NEW t \in Worker, NEW f, frame[t] = Idle, frame' = [frame EXCEPT ![t] = f],
              UNCHANGED <<byName, username, auth>>
       PROVE  RegistryInv'
  BY <1>0, <1>2, <1>10, IdleType DEF Others, TypeOK
<1>11. ASSUME NEW t \in Worker, NEW s \in Session, Line(t, s) PROVE RegistryInv'
  BY <1>1, <1>8, <1>10, <1>11 DEF Line, RefusedLine, LoginLine, RegisterLine,
     PrivateLine, BroadcastLine, UsersLine, Dispatch
<1>12. ASSUME NEW t \in Worker, NEW s \in Session, Network(t, s) PROVE RegistryInv'
  BY <1>1, <1>10, <1>12 DEF Network, Accept, HandshakeDone, HandshakeFails, ReadFails,
     WriteDone, WriteFails
<1>13. ASSUME NEW t \in Worker, StopBegin(t) PROVE RegistryInv'
  BY <1>10, <1>13 DEF StopBegin
<1> QED
  BY <1>1, <1>9, <1>11, <1>12, <1>13 DEF Next, PeerCloses, Terminated, vars

(* The steps that touch the containers, with the mutex free or their own.  *)
LEMMA ContainersStep ==
    ASSUME [Next]_vars
    PROVE  \/ UNCHANGED <<byName, allSessions>>
           \/ \E t \in Worker : \/ AddSession(t) \/ Remove(t) \/ RemoveNameless(t)
                              \/ StopSweep(t)
<1>1. ASSUME NEW t \in Worker, HandlerStep(t)
      PROVE  \/ UNCHANGED <<byName, allSessions>>
             \/ AddSession(t) \/ Remove(t) \/ RemoveNameless(t) \/ StopSweep(t)
  BY <1>1 DEF HandlerStep, CheckOnline, CreateSession, Publish, ListAdd, Welcome,
     CreateUser, Broadcast, Private, Users, UsersReply, ListRemove
<1>2. ASSUME NEW t \in Worker, NEW s \in Session, Line(t, s)
      PROVE  UNCHANGED <<byName, allSessions>>
  BY <1>2 DEF Line, RefusedLine, LoginLine, RegisterLine, PrivateLine, BroadcastLine,
     UsersLine, LogoutLine, Dispatch
<1>3. ASSUME NEW t \in Worker, NEW s \in Session, Network(t, s)
      PROVE  UNCHANGED <<byName, allSessions>>
  BY <1>3 DEF Network, Accept, HandshakeDone, HandshakeFails, ReadFails, WriteDone,
     WriteFails
<1> QED
  BY <1>1, <1>2, <1>3 DEF Next, StopBegin, PeerCloses, Terminated, vars

(* Only Remove leads to the second half of a removal.                      *)
LEMMA ListRemoveFrom ==
    ASSUME ShapeInv, [Next]_vars, NEW t \in Worker, frame'[t].pc = "listRemove"
    PROVE  frame'[t] = frame[t] \/ Remove(t)
<1>0. TypeOK
  BY DEF ShapeInv
<1>1. ASSUME NEW t2 \in Worker, HandlerStep(t2) PROVE frame'[t] = frame[t] \/ Remove(t)
  <2>1. CASE ReturnAndRead(t2) \/ AfterRemove(t2) \/ Return(t2)
    BY <1>0, <2>1, ReturnFrame, IdleType DEF ReturnAndRead, AfterRemove
  <2>2. ASSUME NEW p \in PC \ {"listRemove"}, Goto(t2, p) PROVE frame'[t] = frame[t]
    BY <1>0, <2>2, GotoFrame
  <2>3. CASE CheckOnline(t2) \/ CreateSession(t2) \/ Publish(t2)
    BY <2>1, <2>2, <2>3 DEF CheckOnline, CreateSession, Publish, PC
  <2>4. CASE AddSession(t2) \/ ListAdd(t2)
    BY <2>2, <2>4 DEF AddSession, ListAdd, PC
  <2>5. CASE Users(t2)
    BY <1>0, <2>5 DEF Users, TypeOK, Frame
  <2>6. CASE Welcome(t2) \/ CreateUser(t2) \/ Broadcast(t2) \/ Private(t2) \/ UsersReply(t2)
    BY <2>1, <2>6 DEF Welcome, CreateUser, Broadcast, Private, UsersReply
  <2>7. CASE RemoveNameless(t2) \/ ListRemove(t2) \/ StopSweep(t2)
    BY <2>1, <2>7 DEF RemoveNameless, ListRemove, StopSweep
  <2>8. CASE Remove(t2)
    BY <1>0, <2>8, GotoFrame DEF Remove, PC
  <2> QED
    BY <1>1, <2>3, <2>4, <2>5, <2>6, <2>7, <2>8 DEF HandlerStep
<1>2. ASSUME NEW t2 \in Worker, NEW p, NEW s, NEW u, NEW v, p # "listRemove",
             frame' = [frame EXCEPT ![t2] = Call(p, s, u, v)]
      PROVE  frame'[t] = frame[t]
  BY <1>0, <1>2 DEF Call, TypeOK
<1>3. ASSUME NEW t2 \in Worker, NEW s \in Session, Line(t2, s)
      PROVE  frame'[t] = frame[t]
  <2>1. ASSUME NEW p \in {"checkOnline", "createUser", "private", "broadcast", "users",
                          "remove"},
               NEW u, Dispatch(t2, s, Call(p, s, u, "read"))
        PROVE  frame'[t] = frame[t]
    BY <1>2, <2>1 DEF Dispatch
  <2> QED
    BY <1>3, <2>1 DEF Line, RefusedLine, LoginLine, RegisterLine, PrivateLine,
       BroadcastLine, UsersLine, LogoutLine
<1>4. ASSUME NEW t2 \in Worker, NEW s \in Session, Network(t2, s)
      PROVE  frame'[t] = frame[t]
  <2>1. CASE ReadFails(t2, s)
    BY <1>2, <2>1 DEF ReadFails
  <2>2. CASE WriteFails(t2, s)
    BY <1>2, <2>2 DEF WriteFails
  <2> QED
    BY <1>4, <2>1, <2>2 DEF Network, Accept, HandshakeDone, HandshakeFails, WriteDone
<1>5. ASSUME NEW t2 \in Worker, StopBegin(t2) PROVE frame'[t] = frame[t]
  BY <1>2, <1>5 DEF StopBegin
<1> QED
  BY <1>1, <1>3, <1>4, <1>5 DEF Next, PeerCloses, Terminated, vars

LEMMA RemovedStep == CoreInv /\ [Next]_vars => RemovedInv'
<1> SUFFICES ASSUME CoreInv, [Next]_vars,
                    NEW t \in Worker, frame'[t].pc = "listRemove"
             PROVE  frame'[t].s \notin (Registered \cup allSessions)'
  BY DEF RemovedInv
<1>0. /\ ShapeInv /\ TypeOK /\ MutexInv /\ RegistryInv /\ RemovedInv
      /\ \A t2 \in Worker : GoodFrame(frame[t2])
  BY DEF CoreInv, ShapeInv, FrameInv
<1>1. CASE Remove(t)
  <2>1. frame[t].s \in Session /\ frame'[t].s = frame[t].s
    BY <1>0, <1>1, GotoFrame DEF Remove, At, GoodFrame, PC
  <2>2. \A u \in User : byName'[u] # frame[t].s
    BY <1>0, <1>1, <2>1, ConstantsAssumption DEF Remove, RegistryInv, TypeOK
  <2> QED BY <1>1, <2>1, <2>2 DEF Remove, Registered
<1>2. CASE frame'[t] = frame[t]
  <2>1. frame[t].s \notin Registered \cup allSessions /\ holder = t
    BY <1>0, <1>2 DEF RemovedInv, MutexInv
  <2>2. ASSUME NEW t2 \in Worker, AddSession(t2) \/ Remove(t2) PROVE FALSE
    BY <1>0, <1>2, <2>1, <2>2, ConstantsAssumption, GotoFrame
       DEF AddSession, Remove, CanLock, At, PC
  <2>3. ASSUME NEW t2 \in Worker, RemoveNameless(t2) \/ StopSweep(t2)
        PROVE  (Registered \cup allSessions)' \subseteq Registered \cup allSessions
    BY <2>3, ConstantsAssumption DEF RemoveNameless, StopSweep, Registered
  <2>4. CASE UNCHANGED <<byName, allSessions>>
    BY <1>2, <2>1, <2>4 DEF Registered
  <2> QED BY <1>2, <2>1, <2>2, <2>3, <2>4, ContainersStep
<1> QED BY <1>0, <1>1, <1>2, ListRemoveFrom

LEMMA GhostStep == CoreInv /\ [Next]_vars => NoGhosts'
<1> SUFFICES ASSUME CoreInv, [Next]_vars, NEW s \in Session,
                    s \in (Registered \cup allSessions)'
             PROVE  BeingRead(s)'
  BY DEF NoGhosts
<1>0. /\ ShapeInv /\ TypeOK /\ RegistryInv /\ RemovedInv /\ NoGhosts
      /\ \A t \in Worker : GoodFrame(frame[t])
  BY DEF CoreInv, ShapeInv, FrameInv
<1>1. ASSUME NEW t \in Worker, AddSession(t), frame[t].s = s PROVE BeingRead(s)'
  <2>1. frame'[t].s = s /\ frame'[t].via = "read"
    BY <1>0, <1>1, GotoFrame DEF AddSession, At, GoodFrame, AuthPC, PC
  <2> QED BY <2>1 DEF BeingRead, ReadHandler
<1>2. ASSUME s \notin Registered \cup allSessions
      PROVE  \E t \in Worker : AddSession(t) /\ frame[t].s = s
  <2>1. ASSUME NEW t \in Worker, AddSession(t) PROVE frame[t].s = s
    BY <1>0, <1>2, <2>1 DEF AddSession, Registered, TypeOK
  <2>2. ASSUME NEW t \in Worker, Remove(t) \/ RemoveNameless(t) \/ StopSweep(t) PROVE FALSE
    BY <1>0, <1>2, <2>2, ConstantsAssumption
       DEF Remove, RemoveNameless, StopSweep, Registered, TypeOK
  <2> QED BY <1>2, <2>1, <2>2, ContainersStep DEF Registered
<1>3. ASSUME NEW t \in Worker, Leave(t), frame[t].s = s, frame[t].via = "readError"
      PROVE  FALSE
  <2>1. CASE RemoveNameless(t)
    BY <1>0, <1>3, <2>1, ConstantsAssumption DEF RemoveNameless, RegistryInv, Registered
  <2>2. CASE ListRemove(t)
    BY <1>0, <1>3, <2>2 DEF ListRemove, At, RemovedInv, Registered
  <2>3. CASE StopSweep(t)
    BY <1>0, <1>3, <2>3 DEF StopSweep, At, GoodFrame
  <2> QED BY <1>3, <2>1, <2>2, <2>3 DEF Leave
<1>4. CASE s \in Registered \cup allSessions
  BY <1>0, <1>3, <1>4, BeingReadKept DEF NoGhosts
<1> QED BY <1>1, <1>2, <1>4

(* The inductive invariant behind the theorems below.                      *)
LEMMA CoreAlways == Spec => []CoreInv
<1>1. Init => CoreInv
  <2> SUFFICES ASSUME Init PROVE CoreInv
    OBVIOUS
  <2>1. ShapeInv
    BY ShapeInit DEF ShapeInv
  <2>2. \A t \in Worker : frame[t] = Idle
    BY DEF Init
  <2>3. SockInv /\ OneReader
    BY <2>2, IdleType, ConstantsAssumption DEF Init, SockInv, OneReader, ReadHandler
  <2>4. AuthInv
    BY <2>2, IdleType DEF Init, AuthInv, AuthFrame, LoginPC, AuthPC, RemovePC
  <2>5. RegistryInv /\ RemovedInv /\ NoGhosts
    BY <2>2, IdleType, ConstantsAssumption
       DEF Init, RegistryInv, RemovedInv, NoGhosts, Registered
  <2> QED BY <2>1, <2>3, <2>4, <2>5 DEF CoreInv
<1>2. CoreInv /\ [Next]_vars => CoreInv'
  <2>1. CoreInv /\ [Next]_vars => ShapeInv'
    BY TypeStep, FrameStep, MutexStep DEF CoreInv, ShapeInv
  <2>2. CoreInv /\ [Next]_vars => SockInv' /\ OneReader'
    BY SockStep, OneReaderStep DEF CoreInv
  <2> QED BY <2>1, <2>2, AuthStep, RegistryStep, RemovedStep, GhostStep DEF CoreInv
<1> QED
  BY <1>1, <1>2, PTL DEF Spec

(* At most one read, or read handler, per session at any time.             *)
THEOREM ReadsNeverOverlap == Spec => []OneReader
<1>1. CoreInv => OneReader
  BY DEF CoreInv
<1> QED BY <1>1, CoreAlways, PTL

(* A name on the map leads to a session that bears it.                     *)
THEOREM NamesMatch == Spec => []NameMatchesSession
<1>1. CoreInv => NameMatchesSession
  BY DEF CoreInv, RegistryInv, NameMatchesSession
<1> QED BY <1>1, CoreAlways, PTL

(* Whatever the containers hold is being read, even a session registered   *)
(* after another worker had closed its socket.                             *)
THEOREM GhostsNeverStay == Spec => []NoGhosts
<1>1. CoreInv => NoGhosts
  BY DEF CoreInv
<1> QED BY <1>1, CoreAlways, PTL

-----------------------------------------------------------------------------
(* What the clients were told.                                             *)

(* Nobody is preparing an answer to a "users" line.                        *)
NoSnapshots == \A t \in Worker : frame[t].pc \notin {"users", "usersReply"}

LEMMA NoSnapshotsStep ==
    ASSUME "users" \notin Commands
    PROVE  ShapeInv /\ NoSnapshots /\ [Next]_vars => NoSnapshots'
<1> SUFFICES ASSUME ShapeInv, NoSnapshots, [Next]_vars, NEW t \in Worker
             PROVE  frame'[t].pc \notin {"users", "usersReply"}
  BY DEF NoSnapshots
<1>0. TypeOK
  BY DEF ShapeInv
<1>1. CASE UNCHANGED frame
  BY <1>1 DEF NoSnapshots
<1>2. ASSUME NEW t2 \in Worker, HandlerStep(t2)
      PROVE  frame'[t].pc \notin {"users", "usersReply"}
  <2>1. CASE Return(t2) \/ ReturnAndRead(t2) \/ AfterRemove(t2)
    BY <1>0, <2>1, ReturnFrame, IdleType DEF ReturnAndRead, AfterRemove, NoSnapshots
  <2>2. ASSUME NEW p \in PC \ {"users", "usersReply"}, Goto(t2, p)
        PROVE  frame'[t].pc \notin {"users", "usersReply"}
    BY <1>0, <2>2, GotoFrame DEF NoSnapshots
  <2>3. CASE CheckOnline(t2) \/ CreateSession(t2) \/ Publish(t2) \/ AddSession(t2)
             \/ ListAdd(t2) \/ Remove(t2)
    BY <2>1, <2>2, <2>3
       DEF CheckOnline, CreateSession, Publish, AddSession, ListAdd, Remove, PC
  <2>4. CASE Welcome(t2) \/ CreateUser(t2) \/ Broadcast(t2) \/ Private(t2)
             \/ RemoveNameless(t2) \/ ListRemove(t2) \/ StopSweep(t2)
    BY <2>1, <2>4 DEF Welcome, CreateUser, Broadcast, Private, RemoveNameless,
       ListRemove, StopSweep
  <2>5. ~Users(t2) /\ ~UsersReply(t2)
    BY DEF NoSnapshots, Users, UsersReply, At
  <2> QED
    BY <1>2, <2>3, <2>4, <2>5 DEF HandlerStep
<1>3. ASSUME NEW t2 \in Worker, NEW p \in PC \ {"users", "usersReply"},
             NEW s, NEW u, NEW v, frame' = [frame EXCEPT ![t2] = Call(p, s, u, v)]
      PROVE  frame'[t].pc \notin {"users", "usersReply"}
  BY <1>0, <1>3 DEF Call, TypeOK, NoSnapshots
<1>4. ASSUME NEW t2 \in Worker, NEW s \in Session, Line(t2, s)
      PROVE  frame'[t].pc \notin {"users", "usersReply"}
  BY <1>1, <1>3, <1>4 DEF Line, RefusedLine, LoginLine, RegisterLine, PrivateLine,
     BroadcastLine, UsersLine, LogoutLine, Dispatch, PC
<1>5. ASSUME NEW t2 \in Worker, NEW s \in Session, Network(t2, s)
      PROVE  frame'[t].pc \notin {"users", "usersReply"}
  BY <1>1, <1>3, <1>5 DEF Network, Accept, HandshakeDone, HandshakeFails, ReadFails,
     WriteDone, WriteFails, PC
<1>6. ASSUME NEW t2 \in Worker, StopBegin(t2)
      PROVE  frame'[t].pc \notin {"users", "usersReply"}
  BY <1>3, <1>6 DEF StopBegin, PC
<1> QED
  BY <1>1, <1>2, <1>4, <1>5, <1>6 DEF Next, PeerCloses, Terminated, vars

(* The steps that a list of the users depends on.                          *)
LEMMA ViewSteps ==
    ASSUME [Next]_vars
    PROVE  \/ UNCHANGED <<byName, username, view, holder>>
           \/ \E t \in Worker : \/ AddSession(t) \/ Remove(t) \/ StopSweep(t)
                              \/ ListAdd(t) \/ ListRemove(t) \/ Publish(t)
                              \/ UsersReply(t)
<1>1. ASSUME NEW t \in Worker, HandlerStep(t)
      PROVE  \/ UNCHANGED <<byName, username, view, holder>>
             \/ AddSession(t) \/ Remove(t) \/ StopSweep(t) \/ ListAdd(t)
             \/ ListRemove(t) \/ Publish(t) \/ UsersReply(t)
  BY <1>1 DEF HandlerStep, CheckOnline, CreateSession, Welcome, CreateUser, Broadcast,
     Private, Users, RemoveNameless
<1>2. ASSUME NEW t \in Worker, NEW s \in Session, Line(t, s) \/ Network(t, s)
      PROVE  UNCHANGED <<byName, username, view, holder>>
  BY <1>2 DEF Line, RefusedLine, LoginLine, RegisterLine, PrivateLine, BroadcastLine,
     UsersLine, LogoutLine, Dispatch, Network, Accept, HandshakeDone, HandshakeFails,
     ReadFails, WriteDone, WriteFails
<1> QED
  BY <1>1, <1>2 DEF Next, StopBegin, PeerCloses, Terminated, vars

LEMMA ViewStep == CoreInv /\ NoSnapshots /\ ViewCurrent /\ [Next]_vars => ViewCurrent'
<1> SUFFICES ASSUME CoreInv, NoSnapshots, ViewCurrent, [Next]_vars,
                    holder' = NoWorker, NEW s \in Registered'
             PROVE  view'[s] \ {username'[s]} = Online' \ {username'[s]}
  BY DEF ViewCurrent
<1>0. /\ TypeOK /\ OneReader /\ AuthInv /\ RegistryInv
      /\ \A t \in Worker : GoodFrame(frame[t])
  BY DEF CoreInv, ShapeInv, FrameInv
<1>1. CASE UNCHANGED <<byName, username, view, holder>>
  BY <1>1 DEF ViewCurrent, Registered, Online
<1>2. ASSUME NEW t \in Worker, AddSession(t) \/ Remove(t) PROVE FALSE
  BY <1>2, ConstantsAssumption DEF AddSession, Remove
<1>3. ASSUME NEW t \in Worker, StopSweep(t) PROVE FALSE
  BY <1>3, ConstantsAssumption DEF StopSweep, Registered
<1>4. ASSUME NEW t \in Worker, ListAdd(t) \/ ListRemove(t)
      PROVE  view'[s] = Online'
  BY <1>4 DEF ListAdd, ListRemove, SendUserList, Registered, Online
<1>5. ASSUME NEW t \in Worker, Publish(t)
      PROVE  view'[s] \ {username'[s]} = Online' \ {username'[s]}
  <2>1. /\ s \in Registered /\ holder = NoWorker
        /\ UNCHANGED <<byName, view>>
    BY <1>5 DEF Publish, Registered
  <2>2. frame[t].s # s
    <3> SUFFICES ASSUME frame[t].s = s PROVE FALSE
      OBVIOUS
    <3>1. frame[t].pc = "publish" /\ frame[t].via = "read" /\ ~auth[s]
      BY <1>0, <1>5 DEF Publish, At, GoodFrame, AuthInv, AuthFrame, LoginPC
    <3>2. LoggingOut(s)
      BY <1>0, <2>1, <3>1 DEF Registered, RegistryInv
    <3> QED BY <1>0, <2>1, <3>1, <3>2 DEF LoggingOut, OneReader, ReadHandler, Registered
  <2>3. username'[s] = username[s]
    BY <1>0, <1>5, <2>1, <2>2 DEF Publish, Registered, TypeOK
  <2> QED BY <2>1, <2>3 DEF ViewCurrent, Online
<1>6. ASSUME NEW t \in Worker, UsersReply(t) PROVE FALSE
  BY <1>6 DEF NoSnapshots, UsersReply, At
<1> QED BY <1>1, <1>2, <1>3, <1>4, <1>5, <1>6, ViewSteps

(* Where no client asks for the list itself, what the clients were told of *)
(* the users is true whenever the mutex is free, for either kind of mutex. *)
(* An answer to "users" is a snapshot queued after the mutex was released, *)
(* and may overwrite a newer list with an older one.                       *)
THEOREM ListsAreCurrent == "users" \notin Commands => (Spec => []ViewCurrent)
<1> SUFFICES ASSUME "users" \notin Commands PROVE Spec => []ViewCurrent
  OBVIOUS
<1>1. Init => NoSnapshots /\ ViewCurrent
  BY IdleType, ConstantsAssumption
     DEF Init, NoSnapshots, ViewCurrent, Registered
<1>2. CoreInv /\ NoSnapshots /\ ViewCurrent /\ [Next]_vars
        => NoSnapshots' /\ ViewCurrent'
  BY NoSnapshotsStep, ViewStep DEF CoreInv
<1> QED BY <1>1, <1>2, CoreAlways, PTL DEF Spec

-----------------------------------------------------------------------------
(* With a plain std::mutex the mutex, once locked for a list of the users, *)
(* is never given back.                                                    *)
THEOREM PlainMutexWedges == ~RecursiveMutex => (Spec => MutexNeverReleased)
<1> SUFFICES ASSUME ~RecursiveMutex PROVE Spec => MutexNeverReleased
  OBVIOUS
<1>1. ShapeInv /\ [Next]_vars => [holder # NoWorker => holder' = holder]_vars
  <2> SUFFICES ASSUME ShapeInv, [Next]_vars, holder # NoWorker PROVE holder' = holder
    OBVIOUS
  <2>1. ASSUME NEW t \in Worker, CanLock(t) PROVE FALSE
    BY <2>1 DEF CanLock
  <2>2. ASSUME NEW t \in Worker, HandlerStep(t) PROVE holder' = holder
    BY <2>1, <2>2 DEF HandlerStep, CheckOnline, CreateSession, Publish, AddSession,
       ListAdd, SendUserList, Welcome, CreateUser, Broadcast, Private, Users, UsersReply,
       RemoveNameless, Remove, ListRemove, StopSweep
  <2>3. ASSUME NEW t \in Worker, NEW s \in Session, Line(t, s) \/ Network(t, s)
        PROVE  holder' = holder
    BY <2>3 DEF Line, RefusedLine, LoginLine, RegisterLine, PrivateLine, BroadcastLine,
       UsersLine, LogoutLine, Dispatch, Network, Accept, HandshakeDone, HandshakeFails,
       ReadFails, WriteDone, WriteFails
  <2> QED
    BY <2>2, <2>3 DEF Next, StopBegin, PeerCloses, Terminated, vars
<1> QED BY <1>1, ShapeAlways, PTL DEF Spec, MutexNeverReleased

-----------------------------------------------------------------------------
(* What is left behind when a connection ends: no active row of the        *)
(* sessions table, and no client connected that is never written to again. *)
(* Rests on CoreInv: one worker at most is in the read handler of a        *)
(* session, so that nobody writes a second row between the steps of a      *)
(* login or of a logout.                                                   *)

(* A worker leaves a place in a handler by its own step only.              *)
LEMMA OwnFrame ==
    ASSUME TypeOK, [Next]_vars, NEW t \in Worker, frame[t] # Idle
    PROVE  frame'[t] = frame[t] \/ HandlerStep(t)
<1>1. ASSUME NEW t2 \in Worker, t2 # t, HandlerStep(t2) PROVE frame'[t] = frame[t]
  <2>1. CASE Return(t2) \/ ReturnAndRead(t2) \/ AfterRemove(t2)
    BY <1>1, <2>1 DEF Return, ReturnAndRead, AfterRemove, TypeOK
  <2>2. CASE \E p \in PC : Goto(t2, p)
    BY <1>1, <2>2 DEF Goto, TypeOK
  <2>3. CASE Users(t2)
    BY <1>1, <2>3 DEF Users, TypeOK
  <2>4. CASE CheckOnline(t2) \/ CreateSession(t2) \/ Publish(t2) \/ AddSession(t2)
             \/ ListAdd(t2) \/ Remove(t2)
    BY <2>1, <2>2, <2>4
       DEF CheckOnline, CreateSession, Publish, AddSession, ListAdd, Remove, PC
  <2>5. CASE Welcome(t2) \/ CreateUser(t2) \/ Broadcast(t2) \/ Private(t2)
             \/ UsersReply(t2) \/ RemoveNameless(t2) \/ ListRemove(t2) \/ StopSweep(t2)
    BY <2>1, <2>5 DEF Welcome, CreateUser, Broadcast, Private, UsersReply,
       RemoveNameless, ListRemove, StopSweep
  <2> QED
    BY <1>1, <2>3, <2>4, <2>5 DEF HandlerStep
<1>2. ASSUME NEW t2 \in Worker, frame[t2] = Idle,
             \E f : frame' = [frame EXCEPT ![t2] = f]
      PROVE  frame'[t] = frame[t]
  BY <1>2 DEF TypeOK
<1>3. ASSUME NEW t2 \in Worker, NEW s \in Session, Line(t2, s)
      PROVE  frame'[t] = frame[t]
  BY <1>2, <1>3 DEF Line, RefusedLine, LoginLine, RegisterLine, PrivateLine,
     BroadcastLine, UsersLine, LogoutLine, Dispatch
<1>4. ASSUME NEW t2 \in Worker, NEW s \in Session, Network(t2, s)
      PROVE  frame'[t] = frame[t]
  BY <1>2, <1>4 DEF Network, Accept, HandshakeDone, HandshakeFails, ReadFails,
     WriteDone, WriteFails
<1>5. ASSUME NEW t2 \in Worker, StopBegin(t2) PROVE frame'[t] = frame[t]
  BY <1>2, <1>5 DEF StopBegin
<1> QED
  BY <1>1, <1>3, <1>4, <1>5 DEF Next, PeerCloses, Terminated, vars

-----------------------------------------------------------------------------
(* Broken writers *)

(* A closed socket is never opened again: the session is not reused.       *)
LEMMA ClosedStays ==
    ASSUME TypeOK, [Next]_vars, NEW s \in Session, sock[s] = "closed"
    PROVE  sock'[s] = "closed"
<1>1. ASSUME NEW t \in Worker, HandlerStep(t) PROVE sock'[s] = "closed"
  <2>1. CASE RemoveNameless(t) \/ ListRemove(t)
    BY <2>1 DEF RemoveNameless, ListRemove, StopSession, TypeOK
  <2>2. CASE StopSweep(t)
    BY <2>2 DEF StopSweep
  <2> QED
    BY <1>1, <2>1, <2>2 DEF HandlerStep, CheckOnline, CreateSession, Publish,
       AddSession, ListAdd, Welcome, CreateUser, Broadcast, Private, Users,
       UsersReply, Remove
<1>2. ASSUME NEW t \in Worker, NEW s2 \in Session, Line(t, s2) PROVE UNCHANGED sock
  BY <1>2 DEF Line, RefusedLine, LoginLine, RegisterLine, PrivateLine,
     BroadcastLine, UsersLine, LogoutLine, Dispatch
<1>3. ASSUME NEW t \in Worker, NEW s2 \in Session, Network(t, s2)
      PROVE  sock'[s] = "closed"
  BY <1>3 DEF Network, Accept, HandshakeDone, HandshakeFails, ReadFails, WriteDone,
     WriteFails, TypeOK
<1>4. ASSUME NEW s2 \in Session, PeerCloses(s2) PROVE sock'[s] = "closed"
  BY <1>4 DEF PeerCloses, TypeOK
<1> QED
  BY <1>1, <1>2, <1>3, <1>4 DEF Next, StopBegin, Terminated, vars

(* Only the error of a write breaks the chain.                             *)
LEMMA BrokenBy ==
    ASSUME TypeOK, [Next]_vars, NEW s \in Session,
           writer[s] # "failed", writer'[s] = "failed"
    PROVE  \E t \in Worker : WriteFails(t, s)
<1>1. ASSUME NEW S, Push(S) PROVE FALSE
  BY <1>1 DEF Push
<1>2. ASSUME NEW t \in Worker, HandlerStep(t) PROVE FALSE
  BY <1>1, <1>2 DEF HandlerStep, CheckOnline, CreateSession, Publish, AddSession,
     ListAdd, SendUserList, Welcome, CreateUser, Broadcast, Private, Users,
     UsersReply, RemoveNameless, Remove, ListRemove, StopSweep
<1>3. ASSUME NEW t \in Worker, NEW s2 \in Session, Line(t, s2) PROVE FALSE
  BY <1>1, <1>3 DEF Line, RefusedLine, LoginLine, RegisterLine, PrivateLine,
     BroadcastLine, UsersLine, LogoutLine, Dispatch
<1>4. ASSUME NEW t \in Worker, NEW s2 \in Session, Network(t, s2)
      PROVE  WriteFails(t, s)
  BY <1>4 DEF Network, Accept, HandshakeDone, HandshakeFails, ReadFails, WriteDone,
     WriteFails, TypeOK
<1> QED
  BY <1>2, <1>3, <1>4 DEF Next, StopBegin, PeerCloses, Terminated, vars

Removing(t, s) == frame[t].s = s /\ frame[t].pc \in RemovePC

(* A removal goes on until it closes the socket.                           *)
LEMMA RemovalCloses ==
    ASSUME TypeOK, [Next]_vars, NEW t \in Worker, NEW s \in Session, Removing(t, s)
    PROVE  Removing(t, s)' \/ sock'[s] = "closed"
<1>1. frame[t] # Idle
  BY IdleType DEF Removing, RemovePC
<1>2. CASE frame'[t] = frame[t]
  BY <1>2 DEF Removing
<1>3. CASE HandlerStep(t)
  <2>1. CASE Remove(t)
    BY <2>1, GotoFrame DEF Remove, Removing, RemovePC, PC
  <2>2. CASE RemoveNameless(t) \/ ListRemove(t)
    BY <2>2 DEF RemoveNameless, ListRemove, StopSession, Removing, TypeOK
  <2> QED
    BY <1>3, <2>1, <2>2 DEF HandlerStep, CheckOnline, CreateSession, Publish,
       AddSession, ListAdd, Welcome, CreateUser, Broadcast, Private, Users,
       UsersReply, StopSweep, At, Removing, RemovePC
<1> QED
  BY <1>1, <1>2, <1>3, OwnFrame

(* A session whose chain of writes broke is closed, or a worker is about to*)
(* close it.                                                               *)
THEOREM BrokenWritersGo == Spec => []BrokenWriterIsRemoved
<1>1. Init => BrokenWriterIsRemoved
  BY DEF Init, BrokenWriterIsRemoved
<1>2. CoreInv /\ BrokenWriterIsRemoved /\ [Next]_vars => BrokenWriterIsRemoved'
  <2> SUFFICES ASSUME CoreInv, BrokenWriterIsRemoved, [Next]_vars,
                      NEW s \in Session, writer'[s] = "failed"
               PROVE  sock'[s] = "closed" \/ \E t \in Worker : Removing(t, s)'
    BY DEF BrokenWriterIsRemoved, Removing, RemovePC
  <2>0. TypeOK
    BY DEF CoreInv, ShapeInv
  <2>1. CASE writer[s] = "failed"
    <3>1. sock[s] = "closed" \/ \E t \in Worker : Removing(t, s)
      BY <2>1 DEF BrokenWriterIsRemoved, Removing, RemovePC
    <3> QED BY <2>0, <3>1, ClosedStays, RemovalCloses
  <2>2. CASE writer[s] # "failed"
    <3>1. PICK t \in Worker : WriteFails(t, s)
      BY <2>0, <2>2, BrokenBy
    <3>2. frame'[t] = Call("remove", s, NoUser, "writeError")
      BY <2>0, <3>1 DEF WriteFails, TypeOK
    <3> QED BY <3>2 DEF Removing, RemovePC, Call
  <2> QED BY <2>1, <2>2
<1> QED BY <1>1, <1>2, CoreAlways, PTL DEF Spec

-----------------------------------------------------------------------------
(* Rows *)

(* The row of s has an owner who will delete it: the session is logged in, *)
(* its login is about to be, or its logout is on the way to deleteSession. *)
Closing(t, s) == Removing(t, s) /\ frame[t].via = "read"

Owned(s) ==
    \/ auth[s]
    \/ \E t \in Worker : \/ frame[t].s = s /\ frame[t].pc = "publish"
                         \/ Closing(t, s)

RowsInv ==
    \A r \in rows \ kept : r[2] = token[r[1]] /\ BeingRead(r[1]) /\ Owned(r[1])

LEMMA RowSteps ==
    ASSUME [Next]_vars
    PROVE  \/ UNCHANGED <<rows, kept, token>>
           \/ \E t \in Worker : CreateSession(t)
           \/ rows' \ kept' \subseteq rows \ kept /\ UNCHANGED token
<1>1. ASSUME NEW t \in Worker, HandlerStep(t)
      PROVE  \/ UNCHANGED <<rows, kept, token>>
             \/ CreateSession(t)
             \/ rows' \ kept' \subseteq rows \ kept /\ UNCHANGED token
  BY <1>1, DeletedOrKept DEF HandlerStep, CheckOnline, Publish, AddSession, ListAdd,
     Welcome, CreateUser, Broadcast, Private, Users, UsersReply, RemoveNameless,
     Remove, ListRemove, StopSweep, StopSession
<1>2. ASSUME NEW t \in Worker, NEW s \in Session, Line(t, s) \/ Network(t, s)
      PROVE  UNCHANGED <<rows, kept, token>>
  BY <1>2 DEF Line, RefusedLine, LoginLine, RegisterLine, PrivateLine, BroadcastLine,
     UsersLine, LogoutLine, Dispatch, Network, Accept, HandshakeDone, HandshakeFails,
     ReadFails, WriteDone, WriteFails
<1> QED
  BY <1>1, <1>2 DEF Next, StopBegin, PeerCloses, Terminated, vars

(* A login is not at createSession while its session has a row.            *)
LEMMA NoSecondRow ==
    ASSUME CoreInv, NEW s \in Session, Owned(s), NEW t \in Worker, CreateSession(t)
    PROVE  frame[t].s # s
<1> SUFFICES ASSUME frame[t].s = s PROVE FALSE
  OBVIOUS
<1>0. /\ OneReader /\ AuthInv
      /\ \A t2 \in Worker : GoodFrame(frame[t2])
  BY DEF CoreInv, ShapeInv, FrameInv
<1>1. frame[t].pc = "createSession" /\ frame[t].via = "read" /\ ~auth[s]
  BY <1>0 DEF CreateSession, At, GoodFrame, AuthInv, AuthFrame, LoginPC
<1>2. PICK t2 \in Worker : /\ frame[t2].s = s /\ frame[t2].via = "read"
                           /\ frame[t2].pc \in RemovePC \cup {"publish"}
  BY <1>0, <1>1 DEF Owned, Closing, Removing, GoodFrame, LoginPC
<1>3. t2 = t
  BY <1>0, <1>1, <1>2 DEF OneReader, ReadHandler
<1> QED BY <1>1, <1>2, <1>3 DEF RemovePC

(* The end of a removal takes the row of the token with it, or has tried.  *)
LEMMA RemovalTakesRow ==
    ASSUME NEW t \in Worker, RemoveNameless(t) \/ ListRemove(t)
    PROVE  <<frame[t].s, token[frame[t].s]>> \notin rows' \ kept'
BY DeletedOrKept DEF RemoveNameless, ListRemove, StopSession

LEMMA OwnerStays ==
    ASSUME CoreInv, [Next]_vars, NEW s \in Session, Owned(s),
           <<s, token[s]>> \in rows' \ kept'
    PROVE  Owned(s)'
<1>0. TypeOK
  BY DEF CoreInv, ShapeInv
<1>1. CASE auth[s] /\ auth'[s]
  BY <1>1 DEF Owned
<1>2. CASE auth[s] /\ ~auth'[s]
  <2>1. \E t \in Worker : LogoutLine(t, s)
    <3>1. ASSUME NEW t \in Worker, HandlerStep(t) PROVE FALSE
      BY <1>0, <1>2, <3>1 DEF HandlerStep, CheckOnline, CreateSession, Publish,
         AddSession, ListAdd, Welcome, CreateUser, Broadcast, Private, Users,
         UsersReply, RemoveNameless, Remove, ListRemove, StopSweep, TypeOK
    <3>2. ASSUME NEW t \in Worker, NEW s2 \in Session, Line(t, s2)
          PROVE  LogoutLine(t, s)
      BY <1>0, <1>2, <3>2 DEF Line, RefusedLine, LoginLine, RegisterLine,
         PrivateLine, BroadcastLine, UsersLine, LogoutLine, Dispatch, TypeOK
    <3>3. ASSUME NEW t \in Worker, NEW s2 \in Session, Network(t, s2)
          PROVE  FALSE
      BY <1>2, <3>3 DEF Network, Accept, HandshakeDone, HandshakeFails, ReadFails,
         WriteDone, WriteFails
    <3> QED
      BY <1>2, <3>1, <3>2, <3>3 DEF Next, StopBegin, PeerCloses, Terminated, vars
  <2>2. PICK t \in Worker : LogoutLine(t, s)
    BY <2>1
  <2>3. frame'[t] = Call("remove", s, NoUser, "read")
    BY <1>0, <2>2 DEF LogoutLine, Dispatch, TypeOK
  <2>4. Closing(t, s)'
    BY <2>3 DEF Closing, Removing, RemovePC, Call
  <2> QED BY <2>4 DEF Owned
<1>3. ASSUME NEW t \in Worker, frame[t].s = s, frame[t].pc = "publish"
      PROVE  Owned(s)'
  <2>1. CASE frame'[t] = frame[t]
    BY <1>3, <2>1 DEF Owned
  <2>2. CASE HandlerStep(t)
    <3>1. Publish(t)
      BY <1>3, <2>2 DEF HandlerStep, CheckOnline, CreateSession, AddSession, ListAdd,
         Welcome, CreateUser, Broadcast, Private, Users, UsersReply, RemoveNameless,
         Remove, ListRemove, StopSweep, At
    <3> QED BY <1>0, <1>3, <3>1 DEF Publish, Owned, TypeOK
  <2> QED BY <1>0, <1>3, <2>1, <2>2, OwnFrame, IdleType
<1>4. ASSUME NEW t \in Worker, Closing(t, s)
      PROVE  Owned(s)'
  <2>1. CASE frame'[t] = frame[t]
    BY <1>4, <2>1 DEF Owned, Closing, Removing
  <2>2. CASE HandlerStep(t)
    <3>1. Remove(t) \/ RemoveNameless(t) \/ ListRemove(t)
      BY <1>4, <2>2 DEF HandlerStep, CheckOnline, CreateSession, Publish, AddSession,
         ListAdd, Welcome, CreateUser, Broadcast, Private, Users, UsersReply,
         StopSweep, At, Closing, Removing, RemovePC
    <3>2. Remove(t)
      BY <1>4, <3>1, RemovalTakesRow DEF Closing, Removing
    <3>3. Closing(t, s)'
      BY <1>0, <1>4, <3>2, GotoFrame DEF Remove, Closing, Removing, RemovePC, PC
    <3> QED BY <3>3 DEF Owned
  <2> QED BY <1>0, <1>4, <2>1, <2>2, OwnFrame, IdleType DEF Closing, Removing, RemovePC
<1> QED BY <1>1, <1>2, <1>3, <1>4 DEF Owned

LEMMA RowsStep == CoreInv /\ RowsInv /\ [Next]_vars => RowsInv'
<1> SUFFICES ASSUME CoreInv, RowsInv, [Next]_vars, NEW r \in rows' \ kept'
             PROVE  (r[2] = token[r[1]])' /\ BeingRead(r[1])' /\ Owned(r[1])'
  BY DEF RowsInv
<1>0. /\ ShapeInv /\ TypeOK
      /\ \A t \in Worker : GoodFrame(frame[t])
  BY DEF CoreInv, ShapeInv, FrameInv
<1> DEFINE s == r[1]
<1>1. CASE r \in rows \ kept
  <2>1. s \in Session /\ r = <<s, token[s]>> /\ BeingRead(s) /\ Owned(s)
    BY <1>0, <1>1 DEF TypeOK, RowsInv
  <2>2. token'[s] = token[s]
    <3>1. ASSUME NEW t \in Worker, CreateSession(t) PROVE token'[s] = token[s]
      BY <1>0, <2>1, <3>1, NoSecondRow DEF CreateSession, TypeOK
    <3> QED BY <3>1, RowSteps
  <2>3. BeingRead(s)'
    <3>1. ASSUME NEW t \in Worker, Leave(t), frame[t].s = s,
                 frame[t].via = "readError"
          PROVE  FALSE
      <4>1. CASE RemoveNameless(t) \/ ListRemove(t)
        BY <2>1, <3>1, <4>1, RemovalTakesRow
      <4>2. CASE StopSweep(t)
        BY <1>0, <3>1, <4>2 DEF StopSweep, At, GoodFrame
      <4> QED BY <3>1, <4>1, <4>2 DEF Leave
    <3> QED BY <1>0, <2>1, <3>1, BeingReadKept
  <2>4. Owned(s)'
    BY <2>1, OwnerStays
  <2> QED BY <2>1, <2>2, <2>3, <2>4
<1>2. CASE r \notin rows \ kept
  <2>1. PICK t \in Worker : CreateSession(t)
    BY <1>2, RowSteps
  <2>2. /\ frame[t].s \in Session /\ frame[t].via = "read"
    BY <1>0, <2>1 DEF CreateSession, At, GoodFrame, LoginPC
  <2>3. /\ r = <<frame[t].s, token[frame[t].s] + 1>>
        /\ Goto(t, "publish")
        /\ token' = [token EXCEPT ![frame[t].s] = @ + 1]
    BY <1>2, <2>1 DEF CreateSession
  <2>4. s = frame[t].s /\ token'[s] = r[2]
    BY <1>0, <2>2, <2>3 DEF TypeOK
  <2>5. frame'[t].s = s /\ frame'[t].pc = "publish" /\ frame'[t].via = "read"
    BY <1>0, <2>2, <2>3, <2>4, GotoFrame DEF PC
  <2> QED BY <2>4, <2>5 DEF BeingRead, ReadHandler, Owned
<1> QED BY <1>1, <1>2

(* The table has no active row but the one of a session's current token,   *)
(* and none of a session that is no longer read, except those whose        *)
(* deletion was tried and failed (session.cpp:307 ignores the answer).     *)
THEOREM RowsAreDeleted == Spec => []NoLeakedRows
<1>1. Init => RowsInv
  BY DEF Init, RowsInv
<1>2. RowsInv => NoLeakedRows
  BY DEF RowsInv, NoLeakedRows
<1> QED BY <1>1, <1>2, RowsStep, CoreAlways, PTL DEF Spec
=============================================================================
