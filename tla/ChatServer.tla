----------------------------- MODULE ChatServer -----------------------------
(***************************************************************************)
(* The chat server: ChatServer (src/server/server.cpp) and the Session     *)
(* objects (src/server/session.cpp) it keeps, run by the worker threads    *)
(* that main.cpp starts on one io_context.                                 *)
(*                                                                         *)
(* A handler runs on any free worker.  It is cut into one step per access  *)
(* to state that another worker can touch: a step that takes               *)
(* sessions_mutex_ and releases it again is one action, and addSession and *)
(* removeSession, which call getOnlineUsers while they hold the mutex, are *)
(* two (acquire; then lock again).  What a client's line says is abstract: *)
(* only its command and the user it names matter here.                     *)
(***************************************************************************)
EXTENDS Naturals, FiniteSets

CONSTANTS
    Worker,          \* threads that run io_context.run()
    Session,         \* connections the run may see, each object used once
    User,            \* user names
    NoWorker, NoSession, NoUser,
    MaxLines,        \* bound: lines each client sends
    Commands,        \* the command lines clients use in this instance
    RecursiveMutex   \* FALSE: std::mutex, as server.hpp:54 declares it;
                     \* TRUE: the recursive mutex the nested calls need

CommandKind ==
    {"login", "register", "private", "broadcast", "users", "logout", "refused"}

ASSUME ConstantsAssumption ==
    /\ NoWorker \notin Worker
    /\ NoSession \notin Session
    /\ NoUser \notin User
    /\ MaxLines \in [Session -> Nat]
    /\ Commands \subseteq CommandKind
    /\ RecursiveMutex \in BOOLEAN

VARIABLES
    running,      \* running_, and the acceptor being open
    byName,       \* sessions_by_username_
    allSessions,  \* all_sessions_
    holder,       \* the worker that owns sessions_mutex_
    sock,         \* the connection of each session
    reading,      \* an async_read_until is outstanding
    lines,        \* lines the client may still send
    writer,       \* the chain of async_writes behind write_queue_
    username,     \* username_
    auth,         \* authenticated_
    token,        \* session_token_: the n-th token of the session, 0 when empty
    rows,         \* active rows of the sessions table, as <<session, token>>
    kept,         \* history: those of them whose deletion was tried and failed
    accounts,     \* users table
    view,         \* users named by the last list queued to the session
    frame         \* the handler each worker is in

vars == <<running, byName, allSessions, holder, sock, reading, lines, writer,
          username, auth, token, rows, kept, accounts, view, frame>>

-----------------------------------------------------------------------------
PC == {"idle", "checkOnline", "createSession", "publish", "addSession",
       "listAdd", "welcome", "createUser", "broadcast", "private", "users",
       "usersReply", "remove", "listRemove", "sweep"}

(* Which completion handler runs: handleRead without error, handleRead     *)
(* with an error, handleWrite with an error, or none of a session's.       *)
Via == {"read", "readError", "writeError", "none"}

Frame == [pc : PC, s : Session \cup {NoSession}, u : User \cup {NoUser},
          via : Via, snap : SUBSET User]

Call(p, s, u, v) == [pc |-> p, s |-> s, u |-> u, via |-> v, snap |-> {}]

Idle == Call("idle", NoSession, NoUser, "none")

SockState == {"free", "handshake", "open", "gone", "closed"}

(* "empty": write_queue_ is empty; "inFlight": its head is being written;  *)
(* "failed": it is not empty and no write will ever be started again.      *)
WriterState == {"empty", "inFlight", "failed"}

TypeOK ==
    /\ running \in BOOLEAN
    /\ byName \in [User -> Session \cup {NoSession}]
    /\ allSessions \subseteq Session
    /\ holder \in Worker \cup {NoWorker}
    /\ sock \in [Session -> SockState]
    /\ reading \in [Session -> BOOLEAN]
    /\ lines \in [Session -> Nat]
    /\ writer \in [Session -> WriterState]
    /\ username \in [Session -> User \cup {NoUser}]
    /\ auth \in [Session -> BOOLEAN]
    /\ token \in [Session -> Nat]
    /\ rows \subseteq Session \X Nat
    /\ kept \subseteq rows
    /\ accounts \subseteq User
    /\ view \in [Session -> SUBSET User]
    /\ frame \in [Worker -> Frame]

Online == {u \in User : byName[u] # NoSession}

Registered == {s \in Session : \E u \in User : byName[u] = s}

-----------------------------------------------------------------------------
Init ==
    /\ running = TRUE
    /\ byName = [u \in User |-> NoSession]
    /\ allSessions = {}
    /\ holder = NoWorker
    /\ sock = [s \in Session |-> "free"]
    /\ reading = [s \in Session |-> FALSE]
    /\ lines = MaxLines
    /\ writer = [s \in Session |-> "empty"]
    /\ username = [s \in Session |-> NoUser]
    /\ auth = [s \in Session |-> FALSE]
    /\ token = [s \in Session |-> 0]
    /\ rows = {}
    /\ kept = {}
    /\ accounts \in SUBSET User
    /\ view = [s \in Session |-> {}]
    /\ frame = [t \in Worker |-> Idle]

(* sessions_mutex_.lock() returns: it is free, or it is recursive and ours.*)
CanLock(t) == holder = NoWorker \/ (RecursiveMutex /\ holder = t)

At(t, p) == frame[t].pc = p

Goto(t, p) == frame' = [frame EXCEPT ![t].pc = p]

Return(t) == frame' = [frame EXCEPT ![t] = Idle]

(* Session::sendMessage for every session of S: a write is started only    *)
(* when the queue was empty.                                               *)
Push(S) ==
    writer' = [s \in Session |->
                 IF s \in S /\ writer[s] = "empty" THEN "inFlight" ELSE writer[s]]

(* The end of handleRead: startRead() after processMessage().              *)
ReturnAndRead(t) ==
    /\ Return(t)
    /\ reading' = [reading EXCEPT ![frame[t].s] = TRUE]

(* deleteSession of the current token of every session of S: a statement   *)
(* that fails leaves its row active, and nobody looks at the answer.       *)
DeleteRows(S) ==
    \E failed \in SUBSET S :
        /\ rows' = rows \ {<<s, token[s]>> : s \in S \ failed}
        /\ kept' = (kept \cup {<<s, token[s]>> : s \in failed}) \cap rows'

(* Mutant: stop() without deleteSession.                                   *)
StopSessionKeepsRow(s) ==
    /\ sock' = [sock EXCEPT ![s] = "closed"]
    /\ UNCHANGED <<rows, kept>>

(* Session::stop: close the socket, deactivate the row of the token.       *)
StopSession(s) ==
    /\ sock' = [sock EXCEPT ![s] = "closed"]
    /\ DeleteRows({s})

-----------------------------------------------------------------------------
(* Connections *)

(* handleAccept without error, then startAccept.                           *)
Accept(t, s) ==
    /\ frame[t] = Idle
    /\ running
    /\ sock[s] = "free"
    /\ sock' = [sock EXCEPT ![s] = "handshake"]
    /\ UNCHANGED <<running, byName, allSessions, holder, reading, lines, writer,
                   username, auth, token, rows, kept, accounts, view, frame>>

HandshakeDone(t, s) ==
    /\ frame[t] = Idle
    /\ sock[s] = "handshake"
    /\ sock' = [sock EXCEPT ![s] = "open"]
    /\ reading' = [reading EXCEPT ![s] = TRUE]
    /\ UNCHANGED <<running, byName, allSessions, holder, lines, writer,
                   username, auth, token, rows, kept, accounts, view, frame>>

(* The last reference to the session goes: its socket is closed.           *)
HandshakeFails(t, s) ==
    /\ frame[t] = Idle
    /\ sock[s] = "handshake"
    /\ sock' = [sock EXCEPT ![s] = "closed"]
    /\ UNCHANGED <<running, byName, allSessions, holder, reading, lines, writer,
                   username, auth, token, rows, kept, accounts, view, frame>>

(* The client closes its end, or the connection is reset.                  *)
PeerCloses(s) ==
    /\ sock[s] = "open"
    /\ sock' = [sock EXCEPT ![s] = "gone"]
    /\ UNCHANGED <<running, byName, allSessions, holder, reading, lines, writer,
                   username, auth, token, rows, kept, accounts, view, frame>>

-----------------------------------------------------------------------------
(* handleRead without error: one line.  Lines that were received before    *)
(* the peer left or the socket was closed are still in read_buffer_ and    *)
(* are processed all the same.                                             *)

Dispatch(t, s, f) ==
    /\ frame[t] = Idle
    /\ reading[s]
    /\ lines[s] > 0
    /\ lines' = [lines EXCEPT ![s] = @ - 1]
    /\ reading' = [reading EXCEPT ![s] = FALSE]
    /\ frame' = [frame EXCEPT ![t] = f]
    /\ UNCHANGED <<running, byName, allSessions, holder, sock, writer,
                   username, token, rows, kept, accounts, view>>

(* Answered in place: a line too long, a malformed or unknown line before  *)
(* login, a login or a registration the users table refuses, a malformed   *)
(* private message (the one case without an answer).                       *)
RefusedLine(t, s) ==
    /\ "refused" \in Commands
    /\ frame[t] = Idle
    /\ reading[s]
    /\ lines[s] > 0
    /\ lines' = [lines EXCEPT ![s] = @ - 1]
    /\ \/ Push({s})
       \/ auth[s] /\ UNCHANGED writer
    /\ UNCHANGED <<running, byName, allSessions, holder, sock, reading, username,
                   auth, token, rows, kept, accounts, view, frame>>

(* Mutant: logged-in clients may log in as well.                           *)
LoginLineAnyTime(t, s, u) ==
    /\ "login" \in Commands
    /\ u \in accounts
    /\ Dispatch(t, s, Call("checkOnline", s, u, "read"))
    /\ UNCHANGED auth

(* handleLogin up to the database's verdict, which is good.                *)
LoginLine(t, s, u) ==
    /\ "login" \in Commands
    /\ ~auth[s]
    /\ u \in accounts
    /\ Dispatch(t, s, Call("checkOnline", s, u, "read"))
    /\ UNCHANGED auth

(* handleRegister up to "user already exists", which it does not.          *)
RegisterLine(t, s, u) ==
    /\ "register" \in Commands
    /\ ~auth[s]
    /\ u \notin accounts
    /\ Dispatch(t, s, Call("createUser", s, u, "read"))
    /\ UNCHANGED auth

BroadcastLine(t, s) ==
    /\ "broadcast" \in Commands
    /\ auth[s]
    /\ Dispatch(t, s, Call("broadcast", s, NoUser, "read"))
    /\ UNCHANGED auth

PrivateLine(t, s, u) ==
    /\ "private" \in Commands
    /\ auth[s]
    /\ Dispatch(t, s, Call("private", s, u, "read"))
    /\ UNCHANGED auth

UsersLine(t, s) ==
    /\ "users" \in Commands
    /\ auth[s]
    /\ Dispatch(t, s, Call("users", s, NoUser, "read"))
    /\ UNCHANGED auth

LogoutLine(t, s) ==
    /\ "logout" \in Commands
    /\ auth[s]
    /\ auth' = [auth EXCEPT ![s] = FALSE]
    /\ Dispatch(t, s, Call("remove", s, NoUser, "read"))

-----------------------------------------------------------------------------
(* handleLogin *)

(* isUserOnline: the lock is released before the answer is used.           *)
CheckOnline(t) ==
    /\ At(t, "checkOnline")
    /\ CanLock(t)
    /\ IF byName[frame[t].u] # NoSession
         THEN Push({frame[t].s}) /\ ReturnAndRead(t)
         ELSE Goto(t, "createSession") /\ UNCHANGED <<writer, reading>>
    /\ UNCHANGED <<running, byName, allSessions, holder, sock, lines, username,
                   auth, token, rows, kept, accounts, view>>

(* Mutant: the row is written for the user, not for the session.           *)
CreateSessionOfUser(t) ==
    LET s == frame[t].s IN
    /\ At(t, "createSession")
    /\ token' = [token EXCEPT ![s] = @ + 1]
    /\ rows' = rows \cup {<<frame[t].u, token[s] + 1>>}
    /\ Goto(t, "publish")
    /\ UNCHANGED <<running, byName, allSessions, holder, sock, reading, lines,
                   writer, username, auth, kept, accounts, view>>

(* generateSessionToken, Database::createSession and updateLastLogin.      *)
CreateSession(t) ==
    LET s == frame[t].s IN
    /\ At(t, "createSession")
    /\ token' = [token EXCEPT ![s] = @ + 1]
    /\ \/ /\ rows' = rows \cup {<<s, token[s] + 1>>}
          /\ Goto(t, "publish")
          /\ UNCHANGED <<writer, reading>>
       \/ /\ Push({s})
          /\ ReturnAndRead(t)
          /\ UNCHANGED rows
    /\ UNCHANGED <<running, byName, allSessions, holder, sock, lines, username,
                   auth, kept, accounts, view>>

Publish(t) ==
    LET s == frame[t].s IN
    /\ At(t, "publish")
    /\ username' = [username EXCEPT ![s] = frame[t].u]
    /\ auth' = [auth EXCEPT ![s] = TRUE]
    /\ Goto(t, "addSession")
    /\ UNCHANGED <<running, byName, allSessions, holder, sock, reading, lines,
                   writer, token, rows, kept, accounts, view>>

(* addSession up to its call of getOnlineUsers: register the session and   *)
(* tell the other users.                                                   *)
AddSession(t) ==
    LET s == frame[t].s IN
    /\ At(t, "addSession")
    /\ CanLock(t)
    /\ holder' = t
    /\ allSessions' = allSessions \cup {s}
    /\ byName' = [byName EXCEPT ![username[s]] = s]
    /\ Push({byName[u] : u \in Online \ {username[s]}})
    /\ Goto(t, "listAdd")
    /\ UNCHANGED <<running, sock, reading, lines, username, auth, token, rows, kept,
                   accounts, view>>

(* getOnlineUsers locks sessions_mutex_ again; then the list is queued to  *)
(* every registered session.                                               *)
SendUserList(t) ==
    /\ CanLock(t)
    /\ Push(Registered)
    /\ view' = [s \in Session |-> IF s \in Registered THEN Online ELSE view[s]]
    /\ holder' = NoWorker

(* Mutant: addSession releases the mutex without locking it again.         *)
ListAddNoRelock(t) ==
    /\ At(t, "listAdd")
    /\ holder' = NoWorker
    /\ Goto(t, "welcome")
    /\ UNCHANGED <<running, byName, allSessions, sock, reading, lines, writer,
                   username, auth, token, rows, kept, accounts, view>>

ListAdd(t) ==
    /\ At(t, "listAdd")
    /\ SendUserList(t)
    /\ Goto(t, "welcome")
    /\ UNCHANGED <<running, byName, allSessions, sock, reading, lines, username,
                   auth, token, rows, kept, accounts>>

(* Mutant: handleRead returns after a login without startRead.             *)
WelcomeNoRead(t) ==
    /\ At(t, "welcome")
    /\ Push({frame[t].s})
    /\ Return(t)
    /\ UNCHANGED <<running, byName, allSessions, holder, sock, reading, lines,
                   username, auth, token, rows, kept, accounts, view>>

Welcome(t) ==
    /\ At(t, "welcome")
    /\ Push({frame[t].s})
    /\ ReturnAndRead(t)
    /\ UNCHANGED <<running, byName, allSessions, holder, sock, lines, username,
                   auth, token, rows, kept, accounts, view>>

-----------------------------------------------------------------------------
(* The other commands *)

(* Database::createUser: the UNIQUE column refuses a second row, and the   *)
(* statement can fail.                                                     *)
CreateUser(t) ==
    /\ At(t, "createUser")
    /\ accounts' \in {accounts, accounts \cup {frame[t].u}}
    /\ Push({frame[t].s})
    /\ ReturnAndRead(t)
    /\ UNCHANGED <<running, byName, allSessions, holder, sock, lines, username,
                   auth, token, rows, kept, view>>

Broadcast(t) ==
    /\ At(t, "broadcast")
    /\ CanLock(t)
    /\ Push(Registered \ {frame[t].s})
    /\ ReturnAndRead(t)
    /\ UNCHANGED <<running, byName, allSessions, holder, sock, lines, username,
                   auth, token, rows, kept, accounts, view>>

(* The recipient when online, and an answer to the sender either way.      *)
Private(t) ==
    /\ At(t, "private")
    /\ CanLock(t)
    /\ Push({byName[frame[t].u], frame[t].s})
    /\ ReturnAndRead(t)
    /\ UNCHANGED <<running, byName, allSessions, holder, sock, lines, username,
                   auth, token, rows, kept, accounts, view>>

(* The "users" command: getOnlineUsers is a snapshot ...                   *)
Users(t) ==
    /\ At(t, "users")
    /\ CanLock(t)
    /\ frame' = [frame EXCEPT ![t].pc = "usersReply",
                              ![t].snap = Online \ {username[frame[t].s]}]
    /\ UNCHANGED <<running, byName, allSessions, holder, sock, reading, lines,
                   writer, username, auth, token, rows, kept, accounts, view>>

(* ... that is queued after the mutex has been released.                   *)
UsersReply(t) ==
    /\ At(t, "usersReply")
    /\ view' = [view EXCEPT ![frame[t].s] = frame[t].snap]
    /\ Push({frame[t].s})
    /\ ReturnAndRead(t)
    /\ UNCHANGED <<running, byName, allSessions, holder, sock, lines, username,
                   auth, token, rows, kept, accounts>>

-----------------------------------------------------------------------------
(* Failures and removal *)

(* Mutant: the error is only logged.                                       *)
ReadFailsLogged(t, s) ==
    /\ frame[t] = Idle
    /\ reading[s]
    /\ sock[s] \in {"gone", "closed"}
    /\ reading' = [reading EXCEPT ![s] = FALSE]
    /\ UNCHANGED <<running, byName, allSessions, holder, sock, lines, writer,
                   username, auth, token, rows, kept, accounts, view, frame>>

(* handleRead with an error: end of file, or the socket was closed here.   *)
ReadFails(t, s) ==
    /\ frame[t] = Idle
    /\ reading[s]
    /\ sock[s] \in {"gone", "closed"}
    /\ reading' = [reading EXCEPT ![s] = FALSE]
    /\ frame' = [frame EXCEPT ![t] = Call("remove", s, NoUser, "readError")]
    /\ UNCHANGED <<running, byName, allSessions, holder, sock, lines, writer,
                   username, auth, token, rows, kept, accounts, view>>

(* handleWrite without error, for the last message of the queue; the       *)
(* earlier ones leave the chain in flight.                                 *)
WriteDone(t, s) ==
    /\ frame[t] = Idle
    /\ writer[s] = "inFlight"
    /\ sock[s] \in {"open", "gone"}
    /\ writer' = [writer EXCEPT ![s] = "empty"]
    /\ UNCHANGED <<running, byName, allSessions, holder, sock, reading, lines,
                   username, auth, token, rows, kept, accounts, view, frame>>

(* Mutant: the error is only logged.                                       *)
WriteFailsLogged(t, s) ==
    /\ frame[t] = Idle
    /\ writer[s] = "inFlight"
    /\ sock[s] \in {"gone", "closed"}
    /\ writer' = [writer EXCEPT ![s] = "failed"]
    /\ UNCHANGED <<running, byName, allSessions, holder, sock, reading, lines,
                   username, auth, token, rows, kept, accounts, view, frame>>

(* handleWrite with an error: nothing is popped, so the queue never looks  *)
(* empty again and no later sendMessage starts a write.                    *)
WriteFails(t, s) ==
    /\ frame[t] = Idle
    /\ writer[s] = "inFlight"
    /\ sock[s] \in {"gone", "closed"}
    /\ writer' = [writer EXCEPT ![s] = "failed"]
    /\ frame' = [frame EXCEPT ![t] = Call("remove", s, NoUser, "writeError")]
    /\ UNCHANGED <<running, byName, allSessions, holder, sock, reading, lines,
                   username, auth, token, rows, kept, accounts, view>>

(* Mutant: startRead after every removal.                                  *)
AfterRemoveReads(t) == ReturnAndRead(t)

(* Back from removeSession: only a logout goes on to startRead.            *)
AfterRemove(t) ==
    /\ Return(t)
    /\ IF frame[t].via = "read"
         THEN reading' = [reading EXCEPT ![frame[t].s] = TRUE]
         ELSE UNCHANGED reading

(* removeSession of a session that never had a name.                       *)
RemoveNameless(t) ==
    LET s == frame[t].s IN
    /\ At(t, "remove")
    /\ CanLock(t)
    /\ username[s] = NoUser
    /\ allSessions' = allSessions \ {s}
    /\ StopSession(s)
    /\ AfterRemove(t)
    /\ UNCHANGED <<running, byName, holder, lines, writer, username, auth, token,
                   accounts, view>>

(* Mutant: all_sessions_.erase is forgotten.                               *)
RemoveKeepsSession(t) ==
    LET s == frame[t].s
        rest == Online \ {username[s]} IN
    /\ At(t, "remove")
    /\ CanLock(t)
    /\ username[s] # NoUser
    /\ holder' = t
    /\ byName' = [byName EXCEPT ![username[s]] = NoSession]
    /\ Push({byName[u] : u \in rest})
    /\ Goto(t, "listRemove")
    /\ UNCHANGED <<running, allSessions, sock, reading, lines, username, auth,
                   token, rows, kept, accounts, view>>

(* removeSession up to getOnlineUsers: the entry of the NAME goes, whoever *)
(* holds it, and every user left is told.                                  *)
Remove(t) ==
    LET s == frame[t].s
        rest == Online \ {username[s]} IN
    /\ At(t, "remove")
    /\ CanLock(t)
    /\ username[s] # NoUser
    /\ holder' = t
    /\ allSessions' = allSessions \ {s}
    /\ byName' = [byName EXCEPT ![username[s]] = NoSession]
    /\ Push({byName[u] : u \in rest})
    /\ Goto(t, "listRemove")
    /\ UNCHANGED <<running, sock, reading, lines, username, auth, token, rows, kept,
                   accounts, view>>

(* Mutant: the others are not sent the new list.                           *)
ListRemoveSilent(t) ==
    /\ At(t, "listRemove")
    /\ holder' = NoWorker
    /\ StopSession(frame[t].s)
    /\ AfterRemove(t)
    /\ UNCHANGED <<running, byName, allSessions, lines, writer, username, auth,
                   token, accounts, view>>

ListRemove(t) ==
    /\ At(t, "listRemove")
    /\ SendUserList(t)
    /\ StopSession(frame[t].s)
    /\ AfterRemove(t)
    /\ UNCHANGED <<running, byName, allSessions, lines, username, auth, token,
                   accounts>>

-----------------------------------------------------------------------------
(* Shutdown *)

(* handleStop, the one signal the server waits for: running_ is cleared    *)
(* and the acceptor closed before the mutex is asked for.                  *)
StopBegin(t) ==
    /\ frame[t] = Idle
    /\ running
    /\ running' = FALSE
    /\ frame' = [frame EXCEPT ![t] = Call("sweep", NoSession, NoUser, "none")]
    /\ UNCHANGED <<byName, allSessions, holder, sock, reading, lines, writer,
                   username, auth, token, rows, kept, accounts, view>>

StopSweep(t) ==
    /\ At(t, "sweep")
    /\ CanLock(t)
    /\ sock' = [s \in Session |-> IF s \in allSessions THEN "closed" ELSE sock[s]]
    /\ DeleteRows(allSessions)
    /\ allSessions' = {}
    /\ byName' = [u \in User |-> NoSession]
    /\ Return(t)
    /\ UNCHANGED <<running, holder, reading, lines, writer, username, auth, token,
                   accounts, view>>

(* io_context.run() returns in every worker: no operation is outstanding.  *)
Terminated ==
    /\ ~running
    /\ \A t \in Worker : frame[t] = Idle
    /\ \A s \in Session : /\ sock[s] \in {"free", "closed"}
                          /\ ~reading[s]
                          /\ writer[s] # "inFlight"
    /\ UNCHANGED vars

-----------------------------------------------------------------------------
HandlerStep(t) ==
    \/ CheckOnline(t) \/ CreateSession(t) \/ Publish(t) \/ AddSession(t)
    \/ ListAdd(t) \/ Welcome(t) \/ CreateUser(t) \/ Broadcast(t) \/ Private(t)
    \/ Users(t) \/ UsersReply(t) \/ RemoveNameless(t) \/ Remove(t)
    \/ ListRemove(t) \/ StopSweep(t)

Line(t, s) ==
    \/ RefusedLine(t, s)
    \/ \E u \in User : \/ LoginLine(t, s, u)
                       \/ RegisterLine(t, s, u)
                       \/ PrivateLine(t, s, u)
    \/ BroadcastLine(t, s) \/ UsersLine(t, s) \/ LogoutLine(t, s)

Network(t, s) ==
    \/ Accept(t, s) \/ HandshakeDone(t, s) \/ HandshakeFails(t, s)
    \/ ReadFails(t, s) \/ WriteDone(t, s) \/ WriteFails(t, s)

Next ==
    \/ \E t \in Worker : HandlerStep(t) \/ StopBegin(t)
    \/ \E t \in Worker, s \in Session : Line(t, s) \/ Network(t, s)
    \/ \E s \in Session : PeerCloses(s)
    \/ Terminated

(* A thread that can go on does, and a completion that is due is delivered.*)
(* Nothing is assumed of the peers, of slow writes or of the signal.       *)
Fairness ==
    /\ \A t \in Worker : WF_vars(HandlerStep(t))
    /\ \A s \in Session : /\ WF_vars(\E t \in Worker : ReadFails(t, s))
                          /\ WF_vars(\E t \in Worker : WriteFails(t, s))

Spec == Init /\ [][Next]_vars

FairSpec == Spec /\ Fairness

-----------------------------------------------------------------------------
(* Safety *)

(* A worker that is in the part of handleRead which ends in startRead, or  *)
(* in the removal that ends the reading of s.                              *)
ReadHandler(t, s) == frame[t].s = s /\ frame[t].via \in {"read", "readError"}

(* s is still being read: the one thing that makes the server notice that  *)
(* the connection is over.                                                 *)
BeingRead(s) == reading[s] \/ \E t \in Worker : ReadHandler(t, s)

(* async_read_until on one stream and one read_buffer_ must not overlap,   *)
(* and processMessage touches the session's fields without a lock: at any  *)
(* time one read of a session is outstanding or one worker is in its read  *)
(* handler, never two (session.cpp:35-65, with the restart after logout).  *)
OneReader ==
    \A s \in Session :
        /\ reading[s] => \A t \in Worker : ~ReadHandler(t, s)
        /\ \A t1, t2 \in Worker : ReadHandler(t1, s) /\ ReadHandler(t2, s) => t1 = t2

(* The entry of a name holds a session that bears this name, although      *)
(* username_ outlives a logout and a client may log in again under another *)
(* name on the same connection: a private message for u never goes to a    *)
(* session of somebody else (server.cpp:132, 168, session.cpp:131, 187).   *)
NameMatchesSession ==
    \A u \in User, s \in Session : byName[u] = s => username[s] = u

(* No ghosts: as long as a session is in one of the server's containers it *)
(* is being read, so that the loss of its connection removes it.  A login  *)
(* whose connection was closed by another worker meanwhile registers a     *)
(* session that is already dead, and must still get rid of it.             *)
NoGhosts ==
    \A s \in Session : s \in Registered \cup allSessions => BeingRead(s)

(* A write chain that broke never restarts, so its session is closed, or a *)
(* worker is about to close it: no client stays connected that will never  *)
(* be written to again (session.cpp:273, 284-299).                         *)
BrokenWriterIsRemoved ==
    \A s \in Session : writer[s] = "failed" =>
        \/ sock[s] = "closed"
        \/ \E t \in Worker : frame[t].s = s /\ frame[t].pc \in {"remove", "listRemove"}

(* No row of the sessions table is forgotten: an active row is that of the *)
(* current token of a session that is still read, or its deletion was tried*)
(* and the statement failed.  A removal between createSession and          *)
(* addSession must not leave a token, valid for 24 hours, that nobody ever *)
(* tries to withdraw (session.cpp:166-191, 301-309; database.cpp:346).     *)
NoLeakedRows ==
    \A r \in rows \ kept : r[2] = token[r[1]] /\ BeingRead(r[1])

(* What the clients were told is true: with the mutex free, the last list  *)
(* queued to a registered session names the users registered now, itself   *)
(* apart (server.cpp:142-155, 176-189).                                    *)
ViewCurrent ==
    holder = NoWorker =>
        \A s \in Registered : view[s] \ {username[s]} = Online \ {username[s]}

(* A name is logged in at most once (session.cpp:159 "Check if user is     *)
(* already online").                                                       *)
OneSessionPerUser ==
    \A s1, s2 \in Session :
        auth[s1] /\ auth[s2] /\ username[s1] = username[s2] => s1 = s2

(* With the std::mutex of server.hpp:54 the first login is the last thing  *)
(* the map ever sees: a worker that holds sessions_mutex_ waits for itself *)
(* in getOnlineUsers, and no step of anybody ever gives the mutex back     *)
(* (server.cpp:128, 143, 225).                                             *)
MutexNeverReleased == [][holder # NoWorker => holder' = holder]_vars

-----------------------------------------------------------------------------
(* Liveness *)

(* A client that is gone is in the end off the map for good, so that its   *)
(* name can log in again.                                                  *)
DepartedAreForgotten ==
    \A s \in Session : (sock[s] = "gone") ~> [](s \notin Registered \cup allSessions)

(* Whoever is registered is sent a list of the users (server.cpp:142).     *)
RegisteredGetList ==
    \A s \in Session : (s \in Registered) ~> (s \notin Registered \/ view[s] # {})
=============================================================================
