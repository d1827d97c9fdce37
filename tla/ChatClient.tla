----------------------------- MODULE ChatClient -----------------------------
(***************************************************************************)
(* The terminal client: ChatClient (src/client/client.cpp) driven by       *)
(* TerminalUI (src/client/terminal_ui.cpp) in the main thread and by the   *)
(* io_context that main.cpp runs in a second thread, talking to one        *)
(* Session of the server (src/server/session.cpp) over a connection.       *)
(*                                                                         *)
(* The two directions of the connection, with the queue of the sender, are *)
(* one FIFO each.  Lines that only put text on the screen are left out.    *)
(***************************************************************************)
EXTENDS Naturals, Sequences

CONSTANTS
    User,          \* names typed at the prompts
    NoUser,
    Choices,       \* what the person at the terminal does
    MaxRequests    \* bound: lines the client sends

Kind == {"login", "register", "chat"}

ASSUME ClientAssumption ==
    /\ NoUser \notin User
    /\ Choices \subseteq Kind
    /\ MaxRequests \in Nat

VARIABLES
    io,             \* the io thread: not in run() yet, in it, out of it
    ui,             \* where the main thread is in TerminalUI::run
    conn,           \* the connection
    connected,      \* connected_
    authenticated,  \* authenticated_
    me,             \* username_
    reading,        \* an async_read_until is outstanding
    toServer, toClient,
    srvUser,        \* the server's username_ while its authenticated_ holds
    granted,        \* history: the server accepted a registration
    sent            \* how many lines of each kind were sent so far

vars == <<io, ui, conn, connected, authenticated, me, reading, toServer,
          toClient, srvUser, granted, sent>>

Request == [kind : {"login", "register"}, user : User]
           \cup [kind : {"chat"}, user : {NoUser}]

TypeOK ==
    /\ io \in {"starting", "running", "returned"}
    /\ ui \in {"start", "waitConnect", "menu", "waitAuth", "chat", "ended"}
    /\ conn \in {"none", "connecting", "handshake", "up", "down"}
    /\ connected \in BOOLEAN
    /\ authenticated \in BOOLEAN
    /\ me \in User \cup {NoUser}
    /\ reading \in BOOLEAN
    /\ toServer \in Seq(Request)
    /\ toClient \in Seq({"success", "failed"})
    /\ srvUser \in User \cup {NoUser}
    /\ granted \in BOOLEAN
    /\ sent \in [Kind -> 0 .. MaxRequests]

Init ==
    /\ io = "starting"
    /\ ui = "start"
    /\ conn = "none"
    /\ connected = FALSE
    /\ authenticated = FALSE
    /\ me = NoUser
    /\ reading = FALSE
    /\ toServer = << >>
    /\ toClient = << >>
    /\ srvUser = NoUser
    /\ granted = FALSE
    /\ sent = [kind \in Kind |-> 0]

-----------------------------------------------------------------------------
(* The io thread *)

(* io_context.run(), started before ui.run(): with nothing posted yet it   *)
(* returns at once, and nothing posted later is ever executed.             *)
IoRun ==
    /\ io = "starting"
    /\ io' = IF conn = "none" THEN "returned" ELSE "running"
    /\ UNCHANGED <<ui, conn, connected, authenticated, me, reading, toServer,
                   toClient, srvUser, granted, sent>>

(* run() returns when no operation is outstanding.                         *)
IoOutOfWork ==
    /\ io = "running"
    /\ conn = "down"
    /\ ~reading
    /\ io' = "returned"
    /\ UNCHANGED <<ui, conn, connected, authenticated, me, reading, toServer,
                   toClient, srvUser, granted, sent>>

HandleConnect ==
    /\ io = "running"
    /\ conn = "connecting"
    /\ \/ conn' = "handshake" /\ UNCHANGED connected
       \/ conn' = "down" /\ connected' = FALSE
    /\ UNCHANGED <<io, ui, authenticated, me, reading, toServer, toClient,
                   srvUser, granted, sent>>

HandleHandshake ==
    /\ io = "running"
    /\ conn = "handshake"
    /\ \/ conn' = "up" /\ connected' = TRUE /\ reading' = TRUE
       \/ conn' = "down" /\ connected' = FALSE /\ UNCHANGED reading
    /\ UNCHANGED <<io, ui, authenticated, me, toServer, toClient, srvUser, granted, sent>>

(* Mutant: any answer is taken for a success.                              *)
HandleReadAny ==
    /\ io = "running"
    /\ reading
    /\ toClient # << >>
    /\ authenticated' = TRUE
    /\ toClient' = Tail(toClient)
    /\ reading' = connected
    /\ UNCHANGED <<io, ui, conn, connected, me, toServer, srvUser, granted, sent>>

(* Mutant: the next read is not started after an authentication failure.   *)
HandleReadOnce ==
    /\ io = "running"
    /\ reading
    /\ toClient # << >>
    /\ authenticated' = (Head(toClient) = "success")
    /\ toClient' = Tail(toClient)
    /\ reading' = (Head(toClient) = "success" /\ connected)
    /\ UNCHANGED <<io, ui, conn, connected, me, toServer, srvUser, granted, sent>>

(* handleRead without error: processMessage takes ANY "auth:success" for a *)
(* login; startRead goes on only while connected_.                         *)
HandleRead ==
    /\ io = "running"
    /\ reading
    /\ toClient # << >>
    /\ authenticated' = (Head(toClient) = "success")
    /\ toClient' = Tail(toClient)
    /\ reading' = connected
    /\ UNCHANGED <<io, ui, conn, connected, me, toServer, srvUser, granted, sent>>

(* Mutant: the error is only printed.                                      *)
ConnectionErrorPrinted ==
    /\ io = "running"
    /\ conn = "down"
    /\ reading
    /\ reading' = FALSE
    /\ UNCHANGED <<io, ui, conn, connected, authenticated, me, toServer, toClient,
                   srvUser, granted, sent>>

(* handleRead with an error.                                               *)
ConnectionError ==
    /\ io = "running"
    /\ conn = "down"
    /\ reading
    /\ connected' = FALSE
    /\ authenticated' = FALSE
    /\ reading' = FALSE
    /\ UNCHANGED <<io, ui, conn, me, toServer, toClient, srvUser, granted, sent>>

(* handleWrite with an error, for a line that was under way: the read is   *)
(* still outstanding.                                                      *)
WriteError ==
    /\ io = "running"
    /\ conn = "down"
    /\ connected
    /\ \E kind \in Kind : sent[kind] > 0
    /\ connected' = FALSE
    /\ authenticated' = FALSE
    /\ UNCHANGED <<io, ui, conn, me, reading, toServer, toClient, srvUser, granted,
                   sent>>

-----------------------------------------------------------------------------
(* The main thread: TerminalUI *)

(* TerminalUI::run calls connect(), which posts async_connect or throws.   *)
UiConnect ==
    /\ ui = "start"
    /\ \/ ui' = "waitConnect" /\ conn' = "connecting"
       \/ ui' = "ended" /\ UNCHANGED conn
    /\ UNCHANGED <<io, connected, authenticated, me, reading, toServer, toClient,
                   srvUser, granted, sent>>

(* Two seconds later.                                                      *)
UiConnected ==
    /\ ui = "waitConnect"
    /\ ui' = IF connected THEN "menu" ELSE "ended"
    /\ UNCHANGED <<io, conn, connected, authenticated, me, reading, toServer,
                   toClient, srvUser, granted, sent>>

(* Mutant: the name is not part of the request.                            *)
SendAnonymous(kind, u) ==
    /\ sent["login"] + sent["register"] + sent["chat"] < MaxRequests
    /\ sent' = [sent EXCEPT ![kind] = @ + 1]
    /\ toServer' = Append(toServer, [kind |-> kind, user |-> NoUser])

(* sendRawMessage: nothing is queued when not connected.                   *)
Send(kind, u) ==
    /\ sent["login"] + sent["register"] + sent["chat"] < MaxRequests
    /\ sent' = [sent EXCEPT ![kind] = @ + 1]
    /\ toServer' = IF conn = "up"
                     THEN Append(toServer, [kind |-> kind, user |-> u])
                     ELSE toServer

(* handleLogin: the name is taken over before the server has answered.     *)
UiLogin(u) ==
    /\ "login" \in Choices
    /\ ui = "menu"
    /\ connected
    /\ Send("login", u)
    /\ me' = u
    /\ ui' = "waitAuth"
    /\ UNCHANGED <<io, conn, connected, authenticated, reading, toClient, srvUser, granted>>

(* Half a second later isAuthenticated() is believed.                      *)
UiLoggedIn ==
    /\ ui = "waitAuth"
    /\ ui' = IF authenticated THEN "chat" ELSE "menu"
    /\ UNCHANGED <<io, conn, connected, authenticated, me, reading, toServer,
                   toClient, srvUser, granted, sent>>

UiRegister(u) ==
    /\ "register" \in Choices
    /\ ui = "menu"
    /\ connected
    /\ Send("register", u)
    /\ UNCHANGED <<io, ui, conn, connected, authenticated, me, reading, toClient,
                   srvUser, granted>>

(* chatMode: a message, or the request of the user list.                   *)
UiChat ==
    /\ "chat" \in Choices
    /\ ui = "chat"
    /\ authenticated
    /\ connected
    /\ Send("chat", NoUser)
    /\ UNCHANGED <<io, ui, conn, connected, authenticated, me, reading, toClient,
                   srvUser, granted>>

(* "quit", or the loop sees that the client is not logged in: back to the  *)
(* menu, without a logout.                                                 *)
UiLeaveChat ==
    /\ ui = "chat"
    /\ ui' = "menu"
    /\ UNCHANGED <<io, conn, connected, authenticated, me, reading, toServer,
                   toClient, srvUser, granted, sent>>

(* The end of run(): disconnect() closes the socket of a connected client. *)
UiExit ==
    /\ ui = "menu"
    /\ ui' = "ended"
    /\ connected' = FALSE
    /\ authenticated' = IF connected THEN FALSE ELSE authenticated
    /\ conn' = IF connected THEN "down" ELSE conn
    /\ UNCHANGED <<io, me, reading, toServer, toClient, srvUser, granted, sent>>

(* Mutant: main() only joins the io thread.                                *)
MainJoins ==
    /\ ui = "ended"
    /\ io # "returned"
    /\ UNCHANGED vars

(* main(): io_context.stop() after ui.run(), then join.                    *)
MainStops ==
    /\ ui = "ended"
    /\ io # "returned"
    /\ io' = "returned"
    /\ UNCHANGED <<ui, conn, connected, authenticated, me, reading, toServer,
                   toClient, srvUser, granted, sent>>

-----------------------------------------------------------------------------
(* The server's session and the network *)

(* processMessage before login: a verdict on a login or a registration.    *)
ServerAuth ==
    /\ conn = "up"
    /\ toServer # << >>
    /\ srvUser = NoUser
    /\ Head(toServer).kind \in {"login", "register"}
    /\ toServer' = Tail(toServer)
    /\ \/ /\ toClient' = Append(toClient, "success")
          /\ IF Head(toServer).kind = "login"
             THEN srvUser' = Head(toServer).user /\ UNCHANGED granted
             ELSE granted' = TRUE /\ UNCHANGED srvUser
       \/ /\ toClient' = Append(toClient, "failed")
          /\ UNCHANGED <<srvUser, granted>>
    /\ UNCHANGED <<io, ui, conn, connected, authenticated, me, reading, sent>>

(* After login every line that is no command is broadcast, the text of a   *)
(* login or a registration included; before it, chat gets an error.        *)
ServerChat ==
    /\ conn = "up"
    /\ toServer # << >>
    /\ srvUser # NoUser \/ Head(toServer).kind = "chat"
    /\ toServer' = Tail(toServer)
    /\ UNCHANGED <<io, ui, conn, connected, authenticated, me, reading, toClient,
                   srvUser, granted, sent>>

(* The connection is cut: what the server has not read is lost.            *)
PeerDrops ==
    /\ conn = "up"
    /\ conn' = "down"
    /\ toServer' = << >>
    /\ srvUser' = NoUser
    /\ UNCHANGED <<io, ui, connected, authenticated, me, reading, toClient, granted,
                   sent>>

(* The process has ended.                                                  *)
Exited ==
    /\ ui = "ended"
    /\ io = "returned"
    /\ UNCHANGED vars

-----------------------------------------------------------------------------
IoStep ==
    \/ IoRun \/ IoOutOfWork \/ HandleConnect \/ HandleHandshake \/ HandleRead
    \/ ConnectionError \/ WriteError

UiStep == UiConnect \/ UiConnected \/ UiLoggedIn \/ MainStops

Person ==
    \/ \E u \in User : UiLogin(u) \/ UiRegister(u)
    \/ UiChat \/ UiLeaveChat \/ UiExit

Server == ServerAuth \/ ServerChat

Next == IoStep \/ UiStep \/ Person \/ Server \/ PeerDrops \/ Exited

Spec == Init /\ [][Next]_vars

(* Both threads run, and the server answers; the person may do nothing.    *)
Fairness == WF_vars(IoStep) /\ WF_vars(UiStep) /\ WF_vars(Server)

FairSpec == Spec /\ Fairness

-----------------------------------------------------------------------------
(* The client's flag is never ahead of the server, unless a registration   *)
(* was accepted: a client that thinks it is logged in has a session that   *)
(* is; and by the name the client goes by, unless it asked for two logins  *)
(* (client.cpp:86,206-227 against session.cpp:187-192).                    *)
FlagFollowsServer ==
    authenticated /\ conn = "up" =>
        \/ granted
        \/ srvUser # NoUser /\ (srvUser = me \/ sent["login"] > 1)

(* A connected client has a read outstanding: it would otherwise neither   *)
(* see another message nor the end of the connection (client.cpp:159-186). *)
StaysReading == connected /\ io = "running" => reading

(* The loss of the connection is noticed (client.cpp:181-185).             *)
LossIsNoticed == (conn = "down" /\ connected) ~> (~connected \/ ui = "ended")

(* Once the user interface has ended the process does (main.cpp:41-45).    *)
ClientExits == (ui = "ended") ~> [](io = "returned")
=============================================================================
