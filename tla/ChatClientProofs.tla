-------------------------- MODULE ChatClientProofs --------------------------
(***************************************************************************)
(* Theorems about ChatClient, for any names, choices and number of         *)
(* requests: its type invariant, that its flag is not ahead of the server  *)
(* nor its name another than the session's, and that it goes on reading.   *)
(***************************************************************************)
EXTENDS ChatClient, SequenceTheorems, TLAPS

(* Nothing has been said before the connection is up, and the io thread    *)
(* runs when it becomes so.                                                *)
BeforeInv ==
    /\ conn \in {"none", "connecting", "handshake"} =>
          /\ ~connected /\ ~authenticated
          /\ toServer = << >> /\ toClient = << >>
    /\ connected => io # "starting"
    /\ conn = "none" => ui \in {"start", "ended"}
    /\ ui = "start" => conn = "none"

(* A success under way was written by a session that is logged in, or by   *)
(* one that accepted a registration.                                       *)
AnswersInv ==
    conn = "up" => \A i \in DOMAIN toClient :
        toClient[i] = "success" => srvUser # NoUser \/ granted

(* A name that the server has, or that is on its way to it, was asked for: *)
(* it is the one the client goes by, or another login was asked for since. *)
Asked(u) == sent["login"] > 0 /\ (u = me \/ sent["login"] > 1)
NamesInv ==
    /\ \A i \in DOMAIN toServer :
          toServer[i].kind = "login" => Asked(toServer[i].user)
    /\ srvUser # NoUser => Asked(srvUser)

(* The flag itself.                                                        *)
FlagInv == authenticated /\ conn = "up" => granted \/ srvUser # NoUser

ClientInv ==
    TypeOK /\ BeforeInv /\ AnswersInv /\ NamesInv /\ FlagInv /\ StaysReading

-----------------------------------------------------------------------------
(* Sequences: the elements of one that became longer or shorter.           *)
LEMMA AppendElement ==
    ASSUME NEW S, NEW q \in Seq(S), NEW e \in S
    PROVE  /\ Append(q, e) \in Seq(S)
           /\ \A i \in DOMAIN Append(q, e) :
                 Append(q, e)[i] = e \/ \E j \in DOMAIN q : Append(q, e)[i] = q[j]
<1> DEFINE longer == Append(q, e)
<1>1. /\ longer \in Seq(S)
      /\ Len(longer) = Len(q) + 1 /\ longer[Len(q) + 1] = e
      /\ \A i \in 1 .. Len(q) : longer[i] = q[i]
  BY AppendProperties
<1>2. Len(q) \in Nat /\ DOMAIN q = 1 .. Len(q)
  OBVIOUS
<1> HIDE DEF longer
<1>3. DOMAIN longer = 1 .. Len(q) + 1
  BY <1>1, <1>2
<1>4. ASSUME NEW i \in DOMAIN longer
      PROVE  longer[i] = e \/ \E j \in DOMAIN q : longer[i] = q[j]
  <2>1. i = Len(q) + 1 \/ i \in 1 .. Len(q)
    BY <1>2, <1>3
  <2>2. CASE i = Len(q) + 1
    BY <1>1, <2>2
  <2>3. CASE i \in 1 .. Len(q)
    BY <1>1, <1>2, <2>3
  <2> QED
    BY <2>1, <2>2, <2>3
<1> QED
  BY <1>1, <1>4 DEF longer

LEMMA TailElement ==
    ASSUME NEW S, NEW q \in Seq(S), q # << >>
    PROVE  /\ Tail(q) \in Seq(S) /\ Head(q) \in S
           /\ 1 \in DOMAIN q /\ Head(q) = q[1]
           /\ \A i \in DOMAIN Tail(q) : \E j \in DOMAIN q : Tail(q)[i] = q[j]
<1>1. \A i \in DOMAIN Tail(q) : i + 1 \in DOMAIN q /\ Tail(q)[i] = q[i + 1]
  OBVIOUS
<1> QED
  BY <1>1

-----------------------------------------------------------------------------
LEMMA ClientInit == Init => ClientInv
<1> SUFFICES ASSUME Init PROVE ClientInv
  OBVIOUS
<1>1. TypeOK
  <2>1. sent \in [Kind -> 0 .. MaxRequests]
    BY ClientAssumption DEF Init
  <2>2. toServer \in Seq(Request) /\ toClient \in Seq({"success", "failed"})
    BY DEF Init
  <2> QED
    BY <2>1, <2>2 DEF Init, TypeOK
<1>2. BeforeInv /\ AnswersInv /\ NamesInv
  BY DEF Init, BeforeInv, AnswersInv, NamesInv
<1>3. FlagInv /\ StaysReading
  BY DEF Init, FlagInv, StaysReading
<1> QED
  BY <1>1, <1>2, <1>3 DEF ClientInv

(* Steps that move neither direction of the connection.                    *)
LEMMA QuietStep ==
    ASSUME ClientInv,
           \/ IoRun \/ IoOutOfWork \/ HandleConnect \/ HandleHandshake
           \/ ConnectionError \/ WriteError \/ UiStep \/ UiLeaveChat \/ UiExit \/ Exited
    PROVE  ClientInv'
<1> USE DEF ClientInv
<1>1. UNCHANGED <<me, toServer, toClient, srvUser, granted, sent>>
  BY DEF IoRun, IoOutOfWork, HandleConnect, HandleHandshake, ConnectionError, WriteError,
         UiStep, UiConnect, UiConnected, UiLoggedIn, MainStops, UiLeaveChat,
         UiExit, Exited, vars
<1>2. /\ io' \in {"starting", "running", "returned"}
      /\ ui' \in {"start", "waitConnect", "menu", "waitAuth", "chat", "ended"}
      /\ conn' \in {"none", "connecting", "handshake", "up", "down"}
      /\ connected' \in BOOLEAN /\ authenticated' \in BOOLEAN
      /\ reading' \in BOOLEAN
  BY DEF TypeOK, IoRun, IoOutOfWork, HandleConnect, HandleHandshake,
         ConnectionError, WriteError, UiStep, UiConnect, UiConnected, UiLoggedIn, MainStops,
         UiLeaveChat, UiExit, Exited, vars
<1>3. TypeOK'
  BY <1>1, <1>2 DEF TypeOK
<1>4. BeforeInv'
  <2>1. CASE IoRun \/ IoOutOfWork \/ HandleConnect \/ HandleHandshake
    BY <1>1, <2>1 DEF BeforeInv, IoRun, IoOutOfWork, HandleConnect, HandleHandshake
  <2>2. CASE ConnectionError \/ WriteError \/ UiConnect \/ MainStops
    BY <1>1, <2>2 DEF BeforeInv, ConnectionError, WriteError, UiConnect, MainStops
  <2>3. CASE UiConnected \/ UiLoggedIn \/ UiLeaveChat
    BY <1>1, <2>3 DEF BeforeInv, UiConnected, UiLoggedIn, UiLeaveChat
  <2>4. CASE UiExit
    <3>1. io' = io /\ ui' = "ended" /\ ~connected'
      BY <2>4 DEF UiExit
    <3>2. CASE connected
      BY <1>1, <2>4, <3>1, <3>2 DEF BeforeInv, UiExit
    <3>3. CASE ~connected
      BY <1>1, <2>4, <3>1, <3>3 DEF BeforeInv, UiExit
    <3> QED
      BY <3>2, <3>3
  <2>5. CASE Exited
    BY <2>5 DEF BeforeInv, Exited, vars
  <2> QED
    BY <2>1, <2>2, <2>3, <2>4, <2>5 DEF UiStep
<1>5. conn' = "up" => conn = "up" \/ (toClient = << >> /\ ~authenticated')
  BY DEF BeforeInv, IoRun, IoOutOfWork, HandleConnect, HandleHandshake,
         ConnectionError, WriteError, UiStep, UiConnect, UiConnected, UiLoggedIn, MainStops,
         UiLeaveChat, UiExit, Exited, vars
<1>6. AnswersInv'
  BY <1>1, <1>5 DEF AnswersInv
<1>7. authenticated' => authenticated
  BY DEF IoRun, IoOutOfWork, HandleConnect, HandleHandshake, ConnectionError, WriteError,
         UiStep, UiConnect, UiConnected, UiLoggedIn, MainStops, UiLeaveChat,
         UiExit, Exited, vars
<1>8. NamesInv' /\ FlagInv'
  BY <1>1, <1>5, <1>7 DEF NamesInv, Asked, FlagInv
<1>9. StaysReading'
  BY DEF StaysReading, BeforeInv, TypeOK, IoRun, IoOutOfWork, HandleConnect,
         HandleHandshake, ConnectionError, WriteError, UiStep, UiConnect, UiConnected,
         UiLoggedIn, MainStops, UiLeaveChat, UiExit, Exited, vars
<1> QED
  BY <1>3, <1>4, <1>6, <1>8, <1>9

(* A line is taken from the server: a success among them is vouched for.   *)
LEMMA ReadStep ==
    ASSUME ClientInv, HandleRead
    PROVE  ClientInv'
<1> USE DEF ClientInv
<1>1. /\ toClient # << >> /\ toClient' = Tail(toClient)
      /\ authenticated' = (Head(toClient) = "success")
      /\ reading' = connected
      /\ UNCHANGED <<io, ui, conn, connected, me, toServer, srvUser, granted, sent>>
  BY DEF HandleRead
<1>2. /\ Tail(toClient) \in Seq({"success", "failed"})
      /\ 1 \in DOMAIN toClient /\ Head(toClient) = toClient[1]
      /\ \A i \in DOMAIN Tail(toClient) :
            \E j \in DOMAIN toClient : Tail(toClient)[i] = toClient[j]
  BY <1>1, TailElement DEF TypeOK
<1>3. TypeOK'
  BY <1>1, <1>2 DEF TypeOK
<1>4. BeforeInv'
  BY <1>1 DEF BeforeInv
<1>5. AnswersInv'
  <2>1. conn = "up" => \A i \in DOMAIN Tail(toClient) :
           Tail(toClient)[i] = "success" => srvUser # NoUser \/ granted
    BY <1>2 DEF AnswersInv
  <2> QED
    BY <1>1, <2>1 DEF AnswersInv
<1>6. NamesInv' /\ FlagInv'
  <2>1. conn = "up" /\ Head(toClient) = "success"
          => srvUser # NoUser \/ granted
    BY <1>2 DEF AnswersInv
  <2> QED
    BY <1>1, <2>1 DEF NamesInv, Asked, FlagInv
<1>7. StaysReading'
  BY <1>1 DEF StaysReading
<1> QED
  BY <1>3, <1>4, <1>5, <1>6, <1>7

(* A request is counted and, while the connection is up, queued.           *)
LEMMA SendStep ==
    ASSUME ClientInv, NEW kind \in Kind, NEW u,
           [kind |-> kind, user |-> u] \in Request,
           Send(kind, u)
    PROVE  /\ sent' \in [Kind -> 0 .. MaxRequests]
           /\ sent["login"] <= sent'["login"]
           /\ kind = "login" => sent'["login"] = sent["login"] + 1
           /\ toServer' \in Seq(Request)
           /\ \A i \in DOMAIN toServer' :
                 \/ toServer'[i] = [kind |-> kind, user |-> u]
                 \/ \E j \in DOMAIN toServer : toServer'[i] = toServer[j]
<1> DEFINE m == [kind |-> kind, user |-> u]
<1>1. /\ sent["login"] + sent["register"] + sent["chat"] < MaxRequests
      /\ sent' = [sent EXCEPT ![kind] = @ + 1]
  BY DEF Send
<1>2. sent \in [Kind -> 0 .. MaxRequests] /\ MaxRequests \in Nat
      /\ toServer \in Seq(Request)
  BY ClientAssumption DEF ClientInv, TypeOK
<1>3. sent[kind] + 1 \in 0 .. MaxRequests
  BY <1>1, <1>2 DEF Kind
<1>4. sent' \in [Kind -> 0 .. MaxRequests]
  BY <1>1, <1>2, <1>3
<1>5. /\ sent["login"] <= sent'["login"]
      /\ kind = "login" => sent'["login"] = sent["login"] + 1
  BY <1>1, <1>2 DEF Kind
<1>6. /\ Append(toServer, m) \in Seq(Request)
      /\ \A i \in DOMAIN Append(toServer, m) :
            \/ Append(toServer, m)[i] = m
            \/ \E j \in DOMAIN toServer : Append(toServer, m)[i] = toServer[j]
  BY <1>2, AppendElement
<1>7. toServer' = Append(toServer, m) \/ toServer' = toServer
  BY DEF Send
<1> HIDE DEF m
<1>8. /\ toServer' \in Seq(Request)
      /\ \A i \in DOMAIN toServer' :
            \/ toServer'[i] = m
            \/ \E j \in DOMAIN toServer : toServer'[i] = toServer[j]
  BY <1>2, <1>6, <1>7
<1> QED
  BY <1>4, <1>5, <1>8 DEF m

(* What a request leaves of the invariant once its name was asked for.     *)
LEMMA RequestKeeps ==
    ASSUME ClientInv,
           sent' \in [Kind -> 0 .. MaxRequests], toServer' \in Seq(Request),
           UNCHANGED <<io, conn, connected, authenticated, reading, toClient,
                       srvUser, granted>>,
           me' \in User \cup {NoUser}, connected,
           ui \in {"menu", "chat"}, ui' \in {"menu", "chat", "waitAuth"},
           NamesInv'
    PROVE  ClientInv'
<1> USE DEF ClientInv
<1>1. TypeOK'
  BY DEF TypeOK
<1>2. BeforeInv'
  BY DEF BeforeInv, TypeOK
<1>3. AnswersInv' /\ FlagInv' /\ StaysReading'
  BY DEF AnswersInv, FlagInv, StaysReading
<1> QED
  BY <1>1, <1>2, <1>3

(* A login: its name is asked for, and no name that was before is no more. *)
LEMMA LoginStep ==
    ASSUME ClientInv, NEW u \in User, UiLogin(u)
    PROVE  ClientInv'
<1> DEFINE m == [kind |-> "login", user |-> u]
<1>1. /\ sent' \in [Kind -> 0 .. MaxRequests]
      /\ sent'["login"] = sent["login"] + 1
      /\ toServer' \in Seq(Request)
      /\ \A i \in DOMAIN toServer' :
            toServer'[i] = m \/ \E j \in DOMAIN toServer : toServer'[i] = toServer[j]
  <2>1. m \in Request
    BY DEF Request
  <2> QED
    BY <2>1, SendStep DEF UiLogin, Kind
<1>2. /\ UNCHANGED <<io, conn, connected, authenticated, reading, toClient,
                     srvUser, granted>>
      /\ me' = u /\ connected /\ ui = "menu" /\ ui' = "waitAuth"
  BY DEF UiLogin
<1>3. sent["login"] \in Nat
  BY ClientAssumption DEF ClientInv, TypeOK, Kind
<1>4. \A i \in DOMAIN toServer' :
         toServer'[i].kind = "login" =>
            sent'["login"] > 0 /\ (toServer'[i].user = me' \/ sent'["login"] > 1)
  <2>1. TAKE i \in DOMAIN toServer'
  <2>2. CASE toServer'[i] = m
    BY <1>1, <1>2, <1>3, <2>2
  <2>3. CASE \E j \in DOMAIN toServer : toServer'[i] = toServer[j]
    <3>1. PICK j \in DOMAIN toServer : toServer'[i] = toServer[j]
      BY <2>3
    <3>2. toServer[j].kind = "login" => Asked(toServer[j].user)
      BY DEF ClientInv, NamesInv
    <3> QED
      BY <1>1, <1>3, <3>1, <3>2 DEF Asked
  <2> QED
    BY <1>1, <2>2, <2>3
<1>5. srvUser' # NoUser =>
         sent'["login"] > 0 /\ (srvUser' = me' \/ sent'["login"] > 1)
  BY <1>1, <1>2, <1>3 DEF ClientInv, NamesInv, Asked
<1>6. NamesInv'
  BY <1>4, <1>5 DEF NamesInv, Asked
<1> HIDE DEF m
<1> QED
  BY <1>1, <1>2, <1>6, RequestKeeps

(* A registration or a line of chat: no name is asked for.                 *)
LEMMA OtherRequestStep ==
    ASSUME ClientInv, (\E u \in User : UiRegister(u)) \/ UiChat
    PROVE  ClientInv'
<1>1. PICK kind \in {"register", "chat"}, u \in User \cup {NoUser} :
         [kind |-> kind, user |-> u] \in Request /\ Send(kind, u)
  <2>1. CASE UiChat
    <3>1. [kind |-> "chat", user |-> NoUser] \in Request
      BY DEF Request
    <3> QED
      BY <2>1, <3>1 DEF UiChat
  <2>2. CASE \E u \in User : UiRegister(u)
    <3>1. PICK u \in User : UiRegister(u)
      BY <2>2
    <3>2. [kind |-> "register", user |-> u] \in Request
      BY DEF Request
    <3> QED
      BY <3>1, <3>2 DEF UiRegister
  <2> QED
    BY <2>1, <2>2
<1> DEFINE m == [kind |-> kind, user |-> u]
<1>2. /\ sent' \in [Kind -> 0 .. MaxRequests]
      /\ sent["login"] <= sent'["login"]
      /\ toServer' \in Seq(Request)
      /\ \A i \in DOMAIN toServer' :
            toServer'[i] = m \/ \E j \in DOMAIN toServer : toServer'[i] = toServer[j]
  BY <1>1, SendStep DEF Kind
<1>3. /\ UNCHANGED <<io, ui, conn, connected, authenticated, me, reading, toClient,
                     srvUser, granted>>
      /\ connected /\ ui \in {"menu", "chat"}
  BY DEF UiRegister, UiChat
<1>4. sent["login"] \in Nat /\ sent'["login"] \in Nat
  BY <1>2, ClientAssumption DEF ClientInv, TypeOK, Kind
<1>5. \A i \in DOMAIN toServer' :
         toServer'[i].kind = "login" =>
            sent'["login"] > 0 /\ (toServer'[i].user = me' \/ sent'["login"] > 1)
  <2>1. TAKE i \in DOMAIN toServer'
  <2>2. CASE toServer'[i] = m
    BY <1>1, <2>2
  <2>3. CASE \E j \in DOMAIN toServer : toServer'[i] = toServer[j]
    <3>1. PICK j \in DOMAIN toServer : toServer'[i] = toServer[j]
      BY <2>3
    <3>2. toServer[j].kind = "login" => Asked(toServer[j].user)
      BY DEF ClientInv, NamesInv
    <3> QED
      BY <1>2, <1>3, <1>4, <3>1, <3>2 DEF Asked
  <2> QED
    BY <1>2, <2>2, <2>3
<1>6. srvUser' # NoUser =>
         sent'["login"] > 0 /\ (srvUser' = me' \/ sent'["login"] > 1)
  BY <1>2, <1>3, <1>4 DEF ClientInv, NamesInv, Asked
<1>7. NamesInv'
  BY <1>5, <1>6 DEF NamesInv, Asked
<1>8. me' \in User \cup {NoUser}
  BY <1>3 DEF ClientInv, TypeOK
<1> HIDE DEF m
<1> QED
  BY <1>2, <1>3, <1>7, <1>8, RequestKeeps

(* The server takes a line, and answers one that is a login or a           *)
(* registration.                                                           *)
LEMMA ServerStep ==
    ASSUME ClientInv, Server
    PROVE  ClientInv'
<1> USE DEF ClientInv
<1>1. /\ toServer # << >> /\ toServer' = Tail(toServer) /\ conn = "up"
      /\ UNCHANGED <<io, ui, conn, connected, authenticated, me, reading,
                     sent>>
  BY DEF Server, ServerAuth, ServerChat
<1>2. /\ Tail(toServer) \in Seq(Request) /\ Head(toServer) \in Request
      /\ 1 \in DOMAIN toServer /\ Head(toServer) = toServer[1]
      /\ \A i \in DOMAIN Tail(toServer) :
            \E j \in DOMAIN toServer : Tail(toServer)[i] = toServer[j]
  BY <1>1, TailElement DEF TypeOK
<1>3. \A i \in DOMAIN Tail(toServer) :
         Tail(toServer)[i].kind = "login" => Asked(Tail(toServer)[i].user)
  BY <1>2 DEF NamesInv
<1>4. /\ srvUser' \in User \cup {NoUser} /\ (srvUser # NoUser => srvUser' = srvUser)
      /\ granted' \in BOOLEAN /\ (granted => granted')
      /\ srvUser' # NoUser => Asked(srvUser')
      /\ \/ toClient' = toClient
         \/ toClient' = Append(toClient, "failed")
         \/ /\ toClient' = Append(toClient, "success")
            /\ srvUser' # NoUser \/ granted'
  <2>1. CASE ServerChat
    BY <2>1 DEF ServerChat, TypeOK, NamesInv
  <2>2. CASE ServerAuth
    <3>1. Head(toServer).kind = "login" => Head(toServer).user \in User
      BY <1>2 DEF Request
    <3>2. Head(toServer).kind = "login" => Asked(Head(toServer).user)
      BY <1>2 DEF NamesInv
    <3>3. srvUser = NoUser /\ srvUser \in User \cup {NoUser} /\ granted \in BOOLEAN
      BY <2>2 DEF ServerAuth, TypeOK
    <3>4. CASE /\ Head(toServer).kind = "login"
               /\ toClient' = Append(toClient, "success")
               /\ srvUser' = Head(toServer).user /\ UNCHANGED granted
      <4>1. srvUser' \in User /\ srvUser' # NoUser
        BY <3>1, <3>4, ClientAssumption
      <4>2. Asked(srvUser')
        BY <3>2, <3>4
      <4> QED
        BY <3>3, <3>4, <4>1, <4>2
    <3>5. CASE /\ toClient' = Append(toClient, "success")
               /\ granted' = TRUE /\ UNCHANGED srvUser
      BY <3>3, <3>5
    <3>6. CASE toClient' = Append(toClient, "failed") /\ UNCHANGED <<srvUser, granted>>
      BY <3>3, <3>6
    <3> QED
      BY <2>2, <3>4, <3>5, <3>6 DEF ServerAuth
  <2> QED
    BY <2>1, <2>2 DEF Server
<1>5. /\ toClient' \in Seq({"success", "failed"})
      /\ \A i \in DOMAIN toClient' :
            toClient'[i] = "success" => srvUser' # NoUser \/ granted'
  <2>1. \A i \in DOMAIN toClient :
           toClient[i] = "success" => srvUser' # NoUser \/ granted'
    BY <1>1, <1>4 DEF AnswersInv
  <2>2. toClient \in Seq({"success", "failed"})
    BY DEF TypeOK
  <2>3. ASSUME NEW e \in {"success", "failed"}
        PROVE  /\ Append(toClient, e) \in Seq({"success", "failed"})
               /\ \A i \in DOMAIN Append(toClient, e) :
                     \/ Append(toClient, e)[i] = e
                     \/ \E j \in DOMAIN toClient :
                           Append(toClient, e)[i] = toClient[j]
    BY <2>2, AppendElement
  <2>4. CASE toClient' = toClient
    BY <2>1, <2>2, <2>4
  <2>5. CASE toClient' = Append(toClient, "failed")
    <3>1. /\ toClient' \in Seq({"success", "failed"})
          /\ \A i \in DOMAIN toClient' :
                toClient'[i] = "failed" \/ \E j \in DOMAIN toClient : toClient'[i] = toClient[j]
      BY <2>3, <2>5
    <3> QED
      BY <2>1, <3>1
  <2>6. CASE /\ toClient' = Append(toClient, "success")
             /\ srvUser' # NoUser \/ granted'
    <3>1. toClient' \in Seq({"success", "failed"})
      BY <2>3, <2>6
    <3> QED
      BY <2>6, <3>1
  <2> QED
    BY <1>4, <2>4, <2>5, <2>6
<1>6. TypeOK'
  BY <1>1, <1>2, <1>4, <1>5 DEF TypeOK
<1>7. BeforeInv'
  BY <1>1 DEF BeforeInv
<1>8. AnswersInv'
  BY <1>1, <1>5 DEF AnswersInv
<1>9. NamesInv'
  BY <1>1, <1>3, <1>4 DEF NamesInv, Asked
<1>10. FlagInv' /\ StaysReading'
  BY <1>1, <1>4 DEF FlagInv, StaysReading
<1> QED
  BY <1>6, <1>7, <1>8, <1>9, <1>10

LEMMA DropStep ==
    ASSUME ClientInv, PeerDrops
    PROVE  ClientInv'
<1> USE DEF ClientInv
<1>1. TypeOK'
  BY DEF PeerDrops, TypeOK
<1>2. BeforeInv' /\ AnswersInv' /\ NamesInv'
  BY DEF PeerDrops, BeforeInv, AnswersInv, NamesInv, TypeOK
<1>3. FlagInv' /\ StaysReading'
  BY DEF PeerDrops, FlagInv, StaysReading
<1> QED
  BY <1>1, <1>2, <1>3

LEMMA ClientInductive ==
    ASSUME ClientInv, [Next]_vars
    PROVE  ClientInv'
<1>1. CASE UNCHANGED vars
  BY <1>1 DEF vars, ClientInv, TypeOK, BeforeInv, AnswersInv, NamesInv,
              Asked, FlagInv, StaysReading
<1>2. CASE Next
  BY <1>2, QuietStep, ReadStep, LoginStep, OtherRequestStep,
     ServerStep, DropStep
     DEF Next, IoStep, Person
<1> QED
  BY <1>1, <1>2

(* Every variable of the client keeps its type, whatever the person types  *)
(* and the two threads do (client.cpp:80-204).                             *)
THEOREM ClientTypes == Spec => []TypeOK
<1>1. ClientInv => TypeOK
  BY DEF ClientInv
<1> QED
  BY <1>1, ClientInit, ClientInductive, PTL DEF Spec

(* Unless a registration was accepted, a client that thinks it is logged   *)
(* in has a session that is, by the client's name unless it asked twice,   *)
(* however late the answers come (client.cpp:86,206-227 against            *)
(* session.cpp:187-192).                                                   *)
THEOREM FlagIsVouchedFor == Spec => []FlagFollowsServer
<1>1. ClientInv => FlagFollowsServer
  BY DEF ClientInv, FlagInv, NamesInv, Asked, FlagFollowsServer
<1> QED
  BY <1>1, ClientInit, ClientInductive, PTL DEF Spec

(* A client that is connected while the io thread runs has a read          *)
(* outstanding (client.cpp:159-186).                                       *)
THEOREM ClientReads == Spec => []StaysReading
<1>1. ClientInv => StaysReading
  BY DEF ClientInv
<1> QED
  BY <1>1, ClientInit, ClientInductive, PTL DEF Spec
=============================================================================
