-------------------------------- MODULE Wire ---------------------------------
(***************************************************************************)
(* The text protocol: how a person's request becomes a line                *)
(* (src/client/terminal_ui.cpp, client.cpp), what the server takes the     *)
(* line for (src/server/session.cpp), the lines it writes (session.cpp,    *)
(* server.cpp) and what a client takes those for; and MessageParser        *)
(* (src/common/message.cpp), a second reader and writer of the same lines. *)
(*                                                                         *)
(* A text is a sequence of tokens: words, and the characters that one of   *)
(* the readers looks for.  The end of a line and the wording of notices    *)
(* are left out.  The handlers are atomic; ChatServer has their steps.     *)
(***************************************************************************)
EXTENDS Naturals, FiniteSets, SequencesExt

CONSTANTS
    Client,
    Word,                   \* the tokens of all texts
    Name, Password, Email,  \* texts that persons give; an email may be empty
    Line,                   \* lines that they type in chat mode
    InDatabase,             \* the accounts there are at the start
    Disabled,               \* those with is_active = 0 (set outside the program)
    Patient,                \* those who wait for an answer before they ask
                            \* again, and log in only once
    MaxRequests             \* bound: requests of each person

Texts == Seq(Word)
Empty == << >>

(* The characters that a reader looks for.                                 *)
Space == "<space>"
Comma == "<comma>"
Mark == {":", "@", Comma, Space}
Keyword == {"login", "register", "auth", "users", "error", "system",
            "private", "private_sent", "broadcast", "logout"}
Wording == {"success", "failed", "wording", "User", "joined", "offline"}

(* The interface ignores an empty line.  The database may hold any name,   *)
(* as the REST interface registers any, but each of them once.             *)
ASSUME WireAssumption ==
    /\ IsFiniteSet(Client) /\ Patient \subseteq Client
    /\ Mark \cup Keyword \cup Wording \subseteq Word
    /\ Name \subseteq Texts /\ Password \subseteq Texts /\ Email \subseteq Texts
    /\ Line \subseteq Texts \ {Empty}
    /\ InDatabase \subseteq [name : Texts, password : Texts, email : Texts]
    /\ \A x, y \in InDatabase : x.name = y.name => x = y
    /\ Disabled \subseteq InDatabase
    /\ MaxRequests \in [Client -> Nat]

(* Not the name of a session: a login reads the name up to a colon.        *)
NoName == <<":">>

(* What "alphanumeric, underscore, dash only" promises, keywords excepted. *)
Plain(n) == Len(n) = 1 /\ n[1] \notin Keyword \cup Mark

(* find(t, from) and the two parts of the line around a place.             *)
Places(line, t, from) == {i \in from .. Len(line) : line[i] = t}
First(I) == CHOOSE i \in I : \A j \in I : i <= j
Between(line, i, j) == SubSeq(line, i + 1, j - 1)
After(line, i) == SubSeq(line, i + 1, Len(line))

-----------------------------------------------------------------------------
(* Requests, as lines and as the server reads them.                        *)

LoginText(u, p) == <<"login", ":">> \o u \o <<":">> \o p
RegisterText(u, p, e) ==
    <<"register", ":">> \o u \o <<":">> \o p
       \o (IF e = Empty THEN Empty ELSE <<":">> \o e)
(* Mutant: left to the server's default.                                   *)
BroadcastTextBare(t) == t
BroadcastText(t) == <<"broadcast", ":">> \o t
PrivateText(to, t) == <<"@">> \o to \o <<":">> \o t

LoginRequest(u, p) == [op |-> "login", name |-> u, password |-> p]
RegisterRequest(u, p, e) ==
    [op |-> "register", name |-> u, password |-> p, email |-> e]
SayRequest(t) == [op |-> "say", text |-> t]
PrivateRequest(to, t) == [op |-> "private", to |-> to, text |-> t]
Only(op) == [op |-> op]

(* Before the login; login: and register: take two tokens.                 *)
FirstCommand(line) ==
    LET colons == Places(line, ":", 3)
        i == First(colons)
        j == First(colons \ {i})
        login == IsPrefix(<<"login", ":">>, line)
        register == IsPrefix(<<"register", ":">>, line)
    IN CASE (login \/ register) /\ colons = {} -> Only("malformed")
         [] login /\ colons # {} ->
               LoginRequest(Between(line, 2, i), After(line, i))
         [] register /\ colons # {} ->
               IF colons = {i}
               THEN RegisterRequest(Between(line, 2, i), After(line, i), Empty)
               ELSE RegisterRequest(Between(line, 2, i),
                                    Between(line, i, j), After(line, j))
         [] OTHER -> Only("refused")

(* After the login whatever is no command is said to the room.             *)
ChatCommand(line) ==
    LET colons == Places(line, ":", 1)
        i == First(colons)
    IN CASE IsPrefix(<<"@">>, line) ->
               IF colons # {} /\ i > 2
               THEN PrivateRequest(Between(line, 1, i), After(line, i))
               ELSE Only("ignored")
         [] IsPrefix(<<"broadcast", ":">>, line) -> SayRequest(After(line, 2))
         [] line = <<"users">> -> Only("users")
         [] line = <<"logout">> -> Only("logout")
         [] OTHER -> SayRequest(line)

-----------------------------------------------------------------------------
(* What the server writes, and what a client shows of it.                  *)

Welcome == [kind |-> "welcome"]
Refusal == [kind |-> "refusal"]
Listed(N) == [kind |-> "list", names |-> N]
Notice(t) == [kind |-> "notice", text |-> t]
Fault(t) == [kind |-> "error", text |-> t]
Direct(n, t) == [kind |-> "private", from |-> n, text |-> t]
Sent(n) == [kind |-> "sent", to |-> n]
Public(t) == [kind |-> "public", text |-> t]
Nothing == [kind |-> "nothing"]

About(n, what) == <<"User", Space>> \o n \o <<Space, what>>
Joined(names) ==
    FlattenSeq([i \in DOMAIN names |->
                  IF i = 1 THEN names[i] ELSE <<Comma>> \o names[i]])
(* Mutant: no space.                                                       *)
SayingTight(n, t) == n \o <<":">> \o t
Saying(n, t) == n \o <<":", Space>> \o t

Text(m) ==
    CASE m.kind = "welcome" -> <<"auth", ":", "success", ":", "wording">>
      [] m.kind = "refusal" -> <<"auth", ":", "failed", ":", "wording">>
      [] m.kind = "list"    -> <<"users", ":">> \o Joined(SetToSeq(m.names))
      [] m.kind = "notice"  -> <<"system", ":">> \o m.text
      [] m.kind = "error"   -> <<"error", ":">> \o m.text
      [] m.kind = "private" ->
            <<"private", ":">> \o m.from \o <<":">> \o m.text
      [] m.kind = "sent"    -> <<"private_sent", ":">> \o m.to
      [] m.kind = "public"  -> m.text

(* parseUserList, and the same loop in the client: empty names are no names. *)
Names(text) ==
    LET cuts == {0, Len(text) + 1} \cup Places(text, Comma, 1)
        piece(i) == Between(text, i, First({j \in cuts : j > i}))
    IN {piece(i) : i \in cuts \ {Len(text) + 1}} \ {Empty}

(* processMessage of the client; why it was refused is wording.            *)
Shown(line) ==
    CASE IsPrefix(<<"auth", ":">>, line) ->
            IF IsPrefix(<<"auth", ":", "success">>, line) THEN Welcome
            ELSE Refusal
      [] IsPrefix(<<"users", ":">>, line) -> Listed(Names(After(line, 2)))
      [] IsPrefix(<<"private", ":">>, line) ->
            LET colons == Places(line, ":", 3)
                i == First(colons)
            IN IF colons = {} THEN Nothing
               ELSE Direct(Between(line, 2, i), After(line, i))
      [] IsPrefix(<<"system", ":">>, line) -> Notice(After(line, 2))
      [] IsPrefix(<<"error", ":">>, line) -> Fault(After(line, 2))
      [] IsPrefix(<<"private_sent", ":">>, line) -> Sent(After(line, 2))
      [] OTHER -> IF line = Empty THEN Nothing ELSE Public(line)

-----------------------------------------------------------------------------
(* MessageParser *)

ChatMessage(type, sender, recipient, content) ==
    [type |-> type, sender |-> sender, recipient |-> recipient,
     content |-> content]

(* Mutant: substr(colon + 1).                                              *)
ChoppedNot(text) == text

(* substr(colon + 2): what follows the colon loses its first character; a  *)
(* word without it is "-".  (At the end of a line it would throw.)         *)
Chopped(text) ==
    IF text[1] \in Mark THEN Tail(text)
    ELSE <<"-">> \o Tail(text)

Parse(line) ==
    LET colons == Places(line, ":", 1)
        i == First(colons)
        rest == Places(line, ":", 3)
        j == First(rest)
    IN CASE \E k \in {"login", "register", "auth"} : IsPrefix(<<k, ":">>, line) ->
               ChatMessage("AUTH", Empty, Empty, line)
         [] IsPrefix(<<"users", ":">>, line) ->
               ChatMessage("USER_LIST", Empty, Empty, line)
         [] IsPrefix(<<"error", ":">>, line) ->
               ChatMessage("ERROR", Empty, Empty, After(line, 2))
         [] IsPrefix(<<"system", ":">>, line) ->
               ChatMessage("SYSTEM", Empty, Empty, After(line, 2))
         [] IsPrefix(<<"private", ":">>, line) ->
               IF rest = {} THEN ChatMessage("PRIVATE", Empty, Empty, Empty)
               ELSE ChatMessage("PRIVATE", Between(line, 2, j), Empty,
                                After(line, j))
         [] IsPrefix(<<"@">>, line) ->
               IF colons = {} THEN ChatMessage("PRIVATE", Empty, Empty, Empty)
               ELSE ChatMessage("PRIVATE", Empty, Between(line, 1, i),
                                After(line, i))
         [] OTHER ->
               IF colons = {} THEN ChatMessage("BROADCAST", Empty, Empty, line)
               ELSE ChatMessage("BROADCAST", Between(line, 0, i), Empty,
                                Chopped(After(line, i)))

Serialize(m) ==
    CASE m.type = "BROADCAST" ->
            IF m.sender = Empty THEN m.content ELSE Saying(m.sender, m.content)
      [] m.type = "PRIVATE" ->
            IF m.sender = Empty THEN PrivateText(m.recipient, m.content)
            ELSE <<"private", ":">> \o m.sender \o <<":">> \o m.content
      [] m.type = "SYSTEM" -> <<"system", ":">> \o m.content
      [] m.type = "ERROR" -> <<"error", ":">> \o m.content
      [] m.type \in {"AUTH", "USER_LIST"} -> m.content

-----------------------------------------------------------------------------
VARIABLES
    accounts,   \* table users: name, password and email
    user,       \* username_ of each client's session once authenticated_
    flag,       \* authenticated_ of each client
    ui,         \* where its main thread is
    up, down,   \* the lines on the way, each with what its writer means
    typed,      \* history: what was typed, by whom and for whom
    asked       \* bound: requests so far

vars == <<accounts, user, flag, ui, up, down, typed, asked>>

Everybody == <<"@">>

TypeOK ==
    /\ accounts \subseteq [name : Texts, password : Texts, email : Texts]
    /\ \A x, y \in accounts : x.name = y.name => x = y
    /\ user \in [Client -> {NoName} \cup {x.name : x \in accounts}]
    /\ flag \in [Client -> BOOLEAN]
    /\ ui \in [Client -> {"menu", "login", "chat"}]
    /\ \A c \in Client : \A i \in DOMAIN up[c] :
          up[c][i].line \in Texts /\ up[c][i].meant.op # "refused"
    /\ \A c \in Client : \A i \in DOMAIN down[c] : down[c][i].line \in Texts
    /\ typed \subseteq [by : Client, to : Texts, text : Texts]
    /\ \A c \in Client : asked[c] \in 0 .. MaxRequests[c]

Init ==
    /\ accounts = InDatabase
    /\ user = [c \in Client |-> NoName]
    /\ flag = [c \in Client |-> FALSE]
    /\ ui = [c \in Client |-> "menu"]
    /\ up = [c \in Client |-> << >>]
    /\ down = [c \in Client |-> << >>]
    /\ typed = {}
    /\ asked = [c \in Client |-> 0]

-----------------------------------------------------------------------------
(* The person and the client.                                              *)

Unanswered(c) ==
    \/ \E i \in DOMAIN up[c] : up[c][i].meant.op \in {"login", "register"}
    \/ \E i \in DOMAIN down[c] : down[c][i].meant.kind \in {"welcome", "refusal"}
MayAsk(c) ==
    /\ ui[c] = "menu"
    /\ c \in Patient => ~Unanswered(c) /\ user[c] = NoName

Ask(c, line, meant) ==
    /\ asked[c] < MaxRequests[c]
    /\ asked' = [asked EXCEPT ![c] = @ + 1]
    /\ up' = [up EXCEPT ![c] = Append(@, [line |-> line, meant |-> meant])]

Login(c, u, p) ==
    /\ MayAsk(c)
    /\ Ask(c, LoginText(u, p), LoginRequest(u, p))
    /\ ui' = [ui EXCEPT ![c] = "login"]
    /\ UNCHANGED <<accounts, user, flag, down, typed>>

Register(c, u, p, e) ==
    /\ MayAsk(c)
    /\ Ask(c, RegisterText(u, p, e), RegisterRequest(u, p, e))
    /\ UNCHANGED <<accounts, user, flag, ui, down, typed>>

(* After half a second the interface looks at the flag; chat mode starts   *)
(* with a request for the list.                                            *)
Wake(c) ==
    /\ ui[c] = "login"
    /\ c \in Patient => ~Unanswered(c)
    /\ IF flag[c]
       THEN /\ ui' = [ui EXCEPT ![c] = "chat"]
            /\ up' = [up EXCEPT ![c] = Append(@, [line |-> <<"users">>,
                                                  meant |-> Only("users")])]
       ELSE ui' = [ui EXCEPT ![c] = "menu"] /\ UNCHANGED up
    /\ UNCHANGED <<accounts, user, flag, down, typed, asked>>

(* A line in chat mode: "@username msg", "users" or something to say.      *)
Type(c, t) ==
    /\ ui[c] = "chat" /\ flag[c]
    /\ LET spaces == Places(t, Space, 1)
           i == First(spaces)
           to == Between(t, 1, i)
       IN \/ /\ t = <<"users">>
             /\ Ask(c, <<"users">>, Only("users"))
             /\ UNCHANGED typed
          \/ /\ t[1] = "@" /\ spaces # {}
             /\ Ask(c, PrivateText(to, After(t, i)),
                       PrivateRequest(to, After(t, i)))
             /\ typed' = typed \cup {[by |-> c, to |-> to, text |-> After(t, i)]}
          \/ /\ t[1] # "@" /\ t # <<"users">>
             /\ Ask(c, BroadcastText(t), SayRequest(t))
             /\ typed' = typed \cup {[by |-> c, to |-> Everybody, text |-> t]}
    /\ UNCHANGED <<accounts, user, flag, ui, down>>

(* The person quits chat mode, or it ends because the flag is cleared.     *)
ToMenu(c) ==
    /\ ui[c] = "chat"
    /\ ui' = [ui EXCEPT ![c] = "menu"]
    /\ UNCHANGED <<accounts, user, flag, up, down, typed, asked>>

(* The client reads a line.                                                *)
Read(c) ==
    /\ down[c] # << >>
    /\ LET shown == Shown(Head(down[c]).line)
       IN flag' = [flag EXCEPT ![c] =
                     (shown = Welcome \/ @) /\ shown # Refusal]
    /\ down' = [down EXCEPT ![c] = Tail(@)]
    /\ UNCHANGED <<accounts, user, ui, up, typed, asked>>

-----------------------------------------------------------------------------
(* The server.  answers is what it writes to each client, in order.        *)

Online == {user[c] : c \in Client} \ {NoName}
Write(answers) ==
    down' = [d \in Client |-> down[d] \o
               [i \in DOMAIN answers[d] |->
                  [line |-> Text(answers[d][i]), meant |-> answers[d][i]]]]

Command(c, line) ==
    IF user[c] = NoName THEN FirstCommand(line) ELSE ChatCommand(line)

Reply(c, m) == Write([d \in Client |-> IF d = c THEN <<m>> ELSE << >>])

Handle(c) == Command(c, Head(up[c]).line)
Take(c, op) ==
    /\ up[c] # << >>
    /\ Handle(c).op = op
    /\ up' = [up EXCEPT ![c] = Tail(@)]
    /\ UNCHANGED <<flag, ui, typed, asked>>

(* The account with the name and the password that a login gives.          *)
Admitted(h) ==
    \E x \in accounts \ Disabled : x.name = h.name /\ x.password = h.password

(* Unknown, wrong password, disabled, or online already.                   *)
LoginRefused(c) ==
    /\ Take(c, "login")
    /\ Handle(c).name \in Online \/ ~Admitted(Handle(c))
    /\ Reply(c, Refusal)
    /\ UNCHANGED <<accounts, user>>

(* addSession tells the others and sends everybody the list.               *)
LoginAccepted(c) ==
    /\ Take(c, "login")
    /\ LET u == Handle(c).name
       IN /\ u \notin Online
          /\ Admitted(Handle(c))
          /\ user' = [user EXCEPT ![c] = u]
          /\ Write([d \in Client |->
                CASE d = c -> <<Listed(Online \cup {u}), Welcome>>
                  [] user[d] # NoName ->
                       <<Notice(About(u, "joined")), Listed(Online \cup {u})>>
                  [] OTHER -> << >>])
    /\ UNCHANGED accounts

(* Mutant: only the length is looked at.                                   *)
FreeAlways(n) == n # Empty
Free(n) == n # Empty /\ \A x \in accounts : x.name # n

Registered(c) ==
    /\ Take(c, "register")
    /\ LET h == Handle(c)
       IN IF Free(h.name)
          THEN /\ accounts' = accounts \cup
                     {[name |-> h.name, password |-> h.password,
                       email |-> h.email]}
               /\ Reply(c, Welcome)
          ELSE UNCHANGED accounts /\ Reply(c, Refusal)
    /\ UNCHANGED user

Broadcast(c) ==
    /\ Take(c, "say")
    /\ Write([d \in Client |->
          IF d # c /\ user[d] # NoName
          THEN <<Public(Saying(user[c], Handle(c).text))>> ELSE << >>])
    /\ UNCHANGED <<accounts, user>>

Private(c) ==
    /\ Take(c, "private")
    /\ LET h == Handle(c)
           toRecipient == <<Direct(user[c], h.text)>>
       IN IF h.to \in Online
          THEN Write([d \in Client |->
                 (IF user[d] = h.to THEN toRecipient ELSE << >>)
                 \o (IF d = c THEN <<Sent(h.to)>> ELSE << >>)])
          ELSE Reply(c, Fault(About(h.to, "offline")))
    /\ UNCHANGED <<accounts, user>>

(* The answer to "users" leaves out the one who asks.                      *)
UserList(c) ==
    /\ Take(c, "users")
    /\ Reply(c, Listed(Online \ {user[c]}))
    /\ UNCHANGED <<accounts, user>>

(* "@:text" is dropped, and before the login whatever is no login.         *)
Other(c) ==
    \/ /\ Take(c, "ignored")
       /\ UNCHANGED <<accounts, user, down>>
    \/ /\ \E op \in {"malformed", "refused"} : Take(c, op)
       /\ Reply(c, IF Handle(c).op = "malformed" THEN Refusal
                   ELSE Fault(<<"wording">>))
       /\ UNCHANGED <<accounts, user>>

Next ==
    \E c \in Client :
       \/ \E u \in Name, p \in Password : Login(c, u, p)
       \/ \E u \in Name, p \in Password, e \in Email : Register(c, u, p, e)
       \/ Wake(c) \/ ToMenu(c) \/ Read(c)
       \/ \E t \in Line : Type(c, t)
       \/ LoginRefused(c) \/ LoginAccepted(c) \/ Registered(c)
       \/ Broadcast(c) \/ Private(c) \/ UserList(c) \/ Other(c)

Spec == Init /\ [][Next]_vars

-----------------------------------------------------------------------------
OnTheWay(c) == {down[c][i] : i \in DOMAIN down[c]}

(* The prompts ask for a plain name; in a password a colon cannot be told  *)
(* from the one before the email.                                          *)
WellFormed(meant) ==
    CASE meant.op = "login" -> Plain(meant.name)
      [] meant.op = "register" ->
            Plain(meant.name) /\ Places(meant.password, ":", 1) = {}
      [] meant.op = "private" -> Plain(meant.to)
      [] OTHER -> TRUE

(* Who reads a line makes of it what its writer meant: the server, when    *)
(* the line's turn comes, of the lines of those who wait for its answers,  *)
(* and every client of the lines that bear plain names, whatever is in the *)
(* texts (session.cpp:67-139, client.cpp:206-287).                         *)
Understood ==
    \A c \in Client :
       /\ c \in Patient /\ up[c] # << >> /\ WellFormed(Head(up[c]).meant)
            => Handle(c) = Head(up[c]).meant
       /\ \A m \in OnTheWay(c) :
             \/ Shown(m.line) = m.meant
             \/ m.meant.kind = "list" /\ \E n \in m.meant.names : ~Plain(n)
             \/ m.meant.kind = "public" /\ \E d \in Client :
                   /\ user[d] # NoName /\ ~Plain(user[d])
                   /\ IsPrefix(Saying(user[d], Empty), m.line)

Typed(n, to, text) ==
    \E t \in typed : user[t.by] = n /\ t.to = to /\ t.text = text
(* "@a:b hi" is a line to a, whoever meant it for a:b.                     *)
TypedTo(n, to, text) ==
    \E t \in typed : /\ user[t.by] = n
                     /\ PrivateText(t.to, t.text) = PrivateText(to, text)
(* The name a public line is shown with, and its text.                     *)
Author(text) == Between(text, 0, First(Places(text, ":", 1)))
Rest(text) == After(text, First(Places(text, ":", 1)) + 1)

(* What a client shows as coming from a plain name was typed by the user   *)
(* of that name, a private message for the one who sees it and a public    *)
(* one, if that user waits for the answers, for everybody: no other name   *)
(* or text can be taken for it (server.cpp:213, session.cpp:265,           *)
(* client.cpp:247-286).                                                    *)
Attribution ==
    \A c \in Client : \A m \in OnTheWay(c) :
       LET shown == Shown(m.line)
       IN /\ shown.kind = "private" /\ Plain(shown.from)
               => TypedTo(shown.from, user[c], shown.text)
          /\ shown.kind = "public" =>
               \A d \in Patient :
                  Author(shown.text) = user[d] /\ Plain(user[d])
                    => Typed(user[d], Everybody, Rest(shown.text))

(* MessageParser takes the server's lines for what they are and writes     *)
(* them again as they were, except confirmations, which it does not know,  *)
(* and except where the author's name is not plain (message.cpp:7-105).    *)
ParserFaithful ==
    \A c \in Client : \A m \in OnTheWay(c) :
       /\ m.meant.kind # "sent" /\ Shown(m.line) = m.meant
       /\ m.meant.kind = "public" => Plain(Author(m.line))
       /\ m.meant.kind = "private" => Plain(m.meant.from)
       =>
          LET p == Parse(m.line)
          IN /\ Serialize(p) = m.line
             /\ CASE m.meant.kind \in {"welcome", "refusal"} -> p.type = "AUTH"
                  [] m.meant.kind = "list" ->
                       p.type = "USER_LIST"
                       /\ Names(After(p.content, 2)) = m.meant.names
                  [] m.meant.kind = "notice" ->
                       p.type = "SYSTEM" /\ p.content = m.meant.text
                  [] m.meant.kind = "error" ->
                       p.type = "ERROR" /\ p.content = m.meant.text
                  [] m.meant.kind = "private" ->
                       p.type = "PRIVATE" /\ p.sender = m.meant.from
                       /\ p.content = m.meant.text
                  [] m.meant.kind = "public" ->
                       p.type = "BROADCAST" /\ p.sender = Author(m.line)

(* "anything else - Send public message" (terminal_ui.cpp:169): what is    *)
(* shown as said by a plain name was typed in chat mode by its user.       *)
SaidWasTyped ==
    \A c \in Client : \A m \in OnTheWay(c) :
       LET shown == Shown(m.line)
       IN shown.kind = "public" /\ Plain(Author(shown.text))
             => Typed(Author(shown.text), Everybody, Rest(shown.text))
=============================================================================
