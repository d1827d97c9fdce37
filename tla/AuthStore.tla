----------------------------- MODULE AuthStore ------------------------------
(***************************************************************************)
(* Accounts and login sessions in the database (src/common/database.cpp)   *)
(* and the two interfaces that grant and check session tokens: the REST    *)
(* handlers of src/server/rest_api.cpp and AuthManager of                  *)
(* src/common/auth.cpp.  Each SQL statement is atomic; a handler is the    *)
(* sequence of its statements, and the handlers of several connections     *)
(* interleave between them.                                                *)
(*                                                                         *)
(* Time is counted in units of which a session lives Lifetime.             *)
(***************************************************************************)
EXTENDS Integers, FiniteSets

CONSTANTS
    User, Password,
    Token,         \* what generateSessionToken may return
    Client,        \* HTTP connections and callers of AuthManager
    Manager,       \* those that call AuthManager
    Disabled,      \* accounts with is_active = 0 (set outside the program)
    Rejected,      \* names and passwords of which AuthManager refuses the form
    Lifetime,      \* 24 hours
    Zone,          \* local time minus UTC on the machine
    ClockSteps,    \* whether the system clock may be set back
    WritesFail,    \* whether a writing statement may fail (disk, SQLITE_BUSY)
    MaxTime        \* bound on the clock

ASSUME AuthAssumption ==
    /\ Manager \subseteq Client
    /\ Disabled \subseteq User
    /\ Rejected \subseteq User \X Password
    /\ Lifetime \in Nat
    /\ Zone \in Int
    /\ ClockSteps \in BOOLEAN
    /\ WritesFail \in BOOLEAN
    /\ MaxTime \in Nat

VARIABLES
    now,        \* system_clock
    listening,  \* RestApiServer::running_
    accounts,   \* table users: name -> password
    rows,       \* table sessions: token -> row
    pc, req,    \* per client, where its handler is and what it holds
    created,    \* history: <<name, password>> of the successful registrations
    refused     \* history: tokens expired or invalidated, of which the row
                \* was written

vars == <<now, listening, accounts, rows, pc, req, created, refused>>

Row == [user : User, expires : Nat, active : BOOLEAN]

NoRequest == [kind |-> "none"]
LoginRequest == [kind : {"login"}, user : User]
RegisterRequest == [kind : {"register"}, user : User, password : Password]
QueryRequest == [kind : {"query"}, token : Token, expires : Int, late : BOOLEAN]

TypeOK ==
    /\ now \in 0 .. MaxTime
    /\ listening \in BOOLEAN
    /\ DOMAIN accounts \subseteq User
    /\ \A u \in DOMAIN accounts : accounts[u] \in Password
    /\ DOMAIN rows \subseteq Token
    /\ \A t \in DOMAIN rows :
          rows[t] \in Row /\ rows[t].expires <= MaxTime + Lifetime
    /\ pc \in [Client -> {"closed", "read", "insertRow", "insertUser", "check",
                          "expire", "serve", "ok", "created", "refused",
                          "failed"}]
    /\ req \in [Client -> {NoRequest} \cup LoginRequest \cup RegisterRequest
                          \cup QueryRequest]
    /\ created \subseteq User \X Password
    /\ refused \subseteq DOMAIN rows

Init ==
    /\ now = 0
    /\ listening = TRUE
    /\ accounts = << >>
    /\ rows = << >>
    /\ pc = [c \in Client |-> "closed"]
    /\ req = [c \in Client |-> NoRequest]
    /\ created = {}
    /\ refused = {}

(* INSERT INTO a table, which is a function from its primary key.          *)
Insert(table, key, row) ==
    [k \in DOMAIN table \cup {key} |-> IF k = key THEN row ELSE table[k]]

Goto(c, label) == pc' = [pc EXCEPT ![c] = label]
Reply(c, label) == Goto(c, label) /\ req' = [req EXCEPT ![c] = NoRequest]

-----------------------------------------------------------------------------
(* Connections *)

(* on_accept starts the session; do_read waits for a request.              *)
Accept(c) ==
    /\ listening
    /\ pc[c] = "closed"
    /\ Goto(c, "read")
    /\ UNCHANGED <<now, listening, accounts, rows, req, created, refused>>

(* on_write: the connection is kept for the next request, or closed when   *)
(* the write failed or the response asks for it.  on_read: the peer closed.*)
Answered(c) ==
    /\ pc[c] \in {"read", "ok", "created", "refused", "failed"}
    /\ \/ pc[c] # "read" /\ Reply(c, "read")
       \/ Reply(c, "closed")
    /\ UNCHANGED <<now, listening, accounts, rows, created, refused>>

(* stop(): the acceptor is closed, open connections go on.                 *)
Stop ==
    /\ listening
    /\ listening' = FALSE
    /\ UNCHANGED <<now, accounts, rows, pc, req, created, refused>>

(* The process dies: handlers and their answers are lost, the database is  *)
(* not; it is opened again by the next process.                            *)
CrashAndRestart ==
    /\ pc' = [c \in Client |-> "closed"]
    /\ req' = [c \in Client |-> NoRequest]
    /\ listening' = TRUE
    /\ UNCHANGED <<now, accounts, rows, created, refused>>

Clock ==
    /\ \/ now < MaxTime /\ now' = now + 1
       \/ ClockSteps /\ now > 0 /\ now' = now - 1
    /\ UNCHANGED <<listening, accounts, rows, pc, req, created, refused>>

-----------------------------------------------------------------------------
(* The look-ups *)

(* getUserByUsername.                                                      *)
Known(u) == u \in DOMAIN accounts

(* timePointToString writes with gmtime, stringToTimePoint reads with      *)
(* mktime, which takes what it reads for local time.                       *)
ReadBack(time) == time - Zone

(* validateUsername and validatePassword: only AuthManager calls them.     *)
WellFormed(c, u, p) == c \in Manager => <<u, p>> \notin Rejected

-----------------------------------------------------------------------------
(* Login *)

(* Mutant: a name that is not registered may log in.                       *)
HandleLoginUnknown(c, u, p) ==
    /\ pc[c] = "read"
    /\ IF Known(u) => accounts[u] = p
       THEN /\ Goto(c, "insertRow")
            /\ req' = [req EXCEPT ![c] = [kind |-> "login", user |-> u]]
       ELSE Reply(c, "refused")
    /\ UNCHANGED <<now, listening, accounts, rows, created, refused>>

(* getUserByUsername and verifyPassword.  Only AuthManager looks at the    *)
(* form and at is_active.                                                  *)
HandleLogin(c, u, p) ==
    /\ pc[c] = "read"
    /\ IF /\ WellFormed(c, u, p)
          /\ Known(u)
          /\ accounts[u] = p
          /\ c \in Manager => u \notin Disabled
       THEN /\ Goto(c, "insertRow")
            /\ req' = [req EXCEPT ![c] = [kind |-> "login", user |-> u]]
       ELSE Reply(c, "refused")
    /\ UNCHANGED <<now, listening, accounts, rows, created, refused>>

InsertedRow(c) == [user |-> req[c].user, expires |-> now + Lifetime,
                   active |-> TRUE]

(* Mutants: the row replaces one with the same token; lives too long.      *)
InsertRowReplaces(c, t) ==
    /\ pc[c] = "insertRow"
    /\ rows' = Insert(rows, t, InsertedRow(c))
    /\ Reply(c, "ok")
    /\ UNCHANGED <<now, listening, accounts, created, refused>>
InsertRowLong(c, t) ==
    /\ pc[c] = "insertRow"
    /\ t \notin DOMAIN rows
    /\ rows' = Insert(rows, t, [InsertedRow(c) EXCEPT !.expires = @ + Lifetime])
    /\ Reply(c, "ok")
    /\ UNCHANGED <<now, listening, accounts, created, refused>>

(* createSession: the token is the primary key.  AuthManager also writes   *)
(* last_login, which nothing reads.                                        *)
InsertRow(c, t) ==
    /\ pc[c] = "insertRow"
    /\ \/ /\ t \notin DOMAIN rows
          /\ rows' = Insert(rows, t, InsertedRow(c))
          /\ Reply(c, "ok")
       \/ /\ t \in DOMAIN rows \/ WritesFail
          /\ Reply(c, "failed")
          /\ UNCHANGED rows
    /\ UNCHANGED <<now, listening, accounts, created, refused>>

-----------------------------------------------------------------------------
(* Registration *)

(* "Check if user exists", then create it: two statements.                 *)
HandleRegister(c, u, p) ==
    /\ pc[c] = "read"
    /\ IF Known(u) \/ ~WellFormed(c, u, p)
       THEN Reply(c, "refused")
       ELSE /\ Goto(c, "insertUser")
            /\ req' = [req EXCEPT ![c] =
                         [kind |-> "register", user |-> u, password |-> p]]
    /\ UNCHANGED <<now, listening, accounts, rows, created, refused>>

(* Mutant: the username column is not UNIQUE.                              *)
InsertUserReplaces(c) ==
    /\ pc[c] = "insertUser"
    /\ accounts' = Insert(accounts, req[c].user, req[c].password)
    /\ created' = created \cup {<<req[c].user, req[c].password>>}
    /\ Reply(c, "created")
    /\ UNCHANGED <<now, listening, rows, refused>>

(* createUser: username is UNIQUE.                                         *)
InsertUser(c) ==
    /\ pc[c] = "insertUser"
    /\ \/ /\ ~Known(req[c].user)
          /\ accounts' = Insert(accounts, req[c].user, req[c].password)
          /\ created' = created \cup {<<req[c].user, req[c].password>>}
          /\ Reply(c, "created")
       \/ /\ Known(req[c].user) \/ WritesFail
          /\ Reply(c, "failed")
          /\ UNCHANGED <<accounts, created>>
    /\ UNCHANGED <<now, listening, rows, refused>>

-----------------------------------------------------------------------------
(* Requests that carry a token *)

(* getSession.                                                             *)
GetSession(c, t) ==
    /\ pc[c] = "read"
    /\ IF t \in DOMAIN rows /\ rows[t].active
       THEN /\ Goto(c, "check")
            /\ req' = [req EXCEPT ![c] =
                         [kind |-> "query", token |-> t,
                          expires |-> ReadBack(rows[t].expires),
                          late |-> t \in refused]]
       ELSE Reply(c, "refused")
    /\ UNCHANGED <<now, listening, accounts, rows, created, refused>>

(* Mutant: the comparison with expires_at is gone.                         *)
CheckNothing(c) ==
    /\ pc[c] = "check"
    /\ Goto(c, "serve")
    /\ UNCHANGED <<now, listening, accounts, rows, req, created, refused>>

CheckExpiry(c) ==
    /\ pc[c] = "check"
    /\ Goto(c, IF now > req[c].expires THEN "expire" ELSE "serve")
    /\ UNCHANGED <<now, listening, accounts, rows, req, created, refused>>

(* Mutant: an expired row stays active.                                    *)
ExpireKeepsRow(c) ==
    /\ pc[c] = "expire"
    /\ refused' = refused \cup {req[c].token}
    /\ Reply(c, "refused")
    /\ UNCHANGED <<now, listening, accounts, rows, created>>

(* deleteSession in the validation; its result is ignored.                 *)
Expire(c) ==
    /\ pc[c] = "expire"
    /\ \/ /\ rows' = [rows EXCEPT ![req[c].token].active = FALSE]
          /\ refused' = refused \cup {req[c].token}
       \/ /\ WritesFail
          /\ UNCHANGED <<rows, refused>>
    /\ Reply(c, "refused")
    /\ UNCHANGED <<now, listening, accounts, created>>

(* The handler reads what was asked for and answers.                       *)
Serve(c) ==
    /\ pc[c] = "serve"
    /\ Goto(c, "ok")
    /\ UNCHANGED <<now, listening, accounts, rows, req, created, refused>>

(* invalidateSession: updating no row is a success too.                    *)
Invalidate(c, t) ==
    /\ c \in Manager
    /\ pc[c] = "read"
    /\ \/ /\ rows' = [x \in DOMAIN rows |->
                       IF x = t THEN [rows[x] EXCEPT !.active = FALSE]
                                ELSE rows[x]]
          /\ refused' = refused \cup ({t} \cap DOMAIN rows)
          /\ Reply(c, "ok")
       \/ /\ WritesFail
          /\ Reply(c, "failed")
          /\ UNCHANGED <<rows, refused>>
    /\ UNCHANGED <<now, listening, accounts, created>>

-----------------------------------------------------------------------------
Handler(c) ==
    \/ Accept(c)
    \/ Answered(c)
    \/ \E u \in User, p \in Password :
          HandleLogin(c, u, p) \/ HandleRegister(c, u, p)
    \/ \E t \in Token : InsertRow(c, t) \/ GetSession(c, t) \/ Invalidate(c, t)
    \/ InsertUser(c)
    \/ CheckExpiry(c)
    \/ Expire(c)
    \/ Serve(c)

Next == Clock \/ Stop \/ CrashAndRestart \/ \E c \in Client : Handler(c)

Spec == Init /\ [][Next]_vars

-----------------------------------------------------------------------------
(* Two registrations of one name never both succeed, however their look-ups*)
(* and inserts interleave, and the account keeps the password of the one   *)
(* that did (rest_api.cpp:236-249, database.cpp:36).                       *)
OneWinner ==
    /\ \A u \in User : Cardinality({w \in created : w[1] = u}) <= 1
    /\ \A w \in created : w[1] \in DOMAIN accounts /\ accounts[w[1]] = w[2]

(* Every session row belongs to a registered account: the handlers look    *)
(* the account up in one statement and insert the row in a later one.      *)
RowsHaveAccounts == \A t \in DOMAIN rows : rows[t].user \in DOMAIN accounts

(* A token that was refused as expired, or invalidated, is not served to   *)
(* any request that looks it up afterwards, in whatever order the requests *)
(* that were under way finish and although the clock may be set back       *)
(* (rest_api.cpp:409-418); unless the write of its row failed.             *)
RefusedStaysRefused ==
    \A c \in Client :
        pc[c] \in {"serve", "ok"} /\ req[c].kind = "query" => ~req[c].late

(* What the check lets through is not expired when it is checked: the      *)
(* action property behind "Check if session is expired"                    *)
(* (rest_api.cpp:414, auth.cpp:134).                                       *)
NoServiceAfterExpiry ==
    [][\A c \in Client :
          pc[c] = "check" /\ pc'[c] = "serve"
             => now <= rows[req[c].token].expires]_vars

(* A session row is never lost, never given to another user, and once      *)
(* inactive stays inactive: a token that was handed out is nobody else's.  *)
RowsOnlyDie ==
    [][\A t \in DOMAIN rows :
          /\ t \in DOMAIN rows'
          /\ rows'[t].user = rows[t].user
          /\ rows'[t].active => rows[t].active]_vars
=============================================================================
