-------------------------- MODULE AuthStoreProofs --------------------------
(***************************************************************************)
(* Theorems about AuthStore, for any accounts, tokens, clients and clock.  *)
(* No statement takes anything away from the tables (Grow); with that, what*)
(* a handler read in an earlier statement still holds when it uses it in a *)
(* later one (RequestInv), whatever ran in between.                        *)
(***************************************************************************)
EXTENDS AuthStore, FiniteSetTheorems, TLAPS

(* One step keeps the accounts and their passwords, and the rows with their*)
(* users and times; it makes no inactive row active.                       *)
AccountsGrow ==
    /\ DOMAIN accounts \subseteq DOMAIN accounts'
    /\ \A u \in DOMAIN accounts : accounts'[u] = accounts[u]

RowsGrow ==
    \A t \in DOMAIN rows :
        /\ t \in DOMAIN rows'
        /\ rows'[t].user = rows[t].user
        /\ rows'[t].expires = rows[t].expires
        /\ rows'[t].active => rows[t].active

(* The tables.                                                             *)
StoreInv ==
    /\ \A u \in DOMAIN accounts : u \in User /\ accounts[u] \in Password
    /\ created = {<<u, accounts[u]>> : u \in DOMAIN accounts}
    /\ \A t \in DOMAIN rows :
          /\ rows[t] \in [user : DOMAIN accounts, expires : Int, active : BOOLEAN]
    /\ \A t \in refused : t \in DOMAIN rows /\ ~rows[t].active

(* What the handler of a client holds.                                     *)
LoginOf(r) == r.kind = "login" /\ r.user \in DOMAIN accounts
RegistrationOf(r) == r.kind = "register" /\ r.user \in User /\ r.password \in Password
QueryOf(r) ==
    /\ r.kind = "query"
    /\ r.token \in DOMAIN rows
    /\ r.expires = rows[r.token].expires - Zone
    /\ ~r.late

RequestInv ==
    \A c \in Client :
        /\ pc[c] = "insertRow" => LoginOf(req[c])
        /\ pc[c] = "insertUser" => RegistrationOf(req[c])
        /\ pc[c] \in {"check", "expire", "serve"} => QueryOf(req[c])
        /\ pc[c] = "ok" => req[c].kind = "none" \/ QueryOf(req[c])

Label == {"closed", "read", "insertRow", "insertUser", "check", "expire",
          "serve", "ok", "created", "refused", "failed"}

Functions == pc \in [Client -> Label] /\ DOMAIN req = Client

AuthInv == now \in Nat /\ Functions /\ StoreInv /\ RequestInv

-----------------------------------------------------------------------------
LEMMA InitAuthInv == Init => AuthInv
<1> SUFFICES ASSUME Init PROVE AuthInv
  OBVIOUS
<1>1. now \in Nat /\ Functions
  <2>1. now \in Nat
    BY DEF Init
  <2>2. Functions
    BY DEF Init, Functions, Label
  <2> QED BY <2>1, <2>2
<1>2. StoreInv
  <2>1. DOMAIN accounts = {} /\ DOMAIN rows = {}
    BY DEF Init
  <2> QED BY <2>1 DEF Init, StoreInv
<1>3. RequestInv
  BY DEF Init, RequestInv
<1> QED BY <1>1, <1>2, <1>3 DEF AuthInv

(* A handler's step changes its own place and request only.                *)
LEMMA OwnStep ==
    ASSUME Functions, NEW c \in Client, NEW label \in Label, Goto(c, label)
    PROVE  /\ pc' \in [Client -> Label]
           /\ pc'[c] = label
           /\ \A d \in Client \ {c} : pc'[d] = pc[d]
  BY DEF Functions, Goto

LEMMA OwnReply ==
    ASSUME Functions, NEW c \in Client, NEW label \in Label, Reply(c, label)
    PROVE  /\ Functions'
           /\ pc'[c] = label
           /\ req'[c] = NoRequest
           /\ \A d \in Client \ {c} : pc'[d] = pc[d] /\ req'[d] = req[d]
  BY OwnStep DEF Functions, Reply

(* What the others hold stays true while the tables only grow.             *)
LEMMA OthersKeepTheirs ==
    ASSUME RequestInv, AccountsGrow, RowsGrow, NEW c \in Client,
           \A d \in Client \ {c} : pc'[d] = pc[d] /\ req'[d] = req[d],
           /\ pc'[c] = "insertRow" => LoginOf(req[c])'
           /\ pc'[c] = "insertUser" => RegistrationOf(req[c])'
           /\ pc'[c] \in {"check", "expire", "serve"} => QueryOf(req[c])'
           /\ pc'[c] = "ok" => (req[c].kind = "none" \/ QueryOf(req[c]))'
    PROVE  RequestInv'
<1> SUFFICES ASSUME NEW d \in Client, d # c
             PROVE /\ pc'[d] = "insertRow" => LoginOf(req[d])'
                   /\ pc'[d] = "insertUser" => RegistrationOf(req[d])'
                   /\ pc'[d] \in {"check", "expire", "serve"} => QueryOf(req[d])'
                   /\ pc'[d] = "ok" => (req[d].kind = "none" \/ QueryOf(req[d]))'
  BY DEF RequestInv
<1>1. pc'[d] = pc[d] /\ req'[d] = req[d]
  OBVIOUS
<1>2. LoginOf(req[d]) => LoginOf(req[d])'
  BY <1>1 DEF LoginOf, AccountsGrow
<1>3. RegistrationOf(req[d]) => RegistrationOf(req[d])'
  BY <1>1 DEF RegistrationOf
<1>4. QueryOf(req[d]) => QueryOf(req[d])'
  BY <1>1 DEF QueryOf, RowsGrow
<1> QED BY <1>1, <1>2, <1>3, <1>4 DEF RequestInv

-----------------------------------------------------------------------------
LEMMA TablesLeftAlone ==
    ASSUME StoreInv, UNCHANGED <<accounts, rows, created, refused>>
    PROVE  AccountsGrow /\ RowsGrow /\ StoreInv'
  BY DEF StoreInv, AccountsGrow, RowsGrow

(* The steps that read: nothing is written, and what is carried to the next*)
(* statement was just read.                                                *)
LEMMA ReadingSteps ==
    ASSUME AuthInv, NEW c \in Client,
           \/ Accept(c) \/ Answered(c) \/ CheckExpiry(c) \/ Serve(c)
           \/ \E u \in User, p \in Password :
                 HandleLogin(c, u, p) \/ HandleRegister(c, u, p)
           \/ \E t \in Token : GetSession(c, t)
    PROVE  AuthInv' /\ AccountsGrow /\ RowsGrow
<1> USE DEF AuthInv
<1>1. UNCHANGED <<now, accounts, rows, created, refused>>
  BY DEF Accept, Answered, HandleLogin, HandleRegister, GetSession, CheckExpiry,
     Serve
<1>2. AccountsGrow /\ RowsGrow /\ StoreInv'
  BY <1>1, TablesLeftAlone
<1>3. CASE Accept(c) \/ Answered(c)
  <2>1. /\ Functions'
        /\ pc'[c] \in {"read", "closed"}
        /\ \A d \in Client \ {c} : pc'[d] = pc[d] /\ req'[d] = req[d]
    BY <1>3, OwnStep, OwnReply DEF Accept, Answered, Functions, Label
  <2> QED BY <1>1, <1>2, <2>1, OthersKeepTheirs
<1>4. ASSUME NEW u \in User, NEW p \in Password, HandleLogin(c, u, p)
      PROVE  AuthInv'
  <2>1. \/ Reply(c, "refused")
        \/ /\ Known(u)
           /\ Goto(c, "insertRow")
           /\ req' = [req EXCEPT ![c] = [kind |-> "login", user |-> u]]
    BY <1>4 DEF HandleLogin
  <2>2. CASE Reply(c, "refused")
    BY <1>1, <1>2, <2>2, OwnReply, OthersKeepTheirs DEF Label
  <2>3. CASE /\ Known(u)
             /\ Goto(c, "insertRow")
             /\ req' = [req EXCEPT ![c] = [kind |-> "login", user |-> u]]
    <3>1. /\ Functions'
          /\ pc'[c] = "insertRow"
          /\ \A d \in Client \ {c} : pc'[d] = pc[d] /\ req'[d] = req[d]
      BY <2>3, OwnStep DEF Functions, Label
    <3>2. LoginOf(req[c])'
      BY <1>1, <2>3 DEF LoginOf, Known, Functions
    <3> QED BY <1>1, <1>2, <3>1, <3>2, OthersKeepTheirs
  <2> QED BY <2>1, <2>2, <2>3
<1>5. ASSUME NEW u \in User, NEW p \in Password, HandleRegister(c, u, p)
      PROVE  AuthInv'
  <2>1. \/ Reply(c, "refused")
        \/ /\ Goto(c, "insertUser")
           /\ req' = [req EXCEPT ![c] =
                        [kind |-> "register", user |-> u, password |-> p]]
    BY <1>5 DEF HandleRegister
  <2>2. CASE Reply(c, "refused")
    BY <1>1, <1>2, <2>2, OwnReply, OthersKeepTheirs DEF Label
  <2>3. CASE /\ Goto(c, "insertUser")
             /\ req' = [req EXCEPT ![c] =
                          [kind |-> "register", user |-> u, password |-> p]]
    <3>1. /\ Functions'
          /\ pc'[c] = "insertUser"
          /\ \A d \in Client \ {c} : pc'[d] = pc[d] /\ req'[d] = req[d]
      BY <2>3, OwnStep DEF Functions, Label
    <3>2. RegistrationOf(req[c])'
      BY <2>3 DEF RegistrationOf, Functions
    <3> QED BY <1>1, <1>2, <3>1, <3>2, OthersKeepTheirs
  <2> QED BY <2>1, <2>2, <2>3
<1>6. ASSUME NEW t \in Token, GetSession(c, t)
      PROVE  AuthInv'
  <2>1. \/ Reply(c, "refused")
        \/ /\ t \in DOMAIN rows /\ rows[t].active
           /\ Goto(c, "check")
           /\ req' = [req EXCEPT ![c] =
                        [kind |-> "query", token |-> t,
                         expires |-> ReadBack(rows[t].expires),
                         late |-> t \in refused]]
    BY <1>6 DEF GetSession
  <2>2. CASE Reply(c, "refused")
    BY <1>1, <1>2, <2>2, OwnReply, OthersKeepTheirs DEF Label
  <2>3. CASE /\ t \in DOMAIN rows /\ rows[t].active
             /\ Goto(c, "check")
             /\ req' = [req EXCEPT ![c] =
                          [kind |-> "query", token |-> t,
                           expires |-> ReadBack(rows[t].expires),
                           late |-> t \in refused]]
    <3>1. /\ Functions'
          /\ pc'[c] = "check"
          /\ \A d \in Client \ {c} : pc'[d] = pc[d] /\ req'[d] = req[d]
      BY <2>3, OwnStep DEF Functions, Label
    <3>2. t \notin refused
      BY <2>3 DEF StoreInv
    <3>3. QueryOf(req[c])'
      BY <1>1, <2>3, <3>2 DEF QueryOf, Functions, ReadBack
    <3> QED BY <1>1, <1>2, <3>1, <3>3, OthersKeepTheirs
  <2> QED BY <2>1, <2>2, <2>3
<1>7. CASE CheckExpiry(c) \/ Serve(c)
  <2>1. \/ pc[c] = "check" /\ (Goto(c, "expire") \/ Goto(c, "serve"))
        \/ pc[c] = "serve" /\ Goto(c, "ok")
    BY <1>7 DEF CheckExpiry, Serve
  <2>2. req' = req
    BY <1>7 DEF CheckExpiry, Serve
  <2>3. /\ Functions'
        /\ pc'[c] \in {"expire", "serve", "ok"}
        /\ \A d \in Client \ {c} : pc'[d] = pc[d] /\ req'[d] = req[d]
    BY <2>1, <2>2, OwnStep DEF Functions, Label
  <2>4. QueryOf(req[c])'
    BY <1>1, <2>1, <2>2 DEF RequestInv, QueryOf
  <2> QED BY <1>1, <1>2, <2>3, <2>4, OthersKeepTheirs
<1> QED BY <1>2, <1>3, <1>4, <1>5, <1>6, <1>7

(* createSession: a failed insert leaves the tables alone.                 *)
LEMMA InsertRowStep ==
    ASSUME AuthInv, NEW c \in Client, NEW t \in Token, InsertRow(c, t)
    PROVE  AuthInv' /\ AccountsGrow /\ RowsGrow
<1> USE DEF AuthInv
<1>1. UNCHANGED <<now, accounts, created, refused>> /\ AccountsGrow
  BY DEF InsertRow, AccountsGrow
<1>2. /\ Functions'
      /\ pc'[c] \in {"ok", "failed"}
      /\ req'[c] = NoRequest
      /\ \A d \in Client \ {c} : pc'[d] = pc[d] /\ req'[d] = req[d]
  BY OwnReply DEF InsertRow, Label
<1>3. RowsGrow /\ StoreInv'
  <2>1. CASE UNCHANGED rows
    BY <1>1, <2>1, TablesLeftAlone
  <2>2. CASE t \notin DOMAIN rows /\ rows' = Insert(rows, t, InsertedRow(c))
    <3>1. /\ DOMAIN rows' = DOMAIN rows \cup {t}
          /\ rows'[t] = InsertedRow(c)
          /\ \A k \in DOMAIN rows : rows'[k] = rows[k]
      BY <2>2 DEF Insert
    <3>2. LoginOf(req[c])
      BY DEF InsertRow, RequestInv
    <3>3. now + Lifetime \in Int
      BY AuthAssumption
    <3>4. InsertedRow(c) \in
             [user : DOMAIN accounts, expires : Int, active : BOOLEAN]
      BY <3>2, <3>3 DEF InsertedRow, LoginOf
    <3>5. RowsGrow
      BY <3>1 DEF RowsGrow
    <3>6. StoreInv'
      BY <1>1, <3>1, <3>4 DEF StoreInv
    <3> QED BY <3>5, <3>6
  <2> QED BY <2>1, <2>2 DEF InsertRow
<1> QED BY <1>1, <1>2, <1>3, OthersKeepTheirs DEF NoRequest

(* createUser: the UNIQUE name decides between registrations that both     *)
(* found it free.                                                          *)
LEMMA InsertUserStep ==
    ASSUME AuthInv, NEW c \in Client, InsertUser(c)
    PROVE  AuthInv' /\ AccountsGrow /\ RowsGrow
<1> USE DEF AuthInv
<1>1. UNCHANGED <<now, rows, refused>> /\ RowsGrow
  BY DEF InsertUser, RowsGrow
<1>2. /\ Functions'
      /\ pc'[c] \in {"created", "failed"}
      /\ \A d \in Client \ {c} : pc'[d] = pc[d] /\ req'[d] = req[d]
  BY OwnReply DEF InsertUser, Label
<1>3. AccountsGrow /\ StoreInv'
  <2>1. CASE UNCHANGED <<accounts, created>>
    BY <1>1, <2>1, TablesLeftAlone
  <2>2. CASE /\ ~Known(req[c].user)
             /\ accounts' = Insert(accounts, req[c].user, req[c].password)
             /\ created' = created \cup {<<req[c].user, req[c].password>>}
    <3>1. /\ DOMAIN accounts' = DOMAIN accounts \cup {req[c].user}
          /\ accounts'[req[c].user] = req[c].password
          /\ \A k \in DOMAIN accounts : accounts'[k] = accounts[k]
      BY <2>2 DEF Known, Insert
    <3>2. RegistrationOf(req[c])
      BY DEF InsertUser, RequestInv
    <3>3. AccountsGrow
      BY <3>1 DEF AccountsGrow
    <3>4. \A u \in DOMAIN accounts' : u \in User /\ accounts'[u] \in Password
      BY <3>1, <3>2 DEF RegistrationOf, StoreInv
    <3>5. created' = {<<u, accounts'[u]>> : u \in DOMAIN accounts'}
      BY <2>2, <3>1 DEF StoreInv
    <3>6. \A t \in DOMAIN rows' :
             rows'[t] \in [user : DOMAIN accounts', expires : Int, active : BOOLEAN]
      BY <1>1, <3>1 DEF StoreInv
    <3>7. \A t \in refused' : t \in DOMAIN rows' /\ ~rows'[t].active
      BY <1>1 DEF StoreInv
    <3> QED BY <3>3, <3>4, <3>5, <3>6, <3>7 DEF StoreInv
  <2> QED BY <2>1, <2>2 DEF InsertUser
<1> QED BY <1>1, <1>2, <1>3, OthersKeepTheirs

(* deleteSession and invalidateSession: a row becomes inactive, and the    *)
(* token counts as refused from then on.                                   *)
LEMMA RowDies ==
    ASSUME StoreInv, UNCHANGED <<accounts, created>>,
           NEW t,
           \/ UNCHANGED <<rows, refused>>
           \/ /\ DOMAIN rows' = DOMAIN rows
              /\ \A x \in DOMAIN rows :
                    rows'[x] = IF x = t THEN [rows[x] EXCEPT !.active = FALSE]
                               ELSE rows[x]
              /\ refused' = refused \cup ({t} \cap DOMAIN rows)
    PROVE  AccountsGrow /\ RowsGrow /\ StoreInv'
<1>1. CASE UNCHANGED <<rows, refused>>
  BY <1>1, TablesLeftAlone
<1>2. CASE /\ DOMAIN rows' = DOMAIN rows
           /\ \A x \in DOMAIN rows :
                 rows'[x] = IF x = t THEN [rows[x] EXCEPT !.active = FALSE]
                            ELSE rows[x]
           /\ refused' = refused \cup ({t} \cap DOMAIN rows)
  <2>1. \A x \in DOMAIN rows :
           /\ rows'[x] \in [user : DOMAIN accounts, expires : Int, active : BOOLEAN]
           /\ rows'[x].user = rows[x].user
           /\ rows'[x].expires = rows[x].expires
           /\ rows'[x].active <=> x # t /\ rows[x].active
    BY <1>2 DEF StoreInv
  <2>2. \A x \in refused' : x \in DOMAIN rows' /\ ~rows'[x].active
    BY <1>2, <2>1 DEF StoreInv
  <2> QED BY <1>2, <2>1, <2>2 DEF StoreInv, AccountsGrow, RowsGrow
<1> QED BY <1>1, <1>2

LEMMA DeletingSteps ==
    ASSUME AuthInv, NEW c \in Client,
           Expire(c) \/ \E t \in Token : Invalidate(c, t)
    PROVE  AuthInv' /\ AccountsGrow /\ RowsGrow
<1> USE DEF AuthInv
<1>1. /\ Functions'
      /\ pc'[c] \in {"ok", "refused", "failed"}
      /\ req'[c] = NoRequest
      /\ \A d \in Client \ {c} : pc'[d] = pc[d] /\ req'[d] = req[d]
  BY OwnReply DEF Expire, Invalidate, Label
<1>2. UNCHANGED <<now, accounts, created>>
  BY DEF Expire, Invalidate
<1>3. AccountsGrow /\ RowsGrow /\ StoreInv'
  <2>1. CASE Expire(c)
    <3>1. req[c].token \in DOMAIN rows
      BY <2>1 DEF Expire, RequestInv, QueryOf
    <3>2. \/ UNCHANGED <<rows, refused>>
          \/ /\ DOMAIN rows' = DOMAIN rows
             /\ \A x \in DOMAIN rows :
                   rows'[x] = IF x = req[c].token
                              THEN [rows[x] EXCEPT !.active = FALSE] ELSE rows[x]
             /\ refused' = refused \cup ({req[c].token} \cap DOMAIN rows)
      BY <2>1, <3>1 DEF Expire
    <3> QED BY <1>2, <3>2, RowDies
  <2>2. ASSUME NEW t \in Token, Invalidate(c, t)
        PROVE  AccountsGrow /\ RowsGrow /\ StoreInv'
    <3>1. \/ UNCHANGED <<rows, refused>>
          \/ /\ DOMAIN rows' = DOMAIN rows
             /\ \A x \in DOMAIN rows :
                   rows'[x] = IF x = t THEN [rows[x] EXCEPT !.active = FALSE]
                              ELSE rows[x]
             /\ refused' = refused \cup ({t} \cap DOMAIN rows)
      BY <2>2 DEF Invalidate
    <3> QED BY <1>2, <3>1, RowDies
  <2> QED BY <2>1, <2>2
<1> QED BY <1>1, <1>2, <1>3, OthersKeepTheirs DEF NoRequest

(* A crash loses the handlers, not the tables.                             *)
LEMMA EnvironmentSteps ==
    ASSUME AuthInv, Clock \/ Stop \/ CrashAndRestart
    PROVE  AuthInv' /\ AccountsGrow /\ RowsGrow
<1> USE DEF AuthInv
<1>1. UNCHANGED <<accounts, rows, created, refused>>
  BY DEF Clock, Stop, CrashAndRestart
<1>2. AccountsGrow /\ RowsGrow /\ StoreInv'
  BY <1>1, TablesLeftAlone
<1>3. now' \in Nat
  BY DEF Clock, Stop, CrashAndRestart
<1>4. CASE Clock \/ Stop
  <2>1. UNCHANGED <<pc, req>>
    BY <1>4 DEF Clock, Stop
  <2> QED BY <1>1, <1>2, <1>3, <2>1 DEF Functions, RequestInv, LoginOf,
             RegistrationOf, QueryOf
<1>5. CASE CrashAndRestart
  <2>1. Functions' /\ \A c \in Client : pc'[c] = "closed"
    BY <1>5 DEF CrashAndRestart, Functions, Label
  <2> QED BY <1>2, <1>3, <2>1 DEF RequestInv
<1> QED BY <1>4, <1>5

LEMMA StepKeepsInv ==
    ASSUME AuthInv, [Next]_vars
    PROVE  AuthInv' /\ AccountsGrow /\ RowsGrow
<1>1. CASE UNCHANGED vars
  BY <1>1 DEF vars, AuthInv, Functions, StoreInv, RequestInv, LoginOf,
     RegistrationOf, QueryOf, AccountsGrow, RowsGrow
<1>2. CASE Clock \/ Stop \/ CrashAndRestart
  BY <1>2, EnvironmentSteps
<1>3. ASSUME NEW c \in Client, Handler(c)
      PROVE  AuthInv' /\ AccountsGrow /\ RowsGrow
  <2>1. CASE Accept(c) \/ Answered(c) \/ CheckExpiry(c) \/ Serve(c)
    BY <2>1, ReadingSteps
  <2>2. CASE \E u \in User, p \in Password :
                HandleLogin(c, u, p) \/ HandleRegister(c, u, p)
    BY <2>2, ReadingSteps
  <2>3. CASE \E t \in Token : GetSession(c, t)
    BY <2>3, ReadingSteps
  <2>4. CASE \E t \in Token : InsertRow(c, t)
    BY <2>4, InsertRowStep
  <2>5. CASE InsertUser(c)
    BY <2>5, InsertUserStep
  <2>6. CASE Expire(c) \/ \E t \in Token : Invalidate(c, t)
    BY <2>6, DeletingSteps
  <2> QED BY <1>3, <2>1, <2>2, <2>3, <2>4, <2>5, <2>6 DEF Handler
<1> QED BY <1>1, <1>2, <1>3 DEF Next

LEMMA AuthInvHolds == Spec => []AuthInv
  BY InitAuthInv, StepKeepsInv, PTL DEF Spec

-----------------------------------------------------------------------------
(* Of the registrations of one name one succeeds, and its password is the  *)
(* account's.                                                              *)
THEOREM OneRegistrationWins == Spec => []OneWinner
<1>1. AuthInv => OneWinner
  <2> SUFFICES ASSUME AuthInv PROVE OneWinner
    OBVIOUS
  <2>1. ASSUME NEW u \in User PROVE Cardinality({w \in created : w[1] = u}) <= 1
    <3>1. CASE u \in DOMAIN accounts
      <4>1. {w \in created : w[1] = u} = {<<u, accounts[u]>>}
        BY <3>1 DEF AuthInv, StoreInv
      <4>2. Cardinality({<<u, accounts[u]>>}) = 1
        BY FS_Singleton, Zenon
      <4> QED BY <4>1, <4>2
    <3>2. CASE u \notin DOMAIN accounts
      <4>1. {w \in created : w[1] = u} = {}
        BY <3>2 DEF AuthInv, StoreInv
      <4> QED BY <4>1, FS_EmptySet
    <3> QED BY <3>1, <3>2
  <2>2. \A w \in created : w[1] \in DOMAIN accounts /\ accounts[w[1]] = w[2]
    BY DEF AuthInv, StoreInv
  <2> QED BY <2>1, <2>2 DEF OneWinner
<1> QED BY AuthInvHolds, <1>1, PTL

(* A session row belongs to an account.                                    *)
THEOREM RowsBelong == Spec => []RowsHaveAccounts
<1>1. AuthInv => RowsHaveAccounts
  BY DEF AuthInv, StoreInv, RowsHaveAccounts
<1> QED BY AuthInvHolds, <1>1, PTL

(* A token that was refused for good is not served again, though the clock *)
(* may go back and requests overlap.                                       *)
THEOREM RefusalIsFinal == Spec => []RefusedStaysRefused
<1>1. AuthInv => RefusedStaysRefused
  BY DEF AuthInv, RequestInv, QueryOf, RefusedStaysRefused
<1> QED BY AuthInvHolds, <1>1, PTL

(* Rows are never lost, given to another user or revived.                  *)
THEOREM TokensOnlyDie == Spec => RowsOnlyDie
<1>1. AuthInv /\ [Next]_vars =>
        [\A t \in DOMAIN rows :
           /\ t \in DOMAIN rows'
           /\ rows'[t].user = rows[t].user
           /\ rows'[t].active => rows[t].active]_vars
  BY StepKeepsInv DEF RowsGrow
<1> QED BY AuthInvHolds, <1>1, PTL DEF Spec, RowsOnlyDie

(* On a machine at or east of Greenwich no expired token passes the check. *)
THEOREM ExpiredIsNotServed ==
    ASSUME Zone >= 0
    PROVE  Spec => NoServiceAfterExpiry
<1>1. AuthInv /\ [Next]_vars =>
        [\A c \in Client :
           pc[c] = "check" /\ pc'[c] = "serve"
              => now <= rows[req[c].token].expires]_vars
  <2> SUFFICES ASSUME AuthInv, Next, NEW c \in Client,
                      pc[c] = "check", pc'[c] = "serve"
               PROVE  now <= rows[req[c].token].expires
    OBVIOUS
  <2>1. CheckExpiry(c)
    <3>1. PICK d \in Client : Handler(d)
      BY DEF Next, Clock, Stop, CrashAndRestart
    <3>2. c = d
      BY <3>1 DEF AuthInv, Functions, Handler, Accept, Answered, HandleLogin,
         HandleRegister, InsertRow, InsertUser, GetSession, CheckExpiry, Expire,
         Serve, Invalidate, Goto, Reply
    <3> QED BY <3>1, <3>2 DEF Handler, Accept, Answered, HandleLogin,
               HandleRegister, InsertRow, InsertUser, GetSession, Expire, Serve,
               Invalidate
  <2>2. ~(now > req[c].expires)
    BY <2>1 DEF CheckExpiry, Goto, AuthInv, Functions
  <2>3. QueryOf(req[c])
    BY DEF AuthInv, RequestInv
  <2>4. rows[req[c].token].expires \in Int
    BY <2>3 DEF AuthInv, StoreInv, QueryOf
  <2>5. req[c].expires = rows[req[c].token].expires - Zone
    BY <2>3 DEF QueryOf
  <2> QED BY <2>2, <2>4, <2>5, AuthAssumption DEF AuthInv
<1> QED BY AuthInvHolds, <1>1, PTL DEF Spec, NoServiceAfterExpiry

-----------------------------------------------------------------------------
(* What TypeOK says beyond AuthInv.                                        *)
Request == {NoRequest} \cup LoginRequest \cup RegisterRequest \cup QueryRequest

TypeInv ==
    /\ now \in 0 .. MaxTime
    /\ listening \in BOOLEAN
    /\ \A t \in DOMAIN rows :
          /\ t \in Token
          /\ rows[t].user \in User
          /\ rows[t].expires \in 0 .. (MaxTime + Lifetime)
    /\ req \in [Client -> Request]

LEMMA InitTypeInv == Init => TypeInv
  BY AuthAssumption DEF Init, TypeInv, Request

(* The bound on a row is the clock's when it was inserted: no later step   *)
(* moves it, wherever the clock is set.                                    *)
LEMMA RowsTyped ==
    ASSUME AuthInv, TypeInv, NEW c \in Client, Handler(c)
    PROVE  \A t \in DOMAIN rows' :
              /\ t \in Token
              /\ rows'[t].user \in User
              /\ rows'[t].expires \in 0 .. (MaxTime + Lifetime)
<1>1. CASE UNCHANGED rows
  BY <1>1 DEF TypeInv
<1>2. ASSUME NEW t \in Token, InsertRow(c, t), rows' # rows
      PROVE  \A x \in DOMAIN rows' :
                /\ x \in Token
                /\ rows'[x].user \in User
                /\ rows'[x].expires \in 0 .. (MaxTime + Lifetime)
  <2>1. rows' = Insert(rows, t, InsertedRow(c)) /\ LoginOf(req[c])
    BY <1>2 DEF InsertRow, AuthInv, RequestInv
  <2>2. /\ DOMAIN rows' = DOMAIN rows \cup {t}
        /\ rows'[t] = InsertedRow(c)
        /\ \A k \in DOMAIN rows \ {t} : rows'[k] = rows[k]
    BY <2>1 DEF Insert
  <2>3. now + Lifetime \in 0 .. (MaxTime + Lifetime)
    BY AuthAssumption DEF TypeInv
  <2>4. InsertedRow(c).user \in User
    BY <2>1 DEF LoginOf, InsertedRow, AuthInv, StoreInv
  <2>5. InsertedRow(c).expires = now + Lifetime
    BY DEF InsertedRow
  <2> QED BY <2>2, <2>3, <2>4, <2>5 DEF TypeInv
<1>3. ASSUME Expire(c) \/ \E t \in Token : Invalidate(c, t), rows' # rows
      PROVE  \A x \in DOMAIN rows' :
                /\ x \in Token
                /\ rows'[x].user \in User
                /\ rows'[x].expires \in 0 .. (MaxTime + Lifetime)
  <2>1. DOMAIN rows' = DOMAIN rows
    BY <1>3 DEF Expire, Invalidate
  <2>2. RowsGrow
    BY <1>3, DeletingSteps
  <2> QED BY <2>1, <2>2 DEF RowsGrow, TypeInv
<1>4. \/ UNCHANGED rows
      \/ \E t \in Token : InsertRow(c, t)
      \/ Expire(c) \/ \E t \in Token : Invalidate(c, t)
  BY DEF Handler, Accept, Answered, HandleLogin, HandleRegister, InsertUser,
     GetSession, CheckExpiry, Serve
<1> QED BY <1>1, <1>2, <1>3, <1>4

LEMMA RequestsTyped ==
    ASSUME AuthInv, TypeInv, NEW c \in Client, Handler(c)
    PROVE  req' \in [Client -> Request]
<1>1. ASSUME NEW r \in Request, req' = [req EXCEPT ![c] = r]
      PROVE  req' \in [Client -> Request]
  BY <1>1 DEF TypeInv
<1>2. CASE req' = req
  BY <1>2 DEF TypeInv
<1>3. CASE \E label \in Label : Reply(c, label)
  BY <1>1, <1>3 DEF Reply, Request
<1>4. CASE \E u \in User, p \in Password :
              HandleLogin(c, u, p) \/ HandleRegister(c, u, p)
  <2>1. PICK u \in User, p \in Password :
           HandleLogin(c, u, p) \/ HandleRegister(c, u, p)
    BY <1>4
  <2>2. /\ [kind |-> "login", user |-> u] \in Request
        /\ [kind |-> "register", user |-> u, password |-> p] \in Request
    BY DEF Request, LoginRequest, RegisterRequest
  <2>3. \/ Reply(c, "refused")
        \/ req' = [req EXCEPT ![c] = [kind |-> "login", user |-> u]]
        \/ req' = [req EXCEPT ![c] =
                     [kind |-> "register", user |-> u, password |-> p]]
    BY <2>1 DEF HandleLogin, HandleRegister
  <2> QED BY <1>1, <1>3, <2>2, <2>3 DEF Label
<1>5. CASE \E t \in Token : GetSession(c, t)
  <2>1. PICK t \in Token : GetSession(c, t)
    BY <1>5
  <2>2. CASE t \in DOMAIN rows
    <3> DEFINE r == [kind |-> "query", token |-> t,
                     expires |-> ReadBack(rows[t].expires),
                     late |-> t \in refused]
    <3>1. ReadBack(rows[t].expires) \in Int
      BY <2>2, AuthAssumption DEF ReadBack, AuthInv, StoreInv
    <3>2. (t \in refused) \in BOOLEAN
      OBVIOUS
    <3>3. r \in Request
      BY <3>1, <3>2 DEF Request, QueryRequest
    <3>4. Reply(c, "refused") \/ req' = [req EXCEPT ![c] = r]
      BY <2>1 DEF GetSession
    <3> QED BY <1>1, <1>3, <3>3, <3>4 DEF Label
  <2>3. CASE t \notin DOMAIN rows
    BY <1>3, <2>1, <2>3 DEF GetSession, Label
  <2> QED BY <2>2, <2>3
<1>6. \/ req' = req
      \/ \E label \in Label : Reply(c, label)
      \/ \E u \in User, p \in Password :
            HandleLogin(c, u, p) \/ HandleRegister(c, u, p)
      \/ \E t \in Token : GetSession(c, t)
  BY DEF Handler, Accept, Answered, InsertRow, InsertUser, CheckExpiry, Expire,
     Serve, Invalidate, Label
<1> QED BY <1>2, <1>3, <1>4, <1>5, <1>6

LEMMA StepKeepsTypes == AuthInv /\ TypeInv /\ [Next]_vars => TypeInv'
<1> SUFFICES ASSUME AuthInv, TypeInv, [Next]_vars PROVE TypeInv'
  OBVIOUS
<1>1. CASE UNCHANGED vars
  BY <1>1 DEF vars, TypeInv
<1>2. CASE Clock \/ Stop
  <2>1. UNCHANGED <<rows, req>>
    BY <1>2 DEF Clock, Stop
  <2>2. now' \in 0 .. MaxTime
    BY <1>2, AuthAssumption DEF Clock, Stop, TypeInv
  <2>3. listening' \in BOOLEAN
    BY <1>2 DEF Clock, Stop, TypeInv
  <2> QED BY <2>1, <2>2, <2>3 DEF TypeInv
<1>3. CASE CrashAndRestart
  BY <1>3 DEF CrashAndRestart, TypeInv, Request
<1>4. ASSUME NEW c \in Client, Handler(c)
      PROVE  TypeInv'
  <2>1. UNCHANGED <<now, listening>>
    BY <1>4 DEF Handler, Accept, Answered, HandleLogin, HandleRegister, InsertRow,
       InsertUser, GetSession, CheckExpiry, Expire, Serve, Invalidate
  <2> QED BY <1>4, <2>1, RowsTyped, RequestsTyped DEF TypeInv
<1> QED BY <1>1, <1>2, <1>3, <1>4 DEF Next

(* Every variable keeps its type; no row outlives the clock by more than   *)
(* one lifetime, and what was refused is still on file.                    *)
THEOREM StoreTypeCorrect == Spec => []TypeOK
<1>1. AuthInv /\ TypeInv => TypeOK
  <2> SUFFICES ASSUME AuthInv, TypeInv PROVE TypeOK
    OBVIOUS
  <2>1. /\ DOMAIN accounts \subseteq User
        /\ \A u \in DOMAIN accounts : accounts[u] \in Password
        /\ created \subseteq User \X Password
        /\ refused \subseteq DOMAIN rows
    BY DEF AuthInv, StoreInv
  <2>2. \A t \in DOMAIN rows :
           rows[t] \in Row /\ rows[t].expires <= MaxTime + Lifetime
    <3> SUFFICES ASSUME NEW t \in DOMAIN rows
                 PROVE rows[t] \in Row /\ rows[t].expires <= MaxTime + Lifetime
      OBVIOUS
    <3>1. rows[t] \in [user : DOMAIN accounts, expires : Int, active : BOOLEAN]
      BY DEF AuthInv, StoreInv
    <3>2. /\ rows[t].user \in User
          /\ rows[t].expires \in 0 .. (MaxTime + Lifetime)
      BY DEF TypeInv
    <3>3. rows[t].expires \in Nat /\ rows[t].expires <= MaxTime + Lifetime
      BY <3>2, AuthAssumption
    <3> QED BY <3>1, <3>2, <3>3 DEF Row
  <2>3. /\ now \in 0 .. MaxTime
        /\ listening \in BOOLEAN
        /\ DOMAIN rows \subseteq Token
        /\ req \in [Client -> {NoRequest} \cup LoginRequest \cup RegisterRequest
                                \cup QueryRequest]
    BY DEF TypeInv, Request
  <2> QED BY <2>1, <2>2, <2>3 DEF TypeOK, AuthInv, Functions, Label
<1> QED BY <1>1, AuthInvHolds, InitTypeInv, StepKeepsTypes, PTL DEF Spec
=============================================================================
