# CLI-Chat in TLA+

A verification project for CLI-Chat: a chat server in C++ (Boost.Asio, TLS, SQLite), its
terminal client, a REST interface, a Redis client for several servers and a React front
end. The modules here are translated from the sources; paths below are relative to the
repository, whose C++ code is under `src/`.

## 1. Inventory

| Part | Source | State | Operations |
|---|---|---|---|
| Session registry | `src/server/server.cpp` | `sessions_by_username_`, `all_sessions_`, `sessions_mutex_`, `running_`, acceptor | accept, addSession, removeSession, broadcastMessage, sendPrivateMessage, getOnlineUsers, isUserOnline, stop |
| Session | `src/server/session.cpp` | socket, read buffer, write queue, `authenticated_`, `username_`, token | handshake, handleRead, processMessage (login, register, `@`, broadcast, users, logout), sendMessage, handleWrite, stop |
| Program | `src/server/main.cpp` | `hardware_concurrency()` threads in `io_context.run()` | start, join |
| Database | `src/common/database.cpp` | tables users, messages, sessions | one SQL statement per function |
| REST interface | `src/server/rest_api.cpp` | one `HttpSession` per connection | login, register, messages, users, stats |
| AuthManager | `src/common/auth.cpp` | none (opens the database per call) | authenticate, registerUser, validateSession, invalidateSession |
| Terminal client | `src/client/*.cpp` | `connected_`, `authenticated_`, `username_`, write queue, io thread | connect, login, register, chat, disconnect |
| Redis client | `src/common/redis_client.cpp` | two contexts, two mutexes, a subscription thread | connect, disconnect, commands, subscribe, publish, registerServer |
| Secrets, configuration | `src/common/secrets.cpp`, `config.cpp` | three secrets in memory, 13 settings | loadFromFile, loadFromEnv, initialize, get, clearSecrets |
| Text protocol | `session.cpp`, `client.cpp`, `terminal_ui.cpp` | lines on the way | requests, commands, answers, what is shown |
| Message parser | `src/common/message.cpp` | none | parse, serialize, build, parseUserList, escape |
| Crypto, logger | `src/common/crypto.cpp`, `logger.cpp` | none / a file | hashing, tokens, TLS contexts / log |
| Web front end | `frontend/src` | token in local storage, a socket | login, logout, messages |

**Interaction.** Each session has a chain of reads (one `async_read_until` after the other)
and a chain of writes (one `async_write` per queued message). Their completion handlers run
on any worker, so the handlers of different sessions, and the read and the write handler of
one session, run at the same time. They meet in the registry (under `sessions_mutex_`), in
each other's write queues (under `write_mutex_`) and in the database. The REST interface
shares the database and asks the registry for the users online. In the client the user
interface runs in the main thread and the connection in an io thread; they share
`connected_` and `authenticated_` and synchronise by sleeping.

**What is hard.** Removals come from three sides (read error, write error, logout) and may
come twice; a login runs through five steps between which its connection may fail; the
mutex is locked again by the functions it protects; the user list is computed at one time
and queued at another; answers reach the client later than it waits; times are written in
one zone and read in another; a line is read by another rule than it was written by, and
its meaning depends on the state of the session when its turn comes. `PROJECT.json` lists these hazards at their lines.

**Correct means.** Registry: it holds sessions that are being read, under their own names,
and forgets those that are gone. Session: one read and one write at a time. Delivery:
everybody hears the same messages in the same order, once, and private messages only by
their recipient. Accounts: a name has one owner, a token has one user, expires, and stays
refused. Client: it believes it is logged in only when it is, and notices a lost
connection. Protocol: a line is taken for what its writer meant and shown under the name of
the one who typed it. Settings: the environment goes before the file, and a program has all
the secrets of its file or none.

### The code as modelled

As it stands the server does not compile: `struct chat::Session` (`database.hpp`) and
`class chat::Session` (`session.hpp`) clash, `starts_with` is not C++17, `res` is not captured at
`rest_api.cpp:164`. The modules model the evident intention (two types, a prefix test, a
captured pointer). `RestApiServer`, `RedisClient` and `AuthManager` are created by no program
of the repository; they are modelled as their callers may use them. TLS is taken to be
enabled: with `tls_enabled=false` the first session dereferences a null context
(`session.cpp:14`).

## 2. Modules

| Module | Models | Checked by |
|---|---|---|
| `ChatServer` | the registry and the sessions' life, on several workers | `Server*.cfg` through `MCChatServer` |
| `ChatServerProofs` | theorems about `ChatServer` | TLAPS |
| `ChatRoom` | abstract: one log, everybody hears it in order | as a property of `MessageFlow` |
| `MessageFlow` | a line's way from its sender through database, mutex and queues | `FlowRoom.cfg` through `MCMessageFlow` |
| `MessageFlowProofs` | theorems about `MessageFlow` | TLAPS |
| `RoomProofs` | `MessageFlow` implements `ChatRoom`; private messages | TLAPS |
| `Filter` | helper: what of a sequence is in a set | with the two above |
| `ChatClient` | the terminal client's two threads and a session of the server | `ClientSession.cfg` through `MCChatClient` |
| `ChatClientProofs` | theorems about `ChatClient` | TLAPS |
| `Wire` | the lines of the protocol, their four readers and writers | `Wire*.cfg` through `MCWire` |
| `WireProofs` | theorems about `Wire` | TLAPS |
| `RedisClient` | the threads, contexts and mutexes of one Redis client | `RedisThreads.cfg` |
| `RedisClientProofs` | theorems about `RedisClient` | TLAPS |
| `AuthStore` | accounts, session rows, REST and AuthManager handlers | `Auth*.cfg` through `MCAuthStore` |
| `AuthStoreProofs` | theorems about `AuthStore` | TLAPS |
| `Settings` | configuration files, environment and secrets | `SettingsStart.cfg` through `MCSettings` |
| `SettingsProofs` | theorems about `Settings` | TLAPS |

### ChatServer

`frame[t]` is what worker `t` is executing: the step (`pc`), the session, a user name and the
handler (`via`: read, read error, write error) that called. One action is the code between two
points at which another worker can interfere: a lock, a database statement, the end of the
handler. `RecursiveMutex` says what locking `sessions_mutex_` twice does. `FALSE` is the
`std::mutex` of `server.hpp:54`: the second lock blocks for ever (formally undefined; it is
what the pthread mutex under it does). `TRUE` lets the nested calls
of `addSession` and `removeSession` through, which is what their authors presume; it is the
setting under which the rest of the server can be explored at all. Every step that the plain mutex allows
is allowed by the other one too (`CanLock` only becomes weaker), so the safety properties of `ServerSafety`
hold of the code as it is as well; what `ServerLiveness` shows is conditional on the mutex being replaced.
`ServerListWedge` and the theorem `PlainMutexWedges` are about the code as it is, in which the first login wedges the server: no liveness
is claimed of it.

`DeleteRows` is `deleteSession` for the sessions that `stop()` is called for: each statement may fail, which nobody
notices. `kept` is a history variable, the rows of which the deletion was tried and failed.

The write chain of a session is abstracted to *empty*, *in flight* and *failed* (its contents
are in `MessageFlow`); `view[s]` is the last user list queued to it. Names, passwords and texts
are model values; `username[s]` outlives a logout as `username_` does.

### MessageFlow and ChatRoom

The registry is reduced to a set of members that a session enters and leaves once; what is
modelled exactly is `sendMessage`, `handleWrite`, `saveMessage`, `broadcastMessage` (one push per
recipient, in any order of the hash map, under the lock) and `sendPrivateMessage`. `saveMessage` may fail, and the line
goes on as if it had not; `saved` is the table, and the history variable `lost` has the lines whose insertion failed.
`InsertFails` bounds of whom. Lines that a removed session had read already are still processed. `Filter` picks the
lines of one kind out of a queue. Two more history
variables, the log of fan-outs and each member's start in it, give the refinement mapping to
`ChatRoom`: `heard` is the sequence of broadcasts the peer has received. The mutex is one that
does not block the logins (see `RecursiveMutex`).

### ChatClient

`io` is the state of the io thread, `ui` the place of the main thread in `TerminalUI::run`. Sleeping
is a step that may happen at any time, because the answer may come before or after it. Each
direction of the connection is one FIFO that includes the sender's write queue. The
server's side is one session reduced to its verdicts on login and registration; `granted` is a history variable, whether
it accepted a registration. A lost connection is noticed by the outstanding read (`ConnectionError`) or by a write
(`WriteError`), which leaves the read outstanding.

### Wire

`ChatServer`, `ChatClient` and `MessageFlow` know messages by their meaning; `Wire` has the texts, and drops
the steps: each handler is one action. A text is a sequence of tokens of `Word`: the words of persons and of the
protocol, and the four characters (`:` `@` `,` and space, `Mark`) that some reader looks for. A line travels together with
what its writer means by it (`meant`), so that a reader's understanding can be compared with it. There are
three readers: the server before and after the login (`FirstCommand`, `ChatCommand`:
`processMessage`), the client (`Shown`: its own `processMessage`), and `MessageParser` (`Parse`, `Serialize`), which
neither program calls. Wording (why something was refused), lengths and the end of the line are left
out. `Disabled` are the accounts with `is_active = 0`, which nothing in the program sets. `Patient` persons wait for an answer before they ask again and log in once; the others may log in again while
they are logged in, as the menu allows after chat mode was left, or when an answer comes later than
the half second the interface waits. The command `logout` is sent by no interface and appears only as a
text that is typed.

Several oddities of the source are in the model and excluded from the properties by name: a user named
like a keyword is misread by every client (`auth` even clears `authenticated_`), a password
with a colon registers as password and email and cannot log in, a comma in a name splits the list of
users, the parser does not know `private_sent:`, and a line `@a:b hi` goes to `a`, also when it was typed to a user `a:b` (`TypedTo`).
A login ends the name at the first colon, so no session bears a name with one: `NoName`, a colon, stands for no name. The prompts (`terminal_ui.cpp:133`) ask for
alphanumeric names; `handleRegister` looks at the length only.

### AuthStore

Each client runs one handler at a time, statement by statement; `Manager` are the callers of
AuthManager, the others are HTTP connections. The two history variables record successful
registrations and refused tokens. `Zone` is the machine's offset from UTC, `ClockSteps` allows
the system clock to be set back, `WritesFail` lets writing statements fail (a token then counts as
refused only if the row could be written); `CrashAndRestart`
loses the handlers and keeps the database. `Disabled` accounts are refused by AuthManager
(`auth.cpp:35`) and not by the REST login, which does not look at `is_active`
(`rest_api.cpp:189`). `Rejected` are the names and passwords of which AuthManager refuses the form;
the REST handlers look at no form.

### RedisClient

An owner thread calls `connect`, `subscribe` and `disconnect`, users call commands, `worker` is the
subscription thread. The mutexes are not variables: `ContextLocked` and `SubLocked` say which steps
hold them (a `lock_guard` is given back at the end of its scope). A context is null, connected or lost;
`contexts` counts the ones allocated. A message is the subscription it was received for. Two calls
end the process and the model with it (`alive`): a second `subscribe()`, which replaces the callback, starts a
thread and assigns it to a joinable one (`CallSubscribe`, then `AssignThread`; until then the old thread goes on, and the one that was
started and reads the same context under the same mutex is not told from it), and a command that passed its test of `context_` before `disconnect()` freed it. The owner
calls `connect()` only when `isConnected()` is false. `subscribe()` may wait for ever behind a worker that was
faster and now waits for a message: no property claims otherwise.

### Settings

A file is the sequence of its lines, each a key and a value; comments and lines without `=` are lines whose
key is nobody's. `main()` opens the configuration file, reads it line by line, and then the environment; an
exception of `stoi` ends the program (`dead`). When the file cannot be opened, and only then,
`setDefaults` initialises the secrets manager (`config.cpp:18,83`); the client without an argument opens no file
at all. After that the program may call `initialize` and `clearSecrets` in any order while somebody edits the
secrets file. A secret is abstracted to what `validateSecretStrength` looks at: its length, the classes
of its characters, and whether it contains a common password.

## 3. Runs

Passing runs, one for each question:

| Run | Instance | Shows |
|---|---|---|
| `ServerSafety` | 3 workers, 2 sessions (3 lines and 1), 2 users, all commands, failing deletions | type, one reader, names, no ghosts, broken writers removed, no leaked rows |
| `ServerLiveness` | 2 workers, 2 sessions of 1 line, 2 users, login and register, the presumed mutex, fair | departed sessions are forgotten, registered ones get a list, which is the current one when no handler is under way |
| `ClientSession` | 2 names, 4 requests, all choices of the person, fair | flag follows server, by name, reading goes on, losses noticed, process ends |
| `AuthSafety` | 2 clients (one through AuthManager), 2 names, 2 passwords, 2 tokens, clock to 3 and back, lifetime 1, failing writes | one winner, rows have accounts, expiry, refusals final, rows only die |
| `RedisThreads` | 3 command threads, 3 messages, 3 subscriptions, fair | contexts neither leaked nor used after they are freed, messages reach their callback, a command that waits is served also during the join, `disconnect()` returns when it can |
| `FlowRoom` | 3 sessions, sending 2, 1 and 0 lines, one also in private and with failing inserts, fair | one write, saved (or lost) first, private, refinement of `ChatRoom` (which has the order), everybody hears |
| `SettingsStart` | 3 settings (a number, a flag, a text), 2 secrets (short, long, strong, with a common word), files of up to 2 lines, 4 environments | precedence, all secrets or none |
| `WireLines` | 2 clients with 3 and 2 requests, 3 names, of which one is a keyword and one of a disabled account, one password, lines that look like commands | lines understood, authors attributed, parser faithful |

Runs that are expected to find a violation, each a disagreement between the code and what its
comments or its own text say it does (`findings` in `PROJECT.json`):

| Run | Property | What happens |
|---|---|---|
| `ServerListWedge` | `RegisteredGetList` | `addSession` locks its mutex twice |
| `ServerDoubleLogin` | `OneSessionPerUser` | two logins pass the online check before either is registered |
| `AuthTimeZone` | `NoServiceAfterExpiry` | `gmtime` out, `mktime` in |
| `WireRelogin` | `SaidWasTyped` | a second login is said to the room, password included |

More disagreements were met while modelling. The models have them and no run repeats them:

- the second removal of a session that has logged out erases the name of the same user's new session
  (`server.cpp:168`): with the presumed mutex; with the plain one nobody gets so far. No property of the runs is about
whose entry a removal erases;
- the io thread is started before there is work for it and may end at once; `connect()` is then never served
  (`client/main.cpp:34`);
- with a configuration file the secrets are never loaded, although `config/server.conf:18` refers to them
  (`config.cpp:18`);
- a connection that has not logged in survives `stop()`, because `all_sessions_` does not hold it (`server.cpp:95`);
- the answer to `users` can be older than the list queued before it (`session.cpp:129`), which is why
  `ServerLiveness` leaves that command out where it checks `ViewCurrent`;
- `initialize` returns true whatever it loaded, while `tests/test_secrets.cpp:79` expects false for a weak secret;
- a secret with a common word in it is refused whatever else it contains (`secrets.cpp:128`), and with it the whole file; the tests
  expect "TestRedisPass123!", "ComplexPassword789#" and "TestPassword123!", which contain "test", "redis" or "password", to be
  served (`tests/test_secrets.cpp:47,55`, `:91,102`, `:110,115`). `ServedSecrets` is about what the code does, and `SettingsStart` has such a text;
- the answers to `saveMessage` are ignored (`session.cpp:245,262`): a line whose insert fails is delivered and is not in what `README.md:16` calls
  the full chat history;
- every `auth:success` sets the client's flag, and its `username_` is set before any answer (`client.cpp:86,209`): after a registration, or
  after two logins, the interface may welcome (`terminal_ui.cpp:120`) and chat under a name that its session does not have. `FlagFollowsServer` says how far the flag can be trusted;
- a failing `deleteSession` is not noticed (`session.cpp:307`) and leaves an active row;
- between two lines of a second `subscribe()`, just before it ends the process, messages of the old subscription go to the new callback (`redis_client.cpp:211`);
- `README.md:158` documents `CHAT_REDIS_PASSWORD`, which `loadFromEnv` does not read (`config.cpp:66`).

**Bounds.** Every race above needs two handlers of two sessions, or of the two sides of one
session, and a third worker only to let a removal overlap both; two users distinguish "my
name" from "another's". `MaxLines`, `Lines`, `MaxRequests` and `MaxTime` bound what the environment
sends and how far the clock runs. Three lines let one connection log in, log out and log in again
while another, with one line, takes the name in between. In `FlowRoom` two talkers are needed to
compare two orders, a third session to compare them at, and two lines of one talker to see that
its own order is kept. In `Settings` two lines are needed for one to override the other, and for a
refused secret to follow an accepted one; lengths are taken on both sides of 12 and 256. In `Wire` three requests
are a registration, a login and a line; the second client needs two to register and log in, and its
third, and any second login, is what `WireRelogin` is about, where a password with a colon comes in; the theorems cover all of that. In `FlowRoom` the insertions of one
talker (`InsertFails`) may fail and those of the other, which has two lines, succeed. Tokens are used up, which is also how a token that exists already is tried.

**Deadlock** is checked except in `ServerDoubleLogin` and `ServerListWedge` (the mutex
wedges the server), in `RedisThreads` (two calls end the process), in `FlowRoom` (all lines are sent and delivered,
everyone has left: the model has nothing more to do) and in the runs of `Wire` (all requests are used up).

**Fairness.** `ChatServer`: a worker with a handler takes its next step (threads are scheduled), a
failed read and a failed write are reported (the operating system completes operations
on a closed socket). Nothing is assumed of peers, of slow writes, of lines or of the signal. A
free mutex is granted to a waiting worker: contention is finite because lines are bounded.
`MessageFlow`: the same, and writes complete, for the sessions that stay. `ChatClient`: both threads
run and the server answers; nothing is assumed of the person. `RedisClient`: the threads run and
commands end; nothing is assumed of messages, of losses, or of who gets a mutex first.

## 4. Proofs

`ChatServerProofs` proves for all finite or infinite sets of workers, sessions and users, all
commands, both kinds of mutex and any number of lines:

- `TypeCorrect`: `Spec => []TypeOK`
- `ReadsNeverOverlap`: `Spec => []OneReader`
- `NamesMatch`: `Spec => []NameMatchesSession`
- `GhostsNeverStay`: `Spec => []NoGhosts`
- `ListsAreCurrent`: `"users" \notin Commands => (Spec => []ViewCurrent)`: where no client asks for the list itself,
  what the clients were told is true whenever the mutex is free
- `PlainMutexWedges`: `~RecursiveMutex => (Spec => MutexNeverReleased)`: with the mutex as it is, whoever locks it to change the registry never gives it back,
  which is why `ServerListWedge` finds no list

None of these invariants is inductive by itself. `CoreInv` adds: what a worker's frame may
hold at each step (`FrameInv`) and who holds the mutex (`MutexInv`); which sessions can be read,
written or logged in in which state of the socket (`SockInv`); that a logged-in session has its name
(`AuthInv`); that names are filed for sessions in `all_sessions_` and bear them (`RegistryInv`); and
that a session whose removal is under way is out of the registry (`RemovedInv`). `OneReader` is the part that
carries the others: because one worker at most is in the read handler of a session, nobody
else changes its name or its login between two steps of that handler. `NoGhosts` needs it
where `addSession` files a session whose connection was closed meanwhile: its handler is still to start the read
that fails. The proof has a lemma per group of actions (`Next` has 38) and a leaf per conjunct
that the action can disturb. The only assumption is `ConstantsAssumption`, which TLC evaluates in
every run.

Its last part is about what is left when a connection ends: `BrokenWritersGo` (`[]BrokenWriterIsRemoved`) and `RowsAreDeleted`
(`[]NoLeakedRows`). `RowsInv` gives every active row an owner that will delete it (`Owned`): the session is logged in,
is one step before it, or its logout is on the way to `deleteSession`; rows whose deletion failed are `kept`. `NoSecondRow` is the step that matters:
while a row has an owner no login of the session is at `createSession`, because `OneReader` allows it one handler only,
and `RemovalTakesRow` says that the end of a removal tries to delete the row of the current token, which is then the only one
besides those kept.

`RedisClientProofs` proves for any number of threads, messages and subscriptions `ClientTypeCorrect`
(`[]TypeOK`), `NoUseAfterFree` (`[]WorkerHasContext`), `MessagesReachTheirCallback` (`[]OwnCallback`) and
`ContextsAreFreed` (`[]NoLeakedContext`). `ClientInv` ties the owner's place to the contexts and the
worker (`OwnerInv`), counts the contexts in the middle of `connect()` too (`CountInv`), and says that
what Redis holds for the client is for its present callback (`Current`; in the window of a second `subscribe()`, for the
one before it), and that nothing is left when the
thread was joined and the contexts freed (`MessageInv`): without it a message could outlive its
subscription. Only `ClientConstants` is assumed.

`AuthStoreProofs` proves for any accounts, tokens, clients and clock `OneRegistrationWins`
(`[]OneWinner`), `RowsBelong` (`[]RowsHaveAccounts`), `RefusalIsFinal` (`[]RefusedStaysRefused`),
`TokensOnlyDie` (`RowsOnlyDie`) and, for `Zone >= 0`, `ExpiredIsNotServed` (`NoServiceAfterExpiry`); the run
`AuthTimeZone` is the counterexample for `Zone = -1`. The argument: no step takes anything from the tables or
revives a row (`AccountsGrow`, `RowsGrow`), so what a handler read in one statement still holds when a later one
uses it (`RequestInv`), and the successful registrations are exactly the accounts (`StoreInv`). `StoreTypeCorrect` (`[]TypeOK`) adds the ranges
(`TypeInv`): a row's time is fixed by the clock at its insertion, so setting the clock back moves no row past
`MaxTime + Lifetime`. From `AuthAssumption` only the types of the numbers and of `Disabled`, `Rejected` and the
Booleans are used.

`MessageFlowProofs` proves for any number of sessions and lines `FlowTypeCorrect` (`[]TypeOK`), `OneWriteAtATime`
(`[]OneWrite`) and `SavedFirst` (`[]SavedBeforeSeen`). `TypeInv` adds to the types that a handler under way
has a line of its session, and that the sets counted are finite; `WriteInv` adds to `OneWrite` that a session of which a
write failed keeps the message it failed on, so that no later push starts a write on it; `SavedInv` follows a
line through the four places it can be in (handler, what is to be handed over, queues, what was
delivered): in the last three it is in the table or its insertion failed (`Tried`). `FlowAssumption` gives the numbers of lines.

`RoomProofs` proves of the same constants `FlowImplementsRoom` (`Spec => RoomSpec`: what the queues deliver is
one log that everybody hears in order) and `PrivateStaysPrivate` (`[]PrivateIsPrivate`). What a peer has
received and what is still queued for it are taken as one sequence, which only grows at its end: a write moves the
boundary and changes nothing else. `LockInv` says that at most one handler is fanning out, `FanOutInv` whom its line
has reached, `StartInv` where in the log a member came in, and `StreamInv` that the broadcasts in that sequence, for every
member the fan-out has reached, are the log from there on, and for the others all but the last line of it.
`MineInv` and `CountInv` do the same for the private lines and their confirmations. Counting and filtering are
induction over data: the library states it for an operator, which the provers cannot instantiate,
so `Induction` states it for a set (the least element of what is left out, from `WFMin`), and the
equations of `Filter!Only` on an empty sequence, an appended one and a tail are proved from it.

`SettingsProofs` proves for any files, environments and keys `SettingsTypeCorrect` (`[]TypeOK`), `EnvironmentFirst`
(`[]Precedence`) and `AllSecretsOrNone` (`[]ServedSecrets`). The invariants say of the middle of a file what the properties say
of its end: after line `n` each setting, and each secret, is the last that the first `n` lines give it, and none of
those lines was refused. `SettingsAssumption` is what the types of the constants are.

`ChatClientProofs` proves for any names, choices and numbers of requests `ClientTypes` (`[]TypeOK`), `FlagIsVouchedFor`
(`[]FlagFollowsServer`) and `ClientReads` (`[]StaysReading`). `BeforeInv` says that nothing was said before the
connection is up; `AnswersInv` that a success under way was
written by a session that is logged in or accepted a registration: without it the flag could be set by
an answer nobody vouches for; `NamesInv` that the name the session has, and every name on its way to it, is the one
the client goes by or was followed by another login. `ClientAssumption` is what the bounds are.

`WireProofs` proves for any clients, names, passwords, words and numbers of requests `LinesAreUnderstood` (`[]Understood`),
`LinesAreAttributed` (`[]Attribution`), `LinesAreParsed` (`[]ParserFaithful`) and `TypesOfLines` (`[]TypeOK`). It has two
halves. The first knows no steps: a line put together of parts (`Joins`) falls apart at the first place of the
character it is parted by, if the part before has none (`Split`), and so each reader returns what the writer
put in (`LoginRead`, `PrivateRead`, `DirectText`, `SayingSplit`, and others); `ShownSaying` says that a public line is taken for something else only if
its author is called like a keyword. For the list of users `Joined` is a fold over names and `Names` cuts at commas:
`JoinedIs` proves the equations of `FlattenSeq` from its definition, `Spells` says where the commas of `n` names of one word are, and
`ListRead` that the cuts give the same names back, for lists of any length. The second half is the invariant `Inv` (`LinesAreServed`): what is on
the way to the server is one of `Requests(a)`, all of which are logins, registrations or follow from what `a` typed, and what is on the way
to a client is one of `Answers(d)`: a private line only if its sender typed it to that name, a public one of a patient author only if he typed it to everybody.
Both sets only grow, because sessions keep their names (`UserStays`) and `typed` is a history. `UsersOK` says that two sessions
never bear one name, which makes an author unique. `PatientOK` is about those who wait: while the session has no
name there is at most one request on the way, a login or a registration, and no answer to it; while the interface waits for the login no
welcome is left to come and the flag is set only if a refusal follows. Hence the first line of a named patient's queue is never a login,
and what is said to the room was typed. `WireAssumption` is what the constants are: no name is assumed plain.

Only model-checked: all liveness, that is the temporal properties of `ServerLiveness`, `ClientSession`,
`RedisThreads` and `FlowRoom` (fairness and ENABLED are beyond the prover). Every safety property of a passing run is a theorem.

## 5. Not modelled

TLS and hashing (OpenSSL: a hash is compared by equality, a token is a fresh value), the logger (one mutex around a
stream), terminal drawing, containers and scripts. The message history of the REST interface
(`ORDER BY timestamp` of one second, so lines of one second come in no particular order,
`database.cpp:253`) and its counters only read. Redis registration of servers: nothing in the repository
calls it, so a model would invent its callers. The React front end talks to a Socket.IO service that the
repository does not have. `escapeString` and `unescapeString` of the parser are private and unused. Two data races are taken as atomic accesses: `username_` read by a removal on another
worker, and the TLS stream used by a read and a write handler at once. Sizes (read
buffer, write queue) are not counted. The end of the client's standard input (`terminal_ui.cpp:157`: the loop
spins) is noted as a hazard only. `max_users`, `max_message_length` and
`session_timeout` are read from the configuration and used nowhere.

## 6. Plan

Done: `ChatServer`, `MessageFlow`/`ChatRoom`, `ChatClient`, `Wire`, `AuthStore`, `RedisClient` and `Settings`, and their safety
theorems.

1. If the server starts to use it: registration of servers in Redis, with crashes and restarts.
2. The front end's two contexts, if a Socket.IO service is added.
