# Specifications of findy-common-go

findy-common-go is a Go library for programs that talk to the Findy cloud
agency: a chat bot framework driven by state machines, a client that listens to
the agency's streams and reopens them, and a key-value database with backups.
The modules here model the parts of it that keep state and run concurrently.
Paths below are relative to the root of the repository.

## 1. Inventory

### Chat bot and multiplexer (`agency/client/chat/bot.go`, `agency/client/chat/chat/chat.go`)

State: the channels `Status`, `Question`, `HookChan` and `InterruptCh` of the
package, the map of conversations, the backend machine with its `BackendChan`,
one termination channel (capacity 1) shared by all conversations; for each
conversation its four channels, its machine and the set `lastProtocolID` of the
protocols it started itself.

Operations: `Bot.Run` listens to the agency and passes statuses and questions on
to `Multiplexer`, which makes a conversation (a goroutine) for every new
connection and hands it its events; a conversation reacts to an event by sending
messages, proofs, credentials, backend data or a transient step, and then takes
the machine's transition; a machine that reaches a terminating state signals it,
and the multiplexer asks `Bot.Run` to stop.

Hard: four kinds of goroutines that block on each other's channels, three of them
unbuffered; the notification of a protocol that may arrive before the ID that
identifies it is stored; a multiplexer that is at once the deliverer of statuses
and the goroutine of the backend machine; several machines that end at once.

Correct when: every status reaches the conversation of its connection once and
in order; a conversation never reacts to its own messages and forgets no longer
needed IDs; nobody waits for ever; the end of a machine stops the bot.

### FSM interpreter (`agency/fsm/`) and built-in machines (`agency/client/chat/machines.go`)

State: the current state, the memory (registers, among them the session ID) and
the transitions of a machine, whose events carry data the interpreter fills in.
Operations: `Initialize`, `Triggers`, `TriggersByBackendData`, `TriggersByStep`,
`TriggersByHook`, `Answers`, `BuildSendEvents`, `BuildSendAnswers`, `Step`,
`Start`. The built-in machines issue an email credential after a PIN was mailed,
ask for a proof of it, and echo.

Hard: notifications that carry no state, so that the handler reads one that may
have changed; statuses and questions on two channels, without an order among
them; protocols of an abandoned session, or of the other end of the connection,
that complete while the machine waits for another; memory that is
cleared only the first time a machine enters its initial state; event data shared
by pointer with conversations that have not read it yet; a session that is
adopted from the first message that passes.

Correct when: a credential names the address the PIN was mailed to, a proof's
values are spoken of only after that proof was accepted, sessions do not mix,
and what was sent is what is received.

### Listening and retrying client (`agency/client/client.go`, `tools/sleeper/sleeper.go`)

State: for each of two sources (statuses, questions) a stream, the goroutine that
reads it, for `ListenAndRetry` one that reopens it, and one that merges both.
Hard: a stream that breaks while a message is on its way through the goroutines;
cancellation racing with the error it causes; closed channels that stay ready.
Correct when: nothing is lost, doubled or reordered, a broken stream is read
again, and after a cancellation the caller's channel is closed.

### Managed database (`crypto/db/db.go`), memory database (`crypto/db/mem.go`), backups (`backup/backup.go`)

State: `Mgd` has a lock, the bolt handle (opened on demand, nil when closed), the
dirty flag and a status function; the disk has the master file and the backups,
named by second; `memDB` has a Go map and a lock per bucket. Operations: those of
`Handle` (`crypto/db/handle.go`) and the goroutine of `BackupTicker`.
Hard: the ticker closes and copies a file that others wait to change; every step
may fail; the status function may change in the middle of an operation; the
process may die in the middle of a copy; values that point into memory the next
backup unmaps.
Correct when: to its callers the database is a durable map, the dirty flag never
hides a change that no backup holds, no call keeps the lock, and changes are
backed up sooner or later.

### Calls: protocol starters, tokens, server and generated code (`agency/client/`, `jwt/`, `rpc/`, `grpc/`, `server/`, `client/`)

State: the signing key of a process (`jwt.key`), the token and TLS of a
connection, the ID of a `Pairwise`, and for each streaming call the goroutine
and the Go channel that pass it on. Operations: open a connection, set the secret,
start, resume, release and ask for a protocol, run one or listen to the agency's
hook as a stream; on the server the chain of interceptors before a handler, which
checks the token, recovers panics and logs.
Hard: the token is made once, with the secret its process has then, and checked
twice while the clock runs;
the answer of a call may be lost after it had its effect; a stream ends or breaks
while its reader is still busy; a service may override the authorization.
Correct when: no handler starts for a token that is not valid then, the
reader of a stream hears what was told, a `Pairwise` that names a connection names
one the agency knows, and every call returns.

### Invitations (`std/didexchange/invitation/`)

State: an invitation of version 0 or 1, with the keys of its services.
Operations: `Create`, `Translate`, `Build`, and the conversion of keys to base58.
Hard: the conversion writes into the list it shares with the invitation, and
panics in its middle at a key it cannot read.
Correct when: no key is lost, doubled or moved, whatever is done in whatever order.

### Others

* HTTP server (`http/http.go`): one graceful shutdown.
* Locked containers (`x/`): every method is one critical section.
* Encoders and utilities (`std/decorator/`, `dto/`, `crypto/crypto.go`, `utils/`): no
  state of their own.

### How they interact

The agency (external) pushes statuses and questions on gRPC streams. The
listening client turns the streams into one Go channel, which `Bot.Run` reads and
passes to the multiplexer, which passes each event to a conversation. The
conversation asks its machine what to do and calls the protocol starters, and the
agency answers with new statuses. Machines of conversations talk to the backend
machine, which runs in the multiplexer's goroutine, and it to all of them. The
database and its backups stand by themselves. Connections carry the tokens; a
protocol starter that makes a connection reads the ID from an invitation.

## 2. Modules and the code

| Module | Models | State and code |
| --- | --- | --- |
| `Multiplexer` | `Bot.Run`, `Multiplexer`, `Conversation`, `Backend`, `Machine.checkTerm` | one variable per channel, under its Go name (`Status`, `StatusChan`, `BackendChan`, ...); `bot`, `mux` and `conv` say where each goroutine is; `lastProtocolID` is the conversation's set; `started`, `unnotified`, `asked` are the external agency |
| `Delivery` | the promise made of statuses | for each connection a pipe: in at the agency, offered to its conversation and out when that takes it |
| `MultiplexerDelivery` | the refinement | the pipe of a connection is what the three channels hold for it |
| `MultiplexerProofs` | theorems about `Multiplexer` and `MultiplexerDelivery` | |
| `KVStore` | the promise of `Handle` | a map; each call takes effect once between call and return, or not at all; `broken` is the one exception, after a closing that failed |
| `ManagedDB` | `Mgd` and `backup.FileCopy` | `holder` is `Mgd.l`, `bdb` (nil, open, or dead: left by a `Close` that failed) and `dirty` as in the code, `file`, `store`, `backups` the disk, `pc` where a client is in its operation |
| `ManagedDBProofs` | theorems about `ManagedDB` | |
| `MemDB` | `memDB` | `holder` is the lock of a bucket, `store` its Go map |
| `MemDBProofs` | theorems about `MemDB` | |
| `Listener` | `Listen`, `ListenAndRetry`, `ListenStatusAndRetry`, `WaitAndRetry`, `transportStatus`, `transportWait`, `merge` | `transport`, `retrier`, `merger` say where each goroutine is |
| `ListenerProofs` | theorems about `Listener` | |
| `Machines` | the machines of `machines.go` | states, triggers, sends and targets as data; a text is the registers it formats |
| `Machine` | `Machine`, `Event`, `Transition`, and the handlers `statusReceived`, `questionReceived` | `current`, `memory`, `reported` (`KeepMemoryReported`) as in the code; `statuses`, `questions` what is on its way to the handlers; `protocols` (the bot's), `foreign` (completed ones the other end of the connection started) and `mails` the external agency and mail; `sent` what the last step sent |
| `MachineProofs` | theorems about `Machine` | |
| `ChatRoom` | backend data and sessions: `buildBackendSend`, `TriggersByBackendData`, `copyBackendDataValuesToMemory`, `backendReceived`, `sendBackend`, `sendBackendData`, `INPUT_SAVE_SESSION_ID` | `cell` is the `BackendData` a rule owns and the channels point to; `session` is `Memory[LUA_SESSION_ID]`; `pc` says whether a goroutine selects, has read a pointer, or sends; the machines are data as in `Machines` |
| `ChatRoomProofs` | theorems about `ChatRoom` | |
| `Services` | the generated services and messages; what each protocol starter asks for | records of methods; one operator per starter |
| `Calls` | `TryOpen`, `ClientConn`, the starters, `doRun`, `PSMHook`, `Server`, `jwt` | `key` is `jwt.key` of each process; `request` what the server has of a client's unary call and stream; `stream` what the client's goroutine and channel have; `protocols` the external agency |
| `CallsProofs` | theorems about `Calls` | |
| `Invitations` | `std/didexchange/invitation` | a list of keys is named by its invitation, service and field, because it is shared; `built` is the last text, `result` what a conversion returned |
| `InvitationsProofs` | theorems about `Invitations` | |
| `MCMultiplexer`, `MCManagedDB`, `MCMemDB`, `MCMachine`, `MCChatRoom`, `MCCalls`, `MCInvitations` | | constants of the instances |

Conventions. An unbuffered Go channel with one sender is a sequence of at most
one element: the value its blocked sender is handing over. In `Listener`, where
nothing happens between a send and its receive, the two are one step. A channel
of capacity 1 whose contents no property tells apart is the number of elements
it holds. A Go `select` is the disjunction of the actions that take its cases.
Every deferred `Unlock` is an action of its own, so that other goroutines run
between the end of an operation and the release. In `Multiplexer` the machines
are open: an event triggers nothing, or a transition that sends any batch of
`Batches` and then ends its machine or does not; what a particular machine does
is one of these behaviours. Definitions whose comment says *mutant* are faulty
variants of the action below them, and stand for the bugs the properties catch;
no specification uses them.

## 3. Runs

All passing runs check their properties together. "Bounds" names what is small.

* **mux_all** (`MCMultiplexer`, `Mux_all.cfg`). One connection, all kinds of
  events and sends, a backend machine that broadcasts and may end, a
  conversation machine that may end and restart. Checks `TypeOK` (no channel
  exceeds its capacity), `OwnInv` and `OwnMessagesDiscarded` (a conversation never
  reacts to the notification of its own message, even when it comes before the
  ID is stored) and `NoStaleIDs` (IDs are not kept after their notification).
  Bounds: two protocols, one question, batches of at most two sends, two
  broadcasts. One connection is enough because the IDs and channels of a
  conversation are its own; that no other number matters is proved (section 5).
  Two protocols are what it takes for one notification to overtake the recording
  of another ID.
* **mux_live** (`Mux_live.cfg`). Two connections, no backend machine. Checks
  `ImplementsDelivery` (once, in order, at the right conversation),
  `OneHandover` (the multiplexer hands over one event at a time, to a
  conversation that exists), `StatusesTransported` and `TerminationStopsBot`.
  Bounds: two protocols per connection, enough for two statuses of one
  connection to queue behind one of the other; only the machine of `c1` may end.
* **mux_circular_wait**: see the findings.
* **db_all** (`MCManagedDB`, `DB_all.cfg`). A user with every operation of
  `Handle`, a backup ticker, the application turning the database off and on, a
  failure of opening, creating buckets, reading, closing, copying or removing at
  any time, and one crash. Checks `ImplementsKVStore`, `CleanIsBackedUp`,
  `BackupsWhole`, `CallsReturn` and `ChangesBackedUp`. Bounds: one key and one
  value (present and absent are what `After` and `Shows` tell apart for a key, and
  keys do not interact), two seconds (a second backup in the same second, and in
  another one), one crash. The user reads with `getAll` only, because with one key
  it shows what `get` would; the theorems of section 5 are for any keys and both.
  Transactions of an Add or Rm do not fail of themselves here (the finding below).
  Nor does the removal of a half copied backup, which `FileCopy` ignores:
  `BackupsWhole` excepts it, and the theorems cover it for the other properties.
* **db_swallowed_error**: see the findings.
* **memdb_all** (`MCMemDB`, `MemDB_all.cfg`). Two users, two keys, two values,
  every operation. Checks `ImplementsKVStore`, with `Wipe`, which does nothing
  here, counted as a `Close`, and `MapExclusive` (the Go runtime ends a process
  whose map is used by two goroutines, one of them writing).
* **listener_all** (`Listener`, `Listener_all.cfg`). `Listen` or
  `ListenAndRetry`, chosen at the start, over two streams that break and fail to
  open at any time, one of which may end, and a cancellation. Checks `InOrder`,
  `BrokenStreamReopened` and `ListenEndsOnCancel`. Bound: three messages per
  source, so that one may be with each of the three goroutines.
* **machine_all** (`MCMachine`, `Machine_all.cfg`). Each of the three built-in
  machines, a user who says anything and abandons sessions, credentials and
  proofs taken, refused, of another credential or failing after they were
  accepted, any number of extra notifications, and a credential or proof of the
  other end of the connection that completes at any time. Checks `IssuedToReader` (a
  credential names an address whose mail the user reads), `ReadyWhenIssued` (the
  issuer is done only when its last credential is, or the other end has issued one), `SpeaksOfAccepted` (an email
  spoken of comes from a proof that was accepted as asked), `FormatsOwnSession`
  (no register of an earlier session is formatted, although the memory keeps
  them) and `PanicNeedsTwoProofs` (below). Bounds: two PINs and two protocols, one
  of an earlier session and one of the present; three notifications on their way,
  enough for a reset and a new start to be said while a late one is still there;
  one protocol of the other end. One address is the user's own, one is not.
* **chat_paced** (`MCChatRoom`, `Chat_paced.cfg`). Three conversations, two rooms and
  a broker as backend machine; chat machines that ask for a room first, or that
  talk in a hall without a session until their user says a command. A user waits
  until the message before has been handled by all. Checks `HearsOwnRoom` (nobody
  in a room hears what was said in another), `NoOwnEcho` (with `no_echo` nobody
  hears itself), `MovedByOwnUser` (what is heard moves nobody out of a room) and
  `MembersHear` (every other member hears). Bounds: two messages, which is what the
  overwriting of a message takes; four moves, so that two users can join, one
  leave and one change rooms; three conversations, so that a room has a speaker,
  a hearer and an outsider. The repository has no chat machine; these follow the
  rules of `fsm.go` for one.
* **chat_race**: the same without waiting; see the findings.
* **calls_all** (`MCCalls`, `Calls_all.cfg`). A client of another process with one
  unary call and one stream at a time, a server with its own secret, one
  without authorization and one whose service overrides it. Checks
  `ServedWhileValid`, `HeardIsTold`, `AgencyKnowsConnection` and `CallsReturn`.
  Bounds: one client, because clients share nothing but the agency's protocols
  and the server's key; one protocol and two statuses on a stream, so that one is
  on its way while another is handed over; a time of two instants and a token that
  lasts for the first, so that a token expires at every point of a call; two types
  of protocols, one that makes a connection and one that needs it.
* **invitations_all** (`MCInvitations`, `Invitations_all.cfg`). Two handles, the
  invitations of both versions that are made here or received, with base58,
  did:key and unreadable keys, two keys in a list and two services. Checks
  `KeysKept` and `ReturnsB58`. Two handles let an invitation be sent to the other,
  that is, built and translated, after it was converted. The types of invitations fit
  their versions (see the observations).

Deadlock is not checked in the runs of `Multiplexer` and `Listener`, whose
bounded agency falls silent and whose goroutines end; there the liveness
properties say that nobody is left waiting. Nor is it in `Machine`, where a
refused protocol leaves a machine waiting and a panic ends the process, and in
`ChatRoom`, whose users fall silent.

### Fairness

* `Multiplexer`: weak fairness of every goroutine, that is, Go runs what can
  run. Nothing is assumed of the choice among the ready cases of a `select`.
  The agency notifies what it was asked to run and ends the streams of a
  cancelled context (gRPC does the latter on the client's side).
* `ManagedDB`: a goroutine inside an operation goes on (weak fairness of
  `Step`); the lock is strongly fair, because a Go mutex hands itself to a waiter
  that has waited for a millisecond; the ticker ticks; the disk does not
  refuse every closing and every copy for ever. Users need not call anything.
* `Listener`: goroutines run, the caller reads until its channel is closed, a
  read on a cancelled context fails, and the agency grants a stream that is asked
  for again and again. No fairness is assumed between the cases of a `select`: in
  particular not that `ctx.Done` is preferred to a read error.
* `ChatRoom`: the goroutines run. Users may be silent for ever.
* `Calls`: the server's goroutine of a unary call goes on, its handler included,
  the client's goroutines run and the readers of the channels read. Nothing is
  assumed of the server's streams, of protocols, or of the network's not breaking.

## 4. Findings

* **The multiplexer and a conversation wait for each other**
  (`mux_circular_wait`). `Conversation.sendBackend` blocks on the backend channel,
  which only the multiplexer's goroutine reads, while that goroutine hands the
  conversation its next status.
* **A failed Add or Rm is reported as done** (`db_swallowed_error`). The closure
  given to `operate` loses the error its deferred handler caught.
* **A room hears what was said in another** (`chat_race`). The channels carry
  pointers to the one `BackendData` of a rule, so a conversation may filter by the
  session of a message and then read the content of the next one. It takes
  users who do not wait for each other; `chat_paced` shows that all is well
  when they do.

Observations without a run of their own. The behaviours are in the models:

* Two conversation machines that end close together do not stop the bot: they
  share a termination channel of capacity 1 (chat.go:110), the second blocks in
  `checkTerm` (machine.go:291), and with it the multiplexer if it has a status
  for that conversation. `mux_live` therefore lets one machine end.
* The values of `GetAllValuesFromBucket` point into bolt's memory mapping, which a
  backup, `Close` or `Wipe` removes (db.go:321); `ManagedDB` counts them (`held`).
* A cancelled `ListenAndRetry` may retry for ever, because the context is asked
  only while a stream is open (client.go:508). So `ListenEndsOnCancel` speaks of
  `Listen`.
* The memory of a machine is cleared once only: `Step` uses the flag that should
  keep it from logging twice to decide about clearing (machine.go:258), and the
  greeting of a new connection already enters the initial state.
  `FormatsOwnSession` shows that the built-in machines are not harmed: they write
  every register before they use it.
* `merge` counts reads of closed channels (client.go:435): one channel may be
  counted twice, and the caller's channel closes while the other source lives.
* A question that arrives in `WAITING2_EMAIL_PROOF` ends the process
  (event.go:175): the data of that state's trigger is empty and no list of
  attributes. `PanicNeedsTwoProofs` says what it takes: a user who says "reset",
  is asked again and presents both proofs.
* A late notification of an earlier proof, or that of a proof the other end
  started, fires `WAITING2_EMAIL_PROOF` for the present one, and in
  `WAITING_EMAIL_PROOF_QA` answers NACK and starts over (event.go:117 compares
  nothing for proofs). So `SpeaksOfAccepted` says accepted, not completed. The
  issuer's own late notifications end no wait, because the PIN can be said only
  after they are handled.
* A credential that the other end of the connection issues to the bot ends
  `WAITING_ISSUING_STATUS`, and the bot says that all is ready although its own
  credential is not taken: the rule `OUR_STATUS`, which "monitors how our
  proof/issue protocol goes" (fsm.go:25), is not asked, and `Triggers` compares no
  protocols (event.go:116-118). `ReadyWhenIssued` names this case; without it TLC
  finds it violated in eight steps.
* When bolt fails to close the file, `Mgd.close` returns before it forgets the
  handle (db.go:178). The dead handle passes for an open database: reads fail, and
  Adds and Rms are acknowledged and lost, because their closures lose the error (the
  finding above), until the next Backup, Wipe or Close forgets it. `KVStore` states
  this as `broken` and `Swallow`, and `ImplementsKVStore` that nothing else happens.
* A machine that sends a transient step at two statuses in a row, or steps itself
  for ever, blocks its conversation, and the multiplexer with it; `mux_live`, where
  `StatusesTransported` is checked, sends none.
* `FileCopy` ignores a failure to remove the half copied destination (backup.go:38),
  so that it may stay beside the whole backups.
* A conversation without a session hears every room (chat.go:262), and one that
  waits for backend data then adopts the session of what it heard (event.go:94).
  `HearsOwnRoom` and `MovedByOwnUser` allow it.
* A connection's token is never renewed (rpc/client.go:58): after 72 hours each
  call, and each reopening of a retrying listener, is refused.
* A token that a process makes before `Server` sets the secret is signed with the
  default key, and that same process refuses it afterwards (jwt.go:47, server.go:40).
* The example's `AuthFuncOverride` (server/main.go:61) makes everybody root, so the
  check in `Enter` refuses nobody.
* `EnsureValidTokenStream` (jwt.go:234) passes the old context on, without the user;
  nothing in the repository installs it.
* `Connection` of the package client sets the ID when the stream is open, which is
  before the agency has answered (client.go:263); `AgencyKnowsConnection` holds of the
  package async only.
* A reader of `doRun` or `PSMHook` cannot tell an error from the end, and one
  that stops reading leaves the goroutine (client.go:760).
* When the answer of `Start` is lost, the protocol runs although the call failed.
* `Create` compares no type with the version, and `Translate` goes by the type: an
  invitation made as V1 with a type of V0, or the other way round, comes back
  without its keys (translate.go:84).
* `RecipientKeysAsB58` changes the invitation, so a later `Build` sends base58 keys
  in a V1 (models.go:59); at a broken did:key it panics with the first keys
  converted.

## 5. Proofs

`MultiplexerProofs` proves, for any connections, bounds, batches and options:

* `TypeCorrect`: `Spec => []TypeOK`.
* `OwnMessagesKnown`: `Spec => []OwnInv`. `OwnInv` is inductive relative to `TypeOK`
  and has three parts. `OnceOnly`: a status is in one place at a time between the
  agency and its conversation; without it a second copy could arrive after the
  first had its ID forgotten. `Numbered`: protocols carry the numbers already
  given, so that a new one differs from all under way. `OwnIDsKnown`: each own
  message still awaited is in `lastProtocolID`, or the conversation is about to
  store it; while it is, it is not at its `select` and cannot take the notification.
* `OwnMessagesNeverTrigger`: the action property follows, as the only action
  that takes a status finds the ID.

* `HandsOverOne`: `Spec => []OneHandover`, which is inductive relative to `TypeOK`:
  outside "deliver" no channel of a conversation is filled, and conversations
  are never unmade (the lemma `ConvStays`).
* `StatusesAreDelivered`: `Spec => ImplementsDelivery`. What a channel holds for a
  connection (`Of`) is the sequence of its statuses by rank; the lemmas say what
  sending, receiving and cutting off do to it (`OfAppend`, `OfHeadTail`,
  `OfPrefix`). A notification is `Accept`, the multiplexer's taking of a status is
  `Offer`, the conversation's is `Take`, the end of the stream is `End`; all else
  stutters, `BotStatus` included, since a status only moves from one part of its
  pipe to the next. It takes `OneHandover` (an offer never replaces one), `OneStatus`
  and `OwnInv`: the number of a protocol that begins is not taken, so that it
  is accepted once, at its notification.
* `IDsNeverStale`: `Spec => []NoStaleIDs`. `StaleInv` adds that IDs are of the
  conversation's own connection, so that no other one takes their notification,
  and `RecordingAwaited`: the ID about to be recorded is still awaited, because who
  records does not take. With `OneStatus` (a channel holds one status) taking
  one removes one, and with `OneHandover` none is overwritten.

`ManagedDBProofs` proves, for any clients, keys, values, failures and bounds:

* `TypeCorrect`: types, and that the lock is held by the one client inside an
  operation (`LockOK`), on which all the rest depends.
* `CleanDatabasesAreBackedUp` and `NoHalfBackups` from the inductive `BackupInv`:
  `TypeOK`, `BusyIsDirty` (a client on its way to the transaction has made the
  database dirty already), `CleanIsBackedUp` and `BackupsWhole`. `BusyIsDirty` is
  what makes the second inductive: the transaction changes the store and not the
  flag. `NoHalfBackups` is about runs without crashes whose removals succeed.
* `DatabaseIsKVStore`: if no transaction of an Add or Rm fails of itself, the
  database implements `KVStore`, whatever else fails, closings included. Every step
  is mapped to a step of the map or a stutter; a closing that fails is a `Decline`
  that breaks the map, an Add or Rm on the dead handle is `Swallow`, and a backup
  that forgets the handle before it copies is `Mend`. The invariant is `TypeOK` with
  `OwnSteps` (each operation is at a step of its own code, so that only a backup
  copies and only a data operation is at a transaction). The assumption is the
  finding above: with such failures the map may answer "ok" without having changed
  although nothing has broken it.

`MemDBProofs` proves, for any clients, keys, values and requests: `TypeCorrect`;
`OneInTheMap` (`MapExclusive`), because only the holder of the bucket's lock, which
keeps it until it returns, is in the map; and `MemoryIsKVStore`, the refinement of `KVStore`, in which `Wipe` counts
as a `Close`, as it empties nothing.

`ListenerProofs` proves, for any sources and any number of messages: `TypeCorrect`,
and `ReadInOrder` (`InOrder`). The invariant behind both is `ListenerInv`: types,
`RetriersKnown` (a retrier that sleeps or opens has no transport) and `Accounted`, that each
message received from a stream and not yet read by the caller is in exactly one of
the transport, the retrier and the merger, with its own number. Without it a
message that a broken stream leaves in a goroutine could be repeated or skipped.

`CallsProofs` proves, for any clients, users, secrets, configurations and bounds:
`TypeCorrect`, `HeardAsTold` (`HeardIsTold`), `ConnectionsKnown`
(`AgencyKnowsConnection`) and `ServedByToken` (`ServedWhileValid`). `CallsInv` is
inductive and has six parts: `BaseOK`, `PairwiseOK` and `ProtocolsOK` are types and
what IDs stand for; `RequestsOK` says that a call has a message of its method, and a
validated one a token with a user; `StreamsOK` accounts for every
stream (what is heard, held by the client's goroutine and on its way, put together,
is a beginning of what was told, and all of it unless the stream broke);
`Linked` says that a stream which the server still serves has not ended for its
client, so that nothing is told after the end was heard.

`InvitationsProofs` proves, for any keys, texts and informations: `TypeCorrect`,
`KeysNeverChange` (`KeysKept`) and `ConvertedAll` (`ReturnsB58`). In
`InvitationsInv` an invitation has the type of its version (`Kept`), which is what
makes the built text translate into the same invitation (the lemma `ParseMarshal`).
For a type of the other version that lemma fails, which is the observation above;
so `InputsAssumption` excludes it. Conversions of keys are lemmas for lists of any
length (`ConvertedKeys`, `ConvertedForms`).

`MachineProofs` proves, for the built-in machines (`Running \subseteq BuiltIn`, as in
`Machine_all.cfg`), any addresses, words and PINs, and any number of protocols and
waiting notifications: `TypeCorrect`, `OnlyReadersAreIssued` (`IssuedToReader`),
`OnlyAcceptedIsSpokenOf` (`SpeaksOfAccepted`), `OnlyOwnSessionIsFormatted`
(`FormatsOwnSession`), `PanicTakesTwoProofs` (`PanicNeedsTwoProofs`) and
`ReadyMeansIssued` (`ReadyWhenIssued`). None of the properties is inductive by itself; `Inv` adds

* `Mailed`: a PIN was mailed to one address, and a user who says it reads that mail;
* `KnowsMail`: while the issuer waits for a PIN, the address and PIN in its memory are
  those of a mail. Together: the PIN that is compared proves the address that is issued;
* `OneIssue`: the issuer starts nothing but credentials, and unless the other end
  has issued one too they are `InTurn`: one after the other, and no notification of
  an earlier one is left behind the PIN that leads to the next. This is what keeps a
  late notification from ending the wrong wait, since the handler reads the state
  of the protocol and not which one the machine waits for;
* `Asked`: the open questions are distinct protocols that wait, so a machine that
  has taken one proof and panics at a question has two of them;
* `KnowsProof`: what the proof machine remembers was revealed by an accepted proof.

The machines are data, so the step lemmas follow their states one by one, and what a
step does to memory, mails and protocols is proved once for all transitions
(`Fire`). That the transition which fires is the first that is triggered (`FirstOf`)
takes a least number of a set (`LeastNumber`), from the well-foundedness of the numbers.

`ChatRoomProofs` proves, for any number of conversations, rooms and messages:

* for any machines whose transitions lead to their own states (`WholeMachines`):
  `TypeCorrect`, and `ConnAlwaysNamed`, that data on their way to the backend machine
  name their conversation, so the assertion of `buildBackendSend` (transition.go)
  holds. Both are one inductive invariant, `Correct`;
* if, besides, users wait for each other (`Paced`) and conversations send backend
  data only at what their user says (`SendsOnInput`): `RoomsAreKept`
  (`HearsOwnRoom`), `NoEchoComesBack` (`NoOwnEcho`) and `OnlyItsUserMovesIt`
  (`MovedByOwnUser`). `Orderly` adds to `Correct` that one message is under way
  (`OneMessage`), that every cell says who said its content and where (`Labelled`),
  and that what a conversation has filtered is still in the cell when it reads on
  (`ReadsWhatPassed`). The last is what fails without `Paced`: the finding of `chat_race`.

The hypotheses about machines are not idle: `MCChatRoom` states them as an assumption
about its machines, which TLC evaluates.

The assumptions are those named in the modules; TLC evaluates them in the runs.
Every safety property of a passing run has a theorem, the three refinements included
(that of `ManagedDB` under the condition on failures above). Only
model-checked are the liveness properties `StatusesTransported`,
`TerminationStopsBot`, `CallsReturn` (of `ManagedDB` and of `Calls`), `ChangesBackedUp`,
`BrokenStreamReopened`, `ListenEndsOnCancel` and `MembersHear`: the proof system does not
handle liveness under fairness.

Some definitions have the form the proofs need, and mean the same. Parts of
sequences are indexed by rank (`Of` of `MultiplexerDelivery`, `Started` of `Machine`) and
not selected with `SelectSeq`, which the provers cannot expand; writes to a memory
are functions (`Save`, `Write` of `Machine`). `heard` of `ChatRoom` records conversations
only, as nobody sits at the backend machine.

## 6. What is left out

* The hook machine, `HookChan` and `ConversationBackendChan`: nothing in the
  repository sends to them.
* `chat.Stop` and the signal handler of the caller, beyond the capacity of
  the interrupt channel (`IntCap`).
* Errors of gRPC calls inside a conversation: they panic in a goroutine and
  end the process.
* In `Machine`: Lua, hooks and transient steps, which no
  built-in machine uses; two random PINs that are equal, and guessed ones; texts
  that break a template's JSON; refused calls of the agency. Of protocols that the
  other end starts, the notifications before they end and of failures, which step
  nothing (the state is not OK), and the agency's questions about proposals, which
  `questionReceived` passes over, so that no proposed proof gets as far as to be
  verified. The mail is what
  `sendEmail`, a stub that logs, is meant to send.
* In `ManagedDB`: what bolt keeps when its `Close` fails. It is taken to have given
  up the mapping and the lock of the file, and to refuse transactions after that.
* Keepalive messages and the length of the retry sleeps.
* Encryption and hashing of keys and values, which are functions the caller
  supplies; buckets other than one.
* In `ChatRoom`: rules other than `INPUT`, `INPUT_EQUAL` and `INPUT_SAVE_SESSION_ID`;
  machines with two rules that send backend data; a reader that sees a mixture of
  two messages finer than that its filter reads one and its trigger the next.
* In `Calls`: `IsValidUser` and `TimeLeft`, which read a token and keep nothing; the
  middlewares nobody installs; certificates; the end and restart of the server; a
  client in the server's process; handlers of streams by the library's users.
* In `Invitations`: labels, endpoints, images, base64, and `Accept` and
  `HandshakeProtocols`, which panic for V0.
* Encoding of messages, and those of the services nobody here decides on: schemas,
  credential definitions, and the enclave messages of `grpc/authn`.
* The HTTP server, the locked containers, `dto`, decorators and `crypto.go`: each is
  a call of a library, one critical section, or a function.

## 7. Plan

1. Composition of `Machine` with `Multiplexer`: the batches of the latter are what
   the former sends (a refinement of the open machine by each built-in one).
2. Proofs: the refinement of 1, machine by machine, with the invariant of
   `MachineProofs`; and that `ChatRoom` keeps rooms for machines whose cells are copied and
   not shared, without `Paced`, which would show that the sharing alone is the fault.
