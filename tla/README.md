# gh-radar relay: TLA+ models and proofs

This directory models the order path of gh-radar: the relay (`src/relay/src`), a Node
process between the browsers of a few traders and the gateways of their broker. It keeps
one TCP session per user and order server, sends orders and tells what became of them,
holds sessions for the tabs that are open, shares one quote connection among them, brings
the gateways in line with what an Admin entered, and copies each gateway's journal into
the database. Nearly everything that is hard about it is an order of events: sockets, timers,
answers, tabs and database calls interleave in one event loop, and a mistake costs an
order, a locked account or a hole in the journal. The pure parts (encoding, layout, HTTP
queries) are left to the unit tests of the repository.

Paths below are relative to `src/relay/src/` unless they start with `src/`.

## 1. Inventory

### The order path

| Part | State it keeps | Operations | Talks to | What is hard | What makes it correct |
|---|---|---|---|---|---|
| Reload coordinator `util/tail-reload.ts` | the running read, the tail read, closed | `now`, `shared`, `close` | the database; used by the three polled maps | a read that began before a commit must not serve a caller who knows of the commit; a promise nobody settles | a forced reload is fresh; every caller is settled |
| TCP client `dma/dma-client.ts` | socket, generation, reconnect timer, attempts | `connect`, `destroy`, `dropTransport`, `send`, events | one gateway; emits to the session | events of an old socket; back-off | one socket and one timer; generations never go back; the back-off grows until the session is usable |
| Session `dma/session.ts` | state, allow list, pending declarations, three deadlines, password | `start`, `close`, `terminate`, `setPassword`, `declareAccounts`, `removeAllowedAccounts`, frames, timers | client, hub, fan-out, Admin 87 | login and declarations span many answers; lines are lost in between; the broker locks an account after repeated refused logins | ready only when declared; no login after a refusal; never wedged |
| 87 on open sessions `admin/session-sync.ts` | none | `onApplied` | session, fan-out | an 87 overlaps a declaration under way | an account taken away stays away |
| Session manager `dma/session-manager.ts` | entries (user, server): session, reference count, grace timer | `acquireOn`, `release`, `releaseSession`, `dropUser`, `closeForDmaUser` | fan-out, sweeper, Admin | the holders' releases come late and twice | the count is the number of holders; one login per user and server |
| Fan-out `ws/fanout.ts` | connections per user, what each acquired, the merged view bound to a user | authentication, `refreshUserSessions`, `resyncUser`, close, broadcast | browsers, manager, hub, order handler | state read before an `await` and used after it | bound sessions are open; holders are counted |
| Sweeper `dma/strategy-sweeper.ts`, owner tracker `dma/effective-owner-tracker.ts` | owners at the last change and before; lanes per server with the sweep under way; what was confirmed, what is left | compare, sweep, retry, back-stop at a login | manager, gateway, the change events of `index.ts` | accounts move on while they are swept; a sweep works on a session others drop | what is left on at a server its account has left is on its way off or shown |
| Order requests `ws/order-handler.ts`, `order/notice-status.ts` | claims, duplicate keys, pending requests | `handle`, notices, timeout, close of a tab | session, browsers | notices carry no request id; one may be another terminal's | no twin order; one result per request; never a wrong one |
| Subscription hub `hub/subscription-hub.ts`, pacer `hub/subscribe-pacer.ts` | reference counts of quote keys, lingering keys, merged account and strategy caches; queue, 32 requests in flight, one timer | subscribe, unsubscribe, linger, nudge, resubscribe, merge | quote feed, sessions, fan-out | counts moved by many paths; answers after their timeout; requests that overtake the queue | counts are the holders; the gateway sends what is watched; nobody watches without progress; no waiting request is forgotten |
| Quote feed and switch `quote/feed.ts`, `quote/quote-switch.ts` | the current feed and its timers, the switch under way, the rows seen last | login, retry, switch, roll back, correct after a reload | gateway, hub, registry, Admin route | break-then-make under a deadline, while the rows change | the feed is driven; it is at the server the database names; a switch ends |
| Journal observer and writer `journal/observer.ts`, `journal/writer.ts` | line, `since`, two queues, pauses, health | login, batches of two streams, serial worker with retries | gateway, database | crashes, lost answers, epochs, queue limits; one stream must not stop the other | every event once, in order, no hole behind the cursor |
| Journal transactions `src/supabase/migrations/20261028210000_dma_journal_pnl.sql`, `..20260929180100_dma_strategy_apply.sql` | event rows, cursor row, projections | `dma_journal_apply`, `dma_strategy_apply` | the writers | a call that commits late or twice | insertion is the only gate of the projection |
| Admin line, dispatcher, rows `admin/` | one command in flight, remembered file and revision; per-user chain, progress of a call; rows and results in the database | commands, put, remove, reconcile, delete, settle, record, deadline | gateway, database, fan-out | an 87 has no request id; the Admin is answered before the call ends | a job never waits for nothing; ok is true; rows follow files; the result shown is the last one |
| Push `push/` | single flight, deferred rows | claim, send | database, APNs, FCM | a claim that committed but timed out | one push per notice |
| Maps `access/`, `registry/` | polled tables | reload, look up | database | staleness (see the reload coordinator) | fail closed |
| Stores, order API, codec, `index.ts` | caches; none; none; wiring | | | the shutdown order | |

How they interact: `index.ts` wires one process. The browser's socket reaches the fan-out;
it asks the manager for the sessions of the servers that `account-order-servers` plans for
the user, binds them into one view in the hub, and hands order messages to the order
handler, which sends on the session and gets its notices back through the same fan-out. An
Admin's edit goes out on the Admin line; the gateway broadcasts it (message 87), and
session-sync applies it to the open sessions and asks the fan-out to open missing ones.
The journal is apart: its observer logs in on a line of its own, and the writers call the
database. All callbacks are synchronous; state is shared across `await`s only.

### Beside the relay

| Part | What it is | Modelled |
|---|---|---|
| `src/tickgw` | a cache of tick files, polled under leases | no, independent of the order path; a candidate |
| `src/workers/*` | scheduled jobs that fetch, compute and upsert | no, their state is the database |
| `src/server` | stateless Express routes | no |
| `src/webapp`, `src/mobile`, `src/packages/shared` | user interface, shared types and pure functions | only the comparison of rows with a file (`admin.ts`) |
| `src/supabase` | schema and SQL functions | the two journal transactions and the Admin functions of one DMA user |
| `src/infra`, `src/ops`, `src/scripts`, `src/docs` | deployment, operation, documents | no |

`PROJECT.json` lists each component with its status, and under "hazards" the lines where
this code is hard to test, with the properties that stand guard there.

## 2. The modules

| Module | Models | Depends on |
|---|---|---|
| `TailReload` | `util/tail-reload.ts` | |
| `SessionLifecycle` | abstract: what a session promises to the parts above it | |
| `DmaSession` | `dma/dma-client.ts`, `dma/session.ts`, `admin/session-sync.ts` | refines `SessionLifecycle` |
| `SessionManager` | `dma/session-manager.ts`, as operators and actions of one user | |
| `UserSessions` | the holding of sessions by `ws/fanout.ts` and `dma/strategy-sweeper.ts` | extends `SessionManager` |
| `JournalReplication` | abstract: one stream of events copied once and in order | |
| `JournalWriter` | `journal/writer.ts` and the two transactions, as operators | |
| `JournalFeed` | `journal/observer.ts` with two writers, the database and the gateway | extends `JournalWriter`, refines `JournalReplication` twice |
| `OrderHandler` | `ws/order-handler.ts`, `order/notice-status.ts` | |
| `SubscribePacer` | `hub/subscribe-pacer.ts`, as operators | |
| `QuoteSubscriptions` | the quote side of `hub/subscription-hub.ts`, driven by `ws/fanout.ts` | extends `SubscribePacer` |
| `QuoteSwitch` | `quote/quote-switch.ts`, `quote/feed.ts`, with the route and the registry that ask for a switch | |
| `AdminConn` | `admin/admin-conn.ts` and the gateway at the other end, as operators | |
| `AdminDispatch` | `admin/dispatcher.ts`, `admin/planner.ts`, the routes and the functions of the database | extends `AdminConn`, one per server |
| `StrategySweep` | `dma/effective-owner-tracker.ts`, the sweeps of `ws/fanout.ts`, `dma/strategy-sweeper.ts` | |
| `*_proofs` | theorems of `DmaSession`, `OrderHandler`, `QuoteSwitch` (and `TailReload`), `UserSessions`, `JournalFeed`, `AdminDispatch`, `StrategySweep`, `QuoteSubscriptions` | extend them and TLAPS |
| `MC*` | the constants of the runs | extend the above |

One action is one turn of the event loop: a handler with every synchronous call it makes.
A point where the code awaits is a point between two actions. A definition named
"Mutant of X" is not part of a specification: it is X with a plausible bug, kept to show
that the properties notice it.

### TailReload

| Variable | Code | Action | Code |
|---|---|---|---|
| `running`, `sampled` | `#running`; `sampled` is what the read saw | `Now(c)`, `Shared(c)` | `now()`, `shared()` |
| `tail` | `#tail` | `LoadSucceeds`, `LoadFails` | the end of `load()` and `#settle` |
| `closed` | `#closed` | `Close` | `close()` |
| `call` | the promise each caller holds | `Commit`, `Sample` | external: a commit, the read of the RPC |

### DmaSession

`client` is the `DmaClient` (socket, generation, loop flag, attempts, armed attempt);
`state`, `bootPhase`, `accounts`, `pendingAccounts`, `pendingDeclare`, `declareRespLeft`,
`timers`, `password`, `closed` are the session's fields of the same names. A timer is the
generation it captured. `conn` holds the requests the gateway has not answered and the
answers not delivered; `gateway` is `users.toml`, `notices` the 87 lists under way. `hist`
is history: a refusal was delivered, the accounts listed on this line, the accounts 87s
removed, the generation of the last ready event, the lines lost since.

Actions: `Start`, `Close`, `Terminate`, `SetPassword` (entry points); `TcpConnected`,
`LoginSendFails`, `LineBreaks`, `SocketClosed`, `ReconnectTimerFires` (the line);
`LoginBroken`, `LoginRefused`, `LoginAccepted`, `BootDeclared`, `StrayAccountList`,
`DeclareAnswered` (frames); `LoginTimeout`, `AccountTimeout`, `DeclareTimeout`;
`SnapshotApplied` (`AdminSessionSync.onApplied` as a whole). External: `GatewayAnswers`,
`GatewayHangs` and four actions of the Admin. A deadline fires only when a fault lets time
pass; a failed write, a garbled frame, a hang and a dropped Admin line are faults, too.
`manualReconnect` acts only in the state `manual_required`, which the relay no longer enters
(`dma/session.ts:17`), so it has no action. `send()` of the parts above is left out: it
writes to the line when the session is ready and changes no state.

### SessionManager and UserSessions

`entry[s]` is the manager's entry of the user for a server; a session is the number of its
login there, `live[s]` the sessions not closed yet. `tab[t]` is a connection with what it
acquired, as a count per server, `conns` and `bound` the fan-out's `#users` entry,
`lookups` the calls of `refreshUserSessions` that wait for the credentials, `sweep[s]` the
session a sweep holds. `plan` (external) is `serversFor`.

`Connect` and `Authenticate` are the two ends of the authentication's awaits, so the plan,
the other tabs and the sessions change in between. `RefreshAsked`, `RefreshResumes`,
`RefreshFails` split `refreshUserSessions` likewise. `ServerCloses` and `Closed` separate
the server's close from the socket's close event. `ResyncUser`, `SweepStarts`,
`SweepEnds`, `GraceTimer`, `AdminCloses`, `LineEnds`, `PlanChanges` are one each. What a
session does meanwhile is `DmaSession`; here it is up, failed or refused. One user is
enough: the manager's key is (user, server) and users share nothing.

### JournalWriter and JournalFeed

A writer is a record: epoch, last seq received, queue, the number of items in the call
under way and the phase of that call. `Kick`, `BeginEpoch`, `Push` and the rest are
operators that return the next writer, as handlers do. `JournalFeed` has one writer per
stream, the observer (`obs`: state, boot step, pauses), the line, the gateway's two logs
(`gw`, one epoch, a seq each), and the database (`rows`, `cursor`, `projected`).
`CallCommits` and `CallSucceeds` separate the transaction from its answer;
`CallFails` moves a call that may still commit to `late`; `RelayRestarts` drops all relay
state. `BatchReceived` is `#onBatch` for both streams of a frame: orders first, then the
strategy events taken, refused by a full queue, dropped in a pause, or broken. The gateway
may lose events by retention, by a reset store (a new epoch), or by losing the tail it had
not flushed. `LoginAnswered` and `LoginRejected` end the login.

### OrderHandler

`claims`, `dupKeys`, `userDupKeys` and `pending` are the handler's maps; the id of a
request is its place in `outcome`, which says what its tab was told, by which notice. The
handler has no `await` between its first check and the send, so `DuplicateRefused`,
`GateRefuses` and `Sent` are whole calls of `handle()`. `NoticeArrives` is
the listener of the hub's `order` events with `narrowPending` and `notice-status.ts`; `Timeout` and `ConnCloses`
are the timer and the close of a tab. External: `Accepts`, `Rejects`, `Fills`,
`ForeignNotice`, and the generation of the gateway, which decides which fields a notice
carries ("full": all of them; "nokind": not the kind of the request; "bare": not the notice
type and the number of the original order either). Notices are matched inside one user and one ISIN, so one of each is
enough; the gates (a ready session, an account it allows, the number of the original order,
a known stock, a message that can be built, a send that succeeds) are one nondeterministic refusal.

### SubscribePacer and QuoteSubscriptions

A pacer is a record: queue, keys in flight (before or after their deadline), the one timer,
`tracking`; its methods are operators that return the next record, and sending is what
they do to `sent` (the level the gateway has), since the gateway handles a connection in
order. `declared` are the users whose order session is ready, `resent[k]` those whom the
gateway sent the progress of `k` since. `hub` is the hub's state with its pacer: `refs`
(`#refs`), `held` and `active` (`#userRefs`), `linger` (`#lingering`, oldest first). `tab` is
`conn.keys` of each connection.

`TabSubscribes`, `TabUnsubscribes`, `TabCloses` are the fan-out's handlers; a change of level
takes the new one before it gives the old one back. `LingerEnds` is the timer of a key,
`SessionReady` and `SessionReplaced` are `#onReady` and `#clearCaches`, `FeedDown`, `FeedReady`
the quote connection (`resubscribeAll`), `Answered` an answer of a key in flight,
`DeadlinePasses` and `TimerFires` the clock. An answer is possible for any key in flight:
late ones of an earlier request free its slot, as in the code. `missed` is history: a user
who left a key before its session was ready and is remembered as one who knows it.

### QuoteSwitch

`sw` is the `QuoteSwitch` (`server`, `switching`, `busy`, `stopped`, `observed` for
`#observedRegistry`) with the job that awaits `switchTo`, and where it would roll back to.
`feed` is the one feed with its transport: the feed it replaced has neither listeners nor
timers. `db` are the rows in the database, `reg` those the registry applied, `read` the read
under way, `req` the calls of the route, `restore` the writes of a correction.

`RouteCalled`, `RouteRecorded`, `RouteNotRecorded` are the route between its awaits;
`ReadRows`, `ApplyRows` a reload and its correction; `Restored` the write back of a failed
correction; `ReadyTimeout` the 10 seconds; `TransportUp`, `LoginAccepted`, `LoginRefused`,
`RetryFires`, `LineDrops`, `LoginTimeout` the feed; `Stop`. External: `Edit`. `missed` is
history: a correction was dropped because a switch was under way or the write of another
change was, or failed, or a roll-back went to what the rows had left, or the address of the
primary changed while the connection was elsewhere, which nothing compares. These are the ways in
which the code itself does not bring the connection and the database together again.

### AdminConn and AdminDispatch

`conn[s]` is the connection of a server: queue, `flying` (`#inFlight`), the remembered file
and revision, both directions of the line, and the gateway's own file. Operations on it are
operators; `out` is the outcome a method has just resolved, and the job that awaits it goes
on in the same action, as the code's continuation runs before the next event. Request ids
are abstracted to whether a frame is for the command in flight. `db` are the rows, values
and recorded results of one DMA user (users share nothing but the queue of a connection,
which `OtherCommand` fills). `call`, `chain` are the calls and `#chains`; `intent`, `secret`
and `job` what the running call has read and where its work on each server is.

`Commit` is a route's write of the rows, `AnswerLost` the error that ends the route when the
answer of that write is lost; `Enqueue`, `ReadIntent`, `Begin` the turn of a call
and `#fanOut`, `PasswordRead` and `Settle` its awaits of the database, `RecordFinal` and
`DeleteUser` its end; `Deadline`, `FoldRead`, `FoldRecorded` are `#answerBy` beside it.
`LineUp`, `LineDown`, `Frame`, `Timeout` are the connection. External: `Gateway`,
`OtherCommand`. History: `last` (what the last call found at a server), `doubt` (an answer
came after its timer), `lost` (a result was not
recorded, or a write of rows was told as an error, so that no call follows it).

### StrategySweep

| Variable | Code | Action | Code |
|---|---|---|---|
| `choice`, `mapped` | the settings as loaded, the mapping of each server | `SettingsChange`, `SnapshotApplied` | `sweepOwnerMoves` with `refresh` and `sweepMoved` up to its look-up |
| `snap`, `last` | `#snap`, `#lastOwner` | `MappingObserved` | a 79: the mapping changes, nothing is compared |
| `confirmed`, `stale` | `#confirmedOwner`, the register's attempts | `Login`, `RetryTick` | `#backstopSweep`, `#retryStale` |
| `asked` | calls that wait for the credentials, or are about to enter | `Enter`, `LookupFails`, `RetryRefused` | `#sweepAccounts`, `#credentialsFor` |
| `lane` | `#sweepLanes` with the sweep under way | `FirstRead`, `SwitchedOff`, `SecondRead`, `SweepFails` | `StrategySweeper.sweep` between its awaits |
| `armed` | external: what is on at the gateways | `Confirms`, `Remains`; `Arm` | `#sweepServer` after the sweep; external: the user |

The settings change at the database and reach the relay in one step, as do the 87s; a server
that is switched off is a change of the setting. Each `stillStale` is asked before its
message: the accounts it skips are chosen in `Proceed`. The accounts of one user at one broker
are enough: lanes and records are per user and server, and users share nothing. `stayed` is
history: pairs whose account was back at home since their last sweep began, or since it was
confirmed. `missed` is history, too: the pairs that the code lets go (section 6).

## 3. The runs

| Run | Configuration | What it shows |
|---|---|---|
| `tail_reload` | 3 callers, 2 commits | `FreshReload`, `EveryCallSettles`: a forced reload is as new as the commit before it, through failing reads and `close()` |
| `dma_session` | 2 accounts, 2 faults, 2 Admin edits | `DrivenOrSilent`: a session that is not over has an event, a deadline of its own line or a counted back-off that moves it, and nothing after it is over; `AllowListIsSound`: each account allowed was listed for this line, and none is that an 87 took off the list and nothing brought back; `NoLoginAfterRefusal`; it settles, and implements `SessionLifecycle` |
| `dma_revoked` | no fault, 2 edits | violation of `NoRevokedAccount` (section 6) |
| `user_sessions` | 2 tabs, 2 servers, 2 logins per server, 2 visits, 2 look-ups | `HoldersAreCounted`: counts match holders, an unheld session is on its grace timer, what a tab holds is open; one login per server; no retry of a refused login and no replacement under a holder; an unheld session ends |
| `journal_feed` | 1 order and 3 strategy events, queues and frames of 2, 1 fault, 1 loss | both streams implement `JournalReplication`; `NothingIsSkipped` by a cursor or a full queue; "live" means caught up |
| `journal_live` | 1 order, 2 strategy events, queues of 1, 1 fault, 1 loss | `OrdersArrive`: orders reach the database though the strategy side never answers |
| `orders` | 2 tabs, 6 messages, 2 requests, 1 foreign notice, 3 generations of gateways | the guard is exact, one answer, a cancel told truly, a notice settles its own request first and never guesses |
| `order_own` | the same | violation of `ResultIsOwn` (section 6) |
| `quote_subs` | 2 users with a tab each, 3 keys, room for 2, window 1 | `CountsHolders`; `UpstreamFollows`: what the gateway sends, or a request that something will send, is what the watchers need; `WatchersGetProgress` |
| `quote_switch` | 2 servers, 2 addresses, 2 calls, 2 edits, 2 faults, 1 retry | `FeedIsDriven`, `ApartOnlyIfMissed`, `SwitchesEnd` |
| `admin` | 2 servers, 2 accounts (one held by other tools on one server), 2 calls, 1 mishap | `CommandsAreHeld`; `ResultsAreTrue`: an ok, a row that is gone and the result shown are what the gateway's file bears out; `DeleteIsTold`: the call that takes the user away tells "deleted" or an error, never "not deleted", "deleted" is told only of a user that is gone, and nobody is answered twice |
| `strategy_sweep` | 2 servers, 2 accounts, 3 settings, 3 mappings, 2 changes, 1 fault, 1 login, 2 attempts, 1 strategy switched on besides the first two | `NothingIsForgotten`, `SweptInTheEnd` |

Every property of a passing run has a mutant in `PROJECT.json`: a plausible bug in a
definition of the model under which TLC finds the property violated, so none of them
holds by the shape of the model. The runs set `CHECK_DEADLOCK FALSE` because the bounds
end every behaviour: a closed session, a settled journal and answered requests are places
where the system rightly stops.

### The bounds and why they are enough

* `MaxVersion`, `Callers`: there are two slots, so the third caller is the one that comes
  while the tail reads; a commit before it and one after it are told apart.
* `Accounts`: one account kept and one that moves. `MaxEdits`: give and take away.
  `MaxFaults = 2`: a fault while the first is recovered from. TLC agrees on all invariants;
  the theorems of section 5 hold for every value.
* `Tabs`, `Servers`: one tab that sees the larger plan and one from before it, a server
  kept and a server left; `MaxOpens = 2` allows a replaced session per server, `MaxVisits`
  and `MaxLookups` two of each under way.
* `MaxQueue = 2` with frames of 2: one call under way fills the queue behind it; three
  strategy events leave room for a batch, a gap and an event behind it. One fault and one
  loss are combined in any order; a crash that leaves a call under way, whose commit comes
  after the successor has read the cursor, is one fault.
* `MaxRequests = 2`: matching and the guard are about pairs; the six messages have pairs
  that differ in each axis (kind, order referred to, side, quantity, price, account).
  `MaxForeign = 1`: one notice of somebody else's order beside two own requests.
* `Keys`, `GlobalLimit`, `Window`: one key is shared at both levels, one is watched by one
  user, and the third needs the eviction of another; with one slot the second key waits for
  the first. There a user may hold all the room, so his own limit never binds; with `UserLimit = 1`
  and the same tabs (572,104 states) the invariants hold, and the theorems are for every limit.
  What a tab may wish is restricted (`WishesOfTab`) to the pairs that differ in
  these roles; nothing else bounds the run, which is exhaustive.
* `QuoteSwitch`: two calls overlap or follow one another; a fault for the switch and one
  for the write or the roll-back; two edits, of the primary or of an address, at rest, before,
  between or after the calls: an address that is changed and changed back needs both.
  `MaxRejects = 1`: one retry is set, the next refusal is final.
* `AdminDispatch`: the foreign account makes the removal of the user allowed on one server
  only; of the puts one changes a value, one moves an account off a server, one adds an
  account. The second call waits for the first, overlaps its deadline, or comes after it.
  One mishap anywhere; the revision restarts from 1 when the relay has seen the last
  (`Recount`), which is a bound on a counter only compared for equality.

* `StrategySweep`: x starts registered at both servers and set to one, so that a login asks for a sweep
  at once; the changes take x, or both, to the other server, or out of every mapping, and back.
  Two changes are a move and its return, or a move through nobody; with two attempts an entry
  is retried once and then given up. Three and four changes with two faults were run for a
  single account, all settings and all mappings: they showed the exceptions that take a
  third change, and none beside.

`orders` and `order_own` use symmetry over the tabs, `admin` over the calls; the modules
treat them alike and no liveness property is checked there.

### Fairness

| Specification | Assumed | Because |
|---|---|---|
| `ReloadFairness` of `TailReload` | a read that was sent samples and ends, or fails | the RPC client has its own timeout |
| `DmaSession!Fairness` | `Start`; connects, closes and the reconnect timer; a gateway that is not hung answers; frames are delivered; a deadline that may fire does | Node runs timers and socket events; a connect has a 3 s timer. Nothing is assumed of a hung gateway: there the deadline must help |
| `UserSessions!Fairness` | grace timer, sweep end, the close event of a socket the server closed, the return of a look-up | Node timers; a sweep is bounded at 20 s. No tab need ever connect or close, so sessions may be held for ever |
| `JournalFeed!OrderFairness` | cursor reads, connects, logins, batches, and the answers of the order calls | nothing of the strategy calls: that is the point of `OrdersArrive` |
| `QuoteSwitch!Fairness` | the ready timeout, reads of the rows, the writes of the database | Node timers; the database client has its own timeout. Nothing is assumed of the gateways |
| `StrategySweep!Fairness` | look-ups return, a sweep goes on and ends, the retry timer ticks | the database client has its own timeout; a sweep has steps of 5 s and 20 s in all; `setInterval`, and the delay of an entry is at most 30 minutes |
| `OrderHandler`, `QuoteSubscriptions`, `AdminDispatch`, abstract modules | none | only safety is stated; that a waiting request or job has a timer or a command is an invariant there |

## 4. Abstract specifications

`SessionLifecycle` has three variables: a phase (down, booting, ready, over), the
generation of the line and the generation last announced ready. A line is announced at
most once and a session is ready only on the line announced. `DmaSession` implements it
with `phase <- Phase, epoch <- client.gen, announced <- hist.readyGen`; the refinement is
checked (`LifecycleSpec` in `dma_session`) and proved.

`JournalReplication` has the events appended, the events the gateway no longer keeps and
the copy. A step of the copy appends events that are new and in order, and leaves none
behind that the gateway still keeps. `JournalFeed` implements it once per stream, with
`copy <- projected[..]`; both refinements are checked (`Replicated` in `journal_feed`) and proved.

## 5. What is proved

All theorems hold for every value of the constants. Assumptions: bounds are naturals,
`Accounts` is finite, messages are records of the type `Message` with natural fields whose
`org` is 0 exactly for new orders, `Resting` holds positive numbers, `Tabs` and `Keys` are
finite, every tab has a user, the window and the limits are positive, batches and queues hold at least one item, the first rows are rows, a put gives accounts that
are the user's own, and the marks for "no request" and "absent" are no request and no value. TLC evaluates them in
every run.

* `DmaSession_proofs`: `TypeCorrect`, `TerminalSessionsAreQuiet`, `LiveSessionsAreNotWedged`,
  `DeadlinesFollowTheLine`, `BackoffIsCounted` and from these four `SessionsAreDriven`;
  `ReadyAccountsAreDeclared`, `RemovedAccountsStayRemoved` and from these two
  `AllowListsAreSound`; `RefusalIsFinal`, `SessionRefinesLifecycle`, `ReadyEventsAreCurrent`.
  No property is inductive alone: each depends on which states go with which socket. The
  invariant is `TypeOK /\ Shape`, where `Shape` says when the reconnect loop is on
  (`LoopShape`), which states go with an open line (`SocketShape`), which deadlines are
  armed (`TimerShape`), how the allow list relates to what the gateway listed and the 87s
  removed (`AccountShape`) and how the generations and counters relate (`CountShape`).
  There is one lemma per action. `RefusalIsFinal` needs that a refusal, once delivered,
  stays (`RefusedForGood`). The refinement maps each action to an abstract step or a
  stutter (`StepShown`), and `ReadyEventsAreCurrent` carries the abstract module's own
  invariant over to the code's model.
* `OrderHandler_proofs`: `TypeCorrect`, `GuardMatchesPending`, `NoTwinIsPending` and
  from both `GuardsAreExact`; `AnsweredOnce`, `CancelledIsTold`, `NoticesDoNotGuess`,
  `OwnRequestFirst`: all properties of the run `orders`. The invariant adds: ids and
  request ids name one pending request each, the outcome of a pending request is open, and
  a cancellation notice is about an order that was cancelled. `NoticesDoNotGuess` is about
  the narrowing of candidates: two requests that look the same to a notice pass every
  filter together (`PoolTogether`), so neither is alone at its end. `OwnRequestFirst` goes
  the other way: the request a notice answers fits it at every axis, so it is never filtered
  out (`OwnIsCandidate`). That needs an invariant of its own (`OInv`): a notice under way
  still fits the pending request it is about (`NoticesFit`), as does what the gateway works on
  (`Underway`).
* `QuoteSwitch_proofs`: `TypeCorrect`, `TheFeedIsDriven`, `ConnectionFollowsTheRows`: the safety
  of the run. The first two rest on: a stopped switch awaits nothing (`StopEndsSwitch`), and
  refusals are counted within the faults (`RefusalsCounted`). The third holds at rest only, so
  its invariant `FInv` says what holds in between, unless a correction was missed: which job
  awaits a switch (`JobIsSwitch`); a write of the primary the registry has is made only while
  connected to it (`WritesAreFollowed`); a correction or a roll-back goes to that primary, and
  no write is under way beside a switch (`SwitchesAreFollowed`); with neither, the connection
  is at it or the database names another by now (`RestIsFollowed`). In all of them the primary
  is the endpoint the correction compared last, which is what the missed address breaks.
  The last part of the module is about `TailReload`, through which the registry reads, with
  variables of its own: `ReloadTypeCorrect`, `ReloadIsFresh`, `NobodyIsOrphaned`. `ReadCovers` joins
  the properties in the invariant: a forced reload on the running read was asked for before
  that read was sent, so what it samples is new enough. Without it the step that settles a
  read proves nothing.
* `UserSessions_proofs`: `TypeCorrect`, `OneLoginPerServer`, `GraceFollowsTheCount`,
  `CountsMatchHolders`, `OnlyDeadSessionsReplaced`: the safety of the run. The invariant
  of the manager (`ManagerInv`) is kept by each of its operations whoever calls it, so there is
  one lemma per operation of `SessionManager` and a short one per action of the fan-out.
  That the counts match the holders takes more, `CInv`: at every server the count is what the
  tabs hold plus the sweep (`CountsAt`); the session of a sweep has a number below the next one,
  so an old sweep never matches a later session (`Swept`); and a tab that is not registered
  holds nothing (`NewTabsHoldNothing`). Holdings are numbered pairs and counted by `Cardinality`
  instead of being summed, so that one acquire or release is one element more or less
  (`OneMoreEach`, `OneGivesBack`) and no induction over the tabs is needed.
* `JournalFeed_proofs`: `TypeCorrect`, `NothingSkipped`, `LiveCaughtUp`, `RefinesReplication`: the
  safety of the run, the two refinements included. A record is known by its key, epoch and
  seq, in the gateway's log, a queue, a call whose answer was lost and the database. That the
  order of the keys is the order of the events (`KeysInOrder`) holds in all four places
  together; a batch on its way to the database leaves no event behind it whenever it arrives
  (`Transits`), which is why a late call may commit after the calls that repeat it; the queue
  ends where reception stands (`Trails`), and what was received is in the database or queued
  (`Kept`). The writer takes a jump in the numbers for retention. That no jump comes from a
  fault needs what is around before the first one (`Faultless`) and after a lost tail
  (`TailIsKnown`): the latter uses up all faults, a limit of the model (section 7). `LiveCaughtUp` and the
  refinement follow by step: the copy takes what is new of a batch, in order (`CopyStep`).
* `AdminDispatch_proofs`: `TypeCorrect`, `CommandsHeld`, `ResultsTrue` from `ResultsHold`, and
  `DeletionIsTold`, `AnswersAreOrdered`: the safety of the run. `ResultsInv` has one part per place.
  Of a connection, whoever waits for it (`ConnInv`): at most one command of the job, a queue
  only behind a command in flight; and while no answer came too late (`LineInv`): only the command
  in flight is on the line, once; a success on the line is one in the file; what is
  remembered is the gateway's file, or a change is on its way whose answer shows another
  revision (`Changing`). Of a job: what is left of its plan covers what the file lacks (`Covers`).
  Of the rows: what they do not name is on no server, beside foreign accounts (`RowsInv`). Of the
  results shown: another call is still to come, or they are the last found (`ChipInv`). The
  connection is proved method by method, so that what a job gets from it is one fact
  (`Answered`, `Told`); the plan on its own (`PlanFacts`, `PendingServed`, `PendingDone`); the steps
  of the dispatcher from both. For the deletion, the call and its deadline are two
  chains of awaits: a call that is about to delete has not been answered for, because an
  answer at the deadline leaves its chain recording or done, and either keeps the call from
  deleting (`AnswersInOrder`). `DeletionIsTold` is about steps: one lemma per action says that it
  leaves the user alone and every answer given as it was (`HoldsStill`), save `DeleteUser`, which takes
  the user away and answers "deleted" or an error in one step (`Moves`).
* `StrategySweep_proofs`: `TypeCorrect`, `NothingForgotten`: the safety of the run. What covers
  a pair left behind (a request, a lane, an entry, the tracker's memory) is handed on by every
  step except two: a sweep that ends confirmed, and a move that the tracker takes as swept
  already. Both are sound only if what is on there was switched on after the account came back, so
  the invariant says when that is so: an account at home that has a sweep or the record of
  one came back since (`HomeIsStayed`), and so did what is on although it was confirmed
  (`ConfirmedOff`), what a sweep skipped (`SkippedCameBack`) and what its second read did not
  find (`LeftIsOff`). `Kept` strengthens the property to the order server by the setting alone,
  where entries and records are dropped but a strategy may be on. There is one lemma per action,
  and one for the end of a sweep however it ends (`LeaveKeeps`).
* `QuoteSubscriptions_proofs`: `TypeCorrect`, `CountsCorrect`, `UpstreamCorrect`,
  `ProgressCorrect`: the safety of the run, each from `Inductive`. Its invariant (`Sound`)
  compares the hub with the holdings, the set of triples of a tab, a key and a level. A
  message adds one or takes one away, and a change of level holds the key twice for a moment,
  so the handlers are proved for any set of holdings and only the actions name the tabs. `Books`:
  each count of the hub is a cardinality of holdings, and the keys that linger are those
  without one. `Orderly`: a key waits once, is not in flight at the same time, and is not sent
  in full (a waiting promotion of a key sent in full would never be noticed by a demotion).
  `Agrees`: what the gateway has or will have of a key is the level the hub wants
  (`Wanted`: of a lingering key the level it had); a key the hub does not know is free; the
  timer is set while a key waits. `Informed`: who knows a key, holding it or not, was sent its
  progress or the key waits. That it speaks of keys once known, not only of keys held, is what
  makes a return without a nudge sound. The methods of the pacer are proved one by one
  (what each keeps of the other keys: `KeepsOthers`), then those of the hub, then the loops
  over keys (close of a tab, `resubscribeAll`, the nudges of a ready session). A loop is a fold
  of the community modules; `FoldHolds` shows that it is defined over a finite set and that
  an invariant of the keys done so far holds at its end, in whichever order the keys come.

Only model-checked:

* every liveness property (`EveryCallSettles`, `EventuallySettles`, `UnheldEnds`,
  `OrdersArrive`, `SwitchesEnd`, `SweptInTheEnd`), which is out of the prover's reach.

Every invariant and every action property of the runs that pass is proved. No module uses
recursion; `QuoteSubscriptions` and `AdminConn` use folds of the community
modules. The fold's induction is over the subsets of a finite set, as an element of a set of
sets (`SetInduct`), since no prover here takes an operator for the hypothesis. `JournalFeed` picks from a sequence with `Nth` of a set of positions, so that the
facts the proofs need about a selection follow without an induction over the sequence.

## 6. What the models found

1. `dma_revoked` (`admin/session-sync.ts:103`): the accounts to remove are computed from the
   confirmed list only. An account whose declaration is still pending is not removed from
   the pending set, and its answer restores it after the 87 that took it away.
2. `order_own` (`ws/order-handler.ts:884`): a notice with a single candidate is never
   compared with its terms, so another terminal's order can settle a pending new order.

Both quote their comments in `PROJECT.json`.

Further places where the code falls short of its comments were met while modelling; the
properties name them as exceptions, and the hazards in `PROJECT.json` describe them:

* Answers to declarations are counted, not matched (`dma/session.ts:661`): one that arrives
  after its batch was settled counts against the next batch.
* The pause for a full strategy queue ends with the next batch, not with the queue becoming
  empty (`journal/observer.ts:539`).
* A key released while its promotion waits stays subscribed at the price level
  (`hub/subscribe-pacer.ts:163`); `UpstreamFollows` allows that level for a released key.
* A user who looked at a key before its session was ready and left is not nudged when it
  comes back (`hub/subscription-hub.ts:3999`, `missed`).
* After a failed write and a failed roll-back no reload brings the quote connection and the
  database together (`admin/admin-api.ts:819`, `missed` of `QuoteSwitch`).
* The correction after a reload compares with the endpoint it compared last
  (`quote/quote-switch.ts:279`), and `index.ts:694` does not ask it for an address of the primary
  that changes while the connection is elsewhere. Edit the address of A, switch to B while that
  reload is under way, switch back to A, and edit the address back: the correction takes the row for
  known and the connection stays at the other address (`missed` of `QuoteSwitch`). It took
  the second edit of the run to show it.
* The close of a tab does not rebind the merged view of the tabs that remain
  (`ws/fanout.ts:3020`), which may keep a session nobody holds, and then a closed one, until
  the next authentication; line 3100 says such a session leaves the view.
* Five ways in which a strategy left on at a server is forgotten until the next login, and
  partly for good (`missed` of `StrategySweep`): an account that is gone from every
  `users.toml`, or whose entry was discarded, is nobody's; the mapping a 79 brings is not
  compared with the one before; a request for an account whose sweep is under way joins that
  sweep (`ws/fanout.ts:1200`), though it skips the account or has passed it, and an entry made
  meanwhile is cleared by it; a move with no server before is dropped (`ws/fanout.ts:949`)
  before it can clear the record of an earlier sweep, so the next move is taken as swept;
  "came back" is judged by the effective server (`ws/fanout.ts:1511`), which may not know the account.
* A delete of a user that committed but whose answer was lost is told as an error
  (`admin/dispatcher.ts:294`): the user is gone and no Admin was told so. A route's write of rows
  that committed with its answer lost ends in an error, too, and no call brings the servers in line
  until the next one (`admin/admin-api.ts:605`; `AnswerLost`, `lost`).
* A late 87 answers the next list request with an older file (`admin/admin-conn.ts:483`,
  `doubt`).

## 7. Limits of the models

* `DmaSession`: the codec is left out; a frame is broken or good.
* `UserSessions`: one DMA user per login, the quote and strategy fan-out, back-pressure and
  heartbeats are left out; a sweep is the holding of its session, its messages are in
  `StrategySweep`.
* `StrategySweep`: the strategies of one account are taken together; the collection of the answers
  to one read, the resync of connected users (it asks for the same sweeps once more), servers
  the registry no longer knows, and a mapping that is not loaded yet are left out.
* `JournalFeed`: the isolation of a failing projection (`apply_error`), `stop`, `drain`, the
  account map and the health figures are left out. Losing the tail uses up all faults.
* `OrderHandler`: one user, one ISIN; the gates are one refusal.
* `QuoteSubscriptions`: the caches that a key carries, the price gate, the frames sent to the
  tabs, the merged account, order and strategy caches of the hub.
* `QuoteSwitch`: a broker without a secret, a registry without a quote server, `switchTo`
  before `start`; the stall watchdog is a lost line.
* `AdminConn`, `AdminDispatch`: password changes, account costs (op 6 and 7), launch plans (op
  8 to 10), IP and MAC of orders, disabled servers, the login of the line, a send that fails,
  a failed read of the rows, more than one DMA user.

## 8. Not modelled, and what could follow

Modelled in this order, because orders, logins and the journal are what cannot be undone:
`TailReload`; `SessionLifecycle` and `DmaSession`; `SessionManager` and `UserSessions`;
`JournalReplication`, `JournalWriter`, `JournalFeed`; `OrderHandler`; the proofs; then
`SubscribePacer` and `QuoteSubscriptions`; `QuoteSwitch`; `AdminConn` and `AdminDispatch`;
`StrategySweep`.

Most of the repository is not a subject for these models: user interface, batch jobs,
stateless routes, encoders and generated readers keep no state that events interleave on.
In the relay these remain:

1. `JournalFeed`: `apply_error`, `stop` and `drain`.
2. The merged account and strategy caches of the hub.
3. The push notifier's claim; the symbol table (`store/gateway-symbols.ts:348`), whose time-out,
   retry timer and reconnect each start a request.
4. The tick poller (`src/tickgw/src/poller.ts:247`): at most 8 keys, none that is leased evicted.
