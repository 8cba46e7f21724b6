# agentmsg: a TLA+ model

agentmsg is a messaging middleware for agents: API gateways that accept
messages over HTTP, message engines that route them, PostgreSQL and Redis
between the two, and client SDKs.  This directory models the path of a message
through it, that of a request through a gateway and the agent registry, the
migrations that processes run when they start, the deduplication of requests,
and the WebSocket clients of the Go and Node.js SDKs.  TLC model-checks the
models.  TLAPS proves, for every value of the constants, all the invariants and
action properties that the passing runs check, and the two refinements of the
message path; liveness is TLC's.

Paths below are relative to the repository.

## The system

| Part | State it keeps | Operations | Made of |
|---|---|---|---|
| shared stores | tables `messages`, `dead_letter_queue`, `acknowledgements`, list `message:pending`, the agents' channels | single SQL statements, `LPUSH`, `RPOP`, `PUBLISH` | `internal/repository` |
| message service | the requests in progress | `Send`, batches of `Send`, `AcknowledgeForTenant` | `internal/service/service.go`, `internal/api/handler_batch.go` |
| message engine | the message each worker has in hand, the cancel context | `Start`, `Stop`, `processWorker`, `routeMessage` | `internal/engine/engine.go`, `cmd/message-engine` |
| dead-letter queue | the snapshot a batch works from | `Enqueue`, `ProcessLoop`, `process`, `retryEntry`, `markEntry` | `internal/engine/engine.go` |
| agent registry | table `agents` | register, get, list, update, delete, heartbeat, query by capabilities | `service.go`, `postgres.go`, `api/handler.go` |
| authentication | none (tokens are signed) | token issue, `Authenticate` with existence checks | `service.go`, `middleware.go` |
| rate limiter | a counter per caller, route and slot of the clock in Redis | `INCR`, `EXPIRE` | `middleware.go` |
| audit log | table `audit_logs` | one insert after each mutating request | `middleware.go` |
| HTTP API | none | routes, decoding, validation, status codes | `internal/api` |
| subscriptions | Redis hash of subscriptions | subscribe, unsubscribe, list | `service_ext.go` |
| migration runner | `schema_migrations`, an advisory lock, a transaction for each file | `RunMigrations` | `migration_runner.go`, `cmd/migrate`, `cmd/api-gateway` |
| billing, idempotency | events, invoices, idempotency keys | `CheckAndSet`, quota, events; not called by the servers | `billing.go` |
| exactly-once engine | deduplication and idempotency keys | `IsDuplicate`, `IdempotencyTracker`; not constructed by the servers | `exactly_once.go` |
| WebSocket clients | connection, retry counter, loops (Go), timers (Node.js) | connect, close, send, reconnect, heartbeat | `sdk/go`, `sdk/nodejs` |
| configuration, observability, SDK request building | none that decides anything | | |

How a message travels.  `Send` inserts the row (`pending`) and then pushes the
message on `message:pending`.  A worker of any engine pops it, publishes its id
on the channel of each recipient and sets the row to `sent`.  If anything in
that fails the worker sets `dead_letter` and inserts a dead letter; if that
fails too it sets `failed`.  Each engine's dead-letter loop wakes up every five
minutes, lists the oldest retryable dead letters, publishes each again and
writes `processed`, `pending` with one retry more, or `exhausted`.  Recipients
acknowledge: the acknowledgement is inserted (its nonce is unique) and the
status of the message set from it.

How a request travels.  Every route runs behind three middlewares.
`Authenticate` checks the token and that its tenant and agent exist (an agent
that registers need not); `RateLimit` counts the request in Redis and answers 429
beyond the limit; `AuditLog` runs the handler and then inserts a row about it.
The registry's handlers run one statement each, but for the update, which reads
the agent and writes all of it back, and the registration, which announces the
new agent on a channel.

How a process comes up.  `cmd/migrate`, and every gateway with `AUTO_MIGRATE`,
creates `schema_migrations` if it is missing, takes an advisory lock, applies each
embedded file that is not recorded in a transaction that also records it, and
releases the lock.  A gateway that fails exits and is started again.

What a client does.  The WebSocket clients connect, and connect again with a
backoff when the connection ends, at most a fixed number of times in a row.  The
Go client does so from its read loops, of which every new connection starts
another one; the Node.js client from the `close` event, and it pings its server
so as to notice a silent one.

What makes this hard.  Nothing spans two statements: no transaction, no lock,
no reservation of a popped message, no comparison with the old status in an
`UPDATE`.  Every call may fail before or after its effect.  Six replicas of the
engine share the list and the dead-letter table.  `Stop` cancels the context
that the workers need to write down what they could not finish.  The advisory
lock of a migration lives and dies with one pooled connection.  The clients'
loops and timers share fields that name only the newest connection.

What makes each part correct:

* the list and the workers: a message has one custodian, takes one way through
  the system, and if it is lost that has cost a failure or an interruption
  (`ExclusiveCustody`, `RefinesJourney`, `LossesAccounted`);
* statuses: what the row shows really happened (`SentReachedAll`,
  `StatusBackedByAck`);
* dead letters: one per message, none forgotten (`OneDeadLetter`,
  `EntriesSettle`); a stored retry count that stays within its limit under any
  writers (`RetriesWithinBudget`, which does not bound the publications: two
  engines can share a retry, and one whose `markEntry` fails is not counted), and
  with one engine the whole abstract budget (`RefinesBudget`);
* acknowledgements: a status that a recipient reported has its row, and who lost
  the race for a nonce changes nothing (`StatusBackedByAck`);
* requests: answers are true whatever ran beside them (`AnswersAreTrue`), a
  change is audited unless something failed or its headers do not fit
  (`ChangesAudited`), a deleted agent neither acts nor changes
  (`DeletedActsNoMore`, `DeletedRowsStay`), a confirmed heartbeat stands unless an
  update overlapped it (`HeartbeatStands`);
* the limiter: no more pass than the limit, no counter is kept for good
  (`AdmittedWithinLimit`, `CountersExpire`);
* migrations: each file once and in order (`AppliedOnceInOrder`), nobody serves
  on half a schema (`UpIsMigrated`), processes do not fail on each other without
  a reason (`FailuresExplained`), gateways come up (`GatewaysComeUp`);
* deduplication: what follows a request is a duplicate, however much fails
  (`LateCallsPaid`); as long as nothing has failed, a duplicate has an original
  (`DuplicatesHaveAnOriginal`) and no key stays for good (`KeysExpire`);
* WebSocket clients: they neither multiply (`AttemptsBounded`,
  `OneLineagePerCall`), nor give up early (`KeepsTrying`), nor end a healthy
  connection (`OnlyUnansweredEnded`), and they do end: after `Close`
  (`CloseEndsLoops`) and when the server is gone (`GivesUp`, `ReportsGivingUp`);
* life cycle: `Stop` returns, the list drains, every message settles.

PROJECT.json lists every hazard we found, at its line, with the properties that
watch it or the reason why none does.

## Modules

| Module | Models | State and actions in the code |
|---|---|---|
| `StoreCalls` | how a call on PostgreSQL or Redis ends | `Call` (below); the modules that share the stores make their calls through it |
| `MessageStore` | the shared stores | one operator for each statement that changes a store |
| `DeadLetterQueue` | `ProcessLoop` and what it calls; the life of an engine process as the loop sees it | `loop[e]` is the goroutine's stack: the rest of the snapshot, the next recipient, the verdict to write; `phase[e]` is the context |
| `RetryBudget` | what the dead-letter table promises | abstract: open, fail, succeed |
| `MessageEngine` | the workers, `Start`, `Stop`, crashes | `worker[w]` is the goroutine's program counter, message and next recipient; one action for each call that touches a store |
| `MessageService` | `Send`, one by one in a batch, and `AcknowledgeForTenant` | `sends[m]`, `handler[h]`: where each request is; `Batches`: which messages share a request, in order; `ackRow`: the table, by nonce |
| `AgentMessaging` | the whole path, and what failures cost | composes the engines and the service over one `MessageStore` |
| `MessageJourney` | what the path promises of a message's way | abstract: a line, handed out once from its front; filed at most once; its recipients are reached only on the way, by whoever has it |
| `AgentRegistry` | the table `agents` | one operator for each statement of `AgentRepository`; the columns are whether the row is deleted, its DID, who wrote it last, and the last heartbeat |
| `RateLimiter` | the limiter's keys in Redis and the clock | `window[k]`: count and time of expiry of each key |
| `Gateway` | a request through the middleware and the registry's handlers | `req[r]`: how far each request is and what it has in hand; `audit`: the table; one action for each call |
| `MigrationRunner` | `RunMigrations` in several processes | `runner[p]`: program counter, file and error; `lock`, `work`: the sessions that hold the lock and an open transaction; `recorded`, `applied`: what is committed |
| `Deduplication` | `IsDuplicate`, `CheckAndSet`, `IdempotencyTracker` | `key`: each key and whether it has a time to live; `call[c]`: where each call is |
| `GoWebSocketClient` | the Go client | `loop[i]`: the read loop that connection `i` started; `conn`, `retries`, `shouldReconnect`, `done`, `recv`: the fields; `app`: how far `Close` is |
| `NodeWebSocketClient` | the Node.js client | `sock`, `ws`: the sockets and `this.ws`; `intervals`, `timeouts`, `backoffs`: the timers that run, and whether a field names one; one action for each callback |
| `MCDeadLetterQueue`, `MCMessageService`, `MCAgentMessaging`, `MCGateway`, `MCMigrationRunner`, `MCDeduplication`, `MCGoWebSocketClient`, `MCNodeWebSocketClient` | | instances for TLC |
| `DeadLetterQueueProofs`, `AgentMessagingProofs`, `MessageJourneyProofs`, `GatewayProofs`, `MigrationRunnerProofs`, `DeduplicationProofs`, `GoClientProofs`, `NodeClientProofs` | | lemmas and theorems |

A step of the model is one call on a store together with the local code that
follows it up to the next call.  Interleavings of local code do not matter, as
goroutines share nothing but the stores and the context.  The Go client is the
exception: its loops share the fields of the client, some of them written
without the mutex, so that there a step is a single access to a field: the
`select` on `doneCh` and the read of `c.conn` are two steps (`Top`, `Load`), and
so are the read and the write of `retries++` (`Count`, `Add`), between which its
loop holds the mutex (`Locked`) and `Connect`, which does not take it, can set the
count to 0.  Three places make two accesses in a step: `canReconnect` (only `Close`
clears the flag, and it waits for the mutex), `Close` when it compares `c.conn` with
nil (it is not nil any more), and the application's own `Connect`, beside which
nothing runs yet.  The backoff, which `retries` is read for once more, only
takes time.  An
access is a machine word and is not torn; that a loop may see an old value for
a while is covered by its stopping between two accesses.  In the Node.js client a
step is a callback, which the event loop runs to its end.

Definitions whose comment says "mutant" are variants of an action with a bug
one could plausibly make there; no specification uses them.  Each property
is known to fail under one of them, so none holds vacuously.

### Failures

`Call(o, live)` is the one place where failures come from.  Under a live
context a call is `ok`, `lost` (error, no effect) or `unanswered` (error, but
it took effect: a broken connection, a deadline).  Under a cancelled context it
is `refused` by the client library before anything is sent, while one that was
under way when its context was cancelled may still be lost or unanswered.
`lost` and `unanswered` are bounded by `MaxFaults` in one behaviour.  `Crash` ends an engine at any point, `Stop`
cancels it; both are bounded by `MaxInterruptions`.  A gateway's death and a
client's disconnect are `SendAbandoned` and `AckAbandoned`, and in `Gateway` `Die`
and `Disconnect`; a disconnect only cancels the context, and the chain goes on to
its end with calls that are refused.  A process that went
down is started again (`Start`): a Deployment replaces it.

`MigrationRunner` tells three ends of a call from each other, as the session
matters there: `ok`, `error` (the session stays, the statement had no effect) and
`broken` (the session is lost, the statement may have taken effect).  `Break` is a
connection that breaks while it is idle, which nobody is told.  The server
notices after a while that a session has no client any more (`GhostEnds`).

### Abstractions

* A message is its id.  Contents, metadata, content types and tenants are left
  out.  Two sends of the same content are two ids, as `Send` draws the id.
* `published[m][i]` counts the publications on the channel of the i-th recipient;
  who listens there is not known to the program.
* `process` reads at most `BatchLimit` entries (100), ordered by age; entries are
  numbered in the order of insertion, which is that of `created_at` up to clock
  skew.
* RPOP on an empty list, and an RPOP that fails without effect, change nothing
  and are no step.
* Reads whose result changes nothing (the lookups of `AcknowledgeForTenant`) are
  the guard of `AckBegin`: messages are never deleted and their recipients never
  change, so the check cannot become stale.
* In `Gateway` a token is signed or not and has a time of expiry; its tenant
  exists, and the target of the request is an agent of that tenant; tenants are
  never deleted.  The lookups of the
  tenant and of the agent, in `Authenticate` and in the audit log, are one read.
* Time is a counter of at most `MaxClock` ticks; `NOW()` and the gateways' clocks
  are the same clock.
* The capabilities of an agent are those that one request wrote; a query asks for
  the capabilities of some request, or for any.
* In `MigrationRunner` a process makes one call after the other, so that
  database/sql serves them all on the same connection for as long as that holds.
  A file's script meets what an earlier run of it created as an error.
* In `Deduplication` `CheckAndSet` is given a time to live (without one,
  `billing.go:171`, its key has none on purpose); all calls are about the same request; keys expire after
  hours, and never between the SET and the EXPIRE of one call.
* In `NodeWebSocketClient` a socket is used again after its `close` event; the
  answers a peer owes are counted up to `MaxIntervals`.  A pong timeout (10 s)
  ends before its interval (30 s) comes again.
* Clients send any status string: the API accepts an unknown one, and
  `mapAckToMessageStatus` turns it into `pending`.

## Runs

TLC, two workers.

| Run | Instance | What it shows |
|---|---|---|
| `Fleet` | 2 engines with 1 worker each, 2 messages sent apart, MaxRetries 1, BatchLimit 2, 2 faults, 1 interruption | the safety properties of the path with several engines: custody, one dead letter, the budget of retries, losses; that the path implements `MessageJourney` |
| `PathAcks` | 1 message, 1 engine, 2 handlers, 2 nonces, known and unknown statuses | acknowledgements against each other and against the engine; `TypeOK` of the composition |
| `PathLive` | 1 engine with 1 worker, 2 messages in one batch request, MaxRetries 2, BatchLimit 1, 4 faults, 1 interruption | liveness of the path; duplicates are explained; with one engine the snapshot stays fresh and the queue implements `RetryBudget`, and every entry settles although a tick takes one of two and the older one keeps failing |
| `Gateway` | 2 requests, one of them with headers that `audit_logs` does not take, all operations, a known and an unknown caller, Limit 1, Window 1, MaxClock 1, QueryLimit 1, 1 fault, 1 interruption | the registry, the audit log and the limiter under concurrent requests |
| `Migrations` | 2 gateways and `cmd/migrate`, 2 files, 1 fault, 2 interruptions | the migrations of processes that start together |
| `GoClient` | MaxRetries 2, room for 1 frame, 3 connections | the Go client: reconnection, `Close`, a server that goes away |
| `NodeClient` | MaxRetries 2, 3 sockets, 3 calls of `connect`, 3 intervals | the Node.js client: lineages of sockets, the heartbeat, giving up |
| `Dedup` | 3 calls at a time, 1 fault, 1 interruption | the three ways to tell a repeated request |
| `DLQTwoFinal` | 2 engines | expected violation of `SettledIsFinal` |
| `AtLeastOnce` | 1 engine, no fault, 1 interruption | expected violation of `AtLeastOnce` |
| `Confirmation` | 1 engine, 1 handler, no fault | expected violation of `ConfirmationStands` |
| `NonceRetry` | the service alone, 1 fault, clients that retry forever | expected violation of `AckedIsConfirmed` |

Why these bounds are enough.  On the path, two recipients are needed for a
publication that breaks in the middle (one message has two recipients, the other
one of them); a second message for a batch, for a limit smaller than the backlog
and for the order of the list; two engines for everything about stale snapshots
(a third adds no new kind of step: each acts on the table alone).  Two faults
allow a failed publication followed by a failed write of its consequence.
In `PathLive` two faults open two entries and the other two make both retries of
the older one fail, which is listed first again while the younger one waits.
Two workers of one engine share only its context and `Stop`, which waits for the
worker and for the dead-letter loop there as well; what one stop does to the
messages of several workers is left to `AtLeastOnce`, which has two, and to the
theorem about losses.
MaxRetries 2 tells the last retry from the others; 1 makes the first the last.
One interruption can fall between any two steps, and the restart after it is
modelled.

Two requests are enough for every pair of operations on the same agent to
overlap, which is what the registry's properties are about (a third may only
repeat what one of the two does to the row), and, with a limit of one, for the
first and the refused request of a slot; the clock passes the end of a slot.
One agent is registered, one is there to be registered, so that with QueryLimit 1
the newer one hides the older.

Two files have an order and a boundary between them at which a process can die
or lose the lock; two gateways and a job are three processes, so that one waits
for the lock while a second holds it and a third has lost it.  The first
interruption can lose the lock and the second can hit who took it.

Three connections of the Go client are three read loops: two that fail together
and a third that reads.  MaxRetries 2 has a first and a last attempt.  Three
calls of `connect` let the Node.js client hold the current socket, one it has
lost, and one that is closing.  Of three deduplicating calls two overlap and one
comes after.

The safety properties that are proved (below) hold for all values; there the
bounds only matter for how the properties were found.  Symmetry (`PathAcks`,
`Dedup`: runs without liveness) exchanges handlers and nonces, or callers.

`Gateway`, `Migrations`, `GoClient` and `NodeClient` do not check deadlock: requests
are served once and the clock stops; processes that are up, clients that are
closed and clients that have given up have nothing left to do.  The other runs do:
the dead-letter ticker and idle workers keep the system able to step, a stopped
engine is started again, and a caller may always call again.

### Violations

The four expected violations are statements of the documentation that the code
does not keep; PROJECT.json quotes them.  In short: `docs/architecture.md:97` has
the engines stateless and scaling horizontally, yet two dead-letter loops spend
the same retry twice and reopen settled entries; `README.md:11` lists delivery
guarantees that nothing looks at, and at-least-once does not hold;
`docs/architecture.md:62-63` has the acknowledgement persisted and the
sender confirmed, yet the engine's `sent` overwrites a fast acknowledgement and
an acknowledgement that was cut halfway can never be repeated.  (In the trace of
`NonceRetry` it is a disconnect or a death, `AckAbandoned`, that cuts it; the one
failed call goes to the creation of another message.)

Some properties name the exception that the code has, so that everything else is
still checked: `CloseEndsLoops` a read loop on a connection that `Close` does not reach,
because another loop had replaced it, or has installed it since while this one
was past its `select` on `doneCh` (`Stranded`); `ChangesAudited` a request whose
`X-Request-ID` or `X-Trace-ID` is longer than the columns of `audit_logs`, or whose
headers are no UTF-8 (`Unstorable`), the change of which goes unrecorded with nothing failed;
`AttemptsBounded` one attempt more for each
other read loop than `docs/websocket.md:218` has; `GatewaysComeUp` a gateway whose
unlock failed and which holds the lock while it is up; `ReportsGivingUp` a silent
connection that no heartbeat watches after several calls of `connect`;
`HeartbeatStands` an update that overlapped: the lost heartbeat itself is its
exception, and what it excludes is one lost in any other way.
`DuplicatesHaveAnOriginal` and `KeysExpire` are about a deduplication in which
nothing has failed yet; after a failure a fallback on the database may call an
original a duplicate, and an `EXPIRE` that fails may leave a key for good.
`OnlyUnansweredEnded` is about one call of `connect`.

### Fairness

`Spec` of `AgentMessaging` assumes weak fairness of each worker goroutine, of
each dead-letter loop (the Go scheduler and a ticker that fires), of the exit of
a process that was cancelled and the start of its replacement (the Deployment),
and of each request handler (net/http runs it to its end).  Not fair: clients
(a message need not be sent or acknowledged), failures, shutdowns and crashes.
Weak fairness is enough: no goroutine waits for another except in `Stop`, whose
condition, once true, stays true.  Since failures are bounded in a behaviour,
liveness means: once the failures are over.  A step that fails is a step of its
goroutine, so that fairness never rules a failure out.

`MigrationSpec` is fair to each process whose call is not blocked, to the restart
of a gateway (the Deployment) and to the server that ends a session without a
client (TCP keep-alive).  `pg_advisory_lock` waits without a deadline, so that
fairness is about its answer `ok`: a process that waits is not assumed to end with
an error instead.  Nobody has to start `cmd/migrate`.

`GoSpec` is fair to each read loop, to `Close` once it is called, and to the failure
of the connections to a server that is gone (TCP keep-alive).  It is not fair to
frames, so a loop may read forever, to `OnMessage`, as an application need not
take messages, or to the application's calls.  `NodeSpec` is fair to timers and to
the events of sockets that are connecting or closing; a peer need never answer,
close or vanish.

## Proofs

Most of the properties here say what something must have cost: a lost message, a
late call, a missing audit row is charged to a failed call or an interruption.
Such a bound on a cardinality is not inductive, as what is at stake is lost only
some steps after the failure that will lose it.  The proofs all have the same
form: a set of everything that is lost or may still be lost without a further
failure (a potential) is bounded by the failures so far.  A step that fails
may add to it as much as the failure pays for; any other step adds nothing.

`DeadLetterQueueProofs` begins with the lemmas about the operators of the stores,
which the other proofs of the path use too.  The inductive invariant is `DLQInv`.  The budget and the
statuses are not inductive by themselves: `RetriesWithinBudget` needs that what
a loop holds was within the budget when it was read, and `ProcessedReachedAll`
needs that the recipients before `next` have been reached, both under the
concurrent writes of other engines.  `LoopOK` says this for every engine.  It
survives the others' steps because publications and entries only grow and an
entry never changes its message.  It proves `DLQTypeCorrect`, `CountsBounded`
(about the stored count, as said above) and `ProcessedIsReached` for any number of
engines.  With the assumption that
there is one engine, `OneEngineFresh`, `OneEngineRefinesBudget` and
`OneEngineSettledIsFinal` follow: these are what the second engine breaks
(`DLQTwoFinal`).

`AgentMessagingProofs`: `PathInv` is `DLQInv` with the type invariant, `WorkerOK`
(the same as `LoopOK` for the recipients a worker has been through), `Custody`
and `AckOK`.  `Custody` strengthens `ExclusiveCustody` and `OneDeadLetter` with the
order of `Send`: a message that has not been pushed is neither on the list nor
with a worker nor dead-lettered, which is what makes the push safe.  `AckOK` adds
to `StatusBackedByAck` that a handler past the insert has its row in the table.
From it follow `PathTypeCorrect`, `CustodyIsExclusive`, `DeadLetterIsUnique`,
`RowsComeFirst`, `SentIsReached`, `StatusIsBacked` and `PathCountsBounded`.

`LossesAlwaysAccounted` rests on `LossInv`: at stake are the lost messages and
those of the workers in danger, whose dead letter could not be written or whose
engine is being stopped.  They are at most `faults` and, for each interruption,
as many as the largest engine has workers: `Stop` and a crash put those of one
engine at stake at once, and a failed call that of one worker.  A worker that is
busy is never in an engine that is down, so that no interruption is counted for
an engine that the restart has emptied.

`DuplicatesAlwaysAccounted` is about one engine (`OneEngine`; with two, one retry is
made twice).  `CopiesInv` bounds for each recipient what was published and what
is leased: with a dead letter, its copies, and one if it is in the batch of an
engine that is being stopped, are at most one, its retries, the one under way
and what failed; without one there is at most one copy, and none for a recipient the
worker has not come to (`ToCome`).  It needs `SnapshotFresh`, which the same
induction proves for the path (`PathSnapshotFresh`), and from which
`PathRefinesBudget` follows: enqueueing a message is the abstract specification's
opening of an entry.

`MessageJourneyProofs` proves `PathRefinesJourney`: `Spec` implements `MessageJourney`
under the mapping `Place`, which says where a message is from the list, the
dead letters, the workers and the requests, in that order.  Each step of the
system is one abstract step or none; `Custody` decides which.  It says that a
worker that routes a message is the only place that has it (`InHand`), that a
dead letter is nowhere else (`FiledAway`), and that an unpushed message is only
with its sender, so that a step of one process moves no other message.  The
abstract specification has no fairness: that messages get on is
`EveryMessageSettles`, which only TLC checks.

`GatewayProofs`: `GatewayInv` says of each request that its handler belongs to its
operation (`HandlerOK`), that what it was answered agrees with what it changed
and with the table (`AnswerOK`), and, if its caller was deleted or unknown when
it came, that the caller is still so and that it has not passed `Authenticate`
(`CallerOK`), and that one deletion of an agent was told that it was the one.
What was true when a request read it may be stale, but these facts cannot be:
rows only appear and get deleted and keep their DID (`Grows`), and every
statement has `deleted_at IS NULL` in its condition.  From it follow
`AnswersAlwaysTrue`, `DeletedNeverActs` and `DeletedRowsNeverWritten`, for any
number of requests.  `GatewayTypeCorrect` proves the types of all variables, which no
run checks.

The other four have an invariant each beside `GatewayInv`.  `ChangesAlwaysAudited`
(`AuditInv`): the requests that are cancelled or have missed the audit log are at
most what failed, those with headers that do not fit left aside; a request that
is neither has a reference that the foreign key
accepts, since it was looked up and rows stay.  `CountersAlwaysExpire` (`ExpiryInv`):
a counter without a time to live that no uncancelled request is about to set has
cost a failure.  `AlwaysWithinLimit` (`LimitInv`): a counter never expires in its own
slot, as its time to live is a whole window, so that within the slot it is at
least the number of requests that passed, but for those whose `INCR` failed;
afterwards nobody passes on it in time.  `HeartbeatsStand` (`BeatInv`): a heartbeat
that was read is not of the future, and only an update that read an older one
can lower the row.

`MigrationRunnerProofs`: `MigrationInv` relates where each process is to what the
database holds for it: the files before the one it is at are recorded, from the
script to the commit the file belongs to its session, and before the commit the
row is not there.  `AppliedOnceInOrder` is inductive together with it, and
`UpIsMigrated` follows.  The advisory lock does not occur in the argument: the
transaction around a file and its row, the primary key of `schema_migrations` and
the order of the loop are enough, so that the theorems hold even when the lock
is lost.  What the lock adds, that processes do not fail on each other, is
`FailuresAlwaysExplained`.  Its `FailInv` bounds the processes past the lock that do
not hold it by the broken sessions, and charges each failure, made or
owed, to a failed call, to a file that was committed while somebody ran it
without the lock (for each file as many as there were breaks), or to the
race for `schema_migrations`, which all but one process can lose.

`DeduplicationProofs`: `DedupInv` says first what holds while nothing has failed
(`NoneLost`, `KeysHaveAnOriginal`), from which `DuplicatesAlwaysOriginal` and the
first half of `LateCallsAlwaysPaid` follow.  For the second half, the potential is
the calls that passed late, those past the question that came late (`Danger`), all
callers that have not asked yet while a key that should be there is lost (`Exposed`),
and as many for each call that is about to delete a key; a failure adds at most
the number of callers.  A lost key is set again by every call that asked,
which is why the exposure does not grow without failures.  `KeysAlwaysExpire` is
inductive with the types.

`GoClientProofs`: `retries` and the loops that `canReconnect` has let through but that
have not counted yet (`Pending`) are together at most `MaxRetries` and one for each
loop but one, whether the count is what `retries` is or, while a loop holds the
mutex between the two halves of `retries++`, what it has read (`seen`); at most one
loop does so.  A loop that passes the check sees `retries` below the limit, and
there is a loop for each that is pending.  From it follows `GoAttempts`;
`GoKeepsTrying` also needs that before `Close` nobody clears the flags (`NotClosed`).

`NodeClientProofs`: the sockets that live and the backoff timers are at most the
calls of `connect`, and those that `this.ws` does not name one less (`Lineages`),
which is `LineagesStayApart`.  With one call, a timer that runs is one that a field
names and belongs to the only socket (`OneHeartbeat`), so that the pong timeout ends
a socket only with a ping unanswered (`HealthyNeverEnded`).

The assumptions are those on the constants (`RecipientsAssumption`,
`MaxFaultsAssumption`, `RetryAssumption`, `WorkersAssumption`, `BatchesAssumption`,
`AckAssumption`, `OpsAssumption`, `RegistryAssumption`, `LimiterAssumption`,
`MigrationAssumption`, `DeduplicationAssumption`, `GoClientAssumption`,
`NodeClientAssumption`, `NilAssumption`), which TLC evaluates in the runs, and
those that a theorem states itself: that there is one engine (what needs it
fails with two, as `DLQTwoFinal` shows); that there are finitely many agents (the
order of registration is a cardinality), workers and processes; and that there
is an engine and a process at all.  The bounds `MaxFaults`, `MaxInterruptions`,
`MaxClock`, `MaxConns`, `MaxCalls`, `MaxIntervals` are arbitrary natural
numbers (some must not be 0) in the theorems.

The inductive invariants were checked by TLC on the instances of the runs, or
on smaller ones, before they were proved.

Only model-checked is liveness, which is out of the prover's reach (it needs
`ENABLED` under fairness): `EveryMessageSettles`, `EntriesSettle`, `QueueDrains`,
`StopReturns`, `GatewaysComeUp`, `CloseEndsLoops`, `GivesUp` and `ReportsGivingUp`.  The
properties of the four runs that expect a violation are false, and nothing is
proved of them but `OneEngineSettledIsFinal`, their exception.

## Not modelled

* The mode of the engine without a database, and payloads that do not decode:
  `cmd/message-engine` always passes a database, and only `Send` and `Enqueue`
  write the payloads that are read.
* Retries inside go-redis and database/sql: they make a call that reports `ok`
  have its effect twice in rare cases; this would add a cause to duplicates.
* `processed_at` columns, which no decision reads.
* In the gateway: how a token is put together and signed, unknown tenants,
  malformed requests (answered without a call), the routes that only list
  messages, and the middleware in front of the message routes (messages are
  modelled from the service on; the middleware is that of the agents' routes).
* Subscriptions: each request is a single command on a hash under an id drawn for
  it, and nothing reads the subscriptions.
* Variants that nothing calls: `Acknowledge` and the registry's functions without a
  tenant, `UpdateCapabilities`, `GetStats`, `SendMessage` of the engine.
* Billing events, invoices and the quota check: each is one insert or a read, and
  no code calls them or acts on their answer.
* `processedIDs` of the exactly-once engine and its cleanup: nothing ever fills it.
* The `writeLoop` and `Send` of the Go client: nothing is put in `sendCh`, so a write
  loop only waits for `doneCh`, and `Send` writes to the connection of the moment.
  Calling `Close` twice, which panics, is a misuse the model's application does not
  commit.
* The REST clients of the three SDKs, which build requests and decode answers,
  configuration parsing, and metrics and spans, which no decision reads.

## Plan

Done: the message path with its proofs and the two abstract specifications it
implements; the gateway, registry and limiter with the proofs about requests and
the table; the migrations with their proofs; deduplication; the WebSocket
clients; and a theorem for each safety property of the passing runs.  What is left:

1. The middleware in front of the message routes, composed with `MessageService`.
2. The bounds on losses and duplicates for a fleet: `DuplicatesAccounted` with a term
   for the engines that share a retry.
3. The safety lemmas that liveness rests on, such as that a process that waits
   for the lock of the migrations waits for one that can step.
