# jararaca in TLA+

A verification project for jararaca: TLA+ modules that model the code, TLC runs
that check them on small instances, and TLAPS proofs of the most important
properties for every value of the constants. `PROJECT.json` lists the
components, runs, mutants, hazards, theorems and, for every definition, the
source lines it stands for.

Paths below are relative to `src/src/jararaca/` unless they start with `docs/`.

## The system and its parts

jararaca is an asyncio framework. A service is one or more processes of three
kinds, each running the same application object:

| Process | Code | Talks to |
|---|---|---|
| HTTP server | `presentation/` | clients, the database, RabbitMQ, Redis (WebSocket fan-out) |
| Worker | `messagebus/worker.py` | RabbitMQ (consume, dead-letter), Redis (delayed retries), the database |
| Beat | `scheduler/beat_worker.py` | Redis (lock, dispatch times, delayed messages), RabbitMQ (publish) |

A request or a delivery runs inside a **unit of work** (`core/uow.py`), a stack
of interceptors entered in the order they are declared and exited in the
reverse order: the database session, the message publisher, the WebSocket
sender and those of the application. The publisher sends immediate messages to
RabbitMQ and delayed ones to the **broker backend** in Redis. The **beat**
claims delayed messages when they are due and publishes them; it also publishes
the triggers of scheduled actions. The **worker** consumes both, and hands
failed messages to the broker backend again, as copies with a higher retry
count, until the budget is spent and the message is dead-lettered. The
WebSocket sender publishes on Redis, from where the **WebSocket manager** of
every server instance delivers to its own sockets. The **command line** starts
the processes, declares the exchanges and queues they need and works on the
dead-letter queue.

### Inventory

| Part | Sources | Modules | State |
|---|---|---|---|
| Message bus worker | `messagebus/worker.py`, `bus_message_controller.py` | `MessageBusWorker`, `ConsumerSetup` | modelled but for metrics and the length of retry delays |
| Scheduled action consumer | `messagebus/worker.py`, `utils/rabbitmq_utils.py` | `ScheduledActions` | modelled |
| Delayed messages | `broker_backend/redis_broker_backend.py`, second half of a beat cycle | `DelayedMessages` | modelled but for the calls nothing uses |
| Beat worker | `scheduler/beat_worker.py` | `BeatScheduler`, `DelayedMessages`, `ScheduledActions` | modelled but for the pools |
| Unit of work | `core/uow.py`, `persistence/interceptors/`, `messagebus/interceptors/` | `UnitOfWork`, `Outbox` | modelled but for sessions opened by hand |
| WebSocket manager, Redis backend | `presentation/websocket/` | `WebSocketHub` | modelled |
| Client cancellation | `presentation/client_cancellation.py` | `HttpRequest` | modelled |
| HTTP server | `presentation/server.py` | `AppStartup`, `HttpRequest`, `UnitOfWork` | start, end and the life of a request; not routing |
| HTTP RPC client | `rpc/http/` | `RpcClient` | calls, retries, cache; not the building of requests |
| Infrastructure declaration | `cli.py`, `utils/rabbitmq_utils.py` | `BrokerTopology` | modelled |
| Dead-letter commands | `cli.py` | `DeadLetterTools` | modelled |
| Command line | `cli.py` | `ReloadWatcher` | the reload mode |
| Retry with backoff | `utils/retry.py` | `RetryBackoff` | modelled |
| Container, lifecycle | `microservice.py`, `lifecycle.py` | `AppStartup` | modelled |
| Persistence utilities | `persistence/utilities.py`, `sort_filter.py` | `PagedQuery` | paging, filters, sorts and writes |
| Observability, TypeScript generator, reflection, configuration | several | - | see "Not modelled" |

## Modules

Every component has a specification. An `MC` module holds the instances TLC
checks, and a `Proofs` module the theorems. Definitions whose comment starts
with "Mutation of" are deliberate defects: replacing the named definition by
one of them must make TLC find the property it is paired with in `PROJECT.json`
violated.

### MessageBusWorker

One worker process and the queues of one channel. A message travels as
*copies*; `place` says where each copy is (queue, unacknowledged, delayed
store, claimed by the beat, dead-letter queue, acknowledged, superseded by a
retry copy, lost). `retries` is the `x-retry-count` header. A *task* is the
asyncio task of one delivery, and `pc` is the await it is suspended at: a step
ends where the code awaits. `live` and `processed` are what aio_pika knows of
the delivery: it can be settled once, and only over its own channel.
`processing_slots` is `slots`; `wait_all_tasks_done` snapshots into `pending`.

| Code | Actions |
|---|---|
| `message_consumer`, `processing_slot` | `Deliver`, `AcquireSlot` |
| `handle_message` | `EnterUow`, `HandlerReturns`, `HandlerRaises`, `PayloadInvalid`, `Timeout`, `LeaveHandler`, `ExitUow`, `AbortUow` and the failing variants |
| `AioPikaMessageBusController` | `HandlerAcks`, `HandlerDisposes`, `HandlerRetries`, `HandlerRetriesAstray`, `Unwind`, `UnwindRaises` |
| `handle_reject_message`, `schedule_retry` | `RejectAfterDelay`, `BudgetExhausted`, `EnqueueRetry`, `EnqueueRetryFails`, `EnqueueReplyLost`, `AckAfterEnqueue` |
| connection, monitor, shutdown | `LinkCloses`, `HealthCheckFails`, `Shutdown`, `StartDrain`, `Stop`, `Crash`, `Start` |
| the beat as the worker sees it | `BeatClaims`, `BeatDispatches`, `BeatPutsBack`, `BeatPutsBackPublished`, `BeatLoses` |

Payloads, topics, delays and metrics are left out. `HandlerOps` and `Faults`
switch behaviours of the handler and of the environment on and off.

### DelayedMessages

The sorted set of dispatch times (`score`) and the documents (`meta`) in
Redis, publishers that enqueue, and beat workers that claim, dispatch and put
back. Enqueueing (`MULTI`) and claiming (a Lua script) are single steps; what
lies between a claim, each dispatch and each put-back is not. A message is
stored under its idempotency key (`Key`) or a fresh uuid (`Anon`), and its
number stands for its payload. Both policies of an idempotent message are
modelled by what they make `SET NX` and `ZADD GT/LT` do.

### BeatScheduler

Beat workers that loop over the scheduled actions. `pc` follows one iteration:
wait for the lock (`SET NX PX`), read the last dispatch time, decide with
croniter, publish, record, release (compare and delete). The clock is discrete,
and `mark` limits how long a worker waits for the lock and how long it holds it
(`Stall`, a dispatch with its retries). A cron is the set of times it fires at.
`Orphan` is a lock whose token nobody has any more.

### UnitOfWork and Outbox

One unit of work of an application `app`: a stack of interceptors, the context
(an HTTP request, or the worker, which catches what the handler raises) and
whether the publisher is provided before the handler
(`open_connection_at_end_of_transaction`). `exc` is the exception handed to the
next `__aexit__`, `raised` the one that left the handler; `Result` combines
them as `finally` does. `tx` is SQLAlchemy's transaction, including what a
failed flush and a commit by hand do to it. `out` holds what others can see,
and `inTx` what is inside the AMQP transaction.

`meddled` is a history variable. It is true once the handler ended its
transaction itself, swallowed a failed flush, had its database error caught by
the worker inside the unit of work, or an interceptor suppressed an exception.
The promises hold for units of work that are not meddled with; see "Known
deviations" for the others.

`Outbox` is the abstract specification: the transaction ends once and messages
appear only after it committed. `ImplementsOutbox` is the refinement, with
`dbState` and `visibleAfterDb` as the mapping.

### WebSocketHub

One server instance. The endpoints register their sockets with the connection
manager, join rooms, notice that their client is gone and remove themselves.
The two consumers of the Redis backend (`consumer`: starting, polling, waiting
for a permit, waiting for the lock, failed, ended) read their channels
(`inbox`, `hand`) and start a task per message (`job`). A task takes a
snapshot of the sockets concerned (`Snapshot`), sends to each of them
(`TrySend`) and forgets those it could not reach (`Forget`), while endpoints
come and go. `todo` and `received` count, per
message and socket, what is to be sent and what has arrived. Faults: Redis
fails, a task can not be spawned, a message does not decode, the server closes
while messages are under way.

The encoding is modelled by what it does to room names: a name with a comma in
it comes back as its pieces, one with the separator does not decode.

### HttpRequest

One request. Its task is suspended at an await in every state; `cancel()` makes
a `CancelledError` pending, which the task meets when it next runs. Around it
run the guard's watcher, a `QueryGuard` with its own watcher, the client, and a
server that may cancel the request itself. A guard is off, on, or on with the
`raise` or `warn` policy. The unit of work is entered inside the guard and torn
down by FastAPI after the response.

### RpcClient and RetryBackoff

`RpcClient`: calls that overlap, through a client with a retry policy and a
response cache, which comes before the other middlewares, after them or not at
all. A response remembers the request it answered, so that a wrong answer
shows. `RetryBackoff`: the loop of `retry_with_backoff` with its integer
delays, the jitter as any value of its range, and the cancel event.

### AppStartup and ReloadWatcher

`AppStartup`: the start-up is a list of steps (`StartupPlan`), of which `over`
have been taken; in a step the container builds providers, interceptors and
controllers with a stack of constructors (`stack`). Instances are numbered, and
`uses` records which instance an item was given. A provider is a class or
factory, a value, or nothing; an interceptor a type or an instance. An item has
one list of parameters (`Needs`), whichever class or factory provides it.
`Required` is what an item needs, directly or not, and `ListedInOrder` an
application that lists all of it first. Then the lifecycles are entered, the
application serves, is told to stop, and the lifecycles are exited.
`ReloadWatcher`: two threads, the observer's and the main one, and the processes
they start and stop.

### BrokerTopology and DeadLetterTools

`BrokerTopology`: exchanges, queues and bindings on RabbitMQ, and deployments
that run `jararaca declare`. A deployment is a list of calls to the broker
(`calls`), each of them a step. `DeadLetterTools` extends it with one of the
`dlq` commands and with the dead letters, whose `fate` is a history variable.

### ConsumerSetup

The worker from its start to its end: the consumer, the connection, the check of
the infrastructure, one set-up task per queue with its retries, the lock under
which the channels are opened, the health monitor and the signal. Meanwhile the
broker may close channels, and `jararaca declare` may make or delete queues.
What the worker does with deliveries is `MessageBusWorker`.

### ScheduledActions

One action: the beat worker starts, publishes triggers to a queue of length 1,
and workers consume it with `no_ack`, guard against overlap and wait for a
processing slot that other handlers compete for. `allow_overlap` is part of the
action; the in-execution count the beat consults is always 0. When a trigger is due is
`BeatScheduler`.

### PagedQuery

A client that asks for page after page, and writers. A listing is any order the
`ORDER BY` allows. `Verdict` says whether a filter is applied, passed over,
answered with 422 or fails with 500, and `Keeps` which rows it lets through, by
type of column. `stable`, `removed` and `inserted` are history variables. The
queries are any that Pydantic lets through (`QueryAssumption`), and a table has
rows of distinct creation times (`TableAssumption`).

## Runs

Run one with `tlc -config <run>.cfg <module>`, in this directory.

| Run | Module | States | What it shows |
|---|---|---|---|
| `worker_calm` | `MCMessageBusWorker` | 1.4M | With a graceful shutdown and a backend that refuses retries as the only faults (a reply of the backend that is lost leaves two active copies): one active copy of a message and never two handlers of it (`OneHandlerPerMessage`), a task behind every unacknowledged delivery and a committed unit of work behind every acknowledgement (`DeliveriesAccounted`). A stop leaves no task (`DrainedBeforeStop`). |
| `worker_faults` | `MCMessageBusWorker` | 0.5M | Every fault at once, a retry that is stored although its reply is lost included: no message is lost (`NoMessageLost`), no more handlers run than the prefetch count allows although early acknowledgements let the broker deliver more (`SlotBound`), the retry budget is kept and used up before dead-lettering (`BudgetExact`), no task settles what another owns and nothing settled comes back (`SettledOnce`). |
| `worker_live` | `MCMessageBusWorker` | 0.1M | Under fairness: messages are settled once the link is stable, and a lost connection is replaced (`WorkGoesOn`). |
| `delayed_store` | `MCDelayedMessages` | 1.1M | Two beat workers, all policies, every fault but a lost confirmation (which `InOnePlace` excepts from publishing once; `delayed_live` has it): a message is in one place (`InOnePlace`), that is, score and document exist together, it has one holder, and it is published at most once. |
| `delayed_live` | `MCDelayedMessages` | 0.3M | Under fairness, with a batch smaller than the backlog: a message leaves the store for good (`EventuallyLeaves`). |
| `beat_overrun` | `MCBeatScheduler` | 2.1M | Dispatches longer than the lock's TTL and every fault: a dispatch time is never recorded ahead of a publish (`NeverSkips`), and no worker releases another's lock (`ReleasedByHolder`). |
| `uow_all` | `MCUnitOfWork` | 0.2M | All 260 applications (every order of every subset of four interceptors, both contexts, both ways to provide the publisher) and every failure: what others see follows the commit (`EffectsAfterCommit`), a unit of work that succeeded is complete, and a transaction stays open only where a later interceptor failed to enter, before anything was staged (`EndedIsComplete`), one whose handler failed leaves nothing (`FailedHandlerLeavesNothing`), and it ends, as a step of the abstract `Outbox` (`FinishesAsOutbox`). |
| `websocket` | `MCWebSocketHub` | 77k | Clients leave while messages are delivered, consumers fail and the server stops: no permit leaks (`PermitsConserved`), a socket in several rooms gets a message once and a task reaches every socket of its snapshot that is still usable (`DeliveredOnce`), registry and endpoints agree (`RegistryAgrees`), what is received is delivered and consumers come back (`DeliveryGoesOn`), endpoints clean up and the shutdown ends but for one deadlock (`HubWindsDown`). |
| `application` | `MCApplication` | 0.2M | One of seven parts, see below. |
| `operations` | `MCOperations` | 0.1M | One of four parts, see below. |
| `dlq_requeue` | `MCOperations` | | Violated: see the findings. |
| `allow_overlap` | `MCOperations` | | Violated: see the findings. |

`application` and `operations` are sums. A variable `part` is chosen in the
initial state; only the actions of that part are taken, and the others' variables
stay as they are. The parts share no state, so the properties of each hold in the sum
exactly when they hold alone. The fairness conditions of a sum are those of its
parts, each guarded by `part`.

| Part of `application` | What it shows |
|---|---|
| `HttpRequest` | `AnswerTellsOutcome`: the watcher never cancels a request whose response has started, so a request that succeeded commits, and 499 means the client left and nothing is kept. `NothingLeftBehind`: no query and no watcher outlives the request. `AbandonedEnds`: an abandoned request ends. |
| `RpcClient` | `RetriesAsGranted`: exactly the granted attempts, with geometric sleeps. `AnsweredByServerOrCache`: an answer is the server's to this request or the cache's to this key. `CallsEnd`. |
| `RetryBackoff` | `PolicyKept`: bounded delays, no giving up before the budget is used, and at most one more start after a cancellation. `RetryEnds`. |
| `AppStartup` | `AppInOrder`: singletons, if providers are listed before what needs them; a running application has an instance of all it lists (but providers of nothing and interceptors given as instances), each with its parameters; lifecycles entered are left. `StartupEnds`: also with a cycle of dependencies. |
| `ReloadWatcher` | `RunsLatestAlone`: never two processes, and stale code only after a change that the debounce dropped or a file renamed or removed. |
| `PagedQuery` | `PagesAddUp`: for every way to count, a walk misses no more untouched rows than were removed and repeats no more than were inserted, and a page lies within its total. `OppositesSplit`: opposite filters split the rows. |
| `BeatScheduler` | Holders within the TTL exclude each other (`LockExclusive`); every occurrence is published and an orphaned lock goes away, although a worker dies with the lock (`DispatchGoesOn`). |

| Part of `operations` | What it shows |
|---|---|
| two deployments | Together they leave everything declared and bound (`DeclaredIsComplete`); without `--force` and interaction nothing is deleted (`LettersHandedOn`). |
| a deployment and a `dlq` command | A letter leaves the queue only published, purged or deleted with it (`LettersHandedOn`; that it may be published to no queue is the first finding); limited commands end (`LimitedToolsEnd`). |
| `ConsumerSetup` | `ChannelsKept`: while the connection is up a consumer is lost only to the broker (a closed channel, a deleted queue) or to the set-up of a queue of its own channel, and the lock is held by who opens a channel. `SetupSettles` and `WorkerStops`: set-ups settle and the worker stops. |
| `ScheduledActions` | No overlap in a worker, whatever `allow_overlap` says (`NoOverlapInWorker`); every trigger is settled (`TriggerSettled`); a stopping worker leaves (`WorkerLeavesInTheEnd`). |

`PartsEnd` and `OperationsEnd` collect what the parts promise under fairness;
`PartsEnd` states it in one formula, as a part that does not run has neither
begun nor ended. Most other properties are conjunctions too: they collect what
one piece of code promises, under names of their own that the texts below use
(`DeliveredOnce` is `ReceivedOnce` and `DoneReachedAll`). Each has one mutant.

### Findings

`RequeuedArrives`: `dlq requeue` publishes under the routing key the letter has
in the dead-letter queue (`cli.py:1909`), which no handler's queue is bound
with. The broker drops the message, the publication is confirmed, and the
letter is acknowledged. The docstring at `cli.py:1794` says "Requeue messages
from the Dead Letter Queue back to their original queues."

`OverlapAsDeclared`: the worker skips a trigger while its last execution of the
action is not done, and never looks at `allow_overlap` (`worker.py:1184`); the
beat worker does (`beat_worker.py:653`), but what it then consults is a count of
executions that nothing raises, so without the option two workers may run the
action at once. `docs/scheduler.md:54` says "`allow_overlap`: A boolean
indicating if new executions should start even if the previous one is still
running (default: `False`)".

### Known deviations

They were met while modelling. The models behave this way too, which is why
some properties have a condition or leave a fault out. No run checks them.

Worker, beat and unit of work:

- The `except Exception` clause of `handle_message` (`worker.py:1826`) does not
  look at the disposition: a handler that raises after `ack()` has its message
  retried. `docs/messagebus.md:472` says nothing can be redelivered after `ack`.
- A handler timeout is not caught inside `handle_message` (`worker.py:1679`):
  the delivery stays unacknowledged until its channel closes. `UnackedIsHeld`
  and `EventuallySettled` are checked without timeouts.
- A delivery is acknowledged before its unit of work commits
  (`worker.py:1695`). A crash or a failing commit in between loses the effect,
  so `AckedIsProcessed` is checked without `crash` and `uow`.
- Only a lost *connection* is noticed by the health check. After a closed
  channel the worker stays up and consumes nothing (`worker.py:677`), so
  `worker_live` leaves closed channels out.
- A retry whose reply from Redis is lost is stored, and the delivery is requeued
  as if it were not (`worker.py:1569`): two copies of the message are active, so
  `OneHandlerPerMessage` is checked without `reply`.
- Nor does a worker notice that the broker closed a channel under its consumers
  or that `declare --force` deleted a queue (`cli.py:397`), which
  `ConsumedWhileUp` excepts (`severed`).
- A queue that does not exist closes the channel it is looked up on, and the
  other queues of that channel are no longer consumed (`ConsumedWhileUp`). The
  check of the infrastructure (`worker.py:520`) does not retry AMQP errors. A
  signal that arrives before the consumer exists is lost.
- The beat records the time it read at the start of the cycle
  (`beat_worker.py:674`) and decides with the current one. When the cron fires
  in between, the next cycle publishes the occurrence again;
  `redis_broker_backend.py:98` says only one beat worker dispatches a cycle.
- A put-back uses the policies of the message (`beat_worker.py:749`): under
  `replace` an older payload overwrites a newer one with the same key.
- A batch is removed before it is dispatched: a beat worker that dies with it,
  or does not get the reply, loses it (`BeatCrash`, `ClaimReplyLost`).
- Scheduled actions: `timeout` and `exception_handler` are not looked at; the
  guard against overlap is per worker; a trigger that arrives while the worker
  stops is dropped, since a `no_ack` message can not be rejected.
- When the `__aenter__` of an interceptor raises, those entered before it are not
  exited (`core/uow.py:70`), and a session among them stays open until it is
  collected (`OpenOnlyIfEnterFailed`).
- The publish follows the commit, so a broker failure at that point leaves
  committed data without messages. `SuccessIsComplete` covers units of work
  that succeed.
- In the worker the handler's exception is caught inside the unit of work,
  which then commits and publishes (`worker.py:1781`). After a database error
  it publishes without the data; `docs/interceptors.md:183` says it would not.
- With the order `docs/interceptors.md` recommends, WebSocket messages are sent
  before the commit; lines 69-71 say after.
- An exception that an interceptor suppressed still reaches the caller, after
  the outer interceptors went on as if there were none (`core/uow.py:83`); the
  comments at lines 91 and 103 say otherwise.

Server and WebSockets:

- `shutdown()` of the Redis backend gathers the consumers with the lock held,
  and a consumer with a message in hand waits for that lock
  (`StopsUnlessLocked`). A message that does not decode ends its consumer's
  subscription; it is restarted.
- A cancellation by the server is answered as a disconnect when the watcher has
  set its flag; `client_cancellation.py:117` says it propagates.
- A provider already built as a dependency is built again. A `ProviderSpec` with
  a falsy `use_value` and nothing else registers nothing (`PassStep`), and a
  type among the providers ends the start-up (`BareProvider`,
  `microservice.py:226`). Lifecycles are exited in the order they were entered,
  and one that fails leaves the others entered.
- `request_shutdown` does nothing to an HTTP server with our signal handler
  (`docs/architecture.md:421`), and with the server's own handler the event is
  not set (`docs/architecture.md:460`).
- In the reload mode a change within a second of another is not loaded, nor is a
  file that is renamed or removed, since only `on_modified` is handled; and
  Ctrl-C stops the first process only.

Clients and tools:

- The RPC cache ignores the body of a GET, keeps error responses, stamps a
  response anew at every hit (`docs/http-rpc.md:261` speaks of five minutes),
  and never hits in the order of `docs/http-rpc.md:475`. With `max_attempts=0`
  a call reaches the error "should never be reached".
- `retry_with_backoff`: the jitter exceeds `max_delay`, and the first sleep
  does not look at it (`DelayBounded` says by how much).
- `declare --force` deletes the infrastructure when some of it is missing, with
  the dead letters, and leaves it alone when it is complete (`cli.py:150`); the
  comment says the opposite.
- `dlq stats`, and `requeue` without a limit, never end on a queue that has
  letters, because a letter looked at returns to the head; `list` shows the
  first one several times; a filter that misses loops.
- A page past the end reports a total of 0 under `total_over`; the total type
  `none` reports -1. A listing whose order leaves ties may skip and repeat rows
  without any write. `case_sensitive` of a criterion is not looked at. The
  tests for emptiness with no value are no filter except on a uuid
  (`sort_filter.py:111`); a list where a text operator takes a single value, and
  the reverse, is a 500, not the 422 of `sort_filter.py:63`. `update` inserts a
  row that was deleted meanwhile.

## Bounds

- *Worker*: one or two messages, two tasks, three or four copies, one or two
  retries. Two tasks and one message give every race of a redelivery with a
  running handler. `worker_calm` has prefetch 2, so that two handlers can run at
  once; `worker_faults` has prefetch 1, so that two tasks compete for a slot.
  Three copies are one more than one retry needs, so that a budget exceeded by
  one would show.
  `Reserve` (0 but in `worker_live`) forbids closing the link when no copies are
  left for the retries under way; without it the bound on copies would look
  like a message that is never settled.
- *Delayed messages*: one key and two uuids, two messages, two beat workers,
  batch 1, clock up to 2. Two messages under one key exercise every policy, two
  beat workers every race of claims, and batch 1 a backlog. `MaxSent` bounds
  unconfirmed publishes. A put-back must fall within `MaxClock`.
- *Beat*: two workers, one action that fires at 1 and 3, clock up to 4. `Ttl`
  and `Stall` are chosen on either side of each other. `MaxClock` leaves time
  for the TTL of a lock left behind.
- *Unit of work*: one staged message of each kind; the proofs cover any number.
- *WebSockets*: two sockets, one of which may become unusable, two messages, over
  one channel or both, one permit, a room name with a comma and one with a
  separator. Two messages and one permit make a message wait for another's
  task; a socket in two rooms of one message would receive it twice if the
  snapshot were per room.
- *HTTP request*: one request, in all four configurations of the guard. Requests
  share nothing the guard looks at.
- *RPC*: two calls of three requests, two of which share a cache key, three
  configurations of the client (no cache, a cache declared first, and last
  of its middlewares), and a clock that reaches the cache's TTL.
- *Retry*: four retries, a delay that reaches its maximum after three and grows
  by jitter; the proof covers every policy.
- *Application*: five lists of providers over seven items, one with a cycle of
  dependencies, one out of order, one with values, a provider of nothing and
  interceptors given as instances, one with a bare type. *Reload*: three
  changes, enough for one to come while the process is stopped and one within
  the debounce.
- *Paging*: three ids, three values, two tables and two writes during a walk,
  so that a row may leave a page before and enter one after.
- *Declaration and dead letters*: two deployments, two queues, five topologies
  to start from, two letters and five commands. Interactive deployments include
  the behaviours of `--force`, which answers every question with yes.
- *Consumers*: three queues, two of them on one channel and one of those
  missing, one retry of each kind. *Scheduled actions*: two workers, two
  triggers, prefetch 1, and one other task that competes for the slot.

Deadlock is checked in `worker_calm`, `worker_faults` and `worker_live`. In the
others the clock, the unit of work or the part ends, and the model with it.
Symmetry is used over tasks, beat workers and uuids, in safety runs only.

## Fairness

- Worker: weak fairness of each task (the event loop runs what is ready and
  handlers return), of each delivery the prefetch window admits, of the beat's
  claim and dispatch, of the health monitor, of the drain, and of the
  supervisor that starts the process again. No fairness of faults.
- Delayed messages: weak fairness of time and of each beat worker.
- Beat: the same, and strong fairness of taking the lock. A worker polls for it
  every 50 ms while others hold it for moments, so it is not passed over
  forever.
- Unit of work: weak fairness of each step, and strong fairness of the steps
  that need the broker, because connecting is retried until it succeeds and the
  broker returns again and again.
- WebSockets: weak fairness of send tasks, consumers and endpoints (the event
  loop), and strong fairness of subscribing, since a consumer that fails is
  started again and Redis is reachable again and again. Nobody is bound to
  publish or to leave.
- HTTP request: weak fairness of the server's own steps. The endpoint and its
  query need never end by themselves, and clients need never leave.
- RPC calls, retry loop, start and end of an application, `dlq` commands,
  set-up of consumers: weak fairness of the loop, a coroutine that is always
  resumed. A deployment may stop at any call.
- Scheduled actions: weak fairness of the beat's start and of each worker, and
  strong fairness of starting an action: the semaphore serves the longest
  waiting task, so others do not take the slot forever.
- None for the reload mode and the paging, of which only safety is checked.


## Proofs

`tlapm <module>` checks them. Nothing is assumed but the `ASSUME`s on the
constants, which TLC evaluates in every run, and the hypotheses named below.
Every safety property of the runs has a theorem, but for one type invariant.

| Module | About | Theorems |
|---|---|---|
| `MessageBusWorkerProofs` | `MessageBusWorker` | `TypeCorrect`, `MessagesSurvive`, `BudgetKept`, `SlotsBounded`, `StopsDrained`, `SettlementsFinal`, `BudgetsSpent`, `DeliveriesHeld`, `OneAtATime` |
| `BeatSchedulerProofs` | `BeatScheduler`, `ScheduledActions` | `BeatsExcludeEachOther`, `OccurrencesNotSkipped`, `LocksReleasedByHolder`, `ActionsDoNotOverlap` |
| `UnitOfWorkProofs` | `UnitOfWork`, `Outbox` | `UowTypeCorrect`, `CommitsFirst`, `FailureLeavesNothing`, `EndsComplete`, `UnitIsOutbox` |
| `WebSocketHubProofs` | `WebSocketHub` | `HubTypesKept`, `PermitsKept`, `MessagesDelivered`, `RegistryKept` |
| `DeliveryProofs` | `DelayedMessages`, `ConsumerSetup`, `BrokerTopology`, `DeadLetterTools` | `MessagesInOnePlace`, `ChannelsSafe`, `LettersAreHandedOn`, `DeploymentsComplete` |
| `ApplicationProofs` | `RpcClient`, `HttpRequest`, `RetryBackoff`, `ReloadWatcher` | `AnsweredRightly`, `RetriesWithinGrant`, `AnswersTell`, `RequestsLeaveNothing`, `RetryKeepsPolicy`, `ReloadsInTurn` |
| `AppStartupProofs` | `AppStartup` | `ApplicationsWired` |
| `PagedQueryProofs` | `PagedQuery` | `PagesComplete`, `OppositesPart` |

Theorems with hypotheses, each of which the constants of some run satisfy:

- `BudgetsSpent`: the handler is retried on exceptions and rejects nothing itself;
  otherwise it may dead-letter a message before its retries are used up.
- `DeliveriesHeld`: no process dies, no handler times out and no interceptor fails;
  those are the ways in which a delivery loses its task.
- `OneAtATime`: no channel, connection or process is lost under a task, no
  handler times out, the beat worker does not fail, no reply to a stored retry
  is lost, and no handler raises while it cleans up after `retry()`. Each of
  these makes the broker deliver again what a handler may still be working on.
- `DeploymentsComplete`: there is a deployment.
- `RetriesWithinGrant`: 2^n is a positive natural number and 2^(n+1) = 2 * 2^n for
  every n, which the provers do not know (`Doubling`).
- The assumptions on tables (`TableAssumption`) say that no two rows were created
  at the same time, and `nowutc` is later with every row, as the clock's microseconds
  make it but for coincidence; rows that tie may change places between two pages.

The arguments:

- *Worker.* `NoMessageLost` is not inductive: acknowledging an original is
  harmless only because its retry copy exists and has not itself been
  superseded without a successor. `LineageSurvives` says that behind every copy
  there is one with at least as many attempts that is not superseded, and
  `SuccessorScheduled` that a delivery about to be acknowledged has a copy with
  one more. `SlotBound` needs that permits and busy tasks add up
  (`SlotsAccounted`); `SettlementOwned` needs that only tasks hold deliveries
  (`TasksHoldCopies`); `DrainedBeforeStop` needs that no task starts after the
  snapshot (`SnapshotComplete`). Relative to these, `HeldInv` says that
  `handle_message` is not left before the delivery is settled, and `AloneInv`
  that of two active copies of a message one is about to be acknowledged
  (`TwoActive`) and that none is active beside the one a handler works on
  (`EngagedAlone`).
- *Delayed messages.* `OneHolder` and `SentOnce` need each other, and both need
  that a new number is larger than any in use (`NumbersInOrder`) and that a
  worker holds messages only while it dispatches (`HoldsWhileDispatching`).
- *Beat.* `LockExclusive` follows from an inequality of times: inside the
  section `clock <= mark < lock.until` (`SectionInTime`). `NeverSkips` follows
  from cycles that start in the past and publish before they record. That actions
  do not overlap rests on `_current_task` being the newest of a worker's tasks
  (`OVInv`).
- *Unit of work.* Three inductive invariants. `UInv` shows that the publisher
  flushes in one visit, so that no more is published than was staged. `CInv`
  ties the transaction to the position in the stack (`TxByPosition`): active
  from the session's interceptor inwards, and, while there is no exception,
  committed once it is exited. An interceptor declared before the session's is
  exited after it, so it finds the transaction committed. `FailureStays` says
  that an exception of the handler stays with the interceptors. `EInv` adds that
  the interceptors already exited have sent all of theirs (`FlushedBehind`), and
  `OInv` that a unit of work that is over with its transaction open failed to enter
  an interceptor.
  From these every step is a step or a stutter of `Outbox` (`UnitIsOutbox`).
- *WebSockets.* Permits are counted by the sets of tasks and consumers that
  have one, so `HInv` says that a message is in one place (`OnePlace`: in the
  channel, with a consumer, or with a task) and, for every message and
  socket, what the task has still to do with it (`Deliveries`: a socket that
  received the message is not among the targets left, and one that was in the
  snapshot is a target left, reached or dropped). The registry is proved
  apart: `RegistryAgrees` needs that an endpoint leaves only after its
  connection closed (`LeavesGone`) and that tasks drop only closed ones
  (`DroppedGone`).
- *Dead letters.* `DInv` says that a command has one letter in hand and acknowledges
  it only once it was published, and that the
  calls still to come of a plain deployment delete nothing (`PlainCalls`), which
  is a fact about the sequences `DeclareCalls` builds (`CallsHarmless`).
- *Declarations.* `Pledged`: whatever exchange, queue or binding is not as it should
  be, some deployment has still the call to make that sees to it, or has failed or
  given up. What one deployment deletes under another's feet it declares and binds
  again itself.
- *Consumers.* `SInv` adds to `ChannelsKept` the types and that no task has begun
  before the worker consumes (`NotBegun`).
- *RPC.* `CallsInv` follows a call from its first request: how many attempts it has
  made at each place (`AttemptsAt`), whose response it has (`ReplyAt`), and that the
  cache keeps under a key only responses to requests of that key (`CacheByKey`).
- *HTTP request.* `HInv` has where an exception may be on its way (`ExcByPlace`),
  that a response that has started shields the request from its own watcher
  (`Shielded`), and that nothing takes a client for gone that is not (`TrulyGone`).
- *Retry.* `RInv` bounds the delay before and after the jitter: growing is capped
  (`GrownBounded`), and the jitter adds at most a quarter (`JitterBounded`).
- *Reload.* `WatchInv` ties the process that runs to the thread that stops and starts
  it: between its join and its start there is none.
- *Start-up.* What was built was required by a step that is over or by the one under
  way (`BuiltOnDemand`). If everything is listed before what needs it, what a
  constructor asks for is therefore registered or not built yet (`BuiltOnce`).
  `StackOK` says that nothing waits for itself, so that a cycle ends in an error.
- *Paging.* In an ordered listing a row has a rank, the number of rows before it, and
  the row of rank k is the (k + 1)st (`ListingRanks`). A page is a range of ranks. A
  write moves the rank of another row by one at the most, up only if a row was put in
  and down only if one was taken out (`RankMoves`). `WalkInv` counts, at every moment,
  the rows that lie before the next page and were not got (`Passed`) and those that
  were got twice, or got and lie behind (`Repeated`): the first are at most as
  many as were removed, the second as were inserted. Fetching a page changes neither,
  and turning it only moves its rows from the page to those seen. On the last page no
  row lies behind, since the total, however it was counted, was that of the table.
- *Filters.* A case for each operator that has an opposite: both belong to the same
  types of column (`OppositeKinds`), comparisons with them never agree
  (`ComparisonsSplit`), and a comparison that is applied has a value
  (`AppliedHasValue`).

The provers do no induction over data. Where a proof needs one, it takes the least
counterexample instead, which exists because `<` is well-founded on the natural
numbers (`LeastNatural`): the first sort key in which two rows differ
(`PrecedesTotal`), the first model a query is refused for (`SortKeys`) and the
latest creation time of a table (`GreatestNatural`) are got that way.

Only model-checked: all liveness properties (`WorkGoesOn`, `EventuallyLeaves`,
`DispatchGoesOn`, `DeliveryGoesOn`, `HubWindsDown`, `PartsEnd`, `OperationsEnd` and
the fairness of `FinishesAsOutbox`), since fairness and `ENABLED` are out of the
prover's reach; and `OperationTypeOK`, the types of the four parts of
`MCOperations` together, of which the proofs have the parts they need
(`SetupTypeOK`, `BrokerTypes`, `DeclareTypes`, `OVInv`).

## Not modelled

- *Observability* (`observability/`): spans, metrics and log records around
  calls. They change no state a property could be about.
- *TypeScript generator* (`tools/typescript/`): text out of types, without
  state. A model of it would be the generator over again.
- *Reflection, decorators, configuration* (`reflect/`, `di.py`,
  `tools/app_config/`): run while modules are imported, in a fixed order.
- *Global scheduler helper and argument parsing*: calls passed on.
- *Unit of work*: sessions opened by hand and the transaction helpers on them.
- *Server*: routing, parameter binding, middlewares, `get_ws_router` and the
  helpers nothing in the package calls (`shutdown_race`,
  `MessageProcessingLocker`).
- *Worker and beat*: lengths of retry delays (`compute_retry_delay`), pools of
  connections and channels (a pooled object is replaced when it is closed, which
  is what the models' connections do), metrics.
- *RPC*: building URLs, headers and bodies, and parsing responses.
- *Paging*: joins, `unique`, base statements, interceptors of a query, and the
  reads of a single row.
