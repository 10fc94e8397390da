--------------------------- MODULE ConsumerSetup ----------------------------
(***************************************************************************)
(* How the message bus worker comes up and goes down                       *)
(* (src/jararaca/messagebus/worker.py): MessageBusWorker.start_async, the  *)
(* connection and the check of the infrastructure in consume(), one set-up *)
(* task per queue with its retries, the channels the tasks share and the   *)
(* lock they open them under.  The queues a worker finds are those that    *)
(* `jararaca declare' has made by then and has not deleted again, as       *)
(* `declare --force' does with one it can not declare.                     *)
(***************************************************************************)
EXTENDS Integers, FiniteSets

CONSTANTS
  Work,          \* the queues of the handlers the worker was started with
  Scheduled,     \* the ones of scheduled actions
  Chan,          \* the channel ids
  ChanOf,        \* the channel id of each queue's consumer
  Missing,       \* the queues that are not declared yet, or may be deleted
  ConnRetries,   \* connection_retry_config.max_retries
  SetupRetries   \* consumer_retry_policy.max_retries

ASSUME SetupAssumption ==
  /\ Scheduled \subseteq Work
  /\ ChanOf \in [Work -> Chan]
  /\ Missing \subseteq Work
  /\ ConnRetries \in Nat /\ SetupRetries \in Nat
  /\ "free" \notin Work

VARIABLES
  life,      \* "starting", "connecting", "verifying", "checking", "running", "ended", "crashed"
  tries,     \* the retries so far to connect, then to check the infrastructure
  link,      \* the connection to the broker is up
  infra,     \* the exchanges and the dead letter queue exist
  there,     \* the queues that exist
  chan,      \* the state of each channel: "none", "open", "closed"
  lock,      \* who holds retrieve_channel_lock, "free" if nobody
  opened,    \* the retries of the holder to open its channel
  setup,     \* where the set-up task of each queue is
  attempts,  \* the retries of each task
  attached,  \* the queues with a live consumer
  severed,   \* the queues whose consumer the broker has ended on a connection that is up:
             \* it closed the channel, or the queue was deleted
  shutdown   \* shutdown_event

setupVars == <<life, tries, link, infra, there, chan, lock, opened, setup, attempts,
               attached, severed, shutdown>>

SetupTypeOK ==
  /\ life \in {"starting", "connecting", "verifying", "checking", "running", "ended", "crashed"}
  /\ tries \in 0..ConnRetries
  /\ link \in BOOLEAN /\ infra \in BOOLEAN
  /\ there \subseteq Work
  /\ chan \in [Chan -> {"none", "open", "closed"}]
  /\ lock \in Work \cup {"free"}
  /\ opened \in 0..SetupRetries
  /\ setup \in [Work -> {"none", "waiting", "opening", "lookup", "subscribe", "consuming",
                         "backoff", "true", "false"}]
  /\ attempts \in [Work -> 0..SetupRetries]
  /\ attached \subseteq Work /\ severed \subseteq Work
  /\ shutdown \in BOOLEAN

SetupInit ==
  /\ life = "starting"
  /\ tries = 0
  /\ link = FALSE
  /\ infra \in BOOLEAN
  /\ \E late \in SUBSET Missing : there = Work \ late
  /\ chan = [c \in Chan |-> "none"]
  /\ lock = "free"
  /\ opened = 0
  /\ setup = [q \in Work |-> "none"]
  /\ attempts = [q \in Work |-> 0]
  /\ attached = {} /\ severed = {}
  /\ shutdown = FALSE

queueVars == <<chan, lock, opened, setup, attempts, attached, severed>>
worldVars == <<infra, there>>

-----------------------------------------------------------------------------
\* start_async: the lifecycle has started the application, the consumer is created.
CreateConsumer ==
  /\ life = "starting"
  /\ life' = "connecting"
  /\ UNCHANGED <<tries, link, shutdown, worldVars, queueVars>>

\* create_message_bus_consumer: the URL's scheme, its exchange and its prefetch counts are
\* checked; a retry policy that is no number is passed over.  start_sync exits with 1.
CreateFails ==
  /\ life = "starting"
  /\ life' = "crashed"
  /\ UNCHANGED <<tries, link, shutdown, worldVars, queueVars>>

\* connect().
Connect ==
  /\ life = "connecting"
  /\ link' = TRUE
  /\ life' = "verifying"
  /\ tries' = 0
  /\ UNCHANGED <<shutdown, worldVars, queueVars>>

\* A failed attempt; after the last one consume() raises and the process exits with 1.
TryAgain(from) ==
  IF tries < ConnRetries
    THEN tries' = tries + 1 /\ life' = from
    ELSE life' = "crashed" /\ UNCHANGED tries

ConnectFails ==
  /\ life = "connecting"
  /\ TryAgain("connecting")
  /\ UNCHANGED <<link, shutdown, worldVars, queueVars>>

\* _verify_infrastructure takes the connection it finds, or connects again.
TakeConnection ==
  /\ life = "verifying"
  /\ life' = "checking"
  /\ link' = TRUE
  /\ UNCHANGED <<tries, shutdown, worldVars, queueVars>>

\* A missing exchange, or a connection lost, is no exception to the retry loop around
\* _verify_infrastructure but the answer False, which is not retried.
Verify ==
  /\ life = "checking" \/ (life = "verifying" /\ ~link)
  /\ IF infra /\ link
       THEN /\ life' = "running"
            /\ setup' = [q \in Work |-> "waiting"]
            /\ UNCHANGED shutdown
       ELSE /\ life' = "ended"
            /\ shutdown' = TRUE
            /\ UNCHANGED setup
  /\ tries' = 0
  /\ UNCHANGED <<link, worldVars, chan, lock, opened, attempts, attached, severed>>

\* An exception that is not the broker's (a time-out, a name not resolved) leaves
\* _verify_infrastructure, and is retried.
VerifyRaises ==
  /\ life \in {"verifying", "checking"}
  /\ TryAgain("verifying")
  /\ UNCHANGED <<link, shutdown, worldVars, queueVars>>

-----------------------------------------------------------------------------
\* Mutation of Retry: one retry more than max_retries.
RetryOnceMore(q) ==
  IF attempts[q] <= SetupRetries
    THEN /\ setup' = [setup EXCEPT ![q] = "backoff"]
         /\ attempts' = [attempts EXCEPT ![q] = @ + 1]
    ELSE setup' = [setup EXCEPT ![q] = "false"] /\ UNCHANGED attempts

\* A retryable exception in the set-up task of q.
Retry(q) ==
  IF attempts[q] < SetupRetries
    THEN /\ setup' = [setup EXCEPT ![q] = "backoff"]
         /\ attempts' = [attempts EXCEPT ![q] = @ + 1]
    ELSE setup' = [setup EXCEPT ![q] = "false"] /\ UNCHANGED attempts

GiveUp(q) == setup' = [setup EXCEPT ![q] = "false"] /\ UNCHANGED attempts

\* retrieve_channel: the lock, and a channel that is open already.
TakeLock(q) ==
  /\ setup[q] = "waiting"
  /\ lock = "free"
  /\ IF chan[ChanOf[q]] = "open"
       THEN setup' = [setup EXCEPT ![q] = "lookup"] /\ UNCHANGED lock
       ELSE setup' = [setup EXCEPT ![q] = "opening"] /\ lock' = q
  /\ UNCHANGED <<life, tries, link, worldVars, chan, opened, attempts, attached, severed, shutdown>>

\* _establish_channel.  A connection that is down is a RuntimeError, which neither of
\* the two retry loops is for.
OpenChan(q) ==
  /\ setup[q] = "opening"
  /\ lock' = "free"
  /\ opened' = 0
  /\ IF link
       THEN /\ chan' = [chan EXCEPT ![ChanOf[q]] = "open"]
            /\ setup' = [setup EXCEPT ![q] = "lookup"]
            /\ UNCHANGED attempts
       ELSE GiveUp(q) /\ UNCHANGED chan
  /\ UNCHANGED <<life, tries, link, worldVars, attached, severed, shutdown>>

\* Mutation of OpenChanFails: the lock is kept when the retries are used up.
OpenChanFailsLeaks(q) ==
  /\ setup[q] = "opening" /\ link
  /\ IF opened < SetupRetries
       THEN opened' = opened + 1 /\ UNCHANGED <<lock, setup, attempts>>
       ELSE opened' = 0 /\ Retry(q) /\ UNCHANGED lock
  /\ UNCHANGED <<life, tries, link, worldVars, chan, attached, severed, shutdown>>

\* The broker refuses the channel: the inner loop retries with the lock held, and then
\* hands the exception to the outer one.
OpenChanFails(q) ==
  /\ setup[q] = "opening" /\ link
  /\ IF opened < SetupRetries
       THEN opened' = opened + 1 /\ UNCHANGED <<lock, setup, attempts>>
       ELSE opened' = 0 /\ lock' = "free" /\ Retry(q)
  /\ UNCHANGED <<life, tries, link, worldVars, chan, attached, severed, shutdown>>

\* The consumers that are left when channel c is closed.
Without(c) == {w \in attached : ChanOf[w] # c}

\* The broker closes the channel on a queue that does not exist, and every consumer on
\* that channel ends with it; they are not told.
NotFound(q) ==
  /\ Retry(q)
  /\ chan' = [chan EXCEPT ![ChanOf[q]] = "closed"]
  /\ attached' = Without(ChanOf[q])

\* Mutation of Lookup: all consumers end with the channel.
LookupAll(q) ==
  /\ setup[q] = "lookup"
  /\ chan[ChanOf[q]] = "open"
  /\ IF q \in there
       THEN setup' = [setup EXCEPT ![q] = "subscribe"] /\ UNCHANGED <<attempts, chan, attached>>
       ELSE Retry(q) /\ chan' = [chan EXCEPT ![ChanOf[q]] = "closed"] /\ attached' = {}
  /\ UNCHANGED <<life, tries, link, worldVars, lock, opened, severed, shutdown>>

\* get_queue.
Lookup(q) ==
  /\ setup[q] = "lookup"
  /\ chan[ChanOf[q]] = "open"
  /\ IF q \in there
       THEN setup' = [setup EXCEPT ![q] = "subscribe"] /\ UNCHANGED <<attempts, chan, attached>>
       ELSE NotFound(q)
  /\ UNCHANGED <<life, tries, link, worldVars, lock, opened, severed, shutdown>>

\* queue.consume; the queue may have been deleted since get_queue found it.
Subscribe(q) ==
  /\ setup[q] = "subscribe"
  /\ chan[ChanOf[q]] = "open"
  /\ IF q \in there
       THEN /\ setup' = [setup EXCEPT ![q] = "consuming"]
            /\ attached' = attached \cup {q}
            /\ UNCHANGED <<chan, attempts>>
       ELSE NotFound(q)
  /\ UNCHANGED <<life, tries, link, worldVars, lock, opened, severed, shutdown>>

\* The channel was closed since: an error that is retried or not, as the library has it.
ChanGone(q) ==
  /\ setup[q] \in {"lookup", "subscribe"}
  /\ chan[ChanOf[q]] # "open"
  /\ Retry(q) \/ GiveUp(q)
  /\ UNCHANGED <<life, tries, link, worldVars, chan, lock, opened, attached, severed, shutdown>>

BackoffOver(q) ==
  /\ setup[q] = "backoff"
  /\ setup' = [setup EXCEPT ![q] = "waiting"]
  /\ UNCHANGED <<life, tries, link, worldVars, chan, lock, opened, attempts, attached, severed, shutdown>>

\* queue.cancel on shutdown.  The task of a message handler ends whatever happens, the
\* one of a scheduled action lets other errors than a closed channel reach the retry
\* loop.
CancelConsumer(q) ==
  /\ setup[q] = "consuming" /\ shutdown
  /\ attached' = attached \ {q}
  /\ severed' = severed \ {q}
  /\ \/ setup' = [setup EXCEPT ![q] = "true"] /\ UNCHANGED attempts
     \/ q \in Scheduled /\ Retry(q)
  /\ UNCHANGED <<life, tries, link, worldVars, chan, lock, opened, shutdown>>

SetupGoesOn(q) ==
  /\ life = "running"
  /\ \/ TakeLock(q) \/ OpenChan(q) \/ OpenChanFails(q) \/ Lookup(q) \/ Subscribe(q)
     \/ ChanGone(q) \/ BackoffOver(q)

SetupTask(q) == SetupGoesOn(q) \/ (life = "running" /\ CancelConsumer(q))

-----------------------------------------------------------------------------
\* The process and its connection are there.
Alive == life \notin {"ended", "crashed"}

\* The connection is lost; it is not a robust one.
LoseLink ==
  /\ Alive /\ link
  /\ link' = FALSE
  /\ chan' = [c \in Chan |-> IF chan[c] = "open" THEN "closed" ELSE chan[c]]
  /\ attached' = {} /\ severed' = {}
  /\ UNCHANGED <<life, tries, worldVars, lock, opened, setup, attempts, shutdown>>

\* The broker closes a channel by itself, after a settlement it does not know or a delivery
\* unsettled for too long.  Only a set-up task that retrieves the channel notices.
ChannelCloses(c) ==
  /\ Alive /\ link /\ chan[c] = "open"
  /\ chan' = [chan EXCEPT ![c] = "closed"]
  /\ severed' = severed \cup (attached \ Without(c))
  /\ attached' = Without(c)
  /\ UNCHANGED <<life, tries, link, worldVars, lock, opened, setup, attempts, shutdown>>

\* _monitor_connection_health.
HealthCheck ==
  /\ life \in {"verifying", "checking", "running"}
  /\ ~link /\ ~shutdown
  /\ shutdown' = TRUE
  /\ UNCHANGED <<life, tries, link, worldVars, queueVars>>

\* SIGTERM.  Before there is a consumer, _graceful_shutdown raises in its own task and
\* the signal is forgotten.
Signal ==
  /\ Alive /\ life # "starting"
  /\ ~shutdown
  /\ shutdown' = TRUE
  /\ UNCHANGED <<life, tries, link, worldVars, queueVars>>

\* consume() returns; the channels go with the connection, the set-up tasks with the
\* event loop.
Leave ==
  /\ life = "running" /\ shutdown
  /\ life' = "ended"
  /\ link' = FALSE
  /\ chan' = [c \in Chan |-> "none"]
  /\ lock' = "free"
  /\ opened' = 0
  /\ setup' = [q \in Work |-> "none"]
  /\ attempts' = [q \in Work |-> 0]
  /\ attached' = {} /\ severed' = {}
  /\ UNCHANGED <<tries, worldVars, shutdown>>

\* `jararaca declare' is run.
Declared ==
  /\ Alive
  /\ ~(infra /\ there = Work)
  /\ infra' = TRUE
  /\ there' = Work
  /\ UNCHANGED <<life, tries, link, queueVars, shutdown>>

\* `jararaca declare --force' deletes a queue, and with it its consumer, before it declares
\* it again.
QueueDeleted(q) ==
  /\ Alive
  /\ q \in Missing \cap there
  /\ there' = there \ {q}
  /\ severed' = severed \cup (attached \cap {q})
  /\ attached' = attached \ {q}
  /\ UNCHANGED <<life, tries, link, infra, chan, lock, opened, setup, attempts, shutdown>>

\* It deletes an exchange or the dead letter queue in the same way; nothing reads them
\* once the set-up tasks run.
InfraDeleted ==
  /\ life \in {"starting", "connecting", "verifying", "checking"}
  /\ infra
  /\ infra' = FALSE
  /\ UNCHANGED <<life, tries, link, there, queueVars, shutdown>>

StartStep ==
  CreateConsumer \/ CreateFails \/ Connect \/ ConnectFails \/ TakeConnection \/ Verify
    \/ VerifyRaises

BrokerStep ==
  \/ LoseLink \/ Declared \/ InfraDeleted
  \/ \E c \in Chan : ChannelCloses(c)
  \/ \E q \in Work : QueueDeleted(q)

SetupNext ==
  \/ StartStep \/ HealthCheck \/ Signal \/ Leave \/ BrokerStep
  \/ \E q \in Work : SetupTask(q)

SetupSpec == SetupInit /\ [][SetupNext]_setupVars

\* Attempts end one way or the other, sleeps end, a lock that is free is taken, the
\* monitor wakes up, and consume() goes on when its event is set; all of this happens a
\* finite number of times.
WorkerGoesUpAndDown == StartStep \/ HealthCheck \/ Leave \/ \E q \in Work : SetupGoesOn(q)

SetupFairness == WF_setupVars(WorkerGoesUpAndDown)

-----------------------------------------------------------------------------
\* A queue whose set-up has subscribed is being consumed for as long as the connection is
\* up and the worker runs, unless the broker closed its channel or the queue was deleted,
\* or it shares its channel with a queue whose set-up failed: no failure in the set-up of
\* another channel's queue reaches it.
ConsumedWhileUp ==
  \A q \in Work :
    (setup[q] = "consuming" /\ life = "running" /\ link) =>
      \/ q \in attached \cup severed
      \/ \E w \in Work \ {q} : ChanOf[w] = ChanOf[q] /\ (attempts[w] > 0 \/ setup[w] = "false")

\* Only the task that is opening a channel holds the lock, and it holds it.
LockIsHeld == \A q \in Work : setup[q] = "opening" <=> lock = q

\* The set-up tasks that share the worker's channels do not harm each other.
ChannelsKept == ConsumedWhileUp /\ LockIsHeld

\* All set-ups come to a consumer or to giving up, or the worker stops: a task that
\* waits for the lock gets it, although the holder retries with the lock held.
SetupSettles ==
  life = "running" ~> \/ \A q \in Work : setup[q] \in {"consuming", "true", "false"}
                      \/ life = "ended"

\* A worker that has been told to stop, or has lost its connection, stops; so does one
\* that can not connect.
WorkerStops ==
  (shutdown \/ (life = "running" /\ ~link)) ~> life \in {"ended", "crashed"}
=============================================================================
