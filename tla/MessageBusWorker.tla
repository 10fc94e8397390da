-------------------------- MODULE MessageBusWorker --------------------------
(***************************************************************************)
(* One message-bus worker process consuming the handler queues of one      *)
(* channel: src/jararaca/messagebus/worker.py.                             *)
(*                                                                         *)
(* A published message travels as copies.  Every copy lives in one place:  *)
(* a handler queue, unacknowledged on the worker's channel, the delayed   *)
(* store of the broker backend, the memory of the beat worker, the         *)
(* dead-letter queue, or it is finished.  schedule_retry creates a new     *)
(* copy with a higher x-retry-count; everything else moves a copy.         *)
(*                                                                         *)
(* An asyncio task runs one delivery of one copy.  A step of a task ends   *)
(* where the code awaits, so tasks interleave exactly at their awaits.     *)
(***************************************************************************)
EXTENDS Integers, FiniteSets

CONSTANTS
  Message,          \* the messages published to the queues of the channel
  Queue,            \* the queues of the handlers that share the channel
  QueueOf,          \* the queue a message is routed to
  Task,             \* the asyncio tasks that can exist at once (a bound)
  MaxCopies,        \* how many copies of messages a behaviour creates (a bound)
  MaxRetries,       \* max_retries of the retry policy in force
  Reserve,          \* copies left for retries under way when a link closes (a bound)
  Prefetch,         \* prefetch count of the channel, 0 is unlimited
  NackOnException,  \* nack_on_exception of the handler
  HandlerOps,       \* what the handler may do
  Faults            \* what the environment may do

\* No copy and no message.
Nil == 0

ASSUME WorkerAssumption ==
  /\ Nil \notin Message
  /\ IsFiniteSet(Task)
  /\ QueueOf \in [Message -> Queue]
  /\ MaxCopies \in Nat
  /\ MaxRetries \in Nat
  /\ Reserve \in Nat
  /\ Prefetch \in Nat
  /\ NackOnException \in BOOLEAN
  /\ HandlerOps \subseteq {"raise", "invalid", "ack", "nack", "reject", "retry",
                           "strayRetry", "cleanup"}
  /\ Faults \subseteq {"channel", "connection", "crash", "shutdown", "timeout",
                       "uow", "backend", "reply", "beat"}

VARIABLES
  place,        \* where each copy is
  origin,       \* the message a copy is a copy of
  retries,      \* the x-retry-count header of a copy
  nextCopy,     \* the copies below nextCopy have been created
  pc,           \* what each task awaits
  delivery,     \* the copy whose delivery a task handles
  live,         \* the channel of the task's delivery is still open
  processed,    \* aio_pika has settled the task's delivery
  disposition,  \* AioPikaMessageBusController.disposition
  via,          \* who called schedule_retry: the worker or the handler
  slots,        \* free permits of the channel's processing_slots semaphore
  link,         \* the consumer's channel and connection
  phase,        \* progress of MessageBusWorker.start_async
  pending,      \* pending_tasks of wait_all_tasks_done
  committed     \* history: the unit of work of a delivery of the copy committed

copyVars   == <<place, origin, retries, nextCopy>>
taskVars   == <<pc, delivery, live, processed, disposition, via>>
workerVars == <<slots, link, phase, pending>>
vars       == <<copyVars, taskVars, workerVars, committed>>

Copy == 1..MaxCopies

Place == {"free", "queue", "unacked", "delayed", "claimed", "dlq", "done",
          "superseded", "lost"}

\* Places from which a copy can still reach the handler.
Active == {"queue", "unacked", "delayed", "claimed"}

\* The awaits of handle_message that asyncio.timeout covers.
InsideTimeout == {"running", "rejecting", "scheduling", "confirming", "unwinding",
                  "leaving"}

\* Everything a task awaits while it holds a processing slot.
Processing == InsideTimeout \cup {"entering", "exiting", "aborting"}

TypeOK ==
  /\ place \in [Copy -> Place]
  /\ origin \in [Copy -> Message \cup {Nil}]
  /\ retries \in [Copy -> Nat]
  /\ nextCopy \in 1..(MaxCopies + 1)
  /\ pc \in [Task -> {"idle", "waiting"} \cup Processing]
  /\ delivery \in [Task -> Copy \cup {Nil}]
  /\ live \in [Task -> BOOLEAN]
  /\ processed \in [Task -> BOOLEAN]
  /\ disposition \in [Task -> {"none", "ack", "nack", "reject", "retry"}]
  /\ via \in [Task -> {"none", "worker", "handler"}]
  /\ slots \in 0..Prefetch
  /\ link \in {"open", "channelClosed", "connectionClosed"}
  /\ phase \in {"up", "closing", "draining", "stopped"}
  /\ pending \subseteq Task
  /\ committed \in [Copy -> BOOLEAN]

Init ==
  /\ place = [c \in Copy |-> "free"]
  /\ origin = [c \in Copy |-> Nil]
  /\ retries = [c \in Copy |-> 0]
  /\ nextCopy = 1
  /\ pc = [t \in Task |-> "idle"]
  /\ delivery = [t \in Task |-> Nil]
  /\ live = [t \in Task |-> FALSE]
  /\ processed = [t \in Task |-> FALSE]
  /\ disposition = [t \in Task |-> "none"]
  /\ via = [t \in Task |-> "none"]
  /\ slots = Prefetch
  /\ link = "open"
  /\ phase = "up"
  /\ pending = {}
  /\ committed = [c \in Copy |-> FALSE]

-----------------------------------------------------------------------------
(* Copies and settlement.                                                  *)

\* A new copy of message m with x-retry-count k appears in place p.
Create(m, k, p) ==
  /\ nextCopy <= MaxCopies
  /\ place' = [place EXCEPT ![nextCopy] = p]
  /\ origin' = [origin EXCEPT ![nextCopy] = m]
  /\ retries' = [retries EXCEPT ![nextCopy] = k]
  /\ nextCopy' = nextCopy + 1

\* aio_pika settles a delivery once, and only over the channel it came from:
\* otherwise ack, nack and reject raise.
CanSettle(t) == live[t] /\ ~processed[t]

\* One attempt of task t to settle its delivery, which moves the copy to place
\* p.  The code logs and swallows the exception of a failed attempt.
Settle(t, p) ==
  /\ place' = IF CanSettle(t) THEN [place EXCEPT ![delivery[t]] = p] ELSE place
  /\ processed' = [processed EXCEPT ![t] = @ \/ CanSettle(t)]
  /\ UNCHANGED <<origin, retries, nextCopy>>

Goto(t, label) == pc' = [pc EXCEPT ![t] = label]

\* The task is over: its delivery is forgotten and its slot is free again.
EndTask(t) ==
  /\ pc' = [pc EXCEPT ![t] = "idle"]
  /\ delivery' = [delivery EXCEPT ![t] = Nil]
  /\ live' = [live EXCEPT ![t] = FALSE]
  /\ processed' = [processed EXCEPT ![t] = FALSE]
  /\ disposition' = [disposition EXCEPT ![t] = "none"]
  /\ via' = [via EXCEPT ![t] = "none"]
  /\ slots' = IF Prefetch = 0 THEN slots ELSE slots + 1

\* The broker takes back every delivery that was not acknowledged.
Redeliver == place' = [c \in Copy |-> IF place[c] = "unacked" THEN "queue" ELSE place[c]]

CopiesOf(m) == {c \in Copy : origin[c] = m}

Unacked == {c \in Copy : place[c] = "unacked"}

Busy == {t \in Task : pc[t] \in Processing}

-----------------------------------------------------------------------------
(* Arrival and admission of a message.                                     *)

\* A publisher's message reaches the queue of its handler.
Publish(m) ==
  /\ CopiesOf(m) = {}
  /\ Create(m, 0, "queue")
  /\ UNCHANGED <<taskVars, workerVars, committed>>

\* Mutation of Deliver: the shutdown event is not looked at.
DeliverDuringShutdown(c, t) ==
  /\ phase # "stopped"
  /\ link = "open"
  /\ place[c] = "queue"
  /\ pc[t] = "idle"
  /\ place' = [place EXCEPT ![c] = "unacked"]
  /\ Goto(t, "waiting")
  /\ delivery' = [delivery EXCEPT ![t] = c]
  /\ live' = [live EXCEPT ![t] = TRUE]
  /\ UNCHANGED <<origin, retries, nextCopy, processed, disposition, via,
                 workerVars, committed>>

\* message_consumer: a delivery within the consumer's prefetch window starts a
\* task.  After the shutdown event the delivery is rejected with requeue=True,
\* which leaves the copy where it was.
Deliver(c, t) ==
  /\ phase = "up"
  /\ link = "open"
  /\ place[c] = "queue"
  /\ Prefetch > 0 =>
       Cardinality({d \in Unacked : QueueOf[origin[d]] = QueueOf[origin[c]]}) < Prefetch
  /\ pc[t] = "idle"
  /\ place' = [place EXCEPT ![c] = "unacked"]
  /\ Goto(t, "waiting")
  /\ delivery' = [delivery EXCEPT ![t] = c]
  /\ live' = [live EXCEPT ![t] = TRUE]
  /\ UNCHANGED <<origin, retries, nextCopy, processed, disposition, via,
                 workerVars, committed>>

\* Mutation of AcquireSlot: the handler starts without taking a permit.
StartWithoutSlot(t) ==
  /\ pc[t] = "waiting"
  /\ Goto(t, "entering")
  /\ UNCHANGED <<copyVars, delivery, live, processed, disposition, via,
                 workerVars, committed>>

\* processing_slot: a permit of the channel's semaphore, if it has one.
AcquireSlot(t) ==
  /\ pc[t] = "waiting"
  /\ Prefetch > 0 => slots > 0
  /\ slots' = IF Prefetch = 0 THEN slots ELSE slots - 1
  /\ Goto(t, "entering")
  /\ UNCHANGED <<copyVars, delivery, live, processed, disposition, via,
                 link, phase, pending, committed>>

\* The interceptors of the unit of work are entered and the handler starts.
EnterUow(t) ==
  /\ pc[t] = "entering"
  /\ Goto(t, "running")
  /\ UNCHANGED <<copyVars, delivery, live, processed, disposition, via,
                 workerVars, committed>>

\* An interceptor raises on entry: the exception leaves handle_message, and
\* nothing settles the delivery.
EnterUowFails(t) ==
  /\ "uow" \in Faults
  /\ pc[t] = "entering"
  /\ EndTask(t)
  /\ UNCHANGED <<copyVars, link, phase, pending, committed>>

-----------------------------------------------------------------------------
(* What the handler does, and what handle_message makes of it.             *)

\* The handler returns: the delivery is acknowledged unless the handler already
\* disposed of it.
HandlerReturns(t) ==
  /\ pc[t] = "running"
  /\ IF disposition[t] = "none"
       THEN Settle(t, "done")
       ELSE UNCHANGED <<copyVars, processed>>
  /\ Goto(t, "leaving")
  /\ UNCHANGED <<delivery, live, disposition, via, workerVars, committed>>

\* except Exception: the retry path whatever the disposition is, or after the
\* nack delay a rejection.
OnException(t) ==
  /\ Goto(t, IF NackOnException THEN "scheduling" ELSE "rejecting")
  /\ via' = [via EXCEPT ![t] = "worker"]
  /\ UNCHANGED <<copyVars, delivery, live, processed, disposition, workerVars, committed>>

\* The handler raises an exception.
HandlerRaises(t) ==
  /\ "raise" \in HandlerOps
  /\ pc[t] = "running"
  /\ OnException(t)

\* except MessagePayloadValidationError: dead-lettered without a retry.
PayloadInvalid(t) ==
  /\ "invalid" \in HandlerOps
  /\ pc[t] = "running"
  /\ IF disposition[t] = "none"
       THEN Settle(t, "dlq")
       ELSE UNCHANGED <<copyVars, processed>>
  /\ Goto(t, "leaving")
  /\ UNCHANGED <<delivery, live, disposition, via, workerVars, committed>>

\* BusMessageController.ack settles the delivery and the handler goes on.  When
\* the delivery cannot be settled, ack, nack and reject raise into the handler,
\* which is HandlerRaises.
HandlerAcks(t) ==
  /\ "ack" \in HandlerOps
  /\ pc[t] = "running"
  /\ CanSettle(t)
  /\ Settle(t, "done")
  /\ disposition' = [disposition EXCEPT ![t] = "ack"]
  /\ UNCHANGED <<pc, delivery, live, via, workerVars, committed>>

\* Mutation of HandlerDisposes: nack and reject return to the handler.
HandlerGoesOn(t, op) ==
  /\ op \in {"nack", "reject"} \cap HandlerOps
  /\ pc[t] = "running"
  /\ CanSettle(t)
  /\ Settle(t, IF op = "nack" THEN "queue" ELSE "dlq")
  /\ disposition' = [disposition EXCEPT ![t] = op]
  /\ UNCHANGED <<pc, delivery, live, via, workerVars, committed>>

\* BusMessageController.nack and reject settle the delivery and raise
\* MessageDisposed through the handler.
HandlerDisposes(t, op) ==
  /\ op \in {"nack", "reject"} \cap HandlerOps
  /\ pc[t] = "running"
  /\ CanSettle(t)
  /\ Settle(t, IF op = "nack" THEN "queue" ELSE "dlq")
  /\ disposition' = [disposition EXCEPT ![t] = op]
  /\ Goto(t, "unwinding")
  /\ UNCHANGED <<delivery, live, via, workerVars, committed>>

\* BusMessageController.retry and retry_later go through schedule_retry.
HandlerRetries(t) ==
  /\ "retry" \in HandlerOps
  /\ pc[t] = "running"
  /\ Goto(t, "scheduling")
  /\ via' = [via EXCEPT ![t] = "handler"]
  /\ UNCHANGED <<copyVars, delivery, live, processed, disposition, workerVars, committed>>

\* retry where no frame of the callback is on the stack: the delivery is
\* requeued instead.  Only MessageProcessError is suppressed.
HandlerRetriesAstray(t) ==
  /\ "strayRetry" \in HandlerOps
  /\ pc[t] = "running"
  /\ live[t]
  /\ Settle(t, "queue")
  /\ disposition' = [disposition EXCEPT ![t] = "retry"]
  /\ Goto(t, "unwinding")
  /\ UNCHANGED <<delivery, live, via, workerVars, committed>>

\* MessageDisposed leaves the handler: nothing more is done to the delivery.
Unwind(t) ==
  /\ pc[t] = "unwinding"
  /\ Goto(t, "leaving")
  /\ UNCHANGED <<copyVars, delivery, live, processed, disposition, via,
                 workerVars, committed>>

\* Cleanup code of the handler raises while MessageDisposed unwinds it.
UnwindRaises(t) ==
  /\ "cleanup" \in HandlerOps
  /\ pc[t] = "unwinding"
  /\ OnException(t)

-----------------------------------------------------------------------------
(* handle_reject_message and schedule_retry.                               *)

\* handle_reject_message without a retry, after the nack delay.
RejectAfterDelay(t) ==
  /\ pc[t] = "rejecting"
  /\ Settle(t, "dlq")
  /\ Goto(t, "leaving")
  /\ UNCHANGED <<delivery, live, disposition, via, workerVars, committed>>

\* schedule_retry returns: to the worker's except clause, or to retry(), which
\* disposes of the message.
ReturnFromSchedule(t) ==
  /\ Goto(t, IF via[t] = "handler" THEN "unwinding" ELSE "leaving")
  /\ disposition' = IF via[t] = "handler" THEN [disposition EXCEPT ![t] = "retry"]
                                          ELSE disposition

\* Mutation of BudgetExhausted: the last retry is not granted.
BudgetOffByOne(t) ==
  /\ pc[t] = "scheduling"
  /\ retries[delivery[t]] >= MaxRetries - 1
  /\ Settle(t, "dlq")
  /\ ReturnFromSchedule(t)
  /\ UNCHANGED <<delivery, live, via, workerVars, committed>>

\* The retry budget is spent: the message is dead-lettered.
BudgetExhausted(t) ==
  /\ pc[t] = "scheduling"
  /\ retries[delivery[t]] >= MaxRetries
  /\ Settle(t, "dlq")
  /\ ReturnFromSchedule(t)
  /\ UNCHANGED <<delivery, live, via, workerVars, committed>>

\* The broker backend stores a copy with one more attempt on its counter.
EnqueueRetry(t) ==
  /\ pc[t] = "scheduling"
  /\ retries[delivery[t]] < MaxRetries
  /\ Create(origin[delivery[t]], retries[delivery[t]] + 1, "delayed")
  /\ Goto(t, "confirming")
  /\ UNCHANGED <<delivery, live, processed, disposition, via, workerVars, committed>>

\* Mutation of EnqueueRetryFails: the delivery is acknowledged all the same.
EnqueueFailureIgnored(t) ==
  /\ "backend" \in Faults
  /\ pc[t] = "scheduling"
  /\ retries[delivery[t]] < MaxRetries
  /\ Settle(t, "superseded")
  /\ ReturnFromSchedule(t)
  /\ UNCHANGED <<delivery, live, via, workerVars, committed>>

\* The broker backend does not store the copy: the delivery is requeued.
EnqueueRetryFails(t) ==
  /\ "backend" \in Faults
  /\ pc[t] = "scheduling"
  /\ retries[delivery[t]] < MaxRetries
  /\ Settle(t, "queue")
  /\ ReturnFromSchedule(t)
  /\ UNCHANGED <<delivery, live, via, workerVars, committed>>

\* The copy is stored and the reply that says so is lost.  To the except clause this is
\* the backend's refusal: the delivery is requeued beside the copy.
EnqueueReplyLost(t) ==
  /\ "reply" \in Faults
  /\ pc[t] = "confirming"
  /\ Settle(t, "queue")
  /\ ReturnFromSchedule(t)
  /\ UNCHANGED <<delivery, live, via, workerVars, committed>>

\* Mutation of AckAfterEnqueue: the delivery is never acknowledged.
ForgetAfterEnqueue(t) ==
  /\ pc[t] = "confirming"
  /\ ReturnFromSchedule(t)
  /\ UNCHANGED <<copyVars, delivery, live, processed, via, workerVars, committed>>

\* The reply arrives, and the delivery is acknowledged as its copy is scheduled.
AckAfterEnqueue(t) ==
  /\ pc[t] = "confirming"
  /\ Settle(t, "superseded")
  /\ ReturnFromSchedule(t)
  /\ UNCHANGED <<delivery, live, via, workerVars, committed>>

-----------------------------------------------------------------------------
(* The end of a delivery.                                                  *)

\* asyncio.timeout cancels the handler, or the settlement that follows it, at an
\* await; no except clause of handle_message catches the cancellation.
Timeout(t) ==
  /\ "timeout" \in Faults
  /\ pc[t] \in InsideTimeout
  /\ Goto(t, "aborting")
  /\ UNCHANGED <<copyVars, delivery, live, processed, disposition, via,
                 workerVars, committed>>

\* handle_message leaves the timeout, with every exception caught.
LeaveHandler(t) ==
  /\ pc[t] = "leaving"
  /\ Goto(t, "exiting")
  /\ UNCHANGED <<copyVars, delivery, live, processed, disposition, via,
                 workerVars, committed>>

\* Mutation of ExitUow: a handler that disposed of its message is rolled back.
ExitUowRollingBack(t) ==
  /\ pc[t] = "exiting"
  /\ committed' = [committed EXCEPT ![delivery[t]] = @ \/ disposition[t] = "none"]
  /\ EndTask(t)
  /\ UNCHANGED <<copyVars, link, phase, pending>>

\* The interceptors are exited without an exception: the transaction commits.
ExitUow(t) ==
  /\ pc[t] = "exiting"
  /\ committed' = [committed EXCEPT ![delivery[t]] = TRUE]
  /\ EndTask(t)
  /\ UNCHANGED <<copyVars, link, phase, pending>>

\* An interceptor raises on exit, for example the commit fails.
ExitUowFails(t) ==
  /\ "uow" \in Faults
  /\ pc[t] = "exiting"
  /\ EndTask(t)
  /\ UNCHANGED <<copyVars, link, phase, pending, committed>>

\* The interceptors are exited with the TimeoutError: the transaction rolls back.
AbortUow(t) ==
  /\ pc[t] = "aborting"
  /\ EndTask(t)
  /\ UNCHANGED <<copyVars, link, phase, pending, committed>>

-----------------------------------------------------------------------------
(* The worker process and its connection.                                  *)

\* Mutation of LinkCloses: old deliveries can be settled over the next channel.
LinkClosesUnnoticed(to) ==
  /\ phase # "stopped"
  /\ link = "open"
  /\ nextCopy + Reserve <= MaxCopies + 1
  /\ \/ to = "channelClosed" /\ "channel" \in Faults
     \/ to = "connectionClosed" /\ "connection" \in Faults
  /\ link' = to
  /\ Redeliver
  /\ UNCHANGED <<origin, retries, nextCopy, taskVars, slots, phase, pending, committed>>

\* The broker closes the channel, or the connection with it.  Nothing consumes
\* the queues again: connections are not robust.
LinkCloses(to) ==
  /\ phase # "stopped"
  /\ link = "open"
  /\ nextCopy + Reserve <= MaxCopies + 1
  /\ \/ to = "channelClosed" /\ "channel" \in Faults
     \/ to = "connectionClosed" /\ "connection" \in Faults
  /\ link' = to
  /\ Redeliver
  /\ live' = [t \in Task |-> FALSE]
  /\ UNCHANGED <<origin, retries, nextCopy, pc, delivery, processed, disposition,
                 via, slots, phase, pending, committed>>

\* SIGTERM, or SIGINT, sets the shutdown event.
Shutdown ==
  /\ "shutdown" \in Faults
  /\ phase = "up"
  /\ phase' = "closing"
  /\ UNCHANGED <<copyVars, taskVars, slots, link, pending, committed>>

\* _monitor_connection_health cannot open a channel and sets the shutdown event.
HealthCheckFails ==
  /\ phase = "up"
  /\ link = "connectionClosed"
  /\ phase' = "closing"
  /\ UNCHANGED <<copyVars, taskVars, slots, link, pending, committed>>

\* consume wakes up and wait_all_tasks_done takes its snapshot of the tasks.
StartDrain ==
  /\ phase = "closing"
  /\ phase' = "draining"
  /\ pending' = {t \in Task : pc[t] # "idle"}
  /\ UNCHANGED <<copyVars, taskVars, slots, link, committed>>

\* The snapshot is done, consume returns and the process exits; the broker sees
\* the connection go.
Stop ==
  /\ phase = "draining"
  /\ \A t \in pending : pc[t] = "idle"
  /\ phase' = "stopped"
  /\ pending' = {}
  /\ link' = "connectionClosed"
  /\ Redeliver
  /\ live' = [t \in Task |-> FALSE]
  /\ UNCHANGED <<origin, retries, nextCopy, pc, delivery, processed, disposition,
                 via, slots, committed>>

\* The process dies with every task in it.
Crash ==
  /\ "crash" \in Faults
  /\ phase # "stopped"
  /\ phase' = "stopped"
  /\ pending' = {}
  /\ link' = "connectionClosed"
  /\ slots' = Prefetch
  /\ Redeliver
  /\ pc' = [t \in Task |-> "idle"]
  /\ delivery' = [t \in Task |-> Nil]
  /\ live' = [t \in Task |-> FALSE]
  /\ processed' = [t \in Task |-> FALSE]
  /\ disposition' = [t \in Task |-> "none"]
  /\ via' = [t \in Task |-> "none"]
  /\ UNCHANGED <<origin, retries, nextCopy, committed>>

\* A supervisor starts the worker again.
Start ==
  /\ phase = "stopped"
  /\ phase' = "up"
  /\ link' = "open"
  /\ UNCHANGED <<copyVars, taskVars, slots, pending, committed>>

-----------------------------------------------------------------------------
(* The beat worker redispatches the delayed copies.                        *)

MoveCopy(c, from, to) ==
  /\ place[c] = from
  /\ place' = [place EXCEPT ![c] = to]
  /\ UNCHANGED <<origin, retries, nextCopy, taskVars, workerVars, committed>>

\* dequeue_next_delayed_messages removes a due copy from the store.
BeatClaims(c) == MoveCopy(c, "delayed", "claimed")

\* dispatch_delayed_message publishes it to its target queue.
BeatDispatches(c) == MoveCopy(c, "claimed", "queue")

\* The dispatch fails and the copy is put back into the store.
BeatPutsBack(c) == "beat" \in Faults /\ MoveCopy(c, "claimed", "delayed")

\* The dispatch reaches the queue, its confirmation does not arrive, and the
\* copy is put back as well.
BeatPutsBackPublished(c) ==
  /\ "beat" \in Faults
  /\ place[c] = "claimed"
  /\ nextCopy <= MaxCopies
  /\ place' = [place EXCEPT ![c] = "delayed", ![nextCopy] = "queue"]
  /\ origin' = [origin EXCEPT ![nextCopy] = origin[c]]
  /\ retries' = [retries EXCEPT ![nextCopy] = retries[c]]
  /\ nextCopy' = nextCopy + 1
  /\ UNCHANGED <<taskVars, workerVars, committed>>

\* The put-back fails too, or the beat process dies: the copy is gone.
BeatLoses(c) == "beat" \in Faults /\ MoveCopy(c, "claimed", "lost")

-----------------------------------------------------------------------------
TaskStep(t) ==
  \/ AcquireSlot(t)
  \/ EnterUow(t)
  \/ EnterUowFails(t)
  \/ HandlerReturns(t)
  \/ HandlerRaises(t)
  \/ PayloadInvalid(t)
  \/ HandlerAcks(t)
  \/ \E op \in {"nack", "reject"} : HandlerDisposes(t, op)
  \/ HandlerRetries(t)
  \/ HandlerRetriesAstray(t)
  \/ Unwind(t)
  \/ UnwindRaises(t)
  \/ RejectAfterDelay(t)
  \/ BudgetExhausted(t)
  \/ EnqueueRetry(t)
  \/ EnqueueRetryFails(t)
  \/ EnqueueReplyLost(t)
  \/ AckAfterEnqueue(t)
  \/ Timeout(t)
  \/ LeaveHandler(t)
  \/ ExitUow(t)
  \/ ExitUowFails(t)
  \/ AbortUow(t)

WorkerStep ==
  \/ \E to \in {"channelClosed", "connectionClosed"} : LinkCloses(to)
  \/ Shutdown
  \/ HealthCheckFails
  \/ StartDrain
  \/ Stop
  \/ Crash
  \/ Start

BeatStep(c) ==
  \/ BeatClaims(c)
  \/ BeatDispatches(c)
  \/ BeatPutsBack(c)
  \/ BeatPutsBackPublished(c)
  \/ BeatLoses(c)

Next ==
  \/ \E m \in Message : Publish(m)
  \/ \E c \in Copy, t \in Task : Deliver(c, t)
  \/ \E t \in Task : TaskStep(t)
  \/ WorkerStep
  \/ \E c \in Copy : BeatStep(c)

Spec == Init /\ [][Next]_vars

\* The event loop runs every task that can run and handlers return; the broker
\* delivers what the prefetch window admits; the beat worker polls; the health
\* monitor polls; a supervisor restarts the process.
Fairness ==
  /\ \A t \in Task : WF_vars(TaskStep(t))
  /\ \A c \in Copy : WF_vars(\E t \in Task : Deliver(c, t))
  /\ \A c \in Copy : WF_vars(BeatClaims(c) \/ BeatDispatches(c))
  /\ WF_vars(HealthCheckFails)
  /\ WF_vars(StartDrain)
  /\ WF_vars(Stop)
  /\ WF_vars(Start)

FairSpec == Spec /\ Fairness

-----------------------------------------------------------------------------
(* Safety.                                                                 *)

\* At most Prefetch handlers of a channel execute at once, although a handler
\* that settles its message early lets the broker deliver the next one
\* (run_within_processing_slot).
SlotBound == Prefetch > 0 => Cardinality(Busy) <= Prefetch

\* No copy carries more attempts than the retry policy allows (schedule_retry).
RetryBudget == \A c \in Copy : retries[c] <= MaxRetries

\* Whatever happens to the worker, its channel and its backend, a published
\* message still has a copy on its way to the handler, or one that was
\* acknowledged or dead-lettered, or one the beat worker dropped.  Acknowledging
\* a delivery because its retry is scheduled never loses the message.
NoMessageLost ==
  \A m \in Message : CopiesOf(m) # {} =>
    \E c \in CopiesOf(m) : place[c] \in Active \cup {"done", "dlq", "lost"}

\* A task that may still settle its delivery is the only one that may, and the
\* copy is still unacknowledged: a redelivery never races a settlement.
SettlementOwned ==
  \A t \in Task : CanSettle(t) =>
    /\ place[delivery[t]] = "unacked"
    /\ \A u \in Task \ {t} : CanSettle(u) => delivery[u] # delivery[t]

Final == {"done", "dlq", "superseded", "lost"}

\* A delivery is settled at most once, by the task that owns it, and an acknowledged or
\* dead-lettered copy stays so: neither a late settlement, nor a redelivery after a lost
\* link, nor the beat worker brings it back.
SettledOnce ==
  [][/\ SettlementOwned'
     /\ \A c \in Copy : place[c] \in Final => place'[c] = place[c]]_vars

\* wait_all_tasks_done waits for a snapshot of the tasks, and still no task is
\* running when the process stops on its own (message_consumer, consume).
DrainedBeforeStop == phase = "stopped" => \A t \in Task : pc[t] = "idle"

\* Unless the handler dead-letters the message itself, a message that is retried
\* on exceptions reaches the dead-letter queue with its whole budget spent.
DeadLetteredAfterBudget ==
  \A c \in Copy : place[c] = "dlq" => retries[c] = MaxRetries

\* The retries of a message are exactly those its policy grants (schedule_retry,
\* handle_reject_message).
BudgetExact == RetryBudget /\ DeadLetteredAfterBudget

\* A message has one copy that can still reach the handler, two only while a
\* task that scheduled the retry has not yet acknowledged the delivery.  It is meant for
\* workers that lose neither a link nor a reply of the broker backend: schedule_retry
\* requeues the delivery beside its copy when only the reply was lost.
SingleActiveCopy ==
  \A m \in Message :
    Cardinality({c \in CopiesOf(m) : place[c] \in Active}) <=
      1 + Cardinality({t \in Task : pc[t] = "confirming" /\ CanSettle(t)
                                       /\ origin[delivery[t]] = m})

\* Two handlers never work on the same message at once: retry, nack and reject
\* stop the handler before its copy can start (bus_message_controller).
NoConcurrentHandlers ==
  \A t, u \in Task : t # u /\ pc[t] = "running" /\ pc[u] = "running" =>
    origin[delivery[t]] # origin[delivery[u]]

\* One handler at a time works for a message, and one copy of it is left to work for.
OneHandlerPerMessage == SingleActiveCopy /\ NoConcurrentHandlers

\* Every unacknowledged delivery is held by a task that will settle it.
UnackedIsHeld ==
  \A c \in Unacked : \E t \in Task : delivery[t] = c /\ CanSettle(t)

\* An acknowledged message was processed: the unit of work of its handler
\* committed, or is about to.
AckedIsProcessed ==
  \A c \in Copy : place[c] = "done" =>
    committed[c] \/ \E t \in Task : delivery[t] = c /\ pc[t] # "aborting"

\* Every delivery is accounted for: by a task until it is settled, and by a committed
\* unit of work once it is acknowledged.
DeliveriesAccounted == UnackedIsHeld /\ AckedIsProcessed

-----------------------------------------------------------------------------
(* The inductive invariant behind NoMessageLost, RetryBudget, SlotBound,   *)
(* SettlementOwned and DrainedBeforeStop.                                  *)

\* Every permit that is not free is held by a task that is processing.
SlotsAccounted == Prefetch > 0 => slots = Prefetch - Cardinality(Busy)

\* The copies below nextCopy are exactly the ones that exist.
CopiesAllocated ==
  \A c \in Copy : IF c < nextCopy THEN place[c] # "free" /\ origin[c] \in Message
                                  ELSE place[c] = "free" /\ origin[c] = Nil

\* A task works on an existing copy, an idle one holds no delivery.
TasksHoldCopies ==
  \A t \in Task : IF pc[t] = "idle" THEN ~live[t]
                                    ELSE delivery[t] \in Copy /\ delivery[t] < nextCopy

\* Behind every copy there is one with at least as many attempts that was not
\* acknowledged in favour of a later one.
LineageSurvives ==
  \A c \in Copy : place[c] # "free" =>
    \E d \in CopiesOf(origin[c]) :
       retries[d] >= retries[c] /\ place[d] \notin {"free", "superseded"}

\* A delivery about to be acknowledged after schedule_retry has its successor.
SuccessorScheduled ==
  \A t \in Task : pc[t] = "confirming" =>
    \E d \in CopiesOf(origin[delivery[t]]) :
       place[d] # "free" /\ retries[d] = retries[delivery[t]] + 1

\* After the snapshot only the tasks in it are still running.
SnapshotComplete ==
  /\ phase = "draining" => \A t \in Task \ pending : pc[t] = "idle"
  /\ DrainedBeforeStop

IInv ==
  /\ TypeOK
  /\ SlotsAccounted
  /\ CopiesAllocated
  /\ TasksHoldCopies
  /\ RetryBudget
  /\ SettlementOwned
  /\ LineageSurvives
  /\ SuccessorScheduled
  /\ SnapshotComplete

-----------------------------------------------------------------------------
(* Liveness.                                                               *)

Published(m) == CopiesOf(m) # {}

Settled(m) == \A c \in CopiesOf(m) : place[c] \notin Active

\* If the consumer's connection is eventually stable, every published message is
\* eventually acknowledged or dead-lettered, through all its retries.
EventuallySettled ==
  <>[](link = "open") => \A m \in Message : Published(m) ~> Settled(m)

\* A lost connection leads to a fresh one: the health monitor shuts the worker
\* down, the tasks drain, the process exits and is started again.
ConnectionRecovers == link = "connectionClosed" ~> link = "open"

\* The work goes on after a lost connection, and comes to its end.
WorkGoesOn == ConnectionRecovers /\ EventuallySettled
=============================================================================
