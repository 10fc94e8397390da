-------------------------- MODULE DelayedMessages --------------------------
(***************************************************************************)
(* The delayed messages of the Redis broker backend and the beat workers   *)
(* that claim and dispatch them:                                           *)
(* src/jararaca/broker_backend/redis_broker_backend.py and the second half *)
(* of BeatWorker.run_scheduled_actions.                                    *)
(*                                                                         *)
(* An entry has two halves in Redis: a score in the sorted set             *)
(* delayed_messages and a document under its metadata key.  Enqueueing     *)
(* (MULTI/EXEC) and claiming (a Lua script) are atomic, dispatching and    *)
(* putting back are not.  Enqueued messages are numbered; the number       *)
(* stands for the payload.                                                 *)
(***************************************************************************)
EXTENDS Integers, FiniteSets

CONSTANTS
  Key,           \* idempotency keys
  Anon,          \* task ids drawn by uuid4 (a bound on messages without a key)
  Beat,          \* beat workers
  Batch,         \* delayed_messages_batch_size
  PayloadPolicy, \* the payload policies in use
  TimePolicy,    \* the time policies in use
  PutBackDelay,  \* FAILED_DISPATCH_REQUEUE_DELAY_SECONDS
  MaxMessages,   \* how many messages are enqueued (a bound)
  MaxClock,      \* how far the clock runs (a bound)
  MaxSent,       \* how often a message is published unconfirmed (a bound)
  Faults         \* what may fail

Id == Key \cup Anon
Number == 1..MaxMessages
Absent == -1
NoEntry == [n |-> 0, pp |-> "replace", tp |-> "replace"]

ASSUME DelayedAssumption ==
  /\ Key \cap Anon = {}
  /\ Batch \in Nat \ {0}
  /\ PayloadPolicy \subseteq {"ignore", "replace"}
  /\ TimePolicy \subseteq {"replace", "greater", "lesser"}
  /\ PutBackDelay \in Nat
  /\ MaxMessages \in Nat
  /\ MaxClock \in Nat
  /\ MaxSent \in Nat
  /\ Faults \subseteq {"dispatch", "putback", "confirm", "crash", "reply", "parse", "shutdown"}

VARIABLES
  clock,    \* int(time.time())
  score,    \* sorted set: the dispatch time of each pending id
  meta,     \* metadata: the serialized message of each pending id
  enqueued, \* how many messages were enqueued
  usedIds,  \* the anonymous ids already drawn
  now,      \* the time a beat worker read at the start of its cycle
  step,     \* where a beat worker is in its cycle
  stopping, \* its shutdown_event
  claimed,  \* the messages a beat worker holds in memory
  sent      \* history: how often each message was dispatched

store == <<score, meta>>
vars  == <<clock, score, meta, enqueued, usedIds, now, step, stopping, claimed, sent>>

Entry == [n : Number, pp : {"ignore", "replace"}, tp : {"replace", "greater", "lesser"}]

Held == [id : Id, e : Entry]

TypeOK ==
  /\ clock \in Nat
  /\ score \in [Id -> Nat \cup {Absent}]
  /\ meta \in [Id -> Entry \cup {NoEntry}]
  /\ enqueued \in 0..MaxMessages
  /\ usedIds \subseteq Anon
  /\ now \in [Beat -> Nat]
  /\ step \in [Beat -> {"idle", "claiming", "dispatching", "stopped"}]
  /\ stopping \in [Beat -> BOOLEAN]
  /\ claimed \in [Beat -> SUBSET Held]
  /\ sent \in [Number -> Nat]

Init ==
  /\ clock = 0
  /\ score = [i \in Id |-> Absent]
  /\ meta = [i \in Id |-> NoEntry]
  /\ enqueued = 0
  /\ usedIds = {}
  /\ now = [b \in Beat |-> 0]
  /\ step = [b \in Beat |-> "idle"]
  /\ stopping = [b \in Beat |-> FALSE]
  /\ claimed = [b \in Beat |-> {}]
  /\ sent = [n \in Number |-> 0]

Pending(i) == score[i] # Absent

Tick ==
  /\ clock < MaxClock
  /\ clock' = clock + 1
  /\ UNCHANGED <<store, enqueued, usedIds, now, step, stopping, claimed, sent>>

-----------------------------------------------------------------------------
(* Enqueueing.                                                             *)

\* ZADD, with GT or LT when the key is idempotent: a missing member is added
\* under either.
ZAdd(i, at, tp) ==
  score' = [score EXCEPT ![i] =
              IF Pending(i) /\ i \in Key
                 /\ \/ tp = "greater" /\ at <= score[i]
                    \/ tp = "lesser" /\ at >= score[i]
                THEN @ ELSE at]

\* enqueue_delayed_message of entry e under id i for time at: SET, with NX when
\* the key is idempotent and the payload policy is ignore, and ZADD.
Store(i, e, at) ==
  /\ meta' = [meta EXCEPT ![i] =
                IF i \in Key /\ e.pp = "ignore" /\ @ # NoEntry THEN @ ELSE e]
  /\ ZAdd(i, at, e.tp)

\* A publisher or a retrying worker enqueues a message.
Enqueue(i, pp, tp, at) ==
  /\ enqueued < MaxMessages
  /\ i \in Key \cup (Anon \ usedIds)
  /\ Store(i, [n |-> enqueued + 1, pp |-> pp, tp |-> tp], at)
  /\ enqueued' = enqueued + 1
  /\ usedIds' = usedIds \cup ({i} \cap Anon)
  /\ UNCHANGED <<clock, now, step, stopping, claimed, sent>>

-----------------------------------------------------------------------------
(* The cycle of a beat worker.                                             *)

\* The beat worker reads the clock once per cycle.
StartCycle(b) ==
  /\ step[b] = "idle"
  /\ ~stopping[b]
  /\ now' = [now EXCEPT ![b] = clock]
  /\ step' = [step EXCEPT ![b] = "claiming"]
  /\ UNCHANGED <<clock, store, enqueued, usedIds, stopping, claimed, sent>>

\* Mutation of IsDueBatch: the batch is one smaller than its limit.
IsDueBatchOffByOne(S, max) ==
  LET due == {i \in Id : Pending(i) /\ score[i] <= max} IN
  /\ S \subseteq due
  /\ Cardinality(S) = IF Cardinality(due) < Batch THEN Cardinality(due) ELSE Batch - 1
  /\ \A i \in S, j \in due \ S : score[i] <= score[j]

\* ZRANGEBYSCORE -inf max LIMIT 0 batch: the earliest members that are due.
IsDueBatch(S, max) ==
  LET due == {i \in Id : Pending(i) /\ score[i] <= max} IN
  /\ S \subseteq due
  /\ Cardinality(S) = IF Cardinality(due) < Batch THEN Cardinality(due) ELSE Batch
  /\ \A i \in S, j \in due \ S : score[i] <= score[j]

\* ZREM and DEL of every claimed id.
Remove(S) ==
  /\ score' = [i \in Id |-> IF i \in S THEN Absent ELSE score[i]]
  /\ meta' = [i \in Id |-> IF i \in S THEN NoEntry ELSE meta[i]]

\* The messages of the claimed ids whose metadata exists.
Payloads(S) == {h \in [id : S, e : {meta[i] : i \in S}] :
                  h.e = meta[h.id] /\ h.e # NoEntry}

\* Mutation of Claim: the script reads the batch and removes nothing.
ClaimWithoutRemoval(b) ==
  /\ step[b] = "claiming"
  /\ \E S \in SUBSET Id :
       /\ IsDueBatch(S, now[b])
       /\ claimed' = [claimed EXCEPT ![b] = Payloads(S)]
  /\ step' = [step EXCEPT ![b] = "dispatching"]
  /\ UNCHANGED <<clock, store, enqueued, usedIds, now, stopping, sent>>

\* dequeue_next_delayed_messages: one Lua script reads and removes a batch.
\* dequeue_next_delayed_messages.  A payload that is no DelayedMessageData, as another
\* version of the program may have stored, is logged and dropped.
Claim(b) ==
  /\ step[b] = "claiming"
  /\ \E S \in SUBSET Id : \E parsed \in SUBSET Payloads(S) :
       /\ IsDueBatch(S, now[b])
       /\ "parse" \notin Faults => parsed = Payloads(S)
       /\ claimed' = [claimed EXCEPT ![b] = parsed]
       /\ Remove(S)
  /\ step' = [step EXCEPT ![b] = "dispatching"]
  /\ UNCHANGED <<clock, enqueued, usedIds, now, stopping, sent>>

\* The script ran, its reply was lost: the error is logged and the batch is gone.
ClaimReplyLost(b) ==
  /\ "reply" \in Faults
  /\ step[b] = "claiming"
  /\ \E S \in SUBSET Id : IsDueBatch(S, now[b]) /\ Remove(S)
  /\ step' = [step EXCEPT ![b] = "dispatching"]
  /\ UNCHANGED <<clock, enqueued, usedIds, now, stopping, claimed, sent>>

Release(b, h) == claimed' = [claimed EXCEPT ![b] = @ \ {h}]

\* dispatch_delayed_message publishes a claimed message.
Dispatch(b, h) ==
  /\ step[b] = "dispatching"
  /\ h \in claimed[b]
  /\ Release(b, h)
  /\ sent' = [sent EXCEPT ![h.e.n] = @ + 1]
  /\ UNCHANGED <<clock, store, enqueued, usedIds, now, step, stopping>>

\* The publish reaches the broker and its confirmation does not reach the beat
\* worker, which still holds the message: it publishes again or puts it back.
DispatchUnconfirmed(b, h) ==
  /\ "confirm" \in Faults
  /\ step[b] = "dispatching"
  /\ h \in claimed[b]
  /\ sent[h.e.n] < MaxSent
  /\ sent' = [sent EXCEPT ![h.e.n] = @ + 1]
  /\ UNCHANGED <<clock, store, enqueued, usedIds, now, step, stopping, claimed>>

\* The id a message is put back under: its key, or a new uuid.
PutBackId(h) == IF h.id \in Key THEN {h.id} ELSE Anon \ usedIds

\* The dispatch fails after its retries, which sets the shutdown event: the message
\* is put back for a little later, under the policies it was enqueued with, and the
\* beat worker stops at the end of its cycle.
DispatchFails(b, h) ==
  /\ "dispatch" \in Faults
  /\ step[b] = "dispatching"
  /\ h \in claimed[b]
  /\ clock + PutBackDelay <= MaxClock
  /\ Release(b, h)
  /\ \E i \in PutBackId(h) :
       /\ Store(i, h.e, clock + PutBackDelay)
       /\ usedIds' = usedIds \cup ({i} \cap Anon)
  /\ stopping' = [stopping EXCEPT ![b] = TRUE]
  /\ UNCHANGED <<clock, enqueued, now, step, sent>>

\* The dispatch fails and so does putting the message back.
PutBackFails(b, h) ==
  /\ "putback" \in Faults
  /\ step[b] = "dispatching"
  /\ h \in claimed[b]
  /\ Release(b, h)
  /\ stopping' = [stopping EXCEPT ![b] = TRUE]
  /\ UNCHANGED <<clock, store, enqueued, usedIds, now, step, sent>>

\* The cycle is over: the beat worker waits for its interval.
EndCycle(b) ==
  /\ step[b] = "dispatching"
  /\ claimed[b] = {}
  /\ step' = [step EXCEPT ![b] = "idle"]
  /\ UNCHANGED <<clock, store, enqueued, usedIds, now, stopping, claimed, sent>>

\* A signal or a failed health check sets the shutdown event, at any point of the
\* cycle.
Shutdown(b) ==
  /\ "shutdown" \in Faults
  /\ step[b] # "stopped"
  /\ stopping' = [stopping EXCEPT ![b] = TRUE]
  /\ UNCHANGED <<clock, store, enqueued, usedIds, now, step, claimed, sent>>

\* The wait for the next cycle ends at once when the event is set, and with it the
\* scheduler.
Stop(b) ==
  /\ step[b] = "idle"
  /\ stopping[b]
  /\ step' = [step EXCEPT ![b] = "stopped"]
  /\ UNCHANGED <<clock, store, enqueued, usedIds, now, stopping, claimed, sent>>

\* The process is started again.
Restart(b) ==
  /\ step[b] = "stopped"
  /\ step' = [step EXCEPT ![b] = "idle"]
  /\ stopping' = [stopping EXCEPT ![b] = FALSE]
  /\ UNCHANGED <<clock, store, enqueued, usedIds, now, claimed, sent>>

\* The beat process dies with what it holds.
BeatCrash(b) ==
  /\ "crash" \in Faults
  /\ claimed' = [claimed EXCEPT ![b] = {}]
  /\ step' = [step EXCEPT ![b] = "stopped"]
  /\ UNCHANGED <<clock, store, enqueued, usedIds, now, stopping, sent>>

BeatNext(b) ==
  \/ StartCycle(b)
  \/ Claim(b)
  \/ ClaimReplyLost(b)
  \/ \E h \in claimed[b] :
       \/ Dispatch(b, h)
       \/ DispatchUnconfirmed(b, h)
       \/ DispatchFails(b, h)
       \/ PutBackFails(b, h)
  \/ EndCycle(b)
  \/ Shutdown(b)
  \/ Stop(b)
  \/ Restart(b)
  \/ BeatCrash(b)

Next ==
  \/ Tick
  \/ \E i \in Id, pp \in PayloadPolicy, tp \in TimePolicy, at \in 0..MaxClock :
       Enqueue(i, pp, tp, at)
  \/ \E b \in Beat : BeatNext(b)

Spec == Init /\ [][Next]_vars

\* Time passes, and a beat worker goes through its cycle.
FairSpec ==
  /\ Spec
  /\ WF_vars(Tick)
  /\ \A b \in Beat : WF_vars(BeatNext(b))

-----------------------------------------------------------------------------
(* Properties.                                                             *)

\* The two halves of an entry exist together: no score without a payload (a
\* message lost when it is claimed), no payload without a score (one that is
\* never claimed and blocks its key under SET NX).
HalvesTogether == \A i \in Id : Pending(i) <=> meta[i] # NoEntry

\* The messages that are stored and the ones beat workers hold.
Stored == {meta[i].n : i \in {j \in Id : meta[j] # NoEntry}}
HeldBy(b) == {h.e.n : h \in claimed[b]}

\* A message is stored once or held by one beat worker: concurrent beat workers
\* never hold copies of the same message, not even of one that was put back.
OneHolder ==
  /\ \A i, j \in Id : i # j /\ meta[i] # NoEntry => meta[i].n # meta[j].n
  /\ \A b \in Beat : HeldBy(b) \cap Stored = {}
  /\ \A b, c \in Beat : b # c => HeldBy(b) \cap HeldBy(c) = {}
  /\ \A b \in Beat : \A g, h \in claimed[b] : g.e.n = h.e.n => g = h

\* Unless a confirmation was lost, a message is published at most once, and once it
\* is published it is neither stored nor held.
SentOnce ==
  "confirm" \notin Faults =>
    \A n \in Number : sent[n] > 0 =>
      sent[n] = 1 /\ n \notin Stored /\ \A b \in Beat : n \notin HeldBy(b)

\* A message is whole and in one place: stored, held by one beat worker, or published,
\* once (enqueue_delayed_message, the claim script and the put-back).
InOnePlace == TypeOK /\ HalvesTogether /\ OneHolder /\ SentOnce

\* Numbers are given out in order.
NumbersInOrder ==
  /\ \A i \in Id : meta[i].n <= enqueued
  /\ \A b \in Beat : \A h \in claimed[b] : h.e.n <= enqueued
  /\ \A n \in Number : sent[n] > 0 => n <= enqueued

\* A beat worker holds messages only while it dispatches them.
HoldsWhileDispatching == \A b \in Beat : step[b] # "dispatching" => claimed[b] = {}

\* The inductive invariant behind HalvesTogether, OneHolder and SentOnce.
IInv ==
  /\ TypeOK
  /\ HalvesTogether
  /\ OneHolder
  /\ SentOnce
  /\ NumbersInOrder
  /\ HoldsWhileDispatching

\* A message that is due is eventually dispatched, or replaced under its key, and
\* a backlog larger than the batch does not starve it.
EventuallyLeaves ==
  \A n \in Number : n \in Stored ~> n \notin Stored /\ \A b \in Beat : n \notin HeldBy(b)
=============================================================================
