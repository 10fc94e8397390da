--------------------------- MODULE BeatScheduler ---------------------------
(***************************************************************************)
(* The scheduled actions of the beat workers: the first half of a cycle of *)
(* BeatWorker.run_scheduled_actions (src/jararaca/scheduler/beat_worker.py)*)
(* and the lock and dispatch times kept in Redis                           *)
(* (src/jararaca/broker_backend/redis_broker_backend.py).                  *)
(*                                                                         *)
(* A cron expression is the set of times it fires at: croniter's next run  *)
(* after t is due when it fires after t and not after the clock.  The      *)
(* in-execution count a beat worker consults before it dispatches is left  *)
(* out: nothing in the code enters in_execution, so it is always 0.        *)
(***************************************************************************)
EXTENDS Integers

CONSTANTS
  Beat,      \* beat workers
  Actions,   \* how many scheduled actions there are
  Occurs,    \* Occurs[a]: the times action a's cron fires at
  Ttl,       \* lock_ttl_seconds
  Blocking,  \* lock_blocking_timeout_seconds
  Stall,     \* how long a beat worker may hold the lock (a dispatch and its retries)
  Prompt,    \* whether a cycle fits between two ticks
  Mortal,    \* the beat workers that may die
  MaxClock,  \* how far the clock runs (a bound)
  Faults     \* what may fail

Action == 1..Actions
None == -1
Nobody == "nobody"
Orphan == "orphan"

ASSUME BeatAssumption ==
  /\ Nobody \notin Beat /\ Orphan \notin Beat
  /\ Actions \in Nat
  /\ Occurs \in [Action -> SUBSET Nat]
  /\ Ttl \in Nat \ {0}
  /\ Blocking \in Nat
  /\ Stall \in Nat
  /\ Prompt \in BOOLEAN
  /\ Mortal \subseteq Beat
  /\ MaxClock \in Nat
  /\ Faults \subseteq {"dispatch", "confirm", "redis", "shutdown"}

VARIABLES
  clock,    \* int(time.time())
  lock,     \* the lock key in Redis: whose token it holds, and until when
  last,     \* last_dispatch_time of each action
  pc,       \* where a beat worker is
  now,      \* the time it read at the start of its cycle
  index,    \* the action its loop is at
  mark,     \* when it gives up waiting for the lock, and when it is done with it
  known,     \* the last_dispatch_time it read
  stopping, \* its shutdown_event
  sent      \* history: when each action was last published, and a bit each publish flips

vars == <<clock, lock, last, pc, now, index, mark, known, stopping, sent>>

Free == [holder |-> Nobody, until |-> 0]

\* The steps a beat worker takes inside "async with self.backend.lock()".
Section == {"reading", "deciding", "publishing", "recording", "releasing"}

TypeOK ==
  /\ clock \in Nat
  /\ lock \in [holder : Beat \cup {Nobody, Orphan}, until : Nat]
  /\ last \in [Action -> Nat \cup {None}]
  /\ pc \in [Beat -> Section \cup {"idle", "loop", "locking", "stopped"}]
  /\ now \in [Beat -> Nat]
  /\ index \in [Beat -> 1..Actions + 1]
  /\ \A b \in Beat : pc[b] \in Section \cup {"locking"} => index[b] \in Action
  /\ mark \in [Beat -> Nat]
  /\ known \in [Beat -> Nat \cup {None}]
  /\ stopping \in [Beat -> BOOLEAN]
  /\ sent \in [Action -> [odd : BOOLEAN, at : Nat \cup {None}]]

Init ==
  /\ clock = 0
  /\ lock = Free
  /\ last = [a \in Action |-> None]
  /\ pc = [b \in Beat |-> "idle"]
  /\ now = [b \in Beat |-> 0]
  /\ index = [b \in Beat |-> 1]
  /\ mark = [b \in Beat |-> 0]
  /\ known = [b \in Beat |-> None]
  /\ stopping = [b \in Beat |-> FALSE]
  /\ sent = [a \in Action |-> [odd |-> FALSE, at |-> None]]

Goto(b, to) == pc' = [pc EXCEPT ![b] = to]

\* The iteration of the loop over scheduled_actions ends, and the scope of its
\* locals with it.
Continue(b) ==
  /\ Goto(b, "loop")
  /\ index' = [index EXCEPT ![b] = @ + 1]
  /\ mark' = [mark EXCEPT ![b] = 0]
  /\ known' = [known EXCEPT ![b] = None]

\* Time passes; a lock whose TTL is over disappears.
Tick ==
  /\ clock < MaxClock
  /\ \A b \in Beat : /\ pc[b] \in Section => clock < mark[b]
                     /\ Prompt => pc[b] \in {"idle", "stopped"}
  /\ clock' = clock + 1
  /\ lock' = IF lock.until <= clock + 1 THEN Free ELSE lock
  /\ UNCHANGED <<last, pc, now, index, mark, known, stopping, sent>>

-----------------------------------------------------------------------------
(* The loop of a beat worker.                                              *)

StartCycle(b) ==
  /\ pc[b] = "idle"
  /\ ~stopping[b]
  /\ now' = [now EXCEPT ![b] = clock]
  /\ Goto(b, "loop")
  /\ UNCHANGED <<clock, lock, last, index, mark, known, stopping, sent>>

\* The next action: the beat worker starts to wait for the lock.
NextAction(b) ==
  /\ pc[b] = "loop"
  /\ ~stopping[b]
  /\ index[b] \in Action
  /\ mark' = [mark EXCEPT ![b] = clock + Blocking]
  /\ Goto(b, "locking")
  /\ UNCHANGED <<clock, lock, last, now, index, known, stopping, sent>>

\* All actions are done, or the shutdown event is set: the beat worker goes on to
\* the delayed messages (DelayedMessages) and waits for its interval.
LeaveLoop(b) ==
  /\ pc[b] = "loop"
  /\ stopping[b] \/ index[b] \notin Action
  /\ Goto(b, "idle")
  /\ now' = [now EXCEPT ![b] = 0]
  /\ index' = [index EXCEPT ![b] = 1]
  /\ UNCHANGED <<clock, lock, last, mark, known, stopping, sent>>

-----------------------------------------------------------------------------
(* The lock.                                                               *)

\* Mutation of AcquireLock: SET PX, without NX.
AcquireWithoutNx(b) ==
  /\ pc[b] = "locking"
  /\ lock' = [holder |-> b, until |-> clock + Ttl]
  /\ mark' = [mark EXCEPT ![b] = clock + Stall]
  /\ Goto(b, "reading")
  /\ UNCHANGED <<clock, last, now, index, known, stopping, sent>>

\* SET NX PX.
AcquireLock(b) ==
  /\ pc[b] = "locking"
  /\ lock = Free
  /\ lock' = [holder |-> b, until |-> clock + Ttl]
  /\ mark' = [mark EXCEPT ![b] = clock + Stall]
  /\ Goto(b, "reading")
  /\ UNCHANGED <<clock, last, now, index, known, stopping, sent>>

\* BrokerBackendLockNotAcquired: the action is skipped in this cycle.
LockNotAcquired(b) ==
  /\ pc[b] = "locking"
  /\ lock # Free
  /\ clock >= mark[b]
  /\ Continue(b)
  /\ UNCHANGED <<clock, lock, last, now, stopping, sent>>

\* Redis fails the SET, possibly after it took the lock.
AcquireFails(b) ==
  /\ "redis" \in Faults
  /\ pc[b] = "locking"
  /\ \/ UNCHANGED lock
     \/ lock = Free /\ lock' = [holder |-> Orphan, until |-> clock + Ttl]
  /\ Continue(b)
  /\ UNCHANGED <<clock, last, now, stopping, sent>>

\* Mutation of ReleaseLock: the key is deleted without comparing the token.
ReleaseAnyLock(b) ==
  /\ pc[b] = "releasing"
  /\ lock' = Free
  /\ Continue(b)
  /\ UNCHANGED <<clock, last, now, stopping, sent>>

\* Compare and delete.
ReleaseLock(b) ==
  /\ pc[b] = "releasing"
  /\ lock' = IF lock.holder = b THEN Free ELSE lock
  /\ Continue(b)
  /\ UNCHANGED <<clock, last, now, stopping, sent>>

\* Nobody has the token of a lock its holder left behind.
Abandon(b) == lock' = IF lock.holder = b THEN [lock EXCEPT !.holder = Orphan] ELSE lock

\* The release fails and is only logged: the lock stays until its TTL is over.
ReleaseFails(b) ==
  /\ "redis" \in Faults
  /\ pc[b] = "releasing"
  /\ Abandon(b)
  /\ Continue(b)
  /\ UNCHANGED <<clock, last, now, stopping, sent>>

-----------------------------------------------------------------------------
(* One action, under the lock.                                             *)

ReadLast(b) ==
  /\ pc[b] = "reading"
  /\ known' = [known EXCEPT ![b] = last[index[b]]]
  /\ Goto(b, "deciding")
  /\ UNCHANGED <<clock, lock, last, now, index, mark, stopping, sent>>

\* The action never ran, or its cron has fired since t: next_run <= datetime.now().
Due(a, t) == t = None \/ \E o \in Occurs[a] : t < o /\ o <= clock

Decide(b) ==
  /\ pc[b] = "deciding"
  /\ Goto(b, IF Due(index[b], known[b]) THEN "publishing" ELSE "releasing")
  /\ UNCHANGED <<clock, lock, last, now, index, mark, known, stopping, sent>>

Send(a) == sent' = [sent EXCEPT ![a] = [odd |-> ~@.odd, at |-> clock]]

\* dispatch_scheduled_action.
Publish(b) ==
  /\ pc[b] = "publishing"
  /\ Send(index[b])
  /\ Goto(b, "recording")
  /\ UNCHANGED <<clock, lock, last, now, index, mark, known, stopping>>

\* The publish reaches the broker, its confirmation is lost and it is retried.
PublishUnconfirmed(b) ==
  /\ "confirm" \in Faults
  /\ pc[b] = "publishing"
  /\ Send(index[b])
  /\ UNCHANGED <<clock, lock, last, pc, now, index, mark, known, stopping>>

\* Mutation of PublishFails: the failure is swallowed.
PublishFailsSilently(b) ==
  /\ "dispatch" \in Faults
  /\ pc[b] = "publishing"
  /\ Goto(b, "recording")
  /\ UNCHANGED <<clock, lock, last, now, index, mark, known, stopping, sent>>

\* The dispatch fails after its retries, which sets the shutdown event.
PublishFails(b) ==
  /\ "dispatch" \in Faults
  /\ pc[b] = "publishing"
  /\ stopping' = [stopping EXCEPT ![b] = TRUE]
  /\ Goto(b, "releasing")
  /\ UNCHANGED <<clock, lock, last, now, index, mark, known, sent>>

\* Mutation of Record: the time recorded is rounded up.
RecordAhead(b) ==
  /\ pc[b] = "recording"
  /\ last' = [last EXCEPT ![index[b]] = clock + 1]
  /\ Goto(b, "releasing")
  /\ UNCHANGED <<clock, lock, now, index, mark, known, stopping, sent>>

\* set_last_dispatch_time, with the time of the start of the cycle.
Record(b) ==
  /\ pc[b] = "recording"
  /\ last' = [last EXCEPT ![index[b]] = now[b]]
  /\ Goto(b, "releasing")
  /\ UNCHANGED <<clock, lock, now, index, mark, known, stopping, sent>>

\* Redis fails to read or to record: the error is logged, the lock is released.
RedisFails(b) ==
  /\ "redis" \in Faults
  /\ pc[b] \in {"reading", "recording"}
  /\ Goto(b, "releasing")
  /\ UNCHANGED <<clock, lock, last, now, index, mark, known, stopping, sent>>

-----------------------------------------------------------------------------
(* Shutdown, restart and death.                                            *)

\* A signal or a failed health check sets the shutdown event.
Shutdown(b) ==
  /\ "shutdown" \in Faults
  /\ pc[b] # "stopped"
  /\ stopping' = [stopping EXCEPT ![b] = TRUE]
  /\ UNCHANGED <<clock, lock, last, pc, now, index, mark, known, sent>>

Stop(b) ==
  /\ pc[b] = "idle"
  /\ stopping[b]
  /\ Goto(b, "stopped")
  /\ UNCHANGED <<clock, lock, last, now, index, mark, known, stopping, sent>>

\* The process dies, with the lock if it holds it.  The bound leaves time for the
\* TTL of a lock left behind to pass.
Die(b) ==
  /\ b \in Mortal
  /\ clock + Ttl <= MaxClock
  /\ pc[b] # "stopped"
  /\ Goto(b, "stopped")
  /\ Abandon(b)
  /\ now' = [now EXCEPT ![b] = 0]
  /\ index' = [index EXCEPT ![b] = 1]
  /\ mark' = [mark EXCEPT ![b] = 0]
  /\ known' = [known EXCEPT ![b] = None]
  /\ UNCHANGED <<clock, last, stopping, sent>>

\* The process is started again.
Restart(b) ==
  /\ pc[b] = "stopped"
  /\ Goto(b, "idle")
  /\ stopping' = [stopping EXCEPT ![b] = FALSE]
  /\ UNCHANGED <<clock, lock, last, now, index, mark, known, sent>>

BeatNext(b) ==
  \/ StartCycle(b) \/ NextAction(b) \/ LeaveLoop(b)
  \/ AcquireLock(b) \/ LockNotAcquired(b) \/ AcquireFails(b)
  \/ ReleaseLock(b) \/ ReleaseFails(b)
  \/ ReadLast(b) \/ Decide(b)
  \/ Publish(b) \/ PublishUnconfirmed(b) \/ PublishFails(b)
  \/ Record(b) \/ RedisFails(b)
  \/ Shutdown(b) \/ Stop(b) \/ Die(b) \/ Restart(b)

Next == Tick \/ \E b \in Beat : BeatNext(b)

Spec == Init /\ [][Next]_vars

\* Time passes, a beat worker goes through its cycles, and one that polls for the
\* lock every 50 ms does not miss it forever.
FairSpec ==
  /\ Spec
  /\ WF_vars(Tick)
  /\ \A b \in Beat : WF_vars(BeatNext(b)) /\ SF_vars(AcquireLock(b))

-----------------------------------------------------------------------------
(* Properties.                                                             *)

\* Beat workers that hold the lock for less than its TTL exclude each other: whoever
\* reads, publishes or records still has its token in the lock.
LockExclusive ==
  Stall < Ttl => \A b \in Beat : pc[b] \in Section => lock.holder = b

\* A dispatch time is never recorded ahead of a publish: an occurrence of the cron
\* is either published or still due, whatever fails and whoever overtakes whom.
NeverSkips ==
  \A a \in Action : last[a] # None => last[a] <= sent[a].at

\* A lock disappears by its TTL or by a step of the worker whose token it holds, even
\* when workers overrun their TTL (the compare and delete of lock()).
ReleasedByHolder ==
  [][lock # Free /\ lock' # lock =>
       \/ lock.until <= clock'
       \/ lock.holder \in Beat /\ pc'[lock.holder] # pc[lock.holder]]_vars

\* Every occurrence of a cron leads to a publish, although a worker may die with
\* the lock.
DueIsDispatched ==
  \A a \in Action : \A o \in Occurs[a] : clock >= o ~> sent[a].at >= o

\* A lock that was left behind does not stay.
LockRecovers == lock.holder = Orphan ~> lock.holder # Orphan

\* Dispatching goes on although workers die with the lock.
DispatchGoesOn == DueIsDispatched /\ LockRecovers

-----------------------------------------------------------------------------
(* The inductive invariant behind LockExclusive and NeverSkips.            *)

\* A worker inside the section is done with it before the TTL of its lock.
SectionInTime ==
  \A b \in Beat : pc[b] \in Section /\ Stall < Ttl =>
    lock.holder = b /\ clock <= mark[b] /\ mark[b] < lock.until

\* A cycle starts in the past.
CycleInThePast == \A b \in Beat : now[b] <= clock

\* What is about to be recorded was published in the same cycle.
PublishedBeforeRecording ==
  \A b \in Beat : pc[b] = "recording" => now[b] <= sent[index[b]].at

SentInThePast == \A a \in Action : sent[a].at <= clock

IInv ==
  /\ TypeOK
  /\ SectionInTime
  /\ CycleInThePast
  /\ PublishedBeforeRecording
  /\ SentInThePast
  /\ NeverSkips
=============================================================================
