------------------------ MODULE BeatSchedulerProofs -------------------------
(***************************************************************************)
(* Proofs about the beat and what it triggers, for any number of beat      *)
(* workers, actions, workers and triggers.  BeatScheduler: whatever the    *)
(* crons and the timing, beat workers that keep within the TTL exclude     *)
(* each other, and no occurrence of a cron is skipped.  ScheduledActions:  *)
(* no two runs of an action overlap in a worker.                           *)
(***************************************************************************)
EXTENDS BeatScheduler, ScheduledActions, FiniteSetTheorems, TLAPS

USE DEF Action, None, Nobody, Orphan, Section, Free, Goto

\* The types of a worker's own state.
OwnTypes ==
  /\ pc \in [Beat -> Section \cup {"idle", "loop", "locking", "stopped"}]
  /\ now \in [Beat -> Nat]
  /\ index \in [Beat -> 1..Actions + 1]
  /\ mark \in [Beat -> Nat]
  /\ stopping \in [Beat -> BOOLEAN]

\* What a step of beat worker b leaves alone.
Own(b) ==
  /\ clock' = clock
  /\ now'[b] \in {now[b], clock, 0}
  /\ \A c \in Beat \ {b} : pc'[c] = pc[c] /\ now'[c] = now[c]
                           /\ index'[c] = index[c] /\ mark'[c] = mark[c]

\* A step of a beat worker keeps those types.
LEMMA StepTypes ==
  ASSUME TypeOK, NEW b \in Beat, BeatNext(b)
  PROVE  OwnTypes'
<1>1. pc' \in [Beat -> Section \cup {"idle", "loop", "locking", "stopped"}]
  <2> USE DEF TypeOK
  <2>1. CASE StartCycle(b) \/ NextAction(b) \/ LeaveLoop(b)
    BY <2>1, Zenon DEF StartCycle, NextAction, LeaveLoop
  <2>2. CASE AcquireLock(b) \/ LockNotAcquired(b) \/ AcquireFails(b)
    BY <2>2, Zenon DEF AcquireLock, LockNotAcquired, AcquireFails, Continue
  <2>3. CASE ReleaseLock(b) \/ ReleaseFails(b)
    BY <2>3, Zenon DEF ReleaseLock, ReleaseFails, Continue
  <2>4. CASE ReadLast(b) \/ Decide(b)
    BY <2>4, Zenon DEF ReadLast, Decide
  <2>5. CASE Publish(b) \/ PublishUnconfirmed(b) \/ PublishFails(b)
    <3>1. CASE Publish(b)
      BY <3>1, Zenon DEF Publish
    <3>2. CASE PublishUnconfirmed(b)
      BY <3>2, Zenon DEF PublishUnconfirmed
    <3>3. CASE PublishFails(b)
      BY <3>3, Zenon DEF PublishFails
    <3> QED BY <2>5, <3>1, <3>2, <3>3, Zenon
  <2>6. CASE Record(b) \/ RedisFails(b)
    BY <2>6, Zenon DEF Record, RedisFails
  <2>7. CASE Shutdown(b) \/ Stop(b) \/ Die(b) \/ Restart(b)
    BY <2>7 DEF Shutdown, Stop, Die, Restart
  <2> QED BY <2>1, <2>2, <2>3, <2>4, <2>5, <2>6, <2>7, Zenon DEF BeatNext
<1>2. now' \in [Beat -> Nat]
  <2> USE DEF TypeOK
  <2>1. CASE StartCycle(b) \/ NextAction(b) \/ LeaveLoop(b)
    <3>1. CASE StartCycle(b)
      BY <3>1, Zenon DEF StartCycle
    <3>2. CASE NextAction(b)
      BY <3>2, Zenon DEF NextAction
    <3>3. CASE LeaveLoop(b)
      BY <3>3, Zenon DEF LeaveLoop
    <3> QED BY <2>1, <3>1, <3>2, <3>3, Zenon
  <2>2. CASE AcquireLock(b) \/ LockNotAcquired(b) \/ AcquireFails(b)
    BY <2>2, Zenon DEF AcquireLock, LockNotAcquired, AcquireFails, Continue
  <2>3. CASE ReleaseLock(b) \/ ReleaseFails(b)
    BY <2>3, Zenon DEF ReleaseLock, ReleaseFails, Continue
  <2>4. CASE ReadLast(b) \/ Decide(b)
    BY <2>4, Zenon DEF ReadLast, Decide
  <2>5. CASE Publish(b) \/ PublishUnconfirmed(b) \/ PublishFails(b)
    BY <2>5, Zenon DEF Publish, PublishUnconfirmed, PublishFails
  <2>6. CASE Record(b) \/ RedisFails(b)
    BY <2>6, Zenon DEF Record, RedisFails
  <2>7. CASE Shutdown(b) \/ Stop(b) \/ Die(b) \/ Restart(b)
    <3>1. CASE Shutdown(b) \/ Stop(b) \/ Restart(b)
      BY <3>1, Zenon DEF Shutdown, Stop, Restart
    <3>2. CASE Die(b)
      <4>1. now' = [now EXCEPT ![b] = 0]
        BY <3>2, Zenon DEF Die
      <4> QED BY <4>1 DEF TypeOK
    <3> QED BY <2>7, <3>1, <3>2, Zenon
  <2> QED BY <2>1, <2>2, <2>3, <2>4, <2>5, <2>6, <2>7, Zenon DEF BeatNext
<1>3. index' \in [Beat -> 1..Actions + 1]
  <2>1. \/ index' = index
        \/ index' = [index EXCEPT ![b] = 1]
        \/ pc[b] \in {"locking", "releasing"} /\ index' = [index EXCEPT ![b] = @ + 1]
    BY Zenon
      DEF BeatNext, StartCycle, NextAction, LeaveLoop, AcquireLock, LockNotAcquired,
          AcquireFails,
       ReleaseLock, ReleaseFails, ReadLast, Decide, Publish, PublishUnconfirmed, PublishFails,
       Record, RedisFails, Shutdown, Stop, Die, Restart, Continue
  <2>2. pc[b] \in {"locking", "releasing"} => index[b] \in 1..Actions
    BY Zenon DEF TypeOK
  <2>3. Actions \in Nat /\ index \in [Beat -> 1..Actions + 1]
    BY BeatAssumption, Zenon DEF TypeOK
  <2> QED BY <2>1, <2>2, <2>3
<1>4. mark' \in [Beat -> Nat]
  <2>1. \/ mark' = mark
        \/ \E d \in {0, clock + Blocking, clock + Stall} : mark' = [mark EXCEPT ![b] = d]
    BY Zenon
      DEF BeatNext, StartCycle, NextAction, LeaveLoop, AcquireLock, LockNotAcquired,
          AcquireFails,
       ReleaseLock, ReleaseFails, ReadLast, Decide, Publish, PublishUnconfirmed, PublishFails,
       Record, RedisFails, Shutdown, Stop, Die, Restart, Continue
  <2>2. clock + Blocking \in Nat /\ clock + Stall \in Nat /\ mark \in [Beat -> Nat]
    BY BeatAssumption DEF TypeOK
  <2> QED BY <2>1, <2>2, SMTT(30)
<1>5. stopping' \in [Beat -> BOOLEAN]
  <2>1. \/ stopping' = stopping
        \/ stopping' = [stopping EXCEPT ![b] = TRUE]
        \/ stopping' = [stopping EXCEPT ![b] = FALSE]
    BY Zenon
      DEF BeatNext, StartCycle, NextAction, LeaveLoop, AcquireLock, LockNotAcquired,
          AcquireFails,
       ReleaseLock, ReleaseFails, ReadLast, Decide, Publish, PublishUnconfirmed, PublishFails,
       Record, RedisFails, Shutdown, Stop, Die, Restart
  <2> QED BY <2>1, Zenon DEF TypeOK
<1> QED BY <1>1, <1>2, <1>3, <1>4, <1>5, Zenon DEF OwnTypes

\* What a beat worker has read is a dispatch time.
LEMMA SeenTyped ==
  ASSUME TypeOK, NEW b \in Beat, BeatNext(b)
  PROVE  known' \in [Beat -> Nat \cup {None}]
<1>1. CASE ReadLast(b)
  <2>1. last[index[b]] \in Nat \cup {None}
    BY <1>1, Zenon DEF ReadLast, TypeOK
  <2> QED BY <1>1, <2>1, Zenon DEF ReadLast, TypeOK
<1>2. CASE StartCycle(b) \/ NextAction(b) \/ LeaveLoop(b) \/ Decide(b)
  BY <1>2, Zenon DEF StartCycle, NextAction, LeaveLoop, Decide, TypeOK
<1>3. CASE AcquireLock(b) \/ LockNotAcquired(b) \/ AcquireFails(b)
  BY <1>3, Zenon DEF AcquireLock, LockNotAcquired, AcquireFails, Continue, TypeOK
<1>4. CASE ReleaseLock(b) \/ ReleaseFails(b)
  BY <1>4, Zenon DEF ReleaseLock, ReleaseFails, Continue, TypeOK
<1>5. CASE Publish(b) \/ PublishUnconfirmed(b) \/ PublishFails(b)
  BY <1>5, Zenon DEF Publish, PublishUnconfirmed, PublishFails, TypeOK
<1>6. CASE Record(b) \/ RedisFails(b)
  BY <1>6, Zenon DEF Record, RedisFails, TypeOK
<1>7. CASE Shutdown(b) \/ Stop(b) \/ Die(b) \/ Restart(b)
  BY <1>7, Zenon DEF Shutdown, Stop, Die, Restart, TypeOK
<1> QED BY <1>1, <1>2, <1>3, <1>4, <1>5, <1>6, <1>7, Zenon DEF BeatNext

\* A step of a beat worker changes only that worker's state and what is shared.
LEMMA StepShape ==
  ASSUME TypeOK, NEW b \in Beat, BeatNext(b)
  PROVE  Own(b)
<1> USE BeatAssumption DEF TypeOK, Own
<1>1. CASE StartCycle(b) \/ NextAction(b) \/ LeaveLoop(b)
  BY <1>1 DEF StartCycle, NextAction, LeaveLoop
<1>2. CASE AcquireLock(b) \/ LockNotAcquired(b) \/ AcquireFails(b)
  BY <1>2 DEF AcquireLock, LockNotAcquired, AcquireFails, Continue
<1>3. CASE ReleaseLock(b) \/ ReleaseFails(b)
  BY SMTT(30), <1>3 DEF ReleaseLock, ReleaseFails, Continue
<1>4. CASE ReadLast(b) \/ Decide(b)
  BY <1>4 DEF ReadLast, Decide
<1>5. CASE Publish(b) \/ PublishUnconfirmed(b) \/ PublishFails(b)
  BY <1>5 DEF Publish, PublishUnconfirmed, PublishFails
<1>6. CASE Record(b) \/ RedisFails(b)
  BY <1>6 DEF Record, RedisFails
<1>7. CASE Shutdown(b) \/ Stop(b) \/ Die(b) \/ Restart(b)
  BY <1>7 DEF Shutdown, Stop, Die, Restart
<1> QED BY <1>1, <1>2, <1>3, <1>4, <1>5, <1>6, <1>7, Zenon DEF BeatNext

\* The lock changes in one of these ways.
LEMMA LockShape ==
  ASSUME IInv, NEW b \in Beat, BeatNext(b)
  PROVE  /\ lock' \in [holder : Beat \cup {Nobody, Orphan}, until : Nat]
         /\ \/ UNCHANGED lock
            \/ lock = Free
            \/ lock.holder = b
<1> USE BeatAssumption DEF IInv, TypeOK
<1>1. CASE StartCycle(b) \/ NextAction(b) \/ LeaveLoop(b) \/ LockNotAcquired(b)
  BY <1>1, Zenon DEF StartCycle, NextAction, LeaveLoop, LockNotAcquired
<1>2. CASE AcquireLock(b) \/ AcquireFails(b)
  BY <1>2 DEF AcquireLock, AcquireFails
<1>3. CASE ReleaseLock(b) \/ ReleaseFails(b) \/ Die(b)
  <2>1. \/ UNCHANGED lock
        \/ lock.holder = b /\ lock' = Free
        \/ lock.holder = b /\ lock' = [lock EXCEPT !.holder = Orphan]
    BY <1>3, Zenon DEF ReleaseLock, ReleaseFails, Die, Abandon
  <2> QED BY SMTT(30), <2>1
<1>4. CASE ReadLast(b) \/ Decide(b) \/ Publish(b) \/ PublishUnconfirmed(b) \/ PublishFails(b)
  BY <1>4 DEF ReadLast, Decide, Publish, PublishUnconfirmed, PublishFails
<1>5. CASE Record(b) \/ RedisFails(b) \/ Shutdown(b) \/ Stop(b) \/ Restart(b)
  BY <1>5 DEF Record, RedisFails, Shutdown, Stop, Restart
<1> QED BY <1>1, <1>2, <1>3, <1>4, <1>5, Zenon DEF BeatNext

\* A worker enters the section with the lock and keeps it while it stays.
LEMMA SectionShape ==
  ASSUME IInv, NEW b \in Beat, BeatNext(b), pc'[b] \in Section
  PROVE  \/ AcquireLock(b)
         \/ pc[b] \in Section /\ lock' = lock /\ mark'[b] = mark[b]
<1> USE BeatAssumption DEF IInv, TypeOK
<1>1. CASE StartCycle(b) \/ NextAction(b) \/ LeaveLoop(b) \/ LockNotAcquired(b)
  BY SMTT(30), <1>1 DEF StartCycle, NextAction, LeaveLoop, LockNotAcquired, Continue
<1>2. CASE AcquireFails(b) \/ ReleaseLock(b) \/ ReleaseFails(b)
  BY <1>2 DEF AcquireFails, ReleaseLock, ReleaseFails, Continue
<1>3. CASE ReadLast(b) \/ Decide(b) \/ Publish(b) \/ PublishUnconfirmed(b) \/ PublishFails(b)
  BY <1>3, Zenon DEF ReadLast, Decide, Publish, PublishUnconfirmed, PublishFails
<1>4. CASE Record(b) \/ RedisFails(b) \/ Shutdown(b)
  BY <1>4, Zenon DEF Record, RedisFails, Shutdown
<1>5. CASE Stop(b) \/ Die(b) \/ Restart(b)
  BY <1>5 DEF Stop, Die, Restart
<1> QED BY <1>1, <1>2, <1>3, <1>4, <1>5, Zenon DEF BeatNext

\* The dispatch times and the publishes change in one of these ways.
LEMMA DispatchShape ==
  ASSUME IInv, NEW b \in Beat, BeatNext(b)
  PROVE  \/ UNCHANGED <<last, sent>> /\ pc'[b] # "recording"
         \/ UNCHANGED <<last, sent, index, now>> /\ pc'[b] = "recording" /\ pc[b] = "recording"
         \/ Publish(b)
         \/ PublishUnconfirmed(b)
         \/ Record(b)
<1> USE BeatAssumption DEF IInv, TypeOK
<1>1. CASE StartCycle(b) \/ NextAction(b) \/ LeaveLoop(b) \/ LockNotAcquired(b)
  BY <1>1 DEF StartCycle, NextAction, LeaveLoop, LockNotAcquired, Continue
<1>2. CASE AcquireLock(b) \/ AcquireFails(b) \/ ReleaseLock(b) \/ ReleaseFails(b)
  BY <1>2 DEF AcquireLock, AcquireFails, ReleaseLock, ReleaseFails, Continue
<1>3. CASE ReadLast(b) \/ Decide(b) \/ PublishFails(b) \/ RedisFails(b)
  BY <1>3 DEF ReadLast, Decide, PublishFails, RedisFails
<1>4. CASE Shutdown(b)
  BY <1>4, Zenon DEF Shutdown
<1>5. CASE Stop(b) \/ Die(b) \/ Restart(b)
  BY <1>5 DEF Stop, Die, Restart
<1> QED BY <1>1, <1>2, <1>3, <1>4, <1>5, Zenon DEF BeatNext

\* The action a worker is at stays one while it needs it.
LEMMA IndexShape ==
  ASSUME IInv, NEW b \in Beat, BeatNext(b)
  PROVE  pc'[b] \in Section \cup {"locking"} => index'[b] \in Action
<1> USE BeatAssumption DEF IInv, TypeOK
<1>1. CASE StartCycle(b) \/ NextAction(b) \/ LeaveLoop(b) \/ LockNotAcquired(b)
  BY <1>1 DEF StartCycle, NextAction, LeaveLoop, LockNotAcquired, Continue
<1>2. CASE AcquireLock(b) \/ AcquireFails(b) \/ ReleaseLock(b) \/ ReleaseFails(b)
  BY SMTT(30), <1>2 DEF AcquireLock, AcquireFails, ReleaseLock, ReleaseFails, Continue
<1>3. CASE ReadLast(b) \/ Decide(b) \/ Publish(b) \/ PublishUnconfirmed(b) \/ PublishFails(b)
  BY <1>3, Zenon DEF ReadLast, Decide, Publish, PublishUnconfirmed, PublishFails
<1>4. CASE Record(b) \/ RedisFails(b) \/ Shutdown(b)
  BY <1>4, Zenon DEF Record, RedisFails, Shutdown
<1>5. CASE Stop(b) \/ Die(b) \/ Restart(b)
  BY <1>5 DEF Stop, Die, Restart
<1> QED BY <1>1, <1>2, <1>3, <1>4, <1>5, Zenon DEF BeatNext

-----------------------------------------------------------------------------
\* A step of a beat worker preserves the invariant.
LEMMA BeatKeeps ==
  ASSUME IInv, NEW b \in Beat, BeatNext(b)
  PROVE  IInv'
<1>1. Own(b) /\ OwnTypes' /\ known' \in [Beat -> Nat \cup {None}]
  BY StepShape, StepTypes, SeenTyped, Zenon DEF IInv
<1>2. /\ clock \in Nat
      /\ \A c \in Beat : now[c] \in Nat /\ now[c] <= clock
      /\ \A c \in Beat : now'[c] \in Nat /\ now'[c] <= clock
  <2>1. clock \in Nat /\ \A c \in Beat : now[c] \in Nat /\ now[c] <= clock
    BY Zenon DEF IInv, TypeOK, CycleInThePast
  <2>2. \A c \in Beat : now'[c] \in Nat
    BY <1>1, Zenon DEF OwnTypes
  <2>3. now'[b] <= clock
    BY <1>1, <2>1 DEF Own
  <2>4. \A c \in Beat \ {b} : now'[c] <= clock
    BY <1>1, <2>1, Zenon DEF Own
  <2> QED BY <2>1, <2>2, <2>3, <2>4, Zenon
<1>3. CycleInThePast'
  BY <1>1, <1>2, Zenon DEF CycleInThePast, Own
<1>4. /\ last' \in [Action -> Nat \cup {None}]
      /\ sent' \in [Action -> [odd : BOOLEAN, at : Nat \cup {None}]]
      /\ \A a \in Action : sent[a].at <= sent'[a].at /\ sent'[a].at <= clock
  <2>0. \A a \in Action : sent[a].at \in Int /\ sent[a].at <= clock /\ sent[a].at <= sent[a].at
    <3>1. \A a \in Action : sent[a].at \in Nat \cup {None}
      BY Zenon DEF IInv, TypeOK
    <3> QED BY <3>1 DEF IInv, SentInThePast
  <2>1. CASE UNCHANGED <<last, sent>>
    BY <2>0, <2>1, Zenon DEF IInv, TypeOK
  <2>2. CASE Publish(b) \/ PublishUnconfirmed(b)
    <3>1. index[b] \in Action /\ last' = last
      BY <2>2, Zenon DEF IInv, TypeOK, Publish, PublishUnconfirmed
    <3>2. sent' = [sent EXCEPT ![index[b]] = [odd |-> ~@.odd, at |-> clock]]
      BY <2>2, Zenon DEF Publish, PublishUnconfirmed, Send
    <3>3. sent' \in [Action -> [odd : BOOLEAN, at : Nat \cup {None}]]
      BY <1>2, <3>1, <3>2, Zenon DEF IInv, TypeOK
    <3>4. /\ sent'[index[b]].at = clock
          /\ \A a \in Action \ {index[b]} : sent'[a] = sent[a]
      BY <3>1, <3>2, Zenon DEF IInv, TypeOK
    <3>5. \A a \in Action : sent[a].at <= sent'[a].at /\ sent'[a].at <= clock
      BY <1>2, <2>0, <3>4
    <3> QED BY <3>1, <3>3, <3>5, Zenon DEF IInv, TypeOK
  <2>3. CASE Record(b)
    <3>1. last' = [last EXCEPT ![index[b]] = now[b]] /\ sent' = sent
      BY <2>3, Zenon DEF Record
    <3>2. last' \in [Action -> Nat \cup {None}]
      BY <1>2, <3>1, Zenon DEF IInv, TypeOK
    <3> QED BY <2>0, <3>1, <3>2, Zenon DEF IInv, TypeOK
  <2> QED BY <2>1, <2>2, <2>3, DispatchShape, Zenon
<1>5. TypeOK'
  <2>1. \A c \in Beat : pc'[c] \in Section \cup {"locking"} => index'[c] \in Action
    BY <1>1, IndexShape DEF IInv, TypeOK, Own
  <2>2. clock' \in Nat /\ lock' \in [holder : Beat \cup {Nobody, Orphan}, until : Nat]
    BY <1>1, <1>2, LockShape, Zenon DEF Own
  <2> QED BY <1>1, <1>4, <2>1, <2>2, Zenon DEF TypeOK, OwnTypes
<1>6. SentInThePast'
  BY <1>1, <1>4, Zenon DEF SentInThePast, Own
<1>7. SectionInTime'
  <2> SUFFICES ASSUME NEW c \in Beat, pc'[c] \in Section, Stall < Ttl
               PROVE  lock'.holder = c /\ clock <= mark'[c] /\ mark'[c] < lock'.until
    BY <1>1, Zenon DEF SectionInTime, Own
  <2>1. CASE c = b
    <3>1. CASE AcquireLock(b)
      <4>1. lock' = [holder |-> b, until |-> clock + Ttl] /\ mark'[b] = clock + Stall
        BY <3>1, Zenon DEF AcquireLock, IInv, TypeOK
      <4> QED BY <1>2, <2>1, <4>1, BeatAssumption
    <3>2. CASE pc[b] \in Section /\ lock' = lock /\ mark'[b] = mark[b]
      BY <2>1, <3>2, Zenon DEF IInv, SectionInTime
    <3> QED BY <2>1, <3>1, <3>2, SectionShape
  <2>2. CASE c # b
    <3>1. pc[c] \in Section /\ mark'[c] = mark[c]
      BY <1>1, <2>2, Zenon DEF Own
    <3>2. lock.holder = c /\ clock <= mark[c] /\ mark[c] < lock.until
      BY <3>1, Zenon DEF IInv, SectionInTime
    <3>3. lock # Free /\ lock.holder # b
      BY <2>2, <3>2, BeatAssumption
    <3> QED BY <3>1, <3>2, <3>3, LockShape, Zenon
  <2> QED BY <2>1, <2>2, Zenon
<1>8. PublishedBeforeRecording'
  <2> SUFFICES ASSUME NEW c \in Beat, pc'[c] = "recording"
               PROVE  now'[c] <= sent'[index'[c]].at
    BY Zenon DEF PublishedBeforeRecording
  <2>1. CASE pc[c] = "recording" /\ now'[c] = now[c] /\ index'[c] = index[c]
    <3>1. index[c] \in Action /\ now[c] <= sent[index[c]].at
      BY <2>1, Zenon DEF IInv, TypeOK, PublishedBeforeRecording
    <3>2. sent[index[c]].at \in Nat \cup {None} /\ sent'[index[c]].at \in Nat \cup {None}
      BY <1>4, <3>1, Zenon DEF IInv, TypeOK
    <3> QED BY <1>2, <1>4, <2>1, <3>1, <3>2
  <2>2. CASE c = b /\ Publish(b)
    <3>1. index[b] \in Action /\ index' = index /\ now' = now
      BY <2>2, Zenon DEF IInv, TypeOK, Publish
    <3>2. sent'[index[b]].at = clock
      BY <2>2, <3>1, Zenon DEF IInv, TypeOK, Publish, Send
    <3> QED BY <1>2, <2>2, <3>1, <3>2, Zenon
  <2>3. CASE c = b /\ ~Publish(b)
    <3>1. ~PublishUnconfirmed(b) /\ ~Record(b)
      BY <2>3, Zenon DEF PublishUnconfirmed, Record, IInv, TypeOK
    <3> QED BY <2>1, <2>3, <3>1, DispatchShape, Zenon
  <2>4. CASE c # b
    BY <1>1, <2>1, <2>4, Zenon DEF Own
  <2> QED BY <2>2, <2>3, <2>4, Zenon
<1>9. NeverSkips'
  <2> SUFFICES ASSUME NEW a \in Action, last'[a] # None
               PROVE  last'[a] <= sent'[a].at
    BY Zenon DEF NeverSkips
  <2>0. sent[a].at \in Nat \cup {None} /\ sent'[a].at \in Nat \cup {None}
        /\ last[a] \in Nat \cup {None}
    BY <1>4, Zenon DEF IInv, TypeOK
  <2>1. CASE last'[a] = last[a]
    BY <1>4, <2>0, <2>1 DEF IInv, NeverSkips
  <2>2. CASE last'[a] # last[a]
    <3>1. Record(b)
      BY <2>2, DispatchShape, Zenon DEF Publish, PublishUnconfirmed
    <3>2. a = index[b] /\ last'[a] = now[b] /\ sent' = sent /\ pc[b] = "recording"
      BY <2>2, <3>1, Zenon DEF Record, IInv, TypeOK
    <3> QED BY <3>2, Zenon DEF IInv, PublishedBeforeRecording
  <2> QED BY <2>1, <2>2, Zenon
<1> QED BY <1>3, <1>5, <1>6, <1>7, <1>8, <1>9, Zenon DEF IInv

\* The passing of time preserves the invariant.
LEMMA TickKeeps ==
  ASSUME IInv, Tick
  PROVE  IInv'
<1>1. clock \in Nat /\ clock' = clock + 1
  BY Zenon DEF IInv, TypeOK, Tick
<1>2. TypeOK'
  BY <1>1, BeatAssumption DEF IInv, TypeOK, Tick
<1>3. SectionInTime'
  <2> SUFFICES ASSUME NEW c \in Beat, pc[c] \in Section, Stall < Ttl
               PROVE  lock'.holder = c /\ clock' <= mark[c] /\ mark[c] < lock'.until
    BY Zenon DEF Tick, SectionInTime
  <2>1. lock.holder = c /\ clock < mark[c] /\ mark[c] < lock.until
    BY Zenon DEF IInv, SectionInTime, Tick
  <2>2. mark[c] \in Nat /\ lock.until \in Nat
    BY Zenon DEF IInv, TypeOK
  <2>3. lock' = lock
    BY <1>1, <2>1, <2>2 DEF Tick
  <2> QED BY <1>1, <2>1, <2>2, <2>3
<1>4. CycleInThePast' /\ SentInThePast'
  <2>1. \A c \in Beat : now[c] \in Nat /\ now[c] <= clock
    BY Zenon DEF IInv, TypeOK, CycleInThePast
  <2>2. \A a \in Action : sent[a].at \in Nat \cup {None} /\ sent[a].at <= clock
    BY Zenon DEF IInv, TypeOK, SentInThePast
  <2>3. UNCHANGED <<now, sent>>
    BY Zenon DEF Tick
  <2> QED BY <1>1, <2>1, <2>2, <2>3 DEF CycleInThePast, SentInThePast
<1>5. PublishedBeforeRecording' /\ NeverSkips'
  BY Zenon DEF IInv, PublishedBeforeRecording, NeverSkips, Tick
<1> QED BY <1>2, <1>3, <1>4, <1>5, Zenon DEF IInv

\* IInv holds in every reachable state.
THEOREM BeatInductive == Spec => []IInv
<1>1. Init => IInv
  <2> SUFFICES ASSUME Init PROVE IInv BY Zenon
  <2>1. TypeOK
    BY BeatAssumption DEF Init, TypeOK
  <2>2. SectionInTime /\ CycleInThePast /\ PublishedBeforeRecording /\ SentInThePast /\ NeverSkips
    BY
      DEF Init, SectionInTime, CycleInThePast, PublishedBeforeRecording, SentInThePast,
          NeverSkips
  <2> QED BY <2>1, <2>2, Zenon DEF IInv
<1>2. IInv /\ [Next]_vars => IInv'
  <2> SUFFICES ASSUME IInv, [Next]_vars PROVE IInv' BY Zenon
  <2>1. CASE UNCHANGED vars
    BY <2>1, Zenon
      DEF vars, IInv, TypeOK, SectionInTime, CycleInThePast, PublishedBeforeRecording,
                SentInThePast, NeverSkips
  <2> QED BY <2>1, TickKeeps, BeatKeeps, Zenon DEF Next
<1> QED BY <1>1, <1>2, PTL DEF Spec

\* However many beat workers share the lock, the ones that keep within its TTL are
\* alone between reading and recording a dispatch time (RedisMessageBrokerBackend.lock).
THEOREM BeatsExcludeEachOther == Spec => []LockExclusive
<1>1. IInv => LockExclusive
  BY Zenon DEF IInv, SectionInTime, LockExclusive
<1> QED BY <1>1, BeatInductive, PTL

\* No occurrence of a cron is recorded as dispatched before it was published, even
\* by workers that overrun the TTL, fail or die (BeatWorker.run_scheduled_actions).
THEOREM OccurrencesNotSkipped == Spec => []NeverSkips
<1>1. IInv => NeverSkips
  BY Zenon DEF IInv
<1> QED BY <1>1, BeatInductive, PTL

\* A lock goes by its TTL or by its holder, never by a worker whose own lock expired
\* (_RELEASE_LOCK_SCRIPT).
THEOREM LocksReleasedByHolder == Spec => ReleasedByHolder
<1> DEFINE Step == lock # Free /\ lock' # lock =>
                     \/ lock.until <= clock'
                     \/ lock.holder \in Beat /\ pc'[lock.holder] # pc[lock.holder]
<1>1. IInv /\ [Next]_vars => [Step]_vars
  <2> SUFFICES ASSUME IInv, [Next]_vars, lock # Free, lock' # lock
               PROVE  \/ lock.until <= clock'
                      \/ lock.holder \in Beat /\ pc'[lock.holder] # pc[lock.holder]
    BY Zenon
  <2>1. CASE Tick
    BY <2>1, Zenon DEF Tick
  <2>2. ASSUME NEW b \in Beat, BeatNext(b)
        PROVE  lock.holder = b /\ pc'[b] # pc[b]
    <3>1. lock.holder = b
      BY <2>2, LockShape, Zenon
    <3>2. ReleaseLock(b) \/ ReleaseFails(b) \/ Die(b)
      BY <2>2, ZenonT(60)
        DEF BeatNext, StartCycle, NextAction, LeaveLoop, AcquireLock, LockNotAcquired,
             AcquireFails, ReadLast, Decide, Publish, PublishUnconfirmed, PublishFails, Record,
             RedisFails, Shutdown, Stop, Restart
    <3>3. pc'[b] # pc[b]
      BY <3>2, Zenon DEF ReleaseLock, ReleaseFails, Die, Continue, IInv, TypeOK
    <3> QED BY <3>1, <3>3, Zenon
  <2>3. CASE UNCHANGED vars
    BY <2>3, Zenon DEF vars
  <2> QED BY <2>1, <2>2, <2>3, Zenon DEF Next
<1> QED BY <1>1, BeatInductive, PTL DEF Spec, ReleasedByHolder

-----------------------------------------------------------------------------
(* Scheduled actions.                                                      *)

\* The last task of a worker is the only one that may not be done, and it has its slot.
OVInv ==
  /\ current \in [Worker -> 0..Triggers]
  /\ tasks \in [Worker -> SUBSET Trigger]
  /\ running \in [Worker -> SUBSET Trigger]
  /\ busy \in [Worker -> Nat]
  /\ waiting \subseteq Trigger
  /\ fired \in Nat
  /\ \A w \in Worker : running[w] \subseteq tasks[w] /\ tasks[w] \subseteq {current[w]}
  /\ \A w \in Worker : Cardinality(running[w]) + busy[w] <= Prefetch

LEMMA AtMostOne ==
  ASSUME NEW c, NEW X \in SUBSET {c}
  PROVE  Cardinality(X) = IF X = {} THEN 0 ELSE 1
<1>1. X = {} \/ X = {c}
  BY Zenon
<1> QED BY <1>1, FS_EmptySet, FS_Singleton, Zenon

\* A step of worker w leaves the others alone: it is enough to look at w.
LEMMA WorkerOnly ==
  ASSUME OVInv, NEW w \in Worker,
         UNCHANGED fired, waiting' \subseteq waiting,
         NEW c \in 0..Triggers, current' = [current EXCEPT ![w] = c],
         NEW T \in SUBSET Trigger, tasks' = [tasks EXCEPT ![w] = T],
         NEW R \in SUBSET Trigger, running' = [running EXCEPT ![w] = R],
         NEW b \in Nat, busy' = [busy EXCEPT ![w] = b],
         R \subseteq T, T \subseteq {c}, Cardinality(R) + b <= Prefetch
  PROVE  OVInv'
BY Zenon DEF OVInv

LEMMA WorkerOV ==
  ASSUME OVInv, NEW w \in Worker, WorkerStep(w)
  PROVE  OVInv'
<1> USE ScheduledAssumption DEF OVInv
<1>0. /\ current' = [current EXCEPT ![w] = current'[w]]
      /\ tasks' = [tasks EXCEPT ![w] = tasks'[w]]
      /\ running' = [running EXCEPT ![w] = running'[w]]
      /\ busy' = [busy EXCEPT ![w] = busy'[w]]
      /\ UNCHANGED fired /\ waiting' \subseteq waiting
  BY SMTT(30)
    DEF WorkerStep, WorkerGoesOn, TakeTrigger, TriggerDropped, TriggerSkipped, TriggerTaken,
     EndAction, WorkerLeaves, StartAction, OtherStarts, OtherEnds, StopWorker, WorkerDies,
     TaskDone, workerVars
<1>1. current'[w] \in 0..Triggers /\ tasks'[w] \in SUBSET Trigger /\ running'[w] \in SUBSET Trigger
  <2>1. CASE TriggerTaken(w)
    BY <2>1 DEF TriggerTaken, Trigger
  <2>2. CASE StartAction(w)
    BY <2>2 DEF StartAction, TaskDone
  <2>3. CASE EndAction(w)
    BY <2>3, SMTT(30) DEF EndAction, TaskDone
  <2>4. CASE ~TriggerTaken(w) /\ ~StartAction(w) /\ ~EndAction(w)
    BY <2>4, SMTT(30) DEF WorkerStep, WorkerGoesOn, TakeTrigger, TriggerDropped, TriggerSkipped,
       WorkerLeaves, OtherStarts, OtherEnds, StopWorker, WorkerDies, workerVars
  <2> QED BY <2>1, <2>2, <2>3, <2>4, Zenon
<1>2. running'[w] \subseteq tasks'[w] /\ tasks'[w] \subseteq {current'[w]}
  <2>1. CASE TriggerTaken(w)
    BY <2>1 DEF TriggerTaken
  <2>2. CASE StartAction(w)
    BY <2>2 DEF StartAction, TaskDone
  <2>3. CASE EndAction(w)
    BY <2>3, SMTT(30) DEF EndAction, TaskDone
  <2>4. CASE ~TriggerTaken(w) /\ ~StartAction(w) /\ ~EndAction(w)
    BY <2>4, Zenon DEF WorkerStep, WorkerGoesOn, TakeTrigger, TriggerDropped, TriggerSkipped,
       WorkerLeaves, OtherStarts, OtherEnds, StopWorker, WorkerDies, workerVars
  <2> QED BY <2>1, <2>2, <2>3, <2>4, Zenon
<1>3. Cardinality(running[w]) = (IF running[w] = {} THEN 0 ELSE 1)
      /\ Cardinality(running'[w]) = (IF running'[w] = {} THEN 0 ELSE 1)
  BY <1>2, AtMostOne, Zenon
<1>4. busy'[w] \in Nat /\ Cardinality(running'[w]) + busy'[w] <= Prefetch
  <2>1. CASE StartAction(w)
    BY <1>3, <2>1 DEF StartAction, TaskDone, HasSlot
  <2>2. CASE OtherStarts(w)
    BY <1>3, <2>2 DEF OtherStarts, HasSlot
  <2>3. CASE OtherEnds(w)
    BY <1>3, <2>3 DEF OtherEnds
  <2>4. CASE WorkerDies(w)
    BY <1>3, <2>4 DEF WorkerDies
  <2>5. CASE EndAction(w)
    BY <1>3, <2>5 DEF EndAction, TaskDone
  <2>6. CASE TakeTrigger(w) \/ WorkerLeaves(w) \/ StopWorker(w)
    BY <1>3, <2>6, Zenon
      DEF TakeTrigger, TriggerDropped, TriggerSkipped, TriggerTaken, WorkerLeaves,
       StopWorker, workerVars
  <2> QED BY <2>1, <2>2, <2>3, <2>4, <2>5, <2>6, Zenon DEF WorkerStep, WorkerGoesOn
<1> QED BY <1>0, <1>1, <1>2, <1>4, WorkerOnly

\* In one worker a scheduled action never overlaps itself, however the triggers, the
\* shutdown and the other handlers of its channel come in between: _current_task is
\* looked at before a trigger is taken, and the task counts while it waits for its slot
\* (ScheduledMessageHandlerCallback.__call__, run_within_processing_slot).
THEOREM ActionsDoNotOverlap == SchedSpec => []NoOverlapInWorker
<1>1. SchedInit => OVInv
  BY ScheduledAssumption, FS_EmptySet DEF SchedInit, OVInv
<1>2. OVInv /\ [SchedNext]_schedVars => OVInv'
  <2>1. CASE OVInv /\ \E w \in Worker : WorkerStep(w)
    BY <2>1, WorkerOV, Zenon
  <2>2. CASE OVInv /\ Fire
    BY <2>2, ScheduledAssumption, SMTT(30) DEF OVInv, Fire, workerVars, Trigger
  <2>3. CASE OVInv /\ (BeatStart \/ FireFails \/ StopBeat \/ BrokerLinkChanges \/ UNCHANGED schedVars)
    BY <2>3, Zenon
      DEF OVInv, BeatStart, Initialize, CheckHealth, EnterLoop, LeaveBeatLoop, FireFails,
       StopBeat, BrokerLinkChanges, workerVars, schedVars
  <2> QED BY <2>1, <2>2, <2>3, Zenon DEF SchedNext
<1>3. OVInv => NoOverlapInWorker
  <2> SUFFICES ASSUME OVInv, NEW w \in Worker
               PROVE  /\ Cardinality(tasks[w]) <= 1
                      /\ Cardinality(running[w]) + busy[w] <= Prefetch
    BY Zenon DEF NoOverlapInWorker
  <2>1. tasks[w] \in SUBSET {current[w]}
    BY Zenon DEF OVInv
  <2>2. Cardinality(tasks[w]) <= 1
    BY <2>1, AtMostOne, SMTT(30)
  <2> QED BY <2>2, Zenon DEF OVInv
<1> QED BY <1>1, <1>2, <1>3, PTL DEF SchedSpec
=============================================================================
