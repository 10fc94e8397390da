----------------------- MODULE MessageBusWorkerProofs -----------------------
(***************************************************************************)
(* Proofs about MessageBusWorker, for every value of its constants.        *)
(*                                                                         *)
(* First what the steps keep: the steps of a task come in four shapes      *)
(* (TaskStepShape) and the lemmas that keep the conjuncts of IInv split    *)
(* Next along these shapes; the lemmas about settlements split them by     *)
(* what they do to the task's delivery (TaskStepKinds).  Inductive shows   *)
(* IInv from these and the count of the processing tasks.  The theorems    *)
(* with hypotheses on the faults or the handlers say what holds as long as *)
(* those stay away; their invariants are inductive relative to IInv.       *)
(***************************************************************************)
EXTENDS MessageBusWorker, FiniteSetTheorems, TLAPS

USE DEF Copy, Place, Nil

Dispositions == {"none", "ack", "nack", "reject", "retry"}

\* The task ends and no copy moves.
TaskEnds(t) ==
  /\ pc[t] \in Processing
  /\ EndTask(t)
  /\ committed' \in [Copy -> BOOLEAN]
  /\ UNCHANGED <<copyVars, link, phase, pending>>

\* The task goes on, and perhaps settles its delivery.
TaskMoves(t) ==
  /\ pc[t] \in Processing
  /\ \E l \in Processing \ {"confirming"} : Goto(t, l)
  /\ \/ UNCHANGED <<copyVars, processed>>
     \/ \E p \in {"queue", "dlq", "done"} : Settle(t, p)
     \/ pc[t] = "confirming" /\ Settle(t, "superseded")
  /\ disposition' \in [Task -> Dispositions]
  /\ via' \in [Task -> {"none", "worker", "handler"}]
  /\ UNCHANGED <<delivery, live, workerVars, committed>>

\* Every step of a task has one of four shapes.
LEMMA TaskStepShape ==
  ASSUME TypeOK, NEW t \in Task, TaskStep(t)
  PROVE  TaskEnds(t) \/ TaskMoves(t) \/ AcquireSlot(t) \/ EnqueueRetry(t)
<1> USE DEF TypeOK, Processing, InsideTimeout, Dispositions
<1>1. CASE EnterUow(t) \/ Unwind(t) \/ Timeout(t) \/ LeaveHandler(t)
  BY <1>1, Zenon DEF EnterUow, Unwind, Timeout, LeaveHandler, TaskMoves, Goto
<1>2. CASE EnterUowFails(t) \/ ExitUow(t) \/ ExitUowFails(t) \/ AbortUow(t)
  BY <1>2, Zenon DEF EnterUowFails, ExitUow, ExitUowFails, AbortUow, TaskEnds
<1>3. CASE HandlerReturns(t) \/ PayloadInvalid(t) \/ RejectAfterDelay(t)
  BY <1>3, Zenon DEF HandlerReturns, PayloadInvalid, RejectAfterDelay, TaskMoves
<1>4. CASE HandlerRaises(t) \/ UnwindRaises(t) \/ HandlerRetries(t)
  BY <1>4, Zenon DEF HandlerRaises, UnwindRaises, HandlerRetries, OnException, TaskMoves
<1>5. CASE HandlerAcks(t)
  <2>1. Goto(t, "running")
    BY <1>5, Zenon DEF HandlerAcks, Goto
  <2> QED BY <1>5, <2>1, Zenon DEF HandlerAcks, TaskMoves
<1>6. CASE HandlerRetriesAstray(t) \/ \E op \in {"nack", "reject"} : HandlerDisposes(t, op)
  BY <1>6 DEF HandlerRetriesAstray, HandlerDisposes, TaskMoves
<1>7. CASE \/ BudgetExhausted(t) \/ EnqueueRetryFails(t) \/ EnqueueReplyLost(t)
           \/ AckAfterEnqueue(t)
  BY <1>7, Zenon DEF BudgetExhausted, EnqueueRetryFails, EnqueueReplyLost, AckAfterEnqueue,
     ReturnFromSchedule, TaskMoves
<1> QED BY <1>1, <1>2, <1>3, <1>4, <1>5, <1>6, <1>7, Zenon DEF TaskStep

\* The worker process creates no copy.  It leaves copies and tasks alone, or loses the
\* channel of every delivery, and then the tasks go on or die with the process.
LEMMA WorkerStepShape ==
  ASSUME WorkerStep
  PROVE  /\ UNCHANGED <<origin, retries, nextCopy>>
         /\ \/ UNCHANGED <<place, taskVars>>
            \/ /\ Redeliver
               /\ live' = [t \in Task |-> FALSE]
               /\ \/ UNCHANGED <<pc, delivery>>
                  \/ pc' = [t \in Task |-> "idle"]
<1>1. CASE \E to \in {"channelClosed", "connectionClosed"} : LinkCloses(to)
  BY <1>1, Zenon DEF LinkCloses
<1>2. CASE Shutdown \/ HealthCheckFails \/ StartDrain \/ Start
  BY <1>2, Zenon DEF Shutdown, HealthCheckFails, StartDrain, Start, copyVars
<1>3. CASE Stop
  BY <1>3, Zenon DEF Stop
<1>4. CASE Crash
  BY <1>4, Zenon DEF Crash
<1> QED BY <1>1, <1>2, <1>3, <1>4, Zenon DEF WorkerStep

-----------------------------------------------------------------------------
\* Copies are only ever created in order.
LEMMA CopiesAllocatedKept ==
  ASSUME TypeOK, CopiesAllocated, TasksHoldCopies, Next
  PROVE  CopiesAllocated'
<1> USE WorkerAssumption DEF TypeOK, CopiesAllocated
<1>1. CASE \E m \in Message : Publish(m)
  BY <1>1 DEF Publish, Create
<1>2. CASE \E c \in Copy, t \in Task : Deliver(c, t)
  BY <1>2 DEF Deliver
<1>3. CASE \E t \in Task : TaskStep(t)
  <2> PICK t \in Task : TaskStep(t) BY <1>3, Zenon
  <2>1. CASE TaskEnds(t) \/ AcquireSlot(t)
    BY <2>1 DEF TaskEnds, AcquireSlot, copyVars
  <2>2. CASE TaskMoves(t)
    <3>1. delivery[t] \in Copy /\ delivery[t] < nextCopy
      BY <2>2, Zenon DEF TaskMoves, Processing, InsideTimeout, TasksHoldCopies
    <3>2. CASE UNCHANGED copyVars
      BY <3>2, Zenon DEF copyVars
    <3>3. CASE \E p \in Place \ {"free"} : Settle(t, p)
      BY <3>1, <3>3 DEF Settle
    <3> QED BY <2>2, <3>2, <3>3, Zenon DEF TaskMoves, copyVars
  <2>3. CASE EnqueueRetry(t)
    BY <2>3 DEF EnqueueRetry, Create, TasksHoldCopies
  <2> QED BY <2>1, <2>2, <2>3, TaskStepShape, Zenon
<1>4. CASE WorkerStep
  BY <1>4, WorkerStepShape DEF Redeliver
<1>5. CASE \E c \in Copy : BeatStep(c)
  BY SMTT(30), <1>5
    DEF BeatStep, BeatClaims, BeatDispatches, BeatPutsBack, BeatPutsBackPublished,
     BeatLoses, MoveCopy
<1> QED BY <1>1, <1>2, <1>3, <1>4, <1>5, Zenon DEF Next

\* A task keeps the copy it was created for until it ends.
LEMMA TasksHoldCopiesKept ==
  ASSUME TypeOK, CopiesAllocated, TasksHoldCopies, Next
  PROVE  TasksHoldCopies'
<1> USE WorkerAssumption DEF TypeOK, TasksHoldCopies
<1>1. CASE \E m \in Message : Publish(m)
  BY <1>1 DEF Publish, Create, taskVars
<1>2. CASE \E c \in Copy, t \in Task : Deliver(c, t)
  BY <1>2 DEF Deliver, Goto, CopiesAllocated
<1>3. CASE \E t \in Task : TaskStep(t)
  <2> PICK t \in Task : TaskStep(t) BY <1>3, Zenon
  <2>1. CASE TaskEnds(t)
    BY <2>1, Zenon DEF TaskEnds, EndTask, copyVars
  <2>2. CASE TaskMoves(t)
    BY <2>2 DEF TaskMoves, Goto, Settle, copyVars, Processing, InsideTimeout
  <2>3. CASE AcquireSlot(t) \/ EnqueueRetry(t)
    BY <2>3 DEF AcquireSlot, EnqueueRetry, Create, Goto, copyVars
  <2> QED BY <2>1, <2>2, <2>3, TaskStepShape, Zenon
<1>4. CASE WorkerStep
  BY <1>4, WorkerStepShape DEF taskVars
<1>5. CASE \E c \in Copy : BeatStep(c)
  BY <1>5 DEF BeatStep, BeatClaims, BeatDispatches, BeatPutsBack, BeatPutsBackPublished,
     BeatLoses, MoveCopy, taskVars
<1> QED BY <1>1, <1>2, <1>3, <1>4, <1>5, Zenon DEF Next

\* schedule_retry stops at MaxRetries, and every other new copy repeats a counter
\* that exists.
LEMMA RetryBudgetKept ==
  ASSUME TypeOK, TasksHoldCopies, RetryBudget, Next
  PROVE  RetryBudget'
<1> USE WorkerAssumption DEF TypeOK, RetryBudget
<1>1. CASE \E m \in Message : Publish(m)
  BY <1>1 DEF Publish, Create
<1>2. CASE \E c \in Copy, t \in Task : Deliver(c, t)
  BY <1>2, Zenon DEF Deliver
<1>3. CASE \E t \in Task : TaskStep(t)
  <2> PICK t \in Task : TaskStep(t) BY <1>3, Zenon
  <2>1. CASE TaskEnds(t) \/ TaskMoves(t) \/ AcquireSlot(t)
    BY <2>1, Zenon DEF TaskEnds, TaskMoves, AcquireSlot, Settle, copyVars
  <2>2. CASE EnqueueRetry(t)
    BY <2>2 DEF EnqueueRetry, Create, TasksHoldCopies
  <2> QED BY <2>1, <2>2, TaskStepShape, Zenon
<1>4. CASE WorkerStep
  BY <1>4, WorkerStepShape, Zenon
<1>5. CASE \E c \in Copy : BeatStep(c)
  BY <1>5 DEF BeatStep, BeatClaims, BeatDispatches, BeatPutsBack, BeatPutsBackPublished,
     BeatLoses, MoveCopy
<1> QED BY <1>1, <1>2, <1>3, <1>4, <1>5, Zenon DEF Next

-----------------------------------------------------------------------------
\* Only the task that owns a delivery moves its copy while it is unacknowledged,
\* and a closed link takes every delivery from its task.
LEMMA SettlementOwnedKept ==
  ASSUME TypeOK, CopiesAllocated, TasksHoldCopies, SettlementOwned, Next
  PROVE  SettlementOwned'
<1> USE WorkerAssumption DEF TypeOK, SettlementOwned, CanSettle, TasksHoldCopies
<1>1. CASE \E m \in Message : Publish(m)
  BY <1>1 DEF Publish, Create, taskVars, CopiesAllocated
<1>2. CASE \E c \in Copy, t \in Task : Deliver(c, t)
  BY <1>2, SMTT(30) DEF Deliver
<1>3. CASE \E t \in Task : TaskStep(t)
  <2> PICK t \in Task : TaskStep(t) BY <1>3, Zenon
  <2>1. CASE TaskEnds(t)
    BY <2>1 DEF TaskEnds, EndTask, copyVars
  <2>2. CASE TaskMoves(t)
    <3>1. CASE UNCHANGED <<copyVars, processed>>
      BY <2>2, <3>1, Zenon DEF TaskMoves, copyVars
    <3>2. CASE \E p \in Place : Settle(t, p)
      BY <2>2, <3>2 DEF TaskMoves, Settle
    <3> QED BY <2>2, <3>1, <3>2 DEF TaskMoves
  <2>3. CASE AcquireSlot(t)
    BY <2>3, Zenon DEF AcquireSlot, copyVars
  <2>4. CASE EnqueueRetry(t)
    BY <2>4 DEF EnqueueRetry, Create, CopiesAllocated
  <2> QED BY <2>1, <2>2, <2>3, <2>4, TaskStepShape, Zenon
<1>4. CASE WorkerStep
  <2>1. CASE UNCHANGED <<place, taskVars>>
    BY <2>1, Zenon DEF taskVars
  <2>2. CASE live' = [t \in Task |-> FALSE]
    BY <2>2, Zenon
  <2> QED BY <1>4, <2>1, <2>2, WorkerStepShape, Zenon
<1>5. CASE \E c \in Copy : BeatStep(c)
  BY <1>5 DEF BeatStep, BeatClaims, BeatDispatches, BeatPutsBack, BeatPutsBackPublished,
     BeatLoses, MoveCopy, taskVars, CopiesAllocated
<1> QED BY <1>1, <1>2, <1>3, <1>4, <1>5, Zenon DEF Next

\* No task starts after the snapshot of wait_all_tasks_done.
LEMMA SnapshotCompleteKept ==
  ASSUME TypeOK, SnapshotComplete, Next
  PROVE  SnapshotComplete'
<1> USE WorkerAssumption DEF TypeOK, SnapshotComplete, DrainedBeforeStop
<1>1. CASE \E m \in Message : Publish(m)
  BY <1>1, Zenon DEF Publish, taskVars, workerVars
<1>2. CASE \E c \in Copy, t \in Task : Deliver(c, t)
  BY <1>2, Zenon DEF Deliver, workerVars
<1>3. CASE \E t \in Task : TaskStep(t)
  <2> PICK t \in Task : TaskStep(t) BY <1>3, Zenon
  <2>1. CASE TaskEnds(t)
    BY <2>1 DEF TaskEnds, EndTask
  <2>2. CASE TaskMoves(t)
    BY <2>2 DEF TaskMoves, Goto, workerVars, Processing, InsideTimeout
  <2>3. CASE AcquireSlot(t) \/ EnqueueRetry(t)
    BY <2>3 DEF AcquireSlot, EnqueueRetry, Goto, workerVars
  <2> QED BY <2>1, <2>2, <2>3, TaskStepShape, Zenon
<1>4. CASE WorkerStep
  BY <1>4 DEF WorkerStep, LinkCloses, Shutdown, HealthCheckFails, StartDrain, Stop, Crash,
     Start, copyVars, taskVars
<1>5. CASE \E c \in Copy : BeatStep(c)
  BY <1>5, Zenon DEF BeatStep, BeatClaims, BeatDispatches, BeatPutsBack, BeatPutsBackPublished,
     BeatLoses, MoveCopy, taskVars, workerVars
<1> QED BY <1>1, <1>2, <1>3, <1>4, <1>5, Zenon DEF Next

-----------------------------------------------------------------------------
\* A copy never disappears and never changes its message or its counter.
CopiesPersist ==
  \A c \in Copy : place[c] # "free" =>
    place'[c] # "free" /\ origin'[c] = origin[c] /\ retries'[c] = retries[c]

\* No step takes a copy back (Settle, MoveCopy, Create, Redeliver).
LEMMA CopiesPersisting ==
  ASSUME TypeOK, CopiesAllocated, TasksHoldCopies, Next
  PROVE  CopiesPersist
<1> USE WorkerAssumption DEF TypeOK, CopiesPersist, CopiesAllocated
<1>1. CASE \E m \in Message : Publish(m)
  BY <1>1 DEF Publish, Create
<1>2. CASE \E c \in Copy, t \in Task : Deliver(c, t)
  BY <1>2 DEF Deliver
<1>3. CASE \E t \in Task : TaskStep(t)
  <2> PICK t \in Task : TaskStep(t) BY <1>3
  <2>1. CASE TaskEnds(t) \/ AcquireSlot(t)
    BY <2>1, Zenon DEF TaskEnds, AcquireSlot, copyVars
  <2>2. CASE TaskMoves(t)
    <3>1. CASE UNCHANGED copyVars
      BY <3>1, Zenon DEF copyVars
    <3>2. CASE \E p \in Place \ {"free"} : Settle(t, p)
      BY <3>2, Zenon DEF Settle
    <3> QED BY <2>2, <3>1, <3>2, Zenon DEF TaskMoves, copyVars
  <2>3. CASE EnqueueRetry(t)
    BY <2>3 DEF EnqueueRetry, Create
  <2> QED BY <2>1, <2>2, <2>3, TaskStepShape, Zenon
<1>4. CASE WorkerStep
  BY <1>4, WorkerStepShape DEF Redeliver
<1>5. CASE \E c \in Copy : BeatStep(c)
  BY <1>5 DEF BeatStep, BeatClaims, BeatDispatches, BeatPutsBack, BeatPutsBackPublished,
     BeatLoses, MoveCopy
<1> QED BY <1>1, <1>2, <1>3, <1>4, <1>5, Zenon DEF Next

\* The only step that acknowledges a copy in favour of a later one is
\* AckAfterEnqueue, and it changes the place of no other copy.
LEMMA OnlyAckSupersedes ==
  ASSUME TypeOK, CopiesAllocated, TasksHoldCopies, Next,
         NEW c \in Copy, place[c] # "superseded", place'[c] = "superseded"
  PROVE  \E t \in Task : /\ pc[t] = "confirming"
                         /\ delivery[t] = c
                         /\ place' = [place EXCEPT ![c] = "superseded"]
<1> USE WorkerAssumption DEF TypeOK
<1>1. CASE \E m \in Message : Publish(m)
  BY <1>1 DEF Publish, Create
<1>2. CASE \E d \in Copy, t \in Task : Deliver(d, t)
  BY <1>2 DEF Deliver
<1>3. CASE \E t \in Task : TaskStep(t)
  <2> PICK t \in Task : TaskStep(t) BY <1>3, Zenon
  <2>1. CASE TaskEnds(t) \/ AcquireSlot(t)
    BY <2>1, Zenon DEF TaskEnds, AcquireSlot, copyVars
  <2>2. CASE TaskMoves(t)
    <3>1. CASE UNCHANGED copyVars
      BY <3>1, Zenon DEF copyVars
    <3>2. CASE \E p \in {"queue", "dlq", "done"} : Settle(t, p)
      BY <3>2, Zenon DEF Settle
    <3>3. CASE pc[t] = "confirming" /\ Settle(t, "superseded")
      BY <3>3, Zenon DEF Settle
    <3> QED BY <2>2, <3>1, <3>2, <3>3, Zenon DEF TaskMoves, copyVars
  <2>3. CASE EnqueueRetry(t)
    BY <2>3, Zenon DEF EnqueueRetry, Create
  <2> QED BY <2>1, <2>2, <2>3, TaskStepShape, Zenon
<1>4. CASE WorkerStep
  BY <1>4, WorkerStepShape DEF Redeliver
<1>5. CASE \E d \in Copy : BeatStep(d)
  BY <1>5 DEF BeatStep, BeatClaims, BeatDispatches, BeatPutsBack, BeatPutsBackPublished,
     BeatLoses, MoveCopy
<1> QED BY <1>1, <1>2, <1>3, <1>4, <1>5, Zenon DEF Next

\* The successor of a superseded copy carries the lineage on.
LEMMA LineageSurvivesKept ==
  ASSUME TypeOK, TypeOK', CopiesAllocated, TasksHoldCopies, LineageSurvives,
         SuccessorScheduled, Next
  PROVE  LineageSurvives'
<1> DEFINE Unsuperseded(c, d) ==
      d \in Copy /\ origin[d] = origin[c] /\ retries[d] >= retries[c]
        /\ place[d] \notin {"free", "superseded"}
<1>0. /\ CopiesPersist
      /\ CopiesAllocated'
      /\ retries \in [Copy -> Nat]
  BY CopiesPersisting, CopiesAllocatedKept, Zenon DEF TypeOK
<1> SUFFICES ASSUME NEW c \in Copy, place'[c] # "free"
             PROVE  \E d \in Copy : /\ origin'[d] = origin'[c] /\ retries'[d] >= retries'[c]
                                    /\ place'[d] \notin {"free", "superseded"}
  BY Zenon DEF LineageSurvives, CopiesOf
<1>1. CASE place[c] = "free"
  <2>1. place'[c] # "superseded"
    BY <1>1, <1>0, OnlyAckSupersedes, SMTT(30) DEF TasksHoldCopies, CopiesAllocated, TypeOK
  <2>2. retries'[c] \in Nat
    BY Zenon DEF TypeOK
  <2> QED BY <2>1, <2>2
<1>2. CASE place[c] # "free"
  <2>1. PICK d : Unsuperseded(c, d)
    BY <1>2, Zenon DEF LineageSurvives, CopiesOf
  <2>2. CASE place'[d] # "superseded"
    BY <1>0, <1>2, <2>1, <2>2, Zenon DEF CopiesPersist
  <2>3. CASE place'[d] = "superseded"
    <3>1. PICK t \in Task : /\ pc[t] = "confirming"
                            /\ delivery[t] = d
                            /\ place' = [place EXCEPT ![d] = "superseded"]
      BY <2>1, <2>3, OnlyAckSupersedes, Zenon
    <3>2. PICK k \in Copy : /\ origin[k] = origin[d]
                            /\ place[k] # "free"
                            /\ retries[k] = retries[d] + 1
      BY <3>1, Zenon DEF SuccessorScheduled, CopiesOf
    <3>3. PICK e : Unsuperseded(k, e)
      BY <3>2, Zenon DEF LineageSurvives, CopiesOf
    <3>4. e # d /\ Unsuperseded(c, e)
      BY <1>0, <2>1, <3>2, <3>3
    <3>5. place'[e] = place[e]
      BY <3>1, <3>3, <3>4, Zenon DEF TypeOK
    <3> QED BY <1>0, <1>2, <3>3, <3>4, <3>5, Zenon DEF CopiesPersist
  <2> QED BY <2>2, <2>3, Zenon
<1> QED BY <1>1, <1>2, Zenon

\* A task reaches its acknowledgement only by creating the successor.
LEMMA SuccessorScheduledKept ==
  ASSUME TypeOK, CopiesAllocated, TasksHoldCopies, SuccessorScheduled, Next
  PROVE  SuccessorScheduled'
<1>0. CopiesPersist
  BY CopiesPersisting, Zenon
<1> SUFFICES ASSUME NEW t \in Task, pc'[t] = "confirming"
             PROVE  \E d \in Copy : /\ origin'[d] = origin'[delivery'[t]]
                                    /\ place'[d] # "free"
                                    /\ retries'[d] = retries'[delivery'[t]] + 1
  BY Zenon DEF SuccessorScheduled, CopiesOf
<1>1. CASE pc[t] = "confirming" /\ delivery'[t] = delivery[t]
  <2>1. PICK d \in Copy : /\ origin[d] = origin[delivery[t]]
                          /\ place[d] # "free"
                          /\ retries[d] = retries[delivery[t]] + 1
    BY <1>1, Zenon DEF SuccessorScheduled, CopiesOf
  <2>2. delivery[t] \in Copy /\ place[delivery[t]] # "free"
    BY <1>1, Zenon DEF TasksHoldCopies, CopiesAllocated
  <2> QED BY <1>0, <1>1, <2>1, <2>2, Zenon DEF CopiesPersist
<1>2. CASE EnqueueRetry(t)
  <2>1. delivery[t] \in Copy /\ delivery[t] < nextCopy /\ nextCopy \in Copy
    BY <1>2, WorkerAssumption, SMTT(30) DEF EnqueueRetry, Create, TasksHoldCopies, TypeOK
  <2> QED BY <1>2, <2>1 DEF EnqueueRetry, Create, TypeOK
<1>3. (pc[t] = "confirming" /\ delivery'[t] = delivery[t]) \/ EnqueueRetry(t)
  <2> USE DEF TypeOK
  <2>1. CASE \E u \in Task : TaskStep(u)
    <3> PICK u \in Task : TaskStep(u) BY <2>1, Zenon
    <3>1. CASE TaskEnds(u)
      BY <3>1, Zenon DEF TaskEnds, EndTask
    <3>2. CASE TaskMoves(u)
      BY <3>2, Zenon DEF TaskMoves, Goto
    <3>3. CASE AcquireSlot(u)
      BY <3>3, Zenon DEF AcquireSlot, Goto
    <3>4. CASE EnqueueRetry(u)
      BY <3>4, Zenon DEF EnqueueRetry, Goto
    <3> QED BY <3>1, <3>2, <3>3, <3>4, TaskStepShape, Zenon
  <2>2. CASE \E m \in Message : Publish(m)
    BY <2>2, Zenon DEF Publish, taskVars
  <2>3. CASE \E c \in Copy, u \in Task : Deliver(c, u)
    BY <2>3 DEF Deliver, Goto
  <2>4. CASE WorkerStep
    BY <2>4, Zenon
      DEF WorkerStep, LinkCloses, Shutdown, HealthCheckFails, StartDrain, Stop, Crash,
       Start, taskVars
  <2>5. CASE \E c \in Copy : BeatStep(c)
    BY <2>5, Zenon
      DEF BeatStep, BeatClaims, BeatDispatches, BeatPutsBack, BeatPutsBackPublished,
       BeatLoses, MoveCopy, taskVars
  <2> QED BY <2>1, <2>2, <2>3, <2>4, <2>5, Zenon DEF Next
<1> QED BY <1>1, <1>2, <1>3, Zenon

\* Whoever acts, a settled copy is never moved again (Settle, Redeliver, MoveCopy).
LEMMA SettledForGood ==
  ASSUME IInv, Next
  PROVE  \A c \in Copy : place[c] \in Final => place'[c] = place[c]
<1> USE WorkerAssumption DEF IInv, TypeOK, Final
<1>1. CASE \E m \in Message : Publish(m)
  BY <1>1 DEF Publish, Create, CopiesAllocated
<1>2. CASE \E c \in Copy, t \in Task : Deliver(c, t)
  BY <1>2 DEF Deliver
<1>3. CASE \E t \in Task : TaskStep(t)
  <2> PICK t \in Task : TaskStep(t) BY <1>3, Zenon
  <2>1. CASE TaskEnds(t) \/ AcquireSlot(t)
    BY <2>1, Zenon DEF TaskEnds, AcquireSlot, copyVars
  <2>2. CASE TaskMoves(t)
    <3>1. CASE UNCHANGED copyVars
      BY <3>1, Zenon DEF copyVars
    <3>2. CASE \E p \in Place : Settle(t, p)
      BY <3>2 DEF Settle, SettlementOwned
    <3> QED BY <2>2, <3>1, <3>2 DEF TaskMoves, copyVars
  <2>3. CASE EnqueueRetry(t)
    BY <2>3 DEF EnqueueRetry, Create, CopiesAllocated
  <2> QED BY <2>1, <2>2, <2>3, TaskStepShape, Zenon
<1>4. CASE WorkerStep
  <2>1. place' = place \/ Redeliver
    BY <1>4, WorkerStepShape, Zenon
  <2>2. CASE place' = place
    BY <2>2, Zenon
  <2>3. CASE Redeliver
    BY <2>3, Zenon DEF Redeliver
  <2> QED BY <2>1, <2>2, <2>3, Zenon
<1>5. CASE \E c \in Copy : BeatStep(c)
  BY <1>5, SMTT(30)
    DEF BeatStep, BeatClaims, BeatDispatches, BeatPutsBack, BeatPutsBackPublished,
     BeatLoses, MoveCopy, CopiesAllocated
<1> QED BY <1>1, <1>2, <1>3, <1>4, <1>5, Zenon DEF Next

-----------------------------------------------------------------------------
(* The steps of a task, by what they do to its delivery.                   *)

\* The task goes on, its delivery is untouched.
Advances(t) ==
  /\ \/ pc[t] \in {"waiting", "entering", "running"}
     \/ pc[t] = "unwinding" /\ "cleanup" \in HandlerOps
  /\ \/ Goto(t, "entering") \/ Goto(t, "running")
     \/ Goto(t, IF NackOnException THEN "scheduling" ELSE "rejecting")
     \/ Goto(t, "scheduling")
  /\ UNCHANGED <<copyVars, delivery, live, processed, disposition, committed>>

\* Nothing more than the unit of work is left to do: the delivery is settled, or the
\* handler did so.
Concludes(t) ==
  /\ \/ pc[t] \in {"running", "rejecting", "scheduling"}
     \/ pc[t] = "confirming" /\ "reply" \in Faults
  /\ Goto(t, "unwinding") \/ Goto(t, "leaving")
  /\ \/ Settle(t, "queue") \/ Settle(t, "done")
     \/ /\ Settle(t, "dlq")
        /\ \/ HandlerOps \cap {"invalid", "reject"} # {}
           \/ pc[t] = "rejecting"
           \/ pc[t] = "scheduling" /\ retries[delivery[t]] >= MaxRetries
     \/ disposition[t] # "none" /\ UNCHANGED <<copyVars, processed>>
  /\ \E d \in Dispositions : disposition' = [disposition EXCEPT ![t] = d]
  /\ UNCHANGED <<delivery, live, committed>>

\* The handler has returned, the unit of work is being exited.
Leaves(t) ==
  /\ pc[t] \in {"unwinding", "leaving"}
  /\ Goto(t, "leaving") \/ Goto(t, "exiting")
  /\ UNCHANGED <<copyVars, delivery, live, processed, disposition, committed>>

\* The task is over, after its unit of work committed unless that failed.
Finishes(t) ==
  /\ pc[t] \in {"entering", "exiting", "aborting"}
  /\ EndTask(t)
  /\ \/ pc[t] = "exiting" /\ committed' = [committed EXCEPT ![delivery[t]] = TRUE]
     \/ pc[t] = "aborting" /\ UNCHANGED committed
     \/ "uow" \in Faults /\ UNCHANGED committed
  /\ UNCHANGED copyVars

\* Every step of a task is of one of these kinds.
LEMMA TaskStepKinds ==
  ASSUME TypeOK, NEW t \in Task, TaskStep(t)
  PROVE  \/ Advances(t) \/ HandlerAcks(t) \/ Concludes(t) \/ EnqueueRetry(t)
         \/ AckAfterEnqueue(t) \/ Leaves(t) \/ Finishes(t) \/ Timeout(t)
<1> USE DEF Dispositions
<1>1. CASE AcquireSlot(t) \/ EnterUow(t)
  BY <1>1, Zenon DEF AcquireSlot, EnterUow, Advances
<1>2. CASE HandlerRaises(t) \/ HandlerRetries(t) \/ UnwindRaises(t)
  BY <1>2, Zenon DEF HandlerRaises, HandlerRetries, UnwindRaises, OnException, Advances
<1>3. CASE EnterUowFails(t) \/ ExitUow(t) \/ ExitUowFails(t) \/ AbortUow(t)
  BY <1>3, Zenon DEF EnterUowFails, ExitUow, ExitUowFails, AbortUow, Finishes
<1>4. CASE Unwind(t) \/ LeaveHandler(t)
  BY <1>4, Zenon DEF Unwind, LeaveHandler, Leaves
<1>5. CASE HandlerReturns(t) \/ PayloadInvalid(t) \/ RejectAfterDelay(t)
  <2>1. disposition' = [disposition EXCEPT ![t] = disposition[t]] /\ disposition[t] \in Dispositions
    BY <1>5, Zenon DEF HandlerReturns, PayloadInvalid, RejectAfterDelay, TypeOK
  <2>2. CASE HandlerReturns(t)
    BY <2>1, <2>2, Zenon DEF HandlerReturns, Concludes
  <2>3. CASE PayloadInvalid(t)
    BY <2>1, <2>3, Zenon DEF PayloadInvalid, Concludes
  <2>4. CASE RejectAfterDelay(t)
    BY <2>1, <2>4, Zenon DEF RejectAfterDelay, Concludes
  <2> QED BY <1>5, <2>2, <2>3, <2>4, Zenon
<1>6. CASE \E op \in {"nack", "reject"} : HandlerDisposes(t, op)
  BY <1>6, Zenon DEF HandlerDisposes, Concludes
<1>7. CASE HandlerRetriesAstray(t)
  BY <1>7, Zenon DEF HandlerRetriesAstray, Concludes
<1>8. CASE BudgetExhausted(t) \/ EnqueueRetryFails(t) \/ EnqueueReplyLost(t)
  <2>1. \E d \in Dispositions : disposition' = [disposition EXCEPT ![t] = d]
    <3>1. disposition = [disposition EXCEPT ![t] = disposition[t]] /\ disposition[t] \in Dispositions
      BY Zenon DEF TypeOK
    <3> QED BY <1>8, <3>1, Zenon DEF BudgetExhausted, EnqueueRetryFails, EnqueueReplyLost,
              ReturnFromSchedule
  <2>2. Goto(t, "unwinding") \/ Goto(t, "leaving")
    BY <1>8, Zenon DEF BudgetExhausted, EnqueueRetryFails, EnqueueReplyLost, ReturnFromSchedule
  <2>3. CASE BudgetExhausted(t)
    BY <2>1, <2>2, <2>3, Zenon DEF BudgetExhausted, Concludes
  <2>4. CASE EnqueueRetryFails(t)
    BY <2>1, <2>2, <2>4, Zenon DEF EnqueueRetryFails, Concludes
  <2>5. CASE EnqueueReplyLost(t)
    BY <2>1, <2>2, <2>5, Zenon DEF EnqueueReplyLost, Concludes
  <2> QED BY <1>8, <2>3, <2>4, <2>5, Zenon
<1> QED BY <1>1, <1>2, <1>3, <1>4, <1>5, <1>6, <1>7, <1>8, Zenon DEF TaskStep

\* Publishers and the beat worker leave the tasks alone.
LEMMA OthersKeepTasks ==
  ASSUME (\E m \in Message : Publish(m)) \/ (\E c \in Copy : BeatStep(c))
  PROVE  UNCHANGED <<pc, delivery, live, processed, disposition, committed>>
<1>1. CASE \E m \in Message : Publish(m)
  BY <1>1, Zenon DEF Publish, taskVars
<1>2. CASE \E c \in Copy : BeatStep(c)
  BY <1>2, Zenon DEF BeatStep, BeatClaims, BeatDispatches, BeatPutsBack, BeatPutsBackPublished,
     BeatLoses, MoveCopy, taskVars
<1> QED BY <1>1, <1>2, Zenon

-----------------------------------------------------------------------------
(* The retry budget.                                                       *)

\* A handler with nack_on_exception never waits to reject.
NeverRejecting == \A t \in Task : pc[t] # "rejecting"

LEMMA NeverRejectingKept ==
  ASSUME NackOnException, TypeOK, NeverRejecting, Next
  PROVE  NeverRejecting'
<1> USE DEF TypeOK, NeverRejecting
<1>1. CASE \E t \in Task : TaskStep(t)
  <2> PICK t \in Task : TaskStep(t) BY <1>1, Zenon
  <2>1. CASE Advances(t) \/ Concludes(t) \/ Leaves(t)
    BY <2>1 DEF Advances, Concludes, Leaves, Goto
  <2>2. CASE HandlerAcks(t) \/ EnqueueRetry(t) \/ AckAfterEnqueue(t)
    BY <2>2, Zenon DEF HandlerAcks, EnqueueRetry, AckAfterEnqueue, ReturnFromSchedule, Goto
  <2>3. CASE Finishes(t) \/ Timeout(t)
    BY <2>3 DEF Finishes, EndTask, Timeout, Goto
  <2> QED BY <2>1, <2>2, <2>3, TaskStepKinds, Zenon
<1>2. CASE WorkerStep
  BY <1>2, WorkerStepShape, Zenon DEF taskVars
<1>3. CASE \E c \in Copy, t \in Task : Deliver(c, t)
  BY <1>3 DEF Deliver, Goto
<1>4. CASE (\E m \in Message : Publish(m)) \/ (\E c \in Copy : BeatStep(c))
  BY <1>4, OthersKeepTasks, Zenon
<1> QED BY <1>1, <1>2, <1>3, <1>4, Zenon DEF Next

\* Only schedule_retry dead-letters, with the budget spent.
LEMMA DeadLetteredKept ==
  ASSUME NackOnException, HandlerOps \cap {"invalid", "reject"} = {},
         IInv, NeverRejecting, DeadLetteredAfterBudget, Next
  PROVE  DeadLetteredAfterBudget'
<1> USE WorkerAssumption DEF IInv, TypeOK, DeadLetteredAfterBudget
<1>1. CASE \E m \in Message : Publish(m)
  BY <1>1 DEF Publish, Create, CopiesAllocated
<1>2. CASE \E c \in Copy, t \in Task : Deliver(c, t)
  BY <1>2, SMTT(30) DEF Deliver
<1>3. CASE \E t \in Task : TaskStep(t)
  <2> PICK t \in Task : TaskStep(t) BY <1>3, Zenon
  <2>1. CASE Advances(t) \/ Leaves(t) \/ Finishes(t) \/ Timeout(t)
    BY <2>1, Zenon DEF Advances, Leaves, Finishes, Timeout, copyVars
  <2>2. CASE HandlerAcks(t) \/ AckAfterEnqueue(t)
    BY <2>2, SMTT(30) DEF HandlerAcks, AckAfterEnqueue, Settle
  <2>3. CASE Concludes(t)
    <3>1. delivery[t] \in Copy
      BY <2>3, Zenon DEF Concludes, TasksHoldCopies
    <3>2. CASE Settle(t, "queue") \/ Settle(t, "done") \/ UNCHANGED copyVars
      BY <3>2 DEF Settle, copyVars
    <3>3. CASE Settle(t, "dlq") /\ retries[delivery[t]] >= MaxRetries
      <4>1. retries[delivery[t]] = MaxRetries
        BY <3>1, <3>3, SMTT(30) DEF RetryBudget
      <4> QED BY <3>3, <4>1 DEF Settle
    <3> QED BY <2>3, <3>2, <3>3, Zenon DEF Concludes, NeverRejecting
  <2>4. CASE EnqueueRetry(t)
    BY <2>4 DEF EnqueueRetry, Create, CopiesAllocated
  <2> QED BY <2>1, <2>2, <2>3, <2>4, TaskStepKinds, Zenon
<1>4. CASE WorkerStep
  BY <1>4, WorkerStepShape, SMTT(30) DEF Redeliver
<1>5. CASE \E c \in Copy : BeatStep(c)
  BY <1>5, SMTT(30)
    DEF BeatStep, BeatClaims, BeatDispatches, BeatPutsBack, BeatPutsBackPublished,
     BeatLoses, MoveCopy, CopiesAllocated
<1> QED BY <1>1, <1>2, <1>3, <1>4, <1>5, Zenon DEF Next

-----------------------------------------------------------------------------
(* Deliveries are held until they are settled, and committed once they are *)
(* acknowledged.                                                           *)

\* A task that does not run holds nothing, and knows nothing of earlier deliveries.
IdleIsFresh ==
  \A t \in Task : pc[t] = "idle" =>
    delivery[t] = Nil /\ ~live[t] /\ ~processed[t] /\ disposition[t] = "none"

\* handle_message is not left, and no disposition noted, before the delivery is settled.
SettledBeforeLeaving ==
  \A t \in Task :
    live[t] /\ (pc[t] \in {"unwinding", "leaving", "exiting"} \/ disposition[t] # "none")
      => processed[t]

NeverAborting == \A t \in Task : pc[t] # "aborting"

HeldInv ==
  IdleIsFresh /\ SettledBeforeLeaving /\ NeverAborting /\ UnackedIsHeld /\ AckedIsProcessed

\* A worker that does not crash leaves the tasks alone, or loses the channel under them.
LEMMA WorkerStepKeepsTasks ==
  ASSUME "crash" \notin Faults, WorkerStep
  PROVE  /\ UNCHANGED <<origin, retries, nextCopy>>
         /\ UNCHANGED <<pc, delivery, processed, disposition, committed>>
         /\ \/ UNCHANGED <<place, live>>
            \/ Redeliver /\ live' = [t \in Task |-> FALSE]
<1>1. CASE \E to \in {"channelClosed", "connectionClosed"} : LinkCloses(to)
  BY <1>1, Zenon DEF LinkCloses
<1>2. CASE Shutdown \/ HealthCheckFails \/ StartDrain \/ Start
  BY <1>2, Zenon DEF Shutdown, HealthCheckFails, StartDrain, Start, copyVars, taskVars
<1>3. CASE Stop
  BY <1>3, Zenon DEF Stop
<1> QED BY <1>1, <1>2, <1>3, Zenon DEF WorkerStep, Crash

LEMMA FreshAndSettledKept ==
  ASSUME Faults \cap {"crash", "timeout", "uow"} = {}, IInv, HeldInv, Next
  PROVE  (IdleIsFresh /\ SettledBeforeLeaving /\ NeverAborting)'
<1> USE DEF IInv, HeldInv, TypeOK, IdleIsFresh, SettledBeforeLeaving, NeverAborting
<1>1. CASE \E t \in Task : TaskStep(t)
  <2> PICK t \in Task : TaskStep(t) BY <1>1, Zenon
  <2>1. CASE Advances(t)
    BY <2>1 DEF Advances, Goto
  <2>2. CASE HandlerAcks(t)
    BY <2>2, Zenon DEF HandlerAcks, Settle
  <2>3. CASE Concludes(t)
    <3>1. live[t] => processed'[t]
      BY <2>3, Zenon DEF Concludes, Settle, CanSettle
    <3>2. \A u \in Task \ {t} : processed'[u] = processed[u] /\ disposition'[u] = disposition[u]
      BY <2>3, Zenon DEF Concludes, Settle
    <3> QED BY <2>3, <3>1, <3>2 DEF Concludes, Goto
  <2>4. CASE EnqueueRetry(t)
    BY <2>4, Zenon DEF EnqueueRetry, Goto
  <2>5. CASE AckAfterEnqueue(t)
    <3>1. live[t] => processed'[t]
      BY <2>5, Zenon DEF AckAfterEnqueue, Settle, CanSettle
    <3>2. \A u \in Task \ {t} : processed'[u] = processed[u] /\ disposition'[u] = disposition[u]
      BY <2>5, Zenon DEF AckAfterEnqueue, ReturnFromSchedule, Settle
    <3> QED BY <2>5, <3>1, <3>2 DEF AckAfterEnqueue, ReturnFromSchedule, Goto
  <2>6. CASE Leaves(t)
    BY <2>6 DEF Leaves, Goto
  <2>7. CASE Finishes(t)
    BY <2>7 DEF Finishes, EndTask
  <2> QED BY <2>1, <2>2, <2>3, <2>4, <2>5, <2>6, <2>7, TaskStepKinds, Zenon DEF Timeout
<1>2. CASE WorkerStep
  BY <1>2, WorkerStepKeepsTasks
<1>3. CASE \E c \in Copy, t \in Task : Deliver(c, t)
  BY <1>3 DEF Deliver, Goto
<1>4. CASE (\E m \in Message : Publish(m)) \/ (\E c \in Copy : BeatStep(c))
  BY <1>4, OthersKeepTasks
<1> QED BY <1>1, <1>2, <1>3, <1>4, Zenon DEF Next

\* Nobody but the worker delivers or acknowledges.
LEMMA OthersMoveCopies ==
  ASSUME IInv, (\E m \in Message : Publish(m)) \/ (\E c \in Copy : BeatStep(c))
  PROVE  \A c \in Copy : place'[c] \in {"unacked", "done"} => place'[c] = place[c]
<1> USE DEF IInv, TypeOK
<1>1. CASE \E m \in Message : Publish(m)
  BY <1>1, Zenon DEF Publish, Create
<1>2. CASE \E c \in Copy : BeatStep(c)
  BY <1>2, ZenonT(60)
    DEF BeatStep, BeatClaims, BeatDispatches, BeatPutsBack, BeatPutsBackPublished,
     BeatLoses, MoveCopy
<1> QED BY <1>1, <1>2, Zenon

LEMMA UnackedIsHeldKept ==
  ASSUME Faults \cap {"crash", "timeout", "uow"} = {}, IInv, HeldInv, Next
  PROVE  UnackedIsHeld'
<1> USE WorkerAssumption DEF IInv, HeldInv, TypeOK, UnackedIsHeld, Unacked, CanSettle
<1>1. CASE \E t \in Task : TaskStep(t)
  <2> PICK t \in Task : TaskStep(t) BY <1>1, Zenon
  <2>1. CASE Advances(t) \/ Leaves(t)
    BY <2>1 DEF Advances, Leaves, copyVars
  <2>2. CASE \E p \in Place \ {"unacked"} : Settle(t, p) /\ UNCHANGED <<delivery, live>>
    BY <2>2 DEF Settle
  <2>3. CASE UNCHANGED <<copyVars, processed, delivery, live>>
    BY <2>3, Zenon DEF copyVars
  <2>4. CASE EnqueueRetry(t)
    BY <2>4 DEF EnqueueRetry, Create, CopiesAllocated
  <2>5. CASE Finishes(t)
    <3>1. ~CanSettle(t)
      BY <2>5 DEF Finishes, NeverAborting, SettledBeforeLeaving
    <3> QED BY <2>5, <3>1 DEF Finishes, EndTask, copyVars
  <2>6. CASE HandlerAcks(t) \/ Concludes(t) \/ AckAfterEnqueue(t)
    BY <2>2, <2>3, <2>6, Zenon DEF HandlerAcks, Concludes, AckAfterEnqueue
  <2> QED BY <2>1, <2>4, <2>5, <2>6, TaskStepKinds, Zenon DEF Timeout
<1>2. CASE WorkerStep
  BY <1>2, WorkerStepKeepsTasks DEF Redeliver
<1>3. CASE \E c \in Copy, t \in Task : Deliver(c, t)
  BY <1>3 DEF Deliver, IdleIsFresh
<1>4. CASE (\E m \in Message : Publish(m)) \/ (\E c \in Copy : BeatStep(c))
  <2>1. Unacked' \subseteq Unacked
    BY <1>4, OthersMoveCopies, Zenon
  <2>2. UNCHANGED <<delivery, live, processed>>
    BY <1>4, OthersKeepTasks, Zenon
  <2>3. UnackedIsHeld
    BY Zenon DEF HeldInv
  <2> HIDE DEF Unacked, IInv, HeldInv, TypeOK
  <2> QED BY <2>1, <2>2, <2>3, Zenon
<1> HIDE DEF IInv, HeldInv, TypeOK, UnackedIsHeld
<1> QED BY <1>1, <1>2, <1>3, <1>4, Zenon DEF Next

LEMMA AckedIsProcessedKept ==
  ASSUME Faults \cap {"crash", "timeout", "uow"} = {}, IInv, HeldInv, Next
  PROVE  AckedIsProcessed'
<1> USE WorkerAssumption DEF IInv, HeldInv, TypeOK, AckedIsProcessed, NeverAborting
<1>0. NeverAborting'
  BY FreshAndSettledKept, Zenon
<1>1. CASE \E t \in Task : TaskStep(t)
  <2> PICK t \in Task : TaskStep(t) BY <1>1, Zenon
  <2>1. CASE Advances(t) \/ Leaves(t)
    BY <1>0, <2>1 DEF Advances, Leaves, copyVars
  <2>2. CASE /\ \E p \in Place : Settle(t, p)
             /\ UNCHANGED <<delivery, live, committed>>
    BY <1>0, <2>2 DEF Settle
  <2>3. CASE UNCHANGED <<copyVars, delivery, live, committed>>
    BY <1>0, <2>3 DEF copyVars
  <2>4. CASE EnqueueRetry(t)
    BY <1>0, <2>4 DEF EnqueueRetry, Create
  <2>5. CASE Finishes(t)
    <3>1. UNCHANGED place /\ \A u \in Task \ {t} : delivery'[u] = delivery[u]
      BY <2>5 DEF Finishes, EndTask, copyVars
    <3>2. committed' = [committed EXCEPT ![delivery[t]] = TRUE]
      BY <2>5, Zenon DEF Finishes
    <3>3. delivery[t] \in Copy => committed'[delivery[t]]
      BY <3>2
    <3>4. \A c \in Copy : committed[c] => committed'[c]
      BY <3>2
    <3>5. ASSUME NEW c \in Copy, place'[c] = "done", ~committed'[c]
          PROVE  \E u \in Task : delivery'[u] = c /\ pc'[u] # "aborting"
      <4>1. PICK u \in Task : delivery[u] = c
        BY <3>1, <3>4, <3>5, Zenon
      <4>2. u # t
        BY <3>3, <3>5, <4>1, Zenon
      <4> QED BY <1>0, <3>1, <4>1, <4>2, ZenonT(60)
    <3> HIDE DEF IInv, HeldInv, TypeOK, NeverAborting
    <3> QED BY <3>5, SMTT(30)
  <2>6. CASE HandlerAcks(t) \/ Concludes(t) \/ AckAfterEnqueue(t)
    BY <2>2, <2>3, <2>6, Zenon DEF HandlerAcks, Concludes, AckAfterEnqueue
  <2> QED BY <2>1, <2>4, <2>5, <2>6, TaskStepKinds, Zenon DEF Timeout
<1>2. CASE WorkerStep
  BY <1>0, <1>2, WorkerStepKeepsTasks DEF Redeliver
<1>3. CASE \E c \in Copy, t \in Task : Deliver(c, t)
  BY <1>0, <1>3 DEF Deliver, IdleIsFresh
<1>4. CASE (\E m \in Message : Publish(m)) \/ (\E c \in Copy : BeatStep(c))
  BY <1>0, <1>4, OthersMoveCopies, OthersKeepTasks, SMTT(30)
<1> QED BY <1>1, <1>2, <1>3, <1>4, Zenon DEF Next

-----------------------------------------------------------------------------
(* One handler and one copy per message.                                   *)

\* What a task awaits before it has settled its message for its handler.
Engaged == {"waiting", "entering", "running", "rejecting", "scheduling"}

\* The task's delivery has a successor and is about to be acknowledged.
Superseding(t) == pc[t] = "confirming" /\ CanSettle(t)

\* An engaged task may still settle its delivery, unless its handler acknowledged it.
EngagedHolds ==
  \A t \in Task : pc[t] \in Engaged =>
    IF processed[t] THEN place[delivery[t]] = "done" ELSE live[t]

EngagedOnce ==
  \A t, u \in Task : t # u /\ pc[t] \in Engaged /\ pc[u] \in Engaged =>
    origin[delivery[t]] # origin[delivery[u]]

\* Of two active copies of a message one is about to be acknowledged.
TwoActive ==
  \A c, d \in Copy :
    c # d /\ origin[c] = origin[d] /\ place[c] \in Active /\ place[d] \in Active =>
      \E t \in Task : Superseding(t) /\ delivery[t] \in {c, d}

\* The message of an engaged task has no other active copy, but for such ones.
EngagedAlone ==
  \A t \in Task, c \in Copy :
    pc[t] \in Engaged /\ origin[c] = origin[delivery[t]] /\ place[c] \in Active
        /\ c # delivery[t] =>
      \E u \in Task : Superseding(u) /\ delivery[u] = c

AloneInv == IdleIsFresh /\ EngagedHolds /\ EngagedOnce /\ TwoActive /\ EngagedAlone

\* No copy becomes active, no task engaged, and a delivery about to be acknowledged
\* stays so until it is.
Quiet ==
  /\ UNCHANGED origin
  /\ \A c \in Copy : place'[c] \in Active => place[c] \in Active
  /\ \A t \in Task : Superseding(t) =>
       \/ place'[delivery[t]] \notin Active
       \/ Superseding(t)' /\ delivery'[t] = delivery[t]
  /\ \A t \in Task : pc'[t] \in Engaged => pc[t] \in Engaged /\ delivery'[t] = delivery[t]

LEMMA QuietKeeps ==
  ASSUME AloneInv, Quiet
  PROVE  (EngagedOnce /\ TwoActive /\ EngagedAlone)'
<1>1. EngagedOnce'
  BY SMTT(30) DEF AloneInv, EngagedOnce, Quiet
<1>2. ASSUME NEW c \in Copy, NEW d \in Copy, c # d, origin'[c] = origin'[d],
             place'[c] \in Active, place'[d] \in Active
      PROVE  \E t \in Task : Superseding(t)' /\ delivery'[t] \in {c, d}
  <2>1. PICK t \in Task : Superseding(t) /\ delivery[t] \in {c, d}
    BY <1>2, Zenon DEF AloneInv, TwoActive, Quiet
  <2> QED BY <1>2, <2>1, Zenon DEF Quiet
<1>3. ASSUME NEW t \in Task, NEW c \in Copy, pc'[t] \in Engaged, c # delivery'[t],
             origin'[c] = origin'[delivery'[t]], place'[c] \in Active
      PROVE  \E u \in Task : Superseding(u)' /\ delivery'[u] = c
  <2>1. PICK u \in Task : Superseding(u) /\ delivery[u] = c
    BY <1>3 DEF AloneInv, EngagedAlone, Quiet
  <2> QED BY <1>3, <2>1, Zenon DEF Quiet
<1>4. TwoActive'
  BY <1>2, Zenon DEF TwoActive
<1>5. EngagedAlone'
  BY <1>3, Zenon DEF EngagedAlone
<1> QED BY <1>1, <1>4, <1>5, Zenon

\* What every step of a task does, but scheduling a retry.
LEMMA TaskStepQuiet ==
  ASSUME Faults \cap {"timeout", "channel", "connection", "crash", "reply", "beat"} = {},
         "cleanup" \notin HandlerOps, IInv, NEW t \in Task, TaskStep(t), ~EnqueueRetry(t)
  PROVE  Quiet
<1> USE DEF IInv, TypeOK, Quiet, Engaged, Superseding, CanSettle
<1>1. CASE Advances(t)
  BY <1>1 DEF Advances, Goto, copyVars
<1>2. CASE Leaves(t)
  BY <1>2 DEF Leaves, Goto, copyVars
<1>3. CASE Finishes(t)
  BY <1>3, Zenon DEF Finishes, EndTask, copyVars
<1>4. CASE HandlerAcks(t)
  BY <1>4, SMTT(30) DEF HandlerAcks, Settle, Active, SettlementOwned, TasksHoldCopies
<1>5. CASE Concludes(t)
  <2>1. UNCHANGED origin /\ \A c \in Copy : place'[c] \in Active => place[c] \in Active
    BY <1>5, ZenonT(60) DEF Concludes, Settle, Active, SettlementOwned, copyVars
  <2>2. \A u \in Task \ {t} : pc'[u] = pc[u] /\ processed'[u] = processed[u]
    BY <1>5, Zenon DEF Concludes, Goto, Settle
  <2>3. pc[t] # "confirming" /\ pc'[t] \notin Engaged /\ UNCHANGED <<delivery, live>>
    BY <1>5 DEF Concludes, Goto
  <2> QED BY <2>1, <2>2, <2>3, Zenon
<1>6. CASE AckAfterEnqueue(t)
  <2>1. UNCHANGED origin /\ \A c \in Copy : place'[c] \in Active => place[c] \in Active
    BY <1>6, Zenon DEF AckAfterEnqueue, Settle, Active
  <2>2. \A u \in Task \ {t} : pc'[u] = pc[u] /\ processed'[u] = processed[u]
    BY <1>6, Zenon DEF AckAfterEnqueue, ReturnFromSchedule, Goto, Settle
  <2>3. pc'[t] \notin Engaged /\ UNCHANGED <<delivery, live>>
    BY <1>6, Zenon DEF AckAfterEnqueue, ReturnFromSchedule, Goto
  <2>4. CanSettle(t) => place'[delivery[t]] \notin Active
    BY <1>6, Zenon DEF AckAfterEnqueue, Settle, Active, TasksHoldCopies
  <2> QED BY <2>1, <2>2, <2>3, <2>4, Zenon
<1> QED BY <1>1, <1>2, <1>3, <1>4, <1>5, <1>6, TaskStepKinds, Zenon DEF Timeout

\* A worker that stops has no task left.
LEMMA WorkerStepQuiet ==
  ASSUME Faults \cap {"timeout", "channel", "connection", "crash", "reply", "beat"} = {},
         IInv, WorkerStep
  PROVE  /\ Quiet
         /\ UNCHANGED <<pc, delivery, processed, disposition>>
         /\ \/ UNCHANGED <<place, live>>
            \/ \A t \in Task : pc[t] = "idle" /\ ~live'[t]
<1> USE DEF IInv, TypeOK, Quiet, Engaged, Superseding, CanSettle
<1>1. CASE Shutdown \/ HealthCheckFails \/ StartDrain \/ Start
  BY <1>1, Zenon DEF Shutdown, HealthCheckFails, StartDrain, Start, copyVars, taskVars
<1>2. CASE Stop
  BY <1>2, Zenon DEF Stop, SnapshotComplete, Redeliver, Active
<1> QED BY <1>1, <1>2, Zenon DEF WorkerStep, Crash, LinkCloses

LEMMA BeatStepQuiet ==
  ASSUME "beat" \notin Faults, IInv, NEW c \in Copy, BeatStep(c)
  PROVE  Quiet
<1>1. UNCHANGED <<origin, pc, delivery, live, processed>>
  BY Zenon
    DEF BeatStep, BeatClaims, BeatDispatches, BeatPutsBack, BeatPutsBackPublished, BeatLoses,
     MoveCopy, taskVars
<1>2. \A d \in Copy : place'[d] \in Active => place[d] \in Active
  BY Zenon
    DEF BeatStep, BeatClaims, BeatDispatches, BeatPutsBack, BeatPutsBackPublished, BeatLoses,
     MoveCopy, IInv, TypeOK, Active
<1> QED BY <1>1, <1>2, Zenon DEF Quiet, Superseding, CanSettle

-----------------------------------------------------------------------------
\* The processing tasks are finitely many, and counting them is sound.
LEMMA BusyFinite ==
  /\ IsFiniteSet(Busy)
  /\ Cardinality(Busy) \in Nat
  /\ \A t \in Busy : Cardinality(Busy) >= 1
<1>1. IsFiniteSet(Busy)
  BY WorkerAssumption, FS_Subset, Zenon DEF Busy
<1>2. Cardinality(Busy) \in Nat
  BY <1>1, FS_CardinalityType, Zenon
<1>3. ASSUME NEW t \in Busy PROVE Cardinality(Busy) >= 1
  BY <1>1, <1>2, FS_EmptySet, SMTT(30)
<1> QED BY <1>1, <1>2, <1>3, Zenon

\* Every step keeps the variables in their types; the permits need the count of
\* the processing tasks.
LEMMA TypeOKKept ==
  ASSUME TypeOK, SlotsAccounted, CopiesAllocated, TasksHoldCopies, Next
  PROVE  TypeOK'
<1> USE WorkerAssumption DEF TypeOK
<1>1. CASE \E m \in Message : Publish(m)
  BY <1>1 DEF Publish, Create, taskVars, workerVars
<1>2. CASE \E c \in Copy, t \in Task : Deliver(c, t)
  BY <1>2 DEF Deliver, Goto, workerVars
<1>3. CASE \E t \in Task : TaskStep(t)
  <2> PICK t \in Task : TaskStep(t) BY <1>3, Zenon
  <2>1. CASE TaskEnds(t)
    <3>1. t \in Busy
      BY <2>1, Zenon DEF TaskEnds, Busy
    <3>2. Prefetch > 0 => slots + 1 <= Prefetch
      BY <3>1, BusyFinite DEF SlotsAccounted
    <3> QED BY <2>1, <3>2 DEF TaskEnds, EndTask, copyVars
  <2>2. CASE TaskMoves(t)
    <3>1. pc' \in [Task -> {"idle", "waiting"} \cup Processing]
      BY <2>2 DEF TaskMoves, Goto
    <3>2. /\ place' \in [Copy -> Place]
          /\ processed' \in [Task -> BOOLEAN]
          /\ UNCHANGED <<origin, retries, nextCopy>>
      <4>1. CASE UNCHANGED <<copyVars, processed>>
        BY <4>1, Zenon DEF copyVars
      <4>2. CASE \E p \in Place : Settle(t, p)
        <5>1. CanSettle(t) \in BOOLEAN
          BY Zenon DEF CanSettle
        <5>2. processed' \in [Task -> BOOLEAN]
          BY <4>2, <5>1 DEF Settle
        <5>3. place' \in [Copy -> Place]
          <6> PICK p \in Place : Settle(t, p) BY <4>2, Zenon
          <6>1. CASE CanSettle(t)
            BY <6>1, Zenon DEF Settle
          <6>2. CASE ~CanSettle(t)
            BY <6>2, Zenon DEF Settle
          <6> QED BY <6>1, <6>2, Zenon
        <5> QED BY <4>2, <5>2, <5>3, Zenon DEF Settle
      <4> QED BY <2>2, <4>1, <4>2 DEF TaskMoves
    <3> QED BY <2>2, <3>1, <3>2, Zenon DEF TaskMoves, workerVars, Dispositions
  <2>3. CASE AcquireSlot(t)
    BY <2>3 DEF AcquireSlot, Goto, copyVars, Processing
  <2>4. CASE EnqueueRetry(t)
    <3>1. origin[delivery[t]] \in Message /\ retries[delivery[t]] + 1 \in Nat
      BY <2>4 DEF EnqueueRetry, TasksHoldCopies, CopiesAllocated
    <3> QED BY <2>4, <3>1, SMTT(30)
      DEF EnqueueRetry, Create, Goto, workerVars, Processing, InsideTimeout
  <2> QED BY <2>1, <2>2, <2>3, <2>4, TaskStepShape, Zenon
<1>4. CASE WorkerStep
  <2> USE DEF copyVars, taskVars
  <2>0. Redeliver => place' \in [Copy -> Place]
    BY DEF Redeliver
  <2>1. CASE Shutdown \/ HealthCheckFails \/ StartDrain \/ Start
    BY <2>1 DEF Shutdown, HealthCheckFails, StartDrain, Start
  <2>2. CASE Stop
    BY <2>0, <2>2, Zenon DEF Stop
  <2>3. CASE Crash
    BY <2>0, <2>3 DEF Crash
  <2>4. CASE \E to \in {"channelClosed", "connectionClosed"} : LinkCloses(to)
    BY <2>0, <2>4, SMTT(30) DEF LinkCloses
  <2> QED BY <1>4, <2>1, <2>2, <2>3, <2>4, Zenon DEF WorkerStep
<1>5. CASE \E c \in Copy : BeatStep(c)
  <2> PICK c \in Copy : BeatStep(c) BY <1>5, Zenon
  <2>1. CASE \E from, to \in Place : MoveCopy(c, from, to)
    BY <2>1 DEF MoveCopy, taskVars, workerVars
  <2>2. CASE BeatPutsBackPublished(c)
    <3>1. nextCopy \in Copy /\ nextCopy' \in 1..(MaxCopies + 1)
      BY <2>2 DEF BeatPutsBackPublished, Copy
    <3>2. place' \in [Copy -> Place]
      BY <2>2, <3>1, Zenon DEF BeatPutsBackPublished, Place
    <3>3. origin' \in [Copy -> Message \cup {Nil}] /\ retries' \in [Copy -> Nat]
      BY <2>2, <3>1, Zenon DEF BeatPutsBackPublished
    <3> QED BY <2>2, <3>1, <3>2, <3>3, Zenon DEF BeatPutsBackPublished, taskVars, workerVars
  <2> QED BY <2>1, <2>2, Zenon DEF BeatStep, BeatClaims, BeatDispatches, BeatPutsBack, BeatLoses
<1> QED BY <1>1, <1>2, <1>3, <1>4, <1>5, Zenon DEF Next

\* A permit is taken when a task starts processing and returned when it ends.
LEMMA SlotsAccountedKept ==
  ASSUME TypeOK, SlotsAccounted, Next
  PROVE  SlotsAccounted'
<1> USE WorkerAssumption DEF TypeOK, SlotsAccounted
<1>0. ASSUME UNCHANGED slots, Busy' = Busy
      PROVE  SlotsAccounted'
  BY <1>0, Zenon
<1>1. CASE \E m \in Message : Publish(m)
  BY <1>0, <1>1 DEF Publish, taskVars, workerVars, Busy
<1>2. CASE \E c \in Copy, t \in Task : Deliver(c, t)
  <2> PICK c \in Copy, t \in Task : Deliver(c, t) BY <1>2, Zenon
  <2>1. Busy' = Busy
    BY Zenon DEF Deliver, Goto, Busy, Processing, InsideTimeout
  <2> QED BY <1>0, <2>1, Zenon DEF Deliver, workerVars
<1>3. CASE \E t \in Task : TaskStep(t)
  <2> PICK t \in Task : TaskStep(t) BY <1>3, Zenon
  <2>1. CASE TaskEnds(t)
    <3>1. t \in Busy /\ Busy' = Busy \ {t}
      BY <2>1 DEF TaskEnds, EndTask, Busy, Processing, InsideTimeout
    <3>2. Cardinality(Busy') = Cardinality(Busy) - 1
      BY <3>1, BusyFinite, FS_RemoveElement, ZenonT(60)
    <3> QED BY <2>1, <3>2, BusyFinite, SMTT(30) DEF TaskEnds, EndTask
  <2>2. CASE TaskMoves(t)
    <3>1. Busy' = Busy
      BY <2>2 DEF TaskMoves, Goto, Busy
    <3> QED BY <1>0, <2>2, <3>1, Zenon DEF TaskMoves, workerVars
  <2>3. CASE AcquireSlot(t)
    <3>1. t \notin Busy /\ Busy' = Busy \cup {t}
      BY <2>3 DEF AcquireSlot, Goto, Busy, Processing, InsideTimeout
    <3>2. Cardinality(Busy') = Cardinality(Busy) + 1
      BY <3>1, BusyFinite, FS_AddElement, Zenon
    <3> QED BY <2>3, <3>2, BusyFinite DEF AcquireSlot
  <2>4. CASE EnqueueRetry(t)
    <3>1. Busy' = Busy
      BY <2>4, Zenon DEF EnqueueRetry, Goto, Busy, Processing, InsideTimeout
    <3> QED BY <1>0, <2>4, <3>1, Zenon DEF EnqueueRetry, workerVars
  <2> QED BY <2>1, <2>2, <2>3, <2>4, TaskStepShape, Zenon
<1>4. CASE WorkerStep
  <2>1. CASE Crash
    <3>1. Busy' = {}
      BY <2>1, Zenon DEF Crash, Busy, Processing, InsideTimeout
    <3> QED BY <2>1, <3>1, FS_EmptySet DEF Crash
  <2>2. CASE ~Crash
    BY <1>0, <1>4, <2>2, Zenon
      DEF WorkerStep, LinkCloses, Shutdown, HealthCheckFails, StartDrain,
       Stop, Start, taskVars, Busy
  <2> QED BY <2>1, <2>2, Zenon
<1>5. CASE \E c \in Copy : BeatStep(c)
  BY <1>0, <1>5 DEF BeatStep, BeatClaims, BeatDispatches, BeatPutsBack,
     BeatPutsBackPublished, BeatLoses, MoveCopy, taskVars, workerVars, Busy
<1> QED BY <1>1, <1>2, <1>3, <1>4, <1>5, SMTT(30) DEF Next

-----------------------------------------------------------------------------
\* IInv holds in every reachable state.
THEOREM Inductive == Spec => []IInv
<1>1. Init => IInv
  <2> SUFFICES ASSUME Init PROVE IInv BY Zenon
  <2> USE WorkerAssumption DEF Init
  <2>1. TypeOK
    BY DEF TypeOK, Processing
  <2>2. SlotsAccounted
    <3>1. Busy = {}
      BY Zenon DEF Busy, Processing, InsideTimeout
    <3> QED BY <3>1, FS_EmptySet DEF SlotsAccounted
  <2>3. CopiesAllocated /\ TasksHoldCopies /\ RetryBudget
    BY DEF CopiesAllocated, TasksHoldCopies, RetryBudget
  <2>4. SettlementOwned /\ LineageSurvives /\ SuccessorScheduled /\ SnapshotComplete
    BY Zenon DEF SettlementOwned, CanSettle, LineageSurvives, SuccessorScheduled,
       SnapshotComplete, DrainedBeforeStop
  <2> QED BY <2>1, <2>2, <2>3, <2>4, Zenon DEF IInv
<1>2. IInv /\ [Next]_vars => IInv'
  <2> SUFFICES ASSUME IInv, [Next]_vars PROVE IInv' BY Zenon
  <2>1. CASE Next
    BY <2>1, TypeOKKept, SlotsAccountedKept, CopiesAllocatedKept, TasksHoldCopiesKept,
       RetryBudgetKept, SettlementOwnedKept, LineageSurvivesKept, SuccessorScheduledKept,
       SnapshotCompleteKept, Zenon DEF IInv
  <2>2. CASE UNCHANGED vars
    <3>1. /\ UNCHANGED <<place, origin, retries, nextCopy>>
          /\ UNCHANGED <<pc, delivery, live, processed, disposition, via>>
          /\ UNCHANGED <<slots, link, phase, pending, committed>>
      BY <2>2, Zenon DEF vars, copyVars, taskVars, workerVars
    <3>2. TypeOK'
      BY <3>1, Zenon DEF IInv, TypeOK
    <3>3. (SlotsAccounted /\ CopiesAllocated)'
      BY <3>1, Zenon DEF IInv, SlotsAccounted, Busy, CopiesAllocated
    <3>4. (TasksHoldCopies /\ RetryBudget)'
      BY <3>1, Zenon DEF IInv, TasksHoldCopies, RetryBudget
    <3>5. SettlementOwned'
      BY <3>1, Zenon DEF IInv, SettlementOwned, CanSettle
    <3>6. (LineageSurvives /\ SuccessorScheduled)'
      BY <3>1, Zenon DEF IInv, LineageSurvives, SuccessorScheduled, CopiesOf
    <3>7. SnapshotComplete'
      BY <3>1, Zenon DEF IInv, SnapshotComplete, DrainedBeforeStop
    <3> QED BY <3>2, <3>3, <3>4, <3>5, <3>6, <3>7 DEF IInv
  <2> QED BY <2>1, <2>2, Zenon
<1> QED BY <1>1, <1>2, PTL DEF Spec

\* Every variable stays in its type (MessageBusWorker).
THEOREM TypeCorrect == Spec => []TypeOK
<1>1. IInv => TypeOK
  BY Zenon DEF IInv
<1> QED BY <1>1, Inductive, PTL

\* No failure of the worker, its channel, its process, its unit of work or the
\* backend loses a message: the hand-over in schedule_retry is safe at any depth
\* of retries and with any number of tasks.
THEOREM MessagesSurvive == Spec => []NoMessageLost
<1>1. IInv => NoMessageLost
  <2> SUFFICES ASSUME IInv, NEW m \in Message, NEW c \in CopiesOf(m)
               PROVE  \E d \in CopiesOf(m) : place[d] \in Active \cup {"done", "dlq", "lost"}
    BY Zenon DEF NoMessageLost
  <2>1. c \in Copy /\ origin[c] = m /\ place[c] # "free"
    BY WorkerAssumption DEF IInv, CopiesAllocated, CopiesOf, TypeOK
  <2>2. PICK d \in CopiesOf(m) : place[d] \notin {"free", "superseded"}
    BY <2>1, Zenon DEF IInv, LineageSurvives
  <2> QED BY <2>2, Zenon DEF IInv, TypeOK, Active, CopiesOf
<1> QED BY <1>1, Inductive, PTL

\* The retry budget holds for every copy (schedule_retry).
THEOREM BudgetKept == Spec => []RetryBudget
<1>1. IInv => RetryBudget
  BY Zenon DEF IInv
<1> QED BY <1>1, Inductive, PTL

\* At most Prefetch handlers run on a channel (processing_slot).
THEOREM SlotsBounded == Spec => []SlotBound
<1>1. IInv => SlotBound
  BY BusyFinite, WorkerAssumption DEF IInv, SlotsAccounted, SlotBound, TypeOK
<1> QED BY <1>1, Inductive, PTL

\* A worker that stops on its own leaves no task behind (wait_all_tasks_done).
THEOREM StopsDrained == Spec => []DrainedBeforeStop
<1>1. IInv => DrainedBeforeStop
  BY Zenon DEF IInv, SnapshotComplete
<1> QED BY <1>1, Inductive, PTL

\* A delivery has one owner, only its owner settles it, and it is settled once, whatever
\* becomes of its channel meanwhile.
THEOREM SettlementsFinal == Spec => SettledOnce
<1>1. IInv => SettlementOwned
  BY Zenon DEF IInv
<1>2. IInv /\ Next => \A c \in Copy : place[c] \in Final => place'[c] = place[c]
  BY SettledForGood, Zenon
<1> QED BY <1>1, <1>2, Inductive, PTL DEF Spec, SettledOnce

\* Under every fault, a handler that is retried on exceptions and dead-letters nothing
\* itself has its messages dead-lettered with exactly the retries of its policy
\* (schedule_retry, handle_reject_message).
THEOREM BudgetsSpent ==
  ASSUME NackOnException, HandlerOps \cap {"invalid", "reject"} = {}
  PROVE  Spec => []BudgetExact
<1>1. Init => NeverRejecting /\ DeadLetteredAfterBudget
  BY Zenon DEF Init, NeverRejecting, DeadLetteredAfterBudget
<1>2. IInv /\ NeverRejecting /\ DeadLetteredAfterBudget /\ [Next]_vars
        => (NeverRejecting /\ DeadLetteredAfterBudget)'
  <2>1. CASE Next
    BY <2>1, NeverRejectingKept, DeadLetteredKept, Zenon DEF IInv
  <2>2. CASE UNCHANGED vars
    BY <2>2, Zenon DEF vars, copyVars, taskVars, NeverRejecting, DeadLetteredAfterBudget
  <2> QED BY <2>1, <2>2, Zenon
<1>3. IInv /\ DeadLetteredAfterBudget => BudgetExact
  BY Zenon DEF IInv, BudgetExact
<1> QED BY <1>1, <1>2, <1>3, Inductive, PTL DEF Spec

\* Whatever handlers do and whatever channels and connections close: as long as no process
\* dies, no handler times out and no interceptor fails, an unacknowledged delivery is
\* held by a task that will settle it, and what is acknowledged has been committed or is
\* in the unit of work of a running task (handle_message).
THEOREM DeliveriesHeld ==
  ASSUME Faults \cap {"crash", "timeout", "uow"} = {}
  PROVE  Spec => []DeliveriesAccounted
<1>1. Init => HeldInv
  BY
    DEF Init, HeldInv, IdleIsFresh, SettledBeforeLeaving, NeverAborting, UnackedIsHeld,
        Unacked,
     AckedIsProcessed
<1>2. IInv /\ HeldInv /\ [Next]_vars => HeldInv'
  <2>1. CASE IInv /\ HeldInv /\ Next
    BY <2>1, FreshAndSettledKept, UnackedIsHeldKept, AckedIsProcessedKept, Zenon DEF HeldInv
  <2>2. CASE HeldInv /\ UNCHANGED vars
    BY <2>2, Zenon DEF vars, copyVars, taskVars, HeldInv, IdleIsFresh, SettledBeforeLeaving,
       NeverAborting, UnackedIsHeld, Unacked, CanSettle, AckedIsProcessed
  <2> QED BY <2>1, <2>2, Zenon
<1>3. HeldInv => DeliveriesAccounted
  BY Zenon DEF HeldInv, DeliveriesAccounted
<1> QED BY <1>1, <1>2, <1>3, Inductive, PTL DEF Spec

-----------------------------------------------------------------------------
(* One handler and one copy per message.                                   *)

\* What a task that works for a message, or is about to acknowledge it, holds was
\* created before, and is not in a queue.
LEMMA HeldIsOld ==
  ASSUME IInv, AloneInv, NEW t \in Task, pc[t] \in Engaged \/ Superseding(t)
  PROVE  /\ delivery[t] \in Copy /\ delivery[t] < nextCopy
         /\ origin[delivery[t]] \in Message
         /\ place[delivery[t]] # "queue"
         /\ place[delivery[t]] \in Active => CanSettle(t)
<1>1. delivery[t] \in Copy /\ delivery[t] < nextCopy
  BY Zenon DEF IInv, TasksHoldCopies, Engaged, Superseding
<1>2. origin[delivery[t]] \in Message
  BY <1>1, Zenon DEF IInv, CopiesAllocated
<1>3. CanSettle(t) \/ place[delivery[t]] = "done"
  BY Zenon DEF AloneInv, EngagedHolds, Superseding, CanSettle
<1> QED BY <1>1, <1>2, <1>3, Zenon DEF IInv, SettlementOwned, Active

LEMMA DeliverAlone ==
  ASSUME IInv, AloneInv, NEW c \in Copy, NEW t \in Task, Deliver(c, t)
  PROVE  (EngagedOnce /\ TwoActive /\ EngagedAlone)'
<1>1. /\ place[c] = "queue" /\ pc[t] = "idle"
      /\ place' = [place EXCEPT ![c] = "unacked"]
      /\ UNCHANGED <<origin, processed>>
  BY Zenon DEF Deliver
<1>2. pc'[t] = "waiting" /\ delivery'[t] = c
  BY Zenon DEF Deliver, Goto, IInv, TypeOK
<1>3. \A u \in Task \ {t} : pc'[u] = pc[u] /\ delivery'[u] = delivery[u] /\ live'[u] = live[u]
  BY Zenon DEF Deliver, Goto, IInv, TypeOK
<1>4. \A d \in Copy : place'[d] \in Active <=> place[d] \in Active
  BY <1>1, Zenon DEF IInv, TypeOK, Active
<1>5. \A u \in Task : Superseding(u) => u # t /\ Superseding(u)' /\ delivery'[u] = delivery[u]
  BY <1>1, <1>3, Zenon DEF Superseding, CanSettle
<1>6. \A u \in Task : Superseding(u) => delivery[u] # c
  BY <1>1, HeldIsOld, Zenon
<1>7. \A u \in Task \ {t} : pc[u] \in Engaged => origin[delivery[u]] # origin[c]
  <2> SUFFICES ASSUME NEW u \in Task \ {t}, pc[u] \in Engaged, origin[delivery[u]] = origin[c]
               PROVE  FALSE
    BY Zenon
  <2>1. delivery[u] # c
    BY <1>1, HeldIsOld, Zenon
  <2>2. place[c] \in Active
    BY <1>1, Zenon DEF Active
  <2>3. \E v \in Task : Superseding(v) /\ delivery[v] = c
    BY <2>1, <2>2, Zenon DEF AloneInv, EngagedAlone
  <2> QED BY <1>6, <2>3, Zenon
<1>8. EngagedOnce'
  BY <1>1, <1>2, <1>3, <1>7, SMTT(30) DEF EngagedOnce, AloneInv
<1>9. TwoActive'
  <2> SUFFICES ASSUME NEW d \in Copy, NEW e \in Copy, d # e, origin'[d] = origin'[e],
                      place'[d] \in Active, place'[e] \in Active
               PROVE  \E u \in Task : Superseding(u)' /\ delivery'[u] \in {d, e}
    BY Zenon DEF TwoActive
  <2>1. \E u \in Task : Superseding(u) /\ delivery[u] \in {d, e}
    BY <1>1, <1>4, Zenon DEF AloneInv, TwoActive
  <2> QED BY <1>5, <2>1, Zenon
<1>10. EngagedAlone'
  <2> SUFFICES ASSUME NEW u \in Task, NEW d \in Copy, pc'[u] \in Engaged, d # delivery'[u],
                      origin'[d] = origin'[delivery'[u]], place'[d] \in Active
               PROVE  \E v \in Task : Superseding(v)' /\ delivery'[v] = d
    BY Zenon DEF EngagedAlone
  <2>1. CASE u = t
    <3>1. \E v \in Task : Superseding(v) /\ delivery[v] \in {c, d}
      BY <1>1, <1>2, <1>4, <2>1, Zenon DEF AloneInv, TwoActive, Active
    <3> QED BY <1>5, <1>6, <3>1, Zenon
  <2>2. CASE u # t
    <3>1. \E v \in Task : Superseding(v) /\ delivery[v] = d
      BY <1>1, <1>3, <1>4, <2>2 DEF AloneInv, EngagedAlone
    <3> QED BY <1>5, <3>1, Zenon
  <2> QED BY <2>1, <2>2, Zenon
<1> QED BY <1>8, <1>9, <1>10, Zenon

LEMMA EnqueueAlone ==
  ASSUME IInv, AloneInv, NEW t \in Task, EnqueueRetry(t)
  PROVE  (EngagedOnce /\ TwoActive /\ EngagedAlone)'
<1> DEFINE n == nextCopy
           m == origin[delivery[t]]
<1>1. /\ pc[t] = "scheduling" /\ n \in Copy
      /\ place' = [place EXCEPT ![n] = "delayed"]
      /\ origin' = [origin EXCEPT ![n] = m]
      /\ pc' = [pc EXCEPT ![t] = "confirming"]
      /\ UNCHANGED <<delivery, live, processed>>
  BY DEF EnqueueRetry, Create, Goto, IInv, TypeOK
<1>2. pc[t] \in Engaged /\ pc'[t] = "confirming" /\ pc'[t] \notin Engaged
  BY <1>1, Zenon DEF Engaged, IInv, TypeOK
<1>3. \A u \in Task \ {t} : pc'[u] = pc[u]
  BY <1>1, Zenon DEF IInv, TypeOK
<1>4. \A d \in Copy \ {n} : place'[d] = place[d] /\ origin'[d] = origin[d]
  BY <1>1, Zenon DEF IInv, TypeOK
<1>5. origin'[n] = m
  BY <1>1, Zenon DEF IInv, TypeOK
<1>6. \A u \in Task : Superseding(u) => Superseding(u)'
  BY <1>1, <1>2, <1>3, SMTT(30) DEF Superseding, CanSettle, Engaged
<1>7. \A u \in Task : pc[u] \in Engaged => delivery[u] \in Copy \ {n}
  BY HeldIsOld, SMTT(30) DEF IInv, TypeOK
<1>8. \A u \in Task : pc'[u] \in Engaged =>
        u # t /\ pc[u] \in Engaged /\ origin'[delivery[u]] = origin[delivery[u]]
          /\ origin[delivery[u]] # m
  BY <1>2, <1>3, <1>4, <1>7 DEF AloneInv, EngagedOnce
<1>9. EngagedOnce'
  BY <1>1, <1>8 DEF EngagedOnce, AloneInv
<1>10. ASSUME NEW d \in Copy \ {n}, origin[d] = m, place[d] \in Active
       PROVE  \E u \in Task : Superseding(u)' /\ delivery[u] = d
  <2>1. CASE d = delivery[t]
    <3>1. CanSettle(t)
      BY <1>2, <1>10, <2>1, HeldIsOld, Zenon
    <3>2. Superseding(t)'
      BY <1>1, <1>2, <3>1, Zenon DEF Superseding, CanSettle
    <3> QED BY <2>1, <3>2, Zenon
  <2>2. CASE d # delivery[t]
    <3>1. \E u \in Task : Superseding(u) /\ delivery[u] = d
      BY <1>2, <1>10, <2>2, Zenon DEF AloneInv, EngagedAlone
    <3> QED BY <1>6, <3>1, Zenon
  <2> QED BY <2>1, <2>2, Zenon
<1>11. TwoActive'
  <2> SUFFICES ASSUME NEW d \in Copy, NEW e \in Copy, d # e, origin'[d] = origin'[e],
                      place'[d] \in Active, place'[e] \in Active
               PROVE  \E u \in Task : Superseding(u)' /\ delivery'[u] \in {d, e}
    BY Zenon DEF TwoActive
  <2>1. CASE d # n /\ e # n
    <3>1. \E u \in Task : Superseding(u) /\ delivery[u] \in {d, e}
      BY <1>4, <2>1, Zenon DEF AloneInv, TwoActive
    <3> QED BY <1>1, <1>6, <3>1
  <2>2. CASE d = n
    <3>1. \E u \in Task : Superseding(u)' /\ delivery[u] = e
      BY <1>4, <1>5, <1>10, <2>2, Zenon
    <3> QED BY <1>1, <3>1, Zenon
  <2>3. CASE e = n
    <3>1. \E u \in Task : Superseding(u)' /\ delivery[u] = d
      BY <1>4, <1>5, <1>10, <2>3
    <3> QED BY <1>1, <3>1, Zenon
  <2> QED BY <2>1, <2>2, <2>3
<1>12. EngagedAlone'
  <2> SUFFICES ASSUME NEW u \in Task, NEW d \in Copy, pc'[u] \in Engaged, d # delivery'[u],
                      origin'[d] = origin'[delivery'[u]], place'[d] \in Active
               PROVE  \E v \in Task : Superseding(v)' /\ delivery'[v] = d
    BY Zenon DEF EngagedAlone
  <2>1. d # n
    BY <1>1, <1>5, <1>8
  <2>2. \E v \in Task : Superseding(v) /\ delivery[v] = d
    BY <1>1, <1>4, <1>8, <2>1 DEF AloneInv, EngagedAlone
  <2> QED BY <1>1, <1>6, <2>2, Zenon
<1> QED BY <1>9, <1>11, <1>12, Zenon

LEMMA PublishAlone ==
  ASSUME IInv, AloneInv, NEW m \in Message, Publish(m)
  PROVE  (EngagedOnce /\ TwoActive /\ EngagedAlone)'
<1> DEFINE n == nextCopy
<1>1. /\ n \in Copy /\ \A d \in Copy : origin[d] # m
      /\ place' = [place EXCEPT ![n] = "queue"]
      /\ origin' = [origin EXCEPT ![n] = m]
      /\ UNCHANGED <<pc, delivery, live, processed>>
  BY DEF Publish, Create, CopiesOf, taskVars, IInv, TypeOK
<1>2. \A d \in Copy \ {n} : place'[d] = place[d] /\ origin'[d] = origin[d]
  BY <1>1, Zenon DEF IInv, TypeOK
<1>3. origin'[n] = m
  BY <1>1, Zenon DEF IInv, TypeOK
<1>4. \A u \in Task : Superseding(u) => Superseding(u)'
  BY <1>1, Zenon DEF Superseding, CanSettle
<1>5. \A u \in Task : pc[u] \in Engaged => delivery[u] \in Copy \ {n}
  BY HeldIsOld DEF IInv, TypeOK
<1>6. \A u \in Task : pc'[u] \in Engaged =>
        pc[u] \in Engaged /\ origin'[delivery[u]] = origin[delivery[u]]
          /\ origin[delivery[u]] # m
  BY <1>1, <1>2, <1>5, Zenon
<1>7. EngagedOnce'
  BY <1>1, <1>6 DEF EngagedOnce, AloneInv
<1>8. TwoActive'
  <2> SUFFICES ASSUME NEW d \in Copy, NEW e \in Copy, d # e, origin'[d] = origin'[e],
                      place'[d] \in Active, place'[e] \in Active
               PROVE  \E u \in Task : Superseding(u)' /\ delivery'[u] \in {d, e}
    BY Zenon DEF TwoActive
  <2>1. d # n /\ e # n
    BY <1>1, <1>2, <1>3, SMTT(30)
  <2>2. \E u \in Task : Superseding(u) /\ delivery[u] \in {d, e}
    BY <1>2, <2>1, ZenonT(60) DEF AloneInv, TwoActive
  <2> QED BY <1>1, <1>4, <2>2, Zenon
<1>9. EngagedAlone'
  <2> SUFFICES ASSUME NEW u \in Task, NEW d \in Copy, pc'[u] \in Engaged, d # delivery'[u],
                      origin'[d] = origin'[delivery'[u]], place'[d] \in Active
               PROVE  \E v \in Task : Superseding(v)' /\ delivery'[v] = d
    BY Zenon DEF EngagedAlone
  <2>1. d # n
    BY <1>1, <1>3, <1>6
  <2>2. \E v \in Task : Superseding(v) /\ delivery[v] = d
    BY <1>1, <1>2, <1>6, <2>1, SMTT(30) DEF AloneInv, EngagedAlone
  <2> QED BY <1>1, <1>4, <2>2, ZenonT(60)
<1> QED BY <1>7, <1>8, <1>9

LEMMA EngagedHoldsKept ==
  ASSUME Faults \cap {"timeout", "channel", "connection", "crash", "reply", "beat"} = {},
         "cleanup" \notin HandlerOps, IInv, AloneInv, Next
  PROVE  (IdleIsFresh /\ EngagedHolds)'
<1> USE DEF IInv, AloneInv, TypeOK, IdleIsFresh, EngagedHolds, Engaged
<1>0. \A c \in Copy : place[c] = "done" => place'[c] = "done"
  BY SettledForGood, SMTT(30) DEF Final
<1>1. CASE \E t \in Task : TaskStep(t)
  <2> PICK t \in Task : TaskStep(t) BY <1>1, SMTT(30)
  <2>0. \A u \in Task : pc[u] # "idle" => delivery[u] \in Copy
    BY Zenon DEF TasksHoldCopies
  <2>1. CASE Advances(t)
    BY <2>1, SMTT(30) DEF Advances, Goto, copyVars
  <2>2. CASE HandlerAcks(t)
    <3>1. UNCHANGED <<pc, delivery, live>> /\ pc[t] = "running"
      BY <2>2, Zenon DEF HandlerAcks
    <3>2. processed'[t] /\ place'[delivery[t]] = "done"
      BY <2>0, <2>2, <3>1, SMTT(30) DEF HandlerAcks, Settle
    <3>3. \A u \in Task \ {t} : processed'[u] = processed[u] /\ disposition'[u] = disposition[u]
      BY <2>2, SMTT(30) DEF HandlerAcks, Settle
    <3>4. IdleIsFresh'
      BY <3>1, <3>3, Zenon
    <3>5. EngagedHolds'
      BY <1>0, <2>0, <3>1, <3>2, <3>3, SMTT(30)
    <3> QED BY <3>4, <3>5, Zenon
  <2>3. CASE Concludes(t)
    <3>1. \A u \in Task \ {t} : /\ pc'[u] = pc[u] /\ processed'[u] = processed[u]
                                /\ disposition'[u] = disposition[u]
      BY <2>3, SMTT(30) DEF Concludes, Goto, Settle
    <3>2. pc'[t] \in {"unwinding", "leaving"} /\ UNCHANGED <<delivery, live>>
      BY <2>3, SMTT(30) DEF Concludes, Goto
    <3> QED BY <1>0, <2>0, <3>1, <3>2, SMTT(30)
  <2>4. CASE EnqueueRetry(t)
    BY <1>0, <2>0, <2>4, SMTT(30) DEF EnqueueRetry, Goto
  <2>5. CASE AckAfterEnqueue(t)
    <3>1. \A u \in Task \ {t} : /\ pc'[u] = pc[u] /\ processed'[u] = processed[u]
                                /\ disposition'[u] = disposition[u]
      BY <2>5, SMTT(30) DEF AckAfterEnqueue, ReturnFromSchedule, Goto, Settle
    <3>2. pc'[t] \in {"unwinding", "leaving"} /\ UNCHANGED <<delivery, live>>
      BY <2>5, SMTT(30) DEF AckAfterEnqueue, ReturnFromSchedule, Goto
    <3> QED BY <1>0, <2>0, <3>1, <3>2
  <2>6. CASE Leaves(t)
    BY <2>6, SMTT(30) DEF Leaves, Goto, copyVars
  <2>7. CASE Finishes(t)
    BY <2>7, SMTT(30) DEF Finishes, EndTask, copyVars
  <2> QED BY <2>1, <2>2, <2>3, <2>4, <2>5, <2>6, <2>7, TaskStepKinds, ZenonT(60) DEF Timeout
<1>2. CASE WorkerStep
  <2>1. UNCHANGED <<pc, delivery, processed, disposition>>
    BY <1>2, WorkerStepQuiet, SMTT(30)
  <2>2. CASE UNCHANGED <<place, live>>
    BY <2>1, <2>2
  <2>3. CASE \A t \in Task : pc[t] = "idle" /\ ~live'[t]
    BY <2>1, <2>3, SMTT(30)
  <2> QED BY <1>2, <2>2, <2>3, WorkerStepQuiet, SMTT(30)
<1>3. CASE \E c \in Copy, t \in Task : Deliver(c, t)
  <2> PICK c \in Copy, t \in Task : Deliver(c, t) BY <1>3, Zenon
  <2>1. \A u \in Task \ {t} : pc'[u] = pc[u] /\ delivery'[u] = delivery[u] /\ live'[u] = live[u]
    BY DEF Deliver, Goto
  <2>2. pc[t] = "idle" /\ pc'[t] = "waiting" /\ live'[t] /\ UNCHANGED <<processed, disposition>>
    BY DEF Deliver, Goto
  <2>3. \A u \in Task : pc[u] # "idle" => delivery[u] \in Copy
    BY Zenon DEF TasksHoldCopies
  <2>4. ASSUME NEW u \in Task, pc'[u] \in Engaged, u # t
        PROVE  IF processed'[u] THEN place'[delivery'[u]] = "done" ELSE live'[u]
    <3>1. /\ pc[u] \in Engaged /\ delivery'[u] = delivery[u]
          /\ live'[u] = live[u] /\ processed'[u] = processed[u]
      BY <2>1, <2>2, <2>4, Zenon
    <3>2. delivery[u] \in Copy /\ IF processed[u] THEN place[delivery[u]] = "done" ELSE live[u]
      BY <2>3, <3>1
    <3> QED BY <1>0, <3>1, <3>2, SMTT(30)
  <2>5. ~processed'[t] /\ live'[t]
    BY <2>2, Zenon
  <2>6. EngagedHolds'
    <3> HIDE DEF IInv, AloneInv, TypeOK, IdleIsFresh, Engaged
    <3> QED BY <2>4, <2>5
  <2>7. IdleIsFresh'
    BY <2>1, <2>2, Zenon
  <2> QED BY <2>6, <2>7, Zenon
<1>4. CASE (\E m \in Message : Publish(m)) \/ (\E c \in Copy : BeatStep(c))
  <2>1. \A u \in Task : pc[u] # "idle" => delivery[u] \in Copy
    BY Zenon DEF TasksHoldCopies
  <2> QED BY <1>0, <1>4, <2>1, OthersKeepTasks, SMTT(30)
<1> QED BY <1>1, <1>2, <1>3, <1>4, ZenonT(60) DEF Next

\* Tasks hold at most one copy each.
LEMMA TasksHoldFewer ==
  ASSUME NEW S \in SUBSET Task, IsFiniteSet(S)
  PROVE  LET K == {delivery[t] : t \in S}
         IN  /\ IsFiniteSet(K) /\ Cardinality(K) \in Nat
             /\ Cardinality(K) <= Cardinality(S)
<1> DEFINE K == {delivery[t] : t \in S}
           f == [t \in S |-> delivery[t]]
<1>1. f \in [S -> K]
  BY Zenon
<1>2. \A k \in K : \E t \in S : f[t] = k
  BY Zenon
<1> HIDE DEF K, f
<1>3. f \in Surjection(S, K)
  BY <1>1, <1>2, Zenon DEF Surjection
<1>4. IsFiniteSet(K) /\ Cardinality(K) <= Cardinality(S)
  BY <1>3, FS_Surjection, Zenon
<1>5. Cardinality(K) \in Nat
  BY <1>4, FS_CardinalityType, Zenon
<1> QED BY <1>4, <1>5, Zenon DEF K

\* All active copies of a message but one are about to be acknowledged.
LEMMA ActiveCopiesCounted ==
  ASSUME IInv, TwoActive
  PROVE  SingleActiveCopy
<1> SUFFICES ASSUME NEW m \in Message
             PROVE  Cardinality({c \in CopiesOf(m) : place[c] \in Active}) <=
                      1 + Cardinality({t \in Task : pc[t] = "confirming" /\ CanSettle(t)
                                                      /\ origin[delivery[t]] = m})
  BY Zenon DEF SingleActiveCopy
<1> DEFINE A == {c \in CopiesOf(m) : place[c] \in Active}
           S == {t \in Task : pc[t] = "confirming" /\ CanSettle(t) /\ origin[delivery[t]] = m}
           K == {delivery[t] : t \in S}
<1> SUFFICES Cardinality(A) <= 1 + Cardinality(S)
  BY Zenon
<1>1. IsFiniteSet(S) /\ Cardinality(S) \in Nat
  BY WorkerAssumption, FS_Subset, FS_CardinalityType, Zenon
<1>2. S \subseteq Task
  BY Zenon
<1>3. IsFiniteSet(K) /\ Cardinality(K) <= Cardinality(S) /\ Cardinality(K) \in Nat
  <2> HIDE DEF S
  <2> QED BY <1>1, <1>2, TasksHoldFewer, Zenon
<1>4. IsFiniteSet(A) /\ Cardinality(A) \in Nat
  <2>1. IsFiniteSet(Copy)
    BY WorkerAssumption, FS_Interval
  <2>2. A \subseteq Copy
    BY Zenon DEF CopiesOf
  <2> HIDE DEF A, Copy
  <2> QED BY <2>1, <2>2, FS_Subset, FS_CardinalityType, Zenon
<1>5. CASE A \subseteq K
  <2> HIDE DEF A, K, S
  <2> QED BY <1>1, <1>3, <1>4, <1>5, FS_Subset
<1>6. CASE \E c \in A : c \notin K
  <2>1. PICK c \in A : c \notin K
    BY <1>6, Zenon
  <2>2. A \subseteq K \cup {c}
    <3> SUFFICES ASSUME NEW d \in A, d # c
                 PROVE  d \in K
      BY Zenon
    <3>1. PICK t \in Task : Superseding(t) /\ delivery[t] \in {c, d}
      BY <2>1, Zenon DEF TwoActive, CopiesOf
    <3>2. t \in S
      BY <2>1, <3>1, Zenon DEF Superseding, CopiesOf
    <3> QED BY <2>1, <3>1, <3>2, Zenon
  <2>3. IsFiniteSet(K \cup {c}) /\ Cardinality(K \cup {c}) = Cardinality(K) + 1
    <3> HIDE DEF A, K, S
    <3> QED BY <1>3, <2>1, FS_AddElement
  <2> HIDE DEF A, K, S
  <2>4. Cardinality(A) <= Cardinality(K \cup {c})
    BY <2>2, <2>3, FS_Subset
  <2> QED BY <1>1, <1>3, <1>4, <2>3, <2>4, SMTT(30)
<1> QED BY <1>5, <1>6, Zenon

\* As long as no channel, connection or process is lost under a task, no handler times
\* out and the beat worker does not fail, a message is worked on by one handler at a time,
\* and has one copy to work on but for the moment between the scheduling of its
\* retry and the acknowledgement (schedule_retry, handle_message); handlers that raise
\* while cleaning up after retry() are excluded.
THEOREM OneAtATime ==
  ASSUME Faults \cap {"timeout", "channel", "connection", "crash", "reply", "beat"} = {},
         "cleanup" \notin HandlerOps
  PROVE  Spec => []OneHandlerPerMessage
<1>1. Init => AloneInv
  BY DEF Init, AloneInv, IdleIsFresh, EngagedHolds, EngagedOnce, TwoActive, EngagedAlone,
     Engaged, Active
<1>2. IInv /\ AloneInv /\ [Next]_vars => AloneInv'
  <2>1. CASE IInv /\ AloneInv /\ Next
    <3>1. CASE (\E t \in Task : TaskStep(t)) \/ WorkerStep
               \/ (\E c \in Copy : BeatStep(c))
      <4>1. Quiet \/ \E t \in Task : EnqueueRetry(t)
        BY <2>1, <3>1, TaskStepQuiet, WorkerStepQuiet, BeatStepQuiet
      <4> QED BY <2>1, <4>1, QuietKeeps, EnqueueAlone, EngagedHoldsKept, Zenon DEF AloneInv
    <3>2. CASE (\E m \in Message : Publish(m)) \/ (\E c \in Copy, t \in Task : Deliver(c, t))
      BY <2>1, <3>2, PublishAlone, DeliverAlone, EngagedHoldsKept DEF AloneInv
    <3> QED BY <2>1, <3>1, <3>2, Zenon DEF Next
  <2>2. CASE AloneInv /\ UNCHANGED vars
    <3>1. UNCHANGED <<place, origin, pc, delivery, live, processed, disposition>>
      BY <2>2, Zenon DEF vars, copyVars, taskVars
    <3>2. (IdleIsFresh /\ EngagedHolds)'
      BY <2>2, <3>1, Zenon DEF AloneInv, IdleIsFresh, EngagedHolds
    <3>3. Quiet
      BY <3>1, Zenon DEF Quiet, Superseding, CanSettle
    <3> QED BY <2>2, <3>2, <3>3, QuietKeeps DEF AloneInv
  <2> QED BY <2>1, <2>2, Zenon
<1>3. IInv /\ AloneInv => OneHandlerPerMessage
  <2>1. EngagedOnce => NoConcurrentHandlers
    BY Zenon DEF EngagedOnce, NoConcurrentHandlers, Engaged
  <2> QED BY <2>1, ActiveCopiesCounted, Zenon DEF AloneInv, OneHandlerPerMessage
<1> QED BY <1>1, <1>2, <1>3, Inductive, PTL DEF Spec
=============================================================================
