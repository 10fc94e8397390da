-------------------------- MODULE ScheduledActions --------------------------
(***************************************************************************)
(* One scheduled action from the beat worker's trigger to its executions:  *)
(* how a beat worker comes up (src/jararaca/scheduler/beat_worker.py), the *)
(* queue of length 1 the triggers go through                               *)
(* (src/jararaca/utils/rabbitmq_utils.py), and the auto-acknowledging      *)
(* consumers of the workers, ScheduledMessageHandlerCallback               *)
(* (src/jararaca/messagebus/worker.py).  When a trigger is due is the      *)
(* subject of BeatScheduler.                                               *)
(***************************************************************************)
EXTENDS Integers, FiniteSets

CONSTANTS
  Worker,       \* the worker processes that consume the action's queue
  Triggers,     \* how many triggers are published (a bound)
  Prefetch,     \* the slots of the channel in each worker
  Others,       \* how many message handlers of the channel may want slots
  BeatRetries   \* connection_retry_config.max_retries of the beat worker

ASSUME ScheduledAssumption ==
  /\ Triggers \in Nat /\ Prefetch \in Nat /\ Prefetch > 0 /\ Others \in Nat
  /\ BeatRetries \in Nat

Trigger == 1..Triggers

VARIABLES
  beat,      \* where the beat worker is
  btries,    \* the retries of its initialization
  blink,     \* its connection is up
  bstop,     \* its shutdown_event
  fired,     \* the number of triggers published
  waiting,   \* the triggers in the queue
  happened,  \* what became of each trigger
  current,   \* _current_task: the trigger of the last task of each worker, 0 if none
  tasks,     \* the tasks that are not done, with the ones that wait for a slot
  running,   \* the ones that run the action
  busy,      \* the slots the other handlers of the channel have
  wstate,    \* each worker: "up", "stopping" (shutdown_event is set) or "gone"
  action     \* the action: whether it takes no more than one parameter, and allow_overlap

schedVars == <<beat, btries, blink, bstop, fired, waiting, happened, current, tasks, running,
               busy, wstate, action>>
beatVars == <<beat, btries, blink, bstop>>
workerVars == <<current, tasks, running, busy, wstate>>

ScheduledAction == [fits : BOOLEAN, allow_overlap : BOOLEAN]

SchedTypeOK ==
  /\ beat \in {"initializing", "checking", "pausing", "waiting", "loop", "stopped", "failed"}
  /\ btries \in 0..BeatRetries
  /\ blink \in BOOLEAN /\ bstop \in BOOLEAN
  /\ action \in ScheduledAction
  /\ fired \in 0..Triggers
  /\ waiting \subseteq Trigger
  /\ happened \in [Trigger -> {"nothing", "replaced", "started", "ran", "skipped", "dropped",
                               "refused", "killed"}]
  /\ current \in [Worker -> 0..Triggers]
  /\ tasks \in [Worker -> SUBSET Trigger]
  /\ running \in [Worker -> SUBSET Trigger]
  /\ busy \in [Worker -> 0..Others]
  /\ wstate \in [Worker -> {"up", "stopping", "gone"}]

SchedInit ==
  /\ beat = "initializing"
  /\ btries = 0
  /\ blink \in BOOLEAN
  /\ bstop = FALSE
  /\ fired = 0
  /\ waiting = {}
  /\ happened = [t \in Trigger |-> "nothing"]
  /\ current = [w \in Worker |-> 0]
  /\ tasks = [w \in Worker |-> {}]
  /\ running = [w \in Worker |-> {}]
  /\ busy = [w \in Worker |-> 0]
  /\ wstate = [w \in Worker |-> "up"]
  /\ action \in ScheduledAction

-----------------------------------------------------------------------------
\* The beat worker.

\* initialize: the exchange and the queues are looked up, with retries.
Initialize ==
  /\ beat = "initializing"
  /\ \/ blink /\ beat' = "checking" /\ UNCHANGED btries
     \/ btries < BeatRetries /\ btries' = btries + 1 /\ UNCHANGED beat
     \/ btries = BeatRetries /\ beat' = "failed" /\ UNCHANGED btries
  /\ UNCHANGED <<blink, bstop, fired, waiting, happened, workerVars, action>>

\* The health check after it, and once more after a pause; then initialize is over, the
\* connection counts as healthy, and the monitor starts.
CheckHealth ==
  /\ beat \in {"checking", "pausing"}
  /\ beat' = IF blink THEN "waiting" ELSE IF beat = "checking" THEN "pausing" ELSE "failed"
  /\ UNCHANGED <<btries, blink, bstop, fired, waiting, happened, workerVars, action>>

\* _wait_for_broker_connection: the connection has been healthy; a shutdown in the
\* meantime is an error.
EnterLoop ==
  /\ beat = "waiting"
  /\ beat' = IF bstop THEN "failed" ELSE "loop"
  /\ UNCHANGED <<btries, blink, bstop, fired, waiting, happened, workerVars, action>>

\* get_in_execution_count: in_execution is the only code that raises the counter in
\* Redis, and nothing enters it.
InExecutionCount == 0

\* dispatch_scheduled_action.  The queue keeps the newest trigger only.
Fire ==
  /\ beat = "loop" /\ ~bstop /\ blink
  /\ ~action.allow_overlap => InExecutionCount = 0
  /\ fired < Triggers
  /\ fired' = fired + 1
  /\ waiting' = {fired + 1}
  /\ happened' = [t \in Trigger |-> IF t \in waiting THEN "replaced" ELSE happened[t]]
  /\ UNCHANGED <<beatVars, workerVars, action>>

\* Its retries fail: the beat worker shuts down.
FireFails ==
  /\ beat = "loop" /\ ~bstop /\ ~blink
  /\ bstop' = TRUE
  /\ UNCHANGED <<beat, btries, blink, fired, waiting, happened, workerVars, action>>

\* A signal, or the monitor that finds the connection closed.
StopBeat ==
  /\ beat \notin {"stopped", "failed"} /\ ~bstop
  /\ bstop' = TRUE
  /\ UNCHANGED <<beat, btries, blink, fired, waiting, happened, workerVars, action>>

LeaveBeatLoop ==
  /\ beat = "loop" /\ bstop
  /\ beat' = "stopped"
  /\ UNCHANGED <<btries, blink, bstop, fired, waiting, happened, workerVars, action>>

\* The pool connects again while the beat worker comes up; a connection lost later is the
\* end of it.
BrokerLinkChanges ==
  /\ beat \notin {"stopped", "failed"}
  /\ beat = "loop" => blink
  /\ blink' = ~blink
  /\ UNCHANGED <<beat, btries, bstop, fired, waiting, happened, workerVars, action>>

-----------------------------------------------------------------------------
\* The workers.  The broker forgets a trigger when it hands it out (no_ack), so that
\* requeuing one fails, and the callback drops it.

Settle(t, what) == happened' = [happened EXCEPT ![t] = what]

\* ScheduledMessageHandlerCallback.__call__ on a worker that shuts down.
TriggerDropped(w) ==
  /\ wstate[w] = "stopping"
  /\ \E t \in waiting : Settle(t, "dropped")
  /\ waiting' = {}
  /\ UNCHANGED <<beatVars, fired, workerVars, action>>

\* The last task is not done: the trigger is skipped, whatever allow_overlap says.
TriggerSkipped(w) ==
  /\ wstate[w] = "up"
  /\ current[w] \in tasks[w]
  /\ \E t \in waiting : Settle(t, "skipped")
  /\ waiting' = {}
  /\ UNCHANGED <<beatVars, fired, workerVars, action>>

\* Mutation of TriggerTaken: a task that waits for its slot does not count.
TriggerTakenEarly(w) ==
  /\ wstate[w] = "up"
  /\ current[w] \notin running[w]
  /\ \E t \in waiting : /\ Settle(t, "started")
                        /\ current' = [current EXCEPT ![w] = t]
                        /\ tasks' = [tasks EXCEPT ![w] = @ \cup {t}]
  /\ waiting' = {}
  /\ UNCHANGED <<beatVars, fired, running, busy, wstate, action>>

TriggerTaken(w) ==
  /\ wstate[w] = "up"
  /\ current[w] \notin tasks[w]
  /\ \E t \in waiting : /\ Settle(t, "started")
                        /\ current' = [current EXCEPT ![w] = t]
                        /\ tasks' = [tasks EXCEPT ![w] = @ \cup {t}]
  /\ waiting' = {}
  /\ UNCHANGED <<beatVars, fired, running, busy, wstate, action>>

TaskDone(w, t, what) ==
  /\ Settle(t, what)
  /\ tasks' = [tasks EXCEPT ![w] = @ \ {t}]
  /\ running' = [running EXCEPT ![w] = @ \ {t}]

\* run_within_processing_slot gets its slot.
HasSlot(w) == Cardinality(running[w]) + busy[w] < Prefetch

\* handle_message: the shutdown is looked at again, then the action's parameters.
StartAction(w) ==
  /\ wstate[w] # "gone" /\ HasSlot(w)
  /\ \E t \in tasks[w] \ running[w] :
       CASE wstate[w] = "stopping" -> TaskDone(w, t, "dropped")
         [] wstate[w] = "up" /\ ~action.fits -> TaskDone(w, t, "refused")
         [] OTHER -> /\ running' = [running EXCEPT ![w] = @ \cup {t}]
                     /\ UNCHANGED <<happened, tasks>>
  /\ UNCHANGED <<beatVars, fired, waiting, current, busy, wstate, action>>

\* The action returns, or raises, which is logged.  Nothing else ends it: no timeout.
EndAction(w) ==
  /\ wstate[w] # "gone"
  /\ \E t \in running[w] : TaskDone(w, t, "ran")
  /\ UNCHANGED <<beatVars, fired, waiting, current, busy, wstate, action>>

\* Message handlers of the same channel take and give back slots.
OtherStarts(w) ==
  /\ wstate[w] = "up" /\ HasSlot(w) /\ busy[w] < Others
  /\ busy' = [busy EXCEPT ![w] = @ + 1]
  /\ UNCHANGED <<beatVars, fired, waiting, happened, current, tasks, running, wstate, action>>

OtherEnds(w) ==
  /\ busy[w] > 0
  /\ busy' = [busy EXCEPT ![w] = @ - 1]
  /\ UNCHANGED <<beatVars, fired, waiting, happened, current, tasks, running, wstate, action>>

StopWorker(w) ==
  /\ wstate[w] = "up"
  /\ wstate' = [wstate EXCEPT ![w] = "stopping"]
  /\ UNCHANGED <<beatVars, fired, waiting, happened, current, tasks, running, busy, action>>

\* wait_all_tasks_done has nothing to wait for any more.
WorkerLeaves(w) ==
  /\ wstate[w] = "stopping"
  /\ tasks[w] = {} /\ busy[w] = 0
  /\ wstate' = [wstate EXCEPT ![w] = "gone"]
  /\ UNCHANGED <<beatVars, fired, waiting, happened, current, tasks, running, busy, action>>

\* The process dies.
WorkerDies(w) ==
  /\ wstate[w] # "gone"
  /\ wstate' = [wstate EXCEPT ![w] = "gone"]
  /\ happened' = [t \in Trigger |-> IF t \in tasks[w] THEN "killed" ELSE happened[t]]
  /\ tasks' = [tasks EXCEPT ![w] = {}]
  /\ running' = [running EXCEPT ![w] = {}]
  /\ busy' = [busy EXCEPT ![w] = 0]
  /\ UNCHANGED <<beatVars, fired, waiting, current, action>>

TakeTrigger(w) == TriggerDropped(w) \/ TriggerSkipped(w) \/ TriggerTaken(w)

WorkerGoesOn(w) == TakeTrigger(w) \/ EndAction(w) \/ WorkerLeaves(w)

WorkerStep(w) ==
  \/ WorkerGoesOn(w) \/ StartAction(w) \/ OtherStarts(w) \/ OtherEnds(w) \/ StopWorker(w)
  \/ WorkerDies(w)

BeatStart == Initialize \/ CheckHealth \/ EnterLoop \/ LeaveBeatLoop

SchedNext ==
  \/ BeatStart \/ Fire \/ FireFails \/ StopBeat \/ BrokerLinkChanges
  \/ \E w \in Worker : WorkerStep(w)

SchedSpec == SchedInit /\ [][SchedNext]_schedVars

\* The broker hands out what is in the queue, actions and handlers end, slots go to those
\* who have waited longest, and a worker that is done leaves.  All but the other handlers
\* happens a finite number of times.
SchedFairness ==
  /\ WF_schedVars(BeatStart \/ \E w \in Worker : WorkerGoesOn(w))
  /\ \A w \in Worker : WF_schedVars(OtherEnds(w))
  /\ SF_schedVars(\E w \in Worker : StartAction(w))

-----------------------------------------------------------------------------
\* In one worker the action never overlaps itself, not even while the earlier execution
\* waits for its slot; and the slots bound it together with the message handlers.  The
\* guard of ScheduledMessageHandlerCallback.__call__ does not look at allow_overlap, so
\* this holds of an action that may overlap too (OverlapAsDeclared).
NoOverlapInWorker ==
  \A w \in Worker : Cardinality(tasks[w]) <= 1
                    /\ Cardinality(running[w]) + busy[w] <= Prefetch

\* What docs/scheduler.md says of allow_overlap: new executions start although the previous
\* one is still running when it is set, and not when it is not.  The code does neither:
\* the callback skips the trigger whatever the option says, and the beat worker's count
\* that should keep two workers from running the action at once is always 0.
OverlapAsDeclared ==
  /\ action.allow_overlap => \A t \in Trigger : happened[t] # "skipped"
  /\ ~action.allow_overlap => Cardinality(UNION {running[w] : w \in Worker}) <= 1

\* Every trigger that is published is settled, unless all workers have left.
TriggerSettled ==
  \A t \in Trigger :
    (fired >= t) ~> (happened[t] \notin {"nothing", "started"}
                       \/ \A w \in Worker : wstate[w] = "gone")

\* A worker told to stop leaves once its tasks are done, although triggers keep coming.
WorkerLeavesInTheEnd == \A w \in Worker : wstate[w] = "stopping" ~> wstate[w] = "gone"
=============================================================================
