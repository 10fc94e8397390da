---------------------------- MODULE MCOperations ----------------------------
(***************************************************************************)
(* The worker and the command line around RabbitMQ, for TLC: two           *)
(* deployments at a time; a deployment and a command on the dead letter    *)
(* queue; the set-up of a worker's consumers; a scheduled action.  A       *)
(* behaviour is one of one part, chosen initially; the others stay in an   *)
(* initial state.  The fairness is the one of the part that runs.          *)
(***************************************************************************)
EXTENDS DeadLetterTools, ConsumerSetup, ScheduledActions

CONSTANTS d1, d2, w1, w2, w3, k1, k2

VARIABLE part

operationVars == <<part, dlqVars, setupVars, schedVars>>

-----------------------------------------------------------------------------
FirstFromOne == [l \in Letter |-> IF l = 1 THEN "q1" ELSE "q2"]

Topology(odd, what, in) ==
  [entity |-> [e \in Entity |-> IF e \in odd THEN what ELSE "right"], bound |-> in]

\* Nothing yet; all of it; a queue or the dead letter exchange declared otherwise; the
\* main exchange gone.
FiveTopologies ==
  {Topology(Entity, "absent", {}),
   Topology({}, "right", Queue \cup {"dlq"}),
   Topology({"q1"}, "other", Queue \cup {"dlq"}),
   Topology({"dlx"}, "other", Queue \cup {"dlq"}),
   Topology({"main"}, "absent", {"dlq"})}

FiveTools ==
  {[kind |-> "stats", limit |-> NoLimit, filter |-> "any"],
   [kind |-> "list", limit |-> 2, filter |-> "any"],
   [kind |-> "purge", limit |-> NoLimit, filter |-> "any"],
   [kind |-> "requeue", limit |-> 2, filter |-> "any"],
   [kind |-> "requeue", limit |-> 1, filter |-> "q2"]}

\* Two handlers share a channel, the scheduled action has its own.
TwoChannels == [q \in Work |-> IF q = w3 THEN "own" ELSE "shared"]

-----------------------------------------------------------------------------
\* A part that does not run stays in one of its initial states.
OperationInit ==
  /\ part \in {"declare", "dlq", "setup", "sched"}
  /\ DlqInit
  /\ part # "dlq" => tool = [kind |-> "purge", limit |-> NoLimit, filter |-> "any"]
  /\ part \notin {"dlq", "declare"} =>
       /\ flag = [d \in Deployment |-> "plain"]
       /\ entity["main"] = "right" /\ entity["q1"] = "right" /\ entity["dlx"] = "right"
  /\ part = "dlq" => flag[d2] = "plain"
  /\ SetupInit /\ (part # "setup" => infra /\ there = Work)
  /\ SchedInit
  /\ part # "sched" => blink /\ action = [fits |-> TRUE, allow_overlap |-> FALSE]

Dec(A) == part = "declare" /\ A /\ UNCHANGED <<part, toolVars, setupVars, schedVars>>
Dlq(A) == part = "dlq" /\ A /\ UNCHANGED <<part, setupVars, schedVars>>
Set(A) == part = "setup" /\ A /\ UNCHANGED <<part, dlqVars, schedVars>>
Sch(A) == part = "sched" /\ A /\ UNCHANGED <<part, dlqVars, setupVars>>

OperationNext ==
  \/ \E d \in Deployment : Dec(DeclareStep(d))
  \/ Dlq(ToolStep \/ ToolDies \/ (DeclareStep(d1) /\ UNCHANGED toolVars))
  \/ Set(SetupNext)
  \/ Sch(SchedNext)

\* DlqFairness, SetupFairness and SchedFairness, each of its own part.
OperationFairness ==
  /\ WF_dlqVars(part = "dlq" /\ ToolStep)
  /\ WF_setupVars(part = "setup" /\ WorkerGoesUpAndDown)
  /\ WF_schedVars(part = "sched" /\ (BeatStart \/ \E k \in Worker : WorkerGoesOn(k)))
  /\ \A k \in Worker : WF_schedVars(part = "sched" /\ OtherEnds(k))
  /\ SF_schedVars(part = "sched" /\ \E k \in Worker : StartAction(k))

\* Every part stays within its types.
OperationTypeOK == TopologyTypeOK /\ ToolTypeOK /\ SetupTypeOK /\ SchedTypeOK

\* Commands, set-ups and triggers come to their end, and workers leave.
OperationsEnd ==
  LimitedToolsEnd /\ SetupSettles /\ WorkerStops /\ TriggerSettled /\ WorkerLeavesInTheEnd

OperationSpec == OperationInit /\ [][OperationNext]_operationVars /\ OperationFairness
=============================================================================
