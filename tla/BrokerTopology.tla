--------------------------- MODULE BrokerTopology ---------------------------
(***************************************************************************)
(* The exchanges and queues of the worker on RabbitMQ, and the command     *)
(* `jararaca declare' that creates them (src/jararaca/cli.py,              *)
(* src/jararaca/utils/rabbitmq_utils.py), run by several deployments at a  *)
(* time.  Every call to the broker is a step.  Dead letters are numbered   *)
(* in the order in which they arrived in the dead letter queue.            *)
(***************************************************************************)
EXTENDS Integers, Sequences, FiniteSets

CONSTANTS
  Deployment,  \* the concurrent runs of `jararaca declare'
  Flags,       \* the flags they may be given, a subset of {"plain", "interactive", "force"}
  Queue,       \* the queues of message handlers and scheduled actions
  Letter,      \* the dead letters, a set of numbers
  Origin,      \* the queue each of them comes from
  Found        \* the topologies the broker may be found with

Exchange == {"main", "dlx"}
Entity == Exchange \cup {"dlq"} \cup Queue

ASSUME TopologyAssumption ==
  /\ Flags \subseteq {"plain", "interactive", "force"}
  /\ Letter \subseteq Nat
  /\ Origin \in [Letter -> Queue]
  /\ Queue \cap {"main", "dlx", "dlq"} = {}
  /\ Found \subseteq [entity : [Entity -> {"right", "other", "absent"}],
                     bound : SUBSET (Queue \cup {"dlq"})]

VARIABLES
  entity,  \* how each exchange and queue is declared: "right", "other", or "absent"
  bound,   \* the queues bound to their exchange
  letters, \* the dead letters in the dead letter queue
  fate,    \* what became of the others
  flag,    \* the flags of each deployment
  phase,   \* where it is: "check", "infra", "reinfra", "queue", "requeue", or its end
  calls,   \* the calls to the broker it has still to make in this phase
  left,    \* the queues it has not come to yet
  skipped  \* whether it gave something up

topologyVars == <<entity, bound, letters, fate, flag, phase, calls, left, skipped>>
brokerVars == <<entity, bound, letters, fate>>

Op == [op : {"probe", "delete", "declare", "bind"}, on : Entity]

TopologyTypeOK ==
  /\ entity \in [Entity -> {"right", "other", "absent"}]
  /\ bound \subseteq Queue \cup {"dlq"}
  /\ letters \subseteq Letter
  /\ fate \in [Letter -> {"kept", "deleted", "purged", "requeued", "unroutable"}]
  /\ flag \in [Deployment -> Flags]
  /\ phase \in [Deployment ->
                  {"check", "infra", "reinfra", "queue", "requeue", "done", "failed"}]
  /\ calls \in [Deployment -> Seq(Op)]
  /\ left \in [Deployment -> SUBSET Queue]
  /\ skipped \in [Deployment -> BOOLEAN]

\* The exchange a queue is bound to.
HomeOf(q) == IF q = "dlq" THEN "dlx" ELSE "main"

CallsTo(op, names) == [i \in 1..Len(names) |-> [op |-> op, on |-> names[i]]]

\* check_infrastructure_exists.
ProbeCalls == CallsTo("probe", <<"main", "dlx", "dlq">>)

\* delete_infrastructure.
DeleteCalls == CallsTo("delete", <<"main", "dlx", "dlq">>)

\* Mutation of DeclareCalls: the dead letter queue is not bound.
DeclareCallsUnbound == CallsTo("declare", <<"main", "dlx", "dlq">>)

\* declare_main_exchange, declare_dl_exchange, declare_dl_queue and the binding.
DeclareCalls == CallsTo("declare", <<"main", "dlx", "dlq">>) \o CallsTo("bind", <<"dlq">>)

\* declare_worker_queue or declare_scheduled_action_queue, and the binding.
QueueCalls(q) == CallsTo("declare", <<q>>) \o CallsTo("bind", <<q>>)

TopologyInit ==
  /\ \E f \in Found : entity = f.entity /\ bound = f.bound
  /\ letters = IF entity["dlq"] = "absent" THEN {} ELSE Letter
  /\ fate = [l \in Letter |-> IF l \in letters THEN "kept" ELSE "deleted"]
  /\ flag \in [Deployment -> Flags]
  /\ phase = [d \in Deployment |-> "check"]
  /\ calls = [d \in Deployment |-> ProbeCalls]
  /\ left = [d \in Deployment |-> Queue]
  /\ skipped = [d \in Deployment |-> FALSE]

-----------------------------------------------------------------------------
\* What the broker makes of a call.  A passive declaration asks for existence only, a
\* declaration fails on other properties, a binding needs both of its ends; deletions
\* never fail, RabbitmqUtils swallows their errors.
Succeeds(c) ==
  CASE c.op = "probe"   -> entity[c.on] # "absent"
    [] c.op = "declare" -> entity[c.on] # "other"
    [] c.op = "bind"    -> entity[c.on] # "absent" /\ entity[HomeOf(c.on)] # "absent"
    [] c.op = "delete"  -> TRUE

\* A deleted exchange takes its bindings along, a deleted queue its messages.
Apply(c) ==
  /\ entity' = CASE c.op = "declare" -> [entity EXCEPT ![c.on] = "right"]
                 [] c.op = "delete"  -> [entity EXCEPT ![c.on] = "absent"]
                 [] OTHER            -> entity
  /\ bound' = CASE c.op = "bind"   -> bound \cup {c.on}
                [] c.op = "delete" -> {q \in bound : q # c.on /\ HomeOf(q) # c.on}
                [] OTHER           -> bound
  /\ letters' = IF c.op = "delete" /\ c.on = "dlq" THEN {} ELSE letters
  /\ fate' = [l \in Letter |->
                IF \/ c.op = "delete" /\ fate[l] = "kept" /\ c.on = "dlq"
                   \/ c.op = "delete" /\ fate[l] = "requeued" /\ Origin[l] = c.on
                THEN "deleted" ELSE fate[l]]

\* should_recreate_infrastructure, also inlined in declare_and_bind_queue: the answers
\* it may get.
ShouldRecreate(d) ==
  CASE flag[d] = "force" -> {TRUE} [] flag[d] = "interactive" -> BOOLEAN [] OTHER -> {FALSE}

GoTo(d, ph, cs) ==
  /\ phase' = [phase EXCEPT ![d] = ph]
  /\ calls' = [calls EXCEPT ![d] = cs]

CallSucceeds(d) ==
  /\ calls[d] # <<>>
  /\ Succeeds(Head(calls[d]))
  /\ Apply(Head(calls[d]))
  /\ calls' = [calls EXCEPT ![d] = Tail(@)]
  /\ UNCHANGED <<flag, phase, left, skipped>>

\* setup_infrastructure, when a probe failed: the answer decides on a deletion.
NothingThere(d) ==
  /\ phase[d] = "check"
  /\ calls[d] # <<>> /\ ~Succeeds(Head(calls[d]))
  /\ \E recreate \in ShouldRecreate(d) :
       GoTo(d, "infra", IF recreate THEN DeleteCalls \o DeclareCalls ELSE DeclareCalls)
  /\ UNCHANGED <<brokerVars, flag, left, skipped>>

\* setup_infrastructure, when all three exist: nothing is deleted, forced or not.
AllThere(d) ==
  /\ phase[d] = "check"
  /\ calls[d] = <<>>
  /\ GoTo(d, "infra", DeclareCalls)
  /\ UNCHANGED <<brokerVars, flag, left, skipped>>

\* declare_infrastructure, its except branch.
InfraFails(d) ==
  /\ phase[d] = "infra"
  /\ calls[d] # <<>> /\ ~Succeeds(Head(calls[d]))
  /\ \E recreate \in ShouldRecreate(d) :
       IF recreate
         THEN GoTo(d, "reinfra", DeleteCalls \o DeclareCalls) /\ UNCHANGED skipped
         ELSE GoTo(d, "queue", <<>>) /\ skipped' = [skipped EXCEPT ![d] = TRUE]
  /\ UNCHANGED <<brokerVars, flag, left>>

\* declare_controller_queues comes to the next queue.
NextQueue(d) ==
  /\ phase[d] \in {"infra", "reinfra", "queue", "requeue"}
  /\ calls[d] = <<>>
  /\ left[d] # {}
  /\ LET q == CHOOSE x \in left[d] : TRUE
     IN  GoTo(d, "queue", QueueCalls(q)) /\ left' = [left EXCEPT ![d] = @ \ {q}]
  /\ UNCHANGED <<brokerVars, flag, skipped>>

\* declare_and_bind_queue, its except branch.
QueueFails(d) ==
  /\ phase[d] = "queue"
  /\ calls[d] # <<>> /\ ~Succeeds(Head(calls[d]))
  /\ \E recreate \in ShouldRecreate(d) :
       LET q == Head(calls[d]).on
       IN  IF recreate
             THEN GoTo(d, "requeue", CallsTo("delete", <<q>>) \o QueueCalls(q))
                  /\ UNCHANGED skipped
             ELSE GoTo(d, "queue", <<>>) /\ skipped' = [skipped EXCEPT ![d] = TRUE]
  /\ UNCHANGED <<brokerVars, flag, left>>

\* A second failure, or the loss of the connection, ends the command with the error.
CommandFails(d) ==
  /\ \/ phase[d] \in {"reinfra", "requeue"} /\ calls[d] # <<>> /\ ~Succeeds(Head(calls[d]))
     \/ phase[d] \notin {"done", "failed"} /\ calls[d] # <<>>
  /\ GoTo(d, "failed", <<>>)
  /\ UNCHANGED <<brokerVars, flag, left, skipped>>

CommandDone(d) ==
  /\ phase[d] \in {"infra", "reinfra", "queue", "requeue"}
  /\ calls[d] = <<>> /\ left[d] = {}
  /\ GoTo(d, "done", <<>>)
  /\ UNCHANGED <<brokerVars, flag, left, skipped>>

DeclareStep(d) ==
  \/ CallSucceeds(d) \/ NothingThere(d) \/ AllThere(d) \/ InfraFails(d) \/ NextQueue(d)
  \/ QueueFails(d) \/ CommandFails(d) \/ CommandDone(d)

-----------------------------------------------------------------------------
Complete == bound = Queue \cup {"dlq"} /\ \A e \in Entity : entity[e] = "right"

\* Deployments that all end well, none having given anything up, leave every exchange
\* and queue declared as the worker needs it and bound, however their deletions and
\* declarations interleaved.
DeclaredIsComplete ==
  (\A d \in Deployment : phase[d] = "done" /\ ~skipped[d]) => Complete

\* Nothing is deleted, and no message with it, by deployments that run neither with
\* --force nor in interactive mode.
PlainDeletesNothing ==
  (\A d \in Deployment : flag[d] = "plain") =>
    /\ \A e \in Entity : entity[e] # "absent" => entity'[e] # "absent"
    /\ bound \subseteq bound'
    /\ \A l \in Letter : fate'[l] = "deleted" => fate[l] = "deleted"
=============================================================================
