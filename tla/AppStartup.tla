----------------------------- MODULE AppStartup -----------------------------
(***************************************************************************)
(* An application from its start to its end: the container that builds the *)
(* providers, interceptors and controllers (src/jararaca/microservice.py), *)
(* the lifecycles of the interceptors (src/jararaca/lifecycle.py), and how *)
(* an HTTP application is told to stop (src/jararaca/presentation/         *)
(* server.py).  An item is a type or a token; its instances are numbered.  *)
(***************************************************************************)
EXTENDS Integers, Sequences

CONSTANTS
  Item,    \* what the container builds
  Needs,   \* the annotated parameters of each item's constructor, in order
  Apps,    \* the applications: their providers before and after the interceptors, their
           \* interceptors and their controllers
  Fragile  \* the items whose constructor or lifecycle may raise

\* A provider is a class or a factory to build ("provide"), a value, a ProviderSpec with a
\* falsy value or none at all, which comes to nothing, or a type without a ProviderSpec
\* ("bare").  An interceptor is one to resolve, which may have a lifecycle to enter, or an
\* instance, by which AppLifecycle means whatever has an attribute `intercept'.
ProviderOp == {"provide", "value", "nothing", "bare"}
InterceptorOp == {"resolve", "enter", "instance", "enterInstance"}
StepRecord == [op : ProviderOp \cup InterceptorOp, item : Item]

ASSUME StartupAssumption ==
  /\ Needs \in [Item -> Seq(Item)]
  /\ Fragile \subseteq Item
  /\ \A a \in Apps : /\ {a.before, a.interceptors, a.after} \subseteq Seq(StepRecord)
                     /\ a.controllers \in Seq(Item)

VARIABLES
  app,       \* the application
  over,      \* how many steps of the start-up are over
  stack,     \* the instantiations in progress, the innermost first
  made,      \* how many instances of each item were built
  registered,\* instances_map: the instance each item is bound to, 0 if none
  uses,      \* which instance of an item got which instance of another
  given,     \* the instances that were values
  entered,   \* the lifecycles entered, in order
  exited,    \* the lifecycles exited, in order
  status,    \* "starting", "running", "stopping", "stopped", "failed"
  requested, \* HttpShutdownState._requested
  aevent,    \* its event
  handler    \* whose signal handler is installed, "ours" or the "server"'s

appVars == <<app, over, stack, made, registered, uses, given, entered, exited, status, requested,
             aevent, handler>>
signalVars == <<requested, aevent, handler>>

StepsOf(op, items) == [i \in 1..Len(items) |-> [op |-> op, item |-> items[i]]]

\* AppLifecycle.__call__ up to its yield, and the controllers HttpAppLifecycle resolves.
StartupPlan(a) ==
  a.before \o a.interceptors \o a.after \o StepsOf("resolve", a.controllers)

\* The step the start-up is at, if it is not through.
Left == over < Len(StartupPlan(app))
Step == StartupPlan(app)[over + 1]

AppInit ==
  /\ app \in Apps
  /\ over = 0
  /\ stack = <<>>
  /\ made = [i \in Item |-> 0]
  /\ registered = [i \in Item |-> 0]
  /\ uses = {} /\ given = {}
  /\ entered = <<>>
  /\ exited = <<>>
  /\ status = "starting"
  /\ requested = FALSE
  /\ aevent = FALSE
  /\ handler \in {"ours", "server"}

AppTypeOK ==
  /\ app \in Apps /\ over \in 0..Len(StartupPlan(app))
  /\ made \in [Item -> Nat] /\ registered \in [Item -> Nat]
  /\ \A i \in Item : registered[i] <= made[i]
  /\ stack \in Seq([item : Item, needs : Seq(Item), got : SUBSET (Item \X Nat)])
  /\ uses \subseteq Item \X Nat \X Item \X Nat /\ given \subseteq Item \X Nat
  /\ entered \in Seq(Item) /\ exited \in Seq(Item)
  /\ status \in {"starting", "running", "stopping", "stopped", "failed"}
  /\ requested \in BOOLEAN /\ aevent \in BOOLEAN /\ handler \in {"ours", "server"}

-----------------------------------------------------------------------------
\* The container.

Frame(i) == [item |-> i, needs |-> Needs[i], got |-> {}]

\* The steps that may build their item, and the ones that register nothing.
Building == {"provide", "resolve", "enter"}
Idle == {"nothing", "instance", "enterInstance"}

\* Mutation of BuildNext: what is registered is built again.
BuildNextNoLookup ==
  /\ status = "starting"
  /\ stack = <<>> /\ Left
  /\ Step.op \in Building
  /\ Step.op # "enter" \/ registered[Step.item] = 0
  /\ stack' = <<Frame(Step.item)>>
  /\ UNCHANGED <<app, over, made, registered, uses, given, entered, exited, status, signalVars>>

\* fill_providers builds a class or a factory, built before or not;
\* get_or_register_token_or_type only what is not in instances_map.
BuildNext ==
  /\ status = "starting"
  /\ stack = <<>> /\ Left
  /\ Step.op \in Building
  /\ Step.op = "provide" \/ registered[Step.item] = 0
  /\ stack' = <<Frame(Step.item)>>
  /\ UNCHANGED <<app, over, made, registered, uses, given, entered, exited, status, signalVars>>

\* What is resolved is there already, the provider comes to nothing, or the interceptor is
\* an instance without a lifecycle.
PassStep ==
  /\ status = "starting"
  /\ stack = <<>> /\ Left
  /\ \/ Step.op = "resolve" /\ registered[Step.item] > 0
     \/ Step.op \in {"nothing", "instance"}
  /\ over' = over + 1
  /\ UNCHANGED <<app, stack, made, registered, uses, given, entered, exited, status, signalVars>>

\* A value takes the item's place in instances_map.
TakeValue ==
  /\ status = "starting"
  /\ stack = <<>> /\ Left
  /\ Step.op = "value"
  /\ LET i == Step.item
         n == made[i] + 1
     IN  /\ made' = [made EXCEPT ![i] = n]
         /\ registered' = [registered EXCEPT ![i] = n]
         /\ given' = given \cup {<<i, n>>}
  /\ over' = over + 1
  /\ UNCHANGED <<app, stack, uses, entered, exited, status, signalVars>>

\* A type has no attribute `after_interceptors': fill_providers raises when it comes to it.
BareProvider ==
  /\ status = "starting"
  /\ stack = <<>> /\ Left
  /\ Step.op = "bare"
  /\ status' = "failed"
  /\ UNCHANGED <<app, over, stack, made, registered, uses, given, entered, exited, signalVars>>

\* _instantiate evaluates the next parameter; a cycle never ends but in a
\* RecursionError.
Evaluate ==
  /\ status = "starting"
  /\ stack # <<>> /\ stack[1].needs # <<>>
  /\ LET d == Head(stack[1].needs)
     IN  CASE registered[d] > 0 ->
                /\ stack' = [stack EXCEPT ![1] = [item |-> @.item, needs |-> Tail(@.needs),
                                                  got |-> @.got \cup {<<d, registered[d]>>}]]
                /\ UNCHANGED status
           [] registered[d] = 0 /\ \A k \in DOMAIN stack : stack[k].item # d ->
                stack' = <<Frame(d)>> \o stack /\ UNCHANGED status
           [] OTHER -> status' = "failed" /\ UNCHANGED stack
  /\ UNCHANGED <<app, over, made, registered, uses, given, entered, exited, signalVars>>

\* The constructor is called and the instance registered; the innermost instantiation
\* is over, and with the outermost one the step, unless a lifecycle is to be entered.
Construct ==
  /\ status = "starting"
  /\ stack # <<>> /\ stack[1].needs = <<>>
  /\ LET i == stack[1].item
         n == made[i] + 1
     IN  /\ made' = [made EXCEPT ![i] = n]
         /\ registered' = [registered EXCEPT ![i] = n]
         /\ uses' = uses \cup {<<i, n, g[1], g[2]>> : g \in stack[1].got}
  /\ stack' = Tail(stack)
  /\ over' = IF Len(stack) = 1 /\ Step.op # "enter" THEN over + 1 ELSE over
  /\ UNCHANGED <<app, given, entered, exited, status, signalVars>>

ToEnter ==
  /\ stack = <<>> /\ Left
  /\ Step.op = "enterInstance" \/ (Step.op = "enter" /\ registered[Step.item] > 0)

\* interceptor.lifecycle(...).__aenter__().
Enter ==
  /\ status = "starting"
  /\ ToEnter
  /\ entered' = Append(entered, Step.item)
  /\ over' = over + 1
  /\ UNCHANGED <<app, stack, made, registered, uses, given, exited, status, signalVars>>

\* A constructor or a lifecycle raises: the start-up is over, and what was entered is
\* left as it is.
StartFails ==
  /\ status = "starting"
  /\ \/ stack # <<>> /\ stack[1].item \in Fragile
     \/ ToEnter /\ Step.item \in Fragile
  /\ status' = "failed"
  /\ UNCHANGED <<app, over, stack, made, registered, uses, given, entered, exited, signalVars>>

Serve ==
  /\ status = "starting"
  /\ ~Left /\ stack = <<>>
  /\ status' = "running"
  /\ UNCHANGED <<app, over, stack, made, registered, uses, given, entered, exited, signalVars>>

-----------------------------------------------------------------------------
\* The end.

\* A signal reaches the process.  handle_signal ignores it when the shutdown was
\* requested before; else it hands it on to the server's handler.
Deliver(req) ==
  /\ aevent' = (aevent \/ handler = "ours")
  /\ requested' = (req \/ handler = "ours")
  /\ handler' = "server"
  /\ status' = "stopping"

Ignore ==
  /\ aevent' = TRUE
  /\ requested' = TRUE
  /\ UNCHANGED <<handler, status>>

SignalArrives ==
  /\ status = "running"
  /\ IF handler = "ours" /\ requested THEN Ignore ELSE Deliver(requested)
  /\ UNCHANGED <<app, over, stack, made, registered, uses, given, entered, exited>>

\* request_shutdown marks the request and sends the process a SIGINT.
RequestShutdown ==
  /\ status = "running" /\ ~requested
  /\ IF handler = "ours" THEN Ignore ELSE Deliver(TRUE)
  /\ UNCHANGED <<app, over, stack, made, registered, uses, given, entered, exited>>

\* The lifecycles are left in the order in which they were entered.
Exit ==
  /\ status = "stopping"
  /\ Len(exited) < Len(entered)
  /\ exited' = Append(exited, entered[Len(exited) + 1])
  /\ UNCHANGED <<app, over, stack, made, registered, uses, given, entered, status, signalVars>>

\* One of them raises, and the others are not left.
ExitFails ==
  /\ status = "stopping"
  /\ Len(exited) < Len(entered) /\ entered[Len(exited) + 1] \in Fragile
  /\ status' = "failed"
  /\ UNCHANGED <<app, over, stack, made, registered, uses, given, entered, exited, signalVars>>

Stopped ==
  /\ status = "stopping"
  /\ Len(exited) = Len(entered)
  /\ status' = "stopped"
  /\ UNCHANGED <<app, over, stack, made, registered, uses, given, entered, exited, signalVars>>

StartupStep ==
  \/ BuildNext \/ PassStep \/ TakeValue \/ BareProvider \/ Evaluate \/ Construct
  \/ Enter \/ StartFails \/ Serve
EndStep == Exit \/ ExitFails \/ Stopped

AppNext == StartupStep \/ SignalArrives \/ RequestShutdown \/ EndStep

AppSpec == AppInit /\ [][AppNext]_appVars

AppFairness == WF_appVars(StartupStep \/ EndStep)

-----------------------------------------------------------------------------
\* What building an item may build: the item and what it needs, directly or not, which is
\* what is in every set that holds the item and the parameters of its members.
Closed(S) == \A i \in S : \A k \in DOMAIN Needs[i] : Needs[i][k] \in S

Required == [i \in Item |-> {d \in Item : \A S \in SUBSET Item : i \in S /\ Closed(S) => d \in S}]

\* What a step may put into the container.
Builds(s) ==
  IF s.op \in Building THEN Required[s.item] ELSE {d \in {s.item} : s.op = "value"}

\* No provider is listed twice, or after what needs it, directly or not.
ListedInOrder(a) ==
  \A j \in DOMAIN StartupPlan(a) : \A i \in 1..(j - 1) :
    StartupPlan(a)[j].op \in {"provide", "value"}
      => StartupPlan(a)[j].item \notin Builds(StartupPlan(a)[i])

\* The container builds singletons: in an application whose providers are listed before
\* what needs them, no item is built twice, and whatever was handed to a constructor is
\* the instance everybody else gets.
OneInstance ==
  ListedInOrder(app) =>
    /\ \A i \in Item : made[i] <= 1
    /\ \A u \in uses : u[4] = registered[u[3]]

\* A running application has an instance of every provider, interceptor and controller it
\* lists, but for the providers without a value to provide and the interceptors that are
\* instances themselves; and every instance the container built got one of each of its
\* parameters.
RunningIsWired ==
  status = "running" =>
    /\ \A k \in DOMAIN StartupPlan(app) :
         \/ registered[StartupPlan(app)[k].item] > 0
         \/ StartupPlan(app)[k].op \in Idle
    /\ \A i \in Item : \A k \in DOMAIN Needs[i] :
         registered[i] > 0 /\ <<i, registered[i]>> \notin given
           => \E u \in uses : u[1] = i /\ u[2] = registered[i] /\ u[3] = Needs[i][k]

\* An application that stops in good order has left every lifecycle it entered, once.
StoppedHasLeft == status = "stopped" => exited = entered

\* An application is wired with single instances while it runs, and undone when it stops.
AppInOrder == AppTypeOK /\ OneInstance /\ RunningIsWired /\ StoppedHasLeft

StartupBegun == stack # <<>>
StartupOver == status \in {"running", "failed"}

\* A start-up that has begun to build something ends in a running application or in an
\* error, cycles included.
StartupEnds == StartupBegun ~> StartupOver
=============================================================================
