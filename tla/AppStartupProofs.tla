-------------------------- MODULE AppStartupProofs --------------------------
(***************************************************************************)
(* Proofs about the start-up and the end of an application, for any graph  *)
(* of providers, interceptors and controllers: a running application is    *)
(* wired, with single instances where the providers are listed in order,   *)
(* and one that has stopped has left the contexts it entered.              *)
(***************************************************************************)
EXTENDS AppStartup, TLAPS

\* The instantiations that wait for a parameter of theirs.
Frames == [item : Item, needs : Seq(Item), got : SUBSET (Item \X Nat)]

\* An instantiation got instances that exist, has got or will get each parameter, and builds
\* what the step of the start-up requires.
FrameOK(f) ==
  /\ \A g \in f.got : g[2] \in 1..made[g[1]]
  /\ \A k \in DOMAIN Needs[f.item] :
       \/ \E m \in DOMAIN f.needs : f.needs[m] = Needs[f.item][k]
       \/ \E g \in f.got : g[1] = Needs[f.item][k]
  /\ \A m \in DOMAIN f.needs : f.needs[m] \in Required[f.item]
  /\ f.item \in Required[Step.item]

\* Nothing waits for itself, and at the bottom waits what the step is about.
StackOK ==
  /\ \A n \in 1..Len(stack) : FrameOK(stack[n])
  /\ \A m, n \in 1..Len(stack) : m # n => stack[m].item # stack[n].item
  /\ stack # <<>> => Left /\ Step.op \in Building /\ stack[Len(stack)].item = Step.item

\* A step that is over has left its item registered, unless it registers nothing.
StepsDone ==
  \A j \in 1..over : registered[StartupPlan(app)[j].item] > 0 \/ StartupPlan(app)[j].op \in Idle

\* What was built was required by a step that is over, or by the one the start-up is at.
BuiltOnDemand ==
  \A i \in Item : made[i] > 0 =>
    \E j \in 1..Len(StartupPlan(app)) :
      /\ i \in Builds(StartupPlan(app)[j])
      /\ j <= over \/ (j = over + 1 /\ (stack # <<>> \/ StartupPlan(app)[j].op = "enter"))

\* Listed in order, nothing is built twice: what is being built was not built before.
BuiltOnce ==
  ListedInOrder(app) =>
    /\ \A n \in 1..Len(stack) : made[stack[n].item] = 0
    /\ \A i \in Item : made[i] <= 1

\* What is registered was given an instance for every parameter, or is a value.
Wired ==
  \A i \in Item : \A k \in DOMAIN Needs[i] :
    registered[i] > 0 /\ <<i, registered[i]>> \notin given
      => \E u \in uses : u[1] = i /\ u[2] = registered[i] /\ u[3] = Needs[i][k]

\* The instances that were given were built.
UsesMade == \A u \in uses : u[4] \in 1..made[u[3]]

\* The contexts are left from the first that was entered, all of them unless one fails.
LeftInOrder ==
  /\ Len(exited) <= Len(entered)
  /\ \A k \in 1..Len(exited) : exited[k] = entered[k]
  /\ status = "starting" => exited = <<>>
  /\ status = "stopped" => Len(exited) = Len(entered)
  /\ status = "running" => ~Left

AppInv ==
  /\ AppTypeOK /\ registered = made
  /\ StackOK /\ StepsDone /\ BuiltOnDemand /\ BuiltOnce /\ Wired /\ UsesMade /\ LeftInOrder

\* The plan of an application is a sequence of steps.
LEMMA PlanTyped ==
  ASSUME NEW a \in Apps
  PROVE  StartupPlan(a) \in Seq(StepRecord)
<1> DEFINE c == StepsOf("resolve", a.controllers)
<1>1. /\ a.before \in Seq(StepRecord) /\ a.interceptors \in Seq(StepRecord)
      /\ a.after \in Seq(StepRecord) /\ a.controllers \in Seq(Item)
  BY StartupAssumption, Zenon
<1>2. c \in Seq(StepRecord)
  <2>1. Len(a.controllers) \in Nat /\ \A k \in 1..Len(a.controllers) : a.controllers[k] \in Item
    BY <1>1
  <2>2. c \in [1..Len(a.controllers) -> StepRecord]
    BY <2>1 DEF StepsOf, StepRecord, ProviderOp, InterceptorOp
  <2> QED BY <2>1, <2>2
<1> HIDE DEF c
<1>3. a.before \o a.interceptors \o a.after \o c \in Seq(StepRecord)
  BY <1>1, <1>2
<1> QED BY <1>3, Zenon DEF StartupPlan, c

\* What an item requires: itself, and the parameters of whatever it requires.
LEMMA RequiredItself ==
  ASSUME NEW i \in Item
  PROVE  i \in Required[i] /\ Required[i] \subseteq Item
  BY Zenon DEF Required

LEMMA RequiredParameters ==
  ASSUME NEW i \in Item, NEW e \in Required[i], NEW k \in DOMAIN Needs[e]
  PROVE  Needs[e][k] \in Required[i]
<1>1. e \in Item /\ Needs[e] \in Seq(Item)
  BY StartupAssumption, Zenon DEF Required
<1>2. Needs[e][k] \in Item
  BY <1>1
<1>3. ASSUME NEW S \in SUBSET Item, i \in S, Closed(S) PROVE Needs[e][k] \in S
  <2>1. e \in S
    BY <1>3, Zenon DEF Required
  <2> QED BY <2>1, <1>3, Zenon DEF Closed
<1> QED BY <1>2, <1>3, Zenon DEF Required

LEMMA RequiredThrough ==
  ASSUME NEW i \in Item, NEW e \in Required[i], NEW d \in Required[e]
  PROVE  d \in Required[i]
<1>1. e \in Item
  BY Zenon DEF Required
<1>2. d \in Item
  BY <1>1, Zenon DEF Required
<1>3. ASSUME NEW S \in SUBSET Item, i \in S, Closed(S) PROVE d \in S
  <2>1. e \in S
    BY <1>3, Zenon DEF Required
  <2> QED BY <2>1, <1>1, <1>3, Zenon DEF Required
<1> QED BY <1>2, <1>3, Zenon DEF Required

\* The step the start-up is at is one of an item, if there is one.
LEMMA StepTyped ==
  ASSUME AppTypeOK, Left
  PROVE  /\ Step.item \in Item /\ over + 1 \in 1..Len(StartupPlan(app)) /\ over \in Nat
         /\ Len(StartupPlan(app)) \in Nat
         /\ Step = StartupPlan(app)[over + 1]
<1>1. StartupPlan(app) \in Seq(StepRecord) /\ over \in Nat
  BY PlanTyped DEF AppTypeOK
<1>2. over + 1 \in 1..Len(StartupPlan(app)) /\ Len(StartupPlan(app)) \in Nat
  BY <1>1 DEF Left
<1>3. StartupPlan(app)[over + 1] \in StepRecord
  BY <1>1, <1>2
<1> QED BY <1>1, <1>2, <1>3, Zenon DEF Step, StepRecord

\* An item that is not on the stack comes to be built.
LEMMA PushKeeps ==
  ASSUME AppInv, status = "starting", Left, Step.op \in Building,
         NEW d \in Item, d \in Required[Step.item],
         \A n \in 1..Len(stack) : stack[n].item # d,
         stack = <<>> => d = Step.item,
         ListedInOrder(app) => made[d] = 0,
         stack' = <<Frame(d)>> \o stack,
         UNCHANGED <<app, over, made, registered, uses, given, entered, exited, status, signalVars>>
  PROVE  AppInv'
<1>1. AppTypeOK /\ stack \in Seq(Frames) /\ StackOK
  BY Zenon DEF AppInv, AppTypeOK, Frames
<1>2. Frame(d) \in Frames /\ Frame(d).item = d /\ Frame(d).needs = Needs[d] /\ Frame(d).got = {}
  BY StartupAssumption DEF Frame, Frames
<1>3. /\ stack' \in Seq(Frames) /\ Len(stack') = Len(stack) + 1 /\ Len(stack) \in Nat
      /\ stack'[1] = Frame(d) /\ stack' # <<>>
      /\ stack # <<>> => stack'[Len(stack')] = stack[Len(stack)]
      /\ stack = <<>> => Len(stack') = 1
      /\ \A n \in 1..Len(stack') : n = 1 \/ (n - 1 \in 1..Len(stack) /\ stack'[n] = stack[n - 1])
  <2> DEFINE f == Frame(d)
  <2> HIDE DEF f
  <2> QED BY <1>1, <1>2 DEF f
<1>4. AppTypeOK'
  BY <1>1, <1>3, Zenon DEF AppTypeOK, Frames, signalVars
<1>5. FrameOK(Frame(d))
  <2>1. Needs[d] \in Seq(Item)
    BY StartupAssumption, Zenon
  <2>2. \A m \in DOMAIN Needs[d] : Needs[d][m] \in Required[d]
    BY RequiredItself, RequiredParameters, Zenon
  <2> QED BY <1>2, <2>2, Zenon DEF FrameOK
<1>6. StackOK'
  <2>1. ASSUME NEW n \in 1..Len(stack') PROVE FrameOK(stack[n])'
    <3>1. FrameOK(stack'[n])
      BY <1>1, <1>3, <1>5, <2>1, Zenon DEF StackOK
    <3> QED BY <3>1, Zenon DEF FrameOK, Step
  <2>2. ASSUME NEW m \in 1..Len(stack'), NEW n \in 1..Len(stack'), m # n
        PROVE  stack'[m].item # stack'[n].item
    <3>1. CASE m = 1
      BY <1>2, <1>3, <2>2, <3>1
    <3>2. CASE n = 1
      BY <1>2, <1>3, <2>2, <3>2
    <3>3. CASE m # 1 /\ n # 1
      <4>1. m - 1 # n - 1
        BY <1>3, <2>2
      <4> QED BY <1>1, <1>3, <2>2, <3>3, <4>1, Zenon DEF StackOK
    <3> QED BY <3>1, <3>2, <3>3, Zenon
  <2>3. Left'
    BY DEF Left
  <2>4. stack'[Len(stack')].item = Step.item /\ Step' = Step
    BY <1>1, <1>2, <1>3, Zenon DEF StackOK, Step
  <2> QED BY <2>1, <2>2, <2>3, <2>4, Zenon DEF StackOK
<1>7. StepsDone' /\ Wired' /\ UsesMade' /\ LeftInOrder'
  BY Zenon DEF AppInv, StepsDone, Wired, UsesMade, LeftInOrder, Left, signalVars
<1>8. BuiltOnDemand'
  BY <1>3, Zenon DEF AppInv, BuiltOnDemand
<1>9. BuiltOnce'
  <2> SUFFICES ASSUME ListedInOrder(app) PROVE /\ \A n \in 1..Len(stack') : made[stack'[n].item] = 0
                                              /\ \A i \in Item : made[i] <= 1
    BY Zenon DEF BuiltOnce
  <2>1. BuiltOnce
    BY Zenon DEF AppInv
  <2> QED BY <1>2, <1>3, <2>1, ZenonT(40) DEF BuiltOnce
<1> QED BY <1>4, <1>6, <1>7, <1>8, <1>9, Zenon DEF AppInv

\* The tail of a list of parameters.
LEMMA NeedsTail ==
  ASSUME NEW s \in Seq(Item), s # <<>>
  PROVE  /\ Head(s) \in Item /\ Head(s) = s[1] /\ 1 \in DOMAIN s /\ Tail(s) \in Seq(Item)
         /\ \A m \in DOMAIN Tail(s) : m + 1 \in DOMAIN s /\ Tail(s)[m] = s[m + 1]
         /\ \A m \in DOMAIN s : m = 1 \/ (m - 1 \in DOMAIN Tail(s) /\ Tail(s)[m - 1] = s[m])
  OBVIOUS

LEMMA NoFrames ==
  ASSUME NEW s \in Seq(Frames)
  PROVE  Len(s) = 0 <=> s = <<>>
  OBVIOUS

\* The innermost instantiation changes.
WithTop(s, h) == [s EXCEPT ![1] = h]

LEMMA TopReplaced ==
  ASSUME NEW s \in Seq(Frames), s # <<>>, NEW h \in Frames
  PROVE  /\ WithTop(s, h) \in Seq(Frames) /\ Len(WithTop(s, h)) = Len(s)
         /\ WithTop(s, h)[1] = h /\ WithTop(s, h) # <<>>
         /\ \A n \in 1..Len(s) : n = 1 \/ WithTop(s, h)[n] = s[n]
<1> DEFINE t == WithTop(s, h)
<1>1. Len(s) \in Nat /\ Len(s) > 0 /\ 1 \in 1..Len(s)
  OBVIOUS
<1>2. t \in [1..Len(s) -> Frames]
  BY DEF WithTop
<1>3. t \in Seq(Frames) /\ Len(t) = Len(s)
  BY <1>1, <1>2
<1>4. t[1] = h /\ \A n \in 1..Len(s) : n = 1 \/ t[n] = s[n]
  BY <1>1 DEF WithTop
<1>5. t # <<>>
  BY <1>1, <1>3
<1> QED BY <1>3, <1>4, <1>5, Zenon

Takes(d) ==
  stack' = [stack EXCEPT ![1] = [item |-> @.item, needs |-> Tail(@.needs),
                                 got |-> @.got \cup {<<d, registered[d]>>}]]

\* A parameter is taken from the container.
LEMMA TakeKeeps ==
  ASSUME AppInv, status = "starting", stack # <<>>, stack[1].needs # <<>>,
         NEW d, d = Head(stack[1].needs), registered[d] > 0, Takes(d),
         UNCHANGED <<app, over, made, registered, uses, given, entered, exited, status, signalVars>>
  PROVE  AppInv'
<1>1. AppTypeOK /\ stack \in Seq(Frames) /\ StackOK /\ registered = made
  BY Zenon DEF AppInv, AppTypeOK, Frames
<1> DEFINE f == stack[1]
           h == [item |-> f.item, needs |-> Tail(f.needs), got |-> f.got \cup {<<d, made[d]>>}]
<1>2. 1 \in 1..Len(stack) /\ Len(stack) \in Nat /\ f \in Frames
  BY <1>1
<1>3. f.needs \in Seq(Item) /\ f.item \in Item /\ f.got \in SUBSET (Item \X Nat)
  BY <1>2 DEF Frames
<1>4. /\ d \in Item /\ d = f.needs[1] /\ 1 \in DOMAIN f.needs /\ Tail(f.needs) \in Seq(Item)
      /\ \A m \in DOMAIN Tail(f.needs) : m + 1 \in DOMAIN f.needs /\ Tail(f.needs)[m] = f.needs[m + 1]
      /\ \A m \in DOMAIN f.needs : m = 1 \/ (m - 1 \in DOMAIN Tail(f.needs)
                                              /\ Tail(f.needs)[m - 1] = f.needs[m])
  BY <1>3, NeedsTail, Zenon
<1>5. h \in Frames /\ h.item = f.item /\ h.needs = Tail(f.needs) /\ h.got = f.got \cup {<<d, made[d]>>}
  <2>1. made[d] \in Nat
    BY <1>1, <1>4, Zenon DEF AppTypeOK
  <2> QED BY <1>3, <1>4, <2>1 DEF Frames
<1>6. /\ stack' \in Seq(Frames) /\ Len(stack') = Len(stack) /\ stack'[1] = h /\ stack' # <<>>
      /\ \A n \in 1..Len(stack') : n = 1 \/ stack'[n] = stack[n]
  <2>1. stack' = WithTop(stack, h)
    BY <1>1 DEF WithTop, Takes
  <2> HIDE DEF f, h
  <2>2. /\ WithTop(stack, h) \in Seq(Frames) /\ Len(WithTop(stack, h)) = Len(stack)
        /\ WithTop(stack, h)[1] = h /\ WithTop(stack, h) # <<>>
        /\ \A n \in 1..Len(stack) : n = 1 \/ WithTop(stack, h)[n] = stack[n]
    BY <1>1, <1>5, TopReplaced, Zenon
  <2>3. /\ stack' \in Seq(Frames) /\ Len(stack') = Len(stack) /\ stack'[1] = h /\ stack' # <<>>
        /\ \A n \in 1..Len(stack) : n = 1 \/ stack'[n] = stack[n]
    BY <2>1, <2>2, Zenon
  <2> QED BY <2>3, Zenon
<1> HIDE DEF f, h
<1>7. AppTypeOK'
  BY <1>1, <1>6, Zenon DEF AppTypeOK, Frames, signalVars
<1>8. FrameOK(f)
  BY <1>1, <1>2, Zenon DEF StackOK, f
<1>9. FrameOK(h)
  <2>1. \A g \in h.got : g[2] \in 1..made[g[1]]
    <3>1. made[d] \in 1..made[d]
      <4>1. made[d] \in Nat /\ made[d] > 0
        BY <1>1, <1>4, Zenon DEF AppTypeOK
      <4> QED BY <4>1
    <3>2. <<d, made[d]>>[1] = d /\ <<d, made[d]>>[2] = made[d]
      OBVIOUS
    <3>3. ASSUME NEW g \in h.got PROVE g \in f.got \/ g = <<d, made[d]>>
      BY <1>5, <3>3, Zenon
    <3> QED BY <1>8, <3>1, <3>2, <3>3, Zenon DEF FrameOK
  <2>2. ASSUME NEW k \in DOMAIN Needs[h.item]
        PROVE  \/ \E m \in DOMAIN h.needs : h.needs[m] = Needs[h.item][k]
               \/ \E g \in h.got : g[1] = Needs[h.item][k]
    <3>1. CASE \E g \in f.got : g[1] = Needs[f.item][k]
      BY <1>5, <3>1, Zenon
    <3>2. CASE \E m \in DOMAIN f.needs : f.needs[m] = Needs[f.item][k]
      <4>1. PICK m \in DOMAIN f.needs : f.needs[m] = Needs[f.item][k]
        BY <3>2, Zenon
      <4>2. CASE m = 1
        <5>1. <<d, made[d]>> \in h.got /\ <<d, made[d]>>[1] = d
          BY <1>5
        <5> QED BY <1>4, <1>5, <4>1, <4>2, <5>1, Zenon
      <4>3. CASE m - 1 \in DOMAIN Tail(f.needs) /\ Tail(f.needs)[m - 1] = f.needs[m]
        BY <1>5, <4>1, <4>3, Zenon
      <4> QED BY <1>4, <4>2, <4>3, Zenon
    <3> QED BY <1>5, <1>8, <2>2, <3>1, <3>2, Zenon DEF FrameOK
  <2>3. \A m \in DOMAIN h.needs : h.needs[m] \in Required[h.item]
    <3> SUFFICES ASSUME NEW m \in DOMAIN Tail(f.needs) PROVE Tail(f.needs)[m] \in Required[f.item]
      BY <1>5, Zenon
    <3>1. m + 1 \in DOMAIN f.needs /\ Tail(f.needs)[m] = f.needs[m + 1]
      BY <1>4, Zenon
    <3> QED BY <1>8, <3>1, Zenon DEF FrameOK
  <2> QED BY <1>5, <1>8, <2>1, <2>2, <2>3, Zenon DEF FrameOK
<1>10. StackOK'
  <2>1. ASSUME NEW n \in 1..Len(stack') PROVE FrameOK(stack[n])'
    <3>1. FrameOK(stack'[n])
      BY <1>1, <1>6, <1>9, <2>1, Zenon DEF StackOK
    <3> QED BY <3>1, Zenon DEF FrameOK, Step
  <2>2. \A n \in 1..Len(stack') : stack'[n].item = stack[n].item
    BY <1>5, <1>6, Zenon DEF f
  <2>3. Left'
    BY <1>1, Zenon DEF Left, StackOK
  <2>4. ASSUME NEW m \in 1..Len(stack'), NEW n \in 1..Len(stack'), m # n
        PROVE  stack'[m].item # stack'[n].item
    <3>1. m \in 1..Len(stack) /\ n \in 1..Len(stack)
      BY <1>6, Zenon
    <3> QED BY <1>1, <2>2, <2>4, <3>1, Zenon DEF StackOK
  <2>5. stack'[Len(stack')].item = Step.item /\ Step' = Step /\ Step.op \in Building
    <3>1. Len(stack) \in 1..Len(stack)
      BY <1>2
    <3>2. stack'[Len(stack')].item = stack[Len(stack)].item
      BY <1>6, <2>2, <3>1, Zenon
    <3>3. Step' = Step
      BY Zenon DEF Step
    <3> QED BY <1>1, <3>2, <3>3, Zenon DEF StackOK
  <2> QED BY <2>1, <2>3, <2>4, <2>5, Zenon DEF StackOK
<1>11. StepsDone' /\ Wired' /\ UsesMade' /\ LeftInOrder'
  BY ZenonT(60) DEF AppInv, StepsDone, Wired, UsesMade, LeftInOrder, Left, signalVars
<1>12. BuiltOnDemand'
  BY <1>6, Zenon DEF AppInv, BuiltOnDemand
<1>13. BuiltOnce'
  <2>1. BuiltOnce
    BY Zenon DEF AppInv
  <2>2. \A n \in 1..Len(stack') : stack'[n].item = stack[n].item
    BY <1>5, <1>6, Zenon DEF f
  <2> QED BY <1>6, <2>1, <2>2, Zenon DEF BuiltOnce
<1> QED BY <1>1, <1>7, <1>10, <1>11, <1>12, <1>13, Zenon DEF AppInv

\* The innermost instantiation is over.
LEMMA StackTail ==
  ASSUME NEW s \in Seq(Frames), s # <<>>
  PROVE  /\ Tail(s) \in Seq(Frames) /\ Len(Tail(s)) = Len(s) - 1 /\ Len(Tail(s)) \in Nat
         /\ \A n \in 1..Len(Tail(s)) : n + 1 \in 1..Len(s) /\ Tail(s)[n] = s[n + 1]
         /\ Len(s) = 1 <=> Tail(s) = <<>>
         /\ Tail(s) # <<>> => Tail(s)[Len(Tail(s))] = s[Len(s)]
<1>1. /\ Tail(s) \in Seq(Frames) /\ Len(Tail(s)) = Len(s) - 1 /\ Len(Tail(s)) \in Nat
      /\ \A n \in 1..Len(Tail(s)) : n + 1 \in 1..Len(s) /\ Tail(s)[n] = s[n + 1]
  OBVIOUS
<1>2. Len(s) = 1 <=> Tail(s) = <<>>
  <2>1. Len(Tail(s)) = 0 <=> Tail(s) = <<>>
    BY <1>1, NoFrames, Zenon
  <2> QED BY <1>1, <2>1
<1>3. Tail(s) # <<>> => Len(Tail(s)) \in 1..Len(Tail(s)) /\ Len(Tail(s)) + 1 = Len(s)
  BY <1>1
<1> QED BY <1>1, <1>2, <1>3, Zenon

\* A constructor is called, and its instance registered.
LEMMA ConstructKeeps == AppInv /\ Construct => AppInv'
<1> SUFFICES ASSUME AppInv, Construct PROVE AppInv'
  OBVIOUS
<1> DEFINE f == stack[1]
           i == stack[1].item
<1>1. /\ AppTypeOK /\ stack \in Seq(Frames) /\ StackOK /\ registered = made /\ StepsDone
      /\ BuiltOnDemand /\ BuiltOnce /\ Wired /\ UsesMade /\ LeftInOrder
  BY Zenon DEF AppInv, AppTypeOK, Frames
<1>2. /\ status = "starting" /\ stack # <<>> /\ f.needs = <<>>
      /\ made' = [made EXCEPT ![i] = made[i] + 1]
      /\ registered' = [registered EXCEPT ![i] = made[i] + 1]
      /\ uses' = uses \cup {<<i, made[i] + 1, g[1], g[2]>> : g \in f.got}
      /\ stack' = Tail(stack)
      /\ over' = IF Len(stack) = 1 /\ Step.op # "enter" THEN over + 1 ELSE over
      /\ UNCHANGED <<app, given, entered, exited, status, signalVars>>
  BY Zenon DEF Construct
<1>3. 1 \in 1..Len(stack) /\ Len(stack) \in Nat /\ f \in Frames
  BY <1>1, <1>2
<1>4. i \in Item /\ i = f.item /\ f.got \in SUBSET (Item \X Nat)
  BY <1>3 DEF Frames
<1>5. /\ stack' \in Seq(Frames) /\ Len(stack') = Len(stack) - 1 /\ Len(stack') \in Nat
      /\ \A n \in 1..Len(stack') : n + 1 \in 1..Len(stack) /\ stack'[n] = stack[n + 1]
      /\ Len(stack) = 1 <=> stack' = <<>>
      /\ stack' # <<>> => stack'[Len(stack')] = stack[Len(stack)]
  BY <1>1, <1>2, <1>3, StackTail, Zenon
<1>6. /\ made \in [Item -> Nat] /\ made' \in [Item -> Nat] /\ registered' = made'
      /\ made'[i] = made[i] + 1 /\ made'[i] > 0
      /\ \A d \in Item : d # i => made'[d] = made[d]
      /\ \A d \in Item : made[d] <= made'[d]
  <2>1. made \in [Item -> Nat]
    BY <1>1, Zenon DEF AppTypeOK
  <2> QED BY <1>1, <1>2, <1>4, <2>1
<1> HIDE DEF f, i
<1>7. Left /\ Step.op \in Building /\ FrameOK(f)
  BY <1>1, <1>2, <1>3, Zenon DEF StackOK, f
<1>8. /\ over \in Nat /\ over + 1 \in 1..Len(StartupPlan(app)) /\ Step.item \in Item
      /\ Len(StartupPlan(app)) \in Nat /\ Step = StartupPlan(app)[over + 1]
  BY <1>1, <1>7, StepTyped, Zenon
<1>9. AppTypeOK'
  <2>1. over' \in 0..Len(StartupPlan(app))
    BY <1>2, <1>8
  <2>2. ASSUME NEW g \in f.got PROVE <<i, made[i] + 1, g[1], g[2]>> \in Item \X Nat \X Item \X Nat
    BY <1>4, <1>6, <2>2
  <2>3. uses' \subseteq Item \X Nat \X Item \X Nat
    BY <1>1, <1>2, <2>2, Zenon DEF AppTypeOK
  <2>4. \A d \in Item : registered'[d] <= made'[d]
    BY <1>6
  <2> QED BY <1>1, <1>2, <1>5, <1>6, <2>1, <2>3, <2>4, Zenon DEF AppTypeOK, Frames, signalVars
<1>10. StackOK'
  <2>1. stack' # <<>> => over' = over
    BY <1>2, <1>5, Zenon
  <2>2. ASSUME NEW n \in 1..Len(stack') PROVE FrameOK(stack[n])'
    <3>0. stack'[n] \in Frames
      BY <1>5, <2>2
    <3>1. FrameOK(stack'[n]) /\ stack'[n] \in Frames
      BY <1>1, <1>5, <2>2, <3>0, Zenon DEF StackOK
    <3>2. over' = over
      BY <1>5, <2>1, <2>2
    <3>3. \A g \in stack'[n].got : g[2] \in 1..made'[g[1]]
      <4> SUFFICES ASSUME NEW g \in stack'[n].got PROVE g[2] \in 1..made'[g[1]]
        OBVIOUS
      <4>1. g[1] \in Item /\ g[2] \in 1..made[g[1]]
        BY <3>1 DEF FrameOK, Frames
      <4> QED BY <1>6, <4>1
    <3> QED BY <1>2, <3>1, <3>2, <3>3, Zenon DEF FrameOK, Step
  <2>3. ASSUME NEW m \in 1..Len(stack'), NEW n \in 1..Len(stack'), m # n
        PROVE  stack'[m].item # stack'[n].item
    <3>1. m + 1 # n + 1
      BY <1>5, <2>3
    <3> QED BY <1>1, <1>5, <2>3, <3>1, Zenon DEF StackOK
  <2>4. stack' # <<>> => Left' /\ Step'.op \in Building /\ stack'[Len(stack')].item = Step'.item
    BY <1>1, <1>2, <1>5, <1>7, <2>1, Zenon DEF Left, Step, StackOK
  <2> QED BY <2>2, <2>3, <2>4, Zenon DEF StackOK
<1>11. StepsDone'
  <2> SUFFICES ASSUME NEW j \in 1..over', StartupPlan(app)[j].op \notin Idle
               PROVE  registered'[StartupPlan(app)[j].item] > 0
    BY <1>2, Zenon DEF StepsDone
  <2>1. CASE j \in 1..over
    <3>1. StartupPlan(app)[j].item \in Item
      <4>1. StartupPlan(app) \in Seq(StepRecord)
        BY <1>1, PlanTyped, Zenon DEF AppTypeOK
      <4>2. j \in 1..Len(StartupPlan(app))
        BY <1>8, <2>1
      <4>3. StartupPlan(app)[j] \in StepRecord
        BY <4>1, <4>2
      <4> QED BY <4>3, Zenon DEF StepRecord
    <3>2. made[StartupPlan(app)[j].item] > 0
      BY <1>1, <2>1, Zenon DEF StepsDone
    <3> QED BY <1>6, <3>1, <3>2
  <2>2. CASE j \notin 1..over
    <3>1. j = over + 1 /\ Len(stack) = 1
      BY <1>2, <1>8, <2>2
    <3>2. i = Step.item
      BY <1>1, <1>2, <3>1, Zenon DEF StackOK, i
    <3> QED BY <1>6, <1>8, <3>1, <3>2, Zenon
  <2> QED BY <2>1, <2>2, Zenon
<1>12. BuiltOnDemand'
  <2>1. over + 1 <= over' \/ (over' = over /\ (stack' # <<>> \/ Step.op = "enter"))
    BY <1>2, <1>5, <1>8
  <2>0. over' \in Nat
    BY <1>2, <1>8
  <2>2. i \in Builds(Step)
    BY <1>4, <1>7, Zenon DEF FrameOK, Builds
  <2> SUFFICES ASSUME NEW d \in Item, made'[d] > 0
               PROVE  \E j \in 1..Len(StartupPlan(app)) :
                        /\ d \in Builds(StartupPlan(app)[j])
                        /\ \/ j <= over'
                           \/ j = over' + 1 /\ (stack' # <<>> \/ StartupPlan(app)[j].op = "enter")
    BY <1>2, Zenon DEF BuiltOnDemand
  <2>3. CASE d = i
    BY <1>8, <2>1, <2>2, <2>3
  <2>4. CASE d # i
    <3>1. made[d] > 0
      BY <1>6, <2>4, Zenon
    <3>2. PICK j \in 1..Len(StartupPlan(app)) :
            /\ d \in Builds(StartupPlan(app)[j])
            /\ j <= over \/ j = over + 1
      BY <1>1, <3>1, Zenon DEF BuiltOnDemand
    <3>3. CASE j <= over
      <4>1. j <= over'
        BY <1>8, <2>0, <2>1, <3>2, <3>3
      <4> QED BY <3>2, <4>1, Zenon
    <3>4. CASE j = over + 1
      BY <1>8, <2>1, <3>2, <3>4
    <3> QED BY <3>2, <3>3, <3>4, Zenon
  <2> QED BY <2>3, <2>4, Zenon
<1>13. BuiltOnce'
  <2> SUFFICES ASSUME ListedInOrder(app) PROVE /\ \A n \in 1..Len(stack') : made'[stack'[n].item] = 0
                                              /\ \A d \in Item : made'[d] <= 1
    BY <1>2, Zenon DEF BuiltOnce
  <2>1. /\ \A n \in 1..Len(stack) : made[stack[n].item] = 0
        /\ \A d \in Item : made[d] <= 1
    BY <1>1, Zenon DEF BuiltOnce
  <2>2. made[i] = 0
    BY <1>3, <2>1, Zenon DEF i
  <2>3. \A d \in Item : made'[d] <= 1
    BY <1>6, <2>1, <2>2
  <2>4. ASSUME NEW n \in 1..Len(stack') PROVE made'[stack'[n].item] = 0
    <3>1. n + 1 \in 1..Len(stack) /\ stack'[n] = stack[n + 1]
      BY <1>5, <2>4, Zenon
    <3>2. n + 1 # 1
      BY <2>4
    <3>3. stack'[n].item # i
      BY <1>1, <1>3, <3>1, <3>2, Zenon DEF StackOK, i
    <3>4. stack'[n] \in Frames
      BY <1>5, <2>4
    <3>5. stack'[n].item \in Item
      BY <3>4, Zenon DEF Frames
    <3> QED BY <1>6, <2>1, <3>1, <3>3, <3>5, Zenon
  <2> QED BY <2>3, <2>4, Zenon
<1>14. Wired'
  <2> SUFFICES ASSUME NEW d \in Item, NEW k \in DOMAIN Needs[d], registered'[d] > 0,
                      <<d, registered'[d]>> \notin given'
               PROVE  \E u \in uses' : u[1] = d /\ u[2] = registered'[d] /\ u[3] = Needs[d][k]
    BY Zenon DEF Wired
  <2>1. CASE d # i
    <3>1. registered'[d] = registered[d]
      BY <1>1, <1>6, <2>1, Zenon
    <3>2. registered[d] > 0 /\ <<d, registered[d]>> \notin given
      <4>1. given' = given
        BY <1>2, Zenon
      <4> QED BY <3>1, <4>1
    <3>3. PICK u \in uses : u[1] = d /\ u[2] = registered[d] /\ u[3] = Needs[d][k]
      BY <1>1, <3>2, Zenon DEF Wired
    <3> QED BY <1>2, <3>1, <3>3, Zenon
  <2>2. CASE d = i
    <3>1. PICK g \in f.got : g[1] = Needs[i][k]
      <4>1. DOMAIN f.needs = {}
        BY <1>2
      <4> QED BY <1>4, <1>7, <2>2, <4>1, Zenon DEF FrameOK
    <3> DEFINE u == <<i, made[i] + 1, g[1], g[2]>>
    <3>2. u[1] = i /\ u[2] = made[i] + 1 /\ u[3] = g[1]
      OBVIOUS
    <3>3. u \in uses'
      BY <1>2, Zenon
    <3> HIDE DEF u
    <3> QED BY <1>6, <2>2, <3>1, <3>2, <3>3, Zenon
  <2> QED BY <2>1, <2>2, Zenon
<1>15. UsesMade'
  <2> SUFFICES ASSUME NEW u \in uses' PROVE u[4] \in 1..made'[u[3]]
    BY Zenon DEF UsesMade
  <2>1. CASE u \in uses
    <3>1. u[3] \in Item /\ u[4] \in 1..made[u[3]]
      <4>1. u \in Item \X Nat \X Item \X Nat
        BY <1>1, <2>1, Zenon DEF AppTypeOK
      <4>2. u[3] \in Item
        BY <4>1
      <4> QED BY <1>1, <2>1, <4>2, Zenon DEF UsesMade
    <3> QED BY <1>6, <3>1
  <2>2. CASE \E g \in f.got : u = <<i, made[i] + 1, g[1], g[2]>>
    <3>1. PICK g \in f.got : u = <<i, made[i] + 1, g[1], g[2]>>
      BY <2>2, Zenon
    <3>2. u[3] = g[1] /\ u[4] = g[2] /\ g[1] \in Item
      BY <1>4, <3>1
    <3>3. g[2] \in 1..made[g[1]]
      BY <1>7, Zenon DEF FrameOK
    <3> QED BY <1>6, <3>2, <3>3
  <2> QED BY <1>2, <2>1, <2>2, Zenon
<1>16. LeftInOrder'
  BY <1>1, <1>2, Zenon DEF LeftInOrder
<1> QED BY <1>6, <1>9, <1>10, <1>11, <1>12, <1>13, <1>14, <1>15, <1>16, Zenon DEF AppInv

\* A step of the start-up is over, its item built if it is one that registers it.
LEMMA AdvanceKeeps ==
  ASSUME AppInv, status = "starting", stack = <<>>, Left,
         registered[Step.item] > 0 \/ Step.op \in Idle,
         over' = over + 1, entered' \in Seq(Item),
         UNCHANGED <<app, stack, made, registered, uses, given, exited, status, signalVars>>
  PROVE  AppInv'
<1>1. /\ AppTypeOK /\ registered = made /\ StepsDone /\ BuiltOnDemand /\ BuiltOnce /\ Wired
      /\ UsesMade /\ LeftInOrder
  BY Zenon DEF AppInv
<1>2. /\ over \in Nat /\ over + 1 \in 1..Len(StartupPlan(app))
      /\ Len(StartupPlan(app)) \in Nat /\ Step = StartupPlan(app)[over + 1]
  BY <1>1, StepTyped, Zenon
<1>3. AppTypeOK'
  <2>1. over' \in 0..Len(StartupPlan(app))
    BY <1>2
  <2> QED BY <1>1, <2>1, Zenon DEF AppTypeOK, signalVars
<1>4. StackOK'
  <2>1. stack' = <<>> /\ 1..Len(stack') = {}
    OBVIOUS
  <2> QED BY <2>1, Zenon DEF StackOK
<1>5. StepsDone'
  <2> SUFFICES ASSUME NEW j \in 1..over'
               PROVE  registered[StartupPlan(app)[j].item] > 0 \/ StartupPlan(app)[j].op \in Idle
    BY Zenon DEF StepsDone
  <2>1. j \in 1..over \/ j = over + 1
    BY <1>2
  <2> QED BY <1>1, <1>2, <2>1, Zenon DEF StepsDone
<1>6. BuiltOnDemand'
  <2> SUFFICES ASSUME NEW i \in Item, made[i] > 0
               PROVE  \E j \in 1..Len(StartupPlan(app)) :
                        i \in Builds(StartupPlan(app)[j]) /\ j <= over'
    BY Zenon DEF BuiltOnDemand
  <2>1. PICK j \in 1..Len(StartupPlan(app)) :
          i \in Builds(StartupPlan(app)[j]) /\ (j <= over \/ j = over + 1)
    BY <1>1, Zenon DEF BuiltOnDemand
  <2>2. j <= over'
    BY <1>2, <2>1
  <2> QED BY <2>1, <2>2, Zenon
<1>7. BuiltOnce' /\ Wired' /\ UsesMade'
  BY <1>1, Zenon DEF BuiltOnce, Wired, UsesMade
<1>8. LeftInOrder'
  <2>1. exited' = <<>> /\ status' = "starting"
    BY <1>1, Zenon DEF LeftInOrder
  <2>2. Len(exited') <= Len(entered') /\ 1..Len(exited') = {}
    BY <2>1
  <2> QED BY <2>1, <2>2, Zenon DEF LeftInOrder
<1> QED BY <1>1, <1>3, <1>4, <1>5, <1>6, <1>7, <1>8, Zenon DEF AppInv

\* Steps that leave the container and what was entered alone.
LEMMA EndingKeeps ==
  ASSUME AppInv, LeftInOrder', exited' \in Seq(Item),
         status' \in {"starting", "running", "stopping", "stopped", "failed"},
         requested' \in BOOLEAN, aevent' \in BOOLEAN, handler' \in {"ours", "server"},
         UNCHANGED <<app, over, stack, made, registered, uses, given, entered>>
  PROVE  AppInv'
<1>1. AppTypeOK'
  BY Zenon DEF AppInv, AppTypeOK
<1>2. StackOK'
  BY ZenonT(60) DEF AppInv, StackOK, FrameOK, Step, Left
<1>3. StepsDone' /\ BuiltOnDemand' /\ BuiltOnce' /\ Wired' /\ UsesMade'
  BY ZenonT(60) DEF AppInv, StepsDone, BuiltOnDemand, BuiltOnce, Wired, UsesMade
<1> QED BY <1>1, <1>2, <1>3, Zenon DEF AppInv

\* Listed in order, a provider was not built by an earlier step.
LEMMA ProvidedFirst ==
  ASSUME AppInv, stack = <<>>, Left, Step.op \in {"provide", "value"}, ListedInOrder(app)
  PROVE  made[Step.item] = 0
<1> DEFINE d == Step.item
<1>1. /\ AppTypeOK /\ d \in Item /\ over \in Nat /\ Len(StartupPlan(app)) \in Nat
      /\ over + 1 \in 1..Len(StartupPlan(app)) /\ Step = StartupPlan(app)[over + 1]
  BY StepTyped, Zenon DEF AppInv
<1> SUFFICES ASSUME made[d] # 0 PROVE FALSE
  OBVIOUS
<1>2. made[d] > 0
  <2>1. made[d] \in Nat
    BY <1>1, Zenon DEF AppTypeOK
  <2> QED BY <2>1
<1>3. PICK j \in 1..Len(StartupPlan(app)) :
        /\ d \in Builds(StartupPlan(app)[j])
        /\ j <= over \/ (j = over + 1 /\ StartupPlan(app)[j].op = "enter")
  BY <1>1, <1>2, Zenon DEF AppInv, BuiltOnDemand
<1>4. j <= over
  <2>1. Step.op # "enter"
    OBVIOUS
  <2> QED BY <1>1, <1>3, <2>1, Zenon
<1>5. over + 1 \in DOMAIN StartupPlan(app) /\ j \in 1..((over + 1) - 1)
  <2>1. StartupPlan(app) \in Seq(StepRecord)
    BY <1>1, PlanTyped, Zenon DEF AppTypeOK
  <2> QED BY <1>1, <1>3, <1>4, <2>1
<1> QED BY <1>1, <1>3, <1>5, Zenon DEF ListedInOrder

LEMMA BuildNextKeeps == AppInv /\ BuildNext => AppInv'
<1> SUFFICES ASSUME AppInv, BuildNext PROVE AppInv'
  OBVIOUS
<1> DEFINE d == Step.item
<1>1. /\ status = "starting" /\ stack = <<>> /\ Left /\ AppTypeOK /\ registered = made
      /\ Step.op \in Building /\ stack' = <<Frame(d)>>
      /\ UNCHANGED <<app, over, made, registered, uses, given, entered, exited, status, signalVars>>
  BY Zenon DEF BuildNext, AppInv
<1>2. d \in Item
  BY <1>1, StepTyped, Zenon
<1>3. stack' = <<Frame(d)>> \o stack
  BY <1>1
<1>4. \A n \in 1..Len(stack) : stack[n].item # d
  BY <1>1
<1>5. d \in Required[Step.item]
  BY <1>2, RequiredItself, Zenon
<1>6. ListedInOrder(app) => made[d] = 0
  BY <1>1, ProvidedFirst, Zenon DEF BuildNext
<1> QED BY <1>1, <1>2, <1>3, <1>4, <1>5, <1>6, PushKeeps, Zenon

LEMMA PassStepKeeps == AppInv /\ PassStep => AppInv'
<1> SUFFICES ASSUME AppInv, PassStep PROVE AppInv'
  OBVIOUS
<1>1. registered[Step.item] > 0 \/ Step.op \in Idle
  BY Zenon DEF PassStep, Idle
<1>2. entered' \in Seq(Item)
  BY Zenon DEF PassStep, AppInv, AppTypeOK
<1> QED BY <1>1, <1>2, AdvanceKeeps, Zenon DEF PassStep

LEMMA TakeValueKeeps == AppInv /\ TakeValue => AppInv'
<1> SUFFICES ASSUME AppInv, TakeValue PROVE AppInv'
  OBVIOUS
<1> DEFINE i == Step.item
<1>1. /\ AppTypeOK /\ registered = made /\ StepsDone /\ BuiltOnDemand /\ BuiltOnce /\ Wired
      /\ UsesMade /\ LeftInOrder
  BY Zenon DEF AppInv
<1>2. /\ status = "starting" /\ stack = <<>> /\ Left /\ Step.op = "value"
      /\ made' = [made EXCEPT ![i] = made[i] + 1]
      /\ registered' = [registered EXCEPT ![i] = made[i] + 1]
      /\ given' = given \cup {<<i, made[i] + 1>>} /\ over' = over + 1
      /\ UNCHANGED <<app, stack, uses, entered, exited, status, signalVars>>
  BY Zenon DEF TakeValue
<1>3. /\ i \in Item /\ over \in Nat /\ over + 1 \in 1..Len(StartupPlan(app))
      /\ Len(StartupPlan(app)) \in Nat /\ Step = StartupPlan(app)[over + 1]
  BY <1>1, <1>2, StepTyped, Zenon
<1>4. ListedInOrder(app) => made[i] = 0
  BY <1>2, ProvidedFirst
<1> HIDE DEF i
<1>5. /\ made \in [Item -> Nat] /\ made' \in [Item -> Nat] /\ registered' = made'
      /\ made'[i] = made[i] + 1 /\ made'[i] > 0
      /\ \A d \in Item : d # i => made'[d] = made[d]
      /\ \A d \in Item : made[d] <= made'[d]
  <2>1. made \in [Item -> Nat]
    BY <1>1, Zenon DEF AppTypeOK
  <2> QED BY <1>1, <1>2, <1>3, <2>1
<1>6. AppTypeOK'
  <2>1. over' \in 0..Len(StartupPlan(app))
    BY <1>2, <1>3
  <2>2. <<i, made[i] + 1>> \in Item \X Nat
    BY <1>3, <1>5
  <2>3. \A d \in Item : registered'[d] <= made'[d]
    BY <1>5
  <2> QED BY <1>1, <1>2, <1>5, <2>1, <2>2, <2>3, Zenon DEF AppTypeOK, signalVars
<1>7. StackOK'
  <2>1. stack' = <<>> /\ 1..Len(stack') = {}
    BY <1>2
  <2> QED BY <2>1, Zenon DEF StackOK
<1>8. StepsDone'
  <2> SUFFICES ASSUME NEW j \in 1..over', StartupPlan(app)[j].op \notin Idle
               PROVE  registered'[StartupPlan(app)[j].item] > 0
    BY <1>2, Zenon DEF StepsDone
  <2>1. CASE j \in 1..over
    <3>1. StartupPlan(app)[j].item \in Item
      <4>1. StartupPlan(app) \in Seq(StepRecord)
        BY <1>1, PlanTyped, Zenon DEF AppTypeOK
      <4>2. j \in 1..Len(StartupPlan(app))
        BY <1>3, <2>1
      <4>3. StartupPlan(app)[j] \in StepRecord
        BY <4>1, <4>2
      <4> QED BY <4>3, Zenon DEF StepRecord
    <3>2. made[StartupPlan(app)[j].item] > 0
      BY <1>1, <2>1, Zenon DEF StepsDone
    <3> QED BY <1>5, <3>1, <3>2
  <2>2. CASE j \notin 1..over
    <3>1. j = over + 1
      BY <1>2, <1>3, <2>2
    <3> QED BY <1>3, <1>5, <3>1, Zenon DEF i
  <2> QED BY <2>1, <2>2, Zenon
<1>9. BuiltOnDemand'
  <2> SUFFICES ASSUME NEW d \in Item, made'[d] > 0
               PROVE  \E j \in 1..Len(StartupPlan(app)) :
                        d \in Builds(StartupPlan(app)[j]) /\ j <= over'
    BY <1>2, Zenon DEF BuiltOnDemand
  <2>1. CASE d = i
    <3>1. d \in Builds(Step)
      BY <1>2, <2>1 DEF Builds, Building, i
    <3>2. over + 1 <= over'
      BY <1>2, <1>3
    <3> QED BY <1>3, <3>1, <3>2, Zenon
  <2>2. CASE d # i
    <3>1. made[d] > 0
      BY <1>5, <2>2, Zenon
    <3>2. PICK j \in 1..Len(StartupPlan(app)) :
            d \in Builds(StartupPlan(app)[j]) /\ (j <= over \/ j = over + 1)
      BY <1>1, <3>1, Zenon DEF BuiltOnDemand
    <3>3. j <= over'
      BY <1>2, <1>3, <3>2
    <3> QED BY <3>2, <3>3, Zenon
  <2> QED BY <2>1, <2>2, Zenon
<1>10. BuiltOnce'
  <2> SUFFICES ASSUME ListedInOrder(app) PROVE \A d \in Item : made'[d] <= 1
    <3>1. 1..Len(stack') = {}
      BY <1>2
    <3> QED BY <1>2, <3>1, Zenon DEF BuiltOnce
  <2>1. \A d \in Item : made[d] <= 1
    BY <1>1, Zenon DEF BuiltOnce
  <2> QED BY <1>4, <1>5, <2>1
<1>11. Wired'
  <2> SUFFICES ASSUME NEW d \in Item, NEW k \in DOMAIN Needs[d], registered'[d] > 0,
                      <<d, registered'[d]>> \notin given'
               PROVE  \E u \in uses' : u[1] = d /\ u[2] = registered'[d] /\ u[3] = Needs[d][k]
    BY Zenon DEF Wired
  <2>1. d # i
    BY <1>2, <1>5
  <2>2. registered'[d] = registered[d]
    BY <1>1, <1>5, <2>1, Zenon
  <2>3. registered[d] > 0 /\ <<d, registered[d]>> \notin given
    BY <1>2, <2>2
  <2>4. PICK u \in uses : u[1] = d /\ u[2] = registered[d] /\ u[3] = Needs[d][k]
    BY <1>1, <2>3, Zenon DEF Wired
  <2> QED BY <1>2, <2>2, <2>4, Zenon
<1>12. UsesMade'
  <2> SUFFICES ASSUME NEW u \in uses PROVE u[4] \in 1..made'[u[3]]
    BY <1>2, Zenon DEF UsesMade
  <2>1. u \in Item \X Nat \X Item \X Nat
    BY <1>1, Zenon DEF AppTypeOK
  <2>2. u[3] \in Item
    BY <2>1
  <2>3. u[4] \in 1..made[u[3]]
    BY <1>1, Zenon DEF UsesMade
  <2> QED BY <1>5, <2>2, <2>3
<1>13. LeftInOrder'
  BY <1>1, <1>2, Zenon DEF LeftInOrder
<1> QED BY <1>5, <1>6, <1>7, <1>8, <1>9, <1>10, <1>11, <1>12, <1>13, Zenon DEF AppInv

LEMMA EvaluateKeeps == AppInv /\ Evaluate => AppInv'
<1> SUFFICES ASSUME AppInv, Evaluate PROVE AppInv'
  OBVIOUS
<1> DEFINE d == Head(stack[1].needs)
<1>1. /\ status = "starting" /\ stack # <<>> /\ stack[1].needs # <<>>
      /\ UNCHANGED <<app, over, made, registered, uses, given, entered, exited, signalVars>>
      /\ AppTypeOK /\ StackOK /\ LeftInOrder /\ registered = made /\ stack \in Seq(Frames)
  BY Zenon DEF Evaluate, AppInv, AppTypeOK, Frames
<1>2. 1 \in 1..Len(stack) /\ stack[1] \in Frames
  BY <1>1
<1>3. stack[1].needs \in Seq(Item) /\ stack[1].item \in Item
  BY <1>2, Zenon DEF Frames
<1>4. d \in Item /\ d = stack[1].needs[1] /\ 1 \in DOMAIN stack[1].needs
  BY <1>1, <1>3, NeedsTail, Zenon
<1>5. registered[d] \in Nat
  BY <1>1, <1>4, Zenon DEF AppTypeOK
<1>6. \/ registered[d] > 0 /\ Takes(d) /\ UNCHANGED status
      \/ /\ registered[d] = 0 /\ \A k \in DOMAIN stack : stack[k].item # d
         /\ stack' = <<Frame(d)>> \o stack /\ UNCHANGED status
      \/ status' = "failed" /\ UNCHANGED stack
  BY <1>5 DEF Evaluate, Takes
<1>7. CASE registered[d] > 0 /\ Takes(d) /\ UNCHANGED status
  <2> HIDE DEF d
  <2>1. d = Head(stack[1].needs)
    BY DEF d
  <2> QED BY <1>1, <1>7, <2>1, TakeKeeps, Zenon
<1>8. CASE /\ registered[d] = 0 /\ \A k \in DOMAIN stack : stack[k].item # d
           /\ stack' = <<Frame(d)>> \o stack /\ UNCHANGED status
  <2>1. Left /\ Step.op \in Building /\ FrameOK(stack[1])
    BY <1>1, <1>2, Zenon DEF StackOK
  <2>2. Step.item \in Item
    BY <1>1, <2>1, StepTyped, Zenon
  <2>3. d \in Required[stack[1].item] /\ stack[1].item \in Required[Step.item]
    BY <1>4, <2>1, Zenon DEF FrameOK
  <2>4. d \in Required[Step.item]
    BY <2>2, <2>3, RequiredThrough, Zenon
  <2>5. \A n \in 1..Len(stack) : stack[n].item # d
    BY <1>1, <1>8
  <2> HIDE DEF d
  <2> QED BY <1>1, <1>4, <1>8, <2>1, <2>4, <2>5, PushKeeps, Zenon
<1>9. CASE status' = "failed" /\ UNCHANGED stack
  <2>1. LeftInOrder'
    BY <1>1, <1>9, Zenon DEF LeftInOrder
  <2> QED BY <1>1, <1>9, <2>1, EndingKeeps, Zenon DEF AppTypeOK, signalVars
<1> QED BY <1>6, <1>7, <1>8, <1>9, Zenon

LEMMA EnterKeeps == AppInv /\ Enter => AppInv'
<1> SUFFICES ASSUME AppInv, Enter PROVE AppInv'
  OBVIOUS
<1>1. /\ status = "starting" /\ stack = <<>> /\ Left /\ AppTypeOK
      /\ registered[Step.item] > 0 \/ Step.op \in Idle
      /\ over' = over + 1 /\ entered' = Append(entered, Step.item)
      /\ UNCHANGED <<app, stack, made, registered, uses, given, exited, status, signalVars>>
  BY Zenon DEF Enter, ToEnter, Idle, AppInv
<1>2. Step.item \in Item /\ entered \in Seq(Item)
  BY <1>1, StepTyped, Zenon DEF AppTypeOK
<1>3. entered' \in Seq(Item)
  BY <1>1, <1>2
<1> QED BY <1>1, <1>3, AdvanceKeeps, Zenon

\* What neither builds nor enters anything.
LEMMA OthersKeep ==
  ASSUME AppInv, \/ BareProvider \/ StartFails \/ Serve \/ SignalArrives \/ RequestShutdown
                 \/ Exit \/ ExitFails \/ Stopped
  PROVE  AppInv'
<1>1. AppTypeOK /\ LeftInOrder /\ entered \in Seq(Item) /\ exited \in Seq(Item)
  BY Zenon DEF AppInv, AppTypeOK
<1>2. CASE StartFails
  <2>1. LeftInOrder'
    BY <1>1, <1>2, Zenon DEF LeftInOrder, StartFails
  <2> QED BY <1>1, <1>2, <2>1, EndingKeeps, Zenon DEF StartFails, AppTypeOK, signalVars
<1>8. CASE BareProvider
  <2>1. LeftInOrder'
    BY <1>1, <1>8, Zenon DEF LeftInOrder, BareProvider
  <2> QED BY <1>1, <1>8, <2>1, EndingKeeps, Zenon DEF BareProvider, AppTypeOK, signalVars
<1>3. CASE Serve
  <2>1. LeftInOrder'
    BY <1>1, <1>3, Zenon DEF LeftInOrder, Serve, Left
  <2> QED BY <1>1, <1>3, <2>1, EndingKeeps, Zenon DEF Serve, AppTypeOK, signalVars
<1>4. CASE SignalArrives \/ RequestShutdown
  <2>1. /\ status = "running" /\ status' \in {"running", "stopping"}
        /\ UNCHANGED <<app, over, stack, made, registered, uses, given, entered, exited>>
    BY <1>4, Zenon DEF SignalArrives, RequestShutdown, Deliver, Ignore
  <2>2. requested' \in BOOLEAN /\ aevent' \in BOOLEAN /\ handler' \in {"ours", "server"}
    BY <1>1, <1>4, Zenon DEF SignalArrives, RequestShutdown, Deliver, Ignore, AppTypeOK
  <2>3. LeftInOrder'
    BY <1>1, <2>1, Zenon DEF LeftInOrder, Left
  <2> QED BY <1>1, <2>1, <2>2, <2>3, EndingKeeps, Zenon
<1>5. CASE Exit
  <2>1. /\ status = "stopping" /\ Len(exited) < Len(entered)
        /\ exited' = Append(exited, entered[Len(exited) + 1])
        /\ UNCHANGED <<app, over, stack, made, registered, uses, given, entered, status, signalVars>>
    BY <1>5, Zenon DEF Exit
  <2>2. /\ exited' \in Seq(Item) /\ Len(exited') = Len(exited) + 1 /\ Len(exited') <= Len(entered)
        /\ \A k \in 1..Len(exited') : \/ k \in 1..Len(exited) /\ exited'[k] = exited[k]
                                      \/ exited'[k] = entered[k]
    <3>1. entered[Len(exited) + 1] \in Item
      BY <1>1, <2>1
    <3> QED BY <1>1, <2>1, <3>1
  <2>3. LeftInOrder'
    BY <1>1, <2>1, <2>2, Zenon DEF LeftInOrder
  <2> QED BY <1>1, <2>1, <2>2, <2>3, EndingKeeps, Zenon DEF AppTypeOK, signalVars
<1>6. CASE ExitFails
  <2>1. LeftInOrder'
    BY <1>1, <1>6, Zenon DEF LeftInOrder, ExitFails
  <2> QED BY <1>1, <1>6, <2>1, EndingKeeps, Zenon DEF ExitFails, AppTypeOK, signalVars
<1>7. CASE Stopped
  <2>1. LeftInOrder'
    BY <1>1, <1>7, Zenon DEF LeftInOrder, Stopped
  <2> QED BY <1>1, <1>7, <2>1, EndingKeeps, Zenon DEF Stopped, AppTypeOK, signalVars
<1> QED BY <1>2, <1>3, <1>4, <1>5, <1>6, <1>7, <1>8, Zenon

LEMMA AppInvInit == AppInit => AppInv
<1> SUFFICES ASSUME AppInit PROVE AppInv
  OBVIOUS
<1>1. /\ over = 0 /\ stack = <<>> /\ uses = {} /\ given = {} /\ entered = <<>> /\ exited = <<>>
      /\ made = [i \in Item |-> 0] /\ registered = made /\ status = "starting" /\ app \in Apps
  BY Zenon DEF AppInit
<1>2. StartupPlan(app) \in Seq(StepRecord)
  BY <1>1, PlanTyped, Zenon
<1>3. /\ over \in 0..Len(StartupPlan(app)) /\ 1..over = {} /\ 1..Len(stack) = {}
      /\ 1..Len(exited) = {} /\ Len(exited) <= Len(entered) /\ entered \in Seq(Item)
      /\ exited \in Seq(Item) /\ stack \in Seq(Frames)
  BY <1>1, <1>2
<1>4. /\ made \in [Item -> Nat] /\ \A i \in Item : made[i] = 0
      /\ \A i \in Item : ~(made[i] > 0) /\ made[i] <= 1 /\ made[i] <= made[i]
  BY <1>1
<1>5. AppTypeOK
  BY <1>1, <1>3, <1>4, Zenon DEF AppInit, AppTypeOK, Frames
<1>6. StackOK /\ StepsDone
  BY <1>1, <1>3, Zenon DEF StackOK, StepsDone
<1>7. BuiltOnDemand /\ BuiltOnce /\ Wired /\ UsesMade
  BY <1>1, <1>3, <1>4, Zenon DEF BuiltOnDemand, BuiltOnce, Wired, UsesMade
<1>8. LeftInOrder
  BY <1>1, <1>3, Zenon DEF LeftInOrder
<1> QED BY <1>1, <1>5, <1>6, <1>7, <1>8, Zenon DEF AppInv

LEMMA AppInvKept == AppInv /\ [AppNext]_appVars => AppInv'
<1> SUFFICES ASSUME AppInv, [AppNext]_appVars PROVE AppInv'
  OBVIOUS
<1>1. CASE UNCHANGED appVars
  <2>1. /\ UNCHANGED <<app, over, stack, made, registered, uses, given, entered>>
        /\ UNCHANGED <<exited, status, requested, aevent, handler>>
    BY <1>1, Zenon DEF appVars
  <2>2. LeftInOrder'
    BY <2>1, Zenon DEF AppInv, LeftInOrder, Left
  <2> QED BY <2>1, <2>2, EndingKeeps, Zenon DEF AppInv, AppTypeOK
<1> QED BY <1>1, BuildNextKeeps, PassStepKeeps, TakeValueKeeps, EvaluateKeeps, ConstructKeeps,
           EnterKeeps, OthersKeep, Zenon
        DEF AppNext, StartupStep, EndStep

LEMMA AppInvImplies == AppInv => AppInOrder
<1> SUFFICES ASSUME AppInv PROVE AppInOrder
  OBVIOUS
<1>1. /\ AppTypeOK /\ registered = made /\ StepsDone /\ BuiltOnce /\ Wired /\ UsesMade /\ LeftInOrder
  BY Zenon DEF AppInv
<1>2. OneInstance
  <2> SUFFICES ASSUME ListedInOrder(app)
               PROVE  /\ \A i \in Item : made[i] <= 1
                      /\ \A u \in uses : u[4] = registered[u[3]]
    BY Zenon DEF OneInstance
  <2>1. \A i \in Item : made[i] <= 1
    BY <1>1, Zenon DEF BuiltOnce
  <2>2. ASSUME NEW u \in uses PROVE u[4] = registered[u[3]]
    <3>1. u \in Item \X Nat \X Item \X Nat
      BY <1>1, <2>2, Zenon DEF AppTypeOK
    <3>2. u[3] \in Item
      BY <3>1
    <3>3. u[4] \in 1..made[u[3]] /\ made[u[3]] \in Nat /\ made[u[3]] <= 1
      BY <1>1, <2>1, <2>2, <3>2, Zenon DEF UsesMade, AppTypeOK
    <3>4. u[4] = made[u[3]]
      BY <3>3
    <3> QED BY <1>1, <3>4, Zenon
  <2> QED BY <2>1, <2>2, Zenon
<1>3. RunningIsWired
  <2> SUFFICES ASSUME status = "running", NEW k \in DOMAIN StartupPlan(app)
               PROVE  \/ registered[StartupPlan(app)[k].item] > 0
                      \/ StartupPlan(app)[k].op \in Idle
    BY <1>1, Zenon DEF RunningIsWired, Wired
  <2>1. app \in Apps /\ ~Left /\ over \in 0..Len(StartupPlan(app))
    BY <1>1, Zenon DEF AppTypeOK, LeftInOrder
  <2>2. StartupPlan(app) \in Seq(StepRecord)
    BY <2>1, PlanTyped, Zenon
  <2>3. k \in 1..over
    BY <2>1, <2>2 DEF Left
  <2> QED BY <1>1, <2>3, Zenon DEF StepsDone
<1>4. StoppedHasLeft
  <2> SUFFICES ASSUME status = "stopped" PROVE exited = entered
    BY Zenon DEF StoppedHasLeft
  <2>1. /\ Len(exited) = Len(entered) /\ exited \in Seq(Item) /\ entered \in Seq(Item)
        /\ \A k \in 1..Len(exited) : exited[k] = entered[k]
    BY <1>1, Zenon DEF LeftInOrder, AppTypeOK
  <2> QED BY <2>1
<1> QED BY <1>1, <1>2, <1>3, <1>4, Zenon DEF AppInOrder

\* For every application: if its providers are listed before what needs them, directly or
\* not, the container builds single instances; once it runs, everything it lists is there,
\* but for the providers without a value and the interceptors given as instances, and what
\* the container built is wired; and when it stops in good order it has left what it entered, in that order
\* (Container, AppLifecycle).
THEOREM ApplicationsWired == AppSpec => []AppInOrder
<1>1. AppSpec => []AppInv
  BY AppInvInit, AppInvKept, PTL DEF AppSpec
<1> QED BY <1>1, AppInvImplies, PTL
=============================================================================
