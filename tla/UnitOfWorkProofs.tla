-------------------------- MODULE UnitOfWorkProofs --------------------------
(***************************************************************************)
(* Proofs about UnitOfWork, for every set of applications, that is every   *)
(* stack of interceptors, every number of staged messages and every set of *)
(* faults.                                                                 *)
(***************************************************************************)
EXTENDS UnitOfWork, TLAPS

\* The bus interceptor publishes in one visit: once something is published, it is
\* failing or already exited.
FlushedOnce ==
  out.now > 0 =>
    /\ phase \in {"exiting", "done"}
    /\ \/ phase = "done"
       \/ bus = "reacquiring"
       \/ \A i \in 1..Len(Stack) : Stack[i] = "bus" => pos < i

UInv == TypeOK /\ FlushedOnce

\* The steps before the handler and in it publish nothing.
Early ==
  \/ Enter \/ EnterFails \/ StartHandler \/ NoPublisher \/ HandlerEndsTx \/ HandlerSwallows
  \/ DatabaseError \/ HandlerReturns \/ HandlerRaises \/ HandlerCancelled

\* The steps after it that publish nothing either.
Quiet ==
  \/ ExitDb \/ CommitFails \/ SkipBus \/ OpenBus \/ BusRaises \/ FlushFails \/ ExitWs
  \/ ExitApp \/ Finish \/ BrokerGoes \/ BrokerReturns

Loud == PublishNext \/ EnqueueNext \/ CommitBus \/ BusFails \/ FlushNext

LEMMA StepKinds ==
  Next <=> Early \/ Quiet \/ Loud \/ \E k \in {"now", "later", "ws"} : Stage(k)
  BY Zenon DEF Next, Step, ExitBus, Early, Quiet, Loud

\* The application, and so its stack, does not change.
LEMMA AppFixed ==
  ASSUME Next \/ UNCHANGED vars
  PROVE  app' = app /\ Stack' = Stack /\ Context' = Context
  <1>1. app' = app
    <2>1. CASE Early
      BY <2>1, Zenon DEF Early, Enter, EnterFails, StartHandler, NoPublisher, HandlerEndsTx,
             HandlerSwallows, DatabaseError, HandlerReturns, HandlerRaises, HandlerCancelled
    <2>2. CASE Quiet
      BY <2>2, Zenon
        DEF Quiet, ExitDb, CommitFails, SkipBus, OpenBus, BusRaises, FlushFails, ExitWs,
             ExitApp, Finish, BrokerGoes, BrokerReturns
    <2>3. CASE Loud
      BY <2>3, Zenon DEF Loud, PublishNext, EnqueueNext, CommitBus, BusFails, FlushNext
    <2>4. ASSUME NEW k \in {"now", "later", "ws"}, Stage(k) PROVE app' = app
      BY <2>4, Zenon DEF Stage
    <2>5. CASE UNCHANGED vars
      BY <2>5, Zenon DEF vars
    <2> QED BY <2>1, <2>2, <2>3, <2>4, <2>5, StepKinds, Zenon
  <1> QED BY <1>1, Zenon DEF Stack, Context

\* What a stack is.
LEMMA StackShape ==
  ASSUME app \in Apps
  PROVE  /\ Len(Stack) \in Nat
         /\ \A i, j \in 1..Len(Stack) : Stack[i] = Stack[j] => i = j
  <1>1. Stack \in Seq(Kind)
    BY UowAssumption, Zenon DEF Stack
  <1>2. Len(Stack) \in Nat
    BY <1>1
  <1>3. \A i, j \in 1..Len(Stack) : Stack[i] = Stack[j] => i = j
    BY UowAssumption, Zenon DEF Stack
  <1> QED BY <1>2, <1>3, Zenon

LEMMA UInit == Init => UInv
  <1> SUFFICES ASSUME Init PROVE UInv
    BY Zenon
  <1>1. Len(Stack) \in Nat
    BY StackShape, Zenon DEF Init
  <1>2. meddled \in BOOLEAN
    BY Zenon DEF Init
  <1>a. /\ staged \in [now : Nat, later : Nat, ws : Nat]
        /\ out \in [inTx : Nat, now : Nat, later : Nat, ws : Nat]
    BY Zenon DEF Init
  <1>b. TypeOK
    BY <1>1, <1>2, <1>a DEF Init, TypeOK, Outcome
  <1>3. FlushedOnce
    BY DEF Init, FlushedOnce
  <1> QED BY <1>b, <1>3, Zenon DEF UInv

LEMMA EarlyKeeps == UInv /\ Early => UInv'
  <1> SUFFICES ASSUME UInv, Early PROVE UInv'
    BY Zenon
  <1> USE DEF UInv
  <1>0. Len(Stack) \in Nat
    BY StackShape, Zenon DEF TypeOK
  <1>a. app' = app /\ Stack' = Stack
    BY AppFixed, StepKinds, Zenon
  <1>m. meddled' \in BOOLEAN
    BY Zenon DEF TypeOK, Early, Enter, EnterFails, StartHandler, NoPublisher, HandlerEndsTx,
           HandlerSwallows, DatabaseError, HandlerReturns, HandlerRaises, HandlerCancelled
  <1> USE <1>a, <1>m
  <1>1. UNCHANGED <<staged, out, bus, broker>>
    BY Zenon
      DEF Early, Enter, EnterFails, StartHandler, NoPublisher, HandlerEndsTx, HandlerSwallows,
           DatabaseError, HandlerReturns, HandlerRaises, HandlerCancelled
  <1>2. phase \in {"entering", "body"}
    BY Zenon
      DEF Early, Enter, EnterFails, StartHandler, NoPublisher, HandlerEndsTx, HandlerSwallows,
           DatabaseError, HandlerReturns, HandlerRaises, HandlerCancelled
  <1>3. out.now = 0
    BY <1>2 DEF FlushedOnce, TypeOK
  <1>4. /\ phase' \in {"entering", "body", "exiting", "done"}
        /\ pos' \in 0..Len(Stack)
        /\ phase' = "body" => pos' = Len(Stack)
    BY SMTT(30), <1>0
      DEF TypeOK, Early, Enter, EnterFails, StartHandler, NoPublisher, HandlerEndsTx,
           HandlerSwallows, DatabaseError, HandlerReturns, HandlerRaises, HandlerCancelled,
           Raise, Leave
  <1>5. /\ exc' \in Outcome
        /\ raised' \in Outcome
        /\ tx' \in {"absent", "active", "committed", "rolledback", "failed"}
    BY Zenon
      DEF TypeOK, Outcome, Early, Enter, EnterFails, StartHandler, NoPublisher, HandlerEndsTx,
           HandlerSwallows, DatabaseError, HandlerReturns, HandlerRaises, HandlerCancelled,
           Raise, Leave
  <1>6. TypeOK'
    BY <1>1, <1>4, <1>5, Zenon DEF TypeOK
  <1>7. FlushedOnce'
    BY <1>1, <1>3 DEF FlushedOnce
  <1> QED BY <1>6, <1>7, Zenon

LEMMA StageKeeps == ASSUME NEW k \in {"now", "later", "ws"}, UInv, Stage(k) PROVE UInv'
  <1> USE DEF UInv
  <1>1. UNCHANGED <<app, phase, pos, exc, raised, tx, out, bus, broker, meddled, Stack>>
    BY Zenon DEF Stage, Stack
  <1>2. staged' \in [now : Nat, later : Nat, ws : Nat]
    BY DEF Stage, TypeOK
  <1>3. staged'.now >= staged.now /\ staged'.later >= staged.later /\ staged'.ws >= staged.ws
    BY DEF Stage, TypeOK
  <1>4. /\ out.now <= staged'.now /\ out.inTx <= staged'.now
        /\ out.later <= staged'.later /\ out.ws <= staged'.ws
    BY <1>2, <1>3 DEF TypeOK
  <1> QED BY <1>1, <1>2, <1>4 DEF TypeOK, FlushedOnce

LEMMA QuietKeeps == UInv /\ Quiet => UInv'
  <1> SUFFICES ASSUME UInv, Quiet PROVE UInv'
    OBVIOUS
  <1> USE DEF UInv
  <1>0. Len(Stack) \in Nat
    BY StackShape DEF TypeOK
  <1>a. app' = app /\ Stack' = Stack
    BY AppFixed, StepKinds, Zenon
  <1>m. meddled' \in BOOLEAN
    BY Zenon
      DEF TypeOK, Quiet, ExitDb, CommitFails, SkipBus, OpenBus, BusRaises, FlushFails, ExitWs,
           ExitApp, Finish, BrokerGoes, BrokerReturns
  <1> USE <1>a, <1>m
  <1>1. UNCHANGED <<raised, staged, out>>
    BY Zenon
      DEF Quiet, ExitDb, CommitFails, SkipBus, OpenBus, BusRaises, FlushFails, ExitWs,
          ExitApp,
           Finish, BrokerGoes, BrokerReturns
  <1>2. /\ phase' = phase \/ (phase = "exiting" /\ phase' = "done")
        /\ phase' \in {"entering", "body", "exiting", "done"}
    BY Zenon
      DEF TypeOK, Quiet, ExitDb, CommitFails, SkipBus, OpenBus, BusRaises, FlushFails, ExitWs,
           ExitApp, Finish, BrokerGoes, BrokerReturns, Exiting
  <1>3. \/ pos' = pos
        \/ phase = "exiting" /\ pos > 0 /\ pos' = pos - 1
    BY Zenon
      DEF Quiet, ExitDb, CommitFails, SkipBus, OpenBus, BusRaises, FlushFails, ExitWs,
          ExitApp,
           Finish, BrokerGoes, BrokerReturns, Exiting, Exit
  <1>4. /\ exc' \in Outcome
        /\ tx' \in {"absent", "active", "committed", "rolledback", "failed"}
    BY Zenon
      DEF TypeOK, Outcome, Quiet, ExitDb, CommitFails, SkipBus, OpenBus, BusRaises,
          FlushFails,
           ExitWs, ExitApp, Finish, BrokerGoes, BrokerReturns, Exit
  <1>5. /\ bus' \in {"closed", "open", "reacquiring"}
        /\ broker' \in {"up", "down"}
    BY Zenon
      DEF TypeOK, Quiet, ExitDb, CommitFails, SkipBus, OpenBus, BusRaises, FlushFails, ExitWs,
           ExitApp, Finish, BrokerGoes, BrokerReturns
  <1>6. pos' \in 0..Len(Stack) /\ pos' <= pos
    BY <1>0, <1>3 DEF TypeOK
  <1>7. TypeOK'
    BY <1>1, <1>2, <1>3, <1>4, <1>5, <1>6, Zenon DEF TypeOK
  <1>8. bus = "reacquiring" /\ bus' # "reacquiring" =>
          \A i \in 1..Len(Stack) : Stack[i] = "bus" => pos' < i
    <2> SUFFICES ASSUME bus = "reacquiring", bus' # "reacquiring",
                        NEW i \in 1..Len(Stack), Stack[i] = "bus"
                 PROVE  pos' < i
      BY Zenon
    <2>1. BusRaises
      BY Zenon DEF Quiet, ExitDb, CommitFails, SkipBus, OpenBus, BusRaises, FlushFails, ExitWs,
             ExitApp, Finish, BrokerGoes, BrokerReturns
    <2>2. pos \in 1..Len(Stack) /\ Stack[pos] = "bus" /\ pos' = pos - 1
      BY <1>0, <2>1 DEF BusRaises, Exiting, Exit, TypeOK
    <2>3. i = pos
      BY <2>2, StackShape, Zenon DEF TypeOK
    <2> QED BY <2>2, <2>3
  <1>9. FlushedOnce'
    <2> SUFFICES ASSUME out.now > 0 PROVE FlushedOnce'
      BY <1>1, Zenon DEF FlushedOnce
    <2>1. phase' \in {"exiting", "done"}
      BY <1>2, Zenon DEF FlushedOnce
    <2>2. CASE phase = "done"
      BY <1>2, <2>1, <2>2, Zenon DEF FlushedOnce
    <2>3. CASE bus = "reacquiring"
      BY <1>8, <2>1, <2>3, Zenon DEF FlushedOnce
    <2>4. CASE \A i \in 1..Len(Stack) : Stack[i] = "bus" => pos < i
      <3>1. \A i \in 1..Len(Stack) : Stack[i] = "bus" => pos' < i
        BY <1>0, <1>6, <2>4 DEF TypeOK
      <3> QED BY <2>1, <3>1, Zenon DEF FlushedOnce
    <2> QED BY <2>2, <2>3, <2>4, Zenon DEF FlushedOnce
  <1> QED BY <1>7, <1>9

\* A visit of the bus interceptor finds nothing published yet.
LEMMA NothingYet ==
  ASSUME UInv, Exiting("bus"), bus = "open"
  PROVE  out.now = 0 /\ pos \in 1..Len(Stack) /\ Stack[pos] = "bus"
  <1>1. Len(Stack) \in Nat
    BY StackShape, Zenon DEF UInv, TypeOK
  <1>2. pos \in 1..Len(Stack) /\ Stack[pos] = "bus" /\ phase = "exiting"
    BY <1>1 DEF UInv, TypeOK, Exiting
  <1>3. ~(out.now > 0)
    BY <1>2 DEF UInv, TypeOK, FlushedOnce
  <1> QED BY <1>2, <1>3 DEF UInv, TypeOK

\* What tx.commit does to the counts.
LEMMA Committed ==
  ASSUME UInv, out.now = 0, out' = [out EXCEPT !.now = @ + out.inTx, !.inTx = 0]
  PROVE  /\ out' \in [inTx : Nat, now : Nat, later : Nat, ws : Nat]
         /\ out'.inTx = 0 /\ out'.now = out.inTx
         /\ out'.later = out.later /\ out'.ws = out.ws
  <1>1. out \in [inTx : Nat, now : Nat, later : Nat, ws : Nat]
    BY Zenon DEF UInv, TypeOK
  <1> DEFINE n == out.now + out.inTx
  <1>2. n \in Nat /\ n = out.inTx
    BY <1>1
  <1>3. out' = [out EXCEPT !.now = n, !.inTx = 0]
    BY Zenon
  <1> HIDE DEF n
  <1> QED BY <1>1, <1>2, <1>3, Zenon

LEMMA LoudKeeps == UInv /\ Loud => UInv'
  <1> SUFFICES ASSUME UInv, Loud PROVE UInv'
    OBVIOUS
  <1> USE DEF UInv
  <1>0. Len(Stack) \in Nat
    BY StackShape DEF TypeOK
  <1>a. app' = app /\ Stack' = Stack
    BY AppFixed, StepKinds, Zenon
  <1>m. meddled' \in BOOLEAN
    BY Zenon DEF TypeOK, Loud, PublishNext, EnqueueNext, CommitBus, BusFails, FlushNext
  <1> USE <1>a, <1>m
  <1>1. CASE PublishNext
    <2>1. UNCHANGED <<phase, pos, exc, raised, tx, staged, bus, broker>>
      BY <1>1, Zenon DEF PublishNext
    <2>2. /\ out' \in [inTx : Nat, now : Nat, later : Nat, ws : Nat]
          /\ out'.inTx = out.inTx + 1 /\ out'.now = out.now
          /\ out'.later = out.later /\ out'.ws = out.ws
      BY SMTT(30), <1>1 DEF PublishNext, TypeOK
    <2>3. out'.inTx <= staged.now
      BY <1>1, <2>2 DEF PublishNext, TypeOK
    <2> QED BY <2>1, <2>2, <2>3 DEF TypeOK, FlushedOnce
  <1>2. CASE EnqueueNext
    <2>1. UNCHANGED <<phase, pos, exc, raised, tx, staged, bus, broker>>
      BY <1>2, Zenon DEF EnqueueNext
    <2>2. /\ out' \in [inTx : Nat, now : Nat, later : Nat, ws : Nat]
          /\ out'.inTx = out.inTx /\ out'.now = out.now
          /\ out'.later = out.later + 1 /\ out'.ws = out.ws
      BY SMTT(30), <1>2 DEF EnqueueNext, TypeOK
    <2>3. out'.later <= staged.later
      BY <1>2, <2>2 DEF EnqueueNext, TypeOK
    <2> QED BY <2>1, <2>2, <2>3 DEF TypeOK, FlushedOnce
  <1>3. CASE CommitBus
    <2>0. out.now = 0 /\ pos \in 1..Len(Stack) /\ Stack[pos] = "bus"
      BY <1>3, NothingYet, Zenon DEF CommitBus
    <2>1. /\ UNCHANGED <<phase, raised, tx, staged, broker>>
          /\ bus' = "closed" /\ exc' = "none" /\ pos' = pos - 1 /\ phase = "exiting"
      BY <1>3, Zenon DEF CommitBus, Exit, Exiting
    <2>2. /\ out' \in [inTx : Nat, now : Nat, later : Nat, ws : Nat]
          /\ out'.inTx = 0 /\ out'.now = out.inTx
          /\ out'.later = out.later /\ out'.ws = out.ws
      BY <1>3, <2>0, Committed, Zenon DEF CommitBus
    <2>3. TypeOK'
      BY <1>0, <2>0, <2>1, <2>2 DEF TypeOK, Outcome
    <2>4. \A i \in 1..Len(Stack) : Stack[i] = "bus" => pos' < i
      BY <1>0, <2>0, <2>1, StackShape DEF TypeOK
    <2>5. FlushedOnce'
      BY <2>1, <2>4, Zenon DEF FlushedOnce
    <2> QED BY <2>3, <2>5
  <1>4. CASE BusFails
    <2>0. out.now = 0 /\ pos \in 1..Len(Stack) /\ Stack[pos] = "bus"
      BY <1>4, NothingYet, Zenon DEF BusFails
    <2>1. /\ UNCHANGED <<phase, pos, exc, raised, tx, staged, broker>>
          /\ bus' = "reacquiring" /\ phase = "exiting"
      BY <1>4, Zenon DEF BusFails, Exiting
    <2>2. /\ out' \in [inTx : Nat, now : Nat, later : Nat, ws : Nat]
          /\ out'.inTx = 0 /\ out'.now \in {0, out.inTx}
          /\ out'.later = out.later /\ out'.ws = out.ws
      <3>1. CASE out' = [out EXCEPT !.inTx = 0]
        BY <2>0, <3>1, Zenon DEF TypeOK
      <3>2. CASE out' = [out EXCEPT !.now = @ + out.inTx, !.inTx = 0]
        BY <2>0, <3>2, Committed, Zenon
      <3> QED BY <1>4, <3>1, <3>2, Zenon DEF BusFails
    <2>3. TypeOK'
      BY <1>0, <2>0, <2>1, <2>2 DEF TypeOK, Outcome
    <2>4. FlushedOnce'
      BY <2>1, Zenon DEF FlushedOnce
    <2> QED BY <2>3, <2>4
  <1>5. CASE FlushNext
    <2>1. UNCHANGED <<phase, pos, exc, raised, tx, staged, bus, broker>>
      BY <1>5, Zenon DEF FlushNext
    <2>2. /\ out' \in [inTx : Nat, now : Nat, later : Nat, ws : Nat]
          /\ out'.inTx = out.inTx /\ out'.now = out.now
          /\ out'.later = out.later /\ out'.ws = out.ws + 1
      BY SMTT(30), <1>5 DEF FlushNext, TypeOK
    <2>3. out'.ws <= staged.ws
      BY SMTT(30), <1>5, <2>2 DEF FlushNext, TypeOK
    <2> QED BY <2>1, <2>2, <2>3 DEF TypeOK, FlushedOnce
  <1> QED BY <1>1, <1>2, <1>3, <1>4, <1>5, Zenon DEF Loud

\* The types, with no more published than staged, and the single visit of the bus
\* interceptor are an inductive invariant.
THEOREM UowInductive == Spec => []UInv
  <1>1. UInv /\ [Next]_vars => UInv'
    <2> SUFFICES ASSUME UInv, [Next]_vars PROVE UInv'
      BY Zenon
    <2>1. CASE UNCHANGED vars
      BY <2>1, AppFixed DEF vars, UInv, TypeOK, FlushedOnce
    <2>2. CASE Next
      BY <2>2, StepKinds, EarlyKeeps, QuietKeeps, LoudKeeps, StageKeeps, Zenon
    <2> QED BY <2>1, <2>2, Zenon
  <1> QED BY <1>1, UInit, PTL DEF Spec

\* TypeOK for every stack of interceptors: in particular, a flush that fails and
\* whose channel is acquired again never publishes a message twice.
THEOREM UowTypeCorrect == Spec => []TypeOK
  <1>1. UInv => TypeOK
    BY Zenon DEF UInv
  <1> QED BY <1>1, UowInductive, PTL

-----------------------------------------------------------------------------
(* Messages after the commit, and nothing after a failure.                 *)

\* Where the unit of work stands tells the state of the transaction of a session
\* interceptor that is declared d-th.
TxAt(d) ==
  /\ phase = "entering" => tx = IF pos >= d THEN "active" ELSE "absent"
  /\ phase = "body" => tx = "active"
  /\ phase = "exiting" /\ exc = "none" => tx = IF pos >= d THEN "active" ELSE "committed"

TxByPosition == ~meddled => \A d \in 1..Len(Stack) : Stack[d] = "db" => TxAt(d)

\* A channel is open only in the bus interceptor, and without an exception.
BusInUse == bus # "closed" => Exiting("bus") /\ exc = "none"

\* Before it exits, the unit of work has no effect.
CleanBefore ==
  phase \in {"entering", "body"} =>
    /\ raised = "none" /\ out.now = 0 /\ out.later = 0 /\ out.ws = 0
    /\ ~meddled => tx # "committed"

\* An exception of the handler stays with the interceptors, and nothing leaves.
FailureStays ==
  raised # "none" /\ ~meddled =>
    exc # "none" /\ tx # "committed" /\ out.now = 0 /\ out.later = 0 /\ out.ws = 0

CInv ==
  /\ TypeOK /\ TxByPosition /\ BusInUse /\ CleanBefore /\ FailureStays
  /\ PublishedAfterCommit /\ WsAfterCommit

LEMMA MeddledStays == ASSUME Next \/ UNCHANGED vars, ~meddled' PROVE ~meddled
  <1>1. CASE Early
    BY <1>1, Zenon DEF Early, Enter, EnterFails, StartHandler, NoPublisher, HandlerEndsTx,
           HandlerSwallows, DatabaseError, HandlerReturns, HandlerRaises, HandlerCancelled
  <1>2. CASE Quiet
    BY <1>2, Zenon
      DEF Quiet, ExitDb, CommitFails, SkipBus, OpenBus, BusRaises, FlushFails, ExitWs,
           ExitApp, Finish, BrokerGoes, BrokerReturns
  <1>3. CASE Loud
    BY <1>3, Zenon DEF Loud, PublishNext, EnqueueNext, CommitBus, BusFails, FlushNext
  <1>4. ASSUME NEW k \in {"now", "later", "ws"}, Stage(k) PROVE meddled' = meddled
    BY <1>4, Zenon DEF Stage
  <1>5. CASE UNCHANGED vars
    BY <1>5, Zenon DEF vars
  <1> QED BY <1>1, <1>2, <1>3, <1>4, <1>5, StepKinds, Zenon

LEMMA CInit == Init => CInv
  <1> SUFFICES ASSUME Init PROVE CInv
    OBVIOUS
  <1>1. TypeOK /\ Len(Stack) \in Nat
    BY UInit, StackShape, Zenon DEF UInv, TypeOK
  <1>2. TxByPosition
    BY <1>1 DEF Init, TxByPosition, TxAt
  <1>3. out.now = 0 /\ out.later = 0 /\ out.ws = 0
    BY Zenon DEF Init
  <1>4. PublishedAfterCommit /\ WsAfterCommit
    BY <1>3 DEF PublishedAfterCommit, WsAfterCommit
  <1>5. BusInUse /\ CleanBefore /\ FailureStays
    BY <1>3, Zenon DEF Init, BusInUse, CleanBefore, FailureStays
  <1> QED BY <1>1, <1>2, <1>4, <1>5, Zenon DEF CInv

\* The orders of interceptors stay what they are.
LEMMA AroundFixed ==
  ASSUME Next \/ UNCHANGED vars, NEW k, NEW l
  PROVE  Around(k, l)' <=> Around(k, l)
  BY AppFixed, Zenon DEF Around

LEMMA EarlyCommits == ASSUME CInv, TypeOK', Early PROVE CInv'
  <1> USE DEF CInv
  <1>0. /\ Len(Stack) \in Nat
        /\ \A i, j \in 1..Len(Stack) : Stack[i] = Stack[j] => i = j
    BY StackShape, Zenon DEF TypeOK
  <1>1. Stack' = Stack /\ Context' = Context
    BY AppFixed, StepKinds, Zenon
  <1>2. UNCHANGED <<staged, out, bus, broker>>
    BY Zenon
      DEF Early, Enter, EnterFails, StartHandler, NoPublisher, HandlerEndsTx, HandlerSwallows,
           DatabaseError, HandlerReturns, HandlerRaises, HandlerCancelled
  <1>3. phase \in {"entering", "body"}
    BY Zenon
      DEF Early, Enter, EnterFails, StartHandler, NoPublisher, HandlerEndsTx, HandlerSwallows,
           DatabaseError, HandlerReturns, HandlerRaises, HandlerCancelled
  <1>4. out.now = 0 /\ out.later = 0 /\ out.ws = 0 /\ raised = "none"
    BY <1>3, Zenon DEF CleanBefore
  <1>5. ~meddled' => ~meddled /\ tx # "committed" /\ tx' # "committed"
    <2>1. ~meddled' => ~meddled
      BY MeddledStays, StepKinds, Zenon
    <2>2. ~meddled => tx # "committed"
      BY <1>3, Zenon DEF CleanBefore
    <2>3. ~meddled' => tx' = tx \/ tx' \in {"active", "failed"}
      BY Zenon DEF Early, Enter, EnterFails, StartHandler, NoPublisher, HandlerEndsTx,
             HandlerSwallows, DatabaseError, HandlerReturns, HandlerRaises, HandlerCancelled
    <2> QED BY <2>1, <2>2, <2>3, Zenon
  <1>6. PublishedAfterCommit' /\ WsAfterCommit'
    BY <1>2, <1>4 DEF PublishedAfterCommit, WsAfterCommit
  <1>7. BusInUse'
    <2>1. bus = "closed"
      BY <1>3, Zenon DEF BusInUse, Exiting
    <2> QED BY <1>2, <2>1, Zenon DEF BusInUse
  <1>8. CleanBefore' /\ FailureStays'
    <2>1. phase' \in {"entering", "body"} => raised' = raised
      BY Zenon DEF Early, Enter, EnterFails, StartHandler, NoPublisher, HandlerEndsTx,
             HandlerSwallows, DatabaseError, HandlerReturns, HandlerRaises, HandlerCancelled,
             Raise, Leave
    <2>2. raised' # "none" => exc' # "none"
      BY <1>4, Zenon DEF Early, Enter, EnterFails, StartHandler, NoPublisher, HandlerEndsTx,
             HandlerSwallows, DatabaseError, HandlerReturns, HandlerRaises, HandlerCancelled,
             Raise, Leave
    <2> QED BY <1>2, <1>4, <1>5, <2>1, <2>2, Zenon DEF CleanBefore, FailureStays
  <1>9. TxByPosition'
    <2> SUFFICES ASSUME ~meddled', NEW d \in 1..Len(Stack), Stack[d] = "db"
                 PROVE  TxAt(d)'
      BY <1>1, Zenon DEF TxByPosition
    <2>0. TxAt(d) /\ d \in Nat /\ d > 0
      BY <1>0, <1>5 DEF TxByPosition
    <2>1. CASE Enter
      <3>1. phase = "entering" /\ phase' = "entering" /\ pos' = pos + 1 /\ pos \in Nat
            /\ pos + 1 \in 1..Len(Stack)
        BY <1>0, <2>1 DEF Enter, TypeOK
      <3>2. CASE Stack[pos + 1] = "db"
        <4>1. pos + 1 = d
          BY <1>0, <3>1, <3>2, Zenon
        <4> QED BY <2>0, <2>1, <3>1, <3>2, <4>1 DEF Enter, TxAt
      <3>3. CASE Stack[pos + 1] # "db"
        <4>1. pos + 1 # d /\ (pos + 1 >= d <=> pos >= d)
          BY <2>0, <3>1, <3>3
        <4>2. tx' = tx
          BY <2>1, <3>3, Zenon DEF Enter
        <4> QED BY <2>0, <3>1, <4>1, <4>2, Zenon DEF TxAt
      <3> QED BY <3>2, <3>3, Zenon
    <2>2. CASE EnterFails
      BY <2>2, Zenon DEF EnterFails, TxAt
    <2>3. CASE StartHandler
      BY <1>0, <2>0, <2>3 DEF StartHandler, TxAt
    <2>4. CASE HandlerEndsTx \/ HandlerSwallows
      BY <2>4, Zenon DEF HandlerEndsTx, HandlerSwallows
    <2>5. CASE NoPublisher \/ HandlerRaises \/ HandlerCancelled \/ HandlerReturns
      <3>1. phase = "body" /\ phase' = "exiting" /\ pos' = pos /\ tx' = tx
        BY <2>5, Zenon
          DEF NoPublisher, HandlerRaises, HandlerCancelled, HandlerReturns, Raise, Leave
      <3>2. pos >= d
        BY <1>0, <3>1 DEF TypeOK
      <3> QED BY <2>0, <3>1, <3>2, Zenon DEF TxAt
    <2>6. CASE DatabaseError
      <3>1. Context # "worker"
        BY <2>6, Zenon DEF DatabaseError
      <3>2. phase' = "exiting" /\ exc' # "none"
        BY <2>6, <3>1, Zenon DEF DatabaseError, Raise, Leave
      <3> QED BY <3>2, Zenon DEF TxAt
    <2> QED BY <2>1, <2>2, <2>3, <2>4, <2>5, <2>6, Zenon DEF Early
  <1> QED BY <1>6, <1>7, <1>8, <1>9, Zenon

LEMMA StageCommits ==
  ASSUME CInv, TypeOK', NEW k \in {"now", "later", "ws"}, Stage(k) PROVE CInv'
  <1> USE DEF CInv
  <1>1. UNCHANGED <<phase, pos, exc, raised, tx, out, bus, meddled, Stack>>
    BY Zenon DEF Stage, Stack
  <1> QED BY <1>1 DEF TxByPosition, TxAt, BusInUse, Exiting, CleanBefore, FailureStays,
          PublishedAfterCommit, WsAfterCommit, Around

\* Exiting an interceptor other than the session's.
LEMMA ExitOther ==
  ASSUME CInv, TypeOK', Stack' = Stack, UNCHANGED <<phase, tx>>, phase = "exiting",
         pos > 0, Stack[pos] # "db", pos' = pos - 1, bus' = "closed",
         ~meddled' => ~meddled /\ exc' \in {exc, "error"}
  PROVE  TxByPosition' /\ BusInUse' /\ CleanBefore'
  <1> USE DEF CInv
  <1>1. pos \in Nat /\ Len(Stack) \in Nat
    BY StackShape DEF TypeOK
  <1>2. TxByPosition'
    <2> SUFFICES ASSUME ~meddled', NEW d \in 1..Len(Stack), Stack[d] = "db"
                 PROVE  TxAt(d)'
      BY Zenon DEF TxByPosition
    <2>1. TxAt(d) /\ d \in Nat
      BY <1>1 DEF TxByPosition
    <2>2. pos # d /\ (pos - 1 >= d <=> pos >= d)
      BY <1>1, <2>1
    <2> QED BY <2>1, <2>2, Zenon DEF TxAt
  <1> QED BY <1>2, Zenon DEF BusInUse, CleanBefore

LEMMA QuietCommits == ASSUME CInv, TypeOK', Quiet PROVE CInv'
  <1> USE DEF CInv
  <1>0. /\ Len(Stack) \in Nat /\ pos \in Nat
        /\ \A i, j \in 1..Len(Stack) : Stack[i] = Stack[j] => i = j
    BY StackShape DEF TypeOK
  <1>1. Stack' = Stack /\ (~meddled' => ~meddled)
    BY AppFixed, MeddledStays, StepKinds, Zenon
  <1>2. UNCHANGED <<out, raised>>
    BY Zenon
      DEF Quiet, ExitDb, CommitFails, SkipBus, OpenBus, BusRaises, FlushFails, ExitWs,
          ExitApp,
           Finish, BrokerGoes, BrokerReturns
  <1>3. tx' = tx \/ tx # "committed"
    BY Zenon
      DEF Quiet, ExitDb, CommitFails, SkipBus, OpenBus, BusRaises, FlushFails, ExitWs,
          ExitApp,
           Finish, BrokerGoes, BrokerReturns
  <1>4. PublishedAfterCommit' /\ WsAfterCommit'
    BY <1>1, <1>2, <1>3 DEF PublishedAfterCommit, WsAfterCommit, Around
  <1>5. FailureStays'
    <2> SUFFICES ASSUME raised' # "none", ~meddled' PROVE exc' # "none" /\ tx' # "committed"
      BY <1>1, <1>2, Zenon DEF FailureStays
    <2>1. exc # "none" /\ tx # "committed" /\ ~meddled
      BY <1>1, <1>2, Zenon DEF FailureStays
    <2>2. exc' # "none"
      BY <2>1, Zenon
        DEF Quiet, ExitDb, CommitFails, SkipBus, OpenBus, BusRaises, FlushFails, ExitWs,
             ExitApp, Finish, BrokerGoes, BrokerReturns, Exit
    <2>3. tx' # "committed"
      BY <2>1, Zenon
        DEF Quiet, ExitDb, CommitFails, SkipBus, OpenBus, BusRaises, FlushFails, ExitWs,
             ExitApp, Finish, BrokerGoes, BrokerReturns
    <2> QED BY <2>2, <2>3, Zenon
  <1>6. CASE ExitDb \/ CommitFails
    <2>1. Exiting("db") /\ pos' = pos - 1 /\ UNCHANGED <<phase, bus, meddled>>
      BY <1>6, Zenon DEF ExitDb, CommitFails, Exit
    <2>2. pos \in 1..Len(Stack) /\ Stack[pos] = "db" /\ phase = "exiting"
      BY <1>0, <2>1 DEF Exiting, TypeOK
    <2>3. bus = "closed"
      BY <2>2, Zenon DEF BusInUse, Exiting
    <2>4. TxByPosition'
      <3> SUFFICES ASSUME ~meddled', NEW d \in 1..Len(Stack), Stack[d] = "db"
                   PROVE  TxAt(d)'
        BY <1>1, Zenon DEF TxByPosition
      <3>1. pos = d /\ TxAt(d) /\ d \in Nat
        BY <1>0, <1>1, <2>2, Zenon DEF TxByPosition
      <3>2. exc' = "none" => tx' = "committed"
        BY <1>6, <2>2, <3>1, Zenon DEF ExitDb, CommitFails, Exit, TxAt
      <3> QED BY <2>1, <2>2, <3>1, <3>2 DEF TxAt
    <2> QED BY <1>4, <1>5, <2>1, <2>2, <2>3, <2>4, Zenon DEF BusInUse, CleanBefore
  <1>7. CASE SkipBus \/ BusRaises \/ FlushFails \/ ExitWs \/ ExitApp
    <2>1. /\ phase = "exiting" /\ pos > 0 /\ Stack[pos] # "db"
          /\ UNCHANGED <<phase, tx>> /\ pos' = pos - 1
      BY <1>7, Zenon DEF SkipBus, BusRaises, FlushFails, ExitWs, ExitApp, Exiting, Exit
    <2>2. ~meddled' => exc' \in {exc, "error"}
      BY <1>7, Zenon DEF SkipBus, BusRaises, FlushFails, ExitWs, ExitApp, Exit
    <2>3. bus' = "closed"
      BY <1>7, Zenon DEF SkipBus, BusRaises, FlushFails, ExitWs, ExitApp, Exiting, BusInUse
    <2> QED BY <1>1, <1>4, <1>5, <2>1, <2>2, <2>3, ExitOther, Zenon
  <1>8. CASE OpenBus
    <2>1. Exiting("bus") /\ exc = "none" /\ UNCHANGED <<phase, pos, exc, tx, meddled>>
      BY <1>8, Zenon DEF OpenBus
    <2>2. TxByPosition' /\ CleanBefore'
      BY <1>1, <2>1, Zenon DEF TxByPosition, TxAt, CleanBefore, Exiting
    <2> QED BY <1>1, <1>4, <1>5, <2>1, <2>2, Zenon DEF BusInUse, Exiting
  <1>9. CASE Finish
    <2>1. bus = "closed"
      BY <1>0, <1>9 DEF Finish, BusInUse, Exiting
    <2> QED BY <1>4, <1>5, <1>9, <2>1, Zenon
      DEF Finish, TxByPosition, TxAt, BusInUse, CleanBefore
  <1>10. CASE BrokerGoes \/ BrokerReturns
    <2>1. UNCHANGED <<phase, pos, exc, raised, tx, out, bus, meddled>>
      BY <1>10, Zenon DEF BrokerGoes, BrokerReturns
    <2> QED BY <1>1, <1>4, <1>5, <2>1, Zenon
      DEF TxByPosition, TxAt, BusInUse, Exiting, CleanBefore
  <1> QED BY <1>6, <1>7, <1>8, <1>9, <1>10, Zenon DEF Quiet

\* Without an exception, whoever exits after the session's interceptor finds its
\* transaction committed.
LEMMA CommittedBelow ==
  ASSUME CInv, NEW k, Exiting(k), exc = "none", Around(k, "db"), ~meddled
  PROVE  tx = "committed"
  <1> USE DEF CInv
  <1>1. /\ Len(Stack) \in Nat
        /\ \A i, j \in 1..Len(Stack) : Stack[i] = Stack[j] => i = j
    BY StackShape, Zenon DEF TypeOK
  <1>2. PICK i, d \in 1..Len(Stack) : i < d /\ Stack[i] = k /\ Stack[d] = "db"
    BY Zenon DEF Around
  <1>3. pos \in 1..Len(Stack) /\ Stack[pos] = k /\ phase = "exiting"
    BY <1>1 DEF Exiting, TypeOK
  <1>4. pos = i
    BY <1>1, <1>2, <1>3, Zenon
  <1>5. TxAt(d) /\ ~(pos >= d)
    BY <1>1, <1>2, <1>4 DEF TxByPosition
  <1> QED BY <1>3, <1>5, Zenon DEF TxAt

LEMMA LoudCommits == ASSUME CInv, TypeOK', Loud PROVE CInv'
  <1> USE DEF CInv
  <1>1. Stack' = Stack /\ (~meddled' => ~meddled)
    BY AppFixed, MeddledStays, StepKinds, Zenon
  <1>2. UNCHANGED <<phase, tx, raised, meddled>> /\ phase = "exiting" /\ exc = "none"
    <2>1. CASE FlushNext
      BY <2>1, Zenon DEF FlushNext, Exiting
    <2>2. CASE PublishNext \/ EnqueueNext \/ CommitBus \/ BusFails
      BY <2>2, Zenon DEF PublishNext, EnqueueNext, CommitBus, BusFails, Exiting, BusInUse
    <2> QED BY <2>1, <2>2, Zenon DEF Loud
  <1>3. FailureStays'
    BY <1>2, Zenon DEF FailureStays
  <1>4. CleanBefore'
    BY <1>2, Zenon DEF CleanBefore
  <1>5. CASE FlushNext
    <2>1. UNCHANGED <<pos, exc, bus>> /\ Exiting("ws")
      BY <1>5, Zenon DEF FlushNext
    <2>2. out'.now = out.now /\ out'.later = out.later
      BY <1>5, Zenon DEF FlushNext, TypeOK
    <2>3. PublishedAfterCommit'
      BY <1>1, <1>2, <2>2 DEF PublishedAfterCommit, Around
    <2>4. WsAfterCommit'
      BY <1>1, <1>2, <2>1, CommittedBelow DEF WsAfterCommit, Around
    <2>5. TxByPosition' /\ BusInUse'
      BY <1>1, <1>2, <2>1, Zenon DEF TxByPosition, TxAt, BusInUse, Exiting
    <2> QED BY <1>3, <1>4, <2>3, <2>4, <2>5, Zenon
  <1>6. CASE PublishNext \/ EnqueueNext \/ CommitBus \/ BusFails
    <2>1. Exiting("bus") /\ bus = "open" /\ exc' = exc
      BY <1>2, <1>6, Zenon DEF PublishNext, EnqueueNext, CommitBus, BusFails, Exit
    <2>2. out'.ws = out.ws
      BY <1>6, ZenonT(60) DEF PublishNext, EnqueueNext, CommitBus, BusFails, TypeOK
    <2>3. PublishedAfterCommit'
      BY <1>1, <1>2, <2>1, CommittedBelow, Zenon DEF PublishedAfterCommit, Around
    <2>4. WsAfterCommit'
      BY <1>1, <1>2, <2>2 DEF WsAfterCommit, Around
    <2>5. TxByPosition' /\ BusInUse'
      <3>1. CASE CommitBus
        <4>1. pos > 0 /\ Stack[pos] # "db" /\ pos' = pos - 1 /\ bus' = "closed"
          BY <3>1, Zenon DEF CommitBus, Exit, Exiting
        <4> QED BY <1>1, <1>2, <2>1, <4>1, ExitOther, Zenon
      <3>2. CASE PublishNext \/ EnqueueNext \/ BusFails
        <4>1. pos' = pos
          BY <3>2, Zenon DEF PublishNext, EnqueueNext, BusFails
        <4> QED BY <1>1, <1>2, <2>1, <4>1, Zenon DEF TxByPosition, TxAt, BusInUse, Exiting
      <3> QED BY <1>6, <3>1, <3>2, Zenon
    <2> QED BY <1>3, <1>4, <2>3, <2>4, <2>5
  <1> QED BY <1>5, <1>6, Zenon DEF Loud

\* The transaction, the exception and what is visible stay related as CInv says,
\* whatever the handler does and wherever the broker or the database fails.
THEOREM CommitInductive == Spec => []CInv
  <1>1. CInv /\ TypeOK' /\ [Next]_vars => CInv'
    <2> SUFFICES ASSUME CInv, TypeOK', [Next]_vars PROVE CInv'
      BY Zenon
    <2>1. CASE UNCHANGED vars
      <3>1. Stack' = Stack
        BY <2>1, AppFixed, Zenon
      <3> QED BY <2>1, <3>1 DEF vars, CInv, TxByPosition, TxAt, BusInUse, Exiting, CleanBefore,
              FailureStays, PublishedAfterCommit, WsAfterCommit, Around
    <2>2. CASE Next
      BY <2>2, StepKinds, EarlyCommits, QuietCommits, LoudCommits, StageCommits, Zenon
    <2> QED BY <2>1, <2>2, Zenon
  <1> QED BY <1>1, CInit, UowTypeCorrect, PTL DEF Spec

\* In every application whose publisher interceptor is declared before the
\* session's, a message a consumer can see was published after the commit
\* (AppTransactionContext exits the interceptors innermost first); the same of the
\* WebSocket interceptor and what it flushes.
THEOREM CommitsFirst == Spec => []EffectsAfterCommit
  <1>1. CInv => EffectsAfterCommit
    BY Zenon DEF CInv, EffectsAfterCommit
  <1> QED BY <1>1, CommitInductive, PTL

\* In every stack of interceptors, whatever their order, an exception of the handler
\* that nobody hides leaves no committed data and no message.
THEOREM FailureLeavesNothing == Spec => []FailedHandlerLeavesNothing
  <1>1. CInv => FailedHandlerLeavesNothing
    BY DEF CInv, FailureStays, FailedHandlerLeavesNothing, Visible
  <1> QED BY <1>1, CommitInductive, PTL

-----------------------------------------------------------------------------
(* A unit of work that has ended leaves nothing open, and nothing undone.  *)

\* An active transaction is the one of an interceptor that is still entered.
ActiveInside == tx = "active" => \E d \in 1..pos : Stack[d] = "db"

\* Messages are staged only for an interceptor that is there.
StagedByDeclared ==
  /\ Declared("bus") \/ (staged.now = 0 /\ staged.later = 0)
  /\ Declared("ws") \/ staged.ws = 0

\* Without an exception, the interceptors that are exited sent all of their messages.
FlushedBehind ==
  phase \in {"exiting", "done"} /\ exc = "none" /\ ~meddled =>
    \A i \in 1..Len(Stack) : pos < i =>
      /\ Stack[i] = "bus" => out.now = staged.now /\ out.later = staged.later
      /\ Stack[i] = "ws" => out.ws = staged.ws

\* Without an exception the unit of work is done when all interceptors are exited.
DoneAtEnd ==
  phase = "done" /\ exc = "none" =>
    /\ pos = 0
    /\ ~meddled => \A d \in 1..Len(Stack) : Stack[d] = "db" => tx = "committed"

EInv == ActiveInside /\ StagedByDeclared /\ FlushedBehind /\ DoneAtEnd

LEMMA EarlyEnds == ASSUME UInv, CInv, EInv, Early PROVE EInv'
  <1> USE DEF EInv, UInv
  <1>0. Len(Stack) \in Nat /\ pos \in Nat
    BY StackShape, SMTT(30) DEF TypeOK
  <1>1. Stack' = Stack /\ UNCHANGED <<staged, out>>
    BY AppFixed, StepKinds, Zenon DEF Early, Enter, EnterFails, StartHandler, NoPublisher,
       HandlerEndsTx, HandlerSwallows, DatabaseError, HandlerReturns, HandlerRaises, HandlerCancelled
  <1>2. CASE Enter
    <2>1. pos' = pos + 1 /\ phase' = "entering"
      BY <1>2, Zenon DEF Enter
    <2>2. tx' = "active" => \E d \in 1..pos' : Stack[d] = "db"
      BY <1>0, <1>2, <2>1 DEF Enter, ActiveInside
    <2> QED BY <1>1, <2>1, <2>2, Zenon
      DEF ActiveInside, StagedByDeclared, Declared, FlushedBehind,
            DoneAtEnd
  <1>3. CASE ~Enter
    <2>1. /\ pos' = pos /\ (tx' = "active" => tx = "active")
          /\ phase' = "done" => exc' = "error"
          /\ phase' = "exiting" => phase = "body"
      BY <1>3, Zenon
        DEF Early, EnterFails, StartHandler, NoPublisher, HandlerEndsTx, HandlerSwallows,
         DatabaseError, HandlerReturns, HandlerRaises, HandlerCancelled, Raise, Leave
    <2>2. phase' = "exiting" => pos' = Len(Stack)
      BY <2>1, Zenon DEF TypeOK
    <2>3. ActiveInside' /\ StagedByDeclared'
      BY <1>1, <2>1, Zenon DEF ActiveInside, StagedByDeclared, Declared
    <2>4. FlushedBehind' /\ DoneAtEnd'
      BY <1>0, <1>1, <2>1, <2>2 DEF FlushedBehind, DoneAtEnd
    <2> QED BY <2>3, <2>4, Zenon
  <1> QED BY <1>2, <1>3, Zenon

LEMMA StageEnds == ASSUME UInv, EInv, NEW k \in {"now", "later", "ws"}, Stage(k) PROVE EInv'
  <1> USE DEF EInv, UInv
  <1>1. UNCHANGED <<phase, pos, exc, tx, out, meddled, Stack>> /\ phase = "body"
    BY Zenon DEF Stage, Stack
  <1>2. StagedByDeclared'
    BY <1>1, Zenon DEF Stage, StagedByDeclared, Declared, TypeOK
  <1> QED BY <1>1, <1>2, Zenon DEF ActiveInside, FlushedBehind, DoneAtEnd

\* The innermost interceptor, the k, is exited.
Exits(k) ==
  /\ Exiting(k) /\ pos' = pos - 1
  /\ UNCHANGED <<phase, staged>>
  /\ exc' = "none" /\ ~meddled' => exc = "none"
  /\ k = "db" => tx' # "active"
  /\ k # "db" => tx' = tx
  /\ k = "bus" /\ exc' = "none" /\ ~meddled' => out'.now = staged.now /\ out'.later = staged.later
  /\ k = "ws" /\ exc' = "none" /\ ~meddled' => out'.ws = staged.ws
  /\ k # "bus" => out'.now = out.now /\ out'.later = out.later
  /\ k # "ws" => out'.ws = out.ws

LEMMA ExitsEnds ==
  ASSUME UInv, EInv, NEW k \in Kind, Exits(k), Stack' = Stack, ~meddled' => ~meddled
  PROVE  EInv'
  <1> USE DEF EInv, UInv
  <1>0. /\ Len(Stack) \in Nat /\ pos \in 1..Len(Stack) /\ Stack[pos] = k /\ phase = "exiting"
        /\ \A i, j \in 1..Len(Stack) : Stack[i] = Stack[j] => i = j
    BY StackShape DEF TypeOK, Exits, Exiting
  <1>1. ActiveInside'
    BY <1>0, SMTT(30) DEF Exits, ActiveInside
  <1>2. StagedByDeclared'
    BY Zenon DEF Exits, StagedByDeclared, Declared
  <1>3. DoneAtEnd'
    BY <1>0, Zenon DEF Exits, DoneAtEnd
  <1>4. FlushedBehind'
    <2> SUFFICES ASSUME exc' = "none", ~meddled', NEW i \in 1..Len(Stack), pos' < i
                 PROVE  /\ Stack[i] = "bus" => out'.now = staged.now /\ out'.later = staged.later
                        /\ Stack[i] = "ws" => out'.ws = staged.ws
      BY Zenon DEF Exits, FlushedBehind
    <2>1. exc = "none" /\ ~meddled
      BY Zenon DEF Exits
    <2>2. i = pos \/ pos < i
      BY <1>0 DEF Exits
    <2>3. CASE i = pos
      BY <1>0, <2>3, Zenon DEF Exits
    <2>4. CASE pos < i
      <3>1. Stack[i] # k
        BY <1>0, <2>4
      <3>2. /\ Stack[i] = "bus" => out.now = staged.now /\ out.later = staged.later
            /\ Stack[i] = "ws" => out.ws = staged.ws
        BY <1>0, <2>1, <2>4, Zenon DEF FlushedBehind
      <3> QED BY <3>1, <3>2, Zenon DEF Exits
    <2> QED BY <2>2, <2>3, <2>4, Zenon
  <1> QED BY <1>1, <1>2, <1>3, <1>4, Zenon

LEMMA QuietEnds == ASSUME UInv, CInv, EInv, Quiet PROVE EInv'
  <1> USE DEF UInv
  <1>1. Stack' = Stack /\ (~meddled' => ~meddled)
    BY AppFixed, MeddledStays, StepKinds, Zenon
  <1>2. CASE ExitDb \/ CommitFails
    <2>1. Exits("db")
      BY <1>2, Zenon DEF ExitDb, CommitFails, Exit, Exits
    <2> QED BY <1>1, <2>1, ExitsEnds, Zenon DEF Kind
  <1>3. CASE SkipBus \/ BusRaises
    <2>1. exc' = "none" => staged.now = 0 /\ staged.later = 0
      BY <1>3, Zenon DEF SkipBus, BusRaises, Exit
    <2>2. exc' = "none" => out.now = staged.now /\ out.later = staged.later
      BY <2>1 DEF TypeOK
    <2>3. Exits("bus")
      BY <1>3, <2>2, Zenon DEF SkipBus, BusRaises, Exit, Exits
    <2> QED BY <1>1, <2>3, ExitsEnds, Zenon DEF Kind
  <1>4. CASE FlushFails \/ ExitWs
    <2>1. Exits("ws")
      BY <1>4, Zenon DEF FlushFails, ExitWs, Exit, Exits
    <2> QED BY <1>1, <2>1, ExitsEnds, Zenon DEF Kind
  <1>5. CASE ExitApp
    <2>1. Exits("app")
      BY <1>5, Zenon DEF ExitApp, Exit, Exits
    <2> QED BY <1>1, <2>1, ExitsEnds, Zenon DEF Kind
  <1>6. CASE OpenBus \/ BrokerGoes \/ BrokerReturns
    <2>1. UNCHANGED <<phase, pos, exc, tx, staged, out, meddled>>
      BY <1>6, Zenon DEF OpenBus, BrokerGoes, BrokerReturns
    <2> QED BY <1>1, <2>1, Zenon
      DEF EInv, ActiveInside, StagedByDeclared, Declared, FlushedBehind,
            DoneAtEnd
  <1>7. CASE Finish
    <2>1. /\ phase = "exiting" /\ pos = 0 /\ phase' = "done"
          /\ UNCHANGED <<pos, exc, tx, staged, out, meddled>>
      BY <1>7, Zenon DEF Finish
    <2>2. exc = "none" /\ ~meddled => \A d \in 1..Len(Stack) : Stack[d] = "db" => tx = "committed"
      BY <2>1, StackShape DEF CInv, TxByPosition, TxAt, TypeOK
    <2> QED BY <1>1, <2>1, <2>2, Zenon DEF EInv, ActiveInside, StagedByDeclared, Declared,
            FlushedBehind, DoneAtEnd
  <1> QED BY <1>2, <1>3, <1>4, <1>5, <1>6, <1>7, Zenon DEF Quiet

LEMMA LoudEnds == ASSUME UInv, CInv, EInv, Loud PROVE EInv'
  <1> USE DEF UInv
  <1>1. Stack' = Stack /\ (~meddled' => ~meddled)
    BY AppFixed, MeddledStays, StepKinds, Zenon
  <1>2. CASE CommitBus
    <2>1. out.now = 0
      BY <1>2, NothingYet, Zenon DEF CommitBus
    <2>2. out'.now = out.inTx /\ out'.later = out.later /\ out'.ws = out.ws
      BY <1>2, <2>1, Committed, Zenon DEF CommitBus
    <2>3. exc = "none"
      BY <1>2, Zenon DEF CommitBus, CInv, BusInUse
    <2>4. Exits("bus")
      BY <1>2, <2>2, <2>3, Zenon DEF CommitBus, Exit, Exits
    <2> QED BY <1>1, <2>4, ExitsEnds DEF Kind
  <1>3. CASE PublishNext \/ EnqueueNext \/ BusFails \/ FlushNext
    <2>1. UNCHANGED <<phase, pos, exc, tx, staged, meddled>> /\ phase = "exiting"
      BY <1>3, Zenon DEF PublishNext, EnqueueNext, BusFails, FlushNext, Exiting
    <2>2. \/ Exiting("bus") /\ out'.ws = out.ws
          \/ Exiting("ws") /\ out'.now = out.now /\ out'.later = out.later
      BY <1>3, Zenon DEF PublishNext, EnqueueNext, BusFails, FlushNext, TypeOK
    <2>3. /\ Len(Stack) \in Nat /\ pos \in Nat
          /\ \A i, j \in 1..Len(Stack) : Stack[i] = Stack[j] => i = j
      BY StackShape DEF TypeOK
    <2>4. FlushedBehind'
      <3> SUFFICES ASSUME exc = "none", ~meddled, NEW i \in 1..Len(Stack), pos < i
                   PROVE  /\ Stack[i] = "bus" => out'.now = staged.now /\ out'.later = staged.later
                          /\ Stack[i] = "ws" => out'.ws = staged.ws
        BY <1>1, <2>1, Zenon DEF FlushedBehind
      <3>1. /\ Stack[i] = "bus" => out.now = staged.now /\ out.later = staged.later
            /\ Stack[i] = "ws" => out.ws = staged.ws
        BY <2>1, Zenon DEF EInv, FlushedBehind
      <3>2. Stack[i] # Stack[pos]
        BY <2>2, <2>3 DEF Exiting, TypeOK
      <3> QED BY <2>2, <3>1, <3>2, Zenon DEF Exiting
    <2> QED BY <1>1, <2>1, <2>4, Zenon
      DEF EInv, ActiveInside, StagedByDeclared, Declared, DoneAtEnd
  <1> QED BY <1>2, <1>3, Zenon DEF Loud

LEMMA EInit == Init => EInv
  <1> SUFFICES ASSUME Init PROVE EInv
    OBVIOUS
  <1>1. staged.now = 0 /\ staged.later = 0 /\ staged.ws = 0
    BY Zenon DEF Init
  <1> QED BY <1>1, Zenon
    DEF Init, EInv, ActiveInside, StagedByDeclared, FlushedBehind, DoneAtEnd

\* Nothing is staged before the handler runs, and a transaction that is open at the end is
\* one of a unit of work that did not come to its handler.
OpenAtEnd ==
  phase = "done" /\ tx = "active" => pos < Len(Stack) /\ exc = "error" /\ NothingStaged

OInv == (phase = "entering" => NothingStaged) /\ OpenAtEnd

LEMMA OpenKept == ASSUME UInv, EInv, OInv, [Next]_vars PROVE OInv'
  <1>1. CASE UNCHANGED vars
    <2>1. Stack' = Stack /\ UNCHANGED <<phase, pos, exc, tx, staged>>
      BY <1>1, AppFixed, Zenon DEF vars
    <2> QED BY <2>1, Zenon DEF OInv, OpenAtEnd, NothingStaged
  <1>2. CASE EnterFails
    <2>1. /\ phase = "entering" /\ phase' = "done" /\ exc' = "error" /\ pos < Len(Stack)
          /\ UNCHANGED <<pos, staged, app>>
      BY <1>2, Zenon DEF EnterFails
    <2> QED BY <2>1, Zenon DEF OInv, OpenAtEnd, NothingStaged, Stack
  <1>3. CASE Finish
    <2>1. pos = 0 /\ phase' = "done" /\ tx' = tx
      BY <1>3, Zenon DEF Finish
    <2>2. tx # "active"
      BY <2>1 DEF EInv, ActiveInside
    <2> QED BY <2>1, <2>2, Zenon DEF OInv, OpenAtEnd
  <1>4. CASE Enter \/ StartHandler
    <2>1. phase' # "done" /\ phase = "entering" /\ staged' = staged
      BY <1>4, Zenon DEF Enter, StartHandler
    <2> QED BY <2>1, Zenon DEF OInv, OpenAtEnd, NothingStaged
  <1>5. CASE BrokerGoes \/ BrokerReturns
    <2>1. UNCHANGED <<phase, pos, exc, tx, staged, app>>
      BY <1>5, Zenon DEF BrokerGoes, BrokerReturns
    <2> QED BY <2>1, Zenon DEF OInv, OpenAtEnd, NothingStaged, Stack
  <1>6. CASE \/ NoPublisher \/ HandlerEndsTx \/ HandlerSwallows \/ DatabaseError
             \/ HandlerReturns \/ HandlerRaises \/ HandlerCancelled
             \/ \E k \in {"now", "later", "ws"} : Stage(k)
    <2>1. phase' \in {"body", "exiting"}
      BY <1>6, Zenon DEF NoPublisher, HandlerEndsTx, HandlerSwallows, DatabaseError,
         HandlerReturns, HandlerRaises, HandlerCancelled, Stage, Raise, Leave
    <2> QED BY <2>1, Zenon DEF OInv, OpenAtEnd
  <1>7. CASE ExitDb \/ CommitFails \/ ExitBus \/ FlushNext \/ FlushFails \/ ExitWs \/ ExitApp
    <2>1. phase' = "exiting"
      BY <1>7, Zenon DEF ExitDb, CommitFails, ExitBus, SkipBus, OpenBus, PublishNext,
         EnqueueNext, CommitBus, BusFails, BusRaises, FlushNext, FlushFails, ExitWs, ExitApp, Exiting
    <2> QED BY <2>1, Zenon DEF OInv, OpenAtEnd
  <1> QED BY <1>1, <1>2, <1>3, <1>4, <1>5, <1>6, <1>7, Zenon DEF Next, Step

\* In every stack of interceptors: the transaction is open at the end only if an interceptor
\* could not be entered, which leaves nothing staged and an error for the caller; and
\* a unit of work that ends without an exception has committed and has sent all that
\* the handler staged, immediate, delayed and WebSocket messages, whatever the order of
\* the interceptors (UnitOfWorkContextProvider, the __aexit__ of the interceptors).
THEOREM EndsComplete == Spec => []EndedIsComplete
  <1>1. UInv /\ CInv /\ EInv /\ [Next]_vars => EInv'
    <2> SUFFICES ASSUME UInv, CInv, EInv, [Next]_vars PROVE EInv'
      BY Zenon
    <2>1. CASE UNCHANGED vars
      <3>1. Stack' = Stack /\ UNCHANGED <<phase, pos, exc, tx, staged, out, meddled>>
        BY <2>1, AppFixed, Zenon DEF vars
      <3> QED BY <3>1, Zenon
        DEF EInv, ActiveInside, StagedByDeclared, Declared, FlushedBehind, DoneAtEnd
    <2>2. CASE Next
      BY <2>2, StepKinds, EarlyEnds, QuietEnds, LoudEnds, StageEnds, Zenon
    <2> QED BY <2>1, <2>2, Zenon
  <1>2. UInv /\ EInv /\ OInv => EndedIsComplete
    <2> SUFFICES ASSUME UInv, EInv, OInv PROVE EndedIsComplete
      BY Zenon
    <2>0. Len(Stack) \in Nat /\ pos \in Nat
      BY StackShape, SMTT(30) DEF UInv, TypeOK
    <2>1. OpenOnlyIfEnterFailed
      <3> SUFFICES ASSUME phase = "done", tx = "active"
                   PROVE  pos \in 1..(Len(Stack) - 1) /\ Result = "error" /\ NothingStaged
        BY Zenon DEF OpenOnlyIfEnterFailed
      <3>1. pos < Len(Stack) /\ exc = "error" /\ NothingStaged
        BY Zenon DEF OInv, OpenAtEnd
      <3>2. PICK d \in 1..pos : Stack[d] = "db"
        BY Zenon DEF EInv, ActiveInside
      <3>3. pos \in 1..(Len(Stack) - 1)
        BY <2>0, <3>1, <3>2
      <3> QED BY <3>1, <3>3, Zenon DEF Result
    <2>2. SuccessIsComplete
      <3> SUFFICES ASSUME phase = "done", Result = "none", ~meddled
                   PROVE  /\ Declared("db") => tx = "committed"
                          /\ out.now = staged.now /\ out.later = staged.later /\ out.ws = staged.ws
        BY Zenon DEF SuccessIsComplete
      <3>1. exc = "none" /\ pos = 0
        BY Zenon DEF Result, EInv, DoneAtEnd
      <3>2. Declared("db") => tx = "committed"
        BY <3>1, Zenon DEF EInv, DoneAtEnd, Declared
      <3>3. Declared("bus") => out.now = staged.now /\ out.later = staged.later
        BY <2>0, <3>1 DEF EInv, FlushedBehind, Declared
      <3>4. Declared("ws") => out.ws = staged.ws
        BY <2>0, <3>1 DEF EInv, FlushedBehind, Declared
      <3>5. /\ ~Declared("bus") => out.now = staged.now /\ out.later = staged.later
            /\ ~Declared("ws") => out.ws = staged.ws
        BY DEF EInv, StagedByDeclared, UInv, TypeOK
      <3> QED BY <3>2, <3>3, <3>4, <3>5, Zenon
    <2> QED BY <2>1, <2>2, Zenon DEF EndedIsComplete
  <1>3. Init => OInv
    <2> SUFFICES ASSUME Init PROVE OInv
      OBVIOUS
    <2>1. phase = "entering" /\ staged.now = 0 /\ staged.later = 0 /\ staged.ws = 0
      BY Zenon DEF Init
    <2> QED BY <2>1, Zenon DEF OInv, OpenAtEnd, NothingStaged
  <1>4. UInv /\ EInv /\ OInv /\ [Next]_vars => OInv'
    BY OpenKept, Zenon
  <1> QED BY <1>1, <1>2, <1>3, <1>4, EInit, UowInductive, CommitInductive, PTL DEF Spec

-----------------------------------------------------------------------------
(* The unit of work implements the outbox.                                 *)

\* The refinement mapping, case by case.
LEMMA DbState ==
  /\ meddled => dbState = "waived"
  /\ ~meddled /\ tx = "committed" => dbState = "committed"
  /\ ~meddled /\ tx \in {"failed", "rolledback"} => dbState = "aborted"
  /\ ~meddled /\ tx \in {"absent", "active"} => dbState = "open"
  BY Zenon DEF dbState

LEMMA DbStateNext ==
  /\ meddled' => dbState' = "waived"
  /\ ~meddled' /\ tx' = "committed" => dbState' = "committed"
  /\ ~meddled' /\ tx' \in {"failed", "rolledback"} => dbState' = "aborted"
  /\ ~meddled' /\ tx' \in {"absent", "active"} => dbState' = "open"
  BY Zenon DEF dbState

\* A step that sends nothing ends the transaction, waives the promise or stutters.
LEMMA SilentRefines ==
  ASSUME CInv, TypeOK', Next, out' = out,
         ~meddled' => tx' = tx \/ tx = "active" \/ (tx = "absent" /\ tx' = "active"),
         meddled => meddled'
  PROVE  [Abstract!Next]_<<dbState, visibleAfterDb>>
  <1>1. visibleAfterDb' = visibleAfterDb
    BY AroundFixed, Zenon DEF visibleAfterDb
  <1>2. CASE meddled'
    BY <1>1, <1>2, DbStateNext, Zenon DEF Abstract!Next, Abstract!Waive
  <1>3. CASE ~meddled'
    <2>1. ~meddled
      BY <1>3, Zenon
    <2>2. tx \in {"absent", "active", "committed", "rolledback", "failed"}
          /\ tx' \in {"absent", "active", "committed", "rolledback", "failed"}
      BY Zenon DEF CInv, TypeOK
    <2>3. dbState' = dbState \/ (dbState = "open" /\ dbState' \in {"committed", "aborted"})
      BY <1>3, <2>1, <2>2, DbState, DbStateNext
    <2> QED BY <1>1, <2>3, Zenon DEF Abstract!Next, Abstract!Commit, Abstract!Abort
  <1> QED BY <1>2, <1>3, Zenon

\* A step that sends something is the outbox's Emit, or nobody was promised anything.
LEMMA LoudRefines ==
  ASSUME UInv, CInv, TypeOK', Loud
  PROVE  [Abstract!Next]_<<dbState, visibleAfterDb>>
  <1> USE DEF CInv
  <1>1. UNCHANGED <<tx, meddled>> /\ exc = "none"
    <2>1. CASE FlushNext
      BY <2>1, Zenon DEF FlushNext
    <2>2. CASE PublishNext \/ EnqueueNext \/ CommitBus \/ BusFails
      BY <2>2, Zenon DEF PublishNext, EnqueueNext, CommitBus, BusFails, BusInUse
    <2> QED BY <2>1, <2>2, Zenon DEF Loud
  <1>2. dbState' = dbState
    BY <1>1, Zenon DEF dbState
  <1>3. \A k, l : Around(k, l)' <=> Around(k, l)
    BY AroundFixed, StepKinds, Zenon
  <1> DEFINE b == IF Around("bus", "db") THEN out.now + out.later ELSE 0
             w == IF Around("ws", "db") THEN out.ws ELSE 0
  <1>4. visibleAfterDb = b + w /\ visibleAfterDb' = b' + w'
    BY Zenon DEF visibleAfterDb
  <1>o. /\ out.now \in Nat /\ out.later \in Nat /\ out.ws \in Nat
        /\ out'.now \in Nat /\ out'.later \in Nat /\ out'.ws \in Nat
    BY Zenon DEF TypeOK
  <1>5. b \in Nat /\ w \in Nat /\ b' \in Nat /\ w' \in Nat
    BY <1>o, SMTT(30)
  <1>6. \/ Exiting("ws") /\ b' = b /\ w' >= w /\ (w' > w => Around("ws", "db"))
        \/ Exiting("bus") /\ w' = w /\ b' >= b /\ (b' > b => Around("bus", "db"))
    <2>1. CASE FlushNext
      <3>1. out'.now = out.now /\ out'.later = out.later /\ out'.ws = out.ws + 1
        BY Zenon, <2>1 DEF FlushNext, TypeOK
      <3>2. Exiting("ws")
        BY <2>1, Zenon DEF FlushNext
      <3> QED BY <1>3, <1>o, <3>1, <3>2
    <2>2. CASE PublishNext \/ EnqueueNext \/ CommitBus \/ BusFails
      <3>1. Exiting("bus") /\ bus = "open"
        BY <2>2, Zenon DEF PublishNext, EnqueueNext, CommitBus, BusFails
      <3>2. out.now = 0
        BY <3>1, NothingYet, Zenon
      <3>3. out'.ws = out.ws /\ out'.now >= out.now /\ out'.later >= out.later
        <4>1. CASE out' = [out EXCEPT !.now = @ + out.inTx, !.inTx = 0]
          BY <3>2, <4>1, Committed DEF TypeOK
        <4>2. CASE out' = [out EXCEPT !.later = @ + 1]
          BY SMTT(30), <4>2 DEF TypeOK
        <4>3. ASSUME NEW n, out' = [out EXCEPT !.inTx = n]
              PROVE  out'.ws = out.ws /\ out'.now = out.now /\ out'.later = out.later
          BY <4>3, Zenon DEF TypeOK
        <4>4. CASE PublishNext
          BY <1>o, <4>3, <4>4 DEF PublishNext
        <4>5. CASE BusFails
          BY <1>o, <4>1, <4>3, <4>5 DEF BusFails
        <4> QED BY <2>2, <4>1, <4>2, <4>4, <4>5, Zenon DEF EnqueueNext, CommitBus
      <3>4. w' = w /\ (Around("bus", "db")' <=> Around("bus", "db"))
        BY <1>3, <3>3, Zenon
      <3>5. b' >= b /\ (b' > b => Around("bus", "db"))
        BY <1>o, <3>3, <3>4
      <3> QED BY <3>1, <3>4, <3>5, Zenon
    <2> QED BY <2>1, <2>2, Zenon DEF Loud
  <1>7. PICK b0, w0, b1, w1 \in Nat : b0 = b /\ w0 = w /\ b1 = b' /\ w1 = w'
    BY <1>5, Zenon
  <1>8. /\ visibleAfterDb = b0 + w0 /\ visibleAfterDb' = b1 + w1
        /\ \/ Exiting("ws") /\ b1 = b0 /\ w1 >= w0 /\ (w1 > w0 => Around("ws", "db"))
           \/ Exiting("bus") /\ w1 = w0 /\ b1 >= b0 /\ (b1 > b0 => Around("bus", "db"))
    BY <1>4, <1>6, <1>7, Zenon
  <1> HIDE DEF b, w
  <1>9. CASE visibleAfterDb' = visibleAfterDb
    BY <1>2, <1>9, Zenon
  <1>10. CASE visibleAfterDb' # visibleAfterDb
    <2>1. visibleAfterDb' \in Nat /\ visibleAfterDb' > visibleAfterDb
      BY <1>8, <1>10
    <2>2. \/ Exiting("ws") /\ Around("ws", "db")
          \/ Exiting("bus") /\ Around("bus", "db")
      BY <1>8, <1>10
    <2>3. ~meddled => tx = "committed"
      BY <1>1, <2>2, CommittedBelow, Zenon
    <2>4. dbState \in {"committed", "waived"}
      BY <2>3, DbState, Zenon
    <2> QED BY <1>2, <2>1, <2>4, Zenon DEF Abstract!Next, Abstract!Emit
  <1> QED BY <1>9, <1>10, Zenon

\* The unit of work, in every stack of interceptors and under every fault, implements
\* the outbox: its transaction ends once, and messages of the interceptors declared before
\* the session's leave only after it committed, unless the handler ends its transaction
\* itself or a failure is hidden.
THEOREM UnitIsOutbox == Spec => ImplementsOutbox
  <1>1. Init => Abstract!Init
    <2> SUFFICES ASSUME Init PROVE Abstract!Init
      OBVIOUS
    <2>1. out.now = 0 /\ out.later = 0 /\ out.ws = 0 /\ ~meddled /\ tx = "absent"
      BY Zenon DEF Init
    <2>2. dbState = "open"
      BY <2>1, DbState, Zenon
    <2>3. visibleAfterDb = 0
      BY <2>1 DEF visibleAfterDb
    <2> QED BY <2>2, <2>3, Zenon DEF Abstract!Init
  <1>2. UInv /\ CInv /\ TypeOK' /\ [Next]_vars => [Abstract!Next]_<<dbState, visibleAfterDb>>
    <2> SUFFICES ASSUME UInv, CInv, TypeOK', [Next]_vars
                 PROVE  [Abstract!Next]_<<dbState, visibleAfterDb>>
      BY Zenon
    <2>1. CASE UNCHANGED vars
      BY <2>1, AroundFixed, Zenon DEF vars, dbState, visibleAfterDb
    <2>2. ASSUME Next PROVE meddled => meddled'
      <3>1. CASE Early
        BY <3>1, Zenon DEF Early, Enter, EnterFails, StartHandler, NoPublisher, HandlerEndsTx,
               HandlerSwallows, DatabaseError, HandlerReturns, HandlerRaises, HandlerCancelled
      <3>2. CASE Quiet
        BY <3>2, Zenon
          DEF Quiet, ExitDb, CommitFails, SkipBus, OpenBus, BusRaises, FlushFails, ExitWs,
               ExitApp, Finish, BrokerGoes, BrokerReturns
      <3>3. CASE Loud
        BY <3>3, Zenon DEF Loud, PublishNext, EnqueueNext, CommitBus, BusFails, FlushNext
      <3>4. ASSUME NEW k \in {"now", "later", "ws"}, Stage(k) PROVE meddled' = meddled
        BY <3>4, Zenon DEF Stage
      <3> QED BY <2>2, <3>1, <3>2, <3>3, <3>4, StepKinds, Zenon
    <2>3. CASE Early
      <3>1. Next /\ out' = out /\ (meddled => meddled')
        BY <2>2, <2>3, StepKinds, Zenon DEF Early, Enter, EnterFails, StartHandler, NoPublisher,
           HandlerEndsTx, HandlerSwallows, DatabaseError, HandlerReturns, HandlerRaises,
           HandlerCancelled
      <3>2. ~meddled' => tx' = tx \/ tx = "active" \/ (tx = "absent" /\ tx' = "active")
        <4>1. CASE Enter
          <5> SUFFICES ASSUME ~meddled', Stack[pos + 1] = "db"
                       PROVE  tx = "absent" /\ tx' = "active"
            BY <4>1, Zenon DEF Enter
          <5>1. ~meddled /\ pos + 1 \in 1..Len(Stack) /\ ~(pos >= pos + 1) /\ phase = "entering"
            BY <3>1, <4>1, StackShape DEF Enter, UInv, TypeOK
          <5>2. TxAt(pos + 1)
            BY <5>1, Zenon DEF CInv, TxByPosition
          <5> QED BY <4>1, <5>1, <5>2, Zenon DEF TxAt, Enter
        <4>2. CASE ~Enter
          BY <2>3, <4>2, Zenon DEF Early, EnterFails, StartHandler, NoPublisher, HandlerEndsTx,
             HandlerSwallows, DatabaseError, HandlerReturns, HandlerRaises, HandlerCancelled
        <4> QED BY <4>1, <4>2, Zenon
      <3> QED BY <3>1, <3>2, SilentRefines, Zenon
    <2>4. CASE Quiet
      <3>1. Next /\ out' = out /\ (meddled => meddled')
        BY <2>2, <2>4, StepKinds, ZenonT(60)
          DEF Quiet, ExitDb, CommitFails, SkipBus, OpenBus, BusRaises,
           FlushFails, ExitWs, ExitApp, Finish, BrokerGoes, BrokerReturns
      <3>2. tx' = tx \/ tx = "active"
        BY <2>4, Zenon DEF Quiet, ExitDb, CommitFails, SkipBus, OpenBus, BusRaises,
           FlushFails, ExitWs, ExitApp, Finish, BrokerGoes, BrokerReturns
      <3> QED BY <3>1, <3>2, SilentRefines, Zenon
    <2>5. ASSUME NEW k \in {"now", "later", "ws"}, Stage(k)
          PROVE  [Abstract!Next]_<<dbState, visibleAfterDb>>
      <3>1. Next /\ out' = out /\ meddled' = meddled /\ tx' = tx
        BY <2>5, StepKinds, Zenon DEF Stage
      <3> QED BY <3>1, SilentRefines, Zenon
    <2>6. CASE Loud
      BY <2>6, LoudRefines, Zenon
    <2> QED BY <2>1, <2>3, <2>4, <2>5, <2>6, StepKinds, Zenon
  <1> QED BY <1>1, <1>2, UowTypeCorrect, UowInductive, CommitInductive, PTL
          DEF Spec, ImplementsOutbox, Abstract!Spec
=============================================================================
