---------------------------- MODULE UnitOfWork -----------------------------
(***************************************************************************)
(* One unit of work: the interceptors that UnitOfWorkContextProvider       *)
(* (src/jararaca/core/uow.py) wraps around a handler, entered in the order *)
(* they are declared and left in the reverse order.                        *)
(*                                                                         *)
(*   "db"   AIOSqlAlchemySessionInterceptor: commits or rolls back         *)
(*   "bus"  MessageBusPublisherInterceptor: publishes what was staged      *)
(*   "ws"   WebSocketInterceptor: flushes the staged WebSocket messages    *)
(*   "app"  an interceptor of the application                              *)
(***************************************************************************)
EXTENDS Integers, Sequences

CONSTANTS
  Apps,       \* the applications: how they declare their interceptors
  MaxStaged,  \* how many messages of a kind a handler stages (a bound)
  HandlerOps, \* what handlers do to their session by themselves
  Faults      \* what may fail

Kind == {"db", "bus", "ws", "app"}

ASSUME UowAssumption ==
  /\ Apps \subseteq [stack : Seq(Kind), context : {"http", "worker"}, atEnd : BOOLEAN]
  /\ \A a \in Apps : \A i, j \in 1..Len(a.stack) : a.stack[i] = a.stack[j] => i = j
  /\ MaxStaged \in Nat
  /\ HandlerOps \subseteq {"commit", "rollback", "swallow", "suppress"}
  /\ Faults \subseteq {"enter", "raise", "cancel", "database", "broker", "ws", "app"}

VARIABLES
  app,    \* the application
  phase,  \* entering the interceptors, running the handler, exiting, done
  pos,    \* how many interceptors are entered and not yet exited
  exc,    \* the exception handed to the next __aexit__
  raised, \* the exception that left the handler
  tx,     \* the database transaction
  staged, \* messages staged by the handler
  out,    \* messages others can see, and the ones inside the AMQP transaction
  bus,    \* the publisher's channel
  broker, \* whether RabbitMQ can be reached
  meddled \* history: the handler ended its transaction itself, or a failure was
          \* hidden from the interceptors

vars == <<app, phase, pos, exc, raised, tx, staged, out, bus, broker, meddled>>

\* The interceptors in the order they are declared.
Stack == app.stack

\* "http", or "worker": handle_message catches what a handler raises.
Context == app.context

\* open_connection_at_end_of_transaction.
AtEnd == app.atEnd

Declared(k) == \E i \in 1..Len(Stack) : Stack[i] = k

Outcome == {"none", "error", "cancelled"}

TypeOK ==
  /\ app \in Apps
  /\ phase \in {"entering", "body", "exiting", "done"}
  /\ pos \in 0..Len(Stack)
  /\ exc \in Outcome
  /\ raised \in Outcome
  /\ tx \in {"absent", "active", "committed", "rolledback", "failed"}
  /\ staged \in [now : Nat, later : Nat, ws : Nat]
  /\ out \in [inTx : Nat, now : Nat, later : Nat, ws : Nat]
  /\ bus \in {"closed", "open", "reacquiring"}
  /\ broker \in {"up", "down"}
  /\ meddled \in BOOLEAN
  /\ phase = "body" => pos = Len(Stack)
  /\ out.now <= staged.now /\ out.inTx <= staged.now
  /\ out.later <= staged.later /\ out.ws <= staged.ws

Init ==
  /\ app \in Apps
  /\ phase = "entering"
  /\ pos = 0
  /\ exc = "none"
  /\ raised = "none"
  /\ tx = "absent"
  /\ staged = [now |-> 0, later |-> 0, ws |-> 0]
  /\ out = [inTx |-> 0, now |-> 0, later |-> 0, ws |-> 0]
  /\ bus = "closed"
  /\ broker = "up"
  /\ meddled = FALSE

-----------------------------------------------------------------------------
(* Entering.                                                               *)

Enter ==
  /\ phase = "entering"
  /\ pos < Len(Stack)
  /\ pos' = pos + 1
  /\ tx' = IF Stack[pos + 1] = "db" THEN "active" ELSE tx
  /\ UNCHANGED <<app, phase, exc, raised, staged, out, bus, broker, meddled>>

\* An __aenter__ raises: what is already entered is not exited.
EnterFails ==
  /\ "enter" \in Faults
  /\ phase = "entering"
  /\ pos < Len(Stack) /\ Stack[pos + 1] = "app"
  /\ phase' = "done"
  /\ exc' = "error"
  /\ UNCHANGED <<app, pos, raised, tx, staged, out, bus, broker, meddled>>

StartHandler ==
  /\ phase = "entering"
  /\ pos = Len(Stack)
  /\ phase' = "body"
  /\ UNCHANGED <<app, pos, exc, raised, tx, staged, out, bus, broker, meddled>>

-----------------------------------------------------------------------------
(* The handler.                                                            *)

\* The handler ends with outcome e.
Leave(e) ==
  /\ phase' = "exiting"
  /\ exc' = e
  /\ raised' = e

\* A handler's exception reaches the interceptors, unless handle_message catches it.
Raise == Leave(IF Context = "worker" THEN "none" ELSE "error")

\* use_publisher().publish or delay, or use_ws_message_sender().send.
Stage(k) ==
  /\ phase = "body"
  /\ IF k = "ws" THEN Declared("ws") ELSE Declared("bus") /\ AtEnd
  /\ staged[k] < MaxStaged
  /\ staged' = [staged EXCEPT ![k] = @ + 1]
  /\ UNCHANGED <<app, phase, pos, exc, raised, tx, out, bus, broker, meddled>>

\* use_publisher() finds no publisher: by default it is provided after the handler.
NoPublisher ==
  /\ phase = "body"
  /\ Declared("bus") /\ ~AtEnd
  /\ Raise
  /\ UNCHANGED <<app, pos, tx, staged, out, bus, broker, meddled>>

\* session.commit() or session.rollback() in the handler.  The session refuses
\* further statements until the interceptor leaves its begin() block.
HandlerEndsTx ==
  /\ phase = "body"
  /\ tx = "active"
  /\ \/ "commit" \in HandlerOps /\ tx' = "committed"
     \/ "rollback" \in HandlerOps /\ tx' = "rolledback"
  /\ meddled' = TRUE
  /\ UNCHANGED <<app, phase, pos, exc, raised, staged, out, bus, broker>>

\* A flush fails, which deactivates the transaction, and the handler swallows the
\* error.
HandlerSwallows ==
  /\ "swallow" \in HandlerOps
  /\ phase = "body"
  /\ tx = "active"
  /\ tx' = "failed"
  /\ meddled' = TRUE
  /\ UNCHANGED <<app, phase, pos, exc, raised, staged, out, bus, broker>>

\* A flush fails and the handler lets the error through.
DatabaseError ==
  /\ "database" \in Faults
  /\ phase = "body"
  /\ tx = "active"
  /\ tx' = "failed"
  /\ Raise
  /\ meddled' = (meddled \/ Context = "worker")
  /\ UNCHANGED <<app, pos, staged, out, bus, broker>>

HandlerReturns ==
  /\ phase = "body"
  /\ Leave("none")
  /\ UNCHANGED <<app, pos, tx, staged, out, bus, broker, meddled>>

HandlerRaises ==
  /\ "raise" \in Faults
  /\ phase = "body"
  /\ Raise
  /\ UNCHANGED <<app, pos, tx, staged, out, bus, broker, meddled>>

\* The request is cancelled; in the worker the timeout context turns it into an error.
HandlerCancelled ==
  /\ "cancel" \in Faults
  /\ phase = "body"
  /\ Leave(IF Context = "worker" THEN "error" ELSE "cancelled")
  /\ UNCHANGED <<app, pos, tx, staged, out, bus, broker, meddled>>

-----------------------------------------------------------------------------
(* Exiting, in reverse order.                                              *)

Exiting(k) == phase = "exiting" /\ pos > 0 /\ Stack[pos] = k

\* The innermost interceptor is exited, and the next one is handed e.
Exit(e) == pos' = pos - 1 /\ exc' = e

\* Mutation of CommitFails: the error of the commit is not passed on.
CommitFailsSilently ==
  /\ "database" \in Faults
  /\ Exiting("db") /\ exc = "none" /\ tx = "active"
  /\ tx' = "failed"
  /\ Exit("none")
  /\ UNCHANGED <<app, phase, raised, staged, out, bus, broker, meddled>>

\* The commit fails: the exception replaces "no exception" for the outer ones.
CommitFails ==
  /\ "database" \in Faults
  /\ Exiting("db") /\ exc = "none" /\ tx = "active"
  /\ tx' = "failed"
  /\ Exit("error")
  /\ UNCHANGED <<app, phase, raised, staged, out, bus, broker, meddled>>

\* Mutation of ExitDb: the transaction is committed in a finally.
ExitDbCommitting ==
  /\ Exiting("db")
  /\ tx' = IF tx = "active" THEN "committed" ELSE tx
  /\ Exit(exc)
  /\ UNCHANGED <<app, phase, raised, staged, out, bus, broker, meddled>>

\* Mutation of ExitDb: the session is rolled back on an Exception, not on a cancellation.
ExitDbExceptCancelled ==
  /\ Exiting("db")
  /\ tx' = CASE tx = "active" /\ exc = "none" -> "committed"
             [] tx = "active" /\ exc = "error" -> "rolledback"
             [] OTHER -> tx
  /\ Exit(exc)
  /\ UNCHANGED <<app, phase, raised, staged, out, bus, broker, meddled>>

\* Commit when there is no exception, else roll back; either only if the
\* transaction is still active.  Closing the session drops what is left.
ExitDb ==
  /\ Exiting("db")
  /\ tx' = IF tx = "active" THEN IF exc = "none" THEN "committed" ELSE "rolledback" ELSE tx
  /\ Exit(exc)
  /\ UNCHANGED <<app, phase, raised, staged, out, bus, broker, meddled>>

\* There is an exception, or nothing to publish.
SkipBus ==
  /\ Exiting("bus") /\ bus = "closed"
  /\ exc # "none" \/ (AtEnd /\ staged.now = 0 /\ staged.later = 0)
  /\ Exit(exc)
  /\ UNCHANGED <<app, phase, raised, tx, staged, out, bus, broker, meddled>>

\* provide_connection: connecting is retried for as long as it takes.
OpenBus ==
  /\ Exiting("bus") /\ bus = "closed"
  /\ exc = "none" /\ ~(AtEnd /\ staged.now = 0 /\ staged.later = 0)
  /\ broker = "up"
  /\ bus' = "open"
  /\ UNCHANGED <<app, phase, pos, exc, raised, tx, staged, out, broker, meddled>>

\* flush: the messages go into the AMQP transaction, one by one.
PublishNext ==
  /\ Exiting("bus") /\ bus = "open" /\ broker = "up"
  /\ out.inTx < staged.now
  /\ out' = [out EXCEPT !.inTx = @ + 1]
  /\ UNCHANGED <<app, phase, pos, exc, raised, tx, staged, bus, broker, meddled>>

\* Then the delayed ones are enqueued in Redis, outside of that transaction.
EnqueueNext ==
  /\ Exiting("bus") /\ bus = "open"
  /\ out.inTx = staged.now
  /\ out.later < staged.later
  /\ out' = [out EXCEPT !.later = @ + 1]
  /\ UNCHANGED <<app, phase, pos, exc, raised, tx, staged, bus, broker, meddled>>

CommitBus ==
  /\ Exiting("bus") /\ bus = "open" /\ broker = "up"
  /\ out.inTx = staged.now /\ out.later = staged.later
  /\ out' = [out EXCEPT !.now = @ + out.inTx, !.inTx = 0]
  /\ bus' = "closed"
  /\ Exit("none")
  /\ UNCHANGED <<app, phase, raised, tx, staged, broker, meddled>>

\* A step of the flush fails: the AMQP transaction is gone, and acquire_channel
\* starts another attempt before the error gets through.  A tx.commit whose answer
\* is lost may have been carried out.
BusFails ==
  /\ "broker" \in Faults
  /\ Exiting("bus") /\ bus = "open"
  /\ \/ out' = [out EXCEPT !.inTx = 0]
     \/ /\ out.inTx = staged.now /\ out.later = staged.later
        /\ out' = [out EXCEPT !.now = @ + out.inTx, !.inTx = 0]
  /\ bus' = "reacquiring"
  /\ UNCHANGED <<app, phase, pos, exc, raised, tx, staged, broker, meddled>>

\* The new attempt gets its channel and finds the generator already thrown into.
BusRaises ==
  /\ Exiting("bus") /\ bus = "reacquiring" /\ broker = "up"
  /\ bus' = "closed"
  /\ Exit("error")
  /\ UNCHANGED <<app, phase, raised, tx, staged, out, broker, meddled>>

\* Mutation of FlushNext: messages are sent although there is an exception.
FlushNextAnyway ==
  /\ Exiting("ws")
  /\ out.ws < staged.ws
  /\ out' = [out EXCEPT !.ws = @ + 1]
  /\ UNCHANGED <<app, phase, pos, exc, raised, tx, staged, bus, broker, meddled>>

\* StagingWebSocketMessageSender.flush, message by message.
FlushNext ==
  /\ Exiting("ws") /\ exc = "none"
  /\ out.ws < staged.ws
  /\ out' = [out EXCEPT !.ws = @ + 1]
  /\ UNCHANGED <<app, phase, pos, exc, raised, tx, staged, bus, broker, meddled>>

FlushFails ==
  /\ "ws" \in Faults
  /\ Exiting("ws") /\ exc = "none"
  /\ out.ws < staged.ws
  /\ Exit("error")
  /\ UNCHANGED <<app, phase, raised, tx, staged, out, bus, broker, meddled>>

ExitWs ==
  /\ Exiting("ws")
  /\ exc # "none" \/ out.ws = staged.ws
  /\ Exit(exc)
  /\ UNCHANGED <<app, phase, raised, tx, staged, out, bus, broker, meddled>>

\* An application's interceptor passes the outcome on, raises, or suppresses it.
ExitApp ==
  /\ Exiting("app")
  /\ \/ Exit(exc) /\ UNCHANGED meddled
     \/ "app" \in Faults /\ Exit("error") /\ UNCHANGED meddled
     \/ "suppress" \in HandlerOps /\ exc # "none" /\ Exit("none") /\ meddled' = TRUE
  /\ UNCHANGED <<app, phase, raised, tx, staged, out, bus, broker>>

\* All interceptors are exited.
Finish ==
  /\ phase = "exiting"
  /\ pos = 0
  /\ phase' = "done"
  /\ UNCHANGED <<app, pos, exc, raised, tx, staged, out, bus, broker, meddled>>

\* What the caller gets: the exception of the exit loop, or else the handler's,
\* which the except clause is still raising when the finally clause ends.
Result == IF exc # "none" THEN exc ELSE raised

BrokerGoes ==
  /\ "broker" \in Faults
  /\ broker = "up" /\ phase # "done"
  /\ broker' = "down"
  /\ UNCHANGED <<app, phase, pos, exc, raised, tx, staged, out, bus, meddled>>

BrokerReturns ==
  /\ broker = "down"
  /\ broker' = "up"
  /\ UNCHANGED <<app, phase, pos, exc, raised, tx, staged, out, bus, meddled>>

ExitBus ==
  \/ SkipBus \/ OpenBus \/ PublishNext \/ EnqueueNext \/ CommitBus \/ BusFails \/ BusRaises

Step ==
  \/ Enter \/ EnterFails \/ StartHandler
  \/ NoPublisher \/ HandlerEndsTx \/ HandlerSwallows
  \/ \E k \in {"now", "later", "ws"} : Stage(k)
  \/ DatabaseError \/ HandlerReturns \/ HandlerRaises \/ HandlerCancelled
  \/ ExitDb \/ CommitFails \/ ExitBus \/ FlushNext \/ FlushFails \/ ExitWs \/ ExitApp
  \/ Finish

Next == Step \/ BrokerGoes \/ BrokerReturns

Spec == Init /\ [][Next]_vars

\* The handler ends, the steps of the unit of work are taken, and the broker is
\* there often enough.
FairSpec ==
  /\ Spec
  /\ WF_vars(Enter \/ StartHandler) /\ WF_vars(HandlerReturns)
  /\ WF_vars(ExitDb) /\ WF_vars(SkipBus) /\ WF_vars(EnqueueNext)
  /\ WF_vars(FlushNext) /\ WF_vars(ExitWs) /\ WF_vars(ExitApp) /\ WF_vars(Finish)
  /\ SF_vars(OpenBus) /\ SF_vars(PublishNext) /\ SF_vars(CommitBus) /\ SF_vars(BusRaises)
  /\ WF_vars(BrokerReturns)

-----------------------------------------------------------------------------
(* Properties.                                                             *)

\* Interceptor k is declared before, and so exited after, interceptor l.
Around(k, l) == \E i, j \in 1..Len(Stack) : i < j /\ Stack[i] = k /\ Stack[j] = l

Visible == out.now + out.later + out.ws

\* "Only after successful database commit, messages are published to the message
\* broker", in every stack whose publisher interceptor is declared before the
\* session's: whatever a consumer or the beat can see was preceded by the commit.
PublishedAfterCommit ==
  Around("bus", "db") /\ ~meddled => (out.now + out.later > 0 => tx = "committed")

\* The same of WebSocket messages, when their interceptor is declared before the
\* session's.
WsAfterCommit == Around("ws", "db") /\ ~meddled => (out.ws > 0 => tx = "committed")

\* What others can see of a unit of work was preceded by its commit.
EffectsAfterCommit == PublishedAfterCommit /\ WsAfterCommit

\* A unit of work that succeeds is complete: committed, and everything that was
\* staged is out, whatever the order of its interceptors.
SuccessIsComplete ==
  phase = "done" /\ Result = "none" /\ ~meddled =>
    /\ Declared("db") => tx = "committed"
    /\ out.now = staged.now /\ out.later = staged.later /\ out.ws = staged.ws

\* A handler whose exception reaches the interceptors leaves nothing behind.
FailedHandlerLeavesNothing ==
  raised # "none" /\ ~meddled => tx # "committed" /\ Visible = 0

NothingStaged == staged.now = 0 /\ staged.later = 0 /\ staged.ws = 0

\* A unit of work leaves its transaction open at the end only if the __aenter__ of an
\* interceptor declared after the session's raised (what was entered before it is not
\* exited): then the caller gets the error, and the handler, which never ran, staged
\* nothing.
OpenOnlyIfEnterFailed ==
  phase = "done" /\ tx = "active" =>
    /\ pos \in 1..(Len(Stack) - 1)
    /\ Result = "error" /\ NothingStaged

\* A unit of work that succeeded leaves nothing undone, and one whose handler ran leaves no
\* transaction open.
EndedIsComplete == SuccessIsComplete /\ OpenOnlyIfEnterFailed

\* The unit of work ends, whatever the broker does in between.
Finishes == <>(phase = "done")

-----------------------------------------------------------------------------
(* What the interceptors promise, as an abstract specification: the        *)
(* messages are those of the interceptors declared before the session's.   *)

dbState == CASE meddled -> "waived"
             [] ~meddled /\ tx = "committed" -> "committed"
             [] ~meddled /\ tx \in {"failed", "rolledback"} -> "aborted"
             [] OTHER -> "open"

visibleAfterDb ==
  (IF Around("bus", "db") THEN out.now + out.later ELSE 0)
    + (IF Around("ws", "db") THEN out.ws ELSE 0)

Abstract == INSTANCE Outbox WITH db <- dbState, visible <- visibleAfterDb

\* The unit of work implements the outbox.
ImplementsOutbox == Abstract!Spec

\* It does, and it ends.
FinishesAsOutbox == ImplementsOutbox /\ Finishes
=============================================================================
