---------------------------- MODULE HttpRequest -----------------------------
(***************************************************************************)
(* One HTTP request behind the client cancellation guard of                *)
(* src/jararaca/presentation/client_cancellation.py: the request task with *)
(* the unit of work dependency of presentation/server.py inside the guard, *)
(* the guard's watcher, a QueryGuard, the response marker, the client, and *)
(* a server that may cancel the request itself.                            *)
(*                                                                         *)
(* The request task is at an await in every state.  Task.cancel() makes a  *)
(* CancelledError pending, which the task meets when it next runs; FastAPI *)
(* tears the dependencies down after it has sent the response.             *)
(***************************************************************************)
EXTENDS Integers

CONSTANTS
  Guards,  \* how requests are guarded
  Foreign  \* whether the server cancels requests

ASSUME RequestAssumption ==
  /\ Guards \subseteq {"off", "on", "raise", "warn"}
  /\ Foreign \in BOOLEAN

VARIABLES
  guarded,      \* "off": not this method; "on"; "raise", "warn": without the marker
  where,        \* where the request task is
  exc,          \* the exception on its way through the dependencies
  answer,       \* the response
  uow,          \* the unit of work
  started,      \* scope["app.response_started"]
  wire,         \* http.response.start was handed to the server
  client,       \* whether the client still waits
  watcher,      \* the watcher task of the guard
  disconnected, \*   and its flag
  pending,      \* a CancelledError waits for the request task
  foreign,      \* the server cancelled the request
  query,        \* the task QueryGuard.run waits for
  lookout       \*   and its watcher

requestVars == <<guarded, where, exc, answer, uow, started, wire, client, watcher, disconnected,
                 pending, foreign, query, lookout>>

RequestTypeOK ==
  /\ guarded \in Guards
  /\ where \in {"entering", "endpoint", "query", "reaping", "responding", "sending", "teardown",
             "unwinding", "answering", "done"}
  /\ exc \in {"none", "error", "cancelled", "disconnected", "timeout"}
  /\ answer \in {"none", "ok", "499", "504", "500"}
  /\ uow \in {"absent", "open", "committed", "rolledback"}
  /\ started \in BOOLEAN /\ wire \in BOOLEAN
  /\ client \in {"here", "gone"}
  /\ watcher \in {"absent", "polling", "done"}
  /\ disconnected \in BOOLEAN
  /\ pending \in BOOLEAN /\ foreign \in BOOLEAN
  /\ query \in {"absent", "running", "cancelling", "done"}
  /\ lookout \in {"absent", "polling", "done"}

RequestInit ==
  /\ guarded \in Guards
  /\ where = "entering"
  /\ exc = "none"
  /\ answer = "none"
  /\ uow = "absent"
  /\ started = FALSE
  /\ wire = FALSE
  /\ client = "here"
  /\ watcher = "absent"
  /\ disconnected = FALSE
  /\ pending = FALSE
  /\ foreign = FALSE
  /\ query = "absent"
  /\ lookout = "absent"

-----------------------------------------------------------------------------
(* The dependencies and the endpoint.                                      *)

Runs(at) == where = at /\ ~pending

\* The guard is entered, then the unit of work.
EnterGuard ==
  /\ Runs("entering")
  /\ guarded # "raise"
  /\ watcher' = IF guarded = "on" THEN "polling" ELSE "absent"
  /\ uow' = "open"
  /\ where' = "endpoint"
  /\ UNCHANGED <<guarded, exc, answer, started, wire, client, disconnected, pending, foreign,
                 query, lookout>>

\* Without the marker the guard refuses to run.
GuardRefuses ==
  /\ Runs("entering")
  /\ guarded = "raise"
  /\ exc' = "error"
  /\ where' = "answering"
  /\ UNCHANGED <<guarded, answer, uow, started, wire, client, watcher, disconnected, pending,
                 foreign, query, lookout>>

EndpointReturns ==
  /\ Runs("endpoint")
  /\ where' = "responding"
  /\ UNCHANGED <<guarded, exc, answer, uow, started, wire, client, watcher, disconnected,
                 pending, foreign, query, lookout>>

\* HttpUowContextProviderDependency wraps what the endpoint raises, but for an
\* HTTPException and a ClientDisconnected.
EndpointRaises ==
  /\ Runs("endpoint")
  /\ exc' = "error"
  /\ where' = "unwinding"
  /\ UNCHANGED <<guarded, answer, uow, started, wire, client, watcher, disconnected, pending,
                 foreign, query, lookout>>

-----------------------------------------------------------------------------
(* QueryGuard.run.                                                         *)

EndpointQueries ==
  /\ Runs("endpoint")
  /\ query = "absent"
  /\ query' = "running"
  /\ lookout' = "polling"
  /\ where' = "query"
  /\ UNCHANGED <<guarded, exc, answer, uow, started, wire, client, watcher, disconnected,
                 pending, foreign>>

\* The query ends, by itself or because it was cancelled.
QueryEnds ==
  /\ query \in {"running", "cancelling"}
  /\ query' = "done"
  /\ UNCHANGED <<guarded, where, exc, answer, uow, started, wire, client, watcher, disconnected,
                 pending, foreign, lookout>>

\* _watch_disconnect.
LookoutSees ==
  /\ lookout = "polling"
  /\ client = "gone"
  /\ lookout' = "done"
  /\ UNCHANGED <<guarded, where, exc, answer, uow, started, wire, client, watcher, disconnected,
                 pending, foreign, query>>

\* The query is done when the task runs again: its result counts, or its exception.
QueryReturns ==
  /\ Runs("query")
  /\ query = "done"
  /\ lookout' = "done"
  /\ \/ where' = "endpoint" /\ exc' = exc
     \/ where' = "unwinding" /\ exc' = "error"
  /\ UNCHANGED <<guarded, answer, uow, started, wire, client, watcher, disconnected, pending,
                 foreign, query>>

\* Mutation of StopQuery: the cancelled query is not waited for.
StopQueryUnawaited(reason) ==
  /\ exc' = reason
  /\ query' = "cancelling"
  /\ lookout' = "done"
  /\ where' = "unwinding"
  /\ UNCHANGED <<guarded, answer, uow, started, wire, client, watcher, disconnected, foreign>>

\* Otherwise the finally clause cancels the query and waits for it.
StopQuery(reason) ==
  /\ exc' = reason
  /\ query' = "cancelling"
  /\ lookout' = "done"
  /\ where' = "reaping"
  /\ UNCHANGED <<guarded, answer, uow, started, wire, client, watcher, disconnected, foreign>>

QueryAbandoned ==
  /\ Runs("query")
  /\ query = "running"
  /\ lookout = "done"
  /\ StopQuery("disconnected")
  /\ UNCHANGED pending

QueryTimesOut ==
  /\ Runs("query")
  /\ query = "running"
  /\ lookout = "polling"
  /\ StopQuery("timeout")
  /\ UNCHANGED pending

\* The cancelled query is awaited; a CancelledError met meanwhile is suppressed.
QueryReaped ==
  /\ where = "reaping"
  /\ query = "done"
  /\ where' = "unwinding"
  /\ pending' = FALSE
  /\ UNCHANGED <<guarded, exc, answer, uow, started, wire, client, watcher, disconnected,
                 foreign, query, lookout>>

-----------------------------------------------------------------------------
(* The response.                                                           *)

AnswerTo(e) ==
  CASE e = "none" -> "ok" [] e = "disconnected" -> "499" [] e = "timeout" -> "504"
    [] OTHER -> "500"

\* Mutation of StartResponse: the marker does not see this message.
StartResponseUnmarked ==
  /\ Runs("responding") \/ Runs("answering")
  /\ UNCHANGED started
  /\ wire' = TRUE
  /\ answer' = AnswerTo(exc)
  /\ where' = "sending"
  /\ UNCHANGED <<guarded, exc, uow, client, watcher, disconnected, pending, foreign, query,
                 lookout>>

\* http.response.start goes out; ResponseStartedMarker flips the flag first.
StartResponse ==
  /\ Runs("responding") \/ Runs("answering")
  /\ started' = (guarded \notin {"raise", "warn"})
  /\ wire' = TRUE
  /\ answer' = AnswerTo(exc)
  /\ where' = "sending"
  /\ UNCHANGED <<guarded, exc, uow, client, watcher, disconnected, pending, foreign, query,
                 lookout>>

\* The response is sent: the dependencies are torn down, unless they already are.
SendEnds ==
  /\ Runs("sending")
  /\ where' = IF exc = "none" THEN "teardown" ELSE "done"
  /\ UNCHANGED <<guarded, exc, answer, uow, started, wire, client, watcher, disconnected,
                 pending, foreign, query, lookout>>

-----------------------------------------------------------------------------
(* The end of the dependencies: the unit of work, then the guard.          *)

\* The guard's except clause takes a cancellation for the client's if its flag is
\* set; its finally clause ends the watcher.
GuardExits(e) ==
  /\ exc' = IF e = "cancelled" /\ disconnected THEN "disconnected" ELSE e
  /\ watcher' = IF watcher = "polling" THEN "done" ELSE watcher
  /\ where' = IF wire \/ exc' \in {"none", "cancelled"} THEN "done" ELSE "answering"

Commit ==
  /\ Runs("teardown")
  /\ uow' = "committed"
  /\ GuardExits("none")
  /\ UNCHANGED <<guarded, answer, started, wire, client, disconnected, pending, foreign,
                 query, lookout>>

CommitFails ==
  /\ Runs("teardown")
  /\ uow' = "rolledback"
  /\ GuardExits("error")
  /\ UNCHANGED <<guarded, answer, started, wire, client, disconnected, pending, foreign,
                 query, lookout>>

Rollback ==
  /\ Runs("unwinding")
  /\ uow' = "rolledback"
  /\ GuardExits(exc)
  /\ UNCHANGED <<guarded, answer, started, wire, client, disconnected, pending, foreign,
                 query, lookout>>

-----------------------------------------------------------------------------
(* The CancelledError reaches the request task.                            *)

\* In the endpoint, or while the response is produced: it unwinds the dependencies.
CancelledInside ==
  /\ pending
  /\ where \in {"endpoint", "responding"} \/ (where = "sending" /\ exc = "none")
  /\ pending' = FALSE
  /\ exc' = "cancelled"
  /\ where' = "unwinding"
  /\ UNCHANGED <<guarded, answer, uow, started, wire, client, watcher, disconnected, foreign,
                 query, lookout>>

CancelledInQuery ==
  /\ pending
  /\ where = "query"
  /\ pending' = FALSE
  /\ IF query = "done"
       THEN /\ exc' = "cancelled" /\ where' = "unwinding" /\ lookout' = "done"
            /\ UNCHANGED <<guarded, answer, uow, started, wire, client, watcher, disconnected,
                           foreign, query>>
       ELSE StopQuery("cancelled")

\* While the unit of work ends: a commit may have happened or not.
CancelledInTeardown ==
  /\ pending
  /\ where \in {"teardown", "unwinding"}
  /\ pending' = FALSE
  /\ uow' \in IF where = "teardown" THEN {"committed", "rolledback"} ELSE {"rolledback"}
  /\ GuardExits("cancelled")
  /\ UNCHANGED <<guarded, answer, started, wire, client, disconnected, foreign, query, lookout>>

\* Outside the guard, nothing is left to unwind.
CancelledOutside ==
  /\ pending
  /\ where \in {"entering", "answering"} \/ (where = "sending" /\ exc # "none")
  /\ pending' = FALSE
  /\ exc' = "cancelled"
  /\ where' = "done"
  /\ UNCHANGED <<guarded, answer, uow, started, wire, client, watcher, disconnected, foreign,
                 query, lookout>>

-----------------------------------------------------------------------------
(* The watcher, the client and the server.                                 *)

\* The server also reports a disconnect once the response is complete.
ReportsDisconnect == client = "gone" \/ (wire /\ where # "sending")

\* Mutation of Watch: the request is not cancelled.
WatchOnly ==
  /\ watcher = "polling"
  /\ ReportsDisconnect
  /\ watcher' = "done"
  /\ disconnected' = ~started
  /\ UNCHANGED pending
  /\ UNCHANGED <<guarded, where, exc, answer, uow, started, wire, client, foreign, query, lookout>>

\* is_disconnected() returned True: the flag is read and the request cancelled
\* without an await in between.
Watch ==
  /\ watcher = "polling"
  /\ ReportsDisconnect
  /\ watcher' = "done"
  /\ disconnected' = ~started
  /\ pending' = (pending \/ ~started)
  /\ UNCHANGED <<guarded, where, exc, answer, uow, started, wire, client, foreign, query, lookout>>

ClientLeaves ==
  /\ client = "here"
  /\ client' = "gone"
  /\ UNCHANGED <<guarded, where, exc, answer, uow, started, wire, watcher, disconnected, pending,
                 foreign, query, lookout>>

\* For example a server that shuts down.
ServerCancels ==
  /\ Foreign /\ ~foreign
  /\ where # "done"
  /\ foreign' = TRUE
  /\ pending' = TRUE
  /\ UNCHANGED <<guarded, where, exc, answer, uow, started, wire, client, watcher, disconnected,
                 query, lookout>>

-----------------------------------------------------------------------------
\* What the event loop does by itself, the endpoint and the query apart.
Unwinds ==
  \/ EnterGuard \/ GuardRefuses
  \/ QueryReturns \/ QueryAbandoned \/ QueryReaped
  \/ StartResponse \/ SendEnds
  \/ Commit \/ CommitFails \/ Rollback
  \/ CancelledInside \/ CancelledInQuery \/ CancelledInTeardown \/ CancelledOutside

RequestNext ==
  \/ Unwinds
  \/ EndpointReturns \/ EndpointRaises \/ EndpointQueries
  \/ QueryEnds \/ QueryTimesOut \/ LookoutSees
  \/ Watch \/ ClientLeaves \/ ServerCancels

RequestSpec == RequestInit /\ [][RequestNext]_requestVars

\* The event loop runs what is ready and the watchers poll, all of it a finite number of
\* times.  A query that is cancelled ends; neither the endpoint nor its query need ever
\* end by themselves.
Goes == Unwinds \/ Watch \/ LookoutSees \/ (query = "cancelling" /\ QueryEnds)

RequestFairness == WF_requestVars(Goes)

-----------------------------------------------------------------------------
(* Properties.                                                             *)

\* The watcher never cancels a request whose response has started, although the server
\* then reports a disconnect as the end of the cycle; so the teardown of a request that
\* succeeded completes: its unit of work commits, unless the server cancels the request or
\* the commit itself fails.
TeardownCompletes ==
  where = "done" /\ answer = "ok" /\ ~foreign => uow = "committed" \/ exc = "error"

\* A request is answered with 499 only if its client left, and then its unit of work
\* is rolled back.
AbandonedLeavesNothing == answer = "499" => client = "gone" /\ uow = "rolledback"

\* The answer tells what became of the unit of work.
AnswerTellsOutcome == RequestTypeOK /\ TeardownCompletes /\ AbandonedLeavesNothing

\* QueryGuard.run never leaves a query behind, however it ends.
QueriesReaped == where \notin {"query", "reaping"} => query \in {"absent", "done"}

\* No watcher outlives its request.
WatchersEnd == where = "done" => watcher # "polling" /\ lookout # "polling"

\* A request leaves no task behind.
NothingLeftBehind == QueriesReaped /\ WatchersEnd

Abandoned == guarded = "on" /\ client = "gone"
RequestOver == where = "done"

\* A guarded request whose client leaves comes to an end, even if the endpoint and
\* its query never would.
AbandonedEnds == Abandoned ~> RequestOver
=============================================================================
