---------------------------- MODULE MCApplication ----------------------------
(***************************************************************************)
(* Parts of an application that do not share state, for TLC: its start and *)
(* end, one request, its HTTP clients, the retry loop, the --reload mode,  *)
(* a listing read page by page and the beat workers that share a lock.  A  *)
(* behaviour is one of one part, chosen initially; the others stay in an   *)
(* initial state.  The fairness is the one of the part that runs.          *)
(***************************************************************************)
EXTENDS HttpRequest, RpcClient, RetryBackoff, AppStartup, ReloadWatcher,
        PagedQuery, BeatScheduler

CONSTANTS c1, c2, b1, b2

VARIABLE part

applicationVars ==
  <<part, requestVars, rpcVars, retryVars, appVars, reloadVars, pageVars, vars>>

-----------------------------------------------------------------------------
\* Two GETs that differ in their bodies only, and a POST.
RequestKey == [r \in Request |-> IF r = "body" THEN "get" ELSE r]

ThreeClients ==
  {[retries |-> TRUE, attempts |-> 3, cache |-> "none", handled |-> TRUE],
   [retries |-> TRUE, attempts |-> 0, cache |-> "first", handled |-> FALSE],
   [retries |-> FALSE, attempts |-> 0, cache |-> "last", handled |-> FALSE]}

\* The settings are needed by nearly everything; x and y need each other.
NeedsOf ==
  [i \in Item |-> CASE i \in {"repo", "auth"} -> <<"settings">>
                    [] i = "users" -> <<"repo", "settings">>
                    [] i = "report" -> <<"repo">>
                    [] i = "x" -> <<"y">>
                    [] i = "y" -> <<"x">>
                    [] OTHER -> <<>>]

\* In order; with a provider listed after one that needs it, through another; with a cycle;
\* with values, a provider of nothing and instances of interceptors; with a bare type.
FiveApps ==
  {[before |-> StepsOf("provide", <<"settings", "repo", "auth">>),
    interceptors |-> StepsOf("enter", <<"auth", "repo">>),
    after |-> StepsOf("provide", <<"report">>), controllers |-> <<"report", "users">>],
   [before |-> StepsOf("provide", <<"report", "settings">>),
    interceptors |-> StepsOf("resolve", <<"auth">>), after |-> <<>>, controllers |-> <<"users">>],
   [before |-> <<>>, interceptors |-> StepsOf("enter", <<"auth">>),
    after |-> <<>>, controllers |-> <<"users", "x">>],
   [before |-> StepsOf("value", <<"settings">>) \o StepsOf("nothing", <<"repo">>),
    interceptors |-> StepsOf("enterInstance", <<"auth", "repo">>) \o StepsOf("instance", <<"x">>),
    after |-> StepsOf("value", <<"report">>), controllers |-> <<"report", "users">>],
   [before |-> StepsOf("provide", <<"settings">>) \o StepsOf("bare", <<"repo">>),
    interceptors |-> <<>>, after |-> <<>>, controllers |-> <<"users">>]}

\* Queries on one column, in the order of creation, two rows a page.
On(type, models) ==
  [kind |-> type, filters |-> models, criteria |-> <<>>, sorts |-> <<>>, dated |-> "asc",
   size |-> 2, count |-> "total_over"]

Model(o, l, r) == [field |-> "cell", op |-> o, list |-> l, raw |-> r]

\* Both directions, one row a page and two, the three ways to count, an order by the
\* column, and none.
Walks ==
  {[On("int", <<>>) EXCEPT !.dated = d, !.size = n, !.count = c] :
     d \in {"asc", "desc"}, n \in 1..2, c \in {"total_over", "count_subquery", "none"}}
  \cup {[On("int", <<Model(">=", FALSE, <<1>>)>>)
           EXCEPT !.dated = "no", !.count = c,
                  !.sorts = <<[field |-> "cell", direction |-> "desc"],
                              [field |-> "created", direction |-> "asc"]>>] :
         c \in {"total_over", "count_subquery"}}
  \cup {[On("int", <<>>) EXCEPT !.dated = "no"]}

\* Every type of column with its operators, and with values that do not fit.
Filtered ==
  {On("str", <<Model(o, FALSE, <<1>>)>>) :
     o \in {"contains", "equals", "isEmpty", "startsWith", "endsWith", "isAnyOf"}}
  \cup {On("date", <<Model(o, FALSE, <<1>>)>>) : o \in {"is", "after", "before", "isEmpty"}}
  \cup {On("int", <<Model(o, FALSE, <<1>>)>>) : o \in {"=", "<", ">", "is"}}
  \cup {On("uuid", <<Model(o, FALSE, r)>>) : o \in {"is", "isEmpty"}, r \in {<<1>>, <<>>, <<Junk>>}}
  \cup {On("bool", <<Model("is", FALSE, <<1>>)>>), On("bool", <<Model("is", TRUE, <<Blank>>)>>),
        On("int", <<Model("isAnyOf", TRUE, <<Junk, 1>>)>>),
        On("date", <<Model("after", TRUE, <<Blank>>)>>),
        [On("int", <<>>) EXCEPT !.sorts = <<[field |-> "other", direction |-> "asc"]>>],
        [On("date", <<>>) EXCEPT !.criteria = <<[type |-> "date", op |-> "lte", value |-> 1]>>],
        [On("str", <<>>) EXCEPT !.criteria = <<[type |-> "str", exact |-> FALSE, value |-> 1]>>]}

WalksAndFilters == Walks \cup Filtered

\* One action that fires at every other tick.
OneCron == <<{1, 3}>>

\* A text contains itself and the empty one.
TextsIn == {<<v, w>> \in Value \X Value : w \in {v, 0}}

TwoTables ==
  LET row(when, v) == [created |-> when, cell |-> v]
  IN  {<<row(1, 1), row(2, 0), row(3, 2)>>, <<row(1, 2), row(2, Null)>>}

-----------------------------------------------------------------------------
\* A part that does not run stays in one of its initial states.
ApplicationInit ==
  /\ part \in {"request", "rpc", "retry", "app", "reload", "page", "beat"}
  /\ RequestInit /\ (part # "request" => guarded = "off")
  /\ RpcInit /\ (part # "rpc" => /\ rpc = CHOOSE c \in Clients : TRUE
                                /\ \A c \in Caller : what[c] = "post")
  /\ RetryInit /\ (part # "retry" => ~cancelled)
  /\ AppInit /\ (part # "app" => app = (CHOOSE a \in Apps : TRUE) /\ handler = "ours")
  /\ ReloadInit
  /\ PageInit /\ (part # "page" => wanted = On("int", <<>>) /\ DOMAIN rows = {1, 2})
  /\ Init

Req(A) ==
  /\ part = "request" /\ A
  /\ UNCHANGED <<part, rpcVars, retryVars, appVars, reloadVars, pageVars, vars>>
Rpc(A) ==
  /\ part = "rpc" /\ A
  /\ UNCHANGED <<part, requestVars, retryVars, appVars, reloadVars, pageVars, vars>>
Ret(A) ==
  /\ part = "retry" /\ A
  /\ UNCHANGED <<part, requestVars, rpcVars, appVars, reloadVars, pageVars, vars>>
App(A) ==
  /\ part = "app" /\ A
  /\ UNCHANGED <<part, requestVars, rpcVars, retryVars, reloadVars, pageVars, vars>>
Rel(A) ==
  /\ part = "reload" /\ A
  /\ UNCHANGED <<part, requestVars, rpcVars, retryVars, appVars, pageVars, vars>>
Pag(A) ==
  /\ part = "page" /\ A
  /\ UNCHANGED <<part, requestVars, rpcVars, retryVars, appVars, reloadVars, vars>>
Bea(A) ==
  /\ part = "beat" /\ A
  /\ UNCHANGED <<part, requestVars, rpcVars, retryVars, appVars, reloadVars, pageVars>>

ApplicationNext ==
  \/ Req(RequestNext) \/ Rpc(RpcNext) \/ Ret(RetryNext) \/ App(AppNext)
  \/ Rel(ReloadNext) \/ Pag(PageNext) \/ Bea(Next)

\* RequestFairness, RpcFairness, RetryFairness, AppFairness and the fairness of the
\* beat workers, each of its own part.
ApplicationFairness ==
  /\ WF_requestVars(part = "request" /\ Goes)
  /\ \A c \in Caller : WF_rpcVars(part = "rpc" /\ CallStep(c))
  /\ WF_retryVars(part = "retry" /\ LoopStep)
  /\ WF_appVars(part = "app" /\ (StartupStep \/ EndStep))
  /\ WF_vars(part = "beat" /\ Tick)
  /\ \A b \in Beat : WF_vars(part = "beat" /\ BeatNext(b)) /\ SF_vars(part = "beat" /\ AcquireLock(b))

\* Every part that has something to end ends it: AbandonedEnds, RetryEnds, StartupEnds
\* and CallsEnd in one, as what has not run has neither begun nor is it over.
PartsEnd ==
  \A c \in Caller :
    (Abandoned \/ RetryBegun \/ StartupBegun \/ CallBegun(c))
      ~> (RequestOver \/ RetryOver \/ StartupOver \/ CallOver(c))

ApplicationSpec == ApplicationInit /\ [][ApplicationNext]_applicationVars /\ ApplicationFairness
=============================================================================
