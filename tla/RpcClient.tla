----------------------------- MODULE RpcClient ------------------------------
(***************************************************************************)
(* A client built by HttpRpcClientBuilder                                  *)
(* (src/jararaca/rpc/http/decorators.py): the retry loop around the        *)
(* backend and the response cache, with calls that overlap.  A response    *)
(* remembers the request it answered.  The cache tells requests apart by   *)
(* their method, URL, parameters and headers, not by their bodies.         *)
(***************************************************************************)
EXTENDS Integers, FiniteSets

CONSTANTS
  Caller,      \* the concurrent calls
  Request,     \* the requests they make
  Get,         \* the ones whose method is GET
  KeyOf,       \* what _cache_key keeps of a request
  Clients,     \* how the client is configured
  Backoff,     \* backoff_factor
  CacheTtl,    \* ttl_seconds of the cache
  MaxTime      \* how far the clock runs (a bound)

\* retries: there is an RPCRetryPolicy, attempts: its max_attempts; cache: the
\* CacheMiddleware is missing, comes after the middlewares that add headers, or
\* before them; handled: a handler of the error statuses is declared.
ClientConfig == [retries : BOOLEAN, attempts : Nat, cache : {"none", "last", "first"},
                 handled : BOOLEAN]

CacheKey == {KeyOf[r] : r \in Request} \X {"plain", "full"}

ASSUME RpcAssumption ==
  /\ Request # {} /\ Get \subseteq Request
  /\ Clients \subseteq ClientConfig
  /\ Backoff \in Nat /\ CacheTtl \in Nat /\ MaxTime \in Nat

VARIABLES
  rpc,      \* the client's configuration
  time,     \* the clock
  cache,    \* the responses it keeps, by key without and with the headers added later
  stamp,    \* when they were put there
  at,       \* where each call is
  what,     \* its request
  requests, \* how many requests it sent
  waited,   \* how long it slept between them
  reply,    \* the response it has
  outcome   \* how it ended

rpcVars == <<rpc, time, cache, stamp, at, what, requests, waited, reply, outcome>>

NoResponse == [status |-> "none", of |-> CHOOSE r \in Request : TRUE]

Status == {"ok", "retryable", "error"}

Response == [status : Status \cup {"none"}, of : Request]

RpcTypeOK ==
  /\ rpc \in Clients
  /\ time \in 0..MaxTime
  /\ cache \in [CacheKey -> Response]
  /\ stamp \in [CacheKey -> 0..MaxTime]
  /\ at \in [Caller -> {"idle", "requesting", "answered", "backoff", "done"}]
  /\ what \in [Caller -> Request]
  /\ requests \in [Caller -> Nat]
  /\ waited \in [Caller -> Nat]
  /\ reply \in [Caller -> Response]
  /\ outcome \in [Caller -> {"none", "value", "handled", "unhandled", "raised", "invalid"}]

RpcInit ==
  /\ rpc \in Clients
  /\ time = 0
  /\ cache = [k \in CacheKey |-> NoResponse]
  /\ stamp = [k \in CacheKey |-> 0]
  /\ at = [c \in Caller |-> "idle"]
  /\ what \in [Caller -> Request]
  /\ requests = [c \in Caller |-> 0]
  /\ waited = [c \in Caller |-> 0]
  /\ reply = [c \in Caller |-> NoResponse]
  /\ outcome = [c \in Caller |-> "none"]

-----------------------------------------------------------------------------
\* on_request computes the key before the middlewares that follow the cache have
\* added their headers, rpc_method stores under the key of the final request.
LookupKey(r) == <<KeyOf[r], IF rpc.cache = "first" THEN "plain" ELSE "full">>

StoreKey(r) == <<KeyOf[r], "full">>

\* CacheMiddleware.on_request.
Cached(r) ==
  /\ rpc.cache # "none"
  /\ r \in Get
  /\ cache[LookupKey(r)].status # "none"
  /\ time - stamp[LookupKey(r)] < CacheTtl

\* The rest of rpc_method, once there is a response: a GET is stored, whatever its
\* status and wherever it came from; the handlers of the route and the global ones
\* are asked for a status that is no success.
Finish(c, resp) ==
  /\ at' = [at EXCEPT ![c] = "done"]
  /\ reply' = [reply EXCEPT ![c] = resp]
  /\ IF rpc.cache # "none" /\ what[c] \in Get
       THEN /\ cache' = [cache EXCEPT ![StoreKey(what[c])] = resp]
            /\ stamp' = [stamp EXCEPT ![StoreKey(what[c])] = time]
       ELSE UNCHANGED <<cache, stamp>>
  /\ outcome' = [outcome EXCEPT ![c] = IF resp.status = "ok" THEN "value"
                                       ELSE IF rpc.handled THEN "handled" ELSE "unhandled"]

\* rpc_method up to its first await, or to its end when the cache answers.
Call(c) ==
  /\ at[c] = "idle"
  /\ IF Cached(what[c])
       THEN Finish(c, cache[LookupKey(what[c])]) /\ UNCHANGED requests
       ELSE /\ rpc.retries => rpc.attempts > 0
            /\ at' = [at EXCEPT ![c] = "requesting"]
            /\ requests' = [requests EXCEPT ![c] = 1]
            /\ UNCHANGED <<reply, cache, stamp, outcome>>
  /\ UNCHANGED <<rpc, time, what, waited>>

\* An argument is missing, or the body is of no type that can be sent.
CallInvalid(c) ==
  /\ at[c] = "idle"
  /\ at' = [at EXCEPT ![c] = "done"]
  /\ outcome' = [outcome EXCEPT ![c] = "invalid"]
  /\ UNCHANGED <<rpc, time, cache, stamp, what, requests, waited, reply>>

\* max_attempts = 0: the loop of _execute_with_retry is never entered.
CallWithoutAttempts(c) ==
  /\ at[c] = "idle"
  /\ ~Cached(what[c])
  /\ rpc.retries /\ rpc.attempts = 0
  /\ at' = [at EXCEPT ![c] = "done"]
  /\ outcome' = [outcome EXCEPT ![c] = "raised"]
  /\ UNCHANGED <<rpc, time, cache, stamp, what, requests, waited, reply>>

\* The server answers; the response is on its way.
ServerAnswers(c) ==
  /\ at[c] = "requesting"
  /\ at' = [at EXCEPT ![c] = "answered"]
  /\ \E s \in Status :
       reply' = [reply EXCEPT ![c] = [status |-> s, of |-> what[c]]]
  /\ UNCHANGED <<rpc, time, cache, stamp, what, requests, waited, outcome>>

\* Mutation of MayRetry: the first attempt is not counted.
MayRetryOnceMore(c) == rpc.retries /\ requests[c] <= rpc.attempts

\* _execute_with_retry: whether the attempt just made may be followed by another.
MayRetry(c) == rpc.retries /\ requests[c] < rpc.attempts

\* A status that is retried, with attempts left.
RetryStatus(c) ==
  /\ at[c] = "answered"
  /\ reply[c].status = "retryable"
  /\ MayRetry(c)
  /\ at' = [at EXCEPT ![c] = "backoff"]
  /\ UNCHANGED <<rpc, time, cache, stamp, what, requests, waited, reply, outcome>>

\* Mutation of Return: a response that came meanwhile is preferred.
ReturnShared(c) ==
  /\ at[c] = "answered"
  /\ ~(reply[c].status = "retryable" /\ MayRetry(c))
  /\ Finish(c, IF Cached(what[c]) THEN cache[LookupKey(what[c])] ELSE reply[c])
  /\ UNCHANGED <<rpc, time, what, requests, waited>>

Return(c) ==
  /\ at[c] = "answered"
  /\ ~(reply[c].status = "retryable" /\ MayRetry(c))
  /\ Finish(c, reply[c])
  /\ UNCHANGED <<rpc, time, what, requests, waited>>

\* A timeout or a network error of the backend.
BackendRaises(c) ==
  /\ at[c] \in {"requesting", "answered"}
  /\ IF MayRetry(c)
       THEN at' = [at EXCEPT ![c] = "backoff"] /\ UNCHANGED outcome
       ELSE /\ at' = [at EXCEPT ![c] = "done"]
            /\ outcome' = [outcome EXCEPT ![c] = "raised"]
  /\ reply' = [reply EXCEPT ![c] = NoResponse]
  /\ UNCHANGED <<rpc, time, cache, stamp, what, requests, waited>>

\* The sleep of backoff_factor * 2^attempt, counting attempts from 0, is over.
Resend(c) ==
  /\ at[c] = "backoff"
  /\ at' = [at EXCEPT ![c] = "requesting"]
  /\ requests' = [requests EXCEPT ![c] = @ + 1]
  /\ waited' = [waited EXCEPT ![c] = @ + Backoff * 2 ^ (requests[c] - 1)]
  /\ UNCHANGED <<rpc, time, cache, stamp, what, reply, outcome>>

-----------------------------------------------------------------------------
\* A call that has ended is followed by another one.
CallAgain(c) ==
  /\ at[c] = "done"
  /\ at' = [at EXCEPT ![c] = "idle"]
  /\ \E r \in Request : what' = [what EXCEPT ![c] = r]
  /\ requests' = [requests EXCEPT ![c] = 0]
  /\ waited' = [waited EXCEPT ![c] = 0]
  /\ reply' = [reply EXCEPT ![c] = NoResponse]
  /\ outcome' = [outcome EXCEPT ![c] = "none"]
  /\ UNCHANGED <<rpc, time, cache, stamp>>

TimePasses ==
  /\ time < MaxTime
  /\ time' = time + 1
  /\ UNCHANGED <<rpc, cache, stamp, at, what, requests, waited, reply, outcome>>

CallStep(c) ==
  \/ Call(c) \/ CallInvalid(c) \/ CallWithoutAttempts(c) \/ ServerAnswers(c)
  \/ RetryStatus(c) \/ Return(c) \/ BackendRaises(c) \/ Resend(c)

RpcNext ==
  \/ \E c \in Caller : CallStep(c) \/ CallAgain(c)
  \/ TimePasses

RpcSpec == RpcInit /\ [][RpcNext]_rpcVars

\* The backend answers or times out, and sleeps end.
RpcFairness == \A c \in Caller : WF_rpcVars(CallStep(c))

-----------------------------------------------------------------------------
\* A call that fails for a reason worth retrying has made exactly the attempts its
\* policy grants, one without a policy; the status of a response that the cache kept
\* is not retried (_execute_with_retry).
FailsAfterBudget ==
  \A c \in Caller :
    LET granted == IF rpc.retries THEN rpc.attempts ELSE 1
    IN  /\ requests[c] <= granted
        /\ outcome[c] = "raised" => requests[c] = granted
        /\ (at[c] = "done" /\ requests[c] > 0 /\ reply[c].status = "retryable")
              => requests[c] = granted

\* Between the first and the n-th request a call sleeps backoff_factor * (2^(n-1) - 1)
\* in all, whichever of its failures were statuses and which exceptions.
WaitsGeometrically ==
  \A c \in Caller :
    waited[c] = IF requests[c] = 0 THEN 0 ELSE Backoff * (2 ^ (requests[c] - 1) - 1)

\* A call retries as often, and waits as long, as its policy says.
RetriesAsGranted == RpcTypeOK /\ FailsAfterBudget /\ WaitsGeometrically

\* A call that is not a GET is never answered from the cache, and what a call gets
\* after sending a request is the answer to that request, never a response kept from
\* an earlier attempt or another call; a GET that is answered without a request gets a
\* response to a request of the same key.
AnsweredByServerOrCache ==
  \A c \in Caller :
    (at[c] = "done" /\ outcome[c] \in {"value", "handled", "unhandled"}) =>
      /\ reply[c].status # "none"
      /\ requests[c] > 0 => reply[c].of = what[c]
      /\ requests[c] = 0 => what[c] \in Get /\ KeyOf[reply[c].of] = KeyOf[what[c]]

CallBegun(c) == at[c] \in {"requesting", "answered", "backoff"}
CallOver(c) == at[c] = "done"

\* Every call ends, whatever the backend answers.
CallsEnd == \A c \in Caller : CallBegun(c) ~> CallOver(c)
=============================================================================
