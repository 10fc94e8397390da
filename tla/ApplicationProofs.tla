------------------------- MODULE ApplicationProofs --------------------------
(***************************************************************************)
(* Proofs about the parts of the web application and of what it calls.     *)
(* RpcClient: a call ends with an answer to its own request, within the    *)
(* attempts it was granted.  HttpRequest: the answer tells what became of  *)
(* the transaction, and a request leaves nothing behind.  RetryBackoff:    *)
(* the loop keeps its policy, for every configuration.  ReloadWatcher: one *)
(* process runs at a time, and the latest files.                           *)
(***************************************************************************)
EXTENDS RpcClient, HttpRequest, RetryBackoff, ReloadWatcher, TLAPS

-----------------------------------------------------------------------------
(* The calls of an RPC client.                                             *)

Granted == IF rpc.retries THEN rpc.attempts ELSE 1

\* The attempts of a call, from its first request to its end.
AttemptsAt(c) ==
  /\ at[c] = "idle" => requests[c] = 0 /\ outcome[c] = "none"
  /\ at[c] \in {"requesting", "answered", "backoff"} => requests[c] > 0 /\ outcome[c] = "none"
  /\ at[c] = "backoff" => requests[c] < Granted
  /\ requests[c] <= Granted
  /\ outcome[c] = "raised" => requests[c] = Granted
  /\ at[c] = "done" /\ requests[c] > 0 /\ reply[c].status = "retryable" => requests[c] = Granted

\* The response a call has is its own, or one the cache kept for its key.
ReplyAt(c) ==
  /\ at[c] = "answered" => reply[c].status # "none" /\ reply[c].of = what[c]
  /\ at[c] = "done" /\ outcome[c] \in {"value", "handled", "unhandled"} =>
       /\ reply[c].status # "none"
       /\ requests[c] > 0 => reply[c].of = what[c]
       /\ requests[c] = 0 => what[c] \in Get /\ KeyOf[reply[c].of] = KeyOf[what[c]]

\* What the cache keeps answers a request of the key it is kept under.
CacheByKey == \A k \in CacheKey : cache[k].status # "none" => KeyOf[cache[k].of] = k[1]

\* The types, but for the time slept.
CallTypes ==
  /\ rpc \in Clients
  /\ time \in 0..MaxTime
  /\ cache \in [CacheKey -> Response]
  /\ stamp \in [CacheKey -> 0..MaxTime]
  /\ at \in [Caller -> {"idle", "requesting", "answered", "backoff", "done"}]
  /\ what \in [Caller -> Request]
  /\ requests \in [Caller -> Nat]
  /\ reply \in [Caller -> Response]
  /\ outcome \in [Caller -> {"none", "value", "handled", "unhandled", "raised", "invalid"}]

CallsInv == CallTypes /\ CacheByKey /\ \A c \in Caller : AttemptsAt(c) /\ ReplyAt(c)

LEMMA NoResponseShape == NoResponse \in Response /\ NoResponse.status = "none"
  <1>1. (CHOOSE r \in Request : TRUE) \in Request
    BY RpcAssumption, Zenon
  <1> QED BY <1>1, Zenon DEF NoResponse, Response

LEMMA Grants ==
  ASSUME CallTypes, NEW c \in Caller
  PROVE  /\ Granted \in Nat
         /\ MayRetry(c) => requests[c] < Granted
         /\ ~MayRetry(c) /\ requests[c] > 0 /\ requests[c] <= Granted => requests[c] = Granted
         /\ requests[c] \in Nat
         /\ (rpc.retries => rpc.attempts > 0) => Granted > 0
         /\ rpc.retries /\ rpc.attempts = 0 => Granted = 0
  <1>1. rpc.attempts \in Nat /\ requests[c] \in Nat
    BY RpcAssumption, Zenon DEF CallTypes, ClientConfig
  <1>2. CASE rpc.retries
    BY <1>1, <1>2 DEF Granted, MayRetry
  <1>3. CASE ~rpc.retries
    BY <1>1, <1>3 DEF Granted, MayRetry
  <1> QED BY <1>2, <1>3, Zenon

\* The keys a request is looked up and stored under.
LEMMA Keys ==
  ASSUME CallTypes, NEW r \in Request
  PROVE  /\ LookupKey(r) \in CacheKey /\ StoreKey(r) \in CacheKey
         /\ LookupKey(r)[1] = KeyOf[r] /\ StoreKey(r)[1] = KeyOf[r]
  BY Zenon DEF LookupKey, StoreKey, CacheKey

\* A step of one call leaves the others alone.
Elsewhere(c) ==
  \A d \in Caller \ {c} : UNCHANGED <<at[d], what[d], requests[d], reply[d], outcome[d]>>

LEMMA FinishKeeps ==
  ASSUME CallTypes, CacheByKey, NEW c \in Caller, NEW resp \in Response, resp.status # "none",
         KeyOf[resp.of] = KeyOf[what[c]], Finish(c, resp),
         UNCHANGED <<rpc, time, what, requests>>
  PROVE  /\ CallTypes' /\ CacheByKey' /\ Elsewhere(c)
         /\ at'[c] = "done" /\ reply'[c] = resp
         /\ outcome'[c] \in {"value", "handled", "unhandled"}
  <1>1. /\ at' = [at EXCEPT ![c] = "done"] /\ reply' = [reply EXCEPT ![c] = resp]
        /\ \E o \in {"value", "handled", "unhandled"} : outcome' = [outcome EXCEPT ![c] = o]
    BY Zenon DEF Finish
  <1>2. /\ cache' \in [CacheKey -> Response] /\ stamp' \in [CacheKey -> 0..MaxTime]
        /\ \A k \in CacheKey : cache'[k] = cache[k] \/ (cache'[k] = resp /\ k = StoreKey(what[c]))
    <2>1. StoreKey(what[c]) \in CacheKey
      BY Keys, Zenon DEF CallTypes
    <2>2. CASE rpc.cache # "none" /\ what[c] \in Get
      BY <2>1, <2>2 DEF Finish, CallTypes
    <2>3. CASE ~(rpc.cache # "none" /\ what[c] \in Get)
      BY <2>3, Zenon DEF Finish, CallTypes
    <2> QED BY <2>2, <2>3, Zenon
  <1>3. CallTypes' /\ Elsewhere(c)
    BY <1>1, <1>2 DEF CallTypes, Elsewhere
  <1>4. CacheByKey'
    <2>1. StoreKey(what[c])[1] = KeyOf[what[c]]
      BY Keys, Zenon DEF CallTypes
    <2> QED BY <1>2, <2>1, Zenon DEF CacheByKey
  <1> QED BY <1>1, <1>3, <1>4 DEF CallTypes

\* A call does not change how the client is configured.
LEMMA SameClient ==
  ASSUME NEW c \in Caller, CallStep(c) \/ CallAgain(c)
  PROVE  Granted' = Granted
  <1>1. rpc' = rpc
    BY Zenon DEF CallStep, Call, CallInvalid, CallWithoutAttempts, ServerAnswers, RetryStatus,
       Return, BackendRaises, Resend, CallAgain
  <1> QED BY <1>1, Zenon DEF Granted

\* Every step of a call.
LEMMA CallKeeps ==
  ASSUME CallsInv, NEW c \in Caller, CallStep(c) \/ CallAgain(c)
  PROVE  CallTypes' /\ CacheByKey' /\ Elsewhere(c) /\ AttemptsAt(c)' /\ ReplyAt(c)'
  <1>0. CallTypes /\ CacheByKey /\ AttemptsAt(c) /\ ReplyAt(c)
    BY Zenon DEF CallsInv
  <1>1. /\ Granted \in Nat /\ requests[c] \in Nat /\ what[c] \in Request
        /\ reply[c] \in Response /\ Granted' = Granted
    BY <1>0, Grants, SameClient, Zenon DEF CallTypes
  <1>2. CASE Call(c)
    <2>1. CASE Cached(what[c])
      <3> DEFINE resp == cache[LookupKey(what[c])]
      <3>1. LookupKey(what[c]) \in CacheKey /\ LookupKey(what[c])[1] = KeyOf[what[c]]
        BY <1>0, <1>1, Keys, Zenon
      <3>2. /\ resp \in Response /\ resp.status # "none" /\ KeyOf[resp.of] = KeyOf[what[c]]
            /\ what[c] \in Get
        BY <1>0, <2>1, <3>1, Zenon DEF Cached, CallTypes, CacheByKey
      <3>3. Finish(c, resp) /\ UNCHANGED <<rpc, time, what, requests>> /\ at[c] = "idle"
        BY <1>2, <2>1, Zenon DEF Call
      <3> HIDE DEF resp
      <3>4. /\ CallTypes' /\ CacheByKey' /\ Elsewhere(c)
            /\ at'[c] = "done" /\ reply'[c] = resp
            /\ outcome'[c] \in {"value", "handled", "unhandled"}
        BY <1>0, <3>2, <3>3, FinishKeeps, Zenon
      <3>5. requests[c] = 0 /\ requests' = requests /\ what' = what
        BY <1>0, <3>3, Zenon DEF AttemptsAt
      <3> QED BY <1>0, <1>1, <3>2, <3>4, <3>5 DEF AttemptsAt, ReplyAt
    <2>2. CASE ~Cached(what[c])
      <3>1. /\ at' = [at EXCEPT ![c] = "requesting"] /\ requests' = [requests EXCEPT ![c] = 1]
            /\ UNCHANGED <<rpc, time, cache, stamp, what, reply, outcome>> /\ at[c] = "idle"
        BY <1>2, <2>2, Zenon DEF Call
      <3>2. Granted > 0
        BY <1>0, <1>2, <2>2, Grants, Zenon DEF Call
      <3>3. CallTypes' /\ CacheByKey' /\ Elsewhere(c)
        BY <1>0, <3>1, Zenon DEF CallTypes, CacheByKey, Elsewhere
      <3>4. at'[c] = "requesting" /\ requests'[c] = 1 /\ outcome'[c] = "none"
        BY <1>0, <3>1, Zenon DEF CallTypes, AttemptsAt
      <3> QED BY <1>1, <3>2, <3>3, <3>4 DEF AttemptsAt, ReplyAt
    <2> QED BY <2>1, <2>2, Zenon
  <1>3. CASE CallInvalid(c) \/ CallWithoutAttempts(c)
    <2>1. PICK o \in {"invalid", "raised"} :
            /\ at' = [at EXCEPT ![c] = "done"] /\ outcome' = [outcome EXCEPT ![c] = o]
            /\ UNCHANGED <<rpc, time, cache, stamp, what, requests, reply>> /\ at[c] = "idle"
            /\ o = "raised" => rpc.retries /\ rpc.attempts = 0
      BY <1>3, Zenon DEF CallInvalid, CallWithoutAttempts
    <2>2. CallTypes' /\ CacheByKey' /\ Elsewhere(c)
      BY <1>0, <2>1, Zenon DEF CallTypes, CacheByKey, Elsewhere
    <2>3. at'[c] = "done" /\ requests'[c] = 0 /\ outcome'[c] = o
      BY <1>0, <2>1, Zenon DEF CallTypes, AttemptsAt
    <2>4. o = "raised" => Granted = 0
      BY <1>0, <2>1, Grants, Zenon
    <2> QED BY <1>1, <2>2, <2>3, <2>4 DEF AttemptsAt, ReplyAt
  <1>4. CASE ServerAnswers(c)
    <2>1. PICK s \in Status :
            /\ at' = [at EXCEPT ![c] = "answered"]
            /\ reply' = [reply EXCEPT ![c] = [status |-> s, of |-> what[c]]]
            /\ UNCHANGED <<rpc, time, cache, stamp, what, requests, outcome>>
            /\ at[c] = "requesting"
      BY <1>4, ZenonT(60) DEF ServerAnswers
    <2>2. [status |-> s, of |-> what[c]] \in Response /\ s # "none"
      BY <1>1, Zenon DEF Response, Status
    <2>3. CallTypes' /\ CacheByKey' /\ Elsewhere(c)
      BY <1>0, <2>1, <2>2, Zenon DEF CallTypes, CacheByKey, Elsewhere
    <2>4. /\ at'[c] = "answered" /\ reply'[c] = [status |-> s, of |-> what[c]]
          /\ UNCHANGED <<requests, outcome, what>>
      BY <1>0, <2>1, Zenon DEF CallTypes
    <2> QED BY <1>0, <1>1, <2>1, <2>2, <2>3, <2>4 DEF AttemptsAt, ReplyAt
  <1>5. CASE RetryStatus(c)
    <2>1. /\ at' = [at EXCEPT ![c] = "backoff"] /\ at[c] = "answered" /\ MayRetry(c)
          /\ UNCHANGED <<rpc, time, cache, stamp, what, requests, reply, outcome>>
      BY <1>5, Zenon DEF RetryStatus
    <2>2. requests[c] < Granted
      BY <1>0, <2>1, Grants, Zenon
    <2>3. CallTypes' /\ CacheByKey' /\ Elsewhere(c)
      BY <1>0, <2>1, Zenon DEF CallTypes, CacheByKey, Elsewhere
    <2>4. at'[c] = "backoff"
      BY <1>0, <2>1, Zenon DEF CallTypes
    <2> QED BY <1>0, <1>1, <2>1, <2>2, <2>3, <2>4, Zenon DEF AttemptsAt, ReplyAt
  <1>6. CASE Return(c)
    <2>1. /\ at[c] = "answered" /\ Finish(c, reply[c])
          /\ UNCHANGED <<rpc, time, what, requests>>
          /\ reply[c].status = "retryable" => ~MayRetry(c)
      BY <1>6, Zenon DEF Return
    <2>2. reply[c].status # "none" /\ reply[c].of = what[c] /\ requests[c] > 0
      BY <1>0, <2>1, Zenon DEF AttemptsAt, ReplyAt
    <2>3. /\ CallTypes' /\ CacheByKey' /\ Elsewhere(c)
          /\ at'[c] = "done" /\ reply'[c] = reply[c]
          /\ outcome'[c] \in {"value", "handled", "unhandled"}
      BY <1>0, <1>1, <2>1, <2>2, FinishKeeps, ZenonT(60)
    <2>4. reply[c].status = "retryable" => requests[c] = Granted
      BY <1>0, <2>1, <2>2, Grants, Zenon DEF AttemptsAt
    <2>5. requests'[c] = requests[c] /\ what'[c] = what[c] /\ requests[c] <= Granted
      BY <1>0, <2>1, Zenon DEF AttemptsAt
    <2>6. AttemptsAt(c)'
      BY <1>1, <2>2, <2>3, <2>4, <2>5, Zenon DEF AttemptsAt
    <2>7. ReplyAt(c)'
      BY <2>2, <2>3, <2>5, SMTT(30) DEF ReplyAt
    <2> QED BY <2>3, <2>6, <2>7, Zenon
  <1>7. CASE BackendRaises(c)
    <2>1. /\ at[c] \in {"requesting", "answered"}
          /\ reply' = [reply EXCEPT ![c] = NoResponse]
          /\ UNCHANGED <<rpc, time, cache, stamp, what, requests>>
          /\ \/ MayRetry(c) /\ at' = [at EXCEPT ![c] = "backoff"] /\ UNCHANGED outcome
             \/ /\ ~MayRetry(c) /\ at' = [at EXCEPT ![c] = "done"]
                /\ outcome' = [outcome EXCEPT ![c] = "raised"]
      BY <1>7, Zenon DEF BackendRaises
    <2>2. CallTypes' /\ CacheByKey' /\ Elsewhere(c)
      BY <1>0, <2>1, NoResponseShape, SMTT(30) DEF CallTypes, CacheByKey, Elsewhere
    <2>3. requests[c] > 0 /\ requests[c] <= Granted /\ outcome[c] = "none"
      BY <1>0, <2>1, Zenon DEF AttemptsAt
    <2>4. \/ at'[c] = "backoff" /\ outcome'[c] = "none" /\ requests[c] < Granted
          \/ at'[c] = "done" /\ outcome'[c] = "raised" /\ requests[c] = Granted
      BY <1>0, <2>1, <2>3, Grants, Zenon DEF CallTypes
    <2> QED BY <1>1, <2>1, <2>2, <2>3, <2>4, Zenon DEF AttemptsAt, ReplyAt
  <1>8. CASE Resend(c)
    <2>1. /\ at[c] = "backoff" /\ at' = [at EXCEPT ![c] = "requesting"]
          /\ requests' = [requests EXCEPT ![c] = requests[c] + 1]
          /\ UNCHANGED <<rpc, time, cache, stamp, what, reply, outcome>>
      BY <1>8, Zenon DEF Resend
    <2>2. CallTypes' /\ CacheByKey' /\ Elsewhere(c)
      BY <1>0, <1>1, <2>1 DEF CallTypes, CacheByKey, Elsewhere
    <2>3. at'[c] = "requesting" /\ requests'[c] = requests[c] + 1 /\ outcome'[c] = "none"
      BY <1>0, <2>1, Zenon DEF CallTypes, AttemptsAt
    <2> QED BY <1>0, <1>1, <2>1, <2>2, <2>3 DEF AttemptsAt, ReplyAt
  <1>9. CASE CallAgain(c)
    <2>1. PICK r \in Request :
            /\ at' = [at EXCEPT ![c] = "idle"] /\ what' = [what EXCEPT ![c] = r]
            /\ requests' = [requests EXCEPT ![c] = 0] /\ reply' = [reply EXCEPT ![c] = NoResponse]
            /\ outcome' = [outcome EXCEPT ![c] = "none"]
            /\ UNCHANGED <<rpc, time, cache, stamp>>
      BY <1>9, Zenon DEF CallAgain
    <2>2. CallTypes' /\ CacheByKey' /\ Elsewhere(c)
      BY <1>0, <2>1, NoResponseShape, Zenon DEF CallTypes, CacheByKey, Elsewhere
    <2>3. at'[c] = "idle" /\ requests'[c] = 0 /\ outcome'[c] = "none"
      BY <1>0, <2>1, Zenon DEF CallTypes
    <2> QED BY <1>1, <2>2, <2>3 DEF AttemptsAt, ReplyAt
  <1> QED BY <1>2, <1>3, <1>4, <1>5, <1>6, <1>7, <1>8, <1>9, Zenon DEF CallStep

LEMMA CallsInitially == RpcInit => CallsInv
  <1> SUFFICES ASSUME RpcInit PROVE CallsInv
    BY Zenon
  <1>1. CallTypes
    BY RpcAssumption, NoResponseShape, SMTT(30) DEF RpcInit, CallTypes
  <1>2. CacheByKey
    BY NoResponseShape, Zenon DEF RpcInit, CacheByKey
  <1>3. \A c \in Caller : AttemptsAt(c) /\ ReplyAt(c)
    BY <1>1, Grants DEF RpcInit, AttemptsAt, ReplyAt
  <1> QED BY <1>1, <1>2, <1>3, Zenon DEF CallsInv

LEMMA CallsStep == CallsInv /\ [RpcNext]_rpcVars => CallsInv'
  <1> SUFFICES ASSUME CallsInv, [RpcNext]_rpcVars PROVE CallsInv'
    BY Zenon
  <1>1. ASSUME NEW c \in Caller, CallStep(c) \/ CallAgain(c) PROVE CallsInv'
    <2>1. CallTypes' /\ CacheByKey' /\ Elsewhere(c) /\ AttemptsAt(c)' /\ ReplyAt(c)'
      BY <1>1, CallKeeps, Zenon
    <2>2. Granted' = Granted
      BY <1>1, SameClient, Zenon
    <2>3. ASSUME NEW d \in Caller \ {c} PROVE AttemptsAt(d)' /\ ReplyAt(d)'
      <3>1. AttemptsAt(d) /\ ReplyAt(d)
        BY Zenon DEF CallsInv
      <3>2. UNCHANGED <<at[d], what[d], requests[d], reply[d], outcome[d]>>
        BY <2>1, Zenon DEF Elsewhere
      <3> QED BY <2>2, <3>1, <3>2, Zenon DEF AttemptsAt, ReplyAt
    <2> QED BY <2>1, <2>3, Zenon DEF CallsInv
  <1>2. CASE TimePasses \/ UNCHANGED rpcVars
    <2>1. UNCHANGED <<rpc, cache, stamp, at, what, requests, reply, outcome>>
      BY <1>2, Zenon DEF TimePasses, rpcVars
    <2>2. time' \in 0..MaxTime
      BY <1>2, RpcAssumption DEF TimePasses, rpcVars, CallsInv, CallTypes
    <2>3. CallTypes' /\ CacheByKey'
      BY <2>1, <2>2, Zenon DEF CallsInv, CallTypes, CacheByKey
    <2> QED BY <2>1, <2>3 DEF CallsInv, AttemptsAt, ReplyAt, Granted
  <1> QED BY <1>1, <1>2, Zenon DEF RpcNext

LEMMA CallsInductive == RpcSpec => []CallsInv
  BY CallsInitially, CallsStep, PTL DEF RpcSpec

\* For any number of overlapping calls and any configuration of the client: a call that
\* sent a request is answered with the response to that request, and one that sent none
\* is a GET answered with a response to a request of the same key (rpc_method,
\* CacheMiddleware).
THEOREM AnsweredRightly == RpcSpec => []AnsweredByServerOrCache
  <1>1. CallsInv => AnsweredByServerOrCache
    BY Zenon DEF CallsInv, ReplyAt, AnsweredByServerOrCache
  <1> QED BY <1>1, CallsInductive, PTL

\* What the provers have to be told of powers of two.
Doubling == \A n \in Nat : 2 ^ n \in Nat /\ 2 ^ n > 0 /\ 2 ^ (n + 1) = 2 * 2 ^ n

SleptSoFar == waited \in [Caller -> Nat] /\ WaitsGeometrically

LEMMA SleepsStep ==
  ASSUME Doubling, CallsInv, SleptSoFar, [RpcNext]_rpcVars
  PROVE  SleptSoFar'
  <1>1. ASSUME NEW c \in Caller, CallStep(c) \/ CallAgain(c) PROVE SleptSoFar'
    <2>0. /\ CallTypes /\ AttemptsAt(c) /\ Elsewhere(c) /\ CallTypes'
          /\ requests[c] \in Nat
      BY <1>1, CallKeeps, Zenon DEF CallsInv, CallTypes
    <2>1. CASE Resend(c)
      <3>1. requests[c] > 0 /\ at[c] = "backoff"
        BY <2>0, <2>1, Zenon DEF Resend, AttemptsAt
      <3>2. PICK n \in Nat : requests[c] = n + 1
        BY <2>0, <3>1, SMTT(30)
      <3>3. PICK p \in Nat : p = 2 ^ n /\ p > 0 /\ 2 ^ (n + 1) = 2 * p
        BY <3>2, Zenon DEF Doubling
      <3>4. waited[c] = Backoff * (p - 1) /\ Backoff \in Nat
        <4>1. requests[c] # 0 /\ requests[c] - 1 = n
          BY <3>2
        <4> QED BY <3>3, <4>1, RpcAssumption, Zenon DEF SleptSoFar, WaitsGeometrically
      <3>5. /\ waited' = [waited EXCEPT ![c] = waited[c] + Backoff * p]
            /\ requests' = [requests EXCEPT ![c] = n + 2]
        <4>1. requests[c] - 1 = n /\ requests[c] + 1 = n + 2
          BY <3>2
        <4> QED BY <2>1, <3>3, <4>1, Zenon DEF Resend
      <3>6. waited[c] + Backoff * p = Backoff * (2 * p - 1) /\ Backoff * p \in Nat
        BY <3>3, <3>4
      <3>7. waited' \in [Caller -> Nat] /\ requests'[c] = n + 2
            /\ waited'[c] = Backoff * (2 * p - 1)
        <4>1. waited[c] + Backoff * p \in Nat
          BY <3>6 DEF SleptSoFar
        <4> QED BY <2>0, <3>5, <3>6, <4>1, Zenon DEF SleptSoFar, CallTypes
      <3>8. requests'[c] # 0 /\ 2 ^ (requests'[c] - 1) = 2 * p
        <4>1. requests'[c] # 0 /\ requests'[c] - 1 = n + 1
          BY <3>7
        <4> QED BY <3>3, <4>1, Zenon
      <3>9. ASSUME NEW d \in Caller \ {c} PROVE waited'[d] = waited[d] /\ requests'[d] = requests[d]
        BY <2>0, <3>5, Zenon DEF Elsewhere, SleptSoFar
      <3> QED BY <3>7, <3>8, <3>9, Zenon DEF SleptSoFar, WaitsGeometrically
    <2>2. CASE CallAgain(c)
      <3>1. waited' = [waited EXCEPT ![c] = 0] /\ requests' = [requests EXCEPT ![c] = 0]
        BY <2>2, Zenon DEF CallAgain
      <3> QED BY <2>0, <3>1, Zenon DEF SleptSoFar, WaitsGeometrically, CallTypes
    <2>3. CASE Call(c)
      <3>1. at[c] = "idle" /\ waited' = waited /\ requests' \in {requests, [requests EXCEPT ![c] = 1]}
        BY <2>3, Zenon DEF Call
      <3>2. requests[c] = 0 /\ waited[c] = 0
        BY <2>0, <3>1, Zenon DEF AttemptsAt, SleptSoFar, WaitsGeometrically
      <3>3. Backoff * (2 ^ (1 - 1) - 1) = 0
        <4>1. 2 ^ 0 = 1
          BY SMT
        <4>2. 1 - 1 = 0
          OBVIOUS
        <4> QED BY <4>1, <4>2, RpcAssumption
      <3>4. CASE requests' = requests
        BY <3>1, <3>4, Zenon DEF SleptSoFar, WaitsGeometrically
      <3>5. CASE requests' = [requests EXCEPT ![c] = 1]
        <4>1. requests'[c] = 1 /\ \A d \in Caller \ {c} : requests'[d] = requests[d]
          BY <2>0, <3>5, Zenon DEF CallTypes
        <4> QED BY <3>1, <3>2, <3>3, <4>1, Zenon DEF SleptSoFar, WaitsGeometrically
      <3> QED BY <3>1, <3>4, <3>5, Zenon
    <2>4. CASE ~(Resend(c) \/ CallAgain(c) \/ Call(c))
      <3>1. UNCHANGED <<requests, waited>>
        BY <1>1, <2>4, Zenon
          DEF CallStep, CallInvalid, CallWithoutAttempts, ServerAnswers, RetryStatus,
           Return, BackendRaises
      <3> QED BY <3>1, Zenon DEF SleptSoFar, WaitsGeometrically
    <2> QED BY <2>1, <2>2, <2>3, <2>4, Zenon
  <1>2. CASE TimePasses \/ UNCHANGED rpcVars
    <2>1. UNCHANGED <<requests, waited>>
      BY <1>2, Zenon DEF TimePasses, rpcVars
    <2> QED BY <2>1, Zenon DEF SleptSoFar, WaitsGeometrically
  <1> QED BY <1>1, <1>2, Zenon DEF RpcNext

\* For any number of overlapping calls and every retry policy: a call makes no more
\* attempts than granted, fails for a reason worth retrying only after all of them, and
\* sleeps the geometric sum of its backoffs in all (_execute_with_retry).
THEOREM RetriesWithinGrant == ASSUME Doubling PROVE RpcSpec => []RetriesAsGranted
  <1>1. RpcInit => SleptSoFar
    BY DEF RpcInit, SleptSoFar, WaitsGeometrically
  <1>2. CallsInv /\ SleptSoFar /\ [RpcNext]_rpcVars => SleptSoFar'
    BY SleepsStep, Zenon
  <1>3. CallsInv /\ SleptSoFar => RetriesAsGranted
    <2> SUFFICES ASSUME CallsInv, SleptSoFar PROVE RetriesAsGranted
      BY Zenon
    <2>1. RpcTypeOK
      BY Zenon DEF CallsInv, CallTypes, SleptSoFar, RpcTypeOK
    <2>2. FailsAfterBudget
      BY Zenon DEF CallsInv, AttemptsAt, Granted, FailsAfterBudget
    <2> QED BY <2>1, <2>2, Zenon DEF RetriesAsGranted, SleptSoFar
  <1> QED BY <1>1, <1>2, <1>3, CallsInductive, PTL DEF RpcSpec

-----------------------------------------------------------------------------
(* One request behind the guard.                                           *)

\* An exception is on its way exactly where the task unwinds, and the dependencies are torn
\* down only after the response was sent.
ExcByPlace ==
  /\ where \in {"entering", "endpoint", "query", "responding", "teardown"} => exc = "none"
  /\ where \in {"answering", "unwinding", "reaping"} => exc # "none"
  /\ where \in {"sending", "teardown"} => wire
  /\ answer # "none" <=> wire

\* A response that has started shields the request from its own watcher.
Shielded ==
  /\ watcher = "polling" => guarded = "on"
  /\ wire /\ guarded = "on" => started
  /\ wire /\ ~foreign => ~pending

\* Where the watchers may still poll.
Polling ==
  /\ lookout = "polling" => where = "query"
  /\ watcher = "polling" =>
       where \notin {"entering", "answering", "done"} /\ (where = "sending" => exc = "none")

\* Only a client that left makes a task take it for gone.
TrulyGone ==
  /\ where = "query" /\ lookout = "done" => client = "gone"
  /\ disconnected \/ exc = "disconnected" => client = "gone"

\* A request answered with 499 was rolled back before it was answered.
RolledBackFirst ==
  /\ where = "answering" /\ exc = "disconnected" => uow = "rolledback"
  /\ answer = "499" =>
       /\ client = "gone" /\ uow = "rolledback"
       /\ where = "done" \/ (where = "sending" /\ exc # "none")

\* A success that nobody cancels goes on to its commit.
GoesOnToCommit ==
  answer = "ok" /\ ~foreign =>
    \/ where \in {"sending", "teardown"} /\ exc = "none"
    \/ where = "done" /\ (uow = "committed" \/ exc = "error")

HInv ==
  /\ RequestTypeOK /\ ExcByPlace /\ Shielded /\ Polling /\ TrulyGone /\ RolledBackFirst
  /\ GoesOnToCommit /\ QueriesReaped

LEMMA HInitially == RequestInit => HInv
  BY Zenon DEF RequestInit, HInv, RequestTypeOK, ExcByPlace, Shielded, Polling, TrulyGone,
     RolledBackFirst, GoesOnToCommit, QueriesReaped

\* Every step of the request, its watchers, the client and the server keeps it.
LEMMA HStep == HInv /\ [RequestNext]_requestVars => HInv'
  <1> SUFFICES ASSUME HInv, [RequestNext]_requestVars PROVE HInv'
    OBVIOUS
  <1> USE DEF HInv, RequestTypeOK, ExcByPlace, Shielded, Polling, TrulyGone, RolledBackFirst,
          GoesOnToCommit, QueriesReaped, Runs
  <1>1. CASE EnterGuard
    BY <1>1, SMTT(30) DEF EnterGuard
  <1>2. CASE GuardRefuses
    BY <1>2, SMTT(30) DEF GuardRefuses
  <1>3. CASE EndpointReturns
    BY <1>3, SMTT(30) DEF EndpointReturns
  <1>4. CASE EndpointRaises
    BY <1>4, SMTT(30) DEF EndpointRaises
  <1>5. CASE EndpointQueries
    BY <1>5, SMTT(30) DEF EndpointQueries
  <1>6. CASE QueryEnds
    BY <1>6, SMTT(30) DEF QueryEnds
  <1>7. CASE LookoutSees
    BY <1>7, SMTT(30) DEF LookoutSees
  <1>8. CASE QueryReturns
    BY <1>8, SMTT(30) DEF QueryReturns
  <1>9. CASE QueryAbandoned
    BY <1>9, SMTT(30) DEF StopQuery, QueryAbandoned
  <1>10. CASE QueryTimesOut
    BY <1>10, SMTT(30) DEF StopQuery, QueryTimesOut
  <1>11. CASE QueryReaped
    <2>1. ~pending' /\ pending' \in BOOLEAN
      BY <1>11, Zenon DEF QueryReaped
    <2>2. RequestTypeOK'
      BY <1>11, <2>1, SMTT(30) DEF QueryReaped
    <2> QED BY <1>11, <2>1, <2>2 DEF QueryReaped
  <1>12. CASE StartResponse
    <2>1. wire' /\ wire' \in BOOLEAN /\ started' \in BOOLEAN
      BY <1>12, Zenon DEF StartResponse
    <2>2. started' <=> guarded \notin {"raise", "warn"}
      BY <1>12, Zenon DEF StartResponse
    <2>3. answer' \in {"ok", "499", "504", "500"}
          /\ (answer' = "ok" => exc = "none") /\ (answer' = "499" => exc = "disconnected")
      BY <1>12, Zenon DEF StartResponse, AnswerTo
    <2>4. /\ where \in {"responding", "answering"} /\ ~pending /\ where' = "sending"
          /\ UNCHANGED <<guarded, exc, uow, client, watcher, disconnected, pending, foreign,
                        query, lookout>>
      BY <1>12, Zenon DEF StartResponse
    <2>5. RequestTypeOK'
      BY <2>1, <2>3, <2>4, SMTT(30)
    <2> QED BY <2>1, <2>2, <2>3, <2>4, <2>5, SMTT(30)
  <1>13. CASE SendEnds
    BY <1>13, SMTT(30) DEF SendEnds
  <1>14. CASE Commit
    BY <1>14, SMTT(30) DEF GuardExits, Commit
  <1>15. CASE CommitFails
    BY <1>15, SMTT(30) DEF GuardExits, CommitFails
  <1>16. CASE Rollback
    BY <1>16, SMTT(30) DEF GuardExits, Rollback
  <1>17. CASE CancelledInside
    <2>1. ~pending' /\ pending' \in BOOLEAN
      BY <1>17, Zenon DEF CancelledInside
    <2>2. RequestTypeOK'
      BY <1>17, <2>1, SMTT(30) DEF CancelledInside
    <2> QED BY <1>17, <2>1, <2>2 DEF CancelledInside
  <1>18. CASE CancelledInQuery
    BY <1>18, ZenonT(60) DEF StopQuery, CancelledInQuery
  <1>19. CASE CancelledInTeardown
    <2>1. ~pending' /\ pending' \in BOOLEAN
      BY <1>19, Zenon DEF CancelledInTeardown
    <2>2. RequestTypeOK'
      BY <1>19, <2>1, SMTT(30) DEF GuardExits, CancelledInTeardown
    <2> QED BY <1>19, <2>1, <2>2 DEF GuardExits, CancelledInTeardown
  <1>20. CASE CancelledOutside
    <2>1. ~pending' /\ pending' \in BOOLEAN
      BY <1>20, Zenon DEF CancelledOutside
    <2>2. RequestTypeOK'
      BY <1>20, <2>1, SMTT(30) DEF CancelledOutside
    <2> QED BY <1>20, <2>1, <2>2, SMTT(30) DEF CancelledOutside
  <1>21. CASE Watch
    BY <1>21 DEF ReportsDisconnect, Watch
  <1>22. CASE ClientLeaves
    BY <1>22, SMTT(30) DEF ClientLeaves
  <1>23. CASE ServerCancels
    BY <1>23, SMTT(30) DEF ServerCancels
  <1>24. CASE UNCHANGED requestVars
    BY <1>24 DEF requestVars
  <1> QED BY <1>1, <1>2, <1>3, <1>4, <1>5, <1>6, <1>7, <1>8, <1>9, <1>10, <1>11, <1>12, <1>13, <1>14, <1>15, <1>16, <1>17, <1>18, <1>19, <1>20, <1>21, <1>22, <1>23, <1>24, ZenonT(60)
    DEF RequestNext, Unwinds

LEMMA RequestInductive == RequestSpec => []HInv
  BY HInitially, HStep, PTL DEF RequestSpec

\* However a request is guarded and whenever its client leaves or the server cancels
\* it: a success answered to the client is committed unless its commit fails or
\* the server cancels it, and a 499 is sent only to a client that left, after the
\* rollback (ClientCancellationGuard, ResponseStartedMarker).
THEOREM AnswersTell == RequestSpec => []AnswerTellsOutcome
  <1>1. HInv => AnswerTellsOutcome
    BY Zenon DEF HInv, AnswerTellsOutcome, GoesOnToCommit, TeardownCompletes, RolledBackFirst,
       AbandonedLeavesNothing
  <1> QED BY <1>1, RequestInductive, PTL

\* No query that QueryGuard.run started outlives its call, and no watcher its request,
\* whatever ends them: the result, the timeout, the client or a cancellation.
THEOREM RequestsLeaveNothing == RequestSpec => []NothingLeftBehind
  <1>1. HInv => NothingLeftBehind
    BY Zenon DEF HInv, NothingLeftBehind, WatchersEnd, Polling
  <1> QED BY <1>1, RequestInductive, PTL

-----------------------------------------------------------------------------
(* The retry loop.                                                         *)

\* The first delay is fed to the first sleep as it is; a sleep is followed by a retry of
\* the budget; once the event is set, the loop sleeps no more after a late call.
RInv ==
  /\ RetryTypeOK
  /\ DelayBounded
  /\ ExhaustedAfterBudget
  /\ CancelStopsSoon
  /\ stage = "calling" /\ retry_count = 0 => delay = InitialDelay
  /\ stage = "sleeping" => retry_count < MaxRetries
  /\ ~cancelled => late = 0
  /\ late = 1 => stage # "sleeping"

\* The larger of the two configured delays.
LEMMA CapBounds == Cap \in Nat /\ InitialDelay <= Cap /\ MaxDelay <= Cap /\ Cap > 0
BY RetryAssumption DEF Cap

\* Growing a delay of at least one unit gives at least one unit.
LEMMA ProductPositive ==
  ASSUME NEW a \in Nat, NEW b \in Nat, a >= 1, b >= 1
  PROVE  a * b \in Nat /\ a * b >= 1
<1>1. a * b \in Nat
  BY SMT
<1>2. PICK c \in Nat : b = c + 1
  <2>1. b - 1 \in Nat /\ b = (b - 1) + 1
    BY SMT
  <2>2. QED
    BY <2>1, Zenon
<1>3. a * b = a * c + a
  BY <1>2, SMT
<1>4. a * c \in Nat
  BY SMT
<1>5. QED
  BY <1>1, <1>3, <1>4, SMT

\* The delay before jitter stays below the larger of the two.
LEMMA GrownBounded ==
  ASSUME RInv, stage = "calling"
  PROVE  Grown \in Nat /\ 1 <= Grown /\ Grown <= Cap
<1>1. delay \in Nat /\ 1 <= delay /\ retry_count \in Nat
  BY RetryAssumption DEF RInv, RetryTypeOK, DelayBounded
<1>2. Factor \in Nat /\ Factor >= 1 /\ MaxDelay \in Nat /\ MaxDelay >= 1
  BY RetryAssumption
<1>3. CASE retry_count = 0
  BY <1>1, <1>3, CapBounds, Zenon DEF RInv, Grown
<1>4. CASE retry_count # 0
  <2>1. delay * Factor \in Nat /\ delay * Factor >= 1
    BY <1>1, <1>2, ProductPositive, Zenon
  <2>2. DEFINE p == delay * Factor
  <2>3. Grown = IF p <= MaxDelay THEN p ELSE MaxDelay
    BY <1>4, Zenon DEF Grown
  <2>4. HIDE DEF p
  <2>5. QED
    BY <2>1, <2>3, <1>2, CapBounds DEF p
<1>5. QED
  BY <1>3, <1>4, Zenon

\* Jitter adds at most a quarter and leaves at least one unit.
LEMMA JitterBounded ==
  ASSUME NEW d \in Nat, 1 <= d, NEW e \in Jittered(d)
  PROVE  e \in Nat /\ 1 <= e /\ 4 * e <= 5 * d
<1>1. d \div 4 \in Nat /\ 4 * (d \div 4) <= d
  BY SMT
<1>2. CASE Jitter
  <2>1. PICK f \in (d - d \div 4)..(d + d \div 4) : e = IF f < 1 THEN 1 ELSE f
    BY <1>2, Zenon DEF Jittered
  <2>2. QED
    BY <1>1, <2>1
<1>3. CASE ~Jitter
  BY <1>3 DEF Jittered
<1>4. QED
  BY <1>2, <1>3, Zenon

-----------------------------------------------------------------------------
LEMMA InitRInv == RetryInit => RInv
<1> SUFFICES ASSUME RetryInit PROVE RInv
  OBVIOUS
<1>1. RetryTypeOK
  BY RetryAssumption DEF RetryInit, RetryTypeOK
<1>2. DelayBounded
  BY RetryAssumption, CapBounds DEF RetryInit, DelayBounded
<1>3. QED
  BY <1>1, <1>2 DEF RetryInit, RInv, ExhaustedAfterBudget, CancelStopsSoon

\* A failure of fn(): the loop ends, or sleeps for a bounded delay.
LEMMA FnFailsKeeps ==
  ASSUME RInv, FnFails
  PROVE  RInv'
<1>1. /\ stage = "calling" /\ late \in Nat /\ delay \in Nat /\ MaxRetries \in Nat
      /\ retry_count \in 0..MaxRetries /\ cancelled \in BOOLEAN
      /\ retry_count' = retry_count /\ cancelled' = cancelled /\ late' = late
  BY RetryAssumption, Zenon DEF RInv, RetryTypeOK, FnFails
<1>2. CASE stage' \in {"cancelled", "exhausted"} /\ delay' = delay
  <2>1. stage' = "exhausted" => retry_count = MaxRetries
    BY <1>1, <1>2 DEF FnFails
  <2>2. QED
    BY <1>1, <1>2, <2>1, Zenon
       DEF RInv, RetryTypeOK, DelayBounded, Cap, ExhaustedAfterBudget, CancelStopsSoon
<1>3. CASE /\ ~cancelled /\ retry_count < MaxRetries
           /\ stage' = "sleeping" /\ delay' \in Jittered(Grown)
  <2>1. Grown \in Nat /\ 1 <= Grown /\ Grown <= Cap
    BY <1>1, GrownBounded, Zenon
  <2>2. delay' \in Nat /\ 1 <= delay' /\ 4 * delay' <= 5 * Grown
    BY <1>3, <2>1, JitterBounded, Zenon
  <2>3. DelayBounded'
    <3>1. \A d, g, c \in Nat : 4 * d <= 5 * g /\ g <= c => 4 * d <= 5 * c
      BY SMT
    <3>2. 4 * delay' <= 5 * Cap
      BY <2>1, <2>2, <3>1, CapBounds, Zenon
    <3>3. QED
      BY <2>2, <3>2, Zenon DEF DelayBounded, Cap
  <2>4. late = 0
    BY <1>3, Zenon DEF RInv
  <2>5. RetryTypeOK'
    BY <1>1, <1>3, <2>2, Zenon DEF RetryTypeOK
  <2>6. QED
    BY <1>1, <1>3, <2>3, <2>4, <2>5
       DEF RInv, ExhaustedAfterBudget, CancelStopsSoon
<1>4. QED
  BY <1>2, <1>3, Zenon DEF FnFails

\* The end of a sleep: a retry of the budget begins.
LEMMA SleepEndsKeeps ==
  ASSUME RInv, SleepEnds
  PROVE  RInv'
<1>1. /\ stage = "sleeping" /\ late = 0 /\ delay \in Nat /\ MaxRetries \in Nat
      /\ retry_count \in 0..MaxRetries /\ retry_count < MaxRetries
  BY RetryAssumption DEF RInv, RetryTypeOK, CancelStopsSoon, SleepEnds
<1>2. late' = IF cancelled THEN 1 ELSE 0
  BY <1>1 DEF SleepEnds
<1>3. retry_count' \in 0..MaxRetries /\ retry_count' # 0
  BY <1>1 DEF SleepEnds
<1>4. RetryTypeOK'
  BY <1>1, <1>2, <1>3 DEF SleepEnds, RInv, RetryTypeOK
<1>5. DelayBounded'
  BY Zenon DEF SleepEnds, RInv, DelayBounded, Cap
<1>6. QED
  BY <1>2, <1>3, <1>4, <1>5 DEF SleepEnds, RInv, ExhaustedAfterBudget, CancelStopsSoon

LEMMA NextRInv == RInv /\ [RetryNext]_retryVars => RInv'
<1> SUFFICES ASSUME RInv, [RetryNext]_retryVars PROVE RInv'
  OBVIOUS
<1>1. CASE FnReturns \/ FnRaisesOther
  BY <1>1, Zenon
    DEF RInv, RetryTypeOK, DelayBounded, Cap, ExhaustedAfterBudget, CancelStopsSoon,
              FnReturns, FnRaisesOther
<1>2. CASE FnFails
  BY <1>2, FnFailsKeeps, Zenon
<1>3. CASE SleepEnds
  BY <1>3, SleepEndsKeeps, Zenon
<1>4. CASE SetCancelEvent
  BY <1>4, Zenon
    DEF RInv, RetryTypeOK, DelayBounded, Cap, ExhaustedAfterBudget, CancelStopsSoon,
              SetCancelEvent
<1>5. CASE UNCHANGED retryVars
  BY <1>5, Zenon
    DEF RInv, RetryTypeOK, DelayBounded, Cap, ExhaustedAfterBudget, CancelStopsSoon,
              retryVars
<1>6. QED
  BY <1>1, <1>2, <1>3, <1>4, <1>5, Zenon DEF RetryNext, LoopStep

-----------------------------------------------------------------------------
\* For every configuration no sleep exceeds the configured delays by more than the jitter,
\* however often the jittered delay is fed back; retry_with_backoff gives up only after
\* max_retries retries; and after cancel_event is set fn() is started at most once more.
THEOREM RetryKeepsPolicy == RetrySpec => []PolicyKept
<1>1. RInv => PolicyKept
  BY Zenon DEF RInv, PolicyKept
<1>2. QED
  BY <1>1, InitRInv, NextRInv, PTL DEF RetrySpec

-----------------------------------------------------------------------------
(* The reload watcher.                                                     *)

\* Only the last process may be alive, none is when the next one is started, every
\* process but the first is owed to a change, and code that is old will be
\* replaced or a change went unnoticed.
WatchInv ==
  /\ version \in 0..Changes /\ events \in Nat /\ loaded \in 0..version
  /\ quiet \in BOOLEAN /\ missed \in BOOLEAN
  /\ restart \in {"idle", "terminate", "join", "start"}
  /\ born \in Nat /\ born >= 1 /\ children \subseteq {born}
  /\ mainpc \in {"watching", "join", "observer", "exit"}
  /\ restart = "start" => children = {}
  /\ born + events + (IF restart = "idle" THEN 0 ELSE 1) <= version + 1
  /\ events = 0 /\ restart = "idle" /\ ~missed => loaded = version

LEMMA WatchStep == WatchInv /\ [ReloadNext]_reloadVars => WatchInv'
  <1> SUFFICES ASSUME WatchInv, [ReloadNext]_reloadVars PROVE WatchInv'
    OBVIOUS
  <1> USE DEF WatchInv
  <1>0. Changes \in Nat
    BY ReloadAssumption, Zenon
  <1>1. CASE FileChanges
    BY <1>0, <1>1, SMTT(30) DEF FileChanges
  <1>2. CASE SecondPasses
    <2>1. quiet' \in BOOLEAN
      BY <1>2, Zenon DEF SecondPasses
    <2> QED BY <1>2, <2>1, Zenon DEF SecondPasses
  <1>3. CASE OnModified
    <2>1. quiet' \in BOOLEAN
      BY <1>3, Zenon DEF OnModified
    <2>2. CASE quiet
      BY <1>3, <2>1, <2>2, SMTT(30) DEF OnModified
    <2>3. CASE ~quiet
      <3>1. missed' /\ missed' \in BOOLEAN
        BY <1>3, <2>3, Zenon DEF OnModified
      <3> QED BY <1>3, <2>1, <2>3, <3>1 DEF OnModified
    <2> QED BY <2>2, <2>3, Zenon
  <1>4. CASE Terminate
    BY <1>4, Zenon DEF Terminate
  <1>5. CASE Joined
    BY <1>5, Zenon DEF Joined
  <1>6. CASE StartChild
    <2>1. missed' \in BOOLEAN
      BY <1>6, Zenon DEF StartChild
    <2>2. children' \subseteq {born'}
      BY <1>6, Zenon DEF StartChild
    <2> QED BY <1>6, <2>1, <2>2 DEF StartChild
  <1>7. CASE ChildEnds
    <2>1. children' \subseteq children
      BY <1>7, Zenon DEF ChildEnds
    <2> QED BY <1>7, <2>1, Zenon DEF ChildEnds
  <1>8. CASE Interrupt
    BY <1>8, Zenon DEF Interrupt
  <1>9. CASE FirstJoined
    BY <1>9, Zenon DEF FirstJoined
  <1>10. CASE ObserverJoined
    BY <1>10, Zenon DEF ObserverJoined
  <1>11. CASE UNCHANGED reloadVars
    BY <1>11, Zenon DEF reloadVars
  <1>12. CASE FileMoves
    <2>1. missed' /\ missed' \in BOOLEAN
      BY <1>12, Zenon DEF FileMoves
    <2> QED BY <1>0, <1>12, <2>1, SMTT(30) DEF FileMoves
  <1> QED BY <1>1, <1>2, <1>3, <1>4, <1>5, <1>6, <1>7, <1>8, <1>9, <1>10, <1>11, <1>12, Zenon
          DEF ReloadNext, RestartStep, MainStep

\* However often the files change and whenever Ctrl-C is pressed, two generations of the
\* process never run together, and the newest code runs once the changes are handled, unless
\* one fell within the debounce second, or moved a file (run_with_reload_watcher).
THEOREM ReloadsInTurn == ReloadSpec => []RunsLatestAlone
  <1>1. ReloadInit => WatchInv
    <2>1. ReloadInit => quiet \in BOOLEAN /\ missed \in BOOLEAN
      BY Zenon DEF ReloadInit
    <2> QED BY <2>1, ReloadAssumption DEF ReloadInit, WatchInv
  <1>2. WatchInv => RunsLatestAlone
    <2> SUFFICES ASSUME WatchInv PROVE RunsLatestAlone
      BY Zenon
    <2>0. version <= Changes /\ born <= Changes + 1 /\ events <= Changes
      BY ReloadAssumption DEF WatchInv
    <2>1. ReloadTypeOK
      <3>1. children \subseteq 1..born
        BY DEF WatchInv
      <3> QED BY <2>0, <3>1, ReloadAssumption DEF WatchInv, ReloadTypeOK
    <2>2. children = {} \/ children = {born}
      BY Zenon DEF WatchInv
    <2>3. OneChild
      BY <2>2, Zenon DEF OneChild
    <2>4. StaleOnlyIfMissed
      BY Zenon DEF WatchInv, StaleOnlyIfMissed
    <2> QED BY <2>1, <2>3, <2>4, Zenon DEF RunsLatestAlone
  <1> QED BY <1>1, <1>2, WatchStep, PTL DEF ReloadSpec
=============================================================================
