---------------------------- MODULE RetryBackoff ----------------------------
(***************************************************************************)
(* retry_with_backoff (src/jararaca/utils/retry.py): the loop every        *)
(* connection and consumer set-up of the worker and of the beat worker     *)
(* runs in.  Delays are integers, a unit being the 0.1 s that jitter never *)
(* goes below; the jitter of 25% is rounded towards zero.                  *)
(***************************************************************************)
EXTENDS Integers

CONSTANTS
  MaxRetries,    \* max_retries
  InitialDelay,  \* initial_delay
  MaxDelay,      \* max_delay
  Factor,        \* backoff_factor
  Jitter         \* jitter

ASSUME RetryAssumption ==
  /\ MaxRetries \in Nat
  /\ InitialDelay \in Nat /\ InitialDelay > 0
  /\ MaxDelay \in Nat /\ MaxDelay > 0
  /\ Factor \in Nat /\ Factor > 0
  /\ Jitter \in BOOLEAN

VARIABLES
  stage,       \* "calling" fn(), "sleeping", or how the loop ended
  retry_count, \* the loop's counter
  delay,       \* the delay, which the loop feeds back
  cancelled,   \* cancel_event is set
  late         \* how many times fn() was started after that (history)

retryVars == <<stage, retry_count, delay, cancelled, late>>

RetryTypeOK ==
  /\ stage \in {"calling", "sleeping", "returned", "raised", "exhausted", "cancelled"}
  /\ retry_count \in 0..MaxRetries
  /\ delay \in Nat
  /\ cancelled \in BOOLEAN
  /\ late \in Nat

RetryInit ==
  /\ stage = "calling"
  /\ retry_count = 0
  /\ delay = InitialDelay
  /\ cancelled \in BOOLEAN
  /\ late = IF cancelled THEN 1 ELSE 0

-----------------------------------------------------------------------------
\* Mutation of Grown: the delay grows without max_delay.
GrownUncapped ==
  IF retry_count = 0 THEN delay ELSE delay * Factor

\* The delay before the next attempt, without jitter.
Grown ==
  IF retry_count = 0 THEN delay
  ELSE IF delay * Factor <= MaxDelay THEN delay * Factor ELSE MaxDelay

\* What jitter makes of it, at least one unit.
Jittered(d) ==
  IF Jitter THEN {IF e < 1 THEN 1 ELSE e : e \in (d - d \div 4)..(d + d \div 4)} ELSE {d}

FnReturns ==
  /\ stage = "calling"
  /\ stage' = "returned"
  /\ UNCHANGED <<retry_count, delay, cancelled, late>>

\* An exception that is not in retry_exceptions passes through.
FnRaisesOther ==
  /\ stage = "calling"
  /\ stage' = "raised"
  /\ UNCHANGED <<retry_count, delay, cancelled, late>>

\* One of retry_exceptions: the event is looked at first, the budget second.
FnFails ==
  /\ stage = "calling"
  /\ \/ /\ cancelled
        /\ stage' = "cancelled"
        /\ UNCHANGED delay
     \/ /\ ~cancelled /\ retry_count >= MaxRetries
        /\ stage' = "exhausted"
        /\ UNCHANGED delay
     \/ /\ ~cancelled /\ retry_count < MaxRetries
        /\ stage' = "sleeping"
        /\ delay' \in Jittered(Grown)
  /\ UNCHANGED <<retry_count, cancelled, late>>

\* The sleep ends; nothing looks at the event before fn() is called again.
SleepEnds ==
  /\ stage = "sleeping"
  /\ stage' = "calling"
  /\ retry_count' = retry_count + 1
  /\ late' = IF cancelled THEN late + 1 ELSE late
  /\ UNCHANGED <<delay, cancelled>>

\* The owner sets cancel_event, when it shuts down.
SetCancelEvent ==
  /\ ~cancelled
  /\ cancelled' = TRUE
  /\ UNCHANGED <<stage, retry_count, delay, late>>

LoopStep == FnReturns \/ FnRaisesOther \/ FnFails \/ SleepEnds

RetryNext == LoopStep \/ SetCancelEvent

RetrySpec == RetryInit /\ [][RetryNext]_retryVars

\* fn() returns or raises, and the sleep ends.
RetryFairness == WF_retryVars(LoopStep)

-----------------------------------------------------------------------------
Cap == IF InitialDelay > MaxDelay THEN InitialDelay ELSE MaxDelay

\* No sleep is longer than max_delay (or than initial_delay, which the first sleep
\* takes uncapped) by more than the jitter, although the jittered delay is fed back
\* into the next one; and none is shorter than one unit.
DelayBounded == 1 <= delay /\ 4 * delay <= 5 * Cap

\* The loop gives up on retryable failures only after max_retries retries.
ExhaustedAfterBudget == stage = "exhausted" => retry_count = MaxRetries

\* Once the event is set, fn() is started at most once more.
CancelStopsSoon == late <= 1

\* The loop keeps its policy.
PolicyKept == RetryTypeOK /\ DelayBounded /\ ExhaustedAfterBudget /\ CancelStopsSoon

RetryBegun == retry_count > 0 \/ cancelled
RetryOver == stage \in {"returned", "raised", "exhausted", "cancelled"}

\* The loop ends, whatever fn() does, once it has begun to retry or the event is set.
RetryEnds == RetryBegun ~> RetryOver
=============================================================================
