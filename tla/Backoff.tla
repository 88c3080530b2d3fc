------------------------------ MODULE Backoff ------------------------------
(***************************************************************************)
(* The delays between the attempts of a step (package retry). A delay is a *)
(* count of time.Duration's units, whose width is that of an int64.        *)
(***************************************************************************)
EXTENDS Integers

CONSTANTS MaxDuration   \* the largest value of a time.Duration

ASSUME BackoffAssumption == MaxDuration \in Nat

VARIABLES policy,   \* the asset's asset.RetryPolicy
          attempt,  \* attempts made
          delay,    \* what Schedule returned for the last one
          waited    \* the delay before

backoffVars == <<policy, attempt, delay, waited>>

IsZero(p) == p.max = 0 /\ p.initial = 0 /\ p.maxDelay = 0 /\ p.jitter = 0

ShouldRetryOnce(n, p) == ~ IsZero(p) /\ n <= p.max
ShouldRetry(n, p)     == ~ IsZero(p) /\ n < p.max

(* Out of range, the conversion of a float to an int64 gives the smallest  *)
(* value there is (on amd64).                                              *)
ToDuration(x) == IF x <= MaxDuration THEN x ELSE -MaxDuration - 1

Doubled(n, p) == p.initial * 2 ^ (n - 1)

UncappedDelay(n, p) == ToDuration(Doubled(n, p))
CappedDelay(n, p) ==
    LET d == ToDuration(Doubled(n, p))
    IN IF p.maxDelay > 0 /\ d > p.maxDelay THEN p.maxDelay ELSE d

(* The delays that Schedule may return: the ends and the middle of the     *)
(* interval of the jitter.                                                 *)
Schedule(n, p) ==
    IF IsZero(p) \/ n < 1 THEN {0}
    ELSE LET d == CappedDelay(n, p)
             jittered == {ToDuration((d * (100 + j)) \div 100) : j \in {-p.jitter, 0, p.jitter}}
         IN IF p.jitter = 0 THEN {d} ELSE {IF x < 0 THEN 0 ELSE x : x \in jittered}

BackoffInit(policies) == /\ policy \in policies
                         /\ attempt = 1 /\ delay = 0 /\ waited = 0

(* The attempt has failed and another one is allowed (scheduleRetry).      *)
Retry == /\ ShouldRetry(attempt, policy)
         /\ delay' \in Schedule(attempt, policy)
         /\ waited' = delay
         /\ attempt' = attempt + 1
         /\ UNCHANGED policy

(* Any policy of durations; the jitter is in percent.                      *)
Policies == [max : Nat, initial : 0 .. MaxDuration, maxDelay : 0 .. MaxDuration, jitter : Nat]
BackoffSpec == BackoffInit(Policies) /\ [][Retry]_backoffVars

-----------------------------------------------------------------------------
(* Attempts are bounded; the delays grow up to the configured ceiling and, *)
(* but for jitter, neither pass it nor shrink, until the product leaves    *)
(* the range of a Duration ("delay = min(InitialDelay * 2^(attempt-1),     *)
(* MaxDelay)", policy.go).                                                 *)
DelaysPaced ==
    /\ attempt <= (IF policy.max > 1 THEN policy.max ELSE 1)
    /\ attempt > 1 /\ Doubled(attempt - 1, policy) <= MaxDuration =>
          /\ policy.maxDelay > 0 => 100 * delay <= policy.maxDelay * (100 + policy.jitter)
          /\ policy.jitter = 0 => delay >= waited
          /\ delay >= 0
=============================================================================
