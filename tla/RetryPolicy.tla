----------------------------- MODULE RetryPolicy -----------------------------
(***************************************************************************)
(* How soon and how often a failed delivery is tried again                 *)
(* (runtime/retry.rs): a policy is [attempts, first, max].                 *)
(***************************************************************************)
EXTENDS Naturals

CONSTANT LongestDelay \* Duration::MAX, where doubling saturates

ASSUME LongestDelayAssumption == LongestDelay \in Nat

\* A policy; Duration::MAX is the longest duration there is.
Policies == [attempts : Nat, first : 0..LongestDelay, max : 0..LongestDelay]

Lesser(a, b) == IF a < b THEN a ELSE b

\* Slip: the first attempt's delay is doubled already.
DelayFromZero(policy, attempt) ==
  LET delay[n \in 0..attempt] ==
        IF n = 0 THEN policy.first
        ELSE IF delay[n - 1] = 0 \/ delay[n - 1] >= policy.max THEN delay[n - 1]
        ELSE Lesser(2 * delay[n - 1], LongestDelay)
  IN  Lesser(delay[attempt], policy.max)

\* The wait after attempt number `attempt` failed.
Delay(policy, attempt) ==
  LET delay[n \in 0..attempt] ==
        IF n <= 1 THEN policy.first
        ELSE IF delay[n - 1] = 0 \/ delay[n - 1] >= policy.max THEN delay[n - 1]
        ELSE Lesser(2 * delay[n - 1], LongestDelay)
  IN  Lesser(delay[attempt], policy.max)

IsLast(policy, attempt) == attempt >= policy.attempts

===============================================================================
