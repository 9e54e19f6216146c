----------------------------- MODULE RetryDelays -----------------------------
(***************************************************************************)
(* The retry loop (RetryLoop) driven by the strategies that really compute *)
(* its delays (Backoff).                                                   *)
(***************************************************************************)
EXTENDS RetryLoop, Backoff

CONSTANT Policies    \* the settings of the strategies

\* The strategy with given settings, as the loop sees it.
StrategyWith == [p \in Policies |-> StrategyOf(p)]

ASSUME RetryDelaysAssumption ==
    /\ Scalars # {}
    /\ Policies \subseteq PolicyType
    /\ Strategies = {StrategyWith[p] : p \in Policies}

-----------------------------------------------------------------------------
\* Properties.

\* No single delay of the policy is longer.
Longest(p) == IF p.kind = "constant" THEN p.base ELSE p.cap

\* A whole call never sleeps longer than max_attempts - 1 of the longest
\* delays, whatever the random scalars were, whether or not the computation
\* overflowed on the way, and however many retries there were: the loop and
\* the strategy agree on the number of delays, the strategy and its cap on
\* their length.
WaitBounded ==
    \A p \in Policies :
        strategy = StrategyWith[p] =>
            slept <= Longest(p) * SaturatingSub(p.max_attempts, 1)

\* Why: each delay that was slept belongs to a call that was made.
SleepsCounted ==
    \A p \in Policies :
        strategy = StrategyWith[p] =>
            /\ pc = "operate" => slept <= Longest(p) * calls
            /\ pc \in Judging => slept <= Longest(p) * (calls - 1)
            /\ pc \in {"notify", "sleep"} => delay <= Longest(p)
            /\ pc = "build" => slept = 0
=============================================================================
