---------------------------- MODULE MCRetryDelays ----------------------------
(***************************************************************************)
(* A small instance of RetryDelays: u64 ends at 12, floats at 200, so that *)
(* the cap, the saturation and the overflow to infinity all happen.        *)
(***************************************************************************)
EXTENDS RetryDelays

CONSTANTS Refused, Timeout

MCErrors == {Refused, Timeout}

MCScalars == {Zero, One}

\* Limits from 0 to the largest attempt, with a cap that bites and without.
Ordinary ==
    [kind : {"exponential", "constant", "fibonacci"},
     max_attempts : {0, 2, AttemptMax}, base : {5},
     multiplier : {Fraction(2, 1)}, cap : {3, U64Max},
     jitter : {Fraction(1, 2)}]
\* The power becomes infinite, and NaN times a base of 0; jitter out of range.
Overflowing ==
    [kind : {"exponential"}, max_attempts : {AttemptMax}, base : {0, 1},
     multiplier : {Fraction(FloatMax, 1)}, cap : {U64Max},
     jitter : {Fraction(3, 2), NaN}]
MCPolicies == Ordinary \cup Overflowing

MCStrategies == {StrategyWith[p] : p \in Policies}
=============================================================================
