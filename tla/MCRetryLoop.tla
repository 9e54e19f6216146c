----------------------------- MODULE MCRetryLoop -----------------------------
(***************************************************************************)
(* Small instances of RetryLoop: an attempt counter that saturates at 4    *)
(* and a delay counter that saturates at 5, so that both limits are met.   *)
(***************************************************************************)
EXTENDS RetryLoop

CONSTANTS Refused, Timeout

MCErrors == {Refused, Timeout}

Attempts == 1..AttemptMax
Jittered == [a \in Attempts |-> {0, a}]                 \* grows, with jitter
Capped == [a \in Attempts |-> {U64Max}]               \* always the longest

\* Exponential, constant and Fibonacci differ here only in their delays.
MCBuiltIns == {BuiltIn(max, delays) : max \in 0..AttemptMax,
                                      delays \in {Jittered, Capped}}

\* Strategies only a caller can write: one that never stops, one whose
\* delay() stops earlier than should_retry, one that reports no limit.
Forever == [max |-> AttemptMax, retries |-> Attempts,
            delays |-> [a \in Attempts |-> {1, 2}]]
StopsEarly == [max |-> 3, retries |-> {1, 2},
               delays |-> [a \in Attempts |-> IF a = 1 THEN {2} ELSE {}]]
Unlimited == [max |-> 0, retries |-> {1, 2, 3}, delays |-> Jittered]
MCAnyStrategy == MCBuiltIns \cup {Forever, StopsEarly, Unlimited}
=============================================================================
