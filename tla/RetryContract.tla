---------------------------- MODULE RetryContract ----------------------------
(***************************************************************************)
(* What a bounded retry promises its caller, whichever language runs it:   *)
(* an operation is attempted again only while its last failure may be      *)
(* retried and the budget of attempts is not spent, and the verdict tells  *)
(* the caller how the last attempt ended.  RetryLoop (the Rust builder)    *)
(* and Executor (the Ruby executor) are shown to implement it.             *)
(***************************************************************************)
EXTENDS Naturals

VARIABLES budget,               \* attempts the caller pays for
          calls,                \* attempts finished so far
          last,                 \* how the last attempt ended
          verdict               \* what the caller was told

vars == <<budget, calls, last, verdict>>

Endings == {"none", "ok", "retryable", "fatal"}
Verdicts == {"idle", "running", "ok", "exhausted", "rejected", "aborted"}

Init ==
    /\ budget \in Nat \ {0}
    /\ calls = 0
    /\ last = "none"
    /\ verdict = "idle"

Begin ==
    /\ verdict = "idle"
    /\ verdict' = "running"
    /\ UNCHANGED <<budget, calls, last>>

\* A first attempt is always made; another one only after a retryable
\* failure and within the budget.
Attempt ==
    /\ verdict = "running"
    /\ calls < budget
    /\ last \in {"none", "retryable"}
    /\ calls' = calls + 1
    /\ last' \in Endings \ {"none"}
    /\ UNCHANGED <<budget, verdict>>

\* The loop may stop on a retryable failure only when the budget is spent.
Conclude ==
    /\ verdict = "running"
    /\ \/ last = "ok" /\ verdict' = "ok"
       \/ last = "fatal" /\ verdict' = "rejected"
       \/ last = "retryable" /\ calls = budget /\ verdict' = "exhausted"
    /\ UNCHANGED <<budget, calls, last>>

\* Code supplied by the caller (operation, callback, sleeper) unwinds.
Abort ==
    /\ verdict = "running"
    /\ verdict' = "aborted"
    /\ UNCHANGED <<budget, calls, last>>

Next == Begin \/ Attempt \/ Conclude \/ Abort

Spec == Init /\ [][Next]_vars /\ WF_vars(Attempt \/ Conclude)
=============================================================================
