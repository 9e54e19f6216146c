----------------------------- MODULE MCExecutor -----------------------------
(***************************************************************************)
(* Small instances of Executor: two StandardErrors (one of them the        *)
(* ArgumentError), one Interrupt, up to three attempts, and the three      *)
(* signs of a delay.                                                       *)
(***************************************************************************)
EXTENDS Executor

CONSTANTS NetworkError, ArgumentError, Interrupt

MCStandard == {NetworkError, ArgumentError}
MCSevere == {Interrupt}

MCOptions ==
    [max_attempts : {-1, 0, 1, 2, 3},
     retryable : {{}, {NetworkError}, MCStandard, {NetworkError, Interrupt}},
     delays : {{}, {0}, {-1, 1}, {1}},
     hooks : SUBSET Hooks, async : BOOLEAN]

\* A fallback, and a policy that retries nothing but network errors.
MCFallback ==
    [max_attempts : {3}, retryable : {{NetworkError}}, delays : {{1}},
     hooks : {{"on_failure"}}, async : {FALSE}]
=============================================================================
