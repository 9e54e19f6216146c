------------------------------ MODULE Executor ------------------------------
(***************************************************************************)
(* One call of the Ruby executor (lib/chrono_machines/executor.rb), with   *)
(* the sleep of async_support.rb inside an Async task.  The call keeps its *)
(* state in local variables and the executor's settings never change, so   *)
(* calls do not affect each other and one of them says it all.             *)
(***************************************************************************)
EXTENDS Integers, FiniteSets

CONSTANTS Standard,     \* exceptions that are a StandardError
          Severe,       \* those that are not: Interrupt, SystemExit, and the
                        \* throw or thread kill that leaves the block likewise
          BadArgument,  \* the ArgumentError of calculate_delay
          NoException,
          Options       \* the settings an executor may have

Exceptions == Standard \cup Severe
Hooks == {"on_success", "on_retry", "on_failure"}

\* retryable: the exceptions that are a retryable_exceptions entry; delays:
\* what calculate_delay may answer, none if it raises (unknown strategy,
\* jitter factor that is no number); async: inside an Async task.
OptionType == [max_attempts : Int, retryable : SUBSET Exceptions,
               delays : SUBSET Int, hooks : SUBSET Hooks, async : BOOLEAN]

ASSUME ExecutorAssumption ==
    /\ Standard \cap Severe = {}
    /\ BadArgument \in Standard
    /\ NoException \notin Exceptions
    /\ Options \subseteq OptionType

VARIABLES options,
          pc,
          attempts,
          error,        \* e, the exception that was rescued last
          delay,
          raised,       \* the exception that leaves the call, why, and from
                        \* where in the call
          \* What an observer outside the call saw (not program state):
          finished,     \* attempts that ended: the block and its on_success
          notices,      \* calls of on_retry
          fallbacks,    \* calls of on_failure
          severe        \* Severe exceptions raised by the caller's code

vars == <<options, pc, attempts, error, delay, raised,
          finished, notices, fallbacks, severe>>

\* Exhausted: MaxRetriesExceededError, which carries the error; NotRetryable:
\* the error itself; Escaped: raised by the caller's code or by
\* calculate_delay, and not rescued.
Raised(via, e, from) == [via |-> via, error |-> e, from |-> from]
NotRaised == Raised("None", NoException, "ready")

Init ==
    /\ options \in Options
    /\ pc = "ready"
    /\ attempts = 0
    /\ error = NoException
    /\ delay = 0
    /\ raised = NotRaised
    /\ finished = 0 /\ notices = 0 /\ fallbacks = 0 /\ severe = {}

Call ==
    /\ pc = "ready"
    /\ pc' = "yield"
    /\ UNCHANGED <<options, attempts, error, delay, raised,
                   finished, notices, fallbacks, severe>>

-----------------------------------------------------------------------------
\* The body: the block, then on_success.  Both are inside the begin.

\* An exception leaves the call.
Escapes(e) ==
    /\ pc' = "raised"
    /\ raised' = Raised("Escaped", e, pc)
    /\ severe' = severe \cup ({e} \cap Severe)

\* mutant: rescue Exception
BodyRescuesAll(e) ==
    /\ pc' = "rescue" /\ error' = e /\ finished' = finished + 1
    /\ UNCHANGED <<raised, severe>>
\* mutant: the first exception is kept
BodyKeepsFirst(e) ==
    \/ /\ e \in Standard
       /\ pc' = "rescue" /\ finished' = finished + 1
       /\ error' = IF error = NoException THEN e ELSE error
       /\ UNCHANGED <<raised, severe>>
    \/ /\ e \in Severe
       /\ Escapes(e)
       /\ UNCHANGED <<error, finished>>
\* rescue StandardError
BodyRaises(e) ==
    \/ /\ e \in Standard
       /\ pc' = "rescue" /\ error' = e /\ finished' = finished + 1
       /\ UNCHANGED <<raised, severe>>
    \/ /\ e \in Severe
       /\ Escapes(e)
       /\ UNCHANGED <<error, finished>>

YieldReturns ==
    /\ pc = "yield"
    /\ attempts' = attempts + 1
    /\ pc' = "succeeded"
    /\ UNCHANGED <<options, error, delay, raised,
                   finished, notices, fallbacks, severe>>

YieldRaises(e) ==
    /\ pc = "yield"
    /\ attempts' = attempts + 1
    /\ BodyRaises(e)
    /\ UNCHANGED <<options, delay, notices, fallbacks>>

Yield == YieldReturns \/ \E e \in Exceptions : YieldRaises(e)

OnSuccess ==
    /\ pc = "succeeded"
    /\ \/ /\ pc' = "return" /\ finished' = finished + 1
          /\ UNCHANGED <<error, raised, severe>>
       \/ /\ "on_success" \in options.hooks
          /\ \E e \in Exceptions : BodyRaises(e)
    /\ UNCHANGED <<options, attempts, delay, notices, fallbacks>>

Return ==
    /\ pc = "return"
    /\ pc' = "returned"
    /\ UNCHANGED <<options, attempts, error, delay, raised,
                   finished, notices, fallbacks, severe>>

-----------------------------------------------------------------------------
\* The rescue clause.

FinalFailure(via) ==
    /\ pc' = "final"
    /\ raised' = Raised(via, error, pc)
    /\ UNCHANGED <<options, attempts, error, delay,
                   finished, notices, fallbacks, severe>>

NotRetryable ==
    /\ pc = "rescue"
    /\ error \notin options.retryable
    /\ FinalFailure("NotRetryable")

\* mutant: the attempts are counted before the exception is looked at
ExhaustedFirst ==
    /\ pc = "rescue"
    /\ attempts >= options.max_attempts
    /\ FinalFailure("Exhausted")
Exhausted ==
    /\ pc = "rescue"
    /\ error \in options.retryable
    /\ attempts >= options.max_attempts
    /\ FinalFailure("Exhausted")

\* mutant: an error of the fallback is not rescued
HandleFinalFailureUnguarded ==
    /\ pc = "final"
    /\ IF "on_failure" \in options.hooks
       THEN /\ fallbacks' = fallbacks + 1
            /\ \/ pc' = "raised" /\ UNCHANGED <<raised, severe>>
               \/ \E e \in Exceptions : Escapes(e)
       ELSE pc' = "raised" /\ UNCHANGED <<raised, fallbacks, severe>>
    /\ UNCHANGED <<options, attempts, error, delay, finished, notices>>
\* The fallback returns or raises a StandardError, which is swallowed; then
\* the pending exception is raised.
HandleFinalFailure ==
    /\ pc = "final"
    /\ IF "on_failure" \in options.hooks
       THEN /\ fallbacks' = fallbacks + 1
            /\ \/ pc' = "raised" /\ UNCHANGED <<raised, severe>>
               \/ \E e \in Severe : Escapes(e)
       ELSE pc' = "raised" /\ UNCHANGED <<raised, fallbacks, severe>>
    /\ UNCHANGED <<options, attempts, error, delay, finished, notices>>

CalculateDelay ==
    /\ pc = "rescue"
    /\ error \in options.retryable
    /\ attempts < options.max_attempts
    /\ \/ /\ delay' \in options.delays
          /\ pc' = "on_retry"
          /\ UNCHANGED <<raised, severe>>
       \/ /\ options.delays = {}
          /\ Escapes(BadArgument)
          /\ UNCHANGED delay
    /\ UNCHANGED <<options, attempts, error, finished, notices, fallbacks>>

\* mutant: a retry without delay is not announced
OnRetryDelayed ==
    /\ pc = "on_retry"
    /\ IF "on_retry" \in options.hooks /\ delay > 0
       THEN /\ notices' = notices + 1
            /\ \/ pc' = "sleep" /\ UNCHANGED <<raised, severe>>
               \/ \E e \in Exceptions : Escapes(e)
       ELSE pc' = "sleep" /\ UNCHANGED <<raised, notices, severe>>
    /\ UNCHANGED <<options, attempts, error, delay, finished, fallbacks>>
\* mutant: an error of on_retry is a final failure
OnRetryFallsBack ==
    /\ pc = "on_retry"
    /\ IF "on_retry" \in options.hooks
       THEN /\ notices' = notices + 1
            /\ \/ pc' = "sleep" /\ UNCHANGED <<raised, fallbacks, severe>>
               \/ /\ \E e \in Exceptions : Escapes(e)
                  /\ fallbacks' =
                         IF "on_failure" \in options.hooks THEN 1 ELSE 0
       ELSE pc' = "sleep" /\ UNCHANGED <<raised, notices, fallbacks, severe>>
    /\ UNCHANGED <<options, attempts, error, delay, finished>>
\* What on_retry raises leaves the call: no fallback for it.
OnRetry ==
    /\ pc = "on_retry"
    /\ IF "on_retry" \in options.hooks
       THEN /\ notices' = notices + 1
            /\ \/ pc' = "sleep" /\ UNCHANGED <<raised, severe>>
               \/ \E e \in Exceptions : Escapes(e)
       ELSE pc' = "sleep" /\ UNCHANGED <<raised, notices, severe>>
    /\ UNCHANGED <<options, attempts, error, delay, finished, fallbacks>>

\* mutant: the rescue of Interrupt does not raise it again
RobustSleepRescuesAll ==
    /\ pc = "sleep" /\ ~options.async
    /\ \/ pc' = "yield" /\ UNCHANGED severe
       \/ /\ delay > 0
          /\ \E e \in Severe : severe' = severe \cup {e}
          /\ pc' = "yield"
    /\ UNCHANGED <<options, attempts, error, delay, raised,
                   finished, notices, fallbacks>>
\* mutant: a delay that is not positive sleeps for ever
RobustSleepForever ==
    /\ pc = "sleep" /\ ~options.async
    /\ \/ delay > 0 /\ pc' = "yield" /\ UNCHANGED <<raised, severe>>
       \/ delay > 0 /\ \E e \in Severe : Escapes(e)
       \/ delay <= 0 /\ UNCHANGED <<pc, raised, severe>>
    /\ UNCHANGED <<options, attempts, error, delay,
                   finished, notices, fallbacks>>
\* A delay that is not positive is skipped.  Otherwise the sleep ends, or is
\* cut short by a StandardError, which is swallowed: either way the body is
\* run again.  Anything else that interrupts the sleep leaves the call.
RobustSleep ==
    /\ pc = "sleep" /\ ~options.async
    /\ \/ pc' = "yield" /\ UNCHANGED <<raised, severe>>
       \/ delay > 0 /\ \E e \in Severe : Escapes(e)
    /\ UNCHANGED <<options, attempts, error, delay,
                   finished, notices, fallbacks>>

\* Inside an Async task: a plain sleep, whatever the delay; whatever stops
\* the task meanwhile (a timeout is a StandardError) leaves the call.
AsyncSleep ==
    /\ pc = "sleep" /\ options.async
    /\ \/ pc' = "yield" /\ UNCHANGED <<raised, severe>>
       \/ \E e \in Exceptions : Escapes(e)
    /\ UNCHANGED <<options, attempts, error, delay,
                   finished, notices, fallbacks>>

Done == pc \in {"returned", "raised"} /\ UNCHANGED vars

Step == \/ Yield \/ OnSuccess \/ Return
        \/ NotRetryable \/ Exhausted \/ HandleFinalFailure
        \/ CalculateDelay \/ OnRetry \/ RobustSleep \/ AsyncSleep

Next == Call \/ Step \/ Done

\* A call that has begun keeps running; the caller's code and sleeps return.
Spec == Init /\ [][Next]_vars /\ WF_vars(Step)

-----------------------------------------------------------------------------
\* Properties.

\* The rescue clause only ever holds a StandardError.
TypeOK ==
    /\ options \in Options
    /\ pc \in {"ready", "yield", "succeeded", "return", "returned", "rescue",
               "final", "on_retry", "sleep", "raised"}
    /\ attempts \in Nat
    /\ error \in Standard \cup {NoException}
    /\ delay \in options.delays \cup {0}
    /\ raised \in [via : {"None", "Exhausted", "NotRetryable", "Escaped"},
                   error : Exceptions \cup {NoException},
                   from : {"ready", "yield", "succeeded", "rescue", "final",
                           "on_retry", "sleep"}]
    /\ finished \in Nat
    /\ notices \in Nat
    /\ fallbacks \in Nat
    /\ severe \subseteq Severe

\* The fallback is called at most once, and not before the call has failed
\* for good.  It is called for exactly the failures the executor gives up on:
\* a call broken off by an exception it does not rescue, be it of the block,
\* a callback, calculate_delay or the sleep, had none, unless that exception
\* is the fallback's own.
FallbackOnce ==
    /\ fallbacks <= 1
    /\ pc # "raised" => fallbacks = 0
    /\ pc = "raised" =>
           (fallbacks = 1 <=> /\ "on_failure" \in options.hooks
                              /\ raised.via = "Escaped" =>
                                     raised.from = "final")

\* An Interrupt, wherever it strikes (block, callback, sleep), is never
\* swallowed by the retry: the call ends at once, with that exception.
SevereEscapes ==
    severe # {} => pc = "raised" /\ raised.via = "Escaped"
                   /\ severe = {raised.error}

\* An error of the fallback does not mask the failure: the caller gets the
\* last error of the body, wrapped exactly if it was retryable.
FailureKept ==
    pc = "raised" /\ fallbacks = 1 /\ severe = {} =>
        raised = Raised(IF error \in options.retryable THEN "Exhausted"
                                                       ELSE "NotRetryable",
                        error, "rescue")

\* Every retry was announced exactly once before the body runs again.
RetriesAnnounced ==
    pc = "yield" /\ "on_retry" \in options.hooks => notices = attempts

\* The call returns or raises.
CallEnds == pc = "yield" ~> pc \in {"returned", "raised"}

\* Why: each step uses up one of the five that every attempt of the budget
\* has, whatever the block, the callbacks and the sleep do; no path through
\* the rescue clause leads back to the block with as much budget as before.
Budget == IF options.max_attempts < 1 THEN 1 ELSE options.max_attempts
StepsLeft ==
    CASE pc \in {"return", "final"} -> 1
      [] pc \in {"returned", "raised"} -> 0
      [] OTHER -> 5 * (Budget - attempts)
                      + CASE pc = "succeeded" -> 4 [] pc = "rescue" -> 3
                          [] pc = "on_retry" -> 2
                          [] pc \in {"sleep", "ready"} -> 1 [] OTHER -> 0
CallDescends == [][StepsLeft' \in 0..(StepsLeft - 1)]_vars

\* What the comments say of on_failure (configuration.rb): the fallback when
\* all retries are exhausted.
FallbackWhenExhausted == fallbacks = 1 => attempts >= options.max_attempts

-----------------------------------------------------------------------------
\* The executor implements the contract of a bounded retry, if an attempt is
\* the block together with its on_success: an exception of on_success makes
\* the attempt fail, and the block is run again.

Last == IF finished = 0 THEN "none"
        ELSE IF pc \in {"return", "returned"} THEN "ok"
        ELSE IF error \in options.retryable THEN "retryable" ELSE "fatal"
Verdicts == [NotRetryable |-> "rejected", Exhausted |-> "exhausted",
             Escaped |-> "aborted"]
Verdict == IF pc = "ready" THEN "idle"
           ELSE IF pc = "returned" THEN "ok"
           ELSE IF pc = "raised" THEN Verdicts[raised.via] ELSE "running"

Contract == INSTANCE RetryContract
                WITH budget <- Budget, calls <- finished, last <- Last,
                     verdict <- Verdict

\* Every behaviour of a call is a bounded retry: never more than max_attempts
\* attempts, none after a success or an exception that is not retryable, and
\* MaxRetriesExceededError only when all of them were made.
ImplementsContract == Contract!Spec

-----------------------------------------------------------------------------
\* The inductive invariant behind the properties, by what it is about.

Failed == pc \in {"rescue", "final", "on_retry", "sleep"}
Decided(r) == r = Raised(IF error \in options.retryable THEN "Exhausted"
                                                        ELSE "NotRetryable",
                         error, "rescue")

\* The attempts that ended are the attempts that began, but for the current.
AttemptsAgree ==
    /\ pc \in {"ready", "yield"} => finished = attempts
    /\ pc = "ready" => attempts = 0
    /\ pc = "succeeded" => finished + 1 = attempts
    /\ pc \in {"return", "returned"} => finished = attempts /\ attempts > 0
    /\ Failed \/ (pc = "raised" /\ raised.via # "Escaped") =>
           finished = attempts /\ attempts > 0

\* The body runs again only after a retryable error and within the budget.
BudgetAgrees ==
    /\ finished <= Budget
    /\ pc \in {"yield", "succeeded"} =>
           /\ finished < Budget
           /\ finished > 0 => error \in options.retryable
    /\ pc \in {"on_retry", "sleep"} =>
           error \in options.retryable /\ attempts < options.max_attempts
    /\ Failed => error \in Standard

\* What is pending while the fallback runs is what the caller gets.
FailureAgrees ==
    /\ pc = "final" => Decided(raised)
    /\ pc = "final" \/ (pc = "raised" /\ raised.via # "Escaped") =>
           (error \in options.retryable => finished = Budget)
    /\ pc = "raised" =>
           \/ Decided(raised) /\ severe = {}
              /\ (fallbacks = 1 <=> "on_failure" \in options.hooks)
           \/ raised.via = "Escaped" /\ severe = {raised.error} \cap Severe
              /\ (raised.from = "final" =>
                     severe # {} /\ "on_failure" \in options.hooks)
              /\ (fallbacks = 1 <=> raised.from = "final")
    /\ pc # "raised" => fallbacks = 0 /\ severe = {}
    /\ fallbacks <= 1

NoticesAgree ==
    "on_retry" \in options.hooks =>
        /\ pc \in {"ready", "yield", "sleep"} => notices = attempts
        /\ pc \in {"succeeded", "rescue", "on_retry"} => notices + 1 = attempts

IInv == /\ TypeOK
        /\ AttemptsAgree /\ BudgetAgrees /\ FailureAgrees /\ NoticesAgree
=============================================================================
