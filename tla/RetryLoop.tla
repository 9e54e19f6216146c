------------------------------ MODULE RetryLoop ------------------------------
(***************************************************************************)
(* The retry loop of the Rust core: RetryBuilder and its method            *)
(* call_with_sleeper_and_rng (core/src/retry.rs), over any BackoffStrategy *)
(* (core/src/backoff.rs).  A builder is configured with a predicate and    *)
(* callbacks, then consumed by one call.                                   *)
(***************************************************************************)
EXTENDS Widths, FiniteSets

CONSTANTS Errors,       \* the errors the operation may return
          NoError,      \* the operation returned Ok
          Strategies,   \* the backoff strategies a builder may own
          MaxCalls      \* bound on the operation's calls (model checking only)

(***************************************************************************)
(* A strategy is the trait BackoffStrategy as the loop sees it: the limit  *)
(* it reports (max_attempts), the attempts after which should_retry holds, *)
(* and for each attempt the delays that delay() may draw (none for None).  *)
(***************************************************************************)
StrategyType == [max : 0..AttemptMax,
                 retries : SUBSET (1..AttemptMax),
                 delays : [1..AttemptMax -> SUBSET (0..U64Max)]]

\* Exponential, Constant and Fibonacci backoff all decide with
\* attempt < max_attempts, in should_retry and again in delay.
BuiltIn(max, delays) ==
    [max |-> max,
     retries |-> {a \in 1..AttemptMax : a < max},
     delays |-> [a \in 1..AttemptMax |-> IF a < max THEN delays[a] ELSE {}]]

IsBuiltIn(s) ==
    \A a \in 1..AttemptMax : /\ a \in s.retries <=> a < s.max
                             /\ s.delays[a] # {} <=> a < s.max

BuiltInStrategies == \A s \in Strategies : IsBuiltIn(s)

ASSUME ConstantsAssumption ==
    /\ NoError \notin Errors
    /\ MaxCalls \in Nat
    /\ Strategies \subseteq StrategyType

VARIABLES strategy,             \* self.backoff
          accepts,              \* the errors self.when retries (all if unset)
          hooks,                \* the callbacks that are set
          pc,                   \* where the call is
          attempt,              \* the u8 attempt counter
          cumulative_delay_ms,  \* the u64 sum of the delays
          result,               \* what the operation last returned
          delay,                \* the delay drawn for the next sleep
          outcome,              \* the value handed to the caller
          \* What an observer outside the loop saw (not program state):
          calls,                \* how often the operation was called
          slept,                \* the exact sum of the sleeps
          notices,              \* how often notify was called
          heard                 \* the last context given to a callback

program == <<strategy, accepts, hooks, attempt, cumulative_delay_ms,
             result, delay, outcome>>
observer == <<calls, slept, notices, heard>>
vars == <<program, pc, observer>>

Hooks == {"notify", "on_success", "on_failure"}
Results == Errors \cup {NoError}
Running == {"operate", "succeed", "judge", "notify", "sleep", "fail"}

\* RetryOutcome and RetryError: kind "Ok" stands for the former.
Outcomes == [kind : {"None", "Ok", "Exhausted", "PredicateRejected"},
             error : Results, attempts : 0..AttemptMax,
             max_attempts : 0..AttemptMax, cumulative : 0..U64Max]
NoOutcome == [kind |-> "None", error |-> NoError, attempts |-> 0,
              max_attempts |-> 0, cumulative |-> 0]
Finished(kind) == [kind |-> kind, error |-> result, attempts |-> attempt,
                   max_attempts |-> strategy.max,
                   cumulative |-> cumulative_delay_ms]

\* RetryContext; next_delay_ms is a set with at most one delay.
Contexts == [hook : Hooks \cup {"none"}, attempt : 0..AttemptMax,
             next : SUBSET (0..U64Max), cumulative : 0..U64Max,
             error : Results]
NoContext == [hook |-> "none", attempt |-> 0, next |-> {}, cumulative |-> 0,
              error |-> NoError]
Context(hook, next) == [hook |-> hook, attempt |-> attempt, next |-> next,
                        cumulative |-> cumulative_delay_ms, error |-> result]

Init ==
    /\ strategy \in Strategies
    /\ accepts = Errors
    /\ hooks = {}
    /\ pc = "build"
    /\ attempt = 1
    /\ cumulative_delay_ms = 0
    /\ result = NoError
    /\ delay = 0
    /\ outcome = NoOutcome
    /\ calls = 0 /\ slept = 0 /\ notices = 0 /\ heard = NoContext

-----------------------------------------------------------------------------
\* The builder.  A later predicate replaces an earlier one.

When(predicate) ==
    /\ pc = "build"
    /\ accepts' = predicate
    /\ UNCHANGED <<strategy, hooks, pc, attempt, cumulative_delay_ms, result,
                   delay, outcome, observer>>

SetHook(hook) ==
    /\ pc = "build"
    /\ hooks' = hooks \cup {hook}
    /\ UNCHANGED <<strategy, accepts, pc, attempt, cumulative_delay_ms, result,
                   delay, outcome, observer>>

\* The call consumes the builder and sets the loop's counters.
Call ==
    /\ pc = "build"
    /\ pc' = "operate"
    /\ attempt' = 1
    /\ cumulative_delay_ms' = 0
    /\ UNCHANGED <<strategy, accepts, hooks, result, delay, outcome, observer>>

-----------------------------------------------------------------------------
\* The loop.

Operate ==
    /\ pc = "operate"
    /\ calls < MaxCalls
    /\ result' \in Results
    /\ pc' = IF result' = NoError THEN "succeed" ELSE "judge"
    /\ calls' = calls + 1
    /\ UNCHANGED <<strategy, accepts, hooks, attempt, cumulative_delay_ms,
                   delay, outcome, slept, notices, heard>>

Succeed ==
    /\ pc = "succeed"
    /\ heard' = IF "on_success" \in hooks THEN Context("on_success", {})
                                          ELSE heard
    /\ outcome' = Finished("Ok")
    /\ pc' = "done"
    /\ UNCHANGED <<strategy, accepts, hooks, attempt, cumulative_delay_ms,
                   result, delay, calls, slept, notices>>

\* Build the terminal RetryError; finalize_failure reports it (Fail).
Finalize(kind) ==
    /\ outcome' = Finished(kind)
    /\ pc' = "fail"
    /\ UNCHANGED <<strategy, accepts, hooks, attempt, cumulative_delay_ms,
                   result, delay, observer>>

\* The predicate is asked before the attempts are counted.
Reject ==
    /\ pc = "judge"
    /\ result \notin accepts
    /\ Finalize("PredicateRejected")

\* mutant: the attempts are counted before the predicate is asked
ExhaustFirst ==
    /\ pc = "judge"
    /\ attempt \notin strategy.retries
    /\ Finalize("Exhausted")

Exhaust ==
    /\ pc = "judge"
    /\ result \in accepts
    /\ attempt \notin strategy.retries
    /\ Finalize("Exhausted")

\* mutant: this path returns without finalize_failure's callback
GiveUpSilently ==
    /\ pc = "judge"
    /\ result \in accepts
    /\ attempt \in strategy.retries
    /\ strategy.delays[attempt] = {}
    /\ outcome' = Finished("Exhausted")
    /\ pc' = "done"
    /\ UNCHANGED <<strategy, accepts, hooks, attempt, cumulative_delay_ms,
                   result, delay, observer>>

\* should_retry holds but delay() answers None.
GiveUp ==
    /\ pc = "judge"
    /\ result \in accepts
    /\ attempt \in strategy.retries
    /\ strategy.delays[attempt] = {}
    /\ Finalize("Exhausted")

\* mutant: the predicate is not asked
BackoffUnjudged ==
    /\ pc = "judge"
    /\ attempt \in strategy.retries
    /\ delay' \in strategy.delays[attempt]
    /\ pc' = "notify"
    /\ UNCHANGED <<strategy, accepts, hooks, attempt, cumulative_delay_ms,
                   result, outcome, observer>>

Backoff ==
    /\ pc = "judge"
    /\ result \in accepts
    /\ attempt \in strategy.retries
    /\ delay' \in strategy.delays[attempt]
    /\ pc' = "notify"
    /\ UNCHANGED <<strategy, accepts, hooks, attempt, cumulative_delay_ms,
                   result, outcome, observer>>

\* mutant: a retry without delay is not announced
NotifyLongDelays ==
    /\ pc = "notify"
    /\ IF "notify" \in hooks /\ delay > 0
       THEN heard' = Context("notify", {delay}) /\ notices' = notices + 1
       ELSE UNCHANGED <<heard, notices>>
    /\ pc' = "sleep"
    /\ UNCHANGED <<program, calls, slept>>

Notify ==
    /\ pc = "notify"
    /\ IF "notify" \in hooks
       THEN heard' = Context("notify", {delay}) /\ notices' = notices + 1
       ELSE UNCHANGED <<heard, notices>>
    /\ pc' = "sleep"
    /\ UNCHANGED <<program, calls, slept>>

\* mutant: the retry is not counted
SleepUncounted ==
    /\ pc = "sleep"
    /\ slept' = slept + delay
    /\ cumulative_delay_ms' =
           SaturatingAdd(cumulative_delay_ms, delay, U64Max)
    /\ pc' = "operate"
    /\ UNCHANGED <<strategy, accepts, hooks, attempt, result, delay, outcome,
                   calls, notices, heard>>

\* mutant: only the last delay is reported
SleepOverwrites ==
    /\ pc = "sleep"
    /\ slept' = slept + delay
    /\ cumulative_delay_ms' = delay
    /\ attempt' = SaturatingAdd(attempt, 1, AttemptMax)
    /\ pc' = "operate"
    /\ UNCHANGED <<strategy, accepts, hooks, result, delay, outcome, calls,
                   notices, heard>>

Sleep ==
    /\ pc = "sleep"
    /\ slept' = slept + delay
    /\ cumulative_delay_ms' =
           SaturatingAdd(cumulative_delay_ms, delay, U64Max)
    /\ attempt' = SaturatingAdd(attempt, 1, AttemptMax)
    /\ pc' = "operate"
    /\ UNCHANGED <<strategy, accepts, hooks, result, delay, outcome, calls,
                   notices, heard>>

Fail ==
    /\ pc = "fail"
    /\ heard' = IF "on_failure" \in hooks THEN Context("on_failure", {})
                                          ELSE heard
    /\ pc' = "done"
    /\ UNCHANGED <<program, calls, slept, notices>>

\* Code of the caller panics: the operation, the predicate, the random
\* number generator, the sleeper, or a callback that is set.  Everything the
\* call knew is dropped with its frame.
Unwind ==
    /\ pc \in Running
    /\ pc = "succeed" => "on_success" \in hooks
    /\ pc = "notify" => "notify" \in hooks
    /\ pc = "fail" => "on_failure" \in hooks
    /\ pc' = "unwound"
    /\ outcome' = NoOutcome
    /\ UNCHANGED <<strategy, accepts, hooks, attempt, cumulative_delay_ms,
                   result, delay, observer>>

Done == pc \in {"done", "unwound"} /\ UNCHANGED vars

Step == \/ Operate \/ Succeed \/ Reject \/ Exhaust \/ GiveUp
        \/ Backoff \/ Notify \/ Sleep \/ Fail

Next == \/ \E predicate \in SUBSET Errors : When(predicate)
        \/ \E hook \in Hooks : SetHook(hook)
        \/ Call \/ Step \/ Unwind \/ Done

\* The caller decides whether to call; a call that has begun is one thread
\* that keeps running, and the operation and the sleeper return.
Spec == Init /\ [][Next]_vars /\ WF_vars(Step)

-----------------------------------------------------------------------------
\* Properties.

\* Every variable stays in the width and the shape its Rust type gives it.
TypeOK ==
    /\ strategy \in Strategies
    /\ accepts \subseteq Errors
    /\ hooks \subseteq Hooks
    /\ pc \in Running \cup {"build", "done", "unwound"}
    /\ attempt \in 1..AttemptMax
    /\ cumulative_delay_ms \in 0..U64Max
    /\ result \in Results
    /\ delay \in 0..U64Max
    /\ outcome \in Outcomes
    /\ calls \in Nat
    /\ slept \in Nat
    /\ notices \in Nat
    /\ heard \in Contexts

AtMost(n, top) == IF n > top THEN top ELSE n

\* What a callback should be told of the calls and sleeps that took place.
Heard(hook, next, error) ==
    heard = [hook |-> hook, attempt |-> AtMost(calls, AttemptMax),
             next |-> next, cumulative |-> AtMost(slept, U64Max),
             error |-> error]

\* How the operation's last answer ends the call.
Kind == IF result = NoError THEN "Ok"
        ELSE IF result \in accepts THEN "Exhausted" ELSE "PredicateRejected"

\* The outcome of a call reports what took place: the operation's last
\* answer, the number of calls and the time slept (each saturated at its
\* width).  PredicateRejected is the verdict on every unaccepted error, the
\* one of the last attempt included; Exhausted means the strategy stopped.
FaithfulOutcome ==
    pc = "done" =>
        outcome = [kind |-> Kind, error |-> result,
                   attempts |-> AtMost(calls, AttemptMax),
                   max_attempts |-> strategy.max,
                   cumulative |-> AtMost(slept, U64Max)]

\* The terminal callback that is set has been called when the call returns,
\* with the values the caller gets, and no terminal callback is ever called
\* while the loop may still go on.
TerminalCallback ==
    /\ pc = "done" /\ result = NoError /\ "on_success" \in hooks =>
           Heard("on_success", {}, NoError)
    /\ pc = "done" /\ result # NoError /\ "on_failure" \in hooks =>
           Heard("on_failure", {}, result)
    /\ pc # "done" => heard.hook \notin {"on_success", "on_failure"}

\* Every retry was announced once, with the delay that was then slept: after
\* n calls and before the next one, notify was called n times, and the time
\* it was told, plus the delay it was told, is the time slept since.
AnnouncedRetries ==
    pc = "operate" /\ calls > 0 /\ "notify" \in hooks =>
        /\ notices = calls
        /\ heard.hook = "notify"
        /\ heard.attempt = AtMost(calls, AttemptMax)
        /\ \E d \in heard.next :
               AtMost(heard.cumulative + d, U64Max)
                   = AtMost(slept, U64Max)

\* A built-in strategy makes at most max_attempts calls, and always one.
Budget == IF strategy.max = 0 THEN 1 ELSE strategy.max
CallBudget == calls <= Budget

\* The operation is called again only after an error the predicate accepts
\* and an attempt after which the strategy, whatever it is, would retry.
RetriesAreJustified ==
    [][calls' > calls /\ calls > 0 =>
           /\ result \in accepts
           /\ AtMost(calls, AttemptMax) \in strategy.retries]_vars

\* A call with a built-in strategy returns or unwinds.
CallReturns == pc = "operate" ~> pc \in {"done", "unwound"}

\* Why: each step uses up one of the four that every attempt of the budget
\* has, whatever the operation answers; no path through the loop leads back
\* to the operation with as much budget as before.
StepsLeft ==
    CASE pc \in {"succeed", "fail"} -> 1
      [] pc \in {"done", "unwound"} -> 0
      [] OTHER -> 4 * (Budget - calls)
                      + CASE pc = "judge" -> 3 [] pc = "notify" -> 2
                          [] pc = "sleep" -> 1 [] OTHER -> 0
CallDescends ==
    [][(pc \in Running) => StepsLeft' \in 0..(StepsLeft - 1)]_vars

-----------------------------------------------------------------------------
\* The loop implements the contract of a bounded retry.

Last == IF calls = 0 THEN "none"
        ELSE IF result = NoError THEN "ok"
        ELSE IF result \in accepts THEN "retryable" ELSE "fatal"

Told == [Ok |-> "ok", Exhausted |-> "exhausted",
         PredicateRejected |-> "rejected"]
Verdict == IF pc = "build" THEN "idle"
           ELSE IF pc = "unwound" THEN "aborted"
           ELSE IF pc = "done" THEN Told[outcome.kind] ELSE "running"

Contract == INSTANCE RetryContract
                WITH budget <- Budget, last <- Last, verdict <- Verdict

\* With built-in strategies every behaviour of the loop is a bounded retry:
\* no attempt after a success or a rejected error, none beyond the budget,
\* and "exhausted" only when the whole budget was spent.
ImplementsContract == Contract!Spec

-----------------------------------------------------------------------------
\* The inductive invariant behind the properties: the counters agree with
\* what the observer counted, at every point of the loop.

Between == {"operate", "build"}     \* the next operation has not been called
Judging == {"judge", "notify", "sleep"}

CountersAgree ==
    /\ attempt = AtMost(IF pc \in Between THEN calls + 1 ELSE calls,
                        AttemptMax) \/ pc = "unwound"
    /\ cumulative_delay_ms = AtMost(slept, U64Max)
    /\ pc \notin Between \cup {"unwound"} => calls > 0
    /\ pc = "build" => calls = 0 /\ slept = 0

ResultAgrees ==
    /\ pc = "succeed" => result = NoError
    /\ pc \in Judging => result # NoError
    /\ pc \in {"notify", "sleep"} \/ (pc = "operate" /\ calls > 0) =>
           /\ result \in accepts
           /\ AtMost(calls, AttemptMax) \in strategy.retries
    /\ pc = "fail" => result # NoError
    /\ pc \in {"fail", "done"} => outcome = Finished(Kind)

IInv == TypeOK /\ CountersAgree /\ ResultAgrees

\* With built-in strategies, a call that ends on an accepted error has spent
\* its whole budget.
BudgetInv ==
    /\ CallBudget
    /\ pc = "fail" /\ result \in accepts => calls = Budget

\* Where notify stands at each point of the loop.
NoticeInv ==
    /\ pc = "build" => notices = 0
    /\ "notify" \in hooks =>
           /\ pc \in {"operate", "sleep"} => notices = calls
           /\ pc \in {"judge", "notify"} => notices + 1 = calls
           /\ pc = "sleep" => Heard("notify", {delay}, result)
           /\ AnnouncedRetries
=============================================================================
