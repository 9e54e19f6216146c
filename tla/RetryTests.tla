----------------------------- MODULE RetryTests -----------------------------
(***************************************************************************)
(* The unit tests of retry.rs as calls of the modelled loop.  A test       *)
(* builds a retry, runs it on a scripted operation with a sleeper that     *)
(* returns at once, and asserts how the call ended and what the callbacks  *)
(* were told.  The tests that draw jitter do so from an unseeded           *)
(* generator: here they are run with every draw.                           *)
(***************************************************************************)
EXTENDS RetryDelays, DelayTests, Sequences

CONSTANTS Retryable, Fatal      \* enum TestError

TestErrors == {Retryable, Fatal}
OnlyRetryable == {Retryable}    \* when(|e| matches!(e, TestError::Retryable))

\* What the operation answers, call after call; the last answer is repeated.
Succeeds == <<NoError>>
FailsOnce == <<Retryable, NoError>>
FailsTwice == <<Retryable, Retryable, NoError>>
FailsThrice == <<Retryable, Retryable, Retryable, NoError>>
AlwaysFails == <<Retryable>>

Some == 0..U64Max               \* a number the test does not look at

\* A test asserts the kind, error, attempts and summed delay of the outcome,
\* what the callbacks were told, in their order, and, where waits is set,
\* that the summed delay is positive.
Test(policy, script, kind, attempts) ==
    [policy |-> policy, accepts |-> TestErrors, hooks |-> {},
     script |-> script, kind |-> kind, error |-> script[Len(script)],
     attempts |-> attempts, cumulative |-> Some, told |-> <<>>, waits |-> FALSE]
\* One context: of this hook at this attempt, with one of these next delays
\* (none if there is to be none) and one of these sums.
Given(hook, n, next, cumulative) ==
    [hook |-> hook, attempt |-> n, next |-> next,
     cumulative |-> cumulative]

-----------------------------------------------------------------------------
\* Tests of retry().

Attempts3 == MaxAttempts(ExponentialDefault, 3)
Fixed(ms, max) == JitterFactor(MaxAttempts(DelayMs(ConstantDefault, ms), max), Zero)

test_retry_success_on_first_attempt ==
    Test(ExponentialDefault, Succeeds, "Ok", 1)

test_retry_success_after_failures == Test(Attempts3, FailsTwice, "Ok", 3)

test_retry_exhausted ==
    [Test(Attempts3, AlwaysFails, "Exhausted", 3) EXCEPT !.waits = TRUE]

test_retry_when_predicate ==
    [Test(ExponentialDefault, <<Fatal>>, "PredicateRejected", 1)
        EXCEPT !.accepts = OnlyRetryable]

test_retry_notify_callback ==
    [Test(Attempts3, FailsTwice, "Ok", 3) EXCEPT
        !.hooks = {"notify"},
        !.told = <<Given("notify", 1, Some, Some), Given("notify", 2, Some, Some)>>]

test_on_success_callback_invoked ==
    [Test(Attempts3, FailsOnce, "Ok", 2) EXCEPT
        !.hooks = {"on_success"},
        !.told = <<Given("on_success", 2, {}, Some)>>, !.waits = TRUE]

test_on_failure_callback_invoked ==
    [Test(MaxAttempts(ExponentialDefault, 2), AlwaysFails, "Exhausted", 2)
        EXCEPT !.hooks = {"on_failure"},
               !.told = <<Given("on_failure", 2, {}, Some)>>, !.waits = TRUE]

test_constant_backoff_retry ==
    Test(MaxAttempts(DelayMs(ConstantDefault, 10), 2), FailsOnce, "Ok", 2)

\* With the real sleeper: at least nine milliseconds have gone by.
test_retry_with_std_sleeper ==
    [Test(Fixed(10, 2), FailsOnce, "Ok", 2) EXCEPT !.cumulative = 9..U64Max]

test_retry_context_comprehensive ==
    [Test(Fixed(100, 5), FailsThrice, "Ok", 4) EXCEPT
        !.hooks = {"notify"},
        !.told = [n \in 1..3 |-> Given("notify", n, {100}, {100 * (n - 1)})]]

test_retry_context_on_success ==
    [Test(Fixed(50, 5), FailsTwice, "Ok", 3) EXCEPT
        !.hooks = {"on_success"}, !.cumulative = {100},
        !.told = <<Given("on_success", 3, {}, {100})>>]

test_retry_context_cumulative_accuracy ==
    [Test(Fixed(25, 4), AlwaysFails, "Exhausted", 4) EXCEPT
        !.hooks = {"notify"},
        !.told = [n \in 1..3 |-> Given("notify", n, Some, {25 * (n - 1)})]]

-----------------------------------------------------------------------------
\* Tests of RetryableExt.

test_with_exponential_success == Test(WithExponential, Succeeds, "Ok", 1)
test_with_exponential_retry_behavior ==
    Test(WithExponential, FailsTwice, "Ok", 3)
test_with_exponential_exhausted ==
    Test(WithExponential, AlwaysFails, "Exhausted", 3)
test_with_exponential_chaining ==
    [Test(WithExponential, FailsOnce, "Ok", 2) EXCEPT !.accepts = OnlyRetryable]

test_with_constant_success == Test(WithConstant(250), Succeeds, "Ok", 1)
test_with_constant_uses_correct_delay ==
    [Test(WithConstant(500), FailsTwice, "Ok", 3) EXCEPT
        !.hooks = {"notify"},
        !.told = [n \in 1..2 |-> Given("notify", n, {500}, Some)]]
test_with_constant_chaining ==
    [Test(WithConstant(100), <<Fatal, NoError>>, "PredicateRejected", 1)
        EXCEPT !.accepts = OnlyRetryable, !.error = Fatal]

test_with_fibonacci_success == Test(WithFibonacci, Succeeds, "Ok", 1)
test_with_fibonacci_retry_behavior ==
    Test(WithFibonacci, FailsThrice, "Ok", 4)
test_with_fibonacci_exhausted ==
    Test(WithFibonacci, AlwaysFails, "Exhausted", 8)
test_with_fibonacci_chaining ==
    [Test(WithFibonacci, FailsTwice, "Ok", 3) EXCEPT
        !.hooks = {"on_success"},
        !.told = <<Given("on_success", 3, {}, Some)>>]

\* One test of three calls.
test_all_extension_methods_produce_working_retries ==
    {Test(p, FailsOnce, "Ok", 2) :
        p \in {WithExponential, WithConstant(100), WithFibonacci}}

test_with_exponential_std_sleeper == Test(WithExponential, FailsOnce, "Ok", 2)
test_with_constant_std_sleeper == Test(WithConstant(50), Succeeds, "Ok", 1)
test_with_fibonacci_std_sleeper == Test(WithFibonacci, Succeeds, "Ok", 1)

Tests ==
    {test_retry_success_on_first_attempt, test_retry_success_after_failures,
     test_retry_exhausted, test_retry_when_predicate,
     test_retry_notify_callback, test_on_success_callback_invoked,
     test_on_failure_callback_invoked, test_constant_backoff_retry,
     test_retry_with_std_sleeper, test_retry_context_comprehensive,
     test_retry_context_on_success, test_retry_context_cumulative_accuracy,
     test_with_exponential_success, test_with_exponential_retry_behavior,
     test_with_exponential_exhausted, test_with_exponential_chaining,
     test_with_constant_success, test_with_constant_uses_correct_delay,
     test_with_constant_chaining, test_with_fibonacci_success,
     test_with_fibonacci_retry_behavior, test_with_fibonacci_exhausted,
     test_with_fibonacci_chaining, test_with_exponential_std_sleeper,
     test_with_constant_std_sleeper, test_with_fibonacci_std_sleeper}
    \cup test_all_extension_methods_produce_working_retries

TestScalars == {Zero, Fraction(1, 2), One}
TestPolicies == {t.policy : t \in Tests}
TestStrategies == {StrategyWith[p] : p \in TestPolicies}

-----------------------------------------------------------------------------
\* Running a test.

VARIABLES test,
          log           \* the contexts its callbacks were given

testVars == <<vars, test, log>>

TestInit ==
    /\ Init
    /\ test \in Tests
    /\ strategy = StrategyWith[test.policy]
    /\ log = <<>>

\* The builder's methods, in the order of the tests.
Build ==
    \/ accepts # test.accepts /\ When(test.accepts)
    \/ accepts = test.accepts /\ \E hook \in test.hooks \ hooks : SetHook(hook)
    \/ accepts = test.accepts /\ hooks = test.hooks /\ Call

Answer == test.script[IF calls < Len(test.script) THEN calls + 1
                                                 ELSE Len(test.script)]

\* A step of the loop, in which the operation keeps to its script.
Run == Step /\ (pc = "operate" => result' = Answer)

TestNext ==
    \/ /\ Build \/ Run
       /\ log' = IF heard' = heard THEN log ELSE Append(log, heard')
       /\ UNCHANGED test
    \/ pc = "done" /\ UNCHANGED testVars

TestSpec == TestInit /\ [][TestNext]_testVars

-----------------------------------------------------------------------------
\* Properties.

AsTold(context, told) ==
    /\ context.hook = told.hook
    /\ context.attempt = told.attempt
    /\ context.next \subseteq told.next
    /\ context.next = {} <=> told.next = {}
    /\ context.cumulative \in told.cumulative
    /\ context.error # NoError <=> told.hook # "on_success"

\* Every assertion of the tests holds in every run of them, whatever the
\* generator draws, but for the three that want a positive delay: outcome,
\* number of calls, and each callback with its context, in their order.
TestsHold ==
    pc = "done" =>
        /\ outcome.kind = test.kind
        /\ outcome.error = test.error
        /\ outcome.attempts = test.attempts /\ calls = test.attempts
        /\ outcome.cumulative \in test.cumulative
        /\ test.kind = "Exhausted" =>
               outcome.max_attempts = test.policy.max_attempts
        /\ Len(log) = Len(test.told)
        /\ \A n \in DOMAIN log : AsTold(log[n], test.told[n])

\* What the tests say of full jitter, "Should have some cumulative delay from
\* the first retry": the time a retry slept is positive.
JitteredTestsHold == pc = "done" /\ test.waits => outcome.cumulative > 0
=============================================================================
