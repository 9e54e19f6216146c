-------------------------- MODULE RetryDelaysProofs --------------------------
(***************************************************************************)
(* Proofs about the retry loop with the strategies that really compute its *)
(* delays, for every policy, every float and every width, and about the    *)
(* unit tests of the loop, whatever their generators draw.                 *)
(***************************************************************************)
EXTENDS RetryTests, RetryLoopProofs, BackoffProofs

LEMMA LongestTyped ==
    ASSUME NEW p \in Policies
    PROVE  Longest(p) \in 0..U64Max
BY RetryDelaysAssumption DEF PolicyType, Longest

LEMMA DelaysBounded ==
    ASSUME NEW p \in Policies, NEW a \in 1..AttemptMax
    PROVE  /\ StrategyWith[p].max = p.max_attempts
           /\ a \in StrategyWith[p].retries <=> a < p.max_attempts
           /\ StrategyWith[p].delays[a] # {} <=> a < p.max_attempts
           /\ StrategyWith[p].delays[a] \subseteq 0..Longest(p)
<1>1. p \in PolicyType /\ a \in Nat /\ Scalars # {}
  BY RetryDelaysAssumption, WidthsAssumption
<1>2. p.kind \in {"exponential", "constant", "fibonacci"}
      /\ p.base \in 0..U64Max /\ p.jitter \in Floats
  BY <1>1 DEF PolicyType
<1>3. ASSUME NEW r \in Scalars
      PROVE  /\ Delay(p, a, r) \subseteq 0..Longest(p)
             /\ Delay(p, a, r) # {} <=> a < p.max_attempts
  <2>1. CASE p.kind # "constant"
    BY <1>1, <2>1, DelayTyped, DelayCapped DEF Longest
  <2>2. CASE p.kind = "constant"
    <3>1. Base(p, a) = U64(p.base) /\ U64(p.base) \in Floats
      BY <1>2, <2>2, U64Typed, WidthsAssumption DEF Base
    <3>2. U64(p.base).num <= p.base * U64(p.base).den
      BY <1>2, WidthsAssumption DEF U64, Fraction
    <3>3. ApplyJitter(Base(p, a), p.jitter, r) <= p.base
      BY <1>2, <3>1, <3>2, JitterShortens
    <3>4. Delay(p, a, r) \subseteq 0..p.base
      BY <1>1, <3>3, DelayTyped, WidthsAssumption DEF Delay
    <3> QED
      BY <1>1, <2>2, <3>4, DelayTyped DEF Longest
  <2> QED
    BY <2>1, <2>2
<1>4. StrategyWith[p] = StrategyOf(p)
  BY DEF StrategyWith
<1>5. StrategyOf(p).delays[a] = UNION {Delay(p, a, r) : r \in Scalars}
  BY DEF StrategyOf
<1>6. StrategyOf(p).delays[a] # {} <=> a < p.max_attempts
  BY <1>1, <1>3, <1>5
<1>7. StrategyOf(p).delays[a] \subseteq 0..Longest(p)
  BY <1>3, <1>5
<1>8. a \in StrategyOf(p).retries <=> a < p.max_attempts
  BY DEF StrategyOf, ShouldRetry
<1> QED
  BY <1>4, <1>6, <1>7, <1>8 DEF StrategyOf

\* The three strategies are what the loop's theorems assume of a built-in
\* strategy: should_retry and delay end at the same attempt.  All of them
\* (the call budget, the contract) hold for every policy.
THEOREM ComputedStrategiesQualify == BuiltInStrategies
<1> SUFFICES ASSUME NEW s \in Strategies PROVE IsBuiltIn(s)
  BY DEF BuiltInStrategies
<1>1. PICK p \in Policies : s = StrategyWith[p]
  BY RetryDelaysAssumption
<1> QED
  BY <1>1, DelaysBounded DEF IsBuiltIn

\* With a strategy of the code no call is made beyond max_attempts (one if
\* max_attempts is 0), whatever delays it computes.
THEOREM ComputedCallsWithinBudget == Spec => []CallBudget
BY ComputedStrategiesQualify, CallsWithinBudget

\* Nor is one repeated after a success or a rejected error, and the verdict
\* tells how the last one ended: the loop with the strategies of the code
\* implements the safety part of the contract.
THEOREM ComputedContractSafety ==
    Spec => Contract!Init /\ [][Contract!Next]_Contract!vars
BY ComputedStrategiesQualify, ContractSafety

\* And each of its steps brings its end nearer.
THEOREM ComputedCallsDescend == Spec => CallDescends
BY ComputedStrategiesQualify, CallsDescend

-----------------------------------------------------------------------------
WaitInv == SleepsCounted /\ WaitBounded

LEMMA Initially == Init => WaitInv
<1> SUFFICES ASSUME Init, NEW p \in Policies
             PROVE  0 <= Longest(p) * SaturatingSub(p.max_attempts, 1)
  BY DEF Init, WaitInv, SleepsCounted, WaitBounded, Judging
<1>1. SaturatingSub(p.max_attempts, 1) \in Nat /\ Longest(p) \in Nat
  BY RetryDelaysAssumption, LongestTyped, WidthsAssumption
     DEF SaturatingSub, PolicyType
<1> QED
  BY <1>1

LEMMA Preserved == IInv /\ WaitInv /\ [Next]_vars => WaitInv'
<1> SUFFICES ASSUME IInv, WaitInv, [Next]_vars, NEW p \in Policies,
                    strategy' = StrategyWith[p]
             PROVE
                /\ slept' <= Longest(p) * SaturatingSub(p.max_attempts, 1)
                /\ pc' = "operate" => slept' <= Longest(p) * calls'
                /\ pc' \in Judging => slept' <= Longest(p) * (calls' - 1)
                /\ pc' \in {"notify", "sleep"} => delay' <= Longest(p)
                /\ pc' = "build" => slept' = 0
  BY DEF WaitInv, SleepsCounted, WaitBounded, Judging
<1> DEFINE long == Longest(p)
<1>1. strategy' = strategy
  BY DEF Next, Step, When, SetHook, Call, Operate, Succeed, Reject, Exhaust,
         GiveUp, Finalize, Backoff, Notify, Sleep, Fail, Unwind, Done, vars,
         program
<1>2. /\ slept <= long * SaturatingSub(p.max_attempts, 1)
      /\ pc = "operate" => slept <= long * calls
      /\ pc \in Judging => slept <= long * (calls - 1)
      /\ pc \in {"notify", "sleep"} => delay <= long
      /\ pc = "build" => slept = 0
  BY <1>1 DEF WaitInv, SleepsCounted, WaitBounded
<1>3. /\ long \in Nat /\ calls \in Nat /\ slept \in Nat /\ delay \in Nat
      /\ p.max_attempts \in 0..AttemptMax /\ AttemptMax \in Nat
  BY RetryDelaysAssumption, LongestTyped, WidthsAssumption
     DEF IInv, TypeOK, PolicyType
<1> HIDE DEF long
<1>4. CASE Operate
  BY <1>2, <1>3, <1>4 DEF Operate, Judging, long
<1>5. CASE Backoff
  <2>1. delay' \in strategy.delays[attempt] /\ attempt \in 1..AttemptMax
    BY <1>5 DEF Backoff, IInv, TypeOK
  <2>2. delay' \in 0..Longest(p)
    BY <1>1, <2>1, DelaysBounded
  <2>3. delay' <= long
    BY <1>3, <2>2 DEF long
  <2> QED
    BY <1>2, <1>5, <2>3 DEF Backoff, observer, Judging, long
<1>6. CASE Sleep
  <2>1. calls > 0 /\ AtMost(calls, AttemptMax) \in strategy.retries
    BY <1>6 DEF Sleep, IInv, CountersAgree, ResultAgrees, Between
  <2>2. calls < p.max_attempts
    <3>1. AtMost(calls, AttemptMax) \in 1..AttemptMax
      BY <1>3, <2>1, WidthsAssumption DEF AtMost
    <3>2. AtMost(calls, AttemptMax) < p.max_attempts
      BY <1>1, <2>1, <3>1, DelaysBounded
    <3> QED
      BY <1>3, <3>2 DEF AtMost
  <2>3. slept' <= long * calls
    <3>1. slept' = slept + delay /\ slept <= long * (calls - 1) /\ delay <= long
      BY <1>2, <1>6 DEF Sleep, Judging
    <3>2. long * (calls - 1) + long = long * calls
      BY <1>3, <2>1
    <3>3. long * (calls - 1) \in Nat /\ long * calls \in Nat
      BY <1>3, <2>1
    <3> QED
      BY <1>3, <3>1, <3>2, <3>3
  <2>4. slept' <= long * SaturatingSub(p.max_attempts, 1)
    <3>1. SaturatingSub(p.max_attempts, 1) = p.max_attempts - 1
      BY <1>3, <2>1, <2>2 DEF SaturatingSub
    <3>2. calls * long <= (p.max_attempts - 1) * long
      BY <1>3, <2>2, ProductMonotone
    <3>3. /\ calls * long = long * calls /\ calls * long \in Nat
          /\ (p.max_attempts - 1) * long = long * (p.max_attempts - 1)
          /\ (p.max_attempts - 1) * long \in Nat
      BY <1>3, <2>1, <2>2
    <3>4. slept' \in Nat
      BY <1>3, <1>6 DEF Sleep
    <3> QED
      BY <2>3, <3>1, <3>2, <3>3, <3>4
  <2> QED
    BY <1>6, <2>3, <2>4 DEF Sleep, Judging, long
<1>7. CASE Call
  <2>1. slept' = 0 /\ calls' = calls /\ pc' = "operate" /\ long * calls \in Nat
    BY <1>2, <1>3, <1>7 DEF Call, observer
  <2> QED
    BY <1>2, <1>7, <2>1 DEF Call, observer, Judging, long
<1>8. CASE \/ Succeed \/ Reject \/ Exhaust \/ GiveUp \/ Fail \/ Unwind
           \/ (\E predicate \in SUBSET Errors : When(predicate))
           \/ (\E hook \in Hooks : SetHook(hook))
  BY <1>2, <1>8 DEF Succeed, Reject, Exhaust, GiveUp, Finalize, Fail, Unwind,
                    When, SetHook, program, observer, Judging, long
<1>9. CASE Notify \/ Done \/ UNCHANGED vars
  BY <1>2, <1>9 DEF Notify, Done, vars, program, observer, Judging, long
<1> QED
  BY <1>4, <1>5, <1>6, <1>7, <1>8, <1>9 DEF Next, Step

\* A call never sleeps longer than max_attempts - 1 of its longest delays.
THEOREM TotalWaitBounded == Spec => []WaitBounded
<1>1. WaitInv => WaitBounded
  BY DEF WaitInv
<1> QED
  BY <1>1, Initially, Preserved, Invariance, PTL DEF Spec

-----------------------------------------------------------------------------
\* The unit tests of the loop (RetryTests).

\* What a test relies on and asserts, apart from its names and numbers: the
\* operation returns Retryable until the attempt at which the call ends.
Turn(script, c) == script[IF c < Len(script) THEN c ELSE Len(script)]
Plays(script, attempts, error) ==
    /\ Len(script) \in Nat
    /\ \A c \in 1..(attempts - 1) : Turn(script, c) = Retryable
    /\ Turn(script, attempts) = error

\* The delays of the policy are all the same.
Steady(p) == p.kind = "constant" /\ p.jitter = Zero

\* The sum a callback or the caller is told after n sleeps is not looked at,
\* or it is n of the same delay.
SumMeant(t, sums, n) ==
    sums = Some \/ (Steady(t.policy) /\ t.policy.base * n \in sums)
Meant(t, given, hook, n) ==
    /\ given.hook = hook /\ given.attempt = n
    /\ SumMeant(t, given.cumulative, n - 1)
    /\ IF hook = "notify"
       THEN \/ given.next = Some
            \/ Steady(t.policy) /\ given.next = {t.policy.base}
       ELSE given.next = {}

Consistent(t) ==
    /\ Retryable \in t.accepts /\ t.accepts \subseteq TestErrors
    /\ t.attempts \in 1..8 /\ t.attempts <= t.policy.max_attempts
    /\ Steady(t.policy) => t.policy.base <= 500
    /\ Plays(t.script, t.attempts, t.error)
    /\ \/ t.kind = "Ok" /\ t.error = NoError
       \/ /\ t.kind = "PredicateRejected" /\ t.error = Fatal
          /\ Fatal \notin t.accepts
       \/ /\ t.kind = "Exhausted" /\ t.error = Retryable
          /\ t.attempts = t.policy.max_attempts
    /\ SumMeant(t, t.cumulative, t.attempts - 1)
    /\ \/ t.hooks = {} /\ t.told = <<>>
       \/ /\ t.hooks = {"notify"} /\ Len(t.told) = t.attempts - 1
          /\ \A n \in 1..(t.attempts - 1) : Meant(t, t.told[n], "notify", n)
       \/ /\ t.hooks = {"on_success"} /\ t.kind = "Ok" /\ Len(t.told) = 1
          /\ Meant(t, t.told[1], "on_success", t.attempts)
       \/ /\ t.hooks = {"on_failure"} /\ t.kind # "Ok" /\ Len(t.told) = 1
          /\ Meant(t, t.told[1], "on_failure", t.attempts)

Ending == {"succeed", "fail", "done"}

\* How far the test is.
PlayInv ==
    /\ test \in Tests /\ strategy = StrategyWith[test.policy]
    /\ pc # "unwound"
    /\ hooks \subseteq test.hooks
    /\ pc # "build" => accepts = test.accepts /\ hooks = test.hooks
    /\ calls > 0 => result = Turn(test.script, calls)
    /\ calls <= test.attempts
    /\ pc \in {"build", "operate", "notify", "sleep"} => calls < test.attempts
    /\ pc \in Ending => calls = test.attempts

\* What a steady delay sums up to.
Sleeps == IF pc \in Between THEN calls ELSE calls - 1
SteadyInv ==
    Steady(test.policy) =>
        /\ slept = test.policy.base * Sleeps
        /\ pc \in {"notify", "sleep"} => delay = test.policy.base

\* The log is what has been told so far.
LogLength ==
    IF test.hooks = {"notify"}
    THEN IF pc \in {"build", "operate", "sleep"} THEN calls ELSE calls - 1
    ELSE IF test.hooks # {} /\ pc = "done" THEN 1 ELSE 0
LogInv ==
    /\ log \in Seq(Contexts) /\ Len(log) = LogLength
    /\ heard = IF log = <<>> THEN NoContext ELSE log[Len(log)]
    /\ \A n \in 1..Len(log) : AsTold(log[n], test.told[n])

LEMMA ZeroKept ==
    Zero \in Floats /\ InUnit(Zero) /\ Clamp(Zero) = Zero /\ Zero.num = 0
BY DEF Zero, One, Fraction, Floats, InUnit, Clamp, IsNaN, Less

\* The scripts end their calls when the tests say.
LEMMA Scripts ==
    /\ Plays(Succeeds, 1, NoError) /\ Plays(FailsOnce, 2, NoError)
    /\ Plays(FailsTwice, 3, NoError) /\ Plays(FailsThrice, 4, NoError)
    /\ \A n \in 1..8 : Plays(AlwaysFails, n, Retryable)
    /\ Plays(<<Fatal>>, 1, Fatal) /\ Plays(<<Fatal, NoError>>, 1, Fatal)
<1>1. /\ Len(Succeeds) = 1 /\ Succeeds[1] = NoError
      /\ Len(FailsOnce) = 2
      /\ FailsOnce[1] = Retryable /\ FailsOnce[2] = NoError
      /\ Len(AlwaysFails) = 1 /\ AlwaysFails[1] = Retryable
      /\ Len(<<Fatal>>) = 1 /\ <<Fatal>>[1] = Fatal
      /\ Len(<<Fatal, NoError>>) = 2 /\ <<Fatal, NoError>>[1] = Fatal
  BY DEF Succeeds, FailsOnce, AlwaysFails
<1>2. /\ Len(FailsTwice) = 3 /\ FailsTwice[1] = Retryable
      /\ FailsTwice[2] = Retryable /\ FailsTwice[3] = NoError
  BY DEF FailsTwice
<1>3. /\ Len(FailsThrice) = 4 /\ FailsThrice[1] = Retryable
      /\ FailsThrice[2] = Retryable /\ FailsThrice[3] = Retryable
      /\ FailsThrice[4] = NoError
  BY DEF FailsThrice
<1>4. Plays(Succeeds, 1, NoError) /\ Plays(FailsOnce, 2, NoError)
  BY <1>1 DEF Plays, Turn
<1>5. Plays(FailsTwice, 3, NoError)
  BY <1>2 DEF Plays, Turn
<1>6. Plays(FailsThrice, 4, NoError)
  BY <1>3 DEF Plays, Turn
<1>7. \A n \in 1..8 : Plays(AlwaysFails, n, Retryable)
  BY <1>1 DEF Plays, Turn
<1>8. Plays(<<Fatal>>, 1, Fatal) /\ Plays(<<Fatal, NoError>>, 1, Fatal)
  BY <1>1 DEF Plays, Turn
<1> QED
  BY <1>4, <1>5, <1>6, <1>7, <1>8

LEMMA ScriptEnds ==
    /\ Succeeds[Len(Succeeds)] = NoError /\ FailsOnce[Len(FailsOnce)] = NoError
    /\ FailsTwice[Len(FailsTwice)] = NoError
    /\ FailsThrice[Len(FailsThrice)] = NoError
    /\ AlwaysFails[Len(AlwaysFails)] = Retryable
    /\ <<Fatal>>[Len(<<Fatal>>)] = Fatal
BY DEF Succeeds, FailsOnce, FailsTwice, FailsThrice, AlwaysFails

\* Settings of the tests' policies.
LEMMA TestSettings ==
    /\ ExponentialDefault.max_attempts = 3 /\ FibonacciDefault.max_attempts = 8
    /\ ~Steady(ExponentialDefault) /\ ~Steady(FibonacciDefault)
    /\ Attempts3.max_attempts = 3 /\ ~Steady(Attempts3)
    /\ MaxAttempts(ExponentialDefault, 2).max_attempts = 2
    /\ ~Steady(MaxAttempts(ExponentialDefault, 2))
    /\ \A ms : /\ WithConstant(ms).max_attempts = 3
               /\ WithConstant(ms).base = ms /\ Steady(WithConstant(ms))
    /\ \A ms, n : /\ Fixed(ms, n).max_attempts = n /\ Fixed(ms, n).base = ms
                  /\ Steady(Fixed(ms, n))
                  /\ MaxAttempts(DelayMs(ConstantDefault, ms), n).max_attempts = n
                  /\ MaxAttempts(DelayMs(ConstantDefault, ms), n).base = ms
                  /\ Steady(MaxAttempts(DelayMs(ConstantDefault, ms), n))
BY ZeroKept DEF ExponentialDefault, FibonacciDefault, ConstantDefault,
   Attempts3, MaxAttempts, DelayMs, WithConstant, Fixed, JitterFactor, Steady

\* The fields that say how a test runs and ends.
Fields(t, p, acc, hks, script, kind, error, n) ==
    /\ t.policy = p /\ t.accepts = acc /\ t.hooks = hks
    /\ t.script = script /\ t.kind = kind /\ t.error = error /\ t.attempts = n

\* A call of Test() without further settings is consistent.
LEMMA PlainTest ==
    ASSUME NEW p, NEW n \in 1..8, NEW script, NEW kind, NEW error,
           script[Len(script)] = error,
           n <= p.max_attempts, Steady(p) => p.base <= 500,
           Plays(script, n, error), Retryable # Fatal,
           \/ kind = "Ok" /\ error = NoError
           \/ kind = "Exhausted" /\ error = Retryable /\ n = p.max_attempts
    PROVE  Consistent(Test(p, script, kind, n))
<1> DEFINE t == Test(p, script, kind, n)
<1>1. /\ Fields(t, p, TestErrors, {}, script, kind, error, n)
      /\ t.cumulative = Some /\ t.told = <<>>
  BY DEF Test, Fields
<1> HIDE DEF t
<1>2. SumMeant(t, t.cumulative, n - 1)
  BY <1>1 DEF SumMeant
<1>3. Consistent(t)
  BY <1>1, <1>2 DEF Consistent, Fields, TestErrors
<1> QED
  BY <1>3 DEF t

\* Tests that set no callback and change nothing else.
LEMMA PlainTests ==
    ASSUME Retryable # Fatal
    PROVE  /\ Consistent(test_retry_success_on_first_attempt)
           /\ Consistent(test_retry_success_after_failures)
           /\ Consistent(test_constant_backoff_retry)
           /\ Consistent(test_with_exponential_success)
           /\ Consistent(test_with_exponential_retry_behavior)
           /\ Consistent(test_with_exponential_exhausted)
           /\ Consistent(test_with_constant_success)
           /\ Consistent(test_with_fibonacci_success)
           /\ Consistent(test_with_fibonacci_retry_behavior)
           /\ Consistent(test_with_fibonacci_exhausted)
           /\ Consistent(test_with_exponential_std_sleeper)
           /\ Consistent(test_with_constant_std_sleeper)
           /\ Consistent(test_with_fibonacci_std_sleeper)
           /\ \A t \in test_all_extension_methods_produce_working_retries :
                  Consistent(t)
<1>1. Consistent(test_retry_success_on_first_attempt)
  BY TestSettings, Scripts, ScriptEnds, PlainTest
     DEF test_retry_success_on_first_attempt
<1>2. Consistent(test_retry_success_after_failures)
  BY TestSettings, Scripts, ScriptEnds, PlainTest
     DEF test_retry_success_after_failures
<1>3. Consistent(test_constant_backoff_retry)
  BY TestSettings, Scripts, ScriptEnds, PlainTest
     DEF test_constant_backoff_retry
<1>4. Consistent(test_with_exponential_success)
  BY TestSettings, Scripts, ScriptEnds, PlainTest
     DEF test_with_exponential_success, WithExponential
<1>5. Consistent(test_with_exponential_retry_behavior)
  BY TestSettings, Scripts, ScriptEnds, PlainTest
     DEF test_with_exponential_retry_behavior, WithExponential
<1>6. Consistent(test_with_exponential_exhausted)
  BY TestSettings, Scripts, ScriptEnds, PlainTest
     DEF test_with_exponential_exhausted, WithExponential
<1>7. Consistent(test_with_constant_success)
  <2> DEFINE p == WithConstant(250)
  <2>1. 1 <= p.max_attempts /\ p.base <= 500
    BY TestSettings
  <2> HIDE DEF p
  <2>2. Consistent(Test(p, Succeeds, "Ok", 1))
    BY <2>1, Scripts, ScriptEnds, PlainTest
  <2> QED
    BY <2>2 DEF test_with_constant_success, p
<1>8. Consistent(test_with_fibonacci_success)
  BY TestSettings, Scripts, ScriptEnds, PlainTest
     DEF test_with_fibonacci_success, WithFibonacci
<1>9. Consistent(test_with_fibonacci_retry_behavior)
  BY TestSettings, Scripts, ScriptEnds, PlainTest
     DEF test_with_fibonacci_retry_behavior, WithFibonacci
<1>10. Consistent(test_with_fibonacci_exhausted)
  BY TestSettings, Scripts, ScriptEnds, PlainTest
     DEF test_with_fibonacci_exhausted, WithFibonacci
<1>11. Consistent(test_with_exponential_std_sleeper)
  BY TestSettings, Scripts, ScriptEnds, PlainTest
     DEF test_with_exponential_std_sleeper, WithExponential
<1>12. Consistent(test_with_constant_std_sleeper)
  <2> DEFINE p == WithConstant(50)
  <2>1. 1 <= p.max_attempts /\ p.base <= 500
    BY TestSettings
  <2> HIDE DEF p
  <2>2. Consistent(Test(p, Succeeds, "Ok", 1))
    BY <2>1, Scripts, ScriptEnds, PlainTest
  <2> QED
    BY <2>2 DEF test_with_constant_std_sleeper, p
<1>13. Consistent(test_with_fibonacci_std_sleeper)
  BY TestSettings, Scripts, ScriptEnds, PlainTest
     DEF test_with_fibonacci_std_sleeper, WithFibonacci
<1>14. \A t \in test_all_extension_methods_produce_working_retries :
           Consistent(t)
  <2>1. ASSUME NEW p \in {WithExponential, WithConstant(100), WithFibonacci}
        PROVE  Consistent(Test(p, FailsOnce, "Ok", 2))
    <3>1. 2 <= p.max_attempts /\ (Steady(p) => p.base <= 500)
      BY TestSettings DEF WithExponential, WithFibonacci
    <3> QED
      BY <3>1, Scripts, ScriptEnds, PlainTest
  <2> QED
    BY <2>1 DEF test_all_extension_methods_produce_working_retries
<1> QED
  BY <1>1, <1>2, <1>3, <1>4, <1>5, <1>6, <1>7, <1>8, <1>9, <1>10, <1>11,
     <1>12, <1>13, <1>14

\* What a callback that reports the end should be told.
LEMMA ReportMeant ==
    ASSUME NEW t, NEW hook \in {"on_success", "on_failure"}, NEW n \in 1..8,
           NEW m \in Nat, m + 1 = n, NEW sums, SumMeant(t, sums, m),
           t.told = <<Given(hook, n, {}, sums)>>
    PROVE  Len(t.told) = 1 /\ Meant(t, t.told[1], hook, n)
BY DEF Meant, Given

\* Tests that set a callback.
LEMMA CallbackTests ==
    ASSUME Retryable # Fatal, U64Max >= 10000
    PROVE  /\ Consistent(test_retry_notify_callback)
           /\ Consistent(test_on_success_callback_invoked)
           /\ Consistent(test_on_failure_callback_invoked)
           /\ Consistent(test_retry_context_comprehensive)
           /\ Consistent(test_retry_context_on_success)
           /\ Consistent(test_retry_context_cumulative_accuracy)
           /\ Consistent(test_with_constant_uses_correct_delay)
           /\ Consistent(test_with_fibonacci_chaining)
<1>1. Consistent(test_retry_notify_callback)
  <2> DEFINE t == test_retry_notify_callback
  <2>1. /\ Fields(t, Attempts3, TestErrors, {"notify"}, FailsTwice, "Ok",
                  NoError, 3)
        /\ t.cumulative = Some
        /\ t.told = <<Given("notify", 1, Some, Some),
                      Given("notify", 2, Some, Some)>>
    BY ScriptEnds DEF test_retry_notify_callback, Test, Fields
  <2> HIDE DEF t
  <2>2. Len(t.told) = 2 /\ t.told[1] = Given("notify", 1, Some, Some)
        /\ t.told[2] = Given("notify", 2, Some, Some)
    BY <2>1
  <2>3. SumMeant(t, Some, 0) /\ SumMeant(t, Some, 1) /\ SumMeant(t, Some, 2)
    BY DEF SumMeant
  <2>4. \A k \in 1..2 : Meant(t, t.told[k], "notify", k)
    <3>1. Meant(t, t.told[1], "notify", 1) /\ Meant(t, t.told[2], "notify", 2)
      BY <2>2, <2>3 DEF Meant, Given
    <3> QED
      BY <3>1
  <2>5. Consistent(t)
    BY <2>1, <2>2, <2>3, <2>4, Scripts, TestSettings
       DEF Consistent, Fields, TestErrors
  <2> QED
    BY <2>5 DEF t
<1>2. Consistent(test_on_success_callback_invoked)
  <2> DEFINE t == test_on_success_callback_invoked
  <2>1. /\ Fields(t, Attempts3, TestErrors, {"on_success"}, FailsOnce, "Ok",
                  NoError, 2)
        /\ t.cumulative = Some
        /\ t.told = <<Given("on_success", 2, {}, Some)>>
    BY ScriptEnds DEF test_on_success_callback_invoked, Test, Fields
  <2> HIDE DEF t
  <2>2. SumMeant(t, Some, 1)
    BY DEF SumMeant
  <2>3. Len(t.told) = 1 /\ Meant(t, t.told[1], "on_success", 2)
    BY <2>1, <2>2, ReportMeant
  <2>4. Consistent(t)
    BY <2>1, <2>2, <2>3, Scripts, TestSettings
       DEF Consistent, Fields, TestErrors
  <2> QED
    BY <2>4 DEF t
<1>3. Consistent(test_on_failure_callback_invoked)
  <2> DEFINE t == test_on_failure_callback_invoked
             p == MaxAttempts(ExponentialDefault, 2)
  <2>1. /\ Fields(t, p, TestErrors, {"on_failure"}, AlwaysFails, "Exhausted",
                  Retryable, 2)
        /\ t.cumulative = Some
        /\ t.told = <<Given("on_failure", 2, {}, Some)>>
    BY ScriptEnds DEF test_on_failure_callback_invoked, Test, Fields
  <2>2. p.max_attempts = 2 /\ ~Steady(p)
    BY TestSettings
  <2> HIDE DEF t, p
  <2>3. SumMeant(t, Some, 1)
    BY DEF SumMeant
  <2>4. Len(t.told) = 1 /\ Meant(t, t.told[1], "on_failure", 2)
    BY <2>1, <2>3, ReportMeant
  <2>5. Consistent(t)
    BY <2>1, <2>2, <2>3, <2>4, Scripts DEF Consistent, Fields, TestErrors
  <2> QED
    BY <2>5 DEF t
<1>4. Consistent(test_retry_context_comprehensive)
  <2> DEFINE t == test_retry_context_comprehensive
             p == Fixed(100, 5)
  <2>1. /\ Fields(t, p, TestErrors, {"notify"}, FailsThrice, "Ok", NoError, 4)
        /\ t.cumulative = Some
        /\ t.told = [n \in 1..3 |-> Given("notify", n, {100}, {100 * (n - 1)})]
    BY ScriptEnds DEF test_retry_context_comprehensive, Test, Fields
  <2>2. p.max_attempts = 5 /\ p.base = 100 /\ Steady(p)
    BY TestSettings
  <2> HIDE DEF t, p
  <2>3. t.policy = p
    BY <2>1 DEF Fields
  <2>4. Len(t.told) = 3
    BY <2>1
  <2>5. \A k \in 1..3 : Meant(t, t.told[k], "notify", k)
    <3> SUFFICES ASSUME NEW k \in 1..3 PROVE Meant(t, t.told[k], "notify", k)
      OBVIOUS
    <3>1. t.told[k] = Given("notify", k, {100}, {100 * (k - 1)})
      BY <2>1
    <3>2. SumMeant(t, {100 * (k - 1)}, k - 1)
      BY <2>2, <2>3 DEF SumMeant
    <3>3. Steady(t.policy) /\ {100} = {t.policy.base}
      BY <2>2, <2>3
    <3> DEFINE c == t.told[k]
    <3>4. /\ c.hook = "notify" /\ c.attempt = k
          /\ c.next = {100} /\ c.cumulative = {100 * (k - 1)}
      BY <3>1 DEF Given
    <3> HIDE DEF c
    <3>5. Meant(t, c, "notify", k)
      BY <3>2, <3>3, <3>4 DEF Meant
    <3> QED
      BY <3>5 DEF c
  <2>6. SumMeant(t, t.cumulative, 3)
    BY <2>1 DEF SumMeant
  <2>7. Consistent(t)
    BY <2>1, <2>2, <2>4, <2>5, <2>6, Scripts DEF Consistent, Fields, TestErrors
  <2> QED
    BY <2>7 DEF t
<1>5. Consistent(test_retry_context_on_success)
  <2> DEFINE t == test_retry_context_on_success
             p == Fixed(50, 5)
  <2>1. /\ Fields(t, p, TestErrors, {"on_success"}, FailsTwice,
                  "Ok", NoError, 3)
        /\ t.cumulative = {100}
        /\ t.told = <<Given("on_success", 3, {}, {100})>>
    BY ScriptEnds DEF test_retry_context_on_success, Test, Fields
  <2>2. p.max_attempts = 5 /\ p.base = 50 /\ Steady(p)
    BY TestSettings
  <2> HIDE DEF t, p
  <2>3. SumMeant(t, {100}, 2)
    <3>1. t.policy = p
      BY <2>1 DEF Fields
    <3> QED
      BY <2>2, <3>1 DEF SumMeant
  <2>4. Len(t.told) = 1 /\ Meant(t, t.told[1], "on_success", 3)
    BY <2>1, <2>3, ReportMeant
  <2>5. Consistent(t)
    BY <2>1, <2>2, <2>3, <2>4, Scripts DEF Consistent, Fields, TestErrors
  <2> QED
    BY <2>5 DEF t
<1>6. Consistent(test_retry_context_cumulative_accuracy)
  <2> DEFINE t == test_retry_context_cumulative_accuracy
             p == Fixed(25, 4)
  <2>1. /\ Fields(t, p, TestErrors, {"notify"}, AlwaysFails, "Exhausted",
                  Retryable, 4)
        /\ t.cumulative = Some
        /\ t.told = [n \in 1..3 |-> Given("notify", n, Some, {25 * (n - 1)})]
    BY ScriptEnds DEF test_retry_context_cumulative_accuracy, Test, Fields
  <2>2. p.max_attempts = 4 /\ p.base = 25 /\ Steady(p)
    BY TestSettings
  <2> HIDE DEF t, p
  <2>3. t.policy = p
    BY <2>1 DEF Fields
  <2>4. Len(t.told) = 3
    BY <2>1
  <2>5. \A k \in 1..3 : Meant(t, t.told[k], "notify", k)
    <3> SUFFICES ASSUME NEW k \in 1..3 PROVE Meant(t, t.told[k], "notify", k)
      OBVIOUS
    <3>1. t.told[k] = Given("notify", k, Some, {25 * (k - 1)})
      BY <2>1
    <3>2. SumMeant(t, {25 * (k - 1)}, k - 1)
      BY <2>2, <2>3 DEF SumMeant
    <3> DEFINE c == t.told[k]
    <3>3. /\ c.hook = "notify" /\ c.attempt = k
          /\ c.next = Some /\ c.cumulative = {25 * (k - 1)}
      BY <3>1 DEF Given
    <3> HIDE DEF c
    <3>4. Meant(t, c, "notify", k)
      BY <3>2, <3>3 DEF Meant
    <3> QED
      BY <3>4 DEF c
  <2>6. SumMeant(t, t.cumulative, 3)
    BY <2>1 DEF SumMeant
  <2>7. Consistent(t)
    BY <2>1, <2>2, <2>4, <2>5, <2>6, Scripts DEF Consistent, Fields, TestErrors
  <2> QED
    BY <2>7 DEF t
<1>7. Consistent(test_with_constant_uses_correct_delay)
  <2> DEFINE t == test_with_constant_uses_correct_delay
             p == WithConstant(500)
  <2>1. /\ Fields(t, p, TestErrors, {"notify"}, FailsTwice, "Ok", NoError, 3)
        /\ t.cumulative = Some
        /\ t.told = [n \in 1..2 |-> Given("notify", n, {500}, Some)]
    BY ScriptEnds DEF test_with_constant_uses_correct_delay, Test, Fields
  <2>2. p.max_attempts = 3 /\ p.base = 500 /\ Steady(p)
    BY TestSettings
  <2> HIDE DEF t, p
  <2>3. t.policy = p
    BY <2>1 DEF Fields
  <2>4. Len(t.told) = 2
    BY <2>1
  <2>5. \A k \in 1..2 : Meant(t, t.told[k], "notify", k)
    <3> SUFFICES ASSUME NEW k \in 1..2 PROVE Meant(t, t.told[k], "notify", k)
      OBVIOUS
    <3>1. t.told[k] = Given("notify", k, {500}, Some)
      BY <2>1
    <3>2. SumMeant(t, Some, k - 1)
      BY DEF SumMeant
    <3>3. Steady(t.policy) /\ {500} = {t.policy.base}
      BY <2>2, <2>3
    <3> DEFINE c == t.told[k]
    <3>4. /\ c.hook = "notify" /\ c.attempt = k
          /\ c.next = {500} /\ c.cumulative = Some
      BY <3>1 DEF Given
    <3> HIDE DEF c
    <3>5. Meant(t, c, "notify", k)
      BY <3>2, <3>3, <3>4 DEF Meant
    <3> QED
      BY <3>5 DEF c
  <2>6. SumMeant(t, t.cumulative, 2)
    BY <2>1 DEF SumMeant
  <2>7. Consistent(t)
    BY <2>1, <2>2, <2>4, <2>5, <2>6, Scripts DEF Consistent, Fields, TestErrors
  <2> QED
    BY <2>7 DEF t
<1>8. Consistent(test_with_fibonacci_chaining)
  <2> DEFINE t == test_with_fibonacci_chaining
  <2>1. /\ Fields(t, FibonacciDefault, TestErrors, {"on_success"}, FailsTwice,
                  "Ok", NoError, 3)
        /\ t.cumulative = Some
        /\ t.told = <<Given("on_success", 3, {}, Some)>>
    BY ScriptEnds DEF test_with_fibonacci_chaining, WithFibonacci, Test, Fields
  <2> HIDE DEF t
  <2>2. SumMeant(t, Some, 2)
    BY DEF SumMeant
  <2>3. Len(t.told) = 1 /\ Meant(t, t.told[1], "on_success", 3)
    BY <2>1, <2>2, ReportMeant
  <2>4. Consistent(t)
    BY <2>1, <2>2, <2>3, Scripts, TestSettings
       DEF Consistent, Fields, TestErrors
  <2> QED
    BY <2>4 DEF t
<1> QED
  BY <1>1, <1>2, <1>3, <1>4, <1>5, <1>6, <1>7, <1>8

\* Tests of the predicate, of the sleeper and of a positive wait.
LEMMA OtherTests ==
    ASSUME Retryable # Fatal, U64Max >= 10000
    PROVE  /\ Consistent(test_retry_exhausted)
           /\ Consistent(test_retry_when_predicate)
           /\ Consistent(test_retry_with_std_sleeper)
           /\ Consistent(test_with_exponential_chaining)
           /\ Consistent(test_with_constant_chaining)
<1>1. Consistent(test_retry_exhausted)
  <2> DEFINE t == test_retry_exhausted
             p == Attempts3
  <2>1. /\ Fields(t, p, TestErrors, {}, AlwaysFails, "Exhausted",
                  Retryable, 3)
        /\ t.cumulative = Some /\ t.told = <<>>
    BY ScriptEnds DEF test_retry_exhausted, Test, Fields
  <2>2. /\ 3 <= p.max_attempts
        /\ Steady(p) => p.base <= 500
        /\ 3 = p.max_attempts
    BY TestSettings
  <2> HIDE DEF t, p
  <2>3. SumMeant(t, t.cumulative, 3 - 1)
    BY <2>1, <2>2 DEF SumMeant, Fields
  <2>4. Consistent(t)
    BY <2>1, <2>2, <2>3, Scripts
       DEF Consistent, Fields, TestErrors, OnlyRetryable
  <2> QED
    BY <2>4 DEF t
<1>2. Consistent(test_retry_when_predicate)
  <2> DEFINE t == test_retry_when_predicate
             p == ExponentialDefault
  <2>1. /\ Fields(t, p, OnlyRetryable, {}, <<Fatal>>, "PredicateRejected",
                  Fatal, 1)
        /\ t.cumulative = Some /\ t.told = <<>>
    BY ScriptEnds DEF test_retry_when_predicate, Test, Fields
  <2>2. /\ 1 <= p.max_attempts
        /\ Steady(p) => p.base <= 500
    BY TestSettings
  <2> HIDE DEF t, p
  <2>3. SumMeant(t, t.cumulative, 1 - 1)
    BY <2>1, <2>2 DEF SumMeant, Fields
  <2>4. Consistent(t)
    BY <2>1, <2>2, <2>3, Scripts
       DEF Consistent, Fields, TestErrors, OnlyRetryable
  <2> QED
    BY <2>4 DEF t
<1>3. Consistent(test_retry_with_std_sleeper)
  <2> DEFINE t == test_retry_with_std_sleeper
             p == Fixed(10, 2)
  <2>1. /\ Fields(t, p, TestErrors, {}, FailsOnce, "Ok",
                  NoError, 2)
        /\ t.cumulative = 9..U64Max /\ t.told = <<>>
    BY ScriptEnds DEF test_retry_with_std_sleeper, Test, Fields
  <2>2. /\ 2 <= p.max_attempts
        /\ Steady(p) => p.base <= 500
        /\ Steady(p) /\ p.base = 10
    BY TestSettings
  <2> HIDE DEF t, p
  <2>3. SumMeant(t, t.cumulative, 2 - 1)
    <3>1. t.policy.base * (2 - 1) = 10 /\ 10 \in t.cumulative
      BY <2>1, <2>2, WidthsAssumption DEF Fields
    <3> QED
      BY <2>1, <2>2, <3>1 DEF SumMeant, Fields
  <2>4. Consistent(t)
    BY <2>1, <2>2, <2>3, Scripts
       DEF Consistent, Fields, TestErrors, OnlyRetryable
  <2> QED
    BY <2>4 DEF t
<1>4. Consistent(test_with_exponential_chaining)
  <2> DEFINE t == test_with_exponential_chaining
             p == ExponentialDefault
  <2>1. /\ Fields(t, p, OnlyRetryable, {}, FailsOnce, "Ok",
                  NoError, 2)
        /\ t.cumulative = Some /\ t.told = <<>>
    BY ScriptEnds DEF test_with_exponential_chaining, WithExponential, Test,
                      Fields
  <2>2. /\ 2 <= p.max_attempts
        /\ Steady(p) => p.base <= 500
    BY TestSettings
  <2> HIDE DEF t, p
  <2>3. SumMeant(t, t.cumulative, 2 - 1)
    BY <2>1, <2>2 DEF SumMeant, Fields
  <2>4. Consistent(t)
    BY <2>1, <2>2, <2>3, Scripts
       DEF Consistent, Fields, TestErrors, OnlyRetryable
  <2> QED
    BY <2>4 DEF t
<1>5. Consistent(test_with_constant_chaining)
  <2> DEFINE t == test_with_constant_chaining
             p == WithConstant(100)
  <2>1. /\ Fields(t, p, OnlyRetryable, {}, <<Fatal, NoError>>,
                  "PredicateRejected", Fatal, 1)
        /\ t.cumulative = Some /\ t.told = <<>>
    BY ScriptEnds DEF test_with_constant_chaining, Test, Fields
  <2>2. /\ 1 <= p.max_attempts
        /\ Steady(p) => p.base <= 500
    BY TestSettings
  <2> HIDE DEF t, p
  <2>3. SumMeant(t, t.cumulative, 1 - 1)
    BY <2>1, <2>2 DEF SumMeant, Fields
  <2>4. Consistent(t)
    BY <2>1, <2>2, <2>3, Scripts
       DEF Consistent, Fields, TestErrors, OnlyRetryable
  <2> QED
    BY <2>4 DEF t
<1> QED
  BY <1>1, <1>2, <1>3, <1>4, <1>5

\* So every test relies on and asserts no more than Consistent says.
LEMMA AllConsistent ==
    ASSUME Retryable # Fatal, U64Max >= 10000, NEW t \in Tests
    PROVE  Consistent(t)
BY PlainTests, CallbackTests, OtherTests DEF Tests

-----------------------------------------------------------------------------
\* What the theorem assumes: the strategies of the tests are among those the
\* loop is given, and the widths hold the tests' numbers.
TestsFit ==
    /\ Retryable # Fatal /\ TestErrors \subseteq Errors
    /\ TestPolicies \subseteq Policies
    /\ AttemptMax >= 8 /\ U64Max >= 10000

\* The settings of a test that are the same for all of its states.
LEMMA TestTyped ==
    ASSUME TestsFit, NEW t \in Tests
    PROVE  /\ Consistent(t)
           /\ t.policy \in Policies /\ t.policy \in PolicyType
           /\ t.policy.max_attempts \in Nat /\ t.policy.base \in 0..U64Max
           /\ t.accepts \subseteq Errors /\ t.hooks \subseteq Hooks
           /\ t.attempts \in 1..8 /\ t.attempts \in 1..AttemptMax
           /\ Retryable # NoError /\ Fatal # NoError
<1>1. Consistent(t) /\ t.policy \in Policies
  BY AllConsistent DEF TestsFit, TestPolicies
<1>2. t.policy \in PolicyType
  BY <1>1, RetryDelaysAssumption
<1>3. t.policy.max_attempts \in Nat /\ t.policy.base \in 0..U64Max
  BY <1>2, WidthsAssumption DEF PolicyType
<1>4. /\ t.accepts \subseteq Errors /\ t.hooks \subseteq Hooks
      /\ t.attempts \in 1..8 /\ t.attempts \in 1..AttemptMax
  BY <1>1, WidthsAssumption DEF Consistent, TestsFit, Hooks
<1> QED
  BY <1>1, <1>2, <1>3, <1>4, ConstantsAssumption DEF TestsFit, TestErrors

\* The delays of a steady policy are one and the same.
LEMMA SteadyDelays ==
    ASSUME NEW p \in Policies, Steady(p), NEW a \in 1..AttemptMax,
           NEW d \in StrategyWith[p].delays[a]
    PROVE  d = p.base
<1>1. p \in PolicyType /\ a \in Nat
  BY RetryDelaysAssumption, WidthsAssumption
<1>2. p.base \in 0..U64Max
  BY <1>1 DEF PolicyType
<1>3. StrategyWith[p].delays[a] = UNION {Delay(p, a, r) : r \in Scalars}
  BY DEF StrategyWith, StrategyOf
<1>4. PICK r \in Scalars : d \in Delay(p, a, r)
  BY <1>3
<1>5. d = ApplyJitter(U64(p.base), Zero, r)
  BY <1>4 DEF Delay, Base, Steady
<1>6. Zero \in Floats /\ InUnit(Zero) /\ Clamp(Zero) = Zero /\ Zero.num = 0
  BY ZeroKept
<1>7. AsU64(Mul(U64(p.base), Blend(Zero, r))) = p.base
  BY <1>2, <1>6, JitterWhole
<1> QED
  BY <1>5, <1>6, <1>7 DEF ApplyJitter

\* A run of a test is a behaviour of the loop.
LEMMA TestNextIsNext ==
    ASSUME TestsFit, PlayInv, [TestNext]_testVars
    PROVE  [Next]_vars /\ UNCHANGED test
<1>1. CASE Build /\ UNCHANGED test
  <2>1. test.accepts \in SUBSET Errors /\ test.hooks \subseteq Hooks
    BY TestTyped DEF PlayInv
  <2> QED
    BY <1>1, <2>1 DEF Build, Next
<1>2. CASE Run /\ UNCHANGED test
  BY <1>2 DEF Run, Next
<1>3. CASE UNCHANGED testVars
  BY <1>3 DEF testVars
<1> QED
  BY <1>1, <1>2, <1>3 DEF TestNext

\* The counters at a state of a test: no width is exceeded.
LEMMA Counted ==
    ASSUME TestsFit, IInv, PlayInv
    PROVE  /\ calls \in 0..8 /\ calls \in Nat
           /\ attempt = IF pc \in Between THEN calls + 1 ELSE calls
           /\ attempt \in 1..AttemptMax
           /\ pc \notin Between => calls > 0 /\ Sleeps = calls - 1
           /\ pc \in Between => Sleeps = calls
<1>1. test.attempts \in 1..8 /\ calls \in Nat /\ calls <= test.attempts
  BY TestTyped DEF PlayInv, IInv, TypeOK
<1>2. pc \in {"build", "operate"} => calls < 8
  BY <1>1 DEF PlayInv
<1>3. attempt \in 1..AttemptMax /\ pc # "unwound"
  BY DEF PlayInv, IInv, TypeOK
<1>4. pc \notin Between => calls > 0
  BY <1>3 DEF IInv, CountersAgree
<1>5. attempt = AtMost(IF pc \in Between THEN calls + 1 ELSE calls, AttemptMax)
  BY <1>3 DEF IInv, CountersAgree
<1>6. AttemptMax >= 8 /\ AttemptMax \in Nat
  BY WidthsAssumption DEF TestsFit
<1>7. attempt = IF pc \in Between THEN calls + 1 ELSE calls
  BY <1>1, <1>2, <1>5, <1>6 DEF AtMost, Between
<1> QED
  BY <1>1, <1>3, <1>4, <1>7 DEF Sleeps

\* The script at a state of a test.
LEMMA Scripted ==
    ASSUME TestsFit, IInv, PlayInv, calls > 0
    PROVE  /\ calls < test.attempts => result = Retryable
           /\ calls = test.attempts => result = test.error
           /\ Retryable \in test.accepts
<1>1. test \in Tests /\ calls \in Nat /\ test.attempts \in 1..8
  BY TestTyped DEF PlayInv, IInv, TypeOK
<1>2. /\ Plays(test.script, test.attempts, test.error)
      /\ Retryable \in test.accepts
  BY <1>1, TestTyped DEF Consistent
<1>3. result = Turn(test.script, calls)
  BY DEF PlayInv
<1> QED
  BY <1>1, <1>2, <1>3 DEF Plays

\* What the strategy of the test answers.
LEMMA Stops ==
    ASSUME TestsFit, IInv, PlayInv, pc = "judge"
    PROVE  /\ strategy.max = test.policy.max_attempts
           /\ attempt \in strategy.retries <=> calls < test.policy.max_attempts
           /\ strategy.delays[attempt] # {} <=> calls < test.policy.max_attempts
           /\ Steady(test.policy) =>
                  \A d \in strategy.delays[attempt] : d = test.policy.base
<1>1. attempt \in 1..AttemptMax /\ attempt = calls
  BY Counted DEF Between
<1>2. test.policy \in Policies /\ strategy = StrategyWith[test.policy]
  BY TestTyped DEF PlayInv
<1> QED
  BY <1>1, <1>2, DelaysBounded, SteadyDelays

-----------------------------------------------------------------------------
\* Each step keeps how far the test is, what it has slept and what it has told.

LEMMA NextPlayInv ==
    ASSUME TestsFit, IInv, PlayInv, [TestNext]_testVars
    PROVE  PlayInv'
<1> USE DEF PlayInv, Ending
<1>1. /\ test \in Tests /\ UNCHANGED test /\ test.attempts \in 1..8
      /\ test.policy.max_attempts \in Nat
      /\ test.attempts <= test.policy.max_attempts
      /\ Retryable # NoError
  BY TestTyped, TestNextIsNext DEF Consistent
<1>2. calls \in Nat
  BY DEF IInv, TypeOK
<1>3. CASE Build
  <2>1. CASE accepts # test.accepts /\ When(test.accepts)
    BY <1>1, <2>1 DEF When, observer
  <2>2. CASE \E hook \in test.hooks \ hooks : SetHook(hook)
    BY <1>1, <2>2 DEF SetHook, observer
  <2>3. CASE accepts = test.accepts /\ hooks = test.hooks /\ Call
    BY <1>1, <2>3 DEF Call, observer
  <2> QED
    BY <1>3, <2>1, <2>2, <2>3 DEF Build
<1>4. CASE Operate /\ result' = Answer
  <2>1. Plays(test.script, test.attempts, test.error)
    BY <1>1, TestTyped DEF Consistent
  <2>2. result' = Turn(test.script, calls + 1)
    <3>1. Len(test.script) \in Nat
      BY <2>1 DEF Plays
    <3> QED
      BY <1>2, <1>4, <3>1 DEF Answer, Turn
  <2>3. calls + 1 < test.attempts => result' = Retryable
    BY <1>1, <1>2, <2>1, <2>2 DEF Plays
  <2> QED
    BY <1>1, <1>2, <1>4, <2>2, <2>3 DEF Operate
<1>5. CASE Succeed
  BY <1>1, <1>5 DEF Succeed
<1>6. CASE Reject \/ Exhaust \/ GiveUp \/ Backoff
  <2>1. pc = "judge" /\ calls > 0 /\ result # NoError /\ accepts = test.accepts
    BY <1>6, Counted DEF Reject, Exhaust, GiveUp, Backoff, Between, Judging,
                         IInv, ResultAgrees
  <2>2. CASE Reject
    <3>1. calls = test.attempts
      BY <1>1, <1>2, <2>1, <2>2, Scripted DEF Reject
    <3> QED
      BY <1>1, <2>1, <2>2, <3>1 DEF Reject, Finalize, observer
  <2>3. CASE Exhaust \/ GiveUp
    <3>1. calls = test.attempts
      BY <1>1, <1>2, <2>1, <2>3, Stops DEF Exhaust, GiveUp
    <3> QED
      BY <1>1, <2>1, <2>3, <3>1 DEF Exhaust, GiveUp, Finalize, observer
  <2>4. CASE Backoff
    <3>1. calls < test.policy.max_attempts /\ result \in test.accepts
      BY <2>1, <2>4, Stops DEF Backoff
    <3>2. calls < test.attempts
      <4> SUFFICES ASSUME calls = test.attempts PROVE FALSE
        BY <1>1, <1>2
      <4>1. result = test.error
        BY <2>1, Scripted
      <4> QED
        BY <1>1, <2>1, <3>1, <4>1, TestTyped DEF Consistent
    <3> QED
      BY <1>1, <2>1, <2>4, <3>2 DEF Backoff, observer
  <2> QED
    BY <1>6, <2>2, <2>3, <2>4
<1>7. CASE Notify
  BY <1>1, <1>7 DEF Notify, program
<1>8. CASE Sleep
  BY <1>1, <1>8 DEF Sleep
<1>9. CASE Fail
  BY <1>1, <1>9 DEF Fail, program
<1>10. CASE UNCHANGED testVars
  BY <1>10 DEF testVars, vars, program, observer
<1> QED
  <2>1. Run => Step /\ (pc = "operate" => result' = Answer)
    BY DEF Run
  <2>2. Operate => pc = "operate"
    BY DEF Operate
  <2> QED
    BY <1>3, <1>4, <1>5, <1>6, <1>7, <1>8, <1>9, <1>10, <2>1, <2>2
       DEF TestNext, Step

LEMMA NextSteadyInv ==
    ASSUME TestsFit, IInv, PlayInv, SteadyInv, [TestNext]_testVars
    PROVE  SteadyInv'
<1>1. [Next]_vars /\ UNCHANGED test /\ pc' # "unwound"
  BY TestNextIsNext, NextPlayInv DEF PlayInv
<1> SUFFICES ASSUME Steady(test.policy)
             PROVE  /\ slept' = test.policy.base * Sleeps'
                    /\ pc' \in {"notify", "sleep"} => delay' = test.policy.base
  BY <1>1 DEF SteadyInv
<1> DEFINE base == test.policy.base
<1>2. /\ base \in Nat /\ calls \in Nat
      /\ slept = base * Sleeps
      /\ pc \in {"notify", "sleep"} => delay = base
  BY TestTyped, WidthsAssumption DEF SteadyInv, PlayInv, IInv, TypeOK
<1>3. CASE Operate
  <2>1. pc = "operate" /\ calls' = calls + 1 /\ slept' = slept
        /\ pc' \in {"succeed", "judge"}
    BY <1>3 DEF Operate
  <2>2. Sleeps' = Sleeps
    BY <1>2, <2>1 DEF Sleeps, Between
  <2> QED
    BY <1>1, <1>2, <2>1, <2>2
<1>4. CASE Backoff
  <2>1. /\ pc = "judge" /\ pc' = "notify" /\ UNCHANGED <<calls, slept>>
        /\ delay' \in strategy.delays[attempt]
    BY <1>4 DEF Backoff, observer
  <2>2. delay' = base
    BY <2>1, Stops
  <2>3. Sleeps' = Sleeps
    BY <2>1 DEF Sleeps, Between
  <2> QED
    BY <1>1, <1>2, <2>1, <2>2, <2>3
<1>5. CASE Sleep
  <2>1. /\ pc = "sleep" /\ pc' = "operate" /\ calls' = calls
        /\ slept' = slept + base
    BY <1>2, <1>5 DEF Sleep
  <2>2. Sleeps = calls - 1 /\ Sleeps' = calls
    BY <2>1, <1>2 DEF Sleeps, Between
  <2>3. ASSUME NEW b \in Nat, NEW c \in Nat
        PROVE  b * (c - 1) + b = b * c
    OBVIOUS
  <2> QED
    BY <1>1, <1>2, <2>1, <2>2, <2>3
<1>6. CASE ~(Operate \/ Backoff \/ Sleep)
  <2>1. /\ UNCHANGED <<calls, slept, delay>>
        /\ pc' \in Between <=> pc \in Between
        /\ pc' \in {"notify", "sleep"} => pc \in {"notify", "sleep"}
    BY <1>1, <1>6 DEF Next, Step, When, SetHook, Call, Succeed, Reject,
       Exhaust, GiveUp, Finalize, Notify, Fail, Unwind, Done, Between, Running,
       observer, program, vars
  <2>2. Sleeps' = Sleeps
    BY <2>1 DEF Sleeps
  <2> QED
    BY <1>1, <1>2, <2>1, <2>2
<1> QED
  BY <1>3, <1>4, <1>5, <1>6

\* The sum of a test is what its settings say.
LEMMA SumTold ==
    ASSUME TestsFit, IInv, PlayInv, SteadyInv, NEW sums, NEW n \in Nat,
           n = Sleeps, SumMeant(test, sums, n)
    PROVE  cumulative_delay_ms \in sums
<1>1. /\ cumulative_delay_ms \in 0..U64Max
      /\ cumulative_delay_ms = AtMost(slept, U64Max)
  BY DEF IInv, TypeOK, CountersAgree
<1>2. CASE sums = Some
  BY <1>1, <1>2 DEF Some
<1>3. CASE Steady(test.policy) /\ test.policy.base * n \in sums
  <2> DEFINE base == test.policy.base
  <2>1. base \in 0..500 /\ n \in 0..8
    <3>1. base \in Nat /\ base <= 500
      BY <1>3, TestTyped, WidthsAssumption DEF PlayInv, Consistent
    <3>2. Sleeps \in {calls, calls - 1} /\ calls \in 0..8
      BY Counted
    <3> QED
      BY <3>1, <3>2
  <2>2. slept = base * n
    BY <1>3 DEF SteadyInv
  <2> HIDE DEF base
  <2>3. base * n \in 0..4000
    <3>1. n = 0 \/ n = 1 \/ n = 2 \/ n = 3 \/ n = 4 \/ n = 5 \/ n = 6 \/ n = 7
          \/ n = 8
      BY <2>1
    <3> QED
      BY <2>1, <3>1
  <2>4. U64Max \in Nat /\ U64Max >= 10000
    BY WidthsAssumption DEF TestsFit
  <2>5. AtMost(slept, U64Max) = base * n
    BY <2>2, <2>3, <2>4 DEF AtMost
  <2> QED
    BY <1>1, <1>3, <2>5 DEF base
<1> QED
  BY <1>2, <1>3 DEF SumMeant

-----------------------------------------------------------------------------
\* A callback that is told what the test says extends the log as it should.
LEMMA Logged ==
    ASSUME LogInv, log' = Append(log, heard'), heard' \in Contexts,
           UNCHANGED test, LogLength' = Len(log) + 1,
           AsTold(heard', test.told[Len(log) + 1])
    PROVE  LogInv'
<1> DEFINE k == Len(log)
<1>1. log \in Seq(Contexts) /\ k \in Nat
  BY DEF LogInv
<1>2. /\ log' \in Seq(Contexts) /\ Len(log') = k + 1 /\ log' # <<>>
      /\ log'[k + 1] = heard' /\ \A n \in 1..k : log'[n] = log[n]
  BY <1>1
<1>3. \A n \in 1..(k + 1) : AsTold(log'[n], test.told[n])
  <2> SUFFICES ASSUME NEW n \in 1..(k + 1) PROVE AsTold(log'[n], test.told[n])
    OBVIOUS
  <2>1. CASE n \in 1..k
    BY <1>2, <2>1 DEF LogInv
  <2>2. CASE n = k + 1
    BY <1>2, <2>2
  <2> QED
    BY <1>1, <2>1, <2>2
<1> QED
  BY <1>2, <1>3 DEF LogInv, AsTold

LEMMA Unlogged ==
    ASSUME LogInv, UNCHANGED <<heard, log, test>>, LogLength' = LogLength
    PROVE  LogInv'
BY DEF LogInv, AsTold

\* What a context says beside its delays.
LEMMA ContextTold ==
    ASSUME TestsFit, IInv, PlayInv, SteadyInv, pc \notin Between,
           NEW hook \in Hooks, NEW next \in SUBSET (0..U64Max), NEW told,
           Meant(test, told, hook, calls),
           next \subseteq told.next, next = {} <=> told.next = {},
           result # NoError <=> hook # "on_success"
    PROVE  /\ Context(hook, next) \in Contexts
           /\ AsTold(Context(hook, next), told)
<1>1. Context(hook, next) \in Contexts
  BY ContextTyped DEF IInv
<1>2. attempt = calls /\ calls - 1 = Sleeps /\ calls - 1 \in Nat
  BY Counted
<1>3. cumulative_delay_ms \in told.cumulative
  BY <1>2, SumTold DEF Meant
<1> QED
  BY <1>1, <1>2, <1>3 DEF Context, AsTold, Meant

LEMMA NextLogInv ==
    ASSUME TestsFit, IInv, PlayInv, SteadyInv, LogInv, [TestNext]_testVars
    PROVE  LogInv'
<1>1. /\ [Next]_vars /\ UNCHANGED test /\ test \in Tests /\ Consistent(test)
      /\ pc' # "unwound"
  BY TestNextIsNext, TestTyped, NextPlayInv DEF PlayInv
<1>2. log' = IF heard' = heard THEN log ELSE Append(log, heard')
  BY DEF TestNext, testVars, vars, observer
<1>3. /\ calls \in Nat /\ log \in Seq(Contexts) /\ Len(log) \in Nat
      /\ Len(log) = LogLength
      /\ heard = IF log = <<>> THEN NoContext ELSE log[Len(log)]
      /\ Len(log) = 0 <=> log = <<>>
  BY DEF IInv, TypeOK, LogInv
<1>4. pc # "build" => hooks = test.hooks
  BY DEF PlayInv
<1>5. CASE Succeed \/ Fail
  <2> DEFINE hook == IF pc = "succeed" THEN "on_success" ELSE "on_failure"
  <2>1. /\ pc \in {"succeed", "fail"} /\ pc' = "done" /\ UNCHANGED calls
        /\ heard' = IF hook \in test.hooks THEN Context(hook, {}) ELSE heard
        /\ result = NoError <=> pc = "succeed"
    BY <1>4, <1>5 DEF Succeed, Fail, IInv, ResultAgrees
  <2>2. calls = test.attempts /\ calls > 0 /\ result = test.error
    BY <2>1, Counted, Scripted DEF PlayInv, Ending, Between
  <2>3. test.kind = "Ok" <=> pc = "succeed"
    BY <1>1, <2>1, <2>2, TestTyped DEF Consistent
  <2>4. hook \in Hooks /\ (result # NoError <=> hook # "on_success")
    BY <2>1 DEF Hooks
  <2>5. CASE hook \in test.hooks
    <3>1. /\ test.hooks = {hook} /\ LogLength = 0 /\ LogLength' = 1
          /\ Meant(test, test.told[1], hook, calls)
      BY <1>1, <2>1, <2>2, <2>5 DEF Consistent, LogLength
    <3>2. log = <<>> /\ heard = NoContext /\ Len(log) = 0
      BY <1>3, <3>1
    <3>3. test.told[1].next = {}
      BY <3>1, <2>1 DEF Meant
    <3>4. pc \notin Between
      BY <2>1 DEF Between
    <3> HIDE DEF hook
    <3>5. /\ Context(hook, {}) \in Contexts
          /\ AsTold(Context(hook, {}), test.told[1])
      BY <2>4, <3>1, <3>3, <3>4, ContextTold
    <3>6. heard' = Context(hook, {}) /\ heard' # heard
      BY <2>1, <2>4, <2>5, <3>2 DEF Context, NoContext, Hooks
    <3> QED
      BY <1>1, <1>2, <3>1, <3>2, <3>5, <3>6, Logged
  <2>6. CASE hook \notin test.hooks
    <3>1. UNCHANGED <<heard, log>>
      BY <1>2, <2>1, <2>6
    <3>2. LogLength' = LogLength
      BY <1>1, <2>1, <2>3, <2>6 DEF LogLength, Consistent
    <3> QED
      BY <1>1, <3>1, <3>2, Unlogged
  <2> QED
    BY <2>5, <2>6
<1>6. CASE Notify
  <2>1. /\ pc = "notify" /\ pc' = "sleep" /\ UNCHANGED calls
        /\ heard' = IF "notify" \in test.hooks THEN Context("notify", {delay})
                                               ELSE heard
        /\ result # NoError /\ delay \in 0..U64Max
    BY <1>4, <1>6 DEF Notify, IInv, ResultAgrees, TypeOK, Judging
  <2>2. /\ pc \notin Between /\ calls > 0
        /\ attempt = calls /\ calls < test.attempts
    BY <2>1, Counted DEF Between, PlayInv
  <2>3. CASE "notify" \in test.hooks
    <3> DEFINE told == test.told[calls]
    <3>1. /\ LogLength = calls - 1 /\ LogLength' = calls
          /\ Meant(test, told, "notify", calls)
      <4>1. test.attempts \in Nat /\ calls \in 1..(test.attempts - 1)
        BY <1>1, <1>3, <2>2, TestTyped
      <4> QED
        BY <1>1, <2>1, <2>3, <4>1 DEF Consistent, LogLength
    <3>2. {delay} \subseteq told.next
      BY <2>1, <3>1 DEF Meant, Some, SteadyInv
    <3>3. /\ Context("notify", {delay}) \in Contexts
          /\ AsTold(Context("notify", {delay}), told)
      BY <2>1, <2>2, <3>1, <3>2, ContextTold DEF Hooks
    <3>4. Context("notify", {delay}) # heard
      <4>1. CASE log = <<>>
        BY <1>3, <4>1 DEF Context, NoContext
      <4>2. CASE log # <<>>
        <5>1. /\ Len(log) \in 1..Len(log) /\ Len(log) = calls - 1
              /\ heard = log[Len(log)]
          BY <1>3, <3>1, <4>2
        <5>2. AsTold(heard, test.told[Len(log)])
          BY <5>1 DEF LogInv
        <5>3. Meant(test, test.told[Len(log)], "notify", Len(log))
          <6>1. Len(log) \in 1..(test.attempts - 1)
            BY <1>1, <1>3, <2>2, <5>1, TestTyped
          <6> QED
            BY <1>1, <2>3, <6>1 DEF Consistent
        <5>4. heard.attempt = Len(log)
          BY <5>2, <5>3 DEF AsTold, Meant
        <5> QED
          BY <1>3, <2>2, <5>1, <5>4 DEF Context
      <4> QED
        BY <4>1, <4>2
    <3>5. Len(log) + 1 = calls /\ heard' = Context("notify", {delay})
      BY <1>3, <2>1, <2>3, <3>1
    <3> QED
      BY <1>1, <1>2, <3>1, <3>3, <3>4, <3>5, Logged
  <2>4. CASE "notify" \notin test.hooks
    BY <1>1, <1>2, <2>1, <2>4, Unlogged DEF LogLength
  <2> QED
    BY <2>3, <2>4
<1>7. CASE Operate
  <2>1. /\ pc = "operate" /\ pc' \in {"succeed", "judge"}
        /\ calls' = calls + 1 /\ heard' = heard
    BY <1>7 DEF Operate
  <2>2. LogLength' = LogLength
    BY <1>1, <1>3, <2>1 DEF LogLength
  <2> QED
    BY <1>1, <1>2, <2>1, <2>2, Unlogged
<1>8. CASE ~(Succeed \/ Fail \/ Notify \/ Operate)
  <2>1. /\ UNCHANGED <<calls, heard>>
        /\ pc' = "done" <=> pc = "done"
        /\ pc' \in {"build", "operate", "sleep"}
              <=> pc \in {"build", "operate", "sleep"}
    BY <1>1, <1>8 DEF Next, Step, When, SetHook, Call, Reject, Exhaust, GiveUp,
       Finalize, Backoff, Sleep, Unwind, Done, Running, observer, program, vars
  <2>2. LogLength' = LogLength
    BY <1>1, <2>1 DEF LogLength
  <2> QED
    BY <1>1, <1>2, <2>1, <2>2, Unlogged
<1> QED
  BY <1>5, <1>6, <1>7, <1>8

-----------------------------------------------------------------------------
\* The inductive invariant of the tests: that of the loop, and where the test is.
TestInv == IInv /\ PlayInv /\ SteadyInv /\ LogInv

LEMMA InitTestInv == TestsFit /\ TestInit => TestInv
<1> SUFFICES ASSUME TestsFit, TestInit PROVE TestInv
  OBVIOUS
<1>1. IInv
  BY InitIInv DEF TestInit
<1>2. test \in Tests /\ test.attempts \in 1..8
  BY TestTyped DEF TestInit
<1>3. PlayInv
  BY <1>2 DEF TestInit, Init, PlayInv, Ending
<1>4. SteadyInv
  <2>1. test.policy.base \in Nat
    BY <1>2, TestTyped, WidthsAssumption
  <2>2. test.policy.base * 0 = 0
    BY <2>1
  <2> QED
    BY <2>2 DEF TestInit, Init, SteadyInv, Sleeps, Between
<1>5. LogInv
  BY DEF TestInit, Init, LogInv, LogLength
<1> QED
  BY <1>1, <1>3, <1>4, <1>5 DEF TestInv

LEMMA NextTestInv == TestsFit /\ TestInv /\ [TestNext]_testVars => TestInv'
<1> SUFFICES ASSUME TestsFit, TestInv, [TestNext]_testVars PROVE TestInv'
  OBVIOUS
<1> USE DEF TestInv
<1>1. IInv'
  BY TestNextIsNext, NextIInv
<1> QED
  BY <1>1, NextPlayInv, NextSteadyInv, NextLogInv

LEMMA InvTestsHold == TestsFit /\ TestInv => TestsHold
<1> SUFFICES ASSUME TestsFit, TestInv, pc = "done"
             PROVE  /\ outcome.kind = test.kind
                    /\ outcome.error = test.error
                    /\ outcome.attempts = test.attempts
                    /\ calls = test.attempts
                    /\ outcome.cumulative \in test.cumulative
                    /\ test.kind = "Exhausted" =>
                           outcome.max_attempts = test.policy.max_attempts
                    /\ Len(log) = Len(test.told)
                    /\ \A n \in DOMAIN log : AsTold(log[n], test.told[n])
  BY DEF TestsHold
<1> USE DEF TestInv
<1>1. test \in Tests /\ Consistent(test) /\ accepts = test.accepts
  BY TestTyped DEF PlayInv
<1>2. /\ calls = test.attempts /\ calls > 0 /\ attempt = calls
      /\ pc \notin Between /\ Sleeps = calls - 1 /\ calls - 1 \in Nat
  BY Counted DEF PlayInv, Ending, Between
<1>3. result = test.error
  BY <1>2, Scripted
<1>4. outcome = Finished(Kind)
  BY DEF IInv, ResultAgrees
<1>5. Kind = test.kind
  BY <1>1, <1>3, TestTyped DEF Kind, Consistent
<1>6. cumulative_delay_ms \in test.cumulative
  <2>1. SumMeant(test, test.cumulative, calls - 1)
    BY <1>1, <1>2 DEF Consistent
  <2> QED
    BY <1>2, <2>1, SumTold
<1>7. strategy.max = test.policy.max_attempts
  <2>1. /\ test.policy \in Policies /\ strategy = StrategyWith[test.policy]
        /\ 1 \in 1..AttemptMax
    BY <1>1, TestTyped, WidthsAssumption DEF PlayInv
  <2> QED
    BY <2>1, DelaysBounded
<1>8. Len(log) = Len(test.told)
  <2>1. Len(log) = LogLength /\ Len(<<>>) = 0
    BY DEF LogInv
  <2>2. LogLength = IF test.hooks = {"notify"} THEN test.attempts - 1
                    ELSE IF test.hooks = {} THEN 0 ELSE 1
    BY <1>2 DEF LogLength
  <2>3. {"on_success"} # {"notify"} /\ {"on_failure"} # {"notify"}
    OBVIOUS
  <2> QED
    BY <1>1, <2>1, <2>2, <2>3 DEF Consistent
<1>9. \A n \in DOMAIN log : AsTold(log[n], test.told[n])
  BY DEF LogInv
<1> QED
  BY <1>2, <1>3, <1>4, <1>5, <1>6, <1>7, <1>8, <1>9 DEF Finished

\* Every assertion of the unit tests of the loop holds in every run of them,
\* in any widths that hold their numbers and whatever the generator draws.
THEOREM TestsAlwaysHold ==
    ASSUME TestsFit
    PROVE  TestSpec => []TestsHold
<1>1. TestInit => TestInv
  BY InitTestInv
<1>2. TestInv /\ [TestNext]_testVars => TestInv'
  BY NextTestInv
<1>3. TestInv => TestsHold
  BY InvTestsHold
<1> QED
  BY <1>1, <1>2, <1>3, PTL DEF TestSpec
=============================================================================
