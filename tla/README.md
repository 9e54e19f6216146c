# ChronoMachines: a TLA+ verification project

ChronoMachines is a retry library: a Ruby gem (`lib/`), a Rust core crate
(`ext/chrono_machines_native/core`) and a native extension that lets the gem
use the core's delay functions (`ext/chrono_machines_native/ffi`).  This
directory models the parts of it that keep state, checks them with TLC on small
instances, and proves the properties that matter most with TLAPS for every
instance.

## The system

| part | source | state | operations | interacts with |
|---|---|---|---|---|
| retry loop | `core/src/retry.rs` | attempt counter (u8), summed delay (u64), the builder's predicate and callbacks | `when`, `notify`, `on_success`, `on_failure`, `call*` | calls the operation, predicate, callbacks, a strategy, a sleeper |
| backoff strategies | `core/src/backoff.rs` | settings only | `delay`, `should_retry`, `max_attempts` | called by the loop |
| policy registry | `core/src/policy.rs` | a vector of (name, policy) | `register`, `get`, `remove`, `all`, `clear` | |
| global registry | `core/src/policy.rs` | one registry behind an `RwLock` in a `OnceLock` | the five global functions | shared by all threads of the process |
| Rust DSL | `core/src/dsl.rs` | none of its own | `builder_for_policy`, `retry_with_policy` | reads the global registry once, then runs the loop; the operation may call the registry itself |
| `Policy` | `core/src/lib.rs` | settings only | `calculate_delay`, `should_retry` | |
| sleepers | `core/src/sleep.rs` | none | `sleep_ms` | called by the loop |
| executor | `lib/chrono_machines/executor.rb`, `async_support.rb` | locals of one call: `attempts`, the rescued exception | `call` | calls the block, callbacks, `sleep` |
| configuration | `configuration.rb`, `dsl.rb`, `chrono_machines.rb`, `test_helper.rb` | the hash of policies, each with an array of exceptions that others may hold | `define_policy`, `get_policy`, `chrono_policy`, the reset of the test helper | read by `Executor#initialize` |
| native speedup | `native_speedup.rb`, `ffi/src/lib.rs` | a thread-local random number generator | the three delay functions | replaces `Executor#calculate_delay` |

What is hard here:

* **Order inside the loop.**  Predicate, exhaustion, delay, callback, sleep and
  counters follow each other in an order on which every reported number
  depends, and the loop can end in four ways (success, rejected, exhausted, and
  a strategy whose `delay` stops earlier than `should_retry`).
* **Code of the caller.**  Operation, predicate, callbacks, sleepers, the
  conversion of a policy's name: each may panic or raise, in the middle of the
  loop or under the write lock.
* **Saturation and zero.**  The counters saturate; `max_attempts` may be 0.
* **Threads.**  The global registry is shared; a search and the effect that
  follows it must not be separated; a poisoned lock stays poisoned.
* **Exceptions in Ruby.**  What `rescue StandardError` takes and what it lets
  pass, in the body, in the sleep, in the fallback and in the callbacks that run
  inside the `rescue` clause.
* **Composition.**  A retry reads a shared table once and must not see it change;
  its operation may change that table, or retry in turn: budgets then multiply,
  and the inner failure is an exception the outer call may retry.
* **Sharing in Ruby.**  A policy is a copy, but an executor shares its policy's
  array of exceptions with everybody who holds it.
* **Arithmetic of delays.**  Infinity, NaN, casts, the clamp to 255 attempts.

`PROJECT.json` lists every hazard at its line with the properties that watch it.

## Modules

| module | models | notes |
|---|---|---|
| `Widths` | the unsigned integers of the core and their `saturating_add` | u8::MAX and u64::MAX are constants |
| `RetryContract` | what a retry promises its caller, whatever its implementation | a budget of attempts; a verdict `ok`, `exhausted`, `rejected` or `aborted` that only the last attempt justifies |
| `RetryLoop` | `RetryBuilder` and `call_with_sleeper_and_rng` | implements `RetryContract` |
| `RetryLoopProofs` | proofs about `RetryLoop` | |
| `Backoff` | the delay functions of `backoff.rs`, `lib.rs`, `ffi/src/lib.rs` and `executor.rb` as operators | over exact fractions with infinity and NaN |
| `DelaySchedule` | the delays of one policy, attempt after attempt, from all four implementations | extends `Backoff` |
| `BackoffProofs`, `DelayScheduleProofs` | proofs about these, and about the unit tests of the delays | the latter extends `DelayTests` |
| `RetryDelays` | the retry loop with the strategies that compute its delays | composes `RetryLoop` and `Backoff` |
| `RetryDelaysProofs` | proofs about the composition and the unit tests of the loop | extends `RetryTests`, `RetryLoopProofs` and `BackoffProofs` |
| `PolicyMap` | what a registry promises: a map from names to policies | |
| `PolicyRegistry` | `PolicyRegistry` | implements `PolicyMap` |
| `GlobalRegistry` | threads on the global functions | extends `PolicyRegistry`; implements `PolicyMap` |
| `RegistryProofs` | proofs about the two registries | |
| `NamedRetry` | what a retry under the name of a policy promises while the table of policies changes | uses `RetryContract` |
| `PolicyRetry` | `dsl.rs`: a thread that retries under names of the global registry | extends `GlobalRegistry`, an instance of `RetryLoop`; implements `NamedRetry` and `PolicyMap` |
| `PolicyRetryProofs` | proofs about `PolicyRetry` | extends `RegistryProofs` |
| `RegistryTests` | the unit tests that use the global registry, as threads | an instance of `GlobalRegistry` |
| `Executor` | one call of the Ruby executor | implements `RetryContract` |
| `ExecutorProofs` | proofs about `Executor` | |
| `Configuration` | the Ruby configuration: policies and the arrays they share | |
| `NestedCalls` | a Ruby retry whose block retries, while the configuration changes | extends `Configuration`; two instances of `Executor` |
| `NestedCallsProofs` | proofs about `Configuration` and `NestedCalls` | |
| `PolicyBuilders` | the defaults and setters of the strategies | extends `Backoff` |
| `DelayTests` | the unit tests of the delay arithmetic (`backoff.rs`, `lib.rs`, `ffi/src/lib.rs`) | |
| `RetryTests` | the unit tests of `retry.rs`, as calls of the loop | extends `RetryDelays` and `DelayTests` |
| `MC*` | small instances for TLC | |

Definitions marked `mutant` are faulty variants of the definition that follows
them.  Nothing uses them: substituting one for its original must break the
property `PROJECT.json` names, which shows that the property can fail.

### RetryLoop

The variables are the locals and fields of the Rust code (`attempt`,
`cumulative_delay_ms`, `backoff` as `strategy`, `when` as the set `accepts`, the
set callbacks as `hooks`), the program counter `pc`, and four observer
variables that the program does not have: `calls`, `slept` (exact sums),
`notices`, `heard`.  The properties compare what the program *says* with what
the observer *saw*.

| `pc` | point of the code | actions |
|---|---|---|
| `build` | the builder | `When`, `SetHook`, `Call` |
| `operate` | `(self.operation)()` | `Operate` |
| `succeed` | the `Ok` arm | `Succeed` |
| `judge` | the `Err` arm | `Reject`, `Exhaust`, `GiveUp`, `Backoff` |
| `notify`, `sleep` | the `Some(delay)` arm | `Notify`, `Sleep` |
| `fail` | `finalize_failure` | `Fail` |
| any of these but `build` | code of the caller panics | `Unwind` |

A strategy is a record: the limit it reports, the attempts after which
`should_retry` holds, and the delays it may draw for each attempt (the empty
set is `None`).  Jitter is thus a choice from a set.  `BuiltIn` builds what the
exponential, constant and Fibonacci strategies have in common; a caller may
implement the trait otherwise, and the properties that do not need a built-in
strategy are checked and proved without assuming one.

### Backoff, DelaySchedule and RetryDelays

A float is a fraction, with denominator 0 for what is not finite: 1/0 and -1/0
are the infinities and 0/0 is NaN.  Multiplication of fractions then is IEEE
multiplication, infinity times zero included; the operations that treat NaN
differently from one another (`FMin`, `Clamp`, `AsU64`, Ruby's `[x, y].min` and
its refusal of a NaN jitter factor) are written out.  A result above `FloatMax`
is infinite.  Rounding and underflow are left out, so two implementations that
"agree" here may differ in the last bit.  `Powi` is the loop of `powi_f64`,
unrolled to the eight turns an exponent below 256 can take; `Fibonacci` is a
recursive function whose sums saturate.  `Scalars` is what the random number
generator may draw.

`DelaySchedule` asks the `BackoffStrategy`, the stand-alone `Policy`, the native
functions and their Ruby twins about the same attempt with the same random
scalar; its properties compare the four answers, with each other, with the
documented formula and with the previous attempt.

`StrategyOf` turns the settings of a policy into a strategy of `RetryLoop`, and
`RetryDelays` is the loop over those strategies.  There the composition of the
two is in question: whether loop and strategy count attempts alike.

### PolicyRegistry and GlobalRegistry

`entries` is the vector and `reply` what the last method returned.  `RegisterAt`,
`GetAt` and `RemoveAt` are the methods after their linear search; in
`PolicyRegistry` the search and the effect are one step, in `GlobalRegistry`
they are two (`Search`, `ActOnEntry`), with every other thread in between.  What
keeps them together is the lock: `Granted` is the external `RwLock` (many
readers or one writer), `Acquire` and `Release` take and drop the guard,
`Panic` is a panic of the caller's `Into<String>` under the write guard, which
poisons the lock, and `Refuse` the `expect` of every later call.  Each thread
runs a program, a finite sequence of calls.

### PolicyRetry and NamedRetry

One of the threads of `GlobalRegistry`, the `Caller`, retries operations under the
names in `wants`, one after the other.  `phase` is where it is:

| `phase` | point of the code | actions |
|---|---|---|
| `ready` | before `retry_with_policy` | `Lookup`: the caller's program becomes one `get` |
| `looking` | `get_global_policy` | steps of `GlobalRegistry`, then `PolicyMissing`, `BuilderForPolicy` or `LookupPanics` |
| `retrying` | the builder and its call | `Configure`, `LoopStep`, `Unwind`, `ReturnOutcome` |
| `operating` | `(self.operation)()` inside the loop | `StartOperation` gives the caller a program from `Nested`; steps of `GlobalRegistry`; `FinishOperation` or `OperationPanics` |
| `ended` | the thread has panicked | |

The steps of the loop are those of `RetryLoop`, the steps of the registry those of
`GlobalRegistry`; nothing is modelled twice.  `NamedRetry` is what a caller may
rely on: the table is read at one moment (`Ask`), and from then on the retry is
the bounded retry of `RetryContract` under that policy, while `Change` does what it
likes to the table.  The refinement maps the lookup's effect under the read lock
to `Ask`.

### Executor

`call` keeps its state in locals and the settings of an executor never change,
so calls do not affect each other, and the module is one call.  `pc` names the
point of the code: `yield` (the block), `succeeded` (`on_success`), `return`,
`rescue` (the three branches of the rescue clause), `final`
(`handle_final_failure`), `on_retry`, `sleep`.  Exceptions are `Standard`
(rescued) or `Severe` (not: `Interrupt`, `SystemExit`, also a `throw`); every
point that runs code of the caller may raise any of them.  `delays` is what
`calculate_delay` may answer, of any sign; the empty set stands for its
`ArgumentError`.  `raised` also says from which point of the code the exception
came, as its backtrace would: `FallbackOnce` needs that to tell an exception of
the fallback from one that broke the call off before there could be a fallback.

An attempt of the contract is the block together with its `on_success`.  That the
block, which had succeeded, runs again when `on_success` raises is thus what the
code does and what `ImplementsContract` allows; it shows that such reruns use up
`max_attempts` like any other and depend on the exception of `on_success`.

### Configuration and NestedCalls

`arrays` holds every array of exceptions ever made, by reference, and a policy is
its `max_attempts` and a reference.  `DefinePolicy` is `define_policy`: a deep copy of
the default of that moment merged with the options, whose own array is shared
with the caller that gave it.  `Extend` is `<<` on an array that somebody can reach
(`retryable_exceptions` of a policy, or the caller's own).  `Setup` is the reset of
`TestHelper`.

In `NestedCalls` the block of one executor calls `ChronoMachines.retry` again, by
symbol or by options.  Both executors are instances of `Executor`; an executor
copies `max_attempts` when it is made and shares the array, which `Settings` reads
whenever an exception is judged.  `BlockRaises` and `InnerEnds` are what the inner
call means for the outer one: `MaxRetriesExceededError` when it is exhausted, the
exception itself when not, `ArgumentError` for a policy that does not exist (any
more).  `Change` lets the configuration change between any two steps.  Callbacks
are unset here, since `Executor` checks them alone.  The observer counts the inner
executors (`made`) and the runs of the inner block (`runs`), and remembers what each
executor was granted, the most an inner one was (`granted.most`), and the sum of what
the inner ones were (`paid`).

### RetryTests and DelayTests

The unit tests are part of the reference.  Each test of `retry.rs` is a record:
the policy it builds, what its operation answers, what it asserts of the outcome
and of the callbacks' arguments.  `RetryTests` runs all of them through `RetryLoop`
with `RetryDelays`' strategies and every draw of the jitter.  The tests of the delay
arithmetic are formulas over `Backoff`.  They show that the model gives the answers
the maintainers expect of the program.

## Runs

| run | asks | properties | bounds |
|---|---|---|---|
| `retry_loop` | is the loop with the strategies that compute its delays a bounded retry, and how long may it sleep? | `TypeOK`, `CallBudget`, `AnnouncedRetries`, `WaitBounded`, `ImplementsContract`, `CallReturns` | 22 policies: limits 0 to 4, caps that bite or not, jitter in and out of range, powers that overflow; counters that saturate at 4 attempts and at 12 ms, floats at 200; two errors, all predicates and callbacks, at most 5 calls (one above every budget, so that the bound never hides an extra call) |
| `retry_custom` | do outcome, callbacks and retries stay right for any strategy? | `IInv`, `FaithfulOutcome`, `TerminalCallback`, `RetriesAreJustified` | built-in strategies given by their delays, counters that saturate at 4 and 5, and with them a strategy that never stops, one whose delay stops early and one that reports no limit; at most 6 calls, two above the point where the counter saturates |
| `retry_tests` | does the model pass the unit tests of the core? | `TestsHold`, `DelayTestsHold` | the tests' own numbers; a cap of u64::MAX at 20 000 |
| `retry_tests_jitter` | do the tests that expect a jittered retry to have slept always pass? (no) | `JitteredTestsHold` | every draw of the jitter |
| `delays` | are the delays what is documented, and do the four implementations agree? | `TypeOK`, `DelayInWindow`, `CapKept`, `PolicyAgrees`, `NativeAgrees`, `DelaysGrow` | 5184 policies (negative, fractional, overflowing and NaN multipliers, jitter from -1/2 to 2 and NaN, caps of 0, in between and u64::MAX), three scalars, nine attempts where u8 ends at 8, u64 at 12 and floats at 200: Fibonacci numbers saturate at the seventh, powers become infinite at the third |
| `delay_cap` | does `max_delay` bound every delay of the gem? (no) | `CapHolds` | constant policies |
| `delay_nan` | is the jitter factor always clamped? (no) | `JitterClamped` | a NaN jitter factor |
| `policy_retry` | is the global registry one map, is a retry bounded by the policy it found, and does everybody get through? | `TypeOK`, `UniqueNames`, `SearchesStayRight`, `LockInv`, `CallsWithoutLock`, `ImplementsMap`, `PoisonedFrozen`, `ImplementsNamedRetry`, `AllEnd` | three threads; six sets of programs without retries (two threads contend for a name, entries move under a reader, a panic, each of three entries removed from a full vector) and two in which one thread retries under one or two names while the others replace, remove, clear or poison and the operations register, remove, read or panic; limits 1 and 3, at most 3 calls; 218 594 states |
| `registry_tests` | do the unit tests pass in threads? (not always) | `TestsPass` | the three tests |
| `executor` | is a Ruby call a bounded retry, whatever raises where? | `TypeOK`, `FallbackOnce`, `SevereEscapes`, `FailureKept`, `RetriesAnnounced`, `ImplementsContract`, `CallEnds` | `max_attempts` -1 to 3, two standard and one severe exception, four sets of retryable ones, all callbacks, both sleeps, delays of each sign and a raising `calculate_delay` |
| `executor_fallback` | does the fallback run only when retries are exhausted? (no) | `FallbackWhenExhausted` | one executor |
| `nested_calls` | what do nested Ruby retries add up to while the configuration changes? | `BudgetsMultiply`, `InterruptEndsBoth`, `LastEndingReported`, `ChangesAreLocal`, `NestedCallEnds`, `NestedCallDescends` | two names, limits 1 to 3 inside and outside, four exceptions, one array of the caller's (network errors) to which `MaxRetriesExceededError` and `Interrupt` are added in place, the first of which turns failures that end a running call into ones it retries, two further arrays (two definitions, or a definition and a reset, anywhere in the call), one positive delay (its signs are those of `executor`), so that sleeps can be interrupted; 922 064 states |

The counters' widths (`AttemptMax`, `U64Max`) are constants so that small
instances reach the saturation that 255 attempts or 2^64 milliseconds would
take to reach; the proofs hold for all widths.

### What the five counterexamples say

* `executor_fallback`: `configuration.rb` calls `on_failure` the fallback when all
  retries are exhausted; it is also called at the first attempt for an
  exception that is not retryable (the gem's tests expect that).
* `delay_cap`: the README calls `max_delay` the maximum delay; the constant
  strategy of the gem never reads it.
* `delay_nan`: `backoff.rs` says the jitter factor is clamped to 0.0 .. 1.0, but
  `f64::clamp` passes NaN on, the product is NaN, and NaN as u64 is 0: a strategy
  whose public field `jitter_factor` is NaN retries without any delay.  `Policy`
  and the native functions take NaN for full jitter and wait.
* `registry_tests`: the tests of `dsl.rs` and `policy.rs` share the global
  registry and clear it, while `cargo test` runs them in threads.
* `retry_tests_jitter`: three tests of `retry.rs` expect a retry with full jitter to
  have slept, but the draw is rounded down to whole milliseconds and may be 0.

Other oddities contradict no sentence of the repository that a run could quote:

* `max_attempts` 0: the loop calls the operation before it asks the strategy, and
  the error then reports 1 attempt of at most 0 (`retry.rs:597`, `:628`).  The budget
  of `RetryContract` is 1 there.
* `retryable_exceptions` outside `StandardError` are never retried: `executor.rb:35`
  rescues `StandardError` only.
* By `Overflows` one case is excluded in `DelayInWindow`: with `base_delay_ms`
  0, once the power of the multiplier is infinite its product with 0 is NaN, `min`
  turns that into the cap, and a policy that never waited waits `max_delay_ms`.
* `NativeAgrees` excludes every product that is NaN, this one and that of a NaN
  multiplier: Rust's `min` drops a NaN where Ruby's `[x, y].min` raises.  The second
  case came to light when the proof did not go through.

## Fairness

* `RetryLoop`: weak fairness of the loop's steps once the caller has called.  The
  call is one thread that keeps running; the operation and the sleeper return
  (or panic).  Nothing obliges the caller to call.
* `GlobalRegistry`: weak fairness of each thread.  The lock itself need not be
  fair: the threads that keep it busy have finitely many calls to make.
* `PolicyRetry`: the same for each thread, and weak fairness of the caller's steps
  outside the registry: the operation, the sleeper and the callbacks return.
  Neither `Configure` nor `Unwind` is obliged to happen.
* `Executor`: weak fairness of the call's steps; block, callbacks and sleeps
  return.
* `NestedCalls`: weak fairness of the two calls together.  Changes of the
  configuration may come between any two steps and need not come at all.

## Proofs

| theorem | says |
|---|---|
| `RetryLoopProofs!Invariance`, `TypeCorrect` | the counters agree with the exact sums and stay within their widths |
| `OutcomesAreFaithful`, `RetriesJustified`, `RetriesAnnounced`, `TerminalReported` | the four properties of the loop, for any strategy |
| `CallsWithinBudget`, `ContractSafety` | budget and contract, for built-in strategies |
| `CallsDescend` | each step of a call uses up one of the steps its budget has left |
| `BuiltInsQualify` | that strategies with any delays and the comparison of the three are such |
| `BackoffProofs!JitterShortens`, `DelayTyped`, `DelayCapped` | jitter never lengthens a delay; delays are u64 and end with the attempts; the cap holds, for all floats |
| `PowiIsPower`, `FibonacciSaturates`, `FibonacciGrows` | the squaring loop computes the power the other implementations multiply out, overflow, infinity and NaN included; a Fibonacci number of saturating sums is the true one, saturated |
| `DelayScheduleProofs!TypeCorrect`, `NeverAboveTheCap` | the same of every schedule, and the types of all four implementations |
| `PolicyAgreesAlways` | strategy and stand-alone `Policy` wait equally long, NaN jitter excepted |
| `AlwaysInWindow` | every delay lies between the documented formula without its jitter and the formula, rounded down |
| `NativeAgreesAlways` | the native functions answer what the Ruby methods do, for products that are numbers |
| `DelaysAlwaysGrow` | without jitter no delay is shorter than the one before |
| `DelayTestsAlwaysHold` | the unit tests of the delays hold with every generator and in every width that holds their numbers |
| `RetryDelaysProofs!ComputedStrategiesQualify` | the strategies that compute their delays are built-in strategies in the sense of the theorems on the loop, which thus hold for them |
| `ComputedCallsWithinBudget`, `ComputedContractSafety`, `ComputedCallsDescend` | budget, contract and ranking with these strategies, for every policy, with nothing left to assume of a strategy |
| `TotalWaitBounded` | a call never sleeps longer than `max_attempts - 1` of its longest delays |
| `TestsAlwaysHold` | every run of a unit test of the loop ends, and tells its callbacks, what the test asserts, whatever is drawn |
| `RegistryProofs!NamesStayUnique`, `RegistryImplementsMap` | the vector is a map |
| `SearchesRight`, `GlobalImplementsMap`, `PoisonFreezes` | the global functions are atomic, for any threads and programs |
| `PolicyRetryProofs!TypesKept`, `LockKept`, `RetriesUseAMap` | the same while a thread retries under the names and its operations call the registry |
| `NamesStayUniqueUnderRetries`, `LookupsStayRight`, `PoisonFreezesRetries` | so are the three properties of the global functions |
| `NoCodeUnderLock` | what is retried, its predicates and its callbacks never run under the registry's lock (the conversion of a policy's name does, when it is registered) |
| `RetriesAreNamedRetries` | the DSL implements `NamedRetry`: a retry is bounded by the one policy it found (for built-in strategies) |
| `ExecutorProofs!InterruptsEscape`, `FailuresKept`, `AllRetriesAnnounced`, `TypeCorrect`, `ContractSafety`, `CallsDescend` | the Ruby call, for all options |
| `FallbackCalledOnce` | one fallback for a failure the executor gives up on, none for a call that another exception breaks off, wherever it was raised |
| `NestedCallsProofs!PoliciesStandAlone`, `PoliciesStandAloneUnderCalls` | a change of one policy changes no other, for any names, options and arrays |
| `BudgetsAlwaysMultiply` | an outer call makes at most one inner executor in each of the attempts it was granted, and the inner block runs at most the sum of their grants, and the product of the outer grant and the largest inner one |
| `InterruptsEndBoth`, `LastEndingAlwaysReported` | the other two properties of nested calls, for any arguments and changes |
| `NestedCallsDescend` | no step and no change gives either of two nested calls more to do |

Assumptions are those named in the modules (`WidthsAssumption`,
`ConstantsAssumption`, `BackoffAssumption`, `ScheduleAssumption`, `RetryDelaysAssumption`,
`AbsentAssumption`, `GlobalAssumption`, `PolicyRetryAssumption`, `LoopAssumption`,
`ExecutorAssumption`, `ConfigurationAssumption`, `NestedAssumption`), which TLC evaluates
in every run; theorems about budgets also assume `BuiltInStrategies`, which
`ComputedStrategiesQualify` discharges for the strategies of the core.
`WidthsAssumption` bounds `AttemptMax` by 255: eight turns of the squaring loop are
all an exponent below 256 can take, and the counter is a u8.

*RetryLoop.*  The saturating counters agree with the exact sums of the observer
(`CountersAgree`) because saturating at every step is saturating the sum
(lemma `SaturatingSum`); the operation's last answer agrees with where the loop is
(`ResultAgrees`).  Neither is implied by the properties: `FaithfulOutcome` speaks
only of the end of a call, and is not inductive.  `NoticeInv` and `BudgetInv` are
added on top of `IInv` for the announcements and the budget.

*Backoff.*  The heart is that the blend `1 - jitter + scalar * jitter` of two
numbers between 0 and 1 is between 0 and 1 (`BlendInUnit`), so that it never
overflows and a product with it stays below any bound of the other factor
(`ScaledBound`); a NaN jitter factor is a case of its own, which ends in 0.
What lets `FMin` keep the cap is that NaN and infinity lose against it
(`CapBounds`).  `Fibonacci`, `RubyFibonacci` and `Power` are recursive: that they
have a value and that it is a number is proved by least counterexample
(`Least`, from the well-foundedness of the naturals): `TableExists`,
`TableTyped` and their siblings.

`PowiIsPower` needs multiplication to associate, which it does not in general: a
product that overflows may come back when the next factor is a fraction.  It does
for the powers of one number, because these are all of magnitude at most one
(`Small`, where nothing overflows) or all of at least one (`Big`, where an overflow
is never undone: `OverflowKept`), and both classes are closed.  Each turn of the
loop then keeps `acc * factor^n` (`TurnTowards`), and after eight turns n is 0.
`FibonacciSaturates` is `SaturatingSum` along the table.  For the window, a float is
compared with another by cross products (`Le`); `CastRoundsDown` says what the cast
does to the order, `BlendBounds` that the blend lies between `1 - jitter` and 1, and
`CappedAmount` that the cap hides an overflow of the power as it hides the power
itself.  `DelaysGrow` follows from `PowerGrows` and `FibonacciGrows`.  `Answered` is the
inductive invariant under both: the answer the schedule holds is that to its
current attempt.

*RetryDelays.*  `SleepsCounted` says that each delay slept belongs to a call made;
with `ResultAgrees` of the loop (a retry comes only at an attempt below the limit)
it bounds the sum.

*The unit tests.*  `DelayTestsAlwaysHold` computes with whole numbers of milliseconds,
which floats hold exactly (`MulWhole`, `JitterWhole`), with the first powers and the
first Fibonacci numbers; it assumes that the generator may draw both ends of its
range, because one test wants two different delays of a thousand.  For
`TestsAlwaysHold`, `Consistent` says what of a test matters: the script answers
`Retryable` until the attempt at which the test expects the end, the end fits the last
answer and the predicate, and what a callback should be told is either not looked at
or follows from a delay that is always the same (`Steady`).  That each of the 29
calls is such a test is a computation (`PlainTests`, `CallbackTests`, `OtherTests`).
That a consistent test holds is an induction: `PlayInv` says how far the script has
been played, `SteadyInv` what a steady delay sums up to, and `LogInv` that the log is
as long as the calls so far ask for, and each of its entries as told.  The loop's own
`IInv` carries over, since a run of a test is a behaviour of the loop
(`TestNextIsNext`).  `TestsFit` is what is assumed: `AttemptMax >= 8`,
`U64Max >= 10000`, and that the loop is given the tests' strategies.

*Registry.*  `Unique` is what makes a vector a map.  The lemmas `PushEntry`,
`ReplaceEntry` and `SwapRemoveEntry` say what the three changes do to uniqueness
and to the table read off the vector; each method then maps to the method of
`PolicyMap` with the same reply.

*GlobalRegistry.*  `LockInv` says who holds the lock and for what.  From it follows
that no other thread changes the vector while a search is held
(`SearchesStayRight`), so `ActOnEntry` is the method of `PolicyRegistry` with its
own search, and the registry's theorem carries over.

*PolicyRetry.*  `PRInv` adds one fact to the registry's invariant: while the caller
retries, it has no call of the registry pending (`Idle`).  Every step of another
thread keeps that (`IdleStays`), and with `LockInv` it gives `NoCodeUnderLock`.  The
refinement needs more: what the loop knows of its budget at each point
(`LoopInv`), that a pending lookup is one `get` for the name wanted
(`LookupPending`), and how phases go with points of the loop (`PhasesAgree`).  The
steps then fall in three groups: those of the registry change the table and
nothing else the caller sees (`TableStep`, from the registry's refinement), except
the one by which the caller's own lookup answers, which is `Ask`
(`SearchesStayRight` says that its answer is the table's); the loop's hidden steps
are stutters (`HiddenStepMaps`); an operation, an end and a panic are `Attempt`,
`Conclude` and `Abort` (`SeenStepMaps`).

*Configuration and NestedCalls.*  `NoAliasing` says that two policies share an array
only if the caller gave it to both; `define_policy` keeps it because it makes a new
array.  `NestedInv` relates the attempts of either executor to what it was granted
when it was made (`GrantsKept`), the inner executors to the attempts of the outer one
and their grants to the largest (`ExecutorsCounted`), and the outer exception to how
the last attempt ended (`EndingKept`).  `OneMore` and `ProductGrows` are the arithmetic
of the product.

*Executor.*  `IInv` conjoins `AttemptsAgree`, `BudgetAgrees`, `FailureAgrees` and
`NoticesAgree`, one for each property.

*Termination.*  `CallReturns`, `CallEnds` and `NestedCallEnds` need fairness, which is
beyond the prover.  What can be proved is why they hold: `StepsLeft` is a natural
number that every step of a call lowers (`CallDescends`).  An attempt of the budget
is worth four steps in Rust and five in Ruby, since that is how far it is from one
call of the operation to the next; budget and attempts are tied together by
`BudgetInv` and `BudgetAgrees`.  For nested calls the order is lexicographic: each
step lowers the outer number, or keeps it and lowers the inner one, and an inner
executor is made only once per attempt of the outer one.  The changes of the
configuration lower nothing, but raise nothing either.

Only model-checked: everything under fairness (`CallReturns`, `AllEnd`, `CallEnds`,
`NestedCallEnds`, and the liveness half of `ImplementsContract`), which is beyond the
prover.  Every other property of the passing runs is stated by a theorem.

## Not modelled

* Rounding and underflow of floats, also of the conversion of a u64 to a float, which
  is exact here and rounds above 2^53 in the code: the theorems on the cap hold up
  to that; which implementation of the gem's delays is
  loaded (`native_speedup.rb` decides once, when the gem is required).
* `sleep.rs`: a sleeper is a call that returns or panics (`Sleep`, `Unwind`).  What
  `StdSleeper` and `FnSleeper` add is one call of the platform.
* `define_policy` and the other methods of the configuration are atomic with respect
  to other Ruby threads: there is no lock, and none of them gives up the
  interpreter between its reads and its one write.
* `Configuration#engine_override` can be set and is read nowhere.  A policy name given
  as a String raises `TypeError` or `NoMethodError` before any state exists.  The
  assertions of the test helper only read.
* `OnceLock` initialisation, which the standard library makes atomic.
* Formatting, error wording, packaging, benchmarks, CI.

## Plan

Everything the plans listed is modelled, checked and, where a prover can reach it,
proved.
