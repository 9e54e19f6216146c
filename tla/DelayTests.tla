----------------------------- MODULE DelayTests -----------------------------
(***************************************************************************)
(* The unit tests of the delay arithmetic (backoff.rs, lib.rs, ffi), each  *)
(* for every random scalar where the code's test draws one from a seed.    *)
(* The native functions count in seconds: a test's times are given in the  *)
(* unit in which all of them are whole.                                    *)
(***************************************************************************)
EXTENDS PolicyBuilders

Tenth == Fraction(1, 10)
HalfJitter == Fraction(1, 2)

\* A delay that does not depend on the scalar; Some(ms), or None.
Always(p, attempt, delay) == \A r \in Scalars : Delay(p, attempt, r) = delay

test_exponential_backoff_builder ==
    LET p == JitterFactor(MaxAttempts(MaxDelayMs(Multiplier(BaseDelayMs(
                 ExponentialDefault, 200), Fraction(3, 1)), 5000), 5), HalfJitter)
    IN  p = [kind |-> "exponential", max_attempts |-> 5, base |-> 200,
             multiplier |-> Fraction(3, 1), cap |-> 5000, jitter |-> HalfJitter]

test_exponential_delays ==
    LET p == JitterFactor(Multiplier(BaseDelayMs(ExponentialDefault, 100), Two),
                          Zero)
    IN  Always(p, 1, {100}) /\ Always(p, 2, {200}) /\ Always(p, 3, {})

test_constant_backoff ==
    LET p == JitterFactor(MaxAttempts(DelayMs(ConstantDefault, 500), 4), Zero)
    IN  (\A a \in 1..3 : Always(p, a, {500})) /\ Always(p, 4, {})

\* The core's test asks for 1..7, the one of the native functions for 0..8.
test_fibonacci_sequence ==
    [n \in 0..8 |-> Fibonacci(n)] =
        [n \in 0..8 |-> IF n = 0 THEN 0 ELSE <<1, 1, 2, 3, 5, 8, 13, 21>>[n]]

test_fibonacci_backoff ==
    LET p == JitterFactor(MaxAttempts(BaseDelayMs(FibonacciDefault, 100), 5),
                          Zero)
    IN  /\ \A a \in 1..4 : Always(p, a, {<<100, 100, 200, 300>>[a]})
        /\ Always(p, 5, {})

\* The delays vary: some two draws differ.
test_jitter_application ==
    LET p == JitterFactor(DelayMs(ConstantDefault, 1000), One)
        delays == UNION {Delay(p, a, r) : a \in 1..9, r \in Scalars}
    IN  /\ \E d, e \in delays : d # e
        /\ \A d \in delays : d <= 1000

-----------------------------------------------------------------------------
\* lib.rs

Settings(max, base, multiplier, cap) ==
    [PolicyNew EXCEPT !.max_attempts = max, !.base = base,
                      !.multiplier = multiplier, !.cap = cap]
\* calculate_delay_with_rng lies between low and high.
Within(p, attempt, jitter, low, high) ==
    \A r \in Scalars : CalculateDelay(p, attempt, jitter, r) \in low..high

test_policy_default ==
    <<PolicyNew.max_attempts, PolicyNew.base, PolicyNew.multiplier, PolicyNew.cap>>
        = <<3, 100, Two, 10000>>

test_calculate_delay_bounds ==
    LET p == Settings(5, 100, Two, 1000)
    IN  /\ Within(p, 1, One, 0, 100)
        /\ Within(p, 2, One, 0, 200)
        /\ Within(p, 5, One, 0, 1000)

test_should_retry ==
    {a \in 1..4 : PolicyShouldRetry(Settings(3, 100, Two, 10000), a)} = {1, 2}

test_max_delay_cap == Within(Settings(10, 100, Two, 500), 10, One, 0, 500)

test_zero_multiplier ==
    \A a \in 1..5 : Within(Settings(5, 100, One, 10000), a, One, 0, 100)

test_jitter_factor ==
    LET p == Settings(5, 1000, One, 10000)
    IN  /\ Within(p, 1, Tenth, 900, 1000)
        /\ Within(p, 1, Zero, 1000, 1000)
        /\ Within(p, 1, One, 0, 1000)

test_jitter_factor_clamping ==
    LET p == Settings(5, 1000, One, 10000)
    IN  /\ \A x \in {Fraction(-1, 2), Fraction(-999, 1)} :
               Within(p, 1, x, 1000, 1000)
        /\ \A x \in {Two, Fraction(999, 1)} : Within(p, 1, x, 0, 1000)

-----------------------------------------------------------------------------
\* ffi/src/lib.rs

Seconds(kind, base, cap, jitter) ==
    [kind |-> kind, max_attempts |-> 3, base |-> base, multiplier |-> One,
     cap |-> cap, jitter |-> jitter]
\* The native delay lies between the fractions low and high.
NativeBetween(p, n, low, high) ==
    \A r \in Scalars : LET d == NativeDelay(p, n, r)
                       IN  ~Less(d, low) /\ ~Less(high, d)

test_exponential_delay ==
    NativeBetween(Seconds("exponential", 4, 10, HalfJitter), 1,
                  Two, Fraction(4, 1))

test_constant_delay ==
    /\ NativeBetween(Seconds("constant", 10, 10, Tenth), 5,
                     Fraction(9, 1), Fraction(10, 1))
    /\ NativeBetween(Seconds("constant", 5, 10, Zero), 3,
                     Fraction(5, 1), Fraction(5, 1))

test_fibonacci_delay ==
    LET p == Seconds("fibonacci", 1, 100, Zero)
    IN  \A n \in {1, 5, 8} : LET d == U64(Fibonacci(n))
                             IN  NativeBetween(p, n, d, d)

-----------------------------------------------------------------------------
\* Every assertion of these tests holds, whatever the generator draws.
DelayTestsHold ==
    /\ test_exponential_backoff_builder /\ test_exponential_delays
    /\ test_constant_backoff /\ test_fibonacci_sequence
    /\ test_fibonacci_backoff /\ test_jitter_application
    /\ test_policy_default /\ test_calculate_delay_bounds /\ test_should_retry
    /\ test_max_delay_cap /\ test_zero_multiplier /\ test_jitter_factor
    /\ test_jitter_factor_clamping
    /\ test_exponential_delay /\ test_constant_delay /\ test_fibonacci_delay
=============================================================================
