------------------------------- MODULE Backoff -------------------------------
(***************************************************************************)
(* How long a delay is: the strategies of the Rust core (backoff.rs), its  *)
(* stand-alone Policy (lib.rs), the native functions of the gem            *)
(* (ffi/src/lib.rs) and their Ruby twins (executor.rb), as operators.      *)
(*                                                                         *)
(* A float is an exact fraction, infinite or NaN.  Overflow is modelled,   *)
(* rounding and underflow are not.  With denominator 0 for what is not     *)
(* finite, IEEE multiplication is multiplication of fractions: 1/0 * 0/1   *)
(* is 0/0, which is NaN, as is 0/0 times anything.                         *)
(***************************************************************************)
EXTENDS Widths

CONSTANTS FloatMax,     \* the largest finite float
          Scalars       \* what random_range(0.0..=1.0), or rand, may draw

Fraction(n, d) == [num |-> n, den |-> d]
Floats == [num : Int, den : Nat]

ASSUME BackoffAssumption ==
    /\ FloatMax \in Nat /\ U64Max < FloatMax
    /\ Scalars \subseteq
           {x \in Floats : 0 <= x.num /\ x.num <= x.den /\ 0 < x.den}

Zero == Fraction(0, 1)
One == Fraction(1, 1)
NaN == Fraction(0, 0)
IsNaN(x) == x.num = 0 /\ x.den = 0

Sign(n) == IF n > 0 THEN 1 ELSE IF n < 0 THEN -1 ELSE 0
\* The float with the value n/d.
Float(n, d) == IF Sign(n) * n > FloatMax * d THEN Fraction(Sign(n), 0)
                                            ELSE Fraction(n, d)
Mul(x, y) == Float(x.num * y.num, x.den * y.den)
Sum(x, y) == Float(x.num * y.den + y.num * x.den, x.den * y.den)
Minus(x, y) == Sum(x, Fraction(-y.num, y.den))
Less(x, y) == IF x.den = 0 /\ y.den = 0 THEN x.num < y.num
                                       ELSE x.num * y.den < y.num * x.den

\* f64::min answers the other operand when one is NaN.
FMin(x, y) == IF IsNaN(x) \/ Less(y, x) THEN y ELSE x
\* f64::clamp(0.0, 1.0) answers NaN for NaN.
Clamp(x) == IF IsNaN(x) THEN x
            ELSE IF Less(x, Zero) THEN Zero
            ELSE IF Less(One, x) THEN One ELSE x

\* mutant: a cast that keeps the sign
AsI64(x) == IF x.den = 0 THEN 0 ELSE x.num \div x.den
\* f64 as u64 saturates; NaN becomes 0.
AsU64(x) == IF x.num <= 0 THEN 0
            ELSE IF x.den = 0 THEN U64Max
            ELSE IF x.num \div x.den > U64Max THEN U64Max
            ELSE x.num \div x.den

-----------------------------------------------------------------------------
\* backoff.rs

\* mutant: the factor is squared before it is used
PowiTurnSquaresFirst(s) ==
    IF s.n = 0 THEN s
    ELSE LET f == Mul(s.factor, s.factor)
         IN  [acc |-> IF s.n % 2 = 1 THEN Mul(s.acc, f) ELSE s.acc,
              factor |-> f, n |-> s.n \div 2]
\* One turn of the loop of powi_f64.
PowiTurn(s) ==
    IF s.n = 0 THEN s
    ELSE [acc |-> IF s.n % 2 = 1 THEN Mul(s.acc, s.factor) ELSE s.acc,
          factor |-> Mul(s.factor, s.factor), n |-> s.n \div 2]
\* The exponent (a u8 attempt less one) has at most eight bits and is never
\* negative, so that eight turns are enough.
FourTurns(s) == PowiTurn(PowiTurn(PowiTurn(PowiTurn(s))))
Powi(base, exp) ==
    FourTurns(FourTurns([acc |-> One, factor |-> base, n |-> exp])).acc

Fibonacci(n) ==
    LET fib[k \in 0..n] ==
            IF k = 0 THEN 0
            ELSE IF k <= 2 THEN 1 ELSE SaturatingAdd(fib[k - 2], fib[k - 1], U64Max)
    IN  fib[n]

SaturatingSub(x, y) == IF x < y THEN 0 ELSE x - y
U64(n) == Fraction(n, 1)

\* 1 - jitter_factor + random_scalar * jitter_factor
Blend(jitter, scalar) == Sum(Minus(One, jitter), Mul(scalar, jitter))

\* apply_jitter
ApplyJitter(base, jitter, scalar) ==
    AsU64(Mul(base, Blend(Clamp(jitter), scalar)))

\* mutant: the delay is not capped
ExponentialBaseUncapped(p, attempt) ==
    Mul(U64(p.base), Powi(p.multiplier, SaturatingSub(attempt, 1)))
\* The delay before jitter.
ExponentialBase(p, attempt) ==
    FMin(Mul(U64(p.base), Powi(p.multiplier, SaturatingSub(attempt, 1))),
         U64(p.cap))
FibonacciBase(p, attempt) ==
    FMin(Mul(U64(p.base), U64(Fibonacci(attempt))), U64(p.cap))
Base(p, attempt) == IF p.kind = "exponential" THEN ExponentialBase(p, attempt)
                    ELSE IF p.kind = "fibonacci" THEN FibonacciBase(p, attempt)
                    ELSE U64(p.base)

\* BackoffStrategy for the three strategies: delay (a set with at most one
\* element is an Option) and should_retry.
ShouldRetry(p, attempt) == attempt < p.max_attempts
Delay(p, attempt, scalar) ==
    IF attempt >= p.max_attempts THEN {}
    ELSE {ApplyJitter(Base(p, attempt), p.jitter, scalar)}

\* mutant: the strategy is asked about attempts counted from zero
StrategyOfZeroBased(p) ==
    [max |-> p.max_attempts,
     retries |-> {a \in 1..AttemptMax : ShouldRetry(p, a - 1)},
     delays |-> [a \in 1..AttemptMax |->
                     UNION {Delay(p, a - 1, scalar) : scalar \in Scalars}]]
\* A BackoffPolicy as the retry loop sees it (StrategyType of RetryLoop).
StrategyOf(p) ==
    [max |-> p.max_attempts,
     retries |-> {a \in 1..AttemptMax : ShouldRetry(p, a)},
     delays |-> [a \in 1..AttemptMax |->
                     UNION {Delay(p, a, scalar) : scalar \in Scalars}]]

PolicyType == [kind : {"exponential", "constant", "fibonacci"},
               max_attempts : 0..AttemptMax, base : 0..U64Max,
               multiplier : Floats, cap : 0..U64Max, jitter : Floats]

-----------------------------------------------------------------------------
\* lib.rs: Policy has no jitter factor of its own and no attempt limit here.

\* mutant: the first attempt is already multiplied
PolicyExponentOffByOne(attempt) == attempt
PolicyExponent(attempt) == SaturatingSub(attempt, 1)
NormalizeJitter(x) == IF IsNaN(x) THEN One ELSE Clamp(x)
CalculateDelay(p, attempt, jitter, scalar) ==
    AsU64(Mul(FMin(Mul(U64(p.base), Powi(p.multiplier, PolicyExponent(attempt))),
                   U64(p.cap)),
              Blend(NormalizeJitter(jitter), scalar)))

-----------------------------------------------------------------------------
\* ffi/src/lib.rs: base and cap are floats, and so is the delay.

\* attempt.clamp(1, 255) as u8
NativeAttempt(n) ==
    IF n < 1 THEN 1 ELSE IF n > AttemptMax THEN AttemptMax ELSE n
NativeBase(p, n) ==
    LET attempt == NativeAttempt(n)
    IN  IF p.kind = "exponential"
        THEN FMin(Mul(U64(p.base), Powi(p.multiplier, attempt - 1)), U64(p.cap))
        ELSE IF p.kind = "fibonacci"
        THEN FMin(Mul(U64(p.base), U64(Fibonacci(attempt))), U64(p.cap))
        ELSE U64(p.base)
NativeDelay(p, n, scalar) ==
    Mul(NativeBase(p, n), Blend(NormalizeJitter(p.jitter), scalar))

-----------------------------------------------------------------------------
\* executor.rb and native_speedup.rb.  The empty set is an ArgumentError.

\* Ruby's own power.
Power(x, n) ==
    LET power[k \in 0..n] == IF k = 0 THEN One ELSE Mul(power[k - 1], x)
    IN  power[n]
\* Ruby's Fibonacci numbers are unbounded integers.
RubyFibonacci(n) ==
    LET fib[k \in 0..n] == IF k = 0 THEN 0 ELSE IF k <= 2 THEN 1
                           ELSE fib[k - 2] + fib[k - 1]
    IN  fib[n]

\* [x, y].min raises where f64::min ignores a NaN.
RubyMin(x, y) == IF IsNaN(x) \/ IsNaN(y) THEN {} ELSE {FMin(x, y)}
\* normalized_jitter_factor refuses NaN.
NormalizedJitterFactor(x) == IF IsNaN(x) THEN {} ELSE {Clamp(x)}

\* mutant: the Fibonacci delay is not capped
RubyBaseUncapped(p, n) ==
    IF p.kind = "exponential"
    THEN RubyMin(Mul(U64(p.base), Power(p.multiplier, n - 1)), U64(p.cap))
    ELSE IF p.kind = "fibonacci"
    THEN {Mul(U64(p.base), U64(RubyFibonacci(n)))}
    ELSE {U64(p.base)}
RubyBase(p, n) ==
    IF p.kind = "exponential"
    THEN RubyMin(Mul(U64(p.base), Power(p.multiplier, n - 1)), U64(p.cap))
    ELSE IF p.kind = "fibonacci"
    THEN RubyMin(Mul(U64(p.base), U64(RubyFibonacci(n))), U64(p.cap))
    ELSE {U64(p.base)}

\* ruby_calculate_delay
RubyCalculateDelay(p, n, scalar) ==
    {Mul(base, Blend(jitter, scalar)) :
        base \in RubyBase(p, n), jitter \in NormalizedJitterFactor(p.jitter)}
\* NativeExecutor#calculate_delay
NativeCalculateDelay(p, n, scalar) ==
    {NativeDelay([p EXCEPT !.jitter = jitter], n, scalar) :
        jitter \in NormalizedJitterFactor(p.jitter)}
=============================================================================
