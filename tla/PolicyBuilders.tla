--------------------------- MODULE PolicyBuilders ---------------------------
(***************************************************************************)
(* How a program of the core obtains the settings of a strategy: the       *)
(* defaults of backoff.rs and lib.rs and the setters that change them.     *)
(* Fields a strategy does not have are set to values that have no effect.  *)
(***************************************************************************)
EXTENDS Backoff

Two == Fraction(2, 1)

ExponentialDefault ==
    [kind |-> "exponential", max_attempts |-> 3, base |-> 100,
     multiplier |-> Two, cap |-> 10000, jitter |-> One]
ConstantDefault ==
    [kind |-> "constant", max_attempts |-> 3, base |-> 100,
     multiplier |-> One, cap |-> U64Max, jitter |-> Zero]
FibonacciDefault ==
    [kind |-> "fibonacci", max_attempts |-> 8, base |-> 100,
     multiplier |-> One, cap |-> 10000, jitter |-> One]

\* The setters assign, but for the jitter factor, which is clamped.
MaxAttempts(p, n) == [p EXCEPT !.max_attempts = n]
BaseDelayMs(p, ms) == [p EXCEPT !.base = ms]
DelayMs(p, ms) == [p EXCEPT !.base = ms]
MaxDelayMs(p, ms) == [p EXCEPT !.cap = ms]
Multiplier(p, x) == [p EXCEPT !.multiplier = x]
JitterFactor(p, x) == [p EXCEPT !.jitter = Clamp(x)]

\* RetryableExt
WithExponential == ExponentialDefault
\* mutant: the delay that was asked for is not passed on
WithConstantDefault(ms) == ConstantDefault
WithConstant(ms) == DelayMs(ConstantDefault, ms)
WithFibonacci == FibonacciDefault

\* Policy of lib.rs; its jitter factor is an argument of calculate_delay.
PolicyNew ==
    [kind |-> "exponential", max_attempts |-> 3, base |-> 100,
     multiplier |-> Two, cap |-> 10000, jitter |-> One]
PolicyShouldRetry(p, attempt) == attempt < p.max_attempts
=============================================================================
