---------------------------- MODULE DelaySchedule ----------------------------
(***************************************************************************)
(* The delays of one policy, attempt after attempt, as the retry loop asks *)
(* for them; the four implementations of Backoff answer for the same       *)
(* attempt and the same random scalar.                                     *)
(***************************************************************************)
EXTENDS Backoff

CONSTANTS Policies,     \* the settings a policy may have
          LastAttempt   \* bound on the attempts that are asked about

ASSUME ScheduleAssumption ==
    Policies \subseteq PolicyType /\ LastAttempt \in Nat

VARIABLES policy,
          attempt,      \* the attempt the answers are for, 0 before the first
          scalar,       \* the random scalar they were computed with
          strategy,     \* what the BackoffStrategy answered (u64 or none)
          standalone,   \* what Policy::calculate_delay answered (u64)
          native,       \* the gem with the native functions (a float, or none
          ruby          \* if it raises), and without them

answers == <<strategy, standalone, native, ruby>>
vars == <<policy, attempt, scalar, answers>>

Init ==
    /\ policy \in Policies
    /\ attempt = 0
    /\ scalar = Zero
    /\ strategy = {} /\ standalone = {} /\ native = {} /\ ruby = {}

Ask(r) ==
    /\ attempt < LastAttempt
    /\ attempt' = attempt + 1
    /\ scalar' = r
    /\ strategy' = Delay(policy, attempt', r)
    /\ standalone' = {CalculateDelay(policy, attempt', policy.jitter, r)}
    /\ native' = NativeCalculateDelay(policy, attempt', r)
    /\ ruby' = RubyCalculateDelay(policy, attempt', r)
    /\ UNCHANGED policy

Done == attempt = LastAttempt /\ UNCHANGED vars

Next == (\E r \in Scalars : Ask(r)) \/ Done

Spec == Init /\ [][Next]_vars

-----------------------------------------------------------------------------
\* Properties.

\* Every answer is of the type the code gives it.
TypeOK ==
    /\ policy \in Policies
    /\ attempt \in 0..LastAttempt
    /\ scalar \in Scalars \cup {Zero}
    /\ strategy \subseteq 0..U64Max
    /\ standalone \subseteq 0..U64Max
    /\ native \subseteq Floats
    /\ ruby \subseteq Floats

AtMost(x, y) == ~Less(y, x)
Same(x, y) == AtMost(x, y) /\ AtMost(y, x)

\* The documented delay before jitter: base * multiplier^(attempt - 1), or
\* base * fibonacci(attempt), capped; constant delays have no cap.
Growth == IF policy.kind = "exponential" THEN Power(policy.multiplier, attempt - 1)
          ELSE IF policy.kind = "fibonacci" THEN U64(RubyFibonacci(attempt))
          ELSE One
Documented ==
    LET delay == IF policy.base = 0 THEN Zero ELSE Mul(U64(policy.base), Growth)
    IN  IF policy.kind = "constant" \/ Less(delay, U64(policy.cap))
        THEN delay ELSE U64(policy.cap)

\* The power of the multiplier is not finite, and times a base of 0 it is NaN.
Overflows == policy.base = 0 /\ Growth.den = 0

\* A delay lies between the documented one less the part given to jitter and
\* the documented one, although the power is computed by squaring and may
\* become infinite, and Fibonacci numbers saturate: the cap hides both.
DelayInWindow ==
    /\ attempt > 0 /\ ~Overflows
    /\ ~IsNaN(policy.jitter) /\ AtMost(Zero, policy.multiplier)
    =>
        \A delay \in strategy :
            /\ AtMost(U64(delay), Documented)
            /\ AtMost(Mul(Documented, Minus(One, Clamp(policy.jitter))),
                      U64(delay + 1))

\* No exponential or Fibonacci delay is longer than the cap, whatever the
\* multiplier and the jitter factor are: negative, infinite or NaN.
CapKept == policy.kind # "constant" => strategy \subseteq 0..policy.cap

\* Without jitter, and with a multiplier that is no fraction, a strategy never
\* answers with a shorter delay than before.
DelaysGrow ==
    [][Same(Clamp(policy.jitter), Zero) /\ AtMost(One, policy.multiplier) =>
           \A d \in strategy, e \in strategy' : d <= e]_vars

\* The strategy and the stand-alone Policy of the same settings wait equally
\* long, unless the jitter factor is NaN.
PolicyAgrees ==
    policy.kind = "exponential" /\ ~IsNaN(policy.jitter) =>
        strategy \subseteq standalone

\* The native functions change no delay of the gem, as long as attempt and
\* Fibonacci number fit their Rust types and no product is NaN.
NativeAgrees ==
    attempt \in 1..AttemptMax /\ ~IsNaN(Mul(U64(policy.base), Growth))
    /\ (policy.kind = "fibonacci" => RubyFibonacci(attempt) <= U64Max) =>
        /\ ruby = {} <=> native = {}
        /\ \A x \in native, y \in ruby : Same(x, y)

\* What the README says of max_delay: the maximum delay of any policy.
CapHolds == \A x \in ruby : AtMost(x, U64(policy.cap))

\* What backoff.rs says of apply_jitter: the factor is clamped to 0.0 .. 1.0.
\* Whatever it then is, the largest scalar leaves the delay as it is.
JitterClamped ==
    Same(scalar, One) => \A delay \in strategy : delay = AsU64(Documented)
=============================================================================
