------------------------- MODULE DelayScheduleProofs -------------------------
(***************************************************************************)
(* Proofs of the invariants of DelaySchedule, for every set of policies    *)
(* and any number of attempts, and of the unit tests of the delays         *)
(* (DelayTests), for every generator and every width.                      *)
(***************************************************************************)
EXTENDS DelaySchedule, DelayTests, BackoffProofs

\* The stand-alone Policy answers with a u64.
LEMMA CalculateDelayTyped ==
    ASSUME NEW p \in PolicyType, NEW a \in Nat, NEW r \in Scalars
    PROVE  CalculateDelay(p, a, p.jitter, r) \in 0..U64Max
<1>1. /\ p.base \in Nat /\ p.multiplier \in Floats /\ p.cap \in 0..U64Max
      /\ p.jitter \in Floats /\ r \in Floats
  BY BackoffAssumption, WidthsAssumption DEF PolicyType
<1>2. PolicyExponent(a) \in Nat
  BY DEF PolicyExponent, SaturatingSub
<1> DEFINE x == Mul(U64(p.base), Powi(p.multiplier, PolicyExponent(a)))
           y == Blend(NormalizeJitter(p.jitter), r)
<1>3. x \in Floats
  BY <1>1, <1>2, U64Typed, PowiTyped, MulTyped
<1>4. NormalizeJitter(p.jitter) \in Floats
  BY <1>1, ConstantsTyped, ClampTyped DEF NormalizeJitter
<1>5. y \in Floats
  BY <1>1, <1>4, BlendTyped
<1>6. CalculateDelay(p, a, p.jitter, r) = AsU64(Mul(FMin(x, U64(p.cap)), y))
  BY DEF CalculateDelay
<1> HIDE DEF x, y
<1> QED
  BY <1>1, <1>3, <1>5, <1>6, CapBounds, MulTyped, AsU64Typed

\* The gem answers with floats, if it answers.
LEMMA GemTyped ==
    ASSUME NEW p \in PolicyType, NEW a \in Nat \ {0}, NEW r \in Scalars
    PROVE  /\ NativeCalculateDelay(p, a, r) \subseteq Floats
           /\ RubyCalculateDelay(p, a, r) \subseteq Floats
<1>1. /\ p.kind \in {"exponential", "constant", "fibonacci"}
      /\ p.base \in Nat /\ p.multiplier \in Floats /\ p.cap \in 0..U64Max
      /\ p.jitter \in Floats /\ r \in Floats
  BY BackoffAssumption, WidthsAssumption DEF PolicyType
<1>2. U64(p.base) \in Floats
  BY <1>1, U64Typed
<1>3. NormalizedJitterFactor(p.jitter) \subseteq Floats
  BY <1>1, ClampTyped DEF NormalizedJitterFactor
<1>4. RubyBase(p, a) \subseteq Floats
  <2>1. ASSUME NEW x \in Floats PROVE RubyMin(x, U64(p.cap)) \subseteq Floats
    BY <1>1, CapBounds DEF RubyMin
  <2>2. Power(p.multiplier, a - 1) \in Floats
    BY <1>1, PowerTyped
  <2>3. U64(RubyFibonacci(a)) \in Floats
    BY RubyFibonacciTyped, U64Typed
  <2> QED
    BY <1>1, <1>2, <2>1, <2>2, <2>3, MulTyped DEF RubyBase
<1>5. ASSUME NEW jitter \in NormalizedJitterFactor(p.jitter)
      PROVE  NativeDelay([p EXCEPT !.jitter = jitter], a, r) \in Floats
  <2> DEFINE q == [p EXCEPT !.jitter = jitter]
  <2>1. q.kind = p.kind /\ q.base = p.base /\ q.cap = p.cap
        /\ q.multiplier = p.multiplier /\ q.jitter = jitter
    BY DEF PolicyType
  <2>2. NativeAttempt(a) \in Nat \ {0}
    BY BackoffAssumption, WidthsAssumption DEF NativeAttempt
  <2>3. Powi(q.multiplier, NativeAttempt(a) - 1) \in Floats
    BY <1>1, <2>1, <2>2, PowiTyped
  <2>4. U64(Fibonacci(NativeAttempt(a))) \in Floats
    BY <2>2, FibonacciTyped, U64Typed
  <2>5. NativeBase(q, a) \in Floats
    BY <1>1, <1>2, <2>1, <2>3, <2>4, MulTyped, CapBounds DEF NativeBase
  <2>6. NormalizeJitter(q.jitter) \in Floats
    BY <1>3, <2>1, ConstantsTyped, ClampTyped DEF NormalizeJitter
  <2>7. Blend(NormalizeJitter(q.jitter), r) \in Floats
    BY <1>1, <2>6, BlendTyped
  <2> QED
    BY <2>5, <2>7, MulTyped DEF NativeDelay
<1>6. NativeCalculateDelay(p, a, r) \subseteq Floats
  BY <1>5 DEF NativeCalculateDelay
<1>7. RubyCalculateDelay(p, a, r) \subseteq Floats
  BY <1>1, <1>3, <1>4, BlendTyped, MulTyped DEF RubyCalculateDelay
<1> QED
  BY <1>6, <1>7

-----------------------------------------------------------------------------
IInv == TypeOK /\ CapKept

LEMMA Initially == Init => IInv
<1> SUFFICES ASSUME Init PROVE IInv
  OBVIOUS
<1>1. attempt \in 0..LastAttempt
  BY ScheduleAssumption DEF Init
<1> QED
  BY <1>1 DEF Init, IInv, TypeOK, CapKept

LEMMA Preserved == IInv /\ [Next]_vars => IInv'
<1> SUFFICES ASSUME IInv, [Next]_vars PROVE IInv'
  OBVIOUS
<1>1. ASSUME NEW r \in Scalars, Ask(r) PROVE IInv'
  <2>1. /\ policy' = policy /\ policy \in PolicyType
        /\ attempt' \in 0..LastAttempt /\ attempt' \in Nat \ {0}
        /\ scalar' = r
    BY <1>1, ScheduleAssumption DEF Ask, IInv, TypeOK
  <2>2. strategy' \subseteq 0..U64Max
    BY <1>1, <2>1, DelayTyped DEF Ask
  <2>3. standalone' \subseteq 0..U64Max
    BY <1>1, <2>1, CalculateDelayTyped DEF Ask
  <2>4. native' \subseteq Floats /\ ruby' \subseteq Floats
    BY <1>1, <2>1, GemTyped DEF Ask
  <2>5. CapKept'
    BY <1>1, <2>1, DelayCapped DEF Ask, CapKept
  <2> QED
    BY <2>1, <2>2, <2>3, <2>4, <2>5 DEF IInv, TypeOK
<1>2. CASE UNCHANGED vars
  BY <1>2 DEF vars, answers, IInv, TypeOK, CapKept
<1> QED
  BY <1>1, <1>2 DEF Next, Done

\* Every answer keeps its type: the strategy and the stand-alone Policy answer
\* with u64 numbers, whatever the float they are cast from, and the gem with
\* floats.
THEOREM TypeCorrect == Spec => []TypeOK
<1>1. IInv => TypeOK
  BY DEF IInv
<1> QED
  BY <1>1, Initially, Preserved, PTL DEF Spec

\* No exponential or Fibonacci delay is ever longer than max_delay_ms.
THEOREM NeverAboveTheCap == Spec => []CapKept
<1>1. IInv => CapKept
  BY DEF IInv
<1> QED
  BY <1>1, Initially, Preserved, PTL DEF Spec

\* The strategy and the stand-alone Policy of the same settings wait equally
\* long, unless the jitter factor is NaN.
THEOREM PolicyAgreesAlways == Spec => []PolicyAgrees
<1>1. Init => PolicyAgrees
  BY DEF Init, PolicyAgrees
<1>2. PolicyAgrees /\ [Next]_vars => PolicyAgrees'
  <2> SUFFICES ASSUME PolicyAgrees, [Next]_vars PROVE PolicyAgrees'
    OBVIOUS
  <2>1. ASSUME NEW r \in Scalars, Ask(r),
               policy.kind = "exponential", ~IsNaN(policy.jitter)
        PROVE  strategy' \subseteq standalone'
    <3>1. NormalizeJitter(policy.jitter) = Clamp(policy.jitter)
      BY <2>1 DEF NormalizeJitter
    <3>2. ApplyJitter(Base(policy, attempt'), policy.jitter, r)
              = CalculateDelay(policy, attempt', policy.jitter, r)
      BY <2>1, <3>1 DEF ApplyJitter, Base, ExponentialBase, CalculateDelay,
                        PolicyExponent
    <3> QED
      BY <2>1, <3>2 DEF Ask, Delay
  <2>2. ASSUME NEW r \in Scalars, Ask(r) PROVE PolicyAgrees'
    BY <2>1, <2>2 DEF Ask, PolicyAgrees
  <2>3. CASE UNCHANGED vars
    BY <2>3 DEF vars, answers, PolicyAgrees
  <2> QED
    BY <2>2, <2>3 DEF Next, Done
<1> QED
  BY <1>1, <1>2, PTL DEF Spec

-----------------------------------------------------------------------------
\* The native functions against Ruby's own arithmetic.

LEMMA ClampTwice ==
    ASSUME NEW x \in Floats, ~IsNaN(x)
    PROVE  NormalizeJitter(Clamp(x)) = Clamp(x)
<1>1. Clamp(x) \in Floats /\ InUnit(Clamp(x))
  BY ClampTyped, ClampInUnit
<1> DEFINE c == Clamp(x)
<1>2. /\ c.num \in Int /\ c.den \in Nat
      /\ 0 <= c.num /\ c.num <= c.den /\ 0 < c.den
  BY <1>1 DEF Floats, InUnit
<1> HIDE DEF c
<1>3. NormalizeJitter(c) = c
  BY <1>2 DEF NormalizeJitter, Clamp, IsNaN, Less, Zero, One, Fraction
<1> QED
  BY <1>3 DEF c

\* The base delay of the gem without the native functions is the one with them,
\* unless a product is NaN or a Fibonacci number exceeds the u64.
LEMMA BasesAgree ==
    ASSUME NEW p \in PolicyType, NEW a \in 1..AttemptMax,
           p.kind = "exponential" =>
               ~IsNaN(Mul(U64(p.base), Power(p.multiplier, a - 1))),
           p.kind = "fibonacci" => RubyFibonacci(a) <= U64Max
    PROVE  RubyBase(p, a) = {NativeBase(p, a)}
<1>1. /\ p.kind \in {"exponential", "constant", "fibonacci"}
      /\ p.base \in Nat /\ p.multiplier \in Floats /\ p.cap \in Nat
  BY WidthsAssumption DEF PolicyType
<1>2. NativeAttempt(a) = a /\ a \in Nat /\ a - 1 \in 0..255
  BY WidthsAssumption DEF NativeAttempt
<1>3. ~IsNaN(U64(p.cap))
  BY DEF IsNaN, U64, Fraction
<1>4. CASE p.kind = "exponential"
  <2>1. Powi(p.multiplier, a - 1) = Power(p.multiplier, a - 1)
    BY <1>1, <1>2, PowiIsPower
  <2> DEFINE x == Mul(U64(p.base), Power(p.multiplier, a - 1))
  <2>2. RubyBase(p, a) = RubyMin(x, U64(p.cap))
    BY <1>4 DEF RubyBase
  <2>3. NativeBase(p, a) = FMin(x, U64(p.cap))
    BY <1>2, <1>4, <2>1 DEF NativeBase
  <2>4. ~IsNaN(x)
    BY <1>4
  <2> HIDE DEF x
  <2> QED
    BY <1>3, <2>2, <2>3, <2>4 DEF RubyMin
<1>5. CASE p.kind = "fibonacci"
  <2> DEFINE n == RubyFibonacci(a)
  <2>1. Fibonacci(a) = n /\ n \in Nat
    BY <1>2, <1>5, FibonacciSaturates, RubyFibonacciTyped, WidthsAssumption
       DEF Saturated
  <2> HIDE DEF n
  <2>2. ~IsNaN(Mul(U64(p.base), U64(n)))
    <3>1. Mul(U64(p.base), U64(n)) = Float(p.base * n, 1)
      BY DEF Mul, U64, Fraction
    <3>2. p.base * n \in Nat /\ FloatMax \in Nat
      BY <1>1, <2>1, BackoffAssumption
    <3> QED
      BY <3>1, <3>2 DEF Float, Fraction, Sign, IsNaN
  <2>3. RubyBase(p, a) = RubyMin(Mul(U64(p.base), U64(n)), U64(p.cap))
    BY <1>5 DEF RubyBase, n
  <2>4. NativeBase(p, a) = FMin(Mul(U64(p.base), U64(n)), U64(p.cap))
    BY <1>2, <1>5, <2>1 DEF NativeBase
  <2> QED
    BY <1>3, <2>2, <2>3, <2>4 DEF RubyMin
<1>6. CASE p.kind = "constant"
  BY <1>6 DEF RubyBase, NativeBase
<1> QED
  BY <1>1, <1>4, <1>5, <1>6

LEMMA GemsAgree ==
    ASSUME NEW p \in PolicyType, NEW a \in 1..AttemptMax, NEW r \in Scalars,
           p.kind = "exponential" =>
               ~IsNaN(Mul(U64(p.base), Power(p.multiplier, a - 1))),
           p.kind = "fibonacci" => RubyFibonacci(a) <= U64Max
    PROVE  NativeCalculateDelay(p, a, r) = RubyCalculateDelay(p, a, r)
<1>1. p.jitter \in Floats
  BY DEF PolicyType
<1>2. CASE IsNaN(p.jitter)
  BY <1>2 DEF NativeCalculateDelay, RubyCalculateDelay, NormalizedJitterFactor
<1>3. CASE ~IsNaN(p.jitter)
  <2> DEFINE c == Clamp(p.jitter)  q == [p EXCEPT !.jitter = c]
  <2>1. NormalizeJitter(c) = c
    BY <1>1, <1>3, ClampTwice
  <2>2. NormalizedJitterFactor(p.jitter) = {c}
    BY <1>3 DEF NormalizedJitterFactor
  <2> HIDE DEF c
  <2>3. /\ q.kind = p.kind /\ q.base = p.base /\ q.cap = p.cap
        /\ q.multiplier = p.multiplier /\ q.jitter = c
    BY DEF PolicyType
  <2>4. NativeBase(q, a) = NativeBase(p, a)
    BY <2>3 DEF NativeBase
  <2>5. NativeDelay(q, a, r) = Mul(NativeBase(p, a), Blend(c, r))
    BY <2>1, <2>3, <2>4 DEF NativeDelay
  <2>6. NativeCalculateDelay(p, a, r) = {NativeDelay(q, a, r)}
    BY <2>2 DEF NativeCalculateDelay
  <2>7. RubyCalculateDelay(p, a, r) = {Mul(NativeBase(p, a), Blend(c, r))}
    BY <2>2, BasesAgree DEF RubyCalculateDelay
  <2> QED
    BY <2>5, <2>6, <2>7
<1> QED
  BY <1>2, <1>3

\* The native functions change no delay of the gem, for every policy and every
\* attempt that fits a u8, as long as no Fibonacci number exceeds a u64 and no
\* product is NaN; and they raise where Ruby's own arithmetic raises.
THEOREM NativeAgreesAlways == Spec => []NativeAgrees
<1>1. Init => NativeAgrees
  BY DEF Init, NativeAgrees
<1>2. TypeOK /\ NativeAgrees /\ [Next]_vars => NativeAgrees'
  <2> SUFFICES ASSUME TypeOK, NativeAgrees, [Next]_vars PROVE NativeAgrees'
    OBVIOUS
  <2>1. ASSUME NEW r \in Scalars, Ask(r), attempt' \in 1..AttemptMax,
               ~IsNaN(Mul(U64(policy.base), Growth))',
               policy.kind = "fibonacci" => RubyFibonacci(attempt') <= U64Max
        PROVE  native' = ruby' /\ \E x \in Floats : ruby' \subseteq {x}
    <3>1. policy' = policy /\ policy \in PolicyType
      BY <2>1, ScheduleAssumption DEF Ask, TypeOK
    <3>2. native' = ruby'
      BY <2>1, <3>1, GemsAgree DEF Ask, Growth
    <3>3. ruby' \subseteq Floats
      BY <2>1, <3>1, GemTyped DEF Ask
    <3>4. \E b : RubyBase(policy, attempt') \subseteq {b}
      BY DEF RubyBase, RubyMin
    <3>5. \E j : NormalizedJitterFactor(policy.jitter) \subseteq {j}
      BY DEF NormalizedJitterFactor
    <3>6. \E x : ruby' \subseteq {x}
      BY <2>1, <3>4, <3>5 DEF Ask, RubyCalculateDelay
    <3> QED
      BY <3>2, <3>3, <3>6, ConstantsTyped
  <2>2. ASSUME NEW x \in Floats PROVE Same(x, x)
    BY DEF Same, AtMost, Less, Floats
  <2>3. ASSUME NEW r \in Scalars, Ask(r) PROVE NativeAgrees'
    <3>1. policy' = policy
      BY <2>3 DEF Ask
    <3> QED
      BY <2>1, <2>2, <2>3, <3>1 DEF NativeAgrees
  <2>4. CASE UNCHANGED vars
    BY <2>4 DEF vars, answers, NativeAgrees, Growth
  <2> QED
    BY <2>3, <2>4 DEF Next, Done
<1> QED
  BY <1>1, <1>2, TypeCorrect, PTL DEF Spec

-----------------------------------------------------------------------------
\* The delays against the documented formula.

\* The delay before jitter has the documented value, although powers overflow
\* and Fibonacci numbers saturate.
LEMMA BaseIsDocumented ==
    ASSUME policy \in PolicyType, attempt \in 1..255,
           AtMost(Zero, policy.multiplier), ~Overflows
    PROVE  /\ Documented \in Amounts /\ Base(policy, attempt) \in Amounts
           /\ Le(Documented, Base(policy, attempt))
           /\ Le(Base(policy, attempt), Documented)
<1> DEFINE b == policy.base  c == policy.cap  B == Base(policy, attempt)
           G == Growth  x == Mul(U64(b), G)
           m == policy.multiplier
<1>1. /\ policy.kind \in {"exponential", "constant", "fibonacci"}
      /\ b \in 0..U64Max /\ b \in Nat /\ c \in 0..U64Max /\ c \in Nat
      /\ m \in Floats
  BY WidthsAssumption DEF PolicyType
<1>2. 0 <= m.num
  BY <1>1 DEF AtMost, Less, Zero, Fraction, Floats
<1>3. attempt \in Nat \ {0} /\ attempt - 1 \in Nat
  OBVIOUS
<1>4. CASE policy.kind = "constant"
  <2>1. Documented = U64(b)
    <3>1. CASE b = 0
      BY <1>4, <3>1 DEF Documented, Zero, U64
    <3>2. CASE b # 0
      <4>1. Mul(U64(b), One) = Float(b, 1)
        BY <1>1 DEF Mul, U64, One, Fraction
      <4>2. Float(b, 1) = Fraction(b, 1)
        BY <1>1, FiniteFloat
      <4> QED
        BY <1>4, <3>2, <4>1, <4>2 DEF Documented, Growth, U64
    <3> QED
      BY <3>1, <3>2
  <2>2. B = U64(b)
    BY <1>4 DEF Base
  <2> QED
    BY <1>1, <2>1, <2>2, U64Amount, LeReflexive DEF Amounts
<1>5. ASSUME policy.kind # "constant"
      PROVE  /\ G \in Floats /\ 0 <= G.num
             /\ x \in Floats /\ 0 <= x.num
             /\ x = Float(b * G.num, G.den)
  <2>1. G \in Floats /\ 0 <= G.num
    <3>1. CASE policy.kind = "exponential"
      BY <1>1, <1>2, <1>3, <3>1, PowerTyped, PowerNatural DEF Growth
    <3>2. CASE policy.kind = "fibonacci"
      <4>1. G = U64(RubyFibonacci(attempt)) /\ RubyFibonacci(attempt) \in Nat
        BY <1>3, <3>2, RubyFibonacciTyped DEF Growth
      <4> QED
        BY <4>1, U64Typed DEF U64, Fraction
    <3> QED
      BY <1>1, <1>5, <3>1, <3>2
  <2> HIDE DEF G
  <2> QED
    BY <1>1, <2>1, MulNatural
<1>6. CASE policy.kind # "constant" /\ b = 0
  <2>1. G.den \in Nat \ {0} /\ x = Fraction(0, G.den)
    <3>1. G.den \in Nat \ {0}
      BY <1>5, <1>6 DEF Overflows, Floats
    <3>2. b * G.num = 0
      BY <1>5, <1>6 DEF Floats
    <3>3. 0 <= 0 * G.den
      BY <3>1
    <3> HIDE DEF G
    <3>4. Float(0, G.den) = Fraction(0, G.den)
      BY <3>1, SmallFloat DEF Sign
    <3> QED
      BY <1>5, <1>6, <3>1, <3>2, <3>4
  <2>2. FMin(x, U64(c)) = x
    <3> HIDE DEF x, G
    <3>1. x.num = 0 /\ x.den \in Nat \ {0}
      BY <2>1 DEF Fraction
    <3>2. ~(c * x.den < 0 * 1)
      <4>1. c * x.den \in Nat
        BY <1>1, <3>1
      <4> QED
        BY <4>1
    <3> QED
      BY <3>1, <3>2 DEF FMin, IsNaN, Less, U64, Fraction
  <2>3. B = FMin(x, U64(c))
    <3>1. CASE policy.kind = "exponential"
      BY <3>1, ExponentialBaseIs DEF Growth
    <3>2. CASE policy.kind = "fibonacci"
      <4> DEFINE n == Fibonacci(attempt)  r == RubyFibonacci(attempt)
      <4>1. n \in Nat /\ r \in Nat
        BY <1>3, FibonacciTyped, RubyFibonacciTyped
      <4>2. B = FMin(Mul(U64(b), U64(n)), U64(c)) /\ G = U64(r)
        BY <3>2 DEF Base, FibonacciBase, Growth
      <4> HIDE DEF n, r
      <4>3. /\ Mul(U64(b), U64(n)) = Float(0, 1)
            /\ Mul(U64(b), U64(r)) = Float(0, 1)
        BY <1>6, <4>1 DEF Mul, U64, Fraction
      <4> QED
        BY <4>2, <4>3
    <3> QED
      BY <1>1, <1>6, <3>1, <3>2
  <2>4. Documented.num = 0 /\ Documented \in Amounts
    <3>1. \/ Documented = Zero
          \/ Documented = U64(c) /\ ~Less(Zero, U64(c))
      BY <1>6 DEF Documented
    <3>2. Zero \in Amounts
      BY WidthsAssumption DEF Zero, Amounts, Finite, Floats, Fraction
    <3>3. ~Less(Zero, U64(c)) => c = 0
      BY <1>1 DEF Less, Zero, U64, Fraction
    <3> QED
      BY <1>1, <3>1, <3>2, <3>3, U64Amount DEF Zero, U64, Fraction
  <2>5. B.num = 0 /\ B \in Amounts
    <3>1. B = x /\ x.num = 0
      BY <2>1, <2>2, <2>3 DEF Fraction
    <3>2. FMin(x, U64(c)) \in Amounts
      BY <1>1, <1>5, <1>6, CappedAmount
    <3> QED
      BY <2>2, <3>1, <3>2
  <2>6. ASSUME NEW y \in Amounts, NEW z \in Amounts, y.num = 0, z.num = 0
        PROVE  Le(y, z)
    <3>1. y.den \in Nat /\ z.den \in Nat
      BY FiniteParts DEF Amounts
    <3> QED
      BY <2>6, <3>1 DEF Le
  <2> QED
    BY <2>4, <2>5, <2>6
<1>7. ASSUME policy.kind # "constant", b # 0
      PROVE  /\ Documented = (IF Less(x, U64(c)) THEN x ELSE U64(c))
             /\ Documented \in Amounts
  <2>1. Documented = IF Less(x, U64(c)) THEN x ELSE U64(c)
    BY <1>7 DEF Documented
  <2>2. x \in Floats /\ 0 <= x.num
    BY <1>5, <1>7
  <2> HIDE DEF x
  <2> QED
    BY <1>1, <2>1, <2>2, CapsAgree
<1>8. CASE policy.kind = "exponential" /\ b # 0
  <2>1. B = FMin(x, U64(c))
    BY <1>8, ExponentialBaseIs DEF Growth
  <2>2. x \in Floats /\ 0 <= x.num
    BY <1>5, <1>8
  <2>3. Documented = (IF Less(x, U64(c)) THEN x ELSE U64(c))
    BY <1>7, <1>8
  <2> HIDE DEF x, B
  <2> QED
    BY <1>1, <2>1, <2>2, <2>3, CapsAgree, CappedAmount DEF B
<1>9. CASE policy.kind = "fibonacci" /\ b # 0
  <2> DEFINE r == RubyFibonacci(attempt)  n == Fibonacci(attempt)
             y == Mul(U64(b), U64(n))
  <2>1. r \in Nat /\ n = Saturated(r) /\ n \in Nat
    BY <1>3, FibonacciSaturates, FibonacciTyped, RubyFibonacciTyped
  <2>2. x = Mul(U64(b), U64(r)) /\ B = FMin(y, U64(c))
    BY <1>9 DEF Growth, Base, FibonacciBase
  <2>3. Documented = (IF Less(x, U64(c)) THEN x ELSE U64(c))
    BY <1>7, <1>9
  <2>4. x \in Floats /\ 0 <= x.num
    BY <1>5, <1>9
  <2>5. y \in Floats /\ 0 <= y.num
    BY <1>1, <2>1, U64Typed, MulNatural DEF U64, Fraction
  <2>6. CASE r <= U64Max
    <3>1. n = r
      BY <2>1, <2>6, WidthsAssumption DEF Saturated
    <3>2. B = FMin(x, U64(c))
      BY <2>2, <3>1
    <3> HIDE DEF x, B, y, n, r
    <3> QED
      BY <1>1, <2>3, <2>4, <3>2, CapsAgree, CappedAmount DEF B
  <2>7. CASE U64Max <= r
    <3>1. U64Max <= n
      BY <2>1, <2>7, WidthsAssumption DEF Saturated
    <3> HIDE DEF r, n
    <3>2. ~Less(x, U64(c)) /\ Le(U64(c), FMin(y, U64(c)))
      BY <1>1, <1>9, <2>1, <2>2, <2>7, <3>1, BeyondEveryCap
    <3>3. Documented = U64(c)
      BY <2>3, <3>2
    <3> HIDE DEF y, B, x
    <3> QED
      BY <1>1, <2>2, <2>5, <3>2, <3>3, U64Amount, CappedAmount DEF B
  <2> QED
    BY <2>1, <2>6, <2>7, WidthsAssumption
<1> QED
  BY <1>1, <1>4, <1>6, <1>8, <1>9

LEMMA AtMostIsLe ==
    ASSUME NEW x \in Finite, NEW y \in Finite
    PROVE  AtMost(x, y) <=> Le(x, y)
<1>1. /\ x.num \in Nat /\ x.den \in Nat \ {0}
      /\ y.num \in Nat /\ y.den \in Nat \ {0}
  BY FiniteParts
<1>2. x.num * y.den \in Nat /\ y.num * x.den \in Nat
  BY <1>1
<1>3. x.den # 0 /\ y.den # 0
  BY <1>1
<1> QED
  BY <1>2, <1>3 DEF AtMost, Less, Le

\* The answer of a strategy, for any amount before jitter.
LEMMA AnswerInWindow ==
    ASSUME NEW B \in Amounts, NEW D \in Amounts, Le(B, D), Le(D, B),
           NEW j \in Floats, ~IsNaN(j), NEW r \in Scalars
    PROVE  LET delay == ApplyJitter(B, j, r)
           IN  /\ AtMost(U64(delay), D)
               /\ AtMost(Mul(D, Minus(One, Clamp(j))), U64(delay + 1))
<1> DEFINE u == Blend(Clamp(j), r)  v == Minus(One, Clamp(j))
           x == Mul(B, u)  delay == AsU64(x)
<1>1. u \in Units /\ v \in Units /\ Le(v, u)
  BY ClampIsUnit, BlendBounds
<1>2. ApplyJitter(B, j, r) = delay
  BY DEF ApplyJitter
<1> HIDE DEF u, v
<1>3. x \in Amounts /\ Le(x, B)
  BY <1>1, Scale, UnitMultiple
<1>4. Mul(D, v) \in Amounts /\ Le(Mul(D, v), x)
  BY <1>1, Scale, ScaleMonotone
<1> HIDE DEF x
<1>5. /\ delay \in Nat /\ delay * x.den <= x.num
      /\ x.num < (delay + 1) * x.den
  BY <1>3, CastRoundsDown, WidthsAssumption
<1> HIDE DEF delay
<1>6. /\ U64(delay) \in Finite /\ U64(delay + 1) \in Finite
      /\ x \in Finite /\ B \in Finite /\ D \in Finite /\ Mul(D, v) \in Finite
  BY <1>3, <1>4, <1>5 DEF Amounts, Finite, Floats, U64, Fraction
<1>7. Le(U64(delay), x) /\ Le(x, U64(delay + 1))
  <2>1. x.num \in Nat /\ (delay + 1) * x.den \in Nat
    BY <1>5, <1>6, FiniteParts
  <2> QED
    BY <1>5, <2>1 DEF Le, U64, Fraction
<1>8. Le(U64(delay), D)
  BY <1>3, <1>6, <1>7, LeTransitive
<1>9. Le(Mul(D, v), U64(delay + 1))
  BY <1>4, <1>6, <1>7, LeTransitive
<1> QED
  BY <1>2, <1>6, <1>8, <1>9, AtMostIsLe DEF v

\* Without jitter, no delay before jitter is below the one before it.
LEMMA BaseGrows ==
    ASSUME NEW p \in PolicyType, NEW a \in 1..254, AtMost(One, p.multiplier)
    PROVE  /\ Base(p, a) \in Amounts /\ Base(p, a + 1) \in Amounts
           /\ Le(Base(p, a), Base(p, a + 1))
<1>1. /\ p.kind \in {"exponential", "constant", "fibonacci"}
      /\ p.base \in 0..U64Max /\ p.base \in Nat /\ p.cap \in 0..U64Max
      /\ p.multiplier \in Floats
  BY WidthsAssumption DEF PolicyType
<1>2. /\ a \in Nat \ {0} /\ a + 1 \in 1..255 /\ a \in 1..255 /\ a - 1 \in Nat
      /\ (a - 1) + 1 = a /\ (a + 1) - 1 = a
  OBVIOUS
<1>3. CASE p.kind = "exponential"
  <2>1. p.multiplier.den <= p.multiplier.num
    BY <1>1 DEF AtMost, Less, One, Fraction, Floats
  <2> DEFINE G == Power(p.multiplier, a - 1)  H == Power(p.multiplier, a)
  <2>2. /\ G \in Floats /\ 0 <= G.num /\ H \in Floats /\ 0 <= H.num
        /\ H.den # 0 => G.den # 0 /\ Le(G, H)
    BY <1>1, <1>2, <2>1, PowerGrows
  <2>3. /\ Base(p, a) = FMin(Mul(U64(p.base), G), U64(p.cap))
        /\ Base(p, a + 1) = FMin(Mul(U64(p.base), H), U64(p.cap))
    BY <1>2, <1>3, ExponentialBaseIs
  <2> HIDE DEF G, H
  <2> QED
    BY <1>1, <2>2, <2>3, CappedGrows
<1>4. CASE p.kind = "fibonacci"
  <2> DEFINE G == U64(Fibonacci(a))  H == U64(Fibonacci(a + 1))
  <2>1. Fibonacci(a) \in Nat /\ Fibonacci(a + 1) \in Nat
    BY <1>2, FibonacciTyped
  <2>2. Fibonacci(a) <= Fibonacci(a + 1)
    <3>1. RubyFibonacci(a) \in Nat /\ RubyFibonacci(a + 1) \in Nat
      BY <1>2, RubyFibonacciTyped
    <3>2. RubyFibonacci(a) <= RubyFibonacci(a + 1)
      BY <1>2, FibonacciGrows
    <3>3. /\ Fibonacci(a) = Saturated(RubyFibonacci(a))
          /\ Fibonacci(a + 1) = Saturated(RubyFibonacci(a + 1))
      BY <1>2, FibonacciSaturates
    <3> QED
      BY <3>1, <3>2, <3>3, WidthsAssumption DEF Saturated
  <2>3. G \in Floats /\ 0 <= G.num /\ H \in Floats /\ 0 <= H.num
        /\ G.den # 0 /\ Le(G, H)
    BY <2>1, <2>2, U64Typed DEF Le, U64, Fraction
  <2>4. /\ Base(p, a) = FMin(Mul(U64(p.base), G), U64(p.cap))
        /\ Base(p, a + 1) = FMin(Mul(U64(p.base), H), U64(p.cap))
    BY <1>4 DEF Base, FibonacciBase
  <2> HIDE DEF G, H
  <2> QED
    BY <1>1, <2>3, <2>4, CappedGrows
<1>5. CASE p.kind = "constant"
  BY <1>1, <1>5, U64Amount, LeReflexive DEF Base, Amounts
<1> QED
  BY <1>1, <1>3, <1>4, <1>5

\* A jitter factor of zero, clamped, leaves the delay before jitter, rounded.
LEMMA NoJitter ==
    ASSUME NEW x \in Amounts, NEW y \in Amounts, Le(x, y),
           NEW j \in Floats, Same(Clamp(j), Zero),
           NEW r \in Scalars, NEW s \in Scalars
    PROVE  ApplyJitter(x, j, r) <= ApplyJitter(y, j, s)
<1>1. x \in Floats /\ y \in Floats
  BY DEF Amounts, Finite
<1>2. ApplyJitter(y, j, s) \in 0..U64Max
  BY <1>1, ApplyJitterTyped
<1>3. CASE IsNaN(j)
  <2>1. r \in Floats /\ Blend(Clamp(j), r) = NaN
    BY <1>3, NaNBlend, BackoffAssumption DEF Clamp
  <2>2. x.num * 0 = 0 /\ x.den * 0 = 0
    BY <1>1 DEF Floats
  <2>3. ApplyJitter(x, j, r) = 0
    BY <2>1, <2>2, BackoffAssumption DEF ApplyJitter, AsU64, Mul, Float, Sign,
                                         NaN, Fraction
  <2> QED
    BY <1>2, <2>3, WidthsAssumption
<1>4. CASE ~IsNaN(j)
  <2> DEFINE k == Clamp(j)  u == Blend(k, r)  v == Blend(k, s)
  <2>1. k \in Floats /\ InUnit(k)
    BY <1>4, ClampIsUnit
  <2>2. k.num = 0 /\ k.den \in Nat \ {0}
    BY <2>1 DEF Same, AtMost, Less, Zero, Fraction, InUnit, Floats
  <2>3. /\ r \in Floats /\ InUnit(r) /\ s \in Floats /\ InUnit(s)
        /\ r.num \in Int /\ r.den \in Nat /\ s.num \in Int /\ s.den \in Nat
    BY BackoffAssumption DEF InUnit, Floats
  <2> HIDE DEF k
  <2>4. u \in Units /\ v \in Units
    BY <2>1, BlendBounds
  <2>5. ASSUME NEW t \in Floats, InUnit(t)
        PROVE  Blend(k, t).num = Blend(k, t).den
    <3>1. t.num \in Int /\ t.den \in Nat
      BY DEF Floats
    <3>2. BlendNum(k, t) = BlendDen(k, t)
      BY <2>2, <3>1 DEF BlendNum, BlendDen
    <3> QED
      BY <2>1, <2>5, <3>2, BlendIs DEF Fraction
  <2>6. u.num = u.den /\ v.num = v.den
    BY <2>3, <2>5
  <2> HIDE DEF u, v
  <2>7. Le(u, v)
    <3>1. u.den * v.den \in Nat /\ u.den * v.den = v.den * u.den
      BY <2>4, FiniteParts DEF Units
    <3> QED
      BY <2>6, <3>1 DEF Le
  <2>8. AsU64(Mul(x, u)) <= AsU64(Mul(y, v))
    BY <2>4, <2>7, Scale, ScaleMonotone, CastMonotone
  <2> QED
    BY <2>8 DEF ApplyJitter, k, u, v
<1> QED
  BY <1>3, <1>4

\* What the strategy answered last is its answer for this attempt and scalar.
Answered ==
    IF attempt = 0 THEN strategy = {}
    ELSE scalar \in Scalars /\ strategy = Delay(policy, attempt, scalar)

LEMMA AnsweredAlways == Spec => []Answered
<1>1. Init => Answered
  BY DEF Init, Answered
<1>2. TypeOK /\ Answered /\ [Next]_vars => Answered'
  <2> SUFFICES ASSUME TypeOK, Answered, [Next]_vars PROVE Answered'
    OBVIOUS
  <2>1. ASSUME NEW r \in Scalars, Ask(r) PROVE Answered'
    <3>1. attempt' # 0
      BY <2>1, ScheduleAssumption DEF TypeOK, Ask
    <3> QED
      BY <2>1, <3>1 DEF Ask, Answered
  <2>2. CASE UNCHANGED vars
    BY <2>2 DEF vars, answers, Answered
  <2> QED
    BY <2>1, <2>2 DEF Next, Done
<1> QED
  BY <1>1, <1>2, TypeCorrect, PTL DEF Spec

LEMMA AnsweredMeans ==
    ASSUME TypeOK, Answered, strategy # {}
    PROVE  /\ policy \in PolicyType /\ attempt \in 1..254 /\ scalar \in Scalars
           /\ strategy
                = {ApplyJitter(Base(policy, attempt), policy.jitter, scalar)}
<1>1. policy \in PolicyType /\ attempt \in Nat
  BY ScheduleAssumption DEF TypeOK
<1>2. policy.max_attempts \in 0..255
  BY <1>1, WidthsAssumption DEF PolicyType
<1>3. attempt # 0 /\ scalar \in Scalars
      /\ strategy = Delay(policy, attempt, scalar)
  BY DEF Answered
<1>4. attempt < policy.max_attempts
  BY <1>1, <1>2, <1>3 DEF Delay
<1> QED
  BY <1>1, <1>2, <1>3, <1>4 DEF Delay

\* A delay lies between the documented one less the part given to jitter and
\* the documented one, for every policy whose multiplier is not negative and
\* whose jitter factor is a number: infinite powers (unless the base is 0) and
\* saturated Fibonacci numbers included.
THEOREM AlwaysInWindow == Spec => []DelayInWindow
<1>1. ASSUME TypeOK, Answered PROVE DelayInWindow
  <2> SUFFICES ASSUME ~Overflows, ~IsNaN(policy.jitter),
                      AtMost(Zero, policy.multiplier),
                      NEW delay \in strategy
               PROVE  /\ AtMost(U64(delay), Documented)
                      /\ AtMost(Mul(Documented,
                                    Minus(One, Clamp(policy.jitter))),
                                U64(delay + 1))
    BY DEF DelayInWindow
  <2>1. /\ policy \in PolicyType /\ attempt \in 1..255 /\ scalar \in Scalars
        /\ delay = ApplyJitter(Base(policy, attempt), policy.jitter, scalar)
    BY <1>1, AnsweredMeans
  <2>2. policy.jitter \in Floats
    BY <2>1 DEF PolicyType
  <2> QED
    BY <2>1, <2>2, BaseIsDocumented, AnswerInWindow
<1> QED
  BY <1>1, TypeCorrect, AnsweredAlways, PTL

\* Without jitter, and with a multiplier of at least one, no strategy ever
\* answers with a shorter delay than before, for every policy.
THEOREM DelaysAlwaysGrow == Spec => DelaysGrow
<1>1. ASSUME TypeOK, Answered, TypeOK', Answered', [Next]_vars,
             Same(Clamp(policy.jitter), Zero), AtMost(One, policy.multiplier),
             NEW r \in Scalars, Ask(r), NEW d \in strategy, NEW e \in strategy'
      PROVE  d <= e
  <2>1. /\ policy \in PolicyType /\ attempt \in 1..254 /\ scalar \in Scalars
        /\ d = ApplyJitter(Base(policy, attempt), policy.jitter, scalar)
    BY <1>1, AnsweredMeans
  <2>2. e = ApplyJitter(Base(policy, attempt + 1), policy.jitter, r)
    BY <1>1 DEF Ask, Delay
  <2>3. policy.jitter \in Floats
    BY <2>1 DEF PolicyType
  <2> QED
    BY <1>1, <2>1, <2>2, <2>3, BaseGrows, NoJitter
<1>2. TypeOK /\ Answered /\ TypeOK' /\ Answered' /\ [Next]_vars =>
          [Same(Clamp(policy.jitter), Zero) /\ AtMost(One, policy.multiplier) =>
               \A d \in strategy, e \in strategy' : d <= e]_vars
  BY <1>1 DEF Next, Done
<1> QED
  BY <1>2, TypeCorrect, AnsweredAlways, PTL DEF Spec, DelaysGrow

-----------------------------------------------------------------------------
\* The powers the tests use, and the first Fibonacci numbers.
LEMMA FirstPowers ==
    ASSUME U64Max >= 21
    PROVE  /\ \A e \in 0..255 : Powi(One, e) = U64(1)
           /\ Powi(Two, 0) = U64(1) /\ Powi(Two, 1) = U64(2)
<1>1. One = U64(1) /\ Two = U64(2) /\ One \in Floats /\ Two \in Floats
  BY DEF One, Two, U64, Fraction, Floats
<1>2. Mul(U64(1), U64(1)) = U64(1) /\ Mul(U64(1), U64(2)) = U64(2)
  BY WidthsAssumption, MulWhole
<1>3. \A e \in Nat : Power(One, e) = U64(1)
  <2> DEFINE Bad == {e \in Nat : Power(One, e) # U64(1)}
  <2> SUFFICES ASSUME Bad # {} PROVE FALSE
    OBVIOUS
  <2>1. PICK e \in Bad : \A l \in Bad : e <= l
    <3>1. Bad \in SUBSET Nat
      OBVIOUS
    <3> HIDE DEF Bad
    <3> QED
      BY <3>1, Least
  <2>2. e # 0
    BY <1>1, PowerUnfolds
  <2>3. e - 1 \in Nat /\ e - 1 \notin Bad /\ (e - 1) + 1 = e
    BY <2>1, <2>2
  <2>4. Power(One, (e - 1) + 1) = Mul(Power(One, e - 1), One)
    BY <2>3, PowerUnfolds
  <2>5. Power(One, e - 1) = U64(1)
    BY <2>3
  <2> QED
    BY <1>1, <1>2, <2>3, <2>4, <2>5
<1>4. Power(Two, 0) = U64(1) /\ Power(Two, 0 + 1) = U64(2)
  BY <1>1, <1>2, PowerUnfolds
<1>5. \A e \in 0..255 : e \in Nat /\ Powi(One, e) = Power(One, e)
  BY <1>1, PowiIsPower
<1>6. Powi(Two, 0) = Power(Two, 0) /\ Powi(Two, 1) = Power(Two, 1)
  BY <1>1, PowiIsPower
<1> QED
  BY <1>3, <1>4, <1>5, <1>6

LEMMA FirstFibonacciNumbers ==
    ASSUME U64Max >= 21
    PROVE  /\ Fibonacci(0) = 0 /\ Fibonacci(1) = 1 /\ Fibonacci(2) = 1
           /\ Fibonacci(3) = 2 /\ Fibonacci(4) = 3 /\ Fibonacci(5) = 5
           /\ Fibonacci(6) = 8 /\ Fibonacci(7) = 13 /\ Fibonacci(8) = 21
<1> DEFINE t(m) == CHOOSE f : IsRubyTable(f, m)
           g == t(8)
<1>1. ASSUME NEW m \in Nat
      PROVE  IsRubyTable(t(m), m) /\ RubyFibonacci(m) = t(m)[m]
  <2>1. RubyFibonacci(m) = t(m)[m]
    BY DEF RubyFibonacci, IsRubyTable, RubyBody
  <2> QED
    BY <2>1, RubyTableExists
<1> HIDE DEF t
<1>2. IsRubyTable(g, 8)
  BY <1>1
<1> HIDE DEF g
<1>3. ASSUME NEW n \in 0..8 PROVE Fibonacci(n) = Saturated(g[n])
  BY <1>1, <1>2, RubyTablesAgree, FibonacciSaturates
<1>4. \A k \in 0..8 : g[k] = RubyBody(g, k)
  BY <1>2 DEF IsRubyTable
<1>5. g[0] = 0 /\ g[1] = 1 /\ g[2] = 1
  BY <1>4 DEF RubyBody
<1>6. g[3] = 2 /\ g[4] = 3 /\ g[5] = 5
  <2>1. g[3] = g[1] + g[2] /\ g[4] = g[2] + g[3] /\ g[5] = g[3] + g[4]
    BY <1>4 DEF RubyBody
  <2> QED
    BY <1>5, <2>1
<1>7. g[6] = 8 /\ g[7] = 13 /\ g[8] = 21
  <2>1. g[6] = g[4] + g[5] /\ g[7] = g[5] + g[6] /\ g[8] = g[6] + g[7]
    BY <1>4 DEF RubyBody
  <2> QED
    BY <1>6, <2>1
<1>8. \A n \in 0..21 : Saturated(n) = n
  BY WidthsAssumption DEF Saturated
<1> QED
  BY <1>3, <1>5, <1>6, <1>7, <1>8

-----------------------------------------------------------------------------
\* The factors the tests give, and what the clamps make of them.

LEMMA FactorsKept ==
    ASSUME NEW j \in {Zero, One, HalfJitter, Tenth}
    PROVE  /\ j \in Floats /\ InUnit(j) /\ Clamp(j) = j /\ NormalizeJitter(j) = j
BY DEF Zero, One, HalfJitter, Tenth, Fraction, Floats, InUnit, Clamp, IsNaN,
       Less, NormalizeJitter

LEMMA FactorsClamped ==
    /\ \A x \in {Fraction(-1, 2), Fraction(-999, 1)} : NormalizeJitter(x) = Zero
    /\ \A x \in {Two, Fraction(999, 1)} : NormalizeJitter(x) = One
BY DEF Zero, One, Two, Fraction, Clamp, IsNaN, Less, NormalizeJitter

\* A strategy without jitter answers with its delay.
LEMMA AnswersAlways ==
    ASSUME NEW p, NEW a \in Nat, NEW n \in 0..U64Max, p.max_attempts \in Nat,
           a < p.max_attempts, p.jitter = Zero, Base(p, a) = U64(n)
    PROVE  Always(p, a, {n})
<1>1. InUnit(Zero) /\ Zero \in Floats /\ Clamp(Zero) = Zero /\ Zero.num = 0
  BY FactorsKept DEF Zero, Fraction
<1>2. \A r \in Scalars : ApplyJitter(Base(p, a), p.jitter, r) = n
  BY <1>1, JitterWhole DEF ApplyJitter
<1> QED
  BY <1>2 DEF Always, Delay

\* calculate_delay of a whole number of milliseconds.
LEMMA CalculatedWithin ==
    ASSUME NEW n \in 0..U64Max, NEW p, NEW a \in Nat,
           FMin(Mul(U64(p.base), Powi(p.multiplier, PolicyExponent(a))),
                U64(p.cap)) = U64(n),
           NEW j, NEW k \in {Zero, One, Tenth}, NormalizeJitter(j) = k
    PROVE  Within(p, a, j, 0, n) /\ (k = Zero => Within(p, a, j, n, n))
<1>1. k \in Floats /\ InUnit(k) /\ n \in Nat
  BY FactorsKept, WidthsAssumption
<1>2. k = Zero => k.num = 0
  BY DEF Zero, Fraction
<1>3. \A r \in Scalars :
          /\ CalculateDelay(p, a, j, r) = AsU64(Mul(U64(n), Blend(k, r)))
          /\ CalculateDelay(p, a, j, r) \in 0..n
          /\ k = Zero => CalculateDelay(p, a, j, r) = n
  BY <1>1, <1>2, JitterWhole DEF CalculateDelay
<1> QED
  BY <1>1, <1>3 DEF Within

LEMMA CalculatedBelowCap ==
    ASSUME NEW p, NEW a \in 1..255, NEW cap \in 0..U64Max, p.cap = cap,
           p.base \in Nat, p.multiplier \in Floats,
           NEW j \in {Zero, One, Tenth}
    PROVE  Within(p, a, j, 0, cap)
<1> DEFINE x == Mul(U64(p.base), Powi(p.multiplier, PolicyExponent(a)))
<1>1. PolicyExponent(a) \in 0..255 /\ PolicyExponent(a) \in Nat
  BY DEF PolicyExponent, SaturatingSub
<1>2. x \in Floats
  BY <1>1, U64Typed, PowiTyped, MulTyped
<1> HIDE DEF x
<1>3. /\ FMin(x, U64(cap)) \in Floats
      /\ FMin(x, U64(cap)).num <= 0
            \/ FMin(x, U64(cap)).num <= cap * FMin(x, U64(cap)).den
  BY <1>2, CapBounds
<1>4. j \in Floats /\ InUnit(j) /\ NormalizeJitter(j) = j
  BY FactorsKept
<1>5. ASSUME NEW r \in Scalars PROVE CalculateDelay(p, a, j, r) \in 0..cap
  <2>1. r \in Floats /\ InUnit(r)
    BY BackoffAssumption DEF InUnit
  <2> DEFINE u == Blend(j, r)
  <2>2. u \in Floats /\ InUnit(u)
    BY <1>4, <2>1, BlendTyped, BlendInUnit
  <2>3. CalculateDelay(p, a, j, r) = AsU64(Mul(FMin(x, U64(cap)), u))
    BY <1>4 DEF CalculateDelay, x
  <2> HIDE DEF u
  <2>4. AsU64(Mul(FMin(x, U64(cap)), u)) \in 0..U64Max
    BY <1>3, <2>2, MulTyped, AsU64Typed
  <2>5. AsU64(Mul(FMin(x, U64(cap)), u)) <= cap
    BY <1>3, <2>2, ScaledBound
  <2> QED
    BY <2>3, <2>4, <2>5, WidthsAssumption
<1> QED
  BY <1>5 DEF Within

\* The native functions answer with a float.
LEMMA NativeWhole ==
    ASSUME NEW n \in 0..U64Max, NEW p, NEW a, NativeBase(p, a) = U64(n),
           p.jitter \in {Zero, HalfJitter, Tenth},
           NEW low \in Nat, low * p.jitter.den <= n * (p.jitter.den - p.jitter.num)
    PROVE  NativeBetween(p, a, U64(low), U64(n))
<1> DEFINE j == p.jitter
<1>1. /\ j \in Floats /\ InUnit(j) /\ NormalizeJitter(j) = j /\ n \in Nat
      /\ j.num \in Nat /\ j.den \in Nat \ {0} /\ j.num <= j.den
  BY FactorsKept, WidthsAssumption DEF InUnit, Floats
<1>2. low * j.den <= n * (j.den - j.num)
  OBVIOUS
<1> HIDE DEF j
<1>3. ASSUME NEW r \in Scalars
      PROVE  LET d == NativeDelay(p, a, r)
             IN  ~Less(d, U64(low)) /\ ~Less(U64(n), d)
  <2> DEFINE u == Blend(j, r)  v == Minus(One, j)  d == Mul(U64(n), u)
             y == Mul(U64(n), v)
  <2>1. NativeDelay(p, a, r) = d
    BY <1>1 DEF NativeDelay, j
  <2>2. r \in Floats /\ InUnit(r)
    BY BackoffAssumption DEF InUnit
  <2>3. u \in Units /\ v \in Units /\ Le(v, u) /\ v = Fraction(j.den - j.num, j.den)
    BY <1>1, <2>2, BlendBounds, BlendIs
  <2>4. U64(n) \in Amounts
    BY U64Amount
  <2> HIDE DEF u, v
  <2>5. d \in Amounts /\ y \in Amounts /\ Le(y, d) /\ Le(d, U64(n))
        /\ y = Fraction(U64(n).num * v.num, U64(n).den * v.den)
    <3>1. Le(U64(n), U64(n))
      BY <2>4, LeReflexive DEF Amounts
    <3> QED
      BY <2>3, <2>4, <3>1, Scale, ScaleMonotone, UnitMultiple
  <2>6. y = Fraction(n * (j.den - j.num), j.den)
    BY <1>1, <2>3, <2>5 DEF U64, Fraction
  <2>7. U64(low) \in Finite /\ Le(U64(low), y)
    BY <1>1, <1>2, <2>6 DEF Le, U64, Fraction, Finite, Floats
  <2> HIDE DEF d, y
  <2>8. Le(U64(low), d) /\ d \in Finite /\ U64(n) \in Finite
    BY <2>4, <2>5, <2>7, LeTransitive DEF Amounts
  <2>9. ASSUME NEW x1 \in Finite, NEW y1 \in Finite, Le(x1, y1)
        PROVE  ~Less(y1, x1)
    <3>1. /\ x1.num \in Nat /\ x1.den \in Nat \ {0}
          /\ y1.num \in Nat /\ y1.den \in Nat \ {0}
      BY FiniteParts
    <3>2. x1.num * y1.den \in Nat /\ y1.num * x1.den \in Nat
      BY <3>1
    <3> QED
      BY <2>9, <3>1, <3>2 DEF Less, Le
  <2> QED
    BY <2>1, <2>5, <2>7, <2>8, <2>9
<1> QED
  BY <1>3 DEF NativeBetween

-----------------------------------------------------------------------------
\* Every assertion of the delay tests holds with any generator that may draw
\* both ends of its range, and in any width that holds the tests' numbers.
THEOREM DelayTestsAlwaysHold ==
    ASSUME AttemptMax >= 8, U64Max >= 10000, {Zero, One} \subseteq Scalars
    PROVE  DelayTestsHold
<1>1. U64Max \in Nat /\ U64Max >= 10000
  BY WidthsAssumption
<1>2. /\ \A e \in 0..255 : Powi(One, e) = U64(1)
      /\ Powi(Two, 0) = U64(1) /\ Powi(Two, 1) = U64(2)
  BY <1>1, FirstPowers
<1>3. ASSUME NEW n \in Nat, NEW cap \in Nat, n <= cap
      PROVE  FMin(U64(n), U64(cap)) = U64(n)
  <2>1. ~(cap < n)
    BY <1>3
  <2> QED
    BY <2>1, MinWhole
\* The amount before jitter is the base itself, or a small multiple of 100.
<1>4. ASSUME NEW base \in Nat, NEW cap \in Nat, base <= cap, cap <= 10000
       PROVE  FMin(Mul(U64(base), U64(1)), U64(cap)) = U64(base)
  <2>1. base * 1 = base /\ base * 1 <= U64Max
    BY <1>1, <1>4
  <2>2. Mul(U64(base), U64(1)) = U64(base)
    BY <2>1, MulWhole
  <2>3. FMin(U64(base), U64(cap)) = U64(base)
    BY <1>3, <1>4
  <2> QED
    BY <2>2, <2>3
<1>5. ASSUME NEW n \in 0..3, NEW cap \in Nat, 300 <= cap
       PROVE  FMin(Mul(U64(100), U64(n)), U64(cap)) = U64(100 * n)
  <2>1. n \in Nat /\ 100 * n \in Nat /\ 100 * n <= cap /\ 100 * n <= U64Max
    BY <1>1, <1>5
  <2>2. FMin(U64(100 * n), U64(cap)) = U64(100 * n)
    BY <1>3, <2>1
  <2> QED
    BY <2>1, <2>2, MulWhole
<1>6. /\ FMin(Mul(U64(100), U64(1)), U64(10000)) = U64(100)
       /\ FMin(Mul(U64(1000), U64(1)), U64(10000)) = U64(1000)
       /\ FMin(Mul(U64(100), U64(1)), U64(1000)) = U64(100)
  BY <1>4
<1>7. /\ FMin(Mul(U64(100), U64(2)), U64(10000)) = U64(200)
       /\ FMin(Mul(U64(100), U64(2)), U64(1000)) = U64(200)
  <2>1. 100 * 2 = 200
    OBVIOUS
  <2> QED
    BY <1>5, <2>1
<1>8. test_exponential_backoff_builder
  <2>1. Clamp(HalfJitter) = HalfJitter
    BY FactorsKept
  <2> DEFINE R(max, base, x, cap) ==
                 [kind |-> "exponential", max_attempts |-> max, base |-> base,
                  multiplier |-> x, cap |-> cap, jitter |-> One]
             three == Fraction(3, 1)
  <2>2. BaseDelayMs(ExponentialDefault, 200) = R(3, 200, Two, 10000)
    BY DEF BaseDelayMs, ExponentialDefault
  <2> HIDE DEF three
  <2>3. Multiplier(R(3, 200, Two, 10000), three) = R(3, 200, three, 10000)
    BY DEF Multiplier
  <2>4. MaxDelayMs(R(3, 200, three, 10000), 5000) = R(3, 200, three, 5000)
    BY DEF MaxDelayMs
  <2>5. MaxAttempts(R(3, 200, three, 5000), 5) = R(5, 200, three, 5000)
    BY DEF MaxAttempts
  <2>6. JitterFactor(R(5, 200, three, 5000), HalfJitter)
          = [kind |-> "exponential", max_attempts |-> 5, base |-> 200,
             multiplier |-> three, cap |-> 5000, jitter |-> HalfJitter]
    BY <2>1 DEF JitterFactor
  <2> HIDE DEF R
  <2> QED
    BY <2>2, <2>3, <2>4, <2>5, <2>6 DEF test_exponential_backoff_builder, three
<1>9. test_exponential_delays
  <2> DEFINE p == JitterFactor(Multiplier(BaseDelayMs(ExponentialDefault, 100),
                                          Two), Zero)
  <2>1. /\ p.kind = "exponential" /\ p.max_attempts = 3 /\ p.base = 100
        /\ p.multiplier = Two /\ p.cap = 10000 /\ p.jitter = Zero
    BY FactorsKept DEF JitterFactor, Multiplier, BaseDelayMs, ExponentialDefault
  <2> HIDE DEF p
  <2>2. Base(p, 1) = U64(100)
    <3>1. SaturatingSub(1, 1) = 0
      BY DEF SaturatingSub
    <3> QED
      BY <1>2, <1>6, <2>1, <3>1 DEF Base, ExponentialBase
  <2>3. Base(p, 2) = U64(200)
    <3>1. SaturatingSub(2, 1) = 1
      BY DEF SaturatingSub
    <3> QED
      BY <1>2, <1>7, <2>1, <3>1 DEF Base, ExponentialBase
  <2>4. Always(p, 1, {100}) /\ Always(p, 2, {200})
    <3>1. /\ 100 \in 0..U64Max /\ 200 \in 0..U64Max
          /\ p.max_attempts \in Nat /\ 1 < p.max_attempts /\ 2 < p.max_attempts
      BY <1>1, <2>1
    <3> QED
      BY <2>1, <2>2, <2>3, <3>1, AnswersAlways
  <2>5. Always(p, 3, {})
    BY <2>1 DEF Always, Delay
  <2> QED
    BY <2>4, <2>5 DEF test_exponential_delays, p
<1>10. test_constant_backoff
  <2> DEFINE p == JitterFactor(MaxAttempts(DelayMs(ConstantDefault, 500), 4),
                               Zero)
  <2>1. /\ p.kind = "constant" /\ p.max_attempts = 4 /\ p.base = 500
        /\ p.jitter = Zero
    BY FactorsKept DEF JitterFactor, MaxAttempts, DelayMs, ConstantDefault
  <2> HIDE DEF p
  <2>2. ASSUME NEW a \in 1..3 PROVE Always(p, a, {500})
    <3>1. Base(p, a) = U64(500)
      BY <2>1 DEF Base
    <3>2. /\ 500 \in 0..U64Max /\ a \in Nat
          /\ p.max_attempts \in Nat /\ a < p.max_attempts
      BY <1>1, <2>1
    <3> QED
      BY <2>1, <3>1, <3>2, AnswersAlways
  <2>3. Always(p, 4, {})
    BY <2>1 DEF Always, Delay
  <2> QED
    BY <2>2, <2>3 DEF test_constant_backoff, p
<1>11. test_fibonacci_sequence
  <2> DEFINE s == <<1, 1, 2, 3, 5, 8, 13, 21>>
  <2>1. /\ s[1] = 1 /\ s[2] = 1 /\ s[3] = 2 /\ s[4] = 3 /\ s[5] = 5
        /\ s[6] = 8 /\ s[7] = 13 /\ s[8] = 21
    OBVIOUS
  <2> HIDE DEF s
  <2>2. ASSUME NEW n \in 0..8
        PROVE  Fibonacci(n) = IF n = 0 THEN 0 ELSE s[n]
    <3>1. \/ n = 0 \/ n = 1 \/ n = 2 \/ n = 3 \/ n = 4 \/ n = 5 \/ n = 6
          \/ n = 7 \/ n = 8
      OBVIOUS
    <3>2. U64Max >= 21
      BY <1>1
    <3> QED
      BY <2>1, <3>1, <3>2, FirstFibonacciNumbers
  <2> QED
    BY <2>2 DEF test_fibonacci_sequence, s
<1>12. test_fibonacci_backoff
  <2> DEFINE p == JitterFactor(MaxAttempts(BaseDelayMs(FibonacciDefault, 100),
                                           5), Zero)
             s == <<100, 100, 200, 300>>
  <2>1. /\ p.kind = "fibonacci" /\ p.max_attempts = 5 /\ p.base = 100
        /\ p.cap = 10000 /\ p.jitter = Zero
    BY FactorsKept DEF JitterFactor, MaxAttempts, BaseDelayMs, FibonacciDefault
  <2>2. s[1] = 100 /\ s[2] = 100 /\ s[3] = 200 /\ s[4] = 300
    OBVIOUS
  <2> HIDE DEF p, s
  <2>3. ASSUME NEW a \in 1..4 PROVE Always(p, a, {s[a]})
    <3>1. a = 1 \/ a = 2 \/ a = 3 \/ a = 4
      OBVIOUS
    <3>2. U64Max >= 21
      BY <1>1
    <3>3. 100 * Fibonacci(a) = s[a] /\ Fibonacci(a) \in 0..100
          /\ Fibonacci(a) <= 3
      BY <2>2, <3>1, <3>2, FirstFibonacciNumbers
    <3>4. FMin(Mul(U64(100), U64(Fibonacci(a))), U64(10000)) = U64(s[a])
      BY <1>5, <3>3
    <3>5. Base(p, a) = U64(s[a])
      BY <2>1, <3>4 DEF Base, FibonacciBase
    <3>6. /\ s[a] \in 0..U64Max /\ a \in Nat
          /\ p.max_attempts \in Nat /\ a < p.max_attempts
      BY <1>1, <2>1, <2>2, <3>1
    <3> QED
      BY <2>1, <3>5, <3>6, AnswersAlways
  <2>4. Always(p, 5, {})
    BY <2>1 DEF Always, Delay
  <2> QED
    BY <2>3, <2>4 DEF test_fibonacci_backoff, p, s
<1>13. test_jitter_application
  <2> DEFINE p == JitterFactor(DelayMs(ConstantDefault, 1000), One)
             delays == UNION {Delay(p, a, r) : a \in 1..9, r \in Scalars}
  <2>1. /\ p.kind = "constant" /\ p.max_attempts = 3 /\ p.base = 1000
        /\ p.jitter = One
    BY FactorsKept DEF JitterFactor, DelayMs, ConstantDefault
  <2>2. One \in Floats /\ InUnit(One) /\ Clamp(One) = One
    BY FactorsKept
  <2> HIDE DEF p
  <2>3. ASSUME NEW a \in 1..9, NEW r \in Scalars
        PROVE  /\ Delay(p, a, r) \subseteq 0..1000
               /\ a = 1 => Delay(p, a, r)
                             = {AsU64(Mul(U64(1000), Blend(One, r)))}
    <3>1. ApplyJitter(Base(p, a), p.jitter, r)
             = AsU64(Mul(U64(1000), Blend(One, r)))
      BY <2>1, <2>2 DEF ApplyJitter, Base
    <3>2. AsU64(Mul(U64(1000), Blend(One, r))) \in 0..1000
      <4>1. 1000 \in 0..U64Max
        BY <1>1
      <4> QED
        BY <2>2, <4>1, JitterWhole
    <3> QED
      BY <2>1, <3>1, <3>2 DEF Delay
  <2>4. Blend(One, Zero) = Fraction(0, 1) /\ Blend(One, One) = Fraction(1, 1)
    <3>1. Zero \in Floats /\ InUnit(Zero)
      BY FactorsKept
    <3>2. /\ BlendNum(One, Zero) = 0 /\ BlendDen(One, Zero) = 1
          /\ BlendNum(One, One) = 1 /\ BlendDen(One, One) = 1
      BY DEF BlendNum, BlendDen, One, Zero, Fraction
    <3> QED
      BY <2>2, <3>1, <3>2, BlendIs
  <2>5. /\ AsU64(Mul(U64(1000), U64(0))) = 0
        /\ AsU64(Mul(U64(1000), U64(1))) = 1000
    <3>1. Mul(U64(1000), U64(0)) = U64(0)
      BY <1>1, MulWhole
    <3>2. Mul(U64(1000), U64(1)) = U64(1000)
      BY <1>1, MulWhole
    <3> QED
      BY <1>1, <3>1, <3>2 DEF AsU64, U64, Fraction
  <2>6. Delay(p, 1, Zero) = {0} /\ Delay(p, 1, One) = {1000}
    BY <2>3, <2>4, <2>5 DEF U64
  <2>7. 0 \in delays /\ 1000 \in delays
    BY <2>6
  <2>8. \A d \in delays : d <= 1000
    <3> SUFFICES ASSUME NEW a \in 1..9, NEW r \in Scalars,
                        NEW d \in Delay(p, a, r)
                 PROVE  d <= 1000
      OBVIOUS
    <3> QED
      BY <2>3
  <2>9. test_jitter_application
           <=> (\E d, e \in delays : d # e) /\ \A d \in delays : d <= 1000
    BY DEF test_jitter_application, p
  <2> HIDE DEF delays
  <2> QED
    BY <2>7, <2>8, <2>9
<1>14. test_policy_default
  BY DEF test_policy_default, PolicyNew
<1>15. \A max, base, multiplier, cap :
           LET p == Settings(max, base, multiplier, cap)
           IN  /\ p.base = base /\ p.multiplier = multiplier /\ p.cap = cap
               /\ p.max_attempts = max
  BY DEF Settings, PolicyNew
<1>16. PolicyExponent(1) = 0 /\ PolicyExponent(2) = 1
       /\ \A a \in 1..9 : PolicyExponent(a) \in 0..255
  BY DEF PolicyExponent, SaturatingSub
<1>17. test_calculate_delay_bounds
  <2> DEFINE p == Settings(5, 100, Two, 1000)
  <2>1. p.base = 100 /\ p.multiplier = Two /\ p.cap = 1000
    BY <1>15
  <2> HIDE DEF p
  <2>2. FMin(Mul(U64(p.base), Powi(p.multiplier, PolicyExponent(1))),
             U64(p.cap)) = U64(100)
    BY <1>2, <1>6, <1>16, <2>1
  <2>3. FMin(Mul(U64(p.base), Powi(p.multiplier, PolicyExponent(2))),
             U64(p.cap)) = U64(200)
    BY <1>2, <1>7, <1>16, <2>1
  <2>4. One # Zero /\ NormalizeJitter(One) = One /\ Two \in Floats
    BY FactorsKept DEF One, Zero, Two, Fraction, Floats
  <2>5. Within(p, 1, One, 0, 100) /\ Within(p, 2, One, 0, 200)
    <3>1. 100 \in 0..U64Max /\ 200 \in 0..U64Max /\ 1 \in Nat /\ 2 \in Nat
      BY <1>1
    <3> QED
      BY <2>2, <2>3, <2>4, <3>1, CalculatedWithin
  <2>6. Within(p, 5, One, 0, 1000)
    <3>1. /\ 1000 \in 0..U64Max /\ p.base \in Nat /\ 5 \in 1..255
          /\ p.multiplier \in Floats
      BY <1>1, <2>1, <2>4
    <3> QED
      BY <2>1, <3>1, CalculatedBelowCap
  <2> QED
    BY <2>5, <2>6 DEF test_calculate_delay_bounds, p
<1>18. test_should_retry
  <2>1. Settings(3, 100, Two, 10000).max_attempts = 3
    BY <1>15
  <2> QED
    BY <2>1 DEF test_should_retry, PolicyShouldRetry
<1>19. test_max_delay_cap
  <2> DEFINE p == Settings(10, 100, Two, 500)
  <2>1. p.base = 100 /\ p.multiplier = Two /\ p.cap = 500
    BY <1>15
  <2> HIDE DEF p
  <2>2. Two \in Floats
    BY DEF Two, Fraction, Floats
  <2>3. Within(p, 10, One, 0, 500)
    <3>1. /\ 500 \in 0..U64Max /\ p.base \in Nat /\ 10 \in 1..255
          /\ p.multiplier \in Floats
      BY <1>1, <2>1, <2>2
    <3> QED
      BY <2>1, <3>1, CalculatedBelowCap
  <2> QED
    BY <2>3 DEF test_max_delay_cap, p
<1>20. ASSUME NEW base \in {100, 1000}, NEW a \in 1..9,
              NEW j, NEW k \in {Zero, One, Tenth}, NormalizeJitter(j) = k
       PROVE  /\ Within(Settings(5, base, One, 10000), a, j, 0, base)
              /\ k = Zero => Within(Settings(5, base, One, 10000), a, j,
                                    base, base)
  <2> DEFINE p == Settings(5, base, One, 10000)
  <2>1. p.base = base /\ p.multiplier = One /\ p.cap = 10000
    BY <1>15
  <2> HIDE DEF p
  <2>2. FMin(Mul(U64(p.base), Powi(p.multiplier, PolicyExponent(a))),
             U64(p.cap)) = U64(base)
    <3>1. CASE base = 100
      BY <1>2, <1>6, <1>16, <2>1, <3>1
    <3>2. CASE base = 1000
      BY <1>2, <1>6, <1>16, <2>1, <3>2
    <3> QED
      BY <3>1, <3>2
  <2>3. Within(p, a, j, 0, base) /\ (k = Zero => Within(p, a, j, base, base))
    <3>1. base \in 0..U64Max /\ a \in Nat
      BY <1>1
    <3> QED
      BY <1>20, <2>2, <3>1, CalculatedWithin
  <2> QED
    BY <2>3 DEF p
<1>21. /\ NormalizeJitter(One) = One /\ NormalizeJitter(Zero) = Zero
       /\ NormalizeJitter(Tenth) = Tenth /\ One # Zero /\ Tenth # Zero
  BY FactorsKept DEF One, Zero, Tenth, Fraction
<1>22. test_zero_multiplier
  BY <1>20, <1>21 DEF test_zero_multiplier
<1>23. test_jitter_factor
  <2> DEFINE p == Settings(5, 1000, One, 10000)
  <2>1. Within(p, 1, Zero, 1000, 1000) /\ Within(p, 1, One, 0, 1000)
    BY <1>20, <1>21
  <2>2. Within(p, 1, Tenth, 900, 1000)
    <3>1. p.base = 1000 /\ p.multiplier = One /\ p.cap = 10000
      BY <1>15
    <3> HIDE DEF p
    <3>2. FMin(Mul(U64(p.base), Powi(p.multiplier, PolicyExponent(1))),
               U64(p.cap)) = U64(1000)
      BY <1>2, <1>6, <1>16, <3>1
    <3>3. /\ Tenth \in Floats /\ InUnit(Tenth)
          /\ Tenth.num = 1 /\ Tenth.den = 10
      BY FactorsKept DEF Tenth, Fraction
    <3>4. ASSUME NEW r \in Scalars
          PROVE  CalculateDelay(p, 1, Tenth, r) \in 900..1000
      <4> DEFINE d == AsU64(Mul(U64(1000), Blend(Tenth, r)))
      <4>1. d \in 0..1000 /\ 1000 * (10 - 1) < (d + 1) * 10
        <5>1. 1000 \in 0..U64Max
          BY <1>1
        <5> QED
          BY <3>3, <5>1, JitterWhole
      <4>2. CalculateDelay(p, 1, Tenth, r) = d
        BY <1>21, <3>2 DEF CalculateDelay
      <4> HIDE DEF d
      <4> QED
        BY <4>1, <4>2
    <3> QED
      BY <3>4 DEF Within
  <2> QED
    BY <2>1, <2>2 DEF test_jitter_factor
<1>24. test_jitter_factor_clamping
  BY <1>20, <1>21, FactorsClamped DEF test_jitter_factor_clamping

\* The tests of the native functions.
<1>25. ASSUME NEW x, NEW n \in 1..9
       PROVE  /\ NativeBase(Seconds("exponential", 4, 10, x), 1) = U64(4)
              /\ NativeBase(Seconds("constant", 10, 10, x), n) = U64(10)
              /\ NativeBase(Seconds("constant", 5, 10, x), n) = U64(5)
  <2>1. NativeAttempt(1) = 1
    BY WidthsAssumption DEF NativeAttempt
  <2>2. FMin(Mul(U64(4), U64(1)), U64(10)) = U64(4)
    BY <1>4
  <2>3. Powi(One, 1 - 1) = U64(1)
    BY <1>2
  <2>4. NativeBase(Seconds("exponential", 4, 10, x), 1) = U64(4)
    BY <2>1, <2>2, <2>3 DEF NativeBase, Seconds
  <2> QED
    BY <2>4 DEF NativeBase, Seconds
<1>26. test_exponential_delay
  <2> DEFINE p == Seconds("exponential", 4, 10, HalfJitter)
  <2>1. p.jitter = HalfJitter /\ HalfJitter.num = 1 /\ HalfJitter.den = 2
    BY DEF Seconds, HalfJitter, Fraction
  <2>2. NativeBase(p, 1) = U64(4)
    BY <1>25
  <2> HIDE DEF p
  <2>3. 4 \in 0..U64Max /\ 2 \in Nat /\ 2 * 2 <= 4 * (2 - 1)
    BY <1>1
  <2>4. NativeBetween(p, 1, U64(2), U64(4))
    BY <2>1, <2>2, <2>3, NativeWhole
  <2> QED
    BY <2>4 DEF test_exponential_delay, p, Two, U64
<1>27. test_constant_delay
  <2> DEFINE p == Seconds("constant", 10, 10, Tenth)
             q == Seconds("constant", 5, 10, Zero)
  <2>1. /\ p.jitter = Tenth /\ Tenth.num = 1 /\ Tenth.den = 10
        /\ q.jitter = Zero /\ Zero.num = 0 /\ Zero.den = 1
    BY DEF Seconds, Tenth, Zero, Fraction
  <2>2. NativeBase(p, 5) = U64(10) /\ NativeBase(q, 3) = U64(5)
    BY <1>25
  <2> HIDE DEF p, q
  <2>3. /\ 10 \in 0..U64Max /\ 9 \in Nat /\ 9 * 10 <= 10 * (10 - 1)
        /\ 5 \in 0..U64Max /\ 5 \in Nat /\ 5 * 1 <= 5 * (1 - 0)
    BY <1>1
  <2>4. NativeBetween(p, 5, U64(9), U64(10))
    BY <2>1, <2>2, <2>3, NativeWhole
  <2>5. NativeBetween(q, 3, U64(5), U64(5))
    BY <2>1, <2>2, <2>3, NativeWhole
  <2> QED
    BY <2>4, <2>5 DEF test_constant_delay, p, q, U64
<1>28. test_fibonacci_delay
  <2> DEFINE p == Seconds("fibonacci", 1, 100, Zero)
  <2>1. /\ p.kind = "fibonacci" /\ p.base = 1 /\ p.cap = 100
        /\ p.jitter = Zero /\ Zero.num = 0 /\ Zero.den = 1
    BY DEF Seconds, Zero, Fraction
  <2> HIDE DEF p
  <2>2. ASSUME NEW n \in {1, 5, 8}
        PROVE  NativeBetween(p, n, U64(Fibonacci(n)), U64(Fibonacci(n)))
    <3> DEFINE f == Fibonacci(n)
    <3>1. f \in 0..21
      BY <1>1, FirstFibonacciNumbers
    <3>2. NativeAttempt(n) = n
      BY WidthsAssumption DEF NativeAttempt
    <3> HIDE DEF f
    <3>3. f \in Nat /\ 1 * f = f /\ f <= U64Max /\ f <= 100
      BY <1>1, <3>1
    <3>4. Mul(U64(1), U64(f)) = U64(f) /\ FMin(U64(f), U64(100)) = U64(f)
      BY <1>3, <3>3, MulWhole
    <3>5. NativeBase(p, n) = U64(f)
      BY <2>1, <3>2, <3>4 DEF NativeBase, f
    <3>6. f \in 0..U64Max /\ f * 1 <= f * (1 - 0)
      BY <1>1, <3>3
    <3>7. NativeBetween(p, n, U64(f), U64(f))
      BY <2>1, <3>3, <3>5, <3>6, NativeWhole
    <3> QED
      BY <3>7 DEF f
  <2> QED
    BY <2>2 DEF test_fibonacci_delay, p
<1> QED
  BY <1>8, <1>9, <1>10, <1>11, <1>12, <1>13, <1>14, <1>17, <1>18, <1>19, <1>22,
     <1>23, <1>24, <1>26, <1>27, <1>28 DEF DelayTestsHold
=============================================================================
