---------------------------- MODULE BackoffProofs ----------------------------
(***************************************************************************)
(* Proofs about the operators of Backoff, for every width, every float and *)
(* every policy.                                                           *)
(***************************************************************************)
EXTENDS Backoff, WellFoundedInduction, TLAPS

-----------------------------------------------------------------------------
\* Floats are closed under the operations on them.

LEMMA FloatTyped ==
    ASSUME NEW n \in Int, NEW d \in Nat
    PROVE  Float(n, d) \in Floats
BY BackoffAssumption, WidthsAssumption DEF Float, Fraction, Sign, Floats

LEMMA MulTyped ==
    ASSUME NEW x \in Floats, NEW y \in Floats
    PROVE  Mul(x, y) \in Floats
<1>1. x.num * y.num \in Int /\ x.den * y.den \in Nat
  BY DEF Floats
<1> QED
  BY <1>1, FloatTyped DEF Mul

LEMMA SumTyped ==
    ASSUME NEW x \in Floats, NEW y \in Floats
    PROVE  Sum(x, y) \in Floats
<1>1. /\ x.num * y.den + y.num * x.den \in Int
      /\ x.den * y.den \in Nat
  BY DEF Floats
<1> QED
  BY <1>1, FloatTyped DEF Sum

LEMMA MinusTyped ==
    ASSUME NEW x \in Floats, NEW y \in Floats
    PROVE  Minus(x, y) \in Floats
<1>1. Fraction(-y.num, y.den) \in Floats
  BY DEF Fraction, Floats
<1> QED
  BY <1>1, SumTyped DEF Minus

LEMMA ConstantsTyped == Zero \in Floats /\ One \in Floats
BY DEF Zero, One, Fraction, Floats

LEMMA ClampTyped ==
    ASSUME NEW x \in Floats
    PROVE  Clamp(x) \in Floats
BY ConstantsTyped DEF Clamp

LEMMA U64Typed ==
    ASSUME NEW n \in Nat
    PROVE  U64(n) \in Floats
BY DEF U64, Fraction, Floats

LEMMA AsU64Typed ==
    ASSUME NEW x \in Floats
    PROVE  AsU64(x) \in 0..U64Max
<1>1. U64Max \in Nat
  BY BackoffAssumption, WidthsAssumption
<1>2. CASE x.num <= 0 \/ x.den = 0
  BY <1>1, <1>2 DEF AsU64
<1>3. CASE x.num > 0 /\ x.den > 0
  <2>1. x.num \div x.den \in Nat
    BY <1>3 DEF Floats
  <2> QED
    BY <1>1, <1>3, <2>1 DEF AsU64
<1> QED
  BY <1>2, <1>3 DEF Floats

-----------------------------------------------------------------------------
\* Powi answers a float.

LEMMA TurnTyped ==
    ASSUME NEW s \in [acc : Floats, factor : Floats, n : Nat]
    PROVE  PowiTurn(s) \in [acc : Floats, factor : Floats, n : Nat]
<1>1. /\ Mul(s.acc, s.factor) \in Floats
      /\ Mul(s.factor, s.factor) \in Floats
  BY MulTyped
<1>2. s.n \div 2 \in Nat
  OBVIOUS
<1> QED
  BY <1>1, <1>2 DEF PowiTurn

LEMMA PowiTyped ==
    ASSUME NEW base \in Floats, NEW exp \in Nat
    PROVE  Powi(base, exp) \in Floats
<1> DEFINE State == [acc : Floats, factor : Floats, n : Nat]
           start == [acc |-> One, factor |-> base, n |-> exp]
<1>1. ASSUME NEW s \in State PROVE FourTurns(s) \in State
  BY TurnTyped DEF FourTurns
<1>2. start \in State
  BY ConstantsTyped
<1> HIDE DEF State, start
<1>3. FourTurns(FourTurns(start)) \in State
  BY <1>1, <1>2
<1> QED
  BY <1>3 DEF Powi, State, start

-----------------------------------------------------------------------------
\* Jitter never lengthens a delay.

\* Facts about products of naturals, which the provers are weak on.
LEMMA ProductMonotone ==
    ASSUME NEW a \in Nat, NEW b \in Nat, NEW c \in Nat, a <= b
    PROVE  a * c <= b * c
<1>1. b * c = a * c + (b - a) * c
  OBVIOUS
<1>2. (b - a) * c \in Nat
  OBVIOUS
<1> QED
  BY <1>1, <1>2

LEMMA QuotientBound ==
    ASSUME NEW n \in Nat, NEW d \in Nat \ {0}, NEW top \in Nat, n <= top * d
    PROVE  n \div d <= top
<1> DEFINE q == n \div d
<1>1. q \in Nat /\ d * q <= n
  OBVIOUS
<1>2. SUFFICES ASSUME top + 1 <= q PROVE FALSE
  BY <1>1
<1>3. (top + 1) * d <= q * d
  BY <1>1, <1>2, ProductMonotone
<1> QED
  BY <1>1, <1>3

InUnit(x) == 0 <= x.num /\ x.num <= x.den /\ 0 < x.den

\* A fraction of at most one does not overflow.
LEMMA UnitIsFinite ==
    ASSUME NEW n \in Nat, NEW d \in Nat \ {0}, n <= d
    PROVE  Float(n, d) = Fraction(n, d)
<1>1. 1 * d <= FloatMax * d
  BY BackoffAssumption, WidthsAssumption, ProductMonotone
<1> QED
  BY <1>1, BackoffAssumption, WidthsAssumption DEF Float, Sign

LEMMA ClampInUnit ==
    ASSUME NEW x \in Floats, ~IsNaN(x)
    PROVE  InUnit(Clamp(x))
BY DEF Clamp, InUnit, IsNaN, Less, Zero, One, Fraction, Floats

BlendNum(j, r) ==
    (j.den - j.num) * (r.den * j.den) + (r.num * j.num) * j.den
BlendDen(j, r) == j.den * (r.den * j.den)

LEMMA BlendIs ==
    ASSUME NEW j \in Floats, InUnit(j), NEW r \in Floats, InUnit(r)
    PROVE  /\ Minus(One, j) = Fraction(j.den - j.num, j.den)
           /\ Blend(j, r) = Fraction(BlendNum(j, r), BlendDen(j, r))
           /\ BlendNum(j, r) \in Nat /\ BlendDen(j, r) \in Nat \ {0}
           /\ BlendNum(j, r) <= BlendDen(j, r)
<1> DEFINE jn == j.num  jd == j.den  rn == r.num  rd == r.den
<1>1. jn \in Nat /\ jd \in Nat \ {0} /\ jn <= jd
  BY DEF Floats, InUnit
<1>2. rn \in Nat /\ rd \in Nat \ {0} /\ rn <= rd
  BY DEF Floats, InUnit
<1>3. Minus(One, j) = Fraction(jd - jn, jd)
  <2>1. Minus(One, j) = Float(1 * jd + (-jn) * 1, 1 * jd)
    BY DEF Minus, Sum, One, Fraction
  <2>2. 1 * jd + (-jn) * 1 = jd - jn /\ 1 * jd = jd
    BY <1>1
  <2> QED
    BY <1>1, <2>1, <2>2, UnitIsFinite
<1>4. rn * jn \in Nat /\ rd * jd \in Nat \ {0} /\ rn * jn <= rd * jn
      /\ rd * jn <= rd * jd
  BY <1>1, <1>2, ProductMonotone
<1>5. Mul(r, j) = Fraction(rn * jn, rd * jd)
  <2> DEFINE pn == rn * jn  pd == rd * jd
  <2>1. pn \in Nat /\ pd \in Nat \ {0} /\ pn <= pd
    <3>1. rd * jn = jn * rd /\ rd * jd = jd * rd
      BY <1>1, <1>2
    <3>2. rd * jn \in Nat /\ rd * jd \in Nat /\ rn * jn \in Nat
      BY <1>1, <1>2
    <3> QED
      BY <1>4, <3>2
  <2>2. Mul(r, j) = Float(pn, pd)
    BY DEF Mul
  <2> HIDE DEF pn, pd
  <2>3. Float(pn, pd) = Fraction(pn, pd)
    BY <2>1, UnitIsFinite
  <2> QED
    BY <2>2, <2>3 DEF pn, pd
<1> DEFINE n == (jd - jn) * (rd * jd) + (rn * jn) * jd
           d == jd * (rd * jd)
<1>6. Blend(j, r) = Float(n, d)
  BY <1>3, <1>5 DEF Blend, Sum, Fraction
<1>7. n \in Nat /\ d \in Nat \ {0} /\ n <= d
  <2>1. (rn * jn) * jd <= (rd * jn) * jd
    BY <1>1, <1>2, <1>4, ProductMonotone
  <2>2. d = (jd - jn) * (rd * jd) + (rd * jn) * jd
    BY <1>1, <1>2
  <2>3. (jd - jn) * (rd * jd) \in Nat /\ (rn * jn) * jd \in Nat
    BY <1>1, <1>4
  <2>4. d \in Nat \ {0}
    BY <1>1, <1>4
  <2>5. (rd * jn) * jd \in Nat
    BY <1>1, <1>2
  <2> DEFINE x == (jd - jn) * (rd * jd)  y == (rn * jn) * jd
             z == (rd * jn) * jd
  <2>6. x \in Nat /\ y \in Nat /\ z \in Nat /\ y <= z
    BY <2>1, <2>3, <2>5
  <2>7. n = x + y /\ d = x + z
    BY <2>2
  <2> HIDE DEF x, y, z, n, d
  <2> QED
    BY <2>4, <2>6, <2>7
<1>8. n = BlendNum(j, r) /\ d = BlendDen(j, r)
  BY DEF BlendNum, BlendDen
<1> HIDE DEF n, d
<1> QED
  BY <1>3, <1>6, <1>7, <1>8, UnitIsFinite

LEMMA BlendInUnit ==
    ASSUME NEW j \in Floats, InUnit(j), NEW r \in Floats, InUnit(r)
    PROVE  InUnit(Blend(j, r))
BY BlendIs DEF InUnit, Fraction

LEMMA ProductBound ==
    ASSUME NEW a \in Nat, NEW b \in Nat, NEW c \in Nat, NEW e \in Nat,
           NEW top \in Nat, a <= top * b, c <= e
    PROVE  a * c <= top * (b * e)
<1>1. a * c <= (top * b) * c
  BY ProductMonotone
<1>2. c * (top * b) <= e * (top * b)
  BY ProductMonotone
<1>3. (top * b) * c = c * (top * b) /\ e * (top * b) = top * (b * e)
  OBVIOUS
<1>4. a * c \in Nat /\ (top * b) * c \in Nat /\ e * (top * b) \in Nat
  OBVIOUS
<1> QED
  BY <1>1, <1>2, <1>3, <1>4

LEMMA FiniteFloat ==
    ASSUME NEW n \in Nat, NEW d \in Nat \ {0}, NEW top \in 0..U64Max,
           n <= top * d
    PROVE  Float(n, d) = Fraction(n, d)
<1>1. top \in Nat /\ FloatMax \in Nat /\ top <= FloatMax
  BY BackoffAssumption, WidthsAssumption
<1>2. top * d <= FloatMax * d
  BY <1>1, ProductMonotone
<1>3. top * d \in Nat /\ FloatMax * d \in Nat
  BY <1>1
<1>4. Sign(n) * n = n
  BY DEF Sign
<1>5. ~(n > FloatMax * d)
  BY <1>2, <1>3
<1> QED
  BY <1>4, <1>5 DEF Float

\* The delay stays below any whole number of milliseconds that bounds it.
LEMMA ScaledBound ==
    ASSUME NEW base \in Floats, NEW blend \in Floats, NEW top \in 0..U64Max,
           base.num <= 0 \/ base.num <= top * base.den,
           InUnit(blend)
    PROVE  AsU64(Mul(base, blend)) <= top
<1> DEFINE n == base.num * blend.num
           d == base.den * blend.den
<1>1. /\ base.num \in Int /\ base.den \in Nat /\ top \in Nat
      /\ blend.num \in Nat /\ blend.den \in Nat \ {0}
      /\ blend.num <= blend.den /\ U64Max \in Nat /\ FloatMax \in Nat
      /\ top <= FloatMax
  BY BackoffAssumption, WidthsAssumption DEF Floats, InUnit
<1>2. CASE base.num <= 0
  <2>1. n <= 0 /\ d \in Nat
    BY <1>1, <1>2
  <2>2. Float(n, d).num <= 0
    BY <2>1, <1>1 DEF Float, Fraction, Sign
  <2> QED
    BY <1>1, <2>2 DEF Mul, AsU64
<1>3. CASE base.num > 0 /\ base.num <= top * base.den
  <2>1. base.num \in Nat /\ base.den \in Nat \ {0}
    BY <1>1, <1>3
  <2>2. n \in Nat /\ d \in Nat \ {0}
    BY <1>1, <2>1
  <2>3. n <= top * d
    BY <1>1, <1>3, <2>1, ProductBound
  <2>4. Mul(base, blend) = Float(n, d)
    BY DEF Mul
  <2> HIDE DEF n, d
  <2>5. Float(n, d) = Fraction(n, d)
    BY <2>2, <2>3, FiniteFloat
  <2>6. n \div d <= top
    BY <1>1, <2>2, <2>3, QuotientBound
  <2>7. n \div d \in Nat
    BY <2>2
  <2> QED
    BY <1>1, <2>2, <2>4, <2>5, <2>6, <2>7 DEF AsU64, Fraction
<1> QED
  BY <1>1, <1>2, <1>3
-----------------------------------------------------------------------------
\* Fibonacci is defined by recursion.  Every set of naturals has a least
\* element; were the recursion without a value somewhere, or the value no
\* natural, there would be a least such place, and there is none.

LEMMA Least ==
    ASSUME NEW T \in SUBSET Nat, T # {}
    PROVE  \E x \in T : \A y \in T : x <= y
<1>1. PICK x \in T : \A y \in T : ~(<<y, x>> \in OpToRel(<, Nat))
  BY Zenon, NatLessThanWellFounded, WFMin
<1>2. ASSUME NEW y \in T PROVE x <= y
  <2>1. <<y, x>> \in Nat \X Nat /\ <<y, x>>[1] = y /\ <<y, x>>[2] = x
    OBVIOUS
  <2>2. ~(<<y, x>> \in {ss \in Nat \X Nat : ss[1] < ss[2]})
    BY <1>1, Zenon DEF OpToRel
  <2>3. ~(y < x)
    BY <2>1, <2>2
  <2> QED
    BY <2>3
<1> QED
  BY <1>2

\* What Fibonacci computes at k from a table f of the values before k.
Body(f, k) ==
    IF k = 0 THEN 0
    ELSE IF k <= 2 THEN 1 ELSE SaturatingAdd(f[k - 2], f[k - 1], U64Max)
IsTable(f, n) == f = [k \in 0..n |-> Body(f, k)]

LEMMA TableTyped ==
    ASSUME NEW n \in Nat, NEW f, IsTable(f, n)
    PROVE  \A k \in 0..n : f[k] \in Nat
<1> DEFINE Bad == {k \in 0..n : f[k] \notin Nat}
<1> SUFFICES ASSUME Bad # {} PROVE FALSE
  OBVIOUS
<1>1. PICK k \in Bad : \A l \in Bad : k <= l
  <2>1. Bad \in SUBSET Nat
    OBVIOUS
  <2> QED
    BY <2>1, Least
<1>2. f[k] = Body(f, k)
  BY DEF IsTable
<1>3. \A l \in 0..n : l < k => f[l] \in Nat
  BY <1>1
<1>4. k > 2 => f[k - 1] \in Nat /\ f[k - 2] \in Nat
  BY <1>3
<1>5. Body(f, k) \in Nat
  BY <1>4, BackoffAssumption, WidthsAssumption DEF Body, SaturatingAdd
<1> QED
  BY <1>2, <1>5

LEMMA TableExists ==
    ASSUME NEW n \in Nat
    PROVE  \E f : IsTable(f, n)
<1> DEFINE Bad == {k \in Nat : ~\E f : IsTable(f, k)}
<1> SUFFICES ASSUME Bad # {} PROVE FALSE
  OBVIOUS
<1>1. PICK k \in Bad : \A l \in Bad : k <= l
  <2>1. Bad \in SUBSET Nat
    OBVIOUS
  <2> HIDE DEF Bad
  <2> QED
    BY <2>1, Least
<1>2. CASE k = 0
  <2>1. IsTable([l \in 0..0 |-> 0], 0)
    BY DEF IsTable, Body
  <2> QED
    BY <1>2, <2>1
<1>3. CASE k > 0
  <2>1. k - 1 \in Nat /\ k - 1 \notin Bad
    BY <1>1, <1>3
  <2>2. PICK f : IsTable(f, k - 1)
    BY <2>1
  <2> DEFINE g == [l \in 0..k |-> Body(f, l)]
  <2>3. \A l \in 0..(k - 1) : f[l] = g[l]
    BY <2>2 DEF IsTable
  <2>4. ASSUME NEW l \in 0..k PROVE Body(g, l) = Body(f, l)
    <3>1. l > 2 => l - 1 \in 0..(k - 1) /\ l - 2 \in 0..(k - 1)
      OBVIOUS
    <3>2. l > 2 => f[l - 1] = g[l - 1] /\ f[l - 2] = g[l - 2]
      BY <2>3, <3>1
    <3> HIDE DEF g
    <3> QED
      BY <3>2 DEF Body
  <2>5. IsTable(g, k)
    BY <2>4 DEF IsTable
  <2> QED
    BY <2>5
<1> QED
  BY <1>2, <1>3

LEMMA FibonacciTyped ==
    ASSUME NEW n \in Nat
    PROVE  Fibonacci(n) \in Nat
<1> DEFINE t == CHOOSE f : IsTable(f, n)
<1>1. Fibonacci(n) = t[n]
  BY DEF Fibonacci, IsTable, Body
<1>2. IsTable(t, n)
  BY TableExists
<1> HIDE DEF t
<1> QED
  BY <1>1, <1>2, TableTyped
\* What RubyFibonacci computes at k from a table f of the values before k.
RubyBody(f, k) ==
    IF k = 0 THEN 0
    ELSE IF k <= 2 THEN 1 ELSE f[k - 2] + f[k - 1]
IsRubyTable(f, n) == f = [k \in 0..n |-> RubyBody(f, k)]

LEMMA RubyTableTyped ==
    ASSUME NEW n \in Nat, NEW f, IsRubyTable(f, n)
    PROVE  \A k \in 0..n : f[k] \in Nat
<1> DEFINE Bad == {k \in 0..n : f[k] \notin Nat}
<1> SUFFICES ASSUME Bad # {} PROVE FALSE
  OBVIOUS
<1>1. PICK k \in Bad : \A l \in Bad : k <= l
  <2>1. Bad \in SUBSET Nat
    OBVIOUS
  <2> QED
    BY <2>1, Least
<1>2. f[k] = RubyBody(f, k)
  BY DEF IsRubyTable
<1>3. \A l \in 0..n : l < k => f[l] \in Nat
  BY <1>1
<1>4. k > 2 => f[k - 1] \in Nat /\ f[k - 2] \in Nat
  BY <1>3
<1>5. RubyBody(f, k) \in Nat
  BY <1>4 DEF RubyBody
<1> QED
  BY <1>2, <1>5

LEMMA RubyTableExists ==
    ASSUME NEW n \in Nat
    PROVE  \E f : IsRubyTable(f, n)
<1> DEFINE Bad == {k \in Nat : ~\E f : IsRubyTable(f, k)}
<1> SUFFICES ASSUME Bad # {} PROVE FALSE
  OBVIOUS
<1>1. PICK k \in Bad : \A l \in Bad : k <= l
  <2>1. Bad \in SUBSET Nat
    OBVIOUS
  <2> HIDE DEF Bad
  <2> QED
    BY <2>1, Least
<1>2. CASE k = 0
  <2>1. IsRubyTable([l \in 0..0 |-> 0], 0)
    BY DEF IsRubyTable, RubyBody
  <2> QED
    BY <1>2, <2>1
<1>3. CASE k > 0
  <2>1. k - 1 \in Nat /\ k - 1 \notin Bad
    BY <1>1, <1>3
  <2>2. PICK f : IsRubyTable(f, k - 1)
    BY <2>1
  <2> DEFINE g == [l \in 0..k |-> RubyBody(f, l)]
  <2>3. \A l \in 0..(k - 1) : f[l] = g[l]
    BY <2>2 DEF IsRubyTable
  <2>4. ASSUME NEW l \in 0..k PROVE RubyBody(g, l) = RubyBody(f, l)
    <3>1. l > 2 => l - 1 \in 0..(k - 1) /\ l - 2 \in 0..(k - 1)
      OBVIOUS
    <3>2. l > 2 => f[l - 1] = g[l - 1] /\ f[l - 2] = g[l - 2]
      BY <2>3, <3>1
    <3> HIDE DEF g
    <3> QED
      BY <3>2 DEF RubyBody
  <2>5. IsRubyTable(g, k)
    BY <2>4 DEF IsRubyTable
  <2> QED
    BY <2>5
<1> QED
  BY <1>2, <1>3

LEMMA RubyFibonacciTyped ==
    ASSUME NEW n \in Nat
    PROVE  RubyFibonacci(n) \in Nat
<1> DEFINE t == CHOOSE f : IsRubyTable(f, n)
<1>1. RubyFibonacci(n) = t[n]
  BY DEF RubyFibonacci, IsRubyTable, RubyBody
<1>2. IsRubyTable(t, n)
  BY RubyTableExists
<1> HIDE DEF t
<1> QED
  BY <1>1, <1>2, RubyTableTyped
\* What Power computes at k from a table f of the powers before k.
PowerBody(f, x, k) == IF k = 0 THEN One ELSE Mul(f[k - 1], x)
IsPowerTable(f, x, n) == f = [k \in 0..n |-> PowerBody(f, x, k)]

LEMMA PowerTableTyped ==
    ASSUME NEW x \in Floats, NEW n \in Nat, NEW f, IsPowerTable(f, x, n)
    PROVE  \A k \in 0..n : f[k] \in Floats
<1> DEFINE Bad == {k \in 0..n : f[k] \notin Floats}
<1> SUFFICES ASSUME Bad # {} PROVE FALSE
  OBVIOUS
<1>1. PICK k \in Bad : \A l \in Bad : k <= l
  <2>1. Bad \in SUBSET Nat
    OBVIOUS
  <2> QED
    BY <2>1, Least
<1>2. f[k] = PowerBody(f, x, k)
  BY DEF IsPowerTable
<1>3. k > 0 => f[k - 1] \in Floats
  BY <1>1
<1>4. PowerBody(f, x, k) \in Floats
  BY <1>3, MulTyped, ConstantsTyped DEF PowerBody
<1> QED
  BY <1>2, <1>4

LEMMA PowerTableExists ==
    ASSUME NEW x, NEW n \in Nat
    PROVE  \E f : IsPowerTable(f, x, n)
<1> DEFINE Bad == {k \in Nat : ~\E f : IsPowerTable(f, x, k)}
<1> SUFFICES ASSUME Bad # {} PROVE FALSE
  OBVIOUS
<1>1. PICK k \in Bad : \A l \in Bad : k <= l
  <2>1. Bad \in SUBSET Nat
    OBVIOUS
  <2> HIDE DEF Bad
  <2> QED
    BY <2>1, Least
<1>2. CASE k = 0
  <2>1. IsPowerTable([l \in 0..0 |-> One], x, 0)
    BY DEF IsPowerTable, PowerBody
  <2> QED
    BY <1>2, <2>1
<1>3. CASE k > 0
  <2>1. k - 1 \in Nat /\ k - 1 \notin Bad
    BY <1>1, <1>3
  <2>2. PICK f : IsPowerTable(f, x, k - 1)
    BY <2>1
  <2> DEFINE g == [l \in 0..k |-> PowerBody(f, x, l)]
  <2>3. \A l \in 0..(k - 1) : f[l] = g[l]
    BY <2>2 DEF IsPowerTable
  <2>4. ASSUME NEW l \in 0..k PROVE PowerBody(g, x, l) = PowerBody(f, x, l)
    <3>1. l > 0 => l - 1 \in 0..(k - 1)
      OBVIOUS
    <3>2. l > 0 => f[l - 1] = g[l - 1]
      BY <2>3, <3>1
    <3> HIDE DEF g
    <3> QED
      BY <3>2 DEF PowerBody
  <2>5. IsPowerTable(g, x, k)
    BY <2>4 DEF IsPowerTable
  <2> QED
    BY <2>5
<1> QED
  BY <1>2, <1>3

LEMMA PowerTyped ==
    ASSUME NEW x \in Floats, NEW n \in Nat
    PROVE  Power(x, n) \in Floats
<1> DEFINE t == CHOOSE f : IsPowerTable(f, x, n)
<1>1. Power(x, n) = t[n]
  BY DEF Power, IsPowerTable, PowerBody
<1>2. IsPowerTable(t, x, n)
  BY PowerTableExists
<1> HIDE DEF t
<1> QED
  BY <1>1, <1>2, PowerTableTyped

-----------------------------------------------------------------------------
\* Delays.

LEMMA CapBounds ==
    ASSUME NEW x \in Floats, NEW cap \in 0..U64Max
    PROVE  /\ FMin(x, U64(cap)) \in Floats
           /\ \/ FMin(x, U64(cap)).num <= 0
              \/ FMin(x, U64(cap)).num <= cap * FMin(x, U64(cap)).den
<1>1. U64Max \in Nat
  BY BackoffAssumption, WidthsAssumption
<1>2. U64(cap) \in Floats /\ U64(cap).num = cap /\ U64(cap).den = 1
  BY <1>1, U64Typed DEF U64, Fraction
<1>3. x.num \in Int /\ x.den \in Nat /\ cap \in Nat
  BY <1>1 DEF Floats
<1>4. CASE IsNaN(x) \/ Less(U64(cap), x)
  BY <1>2, <1>3, <1>4 DEF FMin
<1>5. CASE ~IsNaN(x) /\ ~Less(U64(cap), x)
  <2>1. FMin(x, U64(cap)) = x
    BY <1>5 DEF FMin
  <2>2. ~(cap * x.den < x.num * 1)
    BY <1>2, <1>5 DEF Less
  <2>3. cap * x.den \in Int
    BY <1>3
  <2>4. x.num <= cap * x.den
    BY <1>3, <2>2, <2>3
  <2> QED
    BY <2>1, <2>4
<1> QED
  BY <1>4, <1>5

LEMMA NaNBlend ==
    ASSUME NEW r \in Floats, NEW j \in Floats, IsNaN(j)
    PROVE  Blend(j, r) = NaN
<1>1. j = NaN
  BY DEF IsNaN, NaN, Fraction, Floats
<1>2. FloatMax \in Nat
  BY BackoffAssumption, WidthsAssumption
<1>3. Float(0, 0) = NaN
  BY <1>2 DEF Float, Sign, NaN, Fraction
<1>4. Minus(One, j) = NaN
  BY <1>1, <1>3 DEF Minus, Sum, One, NaN, Fraction
<1>5. r.num * 0 = 0 /\ r.den * 0 = 0
  BY DEF Floats
<1>6. Mul(r, j) = NaN
  BY <1>1, <1>3, <1>5 DEF Mul, NaN, Fraction
<1> QED
  BY <1>3, <1>4, <1>6 DEF Blend, Sum, NaN, Fraction

\* apply_jitter never answers with more than a whole number of milliseconds
\* that bounds the delay before jitter, for any jitter factor: above one,
\* below zero, infinite or NaN.
THEOREM JitterShortens ==
    ASSUME NEW base \in Floats, NEW jitter \in Floats, NEW r \in Scalars,
           NEW top \in 0..U64Max,
           base.num <= 0 \/ base.num <= top * base.den
    PROVE  ApplyJitter(base, jitter, r) <= top
<1>1. r \in Floats /\ InUnit(r)
  BY BackoffAssumption, WidthsAssumption DEF InUnit
<1>2. CASE IsNaN(jitter)
  <2>1. Blend(Clamp(jitter), r) = NaN
    BY <1>1, <1>2, NaNBlend DEF Clamp
  <2>2. base.num * 0 = 0 /\ base.den * 0 = 0
    BY DEF Floats
  <2>3. Mul(base, NaN).num = 0
    BY <2>2, BackoffAssumption, WidthsAssumption
       DEF Mul, Float, Sign, NaN, Fraction
  <2> QED
    BY <2>1, <2>3, BackoffAssumption, WidthsAssumption DEF ApplyJitter, AsU64
<1>3. CASE ~IsNaN(jitter)
  <2>1. Clamp(jitter) \in Floats /\ InUnit(Clamp(jitter))
    BY <1>3, ClampTyped, ClampInUnit
  <2>2. InUnit(Blend(Clamp(jitter), r))
    BY <1>1, <2>1, BlendInUnit
  <2>3. Blend(Clamp(jitter), r) \in Floats
    BY <1>1, <2>1, ConstantsTyped, MinusTyped, MulTyped, SumTyped DEF Blend
  <2> QED
    BY <2>2, <2>3, ScaledBound DEF ApplyJitter
<1> QED
  BY <1>2, <1>3

LEMMA BaseTyped ==
    ASSUME NEW p \in PolicyType, NEW a \in Nat
    PROVE  /\ Base(p, a) \in Floats
           /\ p.kind # "constant" =>
                  \/ Base(p, a).num <= 0
                  \/ Base(p, a).num <= p.cap * Base(p, a).den
<1>1. /\ p.kind \in {"exponential", "constant", "fibonacci"}
      /\ p.base \in Nat /\ p.multiplier \in Floats /\ p.cap \in 0..U64Max
  BY BackoffAssumption, WidthsAssumption DEF PolicyType
<1>2. U64(p.base) \in Floats
  BY <1>1, U64Typed
<1>3. CASE p.kind = "exponential"
  <2>1. SaturatingSub(a, 1) \in Nat
    BY DEF SaturatingSub
  <2>2. Powi(p.multiplier, SaturatingSub(a, 1)) \in Floats
    BY <1>1, <2>1, PowiTyped
  <2> DEFINE x == Mul(U64(p.base), Powi(p.multiplier, SaturatingSub(a, 1)))
  <2>3. x \in Floats
    BY <1>2, <2>2, MulTyped
  <2>4. Base(p, a) = FMin(x, U64(p.cap))
    BY <1>3 DEF Base, ExponentialBase
  <2> HIDE DEF x
  <2> QED
    BY <1>1, <2>3, <2>4, CapBounds
<1>4. CASE p.kind = "fibonacci"
  <2> DEFINE x == Mul(U64(p.base), U64(Fibonacci(a)))
  <2>1. U64(Fibonacci(a)) \in Floats
    BY FibonacciTyped, U64Typed
  <2>2. x \in Floats
    BY <1>2, <2>1, MulTyped
  <2>3. Base(p, a) = FMin(x, U64(p.cap))
    BY <1>4 DEF Base, FibonacciBase
  <2> HIDE DEF x
  <2> QED
    BY <1>1, <2>2, <2>3, CapBounds
<1>5. CASE p.kind = "constant"
  BY <1>2, <1>5 DEF Base
<1> QED
  BY <1>1, <1>3, <1>4, <1>5

LEMMA BlendTyped ==
    ASSUME NEW j \in Floats, NEW r \in Floats
    PROVE  Blend(j, r) \in Floats
BY ConstantsTyped, MinusTyped, MulTyped, SumTyped DEF Blend

LEMMA ApplyJitterTyped ==
    ASSUME NEW base \in Floats, NEW jitter \in Floats, NEW r \in Scalars
    PROVE  ApplyJitter(base, jitter, r) \in 0..U64Max
<1>1. r \in Floats
  BY BackoffAssumption, WidthsAssumption
<1>2. Blend(Clamp(jitter), r) \in Floats
  BY <1>1, ClampTyped, BlendTyped
<1> QED
  BY <1>2, MulTyped, AsU64Typed DEF ApplyJitter

\* What a strategy answers is a u64, and it answers exactly while the attempt
\* is below max_attempts.
THEOREM DelayTyped ==
    ASSUME NEW p \in PolicyType, NEW a \in Nat, NEW r \in Scalars
    PROVE  /\ Delay(p, a, r) \subseteq 0..U64Max
           /\ Delay(p, a, r) # {} <=> a < p.max_attempts
<1>1. p.max_attempts \in Nat /\ p.jitter \in Floats
  BY BackoffAssumption, WidthsAssumption DEF PolicyType
<1>2. ApplyJitter(Base(p, a), p.jitter, r) \in 0..U64Max
  BY <1>1, BaseTyped, ApplyJitterTyped
<1> QED
  BY <1>1, <1>2 DEF Delay

\* No exponential or Fibonacci delay exceeds the cap, for any attempt, any
\* multiplier, any jitter factor and any random scalar.
THEOREM DelayCapped ==
    ASSUME NEW p \in PolicyType, NEW a \in Nat, NEW r \in Scalars,
           p.kind # "constant"
    PROVE  Delay(p, a, r) \subseteq 0..p.cap
<1>1. p.cap \in 0..U64Max /\ p.jitter \in Floats /\ U64Max \in Nat
  BY BackoffAssumption, WidthsAssumption DEF PolicyType
<1>2. ApplyJitter(Base(p, a), p.jitter, r) <= p.cap
  BY <1>1, BaseTyped, JitterShortens
<1>3. ApplyJitter(Base(p, a), p.jitter, r) \in 0..U64Max
  BY <1>1, BaseTyped, ApplyJitterTyped
<1> QED
  BY <1>1, <1>2, <1>3 DEF Delay

-----------------------------------------------------------------------------
\* powi_f64 squares; Ruby multiplies n times.  Products of floats associate as
\* long as none is a fraction below one and another above: an overflow then
\* cannot be undone by a later factor.

Small == {x \in Floats : Sign(x.num) * x.num <= x.den}
Big == {x \in Floats : x.num # 0 /\ Sign(x.num) * x.num >= x.den}

LEMMA SmallOrBig ==
    ASSUME NEW x \in Floats
    PROVE  x \in Small \/ x \in Big
BY DEF Small, Big, Floats, Sign

LEMMA OneIsBoth == One \in Small /\ One \in Big
BY ConstantsTyped DEF Small, Big, One, Fraction, Sign

\* The absolute value of a product.
LEMMA SignProduct ==
    ASSUME NEW a \in Int, NEW b \in Int
    PROVE  /\ Sign(a) * a \in Nat /\ Sign(b) * b \in Nat
           /\ Sign(a * b) * (a * b) = (Sign(a) * a) * (Sign(b) * b)
           /\ Sign(a * b) = Sign(a) * Sign(b)
           /\ Sign(Sign(a)) = Sign(a)
<1>1. CASE a = 0 \/ b = 0
  BY <1>1 DEF Sign
<1>2. CASE a > 0 /\ b > 0
  <2>1. a * b > 0
    BY <1>2
  <2> QED
    BY <1>2, <2>1 DEF Sign
<1>3. CASE a > 0 /\ b < 0
  <2>1. a * (-b) > 0 /\ a * b = -(a * (-b))
    BY <1>3
  <2> QED
    BY <1>3, <2>1 DEF Sign
<1>4. CASE a < 0 /\ b > 0
  <2>1. (-a) * b > 0 /\ a * b = -((-a) * b)
    BY <1>4
  <2> QED
    BY <1>4, <2>1 DEF Sign
<1>5. CASE a < 0 /\ b < 0
  <2>1. (-a) * (-b) > 0 /\ a * b = (-a) * (-b)
    BY <1>5
  <2> QED
    BY <1>5, <2>1 DEF Sign
<1> QED
  BY <1>1, <1>2, <1>3, <1>4, <1>5

\* |n| <= d: the fraction is a float.
LEMMA SmallFloat ==
    ASSUME NEW n \in Int, NEW d \in Nat, Sign(n) * n <= d
    PROVE  Float(n, d) = Fraction(n, d)
<1>1. 1 * d <= FloatMax * d
  BY BackoffAssumption, WidthsAssumption, ProductMonotone
<1>2. Sign(n) * n \in Nat /\ FloatMax * d \in Nat
  BY SignProduct, BackoffAssumption, WidthsAssumption
<1> QED
  BY <1>1, <1>2 DEF Float

LEMMA ProductsMonotone ==
    ASSUME NEW a \in Nat, NEW b \in Nat, NEW c \in Nat, NEW d \in Nat,
           a <= b, c <= d
    PROVE  a * c <= b * d
<1>1. a * c <= b * c
  BY ProductMonotone
<1>2. c * b <= d * b
  BY ProductMonotone
<1>3. b * c = c * b /\ b * d = d * b
  OBVIOUS
<1>4. a * c \in Nat /\ b * c \in Nat /\ b * d \in Nat
  OBVIOUS
<1> QED
  BY <1>1, <1>2, <1>3, <1>4

LEMMA SmallMul ==
    ASSUME NEW x \in Small, NEW y \in Small
    PROVE  /\ Mul(x, y) = Fraction(x.num * y.num, x.den * y.den)
           /\ Mul(x, y) \in Small
<1> DEFINE n == x.num * y.num  d == x.den * y.den
<1>1. /\ x.num \in Int /\ x.den \in Nat /\ y.num \in Int /\ y.den \in Nat
      /\ Sign(x.num) * x.num <= x.den /\ Sign(y.num) * y.num <= y.den
  BY DEF Small, Floats
<1>2. n \in Int /\ d \in Nat
  BY <1>1
<1>3. Sign(n) * n <= d
  <2>1. Sign(x.num) * x.num \in Nat /\ Sign(y.num) * y.num \in Nat
    BY <1>1, SignProduct
  <2>2. (Sign(x.num) * x.num) * (Sign(y.num) * y.num) <= d
    BY <1>1, <2>1, ProductsMonotone
  <2> QED
    BY <1>1, <2>2, SignProduct
<1>4. Mul(x, y) = Float(n, d)
  BY DEF Mul
<1> HIDE DEF n, d
<1>5. Float(n, d) = Fraction(n, d)
  BY <1>2, <1>3, SmallFloat
<1>6. Fraction(n, d) \in Small
  BY <1>2, <1>3 DEF Small, Floats, Fraction
<1> QED
  BY <1>4, <1>5, <1>6 DEF n, d

LEMMA OverflowKept ==
    ASSUME NEW a \in Nat, NEW b \in Nat, NEW c \in Nat \ {0}, NEW d \in Nat,
           NEW f \in Nat, ~(a <= f * b), d <= c
    PROVE  a * c > f * (b * d)
<1> DEFINE fb == f * b
<1>1. fb \in Nat /\ fb * d = f * (b * d)
  OBVIOUS
<1>2. fb + 1 <= a
  BY <1>1
<1> HIDE DEF fb
<1>3. fb * d <= fb * c
  BY <1>1, ProductsMonotone
<1>4. (fb + 1) * c <= a * c
  BY <1>1, <1>2, ProductMonotone
<1>5. (fb + 1) * c = fb * c + c
  BY <1>1
<1>6. fb * c \in Nat /\ a * c \in Nat /\ fb * d \in Nat
  BY <1>1
<1> QED
  BY <1>1, <1>3, <1>4, <1>5, <1>6

\* A factor of at least one keeps an overflow an overflow.
LEMMA BigMul ==
    ASSUME NEW a \in Int, NEW b \in Nat, a # 0, Sign(a) * a >= b,
           NEW y \in Big
    PROVE  /\ Float(a, b) \in Big
           /\ Mul(Float(a, b), y) = Float(a * y.num, b * y.den)
<1>1. /\ y.num \in Int /\ y.num # 0 /\ y.den \in Nat
      /\ Sign(y.num) * y.num >= y.den /\ y \in Floats
  BY DEF Big, Floats
<1>2. FloatMax \in Nat
  BY BackoffAssumption, WidthsAssumption
<1>3. Sign(a) * a \in Nat \ {0} /\ Sign(y.num) * y.num \in Nat \ {0}
  BY <1>1 DEF Sign
<1>4. Float(a, b) \in Big
  BY FloatTyped DEF Big, Float, Fraction, Sign
<1>5. CASE Sign(a) * a > FloatMax * b
  <2> DEFINE an == Sign(a) * a  yn == Sign(y.num) * y.num
  <2>1. Float(a, b) = Fraction(Sign(a), 0)
    BY <1>5 DEF Float
  <2>2. Mul(Float(a, b), y) = Float(Sign(a) * y.num, 0)
    BY <1>1, <2>1 DEF Mul, Fraction
  <2>3. Sign(a) * y.num # 0 /\ Sign(a) * y.num \in Int
    BY <1>1 DEF Sign
  <2>4. Float(Sign(a) * y.num, 0) = Fraction(Sign(Sign(a) * y.num), 0)
    BY <1>2, <2>3 DEF Float, Sign
  <2>5. Sign(Sign(a) * y.num) = Sign(a * y.num)
    <3>1. Sign(a) \in Int
      BY DEF Sign
    <3>2. Sign(Sign(a)) = Sign(a) /\ Sign(a * y.num) = Sign(a) * Sign(y.num)
      BY <1>1, SignProduct
    <3>3. Sign(Sign(a) * y.num) = Sign(Sign(a)) * Sign(y.num)
      BY <1>1, <3>1, SignProduct
    <3> QED
      BY <3>2, <3>3
  <2>6. Sign(a * y.num) * (a * y.num) > FloatMax * (b * y.den)
    <3>1. Sign(a * y.num) * (a * y.num) = an * yn
      BY <1>1, SignProduct
    <3>2. an \in Nat /\ yn \in Nat \ {0} /\ ~(an <= FloatMax * b) /\ y.den <= yn
      <4>1. an \in Nat /\ yn \in Nat \ {0} /\ yn >= y.den
        BY <1>1, <1>3
      <4>2. FloatMax * b \in Nat /\ an > FloatMax * b
        BY <1>2, <1>5
      <4> HIDE DEF an, yn
      <4> QED
        BY <1>1, <4>1, <4>2
    <3> HIDE DEF an, yn
    <3>3. an * yn > FloatMax * (b * y.den)
      BY <1>1, <1>2, <3>2, OverflowKept
    <3> QED
      BY <3>1, <3>3
  <2>7. Float(a * y.num, b * y.den) = Fraction(Sign(a * y.num), 0)
    BY <2>6 DEF Float
  <2> QED
    BY <1>4, <2>2, <2>4, <2>5, <2>7
<1>6. CASE ~(Sign(a) * a > FloatMax * b)
  <2>1. Float(a, b) = Fraction(a, b)
    BY <1>6 DEF Float
  <2> QED
    BY <1>4, <2>1 DEF Mul, Fraction
<1> QED
  BY <1>5, <1>6

LEMMA BigClosed ==
    ASSUME NEW x \in Big, NEW y \in Big
    PROVE  /\ x.num * y.num \in Int /\ x.den * y.den \in Nat
           /\ x.num * y.num # 0
           /\ Sign(x.num * y.num) * (x.num * y.num) >= x.den * y.den
           /\ Mul(x, y) \in Big
<1>1. /\ x.num \in Int /\ x.num # 0 /\ x.den \in Nat
      /\ Sign(x.num) * x.num >= x.den
      /\ y.num \in Int /\ y.num # 0 /\ y.den \in Nat
      /\ Sign(y.num) * y.num >= y.den
  BY DEF Big, Floats
<1>2. /\ x.num * y.num \in Int /\ x.den * y.den \in Nat
      /\ x.num * y.num # 0
  BY <1>1
<1>3. Sign(x.num) * x.num \in Nat /\ Sign(y.num) * y.num \in Nat
  BY <1>1, SignProduct
<1>4. x.den * y.den <= (Sign(x.num) * x.num) * (Sign(y.num) * y.num)
  BY <1>1, <1>3, ProductsMonotone
<1>5. Sign(x.num * y.num) * (x.num * y.num) >= x.den * y.den
  BY <1>1, <1>2, <1>3, <1>4, SignProduct
<1> QED
  BY <1>2, <1>5, BigMul DEF Mul

\* Three factors of one class.
LEMMA MulAssociates ==
    ASSUME NEW C \in {Small, Big}, NEW x \in C, NEW y \in C, NEW z \in C
    PROVE  Mul(Mul(x, y), z) = Mul(x, Mul(y, z))
<1>1. /\ x \in Floats /\ y \in Floats /\ z \in Floats
  BY DEF Small, Big
<1>2. /\ x.num \in Int /\ x.den \in Nat /\ y.num \in Int /\ y.den \in Nat
      /\ z.num \in Int /\ z.den \in Nat
  BY <1>1 DEF Floats
<1>3. /\ (x.num * y.num) * z.num = x.num * (y.num * z.num)
      /\ (x.den * y.den) * z.den = x.den * (y.den * z.den)
      /\ (y.num * z.num) * x.num = x.num * (y.num * z.num)
      /\ (y.den * z.den) * x.den = x.den * (y.den * z.den)
  BY <1>2
<1>4. Mul(x, Mul(y, z)) = Mul(Mul(y, z), x)
  <2>1. Mul(y, z) \in Floats
    BY <1>1, MulTyped
  <2> DEFINE w == Mul(y, z)
  <2>2. w.num \in Int /\ w.den \in Nat
    BY <2>1 DEF Floats
  <2> HIDE DEF w
  <2>3. x.num * w.num = w.num * x.num /\ x.den * w.den = w.den * x.den
    BY <1>2, <2>2
  <2>4. Mul(x, w) = Mul(w, x)
    BY <2>3 DEF Mul
  <2> QED
    BY <2>4 DEF w
<1> DEFINE v == Mul(x, y)  w == Mul(y, z)
<1>5. CASE C = Small
  <2>1. /\ v \in Small /\ v = Fraction(x.num * y.num, x.den * y.den)
        /\ w \in Small /\ w = Fraction(y.num * z.num, y.den * z.den)
    BY <1>5, SmallMul
  <2>2. x \in Small /\ z \in Small
    BY <1>5
  <2> HIDE DEF v, w
  <2>3. /\ v.num = x.num * y.num /\ v.den = x.den * y.den
        /\ w.num = y.num * z.num /\ w.den = y.den * z.den
    BY <2>1 DEF Fraction
  <2>4. /\ Mul(v, z) = Fraction(v.num * z.num, v.den * z.den)
        /\ Mul(w, x) = Fraction(w.num * x.num, w.den * x.den)
    BY <2>1, <2>2, SmallMul
  <2>5. Mul(v, z) = Mul(w, x)
    BY <1>3, <2>3, <2>4
  <2> QED
    BY <1>4, <2>5 DEF v, w
<1>6. CASE C = Big
  <2>1. x \in Big /\ y \in Big /\ z \in Big
    BY <1>6
  <2>2. ASSUME NEW p \in Big, NEW q \in Big, NEW r \in Big
        PROVE  Mul(Mul(p, q), r) = Float((p.num * q.num) * r.num,
                                         (p.den * q.den) * r.den)
    <3>1. Mul(p, q) = Float(p.num * q.num, p.den * q.den)
      BY DEF Mul
    <3> DEFINE n == p.num * q.num  d == p.den * q.den
    <3>2. n \in Int /\ d \in Nat /\ n # 0 /\ Sign(n) * n >= d
      BY BigClosed
    <3> HIDE DEF n, d
    <3>3. Mul(Float(n, d), r) = Float(n * r.num, d * r.den)
      BY <3>2, BigMul
    <3> QED
      BY <3>1, <3>3 DEF n, d
  <2>3. /\ Mul(v, z) = Float((x.num * y.num) * z.num, (x.den * y.den) * z.den)
        /\ Mul(w, x) = Float((y.num * z.num) * x.num, (y.den * z.den) * x.den)
    BY <2>1, <2>2
  <2>4. Mul(v, z) = Mul(w, x)
    BY <1>3, <2>3
  <2> QED
    BY <1>4, <2>4
<1> QED
  BY <1>5, <1>6

LEMMA PowerTablesAgree ==
    ASSUME NEW x, NEW m \in Nat, NEW f, IsPowerTable(f, x, m),
           NEW n \in Nat, NEW g, IsPowerTable(g, x, n)
    PROVE  \A k \in Nat : k <= m /\ k <= n => f[k] = g[k]
<1> DEFINE Bad == {k \in Nat : k <= m /\ k <= n /\ f[k] # g[k]}
<1> SUFFICES ASSUME Bad # {} PROVE FALSE
  OBVIOUS
<1>1. PICK k \in Bad : \A l \in Bad : k <= l
  <2>1. Bad \in SUBSET Nat
    OBVIOUS
  <2> HIDE DEF Bad
  <2> QED
    BY <2>1, Least
<1>2. k \in 0..m /\ k \in 0..n
  OBVIOUS
<1>3. f[k] = PowerBody(f, x, k) /\ g[k] = PowerBody(g, x, k)
  BY <1>2 DEF IsPowerTable
<1>4. k > 0 => f[k - 1] = g[k - 1]
  BY <1>1
<1>5. PowerBody(f, x, k) = PowerBody(g, x, k)
  BY <1>4 DEF PowerBody
<1> QED
  BY <1>3, <1>5

\* The recursion that defines powers.
LEMMA PowerUnfolds ==
    ASSUME NEW x, NEW n \in Nat
    PROVE  /\ Power(x, 0) = One
           /\ Power(x, n + 1) = Mul(Power(x, n), x)
<1> DEFINE t(m) == CHOOSE f : IsPowerTable(f, x, m)
<1>1. ASSUME NEW m \in Nat
      PROVE  IsPowerTable(t(m), x, m) /\ Power(x, m) = t(m)[m]
  <2>1. Power(x, m) = t(m)[m]
    BY DEF Power, IsPowerTable, PowerBody
  <2> QED
    BY <2>1, PowerTableExists
<1> HIDE DEF t
<1>2. t(0)[0] = One
  BY <1>1 DEF IsPowerTable, PowerBody
<1>3. t(n + 1)[n + 1] = Mul(t(n + 1)[n], x)
  <2>1. n + 1 \in 0..(n + 1) /\ n + 1 # 0 /\ (n + 1) - 1 = n
    OBVIOUS
  <2>2. t(n + 1)[n + 1] = PowerBody(t(n + 1), x, n + 1)
    BY <1>1, <2>1 DEF IsPowerTable
  <2> QED
    BY <2>1, <2>2 DEF PowerBody
<1>4. t(n + 1)[n] = t(n)[n]
  BY <1>1, PowerTablesAgree
<1> QED
  BY <1>1, <1>2, <1>3, <1>4

LEMMA ClassClosed ==
    ASSUME NEW C \in {Small, Big}
    PROVE  /\ C \subseteq Floats /\ One \in C
           /\ \A x, y \in C : Mul(x, y) \in C
<1>1. CASE C = Small
  BY <1>1, OneIsBoth, SmallMul DEF Small
<1>2. CASE C = Big
  BY <1>2, OneIsBoth, BigClosed DEF Big
<1> QED
  BY <1>1, <1>2

LEMMA PowersOfClass ==
    ASSUME NEW C \in {Small, Big}, NEW x \in C
    PROVE  \A n \in Nat : Power(x, n) \in C
<1> DEFINE Bad == {k \in Nat : Power(x, k) \notin C}
<1> SUFFICES ASSUME Bad # {} PROVE FALSE
  OBVIOUS
<1>1. PICK k \in Bad : \A l \in Bad : k <= l
  <2>1. Bad \in SUBSET Nat
    OBVIOUS
  <2> HIDE DEF Bad
  <2> QED
    BY <2>1, Least
<1>2. CASE k = 0
  BY <1>2, PowerUnfolds, ClassClosed
<1>3. CASE k > 0
  <2>1. k - 1 \in Nat /\ (k - 1) + 1 = k
    BY <1>3
  <2>2. Power(x, k - 1) \in C
    BY <1>1, <2>1
  <2>3. Power(x, k) = Mul(Power(x, k - 1), x)
    BY <2>1, PowerUnfolds
  <2> QED
    BY <2>2, <2>3, ClassClosed
<1> QED
  BY <1>2, <1>3

\* Multiplying a power of x by f is raising it by j.
Raises(f, x, j) == \A i \in Nat : Mul(Power(x, i), f) = Power(x, i + j)

LEMMA SquareRaises ==
    ASSUME NEW C \in {Small, Big}, NEW x \in C, NEW f \in C, NEW j \in Nat,
           Raises(f, x, j)
    PROVE  Raises(Mul(f, f), x, 2 * j)
<1> SUFFICES ASSUME NEW i \in Nat
             PROVE  Mul(Power(x, i), Mul(f, f)) = Power(x, i + 2 * j)
  BY DEF Raises
<1>1. Mul(Power(x, i), Mul(f, f)) = Mul(Mul(Power(x, i), f), f)
  BY PowersOfClass, MulAssociates
<1>2. i + j \in Nat /\ (i + j) + j = i + 2 * j
  OBVIOUS
<1>3. Mul(Power(x, i), f) = Power(x, i + j)
  BY DEF Raises
<1>4. Mul(Power(x, i + j), f) = Power(x, (i + j) + j)
  BY <1>2 DEF Raises
<1> QED
  BY <1>1, <1>2, <1>3, <1>4

\* Between the turns of powi_f64: with the factor and the exponent that are
\* left, acc is the power asked for.
Towards(s, C, x, e) ==
    /\ s.factor \in C /\ s.n \in Nat
    /\ \E i \in Nat, j \in Nat :
           s.acc = Power(x, i) /\ Raises(s.factor, x, j) /\ i + j * s.n = e

LEMMA TurnTowards ==
    ASSUME NEW C \in {Small, Big}, NEW x \in C, NEW e \in Nat, NEW top \in Nat,
           NEW s, Towards(s, C, x, e), s.n <= 2 * top + 1
    PROVE  Towards(PowiTurn(s), C, x, e) /\ PowiTurn(s).n <= top
<1>1. CASE s.n = 0
  BY <1>1 DEF PowiTurn, Towards
<1>2. CASE s.n # 0
  <2> DEFINE f == Mul(s.factor, s.factor)  m == s.n \div 2  t == PowiTurn(s)
  <2>1. /\ t.factor = f /\ t.n = m
        /\ t.acc = IF s.n % 2 = 1 THEN Mul(s.acc, s.factor) ELSE s.acc
    BY <1>2 DEF PowiTurn
  <2>2. PICK i \in Nat, j \in Nat :
            s.acc = Power(x, i) /\ Raises(s.factor, x, j) /\ i + j * s.n = e
    BY DEF Towards
  <2>3. f \in C /\ Raises(f, x, 2 * j) /\ 2 * j \in Nat
    BY <2>2, ClassClosed, SquareRaises DEF Towards
  <2>4. /\ m \in Nat /\ m <= top
        /\ \/ s.n = 2 * m /\ s.n % 2 = 0
           \/ s.n = 2 * m + 1 /\ s.n % 2 = 1
    <3> DEFINE n == s.n
    <3>1. n \in Nat /\ n <= 2 * top + 1
      BY DEF Towards
    <3> HIDE DEF n
    <3>2. /\ n \div 2 \in Nat /\ n \div 2 <= top
          /\ \/ n = 2 * (n \div 2) /\ n % 2 = 0
             \/ n = 2 * (n \div 2) + 1 /\ n % 2 = 1
      BY <3>1
    <3> QED
      BY <3>2 DEF n
  <2> HIDE DEF f, m, t
  <2>5. CASE s.n = 2 * m /\ s.n % 2 = 0
    <3>1. t.acc = Power(x, i)
      BY <2>1, <2>2, <2>5
    <3>2. i + (2 * j) * m = e
      BY <2>2, <2>4, <2>5
    <3> QED
      BY <2>1, <2>3, <2>4, <3>1, <3>2 DEF Towards, t
  <2>6. CASE s.n = 2 * m + 1 /\ s.n % 2 = 1
    <3>1. t.acc = Power(x, i + j) /\ i + j \in Nat
      BY <2>1, <2>2, <2>6 DEF Raises
    <3>2. (i + j) + (2 * j) * m = e
      BY <2>2, <2>4, <2>6
    <3> QED
      BY <2>1, <2>3, <2>4, <3>1, <3>2 DEF Towards, t
  <2> QED
    BY <2>4, <2>5, <2>6
<1> QED
  BY <1>1, <1>2

LEMMA FourTurnsTowards ==
    ASSUME NEW C \in {Small, Big}, NEW x \in C, NEW e \in Nat, NEW top \in Nat,
           NEW s, Towards(s, C, x, e), s.n <= 16 * top + 15
    PROVE  Towards(FourTurns(s), C, x, e) /\ FourTurns(s).n <= top
<1> DEFINE s1 == PowiTurn(s)  s2 == PowiTurn(s1)  s3 == PowiTurn(s2)
<1>1. Towards(s1, C, x, e) /\ s1.n <= 8 * top + 7
  BY TurnTowards
<1> HIDE DEF s1
<1>2. Towards(s2, C, x, e) /\ s2.n <= 4 * top + 3
  BY <1>1, TurnTowards
<1> HIDE DEF s2
<1>3. Towards(s3, C, x, e) /\ s3.n <= 2 * top + 1
  BY <1>2, TurnTowards
<1> HIDE DEF s3
<1>4. Towards(PowiTurn(s3), C, x, e) /\ PowiTurn(s3).n <= top
  BY <1>3, TurnTowards
<1> QED
  BY <1>4 DEF FourTurns, s1, s2, s3

\* Squaring computes the power that repeated multiplication defines, for every
\* float and every exponent that fits a u8.
THEOREM PowiIsPower ==
    ASSUME NEW x \in Floats, NEW e \in 0..255
    PROVE  Powi(x, e) = Power(x, e)
<1>1. PICK C \in {Small, Big} : x \in C
  BY SmallOrBig
<1> DEFINE start == [acc |-> One, factor |-> x, n |-> e]
           end == FourTurns(FourTurns(start))
<1>2. Towards(start, C, x, e)
  <2>1. Raises(x, x, 1)
    BY PowerUnfolds DEF Raises
  <2>2. One = Power(x, 0) /\ 0 + 1 * e = e
    BY PowerUnfolds
  <2>3. start.acc = One /\ start.factor = x /\ start.n = e
    OBVIOUS
  <2> HIDE DEF start
  <2> QED
    BY <1>1, <2>1, <2>2, <2>3 DEF Towards
<1>3. start.n <= 16 * 15 + 15
  OBVIOUS
<1> HIDE DEF start
<1>4. Towards(FourTurns(start), C, x, e) /\ FourTurns(start).n <= 16 * 0 + 15
  BY <1>1, <1>2, <1>3, FourTurnsTowards
<1>5. Towards(end, C, x, e) /\ end.n <= 0
  BY <1>1, <1>4, FourTurnsTowards
<1> HIDE DEF end
<1>6. PICK i \in Nat, j \in Nat :
          end.acc = Power(x, i) /\ i + j * end.n = e
  BY <1>5 DEF Towards
<1>7. end.n = 0 /\ i = e
  BY <1>5, <1>6 DEF Towards
<1>8. Powi(x, e) = end.acc
  BY DEF Powi, end, start
<1> QED
  BY <1>6, <1>7, <1>8

-----------------------------------------------------------------------------
\* The saturating Fibonacci numbers are the true ones, saturated.

Saturated(n) == IF n > U64Max THEN U64Max ELSE n

LEMMA TablesSaturate ==
    ASSUME NEW n \in Nat, NEW f, IsTable(f, n), NEW m \in Nat, n <= m,
           NEW g, IsRubyTable(g, m)
    PROVE  \A k \in 0..n : f[k] = Saturated(g[k])
<1> DEFINE Bad == {k \in 0..n : f[k] # Saturated(g[k])}
<1> SUFFICES ASSUME Bad # {} PROVE FALSE
  OBVIOUS
<1>1. PICK k \in Bad : \A l \in Bad : k <= l
  <2>1. Bad \in SUBSET Nat
    OBVIOUS
  <2> HIDE DEF Bad
  <2> QED
    BY <2>1, Least
<1>2. k \in 0..n /\ k \in 0..m
  OBVIOUS
<1>3. f[k] = Body(f, k) /\ g[k] = RubyBody(g, k)
  BY <1>2 DEF IsTable, IsRubyTable
<1>4. k > 2 => /\ f[k - 1] = Saturated(g[k - 1])
               /\ f[k - 2] = Saturated(g[k - 2])
  BY <1>1
<1>5. k > 2 => g[k - 1] \in Nat /\ g[k - 2] \in Nat
  BY <1>2, RubyTableTyped
<1>6. Body(f, k) = Saturated(RubyBody(g, k))
  BY <1>4, <1>5, WidthsAssumption
     DEF Body, RubyBody, SaturatingAdd, Saturated
<1> QED
  BY <1>3, <1>6

LEMMA FibonacciSaturates ==
    ASSUME NEW n \in Nat
    PROVE  Fibonacci(n) = Saturated(RubyFibonacci(n))
<1> DEFINE t == CHOOSE f : IsTable(f, n)
           r == CHOOSE f : IsRubyTable(f, n)
<1>1. Fibonacci(n) = t[n]
  BY DEF Fibonacci, IsTable, Body
<1>2. RubyFibonacci(n) = r[n]
  BY DEF RubyFibonacci, IsRubyTable, RubyBody
<1>3. IsTable(t, n) /\ IsRubyTable(r, n)
  BY TableExists, RubyTableExists
<1> HIDE DEF t, r
<1> QED
  BY <1>1, <1>2, <1>3, TablesSaturate

LEMMA RubyTablesAgree ==
    ASSUME NEW m \in Nat, NEW f, IsRubyTable(f, m),
           NEW n \in Nat, NEW g, IsRubyTable(g, n)
    PROVE  \A k \in Nat : k <= m /\ k <= n => f[k] = g[k]
<1> DEFINE Bad == {k \in Nat : k <= m /\ k <= n /\ f[k] # g[k]}
<1> SUFFICES ASSUME Bad # {} PROVE FALSE
  OBVIOUS
<1>1. PICK k \in Bad : \A l \in Bad : k <= l
  <2>1. Bad \in SUBSET Nat
    OBVIOUS
  <2> HIDE DEF Bad
  <2> QED
    BY <2>1, Least
<1>2. k \in 0..m /\ k \in 0..n
  OBVIOUS
<1>3. f[k] = RubyBody(f, k) /\ g[k] = RubyBody(g, k)
  BY <1>2 DEF IsRubyTable
<1>4. k > 2 => f[k - 1] = g[k - 1] /\ f[k - 2] = g[k - 2]
  BY <1>1
<1>5. RubyBody(f, k) = RubyBody(g, k)
  BY <1>4 DEF RubyBody
<1> QED
  BY <1>3, <1>5

\* From the first on, no Fibonacci number is below the one before it.
LEMMA FibonacciGrows ==
    ASSUME NEW n \in Nat \ {0}
    PROVE  RubyFibonacci(n) <= RubyFibonacci(n + 1)
<1> DEFINE t(m) == CHOOSE f : IsRubyTable(f, m)
           g == t(n + 1)
<1>1. ASSUME NEW m \in Nat
      PROVE  IsRubyTable(t(m), m) /\ RubyFibonacci(m) = t(m)[m]
  <2>1. RubyFibonacci(m) = t(m)[m]
    BY DEF RubyFibonacci, IsRubyTable, RubyBody
  <2> QED
    BY <2>1, RubyTableExists
<1> HIDE DEF t
<1>2. n \in Nat /\ n + 1 \in Nat /\ n <= n + 1 /\ n <= n
  OBVIOUS
<1>3. IsRubyTable(t(n), n) /\ IsRubyTable(g, n + 1)
  BY <1>1, <1>2
<1> HIDE DEF g
<1>4. t(n)[n] = g[n]
  BY <1>2, <1>3, RubyTablesAgree
<1>5. \A k \in 0..(n + 1) : g[k] = RubyBody(g, k) /\ g[k] \in Nat
  BY <1>2, <1>3, RubyTableTyped DEF IsRubyTable
<1>6. g[n] <= g[n + 1]
  <2>1. n \in 0..(n + 1) /\ n + 1 \in 0..(n + 1)
    OBVIOUS
  <2>2. CASE n + 1 <= 2
    BY <1>5, <2>1, <2>2 DEF RubyBody
  <2>3. CASE n + 1 > 2
    <3>1. n - 1 \in 0..(n + 1) /\ (n + 1) - 2 = n - 1 /\ (n + 1) - 1 = n
      BY <2>3
    <3>2. g[n + 1] = g[n - 1] + g[n]
      BY <1>5, <2>1, <2>3, <3>1 DEF RubyBody
    <3>3. g[n - 1] \in Nat /\ g[n] \in Nat
      BY <1>5, <2>1, <3>1
    <3> QED
      BY <3>2, <3>3
  <2> QED
    BY <2>2, <2>3
<1> QED
  BY <1>1, <1>4, <1>6 DEF g

-----------------------------------------------------------------------------
\* The order of finite floats that are not negative, by cross-multiplication,
\* and what casts and products do to it.

Finite == {x \in Floats : 0 <= x.num /\ 0 < x.den}
\* Those a u64 can hold.
Amounts == {x \in Finite : x.num <= U64Max * x.den}
Units == {x \in Finite : x.num <= x.den}
Le(x, y) == x.num * y.den <= y.num * x.den

LEMMA ProductCancels ==
    ASSUME NEW a \in Nat, NEW b \in Nat, NEW c \in Nat \ {0}, a * c <= b * c
    PROVE  a <= b
<1> SUFFICES ASSUME b + 1 <= a PROVE FALSE
  OBVIOUS
<1>1. (b + 1) * c <= a * c
  BY ProductMonotone
<1>2. (b + 1) * c = b * c + c /\ b * c \in Nat /\ a * c \in Nat
  OBVIOUS
<1> QED
  BY <1>1, <1>2

LEMMA FiniteParts ==
    ASSUME NEW x \in Finite
    PROVE  x.num \in Nat /\ x.den \in Nat \ {0} /\ x = Fraction(x.num, x.den)
BY DEF Finite, Floats, Fraction

\* a/b <= c/d and c/d <= e/f, in naturals.
LEMMA CrossTransitive ==
    ASSUME NEW a \in Nat, NEW b \in Nat, NEW c \in Nat, NEW d \in Nat \ {0},
           NEW e \in Nat, NEW f \in Nat, a * d <= c * b, c * f <= e * d
    PROVE  a * f <= e * b
<1>1. (a * d) * f <= (c * b) * f
  BY ProductMonotone
<1>2. (c * f) * b <= (e * d) * b
  BY ProductMonotone
<1>3. /\ (a * d) * f = (a * f) * d /\ (c * b) * f = (c * f) * b
      /\ (e * d) * b = (e * b) * d
  OBVIOUS
<1>4. (a * f) * d <= (e * b) * d
  <2>1. (a * f) * d \in Nat /\ (c * f) * b \in Nat /\ (e * b) * d \in Nat
    OBVIOUS
  <2> QED
    BY <1>1, <1>2, <1>3, <2>1
<1>5. a * f \in Nat /\ e * b \in Nat
  OBVIOUS
<1> QED
  BY <1>4, <1>5, ProductCancels

LEMMA LeTransitive ==
    ASSUME NEW x \in Finite, NEW y \in Finite, NEW z \in Finite,
           Le(x, y), Le(y, z)
    PROVE  Le(x, z)
BY FiniteParts, CrossTransitive DEF Le

LEMMA LeReflexive ==
    ASSUME NEW x \in Finite
    PROVE  Le(x, x)
<1>1. x.num * x.den \in Nat
  BY FiniteParts
<1> QED
  BY <1>1 DEF Le

LEMMA U64Amount ==
    ASSUME NEW n \in 0..U64Max
    PROVE  U64(n) \in Amounts
BY WidthsAssumption DEF Amounts, Finite, Floats, U64, Fraction

\* A unit scales an amount to an amount.
LEMMA Scale ==
    ASSUME NEW x \in Amounts, NEW u \in Units
    PROVE  /\ Mul(x, u) = Fraction(x.num * u.num, x.den * u.den)
           /\ Mul(x, u) \in Amounts
<1>1. /\ x.num \in Nat /\ x.den \in Nat \ {0} /\ x.num <= U64Max * x.den
      /\ u.num \in Nat /\ u.den \in Nat \ {0} /\ u.num <= u.den
      /\ U64Max \in Nat
  BY FiniteParts, WidthsAssumption DEF Amounts, Units
<1> DEFINE n == x.num * u.num  d == x.den * u.den
<1>2. n \in Nat /\ d \in Nat \ {0}
  BY <1>1
<1>3. n <= U64Max * d
  BY <1>1, ProductBound
<1>4. Mul(x, u) = Float(n, d)
  BY DEF Mul
<1> HIDE DEF n, d
<1>5. Float(n, d) = Fraction(n, d)
  BY <1>1, <1>2, <1>3, FiniteFloat
<1>6. Fraction(n, d) \in Amounts
  BY <1>2, <1>3 DEF Amounts, Finite, Floats, Fraction
<1> QED
  BY <1>4, <1>5, <1>6 DEF n, d

\* a/b <= c/d and e/f <= g/h multiply.
LEMMA CrossProduct ==
    ASSUME NEW a \in Nat, NEW b \in Nat, NEW c \in Nat, NEW d \in Nat,
           NEW e \in Nat, NEW f \in Nat, NEW g \in Nat, NEW h \in Nat,
           a * d <= c * b, e * h <= g * f
    PROVE  (a * e) * (d * h) <= (c * g) * (b * f)
<1>1. a * d \in Nat /\ c * b \in Nat /\ e * h \in Nat /\ g * f \in Nat
  OBVIOUS
<1>2. (a * d) * (e * h) <= (c * b) * (g * f)
  BY <1>1, ProductsMonotone
<1>3. (a * d) * (e * h) = (a * e) * (d * h)
  OBVIOUS
<1>4. (c * b) * (g * f) = (c * g) * (b * f)
  OBVIOUS
<1> QED
  BY <1>2, <1>3, <1>4

LEMMA ScaleMonotone ==
    ASSUME NEW x \in Amounts, NEW y \in Amounts,
           NEW u \in Units, NEW v \in Units,
           Le(x, y), Le(u, v)
    PROVE  Le(Mul(x, u), Mul(y, v))
<1>1. /\ x.num \in Nat /\ x.den \in Nat /\ y.num \in Nat /\ y.den \in Nat
      /\ u.num \in Nat /\ u.den \in Nat /\ v.num \in Nat /\ v.den \in Nat
  BY FiniteParts DEF Amounts, Units
<1>2. (x.num * u.num) * (y.den * v.den) <= (y.num * v.num) * (x.den * u.den)
  BY <1>1, CrossProduct DEF Le
<1>3. /\ Mul(x, u).num = x.num * u.num /\ Mul(x, u).den = x.den * u.den
      /\ Mul(y, v).num = y.num * v.num /\ Mul(y, v).den = y.den * v.den
  BY Scale DEF Fraction
<1> QED
  BY <1>2, <1>3 DEF Le

\* The cast of an amount rounds down.
LEMMA CastRoundsDown ==
    ASSUME NEW x \in Amounts
    PROVE  /\ AsU64(x) \in 0..U64Max
           /\ AsU64(x) * x.den <= x.num
           /\ x.num < (AsU64(x) + 1) * x.den
<1> DEFINE n == x.num  d == x.den
<1>1. n \in Nat /\ d \in Nat \ {0} /\ n <= U64Max * d /\ U64Max \in Nat
  BY FiniteParts, WidthsAssumption DEF Amounts
<1>2. AsU64(x) = IF n <= 0 THEN 0 ELSE IF n \div d > U64Max THEN U64Max
                                      ELSE n \div d
  BY <1>1 DEF AsU64
<1> HIDE DEF n, d
<1> DEFINE q == n \div d
<1>3. q \in Nat /\ d * q <= n /\ n < d * (q + 1)
  BY <1>1
<1>4. q <= U64Max
  BY <1>1, QuotientBound
<1> HIDE DEF q
<1>5. d * q = q * d /\ d * (q + 1) = (q + 1) * d
  BY <1>1, <1>3
<1>6. n = 0 => q = 0
  <2> SUFFICES ASSUME n = 0, q # 0 PROVE FALSE
    OBVIOUS
  <2>1. 1 * d <= q * d
    BY <1>1, <1>3, ProductMonotone
  <2> QED
    BY <1>1, <1>3, <1>5, <2>1
<1>7. AsU64(x) = q
  BY <1>1, <1>2, <1>3, <1>4, <1>6 DEF q
<1> QED
  BY <1>1, <1>3, <1>4, <1>5, <1>7 DEF n, d

LEMMA CastMonotone ==
    ASSUME NEW x \in Amounts, NEW y \in Amounts, Le(x, y)
    PROVE  AsU64(x) <= AsU64(y)
<1> DEFINE a == AsU64(x)  b == AsU64(y)
<1>1. /\ x.num \in Nat /\ x.den \in Nat \ {0}
      /\ y.num \in Nat /\ y.den \in Nat \ {0}
  BY FiniteParts DEF Amounts
<1>2. /\ a \in Nat /\ b \in Nat
      /\ a * x.den <= x.num /\ y.num < (b + 1) * y.den
  BY CastRoundsDown, WidthsAssumption
<1> HIDE DEF a, b
<1> SUFFICES ASSUME b + 1 <= a PROVE FALSE
  BY <1>2 DEF a, b
<1>3. a * y.den <= y.num * 1
  <2>1. x.num * y.den <= y.num * x.den
    BY DEF Le
  <2>2. a * x.den <= x.num * 1
    BY <1>1, <1>2
  <2> QED
    BY <1>1, <1>2, <2>1, <2>2, CrossTransitive
<1>4. (b + 1) * y.den <= a * y.den
  BY <1>1, <1>2, ProductMonotone
<1>5. a * y.den \in Nat /\ (b + 1) * y.den \in Nat
  BY <1>1, <1>2
<1> QED
  BY <1>1, <1>2, <1>3, <1>4, <1>5

-----------------------------------------------------------------------------
\* The delay before jitter, when the multiplier is not negative.

LEMMA CappedAmount ==
    ASSUME NEW x \in Floats, 0 <= x.num, NEW cap \in 0..U64Max
    PROVE  /\ FMin(x, U64(cap)) \in Amounts
           /\ Le(FMin(x, U64(cap)), U64(cap))
           /\ \/ FMin(x, U64(cap)) = U64(cap)
              \/ /\ FMin(x, U64(cap)) = x
                 /\ x.den # 0 /\ ~Less(U64(cap), x)
<1>1. /\ x.num \in Nat /\ x.den \in Nat /\ cap \in Nat /\ U64Max \in Nat
      /\ cap <= U64Max
  BY WidthsAssumption DEF Floats
<1>2. U64(cap) \in Amounts /\ Le(U64(cap), U64(cap))
  BY U64Amount, LeReflexive DEF Amounts
<1>3. CASE IsNaN(x) \/ Less(U64(cap), x)
  BY <1>2, <1>3 DEF FMin
<1>4. CASE ~IsNaN(x) /\ ~Less(U64(cap), x)
  <2>1. FMin(x, U64(cap)) = x
    BY <1>4 DEF FMin
  <2>2. x.num <= cap * x.den
    <3>1. ~(cap * x.den < x.num * 1)
      BY <1>4 DEF Less, U64, Fraction
    <3>2. cap * x.den \in Nat
      BY <1>1
    <3> QED
      BY <1>1, <3>1, <3>2
  <2>3. x.den # 0
    BY <1>1, <1>4, <2>2 DEF IsNaN
  <2>4. cap * x.den <= U64Max * x.den
    BY <1>1, ProductMonotone
  <2>5. cap * x.den \in Nat /\ U64Max * x.den \in Nat
    BY <1>1
  <2>6. x \in Amounts
    BY <1>1, <2>2, <2>3, <2>4, <2>5 DEF Amounts, Finite
  <2>7. Le(x, U64(cap))
    BY <1>1, <2>2 DEF Le, U64, Fraction
  <2> QED
    BY <1>4, <2>1, <2>3, <2>6, <2>7
<1> QED
  BY <1>3, <1>4

\* The documented cap and f64::min differ only between equal values.
LEMMA CapsAgree ==
    ASSUME NEW x \in Floats, 0 <= x.num, NEW cap \in 0..U64Max
    PROVE  LET b == FMin(x, U64(cap))
               d == IF Less(x, U64(cap)) THEN x ELSE U64(cap)
           IN  d \in Amounts /\ Le(b, d) /\ Le(d, b)
<1> DEFINE c == U64(cap)  b == FMin(x, c)
           d == IF Less(x, c) THEN x ELSE c
<1>1. /\ x.num \in Nat /\ x.den \in Nat /\ cap \in Nat
      /\ c.num = cap /\ c.den = 1 /\ c \in Amounts
  BY U64Amount, WidthsAssumption DEF Floats, U64, Fraction
<1>2. /\ b \in Amounts /\ Le(b, c)
      /\ b = c \/ (b = x /\ x.den # 0 /\ ~Less(c, x))
  BY CappedAmount
<1> HIDE DEF c, b
<1>3. cap * x.den \in Nat
  BY <1>1
<1>4. CASE Less(x, c)
  <2>1. x.num < cap * x.den
    BY <1>1, <1>4 DEF Less
  <2>2. ~IsNaN(x) /\ ~Less(c, x)
    BY <1>1, <1>3, <2>1 DEF IsNaN, Less
  <2>3. b = x
    BY <2>2 DEF FMin, b
  <2>4. d = x
    BY <1>4
  <2>5. Le(x, x)
    BY <1>2, <2>3, LeReflexive DEF Amounts
  <2> QED
    BY <1>2, <2>3, <2>4, <2>5 DEF b, c
<1>5. CASE ~Less(x, c)
  <2>1. d = c
    BY <1>5
  <2>2. Le(c, b)
    <3>1. CASE b = c
      BY <1>1, <3>1, LeReflexive DEF Amounts
    <3>2. CASE b = x /\ x.den # 0
      BY <1>1, <1>3, <1>5, <3>2 DEF Less, Le
    <3> QED
      BY <1>2, <3>1, <3>2
  <2> QED
    BY <1>1, <1>2, <2>1, <2>2 DEF b, c
<1> QED
  BY <1>4, <1>5

LEMMA MulNatural ==
    ASSUME NEW n \in Nat, NEW x \in Floats, 0 <= x.num
    PROVE  /\ Mul(U64(n), x) \in Floats /\ 0 <= Mul(U64(n), x).num
           /\ Mul(U64(n), x) = Float(n * x.num, x.den)
           /\ n * x.num \in Nat
<1>1. x.num \in Nat /\ x.den \in Nat
  BY DEF Floats
<1>2. n * x.num \in Nat /\ 1 * x.den = x.den
  BY <1>1
<1>3. Mul(U64(n), x) = Float(n * x.num, x.den)
  BY <1>2 DEF Mul, U64, Fraction
<1>4. 0 <= Float(n * x.num, x.den).num
  BY <1>2 DEF Float, Fraction, Sign
<1> QED
  BY <1>2, <1>3, <1>4, U64Typed, MulTyped

\* Powers of a multiplier that is not negative are not negative.
LEMMA PowerNatural ==
    ASSUME NEW x \in Floats, 0 <= x.num
    PROVE  \A n \in Nat : 0 <= Power(x, n).num
<1> DEFINE Bad == {k \in Nat : ~(0 <= Power(x, k).num)}
<1> SUFFICES ASSUME Bad # {} PROVE FALSE
  OBVIOUS
<1>1. PICK k \in Bad : \A l \in Bad : k <= l
  <2>1. Bad \in SUBSET Nat
    OBVIOUS
  <2> HIDE DEF Bad
  <2> QED
    BY <2>1, Least
<1>2. CASE k = 0
  BY <1>2, PowerUnfolds DEF One, Fraction
<1>3. CASE k > 0
  <2> DEFINE y == Power(x, k - 1)
  <2>1. k - 1 \in Nat /\ (k - 1) + 1 = k
    BY <1>3
  <2>2. y \in Floats /\ 0 <= y.num
    BY <1>1, <2>1, PowerTyped
  <2>3. Power(x, k) = Mul(y, x)
    BY <2>1, PowerUnfolds
  <2> HIDE DEF y
  <2>4. y.num * x.num \in Nat /\ y.den * x.den \in Nat
    BY <2>2 DEF Floats
  <2>5. 0 <= Mul(y, x).num
    BY <2>4 DEF Mul, Float, Fraction, Sign
  <2> QED
    BY <2>3, <2>5
<1> QED
  BY <1>2, <1>3

\* A Fibonacci number that exceeds the u64 exceeds every cap, saturated or not.
LEMMA BeyondEveryCap ==
    ASSUME NEW base \in Nat \ {0}, NEW n \in Nat, U64Max <= n,
           NEW cap \in 0..U64Max
    PROVE  /\ ~Less(Mul(U64(base), U64(n)), U64(cap))
           /\ Le(U64(cap), FMin(Mul(U64(base), U64(n)), U64(cap)))
<1> DEFINE x == Mul(U64(base), U64(n))  c == U64(cap)
<1>1. /\ cap \in Nat /\ U64Max \in Nat /\ FloatMax \in Nat /\ cap <= n
      /\ base * n \in Nat
  BY WidthsAssumption, BackoffAssumption
<1>2. x = Float(base * n, 1)
  BY DEF Mul, U64, Fraction
<1>3. 1 * n <= base * n
  BY ProductMonotone
<1>4. c.num = cap /\ c.den = 1
  BY DEF U64, Fraction
<1>5. \/ x.num = base * n /\ x.den = 1
      \/ x.num = 1 /\ x.den = 0
  BY <1>1, <1>2 DEF Float, Sign, Fraction
<1> HIDE DEF x, c
<1>6. ~Less(x, c)
  BY <1>1, <1>3, <1>4, <1>5 DEF Less
<1>7. Le(c, x) /\ Le(c, c)
  BY <1>1, <1>3, <1>4, <1>5 DEF Le
<1> QED
  BY <1>6, <1>7 DEF FMin, x, c

LEMMA ExponentialBaseIs ==
    ASSUME NEW p \in PolicyType, NEW a \in 1..255, p.kind = "exponential"
    PROVE  Base(p, a)
             = FMin(Mul(U64(p.base), Power(p.multiplier, a - 1)), U64(p.cap))
<1>1. p.multiplier \in Floats /\ a - 1 \in 0..255
  BY DEF PolicyType
<1>2. SaturatingSub(a, 1) = a - 1
  BY DEF SaturatingSub
<1>3. Powi(p.multiplier, a - 1) = Power(p.multiplier, a - 1)
  BY <1>1, PowiIsPower
<1> QED
  BY <1>2, <1>3 DEF Base, ExponentialBase

LEMMA ClampIsUnit ==
    ASSUME NEW x \in Floats, ~IsNaN(x)
    PROVE  Clamp(x) \in Units /\ Clamp(x) \in Floats /\ InUnit(Clamp(x))
BY ClampTyped, ClampInUnit DEF Units, Finite, InUnit

\* The part that is not given to jitter is never cut off.
LEMMA BlendBounds ==
    ASSUME NEW j \in Floats, InUnit(j), NEW r \in Scalars
    PROVE  /\ Blend(j, r) \in Units /\ Minus(One, j) \in Units
           /\ Le(Minus(One, j), Blend(j, r))
<1>1. r \in Floats /\ InUnit(r)
  BY BackoffAssumption DEF InUnit
<1> DEFINE jn == j.num  jd == j.den  rn == r.num  rd == r.den
           n == BlendNum(j, r)  d == BlendDen(j, r)
<1>2. /\ jn \in Nat /\ jd \in Nat \ {0} /\ jn <= jd
      /\ rn \in Nat /\ rd \in Nat
  BY <1>1 DEF Floats, InUnit
<1>3. /\ Minus(One, j) = Fraction(jd - jn, jd)
      /\ Blend(j, r) = Fraction(n, d)
      /\ n \in Nat /\ d \in Nat \ {0} /\ n <= d
  BY <1>1, BlendIs
<1>4. (jd - jn) * d <= n * jd
  <2>1. /\ n = (jd - jn) * (rd * jd) + (rn * jn) * jd
        /\ d = jd * (rd * jd)
    BY DEF BlendNum, BlendDen
  <2>2. n * jd = (jd - jn) * d + ((rn * jn) * jd) * jd
    BY <1>2, <2>1
  <2>3. ((rn * jn) * jd) * jd \in Nat
    BY <1>2
  <2> HIDE DEF n, d
  <2>4. (jd - jn) * d \in Nat /\ n * jd \in Nat
    BY <1>2, <1>3
  <2> QED
    BY <2>2, <2>3, <2>4
<1> HIDE DEF n, d
<1>5. Blend(j, r) \in Units
  BY <1>3 DEF Units, Finite, Floats, Fraction
<1>6. Minus(One, j) \in Units
  BY <1>2, <1>3 DEF Units, Finite, Floats, Fraction
<1>7. Le(Minus(One, j), Blend(j, r))
  BY <1>3, <1>4 DEF Le, Fraction
<1> QED
  BY <1>5, <1>6, <1>7

LEMMA UnitMultiple ==
    ASSUME NEW x \in Amounts, NEW u \in Units
    PROVE  Le(Mul(x, u), x)
<1>1. /\ x.num \in Nat /\ x.den \in Nat \ {0}
      /\ u.num \in Nat /\ u.den \in Nat \ {0} /\ u.num <= u.den
  BY FiniteParts DEF Amounts, Units
<1>2. (x.num * u.num) * x.den <= x.num * (x.den * u.den)
  <2>1. u.num * (x.num * x.den) <= u.den * (x.num * x.den)
    BY <1>1, ProductMonotone
  <2>2. /\ (x.num * u.num) * x.den = u.num * (x.num * x.den)
        /\ x.num * (x.den * u.den) = u.den * (x.num * x.den)
    BY <1>1
  <2> QED
    BY <2>1, <2>2
<1> QED
  BY <1>2, Scale DEF Le, Fraction

-----------------------------------------------------------------------------
\* Delays grow with their growth.

LEMMA CappedGrows ==
    ASSUME NEW b \in Nat, NEW cap \in 0..U64Max,
           NEW G \in Floats, 0 <= G.num, NEW H \in Floats, 0 <= H.num,
           H.den # 0 => G.den # 0 /\ Le(G, H)
    PROVE  LET x == FMin(Mul(U64(b), G), U64(cap))
               y == FMin(Mul(U64(b), H), U64(cap))
           IN  x \in Amounts /\ y \in Amounts /\ Le(x, y)
<1> DEFINE v == Mul(U64(b), G)  w == Mul(U64(b), H)  c == U64(cap)
           x == FMin(v, c)  y == FMin(w, c)
<1>1. /\ G.num \in Nat /\ G.den \in Nat /\ H.num \in Nat /\ H.den \in Nat
      /\ cap \in Nat /\ U64Max \in Nat
  BY WidthsAssumption DEF Floats
<1>2. /\ v \in Floats /\ 0 <= v.num /\ v = Float(b * G.num, G.den)
      /\ w \in Floats /\ 0 <= w.num /\ w = Float(b * H.num, H.den)
      /\ b * G.num \in Nat /\ b * H.num \in Nat
  BY MulNatural
<1> HIDE DEF v, w
<1>3. /\ x \in Amounts /\ Le(x, c)
      /\ y \in Amounts
      /\ y = c \/ (y = w /\ w.den # 0 /\ ~Less(c, w))
  BY <1>2, CappedAmount
<1> HIDE DEF x, y, c
<1>4. ASSUME y = c PROVE Le(x, y)
  BY <1>3, <1>4
<1>5. ASSUME y = w, w.den # 0, ~Less(c, w) PROVE Le(x, y)
  <2>1. w = Fraction(b * H.num, H.den) /\ H.den \in Nat \ {0}
    BY <1>1, <1>2, <1>5 DEF Float, Fraction
  <2>2. G.den \in Nat \ {0} /\ G.num * H.den <= H.num * G.den
    BY <1>1, <2>1 DEF Le
  <2>3. b * H.num <= cap * H.den
    <3>1. ~(cap * H.den < (b * H.num) * 1)
      BY <1>5, <2>1 DEF c, Less, U64, Fraction
    <3>2. cap * H.den \in Nat
      BY <1>1
    <3> QED
      BY <1>2, <3>1, <3>2
  <2>4. (b * G.num) * H.den <= (b * H.num) * G.den
    <3>1. (G.num * H.den) * b <= (H.num * G.den) * b
      BY <1>1, <2>2, ProductMonotone
    <3>2. /\ (G.num * H.den) * b = (b * G.num) * H.den
          /\ (H.num * G.den) * b = (b * H.num) * G.den
      BY <1>1
    <3> QED
      BY <3>1, <3>2
  <2>5. b * G.num <= cap * G.den
    <3> DEFINE g == b * G.num  h == b * H.num
    <3>1. /\ g \in Nat /\ h \in Nat
          /\ g * H.den <= h * G.den /\ h * 1 <= cap * H.den
      BY <1>2, <2>3, <2>4
    <3> HIDE DEF g, h
    <3>2. g * 1 <= cap * G.den
      BY <1>1, <2>1, <3>1, CrossTransitive
    <3> QED
      BY <3>1, <3>2 DEF g
  <2>6. v = Fraction(b * G.num, G.den)
    BY <1>1, <1>2, <2>2, <2>5, FiniteFloat
  <2>7. x = v
    <3>1. ~IsNaN(v)
      BY <2>2, <2>6 DEF IsNaN, Fraction
    <3>2. ~(cap * G.den < (b * G.num) * 1)
      <4>1. cap * G.den \in Nat
        BY <1>1
      <4> QED
        BY <1>2, <2>5, <4>1
    <3>3. ~Less(c, v)
      BY <2>2, <2>6, <3>2 DEF c, Less, U64, Fraction
    <3> QED
      BY <3>1, <3>3 DEF FMin, x
  <2>8. Le(v, w)
    BY <2>1, <2>4, <2>6 DEF Le, Fraction
  <2> QED
    BY <1>5, <2>7, <2>8
<1> QED
  BY <1>3, <1>4, <1>5 DEF v, w, x, y, c

LEMMA PowerGrows ==
    ASSUME NEW m \in Floats, m.den <= m.num, NEW n \in Nat
    PROVE  LET G == Power(m, n)
               H == Power(m, n + 1)
           IN  /\ G \in Floats /\ 0 <= G.num /\ H \in Floats /\ 0 <= H.num
               /\ H.den # 0 => G.den # 0 /\ Le(G, H)
<1> DEFINE G == Power(m, n)  H == Power(m, n + 1)
<1>1. m.num \in Nat /\ m.den \in Nat
  BY DEF Floats
<1>2. G \in Floats /\ 0 <= G.num /\ H \in Floats /\ 0 <= H.num
  <2>1. G \in Floats /\ 0 <= G.num
    BY <1>1, PowerTyped, PowerNatural
  <2> DEFINE k == n + 1
  <2>2. k \in Nat
    OBVIOUS
  <2> HIDE DEF k
  <2>3. Power(m, k) \in Floats /\ 0 <= Power(m, k).num
    BY <1>1, <2>2, PowerTyped, PowerNatural
  <2> QED
    BY <2>1, <2>3 DEF k
<1>3. H = Mul(G, m)
  BY PowerUnfolds
<1> HIDE DEF G, H
<1>4. G.num \in Nat /\ G.den \in Nat
  BY <1>2 DEF Floats
<1>5. ASSUME H.den # 0 PROVE G.den # 0 /\ Le(G, H)
  <2>1. H = Fraction(G.num * m.num, G.den * m.den)
    BY <1>3, <1>5 DEF Mul, Float, Fraction
  <2>2. G.den * m.den # 0
    BY <1>5, <2>1 DEF Fraction
  <2>3. G.den # 0
    BY <1>1, <2>2
  <2>4. G.num * (G.den * m.den) <= (G.num * m.num) * G.den
    <3>1. m.den * (G.num * G.den) <= m.num * (G.num * G.den)
      BY <1>1, <1>4, ProductMonotone
    <3>2. /\ G.num * (G.den * m.den) = m.den * (G.num * G.den)
          /\ (G.num * m.num) * G.den = m.num * (G.num * G.den)
      BY <1>1, <1>4
    <3> QED
      BY <3>1, <3>2
  <2> QED
    BY <2>1, <2>3, <2>4 DEF Le, Fraction
<1> QED
  BY <1>2, <1>5 DEF G, H

-----------------------------------------------------------------------------
\* Whole numbers of milliseconds are computed exactly.

LEMMA MulWhole ==
    ASSUME NEW n \in Nat, NEW m \in Nat, n * m <= U64Max
    PROVE  Mul(U64(n), U64(m)) = U64(n * m)
<1>1. n * m \in Nat /\ n * m \in 0..U64Max /\ n * m <= n * m * 1
  BY WidthsAssumption
<1>2. Float(n * m, 1) = Fraction(n * m, 1)
  BY <1>1, FiniteFloat
<1> QED
  BY <1>2 DEF Mul, U64, Fraction

LEMMA MinWhole ==
    ASSUME NEW n \in Nat, NEW cap \in Nat
    PROVE  FMin(U64(n), U64(cap)) = U64(IF cap < n THEN cap ELSE n)
BY DEF FMin, U64, Fraction, IsNaN, Less

\* A delay of n milliseconds before jitter becomes one of at most n, of n when
\* nothing is given to jitter, and of no less than the part that is not.
LEMMA JitterWhole ==
    ASSUME NEW n \in 0..U64Max, NEW j \in Floats, InUnit(j), NEW r \in Scalars
    PROVE  LET d == AsU64(Mul(U64(n), Blend(j, r)))
           IN  /\ d \in 0..n
               /\ n * (j.den - j.num) < (d + 1) * j.den
               /\ j.num = 0 => d = n
<1> DEFINE u == Blend(j, r)  v == Minus(One, j)  x == Mul(U64(n), u)
           d == AsU64(x)  y == Mul(U64(n), v)
<1>1. /\ n \in Nat /\ j.num \in Nat /\ j.den \in Nat \ {0} /\ j.num <= j.den
  BY WidthsAssumption DEF Floats, InUnit
<1>2. r \in Floats /\ InUnit(r)
  BY BackoffAssumption DEF InUnit
<1>3. u \in Units /\ v \in Units /\ Le(v, u) /\ v = Fraction(j.den - j.num, j.den)
  BY <1>2, BlendBounds, BlendIs
<1>4. U64(n) \in Amounts
  BY U64Amount
<1> HIDE DEF u, v
<1>5. x \in Amounts /\ y \in Amounts /\ Le(y, x) /\ Le(x, U64(n))
      /\ y = Fraction(U64(n).num * v.num, U64(n).den * v.den)
  <2>1. Le(U64(n), U64(n))
    BY <1>4, LeReflexive DEF Amounts
  <2> QED
    BY <1>3, <1>4, <2>1, Scale, ScaleMonotone, UnitMultiple
<1>6. y = Fraction(n * (j.den - j.num), j.den)
  BY <1>1, <1>3, <1>5 DEF U64, Fraction
<1>7. AsU64(y) <= d /\ d <= AsU64(U64(n)) /\ d \in 0..U64Max
  BY <1>4, <1>5, CastMonotone, CastRoundsDown
<1>8. AsU64(U64(n)) = n
  BY <1>1, WidthsAssumption DEF AsU64, U64, Fraction
<1>9. AsU64(y) \in Nat /\ n * (j.den - j.num) < (AsU64(y) + 1) * j.den
  BY <1>5, <1>6, CastRoundsDown, WidthsAssumption DEF Fraction
<1> HIDE DEF x, y, d
<1>10. d \in 0..n
  BY <1>1, <1>7, <1>8, WidthsAssumption
<1>11. n * (j.den - j.num) < (d + 1) * j.den
  <2>1. (AsU64(y) + 1) * j.den <= (d + 1) * j.den
    BY <1>1, <1>7, <1>9, <1>10, ProductMonotone
  <2>2. /\ (AsU64(y) + 1) * j.den \in Nat /\ (d + 1) * j.den \in Nat
        /\ n * (j.den - j.num) \in Nat
    BY <1>1, <1>9, <1>10
  <2> QED
    BY <1>9, <2>1, <2>2
<1>12. ASSUME j.num = 0 PROVE d = n
  <2>1. j.den \in Nat /\ d + 1 \in Nat /\ n \in Nat /\ j.den # 0
    BY <1>1, <1>10
  <2>2. n * j.den < (d + 1) * j.den
    BY <1>1, <1>11, <1>12
  <2>3. ~(d + 1 <= n)
    <3> SUFFICES ASSUME d + 1 <= n PROVE FALSE
      OBVIOUS
    <3>1. (d + 1) * j.den <= n * j.den
      BY <2>1, ProductMonotone
    <3>2. (d + 1) * j.den \in Nat /\ n * j.den \in Nat
      BY <2>1
    <3> QED
      BY <2>2, <3>1, <3>2
  <2> QED
    BY <1>1, <1>10, <2>3
<1> QED
  BY <1>10, <1>11, <1>12 DEF d, x, u
=============================================================================
