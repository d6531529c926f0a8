----------------------------- MODULE LadderProofs -----------------------------
(***************************************************************************)
(* For every entry price, all ATRs, every tick size and every number of    *)
(* safety orders: the exchange refuses no rung but at the ends of the      *)
(* ladder, no rung of it turns back or is larger than it must be, and the  *)
(* take profit lies on the winning side.  Where the filters of the         *)
(* exchange are fine enough, the take profit also stays within reach, and  *)
(* the count of the filled rungs errs to one side only.                    *)
(***************************************************************************)
EXTENDS Averaging, SumProofs, SequenceTheorems, TLAPS

-------------------------------------------------------------------------------
(* Rounding *)

\* The quotient is the one of the division with remainder.
LEMMA QuotientBounds ==
  ASSUME NEW a \in Int, NEW d \in Nat \ {0}
  PROVE  /\ a \div d \in Int
         /\ (a \div d) * d <= a
         /\ a < (a \div d) * d + d
  OBVIOUS

LEMMA ScaledOrder ==
  ASSUME NEW p \in Int, NEW q \in Int, NEW d \in Nat \ {0}
  PROVE  /\ p <= q => p * d <= q * d
         /\ p >= 0 => p * d >= 0
  OBVIOUS

\* A larger dividend has no smaller quotient.
LEMMA QuotientMonotone ==
  ASSUME NEW a \in Int, NEW b \in Int, NEW d \in Nat \ {0}, a <= b
  PROVE  a \div d <= b \div d
PROOF
  <1> DEFINE p == a \div d
             q == b \div d
  <1>1. /\ p \in Int /\ q \in Int
        /\ p * d <= a /\ b < q * d + d
    BY QuotientBounds
  <1> HIDE DEF p, q
  <1>2. SUFFICES ASSUME q + 1 <= p PROVE FALSE
    BY <1>1 DEF p, q
  <1>3. (q + 1) * d <= p * d
    BY <1>1, <1>2, ScaledOrder
  <1>4. (q + 1) * d = q * d + d
    BY <1>1
  <1> QED BY <1>1, <1>3, <1>4

LEMMA QuotientOfNat ==
  ASSUME NEW a \in Nat, NEW d \in Nat \ {0}
  PROVE  a \div d \in Nat
PROOF
  <1>1. 0 \div d = 0
    OBVIOUS
  <1> QED BY <1>1, QuotientBounds, QuotientMonotone

\* RoundToTickSize keeps the order of prices.
LEMMA RoundMonotone ==
  ASSUME NEW p \in Int, NEW q \in Int, p <= q
  PROVE  RoundToTick(p) \in Int /\ RoundToTick(q) \in Int /\ RoundToTick(p) <= RoundToTick(q)
PROOF
  <1> DEFINE up(x) == (2 * x + TickSize) \div (2 * TickSize)
             dn(x) == (TickSize - 2 * x) \div (2 * TickSize)
  <1>1. TickSize \in Nat \ {0} /\ 2 * TickSize \in Nat \ {0}
    BY LadderAssumption
  <1>2. ASSUME NEW x \in Int PROVE up(x) \in Int /\ dn(x) \in Int
    BY <1>1, QuotientBounds
  <1>3. ASSUME NEW x \in Nat PROVE up(x) \in Nat
    <2>1. 2 * x + TickSize \in Nat
      BY <1>1
    <2> QED BY <1>1, <2>1, QuotientOfNat
  <1>4. ASSUME NEW x \in Int, x < 0 PROVE dn(x) \in Nat
    <2>1. TickSize - 2 * x \in Nat
      BY <1>1, <1>4
    <2> QED BY <1>1, <2>1, QuotientOfNat
  <1>5. up(p) <= up(q)
    <2>1. 2 * p + TickSize <= 2 * q + TickSize
      BY <1>1
    <2> QED BY <1>1, <2>1, QuotientMonotone
  <1>6. dn(q) <= dn(p)
    <2>1. TickSize - 2 * q <= TickSize - 2 * p
      BY <1>1
    <2> QED BY <1>1, <2>1, QuotientMonotone
  <1>7. /\ RoundToTick(p) = IF p >= 0 THEN up(p) * TickSize ELSE -(dn(p) * TickSize)
        /\ RoundToTick(q) = IF q >= 0 THEN up(q) * TickSize ELSE -(dn(q) * TickSize)
    BY DEF RoundToTick
  <1>8. /\ up(p) \in Int /\ dn(p) \in Int /\ up(q) \in Int /\ dn(q) \in Int
        /\ p >= 0 => up(p) \in Nat
        /\ q >= 0 => up(q) \in Nat
        /\ p < 0 => dn(p) \in Nat
        /\ q < 0 => dn(q) \in Nat
    BY <1>2, <1>3, <1>4
  <1> HIDE DEF up, dn
  <1>9. /\ up(p) * TickSize <= up(q) * TickSize
        /\ dn(q) * TickSize <= dn(p) * TickSize
        /\ p >= 0 => up(p) * TickSize >= 0
        /\ q >= 0 => up(q) * TickSize >= 0
        /\ p < 0 => dn(p) * TickSize >= 0
        /\ q < 0 => dn(q) * TickSize >= 0
        /\ up(p) * TickSize \in Int /\ up(q) * TickSize \in Int
        /\ dn(p) * TickSize \in Int /\ dn(q) * TickSize \in Int
    BY <1>1, <1>5, <1>6, <1>8, ScaledOrder
  <1> QED BY <1>7, <1>9

\* The quotient rounded up.
LEMMA CeilBounds ==
  ASSUME NEW a \in Int, NEW d \in Nat \ {0}
  PROVE  /\ CeilDiv(a, d) \in Int
         /\ CeilDiv(a, d) * d >= a
         /\ (CeilDiv(a, d) - 1) * d < a
PROOF
  <1> DEFINE q == (-a) \div d
  <1>1. q \in Int /\ q * d <= -a /\ -a < q * d + d
    BY QuotientBounds
  <1> HIDE DEF q
  <1>2. (-q) * d = -(q * d) /\ (-q - 1) * d = -(q * d) - d
    BY <1>1
  <1> QED BY <1>1, <1>2 DEF CeilDiv, q

LEMMA MultipleLeavesNothing ==
  ASSUME NEW q \in Int, NEW d \in Nat \ {0}
  PROVE  (q * d) % d = 0
  OBVIOUS

LEMMA RoundIsTick ==
  ASSUME NEW p \in Int
  PROVE  RoundToTick(p) % TickSize = 0
PROOF
  <1> DEFINE up == (2 * p + TickSize) \div (2 * TickSize)
             dn == (TickSize - 2 * p) \div (2 * TickSize)
  <1>1. TickSize \in Nat \ {0} /\ 2 * TickSize \in Nat \ {0}
    BY LadderAssumption
  <1>2. up \in Int /\ dn \in Int
    BY <1>1, QuotientBounds
  <1>3. RoundToTick(p) = IF p >= 0 THEN up * TickSize ELSE -(dn * TickSize)
    BY DEF RoundToTick
  <1> HIDE DEF up, dn
  <1>4. -(dn * TickSize) = (-dn) * TickSize /\ -dn \in Int
    BY <1>1, <1>2
  <1> QED BY <1>1, <1>2, <1>3, <1>4, MultipleLeavesNothing

\* A quantity is rounded up to whole steps, and no further.
LEMMA RoundUpFits ==
  ASSUME NEW num \in Nat \ {0}, NEW den \in Nat \ {0}
  PROVE  LET qty == RoundUpToStep(num, den)
         IN  /\ qty \in Nat \ {0} /\ qty % StepSize = 0
             /\ qty * den >= num
             /\ (qty - StepSize) * den < num
PROOF
  <1> DEFINE d == den * StepSize
             c == CeilDiv(num, d)
  <1>1. StepSize \in Nat \ {0} /\ d \in Nat \ {0}
    BY LadderAssumption
  <1> HIDE DEF d
  <1>2. c \in Int /\ c * d >= num /\ (c - 1) * d < num
    BY <1>1, CeilBounds
  <1>3. RoundUpToStep(num, den) = c * StepSize
    BY DEF RoundUpToStep, d
  <1> HIDE DEF c
  <1>4. c > 0
    <2>1. SUFFICES ASSUME c <= 0 PROVE FALSE
      BY <1>2
    <2>2. c * d <= 0 /\ c * d \in Int
      BY <1>1, <1>2, <2>1
    <2> QED BY <1>2, <2>2
  <1>5. c * StepSize \in Nat \ {0}
    BY <1>1, <1>2, <1>4
  <1>6. (c * StepSize) * den = c * d /\ (c * StepSize - StepSize) * den = (c - 1) * d
    BY <1>1, <1>2 DEF d
  <1>7. (c * StepSize) % StepSize = 0
    BY <1>1, <1>2, MultipleLeavesNothing
  <1> QED BY <1>2, <1>3, <1>5, <1>6, <1>7

-------------------------------------------------------------------------------
(* getFibonacci *)

Fib(n, g) == IF n <= 2 THEN n ELSE g[n - 1] + g[n - 2]

\* g is the sequence up to k.
IsFib(k, g) == \A n \in 0 .. k : g[n] = Fib(n, g)

\* Only the numbers before the one it computes are looked at.
LEMMA FibLooksBack ==
  ASSUME NEW g, NEW h, NEW n \in Nat, \A m \in 0 .. n - 1 : g[m] = h[m]
  PROVE  Fib(n, g) = Fib(n, h)
PROOF
  <1>1. CASE n <= 2
    BY <1>1 DEF Fib
  <1>2. CASE n > 2
    <2>1. n - 1 \in 0 .. n - 1 /\ n - 2 \in 0 .. n - 1
      BY <1>2
    <2> QED BY <2>1 DEF Fib
  <1> QED BY <1>1, <1>2

LEMMA FibExists == \A k \in Nat : \E g : IsFib(k, g)
PROOF
  <1> DEFINE Good == {k \in Nat : \E g : IsFib(k, g)}
  <1>1. 0 \in Good
    <2>1. IsFib(0, [n \in 0 .. 0 |-> 0])
      BY DEF IsFib, Fib
    <2> QED BY <2>1
  <1>2. ASSUME NEW k \in Nat, k \in Good PROVE k + 1 \in Good
    <2>1. PICK g : IsFib(k, g)
      BY <1>2
    <2> DEFINE h == [n \in 0 .. k + 1 |-> Fib(n, g)]
    <2>2. ASSUME NEW n \in 0 .. k + 1 PROVE h[n] = Fib(n, h)
      <3>1. \A m \in 0 .. n - 1 : g[m] = h[m]
        BY <2>1 DEF IsFib
      <3>2. h[n] = Fib(n, g)
        OBVIOUS
      <3> HIDE DEF h
      <3> QED BY <3>1, <3>2, FibLooksBack
    <2> HIDE DEF h
    <2>3. IsFib(k + 1, h)
      BY <2>2 DEF IsFib
    <2> QED BY <2>3
  <1> HIDE DEF Good
  <1> QED BY <1>1, <1>2, NatSetInduction DEF Good

LEMMA FibAgrees ==
  ASSUME NEW k \in Nat, NEW m \in Nat, NEW g, NEW h, IsFib(k, g), IsFib(m, h)
  PROVE  \A n \in 0 .. k : n <= m => g[n] = h[n]
PROOF
  <1> DEFINE Good == {j \in Nat : \A n \in 0 .. j : n <= k /\ n <= m => g[n] = h[n]}
  <1>1. 0 \in Good
    BY DEF IsFib, Fib
  <1>2. ASSUME NEW j \in Nat, j \in Good PROVE j + 1 \in Good
    <2> SUFFICES ASSUME NEW n \in 0 .. j + 1, n <= k, n <= m PROVE g[n] = h[n]
      OBVIOUS
    <2>1. \A l \in 0 .. n - 1 : g[l] = h[l]
      BY <1>2
    <2>2. Fib(n, g) = Fib(n, h)
      BY <2>1, FibLooksBack
    <2>3. n \in 0 .. k /\ n \in 0 .. m
      OBVIOUS
    <2> QED BY <2>2, <2>3 DEF IsFib
  <1> HIDE DEF Good
  <1>3. \A j \in Nat : j \in Good
    BY <1>1, <1>2, NatSetInduction
  <1> QED BY <1>3 DEF Good

\* The recursion of getFibonacci has a solution.
LEMMA FibonacciRecursion == \A n \in Nat : getFibonacci[n] = Fib(n, getFibonacci)
PROOF
  <1> DEFINE Up(k) == CHOOSE g : IsFib(k, g)
             F == [n \in Nat |-> Up(n)[n]]
             G(f) == [n \in Nat |-> IF n <= 2 THEN n ELSE f[n - 1] + f[n - 2]]
  <1>1. ASSUME NEW k \in Nat PROVE IsFib(k, Up(k))
    BY FibExists
  <1> HIDE DEF Up
  <1>2. ASSUME NEW k \in Nat, NEW n \in 0 .. k PROVE Up(k)[n] = F[n]
    <2>1. n \in Nat /\ n \in 0 .. n /\ n <= n
      OBVIOUS
    <2>2. Up(n)[n] = Up(k)[n]
      BY <1>1, <2>1, FibAgrees
    <2> QED BY <2>1, <2>2
  <1>3. ASSUME NEW n \in Nat PROVE F[n] = Fib(n, F)
    <2>1. F[n] = Fib(n, Up(n))
      BY <1>1 DEF IsFib
    <2>2. \A m \in 0 .. n - 1 : Up(n)[m] = F[m]
      BY <1>2
    <2> HIDE DEF F
    <2> QED BY <2>1, <2>2, FibLooksBack
  <1>4. F = G(F)
    <2>1. DOMAIN F = Nat /\ F = [n \in Nat |-> F[n]]
      OBVIOUS
    <2> HIDE DEF F
    <2>2. \A n \in Nat : F[n] = G(F)[n]
      BY <1>3 DEF Fib
    <2> QED BY <2>1, <2>2
  <1>5. getFibonacci = CHOOSE f : f = G(f)
    BY DEF getFibonacci
  <1>6. getFibonacci = G(getFibonacci)
    BY <1>4, <1>5
  <1>7. \A n \in Nat : G(getFibonacci)[n] = Fib(n, getFibonacci)
    BY DEF Fib
  <1> HIDE DEF G
  <1> QED BY <1>6, <1>7

LEMMA FibonacciPositive ==
  \A n \in Nat : getFibonacci[n] \in Nat /\ (n > 0 => getFibonacci[n] > 0)
PROOF
  <1> DEFINE Sized(n) == getFibonacci[n] \in Nat /\ (n > 0 => getFibonacci[n] > 0)
             Good == {j \in Nat : \A n \in 0 .. j : Sized(n)}
  <1>1. 0 \in Good
    BY FibonacciRecursion DEF Fib
  <1>2. ASSUME NEW j \in Nat, j \in Good PROVE j + 1 \in Good
    <2>1. Sized(j + 1)
      <3>1. CASE j + 1 <= 2
        BY <3>1, FibonacciRecursion DEF Fib
      <3>2. CASE j + 1 > 2
        <4>1. Sized(j) /\ Sized(j - 1) /\ j > 0 /\ j - 1 > 0
          BY <1>2, <3>2
        <4>2. getFibonacci[j + 1] = getFibonacci[j] + getFibonacci[j - 1]
          BY <3>2, FibonacciRecursion DEF Fib
        <4> QED BY <4>1, <4>2
      <3> QED BY <3>1, <3>2
    <2> HIDE DEF Sized
    <2> QED BY <1>2, <2>1
  <1> HIDE DEF Good
  <1>3. \A j \in Nat : j \in Good
    BY <1>1, <1>2, NatSetInduction
  <1> QED BY <1>3 DEF Good

-------------------------------------------------------------------------------
(* The size of a rung *)

LEMMA UnitFits ==
  ASSUME entry \in Nat \ {0}, weight \in Nat \ {0}
  PROVE  /\ UnitQty \in Nat \ {0} /\ UnitQty % StepSize = 0
         /\ (UnitQty - StepSize) * entry < MinNotional * weight
PROOF
  <1> DEFINE num == MinNotional * weight
  <1>1. num \in Nat \ {0}
    BY LadderAssumption
  <1> HIDE DEF num
  <1> QED BY <1>1, RoundUpFits DEF UnitQty, num

\* An order is a whole number of steps and reaches MinNotional, and is no larger
\* than one of its reasons asks for.
LEMMA RungFits ==
  ASSUME entry \in Nat \ {0}, weight \in Nat \ {0},
         NEW n \in Nat \ {0}, NEW p \in Nat \ {0}
  PROVE  LET qty  == RungQty(n, p)
             less == qty - StepSize
         IN  /\ qty \in Nat \ {0} /\ qty % StepSize = 0
             /\ p * qty >= MinNotional
             /\ less < UnitQty * getFibonacci[n] \/ less * p < MinNotional
PROOF
  <1> DEFINE f == getFibonacci[n]
             qty == UnitQty * f
             up == RoundUpToStep(MinNotional, p)
  <1>1. StepSize \in Nat \ {0} /\ MinNotional \in Nat \ {0}
    BY LadderAssumption
  <1>2. f \in Nat \ {0}
    BY FibonacciPositive
  <1>3. UnitQty \in Nat \ {0} /\ UnitQty % StepSize = 0
    BY UnitFits
  <1>4. up \in Nat \ {0} /\ up % StepSize = 0 /\ up * p >= MinNotional
        /\ (up - StepSize) * p < MinNotional
    BY <1>1, RoundUpFits
  <1>5. RungQty(n, p) = IF qty * p < MinNotional THEN up ELSE qty
    BY DEF RungQty
  <1> HIDE DEF f, up
  <1>6. qty \in Nat \ {0} /\ qty % StepSize = 0
    <2>1. PICK c \in Int : UnitQty = c * StepSize
      <3>1. UnitQty = (UnitQty \div StepSize) * StepSize /\ UnitQty \div StepSize \in Int
        BY <1>1, <1>3
      <3> QED BY <3>1
    <2>2. qty = (c * f) * StepSize /\ c * f \in Int
      BY <1>1, <1>2, <2>1
    <2>3. ((c * f) * StepSize) % StepSize = 0
      BY <1>1, <2>2, MultipleLeavesNothing
    <2>4. qty \in Nat \ {0}
      BY <1>2, <1>3
    <2> QED BY <2>2, <2>3, <2>4
  <1>7. qty - StepSize < qty /\ qty * p = p * qty /\ up * p = p * up
        /\ qty * p \in Nat
    BY <1>1, <1>4, <1>6
  <1>8. qty = UnitQty * getFibonacci[n]
    BY DEF f
  <1> HIDE DEF qty
  <1>9. CASE qty * p < MinNotional
    BY <1>4, <1>5, <1>7, <1>9
  <1>10. CASE ~(qty * p < MinNotional)
    BY <1>1, <1>5, <1>6, <1>7, <1>8, <1>10
  <1> QED BY <1>9, <1>10

LEMMA ProductOrder ==
  ASSUME NEW a \in Int, NEW b \in Int, a <= b, NEW c \in Nat
  PROVE  a * c <= b * c /\ c * a <= c * b /\ a * c \in Int /\ b * c \in Int
  OBVIOUS

LEMMA Cancels ==
  ASSUME NEW a \in Int, NEW b \in Int, NEW c \in Nat \ {0}, a * c <= b * c
  PROVE  a <= b
PROOF
  <1> SUFFICES ASSUME b + 1 <= a PROVE FALSE
    OBVIOUS
  <1>1. (b + 1) * c <= a * c
    BY ProductOrder
  <1>2. (b + 1) * c = b * c + c /\ b * c \in Int /\ a * c \in Int
    OBVIOUS
  <1> QED BY <1>1, <1>2

\* The order of a rung is its multiple of the unit or, where that is worth less
\* than MinNotional, larger by less than the unit is worth at the entry.
LEMMA RungExceeds ==
  ASSUME entry \in Nat \ {0}, weight \in Nat \ {0},
         NEW n \in Nat \ {0}, NEW p \in Nat \ {0}
  PROVE  LET qty  == RungQty(n, p)
             must == UnitQty * getFibonacci[n]
         IN  /\ qty \in Nat \ {0} /\ must \in Nat /\ must <= qty
             /\ (qty - must) * p <= UnitQty * entry
             /\ getFibonacci[n] * p >= entry => qty = must
             /\ qty # must => (qty - StepSize) * p < MinNotional * weight
PROOF
  <1> DEFINE f == getFibonacci[n]
             must == UnitQty * f
             up == RoundUpToStep(MinNotional, p)
             num == MinNotional * weight
  <1>1. StepSize \in Nat \ {0} /\ MinNotional \in Nat \ {0} /\ num \in Nat \ {0}
        /\ MinNotional <= num
    BY LadderAssumption
  <1>2. f \in Nat \ {0}
    BY FibonacciPositive
  <1> HIDE DEF num
  <1>3. UnitQty \in Nat \ {0} /\ UnitQty % StepSize = 0 /\ UnitQty * entry >= num
    BY <1>1, RoundUpFits DEF UnitQty, num
  <1>4. up \in Nat \ {0} /\ up * p >= MinNotional /\ (up - StepSize) * p < MinNotional
    BY <1>1, RoundUpFits
  <1>5. RungQty(n, p) = IF must * p < MinNotional THEN up ELSE must
    BY DEF RungQty
  <1> HIDE DEF f, up
  <1>6. StepSize <= UnitQty
    BY <1>1, <1>3
  <1>7. must \in Nat \ {0} /\ UnitQty <= must
    <2>1. UnitQty * 1 <= UnitQty * f
      BY <1>2, <1>3, ProductOrder
    <2> QED BY <1>2, <1>3, <2>1
  <1>8. f * p >= entry => must * p >= MinNotional
    <2> SUFFICES ASSUME f * p >= entry PROVE must * p >= MinNotional
      OBVIOUS
    <2>1. UnitQty * entry <= UnitQty * (f * p)
      BY <1>2, <1>3, ProductOrder
    <2>2. UnitQty * (f * p) = must * p /\ UnitQty * entry \in Int /\ must * p \in Int
      BY <1>2, <1>3
    <2> HIDE DEF must
    <2> QED BY <1>1, <1>3, <2>1, <2>2
  <1>9. UnitQty * entry \in Nat
    BY <1>3
  <1> HIDE DEF must
  <1>10. CASE must * p < MinNotional
    <2>1. must <= up
      <3>1. must * p <= up * p
        BY <1>1, <1>4, <1>7, <1>10
      <3> QED BY <1>4, <1>7, <3>1, Cancels
    <2>2. (up - must) * p <= (up - StepSize) * p
      BY <1>1, <1>4, <1>6, <1>7, <1>3, ProductOrder
    <2>3. (up - must) * p \in Int /\ (up - StepSize) * p \in Int
      BY <1>1, <1>4, <1>7
    <2> QED BY <1>1, <1>3, <1>4, <1>5, <1>7, <1>8, <1>9, <1>10, <2>1, <2>2, <2>3
       DEF f, must, num
  <1>11. CASE ~(must * p < MinNotional)
    <2>1. (must - must) * p = 0
      BY <1>7
    <2> QED BY <1>5, <1>7, <1>9, <1>11, <2>1 DEF f, must
  <1> QED BY <1>10, <1>11

-------------------------------------------------------------------------------
(* The walk *)

\* No distance is negative, also where an ATR is missing or the table has ended.
LEMMA DistanceIsNat ==
  ASSUME entry \in Nat, atr \in [Intervals -> Nat], NEW n \in Nat \ {0}
  PROVE  StepDist(n) \in Nat
PROOF
  <1>1. ASSUME NEW t \in Intervals PROVE SafeATR(t) \in Nat
    <2>1. entry \div 100 \in Nat
      BY QuotientOfNat
    <2> QED BY <2>1 DEF SafeATR
  <1>2. /\ SafeATR("30m") \in Nat /\ SafeATR("1h") \in Nat /\ SafeATR("2h") \in Nat
        /\ SafeATR("4h") \in Nat /\ SafeATR("6h") \in Nat /\ SafeATR("8h") \in Nat
        /\ SafeATR("12h") \in Nat /\ SafeATR("1d") \in Nat
    BY <1>1 DEF Intervals
  <1> DEFINE m == IF n <= 9 THEN n ELSE 9
  <1>3. Len(gridDistances) = 9
    BY DEF gridDistances
  <1>4. m \in {1, 2, 3, 4, 5, 6, 7, 8, 9}
    OBVIOUS
  <1>5. StepDist(n) = gridDistances[m]
    BY <1>3 DEF StepDist
  <1> HIDE DEF m
  <1> QED BY <1>2, <1>4, <1>5 DEF gridDistances

\* The orders the ladder can have.
Ticks == {p \in Nat \ {0} : p % TickSize = 0}
Orders == {[rung |-> n, price |-> p, qty |-> RungQty(n, p)] :
             n \in 1 .. MaxSafetyOrders, p \in Ticks}

Refusals == [rung : 1 .. MaxSafetyOrders, price : Int, qty : Nat]

\* Where the loop is: below the entry and below the last order placed when long,
\* above when short.
Walk ==
  /\ direction \in Directions
  /\ entry \in Nat \ {0} /\ weight \in Nat \ {0} /\ atr \in [Intervals -> Nat]
  /\ TickSize <= entry
  /\ i \in 1 .. MaxSafetyOrders + 1
  /\ level \in Int
  /\ placed \in Seq(Orders) /\ Len(placed) < i
  /\ refused \subseteq Refusals
  /\ IF direction = "LONG"
     THEN /\ level <= entry
          /\ placed # <<>> => RoundToTick(level) <= placed[Len(placed)].price
     ELSE /\ level >= entry
          /\ placed # <<>> => RoundToTick(level) >= placed[Len(placed)].price

\* An order has a quantity, though one the exchange refuses may have none to speak of.
LEMMA RungIsNat ==
  ASSUME entry \in Nat \ {0}, weight \in Nat \ {0}, NEW n \in Nat \ {0}, NEW p \in Int
  PROVE  RungQty(n, p) \in Nat
PROOF
  <1>1. CASE p > 0
    <2>1. p \in Nat \ {0}
      BY <1>1
    <2> QED BY <2>1, RungFits
  <1>2. CASE p <= 0
    BY <1>2 DEF RungQty
  <1> QED BY <1>1, <1>2

LEMMA InitWalk == Init => Walk /\ AwayFromEntry
PROOF
  <1> SUFFICES ASSUME Init PROVE Walk /\ AwayFromEntry
    OBVIOUS
  <1>1. <<>> \in Seq(Orders)
    BY EmptySeq
  <1>2. entry \in Nat \ {0} /\ weight \in Nat \ {0} /\ atr \in [Intervals -> Nat]
        /\ TickSize <= entry
    BY LadderAssumption DEF Init
  <1>4. 1 \in 1 .. MaxSafetyOrders + 1
    BY LadderAssumption
  <1>3. Walk
    BY <1>1, <1>2, <1>4, EmptySeq DEF Init, Walk
  <1> QED BY <1>3 DEF Init, AwayFromEntry

LEMMA NextWalk == Walk /\ AwayFromEntry /\ [Next]_vars => Walk' /\ AwayFromEntry'
PROOF
  <1> SUFFICES ASSUME Walk, AwayFromEntry, [Next]_vars
               PROVE  Walk' /\ AwayFromEntry'
    OBVIOUS
  <1>1. CASE UNCHANGED vars
    <2>1. Orders' = Orders
      BY <1>1 DEF vars, Orders, RungQty, UnitQty
    <2> QED BY <1>1, <2>1 DEF vars, Walk, AwayFromEntry, RoundToTick
  <1>2. CASE Rung
    <2> DEFINE price == RoundToTick(level')
               order == [rung |-> i, price |-> price, qty |-> RungQty(i, price)]
    <2>1. /\ UNCHANGED <<direction, entry, weight, atr>> /\ i' = i + 1
          /\ level' = NextLevel(i)
          /\ placed' = IF Takes(order) THEN Append(placed, order) ELSE placed
          /\ refused' = IF Takes(order) THEN refused ELSE refused \cup {order}
          /\ Takes(order) => price > 0
      BY <1>2 DEF Rung, Takes
    <2>2. Orders' = Orders
      BY <2>1 DEF Orders, RungQty, UnitQty
    <2>3. /\ direction \in Directions /\ entry \in Nat /\ level \in Int
          /\ i \in Nat \ {0} /\ placed \in Seq(Orders) /\ Len(placed) < i
          /\ weight \in Nat \ {0} /\ entry # 0 /\ atr \in [Intervals -> Nat]
          /\ StepDist(i) \in Nat
      BY DistanceIsNat DEF Walk
    <2>9. i \in 1 .. MaxSafetyOrders /\ i + 1 \in 1 .. MaxSafetyOrders + 1
      BY <1>2, LadderAssumption DEF Rung, Walk
    <2>10. price \in Int /\ price % TickSize = 0
      <3>1. level' \in Int /\ level' <= level'
        BY <2>1, <2>3 DEF NextLevel
      <3> QED BY <3>1, RoundMonotone, RoundIsTick
    <2>4. /\ level' \in Int
          /\ IF direction = "LONG" THEN level' <= level ELSE level <= level'
      BY <2>1, <2>3 DEF NextLevel
    <2>5. /\ price \in Int /\ RoundToTick(level) \in Int /\ RoundToTick(entry) \in Int
          /\ IF direction = "LONG"
             THEN price <= RoundToTick(level) /\ price <= RoundToTick(entry)
             ELSE RoundToTick(level) <= price /\ RoundToTick(entry) <= price
      <3>0. entry \in Int
        BY <2>3
      <3>1. CASE direction = "LONG"
        <4>1. level' <= entry
          BY <2>3, <2>4, <3>1 DEF Walk
        <4>2. /\ RoundToTick(level') \in Int /\ RoundToTick(level) \in Int
              /\ RoundToTick(level') <= RoundToTick(level)
          BY <2>3, <2>4, <3>1, RoundMonotone
        <4>3. /\ RoundToTick(entry) \in Int
              /\ RoundToTick(level') <= RoundToTick(entry)
          BY <2>4, <3>0, <4>1, RoundMonotone
        <4> QED BY <3>1, <4>2, <4>3
      <3>2. CASE direction # "LONG"
        <4>1. entry <= level'
          BY <2>3, <2>4, <3>2 DEF Walk
        <4>2. /\ RoundToTick(level') \in Int /\ RoundToTick(level) \in Int
              /\ RoundToTick(level) <= RoundToTick(level')
          BY <2>3, <2>4, <3>2, RoundMonotone
        <4>3. /\ RoundToTick(entry) \in Int
              /\ RoundToTick(entry) <= RoundToTick(level')
          BY <2>4, <3>0, <4>1, RoundMonotone
        <4> QED BY <3>2, <4>2, <4>3
      <3> QED BY <3>1, <3>2
    <2>6. IF direction = "LONG" THEN level' <= entry ELSE level' >= entry
      BY <2>3, <2>4 DEF Walk
    <2>11. refused' \subseteq Refusals
      <3>1. order \in Refusals
        <4>1. RungQty(i, price) \in Nat
          BY <2>3, <2>10, RungIsNat
        <4> HIDE DEF price
        <4> QED BY <2>9, <2>10, <4>1 DEF Refusals
      <3> HIDE DEF order
      <3> QED BY <2>1, <3>1 DEF Walk
    <2> HIDE DEF price, order
    <2>7. CASE ~Takes(order)
      <3>1. placed' = placed
        BY <2>1, <2>7
      <3>2. placed # <<>> => placed[Len(placed)].price \in Int
        BY <2>3, EmptySeq, ElementOfSeq DEF Orders, Ticks
      <3>5. Len(placed) \in Nat
        BY <2>3, LenProperties
      <3>3. Walk'
        BY <2>1, <2>2, <2>3, <2>4, <2>5, <2>6, <2>9, <2>11, <3>1, <3>2, <3>5
        DEF Walk, price, Refusals
      <3>4. AwayFromEntry'
        BY <2>1, <3>1 DEF AwayFromEntry, RoundToTick
      <3> QED BY <3>3, <3>4
    <2>8. CASE Takes(order)
      <3>1. order \in Orders /\ order.price = price
        BY <2>1, <2>5, <2>8, <2>9, <2>10 DEF Orders, Ticks, order
      <3>2. placed' = Append(placed, order)
        BY <2>1, <2>8
      <3>3. /\ placed' \in Seq(Orders) /\ Len(placed') = Len(placed) + 1
            /\ \A k \in 1 .. Len(placed) : placed'[k] = placed[k]
            /\ placed'[Len(placed) + 1] = order
        BY <2>3, <3>1, <3>2, AppendProperties
      <3>4. /\ Len(placed) \in Nat /\ DOMAIN placed = 1 .. Len(placed)
            /\ DOMAIN placed' = 1 .. Len(placed')
        BY <2>3, <3>3, LenProperties
      <3>5. Walk'
        BY <2>1, <2>2, <2>3, <2>4, <2>5, <2>6, <2>9, <2>11, <3>1, <3>3, <3>4
        DEF Walk, price, Refusals
      <3>6. ASSUME NEW k \in DOMAIN placed'
            PROVE  LET before == IF k = 1 THEN RoundToTick(entry) ELSE placed'[k - 1].price
                   IN  IF direction = "LONG" THEN placed'[k].price <= before
                                             ELSE placed'[k].price >= before
        <4>1. CASE k \in DOMAIN placed
          BY <3>3, <3>4, <4>1 DEF AwayFromEntry
        <4>2. CASE k = Len(placed) + 1 /\ k = 1
          BY <2>5, <3>1, <3>3, <4>2
        <4>3. CASE k = Len(placed) + 1 /\ k # 1
          <5>1. /\ placed # <<>> /\ Len(placed) \in 1 .. Len(placed)
                /\ placed'[k - 1] = placed[Len(placed)]
            BY <2>3, <3>3, <3>4, <4>3, EmptySeq
          <5>2. placed[Len(placed)].price \in Int
            BY <2>3, <5>1, ElementOfSeq DEF Orders, Ticks
          <5> QED BY <2>5, <3>1, <3>3, <4>3, <5>1, <5>2 DEF Walk
        <4> QED BY <3>3, <3>4, <4>1, <4>2, <4>3
      <3>7. AwayFromEntry'
        BY <2>1, <3>6 DEF AwayFromEntry, RoundToTick
      <3> QED BY <3>5, <3>7
    <2> QED BY <2>7, <2>8
  <1> QED BY <1>1, <1>2 DEF Next

LEMMA SpecWalk == Spec => [](Walk /\ AwayFromEntry)
  BY InitWalk, NextWalk, PTL DEF Spec

\* No rung of a ladder lies on the winning side of the one before, whatever the
\* ATRs are, which of them are missing and how coarse the ticks (the loop of
\* placeGridOrders).
THEOREM RungsMoveAway == Spec => []AwayFromEntry
  BY SpecWalk, PTL

\* What happens to a standing ladder is no step of it.
LEMMA StandingWalk == AveragingSpec => [](Walk /\ AwayFromEntry)
PROOF
  <1>1. AveragingInit => Init
    BY DEF AveragingInit
  <1>2. [AveragingNext]_avars => [Next]_vars
    BY DEF AveragingNext, PlaceRung, Fill, Next, avars
  <1> QED BY <1>1, <1>2, InitWalk, NextWalk, PTL DEF AveragingSpec

\* ... and the fills of a standing ladder change nothing about it.
THEOREM RungsStayAway == AveragingSpec => []AwayFromEntry
  BY StandingWalk, PTL

\* An order of the ladder, with the price and the size of its rung.
LEMMA OrderPlaced ==
  ASSUME Walk, NEW k \in DOMAIN placed
  PROVE  /\ placed[k].rung \in 1 .. MaxSafetyOrders
         /\ placed[k].price \in Ticks
         /\ placed[k].qty = RungQty(placed[k].rung, placed[k].price)
PROOF
  <1>1. placed \in Seq(Orders) /\ k \in 1 .. Len(placed)
    BY LenProperties DEF Walk
  <1>2. placed[k] \in Orders
    BY <1>1, ElementOfSeq
  <1> QED BY <1>2 DEF Orders

LEMMA WalkNotOversized == Walk => NotOversized
PROOF
  <1> SUFFICES ASSUME Walk PROVE NotOversized
    OBVIOUS
  <1>1. entry \in Nat \ {0} /\ weight \in Nat \ {0}
    BY DEF Walk
  <1>2. ASSUME NEW k \in DOMAIN placed
        PROVE  LET less == placed[k].qty - StepSize
               IN  \/ less < UnitQty * getFibonacci[placed[k].rung]
                   \/ less * placed[k].price < MinNotional
    <2> DEFINE n == placed[k].rung
               p == placed[k].price
    <2>1. n \in 1 .. MaxSafetyOrders /\ p \in Ticks /\ placed[k].qty = RungQty(n, p)
      BY OrderPlaced
    <2> HIDE DEF n, p
    <2>2. n \in Nat \ {0} /\ p \in Nat \ {0}
      BY <2>1 DEF Ticks
    <2> QED BY <1>1, <2>1, <2>2, RungFits DEF n, p
  <1> QED BY <1>1, <1>2, UnitFits DEF NotOversized

\* No order is a step larger than the unit, the Fibonacci multiple or
\* MinNotional asks for: the roundings of a quantity do not add up
\* (placeGridOrders, RoundUpToTickSize).
THEOREM LadderIsNotOversized == AveragingSpec => []NotOversized
  BY StandingWalk, WalkNotOversized, PTL

LEMMA WalkTypes == Walk => TypeOK
PROOF
  <1> SUFFICES ASSUME Walk PROVE TypeOK
    OBVIOUS
  <1> DEFINE Record == [rung : 1 .. MaxSafetyOrders, price : Nat \ {0}, qty : Nat \ {0}]
  <1>1. entry \in Nat \ {0} /\ weight \in Nat \ {0} /\ placed \in Seq(Orders)
    BY DEF Walk
  <1>2. ASSUME NEW o \in Orders PROVE o \in Record
    <2>1. PICK n \in 1 .. MaxSafetyOrders, p \in Ticks :
            o = [rung |-> n, price |-> p, qty |-> RungQty(n, p)]
      BY DEF Orders
    <2>2. n \in Nat \ {0} /\ p \in Nat \ {0}
      BY DEF Ticks
    <2>3. RungQty(n, p) \in Nat \ {0}
      BY <1>1, <2>2, RungFits
    <2> QED BY <2>1, <2>2, <2>3
  <1> HIDE DEF Record
  <1>3. placed \in Seq(Record)
    <2>1. /\ Len(placed) \in Nat
          /\ \A k \in 1 .. Len(placed) : placed[k] \in Record
          /\ placed = [k \in 1 .. Len(placed) |-> placed[k]]
      BY <1>1, <1>2, LenProperties, ElementOfSeq
    <2> QED BY <2>1, IsASeq
  <1> QED BY <1>3 DEF Walk, TypeOK, Record, Refusals

\* The ladder is a sequence of orders with a positive price and quantity.
THEOREM LadderTypes == Spec => []TypeOK
  BY SpecWalk, WalkTypes, PTL

-------------------------------------------------------------------------------
(* The take profit *)

\* There is a position, and it cost something.
Held == amt \in Nat \ {0} /\ cost \in Nat \ {0} /\ filled \in 0 .. Len(placed)

LEMMA InitHeld == AveragingInit => Held
PROOF
  <1> SUFFICES ASSUME AveragingInit PROVE Held
    OBVIOUS
  <1>1. entry \in Nat \ {0} /\ weight \in Nat \ {0} /\ placed = <<>> /\ filled = 0
        /\ cost = amt * entry
    BY LadderAssumption DEF AveragingInit, Init
  <1>2. PICK slip \in Slips : amt \in {BaseQty(entry - slip), BaseQty(entry + slip)}
    BY DEF AveragingInit
  <1>3. ASSUME NEW price \in Nat \ {0} PROVE BaseQty(price) \in Nat \ {0}
    <2> DEFINE qty == RoundUpToStep(MinNotional * weight, price)
               num == MinNotional * weight
    <2>1. num \in Nat \ {0}
      BY <1>1, LadderAssumption
    <2> HIDE DEF num
    <2>2. qty \in Nat \ {0}
      BY <2>1, RoundUpFits DEF num
    <2> HIDE DEF qty
    <2>3. MinQty \in Nat
      BY LadderAssumption
    <2>4. \E x \in {qty, MinQty} : \A y \in {qty, MinQty} : x >= y
      BY <2>2, <2>3
    <2>5. /\ Max({qty, MinQty}) \in {qty, MinQty}
          /\ \A y \in {qty, MinQty} : Max({qty, MinQty}) >= y
      BY <2>4 DEF Max
    <2> QED BY <2>2, <2>3, <2>5 DEF BaseQty, qty
  <1>4. entry - slip \in Nat \ {0} /\ entry + slip \in Nat \ {0}
    <2>1. entry \in Entries
      BY DEF AveragingInit, Init
    <2>2. slip \in Nat /\ slip < entry
      BY <2>1, AveragingAssumption
    <2> QED BY <1>1, <2>2
  <1>5. amt \in Nat \ {0}
    BY <1>2, <1>3, <1>4
  <1>6. amt * entry \in Nat \ {0}
    BY <1>1, <1>5
  <1> QED BY <1>1, <1>5, <1>6, EmptySeq DEF Held

LEMMA NextHeld == Walk /\ Held /\ [AveragingNext]_avars => Held'
PROOF
  <1> SUFFICES ASSUME Walk, Held, [AveragingNext]_avars PROVE Held'
    OBVIOUS
  <1>1. placed \in Seq(Orders) /\ Len(placed) \in Nat
    BY LenProperties DEF Walk
  <1>2. CASE UNCHANGED avars
    BY <1>2 DEF avars, vars, Held
  <1>3. CASE PlaceRung
    <2>1. UNCHANGED <<amt, cost, filled>>
      BY <1>3 DEF PlaceRung
    <2>2. Len(placed') >= Len(placed) /\ Len(placed') \in Nat
      <3>1. CASE placed' = placed
        BY <1>1, <3>1
      <3>2. CASE placed' # placed
        <4> DEFINE price == RoundToTick(NextLevel(i))
                   o == [rung |-> i, price |-> price, qty |-> RungQty(i, price)]
        <4>1. placed' = Append(placed, o)
          BY <1>3, <3>2 DEF PlaceRung, Rung
        <4>2. placed \in Seq(Orders \cup {o}) /\ o \in Orders \cup {o}
          <5>1. \A k \in 1 .. Len(placed) : placed[k] \in Orders
            BY <1>1, ElementOfSeq
          <5>2. placed = [k \in 1 .. Len(placed) |-> placed[k]]
            BY <1>1, LenProperties
          <5> HIDE DEF o
          <5> QED BY <1>1, <5>1, <5>2, IsASeq
        <4> HIDE DEF o
        <4>3. Len(Append(placed, o)) = Len(placed) + 1
          BY <4>2, AppendProperties
        <4> QED BY <1>1, <4>1, <4>3
      <3> QED BY <3>1, <3>2
    <2> QED BY <1>1, <2>1, <2>2 DEF Held
  <1>4. CASE Fill
    <2> DEFINE k == filled + 1
               q == placed[k].qty
               p == placed[k].price
    <2>1. /\ filled < Len(placed) /\ filled' = k /\ placed' = placed
          /\ amt' = amt + q /\ cost' = cost + q * p
      BY <1>4 DEF Fill, vars
    <2>2. k \in DOMAIN placed /\ k \in 0 .. Len(placed)
      BY <1>1, <2>1, LenProperties DEF Held
    <2>3. p \in Nat \ {0} /\ q \in Nat \ {0}
      <3> DEFINE n == placed[k].rung
      <3>1. n \in 1 .. MaxSafetyOrders /\ p \in Ticks /\ q = RungQty(n, p)
        BY <2>2, OrderPlaced
      <3> HIDE DEF n, p, q
      <3>2. n \in Nat \ {0} /\ p \in Nat \ {0} /\ entry \in Nat \ {0} /\ weight \in Nat \ {0}
        BY <3>1 DEF Ticks, Walk
      <3> QED BY <3>1, <3>2, RungFits
    <2> HIDE DEF k, q, p
    <2>4. q * p \in Nat
      BY <2>3
    <2> QED BY <2>1, <2>2, <2>3, <2>4 DEF Held
  <1> QED BY <1>2, <1>3, <1>4 DEF AveragingNext

LEMMA HeldNeverAtALoss == Held /\ Walk => NeverAtALoss
PROOF
  <1> SUFFICES ASSUME Held, Walk, FineTicks
               PROVE  IF direction = "LONG" THEN TPPrice * amt >= cost
                                            ELSE TPPrice * amt <= cost
    BY DEF NeverAtALoss
  <1> DEFINE T == TickSize
             a == TPATR
             num == IF direction = "LONG" THEN cost + a * amt ELSE cost - a * amt
             d == 2 * amt * T
             q == (2 * num + amt * T) \div d
  <1>1. amt \in Nat \ {0} /\ cost \in Nat \ {0} /\ T \in Nat \ {0}
    BY LadderAssumption DEF Held
  <1>2. a \in Int
    <2>1. 100 * amt \in Nat \ {0}
      BY <1>1
    <2>2. cost \div (100 * amt) \in Int
      BY <1>1, <2>1, QuotientBounds
    <2>3. atr["30m"] \in Int
      BY DEF Walk, Intervals
    <2> QED BY <2>2, <2>3 DEF TPATR
  <1>3. 2 * a >= T
    BY DEF FineTicks
  <1>4. TPPrice = q * T
    BY DEF TPPrice, RoundToTickOf
  <1> HIDE DEF a, T
  <1>5. a * amt \in Int /\ amt * T \in Int /\ (2 * a) * amt >= T * amt
    BY <1>1, <1>2, <1>3, ScaledOrder
  <1>6. num \in Int /\ 2 * num + amt * T \in Int /\ d \in Nat \ {0}
    BY <1>1, <1>5
  <1>7. q \in Int /\ q * d <= 2 * num + amt * T /\ 2 * num + amt * T < q * d + d
    BY <1>6, QuotientBounds
  <1> HIDE DEF q
  <1>8. q * d = 2 * ((q * T) * amt) /\ d = 2 * (amt * T) /\ (q * T) * amt \in Int
        /\ T * amt = amt * T /\ (2 * a) * amt = 2 * (a * amt)
    BY <1>1, <1>2, <1>7
  <1> HIDE DEF d
  <1> DEFINE x == (q * T) * amt
             y == amt * T
             z == a * amt
  <1>9. /\ x \in Int /\ y \in Int /\ z \in Int /\ cost \in Int
        /\ 2 * x <= 2 * num + y /\ 2 * num + y < 2 * x + 2 * y
        /\ 2 * z >= y
        /\ num = IF direction = "LONG" THEN cost + z ELSE cost - z
        /\ TPPrice * amt = x
    BY <1>1, <1>4, <1>5, <1>7, <1>8
  <1> HIDE DEF x, y, z
  <1> QED BY <1>9

\* However many rungs were filled at whatever prices, the take profit lies at
\* the average or on its winning side, unless a tick is more than twice as large
\* as the distance of the take profit (updateTP).
THEOREM TakesAProfit == AveragingSpec => []NeverAtALoss
PROOF
  <1>1. Walk /\ Held /\ Walk' /\ [AveragingNext]_avars => Held'
    BY NextHeld
  <1>2. Held /\ Walk => NeverAtALoss
    BY HeldNeverAtALoss
  <1> QED BY <1>1, <1>2, InitHeld, StandingWalk, PTL DEF AveragingSpec

-------------------------------------------------------------------------------
(* Where the rungs are *)

Known == entry \in Nat \ {0} /\ atr \in [Intervals -> Nat]

Dist == [n \in Nat \ {0} |-> StepDist(n)]

\* How far the first n rungs are from the entry.
Walked(n) == Sum(Dist, 1 .. n)

LevelAt(n) == IF direction = "LONG" THEN entry - Walked(n) ELSE entry + Walked(n)

\* One more rung adds its distance.
LEMMA SumGrows ==
  ASSUME NEW f, \A k \in Nat \ {0} : f[k] \in Int, NEW n \in Nat
  PROVE  /\ Sum(f, 1 .. n + 1) = Sum(f, 1 .. n) + f[n + 1]
         /\ Sum(f, 1 .. n) \in Int
PROOF
  <1> DEFINE S == 1 .. n
  <1>0. n + 1 \notin S /\ S \cup {n + 1} = 1 .. n + 1
    OBVIOUS
  <1>1. IsFiniteSet(S) /\ n + 1 \notin S /\ S \cup {n + 1} = 1 .. n + 1
    BY <1>0, FS_Interval
  <1>2. (\A k \in S : f[k] \in Int) /\ f[n + 1] \in Int
    OBVIOUS
  <1> HIDE DEF S
  <1>3. Sum(f, S \cup {n + 1}) = f[n + 1] + Sum(f, S)
    BY <1>1, <1>2, SumAdd
  <1>4. Sum(f, S) \in Int
    BY <1>1, <1>2, SumIsInt
  <1>5. f[n + 1] + Sum(f, S) = Sum(f, S) + f[n + 1]
    BY <1>2, <1>4
  <1> QED BY <1>1, <1>3, <1>4, <1>5 DEF S

LEMMA Distances ==
  ASSUME Known, NEW n \in Nat \ {0}
  PROVE  Dist[n] \in Nat
  BY DistanceIsNat DEF Known, Dist

\* Where the loop is and what it has placed when a unit is an order: every rung so
\* far, unless a long ladder has come down to zero.
Rungs ==
  /\ TickSize <= entry /\ MinQty <= UnitQty
  /\ level = LevelAt(i - 1)
  /\ RoundToTick(level) > 0 => Len(placed) = i - 1
  /\ \A k \in DOMAIN placed :
       placed[k].rung = k /\ placed[k].price = RoundToTick(LevelAt(k))

LEMMA WalkKnown == Walk => Known
  BY DEF Walk, Known

LEMMA InitRungs == MinQty <= UnitQty /\ Init => Rungs
PROOF
  <1> SUFFICES ASSUME MinQty <= UnitQty, Init PROVE Rungs
    OBVIOUS
  <1>1. Walked(0) = 0
    <2>1. 1 .. 0 = {}
      OBVIOUS
    <2> QED BY <2>1, SumEmpty DEF Walked
  <1>2. entry \in Nat /\ i = 1 /\ level = entry /\ placed = <<>> /\ TickSize <= entry
    BY LadderAssumption DEF Init
  <1>3. level = LevelAt(i - 1)
    BY <1>1, <1>2 DEF LevelAt
  <1>4. Len(placed) = 0 /\ DOMAIN placed = {}
    BY <1>2, EmptySeq
  <1> QED BY <1>2, <1>3, <1>4 DEF Rungs

LEMMA NextRungs == Walk /\ Rungs /\ [Next]_vars => Rungs'
PROOF
  <1> SUFFICES ASSUME Walk, Rungs, [Next]_vars PROVE Rungs'
    OBVIOUS
  <1>0. ASSUME UNCHANGED <<direction, entry, atr>> PROVE \A n : LevelAt(n)' = LevelAt(n)
    BY <1>0 DEF LevelAt, Walked, Dist, StepDist, gridDistances, SafeATR
  <1>1. CASE UNCHANGED vars
    <2>1. UNCHANGED <<direction, entry, atr, i, level, placed>>
      BY <1>1 DEF vars
    <2>2. LevelAt(i - 1)' = LevelAt(i - 1) /\ \A n : LevelAt(n)' = LevelAt(n)
      BY <1>0, <2>1 DEF LevelAt, Walked, Dist, StepDist, gridDistances, SafeATR
    <2>3. UnitQty' = UnitQty
      BY <1>1 DEF vars, UnitQty
    <2> QED BY <2>1, <2>2, <2>3 DEF Rungs, RoundToTick
  <1>2. CASE Rung
    <2> DEFINE price == RoundToTick(level')
               order == [rung |-> i, price |-> price, qty |-> RungQty(i, price)]
    <2>1. /\ UNCHANGED <<direction, entry, weight, atr>> /\ i' = i + 1
          /\ level' = NextLevel(i)
          /\ placed' = IF Takes(order) THEN Append(placed, order) ELSE placed
          /\ refused' = IF Takes(order) THEN refused ELSE refused \cup {order}
          /\ Takes(order) => price > 0
      BY <1>2 DEF Rung, Takes
    <2>2. /\ Known /\ i \in Nat \ {0} /\ i - 1 \in Nat /\ i - 1 + 1 = i
          /\ level \in Int /\ placed \in Seq(Orders) /\ entry \in Int /\ TickSize <= entry
      BY WalkKnown DEF Walk, Rungs
    <2>3. level' = LevelAt(i)
      <3>1. \A l \in Nat \ {0} : Dist[l] \in Int
        BY <2>2, Distances
      <3>2. Walked(i) = Walked(i - 1) + Dist[i] /\ Walked(i - 1) \in Int /\ Dist[i] \in Int
        BY <2>2, <3>1, SumGrows DEF Walked
      <3>3. Dist[i] = StepDist(i)
        BY <2>2 DEF Dist
      <3>4. level = LevelAt(i - 1)
        BY DEF Rungs
      <3> QED BY <2>1, <2>2, <3>2, <3>3, <3>4 DEF LevelAt, NextLevel
    <2>4. \A n : LevelAt(n)' = LevelAt(n)
      BY <1>0, <2>1
    <2>5. (level = LevelAt(i - 1))'
      <3>1. i' - 1 = i
        BY <2>1, <2>2
      <3>2. Dist' = Dist
        BY <2>1 DEF Dist, StepDist, gridDistances, SafeATR
      <3>3. LevelAt(i - 1)' = LevelAt(i)
        BY <2>1, <3>1, <3>2 DEF LevelAt, Walked
      <3> QED BY <2>3, <3>3
    <2>6. level' \in Int
      <3>1. StepDist(i) \in Nat
        BY <2>2, DistanceIsNat DEF Known
      <3> QED BY <2>1, <2>2, <3>1 DEF NextLevel
    <2>7. price > 0 => RoundToTick(level) > 0
      <3>1. CASE direction = "LONG"
        <4>1. StepDist(i) \in Nat
          BY <2>2, DistanceIsNat DEF Known
        <4>2. level' <= level
          BY <2>1, <2>2, <3>1, <4>1 DEF NextLevel
        <4>3. /\ RoundToTick(level') \in Int /\ RoundToTick(level) \in Int
              /\ RoundToTick(level') <= RoundToTick(level)
          BY <2>2, <2>6, <4>2, RoundMonotone
        <4> QED BY <4>3
      <3>2. CASE direction # "LONG"
        <4>1. TickSize <= level /\ TickSize \in Int
          BY <2>2, <3>2, LadderAssumption DEF Walk
        <4>2. /\ RoundToTick(TickSize) \in Int /\ RoundToTick(level) \in Int
              /\ RoundToTick(TickSize) <= RoundToTick(level)
          BY <2>2, <4>1, RoundMonotone
        <4>3. RoundToTick(TickSize) > 0
          <5> DEFINE q == (2 * TickSize + TickSize) \div (2 * TickSize)
          <5>1. TickSize \in Nat \ {0} /\ 2 * TickSize \in Nat \ {0}
                /\ 2 * TickSize + TickSize \in Int
            BY LadderAssumption
          <5>2. q \in Int /\ 2 * TickSize + TickSize < q * (2 * TickSize) + 2 * TickSize
            BY <5>1, QuotientBounds
          <5>3. RoundToTick(TickSize) = q * TickSize
            BY <5>1 DEF RoundToTick
          <5> HIDE DEF q
          <5>4. q * (2 * TickSize) = 2 * (q * TickSize) /\ q * TickSize \in Int
            BY <5>1, <5>2
          <5> QED BY <5>1, <5>2, <5>3, <5>4
        <4> QED BY <4>2, <4>3
      <3> QED BY <3>1, <3>2
    <2>10. price > 0 => Takes(order)
      <3> SUFFICES ASSUME price > 0 PROVE Takes(order)
        OBVIOUS
      <3>1. price \in Int /\ price % TickSize = 0
        BY <2>6, RoundMonotone, RoundIsTick
      <3>2. price \in Nat \ {0} /\ entry \in Nat \ {0} /\ weight \in Nat \ {0}
        BY <3>1 DEF Walk
      <3> DEFINE q == RungQty(i, price)
      <3>3. MinQty <= UnitQty
        BY DEF Rungs
      <3> HIDE DEF price
      <3>4. /\ q \in Nat \ {0} /\ q % StepSize = 0 /\ price * q >= MinNotional
            /\ UnitQty * getFibonacci[i] <= q /\ UnitQty \in Nat \ {0}
        BY <2>2, <3>2, RungFits, RungExceeds, UnitFits
      <3>5. UnitQty * 1 <= UnitQty * getFibonacci[i] /\ UnitQty * getFibonacci[i] \in Int
        <4>1. getFibonacci[i] \in Nat /\ 1 <= getFibonacci[i]
          BY <2>2, FibonacciPositive
        <4> QED BY <3>4, <4>1, ProductOrder
      <3>6. MinQty <= q
        <4>1. MinQty \in Int /\ UnitQty * 1 = UnitQty
          BY <3>4, LadderAssumption
        <4> HIDE DEF q
        <4> QED BY <3>3, <3>4, <3>5, <4>1
      <3> QED BY <3>1, <3>4, <3>6 DEF Takes
    <2> HIDE DEF price, order
    <2>11. UnitQty' = UnitQty
      BY <2>1 DEF UnitQty
    <2>8. CASE ~(price > 0)
      <3>1. placed' = placed
        BY <2>1, <2>8
      <3>2. ~(RoundToTick(level)' > 0)
        BY <2>8 DEF price, RoundToTick
      <3>3. \A k \in DOMAIN placed' :
              placed'[k].rung = k /\ placed'[k].price = RoundToTick(LevelAt(k))'
        BY <2>4, <3>1 DEF Rungs, RoundToTick
      <3> QED BY <2>1, <2>2, <2>5, <2>11, <3>2, <3>3 DEF Rungs
    <2>9. CASE price > 0
      <3>1. placed' = Append(placed, order) /\ order.price = price /\ order.rung = i
        BY <2>1, <2>9, <2>10 DEF order
      <3>2. /\ Len(placed) \in Nat /\ DOMAIN placed = 1 .. Len(placed)
            /\ Len(placed) = i - 1
        BY <2>2, <2>7, <2>9, LenProperties DEF Rungs
      <3>3. /\ Len(placed') = Len(placed) + 1 /\ DOMAIN placed' = 1 .. Len(placed')
            /\ \A k \in 1 .. Len(placed) : placed'[k] = placed[k]
            /\ placed'[i] = order
        <4>1. placed \in Seq(Orders \cup {order}) /\ order \in Orders \cup {order}
          <5>1. \A k \in 1 .. Len(placed) : placed[k] \in Orders
            BY <2>2, ElementOfSeq
          <5>2. placed = [k \in 1 .. Len(placed) |-> placed[k]]
            BY <2>2, LenProperties
          <5> QED BY <3>2, <5>1, <5>2, IsASeq
        <4>2. /\ Append(placed, order) \in Seq(Orders \cup {order})
              /\ Len(Append(placed, order)) = Len(placed) + 1
              /\ \A k \in 1 .. Len(placed) : Append(placed, order)[k] = placed[k]
              /\ Append(placed, order)[Len(placed) + 1] = order
          BY <4>1, AppendProperties
        <4>3. DOMAIN placed' = 1 .. Len(placed')
          BY <3>1, <4>2, LenProperties
        <4> QED BY <2>2, <3>1, <3>2, <4>2, <4>3
      <3>4. ASSUME NEW k \in DOMAIN placed'
            PROVE  placed'[k].rung = k /\ placed'[k].price = RoundToTick(LevelAt(k))'
        <4>1. CASE k \in 1 .. Len(placed)
          BY <2>4, <3>2, <3>3, <4>1 DEF Rungs, RoundToTick
        <4>2. CASE k = i
          <5>1. RoundToTick(LevelAt(k))' = RoundToTick(LevelAt(k)')
            BY DEF RoundToTick
          <5> QED BY <2>3, <2>4, <3>1, <3>3, <4>2, <5>1 DEF price
        <4> QED BY <2>2, <3>2, <3>3, <4>1, <4>2
      <3>5. Len(placed') = i' - 1
        BY <2>1, <2>2, <3>2, <3>3
      <3> QED BY <2>1, <2>2, <2>5, <2>11, <3>4, <3>5 DEF Rungs
    <2> QED BY <2>8, <2>9
  <1> QED BY <1>1, <1>2 DEF Next

-------------------------------------------------------------------------------
(* What the rungs buy *)

\* Numbers of getFibonacci grow by the one before the last, and at least by one.
LEMMA FibonacciGrows ==
  ASSUME NEW n \in Nat
  PROVE  /\ getFibonacci[n] \in Nat /\ getFibonacci[n + 1] \in Nat
         /\ getFibonacci[n] + 1 <= getFibonacci[n + 1]
         /\ n <= getFibonacci[n + 1]
         /\ n > 0 => getFibonacci[n + 2] = getFibonacci[n + 1] + getFibonacci[n]
PROOF
  <1> DEFINE f == getFibonacci
             Grows(l) == f[l] + 1 <= f[l + 1] /\ l <= f[l + 1]
             Good == {l \in Nat : Grows(l)}
  <1>1. ASSUME NEW l \in Nat
        PROVE  f[l] \in Nat /\ (l > 0 => f[l] > 0) /\ f[l] = Fib(l, f)
    BY FibonacciPositive, FibonacciRecursion
  <1>2. ASSUME NEW l \in Nat, l > 0 PROVE f[l + 2] = f[l + 1] + f[l]
    <2>1. f[l + 2] = Fib(l + 2, f) /\ ~(l + 2 <= 2) /\ l + 2 - 1 = l + 1 /\ l + 2 - 2 = l
      BY <1>1, <1>2
    <2> QED BY <2>1 DEF Fib
  <1>3. f[0] = 0 /\ f[1] = 1 /\ f[2] = 2
    BY <1>1 DEF Fib
  <1> HIDE DEF f
  <1>4. 0 \in Good
    BY <1>3
  <1>5. ASSUME NEW l \in Nat, l \in Good PROVE l + 1 \in Good
    <2>1. /\ f[l] \in Nat /\ f[l + 1] \in Nat /\ f[l + 2] \in Nat
          /\ l + 1 + 1 = l + 2 /\ f[l] + 1 <= f[l + 1] /\ l <= f[l + 1]
      BY <1>1, <1>5
    <2>2. CASE l = 0
      BY <1>3, <2>1, <2>2
    <2>3. CASE l > 0
      <3>1. f[l + 2] = f[l + 1] + f[l] /\ f[l] > 0
        BY <1>1, <1>2, <2>3
      <3> QED BY <2>1, <3>1
    <2> QED BY <2>2, <2>3
  <1> HIDE DEF Good
  <1>6. n \in Good
    BY <1>4, <1>5, NatSetInduction
  <1> QED BY <1>1, <1>2, <1>6 DEF Good, f

\* A rung d away from the one before, which is s away from the entry, draws the
\* average after it when it is at least half as large as the position.
LEMMA LargeRungDraws ==
  ASSUME NEW a \in Nat, NEW q \in Nat, NEW d \in Nat, NEW s \in Nat, a <= 2 * q
  PROVE  d * a <= 2 * (q * (s + d))
PROOF
  <1>1. d * a <= d * (2 * q)
    BY ProductOrder
  <1>2. q * d <= q * (s + d)
    BY ProductOrder
  <1>3. d * (2 * q) = 2 * (q * d) /\ q * d \in Int /\ q * (s + d) \in Int /\ d * a \in Int
    OBVIOUS
  <1> QED BY <1>1, <1>2, <1>3

\* A long position has, beside its multiples of the unit, what rungs were enlarged
\* by to reach MinNotional.  The extra is not worth more than a unit as long as
\* the price has not halved, and not more than one unit per rung afterwards.
LEMMA EnlargedRungDraws ==
  ASSUME NEW k \in Nat, NEW u \in Nat \ {0}, NEW f \in Nat, NEW g \in Nat,
         g + 1 <= f, k <= f,
         NEW p \in Nat \ {0}, NEW r \in Nat \ {0}, NEW e \in Nat, r <= p, p <= e,
         NEW q \in Nat, q >= u * f,
         NEW x \in Int, x * p <= k * (u * e), 2 * p >= e => x * p <= u * e,
         NEW a \in Nat, a = u * (f + g) + x
  PROVE  (p - r) * a <= 2 * (q * (e - r))
PROOF
  <1> DEFINE d == p - r
             s == e - p
  <1>1. d \in Nat /\ s \in Nat /\ e - r = s + d /\ d <= p
    OBVIOUS
  <1>2. SUFFICES d * x <= u * d + 2 * (u * (f * s))
    <2>1. (u * f) * (s + d) <= q * (s + d)
      BY <1>1, ProductOrder
    <2>2. (u * f) * (s + d) = u * (f * s) + u * (f * d)
      BY <1>1
    <2>3. d * a = u * (f * d) + u * (g * d) + d * x
      BY <1>1
    <2>4. u * (g * d) + u * d <= u * (f * d)
      <3>1. (g + 1) * d <= f * d
        BY <1>1, ProductOrder
      <3>2. u * ((g + 1) * d) <= u * (f * d)
        BY <1>1, <3>1, ProductOrder
      <3>3. u * ((g + 1) * d) = u * (g * d) + u * d
        BY <1>1
      <3> QED BY <3>2, <3>3
    <2>5. /\ u * (f * s) \in Int /\ u * (f * d) \in Int /\ u * (g * d) \in Int
          /\ d * x \in Int /\ u * d \in Int /\ q * (s + d) \in Int
      BY <1>1
    <2> HIDE DEF d, s
    <2>6. d * a <= 2 * (q * (s + d))
      BY <1>2, <2>1, <2>2, <2>3, <2>4, <2>5
    <2> QED BY <1>1, <2>6 DEF d
  <1>3. u * s <= u * (f * s) /\ u * (f * s) \in Nat /\ u * d \in Nat /\ u * s \in Nat
    <2>1. 1 * s <= f * s
      BY <1>1, ProductOrder
    <2>2. u * (1 * s) <= u * (f * s)
      BY <1>1, <2>1, ProductOrder
    <2> QED BY <1>1, <2>2
  <1>4. CASE x <= 0
    <2>1. d * x <= d * 0
      BY <1>1, <1>4, ProductOrder
    <2> QED BY <1>1, <1>3, <2>1
  <1>5. CASE x > 0 /\ 2 * p >= e
    <2>1. d * (x * p) <= d * (u * e)
      BY <1>1, <1>5, ProductOrder
    <2>2. d * (u * e) = (u * d) * p + (u * s) * d
      BY <1>1
    <2>3. (u * s) * d <= (u * s) * p
      BY <1>1, <1>3, ProductOrder
    <2>4. d * (x * p) = (d * x) * p /\ (u * d + u * s) * p = (u * d) * p + (u * s) * p
      BY <1>1
    <2>5. (d * x) * p <= (u * d + u * s) * p
      BY <1>1, <2>1, <2>2, <2>3, <2>4
    <2>6. d * x <= u * d + u * s
      BY <1>1, <1>3, <2>5, Cancels
    <2> QED BY <1>1, <1>3, <2>6
  <1>6. CASE x > 0 /\ 2 * p < e
    <2>1. d * x <= p * x
      BY <1>1, <1>6, ProductOrder
    <2>2. k * (u * e) <= f * (u * e)
      BY ProductOrder
    <2>3. (u * f) * e <= (u * f) * (2 * s)
      BY <1>1, <1>6, ProductOrder
    <2>4. f * (u * e) = (u * f) * e /\ (u * f) * (2 * s) = 2 * (u * (f * s))
          /\ p * x = x * p /\ d * x \in Int /\ x * p \in Int
      BY <1>1
    <2> QED BY <1>1, <1>3, <2>1, <2>2, <2>3, <2>4
  <1> QED BY <1>4, <1>5, <1>6

\* The average of a position is at most two thirds of the way from the last rung
\* back to the entry, and stays there with a rung that draws it.
LEMMA AverageStaysNear ==
  ASSUME NEW off \in Int, NEW a \in Nat, NEW q \in Nat, NEW d \in Nat, NEW s \in Nat,
         3 * off <= 2 * (s * a), d * a <= 2 * (q * (s + d))
  PROVE  3 * (off + d * a) <= 2 * ((s + d) * (a + q))
PROOF
  <1>1. (s + d) * (a + q) = s * a + d * a + q * (s + d)
    OBVIOUS
  <1>2. s * a \in Int /\ d * a \in Int /\ q * (s + d) \in Int
    OBVIOUS
  <1> QED BY <1>1, <1>2

Beyond == IF direction = "LONG" THEN entry - LastPrice ELSE LastPrice - entry

\* How far the average is from the last rung, times the size of the position.
Off == IF direction = "LONG" THEN cost - LastPrice * amt ELSE LastPrice * amt - cost

\* What the position has more than its multiples of the unit.
Extra == amt - UnitQty * getFibonacci[filled + 2]

Drawn ==
  /\ TickSize <= 2 * SafeATR("30m")
  /\ LastPrice \in Nat \ {0} /\ Beyond >= 0
  /\ 3 * Off <= 2 * (Beyond * amt)
  /\ IF direction = "LONG"
     THEN /\ Extra * LastPrice <= filled * (UnitQty * entry)
          /\ 2 * LastPrice >= entry => Extra * LastPrice <= UnitQty * entry
     ELSE Extra <= 0

LEMMA BaseIsSmall ==
  ASSUME NEW e \in Entries, NEW w \in Weights, NEW slip \in Slips, 2 * slip <= e,
         NEW price \in {e - slip, e + slip}
  PROVE  /\ RoundUpToStep(MinNotional * w, price) <= 2 * RoundUpToStep(MinNotional * w, e)
         /\ RoundUpToStep(MinNotional * w, price) \in Nat
         /\ RoundUpToStep(MinNotional * w, e) \in Nat \ {0}
PROOF
  <1> DEFINE a == MinNotional * w
             x == e * StepSize
             y == price * StepSize
             c == CeilDiv(a, x)
             b == CeilDiv(a, y)
  <1>1. /\ e \in Nat \ {0} /\ slip \in Nat /\ price \in Nat \ {0} /\ e <= 2 * price
        /\ StepSize \in Nat \ {0} /\ a \in Nat \ {0}
    BY LadderAssumption, AveragingAssumption
  <1>2. x \in Nat \ {0} /\ y \in Nat \ {0} /\ x <= 2 * y
    <2>1. e * StepSize <= (2 * price) * StepSize
      BY <1>1, ProductOrder
    <2> QED BY <1>1, <2>1
  <1>3. /\ RoundUpToStep(a, price) = b * StepSize
        /\ RoundUpToStep(a, e) = c * StepSize
        /\ RoundUpToStep(a, price) \in Nat \ {0} /\ RoundUpToStep(a, e) \in Nat \ {0}
    <2> HIDE DEF a
    <2> QED BY <1>1, RoundUpFits DEF RoundUpToStep
  <1> HIDE DEF a, x, y
  <1>4. /\ c \in Int /\ c * x >= a
        /\ b \in Int /\ (b - 1) * y < a
    <2>1. a \in Int
      BY <1>1
    <2>2. c \in Int /\ c * x >= a
      BY <1>2, <2>1, CeilBounds
    <2>3. b \in Int /\ (b - 1) * y < a
      BY <1>2, <2>1, CeilBounds
    <2> QED BY <2>2, <2>3
  <1> HIDE DEF b, c
  <1>5. c >= 0
    <2>1. SUFFICES ASSUME c <= -1 PROVE FALSE
      BY <1>4
    <2>2. c * x <= (-1) * x
      BY <1>2, <1>4, <2>1, ProductOrder
    <2> QED BY <1>1, <1>2, <1>4, <2>2
  <1>6. b <= 2 * c
    <2>1. SUFFICES ASSUME 2 * c <= b - 1 PROVE FALSE
      BY <1>4
    <2>2. (2 * c) * y <= (b - 1) * y
      BY <1>2, <1>4, <2>1, ProductOrder
    <2>3. c * x <= c * (2 * y)
      BY <1>2, <1>4, <1>5, ProductOrder
    <2>4. (2 * c) * y = c * (2 * y) /\ (b - 1) * y \in Int /\ c * x \in Int
      BY <1>2, <1>4
    <2> DEFINE v == c * (2 * y)
               z == (b - 1) * y
               t == c * x
    <2>5. v \in Int /\ z \in Int /\ t \in Int /\ a \in Int
          /\ v <= z /\ t <= v /\ t >= a /\ z < a
      BY <1>1, <1>2, <1>4, <2>2, <2>3, <2>4
    <2> HIDE DEF v, z, t
    <2> QED BY <2>5
  <1>7. b * StepSize <= (2 * c) * StepSize
    BY <1>1, <1>4, <1>6, ProductOrder
  <1>8. (2 * c) * StepSize = 2 * (c * StepSize)
    BY <1>1, <1>4
  <1> QED BY <1>3, <1>7, <1>8 DEF a

LEMMA InitDrawn == WellSized /\ AveragingInit => Drawn
PROOF
  <1> SUFFICES ASSUME WellSized, AveragingInit PROVE Drawn
    OBVIOUS
  <1>1. /\ entry \in Entries /\ weight \in Weights /\ direction \in Directions
        /\ atr \in [Intervals -> ATRs] /\ filled = 0 /\ cost = amt * entry
        /\ entry \in Nat \ {0} /\ weight \in Nat \ {0}
    BY LadderAssumption DEF AveragingInit, Init
  <1>2. TickSize <= 2 * SafeATR("30m")
    BY DEF WellSized
  <1>3. LastPrice = entry
    BY <1>1 DEF LastPrice
  <1>4. amt \in Nat /\ amt <= 2 * UnitQty /\ UnitQty \in Nat \ {0}
    <2>1. PICK slip \in Slips : amt \in {BaseQty(entry - slip), BaseQty(entry + slip)}
      BY DEF AveragingInit
    <2>2. PICK price \in {entry - slip, entry + slip} : amt = BaseQty(price)
      BY <2>1
    <2> DEFINE qty == RoundUpToStep(MinNotional * weight, price)
    <2>3. /\ qty <= 2 * UnitQty /\ qty \in Nat
          /\ UnitQty \in Nat \ {0}
      BY <1>1, BaseIsSmall DEF UnitQty, WellSized
    <2>4. MinQty \in Nat /\ MinQty <= 2 * UnitQty
      BY <2>3, LadderAssumption DEF WellSized
    <2>5. amt = Max({qty, MinQty})
      BY <2>2 DEF BaseQty
    <2> HIDE DEF qty
    <2>6. \E x \in {qty, MinQty} : \A y \in {qty, MinQty} : x >= y
      BY <2>3, <2>4
    <2>7. amt \in {qty, MinQty}
      BY <2>5, <2>6 DEF Max
    <2> QED BY <2>3, <2>4, <2>7
  <1>5. Beyond = 0 /\ Off = 0
    <2>1. entry * amt = amt * entry /\ amt * entry \in Int
      BY <1>1, <1>4
    <2> QED BY <1>1, <1>3, <2>1 DEF Beyond, Off
  <1>6. Extra \in Int /\ Extra <= 0
    <2>1. filled + 2 = 2 /\ getFibonacci[2] = 2
      BY <1>1, FibonacciRecursion DEF Fib
    <2>2. UnitQty * 2 = 2 * UnitQty
      BY <1>4
    <2>3. Extra = amt - UnitQty * 2
      BY <2>1 DEF Extra
    <2> QED BY <1>4, <2>2, <2>3
  <1>7. Extra * entry <= 0 * entry /\ 0 * entry = 0 /\ filled * (UnitQty * entry) = 0
        /\ 0 * amt = 0 /\ UnitQty * entry \in Nat
    BY <1>1, <1>4, <1>6, ProductOrder
  <1> QED BY <1>1, <1>2, <1>3, <1>5, <1>6, <1>7 DEF Drawn

\* A price is at most half a tick from its rounding; none below zero becomes one.
LEMMA RoundIsNear ==
  ASSUME NEW p \in Int
  PROVE  /\ RoundToTick(p) \in Int
         /\ p >= 0 => /\ 2 * RoundToTick(p) <= 2 * p + TickSize
                      /\ 2 * p < 2 * RoundToTick(p) + TickSize
         /\ p < 0 => RoundToTick(p) <= 0
PROOF
  <1>1. TickSize \in Nat \ {0} /\ 2 * TickSize \in Nat \ {0} /\ RoundToTick(p) \in Int
    BY LadderAssumption, RoundMonotone
  <1>2. CASE p >= 0
    <2> DEFINE c == (2 * p + TickSize) \div (2 * TickSize)
    <2>1. 2 * p + TickSize \in Int
      BY <1>1
    <2>2. /\ c \in Int /\ c * (2 * TickSize) <= 2 * p + TickSize
          /\ 2 * p + TickSize < c * (2 * TickSize) + 2 * TickSize
      BY <1>1, <2>1, QuotientBounds
    <2>3. RoundToTick(p) = c * TickSize
      BY <1>2 DEF RoundToTick
    <2> HIDE DEF c
    <2>4. c * (2 * TickSize) = 2 * (c * TickSize) /\ c * TickSize \in Int
      BY <1>1, <2>2
    <2> QED BY <1>1, <1>2, <2>2, <2>3, <2>4
  <1>3. CASE p < 0
    <2> DEFINE c == (TickSize - 2 * p) \div (2 * TickSize)
    <2>1. TickSize - 2 * p \in Nat
      BY <1>1, <1>3
    <2>2. c \in Nat
      BY <1>1, <2>1, QuotientOfNat
    <2>3. RoundToTick(p) = -(c * TickSize)
      BY <1>1, <1>3 DEF RoundToTick
    <2> HIDE DEF c
    <2>4. c * TickSize \in Nat
      BY <1>1, <2>2
    <2> QED BY <1>1, <1>3, <2>3, <2>4
  <1> QED BY <1>2, <1>3

\* The next rung to be filled lies further from the entry than the last one.
LEMMA NextRungIsFurther ==
  ASSUME Walk, AwayFromEntry, Rungs, Held, Drawn, NEW n, n = filled + 1,
         n \in DOMAIN placed
  PROVE  /\ placed[n].price \in Nat \ {0}
         /\ placed[n].qty = RungQty(n, placed[n].price)
         /\ IF direction = "LONG" THEN placed[n].price <= LastPrice
                                  ELSE LastPrice <= placed[n].price
PROOF
  <1> DEFINE r == placed[n].price
  <1>1. /\ placed[n].rung = n /\ placed[n].qty = RungQty(n, r) /\ r \in Nat \ {0}
        /\ r = RoundToTick(LevelAt(n))
    BY OrderPlaced DEF Rungs, Ticks
  <1>2. filled \in Nat /\ entry \in Nat \ {0} /\ direction \in Directions
    BY LenProperties DEF Held, Walk
  <1>3. CASE filled = 0
    <2> DEFINE dist == Dist[1]
    <2>1. n = 1 /\ LastPrice = entry
      BY <1>3 DEF LastPrice
    <2>2. Known
      BY WalkKnown
    <2>3. \A l \in Nat \ {0} : Dist[l] \in Int
      BY <2>2, Distances
    <2>4. dist \in Nat /\ dist = SafeATR("30m")
      <3>1. dist \in Nat
        BY <2>2, Distances
      <3>2. Dist[1] = gridDistances[1]
        BY DEF Dist, StepDist, gridDistances
      <3>3. gridDistances[1] = SafeATR("30m")
        BY DEF gridDistances
      <3> QED BY <3>1, <3>2, <3>3
    <2>5. Walked(1) = dist
      <3>1. 1 .. 1 = {1}
        OBVIOUS
      <3>2. Dist[1] \in Int
        BY <2>3
      <3>3. Sum(Dist, {1}) = Dist[1]
        BY <3>2, SumSingle
      <3> QED BY <3>1, <3>3 DEF Walked
    <2> HIDE DEF dist
    <2>6. TickSize <= 2 * dist /\ TickSize \in Nat \ {0}
      BY <2>4, LadderAssumption DEF Drawn
    <2>7. r = RoundToTick(IF direction = "LONG" THEN entry - dist ELSE entry + dist)
      BY <1>1, <2>1, <2>5 DEF LevelAt
    <2>8. CASE direction = "LONG"
      <3>1. r = RoundToTick(entry - dist) /\ entry - dist \in Int
        BY <1>2, <2>4, <2>7, <2>8
      <3> QED BY <1>1, <1>2, <2>1, <2>4, <2>6, <2>8, <3>1, RoundIsNear
    <2>9. CASE direction # "LONG"
      <3>1. r = RoundToTick(entry + dist) /\ entry + dist \in Nat
        BY <1>2, <2>4, <2>7, <2>9
      <3> QED BY <1>1, <1>2, <2>1, <2>4, <2>6, <2>9, <3>1, RoundIsNear
    <2> QED BY <1>1, <2>8, <2>9
  <1>4. CASE filled # 0
    <2>1. n # 1 /\ n - 1 = filled /\ LastPrice = placed[n - 1].price
      BY <1>2, <1>4 DEF LastPrice
    <2> QED BY <1>1, <2>1 DEF AwayFromEntry
  <1> QED BY <1>1, <1>3, <1>4

\* Wherever the price is in the ladder, the next rung draws the average.
LEMMA NextRungDraws ==
  ASSUME Walk, AwayFromEntry, Rungs, Held, Drawn, NEW n, n = filled + 1,
         n \in DOMAIN placed,
         NEW d, d = (IF direction = "LONG" THEN LastPrice - placed[n].price
                                           ELSE placed[n].price - LastPrice)
  PROVE  /\ d \in Nat /\ Beyond \in Nat
         /\ d * amt <= 2 * (placed[n].qty * (Beyond + d))
PROOF
  <1> DEFINE r == placed[n].price
             q == placed[n].qty
             p == LastPrice
             f == getFibonacci
  <1>1. /\ r \in Nat \ {0} /\ q = RungQty(n, r)
        /\ IF direction = "LONG" THEN r <= p ELSE p <= r
    BY NextRungIsFurther
  <1>2. /\ filled \in Nat /\ entry \in Nat \ {0} /\ weight \in Nat \ {0}
        /\ direction \in Directions /\ amt \in Nat /\ p \in Nat \ {0} /\ n \in Nat \ {0}
    BY LenProperties DEF Held, Walk, Drawn
  <1>3. /\ q \in Nat /\ UnitQty * f[n] <= q /\ UnitQty \in Nat \ {0}
    BY <1>1, <1>2, RungExceeds, UnitFits
  <1>4. /\ f[filled] \in Nat /\ f[n] \in Nat /\ f[filled + 2] \in Nat
        /\ f[filled] + 1 <= f[n] /\ filled <= f[n]
        /\ filled > 0 => f[filled + 2] = f[n] + f[filled]
    <2>1. f[filled + 1 + 1] \in Nat /\ filled + 1 + 1 = filled + 2
      BY <1>2, FibonacciGrows
    <2> QED BY <1>2, <2>1, FibonacciGrows
  <1>5. d \in Nat /\ Beyond \in Nat
    BY <1>1, <1>2 DEF Drawn, Beyond
  <1>6. amt = UnitQty * f[filled + 2] + Extra /\ Extra \in Int
    BY <1>2, <1>3, <1>4 DEF Extra
  <1>7. CASE Extra <= 0
    <2>1. f[filled + 2] <= 2 * f[n]
      <3>1. CASE filled = 0
        <4>1. f[0 + 2] = 2 /\ f[0 + 1] = 1
          BY FibonacciRecursion DEF Fib
        <4> HIDE DEF f
        <4> QED BY <3>1, <4>1
      <3>2. CASE filled > 0
        <4> HIDE DEF f
        <4> QED BY <1>4, <3>2
      <3> QED BY <1>2, <3>1, <3>2
    <2>2. UnitQty * f[filled + 2] <= UnitQty * (2 * f[n])
      BY <1>3, <1>4, <2>1, ProductOrder
    <2>3. UnitQty * (2 * f[n]) = 2 * (UnitQty * f[n]) /\ UnitQty * f[n] \in Int
          /\ UnitQty * f[filled + 2] \in Int
      BY <1>3, <1>4
    <2>4. amt <= 2 * q
      <3> DEFINE v == UnitQty * f[filled + 2]
                 w == UnitQty * f[n]
      <3>1. /\ v \in Int /\ w \in Int /\ Extra \in Int /\ amt = v + Extra
            /\ v <= 2 * w /\ w <= q /\ q \in Int /\ Extra <= 0
        BY <1>3, <1>6, <1>7, <2>2, <2>3
      <3> HIDE DEF v, w, q, f
      <3> QED BY <3>1
    <2> HIDE DEF q, f
    <2>5. d * amt <= 2 * (q * (Beyond + d))
      BY <1>2, <1>3, <1>5, <2>4, LargeRungDraws
    <2> QED BY <1>5, <2>5 DEF q
  <1>8. CASE Extra > 0
    <2>1. direction = "LONG"
      BY <1>6, <1>8 DEF Drawn
    <2>2. /\ Extra * p <= filled * (UnitQty * entry)
          /\ 2 * p >= entry => Extra * p <= UnitQty * entry
          /\ p <= entry /\ r <= p /\ Beyond + d = entry - r /\ d = p - r
      BY <1>1, <1>2, <1>5, <2>1 DEF Drawn, Beyond
    <2>3. filled > 0
      <3>1. SUFFICES ASSUME filled = 0 PROVE FALSE
        BY <1>2
      <3>2. 0 * (UnitQty * entry) = 0
        BY <1>2, <1>3
      <3>3. 1 * p <= Extra * p
        BY <1>2, <1>6, <1>8, ProductOrder
      <3> HIDE DEF p
      <3> QED BY <1>2, <1>6, <2>2, <3>1, <3>2, <3>3
    <2>4. amt = UnitQty * (f[n] + f[filled]) + Extra
      BY <1>6, <1>4, <2>3
    <2> DEFINE k == filled
               u == UnitQty
               h == f[n]
               g == f[k]
               e == entry
               x == Extra
               a == amt
    <2>6. /\ k \in Nat /\ u \in Nat \ {0} /\ h \in Nat /\ g \in Nat
          /\ g + 1 <= h /\ k <= h
      BY <1>2, <1>3, <1>4
    <2>7. /\ p \in Nat \ {0} /\ r \in Nat \ {0} /\ e \in Nat /\ r <= p /\ p <= e
          /\ q \in Nat /\ q >= u * h
      BY <1>1, <1>2, <1>3, <2>2
    <2>8. /\ x \in Int /\ x * p <= k * (u * e) /\ (2 * p >= e => x * p <= u * e)
          /\ a \in Nat /\ a = u * (h + g) + x
      BY <1>2, <1>6, <2>2, <2>4
    <2> HIDE DEF k, u, h, g, e, x, a, p, r, q
    <2>5. (p - r) * a <= 2 * (q * (e - r))
      BY <2>6, <2>7, <2>8, EnlargedRungDraws
    <2> QED BY <1>5, <2>2, <2>5 DEF q, a, e
  <1> QED BY <1>5, <1>6, <1>7, <1>8

\* Enlarging a rung leaves the bound on the extra.
LEMMA ExtraStaysSmall ==
  ASSUME NEW k \in Nat, NEW v \in Nat, NEW e \in Nat, NEW p \in Nat \ {0},
         NEW r \in Nat \ {0}, r <= p,
         NEW x \in Int, x * p <= k * v, 2 * p >= e => x * p <= v,
         k = 0 => x <= 0,
         NEW y \in Nat, y * r <= v, k > 0 /\ 2 * r >= e => y = 0
  PROVE  /\ (x + y) * r <= (k + 1) * v
         /\ 2 * r >= e => (x + y) * r <= v
PROOF
  <1>1. (x + y) * r = x * r + y * r /\ x * r \in Int /\ y * r \in Nat
        /\ (k + 1) * v = k * v + v /\ k * v \in Nat /\ x * p \in Int
    OBVIOUS
  <1>2. CASE x <= 0
    <2>1. x * r <= 0 * r /\ 0 * r = 0
      BY <1>2, ProductOrder
    <2> QED BY <1>1, <2>1
  <1>3. CASE x > 0
    <2>1. x * r <= x * p
      BY <1>3, ProductOrder
    <2>2. 2 * r >= e => y * r = 0
      <3>1. 0 * r = 0
        OBVIOUS
      <3> QED BY <1>3, <3>1
    <2> QED BY <1>1, <1>3, <2>1, <2>2
  <1> QED BY <1>2, <1>3

\* What one fill does to the quantities the argument is about.
LEMMA FillsRung ==
  ASSUME Walk, AwayFromEntry, Rungs, Held, Drawn, Fill,
         NEW n, n = filled + 1,
         NEW r, r = placed[n].price,
         NEW q, q = placed[n].qty,
         NEW must, must = UnitQty * getFibonacci[n]
  PROVE  /\ UNCHANGED <<direction, entry, weight, atr, placed>>
         /\ filled' = n /\ amt' = amt + q /\ cost' = cost + q * r /\ LastPrice' = r
         /\ UnitQty' = UnitQty /\ SafeATR("30m")' = SafeATR("30m")
         /\ getFibonacci' = getFibonacci
         /\ n \in DOMAIN placed /\ n \in Nat \ {0} /\ filled \in Nat
         /\ entry \in Nat \ {0} /\ weight \in Nat \ {0} /\ direction \in Directions
         /\ amt \in Nat \ {0} /\ cost \in Nat \ {0} /\ LastPrice \in Nat \ {0}
         /\ r \in Nat \ {0} /\ q \in Nat \ {0} /\ q = RungQty(n, r)
         /\ IF direction = "LONG" THEN r <= LastPrice /\ LastPrice <= entry
                                  ELSE LastPrice <= r /\ entry <= LastPrice
         /\ UnitQty \in Nat \ {0} /\ must \in Nat /\ must <= q
         /\ (q - must) * r <= UnitQty * entry
         /\ IF direction = "LONG" THEN filled > 0 /\ 2 * r >= entry => q = must
                                  ELSE q = must
         /\ Extra \in Int /\ Extra' = Extra + (q - must)
PROOF
  <1> DEFINE p == LastPrice
             f == getFibonacci
  <1>1. /\ UNCHANGED <<direction, entry, weight, atr, placed>>
        /\ filled < Len(placed) /\ filled' = n
        /\ amt' = amt + q /\ cost' = cost + q * r
    BY DEF Fill, vars
  <1>2. /\ filled \in Nat /\ entry \in Nat \ {0} /\ weight \in Nat \ {0}
        /\ direction \in Directions /\ amt \in Nat \ {0} /\ cost \in Nat \ {0} /\ p \in Nat \ {0}
        /\ n \in Nat \ {0}
    BY LenProperties DEF Held, Walk, Drawn
  <1>3. n \in DOMAIN placed
    <2>1. DOMAIN placed = 1 .. Len(placed) /\ Len(placed) \in Nat
      BY LenProperties DEF Walk
    <2> QED BY <1>1, <1>2, <2>1
  <1>4. /\ r \in Nat \ {0} /\ q = RungQty(n, r)
        /\ IF direction = "LONG" THEN r <= p ELSE p <= r
    BY <1>3, NextRungIsFurther
  <1>5. /\ q \in Nat \ {0} /\ must \in Nat /\ must <= q /\ UnitQty \in Nat \ {0}
        /\ (q - must) * r <= UnitQty * entry
        /\ f[n] * r >= entry => q = must
    <2>1. UnitQty \in Nat \ {0}
      BY <1>2, UnitFits
    <2> QED BY <1>2, <1>4, <2>1, RungExceeds
  <1>7. LastPrice' = r /\ UnitQty' = UnitQty /\ SafeATR("30m")' = SafeATR("30m")
        /\ getFibonacci' = getFibonacci
    BY <1>1, <1>2 DEF LastPrice, UnitQty, SafeATR
  <1>12. /\ f[n] \in Nat /\ f[n + 1] \in Nat /\ f[n + 2] = f[n + 1] + f[n] /\ filled <= f[n]
         /\ Extra' = Extra + (q - must)
         /\ filled > 0 => 2 <= f[n]
    <2>1. /\ f[n] \in Nat /\ f[n + 1] \in Nat /\ f[n + 2] = f[n + 1] + f[n]
          /\ filled <= f[n] /\ f[filled] + 1 <= f[n] /\ (filled > 0 => f[filled] > 0)
      BY <1>2, FibonacciGrows, FibonacciPositive
    <2>2. UnitQty * f[n + 2] = UnitQty * f[n + 1] + must
          /\ UnitQty * f[n + 1] \in Int
      BY <1>5, <2>1
    <2>3. filled + 2 = n + 1 /\ filled' + 2 = n + 2
      BY <1>1, <1>2
    <2>4. Extra = amt - UnitQty * f[n + 1] /\ Extra' = amt' - UnitQty * f[n + 2]
      BY <1>7, <2>3 DEF Extra
    <2>5. f[filled] \in Nat
      BY <1>2, FibonacciPositive
    <2>6. amt' = amt + q
      BY <1>1
    <2> DEFINE w == UnitQty * f[n + 1]
    <2>7. Extra' = Extra + (q - must)
      <3>1. Extra = amt - w /\ w \in Int
        BY <2>2, <2>4
      <3>3. Extra' = amt + q - (w + must)
        <4> DEFINE z == UnitQty * f[n + 2]
        <4>1. z = w + must /\ w \in Int /\ must \in Int
          BY <1>5, <2>2
        <4>2. Extra' = amt' - z
          BY <2>4
        <4>3. amt \in Int /\ q \in Int
          BY <1>2, <1>5
        <4> HIDE DEF z, f, w
        <4> QED BY <2>6, <4>1, <4>2, <4>3
      <3>2. amt \in Int /\ q \in Int /\ must \in Int
        BY <1>2, <1>5
      <3> HIDE DEF w
      <3> QED BY <3>1, <3>2, <3>3
    <2> HIDE DEF f
    <2> QED BY <1>2, <2>1, <2>5, <2>7
  <1>13. Extra \in Int
    <2>1. UnitQty * f[filled + 2] \in Int
      BY <1>2, <1>5, FibonacciPositive
    <2> QED BY <1>2, <2>1 DEF Extra
  <1>14. IF direction = "LONG" THEN r <= p /\ p <= entry ELSE p <= r /\ entry <= p
    BY <1>2, <1>4 DEF Drawn, Beyond
  <1> HIDE DEF f, p
  <1>15. IF direction = "LONG" THEN filled > 0 /\ 2 * r >= entry => q = must
                              ELSE q = must
    <2>1. filled > 0 => 2 * r <= f[n] * r
      BY <1>4, <1>12, ProductOrder
    <2>2. direction # "LONG" => entry <= f[n] * r
      <3>1. f[n] \in Nat \ {0} /\ 1 <= f[n]
        BY <1>2, FibonacciPositive DEF f
      <3>2. 1 * r <= f[n] * r
        BY <1>4, <3>1, ProductOrder
      <3>3. f[n] * r \in Int
        BY <1>4, <3>1
      <3> QED BY <1>2, <1>4, <1>14, <3>2, <3>3
    <2>3. f[n] * r \in Int /\ entry \in Int
      BY <1>2, <1>4, <1>12
    <2> QED BY <1>4, <1>5, <2>1, <2>2, <2>3
  <1> QED BY <1>1, <1>2, <1>3, <1>4, <1>5, <1>7, <1>12, <1>13, <1>14, <1>15 DEF f, p

LEMMA FillDrawn == Walk /\ AwayFromEntry /\ Rungs /\ Held /\ Drawn /\ Fill => Drawn'
PROOF
  <1> SUFFICES ASSUME Walk, AwayFromEntry, Rungs, Held, Drawn, Fill PROVE Drawn'
    OBVIOUS
  <1> DEFINE n == filled + 1
             r == placed[n].price
             q == placed[n].qty
             p == LastPrice
             f == getFibonacci
             d == IF direction = "LONG" THEN p - r ELSE r - p
             s == Beyond
             must == UnitQty * f[n]
             v == UnitQty * entry
  <1>1. /\ UNCHANGED <<direction, entry, weight, atr, placed>>
        /\ filled' = n /\ amt' = amt + q /\ cost' = cost + q * r /\ LastPrice' = r
        /\ UnitQty' = UnitQty /\ SafeATR("30m")' = SafeATR("30m")
        /\ n \in DOMAIN placed /\ n \in Nat \ {0} /\ filled \in Nat
        /\ entry \in Nat \ {0} /\ direction \in Directions
        /\ amt \in Nat \ {0} /\ cost \in Nat \ {0} /\ p \in Nat \ {0}
        /\ r \in Nat \ {0} /\ q \in Nat \ {0}
        /\ IF direction = "LONG" THEN r <= p /\ p <= entry ELSE p <= r /\ entry <= p
        /\ UnitQty \in Nat \ {0} /\ must \in Nat /\ must <= q
        /\ (q - must) * r <= v
        /\ IF direction = "LONG" THEN filled > 0 /\ 2 * r >= entry => q = must
                                 ELSE q = must
        /\ Extra \in Int /\ Extra' = Extra + (q - must)
    BY FillsRung
  <1>6. d \in Nat /\ s \in Nat /\ d * amt <= 2 * (q * (s + d))
    BY <1>1, NextRungDraws
  <1>8. Beyond' = s + d
    BY <1>1 DEF Beyond
  <1>9. Off' = Off + d * amt
    <2>1. q * r \in Int /\ r * (amt + q) = r * amt + q * r /\ r * amt \in Int /\ p * amt \in Int
          /\ (p - r) * amt = p * amt - r * amt /\ (r - p) * amt = r * amt - p * amt
      BY <1>1
    <2> HIDE DEF q, r, p
    <2> QED BY <1>1, <2>1 DEF Off, p, r
  <1>10. Off \in Int /\ 3 * Off <= 2 * (s * amt)
    BY <1>1 DEF Off, Drawn
  <1>11. 3 * Off' <= 2 * (Beyond' * amt')
    <2> HIDE DEF d, s, q
    <2> QED BY <1>1, <1>6, <1>8, <1>9, <1>10, AverageStaysNear DEF q
  <1>12. CASE direction = "LONG"
    <2>1. /\ Extra * p <= filled * v
          /\ 2 * p >= entry => Extra * p <= v
      BY <1>12 DEF Drawn
    <2>2. filled = 0 => Extra <= 0
      <3> SUFFICES ASSUME filled = 0, Extra >= 1 PROVE FALSE
        BY <1>1
      <3>1. 0 * v = 0 /\ 1 * p <= Extra * p /\ Extra * p \in Int
        BY <1>1, ProductOrder
      <3> HIDE DEF p, v
      <3> QED BY <1>1, <2>1, <3>1 DEF p
    <2>3. /\ q - must \in Nat /\ r <= p /\ p \in Nat \ {0} /\ v \in Nat
          /\ filled > 0 /\ 2 * r >= entry => q - must = 0
          /\ (q - must) * r <= v /\ r \in Nat \ {0} /\ entry \in Nat
          /\ filled \in Nat /\ Extra \in Int
      BY <1>1, <1>12
    <2>4. v' = v
      BY <1>1
    <2> HIDE DEF q, must, r, p, v, f
    <2>5. /\ (Extra + (q - must)) * r <= (filled + 1) * v
          /\ 2 * r >= entry => (Extra + (q - must)) * r <= v
      BY <2>1, <2>2, <2>3, ExtraStaysSmall
    <2>6. /\ Extra' * LastPrice' <= filled' * v'
          /\ 2 * LastPrice' >= entry' => Extra' * LastPrice' <= v'
      BY <1>1, <2>4, <2>5 DEF n, r, q, must, f
    <2> QED BY <1>1, <1>6, <1>8, <1>11, <1>12, <2>6 DEF Drawn, v, r
  <1>13. CASE direction # "LONG"
    <2>1. Extra' <= 0
      BY <1>1, <1>13 DEF Drawn
    <2> QED BY <1>1, <1>6, <1>8, <1>11, <1>13, <2>1 DEF Drawn
  <1> QED BY <1>12, <1>13

\* What is placed changes nothing of what is filled.
LEMMA PlacingKeeps ==
  ASSUME Walk, Held, UNCHANGED avars \/ PlaceRung
  PROVE  /\ UNCHANGED <<direction, entry, weight, atr, filled, amt, cost>>
         /\ LastPrice' = LastPrice
PROOF
  <1>1. CASE UNCHANGED avars
    <2>1. UNCHANGED <<direction, entry, weight, atr, filled, amt, cost, placed>>
      BY <1>1 DEF avars, vars
    <2>2. LastPrice' = LastPrice
      BY <2>1 DEF LastPrice
    <2> QED BY <2>1, <2>2
  <1>2. CASE PlaceRung
    <2> DEFINE price == RoundToTick(NextLevel(i))
               o == [rung |-> i, price |-> price, qty |-> RungQty(i, price)]
    <2>1. UNCHANGED <<direction, entry, weight, atr, filled, amt, cost>>
      BY <1>2 DEF PlaceRung, Rung
    <2>2. placed \in Seq(Orders) /\ Len(placed) \in Nat /\ filled \in 0 .. Len(placed)
      BY LenProperties DEF Walk, Held
    <2>3. placed' = placed \/ placed' = Append(placed, o)
      BY <1>2 DEF PlaceRung, Rung
    <2>4. placed \in Seq(Orders \cup {o}) /\ o \in Orders \cup {o}
      <3>1. \A k \in 1 .. Len(placed) : placed[k] \in Orders
        BY <2>2, ElementOfSeq
      <3>2. placed = [k \in 1 .. Len(placed) |-> placed[k]]
        BY <2>2, LenProperties
      <3> HIDE DEF o
      <3> QED BY <2>2, <3>1, <3>2, IsASeq
    <2> HIDE DEF o
    <2>5. \A k \in 1 .. Len(placed) : Append(placed, o)[k] = placed[k]
      BY <2>4, AppendProperties
    <2>6. filled # 0 => placed'[filled] = placed[filled]
      BY <2>2, <2>3, <2>5
    <2> QED BY <2>1, <2>6 DEF LastPrice
  <1> QED BY <1>1, <1>2

LEMMA NextDrawn ==
  Walk /\ AwayFromEntry /\ Rungs /\ Held /\ Drawn /\ [AveragingNext]_avars => Drawn'
PROOF
  <1> SUFFICES ASSUME Walk, AwayFromEntry, Rungs, Held, Drawn, [AveragingNext]_avars
               PROVE  Drawn'
    OBVIOUS
  <1>1. CASE UNCHANGED avars \/ PlaceRung
    <2>1. /\ UNCHANGED <<direction, entry, weight, atr, filled, amt, cost>>
          /\ LastPrice' = LastPrice
      BY <1>1, PlacingKeeps
    <2>2. /\ SafeATR("30m")' = SafeATR("30m") /\ UnitQty' = UnitQty
          /\ getFibonacci' = getFibonacci
      BY <2>1 DEF SafeATR, UnitQty
    <2>3. Beyond' = Beyond /\ Off' = Off /\ Extra' = Extra
      BY <2>1, <2>2 DEF Beyond, Off, Extra
    <2> QED BY <2>1, <2>2, <2>3 DEF Drawn
  <1>2. CASE Fill
    BY <1>2, FillDrawn
  <1> QED BY <1>1, <1>2 DEF AveragingNext

LEMMA DrawnWithinReach == Walk /\ Held /\ Drawn => WithinReach
PROOF
  <1> SUFFICES ASSUME Walk, Held, Drawn,
                      NEW span, span = Beyond,
                      NEW back, back = (IF direction = "LONG" THEN TPPrice - LastPrice
                                                              ELSE LastPrice - TPPrice)
               PROVE  6 * back <= 4 * span + 6 * TPATR + 3 * TickSize
    BY DEF WithinReach, Beyond
  <1> DEFINE T == TickSize
             a == TPATR
             p == LastPrice
             num == IF direction = "LONG" THEN cost + a * amt ELSE cost - a * amt
             m == 2 * amt * T
             c == (2 * num + amt * T) \div m
  <1>1. amt \in Nat \ {0} /\ cost \in Nat \ {0} /\ T \in Nat \ {0} /\ p \in Nat \ {0}
        /\ direction \in Directions /\ span \in Int
    BY LadderAssumption DEF Held, Drawn, Beyond, Walk
  <1>2. a \in Int
    <2>1. 100 * amt \in Nat \ {0}
      BY <1>1
    <2>2. cost \div (100 * amt) \in Int
      BY <1>1, <2>1, QuotientBounds
    <2>3. atr["30m"] \in Int
      BY DEF Walk, Intervals
    <2> QED BY <2>2, <2>3 DEF TPATR
  <1>3. TPPrice = c * T
    BY DEF TPPrice, RoundToTickOf
  <1>4. 3 * Off <= 2 * (span * amt)
    BY DEF Drawn
  <1>5. span * amt \in Int /\ p * amt \in Int
        /\ Off = IF direction = "LONG" THEN cost - p * amt ELSE p * amt - cost
    BY <1>1 DEF Off
  <1> HIDE DEF a, T, p
  <1>6. num \in Int /\ 2 * num + amt * T \in Int /\ m \in Nat \ {0} /\ a * amt \in Int
        /\ amt * T \in Int
    BY <1>1, <1>2
  <1>7. c \in Int /\ c * m <= 2 * num + amt * T /\ 2 * num + amt * T < c * m + m
    BY <1>6, QuotientBounds
  <1> HIDE DEF c
  <1>8. c * m = 2 * ((c * T) * amt) /\ m = 2 * (amt * T) /\ (c * T) * amt \in Int
    BY <1>1, <1>7
  <1> HIDE DEF m
  <1> DEFINE x == (c * T) * amt
             y == amt * T
             z == a * amt
             h == p * amt
             s == span * amt
             b == IF direction = "LONG" THEN x - h ELSE h - x
  <1>9. /\ x \in Int /\ y \in Int /\ z \in Int /\ cost \in Int /\ h \in Int /\ s \in Int
        /\ 2 * x <= 2 * num + y /\ 2 * num + y < 2 * x + 2 * y
        /\ num = IF direction = "LONG" THEN cost + z ELSE cost - z
        /\ Off = IF direction = "LONG" THEN cost - h ELSE h - cost
        /\ 3 * Off <= 2 * s
    BY <1>1, <1>4, <1>5, <1>6, <1>7, <1>8
  <1>10. back * amt = b /\ back \in Int
    <2>1. c * T \in Int
      BY <1>1, <1>7
    <2> QED BY <1>1, <1>3, <1>7, <2>1 DEF p
  <1> HIDE DEF x, y, z, h, s
  <1>11. 6 * b <= 4 * s + 6 * z + 3 * y
    BY <1>9
  <1> HIDE DEF b
  <1>12. (6 * back) * amt <= (4 * span + 6 * a + 3 * T) * amt
    <2>1. (6 * back) * amt = 6 * (back * amt)
      BY <1>1, <1>10
    <2>2. (4 * span + 6 * a + 3 * T) * amt = 4 * (span * amt) + 6 * (a * amt) + 3 * (amt * T)
      BY <1>1, <1>2
    <2> QED BY <1>10, <1>11, <2>1, <2>2 DEF s, z, y
  <1>13. 6 * back <= 4 * span + 6 * a + 3 * T
    BY <1>1, <1>2, <1>10, <1>12, Cancels
  <1> QED BY <1>13 DEF a, T

\* What WellSized and FirstRungClear speak of stays as it is.
LEMMA SizesStay ==
  [AveragingNext]_avars => WellSized' = WellSized /\ FirstRungClear' = FirstRungClear
PROOF
  <1> SUFFICES ASSUME [AveragingNext]_avars
               PROVE  WellSized' = WellSized /\ FirstRungClear' = FirstRungClear
    OBVIOUS
  <1>1. UNCHANGED <<entry, weight, atr>>
    BY DEF AveragingNext, PlaceRung, Rung, Fill, avars, vars
  <1> QED BY <1>1 DEF WellSized, FirstRungClear, SafeATR, UnitQty, RoundToTick

\* What the Fibonacci multiples buy, at any distances of the rungs and with any
\* orders enlarged to MinNotional: where the filters are fine for the position, the
\* price has to come back at most two thirds of the way, and one ATR
\* (placeGridOrders, updateTP).
THEOREM TakeProfitIsWithinReach == AveragingSpec => []WithinReach
PROOF
  <1>1. AveragingInit => (WellSized => Rungs /\ Drawn)
    BY InitRungs, InitDrawn DEF AveragingInit, WellSized
  <1>2. [AveragingNext]_avars => [Next]_vars
    BY DEF AveragingNext, PlaceRung, Fill, Next, avars
  <1>3. /\ Walk /\ AwayFromEntry /\ Held /\ (WellSized => Rungs /\ Drawn)
        /\ [AveragingNext]_avars
        => Held' /\ (WellSized => Rungs /\ Drawn)'
    BY <1>2, SizesStay, NextRungs, NextHeld, NextDrawn
  <1>4. Walk /\ Held /\ (WellSized => Rungs /\ Drawn) => WithinReach
    BY DrawnWithinReach DEF WithinReach
  <1> QED BY <1>1, <1>3, <1>4, InitHeld, StandingWalk, PTL DEF AveragingSpec

-------------------------------------------------------------------------------
(* The count of the filled rungs *)

\* The unit getFilledSafetyCount takes: at the average price.
UnitAtAverage == RoundUpToStep(MinNotional * weight * amt, cost)

\* The base order is a unit at most, or the next quantity that is enough for a
\* price this side of the middle between the entry and the first rung.
BaseFromTick ==
  \/ amt <= UnitQty
  \/ /\ amt % StepSize = 0
     /\ \E slip \in Slips :
          /\ (amt - StepSize) * (entry - slip) < MinNotional * weight
          /\ 2 * slip <= entry - RoundToTick(entry - SafeATR("30m"))

Counted ==
  /\ IF direction = "LONG" THEN cost <= entry * amt
                           ELSE entry * amt <= cost /\ cost <= LastPrice * amt
  /\ 2 * Extra >= -(3 * UnitQty)
  /\ filled = 0 => cost = entry * amt /\ amt <= 2 * UnitQty /\ BaseFromTick
  /\ direction = "LONG" /\ filled >= 1 /\ InRange => Extra <= UnitQty
  /\ direction = "LONG" /\ filled = 1 /\ InRange => 2 * amt < 7 * UnitAtAverage

LEMMA MultipleIs ==
  ASSUME NEW q \in Nat \ {0}, NEW s \in Nat \ {0}, q % s = 0
  PROVE  \E c \in Nat \ {0} : q = c * s
PROOF
  <1> DEFINE c == q \div s
  <1>1. q = c * s /\ c \in Int
    OBVIOUS
  <1> HIDE DEF c
  <1>2. c > 0
    <2>1. SUFFICES ASSUME c <= 0 PROVE FALSE
      BY <1>1
    <2>2. c * s <= 0 * s /\ 0 * s = 0
      BY <1>1, <2>1, ProductOrder
    <2> QED BY <1>1, <2>2
  <1> QED BY <1>1, <1>2

\* Multiples of a step less than a step out of order are in order.
LEMMA StepsInOrder ==
  ASSUME NEW a \in Nat \ {0}, NEW b \in Nat \ {0}, NEW s \in Nat \ {0},
         a % s = 0, b % s = 0, NEW m \in {1, 2}, b - s < m * a
  PROVE  b <= m * a
PROOF
  <1>1. PICK c \in Nat \ {0} : a = c * s
    BY MultipleIs
  <1>2. PICK d \in Nat \ {0} : b = d * s
    BY MultipleIs
  <1>3. d <= m * c
    <2>1. SUFFICES ASSUME m * c <= d - 1 PROVE FALSE
      OBVIOUS
    <2>2. (m * c) * s <= (d - 1) * s
      BY <2>1, ProductOrder
    <2>3. (d - 1) * s = b - s /\ (m * c) * s = m * a
      BY <1>1, <1>2
    <2> QED BY <2>2, <2>3
  <1>4. d * s <= (m * c) * s
    BY <1>3, ProductOrder
  <1> QED BY <1>1, <1>2, <1>4

\* The unit at the average price c / a: no smaller than the unit where the
\* average is no larger than the entry, no larger where it is no smaller, and no
\* less than half of it, or more than twice of it, in range.
LEMMA UnitAtPrice ==
  ASSUME entry \in Nat \ {0}, weight \in Nat \ {0},
         NEW a \in Nat \ {0}, NEW c \in Nat \ {0},
         NEW u, u = RoundUpToStep(MinNotional * weight * a, c)
  PROVE  /\ u \in Nat \ {0} /\ u % StepSize = 0
         /\ u * c >= (MinNotional * weight) * a
         /\ c <= entry * a => UnitQty <= u
         /\ entry * a <= c => u <= UnitQty
         /\ c <= 2 * (entry * a) => UnitQty <= 2 * u
PROOF
  <1> DEFINE num == MinNotional * weight
  <1>1. StepSize \in Nat \ {0} /\ num \in Nat \ {0}
    BY LadderAssumption
  <1>2. MinNotional * weight * a = num * a
    OBVIOUS
  <1> HIDE DEF num
  <1>3. num * a \in Nat \ {0}
    BY <1>1
  <1>4. /\ u \in Nat \ {0} /\ u % StepSize = 0 /\ u * c >= num * a
        /\ (u - StepSize) * c < num * a
    BY <1>2, <1>3, RoundUpFits
  <1> DEFINE v == UnitQty
             e == entry
  <1>5. /\ v \in Nat \ {0} /\ v % StepSize = 0 /\ v * e >= num
        /\ (v - StepSize) * e < num
    BY <1>1, RoundUpFits DEF UnitQty, num
  <1>6. e \in Nat \ {0}
    OBVIOUS
  <1> HIDE DEF v, e
  <1>7. ASSUME NEW m \in {1, 2}, c <= m * (e * a) PROVE v <= m * u
    <2>1. u * c <= u * (m * (e * a))
      BY <1>4, <1>6, <1>7, ProductOrder
    <2>2. u * (m * (e * a)) = ((m * u) * e) * a
      BY <1>4, <1>6
    <2>3. num * a <= ((m * u) * e) * a
      BY <1>1, <1>3, <1>4, <1>6, <2>1, <2>2
    <2>4. num <= (m * u) * e
      BY <1>1, <1>4, <1>6, <2>3, Cancels
    <2>5. v - StepSize < m * u
      <3>1. SUFFICES ASSUME m * u <= v - StepSize PROVE FALSE
        BY <1>1, <1>4, <1>5
      <3>2. (m * u) * e <= (v - StepSize) * e
        BY <1>1, <1>4, <1>5, <1>6, <3>1, ProductOrder
      <3> QED BY <1>1, <1>4, <1>5, <1>6, <2>4, <3>2
    <2> QED BY <1>1, <1>4, <1>5, <2>5, StepsInOrder
  <1>8. ASSUME e * a <= c PROVE u <= v
    <2>1. v * (e * a) <= v * c
      BY <1>5, <1>6, <1>8, ProductOrder
    <2>2. num * a <= (v * e) * a
      BY <1>1, <1>5, <1>6, ProductOrder
    <2>3. (v * e) * a = v * (e * a)
      BY <1>5, <1>6
    <2>4. (u - StepSize) * c < v * c
      BY <1>1, <1>3, <1>4, <1>5, <1>6, <2>1, <2>2, <2>3
    <2>5. u - StepSize < 1 * v
      <3>1. SUFFICES ASSUME v <= u - StepSize PROVE FALSE
        BY <1>1, <1>4, <1>5
      <3>2. v * c <= (u - StepSize) * c
        BY <1>1, <1>4, <1>5, <3>1, ProductOrder
      <3>3. v * c \in Int /\ (u - StepSize) * c \in Int
        BY <1>1, <1>4, <1>5
      <3> QED BY <2>4, <3>2, <3>3
    <2>6. u <= 1 * v
      BY <1>1, <1>4, <1>5, <2>5, StepsInOrder
    <2> QED BY <1>5, <2>6
  <1>9. c <= e * a => v <= u
    <2>1. 1 * (e * a) = e * a /\ 1 * u = u
      BY <1>4, <1>6
    <2> QED BY <1>7, <2>1
  <1>10. c <= 2 * (e * a) => v <= 2 * u
    BY <1>7
  <1> QED BY <1>4, <1>8, <1>9, <1>10 DEF num, v, e

\* A base order of b steps and a first rung of q are not taken for two rungs,
\* when a unit has c steps at the entry e and u at their average: the first rung
\* p is not below half the entry, and m is MinNotional.  Both are larger than a
\* unit only if rounding up made them so, and then the unit at the average is
\* larger too, or there are few steps to a unit.
LEMMA FirstRungIsOne ==
  ASSUME NEW e \in Nat \ {0}, NEW p \in Nat \ {0}, p <= e, e <= 2 * p,
         NEW m \in Nat \ {0},
         NEW c \in Nat \ {0}, (c - 1) * e < m, m <= c * e,
         NEW b \in Nat \ {0}, b <= 2 * c, b <= c \/ (b - 1) * (e + p) < 2 * m,
         NEW q \in Nat \ {0}, q <= 2 * c, q <= c \/ (q - 1) * p < m,
         NEW u \in Nat \ {0}, c <= u, m * (b + q) <= u * (b * e + q * p)
  PROVE  2 * (b + q) < 7 * u
PROOF
  <1>1. CASE b <= c \/ q <= c
    BY <1>1
  <1>2. CASE ~(b <= c \/ q <= c)
    <2> DEFINE w == b * e + q * p
    <2>1. w \in Nat \ {0} /\ b * e \in Nat /\ b * p \in Nat /\ q * p \in Nat
      OBVIOUS
    <2>2. (b - 1) * (e + p) = b * e + b * p - e - p /\ (q - 1) * p = q * p - p
      OBVIOUS
    <2>3. b * e + b * p - e - p < 2 * m /\ q * p - p < m
      BY <1>2, <2>2
    <2>4. CASE 2 * w < 7 * m
      <3>1. SUFFICES ASSUME 7 * u <= 2 * (b + q) PROVE FALSE
        OBVIOUS
      <3>2. (7 * u) * w <= (2 * (b + q)) * w
        BY <2>1, <3>1, ProductOrder
      <3>3. (2 * w) * (b + q) < (7 * m) * (b + q)
        <4>1. (2 * w + 1) * (b + q) <= (7 * m) * (b + q)
          BY <2>1, <2>4, ProductOrder
        <4>2. (2 * w + 1) * (b + q) = (2 * w) * (b + q) + (b + q)
          BY <2>1
        <4> QED BY <2>1, <4>1, <4>2
      <3>4. m * (b + q) <= u * w
        OBVIOUS
      <3> HIDE DEF w
      <3>5. /\ (7 * u) * w = 7 * (u * w) /\ (7 * m) * (b + q) = 7 * (m * (b + q))
            /\ (2 * (b + q)) * w = (2 * w) * (b + q)
            /\ u * w \in Int /\ m * (b + q) \in Int /\ (2 * w) * (b + q) \in Int
        BY <2>1
      <3> QED BY <3>2, <3>3, <3>4, <3>5
    <2>5. CASE 7 * m <= 2 * w
      <3>1. b * e <= b * (2 * p) /\ b * (2 * p) = 2 * (b * p)
        BY ProductOrder
      <3>2. m < 2 * e
        BY <2>1, <2>3, <2>5, <3>1
      <3>3. c <= 2
        <4>1. SUFFICES ASSUME 2 <= c - 1 PROVE FALSE
          OBVIOUS
        <4>2. 2 * e <= (c - 1) * e
          BY <4>1, ProductOrder
        <4>3. (c - 1) * e \in Int
          OBVIOUS
        <4> QED BY <3>2, <4>2, <4>3
      <3>4. CASE c = 1
        <4>1. b = 2 /\ q = 2
          BY <1>2, <3>4
        <4>2. u >= 2
          <5>1. SUFFICES ASSUME u = 1 PROVE FALSE
            OBVIOUS
          <5>2. m * 4 <= 2 * e + 2 * p
            BY <4>1, <5>1
          <5>3. 1 * (e + p) < 2 * m
            BY <1>2, <4>1
          <5> QED BY <5>2, <5>3
        <4> QED BY <4>1, <4>2
      <3>5. CASE c = 2
        <4>1. m <= 2 * e
          BY <3>5
        <4>2. b = 3
          <5>1. b \in {3, 4}
            BY <1>2, <3>5
          <5>2. ASSUME b = 4 PROVE FALSE
            <6>1. 3 * (e + p) < 2 * m
              BY <1>2, <5>2
            <6> QED BY <4>1, <6>1
          <5> QED BY <5>1, <5>2
        <4>3. q \in {3, 4} /\ u >= 2
          BY <1>2, <3>5
        <4>4. CASE q = 3
          BY <4>2, <4>3, <4>4
        <4>5. CASE q = 4
          <5>1. u > 2
            <6>1. SUFFICES ASSUME u = 2 PROVE FALSE
              BY <4>3
            <6>2. m * 7 <= 2 * (3 * e + 4 * p)
              BY <4>2, <4>5, <6>1
            <6>3. 3 * p < m
              BY <1>2, <4>5
            <6> QED BY <6>2, <6>3
          <5> QED BY <4>2, <4>5, <5>1
        <4> QED BY <4>3, <4>4, <4>5
      <3> QED BY <3>3, <3>4, <3>5
    <2> QED BY <2>1, <2>4, <2>5
  <1> QED BY <1>1, <1>2

\* The greatest of a set of numbers with a bound.
LEMMA MaxIs ==
  ASSUME NEW s \in SUBSET Nat, NEW x \in s, NEW b \in Nat, \A y \in s : y <= b
  PROVE  Max(s) \in s /\ \A y \in s : y <= Max(s)
PROOF
  <1> DEFINE T == {n \in Nat : b - n \in s}
  <1>1. b - x \in T
    BY DEF T
  <1>2. PICK n \in T : \A k \in T : n <= k
    BY <1>1, LeastElement
  <1>3. b - n \in s /\ \A y \in s : y <= b - n
    <2> SUFFICES ASSUME NEW y \in s PROVE y <= b - n
      BY <1>2
    <2>1. b - y \in T
      OBVIOUS
    <2>2. n \in Nat /\ y \in Nat
      OBVIOUS
    <2> HIDE DEF T
    <2>3. n <= b - y
      BY <1>2, <2>1
    <2> QED BY <2>2, <2>3
  <1> HIDE DEF T
  <1>4. \E m \in s : \A y \in s : m >= y
    BY <1>3
  <1>5. Max(s) \in s /\ \A y \in s : Max(s) >= y
    BY <1>4 DEF Max
  <1> QED BY <1>5

LEMMA MaxOfTwo ==
  ASSUME NEW k \in Nat
  PROVE  Max({1, k}) = IF k = 0 THEN 1 ELSE k
PROOF
  <1>1. {1, k} \in SUBSET Nat /\ 1 \in {1, k} /\ k + 1 \in Nat
        /\ \A y \in {1, k} : y <= k + 1
    OBVIOUS
  <1>2. Max({1, k}) \in {1, k} /\ \A y \in {1, k} : y <= Max({1, k})
    BY <1>1, MaxIs
  <1> QED BY <1>2

\* The loop stops before the first rung that is not reached, and not before the
\* last that is.
LEMMA CountIsBetween ==
  /\ FilledSafetyCount \in Nat \ {0}
  /\ \A n \in Nat \ {0} :
       (n + 1 <= MaxSafetyOrders => ~Reaches(n + 1)) => FilledSafetyCount <= n
  /\ \A n \in 1 .. MaxSafetyOrders :
       (\A k \in 1 .. n : Reaches(k)) => n <= FilledSafetyCount
PROOF
  <1> DEFINE s == {1} \cup {n \in 1 .. MaxSafetyOrders : \A k \in 1 .. n : Reaches(k)}
  <1>1. MaxSafetyOrders \in Nat
    BY LadderAssumption
  <1>2. s \in SUBSET Nat /\ 1 \in s /\ MaxSafetyOrders + 1 \in Nat
        /\ \A y \in s : y <= MaxSafetyOrders + 1
    BY <1>1
  <1>3. FilledSafetyCount = Max(s)
    BY DEF FilledSafetyCount
  <1>4. FilledSafetyCount \in s /\ \A y \in s : y <= FilledSafetyCount
    <2> HIDE DEF s
    <2> QED BY <1>2, <1>3, MaxIs
  <1>5. FilledSafetyCount \in Nat \ {0}
    <2> DEFINE m == FilledSafetyCount
    <2>1. m \in s
      BY <1>4
    <2> HIDE DEF m
    <2> QED BY <1>1, <2>1 DEF m
  <1>6. ASSUME NEW n \in Nat \ {0}, n + 1 <= MaxSafetyOrders => ~Reaches(n + 1),
               ~(FilledSafetyCount <= n)
        PROVE  FALSE
    <2> DEFINE m == FilledSafetyCount
    <2>1. m \in s /\ m # 1
      BY <1>4, <1>5, <1>6
    <2> HIDE DEF m
    <2>2. m \in 1 .. MaxSafetyOrders /\ \A k \in 1 .. m : Reaches(k)
      BY <2>1
    <2>3. n + 1 \in 1 .. m /\ n + 1 <= MaxSafetyOrders
      BY <1>1, <1>5, <1>6, <2>2 DEF m
    <2> QED BY <1>6, <2>2, <2>3
  <1>7. ASSUME NEW n \in 1 .. MaxSafetyOrders, \A k \in 1 .. n : Reaches(k)
        PROVE  n <= FilledSafetyCount
    <2>1. n \in s
      BY <1>7
    <2> QED BY <1>3, <1>4, <2>1
  <1> QED BY <1>5, <1>6, <1>7

\* The units of the base order and n rungs are one less than the number after next.
LEMMA UnitsAre ==
  ASSUME NEW n \in 1 .. MaxSafetyOrders
  PROVE  Units[n] = getFibonacci[n + 2] - 1
PROOF
  <1> DEFINE f == getFibonacci
             Good == {l \in Nat : 1 + Sum(f, 1 .. l) = f[l + 2] - 1}
  <1>1. \A k \in Nat \ {0} : f[k] \in Int
    BY FibonacciPositive
  <1>2. 0 \in Good
    <2>1. 1 .. 0 = {} /\ f[0 + 2] = 2
      BY FibonacciRecursion DEF Fib
    <2> QED BY <2>1, SumEmpty
  <1>3. ASSUME NEW l \in Nat, l \in Good PROVE l + 1 \in Good
    <2>1. Sum(f, 1 .. l + 1) = Sum(f, 1 .. l) + f[l + 1] /\ Sum(f, 1 .. l) \in Int
      BY <1>1, SumGrows
    <2>2. f[l + 1 + 2] = f[l + 1 + 1] + f[l + 1] /\ l + 1 + 1 = l + 2
      BY FibonacciGrows
    <2>3. f[l + 1] \in Int /\ f[l + 2] \in Int /\ 1 + Sum(f, 1 .. l) = f[l + 2] - 1
      BY <1>1, <1>3
    <2> HIDE DEF f
    <2>4. 1 + Sum(f, 1 .. l + 1) = f[l + 1 + 2] - 1
      BY <2>1, <2>2, <2>3
    <2> QED BY <2>4
  <1> HIDE DEF Good
  <1>4. n \in Good
    BY <1>2, <1>3, NatSetInduction
  <1>5. Units[n] = 1 + Sum(f, 1 .. n)
    BY DEF Units, Sum
  <1> QED BY <1>4, <1>5 DEF Good

\* Rung n is reached with the size of half a unit less than base order and n rungs.
LEMMA ReachesIs ==
  ASSUME NEW n \in 1 .. MaxSafetyOrders
  PROVE  /\ Reaches(n) <=> 2 * amt >= UnitAtAverage * (2 * getFibonacci[n + 2] - 3)
         /\ getFibonacci[n + 2] \in Nat
PROOF
  <1>1. getFibonacci[n + 2] \in Nat /\ Units[n] = getFibonacci[n + 2] - 1
    BY UnitsAre, FibonacciPositive
  <1>2. 2 * Units[n] - 1 = 2 * getFibonacci[n + 2] - 3
    BY <1>1
  <1> QED BY <1>1, <1>2 DEF Reaches, UnitAtAverage

LEMMA FibonacciMonotone ==
  ASSUME NEW n \in Nat
  PROVE  \A m \in 0 .. n : getFibonacci[m] <= getFibonacci[n]
PROOF
  <1> DEFINE f == getFibonacci
             Good == {l \in Nat : \A m \in 0 .. l : f[m] <= f[l]}
  <1>1. \A l \in Nat : f[l] \in Nat /\ f[l] + 1 <= f[l + 1]
    BY FibonacciGrows
  <1> HIDE DEF f
  <1>2. 0 \in Good
    BY <1>1
  <1>3. ASSUME NEW l \in Nat, l \in Good PROVE l + 1 \in Good
    <2> SUFFICES ASSUME NEW m \in 0 .. l + 1 PROVE f[m] <= f[l + 1]
      OBVIOUS
    <2>1. CASE m \in 0 .. l
      <3>1. f[m] <= f[l]
        BY <1>3, <2>1
      <3> QED BY <1>1, <3>1
    <2>2. CASE m = l + 1
      BY <1>1, <2>2
    <2> QED BY <2>1, <2>2
  <1> HIDE DEF Good
  <1>4. n \in Good
    BY <1>2, <1>3, NatSetInduction
  <1> QED BY <1>4 DEF Good, f

LEMMA InitCounted ==
  WellSized /\ FirstRungClear /\ AveragingInit => Counted
PROOF
  <1> SUFFICES ASSUME WellSized, FirstRungClear, AveragingInit PROVE Counted
    OBVIOUS
  <1>1. /\ entry \in Entries /\ weight \in Weights /\ direction \in Directions
        /\ atr \in [Intervals -> ATRs] /\ filled = 0 /\ cost = amt * entry
        /\ entry \in Nat \ {0} /\ weight \in Nat \ {0}
    BY LadderAssumption DEF AveragingInit, Init
  <1>2. LastPrice = entry
    BY <1>1 DEF LastPrice
  <1> DEFINE num == MinNotional * weight
             qty(price) == RoundUpToStep(num, price)
  <1>3. num \in Nat \ {0} /\ StepSize \in Nat \ {0}
    BY <1>1, LadderAssumption
  <1>4. UnitQty \in Nat \ {0}
    BY <1>1, UnitFits
  <1>51. PICK slip \in Slips : amt \in {BaseQty(entry - slip), BaseQty(entry + slip)}
    BY DEF AveragingInit
  <1>52. PICK price \in {entry - slip, entry + slip} : amt = BaseQty(price)
    BY <1>51
  <1>6. slip \in Nat /\ price \in Nat \ {0} /\ price <= 2 * entry /\ slip < entry
    BY <1>1, AveragingAssumption
  <1>7. /\ qty(price) \in Nat \ {0} /\ qty(price) % StepSize = 0
        /\ (qty(price) - StepSize) * price < num
    <2> HIDE DEF num
    <2> QED BY <1>3, <1>6, RoundUpFits
  <1>8. /\ entry <= price => qty(price) <= UnitQty
        /\ UnitQty <= 2 * qty(price)
    <2>1. qty(price) = RoundUpToStep(num * 1, price) /\ entry * 1 = entry
      BY <1>1, <1>3
    <2> QED BY <1>1, <1>6, <2>1, UnitAtPrice
  <1>9. qty(price) <= 2 * UnitQty
    BY <1>1, BaseIsSmall DEF UnitQty, WellSized
  <1>10. MinQty \in Nat /\ MinQty <= UnitQty
    BY LadderAssumption DEF WellSized
  <1>11. amt \in {qty(price), MinQty} /\ qty(price) <= amt
    <2> DEFINE s == {qty(price), MinQty}
               b == qty(price) + MinQty
    <2>1. s \in SUBSET Nat /\ qty(price) \in s /\ b \in Nat /\ \A y \in s : y <= b
      <3> HIDE DEF qty
      <3> QED BY <1>7, <1>10
    <2>2. Max(s) \in s /\ \A y \in s : y <= Max(s)
      <3> HIDE DEF s, b
      <3> QED BY <2>1, MaxIs
    <2>3. amt = Max(s)
      BY <1>52 DEF BaseQty
    <2> HIDE DEF qty
    <2> QED BY <2>2, <2>3
  <1>12. amt \in Nat \ {0} /\ amt <= 2 * UnitQty /\ UnitQty <= 2 * amt
    <2> HIDE DEF qty
    <2> QED BY <1>4, <1>7, <1>8, <1>9, <1>10, <1>11
  <1>13. BaseFromTick
    <2>1. CASE amt <= UnitQty
      BY <2>1 DEF BaseFromTick
    <2>2. CASE ~(amt <= UnitQty)
      <3>1. amt = qty(price) /\ price = entry - slip
        <4> HIDE DEF qty
        <4> QED BY <1>1, <1>4, <1>6, <1>8, <1>10, <1>11, <2>2
      <3>3. 2 * slip <= entry - RoundToTick(entry - SafeATR("30m"))
        BY DEF FirstRungClear
      <3>4. amt % StepSize = 0 /\ (amt - StepSize) * (entry - slip) < MinNotional * weight
        BY <1>7, <3>1
      <3> QED BY <3>3, <3>4 DEF BaseFromTick
    <2> QED BY <2>1, <2>2
  <1>14. 2 * Extra >= -(3 * UnitQty)
    <2>1. filled + 2 = 2 /\ getFibonacci[2] = 2
      BY <1>1, FibonacciRecursion DEF Fib
    <2>2. Extra = amt - UnitQty * 2
      BY <2>1 DEF Extra
    <2> QED BY <1>4, <1>12, <2>2
  <1>15. cost = entry * amt
    BY <1>1, <1>12
  <1>16. ~(filled >= 1) /\ ~(filled = 1) /\ entry * amt \in Int
    BY <1>1, <1>12
  <1> QED BY <1>1, <1>2, <1>12, <1>13, <1>14, <1>15, <1>16 DEF Counted

LEMMA PlacingCounts ==
  ASSUME Walk, Held, Counted, UNCHANGED avars \/ PlaceRung
  PROVE  Counted'
PROOF
  <1>1. /\ UNCHANGED <<direction, entry, weight, atr, filled, amt, cost>>
        /\ LastPrice' = LastPrice
    BY PlacingKeeps
  <1>2. /\ SafeATR("30m")' = SafeATR("30m") /\ UnitQty' = UnitQty
        /\ getFibonacci' = getFibonacci
    BY <1>1 DEF SafeATR, UnitQty
  <1>3. /\ Extra' = Extra /\ InRange' = InRange /\ UnitAtAverage' = UnitAtAverage
        /\ BaseFromTick' = BaseFromTick
    BY <1>1, <1>2 DEF Extra, InRange, UnitAtAverage, BaseFromTick, RoundToTick
  <1> QED BY <1>1, <1>2, <1>3 DEF Counted
\* In range the first rung is two units at most.
LEMMA FirstRungIsSmall ==
  ASSUME entry \in Nat \ {0}, weight \in Nat \ {0},
         NEW r \in Nat \ {0}, entry <= 2 * r,
         NEW q, q = RungQty(1, r)
  PROVE  /\ q \in Nat \ {0} /\ q % StepSize = 0 /\ q <= 2 * UnitQty
         /\ q <= UnitQty \/ (q - StepSize) * r < MinNotional * weight
         /\ UnitQty * getFibonacci[1] = UnitQty
PROOF
  <1> DEFINE num == MinNotional * weight
             u == UnitQty
  <1>1. /\ u \in Nat \ {0} /\ u % StepSize = 0 /\ u * entry >= num
        /\ StepSize \in Nat \ {0} /\ num \in Nat \ {0}
    <2>1. num \in Nat \ {0} /\ StepSize \in Nat \ {0}
      BY LadderAssumption
    <2> HIDE DEF num
    <2> QED BY <2>1, RoundUpFits DEF UnitQty, num
  <1>2. u * getFibonacci[1] = u
    <2>1. getFibonacci[1] = 1
      BY FibonacciRecursion DEF Fib
    <2> QED BY <1>1, <2>1
  <1>3. q \in Nat \ {0} /\ q % StepSize = 0
    BY RungFits
  <1>4. q # u => (q - StepSize) * r < num
    BY <1>2, RungExceeds
  <1> HIDE DEF num, u
  <1>5. q # u => q <= 2 * u
    <2> SUFFICES ASSUME q # u PROVE q <= 2 * u
      OBVIOUS
    <2>1. u * entry <= u * (2 * r)
      BY <1>1, ProductOrder
    <2>2. u * (2 * r) = (2 * u) * r
      BY <1>1
    <2>3. q - StepSize < 2 * u
      <3>1. SUFFICES ASSUME 2 * u <= q - StepSize PROVE FALSE
        BY <1>1, <1>3
      <3>2. (2 * u) * r <= (q - StepSize) * r
        BY <1>1, <1>3, <3>1, ProductOrder
      <3>3. (2 * u) * r \in Int /\ (q - StepSize) * r \in Int /\ u * entry \in Int
        BY <1>1, <1>3
      <3> QED BY <1>1, <1>4, <2>1, <2>2, <3>2, <3>3
    <2> QED BY <1>1, <1>3, <2>3, StepsInOrder
  <1>6. q <= 2 * u /\ (q <= u \/ (q - StepSize) * r < num)
    BY <1>1, <1>3, <1>4, <1>5
  <1> QED BY <1>2, <1>3, <1>6 DEF num, u

\* FirstRungIsOne, in quantities that are whole steps s.
LEMMA StepsAreOne ==
  ASSUME NEW e \in Nat \ {0}, NEW r \in Nat \ {0}, r <= e, e <= 2 * r,
         NEW m \in Nat \ {0}, NEW s \in Nat \ {0},
         NEW v \in Nat \ {0}, v % s = 0, (v - s) * e < m, m <= v * e,
         NEW a \in Nat \ {0}, a % s = 0, a <= 2 * v, (a - s) * (e + r) < 2 * m,
         NEW q \in Nat \ {0}, q % s = 0, q <= 2 * v, (q - s) * r < m,
         NEW u \in Nat \ {0}, u % s = 0, v <= u, m * (a + q) <= u * (e * a + q * r)
  PROVE  2 * (a + q) < 7 * u
PROOF
  <1>1. PICK c \in Nat \ {0} : v = c * s
    BY MultipleIs
  <1>2. PICK b \in Nat \ {0} : a = b * s
    BY MultipleIs
  <1>3. PICK k \in Nat \ {0} : q = k * s
    BY MultipleIs
  <1>4. PICK w \in Nat \ {0} : u = w * s
    BY MultipleIs
  <1> DEFINE ee == s * e
             pp == s * r
  <1>5. ee \in Nat \ {0} /\ pp \in Nat \ {0} /\ pp <= ee /\ ee <= 2 * pp
    <2>1. s * r <= s * e
      BY ProductOrder
    <2>2. s * e <= s * (2 * r) /\ s * (2 * r) = 2 * (s * r)
      BY ProductOrder
    <2> QED BY <2>1, <2>2
  <1>6. (c - 1) * ee < m /\ m <= c * ee
    <2>1. (v - s) * e = (c - 1) * ee /\ v * e = c * ee
      BY <1>1
    <2> QED BY <2>1
  <1>7. b <= 2 * c /\ (b - 1) * (ee + pp) < 2 * m
    <2>1. b * s <= (2 * c) * s
      BY <1>1, <1>2
    <2>2. b <= 2 * c
      BY <2>1, Cancels
    <2>3. (a - s) * (e + r) = (b - 1) * (ee + pp)
      BY <1>2
    <2> QED BY <2>2, <2>3
  <1>8. k <= 2 * c /\ (k - 1) * pp < m
    <2>1. k * s <= (2 * c) * s
      BY <1>1, <1>3
    <2>2. k <= 2 * c
      BY <2>1, Cancels
    <2>3. (q - s) * r = (k - 1) * pp
      BY <1>3
    <2> QED BY <2>2, <2>3
  <1>9. c <= w
    <2>1. c * s <= w * s
      BY <1>1, <1>4
    <2> QED BY <2>1, Cancels
  <1>10. m * (b + k) <= w * (b * ee + k * pp)
    <2> DEFINE x == b * ee
               y == k * pp
    <2>1. m * (a + q) = (m * (b + k)) * s
      BY <1>2, <1>3
    <2>2. e * a = x /\ q * r = y /\ x \in Int /\ y \in Int
      BY <1>2, <1>3
    <2> HIDE DEF x, y, ee, pp
    <2>3. (w * s) * (x + y) = (w * (x + y)) * s /\ x + y \in Int
      BY <2>2
    <2>4. m * (b + k) \in Int /\ w * (x + y) \in Int
      BY <2>2
    <2>5. (m * (b + k)) * s <= (w * (x + y)) * s
      BY <1>4, <2>1, <2>2, <2>3
    <2>6. m * (b + k) <= w * (x + y)
      BY <2>4, <2>5, Cancels
    <2> QED BY <2>6 DEF x, y
  <1> HIDE DEF ee, pp
  <1>11. 2 * (b + k) < 7 * w
    BY <1>5, <1>6, <1>7, <1>8, <1>9, <1>10, FirstRungIsOne
  <1>12. (2 * (b + k) + 1) * s <= (7 * w) * s
    BY <1>11, ProductOrder
  <1>13. (2 * (b + k) + 1) * s = 2 * (a + q) + s /\ (7 * w) * s = 7 * u
    BY <1>2, <1>3, <1>4
  <1> QED BY <1>12, <1>13

\* Base order and first rung are not taken for two rungs.
LEMMA FirstRungCountsOnce ==
  ASSUME entry \in Nat \ {0}, weight \in Nat \ {0},
         NEW r \in Nat \ {0}, r <= entry, entry <= 2 * r,
         r = RoundToTick(entry - SafeATR("30m")),
         amt \in Nat \ {0}, amt <= 2 * UnitQty, BaseFromTick,
         NEW q, q = RungQty(1, r),
         NEW u, u = RoundUpToStep(MinNotional * weight * (amt + q), entry * amt + q * r)
  PROVE  2 * (amt + q) < 7 * u
PROOF
  <1> DEFINE m == MinNotional * weight
             v == UnitQty
             e == entry
             s == StepSize
  <1>1. /\ v \in Nat \ {0} /\ v % s = 0 /\ v * e >= m /\ (v - s) * e < m
        /\ s \in Nat \ {0} /\ m \in Nat \ {0} /\ e \in Nat \ {0}
    <2>1. m \in Nat \ {0} /\ s \in Nat \ {0}
      BY LadderAssumption
    <2> HIDE DEF m
    <2> QED BY <2>1, RoundUpFits DEF UnitQty, m
  <1>2. /\ q \in Nat \ {0} /\ q % s = 0 /\ q <= 2 * v
        /\ q <= v \/ (q - s) * r < m
    BY FirstRungIsSmall
  <1>3. /\ u \in Nat \ {0} /\ u % s = 0 /\ v <= u
        /\ u * (e * amt + q * r) >= m * (amt + q)
    <2> DEFINE a == amt + q
               c == e * amt + q * r
    <2>1. a \in Nat \ {0} /\ c \in Nat \ {0}
      BY <1>1, <1>2
    <2>2. c <= e * a
      <3>1. q * r <= q * e
        BY <1>1, <1>2, ProductOrder
      <3>2. e * a = e * amt + q * e /\ e * amt \in Int /\ q * e \in Int /\ q * r \in Int
        BY <1>1, <1>2
      <3> QED BY <3>1, <3>2
    <2> HIDE DEF a, c
    <2>3. u = RoundUpToStep(MinNotional * weight * a, c)
      BY DEF a, c
    <2>4. /\ u \in Nat \ {0} /\ u % StepSize = 0
          /\ u * c >= (MinNotional * weight) * a
          /\ c <= entry * a => UnitQty <= u
      BY <2>1, <2>3, UnitAtPrice
    <2> QED BY <2>2, <2>4 DEF a, c
  <1>4. CASE amt <= v \/ q <= v
    <2> HIDE DEF v
    <2> QED BY <1>1, <1>2, <1>3, <1>4 DEF v
  <1>5. CASE ~(amt <= v \/ q <= v)
    <2>1. /\ amt % s = 0
          /\ (amt - s) * (e + r) < 2 * m
      <3>1. PICK slip \in Slips :
              /\ (amt - s) * (e - slip) < m
              /\ 2 * slip <= e - r /\ amt % s = 0
        BY <1>5 DEF BaseFromTick
      <3>2. slip \in Nat
        BY AveragingAssumption
      <3>3. amt - s \in Nat
        <4>1. s <= v
          BY <1>1
        <4> HIDE DEF v
        <4> QED BY <1>1, <1>5, <4>1
      <3>4. e + r <= 2 * (e - slip)
        BY <1>1, <3>1, <3>2
      <3> DEFINE b == amt - s
      <3> HIDE DEF b
      <3>5. b * (e + r) <= b * (2 * (e - slip))
        BY <1>1, <3>2, <3>3, <3>4, ProductOrder DEF b
      <3>6. b * (2 * (e - slip)) = 2 * (b * (e - slip)) /\ b * (e - slip) \in Int
            /\ b * (e + r) \in Int /\ b * (e - slip) < m
        BY <1>1, <3>1, <3>2, <3>3 DEF b
      <3> HIDE DEF m
      <3> QED BY <1>1, <3>1, <3>5, <3>6 DEF b
    <2> HIDE DEF v, m, e, s
    <2>2. v <= 2 * v /\ m <= v * e /\ (q - s) * r < m
      BY <1>1, <1>2, <1>5
    <2>3. amt <= 2 * v /\ r <= e /\ e <= 2 * r
      BY DEF v, e
    <2> QED BY <1>1, <1>2, <1>3, <2>1, <2>2, <2>3, StepsAreOne
  <1> QED BY <1>4, <1>5

LEMMA FillCounted ==
  Walk /\ AwayFromEntry /\ Rungs /\ Held /\ Drawn /\ Counted /\ Fill => Counted'
PROOF
  <1> SUFFICES ASSUME Walk, AwayFromEntry, Rungs, Held, Drawn, Counted, Fill
               PROVE  Counted'
    OBVIOUS
  <1> DEFINE n == filled + 1
             r == placed[n].price
             q == placed[n].qty
             p == LastPrice
             f == getFibonacci
             must == UnitQty * f[n]
             v == UnitQty
             x == Extra
  <1>1. /\ UNCHANGED <<direction, entry, weight, atr, placed>>
        /\ filled' = n /\ amt' = amt + q /\ cost' = cost + q * r /\ LastPrice' = r
        /\ UnitQty' = UnitQty
        /\ n \in DOMAIN placed /\ n \in Nat \ {0} /\ filled \in Nat
        /\ entry \in Nat \ {0} /\ weight \in Nat \ {0} /\ direction \in Directions
        /\ amt \in Nat \ {0} /\ cost \in Nat \ {0} /\ p \in Nat \ {0}
        /\ r \in Nat \ {0} /\ q \in Nat \ {0} /\ q = RungQty(n, r)
        /\ IF direction = "LONG" THEN r <= p /\ p <= entry ELSE p <= r /\ entry <= p
        /\ v \in Nat \ {0} /\ must \in Nat /\ must <= q
        /\ IF direction = "LONG" THEN filled > 0 /\ 2 * r >= entry => q = must
                                 ELSE q = must
        /\ x \in Int /\ Extra' = x + (q - must)
    BY FillsRung
  <1>2. /\ n = 1 => must = v /\ r = placed[1].price /\ q = RungQty(1, r)
        /\ filled' # 0
    <2>1. f[1] = 1
      BY FibonacciRecursion DEF Fib
    <2>2. n = 1 => must = v * 1 /\ v * 1 = v
      BY <1>1, <2>1
    <2> HIDE DEF must, v, f
    <2> QED BY <1>1, <2>2
  <1>3. InRange' => IF direction = "LONG" THEN entry <= 2 * r ELSE r <= 2 * entry
    BY <1>1 DEF InRange
  <1> HIDE DEF f, must, r, q, p, v, x
  <1>4. IF direction = "LONG" THEN cost' <= entry * amt'
                              ELSE entry * amt' <= cost' /\ cost' <= r * amt'
    <2>1. /\ entry * (amt + q) = entry * amt + entry * q
          /\ r * (amt + q) = r * amt + r * q /\ r * q = q * r
          /\ entry * q \in Int /\ r * q \in Int /\ entry * amt \in Int /\ r * amt \in Int
      BY <1>1
    <2>2. CASE direction = "LONG"
      <3>1. r * q <= entry * q
        BY <1>1, <2>2, ProductOrder
      <3>2. cost <= entry * amt
        BY <2>2 DEF Counted
      <3> QED BY <1>1, <2>1, <2>2, <3>1, <3>2
    <2>3. CASE direction # "LONG"
      <3>1. entry * q <= r * q
        BY <1>1, <2>3, ProductOrder
      <3>2. entry * amt <= cost /\ cost <= p * amt
        BY <2>3 DEF Counted, p
      <3>3. p * amt <= r * amt
        BY <1>1, <2>3, ProductOrder
      <3>4. p * amt \in Int
        BY <1>1
      <3> QED BY <1>1, <2>1, <2>3, <3>1, <3>2, <3>3, <3>4
    <2> QED BY <2>2, <2>3
  <1>5. 2 * Extra' >= -(3 * v)
    <2>1. 2 * x >= -(3 * v)
      BY DEF Counted, x, v
    <2> QED BY <1>1, <2>1
  <1>6. CASE filled = 0 /\ direction = "LONG" /\ entry <= 2 * r
    <2>1. /\ cost = entry * amt /\ amt <= 2 * v /\ BaseFromTick /\ n = 1
      BY <1>6 DEF Counted, v
    <2>2. q <= 2 * v
      BY <1>1, <1>2, <1>6, <2>1, FirstRungIsSmall DEF v
    <2>3. x = amt - v * 2
      <3>1. filled + 2 = 2 /\ getFibonacci[2] = 2
        BY <1>6, FibonacciRecursion DEF Fib
      <3> QED BY <3>1 DEF Extra, x, v
    <2>4. Extra' <= v
      BY <1>1, <1>2, <2>1, <2>2, <2>3
    <2>5. r = RoundToTick(entry - SafeATR("30m"))
      <3>1. Known
        BY WalkKnown
      <3>2. r = RoundToTick(entry - Walked(1))
        BY <1>1, <1>2, <1>6, <2>1 DEF Rungs, LevelAt
      <3>3. 0 + 1 = 1 /\ 1 .. 0 = {} /\ 0 \in Nat
        OBVIOUS
      <3>4. \A k \in Nat \ {0} : Dist[k] \in Int
        BY <3>1, Distances
      <3>5. Sum(Dist, 1 .. 0) = 0
        BY <3>3, SumEmpty
      <3>6. Sum(Dist, 1 .. 1) = 0 + Dist[1]
        BY <3>3, <3>4, <3>5, SumGrows
      <3>7. Dist[1] = SafeATR("30m")
        BY DEF Dist, StepDist, gridDistances
      <3>8. Walked(1) = SafeATR("30m")
        <4>1. Dist[1] \in Int
          BY <3>4
        <4> QED BY <3>6, <3>7, <4>1 DEF Walked
      <3> QED BY <3>2, <3>8
    <2>6. UnitAtAverage' = RoundUpToStep(MinNotional * weight * (amt + q), entry * amt + q * r)
      BY <1>1, <2>1 DEF UnitAtAverage
    <2>7. 2 * (amt + q) < 7 * UnitAtAverage'
      <3>1. r <= entry
        BY <1>1, <1>6
      <3> QED BY <1>1, <1>2, <1>6, <2>1, <2>5, <2>6, <3>1, FirstRungCountsOnce DEF v
    <2> QED BY <1>1, <1>2, <1>4, <1>5, <1>6, <2>4, <2>7 DEF Counted, v, r
  <1>7. CASE filled > 0 /\ direction = "LONG" /\ entry <= 2 * r
    <2>1. InRange
      BY <1>1, <1>7 DEF InRange, p
    <2>2. x <= v
      BY <1>1, <1>7, <2>1 DEF Counted, x, v
    <2>3. Extra' <= v
      BY <1>1, <1>7, <2>2
    <2>4. filled' # 1
      BY <1>1, <1>7
    <2> QED BY <1>1, <1>2, <1>4, <1>5, <1>7, <2>3, <2>4 DEF Counted, v, r
  <1>8. CASE ~(direction = "LONG" /\ InRange')
    BY <1>1, <1>2, <1>4, <1>5, <1>8 DEF Counted, v, r
  <1> QED BY <1>1, <1>3, <1>6, <1>7, <1>8

LEMMA NextCounted ==
  /\ Walk /\ AwayFromEntry /\ Rungs /\ Held /\ Drawn /\ Counted
  /\ [AveragingNext]_avars
  => Counted'
PROOF
  <1> SUFFICES ASSUME Walk, AwayFromEntry, Rungs, Held, Drawn, Counted,
                      [AveragingNext]_avars
               PROVE  Counted'
    OBVIOUS
  <1> QED BY PlacingCounts, FillCounted DEF AveragingNext

LEMMA CountedCounts ==
  Walk /\ Held /\ Drawn /\ Counted /\ InRange => CountErrsOneWay
PROOF
  <1> SUFFICES ASSUME Walk, Held, Drawn, Counted, InRange PROVE CountErrsOneWay
    OBVIOUS
  <1> DEFINE k == filled
             f == getFibonacci
             u == UnitAtAverage
             v == UnitQty
             x == Extra
             a == amt
             c == FilledSafetyCount
             M == MaxSafetyOrders
  <1>1. /\ k \in Nat /\ k <= M /\ M \in Nat /\ direction \in Directions
        /\ entry \in Nat \ {0} /\ weight \in Nat \ {0}
        /\ a \in Nat \ {0} /\ cost \in Nat \ {0} /\ LastPrice \in Nat \ {0}
    BY LenProperties, LadderAssumption DEF Held, Walk, Drawn
  <1>2. /\ v \in Nat \ {0} /\ u \in Nat \ {0}
        /\ cost <= entry * a => v <= u
        /\ entry * a <= cost => u <= v
        /\ cost <= 2 * (entry * a) => v <= 2 * u
    BY <1>1, UnitFits, UnitAtPrice DEF UnitAtAverage
  <1>3. IF direction = "LONG" THEN v <= u ELSE u <= v /\ v <= 2 * u
    <2>1. CASE direction = "LONG"
      BY <1>2, <2>1 DEF Counted
    <2>2. CASE direction # "LONG"
      <3>1. entry * a <= cost /\ cost <= LastPrice * a /\ LastPrice <= 2 * entry
        BY <2>2 DEF Counted, InRange
      <3>2. LastPrice * a <= (2 * entry) * a
        BY <1>1, <3>1, ProductOrder
      <3>3. (2 * entry) * a = 2 * (entry * a) /\ LastPrice * a \in Int /\ entry * a \in Int
        BY <1>1
      <3>4. cost <= 2 * (entry * a)
        BY <1>1, <3>1, <3>2, <3>3
      <3> QED BY <1>2, <2>2, <3>1, <3>4
    <2> QED BY <2>1, <2>2
  <1>4. /\ f[k + 1] \in Nat \ {0} /\ f[k + 2] \in Nat \ {0}
        /\ f[k + 3] = f[k + 2] + f[k + 1] /\ f[k + 4] = f[k + 3] + f[k + 2]
        /\ k >= 1 => f[k + 1] >= 2
        /\ k >= 2 => f[k + 1] >= 3
        /\ f[1] = 1 /\ f[2] = 2 /\ f[3] = 3 /\ f[4] = 5
    <2>1. f[1] = 1 /\ f[2] = 2 /\ f[3] = f[2] + f[1] /\ f[4] = f[3] + f[2]
      BY FibonacciRecursion DEF Fib
    <2>2. f[k + 1 + 2] = f[k + 1 + 1] + f[k + 1] /\ f[k + 2 + 2] = f[k + 2 + 1] + f[k + 2]
      BY <1>1, FibonacciGrows
    <2>3. k + 1 + 2 = k + 3 /\ k + 1 + 1 = k + 2 /\ k + 2 + 2 = k + 4 /\ k + 2 + 1 = k + 3
      BY <1>1
    <2>4. \A m \in 0 .. k + 1 : f[m] <= f[k + 1]
      BY <1>1, FibonacciMonotone
    <2>5. f[k + 1] \in Nat \ {0} /\ f[k + 2] \in Nat \ {0}
      BY <1>1, FibonacciPositive
    <2>6. (k >= 1 => 2 \in 0 .. k + 1) /\ (k >= 2 => 3 \in 0 .. k + 1)
      BY <1>1
    <2> HIDE DEF f
    <2> QED BY <2>1, <2>2, <2>3, <2>4, <2>5, <2>6
  <1>5. /\ c \in Nat \ {0}
        /\ \A n \in Nat \ {0} : (n + 1 <= M => ~Reaches(n + 1)) => c <= n
        /\ \A n \in 1 .. M : (\A j \in 1 .. n : Reaches(j)) => n <= c
    BY CountIsBetween
  <1>6. \A n \in 1 .. M : (Reaches(n) <=> 2 * a >= u * (2 * f[n + 2] - 3))
                          /\ f[n + 2] \in Nat
    BY ReachesIs
  <1>7. Max({1, k}) = IF k = 0 THEN 1 ELSE k
    BY <1>1, MaxOfTwo
  <1>8. a = v * f[k + 2] + x /\ x \in Int /\ 2 * x >= -(3 * v) /\ v * f[k + 2] \in Nat
    <2>1. v * f[k + 2] \in Nat
      BY <1>2, <1>4
    <2>2. x = a - v * f[k + 2] /\ 2 * x >= -(3 * v)
      BY DEF Extra, Counted
    <2> DEFINE w == v * f[k + 2]
    <2> HIDE DEF w, x, v
    <2>3. w \in Nat /\ x = a - w
      BY <2>1, <2>2 DEF w
    <2> QED BY <1>1, <2>2, <2>3 DEF w
  <1>9. /\ k = 0 => a <= 2 * v /\ cost = entry * a
        /\ direction = "LONG" /\ k >= 1 => x <= v
        /\ direction = "LONG" /\ k = 1 => 2 * a < 7 * u
        /\ direction # "LONG" => x <= 0
    BY DEF Counted, Drawn
  <1> HIDE DEF k, f, u, v, x, a, c, M
  <1>10. CASE k = 0
    <2>1. v <= u
      BY <1>1, <1>2, <1>9, <1>10
    <2>2. 2 <= M => ~Reaches(2)
      <3>1. 2 <= M => (Reaches(2) <=> 2 * a >= u * (2 * f[4] - 3))
        <4>1. 2 <= M => 2 \in 1 .. M
          BY <1>1
        <4>2. 2 + 2 = 4
          OBVIOUS
        <4> QED BY <1>6, <4>1, <4>2
      <3>2. u * (2 * f[4] - 3) = 7 * u
        BY <1>2, <1>4
      <3> QED BY <1>1, <1>2, <1>9, <1>10, <2>1, <3>1, <3>2
    <2>3. c <= 1
      <3>1. 1 + 1 = 2 /\ 1 \in Nat \ {0}
        OBVIOUS
      <3> QED BY <1>5, <2>2, <3>1
    <2> QED BY <1>1, <1>5, <1>7, <1>10, <2>3 DEF CountErrsOneWay, c, k
  <1>11. CASE direction = "LONG" /\ k >= 1
    <2>1. k + 1 <= M => ~Reaches(k + 1)
      <3> SUFFICES ASSUME k + 1 <= M PROVE 2 * a < u * (2 * f[k + 3] - 3)
        <4>1. k + 1 + 2 = k + 3
          BY <1>1
        <4>2. k + 1 \in 1 .. M => (Reaches(k + 1) <=> 2 * a >= u * (2 * f[k + 3] - 3))
          BY <1>6, <4>1
        <4>3. u * (2 * f[k + 3] - 3) \in Int
          BY <1>2, <1>4
        <4> QED BY <1>1, <1>11, <4>2, <4>3
      <3>1. CASE k = 1
        <4>1. k + 3 = 4 /\ u * (2 * f[4] - 3) = 7 * u
          BY <1>2, <1>4, <3>1
        <4> QED BY <1>9, <1>11, <3>1, <4>1
      <3>2. CASE k >= 2
        <4>1. u * (2 * f[k + 2] + 3) <= u * (2 * f[k + 3] - 3)
          BY <1>2, <1>4, <3>2, ProductOrder
        <4>2. v * f[k + 2] <= u * f[k + 2]
          BY <1>2, <1>3, <1>4, <1>11, ProductOrder
        <4>3. u * (2 * f[k + 2] + 3) = 2 * (u * f[k + 2]) + 3 * u /\ u * f[k + 2] \in Int
              /\ u * (2 * f[k + 3] - 3) \in Int
          BY <1>2, <1>4
        <4>4. 2 * a <= 2 * (u * f[k + 2]) + 2 * u
          BY <1>1, <1>2, <1>3, <1>8, <1>9, <1>11, <4>2, <4>3
        <4> QED BY <1>1, <1>2, <4>1, <4>3, <4>4
      <3> QED BY <1>1, <1>11, <3>1, <3>2
    <2>2. c <= k
      BY <1>1, <1>5, <1>11, <2>1
    <2> QED BY <1>1, <1>7, <1>11, <2>2 DEF CountErrsOneWay, c, k
  <1>12. CASE direction # "LONG" /\ k >= 1
    <2>1. k + 1 + 1 <= M => ~Reaches(k + 1 + 1)
      <3> SUFFICES ASSUME k + 2 <= M PROVE 2 * a < u * (2 * f[k + 4] - 3)
        <4>1. k + 1 + 1 = k + 2 /\ k + 2 + 2 = k + 4
          BY <1>1
        <4>2. k + 2 \in 1 .. M => (Reaches(k + 2) <=> 2 * a >= u * (2 * f[k + 4] - 3))
          BY <1>6, <4>1
        <4>3. u * (2 * f[k + 4] - 3) \in Int
          BY <1>2, <1>4
        <4> QED BY <1>1, <1>12, <4>1, <4>2, <4>3
      <3>1. u * (4 * f[k + 2] + 1) <= u * (2 * f[k + 4] - 3)
        BY <1>2, <1>4, <1>12, ProductOrder
      <3>2. v * f[k + 2] <= (2 * u) * f[k + 2]
        BY <1>2, <1>3, <1>4, <1>12, ProductOrder
      <3>3. u * (4 * f[k + 2] + 1) = 4 * (u * f[k + 2]) + u
            /\ (2 * u) * f[k + 2] = 2 * (u * f[k + 2]) /\ u * f[k + 2] \in Int
            /\ u * (2 * f[k + 4] - 3) \in Int
        BY <1>2, <1>4
      <3>4. 2 * a <= 4 * (u * f[k + 2])
        BY <1>1, <1>8, <1>9, <1>12, <3>2, <3>3
      <3> QED BY <1>1, <1>2, <3>1, <3>3, <3>4
    <2>2. c <= k + 1
      <3>1. k + 1 \in Nat \ {0}
        BY <1>1
      <3> QED BY <1>5, <2>1, <3>1
    <2>3. \A j \in 1 .. k : Reaches(j)
      <3> SUFFICES ASSUME NEW j \in 1 .. k PROVE Reaches(j)
        OBVIOUS
      <3>1. f[j + 2] <= f[k + 2] /\ f[3] <= f[j + 2] /\ f[j + 2] \in Nat
        <4>1. k + 2 \in Nat /\ j + 2 \in Nat /\ j + 2 \in 0 .. k + 2 /\ 3 \in 0 .. j + 2
          BY <1>1
        <4> QED BY <4>1, FibonacciMonotone, FibonacciPositive DEF f
      <3>2. u * (2 * f[j + 2] - 3) <= v * (2 * f[j + 2] - 3)
        BY <1>2, <1>3, <1>4, <1>12, <3>1, ProductOrder
      <3>3. v * (2 * f[j + 2] - 3) <= v * (2 * f[k + 2] - 3)
        BY <1>2, <1>4, <3>1, ProductOrder
      <3>4. v * (2 * f[k + 2] - 3) = 2 * (v * f[k + 2]) - 3 * v
        BY <1>2, <1>4
      <3>5. u * (2 * f[j + 2] - 3) \in Int /\ v * (2 * f[j + 2] - 3) \in Int
        BY <1>2, <3>1
      <3>6. 2 * a >= u * (2 * f[j + 2] - 3)
        BY <1>1, <1>2, <1>8, <3>2, <3>3, <3>4, <3>5
      <3>7. j \in 1 .. M
        BY <1>1
      <3> QED BY <1>6, <3>6, <3>7
    <2>4. k <= c
      BY <1>1, <1>5, <1>12, <2>3
    <2>5. c \in {k, k + 1}
      BY <1>1, <1>5, <2>2, <2>4
    <2> QED BY <1>1, <1>7, <1>12, <2>5 DEF CountErrsOneWay, c, k
  <1> QED BY <1>1, <1>10, <1>11, <1>12

\* Until the price has halved or doubled the rung reported with a safety fill errs
\* to one side only, for any distances of the rungs, where the filters are fine for
\* the position and the first rung is not next to the tick the base order was sized
\* for (getFilledSafetyCount, placeGridOrders).
THEOREM CountErrsOneWayInRange == AveragingSpec => []CountErrsOneWay
PROOF
  <1> DEFINE Sized == WellSized /\ FirstRungClear
             Inv == Sized => Rungs /\ Drawn /\ Counted
  <1>1. AveragingInit => Inv
    BY InitRungs, InitDrawn, InitCounted DEF AveragingInit, WellSized
  <1>2. [AveragingNext]_avars => [Next]_vars
    BY DEF AveragingNext, PlaceRung, Fill, Next, avars
  <1>3. Walk /\ AwayFromEntry /\ Held /\ Inv /\ [AveragingNext]_avars => Held' /\ Inv'
    BY <1>2, SizesStay, NextRungs, NextHeld, NextDrawn, NextCounted
  <1>4. Walk /\ Held /\ Inv => CountErrsOneWay
    BY CountedCounts DEF CountErrsOneWay
  <1> QED BY <1>1, <1>3, <1>4, InitHeld, StandingWalk, PTL DEF AveragingSpec

-------------------------------------------------------------------------------
(* What the exchange refuses *)

\* A later rung is no smaller, if it is at a lower price or at half the entry at
\* least.
LEMMA RungsGrow ==
  ASSUME entry \in Nat \ {0}, weight \in Nat \ {0},
         NEW n \in Nat \ {0}, NEW m \in Nat \ {0}, n < m,
         NEW p \in Nat \ {0}, NEW r \in Nat \ {0}, r <= p \/ entry <= 2 * p
  PROVE  RungQty(n, p) <= RungQty(m, r)
PROOF
  <1> DEFINE f == getFibonacci
             u == UnitQty
             q == RungQty(n, p)
             x == RungQty(m, r)
             s == StepSize
  <1>1. /\ q \in Nat \ {0} /\ q % s = 0
        /\ q - s < u * f[n] \/ (q - s) * p < MinNotional
        /\ x \in Nat \ {0} /\ x % s = 0 /\ r * x >= MinNotional
        /\ u * f[m] <= x
    BY RungFits, RungExceeds
  <1>2. /\ s \in Nat \ {0} /\ MinNotional \in Nat \ {0} /\ u \in Nat \ {0}
        /\ u * entry >= MinNotional
    <2> DEFINE num == MinNotional * weight
    <2>1. num \in Nat \ {0} /\ MinNotional <= num /\ s \in Nat \ {0}
          /\ MinNotional \in Nat \ {0}
      BY LadderAssumption
    <2> HIDE DEF num
    <2>2. u \in Nat \ {0} /\ u * entry >= num
      BY <2>1, RoundUpFits DEF UnitQty, num
    <2>3. u * entry \in Int
      BY <2>2
    <2> HIDE DEF u, s
    <2> QED BY <2>1, <2>2, <2>3
  <1>3. f[n] \in Nat /\ f[m] \in Nat /\ f[n] <= f[m] /\ 2 <= f[m]
    <2>1. n \in 0 .. m /\ 2 \in 0 .. m
      OBVIOUS
    <2>2. f[2] = 2
      BY FibonacciRecursion DEF Fib
    <2> QED BY <2>1, <2>2, FibonacciPositive, FibonacciMonotone
  <1>4. u * f[n] <= u * f[m] /\ u * 2 <= u * f[m]
        /\ u * f[n] \in Int /\ u * f[m] \in Int /\ u * 2 = 2 * u
    BY <1>2, <1>3, ProductOrder
  <1> HIDE DEF f, u, q, x, s
  <1>5. q - s < x
    <2>1. CASE q - s < u * f[n]
      BY <1>1, <1>2, <1>4, <2>1
    <2>2. CASE (q - s) * p < MinNotional
      <3>1. SUFFICES ASSUME x <= q - s PROVE FALSE
        BY <1>1, <1>2
      <3>2. x * p <= (q - s) * p
        BY <1>1, <1>2, <3>1, ProductOrder
      <3>3. x * p >= MinNotional
        <4>1. CASE r <= p
          <5>1. x * r <= x * p /\ x * r = r * x
            BY <1>1, <4>1, ProductOrder
          <5>2. x * p \in Int /\ r * x \in Int
            BY <1>1
          <5> QED BY <1>1, <1>2, <5>1, <5>2
        <4>2. CASE entry <= 2 * p
          <5>1. u * entry <= u * (2 * p) /\ u * (2 * p) = (2 * u) * p
            BY <1>2, <4>2, ProductOrder
          <5>2. (2 * u) * p <= x * p
            <6>1. 2 * u <= x
              BY <1>1, <1>2, <1>4
            <6> QED BY <1>1, <1>2, <6>1, ProductOrder
          <5>3. x * p \in Int /\ (2 * u) * p \in Int /\ u * entry \in Int
            BY <1>1, <1>2
          <5> QED BY <1>2, <5>1, <5>2, <5>3
        <4> QED BY <4>1, <4>2
      <3>4. (q - s) * p \in Int /\ x * p \in Int
        BY <1>1, <1>2
      <3> QED BY <1>2, <2>2, <3>2, <3>3, <3>4
    <2> QED BY <1>1, <2>1, <2>2
  <1>6. q <= 1 * x
    <2>1. q - s < 1 * x
      BY <1>1, <1>5
    <2> QED BY <1>1, <1>2, <2>1, StepsInOrder
  <1> QED BY <1>1, <1>6 DEF q, x

\* What the exchange took is no smaller than the least quantity, and of a short
\* ladder not below half the entry; what it refused has its reason.
Reasons ==
  /\ \A o \in refused : o.rung < i
  /\ \A k \in DOMAIN placed :
       /\ placed[k].rung < i /\ MinQty <= placed[k].qty
       /\ direction # "LONG" => entry <= 2 * placed[k].price
  /\ RefusedAtTheEnds

LEMMA InitReasons == Init => Reasons
PROOF
  <1> SUFFICES ASSUME Init PROVE Reasons
    OBVIOUS
  <1>1. refused = {} /\ DOMAIN placed = {}
    BY EmptySeq DEF Init
  <1> QED BY <1>1 DEF Reasons, RefusedAtTheEnds

\* A rung at a positive price is refused only where a unit is no order, and then
\* nothing stands yet.
LEMMA RefusedFirst ==
  ASSUME Walk, Reasons, Rung,
         NEW price, price = RoundToTick(NextLevel(i)), price > 0,
         NEW order, order = [rung |-> i, price |-> price, qty |-> RungQty(i, price)],
         ~Takes(order)
  PROVE  UnitQty * getFibonacci[i] < MinQty /\ placed = <<>>
PROOF
  <1> DEFINE q == RungQty(i, price)
             must == UnitQty * getFibonacci[i]
  <1>1. /\ entry \in Nat \ {0} /\ weight \in Nat \ {0} /\ direction \in Directions
        /\ i \in Nat \ {0} /\ level \in Int /\ TickSize \in Nat \ {0} /\ MinQty \in Nat
        /\ StepDist(i) \in Nat
    BY LadderAssumption, DistanceIsNat DEF Walk
  <1>2. /\ NextLevel(i) \in Int
        /\ IF direction = "LONG" THEN NextLevel(i) <= level ELSE level <= NextLevel(i)
    BY <1>1 DEF NextLevel
  <1>3. price \in Nat \ {0} /\ price % TickSize = 0
    BY <1>2, RoundMonotone, RoundIsTick
  <1>4. /\ q \in Nat \ {0} /\ q % StepSize = 0 /\ price * q >= MinNotional
        /\ must \in Nat /\ must <= q
    BY <1>1, <1>3, RungFits, RungExceeds
  <1>5. ~(q >= MinQty)
    BY <1>3, <1>4 DEF Takes
  <1>6. must < MinQty
    <2> HIDE DEF must, q
    <2> QED BY <1>1, <1>4, <1>5
  <1>7. ASSUME placed # <<>> PROVE FALSE
    <2> DEFINE k == Len(placed)
               n == placed[k].rung
               p == placed[k].price
    <2>1. k \in DOMAIN placed
      <3>1. placed \in Seq(Orders)
        BY DEF Walk
      <3>2. Len(placed) \in Nat \ {0} /\ DOMAIN placed = 1 .. Len(placed)
        BY <1>7, <3>1, LenProperties, EmptySeq
      <3> QED BY <3>2
    <2>2. /\ n \in 1 .. MaxSafetyOrders /\ p \in Ticks /\ placed[k].qty = RungQty(n, p)
      BY <2>1, OrderPlaced
    <2>3. /\ n < i /\ MinQty <= RungQty(n, p)
          /\ direction # "LONG" => entry <= 2 * p
      BY <2>1, <2>2 DEF Reasons
    <2>4. direction = "LONG" => price <= p
      <3> SUFFICES ASSUME direction = "LONG" PROVE price <= p
        OBVIOUS
      <3>1. /\ RoundToTick(NextLevel(i)) \in Int /\ RoundToTick(level) \in Int
            /\ RoundToTick(NextLevel(i)) <= RoundToTick(level)
        BY <1>1, <1>2, RoundMonotone
      <3>2. RoundToTick(level) <= p
        BY <1>7 DEF Walk
      <3> HIDE DEF p
      <3>3. p \in Int
        BY <2>2 DEF Ticks
      <3> QED BY <3>1, <3>2, <3>3
    <2> HIDE DEF k, n, p
    <2>5. n \in Nat \ {0} /\ p \in Nat \ {0}
      BY <2>2 DEF Ticks
    <2>6. RungQty(n, p) <= q /\ RungQty(n, p) \in Nat
      BY <1>1, <1>3, <2>3, <2>4, <2>5, RungsGrow, RungIsNat
    <2> HIDE DEF q
    <2> QED BY <1>1, <1>4, <1>5, <2>3, <2>6
  <1> QED BY <1>6, <1>7

LEMMA NextReasons == Walk /\ Reasons /\ [Next]_vars => Reasons'
PROOF
  <1> SUFFICES ASSUME Walk, Reasons, [Next]_vars PROVE Reasons'
    OBVIOUS
  <1>1. CASE UNCHANGED vars
    BY <1>1 DEF vars, Reasons, RefusedAtTheEnds, UnitQty
  <1>2. CASE Rung
    <2> DEFINE price == RoundToTick(NextLevel(i))
               order == [rung |-> i, price |-> price, qty |-> RungQty(i, price)]
    <2>1. /\ UNCHANGED <<direction, entry, weight, atr>> /\ i' = i + 1
          /\ placed' = IF Takes(order) THEN Append(placed, order) ELSE placed
          /\ refused' = IF Takes(order) THEN refused ELSE refused \cup {order}
      BY <1>2 DEF Rung
    <2>2. UnitQty' = UnitQty /\ getFibonacci' = getFibonacci
      BY <2>1 DEF UnitQty
    <2>3. /\ i \in Nat \ {0} /\ placed \in Seq(Orders) /\ direction \in Directions
          /\ \A o \in refused : o.rung \in Nat
          /\ \A k \in DOMAIN placed : placed[k].rung \in Nat
      BY OrderPlaced DEF Walk, Refusals
    <2>4. \A o \in refused : o.rung < i'
      BY <2>1, <2>3 DEF Reasons
    <2>5. \A k \in DOMAIN placed :
            /\ placed[k].rung < i' /\ MinQty <= placed[k].qty
            /\ direction # "LONG" => entry <= 2 * placed[k].price
      BY <2>1, <2>3 DEF Reasons
    <2>6. order.rung = i /\ order.price = price /\ order.qty = RungQty(i, price)
      OBVIOUS
    <2>7. CASE Takes(order)
      <3>1. order.qty >= MinQty /\ order.price > 0
        BY <2>7 DEF Takes
      <3>2. direction # "LONG" => entry <= 2 * price
        <4> SUFFICES ASSUME direction # "LONG" PROVE entry <= 2 * price
          OBVIOUS
        <4>1. /\ entry \in Nat \ {0} /\ level \in Int /\ entry <= level /\ StepDist(i) \in Nat
              /\ TickSize \in Nat \ {0} /\ TickSize <= entry
          BY <2>3, LadderAssumption, DistanceIsNat DEF Walk
        <4>2. NextLevel(i) \in Int /\ entry <= NextLevel(i)
          BY <2>3, <4>1 DEF NextLevel
        <4>3. price \in Int /\ 2 * NextLevel(i) < 2 * price + TickSize
          BY <4>1, <4>2, RoundIsNear
        <4> HIDE DEF price
        <4> QED BY <4>1, <4>2, <4>3
      <3> HIDE DEF order, price
      <3>3. placed' = Append(placed, order) /\ refused' = refused
        BY <2>1, <2>7
      <3>4. /\ DOMAIN placed' = 1 .. Len(placed) + 1 /\ DOMAIN placed = 1 .. Len(placed)
            /\ Len(placed) \in Nat
            /\ \A k \in 1 .. Len(placed) : placed'[k] = placed[k]
            /\ placed'[Len(placed) + 1] = order
        <4>1. placed \in Seq(Orders \cup {order}) /\ order \in Orders \cup {order}
          <5>1. \A k \in 1 .. Len(placed) : placed[k] \in Orders
            BY <2>3, ElementOfSeq
          <5>2. placed = [k \in 1 .. Len(placed) |-> placed[k]] /\ Len(placed) \in Nat
            BY <2>3, LenProperties
          <5> QED BY <5>1, <5>2, IsASeq
        <4>2. /\ Append(placed, order) \in Seq(Orders \cup {order})
              /\ Len(Append(placed, order)) = Len(placed) + 1
              /\ \A k \in 1 .. Len(placed) : Append(placed, order)[k] = placed[k]
              /\ Append(placed, order)[Len(placed) + 1] = order
          BY <4>1, AppendProperties
        <4> QED BY <2>3, <3>3, <4>2, LenProperties
      <3>5. ASSUME NEW k \in DOMAIN placed'
            PROVE  /\ placed'[k].rung < i' /\ MinQty <= placed'[k].qty
                   /\ direction # "LONG" => entry <= 2 * placed'[k].price
                   /\ \/ k \in DOMAIN placed /\ placed'[k] = placed[k]
                      \/ placed'[k].rung = i
        <4>1. CASE k \in 1 .. Len(placed)
          BY <2>5, <3>4, <4>1
        <4>2. CASE k = Len(placed) + 1
          BY <2>1, <2>3, <2>6, <3>1, <3>2, <3>4, <4>2
        <4> QED BY <3>4, <4>1, <4>2
      <3>6. RefusedAtTheEnds'
        <4> SUFFICES ASSUME NEW o \in refused, ~(o.price <= 0)
                     PROVE  /\ UnitQty * getFibonacci[o.rung] < MinQty
                            /\ \A k \in DOMAIN placed' : o.rung < placed'[k].rung
          BY <2>2, <3>3 DEF RefusedAtTheEnds
        <4>1. /\ UnitQty * getFibonacci[o.rung] < MinQty /\ o.rung < i
              /\ \A k \in DOMAIN placed : o.rung < placed[k].rung
          BY DEF Reasons, RefusedAtTheEnds
        <4> QED BY <3>5, <4>1
      <3> QED BY <2>1, <2>4, <3>3, <3>5, <3>6 DEF Reasons
    <2>8. CASE ~Takes(order)
      <3>1. placed' = placed /\ refused' = refused \cup {order}
        BY <2>1, <2>8
      <3>2. price > 0 => UnitQty * getFibonacci[i] < MinQty /\ placed = <<>>
        BY <1>2, <2>8, RefusedFirst
      <3>3. price \in Int
        <4>1. NextLevel(i) \in Int
          BY DistanceIsNat DEF NextLevel, Walk
        <4> QED BY <4>1, RoundMonotone
      <3> HIDE DEF order, price
      <3>4. RefusedAtTheEnds'
        <4> SUFFICES ASSUME NEW o \in refused \cup {order}, ~(o.price <= 0)
                     PROVE  /\ UnitQty * getFibonacci[o.rung] < MinQty
                            /\ \A k \in DOMAIN placed : o.rung < placed[k].rung
          BY <2>2, <3>1 DEF RefusedAtTheEnds
        <4>1. CASE o \in refused
          BY <4>1 DEF Reasons, RefusedAtTheEnds
        <4>2. CASE o = order
          <5>1. UnitQty * getFibonacci[i] < MinQty /\ DOMAIN placed = {}
            BY <2>6, <3>2, <3>3, <4>2, EmptySeq
          <5> QED BY <2>6, <4>2, <5>1
        <4> QED BY <4>1, <4>2
      <3>5. \A o \in refused' : o.rung < i'
        BY <2>1, <2>3, <2>4, <2>6, <3>1
      <3> QED BY <2>1, <2>5, <3>1, <3>4, <3>5 DEF Reasons
    <2> QED BY <2>7, <2>8
  <1> QED BY <1>1, <1>2 DEF Next

LEMMA InitBaseFits == AveragingInit => BaseFits
PROOF
  <1> SUFFICES ASSUME AveragingInit PROVE BaseFits
    OBVIOUS
  <1> DEFINE num == MinNotional * weight
             qty(price) == RoundUpToStep(num, price)
  <1>1. /\ entry \in Entries /\ entry \in Nat \ {0} /\ weight \in Nat \ {0}
        /\ MinQty \in Nat /\ MinQty % StepSize = 0
    BY LadderAssumption DEF AveragingInit, Init
  <1>2. num \in Nat \ {0}
    BY <1>1, LadderAssumption
  <1>3. PICK slip \in Slips : amt \in {BaseQty(entry - slip), BaseQty(entry + slip)}
    BY DEF AveragingInit
  <1>4. PICK price \in {entry - slip, entry + slip} : amt = BaseQty(price)
    BY <1>3
  <1>5. slip \in Nat /\ price \in Nat \ {0} /\ price <= entry + slip
    BY <1>1, AveragingAssumption
  <1>6. /\ qty(price) \in Nat \ {0} /\ qty(price) % StepSize = 0
        /\ qty(price) * price >= num
    <2> HIDE DEF num
    <2> QED BY <1>2, <1>5, RoundUpFits
  <1> DEFINE x == qty(price)
             s == {x, MinQty}
             b == x + MinQty
  <1>7. amt = Max(s)
    BY <1>4 DEF BaseQty
  <1> HIDE DEF x, num
  <1>8. s \in SUBSET Nat /\ x \in s /\ b \in Nat /\ \A y \in s : y <= b
    BY <1>1, <1>6 DEF x, num
  <1>9. amt \in s /\ \A y \in s : y <= amt
    <2> HIDE DEF s, b
    <2> QED BY <1>7, <1>8, MaxIs
  <1>10. amt \in Nat /\ amt >= MinQty /\ amt >= x /\ amt % StepSize = 0
    BY <1>1, <1>6, <1>8, <1>9 DEF x, num
  <1>11. (entry + slip) * amt >= num
    <2>1. x * price <= x * (entry + slip)
      BY <1>1, <1>5, <1>6, ProductOrder DEF x, num
    <2>2. x * (entry + slip) <= amt * (entry + slip)
      BY <1>1, <1>5, <1>6, <1>10, ProductOrder DEF x, num
    <2>3. amt * (entry + slip) = (entry + slip) * amt
      BY <1>1, <1>5, <1>10
    <2>4. x * price >= num /\ x \in Int
      BY <1>6 DEF x, num
    <2>5. x * price \in Int /\ x * (entry + slip) \in Int /\ amt * (entry + slip) \in Int
          /\ num \in Int
      BY <1>1, <1>2, <1>5, <1>10, <2>4
    <2> HIDE DEF x
    <2> QED BY <2>1, <2>2, <2>3, <2>4, <2>5
  <1> QED BY <1>10, <1>11 DEF BaseFits, num

LEMMA NextBaseFits ==
  Walk /\ Held /\ (filled = 0 => BaseFits) /\ [AveragingNext]_avars
    => (filled = 0 => BaseFits)'
PROOF
  <1> SUFFICES ASSUME Walk, Held, filled = 0 => BaseFits, [AveragingNext]_avars, filled' = 0
               PROVE  BaseFits'
    OBVIOUS
  <1>1. CASE UNCHANGED avars \/ PlaceRung
    <2>1. UNCHANGED <<entry, weight, filled, amt>>
      BY <1>1 DEF PlaceRung, Rung, avars, vars
    <2> QED BY <2>1 DEF BaseFits
  <1>2. CASE Fill
    <2>1. filled \in Nat /\ filled' = filled + 1
      BY <1>2, LenProperties DEF Held, Walk, Fill
    <2> QED BY <2>1
  <1> QED BY <1>1, <1>2 DEF AveragingNext

\* The exchange takes the base order and refuses of the ladder only what lies below
\* zero, or before the first rung that has the least quantity: for every filter,
\* weight, entry price and ATR (enterLong, enterShort, placeGridOrders).
THEOREM OrdersAlwaysFit == AveragingSpec => []OrdersFit
PROOF
  <1>1. AveragingInit => Reasons /\ (filled = 0 => BaseFits)
    BY InitReasons, InitBaseFits DEF AveragingInit
  <1>2. [AveragingNext]_avars => [Next]_vars
    BY DEF AveragingNext, PlaceRung, Fill, Next, avars
  <1>3. /\ Walk /\ AwayFromEntry /\ Held /\ Reasons /\ (filled = 0 => BaseFits)
        /\ [AveragingNext]_avars
        => Held' /\ Reasons' /\ (filled = 0 => BaseFits)'
    BY <1>2, NextHeld, NextReasons, NextBaseFits
  <1>4. Reasons /\ (filled = 0 => BaseFits) => OrdersFit
    BY DEF OrdersFit, Reasons
  <1> QED BY <1>1, <1>3, <1>4, InitHeld, StandingWalk, PTL DEF AveragingSpec
===============================================================================
