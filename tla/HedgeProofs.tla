------------------------------ MODULE HedgeProofs ------------------------------
(***************************************************************************)
(* The monitor loop for any number of strategies, on either side, whatever *)
(* they trade while they are read and whichever of them cannot be read.    *)
(***************************************************************************)
EXTENDS Hedge, SumProofs

-------------------------------------------------------------------------------
(* The inductive invariant *)

\* The strategies whose positions are in the sums.
WasRead == (1 .. next - 1) \ failed

\* The sums are those of f over the strategies read, a position each had.
Witness(f) ==
  /\ f \in [Strategies -> Values]
  /\ \A l \in WasRead : f[l] \in seen[l]
  /\ longValue = Sum(f, WasRead \cap Longs)
  /\ shortValue = Sum(f, WasRead \ Longs)

Flags == tick \in BOOLEAN /\ closed \in BOOLEAN

Control ==
  /\ loop \in {"select", "reading", "stopped"}
  /\ next \in 1 .. Legs + 1
  /\ verdict \in {"none", "quiet", "alert"}
  /\ failed \subseteq Strategies
  /\ trades \in 0 .. MaxTrades /\ failures \in 0 .. MaxFailures

Types ==
  /\ Control /\ Flags
  /\ value \in [Strategies -> Values]
  /\ seen \in [Strategies -> SUBSET Values]

\* What a strategy holds while the check runs is noted, and a verdict stands on
\* the sums of a complete check.
Follows ==
  /\ loop = "reading" => \A l \in Strategies : value[l] \in seen[l]
  /\ failed \subseteq 1 .. next - 1
  /\ Judged => /\ next = Legs + 1
               /\ verdict = "alert" <=> Deviates(longValue, shortValue)

HInv == Types /\ Follows /\ \E f \in [Strategies -> Values] : Witness(f)

-------------------------------------------------------------------------------
(* Strategies and constants *)

LEMMA Sizes ==
  /\ Legs \in Nat /\ Longs \subseteq Strategies /\ MaxValue \in Nat
  /\ RatioN \in Nat /\ RatioD \in Nat \ {0}
  /\ ThresholdN \in Nat /\ ThresholdD \in Nat \ {0}
  /\ MaxTrades \in Nat /\ MaxFailures \in Nat
  BY HedgeAssumption DEF Strategies

LEMMA StrategiesFinite ==
  \A S \in SUBSET Strategies : IsFiniteSet(S) /\ Cardinality(S) \in Nat
PROOF
  <1>1. IsFiniteSet(Strategies)
    BY Sizes, FS_Interval DEF Strategies
  <1> QED BY <1>1, FS_Subset, FS_CardinalityType

\* The sum of positions is not negative.
LEMMA TotalIsNat ==
  ASSUME NEW f \in [Strategies -> Values], NEW S \in SUBSET Strategies
  PROVE  Sum(f, S) \in 0 .. MaxValue * Cardinality(S) /\ Sum(f, S) \in Nat
PROOF
  <1>1. IsFiniteSet(S) /\ Cardinality(S) \in Nat /\ MaxValue \in Nat
    BY StrategiesFinite, Sizes
  <1>2. \A l \in S : f[l] \in 0 .. MaxValue
    BY DEF Values
  <1> QED BY <1>1, <1>2, SumBounds

LEMMA TotalIsSum == \A f, S : Total(f, S) = Sum(f, S)
  BY DEF Total, Sum

-------------------------------------------------------------------------------
(* The steps *)

LEMMA InitHedge == Init => HInv
PROOF
  <1> SUFFICES ASSUME Init PROVE HInv
    OBVIOUS
  <1>1. Control /\ Follows
    BY Sizes DEF Init, Control, Follows, Judged
  <1>5. Flags
    BY DEF Init, Flags
  <1>2. value \in [Strategies -> Values] /\ seen \in [Strategies -> SUBSET Values]
    BY Sizes DEF Init, Values
  <1>3. WasRead = {}
    BY DEF Init, WasRead
  <1>4. Witness(value)
    BY <1>2, <1>3, SumEmpty DEF Init, Witness
  <1> QED BY <1>1, <1>2, <1>4, <1>5 DEF HInv, Types

LEMMA NextTypes == HInv /\ [Next]_vars => Types'
PROOF
  <1> SUFFICES ASSUME Types, Follows, [Next]_vars PROVE Types'
    BY DEF HInv
  <1> USE Sizes
  <1>1. Control'
    <2> SUFFICES ASSUME Control PROVE Control'
      BY DEF Types
    <2>1. CASE UNCHANGED vars
      BY <2>1 DEF Control, vars, check
    <2>2. CASE \/ \E l \in Strategies, v \in Values : Trade(l, v)
               \/ Tick \/ Judge \/ Stop \/ Exit
      BY <2>2 DEF Control, Trade, Tick, Judge, Stop, Exit, check
    <2>3. CASE Check
      BY <2>3 DEF Control, Check
    <2>4. CASE Read
      BY <2>4 DEF Control, Read
    <2>5. CASE Skip
      BY <2>5 DEF Control, Skip, Strategies
    <2> QED BY <2>1, <2>2, <2>3, <2>4, <2>5 DEF Next
  <1>2. value' \in [Strategies -> Values] /\ seen' \in [Strategies -> SUBSET Values]
    <2>1. ASSUME NEW l \in Strategies, NEW v \in Values, Trade(l, v)
          PROVE  value' \in [Strategies -> Values] /\ seen' \in [Strategies -> SUBSET Values]
      BY <2>1 DEF Types, Trade
    <2>2. CASE Check
      <3>1. \A l \in Strategies : {value[l]} \in SUBSET Values
        BY DEF Types
      <3> QED BY <2>2, <3>1 DEF Types, Check
    <2>3. CASE UNCHANGED vars \/ Tick \/ Read \/ Skip \/ Judge \/ Stop \/ Exit
      <3>1. UNCHANGED <<value, seen>>
        BY <2>3 DEF vars, check, Tick, Read, Skip, Judge, Stop, Exit
      <3> QED BY <3>1 DEF Types
    <2> QED BY <2>1, <2>2, <2>3 DEF Next
  <1>3. Flags'
    BY Zenon DEF Types, Flags, Next, Trade, Tick, Check, Read, Skip, Judge, Stop, Exit,
                 vars, check
  <1> QED BY <1>1, <1>2, <1>3 DEF Types

LEMMA NextFollows == HInv /\ [Next]_vars => Follows'
PROOF
  <1> SUFFICES ASSUME Types, Follows, [Next]_vars PROVE Follows'
    BY DEF HInv
  <1> USE Sizes
  <1>1. CASE UNCHANGED vars
    BY <1>1 DEF Follows, Judged, Deviates, vars, check
  <1>2. ASSUME NEW l \in Strategies, NEW v \in Values, Trade(l, v) PROVE Follows'
    BY <1>2 DEF Types, Control, Follows, Judged, Deviates, Trade
  <1>3. CASE Check
    BY <1>3 DEF Types, Control, Follows, Judged, Check
  <1>4. CASE Read
    BY <1>4 DEF Types, Control, Follows, Judged, Read
  <1>5. CASE Skip
    BY <1>5 DEF Types, Control, Follows, Judged, Skip
  <1>6. CASE Judge
    <2>1. next = Legs + 1
      BY <1>6 DEF Types, Control, Judge
    <2> QED BY <1>6, <2>1 DEF Types, Control, Follows, Judged, Deviates, Judge
  <1>7. CASE Tick \/ Stop \/ Exit
    BY <1>7 DEF Follows, Judged, Deviates, Tick, Stop, Exit, check
  <1> QED BY <1>1, <1>2, <1>3, <1>4, <1>5, <1>6, <1>7 DEF Next

\* The same function remains a witness when nothing it depends on shrinks.
LEMMA WitnessStays ==
  ASSUME NEW f, Witness(f), WasRead' = WasRead, UNCHANGED <<longValue, shortValue>>,
         \A l \in WasRead : seen[l] \subseteq seen'[l]
  PROVE  Witness(f)'
  BY DEF Witness

\* A position that is read is added to the sum of its side.
LEMMA ReadWitness ==
  ASSUME Types, Follows, Read, NEW f, Witness(f)
  PROVE  \E g \in [Strategies -> Values] : Witness(g)'
PROOF
  <1> DEFINE g == [f EXCEPT ![next] = value[next]]
             Long == WasRead \cap Longs
             Short == WasRead \ Longs
  <1>1. /\ next \in Strategies /\ next \notin WasRead /\ failed' = failed /\ seen' = seen
        /\ WasRead \subseteq Strategies /\ WasRead' = WasRead \cup {next}
        /\ value[next] \in Values /\ value[next] \in seen[next]
    BY Sizes DEF Read, Types, Control, Follows, WasRead, Strategies
  <1>2. /\ g \in [Strategies -> Values] /\ g[next] = value[next]
        /\ \A l \in WasRead : g[l] = f[l]
        /\ \A l \in Strategies : g[l] \in Int
    BY <1>1, Sizes DEF Witness, Values
  <1>3. \A l \in WasRead' : g[l] \in seen'[l]
    BY <1>1, <1>2 DEF Witness
  <1> HIDE DEF g
  <1>4. /\ Long \in SUBSET Strategies /\ Short \in SUBSET Strategies
        /\ IsFiniteSet(Long) /\ IsFiniteSet(Short)
        /\ next \notin Long /\ next \notin Short
    BY <1>1, StrategiesFinite
  <1>5. longValue = Sum(g, Long) /\ shortValue = Sum(g, Short)
    <2>1. Sum(f, Long) = Sum(g, Long)
      BY <1>2, <1>4, SumAgrees
    <2>2. Sum(f, Short) = Sum(g, Short)
      BY <1>2, <1>4, SumAgrees
    <2> QED BY <2>1, <2>2 DEF Witness
  <1>6. CASE next \in Longs
    <2>1. Sum(g, Long \cup {next}) = g[next] + Sum(g, Long)
      <3>1. \A l \in Long : g[l] \in Int
        BY <1>2, <1>4
      <3>2. g[next] \in Int
        BY <1>1, <1>2
      <3> QED BY <1>4, <3>1, <3>2, SumAdd
    <2>2. WasRead' \cap Longs = Long \cup {next} /\ WasRead' \ Longs = Short
      BY <1>1, <1>6
    <2>3. longValue' = longValue + value[next] /\ shortValue' = shortValue
      BY <1>6 DEF Read
    <2>4. Sum(g, Long) \in Nat /\ value[next] \in Nat
      BY <1>1, <1>2, <1>4, TotalIsNat, Sizes DEF Values
    <2>5. longValue' = Sum(g, WasRead' \cap Longs)
      <3>1. Sum(g, Long) + value[next] = value[next] + Sum(g, Long)
        BY <2>4
      <3> QED BY <1>2, <1>5, <2>1, <2>2, <2>3, <3>1
    <2>6. shortValue' = Sum(g, WasRead' \ Longs)
      BY <1>5, <2>2, <2>3
    <2> QED BY <1>2, <1>3, <2>5, <2>6 DEF Witness
  <1>7. CASE next \notin Longs
    <2>1. Sum(g, Short \cup {next}) = g[next] + Sum(g, Short)
      <3>1. \A l \in Short : g[l] \in Int
        BY <1>2, <1>4
      <3>2. g[next] \in Int
        BY <1>1, <1>2
      <3> QED BY <1>4, <3>1, <3>2, SumAdd
    <2>2. WasRead' \ Longs = Short \cup {next} /\ WasRead' \cap Longs = Long
      BY <1>1, <1>7
    <2>3. shortValue' = shortValue + value[next] /\ longValue' = longValue
      BY <1>7 DEF Read
    <2>4. Sum(g, Short) \in Nat /\ value[next] \in Nat
      BY <1>1, <1>2, <1>4, TotalIsNat, Sizes DEF Values
    <2>5. shortValue' = Sum(g, WasRead' \ Longs)
      <3>1. Sum(g, Short) + value[next] = value[next] + Sum(g, Short)
        BY <2>4
      <3> QED BY <1>2, <1>5, <2>1, <2>2, <2>3, <3>1
    <2>6. longValue' = Sum(g, WasRead' \cap Longs)
      BY <1>5, <2>2, <2>3
    <2> QED BY <1>2, <1>3, <2>5, <2>6 DEF Witness
  <1> QED BY <1>6, <1>7

LEMMA NextWitness ==
  HInv /\ [Next]_vars => \E f \in [Strategies -> Values] : Witness(f)'
PROOF
  <1> SUFFICES ASSUME Types, Follows, NEW f \in [Strategies -> Values], Witness(f), [Next]_vars
               PROVE  \E g \in [Strategies -> Values] : Witness(g)'
    BY DEF HInv
  <1>1. CASE UNCHANGED vars \/ Tick \/ Judge \/ Stop \/ Exit
    <2>1. UNCHANGED <<longValue, shortValue, seen, next, failed>>
      BY <1>1 DEF vars, check, Tick, Judge, Stop, Exit
    <2> QED BY <2>1, WitnessStays DEF WasRead
  <1>2. ASSUME NEW l \in Strategies, NEW v \in Values, Trade(l, v)
        PROVE  Witness(f)'
    <2>1. UNCHANGED <<longValue, shortValue, next, failed>>
      BY <1>2 DEF Trade
    <2>2. \A k \in Strategies : seen[k] \subseteq seen'[k]
      BY <1>2 DEF Trade, Types
    <2>3. WasRead \subseteq Strategies
      BY Sizes DEF Types, Control, WasRead, Strategies
    <2> QED BY <2>1, <2>2, <2>3, WitnessStays DEF WasRead
  <1>3. CASE Check
    <2>1. WasRead' = {} /\ longValue' = 0 /\ shortValue' = 0
      BY <1>3 DEF Check, WasRead
    <2> QED BY <2>1, SumEmpty DEF Witness
  <1>4. CASE Read
    BY <1>4, ReadWitness
  <1>5. CASE Skip
    <2>1. WasRead' = WasRead /\ UNCHANGED <<longValue, shortValue, seen>>
      BY <1>5, Sizes DEF Skip, WasRead, Types, Control, Follows
    <2> QED BY <2>1, WitnessStays
  <1> QED BY <1>1, <1>2, <1>3, <1>4, <1>5 DEF Next

LEMMA NextHedge == HInv /\ [Next]_vars => HInv'
PROOF
  <1> SUFFICES ASSUME HInv, [Next]_vars PROVE HInv'
    OBVIOUS
  <1>1. (\E f \in [Strategies -> Values] : Witness(f))'
    BY NextWitness DEF Strategies, Values
  <1> QED BY <1>1, NextTypes, NextFollows DEF HInv

LEMMA HedgeInvariant == Spec => []HInv
  BY InitHedge, NextHedge, PTL DEF Spec

-------------------------------------------------------------------------------
(* What it implies *)

LEMMA ReadStrategies ==
  ASSUME HInv
  PROVE  /\ WasRead \in SUBSET Strategies
         /\ IsFiniteSet(WasRead \cap Longs) /\ IsFiniteSet(WasRead \ Longs)
PROOF
  <1>1. WasRead \in SUBSET Strategies
    BY Sizes DEF HInv, Types, Control, WasRead, Strategies
  <1>2. WasRead \cap Longs \in SUBSET Strategies /\ WasRead \ Longs \in SUBSET Strategies
    BY <1>1
  <1> QED BY <1>1, <1>2, StrategiesFinite

\* A smaller set has a smaller bound.
LEMMA BoundGrows ==
  ASSUME NEW S \in SUBSET Strategies, NEW T \in SUBSET S
  PROVE  0 .. MaxValue * Cardinality(T) \subseteq 0 .. MaxValue * Cardinality(S)
PROOF
  <1> DEFINE s == Cardinality(S)
             t == Cardinality(T)
  <1>1. s \in Nat /\ t \in Nat /\ t <= s
    <2>1. IsFiniteSet(S) /\ T \in SUBSET Strategies
      BY StrategiesFinite
    <2>2. t <= s
      BY <2>1, FS_Subset
    <2> QED BY <2>1, <2>2, StrategiesFinite
  <1> HIDE DEF s, t
  <1>2. MaxValue * t <= MaxValue * s /\ MaxValue * t \in Nat /\ MaxValue * s \in Nat
    BY <1>1, Sizes
  <1> QED BY <1>2 DEF s, t

LEMMA HInvTypeOK == HInv => TypeOK
PROOF
  <1> SUFFICES ASSUME HInv PROVE TypeOK
    OBVIOUS
  <1>1. PICK f \in [Strategies -> Values] : Witness(f)
    BY DEF HInv
  <1> DEFINE Long == WasRead \cap Longs
             Short == WasRead \ Longs
             Other == Strategies \ Longs
  <1>2. /\ Long \in SUBSET Strategies /\ Long \in SUBSET Longs /\ Longs \in SUBSET Strategies
        /\ Short \in SUBSET Strategies /\ Short \in SUBSET Other /\ Other \in SUBSET Strategies
    BY ReadStrategies, Sizes
  <1>3. longValue = Sum(f, Long) /\ shortValue = Sum(f, Short)
    BY <1>1 DEF Witness
  <1> HIDE DEF Long, Short, Other
  <1>4. longValue \in 0 .. MaxValue * Cardinality(Longs)
    <2>1. Sum(f, Long) \in 0 .. MaxValue * Cardinality(Long)
      BY <1>2, TotalIsNat
    <2>2. 0 .. MaxValue * Cardinality(Long) \subseteq 0 .. MaxValue * Cardinality(Longs)
      BY <1>2, BoundGrows
    <2> QED BY <1>3, <2>1, <2>2
  <1>5. shortValue \in 0 .. MaxValue * Cardinality(Other)
    <2>1. Sum(f, Short) \in 0 .. MaxValue * Cardinality(Short)
      BY <1>2, TotalIsNat
    <2>2. 0 .. MaxValue * Cardinality(Short) \subseteq 0 .. MaxValue * Cardinality(Other)
      BY <1>2, BoundGrows
    <2> QED BY <1>3, <2>1, <2>2
  <1> QED BY Zenon, <1>4, <1>5 DEF HInv, Types, Control, Flags, TypeOK, Other

\* The sums never exceed what the strategies of each side can hold, and the
\* loop is where it may be (checkHedgeStatus, GetHedgeStatus).
THEOREM HedgeTypes == Spec => []TypeOK
  BY HedgeInvariant, HInvTypeOK, PTL

LEMMA HInvNothingInvented == HInv => NothingInvented
PROOF
  <1> SUFFICES ASSUME HInv, NEW f \in [Strategies -> Values], Witness(f)
               PROVE  NothingInvented
    BY DEF HInv
  <1> DEFINE g == [l \in WasRead |-> f[l]]
  <1>1. g \in [WasRead -> Values] /\ \A l \in WasRead : g[l] = f[l]
    BY ReadStrategies
  <1> HIDE DEF g
  <1>2. Sum(f, WasRead \cap Longs) = Sum(g, WasRead \cap Longs)
    <2>1. \A l \in WasRead \cap Longs : f[l] = g[l]
      BY <1>1
    <2> QED BY <2>1, ReadStrategies, SumAgrees
  <1>3. Sum(f, WasRead \ Longs) = Sum(g, WasRead \ Longs)
    <2>1. \A l \in WasRead \ Longs : f[l] = g[l]
      BY <1>1
    <2> QED BY <2>1, ReadStrategies, SumAgrees
  <1>4. /\ \A l \in WasRead : g[l] \in seen[l]
        /\ longValue = Total(g, WasRead \cap Longs)
        /\ shortValue = Total(g, WasRead \ Longs)
    BY <1>1, <1>2, <1>3, TotalIsSum DEF Witness
  <1> QED BY <1>1, <1>4 DEF NothingInvented, WasRead

\* Whatever the strategies trade while the loop reads them, and whichever reads
\* fail, every sum is made of positions that were held since the check began.
THEOREM SumsAreOfHeldPositions == Spec => []NothingInvented
  BY HedgeInvariant, HInvNothingInvented, PTL

-------------------------------------------------------------------------------
(* The verdict *)

\* The two forms of the condition agree.
LEMMA DeviationIsOutOfBand ==
  ASSUME Deviates(1, 0), NEW long \in Nat, NEW short \in Nat
  PROVE  Deviates(long, short) <=> ShouldAlert(long, short)
PROOF
  <1> USE Sizes
  <1>0. ASSUME long > 0 \/ short > 0 PROVE ShouldAlert(long, short) <=> ~InBand(long, short)
    BY <1>0 DEF ShouldAlert
  <1>1. CASE short > 0
    <2> DEFINE a == long * RatioD
               b == short * RatioN
    <2>1. a \in Nat /\ b \in Nat /\ RatioN > 0
      BY DEF Deviates
    <2>2. Deviates(long, short) <=> Distance(a, b) * ThresholdD > ThresholdN * short * RatioN
      BY <1>1, <2>1 DEF Deviates
    <2>3. ThresholdN * short * RatioN = b * ThresholdN
      OBVIOUS
    <2>4. InBand(long, short) <=> /\ a * ThresholdD >= b * (ThresholdD - ThresholdN)
                                  /\ a * ThresholdD <= b * (ThresholdD + ThresholdN)
      BY DEF InBand
    <2> HIDE DEF a, b
    <2> DEFINE p == a * ThresholdD
               q == b * ThresholdD
               r == b * ThresholdN
    <2>5. /\ b * (ThresholdD - ThresholdN) = q - r
          /\ b * (ThresholdD + ThresholdN) = q + r
          /\ (b - a) * ThresholdD = q - p /\ (a - b) * ThresholdD = p - q
          /\ p \in Nat /\ q \in Nat /\ r \in Nat
          /\ a < b => p < q
          /\ a >= b => p >= q
      BY <2>1
    <2>6. Distance(a, b) * ThresholdD = IF a < b THEN q - p ELSE p - q
      BY <2>5 DEF Distance
    <2>7. /\ Deviates(long, short) <=> Distance(a, b) * ThresholdD > r
          /\ InBand(long, short) <=> p >= q - r /\ p <= q + r
      BY <2>2, <2>3, <2>4, <2>5
    <2> HIDE DEF p, q, r
    <2> QED BY <1>0, <1>1, <2>1, <2>5, <2>6, <2>7
  <1>2. CASE short = 0 /\ long > 0
    <2>1. Deviates(long, short)
      BY <1>2 DEF Deviates
    <2>2. long * RatioD * ThresholdD > 0
      <3>1. long * RatioD \in Nat \ {0}
        BY <1>2
      <3> QED BY <3>1
    <2>3. short * RatioN * (ThresholdD + ThresholdN) = 0
      BY <1>2
    <2>4. ~InBand(long, short)
      BY <2>2, <2>3 DEF InBand
    <2> QED BY <1>0, <1>2, <2>1, <2>4
  <1>3. CASE short = 0 /\ long = 0
    <2>1. RatioN > 0
      BY DEF Deviates
    <2>2. ShouldAlert(0, 0) <=> ThresholdN < ThresholdD
      BY DEF ShouldAlert
    <2>3. Deviates(0, 0) <=> RatioN * ThresholdD > ThresholdN * RatioN
      BY <2>1 DEF Deviates, Distance
    <2>4. RatioN * ThresholdD > ThresholdN * RatioN <=> ThresholdN < ThresholdD
      BY <2>1
    <2> QED BY <1>3, <2>2, <2>3, <2>4
  <1> QED BY <1>1, <1>2, <1>3

\* What the history says of a position that did not move is what it was.
LEMMA OnlySeen ==
  ASSUME HInv, NEW S \in SUBSET Strategies, Steady, NEW f \in [Strategies -> Values],
         \A l \in S : f[l] \in seen[l]
  PROVE  SeenIn(S) = Sum(f, S)
PROOF
  <1> DEFINE h == [l \in S |-> CHOOSE v \in Values : v \in seen[l]]
  <1>1. ASSUME NEW l \in S PROVE f[l] = h[l]
    <2>1. seen[l] \in SUBSET Values /\ Cardinality(seen[l]) = 1 /\ f[l] \in seen[l]
      BY DEF HInv, Types, Steady
    <2>2. IsFiniteSet(seen[l])
      <3>1. IsFiniteSet(Values)
        BY Sizes, FS_Interval DEF Values
      <3> QED BY <2>1, <3>1, FS_Subset
    <2>3. seen[l] = {f[l]}
      BY <2>1, <2>2, FS_Singleton
    <2> QED BY <2>1, <2>3
  <1>2. IsFiniteSet(S)
    BY StrategiesFinite
  <1>3. SeenIn(S) = Sum(h, S)
    BY TotalIsSum DEF SeenIn
  <1> HIDE DEF h
  <1> QED BY <1>1, <1>2, <1>3, SumAgrees

LEMMA HInvVerdict == Deviates(1, 0) /\ HInv => VerdictIsExact
PROOF
  <1> SUFFICES ASSUME Deviates(1, 0), HInv, Judged, Steady
               PROVE  verdict = "alert" <=>
                        ShouldAlert(SeenIn(Longs), SeenIn(Strategies \ Longs))
    BY DEF VerdictIsExact
  <1> DEFINE Other == Strategies \ Longs
  <1>1. WasRead = Strategies
    BY Sizes DEF HInv, Follows, WasRead, Steady, Strategies
  <1>2. PICK f \in [Strategies -> Values] : Witness(f)
    BY DEF HInv
  <1>3. /\ WasRead \cap Longs = Longs /\ WasRead \ Longs = Other
        /\ Longs \in SUBSET Strategies /\ Other \in SUBSET Strategies
    BY <1>1, Sizes
  <1>4. /\ longValue = Sum(f, Longs) /\ shortValue = Sum(f, Other)
        /\ \A l \in Strategies : f[l] \in seen[l]
    BY <1>1, <1>2, <1>3 DEF Witness
  <1>5. SeenIn(Longs) = longValue /\ SeenIn(Other) = shortValue
    <2>1. SeenIn(Longs) = Sum(f, Longs)
      BY <1>3, <1>4, OnlySeen
    <2>2. SeenIn(Other) = Sum(f, Other)
      BY <1>3, <1>4, OnlySeen
    <2> QED BY <1>4, <2>1, <2>2
  <1>6. longValue \in Nat /\ shortValue \in Nat
    BY <1>3, <1>4, TotalIsNat
  <1> HIDE DEF Other
  <1>7. Deviates(longValue, shortValue) <=> ShouldAlert(longValue, shortValue)
    BY <1>6, DeviationIsOutOfBand
  <1>8. verdict = "alert" <=> Deviates(longValue, shortValue)
    BY DEF HInv, Follows
  <1> QED BY <1>5, <1>7, <1>8 DEF Other

\* A check that sees all positions stand still is right about them, and about a
\* hedge that is empty - provided
\* 999, which stands for the ratio without a short position, is itself outside
\* the band (and the target is not 0, with which nothing is ever alerted).
THEOREM VerdictOfSteadyPositions == Deviates(1, 0) => (Spec => []VerdictIsExact)
PROOF
  <1> SUFFICES ASSUME Deviates(1, 0) PROVE Spec => []VerdictIsExact
    OBVIOUS
  <1>1. HInv => VerdictIsExact
    BY HInvVerdict
  <1> QED BY <1>1, HedgeInvariant, PTL
===============================================================================
