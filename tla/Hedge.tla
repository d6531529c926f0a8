--------------------------------- MODULE Hedge ---------------------------------
(***************************************************************************)
(* internal/strategy/coordinator.go: the monitor loop of HedgeCoordinator. *)
(*                                                                         *)
(* It reads the positions one after the other while they are traded, and   *)
(* judges the sums.  A position is its notional, in units.  The ratios of  *)
(* the configuration are fractions.                                        *)
(***************************************************************************)
EXTENDS Integers, FiniteSetsExt

CONSTANTS Legs,                     \* strategies are numbered 1 .. Legs
          Longs,                    \* those with direction LONG
          MaxValue,                 \* bound: the largest position
          RatioN, RatioD,           \* hedge.ratio
          ThresholdN, ThresholdD,   \* hedge.rebalance_threshold
          MaxTrades,                \* bound: changes of a position
          MaxFailures               \* bound: errors of GetPosition

ASSUME HedgeAssumption ==
  /\ Legs \in Nat /\ Longs \subseteq 1 .. Legs
  /\ MaxValue \in Nat
  /\ RatioN \in Nat /\ RatioD \in Nat \ {0}
  /\ ThresholdN \in Nat /\ ThresholdD \in Nat \ {0}
  /\ MaxTrades \in Nat /\ MaxFailures \in Nat

VARIABLES
  value,      \* value[l]: the position of strategy l on the exchange
  loop,       \* where monitorLoop is: select, reading, stopped
  tick,       \* a tick waits in ticker.C
  closed,     \* monitorStop is closed
  next,       \* the strategy GetHedgeStatus reads next
  longValue, shortValue,
  verdict,    \* of the last check: none yet, quiet or alert
  seen,       \* history: the values position l had since the check began
  failed,     \* history: the strategies the check could not read
  trades, failures

check == <<next, longValue, shortValue, verdict, seen, failed>>
vars == <<value, loop, tick, closed, check, trades, failures>>

Values == 0 .. MaxValue
Strategies == 1 .. Legs

\* The ratio that stands for "no short position", 999.0.
NoShort == 999

Distance(a, b) == IF a < b THEN b - a ELSE a - b

\* A bug, for comparison: the deviation keeps its sign.
DeviatesUpwards(long, short) ==
  RatioN > 0 /\ short > 0 /\
    (long * RatioD - short * RatioN) * ThresholdD > ThresholdN * short * RatioN

\* |ratio - target| / target > threshold, where the ratio is long / short, 999
\* without a short position and 0 without any; a target of 0 never deviates.
Deviates(long, short) ==
  /\ RatioN > 0
  /\ LET d == IF short > 0 THEN short ELSE 1
         n == IF short > 0 THEN long ELSE IF long > 0 THEN NoShort ELSE 0
     IN  Distance(n * RatioD, d * RatioN) * ThresholdD > ThresholdN * d * RatioN

-------------------------------------------------------------------------------
Init ==
  /\ value = [l \in Strategies |-> 0]
  /\ loop = "select" /\ tick = FALSE /\ closed = FALSE
  /\ next = 1 /\ longValue = 0 /\ shortValue = 0
  /\ verdict = "none"
  /\ seen = [l \in Strategies |-> {0}] /\ failed = {}
  /\ trades = 0 /\ failures = 0

\* A strategy opens, grows or closes its position.
Trade(l, v) ==
  /\ trades < MaxTrades
  /\ v # value[l]
  /\ trades' = trades + 1
  /\ value' = [value EXCEPT ![l] = v]
  /\ seen' = [seen EXCEPT ![l] = IF loop = "reading" THEN @ \cup {v} ELSE @]
  /\ UNCHANGED <<loop, tick, closed, next, longValue, shortValue, verdict,
                 failed, failures>>

\* A bug, for comparison: one alert has to do.
TickUntilAlert ==
  /\ loop # "stopped" /\ ~tick /\ verdict # "alert"
  /\ tick' = TRUE
  /\ UNCHANGED <<value, loop, closed, check, trades, failures>>

\* 30 seconds have passed; ticker.C holds at most one tick.
Tick ==
  /\ loop # "stopped" /\ ~tick
  /\ tick' = TRUE
  /\ UNCHANGED <<value, loop, closed, check, trades, failures>>

\* A bug, for comparison: the sums of the last check are not reset.
CheckKeepsSums ==
  /\ loop = "select" /\ tick
  /\ tick' = FALSE
  /\ loop' = "reading"
  /\ next' = 1
  /\ seen' = [l \in Strategies |-> {value[l]}] /\ failed' = {}
  /\ UNCHANGED <<value, closed, longValue, shortValue, verdict, trades, failures>>

\* select, case <-ticker.C: checkHedgeStatus begins to read.
Check ==
  /\ loop = "select" /\ tick
  /\ tick' = FALSE
  /\ loop' = "reading"
  /\ next' = 1 /\ longValue' = 0 /\ shortValue' = 0
  /\ seen' = [l \in Strategies |-> {value[l]}] /\ failed' = {}
  /\ UNCHANGED <<value, closed, verdict, trades, failures>>

\* GetPosition returns: the position counts for the side of its strategy.
Read ==
  /\ loop = "reading" /\ next <= Legs
  /\ next' = next + 1
  /\ IF next \in Longs
     THEN longValue' = longValue + value[next] /\ UNCHANGED shortValue
     ELSE shortValue' = shortValue + value[next] /\ UNCHANGED longValue
  /\ UNCHANGED <<value, loop, tick, closed, verdict, seen, failed, trades, failures>>

\* A bug, for comparison: after an error the position of the strategy before is
\* counted again.
SkipCountsAgain ==
  /\ loop = "reading" /\ next <= Legs
  /\ failures < MaxFailures
  /\ failures' = failures + 1
  /\ failed' = failed \cup {next}
  /\ next' = next + 1
  /\ IF next > 1 /\ next \in Longs
     THEN longValue' = longValue + value[next - 1] /\ UNCHANGED shortValue
     ELSE UNCHANGED <<longValue, shortValue>>
  /\ UNCHANGED <<value, loop, tick, closed, verdict, seen, trades>>

\* GetPosition fails: the strategy is skipped and counts as nothing.
Skip ==
  /\ loop = "reading" /\ next <= Legs
  /\ failures < MaxFailures
  /\ failures' = failures + 1
  /\ failed' = failed \cup {next}
  /\ next' = next + 1
  /\ UNCHANGED <<value, loop, tick, closed, longValue, shortValue, verdict, seen,
                 trades>>

\* The end of GetHedgeStatus, and the alert of checkHedgeStatus.
Judge ==
  /\ loop = "reading" /\ next > Legs
  /\ verdict' = IF Deviates(longValue, shortValue) THEN "alert" ELSE "quiet"
  /\ loop' = "select"
  /\ UNCHANGED <<value, tick, closed, next, longValue, shortValue, seen, failed,
                 trades, failures>>

\* main returns.
Stop ==
  /\ ~closed
  /\ closed' = TRUE
  /\ UNCHANGED <<value, loop, tick, check, trades, failures>>

\* A bug, for comparison: a break that leaves the select, not the loop.
ExitBreaksSelect == loop = "select" /\ closed /\ UNCHANGED vars

\* select, case <-monitorStop.
Exit ==
  /\ loop = "select" /\ closed
  /\ loop' = "stopped"
  /\ UNCHANGED <<value, tick, closed, check, trades, failures>>

Next ==
  \/ \E l \in Strategies, v \in Values : Trade(l, v)
  \/ Tick \/ Check \/ Read \/ Skip \/ Judge
  \/ Stop \/ Exit

\* The loop is scheduled, GetPosition returns and the clock ticks.  A select
\* with two ready cases picks one at random, with the same probability: the stop
\* cannot be passed over for ever.
Fairness ==
  /\ WF_vars(Tick) /\ WF_vars(Check) /\ WF_vars(Read \/ Skip) /\ WF_vars(Judge)
  /\ SF_vars(Exit)

Spec == Init /\ [][Next]_vars /\ Fairness

-------------------------------------------------------------------------------
(* Properties *)

\* The variables have their shapes and the sums stay within what the strategies
\* can hold.
TypeOK ==
  /\ value \in [Strategies -> Values]
  /\ loop \in {"select", "reading", "stopped"}
  /\ tick \in BOOLEAN /\ closed \in BOOLEAN
  /\ next \in 1 .. Legs + 1
  /\ longValue \in 0 .. MaxValue * Cardinality(Longs)
  /\ shortValue \in 0 .. MaxValue * Cardinality(Strategies \ Longs)
  /\ verdict \in {"none", "quiet", "alert"}
  /\ seen \in [Strategies -> SUBSET Values]
  /\ failed \subseteq Strategies
  /\ trades \in 0 .. MaxTrades /\ failures \in 0 .. MaxFailures

Total(f, S) == MapThenSumSet(LAMBDA l : f[l], S)

\* The sums are made of positions that were really held while the check ran:
\* one for each strategy read so far, none for a strategy whose read failed
\* (the loop of GetHedgeStatus).  They need not have been held at one moment.
NothingInvented ==
  LET read == (1 .. next - 1) \ failed
  IN  \E f \in [read -> Values] :
        /\ \A l \in read : f[l] \in seen[l]
        /\ longValue = Total(f, read \cap Longs)
        /\ shortValue = Total(f, read \ Longs)

\* The last check saw all positions, and none of them moved meanwhile.
Steady == failed = {} /\ \A l \in Strategies : Cardinality(seen[l]) = 1

\* long / short lies between target * (1 - threshold) and target * (1 + threshold).
InBand(long, short) ==
  /\ long * RatioD * ThresholdD >= short * RatioN * (ThresholdD - ThresholdN)
  /\ long * RatioD * ThresholdD <= short * RatioN * (ThresholdD + ThresholdN)

Judged == loop # "reading" /\ verdict # "none"
SeenIn(S) == Total([l \in S |-> CHOOSE v \in Values : v \in seen[l]], S)

\* An empty hedge counts as a ratio of 0, which deviates from any target by 1.
ShouldAlert(long, short) ==
  IF long + short > 0 THEN ~InBand(long, short) ELSE ThresholdN < ThresholdD

\* When nothing moved during the check, the alert is sent exactly when the real
\* ratio has left the band around the target, and for an empty hedge unless the
\* threshold is 1 or more (checkHedgeStatus, with the special ratios 0 and 999
\* of GetHedgeStatus).
VerdictIsExact ==
  Judged /\ Steady =>
    (verdict = "alert" <=> ShouldAlert(SeenIn(Longs), SeenIn(Strategies \ Longs)))

Holding(S) == Total(value, S)
OutOfBand == /\ Holding(Strategies) > 0
             /\ ~InBand(Holding(Longs), Holding(Strategies \ Longs))

\* A hedge that stays out of the band is alerted again and again, one check
\* after the other, as long as nobody stops the coordinator (monitorLoop).
PersistentIsAlerted ==
  <>[](OutOfBand /\ ~closed) => []<><<Judge /\ verdict' = "alert">>_vars

\* A stopped coordinator leaves its loop, even with a tick waiting.
StopEnds == closed ~> (loop = "stopped")
===============================================================================
