------------------------------ MODULE Signals ------------------------------
(***************************************************************************)
(* From one snapshot of bars to at most one trade: features and setups,    *)
(* market regime, scanners, weighted confidence, router, crypto entry gate.*)
(*                                                                         *)
(* A price is its signed distance from the session VWAP, in hundredths of  *)
(* the 1-minute ATR (which is known and positive); a direction is 1 (bull, *)
(* CE), -1 (bear, PE) or 0.  Every threshold is the shipped one.            *)
(***************************************************************************)
EXTENDS Integers, FiniteSets, FiniteSetsExt, SequencesExt, Sums

CONSTANT EnabledStrategies,    \* router.enabled_strategies, in their order
         MeanReversionDistance \* 60 points, in hundredths of the ATR

TrendNames == {"vwap_trend", "momentum_continuation", "trend_continuation"}
BiasExempt == {"mean_reversion", "liquidity_sweep", "reversal"}

Family ==
  [n \in TrendNames \cup {"vwap_reclaim", "vwap_pullback", "mean_reversion",
                          "opening_range_breakout", "trend_reversal_flip"} |->
     CASE n \in {"vwap_reclaim", "vwap_pullback", "vwap_trend"} -> "VWAP"
       [] n = "momentum_continuation"  -> "Momentum"
       [] n = "trend_continuation"     -> "Trend"
       [] n \in {"mean_reversion", "trend_reversal_flip"} -> "Reversal"
       [] n = "opening_range_breakout" -> "Breakout"]

(* build_strategy_scanners keeps the names of scanners; a flip has none. *)
ASSUME SignalsAssumption ==
  /\ EnabledStrategies \in Seq(DOMAIN Family \ {"trend_reversal_flip"})
  /\ IsInjective(EnabledStrategies)
  /\ MeanReversionDistance \in Nat

Enabled == Range(EnabledStrategies)
Position(n) == CHOOSE i \in DOMAIN EnabledStrategies : EnabledStrategies[i] = n

Abs(x)  == IF x < 0 THEN -x ELSE x
Sign(x) == IF x > 0 THEN 1 ELSE IF x < 0 THEN -1 ELSE 0

(* Python's round(a / b) for naturals: a half goes to the even neighbour. *)
RoundedDiv(a, b) ==
  LET q == a \div b
      r == a % b
  IN  IF 2 * r > b \/ (2 * r = b /\ q % 2 = 1) THEN q + 1 ELSE q

-----------------------------------------------------------------------------
(* Features. *)

(* bias_with_dead_zone of the last 1-minute close *)
Bias(m1) == IF Abs(Last(m1)) < 40 THEN 0 ELSE Sign(Last(m1))

(* _detect_reclaim: the last close is on the other side than an earlier one;
   a close on the VWAP takes the side it came to from. *)
ReclaimOf(bars) ==
  LET curr   == Last(bars)
      priors == Front(bars)
      sided  == SelectSeq(priors, LAMBDA b : b # 0)
  IN  IF curr = 0 THEN (IF sided = <<>> THEN 0 ELSE -Sign(Last(sided)))
      ELSE IF \E i \in DOMAIN priors : Sign(priors[i]) = -Sign(curr) THEN Sign(curr)
      ELSE 0

(* _detect_reclaim_recent: the reclaim of the longest prefix that has one *)
RecentReclaim(m3) ==
  LET found == {k \in 2..Len(m3) : ReclaimOf(SubSeq(m3, 1, k)) # 0}
  IN  IF found = {} THEN 0 ELSE ReclaimOf(SubSeq(m3, 1, Max(found)))

(* _detect_reclaim_trigger with one fresh bar *)
FreshCross(m1) ==
  LET prev == m1[Len(m1) - 1]
      curr == Last(m1)
  IN  IF prev < 0 /\ curr >= 0 THEN 1
      ELSE IF prev > 0 /\ curr <= 0 THEN -1 ELSE 0

(* compute(): reclaim labels that disagree with the bias are dropped, a fresh
   cross makes the setup, and without a trigger the spot must be near. *)
ReclaimTrigger(m1) == IF FreshCross(m1) = Bias(m1) THEN FreshCross(m1) ELSE 0
ReclaimSetup(m1, m3, spot) ==
  LET trigger == ReclaimTrigger(m1)
      setup   == IF RecentReclaim(m3) = Bias(m1) THEN RecentReclaim(m3) ELSE trigger
  IN  IF Abs(spot) > 22 /\ trigger = 0 THEN 0 ELSE setup

(* _detect_pullback *)
PullbackSetup(m1, m3) ==
  LET bias == Bias(m1)
      curr == Last(m3)
  IN  IF /\ bias * curr >= 0 /\ Abs(curr) <= 22
         /\ \E i \in 1..(Len(m3) - 1) : bias * m3[i] >= 4
      THEN bias ELSE 0

(* _detect_pullback_trigger and the two looser tries that follow it: the last
   of them asks only that the last close turned with the bias. *)
PullbackTrigger(m1) ==
  IF Bias(m1) * (Last(m1) - m1[Len(m1) - 1]) > 0 THEN Bias(m1) ELSE 0

(* _detect_trend_continuation: two bars on the side, no 1-minute momentum *)
TrendSetup(m1, m3) ==
  LET bias == Bias(m1)
      curr == Last(m3)
  IN  IF /\ Abs(curr) \in 3..50
         /\ bias * curr >= 0 /\ bias * m3[Len(m3) - 1] >= 0
      THEN bias ELSE 0

(* _momentum *)
MomentumSetup(m1) ==
  LET bias == Bias(m1)
      n    == Len(m1)
  IN  IF /\ bias * (m1[n] - m1[n-2]) > 0 /\ bias * m1[n] > 0
         /\ bias * (m1[n] - m1[n-1]) >= 0
      THEN bias ELSE 0

(* _orb; broken: the side of the opening range the spot is on *)
RangeBreak(m1, broken) == IF broken = Bias(m1) THEN broken ELSE 0

(* _mean_reversion *)
MeanReversionSetup(spot) == IF Abs(spot) >= MeanReversionDistance THEN -Sign(spot) ELSE 0

(* detect_all_setups, and the trigger labels the scanners read *)
Setups(m1, m3, spot, broken) ==
  [vwap_trend             |-> TrendSetup(m1, m3),
   trend_continuation     |-> TrendSetup(m1, m3),
   momentum_continuation  |-> MomentumSetup(m1),
   vwap_reclaim           |-> IF ReclaimTrigger(m1) = ReclaimSetup(m1, m3, spot)
                              THEN ReclaimTrigger(m1) ELSE 0,
   vwap_pullback          |-> IF PullbackTrigger(m1) = PullbackSetup(m1, m3)
                              THEN PullbackTrigger(m1) ELSE 0,
   opening_range_breakout |-> RangeBreak(m1, broken),
   mean_reversion         |-> MeanReversionSetup(spot)]

(* The last of the bars against those before it; a bar is [high, low] *)
HigherBars(m5) ==
  /\ Last(m5).high >= Max({bar.high : bar \in Range(Front(m5))})
  /\ Last(m5).low  >= Min({bar.low : bar \in Range(Front(m5))})
LowerBars(m5) ==
  /\ Last(m5).low  <= Min({bar.low : bar \in Range(Front(m5))})
  /\ Last(m5).high <= Max({bar.high : bar \in Range(Front(m5))})

(* _structure_5m: both or none of the two is mixed *)
Structure(m5) ==
  IF HigherBars(m5) = LowerBars(m5) THEN 0 ELSE IF HigherBars(m5) THEN 1 ELSE -1

-----------------------------------------------------------------------------
(* Market regime.  A setting has the volatility class ("high", "low", "mid",
   "unknown"), the session phase ("open", "mid", "late") and expiry. *)

RegimeKeys == <<"trending_up", "trending_down", "sideways", "high_volatility",
                "low_volatility", "breakout", "opening_range", "expiry_behaviour">>
Regimes == Range(RegimeKeys)

FiveMinuteRange(m5) ==
  Max({m5[i].high : i \in DOMAIN m5}) - Min({m5[i].low : i \in DOMAIN m5})

If(cond, points) == IF cond THEN points ELSE 0

(* Mutant of StructurePoints: the structure outweighs the bias. *)
HeavyStructurePoints == 35
StructurePoints == 20

(* The points classify() gives every regime. *)
RegimeScores(bias, structure, tight, spot, setting) ==
  [trending_up      |-> If(bias = 1, 30) + If(structure = 1, StructurePoints),
   trending_down    |-> If(bias = -1, 30) + If(structure = -1, StructurePoints),
   sideways         |-> If(bias = 0, 20) + If(structure = 0, 25)
                        + If(tight /\ structure = 0, 30) + If(setting.phase = "late", 10),
   high_volatility  |-> If(setting.vol = "high", 35) + If(setting.vol = "mid", 8),
   low_volatility   |-> If(setting.vol = "low", 30) + If(setting.vol = "mid", 8),
   breakout         |-> If(Abs(spot) >= 18 /\ bias # 0, 20),
   opening_range    |-> If(setting.phase = "open", 25),
   expiry_behaviour |-> If(setting.expiry, 30)]

(* max(d, key=d.get): the first of the greatest *)
FirstGreatest(f) ==
  RegimeKeys[Min({i \in DOMAIN RegimeKeys : \A k \in Regimes : f[k] <= f[RegimeKeys[i]]})]

(* _normalize_100, in hundredths of a percent: the rounding error of the sum
   goes to the first of the greatest, which may take it below another one. *)
Probabilities(scores) ==
  LET total   == SumOver(scores, Regimes)
      rounded == [k \in Regimes |-> RoundedDiv(10000 * scores[k], total)]
      sum     == SumOver(rounded, Regimes)
  IN  [rounded EXCEPT ![FirstGreatest(rounded)] = @ + 10000 - sum]

Primary(scores) == FirstGreatest(Probabilities(scores))

RiskScore(scores, setting) ==
  LET p == Probabilities(scores)
  IN  20 + If(p["high_volatility"] >= 2500, 25) + If(p["sideways"] >= 3000, 20)
         + If(p["expiry_behaviour"] >= 2000, 15) + If(setting.phase # "mid", 10)

(* max_risk_score_to_trade and block_sideways *)
RegimeAllows(scores, setting) ==
  RiskScore(scores, setting) <= 78 /\ Primary(scores) # "sideways"

-----------------------------------------------------------------------------
(* Scanners: the direction of the signal of one strategy, or 0. *)

(* _structure_aligned *)
StructureAligned(structure, side) == structure \in {side, 0}

(* FeatureSetupScanner.scan; ema and reclaim structure are not required *)
Scan(name, setups, bias, structure) ==
  LET side == setups[name]
  IN  IF /\ name \in BiasExempt \/ side = bias
         /\ name \in TrendNames => StructureAligned(structure, side)
      THEN side ELSE 0

-----------------------------------------------------------------------------
(* Weighted confidence.  A context holds the class of every component of the
   option of one side; points are doubled, for the 1.5 of an unknown IV. *)

SpotVwapPoints(side, spot) == IF spot = 0 THEN 8 ELSE IF Sign(spot) = side THEN 20 ELSE 0

RegimePoints(side, primary) ==
  CASE primary \in {"breakout", "low_volatility",
                    IF side = 1 THEN "trending_up" ELSE "trending_down"} -> 15
    [] primary = "sideways" -> 2
    [] primary = "high_volatility" -> 6
    [] primary \in {"opening_range", "expiry_behaviour"} -> 5
    [] OTHER -> 8

OptionVwapPoints == [above |-> 15, below |-> 4, unknown |-> 7]
VolumePoints     == [ok |-> 10, half |-> 6, thin |-> 2, unknown |-> 5]
OiPoints         == [confirms |-> 10, floor |-> 7, long_build |-> 6, neutral |-> 4]
EmaPoints        == [aligned |-> 10, misaligned |-> 3, unknown |-> 5]
DeltaPoints      == [in_band |-> 8, near |-> 5, out |-> 2, unknown |-> 4]
GammaPoints      == [strong |-> 5, ok |-> 3, low |-> 1, unknown |-> 2]
ThetaPoints      == [morning |-> 2, midday |-> 1, late |-> 0]
IvPointsDoubled  == [cheap |-> 6, normal |-> 4, elevated |-> 2, expensive |-> 0, unknown |-> 3]
SpreadPoints     == [ok |-> 2, wide |-> 1, too_wide |-> 0, unknown |-> 1]

RawConfidence(side, spot, primary, c) ==
  RoundedDiv(IvPointsDoubled[c.iv] + 2 *
    (SpotVwapPoints(side, spot) + RegimePoints(side, primary)
     + OptionVwapPoints[c.option_vwap] + VolumePoints[c.volume] + OiPoints[c.oi]
     + EmaPoints[c.ema] + DeltaPoints[c.delta] + GammaPoints[c.gamma]
     + ThetaPoints[c.theta] + SpreadPoints[c.spread]), 2)

(* iv_setup_quality *)
IvAdjustment(name, c) ==
  LET breakoutish == Family[name] \in {"Breakout", "Momentum", "Trend"}
  IN  CASE c.iv_regime = "unknown" -> 0
        [] c.iv_regime = "expanding" /\ breakoutish -> 12
        [] c.iv_regime = "contracting" /\ breakoutish -> -10
        [] OTHER -> If(c.iv_rank = "expensive", -8)

(* QualityGate.score; mult: the learner's priority multiplier in percent,
   weak: its health label.  The order of the caps and roundings matters. *)
Confidence(name, side, bias, spot, structure, primary, c, learned) ==
  LET raw     == RawConfidence(side, spot, primary, c)
      capped  == IF bias = 0 /\ name \notin BiasExempt THEN Min({raw, 64}) ELSE raw
      demoted == RoundedDiv(capped * learned.mult, 100)
      healthy == IF learned.weak THEN RoundedDiv(demoted * 85, 100) ELSE demoted
      adjusted == Max({0, Min({100, healthy + IvAdjustment(name, c)})})
      bonus   == If(StructureAligned(structure, side), 8)
                 + If(name \in {"vwap_reclaim", "vwap_pullback"}, 5)
                 + If(name \in TrendNames, 4)
  IN  Min({100, adjusted + bonus})

-----------------------------------------------------------------------------
(* StrategyRouter.route: conf gives the confidence of the strategies that have
   a signal.  Only the best member of a family competes, the earlier one on a
   tie; families are compared in the order their first member came in. *)

EarlierOrBetter(conf, n, m) ==
  conf[n] > conf[m] \/ (conf[n] = conf[m] /\ Position(n) <= Position(m))

FamilyMembers(conf, n) == {m \in DOMAIN conf : Family[m] = Family[n]}

(* Mutant of FamilyChampions: the first member of a family is never replaced. *)
FirstOfFamilies(conf) ==
  {n \in DOMAIN conf : \A m \in FamilyMembers(conf, n) : Position(n) <= Position(m)}
FamilyChampions(conf) ==
  {n \in DOMAIN conf : \A m \in FamilyMembers(conf, n) : EarlierOrBetter(conf, n, m)}

EnteredAt(conf, n) == Min({Position(m) : m \in FamilyMembers(conf, n)})

MinConfidence == 70

(* The strategies selected: one, or none below the minimum confidence. *)
Selected(conf) ==
  {n \in FamilyChampions(conf) :
     /\ conf[n] >= MinConfidence
     /\ \A m \in FamilyChampions(conf) :
          \/ conf[n] > conf[m]
          \/ conf[n] = conf[m] /\ EnteredAt(conf, n) <= EnteredAt(conf, m)}

(* crypto_entry_allowed *)
CryptoEntryAllowed(name, primary, spot, crossDistance) ==
  /\ primary \in {"trending_up", "trending_down", "breakout", "high_volatility"}
  /\ CASE name = "vwap_pullback" -> TRUE
       [] name = "vwap_reclaim" -> crossDistance \in 3..16
       [] name = "momentum_continuation" -> Abs(spot) \in 3..36
       [] name \in TrendNames -> Abs(spot) \in 3..50
       [] OTHER -> Abs(spot) \in 3..38
=============================================================================
