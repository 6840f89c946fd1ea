----------------------------- MODULE ExitRules -----------------------------
(***************************************************************************)
(* When a quote closes a position, and when the opposite side is bought    *)
(* after a trend reversal.                                                 *)
(*                                                                         *)
(* A position is [lots, units, entry, fee, held, mfe, thesis, seen]: the   *)
(* entry price in tenths of a dollar, the fee of the entry (0: not known), *)
(* the seconds it is held, the best gain in percent of the entry, and      *)
(* whether the process has the thesis of the entry and has seen the spot.  *)
(* A quote is what the position manager reads with it: [ltp (percent of    *)
(* the entry), index (the spot in dollars, 0 while there is none), spot    *)
(* and close (distance from the VWAP to the side of the position, in       *)
(* hundredths of the ATR), highVol, atrScale (percent), against (the       *)
(* regime is sideways or trends to the other side), broken (so does the    *)
(* 5-minute structure, which it does not read), force].                    *)
(***************************************************************************)
EXTENDS Integers, FiniteSets, FiniteSetsExt, SequencesExt

CONSTANT BiasFlipExit   \* bias_flip_exit, which the shipped file turns off

MinHold       == 180   \* min_hold_seconds, trend_reversal_min_hold_seconds
MaxHold       == 1320  \* max_hold_minutes: 22
ThesisMinHold == 120   \* thesis_min_hold_seconds

(* USD * 10000; a quarter dollar of peak profit arms the trail, and it closes
   with 12 cents after fees or not at all. *)
MinPeakGross == 2500
MinNet       == 1200

Gross(pos, ltp) == (pos.entry * pos.lots * pos.units * (ltp - 100)) \div 100

(* option_fee as taker: 0.03 % of the notional, at most 3.5 % of the premium,
   and 18 % GST. *)
OptionFee(index, size, premium) ==
  (118 * Min({(3 * index * size) \div 1000, (35 * premium) \div 1000})) \div 100
EntryFee(index, size, price) == IF index = 0 THEN 0 ELSE OptionFee(index, size, price * size)

(* _estimate_round_trip_fees_usd: without a spot there is no fee but that of
   the entry, and none at all for a position read back without one. *)
RoundTripFees(pos, q) ==
  LET size  == pos.lots * pos.units
      entry == IF pos.fee > 0 THEN pos.fee ELSE EntryFee(q.index, size, pos.entry)
  IN  IF q.index = 0 THEN pos.fee
      ELSE entry + OptionFee(q.index, size, (pos.entry * size * q.ltp) \div 100)
NetProfit(pos, q) == Gross(pos, q.ltp) - RoundTripFees(pos, q)

-----------------------------------------------------------------------------
(* evaluate_momentum_exit *)

(* Mutant of TimeStop: a position is measured against its minutes in seconds. *)
TimeStopInMinutes(pos) == pos.held > 60 * MaxHold
TimeStop(pos) == pos.held > MaxHold

(* The adverse move, wider with the ATR, waits while the spot is on the side;
   without a spot it is neither wider nor waited for. *)
AdverseMove(q) ==
  /\ 100 * q.ltp <= 10000 - (IF q.highVol THEN 15 ELSE 13)
                             * (IF q.index = 0 THEN 100 ELSE q.atrScale)
  /\ q.index = 0 \/ q.spot < -35

VwapSideLost(pos, q) == pos.held >= 300 /\ q.index # 0 /\ q.spot < -35

TrailArmed(pos) == pos.mfe >= 10 /\ Gross(pos, 100 + pos.mfe) >= MinPeakGross

(* _trail_giveback_pct *)
Giveback(pos, q) == IF pos.mfe >= 22 THEN 28 ELSE IF q.highVol THEN 32 ELSE 40

TrailHit(pos, q) ==
  TrailArmed(pos) /\ 100 * (q.ltp - 100) <= pos.mfe * (100 - Giveback(pos, q))

TrailPays(pos, q) == NetProfit(pos, q) >= MinNet

(* _trend_reversal_triggered on the last 1-minute close; only under water *)
TrendReversal(q) == BiasFlipExit /\ q.ltp < 100 /\ q.close < -65

(* The reason of the first rule that decides; "none" keeps the position.  A
   trail that does not pay ends the evaluation. *)
MomentumExit(pos, q) ==
  IF q.force THEN "force_exit"
  ELSE IF pos.held < MinHold THEN "none"
  ELSE IF TimeStop(pos) THEN "time_stop"
  ELSE IF q.ltp <= 0 THEN "none"
  ELSE IF AdverseMove(q) THEN "adverse_momentum"
  ELSE IF VwapSideLost(pos, q) THEN "vwap_side_lost"
  ELSE IF TrailHit(pos, q) THEN (IF TrailPays(pos, q) THEN "momentum_trail" ELSE "none")
  ELSE IF TrendReversal(q) THEN "trend_reversal"
  ELSE "none"

-----------------------------------------------------------------------------
(* assess_thesis.  The manager passes neither structure nor IV regime, so that
   their points are never taken off. *)
ThesisLosses(q) ==
  (IF q.index # 0 /\ q.spot < 0 THEN 35 ELSE 0) + (IF q.against THEN 25 ELSE 0)
ThesisScore(q) == 100 - ThesisLosses(q)

ThesisDegraded(pos, q) == pos.thesis /\ pos.held >= ThesisMinHold /\ ThesisScore(q) < 35

(* PositionManager.on_quote: the best gain first, then the two evaluations. *)
WithQuote(pos, q) ==
  [pos EXCEPT !.mfe = Max({@, q.ltp - 100}), !.seen = @ \/ q.index # 0]
ExitReason(pos, q) ==
  LET reason == MomentumExit(pos, q)
  IN  IF reason = "none" /\ ThesisDegraded(pos, q) THEN "thesis_degradation" ELSE reason

-----------------------------------------------------------------------------
(* confirm_reversal for the side to flip to.  spot and the closes m1 are
   distances from the VWAP to that side, structure the 5-minute structure
   relative to it. *)

CloseConfirms(m1) == Last(m1) > 0

MomentumPoints(m1) ==
  LET n == Len(m1)
  IN  IF m1[n] > m1[n-1] /\ m1[n-1] >= m1[n-2] THEN 15 ELSE IF m1[n] > m1[n-2] THEN 8 ELSE 0

ReversalScore(m1) == 30 + 15 + 20 + MomentumPoints(m1) + 10

(* Every part is required, and at least 70 points of the 90. *)
ReversalConfirmed(m1, spot, hasStructure) ==
  /\ spot >= 55
  /\ CloseConfirms(m1)
  /\ MomentumPoints(m1) > 0
  /\ hasStructure
  /\ ReversalScore(m1) >= 70
=============================================================================
