-------------------------- MODULE CircuitBreakers --------------------------
(***************************************************************************)
(* The hard gates of risk/circuit_breakers.py as RiskEngine applies them:  *)
(* pure functions of a snapshot of the risk row.  A limit of 0 is off.     *)
(***************************************************************************)
EXTENDS RiskLedger

CONSTANTS BreakersDisabled,      \* paper mode with paper.disable_circuit_breakers
          DailyLossAmount, DailyLossPct,
          MaxTradesPerDay, MaxConsecutiveLosses, MaxLosingPerHour,
          MaxPositions,
          MaxFlipsPerDay, MaxFlipsPerHour

ASSUME LimitsAssumption ==
  /\ BreakersDisabled \in BOOLEAN
  /\ \A n \in {DailyLossAmount, DailyLossPct, MaxTradesPerDay,
               MaxConsecutiveLosses, MaxLosingPerHour, MaxPositions,
               MaxFlipsPerDay, MaxFlipsPerHour} : n \in Nat

\* resolve_risk_config zeroes the circuit keys, and only those.
Effective(limit) == IF BreakersDisabled THEN 0 ELSE limit

Reached(count, limit) == limit > 0 /\ count >= limit

\* daily_loss_limit_usd: the amount wins over the percentage.
LossLimitReached(r) ==
  LET amount == Effective(DailyLossAmount)
      pct    == Effective(DailyLossPct)
  IN  IF amount > 0
      THEN r.realized <= -amount
      ELSE pct > 0 /\ r.starting > 0 /\ r.realized * 100 <= -(r.starting * pct)

(***************************************************************************)
(* The limits that both the entry gate and the check after a close apply.  *)
(***************************************************************************)
DayLimitReached(r) ==
  \/ LossLimitReached(r)
  \/ Reached(r.trades, Effective(MaxTradesPerDay))
  \/ Reached(r.losses, Effective(MaxConsecutiveLosses))
  \/ Reached(r.losing, Effective(MaxLosingPerHour))

\* evaluate_gates in paper mode: every stored halt is ignored, unless killed.
GateView(r) ==
  IF BreakersDisabled /\ ~r.kill
  THEN [r EXCEPT !.blocked = FALSE, !.state = "NORMAL", !.flipsOff = FALSE]
  ELSE r

EntriesHalted(r) ==
  r.kill \/ r.blocked \/ r.state \in {"HALTED", "EMERGENCY_FLATTEN"}

\* Mutant of FlipsBlocked: the limit may be passed once.
FlipsBlockedBeyond(r) ==
  \/ r.flipsOff
  \/ MaxFlipsPerDay > 0 /\ r.flips > Effective(MaxFlipsPerDay)
  \/ Reached(r.flipsHour, Effective(MaxFlipsPerHour))

FlipsBlocked(r) ==
  \/ r.flipsOff
  \/ Reached(r.flips, Effective(MaxFlipsPerDay))
  \/ Reached(r.flipsHour, Effective(MaxFlipsPerHour))

\* evaluate_circuit_breakers(...).allow_entry.
GateAllows(snap, openCount, isFlip) ==
  LET r == GateView(snap) IN
  /\ ~EntriesHalted(r)
  /\ ~DayLimitReached(r)
  /\ ~Reached(openCount, MaxPositions)
  /\ isFlip => ~FlipsBlocked(r)

\* post_trade_halt_reason(...) is not None, as release_capital asks it.
PostTradeHalts(r) == ~BreakersDisabled /\ DayLimitReached(r)
=============================================================================
