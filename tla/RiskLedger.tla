----------------------------- MODULE RiskLedger -----------------------------
(***************************************************************************)
(* The row of daily_risk_state that holds today's paper account, and the   *)
(* single-statement updates that risk/engine.py and api/health.py run on   *)
(* it.  Each operator is one SQL statement, so it is atomic; the awaits    *)
(* between two statements belong to the modules that use these operators.  *)
(* Money is counted in whole units (one unit = the premium of one lot).    *)
(***************************************************************************)
EXTENDS Integers

CONSTANTS StartingCapital,   \* starting_capital seeded for today
          AccountCapital     \* account_capital_usd of risk_config.yaml

ASSUME CapitalAssumption == StartingCapital \in Nat /\ AccountCapital \in Nat

\* RiskState; WARNING is only ever computed, never stored.
RiskStates == {"NORMAL", "WARNING", "HALTED", "EMERGENCY_FLATTEN"}

\* losing and flipsHour stand for the timestamp arrays of the last hour.
RiskRow == [starting : Nat, deployed : Int, available : Int, realized : Int,
            trades : Nat, losses : Nat, losing : Nat,
            kill : BOOLEAN, blocked : BOOLEAN, state : RiskStates,
            flips : Nat, flipsHour : Nat, flipsOff : BOOLEAN]

\* What ensure_paper_account inserts for a day without a row.
FreshRow == [starting |-> StartingCapital, deployed |-> 0,
             available |-> StartingCapital, realized |-> 0,
             trades |-> 0, losses |-> 0, losing |-> 0,
             kill |-> FALSE, blocked |-> FALSE, state |-> "NORMAL",
             flips |-> 0, flipsHour |-> 0, flipsOff |-> FALSE]

\* SQL's GREATEST(n, 0).
AtLeastZero(n) == IF n > 0 THEN n ELSE 0

Equity(r) == r.starting + r.realized

(***************************************************************************)
(* ensure_daily_state: `row[...] or capital` replaces a ZERO column by the *)
(* configured account capital, for the starting and the available column.  *)
(***************************************************************************)
Snapshot(r) ==
  [r EXCEPT !.starting  = IF @ = 0 THEN AccountCapital ELSE @,
            !.available = IF @ = 0 THEN AccountCapital ELSE @]

Reserve(r, premium) ==
  [r EXCEPT !.deployed = @ + premium, !.available = @ - premium]

\* Mutants of Release: a win takes one loss off the streak instead of ending
\* it; only winning trades are counted.
ReleaseShortensStreak(r, premium, pnl) ==
  [r EXCEPT !.deployed  = AtLeastZero(@ - premium),
            !.available = @ + premium + pnl,
            !.realized  = @ + pnl,
            !.trades    = @ + 1,
            !.losses    = IF pnl < 0 THEN @ + 1 ELSE @ - 1]

ReleaseCountsWins(r, premium, pnl) ==
  [r EXCEPT !.deployed  = AtLeastZero(@ - premium),
            !.available = @ + premium + pnl,
            !.realized  = @ + pnl,
            !.trades    = IF pnl < 0 THEN @ ELSE @ + 1]

\* The two branches of release_capital: a loss counts, anything else resets.
Release(r, premium, pnl) ==
  [r EXCEPT !.deployed  = AtLeastZero(@ - premium),
            !.available = @ + premium + pnl,
            !.realized  = @ + pnl,
            !.trades    = @ + 1,
            !.losses    = IF pnl < 0 THEN @ + 1 ELSE 0,
            !.losing    = IF pnl < 0 THEN @ + 1 ELSE @]

\* Mutant of Reconcile: the available column is left to reserve and release.
ReconcileDeployedOnly(r, openDeployed) ==
  [r EXCEPT !.deployed = AtLeastZero(openDeployed)]

\* One UPDATE recomputes both columns, from the stored realized_pnl.
Reconcile(r, openDeployed) ==
  [r EXCEPT !.deployed  = AtLeastZero(openDeployed),
            !.available = AtLeastZero(Equity(r) - AtLeastZero(openDeployed))]

\* halt_entries with flips_only = False.
Halt(r, state) == [r EXCEPT !.blocked = TRUE, !.state = state]

\* Mutant of KillSwitch: releasing it restores the normal state.
KillSwitchRestores(r, enabled) ==
  [r EXCEPT !.kill = enabled, !.blocked = enabled,
            !.state = IF enabled THEN @ ELSE "NORMAL"]

\* The kill-switch endpoint writes two flags and leaves risk_state alone.
KillSwitch(r, enabled) == [r EXCEPT !.kill = enabled, !.blocked = enabled]

\* The account columns agree with each other.
Balanced(r) == r.available = AtLeastZero(Equity(r) - r.deployed)
=============================================================================
