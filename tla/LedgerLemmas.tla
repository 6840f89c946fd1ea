---------------------------- MODULE LedgerLemmas ----------------------------
(***************************************************************************)
(* What each statement on the risk row keeps, for the proofs about         *)
(* TradingCore and AccountDay.                                             *)
(***************************************************************************)
EXTENDS RiskLedger, SumLemmas

-----------------------------------------------------------------------------
(***************************************************************************)
(* Each statement on the row maps a row to a row.                          *)
(***************************************************************************)
LEMMA SnapshotType ==
  ASSUME NEW r \in RiskRow PROVE Snapshot(r) \in RiskRow
<1> DEFINE s == IF r.starting = 0 THEN AccountCapital ELSE r.starting
           a == IF r.available = 0 THEN AccountCapital ELSE r.available
<1>1. s \in Nat /\ a \in Int BY CapitalAssumption DEF RiskRow
<1>2. Snapshot(r) = [r EXCEPT !.starting = s, !.available = a] BY DEF Snapshot
<1> HIDE DEF s, a
<1> QED BY <1>1, <1>2 DEF RiskRow

LEMMA ReserveType ==
  ASSUME NEW r \in RiskRow, NEW n \in Int PROVE Reserve(r, n) \in RiskRow
<1> DEFINE d == r.deployed + n
           a == r.available - n
<1>1. d \in Int /\ a \in Int BY DEF RiskRow
<1>2. Reserve(r, n) = [r EXCEPT !.deployed = d, !.available = a] BY DEF Reserve
<1> HIDE DEF d, a
<1> QED BY <1>1, <1>2 DEF RiskRow

LEMMA ReleaseType ==
  ASSUME NEW r \in RiskRow, NEW n \in Int, NEW pnl \in Int
  PROVE  Release(r, n, pnl) \in RiskRow
<1> DEFINE d == AtLeastZero(r.deployed - n)
           a == r.available + n + pnl
           z == r.realized + pnl
           t == r.trades + 1
           l == IF pnl < 0 THEN r.losses + 1 ELSE 0
           h == IF pnl < 0 THEN r.losing + 1 ELSE r.losing
<1>1. d \in Int /\ a \in Int /\ z \in Int /\ t \in Nat /\ l \in Nat /\ h \in Nat
  BY DEF RiskRow, AtLeastZero
<1>2. Release(r, n, pnl) =
        [r EXCEPT !.deployed = d, !.available = a, !.realized = z, !.trades = t,
                  !.losses = l, !.losing = h]
  BY DEF Release
<1> HIDE DEF d, a, z, t, l, h
<1> QED BY <1>1, <1>2 DEF RiskRow

LEMMA ReconcileType ==
  ASSUME NEW r \in RiskRow, NEW n \in Int PROVE Reconcile(r, n) \in RiskRow
<1> DEFINE d == AtLeastZero(n)
           a == AtLeastZero(Equity(r) - AtLeastZero(n))
<1>1. d \in Int /\ a \in Int BY DEF RiskRow, AtLeastZero, Equity
<1>2. Reconcile(r, n) = [r EXCEPT !.deployed = d, !.available = a] BY DEF Reconcile
<1> HIDE DEF d, a
<1> QED BY <1>1, <1>2 DEF RiskRow

LEMMA HaltType ==
  ASSUME NEW r \in RiskRow, NEW s \in RiskStates PROVE Halt(r, s) \in RiskRow
BY DEF RiskRow, Halt, RiskStates

LEMMA KillSwitchType ==
  ASSUME NEW r \in RiskRow, NEW b \in BOOLEAN PROVE KillSwitch(r, b) \in RiskRow
BY DEF RiskRow, KillSwitch

\* reconcile_margin makes the account columns agree.
LEMMA ReconcileBalances ==
  ASSUME NEW r \in RiskRow, NEW n \in Int
  PROVE  Balanced(Reconcile(r, n))
<1> DEFINE d == AtLeastZero(n)
           a == AtLeastZero(Equity(r) - AtLeastZero(n))
<1>1. Reconcile(r, n) = [r EXCEPT !.deployed = d, !.available = a] BY DEF Reconcile
<1>2. /\ Reconcile(r, n).deployed = d /\ Reconcile(r, n).available = a
      /\ Reconcile(r, n).starting = r.starting /\ Reconcile(r, n).realized = r.realized
  <2> HIDE DEF d, a
  <2> QED BY <1>1 DEF RiskRow
<1> QED BY <1>2 DEF Balanced, Equity

\* Every statement but release_capital's leaves the day's counters alone.
LEMMA ResultKept ==
  ASSUME NEW r \in RiskRow, NEW n, NEW b, NEW s
  PROVE  /\ Reserve(r, n).realized = r.realized /\ Reserve(r, n).trades = r.trades
         /\ Reconcile(r, n).realized = r.realized /\ Reconcile(r, n).trades = r.trades
         /\ Halt(r, s).realized = r.realized /\ Halt(r, s).trades = r.trades
         /\ KillSwitch(r, b).realized = r.realized /\ KillSwitch(r, b).trades = r.trades
BY DEF Reserve, Reconcile, Halt, KillSwitch, RiskRow

\* The halt and the kill switch leave the money alone.
LEMMA MoneyKept ==
  ASSUME NEW r \in RiskRow, NEW b, NEW s
  PROVE  /\ Halt(r, s).available = r.available /\ Halt(r, s).deployed = r.deployed
         /\ Halt(r, s).starting = r.starting
         /\ KillSwitch(r, b).available = r.available
         /\ KillSwitch(r, b).deployed = r.deployed
         /\ KillSwitch(r, b).starting = r.starting
BY DEF Halt, KillSwitch, RiskRow

\* What release_capital writes, column by column.
LEMMA ReleaseFields ==
  ASSUME NEW r \in RiskRow, NEW n, NEW pnl
  PROVE  /\ Release(r, n, pnl).starting = r.starting
         /\ Release(r, n, pnl).deployed = AtLeastZero(r.deployed - n)
         /\ Release(r, n, pnl).realized = r.realized + pnl
         /\ Release(r, n, pnl).flips = r.flips
         /\ Release(r, n, pnl).state = r.state
<1> DEFINE d == AtLeastZero(r.deployed - n)
           a == r.available + n + pnl
           z == r.realized + pnl
           t == r.trades + 1
           l == IF pnl < 0 THEN r.losses + 1 ELSE 0
           h == IF pnl < 0 THEN r.losing + 1 ELSE r.losing
<1>1. Release(r, n, pnl) =
        [r EXCEPT !.deployed = d, !.available = a, !.realized = z, !.trades = t,
                  !.losses = l, !.losing = h]
  BY DEF Release
<1> HIDE DEF d, a, z, t, l, h
<1>2. Release(r, n, pnl).deployed = d /\ Release(r, n, pnl).realized = z
  BY <1>1 DEF RiskRow
<1>3. /\ Release(r, n, pnl).starting = r.starting
      /\ Release(r, n, pnl).flips = r.flips /\ Release(r, n, pnl).state = r.state
  BY <1>1 DEF RiskRow
<1> QED BY <1>2, <1>3 DEF d, z
=============================================================================
