-------------------------- MODULE AccountDaySafety --------------------------
(***************************************************************************)
(* Proofs about AccountDay for any number of callers, days, commands and   *)
(* entries, every limit, capital and result.                               *)
(***************************************************************************)
EXTENDS AccountDay, LedgerLemmas

\* An insert uses what the read of the last earlier day returned.
AccountTypeInv ==
  /\ AccountTypeOK
  /\ \A c \in Callers : op[c].seed \in Nat
  /\ booked \in Int /\ unbooked \in Int /\ disturbed \in BOOLEAN

-----------------------------------------------------------------------------
(***************************************************************************)
(* ensure_paper_account.                                                   *)
(***************************************************************************)
LEMMA LastEarlierIs ==
  ASSUME EarlierDays # {}
  PROVE  LastEarlier \in EarlierDays /\ \A d \in EarlierDays : d <= LastEarlier
<1> DEFINE T == {n \in Nat : LastDay - n \in EarlierDays}
<1>d. \A d \in EarlierDays : d \in Int /\ LastDay - d \in T
  BY AccountAssumption DEF EarlierDays, Days
<1>1. T \in SUBSET Nat /\ T # {}
  BY <1>d
<1> HIDE DEF T
<1>2. PICK n \in T : \A m \in T : ~(m < n)
  BY <1>1, NatMin
<1>3. LastDay - n \in EarlierDays /\ \A d \in EarlierDays : d <= LastDay - n
  <2>1. n \in Nat /\ LastDay \in Nat /\ LastDay - n \in EarlierDays
    BY <1>2, AccountAssumption DEF T
  <2>2. ASSUME NEW d \in EarlierDays PROVE d <= LastDay - n
    <3>1. d \in Int /\ LastDay - d \in T /\ ~(LastDay - d < n)
      BY <1>d, <1>2
    <3> QED BY <2>1, <3>1
  <2> QED BY <2>1, <2>2
<1> QED BY <1>3 DEF LastEarlier

LEMMA PreviousDayEquityNat ==
  ASSUME AccountTypeOK PROVE PreviousDayEquity \in Nat
<1>1. CASE EarlierDays = {}
  BY <1>1, CapitalAssumption DEF PreviousDayEquity
<1>2. CASE EarlierDays # {}
  <2>1. row[LastEarlier] \in RiskRow
    BY <1>2, LastEarlierIs DEF EarlierDays, AccountTypeOK
  <2> DEFINE r == row[LastEarlier]
             a == r.available + r.deployed
             e == Equity(r)
  <2>2. a \in Int /\ e \in Int
    BY <2>1 DEF RiskRow, Equity
  <2>3. PreviousDayEquity = IF a > 0 THEN a ELSE IF e > 0 THEN e ELSE AccountCapital
    BY <1>2 DEF PreviousDayEquity
  <2> HIDE DEF a, e
  <2> QED BY <2>2, <2>3, CapitalAssumption
<1> QED BY <1>1, <1>2

LEMMA SeededRowType ==
  ASSUME NEW n \in Nat
  PROVE  /\ SeededRow(n) \in RiskRow /\ FreshRow \in RiskRow
         /\ SeededRow(n).starting = n /\ SeededRow(n).available = n
         /\ SeededRow(n).deployed = 0 /\ SeededRow(n).realized = 0
         /\ SeededRow(n).flips = 0 /\ SeededRow(n).state = "NORMAL"
<1>1. FreshRow \in RiskRow
  BY CapitalAssumption DEF FreshRow, RiskRow, RiskStates
<1>2. /\ FreshRow.deployed = 0 /\ FreshRow.realized = 0
      /\ FreshRow.flips = 0 /\ FreshRow.state = "NORMAL"
  BY DEF FreshRow
<1>3. SeededRow(n) = [FreshRow EXCEPT !.starting = n, !.available = n]
  BY DEF SeededRow
<1>4. SeededRow(n).starting = n /\ SeededRow(n).available = n
  BY <1>1, <1>3 DEF RiskRow
<1>5. /\ SeededRow(n).deployed = FreshRow.deployed
      /\ SeededRow(n).realized = FreshRow.realized
      /\ SeededRow(n).flips = FreshRow.flips /\ SeededRow(n).state = FreshRow.state
  BY <1>1, <1>3 DEF RiskRow
<1>6. SeededRow(n) \in RiskRow
  <2>1. n \in Int OBVIOUS
  <2> QED BY <2>1, <1>1, <1>3 DEF RiskRow
<1> QED BY <1>1, <1>2, <1>4, <1>5, <1>6

LEMMA ResetRowType ==
  ASSUME NEW r \in RiskRow
  PROVE  /\ ResetRow(r) \in RiskRow
         /\ ResetRow(r).starting = AccountCapital /\ ResetRow(r).available = AccountCapital
         /\ ResetRow(r).deployed = 0 /\ ResetRow(r).realized = 0
         /\ ResetRow(r).flips = r.flips /\ ResetRow(r).state = r.state
<1>1. ResetRow(r) =
        [r EXCEPT !.starting = AccountCapital, !.available = AccountCapital,
                  !.deployed = 0, !.realized = 0, !.trades = 0, !.losses = 0,
                  !.kill = FALSE, !.blocked = FALSE]
  BY DEF ResetRow
<1>2. AccountCapital \in Nat
  BY CapitalAssumption
<1>3. /\ ResetRow(r).starting = AccountCapital /\ ResetRow(r).available = AccountCapital
      /\ ResetRow(r).deployed = 0 /\ ResetRow(r).realized = 0
  BY <1>1 DEF RiskRow
<1>5. ResetRow(r).flips = r.flips /\ ResetRow(r).state = r.state
  BY <1>1 DEF RiskRow
<1>4. ResetRow(r) \in RiskRow
  <2> DEFINE zero == 0
             off == FALSE
  <2>1. /\ AccountCapital \in Int /\ zero \in Nat /\ zero \in Int /\ off \in BOOLEAN
    BY <1>2
  <2>2. ResetRow(r) =
          [r EXCEPT !.starting = AccountCapital, !.available = AccountCapital,
                    !.deployed = zero, !.realized = zero, !.trades = zero,
                    !.losses = zero, !.kill = off, !.blocked = off]
    BY <1>1
  <2> HIDE DEF zero, off
  <2> QED BY <2>1, <2>2, <1>2 DEF RiskRow
<1> QED BY <1>3, <1>4, <1>5

-----------------------------------------------------------------------------
(***************************************************************************)
(* What each statement does to the rows.                                   *)
(***************************************************************************)
\* Of the rows only that of day d may change, and none appears or goes.
Rewrites(d) ==
  /\ row' \in [Days -> RiskRow \cup {None}]
  /\ \A e \in Days \ {d} : row'[e] = row[e]
  /\ row'[d] = None <=> row[d] = None

SameMoney(d) ==
  row[d] # None =>
    /\ row'[d].starting = row[d].starting /\ row'[d].deployed = row[d].deployed
    /\ row'[d].available = row[d].available /\ row'[d].realized = row[d].realized

SameEquity(d) ==
  row[d] # None =>
    row'[d].starting = row[d].starting /\ row'[d].realized = row[d].realized

SameFlips(d) == row[d] # None => row'[d].flips = row[d].flips
SameState(d) == row[d] # None => row'[d].state = row[d].state
BecomesState(d, s) == row[d] # None => row'[d].state = s

LEMMA UpdatedRewrites ==
  ASSUME AccountTypeOK, NEW d \in Days, NEW new, row' = Updated(d, new),
         row[d] # None => new \in RiskRow
  PROVE  Rewrites(d) /\ (row[d] # None => row'[d] = new /\ row[d] \in RiskRow)
BY AccountAssumption DEF Updated, Rewrites, AccountTypeOK

LEMMA ReserveRow ==
  ASSUME AccountTypeOK, NEW d \in Days, row' = Updated(d, Reserve(row[d], 1))
  PROVE  /\ Rewrites(d) /\ SameEquity(d) /\ SameFlips(d) /\ SameState(d)
         /\ row[d] # None => row'[d].deployed = row[d].deployed + 1
<1>1. row[d] # None => row[d] \in RiskRow
  BY DEF AccountTypeOK
<1>2. row[d] # None => Reserve(row[d], 1) \in RiskRow
  BY <1>1, ReserveType
<1>3. Rewrites(d) /\ (row[d] # None => row'[d] = Reserve(row[d], 1) /\ row[d] \in RiskRow)
  BY <1>2, UpdatedRewrites
<1> DEFINE a == row[d].available - 1
           n == row[d].deployed + 1
<1>4. Reserve(row[d], 1) = [row[d] EXCEPT !.deployed = n, !.available = a]
  BY DEF Reserve
<1> HIDE DEF a, n
<1>5. row[d] # None =>
        /\ row'[d].starting = row[d].starting /\ row'[d].realized = row[d].realized
        /\ row'[d].flips = row[d].flips /\ row'[d].state = row[d].state
        /\ row'[d].deployed = n
  BY <1>3, <1>4 DEF RiskRow
<1> QED BY <1>3, <1>5 DEF SameEquity, SameFlips, SameState, n

LEMMA ReconcileRow ==
  ASSUME AccountTypeOK, NEW d \in Days, NEW n \in Int,
         row' = Updated(d, Reconcile(row[d], n))
  PROVE  /\ Rewrites(d) /\ SameEquity(d) /\ SameFlips(d) /\ SameState(d)
         /\ row[d] # None => Balanced(row'[d]) /\ row'[d].deployed >= 0
<1>1. row[d] # None => row[d] \in RiskRow
  BY DEF AccountTypeOK
<1>2. row[d] # None => Reconcile(row[d], n) \in RiskRow /\ Balanced(Reconcile(row[d], n))
  BY <1>1, ReconcileType, ReconcileBalances
<1>3. /\ Rewrites(d)
      /\ row[d] # None => row'[d] = Reconcile(row[d], n) /\ row[d] \in RiskRow
  BY <1>2, UpdatedRewrites
<1> DEFINE a == AtLeastZero(Equity(row[d]) - AtLeastZero(n))
           m == AtLeastZero(n)
<1>4. Reconcile(row[d], n) = [row[d] EXCEPT !.deployed = m, !.available = a]
  BY DEF Reconcile
<1>5. m >= 0
  BY DEF AtLeastZero
<1> HIDE DEF a, m
<1>6. row[d] # None =>
        /\ row'[d].starting = row[d].starting /\ row'[d].realized = row[d].realized
        /\ row'[d].flips = row[d].flips /\ row'[d].state = row[d].state
        /\ row'[d].deployed = m
  BY <1>3, <1>4 DEF RiskRow
<1> QED BY <1>2, <1>3, <1>5, <1>6 DEF SameEquity, SameFlips, SameState

LEMMA ReleaseRow ==
  ASSUME AccountTypeOK, NEW d \in Days, NEW pnl \in Int,
         row' = Updated(d, Release(row[d], 1, pnl))
  PROVE  /\ Rewrites(d) /\ SameFlips(d) /\ SameState(d)
         /\ row[d] # None => /\ row'[d].starting = row[d].starting
                             /\ row'[d].realized = row[d].realized + pnl
                             /\ row'[d].deployed >= 0
<1>1. row[d] # None => row[d] \in RiskRow
  BY DEF AccountTypeOK
<1>2. row[d] # None => Release(row[d], 1, pnl) \in RiskRow
  BY <1>1, ReleaseType
<1>3. /\ Rewrites(d)
      /\ row[d] # None => row'[d] = Release(row[d], 1, pnl) /\ row[d] \in RiskRow
  BY <1>2, UpdatedRewrites
<1>4. row[d] # None => AtLeastZero(row[d].deployed - 1) >= 0
  BY <1>1 DEF AtLeastZero, RiskRow
<1> QED BY <1>3, <1>4, ReleaseFields DEF SameFlips, SameState

LEMMA HaltRow ==
  ASSUME AccountTypeOK, NEW d \in Days, NEW s \in RiskStates,
         row' = Updated(d, Halt(row[d], s))
  PROVE  Rewrites(d) /\ SameMoney(d) /\ SameFlips(d) /\ BecomesState(d, s)
<1>1. row[d] # None => row[d] \in RiskRow
  BY DEF AccountTypeOK
<1>2. row[d] # None => Halt(row[d], s) \in RiskRow
  BY <1>1, HaltType
<1>3. /\ Rewrites(d)
      /\ row[d] # None => row'[d] = Halt(row[d], s) /\ row[d] \in RiskRow
  BY <1>2, UpdatedRewrites
<1> QED BY <1>3 DEF Halt, RiskRow, SameMoney, SameFlips, BecomesState

LEMMA RecordFlipRow ==
  ASSUME AccountTypeOK, NEW d \in Days,
         row' = Updated(d, [row[d] EXCEPT !.flips = @ + 1, !.flipsHour = @ + 1])
  PROVE  /\ Rewrites(d) /\ SameMoney(d) /\ SameState(d)
         /\ row[d] # None => row'[d].flips = row[d].flips + 1
<1> DEFINE f == row[d].flips + 1
           h == row[d].flipsHour + 1
           new == [row[d] EXCEPT !.flips = f, !.flipsHour = h]
<1>1. row[d] # None => row[d] \in RiskRow
  BY DEF AccountTypeOK
<1>2. row[d] # None => f \in Nat /\ h \in Nat
  BY <1>1 DEF RiskRow
<1>3. row' = Updated(d, new)
  OBVIOUS
<1>4. row[d] # None => new \in RiskRow
  <2> HIDE DEF f, h
  <2> QED BY <1>1, <1>2 DEF RiskRow
<1>5. Rewrites(d) /\ (row[d] # None => row'[d] = new)
  <2> HIDE DEF new
  <2> QED BY <1>3, <1>4, UpdatedRewrites
<1> HIDE DEF f, h
<1>6. row[d] # None =>
        /\ row'[d].starting = row[d].starting /\ row'[d].deployed = row[d].deployed
        /\ row'[d].available = row[d].available /\ row'[d].realized = row[d].realized
        /\ row'[d].state = row[d].state /\ row'[d].flips = f
  BY <1>1, <1>5 DEF RiskRow
<1> QED BY <1>5, <1>6 DEF SameMoney, SameState, f

LEMMA HaltFlipsRow ==
  ASSUME AccountTypeOK, NEW d \in Days,
         row' = Updated(d, [row[d] EXCEPT !.flipsOff = TRUE])
  PROVE  Rewrites(d) /\ SameMoney(d) /\ SameState(d) /\ SameFlips(d)
<1> DEFINE new == [row[d] EXCEPT !.flipsOff = TRUE]
<1>1. row[d] # None => row[d] \in RiskRow
  BY DEF AccountTypeOK
<1>2. row[d] # None => new \in RiskRow
  BY <1>1 DEF RiskRow
<1>3. Rewrites(d) /\ (row[d] # None => row'[d] = new)
  <2>1. row' = Updated(d, new) OBVIOUS
  <2> HIDE DEF new
  <2> QED BY <2>1, <1>2, UpdatedRewrites
<1> QED BY <1>1, <1>3 DEF RiskRow, SameMoney, SameState, SameFlips

\* Auto-trade ON, and clear_paper_circuit_halt.
LEMMA EnableRow ==
  ASSUME AccountTypeOK, NEW d \in Days,
         row' = Updated(d, [row[d] EXCEPT !.blocked = FALSE, !.flipsOff = FALSE,
                                          !.state = "NORMAL"])
  PROVE  Rewrites(d) /\ SameMoney(d) /\ SameFlips(d)
<1> DEFINE new == [row[d] EXCEPT !.blocked = FALSE, !.flipsOff = FALSE, !.state = "NORMAL"]
<1>1. row[d] # None => row[d] \in RiskRow
  BY DEF AccountTypeOK
<1>2. row[d] # None => new \in RiskRow
  BY <1>1 DEF RiskRow, RiskStates
<1>3. Rewrites(d) /\ (row[d] # None => row'[d] = new)
  <2>1. row' = Updated(d, new) OBVIOUS
  <2> HIDE DEF new
  <2> QED BY <2>1, <1>2, UpdatedRewrites
<1> QED BY <1>1, <1>3 DEF RiskRow, SameMoney, SameFlips

LEMMA KillSwitchRow ==
  ASSUME AccountTypeOK, NEW d \in Days, row[d] # None, NEW b \in BOOLEAN,
         row' = [row EXCEPT ![d] = KillSwitch(@, b)]
  PROVE  Rewrites(d) /\ SameMoney(d) /\ SameFlips(d) /\ SameState(d)
<1>1. row[d] \in RiskRow
  BY DEF AccountTypeOK
<1>2. KillSwitch(row[d], b) \in RiskRow
  BY <1>1, KillSwitchType
<1>3. Rewrites(d) /\ row'[d] = KillSwitch(row[d], b)
  BY <1>2, AccountAssumption DEF Rewrites, AccountTypeOK
<1> QED BY <1>1, <1>3 DEF KillSwitch, RiskRow, SameMoney, SameFlips, SameState

\* The insert gives a day its row, and only a day that has none.
LEMMA InsertRow ==
  ASSUME AccountTypeOK, NEW n \in Nat,
         row' = [row EXCEPT ![today] = IF @ = None THEN SeededRow(n) ELSE @]
  PROVE  /\ row' \in [Days -> RiskRow \cup {None}]
         /\ \A d \in Days : row[d] # None \/ d # today => row'[d] = row[d]
         /\ row[today] = None => row'[today] = SeededRow(n)
BY SeededRowType DEF AccountTypeOK

LEMMA ResetsRows ==
  ASSUME AccountTypeOK,
         row' = [d \in Days |-> IF d # today THEN None
                                ELSE IF row[d] = None THEN SeededRow(AccountCapital)
                                ELSE ResetRow(row[d])]
  PROVE  /\ row' \in [Days -> RiskRow \cup {None}]
         /\ \A d \in Days : row'[d] # None <=> d = today
         /\ row'[today] = IF row[today] = None THEN SeededRow(AccountCapital)
                          ELSE ResetRow(row[today])
<1>1. SeededRow(AccountCapital) \in RiskRow
  BY SeededRowType, CapitalAssumption
<1>2. row[today] # None => ResetRow(row[today]) \in RiskRow
  BY ResetRowType DEF AccountTypeOK
<1> QED BY <1>1, <1>2, AccountAssumption DEF AccountTypeOK

-----------------------------------------------------------------------------
(***************************************************************************)
(* What each segment does to the locals of its caller.                     *)
(***************************************************************************)
OpTyped == op \in [Callers -> OpState] /\ \A c \in Callers : op[c].seed \in Nat

\* Caller c moved to pc; the others are where they were.
Now(c, pc) ==
  /\ OpTyped'
  /\ \A x \in Callers \ {c} : op'[x] = op[x]
  /\ op'[c].pc = pc

\* No ensure_paper_account is half done.
Fresh(c) == op'[c].step \in {"done", "read"} /\ op'[c].since \in {1, op[c].since}

LEMMA OneDay == 1 \in Days /\ \A d \in Days : d \in Nat /\ 1 <= d
BY AccountAssumption DEF Days

\* An update of the locals of c that only moves it or loads a few of them.
LEMMA LocalsNow ==
  ASSUME AccountTypeInv, NEW c \in Callers, NEW v \in OpState, v.seed \in Nat,
         op' = [op EXCEPT ![c] = v]
  PROVE  Now(c, v.pc) /\ op'[c] = v
BY DEF AccountTypeInv, AccountTypeOK, OpTyped, Now

LEMMA SeedlessNow ==
  ASSUME AccountTypeInv, NEW c \in Callers, NEW v \in OpState, v.seed = 0,
         op' = [op EXCEPT ![c] = v]
  PROVE  Now(c, v.pc) /\ op'[c] = v
<1>1. v.seed \in Nat
  OBVIOUS
<1> QED BY <1>1, LocalsNow

LEMMA IdleType ==
  /\ Idle \in OpState /\ Idle.pc = "idle" /\ Idle.day = 1 /\ Idle.seed = 0
  /\ Idle.step = "done" /\ Idle.since = 1 /\ Idle.pnl = 0 /\ Idle.flip = FALSE
BY AccountAssumption DEF Idle, OpState, Pcs, Days

LEMMA MovedType ==
  ASSUME AccountTypeInv, NEW c \in Callers, NEW pc \in Pcs, NEW day \in Days,
         NEW m, m = Moved(c, pc, day)
  PROVE  /\ m \in OpState /\ m.pc = pc /\ m.day = day /\ m.step = "done"
         /\ m.seed = 0 /\ m.since = 1 /\ m.pnl = 0 /\ m.flip = op[c].flip
<1> DEFINE n == op[c].flips
           b == op[c].flip
<1>1. n \in Nat /\ b \in BOOLEAN
  BY DEF AccountTypeInv, AccountTypeOK, OpState
<1>2. m = [Idle EXCEPT !.pc = pc, !.day = day, !.flips = n, !.flip = b]
  BY DEF Moved
<1> HIDE DEF n, b
<1>3. m \in OpState
  BY <1>1, <1>2, IdleType DEF OpState
<1>4. m.pc = pc /\ m.day = day /\ m.flip = b
  BY <1>2, IdleType DEF OpState
<1>5. m.step = "done" /\ m.seed = 0 /\ m.since = 1 /\ m.pnl = 0
  BY <1>2, IdleType DEF OpState
<1> QED BY <1>3, <1>4, <1>5 DEF b

LEMMA MovedNow ==
  ASSUME AccountTypeInv, NEW c \in Callers, NEW pc \in Pcs, NEW day \in Days,
         op' = [op EXCEPT ![c] = Moved(c, pc, day)]
  PROVE  /\ Now(c, pc) /\ op'[c].day = day /\ Fresh(c) /\ op'[c].flip = op[c].flip
         /\ op'[c].step = "done"
<1>1. PICK m : m = Moved(c, pc, day)
  OBVIOUS
<1>2. /\ m \in OpState /\ m.pc = pc /\ m.day = day /\ m.step = "done"
      /\ m.seed = 0 /\ m.since = 1 /\ m.flip = op[c].flip
  BY <1>1, MovedType
<1>3. Now(c, m.pc) /\ op'[c] = m
  BY <1>1, <1>2, SeedlessNow
<1> QED BY <1>2, <1>3 DEF Fresh

LEMMA GotoNow ==
  ASSUME AccountTypeInv, NEW c \in Callers, NEW pc \in Pcs, Goto(c, pc)
  PROVE  /\ Now(c, pc) /\ op'[c].day = today /\ Fresh(c) /\ op'[c].flip = op[c].flip
         /\ op'[c].step = "done"
BY MovedNow DEF Goto, AccountTypeInv, AccountTypeOK

LEMMA NextFlipNow ==
  ASSUME AccountTypeInv, NEW c \in Callers, NextFlip(c)
  PROVE  Now(c, "flips") /\ op'[c].day = 1 /\ Fresh(c)
<1>1. "flips" \in Pcs
  BY DEF Pcs
<1> QED BY <1>1, MovedNow, OneDay DEF NextFlip

LEMMA EnsureNow ==
  ASSUME AccountTypeInv, NEW c \in Callers, NEW pc \in Pcs, Ensure(c, pc)
  PROVE  Now(c, pc) /\ op'[c].day = 1 /\ Fresh(c) /\ op'[c].flip = op[c].flip
<1> DEFINE to == "read"
           v == [Moved(c, pc, 1) EXCEPT !.step = to]
<1>1. PICK m : m = Moved(c, pc, 1)
  OBVIOUS
<1>2. /\ m \in OpState /\ m.pc = pc /\ m.day = 1
      /\ m.seed = 0 /\ m.since = 1 /\ m.flip = op[c].flip
  BY <1>1, MovedType, OneDay
<1>3. op' = [op EXCEPT ![c] = v] /\ v = [m EXCEPT !.step = to]
  BY <1>1 DEF Ensure
<1>4. v \in OpState /\ v.step = "read"
  BY <1>2, <1>3 DEF OpState
<1>5. v.pc = pc /\ v.day = 1 /\ v.seed = 0 /\ v.since = 1 /\ v.flip = op[c].flip
  BY <1>2, <1>3 DEF OpState
<1> HIDE DEF v
<1>6. Now(c, v.pc) /\ op'[c] = v
  BY <1>3, <1>4, <1>5, SeedlessNow
<1> QED BY <1>4, <1>5, <1>6 DEF Fresh

LEMMA CallSyncNow ==
  ASSUME AccountTypeInv, NEW c \in Callers, NEW n \in Nat, NEW b \in BOOLEAN,
         CallSync(c, n, b)
  PROVE  /\ Now(c, "syncing") /\ op'[c].day = today /\ Fresh(c)
         /\ op'[c].flip = op[c].flip
<1> DEFINE v == [Moved(c, "syncing", today) EXCEPT !.total = n, !.on = b]
<1>1. PICK m : m = Moved(c, "syncing", today)
  OBVIOUS
<1>2. /\ m \in OpState /\ m.pc = "syncing" /\ m.day = today /\ m.step = "done"
      /\ m.seed = 0 /\ m.since = 1 /\ m.flip = op[c].flip
  <2>1. "syncing" \in Pcs /\ today \in Days
    BY DEF Pcs, AccountTypeInv, AccountTypeOK
  <2> QED BY <1>1, <2>1, MovedType
<1>3. op' = [op EXCEPT ![c] = v] /\ v = [m EXCEPT !.total = n, !.on = b]
  BY <1>1 DEF CallSync
<1> HIDE DEF v
<1>4. v \in OpState
  BY <1>2, <1>3 DEF OpState
<1>5. /\ v.pc = "syncing" /\ v.day = today /\ v.step = "done" /\ v.seed = 0
      /\ v.since = 1 /\ v.flip = op[c].flip
  BY <1>2, <1>3 DEF OpState
<1>6. Now(c, v.pc) /\ op'[c] = v
  BY <1>3, <1>4, <1>5, SeedlessNow
<1> QED BY <1>5, <1>6 DEF Fresh

LEMMA OnNow ==
  ASSUME AccountTypeInv, NEW c \in Callers, NEW pc \in Pcs, NEW day \in Days,
         NEW b \in BOOLEAN, op' = [op EXCEPT ![c] = [Moved(c, pc, day) EXCEPT !.on = b]]
  PROVE  /\ Now(c, pc) /\ op'[c].day = day /\ Fresh(c) /\ op'[c].flip = op[c].flip
         /\ op'[c].on = b
<1> DEFINE v == [Moved(c, pc, day) EXCEPT !.on = b]
<1>1. PICK m : m = Moved(c, pc, day)
  OBVIOUS
<1>2. /\ m \in OpState /\ m.pc = pc /\ m.day = day /\ m.step = "done"
      /\ m.seed = 0 /\ m.since = 1 /\ m.flip = op[c].flip
  BY <1>1, MovedType
<1>3. op' = [op EXCEPT ![c] = v] /\ v = [m EXCEPT !.on = b]
  BY <1>1
<1> HIDE DEF v
<1>4. v \in OpState /\ v.on = b
  BY <1>2, <1>3 DEF OpState
<1>5. /\ v.pc = pc /\ v.day = day /\ v.step = "done" /\ v.seed = 0
      /\ v.since = 1 /\ v.flip = op[c].flip
  BY <1>2, <1>3 DEF OpState
<1>6. Now(c, v.pc) /\ op'[c] = v
  BY <1>3, <1>4, <1>5, SeedlessNow
<1> QED BY <1>4, <1>5, <1>6 DEF Fresh

LEMMA AskedNow ==
  ASSUME AccountTypeInv, NEW c \in Callers, NEW pc \in Pcs, NEW day \in Days,
         NEW b \in BOOLEAN, op' = [op EXCEPT ![c] = [Moved(c, pc, day) EXCEPT
                                                   !.step = "read", !.on = b]]
  PROVE  Now(c, pc) /\ op'[c].day = day /\ Fresh(c) /\ op'[c].flip = op[c].flip
<1> DEFINE to == "read"
           v == [Moved(c, pc, day) EXCEPT !.step = to, !.on = b]
<1>1. PICK m : m = Moved(c, pc, day)
  OBVIOUS
<1>2. /\ m \in OpState /\ m.pc = pc /\ m.day = day
      /\ m.seed = 0 /\ m.since = 1 /\ m.flip = op[c].flip
  BY <1>1, MovedType
<1>3. op' = [op EXCEPT ![c] = v] /\ v = [m EXCEPT !.step = to, !.on = b]
  BY <1>1
<1> HIDE DEF v
<1>4. v \in OpState /\ v.step = "read"
  BY <1>2, <1>3 DEF OpState
<1>5. v.pc = pc /\ v.day = day /\ v.seed = 0 /\ v.since = 1 /\ v.flip = op[c].flip
  BY <1>2, <1>3 DEF OpState
<1>6. Now(c, v.pc) /\ op'[c] = v
  BY <1>3, <1>4, <1>5, SeedlessNow
<1> QED BY <1>4, <1>5, <1>6 DEF Fresh

LEMMA ReturnNow ==
  ASSUME AccountTypeInv, NEW c \in Callers, Return(c)
  PROVE  Now(c, "idle") /\ op'[c] = Idle /\ Fresh(c)
<1>1. Now(c, Idle.pc) /\ op'[c] = Idle
  BY IdleType, SeedlessNow DEF Return
<1> QED BY <1>1, IdleType DEF Fresh

LEMMA EnsureAndReturnNow ==
  ASSUME AccountTypeInv, NEW c \in Callers, EnsureAndReturn(c)
  PROVE  /\ \E pc \in {"idle", "returning"} : Now(c, pc)
         /\ op'[c].day = 1 /\ Fresh(c) /\ op'[c].flip = FALSE
<1>1. CASE NothingToSeed
  BY <1>1, ReturnNow, IdleType DEF EnsureAndReturn
<1>2. CASE ~NothingToSeed
  <2> DEFINE to == "returning"
             from == "read"
             v == [Idle EXCEPT !.pc = to, !.step = from]
  <2>1. op' = [op EXCEPT ![c] = v]
    BY <1>2 DEF EnsureAndReturn
  <2>2. v \in OpState
    BY IdleType DEF OpState, Pcs
  <2>3. /\ v.pc = to /\ v.day = 1 /\ v.seed = 0 /\ v.step = from /\ v.since = 1
        /\ v.flip = FALSE
    BY IdleType DEF OpState
  <2> HIDE DEF v
  <2>4. Now(c, v.pc) /\ op'[c] = v
    BY <2>1, <2>2, <2>3, SeedlessNow
  <2> QED BY <2>3, <2>4 DEF Fresh
<1> QED BY <1>1, <1>2

LEMMA EndEntryNow ==
  ASSUME AccountTypeInv, NEW c \in Callers, EndEntry(c)
  PROVE  /\ op'[c].day = 1 /\ Fresh(c)
         /\ IF op[c].flip THEN Now(c, "flips") /\ UNCHANGED scanLock
                           ELSE Now(c, "idle") /\ scanLock' = None
BY NextFlipNow, ReturnNow, IdleType DEF EndEntry

-----------------------------------------------------------------------------
(***************************************************************************)
(* The inductive invariant: what holds of each caller,                     *)
(***************************************************************************)
\* a date in hand is never one to come, and money is written to today's row
\* unless something intervened;
DayPcs == {"reserving", "syncing", "releasing", "halting", "flatten"}

DateOK(c) ==
  /\ op[c].day <= today
  /\ ~disturbed /\ op[c].pc \in DayPcs => op[c].day = today

\* the row that was ensured is there, or of a day gone by;
SinceOK(c) ==
  /\ op[c].since <= today
  /\ op[c].step = "select" => row[op[c].since] # None \/ op[c].since < today
  /\ ~disturbed /\ op[c].step = "select" /\ op[c].pc \in MoneyPcs => op[c].since = today

\* a seed that was read is still what the last earlier day ended with;
SeedOK(c) ==
  ~disturbed /\ op[c].step = "insert" /\ row[today] = None =>
    op[c].seed = PreviousDayEquity

\* only the daily loss halts where no other limit is configured;
HaltOK(c) == OnlyLossLimit /\ op[c].pc = "halting" => op[c].on

\* a scan, or the quote loop with its flips, holds _scan_lock (a margin
\* reconciliation runs without it, in a close or a summary, as well);
ScanPcs == {"gate", "flips", "flipGate", "reserving", "ordering", "entered",
            "recording", "flipLimits", "flipHalt", "flipHalted", "flipDone"}

LockOK(c) ==
  /\ op[c].pc \in ScanPcs => scanLock = c
  /\ scanLock = c => op[c].pc \in ScanPcs \cup {"syncing"}

\* a flip that the gate has let pass and record_flip has not counted finds the
\* day's count below its limit, also of a day that began after the gate's row.
FlipUnderWay(c) ==
  scanLock = c /\ op[c].flip
    /\ op[c].pc \in {"reserving", "ordering", "syncing", "entered"}

LaterDays(c) ==
  scanLock = c /\ op[c].pc \in {"gate", "flipGate"} /\ op[c].step = "select" =>
    \A d \in Days : op[c].since < d /\ row[d] # None => row[d].flips = 0

FlipOK(c) ==
  /\ LaterDays(c)
  /\ Effective(MaxFlipsPerDay) > 0 =>
       /\ FlipUnderWay(c) /\ row[today] # None =>
            row[today].flips < Effective(MaxFlipsPerDay)
       /\ op[c].pc = "recording" /\ row[op[c].day] # None =>
            row[op[c].day].flips < Effective(MaxFlipsPerDay)

CallerOK(c) ==
  DateOK(c) /\ SinceOK(c) /\ SeedOK(c) /\ HaltOK(c) /\ LockOK(c) /\ FlipOK(c)

(***************************************************************************)
(* and what holds of the rows.                                             *)
(***************************************************************************)
HaltStates == {"HALTED", "EMERGENCY_FLATTEN"}

\* No date to come has a row; a halt has reached a row that is there.
RowsInv ==
  /\ \A d \in Days : row[d] # None => d <= today
  /\ \A d \in halted : row[d] # None /\ (~BreakersDisabled => row[d].state \in HaltStates)

\* The daily loss limit is reached, and no command of today speaks against it.
LossStands ==
  /\ ~BreakersDisabled /\ ~disturbed /\ today \notin commanded
  /\ row[today] # None /\ LossLimitReached(row[today])

\* Until a halt is written, somebody is about to write it.
HaltComes(c) == op[c].pc \in {"postTrade", "halting"}
EmergencyComes(c) == op[c].pc \in {"postTrade", "halting", "emergency", "flatten"}

EmergencyInv ==
  LossStands =>
    /\ row[today].state \in HaltStates \/ \E c \in Callers : HaltComes(c)
    /\ EmergencyFlatten /\ OnlyLossLimit =>
         row[today].state = "EMERGENCY_FLATTEN" \/ \E c \in Callers : EmergencyComes(c)

\* After reserve_capital and release_capital comes a reconcile_margin.
SyncComes(c) ==
  op[c].pc \in {"ordering", "syncing", "postTrade", "halting", "emergency", "flatten",
                "syncCall"}

\* What today's account is worth, also before its row exists.
Worth == IF row[today] # None THEN Equity(row[today]) ELSE PreviousDayEquity

\* Results that were booked and whose release_capital has not run.
Pending == [c \in Callers |-> IF op[c].pc = "releasing" THEN op[c].pnl ELSE 0]
PendingSum == SumOver(Pending, Callers)

EquityInv ==
  ~disturbed =>
    /\ row[today] # None => Balanced(row[today]) \/ \E c \in Callers : SyncComes(c)
    /\ Solvent => Worth = AccountCapital + booked - unbooked - PendingSum

AccountInv ==
  /\ AccountTypeInv /\ RowsInv /\ FlipsWithinLimit /\ EmergencyInv /\ EquityInv
  /\ \A c \in Callers : CallerOK(c)

-----------------------------------------------------------------------------
(***************************************************************************)
(* What a step leaves alone.                                               *)
(***************************************************************************)
\* The money columns of the rows before today decide what the day starts with.
LEMMA SameEarlier ==
  ASSUME today' = today,
         \A d \in Days : d < today => (row'[d] = None <=> row[d] = None) /\ SameMoney(d)
  PROVE  /\ EarlierDays' = EarlierDays
         /\ PreviousDayEquity' = PreviousDayEquity /\ Solvent' = Solvent
<1>1. EarlierDays' = EarlierDays
  BY DEF EarlierDays
<1>2. \A d \in EarlierDays :
        /\ row'[d].starting = row[d].starting /\ row'[d].deployed = row[d].deployed
        /\ row'[d].available = row[d].available /\ row'[d].realized = row[d].realized
  BY DEF EarlierDays, SameMoney
<1>3. LastEarlier' = LastEarlier
  BY <1>1 DEF LastEarlier
<1>4. Solvent' = Solvent
  BY <1>1, <1>2 DEF Solvent, Equity
<1>5. PreviousDayEquity' = PreviousDayEquity
  <2>1. CASE EarlierDays = {}
    BY <2>1, <1>1 DEF PreviousDayEquity
  <2>2. CASE EarlierDays # {}
    BY <2>2, <1>1, <1>2, <1>3, LastEarlierIs DEF PreviousDayEquity, Equity
  <2> QED BY <2>1, <2>2
<1> QED BY <1>1, <1>4, <1>5

LEMMA SameRows ==
  ASSUME UNCHANGED account
  PROVE  /\ EarlierDays' = EarlierDays
         /\ PreviousDayEquity' = PreviousDayEquity /\ Solvent' = Solvent
BY SameEarlier DEF account, SameMoney

\* One row is rewritten: today's, or in other columns than the money's.
LEMMA EarlierKept ==
  ASSUME AccountTypeOK, today' = today, NEW d \in Days, Rewrites(d),
         d = today \/ SameMoney(d)
  PROVE  /\ EarlierDays' = EarlierDays
         /\ PreviousDayEquity' = PreviousDayEquity /\ Solvent' = Solvent
<1>1. ASSUME NEW e \in Days, e < today
      PROVE  (row'[e] = None <=> row[e] = None) /\ SameMoney(e)
  <2>1. CASE e = d
    <3>1. d # today
      BY <1>1, <2>1 DEF AccountTypeOK, Days
    <3> QED BY <2>1, <3>1 DEF Rewrites
  <2>2. CASE e # d
    BY <2>2 DEF Rewrites, SameMoney
  <2> QED BY <2>1, <2>2
<1> QED BY <1>1, SameEarlier

\* The lock is only taken when free, and only its holder gives it back.
LockFrame(c) ==
  \/ scanLock' = scanLock
  \/ scanLock = None /\ scanLock' = c
  \/ scanLock = c /\ scanLock' = None

\* c moves; of the rows at most that of day d changes.
Others(c) == \A x \in Callers \ {c} : op'[x] = op[x]

LEMMA OthersKept ==
  ASSUME \A x \in Callers : CallerOK(x), NEW c \in Callers, Others(c), LockFrame(c),
         today' = today, disturbed' = disturbed,
         NEW d \in Days, Rewrites(d), ~disturbed => d = today \/ SameMoney(d),
         SameFlips(d) \/ scanLock = c, AccountTypeOK,
         NEW x \in Callers, x # c
  PROVE  CallerOK(x)'
<1>1. op'[x] = op[x] /\ CallerOK(x) /\ op[x].day \in Days /\ today \in Days
  BY DEF Others, AccountTypeOK, OpState
<1>2. scanLock' = x <=> scanLock = x
  BY AccountAssumption DEF LockFrame
<1>3. \A e \in Days : row'[e] = None <=> row[e] = None
  BY DEF Rewrites
<1>4. DateOK(x)' /\ HaltOK(x)'
  BY <1>1 DEF CallerOK, DateOK, HaltOK
<1>5. SinceOK(x)'
  <2>1. op[x].since \in Days
    BY DEF AccountTypeOK, OpState
  <2> QED BY <2>1, <1>1, <1>3 DEF CallerOK, SinceOK
<1>6. SeedOK(x)'
  <2>1. CASE ~disturbed
    <3>1. PreviousDayEquity' = PreviousDayEquity
      BY <2>1, EarlierKept
    <3> QED BY <3>1, <1>1, <1>3 DEF CallerOK, SeedOK
  <2> QED BY <2>1, <1>1 DEF CallerOK, SeedOK
<1>7. LockOK(x)'
  BY <1>1, <1>2, AccountAssumption DEF CallerOK, LockOK
<1>8. FlipOK(x)'
  <2>1. CASE SameFlips(d)
    <3>1. \A e \in Days : row[e] # None => row'[e].flips = row[e].flips
      BY <2>1 DEF Rewrites, SameFlips
    <3> QED BY <3>1, <1>1, <1>2, <1>3 DEF CallerOK, FlipOK, LaterDays, FlipUnderWay
  <2>2. CASE scanLock = c
    BY <2>2, <1>1, <1>2 DEF CallerOK, LockOK, FlipOK, LaterDays, FlipUnderWay, ScanPcs
  <2> QED BY <2>1, <2>2
<1> QED BY <1>4, <1>5, <1>6, <1>7, <1>8 DEF CallerOK

\* The results under way change by those of the caller that moves.
PendingOf(c) == IF op[c].pc = "releasing" THEN op[c].pnl ELSE 0

LEMMA PendingMoves ==
  ASSUME AccountTypeInv, OpTyped', NEW c \in Callers, Others(c)
  PROVE  /\ PendingSum \in Int /\ PendingSum' \in Int
         /\ PendingSum' = PendingSum - PendingOf(c) + PendingOf(c)'
<1>0. IsFiniteSet(Callers) /\ IsFiniteSet(Callers \ {c})
  BY AccountAssumption, FS_RemoveElement
<1>1. PICK f \in [Callers -> Int] : f = Pending
  <2>1. Pending \in [Callers -> Int]
    BY DEF Pending, AccountTypeInv, AccountTypeOK, OpState
  <2> QED BY <2>1
<1>2. PICK h \in [Callers -> Int] : h = Pending'
  <2>1. Pending' \in [Callers -> Int]
    BY DEF Pending, OpTyped, OpState
  <2> QED BY <2>1
<1>3. f[c] = PendingOf(c) /\ h[c] = PendingOf(c)' /\ \A x \in Callers \ {c} : f[x] = h[x]
  BY <1>1, <1>2 DEF Pending, PendingOf, Others
<1>4. /\ SumOver(f, Callers) = SumOver(f, Callers \ {c}) + f[c]
      /\ SumOver(h, Callers) = SumOver(h, Callers \ {c}) + h[c]
  BY <1>0, SumRemove
<1>5. SumOver(f, Callers \ {c}) = SumOver(h, Callers \ {c})
  BY <1>0, <1>3, SumSame
<1>6. /\ SumOver(f, Callers \ {c}) \in Int
      /\ SumOver(f, Callers) \in Int /\ SumOver(h, Callers) \in Int
  BY <1>0, SumInt
<1>7. PendingSum = SumOver(f, Callers) /\ PendingSum' = SumOver(h, Callers)
  BY <1>1, <1>2 DEF PendingSum
<1>8. f[c] \in Int /\ h[c] \in Int
  OBVIOUS
<1> QED BY <1>3, <1>4, <1>5, <1>6, <1>7, <1>8

LEMMA NothingPending ==
  ASSUME \A c \in Callers : op[c].pc # "releasing"
  PROVE  PendingSum = 0
<1>1. PICK f : f = Pending
  OBVIOUS
<1>2. \A c \in Callers : f[c] = 0
  BY <1>1 DEF Pending
<1>3. SumOver(f, Callers) = 0
  BY <1>2, SumZero, AccountAssumption
<1> QED BY <1>1, <1>3 DEF PendingSum

\* The steps that write no row and book no result.
Quiet(c) ==
  /\ UNCHANGED <<account, history>>
  /\ OpTyped' /\ Others(c) /\ LockFrame(c)
  /\ held' \in Nat /\ pendingFlips' \in Nat /\ flipped' \in BOOLEAN

LEMMA QuietRow ==
  ASSUME AccountTypeOK, UNCHANGED account
  PROVE  today \in Days /\ Rewrites(today) /\ SameFlips(today)
BY DEF AccountTypeOK, account, Rewrites, SameFlips

LEMMA QuietKeeps ==
  ASSUME AccountInv, NEW c \in Callers, Quiet(c), CallerOK(c)',
         LossStands /\ HaltComes(c) => HaltComes(c)',
         LossStands /\ EmergencyComes(c) => EmergencyComes(c)',
         ~disturbed /\ SyncComes(c) => SyncComes(c)',
         \/ op[c].pc # "releasing" /\ op'[c].pc # "releasing"
         \/ op[c].pc = op'[c].pc /\ op[c].pnl = op'[c].pnl
  PROVE  AccountInv'
<1>1. AccountTypeInv'
  <2>1. scanLock' \in Callers \cup {None}
    BY DEF AccountInv, AccountTypeInv, AccountTypeOK, Quiet, LockFrame
  <2> QED BY <2>1
    DEF AccountInv, AccountTypeInv, AccountTypeOK, Quiet, OpTyped, account, history
<1>2. RowsInv' /\ FlipsWithinLimit'
  BY DEF AccountInv, Quiet, account, history, RowsInv, FlipsWithinLimit
<1>3. \A x \in Callers : CallerOK(x)'
  <2>1. ASSUME NEW x \in Callers, x # c PROVE CallerOK(x)'
    <3>1. today \in Days /\ Rewrites(today) /\ SameFlips(today)
      BY QuietRow DEF AccountInv, AccountTypeInv, Quiet
    <3> QED BY <2>1, <3>1, OthersKept
      DEF AccountInv, AccountTypeInv, Quiet, account, history
  <2> QED BY <2>1
<1>4. EmergencyInv'
  <2>1. LossStands' = LossStands
    BY DEF Quiet, account, history, LossStands
  <2>2. \A x \in Callers : LossStands =>
          (HaltComes(x) => HaltComes(x)') /\ (EmergencyComes(x) => EmergencyComes(x)')
    BY DEF Quiet, Others, HaltComes, EmergencyComes
  <2> QED BY <2>1, <2>2 DEF AccountInv, EmergencyInv, Quiet, account
<1>5. EquityInv'
  <2>1. \A x \in Callers : ~disturbed /\ SyncComes(x) => SyncComes(x)'
    BY DEF Quiet, Others, SyncComes
  <2>2. PreviousDayEquity' = PreviousDayEquity /\ Solvent' = Solvent
    BY SameRows DEF Quiet
  <2>3. Worth' = Worth
    BY <2>2 DEF Worth, Quiet, account
  <2>4. PendingSum' = PendingSum
    <3>1. /\ PendingSum \in Int /\ PendingSum' \in Int
          /\ PendingSum' = PendingSum - PendingOf(c) + PendingOf(c)'
      BY PendingMoves DEF AccountInv, Quiet
    <3>2. PendingOf(c) = PendingOf(c)' /\ PendingOf(c) \in Int
      BY DEF PendingOf, AccountInv, AccountTypeInv, AccountTypeOK, OpState
    <3> QED BY <3>1, <3>2
  <2> QED BY <2>1, <2>2, <2>3, <2>4 DEF AccountInv, EquityInv, Quiet, account, history
<1> QED BY <1>1, <1>2, <1>3, <1>4, <1>5 DEF AccountInv

\* The steps after which little has to be said of the caller.
Plain(c) ==
  /\ op'[c].day \in {1, op[c].day, today}
  /\ op'[c].pc \in DayPcs => op'[c].day = today
  /\ op'[c].pc \notin {"halting", "recording"}
  /\ Fresh(c)
  /\ FlipUnderWay(c)' => FlipUnderWay(c)
  /\ LockOK(c)'

LEMMA PlainKept ==
  ASSUME AccountInv, NEW c \in Callers, Plain(c), today' = today, disturbed' = disturbed,
         NEW d \in Days, Rewrites(d), SameFlips(d) \/ ~FlipUnderWay(c)'
  PROVE  CallerOK(c)'
<1>1. /\ CallerOK(c) /\ op[c].day \in Nat /\ today \in Nat /\ 1 <= today
      /\ today \in Days /\ op[c].since \in Nat
  BY OneDay DEF AccountInv, AccountTypeInv, AccountTypeOK, OpState
<1>2. \A e \in Days : row'[e] = None <=> row[e] = None
  BY DEF Rewrites
<1>3. DateOK(c)'
  BY <1>1 DEF CallerOK, DateOK, Plain
<1>4. SinceOK(c)' /\ SeedOK(c)'
  BY <1>1 DEF CallerOK, SinceOK, SeedOK, Plain, Fresh
<1>5. HaltOK(c)' /\ LockOK(c)' /\ LaterDays(c)'
  BY DEF HaltOK, LaterDays, Plain, Fresh
<1>6. FlipOK(c)'
  <2>1. CASE ~FlipUnderWay(c)'
    BY <2>1, <1>5 DEF Plain, FlipOK
  <2>2. CASE SameFlips(d)
    <3>1. \A e \in Days : row[e] # None => row'[e].flips = row[e].flips
      BY <2>2 DEF Rewrites, SameFlips
    <3> QED BY <3>1, <1>1, <1>2, <1>5 DEF CallerOK, FlipOK, Plain
  <2> QED BY <2>1, <2>2
<1> QED BY <1>3, <1>4, <1>5, <1>6 DEF CallerOK

\* A quiet step changes no row, so the row of today is one it rewrites.
LEMMA QuietPlain ==
  ASSUME AccountInv, NEW c \in Callers, Quiet(c), Plain(c),
         ~disturbed /\ SyncComes(c) => SyncComes(c)',
         ~disturbed => op[c].pc \notin {"postTrade", "halting", "emergency", "flatten"},
         op[c].pc # "releasing", op'[c].pc # "releasing"
  PROVE  AccountInv'
<1>1. today \in Days /\ Rewrites(today) /\ SameFlips(today)
  BY QuietRow DEF AccountInv, AccountTypeInv, Quiet
<1>2. CallerOK(c)'
  BY <1>1, PlainKept DEF Quiet, account, history
<1> QED BY <1>2, QuietKeeps DEF HaltComes, EmergencyComes, LossStands

\* Back to rest: with the lock, or without having held it.
LEMMA ReturnKeeps ==
  ASSUME AccountInv, NEW c \in Callers, Return(c), UNCHANGED <<account, history>>,
         held' \in Nat, pendingFlips' \in Nat, flipped' \in BOOLEAN,
         \/ scanLock = c /\ scanLock' = None
         \/ scanLock' = scanLock /\ op[c].pc \notin ScanPcs \cup {"syncing"},
         ~disturbed => ~SyncComes(c), op[c].pc # "releasing"
  PROVE  AccountInv'
<1>1. Now(c, "idle") /\ op'[c] = Idle /\ Fresh(c)
  BY ReturnNow DEF AccountInv
<1>2. Quiet(c)
  BY <1>1 DEF Now, Quiet, Others, LockFrame
<1>3. scanLock' # c
  BY AccountAssumption DEF AccountInv, CallerOK, LockOK
<1>4. Plain(c)
  BY <1>1, <1>3, IdleType DEF Plain, LockOK, FlipUnderWay, DayPcs, ScanPcs
<1>5. op'[c].pc = "idle"
  BY <1>1, IdleType
<1> QED BY <1>2, <1>4, <1>5, QuietPlain DEF SyncComes

\* The row that ensure_daily_state returns, or misses.
LEMMA SelectedDay ==
  ASSUME AccountInv, NEW c \in Callers, op[c].pc \in Ensuring, Ensured(c),
         NEW d, d \in Selected(c)
  PROVE  /\ d \in Days /\ d <= today
         /\ d # today => op[c].step = "select" /\ op[c].since <= d
         /\ ~disturbed /\ op[c].pc \in MoneyPcs => d = today /\ row[d] # None
<1>0. today \in Days /\ op[c].since \in Days /\ SinceOK(c)
  BY DEF AccountInv, AccountTypeInv, AccountTypeOK, OpState, CallerOK
<1>1. today \in Nat /\ op[c].since \in Nat /\ 1 <= op[c].since
  BY <1>0, OneDay
<1>2. CASE op[c].step = "select"
  BY <1>0, <1>1, <1>2, AccountAssumption DEF Selected, SinceOK, Days
<1>3. CASE op[c].step # "select"
  BY <1>0, <1>1, <1>3 DEF Selected, Ensured, NothingToSeed, Days
<1> QED BY <1>2, <1>3

-----------------------------------------------------------------------------
(***************************************************************************)
(* The steps that write no row.                                            *)
(***************************************************************************)
LEMMA EndEntryKeeps ==
  ASSUME AccountInv, NEW c \in Callers, EndEntry(c),
         UNCHANGED <<account, held, pendingFlips, flipped, history>>,
         op[c].pc \in {"gate", "entered"}
  PROVE  AccountInv'
<1>0. scanLock = c
  BY DEF AccountInv, CallerOK, LockOK, ScanPcs
<1>1. CASE op[c].flip
  <2>1. op'[c].day = 1 /\ Fresh(c) /\ Now(c, "flips") /\ UNCHANGED scanLock
    BY <1>1, EndEntryNow DEF AccountInv
  <2>2. Quiet(c)
    BY <2>1 DEF Now, Quiet, Others, LockFrame, AccountInv, AccountTypeInv, AccountTypeOK
  <2>3. Plain(c)
    BY <1>0, <2>1 DEF Plain, LockOK, FlipUnderWay, DayPcs, ScanPcs, Now
  <2> QED BY <2>1, <2>2, <2>3, QuietPlain DEF SyncComes, Now
<1>2. CASE ~op[c].flip
  BY <1>0, <1>2, ReturnKeeps
  DEF EndEntry, SyncComes, AccountInv, AccountTypeInv, AccountTypeOK
<1> QED BY <1>1, <1>2

LEMMA StartEntryKeeps ==
  ASSUME AccountInv, NEW c \in Callers, StartEntry(c) PROVE AccountInv'
<1>1. Now(c, "gate") /\ op'[c].day = 1 /\ Fresh(c) /\ scanLock = None /\ scanLock' = c
  BY EnsureNow DEF StartEntry, AccountInv, Pcs
<1>2. Quiet(c)
  BY <1>1 DEF Now, Quiet, Others, LockFrame, StartEntry, AccountInv, AccountTypeInv,
     AccountTypeOK
<1>3. Plain(c)
  BY <1>1 DEF Plain, LockOK, FlipUnderWay, DayPcs, ScanPcs, Now
<1> QED BY <1>1, <1>2, <1>3, QuietPlain DEF SyncComes, Now, At, StartEntry

LEMMA TakeFlipsKeeps ==
  ASSUME AccountInv, NEW c \in Callers, TakeFlips(c) PROVE AccountInv'
<1> DEFINE n == pendingFlips
           to == "flips"
           b == TRUE
           v == [op[c] EXCEPT !.pc = to, !.flips = n, !.flip = b]
<1>1. /\ n \in Nat /\ to \in Pcs /\ b \in BOOLEAN
      /\ op[c] \in OpState /\ op[c].seed \in Nat
  BY DEF AccountInv, AccountTypeInv, AccountTypeOK, Pcs
<1>2. /\ op' = [op EXCEPT ![c] = v] /\ scanLock = None /\ scanLock' = c
      /\ op[c].pc = "idle"
  BY DEF TakeFlips, At
<1> HIDE DEF n, to, b
<1>3. /\ v \in OpState /\ v.pc = to /\ v.day = op[c].day /\ v.seed = op[c].seed
      /\ v.since = op[c].since
  BY <1>1 DEF OpState
<1>4. v.step = op[c].step
  BY <1>1 DEF OpState
<1> HIDE DEF v
<1>5. Now(c, "flips") /\ op'[c] = v
  BY <1>1, <1>2, <1>3, LocalsNow DEF AccountInv, to
<1>6. Quiet(c)
  BY <1>2, <1>5 DEF Now, Quiet, Others, LockFrame, TakeFlips, AccountInv, AccountTypeInv,
     AccountTypeOK
<1>7. CallerOK(c)'
  <2>1. CallerOK(c) /\ UNCHANGED <<account, history>>
    BY DEF AccountInv, TakeFlips
  <2>2. DateOK(c)' /\ SinceOK(c)' /\ HaltOK(c)' /\ LockOK(c)'
    BY <1>2, <1>3, <1>4, <1>5, <2>1
    DEF CallerOK, DateOK, SinceOK, HaltOK, LockOK, DayPcs, MoneyPcs, ScanPcs, account,
        history, Now
  <2>3. SeedOK(c)'
    BY <1>3, <1>4, <1>5, <2>1, SameRows DEF CallerOK, SeedOK, account, history
  <2>4. FlipOK(c)'
    BY <1>5 DEF FlipOK, LaterDays, FlipUnderWay, Now
  <2> QED BY <2>2, <2>3, <2>4 DEF CallerOK
<1> QED BY <1>2, <1>5, <1>6, <1>7, QuietKeeps
  DEF SyncComes, HaltComes, EmergencyComes, Now

\* The holder of the lock moves within a scan.
LEMMA ScanKeeps ==
  ASSUME AccountInv, NEW c \in Callers,
         UNCHANGED <<account, held, scanLock, pendingFlips, history>>, flipped' \in BOOLEAN,
         NEW pc \in ScanPcs, pc \notin {"reserving", "ordering", "entered", "recording"},
         Now(c, pc), Fresh(c), op'[c].day \in {1, op[c].day, today},
         op[c].pc \in ScanPcs, ~SyncComes(c)
  PROVE  AccountInv'
<1>1. scanLock = c
  BY DEF AccountInv, CallerOK, LockOK
<1>2. Quiet(c)
  BY DEF Now, Quiet, Others, LockFrame, AccountInv, AccountTypeInv, AccountTypeOK
<1>3. Plain(c)
  BY <1>1 DEF Plain, LockOK, FlipUnderWay, DayPcs, ScanPcs, Now
<1> QED BY <1>2, <1>3, QuietPlain DEF ScanPcs, Now

LEMMA TryFlipKeeps ==
  ASSUME AccountInv, NEW c \in Callers, TryFlip(c) PROVE AccountInv'
<1>1. CASE op[c].flips = 0
  <2>1. scanLock = c
    BY DEF TryFlip, At, AccountInv, CallerOK, LockOK, ScanPcs
  <2> QED BY <1>1, <2>1, ReturnKeeps
    DEF TryFlip, At, SyncComes, AccountInv, AccountTypeInv, AccountTypeOK
<1>2. CASE op[c].flips # 0
  <2>0. NextTried(c) /\ UNCHANGED scanLock
    BY <1>2 DEF TryFlip
  <2>1. PICK cooling \in {FALSE, flipped} :
          op' = [op EXCEPT ![c] =
                  [Moved(c, IF cooling THEN "flips" ELSE "flipGate", 1) EXCEPT
                     !.step = IF cooling THEN "done" ELSE "read",
                     !.flips = op[c].flips - 1]]
    BY <2>0 DEF NextTried
  <2> DEFINE n == op[c].flips - 1
             to == IF cooling THEN "flips" ELSE "flipGate"
             s == IF cooling THEN "done" ELSE "read"
             v == [Moved(c, to, 1) EXCEPT !.step = s, !.flips = n]
  <2>2. /\ n \in Nat /\ to \in {"flips", "flipGate"} /\ s \in {"done", "read"}
        /\ to \in Pcs
    BY <1>2 DEF AccountInv, AccountTypeInv, AccountTypeOK, OpState, Pcs
  <2>3. op' = [op EXCEPT ![c] = v]
    BY <2>1
  <2> HIDE DEF n, to, s
  <2>m. PICK m : m = Moved(c, to, 1)
    OBVIOUS
  <2>4. /\ m \in OpState /\ m.pc = to /\ m.day = 1 /\ m.seed = 0 /\ m.since = 1
    BY <2>2, <2>m, MovedType, OneDay DEF AccountInv
  <2>v. v = [m EXCEPT !.step = s, !.flips = n]
    BY <2>m
  <2> HIDE DEF v
  <2>5. /\ v \in OpState /\ v.pc = to /\ v.day = 1 /\ v.seed = 0
        /\ v.step = s /\ v.since = 1
    BY <2>2, <2>4, <2>v DEF OpState
  <2>6. Now(c, to) /\ op'[c].day = 1 /\ Fresh(c)
    BY <2>2, <2>3, <2>5, SeedlessNow DEF AccountInv, Fresh
  <2>7. /\ UNCHANGED <<account, held, scanLock, pendingFlips, history>>
        /\ flipped' \in BOOLEAN /\ op[c].pc = "flips"
    BY <2>0 DEF TryFlip, At, AccountInv, AccountTypeInv, AccountTypeOK
  <2> QED BY <2>2, <2>6, <2>7, ScanKeeps DEF ScanPcs, SyncComes
<1> QED BY <1>1, <1>2

\* The gate lets no flip pass once the day's limit is reached.
LEMMA GateCountsFlips ==
  ASSUME NEW r \in RiskRow, NEW n, GateAllows(Snapshot(r), n, TRUE),
         Effective(MaxFlipsPerDay) > 0
  PROVE  r.flips < Effective(MaxFlipsPerDay)
<1> DEFINE s == Snapshot(r)
           g == GateView(s)
<1>1. s \in RiskRow /\ s.flips = r.flips
  BY SnapshotType DEF Snapshot, RiskRow
<1>0. GateAllows(s, n, TRUE)
  OBVIOUS
<1> HIDE DEF s
<1>2. g.flips = s.flips
  BY <1>1 DEF GateView, RiskRow
<1>3. ~FlipsBlocked(g)
  BY <1>0 DEF GateAllows
<1> HIDE DEF g
<1>4. ~Reached(g.flips, Effective(MaxFlipsPerDay))
  BY <1>3 DEF FlipsBlocked
<1>5. r.flips \in Nat /\ Effective(MaxFlipsPerDay) \in Nat
  BY LimitsAssumption DEF RiskRow, Effective
<1> QED BY <1>1, <1>2, <1>4, <1>5 DEF Reached

\* The row the gate saw may be yesterday's: then today's has counted no flip yet.
LEMMA GatedFlip ==
  ASSUME AccountInv, NEW c \in Callers, op[c].pc \in {"gate", "flipGate"}, scanLock = c,
         Ensured(c), NEW d, d \in Selected(c), row[d] # None,
         GateAllows(Snapshot(row[d]), held, TRUE),
         Effective(MaxFlipsPerDay) > 0, row[today] # None
  PROVE  row[today].flips < Effective(MaxFlipsPerDay)
<1>1. /\ d \in Days /\ d <= today
      /\ d # today => op[c].step = "select" /\ op[c].since <= d
  BY SelectedDay DEF Ensuring
<1>2. CASE d = today
  BY <1>1, <1>2, GateCountsFlips DEF AccountInv, AccountTypeInv, AccountTypeOK
<1>3. CASE d # today
  <2>1. today \in Days /\ op[c].since \in Days
    BY DEF AccountInv, AccountTypeInv, AccountTypeOK, OpState
  <2>2. op[c].since < today
    BY <1>1, <1>3, <2>1, OneDay
  <2>3. row[today].flips = 0
    BY <1>1, <1>3, <2>1, <2>2 DEF AccountInv, CallerOK, FlipOK, LaterDays
  <2>4. Effective(MaxFlipsPerDay) \in Nat
    BY LimitsAssumption DEF Effective
  <2> QED BY <2>3, <2>4
<1> QED BY <1>2, <1>3

LEMMA GateFlipKeeps ==
  ASSUME AccountInv, NEW c \in Callers, GateFlip(c) PROVE AccountInv'
<1>0. /\ op[c].pc = "flipGate" /\ Ensured(c) /\ scanLock = c /\ flipped \in BOOLEAN
      /\ UNCHANGED <<account, held, scanLock, pendingFlips, history>>
  BY DEF GateFlip, At, Ensuring, ScanPcs, AccountInv, AccountTypeInv, AccountTypeOK,
     CallerOK, LockOK
<1>1. CASE Ensure(c, "gate") /\ UNCHANGED flipped
  <2>1. Now(c, "gate") /\ op'[c].day = 1 /\ Fresh(c)
    BY <1>1, EnsureNow DEF AccountInv, Pcs
  <2> QED BY <1>0, <1>1, <2>1, ScanKeeps DEF ScanPcs, SyncComes
<1>2. CASE NextFlip(c) /\ UNCHANGED flipped
  <2>1. Now(c, "flips") /\ op'[c].day = 1 /\ Fresh(c)
    BY <1>2, NextFlipNow DEF AccountInv
  <2> QED BY <1>0, <1>2, <2>1, ScanKeeps DEF ScanPcs, SyncComes
<1>3. ASSUME NEW d \in Selected(c), row[d] # None, FlipAllowed(row[d]),
             Goto(c, "recording"), flipped' = TRUE
      PROVE  AccountInv'
  <2>1. /\ Now(c, "recording") /\ op'[c].day = today /\ Fresh(c)
        /\ op'[c].step = "done"
    BY <1>3, GotoNow DEF AccountInv, Pcs
  <2>2. Quiet(c)
    BY <1>0, <1>3, <2>1 DEF Now, Quiet, Others, LockFrame, AccountInv, AccountTypeInv,
       AccountTypeOK
  <2>3. CallerOK(c)'
    <3>1. /\ today \in Nat /\ 1 <= today /\ op[c].since <= today
          /\ UNCHANGED <<account, scanLock>>
      BY <1>0, OneDay DEF AccountInv, AccountTypeInv, AccountTypeOK, CallerOK, SinceOK
    <3>2. DateOK(c)' /\ SinceOK(c)' /\ SeedOK(c)' /\ HaltOK(c)' /\ LockOK(c)'
      BY <1>0, <2>1, <3>1
      DEF DateOK, DayPcs, SinceOK, SeedOK, HaltOK, LockOK, ScanPcs, Now, Fresh, account
    <3>3. FlipOK(c)'
      <4>1. SUFFICES ASSUME Effective(MaxFlipsPerDay) > 0, row[today] # None
                     PROVE  row[today].flips < Effective(MaxFlipsPerDay)
        BY <2>1, <3>1 DEF FlipOK, LaterDays, FlipUnderWay, Now, account
      <4> QED BY <1>0, <1>3, <4>1, GatedFlip DEF FlipAllowed
    <3> QED BY <3>2, <3>3 DEF CallerOK
  <2> QED BY <1>0, <2>1, <2>2, <2>3, QuietKeeps
    DEF Now, SyncComes, HaltComes, EmergencyComes
<1> QED BY <1>1, <1>2, <1>3 DEF GateFlip

LEMMA GateEntryKeeps ==
  ASSUME AccountInv, NEW c \in Callers, GateEntry(c) PROVE AccountInv'
<1>0. /\ op[c].pc = "gate" /\ Ensured(c) /\ scanLock = c /\ flipped \in BOOLEAN
      /\ UNCHANGED <<account, held, pendingFlips, flipped, history>>
  BY DEF GateEntry, At, Ensuring, ScanPcs, AccountInv, AccountTypeInv, AccountTypeOK,
     CallerOK, LockOK
<1>1. ASSUME NEW d \in Selected(c), row[d] # None, EntryAllowed(row[d], op[c].flip),
             Goto(c, "reserving"), UNCHANGED scanLock
      PROVE  AccountInv'
  <2>1. /\ Now(c, "reserving") /\ op'[c].day = today /\ Fresh(c)
        /\ op'[c].flip = op[c].flip /\ op'[c].step = "done"
    BY <1>1, GotoNow DEF AccountInv, Pcs
  <2>2. Quiet(c)
    BY <1>0, <1>1, <2>1 DEF Now, Quiet, Others, LockFrame, AccountInv, AccountTypeInv,
       AccountTypeOK
  <2>3. CallerOK(c)'
    <3>1. /\ today \in Nat /\ 1 <= today /\ op[c].since <= today
          /\ UNCHANGED <<account, scanLock>>
      BY <1>0, <1>1, OneDay
      DEF AccountInv, AccountTypeInv, AccountTypeOK, CallerOK, SinceOK
    <3>2. DateOK(c)' /\ SinceOK(c)' /\ SeedOK(c)' /\ HaltOK(c)' /\ LockOK(c)'
      BY <1>0, <2>1, <3>1
      DEF DateOK, DayPcs, SinceOK, SeedOK, HaltOK, LockOK, ScanPcs, Now, Fresh, account
    <3>3. FlipOK(c)'
      <4>1. SUFFICES ASSUME Effective(MaxFlipsPerDay) > 0, row[today] # None, op[c].flip
                     PROVE  row[today].flips < Effective(MaxFlipsPerDay)
        BY <2>1, <3>1 DEF FlipOK, LaterDays, FlipUnderWay, Now, account
      <4>2. op[c].flip = TRUE
        BY <4>1 DEF AccountInv, AccountTypeInv, AccountTypeOK, OpState
      <4>3. GateAllows(Snapshot(row[d]), held, TRUE)
        BY <1>1, <4>2 DEF EntryAllowed
      <4> QED BY <1>0, <1>1, <4>1, <4>3, GatedFlip
    <3> QED BY <3>2, <3>3 DEF CallerOK
  <2> QED BY <1>0, <2>1, <2>2, <2>3, QuietKeeps
    DEF Now, SyncComes, HaltComes, EmergencyComes
<1>2. CASE EndEntry(c)
  BY <1>0, <1>2, EndEntryKeeps
<1> QED BY <1>1, <1>2 DEF GateEntry

LEMMA FillOrderKeeps ==
  ASSUME AccountInv, NEW c \in Callers, FillOrder(c) PROVE AccountInv'
<1>1. PICK bought \in BOOLEAN :
        /\ held' = IF bought THEN held + 1 ELSE held
        /\ CallSync(c, held', bought)
  BY DEF FillOrder
<1>2. PICK n \in Nat : n = held'
  BY <1>1 DEF AccountInv, AccountTypeInv, AccountTypeOK
<1>3. /\ Now(c, "syncing") /\ op'[c].day = today /\ Fresh(c)
      /\ op'[c].flip = op[c].flip
  BY <1>1, <1>2, CallSyncNow DEF AccountInv
<1>4. scanLock = c /\ scanLock' = c /\ op[c].pc = "ordering"
  BY DEF FillOrder, At, AccountInv, CallerOK, LockOK, ScanPcs
<1>5. Quiet(c)
  BY <1>2, <1>3 DEF FillOrder, Now, Quiet, Others, LockFrame, AccountInv,
     AccountTypeInv, AccountTypeOK
<1>6. Plain(c)
  BY <1>3, <1>4 DEF Plain, LockOK, FlipUnderWay, ScanPcs, Now
<1> QED BY <1>3, <1>4, <1>5, <1>6, QuietPlain DEF SyncComes, Now

LEMMA FinishEntryKeeps ==
  ASSUME AccountInv, NEW c \in Callers, FinishEntry(c) PROVE AccountInv'
<1>0. /\ op[c].pc = "entered" /\ scanLock = c
      /\ UNCHANGED <<account, held, pendingFlips, history>>
  BY DEF FinishEntry, At, AccountInv, CallerOK, LockOK, ScanPcs
<1>1. CASE op[c].flip /\ Goto(c, "recording") /\ flipped' = TRUE /\ UNCHANGED scanLock
  <2>1. /\ Now(c, "recording") /\ op'[c].day = today /\ Fresh(c)
        /\ op'[c].step = "done"
    BY <1>1, GotoNow DEF AccountInv, Pcs
  <2>2. Quiet(c)
    BY <1>0, <1>1, <2>1 DEF Now, Quiet, Others, LockFrame, AccountInv, AccountTypeInv,
       AccountTypeOK
  <2>3. CallerOK(c)'
    <3>1. /\ today \in Nat /\ 1 <= today /\ op[c].since <= today
          /\ UNCHANGED <<account, scanLock>>
      BY <1>0, <1>1, OneDay
      DEF AccountInv, AccountTypeInv, AccountTypeOK, CallerOK, SinceOK
    <3>2. DateOK(c)' /\ SinceOK(c)' /\ SeedOK(c)' /\ HaltOK(c)' /\ LockOK(c)'
      BY <1>0, <2>1, <3>1
      DEF DateOK, DayPcs, SinceOK, SeedOK, HaltOK, LockOK, ScanPcs, Now, Fresh, account
    <3>3. FlipOK(c)'
      BY <1>0, <1>1, <2>1, <3>1
      DEF FlipOK, LaterDays, FlipUnderWay, Now, account, AccountInv, CallerOK
    <3> QED BY <3>2, <3>3 DEF CallerOK
  <2> QED BY <1>0, <2>1, <2>2, <2>3, QuietKeeps
    DEF Now, SyncComes, HaltComes, EmergencyComes
<1>2. CASE EndEntry(c) /\ UNCHANGED flipped
  BY <1>0, <1>2, EndEntryKeeps
<1> QED BY <1>1, <1>2 DEF FinishEntry

\* After record_flip, still within the lock.
LEMMA FlipCountedKeeps ==
  ASSUME AccountInv, NEW c \in Callers, CheckFlipLimits(c) \/ FinishFlip(c)
  PROVE  AccountInv'
<1>0. /\ op[c].pc \in {"flipLimits", "flipHalted", "flipDone"}
      /\ UNCHANGED <<account, held, scanLock, pendingFlips, history>>
      /\ flipped' \in BOOLEAN
  BY DEF CheckFlipLimits, FinishFlip, At, memory, AccountInv, AccountTypeInv, AccountTypeOK
<1>1. /\ Goto(c, "flipHalt") \/ NextFlip(c) \/ Ensure(c, "flipDone")
  BY DEF CheckFlipLimits, FinishFlip
<1>2. PICK pc \in {"flipHalt", "flips", "flipDone"} :
        Now(c, pc) /\ Fresh(c) /\ op'[c].day \in {1, today}
  BY <1>1, GotoNow, NextFlipNow, EnsureNow DEF AccountInv, Pcs
<1> QED BY <1>0, <1>2, ScanKeeps DEF ScanPcs, SyncComes

\* A lost result reaches the snapshot, whose zero columns are replaced.
LEMMA LossInSnapshot ==
  ASSUME NEW r \in RiskRow, LossLimitReached(r), ~BreakersDisabled
  PROVE  LossLimitReached(Snapshot(r)) /\ PostTradeHalts(Snapshot(r))
<1> DEFINE s == Snapshot(r)
<1>1. s.realized = r.realized /\ (r.starting > 0 => s.starting = r.starting)
  BY DEF Snapshot, RiskRow
<1> HIDE DEF s
<1>2. LossLimitReached(s)
  BY <1>1 DEF LossLimitReached
<1> QED BY <1>2 DEF s, PostTradeHalts, DayLimitReached

LEMMA OnlyLossHalts ==
  ASSUME NEW r, OnlyLossLimit, PostTradeHalts(r) PROVE LossLimitReached(r)
BY DEF OnlyLossLimit, PostTradeHalts, DayLimitReached, Reached, Effective

LEMMA LossLimitBoolean ==
  ASSUME NEW r PROVE LossLimitReached(r) \in BOOLEAN
<1>1. CASE Effective(DailyLossAmount) > 0
  BY <1>1 DEF LossLimitReached
<1>2. CASE ~(Effective(DailyLossAmount) > 0)
  BY <1>2 DEF LossLimitReached
<1> QED BY <1>1, <1>2

\* c moves without the lock, and keeps what others wait for.
LEMMA AsideKeeps ==
  ASSUME AccountInv, NEW c \in Callers, UNCHANGED <<account, history, scanLock>>,
         held' \in Nat, pendingFlips' \in Nat, flipped' \in BOOLEAN,
         NEW pc \in Pcs, pc \notin ScanPcs \cup {"halting", "releasing"},
         Now(c, pc), Fresh(c), op'[c].day \in {1, op[c].day, today},
         pc \in DayPcs => op'[c].day = today,
         scanLock # c, op[c].pc # "releasing",
         LossStands => ~HaltComes(c),
         LossStands /\ EmergencyComes(c) => EmergencyComes(c)',
         ~disturbed /\ SyncComes(c) => SyncComes(c)'
  PROVE  AccountInv'
<1>1. Quiet(c)
  BY DEF Now, Quiet, Others, LockFrame
<1>2. Plain(c)
  BY DEF Plain, LockOK, FlipUnderWay, DayPcs, ScanPcs, Now
<1>3. today \in Days /\ Rewrites(today) /\ SameFlips(today)
  BY QuietRow DEF AccountInv, AccountTypeInv
<1>4. CallerOK(c)'
  BY <1>2, <1>3, PlainKept DEF account, history
<1> QED BY <1>1, <1>4, QuietKeeps DEF Now

LEMMA PostTradeCheckKeeps ==
  ASSUME AccountInv, NEW c \in Callers, PostTradeCheck(c) PROVE AccountInv'
<1>0. /\ op[c].pc = "postTrade" /\ Ensured(c) /\ UNCHANGED <<account, memory, history>>
      /\ scanLock # c /\ held \in Nat /\ pendingFlips \in Nat /\ flipped \in BOOLEAN
  BY DEF PostTradeCheck, At, Ensuring, ScanPcs, AccountInv, AccountTypeInv, AccountTypeOK,
     CallerOK, LockOK
<1>1. PICK d \in Selected(c) :
        /\ row[d] # None
        /\ IF PostTradeHalts(Snapshot(row[d]))
           THEN op' = [op EXCEPT ![c] = [Moved(c, "halting", today) EXCEPT
                                           !.on = LossLimitReached(Snapshot(row[d]))]]
           ELSE CallSync(c, held, FALSE)
  BY DEF PostTradeCheck
<1>2. d \in Days /\ row[d] \in RiskRow /\ (~disturbed => d = today)
  BY <1>0, <1>1, SelectedDay
  DEF Ensuring, MoneyPcs, AccountInv, AccountTypeInv, AccountTypeOK
<1>3. LossStands => PostTradeHalts(Snapshot(row[d]))
  BY <1>2, LossInSnapshot DEF LossStands
<1>4. CASE PostTradeHalts(Snapshot(row[d]))
  <2>1. PICK b \in BOOLEAN : b = LossLimitReached(Snapshot(row[d]))
    BY LossLimitBoolean
  <2>2. /\ Now(c, "halting") /\ op'[c].day = today /\ Fresh(c) /\ op'[c].on = b
    <3>1. "halting" \in Pcs /\ today \in Days
      BY DEF Pcs, AccountInv, AccountTypeInv, AccountTypeOK
    <3>2. op' = [op EXCEPT ![c] = [Moved(c, "halting", today) EXCEPT !.on = b]]
      BY <1>1, <1>4, <2>1
    <3> QED BY <3>1, <3>2, OnNow DEF AccountInv
  <2>3. OnlyLossLimit => b
    BY <1>4, <2>1, OnlyLossHalts
  <2>4. Quiet(c)
    BY <1>0, <2>2 DEF Now, Quiet, Others, LockFrame, memory
  <2>5. CallerOK(c)'
    <3>1. /\ today \in Nat /\ 1 <= today /\ op[c].since <= today
          /\ UNCHANGED <<account, scanLock>>
      BY <1>0, OneDay DEF AccountInv, AccountTypeInv, AccountTypeOK, CallerOK, SinceOK,
         memory
    <3>2. DateOK(c)' /\ SinceOK(c)' /\ SeedOK(c)' /\ HaltOK(c)' /\ LockOK(c)'
      BY <1>0, <2>2, <2>3, <3>1
      DEF DateOK, SinceOK, SeedOK, HaltOK, LockOK, ScanPcs, Now, Fresh, account
    <3>3. FlipOK(c)'
      BY <2>2 DEF FlipOK, LaterDays, FlipUnderWay, Now
    <3> QED BY <3>2, <3>3 DEF CallerOK
  <2> QED BY <1>0, <2>2, <2>4, <2>5, QuietKeeps
    DEF Now, SyncComes, HaltComes, EmergencyComes
<1>5. CASE ~PostTradeHalts(Snapshot(row[d]))
  <2>1. PICK n \in Nat : n = held
    BY <1>0
  <2>2. Now(c, "syncing") /\ op'[c].day = today /\ Fresh(c)
    BY <1>1, <1>5, <2>1, CallSyncNow DEF AccountInv
  <2>3. "syncing" \in Pcs /\ "syncing" \notin ScanPcs \cup {"halting", "releasing"}
    BY DEF Pcs, ScanPcs
  <2> QED BY <1>0, <1>3, <1>5, <2>2, <2>3, AsideKeeps DEF SyncComes, Now, memory
<1> QED BY <1>4, <1>5

LEMMA CallEmergencyHaltKeeps ==
  ASSUME AccountInv, NEW c \in Callers, CallEmergencyHalt(c) PROVE AccountInv'
<1>1. /\ op[c].pc = "emergency" /\ UNCHANGED <<account, memory, history>>
      /\ scanLock # c /\ held \in Nat /\ pendingFlips \in Nat /\ flipped \in BOOLEAN
  BY DEF CallEmergencyHalt, At, ScanPcs, AccountInv, AccountTypeInv, AccountTypeOK,
     CallerOK, LockOK
<1>2. Now(c, "flatten") /\ op'[c].day = today /\ Fresh(c)
  BY GotoNow DEF CallEmergencyHalt, AccountInv, Pcs
<1>3. "flatten" \in Pcs /\ "flatten" \notin ScanPcs \cup {"halting", "releasing"}
  BY DEF Pcs, ScanPcs
<1> QED BY <1>1, <1>2, <1>3, AsideKeeps
  DEF SyncComes, HaltComes, EmergencyComes, Now, memory

LEMMA SyncAfterCloseKeeps ==
  ASSUME AccountInv, NEW c \in Callers, SyncAfterClose(c) PROVE AccountInv'
<1>1. /\ op[c].pc = "syncCall" /\ UNCHANGED <<account, memory, history>>
      /\ scanLock # c /\ held \in Nat /\ pendingFlips \in Nat /\ flipped \in BOOLEAN
      /\ CallSync(c, held, FALSE)
  BY DEF SyncAfterClose, At, ScanPcs, AccountInv, AccountTypeInv, AccountTypeOK,
     CallerOK, LockOK
<1>2. PICK n \in Nat : n = held
  BY <1>1
<1>3. Now(c, "syncing") /\ op'[c].day = today /\ Fresh(c)
  BY <1>1, <1>2, CallSyncNow DEF AccountInv
<1>4. "syncing" \in Pcs /\ "syncing" \notin ScanPcs \cup {"halting", "releasing"}
  BY DEF Pcs, ScanPcs
<1> QED BY <1>1, <1>3, <1>4, AsideKeeps
  DEF SyncComes, HaltComes, EmergencyComes, Now, memory

LEMMA ReturnsKeep ==
  ASSUME AccountInv, NEW c \in Callers, FinishClose(c) \/ FinishCall(c) \/ ClearBook(c)
  PROVE  AccountInv'
<1>1. /\ Return(c) /\ UNCHANGED <<account, scanLock, history>>
      /\ op[c].pc \in {"exited", "returning", "clearBook"}
      /\ held' \in Nat /\ pendingFlips' \in Nat /\ flipped' \in BOOLEAN
  BY DEF FinishClose, FinishCall, ClearBook, At, memory, AccountInv, AccountTypeInv,
     AccountTypeOK
<1> QED BY <1>1, ReturnKeeps DEF ScanPcs, SyncComes

LEMMA SetAutoTradeKeeps ==
  ASSUME AccountInv, NEW c \in Callers, NEW on \in BOOLEAN, SetAutoTrade(c, on)
  PROVE  AccountInv'
<1>1. /\ op[c].pc = "idle" /\ UNCHANGED <<account, memory, history>> /\ scanLock # c
      /\ held \in Nat /\ pendingFlips \in Nat /\ flipped \in BOOLEAN /\ today \in Days
  BY DEF SetAutoTrade, At, ScanPcs, AccountInv, AccountTypeInv, AccountTypeOK,
     CallerOK, LockOK
<1>2. Now(c, "killRead") /\ op'[c].day = today /\ Fresh(c)
  BY <1>1, AskedNow DEF SetAutoTrade, AccountInv, Pcs
<1>3. "killRead" \in Pcs /\ "killRead" \notin ScanPcs \cup {"halting", "releasing"}
  BY DEF Pcs, ScanPcs
<1> QED BY <1>1, <1>2, <1>3, AsideKeeps
  DEF SyncComes, HaltComes, EmergencyComes, memory

LEMMA PressKillSwitchKeeps ==
  ASSUME AccountInv, NEW c \in Callers, NEW on \in BOOLEAN, PressKillSwitch(c, on)
  PROVE  AccountInv'
<1>1. /\ op[c].pc = "idle" /\ UNCHANGED <<account, memory, history>> /\ scanLock # c
      /\ held \in Nat /\ pendingFlips \in Nat /\ flipped \in BOOLEAN
  BY DEF PressKillSwitch, At, ScanPcs, AccountInv, AccountTypeInv, AccountTypeOK,
     CallerOK, LockOK
<1>2. Now(c, "killSwitch") /\ op'[c].day = 1 /\ Fresh(c)
  <2>1. "killSwitch" \in Pcs /\ 1 \in Days
    BY OneDay DEF Pcs
  <2>2. op' = [op EXCEPT ![c] = [Moved(c, "killSwitch", 1) EXCEPT
                                   !.step = "read", !.on = on]]
    BY DEF PressKillSwitch
  <2> QED BY <2>1, <2>2, AskedNow DEF AccountInv
<1>3. "killSwitch" \in Pcs /\ "killSwitch" \notin ScanPcs \cup {"halting", "releasing"}
  BY DEF Pcs, ScanPcs
<1> QED BY <1>1, <1>2, <1>3, AsideKeeps
  DEF SyncComes, HaltComes, EmergencyComes, memory, DayPcs

LEMMA CallKillSwitchKeeps ==
  ASSUME AccountInv, NEW c \in Callers, CallKillSwitch(c) PROVE AccountInv'
<1>1. /\ op[c].pc = "killSwitch" /\ UNCHANGED <<account, memory, history>> /\ scanLock # c
      /\ held \in Nat /\ pendingFlips \in Nat /\ flipped \in BOOLEAN /\ today \in Days
  BY DEF CallKillSwitch, At, ScanPcs, AccountInv, AccountTypeInv, AccountTypeOK,
     CallerOK, LockOK
<1>2. Now(c, "killWrite") /\ op'[c].day = today /\ Fresh(c)
  <2>1. PICK b \in BOOLEAN : b = op[c].on
    BY DEF AccountInv, AccountTypeInv, AccountTypeOK, OpState
  <2>2. op' = [op EXCEPT ![c] = [Moved(c, "killWrite", today) EXCEPT !.on = b]]
    BY <2>1 DEF CallKillSwitch
  <2> QED BY <1>1, <2>2, OnNow DEF AccountInv, Pcs
<1>3. "killWrite" \in Pcs /\ "killWrite" \notin ScanPcs \cup {"halting", "releasing"}
  BY DEF Pcs, ScanPcs
<1> QED BY <1>1, <1>2, <1>3, AsideKeeps
  DEF SyncComes, HaltComes, EmergencyComes, memory

LEMMA AskSummaryKeeps ==
  ASSUME AccountInv, NEW c \in Callers, AskSummary(c) PROVE AccountInv'
<1>1. /\ op[c].pc = "idle" /\ UNCHANGED <<account, memory, history>> /\ scanLock # c
      /\ held \in Nat /\ pendingFlips \in Nat /\ flipped \in BOOLEAN
  BY DEF AskSummary, At, ScanPcs, AccountInv, AccountTypeInv, AccountTypeOK,
     CallerOK, LockOK
<1>2. Now(c, "summary") /\ op'[c].day = 1 /\ Fresh(c)
  BY EnsureNow DEF AskSummary, AccountInv, Pcs
<1>3. "summary" \in Pcs /\ "summary" \notin ScanPcs \cup {"halting", "releasing"}
  BY DEF Pcs, ScanPcs
<1> QED BY <1>1, <1>2, <1>3, AsideKeeps
  DEF SyncComes, HaltComes, EmergencyComes, memory, DayPcs

LEMMA CompareSummaryKeeps ==
  ASSUME AccountInv, NEW c \in Callers, CompareSummary(c) PROVE AccountInv'
<1>1. /\ op[c].pc = "summary" /\ UNCHANGED <<account, memory, history>> /\ scanLock # c
      /\ held \in Nat /\ pendingFlips \in Nat /\ flipped \in BOOLEAN
  BY DEF CompareSummary, At, ScanPcs, AccountInv, AccountTypeInv, AccountTypeOK,
     CallerOK, LockOK
<1>2. CASE CallSync(c, held, TRUE)
  <2>1. PICK n \in Nat : n = held
    BY <1>1
  <2>2. Now(c, "syncing") /\ op'[c].day = today /\ Fresh(c)
    BY <1>2, <2>1, CallSyncNow DEF AccountInv
  <2>3. "syncing" \in Pcs /\ "syncing" \notin ScanPcs \cup {"halting", "releasing"}
    BY DEF Pcs, ScanPcs
  <2> QED BY <1>1, <2>2, <2>3, AsideKeeps
    DEF SyncComes, HaltComes, EmergencyComes, memory
<1>3. CASE Return(c)
  BY <1>1, <1>3, ReturnKeeps DEF memory, ScanPcs, SyncComes
<1> QED BY <1>2, <1>3 DEF CompareSummary

LEMMA StartEngineKeeps ==
  ASSUME AccountInv, NEW c \in Callers, StartEngine(c) PROVE AccountInv'
<1>1. /\ op[c].pc = "idle" /\ UNCHANGED <<account, history, held, scanLock>>
      /\ scanLock # c /\ held \in Nat /\ pendingFlips' \in Nat /\ flipped' \in BOOLEAN
  BY DEF StartEngine, Busy, ScanPcs, AccountInv, AccountTypeInv, AccountTypeOK,
     CallerOK, LockOK
<1>2. Now(c, "clearing") /\ op'[c].day = 1 /\ Fresh(c)
  BY EnsureNow DEF StartEngine, AccountInv, Pcs
<1>3. "clearing" \in Pcs /\ "clearing" \notin ScanPcs \cup {"halting", "releasing"}
  BY DEF Pcs, ScanPcs
<1> QED BY <1>1, <1>2, <1>3, AsideKeeps
  DEF SyncComes, HaltComes, EmergencyComes, DayPcs

LEMMA CallClearPaperHaltKeeps ==
  ASSUME AccountInv, NEW c \in Callers, CallClearPaperHalt(c) PROVE AccountInv'
<1>1. /\ op[c].pc = "clearing" /\ UNCHANGED <<account, memory, history>> /\ scanLock # c
      /\ held \in Nat /\ pendingFlips \in Nat /\ flipped \in BOOLEAN
  BY DEF CallClearPaperHalt, At, ScanPcs, AccountInv, AccountTypeInv, AccountTypeOK,
     CallerOK, LockOK
<1>2. Now(c, "clearWrite") /\ op'[c].day = today /\ Fresh(c)
  BY GotoNow DEF CallClearPaperHalt, AccountInv, Pcs
<1>3. "clearWrite" \in Pcs /\ "clearWrite" \notin ScanPcs \cup {"halting", "releasing"}
  BY DEF Pcs, ScanPcs
<1> QED BY <1>1, <1>2, <1>3, AsideKeeps
  DEF SyncComes, HaltComes, EmergencyComes, memory

LEMMA ReadKillKeeps ==
  ASSUME AccountInv, NEW c \in Callers, ReadKill(c) PROVE AccountInv'
<1>1. /\ op[c].pc = "killRead" /\ UNCHANGED <<account, memory, history>> /\ scanLock # c
      /\ held \in Nat /\ pendingFlips \in Nat /\ flipped \in BOOLEAN
  BY DEF ReadKill, At, ScanPcs, AccountInv, AccountTypeInv, AccountTypeOK,
     CallerOK, LockOK
<1> DEFINE b == op[c].on
           d == op[c].day
           k == row[d] # None /\ row[d].kill
           v == [Moved(c, "autoTrade", d) EXCEPT !.on = b, !.kill = k]
<1>2. b \in BOOLEAN /\ d \in Days /\ k \in BOOLEAN
  BY DEF AccountInv, AccountTypeInv, AccountTypeOK, OpState, RiskRow
<1>3. op' = [op EXCEPT ![c] = v]
  BY DEF ReadKill
<1> HIDE DEF b, k, d
<1>4. PICK m : m = Moved(c, "autoTrade", d)
  OBVIOUS
<1>5. /\ m \in OpState /\ m.pc = "autoTrade" /\ m.day = d /\ m.step = "done"
      /\ m.seed = 0 /\ m.since = 1
  BY <1>2, <1>4, MovedType DEF AccountInv, Pcs
<1>6. v = [m EXCEPT !.on = b, !.kill = k]
  BY <1>4
<1> HIDE DEF v
<1>7. v \in OpState
  BY <1>2, <1>5, <1>6 DEF OpState
<1>8. v.pc = "autoTrade" /\ v.day = d /\ v.step = "done" /\ v.seed = 0 /\ v.since = 1
  BY <1>5, <1>6 DEF OpState
<1>n. Now(c, v.pc) /\ op'[c] = v
  BY <1>3, <1>7, <1>8, SeedlessNow DEF AccountInv
<1>9. Now(c, "autoTrade") /\ op'[c] = v
  BY <1>8, <1>n
<1>10. Fresh(c) /\ op'[c].day = op[c].day
  BY <1>8, <1>9 DEF Fresh, d
<1>11. "autoTrade" \in Pcs /\ "autoTrade" \notin ScanPcs \cup {"halting", "releasing"}
  BY DEF Pcs, ScanPcs
<1> QED BY <1>1, <1>9, <1>10, <1>11, AsideKeeps
  DEF SyncComes, HaltComes, EmergencyComes, memory, DayPcs

LEMMA ReadPreviousDayKeeps ==
  ASSUME AccountInv, NEW c \in Callers, ReadPreviousDay(c) PROVE AccountInv'
<1> DEFINE n == PreviousDayEquity
           to == "insert"
           v == [op[c] EXCEPT !.step = to, !.seed = n]
<1>1. op[c] \in OpState /\ n \in Nat
  BY PreviousDayEquityNat DEF AccountInv, AccountTypeInv, AccountTypeOK
<1>2. op' = [op EXCEPT ![c] = v] /\ UNCHANGED <<account, memory, history>>
  BY DEF ReadPreviousDay
<1>3. PreviousDayEquity' = n
  BY <1>2, SameRows
<1> HIDE DEF n
<1>w. to \in {"done", "read", "insert", "select"} /\ to = "insert" /\ n \in Int
  BY <1>1
<1> HIDE DEF to
<1>t. v \in OpState
  BY <1>1, <1>w DEF OpState
<1>4. v.seed = n /\ v.step = "insert" /\ v.pc = op[c].pc /\ v.day = op[c].day
  BY <1>1, <1>w DEF OpState
<1>5. /\ v.flip = op[c].flip /\ v.on = op[c].on /\ v.since = op[c].since
      /\ v.pnl = op[c].pnl
  BY <1>1 DEF OpState
<1> HIDE DEF v
<1>6. Now(c, op[c].pc) /\ op'[c] = v
  BY <1>1, <1>2, <1>t, <1>4, LocalsNow DEF AccountInv
<1>7. Quiet(c)
  BY <1>2, <1>6 DEF Now, Quiet, Others, LockFrame, memory, AccountInv,
     AccountTypeInv, AccountTypeOK
<1>8. CallerOK(c)'
  <2>1. CallerOK(c)
    BY DEF AccountInv
  <2>2. SeedOK(c)'
    BY <1>3, <1>4, <1>6 DEF SeedOK
  <2>3. DateOK(c)' /\ SinceOK(c)' /\ HaltOK(c)' /\ LockOK(c)'
    BY <1>2, <1>4, <1>5, <1>6, <2>1
    DEF CallerOK, DateOK, SinceOK, HaltOK, LockOK, account, memory, history
  <2>4. FlipOK(c)'
    BY <1>2, <1>4, <1>5, <1>6, <2>1
    DEF CallerOK, FlipOK, LaterDays, FlipUnderWay, account, memory
  <2> QED BY <2>2, <2>3, <2>4 DEF CallerOK
<1> QED BY <1>4, <1>5, <1>6, <1>7, <1>8, QuietKeeps
  DEF SyncComes, HaltComes, EmergencyComes

\* An ensure_daily_state that raises; not between a reserve_capital or
\* release_capital and its reconciliation, unless midnight fell there.
LEMMA AssertionFailsKeeps ==
  ASSUME AccountInv, NEW c \in Callers, AssertionFails(c) PROVE AccountInv'
<1>1. /\ UNCHANGED <<account, held, pendingFlips, flipped, history>>
      /\ held \in Nat /\ pendingFlips \in Nat /\ flipped \in BOOLEAN
  BY DEF AssertionFails, AccountInv, AccountTypeInv, AccountTypeOK
<1>2. CASE op[c].pc \in {"flipGate", "flipLimits", "flipHalted", "flipDone"}
           /\ NextFlip(c) /\ UNCHANGED scanLock
  <2>1. Now(c, "flips") /\ op'[c].day = 1 /\ Fresh(c)
    BY <1>2, NextFlipNow DEF AccountInv
  <2> QED BY <1>1, <1>2, <2>1, ScanKeeps DEF ScanPcs, SyncComes
<1>3. CASE op[c].pc \in {"gate", "entered"} /\ EndEntry(c)
  BY <1>1, <1>3, EndEntryKeeps
<1>4. CASE op[c].pc = "entered" /\ CallSync(c, held, FALSE) /\ UNCHANGED scanLock
  <2>1. PICK n \in Nat : n = held
    BY <1>1
  <2>2. /\ Now(c, "syncing") /\ op'[c].day = today /\ Fresh(c)
        /\ op'[c].flip = op[c].flip
    BY <1>4, <2>1, CallSyncNow DEF AccountInv
  <2>3. scanLock = c
    BY <1>4 DEF AccountInv, CallerOK, LockOK, ScanPcs
  <2>4. Quiet(c)
    BY <1>1, <1>4, <2>2 DEF Now, Quiet, Others, LockFrame
  <2>5. Plain(c)
    BY <1>4, <2>2, <2>3 DEF Plain, LockOK, FlipUnderWay, ScanPcs, Now
  <2> QED BY <1>4, <2>2, <2>4, <2>5, QuietPlain DEF SyncComes, Now
<1>5. CASE op[c].pc \in {"postTrade", "emergency", "syncCall", "exited", "killRead",
                         "summary"}
           /\ Return(c) /\ UNCHANGED scanLock
  <2>1. disturbed \/ op[c].pc \notin MoneyPcs
    <3>1. PICK d \in Selected(c) : op[c].step = "select" /\ row[d] = None
      BY DEF AssertionFails
    <3>2. op[c].pc \in Ensuring /\ Ensured(c)
      BY <1>5, <3>1 DEF Ensuring, Ensured
    <3> QED BY <3>1, <3>2, SelectedDay
  <2>2. ~disturbed => ~SyncComes(c)
    BY <1>5, <2>1 DEF MoneyPcs, SyncComes
  <2> QED BY <1>1, <1>5, <2>2, ReturnKeeps DEF ScanPcs
<1> QED BY <1>2, <1>3, <1>4, <1>5 DEF AssertionFails

\* A queued flip changes nothing the invariant speaks of.
LEMMA StillKeeps ==
  ASSUME AccountInv, UNCHANGED <<account, op, scanLock, held, history>>,
         pendingFlips' \in Nat, flipped' \in BOOLEAN
  PROVE  AccountInv'
<1>1. AccountTypeInv'
  BY DEF AccountInv, AccountTypeInv, AccountTypeOK, account, history
<1>2. RowsInv' /\ FlipsWithinLimit'
  BY DEF AccountInv, account, history, RowsInv, FlipsWithinLimit
<1>3. PreviousDayEquity' = PreviousDayEquity /\ Solvent' = Solvent
  BY SameRows
<1>4. EmergencyInv'
  BY DEF AccountInv, EmergencyInv, LossStands, HaltComes, EmergencyComes, account, history
<1>5. EquityInv'
  BY <1>3
  DEF AccountInv, EquityInv, Worth, SyncComes, PendingSum, Pending, account, history
<1>6. \A c \in Callers : CallerOK(c)'
  <2>1. ASSUME NEW c \in Callers PROVE CallerOK(c)'
    <3>1. CallerOK(c)
      BY DEF AccountInv
    <3>2. DateOK(c)' /\ SinceOK(c)' /\ SeedOK(c)' /\ HaltOK(c)'
      BY <1>3, <3>1 DEF CallerOK, DateOK, SinceOK, SeedOK, HaltOK, account, history
    <3>3. LockOK(c)' /\ FlipOK(c)'
      BY <3>1 DEF CallerOK, LockOK, FlipOK, LaterDays, FlipUnderWay, account
    <3> QED BY <3>2, <3>3 DEF CallerOK
  <2> QED BY <2>1
<1> QED BY <1>1, <1>2, <1>4, <1>5, <1>6 DEF AccountInv

-----------------------------------------------------------------------------
(***************************************************************************)
(* The steps that write a row.                                             *)
(***************************************************************************)
\* c writes the row of day d: today's, unless something intervened or the money
\* columns stay.
Writes(c, d) ==
  /\ Rewrites(d) /\ (~disturbed => d = today \/ SameMoney(d))
  /\ OpTyped' /\ Others(c)
  /\ UNCHANGED <<today, memory, booked, disturbed>>
  /\ unbooked' \in Int /\ halted' \subseteq Days /\ commanded' \subseteq Days

LEMMA WriteTypes ==
  ASSUME AccountInv, NEW c \in Callers, NEW d \in Days, Writes(c, d)
  PROVE  AccountTypeInv'
BY DEF AccountInv, AccountTypeInv, AccountTypeOK, Writes, Rewrites, OpTyped, memory

LEMMA WriteCallers ==
  ASSUME AccountInv, NEW c \in Callers, NEW d \in Days, Writes(c, d),
         SameFlips(d) \/ scanLock = c, CallerOK(c)'
  PROVE  \A x \in Callers : CallerOK(x)'
<1>1. ASSUME NEW x \in Callers, x # c PROVE CallerOK(x)'
  <2>1. LockFrame(c)
    BY DEF LockFrame, Writes, memory
  <2> QED BY <1>1, <2>1, OthersKept DEF AccountInv, AccountTypeInv, Writes
<1> QED BY <1>1

LEMMA WritePlain ==
  ASSUME AccountInv, NEW c \in Callers, NEW d \in Days, Writes(c, d), Plain(c),
         SameFlips(d) \/ (scanLock = c /\ ~FlipUnderWay(c)')
  PROVE  \A x \in Callers : CallerOK(x)'
<1>1. CallerOK(c)'
  BY PlainKept DEF Writes
<1> QED BY <1>1, WriteCallers

LEMMA WriteRows ==
  ASSUME AccountInv, NEW c \in Callers, NEW d \in Days, Writes(c, d),
         SameState(d), halted' = halted
  PROVE  RowsInv'
BY DEF AccountInv, RowsInv, Writes, Rewrites, SameState, AccountTypeInv, AccountTypeOK

LEMMA WriteFlips ==
  ASSUME AccountInv, NEW d \in Days, Rewrites(d), SameFlips(d)
  PROVE  FlipsWithinLimit'
BY DEF AccountInv, FlipsWithinLimit, Rewrites, SameFlips

\* The loss limit looks at two columns only.
LEMMA LossColumns ==
  ASSUME NEW r, NEW s, r.starting = s.starting, r.realized = s.realized
  PROVE  LossLimitReached(r) <=> LossLimitReached(s)
BY DEF LossLimitReached

LEMMA WriteEmergency ==
  ASSUME AccountInv, NEW c \in Callers, NEW d \in Days, Writes(c, d),
         SameEquity(d), SameState(d), commanded' = commanded,
         op[c].pc \notin {"postTrade", "halting", "emergency", "flatten"}
  PROVE  EmergencyInv'
<1>1. today \in Days /\ today' = today
  BY DEF AccountInv, AccountTypeInv, AccountTypeOK, Writes
<1>2. /\ row'[today] = None <=> row[today] = None
      /\ row[today] # None =>
           /\ row'[today].starting = row[today].starting
           /\ row'[today].realized = row[today].realized
           /\ row'[today].state = row[today].state
  BY <1>1 DEF Writes, Rewrites, SameEquity, SameState
<1>3. LossStands' => LossStands
  <2>1. SUFFICES ASSUME LossStands' PROVE LossStands
    OBVIOUS
  <2>2. row[today] # None /\ LossLimitReached(row'[today])
    BY <1>1, <1>2, <2>1 DEF LossStands
  <2>3. LossLimitReached(row[today])
    BY <1>2, <2>2, LossColumns
  <2> QED BY <1>1, <2>1, <2>2, <2>3 DEF LossStands, Writes
<1>4. \A x \in Callers : (HaltComes(x) => HaltComes(x)')
                      /\ (EmergencyComes(x) => EmergencyComes(x)')
  BY DEF HaltComes, EmergencyComes, Writes, Others
<1>5. SUFFICES ASSUME LossStands'
      PROVE /\ row'[today].state \in HaltStates \/ \E x \in Callers : HaltComes(x)'
            /\ EmergencyFlatten /\ OnlyLossLimit =>
                 \/ row'[today].state = "EMERGENCY_FLATTEN"
                 \/ \E x \in Callers : EmergencyComes(x)'
  BY <1>1 DEF EmergencyInv
<1>6. row[today] # None
  BY <1>3, <1>5 DEF LossStands
<1> QED BY <1>2, <1>3, <1>4, <1>5, <1>6 DEF AccountInv, EmergencyInv

\* The account is as before but for what the caller has in hand.
LEMMA WriteEquity ==
  ASSUME AccountInv, NEW c \in Callers, NEW d \in Days, Writes(c, d),
         SameEquity(d), unbooked' = unbooked,
         op[c].pc # "releasing" /\ op'[c].pc # "releasing",
         \/ SyncComes(c)'
         \/ (~disturbed => d = today) /\ (row[d] # None => Balanced(row'[d]))
         \/ SameMoney(d) /\ ~SyncComes(c)
  PROVE  EquityInv'
<1>1. SUFFICES ASSUME ~disturbed PROVE EquityInv'
  BY DEF EquityInv, Writes
<1>2. (d = today \/ SameMoney(d)) /\ today' = today /\ booked' = booked /\ today \in Days
  BY <1>1 DEF Writes, AccountInv, AccountTypeInv, AccountTypeOK
<1>3. PreviousDayEquity' = PreviousDayEquity /\ Solvent' = Solvent
  BY <1>2, EarlierKept DEF Writes, AccountInv, AccountTypeInv
<1>r. /\ row'[today] = None <=> row[today] = None
      /\ row[today] # None =>
           /\ row'[today].starting = row[today].starting
           /\ row'[today].realized = row[today].realized
  BY <1>2 DEF SameEquity, Writes, Rewrites
<1>4. Worth' = Worth
  BY <1>2, <1>3, <1>r DEF Worth, Equity
<1>5. PendingSum' = PendingSum
  <2>1. /\ PendingSum \in Int /\ PendingSum' \in Int
        /\ PendingSum' = PendingSum - PendingOf(c) + PendingOf(c)'
    BY PendingMoves DEF AccountInv, Writes
  <2>2. PendingOf(c) = 0 /\ PendingOf(c)' = 0
    BY DEF PendingOf
  <2> QED BY <2>1, <2>2
<1>6. row'[today] # None => Balanced(row'[today]) \/ \E x \in Callers : SyncComes(x)'
  <2>1. SUFFICES ASSUME row[today] # None, ~SyncComes(c)'
                 PROVE  Balanced(row'[today]) \/ \E x \in Callers : SyncComes(x)'
    BY <1>r
  <2>2. CASE d = today /\ Balanced(row'[d])
    BY <2>2
  <2>3. CASE SameMoney(d) /\ ~SyncComes(c)
    <3>1. /\ row'[today].starting = row[today].starting
          /\ row'[today].realized = row[today].realized
          /\ row'[today].deployed = row[today].deployed
          /\ row'[today].available = row[today].available
      BY <1>2, <2>1, <2>3 DEF SameMoney, Writes, Rewrites
    <3>2. Balanced(row[today]) => Balanced(row'[today])
      BY <3>1 DEF Balanced, Equity
    <3>3. \A x \in Callers : SyncComes(x) => SyncComes(x)'
      BY <2>3 DEF SyncComes, Writes, Others
    <3> QED BY <1>1, <2>1, <3>2, <3>3 DEF AccountInv, EquityInv
  <2> QED BY <1>1, <2>1, <2>2, <2>3
<1> QED BY <1>1, <1>2, <1>3, <1>4, <1>5, <1>6 DEF AccountInv, EquityInv

\* The four consequences together, for a statement that leaves results and
\* states as they are.
LEMMA WriteKeeps ==
  ASSUME AccountInv, NEW c \in Callers, NEW d \in Days, Writes(c, d), Plain(c),
         SameEquity(d), SameState(d), SameFlips(d),
         UNCHANGED <<unbooked, halted, commanded>>,
         op[c].pc \notin {"releasing", "postTrade", "halting", "emergency", "flatten"},
         op'[c].pc # "releasing",
         \/ SyncComes(c)'
         \/ (~disturbed => d = today) /\ (row[d] # None => Balanced(row'[d]))
         \/ SameMoney(d) /\ ~SyncComes(c)
  PROVE  AccountInv'
<1>1. AccountTypeInv'
  BY WriteTypes
<1>2. \A x \in Callers : CallerOK(x)'
  BY WritePlain
<1>3. RowsInv' /\ FlipsWithinLimit'
  BY WriteRows, WriteFlips DEF Writes
<1>4. EmergencyInv'
  BY WriteEmergency
<1>5. EquityInv'
  BY WriteEquity
<1> QED BY <1>1, <1>2, <1>3, <1>4, <1>5 DEF AccountInv

\* The date a method has in hand.
LEMMA DayInHand ==
  ASSUME AccountInv, NEW c \in Callers
  PROVE  \E d \in Days : /\ d = op[c].day /\ d <= today
                         /\ ~disturbed /\ op[c].pc \in DayPcs => d = today
BY DEF AccountInv, AccountTypeInv, AccountTypeOK, OpState, CallerOK, DateOK

LEMMA MoneySame ==
  ASSUME NEW d \in Days, SameMoney(d) PROVE SameEquity(d)
BY DEF SameMoney, SameEquity

LEMMA ReserveCapitalKeeps ==
  ASSUME AccountInv, NEW c \in Callers, ReserveCapital(c) PROVE AccountInv'
<1>1. op[c].pc = "reserving" /\ op[c].pc \in DayPcs
  BY DEF ReserveCapital, At, DayPcs
<1>2. PICK d \in Days : d = op[c].day /\ d <= today /\ (~disturbed => d = today)
  BY <1>1, DayInHand
<1>3. Now(c, "ordering") /\ op'[c].day = today /\ Fresh(c) /\ op'[c].flip = op[c].flip
  BY GotoNow DEF ReserveCapital, AccountInv, Pcs
<1>4. /\ Rewrites(d) /\ SameEquity(d) /\ SameFlips(d) /\ SameState(d)
  <2>1. row' = Updated(d, Reserve(row[d], 1))
    BY <1>2 DEF ReserveCapital
  <2> QED BY <2>1, ReserveRow DEF AccountInv, AccountTypeInv
<1>5. Writes(c, d) /\ UNCHANGED <<unbooked, halted, commanded>>
  BY <1>2, <1>3, <1>4 DEF ReserveCapital, Writes, Now, Others, history, AccountInv,
     AccountTypeInv, AccountTypeOK
<1>6. Plain(c)
  BY <1>1, <1>3, <1>5
  DEF Plain, LockOK, FlipUnderWay, DayPcs, ScanPcs, Now, Writes, memory,
      AccountInv, CallerOK
<1> QED BY <1>1, <1>3, <1>4, <1>5, <1>6, WriteKeeps DEF Now, SyncComes

\* Where reconcile_margin goes on.
LEMMA SyncMarginNow ==
  ASSUME AccountInv, NEW c \in Callers, SyncMargin(c)
  PROVE  /\ op'[c].day = 1 /\ Fresh(c)
         /\ IF scanLock = c THEN Now(c, "entered") /\ op'[c].flip = op[c].flip
            ELSE \E pc \in {"idle", "returning", "exited"} : Now(c, pc)
<1>1. CASE scanLock = c
  <2> DEFINE n == op[c].total
             b == op[c].on
             s == "read"
             v == [Moved(c, "entered", 1) EXCEPT !.step = s, !.total = n, !.on = b]
  <2>1. n \in Nat /\ b \in BOOLEAN /\ s = "read" /\ s \in {"done", "read", "insert", "select"}
    BY DEF AccountInv, AccountTypeInv, AccountTypeOK, OpState
  <2>2. op' = [op EXCEPT ![c] = v]
    BY <1>1 DEF SyncMargin
  <2> HIDE DEF n, b, s
  <2>3. PICK m : m = Moved(c, "entered", 1)
    OBVIOUS
  <2>4. /\ m \in OpState /\ m.pc = "entered" /\ m.day = 1 /\ m.seed = 0 /\ m.since = 1
        /\ m.flip = op[c].flip
    <3>1. "entered" \in Pcs /\ 1 \in Days
      BY OneDay DEF Pcs
    <3> QED BY <2>3, <3>1, MovedType DEF AccountInv
  <2>5. v = [m EXCEPT !.step = s, !.total = n, !.on = b]
    BY <2>3
  <2> HIDE DEF v
  <2>6. v \in OpState
    BY <2>1, <2>4, <2>5 DEF OpState
  <2>7. /\ v.pc = "entered" /\ v.day = 1 /\ v.seed = 0 /\ v.since = 1
        /\ v.step = "read" /\ v.flip = op[c].flip
    BY <2>1, <2>4, <2>5 DEF OpState
  <2>8. Now(c, v.pc) /\ op'[c] = v
    BY <2>2, <2>6, <2>7, SeedlessNow DEF AccountInv
  <2> QED BY <1>1, <2>7, <2>8 DEF Fresh
<1>2. CASE scanLock # c /\ op[c].on
  BY <1>2, EnsureAndReturnNow DEF SyncMargin, AccountInv
<1>3. CASE scanLock # c /\ ~op[c].on
  <2>1. "exited" \in Pcs
    BY DEF Pcs
  <2> QED BY <1>3, <2>1, EnsureNow DEF SyncMargin, AccountInv
<1> QED BY <1>1, <1>2, <1>3

LEMMA SyncMarginKeeps ==
  ASSUME AccountInv, NEW c \in Callers, SyncMargin(c) PROVE AccountInv'
<1>1. op[c].pc = "syncing" /\ op[c].pc \in DayPcs
  BY DEF SyncMargin, At, DayPcs
<1>2. PICK d \in Days : d = op[c].day /\ d <= today /\ (~disturbed => d = today)
  BY <1>1, DayInHand
<1>3. /\ op'[c].day = 1 /\ Fresh(c)
      /\ IF scanLock = c THEN Now(c, "entered") /\ op'[c].flip = op[c].flip
         ELSE \E pc \in {"idle", "returning", "exited"} : Now(c, pc)
  BY SyncMarginNow
<1>4. PICK pc \in {"entered", "idle", "returning", "exited"} : Now(c, pc)
  BY <1>3
<1>5. /\ Rewrites(d) /\ SameEquity(d) /\ SameFlips(d) /\ SameState(d)
      /\ row[d] # None => Balanced(row'[d])
  <2>1. PICK n \in Int : n = op[c].total
    BY DEF AccountInv, AccountTypeInv, AccountTypeOK, OpState
  <2>2. row' = Updated(d, Reconcile(row[d], n))
    BY <1>2, <2>1 DEF SyncMargin
  <2> QED BY <2>2, ReconcileRow DEF AccountInv, AccountTypeInv
<1>6. Writes(c, d) /\ UNCHANGED <<unbooked, halted, commanded>>
  BY <1>2, <1>4, <1>5 DEF SyncMargin, Writes, Now, Others, history, AccountInv,
     AccountTypeInv, AccountTypeOK
<1>7. Plain(c)
  <2>1. scanLock' = scanLock
    BY DEF SyncMargin, memory
  <2>2. CASE scanLock = c
    BY <1>1, <1>3, <2>1, <2>2
    DEF Plain, LockOK, FlipUnderWay, DayPcs, ScanPcs, Now
  <2>3. CASE scanLock # c
    <3>1. op'[c].pc \in {"idle", "returning", "exited"}
      BY <1>3, <2>3 DEF Now
    <3> QED BY <1>1, <1>3, <2>1, <2>3, <3>1
      DEF Plain, LockOK, FlipUnderWay, DayPcs, ScanPcs
  <2> QED BY <2>2, <2>3
<1> QED BY <1>1, <1>2, <1>4, <1>5, <1>6, <1>7, WriteKeeps DEF Now

LEMMA HaltFlipsKeeps ==
  ASSUME AccountInv, NEW c \in Callers, HaltFlips(c) PROVE AccountInv'
<1>1. op[c].pc = "flipHalt"
  BY DEF HaltFlips, At
<1>2. PICK d \in Days : d = op[c].day /\ d <= today
  BY DayInHand
<1>3. Now(c, "flipHalted") /\ op'[c].day = 1 /\ Fresh(c)
  BY EnsureNow DEF HaltFlips, AccountInv, Pcs
<1>4. /\ Rewrites(d) /\ SameMoney(d) /\ SameState(d) /\ SameFlips(d)
  <2>1. row' = Updated(d, [row[d] EXCEPT !.flipsOff = TRUE])
    BY <1>2 DEF HaltFlips
  <2> QED BY <2>1, HaltFlipsRow DEF AccountInv, AccountTypeInv
<1>5. Writes(c, d) /\ UNCHANGED <<unbooked, halted, commanded>>
  BY <1>2, <1>3, <1>4 DEF HaltFlips, Writes, Now, Others, history, AccountInv,
     AccountTypeInv, AccountTypeOK
<1>6. Plain(c)
  BY <1>1, <1>3, <1>5
  DEF Plain, LockOK, FlipUnderWay, DayPcs, ScanPcs, Now, Writes, memory,
      AccountInv, CallerOK
<1> QED BY <1>1, <1>3, <1>4, <1>5, <1>6, WriteKeeps, MoneySame DEF Now, SyncComes

LEMMA RecordFlipKeeps ==
  ASSUME AccountInv, NEW c \in Callers, RecordFlip(c) PROVE AccountInv'
<1>1. op[c].pc = "recording" /\ scanLock = c
  BY DEF RecordFlip, At, ScanPcs, AccountInv, CallerOK, LockOK
<1>2. PICK d \in Days : d = op[c].day /\ d <= today
  BY DayInHand
<1>3. Now(c, "flipLimits") /\ op'[c].day = 1 /\ Fresh(c)
  BY EnsureNow DEF RecordFlip, AccountInv, Pcs
<1>4. /\ Rewrites(d) /\ SameMoney(d) /\ SameState(d)
      /\ row[d] # None => row'[d].flips = row[d].flips + 1
  <2>1. row' = Updated(d, [row[d] EXCEPT !.flips = @ + 1, !.flipsHour = @ + 1])
    BY <1>2 DEF RecordFlip
  <2> QED BY <2>1, RecordFlipRow DEF AccountInv, AccountTypeInv
<1>5. Writes(c, d) /\ UNCHANGED <<unbooked, halted, commanded>>
  BY <1>2, <1>3, <1>4 DEF RecordFlip, Writes, Now, Others, history, AccountInv,
     AccountTypeInv, AccountTypeOK
<1>6. Plain(c) /\ ~FlipUnderWay(c)'
  BY <1>1, <1>3, <1>5
  DEF Plain, LockOK, FlipUnderWay, DayPcs, ScanPcs, Now, Writes, memory,
      AccountInv, CallerOK
<1>7. AccountTypeInv' /\ (\A x \in Callers : CallerOK(x)')
  BY <1>1, <1>5, <1>6, WriteTypes, WritePlain
<1>8. RowsInv' /\ EmergencyInv' /\ EquityInv'
  BY <1>1, <1>3, <1>4, <1>5, WriteRows, WriteEmergency, WriteEquity, MoneySame
  DEF Now, SyncComes
<1>9. FlipsWithinLimit'
  <2> DEFINE limit == Effective(MaxFlipsPerDay)
  <2>1. SUFFICES ASSUME limit > 0, NEW e \in Days, row'[e] # None
                 PROVE  row'[e].flips <= limit
    BY DEF FlipsWithinLimit
  <2>2. CASE e # d
    BY <2>1, <2>2, <1>4 DEF AccountInv, FlipsWithinLimit, Rewrites
  <2>3. CASE e = d
    <3>1. row[d] # None /\ row'[d].flips = row[d].flips + 1
      BY <2>1, <2>3, <1>4 DEF Rewrites
    <3>2. row[d].flips < limit
      BY <1>1, <1>2, <2>1, <3>1 DEF AccountInv, CallerOK, FlipOK
    <3>3. row[d].flips \in Int /\ limit \in Int
      BY <3>1, LimitsAssumption
      DEF AccountInv, AccountTypeInv, AccountTypeOK, RiskRow, Effective
    <3> HIDE DEF limit
    <3> QED BY <2>3, <3>1, <3>2, <3>3
  <2> QED BY <2>2, <2>3
<1> QED BY <1>7, <1>8, <1>9 DEF AccountInv

LEMMA ReleaseCapitalKeeps ==
  ASSUME AccountInv, NEW c \in Callers, ReleaseCapital(c) PROVE AccountInv'
<1>1. op[c].pc = "releasing" /\ op[c].pc \in DayPcs
  BY DEF ReleaseCapital, At, DayPcs
<1>2. PICK d \in Days : d = op[c].day /\ d <= today /\ (~disturbed => d = today)
  BY <1>1, DayInHand
<1>3. PICK pnl \in Int : pnl = op[c].pnl
  BY DEF AccountInv, AccountTypeInv, AccountTypeOK, OpState
<1>4. Now(c, "postTrade") /\ op'[c].day = 1 /\ Fresh(c)
  BY EnsureNow DEF ReleaseCapital, AccountInv, Pcs
<1>5. /\ Rewrites(d) /\ SameFlips(d) /\ SameState(d)
      /\ row[d] # None => /\ row'[d].starting = row[d].starting
                          /\ row'[d].realized = row[d].realized + pnl
  <2>1. row' = Updated(d, Release(row[d], 1, pnl))
    BY <1>2, <1>3 DEF ReleaseCapital
  <2> QED BY <2>1, ReleaseRow DEF AccountInv, AccountTypeInv
<1>6. unbooked' = unbooked + (IF row[d] = None THEN pnl ELSE 0) /\ unbooked \in Int
  BY <1>2, <1>3 DEF ReleaseCapital, AccountInv, AccountTypeInv
<1>7. Writes(c, d) /\ halted' = halted
  BY <1>2, <1>4, <1>5, <1>6 DEF ReleaseCapital, Writes, Now, Others, history, AccountInv,
     AccountTypeInv, AccountTypeOK
<1>8. Plain(c)
  BY <1>1, <1>4, <1>7
  DEF Plain, LockOK, FlipUnderWay, DayPcs, ScanPcs, Now, Writes, memory,
      AccountInv, CallerOK
<1>9. AccountTypeInv' /\ RowsInv' /\ FlipsWithinLimit'
  BY <1>5, <1>7, WriteTypes, WriteRows, WriteFlips
<1>10. \A x \in Callers : CallerOK(x)'
  BY <1>5, <1>7, <1>8, WritePlain
<1>11. EmergencyInv'
  BY <1>4 DEF EmergencyInv, HaltComes, EmergencyComes, Now
<1>12. EquityInv'
  <2>1. SUFFICES ASSUME ~disturbed, Solvent'
                 PROVE  Worth' = AccountCapital + booked' - unbooked' - PendingSum'
    BY <1>4, <1>7 DEF EquityInv, SyncComes, Now, Writes
  <2>2. d = today /\ today' = today /\ booked' = booked /\ booked \in Int
    BY <1>2, <1>7, <2>1 DEF Writes, AccountInv, AccountTypeInv
  <2>3. PreviousDayEquity' = PreviousDayEquity /\ Solvent' = Solvent
    BY <1>5, <2>2, EarlierKept DEF AccountInv, AccountTypeInv
  <2>4. PendingSum \in Int /\ PendingSum' = PendingSum - pnl
    <3>1. /\ PendingSum \in Int /\ PendingSum' \in Int
          /\ PendingSum' = PendingSum - PendingOf(c) + PendingOf(c)'
      BY <1>7, PendingMoves DEF AccountInv, Writes
    <3>2. PendingOf(c) = pnl /\ PendingOf(c)' = 0
      BY <1>1, <1>3, <1>4 DEF PendingOf, Now
    <3> QED BY <3>1, <3>2
  <2>5. Worth = AccountCapital + booked - unbooked - PendingSum
    BY <2>1, <2>3 DEF AccountInv, EquityInv
  <2>6. Worth' = IF row[d] = None THEN Worth ELSE Worth + pnl
    <3>1. CASE row[d] = None
      BY <3>1, <1>5, <2>2, <2>3 DEF Worth, Rewrites
    <3>2. CASE row[d] # None
      <4>1. row[d] \in RiskRow /\ row'[d] # None
        BY <3>2, <1>5 DEF AccountInv, AccountTypeInv, AccountTypeOK, Rewrites
      <4> QED BY <3>2, <4>1, <1>5, <2>2 DEF Worth, Equity, RiskRow
    <3> QED BY <3>1, <3>2
  <2>7. AccountCapital \in Int
    BY CapitalAssumption
  <2> QED BY <1>6, <2>2, <2>4, <2>5, <2>6, <2>7
<1> QED BY <1>9, <1>10, <1>11, <1>12 DEF AccountInv

LEMMA HaltEntriesKeeps ==
  ASSUME AccountInv, NEW c \in Callers, HaltEntries(c) PROVE AccountInv'
<1>1. op[c].pc = "halting" /\ op[c].pc \in DayPcs
  BY DEF HaltEntries, At, DayPcs
<1>2. PICK d \in Days : d = op[c].day /\ d <= today /\ (~disturbed => d = today)
  BY <1>1, DayInHand
<1>3. PICK pc \in {"emergency", "syncCall"} :
        /\ pc = (IF op[c].on /\ EmergencyFlatten THEN "emergency" ELSE "syncCall")
        /\ Ensure(c, pc)
  BY DEF HaltEntries
<1>4. Now(c, pc) /\ op'[c].day = 1 /\ Fresh(c)
  BY <1>3, EnsureNow DEF AccountInv, Pcs
<1>5. /\ Rewrites(d) /\ SameMoney(d) /\ SameFlips(d) /\ BecomesState(d, "HALTED")
  <2>1. row' = Updated(d, Halt(row[d], "HALTED")) /\ "HALTED" \in RiskStates
    BY <1>2 DEF HaltEntries, RiskStates
  <2> QED BY <2>1, HaltRow DEF AccountInv, AccountTypeInv
<1>6. Writes(c, d) /\ halted' = halted \cup Reaching(d)
  BY <1>2, <1>4, <1>5 DEF HaltEntries, Writes, Now, Others, Reaching, AccountInv,
     AccountTypeInv, AccountTypeOK
<1>7. Plain(c)
  BY <1>1, <1>4, <1>6
  DEF Plain, LockOK, FlipUnderWay, DayPcs, ScanPcs, Now, Writes, memory,
      AccountInv, CallerOK
<1>8. AccountTypeInv' /\ FlipsWithinLimit' /\ EquityInv'
  BY <1>1, <1>4, <1>5, <1>6, WriteTypes, WriteFlips, WriteEquity, MoneySame
  DEF Now, SyncComes, HaltEntries
<1>9. \A x \in Callers : CallerOK(x)'
  BY <1>5, <1>6, <1>7, WritePlain
<1>10. RowsInv'
  BY <1>5, <1>6
  DEF AccountInv, AccountTypeInv, AccountTypeOK, RowsInv, Writes, Rewrites, BecomesState,
      HaltStates, Reaching
<1>11. EmergencyInv'
  <2>1. SUFFICES ASSUME LossStands'
                 PROVE  /\ row'[today].state \in HaltStates
                        /\ EmergencyFlatten /\ OnlyLossLimit => EmergencyComes(c)'
    BY <1>6 DEF EmergencyInv, Writes
  <2>2. d = today /\ row[d] # None
    BY <1>2, <2>1, <1>5, <1>6 DEF LossStands, Writes, Rewrites
  <2>3. OnlyLossLimit => op[c].on
    BY <1>1 DEF AccountInv, CallerOK, HaltOK
  <2> QED BY <1>3, <1>4, <1>5, <2>2, <2>3 DEF BecomesState, HaltStates, EmergencyComes, Now
<1> QED BY <1>8, <1>9, <1>10, <1>11 DEF AccountInv

LEMMA EmergencyHaltKeeps ==
  ASSUME AccountInv, NEW c \in Callers, EmergencyHalt(c) PROVE AccountInv'
<1>1. op[c].pc = "flatten" /\ op[c].pc \in DayPcs
  BY DEF EmergencyHalt, At, DayPcs
<1>2. PICK d \in Days : d = op[c].day /\ d <= today /\ (~disturbed => d = today)
  BY <1>1, DayInHand
<1>3. Now(c, "syncCall") /\ op'[c].day = 1 /\ Fresh(c)
  BY EnsureNow DEF EmergencyHalt, AccountInv, Pcs
<1>4. Rewrites(d) /\ SameMoney(d) /\ SameFlips(d) /\ BecomesState(d, "EMERGENCY_FLATTEN")
  <2>1. /\ row' = Updated(d, Halt(row[d], "EMERGENCY_FLATTEN"))
        /\ "EMERGENCY_FLATTEN" \in RiskStates
    BY <1>2 DEF EmergencyHalt, RiskStates
  <2> QED BY <2>1, HaltRow DEF AccountInv, AccountTypeInv
<1>5. Writes(c, d) /\ halted' = halted /\ unbooked' = unbooked
  BY <1>2, <1>3, <1>4 DEF EmergencyHalt, Writes, Now, Others, history, AccountInv,
     AccountTypeInv, AccountTypeOK
<1>6. Plain(c)
  BY <1>1, <1>3, <1>5
  DEF Plain, LockOK, FlipUnderWay, DayPcs, ScanPcs, Now, Writes, memory,
      AccountInv, CallerOK
<1>7. AccountTypeInv' /\ FlipsWithinLimit' /\ EquityInv'
  BY <1>1, <1>3, <1>4, <1>5, WriteTypes, WriteFlips, WriteEquity, MoneySame
  DEF Now, SyncComes
<1>8. \A x \in Callers : CallerOK(x)'
  BY <1>4, <1>5, <1>6, WritePlain
<1>9. RowsInv'
  BY <1>4, <1>5
  DEF AccountInv, AccountTypeInv, AccountTypeOK, RowsInv, Writes, Rewrites, BecomesState,
      HaltStates
<1>10. EmergencyInv'
  <2>1. SUFFICES ASSUME LossStands' PROVE row'[today].state = "EMERGENCY_FLATTEN"
    BY <1>5 DEF EmergencyInv, HaltStates, Writes
  <2>2. d = today /\ row[d] # None
    BY <1>2, <2>1, <1>4, <1>5 DEF LossStands, Writes, Rewrites
  <2> QED BY <1>4, <2>2 DEF BecomesState
<1> QED BY <1>7, <1>8, <1>9, <1>10 DEF AccountInv

LEMMA WriteAutoTradeKeeps ==
  ASSUME AccountInv, NEW c \in Callers, WriteAutoTrade(c) PROVE AccountInv'
<1>1. op[c].pc = "autoTrade"
  BY DEF WriteAutoTrade, At
<1>2. PICK d \in Days : d = op[c].day /\ d <= today
  BY DayInHand
<1>3. PICK pc \in {"idle", "returning"} : Now(c, pc)
  BY EnsureAndReturnNow DEF WriteAutoTrade, AccountInv
<1>4. op'[c].day = 1 /\ Fresh(c)
  BY EnsureAndReturnNow DEF WriteAutoTrade, AccountInv
<1>5. Rewrites(d) /\ SameMoney(d) /\ SameFlips(d)
  <2>1. CASE ~op[c].on
    <3>1. row' = Updated(d, Halt(row[d], "HALTED")) /\ "HALTED" \in RiskStates
      BY <1>2, <2>1 DEF WriteAutoTrade, RiskStates
    <3> QED BY <3>1, HaltRow DEF AccountInv, AccountTypeInv
  <2>2. CASE op[c].on /\ op[c].kill
    BY <1>2, <2>2 DEF WriteAutoTrade, Rewrites, SameMoney, SameFlips, AccountInv,
       AccountTypeInv, AccountTypeOK
  <2>3. CASE op[c].on /\ ~op[c].kill
    <3>1. row' = Updated(d, [row[d] EXCEPT !.blocked = FALSE, !.flipsOff = FALSE,
                                           !.state = "NORMAL"])
      BY <1>2, <2>3 DEF WriteAutoTrade
    <3> QED BY <3>1, EnableRow DEF AccountInv, AccountTypeInv
  <2> QED BY <2>1, <2>2, <2>3
<1>6. Writes(c, d) /\ unbooked' = unbooked /\ commanded' = commanded \cup {d}
  BY <1>2, <1>3, <1>5 DEF WriteAutoTrade, Writes, Now, Others, Reaching, AccountInv,
     AccountTypeInv, AccountTypeOK
<1>7. Plain(c)
  BY <1>1, <1>3, <1>4, <1>6
  DEF Plain, LockOK, FlipUnderWay, DayPcs, ScanPcs, Now, Writes, memory,
      AccountInv, CallerOK
<1>8. AccountTypeInv' /\ FlipsWithinLimit' /\ EquityInv'
  BY <1>1, <1>3, <1>5, <1>6, WriteTypes, WriteFlips, WriteEquity, MoneySame
  DEF Now, SyncComes
<1>9. \A x \in Callers : CallerOK(x)'
  BY <1>5, <1>6, <1>7, WritePlain
<1>10. RowsInv'
  <2>2. CASE ~op[c].on
    <3>1. row' = Updated(d, Halt(row[d], "HALTED")) /\ "HALTED" \in RiskStates
      BY <1>2, <2>2 DEF WriteAutoTrade, RiskStates
    <3>2. BecomesState(d, "HALTED")
      BY <3>1, HaltRow DEF AccountInv, AccountTypeInv
    <3>3. halted' = halted \cup Reaching(d)
      BY <1>2, <2>2 DEF WriteAutoTrade
    <3> QED BY <1>5, <1>6, <3>2, <3>3
      DEF AccountInv, AccountTypeInv, AccountTypeOK, RowsInv, Writes, Rewrites,
          BecomesState, HaltStates, Reaching
  <2>3. CASE op[c].on /\ op[c].kill
    BY <2>3 DEF WriteAutoTrade, AccountInv, RowsInv
  <2>4. CASE op[c].on /\ ~op[c].kill
    <3>1. halted' = halted \ {d}
      BY <1>2, <2>4 DEF WriteAutoTrade
    <3> QED BY <1>5, <1>6, <3>1
      DEF AccountInv, AccountTypeInv, AccountTypeOK, RowsInv, Writes, Rewrites
  <2> QED BY <2>2, <2>3, <2>4
<1>11. EmergencyInv'
  <2>1. CASE d = today
    BY <2>1, <1>6 DEF EmergencyInv, LossStands, Writes
  <2>2. CASE d # today
    <3>1. row'[today] = row[today] /\ today' = today
      BY <1>6, <2>2 DEF Writes, Rewrites, AccountInv, AccountTypeInv, AccountTypeOK
    <3>2. LossStands' => LossStands
      BY <1>6, <3>1 DEF LossStands, Writes
    <3>3. \A x \in Callers : (HaltComes(x) => HaltComes(x)')
                          /\ (EmergencyComes(x) => EmergencyComes(x)')
      BY <1>1, <1>6 DEF HaltComes, EmergencyComes, Writes, Others
    <3> QED BY <3>1, <3>2, <3>3 DEF AccountInv, EmergencyInv
  <2> QED BY <2>1, <2>2
<1> QED BY <1>8, <1>9, <1>10, <1>11 DEF AccountInv

LEMMA ClearPaperHaltKeeps ==
  ASSUME AccountInv, NEW c \in Callers, ClearPaperHalt(c) PROVE AccountInv'
<1>1. op[c].pc = "clearWrite"
  BY DEF ClearPaperHalt, At
<1>2. PICK d \in Days : d = op[c].day /\ d <= today
  BY DayInHand
<1>3. PICK pc \in {"idle", "returning"} : Now(c, pc)
  BY EnsureAndReturnNow DEF ClearPaperHalt, AccountInv
<1>4. op'[c].day = 1 /\ Fresh(c)
  BY EnsureAndReturnNow DEF ClearPaperHalt, AccountInv
<1>5. UNCHANGED <<today, memory, history>>
  BY DEF ClearPaperHalt
<1>6. Plain(c)
  BY <1>1, <1>3, <1>4, <1>5
  DEF Plain, LockOK, FlipUnderWay, DayPcs, ScanPcs, Now, memory, AccountInv, CallerOK
<1>7. CASE BreakersDisabled
  <2> DEFINE new == [row[d] EXCEPT !.blocked = FALSE, !.flipsOff = FALSE,
                                   !.state = "NORMAL"]
  <2>1. Rewrites(d) /\ SameMoney(d) /\ SameFlips(d)
    <3>0. row' = Updated(d, IF row[d].kill THEN row[d] ELSE new)
      BY <1>2, <1>7 DEF ClearPaperHalt
    <3>1. CASE row[d].kill
      <4>1. row[d] # None => row[d] \in RiskRow
        BY DEF AccountInv, AccountTypeInv, AccountTypeOK
      <4>2. row' = Updated(d, row[d])
        BY <3>0, <3>1
      <4>3. Rewrites(d) /\ (row[d] # None => row'[d] = row[d])
        BY <4>1, <4>2, UpdatedRewrites DEF AccountInv, AccountTypeInv
      <4> QED BY <4>3 DEF SameMoney, SameFlips
    <3>2. CASE ~row[d].kill
      <4>1. row' = Updated(d, new)
        BY <3>0, <3>2
      <4> QED BY <4>1, EnableRow DEF AccountInv, AccountTypeInv
    <3> QED BY <3>1, <3>2
  <2>3. Writes(c, d)
    BY <1>2, <1>3, <1>5, <2>1 DEF Writes, Now, Others, history, AccountInv,
       AccountTypeInv, AccountTypeOK
  <2>4. AccountTypeInv' /\ FlipsWithinLimit' /\ EquityInv'
    BY <1>1, <1>3, <1>5, <2>1, <2>3, WriteTypes, WriteFlips, WriteEquity, MoneySame
    DEF Now, SyncComes, history
  <2>5. \A x \in Callers : CallerOK(x)'
    BY <1>6, <2>1, <2>3, WritePlain
  <2>6. RowsInv'
    BY <1>5, <1>7, <2>1, <2>3
    DEF AccountInv, AccountTypeInv, AccountTypeOK, RowsInv, Writes, Rewrites, history
  <2>7. EmergencyInv'
    BY <1>7 DEF EmergencyInv, LossStands
  <2> QED BY <2>4, <2>5, <2>6, <2>7 DEF AccountInv
<1>8. CASE ~BreakersDisabled
  <2>1. UNCHANGED <<account, memory, history>>
    BY <1>5, <1>8 DEF ClearPaperHalt, account
  <2>2. Quiet(c)
    BY <1>3, <2>1 DEF Now, Quiet, Others, LockFrame, memory, AccountInv,
       AccountTypeInv, AccountTypeOK
  <2> QED BY <1>1, <1>3, <1>6, <2>2, QuietPlain DEF SyncComes, Now
<1> QED BY <1>7, <1>8

\* A day begins with no result.
LEMMA FreshNotLost ==
  ASSUME NEW r \in RiskRow, r.realized = 0 PROVE ~LossLimitReached(r)
<1>1. CASE Effective(DailyLossAmount) > 0
  BY <1>1, LimitsAssumption DEF LossLimitReached, Effective
<1>2. CASE ~(Effective(DailyLossAmount) > 0)
  <2> DEFINE p == Effective(DailyLossPct)
  <2>1. p \in Nat /\ r.starting \in Nat
    BY LimitsAssumption DEF Effective, RiskRow
  <2> HIDE DEF p
  <2>2. p > 0 /\ r.starting > 0 => r.starting * p > 0
    BY <2>1
  <2>3. r.starting * p \in Int
    BY <2>1
  <2>4. LossLimitReached(r) => p > 0 /\ r.starting > 0 /\ 0 * 100 <= -(r.starting * p)
    BY <1>2 DEF LossLimitReached, p
  <2> QED BY <2>2, <2>3, <2>4
<1> QED BY <1>1, <1>2

\* A row that is inserted has counted no flip.
NewRow(d) ==
  /\ row[d] = None /\ d <= today /\ row'[d] \in RiskRow /\ row'[d].flips = 0
  /\ row' \in [Days -> RiskRow \cup {None}]
  /\ \A e \in Days \ {d} : row'[e] = row[e]

\* What a caller that stays where it is keeps when a row is inserted.
LEMMA NewRowCaller ==
  ASSUME AccountInv, NEW d \in Days, NewRow(d), UNCHANGED <<today, scanLock>>,
         disturbed => disturbed', NEW x \in Callers, op'[x] = op[x]
  PROVE  DateOK(x)' /\ SinceOK(x)' /\ HaltOK(x)' /\ LockOK(x)' /\ FlipOK(x)'
<1>1. /\ CallerOK(x) /\ op[x].day \in Days /\ op[x].since \in Days
      /\ \A e \in Days : row[e] # None => row'[e] = row[e]
      /\ \A e \in Days : row'[e] # None => row[e] # None \/ row'[e].flips = 0
  BY DEF AccountInv, AccountTypeInv, AccountTypeOK, OpState, NewRow
<1>2. DateOK(x)' /\ HaltOK(x)' /\ LockOK(x)'
  BY <1>1 DEF CallerOK, DateOK, HaltOK, LockOK
<1>3. SinceOK(x)'
  BY <1>1, AccountAssumption DEF CallerOK, SinceOK
<1>4. FlipOK(x)'
  <2>1. today \in Days
    BY DEF AccountInv, AccountTypeInv, AccountTypeOK
  <2>2. LaterDays(x)'
    BY <1>1 DEF CallerOK, FlipOK, LaterDays
  <2> QED BY <1>1, <2>1, <2>2 DEF CallerOK, FlipOK, FlipUnderWay
<1> QED BY <1>2, <1>3, <1>4

LEMMA NewRowRows ==
  ASSUME AccountInv, NEW d \in Days, NewRow(d), today' = today, halted' = halted
  PROVE  RowsInv' /\ FlipsWithinLimit'
<1>1. \A e \in Days : row'[e] # None => row[e] # None \/ e = d
  BY DEF NewRow
<1>2. \A e \in halted : e \in Days /\ e # d
  BY DEF AccountInv, AccountTypeInv, AccountTypeOK, RowsInv, NewRow
<1>3. RowsInv'
  BY <1>1, <1>2 DEF AccountInv, RowsInv, NewRow
<1>4. FlipsWithinLimit'
  <2> DEFINE limit == Effective(MaxFlipsPerDay)
  <2>1. limit \in Nat
    BY LimitsAssumption DEF Effective
  <2> HIDE DEF limit
  <2>2. SUFFICES ASSUME limit > 0, NEW e \in Days, row'[e] # None
                 PROVE  row'[e].flips <= limit
    BY DEF FlipsWithinLimit, limit
  <2>3. CASE e = d
    BY <2>1, <2>2, <2>3 DEF NewRow
  <2>4. CASE e # d
    BY <2>2, <2>4 DEF NewRow, AccountInv, FlipsWithinLimit, limit
  <2> QED BY <2>3, <2>4
<1> QED BY <1>3, <1>4

LEMMA WriteKillSwitchKeeps ==
  ASSUME AccountInv, NEW c \in Callers, WriteKillSwitch(c) PROVE AccountInv'
<1>1. op[c].pc = "killWrite" /\ scanLock # c
  BY DEF WriteKillSwitch, At, ScanPcs, AccountInv, CallerOK, LockOK
<1>2. PICK d \in Days : d = op[c].day /\ d <= today
  BY DayInHand
<1>3. Now(c, "idle") /\ op'[c] = Idle /\ Fresh(c)
  BY ReturnNow DEF WriteKillSwitch, AccountInv
<1>4. PICK b \in BOOLEAN : b = op[c].on
  BY DEF AccountInv, AccountTypeInv, AccountTypeOK, OpState
<1>5. /\ row' = [row EXCEPT ![d] =
                  KillSwitch(IF @ = None THEN SeededRow(AccountCapital) ELSE @, b)]
      /\ disturbed' = (disturbed \/ row[d] = None)
      /\ UNCHANGED <<today, memory, booked, unbooked, halted, commanded>>
  BY <1>2, <1>4 DEF WriteKillSwitch
<1>6. CASE row[d] # None
  <2>1. Rewrites(d) /\ SameMoney(d) /\ SameFlips(d) /\ SameState(d)
    <3>1. row' = [row EXCEPT ![d] = KillSwitch(@, b)]
      BY <1>5, <1>6
    <3> QED BY <1>6, <3>1, KillSwitchRow DEF AccountInv, AccountTypeInv
  <2>2. Writes(c, d) /\ UNCHANGED <<unbooked, halted, commanded>>
    BY <1>3, <1>5, <1>6, <2>1 DEF Writes, Now, Others, AccountInv,
       AccountTypeInv, AccountTypeOK
  <2>3. Plain(c)
    BY <1>1, <1>3, <2>2, IdleType
    DEF Plain, LockOK, FlipUnderWay, DayPcs, ScanPcs, Writes, memory
  <2> QED BY <1>1, <1>3, <2>1, <2>2, <2>3, WriteKeeps, MoneySame DEF Now, SyncComes
<1>7. CASE row[d] = None
  <2> DEFINE s == SeededRow(AccountCapital)
  <2>1. s \in RiskRow /\ s.flips = 0
    BY SeededRowType, CapitalAssumption
  <2>2. row' = [row EXCEPT ![d] = KillSwitch(s, b)]
    BY <1>5, <1>7
  <2> HIDE DEF s
  <2>3. KillSwitch(s, b) \in RiskRow /\ KillSwitch(s, b).flips = 0
    BY <2>1, KillSwitchType DEF KillSwitch, RiskRow
  <2>4. NewRow(d)
    BY <1>2, <1>7, <2>2, <2>3 DEF NewRow, AccountInv, AccountTypeInv, AccountTypeOK
  <2>5. disturbed'
    BY <1>5, <1>7
  <2>6. AccountTypeInv'
    BY <1>3, <1>5, <2>4, <2>5
    DEF AccountInv, AccountTypeInv, AccountTypeOK, Now, OpTyped, memory, NewRow
  <2>7. RowsInv' /\ FlipsWithinLimit'
    BY <1>5, <2>4, NewRowRows
  <2>8. EmergencyInv' /\ EquityInv'
    BY <2>5 DEF EmergencyInv, LossStands, EquityInv
  <2>9. \A x \in Callers : CallerOK(x)'
    <3>1. ASSUME NEW x \in Callers, x # c PROVE CallerOK(x)'
      <4>1. op'[x] = op[x] /\ UNCHANGED <<today, scanLock>>
        BY <1>3, <1>5, <3>1 DEF Now, memory
      <4>2. DateOK(x)' /\ SinceOK(x)' /\ HaltOK(x)' /\ LockOK(x)' /\ FlipOK(x)'
        BY <2>4, <2>5, <4>1, NewRowCaller
      <4> QED BY <2>5, <4>2 DEF CallerOK, SeedOK
    <3>2. CallerOK(c)'
      <4>1. today \in Nat /\ 1 <= today /\ today' = today /\ scanLock' = scanLock
        BY <1>5, OneDay DEF AccountInv, AccountTypeInv, AccountTypeOK, memory
      <4> QED BY <1>1, <1>3, <2>5, <4>1, IdleType
        DEF CallerOK, DateOK, SinceOK, SeedOK, HaltOK, LockOK, FlipOK, LaterDays,
            FlipUnderWay, ScanPcs
    <3> QED BY <3>1, <3>2
  <2> QED BY <2>6, <2>7, <2>8, <2>9 DEF AccountInv
<1> QED BY <1>6, <1>7

LEMMA InsertTodayKeeps ==
  ASSUME AccountInv, NEW c \in Callers, InsertToday(c) PROVE AccountInv'
<1> DEFINE n == op[c].seed
           zero == 0
           to == "select"
           v == [op[c] EXCEPT !.step = to, !.seed = zero, !.since = today]
<1>1. /\ op[c] \in OpState /\ n \in Nat /\ zero \in Int /\ zero = 0 /\ to = "select"
      /\ to \in {"done", "read", "insert", "select"} /\ today \in Days
      /\ op[c].step = "insert"
  BY DEF InsertToday, AccountInv, AccountTypeInv, AccountTypeOK
<1>2. /\ op' = [op EXCEPT ![c] = v] /\ UNCHANGED <<today, memory, history>>
      /\ row' = [row EXCEPT ![today] = IF @ = None THEN SeededRow(n) ELSE @]
  BY DEF InsertToday
<1> HIDE DEF zero, to
<1>t. v \in OpState
  BY <1>1 DEF OpState
<1>3. /\ v.seed = 0 /\ v.step = "select" /\ v.since = today
      /\ v.pc = op[c].pc /\ v.day = op[c].day
  BY <1>1 DEF OpState
<1>f. v.flip = op[c].flip /\ v.on = op[c].on /\ v.pnl = op[c].pnl
  BY <1>1 DEF OpState
<1> HIDE DEF v
<1>n. Now(c, v.pc) /\ op'[c] = v
  BY <1>1, <1>2, <1>t, <1>3, SeedlessNow DEF AccountInv
<1>4. Now(c, op[c].pc)
  BY <1>3, <1>n
<1>5. /\ row' \in [Days -> RiskRow \cup {None}]
      /\ \A d \in Days : row[d] # None \/ d # today => row'[d] = row[d]
      /\ row[today] = None => row'[today] = SeededRow(n)
  <2> HIDE DEF n
  <2> QED BY <1>1, <1>2, InsertRow DEF AccountInv, AccountTypeInv
<1>s. row'[today] # None
  BY <1>1, <1>5, SeededRowType, AccountAssumption
<1>l. \A d \in Days : row'[d] # None => d <= today
  BY <1>1, <1>5, OneDay DEF AccountInv, RowsInv
\* The caller itself, whose row is there now.
<1>c. CallerOK(c)'
  <2>1. CallerOK(c) /\ UNCHANGED <<today, scanLock, disturbed>> /\ today \in Nat
    BY <1>1, <1>2, OneDay DEF AccountInv, memory, history
  <2>2. DateOK(c)' /\ HaltOK(c)' /\ LockOK(c)'
    BY <1>3, <1>f, <1>n, <2>1 DEF CallerOK, DateOK, HaltOK, LockOK
  <2>3. SinceOK(c)' /\ SeedOK(c)'
    BY <1>3, <1>n, <1>s, <2>1 DEF SinceOK, SeedOK
  <2>4. LaterDays(c)'
    BY <1>3, <1>n, <1>l, <2>1, OneDay DEF LaterDays
  <2>5. FlipOK(c)'
    <3>1. SUFFICES ASSUME Effective(MaxFlipsPerDay) > 0
          PROVE /\ FlipUnderWay(c)' /\ row'[today] # None =>
                     row'[today].flips < Effective(MaxFlipsPerDay)
                /\ op[c].pc = "recording" /\ row'[op[c].day] # None =>
                     row'[op[c].day].flips < Effective(MaxFlipsPerDay)
      BY <1>3, <1>n, <2>1, <2>4 DEF FlipOK
    <3>2. FlipUnderWay(c)' => FlipUnderWay(c)
      BY <1>3, <1>f, <1>n, <2>1 DEF FlipUnderWay
    <3>3. SeededRow(n).flips = 0
      <4> HIDE DEF n
      <4> QED BY <1>1, SeededRowType
    <3>4. op[c].day \in Days
      BY <1>1 DEF OpState
    <3> HIDE DEF n
    <3> QED BY <1>1, <1>5, <2>1, <3>1, <3>2, <3>3, <3>4 DEF CallerOK, FlipOK
  <2> QED BY <2>2, <2>3, <2>5 DEF CallerOK
<1>6. CASE row[today] # None
  <2>1. UNCHANGED account
    BY <1>2, <1>5, <1>6 DEF account, AccountInv, AccountTypeInv, AccountTypeOK
  <2>2. Quiet(c)
    BY <1>2, <1>4, <2>1 DEF Now, Quiet, Others, LockFrame, memory, AccountInv,
       AccountTypeInv, AccountTypeOK
  <2> QED BY <1>3, <1>f, <1>n, <1>c, <2>2, QuietKeeps
    DEF SyncComes, HaltComes, EmergencyComes
<1>7. CASE row[today] = None
  <2> DEFINE s == SeededRow(n)
  <2>1. /\ s \in RiskRow /\ s # None /\ row'[today] = s /\ s.flips = 0 /\ s.realized = 0
        /\ s.starting = n /\ s.available = n /\ s.deployed = 0
    <3> HIDE DEF n
    <3> QED BY <1>1, <1>5, <1>7, SeededRowType, AccountAssumption
  <2> HIDE DEF s
  <2>n. NewRow(today)
    BY <1>1, <1>5, <1>7, <2>1, OneDay DEF NewRow
  <2>2. AccountTypeInv'
    BY <1>2, <1>4, <1>5
    DEF AccountInv, AccountTypeInv, AccountTypeOK, Now, OpTyped, memory, history
  <2>3. RowsInv' /\ FlipsWithinLimit'
    BY <1>1, <1>2, <2>n, NewRowRows DEF history
  <2>5. EmergencyInv'
    BY <1>2, <2>1, FreshNotLost DEF EmergencyInv, LossStands
  <2>6. \A x \in Callers : CallerOK(x)'
    <3>1. ASSUME NEW x \in Callers, x # c PROVE CallerOK(x)'
      <4>1. op'[x] = op[x] /\ UNCHANGED <<today, scanLock, disturbed>>
        BY <1>2, <1>4, <3>1 DEF Now, memory, history
      <4>2. DateOK(x)' /\ SinceOK(x)' /\ HaltOK(x)' /\ LockOK(x)' /\ FlipOK(x)'
        BY <1>1, <2>n, <4>1, NewRowCaller
      <4> QED BY <1>s, <4>1, <4>2 DEF CallerOK, SeedOK
    <3> QED BY <1>c, <3>1
  <2>7. EquityInv'
    <3>1. SUFFICES ASSUME ~disturbed PROVE EquityInv'
      BY <1>2 DEF EquityInv, history
    <3>2. PreviousDayEquity' = PreviousDayEquity /\ Solvent' = Solvent
      <4>1. \A d \in Days : d < today => row'[d] = row[d]
        BY <1>1, <1>5, OneDay
      <4> QED BY <1>2, <4>1, SameEarlier DEF SameMoney
    <3>3. Balanced(row'[today'])
      BY <1>1, <1>2, <2>1 DEF Balanced, Equity, AtLeastZero
    <3>4. Worth' = n
      BY <1>1, <1>2, <2>1 DEF Worth, Equity
    <3>5. Worth = n
      BY <1>1, <1>7, <3>1 DEF Worth, AccountInv, CallerOK, SeedOK
    <3>6. PendingSum' = PendingSum
      <4>1. /\ PendingSum \in Int /\ PendingSum' \in Int
            /\ PendingSum' = PendingSum - PendingOf(c) + PendingOf(c)'
        BY <1>4, PendingMoves DEF AccountInv, Now, Others
      <4>2. PendingOf(c) = PendingOf(c)' /\ PendingOf(c) \in Int
        BY <1>3, <1>f, <1>n
        DEF PendingOf, AccountInv, AccountTypeInv, AccountTypeOK, OpState
      <4> QED BY <4>1, <4>2
    <3> QED BY <1>2, <3>1, <3>2, <3>3, <3>4, <3>5, <3>6 DEF AccountInv, EquityInv, history
  <2> QED BY <2>2, <2>3, <2>5, <2>6, <2>7 DEF AccountInv
<1> QED BY <1>6, <1>7

LEMMA ResetRowsKeeps ==
  ASSUME AccountInv, NEW c \in Callers, ResetRows(c) PROVE AccountInv'
<1>1. /\ op[c].pc = "idle" /\ UNCHANGED <<today, memory>> /\ today \in Days
      /\ booked' = 0 /\ unbooked' = 0
      /\ halted' = halted \cap {d \in {today} : row[d] # None}
      /\ commanded' = commanded \cup {today}
      /\ disturbed' = (disturbed \/ ResultUnderWay)
  BY DEF ResetRows, At, AccountInv, AccountTypeInv, AccountTypeOK
<1>2. /\ row' \in [Days -> RiskRow \cup {None}]
      /\ \A d \in Days : row'[d] # None <=> d = today
      /\ row'[today] = IF row[today] = None THEN SeededRow(AccountCapital)
                       ELSE ResetRow(row[today])
  <2>1. row' = [d \in Days |-> IF d # today THEN None
                               ELSE IF row[d] = None THEN SeededRow(AccountCapital)
                               ELSE ResetRow(row[d])]
    BY DEF ResetRows
  <2> QED BY <2>1, ResetsRows DEF AccountInv, AccountTypeInv
<1>3. /\ row'[today].starting = AccountCapital /\ row'[today].available = AccountCapital
      /\ row'[today].deployed = 0 /\ row'[today].realized = 0
      /\ row[today] = None => row'[today].flips = 0
      /\ row[today] # None => /\ row'[today].flips = row[today].flips
                              /\ row'[today].state = row[today].state
  <2>1. CASE row[today] = None
    BY <1>2, <2>1, SeededRowType, CapitalAssumption
  <2>2. CASE row[today] # None
    BY <1>1, <1>2, <2>2, ResetRowType DEF AccountInv, AccountTypeInv, AccountTypeOK
  <2> QED BY <2>1, <2>2
<1>4. /\ Now(c, "clearBook") /\ op'[c].day = today /\ Fresh(c) /\ op'[c].step = "done"
  <2>1. "clearBook" \in Pcs
    BY DEF Pcs
  <2> QED BY <2>1, GotoNow DEF ResetRows, AccountInv
<1>5. AccountTypeInv'
  BY <1>1, <1>2, <1>4
  DEF AccountInv, AccountTypeInv, AccountTypeOK, Now, OpTyped, memory, ResultUnderWay
<1>6. RowsInv'
  BY <1>1, <1>2, <1>3, OneDay DEF AccountInv, AccountTypeInv, AccountTypeOK, RowsInv
<1>7. FlipsWithinLimit'
  <2> DEFINE limit == Effective(MaxFlipsPerDay)
  <2>1. limit \in Nat
    BY LimitsAssumption DEF Effective
  <2>2. SUFFICES ASSUME limit > 0 PROVE row'[today].flips <= limit
    BY <1>1, <1>2 DEF FlipsWithinLimit
  <2>3. row[today] # None => row[today].flips <= limit
    BY <1>1, <2>2 DEF AccountInv, FlipsWithinLimit
  <2> HIDE DEF limit
  <2> QED BY <1>3, <2>1, <2>3
<1>8. EmergencyInv'
  BY <1>1 DEF EmergencyInv, LossStands
<1>9. \A x \in Callers : CallerOK(x)'
  <2>1. ASSUME NEW x \in Callers, x # c PROVE CallerOK(x)'
    <3>1. /\ CallerOK(x) /\ op[x].day \in Days /\ op[x].since \in Days
          /\ op'[x] = op[x] /\ today' = today /\ scanLock' = scanLock
          /\ ~disturbed' => ~disturbed /\ today \in Nat
      BY <1>1, <1>4, <2>1, OneDay
      DEF AccountInv, AccountTypeInv, AccountTypeOK, OpState, Now, memory
    <3>2. DateOK(x)' /\ HaltOK(x)' /\ LockOK(x)'
      BY <1>1, <3>1 DEF CallerOK, DateOK, HaltOK, LockOK
    <3>3. SinceOK(x)'
      <4>1. op[x].since = today \/ op[x].since < today
        BY <1>1, <3>1, OneDay DEF CallerOK, SinceOK
      <4> QED BY <1>1, <1>2, <3>1, <4>1 DEF CallerOK, SinceOK
    <3>4. SeedOK(x)'
      BY <1>1, <1>2, <3>1 DEF SeedOK
    <3>5. LaterDays(x)'
      BY <1>1, <1>2, <1>3, <3>1 DEF CallerOK, FlipOK, LaterDays
    <3>6. FlipOK(x)'
      BY <1>1, <1>2, <1>3, <3>1, <3>5 DEF CallerOK, FlipOK, FlipUnderWay
    <3> QED BY <3>2, <3>3, <3>4, <3>6 DEF CallerOK
  <2>2. CallerOK(c)'
    <3>1. today \in Nat /\ 1 <= today /\ today' = today /\ scanLock' = scanLock
      BY <1>1, OneDay DEF memory
    <3>2. scanLock # c /\ op[c].since <= today
      BY <1>1 DEF AccountInv, CallerOK, LockOK, SinceOK, ScanPcs
    <3> QED BY <1>4, <3>1, <3>2
      DEF CallerOK, DateOK, DayPcs, SinceOK, SeedOK, HaltOK, LockOK, FlipOK, LaterDays,
          FlipUnderWay, ScanPcs, Now, Fresh
  <2> QED BY <2>1, <2>2
<1>10. EquityInv'
  <2>1. SUFFICES ASSUME ~disturbed' PROVE EquityInv'
    BY DEF EquityInv
  <2>2. Balanced(row'[today']) /\ Worth' = AccountCapital
    <3>1. AccountCapital \in Nat
      BY CapitalAssumption
    <3> QED BY <1>1, <1>2, <1>3, <3>1 DEF Balanced, Worth, Equity, AtLeastZero
  <2>3. PendingSum' = 0
    <3>1. \A x \in Callers : op[x].pc # "releasing"
      BY <1>1, <2>1 DEF ResultUnderWay
    <3>2. PendingSum = 0
      BY <3>1, NothingPending
    <3>3. /\ PendingSum \in Int /\ PendingSum' \in Int
          /\ PendingSum' = PendingSum - PendingOf(c) + PendingOf(c)'
      BY <1>4, PendingMoves DEF AccountInv, Now, Others
    <3>4. PendingOf(c) = 0 /\ PendingOf(c)' = 0
      BY <1>1, <1>4 DEF PendingOf, Now
    <3> QED BY <3>2, <3>3, <3>4
  <2>4. AccountCapital \in Int
    BY CapitalAssumption
  <2> QED BY <1>1, <2>2, <2>3, <2>4 DEF EquityInv
<1> QED BY <1>5, <1>6, <1>7, <1>8, <1>9, <1>10 DEF AccountInv

LEMMA ClosePositionKeeps ==
  ASSUME AccountInv, NEW c \in Callers, NEW pnl \in ClosedPnls, ClosePosition(c, pnl)
  PROVE  AccountInv'
<1> DEFINE v == [Moved(c, "releasing", today) EXCEPT !.pnl = pnl]
<1>1. /\ today \in Days /\ "releasing" \in Pcs
      /\ pnl \in Int /\ booked \in Int /\ unbooked \in Int /\ held \in Nat
  BY AccountAssumption DEF AccountInv, AccountTypeInv, AccountTypeOK, Pcs
<1>2. /\ op' = [op EXCEPT ![c] = v] /\ op[c].pc = "idle"
      /\ held > 0 /\ held' = held - 1 /\ booked' = booked + pnl
      /\ UNCHANGED <<account, scanLock, pendingFlips, flipped, unbooked, halted,
                     commanded, disturbed>>
  BY DEF ClosePosition, At
<1>m. PICK m : m = Moved(c, "releasing", today)
  OBVIOUS
<1>o. /\ m \in OpState /\ m.pc = "releasing" /\ m.day = today /\ m.step = "done"
      /\ m.seed = 0 /\ m.since = 1
  BY <1>1, <1>m, MovedType DEF AccountInv
<1>v. v = [m EXCEPT !.pnl = pnl]
  BY <1>m
<1> HIDE DEF v
<1>t. v \in OpState
  BY <1>1, <1>o, <1>v DEF OpState
<1>3. /\ v.pc = "releasing" /\ v.day = today /\ v.pnl = pnl /\ v.seed = 0
      /\ v.step = "done" /\ v.since = 1
  BY <1>1, <1>o, <1>v DEF OpState
<1>n. Now(c, v.pc) /\ op'[c] = v
  BY <1>2, <1>t, <1>3, SeedlessNow DEF AccountInv
<1>4. Now(c, "releasing")
  BY <1>3, <1>n
<1>5. AccountTypeInv'
  BY <1>1, <1>2, <1>4
  DEF AccountInv, AccountTypeInv, AccountTypeOK, Now, OpTyped, account
<1>6. RowsInv' /\ FlipsWithinLimit'
  BY <1>2 DEF AccountInv, RowsInv, FlipsWithinLimit, account
<1>7. Rewrites(today) /\ SameFlips(today) /\ today' = today /\ disturbed' = disturbed
  BY <1>2, QuietRow DEF AccountInv, AccountTypeInv, account
<1>8. \A x \in Callers : CallerOK(x)'
  <2>1. Plain(c)
    BY <1>2, <1>3, <1>4, <1>n
    DEF Plain, Fresh, LockOK, FlipUnderWay, DayPcs, ScanPcs, Now, AccountInv, CallerOK
  <2>2. CallerOK(c)'
    BY <1>1, <1>7, <2>1, PlainKept
  <2>3. ASSUME NEW x \in Callers, x # c PROVE CallerOK(x)'
    <3>1. Others(c) /\ LockFrame(c)
      BY <1>2, <1>4 DEF Others, LockFrame, Now
    <3> QED BY <1>1, <1>7, <2>3, <3>1, OthersKept DEF AccountInv, AccountTypeInv
  <2> QED BY <2>2, <2>3
<1>9. EmergencyInv'
  <2>1. \A x \in Callers : (HaltComes(x) => HaltComes(x)')
                        /\ (EmergencyComes(x) => EmergencyComes(x)')
    BY <1>2, <1>4 DEF HaltComes, EmergencyComes, Now
  <2>2. LossStands' => LossStands
    BY <1>2 DEF LossStands, account
  <2> QED BY <1>2, <2>1, <2>2 DEF AccountInv, EmergencyInv, account
<1>10. EquityInv'
  <2>1. \A x \in Callers : SyncComes(x) => SyncComes(x)'
    BY <1>2, <1>4 DEF SyncComes, Now
  <2>2. PreviousDayEquity' = PreviousDayEquity /\ Solvent' = Solvent
    BY <1>2, SameRows
  <2>3. Worth' = Worth
    BY <1>2, <2>2 DEF Worth, account
  <2>4. PendingSum \in Int /\ PendingSum' = PendingSum + pnl
    <3>1. /\ PendingSum \in Int /\ PendingSum' \in Int
          /\ PendingSum' = PendingSum - PendingOf(c) + PendingOf(c)'
      BY <1>4, PendingMoves DEF AccountInv, Now, Others
    <3>2. PendingOf(c) = 0 /\ PendingOf(c)' = pnl
      BY <1>2, <1>3, <1>n DEF PendingOf
    <3> QED BY <1>1, <3>1, <3>2
  <2>5. ~disturbed /\ Solvent =>
          Worth' = AccountCapital + booked' - unbooked' - PendingSum'
    <3>1. AccountCapital \in Int
      BY CapitalAssumption
    <3> QED BY <1>1, <1>2, <2>3, <2>4, <3>1 DEF AccountInv, EquityInv
  <2> QED BY <1>2, <2>1, <2>2, <2>5 DEF AccountInv, EquityInv, account
<1> QED BY <1>5, <1>6, <1>8, <1>9, <1>10 DEF AccountInv

\* A day ends with its row in agreement with what it is worth.
LEMMA DayEnds ==
  ASSUME AccountInv, today' = today + 1, row' = row, Solvent',
         row[today] # None => Balanced(row[today])
  PROVE  Solvent /\ PreviousDayEquity' = Worth
<1>1. today \in Days /\ today \in Nat
  BY DEF AccountInv, AccountTypeInv, AccountTypeOK, Days
<1>2. EarlierDays' = EarlierDays \cup {d \in {today} : row[d] # None}
  BY <1>1 DEF EarlierDays, Days
<1>3. Solvent
  BY <1>2 DEF Solvent
<1>4. CASE row[today] = None
  <2>1. EarlierDays' = EarlierDays
    BY <1>2, <1>4
  <2>2. LastEarlier' = LastEarlier
    BY <2>1 DEF LastEarlier
  <2>3. PreviousDayEquity' = PreviousDayEquity
    BY <2>1, <2>2 DEF PreviousDayEquity
  <2> QED BY <1>3, <1>4, <2>3 DEF Worth
<1>5. CASE row[today] # None
  <2>1. today \in EarlierDays' /\ \A d \in EarlierDays' : d <= today /\ d \in Int
    BY <1>1, <1>2, <1>5 DEF EarlierDays, Days
  <2>2. LastEarlier' = today
    <3>1. PICK D : D = EarlierDays'
      OBVIOUS
    <3>2. (CHOOSE d \in D : \A e \in D : e <= d) = today
      <4> DEFINE last == CHOOSE d \in D : \A e \in D : e <= d
      <4>1. today \in D /\ \A d \in D : d <= today /\ d \in Int
        BY <2>1, <3>1
      <4>2. last \in D /\ \A e \in D : e <= last
        BY <4>1
      <4> HIDE DEF last
      <4>3. last = today
        BY <1>1, <4>1, <4>2
      <4> QED BY <4>3 DEF last
    <3> QED BY <3>1, <3>2 DEF LastEarlier
  <2>3. row[today] \in RiskRow
    BY <1>1, <1>5 DEF AccountInv, AccountTypeInv, AccountTypeOK
  <2> DEFINE r == row[today]
             e == Equity(r)
             a == r.available + r.deployed
  <2>4. e \in Int /\ e > 0 /\ r.deployed <= e /\ r.deployed \in Int
    BY <2>1, <2>3 DEF Solvent, Equity, RiskRow
  <2>5. r.available = e - r.deployed
    BY <1>5, <2>4 DEF Balanced, AtLeastZero
  <2>6. a = e
    BY <2>4, <2>5
  <2>7. PreviousDayEquity' = IF a > 0 THEN a ELSE IF e > 0 THEN e ELSE AccountCapital
    BY <2>1, <2>2 DEF PreviousDayEquity
  <2> QED BY <1>3, <1>5, <2>4, <2>6, <2>7 DEF Worth
<1> QED BY <1>4, <1>5

LEMMA MidnightKeeps ==
  ASSUME AccountInv, Midnight PROVE AccountInv'
<1>1. /\ today \in Days /\ today' \in Days /\ today \in Nat /\ today' = today + 1
      /\ disturbed' = (disturbed \/ MoneyUnderWay)
      /\ UNCHANGED <<row, memory, op, booked, unbooked, halted, commanded>>
  <2>1. today \in Days /\ today < LastDay /\ today' = today + 1
    BY DEF Midnight, AccountInv, AccountTypeInv, AccountTypeOK
  <2>2. today' \in Days /\ today \in Nat
    BY <2>1, AccountAssumption DEF Days
  <2> QED BY <2>1, <2>2 DEF Midnight
<1>2. row[today'] = None
  BY <1>1 DEF AccountInv, RowsInv
<1>3. ~disturbed' => /\ ~disturbed
                     /\ \A x \in Callers : op[x].step # "insert" /\ op[x].pc \notin MoneyPcs
  BY <1>1 DEF MoneyUnderWay
<1>4. AccountTypeInv'
  BY <1>1 DEF AccountInv, AccountTypeInv, AccountTypeOK, memory, MoneyUnderWay
<1>5. RowsInv' /\ FlipsWithinLimit'
  BY <1>1 DEF AccountInv, AccountTypeInv, AccountTypeOK, RowsInv, FlipsWithinLimit, Days
<1>6. EmergencyInv'
  BY <1>1, <1>2 DEF EmergencyInv, LossStands
<1>7. \A x \in Callers : CallerOK(x)'
  <2>1. ASSUME NEW x \in Callers PROVE CallerOK(x)'
    <3>1. CallerOK(x) /\ op[x].day \in Nat /\ op[x].since \in Nat
      BY DEF AccountInv, AccountTypeInv, AccountTypeOK, OpState, Days
    <3>2. DateOK(x)' /\ HaltOK(x)'
      BY <1>1, <1>3, <3>1 DEF CallerOK, DateOK, HaltOK, DayPcs, MoneyPcs
    <3>3. SinceOK(x)' /\ SeedOK(x)'
      BY <1>1, <1>3, <3>1 DEF CallerOK, SinceOK, SeedOK
    <3>4. LockOK(x)' /\ FlipOK(x)'
      BY <1>1, <1>2, <3>1 DEF CallerOK, LockOK, FlipOK, LaterDays, FlipUnderWay, memory
    <3> QED BY <3>2, <3>3, <3>4 DEF CallerOK
  <2> QED BY <2>1
<1>8. EquityInv'
  <2>1. SUFFICES ASSUME ~disturbed', Solvent'
                 PROVE  Worth' = AccountCapital + booked' - unbooked' - PendingSum'
    BY <1>1, <1>2 DEF EquityInv
  <2>2. row[today] # None => Balanced(row[today])
    BY <1>3, <2>1 DEF AccountInv, EquityInv, SyncComes, MoneyPcs
  <2>3. Solvent /\ PreviousDayEquity' = Worth
    BY <1>1, <2>1, <2>2, DayEnds
  <2>4. Worth' = Worth
    BY <1>1, <1>2, <2>3 DEF Worth
  <2>5. PendingSum' = PendingSum
    BY <1>1 DEF PendingSum, Pending
  <2> QED BY <1>1, <1>3, <2>1, <2>3, <2>4, <2>5 DEF AccountInv, EquityInv
<1> QED BY <1>4, <1>5, <1>6, <1>7, <1>8 DEF AccountInv

-----------------------------------------------------------------------------
(***************************************************************************)
(* The invariant, and what follows from it.                                *)
(***************************************************************************)
LEMMA AccountInit == Init => AccountInv
<1> SUFFICES ASSUME Init PROVE AccountInv
  OBVIOUS
<1>1. /\ today = 1 /\ 1 \in Days /\ \A d \in Days : row[d] = None
      /\ \A c \in Callers : op[c] = Idle /\ op[c].pc = "idle"
      /\ row \in [Days -> RiskRow \cup {None}] /\ scanLock = None
      /\ held = 0 /\ pendingFlips = 0 /\ flipped = FALSE
      /\ booked = 0 /\ unbooked = 0 /\ halted = {} /\ commanded = {} /\ disturbed = FALSE
  BY AccountAssumption, IdleType DEF Init, Days
<1>2. AccountTypeInv
  <2>1. op \in [Callers -> OpState]
    BY IdleType DEF Init
  <2>2. AccountTypeOK
    BY <1>1, <2>1 DEF AccountTypeOK
  <2>3. \A c \in Callers : op[c].seed \in Nat
    BY <1>1, IdleType
  <2>4. booked \in Int /\ unbooked \in Int
    BY <1>1
  <2>5. disturbed \in BOOLEAN
    BY <1>1
  <2> QED BY <2>2, <2>3, <2>4, <2>5 DEF AccountTypeInv
<1>3. RowsInv /\ FlipsWithinLimit
  BY <1>1 DEF RowsInv, FlipsWithinLimit
<1>4. EmergencyInv
  BY <1>1 DEF EmergencyInv, LossStands
<1>5. EquityInv
  <2>1. EarlierDays = {}
    BY <1>1 DEF EarlierDays
  <2>2. Worth = AccountCapital /\ AccountCapital \in Int
    BY <1>1, <2>1, CapitalAssumption DEF Worth, PreviousDayEquity
  <2>3. PendingSum = 0
    BY <1>1, NothingPending
  <2> QED BY <1>1, <2>2, <2>3 DEF EquityInv
<1>6. ASSUME NEW c \in Callers PROVE CallerOK(c)
  BY <1>1, IdleType, AccountAssumption
  DEF CallerOK, DateOK, SinceOK, SeedOK, HaltOK, LockOK, FlipOK, LaterDays, FlipUnderWay,
      DayPcs, ScanPcs
<1> QED BY <1>2, <1>3, <1>4, <1>5, <1>6 DEF AccountInv

LEMMA AccountNext == AccountInv /\ [Next]_vars => AccountInv'
<1> SUFFICES ASSUME AccountInv, [Next]_vars PROVE AccountInv'
  OBVIOUS
<1>0. pendingFlips \in Nat /\ flipped \in BOOLEAN
  BY DEF AccountInv, AccountTypeInv, AccountTypeOK
<1>1. ASSUME NEW c \in Callers, EnsureStep(c) PROVE AccountInv'
  BY <1>1, ReadPreviousDayKeeps, InsertTodayKeeps, AssertionFailsKeeps, ReturnsKeep
  DEF EnsureStep
<1>2. ASSUME NEW c \in Callers, EntryStep(c) PROVE AccountInv'
  BY <1>2, TryFlipKeeps, GateFlipKeeps, GateEntryKeeps, ReserveCapitalKeeps,
     FillOrderKeeps, SyncMarginKeeps, FinishEntryKeeps, RecordFlipKeeps,
     FlipCountedKeeps, HaltFlipsKeeps
  DEF EntryStep
<1>3. ASSUME NEW c \in Callers, CloseStep(c) PROVE AccountInv'
  BY <1>3, ReleaseCapitalKeeps, PostTradeCheckKeeps, HaltEntriesKeeps,
     CallEmergencyHaltKeeps, EmergencyHaltKeeps, SyncAfterCloseKeeps, ReturnsKeep
  DEF CloseStep
<1>4. ASSUME NEW c \in Callers, CommandStep(c) PROVE AccountInv'
  BY <1>4, ReadKillKeeps, WriteAutoTradeKeeps, CallKillSwitchKeeps, WriteKillSwitchKeeps,
     CompareSummaryKeeps, CallClearPaperHaltKeeps, ClearPaperHaltKeeps, ReturnsKeep
  DEF CommandStep
<1>5. ASSUME NEW c \in Callers, StartEntry(c) \/ TakeFlips(c) PROVE AccountInv'
  BY <1>5, StartEntryKeeps, TakeFlipsKeeps
<1>6. ASSUME NEW c \in Callers, NEW pnl \in ClosedPnls, ClosePosition(c, pnl)
      PROVE  AccountInv'
  BY <1>6, ClosePositionKeeps
<1>7. ASSUME NEW c \in Callers, NEW on \in BOOLEAN, SetAutoTrade(c, on) \/ PressKillSwitch(c, on)
      PROVE  AccountInv'
  BY <1>7, SetAutoTradeKeeps, PressKillSwitchKeeps
<1>8. ASSUME NEW c \in Callers, AskSummary(c) \/ StartEngine(c) \/ ResetRows(c)
      PROVE  AccountInv'
  BY <1>8, AskSummaryKeeps, StartEngineKeeps, ResetRowsKeeps
<1>9. CASE QueueFlipOfLostClose
  <2>1. pendingFlips' \in Nat /\ flipped' \in BOOLEAN
    BY <1>0, <1>9 DEF QueueFlipOfLostClose
  <2> QED BY <1>9, <2>1, StillKeeps DEF QueueFlipOfLostClose
<1>10. CASE Midnight
  BY <1>10, MidnightKeeps
<1>11. CASE UNCHANGED vars
  <2>1. /\ UNCHANGED <<account, op, scanLock, held, history>>
        /\ pendingFlips' \in Nat /\ flipped' \in BOOLEAN
    BY <1>0, <1>11 DEF vars, account, history
  <2> QED BY <2>1, StillKeeps
<1> QED
  BY <1>1, <1>2, <1>3, <1>4, <1>5, <1>6, <1>7, <1>8, <1>9, <1>10, <1>11 DEF Next

\* The inductive invariant: where each caller stands, what it has in hand, and
\* what of its entry or close is still to come.
THEOREM AccountInvHolds == Spec => []AccountInv
<1>1. Init => AccountInv BY AccountInit
<1>2. AccountInv /\ [Next]_vars => AccountInv' BY AccountNext
<1> QED BY <1>1, <1>2, PTL DEF Spec

\* Type correctness of the rows, the memory and the callers' locals.
THEOREM AccountTypeOKHolds == Spec => []AccountTypeOK
<1>1. AccountInv => AccountTypeOK
  BY DEF AccountInv, AccountTypeInv
<1> QED BY <1>1, AccountInvHolds, PTL

\* No day counts more flips than the limit in force allows, whoever waits where,
\* also when the gate read the row of the day before: on_quote holds the lock
\* from the gate until record_flip has counted.
THEOREM FlipsWithinLimitHolds == Spec => []FlipsWithinLimit
<1>1. AccountInv => FlipsWithinLimit
  BY DEF AccountInv
<1> QED BY <1>1, AccountInvHolds, PTL

\* While the breakers are enforced, what the gate sees of a halted row stays
\* halted over the kill switch and the reset (halt_entries, the kill-switch
\* endpoint, reset_paper_account, evaluate_gates).
THEOREM HaltOutlastsKillSwitchHolds == Spec => []HaltOutlastsKillSwitch
<1>1. ASSUME AccountInv, ~BreakersDisabled, NEW d \in halted
      PROVE  EntriesHalted(GateView(Snapshot(row[d])))
  <2>1. row[d] \in RiskRow /\ row[d].state \in HaltStates
    BY <1>1 DEF AccountInv, AccountTypeInv, AccountTypeOK, RowsInv
  <2>2. Snapshot(row[d]).state = row[d].state
    BY <2>1 DEF Snapshot, RiskRow
  <2>3. GateView(Snapshot(row[d])) = Snapshot(row[d])
    BY <1>1 DEF GateView
  <2> QED BY <2>1, <2>2, <2>3 DEF EntriesHalted, HaltStates
<1>2. AccountInv => HaltOutlastsKillSwitch
  BY <1>1 DEF HaltOutlastsKillSwitch
<1> QED BY <1>2, AccountInvHolds, PTL

\* At rest a reached daily loss limit has left its halt, and, with no other day
\* limit, the emergency state (release_capital, halt_entries).
THEOREM EmergencyStandsHolds == Spec => []EmergencyStands
<1>1. AccountInv => EmergencyStands
  <2> SUFFICES ASSUME AccountInv, Resting, LossStands
               PROVE  /\ row[today].state \in {"HALTED", "EMERGENCY_FLATTEN"}
                      /\ EmergencyFlatten /\ OnlyLossLimit =>
                           row[today].state = "EMERGENCY_FLATTEN"
    BY DEF EmergencyStands, LossStands
  <2>1. \A c \in Callers : ~HaltComes(c) /\ ~EmergencyComes(c)
    BY DEF Resting, Busy, HaltComes, EmergencyComes
  <2> QED BY <2>1 DEF AccountInv, EmergencyInv, HaltStates
<1> QED BY <1>1, AccountInvHolds, PTL

\* At rest today's equity is the configured capital plus every booked result,
\* whatever seeded the day and however often the account was reset
\* (previous_day_ending_equity, ensure_paper_account, release_capital).
THEOREM EquityCarriedHolds == Spec => []EquityCarried
<1>1. AccountInv => EquityCarried
  <2> SUFFICES ASSUME AccountInv, Resting, ~disturbed, Solvent, row[today] # None
               PROVE  Equity(row[today]) = AccountCapital + booked - unbooked
    BY DEF EquityCarried
  <2>1. PendingSum = 0
    BY NothingPending DEF Resting, Busy
  <2>2. Equity(row[today]) = AccountCapital + booked - unbooked - PendingSum
    BY DEF AccountInv, EquityInv, Worth
  <2>3. AccountCapital \in Int /\ booked \in Int /\ unbooked \in Int
    BY CapitalAssumption DEF AccountInv, AccountTypeInv
  <2> QED BY <2>1, <2>2, <2>3
<1> QED BY <1>1, AccountInvHolds, PTL
=============================================================================
