-------------------------- MODULE TradingCoreBook --------------------------
(***************************************************************************)
(* What the account and the database say about the book, for every         *)
(* instance of TradingCore.  The properties the runs check speak of states *)
(* in which nothing is under way; the invariants here say what each        *)
(* coroutine still owes to the rows when something is.  With them and the  *)
(* limits, TradingCore implements PositionBook.                            *)
(***************************************************************************)
EXTENDS TradingCoreLimits

(***************************************************************************)
(* The steps of closers and scans, as far as rows and book can tell.       *)
(***************************************************************************)
KeepsResult == risk'.realized = risk.realized /\ risk'.trades = risk.trades

Pops(c) ==
  /\ exit[c].pc = "decided" /\ exit'[c].pc = "selling" /\ exit'[c].pos = exit[c].pos
  /\ exit[c].pos \in open /\ open' = open \ {exit[c].pos}
  /\ UNCHANGED <<status, book, trade, credited, risk, failures>>

Sells(c) ==
  /\ exit[c].pc = "selling" /\ exit'[c].pc = "sold" /\ exit'[c].pos = exit[c].pos
  /\ UNCHANGED <<status, book, trade, credited, open, risk, failures>>

ClosesRow(c) ==
  /\ exit[c].pc = "sold" /\ exit'[c].pc = "rowClosed" /\ exit'[c].pos = exit[c].pos
  /\ status' = [status EXCEPT ![exit[c].pos] = "CLOSED"]
  /\ UNCHANGED <<book, trade, credited, open, risk, failures>>

BooksTrade(c) ==
  /\ exit[c].pc = "rowClosed" /\ exit'[c].pc = "tradeWritten"
  /\ exit'[c].pos = exit[c].pos /\ exit'[c].pnl = exit[c].pnl
  /\ trade' = [trade EXCEPT ![exit[c].pos] = exit[c].pnl]
  /\ UNCHANGED <<status, book, credited, open, risk, failures>>

Credits(c) ==
  /\ exit[c].pc = "tradeWritten" /\ exit'[c].pc = "released"
  /\ exit'[c].pos = exit[c].pos
  /\ credited' = [credited EXCEPT ![exit[c].pos] = @ + 1]
  /\ risk' = Release(risk, book[exit[c].pos].premium, exit[c].pnl)
  /\ UNCHANGED <<status, book, trade, open, failures>>

\* After the credit: the halt and the reconcile.
Settles(c) ==
  /\ exit[c].pc \in {"released", "halting", "accounted", "syncing"}
  /\ exit'[c].pc \in {"halting", "accounted", "syncing", "synced"}
  /\ exit'[c].pos = exit[c].pos
  /\ exit'[c].pc # "synced" =>
       risk'.available = risk.available /\ risk'.deployed = risk.deployed
         /\ risk'.starting = risk.starting
  /\ exit'[c].pc = "synced" => Balanced(risk')
  /\ KeepsResult
  /\ UNCHANGED <<status, book, trade, credited, open, failures>>

Leaves(c) ==
  /\ exit[c].pc = "synced" /\ exit'[c].pc = "idle"
  /\ UNCHANGED <<status, book, trade, credited, open, risk, failures>>

Dies(c) ==
  /\ Popped(c) /\ exit'[c].pc = "idle" /\ failures' = failures + 1
  /\ UNCHANGED <<status, book, trade, credited, open, risk>>

\* Before it has popped anything.
Waits(c) ==
  /\ exit[c].pc \in {"idle", "decided"} /\ exit'[c].pc \in {"idle", "decided"}
  /\ UNCHANGED <<status, book, trade, credited, open, risk, failures>>

LEMMA ExitCases ==
  ASSUME TypeInv, NEW c \in Closers,
         ExitStep(c) \/ ExitRaises(c) \/ \E p \in Positions : DecideExit(c, p)
  PROVE  \/ Pops(c) \/ Sells(c) \/ ClosesRow(c) \/ BooksTrade(c) \/ Credits(c)
         \/ Settles(c) \/ Leaves(c) \/ Dies(c) \/ Waits(c)
<1>t. /\ exit \in [Closers -> ExitState] /\ exit[c] \in ExitState
      /\ risk \in RiskRow /\ exit[c].total \in Int
  BY DEF TypeInv, TypeOK, ExitState
<1>1. CASE PopPosition(c)
  <2>1. CASE exit[c].pos \in open
    BY <1>1, <1>t, <2>1 DEF PopPosition, Closing, Goto, Pops, ExitState, database
  <2>2. CASE exit[c].pos \notin open
    BY <1>1, <1>t, <2>2 DEF PopPosition, Closing, Waits, IdleExit, database
  <2> QED BY <2>1, <2>2
<1>2. CASE PlaceSellOrder(c)
  BY <1>2, <1>t DEF PlaceSellOrder, Closing, Sells, ExitState, memory, history
<1>3. CASE WritePositionClosed(c)
  BY <1>3, <1>t DEF WritePositionClosed, Closing, Goto, ClosesRow, ExitState, memory, history
<1>4. CASE WriteClosedTrade(c)
  BY <1>4, <1>t DEF WriteClosedTrade, Closing, Goto, BooksTrade, ExitState, memory, history
<1>5. CASE ReleaseCapital(c)
  BY <1>5, <1>t DEF ReleaseCapital, Closing, Goto, Credits, ExitState, memory, database
<1>6. CASE PostTradeCheck(c)
  <2>1. PICK pc \in {"halting", "accounted"} : exit' = [exit EXCEPT ![c].pc = pc]
    BY <1>6 DEF PostTradeCheck, Goto
  <2>2. exit'[c].pc = pc /\ exit'[c].pos = exit[c].pos
    BY <1>t, <2>1 DEF ExitState
  <2>3. exit[c].pc = "released"
        /\ UNCHANGED <<risk, status, book, trade, credited, open, failures>>
    BY <1>6 DEF PostTradeCheck, Closing, memory, database, history
  <2> QED BY <2>2, <2>3 DEF Settles, KeepsResult
<1>7. CASE HaltEntries(c)
  <2>1. exit'[c].pc = "accounted" /\ exit'[c].pos = exit[c].pos
    BY <1>7, <1>t DEF HaltEntries, Goto, ExitState
  <2>2. /\ exit[c].pc = "halting" /\ risk' = Halt(risk, "HALTED")
        /\ UNCHANGED <<status, book, trade, credited, open, failures>>
    BY <1>7 DEF HaltEntries, Closing, memory, database, history
  <2> QED BY <1>t, <2>1, <2>2, ResultKept, MoneyKept DEF Settles, KeepsResult
<1>8. CASE ReadBook(c)
  <2>1. exit'[c].pc = "syncing" /\ exit'[c].pos = exit[c].pos
    BY <1>8, <1>t DEF ReadBook, ExitState
  <2> QED BY <1>8, <2>1 DEF ReadBook, Closing, Settles, KeepsResult, memory, database, history
<1>9. CASE SyncExitMargin(c)
  <2>1. exit'[c].pc = "synced" /\ exit'[c].pos = exit[c].pos
    BY <1>9, <1>t DEF SyncExitMargin, Goto, ExitState
  <2>2. /\ exit[c].pc = "syncing" /\ risk' = Reconcile(risk, exit[c].total)
        /\ UNCHANGED <<status, book, trade, credited, open, failures>>
    BY <1>9 DEF SyncExitMargin, Closing, memory, database, history
  <2> QED BY <1>t, <2>1, <2>2, ResultKept, ReconcileBalances DEF Settles, KeepsResult
<1>10. CASE FinishExit(c)
  BY <1>10, <1>t DEF FinishExit, Closing, Leaves, IdleExit, database, history
<1>11. CASE ExitRaises(c)
  BY <1>11, <1>t DEF ExitRaises, Popped, Dies, IdleExit, memory, database, history
<1>12. ASSUME NEW p \in Positions, DecideExit(c, p) PROVE Waits(c)
  BY <1>12, <1>t DEF DecideExit, Closing, Waits, ExitState, memory, database, history
<1> QED
  BY <1>1, <1>2, <1>3, <1>4, <1>5, <1>6, <1>7, <1>8, <1>9, <1>10, <1>11, <1>12 DEF ExitStep

\* An entry owes the row a reconcile from its reserve to its end.
OwingPcs == {"ordering", "rejected", "filled", "journaled", "syncing", "unwinding"}

WritesRow(e, p) ==
  /\ entry[e].pc = "filled" /\ entry'[e].pc = "journaled" /\ entry'[e].pos = p
  /\ status[p] = "none" /\ status' = [status EXCEPT ![p] = "OPEN"]
  /\ book'[p].token = entry[e].token /\ \A q \in Positions \ {p} : book'[q] = book[q]
  /\ UNCHANGED <<trade, credited, open, risk, failures>>

RegistersRow(e) ==
  /\ entry[e].pc = "journaled" /\ entry'[e].pc = "syncing"
  /\ open' = open \cup {entry[e].pos}
  /\ UNCHANGED <<status, book, trade, credited, risk, failures>>

\* An await raises; the row, if there is one, stays OPEN.
Fails(e) ==
  /\ entry[e].pc \in OwingPcs /\ entry'[e].pc # "journaled"
  /\ failures' = failures + 1
  /\ UNCHANGED <<status, book, trade, credited, open, risk>>

\* No row and no position changes; a reserve is owed for, an end has reconciled.
Advances(e) ==
  /\ entry[e].pc # "journaled" /\ entry'[e].pc # "journaled"
  /\ \/ UNCHANGED risk /\ (entry[e].pc \in OwingPcs => entry'[e].pc \in OwingPcs)
     \/ KeepsResult /\ entry'[e].pc \in OwingPcs
     \/ KeepsResult /\ Balanced(risk')
  /\ UNCHANGED <<status, book, trade, credited, open, failures>>

LEMMA EntryWrites ==
  ASSUME TypeInv, NEW e \in Entrants, AcquireScan(e) \/ EntryStep(e)
  PROVE  \/ \E p \in Positions : WritesRow(e, p)
         \/ RegistersRow(e) \/ Fails(e) \/ Advances(e)
<1>t. /\ entry \in [Entrants -> EntryState] /\ entry[e] \in EntryState
      /\ book \in [Positions -> BookRow]
      /\ risk \in RiskRow /\ entry[e].total \in Int
  BY DEF TypeInv, TypeOK, EntryState
<1>1. CASE AcquireScan(e)
  BY <1>1, <1>t DEF AcquireScan, At, Advances, OwingPcs, EntryState, database, history
<1>2. CASE AbandonEntry(e)
  BY <1>2, <1>t
  DEF AbandonEntry, Finish, IdleEntry, Advances, OwingPcs, database, history
<1>3. ASSUME NEW t \in Tokens, ExecuteSignal(e, t) PROVE Advances(e)
  BY <1>3, <1>t DEF ExecuteSignal, At, Advances, OwingPcs, EntryState, database, history
<1>4. CASE CheckBlocked(e)
  BY <1>4, <1>t
  DEF CheckBlocked, At, Advances, OwingPcs, EntryState, memory, database, history
<1>5. CASE Validate(e)
  BY <1>5, <1>t
  DEF Validate, At, Advances, OwingPcs, EntryState, memory, database, history
<1>6. ASSUME NEW lots \in LotSizes, NEW price \in Prices, SizeEntry(e, lots, price)
      PROVE  Advances(e)
  BY <1>6, <1>t, SizeEntryFacts
  DEF SizeEntry, At, Advances, OwingPcs, TypeInv, memory, database, history
<1>7. CASE ReserveCapital(e)
  <2>1. entry[e].pc = "sized" /\ entry'[e].pc = "ordering"
    BY <1>7, <1>t DEF ReserveCapital, At, EntryState
  <2>2. /\ risk' = Reserve(risk, entry[e].premium)
        /\ UNCHANGED <<status, book, trade, credited, open, failures>>
    BY <1>7 DEF ReserveCapital, memory, database, history
  <2>3. KeepsResult
    BY <1>t, <2>2, ResultKept DEF KeepsResult
  <2> QED BY <2>1, <2>2, <2>3 DEF Advances, OwingPcs
<1>8. CASE PlaceBuyOrder(e)
  <2>1. entry[e].pc = "ordering"
        /\ UNCHANGED <<risk, status, book, trade, credited, open, failures>>
    BY <1>8 DEF PlaceBuyOrder, At, memory, database, history
  <2>2. entry'[e].pc \in {"filled", "rejected"}
    BY <1>8, <1>t, BuyOrderCases DEF BuysSome, TypeInv, EntryState
  <2> QED BY <2>1, <2>2 DEF Advances, OwingPcs
<1>9. ASSUME NEW p \in Positions, WritePositionOpened(e, p) PROVE WritesRow(e, p)
  <2>1. entry[e].pc = "filled" /\ entry'[e].pc = "journaled" /\ entry'[e].pos = p
    BY <1>9, <1>t DEF WritePositionOpened, At, EntryState
  <2>2. book'[p].token = entry[e].token /\ \A q \in Positions \ {p} : book'[q] = book[q]
    BY <1>9, <1>t DEF WritePositionOpened
  <2> QED BY <1>9, <2>1, <2>2 DEF WritePositionOpened, WritesRow, memory, history
<1>10. CASE RegisterOpen(e)
  <2>1. entry[e].pc = "journaled" /\ entry'[e].pc = "syncing"
    BY <1>10, <1>t DEF RegisterOpen, At, EntryState
  <2> QED BY <1>10, <2>1 DEF RegisterOpen, RegistersRow, database, history
<1>11. CASE EntryRaises(e)
  <2>1. entry'[e].pc = "unwinding"
        /\ UNCHANGED <<risk, status, book, trade, credited, open>>
    BY <1>11, <1>t DEF EntryRaises, EntryState, memory, database, history
  <2>2. CASE entry[e].pc = "rejected" /\ UNCHANGED failures
    BY <2>1, <2>2 DEF Advances, OwingPcs
  <2>3. CASE entry[e].pc # "rejected" \/ failures' # failures
    BY <1>11, <2>1, <2>3 DEF EntryRaises, At, Fails, OwingPcs
  <2> QED BY <2>2, <2>3
<1>12. CASE SyncEntryMargin(e)
  <2>1. entry[e].pc \in {"syncing", "unwinding"} /\ entry'[e].pc = "idle"
    BY <1>12, <1>t DEF SyncEntryMargin, Finish, IdleEntry
  <2>2. /\ risk' = Reconcile(risk, entry[e].total)
        /\ UNCHANGED <<status, book, trade, credited, open, failures>>
    BY <1>12 DEF SyncEntryMargin, database, history
  <2>3. KeepsResult /\ Balanced(risk')
    BY <1>t, <2>2, ResultKept, ReconcileBalances DEF KeepsResult
  <2> QED BY <2>1, <2>2, <2>3 DEF Advances
<1>13. CASE UnwindRaises(e)
  <2>1. entry[e].pc = "unwinding" /\ entry'[e].pc = "idle"
    BY <1>13, <1>t DEF UnwindRaises, At, Finish, IdleEntry
  <2> QED BY <1>13, <2>1 DEF UnwindRaises, Fails, OwingPcs, database, history
<1> QED
  BY <1>1, <1>2, <1>3, <1>4, <1>5, <1>6, <1>7, <1>8, <1>9, <1>10, <1>11, <1>12, <1>13
  DEF EntryStep

\* The endpoints and time change the row only, and keep a balanced one balanced.
Outside ==
  /\ UNCHANGED <<status, book, trade, credited, open, failures, entry, exit>>
  /\ KeepsResult /\ (Balanced(risk) => Balanced(risk'))

LEMMA OutsideSteps ==
  ASSUME TypeOK,
         \/ ReadSummaryRow \/ SummaryStep \/ CooldownElapses
         \/ \E enabled \in BOOLEAN : PressKillSwitch(enabled)
         \/ UNCHANGED vars
  PROVE  Outside
<1>t. risk \in RiskRow /\ summary.total \in Int
  BY DEF TypeOK, SummaryState
<1>1. CASE ReadSummaryRow \/ CompareSummary \/ CooldownElapses \/ UNCHANGED vars
  BY <1>1 DEF ReadSummaryRow, CompareSummary, CooldownElapses, vars, Outside,
     KeepsResult, memory, database, history
<1>2. CASE SyncSummaryMargin
  <2>1. /\ risk' = Reconcile(risk, summary.total)
        /\ UNCHANGED <<status, book, trade, credited, open, failures, entry, exit>>
    BY <1>2 DEF SyncSummaryMargin, memory, database, history
  <2> QED BY <1>t, <2>1, ResultKept, ReconcileBalances DEF Outside, KeepsResult
<1>3. ASSUME NEW enabled \in BOOLEAN, PressKillSwitch(enabled) PROVE Outside
  <2>1. /\ risk' = KillSwitch(risk, enabled)
        /\ UNCHANGED <<status, book, trade, credited, open, failures, entry, exit>>
    BY <1>3 DEF PressKillSwitch, memory, database, history
  <2>2. KeepsResult
    BY <1>t, <2>1, ResultKept DEF KeepsResult
  <2>3. Balanced(risk) => Balanced(risk')
    BY <1>t, <2>1, <2>2, MoneyKept DEF Balanced, Equity, KeepsResult
  <2> QED BY <2>1, <2>2, <2>3 DEF Outside
<1> QED BY <1>1, <1>2, <1>3 DEF SummaryStep

\* Every step is one of these, and leaves the other coroutines alone.
ScanWrites(e) ==
  /\ UNCHANGED exit /\ \A x \in Entrants \ {e} : entry'[x] = entry[x]
  /\ \/ \E p \in Positions : WritesRow(e, p)
     \/ RegistersRow(e) \/ Fails(e) \/ Advances(e)

CloseWrites(c) ==
  /\ UNCHANGED entry /\ \A x \in Closers \ {c} : exit'[x] = exit[x]
  /\ \/ Pops(c) \/ Sells(c) \/ ClosesRow(c) \/ BooksTrade(c) \/ Credits(c)
     \/ Settles(c) \/ Leaves(c) \/ Dies(c) \/ Waits(c)

LEMMA StepCases ==
  ASSUME TypeInv, [Next]_vars
  PROVE  \/ \E e \in Entrants : (AcquireScan(e) \/ EntryStep(e)) /\ ScanWrites(e)
         \/ \E c \in Closers : CloseWrites(c)
         \/ Outside
<1>t. TypeOK
  BY DEF TypeInv
<1>1. ASSUME NEW e \in Entrants, AcquireScan(e) \/ EntryStep(e) PROVE ScanWrites(e)
  <2>1. UNCHANGED exit /\ \A x \in Entrants \ {e} : entry'[x] = entry[x]
    BY <1>t, <1>1, EntryIsScanStep DEF ScanStep
  <2> QED BY <1>1, <2>1, EntryWrites DEF ScanWrites
<1>2. ASSUME NEW c \in Closers,
             ExitStep(c) \/ ExitRaises(c) \/ \E p \in Positions : DecideExit(c, p)
      PROVE  CloseWrites(c)
  <2>1. UNCHANGED entry
    BY <1>2, OthersLeaveScans
  <2>2. \A x \in Closers \ {c} : exit'[x] = exit[x]
    BY <1>t, <1>2, ExitFrame
  <2> QED BY <1>2, <2>1, <2>2, ExitCases DEF CloseWrites
<1>3. CASE \/ ReadSummaryRow \/ SummaryStep \/ CooldownElapses
           \/ \E enabled \in BOOLEAN : PressKillSwitch(enabled)
           \/ UNCHANGED vars
  BY <1>t, <1>3, OutsideSteps
<1> QED BY <1>1, <1>2, <1>3 DEF Next

-----------------------------------------------------------------------------
(***************************************************************************)
(* Memory and rows.                                                        *)
(***************************************************************************)
BeingSold(p) ==
  \E c \in Closers : exit[c].pc \in {"selling", "sold"} /\ exit[c].pos = p

\* As long as nothing failed, an OPEN row is that of a position in the book, of
\* one about to be registered, or of one that a closer has popped and not yet
\* marked CLOSED.
RowsOwned ==
  failures = 0 =>
    \A p \in Positions : status[p] = "OPEN" =>
      p \in open \/ (\E e \in Entrants : Entering(e, p)) \/ BeingSold(p)

LEMMA RowsOwnedNext ==
  ASSUME TypeInv, RowsOwned, [Next]_vars PROVE RowsOwned'
<1>t. /\ failures \in Nat /\ status \in [Positions -> {"none", "OPEN", "CLOSED"}]
      /\ \A c \in Closers : exit[c].pc # "idle" => exit[c].pos \in Positions
  BY DEF TypeInv, TypeOK, LocalsOK
<1> SUFFICES ASSUME failures' = 0, NEW p \in Positions, status'[p] = "OPEN"
             PROVE  (p \in open \/ (\E e \in Entrants : Entering(e, p)) \/ BeingSold(p))'
  BY DEF RowsOwned
<1>1. ASSUME NEW e \in Entrants, ScanWrites(e)
      PROVE  (p \in open \/ (\E x \in Entrants : Entering(x, p)) \/ BeingSold(p))'
  <2>1. \A x \in Entrants \ {e} : Entering(x, p) => Entering(x, p)'
    BY <1>1 DEF ScanWrites, Entering, At
  <2>2. BeingSold(p) => BeingSold(p)'
    BY <1>1 DEF ScanWrites, BeingSold
  <2>3. ASSUME NEW q \in Positions, WritesRow(e, q)
        PROVE  (p \in open \/ (\E x \in Entrants : Entering(x, p)) \/ BeingSold(p))'
    <3>1. CASE p = q
      BY <2>3, <3>1 DEF WritesRow, Entering, At
    <3>2. CASE p # q
      <4>1. status[p] = "OPEN" /\ ~Entering(e, p) /\ failures = 0 /\ open' = open
        BY <1>t, <2>3, <3>2 DEF WritesRow, Entering, At
      <4> QED BY <4>1, <2>1, <2>2 DEF RowsOwned
    <3> QED BY <3>1, <3>2
  <2>4. CASE RegistersRow(e)
    <3>1. status[p] = "OPEN" /\ failures = 0 /\ open \subseteq open'
          /\ (Entering(e, p) => p \in open')
      BY <2>4 DEF RegistersRow, Entering, At
    <3> QED BY <3>1, <2>1, <2>2 DEF RowsOwned
  <2>5. CASE Fails(e)
    BY <1>t, <2>5 DEF Fails
  <2>6. CASE Advances(e)
    <3>1. status[p] = "OPEN" /\ ~Entering(e, p) /\ failures = 0 /\ open' = open
      BY <2>6 DEF Advances, Entering, At
    <3> QED BY <3>1, <2>1, <2>2 DEF RowsOwned
  <2> QED BY <1>1, <2>3, <2>4, <2>5, <2>6 DEF ScanWrites
<1>2. ASSUME NEW c \in Closers, CloseWrites(c)
      PROVE  (p \in open \/ (\E x \in Entrants : Entering(x, p)) \/ BeingSold(p))'
  <2>1. (\E x \in Entrants : Entering(x, p)) => (\E x \in Entrants : Entering(x, p))'
    BY <1>2 DEF CloseWrites, Entering, At
  <2>2. ASSUME NEW x \in Closers \ {c}, exit[x].pc \in {"selling", "sold"}, exit[x].pos = p
        PROVE  BeingSold(p)'
    BY <1>2, <2>2 DEF CloseWrites, BeingSold
  <2>3. CASE ClosesRow(c)
    <3>1. exit[c].pos \in Positions /\ exit[c].pos # p
      BY <1>t, <2>3 DEF ClosesRow
    <3>2. status[p] = "OPEN" /\ failures = 0 /\ open' = open
      BY <1>t, <2>3, <3>1 DEF ClosesRow
    <3> QED BY <3>1, <3>2, <2>1, <2>2 DEF RowsOwned, BeingSold
  <2>4. CASE Pops(c)
    <3>1. status[p] = "OPEN" /\ failures = 0
      BY <2>4 DEF Pops
    <3>2. p = exit[c].pos => BeingSold(p)'
      BY <2>4 DEF Pops, BeingSold
    <3>3. p # exit[c].pos /\ p \in open => p \in open'
      BY <2>4 DEF Pops
    <3>4. exit[c].pc \notin {"selling", "sold"}
      BY <2>4 DEF Pops
    <3> QED BY <3>1, <3>2, <3>3, <3>4, <2>1, <2>2 DEF RowsOwned, BeingSold
  <2>5. CASE Sells(c)
    <3>1. status[p] = "OPEN" /\ failures = 0 /\ open' = open
      BY <2>5 DEF Sells
    <3>2. p = exit[c].pos => BeingSold(p)'
      BY <2>5 DEF Sells, BeingSold
    <3> QED BY <3>1, <3>2, <2>1, <2>2 DEF RowsOwned, BeingSold
  <2>6. CASE Dies(c)
    BY <1>t, <2>6 DEF Dies
  <2>7. CASE BooksTrade(c) \/ Credits(c) \/ Settles(c) \/ Leaves(c) \/ Waits(c)
    <3>1. /\ status[p] = "OPEN" /\ failures = 0 /\ open' = open
          /\ exit[c].pc \notin {"selling", "sold"}
      BY <2>7 DEF BooksTrade, Credits, Settles, Leaves, Waits
    <3> QED BY <3>1, <2>1, <2>2 DEF RowsOwned, BeingSold
  <2> QED BY <1>2, <2>3, <2>4, <2>5, <2>6, <2>7 DEF CloseWrites
<1>3. CASE Outside
  BY <1>3 DEF Outside, RowsOwned, BeingSold, Entering, At
<1> QED BY <1>1, <1>2, <1>3, StepCases

\* A position in memory has an OPEN row at every moment and after every failure;
\* when nothing is under way and nothing failed, rehydrate_open_positions would
\* read back exactly the book.
THEOREM BookMatchesDatabaseHolds == Spec => []BookMatchesDatabase
<1>1. Init => RowsOwned
  BY DEF Init, RowsOwned
<1>2. TypeInv /\ RowsOwned /\ [Next]_vars => RowsOwned'
  BY RowsOwnedNext
<1>3. PositionInv /\ RowsOwned => BookMatchesDatabase
  BY DEF PositionInv, OpenOK, RowsOwned, BookMatchesDatabase, Resting, BeingSold,
     Entering, At, Closing
<1> QED BY <1>1, <1>2, <1>3, TypeCorrect, OwnershipHolds, PTL DEF Spec

-----------------------------------------------------------------------------
(***************************************************************************)
(* The day's counters.                                                     *)
(***************************************************************************)
Credited == {p \in Positions : credited[p] > 0}

\* The counters of the row are those of the credited trades, whatever fails.
CountersOK ==
  risk.trades = Cardinality(Credited) /\ risk.realized = SumOver(trade, Credited)

\* A closer that has written a trade will credit that result.
ResultHeld ==
  \A c \in Closers : exit[c].pc = "tradeWritten" => trade[exit[c].pos] = exit[c].pnl

\* As long as nothing failed, a trade not yet credited has a closer that will.
TradesOwned ==
  failures = 0 =>
    \A p \in Positions : trade[p] # None /\ credited[p] = 0 =>
      \E c \in Closers : exit[c].pc = "tradeWritten" /\ exit[c].pos = p

LedgerInv == CountersOK /\ ResultHeld /\ TradesOwned

LEMMA CountersNext ==
  ASSUME TypeInv, PositionInv, LedgerInv, [Next]_vars PROVE CountersOK'
<1>t. /\ TypeOK /\ risk \in RiskRow /\ trade \in [Positions -> Pnls \cup {None}]
      /\ credited \in [Positions -> Nat] /\ Pnls \subseteq Int
      /\ \A c \in Closers : exit[c].pc # "idle" => exit[c].pos \in Positions
      /\ \A c \in Closers : exit[c].pc \in {"rowClosed", "tradeWritten"} => exit[c].pnl \in Pnls
  BY CoreAssumption DEF TypeInv, TypeOK, LocalsOK
<1>c. /\ risk.trades = Cardinality(Credited) /\ risk.realized = SumOver(trade, Credited)
      /\ Credited \in SUBSET Positions /\ IsFiniteSet(Credited)
      /\ \A p \in Credited : trade[p] \in Int
  <2>1. Credited \in SUBSET Positions /\ IsFiniteSet(Credited)
    BY CoreAssumption, FS_Subset DEF Credited
  <2>2. \A p \in Credited : trade[p] # None
    BY DEF PositionInv, RowsOK, Credited
  <2> QED BY <1>t, <2>1, <2>2 DEF LedgerInv, CountersOK
<1>u. ASSUME KeepsResult, UNCHANGED <<trade, credited>> PROVE CountersOK'
  BY <1>u, <1>c DEF KeepsResult, CountersOK, Credited
<1>1. ASSUME NEW e \in Entrants, ScanWrites(e) PROVE CountersOK'
  <2>1. KeepsResult /\ UNCHANGED <<trade, credited>>
    BY <1>1 DEF ScanWrites, WritesRow, RegistersRow, Fails, Advances, KeepsResult
  <2> QED BY <1>u, <2>1
<1>2. ASSUME NEW c \in Closers, CloseWrites(c) PROVE CountersOK'
  <2> DEFINE p == exit[c].pos
  <2>1. CASE BooksTrade(c)
    <3>1. /\ exit[c].pc = "rowClosed" /\ trade' = [trade EXCEPT ![p] = exit[c].pnl]
          /\ UNCHANGED <<credited, risk>>
      BY <2>1 DEF BooksTrade
    <3>2. WrittenAt(exit[c].pc, p)
      BY <3>1 DEF PositionInv, ClosingOK, Popped
    <3>3. credited[p] = 0
      BY <3>1, <3>2 DEF WrittenAt
    <3>4. \A q \in Credited : trade[q] = trade'[q] /\ trade[q] \in Int
      BY <1>t, <1>c, <3>1, <3>3 DEF Credited
    <3> HIDE DEF p
    <3>5. SumOver(trade, Credited) = SumOver(trade', Credited)
      BY <1>c, <3>4, SumSame
    <3>6. Credited' = Credited
      BY <3>1 DEF Credited
    <3> QED BY <1>c, <3>1, <3>5, <3>6 DEF CountersOK
  <2>2. CASE Credits(c)
    <3>1. /\ exit[c].pc = "tradeWritten" /\ trade' = trade
          /\ credited' = [credited EXCEPT ![p] = @ + 1]
          /\ risk' = Release(risk, book[p].premium, exit[c].pnl)
      BY <2>2 DEF Credits
    <3>2. WrittenAt(exit[c].pc, p) /\ p \in Positions
      BY <1>t, <3>1 DEF PositionInv, ClosingOK, Popped
    <3>3. credited[p] = 0 /\ trade[p] = exit[c].pnl /\ exit[c].pnl \in Int
      BY <1>t, <3>1, <3>2 DEF WrittenAt, LedgerInv, ResultHeld
    <3> DEFINE n == book[p].premium
               pnl == exit[c].pnl
    <3>4. risk'.realized = risk.realized + pnl /\ risk'.trades = risk.trades + 1
      <4> HIDE DEF n, pnl
      <4> QED BY <1>t, <3>1 DEF Release, RiskRow, n, pnl
    <3> HIDE DEF n, p
    <3>5. Credited' = Credited \cup {p} /\ p \notin Credited
      BY <1>t, <3>1, <3>2, <3>3 DEF Credited
    <3>6. Cardinality(Credited \cup {p}) = Cardinality(Credited) + 1
      BY <1>c, <3>5, FS_AddElement
    <3> DEFINE S == Credited \cup {p}
    <3>7. IsFiniteSet(S) /\ p \in S /\ S \ {p} = Credited /\ \A q \in S : trade[q] \in Int
      BY <1>c, <3>3, <3>5, FS_AddElement
    <3> HIDE DEF S
    <3>8. SumOver(trade, S) = SumOver(trade, S \ {p}) + trade[p]
      BY <3>7, SumRemove
    <3>9. SumOver(trade, Credited') = SumOver(trade, Credited) + pnl
      BY <3>3, <3>5, <3>7, <3>8 DEF S
    <3> QED BY <1>c, <3>1, <3>4, <3>5, <3>6, <3>9 DEF CountersOK
  <2>3. CASE ~BooksTrade(c) /\ ~Credits(c)
    <3>1. KeepsResult /\ UNCHANGED <<trade, credited>>
      BY <1>2, <2>3 DEF CloseWrites, Pops, Sells, ClosesRow, Settles, Leaves, Dies,
         Waits, KeepsResult
    <3> QED BY <1>u, <3>1
  <2> QED BY <2>1, <2>2, <2>3
<1>3. CASE Outside
  BY <1>u, <1>3 DEF Outside
<1> QED BY <1>1, <1>2, <1>3, StepCases

LEMMA TradesNext ==
  ASSUME TypeInv, PositionInv, LedgerInv, [Next]_vars PROVE ResultHeld' /\ TradesOwned'
<1>t. /\ failures \in Nat /\ trade \in [Positions -> Pnls \cup {None}]
      /\ credited \in [Positions -> Nat]
      /\ \A c \in Closers : exit[c].pc # "idle" => exit[c].pos \in Positions
  BY DEF TypeInv, TypeOK, LocalsOK
<1>u. ASSUME UNCHANGED <<exit, trade, credited>>, failures' = 0 => failures = 0
      PROVE  ResultHeld' /\ TradesOwned'
  BY <1>u DEF LedgerInv, ResultHeld, TradesOwned
<1>1. ASSUME NEW e \in Entrants, ScanWrites(e) PROVE ResultHeld' /\ TradesOwned'
  <2>1. UNCHANGED <<exit, trade, credited>> /\ (failures' = 0 => failures = 0)
    BY <1>t, <1>1 DEF ScanWrites, WritesRow, RegistersRow, Fails, Advances
  <2> QED BY <1>u, <2>1
<1>2. ASSUME NEW c \in Closers, CloseWrites(c) PROVE ResultHeld' /\ TradesOwned'
  <2>f. \A x \in Closers \ {c} : exit'[x] = exit[x]
    BY <1>2 DEF CloseWrites
  <2>1. CASE BooksTrade(c)
    <3> DEFINE p == exit[c].pos
    <3>1. /\ exit[c].pc = "rowClosed" /\ exit'[c].pc = "tradeWritten"
          /\ exit'[c].pos = p /\ exit'[c].pnl = exit[c].pnl
          /\ trade' = [trade EXCEPT ![p] = exit[c].pnl]
          /\ UNCHANGED <<credited, failures>>
      BY <2>1 DEF BooksTrade
    <3>2. p \in Positions /\ trade'[p] = exit'[c].pnl
          /\ \A q \in Positions \ {p} : trade'[q] = trade[q]
      BY <1>t, <3>1
    <3>3. \A x \in Closers \ {c} : exit[x].pc = "tradeWritten" =>
            exit[x].pos \in Positions \ {p}
      BY <1>t, <3>1 DEF PositionInv, OwnersDiffer, Popped
    <3>4. ResultHeld'
      BY <2>f, <3>1, <3>2, <3>3 DEF LedgerInv, ResultHeld
    <3>5. TradesOwned'
      <4> SUFFICES ASSUME failures' = 0, NEW q \in Positions,
                          trade'[q] # None, credited'[q] = 0
                   PROVE  \E x \in Closers : exit'[x].pc = "tradeWritten" /\ exit'[x].pos = q
        BY DEF TradesOwned
      <4>1. CASE q = p
        BY <3>1, <4>1
      <4>2. CASE q # p
        <5>1. PICK x \in Closers : exit[x].pc = "tradeWritten" /\ exit[x].pos = q
          BY <3>1, <3>2, <4>2 DEF LedgerInv, TradesOwned
        <5>2. x # c
          BY <3>1, <5>1
        <5> QED BY <2>f, <5>1, <5>2
      <4> QED BY <4>1, <4>2
    <3> QED BY <3>4, <3>5
  <2>2. CASE Credits(c)
    <3> DEFINE p == exit[c].pos
    <3>1. /\ exit[c].pc = "tradeWritten" /\ exit'[c].pc = "released"
          /\ credited' = [credited EXCEPT ![p] = @ + 1]
          /\ UNCHANGED <<trade, failures>>
      BY <2>2 DEF Credits
    <3>2. p \in Positions /\ credited'[p] # 0
          /\ \A q \in Positions \ {p} : credited'[q] = credited[q]
      BY <1>t, <3>1
    <3>3. ResultHeld'
      BY <2>f, <3>1 DEF LedgerInv, ResultHeld
    <3>4. TradesOwned'
      <4> SUFFICES ASSUME failures' = 0, NEW q \in Positions,
                          trade'[q] # None, credited'[q] = 0
                   PROVE  \E x \in Closers : exit'[x].pc = "tradeWritten" /\ exit'[x].pos = q
        BY DEF TradesOwned
      <4>1. q # p /\ credited[q] = 0 /\ trade[q] # None /\ failures = 0
        BY <3>1, <3>2
      <4>2. PICK x \in Closers : exit[x].pc = "tradeWritten" /\ exit[x].pos = q
        BY <4>1 DEF LedgerInv, TradesOwned
      <4>3. x # c
        BY <4>1, <4>2
      <4> QED BY <2>f, <4>2, <4>3
    <3> QED BY <3>3, <3>4
  <2>3. CASE Dies(c)
    <3>1. exit'[c].pc = "idle" /\ failures' # 0 /\ trade' = trade
      BY <1>t, <2>3 DEF Dies
    <3> QED BY <2>f, <3>1 DEF LedgerInv, ResultHeld, TradesOwned
  <2>4. CASE ~BooksTrade(c) /\ ~Credits(c) /\ ~Dies(c)
    <3>1. /\ exit[c].pc # "tradeWritten" /\ exit'[c].pc # "tradeWritten"
          /\ UNCHANGED <<trade, credited, failures>>
      BY <1>2, <2>4 DEF CloseWrites, Pops, Sells, ClosesRow, Settles, Leaves, Waits
    <3>2. ResultHeld'
      BY <2>f, <3>1 DEF LedgerInv, ResultHeld
    <3>3. TradesOwned'
      <4> SUFFICES ASSUME failures' = 0, NEW q \in Positions,
                          trade'[q] # None, credited'[q] = 0
                   PROVE  \E x \in Closers : exit'[x].pc = "tradeWritten" /\ exit'[x].pos = q
        BY DEF TradesOwned
      <4>1. PICK x \in Closers : exit[x].pc = "tradeWritten" /\ exit[x].pos = q
        BY <3>1 DEF LedgerInv, TradesOwned
      <4>2. x # c
        BY <3>1, <4>1
      <4> QED BY <2>f, <4>1, <4>2
    <3> QED BY <3>2, <3>3
  <2> QED BY <2>1, <2>2, <2>3, <2>4
<1>3. CASE Outside
  BY <1>u, <1>3 DEF Outside
<1> QED BY <1>1, <1>2, <1>3, StepCases

LEMMA LedgerInit == Init => LedgerInv
<1> SUFFICES ASSUME Init PROVE LedgerInv
  OBVIOUS
<1>1. Credited = {}
  BY DEF Init, Credited
<1>2. risk.trades = 0 /\ risk.realized = 0
  BY DEF Init, FreshRow
<1>3. Cardinality(Credited) = 0 /\ SumOver(trade, Credited) = 0
  BY <1>1, FS_EmptySet, SumEmpty
<1>4. ResultHeld /\ TradesOwned
  BY DEF Init, IdleExit, ResultHeld, TradesOwned
<1> QED BY <1>2, <1>3, <1>4 DEF LedgerInv, CountersOK

\* At rest and without a failure the row counts exactly the closed_trades rows,
\* although each credit is a statement of its own, awaits after its trade.
THEOREM LedgerMatchesTradesHolds == Spec => []LedgerMatchesTrades
<1>1. TypeInv /\ PositionInv /\ LedgerInv /\ [Next]_vars => LedgerInv'
  BY CountersNext, TradesNext DEF LedgerInv
<1>2. TypeInv /\ PositionInv /\ LedgerInv => LedgerMatchesTrades
  <2> SUFFICES ASSUME TypeInv, PositionInv, LedgerInv, failures = 0, Resting
               PROVE  LET closed == {p \in Positions : trade[p] # None} IN
                      /\ risk.trades = Cardinality(closed)
                      /\ risk.realized = SumOver(trade, closed)
    BY DEF LedgerMatchesTrades
  <2>1. \A p \in Positions : credited[p] > 0 <=> trade[p] # None
    <3>1. ASSUME NEW p \in Positions, trade[p] # None PROVE credited[p] # 0
      BY <3>1 DEF LedgerInv, TradesOwned, Resting, Closing
    <3>2. \A p \in Positions : credited[p] # 0 => credited[p] > 0
      BY DEF TypeInv, TypeOK
    <3> QED BY <3>1, <3>2 DEF PositionInv, RowsOK
  <2>2. {p \in Positions : trade[p] # None} = Credited
    BY <2>1 DEF Credited
  <2> QED BY <2>2 DEF LedgerInv, CountersOK
<1> QED BY LedgerInit, <1>1, <1>2, TypeCorrect, OwnershipHolds, PTL DEF Spec

-----------------------------------------------------------------------------
(***************************************************************************)
(* The account columns.                                                    *)
(***************************************************************************)
\* As long as nothing failed, columns that disagree are those of a reserve or a
\* release whose coroutine has its reconcile ahead.
BalanceOwed ==
  failures = 0 =>
    \/ Balanced(risk)
    \/ \E e \in Entrants : entry[e].pc \in OwingPcs
    \/ \E c \in Closers : exit[c].pc \in {"released", "halting", "accounted", "syncing"}

LEMMA BalanceNext ==
  ASSUME TypeInv, BalanceOwed, [Next]_vars PROVE BalanceOwed'
<1>t. failures \in Nat
  BY DEF TypeInv, TypeOK
<1>1. ASSUME NEW e \in Entrants, ScanWrites(e) PROVE BalanceOwed'
  <2>f. UNCHANGED exit /\ \A x \in Entrants \ {e} : entry'[x] = entry[x]
    BY <1>1 DEF ScanWrites
  <2>1. CASE Fails(e)
    BY <1>t, <2>1 DEF Fails, BalanceOwed
  <2>2. CASE entry'[e].pc \in OwingPcs
    BY <2>2 DEF BalanceOwed
  <2>3. CASE Advances(e) /\ entry'[e].pc \notin OwingPcs
    BY <2>f, <2>3 DEF Advances, BalanceOwed
  <2>4. (\E p \in Positions : WritesRow(e, p)) \/ RegistersRow(e) => entry'[e].pc \in OwingPcs
    BY DEF WritesRow, RegistersRow, OwingPcs
  <2> QED BY <1>1, <2>1, <2>2, <2>3, <2>4 DEF ScanWrites
<1>2. ASSUME NEW c \in Closers, CloseWrites(c) PROVE BalanceOwed'
  <2>f. UNCHANGED entry /\ \A x \in Closers \ {c} : exit'[x] = exit[x]
    BY <1>2 DEF CloseWrites
  <2>1. CASE Dies(c)
    BY <1>t, <2>1 DEF Dies, BalanceOwed
  <2>2. CASE Credits(c)
    BY <2>2 DEF Credits, BalanceOwed
  <2>3. CASE Settles(c)
    BY <2>3 DEF Settles, BalanceOwed
  <2>4. CASE Pops(c) \/ Sells(c) \/ ClosesRow(c) \/ BooksTrade(c) \/ Leaves(c) \/ Waits(c)
    <3>1. /\ exit[c].pc \notin {"released", "halting", "accounted", "syncing"}
          /\ UNCHANGED <<risk, failures>>
      BY <2>4 DEF Pops, Sells, ClosesRow, BooksTrade, Leaves, Waits
    <3> QED BY <2>f, <3>1 DEF BalanceOwed
  <2> QED BY <1>2, <2>1, <2>2, <2>3, <2>4 DEF CloseWrites
<1>3. CASE Outside
  BY <1>3 DEF Outside, BalanceOwed
<1> QED BY <1>1, <1>2, <1>3, StepCases

\* At rest and without a failure available = equity - deployed, whatever order
\* reserve, release and the three callers of reconcile_margin wrote them in.
THEOREM AvailableSettledHolds == Spec => []AvailableSettled
<1>1. Init => BalanceOwed
  <2> SUFFICES ASSUME Init PROVE Balanced(risk)
    BY DEF BalanceOwed
  <2>1. risk = FreshRow
    BY DEF Init
  <2> QED BY <2>1, CapitalAssumption DEF FreshRow, Balanced, Equity, AtLeastZero
<1>2. TypeInv /\ BalanceOwed /\ [Next]_vars => BalanceOwed'
  BY BalanceNext
<1>3. BalanceOwed => AvailableSettled
  BY DEF BalanceOwed, AvailableSettled, Resting, At, Closing, OwingPcs
<1> QED BY <1>1, <1>2, <1>3, TypeCorrect, PTL DEF Spec

-----------------------------------------------------------------------------
(***************************************************************************)
(* Every step is a step of the abstract book or none.                      *)
(***************************************************************************)
\* A scan that has a signal works on a contract, and so does every row.
TokensOK ==
  /\ \A e \in Entrants : entry[e].pc \notin {"idle", "scanning"} => entry[e].token \in Tokens
  /\ \A p \in Positions : status[p] # "none" => book[p].token \in Tokens

LEMMA EntryTokenKept ==
  ASSUME TypeInv, TokensOK, NEW e \in Entrants, AcquireScan(e) \/ EntryStep(e)
  PROVE  entry'[e].pc \notin {"idle", "scanning"} => entry'[e].token \in Tokens
<1>t. /\ entry \in [Entrants -> EntryState] /\ entry[e] \in EntryState
      /\ entry[e].pc \notin {"idle", "scanning"} => entry[e].token \in Tokens
  BY DEF TypeInv, TypeOK, TokensOK
<1>1. CASE AcquireScan(e)
  BY <1>1, <1>t DEF AcquireScan, EntryState
<1>2. CASE AbandonEntry(e) \/ SyncEntryMargin(e) \/ UnwindRaises(e)
  BY <1>2, <1>t DEF AbandonEntry, SyncEntryMargin, UnwindRaises, Finish, IdleEntry
<1>3. ASSUME NEW t \in Tokens, ExecuteSignal(e, t) PROVE entry'[e].token \in Tokens
  BY <1>3, <1>t DEF ExecuteSignal, EntryState
<1>4. CASE CheckBlocked(e)
  BY <1>4, <1>t DEF CheckBlocked, At, EntryState
<1>5. CASE Validate(e)
  BY <1>5, <1>t DEF Validate, At, EntryState
<1>6. ASSUME NEW lots \in LotSizes, NEW price \in Prices, SizeEntry(e, lots, price)
      PROVE  entry'[e].token \in Tokens
  BY <1>6, <1>t, SizeEntryFacts DEF SizeEntry, At, TypeInv
<1>7. CASE ReserveCapital(e)
  BY <1>7, <1>t DEF ReserveCapital, At, EntryState
<1>8. CASE PlaceBuyOrder(e)
  BY <1>8, <1>t, BuyOrderCases DEF BuysSome, PlaceBuyOrder, At, TypeInv, EntryState
<1>9. ASSUME NEW p \in Positions, WritePositionOpened(e, p) PROVE entry'[e].token \in Tokens
  BY <1>9, <1>t DEF WritePositionOpened, At, EntryState
<1>10. CASE RegisterOpen(e)
  BY <1>10, <1>t DEF RegisterOpen, At, EntryState
<1>11. CASE EntryRaises(e)
  BY <1>11, <1>t DEF EntryRaises, At, EntryState
<1> QED
  BY <1>1, <1>2, <1>3, <1>4, <1>5, <1>6, <1>7, <1>8, <1>9, <1>10, <1>11 DEF EntryStep

LEMMA TokensNext ==
  ASSUME TypeInv, PositionInv, TokensOK, [Next]_vars PROVE TokensOK'
<1>t. /\ status \in [Positions -> {"none", "OPEN", "CLOSED"}]
      /\ \A c \in Closers : exit[c].pc # "idle" => exit[c].pos \in Positions
  BY DEF TypeInv, TypeOK, LocalsOK
<1>1. ASSUME NEW e \in Entrants, AcquireScan(e) \/ EntryStep(e), ScanWrites(e)
      PROVE  TokensOK'
  <2>1. \A x \in Entrants : entry'[x].pc \notin {"idle", "scanning"} => entry'[x].token \in Tokens
    BY <1>1, EntryTokenKept DEF ScanWrites, TokensOK
  <2>2. ASSUME NEW p \in Positions, WritesRow(e, p)
        PROVE  \A q \in Positions : status'[q] # "none" => book'[q].token \in Tokens
    BY <1>t, <2>2 DEF WritesRow, TokensOK
  <2>3. CASE RegistersRow(e) \/ Fails(e) \/ Advances(e)
    BY <2>1, <2>3 DEF RegistersRow, Fails, Advances, TokensOK
  <2> QED BY <1>1, <2>1, <2>2, <2>3 DEF ScanWrites, TokensOK
<1>2. ASSUME NEW c \in Closers, CloseWrites(c) PROVE TokensOK'
  <2>1. UNCHANGED <<entry, book>>
    BY <1>2 DEF CloseWrites, Pops, Sells, ClosesRow, BooksTrade, Credits, Settles,
       Leaves, Dies, Waits
  <2>2. CASE ClosesRow(c)
    <3>1. exit[c].pos \in Positions /\ status' = [status EXCEPT ![exit[c].pos] = "CLOSED"]
      BY <1>t, <2>2 DEF ClosesRow
    <3>2. status[exit[c].pos] # "none"
      BY <2>2 DEF ClosesRow, PositionInv, ClosingOK, WrittenAt, Popped
    <3> QED BY <1>t, <2>1, <3>1, <3>2 DEF TokensOK
  <2>3. CASE ~ClosesRow(c)
    <3>1. UNCHANGED status
      BY <1>2, <2>3 DEF CloseWrites, Pops, Sells, BooksTrade, Credits, Settles,
         Leaves, Dies, Waits
    <3> QED BY <2>1, <3>1 DEF TokensOK
  <2> QED BY <2>2, <2>3
<1>3. CASE Outside
  BY <1>3 DEF Outside, TokensOK
<1> QED BY <1>1, <1>2, <1>3, StepCases

\* The arms of Stage exclude each other.
Staged ==
  \A p \in Positions :
    /\ Stage(p) = "settled" <=> credited[p] > 0
    /\ Stage(p) = "held" <=> p \in open
    /\ Stage(p) = "leaving" <=> Leaving(p)
    /\ Stage(p) = "none" <=> Unborn(p)
    /\ Stage(p) \in {"none", "held", "leaving", "settled", "lost"}

LEMMA StageIs == TypeInv /\ PositionInv => Staged
<1> SUFFICES ASSUME TypeInv, PositionInv, NEW p \in Positions
             PROVE  /\ Stage(p) = "settled" <=> credited[p] > 0
                    /\ Stage(p) = "held" <=> p \in open
                    /\ Stage(p) = "leaving" <=> Leaving(p)
                    /\ Stage(p) = "none" <=> Unborn(p)
                    /\ Stage(p) \in {"none", "held", "leaving", "settled", "lost"}
  BY DEF Staged
<1>1. credited[p] > 0 => p \notin open /\ ~Leaving(p) /\ ~Unborn(p)
  BY DEF PositionInv, RowsOK, OpenOK, EnteringOK, Untouched, Leaving, Unborn, Entering, At
<1>2. p \in open => ~Leaving(p) /\ ~Unborn(p)
  BY DEF PositionInv, OpenOK, EnteringOK, ClosingOK, WrittenAt, Leaving, Unborn, Entering, At
<1>3. Leaving(p) => ~Unborn(p)
  BY DEF PositionInv, ClosingOK, OwnersDiffer, WrittenAt, Leaving, Unborn, Entering, At
<1> QED BY <1>1, <1>2, <1>3 DEF Stage

\* Position p moves to stage s, and no other moves.
Moves(p, s) ==
  /\ Stage(p)' = s
  /\ \A q \in Positions \ {p} :
       /\ Stage(q)' = Stage(q)
       /\ Stage(q) # "none" => book'[q].token = book[q].token

StandsStill ==
  \A q \in Positions :
    /\ Stage(q)' = Stage(q)
    /\ Stage(q) # "none" => book'[q].token = book[q].token

LEMMA MovesMaps ==
  ASSUME NEW p \in Positions, NEW s, Moves(p, s), s # "none"
  PROVE  /\ [q \in Positions |-> Stage(q)]' = [[q \in Positions |-> Stage(q)] EXCEPT ![p] = s]
         /\ [q \in Positions |-> IF Stage(q) = "none" THEN None ELSE book[q].token]'
              = [[q \in Positions |-> IF Stage(q) = "none" THEN None ELSE book[q].token]
                   EXCEPT ![p] = book'[p].token]
BY DEF Moves

LEMMA StillMaps ==
  ASSUME StandsStill, KeepsResult PROVE UNCHANGED Book!vars
BY DEF StandsStill, KeepsResult, Book!vars

\* A step that changes none of what the stages are read from.
LEMMA StageKept ==
  ASSUME Staged, Staged', NEW q \in Positions,
         credited'[q] = credited[q], q \in open' <=> q \in open,
         Leaving(q)' <=> Leaving(q), Unborn(q)' <=> Unborn(q)
  PROVE  Stage(q)' = Stage(q)
BY DEF Staged

\* The instance brings its own copy of the library's definition.
LEMMA SameCardinality == ASSUME NEW S PROVE Book!Cardinality(S) = Cardinality(S)
BY DEF Cardinality, Book!Cardinality

\* Steps of a scan: register_open opens the position its row was written for;
\* a failure between the two loses it.
LEMMA ScanMaps ==
  ASSUME TypeInv, LockInv, PositionInv, TokenInv, PositionLimitHeld, TokensOK,
         Staged, Staged', NEW e \in Entrants, ScanWrites(e)
  PROVE  [Book!Next]_(Book!vars)
<1>t. /\ open \in SUBSET Positions
      /\ \A x \in Entrants : entry[x].pc = "journaled" => entry[x].pos \in Positions
  BY DEF TypeInv, TypeOK, LocalsOK
<1>l. \A q \in Positions : credited'[q] = credited[q] => (Leaving(q)' <=> Leaving(q))
  BY DEF ScanWrites, Leaving, Popped
<1>o. entry[e].pc # "idle" => \A x \in Entrants, q \in Positions : Entering(x, q) => x = e
  BY OneScan DEF Entering, At
<1>n. entry[e].pc # "idle" => \A x \in Entrants, q \in Positions : Entering(x, q)' => x = e
  BY OneScan DEF Entering, At, ScanWrites
<1>1. ASSUME NEW p \in Positions, WritesRow(e, p) PROVE [Book!Next]_(Book!vars)
  <2>1. /\ entry[e].pc = "filled" /\ status[p] = "none"
        /\ Entering(e, p)' /\ \A q \in Positions : ~Entering(e, q)
        /\ \A q \in Positions \ {p} : ~Entering(e, q)'
        /\ \A q \in Positions \ {p} : book'[q] = book[q] /\ (status'[q] = "none" <=> status[q] = "none")
        /\ UNCHANGED <<credited, open, risk>>
    BY <1>1 DEF WritesRow, Entering, At
  <2>2. \A q \in Positions : Unborn(q)' <=> Unborn(q)
    BY <1>o, <1>n, <2>1 DEF Unborn
  <2>3. StandsStill
    BY <1>l, <2>1, <2>2, StageKept DEF StandsStill, Staged, Unborn
  <2>4. KeepsResult
    BY <2>1 DEF KeepsResult
  <2> QED BY <2>3, <2>4, StillMaps
<1>2. CASE RegistersRow(e)
  <2>0. PICK p \in Positions : p = entry[e].pos
    BY <1>t, <1>2 DEF RegistersRow
  <2>1. /\ p \in Positions /\ p \notin open /\ Entering(e, p) /\ entry[e].pc = "journaled"
        /\ \A q \in Positions : ~Entering(e, q)'
        /\ \A q \in Positions \ {p} : ~Entering(e, q)
        /\ open' = open \cup {p}
        /\ UNCHANGED <<status, credited, book, risk>>
    BY <2>0, <1>2 DEF RegistersRow, Entering, At, PositionInv, EnteringOK
  <2>2. \A q \in Positions \ {p} : Unborn(q)' <=> Unborn(q)
    BY <1>o, <1>n, <2>1 DEF Unborn
  <2>3. Stage(p) = "none" /\ Stage(p)' = "held"
    BY <2>1 DEF Staged, Unborn
  <2>4. Moves(p, "held")
    BY <1>l, <2>1, <2>2, <2>3, StageKept DEF Moves
  <2>5. MaxPositions > 0 => Cardinality(open) < MaxPositions
    <3>1. Pending \in SUBSET {e}
      BY <2>1, OneScan DEF Pending
    <3>2. e \in Pending
      BY <2>1 DEF Pending
    <3>3. Cardinality(Pending) = 1
      BY <3>1, <3>2, PendingOne DEF Pending
    <3>4. Cardinality(open) \in Nat
      BY <1>t, CoreAssumption, FS_Subset, FS_CardinalityType
    <3> QED BY <3>3, <3>4, LimitsAssumption DEF PositionLimitHeld
  <2>6. /\ \A q \in open : book[q].token # book[p].token
        /\ book[p].token \in Tokens
    <3>1. ~HasOpenForToken(entry[e].token) /\ book[p].token = entry[e].token
      BY <2>1 DEF TokenInv, EntryGuarded, Entering, At, PendingPcs
    <3>2. status[p] = "OPEN"
      BY <2>1 DEF PositionInv, EnteringOK, Entering, At
    <3> QED BY <3>1, <3>2, <2>1 DEF HasOpenForToken, TokensOK
  <2>7. Book!Held = open
    BY <1>t DEF Book!Held, Staged
  <2>8. PICK t \in Tokens : t = book[p].token
    BY <2>6
  <2>9. Book!Open(p, t)
    <3>1. \A q \in open : Stage(q) # "none" /\ q \in Positions /\ book[q].token # t
      BY <1>t, <2>6, <2>8 DEF Staged
    <3>2. book'[p].token = t /\ UNCHANGED <<risk.realized, risk.trades>>
      BY <2>1, <2>8
    <3>3. \A q \in Book!Held : [x \in Positions |->
             IF Stage(x) = "none" THEN None ELSE book[x].token][q] # t
      BY <2>7, <3>1
    <3>4. [x \in Positions |-> Stage(x)][p] = "none"
      BY <2>1, <2>3
    <3>5. /\ [x \in Positions |-> Stage(x)]' = [[x \in Positions |-> Stage(x)] EXCEPT ![p] = "held"]
          /\ [x \in Positions |-> IF Stage(x) = "none" THEN None ELSE book[x].token]'
               = [[x \in Positions |-> IF Stage(x) = "none" THEN None ELSE book[x].token]
                    EXCEPT ![p] = t]
      BY <2>4, <3>2, MovesMaps
    <3>6. MaxPositions > 0 => Book!Cardinality(Book!Held) < MaxPositions
      BY <2>5, <2>7, SameCardinality
    <3> QED BY <3>2, <3>3, <3>4, <3>5, <3>6 DEF Book!Open
  <2> QED BY <2>1, <2>9 DEF Book!Next
<1>3. CASE Fails(e)
  <2>1. /\ entry[e].pc \in OwingPcs /\ UNCHANGED <<status, credited, open, book, risk>>
        /\ \A q \in Positions : ~Entering(e, q)'
    BY <1>3 DEF Fails, Entering, At
  <2>2. KeepsResult
    BY <2>1 DEF KeepsResult
  <2>3. CASE entry[e].pc # "journaled"
    <3>1. \A q \in Positions : Unborn(q)' <=> Unborn(q)
      BY <1>o, <1>n, <2>1, <2>3 DEF Unborn, Entering, At, OwingPcs
    <3>2. StandsStill
      BY <1>l, <2>1, <3>1, StageKept DEF StandsStill
    <3> QED BY <2>2, <3>2, StillMaps
  <2>4. CASE entry[e].pc = "journaled"
    <3>0. PICK p \in Positions : p = entry[e].pos
      BY <1>t, <2>4
    <3>1. /\ p \in Positions /\ p \notin open /\ Entering(e, p)
          /\ status[p] = "OPEN" /\ credited[p] = 0
          /\ \A q \in Positions \ {p} : ~Entering(e, q)
          /\ \A c \in Closers : Popped(c) => exit[c].pos # p
      BY <2>4, <3>0 DEF Entering, At, PositionInv, EnteringOK, Untouched, OwnersDiffer
    <3>2. \A q \in Positions \ {p} : Unborn(q)' <=> Unborn(q)
      BY <1>o, <1>n, <2>1, <2>4, <3>1 DEF Unborn
    <3>3. ~Unborn(p)' /\ ~Leaving(p)'
      BY <1>l, <1>n, <2>1, <2>4, <3>1 DEF Unborn, Leaving
    <3>4. Stage(p) = "none" /\ Stage(p)' = "lost"
      BY <2>1, <3>1, <3>3 DEF Staged, Unborn
    <3>5. Moves(p, "lost")
      BY <1>l, <2>1, <3>1, <3>2, <3>4, StageKept DEF Moves
    <3>6. book[p].token \in Tokens
      BY <3>1 DEF TokensOK
    <3>7. Book!Lose(p)
      BY <2>1, <2>2, <3>1, <3>4, <3>5, <3>6, MovesMaps DEF Book!Lose, KeepsResult
    <3> QED BY <3>1, <3>7 DEF Book!Next
  <2> QED BY <2>3, <2>4
<1>4. CASE Advances(e)
  <2>1. /\ \A q \in Positions : ~Entering(e, q) /\ ~Entering(e, q)'
        /\ UNCHANGED <<status, credited, open, book>> /\ KeepsResult
    BY <1>4 DEF Advances, Entering, At, KeepsResult
  <2>2. \A q \in Positions : Unborn(q)' <=> Unborn(q)
    BY <1>1, <2>1 DEF Unborn, ScanWrites, Entering, At
  <2>3. StandsStill
    BY <1>l, <2>1, <2>2, StageKept DEF StandsStill
  <2> QED BY <2>1, <2>3, StillMaps
<1> QED BY <1>1, <1>2, <1>3, <1>4 DEF ScanWrites

\* Steps of a closer: the pop leaves, release_capital settles, and a failure
\* between the two loses the position.
LEMMA CloseMaps ==
  ASSUME TypeInv, PositionInv, TokensOK, Staged, Staged',
         NEW c \in Closers, CloseWrites(c), NEW p, exit[c].pos = p
  PROVE  [Book!Next]_(Book!vars)
<1>t. /\ risk \in RiskRow
      /\ exit[c].pc # "idle" => p \in Positions
      /\ exit[c].pc = "tradeWritten" => exit[c].pnl \in Pnls
  BY DEF TypeInv, TypeOK, LocalsOK
<1>e. \A q \in Positions, x \in Entrants : Entering(x, q)' <=> Entering(x, q)
  BY DEF CloseWrites, Entering, At
<1>f. \A x \in Closers \ {c} : exit'[x] = exit[x]
  BY DEF CloseWrites
<1>p. \A x \in Closers \ {c} : Popped(x)' <=> Popped(x)
  BY <1>f DEF Popped
<1>w. Popped(c) => WrittenAt(exit[c].pc, p)
  BY DEF PositionInv, ClosingOK
<1>u. ASSUME NEW q \in Positions, status'[q] = "none" <=> status[q] = "none"
      PROVE  Unborn(q)' <=> Unborn(q)
  BY <1>e, <1>u DEF Unborn
<1>q. ASSUME NEW q \in Positions, q # p \/ ~Popped(c), credited'[q] = credited[q],
             Popped(c)' => exit'[c].pos # q
      PROVE  Leaving(q)' <=> Leaving(q)
  BY <1>f, <1>p, <1>q DEF Leaving
<1>1. CASE Pops(c)
  <2>1. /\ p \in Positions /\ p \in open /\ open' = open \ {p}
        /\ Popped(c)' /\ exit'[c].pos = p /\ ~Popped(c) /\ credited'[p] = 0
        /\ UNCHANGED <<status, credited, book, risk>>
    BY <1>t, <1>1 DEF Pops, Popped, PositionInv, OpenOK, Untouched
  <2>2. Stage(p) = "held" /\ Stage(p)' = "leaving"
    BY <2>1 DEF Staged, Leaving
  <2>3. \A q \in Positions \ {p} : Stage(q)' = Stage(q)
    BY <1>u, <1>q, <2>1, StageKept
  <2>4. Moves(p, "leaving")
    BY <2>1, <2>2, <2>3 DEF Moves
  <2>5. Book!Leave(p)
    BY <2>1, <2>2, <2>4, MovesMaps DEF Book!Leave
  <2> QED BY <2>1, <2>5 DEF Book!Next
<1>2. CASE Credits(c)
  <2>1. /\ exit[c].pc = "tradeWritten" /\ exit'[c].pc = "released"
        /\ credited' = [credited EXCEPT ![p] = @ + 1]
        /\ risk' = Release(risk, book[p].premium, exit[c].pnl)
        /\ UNCHANGED <<status, open, book>> /\ p \in Positions
        /\ Popped(c) /\ Popped(c)' /\ exit'[c].pos = p
    BY <1>t, <1>2 DEF Credits, Popped
  <2>2. credited[p] = 0 /\ credited'[p] = 1
        /\ \A q \in Positions \ {p} : credited'[q] = credited[q]
    BY <1>w, <2>1 DEF WrittenAt, TypeInv, TypeOK
  <2>3. Stage(p) = "leaving" /\ Stage(p)' = "settled"
    BY <2>1, <2>2 DEF Staged, Leaving
  <2>4. \A q \in Positions \ {p} : Stage(q)' = Stage(q)
    BY <1>u, <1>q, <2>1, <2>2, StageKept
  <2>5. Moves(p, "settled")
    BY <2>1, <2>3, <2>4 DEF Moves
  <2>6. PICK pnl \in Pnls : pnl = exit[c].pnl
    BY <1>t, <2>1
  <2>7. risk'.realized = risk.realized + pnl /\ risk'.trades = risk.trades + 1
    <3> DEFINE n == book[p].premium
    <3>1. risk' = Release(risk, n, pnl) BY <2>1, <2>6
    <3> HIDE DEF n
    <3> QED BY <1>t, <3>1 DEF Release, RiskRow
  <2>8. Book!Settle(p, pnl)
    BY <2>1, <2>3, <2>5, <2>7, MovesMaps DEF Book!Settle
  <2> QED BY <2>1, <2>8 DEF Book!Next
<1>3. CASE Leaves(c) \/ Dies(c)
  <2>1. /\ Popped(c) /\ ~Popped(c)' /\ p \in Positions
        /\ UNCHANGED <<status, credited, open, book, risk>>
    BY <1>t, <1>3 DEF Leaves, Dies, Popped
  <2>2. KeepsResult
    BY <2>1 DEF KeepsResult
  <2>3. \A q \in Positions \ {p} : Stage(q)' = Stage(q)
    BY <1>u, <1>q, <2>1, StageKept
  <2>4. CASE credited[p] > 0
    <3>1. Stage(p)' = Stage(p)
      BY <2>1, <2>4 DEF Staged
    <3>2. StandsStill
      BY <2>1, <2>3, <3>1 DEF StandsStill
    <3> QED BY <2>2, <3>2, StillMaps
  <2>5. CASE ~(credited[p] > 0)
    <3>1. credited[p] = 0
      BY <2>1, <2>5 DEF TypeInv, TypeOK
    <3>2. Leaving(p) /\ status[p] # "none" /\ p \notin open
      BY <1>w, <2>1, <3>1 DEF Leaving, WrittenAt
    <3>3. \A x \in Closers \ {c} : Popped(x) => exit[x].pos # p
      BY <2>1 DEF PositionInv, OwnersDiffer
    <3>4. ~Leaving(p)'
      BY <1>f, <1>p, <2>1, <3>3 DEF Leaving
    <3>5. ~Unborn(p) /\ ~Unborn(p)'
      BY <1>u, <2>1, <3>2 DEF Staged
    <3>6. Stage(p) = "leaving" /\ Stage(p)' = "lost"
      BY <2>1, <2>5, <3>2, <3>4, <3>5 DEF Staged
    <3>7. Moves(p, "lost")
      BY <2>1, <2>3, <3>6 DEF Moves
    <3>8. book[p].token \in Tokens
      BY <2>1, <3>2 DEF TokensOK
    <3>9. Book!Lose(p)
      BY <2>1, <2>2, <3>6, <3>7, <3>8, MovesMaps DEF Book!Lose, KeepsResult
    <3> QED BY <2>1, <3>9 DEF Book!Next
  <2> QED BY <2>4, <2>5
<1>4. CASE Sells(c) \/ ClosesRow(c) \/ BooksTrade(c) \/ Settles(c) \/ Waits(c)
  <2>1. /\ UNCHANGED <<credited, open, book>> /\ KeepsResult
        /\ \A q \in Positions : status'[q] = "none" <=> status[q] = "none"
        /\ Popped(c)' <=> Popped(c)
        /\ Popped(c) => exit'[c].pos = p
    <3>1. CASE ClosesRow(c)
      <4>1. status[p] # "none" /\ p \in Positions /\ status' = [status EXCEPT ![p] = "CLOSED"]
        BY <1>t, <1>w, <3>1 DEF ClosesRow, WrittenAt, Popped
      <4>2. status \in [Positions -> {"none", "OPEN", "CLOSED"}]
        BY DEF TypeInv, TypeOK
      <4> QED BY <3>1, <4>1, <4>2 DEF ClosesRow, Popped, KeepsResult
    <3>2. CASE Sells(c) \/ BooksTrade(c) \/ Settles(c) \/ Waits(c)
      BY <3>2 DEF Sells, BooksTrade, Settles, Waits, Popped, KeepsResult
    <3> QED BY <1>4, <3>1, <3>2
  <2>2. \A q \in Positions : Leaving(q)' <=> Leaving(q)
    BY <1>f, <1>p, <2>1 DEF Leaving
  <2>3. StandsStill
    BY <1>u, <2>1, <2>2, StageKept DEF StandsStill
  <2> QED BY <2>1, <2>3, StillMaps
<1> QED BY <1>1, <1>2, <1>3, <1>4 DEF CloseWrites

LEMMA OutsideMaps ==
  ASSUME Staged, Staged', Outside PROVE UNCHANGED Book!vars
<1>1. \A q \in Positions : (Leaving(q)' <=> Leaving(q)) /\ (Unborn(q)' <=> Unborn(q))
  BY DEF Outside, Leaving, Unborn, Popped, Entering, At
<1>2. StandsStill
  BY <1>1, StageKept DEF Outside, StandsStill
<1> QED BY <1>2, StillMaps DEF Outside

LEMMA BookInit == Init => Book!Init
<1> SUFFICES ASSUME Init PROVE Book!Init
  OBVIOUS
<1>1. \A p \in Positions : Unborn(p) /\ credited[p] = 0 /\ p \notin open /\ ~Leaving(p)
  BY DEF Init, Unborn, Leaving, Popped, IdleExit
<1>2. \A p \in Positions : Stage(p) = "none"
  BY <1>1 DEF Stage
<1>3. risk.realized = 0 /\ risk.trades = 0
  BY DEF Init, FreshRow
<1> QED BY <1>2, <1>3 DEF Book!Init

LEMMA BookNext ==
  ASSUME TypeInv, LockInv, PositionInv, TokenInv, PositionLimitHeld, TokensOK,
         Staged, Staged', [Next]_vars
  PROVE  [Book!Next]_(Book!vars)
<1>1. ASSUME NEW e \in Entrants, ScanWrites(e) PROVE [Book!Next]_(Book!vars)
  BY <1>1, ScanMaps
<1>2. ASSUME NEW c \in Closers, CloseWrites(c) PROVE [Book!Next]_(Book!vars)
  <2>1. PICK p : exit[c].pos = p
    OBVIOUS
  <2> QED BY <1>2, <2>1, CloseMaps
<1>3. CASE Outside
  BY <1>3, OutsideMaps
<1> QED BY <1>1, <1>2, <1>3, StepCases

\* Whatever the interleaving and whatever fails, the engine is a PositionBook:
\* each position opens within the limits, leaves, and is settled once or lost,
\* and realized_pnl and the trade count move at the settlement and only then.
THEOREM ImplementsBookHolds == Spec => ImplementsBook
<1>1. Init => TokensOK
  BY DEF Init, TokensOK, IdleEntry
<1>2. TypeInv /\ PositionInv /\ TokensOK /\ [Next]_vars => TokensOK'
  BY TokensNext
<1>3. Init => TokenInv
  BY DEF Init, TokenInv, OnePositionPerToken, EntryGuarded, IdleEntry, PendingPcs
<1>4. TypeInv /\ LockInv /\ PositionInv /\ TokenInv /\ [Next]_vars => TokenInv'
  BY TokenNext
<1>5. /\ TypeInv /\ LockInv /\ PositionInv /\ TokenInv /\ PositionLimitHeld
      /\ TokensOK /\ Staged /\ Staged' /\ [Next]_vars
      => [Book!Next]_(Book!vars)
  BY BookNext
<1> QED
  BY <1>1, <1>2, <1>3, <1>4, <1>5, BookInit, StageIs, TypeCorrect,
     OwnershipHolds, PositionLimitHolds, PTL DEF Spec, ImplementsBook, Book!Spec
=============================================================================
