---------------------------- MODULE TradingCore ----------------------------
(***************************************************************************)
(* The paper book of one trading day, without restarts: the scan loops     *)
(* that open positions, the callers that close them, the risk row they     *)
(* share, and the market-summary endpoint that reconciles the row.         *)
(*                                                                         *)
(* The engine is one asyncio loop.  A coroutine runs undisturbed from one  *)
(* await to the next, so each action is such a segment, or the database    *)
(* statement between two of them, and any other coroutine may step in      *)
(* between.  A statement commits before its coroutine is resumed.          *)
(***************************************************************************)
EXTENDS CircuitBreakers, Sums

CONSTANTS Positions,      \* ids the database hands out
          Tokens,         \* instrument tokens
          Entrants,       \* coroutines that scan: periodic loop, quote handlers
          Closers,        \* coroutines that close: quote handlers, exit endpoint
          None,
          LotSizes,       \* lots an order may ask for
          Prices,         \* premium of one lot, when sized and when filled
          Pnls,           \* net result of a closed position
          TradePct, DeployPct, CombinedPct, MinFillPct,
          MaxFailures,    \* bound: awaits that raise
          MaxKillPresses  \* bound: calls of the kill-switch endpoint

ASSUME CoreAssumption ==
  /\ IsFiniteSet(Positions)
  /\ LotSizes \subseteq Nat \ {0} /\ Prices \subseteq Nat \ {0}
  /\ Pnls \subseteq Int
  /\ {TradePct, DeployPct, CombinedPct, MinFillPct} \subseteq Nat
  /\ MaxFailures \in Nat /\ MaxKillPresses \in Nat
  /\ None \notin Positions \cup Tokens \cup Entrants \cup RiskRow \cup Pnls

VARIABLES
  risk,        \* daily_risk_state: today's row
  status,      \* positions.status
  book,        \* the position's token, lots and premium (row, OpenPosition)
  trade,       \* closed_trades: the pnl booked for a position
  sells,       \* orders: number of SELL orders of a position
  sold,        \* orders: lots those orders filled
  open,        \* PositionManager._open
  inCooldown,  \* _last_exit_any lies within the cooldown
  scanLock,    \* holder of TradingOrchestrator._scan_lock
  entering,    \* _entering_tokens
  entry,       \* the local state of each entrant
  exit,        \* the local state of each closer
  summary,     \* the local state of the market-summary endpoint
  failures, killPresses,   \* counters for the bounds
  recentExit,  \* history: a position left the book within the cooldown
  credited     \* history: how often release_capital ran for a position

database == <<status, book, trade, sells, sold>>
memory   == <<open, inCooldown, scanLock, entering>>
history  == <<recentExit, credited>>
vars == <<risk, status, book, trade, sells, sold, open, inCooldown, scanLock,
          entering, entry, exit, summary, failures, killPresses,
          recentExit, credited>>

EntryPcs == {"idle", "scanning", "checking", "validating", "sizing", "sized",
             "ordering", "rejected", "filled", "journaled", "syncing", "unwinding"}
ExitPcs  == {"idle", "decided", "selling", "sold", "rowClosed", "tradeWritten",
             "released", "halting", "accounted", "syncing", "synced"}

\* asked: the lots the order asked for; lots: those it was filled for.
IdleEntry == [pc |-> "idle", token |-> None, asked |-> 0, lots |-> 0, premium |-> 0,
              snap |-> None, pos |-> None, total |-> 0]
IdleExit  == [pc |-> "idle", pos |-> None, pnl |-> 0, total |-> 0]
IdleSummary == [pc |-> "idle", deployed |-> 0, total |-> 0]

Init ==
  /\ risk = FreshRow
  /\ status = [p \in Positions |-> "none"]
  /\ book = [p \in Positions |-> [token |-> None, lots |-> 0, premium |-> 0]]
  /\ trade = [p \in Positions |-> None]
  /\ sells = [p \in Positions |-> 0]
  /\ sold = [p \in Positions |-> 0]
  /\ open = {}
  /\ inCooldown = FALSE
  /\ scanLock = None
  /\ entering = {}
  /\ entry = [e \in Entrants |-> IdleEntry]
  /\ exit = [c \in Closers |-> IdleExit]
  /\ summary = IdleSummary
  /\ failures = 0 /\ killPresses = 0
  /\ recentExit = FALSE
  /\ credited = [p \in Positions |-> 0]

-----------------------------------------------------------------------------
\* PositionManager's views of its book.
HasOpenForTokenById(t) == t \in open  \* mutant: looks among the keys

HasOpenForToken(t) == \E p \in open : book[p].token = t

TotalDeployed(S) == SumOver([p \in Positions |-> book[p].premium], S)

\* The capital test of size_entry, on the entrant's snapshot of the row.
FitsCapital(snap, premium) ==
  /\ premium <= snap.available
  /\ premium * 100 <= snap.available * TradePct
  /\ premium * 100 <= Equity(snap) * DeployPct - snap.deployed * 100

\* Mutant of FitsPortfolio: the entry itself is not counted.
FitsPortfolioBefore(snap, premium) ==
  /\ Equity(snap) > 0 /\ premium > 0
  /\ CombinedPct > 0 => TotalDeployed(open) * 100 <= CombinedPct * Equity(snap)

\* The combined-exposure test of evaluate_portfolio_entry, on the live book
\* (a cap of 0 is off; the caps per underlying, side and delta come on top).
FitsPortfolio(snap, premium) ==
  /\ Equity(snap) > 0
  /\ CombinedPct > 0 =>
       (TotalDeployed(open) + premium) * 100 <= CombinedPct * Equity(snap)

FillAcceptable(fill, lots) == fill \in 1..lots /\ fill * 100 >= lots * MinFillPct

-----------------------------------------------------------------------------
(***************************************************************************)
(* Entries: _scan_for_entry, _execute_signal(_locked), ExecutionEngine.    *)
(***************************************************************************)
At(e, pc) == entry[e].pc = pc

\* Mutant of AcquireScan: the scan does not wait for the lock.
AcquireScanUnlocked(e) ==
  /\ At(e, "idle")
  /\ scanLock' = e
  /\ entry' = [entry EXCEPT ![e].pc = "scanning"]
  /\ UNCHANGED <<risk, database, open, inCooldown, entering, exit, summary,
                 failures, killPresses, history>>

\* `async with self._scan_lock` and the `finally` of _execute_signal.
AcquireScan(e) ==
  /\ At(e, "idle") /\ scanLock = None
  /\ scanLock' = e
  /\ entry' = [entry EXCEPT ![e].pc = "scanning"]
  /\ UNCHANGED <<risk, database, open, inCooldown, entering, exit, summary,
                 failures, killPresses, history>>

\* Mutant of Finish: the lock is released on the normal path only.
FinishWithoutFinally(e) ==
  /\ entry' = [entry EXCEPT ![e] = IdleEntry]
  /\ entering' = entering \ {entry[e].token}
  /\ scanLock' = IF At(e, "unwinding") THEN scanLock ELSE None

Finish(e) ==
  /\ entry' = [entry EXCEPT ![e] = IdleEntry]
  /\ entering' = entering \ {entry[e].token}
  /\ scanLock' = None

\* Every early return: no signal, a duplicate token, a blocked account, a
\* failed validation, a thin order book, a size of 0, a negative EV.  An await
\* that raises before capital is reserved ends the scan in the same way.
AbandonEntry(e) ==
  /\ entry[e].pc \in {"scanning", "checking", "validating", "sizing", "sized"}
  /\ Finish(e)
  /\ UNCHANGED <<risk, database, open, inCooldown, exit, summary, failures,
                 killPresses, history>>

\* The scan has a signal for t.  (Bound: an id is left to give it.)
ExecuteSignal(e, t) ==
  /\ At(e, "scanning")
  /\ ~HasOpenForToken(t) /\ t \notin entering
  /\ \E p \in Positions : status[p] = "none"
  /\ entering' = entering \cup {t}
  /\ entry' = [entry EXCEPT ![e].pc = "checking", ![e].token = t]
  /\ UNCHANGED <<risk, database, open, inCooldown, scanLock, exit, summary,
                 failures, killPresses, history>>

\* Mutant of CheckBlocked: asks risk_state, which the kill switch leaves alone.
CheckRiskStateOnly(e) ==
  /\ At(e, "checking")
  /\ risk.state = "NORMAL"
  /\ entry' = [entry EXCEPT ![e].pc = "validating", ![e].snap = Snapshot(risk)]
  /\ UNCHANGED <<risk, database, memory, exit, summary, failures, killPresses,
                 history>>

\* The snapshot of the account that all later tests of this entry use.
CheckBlocked(e) ==
  /\ At(e, "checking")
  /\ ~risk.kill /\ ~risk.blocked
  /\ entry' = [entry EXCEPT ![e].pc = "validating", ![e].snap = Snapshot(risk)]
  /\ UNCHANGED <<risk, database, memory, exit, summary, failures, killPresses,
                 history>>

Validate(e) ==
  /\ At(e, "validating")
  /\ ~HasOpenForToken(entry[e].token)
  /\ ~inCooldown
  /\ entry' = [entry EXCEPT ![e].pc = "sizing"]
  /\ UNCHANGED <<risk, database, memory, exit, summary, failures, killPresses,
                 history>>

\* size_entry after the order-book awaits: old snapshot, live book, and the
\* price of the order book as it was then.
SizeEntry(e, lots, price) ==
  /\ At(e, "sizing")
  /\ GateAllows(entry[e].snap, Cardinality(open), FALSE)
  /\ FitsCapital(entry[e].snap, price * lots)
  /\ FitsPortfolio(entry[e].snap, price * lots)
  /\ entry' = [entry EXCEPT ![e] = [@ EXCEPT !.pc = "sized", !.asked = lots,
                                     !.lots = lots, !.premium = price * lots]]
  /\ UNCHANGED <<risk, database, memory, exit, summary, failures, killPresses,
                 history>>

\* The final guard and reserve_capital.
ReserveCapital(e) ==
  /\ At(e, "sized")
  /\ ~HasOpenForToken(entry[e].token)
  /\ risk' = Reserve(risk, entry[e].premium)
  /\ entry' = [entry EXCEPT ![e].pc = "ordering"]
  /\ UNCHANGED <<database, memory, exit, summary, failures, killPresses, history>>

\* The BUY order, on the order book of that moment.  Filled in full, it keeps
\* the premium it was sized with; a partial fill is valued at the price paid.
FillBuyOrder(e, lots, premium) ==
  entry' = [entry EXCEPT ![e] = [@ EXCEPT !.pc = "filled", !.lots = lots,
                                          !.premium = premium]]

PlaceBuyOrder(e) ==
  /\ At(e, "ordering")
  /\ \/ FillBuyOrder(e, entry[e].lots, entry[e].premium)
     \/ \E fill \in 1..(entry[e].lots - 1), price \in Prices :
          /\ FillAcceptable(fill, entry[e].lots)
          /\ FillBuyOrder(e, fill, price * fill)
     \/ entry' = [entry EXCEPT ![e].pc = "rejected"]
  /\ UNCHANGED <<risk, database, memory, exit, summary, failures, killPresses,
                 history>>

WritePositionOpened(e, p) ==
  /\ At(e, "filled")
  /\ status[p] = "none"
  /\ status' = [status EXCEPT ![p] = "OPEN"]
  /\ book' = [book EXCEPT ![p] = [token   |-> entry[e].token,
                                  lots    |-> entry[e].lots,
                                  premium |-> entry[e].premium]]
  /\ entry' = [entry EXCEPT ![e].pc = "journaled", ![e].pos = p]
  /\ UNCHANGED <<risk, trade, sells, sold, memory, exit, summary, failures,
                 killPresses, history>>

\* register_open, and the argument of the reconcile_margin that follows it.
RegisterOpen(e) ==
  /\ At(e, "journaled")
  /\ open' = open \cup {entry[e].pos}
  /\ entry' = [entry EXCEPT ![e].pc = "syncing", ![e].total = TotalDeployed(open')]
  /\ UNCHANGED <<risk, database, inCooldown, scanLock, entering, exit, summary,
                 failures, killPresses, history>>

\* A rejection, or a broker, journal or reconcile call that raises: the except
\* branch, which reads the book again.
EntryRaises(e) ==
  /\ \/ At(e, "rejected") /\ UNCHANGED failures
     \/ /\ entry[e].pc \in {"ordering", "filled", "journaled", "syncing"}
        /\ failures < MaxFailures
        /\ failures' = failures + 1
  /\ entry' = [entry EXCEPT ![e].pc = "unwinding", ![e].total = TotalDeployed(open)]
  /\ UNCHANGED <<risk, database, memory, exit, summary, killPresses, history>>

SyncEntryMargin(e) ==
  /\ entry[e].pc \in {"syncing", "unwinding"}
  /\ risk' = Reconcile(risk, entry[e].total)
  /\ Finish(e)
  /\ UNCHANGED <<database, open, inCooldown, exit, summary, failures,
                 killPresses, history>>

\* The except branch raises in its turn.
UnwindRaises(e) ==
  /\ At(e, "unwinding")
  /\ failures < MaxFailures
  /\ failures' = failures + 1
  /\ Finish(e)
  /\ UNCHANGED <<risk, database, open, inCooldown, exit, summary, killPresses,
                 history>>

-----------------------------------------------------------------------------
(***************************************************************************)
(* Exits: PositionManager.on_quote, manual_exit, _close_position and       *)
(* RiskEngine.release_capital.                                             *)
(***************************************************************************)
Closing(c, pc) == exit[c].pc = pc

Goto(c, pc) == exit' = [exit EXCEPT ![c].pc = pc]

\* An exit rule fires on a quote (its journal write comes before the close),
\* or the exit endpoint has found the position.
DecideExit(c, p) ==
  /\ Closing(c, "idle") /\ p \in open
  /\ exit' = [exit EXCEPT ![c].pc = "decided", ![c].pos = p]
  /\ UNCHANGED <<risk, database, memory, entry, summary, failures, killPresses,
                 history>>

\* Mutant of PopPosition: the popped value is not compared with None.
PopPositionUnchecked(c) ==
  /\ Closing(c, "decided")
  /\ open' = open \ {exit[c].pos}
  /\ recentExit' = TRUE
  /\ Goto(c, "selling")
  /\ UNCHANGED <<risk, database, inCooldown, scanLock, entering, entry, summary,
                 failures, killPresses, credited>>

\* `pos = self._open.pop(position_id, None)`; None means someone else has it.
PopPosition(c) ==
  /\ Closing(c, "decided")
  /\ IF exit[c].pos \in open
     THEN /\ open' = open \ {exit[c].pos}
          /\ recentExit' = TRUE
          /\ Goto(c, "selling")
     ELSE /\ exit' = [exit EXCEPT ![c] = IdleExit]
          /\ UNCHANGED <<open, recentExit>>
  /\ UNCHANGED <<risk, database, inCooldown, scanLock, entering, entry, summary,
                 failures, killPresses, credited>>

\* The SELL order: full, partial or rejected; the result is not looked at.
PlaceSellOrder(c) ==
  /\ Closing(c, "selling")
  /\ LET p == exit[c].pos IN
     \E fill \in 0..book[p].lots, pnl \in Pnls :
       /\ fill = 0 \/ FillAcceptable(fill, book[p].lots)
       /\ sells' = [sells EXCEPT ![p] = @ + 1]
       /\ sold' = [sold EXCEPT ![p] = @ + fill]
       /\ exit' = [exit EXCEPT ![c].pc = "sold", ![c].pnl = pnl]
  /\ UNCHANGED <<risk, status, book, trade, memory, entry, summary, failures,
                 killPresses, history>>

\* Mutant of WritePositionClosed: the UPDATE matches no row.
WritePositionClosedNowhere(c) ==
  /\ Closing(c, "sold")
  /\ Goto(c, "rowClosed")
  /\ UNCHANGED <<risk, database, memory, entry, summary, failures, killPresses,
                 history>>

WritePositionClosed(c) ==
  /\ Closing(c, "sold")
  /\ status' = [status EXCEPT ![exit[c].pos] = "CLOSED"]
  /\ Goto(c, "rowClosed")
  /\ UNCHANGED <<risk, book, trade, sells, sold, memory, entry, summary,
                 failures, killPresses, history>>

\* Mutant of WriteClosedTrade: the trade is written before the row is closed.
WriteClosedTradeFirst(c) ==
  /\ Closing(c, "sold")
  /\ trade' = [trade EXCEPT ![exit[c].pos] = exit[c].pnl]
  /\ Goto(c, "tradeWritten")
  /\ UNCHANGED <<risk, status, book, sells, sold, memory, entry, summary,
                 failures, killPresses, history>>

WriteClosedTrade(c) ==
  /\ Closing(c, "rowClosed")
  /\ trade' = [trade EXCEPT ![exit[c].pos] = exit[c].pnl]
  /\ Goto(c, "tradeWritten")
  /\ UNCHANGED <<risk, status, book, sells, sold, memory, entry, summary,
                 failures, killPresses, history>>

\* Mutants of ReleaseCapital: it waits until no scan holds the lock; the row is
\* credited again by a retry of the UPDATE.
ReleaseBetweenScans(c) ==
  /\ Closing(c, "tradeWritten")
  /\ scanLock = None
  /\ risk' = Release(risk, book[exit[c].pos].premium, exit[c].pnl)
  /\ credited' = [credited EXCEPT ![exit[c].pos] = @ + 1]
  /\ Goto(c, "released")
  /\ UNCHANGED <<database, memory, entry, summary, failures, killPresses,
                 recentExit>>

ReleaseRetried(c) ==
  /\ Closing(c, "tradeWritten")
  /\ \E again \in BOOLEAN :
       /\ risk' = Release(risk, book[exit[c].pos].premium, exit[c].pnl)
       /\ credited' = [credited EXCEPT ![exit[c].pos] = @ + 1]
       /\ Goto(c, IF again THEN "tradeWritten" ELSE "released")
  /\ UNCHANGED <<database, memory, entry, summary, failures, killPresses,
                 recentExit>>

ReleaseCapital(c) ==
  /\ Closing(c, "tradeWritten")
  /\ risk' = Release(risk, book[exit[c].pos].premium, exit[c].pnl)
  /\ credited' = [credited EXCEPT ![exit[c].pos] = @ + 1]
  /\ Goto(c, "released")
  /\ UNCHANGED <<database, memory, entry, summary, failures, killPresses,
                 recentExit>>

\* release_capital reads the row back and asks for a halt.
PostTradeCheck(c) ==
  /\ Closing(c, "released")
  /\ Goto(c, IF PostTradeHalts(Snapshot(risk)) THEN "halting" ELSE "accounted")
  /\ UNCHANGED <<risk, database, memory, entry, summary, failures, killPresses,
                 history>>

HaltEntries(c) ==
  /\ Closing(c, "halting")
  /\ risk' = Halt(risk, "HALTED")
  /\ Goto(c, "accounted")
  /\ UNCHANGED <<database, memory, entry, summary, failures, killPresses, history>>

\* The argument of reconcile_margin is evaluated before its UPDATE.
ReadBook(c) ==
  /\ Closing(c, "accounted")
  /\ exit' = [exit EXCEPT ![c].pc = "syncing", ![c].total = TotalDeployed(open)]
  /\ UNCHANGED <<risk, database, memory, entry, summary, failures, killPresses,
                 history>>

SyncExitMargin(c) ==
  /\ Closing(c, "syncing")
  /\ risk' = Reconcile(risk, exit[c].total)
  /\ Goto(c, "synced")
  /\ UNCHANGED <<database, memory, entry, summary, failures, killPresses, history>>

\* The cooldown starts last, after the notification was written.
FinishExit(c) ==
  /\ Closing(c, "synced")
  /\ inCooldown' = TRUE
  /\ exit' = [exit EXCEPT ![c] = IdleExit]
  /\ UNCHANGED <<risk, database, open, scanLock, entering, entry, summary,
                 failures, killPresses, history>>

\* An await after the pop raises: nothing puts the position back.  (One that
\* raises before the pop changes nothing.)
ExitRaises(c) ==
  /\ exit[c].pc \notin {"idle", "decided"}
  /\ failures < MaxFailures
  /\ failures' = failures + 1
  /\ exit' = [exit EXCEPT ![c] = IdleExit]
  /\ UNCHANGED <<risk, database, memory, entry, summary, killPresses, history>>

-----------------------------------------------------------------------------
(***************************************************************************)
(* The HTTP endpoints that touch the row, and the passing of time.         *)
(***************************************************************************)
ReadSummaryRow ==
  /\ summary.pc = "idle"
  /\ summary' = [summary EXCEPT !.pc = "read", !.deployed = risk.deployed]
  /\ UNCHANGED <<risk, database, memory, entry, exit, failures, killPresses,
                 history>>

CompareSummary ==
  /\ summary.pc = "read"
  /\ LET live == TotalDeployed(open) IN
     summary' = IF summary.deployed # live
                THEN [summary EXCEPT !.pc = "syncing", !.total = live]
                ELSE IdleSummary
  /\ UNCHANGED <<risk, database, memory, entry, exit, failures, killPresses,
                 history>>

SyncSummaryMargin ==
  /\ summary.pc = "syncing"
  /\ risk' = Reconcile(risk, summary.total)
  /\ summary' = IdleSummary
  /\ UNCHANGED <<database, memory, entry, exit, failures, killPresses, history>>

PressKillSwitch(enabled) ==
  /\ killPresses < MaxKillPresses
  /\ killPresses' = killPresses + 1
  /\ risk' = KillSwitch(risk, enabled)
  /\ UNCHANGED <<database, memory, entry, exit, summary, failures, history>>

\* Minutes pass.  (Assumption: an exit takes less than the cooldown.)
CooldownElapses ==
  /\ inCooldown \/ recentExit
  /\ \A c \in Closers : exit[c].pc \in {"idle", "decided"}
  /\ inCooldown' = FALSE
  /\ recentExit' = FALSE
  /\ UNCHANGED <<risk, database, open, scanLock, entering, entry, exit, summary,
                 failures, killPresses, credited>>

-----------------------------------------------------------------------------
EntryStep(e) ==
  \/ AbandonEntry(e)
  \/ \E t \in Tokens : ExecuteSignal(e, t)
  \/ CheckBlocked(e)
  \/ Validate(e)
  \/ \E lots \in LotSizes, price \in Prices : SizeEntry(e, lots, price)
  \/ ReserveCapital(e)
  \/ PlaceBuyOrder(e)
  \/ \E p \in Positions : WritePositionOpened(e, p)
  \/ RegisterOpen(e)
  \/ EntryRaises(e)
  \/ SyncEntryMargin(e)
  \/ UnwindRaises(e)

ExitStep(c) ==
  \/ PopPosition(c)
  \/ PlaceSellOrder(c)
  \/ WritePositionClosed(c)
  \/ WriteClosedTrade(c)
  \/ ReleaseCapital(c)
  \/ PostTradeCheck(c)
  \/ HaltEntries(c)
  \/ ReadBook(c)
  \/ SyncExitMargin(c)
  \/ FinishExit(c)

SummaryStep == CompareSummary \/ SyncSummaryMargin

Next ==
  \/ \E e \in Entrants : AcquireScan(e) \/ EntryStep(e)
  \/ \E c \in Closers : ExitStep(c) \/ ExitRaises(c)
  \/ \E c \in Closers, p \in Positions : DecideExit(c, p)
  \/ ReadSummaryRow
  \/ SummaryStep
  \/ \E enabled \in BOOLEAN : PressKillSwitch(enabled)
  \/ CooldownElapses

Spec == Init /\ [][Next]_vars

\* asyncio resumes every coroutine whose await is done; nothing makes a scan
\* start, an exit rule fire or an endpoint be called.
FairSpec ==
  /\ Spec
  /\ \A e \in Entrants : WF_vars(EntryStep(e))
  /\ \A c \in Closers : WF_vars(ExitStep(c))
  /\ WF_vars(SummaryStep)

-----------------------------------------------------------------------------
BookRow == [token : Tokens \cup {None}, lots : Nat, premium : Nat]
EntryState == [pc : EntryPcs, token : Tokens \cup {None}, asked : Nat,
               lots : Nat, premium : Nat,
               snap : RiskRow \cup {None}, pos : Positions \cup {None}, total : Nat]
ExitState == [pc : ExitPcs, pos : Positions \cup {None}, pnl : Pnls \cup {0},
              total : Nat]
SummaryState == [pc : {"idle", "read", "syncing"}, deployed : Int, total : Nat]

\* Type correctness: every variable of the engine keeps its shape.
TypeOK ==
  /\ risk \in RiskRow
  /\ status \in [Positions -> {"none", "OPEN", "CLOSED"}]
  /\ book \in [Positions -> BookRow]
  /\ trade \in [Positions -> Pnls \cup {None}]
  /\ sells \in [Positions -> Nat] /\ sold \in [Positions -> Nat]
  /\ open \subseteq Positions
  /\ inCooldown \in BOOLEAN /\ recentExit \in BOOLEAN
  /\ scanLock \in Entrants \cup {None}
  /\ entering \subseteq Tokens
  /\ entry \in [Entrants -> EntryState]
  /\ exit \in [Closers -> ExitState]
  /\ summary \in SummaryState
  /\ failures \in Nat /\ killPresses \in Nat
  /\ credited \in [Positions -> Nat]

Resting ==
  /\ \A e \in Entrants : At(e, "idle")
  /\ \A c \in Closers : Closing(c, "idle")
  /\ summary.pc = "idle"

\* A position is sold at most once and its capital is released at most once,
\* however quotes and the exit endpoint overlap: the pop in _close_position is
\* the only guard, and each caller saw the position before some await.
ExitedOnce == \A p \in Positions : sells[p] <= 1 /\ credited[p] <= 1

\* Never two open positions in one contract ("identical entry+exit timestamps"
\* in run_periodic_scan's comment), with every guard before several awaits.
OnePositionPerToken ==
  \A p, q \in open : book[p].token = book[q].token => p = q

\* max_positions bounds the open positions together with the entry under way:
\* the count is read long before register_open, so the scan lock must cover it.
Pending == {e \in Entrants : entry[e].pc \in
              {"sized", "ordering", "filled", "journaled"}}

PositionLimitHeld ==
  MaxPositions > 0 => Cardinality(open) + Cardinality(Pending) <= MaxPositions

\* The book and the entry under way stay within the combined-exposure cap that
\* the entry was sized for, up to its order and, when that is filled in full,
\* up to register_open: exits and reconciles run meanwhile, the book may hold
\* positions that were repriced at their fill, and the deployed column may be
\* wrong.  A partial fill is valued anew, and may exceed the cap (FillBuyOrder).
ExposureCapHeld ==
  CombinedPct > 0 => \A e \in Pending : entry[e].lots = entry[e].asked =>
    (TotalDeployed(open) + entry[e].premium) * 100 <= CombinedPct * Equity(entry[e].snap)

\* When nothing is under way and nothing failed, available = equity - deployed:
\* reserve, release and three reconcile callers write both columns in any order.
AvailableSettled == failures = 0 /\ Resting => Balanced(risk)

\* When nothing is under way and nothing failed, the day's counters are those
\* of the closed_trades rows.
LedgerMatchesTrades ==
  failures = 0 /\ Resting =>
    LET closed == {p \in Positions : trade[p] # None} IN
    /\ risk.trades = Cardinality(closed)
    /\ risk.realized = SumOver(trade, closed)

\* A position in memory has an OPEN row, also between the writes of a close and
\* after failures; when nothing is under way and nothing failed, the converse
\* holds too, so a restart would restore exactly the book.
BookMatchesDatabase ==
  /\ \A p \in open : status[p] = "OPEN"
  /\ failures = 0 /\ Resting => \A p \in Positions : status[p] = "OPEN" => p \in open

\* Whatever fails: a trade is booked only for a position whose row is CLOSED,
\* and the account is credited only for a booked trade.
WritesInOrder ==
  \A p \in Positions :
    /\ trade[p] # None => status[p] = "CLOSED"
    /\ credited[p] > 0 => trade[p] # None

\* The scan lock is always given back, whatever the broker or journal does.
ScanLockReleased == \A e \in Entrants : scanLock = e ~> scanLock # e

\* Without failures every exit that took a position ends with its release.
ExitCompletes ==
  \A p \in Positions : sells[p] > 0 ~> (credited[p] > 0 \/ failures > 0)

\* While the kill switch stays on, entries die out before they reserve capital
\* (the one under way when it was pressed may still finish).
KillDrainsEntries ==
  <>[](risk.kill) => <>[](\A e \in Entrants : entry[e].pc \in {"idle", "scanning", "checking"})

-----------------------------------------------------------------------------
(***************************************************************************)
(* The book as PositionBook sees it.  A position is held while it is in    *)
(* memory, leaves with its pop and is settled by release_capital.          *)
(***************************************************************************)
Popped(c) == exit[c].pc \notin {"idle", "decided"}

Entering(e, p) == At(e, "journaled") /\ entry[e].pos = p

Leaving(p) == credited[p] = 0 /\ \E c \in Closers : Popped(c) /\ exit[c].pos = p

Unborn(p) == status[p] = "none" \/ \E e \in Entrants : Entering(e, p)

Stage(p) ==
  CASE credited[p] > 0 -> "settled"
    [] p \in open -> "held"
    [] Leaving(p) -> "leaving"
    [] Unborn(p) -> "none"
    [] OTHER -> "lost"

Book == INSTANCE PositionBook WITH
  stage <- [p \in Positions |-> Stage(p)],
  token <- [p \in Positions |-> IF Stage(p) = "none" THEN None ELSE book[p].token],
  realized <- risk.realized,
  trades <- risk.trades

\* The coroutines, endpoints and failures together implement the abstract book:
\* every position is settled once, and the day's result moves only then.
ImplementsBook == Book!Spec

-----------------------------------------------------------------------------
(***************************************************************************)
(* What the repository's documents say and the code does not keep.         *)
(***************************************************************************)
\* "Used margin returns to $0 when all positions closed", "syncs
\* deployed_capital with live open positions": at rest the deployed column is
\* the total of the book.
UsedMarginMatchesBook ==
  failures = 0 /\ Resting => risk.deployed = TotalDeployed(open)

\* "No re-entry for N minutes after exit".
NoReentryAfterExit ==
  [][\A e \in Entrants : At(e, "validating") /\ entry'[e].pc = "sizing"
       => ~recentExit]_vars

\* "kill switch halts all new entries": no BUY order while it is on.
KillSwitchHaltsEntries ==
  [][\A e \in Entrants : At(e, "ordering") /\ entry'[e].pc = "filled"
       => ~risk.kill]_vars

\* "Exit: place opposite order; monitor partial fills": what the account books
\* as closed was sold in full.
ExitSellsWholePosition ==
  \A p \in Positions : credited[p] > 0 => sold[p] = book[p].lots
=============================================================================
