----------------------------- MODULE AccountDay -----------------------------
(***************************************************************************)
(* The paper account from day to day: one row of daily_risk_state per IST  *)
(* date, seeded by whoever asks for it first, and everything that writes   *)
(* it besides plain trading: auto-trade, the kill switch, the halts after  *)
(* a close, reversal flips and their limits, the market summary, the       *)
(* engine's start and the account reset.  A method fixes `today` when it   *)
(* is called and then waits for a connection, so its statement may reach   *)
(* yesterday's row, or no row at all; ensure_daily_state raises when it    *)
(* finds none.  Every position costs one unit.                             *)
(***************************************************************************)
EXTENDS CircuitBreakers, FiniteSets

CONSTANTS Callers,        \* coroutines: scans, closers, HTTP handlers
          None,
          EmergencyFlatten,   \* emergency_flatten_on_daily_loss
          ClosedPnls,     \* net result of a closed position
          LastDay,        \* bound: IST dates
          MaxEntries,     \* bound: scans and flips that ask for an entry
          MaxCommands     \* bound: calls of the control endpoints, and starts

ASSUME AccountAssumption ==
  /\ IsFiniteSet(Callers)
  /\ EmergencyFlatten \in BOOLEAN
  /\ ClosedPnls \subseteq Int
  /\ LastDay \in Nat \ {0} /\ MaxEntries \in Nat /\ MaxCommands \in Nat
  /\ None \notin Callers \cup RiskRow

VARIABLES
  today,       \* the IST date
  row,         \* daily_risk_state: trade_date -> row
  held,        \* PositionManager._open: its premium
  scanLock,    \* holder of TradingOrchestrator._scan_lock
  pendingFlips,  \* length of PositionManager._pending_flips
  flipped,     \* _last_flip_at is set
  op,          \* the local state of each caller
  entries, commands,   \* counters for the bounds
  booked,      \* history: results of the closed_trades rows
  unbooked,    \* history: results that release_capital wrote to no row
  halted,      \* history: dates whose row a halt has reached, until auto-trade ON
  commanded,   \* history: dates on which a command changed the row
  disturbed    \* history: midnight or a reset met money under way

account == <<today, row>>
memory  == <<held, scanLock, pendingFlips, flipped>>
history == <<booked, unbooked, halted, commanded, disturbed>>
counters == <<entries, commands>>
vars == <<today, row, held, scanLock, pendingFlips, flipped, op, entries,
          commands, booked, unbooked, halted, commanded, disturbed>>

Days == 1..LastDay

Pcs == {"idle", "gate", "flips", "flipGate", "reserving", "ordering", "syncing",
        "entered", "recording", "flipLimits", "flipHalt", "flipHalted", "flipDone",
        "releasing", "postTrade", "halting", "emergency", "flatten", "syncCall",
        "exited", "killRead", "autoTrade", "killSwitch", "killWrite", "clearing",
        "clearWrite", "clearBook", "summary", "returning"}

\* Where ensure_daily_state runs before the segment; in the last two
\* ensure_paper_account alone, which selects no row.
Ensuring == {"gate", "flipGate", "entered", "flipLimits", "flipHalted", "flipDone",
             "postTrade", "emergency", "syncCall", "exited", "killRead", "summary",
             "returning", "killSwitch", "clearing"}

\* step, seed and since are the locals of the ensure in hand: the read equity,
\* and the date of the insert.
Idle == [pc |-> "idle", day |-> 1, step |-> "done", seed |-> 0, since |-> 1,
         total |-> 0, pnl |-> 0, flips |-> 0, flip |-> FALSE, on |-> FALSE,
         kill |-> FALSE]

Init ==
  /\ today = 1
  /\ row = [d \in Days |-> None]
  /\ held = 0
  /\ scanLock = None
  /\ pendingFlips = 0 /\ flipped = FALSE
  /\ op = [c \in Callers |-> Idle]
  /\ entries = 0 /\ commands = 0
  /\ booked = 0 /\ unbooked = 0 /\ halted = {} /\ commanded = {}
  /\ disturbed = FALSE

-----------------------------------------------------------------------------
\* With a row for today and no midnight to come (bound LastDay), the statements
\* of ensure_paper_account change nothing and are left out.
NothingToSeed == today = LastDay /\ row[today] # None

Ensured(c) == op[c].step = "select" \/ (op[c].step = "read" /\ NothingToSeed)

\* c stands before pc, and has ensured the row if the code does that.
At(c, pc) == op[c].pc = pc /\ (pc \in Ensuring => Ensured(c))

Busy(c) == op[c].pc # "idle"

\* ensure_daily_state fixes its `today` between the insert and the select.
Selected(c) == (IF op[c].step = "select" THEN op[c].since ELSE today)..today

\* Of the locals only the popped flips outlive every call.
Moved(c, pc, day) ==
  [Idle EXCEPT !.pc = pc, !.day = day, !.flips = op[c].flips, !.flip = op[c].flip]

\* The segment ends in a call of a method that fixes `today` at once.
Goto(c, pc) == op' = [op EXCEPT ![c] = Moved(c, pc, today)]

\* The same for `await reconcile_margin(self.total_deployed())`.
CallSync(c, total, on) ==
  op' = [op EXCEPT ![c] = [Moved(c, "syncing", today) EXCEPT
                             !.total = total, !.on = on]]

\* `await ensure_daily_state()`, and on to pc.
Ensure(c, pc) == op' = [op EXCEPT ![c] = [Moved(c, pc, 1) EXCEPT !.step = "read"]]

NextFlip(c) == op' = [op EXCEPT ![c] = Moved(c, "flips", 1)]

Return(c) == op' = [op EXCEPT ![c] = Idle]

\* `return await self.ensure_daily_state()`.
EnsureAndReturn(c) ==
  IF NothingToSeed THEN Return(c)
  ELSE op' = [op EXCEPT ![c] = [Idle EXCEPT !.pc = "returning", !.step = "read"]]

\* One UPDATE ... WHERE trade_date = d; it may match no row.
Updated(d, new) == [row EXCEPT ![d] = IF @ = None THEN None ELSE new]

\* Between reserve or release and the reconciliation that follows.
MoneyPcs == {"reserving", "ordering", "syncing", "releasing", "postTrade", "halting",
             "emergency", "flatten", "syncCall"}

\* Midnight finds an equity read and not yet inserted, or an entry or a close
\* whose last reconciliation is still to come.
MoneyUnderWay == \E c \in Callers : op[c].step = "insert" \/ op[c].pc \in MoneyPcs

\* A reset finds a booked result that is not in the row.
ResultUnderWay == \E c \in Callers : op[c].pc = "releasing"

(***************************************************************************)
(* ensure_paper_account: read the last earlier day, then INSERT unless the *)
(* row of CURRENT_TIMESTAMP's date exists.  (The kill-switch endpoint's    *)
(* default capital is the shipped account_capital_usd.)                    *)
(***************************************************************************)
EarlierDays == {d \in Days : d < today /\ row[d] # None}

LastEarlier == CHOOSE d \in EarlierDays : \A e \in EarlierDays : e <= d

\* Mutant of PreviousDayEquity: what an open position costs is not carried.
PreviousCashOnly ==
  IF EarlierDays = {} THEN AccountCapital ELSE row[LastEarlier].available

PreviousDayEquity ==
  IF EarlierDays = {} THEN AccountCapital
  ELSE LET r == row[LastEarlier]
           cashPlus == r.available + r.deployed
       IN  IF cashPlus > 0 THEN cashPlus
           ELSE IF Equity(r) > 0 THEN Equity(r) ELSE AccountCapital

SeededRow(seed) == [FreshRow EXCEPT !.starting = seed, !.available = seed]

\* SELECT, INSERT and the select of ensure_daily_state are statements of their
\* own, whose dates are those of their execution.
ReadPreviousDay(c) ==
  /\ op[c].step = "read" /\ ~NothingToSeed
  /\ op' = [op EXCEPT ![c].step = "insert", ![c].seed = PreviousDayEquity]
  /\ UNCHANGED <<account, memory, counters, history>>

InsertToday(c) ==
  /\ op[c].step = "insert"
  /\ row' = [row EXCEPT ![today] = IF @ = None THEN SeededRow(op[c].seed) ELSE @]
  /\ op' = [op EXCEPT ![c].step = "select", ![c].seed = 0, ![c].since = today]
  /\ UNCHANGED <<today, memory, counters, history>>

FinishCall(c) ==
  /\ At(c, "returning")
  /\ Return(c)
  /\ UNCHANGED <<account, memory, counters, history>>

-----------------------------------------------------------------------------
(***************************************************************************)
(* Entries and reversal flips, under the scan lock.                        *)
(***************************************************************************)
\* An entry under way ends: with the next popped flip, or with the lock.
EndEntry(c) ==
  IF op[c].flip
  THEN NextFlip(c) /\ UNCHANGED scanLock
  ELSE Return(c) /\ scanLock' = None

StartEntry(c) ==
  /\ At(c, "idle") /\ scanLock = None
  /\ entries < MaxEntries /\ entries' = entries + 1
  /\ scanLock' = c
  /\ Ensure(c, "gate")
  /\ UNCHANGED <<account, held, pendingFlips, flipped, commands, history>>

\* on_quote pops the whole list of flips before it tries the first.
TakeFlips(c) ==
  /\ At(c, "idle") /\ scanLock = None /\ pendingFlips > 0
  /\ entries < MaxEntries /\ entries' = entries + 1
  /\ scanLock' = c
  /\ pendingFlips' = 0
  /\ op' = [op EXCEPT ![c].pc = "flips", ![c].flips = pendingFlips,
                      ![c].flip = TRUE]
  /\ UNCHANGED <<account, held, flipped, commands, history>>

\* After a flip the cooldown, unless it has elapsed, drops the next one; that is
\* not kept for later.
NextTried(c) ==
  \E cooling \in {FALSE, flipped} :
    op' = [op EXCEPT ![c] = [Moved(c, IF cooling THEN "flips" ELSE "flipGate", 1) EXCEPT
             !.step = IF cooling THEN "done" ELSE "read", !.flips = op[c].flips - 1]]

\* Mutant of TryFlip: one flip more than were popped.
TryFlipOnceMore(c) ==
  /\ At(c, "flips")
  /\ IF op[c].flips < 0
     THEN Return(c) /\ scanLock' = None
     ELSE NextTried(c) /\ UNCHANGED scanLock
  /\ UNCHANGED <<account, held, pendingFlips, flipped, counters, history>>

TryFlip(c) ==
  /\ At(c, "flips")
  /\ IF op[c].flips = 0
     THEN Return(c) /\ scanLock' = None
     ELSE NextTried(c) /\ UNCHANGED scanLock
  /\ UNCHANGED <<account, held, pendingFlips, flipped, counters, history>>

FlipAllowed(r) == GateAllows(Snapshot(r), held, TRUE)

\* The limits first; then confirmation, contract and quality score, which may
\* refuse as well.  A contract that is open already is not entered again, and
\* yet counts as a flip.
GateFlip(c) ==
  /\ At(c, "flipGate")
  /\ \E d \in Selected(c) :
       /\ row[d] # None
       /\ \/ FlipAllowed(row[d]) /\ Ensure(c, "gate") /\ UNCHANGED flipped
          \/ /\ FlipAllowed(row[d]) /\ held > 0
             /\ Goto(c, "recording")
             /\ flipped' = TRUE
          \/ NextFlip(c) /\ UNCHANGED flipped
  /\ UNCHANGED <<account, held, scanLock, pendingFlips, counters, history>>

\* The snapshot that CheckBlocked and size_entry use.
EntryAllowed(r, isFlip) ==
  /\ ~r.kill /\ ~r.blocked
  /\ GateAllows(Snapshot(r), held, isFlip)
  /\ Snapshot(r).available > 0

\* A refused flip is not counted: its contract was not open, and nobody else
\* enters while c holds the lock.
GateEntry(c) ==
  /\ At(c, "gate")
  /\ \E d \in Selected(c) :
       /\ row[d] # None
       /\ IF EntryAllowed(row[d], op[c].flip)
          THEN Goto(c, "reserving") /\ UNCHANGED scanLock
          ELSE EndEntry(c)
  /\ UNCHANGED <<account, held, pendingFlips, flipped, counters, history>>

ReserveCapital(c) ==
  /\ At(c, "reserving")
  /\ row' = Updated(op[c].day, Reserve(row[op[c].day], 1))
  /\ Goto(c, "ordering")
  /\ UNCHANGED <<today, memory, counters, history>>

\* The order is filled and registered, or rejected; both reconcile the row.
FillOrder(c) ==
  /\ At(c, "ordering")
  /\ \E bought \in BOOLEAN :
       /\ held' = IF bought THEN held + 1 ELSE held
       /\ CallSync(c, held', bought)
  /\ UNCHANGED <<account, scanLock, pendingFlips, flipped, counters, history>>

\* reconcile_margin, and the ensure_daily_state it returns with: to the entry, to
\* the market summary (`on` without the lock) or to the close.
SyncMargin(c) ==
  /\ At(c, "syncing")
  /\ row' = Updated(op[c].day, Reconcile(row[op[c].day], op[c].total))
  /\ IF scanLock = c
     THEN op' = [op EXCEPT ![c] = [Moved(c, "entered", 1) EXCEPT
                   !.step = "read", !.total = op[c].total, !.on = op[c].on]]
     ELSE IF op[c].on THEN EnsureAndReturn(c) ELSE Ensure(c, "exited")
  /\ UNCHANGED <<today, memory, counters, history>>

\* has_open_for_token after a flip, if the entry did not raise: no, if the
\* position was closed again meanwhile.
FinishEntry(c) ==
  /\ At(c, "entered")
  /\ \E d \in Selected(c) : row[d] # None
  /\ \/ /\ op[c].flip /\ op[c].on /\ held > 0
        /\ flipped' = TRUE
        /\ Goto(c, "recording")
        /\ UNCHANGED scanLock
     \/ /\ ~op[c].flip \/ ~op[c].on \/ held < op[c].total
        /\ EndEntry(c)
        /\ UNCHANGED flipped
  /\ UNCHANGED <<account, held, pendingFlips, counters, history>>

RecordFlip(c) ==
  /\ At(c, "recording")
  /\ row' = Updated(op[c].day, [row[op[c].day] EXCEPT !.flips = @ + 1,
                                                      !.flipsHour = @ + 1])
  /\ Ensure(c, "flipLimits")
  /\ UNCHANGED <<today, memory, counters, history>>

\* The configured limits, not the effective ones the gate applies.
CheckFlipLimits(c) ==
  /\ At(c, "flipLimits")
  /\ \E d \in Selected(c) :
       /\ row[d] # None
       /\ IF \/ Reached(row[d].flips, MaxFlipsPerDay)
             \/ Reached(row[d].flipsHour, MaxFlipsPerHour)
          THEN Goto(c, "flipHalt")
          ELSE NextFlip(c)
  /\ UNCHANGED <<account, memory, counters, history>>

\* halt_entries(flips_only = True), which ends in an ensure_daily_state; so does
\* record_flip.
HaltFlips(c) ==
  /\ At(c, "flipHalt")
  /\ row' = Updated(op[c].day, [row[op[c].day] EXCEPT !.flipsOff = TRUE])
  /\ Ensure(c, "flipHalted")
  /\ UNCHANGED <<today, memory, counters, history>>

FinishFlip(c) ==
  /\ \/ At(c, "flipHalted") /\ (\E d \in Selected(c) : row[d] # None) /\ Ensure(c, "flipDone")
     \/ At(c, "flipDone") /\ NextFlip(c)
  /\ UNCHANGED <<account, memory, counters, history>>

-----------------------------------------------------------------------------
(***************************************************************************)
(* A close: the closed trade is booked, then release_capital and its halts.*)
(***************************************************************************)
ClosePosition(c, pnl) ==
  /\ At(c, "idle") /\ held > 0
  /\ held' = held - 1
  /\ booked' = booked + pnl
  /\ op' = [op EXCEPT ![c] = [Moved(c, "releasing", today) EXCEPT !.pnl = pnl]]
  /\ UNCHANGED <<account, scanLock, pendingFlips, flipped, counters,
                 unbooked, halted, commanded, disturbed>>

ReleaseCapital(c) ==
  /\ At(c, "releasing")
  /\ row' = Updated(op[c].day, Release(row[op[c].day], 1, op[c].pnl))
  /\ unbooked' = unbooked + (IF row[op[c].day] = None THEN op[c].pnl ELSE 0)
  /\ Ensure(c, "postTrade")
  /\ UNCHANGED <<today, memory, counters, booked, halted, commanded, disturbed>>

\* post_trade_halt_reason: the daily loss comes first among the reasons.
PostTradeCheck(c) ==
  /\ At(c, "postTrade")
  /\ \E d \in Selected(c) :
       /\ row[d] # None
       /\ LET r == Snapshot(row[d]) IN
          IF PostTradeHalts(r)
          THEN op' = [op EXCEPT ![c] = [Moved(c, "halting", today) EXCEPT
                                          !.on = LossLimitReached(r)]]
          ELSE CallSync(c, held, FALSE)
  /\ UNCHANGED <<account, memory, counters, history>>

Reaching(d) == {e \in {d} : row[e] # None}

\* Mutant of HaltEntries: the emergency state is written first and replaced.
HaltAfterEmergency(c) ==
  /\ At(c, "halting")
  /\ row' = Updated(op[c].day,
       Halt(Halt(row[op[c].day], "EMERGENCY_FLATTEN"), "HALTED"))
  /\ halted' = halted \cup Reaching(op[c].day)
  /\ Ensure(c, "syncCall")
  /\ UNCHANGED <<today, memory, counters, booked, unbooked, commanded, disturbed>>

HaltEntries(c) ==
  /\ At(c, "halting")
  /\ row' = Updated(op[c].day, Halt(row[op[c].day], "HALTED"))
  /\ halted' = halted \cup Reaching(op[c].day)
  /\ Ensure(c, IF op[c].on /\ EmergencyFlatten THEN "emergency" ELSE "syncCall")
  /\ UNCHANGED <<today, memory, counters, booked, unbooked, commanded, disturbed>>

\* The second halt of a daily loss; no caller of flatten follows it.
CallEmergencyHalt(c) ==
  /\ At(c, "emergency") /\ \E d \in Selected(c) : row[d] # None
  /\ Goto(c, "flatten")
  /\ UNCHANGED <<account, memory, counters, history>>

EmergencyHalt(c) ==
  /\ At(c, "flatten")
  /\ row' = Updated(op[c].day, Halt(row[op[c].day], "EMERGENCY_FLATTEN"))
  /\ Ensure(c, "syncCall")
  /\ UNCHANGED <<today, memory, counters, history>>

SyncAfterClose(c) ==
  /\ At(c, "syncCall") /\ \E d \in Selected(c) : row[d] # None
  /\ CallSync(c, held, FALSE)
  /\ UNCHANGED <<account, memory, counters, history>>

\* on_quote queues a flip after a trend_reversal, if so configured.
FinishClose(c) ==
  /\ At(c, "exited") /\ \E d \in Selected(c) : row[d] # None
  /\ Return(c)
  /\ pendingFlips' \in {pendingFlips, pendingFlips + 1}
  /\ UNCHANGED <<account, held, scanLock, flipped, counters, history>>

\* _close_position found the position gone; on_quote queues its flip as well.
QueueFlipOfLostClose ==
  /\ \E c \in Callers : op[c].pc = "releasing"
  /\ pendingFlips = 0
  /\ pendingFlips' = 1
  /\ UNCHANGED <<account, held, scanLock, flipped, op, counters, history>>

-----------------------------------------------------------------------------
(***************************************************************************)
(* The control endpoints, the engine's start and the reset.                *)
(***************************************************************************)
Command == commands < MaxCommands /\ commands' = commands + 1

\* set_auto_trade fixes `today` before the row is ensured and read.
SetAutoTrade(c, enabled) ==
  /\ At(c, "idle") /\ Command
  /\ op' = [op EXCEPT ![c] = [Moved(c, "killRead", today) EXCEPT
                                 !.step = "read", !.on = enabled]]
  /\ UNCHANGED <<account, memory, entries, history>>

ReadKill(c) ==
  LET r == row[op[c].day] IN
  /\ At(c, "killRead") /\ \E d \in Selected(c) : row[d] # None
  /\ op' = [op EXCEPT ![c] = [Moved(c, "autoTrade", op[c].day) EXCEPT
                                 !.on = op[c].on, !.kill = r # None /\ r.kill]]
  /\ UNCHANGED <<account, memory, counters, history>>

\* The UPDATE of set_auto_trade; with the kill switch on, only a reason.
WriteAutoTrade(c) ==
  LET d == op[c].day IN
  /\ At(c, "autoTrade")
  /\ row' = IF ~op[c].on THEN Updated(d, Halt(row[d], "HALTED"))
            ELSE IF op[c].kill THEN row
            ELSE Updated(d, [row[d] EXCEPT !.blocked = FALSE, !.flipsOff = FALSE,
                                           !.state = "NORMAL"])
  /\ halted' = IF ~op[c].on THEN halted \cup Reaching(d)
               ELSE IF op[c].kill THEN halted ELSE halted \ {d}
  /\ commanded' = commanded \cup {d}
  /\ EnsureAndReturn(c)
  /\ UNCHANGED <<today, memory, counters, booked, unbooked, disturbed>>

PressKillSwitch(c, enabled) ==
  /\ At(c, "idle") /\ Command
  /\ op' = [op EXCEPT ![c] = [Moved(c, "killSwitch", 1) EXCEPT
                                 !.step = "read", !.on = enabled]]
  /\ UNCHANGED <<account, memory, entries, history>>

CallKillSwitch(c) ==
  /\ At(c, "killSwitch")
  /\ op' = [op EXCEPT ![c] = [Moved(c, "killWrite", today) EXCEPT !.on = op[c].on]]
  /\ UNCHANGED <<account, memory, counters, history>>

\* INSERT ... ON CONFLICT DO UPDATE: without a row it inserts the default capital.
WriteKillSwitch(c) ==
  LET d == op[c].day IN
  /\ At(c, "killWrite")
  /\ row' = [row EXCEPT ![d] =
       KillSwitch(IF @ = None THEN SeededRow(AccountCapital) ELSE @, op[c].on)]
  /\ disturbed' = (disturbed \/ row[d] = None)
  /\ Return(c)
  /\ UNCHANGED <<today, memory, counters, booked, unbooked, halted, commanded>>

\* get_market_summary: the row is reconciled if it differs from the book.
AskSummary(c) ==
  /\ At(c, "idle") /\ Command
  /\ Ensure(c, "summary")
  /\ UNCHANGED <<account, memory, entries, history>>

CompareSummary(c) ==
  /\ At(c, "summary")
  /\ \E d \in Selected(c) :
       /\ row[d] # None
       /\ IF row[d].deployed # held THEN CallSync(c, held, TRUE) ELSE Return(c)
  /\ UNCHANGED <<account, memory, counters, history>>

\* A restart with nothing under way: memory is lost, start() ensures the row.
\* (A restart in the middle of an operation is modelled in Session.)
StartEngine(c) ==
  /\ \A x \in Callers : ~Busy(x)
  /\ Command
  /\ pendingFlips' = 0 /\ flipped' = FALSE
  /\ Ensure(c, "clearing")
  /\ UNCHANGED <<account, held, scanLock, entries, history>>

CallClearPaperHalt(c) ==
  /\ At(c, "clearing")
  /\ Goto(c, "clearWrite")
  /\ UNCHANGED <<account, memory, counters, history>>

\* It returns at once unless the breakers are disabled; WHERE NOT kill_switch.  It
\* lifts auto-trade OFF as well.
ClearPaperHalt(c) ==
  LET d == op[c].day IN
  /\ At(c, "clearWrite")
  /\ row' = IF ~BreakersDisabled THEN row
            ELSE Updated(d, IF row[d].kill THEN row[d]
                            ELSE [row[d] EXCEPT !.blocked = FALSE, !.flipsOff = FALSE,
                                                !.state = "NORMAL"])
  /\ EnsureAndReturn(c)
  /\ UNCHANGED <<today, memory, counters, history>>

(***************************************************************************)
(* `assert row is not None` in ensure_daily_state: `today` was fixed after *)
(* a midnight that followed the insert, or a reset deleted the row.        *)
(***************************************************************************)
AssertionFails(c) ==
  /\ op[c].step = "select" /\ \E d \in Selected(c) : row[d] = None
  /\ \/ op[c].pc \in {"flipGate", "flipLimits", "flipHalted", "flipDone"}
        /\ NextFlip(c) /\ UNCHANGED scanLock
     \/ op[c].pc = "gate" /\ EndEntry(c)
     \/ op[c].pc = "entered" /\ op[c].on   \* on to the except branch
        /\ CallSync(c, held, FALSE) /\ UNCHANGED scanLock
     \/ op[c].pc = "entered" /\ ~op[c].on /\ EndEntry(c)
     \/ op[c].pc \in {"postTrade", "emergency", "syncCall", "exited", "killRead",
                      "summary"}
        /\ Return(c) /\ UNCHANGED scanLock
  /\ UNCHANGED <<account, held, pendingFlips, flipped, counters, history>>

\* The columns the reset names; risk_state and the flip columns are not reset.
ResetRow(r) ==
  [r EXCEPT !.starting = AccountCapital, !.available = AccountCapital,
            !.deployed = 0, !.realized = 0, !.trades = 0, !.losses = 0,
            !.kill = FALSE, !.blocked = FALSE]

\* The transaction of reset_paper_account.
ResetRows(c) ==
  /\ At(c, "idle") /\ Command
  /\ row' = [d \in Days |-> IF d # today THEN None
                            ELSE IF row[d] = None THEN SeededRow(AccountCapital)
                            ELSE ResetRow(row[d])]
  /\ Goto(c, "clearBook")
  /\ booked' = 0 /\ unbooked' = 0
  /\ halted' = halted \cap {d \in {today} : row[d] # None}
  /\ commanded' = commanded \cup {today}
  /\ disturbed' = (disturbed \/ ResultUnderWay)
  /\ UNCHANGED <<today, memory, entries>>

\* The book is cleared without the scan lock, whatever is under way.
ClearBook(c) ==
  /\ At(c, "clearBook")
  /\ held' = 0 /\ pendingFlips' = 0
  /\ Return(c)
  /\ UNCHANGED <<account, scanLock, flipped, counters, history>>

-----------------------------------------------------------------------------
Midnight ==
  /\ today < LastDay
  /\ today' = today + 1
  /\ disturbed' = (disturbed \/ MoneyUnderWay)
  /\ UNCHANGED <<row, memory, op, counters, booked, unbooked, halted, commanded>>

-----------------------------------------------------------------------------
EnsureStep(c) ==
  ReadPreviousDay(c) \/ InsertToday(c) \/ AssertionFails(c) \/ FinishCall(c)

EntryStep(c) ==
  \/ TryFlip(c) \/ GateFlip(c) \/ GateEntry(c)
  \/ ReserveCapital(c) \/ FillOrder(c) \/ SyncMargin(c) \/ FinishEntry(c)
  \/ RecordFlip(c) \/ CheckFlipLimits(c) \/ HaltFlips(c) \/ FinishFlip(c)

CloseStep(c) ==
  \/ ReleaseCapital(c) \/ PostTradeCheck(c) \/ HaltEntries(c)
  \/ CallEmergencyHalt(c) \/ EmergencyHalt(c) \/ SyncAfterClose(c) \/ FinishClose(c)

CommandStep(c) ==
  \/ ReadKill(c) \/ WriteAutoTrade(c) \/ CallKillSwitch(c) \/ WriteKillSwitch(c)
  \/ CompareSummary(c) \/ CallClearPaperHalt(c) \/ ClearPaperHalt(c) \/ ClearBook(c)

Next ==
  \/ \E c \in Callers :
       \/ EnsureStep(c) \/ EntryStep(c) \/ CloseStep(c) \/ CommandStep(c)
       \/ StartEntry(c) \/ TakeFlips(c)
       \/ \E pnl \in ClosedPnls : ClosePosition(c, pnl)
       \/ \E on \in BOOLEAN : SetAutoTrade(c, on) \/ PressKillSwitch(c, on)
       \/ AskSummary(c) \/ StartEngine(c) \/ ResetRows(c)
  \/ QueueFlipOfLostClose
  \/ Midnight

Spec == Init /\ [][Next]_vars

-----------------------------------------------------------------------------
OpState == [pc : Pcs, day : Days, step : {"done", "read", "insert", "select"},
            seed : Int, since : Days, total : Nat, pnl : Int,
            flips : Nat, flip : BOOLEAN, on : BOOLEAN, kill : BOOLEAN]

\* Type correctness of the rows, the memory and the callers' locals.
AccountTypeOK ==
  /\ today \in Days
  /\ row \in [Days -> RiskRow \cup {None}]
  /\ held \in Nat /\ pendingFlips \in Nat /\ flipped \in BOOLEAN
  /\ scanLock \in Callers \cup {None}
  /\ op \in [Callers -> OpState]
  /\ halted \subseteq Days /\ commanded \subseteq Days

Resting == \A c \in Callers : ~Busy(c)

\* No earlier day ended with the account used up, or with more in open
\* positions than it was worth.  (Then ensure_paper_account carries the deployed
\* premium, or seeds the configured capital again.)
Solvent ==
  \A d \in EarlierDays : Equity(row[d]) > 0 /\ row[d].deployed <= Equity(row[d])

\* Whoever seeds a new day, whatever is held over midnight, whatever call waits
\* for its row then, and however often the account is reset: at rest today's
\* equity is the configured capital plus every result since, except those that
\* release_capital wrote to no row (previous_day_ending_equity,
\* ensure_paper_account, reset_paper_account).  Not if midnight fell between a
\* reserve_capital or release_capital and its reconciliation, or between the
\* SELECT and the INSERT of a seeding, nor if a reset met a result on its way to
\* the row: the code loses money there (`disturbed`).
EquityCarried ==
  Resting /\ ~disturbed /\ Solvent /\ row[today] # None
    => Equity(row[today]) = AccountCapital + booked - unbooked

\* A halt outlasts the kill switch and the reset, which both clear
\* entries_blocked: until auto-trade ON, the gate still sees it, whatever the
\* limits say by then.  In paper mode with the breakers disabled, as shipped,
\* the gate ignores what is left of it, and nothing is claimed.
HaltOutlastsKillSwitch ==
  ~BreakersDisabled => \A d \in halted : EntriesHalted(GateView(Snapshot(row[d])))

\* No day limit but that of the daily loss is configured.
OnlyLossLimit ==
  MaxTradesPerDay = 0 /\ MaxConsecutiveLosses = 0 /\ MaxLosingPerHour = 0

\* At rest, a reached daily loss limit leaves a halt behind, although the halt is
\* several awaits later than the result.  With no other limit of the day it is
\* EMERGENCY_FLATTEN: the HALTED of a concurrent close never has the last word.
\* (With another limit it may: a close that halts for that limit writes no
\* second state after its HALTED; release_capital.)
EmergencyStands ==
  Resting /\ ~disturbed /\ ~BreakersDisabled /\ today \notin commanded
    /\ row[today] # None /\ LossLimitReached(row[today])
    => /\ row[today].state \in {"HALTED", "EMERGENCY_FLATTEN"}
       /\ EmergencyFlatten /\ OnlyLossLimit => row[today].state = "EMERGENCY_FLATTEN"

\* No day counts more flips than the gate allows: it is asked long before
\* record_flip counts, perhaps with yesterday's row, several flips are popped at
\* once, two may be queued for one close, and a contract already open counts
\* again.  (In paper mode with the breakers disabled no limit is in force.)
FlipsWithinLimit ==
  Effective(MaxFlipsPerDay) > 0 =>
    \A d \in Days : row[d] # None => row[d].flips <= Effective(MaxFlipsPerDay)

\* "Prefer cash + deployed (correct even if a position was left open
\* overnight)": the next day starts with the result of that position too.
OvernightResultCarried ==
  Resting /\ ~disturbed /\ row[today] # None
    => Equity(row[today]) = AccountCapital + booked
=============================================================================
