------------------------- MODULE TradingCoreSafety -------------------------
(***************************************************************************)
(* Type correctness and safety of TradingCore for every number of          *)
(* positions, contracts, scan and exit coroutines, every size of order and *)
(* result, every limit and every number of failures and kill-switch calls. *)
(*                                                                         *)
(* The invariants the runs check are not inductive: they hold because the  *)
(* scan lock is held from the guard to the registration of an entry        *)
(* (LockInv), and because the coroutine that popped a position is its only *)
(* owner and has done exactly the writes that its program counter says     *)
(* (PositionInv).                                                          *)
(***************************************************************************)
EXTENDS TradingCore, LedgerLemmas

LEMMA TotalDeployedNat ==
  ASSUME book \in [Positions -> BookRow], NEW S \in SUBSET Positions
  PROVE  TotalDeployed(S) \in Nat
<1> DEFINE f == [p \in Positions |-> book[p].premium]
<1>1. IsFiniteSet(S)
  BY CoreAssumption, FS_Subset
<1>2. \A p \in S : f[p] \in Nat
  BY DEF BookRow
<1> HIDE DEF f
<1>3. SumOver(f, S) \in Nat
  BY <1>1, <1>2, SumNat
<1> QED BY <1>3 DEF TotalDeployed, f

-----------------------------------------------------------------------------
(***************************************************************************)
(* The updates that the actions make to the local state of a coroutine.    *)
(***************************************************************************)
LEMMA EntryIdle ==
  ASSUME NEW f \in [Entrants -> EntryState], NEW x \in Entrants
  PROVE  [f EXCEPT ![x] = IdleEntry] \in [Entrants -> EntryState]
BY DEF EntryState, IdleEntry, EntryPcs

LEMMA EntryGoto ==
  ASSUME NEW f \in [Entrants -> EntryState], NEW x \in Entrants, NEW pc \in EntryPcs
  PROVE  [f EXCEPT ![x].pc = pc] \in [Entrants -> EntryState]
BY DEF EntryState

LEMMA EntryToken ==
  ASSUME NEW f \in [Entrants -> EntryState], NEW x \in Entrants, NEW pc \in EntryPcs,
         NEW t \in Tokens
  PROVE  [f EXCEPT ![x].pc = pc, ![x].token = t] \in [Entrants -> EntryState]
BY DEF EntryState

LEMMA EntrySnap ==
  ASSUME NEW f \in [Entrants -> EntryState], NEW x \in Entrants, NEW pc \in EntryPcs,
         NEW r \in RiskRow
  PROVE  [f EXCEPT ![x].pc = pc, ![x].snap = r] \in [Entrants -> EntryState]
BY DEF EntryState

LEMMA EntryPut ==
  ASSUME NEW f \in [Entrants -> EntryState], NEW x \in Entrants, NEW r \in EntryState
  PROVE  [f EXCEPT ![x] = r] \in [Entrants -> EntryState]
OBVIOUS

\* A premium is a price for a number of lots.
LEMMA PremiumNat ==
  ASSUME NEW price \in Prices, NEW n \in Nat PROVE price * n \in Nat
<1>1. price \in Nat
  BY CoreAssumption
<1> QED BY <1>1

\* The order of a scan is rejected, or filled for some lots at some premium.
BuysSome(e, n, m) ==
  /\ entry'[e] \in EntryState
  /\ entry'[e].pc = "filled" /\ entry'[e].lots = n /\ entry'[e].premium = m
  /\ entry'[e].asked = entry[e].asked /\ entry'[e].token = entry[e].token
  /\ entry'[e].snap = entry[e].snap /\ entry'[e].pos = entry[e].pos

LEMMA FillBuys ==
  ASSUME TypeOK, NEW e \in Entrants, NEW n \in Nat, NEW m \in Nat, FillBuyOrder(e, n, m)
  PROVE  BuysSome(e, n, m) /\ entry' \in [Entrants -> EntryState]
<1>t. entry \in [Entrants -> EntryState] /\ entry[e] \in EntryState
  BY DEF TypeOK
<1> DEFINE r == [entry[e] EXCEPT !.pc = "filled", !.lots = n, !.premium = m]
<1>1. r \in EntryState
  BY <1>t DEF EntryState, EntryPcs
<1>2. entry' = [entry EXCEPT ![e] = r]
  BY DEF FillBuyOrder
<1>3. /\ r.pc = "filled" /\ r.lots = n /\ r.premium = m /\ r.asked = entry[e].asked
      /\ r.token = entry[e].token /\ r.snap = entry[e].snap /\ r.pos = entry[e].pos
  BY <1>t DEF EntryState
<1> HIDE DEF r
<1>4. entry'[e] = r
  BY <1>t, <1>2
<1>5. entry' \in [Entrants -> EntryState]
  BY <1>t, <1>1, <1>2, EntryPut
<1> QED BY <1>1, <1>3, <1>4, <1>5 DEF BuysSome

LEMMA BuyOrderCases ==
  ASSUME TypeOK, NEW e \in Entrants, PlaceBuyOrder(e)
  PROVE  /\ \/ \E n, m \in Nat :
                 /\ BuysSome(e, n, m) /\ FillBuyOrder(e, n, m)
                 /\ n = entry[e].lots => m = entry[e].premium
            \/ entry' = [entry EXCEPT ![e].pc = "rejected"]
         /\ entry' \in [Entrants -> EntryState]
         /\ \A x \in Entrants \ {e} : entry'[x] = entry[x]
<1>1. /\ entry[e].lots \in Nat /\ entry[e].premium \in Nat
      /\ entry \in [Entrants -> EntryState]
  BY DEF TypeOK, EntryState
<1>2. ASSUME NEW fill \in 1..(entry[e].lots - 1), NEW price \in Prices,
             FillBuyOrder(e, fill, price * fill)
      PROVE  \E n, m \in Nat : /\ BuysSome(e, n, m) /\ FillBuyOrder(e, n, m)
                               /\ n = entry[e].lots => m = entry[e].premium
  <2>1. fill \in Nat /\ fill # entry[e].lots
    BY <1>1
  <2>2. price * fill \in Nat
    BY <2>1, PremiumNat
  <2>3. BuysSome(e, fill, price * fill)
    BY <1>2, <2>1, <2>2, FillBuys
  <2> QED BY <1>2, <2>1, <2>2, <2>3
<1>3. CASE FillBuyOrder(e, entry[e].lots, entry[e].premium)
  <2>1. BuysSome(e, entry[e].lots, entry[e].premium)
    BY <1>1, <1>3, FillBuys
  <2> QED BY <1>1, <1>3, <2>1, FillBuys DEF FillBuyOrder
<1>4. CASE entry' = [entry EXCEPT ![e].pc = "rejected"]
  BY <1>1, <1>4, EntryGoto DEF EntryPcs
<1>5. ASSUME NEW n \in Nat, NEW m \in Nat, FillBuyOrder(e, n, m)
      PROVE  /\ entry' \in [Entrants -> EntryState]
             /\ \A x \in Entrants \ {e} : entry'[x] = entry[x]
  BY <1>1, <1>5, FillBuys DEF FillBuyOrder
<1> QED BY <1>2, <1>3, <1>4, <1>5 DEF PlaceBuyOrder

\* A size_entry that approves: the lots asked for, and their premium.
LEMMA SizeEntryFacts ==
  ASSUME TypeOK, NEW e \in Entrants, NEW lots \in LotSizes, NEW price \in Prices,
         SizeEntry(e, lots, price)
  PROVE  /\ entry' \in [Entrants -> EntryState]
         /\ entry'[e].pc = "sized" /\ entry'[e].premium = price * lots
         /\ entry'[e].lots = lots /\ entry'[e].asked = lots
         /\ entry'[e].snap = entry[e].snap /\ entry'[e].token = entry[e].token
         /\ \A x \in Entrants \ {e} : entry'[x] = entry[x]
<1>t. /\ entry \in [Entrants -> EntryState] /\ entry[e] \in EntryState
      /\ lots \in Nat
  BY CoreAssumption DEF TypeOK
<1> DEFINE m == price * lots
<1>1. m \in Nat
  BY <1>t, PremiumNat
<1> DEFINE r == [entry[e] EXCEPT !.pc = "sized", !.asked = lots, !.lots = lots,
                                 !.premium = m]
<1>2. entry' = [entry EXCEPT ![e] = r]
  BY DEF SizeEntry
<1> HIDE DEF m
<1>3. r \in EntryState
  BY <1>t, <1>1 DEF EntryState, EntryPcs
<1>4. /\ r.pc = "sized" /\ r.lots = lots /\ r.premium = m /\ r.asked = lots
      /\ r.token = entry[e].token /\ r.snap = entry[e].snap
  BY <1>t DEF EntryState
<1> HIDE DEF r
<1>5. entry'[e] = r /\ \A x \in Entrants \ {e} : entry'[x] = entry[x]
  BY <1>t, <1>2
<1>6. entry' \in [Entrants -> EntryState]
  BY <1>t, <1>2, <1>3, EntryPut
<1> QED BY <1>4, <1>5, <1>6 DEF m

LEMMA EntryPos ==
  ASSUME NEW f \in [Entrants -> EntryState], NEW x \in Entrants, NEW pc \in EntryPcs,
         NEW p \in Positions
  PROVE  [f EXCEPT ![x].pc = pc, ![x].pos = p] \in [Entrants -> EntryState]
BY DEF EntryState

LEMMA EntryTotal ==
  ASSUME NEW f \in [Entrants -> EntryState], NEW x \in Entrants, NEW pc \in EntryPcs,
         NEW n \in Nat
  PROVE  [f EXCEPT ![x].pc = pc, ![x].total = n] \in [Entrants -> EntryState]
BY DEF EntryState

LEMMA ExitIdle ==
  ASSUME NEW f \in [Closers -> ExitState], NEW x \in Closers
  PROVE  [f EXCEPT ![x] = IdleExit] \in [Closers -> ExitState]
BY DEF ExitState, IdleExit, ExitPcs

LEMMA ExitGoto ==
  ASSUME NEW f \in [Closers -> ExitState], NEW x \in Closers, NEW pc \in ExitPcs
  PROVE  [f EXCEPT ![x].pc = pc] \in [Closers -> ExitState]
BY DEF ExitState

LEMMA ExitPos ==
  ASSUME NEW f \in [Closers -> ExitState], NEW x \in Closers, NEW pc \in ExitPcs,
         NEW p \in Positions
  PROVE  [f EXCEPT ![x].pc = pc, ![x].pos = p] \in [Closers -> ExitState]
BY DEF ExitState

LEMMA ExitPnl ==
  ASSUME NEW f \in [Closers -> ExitState], NEW x \in Closers, NEW pc \in ExitPcs,
         NEW n \in Pnls
  PROVE  [f EXCEPT ![x].pc = pc, ![x].pnl = n] \in [Closers -> ExitState]
BY DEF ExitState

LEMMA ExitTotal ==
  ASSUME NEW f \in [Closers -> ExitState], NEW x \in Closers, NEW pc \in ExitPcs,
         NEW n \in Nat
  PROVE  [f EXCEPT ![x].pc = pc, ![x].total = n] \in [Closers -> ExitState]
BY DEF ExitState

-----------------------------------------------------------------------------
\* What a coroutine's locals hold at the points where they are used.
LocalsOK ==
  /\ \A e \in Entrants : entry[e].pc = "journaled" => entry[e].pos \in Positions
  /\ \A c \in Closers : exit[c].pc # "idle" => exit[c].pos \in Positions
  /\ \A c \in Closers :
       exit[c].pc \notin {"idle", "decided", "selling"} => exit[c].pnl \in Pnls

TypeInv == TypeOK /\ LocalsOK

LEMMA InitType == Init => TypeInv
<1> SUFFICES ASSUME Init PROVE TypeInv
  OBVIOUS
<1>1. risk \in RiskRow
  BY CapitalAssumption DEF Init, RiskRow, FreshRow, RiskStates
<1>2. entry \in [Entrants -> EntryState] /\ exit \in [Closers -> ExitState]
  BY DEF Init, EntryState, ExitState, IdleEntry, IdleExit, EntryPcs, ExitPcs
<1>3. summary \in SummaryState
  BY DEF Init, SummaryState, IdleSummary
<1> QED
  BY <1>1, <1>2, <1>3 DEF Init, TypeInv, TypeOK, LocalsOK, BookRow, IdleEntry, IdleExit

\* The steps of a scan keep the types.
LEMMA EntryStepType ==
  ASSUME TypeInv, NEW e \in Entrants, AcquireScan(e) \/ EntryStep(e)
  PROVE  TypeInv'
<1>1. CASE AcquireScan(e)
  <2>1. entry' \in [Entrants -> EntryState]
    BY <1>1, EntryGoto
    DEF AcquireScan, EntryPcs, TypeInv, TypeOK
  <2>2. scanLock' \in Entrants \cup {None}
    BY <1>1 DEF AcquireScan, TypeInv, TypeOK
  <2>3. UNCHANGED <<risk, status, book, trade, sells, sold, open, inCooldown,
                  entering, exit, summary, failures, killPresses, recentExit,
                  credited>>
    BY <1>1 DEF AcquireScan, database, memory, history
  <2>4. TypeOK'
    BY <2>1, <2>2, <2>3 DEF TypeInv, TypeOK
  <2>5. \A x \in Entrants : entry'[x].pc = "journaled" => entry'[x].pos \in Positions
    BY <1>1 DEF AcquireScan, EntryState, LocalsOK, TypeInv, TypeOK
  <2>6. LocalsOK'
    BY <2>3, <2>5 DEF TypeInv, LocalsOK
  <2> QED BY <2>4, <2>6 DEF TypeInv
<1>2. CASE AbandonEntry(e)
  <2>1. entry' \in [Entrants -> EntryState]
    BY <1>2, EntryIdle
    DEF AbandonEntry, EntryPcs, Finish, TypeInv, TypeOK
  <2>2. scanLock' \in Entrants \cup {None}
    BY <1>2 DEF AbandonEntry, Finish, TypeInv, TypeOK
  <2>3. entering' \subseteq Tokens
    BY <1>2 DEF AbandonEntry, Finish, TypeInv, TypeOK
  <2>4. UNCHANGED <<risk, status, book, trade, sells, sold, open, inCooldown,
                  exit, summary, failures, killPresses, recentExit, credited>>
    BY <1>2 DEF AbandonEntry, database, memory, history
  <2>5. TypeOK'
    BY <2>1, <2>2, <2>3, <2>4 DEF TypeInv, TypeOK
  <2>6. \A x \in Entrants : entry'[x].pc = "journaled" => entry'[x].pos \in Positions
    BY <1>2 DEF AbandonEntry, EntryState, Finish, IdleEntry, LocalsOK, TypeInv, TypeOK
  <2>7. LocalsOK'
    BY <2>4, <2>6 DEF TypeInv, LocalsOK
  <2> QED BY <2>5, <2>7 DEF TypeInv
<1>3. ASSUME NEW t \in Tokens, ExecuteSignal(e, t) PROVE TypeInv'
  <2>1. entry' \in [Entrants -> EntryState]
    BY <1>3, EntryToken
    DEF EntryPcs, ExecuteSignal, TypeInv, TypeOK
  <2>2. entering' \subseteq Tokens
    BY <1>3 DEF ExecuteSignal, TypeInv, TypeOK
  <2>3. UNCHANGED <<risk, status, book, trade, sells, sold, open, inCooldown,
                  scanLock, exit, summary, failures, killPresses, recentExit,
                  credited>>
    BY <1>3 DEF ExecuteSignal, database, memory, history
  <2>4. TypeOK'
    BY <2>1, <2>2, <2>3 DEF TypeInv, TypeOK
  <2>5. \A x \in Entrants : entry'[x].pc = "journaled" => entry'[x].pos \in Positions
    BY <1>3 DEF EntryState, ExecuteSignal, LocalsOK, TypeInv, TypeOK
  <2>6. LocalsOK'
    BY <2>3, <2>5 DEF TypeInv, LocalsOK
  <2> QED BY <2>4, <2>6 DEF TypeInv
<1>4. CASE CheckBlocked(e)
  <2>1. Snapshot(risk) \in RiskRow
    BY SnapshotType DEF TypeInv, TypeOK
  <2>2. entry' \in [Entrants -> EntryState]
    BY <1>4, <2>1, EntrySnap
    DEF CheckBlocked, EntryPcs, TypeInv, TypeOK
  <2>3. UNCHANGED <<risk, status, book, trade, sells, sold, open, inCooldown,
                  scanLock, entering, exit, summary, failures, killPresses,
                  recentExit, credited>>
    BY <1>4 DEF CheckBlocked, database, memory, history
  <2>4. TypeOK'
    BY <2>2, <2>3 DEF TypeInv, TypeOK
  <2>5. \A x \in Entrants : entry'[x].pc = "journaled" => entry'[x].pos \in Positions
    BY <1>4 DEF CheckBlocked, EntryState, LocalsOK, TypeInv, TypeOK
  <2>6. LocalsOK'
    BY <2>3, <2>5 DEF TypeInv, LocalsOK
  <2> QED BY <2>4, <2>6 DEF TypeInv
<1>5. CASE Validate(e)
  <2>1. entry' \in [Entrants -> EntryState]
    BY <1>5, EntryGoto
    DEF EntryPcs, TypeInv, TypeOK, Validate
  <2>2. UNCHANGED <<risk, status, book, trade, sells, sold, open, inCooldown,
                  scanLock, entering, exit, summary, failures, killPresses,
                  recentExit, credited>>
    BY <1>5 DEF Validate, database, memory, history
  <2>3. TypeOK'
    BY <2>1, <2>2 DEF TypeInv, TypeOK
  <2>4. \A x \in Entrants : entry'[x].pc = "journaled" => entry'[x].pos \in Positions
    BY <1>5 DEF EntryState, LocalsOK, TypeInv, TypeOK, Validate
  <2>5. LocalsOK'
    BY <2>2, <2>4 DEF TypeInv, LocalsOK
  <2> QED BY <2>3, <2>5 DEF TypeInv
<1>6. ASSUME NEW lots \in LotSizes, NEW price \in Prices, SizeEntry(e, lots, price)
      PROVE  TypeInv'
  <2>1. TypeOK
    BY DEF TypeInv
  <2>2. entry' \in [Entrants -> EntryState]
    BY <1>6, <2>1, SizeEntryFacts
  <2>3. UNCHANGED <<risk, status, book, trade, sells, sold, open, inCooldown,
                  scanLock, entering, exit, summary, failures, killPresses,
                  recentExit, credited>>
    BY <1>6 DEF SizeEntry, database, memory, history
  <2>4. TypeOK'
    BY <2>2, <2>3 DEF TypeInv, TypeOK
  <2>5. \A x \in Entrants : entry'[x].pc = "journaled" => entry'[x].pos \in Positions
    BY <1>6, <2>1, SizeEntryFacts DEF LocalsOK, TypeInv
  <2>6. LocalsOK'
    BY <2>3, <2>5 DEF TypeInv, LocalsOK
  <2> QED BY <2>4, <2>6 DEF TypeInv
<1>7. CASE ReserveCapital(e)
  <2>1. entry[e].premium \in Int
    BY DEF EntryState, TypeInv, TypeOK
  <2>2. entry' \in [Entrants -> EntryState]
    BY <1>7, <2>1, EntryGoto
    DEF EntryPcs, ReserveCapital, TypeInv, TypeOK
  <2>3. risk' \in RiskRow
    BY <1>7, <2>1, ReserveType DEF ReserveCapital, TypeInv, TypeOK
  <2>4. UNCHANGED <<status, book, trade, sells, sold, open, inCooldown,
                  scanLock, entering, exit, summary, failures, killPresses,
                  recentExit, credited>>
    BY <1>7 DEF ReserveCapital, database, memory, history
  <2>5. TypeOK'
    BY <2>2, <2>3, <2>4 DEF TypeInv, TypeOK
  <2>6. \A x \in Entrants : entry'[x].pc = "journaled" => entry'[x].pos \in Positions
    BY <1>7 DEF EntryState, LocalsOK, ReserveCapital, TypeInv, TypeOK
  <2>7. LocalsOK'
    BY <2>4, <2>6 DEF TypeInv, LocalsOK
  <2> QED BY <2>5, <2>7 DEF TypeInv
<1>8. CASE PlaceBuyOrder(e)
  <2>1. TypeOK
    BY DEF TypeInv
  <2>2. entry' \in [Entrants -> EntryState]
    BY <1>8, <2>1, BuyOrderCases
  <2>3. UNCHANGED <<risk, status, book, trade, sells, sold, open, inCooldown,
                  scanLock, entering, exit, summary, failures, killPresses,
                  recentExit, credited>>
    BY <1>8 DEF PlaceBuyOrder, database, memory, history
  <2>4. TypeOK'
    BY <2>2, <2>3 DEF TypeInv, TypeOK
  <2>5. \A x \in Entrants : entry'[x].pc = "journaled" => entry'[x].pos \in Positions
    <3>1. entry'[e].pc # "journaled"
      BY <1>8, <2>1, BuyOrderCases DEF BuysSome, TypeOK, EntryState
    <3>2. \A x \in Entrants \ {e} : entry'[x] = entry[x]
      BY <1>8, <2>1, BuyOrderCases
    <3> QED BY <3>1, <3>2 DEF TypeInv, LocalsOK
  <2>6. LocalsOK'
    BY <2>3, <2>5 DEF TypeInv, LocalsOK
  <2> QED BY <2>4, <2>6 DEF TypeInv
<1>9. ASSUME NEW p \in Positions, WritePositionOpened(e, p) PROVE TypeInv'
  <2>1. [token |-> entry[e].token, lots |-> entry[e].lots,
         premium |-> entry[e].premium] \in BookRow
    BY DEF BookRow, EntryState, TypeInv, TypeOK
  <2>2. entry' \in [Entrants -> EntryState]
    BY <1>9, <2>1, EntryPos
    DEF EntryPcs, TypeInv, TypeOK, WritePositionOpened
  <2>3. status' \in [Positions -> {"none", "OPEN", "CLOSED"}]
    BY <1>9, <2>1 DEF TypeInv, TypeOK, WritePositionOpened
  <2>4. book' \in [Positions -> BookRow]
    BY <1>9, <2>1 DEF TypeInv, TypeOK, WritePositionOpened
  <2>5. UNCHANGED <<risk, trade, sells, sold, open, inCooldown, scanLock,
                  entering, exit, summary, failures, killPresses, recentExit,
                  credited>>
    BY <1>9 DEF WritePositionOpened, database, memory, history
  <2>6. TypeOK'
    BY <2>2, <2>3, <2>4, <2>5 DEF TypeInv, TypeOK
  <2>7. \A x \in Entrants : entry'[x].pc = "journaled" => entry'[x].pos \in Positions
    BY <1>9 DEF EntryState, LocalsOK, TypeInv, TypeOK, WritePositionOpened
  <2>8. LocalsOK'
    BY <2>5, <2>7 DEF TypeInv, LocalsOK
  <2> QED BY <2>6, <2>8 DEF TypeInv
<1>10. CASE RegisterOpen(e)
  <2>1. entry[e].pos \in Positions
    BY <1>10 DEF At, LocalsOK, RegisterOpen, TypeInv, TypeOK
  <2>2. open' \subseteq Positions
    BY <1>10, <2>1 DEF RegisterOpen, TypeInv, TypeOK
  <2>3. TotalDeployed(open') \in Nat
    BY <2>2, TotalDeployedNat DEF TypeInv, TypeOK
  <2>4. entry' \in [Entrants -> EntryState]
    BY <1>10, <2>1, <2>2, <2>3, EntryTotal
    DEF EntryPcs, RegisterOpen, TypeInv, TypeOK
  <2>5. UNCHANGED <<risk, status, book, trade, sells, sold, inCooldown,
                  scanLock, entering, exit, summary, failures, killPresses,
                  recentExit, credited>>
    BY <1>10 DEF RegisterOpen, database, memory, history
  <2>6. TypeOK'
    BY <2>4, <2>2, <2>5 DEF TypeInv, TypeOK
  <2>7. \A x \in Entrants : entry'[x].pc = "journaled" => entry'[x].pos \in Positions
    BY <1>10 DEF EntryState, LocalsOK, RegisterOpen, TypeInv, TypeOK
  <2>8. LocalsOK'
    BY <2>5, <2>7 DEF TypeInv, LocalsOK
  <2> QED BY <2>6, <2>8 DEF TypeInv
<1>11. CASE EntryRaises(e)
  <2>1. TotalDeployed(open) \in Nat
    BY TotalDeployedNat DEF TypeInv, TypeOK
  <2>2. entry' \in [Entrants -> EntryState]
    BY <1>11, <2>1, EntryTotal
    DEF EntryPcs, EntryRaises, TypeInv, TypeOK
  <2>3. failures' \in Nat
    BY <1>11, <2>1 DEF EntryRaises, TypeInv, TypeOK
  <2>4. UNCHANGED <<risk, status, book, trade, sells, sold, open, inCooldown,
                  scanLock, entering, exit, summary, killPresses, recentExit,
                  credited>>
    BY <1>11 DEF EntryRaises, database, memory, history
  <2>5. TypeOK'
    BY <2>2, <2>3, <2>4 DEF TypeInv, TypeOK
  <2>6. \A x \in Entrants : entry'[x].pc = "journaled" => entry'[x].pos \in Positions
    BY <1>11 DEF EntryRaises, EntryState, LocalsOK, TypeInv, TypeOK
  <2>7. LocalsOK'
    BY <2>4, <2>6 DEF TypeInv, LocalsOK
  <2> QED BY <2>5, <2>7 DEF TypeInv
<1>12. CASE SyncEntryMargin(e)
  <2>1. entry[e].total \in Int
    BY DEF EntryState, TypeInv, TypeOK
  <2>2. entry' \in [Entrants -> EntryState]
    BY <1>12, <2>1, EntryIdle
    DEF EntryPcs, Finish, SyncEntryMargin, TypeInv, TypeOK
  <2>3. risk' \in RiskRow
    BY <1>12, <2>1, ReconcileType DEF Finish, SyncEntryMargin, TypeInv, TypeOK
  <2>4. scanLock' \in Entrants \cup {None}
    BY <1>12, <2>1 DEF Finish, SyncEntryMargin, TypeInv, TypeOK
  <2>5. entering' \subseteq Tokens
    BY <1>12, <2>1 DEF Finish, SyncEntryMargin, TypeInv, TypeOK
  <2>6. UNCHANGED <<status, book, trade, sells, sold, open, inCooldown, exit,
                  summary, failures, killPresses, recentExit, credited>>
    BY <1>12 DEF SyncEntryMargin, database, memory, history
  <2>7. TypeOK'
    BY <2>2, <2>3, <2>4, <2>5, <2>6 DEF TypeInv, TypeOK
  <2>8. \A x \in Entrants : entry'[x].pc = "journaled" => entry'[x].pos \in Positions
    BY <1>12 DEF EntryState, Finish, IdleEntry, LocalsOK, SyncEntryMargin, TypeInv,
        TypeOK
  <2>9. LocalsOK'
    BY <2>6, <2>8 DEF TypeInv, LocalsOK
  <2> QED BY <2>7, <2>9 DEF TypeInv
<1>13. CASE UnwindRaises(e)
  <2>1. entry' \in [Entrants -> EntryState]
    BY <1>13, EntryIdle
    DEF EntryPcs, Finish, TypeInv, TypeOK, UnwindRaises
  <2>2. failures' \in Nat
    BY <1>13 DEF Finish, TypeInv, TypeOK, UnwindRaises
  <2>3. scanLock' \in Entrants \cup {None}
    BY <1>13 DEF Finish, TypeInv, TypeOK, UnwindRaises
  <2>4. entering' \subseteq Tokens
    BY <1>13 DEF Finish, TypeInv, TypeOK, UnwindRaises
  <2>5. UNCHANGED <<risk, status, book, trade, sells, sold, open, inCooldown,
                  exit, summary, killPresses, recentExit, credited>>
    BY <1>13 DEF UnwindRaises, database, memory, history
  <2>6. TypeOK'
    BY <2>1, <2>2, <2>3, <2>4, <2>5 DEF TypeInv, TypeOK
  <2>7. \A x \in Entrants : entry'[x].pc = "journaled" => entry'[x].pos \in Positions
    BY <1>13 DEF EntryState, Finish, IdleEntry, LocalsOK, TypeInv, TypeOK, UnwindRaises
  <2>8. LocalsOK'
    BY <2>5, <2>7 DEF TypeInv, LocalsOK
  <2> QED BY <2>6, <2>8 DEF TypeInv
<1> QED
  BY <1>1, <1>2, <1>3, <1>4, <1>5, <1>6, <1>7, <1>8, <1>9, <1>10, <1>11,
     <1>12, <1>13 DEF EntryStep

\* The steps of an exit keep the types.
LEMMA ExitStepType ==
  ASSUME TypeInv, NEW c \in Closers,
         ExitStep(c) \/ ExitRaises(c) \/ \E p \in Positions : DecideExit(c, p)
  PROVE  TypeInv'
<1>1. CASE PopPosition(c)
  <2>1. exit' \in [Closers -> ExitState]
    <3>1. CASE exit' = [exit EXCEPT ![c].pc = "selling"]
      BY <3>1, ExitGoto DEF ExitPcs, TypeInv, TypeOK
    <3>2. CASE exit' = [exit EXCEPT ![c] = IdleExit]
      BY <3>2, ExitIdle DEF TypeInv, TypeOK
    <3> QED BY <1>1, <3>1, <3>2 DEF PopPosition, Goto
  <2>2. open' \subseteq Positions
    BY <1>1 DEF PopPosition, TypeInv, TypeOK
  <2>3. recentExit' \in BOOLEAN
    BY <1>1 DEF PopPosition, TypeInv, TypeOK
  <2>4. UNCHANGED <<risk, status, book, trade, sells, sold, inCooldown,
                  scanLock, entering, entry, summary, failures, killPresses,
                  credited>>
    BY <1>1 DEF PopPosition, database, memory, history
  <2>5. TypeOK'
    BY <2>1, <2>2, <2>3, <2>4 DEF TypeInv, TypeOK
  <2>6. \A x \in Closers :
          /\ exit'[x].pc # "idle" => exit'[x].pos \in Positions
          /\ exit'[x].pc \notin {"idle", "decided", "selling"} => exit'[x].pnl \in Pnls
    BY <1>1 DEF Closing, ExitState, Goto, IdleExit, LocalsOK, PopPosition, TypeInv,
        TypeOK
  <2>7. LocalsOK'
    BY <2>4, <2>6 DEF TypeInv, LocalsOK
  <2> QED BY <2>5, <2>7 DEF TypeInv
<1>2. CASE PlaceSellOrder(c)
  <2>1. exit[c].pos \in Positions
    BY <1>2 DEF PlaceSellOrder, Closing, LocalsOK, TypeInv, TypeOK
  <2>2. exit' \in [Closers -> ExitState]
    <3>1. PICK pnl \in Pnls : exit' = [exit EXCEPT ![c].pc = "sold", ![c].pnl = pnl]
      BY <1>2 DEF PlaceSellOrder
    <3> QED BY <3>1, ExitPnl DEF ExitPcs, TypeInv, TypeOK
  <2>3. sells' \in [Positions -> Nat]
    BY <1>2, <2>1 DEF PlaceSellOrder, TypeInv, TypeOK
  <2>4. sold' \in [Positions -> Nat]
    BY <1>2, <2>1 DEF PlaceSellOrder, TypeInv, TypeOK
  <2>5. UNCHANGED <<risk, status, book, trade, open, inCooldown, scanLock,
                  entering, entry, summary, failures, killPresses, recentExit,
                  credited>>
    BY <1>2 DEF PlaceSellOrder, database, memory, history
  <2>6. TypeOK'
    BY <2>2, <2>3, <2>4, <2>5 DEF TypeInv, TypeOK
  <2>7. \A x \in Closers :
          /\ exit'[x].pc # "idle" => exit'[x].pos \in Positions
          /\ exit'[x].pc \notin {"idle", "decided", "selling"} => exit'[x].pnl \in Pnls
    BY <1>2, <2>1 DEF Closing, ExitState, Goto, IdleExit, LocalsOK, PlaceSellOrder, TypeInv,
        TypeOK
  <2>8. LocalsOK'
    BY <2>5, <2>7 DEF TypeInv, LocalsOK
  <2> QED BY <2>6, <2>8 DEF TypeInv
<1>3. CASE WritePositionClosed(c)
  <2>1. exit[c].pos \in Positions
    BY <1>3 DEF WritePositionClosed, Closing, LocalsOK, TypeInv, TypeOK
  <2>2. exit' \in [Closers -> ExitState]
    BY <1>3, <2>1, ExitGoto
    DEF ExitPcs, Goto, TypeInv, TypeOK, WritePositionClosed
  <2>3. status' \in [Positions -> {"none", "OPEN", "CLOSED"}]
    BY <1>3, <2>1 DEF TypeInv, TypeOK, WritePositionClosed
  <2>4. UNCHANGED <<risk, book, trade, sells, sold, open, inCooldown, scanLock,
                  entering, entry, summary, failures, killPresses, recentExit,
                  credited>>
    BY <1>3 DEF WritePositionClosed, database, memory, history
  <2>5. TypeOK'
    BY <2>2, <2>3, <2>4 DEF TypeInv, TypeOK
  <2>6. \A x \in Closers :
          /\ exit'[x].pc # "idle" => exit'[x].pos \in Positions
          /\ exit'[x].pc \notin {"idle", "decided", "selling"} => exit'[x].pnl \in Pnls
    BY <1>3, <2>1 DEF Closing, ExitState, Goto, IdleExit, LocalsOK, TypeInv, TypeOK,
        WritePositionClosed
  <2>7. LocalsOK'
    BY <2>4, <2>6 DEF TypeInv, LocalsOK
  <2> QED BY <2>5, <2>7 DEF TypeInv
<1>4. CASE WriteClosedTrade(c)
  <2>1. exit[c].pos \in Positions
    BY <1>4 DEF WriteClosedTrade, Closing, LocalsOK, TypeInv, TypeOK
  <2>2. exit[c].pnl \in Pnls
    BY <1>4 DEF WriteClosedTrade, Closing, LocalsOK, TypeInv, TypeOK
  <2>3. exit' \in [Closers -> ExitState]
    BY <1>4, <2>1, <2>2, ExitGoto
    DEF ExitPcs, Goto, TypeInv, TypeOK, WriteClosedTrade
  <2>4. trade' \in [Positions -> Pnls \cup {None}]
    BY <1>4, <2>1, <2>2 DEF TypeInv, TypeOK, WriteClosedTrade
  <2>5. UNCHANGED <<risk, status, book, sells, sold, open, inCooldown, scanLock,
                  entering, entry, summary, failures, killPresses, recentExit,
                  credited>>
    BY <1>4 DEF WriteClosedTrade, database, memory, history
  <2>6. TypeOK'
    BY <2>3, <2>4, <2>5 DEF TypeInv, TypeOK
  <2>7. \A x \in Closers :
          /\ exit'[x].pc # "idle" => exit'[x].pos \in Positions
          /\ exit'[x].pc \notin {"idle", "decided", "selling"} => exit'[x].pnl \in Pnls
    BY <1>4, <2>1, <2>2 DEF Closing, ExitState, Goto, IdleExit, LocalsOK, TypeInv, TypeOK,
        WriteClosedTrade
  <2>8. LocalsOK'
    BY <2>5, <2>7 DEF TypeInv, LocalsOK
  <2> QED BY <2>6, <2>8 DEF TypeInv
<1>5. CASE ReleaseCapital(c)
  <2>1. exit[c].pos \in Positions
    BY <1>5 DEF ReleaseCapital, Closing, LocalsOK, TypeInv, TypeOK
  <2>2. book[exit[c].pos].premium \in Int
    BY <2>1 DEF BookRow, TypeInv, TypeOK
  <2>3. exit[c].pnl \in Int
    BY <1>5, CoreAssumption DEF ReleaseCapital, Closing, LocalsOK, TypeInv, TypeOK
  <2>4. exit' \in [Closers -> ExitState]
    BY <1>5, <2>1, <2>2, <2>3, ExitGoto
    DEF ExitPcs, Goto, ReleaseCapital, TypeInv, TypeOK
  <2>5. risk' \in RiskRow
    BY <1>5, <2>1, <2>2, <2>3, ReleaseType DEF ReleaseCapital, TypeInv, TypeOK
  <2>6. credited' \in [Positions -> Nat]
    BY <1>5, <2>1, <2>2, <2>3 DEF ReleaseCapital, TypeInv, TypeOK
  <2>7. UNCHANGED <<status, book, trade, sells, sold, open, inCooldown,
                  scanLock, entering, entry, summary, failures, killPresses,
                  recentExit>>
    BY <1>5 DEF ReleaseCapital, database, memory, history
  <2>8. TypeOK'
    BY <2>4, <2>5, <2>6, <2>7 DEF TypeInv, TypeOK
  <2>9. \A x \in Closers :
          /\ exit'[x].pc # "idle" => exit'[x].pos \in Positions
          /\ exit'[x].pc \notin {"idle", "decided", "selling"} => exit'[x].pnl \in Pnls
    BY <1>5, <2>1, <2>2, <2>3 DEF Closing, ExitState, Goto, IdleExit, LocalsOK, ReleaseCapital, TypeInv,
        TypeOK
  <2>10. LocalsOK'
    BY <2>7, <2>9 DEF TypeInv, LocalsOK
  <2> QED BY <2>8, <2>10 DEF TypeInv
<1>6. CASE PostTradeCheck(c)
  <2>1. exit' \in [Closers -> ExitState]
    BY <1>6, ExitGoto
    DEF ExitPcs, Goto, PostTradeCheck, TypeInv, TypeOK
  <2>2. UNCHANGED <<risk, status, book, trade, sells, sold, open, inCooldown,
                  scanLock, entering, entry, summary, failures, killPresses,
                  recentExit, credited>>
    BY <1>6 DEF PostTradeCheck, database, memory, history
  <2>3. TypeOK'
    BY <2>1, <2>2 DEF TypeInv, TypeOK
  <2>4. \A x \in Closers :
          /\ exit'[x].pc # "idle" => exit'[x].pos \in Positions
          /\ exit'[x].pc \notin {"idle", "decided", "selling"} => exit'[x].pnl \in Pnls
    BY <1>6 DEF Closing, ExitState, Goto, IdleExit, LocalsOK, PostTradeCheck, TypeInv,
        TypeOK
  <2>5. LocalsOK'
    BY <2>2, <2>4 DEF TypeInv, LocalsOK
  <2> QED BY <2>3, <2>5 DEF TypeInv
<1>7. CASE HaltEntries(c)
  <2>1. exit' \in [Closers -> ExitState]
    BY <1>7, ExitGoto
    DEF ExitPcs, Goto, HaltEntries, TypeInv, TypeOK
  <2>2. risk' \in RiskRow
    BY <1>7, HaltType DEF HaltEntries, RiskStates, TypeInv, TypeOK
  <2>3. UNCHANGED <<status, book, trade, sells, sold, open, inCooldown,
                  scanLock, entering, entry, summary, failures, killPresses,
                  recentExit, credited>>
    BY <1>7 DEF HaltEntries, database, memory, history
  <2>4. TypeOK'
    BY <2>1, <2>2, <2>3 DEF TypeInv, TypeOK
  <2>5. \A x \in Closers :
          /\ exit'[x].pc # "idle" => exit'[x].pos \in Positions
          /\ exit'[x].pc \notin {"idle", "decided", "selling"} => exit'[x].pnl \in Pnls
    BY <1>7 DEF Closing, ExitState, Goto, HaltEntries, IdleExit, LocalsOK, TypeInv,
        TypeOK
  <2>6. LocalsOK'
    BY <2>3, <2>5 DEF TypeInv, LocalsOK
  <2> QED BY <2>4, <2>6 DEF TypeInv
<1>8. CASE ReadBook(c)
  <2>1. TotalDeployed(open) \in Nat
    BY TotalDeployedNat DEF TypeInv, TypeOK
  <2>2. exit' \in [Closers -> ExitState]
    BY <1>8, <2>1, ExitTotal
    DEF ExitPcs, Goto, ReadBook, TypeInv, TypeOK
  <2>3. UNCHANGED <<risk, status, book, trade, sells, sold, open, inCooldown,
                  scanLock, entering, entry, summary, failures, killPresses,
                  recentExit, credited>>
    BY <1>8 DEF ReadBook, database, memory, history
  <2>4. TypeOK'
    BY <2>2, <2>3 DEF TypeInv, TypeOK
  <2>5. \A x \in Closers :
          /\ exit'[x].pc # "idle" => exit'[x].pos \in Positions
          /\ exit'[x].pc \notin {"idle", "decided", "selling"} => exit'[x].pnl \in Pnls
    BY <1>8, <2>1 DEF Closing, ExitState, Goto, IdleExit, LocalsOK, ReadBook, TypeInv,
        TypeOK
  <2>6. LocalsOK'
    BY <2>3, <2>5 DEF TypeInv, LocalsOK
  <2> QED BY <2>4, <2>6 DEF TypeInv
<1>9. CASE SyncExitMargin(c)
  <2>1. exit[c].total \in Int
    BY DEF ExitState, TypeInv, TypeOK
  <2>2. exit' \in [Closers -> ExitState]
    BY <1>9, <2>1, ExitGoto
    DEF ExitPcs, Goto, SyncExitMargin, TypeInv, TypeOK
  <2>3. risk' \in RiskRow
    BY <1>9, <2>1, ReconcileType DEF SyncExitMargin, TypeInv, TypeOK
  <2>4. UNCHANGED <<status, book, trade, sells, sold, open, inCooldown,
                  scanLock, entering, entry, summary, failures, killPresses,
                  recentExit, credited>>
    BY <1>9 DEF SyncExitMargin, database, memory, history
  <2>5. TypeOK'
    BY <2>2, <2>3, <2>4 DEF TypeInv, TypeOK
  <2>6. \A x \in Closers :
          /\ exit'[x].pc # "idle" => exit'[x].pos \in Positions
          /\ exit'[x].pc \notin {"idle", "decided", "selling"} => exit'[x].pnl \in Pnls
    BY <1>9, <2>1 DEF Closing, ExitState, Goto, IdleExit, LocalsOK, SyncExitMargin, TypeInv,
        TypeOK
  <2>7. LocalsOK'
    BY <2>4, <2>6 DEF TypeInv, LocalsOK
  <2> QED BY <2>5, <2>7 DEF TypeInv
<1>10. CASE FinishExit(c)
  <2>1. exit' \in [Closers -> ExitState]
    BY <1>10, ExitIdle
    DEF ExitPcs, FinishExit, Goto, TypeInv, TypeOK
  <2>2. inCooldown' \in BOOLEAN
    BY <1>10 DEF FinishExit, TypeInv, TypeOK
  <2>3. UNCHANGED <<risk, status, book, trade, sells, sold, open, scanLock,
                  entering, entry, summary, failures, killPresses, recentExit,
                  credited>>
    BY <1>10 DEF FinishExit, database, memory, history
  <2>4. TypeOK'
    BY <2>1, <2>2, <2>3 DEF TypeInv, TypeOK
  <2>5. \A x \in Closers :
          /\ exit'[x].pc # "idle" => exit'[x].pos \in Positions
          /\ exit'[x].pc \notin {"idle", "decided", "selling"} => exit'[x].pnl \in Pnls
    BY <1>10 DEF Closing, ExitState, FinishExit, Goto, IdleExit, LocalsOK, TypeInv,
        TypeOK
  <2>6. LocalsOK'
    BY <2>3, <2>5 DEF TypeInv, LocalsOK
  <2> QED BY <2>4, <2>6 DEF TypeInv
<1>11. CASE ExitRaises(c)
  <2>1. exit' \in [Closers -> ExitState]
    BY <1>11, ExitIdle
    DEF ExitPcs, ExitRaises, Goto, TypeInv, TypeOK
  <2>2. failures' \in Nat
    BY <1>11 DEF ExitRaises, TypeInv, TypeOK
  <2>3. UNCHANGED <<risk, status, book, trade, sells, sold, open, inCooldown,
                  scanLock, entering, entry, summary, killPresses, recentExit,
                  credited>>
    BY <1>11 DEF ExitRaises, database, memory, history
  <2>4. TypeOK'
    BY <2>1, <2>2, <2>3 DEF TypeInv, TypeOK
  <2>5. \A x \in Closers :
          /\ exit'[x].pc # "idle" => exit'[x].pos \in Positions
          /\ exit'[x].pc \notin {"idle", "decided", "selling"} => exit'[x].pnl \in Pnls
    BY <1>11 DEF Closing, ExitRaises, ExitState, Goto, IdleExit, LocalsOK, TypeInv,
        TypeOK
  <2>6. LocalsOK'
    BY <2>3, <2>5 DEF TypeInv, LocalsOK
  <2> QED BY <2>4, <2>6 DEF TypeInv
<1>12. ASSUME NEW p \in Positions, DecideExit(c, p) PROVE TypeInv'
  <2>1. exit' \in [Closers -> ExitState]
    BY <1>12, ExitPos
    DEF DecideExit, ExitPcs, Goto, TypeInv, TypeOK
  <2>2. UNCHANGED <<risk, status, book, trade, sells, sold, open, inCooldown,
                  scanLock, entering, entry, summary, failures, killPresses,
                  recentExit, credited>>
    BY <1>12 DEF DecideExit, database, memory, history
  <2>3. TypeOK'
    BY <2>1, <2>2 DEF TypeInv, TypeOK
  <2>4. \A x \in Closers :
          /\ exit'[x].pc # "idle" => exit'[x].pos \in Positions
          /\ exit'[x].pc \notin {"idle", "decided", "selling"} => exit'[x].pnl \in Pnls
    <3>1. exit'[c].pc = "decided" /\ exit'[c].pos = p
      <4>1. exit'[c] = [exit[c] EXCEPT !.pc = "decided", !.pos = p]
        BY <1>12 DEF DecideExit, TypeInv, TypeOK
      <4>2. exit[c] \in ExitState
        BY DEF TypeInv, TypeOK
      <4> QED BY <4>1, <4>2 DEF ExitState
    <3>2. \A x \in Closers \ {c} : exit'[x] = exit[x]
      BY <1>12 DEF DecideExit, TypeInv, TypeOK
    <3> QED BY <3>1, <3>2 DEF LocalsOK, TypeInv
  <2>5. LocalsOK'
    BY <2>2, <2>4 DEF TypeInv, LocalsOK
  <2> QED BY <2>3, <2>5 DEF TypeInv
<1> QED
  BY <1>1, <1>2, <1>3, <1>4, <1>5, <1>6, <1>7, <1>8, <1>9, <1>10, <1>11, <1>12 DEF ExitStep

\* The endpoints and the passing of time keep the types.
LEMMA OtherStepType ==
  ASSUME TypeInv,
         \/ ReadSummaryRow \/ SummaryStep \/ CooldownElapses
         \/ \E enabled \in BOOLEAN : PressKillSwitch(enabled)
  PROVE  TypeInv'
<1>1. CASE ReadSummaryRow
  <2>1. risk.deployed \in Int
    BY DEF TypeInv, TypeOK, RiskRow
  <2>2. summary' \in SummaryState
    BY <1>1, <2>1 DEF ReadSummaryRow, SummaryState, TypeInv, TypeOK
  <2>3. UNCHANGED <<risk, status, book, trade, sells, sold, open, inCooldown,
                  scanLock, entering, entry, exit, failures, killPresses,
                  recentExit, credited>>
    BY <1>1 DEF ReadSummaryRow, database, memory, history
  <2>4. TypeOK'
    BY <2>1, <2>2, <2>3 DEF TypeInv, TypeOK
  <2>5. LocalsOK'
    BY <2>3 DEF TypeInv, LocalsOK
  <2> QED BY <2>4, <2>5 DEF TypeInv
<1>2. CASE CompareSummary
  <2>1. TotalDeployed(open) \in Nat
    BY TotalDeployedNat DEF TypeInv, TypeOK
  <2>2. summary' \in SummaryState
    <3> DEFINE live == TotalDeployed(open)
    <3>1. CASE summary' = [summary EXCEPT !.pc = "syncing", !.total = live]
      <4> HIDE DEF live
      <4> QED BY <2>1, <3>1 DEF SummaryState, TypeInv, TypeOK, live
    <3>2. CASE summary' = IdleSummary
      BY <3>2 DEF SummaryState, IdleSummary
    <3> QED BY <1>2, <3>1, <3>2 DEF CompareSummary
  <2>3. UNCHANGED <<risk, status, book, trade, sells, sold, open, inCooldown,
                  scanLock, entering, entry, exit, failures, killPresses,
                  recentExit, credited>>
    BY <1>2 DEF CompareSummary, database, memory, history
  <2>4. TypeOK'
    BY <2>1, <2>2, <2>3 DEF TypeInv, TypeOK
  <2>5. LocalsOK'
    BY <2>3 DEF TypeInv, LocalsOK
  <2> QED BY <2>4, <2>5 DEF TypeInv
<1>3. CASE SyncSummaryMargin
  <2>1. summary.total \in Int
    BY DEF SummaryState, TypeInv, TypeOK
  <2>2. risk' \in RiskRow
    BY <1>3, <2>1, ReconcileType DEF SyncSummaryMargin, TypeInv, TypeOK
  <2>3. summary' \in SummaryState
    BY <1>3 DEF SyncSummaryMargin, SummaryState, IdleSummary
  <2>4. UNCHANGED <<status, book, trade, sells, sold, open, inCooldown,
                  scanLock, entering, entry, exit, failures, killPresses,
                  recentExit, credited>>
    BY <1>3 DEF SyncSummaryMargin, database, memory, history
  <2>5. TypeOK'
    BY <2>1, <2>2, <2>3, <2>4 DEF TypeInv, TypeOK
  <2>6. LocalsOK'
    BY <2>4 DEF TypeInv, LocalsOK
  <2> QED BY <2>5, <2>6 DEF TypeInv
<1>4. ASSUME NEW enabled \in BOOLEAN, PressKillSwitch(enabled) PROVE TypeInv'
  <2>1. risk' \in RiskRow
    BY <1>4, KillSwitchType DEF PressKillSwitch, TypeInv, TypeOK
  <2>2. killPresses' \in Nat
    BY <1>4 DEF PressKillSwitch, TypeInv, TypeOK
  <2>3. UNCHANGED <<status, book, trade, sells, sold, open, inCooldown,
                  scanLock, entering, entry, exit, summary, failures,
                  recentExit, credited>>
    BY <1>4 DEF PressKillSwitch, database, memory, history
  <2>4. TypeOK'
    BY <2>1, <2>2, <2>3 DEF TypeInv, TypeOK
  <2>5. LocalsOK'
    BY <2>3 DEF TypeInv, LocalsOK
  <2> QED BY <2>4, <2>5 DEF TypeInv
<1>5. CASE CooldownElapses
  <2>1. inCooldown' \in BOOLEAN /\ recentExit' \in BOOLEAN
    BY <1>5 DEF CooldownElapses
  <2>2. UNCHANGED <<risk, status, book, trade, sells, sold, open, scanLock,
                  entering, entry, exit, summary, failures, killPresses,
                  credited>>
    BY <1>5 DEF CooldownElapses, database, memory, history
  <2>3. TypeOK'
    BY <2>1, <2>2 DEF TypeInv, TypeOK
  <2>4. LocalsOK'
    BY <2>2 DEF TypeInv, LocalsOK
  <2> QED BY <2>3, <2>4 DEF TypeInv
<1> QED BY <1>1, <1>2, <1>3, <1>4, <1>5 DEF SummaryStep

LEMMA StutterType == TypeInv /\ UNCHANGED vars => TypeInv'
BY DEF TypeInv, TypeOK, LocalsOK, vars

LEMMA NextType == TypeInv /\ [Next]_vars => TypeInv'
<1> SUFFICES ASSUME TypeInv, [Next]_vars PROVE TypeInv'
  OBVIOUS
<1>1. CASE Next
  BY <1>1, EntryStepType, ExitStepType, OtherStepType DEF Next
<1>2. CASE UNCHANGED vars
  BY <1>2, StutterType
<1> QED BY <1>1, <1>2

\* The variables keep their types in every behaviour of the engine, and the
\* locals hold what the next segment of their coroutine needs.
THEOREM TypeCorrect == Spec => []TypeOK /\ []TypeInv
<1>1. TypeInv => TypeOK
  BY DEF TypeInv
<1> QED BY InitType, NextType, <1>1, PTL DEF Spec

-----------------------------------------------------------------------------
(***************************************************************************)
(* The scan lock and the owners of positions.                              *)
(***************************************************************************)

\* Every scan under way holds the scan lock, so there is at most one.
LockInv == \A e \in Entrants : entry[e].pc # "idle" => scanLock = e

\* What the step of a scan can do to the lock and to the other coroutines.
ScanStep(e) ==
  /\ \A x \in Entrants \ {e} : entry'[x] = entry[x]
  /\ UNCHANGED exit
  /\ \/ entry[e].pc = "idle" /\ scanLock = None /\ scanLock' = e
     \/ entry[e].pc # "idle" /\ UNCHANGED scanLock
     \/ entry[e].pc # "idle" /\ scanLock' = None /\ entry'[e].pc = "idle"

LEMMA FinishStep ==
  ASSUME TypeOK, NEW e \in Entrants, entry[e].pc # "idle", UNCHANGED exit, Finish(e)
  PROVE  ScanStep(e)
<1>1. entry'[e] = IdleEntry /\ scanLock' = None
  BY DEF Finish, TypeOK
<1>2. \A x \in Entrants \ {e} : entry'[x] = entry[x]
  BY DEF Finish, TypeOK
<1> QED BY <1>1, <1>2 DEF ScanStep, IdleEntry

LEMMA EntryIsScanStep ==
  ASSUME TypeOK, NEW e \in Entrants, AcquireScan(e) \/ EntryStep(e)
  PROVE  ScanStep(e)
<1>1. CASE AcquireScan(e)
  BY <1>1 DEF AcquireScan, At, ScanStep, TypeOK
<1>2. CASE AbandonEntry(e)
  BY <1>2, FinishStep DEF AbandonEntry
<1>3. ASSUME NEW t \in Tokens, ExecuteSignal(e, t) PROVE ScanStep(e)
  BY <1>3 DEF ExecuteSignal, At, ScanStep, TypeOK
<1>4. CASE CheckBlocked(e)
  BY <1>4 DEF CheckBlocked, At, ScanStep, TypeOK, memory
<1>5. CASE Validate(e)
  BY <1>5 DEF Validate, At, ScanStep, TypeOK, memory
<1>6. ASSUME NEW lots \in LotSizes, NEW price \in Prices, SizeEntry(e, lots, price)
      PROVE  ScanStep(e)
  BY <1>6, SizeEntryFacts DEF SizeEntry, At, ScanStep, memory
<1>7. CASE ReserveCapital(e)
  BY <1>7 DEF ReserveCapital, At, ScanStep, TypeOK, memory
<1>8. CASE PlaceBuyOrder(e)
  <2>1. entry[e].pc = "ordering" /\ UNCHANGED <<exit, scanLock>>
    BY <1>8 DEF PlaceBuyOrder, At, memory
  <2>2. \A x \in Entrants \ {e} : entry'[x] = entry[x]
    BY <1>8, BuyOrderCases
  <2> QED BY <2>1, <2>2 DEF ScanStep
<1>9. ASSUME NEW p \in Positions, WritePositionOpened(e, p) PROVE ScanStep(e)
  BY <1>9 DEF WritePositionOpened, At, ScanStep, TypeOK, memory
<1>10. CASE RegisterOpen(e)
  BY <1>10 DEF RegisterOpen, At, ScanStep, TypeOK
<1>11. CASE EntryRaises(e)
  <2>1. entry[e].pc # "idle" /\ UNCHANGED <<exit, scanLock>>
    BY <1>11 DEF EntryRaises, At, memory
  <2>2. \A x \in Entrants \ {e} : entry'[x] = entry[x]
    BY <1>11 DEF EntryRaises, TypeOK
  <2> QED BY <2>1, <2>2 DEF ScanStep
<1>12. CASE SyncEntryMargin(e)
  BY <1>12, FinishStep DEF SyncEntryMargin
<1>13. CASE UnwindRaises(e)
  BY <1>13, FinishStep DEF UnwindRaises, At
<1> QED
  BY <1>1, <1>2, <1>3, <1>4, <1>5, <1>6, <1>7, <1>8, <1>9, <1>10, <1>11, <1>12, <1>13
  DEF EntryStep

LEMMA LockScanStep ==
  ASSUME TypeOK, LockInv, NEW e \in Entrants, ScanStep(e)
  PROVE  LockInv'
<1>1. None \notin Entrants
  BY CoreAssumption
<1> QED BY <1>1 DEF LockInv, ScanStep

\* The steps of closers, endpoints and time leave the scans alone.
LEMMA OthersLeaveScans ==
  ASSUME \/ \E c \in Closers : ExitStep(c) \/ ExitRaises(c)
         \/ \E c \in Closers, p \in Positions : DecideExit(c, p)
         \/ ReadSummaryRow \/ SummaryStep \/ CooldownElapses
         \/ \E enabled \in BOOLEAN : PressKillSwitch(enabled)
  PROVE  UNCHANGED <<entry, scanLock>>
<1>1. ASSUME NEW c \in Closers, ExitStep(c) PROVE UNCHANGED <<entry, scanLock>>
  BY <1>1 DEF ExitStep, PopPosition, PlaceSellOrder, WritePositionClosed,
     WriteClosedTrade, ReleaseCapital, PostTradeCheck, HaltEntries, ReadBook,
     SyncExitMargin, FinishExit, memory
<1>2. ASSUME NEW c \in Closers, ExitRaises(c) PROVE UNCHANGED <<entry, scanLock>>
  BY <1>2 DEF ExitRaises, memory
<1>3. ASSUME NEW c \in Closers, NEW p \in Positions, DecideExit(c, p)
      PROVE  UNCHANGED <<entry, scanLock>>
  BY <1>3 DEF DecideExit, memory
<1>4. CASE ReadSummaryRow \/ SummaryStep \/ CooldownElapses
  BY <1>4 DEF ReadSummaryRow, SummaryStep, CompareSummary, SyncSummaryMargin,
     CooldownElapses, memory
<1>5. ASSUME NEW enabled \in BOOLEAN, PressKillSwitch(enabled)
      PROVE  UNCHANGED <<entry, scanLock>>
  BY <1>5 DEF PressKillSwitch, memory
<1> QED BY <1>1, <1>2, <1>3, <1>4, <1>5

LEMMA LockNext == TypeInv /\ LockInv /\ [Next]_vars => LockInv'
<1> SUFFICES ASSUME TypeInv, LockInv, [Next]_vars PROVE LockInv'
  OBVIOUS
<1>1. ASSUME NEW e \in Entrants, AcquireScan(e) \/ EntryStep(e) PROVE LockInv'
  BY <1>1, EntryIsScanStep, LockScanStep DEF TypeInv
<1>2. ASSUME UNCHANGED <<entry, scanLock>> PROVE LockInv'
  BY <1>2 DEF LockInv
<1>3. CASE UNCHANGED vars
  BY <1>2, <1>3 DEF vars
<1> QED BY <1>1, <1>2, <1>3, OthersLeaveScans DEF Next

\* Two scans under way are the same scan.
LEMMA OneScan ==
  ASSUME LockInv, NEW e \in Entrants, entry[e].pc # "idle"
  PROVE  \A x \in Entrants \ {e} : entry[x].pc = "idle"
BY DEF LockInv

-----------------------------------------------------------------------------
(***************************************************************************)
(* Positions: who owns one, and what has been written for it so far.       *)
(***************************************************************************)
Untouched(p) == sells[p] = 0 /\ credited[p] = 0 /\ trade[p] = None

\* The rows of a position by themselves.
RowsOK ==
  \A p \in Positions :
    /\ status[p] = "none" => Untouched(p)
    /\ sells[p] <= 1 /\ credited[p] <= 1
    /\ trade[p] # None => status[p] = "CLOSED"
    /\ credited[p] > 0 => trade[p] # None

\* A position in the book has an OPEN row that no exit has touched.
OpenOK == \A p \in open : status[p] = "OPEN" /\ Untouched(p)

\* So has the position that an entry is about to register.
EnteringOK ==
  \A e \in Entrants : entry[e].pc = "journaled" =>
    /\ entry[e].pos \notin open
    /\ status[entry[e].pos] = "OPEN"
    /\ Untouched(entry[e].pos)

\* What a closer that popped position p has written when it is at pc.
WrittenAt(pc, p) ==
  /\ p \notin open /\ status[p] # "none"
  /\ pc = "selling" => status[p] = "OPEN" /\ Untouched(p)
  /\ pc = "sold" => status[p] = "OPEN" /\ credited[p] = 0 /\ trade[p] = None
  /\ pc = "rowClosed" => status[p] = "CLOSED" /\ credited[p] = 0 /\ trade[p] = None
  /\ pc = "tradeWritten" => status[p] = "CLOSED" /\ credited[p] = 0 /\ trade[p] # None

ClosingOK ==
  \A c \in Closers : Popped(c) => WrittenAt(exit[c].pc, exit[c].pos)

\* A popped position has one owner, and is not being entered.
OwnersDiffer ==
  /\ \A c, d \in Closers : Popped(c) /\ Popped(d) /\ c # d => exit[c].pos # exit[d].pos
  /\ \A c \in Closers, e \in Entrants :
       Popped(c) /\ entry[e].pc = "journaled" => exit[c].pos # entry[e].pos

PositionInv == RowsOK /\ OpenOK /\ EnteringOK /\ ClosingOK /\ OwnersDiffer

\* A step that writes nothing about a position.
QuietEntries ==
  \A e \in Entrants : entry'[e].pc = "journaled" =>
    entry[e].pc = "journaled" /\ entry'[e].pos = entry[e].pos

QuietExits ==
  \A c \in Closers : Popped(c)' =>
    /\ Popped(c) /\ exit'[c].pos = exit[c].pos
    /\ exit'[c].pc \in {"selling", "sold", "rowClosed", "tradeWritten"} =>
         exit'[c].pc = exit[c].pc

QuietRows == UNCHANGED <<status, trade, sells, credited, open>>

LEMMA QuietStep ==
  ASSUME PositionInv, QuietEntries, QuietExits, QuietRows
  PROVE  PositionInv'
<1>1. RowsOK' /\ OpenOK'
  BY DEF PositionInv, RowsOK, OpenOK, QuietRows, Untouched
<1>2. EnteringOK'
  BY DEF PositionInv, EnteringOK, QuietEntries, QuietRows, Untouched
<1>3. ClosingOK'
  <2> SUFFICES ASSUME NEW c \in Closers, Popped(c)'
               PROVE  WrittenAt(exit[c].pc, exit[c].pos)'
    BY DEF ClosingOK
  <2>1. Popped(c) /\ exit'[c].pos = exit[c].pos
    BY DEF QuietExits
  <2>2. WrittenAt(exit[c].pc, exit[c].pos)
    BY <2>1 DEF PositionInv, ClosingOK
  <2> QED BY <2>1, <2>2 DEF WrittenAt, QuietExits, QuietRows, Untouched
<1>4. OwnersDiffer'
  BY DEF PositionInv, OwnersDiffer, QuietEntries, QuietExits
<1> QED BY <1>1, <1>2, <1>3, <1>4 DEF PositionInv

LEMMA QuietEntryStep ==
  ASSUME TypeOK, PositionInv, NEW e \in Entrants,
         \A x \in Entrants \ {e} : entry'[x] = entry[x],
         entry'[e].pc # "journaled",
         UNCHANGED <<exit, database, open, credited>>
  PROVE  PositionInv'
<1>1. QuietEntries
  BY DEF QuietEntries
<1>2. QuietExits
  BY DEF QuietExits, Popped
<1>3. QuietRows
  BY DEF QuietRows, database
<1> QED BY <1>1, <1>2, <1>3, QuietStep

LEMMA PositionEntryStep ==
  ASSUME TypeInv, LockInv, PositionInv, NEW e \in Entrants, AcquireScan(e) \/ EntryStep(e)
  PROVE  PositionInv'
<1>t. TypeOK
  BY DEF TypeInv
<1>o. ScanStep(e)
  BY <1>t, EntryIsScanStep
<1>x. (\A x \in Entrants \ {e} : entry'[x] = entry[x]) /\ UNCHANGED exit
  BY <1>o DEF ScanStep
<1>1. CASE AcquireScan(e)
  <2>1. entry'[e].pc # "journaled" /\ UNCHANGED <<database, open, credited>>
    BY <1>1, <1>t DEF AcquireScan, TypeOK, EntryState, history
  <2> QED BY <1>t, <1>x, <2>1, QuietEntryStep
<1>2. CASE AbandonEntry(e)
  <2>1. entry'[e].pc # "journaled" /\ UNCHANGED <<database, open, credited>>
    BY <1>2, <1>t DEF AbandonEntry, Finish, IdleEntry, TypeOK, EntryState, history
  <2> QED BY <1>t, <1>x, <2>1, QuietEntryStep
<1>3. ASSUME NEW t \in Tokens, ExecuteSignal(e, t) PROVE PositionInv'
  <2>1. entry'[e].pc # "journaled" /\ UNCHANGED <<database, open, credited>>
    BY <1>3, <1>t DEF ExecuteSignal, TypeOK, EntryState, history
  <2> QED BY <1>t, <1>x, <2>1, QuietEntryStep
<1>4. CASE CheckBlocked(e)
  <2>1. entry'[e].pc # "journaled" /\ UNCHANGED <<database, open, credited>>
    BY <1>4, <1>t DEF CheckBlocked, TypeOK, EntryState, memory, history
  <2> QED BY <1>t, <1>x, <2>1, QuietEntryStep
<1>5. CASE Validate(e)
  <2>1. entry'[e].pc # "journaled" /\ UNCHANGED <<database, open, credited>>
    BY <1>5, <1>t DEF Validate, TypeOK, EntryState, memory, history
  <2> QED BY <1>t, <1>x, <2>1, QuietEntryStep
<1>6. ASSUME NEW lots \in LotSizes, NEW price \in Prices, SizeEntry(e, lots, price)
      PROVE  PositionInv'
  <2>1. entry'[e].pc # "journaled" /\ UNCHANGED <<database, open, credited>>
    BY <1>6, <1>t, SizeEntryFacts DEF SizeEntry, memory, history
  <2> QED BY <1>t, <1>x, <2>1, QuietEntryStep
<1>7. CASE ReserveCapital(e)
  <2>1. entry'[e].pc # "journaled" /\ UNCHANGED <<database, open, credited>>
    BY <1>7, <1>t DEF ReserveCapital, TypeOK, EntryState, memory, history
  <2> QED BY <1>t, <1>x, <2>1, QuietEntryStep
<1>8. CASE PlaceBuyOrder(e)
  <2>1. entry'[e].pc # "journaled" /\ UNCHANGED <<database, open, credited>>
    <3>1. entry'[e].pc # "journaled"
      BY <1>8, <1>t, BuyOrderCases DEF BuysSome, TypeOK, EntryState
    <3> QED BY <1>8, <3>1 DEF PlaceBuyOrder, memory, history
  <2> QED BY <1>t, <1>x, <2>1, QuietEntryStep
<1>9. ASSUME NEW p \in Positions, WritePositionOpened(e, p) PROVE PositionInv'
  <2>1. /\ status[p] = "none"
        /\ status' = [status EXCEPT ![p] = "OPEN"]
        /\ UNCHANGED <<trade, sells, credited, open>>
    BY <1>9 DEF WritePositionOpened, memory, history
  <2>2. entry'[e].pc = "journaled" /\ entry'[e].pos = p
    BY <1>9, <1>t DEF WritePositionOpened, TypeOK, EntryState
  <2>3. \A x \in Entrants : entry'[x].pc = "journaled" => x = e
    BY <1>9, <1>x, OneScan DEF WritePositionOpened, At
  <2>4. Untouched(p) /\ p \notin open
    BY <2>1 DEF PositionInv, RowsOK, OpenOK
  <2>5. RowsOK' /\ OpenOK'
    BY <1>t, <2>1, <2>4 DEF PositionInv, RowsOK, OpenOK, TypeOK, Untouched
  <2>6. EnteringOK'
    BY <1>t, <2>1, <2>2, <2>3, <2>4 DEF EnteringOK, TypeOK, Untouched
  <2>7. \A c \in Closers : Popped(c) => exit[c].pos # p
    BY <2>1 DEF PositionInv, ClosingOK, WrittenAt
  <2>8. ClosingOK'
    <3> SUFFICES ASSUME NEW c \in Closers, Popped(c)'
                 PROVE  WrittenAt(exit[c].pc, exit[c].pos)'
      BY DEF ClosingOK
    <3>1. Popped(c) /\ exit' = exit
      BY <1>x DEF Popped
    <3>2. WrittenAt(exit[c].pc, exit[c].pos) /\ exit[c].pos # p
      BY <3>1, <2>7 DEF PositionInv, ClosingOK
    <3>3. status'[exit[c].pos] = status[exit[c].pos]
      BY <1>t, <2>1, <3>2 DEF TypeOK
    <3> QED BY <2>1, <3>1, <3>2, <3>3 DEF WrittenAt, Untouched
  <2>9. OwnersDiffer'
    BY <1>x, <2>2, <2>3, <2>7 DEF PositionInv, OwnersDiffer, Popped
  <2> QED BY <2>5, <2>6, <2>8, <2>9 DEF PositionInv
<1>10. CASE RegisterOpen(e)
  <2> DEFINE p == entry[e].pos
  <2>1. /\ entry[e].pc = "journaled" /\ open' = open \cup {p}
        /\ UNCHANGED <<status, trade, sells, credited>>
    BY <1>10 DEF RegisterOpen, At, database, history
  <2>2. status[p] = "OPEN" /\ Untouched(p)
    BY <2>1 DEF PositionInv, EnteringOK
  <2>3. entry'[e].pc = "syncing"
    BY <1>10, <1>t DEF RegisterOpen, TypeOK, EntryState
  <2>4. \A x \in Entrants : entry'[x].pc # "journaled"
    BY <1>x, <2>1, <2>3, OneScan
  <2>5. \A c \in Closers : Popped(c) => exit[c].pos # p
    BY <2>1 DEF PositionInv, OwnersDiffer
  <2> HIDE DEF p
  <2>6. RowsOK' /\ OpenOK'
    BY <2>1, <2>2 DEF PositionInv, RowsOK, OpenOK, Untouched
  <2>7. EnteringOK'
    BY <2>4 DEF EnteringOK
  <2>8. ClosingOK'
    BY <1>x, <2>1, <2>5 DEF PositionInv, ClosingOK, WrittenAt, Popped, Untouched
  <2>9. OwnersDiffer'
    BY <1>x, <2>4 DEF PositionInv, OwnersDiffer, Popped
  <2> QED BY <2>6, <2>7, <2>8, <2>9 DEF PositionInv
<1>11. CASE EntryRaises(e)
  <2>1. entry'[e].pc # "journaled" /\ UNCHANGED <<database, open, credited>>
    BY <1>11, <1>t DEF EntryRaises, TypeOK, EntryState, memory, history
  <2> QED BY <1>t, <1>x, <2>1, QuietEntryStep
<1>12. CASE SyncEntryMargin(e)
  <2>1. entry'[e].pc # "journaled" /\ UNCHANGED <<database, open, credited>>
    BY <1>12, <1>t DEF SyncEntryMargin, Finish, IdleEntry, TypeOK, EntryState, history
  <2> QED BY <1>t, <1>x, <2>1, QuietEntryStep
<1>13. CASE UnwindRaises(e)
  <2>1. entry'[e].pc # "journaled" /\ UNCHANGED <<database, open, credited>>
    BY <1>13, <1>t DEF UnwindRaises, Finish, IdleEntry, TypeOK, EntryState, history
  <2> QED BY <1>t, <1>x, <2>1, QuietEntryStep
<1> QED
  BY <1>1, <1>2, <1>3, <1>4, <1>5, <1>6, <1>7, <1>8, <1>9, <1>10, <1>11, <1>12, <1>13
  DEF EntryStep

\* A closer that goes on without writing anything about its position.
LEMMA QuietExitStep ==
  ASSUME TypeOK, PositionInv, NEW c \in Closers,
         \A x \in Closers \ {c} : exit'[x] = exit[x],
         \/ exit'[c].pc \in {"idle", "decided"}
         \/ /\ Popped(c) /\ exit'[c].pos = exit[c].pos
            /\ exit'[c].pc \notin {"selling", "sold", "rowClosed", "tradeWritten"},
         UNCHANGED <<entry, database, open, credited>>
  PROVE  PositionInv'
<1>1. QuietEntries
  BY DEF QuietEntries
<1>2. QuietExits
  BY DEF QuietExits, Popped
<1>3. QuietRows
  BY DEF QuietRows, database
<1> QED BY <1>1, <1>2, <1>3, QuietStep

\* The owner of position p writes about p only: the other owners, the book and
\* the entry under way see nothing of it.
LEMMA OwnerStep ==
  ASSUME TypeOK, PositionInv, NEW c \in Closers, NEW p \in Positions,
         Popped(c), exit[c].pos = p,
         UNCHANGED <<entry, open>>,
         \A x \in Closers \ {c} : exit'[x] = exit[x],
         Popped(c)', exit'[c].pos = p,
         \A q \in Positions \ {p} :
           /\ status'[q] = status[q] /\ trade'[q] = trade[q]
           /\ sells'[q] = sells[q] /\ credited'[q] = credited[q],
         WrittenAt(exit[c].pc, exit[c].pos)',
         sells'[p] <= 1 /\ credited'[p] <= 1,
         trade'[p] # None => status'[p] = "CLOSED",
         credited'[p] > 0 => trade'[p] # None,
         \A x \in Entrants : entry[x].pc = "journaled" => entry[x].pos \in Positions,
         \A x \in Closers : Popped(x) => exit[x].pos \in Positions
  PROVE  PositionInv'
<1>1. p \notin open /\ status'[p] # "none"
  BY DEF WrittenAt
<1>2. RowsOK'
  BY <1>1 DEF PositionInv, RowsOK, Untouched
<1>3. OpenOK'
  BY <1>1 DEF PositionInv, OpenOK, Untouched, TypeOK
<1>4. EnteringOK'
  <2> SUFFICES ASSUME NEW x \in Entrants, entry[x].pc = "journaled"
               PROVE  /\ entry[x].pos \notin open
                      /\ status'[entry[x].pos] = "OPEN"
                      /\ Untouched(entry[x].pos)'
    BY DEF EnteringOK, Untouched
  <2>1. entry[x].pos \in Positions \ {p}
    BY DEF PositionInv, OwnersDiffer
  <2>2. /\ entry[x].pos \notin open
        /\ status[entry[x].pos] = "OPEN"
        /\ Untouched(entry[x].pos)
    BY DEF PositionInv, EnteringOK
  <2> QED BY <2>1, <2>2 DEF Untouched
<1>5. \A x \in Closers : Popped(x)' => Popped(x) /\ exit'[x].pos = exit[x].pos
  BY DEF Popped
<1>6. ClosingOK'
  <2> SUFFICES ASSUME NEW x \in Closers, Popped(x)'
               PROVE  WrittenAt(exit[x].pc, exit[x].pos)'
    BY DEF ClosingOK
  <2>1. CASE x = c
    BY <2>1
  <2>2. CASE x # c
    <3> DEFINE q == exit[x].pos
    <3>1. q \in Positions \ {p} /\ exit'[x] = exit[x]
      BY <1>5, <2>2 DEF PositionInv, OwnersDiffer
    <3>2. WrittenAt(exit[x].pc, q)
      BY <1>5 DEF PositionInv, ClosingOK
    <3>3. /\ status'[q] = status[q] /\ trade'[q] = trade[q]
          /\ sells'[q] = sells[q] /\ credited'[q] = credited[q]
      BY <3>1
    <3> QED BY <3>1, <3>2, <3>3 DEF WrittenAt, Untouched
  <2> QED BY <2>1, <2>2
<1>7. OwnersDiffer'
  BY <1>5 DEF PositionInv, OwnersDiffer
<1> QED BY <1>2, <1>3, <1>4, <1>6, <1>7 DEF PositionInv

LEMMA ExitFrame ==
  ASSUME TypeOK, NEW c \in Closers,
         ExitStep(c) \/ ExitRaises(c) \/ \E p \in Positions : DecideExit(c, p)
  PROVE  \A x \in Closers \ {c} : exit'[x] = exit[x]
<1>1. CASE PopPosition(c)
  BY <1>1 DEF PopPosition, Goto, TypeOK
<1>2. CASE PlaceSellOrder(c)
  BY <1>2 DEF PlaceSellOrder, TypeOK
<1>3. CASE WritePositionClosed(c) \/ WriteClosedTrade(c) \/ ReleaseCapital(c)
           \/ PostTradeCheck(c) \/ HaltEntries(c) \/ SyncExitMargin(c)
  <2>1. \E pc : exit' = [exit EXCEPT ![c].pc = pc]
    BY <1>3 DEF WritePositionClosed, WriteClosedTrade, ReleaseCapital,
       PostTradeCheck, HaltEntries, SyncExitMargin, Goto
  <2> QED BY <2>1 DEF TypeOK
<1>4. CASE ReadBook(c)
  BY <1>4 DEF ReadBook, TypeOK
<1>5. CASE FinishExit(c) \/ ExitRaises(c)
  BY <1>5 DEF FinishExit, ExitRaises, TypeOK
<1>6. ASSUME NEW p \in Positions, DecideExit(c, p)
      PROVE  \A x \in Closers \ {c} : exit'[x] = exit[x]
  BY <1>6 DEF DecideExit, TypeOK
<1> QED BY <1>1, <1>2, <1>3, <1>4, <1>5, <1>6 DEF ExitStep

LEMMA PositionExitStep ==
  ASSUME TypeInv, PositionInv, NEW c \in Closers,
         ExitStep(c) \/ ExitRaises(c) \/ \E p \in Positions : DecideExit(c, p)
  PROVE  PositionInv'
<1>t. TypeOK /\ \A x \in Closers : exit[x] \in ExitState
  BY DEF TypeInv, TypeOK
<1>f. \A x \in Closers \ {c} : exit'[x] = exit[x]
  BY <1>t, ExitFrame
<1>l. /\ \A x \in Entrants : entry[x].pc = "journaled" => entry[x].pos \in Positions
      /\ \A x \in Closers : Popped(x) => exit[x].pos \in Positions
      /\ \A x \in Closers : exit[x].pc \in {"sold", "rowClosed", "tradeWritten"} => exit[x].pnl \in Pnls
      /\ exit[c].pc = "decided" => exit[c].pos \in Positions
  BY DEF TypeInv, LocalsOK, Popped
<1> DEFINE p == exit[c].pos
<1>w. Popped(c) => WrittenAt(exit[c].pc, p)
  BY DEF PositionInv, ClosingOK
<1>r. p \in Positions => sells[p] \in Nat /\ credited[p] \in Nat
                         /\ sells[p] <= 1 /\ credited[p] <= 1
  BY <1>t DEF TypeOK, PositionInv, RowsOK
<1>1. CASE PopPosition(c) /\ p \in open
  <2>1. /\ exit[c].pc = "decided" /\ open' = open \ {p}
        /\ UNCHANGED <<entry, status, trade, sells, credited>>
    BY <1>1 DEF PopPosition, Closing, database
  <2>2. exit'[c].pc = "selling" /\ exit'[c].pos = p
    BY <1>1, <1>t DEF PopPosition, Goto, TypeOK, ExitState
  <2>3. p \in Positions /\ status[p] = "OPEN" /\ Untouched(p)
    BY <1>1, <1>l, <2>1 DEF PositionInv, OpenOK
  <2>4. \A x \in Closers : Popped(x) => exit[x].pos # p
    BY <1>1 DEF PositionInv, ClosingOK, WrittenAt
  <2>5. \A x \in Entrants : entry[x].pc = "journaled" => entry[x].pos # p
    BY <1>1 DEF PositionInv, EnteringOK
  <2> HIDE DEF p
  <2>6. RowsOK' /\ OpenOK' /\ EnteringOK'
    BY <2>1 DEF PositionInv, RowsOK, OpenOK, EnteringOK, Untouched
  <2>7. ClosingOK'
    <3> SUFFICES ASSUME NEW x \in Closers, Popped(x)'
                 PROVE  WrittenAt(exit[x].pc, exit[x].pos)'
      BY DEF ClosingOK
    <3>1. CASE x = c
      BY <3>1, <2>1, <2>2, <2>3 DEF WrittenAt, Untouched
    <3>2. CASE x # c
      <4>1. exit'[x] = exit[x] /\ WrittenAt(exit[x].pc, exit[x].pos)
        BY <1>f, <3>2 DEF PositionInv, ClosingOK, Popped
      <4> QED BY <4>1, <2>1 DEF WrittenAt, Untouched
    <3> QED BY <3>1, <3>2
  <2>8. OwnersDiffer'
    BY <1>f, <2>1, <2>2, <2>4, <2>5 DEF PositionInv, OwnersDiffer, Popped
  <2> QED BY <2>6, <2>7, <2>8 DEF PositionInv
<1>2. CASE PopPosition(c) /\ p \notin open
  <2>1. UNCHANGED <<entry, database, open, credited>> /\ exit'[c].pc = "idle"
    BY <1>2, <1>t DEF PopPosition, TypeOK, IdleExit
  <2> QED BY <1>t, <1>f, <2>1, QuietExitStep
<1>3. CASE PlaceSellOrder(c)
  <2>1. exit[c].pc = "selling" /\ UNCHANGED <<entry, status, trade, open, credited>>
    BY <1>3 DEF PlaceSellOrder, Closing, memory, history
  <2>2. Popped(c) /\ p \in Positions
    BY <2>1, <1>l DEF Popped
  <2>3. sells'[p] = sells[p] + 1 /\ \A q \in Positions \ {p} : sells'[q] = sells[q]
    BY <1>3, <1>t, <2>2 DEF PlaceSellOrder, TypeOK
  <2>4. exit'[c].pc = "sold" /\ exit'[c].pos = p
    BY <1>3, <1>t DEF PlaceSellOrder, TypeOK, ExitState
  <2>5. Popped(c)'
    BY <2>4 DEF Popped
  <2>6. WrittenAt(exit[c].pc, p)
    BY <1>w, <2>2
  <2>7. WrittenAt(exit[c].pc, exit[c].pos)'
    BY <2>1, <2>4, <2>6 DEF WrittenAt, Untouched
  <2>8. sells'[p] <= 1 /\ credited'[p] <= 1
    BY <2>1, <2>2, <2>3, <2>6, <1>r DEF WrittenAt, Untouched
  <2>9. trade'[p] = None /\ credited'[p] = 0
    BY <2>1, <2>6 DEF WrittenAt, Untouched
  <2> HIDE DEF p
  <2> QED BY <1>t, <1>f, <1>l, <2>1, <2>2, <2>3, <2>4, <2>5, <2>7, <2>8, <2>9, OwnerStep DEF p
<1>4. CASE WritePositionClosed(c)
  <2>1. exit[c].pc = "sold" /\ UNCHANGED <<entry, trade, sells, open, credited>>
    BY <1>4 DEF WritePositionClosed, Closing, memory, history
  <2>2. Popped(c) /\ p \in Positions
    BY <2>1, <1>l DEF Popped
  <2>3. status'[p] = "CLOSED" /\ \A q \in Positions \ {p} : status'[q] = status[q]
    BY <1>4, <1>t, <2>2 DEF WritePositionClosed, TypeOK
  <2>4. exit'[c].pc = "rowClosed" /\ exit'[c].pos = p
    BY <1>4, <1>t DEF WritePositionClosed, Goto, TypeOK, ExitState
  <2>5. Popped(c)'
    BY <2>4 DEF Popped
  <2>6. WrittenAt(exit[c].pc, p)
    BY <1>w, <2>2
  <2>7. WrittenAt(exit[c].pc, exit[c].pos)'
    BY <2>1, <2>3, <2>4, <2>6 DEF WrittenAt, Untouched
  <2>8. sells'[p] <= 1 /\ credited'[p] <= 1
    BY <2>1, <2>2, <1>r
  <2>9. credited'[p] = 0
    BY <2>1, <2>6 DEF WrittenAt
  <2> HIDE DEF p
  <2> QED BY <1>t, <1>f, <1>l, <2>1, <2>2, <2>3, <2>4, <2>5, <2>7, <2>8, <2>9, OwnerStep DEF p
<1>5. CASE WriteClosedTrade(c)
  <2>1. exit[c].pc = "rowClosed" /\ UNCHANGED <<entry, status, sells, open, credited>>
    BY <1>5 DEF WriteClosedTrade, Closing, memory, history
  <2>2. Popped(c) /\ p \in Positions /\ exit[c].pnl \in Pnls
    BY <2>1, <1>l DEF Popped
  <2>3. trade'[p] = exit[c].pnl /\ \A q \in Positions \ {p} : trade'[q] = trade[q]
    BY <1>5, <1>t, <2>2 DEF WriteClosedTrade, TypeOK
  <2>4. exit'[c].pc = "tradeWritten" /\ exit'[c].pos = p
    BY <1>5, <1>t DEF WriteClosedTrade, Goto, TypeOK, ExitState
  <2>5. Popped(c)'
    BY <2>4 DEF Popped
  <2>6. WrittenAt(exit[c].pc, p)
    BY <1>w, <2>2
  <2>7. trade'[p] # None
    BY <2>2, <2>3, CoreAssumption
  <2>8. WrittenAt(exit[c].pc, exit[c].pos)'
    BY <2>1, <2>4, <2>6, <2>7 DEF WrittenAt, Untouched
  <2>9. sells'[p] <= 1 /\ credited'[p] <= 1 /\ status'[p] = "CLOSED"
    BY <2>1, <2>2, <2>6, <1>r DEF WrittenAt
  <2> HIDE DEF p
  <2> QED BY <1>t, <1>f, <1>l, <2>1, <2>2, <2>3, <2>4, <2>5, <2>7, <2>8, <2>9, OwnerStep DEF p
<1>6. CASE ReleaseCapital(c)
  <2>1. exit[c].pc = "tradeWritten" /\ UNCHANGED <<entry, status, trade, sells, open>>
    BY <1>6 DEF ReleaseCapital, Closing, database, memory
  <2>2. Popped(c) /\ p \in Positions
    BY <2>1, <1>l DEF Popped
  <2>3. credited'[p] = credited[p] + 1 /\ \A q \in Positions \ {p} : credited'[q] = credited[q]
    BY <1>6, <1>t, <2>2 DEF ReleaseCapital, TypeOK
  <2>4. exit'[c].pc = "released" /\ exit'[c].pos = p
    BY <1>6, <1>t DEF ReleaseCapital, Goto, TypeOK, ExitState
  <2>5. Popped(c)'
    BY <2>4 DEF Popped
  <2>6. WrittenAt(exit[c].pc, p)
    BY <1>w, <2>2
  <2>7. WrittenAt(exit[c].pc, exit[c].pos)'
    BY <2>1, <2>4, <2>6 DEF WrittenAt, Untouched
  <2>8. sells'[p] <= 1 /\ credited'[p] <= 1
    BY <2>1, <2>2, <2>3, <2>6, <1>r DEF WrittenAt
  <2>9. trade'[p] # None /\ status'[p] = "CLOSED"
    BY <2>1, <2>6 DEF WrittenAt
  <2> HIDE DEF p
  <2> QED BY <1>t, <1>f, <1>l, <2>1, <2>2, <2>3, <2>4, <2>5, <2>7, <2>8, <2>9, OwnerStep DEF p
<1>7. CASE PostTradeCheck(c) \/ HaltEntries(c) \/ SyncExitMargin(c)
  <2>1. /\ exit[c].pc \in {"released", "halting", "syncing"}
        /\ UNCHANGED <<entry, database, open, credited>>
    BY <1>7 DEF PostTradeCheck, HaltEntries, SyncExitMargin, Closing, memory, history
  <2>2. PICK pc \in {"halting", "accounted", "synced"} : exit' = [exit EXCEPT ![c].pc = pc]
    BY <1>7 DEF PostTradeCheck, HaltEntries, SyncExitMargin, Goto
  <2>3. exit'[c].pc = pc /\ exit'[c].pos = exit[c].pos
    BY <1>t, <2>2 DEF TypeOK, ExitState
  <2>4. Popped(c)
    BY <2>1 DEF Popped
  <2> QED BY <1>t, <1>f, <2>1, <2>3, <2>4, QuietExitStep
<1>8. CASE ReadBook(c)
  <2>1. exit[c].pc = "accounted" /\ UNCHANGED <<entry, database, open, credited>>
    BY <1>8 DEF ReadBook, Closing, memory, history
  <2>2. exit'[c].pc = "syncing" /\ exit'[c].pos = exit[c].pos
    BY <1>8, <1>t DEF ReadBook, TypeOK, ExitState
  <2>3. Popped(c)
    BY <2>1 DEF Popped
  <2> QED BY <1>t, <1>f, <2>1, <2>2, <2>3, QuietExitStep
<1>9. CASE FinishExit(c) \/ ExitRaises(c)
  <2>1. UNCHANGED <<entry, database, open, credited>> /\ exit'[c].pc = "idle"
    BY <1>9, <1>t DEF FinishExit, ExitRaises, TypeOK, IdleExit, memory, history
  <2> QED BY <1>t, <1>f, <2>1, QuietExitStep
<1>10. ASSUME NEW q \in Positions, DecideExit(c, q) PROVE PositionInv'
  <2>1. UNCHANGED <<entry, database, open, credited>> /\ exit'[c].pc = "decided"
    BY <1>10, <1>t DEF DecideExit, TypeOK, ExitState, memory, history
  <2> QED BY <1>t, <1>f, <2>1, QuietExitStep
<1> QED
  BY <1>1, <1>2, <1>3, <1>4, <1>5, <1>6, <1>7, <1>8, <1>9, <1>10 DEF ExitStep

\* The endpoints and time write nothing about a position.
LEMMA PositionOther ==
  ASSUME TypeOK, PositionInv,
         \/ ReadSummaryRow \/ SummaryStep \/ CooldownElapses
         \/ \E enabled \in BOOLEAN : PressKillSwitch(enabled)
         \/ UNCHANGED vars
  PROVE  PositionInv'
<1>1. UNCHANGED <<entry, exit, status, trade, sells, open, credited>>
  BY DEF ReadSummaryRow, SummaryStep, CompareSummary, SyncSummaryMargin,
     CooldownElapses, PressKillSwitch, vars, database, memory, history
<1>2. QuietEntries /\ QuietExits /\ QuietRows
  BY <1>1 DEF QuietEntries, QuietExits, QuietRows, Popped
<1> QED BY <1>2, QuietStep

LEMMA PositionNext ==
  ASSUME TypeInv, LockInv, PositionInv, [Next]_vars PROVE PositionInv'
<1>t. TypeOK
  BY DEF TypeInv
<1>1. ASSUME NEW e \in Entrants, AcquireScan(e) \/ EntryStep(e) PROVE PositionInv'
  BY <1>1, PositionEntryStep
<1>2. ASSUME NEW c \in Closers, ExitStep(c) \/ ExitRaises(c) PROVE PositionInv'
  BY <1>2, PositionExitStep
<1>3. ASSUME NEW c \in Closers, NEW p \in Positions, DecideExit(c, p)
      PROVE  PositionInv'
  BY <1>3, PositionExitStep
<1>4. CASE \/ ReadSummaryRow \/ SummaryStep \/ CooldownElapses
           \/ \E enabled \in BOOLEAN : PressKillSwitch(enabled)
           \/ UNCHANGED vars
  BY <1>t, <1>4, PositionOther
<1> QED BY <1>1, <1>2, <1>3, <1>4 DEF Next

LEMMA InitInv == Init => LockInv /\ PositionInv
<1> SUFFICES ASSUME Init PROVE LockInv /\ PositionInv
  OBVIOUS
<1>1. \A e \in Entrants : entry[e].pc = "idle"
  BY DEF Init, IdleEntry
<1>2. \A c \in Closers : exit[c].pc = "idle"
  BY DEF Init, IdleExit
<1>3. \A p \in Positions : status[p] = "none" /\ Untouched(p)
  BY DEF Init, Untouched
<1>4. open = {}
  BY DEF Init
<1>5. LockInv
  BY <1>1 DEF LockInv
<1>6. RowsOK
  BY <1>3 DEF RowsOK, Untouched
<1>7. OpenOK /\ EnteringOK /\ ClosingOK /\ OwnersDiffer
  BY <1>1, <1>2, <1>4 DEF OpenOK, EnteringOK, ClosingOK, OwnersDiffer, Popped
<1> QED BY <1>5, <1>6, <1>7 DEF PositionInv

\* What the program counters promise holds in every reachable state.
THEOREM OwnershipHolds == Spec => []LockInv /\ []PositionInv
<1>1. Init => LockInv /\ PositionInv
  BY InitInv
<1>2. TypeInv /\ LockInv /\ PositionInv /\ [Next]_vars => LockInv' /\ PositionInv'
  BY LockNext, PositionNext
<1>3. Spec => []TypeInv
  BY TypeCorrect, PTL
<1> QED BY <1>1, <1>2, <1>3, PTL DEF Spec

\* A position is sold and credited at most once, however many quote handlers
\* and endpoint calls want to close it and whatever raises in between: the pop
\* in _close_position makes one of them the owner.
THEOREM ExitedOnceHolds == Spec => []ExitedOnce
<1>1. PositionInv => ExitedOnce
  BY DEF PositionInv, RowsOK, ExitedOnce
<1> QED BY <1>1, OwnershipHolds, PTL

\* A trade is booked only for a CLOSED row and credit follows only a booked
\* trade, also when a step of _close_position raises and the rest is skipped.
THEOREM WritesInOrderHolds == Spec => []WritesInOrder
<1>1. PositionInv => WritesInOrder
  BY DEF PositionInv, RowsOK, WritesInOrder
<1> QED BY <1>1, OwnershipHolds, PTL
=============================================================================
