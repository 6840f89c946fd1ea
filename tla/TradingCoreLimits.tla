------------------------- MODULE TradingCoreLimits -------------------------
(***************************************************************************)
(* What the guards of an entry bound, for every instance of TradingCore:   *)
(* one position per contract, max_positions, the combined-exposure cap.    *)
(* Each guard is several awaits older than register_open, which acts on    *)
(* it.  It still holds there because the scan lock admits one entry at a   *)
(* time (LockInv) and every other step only takes positions out of the     *)
(* book.                                                                   *)
(***************************************************************************)
EXTENDS TradingCoreSafety

PendingPcs == {"sized", "ordering", "filled", "journaled"}

\* The four things an entry step can do, as far as the limits can tell.
GivesUp(e) == entry'[e].pc \notin PendingPcs /\ UNCHANGED <<open, book>>

PassesSizing(e) ==
  /\ UNCHANGED <<open, book>>
  /\ entry'[e].pc = "sized"
  /\ ~Reached(Cardinality(open), MaxPositions)
  /\ FitsPortfolio(entry'[e].snap, entry'[e].premium)

Proceeds(e) ==
  /\ entry[e].pc \in PendingPcs /\ entry'[e].pc \in PendingPcs \ {"sized"}
  /\ UNCHANGED open /\ \A p \in open : book'[p] = book[p]
  /\ entry'[e].token = entry[e].token /\ entry'[e].snap = entry[e].snap
  /\ entry'[e].asked = entry[e].asked
  /\ entry'[e].lots = entry[e].lots => entry'[e].premium = entry[e].premium
  /\ entry[e].pc # "ordering" => entry'[e].lots = entry[e].lots
  /\ entry[e].pc = "sized" => ~HasOpenForToken(entry[e].token)
  /\ entry'[e].pc = "journaled" => book'[entry'[e].pos].token = entry[e].token

Registers(e) ==
  /\ entry[e].pc = "journaled" /\ entry'[e].pc = "syncing"
  /\ open' = open \cup {entry[e].pos} /\ UNCHANGED book

LEMMA EntryCases ==
  ASSUME TypeInv, PositionInv, NEW e \in Entrants, AcquireScan(e) \/ EntryStep(e)
  PROVE  GivesUp(e) \/ PassesSizing(e) \/ Proceeds(e) \/ Registers(e)
<1>t. /\ TypeOK /\ entry \in [Entrants -> EntryState] /\ entry[e] \in EntryState
      /\ entry[e].lots \in Nat
  BY DEF TypeInv, TypeOK, EntryState
<1>1. CASE AcquireScan(e)
  BY <1>1, <1>t DEF AcquireScan, GivesUp, PendingPcs, EntryState, database
<1>2. CASE AbandonEntry(e) \/ SyncEntryMargin(e) \/ UnwindRaises(e)
  <2>1. entry' = [entry EXCEPT ![e] = IdleEntry] /\ UNCHANGED <<open, book>>
    BY <1>2 DEF AbandonEntry, SyncEntryMargin, UnwindRaises, Finish, database
  <2>2. entry'[e] = IdleEntry
    BY <1>t, <2>1
  <2> QED BY <2>1, <2>2 DEF GivesUp, PendingPcs, IdleEntry
<1>3. ASSUME NEW t \in Tokens, ExecuteSignal(e, t) PROVE GivesUp(e)
  BY <1>3, <1>t DEF ExecuteSignal, GivesUp, PendingPcs, EntryState, database
<1>4. CASE CheckBlocked(e)
  BY <1>4, <1>t DEF CheckBlocked, GivesUp, PendingPcs, EntryState, database, memory
<1>5. CASE Validate(e)
  BY <1>5, <1>t DEF Validate, GivesUp, PendingPcs, EntryState, database, memory
<1>6. ASSUME NEW lots \in LotSizes, NEW price \in Prices, SizeEntry(e, lots, price)
      PROVE  PassesSizing(e)
  <2>1. /\ UNCHANGED <<open, book>>
        /\ FitsPortfolio(entry[e].snap, price * lots)
        /\ ~Reached(Cardinality(open), MaxPositions)
    BY <1>6 DEF SizeEntry, database, memory, GateAllows
  <2> QED BY <1>6, <1>t, <2>1, SizeEntryFacts DEF PassesSizing
<1>7. CASE ReserveCapital(e)
  <2>1. /\ entry' = [entry EXCEPT ![e].pc = "ordering"]
        /\ UNCHANGED <<open, book>>
        /\ entry[e].pc = "sized" /\ ~HasOpenForToken(entry[e].token)
    BY <1>7 DEF ReserveCapital, At, database, memory
  <2>2. entry'[e] = [entry[e] EXCEPT !.pc = "ordering"]
    BY <1>t, <2>1
  <2>3. /\ entry'[e].pc = "ordering" /\ entry'[e].premium = entry[e].premium
        /\ entry'[e].asked = entry[e].asked /\ entry'[e].lots = entry[e].lots
        /\ entry'[e].snap = entry[e].snap /\ entry'[e].token = entry[e].token
    BY <1>t, <2>2 DEF EntryState
  <2> QED BY <1>t, <2>1, <2>3 DEF Proceeds, PendingPcs
<1>8. CASE PlaceBuyOrder(e)
  <2>0. UNCHANGED <<open, book>> /\ entry[e].pc = "ordering"
    BY <1>8 DEF PlaceBuyOrder, At, database, memory
  <2>1. CASE entry' = [entry EXCEPT ![e].pc = "rejected"]
    BY <2>0, <2>1, <1>t DEF GivesUp, PendingPcs, EntryState
  <2>2. ASSUME NEW n \in Nat, NEW m \in Nat, BuysSome(e, n, m),
               n = entry[e].lots => m = entry[e].premium
        PROVE  Proceeds(e)
    BY <2>0, <2>2 DEF BuysSome, Proceeds, PendingPcs
  <2> QED BY <1>8, <1>t, <2>1, <2>2, BuyOrderCases
<1>9. ASSUME NEW p \in Positions, WritePositionOpened(e, p) PROVE Proceeds(e)
  <2>1. /\ entry' = [entry EXCEPT ![e].pc = "journaled", ![e].pos = p]
        /\ book' = [book EXCEPT ![p] = [token |-> entry[e].token,
                                        lots |-> entry[e].lots,
                                        premium |-> entry[e].premium]]
        /\ UNCHANGED open /\ entry[e].pc = "filled" /\ status[p] = "none"
    BY <1>9 DEF WritePositionOpened, At, memory
  <2>2. p \notin open
    BY <2>1 DEF PositionInv, OpenOK
  <2>3. (\A q \in open : book'[q] = book[q]) /\ book'[p].token = entry[e].token
    BY <1>t, <2>1, <2>2 DEF TypeOK
  <2>4. entry'[e] = [entry[e] EXCEPT !.pc = "journaled", !.pos = p]
    BY <1>t, <2>1
  <2>5. /\ entry'[e].pc = "journaled" /\ entry'[e].premium = entry[e].premium
        /\ entry'[e].asked = entry[e].asked /\ entry'[e].lots = entry[e].lots
        /\ entry'[e].snap = entry[e].snap /\ entry'[e].token = entry[e].token
        /\ entry'[e].pos = p
    BY <1>t, <2>4 DEF EntryState
  <2> QED BY <1>t, <2>1, <2>3, <2>5 DEF Proceeds, PendingPcs
<1>10. CASE RegisterOpen(e)
  <2>1. /\ entry[e].pc = "journaled" /\ open' = open \cup {entry[e].pos}
        /\ UNCHANGED book
    BY <1>10 DEF RegisterOpen, At, database
  <2>2. entry'[e].pc = "syncing"
    BY <1>10, <1>t DEF RegisterOpen, EntryState
  <2> QED BY <2>1, <2>2 DEF Registers
<1>11. CASE EntryRaises(e)
  BY <1>11, <1>t DEF EntryRaises, GivesUp, PendingPcs, EntryState, database, memory
<1> QED
  BY <1>1, <1>2, <1>3, <1>4, <1>5, <1>6, <1>7, <1>8, <1>9, <1>10, <1>11 DEF EntryStep

\* After the step of a scan no other scan is under way.
LEMMA NoOtherScan ==
  ASSUME TypeOK, LockInv, NEW e \in Entrants, AcquireScan(e) \/ EntryStep(e)
  PROVE  \A x \in Entrants \ {e} : entry'[x] = entry[x] /\ entry[x].pc = "idle"
<1>1. ScanStep(e)
  BY EntryIsScanStep
<1>2. None \notin Entrants
  BY CoreAssumption
<1> QED BY <1>1, <1>2 DEF ScanStep, LockInv

\* Every other step leaves the scans alone and only takes out of the book.
BookShrinks ==
  /\ UNCHANGED <<entry, book>>
  /\ UNCHANGED open \/ \E p \in open : open' = open \ {p}

LEMMA OthersShrink ==
  ASSUME \/ \E c \in Closers : ExitStep(c) \/ ExitRaises(c)
         \/ \E c \in Closers, p \in Positions : DecideExit(c, p)
         \/ ReadSummaryRow \/ SummaryStep \/ CooldownElapses
         \/ \E enabled \in BOOLEAN : PressKillSwitch(enabled)
         \/ UNCHANGED vars
  PROVE  BookShrinks
<1>1. ASSUME NEW c \in Closers, PopPosition(c) PROVE BookShrinks
  BY <1>1 DEF PopPosition, BookShrinks, database
<1>2. ASSUME NEW c \in Closers, ExitStep(c), ~PopPosition(c) PROVE BookShrinks
  BY <1>2 DEF BookShrinks, ExitStep, PlaceSellOrder, WritePositionClosed,
     WriteClosedTrade, ReleaseCapital, PostTradeCheck, HaltEntries, ReadBook,
     SyncExitMargin, FinishExit, memory, database
<1>3. ASSUME NEW c \in Closers, ExitRaises(c) PROVE BookShrinks
  BY <1>3 DEF ExitRaises, BookShrinks, memory, database
<1>4. ASSUME NEW c \in Closers, NEW p \in Positions, DecideExit(c, p)
      PROVE  BookShrinks
  BY <1>4 DEF DecideExit, BookShrinks, memory, database
<1>5. CASE ReadSummaryRow \/ SummaryStep \/ CooldownElapses \/ UNCHANGED vars
  BY <1>5 DEF ReadSummaryRow, SummaryStep, CompareSummary, SyncSummaryMargin,
     CooldownElapses, vars, BookShrinks, memory, database
<1>6. ASSUME NEW enabled \in BOOLEAN, PressKillSwitch(enabled) PROVE BookShrinks
  BY <1>6 DEF PressKillSwitch, BookShrinks, memory, database
<1> QED BY <1>1, <1>2, <1>3, <1>4, <1>5, <1>6

-----------------------------------------------------------------------------
(***************************************************************************)
(* One position per contract.                                              *)
(***************************************************************************)
\* From the final guard on, the contract of the entry stays out of the book.
EntryGuarded(e) ==
  /\ entry[e].pc \in PendingPcs \ {"sized"} => ~HasOpenForToken(entry[e].token)
  /\ entry[e].pc = "journaled" => book[entry[e].pos].token = entry[e].token

TokenInv == OnePositionPerToken /\ \A e \in Entrants : EntryGuarded(e)

LEMMA TokenNext ==
  ASSUME TypeInv, LockInv, PositionInv, TokenInv, [Next]_vars PROVE TokenInv'
<1>t. TypeOK
  BY DEF TypeInv
<1>1. ASSUME NEW e \in Entrants, AcquireScan(e) \/ EntryStep(e) PROVE TokenInv'
  <2>1. \A x \in Entrants \ {e} : EntryGuarded(x)'
    BY <1>t, <1>1, NoOtherScan DEF EntryGuarded, PendingPcs
  <2>2. CASE GivesUp(e) \/ PassesSizing(e)
    <3>1. OnePositionPerToken'
      BY <2>2 DEF GivesUp, PassesSizing, TokenInv, OnePositionPerToken
    <3>2. EntryGuarded(e)'
      BY <2>2 DEF GivesUp, PassesSizing, EntryGuarded, PendingPcs
    <3> QED BY <2>1, <3>1, <3>2 DEF TokenInv
  <2>3. CASE Proceeds(e)
    <3>1. OnePositionPerToken'
      BY <2>3 DEF Proceeds, TokenInv, OnePositionPerToken
    <3>2. ~HasOpenForToken(entry[e].token)
      BY <2>3 DEF Proceeds, TokenInv, EntryGuarded
    <3>3. EntryGuarded(e)'
      BY <2>3, <3>2 DEF Proceeds, EntryGuarded, HasOpenForToken
    <3> QED BY <2>1, <3>1, <3>3 DEF TokenInv
  <2>4. CASE Registers(e)
    <3>1. \A p \in open : book[p].token # book[entry[e].pos].token
      BY <2>4 DEF Registers, TokenInv, EntryGuarded, PendingPcs, HasOpenForToken
    <3>2. OnePositionPerToken'
      BY <2>4, <3>1 DEF Registers, TokenInv, OnePositionPerToken
    <3>3. EntryGuarded(e)'
      BY <2>4 DEF Registers, EntryGuarded, PendingPcs
    <3> QED BY <2>1, <3>2, <3>3 DEF TokenInv
  <2> QED BY <1>1, <2>2, <2>3, <2>4, EntryCases
<1>2. CASE BookShrinks
  <2>1. open' \subseteq open /\ UNCHANGED <<entry, book>>
    BY <1>2 DEF BookShrinks
  <2> QED BY <2>1 DEF TokenInv, OnePositionPerToken, EntryGuarded, HasOpenForToken
<1> QED BY <1>1, <1>2, OthersShrink DEF Next

\* Never two open positions in one contract, for any number of scans and exits
\* in any interleaving: the guard of ReserveCapital still holds when
\* register_open runs, four awaits later.
THEOREM OnePositionPerTokenHolds == Spec => []OnePositionPerToken
<1>1. Init => TokenInv
  BY DEF Init, TokenInv, OnePositionPerToken, EntryGuarded, IdleEntry, PendingPcs
<1>2. TypeInv /\ LockInv /\ PositionInv /\ TokenInv /\ [Next]_vars => TokenInv'
  BY TokenNext
<1>3. TokenInv => OnePositionPerToken
  BY DEF TokenInv
<1> QED BY <1>1, <1>2, <1>3, TypeCorrect, OwnershipHolds, PTL DEF Spec

-----------------------------------------------------------------------------
(***************************************************************************)
(* The number of positions.                                                *)
(***************************************************************************)
LEMMA PendingOne ==
  ASSUME NEW S \in SUBSET Entrants, NEW e \in Entrants, S \subseteq {e}
  PROVE  /\ e \in S => Cardinality(S) = 1
         /\ e \notin S => Cardinality(S) = 0
<1>1. S = {} \/ S = {e}
  OBVIOUS
<1> QED BY <1>1, FS_EmptySet, FS_Singleton

LEMMA LimitNext ==
  ASSUME TypeInv, LockInv, PositionInv, PositionLimitHeld, [Next]_vars
  PROVE  PositionLimitHeld'
<1>t. TypeOK
  BY DEF TypeInv
<1>f. IsFiniteSet(open) /\ Cardinality(open) \in Nat
  BY <1>t, CoreAssumption, FS_Subset, FS_CardinalityType DEF TypeOK
<1>m. MaxPositions \in Nat
  BY LimitsAssumption
<1>1. ASSUME NEW e \in Entrants, AcquireScan(e) \/ EntryStep(e), MaxPositions > 0
      PROVE  (Cardinality(open) + Cardinality(Pending) <= MaxPositions)'
  <2>1. Pending \subseteq {e} /\ Pending' \subseteq {e}
    BY <1>t, <1>1, NoOtherScan DEF Pending
  <2>2. /\ e \in Pending <=> entry[e].pc \in PendingPcs
        /\ e \in Pending' <=> entry'[e].pc \in PendingPcs
    BY DEF Pending, PendingPcs
  <2>3. /\ Cardinality(Pending) = IF e \in Pending THEN 1 ELSE 0
        /\ Cardinality(Pending') = IF e \in Pending' THEN 1 ELSE 0
    BY <2>1, PendingOne DEF Pending
  <2>4. Cardinality(open) + Cardinality(Pending) <= MaxPositions
    BY <1>1 DEF PositionLimitHeld
  <2>5. CASE GivesUp(e)
    BY <1>f, <1>m, <2>2, <2>3, <2>4, <2>5 DEF GivesUp
  <2>6. CASE PassesSizing(e)
    BY <1>f, <1>m, <1>1, <2>2, <2>3, <2>6 DEF PassesSizing, Reached
  <2>7. CASE Proceeds(e)
    BY <1>f, <1>m, <2>2, <2>3, <2>4, <2>7 DEF Proceeds
  <2>8. CASE Registers(e)
    <3>1. e \in Pending /\ e \notin Pending'
      BY <2>2, <2>8 DEF Registers, PendingPcs
    <3>2. open' = open \cup {entry[e].pos}
      BY <2>8 DEF Registers
    <3>3. \/ Cardinality(open \cup {entry[e].pos}) = Cardinality(open)
          \/ Cardinality(open \cup {entry[e].pos}) = Cardinality(open) + 1
      BY <1>f, FS_AddElement
    <3> QED BY <1>f, <1>m, <2>3, <2>4, <3>1, <3>2, <3>3
  <2> QED BY <1>1, <2>5, <2>6, <2>7, <2>8, EntryCases
<1>2. CASE BookShrinks
  <2>1. Pending' = Pending
    BY <1>2 DEF BookShrinks, Pending
  <2>2. Cardinality(open') <= Cardinality(open) /\ Cardinality(open') \in Nat
    <3>1. CASE UNCHANGED open
      BY <1>f, <3>1
    <3>2. ASSUME NEW p \in open, open' = open \ {p}
          PROVE  Cardinality(open') = Cardinality(open) - 1 /\ Cardinality(open') \in Nat
      <4>1. Cardinality(open \ {p}) = Cardinality(open) - 1
        BY <1>f, FS_RemoveElement
      <4>2. Cardinality(open \ {p}) \in Nat
        BY <1>f, FS_Subset, FS_CardinalityType
      <4> QED BY <3>2, <4>1, <4>2
    <3> QED BY <1>f, <1>2, <3>1, <3>2 DEF BookShrinks
  <2>3. Pending = {} \/ \E e \in Entrants : Pending = {e}
    <3>1. \A x, y \in Pending : x = y
      BY DEF Pending, LockInv
    <3>2. Pending \subseteq Entrants
      BY DEF Pending
    <3> QED BY <3>1, <3>2
  <2>4. Cardinality(Pending) \in Nat
    BY <2>3, FS_EmptySet, FS_Singleton
  <2> QED BY <1>f, <1>m, <2>1, <2>2, <2>4 DEF PositionLimitHeld
<1> QED BY <1>1, <1>2, OthersShrink DEF Next, PositionLimitHeld

\* max_positions bounds the book and the entry under way together, although
\* the count is taken before the order, the journal write and the reserve.
THEOREM PositionLimitHolds == Spec => []PositionLimitHeld
<1>1. Init => PositionLimitHeld
  <2> SUFFICES ASSUME Init PROVE PositionLimitHeld
    OBVIOUS
  <2>1. open = {} /\ Pending = {}
    BY DEF Init, Pending, IdleEntry
  <2>2. Cardinality(open) = 0 /\ Cardinality(Pending) = 0
    BY <2>1, FS_EmptySet
  <2>3. MaxPositions \in Nat
    BY LimitsAssumption
  <2> QED BY <2>2, <2>3 DEF PositionLimitHeld
<1>2. TypeInv /\ LockInv /\ PositionInv /\ PositionLimitHeld /\ [Next]_vars
        => PositionLimitHeld'
  BY LimitNext
<1> QED BY <1>1, <1>2, TypeCorrect, OwnershipHolds, PTL DEF Spec

-----------------------------------------------------------------------------
(***************************************************************************)
(* The combined-exposure cap.                                              *)
(***************************************************************************)
\* An entry that has passed the blocked test works on a snapshot of the row.
SnapPcs == {"validating", "sizing"} \cup PendingPcs

SnapInv == \A e \in Entrants : entry[e].pc \in SnapPcs => entry[e].snap \in RiskRow

LEMMA SnapStep ==
  ASSUME TypeInv, SnapInv, NEW e \in Entrants, AcquireScan(e) \/ EntryStep(e)
  PROVE  entry'[e].pc \in SnapPcs => entry'[e].snap \in RiskRow
<1>t. /\ TypeOK /\ entry \in [Entrants -> EntryState] /\ entry[e] \in EntryState
      /\ entry[e].pc \in SnapPcs => entry[e].snap \in RiskRow
      /\ risk \in RiskRow
  BY DEF TypeInv, TypeOK, SnapInv
<1>1. CASE AcquireScan(e)
  BY <1>1, <1>t DEF AcquireScan, SnapPcs, PendingPcs, EntryState
<1>2. CASE AbandonEntry(e) \/ SyncEntryMargin(e) \/ UnwindRaises(e)
  <2>1. entry' = [entry EXCEPT ![e] = IdleEntry]
    BY <1>2 DEF AbandonEntry, SyncEntryMargin, UnwindRaises, Finish
  <2>2. entry'[e] = IdleEntry
    BY <1>t, <2>1
  <2> QED BY <2>2 DEF SnapPcs, PendingPcs, IdleEntry
<1>3. ASSUME NEW t \in Tokens, ExecuteSignal(e, t) PROVE entry'[e].pc \notin SnapPcs
  BY <1>3, <1>t DEF ExecuteSignal, SnapPcs, PendingPcs, EntryState
<1>4. CASE CheckBlocked(e)
  <2>1. entry' = [entry EXCEPT ![e].pc = "validating", ![e].snap = Snapshot(risk)]
    BY <1>4 DEF CheckBlocked
  <2>2. entry'[e].snap = Snapshot(risk)
    BY <1>t, <2>1 DEF EntryState
  <2> QED BY <1>t, <2>2, SnapshotType
<1>5. CASE Validate(e)
  BY <1>5, <1>t DEF Validate, At, SnapPcs, EntryState
<1>6. ASSUME NEW lots \in LotSizes, NEW price \in Prices, SizeEntry(e, lots, price)
      PROVE  entry'[e].snap \in RiskRow
  BY <1>6, <1>t, SizeEntryFacts DEF SizeEntry, At, SnapPcs
<1>7. CASE ReserveCapital(e)
  BY <1>7, <1>t DEF ReserveCapital, At, SnapPcs, PendingPcs, EntryState
<1>8. CASE PlaceBuyOrder(e)
  <2>1. CASE entry' = [entry EXCEPT ![e].pc = "rejected"]
    BY <2>1, <1>t DEF SnapPcs, PendingPcs, EntryState
  <2>2. ASSUME NEW n \in Nat, NEW m \in Nat, BuysSome(e, n, m)
        PROVE  entry'[e].snap \in RiskRow
    BY <1>8, <2>2, <1>t DEF PlaceBuyOrder, BuysSome, At, SnapPcs, PendingPcs
  <2> QED BY <1>8, <1>t, <2>1, <2>2, BuyOrderCases
<1>9. ASSUME NEW p \in Positions, WritePositionOpened(e, p) PROVE entry'[e].snap \in RiskRow
  BY <1>9, <1>t DEF WritePositionOpened, At, SnapPcs, PendingPcs, EntryState
<1>10. CASE RegisterOpen(e)
  BY <1>10, <1>t DEF RegisterOpen, SnapPcs, PendingPcs, EntryState
<1>11. CASE EntryRaises(e)
  BY <1>11, <1>t DEF EntryRaises, SnapPcs, PendingPcs, EntryState
<1> QED
  BY <1>1, <1>2, <1>3, <1>4, <1>5, <1>6, <1>7, <1>8, <1>9, <1>10, <1>11 DEF EntryStep

LEMMA SnapNext ==
  ASSUME TypeInv, LockInv, SnapInv, [Next]_vars PROVE SnapInv'
<1>t. TypeOK
  BY DEF TypeInv
<1>1. ASSUME NEW e \in Entrants, AcquireScan(e) \/ EntryStep(e) PROVE SnapInv'
  BY <1>1, <1>t, SnapStep, NoOtherScan DEF SnapInv
<1>2. CASE BookShrinks
  BY <1>2 DEF BookShrinks, SnapInv
<1> QED BY <1>1, <1>2, OthersShrink DEF Next

\* No order is filled in part before it is placed.
UnfilledPcs == {"idle", "scanning", "checking", "validating", "sizing", "sized", "ordering"}

WholeInv ==
  \A e \in Entrants : entry[e].pc \in UnfilledPcs => entry[e].lots = entry[e].asked

LEMMA WholeStep ==
  ASSUME TypeOK, WholeInv, NEW e \in Entrants, AcquireScan(e) \/ EntryStep(e)
  PROVE  entry'[e].pc \in UnfilledPcs => entry'[e].lots = entry'[e].asked
<1>t. /\ entry \in [Entrants -> EntryState] /\ entry[e] \in EntryState
      /\ entry[e].pc \in UnfilledPcs => entry[e].lots = entry[e].asked
  BY DEF TypeOK, WholeInv
<1>1. CASE AcquireScan(e) \/ CheckBlocked(e) \/ Validate(e) \/ ReserveCapital(e)
           \/ EntryRaises(e) \/ RegisterOpen(e)
  BY <1>1, <1>t DEF AcquireScan, CheckBlocked, Validate, ReserveCapital, EntryRaises,
     RegisterOpen, At, UnfilledPcs, EntryState
<1>2. CASE AbandonEntry(e) \/ SyncEntryMargin(e) \/ UnwindRaises(e)
  <2>1. entry' = [entry EXCEPT ![e] = IdleEntry]
    BY <1>2 DEF AbandonEntry, SyncEntryMargin, UnwindRaises, Finish
  <2>2. entry'[e] = IdleEntry
    BY <1>t, <2>1
  <2> QED BY <2>2 DEF IdleEntry
<1>3. ASSUME NEW t \in Tokens, ExecuteSignal(e, t) PROVE entry'[e].lots = entry'[e].asked
  BY <1>3, <1>t DEF ExecuteSignal, At, UnfilledPcs, EntryState
<1>4. ASSUME NEW lots \in LotSizes, NEW price \in Prices, SizeEntry(e, lots, price)
      PROVE  entry'[e].lots = entry'[e].asked
  BY <1>4, SizeEntryFacts
<1>5. CASE PlaceBuyOrder(e)
  BY <1>5, <1>t, BuyOrderCases DEF BuysSome, UnfilledPcs, EntryState
<1>6. ASSUME NEW p \in Positions, WritePositionOpened(e, p)
      PROVE  entry'[e].pc \notin UnfilledPcs
  BY <1>6, <1>t DEF WritePositionOpened, UnfilledPcs, EntryState
<1> QED BY <1>1, <1>2, <1>3, <1>4, <1>5, <1>6 DEF EntryStep

LEMMA WholeNext ==
  ASSUME TypeInv, LockInv, WholeInv, [Next]_vars PROVE WholeInv'
<1>t. TypeOK
  BY DEF TypeInv
<1>1. ASSUME NEW e \in Entrants, AcquireScan(e) \/ EntryStep(e) PROVE WholeInv'
  BY <1>1, <1>t, WholeStep, NoOtherScan DEF WholeInv
<1>2. CASE BookShrinks
  BY <1>2 DEF BookShrinks, WholeInv
<1> QED BY <1>1, <1>2, OthersShrink DEF Next

\* A book that only loses positions has no larger total.
LEMMA TotalShrinks ==
  ASSUME TypeOK, \A p \in open : book'[p] = book[p],
         open' = open \/ \E p \in open : open' = open \ {p},
         book' \in [Positions -> BookRow]
  PROVE  /\ TotalDeployed(open) \in Nat /\ TotalDeployed(open)' \in Nat
         /\ TotalDeployed(open)' <= TotalDeployed(open)
<1> DEFINE f == [p \in Positions |-> book[p].premium]
           g == [p \in Positions |-> book'[p].premium]
<1>1. /\ \A p \in Positions : f[p] \in Nat /\ g[p] \in Nat
      /\ \A p \in open : g[p] = f[p]
      /\ open \in SUBSET Positions /\ open' \in SUBSET open
  BY DEF TypeOK, BookRow
<1>2. IsFiniteSet(open) /\ IsFiniteSet(open')
  BY <1>1, CoreAssumption, FS_Subset
<1>3. TotalDeployed(open) = SumOver(f, open) /\ TotalDeployed(open)' = SumOver(g, open')
  BY DEF TotalDeployed
<1> HIDE DEF f, g
<1>4. SumOver(g, open') = SumOver(f, open')
  BY <1>1, <1>2, SumSame
<1>5. SumOver(f, open) \in Nat /\ SumOver(f, open') \in Nat
  BY <1>1, <1>2, SumNat
<1>6. SumOver(f, open') <= SumOver(f, open)
  <2>1. CASE open' = open
    BY <1>5, <2>1
  <2>2. ASSUME NEW p \in open, open' = open \ {p} PROVE SumOver(f, open') <= SumOver(f, open)
    <3>1. SumOver(f, open) = SumOver(f, open \ {p}) + f[p]
      BY <1>1, <1>2, SumRemove
    <3> QED BY <1>1, <1>5, <2>2, <3>1
  <2> QED BY <2>1, <2>2
<1> QED BY <1>3, <1>4, <1>5, <1>6

\* A smaller exposure fits too.
LEMMA SmallerFits ==
  ASSUME NEW r \in RiskRow, NEW a \in Nat, NEW b \in Nat, a <= b,
         b * 100 <= CombinedPct * Equity(r)
  PROVE  a * 100 <= CombinedPct * Equity(r)
<1>1. Equity(r) \in Int
  BY DEF RiskRow, Equity
<1>2. CombinedPct \in Nat
  BY CoreAssumption
<1>3. CombinedPct * Equity(r) \in Int
  BY <1>1, <1>2
<1> DEFINE cap == CombinedPct * Equity(r)
<1> HIDE DEF cap
<1>4. a * 100 <= cap
  BY <1>3 DEF cap
<1> QED BY <1>4 DEF cap

LEMMA ExposureNext ==
  ASSUME TypeInv, TypeInv', LockInv, PositionInv, SnapInv, WholeInv, ExposureCapHeld,
         [Next]_vars
  PROVE  ExposureCapHeld'
<1>t. /\ TypeOK /\ book' \in [Positions -> BookRow]
      /\ \A x \in Entrants : entry[x].premium \in Nat /\ entry'[x].premium \in Nat
  BY DEF TypeInv, TypeOK, EntryState
<1> SUFFICES ASSUME CombinedPct > 0, NEW x \in Entrants, entry'[x].pc \in PendingPcs,
                    entry'[x].lots = entry'[x].asked
             PROVE  (TotalDeployed(open)' + entry'[x].premium) * 100
                      <= CombinedPct * Equity(entry'[x].snap)
  BY DEF ExposureCapHeld, Pending, PendingPcs
<1> DEFINE fits == (TotalDeployed(open)' + entry'[x].premium) * 100
                      <= CombinedPct * Equity(entry'[x].snap)
           bound(e) == (TotalDeployed(open) + entry[e].premium) * 100
                      <= CombinedPct * Equity(entry[e].snap)
<1>b. entry[x].pc \in PendingPcs /\ entry[x].lots = entry[x].asked => bound(x)
  BY DEF ExposureCapHeld, Pending, PendingPcs
<1>s. entry[x].pc \in PendingPcs => entry[x].snap \in RiskRow
  BY DEF SnapInv, SnapPcs
<1>k. ASSUME entry[x].pc \in PendingPcs, \A p \in open : book'[p] = book[p],
             open' = open \/ \E p \in open : open' = open \ {p},
             entry'[x].snap = entry[x].snap, entry[x].lots = entry[x].asked,
             entry'[x].premium = entry[x].premium
      PROVE  fits
  <2>1. /\ TotalDeployed(open) \in Nat /\ TotalDeployed(open)' \in Nat
        /\ TotalDeployed(open)' <= TotalDeployed(open)
    BY <1>t, <1>k, TotalShrinks
  <2> DEFINE a == TotalDeployed(open)' + entry'[x].premium
             b == TotalDeployed(open) + entry[x].premium
  <2>2. a \in Nat /\ b \in Nat /\ a <= b
    BY <1>t, <1>k, <2>1
  <2>3. b * 100 <= CombinedPct * Equity(entry[x].snap)
    BY <1>b, <1>k
  <2> HIDE DEF a, b
  <2>4. a * 100 <= CombinedPct * Equity(entry[x].snap)
    BY <1>s, <1>k, <2>2, <2>3, SmallerFits
  <2> QED BY <1>k, <2>4 DEF a
<1>1. ASSUME NEW e \in Entrants, AcquireScan(e) \/ EntryStep(e) PROVE fits
  <2>1. x = e
    BY <1>t, <1>1, NoOtherScan DEF PendingPcs
  <2>2. CASE PassesSizing(e)
    <3>1. TotalDeployed(open)' = TotalDeployed(open)
      BY <2>2 DEF PassesSizing, TotalDeployed
    <3> QED BY <2>1, <2>2, <3>1 DEF PassesSizing, FitsPortfolio
  <2>3. CASE Proceeds(e)
    <3>1. entry[x].lots = entry[x].asked
      BY <2>1, <2>3 DEF Proceeds, WholeInv, UnfilledPcs
    <3>2. entry'[x].lots = entry[x].lots
      BY <2>1, <2>3, <3>1 DEF Proceeds
    <3> QED BY <1>k, <2>1, <2>3, <3>1, <3>2 DEF Proceeds
  <2>4. ~GivesUp(e) /\ ~Registers(e)
    BY <2>1 DEF GivesUp, Registers, PendingPcs
  <2> QED BY <1>1, <2>2, <2>3, <2>4, EntryCases
<1>2. CASE BookShrinks
  BY <1>k, <1>t, <1>2 DEF BookShrinks
<1> QED BY <1>1, <1>2, OthersShrink DEF Next

\* The exposure an entry was sized for bounds book and order until the
\* position is registered, unless the order is filled in part and valued anew,
\* whatever exits and reconciles do meanwhile.
THEOREM ExposureCapHolds == Spec => []ExposureCapHeld
<1>1. Init => SnapInv /\ WholeInv /\ ExposureCapHeld
  BY DEF Init, SnapInv, WholeInv, SnapPcs, PendingPcs, ExposureCapHeld, Pending, IdleEntry
<1>2. TypeInv /\ LockInv /\ SnapInv /\ [Next]_vars => SnapInv'
  BY SnapNext
<1>3. TypeInv /\ LockInv /\ WholeInv /\ [Next]_vars => WholeInv'
  BY WholeNext
<1>4. TypeInv /\ TypeInv' /\ LockInv /\ PositionInv /\ SnapInv /\ WholeInv
        /\ ExposureCapHeld /\ [Next]_vars => ExposureCapHeld'
  BY ExposureNext
<1> QED BY <1>1, <1>2, <1>3, <1>4, TypeCorrect, OwnershipHolds, PTL DEF Spec
=============================================================================
