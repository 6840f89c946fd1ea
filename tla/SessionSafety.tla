---------------------------- MODULE SessionSafety ----------------------------
(***************************************************************************)
(* Proofs about Session for any number of positions, coroutines, crashes,  *)
(* lost connections and refreshes.                                         *)
(***************************************************************************)
EXTENDS Session, TLAPS

BookTypeOK ==
  /\ status \in [Positions -> {"none", "OPEN", "CLOSED"}]
  /\ credited \in [Positions -> Nat]
  /\ boot \in {"down", "tasks", "fetched", "ready"}
  /\ fetched \subseteq Positions /\ open \subseteq Positions
  /\ task \in [Positions -> {"none", "written", "popped", "closed"}]
  /\ overlapped \in BOOLEAN /\ missed \subseteq Positions

Socket == [state : {"none", "connecting", "open", "closing"},
           symbols : SUBSET Keys, streams : SUBSET Keys]

FeedTypeOK ==
  /\ band \in Bands
  /\ wsStarted \in BOOLEAN /\ lastKeys \subseteq Keys /\ retryLater \in BOOLEAN
  /\ socket \in Socket
  /\ orphan \subseteq Keys /\ lock \in Subscribers \cup {None}
  /\ sub \in [Subscribers -> SubState]

CountersOK == crashes \in Nat /\ drops \in Nat /\ refreshes \in Nat

-----------------------------------------------------------------------------
(***************************************************************************)
(* The inductive invariants.                                               *)
(***************************************************************************)
\* Where position p stands: how far its entry or close has come, what its row
\* says, whether the book has it, and whether its close was credited.
PositionOK(p) ==
  \/ status[p] = "none" /\ task[p] = "none" /\ p \notin open /\ credited[p] = 0
  \/ status[p] = "OPEN" /\ task[p] \in {"written", "popped"} /\ p \notin open
     /\ credited[p] = 0
  \/ status[p] = "OPEN" /\ task[p] = "none" /\ credited[p] = 0
  \/ status[p] = "CLOSED" /\ task[p] = "closed" /\ p \notin open /\ credited[p] = 0
  \/ status[p] = "CLOSED" /\ task[p] = "none" /\ p \notin open /\ credited[p] <= 1

\* Until the book is rebuilt it is empty and nobody trades; the rows that were
\* read are still the OPEN ones.  Afterwards the rows it missed stay as they are:
\* nothing that trades on the book finds them.
RestartOK ==
  /\ boot # "ready" => open = {} /\ missed = {} /\ Resting
  /\ boot = "fetched" => fetched = OpenRows
  /\ boot = "ready" => \A p \in Positions :
       status[p] = "OPEN" /\ task[p] = "none" => p \in open \cup missed
  /\ \A p \in missed : status[p] = "OPEN" /\ task[p] = "none" /\ p \notin open

BookInv == ~overlapped => RestartOK /\ \A p \in Positions : PositionOK(p)

\* Whoever subscribes holds the adapter's lock.
LockInv == \A s \in Subscribers : At(s, "subscribing") <=> lock = s

\* A socket that is up, or coming up, has the keys of the subscription under way,
\* or else those the engine remembers.
SocketInv ==
  socket.state \in {"connecting", "open"} =>
    /\ lock = None /\ wsStarted => socket.symbols = lastKeys
    /\ lock # None => socket.symbols = sub[lock].keys

SessionInv ==
  BookTypeOK /\ FeedTypeOK /\ CountersOK /\ BookInv /\ LockInv /\ SocketInv

FeedInv == FeedTypeOK /\ LockInv /\ SocketInv

LEMMA BookStays ==
  ASSUME BookTypeOK, BookInv, UNCHANGED book PROVE BookTypeOK' /\ BookInv'
BY DEF BookTypeOK, BookInv, book, RestartOK, PositionOK, Resting, OpenRows

LEMMA FeedStays ==
  ASSUME FeedInv, UNCHANGED feed PROVE FeedInv'
BY DEF FeedInv, FeedTypeOK, LockInv, SocketInv, feed, At

-----------------------------------------------------------------------------
(***************************************************************************)
(* The book and its rows.                                                  *)
(***************************************************************************)
LEMMA TradeMoves ==
  ASSUME BookTypeOK, NEW p \in Positions, NEW from,
         NEW to \in {"none", "written", "popped", "closed"}, Trade(p, from, to)
  PROVE  /\ task' \in [Positions -> {"none", "written", "popped", "closed"}]
         /\ task[p] = from /\ task'[p] = to /\ boot # "down"
         /\ \A q \in Positions \ {p} : task'[q] = task[q]
         /\ overlapped' \in BOOLEAN
         /\ ~overlapped' => ~overlapped /\ boot = "ready"
         /\ boot' = boot /\ fetched' = fetched /\ missed' = missed
BY DEF BookTypeOK, Trade, Running

\* A trade that overlaps no restart moves one position of a restored book.
LEMMA TradeKeeps ==
  ASSUME BookTypeOK, BookInv, NEW p \in Positions, NEW from,
         NEW to \in {"none", "written", "popped", "closed"}, Trade(p, from, to),
         \A q \in Positions \ {p} :
           /\ status'[q] = status[q] /\ credited'[q] = credited[q]
           /\ q \in open' <=> q \in open,
         ~overlapped /\ boot = "ready" /\ PositionOK(p) =>
           /\ PositionOK(p)'
           /\ status'[p] = "OPEN" /\ task'[p] = "none" => p \in open',
         p \notin missed \/ overlapped
  PROVE  BookInv'
<1>1. /\ task[p] = from /\ task'[p] = to
      /\ \A q \in Positions \ {p} : task'[q] = task[q]
      /\ ~overlapped' => ~overlapped /\ boot = "ready"
      /\ boot' = boot /\ fetched' = fetched /\ missed' = missed
  BY TradeMoves
<1>2. SUFFICES ASSUME ~overlapped' PROVE RestartOK' /\ \A q \in Positions : PositionOK(q)'
  BY DEF BookInv
<1>3. boot' = "ready" /\ RestartOK /\ \A q \in Positions : PositionOK(q)
  BY <1>1, <1>2 DEF BookInv
<1>4. ASSUME NEW q \in Positions
      PROVE  /\ PositionOK(q)'
             /\ status'[q] = "OPEN" /\ task'[q] = "none" => q \in open' \cup missed'
             /\ q \in missed' => status'[q] = "OPEN" /\ task'[q] = "none" /\ q \notin open'
  <2>1. CASE q = p
    BY <1>1, <1>2, <1>3, <2>1 DEF BookTypeOK
  <2>2. CASE q # p
    BY <1>1, <1>3, <2>2 DEF PositionOK, RestartOK
  <2> QED BY <2>1, <2>2
<1> QED BY <1>1, <1>3, <1>4 DEF RestartOK, BookTypeOK

LEMMA BookTrades ==
  ASSUME BookTypeOK, BookInv, NEW p \in Positions,
         WritePositionOpened(p) \/ PopPosition(p) \/ TradeStep(p)
  PROVE  BookTypeOK' /\ BookInv'
<1>0. p \notin missed \/ overlapped
  BY DEF BookInv, RestartOK, WritePositionOpened, PopPosition, TradeStep, RegisterOpen,
         WritePositionClosed, ReleaseCapital, Trade
<1>1. CASE WritePositionOpened(p)
  <2>1. Trade(p, "none", "written")
    BY <1>1 DEF WritePositionOpened
  <2>2. BookTypeOK'
    BY <1>1, <2>1, TradeMoves DEF WritePositionOpened, BookTypeOK
  <2>3. PositionOK(p) => PositionOK(p)' /\ task'[p] # "none"
    BY <1>1, <2>1, TradeMoves DEF WritePositionOpened, BookTypeOK, PositionOK
  <2>4. \A q \in Positions \ {p} : status'[q] = status[q]
    BY <1>1 DEF WritePositionOpened, BookTypeOK
  <2> QED BY <1>0, <1>1, <2>1, <2>2, <2>3, <2>4, TradeKeeps DEF WritePositionOpened
<1>2. CASE PopPosition(p)
  <2>1. Trade(p, "none", "popped")
    BY <1>2 DEF PopPosition
  <2>2. BookTypeOK'
    BY <1>2, <2>1, TradeMoves DEF PopPosition, BookTypeOK
  <2>3. PositionOK(p) => PositionOK(p)' /\ task'[p] # "none"
    BY <1>2, <2>1, TradeMoves DEF PopPosition, BookTypeOK, PositionOK
  <2> QED BY <1>0, <1>2, <2>1, <2>2, <2>3, TradeKeeps DEF PopPosition
<1>3. CASE RegisterOpen(p)
  <2>1. Trade(p, "written", "none")
    BY <1>3 DEF RegisterOpen
  <2>2. BookTypeOK'
    BY <1>3, <2>1, TradeMoves DEF RegisterOpen, BookTypeOK
  <2>3. PositionOK(p) => PositionOK(p)' /\ p \in open'
    BY <1>3, <2>1, TradeMoves DEF RegisterOpen, BookTypeOK, PositionOK
  <2> QED BY <1>0, <1>3, <2>1, <2>2, <2>3, TradeKeeps DEF RegisterOpen
<1>4. CASE WritePositionClosed(p)
  <2>1. Trade(p, "popped", "closed")
    BY <1>4 DEF WritePositionClosed
  <2>2. BookTypeOK'
    BY <1>4, <2>1, TradeMoves DEF WritePositionClosed, BookTypeOK
  <2>3. PositionOK(p) => PositionOK(p)' /\ task'[p] # "none"
    BY <1>4, <2>1, TradeMoves DEF WritePositionClosed, BookTypeOK, PositionOK
  <2>4. \A q \in Positions \ {p} : status'[q] = status[q]
    BY <1>4 DEF WritePositionClosed, BookTypeOK
  <2> QED BY <1>0, <1>4, <2>1, <2>2, <2>3, <2>4, TradeKeeps DEF WritePositionClosed
<1>5. CASE ReleaseCapital(p)
  <2>1. Trade(p, "closed", "none")
    BY <1>5 DEF ReleaseCapital
  <2>2. BookTypeOK'
    BY <1>5, <2>1, TradeMoves DEF ReleaseCapital, BookTypeOK
  <2>3. PositionOK(p) => PositionOK(p)' /\ status'[p] # "OPEN"
    BY <1>5, <2>1, TradeMoves DEF ReleaseCapital, BookTypeOK, PositionOK
  <2>4. \A q \in Positions \ {p} : credited'[q] = credited[q]
    BY <1>5 DEF ReleaseCapital, BookTypeOK
  <2> QED BY <1>0, <1>5, <2>1, <2>2, <2>3, <2>4, TradeKeeps DEF ReleaseCapital
<1> QED BY <1>1, <1>2, <1>3, <1>4, <1>5 DEF TradeStep

LEMMA BookRestarts ==
  ASSUME BookTypeOK, BookInv, StartStep \/ RehydrateFails \/ Crash
  PROVE  BookTypeOK' /\ BookInv'
<1>1. CASE StartTasks
  BY <1>1 DEF StartTasks, BookTypeOK, BookInv, RestartOK, PositionOK, Resting
<1>2. CASE FetchOpenRows
  BY <1>2 DEF FetchOpenRows, BookTypeOK, BookInv, RestartOK, PositionOK, Resting, OpenRows
<1>3. CASE RebuildBook
  BY <1>3 DEF RebuildBook, BookTypeOK, BookInv, RestartOK, PositionOK, Resting, OpenRows
<1>4. CASE RehydrateFails
  <2>1. /\ boot \in {"tasks", "fetched"} /\ boot' = "ready" /\ fetched' = {}
        /\ UNCHANGED <<status, credited, task, overlapped>>
    BY <1>4 DEF RehydrateFails, FetchFails, RebuildFails
  <2>2. open' \subseteq Positions /\ missed' \subseteq Positions
    BY <1>4 DEF RehydrateFails, FetchFails, RebuildFails, BookTypeOK, OpenRows
  <2>3. ~overlapped => open' \cup missed' = OpenRows /\ open' \cap missed' = {} /\ Resting
    <3>1. CASE FetchFails
      BY <3>1 DEF FetchFails, BookInv, RestartOK, OpenRows
    <3>2. CASE RebuildFails
      BY <3>2 DEF RebuildFails, BookInv, RestartOK, OpenRows
    <3> QED BY <1>4, <3>1, <3>2 DEF RehydrateFails
  <2>4. ASSUME ~overlapped, NEW p \in Positions PROVE PositionOK(p)'
    BY <2>1, <2>3, <2>4 DEF BookInv, PositionOK, OpenRows, Resting
  <2>5. ~overlapped => RestartOK'
    <3> SUFFICES ASSUME ~overlapped PROVE RestartOK'
      OBVIOUS
    <3>1. OpenRows' = OpenRows
      BY <2>1 DEF OpenRows
    <3>2. Resting'
      BY <2>1, <2>3 DEF Resting
    <3>3. \A p \in Positions : p \in OpenRows <=> status'[p] = "OPEN"
      BY <2>1 DEF OpenRows
    <3>4. \A p \in Positions : task'[p] = "none"
      BY <3>2 DEF Resting
    <3> QED BY <2>1, <2>2, <2>3, <3>3, <3>4 DEF RestartOK
  <2> QED BY <2>1, <2>2, <2>4, <2>5 DEF BookTypeOK, BookInv
<1>5. CASE Crash
  <2>1. BookTypeOK'
    BY <1>5 DEF Crash, BookTypeOK
  <2>2. RestartOK'
    BY <1>5 DEF Crash, RestartOK, Resting
  <2>3. ~overlapped => \A p \in Positions : PositionOK(p)'
    BY <1>5 DEF Crash, BookInv, PositionOK
  <2> QED BY <1>5, <2>1, <2>2, <2>3 DEF Crash, BookInv
<1> QED BY <1>1, <1>2, <1>3, <1>4, <1>5 DEF StartStep

-----------------------------------------------------------------------------
(***************************************************************************)
(* The feed.                                                               *)
(***************************************************************************)
LEMMA KeysType ==
  ASSUME BookTypeOK, FeedTypeOK PROVE SubscriptionKeys \subseteq Keys
BY DEF BookTypeOK, FeedTypeOK, SubscriptionKeys, Keys

LEMMA IdleType == Idle \in SubState /\ Idle.pc = "idle"
BY DEF Idle, SubState

LEMMA NoSocketType == NoSocket \in Socket /\ NoSocket.state = "none"
BY DEF NoSocket, Socket

\* A coroutine that neither takes nor leaves the lock moves on.
LEMMA FeedMoves ==
  ASSUME FeedTypeOK, LockInv, NEW s \in Subscribers, ~At(s, "subscribing"),
         NEW v \in SubState, v.pc # "subscribing", Become(s, v), lock' = lock
  PROVE  /\ sub' \in [Subscribers -> SubState] /\ LockInv'
         /\ lock # None => sub'[lock] = sub[lock]
BY DEF FeedTypeOK, LockInv, Become, At

\* Where it waits for the lock, or gives up.
LEMMA SubscribeMoves ==
  ASSUME BookTypeOK, FeedTypeOK, LockInv, NEW s \in Subscribers,
         ~At(s, "subscribing"), Subscribe(s), lock' = lock
  PROVE  /\ sub' \in [Subscribers -> SubState] /\ LockInv'
         /\ lock # None => sub'[lock] = sub[lock]
<1>1. CASE retryLater
  BY <1>1, IdleType, FeedMoves DEF Subscribe
<1>2. CASE ~retryLater
  <2> DEFINE k == SubscriptionKeys
             v == [pc |-> "waiting", keys |-> k, hadSocket |-> FALSE]
  <2>1. k \subseteq Keys
    BY KeysType
  <2>2. Become(s, v)
    BY <1>2 DEF Subscribe
  <2> HIDE DEF k
  <2>3. v \in SubState /\ v.pc # "subscribing"
    BY <2>1 DEF SubState
  <2> HIDE DEF v
  <2> QED BY <2>2, <2>3, FeedMoves
<1> QED BY <1>1, <1>2

\* A stopped socket is neither up nor coming up.
LEMMA StopType ==
  ASSUME FeedTypeOK, StopSocket
  PROVE  socket' \in Socket /\ socket'.state \in {"none", "closing"}
<1> DEFINE st == IF socket.state = "none" THEN socket.state ELSE "closing"
           no == {}
<1>1. st \in {"none", "closing"} /\ no \in SUBSET Keys /\ socket \in Socket
  BY DEF FeedTypeOK
<1>2. socket' = [socket EXCEPT !.state = st, !.streams = no]
  BY DEF StopSocket
<1> HIDE DEF st, no
<1>3. socket' \in Socket
  BY <1>1, <1>2 DEF Socket
<1>4. socket'.state = st
  BY <1>1, <1>2 DEF Socket
<1> QED BY <1>1, <1>3, <1>4

LEMMA EnsureHoldingsKeeps ==
  ASSUME BookTypeOK, FeedInv, NEW s \in Subscribers, EnsureHoldings(s) PROVE FeedInv'
<1> DEFINE k == SubscriptionKeys
           v == [pc |-> "waiting", keys |-> k, hadSocket |-> FALSE]
<1>1. k \subseteq Keys
  BY KeysType DEF FeedInv
<1>2. Become(s, v) /\ UNCHANGED <<band, flags, socket, orphan, lock>> /\ ~At(s, "subscribing")
  BY DEF EnsureHoldings, At
<1> HIDE DEF k
<1>3. v \in SubState /\ v.pc # "subscribing"
  BY <1>1 DEF SubState
<1> HIDE DEF v
<1>4. /\ sub' \in [Subscribers -> SubState] /\ LockInv'
      /\ lock # None => sub'[lock] = sub[lock]
  BY <1>2, <1>3, FeedMoves DEF FeedInv
<1> QED BY <1>2, <1>4 DEF FeedInv, FeedTypeOK, SocketInv, flags

LEMMA StartSubscriptionKeeps ==
  ASSUME BookTypeOK, FeedInv, NEW s \in Subscribers, StartSubscription(s) PROVE FeedInv'
<1>1. Subscribe(s) /\ UNCHANGED <<band, flags, socket, orphan, lock>> /\ ~At(s, "subscribing")
  BY DEF StartSubscription, At
<1>2. /\ sub' \in [Subscribers -> SubState] /\ LockInv'
      /\ lock # None => sub'[lock] = sub[lock]
  BY <1>1, SubscribeMoves DEF FeedInv
<1> QED BY <1>1, <1>2 DEF FeedInv, FeedTypeOK, SocketInv, flags

\* The first half of a stop, by the feed loop or a refresh.
LEMMA StopKeeps ==
  ASSUME BookTypeOK, FeedInv, NEW s \in Subscribers, ~At(s, "subscribing"), StopSocket,
         Become(s, [Idle EXCEPT !.pc = "stopping", !.hadSocket = socket.state # "none"]),
         UNCHANGED <<band, flags, orphan, lock>>
  PROVE  FeedInv'
<1> DEFINE h == socket.state # "none"
           v == [Idle EXCEPT !.pc = "stopping", !.hadSocket = h]
<1>1. h \in BOOLEAN /\ Become(s, v)
  OBVIOUS
<1> HIDE DEF h
<1>2. v \in SubState /\ v.pc # "subscribing"
  BY <1>1, IdleType DEF SubState
<1> HIDE DEF v
<1>3. sub' \in [Subscribers -> SubState] /\ LockInv'
  BY <1>1, <1>2, FeedMoves DEF FeedInv
<1>4. socket' \in Socket /\ socket'.state \in {"none", "closing"}
  BY StopType DEF FeedInv
<1> QED BY <1>3, <1>4 DEF FeedInv, FeedTypeOK, SocketInv, flags

LEMMA RestartStaleKeeps ==
  ASSUME BookTypeOK, FeedInv, NEW s \in Subscribers, RestartStale(s) PROVE FeedInv'
BY StopKeeps DEF RestartStale, At

LEMMA ResubscribeAllKeeps ==
  ASSUME BookTypeOK, FeedInv, NEW s \in Subscribers, ResubscribeAll(s) PROVE FeedInv'
<1>1. CASE wsStarted
  BY <1>1, StopKeeps DEF ResubscribeAll, At
<1>2. CASE ~wsStarted
  <2>1. /\ Subscribe(s) /\ UNCHANGED <<band, flags, socket, orphan, lock>>
        /\ ~At(s, "subscribing")
    BY <1>2 DEF ResubscribeAll, At
  <2>2. /\ sub' \in [Subscribers -> SubState] /\ LockInv'
        /\ lock # None => sub'[lock] = sub[lock]
    BY <2>1, SubscribeMoves DEF FeedInv
  <2> QED BY <2>1, <2>2 DEF FeedInv, FeedTypeOK, SocketInv, flags
<1> QED BY <1>1, <1>2

LEMMA RefreshUniverseKeeps ==
  ASSUME FeedInv, NEW s \in Refreshers, NEW b \in Bands, RefreshUniverse(s, b)
  PROVE  FeedInv'
<1> DEFINE v == [Idle EXCEPT !.pc = "refreshing"]
<1>1. v \in SubState /\ v.pc # "subscribing"
  BY IdleType DEF SubState
<1>2. Become(s, v) /\ band' = b /\ UNCHANGED <<flags, socket, orphan, lock>>
      /\ ~At(s, "subscribing") /\ s \in Subscribers
  BY DEF RefreshUniverse, At, Subscribers
<1> HIDE DEF v
<1>3. /\ sub' \in [Subscribers -> SubState] /\ LockInv'
      /\ lock # None => sub'[lock] = sub[lock]
  BY <1>1, <1>2, FeedMoves DEF FeedInv
<1> QED BY <1>2, <1>3 DEF FeedInv, FeedTypeOK, SocketInv, flags

LEMMA FinishStopKeeps ==
  ASSUME BookTypeOK, FeedInv, NEW s \in Subscribers, FinishStop(s) PROVE FeedInv'
<1>1. /\ Subscribe(s) /\ UNCHANGED <<band, retryLater, lock>> /\ ~At(s, "subscribing")
      /\ wsStarted' = FALSE /\ lastKeys' = {}
  BY DEF FinishStop, At
<1>2. /\ sub' \in [Subscribers -> SubState] /\ LockInv'
      /\ lock # None => sub'[lock] = sub[lock]
  BY <1>1, SubscribeMoves DEF FeedInv
<1>3. \/ socket' = socket /\ orphan' = orphan
      \/ socket' = NoSocket /\ orphan' \subseteq orphan \cup socket.symbols
  BY DEF FinishStop
<1>4. socket' \in Socket /\ orphan' \subseteq Keys
  BY <1>3, NoSocketType DEF FeedInv, FeedTypeOK, Socket
<1>5. SocketInv'
  BY <1>1, <1>2, <1>3, NoSocketType DEF FeedInv, SocketInv
<1> QED BY <1>1, <1>2, <1>4, <1>5 DEF FeedInv, FeedTypeOK

LEMMA SubscribeLockedKeeps ==
  ASSUME FeedInv, NEW s \in Subscribers, SubscribeLocked(s) PROVE FeedInv'
<1>1. /\ lock = None /\ lock' = s /\ UNCHANGED <<band, flags, orphan>>
      /\ sub' = [sub EXCEPT ![s].pc = "subscribing"]
      /\ socket' = IF socket.state = "open"
                   THEN [socket EXCEPT !.symbols = sub[s].keys,
                                       !.streams = @ \cup sub[s].keys]
                   ELSE [state |-> "connecting", symbols |-> sub[s].keys, streams |-> {}]
  BY DEF SubscribeLocked
<1>2. /\ sub' \in [Subscribers -> SubState] /\ sub'[s].keys = sub[s].keys
      /\ sub'[s].pc = "subscribing" /\ \A x \in Subscribers \ {s} : sub'[x] = sub[x]
  BY <1>1 DEF FeedInv, FeedTypeOK, SubState
<1>3. LockInv'
  BY <1>1, <1>2, SessionAssumption DEF FeedInv, LockInv, At, Subscribers
<1>4. socket' \in Socket /\ socket'.symbols = sub[s].keys
  <2> DEFINE k == sub[s].keys
             st == socket.streams \cup k
  <2>1. k \in SUBSET Keys /\ socket \in Socket
    BY DEF FeedInv, FeedTypeOK, SubState
  <2>2. st \in SUBSET Keys
    BY <2>1 DEF Socket
  <2>3. CASE socket.state = "open"
    <3>1. socket' = [socket EXCEPT !.symbols = k, !.streams = st]
      BY <1>1, <2>3
    <3> HIDE DEF k, st
    <3>2. socket' \in Socket
      BY <2>1, <2>2, <3>1 DEF Socket
    <3>3. socket'.symbols = k
      BY <2>1, <3>1 DEF Socket
    <3> QED BY <3>2, <3>3 DEF k
  <2>4. CASE socket.state # "open"
    BY <1>1, <2>1, <2>4 DEF Socket
  <2> QED BY <2>3, <2>4
<1>5. SocketInv'
  BY <1>1, <1>2, <1>4, SessionAssumption DEF SocketInv, Subscribers
<1> QED BY <1>1, <1>2, <1>3, <1>4, <1>5 DEF FeedInv, FeedTypeOK, flags

LEMMA FinishSubscribeKeeps ==
  ASSUME FeedInv, NEW s \in Subscribers, FinishSubscribe(s) PROVE FeedInv'
<1>1. /\ lock = s /\ lock' = None /\ lastKeys' = sub[s].keys
      /\ UNCHANGED <<band, socket, orphan>> /\ Become(s, Idle)
  BY DEF FinishSubscribe, FeedInv, LockInv
<1>2. wsStarted' \in BOOLEAN /\ retryLater' \in BOOLEAN
  <2>1. (socket.state # "open") \in BOOLEAN
    OBVIOUS
  <2> QED BY <2>1 DEF FinishSubscribe, FeedInv, FeedTypeOK
<1>3. /\ sub' \in [Subscribers -> SubState] /\ sub'[s].pc = "idle"
      /\ \A x \in Subscribers \ {s} : sub'[x] = sub[x]
  BY <1>1, IdleType DEF Become, FeedInv, FeedTypeOK
<1>4. LockInv'
  BY <1>1, <1>3, SessionAssumption DEF FeedInv, LockInv, At, Subscribers
<1>5. SocketInv'
  BY <1>1, SessionAssumption DEF FeedInv, SocketInv, Subscribers
<1>6. lastKeys' \subseteq Keys
  BY <1>1 DEF FeedInv, FeedTypeOK, SubState
<1> QED BY <1>1, <1>2, <1>3, <1>4, <1>5, <1>6 DEF FeedInv, FeedTypeOK

LEMMA SubscribeRaisesKeeps ==
  ASSUME FeedInv, NEW s \in Subscribers, SubscribeRaises(s) PROVE FeedInv'
<1>1. /\ socket' = NoSocket /\ Become(s, Idle) /\ ~At(s, "subscribing")
      /\ UNCHANGED <<band, lastKeys, orphan, lock>>
      /\ wsStarted' \in BOOLEAN /\ retryLater' \in BOOLEAN
  BY DEF SubscribeRaises, At, FeedInv, FeedTypeOK
<1>2. sub' \in [Subscribers -> SubState] /\ LockInv'
  BY <1>1, IdleType, FeedMoves DEF FeedInv
<1> QED BY <1>1, <1>2, NoSocketType DEF FeedInv, FeedTypeOK, SocketInv

LEMMA SocketKeeps ==
  ASSUME FeedInv, SocketOpens \/ SocketDrops PROVE FeedInv'
<1>1. PICK st \in {"connecting", "open"}, str \in SUBSET Keys :
        socket' = [socket EXCEPT !.state = st, !.streams = str]
  BY DEF SocketOpens, SocketDrops, FeedInv, FeedTypeOK, Socket
<1>2. socket' \in Socket /\ socket'.symbols = socket.symbols
  BY <1>1 DEF FeedInv, FeedTypeOK, Socket
<1>3. socket.state \in {"connecting", "open"} /\ UNCHANGED <<band, flags, orphan, lock, sub>>
  BY DEF SocketOpens, SocketDrops
<1> QED BY <1>2, <1>3 DEF FeedInv, FeedTypeOK, LockInv, SocketInv, flags, At

LEMMA FeedRestarts ==
  ASSUME FeedInv, StartTasks \/ Crash PROVE FeedInv'
<1>1. CASE StartTasks
  BY <1>1 DEF StartTasks, FeedInv, FeedTypeOK, LockInv, SocketInv, flags, At
<1>2. CASE Crash
  <2>1. /\ wsStarted' = FALSE /\ lastKeys' = {} /\ retryLater' = FALSE
        /\ socket' = NoSocket /\ orphan' = {} /\ lock' = None
        /\ sub' = [s \in Subscribers |-> Idle] /\ band' = band
    BY <1>2 DEF Crash
  <2>2. FeedTypeOK'
    BY <2>1, IdleType, NoSocketType DEF FeedInv, FeedTypeOK
  <2>3. LockInv'
    BY <2>1, IdleType, SessionAssumption DEF LockInv, At, Subscribers
  <2>4. SocketInv'
    BY <2>1, NoSocketType DEF SocketInv
  <2> QED BY <2>2, <2>3, <2>4 DEF FeedInv
<1> QED BY <1>1, <1>2

-----------------------------------------------------------------------------
(***************************************************************************)
(* Every step.                                                             *)
(***************************************************************************)
LEMMA SessionInit == Init => SessionInv
<1> SUFFICES ASSUME Init PROVE SessionInv
  OBVIOUS
<1>1. BookTypeOK /\ CountersOK
  BY DEF Init, BookTypeOK, CountersOK
<1>2. FeedTypeOK
  BY IdleType, NoSocketType DEF Init, FeedTypeOK
<1>3. BookInv
  BY DEF Init, BookInv, RestartOK, PositionOK, Resting, OpenRows
<1>4. LockInv
  BY IdleType, SessionAssumption DEF Init, LockInv, At, Subscribers
<1>5. SocketInv
  BY NoSocketType DEF Init, SocketInv
<1> QED BY <1>1, <1>2, <1>3, <1>4, <1>5 DEF SessionInv

\* A step of one of the coroutines that subscribe leaves the book alone.
LEMMA FeedStepKeeps ==
  ASSUME SessionInv, NEW s \in Subscribers, FeedStep(s) \/ SubscribeRaises(s)
  PROVE  SessionInv'
<1> USE DEF SessionInv
<1>1. FeedInv
  BY DEF FeedInv
<1>2. UNCHANGED book /\ CountersOK'
  BY DEF FeedStep, SubscribeRaises, StartSubscription, RestartStale, ResubscribeAll,
         FinishStop, EnsureHoldings, SubscribeLocked, FinishSubscribe, CountersOK, counters
<1>3. FeedInv'
  BY <1>1, EnsureHoldingsKeeps, StartSubscriptionKeeps, RestartStaleKeeps,
     ResubscribeAllKeeps, FinishStopKeeps, SubscribeLockedKeeps, FinishSubscribeKeeps,
     SubscribeRaisesKeeps DEF FeedStep
<1> QED BY <1>2, <1>3, BookStays DEF FeedInv

LEMMA SessionNext == SessionInv /\ [Next]_vars => SessionInv'
<1> SUFFICES ASSUME SessionInv, [Next]_vars PROVE SessionInv'
  OBVIOUS
<1> USE DEF SessionInv
<1>1. FeedInv
  BY DEF FeedInv
<1>2. CASE StartStep \/ RehydrateFails \/ Crash
  <2>1. UNCHANGED feed \/ StartTasks \/ Crash
    BY <1>2 DEF StartStep, FetchOpenRows, RebuildBook, RehydrateFails
  <2>2. FeedInv'
    BY <1>1, <2>1, FeedStays, FeedRestarts
  <2>3. CountersOK'
    BY <1>2 DEF StartStep, StartTasks, FetchOpenRows, RebuildBook, RehydrateFails, Crash,
                CountersOK, counters
  <2> QED BY <1>2, <2>2, <2>3, BookRestarts DEF FeedInv
<1>3. ASSUME NEW p \in Positions,
             WritePositionOpened(p) \/ PopPosition(p) \/ TradeStep(p)
      PROVE  SessionInv'
  <2>1. UNCHANGED feed /\ CountersOK'
    BY <1>3 DEF WritePositionOpened, PopPosition, TradeStep, RegisterOpen,
                WritePositionClosed, ReleaseCapital, Trade, CountersOK, counters
  <2> QED BY <1>1, <1>3, <2>1, BookTrades, FeedStays DEF FeedInv
<1>4. ASSUME NEW s \in Subscribers, FeedStep(s) \/ SubscribeRaises(s) PROVE SessionInv'
  BY <1>4, FeedStepKeeps
<1>5. ASSUME NEW s \in Refreshers, NEW b \in Bands, RefreshUniverse(s, b) PROVE SessionInv'
  <2>1. UNCHANGED book /\ CountersOK'
    BY <1>5 DEF RefreshUniverse, CountersOK
  <2> QED BY <1>1, <1>5, <2>1, RefreshUniverseKeeps, BookStays DEF FeedInv
<1>6. CASE SocketOpens \/ SocketDrops
  <2>1. UNCHANGED book /\ CountersOK'
    BY <1>6 DEF SocketOpens, SocketDrops, CountersOK, counters
  <2> QED BY <1>1, <1>6, <2>1, SocketKeeps, BookStays DEF FeedInv
<1>7. CASE RetryTimePasses
  <2>1. UNCHANGED book /\ CountersOK'
    BY <1>7 DEF RetryTimePasses, CountersOK, counters
  <2>2. FeedInv'
    BY <1>1, <1>7 DEF RetryTimePasses, FeedInv, FeedTypeOK, LockInv, SocketInv, At
  <2> QED BY <2>1, <2>2, BookStays DEF FeedInv
<1>8. CASE UNCHANGED vars
  <2>1. UNCHANGED book /\ UNCHANGED feed /\ CountersOK'
    BY <1>8 DEF vars, book, feed, CountersOK
  <2> QED BY <1>1, <2>1, BookStays, FeedStays DEF FeedInv
<1> QED BY <1>2, <1>3, <1>4, <1>5, <1>6, <1>7, <1>8 DEF Next

\* Every reachable state of the process satisfies the inductive invariant: where each
\* position stands between its row, the book and its credit, and who holds the socket.
THEOREM SessionInvHolds == Spec => []SessionInv
BY SessionInit, SessionNext, PTL DEF Spec

\* Every variable of the process and its feed keeps its type.
THEOREM SessionTypeOKHolds == Spec => []SessionTypeOK
<1>1. SessionInv => SessionTypeOK
  BY DEF SessionInv, BookTypeOK, FeedTypeOK, CountersOK, SessionTypeOK, Socket
<1> QED BY <1>1, SessionInvHolds, PTL

\* However often the process dies between the row of a close and its release_capital, no
\* position is credited twice.
THEOREM CreditedOnceAcrossCrashesHolds == Spec => []CreditedOnceAcrossCrashes
<1>1. SessionInv => CreditedOnceAcrossCrashes
  BY DEF SessionInv, BookInv, PositionOK, CreditedOnceAcrossCrashes
<1> QED BY <1>1, SessionInvHolds, PTL

\* Once rehydrate_open_positions is through or has raised, and nobody trades, the book holds
\* the OPEN rows and nothing else; what is not in it is what the failed call missed.
THEOREM BookRestoredHolds == Spec => []BookRestored
<1>1. SessionInv => BookRestored
  BY DEF SessionInv, BookInv, BookTypeOK, RestartOK, PositionOK, Resting, BookRestored,
         OpenRows
<1> QED BY <1>1, SessionInvHolds, PTL

\* With no coroutine at the feed, an open socket has the key list the engine remembers: the
\* lock decides who subscribed last.
THEOREM SubscriptionTrackedHolds == Spec => []SubscriptionTracked
<1>1. SessionInv => SubscriptionTracked
  <2> SUFFICES ASSUME SessionInv, wsStarted, socket.state = "open",
                      \A s \in Subscribers : At(s, "idle")
               PROVE  socket.symbols = lastKeys
    BY DEF SubscriptionTracked
  <2>1. lock = None
    BY DEF SessionInv, LockInv, FeedTypeOK, At
  <2> QED BY <2>1 DEF SessionInv, SocketInv
<1> QED BY <1>1, SessionInvHolds, PTL

=============================================================================
