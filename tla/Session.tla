------------------------------ MODULE Session ------------------------------
(***************************************************************************)
(* The engine process across crashes, and the WebSocket feed it keeps for  *)
(* its universe and its open positions.                                    *)
(*                                                                         *)
(* start() first creates the scan, poll and feed tasks and only then reads *)
(* the OPEN rows back.  Four kinds of coroutine subscribe or stop the      *)
(* socket; only subscribe() takes the adapter's lock.  The market is       *)
(* always open, as in the shipped configuration.                           *)
(***************************************************************************)
EXTENDS Naturals, FiniteSets

CONSTANTS Positions,   \* ids; a position's contract carries its id as its key
          Bands,       \* the ATM bands a universe may have, one key each
          Ensurers,    \* coroutines of _ensure_holdings_on_websocket
          Refreshers,  \* the feed loop, and endpoints that refresh the universe
          None,
          MaxCrashes, MaxDrops, MaxRefreshes   \* bounds

ASSUME SessionAssumption ==
  /\ IsFiniteSet(Positions)
  /\ Bands # {} /\ Bands \cap Positions = {}
  /\ Ensurers \cap Refreshers = {}
  /\ MaxCrashes \in Nat /\ MaxDrops \in Nat /\ MaxRefreshes \in Nat
  /\ None \notin Positions \cup Bands \cup Ensurers \cup Refreshers

VARIABLES
  status,      \* positions.status
  credited,    \* history: how often a close of the position was credited
  boot,        \* how far start() has come
  fetched,     \* the OPEN rows rehydrate_open_positions has read
  open,        \* PositionManager._open
  task,        \* the entry or close of a position that is under way
  overlapped,  \* history: a trade moved on between the tasks' start and rebuild
  missed,      \* history: OPEN rows a failed rehydration left out of this process
  band,        \* Application._universe
  wsStarted, lastKeys, retryLater,   \* _ws_started, _last_ws_keys, _ws_retry_after
  socket,      \* DeltaBrokerAdapter._market_socket
  orphan,      \* keys of sockets that run without being referenced
  lock,        \* holder of _start_lock
  sub,         \* the local state of each coroutine that subscribes
  crashes, drops, refreshes   \* counters for the bounds

book   == <<status, credited, boot, fetched, open, task, overlapped, missed>>
flags  == <<wsStarted, lastKeys, retryLater>>
feed   == <<band, wsStarted, lastKeys, retryLater, socket, orphan, lock, sub>>
counters == <<crashes, drops, refreshes>>
vars == <<status, credited, boot, fetched, open, task, overlapped, missed, band,
          wsStarted, lastKeys, retryLater, socket, orphan, lock, sub, crashes, drops, refreshes>>

Subscribers == Ensurers \cup Refreshers
Keys == Positions \cup Bands

Idle == [pc |-> "idle", keys |-> {}, hadSocket |-> FALSE]

\* streams: what the server sends on this socket; there is no unsubscribe.
NoSocket == [state |-> "none", symbols |-> {}, streams |-> {}]

Init ==
  /\ status = [p \in Positions |-> "none"]
  /\ credited = [p \in Positions |-> 0]
  /\ boot = "down" /\ fetched = {} /\ open = {}
  /\ task = [p \in Positions |-> "none"]
  /\ overlapped = FALSE /\ missed = {}
  /\ band \in Bands
  /\ wsStarted = FALSE /\ lastKeys = {} /\ retryLater = FALSE
  /\ socket = NoSocket /\ orphan = {} /\ lock = None
  /\ sub = [s \in Subscribers |-> Idle]
  /\ crashes = 0 /\ drops = 0 /\ refreshes = 0

Running == boot # "down"

-----------------------------------------------------------------------------
(***************************************************************************)
(* Start, crash and rehydration.                                           *)
(***************************************************************************)
\* Mutant of StartTasks: nothing reads the rows back.
StartWithoutRows ==
  /\ boot = "down"
  /\ boot' = "ready"
  /\ band' \in Bands
  /\ UNCHANGED <<status, credited, fetched, open, task, overlapped, missed, flags,
                 socket, orphan, lock, sub, counters>>

\* start() up to the end of _setup_market_data: the tasks run.
StartTasks ==
  /\ boot = "down"
  /\ boot' = "tasks"
  /\ band' \in Bands
  /\ UNCHANGED <<status, credited, fetched, open, task, overlapped, missed, flags,
                 socket, orphan, lock, sub, counters>>

OpenRows == {p \in Positions : status[p] = "OPEN"}

\* Mutant of FetchOpenRows: the rows of every position.
FetchAllRows ==
  /\ boot = "tasks"
  /\ boot' = "fetched"
  /\ fetched' = {p \in Positions : status[p] # "none"}
  /\ UNCHANGED <<status, credited, open, task, overlapped, missed, feed, counters>>

\* SELECT ... WHERE status = 'OPEN'.
FetchOpenRows ==
  /\ boot = "tasks"
  /\ boot' = "fetched"
  /\ fetched' = OpenRows
  /\ UNCHANGED <<status, credited, open, task, overlapped, missed, feed, counters>>

\* Mutant of RebuildBook: the book is cleared and nothing restored.
RebuildNothing ==
  /\ boot = "fetched"
  /\ boot' = "ready"
  /\ open' = {}
  /\ fetched' = {}
  /\ UNCHANGED <<status, credited, task, overlapped, missed, feed, counters>>

\* `self._open.clear()` and one OpenPosition per row: what was registered since
\* the tasks started is dropped, what was closed comes back.
RebuildBook ==
  /\ boot = "fetched"
  /\ boot' = "ready"
  /\ open' = fetched
  /\ fetched' = {}
  /\ UNCHANGED <<status, credited, task, overlapped, missed, feed, counters>>

\* start() logs an exception of the rehydration and goes on: the rows could not
\* be read, so the book stays as it is ...
FetchFails ==
  /\ boot = "tasks"
  /\ missed' = OpenRows \ open
  /\ UNCHANGED open

\* ... or the loop that rebuilds the book raised at one of them.
RebuildFails ==
  /\ boot = "fetched"
  /\ open' \in SUBSET fetched
  /\ missed' = fetched \ open'

RehydrateFails ==
  /\ FetchFails \/ RebuildFails
  /\ drops < MaxDrops /\ drops' = drops + 1
  /\ boot' = "ready" /\ fetched' = {}
  /\ UNCHANGED <<status, credited, task, overlapped, feed, crashes, refreshes>>

\* The process dies between any two awaits; the database keeps what it has.
Crash ==
  /\ Running /\ crashes < MaxCrashes
  /\ crashes' = crashes + 1
  /\ boot' = "down" /\ fetched' = {} /\ open' = {} /\ missed' = {}
  /\ task' = [p \in Positions |-> "none"]
  /\ wsStarted' = FALSE /\ lastKeys' = {} /\ retryLater' = FALSE
  /\ socket' = NoSocket /\ orphan' = {} /\ lock' = None
  /\ sub' = [s \in Subscribers |-> Idle]
  /\ UNCHANGED <<status, credited, overlapped, band, drops, refreshes>>

-----------------------------------------------------------------------------
(***************************************************************************)
(* Entries and closes, down to what a crash can separate.  (TradingCore    *)
(* has the rest.)                                                          *)
(***************************************************************************)
Trade(p, from, to) ==
  /\ Running /\ task[p] = from
  /\ task' = [task EXCEPT ![p] = to]
  /\ overlapped' = (overlapped \/ boot # "ready")
  /\ UNCHANGED <<boot, fetched, missed, feed, counters>>

WritePositionOpened(p) ==
  /\ status[p] = "none"
  /\ status' = [status EXCEPT ![p] = "OPEN"]
  /\ Trade(p, "none", "written")
  /\ UNCHANGED <<credited, open>>

RegisterOpen(p) ==
  /\ open' = open \cup {p}
  /\ Trade(p, "written", "none")
  /\ UNCHANGED <<status, credited>>

PopPosition(p) ==
  /\ p \in open
  /\ open' = open \ {p}
  /\ Trade(p, "none", "popped")
  /\ UNCHANGED <<status, credited>>

WritePositionClosed(p) ==
  /\ status' = [status EXCEPT ![p] = "CLOSED"]
  /\ Trade(p, "popped", "closed")
  /\ UNCHANGED <<credited, open>>

ReleaseCapital(p) ==
  /\ credited' = [credited EXCEPT ![p] = @ + 1]
  /\ Trade(p, "closed", "none")
  /\ UNCHANGED <<status, open>>

TradeStep(p) ==
  \/ RegisterOpen(p) \/ WritePositionClosed(p) \/ ReleaseCapital(p)

-----------------------------------------------------------------------------
(***************************************************************************)
(* The feed: _start_subscription, _stop_subscription, _refresh_universe,   *)
(* _ensure_holdings_on_websocket, and the adapter's subscribe.             *)
(***************************************************************************)
At(s, pc) == sub[s].pc = pc

Become(s, state) == sub' = [sub EXCEPT ![s] = state]

\* Mutant of SubscriptionKeys: the holdings are left out.
UniverseKeysOnly == {band}

\* _ws_subscription_keys, as a set; the code also tells two orders apart.
SubscriptionKeys == {band} \cup open

\* The poll loop every two seconds, and the task of each new position.
EnsureHoldings(s) ==
  /\ Running /\ At(s, "idle")
  /\ wsStarted /\ open # {} /\ SubscriptionKeys # lastKeys
  /\ Become(s, [pc |-> "waiting", keys |-> SubscriptionKeys, hadSocket |-> FALSE])
  /\ UNCHANGED <<book, band, flags, socket, orphan, lock, counters>>

\* _start_subscription; after a failure it returns at once for a minute.
Subscribe(s) ==
  Become(s, IF retryLater THEN Idle
            ELSE [pc |-> "waiting", keys |-> SubscriptionKeys, hadSocket |-> FALSE])

StartSubscription(s) ==
  /\ Running /\ At(s, "idle") /\ ~wsStarted /\ ~retryLater
  /\ Subscribe(s)
  /\ UNCHANGED <<book, band, flags, socket, orphan, lock, counters>>

\* stop_websocket, outside the lock: the socket's thread is told to end.
StopSocket == socket' = [socket EXCEPT !.state = IF @ = "none" THEN @ ELSE "closing",
                                       !.streams = {}]

\* The feed loop finds the socket down and stale.
RestartStale(s) ==
  /\ Running /\ At(s, "idle") /\ wsStarted /\ socket.state # "open"
  /\ StopSocket
  /\ Become(s, [Idle EXCEPT !.pc = "stopping", !.hadSocket = socket.state # "none"])
  /\ UNCHANGED <<book, band, flags, orphan, lock, counters>>

\* Mutant of RefreshUniverse: there is no universe while it is rebuilt.
RefreshDropsUniverse(s, b) ==
  /\ Running /\ At(s, "idle") /\ refreshes < MaxRefreshes
  /\ refreshes' = refreshes + 1
  /\ band' = None
  /\ Become(s, [Idle EXCEPT !.pc = "refreshing"])
  /\ UNCHANGED <<book, flags, socket, orphan, lock, crashes, drops>>

\* A roll of the expiry, the reset or an operator replaces the universe first,
\* then stops the socket if it was started, then starts it.
RefreshUniverse(s, b) ==
  /\ Running /\ At(s, "idle") /\ refreshes < MaxRefreshes
  /\ refreshes' = refreshes + 1
  /\ band' = b
  /\ Become(s, [Idle EXCEPT !.pc = "refreshing"])
  /\ UNCHANGED <<book, flags, socket, orphan, lock, crashes, drops>>

ResubscribeAll(s) ==
  /\ At(s, "refreshing")
  /\ IF wsStarted
     THEN /\ StopSocket
          /\ Become(s, [Idle EXCEPT !.pc = "stopping", !.hadSocket = socket.state # "none"])
     ELSE Subscribe(s) /\ UNCHANGED socket
  /\ UNCHANGED <<book, band, flags, orphan, lock, counters>>

\* The stop returns: whatever socket is referenced now is forgotten, be it a
\* new one that runs.  `hadSocket` tells whether there was one to stop.
FinishStop(s) ==
  /\ At(s, "stopping")
  /\ IF sub[s].hadSocket
     THEN /\ socket' = NoSocket
          /\ orphan' = orphan \cup (IF socket.state \in {"connecting", "open"}
                                    THEN socket.symbols ELSE {})
     ELSE UNCHANGED <<socket, orphan>>
  /\ wsStarted' = FALSE /\ lastKeys' = {}
  /\ Subscribe(s)
  /\ UNCHANGED <<book, band, retryLater, lock, counters>>

\* DeltaBrokerAdapter.subscribe under _start_lock: an open socket gets the new
\* list; otherwise a new socket is made, which sends its list when it opens.
SubscribeLocked(s) ==
  /\ At(s, "waiting") /\ lock = None
  /\ lock' = s
  /\ socket' = IF socket.state = "open"
               THEN [socket EXCEPT !.symbols = sub[s].keys, !.streams = @ \cup sub[s].keys]
               ELSE [state |-> "connecting", symbols |-> sub[s].keys, streams |-> {}]
  /\ sub' = [sub EXCEPT ![s].pc = "subscribing"]
  /\ UNCHANGED <<book, band, flags, orphan, counters>>

\* Mutant of FinishSubscribe: remembers the keys of now, not those it sent.
FinishSubscribeLate(s) ==
  /\ At(s, "subscribing")
  /\ lock' = None
  /\ lastKeys' = SubscriptionKeys
  /\ IF s \in Refreshers
     THEN wsStarted' = TRUE /\ retryLater' = (socket.state # "open")
     ELSE UNCHANGED <<wsStarted, retryLater>>
  /\ Become(s, Idle)
  /\ UNCHANGED <<book, band, socket, orphan, counters>>

\* The socket is open, or 15 seconds have passed: the lock is left and the
\* caller's flags are set in one segment.
FinishSubscribe(s) ==
  /\ At(s, "subscribing")
  /\ lock' = None
  /\ lastKeys' = sub[s].keys
  /\ IF s \in Refreshers
     THEN wsStarted' = TRUE /\ retryLater' = (socket.state # "open")
     ELSE UNCHANGED <<wsStarted, retryLater>>
  /\ Become(s, Idle)
  /\ UNCHANGED <<book, band, socket, orphan, counters>>

\* The old socket is gone and the new one cannot be made; _ensure_holdings only
\* logs that.
SubscribeRaises(s) ==
  /\ At(s, "waiting") /\ lock = None /\ socket.state # "open"
  /\ drops < MaxDrops /\ drops' = drops + 1
  /\ socket' = NoSocket
  /\ IF s \in Refreshers
     THEN wsStarted' = FALSE /\ retryLater' = TRUE
     ELSE UNCHANGED <<wsStarted, retryLater>>
  /\ Become(s, Idle)
  /\ UNCHANGED <<book, band, lastKeys, orphan, lock, crashes, refreshes>>

\* The socket's thread: connect and send the list, or lose the connection and
\* try again after two seconds.
SocketOpens ==
  /\ socket.state = "connecting"
  /\ socket' = [socket EXCEPT !.state = "open", !.streams = socket.symbols]
  /\ UNCHANGED <<book, band, flags, orphan, lock, sub, counters>>

SocketDrops ==
  /\ socket.state = "open" /\ drops < MaxDrops
  /\ drops' = drops + 1
  /\ socket' = [socket EXCEPT !.state = "connecting", !.streams = {}]
  /\ UNCHANGED <<book, band, flags, orphan, lock, sub, crashes, refreshes>>

RetryTimePasses ==
  /\ retryLater
  /\ retryLater' = FALSE
  /\ UNCHANGED <<book, band, wsStarted, lastKeys, socket, orphan, lock, sub, counters>>

FeedStep(s) ==
  \/ s \in Refreshers /\ (\/ StartSubscription(s) \/ RestartStale(s)
                          \/ ResubscribeAll(s) \/ FinishStop(s))
  \/ s \in Ensurers /\ EnsureHoldings(s)
  \/ SubscribeLocked(s)
  \/ FinishSubscribe(s)

StartStep == StartTasks \/ FetchOpenRows \/ RebuildBook

Next ==
  \/ StartStep \/ RehydrateFails \/ Crash
  \/ \E p \in Positions :
       WritePositionOpened(p) \/ PopPosition(p) \/ TradeStep(p)
  \/ \E s \in Subscribers : FeedStep(s) \/ SubscribeRaises(s)
  \/ \E s \in Refreshers, b \in Bands : RefreshUniverse(s, b)
  \/ SocketOpens \/ SocketDrops \/ RetryTimePasses

Spec == Init /\ [][Next]_vars

\* The supervisor restarts the process, asyncio resumes every coroutine, the
\* poll and feed loops come round, the socket's thread keeps connecting and the
\* clock runs.  Nothing makes the engine trade, crash or refresh its universe.
\* Strong fairness where a step may be disabled meanwhile and is due all the
\* same: a lock's waiters are served in turn, and of the connections that are
\* tried again and again one succeeds in time.
FairSpec ==
  /\ Spec
  /\ WF_vars(StartStep)
  /\ \A p \in Positions : WF_vars(TradeStep(p))
  /\ \A s \in Subscribers : SF_vars(FeedStep(s))
  /\ SF_vars(SocketOpens) /\ WF_vars(RetryTimePasses)

-----------------------------------------------------------------------------
SubState == [pc : {"idle", "refreshing", "stopping", "waiting", "subscribing"},
             keys : SUBSET Keys, hadSocket : BOOLEAN]

SessionTypeOK ==
  /\ status \in [Positions -> {"none", "OPEN", "CLOSED"}]
  /\ credited \in [Positions -> Nat]
  /\ boot \in {"down", "tasks", "fetched", "ready"}
  /\ fetched \subseteq Positions /\ open \subseteq Positions
  /\ task \in [Positions -> {"none", "written", "popped", "closed"}]
  /\ overlapped \in BOOLEAN /\ missed \subseteq Positions
  /\ band \in Bands
  /\ wsStarted \in BOOLEAN /\ lastKeys \subseteq Keys /\ retryLater \in BOOLEAN
  /\ socket \in [state : {"none", "connecting", "open", "closing"},
                 symbols : SUBSET Keys, streams : SUBSET Keys]
  /\ orphan \subseteq Keys /\ lock \in Subscribers \cup {None}
  /\ sub \in [Subscribers -> SubState]
  /\ crashes \in Nat /\ drops \in Nat /\ refreshes \in Nat

Resting == \A p \in Positions : task[p] = "none"

\* However often the process dies between the writes of a close, a position is
\* credited at most once: its row is CLOSED before release_capital runs, and
\* only OPEN rows are restored (unless a trade overlapped the restoring).
CreditedOnceAcrossCrashes ==
  ~overlapped => \A p \in Positions : credited[p] <= 1

\* "Restore OPEN positions after restart so Used Margin matches holdings": once
\* the engine is up, an OPEN row left by an entry or close that died with the
\* process is in the book again, and nothing else is.  A rehydration that raised
\* leaves the rows it missed out until the next restart, and no others.
BookRestored ==
  boot = "ready" /\ Resting /\ ~overlapped => open = OpenRows \ missed

\* When no coroutine is at it, the key list the engine remembers is the one its
\* open socket has, whoever subscribed, stopped or refreshed last.
SubscriptionTracked ==
  wsStarted /\ socket.state = "open" /\ (\A s \in Subscribers : At(s, "idle"))
    => socket.symbols = lastKeys

\* "Always keep holdings subscribed": an open position gets its ticks or leaves
\* the book, through rolls of the universe, lost sockets and restarts.
HoldingsStreamed ==
  \A p \in Positions : p \in open ~> (p \in socket.streams \cup orphan \/ p \notin open)

\* A row left OPEN by a crash is in the book again or was closed, unless this
\* process failed to read it: then it waits for the next one.
OpenRowsComeBack ==
  \A p \in Positions :
    status[p] = "OPEN" ~> \/ p \in open \/ status[p] = "CLOSED"
                          \/ p \in missed \/ overlapped
=============================================================================
