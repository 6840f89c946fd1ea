---------------------------- MODULE MCTradeLife ----------------------------
(* The inputs of TradeLife: for each of them the classes its stage tells
   apart, one representative of each. *)
EXTENDS TradeLife

MCEnabledStrategies ==
  <<"vwap_trend", "momentum_continuation", "vwap_reclaim", "vwap_pullback",
    "mean_reversion", "opening_range_breakout">>

MCM1Windows ==
  {<<first, middle, last>> : first \in {-70, -10, 10, 70},
                            middle \in {-45, -10, 10, 45}, last \in {-45, -10, 10, 45}}
MCM3Windows ==
  {<<first, middle, last>> : first \in {-10, 10}, middle \in {-10, 0, 10},
                            last \in {-45, -10, 0, 10, 45}}

Bar(high, low) == [high |-> high, low |-> low]
MCM5Windows ==
  {<<Bar(10, 0), Bar(30, 20), Bar(30, 20), Bar(60, 50)>>,   \* rising
   <<Bar(60, 50), Bar(30, 20), Bar(30, 20), Bar(10, 0)>>,   \* falling
   <<Bar(30, 0), Bar(30, 20), Bar(30, 20), Bar(30, 0)>>,    \* flat and tight
   <<Bar(60, 50), Bar(30, 0), Bar(30, 20), Bar(30, 20)>>}   \* inside

MCSpots == {-33, -15, 0, 15, 60}

MCSettings ==
  {setting \in [vol : {"high", "low", "mid", "unknown"}, phase : {"open", "mid", "late"},
                expiry : BOOLEAN] : setting.expiry => setting.phase = "mid"}

(* The Greeks of a contract come with its IV. *)
Leg(under, side, strike, delta, iv, quoted) ==
  LET greek(g) == IF iv = NoValue THEN NoValue ELSE g
  IN  [under |-> under, side |-> side, strike |-> strike, quoted |-> quoted,
       spread |-> 2, delta |-> delta, gamma |-> greek(12), iv |-> iv,
       theta |-> greek(3), volume |-> 4]

(* The strikes around the spot of both sides; a call chain that is not quoted
   at the money; the chain of the other underlying only. *)
MCChains ==
  {[spot |-> 1010, step |-> 100,
    legs |-> <<Leg("BTC", 1, 1000, 52, 50, TRUE), Leg("BTC", 1, 1100, 38, 48, TRUE),
               Leg("BTC", -1, 1000, 48, 18, TRUE), Leg("BTC", -1, 900, 36, 49, TRUE)>>],
   [spot |-> 1010, step |-> 100,
    legs |-> <<Leg("BTC", 1, 1000, 52, 50, FALSE), Leg("BTC", 1, 1100, 38, 85, TRUE)>>],
   [spot |-> 1010, step |-> 100,
    legs |-> <<Leg("ETH", 1, 30, NoValue, NoValue, TRUE),
               Leg("ETH", -1, 30, NoValue, NoValue, TRUE)>>]}

MCMinutesLeft == {1440, 45}

Steady(iv) == [i \in 1..10 |-> iv]
MCIvHistories == {Steady(40), <<52>>}

MCMarkets ==
  {[option_vwap |-> "above", volume |-> "ok", oi |-> "confirms", ema |-> "aligned",
    theta |-> "morning"],
   [option_vwap |-> "below", volume |-> "ok", oi |-> "floor", ema |-> "misaligned",
    theta |-> "late"]}

(* Nothing learned; two strategies of two families demoted. *)
MCLearned ==
  {[n \in DOMAIN Family |-> IF n \in demoted THEN [mult |-> 80, weak |-> TRUE]
                            ELSE [mult |-> 100, weak |-> FALSE]] :
     demoted \in {{}, {"vwap_trend", "mean_reversion"}}}

Level1(price, size) == <<[price |-> price, size |-> size]>>
Book(asks, bid, bidSize) ==
  [fetched |-> TRUE, asks |-> asks, bid |-> bid, bidSize |-> bidSize,
   spread |-> 2, lastMinute |-> FALSE]
MCBooks ==
  {Book(Level1(20000, 60) \o Level1(20100, 40), 19900, 60),
   Book(Level1(20000, 200), 19990, 200),
   Book(Level1(20000, 12) \o Level1(21000, 8) \o Level1(23000, 10), 19900, 12),
   Book(Level1(20000, 5), 19900, 5),
   Book(Level1(30000, 200), 29000, 50),
   Book(Level1(20000, 60), 17000, 60),
   Book(Level1(20000, 55), 0, 0),
   Book(<<>>, 19900, 50),
   [Book(<<>>, 0, 0) EXCEPT !.fetched = FALSE],
   [Book(Level1(20000, 200), 19990, 200) EXCEPT !.lastMinute = TRUE]}

Holding(under, side, premium) == <<[under |-> under, side |-> side, premium |-> premium]>>
MCAccounts ==
  [equity : {2500000, 4000000}, premiumPct : {40, 85}, exposurePct : {50, 85},
   open : {<<>>, Holding("BTC", 1, 500000), Holding("ETH", 1, 500000),
           Holding("BTC", -1, 300000)}]
  \cup {[equity |-> 1400000, premiumPct |-> 40, exposurePct |-> 50,   \* two lots too many
         open |-> Holding("ETH", -1, 210000)]}

MCWinPcts == {30, 52}

(* Any quote with the spot known, the same against the structure; before the
   spot is known; the reversal of everything.  The thesis, which alone asks for
   the structure, and the stop and the giveback, which ask for the volatility,
   do not read each other's inputs. *)
MCQuotes ==
  [ltp : {0, 80, 90, 103, 108, 125}, index : {100000}, spot : {-40, -10, 10},
   close : {-70, 10}, highVol : BOOLEAN, atrScale : {100, 140}, against : {FALSE},
   broken : {FALSE}, force : {FALSE}]
  \cup [ltp : {0, 80, 90, 103, 108, 125}, index : {100000}, spot : {-40, -10, 10},
        close : {-70, 10}, highVol : {FALSE}, atrScale : {100}, against : {TRUE},
        broken : {FALSE}, force : {FALSE}]
  \cup [ltp : {0, 80, 90, 103, 108, 125}, index : {0}, spot : {0}, close : {-70, 10},
        highVol : BOOLEAN, atrScale : {140}, against : {FALSE}, broken : {FALSE},
        force : {FALSE}]
  \cup [ltp : {100}, index : {100000}, spot : {10, -10}, close : {10}, highVol : {FALSE},
        atrScale : {100}, against : {TRUE}, broken : {TRUE}, force : BOOLEAN]
=============================================================================
