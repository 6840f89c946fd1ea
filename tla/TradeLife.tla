----------------------------- MODULE TradeLife -----------------------------
(***************************************************************************)
(* One trade from the market data to its close: the decisions of the scan  *)
(* (MarketFreshness, Signals, ContractChoice), of the entry (EntrySizing)  *)
(* and of the exits and the flip (ExitRules), in the order the code takes  *)
(* them, over every combination of a small set of market inputs.           *)
(*                                                                         *)
(* What a stage hands to the next one is the record work; the inputs of a  *)
(* stage are read anew, as the code reads them.  The races of entries,     *)
(* exits and controls are in TradingCore and AccountDay, not here.  Nor is *)
(* manual_exit, which closes a position whatever the rules say (DecideExit *)
(* of TradingCore).                                                        *)
(***************************************************************************)
EXTENDS MarketFreshness, Signals, ContractChoice, EntrySizing, ExitRules

CONSTANTS M1Windows,      \* the last three 1-minute closes
          M3Windows,      \* the last three 3-minute closes
          M5Windows,      \* the last four 5-minute bars
          Spots,          \* distance of the spot from the VWAP
          Settings,       \* see RegimeScores
          Chains,         \* [legs, spot, step]; legs: see ContractChoice
          MinutesLeft,    \* to the expiry of the chain
          IvHistories,    \* sequences of IVs, the last one the latest
          Markets,        \* [option_vwap, volume, oi, ema, theta] of a context
          Learned,        \* of every strategy, [mult, weak]; see Confidence
          Books, Accounts, \* see EntrySizing
          WinPcts,        \* estimated win probabilities
          Quotes,         \* see ExitRules
          LastPrice       \* of the option, in tenths of a dollar

(* What a quote, a book, an account and a statistic may be: extract_levels keeps
   no level without a price or a size. *)
ASSUME InputsAssumption ==
  /\ Markets \subseteq
       [option_vwap : DOMAIN OptionVwapPoints, volume : DOMAIN VolumePoints,
        oi : DOMAIN OiPoints, ema : DOMAIN EmaPoints, theta : DOMAIN ThetaPoints]
  /\ Learned \subseteq [DOMAIN Family -> [mult : Nat, weak : BOOLEAN]]
  /\ Books \subseteq
       [fetched : BOOLEAN, asks : Seq([price : Nat \ {0}, size : Nat \ {0}]),
        bid : Nat, bidSize : Nat, spread : Int, lastMinute : BOOLEAN]
  /\ Accounts \subseteq
       [equity : Int, premiumPct : Nat, exposurePct : Nat,
        open : Seq([under : {"BTC", "ETH"}, side : {1, -1}, premium : Nat])]
  /\ Quotes \subseteq
       [ltp : Nat, index : Nat, spot : Int, close : Int, highVol : BOOLEAN,
        atrScale : Nat, against : BOOLEAN, broken : BOOLEAN, force : BOOLEAN]
  /\ LastPrice \in Nat

Sides == {1, -1}
Underlyings == {"BTC", "ETH"}
Instants == <<0, 120, 180, 300, 1320, 1380>>   \* seconds a position is held

VARIABLES stage, work
vars == <<feed, stage, work>>

Nothing == [none |-> TRUE]

(* While a trade is decided on, the freshness of the feed is not looked at. *)
Unwatched == CHOOSE f \in Backfilled : f.m1 = NoData

BackToFeed == stage' = "feed" /\ work' = Nothing /\ feed' \in Backfilled
Continue(next, result) == stage' = next /\ work' = result /\ UNCHANGED feed

Init == stage = "feed" /\ work = Nothing /\ feed \in Backfilled

-----------------------------------------------------------------------------
(* The scan. *)

FeedMoves == stage = "feed" /\ FeedStep /\ UNCHANGED <<stage, work>>

Admit ==
  /\ stage = "feed"
  /\ ScanMayGoOn
  /\ stage' = "bars"
  /\ work' = Nothing
  /\ feed' = Unwatched

(* FeatureEngine.compute *)
ReadBars ==
  /\ stage = "bars"
  /\ \E m1 \in M1Windows, m3 \in M3Windows, spot \in Spots, broken \in {-1, 0, 1} :
       LET setups == Setups(m1, m3, spot, broken)
       IN  Continue("regime",
             [bias |-> Bias(m1), spot |-> spot, cross |-> Abs(Last(m1)),
              setups |-> [n \in Enabled |-> setups[n]]])

Signalled(structure) ==
  {n \in Enabled : Scan(n, work.setups, work.bias, structure) # 0}

Tight(m5) == FiveMinuteRange(m5) <= 35

(* RegimeClassifier.classify, and the scanners of the router *)
Classify ==
  /\ stage = "regime"
  /\ \E m5 \in M5Windows, setting \in Settings :
       LET structure == Structure(m5)
           scores    == RegimeScores(work.bias, structure, Tight(m5), work.spot, setting)
           names     == Signalled(structure)
       IN  IF RegimeAllows(scores, setting) /\ names # {}
           THEN Continue("score",
                  [bias |-> work.bias, spot |-> work.spot, cross |-> work.cross,
                   structure |-> structure, primary |-> Primary(scores),
                   sides |-> [n \in names |-> work.setups[n]]])
           ELSE BackToFeed

(* resolve_side_contract: what the scores need of the contract of a side *)
ContractOf(chain, side, minutes) ==
  LET pick == PickContract(chain.legs, side, chain.spot, chain.step, minutes)
  IN  IF pick = 0 THEN [found |-> FALSE]
      ELSE LET leg == chain.legs[pick]
           IN  [found |-> TRUE, under |-> leg.under, delta |-> DeltaClass(leg.delta),
                gamma |-> GammaClass(leg.gamma), iv |-> IvClass(leg.iv),
                spread |-> SpreadClass(leg.spread)]

(* _refresh_chain_and_option_context: the snapshot of the ATM contract of the
   side the spot is on, or of the other side when that has none; nothing is
   known of a contract without a quote. *)
VolSnapshot(chain, side, minutes, history) ==
  LET atm(s) == AtmContract(chain.legs, s, AtmStrike(chain.spot, chain.step))
      leg    == chain.legs[IF atm(side) # 0 THEN atm(side) ELSE atm(-side)]
      rank   == IvRank(history, leg.iv)
  IN  IF ~leg.quoted
      THEN [iv_regime |-> "unknown", iv_rank |-> "normal",
            atm_iv |-> "unknown", minutes |-> NoValue]
      ELSE [iv_regime |-> IvRegime(history, leg.iv),
            iv_rank   |-> IF rank # NoValue /\ rank >= 80 THEN "expensive" ELSE "normal",
            atm_iv    |-> IvClass(leg.iv), minutes |-> minutes]

OptionContexts ==
  {[contract |-> [s \in Sides |-> ContractOf(chain, s, minutes)],
    vol      |-> [s \in Sides |-> VolSnapshot(chain, s, minutes, history)]] :
     chain \in Chains, minutes \in MinutesLeft, history \in IvHistories}

VolAt(option, spot) == option.vol[IF spot < 0 THEN -1 ELSE 1]

(* The context of a side, when its contract is found; only the router lets the
   IV of the ATM contract stand in for a contract without one. *)
ScoreContext(option, market, side, spot) ==
  LET contract == option.contract[side]
      vol      == VolAt(option, spot)
  IN  [delta |-> contract.delta, gamma |-> contract.gamma, iv |-> contract.iv,
       spread |-> contract.spread, iv_regime |-> vol.iv_regime, iv_rank |-> vol.iv_rank,
       atm_iv |-> vol.atm_iv, option_vwap |-> market.option_vwap,
       volume |-> market.volume, oi |-> market.oi, ema |-> market.ema,
       theta |-> market.theta]
RouterContext(option, market, side, spot) ==
  LET context == ScoreContext(option, market, side, spot)
  IN  [context EXCEPT !.iv = IF @ = "unknown" THEN context.atm_iv ELSE @]

(* The confidence is carried on as the greatest of the limits it reaches that
   anything after the router tells apart. *)
ConfidenceLevels == {0, 70, 73, 75, 78, 80, 82, 88, 90}
Level(conf) == Max({l \in ConfidenceLevels : l <= conf})

Tradable(option, side, spot, conf) ==
  [conf |-> Level(conf), minutes |-> VolAt(option, spot).minutes, side |-> side,
   under |-> option.contract[side].under]

(* QualityGate.score for every signal whose contract is found *)
Score ==
  /\ stage = "score"
  /\ \E option \in OptionContexts, market \in Markets, learned \in Learned :
       LET names == {n \in DOMAIN work.sides : option.contract[work.sides[n]].found}
           confidence(n) ==
             LET side == work.sides[n]
             IN  Confidence(n, side, work.bias, work.spot, work.structure, work.primary,
                            RouterContext(option, market, side, work.spot), learned[n])
       IN  Continue("routed",
             [conf     |-> [n \in names |-> confidence(n)],
              allowed  |-> {n \in names :
                              CryptoEntryAllowed(n, work.primary, work.spot, work.cross)},
              tradable |-> [n \in names |->
                              Tradable(option, work.sides[n], work.spot, confidence(n))]])

(* StrategyRouter.route, and the crypto gate for the selected signal *)
Route ==
  /\ stage = "routed"
  /\ IF Selected(work.conf) \cap work.allowed = {}
     THEN BackToFeed
     ELSE \E n \in Selected(work.conf) : Continue("entry", work.tradable[n])

-----------------------------------------------------------------------------
(* The entry: _execute_signal_locked without its ledger (see TradingCore). *)

(* The orders a signal leads to: none when validation, the expiry adjustment,
   the book gates, the sizing or the expected value refuse it. *)
Orders(signal, account, book, winPct, noteRaises) ==
  LET adjustment == ExpiryAdjustment(signal.minutes)
      orderAt(quote) ==
        LET sized == SizeEntry(account, signal.under, signal.side, signal.conf, quote)
        IN  [signal |-> signal, account |-> account, quote |-> quote,
             sized |-> sized, lots |-> NearExpiryLots(sized, adjustment)]
  IN  {order \in {orderAt(quote) :
                             quote \in EntryQuotes(book, signal.conf, LastPrice, noteRaises)} :
         /\ Validated(book)
         /\ ConfidentEnough(signal.conf, adjustment)
         /\ order.sized > 0
         /\ WorthIt(signal.conf, Premium(signal.under, order.quote.price, order.lots),
                    order.quote.slip, winPct)}

Size ==
  /\ stage = "entry"
  /\ \E account \in Accounts, book \in Books, winPct \in WinPcts,
        noteRaises \in BOOLEAN :
       LET orders == Orders(work, account, book, winPct, noteRaises)
       IN  IF orders = {} THEN BackToFeed
           ELSE \E order \in orders : Continue("order", order)

(* PaperBrokerAdapter.place_order with a book of its own *)
PlaceOrder ==
  /\ stage = "order"
  /\ \E book \in Books :
       LET fills == Fills(book, work.lots, work.quote.price)
       IN  IF fills = {} THEN BackToFeed
           ELSE \E fill \in fills :
                  Continue("filled", [lots |-> work.lots, asks |-> book.asks,
                                      units |-> ContractUnits(work.signal.under),
                                      fetched |-> book.fetched, fill |-> fill])

Indices == {q.index : q \in Quotes}

(* PositionManager.register_open, with the spot the scan has seen *)
Register ==
  /\ stage = "filled"
  /\ \E index \in Indices \ {0} :
       LET fill == work.fill
       IN  Continue("hold",
             [lots |-> fill.lots, units |-> work.units, entry |-> fill.price,
              fee |-> EntryFee(index, fill.lots * work.units, fill.price),
              held |-> 0, mfe |-> 0, thesis |-> TRUE, seen |-> TRUE])

-----------------------------------------------------------------------------
(* The position. *)

TimePasses ==
  /\ stage = "hold"
  /\ \E i \in 1..(Len(Instants) - 1) :
       work.held = Instants[i] /\ Continue("hold", [work EXCEPT !.held = Instants[i + 1]])

(* A quote of the position: from the socket, or the REST poll every 2 s.  The
   spot that was seen once stays known. *)
QuoteArrives ==
  /\ stage = "hold"
  /\ \E q \in Quotes :
       LET pos    == WithQuote(work, q)
           reason == ExitReason(pos, q)
       IN  /\ work.seen => q.index # 0
           /\ IF reason = "none" THEN Continue("hold", pos)
              ELSE Continue("exit", [reason |-> reason])

(* rehydrate_open_positions: the entry survives a restart; the thesis and the
   best gain, which are never written, do not, and the fee of the entry is
   reckoned again from the spot of now, if there is one yet. *)
Restart ==
  /\ stage = "hold"
  /\ \E index \in Indices :
       Continue("hold", [work EXCEPT !.thesis = FALSE, !.mfe = 0, !.seen = index # 0,
                                     !.fee = EntryFee(index, work.lots * work.units,
                                                      work.entry)])

(* _close_position; a trend reversal queues a flip *)
Close ==
  /\ stage = "exit"
  /\ IF work.reason = "trend_reversal" THEN Continue("flip", Nothing) ELSE BackToFeed

(* _try_reversal_flip: confirmation, in distances to the side flipped to *)
ConfirmFlip ==
  /\ stage = "flip"
  /\ \E m1 \in M1Windows, spot \in Spots, m5 \in M5Windows :
       IF ReversalConfirmed(m1, spot, HigherBars(m5))
       THEN Continue("flip_score", [spot |-> spot, tight |-> Tight(m5),
                                    structure |-> Structure(m5)])
       ELSE BackToFeed

FlipMinScore == 85

(* The score of the flip, whose bias is overwritten by its side; neither the router
   nor the crypto gate is asked. *)
ScoreFlip ==
  /\ stage = "flip_score"
  /\ \E setting \in Settings, option \in OptionContexts, market \in Markets,
        learned \in Learned, side \in Sides :
       /\ option.contract[side].found
       /\ LET primary == Primary(RegimeScores(1, work.structure, work.tight,
                                              work.spot, setting))
              conf == Confidence("trend_reversal_flip", 1, 1, work.spot, work.structure,
                        primary, ScoreContext(option, market, side, side * work.spot),
                        learned["trend_reversal_flip"])
          IN  IF conf >= FlipMinScore
              THEN Continue("entry", Tradable(option, side, side * work.spot, conf))
              ELSE BackToFeed

Next ==
  \/ FeedMoves \/ Admit \/ ReadBars \/ Classify \/ Score \/ Route
  \/ Size \/ PlaceOrder \/ Register
  \/ TimePasses \/ QuoteArrives \/ Restart \/ Close
  \/ ConfirmFlip \/ ScoreFlip

(* The clock runs, and a contract that is held is polled: _rest_poll_loop *)
Fairness == WF_vars(TimePasses) /\ WF_vars(QuoteArrives)

Spec == Init /\ [][Next]_vars /\ Fairness

-----------------------------------------------------------------------------
(* Properties. *)

(* Every stage works on what the stage before it hands over: the ages of the
   feed stay within their limits, an order has lots, and a position has been
   held for one of the instants and is not worse at its best than at entry; a
   fee that is known stems from a spot that was seen. *)
TradeTypeOK ==
  /\ feed \in FeedType
  /\ stage \in {"feed", "bars", "regime", "score", "routed", "entry", "order", "filled",
                "hold", "exit", "flip", "flip_score"}
  /\ stage = "score"  => DOMAIN work.sides \subseteq Enabled /\ work.primary \in Regimes
  /\ stage = "entry"  => work.conf \in ConfidenceLevels \ {0} /\ work.side \in Sides
  /\ stage = "order"  => work.lots \in 1..work.sized
  /\ stage = "filled" => work.fill.lots \in 1..work.lots
  /\ stage = "hold"   => /\ work.held \in Range(Instants) /\ work.mfe >= 0
                         /\ work.fee > 0 => work.seen

(* A signal that follows the bias never reaches the quality gate in a market
   classified as trending against it, whatever structure, volatility and
   session say: the classifier weighs the bias above them. *)
Opposite(side) == IF side = 1 THEN "trending_down" ELSE "trending_up"
NoCounterTrendEntry ==
  stage = "score" =>
    \A n \in DOMAIN work.sides \ BiasExempt : work.primary # Opposite(work.sides[n])

(* The router hands on a signal of the highest confidence of all, although it
   compares only one per family, and hands on none only when all are too weak. *)
RoutedIsBest ==
  stage = "routed" =>
    /\ \A n \in Selected(work.conf), m \in DOMAIN work.conf : work.conf[n] >= work.conf[m]
    /\ (\E n \in DOMAIN work.conf : work.conf[n] >= MinConfidence) => Selected(work.conf) # {}

(* The step down from the other limits to what the capital allows finds the
   greatest number of lots that keeps within confidence, risk budget, depth and
   capital all at once, and what the expiry leaves of it keeps within the first
   all of them too. *)
LotsWithin(account, under, conf, quote, lots) ==
  /\ lots <= MaxLots /\ lots <= LotsForConfidence(conf)
  /\ Premium(under, quote.price, lots) <= 1000000
  /\ \A depthLots \in quote.depthLots : lots <= depthLots
  /\ FitsCapital(account, Premium(under, quote.price, lots))
LotsAreLargestAllowed ==
  stage = "order" =>
    LET within(lots) == LotsWithin(work.account, work.signal.under, work.signal.conf,
                                   work.quote, lots)
    IN  within(work.sized) /\ ~within(work.sized + 1) /\ within(work.lots)

(* A paper fill takes from every level what the better ones leave, so that no
   cheaper fill of as many lots was in the book, and at least half the order. *)
LotsAbove(asks, i) == SumOver(Column(asks, "size"), 1..(i - 1))
FillIsBestAndEnough ==
  stage = "filled" /\ work.fetched /\ work.asks # <<>> =>
    LET taken(i) == Max({0, Min({work.asks[i].size, work.fill.lots - LotsAbove(work.asks, i)})})
        cost     == SumOver([i \in DOMAIN work.asks |-> taken(i) * work.asks[i].price],
                            DOMAIN work.asks)
    IN  work.fill.cost = cost /\ 2 * work.fill.lots >= work.lots

(* "`thesis_degradation` exit when score collapses": when the spot is on the wrong
   side of the VWAP, the regime has turned and so has the structure, the thesis
   counts for less than 40 points, and a position held for thesis_min_hold_seconds
   is closed by that quote. *)
CollapsedScore(q) == ThesisScore(q) - (IF q.broken THEN 20 ELSE 0)
CollapsedThesisCloses ==
  stage = "hold" /\ work.thesis /\ work.held >= ThesisMinHold =>
    \A q \in Quotes :
      q.index # 0 /\ CollapsedScore(q) < 40 => ExitReason(WithQuote(work, q), q) # "none"

(* Every position is closed in the end, whatever the quotes are: by the time
   stop if nothing else decides. *)
EveryTradeCloses == stage = "hold" ~> stage = "exit"
=============================================================================
