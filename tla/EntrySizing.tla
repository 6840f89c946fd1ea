---------------------------- MODULE EntrySizing ----------------------------
(***************************************************************************)
(* How many lots a signal buys, at which price, and what the paper broker  *)
(* fills: validation, order book and slippage gates, lot sizing, portfolio *)
(* caps, expected value.                                                   *)
(*                                                                         *)
(* A price is in tenths of a dollar and a lot is 0.001 BTC or 0.01 ETH, so *)
(* that premium = price * lots * units is in 1/10000 dollars; a quotient   *)
(* is rounded down where the code keeps a Decimal.  A book is              *)
(* [fetched, asks, bid, bidSize]: asks is a sequence of [price, size] from *)
(* the best one on, bid is 0 when there is none.  An account is            *)
(* [equity, premiumPct, exposurePct, open]: open is the sequence of the    *)
(* open positions, [under, side, premium].                                 *)
(***************************************************************************)
EXTENDS Integers, FiniteSets, FiniteSetsExt, SequencesExt, Sums

MaxLots == 60

(* contract_size of the instrument, in 0.001 of its underlying *)
ContractUnits(under) == IF under = "ETH" THEN 10 ELSE 1
Premium(under, price, lots) == price * lots * ContractUnits(under)

Column(records, field) == [i \in DOMAIN records |-> records[i][field]]
SumOf(records, field)  == SumOver(Column(records, field), DOMAIN records)

-----------------------------------------------------------------------------
(* RuleValidator.validate: a spread of at most 12 %, and a clock up to 23:59,
   which the last minute of the day is past. *)
Validated(quote) == quote.spread <= 12 /\ ~quote.lastMinute

(* The minimum confidence near expiry; adjustment: see ExpiryAdjustment *)
ConfidentEnough(conf, adjustment) == conf >= 70 + adjustment.confidence

LotsForConfidence(conf) ==
  CASE conf >= 90 -> 40 [] conf \in 80..89 -> 25 [] conf \in 70..79 -> 15 [] OTHER -> 10

-----------------------------------------------------------------------------
(* The order book. *)

BestAsk(book) == book.asks[1].price
Depth(book)   == SumOf(book.asks, "size")

(* orderbook_entry_ok: an ask, thick enough, with enough behind it, and not
   much heavier than the bid.  bidSize is the size of the best bid. *)
BookAcceptable(book, lots) ==
  /\ book.asks # <<>>
  /\ book.asks[1].size >= 50
  /\ Depth(book) >= lots
  /\ book.bidSize > 0 => book.asks[1].size <= 8 * book.bidSize

TakeFrom(walk, level) ==
  LET take == Min({walk.left, level.size})
  IN  [left |-> walk.left - take, filled |-> walk.filled + take,
       cost |-> walk.cost + take * level.price]

(* Mutant of WalkBook: the best level is good for the whole order. *)
WalkTopOnly(asks, lots) ==
  [left |-> 0, filled |-> lots, cost |-> lots * asks[1].price]
(* walk_book, level by level *)
WalkBook(asks, lots) ==
  LET walk[n \in 0..Len(asks)] ==
        IF n = 0 THEN [left |-> lots, filled |-> 0, cost |-> 0]
        ELSE TakeFrom(walk[n - 1], asks[n])
  IN  walk[Len(asks)]

AveragePrice(asks, lots) == LET walk == WalkBook(asks, lots) IN walk.cost \div walk.filled

(* estimate_executable for a buy with a book that has asks: the average price
   and the slippage against the mid, or against the best ask without a bid;
   the impact of the size is added to both after the percentage is taken. *)
Executable(book, lots) ==
  LET ask   == BestAsk(book)
      price == AveragePrice(book.asks, lots)
      twiceReference == IF book.bid = 0 THEN 2 * ask ELSE book.bid + ask
      twiceSlip == Max({0, 2 * price - twiceReference})
      base  == IF book.bid \notin {0, ask} THEN ((ask - book.bid) * price) \div ask
               ELSE price \div 100
      impact == (base * lots) \div (2 * Depth(book))
  IN  [price |-> price + impact, slip |-> twiceSlip \div 2 + impact,
       slipWithin |-> 100 * twiceSlip <= 3 * twiceReference]

(* slippage_acceptable; a book that is too shallow is not a reason *)
SlippageAcceptable(book, lots) ==
  /\ Executable(book, lots).slipWithin
  /\ book.bid # 0 => 100 * (BestAsk(book) - book.bid) <= 12 * BestAsk(book)

(* liquidity_capped_lots: 40 % of the depth, at least one lot *)
LiquidityLots(book) == Max({1, (4 * Depth(book)) \div 10})

(* What the gates leave to the sizing: a price, a slippage and the cap of the
   depth.  A fetch that raises passes the gate with the last price.  So does a
   refusal whose note in the journal raises, as the same handler catches it. *)
EntryQuotes(book, conf, ltp, noteRaises) ==
  LET lots     == LotsForConfidence(conf)
      depthCap == IF Depth(book) > 0 THEN {LiquidityLots(book)} ELSE {}
      priced(price) == [price |-> price, slip |-> Executable(book, lots).slip,
                        depthLots |-> depthCap]
  IN  IF ~book.fetched THEN {[price |-> ltp, slip |-> 0, depthLots |-> {}]}
      ELSE IF BookAcceptable(book, lots) /\ SlippageAcceptable(book, lots)
      THEN {priced(Executable(book, lots).price)}
      ELSE IF ~noteRaises THEN {}
      ELSE IF BookAcceptable(book, lots) THEN {priced(BestAsk(book))}
      ELSE {[price |-> ltp, slip |-> 0, depthLots |-> depthCap]}

-----------------------------------------------------------------------------
(* compute_lot_size *)

Deployed(account)  == SumOf(account.open, "premium")
Available(account) == account.equity - Deployed(account)

(* risk_based_lots: a 12 % move loses at most 12 dollars; no limit without a
   price. *)
RiskLots(under, price) ==
  IF price > 0 THEN {1000000 \div Premium(under, price, 1)} ELSE {}

(* capital_fit_lots: available cash, its share for one trade, and the room
   the book of all trades has. *)
FitsCapital(account, premium) ==
  /\ premium > 0
  /\ premium <= Available(account)
  /\ 100 * premium <= account.premiumPct * Available(account)
  /\ 100 * (Deployed(account) + premium) <= account.exposurePct * account.equity

LotLimit(under, conf, quote) ==
  Min({LotsForConfidence(conf), MaxLots} \cup RiskLots(under, quote.price)
        \cup quote.depthLots)

(* Mutant of LotSize: it steps down once. *)
LotSizeOnce(account, under, conf, quote) ==
  LET limit == LotLimit(under, conf, quote)
  IN  IF limit = 0 \/ FitsCapital(account, Premium(under, quote.price, limit))
      THEN limit ELSE limit - 1
(* Steps down from the smallest other limit until the capital suffices. *)
LotSize(account, under, conf, quote) ==
  LET down[n \in 0..LotLimit(under, conf, quote)] ==
        IF n = 0 \/ FitsCapital(account, Premium(under, quote.price, n))
        THEN n ELSE down[n - 1]
  IN  down[LotLimit(under, conf, quote)]

-----------------------------------------------------------------------------
(* The portfolio caps. *)

PremiumOf(account, unders, sides) ==
  SumOver(Column(account.open, "premium"),
          {i \in DOMAIN account.open :
             account.open[i].under \in unders /\ account.open[i].side \in sides})
OnUnderlying(account, under)    == PremiumOf(account, {under}, {1, -1})
OnSide(account, side)           == PremiumOf(account, {"BTC", "ETH"}, {side})
OnSameBet(account, under, side) == PremiumOf(account, {under}, {side})

WithinPct(premium, account, pct) == 100 * premium <= pct * account.equity

(* evaluate_portfolio_entry: an underlying, everything, a direction, and the
   same direction on the other underlying at a correlation of 0.7. *)
PortfolioAllows(account, under, side, premium) ==
  LET other == OnSide(account, side) - OnSameBet(account, under, side)
      own   == OnSameBet(account, under, side) + premium
  IN  /\ WithinPct(OnUnderlying(account, under) + premium, account, 35)
      /\ WithinPct(Deployed(account) + premium, account, 50)
      /\ WithinPct(OnSide(account, side) + premium, account, 40)
      /\ other > 0 => WithinPct(own + (7 * other) \div 10, account, 45)

(* RiskEngine.size_entry after its gates: the lots, 0 when it refuses. *)
SizeEntry(account, under, side, conf, quote) ==
  LET lots == LotSize(account, under, conf, quote)
  IN  IF PortfolioAllows(account, under, side, Premium(under, quote.price, lots))
      THEN lots ELSE 0

(* Mutant of NearExpiryLots: nothing keeps a small order from vanishing. *)
NearExpiryNoLot(lots, adjustment) == (lots * adjustment.size) \div 100
(* The reduction near expiry *)
NearExpiryLots(lots, adjustment) == Max({1, (lots * adjustment.size) \div 100})

(* The paper expected value at a win probability in percent: 20 % won, 14 %
   lost, 2 % fees on both; more than 2 cents, in 1/1000000 dollars.  The
   slippage is that of one unit of the underlying, not of the order. *)
WorthIt(conf, premium, slip, winPct) ==
  \/ conf >= 88
  \/ (premium \div 100) * (18 * winPct - 16 * (100 - winPct)) - 100000 * slip > 20000

-----------------------------------------------------------------------------
(* PaperBrokerAdapter.place_order: the book is fetched again. *)

WithExtraBps(price) == price + (5 * price) \div 10000

(* The fills of an order for lots at a reference price; none: rejected. *)
Fills(book, lots, reference) ==
  IF ~book.fetched \/ book.asks = <<>>
  THEN {[lots |-> lots, cost |-> lots * reference,
         price |-> WithExtraBps(reference + (15 * reference) \div 10000)]}
  ELSE LET walk == WalkBook(book.asks, lots)
       IN  IF 2 * walk.filled < lots THEN {}
           ELSE {[lots |-> walk.filled, cost |-> walk.cost,
                  price |-> WithExtraBps(walk.cost \div walk.filled)]}
=============================================================================
