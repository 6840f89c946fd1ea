-------------------------- MODULE MarketFreshness --------------------------
(***************************************************************************)
(* How fresh the market data is that a scan trades on: the candle refresh  *)
(* (once a minute from the scan, at any time from the endpoints that force *)
(* it), the quote timestamp, and the two checks before a scan goes on.     *)
(*                                                                         *)
(* Time passes in ticks of 30 s, the scan interval and the soft quote      *)
(* limit; everything is kept as an age, so time itself is unbounded.  The  *)
(* broker's current 1-minute bar is stamped with the start of its minute.  *)
(***************************************************************************)
EXTENDS Naturals

CONSTANTS NoData,           \* no bars, no quote yet, no request under way
          MaxRequestTicks   \* bound: a candle request is answered within it

ASSUME FreshnessAssumption == NoData \notin Nat /\ MaxRequestTicks \in 1..3

VARIABLE feed   \* MarketDataEngine; see FeedType

StaleM1      == 4    \* _STALE_M1_SECONDS: 120 s
CandleHard   == 6    \* candle_stale_hard_seconds: 180 s
QuoteHard    == 3    \* quote_stale_hard_seconds: 90 s
QuoteSoft    == 1    \* quote_stale_soft_seconds: 30 s
OldestBar    == 7    \* ages are not told apart from here on
OldestQuote  == 3

Requests == {"scan", "forced"}   \* _scan_for_entry, and refresh(force=True)

FeedType ==
  [phase   : 0..1,                        \* the half of the minute
   m1      : 0..OldestBar \cup {NoData},   \* age of the last 1-minute bar
   quote   : 0..OldestQuote \cup {NoData}, \* age of last_quote_ts
   done    : BOOLEAN,   \* _last_candle_refresh_minute is this minute
   current : BOOLEAN,   \* the bars were requested in this minute
   missed  : BOOLEAN,   \* the request that set done had no 1-minute bars
   scanned : BOOLEAN,   \* the scan's own refresh is over, its checks are next
   req     : [Requests -> [age : 0..MaxRequestTicks \cup {NoData}, phase : 0..1]]]

NoRequest == [age |-> NoData, phase |-> 0]

Older(age, oldest) == IF age \in {NoData, oldest} THEN age ELSE age + 1

(* backfill_today: today's bars, if the broker has any; no quote has come. *)
Backfilled ==
  {[phase |-> 0, m1 |-> m1, quote |-> NoData, done |-> FALSE,
    current |-> FALSE, missed |-> FALSE, scanned |-> FALSE,
    req |-> [r \in Requests |-> NoRequest]] :
     m1 \in {NoData, 0}}

Tick ==
  /\ \A r \in Requests : feed.req[r].age # MaxRequestTicks
  /\ LET sameMinute == feed.phase = 0
     IN  feed' = [phase   |-> 1 - feed.phase,
                  m1      |-> Older(feed.m1, OldestBar),
                  quote   |-> Older(feed.quote, OldestQuote),
                  done    |-> feed.done /\ sameMinute,
                  current |-> feed.current /\ sameMinute,
                  missed  |-> feed.missed /\ sameMinute,
                  scanned |-> feed.scanned,
                  req     |-> [r \in Requests |->
                                 [feed.req[r] EXCEPT !.age = Older(@, NoData)]]]

(* A quote of any instrument, from the socket or a REST poll of the chain,
   refreshes last_quote_ts. *)
Quote == feed.quote # 0 /\ feed' = [feed EXCEPT !.quote = 0]

(* A scan asks only when the minute is not done; force asks always. *)
BeginRefresh(r) ==
  /\ feed.req[r].age = NoData
  /\ r = "scan" => ~feed.done /\ ~feed.scanned
  /\ feed' = [feed EXCEPT !.req[r] = [age |-> 0, phase |-> feed.phase]]

(* Mutant of MarksThisMinute: the minute is read when the answer comes. *)
MarksAnswerMinute(req) == req.age \in Nat
(* The minute marked is the one the request was made in. *)
MarksThisMinute(req) == req.age <= feed.phase

(* m1: the number of ticks the broker's last bar lags the request's minute,
   or NoData when the fetch of the 1-minute bars failed or was empty. *)
EndRefresh(r, m1) ==
  /\ feed.req[r].age # NoData
  /\ LET req    == feed.req[r]
         marks  == MarksThisMinute(req)
         barAge == IF req.phase + req.age + m1 > OldestBar THEN OldestBar
                   ELSE req.phase + req.age + m1
     IN  feed' = [feed EXCEPT
           !.req[r]  = NoRequest,
           !.scanned = @ \/ r = "scan",
           !.m1      = IF m1 = NoData THEN @ ELSE barAge,
           !.current = IF m1 = NoData THEN @ ELSE req.age <= feed.phase,
           !.missed  = IF marks THEN m1 = NoData ELSE @,
           !.done    = marks]

(* Every interval came back empty: the bars stay and the minute is retried. *)
EmptyRefresh(r) ==
  /\ feed.req[r].age # NoData
  /\ feed' = [feed EXCEPT !.req[r] = NoRequest, !.scanned = @ \/ r = "scan"]

(* MarketDataEngine.candles_stale *)
CandlesStale == feed.m1 = NoData \/ feed.m1 > StaleM1

SpotAge == IF feed.quote = NoData THEN feed.m1 ELSE feed.quote

(* SafetyEngine.evaluate(...).allow_entries: a halt, or the soft staleness
   that block_entries_when_degraded turns into a block. *)
AllowEntries ==
  LET known  == {SpotAge, feed.quote} \ {NoData}
      halted == \/ CandlesStale
                \/ \E age \in known : age >= QuoteHard
                \/ feed.m1 >= CandleHard
      degraded == \E age \in known : age >= QuoteSoft
  IN  ~halted /\ ~degraded

(* _scan_for_entry up to the features: its refresh is over, or not due. *)
AtChecks == feed.scanned \/ (feed.done /\ feed.req["scan"].age = NoData)

ScanMayGoOn == AtChecks /\ AllowEntries /\ ~CandlesStale

(* The scan is over, whatever came of it. *)
ScanEnds == feed.scanned /\ feed' = [feed EXCEPT !.scanned = FALSE]

FeedStep ==
  \/ Tick
  \/ Quote
  \/ ScanEnds
  \/ \E r \in Requests :
       BeginRefresh(r) \/ EmptyRefresh(r) \/ \E m1 \in {0, 2, NoData} : EndRefresh(r, m1)

(* A minute is marked as refreshed only while the bars held were requested in
   that minute (or its request had none): a slow request of an earlier minute
   that overwrites newer bars also takes the mark back, so that the next scan
   fetches again. *)
BarsOfMarkedMinute == feed.done => feed.current \/ feed.missed
=============================================================================
