-------------------------- MODULE TradeLifeSafety --------------------------
(***************************************************************************)
(* Proofs about TradeLife for every set of market inputs, books, accounts  *)
(* and quotes, and every list of enabled strategies.                       *)
(***************************************************************************)
EXTENDS TradeLife, SumLemmas, SequenceTheorems

-----------------------------------------------------------------------------
(***************************************************************************)
(* The feed.                                                               *)
(***************************************************************************)
Request == [age : 0..MaxRequestTicks \cup {NoData}, phase : 0..1]

LEMMA RequestFields ==
  ASSUME feed \in FeedType, NEW r \in Requests
  PROVE  /\ feed.req[r] \in Request /\ feed.phase \in 0..1
         /\ feed.req[r].age # NoData => feed.req[r].age \in 0..MaxRequestTicks
         /\ feed.req[r].phase \in 0..1
BY DEF FeedType, Request

LEMMA BackfilledType ==
  ASSUME NEW f \in Backfilled
  PROVE  f \in FeedType /\ f.done = FALSE
<1>1. PICK m1 \in {NoData, 0} :
        f = [phase |-> 0, m1 |-> m1, quote |-> NoData, done |-> FALSE,
             current |-> FALSE, missed |-> FALSE, scanned |-> FALSE,
             req |-> [r \in Requests |-> NoRequest]]
  BY DEF Backfilled
<1>2. NoRequest \in Request
  BY DEF NoRequest, Request
<1>3. [r \in Requests |-> NoRequest] \in [Requests -> Request]
  BY <1>2
<1>4. 0 \in 0..OldestBar \cup {NoData}
  BY DEF OldestBar
<1> QED BY <1>1, <1>3, <1>4 DEF FeedType, Request

LEMMA UnwatchedType == Unwatched \in FeedType /\ Unwatched.done = FALSE
<1>1. Unwatched \in Backfilled
  BY DEF Unwatched, Backfilled
<1> QED BY <1>1, BackfilledType

LEMMA OlderType ==
  ASSUME NEW n \in Nat, NEW oldest, NEW age \in 0..n \cup {NoData},
         oldest = n \/ age # n
  PROVE  Older(age, oldest) \in 0..n \cup {NoData}
BY DEF Older

LEMMA TickKeeps ==
  ASSUME feed \in FeedType, BarsOfMarkedMinute, Tick
  PROVE  feed' \in FeedType /\ BarsOfMarkedMinute'
<1> DEFINE same    == feed.phase = 0
           phase   == 1 - feed.phase
           m1      == Older(feed.m1, OldestBar)
           quote   == Older(feed.quote, OldestQuote)
           done    == feed.done /\ same
           current == feed.current /\ same
           missed  == feed.missed /\ same
           req     == [r \in Requests |-> [feed.req[r] EXCEPT !.age = Older(@, NoData)]]
<1>1. feed' = [phase |-> phase, m1 |-> m1, quote |-> quote, done |-> done,
               current |-> current, missed |-> missed, scanned |-> feed.scanned,
               req |-> req]
  BY DEF Tick
<1>2. /\ feed.m1 \in 0..OldestBar \cup {NoData} /\ feed.quote \in 0..OldestQuote \cup {NoData}
      /\ feed.phase \in 0..1 /\ feed.scanned \in BOOLEAN
      /\ feed.done \in BOOLEAN /\ feed.current \in BOOLEAN /\ feed.missed \in BOOLEAN
  BY DEF FeedType
<1>3. m1 \in 0..OldestBar \cup {NoData} /\ quote \in 0..OldestQuote \cup {NoData}
  BY <1>2, OlderType DEF OldestBar, OldestQuote
<1>4. phase \in 0..1
  BY <1>2
<1>5. req \in [Requests -> Request]
  <2>1. ASSUME NEW r \in Requests
        PROVE  [feed.req[r] EXCEPT !.age = Older(@, NoData)] \in Request
    <3> DEFINE age == Older(feed.req[r].age, NoData)
    <3>1. feed.req[r].age # MaxRequestTicks
      BY DEF Tick
    <3>2. age \in 0..MaxRequestTicks \cup {NoData}
      BY <3>1, RequestFields, OlderType, FreshnessAssumption DEF Older, Request
    <3>3. feed.req[r] \in Request
      BY RequestFields
    <3> HIDE DEF age
    <3>4. [feed.req[r] EXCEPT !.age = age] \in Request
      BY <3>2, <3>3 DEF Request
    <3> QED BY <3>4 DEF age
  <2> QED BY <2>1
<1>6. done \in BOOLEAN /\ current \in BOOLEAN /\ missed \in BOOLEAN
  BY <1>2
<1>7. done => current \/ missed
  BY DEF BarsOfMarkedMinute
<1> HIDE DEF phase, m1, quote, done, current, missed, req
<1>8. feed' \in FeedType
  BY <1>1, <1>2, <1>3, <1>4, <1>5, <1>6 DEF FeedType, Request
<1>9. feed'.done = done /\ feed'.current = current /\ feed'.missed = missed
  BY <1>1
<1> QED BY <1>7, <1>8, <1>9 DEF BarsOfMarkedMinute

\* A refresh that ends: the minute it marks is the one its bars are of.
LEMMA EndRefreshKeeps ==
  ASSUME feed \in FeedType, BarsOfMarkedMinute, NEW r \in Requests,
         NEW m1 \in {0, 2, NoData}, EndRefresh(r, m1)
  PROVE  feed' \in FeedType /\ BarsOfMarkedMinute'
<1> DEFINE rq      == feed.req[r]
           marks   == MarksThisMinute(rq)
           ages    == rq.phase + rq.age + m1
           barAge  == IF ages > OldestBar THEN OldestBar ELSE ages
           bars    == IF m1 = NoData THEN feed.m1 ELSE barAge
           scanned == feed.scanned \/ r = "scan"
           current == IF m1 = NoData THEN feed.current ELSE rq.age <= feed.phase
           missed  == IF marks THEN m1 = NoData ELSE feed.missed
<1>1. feed' = [feed EXCEPT !.req[r] = NoRequest, !.scanned = scanned, !.m1 = bars,
                           !.current = current, !.missed = missed, !.done = marks]
  BY DEF EndRefresh
<1>2. rq \in Request /\ rq.age \in Nat /\ rq.phase \in Nat /\ feed.phase \in Nat
  BY RequestFields DEF EndRefresh
<1>3. /\ feed.m1 \in 0..OldestBar \cup {NoData} /\ feed.scanned \in BOOLEAN
      /\ feed.current \in BOOLEAN /\ feed.missed \in BOOLEAN
  BY DEF FeedType
<1>4. bars \in 0..OldestBar \cup {NoData}
  <2>1. CASE m1 = NoData
    BY <1>3, <2>1
  <2>2. CASE m1 # NoData
    <3>1. ages \in Nat
      BY <1>2, <2>2
    <3> HIDE DEF ages
    <3> QED BY <2>2, <3>1 DEF OldestBar
  <2> QED BY <2>1, <2>2
<1>5. marks \in BOOLEAN
  BY <1>2 DEF MarksThisMinute
<1>6. current \in BOOLEAN
  <2>1. (rq.age <= feed.phase) \in BOOLEAN
    BY <1>2
  <2> QED BY <1>3, <2>1
<1>7. missed \in BOOLEAN
  BY <1>3, <1>5
<1>8. scanned \in BOOLEAN
  BY <1>3
<1>9. marks => current \/ missed
  BY <1>2 DEF MarksThisMinute
<1>10. NoRequest \in Request
  BY DEF NoRequest, Request
<1> HIDE DEF marks, bars, scanned, current, missed
<1>11. feed' \in FeedType
  BY <1>1, <1>4, <1>5, <1>6, <1>7, <1>8, <1>10 DEF FeedType, Request
<1>12. feed'.done = marks /\ feed'.current = current /\ feed'.missed = missed
  BY <1>1 DEF FeedType
<1> QED BY <1>9, <1>11, <1>12 DEF BarsOfMarkedMinute

LEMMA FeedStepKeeps ==
  ASSUME feed \in FeedType, BarsOfMarkedMinute, FeedStep
  PROVE  feed' \in FeedType /\ BarsOfMarkedMinute'
<1>1. CASE Tick
  BY <1>1, TickKeeps
<1>2. CASE Quote
  BY <1>2 DEF Quote, FeedType, BarsOfMarkedMinute, OldestQuote
<1>3. CASE ScanEnds
  BY <1>3 DEF ScanEnds, FeedType, BarsOfMarkedMinute
<1>4. ASSUME NEW r \in Requests, BeginRefresh(r)
      PROVE  feed' \in FeedType /\ BarsOfMarkedMinute'
  <2> DEFINE new == [age |-> 0, phase |-> feed.phase]
  <2>1. new \in Request
    BY FreshnessAssumption, RequestFields, <1>4 DEF Request
  <2>2. feed' = [feed EXCEPT !.req[r] = new]
    BY <1>4 DEF BeginRefresh
  <2> HIDE DEF new
  <2> QED BY <2>1, <2>2 DEF FeedType, Request, BarsOfMarkedMinute
<1>5. ASSUME NEW r \in Requests, EmptyRefresh(r)
      PROVE  feed' \in FeedType /\ BarsOfMarkedMinute'
  <2> DEFINE scanned == feed.scanned \/ r = "scan"
  <2>1. NoRequest \in Request
    BY DEF NoRequest, Request
  <2>2. feed' = [feed EXCEPT !.req[r] = NoRequest, !.scanned = scanned]
    BY <1>5 DEF EmptyRefresh
  <2>3. scanned \in BOOLEAN
    BY DEF FeedType
  <2> HIDE DEF scanned
  <2>4. feed' \in FeedType
    BY <2>1, <2>2, <2>3 DEF FeedType, Request
  <2>5. /\ feed'.done = feed.done /\ feed'.current = feed.current
        /\ feed'.missed = feed.missed
    BY <2>2 DEF FeedType
  <2> QED BY <2>4, <2>5 DEF BarsOfMarkedMinute
<1> QED BY <1>1, <1>2, <1>3, <1>4, <1>5, EndRefreshKeeps DEF FeedStep

-----------------------------------------------------------------------------
(***************************************************************************)
(* Greatest and least elements.                                            *)
(***************************************************************************)
LEMMA MaxIs ==
  ASSUME NEW S \in SUBSET Int, S # {}, NEW b \in Int, \A x \in S : x <= b
  PROVE  Max(S) \in S /\ \A x \in S : x <= Max(S)
<1> DEFINE T == {n \in Nat : b - n \in S}
<1>1. \A x \in S : b - x \in T
  OBVIOUS
<1>2. T \in SUBSET Nat /\ T # {}
  BY <1>1
<1> HIDE DEF T
<1>3. PICK n \in T : \A m \in T : ~(m < n)
  BY <1>2, NatMin
<1>4. n \in Nat /\ b - n \in S
  BY <1>3 DEF T
<1>5. ASSUME NEW x \in S PROVE b - n >= x
  <2>1. b - x \in T /\ b - x \in Nat /\ ~(b - x < n)
    BY <1>1, <1>2, <1>3
  <2> QED BY <1>4, <2>1
<1> QED BY <1>4, <1>5 DEF Max

LEMMA MinIs ==
  ASSUME NEW S \in SUBSET Int, S # {}, NEW b \in Int, \A x \in S : b <= x
  PROVE  Min(S) \in S /\ \A x \in S : Min(S) <= x
<1> DEFINE T == {n \in Nat : b + n \in S}
<1>1. \A x \in S : x - b \in T
  OBVIOUS
<1>2. T \in SUBSET Nat /\ T # {}
  BY <1>1
<1> HIDE DEF T
<1>3. PICK n \in T : \A m \in T : ~(m < n)
  BY <1>2, NatMin
<1>4. n \in Nat /\ b + n \in S
  BY <1>3 DEF T
<1>5. ASSUME NEW x \in S PROVE b + n <= x
  <2>1. x - b \in T /\ x - b \in Nat /\ ~(x - b < n)
    BY <1>1, <1>2, <1>3
  <2> QED BY <1>4, <2>1
<1> QED BY <1>4, <1>5 DEF Min

LEMMA MaxOfTwo ==
  ASSUME NEW x \in Int, NEW y \in Int
  PROVE  /\ Max({x, y}) \in {x, y} /\ Max({x, y}) >= x /\ Max({x, y}) >= y
<1>1. CASE x >= y
  BY <1>1, MaxIs
<1>2. CASE y >= x
  BY <1>2, MaxIs
<1> QED BY <1>1, <1>2

LEMMA MaxWithZero ==
  ASSUME NEW x \in Int
  PROVE  Max({0, x}) \in {0, x} /\ Max({0, x}) >= 0 /\ Max({0, x}) >= x
<1> DEFINE zero == 0
<1>1. zero \in Int /\ zero = 0
  OBVIOUS
<1> HIDE DEF zero
<1>2. /\ Max({zero, x}) \in {zero, x} /\ Max({zero, x}) >= zero /\ Max({zero, x}) >= x
  BY <1>1, MaxOfTwo
<1> QED BY <1>1, <1>2

LEMMA MinOfTwo ==
  ASSUME NEW x \in Int, NEW y \in Int
  PROVE  /\ Min({x, y}) \in {x, y} /\ Min({x, y}) <= x /\ Min({x, y}) <= y
<1>1. CASE x <= y
  BY <1>1, MinIs
<1>2. CASE y <= x
  BY <1>2, MinIs
<1> QED BY <1>1, <1>2

-----------------------------------------------------------------------------
(***************************************************************************)
(* The exit rules.                                                         *)
(***************************************************************************)
Position2 == [lots : Nat, units : Nat, entry : Int, fee : Int, held : Nat, mfe : Nat,
              thesis : BOOLEAN, seen : BOOLEAN]
QuoteType == [ltp : Nat, index : Nat, spot : Int, close : Int, highVol : BOOLEAN,
              atrScale : Nat, against : BOOLEAN, broken : BOOLEAN, force : BOOLEAN]

\* on_quote raises the best gain, and a spot that was seen once stays known.
LEMMA WithQuoteIs ==
  ASSUME NEW pos \in Position2, NEW q \in QuoteType
  PROVE  /\ WithQuote(pos, q) \in Position2
         /\ WithQuote(pos, q).held = pos.held
         /\ WithQuote(pos, q).fee = pos.fee
         /\ pos.seen => WithQuote(pos, q).seen
<1> DEFINE g == q.ltp - 100
           m == Max({pos.mfe, g})
           seen == pos.seen \/ q.index # 0
<1>1. m \in Nat
  <2>1. pos.mfe \in Nat /\ pos.mfe \in Int /\ g \in Int
    BY DEF Position2, QuoteType
  <2> HIDE DEF g
  <2>2. m \in {pos.mfe, g} /\ m >= pos.mfe
    BY <2>1, MaxOfTwo
  <2> HIDE DEF m
  <2> QED BY <2>1, <2>2
<1>2. WithQuote(pos, q) = [pos EXCEPT !.mfe = m, !.seen = seen]
  BY DEF WithQuote
<1>3. seen \in BOOLEAN /\ (pos.seen => seen)
  BY DEF Position2
<1> HIDE DEF m, seen
<1> QED BY <1>1, <1>2, <1>3 DEF Position2

LEMMA OptionFeeType ==
  ASSUME NEW index \in Nat, NEW size \in Nat, NEW premium \in Int
  PROVE  OptionFee(index, size, premium) \in Int
<1> DEFINE a == (3 * index * size) \div 1000
           c == (35 * premium) \div 1000
           m == Min({a, c})
<1>1. a \in Int /\ c \in Int
  <2>1. 3 * index * size \in Int
    OBVIOUS
  <2> QED BY <2>1
<1> HIDE DEF a, c
<1>2. m \in Int
  BY <1>1, MinOfTwo
<1>3. OptionFee(index, size, premium) = (118 * m) \div 100
  BY DEF OptionFee, a, c
<1> HIDE DEF m
<1> QED BY <1>2, <1>3

\* The fee of an entry is known only from a spot that was seen.
LEMMA EntryFeeType ==
  ASSUME NEW index \in Nat, NEW size \in Nat, NEW price \in Int
  PROVE  EntryFee(index, size, price) \in Int /\ (EntryFee(index, size, price) > 0 => index # 0)
<1>1. price * size \in Int
  OBVIOUS
<1>2. OptionFee(index, size, price * size) \in Int
  BY <1>1, OptionFeeType
<1> QED BY <1>2 DEF EntryFee

-----------------------------------------------------------------------------
(***************************************************************************)
(* The walk of an order through the book.                                  *)
(***************************************************************************)
LevelType == [price : Nat \ {0}, size : Nat \ {0}]
BookType ==
  [fetched : BOOLEAN, asks : Seq(LevelType), bid : Nat, bidSize : Nat, spread : Int,
   lastMinute : BOOLEAN]
WalkType == [left : Nat, filled : Nat, cost : Nat]

LEMMA PrefixSum ==
  ASSUME NEW n \in Nat \ {0}, NEW f, \A i \in 1..n : f[i] \in Int
  PROVE  SumOver(f, 1..n) = SumOver(f, 1..(n - 1)) + f[n]
<1>1. IsFiniteSet(1..n)
  BY FS_Interval
<1>2. n \in 1..n /\ (1..n) \ {n} = 1..(n - 1)
  OBVIOUS
<1> QED BY <1>1, <1>2, SumRemove

\* The first n levels are walked one by one.
WalkUpTo(w, asks, lots, n) ==
  w = [k \in 0..n |-> IF k = 0 THEN [left |-> lots, filled |-> 0, cost |-> 0]
                      ELSE TakeFrom(w[k - 1], asks[k])]

LEMMA WalkExists ==
  ASSUME NEW asks, NEW lots, NEW n \in Nat
  PROVE  \E w : WalkUpTo(w, asks, lots, n)
<1> DEFINE Bad == {k \in Nat : ~\E w : WalkUpTo(w, asks, lots, k)}
<1>1. SUFFICES ASSUME Bad # {} PROVE FALSE
  OBVIOUS
<1>2. PICK k \in Bad : \A j \in Bad : ~(j < k)
  BY <1>1, NatMin
<1>3. CASE k = 0
  <2> DEFINE w == [j \in 0..0 |-> [left |-> lots, filled |-> 0, cost |-> 0]]
  <2>1. WalkUpTo(w, asks, lots, 0)
    BY DEF WalkUpTo
  <2> QED BY <1>2, <1>3, <2>1
<1>4. CASE k # 0
  <2>1. k - 1 \in Nat /\ k - 1 \notin Bad
    BY <1>2, <1>4
  <2>2. PICK v : WalkUpTo(v, asks, lots, k - 1)
    BY <2>1
  <2> DEFINE w == [j \in 0..k |-> IF j = 0 THEN [left |-> lots, filled |-> 0, cost |-> 0]
                                  ELSE TakeFrom(v[j - 1], asks[j])]
  <2>3. \A j \in 0..(k - 1) : w[j] = v[j]
    BY <2>1, <2>2 DEF WalkUpTo
  <2>4. \A j \in 0..k : j # 0 => j - 1 \in 0..(k - 1)
    BY <1>2
  <2>5. WalkUpTo(w, asks, lots, k)
    BY <2>3, <2>4 DEF WalkUpTo
  <2> QED BY <1>2, <2>5
<1> QED BY <1>3, <1>4

LEMMA WalkBookIs ==
  ASSUME NEW asks \in Seq(LevelType), NEW lots
  PROVE  \E w : WalkUpTo(w, asks, lots, Len(asks)) /\ WalkBook(asks, lots) = w[Len(asks)]
<1> DEFINE w == CHOOSE w : WalkUpTo(w, asks, lots, Len(asks))
<1>1. Len(asks) \in Nat
  OBVIOUS
<1>2. WalkUpTo(w, asks, lots, Len(asks))
  BY <1>1, WalkExists
<1>3. WalkBook(asks, lots) = w[Len(asks)]
  BY DEF WalkBook, WalkUpTo
<1> QED BY <1>2, <1>3

LEMMA StepByStep ==
  ASSUME NEW N \in Nat, NEW T, 0 \in T, \A n \in 0..(N - 1) : n \in T => n + 1 \in T
  PROVE  \A n \in 0..N : n \in T
<1> DEFINE Bad == {n \in 0..N : n \notin T}
<1>1. SUFFICES ASSUME Bad # {} PROVE FALSE
  OBVIOUS
<1>2. Bad \in SUBSET Nat
  OBVIOUS
<1>3. PICK k \in Bad : \A j \in Bad : ~(j < k)
  BY <1>1, <1>2, NatMin
<1>4. k # 0 /\ k \in 0..N /\ k \notin T
  BY <1>3
<1>5. k - 1 \in 0..(N - 1) /\ k - 1 \notin Bad
  BY <1>3, <1>4
<1> QED BY <1>4, <1>5

LEMMA ColumnIs ==
  ASSUME NEW asks \in Seq(LevelType)
  PROVE  \A i \in 1..Len(asks) : /\ Column(asks, "size")[i] = asks[i].size
                                 /\ asks[i].size \in Nat \ {0} /\ asks[i].price \in Nat \ {0}
<1>1. ASSUME NEW i \in 1..Len(asks)
      PROVE  /\ Column(asks, "size")[i] = asks[i].size
             /\ asks[i].size \in Nat \ {0} /\ asks[i].price \in Nat \ {0}
  <2>1. asks[i] \in LevelType /\ i \in DOMAIN asks
    OBVIOUS
  <2> QED BY <2>1 DEF Column, LevelType
<1> QED BY <1>1

\* The sizes of the levels add up, level by level.
LEMMA LotsAboveGrow ==
  ASSUME NEW asks \in Seq(LevelType)
  PROVE  /\ LotsAbove(asks, 1) = 0
         /\ \A i \in 1..Len(asks) :
              /\ LotsAbove(asks, i) \in Nat
              /\ LotsAbove(asks, i + 1) = LotsAbove(asks, i) + asks[i].size
              /\ LotsAbove(asks, i + 1) \in Nat
<1> DEFINE f == Column(asks, "size")
<1>1. \A i \in 1..Len(asks) : f[i] = asks[i].size /\ f[i] \in Nat
  BY ColumnIs
<1> HIDE DEF f
<1>2. 1..(1 - 1) = {}
  OBVIOUS
<1>3. LotsAbove(asks, 1) = 0
  BY <1>2, SumEmpty DEF LotsAbove, f
<1>4. ASSUME NEW i \in 1..Len(asks)
      PROVE  /\ LotsAbove(asks, i) \in Nat
             /\ LotsAbove(asks, i + 1) = LotsAbove(asks, i) + asks[i].size
             /\ LotsAbove(asks, i + 1) \in Nat
  <2>1. i \in Nat \ {0} /\ \A j \in 1..i : f[j] \in Int /\ f[j] \in Nat
    BY <1>1
  <2>2. SumOver(f, 1..i) = SumOver(f, 1..(i - 1)) + f[i]
    BY <2>1, PrefixSum
  <2>3. IsFiniteSet(1..(i - 1)) /\ \A j \in 1..(i - 1) : f[j] \in Nat
    <3>1. i - 1 \in Int
      OBVIOUS
    <3>2. IsFiniteSet(1..(i - 1))
      BY <3>1, FS_Interval
    <3>3. 1..(i - 1) \subseteq 1..i
      OBVIOUS
    <3> QED BY <2>1, <3>2, <3>3
  <2>4. SumOver(f, 1..(i - 1)) \in Nat
    BY <2>3, SumNat
  <2>5. LotsAbove(asks, i) = SumOver(f, 1..(i - 1)) /\ LotsAbove(asks, i + 1) = SumOver(f, 1..i)
    <3>1. 1..((i + 1) - 1) = 1..i
      OBVIOUS
    <3>2. LotsAbove(asks, i + 1) = SumOver(f, 1..((i + 1) - 1))
      BY DEF LotsAbove, f
    <3>3. LotsAbove(asks, i) = SumOver(f, 1..(i - 1))
      BY DEF LotsAbove, f
    <3> QED BY <3>1, <3>2, <3>3
  <2>6. f[i] = asks[i].size /\ f[i] \in Nat
    BY <1>1
  <2> QED BY <2>2, <2>4, <2>5, <2>6
<1> QED BY <1>3, <1>4

LEMMA LotsAboveMonotone ==
  ASSUME NEW asks \in Seq(LevelType), NEW i \in 1..Len(asks)
  PROVE  LotsAbove(asks, i + 1) <= LotsAbove(asks, Len(asks) + 1)
<1> DEFINE S(n) == LotsAbove(asks, n)
           T == {n \in Nat : S(i + 1) <= S(i + 1 + n)}
           N == Len(asks) - i
<1>1. N \in Nat /\ Len(asks) \in Nat /\ i \in Nat
  OBVIOUS
<1>2. S(i + 1) \in Nat
  BY LotsAboveGrow
<1>3. 0 \in T
  BY <1>1, <1>2
<1>4. ASSUME NEW n \in 0..(N - 1), n \in T
      PROVE  n + 1 \in T
  <2>1. i + 1 + n \in 1..Len(asks)
    BY <1>1
  <2>2. S(i + 1 + n + 1) = S(i + 1 + n) + asks[i + 1 + n].size /\ S(i + 1 + n) \in Nat
    BY <2>1, LotsAboveGrow
  <2>3. asks[i + 1 + n].size \in Nat
    BY <2>1, ColumnIs
  <2>4. i + 1 + (n + 1) = i + 1 + n + 1
    BY <1>1
  <2>5. S(i + 1) <= S(i + 1 + n)
    BY <1>4
  <2> HIDE DEF S
  <2>6. S(i + 1) <= S(i + 1 + n + 1)
    BY <1>2, <2>2, <2>3, <2>5
  <2>7. S(i + 1) <= S(i + 1 + (n + 1))
    BY <2>4, <2>6
  <2> QED BY <2>7, <1>4 DEF S
<1> HIDE DEF T
<1>5. N \in T
  <2> HIDE DEF N
  <2>1. \A n \in 0..N : n \in T
    BY <1>1, <1>3, <1>4, StepByStep
  <2> QED BY <1>1, <2>1
<1>6. i + 1 + N = Len(asks) + 1
  BY <1>1
<1> QED BY <1>5, <1>6 DEF T

\* What is left of an order, and filled, after n levels.
LEMMA WalkStep ==
  ASSUME NEW walk \in WalkType, NEW level \in LevelType
  PROVE  \E take \in Nat :
           /\ take <= walk.left /\ take <= level.size
           /\ take = walk.left \/ take = level.size
           /\ TakeFrom(walk, level).left = walk.left - take
           /\ TakeFrom(walk, level).filled = walk.filled + take
           /\ TakeFrom(walk, level).cost = walk.cost + take * level.price
           /\ TakeFrom(walk, level) \in WalkType
<1> DEFINE take == Min({walk.left, level.size})
<1>1. walk.left \in Nat /\ walk.filled \in Nat /\ walk.cost \in Nat
  BY DEF WalkType
<1>2. level.size \in Nat /\ level.price \in Nat
  BY DEF LevelType
<1>3. take \in {walk.left, level.size} /\ take <= walk.left /\ take <= level.size
  <2>1. walk.left \in Int /\ level.size \in Int
    BY <1>1, <1>2
  <2> QED BY <2>1, MinOfTwo
<1>4. TakeFrom(walk, level) = [left |-> walk.left - take, filled |-> walk.filled + take,
                               cost |-> walk.cost + take * level.price]
  BY DEF TakeFrom
<1> HIDE DEF take
<1>5. take \in Nat
  BY <1>1, <1>2, <1>3
<1>6. take * level.price \in Nat
  BY <1>2, <1>5
<1>7. walk.left - take \in Nat
  BY <1>1, <1>3, <1>5
<1>8. walk.cost + take * level.price \in Nat
  BY <1>1, <1>6
<1>9. TakeFrom(walk, level) \in WalkType
  BY <1>1, <1>4, <1>5, <1>7, <1>8 DEF WalkType
<1> QED BY <1>3, <1>4, <1>5, <1>9

\* The lots filled are those ordered, or all that is there.
FilledIs(filled, asks, lots, n) ==
  LET there == LotsAbove(asks, n + 1)
  IN  /\ filled <= lots /\ filled <= there
      /\ filled = lots \/ filled = there

LEMMA WalkFills ==
  ASSUME NEW asks \in Seq(LevelType), NEW lots \in Nat, NEW w,
         WalkUpTo(w, asks, lots, Len(asks))
  PROVE  \A n \in 0..Len(asks) :
           /\ w[n] \in WalkType
           /\ w[n].left + w[n].filled = lots
           /\ FilledIs(w[n].filled, asks, lots, n)
<1> DEFINE T == {n \in 0..Len(asks) : /\ w[n] \in WalkType
                                      /\ w[n].left + w[n].filled = lots
                                      /\ FilledIs(w[n].filled, asks, lots, n)}
           N == Len(asks)
<1>1. N \in Nat
  OBVIOUS
<1>2. 0 \in T
  <2>1. w[0] = [left |-> lots, filled |-> 0, cost |-> 0]
    BY <1>1 DEF WalkUpTo
  <2>2. LotsAbove(asks, 0 + 1) = 0
    BY LotsAboveGrow
  <2>3. w[0] \in WalkType /\ w[0].left + w[0].filled = lots /\ w[0].filled = 0
    BY <2>1 DEF WalkType
  <2> QED BY <1>1, <2>2, <2>3 DEF FilledIs
<1>3. ASSUME NEW n \in 0..(N - 1), n \in T
      PROVE  n + 1 \in T
  <2>1. n + 1 \in 0..N /\ n + 1 # 0 /\ (n + 1) - 1 = n /\ n + 1 \in 1..N
    BY <1>1
  <2>2. w[n + 1] = TakeFrom(w[n], asks[n + 1])
    BY <2>1 DEF WalkUpTo
  <2>3. asks[n + 1] \in LevelType /\ asks[n + 1].size \in Nat
    BY <2>1, ColumnIs
  <2>4. /\ w[n] \in WalkType /\ w[n].left + w[n].filled = lots
        /\ FilledIs(w[n].filled, asks, lots, n)
        /\ w[n].left \in Nat /\ w[n].filled \in Nat
    BY <1>3 DEF WalkType
  <2>5. PICK take \in Nat :
          /\ take <= w[n].left /\ take <= asks[n + 1].size
          /\ take = w[n].left \/ take = asks[n + 1].size
          /\ TakeFrom(w[n], asks[n + 1]).left = w[n].left - take
          /\ TakeFrom(w[n], asks[n + 1]).filled = w[n].filled + take
          /\ TakeFrom(w[n], asks[n + 1]) \in WalkType
    BY <2>3, <2>4, WalkStep
  <2>6. /\ LotsAbove(asks, n + 1) \in Nat
        /\ LotsAbove(asks, (n + 1) + 1) = LotsAbove(asks, n + 1) + asks[n + 1].size
    BY <2>1, LotsAboveGrow
  <2>7. w[n + 1].left + w[n + 1].filled = lots
    BY <2>2, <2>4, <2>5
  <2>8. FilledIs(w[n + 1].filled, asks, lots, n + 1)
    <3> DEFINE above == LotsAbove(asks, n + 1)
               below == LotsAbove(asks, (n + 1) + 1)
               size  == asks[n + 1].size
               one   == w[n].filled
               two   == w[n + 1].filled
               left  == w[n].left
    <3>1. two = one + take /\ take <= left /\ take <= size /\ (take = left \/ take = size)
      BY <2>2, <2>5
    <3>2. /\ above \in Nat /\ below = above + size /\ size \in Nat
          /\ left + one = lots /\ left \in Nat /\ one \in Nat
      BY <2>3, <2>4, <2>6
    <3>3. one <= lots /\ one <= above /\ (one = lots \/ one = above)
      BY <2>4 DEF FilledIs
    <3> HIDE DEF above, below, size, one, two, left
    <3>4. two <= lots /\ two <= below /\ (two = lots \/ two = below)
      BY <3>1, <3>2, <3>3
    <3> QED BY <3>4 DEF FilledIs, below, two
  <2> QED BY <2>1, <2>2, <2>5, <2>7, <2>8
<1> HIDE DEF T
<1>4. \A n \in 0..N : n \in T
  <2> HIDE DEF N
  <2> QED BY <1>1, <1>2, <1>3, StepByStep
<1> QED BY <1>4 DEF T

\* Enough for the whole order, or all the lots the book has.
LEMMA WalkBookFills ==
  ASSUME NEW asks \in Seq(LevelType), NEW lots \in Nat
  PROVE  /\ WalkBook(asks, lots) \in WalkType
         /\ FilledIs(WalkBook(asks, lots).filled, asks, lots, Len(asks))
<1>1. PICK w : WalkUpTo(w, asks, lots, Len(asks)) /\ WalkBook(asks, lots) = w[Len(asks)]
  BY WalkBookIs
<1>2. Len(asks) \in 0..Len(asks)
  OBVIOUS
<1> QED BY <1>1, <1>2, WalkFills

\* A fill of lots takes this from a level when it takes the better levels first.
TakenAt(asks, lots, i) == Max({0, Min({asks[i].size, lots - LotsAbove(asks, i)})})
LevelCosts(asks, lots) == [i \in DOMAIN asks |-> TakenAt(asks, lots, i) * asks[i].price]

LEMMA TakenIs ==
  ASSUME NEW asks \in Seq(LevelType), NEW lots \in Nat, NEW filled \in Nat,
         NEW i \in 1..Len(asks), NEW one \in Nat, NEW take \in Nat,
         FilledIs(filled, asks, lots, Len(asks)), FilledIs(one, asks, lots, i - 1),
         take <= lots - one, take <= asks[i].size,
         take = lots - one \/ take = asks[i].size
  PROVE  TakenAt(asks, filled, i) = take
<1> DEFINE size  == asks[i].size
           above == LotsAbove(asks, i)
           all   == LotsAbove(asks, Len(asks) + 1)
           rest  == filled - above
           least == Min({size, rest})
           most  == Max({0, least})
<1>1. size \in Int /\ above \in Int /\ rest \in Int /\ size \in Nat /\ above \in Nat
  BY ColumnIs, LotsAboveGrow
<1>2. above + size <= all /\ all \in Int
  <2>1. /\ LotsAbove(asks, i + 1) = LotsAbove(asks, i) + asks[i].size
        /\ LotsAbove(asks, i + 1) <= LotsAbove(asks, Len(asks) + 1)
    BY LotsAboveGrow, LotsAboveMonotone
  <2>2. Len(asks) \in 1..Len(asks)
    OBVIOUS
  <2>3. all \in Nat
    BY <2>2, LotsAboveGrow
  <2> QED BY <2>1, <2>3
<1>3. filled <= lots /\ filled <= all /\ (filled = lots \/ filled = all)
  BY DEF FilledIs
<1>4. one <= lots /\ one <= above /\ (one = lots \/ one = above)
  <2>1. (i - 1) + 1 = i
    OBVIOUS
  <2>2. above = LotsAbove(asks, (i - 1) + 1)
    BY <2>1
  <2> HIDE DEF above
  <2> QED BY <2>2 DEF FilledIs
<1>5. take <= size /\ (take = lots - one \/ take = size)
  OBVIOUS
<1>6. rest = filled - above
  OBVIOUS
<1> HIDE DEF size, above, all, rest
<1>7. least \in {size, rest} /\ least <= size /\ least <= rest
  BY <1>1, MinOfTwo
<1> HIDE DEF least
<1>8. least \in Int
  BY <1>1, <1>7
<1>9. most \in {0, least} /\ most >= 0 /\ most >= least
  BY <1>8, MaxWithZero
<1> HIDE DEF most
<1>10. most = take
  BY <1>1, <1>2, <1>3, <1>4, <1>5, <1>6, <1>7, <1>8, <1>9
<1> QED BY <1>10 DEF TakenAt, most, least, size, rest, above

LEMMA WalkCosts ==
  ASSUME NEW asks \in Seq(LevelType), NEW lots \in Nat
  PROVE  LET walk == WalkBook(asks, lots)
         IN  walk.cost = SumOver(LevelCosts(asks, walk.filled), DOMAIN asks)
<1>1. PICK w : WalkUpTo(w, asks, lots, Len(asks)) /\ WalkBook(asks, lots) = w[Len(asks)]
  BY WalkBookIs
<1> DEFINE N == Len(asks)
           F == w[N].filled
           f == LevelCosts(asks, F)
           T == {n \in 0..N : w[n].cost = SumOver(f, 1..n)}
<1>2. N \in Nat /\ N \in 0..N /\ DOMAIN asks = 1..N
  OBVIOUS
<1>3. \A n \in 0..N : /\ w[n] \in WalkType /\ w[n].left + w[n].filled = lots
                      /\ FilledIs(w[n].filled, asks, lots, n)
  BY <1>1, WalkFills
<1>4. F \in Nat /\ FilledIs(F, asks, lots, N)
  BY <1>2, <1>3 DEF WalkType
<1>5. ASSUME NEW n \in 0..(N - 1)
      PROVE  /\ w[n + 1].cost = w[n].cost + f[n + 1]
             /\ f[n + 1] \in Int
  <2>1. n + 1 \in 0..N /\ n + 1 # 0 /\ (n + 1) - 1 = n /\ n + 1 \in 1..N /\ n \in 0..N
    BY <1>2
  <2>2. w[n + 1] = TakeFrom(w[n], asks[n + 1])
    BY <1>1, <2>1 DEF WalkUpTo
  <2>3. asks[n + 1] \in LevelType /\ asks[n + 1].price \in Nat
    BY <2>1, ColumnIs
  <2>4. /\ w[n] \in WalkType /\ w[n].left + w[n].filled = lots
        /\ w[n].left \in Nat /\ w[n].filled \in Nat
    BY <1>3, <2>1 DEF WalkType
  <2>5. FilledIs(w[n].filled, asks, lots, (n + 1) - 1)
    BY <1>3, <2>1
  <2>6. PICK take \in Nat :
          /\ take <= w[n].left /\ take <= asks[n + 1].size
          /\ take = w[n].left \/ take = asks[n + 1].size
          /\ TakeFrom(w[n], asks[n + 1]).cost = w[n].cost + take * asks[n + 1].price
    BY <2>3, <2>4, WalkStep
  <2>7. w[n].left = lots - w[n].filled
    BY <2>4
  <2>8. TakenAt(asks, F, n + 1) = take
    <3> DEFINE i == n + 1
               one == w[n].filled
    <3>1. /\ take <= lots - one /\ take <= asks[i].size
          /\ take = lots - one \/ take = asks[i].size
      BY <2>6, <2>7
    <3>2. i \in 1..Len(asks) /\ one \in Nat /\ FilledIs(one, asks, lots, i - 1)
      BY <2>1, <2>4, <2>5
    <3>3. F \in Nat /\ FilledIs(F, asks, lots, Len(asks))
      BY <1>4
    <3> HIDE DEF i, one, F, N
    <3>4. TakenAt(asks, F, i) = take
      BY <3>1, <3>2, <3>3, TakenIs
    <3> QED BY <3>4 DEF i
  <2>9. f[n + 1] = take * asks[n + 1].price
    BY <1>2, <2>1, <2>8 DEF LevelCosts
  <2>10. take * asks[n + 1].price \in Nat
    BY <2>3
  <2> QED BY <2>2, <2>6, <2>9, <2>10
<1>6. 0 \in T
  <2>1. w[0].cost = 0
    BY <1>1, <1>2 DEF WalkUpTo
  <2>2. 1..0 = {}
    OBVIOUS
  <2> QED BY <1>2, <2>1, <2>2, SumEmpty
<1>7. ASSUME NEW n \in 0..(N - 1), n \in T
      PROVE  n + 1 \in T
  <2>1. \A j \in 1..(n + 1) : f[j] \in Int
    <3>1. ASSUME NEW j \in 1..(n + 1) PROVE f[j] \in Int
      <4>1. j - 1 \in 0..(N - 1) /\ (j - 1) + 1 = j
        BY <1>2
      <4> HIDE DEF f
      <4> QED BY <1>5, <4>1
    <3> QED BY <3>1
  <2>2. n + 1 \in Nat \ {0} /\ (n + 1) - 1 = n /\ n + 1 \in 0..N
    BY <1>2
  <2> HIDE DEF f
  <2>3. SumOver(f, 1..(n + 1)) = SumOver(f, 1..((n + 1) - 1)) + f[n + 1]
    BY <2>1, <2>2, PrefixSum
  <2>4. w[n + 1].cost = w[n].cost + f[n + 1]
    BY <1>5
  <2>5. w[n].cost = SumOver(f, 1..n)
    BY <1>7
  <2> QED BY <2>2, <2>3, <2>4, <2>5
<1> HIDE DEF T
<1>8. N \in T
  <2>1. \A n \in 0..N : n \in T
    <3> HIDE DEF N
    <3> QED BY <1>2, <1>6, <1>7, StepByStep
  <2> QED BY <1>2, <2>1
<1>9. w[N].cost = SumOver(f, 1..N)
  BY <1>8 DEF T
<1> QED BY <1>1, <1>2, <1>9

-----------------------------------------------------------------------------
(***************************************************************************)
(* What the gates hand to the sizing, and the lots it takes.               *)
(***************************************************************************)
LEMMA DepthIs ==
  ASSUME NEW asks \in Seq(LevelType)
  PROVE  /\ SumOf(asks, "size") = LotsAbove(asks, Len(asks) + 1)
         /\ SumOf(asks, "size") \in Nat
<1>1. Len(asks) \in Nat /\ DOMAIN Column(asks, "size") = 1..Len(asks)
  BY DEF Column
<1>2. 1..((Len(asks) + 1) - 1) = DOMAIN asks
  OBVIOUS
<1>3. SumOf(asks, "size") = SumOver(Column(asks, "size"), DOMAIN asks)
  BY DEF SumOf
<1>4. SumOf(asks, "size") = LotsAbove(asks, Len(asks) + 1)
  BY <1>2, <1>3 DEF LotsAbove
<1>5. LotsAbove(asks, Len(asks) + 1) \in Nat
  <2>1. CASE Len(asks) = 0
    <3>1. LotsAbove(asks, Len(asks) + 1) = LotsAbove(asks, 1)
      BY <2>1
    <3> QED BY <3>1, LotsAboveGrow
  <2>2. CASE Len(asks) # 0
    <3>1. Len(asks) \in 1..Len(asks)
      BY <1>1, <2>2
    <3> QED BY <3>1, LotsAboveGrow
  <2> QED BY <2>1, <2>2
<1> QED BY <1>4, <1>5

LEMMA QuotientIsInt ==
  ASSUME NEW a \in Int, NEW b \in Nat \ {0}
  PROVE  a \div b \in Int
OBVIOUS

LEMMA ConfidenceLots ==
  ASSUME NEW conf \in Int
  PROVE  LotsForConfidence(conf) \in Nat \ {0}
BY DEF LotsForConfidence

\* A book the gates accept gives a price for the lots it is asked for.
LEMMA ExecutableType ==
  ASSUME NEW book \in BookType, NEW lots \in Nat \ {0}, BookAcceptable(book, lots)
  PROVE  Executable(book, lots).price \in Int
<1> DEFINE asks   == book.asks
           walk   == WalkBook(asks, lots)
           filled == walk.filled
           price  == AveragePrice(asks, lots)
           ask    == BestAsk(book)
           depth  == Depth(book)
           base   == IF book.bid \notin {0, ask} THEN ((ask - book.bid) * price) \div ask
                     ELSE price \div 100
           impact == (base * lots) \div (2 * depth)
<1>1. asks \in Seq(LevelType) /\ book.bid \in Int /\ asks # <<>>
  BY DEF BookType, BookAcceptable
<1>2. depth \in Nat /\ depth >= lots
  BY <1>1, DepthIs DEF Depth, BookAcceptable
<1>3. walk.cost \in Int /\ filled \in Nat \ {0}
  <2>1. walk \in WalkType /\ FilledIs(filled, asks, lots, Len(asks))
    <3> HIDE DEF asks
    <3> QED BY <1>1, WalkBookFills
  <2>2. depth = LotsAbove(asks, Len(asks) + 1)
    BY <1>1, DepthIs DEF Depth
  <2>3. filled = lots \/ filled = depth
    BY <2>1, <2>2 DEF FilledIs
  <2>4. walk.cost \in Nat /\ filled \in Nat
    BY <2>1 DEF WalkType
  <2> HIDE DEF filled, depth
  <2> QED BY <1>2, <2>3, <2>4
<1>4. price = walk.cost \div filled
  BY DEF AveragePrice
<1> HIDE DEF walk, filled, depth
<1>5. price \in Int
  BY <1>3, <1>4
<1>6. ask \in Nat \ {0}
  <2>1. 1 \in 1..Len(asks)
    BY <1>1
  <2> QED BY <1>1, <2>1, ColumnIs DEF BestAsk
<1> HIDE DEF price, ask
<1>7. base \in Int
  <2>1. (ask - book.bid) * price \in Int
    BY <1>1, <1>5, <1>6
  <2> QED BY <1>5, <1>6, <2>1, QuotientIsInt
<1> HIDE DEF base
<1>8. impact \in Int
  <2>1. base * lots \in Int /\ 2 * depth \in Nat \ {0}
    BY <1>2, <1>7
  <2> QED BY <2>1, QuotientIsInt
<1>9. Executable(book, lots).price = price + impact
  BY DEF Executable, price, impact, base, ask, depth
<1> HIDE DEF impact
<1> QED BY <1>5, <1>8, <1>9

LEMMA EntryQuoteType ==
  ASSUME NEW book \in BookType, NEW conf \in Int, NEW ltp \in Nat, NEW noteRaises,
         NEW quote \in EntryQuotes(book, conf, ltp, noteRaises)
  PROVE  quote.price \in Int /\ quote.depthLots \in SUBSET Nat
<1> DEFINE lots     == LotsForConfidence(conf)
           depthCap == IF Depth(book) > 0 THEN {LiquidityLots(book)} ELSE {}
<1>1. lots \in Nat \ {0}
  BY ConfidenceLots
<1>2. depthCap \in SUBSET Nat
  <2> DEFINE d == (4 * Depth(book)) \div 10
  <2>1. Depth(book) \in Nat
    BY DepthIs DEF Depth, BookType
  <2>2. d \in Int /\ 1 \in Int
    BY <2>1
  <2> DEFINE one == 1
  <2>3. one \in Int /\ one = 1
    OBVIOUS
  <2> HIDE DEF d, one
  <2>4. Max({one, d}) \in {one, d} /\ Max({one, d}) >= one
    BY <2>2, <2>3, MaxOfTwo
  <2>5. LiquidityLots(book) = Max({one, d})
    BY <2>3 DEF LiquidityLots, d
  <2>6. LiquidityLots(book) \in Nat
    BY <2>2, <2>3, <2>4, <2>5
  <2> QED BY <2>6
<1>3. ASSUME BookAcceptable(book, lots)
      PROVE  Executable(book, lots).price \in Int /\ BestAsk(book) \in Int
  <2>1. book.asks \in Seq(LevelType) /\ book.asks # <<>>
    BY <1>3 DEF BookAcceptable, BookType
  <2>2. 1 \in 1..Len(book.asks)
    BY <2>1
  <2>3. BestAsk(book) \in Int
    BY <2>1, <2>2, ColumnIs DEF BestAsk
  <2> QED BY <1>1, <1>3, <2>3, ExecutableType
<1> HIDE DEF lots, depthCap
<1>4. quote.price \in Int
  BY <1>3 DEF EntryQuotes, lots, depthCap
<1>5. quote.depthLots = depthCap \/ quote.depthLots = {}
  BY DEF EntryQuotes, lots, depthCap
<1> QED BY <1>2, <1>4, <1>5

QuoteFields(quote) == quote.price \in Int /\ quote.depthLots \in SUBSET Nat

\* The premium is proportional to the lots.
LEMMA PremiumIs ==
  ASSUME NEW under, NEW price \in Int, NEW n \in Nat
  PROVE  /\ Premium(under, price, 1) \in Int /\ Premium(under, price, n) \in Int
         /\ Premium(under, price, n) = Premium(under, price, 1) * n
         /\ price > 0 <=> Premium(under, price, 1) > 0
<1>1. CASE under = "ETH"
  BY <1>1 DEF Premium, ContractUnits
<1>2. CASE under # "ETH"
  BY <1>2 DEF Premium, ContractUnits
<1> QED BY <1>1, <1>2

LEMMA FactorIsPositive ==
  ASSUME NEW x \in Int, NEW n \in Nat, x * n > 0
  PROVE  x > 0
<1>1. ASSUME x <= 0 PROVE x * n <= 0
  BY <1>1
<1> QED BY <1>1

LEMMA RiskBudget ==
  ASSUME NEW price \in Nat \ {0}, NEW n \in Nat
  PROVE  n <= 1000000 \div price <=> price * n <= 1000000
<1> DEFINE r == 1000000 \div price
           s == 1000000 % price
<1>1. /\ r \in Nat /\ s \in Nat /\ s < price
      /\ 1000000 = price * r + s
  OBVIOUS
<1> HIDE DEF r, s
<1>2. CASE n <= r
  <2>1. price * n <= price * r
    BY <1>1, <1>2
  <2>2. price * n \in Int /\ price * r \in Int
    BY <1>1
  <2>3. price * n <= 1000000
    BY <1>1, <2>1, <2>2
  <2> QED BY <1>2, <2>3 DEF r
<1>3. CASE n > r
  <2>1. n >= r + 1
    BY <1>1, <1>3
  <2>2. price * n >= price * (r + 1)
    BY <1>1, <2>1
  <2>3. price * (r + 1) = price * r + price
    BY <1>1
  <2>4. price * n \in Int /\ price * r \in Int
    BY <1>1
  <2>5. price * n > 1000000
    BY <1>1, <2>2, <2>3, <2>4
  <2> QED BY <1>1, <1>3, <2>4, <2>5 DEF r
<1> QED BY <1>1, <1>2, <1>3

LEMMA LotLimitIs ==
  ASSUME NEW under, NEW conf \in Int, NEW quote, QuoteFields(quote)
  PROVE  LET limits == {LotsForConfidence(conf), MaxLots} \cup RiskLots(under, quote.price)
                         \cup quote.depthLots
             limit  == LotLimit(under, conf, quote)
         IN  limit \in limits /\ limit \in Nat /\ \A other \in limits : limit <= other
<1> DEFINE limits == {LotsForConfidence(conf), MaxLots} \cup RiskLots(under, quote.price)
                       \cup quote.depthLots
<1>1. limits \in SUBSET Nat
  <2>1. RiskLots(under, quote.price) \in SUBSET Nat
    <3>1. CASE quote.price > 0
      <4> DEFINE one == Premium(under, quote.price, 1)
      <4>1. one \in Nat \ {0}
        BY <3>1, PremiumIs DEF QuoteFields
      <4>2. RiskLots(under, quote.price) = {1000000 \div one}
        BY <3>1 DEF RiskLots
      <4> HIDE DEF one
      <4> QED BY <4>1, <4>2
    <3>2. CASE ~(quote.price > 0)
      BY <3>2 DEF RiskLots
    <3> QED BY <3>1, <3>2
  <2> QED BY <2>1, ConfidenceLots DEF QuoteFields, MaxLots
<1>2. limits # {}
  OBVIOUS
<1>3. LotLimit(under, conf, quote) = Min(limits)
  BY DEF LotLimit
<1> HIDE DEF limits
<1>4. limits \in SUBSET Int /\ 0 \in Int /\ \A x \in limits : 0 <= x
  BY <1>1
<1>5. Min(limits) \in limits /\ \A x \in limits : Min(limits) <= x
  BY <1>2, <1>4, MinIs
<1> QED BY <1>1, <1>3, <1>5 DEF limits

\* The lots at which a step down from n ends.
StepsDown(down, account, under, price, limit) ==
  down = [n \in 0..limit |->
            IF n = 0 \/ FitsCapital(account, Premium(under, price, n))
            THEN n ELSE down[n - 1]]

LEMMA DownExists ==
  ASSUME NEW account, NEW under, NEW price, NEW limit \in Nat
  PROVE  \E down : StepsDown(down, account, under, price, limit)
<1> DEFINE Bad == {k \in Nat : ~\E down : StepsDown(down, account, under, price, k)}
           Fits(n) == FitsCapital(account, Premium(under, price, n))
<1>1. SUFFICES ASSUME Bad # {} PROVE FALSE
  OBVIOUS
<1>2. PICK k \in Bad : \A j \in Bad : ~(j < k)
  BY <1>1, NatMin
<1>3. CASE k = 0
  <2> DEFINE d == [j \in 0..0 |-> j]
  <2>1. StepsDown(d, account, under, price, 0)
    BY DEF StepsDown
  <2> QED BY <1>2, <1>3, <2>1
<1>4. CASE k # 0
  <2>1. k - 1 \in Nat /\ k - 1 \notin Bad
    BY <1>2, <1>4
  <2>2. PICK e : StepsDown(e, account, under, price, k - 1)
    BY <2>1
  <2> DEFINE d == [j \in 0..k |-> IF j = 0 \/ Fits(j) THEN j ELSE e[j - 1]]
  <2>3. e = [j \in 0..(k - 1) |-> IF j = 0 \/ Fits(j) THEN j ELSE e[j - 1]]
    BY <2>2 DEF StepsDown
  <2> HIDE DEF Fits
  <2>4. \A j \in 0..(k - 1) : d[j] = e[j]
    BY <2>1, <2>3
  <2>5. \A j \in 0..k : j # 0 => j - 1 \in 0..(k - 1)
    BY <1>2
  <2>6. d = [j \in 0..k |-> IF j = 0 \/ Fits(j) THEN j ELSE d[j - 1]]
    BY <2>4, <2>5
  <2>7. StepsDown(d, account, under, price, k)
    BY <2>6 DEF StepsDown, Fits
  <2> QED BY <1>2, <2>7
<1> QED BY <1>3, <1>4

\* It ends at the greatest number of lots, or at none, that the capital suffices for.
LEMMA DownIs ==
  ASSUME NEW account, NEW under, NEW conf \in Int, NEW quote, QuoteFields(quote)
  PROVE  LET lots    == LotSize(account, under, conf, quote)
             limit   == LotLimit(under, conf, quote)
             fits(n) == FitsCapital(account, Premium(under, quote.price, n))
         IN  /\ lots \in 0..limit /\ (lots = 0 \/ fits(lots))
             /\ \A n \in 0..limit : n > lots => ~fits(n)
<1> DEFINE limit   == LotLimit(under, conf, quote)
           price   == quote.price
           fits(n) == FitsCapital(account, Premium(under, price, n))
           down    == CHOOSE d : StepsDown(d, account, under, price, limit)
           Lowest(n) == /\ down[n] \in 0..n /\ (down[n] = 0 \/ fits(down[n]))
                      /\ \A m \in 0..n : m > down[n] => ~fits(m)
           T       == {n \in 0..limit : Lowest(n)}
<1>1. limit \in Nat
  BY LotLimitIs
<1>2. StepsDown(down, account, under, price, limit)
  <2> HIDE DEF limit
  <2> QED BY <1>1, DownExists
<1>3. LotSize(account, under, conf, quote) = down[limit]
  BY DEF LotSize, StepsDown
<1>4. \A n \in 0..limit : down[n] = IF n = 0 \/ fits(n) THEN n ELSE down[n - 1]
  BY <1>2 DEF StepsDown
<1> HIDE DEF limit, down, fits
<1>5. 0 \in T
  BY <1>1, <1>4
<1>6. ASSUME NEW n \in 0..(limit - 1), n \in T
      PROVE  n + 1 \in T
  <2>1. n + 1 \in 0..limit /\ n + 1 # 0 /\ (n + 1) - 1 = n
    BY <1>1
  <2>2. Lowest(n)
    BY <1>6
  <2>3. CASE fits(n + 1)
    <3>1. down[n + 1] = n + 1
      BY <1>4, <2>1, <2>3
    <3> QED BY <2>1, <2>3, <3>1
  <2>4. CASE ~fits(n + 1)
    <3>1. down[n + 1] = down[n]
      BY <1>4, <2>1, <2>4
    <3>2. down[n + 1] \in 0..(n + 1)
      BY <2>1, <2>2, <3>1
    <3>3. ASSUME NEW m \in 0..(n + 1), m > down[n + 1] PROVE ~fits(m)
      <4>1. CASE m = n + 1
        BY <2>4, <4>1
      <4>2. CASE m # n + 1
        <5>1. m \in 0..n
          BY <2>1, <4>2
        <5> QED BY <2>2, <3>1, <3>3, <5>1
      <4> QED BY <4>1, <4>2
    <3> QED BY <2>1, <2>2, <3>1, <3>2, <3>3
  <2> QED BY <2>3, <2>4
<1> HIDE DEF T
<1>7. \A n \in 0..limit : n \in T
  BY <1>1, <1>5, <1>6, StepByStep
<1>8. Lowest(limit)
  BY <1>1, <1>7 DEF T
<1> QED BY <1>3, <1>8 DEF limit, fits

LEMMA LotSizeIs ==
  ASSUME NEW account, NEW under, NEW conf \in Int, NEW quote, QuoteFields(quote)
  PROVE  LET lots == LotSize(account, under, conf, quote)
         IN  /\ lots \in Nat
             /\ lots > 0 => /\ quote.price > 0
                            /\ LotsWithin(account, under, conf, quote, lots)
                            /\ ~LotsWithin(account, under, conf, quote, lots + 1)
<1> DEFINE limit == LotLimit(under, conf, quote)
           lots  == LotSize(account, under, conf, quote)
           price == quote.price
           one   == Premium(under, price, 1)
<1>1. limit \in Nat
  BY LotLimitIs
<1>2. /\ lots \in 0..limit
      /\ lots = 0 \/ FitsCapital(account, Premium(under, price, lots))
      /\ \A n \in 0..limit : n > lots => ~FitsCapital(account, Premium(under, price, n))
  BY DownIs
<1>3. lots \in Nat /\ lots <= limit
  BY <1>1, <1>2
<1>4. price \in Int
  BY DEF QuoteFields
<1> HIDE DEF lots
<1>5. ASSUME lots > 0
      PROVE  /\ price > 0
             /\ LotsWithin(account, under, conf, quote, lots)
             /\ ~LotsWithin(account, under, conf, quote, lots + 1)
  <2>1. FitsCapital(account, Premium(under, price, lots))
    BY <1>2, <1>3, <1>5
  <2>2. one \in Int /\ one * lots > 0
    BY <1>3, <1>4, <2>1, PremiumIs DEF FitsCapital
  <2>3. one \in Nat \ {0} /\ price > 0
    <3> HIDE DEF one
    <3>1. one > 0
      BY <1>3, <2>2, FactorIsPositive
    <3>2. price > 0
      BY <1>3, <1>4, <3>1, PremiumIs DEF one
    <3> QED BY <2>2, <3>1, <3>2
  <2>4. RiskLots(under, price) = {1000000 \div one}
    BY <2>3 DEF RiskLots
  <2>5. /\ limit \in {LotsForConfidence(conf), MaxLots} \cup RiskLots(under, price)
                       \cup quote.depthLots
        /\ limit <= LotsForConfidence(conf) /\ limit <= MaxLots
        /\ limit <= 1000000 \div one
        /\ \A depthLots \in quote.depthLots : limit <= depthLots
    BY <2>4, LotLimitIs
  <2>6. /\ LotsForConfidence(conf) \in Nat /\ MaxLots \in Nat
        /\ quote.depthLots \in SUBSET Nat /\ 1000000 \div one \in Nat
    <3> HIDE DEF one
    <3> QED BY <2>3, ConfidenceLots DEF QuoteFields, MaxLots
  <2>7. /\ Premium(under, price, lots) = one * lots
        /\ Premium(under, price, lots + 1) = one * (lots + 1)
    BY <1>3, <1>4, PremiumIs
  <2> HIDE DEF limit, one
  <2>8. LotsWithin(account, under, conf, quote, lots)
    <3>1. lots <= 1000000 \div one
      BY <1>1, <1>3, <2>5, <2>6
    <3>2. one * lots <= 1000000
      BY <1>3, <2>3, <3>1, RiskBudget
    <3>3. lots <= MaxLots /\ lots <= LotsForConfidence(conf)
      BY <1>1, <1>3, <2>5, <2>6
    <3>4. \A depthLots \in quote.depthLots : lots <= depthLots
      BY <1>1, <1>3, <2>5, <2>6
    <3> QED BY <2>1, <2>7, <3>2, <3>3, <3>4 DEF LotsWithin
  <2>9. ~LotsWithin(account, under, conf, quote, lots + 1)
    <3>1. SUFFICES ASSUME LotsWithin(account, under, conf, quote, lots + 1)
                   PROVE  FALSE
      OBVIOUS
    <3>2. FitsCapital(account, Premium(under, price, lots + 1))
      BY <3>1 DEF LotsWithin
    <3>3. lots + 1 \in Nat /\ lots + 1 > limit
      <4>1. lots + 1 \in 0..limit => FALSE
        BY <1>2, <1>3, <3>2 DEF limit
      <4> QED BY <1>1, <1>3, <4>1
    <3>4. one * (lots + 1) <= 1000000
      BY <2>7, <3>1 DEF LotsWithin
    <3>5. lots + 1 <= 1000000 \div one
      BY <2>3, <3>3, <3>4, RiskBudget
    <3>6. /\ lots + 1 <= MaxLots /\ lots + 1 <= LotsForConfidence(conf)
          /\ \A depthLots \in quote.depthLots : lots + 1 <= depthLots
      BY <3>1 DEF LotsWithin
    <3>7. lots + 1 <= limit
      BY <2>4, <2>5, <3>5, <3>6
    <3> QED BY <1>1, <3>3, <3>7
  <2> QED BY <2>3, <2>8, <2>9
<1> QED BY <1>3, <1>5 DEF lots

-----------------------------------------------------------------------------
(***************************************************************************)
(* The order: its lots, its premium and the caps of the portfolio.         *)
(***************************************************************************)
OpenType == [under : {"BTC", "ETH"}, side : {1, -1}, premium : Nat]
AccountType ==
  [equity : Int, premiumPct : Nat, exposurePct : Nat,
   open : Seq(OpenType)]

LEMMA DeployedType ==
  ASSUME NEW account \in AccountType
  PROVE  Deployed(account) \in Int /\ account.equity \in Int
         /\ account.premiumPct \in Nat /\ account.exposurePct \in Nat
<1> DEFINE open == account.open
           f    == Column(open, "premium")
<1>1. open \in Seq(OpenType)
  BY DEF AccountType
<1> HIDE DEF open
<1>2. DOMAIN open = 1..Len(open) /\ Len(open) \in Nat
  BY <1>1
<1>3. \A i \in DOMAIN open : f[i] \in Nat
  <2>1. ASSUME NEW i \in DOMAIN open PROVE f[i] \in Nat
    <3>1. open[i] \in OpenType
      BY <1>1, <1>2
    <3> QED BY <3>1 DEF Column, OpenType
  <2> QED BY <2>1
<1>4. IsFiniteSet(DOMAIN open)
  <2>1. IsFiniteSet(1..Len(open))
    BY <1>2, FS_Interval
  <2> QED BY <1>2, <2>1
<1>5. Deployed(account) = SumOver(f, DOMAIN open)
  BY DEF Deployed, SumOf, Column, open
<1> HIDE DEF f
<1>6. SumOver(f, DOMAIN open) \in Nat
  BY <1>3, <1>4, SumNat
<1> QED BY <1>5, <1>6 DEF AccountType

\* Capital that suffices for a premium suffices for a smaller one.
LEMMA CapitalFitsLess ==
  ASSUME NEW account \in AccountType, NEW more \in Int, NEW less \in Int,
         0 < less, less <= more, FitsCapital(account, more)
  PROVE  FitsCapital(account, less)
<1> DEFINE deployed  == Deployed(account)
           available == Available(account)
           share     == account.premiumPct * available
           room      == account.exposurePct * account.equity
<1>1. deployed \in Int /\ available \in Int
  BY DeployedType DEF Available
<1>2. room \in Int
  BY DeployedType
<1>3. share \in Int
  <2>1. account.premiumPct \in Nat
    BY DeployedType
  <2> HIDE DEF available
  <2> QED BY <1>1, <2>1
<1>4. more <= available /\ 100 * more <= share /\ 100 * (deployed + more) <= room
  BY DEF FitsCapital
<1> HIDE DEF deployed, available, share, room
<1>5. less <= available /\ 100 * less <= share /\ 100 * (deployed + less) <= room
  BY <1>1, <1>2, <1>3, <1>4
<1> QED BY <1>5 DEF FitsCapital, deployed, available, share, room

\* The reduction near expiry leaves at least one lot and never adds one.
LEMMA NearExpiryIs ==
  ASSUME NEW sized \in Nat \ {0}, NEW minutes
  PROVE  NearExpiryLots(sized, ExpiryAdjustment(minutes)) \in 1..sized
<1> DEFINE size == ExpiryAdjustment(minutes).size
           part == (sized * size) \div 100
           one  == 1
<1>1. size \in {100, 85, 65, 45, 20}
  BY DEF ExpiryAdjustment
<1>2. part \in Nat /\ part <= sized
  <2> HIDE DEF size
  <2>1. CASE size = 100
    BY <2>1
  <2>2. CASE size = 85
    BY <2>2
  <2>3. CASE size = 65
    BY <2>3
  <2>4. CASE size = 45
    BY <2>4
  <2>5. CASE size = 20
    BY <2>5
  <2> QED BY <1>1, <2>1, <2>2, <2>3, <2>4, <2>5
<1>3. NearExpiryLots(sized, ExpiryAdjustment(minutes)) = Max({one, part})
  BY DEF NearExpiryLots
<1>4. one \in Int /\ one = 1 /\ part \in Int
  BY <1>2
<1> HIDE DEF part, one
<1>5. Max({one, part}) \in {one, part} /\ Max({one, part}) >= one
  BY <1>4, MaxOfTwo
<1> QED BY <1>2, <1>3, <1>4, <1>5

OrderKept(order) ==
  LET within(lots) == LotsWithin(order.account, order.signal.under, order.signal.conf,
                                 order.quote, lots)
  IN  /\ order.quote.price \in Nat \ {0}
      /\ order.sized \in Nat \ {0} /\ order.lots \in 1..order.sized
      /\ within(order.sized) /\ ~within(order.sized + 1) /\ within(order.lots)

\* What is within the limits stays there with fewer lots.
LEMMA FewerLotsWithin ==
  ASSUME NEW account \in AccountType, NEW under, NEW conf \in Int, NEW quote,
         QuoteFields(quote), quote.price > 0,
         NEW sized \in Nat \ {0}, NEW lots \in 1..sized,
         LotsWithin(account, under, conf, quote, sized)
  PROVE  LotsWithin(account, under, conf, quote, lots)
<1> DEFINE one  == Premium(under, quote.price, 1)
           more == Premium(under, quote.price, sized)
           less == Premium(under, quote.price, lots)
<1>1. /\ one \in Int /\ more \in Int /\ less \in Int /\ one > 0
      /\ more = one * sized /\ less = one * lots
  BY PremiumIs DEF QuoteFields
<1> HIDE DEF one, more, less
<1>2. less <= more /\ 0 < less
  BY <1>1
<1>3. /\ sized <= MaxLots /\ sized <= LotsForConfidence(conf) /\ more <= 1000000
      /\ \A depthLots \in quote.depthLots : sized <= depthLots
      /\ FitsCapital(account, more)
  BY DEF LotsWithin, more
<1>4. FitsCapital(account, less)
  BY <1>1, <1>2, <1>3, CapitalFitsLess
<1>5. /\ LotsForConfidence(conf) \in Nat /\ MaxLots \in Nat /\ quote.depthLots \in SUBSET Nat
  BY ConfidenceLots DEF QuoteFields, MaxLots
<1>6. /\ lots <= MaxLots /\ lots <= LotsForConfidence(conf) /\ less <= 1000000
      /\ \A depthLots \in quote.depthLots : lots <= depthLots
  BY <1>1, <1>2, <1>3, <1>5
<1> QED BY <1>4, <1>6 DEF LotsWithin, less

LEMMA OrdersAreKept ==
  ASSUME NEW signal, signal.conf \in Int, NEW account \in AccountType,
         NEW book \in BookType, NEW winPct, NEW noteRaises,
         NEW order \in Orders(signal, account, book, winPct, noteRaises)
  PROVE  OrderKept(order)
<1>1. PICK quote \in EntryQuotes(book, signal.conf, LastPrice, noteRaises) :
        LET sized == SizeEntry(account, signal.under, signal.side, signal.conf, quote)
        IN  /\ order = [signal |-> signal, account |-> account, quote |-> quote,
                        sized |-> sized,
                        lots |-> NearExpiryLots(sized, ExpiryAdjustment(signal.minutes))]
            /\ order.sized > 0
  BY DEF Orders
<1> DEFINE conf  == signal.conf
           under == signal.under
           sized == SizeEntry(account, under, signal.side, conf, quote)
           lots  == LotSize(account, under, conf, quote)
<1>2. QuoteFields(quote)
  BY InputsAssumption, EntryQuoteType DEF QuoteFields
<1>3. /\ lots \in Nat
      /\ lots > 0 => /\ quote.price > 0
                     /\ LotsWithin(account, under, conf, quote, lots)
                     /\ ~LotsWithin(account, under, conf, quote, lots + 1)
  BY <1>2, LotSizeIs
<1>4. sized > 0
  BY <1>1
<1>5. sized = lots
  BY <1>4 DEF SizeEntry
<1>6. /\ order.account = account /\ order.quote = quote /\ order.sized = sized
      /\ order.signal = signal
      /\ order.lots = NearExpiryLots(sized, ExpiryAdjustment(signal.minutes))
  BY <1>1
<1> HIDE DEF sized, lots
<1>7. sized \in Nat \ {0}
  BY <1>3, <1>4, <1>5
<1>8. order.lots \in 1..sized
  BY <1>6, <1>7, NearExpiryIs
<1>9. quote.price \in Nat \ {0}
  BY <1>2, <1>3, <1>4, <1>5 DEF QuoteFields
<1>10. LotsWithin(account, under, conf, quote, order.lots)
  BY <1>2, <1>3, <1>4, <1>5, <1>7, <1>8, FewerLotsWithin
<1> QED BY <1>3, <1>4, <1>5, <1>6, <1>7, <1>8, <1>9, <1>10 DEF OrderKept

\* What the paper broker fills of an order.
FillKept(fill, fetched, asks, lots) ==
  /\ fill.lots \in 1..lots /\ fill.price \in Int
  /\ fetched /\ asks # <<>> =>
       /\ fill.cost = SumOver(LevelCosts(asks, fill.lots), DOMAIN asks)
       /\ 2 * fill.lots >= lots

LEMMA ExtraBpsType ==
  ASSUME NEW price \in Int
  PROVE  WithExtraBps(price) \in Int
BY DEF WithExtraBps

LEMMA FillsAreKept ==
  ASSUME NEW book \in BookType, NEW lots \in Nat \ {0}, NEW reference \in Nat,
         NEW fill \in Fills(book, lots, reference)
  PROVE  FillKept(fill, book.fetched, book.asks, lots)
<1>1. CASE ~book.fetched \/ book.asks = <<>>
  <2> DEFINE paid == reference + (15 * reference) \div 10000
  <2>1. fill = [lots |-> lots, cost |-> lots * reference, price |-> WithExtraBps(paid)]
    BY <1>1 DEF Fills
  <2>2. paid \in Int
    OBVIOUS
  <2>3. WithExtraBps(paid) \in Int
    BY <2>2, ExtraBpsType
  <2> HIDE DEF paid
  <2>4. /\ fill.lots = lots /\ lots \in 1..lots
        /\ fill.price = WithExtraBps(paid)
    BY <2>1
  <2> QED BY <1>1, <2>3, <2>4 DEF FillKept
<1>2. CASE book.fetched /\ book.asks # <<>>
  <2> DEFINE asks == book.asks
             walk == WalkBook(asks, lots)
             paid == walk.cost \div walk.filled
  <2>1. /\ fill = [lots |-> walk.filled, cost |-> walk.cost, price |-> WithExtraBps(paid)]
        /\ ~(2 * walk.filled < lots)
    BY <1>2 DEF Fills
  <2>2. asks \in Seq(LevelType)
    BY DEF BookType
  <2>3. walk \in WalkType /\ FilledIs(walk.filled, asks, lots, Len(asks))
    <3> HIDE DEF asks
    <3> QED BY <2>2, WalkBookFills
  <2>4. walk.cost = SumOver(LevelCosts(asks, walk.filled), DOMAIN asks)
    <3> HIDE DEF asks
    <3> QED BY <2>2, WalkCosts
  <2> HIDE DEF walk
  <2>5. walk.cost \in Nat /\ walk.filled \in Nat /\ walk.filled <= lots
    BY <2>3 DEF WalkType, FilledIs
  <2>6. walk.filled \in 1..lots
    BY <2>1, <2>5
  <2>7. paid \in Int
    BY <2>5, <2>6
  <2>8. WithExtraBps(paid) \in Int
    BY <2>7, ExtraBpsType
  <2> HIDE DEF paid
  <2>9. /\ fill.lots = walk.filled /\ fill.cost = walk.cost
        /\ fill.price = WithExtraBps(paid) /\ 2 * fill.lots >= lots
    BY <2>1, <2>5
  <2>10. fill.lots \in 1..lots /\ fill.price \in Int
    BY <2>6, <2>8, <2>9
  <2>11. fill.cost = SumOver(LevelCosts(asks, fill.lots), DOMAIN asks)
    BY <2>4, <2>9
  <2> QED BY <2>9, <2>10, <2>11 DEF FillKept
<1> QED BY <1>1, <1>2

-----------------------------------------------------------------------------
(***************************************************************************)
(* The confidence of a signal.                                             *)
(***************************************************************************)
ContextKept(c) ==
  /\ c.delta \in DOMAIN DeltaPoints /\ c.gamma \in DOMAIN GammaPoints
  /\ c.iv \in DOMAIN IvPointsDoubled /\ c.spread \in DOMAIN SpreadPoints
  /\ c.option_vwap \in DOMAIN OptionVwapPoints /\ c.volume \in DOMAIN VolumePoints
  /\ c.oi \in DOMAIN OiPoints /\ c.ema \in DOMAIN EmaPoints
  /\ c.theta \in DOMAIN ThetaPoints

LEMMA RoundedDivIs ==
  ASSUME NEW a \in Int, NEW b \in Nat \ {0}
  PROVE  /\ RoundedDiv(a, b) \in Int
         /\ 2 * b * RoundedDiv(a, b) <= 2 * a + b
         /\ 2 * a <= 2 * b * RoundedDiv(a, b) + b
<1> DEFINE q == a \div b
           r == a % b
           up == 2 * r > b \/ (2 * r = b /\ q % 2 = 1)
<1>1. q \in Int /\ r \in Int /\ 0 <= r /\ r < b /\ a = b * q + r
  OBVIOUS
<1>2. RoundedDiv(a, b) = IF up THEN q + 1 ELSE q
  BY DEF RoundedDiv
<1>3. b * (q + 1) = b * q + b /\ b * q \in Int
  BY <1>1
<1>4. CASE up
  <2>1. 2 * r >= b
    BY <1>1, <1>4
  <2>2. RoundedDiv(a, b) = q + 1
    BY <1>2, <1>4
  <2> HIDE DEF q, r, up
  <2>3. 2 * b * (q + 1) = 2 * (b * q) + 2 * b
    BY <1>1
  <2> QED BY <1>1, <1>3, <2>1, <2>2, <2>3
<1>5. CASE ~up
  <2>1. 2 * r <= b
    BY <1>1, <1>5
  <2>2. RoundedDiv(a, b) = q
    BY <1>2, <1>5
  <2> HIDE DEF q, r, up
  <2>3. 2 * b * q = 2 * (b * q)
    BY <1>1
  <2> QED BY <1>1, <1>3, <2>1, <2>2, <2>3
<1> QED BY <1>4, <1>5

LEMMA RawIsInt ==
  ASSUME NEW c, ContextKept(c), NEW side, NEW spot, NEW primary
  PROVE  RawConfidence(side, spot, primary, c) \in Int
<1> DEFINE p1 == IvPointsDoubled[c.iv]
           p2 == SpotVwapPoints(side, spot)
           p3 == RegimePoints(side, primary)
           p4 == OptionVwapPoints[c.option_vwap]
           p5 == VolumePoints[c.volume]
           p6 == OiPoints[c.oi]
           p7 == EmaPoints[c.ema]
           p8 == DeltaPoints[c.delta]
           p9 == GammaPoints[c.gamma]
           p10 == ThetaPoints[c.theta]
           p11 == SpreadPoints[c.spread]
           all == p1 + 2 * (p2 + p3 + p4 + p5 + p6 + p7 + p8 + p9 + p10 + p11)
<1>1. p1 \in Int /\ p2 \in Int /\ p3 \in Int
  BY DEF ContextKept, IvPointsDoubled, SpotVwapPoints, RegimePoints
<1>2. p4 \in Int /\ p5 \in Int /\ p6 \in Int /\ p7 \in Int
  BY DEF ContextKept, OptionVwapPoints, VolumePoints, OiPoints, EmaPoints
<1>3. p8 \in Int /\ p9 \in Int /\ p10 \in Int /\ p11 \in Int
  BY DEF ContextKept, DeltaPoints, GammaPoints, ThetaPoints, SpreadPoints
<1>4. RawConfidence(side, spot, primary, c) = RoundedDiv(all, 2)
  BY DEF RawConfidence
<1> HIDE DEF p1, p2, p3, p4, p5, p6, p7, p8, p9, p10, p11
<1>5. all \in Int
  BY <1>1, <1>2, <1>3
<1> HIDE DEF all
<1>6. RoundedDiv(all, 2) \in Int
  BY <1>5, RoundedDivIs
<1> QED BY <1>4, <1>6

LEMMA ConfidenceType ==
  ASSUME NEW name, NEW side, NEW bias, NEW spot, NEW structure, NEW primary,
         NEW c, ContextKept(c), NEW learned \in [mult : Nat, weak : BOOLEAN]
  PROVE  /\ Confidence(name, side, bias, spot, structure, primary, c, learned) \in Int
         /\ Confidence(name, side, bias, spot, structure, primary, c, learned) <= 100
<1> DEFINE raw == RawConfidence(side, spot, primary, c)
           cap == 64
           capped  == IF bias = 0 /\ name \notin BiasExempt THEN Min({raw, cap}) ELSE raw
           scaled  == capped * learned.mult
           demoted == RoundedDiv(scaled, 100)
           healthy == IF learned.weak THEN RoundedDiv(demoted * 85, 100) ELSE demoted
           change  == IvAdjustment(name, c)
           full    == 100
           least   == Min({full, healthy + change})
           adjusted == Max({0, least})
           bonus   == If(StructureAligned(structure, side), 8)
                      + If(name \in {"vwap_reclaim", "vwap_pullback"}, 5)
                      + If(name \in TrendNames, 4)
<1>1. raw \in Int
  BY RawIsInt
<1>2. cap \in Int /\ full \in Int /\ full = 100
  OBVIOUS
<1>3. learned.mult \in Int /\ learned.weak \in BOOLEAN
  OBVIOUS
<1>4. Confidence(name, side, bias, spot, structure, primary, c, learned)
        = Min({full, adjusted + bonus})
  BY DEF Confidence
<1>5. change \in Int
  BY DEF IvAdjustment, If
<1>6. bonus \in Int
  BY DEF If, StructureAligned
<1> HIDE DEF raw, cap, full, change, bonus
<1>7. capped \in Int
  BY <1>1, <1>2, MinOfTwo
<1> HIDE DEF capped
<1>8. scaled \in Int
  BY <1>3, <1>7
<1> HIDE DEF scaled
<1>9. demoted \in Int
  BY <1>8, RoundedDivIs
<1> HIDE DEF demoted
<1>10. healthy \in Int
  <2>1. demoted * 85 \in Int
    BY <1>9
  <2>2. RoundedDiv(demoted * 85, 100) \in Int
    BY <2>1, RoundedDivIs
  <2> QED BY <1>3, <1>9, <2>2
<1> HIDE DEF healthy
<1>11. least \in Int
  <2>1. healthy + change \in Int
    BY <1>5, <1>10
  <2> QED BY <1>2, <2>1, MinOfTwo
<1> HIDE DEF least
<1>12. adjusted \in Int
  BY <1>11, MaxWithZero
<1> HIDE DEF adjusted
<1>13. adjusted + bonus \in Int
  BY <1>6, <1>12
<1>14. /\ Min({full, adjusted + bonus}) \in {full, adjusted + bonus}
       /\ Min({full, adjusted + bonus}) <= full
  BY <1>2, <1>13, MinOfTwo
<1> QED BY <1>2, <1>4, <1>13, <1>14

LEMMA ClassesAreKnown ==
  ASSUME NEW x
  PROVE  /\ DeltaClass(x) \in DOMAIN DeltaPoints /\ GammaClass(x) \in DOMAIN GammaPoints
         /\ IvClass(x) \in DOMAIN IvPointsDoubled /\ SpreadClass(x) \in DOMAIN SpreadPoints
<1>1. DeltaClass(x) \in DOMAIN DeltaPoints
  BY DEF DeltaClass, DeltaPoints
<1>2. GammaClass(x) \in DOMAIN GammaPoints
  BY DEF GammaClass, GammaPoints
<1>3. IvClass(x) \in DOMAIN IvPointsDoubled
  BY DEF IvClass, IvPointsDoubled
<1>4. SpreadClass(x) \in DOMAIN SpreadPoints
  BY DEF SpreadClass, SpreadPoints
<1> QED BY <1>1, <1>2, <1>3, <1>4

\* A side whose contract is found has a class for every component of the score.
LEMMA ContextsAreKept ==
  ASSUME NEW option \in OptionContexts, NEW market \in Markets, NEW side \in Sides,
         NEW spot, option.contract[side].found
  PROVE  /\ ContextKept(ScoreContext(option, market, side, spot))
         /\ ContextKept(RouterContext(option, market, side, spot))
<1>1. PICK chain \in Chains, minutes \in MinutesLeft, history \in IvHistories :
        option = [contract |-> [s \in Sides |-> ContractOf(chain, s, minutes)],
                  vol      |-> [s \in Sides |-> VolSnapshot(chain, s, minutes, history)]]
  BY DEF OptionContexts
<1> DEFINE contract == option.contract[side]
           vol      == VolAt(option, spot)
           context  == ScoreContext(option, market, side, spot)
<1>2. contract = ContractOf(chain, side, minutes)
  BY <1>1
<1>3. contract.found
  OBVIOUS
<1>4. /\ contract.delta \in DOMAIN DeltaPoints /\ contract.gamma \in DOMAIN GammaPoints
      /\ contract.iv \in DOMAIN IvPointsDoubled /\ contract.spread \in DOMAIN SpreadPoints
  <2> DEFINE pick == PickContract(chain.legs, side, chain.spot, chain.step, minutes)
             leg  == chain.legs[pick]
  <2>1. CASE pick = 0
    <3>1. contract = [found |-> FALSE]
      BY <1>2, <2>1 DEF ContractOf
    <3> QED BY <1>3, <3>1
  <2>2. CASE pick # 0
    <3>1. contract = [found |-> TRUE, under |-> leg.under, delta |-> DeltaClass(leg.delta),
                      gamma |-> GammaClass(leg.gamma), iv |-> IvClass(leg.iv),
                      spread |-> SpreadClass(leg.spread)]
      BY <1>2, <2>2 DEF ContractOf
    <3> HIDE DEF contract, pick
    <3> QED BY <3>1, ClassesAreKnown
  <2> QED BY <2>1, <2>2
<1>5. vol.atm_iv \in DOMAIN IvPointsDoubled
  <2> DEFINE s == IF spot < 0 THEN -1 ELSE 1
  <2>1. s \in Sides
    BY DEF Sides
  <2>2. vol = VolSnapshot(chain, s, minutes, history)
    BY <1>1, <2>1 DEF VolAt
  <2>3. ASSUME NEW t PROVE VolSnapshot(chain, t, minutes, history).atm_iv \in DOMAIN IvPointsDoubled
    <3>1. "unknown" \in DOMAIN IvPointsDoubled
      BY DEF IvPointsDoubled
    <3> QED BY <3>1, ClassesAreKnown DEF VolSnapshot
  <2> QED BY <2>2, <2>3
<1>6. /\ market.option_vwap \in DOMAIN OptionVwapPoints /\ market.volume \in DOMAIN VolumePoints
      /\ market.oi \in DOMAIN OiPoints /\ market.ema \in DOMAIN EmaPoints
      /\ market.theta \in DOMAIN ThetaPoints
  BY InputsAssumption
<1>7. context = [delta |-> contract.delta, gamma |-> contract.gamma, iv |-> contract.iv,
                 spread |-> contract.spread, iv_regime |-> vol.iv_regime,
                 iv_rank |-> vol.iv_rank, atm_iv |-> vol.atm_iv,
                 option_vwap |-> market.option_vwap, volume |-> market.volume,
                 oi |-> market.oi, ema |-> market.ema, theta |-> market.theta]
  BY DEF ScoreContext
<1> HIDE DEF contract, vol, context
<1>8. ContextKept(context)
  BY <1>4, <1>6, <1>7 DEF ContextKept
<1> DEFINE iv == IF context.iv = "unknown" THEN context.atm_iv ELSE context.iv
           routed == RouterContext(option, market, side, spot)
<1>9. routed = [context EXCEPT !.iv = iv]
  BY DEF RouterContext, context
<1>10. iv \in DOMAIN IvPointsDoubled
  BY <1>4, <1>5, <1>7
<1> HIDE DEF iv, routed
<1>11. ContextKept(routed)
  BY <1>4, <1>6, <1>7, <1>9, <1>10 DEF ContextKept
<1> QED BY <1>8, <1>11 DEF context, routed

-----------------------------------------------------------------------------
(***************************************************************************)
(* The router.                                                             *)
(***************************************************************************)
ConfKept(conf) ==
  /\ DOMAIN conf \subseteq Enabled
  /\ \A n \in DOMAIN conf : conf[n] \in Int /\ conf[n] <= 100

LEMMA PositionType ==
  ASSUME NEW n \in Enabled
  PROVE  Position(n) \in Nat
<1>1. EnabledStrategies \in Seq(DOMAIN Family \ {"trend_reversal_flip"})
  BY SignalsAssumption
<1> DEFINE T == DOMAIN Family \ {"trend_reversal_flip"}
<1>2. DOMAIN EnabledStrategies \in SUBSET Nat
  <2> HIDE DEF T
  <2>1. DOMAIN EnabledStrategies = 1..Len(EnabledStrategies) /\ Len(EnabledStrategies) \in Nat
    BY <1>1 DEF T
  <2> QED BY <2>1
<1>3. \E i \in DOMAIN EnabledStrategies : EnabledStrategies[i] = n
  BY DEF Enabled, Range
<1>4. Position(n) \in DOMAIN EnabledStrategies
  BY <1>3 DEF Position
<1> QED BY <1>2, <1>4

\* Of finitely bounded values there is a greatest, and of those with the
\* greatest value one that comes first.
LEMMA BestExists ==
  ASSUME NEW S, S # {}, NEW f, NEW g, NEW bound \in Int,
         \A x \in S : f[x] \in Int /\ f[x] <= bound /\ g[x] \in Nat
  PROVE  \E x \in S : \A y \in S : f[x] > f[y] \/ (f[x] = f[y] /\ g[x] <= g[y])
<1> DEFINE values == {f[x] : x \in S}
           most   == Max(values)
<1>1. values \in SUBSET Int /\ values # {} /\ \A v \in values : v <= bound
  OBVIOUS
<1>2. most \in values /\ \A v \in values : v <= most
  <2> HIDE DEF values
  <2> QED BY <1>1, MaxIs
<1>3. most \in Int /\ \A x \in S : f[x] <= most
  BY <1>1, <1>2
<1>4. \E x \in S : f[x] = most
  BY <1>2
<1> HIDE DEF most, values
<1> DEFINE firsts == {g[x] : x \in {z \in S : f[z] = most}}
           least  == Min(firsts)
<1>5. firsts \in SUBSET Int /\ firsts # {} /\ 0 \in Int /\ \A v \in firsts : 0 <= v
  BY <1>4
<1>6. least \in firsts /\ \A v \in firsts : least <= v
  <2> HIDE DEF firsts
  <2> QED BY <1>5, MinIs
<1>7. PICK x \in S : f[x] = most /\ g[x] = least
  BY <1>6
<1> HIDE DEF least
<1>8. ASSUME NEW y \in S PROVE f[x] > f[y] \/ (f[x] = f[y] /\ g[x] <= g[y])
  <2>1. f[y] \in Int /\ f[y] <= f[x] /\ f[x] \in Int
    BY <1>3, <1>7
  <2>2. CASE f[y] = f[x]
    <3>1. g[y] \in firsts
      BY <1>7, <2>2
    <3> QED BY <1>6, <1>7, <2>2, <3>1
  <2>3. CASE f[y] # f[x]
    BY <2>1, <2>3
  <2> QED BY <2>2, <2>3
<1> QED BY <1>7, <1>8

\* Every family that has a signal has a champion no weaker than it.
LEMMA ChampionOfFamily ==
  ASSUME NEW conf, ConfKept(conf), NEW n \in DOMAIN conf
  PROVE  \E m \in FamilyChampions(conf) : conf[m] >= conf[n]
<1> DEFINE S == FamilyMembers(conf, n)
           g == [x \in S |-> Position(x)]
<1>1. n \in S /\ S \subseteq DOMAIN conf /\ \A x \in S : Family[x] = Family[n]
  BY DEF FamilyMembers
<1>2. \A x \in S : conf[x] \in Int /\ conf[x] <= 100 /\ g[x] \in Nat
  BY <1>1, PositionType DEF ConfKept
<1>3. \E m \in S : \A y \in S : conf[m] > conf[y] \/ (conf[m] = conf[y] /\ g[m] <= g[y])
  <2> DEFINE bound == 100
  <2>1. bound \in Int /\ S # {} /\ \A x \in S : conf[x] <= bound
    BY <1>1, <1>2
  <2> HIDE DEF g, S, bound
  <2> QED BY <1>2, <2>1, BestExists
<1>4. PICK m \in S : \A y \in S : conf[m] > conf[y] \/ (conf[m] = conf[y] /\ g[m] <= g[y])
  BY <1>3
<1>5. FamilyMembers(conf, m) = S
  BY <1>1 DEF FamilyMembers
<1>6. \A y \in S : EarlierOrBetter(conf, m, y)
  BY <1>4 DEF EarlierOrBetter
<1>7. m \in FamilyChampions(conf)
  BY <1>1, <1>5, <1>6 DEF FamilyChampions
<1>8. conf[m] >= conf[n]
  BY <1>1, <1>2, <1>4
<1> QED BY <1>7, <1>8

LEMMA EnteredAtType ==
  ASSUME NEW conf, ConfKept(conf), NEW n \in DOMAIN conf
  PROVE  EnteredAt(conf, n) \in Nat
<1> DEFINE S == {Position(m) : m \in FamilyMembers(conf, n)}
<1>1. FamilyMembers(conf, n) \subseteq Enabled /\ n \in FamilyMembers(conf, n)
  BY DEF FamilyMembers, ConfKept
<1>2. S \in SUBSET Nat /\ S # {}
  BY <1>1, PositionType
<1>3. EnteredAt(conf, n) = Min(S)
  BY DEF EnteredAt
<1> HIDE DEF S
<1>4. S \in SUBSET Int /\ 0 \in Int /\ \A x \in S : 0 <= x
  BY <1>2
<1>5. Min(S) \in S
  BY <1>2, <1>4, MinIs
<1> QED BY <1>2, <1>3, <1>5

LEMMA SelectedIsBest ==
  ASSUME NEW conf, ConfKept(conf)
  PROVE  /\ Selected(conf) \subseteq DOMAIN conf
         /\ \A n \in Selected(conf) : conf[n] >= MinConfidence
         /\ \A n \in Selected(conf), m \in DOMAIN conf : conf[n] >= conf[m]
         /\ (\E n \in DOMAIN conf : conf[n] >= MinConfidence) => Selected(conf) # {}
<1> DEFINE champions == FamilyChampions(conf)
<1>1. champions \subseteq DOMAIN conf
  BY DEF FamilyChampions
<1>2. Selected(conf) \subseteq champions /\ \A n \in Selected(conf) : conf[n] >= MinConfidence
  BY DEF Selected
<1>3. ASSUME NEW n \in Selected(conf), NEW m \in DOMAIN conf
      PROVE  conf[n] >= conf[m]
  <2>1. PICK c \in champions : conf[c] >= conf[m]
    BY ChampionOfFamily
  <2>2. conf[n] > conf[c] \/ conf[n] = conf[c]
    BY DEF Selected
  <2>3. conf[n] \in Int /\ conf[c] \in Int /\ conf[m] \in Int
    BY <1>1, <1>2 DEF ConfKept
  <2> QED BY <2>1, <2>2, <2>3
<1>4. ASSUME NEW n \in DOMAIN conf, conf[n] >= MinConfidence
      PROVE  Selected(conf) # {}
  <2> DEFINE g == [x \in champions |-> EnteredAt(conf, x)]
  <2>1. \A x \in champions : conf[x] \in Int /\ conf[x] <= 100 /\ g[x] \in Nat
    BY <1>1, EnteredAtType DEF ConfKept
  <2>2. PICK c \in champions : conf[c] >= conf[n]
    BY ChampionOfFamily
  <2>3. \E x \in champions : \A y \in champions :
          conf[x] > conf[y] \/ (conf[x] = conf[y] /\ g[x] <= g[y])
    <3> DEFINE bound == 100
    <3>1. bound \in Int /\ champions # {} /\ \A x \in champions : conf[x] <= bound
      BY <2>1, <2>2
    <3> HIDE DEF g, champions, bound
    <3> QED BY <2>1, <3>1, BestExists
  <2>4. PICK x \in champions : \A y \in champions :
          conf[x] > conf[y] \/ (conf[x] = conf[y] /\ g[x] <= g[y])
    BY <2>3
  <2>5. conf[x] >= MinConfidence
    <3>1. conf[x] \in Int /\ conf[c] \in Int /\ conf[n] \in Int
      BY <1>1 DEF ConfKept
    <3>2. conf[x] >= conf[c]
      BY <2>4, <3>1
    <3> QED BY <1>4, <2>2, <3>1, <3>2 DEF MinConfidence
  <2>6. x \in Selected(conf)
    BY <2>4, <2>5 DEF Selected
  <2> QED BY <2>6
<1> QED BY <1>1, <1>2, <1>3, <1>4

-----------------------------------------------------------------------------
(***************************************************************************)
(* The market regime.                                                      *)
(***************************************************************************)
LEMMA RegimesAre ==
  /\ Regimes = {"trending_up", "trending_down", "sideways", "high_volatility",
                "low_volatility", "breakout", "opening_range", "expiry_behaviour"}
  /\ DOMAIN RegimeKeys = 1..8
  /\ \A i \in 1..8 : RegimeKeys[i] \in Regimes
  /\ \A k \in Regimes : \E i \in 1..8 : RegimeKeys[i] = k
<1>1. DOMAIN RegimeKeys = 1..8
  BY DEF RegimeKeys
<1>2. /\ RegimeKeys[1] = "trending_up" /\ RegimeKeys[2] = "trending_down"
      /\ RegimeKeys[3] = "sideways" /\ RegimeKeys[4] = "high_volatility"
      /\ RegimeKeys[5] = "low_volatility" /\ RegimeKeys[6] = "breakout"
      /\ RegimeKeys[7] = "opening_range" /\ RegimeKeys[8] = "expiry_behaviour"
  BY DEF RegimeKeys
<1>3. Regimes = {RegimeKeys[i] : i \in 1..8}
  BY <1>1 DEF Regimes, Range
<1>4. 1..8 = {1, 2, 3, 4, 5, 6, 7, 8}
  OBVIOUS
<1> QED BY <1>1, <1>2, <1>3, <1>4

LEMMA AddKey ==
  ASSUME NEW f, NEW T, IsFiniteSet(T), NEW k, k \notin T,
         \A x \in T \cup {k} : f[x] \in Int
  PROVE  /\ SumOver(f, T \cup {k}) = SumOver(f, T) + f[k]
         /\ IsFiniteSet(T \cup {k})
<1>1. IsFiniteSet(T \cup {k})
  BY FS_AddElement
<1>2. k \in T \cup {k} /\ (T \cup {k}) \ {k} = T
  OBVIOUS
<1> QED BY <1>1, <1>2, SumRemove

LEMMA SumOfRegimes ==
  ASSUME NEW f, \A k \in Regimes : f[k] \in Int
  PROVE  SumOver(f, Regimes) =
           f["trending_up"] + f["trending_down"] + f["sideways"] + f["high_volatility"]
           + f["low_volatility"] + f["breakout"] + f["opening_range"] + f["expiry_behaviour"]
<1> DEFINE S0 == {}
           S1 == S0 \cup {"trending_up"}
           S2 == S1 \cup {"trending_down"}
           S3 == S2 \cup {"sideways"}
           S4 == S3 \cup {"high_volatility"}
           S5 == S4 \cup {"low_volatility"}
           S6 == S5 \cup {"breakout"}
           S7 == S6 \cup {"opening_range"}
           S8 == S7 \cup {"expiry_behaviour"}
<1>1. S8 = Regimes
  BY RegimesAre
<1>2. \A x \in S8 : f[x] \in Int
  BY <1>1
<1>3. SumOver(f, S0) = 0 /\ IsFiniteSet(S0)
  BY SumEmpty, FS_EmptySet
<1>4. SumOver(f, S1) = SumOver(f, S0) + f["trending_up"] /\ IsFiniteSet(S1)
  <2>1. "trending_up" \notin S0 /\ \A x \in S0 \cup {"trending_up"} : f[x] \in Int
    BY <1>2
  <2> HIDE DEF S0
  <2> QED BY <1>3, <2>1, AddKey
<1>5. SumOver(f, S2) = SumOver(f, S1) + f["trending_down"] /\ IsFiniteSet(S2)
  <2>1. "trending_down" \notin S1 /\ \A x \in S1 \cup {"trending_down"} : f[x] \in Int
    BY <1>2
  <2> HIDE DEF S1
  <2> QED BY <1>4, <2>1, AddKey
<1>6. SumOver(f, S3) = SumOver(f, S2) + f["sideways"] /\ IsFiniteSet(S3)
  <2>1. "sideways" \notin S2 /\ \A x \in S2 \cup {"sideways"} : f[x] \in Int
    BY <1>2
  <2> HIDE DEF S2
  <2> QED BY <1>5, <2>1, AddKey
<1>7. SumOver(f, S4) = SumOver(f, S3) + f["high_volatility"] /\ IsFiniteSet(S4)
  <2>1. "high_volatility" \notin S3 /\ \A x \in S3 \cup {"high_volatility"} : f[x] \in Int
    BY <1>2
  <2> HIDE DEF S3
  <2> QED BY <1>6, <2>1, AddKey
<1>8. SumOver(f, S5) = SumOver(f, S4) + f["low_volatility"] /\ IsFiniteSet(S5)
  <2>1. "low_volatility" \notin S4 /\ \A x \in S4 \cup {"low_volatility"} : f[x] \in Int
    BY <1>2
  <2> HIDE DEF S4
  <2> QED BY <1>7, <2>1, AddKey
<1>9. SumOver(f, S6) = SumOver(f, S5) + f["breakout"] /\ IsFiniteSet(S6)
  <2>1. "breakout" \notin S5 /\ \A x \in S5 \cup {"breakout"} : f[x] \in Int
    BY <1>2
  <2> HIDE DEF S5
  <2> QED BY <1>8, <2>1, AddKey
<1>10. SumOver(f, S7) = SumOver(f, S6) + f["opening_range"] /\ IsFiniteSet(S7)
  <2>1. "opening_range" \notin S6 /\ \A x \in S6 \cup {"opening_range"} : f[x] \in Int
    BY <1>2
  <2> HIDE DEF S6
  <2> QED BY <1>9, <2>1, AddKey
<1>11. SumOver(f, S8) = SumOver(f, S7) + f["expiry_behaviour"] /\ IsFiniteSet(S8)
  <2>1. "expiry_behaviour" \notin S7 /\ \A x \in S7 \cup {"expiry_behaviour"} : f[x] \in Int
    BY <1>2
  <2> HIDE DEF S7
  <2> QED BY <1>10, <2>1, AddKey
<1>12. /\ f["trending_up"] \in Int /\ f["trending_down"] \in Int /\ f["sideways"] \in Int
       /\ f["high_volatility"] \in Int /\ f["low_volatility"] \in Int
       /\ f["breakout"] \in Int /\ f["opening_range"] \in Int
       /\ f["expiry_behaviour"] \in Int
  BY RegimesAre
<1> HIDE DEF S0, S1, S2, S3, S4, S5, S6, S7, S8
<1> QED BY <1>1, <1>3, <1>4, <1>5, <1>6, <1>7, <1>8, <1>9, <1>10, <1>11, <1>12

LEMMA AbsBounds ==
  ASSUME NEW x \in Int
  PROVE  Abs(x) \in Nat /\ x <= Abs(x)
BY DEF Abs

LEMMA FirstGreatestIs ==
  ASSUME NEW f, \A k \in Regimes : f[k] \in Int
  PROVE  FirstGreatest(f) \in Regimes /\ \A k \in Regimes : f[k] <= f[FirstGreatest(f)]
<1> DEFINE bound == Abs(f["trending_up"]) + Abs(f["trending_down"]) + Abs(f["sideways"])
                    + Abs(f["high_volatility"]) + Abs(f["low_volatility"])
                    + Abs(f["breakout"]) + Abs(f["opening_range"])
                    + Abs(f["expiry_behaviour"])
           values == {f[k] : k \in Regimes}
           those  == {i \in DOMAIN RegimeKeys :
                        \A k \in Regimes : f[k] <= f[RegimeKeys[i]]}
<1>1. /\ f["trending_up"] \in Int /\ f["trending_down"] \in Int /\ f["sideways"] \in Int
      /\ f["high_volatility"] \in Int /\ f["low_volatility"] \in Int
      /\ f["breakout"] \in Int /\ f["opening_range"] \in Int
      /\ f["expiry_behaviour"] \in Int
  BY RegimesAre
<1>2. bound \in Int /\ \A k \in Regimes : f[k] <= bound
  <2> DEFINE a1 == Abs(f["trending_up"])
             a2 == Abs(f["trending_down"])
             a3 == Abs(f["sideways"])
             a4 == Abs(f["high_volatility"])
             a5 == Abs(f["low_volatility"])
             a6 == Abs(f["breakout"])
             a7 == Abs(f["opening_range"])
             a8 == Abs(f["expiry_behaviour"])
  <2>1. a1 \in Nat /\ f["trending_up"] <= a1
    BY <1>1, AbsBounds
  <2>2. a2 \in Nat /\ f["trending_down"] <= a2
    BY <1>1, AbsBounds
  <2>3. a3 \in Nat /\ f["sideways"] <= a3
    BY <1>1, AbsBounds
  <2>4. a4 \in Nat /\ f["high_volatility"] <= a4
    BY <1>1, AbsBounds
  <2>5. a5 \in Nat /\ f["low_volatility"] <= a5
    BY <1>1, AbsBounds
  <2>6. a6 \in Nat /\ f["breakout"] <= a6
    BY <1>1, AbsBounds
  <2>7. a7 \in Nat /\ f["opening_range"] <= a7
    BY <1>1, AbsBounds
  <2>8. a8 \in Nat /\ f["expiry_behaviour"] <= a8
    BY <1>1, AbsBounds
  <2>9. bound = a1 + a2 + a3 + a4 + a5 + a6 + a7 + a8
    OBVIOUS
  <2> HIDE DEF a1, a2, a3, a4, a5, a6, a7, a8, bound
  <2>10. bound \in Int /\ bound >= a1 /\ bound >= a2 /\ bound >= a3 /\ bound >= a4
         /\ bound >= a5 /\ bound >= a6 /\ bound >= a7 /\ bound >= a8
    BY <2>1, <2>2, <2>3, <2>4, <2>5, <2>6, <2>7, <2>8, <2>9
  <2>11. ASSUME NEW k \in Regimes PROVE f[k] <= bound
    BY <1>1, <2>1, <2>2, <2>3, <2>4, <2>5, <2>6, <2>7, <2>8, <2>10, RegimesAre
  <2> QED BY <2>10, <2>11
<1> HIDE DEF bound
<1>3. values \in SUBSET Int /\ values # {} /\ \A v \in values : v <= bound
  BY <1>2, RegimesAre
<1>4. Max(values) \in values /\ \A v \in values : v <= Max(values)
  <2> HIDE DEF values
  <2> QED BY <1>2, <1>3, MaxIs
<1>5. PICK k \in Regimes : \A j \in Regimes : f[j] <= f[k]
  BY <1>4
<1>6. PICK i \in 1..8 : RegimeKeys[i] = k
  BY <1>5, RegimesAre
<1>7. i \in those /\ those \in SUBSET Int /\ 0 \in Int /\ \A x \in those : 0 <= x
  BY <1>5, <1>6, RegimesAre
<1>8. Min(those) \in those
  <2> HIDE DEF those
  <2> QED BY <1>7, MinIs
<1>9. FirstGreatest(f) = RegimeKeys[Min(those)]
  BY DEF FirstGreatest
<1> QED BY <1>8, <1>9, RegimesAre

LEMMA Cancel ==
  ASSUME NEW t \in Nat \ {0}, NEW x \in Int, NEW y \in Int, t * x <= t * y
  PROVE  x <= y
<1>1. SUFFICES ASSUME x >= y + 1 PROVE FALSE
  OBVIOUS
<1>2. t * x >= t * (y + 1)
  BY <1>1
<1>3. t * (y + 1) = t * y + t
  OBVIOUS
<1>4. t * x \in Int /\ t * y \in Int
  OBVIOUS
<1> QED BY <1>2, <1>3, <1>4

\* The score of every regime and their total.
ScoresKept(scores) ==
  /\ \A k \in Regimes : scores[k] \in Nat
  /\ SumOver(scores, Regimes) \in 1..400

\* A regime that leads another one by ten points keeps ahead of it in the
\* probabilities, wherever the rounding error goes.
LEMMA LeadIsKept ==
  ASSUME NEW scores, ScoresKept(scores)
  PROVE  /\ \A k \in Regimes : Probabilities(scores)[k] \in Int
         /\ \A a, b \in Regimes :
              scores[a] >= scores[b] + 10 => Probabilities(scores)[a] > Probabilities(scores)[b]
<1> DEFINE total   == SumOver(scores, Regimes)
           rounded == [k \in Regimes |-> RoundedDiv(10000 * scores[k], total)]
           sum     == SumOver(rounded, Regimes)
           error   == 10000 - sum
           first   == FirstGreatest(rounded)
           probs   == [rounded EXCEPT ![first] = @ + 10000 - sum]
<1>1. total \in Nat \ {0} /\ total <= 400
  BY DEF ScoresKept
<1>2. \A k \in Regimes : scores[k] \in Nat
  BY DEF ScoresKept
<1>3. Probabilities(scores) = probs
  BY DEF Probabilities
<1>4. total = scores["trending_up"] + scores["trending_down"] + scores["sideways"]
              + scores["high_volatility"] + scores["low_volatility"] + scores["breakout"]
              + scores["opening_range"] + scores["expiry_behaviour"]
  BY <1>2, SumOfRegimes
<1> HIDE DEF total
<1>5. ASSUME NEW k \in Regimes
      PROVE  /\ rounded[k] \in Int
             /\ 2 * (total * rounded[k]) <= 20000 * scores[k] + total
             /\ 20000 * scores[k] <= 2 * (total * rounded[k]) + total
  <2> DEFINE s == 10000 * scores[k]
             r == RoundedDiv(s, total)
  <2>1. s \in Int /\ scores[k] \in Nat /\ 2 * s = 20000 * scores[k]
    BY <1>2
  <2>2. rounded[k] = r
    OBVIOUS
  <2> HIDE DEF s, rounded
  <2>3. /\ r \in Int /\ 2 * total * r <= 2 * s + total /\ 2 * s <= 2 * total * r + total
    <3>1. s \in Int /\ total \in Nat \ {0}
      BY <1>1, <2>1
    <3> QED BY <3>1, RoundedDivIs, Zenon
  <2> HIDE DEF r
  <2>4. 2 * total * r = 2 * (total * r)
    BY <1>1, <2>3
  <2> QED BY <2>1, <2>2, <2>3, <2>4
<1> HIDE DEF rounded
<1>6. sum = rounded["trending_up"] + rounded["trending_down"] + rounded["sideways"]
            + rounded["high_volatility"] + rounded["low_volatility"] + rounded["breakout"]
            + rounded["opening_range"] + rounded["expiry_behaviour"]
  BY <1>5, SumOfRegimes
<1> HIDE DEF sum
<1>7. sum \in Int /\ error \in Int /\ error <= 4 /\ error >= -4
  <2> DEFINE r1 == rounded["trending_up"]
             r2 == rounded["trending_down"]
             r3 == rounded["sideways"]
             r4 == rounded["high_volatility"]
             r5 == rounded["low_volatility"]
             r6 == rounded["breakout"]
             r7 == rounded["opening_range"]
             r8 == rounded["expiry_behaviour"]
             s1 == scores["trending_up"]
             s2 == scores["trending_down"]
             s3 == scores["sideways"]
             s4 == scores["high_volatility"]
             s5 == scores["low_volatility"]
             s6 == scores["breakout"]
             s7 == scores["opening_range"]
             s8 == scores["expiry_behaviour"]
             t1 == total * r1
             t2 == total * r2
             t3 == total * r3
             t4 == total * r4
             t5 == total * r5
             t6 == total * r6
             t7 == total * r7
             t8 == total * r8
  <2>1. /\ r1 \in Int /\ r2 \in Int /\ r3 \in Int /\ r4 \in Int
        /\ r5 \in Int /\ r6 \in Int /\ r7 \in Int /\ r8 \in Int
    BY <1>5, RegimesAre
  <2>2. /\ s1 \in Int /\ s2 \in Int /\ s3 \in Int /\ s4 \in Int
        /\ s5 \in Int /\ s6 \in Int /\ s7 \in Int /\ s8 \in Int
    BY <1>2, RegimesAre
  <2>3. /\ 2 * t1 <= 20000 * s1 + total /\ 20000 * s1 <= 2 * t1 + total
        /\ 2 * t2 <= 20000 * s2 + total /\ 20000 * s2 <= 2 * t2 + total
        /\ 2 * t3 <= 20000 * s3 + total /\ 20000 * s3 <= 2 * t3 + total
        /\ 2 * t4 <= 20000 * s4 + total /\ 20000 * s4 <= 2 * t4 + total
        /\ 2 * t5 <= 20000 * s5 + total /\ 20000 * s5 <= 2 * t5 + total
        /\ 2 * t6 <= 20000 * s6 + total /\ 20000 * s6 <= 2 * t6 + total
        /\ 2 * t7 <= 20000 * s7 + total /\ 20000 * s7 <= 2 * t7 + total
        /\ 2 * t8 <= 20000 * s8 + total /\ 20000 * s8 <= 2 * t8 + total
    BY <1>5, RegimesAre
  <2>4. sum = r1 + r2 + r3 + r4 + r5 + r6 + r7 + r8
    BY <1>6
  <2>5. total = s1 + s2 + s3 + s4 + s5 + s6 + s7 + s8
    BY <1>4
  <2> HIDE DEF r1, r2, r3, r4, r5, r6, r7, r8, s1, s2, s3, s4, s5, s6, s7, s8
  <2>6. sum \in Int
    BY <2>1, <2>4
  <2>7. total * sum = t1 + t2 + t3 + t4 + t5 + t6 + t7 + t8
    BY <1>1, <2>1, <2>4
  <2>8. /\ t1 \in Int /\ t2 \in Int /\ t3 \in Int /\ t4 \in Int
        /\ t5 \in Int /\ t6 \in Int /\ t7 \in Int /\ t8 \in Int
    BY <1>1, <2>1
  <2> HIDE DEF t1, t2, t3, t4, t5, t6, t7, t8
  <2>9. total * sum <= 10004 * total /\ 9996 * total <= total * sum
    <3>1. total * sum \in Int
      BY <1>1, <2>6
    <3>2. 2 * (total * sum) <= 20000 * total + 8 * total
      BY <1>1, <2>2, <2>3, <2>5, <2>7, <2>8
    <3>3. 20000 * total <= 2 * (total * sum) + 8 * total
      BY <1>1, <2>2, <2>3, <2>5, <2>7, <2>8
    <3> QED BY <1>1, <3>1, <3>2, <3>3
  <2>10. sum <= 10004
    <3>1. total * sum <= total * 10004
      BY <1>1, <2>9
    <3> QED BY <1>1, <2>6, <3>1, Cancel
  <2>11. 9996 <= sum
    <3>1. total * 9996 <= total * sum
      BY <1>1, <2>9
    <3> QED BY <1>1, <2>6, <3>1, Cancel
  <2> QED BY <2>6, <2>10, <2>11
<1>8. first \in Regimes /\ \A k \in Regimes : rounded[k] <= rounded[first]
  BY <1>5, FirstGreatestIs
<1>9. \A k \in Regimes : probs[k] = IF k = first THEN rounded[k] + error ELSE rounded[k]
  <2>1. DOMAIN rounded = Regimes
    BY DEF rounded
  <2>2. rounded[first] \in Int
    BY <1>5, <1>8
  <2> HIDE DEF first
  <2> QED BY <1>7, <2>1, <2>2
<1> HIDE DEF first, probs, error
<1>10. \A k \in Regimes : probs[k] \in Int
  BY <1>5, <1>7, <1>9
<1>11. ASSUME NEW a \in Regimes, NEW b \in Regimes, scores[a] >= scores[b] + 10
       PROVE  probs[a] > probs[b]
  <2> DEFINE ra == rounded[a]
             rb == rounded[b]
             ta == total * ra
             tb == total * rb
  <2>1. ra \in Int /\ rb \in Int /\ scores[a] \in Nat /\ scores[b] \in Nat
    BY <1>2, <1>5
  <2>2. /\ 2 * tb <= 20000 * scores[b] + total /\ 20000 * scores[a] <= 2 * ta + total
    BY <1>5
  <2> HIDE DEF ra, rb
  <2>3. ta \in Int /\ tb \in Int /\ total * (rb + 10) = tb + 10 * total
    BY <1>1, <2>1
  <2> HIDE DEF ta, tb
  <2>4. tb + 10 * total <= ta
    BY <1>1, <1>11, <2>1, <2>2, <2>3
  <2>5. rb + 10 <= ra
    <3>1. total * (rb + 10) <= total * ra /\ rb + 10 \in Int
      BY <2>1, <2>3, <2>4 DEF ta
    <3> QED BY <1>1, <2>1, <3>1, Cancel
  <2>6. b # first
    BY <1>8, <2>1, <2>5 DEF ra, rb
  <2>7. probs[b] = rb
    BY <1>9, <2>6 DEF rb
  <2>8. probs[a] = ra \/ probs[a] = ra + error
    BY <1>9 DEF ra
  <2> QED BY <1>7, <2>1, <2>5, <2>7, <2>8
<1> QED BY <1>3, <1>10, <1>11

LEMMA RegimeScoresKept ==
  ASSUME NEW bias \in {-1, 0, 1}, NEW structure, NEW tight, NEW spot, NEW setting
  PROVE  LET scores == RegimeScores(bias, structure, tight, spot, setting)
         IN  /\ ScoresKept(scores)
             /\ bias = 1  => scores["trending_up"] >= scores["trending_down"] + 10
             /\ bias = -1 => scores["trending_down"] >= scores["trending_up"] + 10
<1> DEFINE scores == RegimeScores(bias, structure, tight, spot, setting)
           s1 == scores["trending_up"]
           s2 == scores["trending_down"]
           s3 == scores["sideways"]
           s4 == scores["high_volatility"]
           s5 == scores["low_volatility"]
           s6 == scores["breakout"]
           s7 == scores["opening_range"]
           s8 == scores["expiry_behaviour"]
<1>1. s1 = If(bias = 1, 30) + If(structure = 1, 20)
  BY DEF RegimeScores, StructurePoints
<1>2. s2 = If(bias = -1, 30) + If(structure = -1, 20)
  BY DEF RegimeScores, StructurePoints
<1>3. s3 = If(bias = 0, 20) + If(structure = 0, 25)
           + If(tight /\ structure = 0, 30) + If(setting.phase = "late", 10)
  BY DEF RegimeScores
<1>4. s4 = If(setting.vol = "high", 35) + If(setting.vol = "mid", 8)
  BY DEF RegimeScores
<1>5. s5 = If(setting.vol = "low", 30) + If(setting.vol = "mid", 8)
  BY DEF RegimeScores
<1>6. s6 = If(Abs(spot) >= 18 /\ bias # 0, 20)
  BY DEF RegimeScores
<1>7. s7 = If(setting.phase = "open", 25)
  BY DEF RegimeScores
<1>8. s8 = If(setting.expiry, 30)
  BY DEF RegimeScores
<1> HIDE DEF scores, s1, s2, s3, s4, s5, s6, s7, s8
<1>9. s1 \in 0..50 /\ (bias = 1 => s1 >= 30) /\ (bias = -1 => s1 <= 20)
  BY <1>1 DEF If
<1>10. s2 \in 0..50 /\ (bias = -1 => s2 >= 30) /\ (bias = 1 => s2 <= 20)
  BY <1>2 DEF If
<1>11. s3 \in 0..85 /\ (bias = 0 => s3 >= 20)
  BY <1>3 DEF If
<1>12. s4 \in 0..43 /\ s5 \in 0..38
  BY <1>4, <1>5 DEF If
<1>13. s6 \in 0..20 /\ s7 \in 0..25
  BY <1>6, <1>7 DEF If
<1>14. s8 \in 0..30
  BY <1>8 DEF If
<1>15. \A k \in Regimes : scores[k] \in Nat
  BY <1>9, <1>10, <1>11, <1>12, <1>13, <1>14, RegimesAre
     DEF s1, s2, s3, s4, s5, s6, s7, s8
<1>16. SumOver(scores, Regimes) = s1 + s2 + s3 + s4 + s5 + s6 + s7 + s8
  BY <1>15, SumOfRegimes DEF s1, s2, s3, s4, s5, s6, s7, s8
<1>17. SumOver(scores, Regimes) \in 1..400
  BY <1>9, <1>10, <1>11, <1>12, <1>13, <1>14, <1>16
<1>18. ScoresKept(scores)
  BY <1>15, <1>17 DEF ScoresKept
<1>19. bias = 1 => s1 >= s2 + 10
  BY <1>9, <1>10
<1>20. bias = -1 => s2 >= s1 + 10
  BY <1>9, <1>10
<1> QED BY <1>18, <1>19, <1>20 DEF scores, s1, s2

\* The regime is never a trend against the bias.
LEMMA PrimaryFollowsBias ==
  ASSUME NEW bias \in {-1, 0, 1}, NEW structure, NEW tight, NEW spot, NEW setting
  PROVE  LET primary == Primary(RegimeScores(bias, structure, tight, spot, setting))
         IN  /\ primary \in Regimes
             /\ bias = 1  => primary # "trending_down"
             /\ bias = -1 => primary # "trending_up"
<1> DEFINE scores  == RegimeScores(bias, structure, tight, spot, setting)
           probs   == Probabilities(scores)
           primary == Primary(scores)
<1>1. /\ ScoresKept(scores)
      /\ bias = 1  => scores["trending_up"] >= scores["trending_down"] + 10
      /\ bias = -1 => scores["trending_down"] >= scores["trending_up"] + 10
  BY RegimeScoresKept
<1>2. "trending_up" \in Regimes /\ "trending_down" \in Regimes
  BY RegimesAre
<1> HIDE DEF scores
<1>3. /\ \A k \in Regimes : probs[k] \in Int
      /\ bias = 1  => probs["trending_up"] > probs["trending_down"]
      /\ bias = -1 => probs["trending_down"] > probs["trending_up"]
  BY <1>1, <1>2, LeadIsKept
<1>4. primary = FirstGreatest(probs)
  BY DEF Primary
<1> HIDE DEF probs, primary
<1>5. primary \in Regimes /\ \A k \in Regimes : probs[k] <= probs[primary]
  BY <1>3, <1>4, FirstGreatestIs
<1>6. /\ bias = 1  => primary # "trending_down"
      /\ bias = -1 => primary # "trending_up"
  BY <1>2, <1>3, <1>5
<1> QED BY <1>5, <1>6 DEF primary, scores

-----------------------------------------------------------------------------
(***************************************************************************)
(* The invariant: what every stage hands to the next one.                  *)
(***************************************************************************)
Stages == {"feed", "bars", "regime", "score", "routed", "entry", "order", "filled",
           "hold", "exit", "flip", "flip_score"}

RegimeKept(w) == w.bias \in {-1, 0, 1} /\ \A n \in Enabled : w.setups[n] \in {-1, 0, 1}

ScoreKept(w) ==
  /\ DOMAIN w.sides \subseteq Enabled /\ w.primary \in Regimes
  /\ \A n \in DOMAIN w.sides :
       /\ w.sides[n] \in Sides
       /\ n \notin BiasExempt => w.primary # Opposite(w.sides[n])

RoutedKept(w) ==
  /\ ConfKept(w.conf)
  /\ \A n \in DOMAIN w.conf :
       w.tradable[n].conf = Level(w.conf[n]) /\ w.tradable[n].side \in Sides

EntryKept(w)  == w.conf \in ConfidenceLevels \ {0} /\ w.side \in Sides
FilledKept(w) ==
  w.lots \in Nat \ {0} /\ w.units \in Nat /\ FillKept(w.fill, w.fetched, w.asks, w.lots)
HoldKept(w) ==
  w \in Position2 /\ w.held \in Range(Instants) /\ (w.fee > 0 => w.seen)

Kept(s, w) ==
  /\ s = "regime" => RegimeKept(w)
  /\ s = "score"  => ScoreKept(w)
  /\ s = "routed" => RoutedKept(w)
  /\ s = "entry"  => EntryKept(w)
  /\ s = "order"  => OrderKept(w)
  /\ s = "filled" => FilledKept(w)
  /\ s = "hold"   => HoldKept(w)

TradeInv ==
  feed \in FeedType /\ BarsOfMarkedMinute /\ stage \in Stages /\ Kept(stage, work)

LEMMA InitIsKept == Init => TradeInv
<1> SUFFICES ASSUME Init PROVE TradeInv
  OBVIOUS
<1>1. feed \in FeedType /\ feed.done = FALSE
  BY BackfilledType DEF Init
<1> QED BY <1>1 DEF Init, TradeInv, Kept, Stages, BarsOfMarkedMinute

LEMMA BackToFeedKeeps ==
  ASSUME BackToFeed
  PROVE  TradeInv'
<1>1. feed' \in FeedType /\ feed'.done = FALSE
  BY BackfilledType DEF BackToFeed
<1>2. stage' = "feed"
  BY DEF BackToFeed
<1>3. stage' \in Stages /\ Kept(stage', work')
  BY <1>2 DEF Kept, Stages
<1>4. BarsOfMarkedMinute'
  BY <1>1 DEF BarsOfMarkedMinute
<1> QED BY <1>1, <1>3, <1>4 DEF TradeInv

LEMMA FeedMovesKeeps ==
  ASSUME TradeInv, FeedMoves
  PROVE  TradeInv'
<1>1. feed' \in FeedType /\ BarsOfMarkedMinute'
  BY FeedStepKeeps DEF TradeInv, FeedMoves
<1>2. stage' = stage /\ work' = work
  BY DEF FeedMoves
<1> QED BY <1>1, <1>2 DEF TradeInv

LEMMA AdmitKeeps ==
  ASSUME Admit
  PROVE  TradeInv'
<1>1. feed' \in FeedType /\ feed'.done = FALSE
  BY UnwatchedType DEF Admit
<1>2. stage' = "bars"
  BY DEF Admit
<1>3. stage' \in Stages /\ Kept(stage', work')
  BY <1>2 DEF Kept, Stages
<1>4. BarsOfMarkedMinute'
  BY <1>1 DEF BarsOfMarkedMinute
<1> QED BY <1>1, <1>3, <1>4 DEF TradeInv

\* A step that goes on with the trade leaves the feed alone.
LEMMA ContinueKeeps ==
  ASSUME TradeInv, NEW s \in Stages, NEW w, Kept(s, w), Continue(s, w)
  PROVE  TradeInv'
<1>1. stage' = s /\ work' = w /\ feed' = feed
  BY DEF Continue
<1>2. stage' \in Stages /\ Kept(stage', work')
  BY <1>1
<1>3. feed' \in FeedType /\ BarsOfMarkedMinute'
  BY <1>1 DEF TradeInv, BarsOfMarkedMinute
<1> QED BY <1>2, <1>3 DEF TradeInv

LEMMA DirectionsAre ==
  ASSUME NEW m1
  PROVE  /\ Bias(m1) \in {-1, 0, 1}
         /\ FreshCross(m1) \in {-1, 0, 1}
         /\ \A x : Sign(x) \in {-1, 0, 1}
BY DEF Bias, FreshCross, Sign

LEMMA SetupsAre ==
  ASSUME NEW m1, NEW m3, NEW spot, NEW broken \in {-1, 0, 1}
  PROVE  \A n \in Enabled : Setups(m1, m3, spot, broken)[n] \in {-1, 0, 1}
<1> DEFINE setups == Setups(m1, m3, spot, broken)
<1>1. TrendSetup(m1, m3) \in {-1, 0, 1}
  BY DirectionsAre DEF TrendSetup
<1>2. MomentumSetup(m1) \in {-1, 0, 1}
  BY DirectionsAre DEF MomentumSetup
<1>3. ReclaimTrigger(m1) \in {-1, 0, 1}
  BY DirectionsAre DEF ReclaimTrigger
<1>4. PullbackTrigger(m1) \in {-1, 0, 1}
  BY DirectionsAre DEF PullbackTrigger
<1>5. RangeBreak(m1, broken) \in {-1, 0, 1}
  BY DEF RangeBreak
<1>6. MeanReversionSetup(spot) \in {-1, 0, 1}
  <2>1. Sign(spot) \in {-1, 0, 1}
    BY DirectionsAre
  <2> QED BY <2>1 DEF MeanReversionSetup
<1>7. Enabled \subseteq DOMAIN Family \ {"trend_reversal_flip"}
  <2> DEFINE T == DOMAIN Family \ {"trend_reversal_flip"}
  <2>1. EnabledStrategies \in Seq(T)
    BY SignalsAssumption
  <2> HIDE DEF T
  <2>2. ASSUME NEW n \in Enabled PROVE n \in T
    <3>1. PICK i \in DOMAIN EnabledStrategies : EnabledStrategies[i] = n
      BY DEF Enabled, Range
    <3> QED BY <2>1, <3>1
  <2> QED BY <2>2 DEF T
<1>8. DOMAIN Family \ {"trend_reversal_flip"} \subseteq
        {"vwap_trend", "trend_continuation", "momentum_continuation", "vwap_reclaim",
         "vwap_pullback", "opening_range_breakout", "mean_reversion"}
  BY DEF Family, TrendNames
<1>9. /\ setups["vwap_trend"] \in {-1, 0, 1} /\ setups["trend_continuation"] \in {-1, 0, 1}
      /\ setups["momentum_continuation"] \in {-1, 0, 1}
      /\ setups["vwap_reclaim"] \in {-1, 0, 1} /\ setups["vwap_pullback"] \in {-1, 0, 1}
      /\ setups["opening_range_breakout"] \in {-1, 0, 1}
      /\ setups["mean_reversion"] \in {-1, 0, 1}
  BY <1>1, <1>2, <1>3, <1>4, <1>5, <1>6 DEF Setups
<1> HIDE DEF setups
<1>10. \A n \in Enabled : setups[n] \in {-1, 0, 1}
  BY <1>7, <1>8, <1>9
<1> QED BY <1>10 DEF setups

-----------------------------------------------------------------------------
(***************************************************************************)
(* One lemma for every step of a trade.                                    *)
(***************************************************************************)
LEMMA ReadBarsKeeps ==
  ASSUME TradeInv, ReadBars
  PROVE  TradeInv'
<1>1. PICK m1 \in M1Windows, m3 \in M3Windows, spot \in Spots, broken \in {-1, 0, 1} :
        Continue("regime", [bias |-> Bias(m1), spot |-> spot, cross |-> Abs(Last(m1)),
                            setups |-> [n \in Enabled |-> Setups(m1, m3, spot, broken)[n]]])
  BY DEF ReadBars
<1> DEFINE setups == [n \in Enabled |-> Setups(m1, m3, spot, broken)[n]]
           w == [bias |-> Bias(m1), spot |-> spot, cross |-> Abs(Last(m1)), setups |-> setups]
<1>2. \A n \in Enabled : setups[n] \in {-1, 0, 1}
  BY SetupsAre
<1>3. Bias(m1) \in {-1, 0, 1}
  BY DirectionsAre
<1> HIDE DEF setups
<1>4. w.bias = Bias(m1) /\ w.setups = setups
  OBVIOUS
<1>5. Continue("regime", w)
  BY <1>1 DEF setups
<1> HIDE DEF w
<1>6. Kept("regime", w)
  BY <1>2, <1>3, <1>4 DEF Kept, RegimeKept
<1>7. "regime" \in Stages
  BY DEF Stages
<1> QED BY <1>5, <1>6, <1>7, ContinueKeeps

LEMMA ClassifyKeeps ==
  ASSUME TradeInv, Classify
  PROVE  TradeInv'
<1>1. stage = "regime" /\ RegimeKept(work)
  BY DEF Classify, TradeInv, Kept
<1>2. PICK u : u = work
  OBVIOUS
<1>3. PICK m5 \in M5Windows, setting \in Settings :
        LET structure == Structure(m5)
            scores    == RegimeScores(u.bias, structure, Tight(m5), u.spot, setting)
            names     == {n \in Enabled : Scan(n, u.setups, u.bias, structure) # 0}
        IN  IF RegimeAllows(scores, setting) /\ names # {}
            THEN Continue("score",
                   [bias |-> u.bias, spot |-> u.spot, cross |-> u.cross,
                    structure |-> structure, primary |-> Primary(scores),
                    sides |-> [n \in names |-> u.setups[n]]])
            ELSE BackToFeed
  BY <1>2 DEF Classify, Signalled
<1> DEFINE structure == Structure(m5)
           scores    == RegimeScores(u.bias, structure, Tight(m5), u.spot, setting)
           primary   == Primary(scores)
           names     == {n \in Enabled : Scan(n, u.setups, u.bias, structure) # 0}
           sides     == [n \in names |-> u.setups[n]]
           w == [bias |-> u.bias, spot |-> u.spot, cross |-> u.cross,
                 structure |-> structure, primary |-> primary, sides |-> sides]
<1>4. Continue("score", w) \/ BackToFeed
  BY <1>3
<1>5. /\ u.bias \in {-1, 0, 1} /\ \A n \in Enabled : u.setups[n] \in {-1, 0, 1}
  BY <1>1, <1>2 DEF RegimeKept
<1>6. /\ primary \in Regimes
      /\ u.bias = 1  => primary # "trending_down"
      /\ u.bias = -1 => primary # "trending_up"
  BY <1>5, PrimaryFollowsBias
<1>7. /\ DOMAIN sides \subseteq Enabled
      /\ \A n \in DOMAIN sides : /\ sides[n] \in Sides
                                 /\ n \notin BiasExempt => sides[n] = u.bias
  BY <1>5 DEF Scan, Sides
<1> HIDE DEF primary, sides
<1>8. w.primary = primary /\ w.sides = sides
  OBVIOUS
<1> HIDE DEF w
<1>9. \A n \in DOMAIN sides : n \notin BiasExempt => primary # Opposite(sides[n])
  BY <1>6, <1>7 DEF Opposite, Sides
<1>10. Kept("score", w)
  BY <1>6, <1>7, <1>8, <1>9 DEF Kept, ScoreKept
<1>11. "score" \in Stages
  BY DEF Stages
<1>12. CASE Continue("score", w)
  BY <1>10, <1>11, <1>12, ContinueKeeps
<1>13. CASE BackToFeed
  BY <1>13, BackToFeedKeeps
<1> QED BY <1>4, <1>12, <1>13

LEMMA ScoreKeeps ==
  ASSUME TradeInv, Score
  PROVE  TradeInv'
<1>1. stage = "score" /\ ScoreKept(work)
  BY DEF Score, TradeInv, Kept
<1>2. PICK u : u = work
  OBVIOUS
<1>3. PICK option \in OptionContexts, market \in Markets, learned \in Learned :
        LET names == {n \in DOMAIN u.sides : option.contract[u.sides[n]].found}
            confidence(n) ==
              LET side == u.sides[n]
              IN  Confidence(n, side, u.bias, u.spot, u.structure, u.primary,
                             RouterContext(option, market, side, u.spot), learned[n])
        IN  Continue("routed",
              [conf     |-> [n \in names |-> confidence(n)],
               allowed  |-> {n \in names :
                               CryptoEntryAllowed(n, u.primary, u.spot, u.cross)},
               tradable |-> [n \in names |->
                               Tradable(option, u.sides[n], u.spot, confidence(n))]])
  BY <1>2 DEF Score
<1> DEFINE names == {n \in DOMAIN u.sides : option.contract[u.sides[n]].found}
           confidence(n) ==
             Confidence(n, u.sides[n], u.bias, u.spot, u.structure, u.primary,
                        RouterContext(option, market, u.sides[n], u.spot), learned[n])
           conf     == [n \in names |-> confidence(n)]
           allowed  == {n \in names : CryptoEntryAllowed(n, u.primary, u.spot, u.cross)}
           tradable == [n \in names |-> Tradable(option, u.sides[n], u.spot, confidence(n))]
           w == [conf |-> conf, allowed |-> allowed, tradable |-> tradable]
<1>4. Continue("routed", w)
  BY <1>3
<1>5. /\ DOMAIN u.sides \subseteq Enabled
      /\ \A n \in DOMAIN u.sides : u.sides[n] \in Sides
  BY <1>1, <1>2 DEF ScoreKept
<1>6. names \subseteq Enabled /\ DOMAIN conf = names
  BY <1>5
<1>7. ASSUME NEW n \in names
      PROVE  confidence(n) \in Int /\ confidence(n) <= 100
  <2> DEFINE side == u.sides[n]
             c    == RouterContext(option, market, side, u.spot)
             l    == learned[n]
  <2>1. side \in Sides /\ option.contract[side].found
    BY <1>5
  <2>2. ContextKept(c)
    <3> HIDE DEF side
    <3> QED BY <2>1, ContextsAreKept
  <2>3. l \in [mult : Nat, weak : BOOLEAN]
    <3>1. n \in DOMAIN Family
      <4> DEFINE T == DOMAIN Family \ {"trend_reversal_flip"}
      <4>1. EnabledStrategies \in Seq(T)
        BY SignalsAssumption
      <4> HIDE DEF T
      <4>2. PICK i \in DOMAIN EnabledStrategies : EnabledStrategies[i] = n
        BY <1>6 DEF Enabled, Range
      <4>3. n \in T
        BY <4>1, <4>2
      <4> QED BY <4>3 DEF T
    <3>2. learned \in [DOMAIN Family -> [mult : Nat, weak : BOOLEAN]]
      BY InputsAssumption
    <3> QED BY <3>1, <3>2
  <2>4. confidence(n) = Confidence(n, side, u.bias, u.spot, u.structure, u.primary, c, l)
    OBVIOUS
  <2> HIDE DEF side, c, l, confidence
  <2> QED BY <2>2, <2>3, <2>4, ConfidenceType
<1>8. \A n \in DOMAIN conf : conf[n] = confidence(n)
  OBVIOUS
<1>9. \A n \in names :
        tradable[n].conf = Level(confidence(n)) /\ tradable[n].side = u.sides[n]
  BY DEF Tradable
<1> HIDE DEF confidence, conf, tradable, allowed
<1>10. ConfKept(conf)
  BY <1>6, <1>7, <1>8 DEF ConfKept
<1>11. w.conf = conf /\ w.tradable = tradable
  OBVIOUS
<1> HIDE DEF w
<1>12. \A n \in DOMAIN conf : tradable[n].conf = Level(conf[n]) /\ tradable[n].side \in Sides
  BY <1>5, <1>6, <1>8, <1>9
<1>13. Kept("routed", w)
  BY <1>10, <1>11, <1>12 DEF Kept, RoutedKept
<1>14. "routed" \in Stages
  BY DEF Stages
<1> QED BY <1>4, <1>13, <1>14, ContinueKeeps

LEMMA LevelIs ==
  ASSUME NEW conf \in Int, conf >= 70
  PROVE  Level(conf) \in ConfidenceLevels \ {0}
<1> DEFINE reached == {l \in ConfidenceLevels : l <= conf}
<1>1. reached \in SUBSET Int /\ 70 \in reached /\ \A x \in reached : x <= conf
  BY DEF ConfidenceLevels
<1>2. reached \subseteq ConfidenceLevels
  OBVIOUS
<1>3. Level(conf) = Max(reached)
  BY DEF Level
<1> HIDE DEF reached
<1>4. Max(reached) \in reached /\ Max(reached) >= 70
  BY <1>1, MaxIs
<1>5. Max(reached) \in Int /\ Max(reached) \in ConfidenceLevels
  BY <1>1, <1>2, <1>4
<1>6. Max(reached) # 0
  BY <1>4, <1>5
<1> QED BY <1>3, <1>5, <1>6

LEMMA RouteKeeps ==
  ASSUME TradeInv, Route
  PROVE  TradeInv'
<1>1. stage = "routed" /\ RoutedKept(work)
  BY DEF Route, TradeInv, Kept
<1>2. PICK u : u = work
  OBVIOUS
<1>3. BackToFeed \/ \E n \in Selected(u.conf) : Continue("entry", u.tradable[n])
  BY <1>2 DEF Route
<1>4. CASE BackToFeed
  BY <1>4, BackToFeedKeeps
<1>5. ASSUME NEW n \in Selected(u.conf), Continue("entry", u.tradable[n])
      PROVE  TradeInv'
  <2> DEFINE w == u.tradable[n]
  <2>1. ConfKept(u.conf)
    BY <1>1, <1>2 DEF RoutedKept
  <2>2. n \in DOMAIN u.conf /\ u.conf[n] >= 70
    BY <2>1, SelectedIsBest DEF MinConfidence
  <2>3. u.conf[n] \in Int
    BY <2>1, <2>2 DEF ConfKept
  <2>4. w.conf = Level(u.conf[n]) /\ w.side \in Sides
    BY <1>1, <1>2, <2>2 DEF RoutedKept
  <2>5. w.conf \in ConfidenceLevels \ {0}
    BY <2>2, <2>3, <2>4, LevelIs
  <2>6. Continue("entry", w)
    BY <1>5
  <2> HIDE DEF w
  <2>7. Kept("entry", w)
    BY <2>4, <2>5 DEF Kept, EntryKept
  <2>8. "entry" \in Stages
    BY DEF Stages
  <2> QED BY <2>6, <2>7, <2>8, ContinueKeeps
<1> QED BY <1>3, <1>4, <1>5

LEMMA SizeKeeps ==
  ASSUME TradeInv, Size
  PROVE  TradeInv'
<1>1. stage = "entry" /\ EntryKept(work)
  BY DEF Size, TradeInv, Kept
<1>2. PICK u : u = work
  OBVIOUS
<1>3. PICK account \in Accounts, book \in Books, winPct \in WinPcts, noteRaises \in BOOLEAN :
        \/ BackToFeed
        \/ \E order \in Orders(u, account, book, winPct, noteRaises) :
             Continue("order", order)
  BY <1>2 DEF Size
<1>4. CASE BackToFeed
  BY <1>4, BackToFeedKeeps
<1>5. ASSUME NEW order \in Orders(u, account, book, winPct, noteRaises),
             Continue("order", order)
      PROVE  TradeInv'
  <2>1. u.conf \in Int
    BY <1>1, <1>2 DEF EntryKept, ConfidenceLevels
  <2>2. account \in AccountType /\ book \in BookType
    BY InputsAssumption DEF AccountType, OpenType, BookType, LevelType
  <2>3. OrderKept(order)
    BY <2>1, <2>2, OrdersAreKept
  <2>4. Kept("order", order) /\ "order" \in Stages
    BY <2>3 DEF Kept, Stages
  <2> QED BY <1>5, <2>4, ContinueKeeps
<1> QED BY <1>3, <1>4, <1>5

LEMMA PlaceOrderKeeps ==
  ASSUME TradeInv, PlaceOrder
  PROVE  TradeInv'
<1>1. stage = "order" /\ OrderKept(work)
  BY DEF PlaceOrder, TradeInv, Kept
<1>2. PICK u : u = work
  OBVIOUS
<1>3. PICK book \in Books :
        \/ BackToFeed
        \/ \E fill \in Fills(book, u.lots, u.quote.price) :
             Continue("filled", [lots |-> u.lots, asks |-> book.asks,
                                 units |-> ContractUnits(u.signal.under),
                                 fetched |-> book.fetched, fill |-> fill])
  BY <1>2 DEF PlaceOrder
<1>4. CASE BackToFeed
  BY <1>4, BackToFeedKeeps
<1>5. ASSUME NEW fill \in Fills(book, u.lots, u.quote.price),
             Continue("filled", [lots |-> u.lots, asks |-> book.asks,
                                 units |-> ContractUnits(u.signal.under),
                                 fetched |-> book.fetched, fill |-> fill])
      PROVE  TradeInv'
  <2> DEFINE w == [lots |-> u.lots, asks |-> book.asks,
                   units |-> ContractUnits(u.signal.under),
                   fetched |-> book.fetched, fill |-> fill]
  <2>1. u.lots \in Nat \ {0} /\ u.quote.price \in Nat
    BY <1>1, <1>2 DEF OrderKept
  <2>2. book \in BookType
    BY InputsAssumption DEF BookType, LevelType
  <2>3. FillKept(fill, book.fetched, book.asks, u.lots)
    BY <2>1, <2>2, FillsAreKept
  <2>4. /\ w.lots = u.lots /\ w.asks = book.asks /\ w.fetched = book.fetched
        /\ w.fill = fill /\ w.units \in Nat
    BY DEF ContractUnits
  <2>5. Continue("filled", w)
    BY <1>5
  <2> HIDE DEF w
  <2>6. Kept("filled", w) /\ "filled" \in Stages
    BY <2>1, <2>3, <2>4 DEF Kept, Stages, FilledKept
  <2> QED BY <2>5, <2>6, ContinueKeeps
<1> QED BY <1>3, <1>4, <1>5

LEMMA IndicesAre == Indices \subseteq Nat
<1>1. \A q \in Quotes : q.index \in Nat
  BY InputsAssumption
<1> QED BY <1>1 DEF Indices

LEMMA InstantsAre ==
  \A i \in 1..6 : Instants[i] \in Range(Instants) /\ Instants[i] \in Nat
<1>1. DOMAIN Instants = 1..6
  BY DEF Instants
<1>2. \A i \in 1..6 : Instants[i] \in Range(Instants)
  BY <1>1 DEF Range
<1>3. /\ Instants[1] = 0 /\ Instants[2] = 120 /\ Instants[3] = 180
      /\ Instants[4] = 300 /\ Instants[5] = 1320 /\ Instants[6] = 1380
  BY DEF Instants
<1>4. 1..6 = {1, 2, 3, 4, 5, 6}
  OBVIOUS
<1> QED BY <1>2, <1>3, <1>4

LEMMA RegisterKeeps ==
  ASSUME TradeInv, Register
  PROVE  TradeInv'
<1>1. stage = "filled" /\ FilledKept(work)
  BY DEF Register, TradeInv, Kept
<1>2. PICK u : u = work
  OBVIOUS
<1>3. PICK index \in Indices \ {0} :
        Continue("hold",
          [lots |-> u.fill.lots, units |-> u.units, entry |-> u.fill.price,
           fee |-> EntryFee(index, u.fill.lots * u.units, u.fill.price),
           held |-> 0, mfe |-> 0, thesis |-> TRUE, seen |-> TRUE])
  BY <1>2 DEF Register
<1> DEFINE fee == EntryFee(index, u.fill.lots * u.units, u.fill.price)
           w == [lots |-> u.fill.lots, units |-> u.units, entry |-> u.fill.price,
                 fee |-> fee, held |-> 0, mfe |-> 0, thesis |-> TRUE, seen |-> TRUE]
<1>4. u.fill.lots \in Nat /\ u.units \in Nat /\ u.fill.price \in Int
  BY <1>1, <1>2 DEF FilledKept, FillKept
<1>5. fee \in Int
  <2>1. u.fill.lots * u.units \in Nat
    BY <1>4
  <2> QED BY <1>4, <2>1, IndicesAre, EntryFeeType
<1> HIDE DEF fee
<1>6. w \in Position2 /\ w.held = 0 /\ w.seen = TRUE
  BY <1>4, <1>5 DEF Position2
<1>7. 0 \in Range(Instants)
  BY InstantsAre DEF Instants
<1>8. Continue("hold", w)
  BY <1>3 DEF fee
<1> HIDE DEF w
<1>9. Kept("hold", w) /\ "hold" \in Stages
  BY <1>6, <1>7 DEF Kept, Stages, HoldKept
<1> QED BY <1>8, <1>9, ContinueKeeps

LEMMA TimePassesKeeps ==
  ASSUME TradeInv, TimePasses
  PROVE  TradeInv'
<1>1. stage = "hold" /\ HoldKept(work)
  BY DEF TimePasses, TradeInv, Kept
<1>2. PICK u : u = work
  OBVIOUS
<1>3. PICK i \in 1..(Len(Instants) - 1) :
        Continue("hold", [u EXCEPT !.held = Instants[i + 1]])
  BY <1>2 DEF TimePasses
<1> DEFINE later == Instants[i + 1]
           w == [u EXCEPT !.held = later]
<1>4. later \in Range(Instants) /\ later \in Nat
  <2>1. Len(Instants) = 6
    BY DEF Instants
  <2>2. i + 1 \in 1..6
    BY <2>1
  <2> QED BY <2>2, InstantsAre
<1>5. u \in Position2 /\ (u.fee > 0 => u.seen)
  BY <1>1, <1>2 DEF HoldKept
<1>6. Continue("hold", w)
  BY <1>3
<1> HIDE DEF later
<1>7. w \in Position2 /\ w.held = later /\ w.fee = u.fee /\ w.seen = u.seen
  BY <1>4, <1>5 DEF Position2
<1> HIDE DEF w
<1>8. Kept("hold", w) /\ "hold" \in Stages
  BY <1>4, <1>5, <1>7 DEF Kept, Stages, HoldKept
<1> QED BY <1>6, <1>8, ContinueKeeps

LEMMA QuoteArrivesKeeps ==
  ASSUME TradeInv, QuoteArrives
  PROVE  TradeInv'
<1>1. stage = "hold" /\ HoldKept(work)
  BY DEF QuoteArrives, TradeInv, Kept
<1>2. PICK u : u = work
  OBVIOUS
<1>3. PICK q \in Quotes :
        LET pos    == WithQuote(u, q)
            reason == ExitReason(pos, q)
        IN  IF reason = "none" THEN Continue("hold", pos)
            ELSE Continue("exit", [reason |-> reason])
  BY <1>2 DEF QuoteArrives
<1> DEFINE pos    == WithQuote(u, q)
           reason == ExitReason(pos, q)
           w      == [reason |-> reason]
<1>4. /\ u \in Position2 /\ u.held \in Range(Instants) /\ (u.fee > 0 => u.seen)
      /\ q \in QuoteType
  BY <1>1, <1>2, InputsAssumption DEF HoldKept, QuoteType
<1>5. /\ pos \in Position2 /\ pos.held = u.held /\ pos.fee = u.fee
      /\ u.seen => pos.seen
  BY <1>4, WithQuoteIs
<1> HIDE DEF pos
<1>6. CASE reason = "none"
  <2>1. Continue("hold", pos)
    BY <1>3, <1>6 DEF pos
  <2>2. Kept("hold", pos) /\ "hold" \in Stages
    BY <1>4, <1>5 DEF Kept, Stages, HoldKept
  <2> QED BY <2>1, <2>2, ContinueKeeps
<1>7. CASE reason # "none"
  <2>1. Continue("exit", w)
    BY <1>3, <1>7 DEF pos
  <2> HIDE DEF w
  <2>2. Kept("exit", w) /\ "exit" \in Stages
    BY DEF Kept, Stages
  <2> QED BY <2>1, <2>2, ContinueKeeps
<1> QED BY <1>6, <1>7

LEMMA RestartKeeps ==
  ASSUME TradeInv, Restart
  PROVE  TradeInv'
<1>1. stage = "hold" /\ HoldKept(work)
  BY DEF Restart, TradeInv, Kept
<1>2. PICK u : u = work
  OBVIOUS
<1>3. PICK index \in Indices :
        Continue("hold", [u EXCEPT !.thesis = FALSE, !.mfe = 0, !.seen = index # 0,
                                   !.fee = EntryFee(index, u.lots * u.units, u.entry)])
  BY <1>2 DEF Restart
<1> DEFINE fee  == EntryFee(index, u.lots * u.units, u.entry)
           seen == index # 0
           w == [u EXCEPT !.thesis = FALSE, !.mfe = 0, !.seen = seen, !.fee = fee]
<1>4. u \in Position2 /\ u.held \in Range(Instants)
  BY <1>1, <1>2 DEF HoldKept
<1>5. fee \in Int /\ (fee > 0 => seen) /\ seen \in BOOLEAN
  <2>1. u.lots \in Nat /\ u.units \in Nat /\ u.entry \in Int
    BY <1>4 DEF Position2
  <2>2. u.lots * u.units \in Nat
    BY <2>1
  <2> QED BY <2>1, <2>2, IndicesAre, EntryFeeType
<1>6. Continue("hold", w)
  BY <1>3
<1> HIDE DEF fee, seen
<1>7. w \in Position2
  BY <1>4, <1>5 DEF Position2
<1>8. w.held = u.held /\ w.fee = fee /\ w.seen = seen
  BY <1>4 DEF Position2
<1> HIDE DEF w
<1>9. Kept("hold", w) /\ "hold" \in Stages
  BY <1>4, <1>5, <1>7, <1>8 DEF Kept, Stages, HoldKept
<1> QED BY <1>6, <1>9, ContinueKeeps

LEMMA CloseKeeps ==
  ASSUME TradeInv, Close
  PROVE  TradeInv'
<1>1. Continue("flip", Nothing) \/ BackToFeed
  BY DEF Close
<1>2. Kept("flip", Nothing) /\ "flip" \in Stages
  BY DEF Kept, Stages
<1>3. CASE BackToFeed
  BY <1>3, BackToFeedKeeps
<1>4. CASE Continue("flip", Nothing)
  <2>1. PICK n : n = Nothing
    OBVIOUS
  <2> QED BY <1>2, <1>4, <2>1, ContinueKeeps
<1> QED BY <1>1, <1>3, <1>4

LEMMA ConfirmFlipKeeps ==
  ASSUME TradeInv, ConfirmFlip
  PROVE  TradeInv'
<1>1. PICK m1 \in M1Windows, spot \in Spots, m5 \in M5Windows :
        IF ReversalConfirmed(m1, spot, HigherBars(m5))
        THEN Continue("flip_score", [spot |-> spot, tight |-> Tight(m5),
                                     structure |-> Structure(m5)])
        ELSE BackToFeed
  BY DEF ConfirmFlip
<1> DEFINE w == [spot |-> spot, tight |-> Tight(m5), structure |-> Structure(m5)]
<1>2. BackToFeed \/ Continue("flip_score", w)
  BY <1>1
<1> HIDE DEF w
<1>3. Kept("flip_score", w) /\ "flip_score" \in Stages
  BY DEF Kept, Stages
<1> QED BY <1>2, <1>3, BackToFeedKeeps, ContinueKeeps

LEMMA ScoreFlipKeeps ==
  ASSUME TradeInv, ScoreFlip
  PROVE  TradeInv'
<1>1. PICK u : u = work
  OBVIOUS
<1>2. PICK setting \in Settings, option \in OptionContexts, market \in Markets,
           learned \in Learned, side \in Sides :
        /\ option.contract[side].found
        /\ LET primary == Primary(RegimeScores(1, u.structure, u.tight, u.spot, setting))
               conf == Confidence("trend_reversal_flip", 1, 1, u.spot, u.structure, primary,
                         ScoreContext(option, market, side, side * u.spot),
                         learned["trend_reversal_flip"])
           IN  IF conf >= FlipMinScore
               THEN Continue("entry", Tradable(option, side, side * u.spot, conf))
               ELSE BackToFeed
  BY <1>1 DEF ScoreFlip
<1> DEFINE primary == Primary(RegimeScores(1, u.structure, u.tight, u.spot, setting))
           c == ScoreContext(option, market, side, side * u.spot)
           l == learned["trend_reversal_flip"]
           conf == Confidence("trend_reversal_flip", 1, 1, u.spot, u.structure, primary, c, l)
           w == Tradable(option, side, side * u.spot, conf)
<1>3. ContextKept(c)
  BY <1>2, ContextsAreKept
<1>4. l \in [mult : Nat, weak : BOOLEAN]
  <2>1. learned \in [DOMAIN Family -> [mult : Nat, weak : BOOLEAN]]
    BY InputsAssumption
  <2>2. "trend_reversal_flip" \in DOMAIN Family
    BY DEF Family
  <2> QED BY <2>1, <2>2
<1>5. (conf >= FlipMinScore /\ Continue("entry", w)) \/ BackToFeed
  BY <1>2
<1> HIDE DEF primary, c, l
<1>6. conf \in Int
  BY <1>3, <1>4, ConfidenceType
<1>7. w.conf = Level(conf) /\ w.side = side
  BY DEF Tradable
<1> HIDE DEF conf, w
<1>8. CASE conf >= FlipMinScore /\ Continue("entry", w)
  <2>1. conf >= 70
    BY <1>6, <1>8 DEF FlipMinScore
  <2>2. w.conf \in ConfidenceLevels \ {0} /\ w.side \in Sides
    BY <1>6, <1>7, <2>1, LevelIs
  <2>3. Kept("entry", w) /\ "entry" \in Stages
    BY <2>2 DEF Kept, Stages, EntryKept
  <2> QED BY <1>8, <2>3, ContinueKeeps
<1>9. CASE BackToFeed
  BY <1>9, BackToFeedKeeps
<1> QED BY <1>5, <1>8, <1>9

-----------------------------------------------------------------------------
(***************************************************************************)
(* The theorems.                                                           *)
(***************************************************************************)
LEMMA NextKeeps == TradeInv /\ [Next]_vars => TradeInv'
<1> SUFFICES ASSUME TradeInv, [Next]_vars PROVE TradeInv'
  OBVIOUS
<1>1. CASE FeedMoves
  BY <1>1, FeedMovesKeeps
<1>2. CASE Admit
  BY <1>2, AdmitKeeps
<1>3. CASE ReadBars
  BY <1>3, ReadBarsKeeps
<1>4. CASE Classify
  BY <1>4, ClassifyKeeps
<1>5. CASE Score
  BY <1>5, ScoreKeeps
<1>6. CASE Route
  BY <1>6, RouteKeeps
<1>7. CASE Size
  BY <1>7, SizeKeeps
<1>8. CASE PlaceOrder
  BY <1>8, PlaceOrderKeeps
<1>9. CASE Register
  BY <1>9, RegisterKeeps
<1>10. CASE TimePasses
  BY <1>10, TimePassesKeeps
<1>11. CASE QuoteArrives
  BY <1>11, QuoteArrivesKeeps
<1>12. CASE Restart
  BY <1>12, RestartKeeps
<1>13. CASE Close
  BY <1>13, CloseKeeps
<1>14. CASE ConfirmFlip
  BY <1>14, ConfirmFlipKeeps
<1>15. CASE ScoreFlip
  BY <1>15, ScoreFlipKeeps
<1>16. CASE UNCHANGED vars
  BY <1>16 DEF vars, TradeInv, BarsOfMarkedMinute
<1> QED BY <1>1, <1>2, <1>3, <1>4, <1>5, <1>6, <1>7, <1>8, <1>9, <1>10, <1>11, <1>12,
           <1>13, <1>14, <1>15, <1>16 DEF Next

(* What a stage of a trade works on is always what the code before it may hand
   over: the invariant behind the theorems below, for every market input. *)
THEOREM TradeInvHolds == Spec => []TradeInv
<1> QED BY InitIsKept, NextKeeps, PTL DEF Spec

(* Every stage of a trade gets what it works on from the stage before it, from
   the refresh of the candles to the quotes of the open position. *)
THEOREM TradeTypeOKHolds == Spec => []TradeTypeOK
<1>1. TradeInv => TradeTypeOK
  <2> SUFFICES ASSUME TradeInv PROVE TradeTypeOK
    OBVIOUS
  <2>1. feed \in FeedType /\ stage \in Stages /\ Kept(stage, work)
    BY DEF TradeInv
  <2>2. stage = "score" => DOMAIN work.sides \subseteq Enabled /\ work.primary \in Regimes
    BY <2>1 DEF Kept, ScoreKept
  <2>3. stage = "entry" => work.conf \in ConfidenceLevels \ {0} /\ work.side \in Sides
    BY <2>1 DEF Kept, EntryKept
  <2>4. stage = "order" => work.lots \in 1..work.sized
    BY <2>1 DEF Kept, OrderKept
  <2>5. stage = "filled" => work.fill.lots \in 1..work.lots
    BY <2>1 DEF Kept, FilledKept, FillKept
  <2>6. stage = "hold" => /\ work.held \in Range(Instants) /\ work.mfe >= 0
                          /\ work.fee > 0 => work.seen
    BY <2>1 DEF Kept, HoldKept, Position2
  <2> QED BY <2>1, <2>2, <2>3, <2>4, <2>5, <2>6 DEF TradeTypeOK, Stages
<1> QED BY <1>1, TradeInvHolds, PTL

(* MarketDataEngine._refresh_candles: a minute is marked as refreshed only
   while the bars were requested in it, however requests overlap and however
   late they are answered. *)
THEOREM BarsOfMarkedMinuteHolds == Spec => []BarsOfMarkedMinute
<1>1. TradeInv => BarsOfMarkedMinute
  BY DEF TradeInv
<1> QED BY <1>1, TradeInvHolds, PTL

(* RegimeClassifier.classify: a signal that follows the bias is never scored
   in a market classified as trending against it, wherever _normalize_100 puts
   the rounding error of the probabilities. *)
THEOREM NoCounterTrendEntryHolds == Spec => []NoCounterTrendEntry
<1>1. TradeInv => NoCounterTrendEntry
  BY DEF TradeInv, Kept, ScoreKept, NoCounterTrendEntry
<1> QED BY <1>1, TradeInvHolds, PTL

(* StrategyRouter.route: the best member of every family is enough to find the
   best signal of all, and some signal is routed when one is strong enough. *)
THEOREM RoutedIsBestHolds == Spec => []RoutedIsBest
<1>1. TradeInv => RoutedIsBest
  <2> SUFFICES ASSUME TradeInv, stage = "routed" PROVE RoutedIsBest
    BY DEF RoutedIsBest
  <2>1. PICK conf : conf = work.conf
    OBVIOUS
  <2>2. ConfKept(conf)
    BY <2>1 DEF TradeInv, Kept, RoutedKept
  <2>3. /\ \A n \in Selected(conf), m \in DOMAIN conf : conf[n] >= conf[m]
        /\ (\E n \in DOMAIN conf : conf[n] >= MinConfidence) => Selected(conf) # {}
    BY <2>2, SelectedIsBest
  <2> QED BY <2>1, <2>3 DEF RoutedIsBest
<1> QED BY <1>1, TradeInvHolds, PTL

(* compute_lot_size: the step down ends at lots within every limit of the sizing,
   one lot more is not within all of them, and the lots that the reduction near
   expiry leaves to order are within them again. *)
THEOREM LotsAreLargestAllowedHolds == Spec => []LotsAreLargestAllowed
<1>1. TradeInv => LotsAreLargestAllowed
  BY DEF TradeInv, Kept, OrderKept, LotsAreLargestAllowed
<1> QED BY <1>1, TradeInvHolds, PTL

(* walk_book: a paper fill costs what the levels cost when the better ones are
   taken first, and a fill of less than half the order is rejected. *)
THEOREM FillIsBestAndEnoughHolds == Spec => []FillIsBestAndEnough
<1>1. TradeInv => FillIsBestAndEnough
  BY DEF TradeInv, Kept, FilledKept, FillKept, FillIsBestAndEnough, LevelCosts, TakenAt
<1> QED BY <1>1, TradeInvHolds, PTL

=============================================================================
