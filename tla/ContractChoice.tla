--------------------------- MODULE ContractChoice ---------------------------
(***************************************************************************)
(* Which option a signal buys: the ATM strike that follows the spot, the   *)
(* contracts around it, their score, and what the time to expiry changes.  *)
(*                                                                         *)
(* A chain is the sequence of the universe's instruments with the state of *)
(* each: [under, side, strike, quoted, spread, delta, gamma, iv, theta,    *)
(* volume].  side is 1 (CE) or -1 (PE); spread (percent), delta            *)
(* (hundredths), gamma (1/10000), iv and theta may be NoValue.  Scores are *)
(* in tenths.                                                              *)
(***************************************************************************)
EXTENDS Integers, FiniteSets, FiniteSetsExt, SequencesExt

CONSTANT NoValue   \* a field the quote or the Greeks do not give

AbsDiff(a, b) == IF a < b THEN b - a ELSE a - b
AtMost(x, limit)  == IF x > limit THEN limit ELSE x
AtLeast(x, limit) == IF x < limit THEN limit ELSE x

(* atm_strike_for_spot: half a step up rounds up *)
AtmStrike(spot, step) == ((2 * spot + step) \div (2 * step)) * step

(* The first of the nearest; min(..., key=abs(strike - atm)) *)
Nearest(chain, those, atm) ==
  LET gap(i) == AbsDiff(chain[i].strike, atm)
      best   == Min({gap(i) : i \in those})
  IN  Min({i \in those : gap(i) = best})

(* retarget_atm: a contract of the side at the strike, else the nearest one.
   The underlying of the instrument is not looked at.  0: the side has none. *)
AtmContract(chain, side, atm) ==
  LET ofSide == {i \in DOMAIN chain : chain[i].side = side}
  IN  IF ofSide = {} THEN 0 ELSE Nearest(chain, ofSide, atm)

(* atm_band_instruments with one step to each side, nearest first (ATM, then
   the others in the order of the chain); the ATM contract when none fits. *)
Candidates(chain, side, atm, step) ==
  LET band == {i \in DOMAIN chain :
                 chain[i].side = side /\ chain[i].strike \in {atm - step, atm, atm + step}}
      gap(i) == AbsDiff(chain[i].strike, atm)
      atmContract == AtmContract(chain, side, atm)
  IN  IF band # {} THEN SetToSortSeq(band, LAMBDA i, j :
                          gap(i) < gap(j) \/ (gap(i) = gap(j) /\ i < j))
      ELSE IF atmContract # 0 THEN <<atmContract>> ELSE <<>>

(* Quoted, and not wider than the maximum spread of the selection. *)
Eligible(o) == o.quoted /\ (o.spread = NoValue \/ o.spread <= 6)

DeltaScore(delta) ==
  IF delta = NoValue THEN 0
  ELSE IF delta \in 42..58 THEN 400 - 8 * AbsDiff(delta, 50)
  ELSE 100 - 4 * AbsDiff(delta, 50)

(* The score of select_option_contract; minutes: time to expiry. *)
PickScore(o, atm, step, minutes) ==
  DeltaScore(o.delta)
  + (IF o.gamma = NoValue THEN 0 ELSE AtMost(5 * o.gamma, 250))
  + AtLeast(80 - (30 * AbsDiff(o.strike, atm)) \div step, 0)
  + (CASE o.iv = NoValue -> 0 [] o.iv \in 25..85 -> 80 [] o.iv > 100 -> -120 [] OTHER -> 0)
  - (IF minutes < 120 /\ o.theta # NoValue THEN AtMost(20 * o.theta, 150) ELSE 0)
  - (IF minutes < 30 THEN 200 ELSE 0)
  + (IF o.spread = NoValue THEN 0 ELSE AtLeast(100 - 10 * o.spread, 0))
  + AtMost(10 * o.volume, 80)                               \* volume in 50000s

(* select_option_contract, resolve_side_contract: the contract with the best
   score, the earlier candidate on a tie; 0 when none is eligible. *)
PickContract(chain, side, spot, step, minutes) ==
  LET atm    == AtmStrike(spot, step)
      usable == SelectSeq(Candidates(chain, side, atm, step), LAMBDA i : Eligible(chain[i]))
      score(k) == PickScore(chain[usable[k]], atm, step, minutes)
      best   == Max({score(k) : k \in DOMAIN usable})
  IN  IF usable = <<>> THEN 0
      ELSE usable[Min({k \in DOMAIN usable : score(k) = best})]

(* What QualityGate.score reads of the pick; its spread is at most 6 percent. *)
DeltaClass(delta) ==
  CASE delta = NoValue -> "unknown" [] delta \in 45..65 -> "in_band"
    [] delta \in 35..44 \cup 66..75 -> "near" [] OTHER -> "out"

GammaClass(gamma) ==
  IF gamma = NoValue THEN "unknown" ELSE
  CASE gamma >= 10 -> "strong" [] gamma \in 5..9 -> "ok" [] OTHER -> "low"

IvClass(iv) ==
  CASE iv = NoValue -> "unknown" [] iv \in 0..19 -> "cheap" [] iv \in 20..60 -> "normal"
    [] iv \in 61..80 -> "elevated" [] OTHER -> "expensive"

SpreadClass(spread) == IF spread = NoValue THEN "unknown" ELSE "ok"

-----------------------------------------------------------------------------
(* minutes_to_expiry, expiry_bucket and tte_entry_adjustments: the size in
   percent and what is added to the minimum confidence; nothing changes when
   the scan had no snapshot to take a bucket from. *)
ExpiryAdjustment(minutes) ==
  IF minutes = NoValue THEN [size |-> 100, confidence |-> 0] ELSE
  CASE minutes >= 720 -> [size |-> 100, confidence |-> 0]
    [] minutes \in 240..719 -> [size |-> 85, confidence |-> 3]
    [] minutes \in 60..239  -> [size |-> 65, confidence |-> 5]
    [] minutes \in 30..59   -> [size |-> 45, confidence |-> 8]
    [] OTHER                -> [size |-> 20, confidence |-> 12]

(* IVHistory.rank, in percent *)
IvRank(history, iv) ==
  IF iv = NoValue \/ Len(history) < 10 THEN NoValue
  ELSE (100 * Len(SelectSeq(history, LAMBDA x : x <= iv))) \div Len(history)

(* build_vol_snapshot: the change of the IV since the last scan, or its slope
   over ten when the IV cannot be solved, in hundredths. *)
IvRegime(history, iv) ==
  LET change == IF iv # NoValue /\ history # <<>> THEN iv - Last(history)
                ELSE IF Len(history) >= 10 THEN Last(history) - history[Len(history) - 9]
                ELSE NoValue
  IN  CASE change = NoValue -> "unknown"
        [] change # NoValue /\ change >= 2 -> "expanding"
        [] change # NoValue /\ change <= -2 -> "contracting"
        [] OTHER -> "neutral"
=============================================================================
