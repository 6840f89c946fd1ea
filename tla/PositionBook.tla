---------------------------- MODULE PositionBook ----------------------------
(***************************************************************************)
(* What the paper book promises, with none of its machinery: a position    *)
(* goes through its stages once and never back, a contract is held at most *)
(* once, at most MaxPositions are held, and the day's result and trade     *)
(* count change exactly when a position is settled.  Work that a failure   *)
(* interrupts is lost, and a lost position never reaches the account.      *)
(***************************************************************************)
EXTENDS Integers, FiniteSets

CONSTANTS Positions, Tokens, None, Pnls, MaxPositions

VARIABLES
  stage,     \* "none", "held", "leaving", "settled" or "lost"
  token,     \* the contract of a position, once it has been held
  realized,  \* the day's result
  trades     \* the day's number of trades

vars == <<stage, token, realized, trades>>

Held == {p \in Positions : stage[p] = "held"}

Init ==
  /\ stage = [p \in Positions |-> "none"]
  /\ token = [p \in Positions |-> None]
  /\ realized = 0
  /\ trades = 0

Open(p, t) ==
  /\ stage[p] = "none"
  /\ MaxPositions > 0 => Cardinality(Held) < MaxPositions
  /\ \A q \in Held : token[q] # t
  /\ stage' = [stage EXCEPT ![p] = "held"]
  /\ token' = [token EXCEPT ![p] = t]
  /\ UNCHANGED <<realized, trades>>

Leave(p) ==
  /\ stage[p] = "held"
  /\ stage' = [stage EXCEPT ![p] = "leaving"]
  /\ UNCHANGED <<token, realized, trades>>

Settle(p, pnl) ==
  /\ stage[p] = "leaving"
  /\ stage' = [stage EXCEPT ![p] = "settled"]
  /\ realized' = realized + pnl
  /\ trades' = trades + 1
  /\ UNCHANGED token

\* An interrupted close, or a row written for an entry that never got to the
\* book: the row names a contract, the account knows nothing of it.
Lose(p) ==
  /\ stage[p] \in {"none", "leaving"}
  /\ stage' = [stage EXCEPT ![p] = "lost"]
  /\ \E t \in Tokens : token' = [token EXCEPT ![p] = t]
  /\ stage[p] = "leaving" => token' = token
  /\ UNCHANGED <<realized, trades>>

Next ==
  \E p \in Positions :
    \/ \E t \in Tokens : Open(p, t)
    \/ Leave(p)
    \/ \E pnl \in Pnls : Settle(p, pnl)
    \/ Lose(p)

Spec == Init /\ [][Next]_vars
=============================================================================
