--------------------------- MODULE MCTradingCore ---------------------------
(***************************************************************************)
(* Small instances of TradingCore for TLC.  Positions, tokens, entrants and*)
(* closers are interchangeable; the symmetry is used in safety runs only.  *)
(***************************************************************************)
EXTENDS TradingCore, TLC

Interchangeable ==
  Permutations(Positions) \cup Permutations(Tokens)
    \cup Permutations(Entrants) \cup Permutations(Closers)

WinOrLoss == {1, -1}
OnlyLoss == {-1}
=============================================================================
