-------------------------------- MODULE Sums --------------------------------
(***************************************************************************)
(* The code's `sum(... for ...)` over the rows or positions in a set.      *)
(***************************************************************************)
EXTENDS FiniteSets, FiniteSetsExt

SumOver(f, S) == MapThenSumSet(LAMBDA p : f[p], S)
=============================================================================
