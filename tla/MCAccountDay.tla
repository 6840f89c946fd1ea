---------------------------- MODULE MCAccountDay ----------------------------
(***************************************************************************)
(* Small instances of AccountDay for TLC.  The callers are interchangeable.*)
(***************************************************************************)
EXTENDS AccountDay, TLC

Interchangeable == Permutations(Callers)

OnlyLoss == {-1}
=============================================================================
