---------------------------- MODULE MCHistoryLog ----------------------------
(* Refs are only compared for equality, so they are symmetric. *)
EXTENDS HistoryLog, TLC

RefSymmetry == Permutations(Refs)
=============================================================================
