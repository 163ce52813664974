----------------------------- MODULE MCNoopPair -----------------------------
(* Two pair commands and one evaluate-add command share one data root.       *)
EXTENDS PairAudit, TLC

PairSymmetry == Permutations(PairProcs)
=============================================================================
