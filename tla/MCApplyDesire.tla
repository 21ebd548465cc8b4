--------------------------- MODULE MCApplyDesire ---------------------------
(* Instances of ApplyDesire for TLC.                                       *)
EXTENDS ApplyDesire, TLC

CONSTANTS d1, t1

OneTarget == (d1 :> t1)

WorkerSymmetry == Permutations(Workers)
=============================================================================
