-------------------------- MODULE MCDeleteDesire --------------------------
(* Instances of DeleteDesire for TLC.                                      *)
EXTENDS DeleteDesire, TLC

CONSTANTS d1, t1

OneTarget == (d1 :> t1)

WorkerSymmetry == Permutations(Workers)
=============================================================================
