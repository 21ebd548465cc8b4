---------------------------- MODULE MCReadDesire ----------------------------
(* Instances of ReadDesire for TLC.                                        *)
EXTENDS ReadDesire, TLC

TargetSymmetry == Permutations(Targets)
=============================================================================
