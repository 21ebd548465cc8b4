----------------------------- MODULE MCHandover -----------------------------
(* Instances of Handover for TLC.                                          *)
EXTENDS Handover, TLC

CONSTANTS small, big, rounded

(* An object with an integer above 2^53, and what is left of it.           *)
Rounding == (small :> small) @@ (big :> rounded) @@ (rounded :> rounded)
=============================================================================
