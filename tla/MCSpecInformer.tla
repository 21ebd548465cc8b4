--------------------------- MODULE MCSpecInformer ---------------------------
(* Instances of SpecInformer for TLC.                                      *)
EXTENDS SpecInformer, TLC

CONSTANTS d1, d2, apply, read

(* A document of each of two collections.                                  *)
TwoCollections == (d1 :> apply) @@ (d2 :> read)
=============================================================================
