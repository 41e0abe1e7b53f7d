--------------------------- MODULE MCRedeemEngine ---------------------------
(* Small instances of RedeemEngine. *)
EXTENDS RedeemEngine, TLC

\* Jobs are interchangeable: no definition tells two of them apart.
JobSymmetry == Permutations(Jobs)
=============================================================================
