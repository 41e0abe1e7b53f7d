-------------------------- MODULE MCRedeemForPlayer --------------------------
(* A small instance of RedeemForPlayer: two codes of one type and one apart. *)
EXTENDS RedeemForPlayer

CONSTANTS c1, c2, c3

TwoOfOneType == [c \in Codes |-> IF c = c3 THEN 2 ELSE 1]
=============================================================================
