------------------------------ MODULE MCExchange ------------------------------
(* A model-checking instance of Exchange: three requests of different       *)
(* lengths, so that a budget of three begins each and the first one again.  *)
EXTENDS Exchange

Lengths == <<2, 1, 3>>
=============================================================================
