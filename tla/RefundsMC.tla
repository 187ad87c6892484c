------------------------------ MODULE RefundsMC ------------------------------
(***************************************************************************)
(* Refunds on a small instance: one row, and the calls that may be about   *)
(* it at once.                                                             *)
(***************************************************************************)
EXTENDS Refunds

CONSTANTS r1, w1, w2, w3
=============================================================================
