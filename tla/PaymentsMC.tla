----------------------------- MODULE PaymentsMC -----------------------------
(***************************************************************************)
(* Payments on a small instance: an order with two payments of its exact   *)
(* amount and one of a larger amount.                                      *)
(***************************************************************************)
EXTENDS Payments, TLC

CONSTANTS o1, v1, p1, p2, p3

MCLines == [ o \in Order |-> (v1 :> 1) ]

MCStock == (v1 :> 1)

MCPaidFor == [ p \in Payment |-> o1 ]

MCSubtotal == [ o \in Order |-> 2 ]

MCTotal == [ o \in Order |-> 3 ]

MCAmount == [ p \in Payment |-> IF p = p3 THEN 4 ELSE 3 ]
=============================================================================
