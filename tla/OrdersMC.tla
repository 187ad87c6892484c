------------------------------ MODULE OrdersMC ------------------------------
(***************************************************************************)
(* Orders on a small instance: orders that compete for the same variant,   *)
(* one of them with lines of two variants so that it can be covered in     *)
(* part.                                                                   *)
(***************************************************************************)
EXTENDS OrdersInventory, TLC

CONSTANTS o1, o2, o3, v1, v2

MCLines ==
  [ o \in Order |->
      CASE o = o1 -> (v1 :> 2 @@ v2 :> 1)
        [] o = o2 -> (v1 :> 1 @@ v2 :> 1)
        [] OTHER  -> (v1 :> 1 @@ v2 :> 0) ]

MCStock == (v1 :> 2 @@ v2 :> 1)
=============================================================================
