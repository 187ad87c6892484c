-------------------------- MODULE OrdersInventory --------------------------
(***************************************************************************)
(* Orders implements Inventory.  A unit is free when it is in the          *)
(* warehouse and not reserved; an order holds its units while its          *)
(* reservation is active and has bought those of its committed items.      *)
(***************************************************************************)
EXTENDS Orders

Inv == INSTANCE Inventory WITH
         free <- [v \in Variant |-> Available(v)],
         held <- HoldingOrders,
         sold <- stockCommitted

\* Every handler moves units in one of the five ways of Inventory, or not at
\* all: no handler releases a reservation another one already released, sells
\* part of what it holds, or returns a line that fell short
\* (orders.service.ts:127-214, stock-reservation.service.ts:31-164).
ImplementsInventory == Inv!Spec
=============================================================================
