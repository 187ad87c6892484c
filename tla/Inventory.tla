----------------------------- MODULE Inventory -----------------------------
(***************************************************************************)
(* What the inventory promises to the orders, without states of orders,    *)
(* payments or clocks.  A unit is free, held for one order or sold to one  *)
(* order.  An order holds all of its units or none of them, a sale takes   *)
(* exactly the held units or what it finds free of each line, and only     *)
(* what was sold comes back.                                               *)
(***************************************************************************)
EXTENDS Integers

CONSTANTS Order, Variant, Lines, InitialStock

VARIABLES free,   \* units of each variant that a new order can take
          held,   \* the orders whose units are set apart
          sold    \* the variants whose units each order took for good

vars == <<free, held, sold>>

Init ==
  /\ free = InitialStock
  /\ held = {}
  /\ sold = [o \in Order |-> {}]

\* Take units of the variants in S from what is free, or put them back.
Take(o, S) ==
  free' = [v \in Variant |-> IF v \in S THEN free[v] - Lines[o][v] ELSE free[v]]

PutBack(o, S) ==
  free' = [v \in Variant |-> IF v \in S THEN free[v] + Lines[o][v] ELSE free[v]]

Items(o) == { v \in Variant : Lines[o][v] > 0 }

InStock(o) == { v \in Items(o) : free[v] >= Lines[o][v] }

Hold(o) ==
  /\ o \notin held
  /\ sold[o] = {}
  /\ InStock(o) = Items(o)
  /\ Take(o, Items(o))
  /\ held' = held \cup {o}
  /\ UNCHANGED sold

Drop(o) ==
  /\ o \in held
  /\ PutBack(o, Items(o))
  /\ held' = held \ {o}
  /\ UNCHANGED sold

SellHeld(o) ==
  /\ o \in held
  /\ held' = held \ {o}
  /\ sold' = [sold EXCEPT ![o] = Items(o)]
  /\ UNCHANGED free

SellFree(o) ==
  /\ o \notin held
  /\ sold[o] = {}
  /\ Take(o, InStock(o))
  /\ sold' = [sold EXCEPT ![o] = InStock(o)]
  /\ UNCHANGED held

TakeBack(o) ==
  /\ o \notin held
  /\ sold[o] # {}
  /\ PutBack(o, sold[o])
  /\ sold' = [sold EXCEPT ![o] = {}]
  /\ UNCHANGED held

Next ==
  \E o \in Order :
    Hold(o) \/ Drop(o) \/ SellHeld(o) \/ SellFree(o) \/ TakeBack(o)

Spec == Init /\ [][Next]_vars
=============================================================================
