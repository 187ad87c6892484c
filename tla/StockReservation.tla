-------------------------- MODULE StockReservation --------------------------
(***************************************************************************)
(* The part of the inventory that orders move                              *)
(* (products/stock/stock-reservation.service.ts).  Each variant keeps      *)
(* stockTotal, the units in the warehouse, and stockReserved, the units of *)
(* them promised to orders that are not paid yet.                          *)
(*                                                                         *)
(* A batch of lines is a function from variants to quantities, 0 where the *)
(* batch has no line for the variant.  The service walks the lines one     *)
(* UPDATE at a time, inside the transaction of its caller; the row locks   *)
(* those UPDATEs take are held until that transaction ends, so a batch is  *)
(* one step here.                                                          *)
(***************************************************************************)
EXTENDS Integers

CONSTANT Variant

VARIABLES stockTotal,     \* product_variant.stock_total
          stockReserved   \* product_variant.stock_reserved

stockVars == <<stockTotal, stockReserved>>

StockTypeOK ==
  /\ stockTotal \in [Variant -> Nat]
  /\ stockReserved \in [Variant -> Nat]

Available(v) == stockTotal[v] - stockReserved[v]

\* The condition of the conditional UPDATE, for every line of the batch.
Fits(lines) == \A v \in Variant : lines[v] > 0 => Available(v) >= lines[v]

\* reserve: all or nothing.  Where the batch does not fit, the lines already
\* reserved are released again and nothing changes: the caller has ~Fits(lines).
Reserve(lines) ==
  /\ Fits(lines)
  /\ stockReserved' = [v \in Variant |-> stockReserved[v] + lines[v]]

\* release, with the GREATEST(stock_reserved - qty, 0) of the UPDATE.
Release(lines) ==
  stockReserved' =
    [v \in Variant |-> IF stockReserved[v] >= lines[v]
                         THEN stockReserved[v] - lines[v] ELSE 0]

\* The lines that confirmSale covers: out of the reservation while it stands,
\* otherwise out of what is available.  The others are its shortages.
Covered(lines, reservationActive) ==
  { v \in Variant :
      /\ lines[v] > 0
      /\ IF reservationActive THEN stockReserved[v] >= lines[v]
                              ELSE Available(v) >= lines[v] }

\* Mutant of ConfirmSale: the reserved counter drops without a reservation.
ConfirmSaleUnreserving(lines, reservationActive) ==
  LET taken == Covered(lines, reservationActive)
  IN /\ stockTotal' =
          [v \in Variant |->
             IF v \in taken THEN stockTotal[v] - lines[v] ELSE stockTotal[v]]
     /\ stockReserved' =
          [v \in Variant |->
             IF v \in taken THEN stockReserved[v] - lines[v] ELSE stockReserved[v]]

ConfirmSale(lines, reservationActive) ==
  LET taken == Covered(lines, reservationActive)
  IN /\ stockTotal' =
          [v \in Variant |->
             IF v \in taken THEN stockTotal[v] - lines[v] ELSE stockTotal[v]]
     /\ stockReserved' =
          [v \in Variant |->
             IF v \in taken /\ reservationActive
               THEN stockReserved[v] - lines[v] ELSE stockReserved[v]]

\* restockCancelledSale, for the lines of the variants in "back".
RestockCancelledSale(lines, back) ==
  stockTotal' =
    [v \in Variant |->
       IF v \in back THEN stockTotal[v] + lines[v] ELSE stockTotal[v]]

\* restockReturn: what came back, "good" of each variant.  Damaged units come
\* in and go out again, two movements that leave the counter as it was.
RestockReturn(good) == [v \in Variant |-> stockTotal[v] + good[v]]

\* takeForReplacement, for all the lines of a reception, out of what the
\* restock in the same transaction left.
TakeForReplacement(total, taken) ==
  /\ \A v \in Variant : taken[v] > 0 => total[v] - stockReserved[v] >= taken[v]
  /\ stockTotal' = [v \in Variant |-> total[v] - taken[v]]
=============================================================================
