----------------------------- MODULE StockAdjust -----------------------------
(***************************************************************************)
(* The adjustments an administrator makes to the stock of a variant        *)
(* (products/stock/stock.service.ts) next to the reservations and sales of *)
(* orders (StockReservation).                                              *)
(*                                                                         *)
(* adjust reads the row of the variant without a lock, checks it, and      *)
(* saves the entity it holds.  The save of the ORM is two statements of    *)
(* its own: a SELECT of the row, and an UPDATE of every column in which    *)
(* the entity differs from what that SELECT returned.  Orders move the row *)
(* before, between and after them.                                         *)
(***************************************************************************)
EXTENDS StockReservation, Sums

CONSTANTS Adjustment,  \* the calls of adjust
          Buyer,       \* orders, of one line each
          Quantities,  \* what a form or a line may ask for
          MaxStock     \* bound of a total, in the guard of Read

VARIABLES
  isActive,   \* product_variant.is_active
  threshold,  \* product.low_stock_threshold, no element where it is NULL
  held,       \* the line each order holds reserved, Nothing without one
  pc,         \* what each adjustment does next
  entity,     \* the variant as each adjustment read it, and its new total
  columns,    \* the columns its UPDATE will set
  recorded,   \* resulting_stock_total of the last movement of each variant
  overlapped  \* the row moved in the middle of some adjustment (history)

adjustVars == <<pc, entity, columns>>
vars == <<stockVars, isActive, threshold, held, adjustVars, recorded, overlapped>>

NULL == "null"
DEFAULT_LOW_STOCK_THRESHOLD == 1

Thresholds == {{}} \cup { {n} : n \in Quantities }

Columns == { "stockTotal", "stockReserved", "isActive" }
Row(v) == [ stockTotal |-> stockTotal[v], stockReserved |-> stockReserved[v],
            isActive |-> isActive[v] ]
OrderLines == [variant : Variant, quantity : Quantities \ {0}]
Nothing == [variant |-> NULL, quantity |-> 0]

\* A line as the batch of StockReservation.
Batch(line) == [v \in Variant |-> IF v = line.variant THEN line.quantity ELSE 0]

\* The reserved counter is never negative, although a stale save may leave a
\* total below zero.
TypeOK ==
  /\ stockTotal \in [Variant -> Int]
  /\ stockReserved \in [Variant -> Nat]
  /\ isActive \in [Variant -> BOOLEAN]
  /\ threshold \in Thresholds
  /\ held \in [Buyer -> OrderLines \cup {Nothing}]
  /\ pc \in [Adjustment -> {"idle", "saving", "updating", "done"}]
  /\ columns \in [Adjustment -> SUBSET Columns]
  /\ recorded \in [Variant -> Int]
  /\ overlapped \in BOOLEAN

NoEntity == [variant |-> NULL]

Init ==
  /\ stockTotal \in [Variant -> Quantities]
  /\ stockReserved = [v \in Variant |-> 0]
  /\ isActive = [v \in Variant |-> TRUE]
  /\ threshold = {}
  /\ held = [b \in Buyer |-> Nothing]
  /\ pc = [a \in Adjustment |-> "idle"]
  /\ entity = [a \in Adjustment |-> NoEntity]
  /\ columns = [a \in Adjustment |-> {}]
  /\ recorded = stockTotal
  /\ overlapped = FALSE

-----------------------------------------------------------------------------
(***************************************************************************)
(* adjust.                                                                 *)
(***************************************************************************)

MovementTypes == { "reposicion", "devolucion", "merma", "ajuste" }

\* computeNewTotal.
NewTotal(current, type, quantity) ==
  CASE type \in {"reposicion", "devolucion"} -> current + quantity
    [] type = "merma"  -> current - quantity
    [] type = "ajuste" -> quantity

\* CU-18 6b: not below what is reserved.
Fitting(v, total) == total >= stockReserved[v]

Read(a, v) ==
  /\ pc[a] = "idle"
  /\ isActive[v]
  /\ \E type \in MovementTypes, q \in Quantities :
       LET total == NewTotal(stockTotal[v], type, q)
       IN /\ Fitting(v, total)
          /\ total <= MaxStock
          /\ entity' = [entity EXCEPT ![a] =
                          [variant |-> v, was |-> Row(v),
                           row |-> [Row(v) EXCEPT !.stockTotal = total]]]
  /\ pc' = [pc EXCEPT ![a] = "saving"]
  /\ UNCHANGED <<stockVars, isActive, threshold, held, columns, recorded, overlapped>>

\* What the UPDATE of the entity sets, next to the row as it is now.
Differing(a) ==
  { c \in Columns : entity[a].row[c] # Row(entity[a].variant)[c] }

\* The row is no longer the one that was read.
Moved(a) == Row(entity[a].variant) # entity[a].was

\* manager.save: its SELECT.
Load(a) ==
  /\ pc[a] = "saving"
  /\ columns' = [columns EXCEPT ![a] = Differing(a)]
  /\ overlapped' = (overlapped \/ Moved(a))
  /\ pc' = [pc EXCEPT ![a] = "updating"]
  /\ UNCHANGED <<stockVars, isActive, threshold, held, entity, recorded>>

\* A column of the variant of the entity, where the UPDATE sets it.
Set(a, column, values) ==
  IF column \in columns[a]
    THEN [values EXCEPT ![entity[a].variant] = entity[a].row[column]]
    ELSE values

\* Mutant of Resulting: the total the adjustment found.
ResultingBefore(a) == entity[a].was.stockTotal

\* The result the movement states.
Resulting(a) == entity[a].row.stockTotal

\* ... and its UPDATE, with the movement it writes.
Update(a) ==
  /\ pc[a] = "updating"
  /\ stockTotal' = Set(a, "stockTotal", stockTotal)
  /\ stockReserved' = Set(a, "stockReserved", stockReserved)
  /\ isActive' = Set(a, "isActive", isActive)
  /\ recorded' = [recorded EXCEPT ![entity[a].variant] = Resulting(a)]
  /\ overlapped' = (overlapped \/ Moved(a))
  /\ pc' = [pc EXCEPT ![a] = "done"]
  /\ entity' = [entity EXCEPT ![a] = NoEntity]
  /\ columns' = [columns EXCEPT ![a] = {}]
  /\ UNCHANGED <<threshold, held>>

SetThreshold ==
  /\ threshold' \in Thresholds \ {threshold}
  /\ UNCHANGED <<stockVars, isActive, held, adjustVars, recorded, overlapped>>

-----------------------------------------------------------------------------
(***************************************************************************)
(* Orders, and the removal of a variant.                                   *)
(***************************************************************************)

OrderStep(b, line) ==
  /\ held' = [held EXCEPT ![b] = line]
  /\ UNCHANGED <<isActive, threshold, adjustVars, overlapped>>

Buy(b, line) ==
  /\ held[b] = Nothing
  /\ isActive[line.variant]
  /\ Reserve(Batch(line))
  /\ UNCHANGED <<stockTotal, recorded>>
  /\ OrderStep(b, line)

Cancel(b) ==
  /\ held[b] # Nothing
  /\ Release(Batch(held[b]))
  /\ UNCHANGED <<stockTotal, recorded>>
  /\ OrderStep(b, Nothing)

Pay(b) ==
  /\ held[b] # Nothing
  /\ ConfirmSale(Batch(held[b]), TRUE)
  /\ recorded' = [recorded EXCEPT ![held[b].variant] = stockTotal'[held[b].variant]]
  /\ OrderStep(b, Nothing)

\* The edition of a product takes a variant out while nothing of it is
\* reserved.
Withdraw(v) ==
  /\ isActive[v]
  /\ stockReserved[v] = 0
  /\ isActive' = [isActive EXCEPT ![v] = FALSE]
  /\ UNCHANGED <<stockVars, threshold, held, adjustVars, recorded, overlapped>>

Next ==
  \/ \E a \in Adjustment : (\E v \in Variant : Read(a, v)) \/ Load(a) \/ Update(a)
  \/ SetThreshold
  \/ \E b \in Buyer : (\E line \in OrderLines : Buy(b, line)) \/ Cancel(b) \/ Pay(b)
  \/ \E v \in Variant : Withdraw(v)

Spec == Init /\ [][Next]_vars

-----------------------------------------------------------------------------
(***************************************************************************)
(* The list of the panel.                                                  *)
(***************************************************************************)

Threshold ==
  IF threshold = {} THEN DEFAULT_LOW_STOCK_THRESHOLD ELSE CHOOSE n \in threshold : TRUE

\* toStockItem.
StockItem(v) ==
  [ isLowStock   |-> Available(v) > 0 /\ Available(v) <= Threshold,
    isOutOfStock |-> Available(v) <= 0 ]

\* The WHERE of list, where the first filter hides the second.
Listed(onlyOut, onlyLow) ==
  { v \in Variant :
      /\ isActive[v]
      /\ onlyOut => Available(v) <= 0
      /\ ~onlyOut /\ onlyLow => Available(v) > 0 /\ Available(v) <= Threshold }

-----------------------------------------------------------------------------
(***************************************************************************)
(* Properties.                                                             *)
(***************************************************************************)

\* What the orders hold of a variant.
Held(v) == SumOver([b \in Buyer |-> Batch(held[b])[v]], Buyer)

\* What is reserved is what orders hold.
ReservedIsHeld == \A v \in Variant : stockReserved[v] = Held(v)

\* The total covers what is reserved.
ReservedWithinTotal == \A v \in Variant : stockReserved[v] <= stockTotal[v]

\* Until a row moves in the middle of an adjustment, which adjust does not
\* prevent, both hold, the history of movements ends in the total, and a
\* variant that was taken out while nothing of it was reserved has nothing
\* reserved: the checks are enough where the adjustments come one at a time
\* (stock.service.ts:75-107).
AloneAdjustmentsAreExact ==
  ~overlapped =>
    /\ ReservedIsHeld
    /\ ReservedWithinTotal
    /\ recorded = stockTotal
    /\ \A v \in Variant : ~isActive[v] => stockReserved[v] = 0

\* The filters of the panel show the variants that carry the flag, whatever
\* the threshold and the stock (stock.service.ts:53-61, 174-175).
FiltersShowTheFlags ==
  /\ Listed(FALSE, TRUE) = { v \in Listed(FALSE, FALSE) : StockItem(v).isLowStock }
  /\ \A low \in BOOLEAN :
       Listed(TRUE, low) = { v \in Listed(FALSE, FALSE) : StockItem(v).isOutOfStock }
=============================================================================
