-------------------------------- MODULE Cart --------------------------------
(***************************************************************************)
(* The cart of one customer (cart/cart.service.ts) under his requests,     *)
(* his checkouts and their compensation (orders/checkout.service.ts).      *)
(*                                                                         *)
(* A request finds the active cart, reads the row it works on, and saves   *)
(* it, each in a statement of its own and without a lock.  (The save of    *)
(* the ORM reads the row by its id again before it writes; the two are one *)
(* step here.)  The checkout locks the cart, but none of the requests      *)
(* looks at that lock.                                                     *)
(*                                                                         *)
(* The confirmation of a merge with the cart of a guest runs one addition  *)
(* for each item at the same time, over one cart: they are requests of     *)
(* this module.                                                            *)
(***************************************************************************)
EXTENDS Integers, FiniteSets

CONSTANTS Variant,
          Request,    \* requests over the items of the cart
          Confirmation,  \* requests of confirm
          MaxCarts,   \* bound of the carts of the customer, in Create
          Quantities, \* what a request asks for, and what is available
          Prices,
          NONE

CartIds == 1..MaxCarts

VARIABLES
  available, price, purchasable,  \* the catalogue, by variant
  cartStatus,  \* of each cart, "sin_alta" before it exists
  items,       \* the row of each cart and variant, NoRow where there is none
  order,       \* what each checkout ordered
  pc,          \* what each request does next
  call,        \* what each request was asked, has read and will save
  newer,       \* the active cart a compensation found, 0 without one
  counted,     \* quantities that the saved operations add up to (history)
  overlapped,  \* a request saved over a row that moved (history)
  fresh        \* revalidations with nothing changed since they read (history)

catalogue == <<available, price, purchasable>>
history == <<counted, overlapped, fresh>>
vars == <<catalogue, cartStatus, items, order, pc, call, newer, history>>

\* A row is named by the request that inserted it.
NoRow == [id |-> NONE, quantity |-> 0, price |-> 0]
NoItems == [v \in Variant |-> NoRow]
Rows == [id : Request, quantity : Nat \ {0}, price : Prices]
NoOrder == [status |-> "sin_alta", cart |-> 0, lines |-> NoItems]

ItemOperations == { "add", "update", "remove" }
Operation == [type : ItemOperations \cup {"clear", "revalidate"},
              variant : Variant, quantity : Quantities \ {0}]
NoCall == [op |-> NONE]

Steps == { "idle", "creating", "rereading", "reading", "saving", "inserting",
           "racing", "asking", "compensating", "restoring", "clashed", "done" }

\* An available quantity is never negative, and a row holds at least a unit.
TypeOK ==
  /\ available \in [Variant -> Nat]
  /\ price \in [Variant -> Prices]
  /\ purchasable \in [Variant -> BOOLEAN]
  /\ cartStatus \in [CartIds -> {"sin_alta", "activo", "asociado_a_pedido", "borrado"}]
  /\ items \in [CartIds -> [Variant -> Rows \cup {NoRow}]]
  /\ \A c \in Confirmation : order[c].status \in {"sin_alta", "pendiente_pago", "cancelado"}
  /\ pc \in [Request \cup Confirmation -> Steps]
  /\ newer \in [Confirmation -> CartIds \cup {0}]
  /\ fresh \subseteq Request
  /\ overlapped \in BOOLEAN

Init ==
  /\ available \in [Variant -> Quantities]
  /\ price \in [Variant -> Prices]
  /\ purchasable = [v \in Variant |-> TRUE]
  /\ cartStatus = [k \in CartIds |-> "sin_alta"]
  /\ items = [k \in CartIds |-> NoItems]
  /\ order = [c \in Confirmation |-> NoOrder]
  /\ pc = [c \in Request \cup Confirmation |-> "idle"]
  /\ call = [c \in Request |-> NoCall]
  /\ newer = [c \in Confirmation |-> 0]
  /\ counted = [k \in CartIds |-> [v \in Variant |-> 0]]
  /\ overlapped = FALSE /\ fresh = {}

-----------------------------------------------------------------------------
(***************************************************************************)
(* Finding the cart.                                                       *)
(***************************************************************************)

Goto(c, step) == pc' = [pc EXCEPT ![c] = step]

Active == { k \in CartIds : cartStatus[k] = "activo" }

\* The unique index leaves one.
ActiveCart == CHOOSE k \in Active : TRUE

\* getOrCreateCart: a request comes in and looks for the active cart...
Find(c, op) ==
  /\ pc[c] = "idle"
  /\ call' = [call EXCEPT ![c] = [op |-> op, row |-> NoItems, entity |-> NoItems,
                                  cart |-> IF Active = {} THEN 0 ELSE ActiveCart]]
  /\ Goto(c, IF Active = {} THEN "creating" ELSE "reading")
  /\ UNCHANGED <<catalogue, cartStatus, items, order, newer, history>>

\* ... inserts one where it found none, unless another request did...
Create(c) ==
  /\ pc[c] = "creating"
  /\ \/ /\ Active # {}
        /\ Goto(c, "rereading")
        /\ UNCHANGED <<cartStatus, call>>
     \/ /\ Active = {}
        /\ \E k \in CartIds :
             /\ cartStatus[k] = "sin_alta"
             /\ \A j \in 1..(k - 1) : cartStatus[j] # "sin_alta"
             /\ cartStatus' = [cartStatus EXCEPT ![k] = "activo"]
             /\ call' = [call EXCEPT ![c].cart = k]
        /\ Goto(c, "reading")
  /\ UNCHANGED <<catalogue, items, order, newer, history>>

\* ... and then reads that one, if it is still active.
Reread(c) ==
  /\ pc[c] = "rereading"
  /\ \/ Active # {} /\ call' = [call EXCEPT ![c].cart = ActiveCart] /\ Goto(c, "reading")
     \/ Active = {} /\ UNCHANGED call /\ Goto(c, "done")
  /\ UNCHANGED <<catalogue, cartStatus, items, order, newer, history>>

-----------------------------------------------------------------------------
(***************************************************************************)
(* The operations on items.                                                *)
(***************************************************************************)

\* resolveItem.
Resolves(v, quantity) == purchasable[v] /\ available[v] >= quantity

\* The guards of addItem, confirmMerge, updateItemQuantity and removeItem,
\* where they found the row "found".
Accepts(op, found) ==
  \/ op.type = "add" /\ Resolves(op.variant, found.quantity + op.quantity)
  \/ /\ op.type = "update" /\ found # NoRow
     /\ op.quantity > found.quantity => Resolves(op.variant, op.quantity)
  \/ op.type = "remove" /\ found # NoRow

\* The row they leave.  The price is brought up to date where the quantity
\* goes up.
Changed(c, op, found) ==
  CASE op.type = "add" ->
         [id |-> IF found = NoRow THEN c ELSE found.id,
          quantity |-> found.quantity + op.quantity, price |-> price[op.variant]]
    [] op.type = "update" ->
         [found EXCEPT !.quantity = op.quantity,
                       !.price = IF op.quantity > found.quantity
                                   THEN price[op.variant] ELSE @]
    [] op.type = "remove" -> NoRow

ReadItem(c) ==
  /\ pc[c] = "reading"
  /\ LET op    == call[c].op
         found == items[call[c].cart][op.variant]
     IN /\ op.type \in ItemOperations
        /\ \/ /\ Accepts(op, found)
              /\ call' = [call EXCEPT ![c].row[op.variant] = found,
                                      ![c].entity[op.variant] = Changed(c, op, found)]
              /\ Goto(c, IF op.type = "add" /\ found = NoRow
                           THEN "inserting" ELSE "saving")
           \/ /\ ~Accepts(op, found)
              /\ UNCHANGED call
              /\ Goto(c, "done")
  /\ UNCHANGED <<catalogue, cartStatus, items, order, newer, history>>

\* The request c writes its row, with what it means to the history.
Write(c) ==
  LET op == call[c].op
  IN /\ items' = [items EXCEPT ![call[c].cart][op.variant] = call[c].entity[op.variant]]
     /\ counted' = [counted EXCEPT ![call[c].cart][op.variant] =
                       CASE op.type = "add"    -> @ + op.quantity
                         [] op.type = "update" -> op.quantity
                         [] op.type = "remove" -> 0]

\* The foreign key of an item.
Exists(c) == cartStatus[call[c].cart] # "borrado"

\* Whether save and remove, which go by the id of the row, find what to write:
\* a row that is gone is inserted again, and one that was replaced is in the
\* way of the unique index.
Writable(c, found, current) ==
  \/ current.id = found.id
  \/ current = NoRow /\ Exists(c) /\ call[c].op.type # "remove"

SaveItem(c) ==
  /\ pc[c] = "saving"
  /\ call[c].op.type \in ItemOperations
  /\ LET found   == call[c].row[call[c].op.variant]
         current == items[call[c].cart][call[c].op.variant]
     IN /\ IF Writable(c, found, current) THEN Write(c) ELSE UNCHANGED <<items, counted>>
        /\ overlapped' = (overlapped \/ current # found)
  /\ fresh' = {}
  /\ Goto(c, "done")
  /\ UNCHANGED <<catalogue, cartStatus, order, call, newer>>

\* upsertNewItem: its insertion.
InsertItem(c) ==
  /\ pc[c] = "inserting"
  /\ \/ /\ items[call[c].cart][call[c].op.variant] = NoRow
        /\ IF Exists(c) THEN Write(c) ELSE UNCHANGED <<items, counted>>
        /\ Goto(c, "done")
     \/ /\ items[call[c].cart][call[c].op.variant] # NoRow
        /\ UNCHANGED <<items, counted>>
        /\ Goto(c, "racing")
  /\ fresh' = {}
  /\ UNCHANGED <<catalogue, cartStatus, order, call, newer, overlapped>>

\* The row of the request that came first, with the quantity of this one.
Added(race, mine) == [race EXCEPT !.quantity = @ + mine.quantity, !.price = mine.price]

\* ... and, after a unique violation, the row of the request that came first.
RaceItem(c) ==
  /\ pc[c] = "racing"
  /\ LET v == call[c].op.variant
         race == items[call[c].cart][v]
     IN \/ /\ race # NoRow
           /\ call' = [call EXCEPT ![c].row[v] = race, ![c].entity[v] = Added(race, @)]
           /\ Goto(c, "saving")
        \/ race = NoRow /\ UNCHANGED call /\ Goto(c, "done")
  /\ UNCHANGED <<catalogue, cartStatus, items, order, newer, history>>

ClearItems(c) ==
  /\ pc[c] = "reading"
  /\ call[c].op.type = "clear"
  /\ items' = [items EXCEPT ![call[c].cart] = NoItems]
  /\ counted' = [counted EXCEPT ![call[c].cart] = [v \in Variant |-> 0]]
  /\ fresh' = {}
  /\ Goto(c, "done")
  /\ UNCHANGED <<catalogue, cartStatus, order, call, newer, overlapped>>

\* Mutant of Revalidated: a row whose quantity is fine keeps its price.
RevalidatedQuantity(v, row) ==
  IF row = NoRow \/ ~Resolves(v, 1) THEN NoRow
  ELSE IF row.quantity <= available[v] THEN row
  ELSE [row EXCEPT !.quantity = available[v], !.price = price[v]]

\* What revalidateForCheckout makes of a row.
Revalidated(v, row) ==
  IF row = NoRow \/ ~Resolves(v, 1) THEN NoRow
  ELSE [row EXCEPT !.quantity = IF @ > available[v] THEN available[v] ELSE @,
                   !.price = price[v]]

ReadAll(c) ==
  /\ pc[c] = "reading"
  /\ call[c].op.type = "revalidate"
  /\ LET rows == items[call[c].cart]
     IN call' = [call EXCEPT ![c].row = rows,
                             ![c].entity = [v \in Variant |-> Revalidated(v, rows[v])]]
  /\ fresh' = IF call[c].cart \in Active THEN fresh \cup {c} ELSE fresh
  /\ Goto(c, "saving")
  /\ UNCHANGED <<catalogue, cartStatus, items, order, newer, counted, overlapped>>

\* Its saves and removals, of the rows that have to change.
Revalidate(c) ==
  /\ pc[c] = "saving"
  /\ call[c].op.type = "revalidate"
  /\ LET k == call[c].cart
         rows == [v \in Variant |->
                    IF call[c].entity[v] = call[c].row[v] THEN items[k][v]
                    ELSE IF items[k][v].id = call[c].row[v].id THEN call[c].entity[v]
                    ELSE items[k][v]]
     IN /\ items' = [items EXCEPT ![k] = rows]
        /\ counted' = [counted EXCEPT ![k] = [v \in Variant |-> rows[v].quantity]]
        /\ overlapped' = (overlapped \/ items[k] # call[c].row)
  /\ fresh' = IF c \in fresh THEN fresh ELSE {}
  /\ Goto(c, "done")
  /\ UNCHANGED <<catalogue, cartStatus, order, call, newer>>

-----------------------------------------------------------------------------
(***************************************************************************)
(* The checkout.                                                           *)
(***************************************************************************)

\* The revalidation of confirm, and the condition of its reservation.
Problems(k) ==
  { v \in Variant : items[k][v] # NoRow /\ (~purchasable[v] \/ price[v] # items[k][v].price) }

Reservable(k) == \A v \in Variant : items[k][v].quantity <= available[v]

\* The transaction of confirm, where the total is the one the customer saw.
Confirm(c) ==
  /\ pc[c] = "idle"
  /\ \E k \in Active :
       /\ items[k] # NoItems
       /\ Problems(k) = {}
       /\ Reservable(k)
       /\ order' = [order EXCEPT ![c] = [status |-> "pendiente_pago", cart |-> k,
                                         lines |-> items[k]]]
       /\ available' = [v \in Variant |-> available[v] - items[k][v].quantity]
       /\ cartStatus' = [cartStatus EXCEPT ![k] = "asociado_a_pedido"]
  /\ Goto(c, "asking")
  /\ fresh' = {}
  /\ UNCHANGED <<price, purchasable, items, call, newer, counted, overlapped>>

\* The gateway opens the payment of the order, or refuses.
PreferenceRequested(c) ==
  /\ pc[c] = "asking"
  /\ \E step \in {"done", "compensating"} : Goto(c, step)
  /\ UNCHANGED <<catalogue, cartStatus, items, order, call, newer, history>>

\* Mutant of CancelOrder: the stock comes back and the order still waits.
CancelOrderStock(c) ==
  /\ available' = [v \in Variant |-> available[v] + order[c].lines[v].quantity]
  /\ fresh' = {}
  /\ UNCHANGED order

\* The order of c is cancelled, and its stock comes back.
CancelOrder(c) ==
  /\ order' = [order EXCEPT ![c].status = "cancelado"]
  /\ available' = [v \in Variant |-> available[v] + order[c].lines[v].quantity]
  /\ fresh' = {}

\* The customer or the time cancels it, while nobody has it locked.
OrderCancelled(c) ==
  /\ order[c].status = "pendiente_pago"
  /\ pc[c] # "restoring"
  /\ CancelOrder(c)
  /\ UNCHANGED <<price, purchasable, cartStatus, items, pc, call, newer, counted,
                 overlapped>>

\* compensateFailedPreference: its check of the order.
Compensates(c) == order[c].status = "pendiente_pago"

CompensationGivesUp(c) ==
  /\ pc[c] = "compensating"
  /\ ~Compensates(c)
  /\ Goto(c, "done")
  /\ UNCHANGED <<catalogue, cartStatus, items, order, call, newer, history>>

\* restoreAfterFailedCheckout: the active cart it finds, if it is empty.  A
\* cart the customer filled stays, and the one of the order is not restored.
CompensationLooks(c) ==
  /\ pc[c] = "compensating"
  /\ Compensates(c)
  /\ \/ /\ \E k \in Active : items[k] # NoItems
        /\ CancelOrder(c)
        /\ Goto(c, "done")
        /\ UNCHANGED newer
     \/ /\ \A k \in Active : items[k] = NoItems
        /\ newer' = [newer EXCEPT ![c] = IF Active = {} THEN 0 ELSE ActiveCart]
        /\ Goto(c, "restoring")
        /\ UNCHANGED <<order, available, fresh>>
  /\ UNCHANGED <<price, purchasable, cartStatus, items, call, counted, overlapped>>

\* ... which it deletes, and with it the items it has by then.
Restore(c) ==
  /\ pc[c] = "restoring"
  /\ Active \subseteq {newer[c]}
  /\ CancelOrder(c)
  /\ cartStatus' = [k \in CartIds |-> IF k = order[c].cart THEN "activo"
                                      ELSE IF k = newer[c] THEN "borrado"
                                      ELSE cartStatus[k]]
  /\ items' = [k \in CartIds |-> IF k = newer[c] THEN NoItems ELSE items[k]]
  /\ counted' = [k \in CartIds |-> IF k = newer[c] THEN [v \in Variant |-> 0]
                                   ELSE counted[k]]
  /\ Goto(c, "done")
  /\ UNCHANGED <<price, purchasable, call, newer, overlapped>>

\* Another cart was created since: the unique index refuses the update, and
\* the whole compensation is rolled back.
RestoreClashes(c) ==
  /\ pc[c] = "restoring"
  /\ ~(Active \subseteq {newer[c]})
  /\ Goto(c, "clashed")
  /\ UNCHANGED <<catalogue, cartStatus, items, order, call, newer, history>>

-----------------------------------------------------------------------------
(***************************************************************************)
(* The catalogue.                                                          *)
(***************************************************************************)

\* An administrator edits a product, or another customer buys.
CatalogueChanges ==
  /\ \E v \in Variant :
       \/ /\ \E p \in Prices \ {price[v]} : price' = [price EXCEPT ![v] = p]
          /\ UNCHANGED <<available, purchasable>>
       \/ /\ purchasable' = [purchasable EXCEPT ![v] = ~@]
          /\ UNCHANGED <<available, price>>
       \/ /\ available[v] > 0
          /\ available' = [available EXCEPT ![v] = @ - 1]
          /\ UNCHANGED <<price, purchasable>>
  /\ fresh' = {}
  /\ UNCHANGED <<cartStatus, items, order, pc, call, newer, counted, overlapped>>

Next ==
  \/ \E c \in Request :
       \/ \E op \in Operation : Find(c, op)
       \/ Create(c) \/ Reread(c)
       \/ ReadItem(c) \/ SaveItem(c) \/ InsertItem(c) \/ RaceItem(c)
       \/ ClearItems(c) \/ ReadAll(c) \/ Revalidate(c)
  \/ \E c \in Confirmation :
       \/ Confirm(c) \/ PreferenceRequested(c) \/ OrderCancelled(c)
       \/ CompensationGivesUp(c) \/ CompensationLooks(c) \/ Restore(c) \/ RestoreClashes(c)
  \/ CatalogueChanges

Spec == Init /\ [][Next]_vars

-----------------------------------------------------------------------------
(***************************************************************************)
(* Properties.                                                             *)
(***************************************************************************)

Waiting(c) == order[c].status = "pendiente_pago"

\* However requests, checkouts and compensations overlap, a cart that can be
\* edited is not that of an order that waits to be paid, and no two such
\* orders come from one cart (checkout.service.ts:453-467,
\* cart.service.ts:300-343).
EditableCartIsFree ==
  /\ \A c \in Confirmation : Waiting(c) => cartStatus[order[c].cart] # "activo"
  /\ \A c, d \in Confirmation :
       Waiting(c) /\ Waiting(d) /\ order[c].cart = order[d].cart => c = d

\* As long as no request saves over a row that moved since it read it, a cart
\* has what its operations add up to, also where two of them insert the same
\* row (cart.service.ts:425-447).
OperationsAddUp ==
  ~overlapped => \A k \in CartIds, v \in Variant : items[k][v].quantity = counted[k][v]

\* Where nothing changed since the cart was revalidated, the checkout accepts
\* it: the customer who confirms what he was shown is not sent back
\* (cart.service.ts:252-298, checkout.service.ts:192-206).
RevalidatedIsAccepted ==
  \A c \in fresh : pc[c] = "done" =>
    \A k \in Active : Problems(k) = {} /\ Reservable(k)

\* What the requests to one cart add up to, in its rows and for the checkout.
CartsAddUp == TypeOK /\ OperationsAddUp /\ RevalidatedIsAccepted

\* A deleted cart has no items, and no request gives it any
\* (cart.service.ts:434-447, cart-item.entity.ts:28-30).
DeletedCartsAreEmpty == \A k \in CartIds : cartStatus[k] = "borrado" => items[k] = NoItems
=============================================================================
