---------------------------- MODULE CheckoutPage ----------------------------
(***************************************************************************)
(* The checkout of a customer: the page (account/Checkout.tsx) that        *)
(* revalidates the cart, takes an address and a shipping method, shows a   *)
(* summary and confirms it, over the handlers of checkout.service.ts.      *)
(* Meanwhile the administrator changes prices and shipping costs, and the  *)
(* customer changes the cart and the address book in another tab.  What    *)
(* the page shows is as old as its last answer; a confirmation carries the *)
(* total of the summary and nothing else of it.                            *)
(***************************************************************************)
EXTENDS Naturals, FiniteSets, FiniteSetsExt

CONSTANTS Products, Methods, Addrs, None,
          Amounts,    \* prices and shipping costs
          Texts,      \* what an address says
          Together,   \* bound: what may happen in one behaviour, sets of Trouble
          MaxChanges  \* bound: how often something changes elsewhere

\* What changes elsewhere, and what fails.
Elsewhere == { "catalogue", "methods", "cart", "book" }
Outages == { "lost", "gateway" }
Trouble == Elsewhere \cup Outages

VARIABLES
  price,    \* of each product; None when it cannot be bought
  cart,     \* the price snapshot of each item; None when it is not in the cart
  cost,     \* of each shipping method; None when it is not active
  book,     \* what each address says; None when it is not in the book
  page,     \* what the page holds
  request,  \* what the confirmation under way has read
  orders,   \* the orders placed and not cancelled
  unasked,  \* an adjustment of this checkout that nobody has acknowledged
  happened, \* the trouble so far (history)
  changes   \* how often something changed elsewhere

vars == <<price, cart, cost, book, page, request, orders, unasked, happened, changes>>
server == <<price, cart, cost, book>>
history == <<happened, changes>>

Happens(what) ==
  happened' = happened \cup {what} /\ \E t \in Together : happened' \subseteq t

Items == [Products -> Amounts \cup {None}]
NoItems == [p \in Products |-> None]
In(items) == { p \in Products : items[p] # None }
Subtotal(items) == MapThenSumSet(LAMBDA p : items[p], In(items))

Keys == Addrs \X Methods
Key == <<page.addr, page.ship>>
Chosen == page.addr # None /\ page.ship # None
\* quote.data
Shown == IF Chosen THEN page.quotes[Key] ELSE None

Init ==
  /\ price \in [Products -> Amounts] /\ cart \in { c \in Items : In(c) # {} }
  /\ cost \in [Methods -> Amounts] /\ book = [a \in Addrs |-> CHOOSE x \in Texts : TRUE]
  /\ page = [reval |-> "pending", cart |-> NoItems, acked |-> TRUE, addr |-> None, ship |-> None,
             offered |-> {}, texts |-> book, quotes |-> [k \in Keys |-> None], refetch |-> FALSE,
             confirm |-> "idle"]
  /\ request = None /\ orders = {} /\ unasked = FALSE /\ happened = {} /\ changes = 0

-----------------------------------------------------------------------------
(***************************************************************************)
(* Revalidation, on entering and after a refusal.  It adjusts the cart     *)
(* before it answers: a second one finds nothing to adjust.                *)
(***************************************************************************)
\* Mutant of Acknowledged: the page goes on without asking.
AcknowledgedAlways(adjusted) == TRUE

Acknowledged(adjusted) == ~adjusted

Adjusted == [p \in Products |-> IF cart[p] = None THEN None ELSE price[p]]

Revalidate ==
  /\ page.reval = "pending"
  /\ cart' = Adjusted
  /\ unasked' = (unasked \/ Adjusted # cart)
  /\ \/ /\ page' = [page EXCEPT !.reval = "ok", !.cart = Adjusted,
                                !.acked = Acknowledged(Adjusted # cart),
                                !.refetch = @ \/ page.confirm = "stale",
                                !.confirm = IF @ = "stale" THEN "idle" ELSE @]
        /\ UNCHANGED history
     \/ /\ Happens("lost") /\ UNCHANGED changes
        /\ page' = [page EXCEPT !.reval = "failed", !.confirm = "idle"]
  /\ UNCHANGED <<price, cost, book, request, orders>>

RetryRevalidation ==
  /\ page.reval = "failed"
  /\ page' = [page EXCEPT !.reval = "pending"]
  /\ UNCHANGED <<server, request, orders, unasked, history>>

\* The rest of the page is there once the cart is revalidated and not empty.
Open == page.reval = "ok" /\ In(page.cart) # {}

Acknowledge ==
  /\ Open /\ ~page.acked
  /\ page' = [page EXCEPT !.acked = TRUE]
  /\ unasked' = FALSE
  /\ UNCHANGED <<server, request, orders, history>>

-----------------------------------------------------------------------------
(***************************************************************************)
(* The steps of the page, each with the answer of its handler.             *)
(***************************************************************************)
SelectAddress(a) ==
  /\ Open /\ page.texts[a] # None
  /\ page' = [page EXCEPT !.addr = a, !.ship = None]
  /\ UNCHANGED <<server, request, orders, unasked, history>>

\* createAddress: the new one is selected.
CreateAddress(a) ==
  /\ Open /\ book[a] = None
  /\ \E x \in Texts :
       /\ book' = [book EXCEPT ![a] = x]
       /\ page' = [page EXCEPT !.addr = a, !.ship = None, !.texts[a] = x]
  /\ UNCHANGED <<price, cart, cost, request, orders, unasked, history>>

LoadBook ==
  /\ page' = [page EXCEPT !.texts = book]
  /\ UNCHANGED <<server, request, orders, unasked, history>>

Active == { m \in Methods : cost[m] # None }

\* listShippingMethods; an error leaves the list as it was.
LoadMethods ==
  /\ page.addr # None /\ book[page.addr] # None /\ Active # {}
  /\ page' = [page EXCEPT !.offered = Active]
  /\ UNCHANGED <<server, request, orders, unasked, history>>

SelectMethod(m) ==
  /\ Open /\ page.addr # None /\ m \in page.offered
  /\ page' = [page EXCEPT !.ship = m, !.refetch = TRUE]
  /\ UNCHANGED <<server, request, orders, unasked, history>>

Valid(a, m) == book[a] # None /\ cost[m] # None

\* quote; an error leaves the summary as it was.
Quote ==
  /\ Chosen /\ (page.refetch \/ page.reval = "ok")
  /\ LET q == [items |-> cart, cost |-> cost[page.ship], total |-> Subtotal(cart) + cost[page.ship]]
     IN page' = [page EXCEPT !.refetch = FALSE,
          !.quotes[Key] = IF Valid(page.addr, page.ship) /\ In(cart) # {} THEN q ELSE @]
  /\ UNCHANGED <<server, request, orders, unasked, history>>

-----------------------------------------------------------------------------
(***************************************************************************)
(* Confirmation.  The address and the method are read first; the items and *)
(* their prices under the lock of the cart.                                *)
(***************************************************************************)
\* onConfirm, and what disables its button
Confirm ==
  /\ Open /\ Shown # None /\ page.acked /\ page.confirm = "idle"
  /\ page' = [page EXCEPT !.confirm = "pending"]
  /\ request' = [addr |-> page.addr, ship |-> page.ship, seen |-> Shown,
                 read |-> FALSE, text |-> None, cost |-> None]
  /\ UNCHANGED <<server, orders, unasked, history>>

Answer(to) == request' = None /\ page' = [page EXCEPT !.confirm = to]

ReadChoice ==
  /\ page.confirm = "pending" /\ ~request.read
  /\ IF Valid(request.addr, request.ship)
     THEN /\ request' = [request EXCEPT !.read = TRUE, !.text = book[request.addr], !.cost = cost[request.ship]]
          /\ UNCHANGED page
     ELSE Answer("idle")
  /\ UNCHANGED <<server, orders, unasked, history>>

Problems == { p \in In(cart) : price[p] # cart[p] }

TotalChanged(total) == total # request.seen.total

\* Mutant of Refused: the page shows why and no more.
RefusedStays == [page EXCEPT !.confirm = "idle"]

\* CHECKOUT_STALE: the page shows why and revalidates.
Refused == [page EXCEPT !.confirm = "stale", !.reval = "pending"]

Stale ==
  /\ request' = None
  /\ page' = Refused
  /\ UNCHANGED <<cart, orders, history>>

\* The cart of an order is not the customer's any more.
Associated == NoItems

Place ==
  /\ page.confirm = "pending" /\ request.read
  /\ LET total == Subtotal(Adjusted) + request.cost
         order == [no |-> Cardinality(orders), items |-> Adjusted, cost |-> request.cost, text |-> request.text,
                   total |-> total, seen |-> request.seen, shown |-> page.cart, unasked |-> unasked]
     IN \/ In(cart) = {} /\ Answer("idle") /\ UNCHANGED <<cart, orders, history>>
        \/ In(cart) # {} /\ (Problems # {} \/ TotalChanged(total)) /\ Stale
        \/ /\ In(cart) # {} /\ Problems = {} /\ ~TotalChanged(total)
           /\ \/ /\ cart' = Associated /\ orders' = orders \cup {order}
                 /\ \/ Answer("done") /\ UNCHANGED history
                    \/ Answer("idle") /\ Happens("lost") /\ UNCHANGED changes
              \/ Answer("idle") /\ Happens("gateway") /\ UNCHANGED <<cart, orders, changes>>
  /\ UNCHANGED <<price, cost, book, unasked>>

-----------------------------------------------------------------------------
Change(what) ==
  /\ changes < MaxChanges /\ changes' = changes + 1
  /\ Happens(what)
  /\ UNCHANGED <<page, request, orders, unasked>>

ChangeCatalogue == \E p \in Products, x \in Amounts \cup {None} :
  Change("catalogue") /\ price' = [price EXCEPT ![p] = x] /\ UNCHANGED <<cart, cost, book>>

ChangeMethods == \E m \in Methods, x \in Amounts \cup {None} :
  Change("methods") /\ cost' = [cost EXCEPT ![m] = x] /\ UNCHANGED <<price, cart, book>>

ChangeCart == \E p \in Products :
  Change("cart") /\ cart' = [cart EXCEPT ![p] = IF @ = None THEN price[p] ELSE None] /\ UNCHANGED <<price, cost, book>>

ChangeBook == \E a \in Addrs, x \in Texts \cup {None} :
  Change("book") /\ book' = [book EXCEPT ![a] = x] /\ UNCHANGED <<price, cart, cost>>

PageLoads == Revalidate \/ LoadBook \/ LoadMethods \/ Quote
Customer ==
  \/ RetryRevalidation \/ Acknowledge \/ Confirm
  \/ \E a \in Addrs : SelectAddress(a) \/ CreateAddress(a)
  \/ \E m \in Methods : SelectMethod(m)
Next ==
  \/ PageLoads \/ Customer \/ ReadChoice \/ Place
  \/ ChangeCatalogue \/ ChangeMethods \/ ChangeCart \/ ChangeBook

Spec == Init /\ [][Next]_vars

\* A refused summary is loaded again.
Refetch == page.refetch /\ Quote
-----------------------------------------------------------------------------
\* What the page and the request under way may hold.
TypeOK ==
  /\ cart \in Items /\ page.cart \in Items
  /\ page.confirm \in { "idle", "pending", "stale", "done" } /\ page.offered \subseteq Methods
  /\ (page.confirm = "pending") = (request # None)
  /\ page.confirm = "stale" => page.reval = "pending"
  /\ page.ship # None => page.addr # None

\* The amount is always that of the summary (checkout.service.ts 209-217).
TotalIsAsSeen == \A o \in orders : o.total = o.seen.total

\* The order has the items and prices that the page shows.
ItemsWereShown == \A o \in orders : o.items = o.shown

\* "Si se ajusto el carrito, hay que reconfirmar antes de seguir" (58-59).
AdjustedIsReconfirmed == \A o \in orders : ~o.unasked

\* A checkout places one order, however often it is confirmed (184-185).
OneOrder == Cardinality(orders) <= 1

\* While his cart changes nowhere else, the customer gets what he was shown, and
\* once; while no answer is lost, every adjustment was acknowledged.
OrderIsAsSeen ==
  /\ TotalIsAsSeen
  /\ "cart" \notin happened => ItemsWereShown /\ OneOrder
  /\ "lost" \notin happened => AdjustedIsReconfirmed

Ready == Open /\ Shown # None /\ Valid(page.addr, page.ship) /\ In(cart) # {} /\ page.confirm = "idle"
Elsewise == In(cart) = {} \/ ~Chosen \/ ~Valid(page.addr, page.ship)

\* Once nothing changes, a customer who keeps confirming gets the order.
KeenCustomerOrders == [](Ready => <>(orders # {} \/ Elsewise))
=============================================================================
