------------------------------- MODULE CheckoutMC -------------------------------
(***************************************************************************)
(* The purchase on small instances: the payment links of an order          *)
(* (PaymentLinks), the page on which a customer confirms it while prices,  *)
(* methods, cart or addresses change elsewhere or while requests fail      *)
(* (CheckoutPage), and the administration of the shipping methods that     *)
(* page offers (ShippingMethods), one request at a time or two that        *)
(* overlap.  A behaviour is one of one of these, which "part" names.       *)
(***************************************************************************)
EXTENDS PaymentLinks, TLC

CONSTANTS r1, r2, cc,   \* calls that open a payment link
          p1, p2,       \* products, interchangeable
          m1, m2,       \* the shipping methods of the checkout, interchangeable
          d1, d2,       \* addresses
          s1, s2,       \* methods as the administrators see them,
          n1, n2,       \* their names
          x, y,         \* and the administrators, all interchangeable
          Nothing

CONSTANTS Products, Ways, Addrs, Amounts, Texts, Together, MaxChanges \* of CheckoutPage
CONSTANTS Methods, Admins, Names, Costs, Apart \* of ShippingMethods

VARIABLES part,
          price, cart, cost, book, page, request, orders, unasked, happened, changes,
          row, pages, req, wanted, warned, met

checkoutVars == <<price, cart, cost, book, page, request, orders, unasked, happened, changes>>
methodVars == <<row, pages, req, wanted, warned, met>>

Buying == INSTANCE CheckoutPage WITH Methods <- Ways, None <- Nothing

Switching == INSTANCE ShippingMethods WITH None <- Nothing, page <- pages

NoCheckout ==
  /\ price = <<>> /\ cart = <<>> /\ cost = <<>> /\ book = <<>> /\ page = <<>>
  /\ request = Nothing /\ orders = {} /\ unasked = FALSE
  /\ happened = {} /\ changes = 0

NoMethods ==
  /\ row = <<>> /\ pages = <<>> /\ req = <<>> /\ wanted = <<>> /\ warned = FALSE /\ met = {}

MCInit ==
  /\ Init
  /\ \/ part = "links" /\ NoCheckout /\ NoMethods
     \/ part = "page" /\ Buying!Init /\ NoMethods
     \/ part = "methods" /\ NoCheckout /\ Switching!Init

LinksNext == part = "links" /\ Next /\ UNCHANGED <<part, checkoutVars, methodVars>>

PageNext ==
  part = "page" /\ Buying!Next /\ UNCHANGED <<part, vars, methodVars>>

MethodsNext ==
  part = "methods" /\ Switching!Next /\ UNCHANGED <<part, vars, checkoutVars>>

MCNext == LinksNext \/ PageNext \/ MethodsNext

MCSpec == MCInit /\ [][MCNext]_<<part, vars, checkoutVars, methodVars>>

Symmetry ==
  Permutations({p1, p2}) \cup Permutations({m1, m2}) \cup Permutations({s1, s2}) \cup Permutations({n1, n2})
  \cup Permutations({x, y})

-----------------------------------------------------------------------------
(* What CheckoutPage promises.                                             *)

\* Whatever changes elsewhere and fails, an order has the total of the summary
\* that was confirmed.  While the customer changes the cart in no other tab, it
\* has the items and prices that the page shows, and a checkout places one order,
\* however often it is confirmed.  While no answer is lost, no order follows an
\* adjustment that nobody acknowledged (checkout.service.ts:184-217,
\* Checkout.tsx:58-66, 147).
OrderIsAsSeen ==
  part = "page" => Buying!TypeOK /\ Buying!OrderIsAsSeen

-----------------------------------------------------------------------------
(* What ShippingMethods promises.                                          *)

\* While requests do not overlap, a method is on or off as the last switch left
\* it, and keeps a name of its own: an edit, from a list of any age, does not
\* turn it.  Whoever leaves the checkout without methods is told, even when two
\* administrators turn off the last two at once
\* (admin-shipping-methods.service.ts:30-69).
MethodsAreAsSwitched ==
  part = "methods" => Switching!TypeOK /\ Switching!MethodsAreAsSwitched
=============================================================================
