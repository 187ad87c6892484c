------------------------------ MODULE AfterSaleMC ------------------------------
(***************************************************************************)
(* An order after its purchase, on small instances: the requests of        *)
(* returns of a delivered order (Returns), the refunds of its payments,    *)
(* two of its amount and one of a smaller one (Ledger), and the pages on   *)
(* which its customer and the administrators act (OrderPages), with a      *)
(* customer's page alone, with one of each, and with two administrators.   *)
(* A behaviour is one of one of these instances, which "part" names.       *)
(***************************************************************************)
EXTENDS Returns, Ledger, TLC

CONSTANTS v1, v2,         \* the lines of the delivered order
          p1, p2, p3,     \* the payments of the order
          c1, b1, a1, a2, \* a customer's page and those of administrators
          Nothing,
          Alone, Both, Desk \* the pages of an order, in each instance of OrderPages

VARIABLES part, log, over, shown, fetch, open, chosen, requests

pageVars == <<log, over, shown, fetch, open, chosen, requests>>

MCBought == (v1 :> 2 @@ v2 :> 1)
MCPrice == (v1 :> 2 @@ v2 :> 3)
MCOptions == (v1 :> {v1, v2} @@ v2 :> {v2})
MCStock == (v1 :> 0 @@ v2 :> 1)

MCAmount == (p1 :> 3 @@ p2 :> 3 @@ p3 :> 1)

\* The pages open on an order, the states it starts in and what may happen to it.
Setting(customers, admins, ticks, starts, sellable, maxLog, maxRequests) ==
  [customers |-> customers, admins |-> admins, ticks |-> ticks, starts |-> starts,
   sellable |-> sellable, maxLog |-> maxLog, maxRequests |-> maxRequests]

MCAlone ==
  Setting({c1}, {}, {"pay", "cancel", "return"},
          {PENDIENTE_PAGO, PAGO_RECHAZADO, PAGADO, DESPACHADO, ENTREGADO, CANCELADO},
          BOOLEAN, 3, 1)
MCBoth == Setting({c1}, {b1}, {}, {EN_PREPARACION}, {TRUE}, 3, 1)
MCDesk == Setting({}, {a1, a2}, {}, {PAGADO}, {TRUE}, 2, 2)

On(setting) == INSTANCE OrderPages WITH
  Customers <- setting.customers, Admins <- setting.admins, Ticks <- setting.ticks,
  Starts <- setting.starts, Sellable <- setting.sellable, MaxLog <- setting.maxLog,
  MaxRequests <- setting.maxRequests, None <- Nothing

NoPage ==
  /\ log = <<>> /\ over = {} /\ shown = <<>> /\ fetch = <<>>
  /\ open = <<>> /\ chosen = <<>> /\ requests = {}

MCInit ==
  /\ Init
  /\ LedgerInit
  /\ \/ part \in {"returns", "balance"} /\ NoPage
     \/ part = "customer" /\ On(Alone)!Init
     \/ part = "both" /\ On(Both)!Init
     \/ part = "administrators" /\ On(Desk)!Init

ReturnsNext == part = "returns" /\ Next /\ UNCHANGED <<part, ledgerVars, pageVars>>

BalanceNext == part = "balance" /\ LedgerNext /\ UNCHANGED <<part, vars, pageVars>>

PagesNext ==
  /\ \/ part = "customer" /\ On(Alone)!Next
     \/ part = "both" /\ On(Both)!Next
     \/ part = "administrators" /\ On(Desk)!Next
  /\ UNCHANGED <<part, vars, ledgerVars>>

MCNext == ReturnsNext \/ BalanceNext \/ PagesNext

MCSpec == MCInit /\ [][MCNext]_<<vars, ledgerVars, part, pageVars>>

Symmetry == Permutations(Request) \cup Permutations({a1, a2})

-----------------------------------------------------------------------------
(* What OrderPages promises, in the instances that are about it.           *)

\* What a page offers and announces is what the handlers do.  A customer's
\* action is accepted while nothing has changed, but for a retry of the payment;
\* the administrator's filter selects the orders whose row says that state of
\* the payment (customer-orders.service.ts:205-217, admin-orders.service.ts:417-449).
\* However the order moved while the dialog was open, a cancellation that is
\* accepted gives back the stock and the money that the dialog announced
\* (order-cancellation.service.ts:68-73, 107-150).  And no form asks for a
\* transition that the state it names does not admit (admin OrderDetail.tsx:332-338).
PagesDoWhatTheySay ==
  /\ part = "customer" =>
       On(Alone)!TypeOK /\ On(Alone)!OnlyRetryIsRefused /\ On(Alone)!PaymentFilterAgrees
  /\ part = "both" => On(Both)!TypeOK /\ On(Both)!CancelDoesWhatItSaid
  /\ part = "administrators" =>
       On(Desk)!TypeOK /\ On(Desk)!InvalidTransitionNever /\ On(Desk)!PaymentFilterAgrees
=============================================================================
