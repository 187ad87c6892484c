---------------------------- MODULE PaymentsLiveMC ----------------------------
(***************************************************************************)
(* What the cron jobs of orders and payments bring about: the expiration   *)
(* of reservations, with two orders that compete for stock (Orders), and   *)
(* the reconciliation of the orders that wait, with two payments of one    *)
(* order (Payments).  A behaviour is one of either, which "part" names; in *)
(* each only its own cron job is fair.                                     *)
(***************************************************************************)
EXTENDS PaymentsMC

CONSTANTS o2, v2

VARIABLE part

all == <<part, pvars>>

Waiting == INSTANCE Orders WITH
  Order <- {o1, o2}, Variant <- {v1, v2},
  Lines <- (o1 :> (v1 :> 2 @@ v2 :> 1) @@ o2 :> (v1 :> 1 @@ v2 :> 1)),
  InitialStock <- (v1 :> 2 @@ v2 :> 1)

LiveInit ==
  \/ part = "payments" /\ PInit
  \/ /\ part = "orders" /\ Waiting!Init
     /\ gatewayStatus = [p \in Payment |-> SIN_PAGO] /\ answers = [p \in Payment |-> {}]
     /\ paymentStatus = [p \in Payment |-> SIN_REGISTRO] /\ refunded = [p \in Payment |-> 0]

PaymentsDo(step) == part = "payments" /\ step /\ UNCHANGED part
OrdersDo(step) == part = "orders" /\ step /\ UNCHANGED <<part, paymentVars>>

LiveNext == PaymentsDo(PNext) \/ OrdersDo(Waiting!Next)

\* reconcileAwaitingOrders runs again and again.
PaymentsFairness ==
  \A p \in Payment : WF_all(PaymentsDo(gatewayStatus[p] # SIN_PAGO /\ Reconcile(p)))

\* Time passes, and the cron of expireReservations runs every ten minutes.
OrdersFairness ==
  \A o \in {o1, o2} :
    /\ WF_all(OrdersDo(Waiting!ReservationLapses(o)))
    /\ WF_all(OrdersDo(Waiting!ExpireReservation(o)))

LiveSpec == LiveInit /\ [][LiveNext]_all /\ PaymentsFairness /\ OrdersFairness

-----------------------------------------------------------------------------
(* ApprovalEndsTheWait is that of Payments; this one is about Orders.      *)

\* An order does not wait for its payment for ever, and so no reservation is held
\* for ever: it is paid or cancelled, although rejections and retries may take
\* the reservation again, and a retry does not move the date
\* (orders.service.ts:271-273, checkout.service.ts:304-305).
EveryWaitEnds ==
  \A o \in {o1, o2} :
    (part = "orders" /\ status[o] \in AWAITING_PAYMENT_STATUSES)
      ~> (part = "orders" /\ status[o] \notin AWAITING_PAYMENT_STATUSES)
=============================================================================
