------------------------------ MODULE Payments ------------------------------
(***************************************************************************)
(* The payments of the orders: payments/payments.service.ts, which learns  *)
(* from the gateway what became of a payment, and the part of              *)
(* payments/ledger/payment-ledger.service.ts that commits a refund in the  *)
(* transaction of whoever asks for it.  Orders gives the effect of each    *)
(* outcome on the order.                                                   *)
(*                                                                         *)
(* processPayment asks the gateway first and takes the row lock of the     *)
(* order later, so what it applies is any answer the gateway has given for *)
(* that payment, the last one or an older one: notifications are           *)
(* repeated, delayed, lost and overtaken.  Below the lock it is one step.  *)
(*                                                                         *)
(* Amounts are cents.  A refund counts as committed from the moment it is  *)
(* recorded; what happens to it later does not concern this module.        *)
(***************************************************************************)
EXTENDS Orders, Sums

CONSTANTS Payment,    \* the payments customers may ever start at the gateway
          PaidFor,    \* PaidFor[p]: the order in the external reference of p
          Amount,     \* Amount[p]: what the gateway charges for p
          Total,      \* Total[o] = Subtotal[o] and the cost of shipping
          Subtotal

ASSUME PaymentsAssumption ==
  /\ PaidFor \in [Payment -> Order]
  /\ Amount \in [Payment -> Nat]
  /\ Total \in [Order -> Nat]
  /\ Subtotal \in [Order -> Nat \ {0}]
  /\ \A o \in Order : Subtotal[o] <= Total[o]

\* PaymentStatus.  CANCELADO is the same word as in OrderStatus.
PENDIENTE_ACREDITACION == "pendiente_acreditacion"
APROBADO               == "aprobado"
RECHAZADO              == "rechazado"

FINAL_PAYMENT_STATUSES == { APROBADO, RECHAZADO, CANCELADO }

\* The payment has no row yet.
SIN_REGISTRO == "sin_registro"

PaymentStatuses == FINAL_PAYMENT_STATUSES \cup { PENDIENTE_ACREDITACION, SIN_REGISTRO }

\* The answers of the gateway; "in_process" and "authorized" read as "pending".
STATUS_MAP ==
  [ approved  |-> APROBADO,
    rejected  |-> RECHAZADO,
    cancelled |-> CANCELADO,
    pending   |-> PENDIENTE_ACREDITACION ]

GatewayStatuses == DOMAIN STATUS_MAP

SIN_PAGO == "sin_pago"

\* A charge that succeeded may still be cancelled at the gateway.
GatewayTransitions ==
  ( {SIN_PAGO} \X {"approved", "rejected", "pending"} )
    \cup ( {"pending"} \X {"approved", "rejected", "cancelled"} )
    \cup { <<"approved", "cancelled">> }

VARIABLES
  gatewayStatus,  \* the payment at the gateway
  answers,        \* every status the gateway has had for the payment
  paymentStatus,  \* payment.status
  refunded        \* cents of the payment in refunds that keep their balance

gatewayVars == <<gatewayStatus, answers>>
paymentVars == <<gatewayVars, paymentStatus, refunded>>
pvars == <<vars, paymentVars>>

PInit ==
  /\ Init
  /\ gatewayStatus = [p \in Payment |-> SIN_PAGO]
  /\ answers = [p \in Payment |-> {}]
  /\ paymentStatus = [p \in Payment |-> SIN_REGISTRO]
  /\ refunded = [p \in Payment |-> 0]

\* Every variable holds values of its kind, and no payment gives back more
\* cents than it charged.
PTypeOK ==
  /\ TypeOK
  /\ gatewayStatus \in [Payment -> GatewayStatuses \cup {SIN_PAGO}]
  /\ answers \in [Payment -> SUBSET GatewayStatuses]
  /\ paymentStatus \in [Payment -> PaymentStatuses]
  /\ refunded \in [Payment -> Nat]

-----------------------------------------------------------------------------
(***************************************************************************)
(* Refunds.                                                                *)
(***************************************************************************)

Refundable(p) == Amount[p] - refunded[p]

\* requestRefund: against one approved payment with balance enough, the oldest
\* of them in the code, any of them here.  No such payment, no refund.
RequestRefund(o, candidates, amount) ==
  LET eligible == { p \in candidates : /\ PaidFor[p] = o
                                       /\ paymentStatus'[p] = APROBADO
                                       /\ Refundable(p) >= amount }
  IN IF amount > 0 /\ eligible # {}
       THEN \E p \in eligible :
              refunded' = [refunded EXCEPT ![p] = @ + amount]
       ELSE UNCHANGED refunded

\* What a cancellation gives back: the shipping too, until the dispatch.
CancellationAmount(o) == IF status[o] = DESPACHADO THEN Subtotal[o] ELSE Total[o]

\* Mutant of CancellationRefund: only an order that is just paid gives back.
RefundIfJustPaid(o) ==
  IF status[o] = PAGADO THEN RequestRefund(o, Payment, CancellationAmount(o))
                        ELSE UNCHANGED refunded

CancellationRefund(o) ==
  IF paidAt[o] THEN RequestRefund(o, Payment, CancellationAmount(o))
               ELSE UNCHANGED refunded

-----------------------------------------------------------------------------
(***************************************************************************)
(* The gateway and the handlers.                                           *)
(***************************************************************************)

\* The customer starts a payment, or the gateway decides about it.  Links are
\* not always closed: a payment may arrive for an order in any state.
GatewayMoves(p) ==
  /\ status[PaidFor[p]] # SIN_ALTA
  /\ \E s \in GatewayStatuses :
       /\ <<gatewayStatus[p], s>> \in GatewayTransitions
       /\ gatewayStatus' = [gatewayStatus EXCEPT ![p] = s]
       /\ answers' = [answers EXCEPT ![p] = @ \cup {s}]
  /\ UNCHANGED <<vars, paymentStatus, refunded>>

\* The row of the payment.  A repeated status, or one that is older than the
\* final status of the row, changes nothing; a second final status neither.
Record(p, s) ==
  /\ s \in answers[p]
  /\ paymentStatus[p] \notin FINAL_PAYMENT_STATUSES
  /\ paymentStatus[p] # STATUS_MAP[s]
  /\ paymentStatus' = [paymentStatus EXCEPT ![p] = STATUS_MAP[s]]

Exact(p) == Amount[p] = Total[PaidFor[p]]

\* Mutants of ProcessApproved: a second charge is kept, or the amount is not
\* looked at.
ProcessApprovedKeeping(p, s) ==
  /\ STATUS_MAP[s] = APROBADO
  /\ Record(p, s)
  /\ \/ ~Exact(p) /\ UNCHANGED <<vars, refunded>>
     \/ Exact(p) /\ PaymentApproved(PaidFor[p]) /\ UNCHANGED refunded
     \/ Exact(p) /\ RefundsApproval(PaidFor[p]) /\ UNCHANGED <<vars, refunded>>
  /\ UNCHANGED gatewayVars

ProcessApprovedAnyAmount(p, s) ==
  /\ STATUS_MAP[s] = APROBADO
  /\ Record(p, s)
  /\ \/ PaymentApproved(PaidFor[p]) /\ UNCHANGED refunded
     \/ /\ RefundsApproval(PaidFor[p])
        /\ RequestRefund(PaidFor[p], {p}, Amount[p])
        /\ UNCHANGED vars
  /\ UNCHANGED gatewayVars

\* An approval credits the order only if it is for its exact amount.
ProcessApproved(p, s) ==
  /\ STATUS_MAP[s] = APROBADO
  /\ Record(p, s)
  /\ \/ ~Exact(p) /\ UNCHANGED <<vars, refunded>>
     \/ Exact(p) /\ PaymentApproved(PaidFor[p]) /\ UNCHANGED refunded
     \/ /\ Exact(p)
        /\ RefundsApproval(PaidFor[p])
        /\ RequestRefund(PaidFor[p], {p}, Amount[p])
        /\ UNCHANGED vars
  /\ UNCHANGED gatewayVars

\* Mutant of ProcessRejected: a rejection cancels the order and nothing else.
ProcessRejectedCancelling(p, s) ==
  /\ STATUS_MAP[s] \in {RECHAZADO, CANCELADO}
  /\ Record(p, s)
  /\ IF TakesRejection(PaidFor[p])
       THEN ChangeStatus(PaidFor[p], CANCELADO, SIN_CAUSA) /\ KeepStock /\ UNCHANGED sideVars
       ELSE UNCHANGED vars
  /\ UNCHANGED <<gatewayVars, refunded>>

ProcessRejected(p, s) ==
  /\ STATUS_MAP[s] \in {RECHAZADO, CANCELADO}
  /\ Record(p, s)
  /\ IF TakesRejection(PaidFor[p]) THEN PaymentRejected(PaidFor[p])
                                   ELSE UNCHANGED vars
  /\ UNCHANGED <<gatewayVars, refunded>>

ProcessPending(p, s) ==
  /\ STATUS_MAP[s] = PENDIENTE_ACREDITACION
  /\ Record(p, s)
  /\ IF TakesPending(PaidFor[p]) THEN PaymentPending(PaidFor[p])
                                 ELSE UNCHANGED vars
  /\ UNCHANGED <<gatewayVars, refunded>>

\* processPayment, with an answer the gateway gave at some moment.
ProcessPayment(p, s) ==
  ProcessApproved(p, s) \/ ProcessRejected(p, s) \/ ProcessPending(p, s)

PCancelByCustomer(o) ==
  /\ CancelByCustomer(o)
  /\ UNCHANGED <<gatewayVars, paymentStatus>>
  /\ CancellationRefund(o)

PCancelByAdmin(o) ==
  /\ CancelByAdmin(o)
  /\ UNCHANGED <<gatewayVars, paymentStatus>>
  /\ CancellationRefund(o)

\* The handlers of Orders that neither read nor write payments.
OrderOnly(o) ==
  /\ \/ Confirm(o)
     \/ PreferenceRequestEnds(o)
     \/ CompensateFailedPreference(o)
     \/ RetryPayment(o)
     \/ ReservationLapses(o)
     \/ ExpireReservation(o)
     \/ AdvanceByAdmin(o)
  /\ UNCHANGED paymentVars

PNext ==
  \/ \E p \in Payment : \/ GatewayMoves(p)
                        \/ \E s \in GatewayStatuses : ProcessPayment(p, s)
  \/ \E o \in Order : PCancelByCustomer(o) \/ PCancelByAdmin(o) \/ OrderOnly(o)

PSpec == PInit /\ [][PNext]_pvars

\* Mutant of Reconcile: the orders with a rejected payment are not asked about.
ReconcileUnlessRejected(p) ==
  /\ status[PaidFor[p]] \in AWAITING_PAYMENT_STATUSES \ {PAGO_RECHAZADO}
  /\ ProcessPayment(p, gatewayStatus[p])

\* reconcileAwaitingOrders, every 30 minutes: the payments of the orders that
\* wait for one, with the status they have then.
Reconcile(p) ==
  /\ status[PaidFor[p]] \in AWAITING_PAYMENT_STATUSES
  /\ ProcessPayment(p, gatewayStatus[p])

ReconcileFairness ==
  \A p \in Payment : WF_pvars(gatewayStatus[p] # SIN_PAGO /\ Reconcile(p))

PFairSpec == PSpec /\ ReconcileFairness

-----------------------------------------------------------------------------
(***************************************************************************)
(* What the payments promise.                                              *)
(***************************************************************************)

ApprovedFor(o) == { p \in Payment : PaidFor[p] = o /\ paymentStatus[p] = APROBADO }

\* The cents the shop still has to account for, apart from payments of a wrong
\* amount, which an administrator handles: what it charged, less every refund.
Kept(o) ==
  SumOver(Amount, { p \in ApprovedFor(o) : Exact(p) }) - SumOver(refunded, ApprovedFor(o))

\* The shop keeps the total of a paid order, nothing of one that was cancelled
\* before its dispatch and the shipping of one that was cancelled later, however
\* many payments were approved and in whatever order the approvals and the
\* cancellation came
\* (payments.service.ts:290-314, order-cancellation.service.ts:128-136).
MoneyAccounted ==
  \A o \in Order :
    Kept(o) = IF ~paidAt[o] THEN 0
              ELSE IF status[o] # CANCELADO THEN Total[o]
              ELSE IF dispatched[o] THEN Total[o] - Subtotal[o] ELSE 0

\* No payment gives back more than it charged, and only approved ones give back
\* (payment-ledger.service.ts:74-79).
RefundsWithinPayment ==
  \A p \in Payment :
    /\ refunded[p] <= Amount[p]
    /\ refunded[p] > 0 => paymentStatus[p] = APROBADO

\* Together: the money of each order and of each payment adds up.
MoneyBalances == MoneyAccounted /\ RefundsWithinPayment

\* An order counts as paid only while a payment of its exact amount stands for
\* it, of which nothing was given back (payments.service.ts:277-287).
PaidByItsPayment ==
  \A o \in Order :
    status[o] \in PAID_STATUSES =>
      \E p \in Payment : /\ PaidFor[p] = o
                         /\ Exact(p)
                         /\ paymentStatus[p] = APROBADO
                         /\ refunded[p] = 0

\* "Never a firm cancellation without its refund recorded"
\* (refund.entity.ts:45): the cancellation of a paid order always finds a
\* payment with balance for it, in the same step.
CancellationFindsItsRefund ==
  [][ \A o \in Order :
        paidAt[o] /\ status[o] # CANCELADO /\ status'[o] = CANCELADO =>
          \E p \in ApprovedFor(o) :
            refunded'[p] = refunded[p] + CancellationAmount(o)
    ]_pvars

\* Whatever the gateway says and in whatever order, the orders are moved only
\* in the ways of Orders.
ImplementsOrders == Spec

\* A payment the gateway approved does not leave its order waiting, although
\* its notification is lost (payments.service.ts:378-382).
ApprovalEndsTheWait ==
  \A p \in Payment :
    gatewayStatus[p] = "approved" /\ status[PaidFor[p]] \in AWAITING_PAYMENT_STATUSES
      ~> \/ paymentStatus[p] \in FINAL_PAYMENT_STATUSES
         \/ status[PaidFor[p]] \notin AWAITING_PAYMENT_STATUSES

\* The comment of reconcileAwaitingOrders says it covers the notifications that
\* never arrived (payments.service.ts:378-382): an approval of an order that was
\* waiting for it is registered some day, unless the gateway takes it back or
\* somebody cancels the order.
LostNotificationsCovered ==
  \A p \in Payment :
    gatewayStatus[p] = "approved" /\ status[PaidFor[p]] \in AWAITING_PAYMENT_STATUSES
      ~> \/ paymentStatus[p] \in FINAL_PAYMENT_STATUSES
         \/ gatewayStatus[p] # "approved"
         \/ cancellationCause[PaidFor[p]] \in {CLIENTE, ADMINISTRADOR, PASARELA}

PendingAndReserved(p) ==
  paymentStatus[p] = PENDIENTE_ACREDITACION /\ reservationActive[PaidFor[p]]

\* The comment of the outcome "pendiente" says the reservation is kept while a
\* payment is pending (orders.service.ts:256): while the order waits, nothing
\* but the end of that payment releases it, and not the rejection of another
\* payment of the order.
PendingKeepsReservation ==
  [][ \A p \in Payment :
        PendingAndReserved(p) =>
          \/ PendingAndReserved(p)'
          \/ paymentStatus'[p] # PENDIENTE_ACREDITACION
          \/ status'[PaidFor[p]] \notin AWAITING_PAYMENT_STATUSES
    ]_pvars
=============================================================================
