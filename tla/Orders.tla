------------------------------- MODULE Orders -------------------------------
(***************************************************************************)
(* The life of an order: orders/orders.service.ts, with the transactions   *)
(* of its callers that create, cancel and move an order                    *)
(* (checkout.service.ts, order-cancellation.service.ts,                    *)
(* admin/admin-orders.service.ts).                                         *)
(*                                                                         *)
(* Every one of these handlers runs in a transaction that first takes the  *)
(* row lock of its order (lockWithItems) and revalidates everything under  *)
(* it, so each is one step.  An exception inside rolls it back: the action *)
(* is not enabled.  Payment outcomes come in any order here; Payments      *)
(* composes this module with the code that decides which ones come.        *)
(***************************************************************************)
EXTENDS OrderStatus, StockReservation, FiniteSets

CONSTANTS Order,         \* the orders that may ever be created
          MaxQty,        \* the largest quantity of a line
          Lines,         \* Lines[o][v]: units of v in order o, 0 if no line
          InitialStock   \* the stock of each variant before the first order

ASSUME OrdersAssumption ==
  /\ IsFiniteSet(Order)
  /\ SIN_ALTA \notin Order
  /\ MaxQty \in Nat
  /\ Lines \in [Order -> [Variant -> 0..MaxQty]]
  /\ InitialStock \in [Variant -> Nat]

VARIABLES
  status,              \* order.status, SIN_ALTA before the order exists
  cancellationCause,   \* order.cancellationCause
  reservationActive,   \* order.stockReservationActive
  stockCommitted,      \* the variants whose order item has stockCommitted
  paidAt,              \* order.paidAt is not null
  dispatched,          \* the history has a row with toStatus despachado
  reservationLapsed,   \* order.reservationExpiresAt is in the past
  requestingPreference \* confirm waits for the gateway to create the preference

orderVars == <<status, cancellationCause, reservationActive, stockCommitted,
               paidAt, dispatched>>
vars == <<orderVars, stockVars, reservationLapsed, requestingPreference>>

OrderTypeOK ==
  /\ status \in [Order -> OrderStatuses \cup {SIN_ALTA}]
  /\ cancellationCause \in [Order -> CancellationCauses \cup {SIN_CAUSA}]
  /\ reservationActive \in [Order -> BOOLEAN]
  /\ stockCommitted \in [Order -> SUBSET Variant]
  /\ paidAt \in [Order -> BOOLEAN]
  /\ dispatched \in [Order -> BOOLEAN]
  /\ reservationLapsed \in [Order -> BOOLEAN]
  /\ requestingPreference \in SUBSET Order

\* Every variable holds values of its kind, and no stock counter is negative.
TypeOK == StockTypeOK /\ OrderTypeOK

Init ==
  /\ status = [o \in Order |-> SIN_ALTA]
  /\ cancellationCause = [o \in Order |-> SIN_CAUSA]
  /\ reservationActive = [o \in Order |-> FALSE]
  /\ stockCommitted = [o \in Order |-> {}]
  /\ paidAt = [o \in Order |-> FALSE]
  /\ dispatched = [o \in Order |-> FALSE]
  /\ reservationLapsed = [o \in Order |-> FALSE]
  /\ requestingPreference = {}
  /\ stockTotal = InitialStock
  /\ stockReserved = [v \in Variant |-> 0]

-----------------------------------------------------------------------------
(***************************************************************************)
(* Pieces of the handlers.                                                 *)
(***************************************************************************)

\* changeStatus: validated against the graph; the cause is kept only in
\* CANCELADO, and the date of payment and the history row are written.
ChangeStatus(o, to, cause) ==
  /\ CanTransition(status[o], to)
  /\ status' = [status EXCEPT ![o] = to]
  /\ cancellationCause' =
       [cancellationCause EXCEPT ![o] = IF to = CANCELADO THEN cause ELSE SIN_CAUSA]
  /\ paidAt' = [paidAt EXCEPT ![o] = @ \/ to = PAGADO]
  /\ dispatched' = [dispatched EXCEPT ![o] = @ \/ to = DESPACHADO]

statusVars == <<status, cancellationCause, paidAt, dispatched>>

SetReservation(o, active) ==
  reservationActive' = [reservationActive EXCEPT ![o] = active]

ReserveFor(o) == Reserve(Lines[o]) /\ SetReservation(o, TRUE)

\* Mutant of ReleaseReservation: the flag of the order is not looked at.
ReleaseAgain(o) == Release(Lines[o]) /\ SetReservation(o, FALSE)

ReleaseReservation(o) ==
  IF reservationActive[o]
    THEN Release(Lines[o]) /\ SetReservation(o, FALSE)
    ELSE UNCHANGED <<stockReserved, reservationActive>>

\* Mutant of ReturnStockOnCancel: the lines that fell short come back too.
ReturnEveryLine(o) ==
  /\ ReleaseReservation(o)
  /\ RestockCancelledSale(Lines[o], IF paidAt[o] THEN Variant ELSE {})
  /\ stockCommitted' = [stockCommitted EXCEPT ![o] = {}]

ReturnStockOnCancel(o) ==
  /\ ReleaseReservation(o)
  /\ RestockCancelledSale(Lines[o], stockCommitted[o])
  /\ stockCommitted' = [stockCommitted EXCEPT ![o] = {}]

KeepStock == UNCHANGED <<stockVars, reservationActive, stockCommitted>>

\* Mutant of ApplyCancellation: an order in preparation counts as gone.
ApplyCancellationTooLate(o, cause) ==
  /\ ChangeStatus(o, CANCELADO, cause)
  /\ IF status[o] \in {EN_PREPARACION, DESPACHADO} THEN KeepStock
                                                  ELSE ReturnStockOnCancel(o)

\* applyCancellation, apart from its refund: what already left the warehouse
\* is not taken back into stock.
ApplyCancellation(o, cause) ==
  /\ ChangeStatus(o, CANCELADO, cause)
  /\ IF status[o] = DESPACHADO THEN KeepStock ELSE ReturnStockOnCancel(o)

-----------------------------------------------------------------------------
(***************************************************************************)
(* applyPaymentOutcome, one operator per outcome that changes the order.   *)
(***************************************************************************)

\* Mutant of RefundsApproval: the cause of the cancellation is not looked at.
RefundsApprovalWhenPaid(o) == status[o] \in PAID_STATUSES

\* An approval these orders do not take: it is a second charge, or it comes
\* after a deliberate cancellation.  The payment is refunded instead.
RefundsApproval(o) ==
  \/ status[o] \in PAID_STATUSES
  \/ status[o] = CANCELADO /\ cancellationCause[o] # RESERVA_VENCIDA

ApplyApproved(o) ==
  /\ ~RefundsApproval(o)
  /\ ConfirmSale(Lines[o], reservationActive[o])
  /\ SetReservation(o, FALSE)
  /\ stockCommitted' =
       [stockCommitted EXCEPT ![o] = @ \cup Covered(Lines[o], reservationActive[o])]
  /\ ChangeStatus(o, PAGADO, SIN_CAUSA)

\* A rejection changes only an order whose payment is in course.
TakesRejection(o) == status[o] \in {PENDIENTE_PAGO, PAGO_PENDIENTE_ACREDITACION}

ApplyRejected(o) ==
  /\ TakesRejection(o)
  /\ ReleaseReservation(o)
  /\ ChangeStatus(o, PAGO_RECHAZADO, SIN_CAUSA)
  /\ UNCHANGED <<stockTotal, stockCommitted>>

TakesPending(o) == status[o] \in {PENDIENTE_PAGO, PAGO_RECHAZADO}

\* Mutant of ApplyPending: the reservation is taken again from any state.
ApplyPendingReservingAgain(o) ==
  /\ TakesPending(o)
  /\ IF Fits(Lines[o]) THEN ReserveFor(o)
                       ELSE UNCHANGED <<stockReserved, reservationActive>>
  /\ ChangeStatus(o, PAGO_PENDIENTE_ACREDITACION, SIN_CAUSA)
  /\ UNCHANGED <<stockTotal, stockCommitted>>

\* After a rejection the reservation is taken again if it still fits; if not,
\* the order goes on without it.
ApplyPending(o) ==
  /\ TakesPending(o)
  /\ IF status[o] = PAGO_RECHAZADO /\ Fits(Lines[o])
       THEN ReserveFor(o)
       ELSE UNCHANGED <<stockReserved, reservationActive>>
  /\ ChangeStatus(o, PAGO_PENDIENTE_ACREDITACION, SIN_CAUSA)
  /\ UNCHANGED <<stockTotal, stockCommitted>>

-----------------------------------------------------------------------------
(***************************************************************************)
(* The handlers.                                                           *)
(***************************************************************************)

sideVars == <<reservationLapsed, requestingPreference>>

\* checkout.confirm: the order, its items and the reservation, or nothing.
\* The request of the payment preference follows, outside the transaction.
Confirm(o) ==
  /\ status[o] = SIN_ALTA
  /\ \E v \in Variant : Lines[o][v] > 0
  /\ ReserveFor(o)
  /\ status' = [status EXCEPT ![o] = PENDIENTE_PAGO]
  /\ requestingPreference' = requestingPreference \cup {o}
  /\ UNCHANGED <<cancellationCause, stockCommitted, paidAt, dispatched,
                 stockTotal, reservationLapsed>>

\* The request of confirm ends without touching the state of the order: the
\* preference was attached or found out of date, or the process stopped.
PreferenceRequestEnds(o) ==
  /\ o \in requestingPreference
  /\ requestingPreference' = requestingPreference \ {o}
  /\ UNCHANGED <<orderVars, stockVars, reservationLapsed>>

\* compensateFailedPreference: the gateway did not create the preference.
CompensateFailedPreference(o) ==
  /\ o \in requestingPreference
  /\ status[o] = PENDIENTE_PAGO
  /\ ReleaseReservation(o)
  /\ ChangeStatus(o, CANCELADO, PASARELA)
  /\ requestingPreference' = requestingPreference \ {o}
  /\ UNCHANGED <<stockTotal, stockCommitted, reservationLapsed>>

\* checkout.retryPayment, its transaction.
RetryPayment(o) ==
  /\ status[o] \in RETRYABLE_PAYMENT_STATUSES
  /\ ~reservationLapsed[o]
  /\ IF reservationActive[o]
       THEN UNCHANGED <<stockReserved, reservationActive>>
       ELSE ReserveFor(o)
  /\ IF status[o] = PAGO_RECHAZADO
       THEN ChangeStatus(o, PENDIENTE_PAGO, SIN_CAUSA)
       ELSE UNCHANGED statusVars
  /\ UNCHANGED <<stockTotal, stockCommitted, sideVars>>

PaymentApproved(o) == ApplyApproved(o) /\ UNCHANGED sideVars

PaymentRejected(o) == ApplyRejected(o) /\ UNCHANGED sideVars

PaymentPending(o) == ApplyPending(o) /\ UNCHANGED sideVars

\* The 24 hours of the reservation go by.  Nothing moves this date later.
ReservationLapses(o) ==
  /\ status[o] # SIN_ALTA
  /\ ~reservationLapsed[o]
  /\ reservationLapsed' = [reservationLapsed EXCEPT ![o] = TRUE]
  /\ UNCHANGED <<orderVars, stockVars, requestingPreference>>

\* Mutant of ExpireReservation: the query leaves out the payments that wait to
\* be credited.
ExpireUnlessPending(o) ==
  /\ status[o] \in AWAITING_PAYMENT_STATUSES \ {PAGO_PENDIENTE_ACREDITACION}
  /\ reservationLapsed[o]
  /\ ReleaseReservation(o)
  /\ ChangeStatus(o, CANCELADO, RESERVA_VENCIDA)
  /\ UNCHANGED <<stockTotal, stockCommitted, sideVars>>

\* expireReservations, for one order of its unlocked query: the condition is
\* evaluated again under the lock.
ExpireReservation(o) ==
  /\ status[o] \in AWAITING_PAYMENT_STATUSES
  /\ reservationLapsed[o]
  /\ ReleaseReservation(o)
  /\ ChangeStatus(o, CANCELADO, RESERVA_VENCIDA)
  /\ UNCHANGED <<stockTotal, stockCommitted, sideVars>>

\* cancelByCustomer.  The 24 hours a paid order can still be cancelled by its
\* customer are not counted: the customer may or may not be in time.
CancelByCustomer(o) ==
  /\ status[o] \in CUSTOMER_CANCELLABLE_STATUSES
  /\ ApplyCancellation(o, CLIENTE)
  /\ UNCHANGED sideVars

\* admin-orders.cancel.
CancelByAdmin(o) ==
  /\ status[o] \notin ADMIN_NON_CANCELLABLE_STATUSES
  /\ ApplyCancellation(o, ADMINISTRADOR)
  /\ UNCHANGED sideVars

\* admin-orders.changeStatus: prepare, dispatch, deliver.
AdvanceByAdmin(o) ==
  \E to \in OrderStatuses :
    /\ <<status[o], to>> \in ADMIN_TRANSITIONS
    /\ ChangeStatus(o, to, SIN_CAUSA)
    /\ KeepStock
    /\ UNCHANGED sideVars

Handler(o) ==
  \/ Confirm(o)
  \/ PreferenceRequestEnds(o)
  \/ CompensateFailedPreference(o)
  \/ RetryPayment(o)
  \/ PaymentApproved(o)
  \/ PaymentRejected(o)
  \/ PaymentPending(o)
  \/ ReservationLapses(o)
  \/ ExpireReservation(o)
  \/ CancelByCustomer(o)
  \/ CancelByAdmin(o)
  \/ AdvanceByAdmin(o)

Next == \E o \in Order : Handler(o)

Spec == Init /\ [][Next]_vars

-----------------------------------------------------------------------------
(***************************************************************************)
(* What the orders promise.                                                *)
(***************************************************************************)

\* The units of v in the orders of S, one pair per unit.
UnitsOf(S, v) ==
  { u \in Order \X (1..MaxQty) : u[1] \in S /\ u[2] <= Lines[u[1]][v] }

HoldingOrders == { o \in Order : reservationActive[o] }

OrdersWith(v) == { o \in Order : v \in stockCommitted[o] }

\* stock_reserved is, for each variant, exactly what the orders with an active
\* reservation asked for: no path reserves or releases the same lines twice,
\* and the GREATEST of release never hides a difference
\* (orders.service.ts:127-146, stock-reservation.service.ts:31-67).
ReservedIsHeld ==
  \A v \in Variant : stockReserved[v] = Cardinality(UnitsOf(HoldingOrders, v))

\* No oversell: what is promised is in the warehouse, whatever the order in
\* which checkouts, late approvals and returns to stock come
\* (stock-reservation.service.ts:19-24).
NoOversell == \A v \in Variant : stockReserved[v] <= stockTotal[v]

\* Units are neither made nor lost: what is missing from the warehouse was
\* taken in firm by exactly the orders whose item says stockCommitted, and a
\* cancellation brings back what was really taken, not a shortage
\* (orders.service.ts:189-200 and 127-138).
StockConserved ==
  \A v \in Variant :
    stockTotal[v] + Cardinality(UnitsOf(OrdersWith(v), v)) = InitialStock[v]

\* Together: promises are covered by the warehouse, and no unit of it is lost.
StockBalances == ReservedIsHeld /\ NoOversell /\ StockConserved

\* An order the customer can still pay holds its stock; a reservation never
\* outlives the two states that wait for a payment in course
\* (checkout.service.ts:340-354, orders.service.ts:228-233).
ReservationFollowsStatus ==
  \A o \in Order :
    /\ status[o] = PENDIENTE_PAGO => reservationActive[o]
    /\ reservationActive[o] =>
         status[o] \in {PENDIENTE_PAGO, PAGO_PENDIENTE_ACREDITACION}

\* Stock is taken in firm only by orders that were paid, and an order
\* cancelled before its dispatch keeps none of it
\* (order-cancellation.service.ts:112-125).
CommittedFollowsStatus ==
  \A o \in Order :
    stockCommitted[o] # {} =>
      /\ paidAt[o]
      /\ \/ status[o] \in PAID_STATUSES
         \/ status[o] = CANCELADO /\ dispatched[o]

\* A cancellation refunds exactly the orders with paidAt: no order that waits
\* for its payment, or that lapsed without one, carries a date of payment, and
\* none that was dispatched has lost it from its history
\* (order-cancellation.service.ts:116 and 130, orders.service.ts:76).
PaidAtFollowsStatus ==
  \A o \in Order :
    /\ status[o] \in PAID_STATUSES => paidAt[o]
    /\ status[o] \in AWAITING_PAYMENT_STATUSES \cup {SIN_ALTA} => ~paidAt[o]
    /\ status[o] = CANCELADO /\ cancellationCause[o] \in {RESERVA_VENCIDA, PASARELA}
         => ~paidAt[o]
    /\ status[o] = DESPACHADO => dispatched[o]

\* Together: what an order holds, what it took and whether a cancellation will
\* refund it agree with its status, after any history of events.
HistoryFollowsStatus ==
  ReservationFollowsStatus /\ CommittedFollowsStatus /\ PaidAtFollowsStatus

\* Only a cancellation for a lapsed reservation is ever undone, and only by a
\* payment: the graph alone would let any cancelled order become paid
\* (order-status.ts:51-53, orders.service.ts:172-185).
DeliberateCancellationIsFinal ==
  [][ \A o \in Order :
        status[o] = CANCELADO /\ cancellationCause[o] # RESERVA_VENCIDA
          => status'[o] = CANCELADO /\ cancellationCause'[o] = cancellationCause[o]
    ]_vars
=============================================================================
