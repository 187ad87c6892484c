----------------------------- MODULE PaymentLinks -----------------------------
(***************************************************************************)
(* The payment links ("preferences") that the checkout and the retries of  *)
(* a payment open at the gateway for one order (orders/checkout.service.ts,*)
(* orders/order-cancellation.service.ts).                                  *)
(*                                                                         *)
(* A call moves the order in a transaction, and only then, without any     *)
(* lock, closes the previous link, opens its own and attaches it to the    *)
(* order in a second transaction.  Other calls, cancellations and payments *)
(* come in between.  A link is named by the call that opens it.            *)
(*                                                                         *)
(* Stock and money are those of Orders and Payments and left out here, as  *)
(* is what follows the payment: a paid order has no link to open or close. *)
(***************************************************************************)
EXTENDS OrderStatus, FiniteSets

CONSTANTS Call,       \* the calls of the customer that open a link
          Checkout,   \* the one of them that creates the order
          Faults      \* what may go wrong in this instance

FaultKinds == { "refused",   \* the gateway refuses to open a link
                "lost",      \* it opens the link and its answer is lost
                "unclosed",  \* it does not close a link when asked to
                "crash" }    \* the process stops between two steps

ASSUME PaymentLinksAssumption == Checkout \in Call /\ Faults \subseteq FaultKinds

\* paymentPreferenceId is NULL.
SIN_PREFERENCIA == "sin_preferencia"

ASSUME PreferenceAssumption == SIN_PREFERENCIA \notin Call

VARIABLES
  status,      \* order.status, SIN_ALTA before the checkout commits
  cause,       \* order.cancellationCause
  paid,        \* order.paidAt is set
  lapsed,      \* the time is past order.reservationExpiresAt
  preference,  \* order.paymentPreferenceId
  pc,          \* what each call does next
  previous,    \* the preference each call read in its first transaction
  link,        \* each link at the gateway: unopened, open or expired
  closing,     \* links that a committed cancellation has still to close
  asked,       \* links the gateway was asked to close (history)
  failures       \* what has gone wrong so far (history)

orderVars == <<status, cause, paid>>
vars == <<orderVars, lapsed, preference, pc, previous, link, closing, asked, failures>>

Steps == { "idle", "replacing", "asking", "attaching", "dropping",
           "compensating", "redirected", "failed" }

\* Every variable holds values of its kind.
TypeOK ==
  /\ status \in OrderStatuses \cup {SIN_ALTA}
  /\ cause \in CancellationCauses \cup {SIN_CAUSA}
  /\ paid \in BOOLEAN
  /\ lapsed \in BOOLEAN
  /\ preference \in Call \cup {SIN_PREFERENCIA}
  /\ pc \in [Call -> Steps]
  /\ previous \in [Call -> Call \cup {SIN_PREFERENCIA}]
  /\ link \in [Call -> {"unopened", "open", "expired"}]
  /\ closing \in SUBSET Call
  /\ asked \in SUBSET Call
  /\ failures \in SUBSET Faults

Init ==
  /\ status = SIN_ALTA /\ cause = SIN_CAUSA /\ paid = FALSE
  /\ lapsed = FALSE
  /\ preference = SIN_PREFERENCIA
  /\ pc = [c \in Call |-> "idle"]
  /\ previous = [c \in Call |-> SIN_PREFERENCIA]
  /\ link = [c \in Call |-> "unopened"]
  /\ closing = {}
  /\ asked = {}
  /\ failures = {}

-----------------------------------------------------------------------------
(***************************************************************************)
(* The gateway.                                                            *)
(***************************************************************************)

Goto(c, step) == pc' = [pc EXCEPT ![c] = step]

\* createPreference: the link ends with the reservation of its order.
Opened(c) == [link EXCEPT ![c] = IF lapsed THEN "expired" ELSE "open"]

\* A fault of this instance happens.
Fails(fault) == fault \in Faults /\ failures' = failures \cup {fault}

\* expirePreference, and the callers that only log its failure.
Expire(l) ==
  /\ asked' = asked \cup {l}
  /\ \/ link' = [link EXCEPT ![l] = "expired"] /\ UNCHANGED failures
     \/ Fails("unclosed") /\ UNCHANGED link

-----------------------------------------------------------------------------
(***************************************************************************)
(* The checkout and the retries.                                           *)
(***************************************************************************)

\* confirm: its transaction creates the order.
Confirm ==
  /\ pc[Checkout] = "idle"
  /\ status = SIN_ALTA
  /\ status' = PENDIENTE_PAGO
  /\ Goto(Checkout, "asking")
  /\ UNCHANGED <<cause, paid, lapsed, preference, previous, link, closing, asked, failures>>

\* paymentRetry of order-policies.ts.
RetryAllowed == status \in RETRYABLE_PAYMENT_STATUSES /\ ~lapsed

\* retryPayment: its transaction, which reads the preference to replace.
RetryPayment(c) ==
  /\ c # Checkout /\ pc[c] = "idle"
  /\ RetryAllowed
  /\ status' = PENDIENTE_PAGO
  /\ previous' = [previous EXCEPT ![c] = preference]
  /\ Goto(c, IF preference = SIN_PREFERENCIA THEN "asking" ELSE "replacing")
  /\ UNCHANGED <<cause, paid, lapsed, preference, link, closing, asked, failures>>

ExpirePrevious(c) ==
  /\ pc[c] = "replacing"
  /\ Expire(previous[c])
  /\ Goto(c, "asking")
  /\ UNCHANGED <<orderVars, lapsed, preference, previous, closing>>

RequestPreference(c) ==
  /\ pc[c] = "asking"
  /\ link' = Opened(c)
  /\ Goto(c, "attaching")
  /\ UNCHANGED <<orderVars, lapsed, preference, previous, closing, asked, failures>>

\* The gateway refuses, or its answer does not come although the link exists.
RequestFails(c) ==
  /\ pc[c] = "asking"
  /\ \/ Fails("refused") /\ UNCHANGED link
     \/ Fails("lost") /\ link' = Opened(c)
  /\ Goto(c, IF c = Checkout THEN "compensating" ELSE "failed")
  /\ UNCHANGED <<orderVars, lapsed, preference, previous, closing, asked>>

\* Mutant of Attaches: nobody asks what the order became meanwhile.
AttachesToAny(c) == preference = previous[c]

\* Mutant of Attaches: nobody asks whether another link was attached.
AttachesOver(c) == status = PENDIENTE_PAGO

Attaches(c) == status = PENDIENTE_PAGO /\ preference = previous[c]

\* attachPreference: the order takes the link...
AttachPreference(c) ==
  /\ pc[c] = "attaching"
  /\ Attaches(c)
  /\ preference' = c
  /\ Goto(c, "redirected")
  /\ UNCHANGED <<orderVars, lapsed, previous, link, closing, asked, failures>>

\* ... or it moved on, and the link has to be closed.
AttachRefused(c) ==
  /\ pc[c] = "attaching"
  /\ ~Attaches(c)
  /\ Goto(c, "dropping")
  /\ UNCHANGED <<orderVars, lapsed, preference, previous, link, closing, asked, failures>>

DropOwnLink(c) ==
  /\ pc[c] = "dropping"
  /\ Expire(c)
  /\ Goto(c, "failed")
  /\ UNCHANGED <<orderVars, lapsed, preference, previous, closing>>

\* compensateFailedPreference.
CompensateFailedPreference ==
  /\ pc[Checkout] = "compensating"
  /\ IF status = PENDIENTE_PAGO
       THEN status' = CANCELADO /\ cause' = PASARELA
       ELSE UNCHANGED <<status, cause>>
  /\ Goto(Checkout, "failed")
  /\ UNCHANGED <<paid, lapsed, preference, previous, link, closing, asked, failures>>

\* The process stops: its calls end where they were.
Crash(c) ==
  /\ Fails("crash")
  /\ pc[c] \in {"replacing", "asking", "attaching", "dropping", "compensating"}
  /\ Goto(c, "failed")
  /\ UNCHANGED <<orderVars, lapsed, preference, previous, link, closing, asked>>

-----------------------------------------------------------------------------
(***************************************************************************)
(* Cancellations, payments and time.                                       *)
(***************************************************************************)

\* afterCancellation closes the link of an order that waited for its payment.
ToClose ==
  IF status \in AWAITING_PAYMENT_STATUSES THEN {preference} \ {SIN_PREFERENCIA} ELSE {}

\* The transaction of cancelByCustomer and of the cancellation by an
\* administrator, which reads the preference under the lock.
Cancel ==
  /\ \/ status \in CUSTOMER_CANCELLABLE_STATUSES /\ cause' = CLIENTE
     \/ /\ status \in OrderStatuses \ ADMIN_NON_CANCELLABLE_STATUSES
        /\ cause' = ADMINISTRADOR
  /\ status' = CANCELADO
  /\ closing' = closing \cup ToClose
  /\ UNCHANGED <<paid, lapsed, preference, pc, previous, link, asked, failures>>

\* afterCancellation.
AfterCancellation(l) ==
  /\ l \in closing
  /\ closing' = closing \ {l}
  /\ \/ Expire(l)
     \/ Fails("crash") /\ UNCHANGED <<link, asked>>
  /\ UNCHANGED <<orderVars, lapsed, preference, pc, previous>>

\* Somebody paid, or began to, through a link of the order that was open then;
\* applyPaymentOutcome takes what the gateway says.
Paying == \E c \in Call : link[c] # "unopened"

PaymentOutcome(from, to) ==
  /\ Paying
  /\ status \in from
  /\ status' = to
  /\ cause' = SIN_CAUSA
  /\ paid' = (paid \/ to = PAGADO)
  /\ UNCHANGED <<lapsed, preference, pc, previous, link, closing, asked, failures>>

PaymentApproved ==
  /\ status = CANCELADO => cause = RESERVA_VENCIDA
  /\ PaymentOutcome(AWAITING_PAYMENT_STATUSES \cup {CANCELADO}, PAGADO)

PaymentRejected ==
  PaymentOutcome({PENDIENTE_PAGO, PAGO_PENDIENTE_ACREDITACION}, PAGO_RECHAZADO)

PaymentPending ==
  PaymentOutcome({PENDIENTE_PAGO, PAGO_RECHAZADO}, PAGO_PENDIENTE_ACREDITACION)

\* The reservation lapses, and with it every link.
ReservationLapses ==
  /\ status # SIN_ALTA /\ ~lapsed
  /\ lapsed' = TRUE
  /\ link' = [c \in Call |-> IF link[c] = "open" THEN "expired" ELSE link[c]]
  /\ UNCHANGED <<orderVars, preference, pc, previous, closing, asked, failures>>

\* expireReservations.
ExpireReservation ==
  /\ lapsed
  /\ status \in AWAITING_PAYMENT_STATUSES
  /\ status' = CANCELADO
  /\ cause' = RESERVA_VENCIDA
  /\ UNCHANGED <<paid, lapsed, preference, pc, previous, link, closing, asked, failures>>

-----------------------------------------------------------------------------

Next ==
  \/ Confirm \/ CompensateFailedPreference
  \/ \E c \in Call :
       \/ RetryPayment(c) \/ ExpirePrevious(c) \/ RequestPreference(c)
       \/ RequestFails(c) \/ AttachPreference(c) \/ AttachRefused(c)
       \/ DropOwnLink(c) \/ Crash(c) \/ AfterCancellation(c)
  \/ Cancel
  \/ PaymentApproved \/ PaymentRejected \/ PaymentPending
  \/ ReservationLapses \/ ExpireReservation

Spec == Init /\ [][Next]_vars

-----------------------------------------------------------------------------
(***************************************************************************)
(* Properties.                                                             *)
(***************************************************************************)

\* Somebody still has to attach or to close the link l.
InHand(l) ==
  \/ pc[l] \in {"attaching", "dropping"}
  \/ l \in closing

\* While the gateway answers, a link that can be paid is the one the order
\* knows, or one that a call in flight is about to attach or close: whatever
\* retries and cancellations overlap, none is forgotten, not even after the
\* gateway refused a link (checkout.service.ts:416-447).
NoUnknownLink ==
  failures \subseteq {"refused"} =>
    \A l \in Call : link[l] = "open" => preference = l \/ InHand(l)

\* While nothing fails, an order that was cancelled without having been paid
\* accepts no payment, but for the moment its cancellation takes to close the
\* link (order-cancellation.service.ts:152-168, fake-payment.gateway.ts:150-154).
CancelledTakesNoPayment ==
  failures = {} /\ status = CANCELADO /\ ~paid =>
    \A l \in Call : link[l] = "open" => InHand(l)

\* Whatever fails, no link accepts payments once the reservation lapsed
\* (payment-gateway.interface.ts:15, checkout.service.ts:400).
LinksEndWithReservation == lapsed => \A l \in Call : link[l] # "open"

\* Whatever fails, a link that a customer was sent to and that another one
\* replaced was asked to be closed first: at most the gateway is to blame for
\* two open links of one order (checkout.service.ts:365-372, 432).
ReplacedLinksWereClosed ==
  \A l \in Call : pc[l] = "redirected" /\ preference # l => l \in asked

\* Together: every link that can be paid is known, closed in time, and replaced
\* only after it was asked to be closed.
LinksAreKnown == NoUnknownLink /\ LinksEndWithReservation /\ ReplacedLinksWereClosed
=============================================================================
