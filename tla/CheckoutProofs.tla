--------------------------- MODULE CheckoutProofs ---------------------------
(***************************************************************************)
(* The links of an order, for any number of retries, the order that a      *)
(* customer sees and confirms, and the shipping methods that are offered.  *)
(* What is proved of the links depends on what has failed so far: whatever *)
(* did, only closed links are replaced and none outlives its reservation;  *)
(* while the gateway answers and closes, none is forgotten; while it       *)
(* refuses none, either, a cancelled order keeps none.  What is proved of  *)
(* the order depends on what has happened elsewhere, and what is proved of *)
(* the methods on which requests have met.                                 *)
(***************************************************************************)
EXTENDS CheckoutMC, FiniteSetTheorems, TLAPS

\* The link of the order, and the one that a call will replace, were given to
\* a customer.
KnownLinksWereGiven ==
  /\ preference # SIN_PREFERENCIA => pc[preference] = "redirected"
  /\ \A c \in Call :
       previous[c] # SIN_PREFERENCIA => pc[previous[c]] = "redirected"

\* A call asks for its link after it asked to close the one it replaces.
ReplacesClosed ==
  \A c \in Call :
    pc[c] \in {"asking", "attaching"} /\ previous[c] # SIN_PREFERENCIA =>
      previous[c] \in asked

LInv ==
  /\ TypeOK
  /\ KnownLinksWereGiven
  /\ ReplacesClosed
  /\ ReplacedLinksWereClosed
  /\ LinksEndWithReservation
  /\ status = SIN_ALTA => ~lapsed
  /\ \A c \in Call : pc[c] = "replacing" => previous[c] # SIN_PREFERENCIA
  /\ previous[Checkout] = SIN_PREFERENCIA

\* While the gateway closes what it is asked to, the replaced link is closed.
ReplacesExpired ==
  /\ \A c \in Call :
       pc[c] \in {"asking", "attaching"} /\ previous[c] # SIN_PREFERENCIA =>
         link[previous[c]] # "open"
  /\ \A c \in Call : pc[c] \notin {"attaching", "dropping", "redirected"} => link[c] # "open"

AInv ==
  /\ LInv
  /\ failures \subseteq {"refused"} => ReplacesExpired
  /\ NoUnknownLink

\* The states of an order that is not paid yet, and what a cancellation leaves.
UnpaidOrder ==
  /\ status \in AWAITING_PAYMENT_STATUSES \cup {SIN_ALTA, PAGADO, CANCELADO}
  /\ status = PAGADO => paid
  /\ \A c \in Call : pc[c] # "compensating"

CInv ==
  /\ AInv
  /\ failures = {} => UnpaidOrder
  /\ CancelledTakesNoPayment

-----------------------------------------------------------------------------
LEMMA LInvInit == Init => LInv
BY PreferenceAssumption, PaymentLinksAssumption
   DEF Init, LInv, TypeOK, KnownLinksWereGiven, ReplacesClosed, ReplacedLinksWereClosed,
       LinksEndWithReservation, Steps, OrderStatuses, CancellationCauses

LEMMA LInvStep == LInv /\ [Next]_vars => LInv'
<1> SUFFICES ASSUME LInv, [Next]_vars PROVE LInv'
  OBVIOUS
<1> USE PreferenceAssumption, PaymentLinksAssumption
<1> USE DEF LInv, TypeOK, KnownLinksWereGiven, ReplacesClosed, ReplacedLinksWereClosed,
            LinksEndWithReservation, Steps, orderVars, Goto
<1>1. CASE Confirm
  BY <1>1 DEF Confirm, OrderStatuses
<1>2. CASE CompensateFailedPreference
  BY <1>2 DEF CompensateFailedPreference, OrderStatuses, CancellationCauses,
       SIN_ALTA, CANCELADO
<1>3. ASSUME NEW c \in Call, RetryPayment(c) PROVE LInv'
  <2>1. TypeOK'
    BY <1>3 DEF RetryPayment, RetryAllowed, OrderStatuses
  <2>2. KnownLinksWereGiven'
    BY <1>3 DEF RetryPayment, RetryAllowed, OrderStatuses
  <2>3. ReplacesClosed'
    BY <1>3 DEF RetryPayment, RetryAllowed, OrderStatuses
  <2>4. ReplacedLinksWereClosed'
    BY <1>3 DEF RetryPayment, RetryAllowed, OrderStatuses
  <2>5. LinksEndWithReservation'
    BY <1>3 DEF RetryPayment, RetryAllowed, OrderStatuses
  <2>6. (status = SIN_ALTA => ~lapsed)'
    BY <1>3 DEF RetryPayment, RetryAllowed, OrderStatuses
  <2>7. (\A d \in Call : pc[d] = "replacing" => previous[d] # SIN_PREFERENCIA)'
    BY <1>3 DEF RetryPayment, RetryAllowed, OrderStatuses
  <2>8. (previous[Checkout] = SIN_PREFERENCIA)'
    BY <1>3 DEF RetryPayment, RetryAllowed, OrderStatuses
  <2> QED BY <2>1, <2>2, <2>3, <2>4, <2>5, <2>6, <2>7, <2>8
<1>4. ASSUME NEW c \in Call, ExpirePrevious(c) PROVE LInv'
  <2>1. TypeOK'
    BY <1>4 DEF ExpirePrevious, Expire, Fails
  <2>2. KnownLinksWereGiven'
    BY <1>4 DEF ExpirePrevious, Expire, Fails
  <2>3. ReplacesClosed'
    BY <1>4 DEF ExpirePrevious, Expire, Fails
  <2>4. ReplacedLinksWereClosed'
    BY <1>4 DEF ExpirePrevious, Expire, Fails
  <2>5. LinksEndWithReservation'
    BY <1>4 DEF ExpirePrevious, Expire, Fails
  <2>6. (status = SIN_ALTA => ~lapsed)'
    BY <1>4 DEF ExpirePrevious, Expire, Fails
  <2>7. (\A d \in Call : pc[d] = "replacing" => previous[d] # SIN_PREFERENCIA)'
    BY <1>4 DEF ExpirePrevious, Expire, Fails
  <2>8. (previous[Checkout] = SIN_PREFERENCIA)'
    BY <1>4 DEF ExpirePrevious, Expire, Fails
  <2> QED BY <2>1, <2>2, <2>3, <2>4, <2>5, <2>6, <2>7, <2>8
<1>5. ASSUME NEW c \in Call, RequestPreference(c) PROVE LInv'
  BY <1>5 DEF RequestPreference, Opened
<1>6. ASSUME NEW c \in Call, RequestFails(c) PROVE LInv'
  BY <1>6 DEF RequestFails, Opened, Fails
<1>7. ASSUME NEW c \in Call, AttachPreference(c) PROVE LInv'
  BY <1>7 DEF AttachPreference, Attaches
<1>8. ASSUME NEW c \in Call, AttachRefused(c) PROVE LInv'
  BY <1>8 DEF AttachRefused
<1>9. ASSUME NEW c \in Call, DropOwnLink(c) PROVE LInv'
  BY <1>9 DEF DropOwnLink, Expire, Fails
<1>10. ASSUME NEW c \in Call, Crash(c) PROVE LInv'
  BY <1>10 DEF Crash, Fails
<1>11. ASSUME NEW c \in Call, AfterCancellation(c) PROVE LInv'
  BY <1>11 DEF AfterCancellation, Expire, Fails
<1>12. CASE Cancel
  BY <1>12 DEF Cancel, ToClose, OrderStatuses, CancellationCauses, CUSTOMER_CANCELLABLE_STATUSES,
       AWAITING_PAYMENT_STATUSES, SIN_ALTA, CANCELADO
<1>13. CASE PaymentApproved \/ PaymentRejected \/ PaymentPending
  <2>1. TypeOK'
    BY <1>13 DEF PaymentApproved, PaymentRejected, PaymentPending,
       PaymentOutcome, OrderStatuses, CancellationCauses, AWAITING_PAYMENT_STATUSES,
       SIN_ALTA, CANCELADO, PAGADO, PAGO_RECHAZADO, PAGO_PENDIENTE_ACREDITACION, PENDIENTE_PAGO
  <2>2. KnownLinksWereGiven'
    BY <1>13 DEF PaymentApproved, PaymentRejected, PaymentPending,
       PaymentOutcome, OrderStatuses, CancellationCauses, AWAITING_PAYMENT_STATUSES,
       SIN_ALTA, CANCELADO, PAGADO, PAGO_RECHAZADO, PAGO_PENDIENTE_ACREDITACION, PENDIENTE_PAGO
  <2>3. ReplacesClosed'
    BY <1>13 DEF PaymentApproved, PaymentRejected, PaymentPending,
       PaymentOutcome, OrderStatuses, CancellationCauses, AWAITING_PAYMENT_STATUSES,
       SIN_ALTA, CANCELADO, PAGADO, PAGO_RECHAZADO, PAGO_PENDIENTE_ACREDITACION, PENDIENTE_PAGO
  <2>4. ReplacedLinksWereClosed'
    BY <1>13 DEF PaymentApproved, PaymentRejected, PaymentPending,
       PaymentOutcome, OrderStatuses, CancellationCauses, AWAITING_PAYMENT_STATUSES,
       SIN_ALTA, CANCELADO, PAGADO, PAGO_RECHAZADO, PAGO_PENDIENTE_ACREDITACION, PENDIENTE_PAGO
  <2>5. LinksEndWithReservation'
    BY <1>13 DEF PaymentApproved, PaymentRejected, PaymentPending,
       PaymentOutcome, OrderStatuses, CancellationCauses, AWAITING_PAYMENT_STATUSES,
       SIN_ALTA, CANCELADO, PAGADO, PAGO_RECHAZADO, PAGO_PENDIENTE_ACREDITACION, PENDIENTE_PAGO
  <2>6. (status = SIN_ALTA => ~lapsed)'
    BY <1>13 DEF PaymentApproved, PaymentRejected, PaymentPending,
       PaymentOutcome, OrderStatuses, CancellationCauses, AWAITING_PAYMENT_STATUSES,
       SIN_ALTA, CANCELADO, PAGADO, PAGO_RECHAZADO, PAGO_PENDIENTE_ACREDITACION, PENDIENTE_PAGO
  <2>7. (\A d \in Call : pc[d] = "replacing" => previous[d] # SIN_PREFERENCIA)'
    BY <1>13 DEF PaymentApproved, PaymentRejected, PaymentPending,
       PaymentOutcome, OrderStatuses, CancellationCauses, AWAITING_PAYMENT_STATUSES,
       SIN_ALTA, CANCELADO, PAGADO, PAGO_RECHAZADO, PAGO_PENDIENTE_ACREDITACION, PENDIENTE_PAGO
  <2>8. (previous[Checkout] = SIN_PREFERENCIA)'
    BY <1>13 DEF PaymentApproved, PaymentRejected, PaymentPending,
       PaymentOutcome, OrderStatuses, CancellationCauses, AWAITING_PAYMENT_STATUSES,
       SIN_ALTA, CANCELADO, PAGADO, PAGO_RECHAZADO, PAGO_PENDIENTE_ACREDITACION, PENDIENTE_PAGO
  <2> QED BY <2>1, <2>2, <2>3, <2>4, <2>5, <2>6, <2>7, <2>8
<1>14. CASE ReservationLapses
  <2>1. TypeOK'
    BY <1>14 DEF ReservationLapses
  <2>2. KnownLinksWereGiven'
    BY <1>14 DEF ReservationLapses
  <2>3. ReplacesClosed'
    BY <1>14 DEF ReservationLapses
  <2>4. ReplacedLinksWereClosed'
    BY <1>14 DEF ReservationLapses
  <2>5. LinksEndWithReservation'
    BY <1>14 DEF ReservationLapses
  <2>6. (status = SIN_ALTA => ~lapsed)'
    BY <1>14 DEF ReservationLapses
  <2>7. (\A d \in Call : pc[d] = "replacing" => previous[d] # SIN_PREFERENCIA)'
    BY <1>14 DEF ReservationLapses
  <2>8. (previous[Checkout] = SIN_PREFERENCIA)'
    BY <1>14 DEF ReservationLapses
  <2> QED BY <2>1, <2>2, <2>3, <2>4, <2>5, <2>6, <2>7, <2>8
<1>15. CASE ExpireReservation
  BY <1>15 DEF ExpireReservation, OrderStatuses, CancellationCauses, SIN_ALTA, CANCELADO
<1>16. CASE UNCHANGED vars
  <2>1. TypeOK'
    BY <1>16 DEF vars
  <2>2. KnownLinksWereGiven'
    BY <1>16 DEF vars
  <2>3. ReplacesClosed'
    BY <1>16 DEF vars
  <2>4. ReplacedLinksWereClosed'
    BY <1>16 DEF vars
  <2>5. LinksEndWithReservation'
    BY <1>16 DEF vars
  <2>6. (status = SIN_ALTA => ~lapsed)'
    BY <1>16 DEF vars
  <2>7. (\A d \in Call : pc[d] = "replacing" => previous[d] # SIN_PREFERENCIA)'
    BY <1>16 DEF vars
  <2>8. (previous[Checkout] = SIN_PREFERENCIA)'
    BY <1>16 DEF vars
  <2> QED BY <2>1, <2>2, <2>3, <2>4, <2>5, <2>6, <2>7, <2>8
<1> QED
  BY <1>1, <1>2, <1>3, <1>4, <1>5, <1>6, <1>7, <1>8, <1>9, <1>10, <1>11, <1>12, <1>13,
     <1>14, <1>15, <1>16 DEF Next

LEMMA AInvInit == Init => AInv
BY LInvInit DEF Init, AInv, ReplacesExpired, NoUnknownLink

\* What went wrong is not forgotten.
LEMMA FailuresStay == [Next]_vars => failures \subseteq failures'
<1> SUFFICES ASSUME [Next]_vars PROVE failures \subseteq failures'
  OBVIOUS
<1>1. ASSUME NEW c \in Call,
             \/ RetryPayment(c) \/ RequestPreference(c) \/ AttachPreference(c)
             \/ AttachRefused(c)
      PROVE  failures \subseteq failures'
  BY <1>1 DEF RetryPayment, RequestPreference, AttachPreference, AttachRefused
<1>2. ASSUME NEW c \in Call,
             \/ ExpirePrevious(c) \/ RequestFails(c) \/ DropOwnLink(c) \/ Crash(c)
             \/ AfterCancellation(c)
      PROVE  failures \subseteq failures'
  BY <1>2 DEF ExpirePrevious, RequestFails, DropOwnLink, Crash, AfterCancellation, Expire, Fails
<1>3. CASE Confirm \/ CompensateFailedPreference \/ Cancel \/ ReservationLapses \/ ExpireReservation
  BY <1>3 DEF Confirm, CompensateFailedPreference, Cancel, ReservationLapses, ExpireReservation
<1>4. CASE PaymentApproved \/ PaymentRejected \/ PaymentPending
  BY <1>4 DEF PaymentApproved, PaymentRejected, PaymentPending, PaymentOutcome
<1>5. CASE UNCHANGED vars
  BY <1>5 DEF vars
<1> QED BY <1>1, <1>2, <1>3, <1>4, <1>5 DEF Next

LEMMA AInvStep == AInv /\ [Next]_vars => AInv'
<1> SUFFICES ASSUME AInv, [Next]_vars, failures' \subseteq {"refused"}
             PROVE  (ReplacesExpired /\ NoUnknownLink)'
  BY LInvStep DEF AInv, NoUnknownLink
<1>0. /\ failures \subseteq {"refused"}
      /\ "lost" \notin failures' /\ "unclosed" \notin failures' /\ "crash" \notin failures'
  BY FailuresStay
<1> USE <1>0
<1> USE PreferenceAssumption, PaymentLinksAssumption
<1> USE DEF AInv, LInv, TypeOK, KnownLinksWereGiven, ReplacesExpired, NoUnknownLink, InHand,
            Steps, orderVars, Goto
<1>1. CASE Confirm
  BY <1>1 DEF Confirm
<1>2. CASE CompensateFailedPreference
  BY <1>2 DEF CompensateFailedPreference
<1>3. ASSUME NEW c \in Call, RetryPayment(c) PROVE (ReplacesExpired /\ NoUnknownLink)'
  <2>1. ReplacesExpired'
    BY <1>3 DEF RetryPayment
  <2>2. NoUnknownLink'
    BY <1>3 DEF RetryPayment
  <2> QED BY <2>1, <2>2
<1>4. ASSUME NEW c \in Call, ExpirePrevious(c) PROVE (ReplacesExpired /\ NoUnknownLink)'
  <2>1. ReplacesExpired'
    BY <1>4 DEF ExpirePrevious, Expire, Fails
  <2>2. NoUnknownLink'
    BY <1>4 DEF ExpirePrevious, Expire, Fails
  <2> QED BY <2>1, <2>2
<1>5. ASSUME NEW c \in Call, RequestPreference(c) PROVE (ReplacesExpired /\ NoUnknownLink)'
  <2>1. ReplacesExpired'
    BY <1>5 DEF RequestPreference, Opened
  <2>2. NoUnknownLink'
    BY <1>5 DEF RequestPreference, Opened
  <2> QED BY <2>1, <2>2
<1>6. ASSUME NEW c \in Call, RequestFails(c) PROVE (ReplacesExpired /\ NoUnknownLink)'
  BY <1>6 DEF RequestFails, Fails
<1>7. ASSUME NEW c \in Call, AttachPreference(c) PROVE (ReplacesExpired /\ NoUnknownLink)'
  <2>1. ReplacesExpired'
    BY <1>7 DEF AttachPreference, Attaches
  <2>2. NoUnknownLink'
    BY <1>7 DEF AttachPreference, Attaches
  <2> QED BY <2>1, <2>2
<1>8. ASSUME NEW c \in Call, AttachRefused(c) PROVE (ReplacesExpired /\ NoUnknownLink)'
  BY <1>8 DEF AttachRefused
<1>9. ASSUME NEW c \in Call, DropOwnLink(c) PROVE (ReplacesExpired /\ NoUnknownLink)'
  BY <1>9 DEF DropOwnLink, Expire, Fails
<1>10. ASSUME NEW c \in Call, Crash(c) PROVE (ReplacesExpired /\ NoUnknownLink)'
  BY <1>10 DEF Crash, Fails
<1>11. ASSUME NEW c \in Call, AfterCancellation(c) PROVE (ReplacesExpired /\ NoUnknownLink)'
  BY <1>11 DEF AfterCancellation, Expire, Fails
<1>12. CASE Cancel
  BY <1>12 DEF Cancel
<1>13. CASE PaymentApproved \/ PaymentRejected \/ PaymentPending
  BY <1>13 DEF PaymentApproved, PaymentRejected, PaymentPending, PaymentOutcome
<1>14. CASE ReservationLapses
  BY <1>14 DEF ReservationLapses
<1>15. CASE ExpireReservation
  BY <1>15 DEF ExpireReservation
<1>16. CASE UNCHANGED vars
  BY <1>16 DEF vars
<1> QED
  BY <1>1, <1>2, <1>3, <1>4, <1>5, <1>6, <1>7, <1>8, <1>9, <1>10, <1>11, <1>12, <1>13,
     <1>14, <1>15, <1>16 DEF Next

LEMMA CInvInit == Init => CInv
BY AInvInit DEF Init, CInv, UnpaidOrder, CancelledTakesNoPayment, PAGADO, CANCELADO, SIN_ALTA

LEMMA CInvStep == CInv /\ [Next]_vars => CInv'
<1> SUFFICES ASSUME CInv, [Next]_vars, failures' = {}
             PROVE  (UnpaidOrder /\ CancelledTakesNoPayment)'
  BY AInvStep DEF CInv, CancelledTakesNoPayment
<1>0. failures = {}
  BY FailuresStay
<1> USE <1>0
<1> USE PreferenceAssumption, PaymentLinksAssumption
<1> USE DEF CInv, AInv, LInv, TypeOK, NoUnknownLink, UnpaidOrder, CancelledTakesNoPayment,
            InHand, Steps, orderVars, Goto, LinksEndWithReservation,
            AWAITING_PAYMENT_STATUSES, SIN_ALTA, CANCELADO, PAGADO, PAGO_RECHAZADO,
            PAGO_PENDIENTE_ACREDITACION, PENDIENTE_PAGO
<1> DEFINE Goal == UnpaidOrder /\ CancelledTakesNoPayment
<1>1. CASE Confirm
  BY <1>1 DEF Confirm
<1>2. CASE CompensateFailedPreference
  BY <1>2 DEF CompensateFailedPreference
<1>3. ASSUME NEW c \in Call, RetryPayment(c) PROVE Goal'
  BY <1>3 DEF RetryPayment
<1>4. ASSUME NEW c \in Call, ExpirePrevious(c) PROVE Goal'
  BY <1>4 DEF ExpirePrevious, Expire, Fails
<1>5. ASSUME NEW c \in Call, RequestPreference(c) PROVE Goal'
  BY <1>5 DEF RequestPreference, Opened
<1>6. ASSUME NEW c \in Call, RequestFails(c) PROVE Goal'
  BY <1>6 DEF RequestFails, Fails
<1>7. ASSUME NEW c \in Call, AttachPreference(c) PROVE Goal'
  BY <1>7 DEF AttachPreference, Attaches
<1>8. ASSUME NEW c \in Call, AttachRefused(c) PROVE Goal'
  BY <1>8 DEF AttachRefused
<1>9. ASSUME NEW c \in Call, DropOwnLink(c) PROVE Goal'
  BY <1>9 DEF DropOwnLink, Expire, Fails
<1>10. ASSUME NEW c \in Call, Crash(c) PROVE Goal'
  BY <1>10 DEF Crash, Fails
<1>11. ASSUME NEW c \in Call, AfterCancellation(c) PROVE Goal'
  BY <1>11 DEF AfterCancellation, Expire, Fails
<1>12. CASE Cancel
  <2>1. /\ status \in AWAITING_PAYMENT_STATUSES \cup {PAGADO}
        /\ status' = CANCELADO /\ closing' = closing \cup ToClose
        /\ UNCHANGED <<paid, preference, pc, link>>
    BY <1>12 DEF Cancel, CUSTOMER_CANCELLABLE_STATUSES, ADMIN_NON_CANCELLABLE_STATUSES,
                 OrderStatuses, EN_PREPARACION, DESPACHADO, ENTREGADO, DEVUELTO
  <2>2. status \in AWAITING_PAYMENT_STATUSES => ToClose = {preference} \ {SIN_PREFERENCIA}
    BY DEF ToClose
  <2>3. UnpaidOrder'
    BY <2>1
  <2>4. ASSUME ~paid, NEW l \in Call, link[l] = "open"
        PROVE  pc[l] \in {"attaching", "dropping"} \/ l \in closing'
    <3>1. status \in AWAITING_PAYMENT_STATUSES
      BY <2>1, <2>4
    <3>2. CASE preference = l
      BY <2>1, <2>2, <3>1, <3>2
    <3>3. CASE preference # l
      BY <2>1, <2>4, <3>3
    <3> QED BY <3>2, <3>3
  <2> QED BY <2>1, <2>3, <2>4
<1>13. CASE PaymentApproved \/ PaymentRejected \/ PaymentPending
  <2>1. /\ status' \in {PAGADO, PAGO_RECHAZADO, PAGO_PENDIENTE_ACREDITACION}
        /\ UNCHANGED <<pc, link, closing>>
    BY <1>13 DEF PaymentApproved, PaymentRejected, PaymentPending, PaymentOutcome
  <2>2. status' = PAGADO => PaymentApproved
    BY <1>13 DEF PaymentRejected, PaymentPending, PaymentOutcome
  <2>3. PaymentApproved => paid'
    BY DEF PaymentApproved, PaymentOutcome
  <2> QED BY <2>1, <2>2, <2>3
<1>14. CASE ReservationLapses
  BY <1>14 DEF ReservationLapses
<1>15. CASE ExpireReservation
  BY <1>15 DEF ExpireReservation
<1>16. CASE UNCHANGED vars
  BY <1>16 DEF vars
<1> QED
  BY <1>1, <1>2, <1>3, <1>4, <1>5, <1>6, <1>7, <1>8, <1>9, <1>10, <1>11, <1>12, <1>13,
     <1>14, <1>15, <1>16 DEF Next

-----------------------------------------------------------------------------
\* Whatever fails, the variables hold values of their kinds.
THEOREM PaymentLinksTypeOK == Spec => []TypeOK
<1>1. LInv => TypeOK
  BY DEF LInv
<1> QED BY LInvInit, LInvStep, <1>1, PTL DEF Spec

\* Whatever fails, no link accepts payments once the reservation lapsed.
THEOREM LinksEnd == Spec => []LinksEndWithReservation
<1>1. LInv => LinksEndWithReservation
  BY DEF LInv
<1> QED BY LInvInit, LInvStep, <1>1, PTL DEF Spec

\* Whatever fails, a link is replaced only after the gateway was asked to close it.
THEOREM ReplacedWereClosed == Spec => []ReplacedLinksWereClosed
<1>1. LInv => ReplacedLinksWereClosed
  BY DEF LInv
<1> QED BY LInvInit, LInvStep, <1>1, PTL DEF Spec

\* While the gateway answers and closes, no link that can be paid is forgotten,
\* however many retries overlap.
THEOREM NoLinkIsForgotten == Spec => []NoUnknownLink
<1>1. AInv => NoUnknownLink
  BY DEF AInv
<1>2. AInv /\ [Next]_vars => AInv'
  BY AInvStep
<1> QED BY AInvInit, <1>1, <1>2, PTL DEF Spec

\* Every link that can be paid is known, ends with the reservation, and was asked
\* to be closed before another one replaced it.
THEOREM LinksAreAlwaysKnown == Spec => []LinksAreKnown
<1>1. NoUnknownLink /\ LinksEndWithReservation /\ ReplacedLinksWereClosed => LinksAreKnown
  BY DEF LinksAreKnown
<1> QED BY NoLinkIsForgotten, LinksEnd, ReplacedWereClosed, <1>1, PTL

\* While nothing fails, a cancelled order keeps no link but the one that is
\* being closed.
THEOREM CancelledKeepsNoLink == Spec => []CancelledTakesNoPayment
<1>1. CInv => CancelledTakesNoPayment
  BY DEF CInv
<1>2. CInv /\ [Next]_vars => CInv'
  BY CInvStep
<1> QED BY CInvInit, <1>1, <1>2, PTL DEF Spec

-----------------------------------------------------------------------------
(***************************************************************************)
(* The order of a customer                                                 *)
(***************************************************************************)
\* What a summary, the page and a confirmation under way hold.
Quotes == [items : Buying!Items, cost : Amounts,
           total : { Buying!Subtotal(i) + c : i \in Buying!Items, c \in Amounts }]
Page == [reval : {"pending", "ok", "failed"}, cart : Buying!Items, acked : BOOLEAN,
         addr : Addrs \cup {Nothing}, ship : Ways \cup {Nothing}, offered : SUBSET Ways,
         texts : [Addrs -> Texts \cup {Nothing}], quotes : [Buying!Keys -> Quotes \cup {Nothing}],
         refetch : BOOLEAN, confirm : {"idle", "pending", "stale", "done"}]
Request == [addr : Addrs, ship : Ways, seen : Quotes, read : BOOLEAN,
            text : Texts \cup {Nothing}, cost : Amounts \cup {Nothing}]

\* Nothing is nothing else, and an address says something.
BuyingAssumption == Nothing \notin Request /\ Texts # {}

\* Every variable of the page and of what it asks keeps its type.
BType ==
  /\ price \in Buying!Items /\ cart \in Buying!Items
  /\ cost \in [Ways -> Amounts \cup {Nothing}] /\ book \in [Addrs -> Texts \cup {Nothing}]
  /\ page \in Page /\ request \in Request \cup {Nothing} /\ unasked \in BOOLEAN

\* A confirmation is under way over a revalidated and acknowledged cart.
ConfirmsWhatIsOpen ==
  /\ (page.confirm = "pending") = (request # Nothing)
  /\ page.confirm = "pending" => page.reval = "ok" /\ page.acked
  /\ page.confirm = "stale" => page.reval = "pending"
  /\ page.ship # Nothing => page.addr # Nothing

\* The page shows the cart until it is that of the order.
ShowsTheCart ==
  /\ orders = {} \/ (cart = Buying!NoItems /\ \E o : orders = {o})
  /\ orders = {} /\ page.reval = "ok" => page.cart = cart
  /\ Buying!ItemsWereShown

\* What was adjusted waits to be acknowledged.
AsksWhatWasAdjusted ==
  /\ page.reval # "failed"
  /\ unasked => page.reval = "ok" /\ ~page.acked
  /\ Buying!AdjustedIsReconfirmed

\* Each part holds until the trouble that it cannot survive has happened.
BInv ==
  /\ BType /\ ConfirmsWhatIsOpen /\ Buying!TotalIsAsSeen
  /\ "cart" \notin happened => ShowsTheCart
  /\ "lost" \notin happened => AsksWhatWasAdjusted

\* A checkout that is entered has it.
LEMMA BInvInit ==
  ASSUME BuyingAssumption, Buying!Init
  PROVE  BInv
<1>1. book \in [Addrs -> Texts] BY DEF Buying!Init, BuyingAssumption
<1>2. page \in Page BY <1>1 DEF Buying!Init, Page, Buying!NoItems, Buying!Items
<1>3. BType
  <2>1. price \in Buying!Items /\ cart \in Buying!Items BY DEF Buying!Init, Buying!Items
  <2>2. cost \in [Ways -> Amounts \cup {Nothing}] BY DEF Buying!Init
  <2>3. request \in Request \cup {Nothing} /\ unasked \in BOOLEAN BY DEF Buying!Init
  <2>4. book \in [Addrs -> Texts \cup {Nothing}] BY <1>1
  <2> QED BY <1>2, <2>1, <2>2, <2>3, <2>4 DEF BType
<1>4. page.reval = "pending" /\ page.confirm = "idle" /\ page.ship = Nothing BY DEF Buying!Init
<1>5. orders = {} /\ unasked = FALSE /\ request = Nothing BY Zenon DEF Buying!Init
<1>6. ConfirmsWhatIsOpen BY <1>4, <1>5 DEF ConfirmsWhatIsOpen
<1>7. ShowsTheCart
  <2>1. Buying!ItemsWereShown BY <1>5 DEF Buying!ItemsWereShown
  <2>2. page.reval # "ok" BY <1>4
  <2> QED BY Zenon, <1>5, <2>1, <2>2 DEF ShowsTheCart
<1>8. AsksWhatWasAdjusted BY <1>4, <1>5 DEF AsksWhatWasAdjusted, Buying!AdjustedIsReconfirmed
<1>9. Buying!TotalIsAsSeen BY <1>5 DEF Buying!TotalIsAsSeen
<1> QED BY <1>3, <1>6, <1>7, <1>8, <1>9 DEF BInv

\* The page takes or loads something that leaves alone what is revalidated, asked
\* and confirmed.
LEMMA PageKeeps ==
  ASSUME BInv, NEW p \in Page, page' = p,
         p.reval = page.reval, p.cart = page.cart, p.acked = page.acked,
         p.confirm = page.confirm, p.ship # Nothing => p.addr # Nothing,
         book' \in [Addrs -> Texts \cup {Nothing}],
         UNCHANGED <<price, cart, cost, request, orders, unasked, happened>>
  PROVE  BInv'
<1> USE DEF BInv
<1>1. BType' BY DEF BType
<1>2. ConfirmsWhatIsOpen' BY DEF ConfirmsWhatIsOpen
<1>3. Buying!TotalIsAsSeen' BY DEF Buying!TotalIsAsSeen
<1>4. ShowsTheCart => ShowsTheCart' BY DEF ShowsTheCart, Buying!ItemsWereShown
<1>5. AsksWhatWasAdjusted => AsksWhatWasAdjusted'
  BY DEF AsksWhatWasAdjusted, Buying!AdjustedIsReconfirmed
<1> QED BY <1>1, <1>2, <1>3, <1>4, <1>5

\* What an adjustment makes of the cart.
LEMMA AdjustedFits ==
  ASSUME BType
  PROVE  /\ Buying!Adjusted \in Buying!Items
         /\ cart = Buying!NoItems => Buying!Adjusted = Buying!NoItems
         /\ Buying!Problems = {} => Buying!Adjusted = cart
<1>1. Buying!Adjusted \in Buying!Items BY DEF BType, Buying!Adjusted, Buying!Items
<1>2. cart = Buying!NoItems => Buying!Adjusted = Buying!NoItems
  BY DEF Buying!Adjusted, Buying!NoItems
<1>3. ASSUME Buying!Problems = {} PROVE Buying!Adjusted = cart
  <2>1. \A q \in Products : cart[q] # Nothing => price[q] = cart[q]
    BY <1>3 DEF Buying!Problems, Buying!In
  <2>2. \A q \in Products : Buying!Adjusted[q] = cart[q] BY <2>1 DEF Buying!Adjusted
  <2> QED BY <1>1, <2>2 DEF BType, Buying!Items
<1> QED BY <1>1, <1>2, <1>3

\* A revalidation adjusts the cart, and shows and announces it unless its answer is
\* lost.
LEMMA RevalidateKeeps ==
  ASSUME BInv, Buying!Revalidate
  PROVE  BInv'
<1> DEFINE ok == [page EXCEPT !.reval = "ok", !.cart = Buying!Adjusted,
                    !.acked = Buying!Acknowledged(Buying!Adjusted # cart),
                    !.refetch = page.refetch \/ page.confirm = "stale",
                    !.confirm = IF page.confirm = "stale" THEN "idle" ELSE page.confirm]
           failed == [page EXCEPT !.reval = "failed", !.confirm = "idle"]
<1>1. /\ page.reval = "pending" /\ cart' = Buying!Adjusted /\ unasked' = (unasked \/ Buying!Adjusted # cart)
      /\ UNCHANGED <<price, cost, book, request, orders>>
      /\ \/ page' = ok /\ UNCHANGED happened
         \/ page' = failed /\ happened' = happened \cup {"lost"}
  BY DEF Buying!Revalidate, Buying!Happens, Buying!history
<1>2. /\ BType /\ ConfirmsWhatIsOpen /\ page \in Page /\ unasked \in BOOLEAN
      /\ Buying!Adjusted \in Buying!Items /\ (cart = Buying!NoItems => Buying!Adjusted = Buying!NoItems)
  BY AdjustedFits DEF BInv, BType
<1>3. page.confirm # "pending" /\ request = Nothing BY <1>1, <1>2 DEF ConfirmsWhatIsOpen
<1>4. /\ ok \in Page /\ ok.reval = "ok" /\ ok.cart = Buying!Adjusted /\ ok.acked = (Buying!Adjusted = cart)
      /\ ok.confirm \in {"idle", "done"} /\ ok.ship = page.ship /\ ok.addr = page.addr
  BY <1>2, <1>3 DEF Page, Buying!Acknowledged
<1>5. /\ failed \in Page /\ failed.reval = "failed" /\ failed.confirm = "idle"
      /\ failed.ship = page.ship /\ failed.addr = page.addr
  BY <1>2 DEF Page
<1> HIDE DEF ok, failed
<1>6. BType' BY <1>1, <1>2, <1>3, <1>4, <1>5 DEF BType, Buying!Items
<1>7. ConfirmsWhatIsOpen' BY <1>1, <1>2, <1>3, <1>4, <1>5 DEF ConfirmsWhatIsOpen
<1>8. Buying!TotalIsAsSeen' BY <1>1 DEF BInv, Buying!TotalIsAsSeen
<1>9. ASSUME "cart" \notin happened' PROVE ShowsTheCart'
  <2>1. ShowsTheCart BY <1>1, <1>9 DEF BInv
  <2>2. (orders = {} \/ (cart = Buying!NoItems /\ \E o : orders = {o}))'
    BY <1>1, <1>2, <2>1 DEF ShowsTheCart, Buying!NoItems
  <2>3. page'.reval = "ok" => page'.cart = cart' BY <1>1, <1>4, <1>5
  <2> QED BY <1>1, <2>1, <2>2, <2>3 DEF ShowsTheCart, Buying!ItemsWereShown
<1>10. ASSUME "lost" \notin happened' PROVE AsksWhatWasAdjusted'
  <2>1. AsksWhatWasAdjusted /\ page' = ok BY <1>1, <1>10 DEF BInv
  <2>2. ~unasked /\ unasked' = (Buying!Adjusted # cart)
    BY <1>1, <1>2, <2>1 DEF AsksWhatWasAdjusted
  <2> QED BY <1>1, <1>4, <2>1, <2>2 DEF AsksWhatWasAdjusted, Buying!AdjustedIsReconfirmed
<1> QED BY <1>6, <1>7, <1>8, <1>9, <1>10 DEF BInv

\* The page asks again for what failed.
LEMMA RetryKeeps ==
  ASSUME BInv, Buying!RetryRevalidation
  PROVE  BInv'
<1> DEFINE p == [page EXCEPT !.reval = "pending"]
<1>1. /\ page.reval = "failed" /\ page' = p /\ page \in Page
      /\ UNCHANGED <<price, cart, cost, book, request, orders, unasked, happened>>
  BY DEF Buying!RetryRevalidation, Buying!server, Buying!history, BInv, BType
<1>2. /\ p \in Page /\ p.reval = "pending" /\ p.confirm = page.confirm
      /\ p.ship = page.ship /\ p.addr = page.addr
  BY <1>1 DEF Page
<1> HIDE DEF p
<1>3. BType' BY <1>1, <1>2 DEF BInv, BType
<1>4. ConfirmsWhatIsOpen' BY <1>1, <1>2 DEF BInv, ConfirmsWhatIsOpen
<1>5. Buying!TotalIsAsSeen' BY <1>1 DEF BInv, Buying!TotalIsAsSeen
<1>6. ShowsTheCart => ShowsTheCart' BY <1>1, <1>2 DEF ShowsTheCart, Buying!ItemsWereShown
<1>7. ~AsksWhatWasAdjusted BY <1>1 DEF AsksWhatWasAdjusted
<1> QED BY <1>1, <1>3, <1>4, <1>5, <1>6, <1>7 DEF BInv

\* The customer acknowledges what was adjusted.
LEMMA AcknowledgeKeeps ==
  ASSUME BInv, Buying!Acknowledge
  PROVE  BInv'
<1> DEFINE p == [page EXCEPT !.acked = TRUE]
<1>1. /\ page' = p /\ page \in Page /\ ~unasked'
      /\ UNCHANGED <<price, cart, cost, book, request, orders, happened>>
  BY DEF Buying!Acknowledge, Buying!server, Buying!history, BInv, BType
<1>2. /\ p \in Page /\ p.reval = page.reval /\ p.confirm = page.confirm /\ p.acked
      /\ p.cart = page.cart /\ p.ship = page.ship /\ p.addr = page.addr
  BY <1>1 DEF Page
<1> HIDE DEF p
<1>3. BType'
  <2>1. unasked' \in BOOLEAN BY DEF Buying!Acknowledge
  <2> QED BY <1>1, <1>2, <2>1 DEF BInv, BType
<1>4. ConfirmsWhatIsOpen' BY <1>1, <1>2 DEF BInv, ConfirmsWhatIsOpen
<1>5. Buying!TotalIsAsSeen' BY <1>1 DEF BInv, Buying!TotalIsAsSeen
<1>6. ShowsTheCart => ShowsTheCart' BY <1>1, <1>2 DEF ShowsTheCart, Buying!ItemsWereShown
<1>7. AsksWhatWasAdjusted => AsksWhatWasAdjusted'
  BY <1>1, <1>2 DEF AsksWhatWasAdjusted, Buying!AdjustedIsReconfirmed
<1> QED BY <1>1, <1>3, <1>4, <1>5, <1>6, <1>7 DEF BInv

\* What the customer selects, and what the page loads.
LEMMA PageStepsKeep ==
  ASSUME BInv,
         \/ \E a \in Addrs : Buying!SelectAddress(a) \/ Buying!CreateAddress(a)
         \/ \E m \in Ways : Buying!SelectMethod(m)
         \/ Buying!LoadBook \/ Buying!LoadMethods \/ Buying!Quote
  PROVE  BInv'
<1>0. /\ page \in Page /\ book \in [Addrs -> Texts \cup {Nothing}]
      /\ page.ship # Nothing => page.addr # Nothing
  BY DEF BInv, BType, ConfirmsWhatIsOpen
<1> USE DEF Buying!server, Buying!history
<1>1. ASSUME NEW a \in Addrs, Buying!SelectAddress(a) PROVE BInv'
  <2> DEFINE p == [page EXCEPT !.addr = a, !.ship = Nothing]
  <2>1. page' = p /\ UNCHANGED <<price, cart, cost, book, request, orders, unasked, happened>>
    BY <1>1 DEF Buying!SelectAddress
  <2>2. /\ p \in Page /\ p.reval = page.reval /\ p.cart = page.cart /\ p.acked = page.acked
        /\ p.confirm = page.confirm /\ p.ship = Nothing
    BY <1>0 DEF Page
  <2> HIDE DEF p
  <2> QED BY <1>0, <2>1, <2>2, PageKeeps
<1>2. ASSUME NEW a \in Addrs, Buying!CreateAddress(a) PROVE BInv'
  <2>1. PICK t \in Texts :
          /\ book' = [book EXCEPT ![a] = t]
          /\ page' = [page EXCEPT !.addr = a, !.ship = Nothing, !.texts[a] = t]
    BY <1>2 DEF Buying!CreateAddress
  <2> DEFINE p == [page EXCEPT !.addr = a, !.ship = Nothing, !.texts[a] = t]
  <2>2. page' = p /\ UNCHANGED <<price, cart, cost, request, orders, unasked, happened>>
    BY <1>2, <2>1 DEF Buying!CreateAddress
  <2>3. /\ p \in Page /\ p.reval = page.reval /\ p.cart = page.cart /\ p.acked = page.acked
        /\ p.confirm = page.confirm /\ p.ship = Nothing
    BY <1>0 DEF Page
  <2>4. book' \in [Addrs -> Texts \cup {Nothing}] BY <1>0, <2>1
  <2> HIDE DEF p
  <2> QED BY <2>2, <2>3, <2>4, PageKeeps
<1>3. ASSUME NEW m \in Ways, Buying!SelectMethod(m) PROVE BInv'
  <2> DEFINE p == [page EXCEPT !.ship = m, !.refetch = TRUE]
  <2>1. /\ page' = p /\ page.addr # Nothing
        /\ UNCHANGED <<price, cart, cost, book, request, orders, unasked, happened>>
    BY <1>3 DEF Buying!SelectMethod
  <2>2. /\ p \in Page /\ p.reval = page.reval /\ p.cart = page.cart /\ p.acked = page.acked
        /\ p.confirm = page.confirm /\ p.addr = page.addr
    BY <1>0 DEF Page
  <2> HIDE DEF p
  <2> QED BY <1>0, <2>1, <2>2, PageKeeps
<1>4. ASSUME Buying!LoadBook PROVE BInv'
  <2> DEFINE p == [page EXCEPT !.texts = book]
  <2>1. page' = p /\ UNCHANGED <<price, cart, cost, book, request, orders, unasked, happened>>
    BY <1>4 DEF Buying!LoadBook
  <2>2. /\ p \in Page /\ p.reval = page.reval /\ p.cart = page.cart /\ p.acked = page.acked
        /\ p.confirm = page.confirm /\ p.ship = page.ship /\ p.addr = page.addr
    BY <1>0 DEF Page
  <2> HIDE DEF p
  <2> QED BY <1>0, <2>1, <2>2, PageKeeps
<1>5. ASSUME Buying!LoadMethods PROVE BInv'
  <2> DEFINE p == [page EXCEPT !.offered = Buying!Active]
  <2>1. page' = p /\ UNCHANGED <<price, cart, cost, book, request, orders, unasked, happened>>
    BY <1>5 DEF Buying!LoadMethods
  <2>2. /\ p \in Page /\ p.reval = page.reval /\ p.cart = page.cart /\ p.acked = page.acked
        /\ p.confirm = page.confirm /\ p.ship = page.ship /\ p.addr = page.addr
    BY <1>0 DEF Page, Buying!Active
  <2> HIDE DEF p
  <2> QED BY <1>0, <2>1, <2>2, PageKeeps
<1>6. ASSUME Buying!Quote PROVE BInv'
  <2> DEFINE q == [items |-> cart, cost |-> cost[page.ship],
                   total |-> Buying!Subtotal(cart) + cost[page.ship]]
             v == IF Buying!Valid(page.addr, page.ship) /\ Buying!In(cart) # {} THEN q ELSE page.quotes[Buying!Key]
             p == [page EXCEPT !.refetch = FALSE, !.quotes[Buying!Key] = v]
  <2>1. /\ page' = p /\ Buying!Chosen
        /\ UNCHANGED <<price, cart, cost, book, request, orders, unasked, happened>>
    BY <1>6 DEF Buying!Quote
  <2>2. page.addr \in Addrs /\ page.ship \in Ways BY <1>0, <2>1 DEF Buying!Chosen, Page
  <2>3. Buying!Key \in Buying!Keys BY <2>2 DEF Buying!Key, Buying!Keys
  <2>4. page.quotes[Buying!Key] \in Quotes \cup {Nothing} BY <1>0, <2>3 DEF Page
  <2>5. ASSUME Buying!Valid(page.addr, page.ship) PROVE q \in Quotes
    <3>1. cart \in Buying!Items /\ cost[page.ship] \in Amounts
      BY <2>2, <2>5 DEF Buying!Valid, BInv, BType
    <3> QED BY <3>1 DEF Quotes
  <2>6. v \in Quotes \cup {Nothing} BY <2>4, <2>5
  <2> HIDE DEF q, v
  <2>7. /\ p \in Page /\ p.reval = page.reval /\ p.cart = page.cart /\ p.acked = page.acked
        /\ p.confirm = page.confirm /\ p.ship = page.ship /\ p.addr = page.addr
    <3>1. [page.quotes EXCEPT ![Buying!Key] = v] \in [Buying!Keys -> Quotes \cup {Nothing}]
      BY <1>0, <2>6 DEF Page
    <3> QED BY <1>0, <3>1 DEF Page
  <2> HIDE DEF p
  <2> QED BY <1>0, <2>1, <2>7, PageKeeps
<1> QED BY <1>1, <1>2, <1>3, <1>4, <1>5, <1>6

\* The customer confirms the summary.
LEMMA ConfirmKeeps ==
  ASSUME BuyingAssumption, BInv, Buying!Confirm
  PROVE  BInv'
<1> DEFINE p == [page EXCEPT !.confirm = "pending"]
           r == [addr |-> page.addr, ship |-> page.ship, seen |-> Buying!Shown,
                 read |-> FALSE, text |-> Nothing, cost |-> Nothing]
<1>1. /\ page' = p /\ request' = r /\ page.reval = "ok" /\ page.acked /\ Buying!Shown # Nothing
      /\ UNCHANGED <<price, cart, cost, book, orders, unasked, happened>>
  BY DEF Buying!Confirm, Buying!server, Buying!history, Buying!Open
<1>2. page \in Page BY DEF BInv, BType
<1>3. page.addr \in Addrs /\ page.ship \in Ways /\ Buying!Shown = page.quotes[Buying!Key]
  BY <1>1, <1>2 DEF Buying!Shown, Buying!Chosen, Page
<1>4. Buying!Key \in Buying!Keys BY <1>3 DEF Buying!Key, Buying!Keys
<1>5. Buying!Shown \in Quotes
  <2>1. page.quotes \in [Buying!Keys -> Quotes \cup {Nothing}] BY <1>2 DEF Page
  <2>2. page.quotes[Buying!Key] \in Quotes \cup {Nothing} BY Zenon, <1>4, <2>1
  <2> QED BY <1>1, <1>3, <2>2
<1>6. r \in Request /\ r # Nothing
  <2>1. r \in Request BY <1>3, <1>5 DEF Request
  <2> QED BY <2>1 DEF BuyingAssumption
<1>7. /\ p \in Page /\ p.reval = page.reval /\ p.confirm = "pending" /\ p.acked = page.acked
      /\ p.cart = page.cart /\ p.ship = page.ship /\ p.addr = page.addr
  BY <1>2 DEF Page
<1> HIDE DEF p, r
<1>8. BType' BY <1>1, <1>6, <1>7 DEF BInv, BType
<1>9. ConfirmsWhatIsOpen' BY <1>1, <1>3, <1>6, <1>7 DEF BInv, ConfirmsWhatIsOpen
<1>10. Buying!TotalIsAsSeen' BY <1>1 DEF BInv, Buying!TotalIsAsSeen
<1>11. ShowsTheCart => ShowsTheCart' BY <1>1, <1>7 DEF ShowsTheCart, Buying!ItemsWereShown
<1>12. AsksWhatWasAdjusted => AsksWhatWasAdjusted'
  BY <1>1, <1>7 DEF AsksWhatWasAdjusted, Buying!AdjustedIsReconfirmed
<1> QED BY <1>1, <1>8, <1>9, <1>10, <1>11, <1>12 DEF BInv

\* The page hears how its confirmation ended.
LEMMA AnswerFits ==
  ASSUME BInv, NEW to \in {"idle", "done"}, Buying!Answer(to)
  PROVE  /\ request' = Nothing /\ page' \in Page /\ page'.confirm = to
         /\ page'.reval = page.reval /\ page'.acked = page.acked /\ page'.cart = page.cart
         /\ page'.ship = page.ship /\ page'.addr = page.addr
<1> DEFINE p == [page EXCEPT !.confirm = to]
<1>1. page' = p /\ request' = Nothing BY DEF Buying!Answer
<1>2. page \in Page BY DEF BInv, BType
<1>3. /\ p \in Page /\ p.reval = page.reval /\ p.confirm = to /\ p.acked = page.acked
      /\ p.cart = page.cart /\ p.ship = page.ship /\ p.addr = page.addr
  BY <1>2 DEF Page
<1> HIDE DEF p
<1> QED BY <1>1, <1>3

\* The page hears of it without an order.
LEMMA NoOrderKeeps ==
  ASSUME BInv, Buying!Answer("idle"),
         UNCHANGED <<price, cart, cost, book, orders, unasked>>,
         happened \subseteq happened'
  PROVE  BInv'
<1>1. /\ request' = Nothing /\ page' \in Page /\ page'.confirm = "idle"
      /\ page'.reval = page.reval /\ page'.acked = page.acked /\ page'.cart = page.cart
      /\ page'.ship = page.ship /\ page'.addr = page.addr
  BY AnswerFits
<1>2. BType' BY <1>1 DEF BInv, BType
<1>3. ConfirmsWhatIsOpen' BY <1>1 DEF BInv, ConfirmsWhatIsOpen
<1>4. Buying!TotalIsAsSeen' BY DEF BInv, Buying!TotalIsAsSeen
<1>5. ShowsTheCart => ShowsTheCart' BY <1>1 DEF ShowsTheCart, Buying!ItemsWereShown
<1>6. AsksWhatWasAdjusted => AsksWhatWasAdjusted'
  BY <1>1 DEF AsksWhatWasAdjusted, Buying!AdjustedIsReconfirmed
<1> QED BY <1>2, <1>3, <1>4, <1>5, <1>6 DEF BInv

\* The confirmation reads address and method.
LEMMA ReadChoiceKeeps ==
  ASSUME BuyingAssumption, BInv, Buying!ReadChoice
  PROVE  BInv'
<1> DEFINE r == [request EXCEPT !.read = TRUE, !.text = book[request.addr],
                                !.cost = cost[request.ship]]
<1>1. /\ page.confirm = "pending"
      /\ UNCHANGED <<price, cart, cost, book, orders, unasked, happened>>
      /\ (request' = r /\ UNCHANGED page) \/ Buying!Answer("idle")
  BY DEF Buying!ReadChoice, Buying!server, Buying!history
<1>2. request \in Request
  BY <1>1 DEF BInv, BType, ConfirmsWhatIsOpen
<1>3. CASE request' = r /\ UNCHANGED page
  <2>1. book[request.addr] \in Texts \cup {Nothing} /\ cost[request.ship] \in Amounts \cup {Nothing}
    BY <1>2 DEF Request, BInv, BType
  <2>2. r \in Request /\ r # Nothing BY <1>2, <2>1 DEF Request, BuyingAssumption
  <2> HIDE DEF r
  <2>3. BType' BY <1>1, <1>3, <2>2 DEF BInv, BType
  <2>4. ConfirmsWhatIsOpen' BY <1>1, <1>3, <2>2 DEF BInv, ConfirmsWhatIsOpen
  <2>5. Buying!TotalIsAsSeen' BY <1>1 DEF BInv, Buying!TotalIsAsSeen
  <2>6. ShowsTheCart => ShowsTheCart' BY <1>1, <1>3 DEF ShowsTheCart, Buying!ItemsWereShown
  <2>7. AsksWhatWasAdjusted => AsksWhatWasAdjusted'
    BY <1>1, <1>3 DEF AsksWhatWasAdjusted, Buying!AdjustedIsReconfirmed
  <2> QED BY <1>1, <2>3, <2>4, <2>5, <2>6, <2>7 DEF BInv
<1>4. CASE Buying!Answer("idle") BY <1>1, <1>4, NoOrderKeeps
<1> QED BY <1>1, <1>3, <1>4

\* The cart is not what the summary says.
LEMMA StaleKeeps ==
  ASSUME BInv, Buying!Stale, page.confirm = "pending", UNCHANGED <<price, cost, book, unasked>>
  PROVE  BInv'
<1> DEFINE p == [page EXCEPT !.confirm = "stale", !.reval = "pending"]
<1>1. page' = p /\ request' = Nothing /\ UNCHANGED <<cart, orders, happened>>
  BY DEF Buying!Stale, Buying!Refused, Buying!history
<1>2. page \in Page BY DEF BInv, BType
<1>3. /\ p \in Page /\ p.reval = "pending" /\ p.confirm = "stale" /\ p.acked = page.acked
      /\ p.ship = page.ship /\ p.addr = page.addr
  BY <1>2 DEF Page
<1> HIDE DEF p
<1>4. BType' BY <1>1, <1>3 DEF BInv, BType
<1>5. ConfirmsWhatIsOpen' BY <1>1, <1>3 DEF BInv, ConfirmsWhatIsOpen
<1>6. Buying!TotalIsAsSeen' BY <1>1 DEF BInv, Buying!TotalIsAsSeen
<1>7. ShowsTheCart => ShowsTheCart' BY <1>1, <1>3 DEF ShowsTheCart, Buying!ItemsWereShown
<1>8. ASSUME AsksWhatWasAdjusted PROVE AsksWhatWasAdjusted'
  <2>1. ~unasked BY <1>8 DEF BInv, ConfirmsWhatIsOpen, AsksWhatWasAdjusted
  <2> QED BY <1>1, <1>3, <1>8, <2>1 DEF AsksWhatWasAdjusted, Buying!AdjustedIsReconfirmed
<1> QED BY <1>1, <1>4, <1>5, <1>6, <1>7, <1>8 DEF BInv

\* The order is placed; its answer may be lost.
LEMMA OrderKeeps ==
  ASSUME BInv, page.confirm = "pending", Buying!In(cart) # {}, Buying!Problems = {},
         NEW o, o.total = o.seen.total, o.items = Buying!Adjusted, o.shown = page.cart,
         o.unasked = unasked,
         cart' = Buying!NoItems, orders' = orders \cup {o},
         NEW to \in {"idle", "done"}, Buying!Answer(to), happened \subseteq happened',
         UNCHANGED <<price, cost, book, unasked>>
  PROVE  BInv'
<1>1. /\ request' = Nothing /\ page' \in Page /\ page'.confirm = to
      /\ page'.reval = page.reval /\ page'.acked = page.acked /\ page'.cart = page.cart
      /\ page'.ship = page.ship /\ page'.addr = page.addr
  BY AnswerFits
<1>2. Buying!NoItems \in Buying!Items BY DEF Buying!NoItems, Buying!Items
<1>3. BType' BY <1>1, <1>2 DEF BInv, BType, Buying!Items
<1>4. ConfirmsWhatIsOpen' BY <1>1 DEF BInv, ConfirmsWhatIsOpen
<1>5. Buying!TotalIsAsSeen' BY DEF BInv, Buying!TotalIsAsSeen
<1>6. page.reval = "ok" /\ page.acked BY DEF BInv, ConfirmsWhatIsOpen
<1>7. ASSUME ShowsTheCart PROVE ShowsTheCart'
  <2>1. cart # Buying!NoItems BY DEF Buying!In, Buying!NoItems
  <2>2. orders = {} /\ page.cart = cart BY <1>6, <1>7, <2>1 DEF ShowsTheCart
  <2>3. Buying!Adjusted = cart BY AdjustedFits DEF BInv
  <2>4. orders' = {o} BY <2>2
  <2>5. Buying!ItemsWereShown' BY <2>2, <2>3, <2>4 DEF Buying!ItemsWereShown
  <2>6. (cart = Buying!NoItems)' BY DEF Buying!NoItems
  <2> QED BY <2>4, <2>5, <2>6 DEF ShowsTheCart
<1>8. ASSUME AsksWhatWasAdjusted PROVE AsksWhatWasAdjusted'
  BY <1>1, <1>6, <1>8 DEF AsksWhatWasAdjusted, Buying!AdjustedIsReconfirmed
<1> QED BY <1>3, <1>4, <1>5, <1>7, <1>8 DEF BInv

\* The confirmation ends: refused, placed or undone after the gateway failed.
LEMMA PlaceKeeps ==
  ASSUME BInv, Buying!Place
  PROVE  BInv'
<1> DEFINE total == Buying!Subtotal(Buying!Adjusted) + request.cost
           order == [no |-> Buying!Cardinality(orders), items |-> Buying!Adjusted, cost |-> request.cost,
                     text |-> request.text, total |-> total, seen |-> request.seen,
                     shown |-> page.cart, unasked |-> unasked]
<1>1. /\ page.confirm = "pending" /\ UNCHANGED <<price, cost, book, unasked>>
      /\ \/ Buying!Answer("idle") /\ UNCHANGED <<cart, orders, happened>>
         \/ Buying!Stale
         \/ Buying!Answer("idle") /\ Buying!Happens("gateway") /\ UNCHANGED <<cart, orders>>
         \/ /\ Buying!In(cart) # {} /\ Buying!Problems = {} /\ ~Buying!TotalChanged(total)
            /\ cart' = Buying!Associated /\ orders' = orders \cup {order}
            /\ \/ Buying!Answer("done") /\ UNCHANGED happened
               \/ Buying!Answer("idle") /\ Buying!Happens("lost")
  BY DEF Buying!Place, Buying!history
<1>2. CASE Buying!Answer("idle") /\ UNCHANGED <<cart, orders, happened>>
  BY <1>1, <1>2, NoOrderKeeps
<1>3. CASE Buying!Stale BY <1>1, <1>3, StaleKeeps
<1>4. CASE Buying!Answer("idle") /\ Buying!Happens("gateway") /\ UNCHANGED <<cart, orders>>
  <2>1. happened \subseteq happened' BY <1>4 DEF Buying!Happens
  <2> QED BY <1>1, <1>4, <2>1, NoOrderKeeps
<1>5. CASE /\ Buying!In(cart) # {} /\ Buying!Problems = {} /\ ~Buying!TotalChanged(total)
           /\ cart' = Buying!Associated /\ orders' = orders \cup {order}
           /\ \/ Buying!Answer("done") /\ UNCHANGED happened
              \/ Buying!Answer("idle") /\ Buying!Happens("lost")
  <2>1. PICK to \in {"idle", "done"} : Buying!Answer(to) BY <1>5
  <2>2. happened \subseteq happened' BY <1>5 DEF Buying!Happens
  <2>3. /\ order.total = order.seen.total /\ order.items = Buying!Adjusted
        /\ order.shown = page.cart /\ order.unasked = unasked
    BY <1>5 DEF Buying!TotalChanged
  <2>4. cart' = Buying!NoItems BY <1>5 DEF Buying!Associated
  <2> HIDE DEF order
  <2> QED BY <1>1, <1>5, <2>1, <2>2, <2>3, <2>4, OrderKeeps
<1> QED BY <1>1, <1>2, <1>3, <1>4, <1>5

\* What changes elsewhere, the cart among it.
LEMMA ElsewhereKeeps ==
  ASSUME BInv, Buying!ChangeCatalogue \/ Buying!ChangeMethods \/ Buying!ChangeCart \/ Buying!ChangeBook
  PROVE  BInv'
<1>1. UNCHANGED <<page, request, orders, unasked>> /\ happened \subseteq happened'
  BY DEF Buying!ChangeCatalogue, Buying!ChangeMethods, Buying!ChangeCart, Buying!ChangeBook,
     Buying!Change, Buying!Happens
<1>2. BType'
  <2>1. CASE Buying!ChangeCatalogue
    <3>1. price' \in Buying!Items BY <2>1 DEF Buying!ChangeCatalogue, BInv, BType, Buying!Items
    <3> QED BY <1>1, <2>1, <3>1 DEF Buying!ChangeCatalogue, BInv, BType, Buying!Items
  <2>2. CASE Buying!ChangeMethods
    <3>1. cost' \in [Ways -> Amounts \cup {Nothing}] BY <2>2 DEF Buying!ChangeMethods, BInv, BType
    <3> QED BY <1>1, <2>2, <3>1 DEF Buying!ChangeMethods, BInv, BType
  <2>3. CASE Buying!ChangeCart
    <3>1. cart' \in Buying!Items BY <2>3 DEF Buying!ChangeCart, BInv, BType, Buying!Items
    <3> QED BY <1>1, <2>3, <3>1 DEF Buying!ChangeCart, BInv, BType, Buying!Items
  <2>4. CASE Buying!ChangeBook
    <3>1. book' \in [Addrs -> Texts \cup {Nothing}] BY <2>4 DEF Buying!ChangeBook, BInv, BType
    <3> QED BY <1>1, <2>4, <3>1 DEF Buying!ChangeBook, BInv, BType
  <2> QED BY <2>1, <2>2, <2>3, <2>4
<1>3. ConfirmsWhatIsOpen' BY <1>1 DEF BInv, ConfirmsWhatIsOpen
<1>4. Buying!TotalIsAsSeen' BY <1>1 DEF BInv, Buying!TotalIsAsSeen
<1>5. "cart" \in happened' \/ UNCHANGED cart
  BY DEF Buying!ChangeCatalogue, Buying!ChangeMethods, Buying!ChangeCart, Buying!ChangeBook,
     Buying!Change, Buying!Happens
<1>6. ASSUME ShowsTheCart, UNCHANGED cart PROVE ShowsTheCart'
  BY <1>1, <1>6 DEF ShowsTheCart, Buying!ItemsWereShown, Buying!NoItems
<1>7. AsksWhatWasAdjusted => AsksWhatWasAdjusted'
  BY <1>1 DEF AsksWhatWasAdjusted, Buying!AdjustedIsReconfirmed
<1> QED BY <1>1, <1>2, <1>3, <1>4, <1>5, <1>6, <1>7 DEF BInv

\* Every step of the page, of its requests and of the others keeps it.
LEMMA BInvNext ==
  ASSUME BuyingAssumption, BInv, Buying!Next
  PROVE  BInv'
BY RevalidateKeeps, RetryKeeps, AcknowledgeKeeps, PageStepsKeep, ConfirmKeeps, ReadChoiceKeeps,
   PlaceKeeps, ElsewhereKeeps DEF Buying!Next, Buying!PageLoads, Buying!Customer

\* It is what the order promises.
LEMMA BInvImplies ==
  ASSUME BInv
  PROVE  Buying!TypeOK /\ Buying!OrderIsAsSeen
<1>1. page \in Page BY DEF BInv, BType
<1>2. Buying!TypeOK BY <1>1 DEF BInv, BType, ConfirmsWhatIsOpen, Buying!TypeOK, Page
<1>3. \A S : Buying!Cardinality(S) = Cardinality(S) BY Zenon DEF Buying!Cardinality, Cardinality
<1>4. ASSUME ShowsTheCart PROVE Buying!ItemsWereShown /\ Buying!OneOrder
  <2>1. orders = {} \/ \E o : orders = {o} BY <1>4 DEF ShowsTheCart
  <2>2. Cardinality(orders) <= 1 BY <2>1, FS_EmptySet, FS_Singleton
  <2> QED BY <1>3, <1>4, <2>2 DEF ShowsTheCart, Buying!OneOrder
<1> QED BY <1>2, <1>4 DEF BInv, AsksWhatWasAdjusted, Buying!OrderIsAsSeen

\* Every reachable state of the run's specification has it.
LEMMA PartKeepsOrder ==
  ASSUME BuyingAssumption
  PROVE  MCSpec => [](part = "page" => BInv)
<1>1. MCInit => (part = "page" => BInv)
  BY BInvInit DEF MCInit
<1>2. ASSUME part = "page" => BInv,
             [MCNext]_<<part, vars, checkoutVars, methodVars>>
      PROVE  (part = "page" => BInv)'
  <2>1. CASE PageNext BY <1>2, <2>1, BInvNext DEF PageNext
  <2>2. CASE LinksNext \/ MethodsNext BY <2>2 DEF LinksNext, MethodsNext
  <2>3. CASE UNCHANGED <<part, vars, checkoutVars, methodVars>>
    <3>1. UNCHANGED <<part, price, cart, cost, book, page, request, orders, unasked, happened>>
      BY Zenon, <2>3 DEF checkoutVars
    <3> QED BY <1>2, <3>1 DEF BInv, BType, ConfirmsWhatIsOpen, Buying!TotalIsAsSeen, ShowsTheCart,
                  AsksWhatWasAdjusted, Buying!ItemsWereShown, Buying!AdjustedIsReconfirmed, Buying!NoItems
  <2> QED BY <1>2, <2>1, <2>2, <2>3 DEF MCNext
<1> QED BY <1>1, <1>2, PTL DEF MCSpec

\* Whatever changes elsewhere and fails, and however often, an order has the total
\* of the summary that was confirmed; until the cart changes elsewhere, it has the
\* items the page shows and is the only one; until an answer is lost, every
\* adjustment was acknowledged (checkout.service.ts:184-217, Checkout.tsx:52-66,
\* 111-134).
THEOREM OrderIsAlwaysAsSeen ==
  ASSUME BuyingAssumption
  PROVE  MCSpec => []OrderIsAsSeen
<1>1. (part = "page" => BInv) => OrderIsAsSeen BY BInvImplies DEF OrderIsAsSeen
<1> QED BY <1>1, PartKeepsOrder, PTL

-----------------------------------------------------------------------------
(***************************************************************************)
(* The shipping methods                                                    *)
(***************************************************************************)
\* Nothing is nothing else.
MethodsAssumption ==
  Nothing \notin Methods \cup Names \cup Costs \cup Switching!Row

\* What a request holds.
RequestFits(r) ==
  /\ r \in [op : Switching!Asked \cup {"none"}, step : {"idle", "read", "save", "count"},
            id : Methods \cup {Nothing}, copy : Switching!Row \cup {Nothing}, to : BOOLEAN]
  /\ IF r.step = "idle" THEN r = Switching!Idle ELSE r.op \in Switching!Asked
  /\ r.step = "read" => r.op \in {"update", "toggle"}
  /\ r.op = "update" => r.copy \in Switching!Row
  /\ r.step \in {"save", "count"} /\ r.op # "update" => r.copy \in Switching!Row
  /\ r.step = "save" /\ r.op = "create" => r.copy.active
  /\ r.step = "save" /\ r.op = "toggle" => r.copy.active = r.to
  /\ r.step = "count" => r.op = "toggle"
  /\ r.op \in {"update", "toggle"} => r.id \in Switching!Known(row)

\* What a page holds.
PageFits(p) ==
  /\ p \in [list : [Methods -> Switching!Row \cup {Nothing}],
            form : [editing : Methods \cup {Nothing}, name : Names \cup {Nothing}, cost : Costs \cup {Nothing}]]
  /\ Switching!Known(p.list) \subseteq Switching!Known(row)
  /\ p.form.editing \in Switching!Known(row) \cup {Nothing}
  /\ p.form.name # Nothing => p.form.cost \in Costs

\* Methods have names of their own, and lists show methods that exist.
MType ==
  /\ row \in Switching!Table
  /\ DOMAIN pages = Admins /\ \A a \in Admins : PageFits(pages[a])
  /\ DOMAIN req = Admins /\ \A a \in Admins : RequestFits(req[a])
  /\ wanted \in [Methods -> BOOLEAN] /\ warned \in BOOLEAN /\ met \subseteq Switching!Asked

\* Requests that do not meet.
OneAtATime ==
  \A a, b \in Admins : req[a] # Switching!Idle /\ req[b] # Switching!Idle => a = b

Answered(m) == \A a \in Admins : req[a].step = "count" => req[a].id # m

\* What a request read is the row, and a switch that has not been answered is the
\* only one that wanted does not know of.
Switched ==
  /\ OneAtATime
  /\ \A m \in Methods :
       IF row[m] = Nothing THEN wanted[m]
       ELSE Answered(m) => row[m].active = wanted[m]
  /\ \A a \in Admins :
       /\ req[a].step = "save" /\ req[a].op = "update" => req[a].copy.active = row[req[a].id].active
       /\ req[a].step = "count" => row[req[a].id].active = req[a].to

\* Who turned off the last method counts, and will be told.
Told ==
  Switching!ActiveIn(row) = {} => warned \/ \E a \in Admins : req[a].step = "count" /\ ~req[a].to

\* An edit that meets no other request has the status of the row.
LoneEdits ==
  \A a \in Admins : req[a].op = "update" =>
    /\ \A b \in Admins \ {a} : req[b] = Switching!Idle
    /\ req[a].step = "save" => req[a].copy.active = row[req[a].id].active

\* Each part holds as long as the requests it needs alone have met no other.
MInv ==
  /\ MType
  /\ met = {} => Switched
  /\ "update" \notin met => Told /\ LoneEdits

LEMMA MInvInit ==
  ASSUME MethodsAssumption, Switching!Init
  PROVE  MInv
<1>1. RequestFits(Switching!Idle)
  BY DEF RequestFits, Switching!Idle, MethodsAssumption
<1>2. row \in [Methods -> Switching!Row \cup {Nothing}]
  BY DEF Switching!Init, Switching!Table
<1>3. PageFits([list |-> row, form |-> Switching!Blank])
  BY <1>2 DEF PageFits, Switching!Blank, MethodsAssumption, Switching!Known
<1>4. MType
  BY <1>1, <1>3 DEF Switching!Init, MType
<1>5. Switched
  BY <1>2 DEF Switching!Init, Switched, OneAtATime, Switching!Idle, Switching!Known,
     Switching!ActiveIn, MethodsAssumption
<1>6. Told /\ LoneEdits
  BY DEF Switching!Init, Told, LoneEdits, Switching!Idle
<1> QED BY <1>4, <1>5, <1>6 DEF MInv

\* A page moves alone, over the rows as they are.
LEMMA PageMoves ==
  ASSUME MType, NEW a \in Admins, NEW p, PageFits(p), pages' = [pages EXCEPT ![a] = p],
         UNCHANGED <<row, req, wanted, warned, met>>, MInv
  PROVE  MInv'
<1>1. \A q : PageFits(q) => PageFits(q)' BY DEF PageFits
<1>2. \A q : RequestFits(q) => RequestFits(q)' BY DEF RequestFits
<1>3. MType' BY <1>1, <1>2 DEF MType
<1>4. Switched => Switched' BY DEF Switched, OneAtATime, Answered
<1>5. Told /\ LoneEdits => (Told /\ LoneEdits)' BY DEF Told, LoneEdits
<1> QED BY <1>3, <1>4, <1>5 DEF MInv

\* A page asks for something.
LEMMA AskKeeps ==
  ASSUME MethodsAssumption, MInv, NEW a \in Admins, NEW r, RequestFits(r), r.step \in {"read", "save"},
         r.op = "update" => r.step = "read", Switching!Ask(a, r)
  PROVE  MInv'
<1> DEFINE open == { req[b].op : b \in { b \in Admins : req[b] # Switching!Idle } }
<1>1. /\ req' = [req EXCEPT ![a] = r] /\ UNCHANGED <<row, pages, wanted, warned>> /\ req[a] = Switching!Idle
      /\ met' = met \cup IF open = {} THEN {} ELSE open \cup {r.op}
  BY DEF Switching!Ask
<1>2. \A q : PageFits(q) => PageFits(q)' BY <1>1 DEF PageFits
<1>3. \A q : RequestFits(q) => RequestFits(q)' BY <1>1 DEF RequestFits
<1>4. /\ DOMAIN req = Admins /\ req'[a] = r /\ \A b \in Admins \ {a} : req'[b] = req[b]
      /\ Switching!Idle.step = "idle"
  BY <1>1 DEF MInv, MType, Switching!Idle
<1>5. open \cup {r.op} \subseteq Switching!Asked
  <2>1. r.op \in Switching!Asked BY DEF RequestFits
  <2>2. \A b \in Admins : req[b] # Switching!Idle => req[b].op \in Switching!Asked
    BY DEF RequestFits, MInv, MType
  <2> QED BY <2>1, <2>2
<1>6. MType' BY <1>1, <1>2, <1>3, <1>5 DEF MInv, MType
<1>7. ASSUME NEW b \in Admins \ {a}, req[b] # Switching!Idle
  PROVE req[b].op \in met' /\ r.op \in met'
  <2>1. req[b].op \in open BY <1>7
  <2> QED BY <1>1, <2>1
<1>8. ASSUME met' = {} PROVE Switched'
  <2>1. met = {} /\ \A b \in Admins : req[b] = Switching!Idle BY <1>1, <1>7, <1>8
  <2>2. Switched BY <2>1 DEF MInv
  <2>3. OneAtATime' BY <1>4, <2>1 DEF OneAtATime
  <2>4. \A m : Answered(m) BY <1>4, <2>1 DEF Answered
  <2> QED BY <1>1, <1>4, <2>1, <2>2, <2>3, <2>4 DEF Switched
<1>9. ASSUME "update" \notin met' PROVE (Told /\ LoneEdits)'
  <2>1. Told /\ LoneEdits BY <1>1, <1>9 DEF MInv
  <2>2. \A b \in Admins : req[b].step = "count" => req'[b] = req[b] BY <1>1, <1>4
  <2>3. Told' BY <1>1, <2>1, <2>2 DEF Told, Switching!ActiveIn, Switching!Known
  <2>4. ASSUME NEW b \in Admins, req'[b].op = "update"
        PROVE  \A e \in Admins \ {b} : req'[e] = Switching!Idle
    <3>1. CASE b = a BY <3>1, <1>4, <1>7, <1>9, <2>4
    <3>2. CASE b # a
      <4>1. req[b].op = "update" /\ req[b] # Switching!Idle BY <3>2, <1>4, <2>4 DEF Switching!Idle
      <4> QED BY <3>2, <4>1, <1>7, <1>9
    <3> QED BY <3>1, <3>2
  <2>5. ASSUME NEW b \in Admins, req'[b].op = "update", req'[b].step = "save"
        PROVE  req'[b].copy.active = row'[req'[b].id].active
    BY <1>1, <1>4, <2>1, <2>5 DEF LoneEdits
  <2> QED BY <2>3, <2>4, <2>5 DEF LoneEdits
<1> QED BY <1>6, <1>8, <1>9 DEF MInv

\* Every step of the pages and of the service keeps it.
LEMMA MInvNext ==
  ASSUME MethodsAssumption, MInv, [Switching!Next]_Switching!vars
  PROVE  MInv'
<1> USE DEF MInv
<1>1. CASE UNCHANGED Switching!vars
  <2>1. \A q : PageFits(q) => PageFits(q)' BY <1>1 DEF PageFits, Switching!vars
  <2>2. \A q : RequestFits(q) => RequestFits(q)' BY <1>1 DEF RequestFits, Switching!vars
  <2>3. MType' BY <1>1, <2>1, <2>2 DEF MType, Switching!vars
  <2>4. Switched => Switched' BY <1>1 DEF Switched, OneAtATime, Answered, Switching!vars
  <2>5. Told /\ LoneEdits => (Told /\ LoneEdits)' BY <1>1 DEF Told, LoneEdits, Switching!vars
  <2> QED BY <1>1, <2>3, <2>4, <2>5 DEF Switching!vars
<1> SUFFICES ASSUME NEW a \in Admins,
      \/ Switching!List(a) \/ Switching!StartEdit(a) \/ Switching!Type(a)
      \/ Switching!CancelEdit(a) \/ Switching!Save(a) \/ Switching!Toggle(a)
      \/ Switching!Read(a) \/ Switching!SaveUnique(a) \/ Switching!CountActive(a)
    PROVE MInv'
  BY <1>1 DEF Switching!Next
<1>2. /\ pages[a] \in [list : [Methods -> Switching!Row \cup {Nothing}],
                       form : [editing : Methods \cup {Nothing}, name : Names \cup {Nothing},
                               cost : Costs \cup {Nothing}]]
      /\ pages[a] = [list |-> pages[a].list, form |-> pages[a].form]
      /\ PageFits(pages[a]) /\ RequestFits(req[a])
      /\ row \in [Methods -> Switching!Row \cup {Nothing}]
  BY DEF MType, PageFits, Switching!Table
<1>3. CASE Switching!List(a)
  <2> DEFINE p == [pages[a] EXCEPT !.list = row]
  <2>1. pages' = [pages EXCEPT ![a] = p] BY <1>3, <1>2 DEF Switching!List
  <2>2. PageFits(p) BY <1>2 DEF PageFits
  <2> QED BY <1>3, <2>1, <2>2, PageMoves DEF Switching!List
<1>4. CASE Switching!StartEdit(a)
  <2>1. PICK m \in Switching!Known(pages[a].list) :
          pages' = [pages EXCEPT ![a].form = [editing |-> m, name |-> pages[a].list[m].name,
                                              cost |-> pages[a].list[m].cost]]
    BY <1>4 DEF Switching!StartEdit
  <2> DEFINE p == [pages[a] EXCEPT !.form = [editing |-> m, name |-> pages[a].list[m].name,
                                             cost |-> pages[a].list[m].cost]]
  <2>2. pages' = [pages EXCEPT ![a] = p] BY <2>1, <1>2
  <2>3. pages[a].list[m] \in Switching!Row BY <1>2 DEF Switching!Known
  <2>4. PageFits(p) BY <1>2, <2>3 DEF PageFits, Switching!Known, Switching!Row
  <2> QED BY <1>4, <2>2, <2>4, PageMoves DEF Switching!StartEdit
<1>5. CASE Switching!Type(a)
  <2>1. PICK n \in Names, c \in Costs : pages' = [pages EXCEPT ![a].form.name = n, ![a].form.cost = c]
    BY <1>5 DEF Switching!Type
  <2> DEFINE p == [pages[a] EXCEPT !.form.name = n, !.form.cost = c]
  <2>2. pages' = [pages EXCEPT ![a] = p] BY <2>1, <1>2
  <2>3. PageFits(p) BY <1>2 DEF PageFits
  <2> QED BY <1>5, <2>2, <2>3, PageMoves DEF Switching!Type
<1>6. CASE Switching!CancelEdit(a)
  <2> DEFINE p == [pages[a] EXCEPT !.form = Switching!Blank]
  <2>1. pages' = [pages EXCEPT ![a] = p] BY <1>6, <1>2 DEF Switching!CancelEdit
  <2>2. PageFits(p) BY <1>2 DEF PageFits, Switching!Blank, MethodsAssumption
  <2> QED BY <1>6, <2>1, <2>2, PageMoves DEF Switching!CancelEdit
<1>7. CASE Switching!Save(a)
  <2> DEFINE f == pages[a].form
             new == [name |-> f.name, cost |-> f.cost, active |-> TRUE]
             create == [Switching!Idle EXCEPT !.op = "create", !.step = "save", !.copy = new]
             update == [Switching!Idle EXCEPT !.op = "update", !.step = "read", !.id = f.editing, !.copy = new]
  <2>1. f.name # Nothing /\ IF f.editing = Nothing THEN Switching!Ask(a, create) ELSE Switching!Ask(a, update)
    BY <1>7, Zenon DEF Switching!Save
  <2>2. new \in Switching!Row BY <1>2, <2>1 DEF PageFits, Switching!Row
  <2>3. /\ create.op = "create" /\ create.step = "save" /\ create.id = Nothing /\ create.copy = new
        /\ create.to = FALSE
    BY DEF Switching!Idle
  <2>4. /\ update.op = "update" /\ update.step = "read" /\ update.id = f.editing /\ update.copy = new
        /\ update.to = FALSE
    BY DEF Switching!Idle
  <2>5. new.active OBVIOUS
  <2> HIDE DEF new, f
  <2>6. CASE f.editing = Nothing
    <3>1. Switching!Ask(a, create) BY <2>1, <2>6
    <3>2. "create" \in Switching!Asked BY DEF Switching!Asked
    <3>3. RequestFits(create)
      BY <3>2, <2>2, <2>3, <2>5 DEF RequestFits, Switching!Asked, Switching!Idle
    <3>4. create.step = "save" /\ create.op = "create" BY <2>3
    <3> HIDE DEF create
    <3> QED BY <3>1, <3>3, <3>4, AskKeeps
  <2>7. CASE f.editing # Nothing
    <3>1. Switching!Ask(a, update) BY <2>1, <2>7
    <3>2. "update" \in Switching!Asked BY DEF Switching!Asked
    <3>3. f.editing \in Switching!Known(row) BY <2>7, <1>2 DEF PageFits, f
    <3>4. RequestFits(update)
      BY <3>2, <3>3, <2>2, <2>4 DEF RequestFits, Switching!Asked, Switching!Known, Switching!Idle
    <3>5. update.step = "read" /\ update.op = "update" BY <2>4
    <3> HIDE DEF update
    <3> QED BY <3>1, <3>4, <3>5, AskKeeps
  <2> QED BY <2>6, <2>7
<1>8. CASE Switching!Toggle(a)
  <2>1. PICK m \in Switching!Known(pages[a].list) :
          Switching!Ask(a, [Switching!Idle EXCEPT !.op = "toggle", !.step = "read", !.id = m,
                                !.to = ~pages[a].list[m].active])
    BY <1>8 DEF Switching!Toggle
  <2> DEFINE r == [Switching!Idle EXCEPT !.op = "toggle", !.step = "read", !.id = m,
                                !.to = ~pages[a].list[m].active]
  <2>2. r.op = "toggle" /\ r.step = "read" /\ r.id = m /\ r.copy = Nothing /\ r.to \in BOOLEAN
    BY DEF Switching!Idle
  <2>3. m \in Switching!Known(row) BY <1>2 DEF PageFits
  <2>4. "toggle" \in Switching!Asked BY DEF Switching!Asked
  <2>5. RequestFits(r)
    BY <2>2, <2>3, <2>4 DEF RequestFits, Switching!Asked, Switching!Known, Switching!Idle
  <2>6. r.step = "read" /\ r.op = "toggle" BY <2>2
  <2> HIDE DEF r
  <2>7. Switching!Ask(a, r) BY <2>1 DEF r
  <2> QED BY <2>5, <2>6, <2>7, AskKeeps
<1>9. CASE Switching!Read(a)
  <2> DEFINE i == req[a].id
             read == IF req[a].op = "update" THEN Switching!Edited(row[i], req[a].copy)
                                             ELSE [row[i] EXCEPT !.active = req[a].to]
             r == [req[a] EXCEPT !.step = "save", !.copy = read]
  <2>1. req[a].step = "read" /\ req[a].op \in {"update", "toggle"} /\ i \in Switching!Known(row)
        /\ req[a].op \in Switching!Asked /\ UNCHANGED <<row, pages, wanted, warned, met>>
        /\ (req[a].op = "update" => req[a].copy \in Switching!Row)
    BY <1>9, <1>2 DEF Switching!Read, RequestFits
  <2>2. req[a] = [op |-> req[a].op, step |-> req[a].step, id |-> i,
                  copy |-> req[a].copy, to |-> req[a].to]
    BY <1>2 DEF RequestFits
  <2>3. req' = [req EXCEPT ![a] = r] BY <1>9 DEF Switching!Read, MType
  <2>4. row[i] \in Switching!Row BY <2>1, <1>2 DEF Switching!Known
  <2>5. /\ read \in Switching!Row
        /\ req[a].op = "update" => read.active = row[i].active
        /\ req[a].op = "toggle" => read.active = req[a].to
    BY <2>1, <2>4, <1>2 DEF Switching!Edited, Switching!Row, RequestFits
  <2> HIDE DEF read
  <2>6. RequestFits(r) BY <2>1, <2>5, <1>2 DEF RequestFits, Switching!Known
  <2>7. \A q : PageFits(q) => PageFits(q)' BY <2>1 DEF PageFits
  <2>8. \A q : RequestFits(q) => RequestFits(q)' BY <2>1 DEF RequestFits
  <2>9. /\ r.step = "save" /\ r.op = req[a].op /\ r.copy = read /\ r.id = i
        /\ r # Switching!Idle /\ req[a] # Switching!Idle
    <3>1. r.step = "save" /\ r.op = req[a].op /\ r.copy = read /\ r.id = i BY <1>2 DEF RequestFits
    <3>2. Switching!Idle.step = "idle" BY DEF Switching!Idle
    <3> QED BY <3>1, <3>2, <2>1
  <2> HIDE DEF r
  <2>10. MType' BY <2>1, <2>3, <2>6, <2>7, <2>8 DEF MType
  <2>11. DOMAIN req = Admins /\ req'[a] = r /\ \A b \in Admins \ {a} : req'[b] = req[b]
    BY <2>3 DEF MType
  <2>12. Switched => Switched'
    <3> SUFFICES ASSUME Switched PROVE Switched' OBVIOUS
    <3>1. OneAtATime' BY <2>9, <2>11 DEF Switched, OneAtATime
    <3>2. \A m : Answered(m)' => Answered(m) BY <2>1, <2>11 DEF Answered
    <3> QED BY <3>1, <3>2, <2>1, <2>5, <2>9, <2>11 DEF Switched
  <2>13. Told => Told' BY <2>1, <2>11 DEF Told, Switching!ActiveIn, Switching!Known
  <2>14. LoneEdits => LoneEdits' BY <2>1, <2>5, <2>9, <2>11 DEF LoneEdits
  <2> QED BY <2>1, <2>10, <2>12, <2>13, <2>14
<1>10. CASE Switching!SaveUnique(a)
  <2>1. PICK m \in IF req[a].op = "create" THEN Methods \ Switching!Known(row) ELSE {req[a].id} :
          IF Switching!NameTaken(req[a].copy.name, m)
          THEN req' = [req EXCEPT ![a] = Switching!Idle] /\ UNCHANGED <<row, pages>>
          ELSE /\ row' = [row EXCEPT ![m] = req[a].copy]
               /\ IF req[a].op = "toggle" THEN req' = [req EXCEPT ![a].step = "count"] /\ UNCHANGED pages
                  ELSE req' = [req EXCEPT ![a] = Switching!Idle] /\ Switching!Done(a)
    BY <1>10 DEF Switching!SaveUnique
  <2> DEFINE c == req[a].copy
  <2>2. req[a].step = "save" /\ req[a].op \in Switching!Asked /\ req[a] # Switching!Idle /\ c \in Switching!Row
        /\ UNCHANGED <<wanted, warned, met>>
    BY <1>10, <1>2 DEF Switching!SaveUnique, RequestFits, Switching!Idle
  <2>3. /\ m \in Methods
        /\ req[a].op = "create" => row[m] = Nothing /\ c.active
        /\ req[a].op # "create" => m \in Switching!Known(row) /\ m = req[a].id
        /\ req[a].op = "toggle" => c.active = req[a].to
    BY <2>1, <2>2, <1>2 DEF RequestFits, Switching!Known, MethodsAssumption, Switching!Asked
  <2>4. RequestFits(Switching!Idle) BY DEF RequestFits, Switching!Idle, Switching!Asked
  <2>5. CASE Switching!NameTaken(c.name, m)
    <3>1. req' = [req EXCEPT ![a] = Switching!Idle] /\ UNCHANGED <<row, pages>> BY <2>1, <2>5
    <3>2. \A q : PageFits(q) => PageFits(q)' BY <3>1 DEF PageFits
    <3>3. \A q : RequestFits(q) => RequestFits(q)' BY <3>1 DEF RequestFits
    <3>4. MType' BY <3>1, <3>2, <3>3, <2>2, <2>4 DEF MType
    <3>5. Switched => Switched'
      BY <3>1, <2>2 DEF Switched, OneAtATime, Answered, Switching!Idle, MType
    <3>6. Told => Told' BY <3>1, <2>2 DEF Told, Switching!ActiveIn, Switching!Known, MType
    <3>7. LoneEdits => LoneEdits' BY <3>1 DEF LoneEdits, Switching!Idle, MType
    <3> QED BY <2>2, <3>4, <3>5, <3>6, <3>7
  <2>6. CASE ~Switching!NameTaken(c.name, m)
    <3>1. row' = [row EXCEPT ![m] = c] BY <2>1, <2>6
    <3>2. /\ row' \in [Methods -> Switching!Row \cup {Nothing}] /\ row'[m] = c
          /\ \A n \in Methods \ {m} : row'[n] = row[n]
          /\ c # Nothing
      BY <3>1, <2>2, <2>3, <1>2 DEF MethodsAssumption
    <3>3. row' \in Switching!Table
      <4> SUFFICES ASSUME NEW u \in Methods, NEW v \in Methods, u # v, row'[u] # Nothing,
                          row'[v] # Nothing, row'[u].name = row'[v].name
                   PROVE  FALSE
        BY <3>2 DEF Switching!Table
      <4>1. \A n \in Methods \ {m} : row[n] # Nothing => row[n].name # c.name
        BY <2>6 DEF Switching!NameTaken, Switching!Known
      <4> QED BY <3>2, <4>1 DEF MType, Switching!Table
    <3>4. Switching!Known(row) \subseteq Switching!Known(row') BY <3>2 DEF Switching!Known
    <3>5. \A q : PageFits(q) => PageFits(q)' BY <3>4 DEF PageFits
    <3>6. \A q : RequestFits(q) => RequestFits(q)' BY <3>4 DEF RequestFits
    <3>7. CASE req[a].op = "toggle"
      <4> DEFINE r == [op |-> req[a].op, step |-> "count", id |-> m, copy |-> c, to |-> req[a].to]
      <4>1. req[a] = [op |-> req[a].op, step |-> req[a].step, id |-> m, copy |-> c, to |-> req[a].to]
        BY <1>2, <2>3, <3>7 DEF RequestFits
      <4>2. req' = [req EXCEPT ![a] = r] /\ UNCHANGED pages BY <2>1, <2>6, <3>7, <4>1 DEF MType
      <4>3. RequestFits(r) BY <2>2, <2>3, <3>7, <1>2 DEF RequestFits, Switching!Known
      <4>4. r # Switching!Idle /\ r.step = "count" /\ r.id = m /\ r.to = req[a].to
        BY DEF Switching!Idle
      <4> HIDE DEF r
      <4>5. MType' BY <4>2, <4>3, <3>3, <3>5, <3>6, <2>2 DEF MType
      <4>6. req'[a] = r /\ \A b \in Admins \ {a} : req'[b] = req[b] BY <4>2 DEF MType
      <4>7. Switched => Switched'
        <5> SUFFICES ASSUME Switched PROVE Switched' OBVIOUS
        <5>1. OneAtATime' BY <4>4, <4>6, <2>2 DEF Switched, OneAtATime
        <5>2. \A b \in Admins \ {a} : req[b] = Switching!Idle BY <2>2 DEF Switched, OneAtATime
        <5>3. Switching!Idle.step = "idle" BY DEF Switching!Idle
        <5>4. \A n \in Methods \ {m} : Answered(n) BY <5>2, <5>3, <2>2 DEF Answered
        <5>5. ~Answered(m)' BY <4>4, <4>6 DEF Answered
        <5>6. \A n \in Methods : IF row'[n] = Nothing THEN wanted'[n]
                                 ELSE Answered(n)' => row'[n].active = wanted'[n]
          BY <5>4, <5>5, <3>2, <2>2 DEF Switched
        <5> QED BY <5>1, <5>2, <5>3, <5>6, <4>4, <4>6, <2>3, <3>2, <3>7 DEF Switched
      <4>8. Told => Told'
        <5>1. CASE req[a].to
          <6>1. m \in Switching!ActiveIn(row')
            BY <5>1, <2>3, <3>2, <3>7 DEF Switching!ActiveIn, Switching!Known
          <6> QED BY <6>1 DEF Told
        <5>2. CASE ~req[a].to BY <5>2, <4>4, <4>6 DEF Told
        <5> QED BY <5>1, <5>2
      <4>9. ASSUME LoneEdits PROVE LoneEdits'
        <5>1. \A b \in Admins : req[b].op # "update" BY <2>2, <3>7, <4>9 DEF LoneEdits
        <5>2. \A b \in Admins : req'[b].op # "update" BY <5>1, <4>6, <3>7 DEF r
        <5> QED BY <5>2 DEF LoneEdits
      <4> QED BY <2>2, <4>5, <4>7, <4>8, <4>9
    <3>8. CASE req[a].op # "toggle"
      <4>1. req' = [req EXCEPT ![a] = Switching!Idle] /\ pages' = [pages EXCEPT ![a].form = Switching!Blank, ![a].list = row']
        BY <2>1, <2>6, <3>8 DEF Switching!Done
      <4>0. PICK p : p = [pages[a] EXCEPT !.form = Switching!Blank, !.list = row'] OBVIOUS
      <4>2. pages' = [pages EXCEPT ![a] = p]
        <5>1. pages'[a] = p BY <4>0, <4>1, <1>2 DEF MType
        <5> QED BY <4>1, <5>1 DEF MType
      <4>3. PageFits(p)' BY <4>0, <1>2, <3>2 DEF PageFits, Switching!Blank
      <4>4. MType' BY <4>1, <4>2, <4>3, <3>3, <3>5, <3>6, <2>2, <2>4 DEF MType
      <4>5. req'[a] = Switching!Idle /\ \A b \in Admins \ {a} : req'[b] = req[b] BY <4>1 DEF MType
      <4>6. Switching!Idle.step = "idle" BY DEF Switching!Idle
      <4>7. Switched => Switched'
        <5> SUFFICES ASSUME Switched PROVE Switched' OBVIOUS
        <5>1. \A b \in Admins : req'[b] = Switching!Idle BY <4>5, <2>2 DEF Switched, OneAtATime
        <5>2. \A n : Answered(n) BY <5>1, <4>5, <4>6, <2>2 DEF Answered
        <5>3. req[a].op \in {"create", "update"}
          BY <2>2, <3>8 DEF MethodsAssumption, Switching!Asked
        <5>4. c.active = wanted[m]
          BY <5>2, <5>3, <2>2, <2>3 DEF Switched, Switching!Known, MType
        <5> QED BY <5>1, <5>2, <5>4, <4>6, <3>2, <2>2 DEF Switched, OneAtATime
      <4>8. ASSUME Told, LoneEdits PROVE Told'
        <5>1. CASE req[a].op = "create"
          <6>1. m \in Switching!ActiveIn(row')
            BY <5>1, <2>3, <3>2 DEF Switching!ActiveIn, Switching!Known
          <6> QED BY <6>1 DEF Told
        <5>2. CASE req[a].op = "update"
          <6>1. c.active = row[m].active BY <5>2, <4>8, <2>2, <2>3 DEF LoneEdits
          <6>2. Switching!ActiveIn(row') = Switching!ActiveIn(row)
            BY <6>1, <5>2, <2>3, <3>2 DEF Switching!ActiveIn, Switching!Known
          <6>3. \A b \in Admins : req[b].step = "count" => req'[b] = req[b] BY <4>5, <2>2
          <6> QED BY <6>2, <6>3, <4>8, <2>2 DEF Told
        <5> QED BY <5>1, <5>2, <2>2, <3>8 DEF Switching!Asked
      <4>9. ASSUME LoneEdits PROVE LoneEdits'
        <5> SUFFICES ASSUME NEW b \in Admins, req'[b].op = "update"
                     PROVE  /\ \A e \in Admins \ {b} : req'[e] = Switching!Idle
                            /\ req'[b].step = "save" => req'[b].copy.active = row'[req'[b].id].active
          BY DEF LoneEdits
        <5>1. b # a /\ req[b].op = "update" BY <4>5 DEF Switching!Idle
        <5>2. req[a] = Switching!Idle BY <5>1, <4>9 DEF LoneEdits
        <5> QED BY <5>2, <2>2
      <4> QED BY <2>2, <4>4, <4>7, <4>8, <4>9
    <3> QED BY <3>7, <3>8
  <2> QED BY <2>5, <2>6
<1>11. CASE Switching!CountActive(a)
  <2> DEFINE p == [pages[a] EXCEPT !.list = row]
  <2>1. /\ req[a].step = "count" /\ UNCHANGED <<row, met>> /\ req' = [req EXCEPT ![a] = Switching!Idle]
        /\ wanted' = [wanted EXCEPT ![req[a].id] = req[a].to]
        /\ warned' = (Switching!LastDisabled(a) \/ (warned /\ Switching!ActiveIn(row) = {}))
    BY <1>11 DEF Switching!CountActive
  <2>2. pages' = [pages EXCEPT ![a] = p] BY <1>11, <1>2 DEF Switching!CountActive
  <2>3. PageFits(p) BY <1>2 DEF PageFits
  <2> HIDE DEF p
  <2>4. RequestFits(Switching!Idle) BY DEF RequestFits, Switching!Idle, Switching!Asked
  <2>5. \A q : PageFits(q) => PageFits(q)' BY <2>1 DEF PageFits
  <2>6. \A q : RequestFits(q) => RequestFits(q)' BY <2>1 DEF RequestFits
  <2>7. req[a].to \in BOOLEAN /\ req[a].id \in Switching!Known(row) BY <1>2, <2>1 DEF RequestFits
  <2>8. MType' BY <2>1, <2>2, <2>3, <2>4, <2>5, <2>6, <2>7 DEF MType, Switching!LastDisabled
  <2>9. req'[a] = Switching!Idle /\ \A b \in Admins \ {a} : req'[b] = req[b] BY <2>1 DEF MType
  <2>10. Switching!Idle.step = "idle" BY DEF Switching!Idle
  <2>11. Switched => Switched'
    <3> SUFFICES ASSUME Switched PROVE Switched' OBVIOUS
    <3>1. \A b \in Admins : req'[b] = Switching!Idle BY <2>1, <2>9, <2>10 DEF Switched, OneAtATime
    <3>2. \A n \in Methods \ {req[a].id} : Answered(n) BY <3>1, <2>9, <2>10 DEF Answered
    <3>3. row[req[a].id].active = req[a].to BY <2>1 DEF Switched
    <3> QED
      BY <3>1, <3>2, <3>3, <2>1, <2>7, <2>10 DEF Switched, OneAtATime, Switching!Known, MType
  <2>12. Told => Told'
    BY <2>1, <2>9 DEF Told, Switching!ActiveIn, Switching!Known, Switching!LastDisabled
  <2>13. LoneEdits => LoneEdits' BY <2>1, <2>9 DEF LoneEdits, Switching!Idle
  <2> QED BY <2>1, <2>8, <2>11, <2>12, <2>13
<1> QED BY <1>3, <1>4, <1>5, <1>6, <1>7, <1>8, <1>9, <1>10, <1>11

\* Every reachable state of the run's specification has it.
LEMMA PartKeepsMethods ==
  ASSUME MethodsAssumption
  PROVE  MCSpec => [](part = "methods" => MInv)
<1>1. MCInit => (part = "methods" => MInv)
  BY MInvInit DEF MCInit
<1>2. ASSUME part = "methods" => MInv, [MCNext]_<<part, vars, checkoutVars, methodVars>>
      PROVE  (part = "methods" => MInv)'
  <2>1. CASE UNCHANGED <<part, vars, checkoutVars, methodVars>>
    <3>1. UNCHANGED <<part, Switching!vars>> BY <2>1, Zenon DEF methodVars, Switching!vars
    <3> QED BY <3>1, <1>2, MInvNext
  <2>2. CASE MethodsNext
    <3>1. part = "methods" /\ Switching!Next BY <2>2 DEF MethodsNext
    <3> QED BY <3>1, <1>2, MInvNext
  <2>3. CASE LinksNext \/ PageNext
    BY <2>3 DEF LinksNext, PageNext
  <2> QED BY <1>2, <2>1, <2>2, <2>3 DEF MCNext
<1> QED BY <1>1, <1>2, PTL DEF MCSpec

\* Any administrators, on lists however old: methods keep names of their own;
\* until two requests meet, a method is on or off as the last switch left it;
\* and until an edit meets another request, whoever leaves the checkout without
\* methods is told (admin-shipping-methods.service.ts:30-69).
THEOREM MethodsAlwaysSwitched ==
  ASSUME MethodsAssumption
  PROVE  MCSpec => []MethodsAreAsSwitched
<1>1. MInv => Switching!TypeOK
  BY DEF MInv, MType, PageFits, RequestFits, Switching!TypeOK
<1>2. MInv => Switching!MethodsAreAsSwitched
  BY DEF MInv, MType, RequestFits, Switched, Answered, Told, Switching!MethodsAreAsSwitched,
         Switching!StatusIsAsSwitched, Switching!SomebodyIsWarned, Switching!Known, Switching!Idle
<1>3. (part = "methods" => MInv) => MethodsAreAsSwitched
  BY <1>1, <1>2 DEF MethodsAreAsSwitched
<1> QED BY <1>3, PartKeepsMethods, PTL
=============================================================================
