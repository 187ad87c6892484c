----------------------------- MODULE OrderPages -----------------------------
(***************************************************************************)
(* The pages of one order: the customer's detail, with the payment to be   *)
(* retried, the cancellation and the return request, and the detail of the *)
(* administrators, with the change of state, the tracking, the             *)
(* cancellation, the notes and the refunds.  A page shows a detail that    *)
(* was read earlier, and offers the actions that were allowed then; the    *)
(* payments, the expiration and the other pages move the order meanwhile.  *)
(*                                                                         *)
(* A request is answered in three steps: the handler commits, the          *)
(* controller reads the detail again, and the page takes the answer.  The  *)
(* order is kept as the log of what its detail has shown, so that a detail *)
(* is the length of the log when it was read and the windows of time that  *)
(* were over.                                                              *)
(***************************************************************************)
EXTENDS Naturals, Sequences, FiniteSets, OrderStatus

CONSTANTS
  Customers, Admins,  \* pages (tabs) that are open on the order
  Starts,             \* states the order may be in when the pages are opened
  Ticks,              \* windows of time that may run out
  Sellable,           \* BOOLEAN values the catalogue may take on a retry
  MaxLog,             \* bound on the states of the order
  MaxRequests,        \* bound on the requests under way
  None

Pages == Customers \cup Admins
Windows == {"pay", "cancel", "return"}

VARIABLES
  log,       \* the states of the order, the current one last
  over,      \* the time windows that are over
  shown,     \* what a page shows: the detail in its query cache, or None
  fetch,     \* the read of the detail a page is waiting for
  open,      \* the dialogs and forms a page has open
  chosen,    \* the state an administrator picked in the form
  requests   \* the requests under way

vars == <<log, over, shown, fetch, open, chosen, requests>>

Order == [ status : OrderStatuses, paid : BOOLEAN,
           revivable : BOOLEAN,   \* cancelled because the reservation expired
           claimed : BOOLEAN ]    \* its units are all in return requests

Idle == [phase |-> "none"]

Started(s) ==
  [ status |-> s, paid |-> s \in PAID_STATUSES, revivable |-> s = CANCELADO,
    claimed |-> FALSE ]

Init ==
  /\ \E s \in Starts : log = <<Started(s)>>
  /\ over = {}
  /\ shown = [p \in Pages |-> None]
  /\ fetch = [p \in Pages |-> [phase |-> "asked"]]
  /\ open = [p \in Pages |-> {}]
  /\ chosen = [p \in Admins |-> None]
  /\ requests = {}

order == log[Len(log)]
Now == [at |-> Len(log), over |-> over]

-----------------------------------------------------------------------------
(* The policies: one function offers an action and accepts it.             *)

CustomerCancellation(o, gone) ==
  IF o.status \notin CUSTOMER_CANCELLABLE_STATUSES THEN "ORDER_NOT_CANCELLABLE"
  ELSE IF o.paid /\ "cancel" \in gone THEN "CANCEL_WINDOW_EXPIRED" ELSE "allowed"

PaymentRetry(o, gone) ==
  IF o.status \notin RETRYABLE_PAYMENT_STATUSES THEN "PAYMENT_RETRY_NOT_ALLOWED"
  ELSE IF "pay" \in gone THEN "ORDER_EXPIRED" ELSE "allowed"

ReturnWindow(o, gone) ==
  IF o.status # ENTREGADO THEN "ORDER_NOT_DELIVERED"
  ELSE IF "return" \in gone THEN "RETURN_WINDOW_EXPIRED" ELSE "allowed"

ReturnAvailability(o, gone) ==
  IF ReturnWindow(o, gone) = "allowed" /\ o.claimed
  THEN "NO_ELIGIBLE_ITEMS" ELSE ReturnWindow(o, gone)

CustomerPaymentStatus(o) ==
  IF o.status = PAGO_RECHAZADO THEN "rechazado"
  ELSE IF o.status \in AWAITING_PAYMENT_STATUSES THEN "pendiente"
  ELSE IF o.status \in PAID_STATUSES \/ o.paid THEN "aprobado" ELSE "sin_pago"

PaymentStatuses == {"pendiente", "rechazado", "aprobado", "sin_pago"}

\* The orders that the filter of the administrator's list selects.
PaymentFilter(v, o) ==
  CASE v = "pendiente" -> o.status \in AWAITING_PAYMENT_STATUSES \ {PAGO_RECHAZADO}
    [] v = "rechazado" -> o.status = PAGO_RECHAZADO
    [] v = "aprobado"  -> o.status \in PAID_STATUSES \/ (o.status = CANCELADO /\ o.paid)
    [] v = "sin_pago"  -> o.status = CANCELADO /\ ~o.paid

AdminNext(o) == {t \in OrderStatuses : <<o.status, t>> \in ADMIN_TRANSITIONS}
CanCancel(o) == o.status \notin ADMIN_NON_CANCELLABLE_STATUSES
CanEditTracking(o) == o.status \in {DESPACHADO, ENTREGADO}

CustomerActions(o, gone) ==
  { a \in {"retry", "cancel", "return", "sync"} :
      \/ a = "retry" /\ PaymentRetry(o, gone) = "allowed"
      \/ a = "cancel" /\ CustomerCancellation(o, gone) = "allowed"
      \/ a = "return" /\ ReturnAvailability(o, gone) = "allowed"
      \/ a = "sync" /\ o.status \in AWAITING_PAYMENT_STATUSES }

AdminActions(o) ==
  { a \in {"status", "cancel", "tracking", "note"} :
      \/ a = "status" /\ AdminNext(o) # {}
      \/ a = "cancel" /\ CanCancel(o)
      \/ a = "tracking" /\ CanEditTracking(o)
      \/ a = "note" }

\* The actions a page offers with the detail d.
Offers(p, d) ==
  IF p \in Customers THEN CustomerActions(log[d.at], d.over) ELSE AdminActions(log[d.at])

Shows(p) == shown[p] # None
ShownOrder(p) == log[shown[p].at]

\* A choice that is no longer a transition of the detail shown is dropped.
Choice(p) == IF chosen[p] \in AdminNext(ShownOrder(p)) THEN chosen[p] ELSE None
-----------------------------------------------------------------------------
(* The order moves: payments, expiration, refunds of returns; and time.    *)

Record(o) ==
  /\ Len(log) < MaxLog
  /\ log' = Append(log, o)
  /\ over' = over \ ((IF o.status = PAGADO /\ order.status # PAGADO THEN {"cancel"} ELSE {})
                     \cup (IF o.status = ENTREGADO /\ order.status # ENTREGADO
                           THEN {"return"} ELSE {}))

ChangeStatus(o, to) ==
  [o EXCEPT !.status = to, !.paid = @ \/ to = PAGADO, !.revivable = FALSE]

\* What the payments may do to an order: CU-05 and the expired reservation.
PaymentChanges(o) ==
  IF o.status \in AWAITING_PAYMENT_STATUSES
  THEN { ChangeStatus(o, to) :
           to \in TRANSITIONS[o.status] \cap (AWAITING_PAYMENT_STATUSES \ {PENDIENTE_PAGO}) }
       \cup {ChangeStatus(o, PAGADO)}
  ELSE IF o.status = CANCELADO /\ o.revivable THEN {ChangeStatus(o, PAGADO)} ELSE {}

Expiration(o) ==
  IF o.status \in AWAITING_PAYMENT_STATUSES /\ "pay" \in over
  THEN {[ChangeStatus(o, CANCELADO) EXCEPT !.revivable = TRUE]} ELSE {}

Completed(o) ==
  IF o.status = ENTREGADO /\ o.claimed THEN {ChangeStatus(o, DEVUELTO)} ELSE {}

Elsewhere ==
  /\ \E o \in PaymentChanges(order) \cup Expiration(order) \cup Completed(order) : Record(o)
  /\ UNCHANGED <<shown, fetch, open, chosen, requests>>

Elapse(w) ==
  /\ w \notin over
  /\ \/ w = "pay" /\ order.status \in AWAITING_PAYMENT_STATUSES
     \/ w = "cancel" /\ order.status \in {PAGADO, EN_PREPARACION}
     \/ w = "return" /\ order.status = ENTREGADO
  /\ over' = over \cup {w}
  /\ UNCHANGED <<log, shown, fetch, open, chosen, requests>>
-----------------------------------------------------------------------------
(* The page: reading the detail, the dialogs and the clicks.               *)

\* invalidateQueries and refetch give up the read under way for a new one.
Refetched(p) == [fetch EXCEPT ![p] = [phase |-> "asked"]]

FetchReads(p) ==
  /\ fetch[p].phase = "asked"
  /\ fetch' = [fetch EXCEPT ![p] = [phase |-> "read", detail |-> Now]]
  /\ UNCHANGED <<log, over, shown, open, chosen, requests>>

FetchArrives(p) ==
  /\ fetch[p].phase = "read"
  /\ shown' = [shown EXCEPT ![p] = fetch[p].detail]
  /\ fetch' = [fetch EXCEPT ![p] = Idle]
  /\ UNCHANGED <<log, over, open, chosen, requests>>

\* The window gets the focus back: the detail is read again.
Focus(p) ==
  /\ Shows(p) /\ fetch[p] = Idle
  /\ fetch' = Refetched(p)
  /\ UNCHANGED <<log, over, shown, open, chosen, requests>>

OpenDialog(p, dialog) ==
  /\ Shows(p) /\ dialog \in Offers(p, shown[p]) \cap {"cancel", "tracking", "return"}
  /\ dialog \notin open[p]
  /\ open' = [open EXCEPT ![p] = @ \cup {dialog}]
  /\ UNCHANGED <<log, over, shown, fetch, chosen, requests>>

CloseDialog(p, dialog) ==
  /\ dialog \in open[p]
  /\ open' = [open EXCEPT ![p] = @ \ {dialog}]
  /\ UNCHANGED <<log, over, shown, fetch, chosen, requests>>

Choose(p, s) ==
  /\ Shows(p) /\ s \in AdminNext(ShownOrder(p)) /\ chosen[p] # s
  /\ chosen' = [chosen EXCEPT ![p] = s]
  /\ UNCHANGED <<log, over, shown, fetch, open, requests>>

\* The return page drops its form when the detail admits no return any more.
Clickable(p, op) ==
  CASE op \in {"cancel", "tracking"} -> op \in open[p]
    [] op = "return" -> op \in open[p] \cap Offers(p, shown[p])
    [] op = "status" -> op \in Offers(p, shown[p]) /\ Choice(p) # None
    [] OTHER         -> op \in Offers(p, shown[p])

\* The request of a click, with the detail the page showed.
Click(p, op) ==
  [ page |-> p, op |-> op, seen |-> shown[p], phase |-> "sent",
    to |-> IF op = "status" THEN Choice(p) ELSE None,
    outcome |-> None, when |-> None, answer |-> None ]

\* A button is disabled while its own request is pending.
Send(p, op) ==
  /\ Shows(p) /\ Clickable(p, op)
  /\ \A r \in requests : r.page # p \/ r.op # op
  /\ Cardinality(requests) < MaxRequests
  /\ requests' = requests \cup {Click(p, op)}
  /\ UNCHANGED <<log, over, shown, fetch, open, chosen>>
-----------------------------------------------------------------------------
(* The handlers, each in one transaction with the order locked.            *)

Expected(r) == log[r.seen.at].status

\* Mutant of CancelOutcome: the state the page showed is not compared.
BlindCancelOutcome(r) ==
  IF r.page \in Customers THEN CustomerCancellation(order, over)
  ELSE IF CanCancel(order) THEN "allowed" ELSE "ORDER_NOT_CANCELLABLE"

\* Cancelling, by the customer or by an administrator.
CancelOutcome(r) ==
  IF order.status # Expected(r) THEN "ORDER_STATUS_CHANGED"
  ELSE IF r.page \in Customers THEN CustomerCancellation(order, over)
  ELSE IF CanCancel(order) THEN "allowed" ELSE "ORDER_NOT_CANCELLABLE"

StatusOutcome(r) ==
  IF order.status # Expected(r) THEN "ORDER_STATUS_CHANGED"
  ELSE IF r.to \notin AdminNext(order) THEN "INVALID_TRANSITION" ELSE "allowed"

Outcomes(r) ==
  CASE r.op = "cancel"   -> {CancelOutcome(r)}
    [] r.op = "status"   -> {StatusOutcome(r)}
    [] r.op = "tracking" ->
         {IF CanEditTracking(order) THEN "allowed" ELSE "TRACKING_NOT_EDITABLE"}
    [] r.op = "return"   -> {ReturnAvailability(order, over)}
    [] r.op = "retry"    ->
         IF PaymentRetry(order, over) # "allowed" THEN {PaymentRetry(order, over)}
         ELSE {IF ok THEN "allowed" ELSE "PAYMENT_RETRY_STALE" : ok \in Sellable}
    [] r.op \in {"sync", "note"} -> {"allowed"}

\* A note or tracking data change the detail and not what is modelled of the
\* order.
AddedOps == {"note", "tracking"}

\* The orders that an accepted request may leave.
Results(r) ==
  CASE r.op = "cancel"   -> {ChangeStatus(order, CANCELADO)}
    [] r.op = "status"   -> {ChangeStatus(order, r.to)}
    [] r.op = "return"   -> {[order EXCEPT !.claimed = TRUE]}
    [] r.op = "retry"    ->
         {IF order.status = PAGO_RECHAZADO THEN ChangeStatus(order, PENDIENTE_PAGO) ELSE order}
    [] r.op \in AddedOps -> {order}
    [] r.op = "sync"     ->
         {order} \cup (IF order.status \in AWAITING_PAYMENT_STATUSES
                       THEN PaymentChanges(order) ELSE {})

Replace(r, s) == requests' = (requests \ {r}) \cup {s}

Handle(r) ==
  /\ r.phase = "sent"
  /\ \E outcome \in Outcomes(r) :
       IF outcome = "allowed"
       THEN /\ \E o \in Results(r) :
                 IF o = order /\ r.op \notin AddedOps THEN UNCHANGED <<log, over>> ELSE Record(o)
            /\ Replace(r, [r EXCEPT !.phase = "done", !.outcome = outcome, !.when = Now])
       ELSE /\ Replace(r, [r EXCEPT !.phase = "answered", !.outcome = outcome, !.when = Now])
            /\ UNCHANGED <<log, over>>
  /\ UNCHANGED <<shown, fetch, open, chosen>>

\* The controller reads the detail that the answer carries.
ReadsDetail(r) ==
  /\ r.phase = "done"
  /\ Replace(r, [r EXCEPT !.phase = "answered", !.answer = Now])
  /\ UNCHANGED <<log, over, shown, fetch, open, chosen>>
-----------------------------------------------------------------------------
(* The page takes the answer.                                              *)

\* setQueryData shows the detail of the answer; the read under way goes on.
Applied(r) ==
  /\ r.outcome = "allowed" /\ r.op \notin {"retry", "return"}
  /\ shown' = [shown EXCEPT ![r.page] = r.answer]
  /\ open' = [open EXCEPT ![r.page] = @ \ {r.op}]
  /\ chosen' = [p \in Admins |-> IF p = r.page /\ r.op = "status" THEN None ELSE chosen[p]]
  /\ requests' = requests \ {r}
  /\ UNCHANGED <<log, over, fetch>>

\* The return page shows the receipt, and the detail is read again.
Claimed(r) ==
  /\ r.outcome = "allowed" /\ r.op = "return"
  /\ open' = [open EXCEPT ![r.page] = @ \ {r.op}]
  /\ fetch' = Refetched(r.page)
  /\ requests' = requests \ {r}
  /\ UNCHANGED <<log, over, shown, chosen>>

\* The browser goes to the gateway; the page is loaded anew when it is back.
Leaves(r) ==
  /\ r.outcome = "allowed" /\ r.op = "retry"
  /\ shown' = [shown EXCEPT ![r.page] = None]
  /\ fetch' = Refetched(r.page)
  /\ open' = [open EXCEPT ![r.page] = {}]
  /\ requests' = {q \in requests : q.page # r.page}
  /\ UNCHANGED <<log, over, chosen>>

\* A refusal that makes the page read the order again.
Refetches(r) ==
  r.op = "retry" \/ (r.op \in {"cancel", "status", "tracking"} /\ r.outcome = "ORDER_STATUS_CHANGED")

\* The customer's dialog closes on every refusal, the administrator's only
\* when the state changed.
Failed(r) ==
  /\ r.outcome # "allowed"
  /\ fetch' = IF Refetches(r) THEN Refetched(r.page) ELSE fetch
  /\ open' = IF r.op = "cancel" /\ (r.page \in Customers \/ Refetches(r))
             THEN [open EXCEPT ![r.page] = @ \ {"cancel"}] ELSE open
  /\ requests' = requests \ {r}
  /\ UNCHANGED <<log, over, shown, chosen>>

Answered(r) ==
  r.phase = "answered" /\ (Applied(r) \/ Claimed(r) \/ Leaves(r) \/ Failed(r))
-----------------------------------------------------------------------------
PageReads(p) == FetchReads(p) \/ FetchArrives(p)
ServerWorks == \E r \in requests : Handle(r) \/ ReadsDetail(r) \/ Answered(r)

User(p) ==
  \/ Focus(p)
  \/ \E d \in {"cancel", "tracking", "return"} : OpenDialog(p, d) \/ CloseDialog(p, d)
  \/ \E op \in {"cancel", "tracking", "return", "status", "retry", "sync", "note"} :
       Send(p, op)

Next ==
  \/ Elsewhere
  \/ \E w \in Ticks : Elapse(w)
  \/ \E p \in Pages : PageReads(p) \/ User(p)
  \/ \E p \in Admins, s \in OrderStatuses : Choose(p, s)
  \/ ServerWorks

Spec == Init /\ [][Next]_vars

(* The server answers, the answers and the reads arrive.  A new read gives *)
(* up the one under way, hence strong fairness: a reader who clicks does   *)
(* not for ever click before the page has caught up.                       *)
FairSpec ==
  /\ Spec
  /\ WF_vars(ServerWorks)
  /\ \A p \in Pages : WF_vars(FetchReads(p)) /\ SF_vars(FetchArrives(p))
-----------------------------------------------------------------------------
Detail(d) == d.at \in 1..Len(log) /\ d.over \subseteq Windows

\* Types, and a page has one request of a kind under way.
TypeOK ==
  /\ log \in Seq(Order) /\ Len(log) \in 1..MaxLog
  /\ over \subseteq Windows
  /\ \A p \in Pages :
       /\ shown[p] = None \/ Detail(shown[p])
       /\ fetch[p].phase \in {"none", "asked", "read"}
  /\ \A r, s \in requests : r.page = s.page /\ r.op = s.op => r = s

\* What the dialogs say a cancellation will do to the order they show.
CustomerDialog(o) ==
  [ restock |-> TRUE,
    refund  |-> IF CustomerPaymentStatus(o) = "aprobado" THEN "total" ELSE "nothing" ]

AdminDialog(o) ==
  [ restock |-> o.status # DESPACHADO,
    refund  |-> IF ~o.paid THEN "nothing"
                ELSE IF o.status = DESPACHADO THEN "subtotal" ELSE "total" ]

DialogSays(p, o) == IF p \in Customers THEN CustomerDialog(o) ELSE AdminDialog(o)

\* What applyCancellation does to the order it has locked.
CancellationEffects(o) ==
  [ restock |-> o.status # DESPACHADO,
    refund  |-> IF ~o.paid THEN "nothing"
                ELSE IF o.status = DESPACHADO THEN "subtotal" ELSE "total" ]

\* However the order moved while the dialog was open, a cancellation that is
\* accepted gives back the stock and the money that the dialog announced
\* (the expectedStatus that both pages send).
CancelDoesWhatItSaid ==
  \A r \in requests :
    r.op = "cancel" /\ r.outcome = "allowed"
      => DialogSays(r.page, log[r.seen.at]) = CancellationEffects(log[r.when.at])

\* The form never asks for a transition that the state it names does not
\* admit: a choice made for an earlier detail is dropped.
InvalidTransitionNever == \A r \in requests : r.outcome # "INVALID_TRANSITION"

Refused(r) == r.outcome \notin {None, "allowed"}

\* Nothing changed between the detail in which the page offered the action
\* and its handler.
StillOffered(r) == r.when = r.seen /\ r.op \in Offers(r.page, r.seen)

\* What a page offers is accepted while nothing has changed, but for a retry
\* of the payment, that also depends on the catalogue.
OnlyRetryIsRefused ==
  \A r \in requests : Refused(r) /\ StillOffered(r) => r.op = "retry"

\* The administrator's filter selects the orders whose row says that state of
\* the payment.
PaymentFilterAgrees ==
  \A v \in PaymentStatuses : PaymentFilter(v, order) <=> CustomerPaymentStatus(order) = v

RefusedAt(p, n) ==
  \E r \in requests : /\ r.page = p /\ r.phase = "answered" /\ r.when.at = n
                      /\ r.outcome = "ORDER_STATUS_CHANGED"

\* A page that was told that the state changed comes to show it.
RefusedPageCatchesUp ==
  \A p \in Pages, n \in 1..MaxLog :
    RefusedAt(p, n) ~> (Shows(p) /\ shown[p].at >= n)
=============================================================================
