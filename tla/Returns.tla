------------------------------- MODULE Returns -------------------------------
(***************************************************************************)
(* Changes and returns over one delivered order: its customer asks         *)
(* (orders/returns/returns.service.ts), the administrators approve,        *)
(* reject, receive and send replacements                                   *)
(* (orders/admin/admin-returns.service.ts).                                *)
(*                                                                         *)
(* Every transaction but the dispatch of a replacement starts by taking    *)
(* the row lock of the order and evaluates everything under it, so it is   *)
(* one step.  The dispatch locks the request, which the others lock too.   *)
(* The customer's request is two steps: a first validation and the photos, *)
(* outside any lock, and the transaction that validates again.             *)
(*                                                                         *)
(* An order has at most one line for a variant, so the lines are named by  *)
(* their variants.  Stock moves as StockReservation says; other orders     *)
(* reserve and release units meanwhile.  Amounts are cents.                *)
(***************************************************************************)
EXTENDS OrderStatus, RefundStatus, StockReservation, Sums

CONSTANTS Request,        \* the requests the customer may ever send
          Bought,         \* Bought[v]: units of the line v, 0 if there is none
          MaxUnits,       \* the largest quantity of a line
          Price,          \* Price[v]: unitPriceSnapshot of the line
          Paid,           \* the amount of the payment of the order
          Options,        \* Options[v]: active variants of the product of v
          InitialStock,   \* stock of each variant at the delivery
          OtherOrders     \* bound on the units other orders hold at a time

\* The refund of some units of some lines: its products, never the shipping.
\* One element for each cent: its line, its unit and which cent of the price.
RefundCents(lines, units) ==
  UNION { {v} \X ((1..units[v]) \X (1..Price[v])) : v \in lines }

RefundAmount(lines, units) == Cardinality(RefundCents(lines, units))

\* The last: an order is delivered only after a payment of its total, which is
\* that of its products and the shipping (Payments shows it).
ASSUME ReturnsAssumption ==
  /\ IsFiniteSet(Variant)
  /\ IsFiniteSet(Request)
  /\ MaxUnits \in Nat
  /\ Bought \in [Variant -> 0..MaxUnits]
  /\ \E v \in Variant : Bought[v] > 0
  /\ Price \in [Variant -> Nat]
  /\ Paid \in Nat
  /\ Options \in [Variant -> SUBSET Variant]
  /\ InitialStock \in [Variant -> Nat]
  /\ OtherOrders \in Nat
  /\ RefundAmount(Variant, Bought) <= Paid

\* ReturnRequestStatus, and two states of a call that has not created its row.
SOLICITADA == "solicitada"
APROBADA   == "aprobada"
RECHAZADA  == "rechazada"
RESUELTA   == "resuelta"
SUBIENDO   == "subiendo"

RequestStatuses == { SIN_ALTA, SUBIENDO, SOLICITADA, APROBADA, RECHAZADA, RESUELTA }

CAMBIO     == "cambio"
DEVOLUCION == "devolucion"

RequestTypes == { CAMBIO, DEVOLUCION }

PENDIENTE_DESPACHO == "pendiente_despacho"
SIN_REPOSICION     == "sin_reposicion"

ReplacementStatuses == { SIN_REPOSICION, PENDIENTE_DESPACHO, DESPACHADO }

\* What became of the refund of a request: none due, recorded and not refused,
\* refused by the gateway (RECHAZADO), or left to the administrator in a note.
SIN_REEMBOLSO == "sin_reembolso"
COMPROMETIDO  == "comprometido"
A_MANO        == "a_mano"

VARIABLES
  orderStatus,     \* order.status
  windowOpen,      \* fewer than RETURN_WINDOW_DAYS since order.deliveredAt
  requestStatus,   \* request.status
  requestType,     \* request.type
  asked,           \* asked[r][v]: quantityRequested, 0 where r has no item
  approved,        \* quantityApproved, 0 for NULL
  received,        \* quantityReceived, 0 for NULL
  refundApproved,  \* the lines of r with refundApproved
  refund,          \* the refund that request.refundId points to
  replacement,     \* status of the replacements of r, all in the same one
  sent,            \* sent[r][v]: units of v taken as replacement for r
  restocked,       \* restocked[r][v]: units that came back in good condition
  photos           \* the requests whose photos are in the storage

requestVars == <<requestStatus, requestType, asked, approved, received,
                 refundApproved, refund, replacement, sent, restocked>>
vars == <<orderStatus, windowOpen, requestVars, photos, stockVars>>

Units == [Variant -> 0..MaxUnits]

None == [v \in Variant |-> 0]

\* The forms: units of each line, 0 for a line the form leaves out.
CreateReturnRequestDto == [type : RequestTypes, units : Units \ {None}]

ApproveReturnDto == Units

\* The units that arrived of each line, the lines that came damaged, and which
\* of these are refunded all the same.
ReceiveReturnDto ==
  [units : Units, damaged : SUBSET Variant, pardoned : SUBSET Variant]

\* Every variable holds values of its kind; stock is never negative.
TypeOK ==
  /\ StockTypeOK
  /\ orderStatus \in {ENTREGADO, DEVUELTO}
  /\ windowOpen \in BOOLEAN
  /\ requestStatus \in [Request -> RequestStatuses]
  /\ requestType \in [Request -> RequestTypes]
  /\ asked \in [Request -> Units]
  /\ approved \in [Request -> Units]
  /\ received \in [Request -> Units]
  /\ refundApproved \in [Request -> SUBSET Variant]
  /\ refund \in [Request -> {SIN_REEMBOLSO, COMPROMETIDO, RECHAZADO, A_MANO}]
  /\ replacement \in [Request -> ReplacementStatuses]
  /\ sent \in [Request -> [Variant -> Nat]]
  /\ restocked \in [Request -> Units]
  /\ photos \in SUBSET Request

Init ==
  /\ orderStatus = ENTREGADO
  /\ windowOpen = TRUE
  /\ requestStatus = [r \in Request |-> SIN_ALTA]
  /\ requestType = [r \in Request |-> DEVOLUCION]
  /\ asked = [r \in Request |-> None]
  /\ approved = [r \in Request |-> None]
  /\ received = [r \in Request |-> None]
  /\ refundApproved = [r \in Request |-> {}]
  /\ refund = [r \in Request |-> SIN_REEMBOLSO]
  /\ replacement = [r \in Request |-> SIN_REPOSICION]
  /\ sent = [r \in Request |-> None]
  /\ restocked = [r \in Request |-> None]
  /\ photos = {}
  /\ stockTotal = InitialStock
  /\ stockReserved = None

-----------------------------------------------------------------------------
(***************************************************************************)
(* Units.  Sums over requests are cardinalities of sets of pairs, one pair *)
(* for each unit.                                                          *)
(***************************************************************************)

\* Mutant of BlockedBy: what was approved and never arrived is not free again.
BlockedByApproved(r, v) ==
  CASE requestStatus[r] = SOLICITADA -> asked[r][v]
    [] requestStatus[r] = APROBADA   -> 0
    [] requestStatus[r] = RESUELTA   -> received[r][v]
    [] requestStatus[r] \in {SIN_ALTA, SUBIENDO, RECHAZADA} -> 0

\* What a request keeps from being asked for again.
BlockedBy(r, v) ==
  CASE requestStatus[r] = SOLICITADA -> asked[r][v]
    [] requestStatus[r] = APROBADA   -> approved[r][v]
    [] requestStatus[r] = RESUELTA   -> received[r][v]
    [] requestStatus[r] \in {SIN_ALTA, SUBIENDO, RECHAZADA} -> 0

BlockedUnits(v) ==
  { u \in Request \X (1..MaxUnits) : u[2] <= BlockedBy(u[1], v) }

Blocked(v) == Cardinality(BlockedUnits(v))

\* eligibleUnits, with its floor at 0.
EligibleUnits(v) == IF Bought[v] >= Blocked(v) THEN Bought[v] - Blocked(v) ELSE 0

ReturnedUnits(v) ==
  { u \in Request \X (1..MaxUnits) :
      /\ requestType[u[1]] = DEVOLUCION
      /\ requestStatus[u[1]] = RESUELTA
      /\ u[2] <= received[u[1]][v] }

\* The cents of the refunds that were recorded and not refused.
CommittedCents ==
  UNION { {r} \X RefundCents(refundApproved[r], received[r]) :
            r \in { q \in Request : refund[q] = COMPROMETIDO } }

CommittedRefunds == Cardinality(CommittedCents)

-----------------------------------------------------------------------------
(***************************************************************************)
(* The customer asks.                                                      *)
(***************************************************************************)

\* returnWindow.
ReturnWindow == orderStatus = ENTREGADO /\ windowOpen

\* validate: the order in its window, and no unit that is already in an open
\* or resolved request.
Validate(units) ==
  /\ ReturnWindow
  /\ \A v \in Variant : units[v] <= Bought[v] /\ units[v] <= EligibleUnits(v)

\* create, until its transaction: the first validation, without a lock, and
\* the photos.
UploadPhotos(r) ==
  /\ requestStatus[r] = SIN_ALTA
  /\ \E dto \in CreateReturnRequestDto :
       /\ Validate(dto.units)
       /\ requestStatus' = [requestStatus EXCEPT ![r] = SUBIENDO]
       /\ requestType' = [requestType EXCEPT ![r] = dto.type]
       /\ asked' = [asked EXCEPT ![r] = dto.units]
  /\ photos' = photos \cup {r}
  /\ UNCHANGED <<orderStatus, windowOpen, approved, received, refundApproved,
                 refund, replacement, sent, restocked, stockVars>>

\* Its transaction, with the order locked.
Create(r) ==
  /\ requestStatus[r] = SUBIENDO
  /\ Validate(asked[r])
  /\ requestStatus' = [requestStatus EXCEPT ![r] = SOLICITADA]
  /\ UNCHANGED <<orderStatus, windowOpen, requestType, asked, approved,
                 received, refundApproved, refund, replacement, sent,
                 restocked, photos, stockVars>>

\* The transaction fails, or the second validation refuses: the photos go.
CreateFails(r) ==
  /\ requestStatus[r] = SUBIENDO
  /\ requestStatus' = [requestStatus EXCEPT ![r] = SIN_ALTA]
  /\ asked' = [asked EXCEPT ![r] = None]
  /\ photos' = photos \ {r}
  /\ UNCHANGED <<orderStatus, windowOpen, requestType, approved, received,
                 refundApproved, refund, replacement, sent, restocked, stockVars>>

\* Ten days pass since the delivery.
WindowCloses ==
  /\ windowOpen
  /\ windowOpen' = FALSE
  /\ UNCHANGED <<orderStatus, requestVars, photos, stockVars>>

-----------------------------------------------------------------------------
(***************************************************************************)
(* The administrators resolve.  lockRequest refuses a request that is not  *)
(* in the expected state: another administrator resolved it.               *)
(***************************************************************************)

\* approve, in part or entirely.
Approve(r) ==
  /\ requestStatus[r] = SOLICITADA
  /\ \E units \in ApproveReturnDto :
       /\ \A v \in Variant : units[v] <= asked[r][v]
       /\ \E v \in Variant : units[v] > 0
       /\ approved' = [approved EXCEPT ![r] = units]
  /\ requestStatus' = [requestStatus EXCEPT ![r] = APROBADA]
  /\ UNCHANGED <<orderStatus, windowOpen, requestType, asked, received,
                 refundApproved, refund, replacement, sent, restocked, photos,
                 stockVars>>

\* Mutant of Reject: the state is the one the form was opened with.
RejectUnchecked(r) ==
  /\ requestStatus[r] \in {SOLICITADA, APROBADA, RESUELTA}
  /\ requestStatus' = [requestStatus EXCEPT ![r] = RECHAZADA]
  /\ approved' = [approved EXCEPT ![r] = None]
  /\ UNCHANGED <<orderStatus, windowOpen, requestType, asked, received,
                 refundApproved, refund, replacement, sent, restocked, photos,
                 stockVars>>

Reject(r) ==
  /\ requestStatus[r] = SOLICITADA
  /\ requestStatus' = [requestStatus EXCEPT ![r] = RECHAZADA]
  /\ approved' = [approved EXCEPT ![r] = None]
  /\ UNCHANGED <<orderStatus, windowOpen, requestType, asked, received,
                 refundApproved, refund, replacement, sent, restocked, photos,
                 stockVars>>

\* Mutant of RequestRefund: something must remain of the payment.
RequestRefundStrictly(amount) ==
  CASE amount = 0                           -> SIN_REEMBOLSO
    [] amount > 0 /\ Paid - CommittedRefunds > amount -> COMPROMETIDO
    [] amount > 0 /\ Paid - CommittedRefunds <= amount -> A_MANO

\* requestRefund of the ledger, against the payment of the order; where it
\* returns null the amount goes to an internal note.
RequestRefund(amount) ==
  CASE amount = 0                           -> SIN_REEMBOLSO
    [] amount > 0 /\ Paid - CommittedRefunds >= amount -> COMPROMETIDO
    [] amount > 0 /\ Paid - CommittedRefunds < amount  -> A_MANO

\* The units of line v that all the resolved returns brought back, with those
\* that r brings now.
ReturnedWith(r, units, v) == Cardinality(ReturnedUnits(v)) + units[v]

\* markReturnedIfComplete.
MarkReturnedIfComplete(r, units) ==
  orderStatus' = IF /\ orderStatus = ENTREGADO
                    /\ \A v \in Variant : ReturnedWith(r, units, v) >= Bought[v]
                 THEN DEVUELTO ELSE orderStatus

Arrived(dto) == { v \in Variant : dto.units[v] > 0 }

\* What receive accepts.  The fields it does not look at are empty.
Accepts(r, dto) ==
  /\ \A v \in Variant : dto.units[v] <= approved[r][v]
  /\ Arrived(dto) # {}
  /\ dto.damaged \subseteq Arrived(dto)
  /\ dto.pardoned \subseteq dto.damaged

InGoodState(dto) == [v \in Variant |-> IF v \in dto.damaged THEN 0 ELSE dto.units[v]]

\* receive, on a return.
ReceiveReturn(r) ==
  /\ requestStatus[r] = APROBADA /\ requestType[r] = DEVOLUCION
  /\ \E dto \in ReceiveReturnDto :
       LET refunded == Arrived(dto) \ (dto.damaged \ dto.pardoned)
       IN /\ Accepts(r, dto)
          /\ stockTotal' = RestockReturn(InGoodState(dto))
          /\ restocked' = [restocked EXCEPT ![r] = InGoodState(dto)]
          /\ received' = [received EXCEPT ![r] = dto.units]
          /\ refundApproved' = [refundApproved EXCEPT ![r] = refunded]
          /\ refund' = [refund EXCEPT ![r] = RequestRefund(RefundAmount(refunded, dto.units))]
          /\ MarkReturnedIfComplete(r, dto.units)
  /\ requestStatus' = [requestStatus EXCEPT ![r] = RESUELTA]
  /\ UNCHANGED <<windowOpen, requestType, asked, approved, replacement, sent,
                 photos, stockReserved>>

\* createReplacements: for each line that arrived, a variant of the same
\* product, out of what is available.
CreateReplacements(r, dto) ==
  \E choice \in [Arrived(dto) -> Variant] :
    LET taken == [w \in Variant |->
                    SumOver(dto.units, { v \in Arrived(dto) : choice[v] = w })]
    IN /\ \A v \in Arrived(dto) : choice[v] \in Options[v]
       /\ TakeForReplacement(RestockReturn(InGoodState(dto)), taken)
       /\ sent' = [sent EXCEPT ![r] = taken]

\* receive, on a change.
ReceiveChange(r) ==
  /\ requestStatus[r] = APROBADA /\ requestType[r] = CAMBIO
  /\ \E dto \in ReceiveReturnDto :
       /\ Accepts(r, dto) /\ dto.pardoned = {}
       /\ CreateReplacements(r, dto)
       /\ restocked' = [restocked EXCEPT ![r] = InGoodState(dto)]
       /\ received' = [received EXCEPT ![r] = dto.units]
  /\ requestStatus' = [requestStatus EXCEPT ![r] = RESUELTA]
  /\ replacement' = [replacement EXCEPT ![r] = PENDIENTE_DESPACHO]
  /\ UNCHANGED <<orderStatus, windowOpen, requestType, asked, approved,
                 refundApproved, refund, photos, stockReserved>>

\* dispatchReplacement: all the pending ones of the request at once.
DispatchReplacement(r) ==
  /\ replacement[r] = PENDIENTE_DESPACHO
  /\ replacement' = [replacement EXCEPT ![r] = DESPACHADO]
  /\ UNCHANGED <<orderStatus, windowOpen, requestStatus, requestType, asked,
                 approved, received, refundApproved, refund, sent, restocked,
                 photos, stockVars>>

-----------------------------------------------------------------------------
(***************************************************************************)
(* What happens around: the gateway refuses a refund, which frees its      *)
(* balance, and the administrator asks again; other orders reserve stock   *)
(* and let it go.                                                          *)
(***************************************************************************)

SetRefund(r, to) ==
  /\ refund' = [refund EXCEPT ![r] = to]
  /\ UNCHANGED <<orderStatus, windowOpen, requestStatus, requestType, asked,
                 approved, received, refundApproved, replacement, sent,
                 restocked, photos, stockVars>>

RefundRefused(r) == refund[r] = COMPROMETIDO /\ SetRefund(r, RECHAZADO)

\* retry of refunds.service.ts: a refused refund must fit in the balance.
RetryRefund(r) ==
  /\ refund[r] = RECHAZADO
  /\ Paid - CommittedRefunds >= RefundAmount(refundApproved[r], received[r])
  /\ SetRefund(r, COMPROMETIDO)

OtherLine(v) == [w \in Variant |-> IF w = v THEN 1 ELSE 0]

OtherOrderReserves(v) ==
  /\ stockReserved[v] < OtherOrders
  /\ Reserve(OtherLine(v))
  /\ UNCHANGED <<orderStatus, windowOpen, requestVars, photos, stockTotal>>

OtherOrderReleases(v) ==
  /\ stockReserved[v] > 0
  /\ Release(OtherLine(v))
  /\ UNCHANGED <<orderStatus, windowOpen, requestVars, photos, stockTotal>>

-----------------------------------------------------------------------------

Next ==
  \/ \E r \in Request :
       \/ UploadPhotos(r) \/ Create(r) \/ CreateFails(r)
       \/ Approve(r) \/ Reject(r)
       \/ ReceiveReturn(r) \/ ReceiveChange(r) \/ DispatchReplacement(r)
       \/ RefundRefused(r) \/ RetryRefund(r)
  \/ WindowCloses
  \/ \E v \in Variant : OtherOrderReserves(v) \/ OtherOrderReleases(v)

Spec == Init /\ [][Next]_vars

-----------------------------------------------------------------------------
(***************************************************************************)
(* Properties.                                                             *)
(***************************************************************************)

\* No unit is claimed twice, whatever requests overlap: what open requests ask
\* for or were granted, and what came back, is within what was bought.  The
\* floor of eligibleUnits would hide a violation
\* (return-eligibility.ts:14-33, returns.service.ts:138-142).
ClaimsWithinPurchase == \A v \in Variant : Blocked(v) <= Bought[v]

\* The order is "devuelto" exactly when everything that was bought came back
\* in returns (admin-returns.service.ts:456-475)...
ReturnedWhenComplete ==
  orderStatus = DEVUELTO <=>
    \A v \in Variant : Cardinality(ReturnedUnits(v)) >= Bought[v]

\* ... and then no request is left that somebody would still have to resolve
\* against an order that takes no more of them.
NothingOpenOnceReturned ==
  orderStatus = DEVUELTO =>
    \A r \in Request : requestStatus[r] \notin {SOLICITADA, APROBADA}

\* Together: the claims and the status of the order follow its requests.
ReturnsFitTheOrder ==
  ClaimsWithinPurchase /\ ReturnedWhenComplete /\ NothingOpenOnceReturned

\* The refunds of the returns never exceed the payment, and none is ever left
\* to be done by hand: units that are claimed once are refunded once, so the
\* way out of the ledger (CU-22 10b) is not taken for lack of balance
\* (admin-returns.service.ts:341-364, payment-ledger.service.ts:54-76).
RefundsFitThePayment ==
  /\ CommittedRefunds <= Paid
  /\ \A r \in Request : refund[r] # A_MANO

\* The warehouse holds what it held, with what came back in good state and
\* without what was sent as replacement; a replacement never takes a unit that
\* is promised to another order (stock-reservation.service.ts:166-214).
StockFollowsReturns ==
  \A v \in Variant :
    /\ stockTotal[v] = InitialStock[v]
                         + SumOver([r \in Request |-> restocked[r][v]], Request)
                         - SumOver([r \in Request |-> sent[r][v]], Request)
    /\ stockReserved[v] <= stockTotal[v]

\* The photos in the storage are those of the requests that exist or are being
\* created: a failure removes them, and nothing removes them after the commit
\* (returns.service.ts:114-121).
PhotosOfRequests == photos = { r \in Request : requestStatus[r] # SIN_ALTA }

\* Together: money, stock and photos follow the requests.
EffectsFollowRequests ==
  RefundsFitThePayment /\ StockFollowsReturns /\ PhotosOfRequests

\* What was resolved or rejected stays as it was, although the form of another
\* administrator was filled before (admin-returns.service.ts:445-452).
ResolutionIsFinal ==
  [][ \A r \in Request :
        requestStatus[r] \in {RECHAZADA, RESUELTA} =>
          /\ requestStatus'[r] = requestStatus[r]
          /\ received'[r] = received[r] /\ sent'[r] = sent[r]
          /\ refundApproved'[r] = refundApproved[r]
          /\ replacement[r] = DESPACHADO => replacement'[r] = DESPACHADO
    ]_vars
=============================================================================
