-------------------------------- MODULE Ledger --------------------------------
(***************************************************************************)
(* The balance of the payments of one order, over all the refunds of its   *)
(* life (payments/ledger/payment-ledger.service.ts).  A refund holds part  *)
(* of the balance of one approved payment from its registration, lets it   *)
(* go when the gateway refuses it, and takes it again when it is retried   *)
(* (payments/refunds/refunds.service.ts).                                  *)
(*                                                                         *)
(* Whoever registers a refund holds the row lock of the order, reads the   *)
(* refunds and commits its own; a retry holds the row lock of its refund   *)
(* only, reads the refunds and commits.  Neither sees what the other has   *)
(* read and not committed, so each of them is two steps here.  A           *)
(* transaction that is rolled back is as one that never began.             *)
(*                                                                         *)
(* Orders, Payments and Returns say when an order is cancelled, paid or    *)
(* given back; here it is no more than what it may ask of the ledger.      *)
(* Amounts are cents.                                                      *)
(***************************************************************************)
EXTENDS OrderStatus, RefundStatus, Sums, Sequences

CONSTANTS Payment,   \* the payments of the order
          Row,       \* the refunds that may ever be registered
          Amount,    \* Amount[p]: what the gateway charged for p
          Due,       \* the payments of the amount and the currency of the order
          Total,     \* order.total and order.subtotal
          Subtotal

ASSUME LedgerAssumption ==
  /\ IsFiniteSet(Row)
  /\ Amount \in [Payment -> Nat]
  /\ Total \in Nat
  /\ Subtotal \in 0..Total
  /\ \A p \in Due : Amount[p] = Total

\* The row is written and not committed, and REEMBOLSADO by an administrator.
REGISTRANDO     == "registrando"
RESUELTO_A_MANO == "resuelto_a_mano"

COMMITTED_REFUND_STATUSES == { EN_TRAMITE, REEMBOLSADO, RESUELTO_A_MANO, PENDIENTE_DE_GESTION }

\* Until it is paid the order is PENDIENTE_PAGO here, also when its reservation
\* lapsed; until the dispatch PAGADO; a returned one is still ENTREGADO.
LedgerStages == { PENDIENTE_PAGO, PAGADO, DESPACHADO, ENTREGADO, CANCELADO }

\* refund.paymentId of a row that is not there.
SIN_PAGO == "sin_pago"

VARIABLES
  stage,      \* how far the order came
  approvals,  \* the payments "aprobado", by their processedAt
  returned,   \* the cents of the lines that came back in returns
  rowStatus,  \* refund.status
  rowPayment, \* refund.paymentId
  rowCents,   \* refund.amount
  retrying,   \* the rows whose retry has looked at the balance
  raced       \* the payments two of whose refunds entered the balance at once

rowsVars == <<rowStatus, rowPayment, rowCents>>
ledgerVars == <<stage, approvals, returned, rowsVars, retrying, raced>>

LedgerInit ==
  /\ stage = PENDIENTE_PAGO
  /\ approvals = <<>>
  /\ returned = 0
  /\ rowStatus = [r \in Row |-> SIN_REGISTRO]
  /\ rowPayment = [r \in Row |-> SIN_PAGO]
  /\ rowCents = [r \in Row |-> 0]
  /\ retrying = {}
  /\ raced = {}

\* Every variable holds values of its kind.
LedgerTypeOK ==
  /\ stage \in LedgerStages
  /\ approvals \in Seq(Payment)
  /\ returned \in 0..Subtotal
  /\ rowStatus \in [Row -> RefundStatuses \cup {REGISTRANDO, RESUELTO_A_MANO}]
  /\ rowPayment \in [Row -> Payment \cup {SIN_PAGO}]
  /\ rowCents \in [Row -> Nat]
  /\ retrying \in SUBSET Row
  /\ raced \in SUBSET Payment

-----------------------------------------------------------------------------
(***************************************************************************)
(* The balance of a payment.                                               *)
(***************************************************************************)

RowsOf(p) == { r \in Row : rowStatus[r] # SIN_REGISTRO /\ rowPayment[r] = p }

Committed(p) == { r \in RowsOf(p) : rowStatus[r] \in COMMITTED_REFUND_STATUSES }

RefundableCents(p, rows) == Amount[p] - SumOver(rowCents, rows)

\* fitsInBalance: the row does not count itself.
FitsInBalance(r) ==
  RefundableCents(rowPayment[r], Committed(rowPayment[r]) \ {r}) >= rowCents[r]

\* The rows that somebody is entering in the balance of p.
Entering(p) == { r \in RowsOf(p) : rowStatus[r] = REGISTRANDO \/ r \in retrying }

NotesRace(p) == raced' = raced \cup (IF Entering(p) = {} THEN {} ELSE {p})

-----------------------------------------------------------------------------
(***************************************************************************)
(* Registration.                                                           *)
(***************************************************************************)

OrderUnlocked == \A r \in Row : rowStatus[r] # REGISTRANDO

Write(r, p, amount) ==
  /\ rowStatus' = [rowStatus EXCEPT ![r] = REGISTRANDO]
  /\ rowPayment' = [rowPayment EXCEPT ![r] = p]
  /\ rowCents' = [rowCents EXCEPT ![r] = amount]
  /\ NotesRace(p)

NoRefund == UNCHANGED <<rowsVars, raced>>

\* Mutant of RequestRefundOf: whichever payment has the balance.
RequestRefundAnywhere(candidates, amount) ==
  LET fits == { i \in DOMAIN approvals' :
                  /\ approvals'[i] \in candidates
                  /\ RefundableCents(approvals'[i], Committed(approvals'[i])) >= amount }
  IN IF amount > 0 /\ fits # {}
       THEN \E i \in fits, r \in Row :
              rowStatus[r] = SIN_REGISTRO /\ Write(r, approvals'[i], amount)
       ELSE NoRefund

\* requestRefund, until its commit: the oldest of the approved payments that
\* still has balance enough, if there is one.
RequestRefundOf(candidates, amount) ==
  LET fits == { i \in DOMAIN approvals' :
                  /\ approvals'[i] \in candidates
                  /\ RefundableCents(approvals'[i], Committed(approvals'[i])) >= amount }
  IN IF amount > 0 /\ fits # {}
       THEN \E i \in fits, r \in Row :
              /\ \A j \in fits : i <= j
              /\ rowStatus[r] = SIN_REGISTRO
              /\ Write(r, approvals'[i], amount)
       ELSE NoRefund

Registers(r) ==
  /\ rowStatus[r] = REGISTRANDO
  /\ rowStatus' = [rowStatus EXCEPT ![r] = EN_TRAMITE]
  /\ UNCHANGED <<stage, approvals, returned, rowPayment, rowCents, retrying, raced>>

Exact(p) == p \in Due

\* processPayment of an approval, below the lock of the order.
ApprovePayment(p) ==
  /\ OrderUnlocked
  /\ \A i \in DOMAIN approvals : approvals[i] # p
  /\ approvals' = Append(approvals, p)
  /\ \/ ~Exact(p) /\ NoRefund /\ UNCHANGED stage
     \/ Exact(p) /\ stage = PENDIENTE_PAGO /\ stage' = PAGADO /\ NoRefund
     \/ /\ Exact(p) /\ stage # PENDIENTE_PAGO
        /\ RequestRefundOf({p}, Amount[p])
        /\ UNCHANGED stage
  /\ UNCHANGED <<returned, retrying>>

\* applyCancellation.
CancelOrder ==
  /\ OrderUnlocked
  /\ stage \in {PENDIENTE_PAGO, PAGADO, DESPACHADO}
  /\ stage' = CANCELADO
  /\ UNCHANGED <<approvals, returned, retrying>>
  /\ IF stage = PENDIENTE_PAGO THEN NoRefund
     ELSE RequestRefundOf(Payment, IF stage = DESPACHADO THEN Subtotal ELSE Total)

MovesOn ==
  /\ OrderUnlocked
  /\ \/ stage = PAGADO /\ stage' = DESPACHADO
     \/ stage = DESPACHADO /\ stage' = ENTREGADO
  /\ UNCHANGED <<approvals, returned, rowsVars, retrying, raced>>

\* receive: lines that did not come back before, so that all the returns
\* together are within the products of the order (Returns shows it).
ReceiveReturned(cents) ==
  /\ OrderUnlocked
  /\ stage = ENTREGADO
  /\ returned + cents <= Subtotal
  /\ returned' = returned + cents
  /\ UNCHANGED <<stage, approvals, retrying>>
  /\ RequestRefundOf(Payment, cents)

-----------------------------------------------------------------------------
(***************************************************************************)
(* The way of a row after its registration: Refunds has its detail.        *)
(***************************************************************************)

BecomesStatus(r, to) ==
  /\ rowStatus' = [rowStatus EXCEPT ![r] = to]
  /\ UNCHANGED <<stage, approvals, returned, rowPayment, rowCents, raced>>

RefundEnds(r) ==
  /\ rowStatus[r] = EN_TRAMITE
  /\ \E to \in {REEMBOLSADO, RECHAZADO, PENDIENTE_DE_GESTION} : BecomesStatus(r, to)
  /\ UNCHANGED retrying

\* Its UPDATE waits for the lock of a retry, and then finds no row to move.
ResolvedByHand(r) ==
  /\ rowStatus[r] \in REFUND_NEEDS_ATTENTION
  /\ r \notin retrying
  /\ BecomesStatus(r, RESUELTO_A_MANO)
  /\ UNCHANGED retrying

RetryUnanswered(r) ==
  /\ rowStatus[r] = PENDIENTE_DE_GESTION
  /\ BecomesStatus(r, EN_TRAMITE)
  /\ UNCHANGED retrying

\* retry of a rejected row, until its commit.
RetryReads(r) ==
  /\ rowStatus[r] = RECHAZADO
  /\ r \notin retrying
  /\ FitsInBalance(r)
  /\ retrying' = retrying \cup {r}
  /\ NotesRace(rowPayment[r])
  /\ UNCHANGED <<stage, approvals, returned, rowsVars>>

RetrySaves(r) ==
  /\ r \in retrying
  /\ BecomesStatus(r, EN_TRAMITE)
  /\ retrying' = retrying \ {r}

LedgerNext ==
  \/ \E p \in Payment : ApprovePayment(p)
  \/ CancelOrder
  \/ MovesOn
  \/ \E cents \in 0..Subtotal : ReceiveReturned(cents)
  \/ \E r \in Row :
       \/ Registers(r) \/ RefundEnds(r) \/ ResolvedByHand(r)
       \/ RetryUnanswered(r) \/ RetryReads(r) \/ RetrySaves(r)

LedgerSpec == LedgerInit /\ [][LedgerNext]_ledgerVars

-----------------------------------------------------------------------------
(***************************************************************************)
(* What the ledger promises.                                               *)
(***************************************************************************)

\* A payment of the amount of the order is never overdrawn, although the look
\* at its balance is not under one lock: whatever is asked of it fits in it,
\* refused or not, as the payment that credited the order comes before every
\* other one of that amount.
ExactIsNeverOverdrawn ==
  \A p \in Payment : Exact(p) => SumOver(rowCents, Committed(p)) <= Amount[p]

\* So a retry is refused for lack of balance ("REFUND_EXCEEDS_BALANCE") only on
\* a payment of another amount.
ExactRetriesFit ==
  \A r \in Row : rowStatus[r] = RECHAZADO /\ Exact(rowPayment[r]) => FitsInBalance(r)

\* The refunds of the gateway overdraw another one only when two of them looked
\* at the balance before either was committed; what an administrator gave back
\* by other means is not looked at.
OthersOverdrawnOnlyByRace ==
  \A p \in Payment \ raced :
    SumOver(rowCents, { r \in Committed(p) : rowStatus[r] # RESUELTO_A_MANO }) <= Amount[p]

\* Together: no payment gives back more than it charged
\* (payment-ledger.service.ts:100-116, refunds.service.ts:182-188).
BalanceHolds ==
  ExactIsNeverOverdrawn /\ ExactRetriesFit /\ OthersOverdrawnOnlyByRace
=============================================================================
