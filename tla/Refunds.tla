------------------------------- MODULE Refunds -------------------------------
(***************************************************************************)
(* The way of a refund after it was registered                             *)
(* (payments/refunds/refunds.service.ts): it is asked of the gateway out   *)
(* of any transaction, by the request that registered it, by the retry of  *)
(* an administrator and by a cron job, possibly at once; another cron job  *)
(* and the notifications of the gateway look after its result.             *)
(*                                                                         *)
(* A worker is one call of dispatch or of reconcileOne.  It reads the row, *)
(* talks to the gateway without any lock and comes back with conditional   *)
(* UPDATEs; each of these is a step.  The process may stop in between.     *)
(* The gateway keeps one refund for each idempotency key, a row and an     *)
(* attempt, which also names the refund: its id is the attempt here.       *)
(***************************************************************************)
EXTENDS Integers, FiniteSets, RefundStatus

CONSTANTS Refund,      \* the rows that may ever be registered
          Worker,      \* the calls of dispatch and reconcileOne under way
          MaxAttempt   \* bound on the attempts of a row

ASSUME RefundsAssumption == MaxAttempt \in Nat \ {0}

Attempts == 1..MaxAttempt

\* externalRefundId is NULL.
NoId == 0

\* A key at the gateway: never sent, sent, refused without a refund, or a
\* refund in one of its states ("cancelled" reads as "rejected").
Results == { "in_process", "approved", "rejected" }
GatewayStates == Results \cup { "unsent", "sent", "refused" }

FINAL_REFUND_STATUS == [ approved |-> REEMBOLSADO, rejected |-> RECHAZADO ]

VARIABLES
  refundStatus,      \* refund.status
  attempt,           \* refund.attempt
  externalRefundId,  \* refund.externalRefundId
  byHand,            \* refund.resolvedByUserId is not null
  gateway,           \* gateway[r][k]: the key of attempt k of row r
  worker             \* what each call read, and how far it came

rowVars == <<refundStatus, attempt, externalRefundId, byHand>>
vars == <<rowVars, gateway, worker>>

Idle == [phase |-> "idle"]

Busy ==
  [ phase : {"asking", "consulting"}, refund : Refund, attempt : Attempts ]
    \cup
  [ phase : {"answered", "applying"}, refund : Refund, attempt : Attempts,
    result : Results ]

\* Every variable holds values of its kind.
TypeOK ==
  /\ refundStatus \in [Refund -> RefundStatuses]
  /\ attempt \in [Refund -> Attempts]
  /\ externalRefundId \in [Refund -> Attempts \cup {NoId}]
  /\ byHand \in [Refund -> BOOLEAN]
  /\ gateway \in [Refund -> [Attempts -> GatewayStates]]
  /\ worker \in [Worker -> Busy \cup {Idle}]

Init ==
  /\ refundStatus = [r \in Refund |-> SIN_REGISTRO]
  /\ attempt = [r \in Refund |-> 1]
  /\ externalRefundId = [r \in Refund |-> NoId]
  /\ byHand = [r \in Refund |-> FALSE]
  /\ gateway = [r \in Refund |-> [k \in Attempts |-> "unsent"]]
  /\ worker = [w \in Worker |-> Idle]

-----------------------------------------------------------------------------
\* Mutant: the UPDATE forgets the state it starts from.
TransitionFromAny(r, k, to) ==
  /\ refundStatus' = [refundStatus EXCEPT ![r] = IF attempt[r] = k THEN to ELSE @]
  /\ UNCHANGED <<attempt, externalRefundId, byHand>>

\* transition: the UPDATE that only moves a row in process, of the same attempt.
Transition(r, k, to) ==
  /\ refundStatus' =
       [refundStatus EXCEPT ![r] = IF @ = EN_TRAMITE /\ attempt[r] = k THEN to ELSE @]
  /\ UNCHANGED <<attempt, externalRefundId, byHand>>

Becomes(w, state) == worker' = [worker EXCEPT ![w] = state]

In(w, phase) == worker[w] # Idle /\ worker[w].phase = phase

\* requestRefund, in the transaction of its caller.
Register(r) ==
  /\ refundStatus[r] = SIN_REGISTRO
  /\ refundStatus' = [refundStatus EXCEPT ![r] = EN_TRAMITE]
  /\ UNCHANGED <<attempt, externalRefundId, byHand, gateway, worker>>

\* dispatch reads the row and sends its request.
Dispatch(w, r) ==
  /\ worker[w] = Idle
  /\ refundStatus[r] = EN_TRAMITE
  /\ externalRefundId[r] = NoId
  /\ Becomes(w, [phase |-> "asking", refund |-> r, attempt |-> attempt[r]])
  /\ gateway' = [gateway EXCEPT ![r][attempt[r]] = IF @ = "unsent" THEN "sent" ELSE @]
  /\ UNCHANGED rowVars

\* createRefund at the gateway, at any moment after the first request with this
\* key was sent: the caller may have given up.
GatewayCreates(r, k) ==
  /\ gateway[r][k] = "sent"
  /\ \E s \in {"in_process", "approved", "refused"} :
       gateway' = [gateway EXCEPT ![r][k] = s]
  /\ UNCHANGED <<rowVars, worker>>

GatewaySettles(r, k) ==
  /\ gateway[r][k] = "in_process"
  /\ \E s \in {"approved", "rejected"} :
       gateway' = [gateway EXCEPT ![r][k] = s]
  /\ UNCHANGED <<rowVars, worker>>

\* The gateway answers with the refund of the key.
Answered(w) ==
  /\ In(w, "asking")
  /\ LET call == worker[w]
         s == gateway[call.refund][call.attempt]
     IN /\ s \in Results
        /\ Becomes(w, [phase |-> "answered", refund |-> call.refund,
                       attempt |-> call.attempt, result |-> s])
  /\ UNCHANGED <<rowVars, gateway>>

\* RefundRejectedError.
Refused(w) ==
  /\ In(w, "asking")
  /\ gateway[worker[w].refund][worker[w].attempt] = "refused"
  /\ Transition(worker[w].refund, worker[w].attempt, RECHAZADO)
  /\ Becomes(w, Idle)
  /\ UNCHANGED gateway

\* Mutant: no answer is taken for a refusal.
TimesOutRejecting(w) ==
  /\ In(w, "asking")
  /\ Transition(worker[w].refund, worker[w].attempt, RECHAZADO)
  /\ Becomes(w, Idle)
  /\ UNCHANGED gateway

\* PaymentGatewayUnavailableError three times, whatever the gateway did.
TimesOut(w) ==
  /\ In(w, "asking")
  /\ Transition(worker[w].refund, worker[w].attempt, PENDIENTE_DE_GESTION)
  /\ Becomes(w, Idle)
  /\ UNCHANGED gateway

\* The id is kept by the first call that comes back, if the row did not move.
SaveExternalId(w) ==
  /\ In(w, "answered")
  /\ LET r == worker[w].refund
         k == worker[w].attempt
     IN externalRefundId' =
          [externalRefundId EXCEPT ![r] =
             IF refundStatus[r] = EN_TRAMITE /\ @ = NoId /\ attempt[r] = k
               THEN k ELSE @]
  /\ Becomes(w, [worker[w] EXCEPT !.phase = "applying"])
  /\ UNCHANGED <<refundStatus, attempt, byHand, gateway>>

\* applyGatewayResult: a result that is not final changes nothing.
ApplyResult(w) ==
  /\ In(w, "applying")
  /\ LET call == worker[w]
     IN IF call.result \in DOMAIN FINAL_REFUND_STATUS
          THEN Transition(call.refund, call.attempt, FINAL_REFUND_STATUS[call.result])
          ELSE UNCHANGED rowVars
  /\ Becomes(w, Idle)
  /\ UNCHANGED gateway

\* Mutant: the query takes the refunds without an id.
ReconcileUnasked(w, r) ==
  /\ worker[w] = Idle
  /\ refundStatus[r] = EN_TRAMITE
  /\ externalRefundId[r] = NoId
  /\ Becomes(w, [phase |-> "consulting", refund |-> r, attempt |-> attempt[r]])
  /\ UNCHANGED <<rowVars, gateway>>

\* reconcilePayment and reconcileInProgress, for one row of their queries.
Reconcile(w, r) ==
  /\ worker[w] = Idle
  /\ refundStatus[r] = EN_TRAMITE
  /\ externalRefundId[r] # NoId
  /\ Becomes(w, [phase |-> "consulting", refund |-> r, attempt |-> attempt[r]])
  /\ UNCHANGED <<rowVars, gateway>>

\* getRefund, or an error that leaves the row for the next time.
Consulted(w) ==
  /\ In(w, "consulting")
  /\ LET call == worker[w]
         s == gateway[call.refund][call.attempt]
     IN /\ s \in Results
        /\ Becomes(w, [phase |-> "applying", refund |-> call.refund,
                       attempt |-> call.attempt, result |-> s])
  /\ UNCHANGED <<rowVars, gateway>>

ConsultFails(w) ==
  /\ In(w, "consulting")
  /\ Becomes(w, Idle)
  /\ UNCHANGED <<rowVars, gateway>>

\* The process stops: every call under way is lost.
Crash ==
  /\ worker' = [w \in Worker |-> Idle]
  /\ UNCHANGED <<rowVars, gateway>>

\* Mutant: every retry opens a new attempt.
RetryAnew(r) ==
  /\ refundStatus[r] \in REFUND_NEEDS_ATTENTION
  /\ attempt[r] < MaxAttempt
  /\ attempt' = [attempt EXCEPT ![r] = @ + 1]
  /\ externalRefundId' = [externalRefundId EXCEPT ![r] = NoId]
  /\ refundStatus' = [refundStatus EXCEPT ![r] = EN_TRAMITE]
  /\ UNCHANGED <<byHand, gateway, worker>>

\* retry: a rejected row opens a new attempt, a row without an answer uses the
\* same one.  A rejected row that no longer fits in the balance of its payment
\* is not retried.
Retry(r) ==
  /\ \/ /\ refundStatus[r] = RECHAZADO
        /\ attempt[r] < MaxAttempt
        /\ attempt' = [attempt EXCEPT ![r] = @ + 1]
        /\ externalRefundId' = [externalRefundId EXCEPT ![r] = NoId]
     \/ /\ refundStatus[r] = PENDIENTE_DE_GESTION
        /\ UNCHANGED <<attempt, externalRefundId>>
  /\ refundStatus' = [refundStatus EXCEPT ![r] = EN_TRAMITE]
  /\ UNCHANGED <<byHand, gateway, worker>>

\* resolveManually: the administrator gave the money back by other means.
ResolveManually(r) ==
  /\ refundStatus[r] \in REFUND_NEEDS_ATTENTION
  /\ refundStatus' = [refundStatus EXCEPT ![r] = REEMBOLSADO]
  /\ byHand' = [byHand EXCEPT ![r] = TRUE]
  /\ UNCHANGED <<attempt, externalRefundId, gateway, worker>>

WorkerStep(w) ==
  \/ Answered(w)
  \/ Refused(w)
  \/ TimesOut(w)
  \/ SaveExternalId(w)
  \/ ApplyResult(w)
  \/ Consulted(w)
  \/ ConsultFails(w)

Next ==
  \/ Crash
  \/ \E w \in Worker : WorkerStep(w) \/ (\E r \in Refund : Dispatch(w, r) \/ Reconcile(w, r))
  \/ \E r \in Refund :
       \/ Register(r) \/ Retry(r) \/ ResolveManually(r)
       \/ \E k \in Attempts : GatewayCreates(r, k) \/ GatewaySettles(r, k)

Spec == Init /\ [][Next]_vars

\* The cron jobs run again and again, and not every run of them is cut off by a
\* crash or left without an answer.
CronFairness ==
  \A r \in Refund :
    LET Of(w) == worker[w] # Idle /\ worker[w].refund = r
    IN /\ SF_vars(\E w \in Worker : Dispatch(w, r))
       /\ SF_vars(\E w \in Worker : Reconcile(w, r))
       /\ SF_vars(\E w \in Worker : Of(w) /\ Answered(w))
       /\ SF_vars(\E w \in Worker : Of(w) /\ Refused(w))
       /\ SF_vars(\E w \in Worker : Of(w) /\ SaveExternalId(w))
       /\ SF_vars(\E w \in Worker : Of(w) /\ Consulted(w))
       /\ SF_vars(\E w \in Worker : Of(w) /\ ApplyResult(w))

FairSpec == Spec /\ CronFairness

-----------------------------------------------------------------------------
(***************************************************************************)
(* What the refunds promise.                                               *)
(***************************************************************************)

Unreturned == { "refused", "rejected" }

\* "What prevents asking for the same refund twice is the idempotency key":
\* whatever the calls, retries, time-outs and crashes, the gateway never has
\* two refunds of one row that gave, or may still give, money back
\* (refunds.service.ts:33-40, refund.entity.ts:86-90).
GatewayRefundsOnce ==
  \A r \in Refund :
    \A j, k \in Attempts :
      j # k => gateway[r][j] \in Unreturned \cup {"unsent"}
            \/ gateway[r][k] \in Unreturned \cup {"unsent"}

\* A row says what the gateway did: it is refunded only if the gateway returned
\* the money or an administrator said so, and rejected only if no attempt of it
\* returned or may return any, so that a new attempt is safe
\* (refunds.service.ts:166-174, 244-270).
StatusIsTruthful ==
  \A r \in Refund :
    /\ refundStatus[r] = REEMBOLSADO /\ ~byHand[r] =>
         gateway[r][attempt[r]] = "approved"
    /\ refundStatus[r] = RECHAZADO =>
         \A k \in Attempts : gateway[r][k] \in Unreturned \cup {"unsent"}

\* The id that is consulted is the one of the current attempt.
ConsultsItsAttempt ==
  \A r \in Refund :
    externalRefundId[r] # NoId =>
      externalRefundId[r] = attempt[r] /\ gateway[r][attempt[r]] \in Results

\* A refund is never un-refunded, and an attempt is abandoned only for the next.
RefundedIsFinal ==
  [][ \A r \in Refund :
        /\ refundStatus[r] = REEMBOLSADO => refundStatus'[r] = REEMBOLSADO
        /\ attempt'[r] # attempt[r] =>
             gateway[r][attempt[r]] \in Unreturned /\ attempt'[r] = attempt[r] + 1
    ]_vars

\* A refund the gateway approved does not stay "en trámite" for ever: it is
\* refunded, or it waits for an administrator, although notifications are lost
\* and the process stops in the middle (refunds.service.ts:134-164).
ApprovedRefundsEnd ==
  \A r \in Refund :
    refundStatus[r] = EN_TRAMITE /\ gateway[r][attempt[r]] = "approved"
      ~> refundStatus[r] # EN_TRAMITE
=============================================================================
