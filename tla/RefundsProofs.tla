---------------------------- MODULE RefundsProofs ----------------------------
(***************************************************************************)
(* Any number of refunds, calls, time-outs and crashes: the gateway gives  *)
(* the money of a refund back once, and its row says what the gateway did. *)
(* And any payments of an order, with any number of refunds: they give     *)
(* back no more than they charged (LedgerInv).                             *)
(***************************************************************************)
EXTENDS Refunds, Ledger, SumsProofs

\* The attempts before the current one gave nothing back, the later ones were
\* not sent.
OneLiveAttempt ==
  \A r \in Refund : \A k \in Attempts :
    /\ k < attempt[r] => gateway[r][k] \in Unreturned
    /\ k > attempt[r] => gateway[r][k] = "unsent"

\* A call of the attempt k knows of the gateway what will never be undone.
CallIsTruthful(c) ==
  LET s == gateway[c.refund][c.attempt]
  IN /\ c.attempt <= attempt[c.refund]
     /\ s # "unsent"
     /\ c.phase = "consulting" => s \in Results
     /\ c.phase \in {"answered", "applying"} =>
          /\ s \in Results
          /\ c.result \in {"approved", "rejected"} => s = c.result

CallsAreTruthful == \A w \in Worker : worker[w] # Idle => CallIsTruthful(worker[w])

\* The current attempt of a rejected row gave nothing back.
RejectedRowsAreSafe ==
  \A r \in Refund :
    /\ refundStatus[r] = RECHAZADO => gateway[r][attempt[r]] \in Unreturned
    /\ refundStatus[r] = REEMBOLSADO /\ ~byHand[r] => gateway[r][attempt[r]] = "approved"

RInv ==
  /\ TypeOK
  /\ OneLiveAttempt
  /\ CallsAreTruthful
  /\ RejectedRowsAreSafe
  /\ ConsultsItsAttempt

-----------------------------------------------------------------------------
\* What the gateway may still change: a request without an answer, and a refund
\* in process.
GatewayMoves(r, k, s) ==
  /\ gateway' = [gateway EXCEPT ![r][k] = s]
  /\ \/ gateway[r][k] = "sent" /\ s \in {"in_process", "approved", "refused"}
     \/ gateway[r][k] = "in_process" /\ s \in {"approved", "rejected"}

LEMMA RInvInit == Init => RInv
BY RefundsAssumption
   DEF Init, RInv, TypeOK, OneLiveAttempt, CallsAreTruthful, RejectedRowsAreSafe,
       ConsultsItsAttempt, Attempts, NoId, RefundStatuses, GatewayStates, SIN_REGISTRO,
       RECHAZADO, REEMBOLSADO, REFUND_NEEDS_ATTENTION

\* A step that moves only a row in process of its own attempt, to a state that
\* the gateway bears out, and frees the call.
LEMMA TransitionKeeps ==
  ASSUME RInv, NEW w \in Worker, NEW r \in Refund, NEW k \in Attempts,
         NEW to \in {RECHAZADO, REEMBOLSADO, PENDIENTE_DE_GESTION},
         Transition(r, k, to), worker' = [worker EXCEPT ![w] = Idle], UNCHANGED gateway,
         to = RECHAZADO => gateway[r][k] \in Unreturned,
         to = REEMBOLSADO => gateway[r][k] = "approved"
  PROVE  RInv'
<1> USE DEF RInv, TypeOK, Transition
<1>1. TypeOK'
  BY DEF RefundStatuses, REFUND_NEEDS_ATTENTION
<1>2. OneLiveAttempt'
  BY DEF OneLiveAttempt
<1>3. CallsAreTruthful'
  BY DEF CallsAreTruthful, CallIsTruthful
<1>4. RejectedRowsAreSafe'
  BY DEF RejectedRowsAreSafe, RECHAZADO, REEMBOLSADO, PENDIENTE_DE_GESTION
<1>5. ConsultsItsAttempt'
  BY DEF ConsultsItsAttempt, NoId
<1> QED BY <1>1, <1>2, <1>3, <1>4, <1>5

\* A step of a call that leaves the rows and the gateway alone.
LEMMA CallKeeps ==
  ASSUME RInv, NEW w \in Worker, NEW c \in Busy \cup {Idle},
         worker' = [worker EXCEPT ![w] = c], UNCHANGED <<rowVars, gateway>>,
         c # Idle => CallIsTruthful(c)
  PROVE  RInv'
<1> USE DEF RInv, TypeOK, rowVars
<1>1. TypeOK'
  OBVIOUS
<1>2. CallsAreTruthful'
  BY DEF CallsAreTruthful, CallIsTruthful
<1>3. OneLiveAttempt' /\ RejectedRowsAreSafe' /\ ConsultsItsAttempt'
  BY DEF OneLiveAttempt, RejectedRowsAreSafe, ConsultsItsAttempt
<1> QED BY <1>1, <1>2, <1>3

\* A call under way, taken apart.
LEMMA CallUnderWay ==
  ASSUME RInv, NEW w \in Worker, NEW phase, In(w, phase)
  PROVE  /\ worker[w] \in Busy /\ worker[w].phase = phase
         /\ worker[w].refund \in Refund /\ worker[w].attempt \in Attempts
         /\ CallIsTruthful(worker[w])
<1>1. worker[w] \in Busy /\ worker[w].phase = phase /\ CallIsTruthful(worker[w])
  BY DEF RInv, TypeOK, In, CallsAreTruthful
<1> QED BY <1>1 DEF Busy

LEMMA GatewayKeeps ==
  ASSUME RInv, NEW r \in Refund, NEW k \in Attempts, NEW s \in GatewayStates,
         GatewayMoves(r, k, s), UNCHANGED <<rowVars, worker>>
  PROVE  RInv'
<1> USE DEF RInv, TypeOK, rowVars, GatewayMoves
<1>1. TypeOK'
  BY DEF GatewayStates, Results
<1>2. k <= attempt[r]
  BY DEF OneLiveAttempt, Attempts
<1>3. k = attempt[r]
  BY <1>2 DEF OneLiveAttempt, Unreturned, Attempts
<1>4. OneLiveAttempt'
  BY <1>3 DEF OneLiveAttempt, Attempts
<1>5. CallsAreTruthful'
  <2> SUFFICES ASSUME NEW w \in Worker, worker[w] # Idle
               PROVE  CallIsTruthful(worker[w])'
    BY DEF CallsAreTruthful
  <2>1. worker[w] \in Busy /\ CallIsTruthful(worker[w])
    BY DEF CallsAreTruthful
  <2> QED BY <2>1 DEF CallIsTruthful, Busy, Results
<1>6. RejectedRowsAreSafe'
  BY <1>3 DEF RejectedRowsAreSafe, Unreturned
<1>7. ConsultsItsAttempt'
  BY <1>3 DEF ConsultsItsAttempt, Results
<1> QED BY <1>1, <1>4, <1>5, <1>6, <1>7

-----------------------------------------------------------------------------
LEMMA DispatchKeeps ==
  ASSUME RInv, NEW w \in Worker, NEW r \in Refund, Dispatch(w, r)
  PROVE  RInv'
<1> USE DEF RInv, TypeOK, rowVars, Dispatch, Becomes
<1>1. TypeOK'
  BY DEF Busy, GatewayStates
<1>2. OneLiveAttempt'
  BY DEF OneLiveAttempt, Attempts
<1>3. CallsAreTruthful'
  <2> SUFFICES ASSUME NEW u \in Worker, worker'[u] # Idle
               PROVE  CallIsTruthful(worker[u])'
    BY DEF CallsAreTruthful
  <2>1. CASE u = w
    BY <2>1, <1>1 DEF CallIsTruthful, Attempts
  <2>2. CASE u # w
    <3>1. worker'[u] = worker[u] /\ worker[u] \in Busy /\ CallIsTruthful(worker[u])
      BY <2>2 DEF CallsAreTruthful
    <3> QED BY <3>1 DEF CallIsTruthful, Busy, Results
  <2> QED BY <2>1, <2>2
<1>4. RejectedRowsAreSafe'
  BY DEF RejectedRowsAreSafe, Unreturned
<1>5. ConsultsItsAttempt'
  BY DEF ConsultsItsAttempt, Results
<1> QED BY <1>1, <1>2, <1>3, <1>4, <1>5

LEMMA SaveExternalIdKeeps ==
  ASSUME RInv, NEW w \in Worker, SaveExternalId(w)
  PROVE  RInv'
<1> USE DEF RInv, TypeOK, SaveExternalId, Becomes
<1> DEFINE call == worker[w]
<1>1. /\ call \in Busy /\ call.phase = "answered" /\ call.refund \in Refund
      /\ call.attempt \in Attempts /\ CallIsTruthful(call)
  BY CallUnderWay
<1>2. PICK c : c = [call EXCEPT !.phase = "applying"]
  OBVIOUS
<1>3. /\ c \in Busy /\ c.phase = "applying" /\ c.refund = call.refund
      /\ c.attempt = call.attempt /\ c.result = call.result
  BY <1>1, <1>2 DEF Busy
<1>4. TypeOK'
  BY <1>1, <1>2, <1>3
<1>5. OneLiveAttempt' /\ RejectedRowsAreSafe'
  BY DEF OneLiveAttempt, RejectedRowsAreSafe
<1>6. CallsAreTruthful'
  BY <1>1, <1>2, <1>3 DEF CallsAreTruthful, CallIsTruthful
<1>7. ConsultsItsAttempt'
  BY <1>1 DEF ConsultsItsAttempt, CallIsTruthful
<1> QED BY <1>4, <1>5, <1>6, <1>7

LEMMA RetryKeeps ==
  ASSUME RInv, NEW r \in Refund, Retry(r)
  PROVE  RInv'
<1> USE DEF RInv, TypeOK
<1>1. TypeOK'
  <2>1. /\ attempt' \in [Refund -> Attempts]
        /\ externalRefundId' \in [Refund -> Attempts \cup {NoId}]
    <3>1. CASE refundStatus[r] = PENDIENTE_DE_GESTION /\ UNCHANGED <<attempt, externalRefundId>>
      BY <3>1
    <3>2. CASE /\ attempt[r] < MaxAttempt
               /\ attempt' = [attempt EXCEPT ![r] = @ + 1]
               /\ externalRefundId' = [externalRefundId EXCEPT ![r] = NoId]
      <4>1. attempt[r] + 1 \in Attempts
        BY <3>2, RefundsAssumption DEF Attempts
      <4> QED BY <3>2, <4>1
    <3> QED BY <3>1, <3>2 DEF Retry
  <2>2. refundStatus' \in [Refund -> RefundStatuses] /\ UNCHANGED <<byHand, gateway, worker>>
    BY DEF Retry, RefundStatuses
  <2> QED BY <2>1, <2>2
<1>2. CASE refundStatus[r] = RECHAZADO /\ attempt' = [attempt EXCEPT ![r] = @ + 1]
              /\ externalRefundId' = [externalRefundId EXCEPT ![r] = NoId]
  <2>1. OneLiveAttempt'
    BY <1>2 DEF Retry, OneLiveAttempt, RejectedRowsAreSafe, Attempts
  <2>2. CallsAreTruthful'
    <3> SUFFICES ASSUME NEW u \in Worker, worker'[u] # Idle
                 PROVE  CallIsTruthful(worker[u])'
      BY DEF CallsAreTruthful
    <3>1. worker' = worker /\ worker[u] \in Busy /\ CallIsTruthful(worker[u]) /\ gateway' = gateway
      BY DEF CallsAreTruthful, Retry
    <3>2. worker[u].refund \in Refund /\ worker[u].attempt \in Attempts
      BY <3>1 DEF Busy
    <3>3. worker[u].attempt <= attempt'[worker[u].refund]
      BY <1>2, <3>1, <3>2 DEF CallIsTruthful, Attempts
    <3> QED BY <3>1, <3>3 DEF CallIsTruthful
  <2>3. RejectedRowsAreSafe'
    BY <1>2 DEF Retry, RejectedRowsAreSafe, EN_TRAMITE, RECHAZADO, REEMBOLSADO
  <2>4. ConsultsItsAttempt'
    BY <1>2 DEF Retry, ConsultsItsAttempt
  <2> QED BY <1>1, <2>1, <2>2, <2>3, <2>4
<1>3. CASE UNCHANGED <<attempt, externalRefundId>>
  <2>1. OneLiveAttempt' /\ CallsAreTruthful' /\ ConsultsItsAttempt'
    BY <1>3 DEF Retry, OneLiveAttempt, CallsAreTruthful, CallIsTruthful, ConsultsItsAttempt
  <2>2. RejectedRowsAreSafe'
    BY <1>3 DEF Retry, RejectedRowsAreSafe, EN_TRAMITE, RECHAZADO, REEMBOLSADO
  <2> QED BY <1>1, <2>1, <2>2
<1> QED BY <1>2, <1>3 DEF Retry

-----------------------------------------------------------------------------
LEMMA RInvStep == RInv /\ [Next]_vars => RInv'
<1> SUFFICES ASSUME RInv, [Next]_vars PROVE RInv'
  OBVIOUS
<1>1. CASE Crash
  BY <1>1 DEF Crash, RInv, TypeOK, rowVars, OneLiveAttempt, CallsAreTruthful,
              RejectedRowsAreSafe, ConsultsItsAttempt
<1>2. ASSUME NEW w \in Worker, Answered(w) PROVE RInv'
  <2>1. /\ worker[w] \in Busy /\ worker[w].phase = "asking" /\ worker[w].refund \in Refund
        /\ worker[w].attempt \in Attempts /\ CallIsTruthful(worker[w])
    BY <1>2, CallUnderWay DEF Answered
  <2>2. PICK c : c = [phase |-> "answered", refund |-> worker[w].refund,
                      attempt |-> worker[w].attempt,
                      result |-> gateway[worker[w].refund][worker[w].attempt]]
    OBVIOUS
  <2>3. c \in Busy /\ CallIsTruthful(c)
    BY <1>2, <2>1, <2>2 DEF Answered, Busy, CallIsTruthful
  <2>4. worker' = [worker EXCEPT ![w] = c] /\ UNCHANGED <<rowVars, gateway>>
    BY <1>2, <2>2 DEF Answered, Becomes
  <2> QED BY <2>3, <2>4, CallKeeps
<1>3. ASSUME NEW w \in Worker, Refused(w) PROVE RInv'
  <2>1. worker[w].refund \in Refund /\ worker[w].attempt \in Attempts
    BY <1>3, CallUnderWay DEF Refused
  <2> QED
    BY <1>3, <2>1, TransitionKeeps DEF Refused, Becomes, Unreturned, RECHAZADO, REEMBOLSADO
<1>4. ASSUME NEW w \in Worker, TimesOut(w) PROVE RInv'
  <2>1. worker[w].refund \in Refund /\ worker[w].attempt \in Attempts
    BY <1>4, CallUnderWay DEF TimesOut
  <2> QED
    BY <1>4, <2>1, TransitionKeeps
       DEF TimesOut, Becomes, PENDIENTE_DE_GESTION, RECHAZADO, REEMBOLSADO
<1>5. ASSUME NEW w \in Worker, SaveExternalId(w) PROVE RInv'
  BY <1>5, SaveExternalIdKeeps
<1>6. ASSUME NEW w \in Worker, ApplyResult(w) PROVE RInv'
  <2>1. /\ worker[w].phase = "applying" /\ worker[w].refund \in Refund
        /\ worker[w].attempt \in Attempts /\ CallIsTruthful(worker[w])
    BY <1>6, CallUnderWay DEF ApplyResult
  <2>2. CASE worker[w].result = "approved"
    <3>1. Transition(worker[w].refund, worker[w].attempt, REEMBOLSADO)
      BY <1>6, <2>2 DEF ApplyResult, FINAL_REFUND_STATUS
    <3>2. gateway[worker[w].refund][worker[w].attempt] = "approved"
      BY <2>1, <2>2 DEF CallIsTruthful
    <3> QED
      BY <1>6, <2>1, <3>1, <3>2, TransitionKeeps DEF ApplyResult, Becomes, REEMBOLSADO, RECHAZADO
  <2>3. CASE worker[w].result = "rejected"
    <3>1. Transition(worker[w].refund, worker[w].attempt, RECHAZADO)
      BY <1>6, <2>3 DEF ApplyResult, FINAL_REFUND_STATUS
    <3>2. gateway[worker[w].refund][worker[w].attempt] \in Unreturned
      BY <2>1, <2>3 DEF CallIsTruthful, Unreturned
    <3> QED
      BY <1>6, <2>1, <3>1, <3>2, TransitionKeeps DEF ApplyResult, Becomes, REEMBOLSADO, RECHAZADO
  <2>4. CASE worker[w].result \notin {"approved", "rejected"}
    <3>1. UNCHANGED <<rowVars, gateway>> /\ worker' = [worker EXCEPT ![w] = Idle]
      BY <1>6, <2>4 DEF ApplyResult, FINAL_REFUND_STATUS, Becomes
    <3> QED BY <3>1, CallKeeps
  <2> QED BY <2>2, <2>3, <2>4
<1>7. ASSUME NEW w \in Worker, Consulted(w) PROVE RInv'
  <2>1. /\ worker[w] \in Busy /\ worker[w].phase = "consulting" /\ worker[w].refund \in Refund
        /\ worker[w].attempt \in Attempts /\ CallIsTruthful(worker[w])
    BY <1>7, CallUnderWay DEF Consulted
  <2>2. PICK c : c = [phase |-> "applying", refund |-> worker[w].refund,
                      attempt |-> worker[w].attempt,
                      result |-> gateway[worker[w].refund][worker[w].attempt]]
    OBVIOUS
  <2>3. c \in Busy /\ CallIsTruthful(c)
    BY <1>7, <2>1, <2>2 DEF Consulted, Busy, CallIsTruthful
  <2>4. worker' = [worker EXCEPT ![w] = c] /\ UNCHANGED <<rowVars, gateway>>
    BY <1>7, <2>2 DEF Consulted, Becomes
  <2> QED BY <2>3, <2>4, CallKeeps
<1>8. ASSUME NEW w \in Worker, ConsultFails(w) PROVE RInv'
  BY <1>8, CallKeeps DEF ConsultFails, Becomes
<1>9. ASSUME NEW w \in Worker, NEW r \in Refund, Dispatch(w, r) PROVE RInv'
  BY <1>9, DispatchKeeps
<1>10. ASSUME NEW w \in Worker, NEW r \in Refund, Reconcile(w, r) PROVE RInv'
  <2>1. PICK c : c = [phase |-> "consulting", refund |-> r, attempt |-> attempt[r]]
    OBVIOUS
  <2>2. attempt[r] \in Attempts /\ gateway[r][attempt[r]] \in Results
    BY <1>10 DEF Reconcile, RInv, TypeOK, ConsultsItsAttempt
  <2>3. c \in Busy
    BY <2>1, <2>2 DEF Busy
  <2>4. CallIsTruthful(c)
    BY <2>1, <2>2 DEF CallIsTruthful, Results, Attempts
  <2>5. worker' = [worker EXCEPT ![w] = c] /\ UNCHANGED <<rowVars, gateway>>
    BY <1>10, <2>1 DEF Reconcile, Becomes
  <2> QED BY <2>3, <2>4, <2>5, CallKeeps
<1>11. ASSUME NEW r \in Refund, Register(r) PROVE RInv'
  BY <1>11 DEF Register, RInv, TypeOK, OneLiveAttempt, CallsAreTruthful, CallIsTruthful,
               RejectedRowsAreSafe, ConsultsItsAttempt, EN_TRAMITE, RECHAZADO, REEMBOLSADO,
               RefundStatuses
<1>12. ASSUME NEW r \in Refund, Retry(r) PROVE RInv'
  BY <1>12, RetryKeeps
<1>13. ASSUME NEW r \in Refund, ResolveManually(r) PROVE RInv'
  BY <1>13 DEF ResolveManually, RInv, TypeOK, OneLiveAttempt, CallsAreTruthful, CallIsTruthful,
               RejectedRowsAreSafe, ConsultsItsAttempt, RECHAZADO, REEMBOLSADO, RefundStatuses
<1>14. ASSUME NEW r \in Refund, NEW k \in Attempts, GatewayCreates(r, k) PROVE RInv'
  <2>1. PICK s \in {"in_process", "approved", "refused"} :
          gateway' = [gateway EXCEPT ![r][k] = s]
    BY <1>14 DEF GatewayCreates
  <2> QED
    BY <1>14, <2>1, GatewayKeeps DEF GatewayCreates, GatewayMoves, GatewayStates, Results
<1>15. ASSUME NEW r \in Refund, NEW k \in Attempts, GatewaySettles(r, k) PROVE RInv'
  <2>1. PICK s \in {"approved", "rejected"} : gateway' = [gateway EXCEPT ![r][k] = s]
    BY <1>15 DEF GatewaySettles
  <2> QED
    BY <1>15, <2>1, GatewayKeeps DEF GatewaySettles, GatewayMoves, GatewayStates, Results
<1>16. CASE UNCHANGED vars
  BY <1>16 DEF vars, rowVars, RInv, TypeOK, OneLiveAttempt, CallsAreTruthful, CallIsTruthful,
               RejectedRowsAreSafe, ConsultsItsAttempt
<1> QED
  BY <1>1, <1>2, <1>3, <1>4, <1>5, <1>6, <1>7, <1>8, <1>9, <1>10, <1>11, <1>12, <1>13,
     <1>14, <1>15, <1>16 DEF Next, WorkerStep

LEMMA SpecRInv == Spec => []RInv
BY RInvInit, RInvStep, PTL DEF Spec

-----------------------------------------------------------------------------
\* Every variable holds values of its kind.
THEOREM RefundsTypeCorrect == Spec => []TypeOK
<1>1. RInv => TypeOK
  BY DEF RInv
<1> QED BY SpecRInv, <1>1, PTL

\* The id that is consulted is the one of the current attempt, and the gateway
\* has a refund for it.
THEOREM ConsultsItsAttemptAlways == Spec => []ConsultsItsAttempt
<1>1. RInv => ConsultsItsAttempt
  BY DEF RInv
<1> QED BY SpecRInv, <1>1, PTL

\* However many calls, retries, time-outs and crashes: the gateway never has two
\* refunds of one row that gave, or may still give, money back.
THEOREM RefundsOnce == Spec => []GatewayRefundsOnce
<1>1. RInv => GatewayRefundsOnce
  <2> SUFFICES ASSUME RInv, NEW r \in Refund, NEW j \in Attempts, NEW k \in Attempts, j # k
               PROVE  \/ gateway[r][j] \in Unreturned \cup {"unsent"}
                      \/ gateway[r][k] \in Unreturned \cup {"unsent"}
    BY DEF GatewayRefundsOnce
  <2>1. attempt[r] \in Nat /\ j \in Nat /\ k \in Nat
    BY DEF RInv, TypeOK, Attempts
  <2>2. j # attempt[r] \/ k # attempt[r]
    OBVIOUS
  <2> QED BY <2>1, <2>2 DEF RInv, OneLiveAttempt
<1> QED BY SpecRInv, <1>1, PTL

\* A row is refunded only if the gateway returned the money or an administrator
\* said so, and rejected only if no attempt of it returned or may return any.
THEOREM StatusIsAlwaysTruthful == Spec => []StatusIsTruthful
<1>1. RInv => StatusIsTruthful
  <2> SUFFICES ASSUME RInv, NEW r \in Refund
               PROVE  /\ refundStatus[r] = REEMBOLSADO /\ ~byHand[r] =>
                           gateway[r][attempt[r]] = "approved"
                      /\ refundStatus[r] = RECHAZADO =>
                           \A k \in Attempts : gateway[r][k] \in Unreturned \cup {"unsent"}
    BY DEF StatusIsTruthful
  <2>1. ASSUME refundStatus[r] = RECHAZADO, NEW k \in Attempts
        PROVE  gateway[r][k] \in Unreturned \cup {"unsent"}
    <3>1. attempt[r] \in Nat /\ k \in Nat
      BY DEF RInv, TypeOK, Attempts
    <3> QED BY <2>1, <3>1 DEF RInv, OneLiveAttempt, RejectedRowsAreSafe
  <2> QED BY <2>1 DEF RInv, RejectedRowsAreSafe
<1> QED BY SpecRInv, <1>1, PTL

\* A refund is never un-refunded, and an attempt is abandoned only for the next
\* one and only once it gave nothing back.
THEOREM RefundedStaysRefunded == Spec => RefundedIsFinal
<1> DEFINE Final == \A r \in Refund :
              /\ refundStatus[r] = REEMBOLSADO => refundStatus'[r] = REEMBOLSADO
              /\ attempt'[r] # attempt[r] =>
                   gateway[r][attempt[r]] \in Unreturned /\ attempt'[r] = attempt[r] + 1
<1> USE DEF EN_TRAMITE, REEMBOLSADO, RECHAZADO, PENDIENTE_DE_GESTION, SIN_REGISTRO,
            REFUND_NEEDS_ATTENTION
<1>1. RInv /\ [Next]_vars => [Final]_vars
  <2> SUFFICES ASSUME RInv, Next PROVE Final
    OBVIOUS
  <2>1. ASSUME UNCHANGED rowVars PROVE Final
    BY <2>1 DEF rowVars
  <2>2. ASSUME NEW x, NEW k, NEW to, Transition(x, k, to) PROVE Final
    BY <2>2 DEF Transition, RInv, TypeOK
  <2>3. ASSUME NEW r \in Refund, Retry(r) PROVE Final
    BY <2>3 DEF Retry, RInv, TypeOK, RejectedRowsAreSafe
  <2>4. ASSUME NEW r \in Refund, Register(r) \/ ResolveManually(r) PROVE Final
    BY <2>4 DEF Register, ResolveManually, RInv, TypeOK
  <2>5. ASSUME NEW w \in Worker, WorkerStep(w) PROVE Final
    <3>1. CASE Answered(w) \/ Consulted(w) \/ ConsultFails(w)
      BY <2>1, <3>1 DEF Answered, Consulted, ConsultFails
    <3>2. CASE Refused(w) \/ TimesOut(w)
      BY <2>2, <3>2 DEF Refused, TimesOut
    <3>3. CASE SaveExternalId(w)
      BY <3>3 DEF SaveExternalId
    <3>4. CASE ApplyResult(w)
      BY <2>1, <2>2, <3>4 DEF ApplyResult
    <3> QED BY <2>5, <3>1, <3>2, <3>3, <3>4 DEF WorkerStep
  <2>6. CASE Crash \/ (\E w \in Worker, r \in Refund : Dispatch(w, r) \/ Reconcile(w, r))
             \/ (\E r \in Refund, k \in Attempts : GatewayCreates(r, k) \/ GatewaySettles(r, k))
    <3>1. UNCHANGED rowVars
      BY <2>6 DEF Crash, Dispatch, Reconcile, GatewayCreates, GatewaySettles
    <3> QED BY <2>1, <3>1
  <2> QED BY <2>3, <2>4, <2>5, <2>6 DEF Next
<1>2. Spec => [][Final]_vars
  BY SpecRInv, <1>1, PTL DEF Spec
<1> QED BY <1>2 DEF RefundedIsFinal

-----------------------------------------------------------------------------
(***************************************************************************)
(* The ledger: any payments, any number of refunds.                        *)
(***************************************************************************)

IsApproved(p) == \E i \in DOMAIN approvals : approvals[i] = p

\* What was ever asked of a payment, refused or not.
AskedOf(p) == SumOver(rowCents, RowsOf(p))

\* The payment that credited the order: the oldest of its amount, at place i.
Credits(q, i) ==
  /\ i \in DOMAIN approvals
  /\ approvals[i] = q
  /\ Exact(q)
  /\ \A j \in DOMAIN approvals : Exact(approvals[j]) => i <= j

RowsHavePayments == \A r \in Row : rowStatus[r] # SIN_REGISTRO => rowPayment[r] \in Payment

\* All that was asked of a payment of the amount of the order fits in it...
ExactFits ==
  \A p \in Payment :
    Exact(p) => /\ AskedOf(p) <= Amount[p]
                /\ ~IsApproved(p) => RowsOf(p) = {}

NoneCredits ==
  stage = PENDIENTE_PAGO => \A p \in Payment : Exact(p) => ~IsApproved(p)

\* ... and of the one that credited the order only what came back in returns,
\* until a cancellation: of any other, its own whole refund.
CreditedFits ==
  stage \in {PAGADO, DESPACHADO, ENTREGADO} =>
    \E q \in Payment : (\E i \in DOMAIN approvals : Credits(q, i)) /\ AskedOf(q) <= returned

ReturnsAfterDelivery == stage # ENTREGADO => returned = 0

AskedFits ==
  RowsHavePayments /\ ExactFits /\ NoneCredits /\ CreditedFits /\ ReturnsAfterDelivery

\* The rows that hold the balance of a payment, or are about to.
Holding(p) ==
  { r \in RowsOf(p) :
      \/ rowStatus[r] \in {EN_TRAMITE, REEMBOLSADO, PENDIENTE_DE_GESTION, REGISTRANDO}
      \/ r \in retrying }

HeldFits ==
  /\ \A r \in retrying : rowStatus[r] = RECHAZADO
  /\ \A p \in Payment \ raced : SumOver(rowCents, Holding(p)) <= Amount[p]

LedgerInv == LedgerTypeOK /\ AskedFits /\ HeldFits

\* The states of a row are different.
LEMMA StatusNames ==
  /\ EN_TRAMITE = "en_tramite" /\ REEMBOLSADO = "reembolsado" /\ RECHAZADO = "rechazado"
  /\ PENDIENTE_DE_GESTION = "pendiente_de_gestion" /\ SIN_REGISTRO = "sin_registro"
  /\ REGISTRANDO = "registrando" /\ RESUELTO_A_MANO = "resuelto_a_mano"
BY DEF EN_TRAMITE, REEMBOLSADO, RECHAZADO, PENDIENTE_DE_GESTION, SIN_REGISTRO, REGISTRANDO,
       RESUELTO_A_MANO

\* Sums over rows are numbers.
LEMMA RowSums ==
  ASSUME LedgerTypeOK, NEW S \in SUBSET Row
  PROVE  /\ IsFiniteSet(S) /\ SumOver(rowCents, S) \in Nat
         /\ \A T \in SUBSET S : SumOver(rowCents, T) \in Nat
                                /\ SumOver(rowCents, T) <= SumOver(rowCents, S)
<1>1. \A x \in S : rowCents[x] \in Nat
  BY DEF LedgerTypeOK
<1>2. IsFiniteSet(S)
  BY LedgerAssumption, FS_Subset
<1> QED BY <1>1, <1>2, SumSubset

\* One more row.
LEMMA OneMoreRow ==
  ASSUME LedgerTypeOK, NEW S \in SUBSET Row, NEW r \in Row, r \notin S
  PROVE  SumOver(rowCents, S \cup {r}) = SumOver(rowCents, S) + rowCents[r]
<1>1. \A x \in S : rowCents[x] \in Nat
  BY DEF LedgerTypeOK
<1>2. rowCents[r] \in Nat
  BY DEF LedgerTypeOK
<1> QED BY <1>1, <1>2, RowSums, SumAdd

\* A row that is written counts for its payment and for no other.
LEMMA WriteAdds ==
  ASSUME LedgerTypeOK, NEW r \in Row, NEW p \in Payment, NEW amount \in Nat,
         rowStatus[r] = SIN_REGISTRO, Write(r, p, amount),
         NEW S \in SUBSET (Row \ {r})
  PROVE  /\ SumOver(rowCents', S) = SumOver(rowCents, S)
         /\ SumOver(rowCents', S \cup {r}) = SumOver(rowCents, S) + amount
<1>1. rowCents'[r] = amount /\ \A x \in S : rowCents'[x] = rowCents[x] /\ rowCents[x] \in Nat
  BY DEF LedgerTypeOK, Write
<1>2. SumOver(rowCents', S) = SumOver(rowCents, S)
  BY <1>1, SumSame
<1>3. SumOver(rowCents', S \cup {r}) = SumOver(rowCents', S) + rowCents'[r]
  BY <1>1, RowSums, SumAdd
<1> QED BY <1>1, <1>2, <1>3

\* A row that is written is one more that was asked of its payment, and of no other.
LEMMA WrittenRows ==
  ASSUME LedgerTypeOK, NEW r \in Row, NEW p \in Payment, NEW amount \in Nat,
         rowStatus[r] = SIN_REGISTRO, Write(r, p, amount)
  PROVE  /\ RowsOf(p)' = RowsOf(p) \cup {r}
         /\ \A q \in Payment \ {p} : RowsOf(q)' = RowsOf(q)
         /\ \A q \in Payment : RowsOf(q) \in SUBSET (Row \ {r})
         /\ AskedOf(p)' = AskedOf(p) + amount
         /\ \A q \in Payment \ {p} : AskedOf(q)' = AskedOf(q)
<1>1. /\ rowStatus'[r] = REGISTRANDO /\ rowPayment'[r] = p
      /\ \A x \in Row \ {r} : rowStatus'[x] = rowStatus[x] /\ rowPayment'[x] = rowPayment[x]
  BY DEF LedgerTypeOK, Write
<1>2. /\ RowsOf(p)' = RowsOf(p) \cup {r}
      /\ \A q \in Payment \ {p} : RowsOf(q)' = RowsOf(q)
      /\ \A q \in Payment : RowsOf(q) \in SUBSET (Row \ {r})
  BY <1>1, StatusNames DEF RowsOf
<1>3. AskedOf(p)' = AskedOf(p) + amount
  BY <1>2, WriteAdds DEF AskedOf
<1>4. \A q \in Payment \ {p} : AskedOf(q)' = AskedOf(q)
  BY <1>2, WriteAdds DEF AskedOf
<1> QED BY <1>2, <1>3, <1>4

\* The row r is written against the oldest payment that has the balance, i-th.
Asked(candidates, amount, r, i) ==
  /\ i \in DOMAIN approvals'
  /\ approvals'[i] \in candidates
  /\ amount > 0
  /\ RefundableCents(approvals'[i], Committed(approvals'[i])) >= amount
  /\ \A j \in DOMAIN approvals' :
       /\ approvals'[j] \in candidates
       /\ RefundableCents(approvals'[j], Committed(approvals'[j])) >= amount
       => i <= j
  /\ rowStatus[r] = SIN_REGISTRO
  /\ Write(r, approvals'[i], amount)

\* What a registration does: nothing, or such a row.
LEMMA RegistrationWrites ==
  ASSUME NEW candidates, NEW amount, RequestRefundOf(candidates, amount)
  PROVE  \/ NoRefund
         \/ \E r \in Row, i \in DOMAIN approvals' : Asked(candidates, amount, r, i)
BY DEF RequestRefundOf, Asked

\* The payment that credited the order has the balance for whatever the returns,
\* or a cancellation, have not asked for: it is chosen, or one of another amount.
LEMMA CreditedComesFirst ==
  ASSUME LedgerTypeOK, NEW q \in Payment, NEW i \in DOMAIN approvals, Credits(q, i),
         NEW amount \in Nat, AskedOf(q) + amount <= Total, UNCHANGED approvals,
         NEW r \in Row, NEW j \in DOMAIN approvals', Asked(Payment, amount, r, j)
  PROVE  approvals'[j] = q \/ ~Exact(approvals'[j])
<1>1. approvals[i] = q /\ Amount[q] = Total
  BY LedgerAssumption DEF Credits, Exact
<1>2. Committed(q) \in SUBSET RowsOf(q) /\ RowsOf(q) \in SUBSET Row
  BY DEF Committed, RowsOf
<1>3. /\ SumOver(rowCents, Committed(q)) \in Nat
      /\ AskedOf(q) \in Nat
      /\ SumOver(rowCents, Committed(q)) <= AskedOf(q)
  BY <1>2, RowSums DEF AskedOf
<1>4. RefundableCents(q, Committed(q)) >= amount
  BY <1>1, <1>3, LedgerAssumption DEF RefundableCents
<1>5. j <= i
  BY <1>1, <1>4 DEF Asked
<1>6. Exact(approvals[j]) => i <= j
  BY DEF Credits
<1> QED BY <1>1, <1>5, <1>6 DEF LedgerTypeOK

\* What is asked is a number.
LEMMA AskedIsNat ==
  ASSUME LedgerTypeOK
  PROVE  \A p : AskedOf(p) \in Nat
<1>1. \A p : RowsOf(p) \in SUBSET Row
  BY DEF RowsOf
<1> QED BY <1>1, RowSums DEF AskedOf

\* Nothing is asked of a payment without rows.
LEMMA NoRowsNothingAsked == \A p : RowsOf(p) = {} => AskedOf(p) = 0
BY SumEmpty DEF AskedOf

\* Nothing is asked: the rows are as they were.
LEMMA SameRowsSameAsked ==
  ASSUME UNCHANGED rowsVars
  PROVE  \A p : RowsOf(p)' = RowsOf(p) /\ AskedOf(p)' = AskedOf(p)
<1>1. rowStatus' = rowStatus /\ rowPayment' = rowPayment /\ rowCents' = rowCents
  BY DEF rowsVars
<1>2. \A p : RowsOf(p)' = RowsOf(p)
  BY <1>1 DEF RowsOf
<1> QED BY <1>1, <1>2 DEF AskedOf

\* Nothing is asked of an order that is not paid.
LEMMA LedgerStart == LedgerInit => LedgerTypeOK /\ AskedFits
<1> SUFFICES ASSUME LedgerInit PROVE LedgerTypeOK /\ AskedFits
  OBVIOUS
<1>1. LedgerTypeOK
  BY LedgerAssumption
     DEF LedgerInit, LedgerTypeOK, LedgerStages, RefundStatuses, SIN_REGISTRO
<1>2. \A p \in Payment : RowsOf(p) = {} /\ ~IsApproved(p)
  BY DEF LedgerInit, RowsOf, IsApproved
<1>3. \A p \in Payment : AskedOf(p) = 0
  BY <1>2, NoRowsNothingAsked
<1>4. \A p \in Payment : Amount[p] \in Nat
  BY LedgerAssumption
<1> QED BY <1>1, <1>2, <1>3, <1>4
       DEF AskedFits, RowsHavePayments, ExactFits, NoneCredits, CreditedFits,
           ReturnsAfterDelivery, LedgerInit, PENDIENTE_PAGO, PAGADO, DESPACHADO, ENTREGADO

-----------------------------------------------------------------------------
(***************************************************************************)
(* What the handlers of the order ask.                                     *)
(***************************************************************************)

\* The stages of the order are different.
LEMMA StageNames ==
  /\ PENDIENTE_PAGO = "pendiente_pago" /\ PAGADO = "pagado" /\ DESPACHADO = "despachado"
  /\ ENTREGADO = "entregado" /\ CANCELADO = "cancelado"
  /\ LedgerStages = {PENDIENTE_PAGO, PAGADO, DESPACHADO, ENTREGADO, CANCELADO}
BY DEF PENDIENTE_PAGO, PAGADO, DESPACHADO, ENTREGADO, CANCELADO, LedgerStages

\* Rows and their types, after a registration.
LEMMA RegistrationTypes ==
  ASSUME LedgerTypeOK, NEW candidates, NEW amount \in Nat, RequestRefundOf(candidates, amount),
         candidates \subseteq Payment
  PROVE  /\ rowStatus' \in [Row -> RefundStatuses \cup {REGISTRANDO, RESUELTO_A_MANO}]
         /\ rowPayment' \in [Row -> Payment \cup {SIN_PAGO}]
         /\ rowCents' \in [Row -> Nat]
         /\ raced' \in SUBSET Payment
<1>1. CASE NoRefund
  BY <1>1 DEF NoRefund, rowsVars, LedgerTypeOK
<1>2. ASSUME NEW r \in Row, NEW i \in DOMAIN approvals', Asked(candidates, amount, r, i)
      PROVE  /\ rowStatus' \in [Row -> RefundStatuses \cup {REGISTRANDO, RESUELTO_A_MANO}]
             /\ rowPayment' \in [Row -> Payment \cup {SIN_PAGO}]
             /\ rowCents' \in [Row -> Nat]
             /\ raced' \in SUBSET Payment
  BY <1>2 DEF Asked, Write, NotesRace, LedgerTypeOK
<1> QED BY <1>1, <1>2, RegistrationWrites

\* An approval credits the order, or asks for all of its own payment.
LEMMA ApprovalKeeps ==
  ASSUME LedgerTypeOK, AskedFits, NEW p \in Payment, ApprovePayment(p)
  PROVE  LedgerTypeOK' /\ AskedFits'
<1>0. PICK n \in Nat : n = Len(approvals)
  BY DEF LedgerTypeOK
<1>1. /\ approvals' = Append(approvals, p) /\ approvals \in Seq(Payment)
      /\ returned' = returned /\ retrying' = retrying
      /\ ~IsApproved(p)
  BY DEF ApprovePayment, LedgerTypeOK, IsApproved
<1>2. /\ approvals' \in Seq(Payment) /\ DOMAIN approvals = 1..n /\ DOMAIN approvals' = 1..(n + 1)
      /\ approvals'[n + 1] = p /\ \A i \in 1..n : approvals'[i] = approvals[i]
  BY <1>0, <1>1
<1>3. \A q \in Payment : IsApproved(q)' <=> IsApproved(q) \/ q = p
  <2>1. \A q \in Payment : IsApproved(q)' => IsApproved(q) \/ q = p
    BY <1>2 DEF IsApproved
  <2>2. \A q \in Payment : IsApproved(q) => IsApproved(q)'
    BY <1>2 DEF IsApproved
  <2>3. IsApproved(p)'
    BY <1>2 DEF IsApproved
  <2> QED BY <2>1, <2>2, <2>3
<1>4. /\ Amount[p] \in Nat /\ \A q \in Payment : Amount[q] \in Nat
      /\ \A q : AskedOf(q) \in Nat
  BY LedgerAssumption, AskedIsNat
<1>5. \A q \in Payment : \A i \in DOMAIN approvals :
        Credits(q, i) => i \in DOMAIN approvals' /\ Credits(q, i)'
  BY <1>2 DEF Credits, Exact
<1>6. CASE /\ NoRefund
           /\ \/ stage' = stage
              \/ (Exact(p) /\ stage = PENDIENTE_PAGO /\ stage' = PAGADO)
           /\ Exact(p) => stage' # PENDIENTE_PAGO
  <2>1. \A q : RowsOf(q)' = RowsOf(q) /\ AskedOf(q)' = AskedOf(q)
    BY <1>6, SameRowsSameAsked DEF NoRefund
  <2>2. rowStatus' = rowStatus /\ rowPayment' = rowPayment /\ rowCents' = rowCents /\ raced' = raced
    BY <1>6 DEF NoRefund, rowsVars
  <2>3. LedgerTypeOK'
    BY <1>1, <1>2, <1>6, <2>2, StageNames DEF LedgerTypeOK
  <2>4. CreditedFits'
    <3>1. CASE stage' = stage
      BY <1>1, <1>5, <2>1, <3>1 DEF AskedFits, CreditedFits
    <3>2. CASE Exact(p) /\ stage = PENDIENTE_PAGO /\ stage' = PAGADO
      <4>1. \A j \in 1..n : ~Exact(approvals[j])
        <5>1. \A j \in 1..n : approvals[j] \in Payment /\ IsApproved(approvals[j])
          BY <1>1, <1>2 DEF IsApproved
        <5> QED BY <3>2, <5>1 DEF AskedFits, NoneCredits
      <4>2. n + 1 \in DOMAIN approvals' /\ Credits(p, n + 1)'
        BY <1>2, <3>2, <4>1 DEF Credits, Exact
      <4>3. AskedOf(p)' = 0 /\ returned' = 0
        BY <1>1, <2>1, <3>2, NoRowsNothingAsked, StageNames
           DEF AskedFits, ExactFits, ReturnsAfterDelivery
      <4> QED BY <4>2, <4>3 DEF CreditedFits
    <3> QED BY <1>6, <3>1, <3>2
  <2>5. RowsHavePayments' /\ ReturnsAfterDelivery'
    BY <1>1, <1>6, <2>2, StageNames DEF AskedFits, RowsHavePayments, ReturnsAfterDelivery
  <2>6. ExactFits'
    BY <1>3, <2>1 DEF AskedFits, ExactFits, Exact
  <2>7. NoneCredits'
    BY <1>3, <1>6, StageNames DEF AskedFits, NoneCredits, Exact
  <2> QED BY <2>3, <2>4, <2>5, <2>6, <2>7 DEF AskedFits
<1>7. ASSUME Exact(p), stage # PENDIENTE_PAGO, stage' = stage,
             NEW r \in Row, NEW i \in DOMAIN approvals', Asked({p}, Amount[p], r, i)
      PROVE  AskedFits'
  <2>1. approvals'[i] = p /\ rowStatus[r] = SIN_REGISTRO /\ Write(r, p, Amount[p])
    BY <1>7 DEF Asked
  <2>2. /\ RowsOf(p)' = RowsOf(p) \cup {r}
        /\ \A q \in Payment \ {p} : RowsOf(q)' = RowsOf(q)
        /\ AskedOf(p)' = AskedOf(p) + Amount[p]
        /\ \A q \in Payment \ {p} : AskedOf(q)' = AskedOf(q)
    BY <1>4, <2>1, WrittenRows
  <2>3. AskedOf(p) = 0
    BY <1>1, <1>7, NoRowsNothingAsked DEF AskedFits, ExactFits
  <2>4. RowsHavePayments'
    BY <2>1 DEF Write, LedgerTypeOK, AskedFits, RowsHavePayments
  <2>5. CreditedFits'
    <3>1. \A q \in Payment : \A k \in DOMAIN approvals : Credits(q, k) => q # p
      BY <1>1 DEF IsApproved, Credits
    <3> QED BY <1>1, <1>5, <1>7, <2>2, <3>1 DEF AskedFits, CreditedFits
  <2>6. ExactFits'
    <3>1. \A q \in Payment : Exact(q) => AskedOf(q)' <= Amount[q]
      BY <1>4, <2>2, <2>3 DEF AskedFits, ExactFits
    <3>2. \A q \in Payment : Exact(q) /\ ~IsApproved(q)' => RowsOf(q)' = {}
      BY <1>3, <2>2 DEF AskedFits, ExactFits
    <3> QED BY <3>1, <3>2 DEF ExactFits, Exact
  <2>7. NoneCredits' /\ ReturnsAfterDelivery'
    BY <1>1, <1>7 DEF AskedFits, NoneCredits, ReturnsAfterDelivery
  <2> QED BY <2>4, <2>5, <2>6, <2>7 DEF AskedFits
<1>8. CASE Exact(p) /\ stage # PENDIENTE_PAGO /\ RequestRefundOf({p}, Amount[p]) /\ stage' = stage
  <2>1. LedgerTypeOK'
    <3>1. {p} \subseteq Payment
      OBVIOUS
    <3>2. /\ rowStatus' \in [Row -> RefundStatuses \cup {REGISTRANDO, RESUELTO_A_MANO}]
          /\ rowPayment' \in [Row -> Payment \cup {SIN_PAGO}]
          /\ rowCents' \in [Row -> Nat]
          /\ raced' \in SUBSET Payment
      BY <1>4, <1>8, <3>1, RegistrationTypes
    <3>3. stage' \in LedgerStages /\ returned' \in 0..Subtotal /\ retrying' \in SUBSET Row
      BY <1>1, <1>8 DEF LedgerTypeOK
    <3> QED BY <1>2, <3>2, <3>3 DEF LedgerTypeOK
  <2>2. CASE NoRefund
    <3>1. Exact(p) /\ stage' = stage /\ stage' # PENDIENTE_PAGO
      BY <1>8
    <3> QED BY <1>6, <2>2, <3>1
  <2>3. ASSUME NEW r \in Row, NEW i \in DOMAIN approvals', Asked({p}, Amount[p], r, i)
        PROVE  AskedFits'
    BY <1>7, <1>8, <2>3
  <2> QED BY <1>8, <2>1, <2>2, <2>3, RegistrationWrites
<1>9. CASE ~Exact(p) /\ NoRefund /\ UNCHANGED stage
  BY <1>6, <1>9
<1>10. CASE Exact(p) /\ stage = PENDIENTE_PAGO /\ stage' = PAGADO /\ NoRefund
  BY <1>6, <1>10, StageNames
<1> QED BY <1>8, <1>9, <1>10 DEF ApprovePayment

\* A request on the approved payments that leaves room for what was asked of the
\* one that credited the order.
LEMMA RequestKeeps ==
  ASSUME LedgerTypeOK, AskedFits, NEW amount \in Nat, RequestRefundOf(Payment, amount),
         UNCHANGED approvals, stage \in {PAGADO, DESPACHADO, ENTREGADO},
         returned + amount <= Total
  PROVE  /\ RowsHavePayments' /\ ExactFits'
         /\ \E q \in Payment : /\ \E i \in DOMAIN approvals : Credits(q, i)'
                               /\ AskedOf(q)' <= returned + amount
<1>1. PICK q \in Payment, i \in DOMAIN approvals : Credits(q, i) /\ AskedOf(q) <= returned
  BY DEF AskedFits, CreditedFits
<1>2. Credits(q, i)' /\ \A p : IsApproved(p)' <=> IsApproved(p)
  BY <1>1 DEF Credits, IsApproved, Exact
<1>3. /\ returned \in Nat /\ \A p : AskedOf(p) \in Nat
      /\ Exact(q) /\ Amount[q] = Total /\ \A p \in Payment : Amount[p] \in Nat
  BY <1>1, AskedIsNat, LedgerAssumption DEF LedgerTypeOK, Credits, Exact
<1>4. CASE NoRefund
  <2>1. \A p : RowsOf(p)' = RowsOf(p) /\ AskedOf(p)' = AskedOf(p)
    BY <1>4, SameRowsSameAsked DEF NoRefund
  <2>2. RowsHavePayments'
    BY <1>4 DEF NoRefund, rowsVars, AskedFits, RowsHavePayments
  <2>3. ExactFits'
    BY <1>2, <2>1 DEF AskedFits, ExactFits, Exact
  <2>4. AskedOf(q)' <= returned + amount
    BY <1>1, <1>3, <2>1
  <2> QED BY <1>1, <1>2, <2>2, <2>3, <2>4
<1>5. ASSUME NEW r \in Row, NEW j \in DOMAIN approvals', Asked(Payment, amount, r, j)
      PROVE  RowsHavePayments' /\ ExactFits' /\ AskedOf(q)' <= returned + amount
  <2>1. PICK p \in Payment : p = approvals'[j] /\ rowStatus[r] = SIN_REGISTRO /\ Write(r, p, amount)
    BY <1>5 DEF Asked
  <2>2. p = q \/ ~Exact(p)
    BY <1>1, <1>3, <1>5, <2>1, CreditedComesFirst
  <2>3. /\ RowsOf(p)' = RowsOf(p) \cup {r}
        /\ \A o \in Payment \ {p} : RowsOf(o)' = RowsOf(o)
        /\ AskedOf(p)' = AskedOf(p) + amount
        /\ \A o \in Payment \ {p} : AskedOf(o)' = AskedOf(o)
    BY <2>1, WrittenRows
  <2>4. AskedOf(q)' <= returned + amount
    BY <1>1, <1>3, <2>3
  <2>5. RowsHavePayments'
    BY <2>1 DEF Write, LedgerTypeOK, AskedFits, RowsHavePayments
  <2>6. IsApproved(q)
    BY <1>1 DEF Credits, IsApproved
  <2>7. ExactFits'
    <3>1. \A o \in Payment : Exact(o) => AskedOf(o)' <= Amount[o]
      <4> SUFFICES ASSUME NEW o \in Payment, Exact(o) PROVE AskedOf(o)' <= Amount[o]
        OBVIOUS
      <4>1. CASE o = q
        BY <1>3, <2>3, <2>4, <4>1
      <4>2. CASE o # q
        BY <2>2, <2>3, <4>2 DEF AskedFits, ExactFits
      <4> QED BY <4>1, <4>2
    <3>2. \A o \in Payment : Exact(o) /\ ~IsApproved(o)' => RowsOf(o)' = {}
      BY <1>2, <2>2, <2>3, <2>6 DEF AskedFits, ExactFits
    <3> QED BY <3>1, <3>2 DEF ExactFits, Exact
  <2> QED BY <2>4, <2>5, <2>7
<1> QED BY <1>1, <1>2, <1>4, <1>5, RegistrationWrites

\* A cancellation asks for what the order still has, and nothing after it does.
LEMMA CancellationKeeps ==
  ASSUME LedgerTypeOK, AskedFits, CancelOrder
  PROVE  LedgerTypeOK' /\ AskedFits'
<1>1. /\ stage \in {PENDIENTE_PAGO, PAGADO, DESPACHADO} /\ stage' = CANCELADO
      /\ UNCHANGED <<approvals, returned, retrying>>
  BY DEF CancelOrder
<1>2. returned = 0
  BY <1>1, StageNames DEF AskedFits, ReturnsAfterDelivery
<1>3. CreditedFits' /\ NoneCredits' /\ ReturnsAfterDelivery'
  BY <1>1, <1>2, StageNames DEF CreditedFits, NoneCredits, ReturnsAfterDelivery
<1>4. stage' \in LedgerStages /\ approvals' \in Seq(Payment) /\ returned' \in 0..Subtotal
      /\ retrying' \in SUBSET Row
  BY <1>1, StageNames DEF LedgerTypeOK
<1>5. CASE stage = PENDIENTE_PAGO
  <2>1. NoRefund
    BY <1>5 DEF CancelOrder
  <2>2. \A p : RowsOf(p)' = RowsOf(p) /\ AskedOf(p)' = AskedOf(p)
    BY <2>1, SameRowsSameAsked DEF NoRefund
  <2>3. rowStatus' = rowStatus /\ rowPayment' = rowPayment /\ rowCents' = rowCents /\ raced' = raced
    BY <2>1 DEF NoRefund, rowsVars
  <2>4. RowsHavePayments' /\ ExactFits'
    BY <1>1, <2>2, <2>3 DEF AskedFits, RowsHavePayments, ExactFits, IsApproved, Exact
  <2> QED BY <1>3, <1>4, <2>3, <2>4 DEF AskedFits, LedgerTypeOK
<1>6. CASE stage # PENDIENTE_PAGO
  <2>1. PICK amount \in Nat : amount <= Total /\ RequestRefundOf(Payment, amount)
    BY <1>6, LedgerAssumption DEF CancelOrder
  <2>2. RowsHavePayments' /\ ExactFits'
    BY <1>1, <1>2, <1>6, <2>1, RequestKeeps
  <2>3. /\ rowStatus' \in [Row -> RefundStatuses \cup {REGISTRANDO, RESUELTO_A_MANO}]
        /\ rowPayment' \in [Row -> Payment \cup {SIN_PAGO}]
        /\ rowCents' \in [Row -> Nat]
        /\ raced' \in SUBSET Payment
    BY <2>1, RegistrationTypes
  <2> QED BY <1>3, <1>4, <2>2, <2>3 DEF AskedFits, LedgerTypeOK
<1> QED BY <1>5, <1>6

\* A return asks for lines that did not come back before.
LEMMA ReturnKeepsBalance ==
  ASSUME LedgerTypeOK, AskedFits, NEW cents \in 0..Subtotal, ReceiveReturned(cents)
  PROVE  LedgerTypeOK' /\ AskedFits'
<1>1. /\ stage = ENTREGADO /\ stage' = stage /\ returned + cents <= Subtotal
      /\ returned' = returned + cents /\ UNCHANGED <<approvals, retrying>>
      /\ RequestRefundOf(Payment, cents)
  BY DEF ReceiveReturned
<1>2. cents \in Nat /\ returned \in Nat /\ returned + cents <= Total /\ Subtotal \in Nat
  BY <1>1, LedgerAssumption DEF LedgerTypeOK
<1>3. /\ RowsHavePayments' /\ ExactFits'
      /\ \E q \in Payment : /\ \E i \in DOMAIN approvals : Credits(q, i)'
                            /\ AskedOf(q)' <= returned + cents
  BY <1>1, <1>2, RequestKeeps
<1>4. CreditedFits'
  BY <1>1, <1>3 DEF CreditedFits
<1>5. NoneCredits' /\ ReturnsAfterDelivery'
  BY <1>1, StageNames DEF NoneCredits, ReturnsAfterDelivery
<1>6. /\ rowStatus' \in [Row -> RefundStatuses \cup {REGISTRANDO, RESUELTO_A_MANO}]
      /\ rowPayment' \in [Row -> Payment \cup {SIN_PAGO}]
      /\ rowCents' \in [Row -> Nat]
      /\ raced' \in SUBSET Payment
  BY <1>1, <1>2, RegistrationTypes
<1>7. stage' \in LedgerStages /\ approvals' \in Seq(Payment) /\ returned' \in 0..Subtotal
      /\ retrying' \in SUBSET Row
  BY <1>1, <1>2 DEF LedgerTypeOK
<1> QED BY <1>3, <1>4, <1>5, <1>6, <1>7 DEF AskedFits, LedgerTypeOK

\* What is asked does not change when rows that are there change their state, or
\* the order moves on after its payment.
LEMMA SameAskedKeeps ==
  ASSUME LedgerTypeOK, AskedFits,
         UNCHANGED <<approvals, returned, rowPayment, rowCents>>,
         \A r \in Row : rowStatus'[r] = SIN_REGISTRO <=> rowStatus[r] = SIN_REGISTRO,
         \/ stage' = stage
         \/ stage = PAGADO /\ stage' = DESPACHADO
         \/ stage = DESPACHADO /\ stage' = ENTREGADO
  PROVE  AskedFits'
<1>1. \A p : RowsOf(p)' = RowsOf(p)
  BY DEF RowsOf
<1>2. \A p : AskedOf(p)' = AskedOf(p)
  BY <1>1 DEF AskedOf
<1>3. RowsHavePayments'
  BY DEF AskedFits, RowsHavePayments
<1>4. ExactFits'
  BY <1>1, <1>2 DEF AskedFits, ExactFits, IsApproved, Exact
<1>5. CreditedFits'
  <2>1. \A q, i : Credits(q, i)' <=> Credits(q, i)
    BY DEF Credits, Exact
  <2>2. stage' \in {PAGADO, DESPACHADO, ENTREGADO} => stage \in {PAGADO, DESPACHADO, ENTREGADO}
    OBVIOUS
  <2> QED BY <1>2, <2>1, <2>2 DEF AskedFits, CreditedFits
<1>6. NoneCredits' /\ ReturnsAfterDelivery'
  BY StageNames DEF AskedFits, NoneCredits, ReturnsAfterDelivery, IsApproved, Exact
<1> QED BY <1>3, <1>4, <1>5, <1>6 DEF AskedFits

-----------------------------------------------------------------------------
(***************************************************************************)
(* What the refunds hold.                                                  *)
(***************************************************************************)

\* While the rows that hold something hold it or let it go.
LEMMA HoldingShrinks ==
  ASSUME LedgerTypeOK, HeldFits, UNCHANGED <<rowPayment, rowCents>>,
         raced \subseteq raced',
         \A r \in retrying' : rowStatus'[r] = RECHAZADO,
         \A p \in Payment \ raced' : Holding(p)' \subseteq Holding(p)
  PROVE  HeldFits'
<1> SUFFICES ASSUME NEW p \in Payment \ raced'
             PROVE  SumOver(rowCents', Holding(p)') <= Amount[p]
  BY DEF HeldFits
<1>1. Holding(p) \in SUBSET Row /\ Holding(p)' \in SUBSET Holding(p)
  BY DEF Holding, RowsOf
<1>2. /\ SumOver(rowCents, Holding(p)) \in Nat /\ SumOver(rowCents, Holding(p)') \in Nat
      /\ SumOver(rowCents, Holding(p)') <= SumOver(rowCents, Holding(p))
  BY <1>1, RowSums
<1>3. SumOver(rowCents, Holding(p)) <= Amount[p] /\ Amount[p] \in Nat
  BY LedgerAssumption DEF HeldFits
<1>4. rowCents' = rowCents
  OBVIOUS
<1> QED BY <1>2, <1>3, <1>4

\* With nobody else entering, what is held is committed.
LEMMA HeldIsCommitted ==
  ASSUME LedgerTypeOK, NEW p, Entering(p) = {}
  PROVE  Holding(p) \subseteq Committed(p) /\ Committed(p) \subseteq Row
BY DEF Holding, Committed, Entering, RowsOf, COMMITTED_REFUND_STATUSES

\* A row that is written holds what nobody else was entering.
LEMMA WrittenIsHeld ==
  ASSUME LedgerTypeOK, HeldFits, NEW r \in Row, NEW p \in Payment, NEW amount \in Nat,
         rowStatus[r] = SIN_REGISTRO, Write(r, p, amount), UNCHANGED retrying,
         RefundableCents(p, Committed(p)) >= amount
  PROVE  HeldFits'
<1>1. /\ rowStatus'[r] = REGISTRANDO /\ rowPayment'[r] = p
      /\ \A x \in Row \ {r} : rowStatus'[x] = rowStatus[x] /\ rowPayment'[x] = rowPayment[x]
      /\ r \notin retrying
  BY StatusNames DEF LedgerTypeOK, Write, HeldFits
<1>2. \A x \in retrying' : rowStatus'[x] = RECHAZADO
  BY <1>1 DEF HeldFits, LedgerTypeOK
<1>3. \A o \in Payment : Holding(o) \in SUBSET (Row \ {r})
  BY StatusNames DEF Holding, RowsOf
<1>4. ASSUME NEW o \in Payment \ raced', o # p
      PROVE  SumOver(rowCents, Holding(o))' <= Amount[o]
  <2>1. Holding(o)' = Holding(o)
    BY <1>1, <1>4, StatusNames DEF Holding, RowsOf
  <2>2. SumOver(rowCents', Holding(o)) = SumOver(rowCents, Holding(o))
    BY <1>3, WriteAdds
  <2>3. o \in Payment \ raced
    BY DEF Write, NotesRace
  <2> QED BY <2>1, <2>2, <2>3 DEF HeldFits
<1>5. ASSUME p \notin raced'
      PROVE  SumOver(rowCents, Holding(p))' <= Amount[p]
  <2>1. Entering(p) = {}
    BY <1>5 DEF Write, NotesRace
  <2>2. Holding(p) \in SUBSET Committed(p) /\ Committed(p) \in SUBSET Row
    BY <2>1, HeldIsCommitted
  <2>3. /\ SumOver(rowCents, Holding(p)) \in Nat /\ SumOver(rowCents, Committed(p)) \in Nat
        /\ SumOver(rowCents, Holding(p)) <= SumOver(rowCents, Committed(p))
    BY <2>2, RowSums
  <2>4. Holding(p)' = Holding(p) \cup {r}
    BY <1>1, StatusNames DEF Holding, RowsOf
  <2>5. SumOver(rowCents', Holding(p) \cup {r}) = SumOver(rowCents, Holding(p)) + amount
    BY <1>3, WriteAdds
  <2> QED BY <2>3, <2>4, <2>5, LedgerAssumption DEF RefundableCents
<1>6. \A o \in Payment \ raced' : SumOver(rowCents, Holding(o))' <= Amount[o]
  BY <1>4, <1>5
<1> QED BY <1>2, <1>6 DEF HeldFits

\* Without a new row nothing more is held.
LEMMA NothingMoreIsHeld ==
  ASSUME HeldFits, NoRefund, UNCHANGED retrying
  PROVE  HeldFits'
<1>1. rowStatus' = rowStatus /\ rowPayment' = rowPayment /\ rowCents' = rowCents /\ raced' = raced
  BY DEF NoRefund, rowsVars
<1> QED BY <1>1 DEF HeldFits, Holding, RowsOf

\* So does every registration.
LEMMA RegisteredIsHeld ==
  ASSUME LedgerTypeOK, HeldFits, NEW candidates, candidates \subseteq Payment,
         NEW amount \in Nat, RequestRefundOf(candidates, amount), UNCHANGED retrying
  PROVE  HeldFits'
<1>1. CASE NoRefund
  BY <1>1, NothingMoreIsHeld
<1>2. ASSUME NEW r \in Row, NEW i \in DOMAIN approvals', Asked(candidates, amount, r, i)
      PROVE  HeldFits'
  <2>1. PICK p \in Payment : p = approvals'[i]
    BY <1>2 DEF Asked
  <2> QED BY <1>2, <2>1, WrittenIsHeld DEF Asked
<1> QED BY <1>1, <1>2, RegistrationWrites

\* A retry holds again what its row had let go, if it fits.
LEMMA RetriedIsHeld ==
  ASSUME LedgerTypeOK, AskedFits, HeldFits, NEW r \in Row, RetryReads(r)
  PROVE  HeldFits'
<1>1. PICK p \in Payment : rowPayment[r] = p
  BY StatusNames DEF RetryReads, AskedFits, RowsHavePayments
<1>2. /\ rowStatus[r] = RECHAZADO /\ r \notin retrying /\ FitsInBalance(r)
      /\ retrying' = retrying \cup {r} /\ NotesRace(p)
      /\ rowStatus' = rowStatus /\ rowPayment' = rowPayment /\ rowCents' = rowCents
  BY <1>1 DEF RetryReads, rowsVars
<1>3. \A x \in retrying' : rowStatus'[x] = RECHAZADO
  BY <1>2 DEF HeldFits
<1>4. ASSUME NEW o \in Payment \ raced', o # p
      PROVE  SumOver(rowCents, Holding(o))' <= Amount[o]
  <2>1. Holding(o)' = Holding(o)
    BY <1>1, <1>2, <1>4 DEF Holding, RowsOf
  <2>2. o \in Payment \ raced
    BY <1>2 DEF NotesRace
  <2> QED BY <1>2, <2>1, <2>2 DEF HeldFits
<1>5. ASSUME p \notin raced'
      PROVE  SumOver(rowCents, Holding(p))' <= Amount[p]
  <2>1. Entering(p) = {}
    BY <1>2, <1>5 DEF NotesRace
  <2>2. r \notin Holding(p) /\ r \notin Committed(p)
    BY <1>2, StatusNames DEF Holding, Committed, COMMITTED_REFUND_STATUSES
  <2>3. Holding(p) \in SUBSET Committed(p) /\ Committed(p) \in SUBSET Row
    BY <2>1, HeldIsCommitted
  <2>4. /\ SumOver(rowCents, Holding(p)) \in Nat /\ SumOver(rowCents, Committed(p)) \in Nat
        /\ SumOver(rowCents, Holding(p)) <= SumOver(rowCents, Committed(p))
    BY <2>3, RowSums
  <2>5. Holding(p)' = Holding(p) \cup {r}
    BY <1>1, <1>2, StatusNames DEF Holding, RowsOf
  <2>6. SumOver(rowCents, Holding(p) \cup {r}) = SumOver(rowCents, Holding(p)) + rowCents[r]
    <3>1. Holding(p) \in SUBSET Row
      BY <2>3
    <3> QED BY <2>2, <3>1, OneMoreRow
  <2>7. Committed(p) \ {r} = Committed(p)
    BY <2>2
  <2>8. Amount[p] - SumOver(rowCents, Committed(p)) >= rowCents[r]
    BY <1>1, <1>2, <2>7 DEF FitsInBalance, RefundableCents
  <2>9. rowCents[r] \in Nat /\ Amount[p] \in Nat
    BY LedgerAssumption DEF LedgerTypeOK
  <2> QED BY <1>2, <2>4, <2>5, <2>6, <2>8, <2>9
<1>6. \A o \in Payment \ raced' : SumOver(rowCents, Holding(o))' <= Amount[o]
  BY <1>4, <1>5
<1> QED BY <1>3, <1>6 DEF HeldFits

-----------------------------------------------------------------------------
(***************************************************************************)
(* Every step.                                                             *)
(***************************************************************************)

\* A row moves from one state to another, both of a row that is there.
LEMMA RowMoves ==
  ASSUME LedgerInv, NEW r \in Row, NEW to, BecomesStatus(r, to),
         rowStatus[r] # SIN_REGISTRO,
         to \in RefundStatuses \cup {RESUELTO_A_MANO}, to # SIN_REGISTRO,
         retrying' \subseteq retrying, r \notin retrying',
         r \in retrying \/ rowStatus[r] \in {REGISTRANDO, EN_TRAMITE, PENDIENTE_DE_GESTION}
           \/ to = RESUELTO_A_MANO
  PROVE  LedgerInv'
<1>1. /\ rowStatus' = [rowStatus EXCEPT ![r] = to]
      /\ UNCHANGED <<stage, approvals, returned, rowPayment, rowCents, raced>>
  BY DEF BecomesStatus
<1>2. LedgerTypeOK'
  BY <1>1 DEF LedgerInv, LedgerTypeOK
<1>3. rowStatus'[r] = to /\ \A x \in Row \ {r} : rowStatus'[x] = rowStatus[x]
  BY <1>1 DEF LedgerInv, LedgerTypeOK
<1>4. AskedFits'
  BY <1>1, <1>3, SameAskedKeeps DEF LedgerInv
<1>5. \A x \in retrying' : rowStatus'[x] = RECHAZADO
  BY <1>3 DEF LedgerInv, LedgerTypeOK, HeldFits
<1>6. \A p \in Payment : Holding(p)' \subseteq Holding(p)
  BY <1>1, <1>3, StatusNames DEF Holding, RowsOf
<1>7. HeldFits'
  BY <1>1, <1>5, <1>6, HoldingShrinks DEF LedgerInv
<1> QED BY <1>2, <1>4, <1>7 DEF LedgerInv

\* The order moves on, or nothing does.
LEMMA LedgerStutters ==
  ASSUME LedgerInv, UNCHANGED <<approvals, returned, rowsVars, retrying, raced>>,
         \/ stage' = stage
         \/ stage = PAGADO /\ stage' = DESPACHADO
         \/ stage = DESPACHADO /\ stage' = ENTREGADO
  PROVE  LedgerInv'
<1>1. rowStatus' = rowStatus /\ rowPayment' = rowPayment /\ rowCents' = rowCents
  BY DEF rowsVars
<1>2. LedgerTypeOK'
  BY <1>1, StageNames DEF LedgerInv, LedgerTypeOK
<1>3. AskedFits'
  BY <1>1, SameAskedKeeps DEF LedgerInv
<1>4. HeldFits'
  BY <1>1 DEF LedgerInv, HeldFits, Holding, RowsOf
<1> QED BY <1>2, <1>3, <1>4 DEF LedgerInv

\* Every step of the ledger keeps the invariant.
LEMMA LedgerStep == LedgerInv /\ [LedgerNext]_ledgerVars => LedgerInv'
<1> SUFFICES ASSUME LedgerInv, [LedgerNext]_ledgerVars PROVE LedgerInv'
  OBVIOUS
<1>0. LedgerTypeOK /\ AskedFits /\ HeldFits
  BY DEF LedgerInv
<1>1. ASSUME NEW p \in Payment, ApprovePayment(p) PROVE LedgerInv'
  <2>1. LedgerTypeOK' /\ AskedFits'
    BY <1>0, <1>1, ApprovalKeeps
  <2>2. {p} \subseteq Payment /\ Amount[p] \in Nat /\ retrying' = retrying
    BY <1>1, LedgerAssumption DEF ApprovePayment
  <2>3. ASSUME NoRefund PROVE HeldFits'
    BY <1>0, <2>2, <2>3, NothingMoreIsHeld
  <2>4. ASSUME RequestRefundOf({p}, Amount[p]) PROVE HeldFits'
    BY <1>0, <2>2, <2>4, RegisteredIsHeld
  <2>5. NoRefund \/ RequestRefundOf({p}, Amount[p])
    BY <1>1 DEF ApprovePayment
  <2>6. HeldFits'
    BY <2>3, <2>4, <2>5
  <2> QED BY <2>1, <2>6 DEF LedgerInv
<1>2. CASE CancelOrder
  <2>1. LedgerTypeOK' /\ AskedFits'
    BY <1>0, <1>2, CancellationKeeps
  <2>2. retrying' = retrying /\ Subtotal \in Nat /\ Total \in Nat /\ Payment \subseteq Payment
    BY <1>2, LedgerAssumption DEF CancelOrder
  <2>3. ASSUME NoRefund PROVE HeldFits'
    BY <1>0, <2>2, <2>3, NothingMoreIsHeld
  <2>4. ASSUME NEW amount \in Nat, RequestRefundOf(Payment, amount) PROVE HeldFits'
    BY <1>0, <2>2, <2>4, RegisteredIsHeld
  <2>5. NoRefund \/ \E amount \in Nat : RequestRefundOf(Payment, amount)
    BY <1>2, <2>2 DEF CancelOrder
  <2>6. HeldFits'
    BY <2>3, <2>4, <2>5
  <2> QED BY <2>1, <2>6 DEF LedgerInv
<1>3. CASE MovesOn
  BY <1>3, LedgerStutters DEF MovesOn
<1>4. ASSUME NEW cents \in 0..Subtotal, ReceiveReturned(cents) PROVE LedgerInv'
  <2>1. LedgerTypeOK' /\ AskedFits'
    BY <1>0, <1>4, ReturnKeepsBalance
  <2>2. HeldFits'
    BY <1>0, <1>4, RegisteredIsHeld, LedgerAssumption DEF ReceiveReturned
  <2> QED BY <2>1, <2>2 DEF LedgerInv
<1>5. ASSUME NEW r \in Row, Registers(r) PROVE LedgerInv'
  <2>1. BecomesStatus(r, EN_TRAMITE) /\ retrying' = retrying /\ r \notin retrying
    BY <1>0, <1>5, StatusNames DEF Registers, BecomesStatus, HeldFits
  <2> QED BY <1>5, <2>1, RowMoves, StatusNames DEF Registers, RefundStatuses
<1>6. ASSUME NEW r \in Row, RefundEnds(r) PROVE LedgerInv'
  <2>1. PICK to \in {REEMBOLSADO, RECHAZADO, PENDIENTE_DE_GESTION} : BecomesStatus(r, to)
    BY <1>6 DEF RefundEnds
  <2>2. rowStatus[r] = EN_TRAMITE /\ retrying' = retrying /\ r \notin retrying
    BY <1>0, <1>6, StatusNames DEF RefundEnds, HeldFits
  <2> QED BY <2>1, <2>2, RowMoves, StatusNames DEF RefundStatuses, REFUND_NEEDS_ATTENTION
<1>7. ASSUME NEW r \in Row, ResolvedByHand(r) PROVE LedgerInv'
  BY <1>7, RowMoves, StatusNames DEF ResolvedByHand, REFUND_NEEDS_ATTENTION
<1>8. ASSUME NEW r \in Row, RetryUnanswered(r) PROVE LedgerInv'
  <2>1. r \notin retrying
    BY <1>0, <1>8, StatusNames DEF RetryUnanswered, HeldFits
  <2> QED BY <1>8, <2>1, RowMoves, StatusNames DEF RetryUnanswered, RefundStatuses
<1>9. ASSUME NEW r \in Row, RetryReads(r) PROVE LedgerInv'
  <2>1. HeldFits'
    BY <1>0, <1>9, RetriedIsHeld
  <2>2. /\ UNCHANGED <<stage, approvals, returned>>
        /\ rowStatus' = rowStatus /\ rowPayment' = rowPayment /\ rowCents' = rowCents
        /\ retrying' = retrying \cup {r} /\ NotesRace(rowPayment[r])
    BY <1>9 DEF RetryReads, rowsVars
  <2>3. AskedFits'
    BY <1>0, <2>2, SameAskedKeeps
  <2>4. rowPayment[r] \in Payment
    BY <1>0, <1>9, StatusNames DEF RetryReads, AskedFits, RowsHavePayments
  <2>5. LedgerTypeOK'
    BY <1>0, <2>2, <2>4 DEF LedgerTypeOK, NotesRace
  <2> QED BY <2>1, <2>3, <2>5 DEF LedgerInv
<1>10. ASSUME NEW r \in Row, RetrySaves(r) PROVE LedgerInv'
  <2>1. rowStatus[r] = RECHAZADO /\ r \in retrying
    BY <1>0, <1>10 DEF RetrySaves, HeldFits
  <2> QED BY <1>10, <2>1, RowMoves, StatusNames DEF RetrySaves, RefundStatuses
<1>11. CASE UNCHANGED ledgerVars
  BY <1>11, LedgerStutters DEF ledgerVars
<1> QED BY <1>1, <1>2, <1>3, <1>4, <1>5, <1>6, <1>7, <1>8, <1>9, <1>10, <1>11 DEF LedgerNext

\* The invariant holds in every reachable state.
LEMMA LedgerInvHolds == LedgerSpec => []LedgerInv
<1>1. LedgerInit => LedgerInv
  <2> SUFFICES ASSUME LedgerInit PROVE LedgerInv
    OBVIOUS
  <2>1. LedgerTypeOK /\ AskedFits
    BY LedgerStart
  <2>2. retrying = {} /\ \A p \in Payment : Holding(p) = {} /\ Amount[p] \in Nat
    BY LedgerAssumption DEF LedgerInit, Holding, RowsOf
  <2>3. HeldFits
    BY <2>2, SumEmpty DEF HeldFits
  <2> QED BY <2>1, <2>3 DEF LedgerInv
<1> QED BY <1>1, LedgerStep, PTL DEF LedgerSpec

\* Whatever is asked of the payments of an order, in whatever order the refunds
\* are refused, retried and registered, no payment of its amount is overdrawn,
\* and another one only by two refunds that entered its balance at once
\* (payment-ledger.service.ts:100-116, refunds.service.ts:182-188).
THEOREM BalanceAlwaysHolds == LedgerSpec => []BalanceHolds
<1>1. LedgerInv => BalanceHolds
  <2> SUFFICES ASSUME LedgerInv PROVE BalanceHolds
    OBVIOUS
  <2>0. LedgerTypeOK /\ AskedFits /\ HeldFits /\ \A p \in Payment : Amount[p] \in Nat
    BY LedgerAssumption DEF LedgerInv
  <2>1. \A p : Committed(p) \in SUBSET RowsOf(p) /\ RowsOf(p) \in SUBSET Row
    BY DEF Committed, RowsOf
  <2>2. ExactIsNeverOverdrawn
    <3> SUFFICES ASSUME NEW p \in Payment, Exact(p)
                 PROVE  SumOver(rowCents, Committed(p)) <= Amount[p]
      BY DEF ExactIsNeverOverdrawn
    <3>1. /\ SumOver(rowCents, Committed(p)) \in Nat /\ AskedOf(p) \in Nat
          /\ SumOver(rowCents, Committed(p)) <= AskedOf(p)
      BY <2>0, <2>1, RowSums DEF AskedOf
    <3> QED BY <2>0, <3>1 DEF AskedFits, ExactFits
  <2>3. ExactRetriesFit
    <3> SUFFICES ASSUME NEW r \in Row, rowStatus[r] = RECHAZADO, Exact(rowPayment[r])
                 PROVE  FitsInBalance(r)
      BY DEF ExactRetriesFit
    <3>1. PICK p \in Payment : p = rowPayment[r]
      BY <2>0, StatusNames DEF AskedFits, RowsHavePayments
    <3>2. r \notin Committed(p) /\ r \in RowsOf(p) /\ Committed(p) \ {r} = Committed(p)
      BY <3>1, StatusNames DEF Committed, RowsOf, COMMITTED_REFUND_STATUSES
    <3>3. Committed(p) \cup {r} \in SUBSET RowsOf(p) /\ Committed(p) \in SUBSET Row
      BY <2>1, <3>2
    <3>4. SumOver(rowCents, Committed(p) \cup {r}) = SumOver(rowCents, Committed(p)) + rowCents[r]
      BY <2>0, <3>2, <3>3, OneMoreRow
    <3>5. /\ SumOver(rowCents, Committed(p) \cup {r}) <= AskedOf(p)
          /\ SumOver(rowCents, Committed(p)) \in Nat /\ AskedOf(p) \in Nat
      BY <2>0, <2>1, <3>3, RowSums DEF AskedOf
    <3>6. AskedOf(p) <= Amount[p] /\ Amount[p] \in Nat /\ rowCents[r] \in Nat
      BY <2>0, <3>1 DEF AskedFits, ExactFits, LedgerTypeOK
    <3>7. Amount[p] - SumOver(rowCents, Committed(p)) >= rowCents[r]
      BY <3>4, <3>5, <3>6
    <3> QED BY <3>1, <3>2, <3>7 DEF FitsInBalance, RefundableCents
  <2>4. OthersOverdrawnOnlyByRace
    <3> SUFFICES ASSUME NEW p \in Payment \ raced,
                        NEW given, given = { r \in Committed(p) : rowStatus[r] # RESUELTO_A_MANO }
                 PROVE  SumOver(rowCents, given) <= Amount[p]
      BY DEF OthersOverdrawnOnlyByRace
    <3>1. given \in SUBSET Holding(p) /\ Holding(p) \in SUBSET Row
      BY DEF Committed, Holding, RowsOf, COMMITTED_REFUND_STATUSES
    <3>2. /\ SumOver(rowCents, given) \in Nat /\ SumOver(rowCents, Holding(p)) \in Nat
          /\ SumOver(rowCents, given) <= SumOver(rowCents, Holding(p))
      BY <2>0, <3>1, RowSums
    <3> QED BY <2>0, <3>2 DEF HeldFits
  <2> QED BY <2>2, <2>3, <2>4 DEF BalanceHolds
<1> QED BY <1>1, LedgerInvHolds, PTL
=============================================================================
