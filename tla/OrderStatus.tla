---------------------------- MODULE OrderStatus ----------------------------
(***************************************************************************)
(* The nine states of an order, the causes of a cancellation and the       *)
(* transition graph that every change of state is validated against        *)
(* (orders/order-status.ts), with the sets of states that the policies of  *)
(* the customer and of the administrator are written in                    *)
(* (orders/order-policies.ts).                                             *)
(***************************************************************************)

PENDIENTE_PAGO              == "pendiente_pago"
PAGO_PENDIENTE_ACREDITACION == "pago_pendiente_acreditacion"
PAGO_RECHAZADO              == "pago_rechazado"
PAGADO                      == "pagado"
EN_PREPARACION              == "en_preparacion"
DESPACHADO                  == "despachado"
ENTREGADO                   == "entregado"
CANCELADO                   == "cancelado"
DEVUELTO                    == "devuelto"

OrderStatuses ==
  { PENDIENTE_PAGO, PAGO_PENDIENTE_ACREDITACION, PAGO_RECHAZADO, PAGADO,
    EN_PREPARACION, DESPACHADO, ENTREGADO, CANCELADO, DEVUELTO }

\* The order has not been created yet: there is no row for it.
SIN_ALTA == "sin_alta"

RESERVA_VENCIDA == "reserva_vencida"
PASARELA        == "pasarela"
CLIENTE         == "cliente"
ADMINISTRADOR   == "administrador"

CancellationCauses == { RESERVA_VENCIDA, PASARELA, CLIENTE, ADMINISTRADOR }

\* cancellationCause is NULL in every state but CANCELADO.
SIN_CAUSA == "sin_causa"

TRANSITIONS ==
  [ s \in OrderStatuses |->
      CASE s = PENDIENTE_PAGO ->
             { PAGO_PENDIENTE_ACREDITACION, PAGO_RECHAZADO, PAGADO, CANCELADO }
        [] s = PAGO_PENDIENTE_ACREDITACION ->
             { PAGADO, PAGO_RECHAZADO, CANCELADO }
        [] s = PAGO_RECHAZADO ->
             { PENDIENTE_PAGO, PAGO_PENDIENTE_ACREDITACION, PAGADO, CANCELADO }
        [] s = PAGADO         -> { EN_PREPARACION, CANCELADO }
        [] s = EN_PREPARACION -> { DESPACHADO, CANCELADO }
        [] s = DESPACHADO     -> { ENTREGADO, CANCELADO }
        [] s = ENTREGADO      -> { DEVUELTO }
        [] s = CANCELADO      -> { PAGADO }
        [] s = DEVUELTO       -> {} ]

CanTransition(from, to) == from \in OrderStatuses /\ to \in TRANSITIONS[from]

AWAITING_PAYMENT_STATUSES ==
  { PENDIENTE_PAGO, PAGO_PENDIENTE_ACREDITACION, PAGO_RECHAZADO }

PAID_STATUSES == { PAGADO, EN_PREPARACION, DESPACHADO, ENTREGADO, DEVUELTO }

CUSTOMER_CANCELLABLE_STATUSES ==
  AWAITING_PAYMENT_STATUSES \cup { PAGADO, EN_PREPARACION }

RETRYABLE_PAYMENT_STATUSES == { PENDIENTE_PAGO, PAGO_RECHAZADO }

ADMIN_TRANSITIONS ==
  { <<PAGADO, EN_PREPARACION>>, <<EN_PREPARACION, DESPACHADO>>,
    <<DESPACHADO, ENTREGADO>> }

ADMIN_NON_CANCELLABLE_STATUSES == { ENTREGADO, CANCELADO, DEVUELTO }
=============================================================================
