----------------------------- MODULE RefundStatus -----------------------------
(***************************************************************************)
(* The states of a refund (payments/entities/refund.entity.ts).            *)
(***************************************************************************)

EN_TRAMITE           == "en_tramite"
REEMBOLSADO          == "reembolsado"
RECHAZADO            == "rechazado"
PENDIENTE_DE_GESTION == "pendiente_de_gestion"

\* The refund has no row yet.
SIN_REGISTRO == "sin_registro"

REFUND_NEEDS_ATTENTION == { RECHAZADO, PENDIENTE_DE_GESTION }

RefundStatuses ==
  REFUND_NEEDS_ATTENTION \cup { EN_TRAMITE, REEMBOLSADO, SIN_REGISTRO }
=============================================================================
