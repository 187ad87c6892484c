--------------------------- MODULE PaymentsProofs ---------------------------
(***************************************************************************)
(* Proofs about Orders and Payments, for every finite set of orders, every *)
(* stock, set of variants and quantities, and every set of payments and    *)
(* amounts.  First the orders and the inventory they implement; then the   *)
(* payments: the orders keep what was shown of them, and the refund of a   *)
(* cancellation always finds the payment that stands for the order.        *)
(***************************************************************************)
EXTENDS Payments, OrdersInventory, SumsProofs

-----------------------------------------------------------------------------
(***************************************************************************)
(* Counting units.                                                         *)
(***************************************************************************)

\* A line is a natural number of units, of at most MaxQty.
LEMMA LinesType ==
  ASSUME NEW o \in Order, NEW v \in Variant
  PROVE  Lines[o][v] \in Nat /\ Lines[o][v] <= MaxQty
<1>1. Lines[o] \in [Variant -> 0..MaxQty] /\ MaxQty \in Nat
  BY OrdersAssumption
<1> QED BY <1>1

\* Any set of orders asks for finitely many units.
LEMMA UnitsFinite ==
  ASSUME NEW S, NEW v
  PROVE  IsFiniteSet(UnitsOf(S, v)) /\ Cardinality(UnitsOf(S, v)) \in Nat
<1>1. IsFiniteSet(Order) /\ IsFiniteSet(1..MaxQty)
  BY OrdersAssumption, FS_Interval
<1>2. IsFiniteSet(Order \X (1..MaxQty))
  BY <1>1, FS_Product
<1>3. UnitsOf(S, v) \in SUBSET (Order \X (1..MaxQty))
  BY DEF UnitsOf
<1>4. IsFiniteSet(UnitsOf(S, v))
  BY <1>2, <1>3, FS_Subset
<1> QED BY <1>4, FS_CardinalityType

\* One order asks for the quantity of its line.
LEMMA UnitsOfOne ==
  ASSUME NEW o \in Order, NEW v \in Variant
  PROVE  Cardinality(UnitsOf({o}, v)) = Lines[o][v]
<1>0. PICK q : q = Lines[o][v]
  OBVIOUS
<1>1. q \in Nat /\ q <= MaxQty /\ MaxQty \in Nat
  BY <1>0, LinesType, OrdersAssumption
<1>2. UnitsOf({o}, v) = {o} \X (1..q)
  <2>1. ASSUME NEW k \in Int
        PROVE  <<o, k>> \in UnitsOf({o}, v) <=> k \in 1..q
    BY <1>0, <1>1 DEF UnitsOf
  <2>2. \A u \in UnitsOf({o}, v) : u = <<o, u[2]>> /\ u[2] \in Int
    BY <1>1 DEF UnitsOf
  <2>3. \A u \in {o} \X (1..q) : u = <<o, u[2]>> /\ u[2] \in Int
    BY <1>1
  <2>4. UnitsOf({o}, v) \subseteq {o} \X (1..q)
    BY <2>1, <2>2
  <2>5. {o} \X (1..q) \subseteq UnitsOf({o}, v)
    BY <2>1, <2>3
  <2> QED BY <2>4, <2>5
<1>3. IsFiniteSet(1..q) /\ Cardinality(1..q) = q
  BY <1>1, FS_Interval
<1>4. IsFiniteSet({o}) /\ Cardinality({o}) = 1
  BY FS_Singleton
<1>5. Cardinality({o} \X (1..q)) = 1 * q
  BY <1>3, <1>4, FS_Product
<1>6. 1 * q = q
  BY <1>1
<1> QED BY <1>0, <1>2, <1>5, <1>6

\* One more order in the set adds the quantity of its line.
LEMMA UnitsAdd ==
  ASSUME NEW S, NEW o \in Order, o \notin S, NEW v \in Variant
  PROVE  Cardinality(UnitsOf(S \cup {o}, v)) =
           Cardinality(UnitsOf(S, v)) + Lines[o][v]
<1>1. UnitsOf(S \cup {o}, v) = UnitsOf(S, v) \cup UnitsOf({o}, v)
  BY DEF UnitsOf
<1>2. UnitsOf(S, v) \cap UnitsOf({o}, v) = {}
  BY DEF UnitsOf
<1>3. IsFiniteSet(UnitsOf(S, v)) /\ IsFiniteSet(UnitsOf({o}, v))
  BY UnitsFinite
<1>4. Cardinality(UnitsOf(S, v) \cup UnitsOf({o}, v)) =
        Cardinality(UnitsOf(S, v)) + Cardinality(UnitsOf({o}, v)) - Cardinality({})
  BY <1>2, <1>3, FS_Union
<1>5. Cardinality({}) = 0
  BY FS_EmptySet
<1>6. Cardinality(UnitsOf(S, v)) \in Nat /\ Lines[o][v] \in Nat
  BY UnitsFinite, LinesType
<1>7. Cardinality(UnitsOf({o}, v)) = Lines[o][v]
  BY UnitsOfOne
<1>8. Cardinality(UnitsOf(S \cup {o}, v)) =
        Cardinality(UnitsOf(S, v)) + Lines[o][v] - 0
  BY <1>1, <1>4, <1>5, <1>7, Zenon
<1> QED BY <1>6, <1>8

\* One order less takes it away.
LEMMA UnitsRemove ==
  ASSUME NEW S, NEW o \in Order, o \in S, NEW v \in Variant
  PROVE  Cardinality(UnitsOf(S, v)) =
           Cardinality(UnitsOf(S \ {o}, v)) + Lines[o][v]
<1>1. S = (S \ {o}) \cup {o}
  OBVIOUS
<1> QED BY <1>1, UnitsAdd

-----------------------------------------------------------------------------
(***************************************************************************)
(* The inductive invariant.                                                *)
(***************************************************************************)

IInv ==
  /\ TypeOK
  /\ ReservedIsHeld
  /\ NoOversell
  /\ StockConserved
  /\ ReservationFollowsStatus
  /\ CommittedFollowsStatus
  /\ PaidAtFollowsStatus

\* Before the first order there is nothing reserved, sold or paid.
LEMMA InitIInv == Init => IInv
<1> SUFFICES ASSUME Init PROVE IInv
  OBVIOUS
<1>1. TypeOK
  BY OrdersAssumption DEF Init, TypeOK, StockTypeOK, OrderTypeOK
<1>2. \A v \in Variant : InitialStock[v] \in Nat
  BY OrdersAssumption
<1>3. \A v : UnitsOf({}, v) = {}
  BY DEF UnitsOf
<1>4. Cardinality({}) = 0
  BY FS_EmptySet
<1>5. HoldingOrders = {} /\ \A v : OrdersWith(v) = {}
  BY DEF Init, HoldingOrders, OrdersWith
<1>6. ReservedIsHeld
  BY <1>3, <1>4, <1>5 DEF Init, ReservedIsHeld
<1>7. StockConserved
  <2>1. \A v : Cardinality(UnitsOf(OrdersWith(v), v)) = 0
    BY <1>3, <1>4, <1>5
  <2> QED BY <1>2, <2>1 DEF Init, StockConserved
<1>8. NoOversell
  BY <1>2 DEF Init, NoOversell
<1>9. ReservationFollowsStatus /\ CommittedFollowsStatus /\ PaidAtFollowsStatus
  BY DEF Init, ReservationFollowsStatus, CommittedFollowsStatus,
         PaidAtFollowsStatus, SIN_ALTA, PENDIENTE_PAGO, PAID_STATUSES, PAGADO,
         EN_PREPARACION, DESPACHADO, ENTREGADO, DEVUELTO, CANCELADO
<1> QED BY <1>1, <1>6, <1>7, <1>8, <1>9 DEF IInv

-----------------------------------------------------------------------------
(***************************************************************************)
(* What each movement of stock does to the two counters.                   *)
(***************************************************************************)

\* What an order holds is part of what is reserved.
LEMMA HeldIsReserved ==
  ASSUME IInv, NEW o \in Order, reservationActive[o], NEW v \in Variant
  PROVE  stockReserved[v] >= Lines[o][v]
<1>1. o \in HoldingOrders
  BY DEF HoldingOrders
<1>2. Cardinality(UnitsOf(HoldingOrders, v)) =
        Cardinality(UnitsOf(HoldingOrders \ {o}, v)) + Lines[o][v]
  BY <1>1, UnitsRemove
<1>3. Cardinality(UnitsOf(HoldingOrders \ {o}, v)) \in Nat /\ Lines[o][v] \in Nat
  BY UnitsFinite, LinesType
<1>4. stockReserved[v] = Cardinality(UnitsOf(HoldingOrders, v))
  BY DEF IInv, ReservedIsHeld
<1> QED BY <1>2, <1>3, <1>4

\* Setting the flag of an order moves it in or out of the holding orders.
LEMMA HoldingOrdersAfter ==
  ASSUME TypeOK, NEW o \in Order, NEW b \in BOOLEAN, SetReservation(o, b)
  PROVE  HoldingOrders' = IF b THEN HoldingOrders \cup {o} ELSE HoldingOrders \ {o}
BY DEF TypeOK, OrderTypeOK, SetReservation, HoldingOrders

\* Reserving for an order that holds nothing counts its lines once and never
\* promises more than the warehouse has.
LEMMA ReserveStep ==
  ASSUME IInv, NEW o \in Order, ~reservationActive[o], ReserveFor(o)
  PROVE  /\ stockReserved' \in [Variant -> Nat]
         /\ ReservedIsHeld'
         /\ \A v \in Variant : stockReserved'[v] <= stockTotal[v]
<1>1. stockTotal \in [Variant -> Nat] /\ stockReserved \in [Variant -> Nat]
  BY DEF IInv, TypeOK, StockTypeOK
<1>2. \A v \in Variant : stockReserved'[v] = stockReserved[v] + Lines[o][v]
  BY DEF ReserveFor, Reserve
<1>3. \A v \in Variant : Lines[o][v] \in Nat
  BY LinesType
<1>4. stockReserved' \in [Variant -> Nat]
  BY <1>1, <1>3 DEF ReserveFor, Reserve
<1>5. \A v \in Variant : stockReserved'[v] <= stockTotal[v]
  BY <1>1, <1>2, <1>3
     DEF ReserveFor, Reserve, Fits, Available, IInv, NoOversell
<1>6. HoldingOrders' = HoldingOrders \cup {o} /\ o \notin HoldingOrders
  BY HoldingOrdersAfter DEF IInv, ReserveFor, HoldingOrders
<1>7. ASSUME NEW v \in Variant
      PROVE  stockReserved'[v] = Cardinality(UnitsOf(HoldingOrders', v))
  <2>1. Cardinality(UnitsOf(HoldingOrders', v)) =
          Cardinality(UnitsOf(HoldingOrders, v)) + Lines[o][v]
    BY <1>6, UnitsAdd
  <2>2. stockReserved[v] = Cardinality(UnitsOf(HoldingOrders, v))
    BY DEF IInv, ReservedIsHeld
  <2> QED BY <1>2, <2>1, <2>2
<1> QED BY <1>4, <1>5, <1>7 DEF ReservedIsHeld

\* An active reservation that is taken out of the counter, line by line.
LEMMA UnreserveStep ==
  ASSUME IInv, NEW o \in Order, reservationActive[o], SetReservation(o, FALSE),
         stockReserved' = [v \in Variant |-> stockReserved[v] - Lines[o][v]]
  PROVE  stockReserved' \in [Variant -> Nat] /\ ReservedIsHeld'
<1>1. \A v \in Variant : Lines[o][v] \in Nat /\ stockReserved[v] \in Nat
  BY LinesType DEF IInv, TypeOK, StockTypeOK
<1>2. \A v \in Variant : stockReserved[v] >= Lines[o][v]
  BY HeldIsReserved
<1>3. stockReserved' \in [Variant -> Nat]
  BY <1>1, <1>2
<1>4. HoldingOrders' = HoldingOrders \ {o} /\ o \in HoldingOrders
  BY HoldingOrdersAfter DEF IInv, HoldingOrders
<1>5. ASSUME NEW v \in Variant
      PROVE  stockReserved'[v] = Cardinality(UnitsOf(HoldingOrders', v))
  <2>1. Cardinality(UnitsOf(HoldingOrders, v)) =
          Cardinality(UnitsOf(HoldingOrders', v)) + Lines[o][v]
    BY <1>4, UnitsRemove
  <2>2. stockReserved[v] = Cardinality(UnitsOf(HoldingOrders, v))
    BY DEF IInv, ReservedIsHeld
  <2>3. Cardinality(UnitsOf(HoldingOrders', v)) \in Nat
    BY UnitsFinite
  <2>4. stockReserved'[v] = stockReserved[v] - Lines[o][v]
    OBVIOUS
  <2> QED BY <1>1, <2>1, <2>2, <2>3, <2>4
<1> QED BY <1>3, <1>5 DEF ReservedIsHeld

\* Releasing gives back exactly what the order holds: the floor at zero is
\* never used.
LEMMA ReleaseStep ==
  ASSUME IInv, NEW o \in Order, ReleaseReservation(o)
  PROVE  /\ stockReserved' \in [Variant -> Nat]
         /\ ReservedIsHeld'
         /\ \A v \in Variant : stockReserved'[v] <= stockReserved[v]
         /\ reservationActive' = [reservationActive EXCEPT ![o] = FALSE]
<1>1. \A v \in Variant : Lines[o][v] \in Nat /\ stockReserved[v] \in Nat
  BY LinesType DEF IInv, TypeOK, StockTypeOK
<1>2. CASE reservationActive[o]
  <2>1. stockReserved' = [v \in Variant |-> stockReserved[v] - Lines[o][v]]
    BY <1>2, HeldIsReserved DEF ReleaseReservation, Release
  <2>2. SetReservation(o, FALSE)
    BY <1>2 DEF ReleaseReservation
  <2>3. stockReserved' \in [Variant -> Nat] /\ ReservedIsHeld'
    BY <1>2, <2>1, <2>2, UnreserveStep
  <2>4. \A v \in Variant : stockReserved'[v] <= stockReserved[v]
    BY <1>1, <2>1
  <2> QED BY <2>2, <2>3, <2>4 DEF SetReservation
<1>3. CASE ~reservationActive[o]
  <2>1. UNCHANGED <<stockReserved, reservationActive>>
    BY <1>3 DEF ReleaseReservation
  <2>2. HoldingOrders' = HoldingOrders
    BY <2>1 DEF HoldingOrders
  <2>3. ReservedIsHeld'
    BY <2>1, <2>2 DEF IInv, ReservedIsHeld
  <2>4. reservationActive = [reservationActive EXCEPT ![o] = FALSE]
    BY <1>3 DEF IInv, TypeOK, OrderTypeOK
  <2> QED BY <1>1, <2>1, <2>3, <2>4 DEF IInv, TypeOK, StockTypeOK
<1> QED BY <1>2, <1>3

\* A sale takes the lines it covers out of both counters when the order holds
\* them, and out of what is available when it does not.
LEMMA SaleStep ==
  ASSUME IInv, NEW o \in Order,
         ConfirmSale(Lines[o], reservationActive[o]), SetReservation(o, FALSE)
  PROVE  /\ stockTotal' \in [Variant -> Nat]
         /\ stockReserved' \in [Variant -> Nat]
         /\ ReservedIsHeld'
         /\ NoOversell'
<1> DEFINE taken == Covered(Lines[o], reservationActive[o])
<1>1. \A v \in Variant : /\ Lines[o][v] \in Nat
                          /\ stockReserved[v] \in Nat
                          /\ stockTotal[v] \in Nat
                          /\ stockReserved[v] <= stockTotal[v]
  BY LinesType DEF IInv, TypeOK, StockTypeOK, NoOversell
<1>2. /\ stockTotal' =
           [v \in Variant |->
              IF v \in taken THEN stockTotal[v] - Lines[o][v] ELSE stockTotal[v]]
      /\ stockReserved' =
           [v \in Variant |->
              IF v \in taken /\ reservationActive[o]
                THEN stockReserved[v] - Lines[o][v] ELSE stockReserved[v]]
  BY DEF ConfirmSale
<1>3. CASE reservationActive[o]
  <2>1. \A v \in Variant : stockReserved[v] >= Lines[o][v]
    BY <1>3, HeldIsReserved
  <2>2. \A v \in Variant : v \in taken <=> Lines[o][v] > 0
    BY <1>3, <2>1 DEF Covered
  <2> HIDE DEF taken
  <2>3. stockReserved' = [v \in Variant |-> stockReserved[v] - Lines[o][v]]
    BY <1>1, <1>2, <1>3, <2>2
  <2>4. stockReserved' \in [Variant -> Nat] /\ ReservedIsHeld'
    BY <1>3, <2>3, UnreserveStep
  <2>5. stockTotal' = [v \in Variant |-> stockTotal[v] - Lines[o][v]]
    BY <1>1, <1>2, <2>2
  <2>6. \A v \in Variant : stockTotal[v] - Lines[o][v] \in Nat
    BY <1>1, <2>1
  <2>7. \A v \in Variant : stockReserved'[v] <= stockTotal'[v]
    BY <1>1, <2>3, <2>5
  <2> QED BY <2>4, <2>5, <2>6, <2>7 DEF NoOversell
<1>4. CASE ~reservationActive[o]
  <2>1. \A v \in Variant :
          v \in taken => stockTotal[v] - stockReserved[v] >= Lines[o][v]
    BY <1>4 DEF Covered, Available
  <2> HIDE DEF taken
  <2>2. stockReserved' = stockReserved
    BY <1>2, <1>4 DEF IInv, TypeOK, StockTypeOK
  <2>3. HoldingOrders' = HoldingOrders
    BY <1>4 DEF SetReservation, HoldingOrders, IInv, TypeOK, OrderTypeOK
  <2>4. ReservedIsHeld'
    BY <2>2, <2>3 DEF IInv, ReservedIsHeld
  <2>5. \A v \in Variant : stockTotal'[v] \in Nat /\ stockReserved[v] <= stockTotal'[v]
    BY <1>1, <1>2, <2>1
  <2>6. stockTotal' \in [Variant -> Nat]
    BY <1>2, <2>5
  <2>7. NoOversell'
    BY <2>2, <2>5 DEF NoOversell
  <2> QED BY <2>2, <2>4, <2>6, <2>7 DEF IInv, TypeOK, StockTypeOK
<1> QED BY <1>3, <1>4

\* What a sale takes from the warehouse is what it marks as committed.
LEMMA SaleConserves ==
  ASSUME IInv, NEW o \in Order, stockCommitted[o] = {},
         ConfirmSale(Lines[o], reservationActive[o]),
         stockCommitted' =
           [stockCommitted EXCEPT ![o] = @ \cup Covered(Lines[o], reservationActive[o])]
  PROVE  StockConserved'
<1> DEFINE taken == Covered(Lines[o], reservationActive[o])
<1>1. stockCommitted \in [Order -> SUBSET Variant]
  BY DEF IInv, TypeOK, OrderTypeOK
<1>2. SUFFICES ASSUME NEW v \in Variant
               PROVE  stockTotal'[v] + Cardinality(UnitsOf(OrdersWith(v)', v))
                        = InitialStock[v]
  BY DEF StockConserved
<1>3. /\ stockTotal[v] \in Nat
      /\ Lines[o][v] \in Nat
      /\ Cardinality(UnitsOf(OrdersWith(v), v)) \in Nat
      /\ stockTotal[v] + Cardinality(UnitsOf(OrdersWith(v), v)) = InitialStock[v]
  BY LinesType, UnitsFinite
     DEF IInv, TypeOK, StockTypeOK, StockConserved
<1>4. o \notin OrdersWith(v)
  BY DEF OrdersWith
<1>5. stockTotal'[v] = IF v \in taken THEN stockTotal[v] - Lines[o][v]
                                      ELSE stockTotal[v]
  BY DEF ConfirmSale
<1>6. stockCommitted' = [stockCommitted EXCEPT ![o] = taken]
  OBVIOUS
<1> HIDE DEF taken
<1>7. CASE v \in taken
  <2>1. OrdersWith(v)' = OrdersWith(v) \cup {o}
    BY <1>1, <1>6, <1>7 DEF OrdersWith
  <2>2. Cardinality(UnitsOf(OrdersWith(v)', v)) =
          Cardinality(UnitsOf(OrdersWith(v), v)) + Lines[o][v]
    <3>1. Cardinality(UnitsOf(OrdersWith(v) \cup {o}, v)) =
            Cardinality(UnitsOf(OrdersWith(v), v)) + Lines[o][v]
      BY <1>4, UnitsAdd
    <3> QED BY <2>1, <3>1, Zenon
  <2> QED BY <1>3, <1>5, <1>7, <2>2
<1>8. CASE v \notin taken
  <2>1. OrdersWith(v)' = OrdersWith(v)
    BY <1>1, <1>6, <1>8, <1>4 DEF OrdersWith
  <2> QED BY <1>3, <1>5, <1>8, <2>1
<1> QED BY <1>7, <1>8

\* A cancellation brings back exactly the committed lines.
LEMMA RestockStep ==
  ASSUME IInv, NEW o \in Order,
         RestockCancelledSale(Lines[o], stockCommitted[o]),
         stockCommitted' = [stockCommitted EXCEPT ![o] = {}]
  PROVE  /\ stockTotal' \in [Variant -> Nat]
         /\ \A v \in Variant : stockTotal[v] <= stockTotal'[v]
         /\ StockConserved'
<1>1. stockCommitted \in [Order -> SUBSET Variant]
  BY DEF IInv, TypeOK, OrderTypeOK
<1>2. \A v \in Variant : stockTotal[v] \in Nat /\ Lines[o][v] \in Nat
  BY LinesType DEF IInv, TypeOK, StockTypeOK
<1>3. stockTotal' = [v \in Variant |->
         IF v \in stockCommitted[o] THEN stockTotal[v] + Lines[o][v] ELSE stockTotal[v]]
  BY DEF RestockCancelledSale
<1>4. ASSUME NEW v \in Variant
      PROVE  stockTotal'[v] + Cardinality(UnitsOf(OrdersWith(v)', v)) = InitialStock[v]
  <2>1. /\ Cardinality(UnitsOf(OrdersWith(v)', v)) \in Nat
        /\ stockTotal[v] + Cardinality(UnitsOf(OrdersWith(v), v)) = InitialStock[v]
    BY UnitsFinite DEF IInv, StockConserved
  <2>2. CASE v \in stockCommitted[o]
    <3>1. OrdersWith(v)' = OrdersWith(v) \ {o} /\ o \in OrdersWith(v)
      BY <1>1, <2>2 DEF OrdersWith
    <3>2. Cardinality(UnitsOf(OrdersWith(v), v)) =
            Cardinality(UnitsOf(OrdersWith(v)', v)) + Lines[o][v]
      BY <3>1, UnitsRemove
    <3> QED BY <1>2, <1>3, <2>1, <2>2, <3>2
  <2>3. CASE v \notin stockCommitted[o]
    <3>1. OrdersWith(v)' = OrdersWith(v)
      BY <1>1, <2>3 DEF OrdersWith
    <3> QED BY <1>3, <2>1, <2>3, <3>1
  <2> QED BY <2>2, <2>3
<1> QED BY <1>2, <1>3, <1>4 DEF StockConserved

-----------------------------------------------------------------------------
(***************************************************************************)
(* What each handler does to the state of its order.  None of these facts  *)
(* is about stock.                                                         *)
(***************************************************************************)

StatusInv ==
  OrderTypeOK /\ ReservationFollowsStatus /\ CommittedFollowsStatus
              /\ PaidAtFollowsStatus

\* Every handler keeps the bookkeeping of its order in agreement with its status.
LEMMA StatusStep ==
  ASSUME StatusInv, NEW o \in Order, Handler(o)
  PROVE  StatusInv'
<1> USE DEF StatusInv, OrderTypeOK, ReservationFollowsStatus,
            CommittedFollowsStatus, PaidAtFollowsStatus, SetReservation,
            OrderStatuses, CancellationCauses, SIN_ALTA, SIN_CAUSA,
            AWAITING_PAYMENT_STATUSES, PAID_STATUSES, PENDIENTE_PAGO,
            PAGO_PENDIENTE_ACREDITACION, PAGO_RECHAZADO, PAGADO,
            EN_PREPARACION, DESPACHADO, ENTREGADO, CANCELADO, DEVUELTO,
            RESERVA_VENCIDA, PASARELA, CLIENTE, ADMINISTRADOR
<1>0. ASSUME NEW cause \in {CLIENTE, ADMINISTRADOR},
             ApplyCancellation(o, cause), UNCHANGED sideVars
      PROVE  StatusInv'
  <2> USE <1>0 DEF ApplyCancellation, ChangeStatus, sideVars
  <2>1. CASE status[o] = DESPACHADO
    BY <2>1 DEF KeepStock
  <2>2. CASE status[o] # DESPACHADO
    <3> USE <2>2 DEF ReturnStockOnCancel, ReleaseReservation
    <3>1. reservationActive' = [reservationActive EXCEPT ![o] = FALSE]
      OBVIOUS
    <3>2. stockCommitted' = [stockCommitted EXCEPT ![o] = {}]
      OBVIOUS
    <3>3. OrderTypeOK'
      BY <3>1, <3>2
    <3>4. ReservationFollowsStatus' /\ CommittedFollowsStatus'
      BY <3>1, <3>2
    <3>5. PaidAtFollowsStatus'
      OBVIOUS
    <3> QED BY <3>3, <3>4, <3>5
  <2> QED BY <2>1, <2>2
<1>1. CASE Confirm(o)
  BY <1>1 DEF Confirm, ReserveFor
<1>2. CASE PreferenceRequestEnds(o)
  BY <1>2 DEF PreferenceRequestEnds, orderVars
<1>3. CASE CompensateFailedPreference(o)
  BY <1>3 DEF CompensateFailedPreference, ReleaseReservation, ChangeStatus
<1>4. CASE RetryPayment(o)
  <2> USE <1>4 DEF RetryPayment, RETRYABLE_PAYMENT_STATUSES, sideVars
  <2>1. reservationActive' = [reservationActive EXCEPT ![o] = TRUE]
    BY DEF ReserveFor
  <2>2. CASE status[o] = PAGO_RECHAZADO
    BY <2>1, <2>2 DEF ChangeStatus
  <2>3. CASE status[o] # PAGO_RECHAZADO
    BY <2>1, <2>3 DEF statusVars
  <2> QED BY <2>2, <2>3
<1>5. CASE PaymentApproved(o)
  <2> USE <1>5 DEF PaymentApproved, ApplyApproved, ChangeStatus, sideVars
  <2>1. /\ status[o] \notin PAID_STATUSES
        /\ status[o] = CANCELADO => cancellationCause[o] = RESERVA_VENCIDA
    BY DEF RefundsApproval
  <2>2. OrderTypeOK'
    BY DEF Covered
  <2>3. ReservationFollowsStatus'
    OBVIOUS
  <2>4. CommittedFollowsStatus'
    OBVIOUS
  <2>5. PaidAtFollowsStatus'
    OBVIOUS
  <2> QED BY <2>2, <2>3, <2>4, <2>5
<1>6. CASE PaymentRejected(o)
  BY <1>6 DEF PaymentRejected, ApplyRejected, TakesRejection, ReleaseReservation,
              ChangeStatus, sideVars
<1>7. CASE PaymentPending(o)
  BY <1>7 DEF PaymentPending, ApplyPending, TakesPending, ReserveFor, ChangeStatus,
              sideVars
<1>8. CASE ReservationLapses(o)
  BY <1>8 DEF ReservationLapses, orderVars
<1>9. CASE ExpireReservation(o)
  BY <1>9 DEF ExpireReservation, ReleaseReservation, ChangeStatus, sideVars
<1>10. CASE CancelByCustomer(o)
  BY <1>0, <1>10 DEF CancelByCustomer, sideVars
<1>11. CASE CancelByAdmin(o)
  BY <1>0, <1>11 DEF CancelByAdmin, sideVars
<1>12. CASE AdvanceByAdmin(o)
  BY <1>12 DEF AdvanceByAdmin, ADMIN_TRANSITIONS, KeepStock, ChangeStatus,
               sideVars
<1> QED BY <1>1, <1>2, <1>3, <1>4, <1>5, <1>6, <1>7, <1>8, <1>9, <1>10, <1>11,
           <1>12 DEF Handler

-----------------------------------------------------------------------------
(***************************************************************************)
(* Every handler keeps the stock accounted for.                            *)
(***************************************************************************)

StockInv == StockTypeOK /\ ReservedIsHeld /\ NoOversell /\ StockConserved

\* A step that touches no counter, flag or committed item keeps the accounts.
LEMMA StockUnchanged ==
  ASSUME IInv, UNCHANGED <<stockVars, reservationActive, stockCommitted>>
  PROVE  StockInv'
<1>1. HoldingOrders' = HoldingOrders /\ \A v : OrdersWith(v)' = OrdersWith(v)
  BY DEF HoldingOrders, OrdersWith
<1>2. stockTotal' = stockTotal /\ stockReserved' = stockReserved
  BY DEF stockVars
<1> QED BY <1>1, <1>2 DEF IInv, TypeOK, StockInv, StockTypeOK, ReservedIsHeld,
                          NoOversell, StockConserved

\* Steps that leave the warehouse alone and move the reservation of one order.
LEMMA StockReservedOnly ==
  ASSUME IInv, UNCHANGED <<stockTotal, stockCommitted>>,
         stockReserved' \in [Variant -> Nat],
         ReservedIsHeld',
         \A v \in Variant : stockReserved'[v] <= stockTotal[v]
  PROVE  StockInv'
<1>1. \A v : OrdersWith(v)' = OrdersWith(v)
  BY DEF OrdersWith
<1>2. StockConserved'
  BY <1>1 DEF IInv, StockConserved
<1> QED BY <1>2 DEF IInv, TypeOK, StockInv, StockTypeOK, NoOversell

\* Taking a reservation keeps the stock accounted for.
LEMMA ReserveForStock ==
  ASSUME IInv, NEW o \in Order, ~reservationActive[o], ReserveFor(o),
         UNCHANGED <<stockTotal, stockCommitted>>
  PROVE  StockInv'
BY ReserveStep, StockReservedOnly

\* So does releasing it.
LEMMA ReleaseStock ==
  ASSUME IInv, NEW o \in Order, ReleaseReservation(o),
         UNCHANGED <<stockTotal, stockCommitted>>
  PROVE  StockInv'
<1>1. /\ stockReserved' \in [Variant -> Nat]
      /\ ReservedIsHeld'
      /\ \A v \in Variant : stockReserved'[v] <= stockReserved[v]
  BY ReleaseStep
<1>2. \A v \in Variant : /\ stockReserved[v] <= stockTotal[v]
                          /\ stockReserved[v] \in Nat
                          /\ stockTotal[v] \in Nat
  BY DEF IInv, NoOversell, TypeOK, StockTypeOK
<1>3. \A v \in Variant : stockReserved'[v] <= stockTotal[v]
  BY <1>1, <1>2
<1> QED BY <1>1, <1>3, StockReservedOnly

\* So does a cancellation, before or after the dispatch.
LEMMA CancellationStock ==
  ASSUME IInv, NEW o \in Order, NEW cause, ApplyCancellation(o, cause)
  PROVE  StockInv'
<1>1. CASE status[o] = DESPACHADO
  BY <1>1, StockUnchanged DEF ApplyCancellation, KeepStock
<1>2. CASE status[o] # DESPACHADO
  <2>1. /\ ReleaseReservation(o)
        /\ RestockCancelledSale(Lines[o], stockCommitted[o])
        /\ stockCommitted' = [stockCommitted EXCEPT ![o] = {}]
    BY <1>2 DEF ApplyCancellation, ReturnStockOnCancel
  <2>2. /\ stockReserved' \in [Variant -> Nat]
        /\ ReservedIsHeld'
        /\ \A v \in Variant : stockReserved'[v] <= stockReserved[v]
    BY <2>1, ReleaseStep
  <2>3. /\ stockTotal' \in [Variant -> Nat]
        /\ \A v \in Variant : stockTotal[v] <= stockTotal'[v]
        /\ StockConserved'
    BY <2>1, RestockStep
  <2>4. \A v \in Variant : /\ stockReserved[v] <= stockTotal[v]
                            /\ stockReserved[v] \in Nat
                            /\ stockTotal[v] \in Nat
    BY DEF IInv, NoOversell, TypeOK, StockTypeOK
  <2>5. NoOversell'
    BY <2>2, <2>3, <2>4 DEF NoOversell
  <2> QED BY <2>2, <2>3, <2>5 DEF StockInv, StockTypeOK
<1> QED BY <1>1, <1>2

\* So does the approval of a payment, with or without a reservation.
LEMMA ApprovedStock ==
  ASSUME IInv, NEW o \in Order, ApplyApproved(o)
  PROVE  StockInv'
<1>1. stockCommitted[o] = {}
  <2>1. status[o] \notin PAID_STATUSES
    BY DEF ApplyApproved, RefundsApproval
  <2>2. status[o] = CANCELADO => ~paidAt[o]
    BY DEF ApplyApproved, RefundsApproval, IInv, PaidAtFollowsStatus
  <2> QED BY <2>1, <2>2 DEF IInv, CommittedFollowsStatus
<1>2. ConfirmSale(Lines[o], reservationActive[o]) /\ SetReservation(o, FALSE)
  BY DEF ApplyApproved
<1>3. stockTotal' \in [Variant -> Nat] /\ stockReserved' \in [Variant -> Nat]
  BY <1>2, SaleStep
<1>4. ReservedIsHeld' /\ NoOversell'
  BY <1>2, SaleStep
<1>5. StockConserved'
  BY <1>1, <1>2, SaleConserves DEF ApplyApproved
<1> QED BY <1>3, <1>4, <1>5 DEF StockInv, StockTypeOK

\* So does every handler.
LEMMA StockStep ==
  ASSUME IInv, NEW o \in Order, Handler(o)
  PROVE  StockInv'
<1>1. CASE Confirm(o)
  <2>1. ~reservationActive[o]
    BY <1>1 DEF Confirm, IInv, ReservationFollowsStatus, SIN_ALTA,
                PENDIENTE_PAGO, PAGO_PENDIENTE_ACREDITACION
  <2> QED BY <1>1, <2>1, ReserveForStock DEF Confirm
<1>2. CASE PreferenceRequestEnds(o)
  BY <1>2, StockUnchanged DEF PreferenceRequestEnds, orderVars
<1>3. CASE CompensateFailedPreference(o)
  BY <1>3, ReleaseStock DEF CompensateFailedPreference
<1>4. CASE RetryPayment(o)
  <2>1. CASE reservationActive[o]
    BY <1>4, <2>1, StockUnchanged DEF RetryPayment, stockVars
  <2>2. CASE ~reservationActive[o]
    BY <1>4, <2>2, ReserveForStock DEF RetryPayment
  <2> QED BY <2>1, <2>2
<1>5. CASE PaymentApproved(o)
  BY <1>5, ApprovedStock DEF PaymentApproved
<1>6. CASE PaymentRejected(o)
  BY <1>6, ReleaseStock DEF PaymentRejected, ApplyRejected
<1>7. CASE PaymentPending(o)
  <2>1. UNCHANGED <<stockTotal, stockCommitted>>
    BY <1>7 DEF PaymentPending, ApplyPending
  <2>2. CASE status[o] = PAGO_RECHAZADO /\ Fits(Lines[o])
    <3>1. ~reservationActive[o]
      BY <2>2 DEF IInv, ReservationFollowsStatus, PAGO_RECHAZADO,
                  PENDIENTE_PAGO, PAGO_PENDIENTE_ACREDITACION
    <3>2. ReserveFor(o)
      BY <1>7, <2>2 DEF PaymentPending, ApplyPending
    <3> QED BY <2>1, <3>1, <3>2, ReserveForStock
  <2>3. CASE ~(status[o] = PAGO_RECHAZADO /\ Fits(Lines[o]))
    BY <1>7, <2>1, <2>3, StockUnchanged DEF PaymentPending, ApplyPending, stockVars
  <2> QED BY <2>2, <2>3
<1>8. CASE ReservationLapses(o)
  BY <1>8, StockUnchanged DEF ReservationLapses, orderVars
<1>9. CASE ExpireReservation(o)
  BY <1>9, ReleaseStock DEF ExpireReservation
<1>10. CASE CancelByCustomer(o)
  BY <1>10, CancellationStock DEF CancelByCustomer
<1>11. CASE CancelByAdmin(o)
  BY <1>11, CancellationStock DEF CancelByAdmin
<1>12. CASE AdvanceByAdmin(o)
  BY <1>12, StockUnchanged DEF AdvanceByAdmin, KeepStock
<1> QED BY <1>1, <1>2, <1>3, <1>4, <1>5, <1>6, <1>7, <1>8, <1>9, <1>10, <1>11,
           <1>12 DEF Handler

-----------------------------------------------------------------------------
(***************************************************************************)
(* The theorems.                                                           *)
(***************************************************************************)

\* IInv is inductive: every handler keeps it, and so does a stutter.
LEMMA NextIInv == IInv /\ [Next]_vars => IInv'
<1> SUFFICES ASSUME IInv, [Next]_vars PROVE IInv'
  OBVIOUS
<1>1. StatusInv
  BY DEF IInv, TypeOK, StatusInv
<1>2. CASE Next
  <2>1. PICK o \in Order : Handler(o)
    BY <1>2 DEF Next
  <2>2. StatusInv' /\ StockInv'
    BY <1>1, <2>1, StatusStep, StockStep
  <2> QED BY <2>2 DEF IInv, TypeOK, StatusInv, StockInv
<1>3. CASE UNCHANGED vars
  <2>1. StockInv'
    BY <1>3, StockUnchanged DEF vars, orderVars
  <2>2. StatusInv'
    BY <1>1, <1>3 DEF vars, orderVars, StatusInv, OrderTypeOK,
         ReservationFollowsStatus, CommittedFollowsStatus, PaidAtFollowsStatus
  <2> QED BY <2>1, <2>2 DEF IInv, TypeOK, StatusInv, StockInv
<1> QED BY <1>2, <1>3

\* The inductive invariant holds in every reachable state.
LEMMA SpecIInv == Spec => []IInv
<1>1. Init => IInv
  BY InitIInv
<1>2. IInv /\ [Next]_vars => IInv'
  BY NextIInv
<1> QED BY <1>1, <1>2, PTL DEF Spec

\* Whatever the orders, quantities and stock, every variable keeps its type;
\* in particular no stock counter ever becomes negative.
THEOREM TypeCorrect == Spec => []TypeOK
<1>1. IInv => TypeOK
  BY DEF IInv
<1> QED BY <1>1, SpecIInv, PTL

\* The reserved counter of a variant is the sum of the lines of the orders
\* that hold a reservation, in every reachable state.
THEOREM ReservedIsHeldAlways == Spec => []ReservedIsHeld
<1>1. IInv => ReservedIsHeld
  BY DEF IInv
<1> QED BY <1>1, SpecIInv, PTL

\* Never are more units promised than the warehouse has.
THEOREM NoOversellAlways == Spec => []NoOversell
<1>1. IInv => NoOversell
  BY DEF IInv
<1> QED BY <1>1, SpecIInv, PTL

\* Every unit that left the warehouse is in a committed item of one order.
THEOREM StockConservedAlways == Spec => []StockConserved
<1>1. IInv => StockConserved
  BY DEF IInv
<1> QED BY <1>1, SpecIInv, PTL

\* An order the customer can still pay holds its stock, and a reservation never
\* outlives the two states that wait for a payment in course.
THEOREM ReservationFollowsStatusAlways == Spec => []ReservationFollowsStatus
<1>1. IInv => ReservationFollowsStatus
  BY DEF IInv
<1> QED BY <1>1, SpecIInv, PTL

\* Stock is taken in firm only by orders that were paid, and an order cancelled
\* before its dispatch keeps none of it.
THEOREM CommittedFollowsStatusAlways == Spec => []CommittedFollowsStatus
<1>1. IInv => CommittedFollowsStatus
  BY DEF IInv
<1> QED BY <1>1, SpecIInv, PTL

\* The date of payment, which decides the refund of a cancellation, agrees with
\* the status.
THEOREM PaidAtFollowsStatusAlways == Spec => []PaidAtFollowsStatus
<1>1. IInv => PaidAtFollowsStatus
  BY DEF IInv
<1> QED BY <1>1, SpecIInv, PTL

\* What is promised is what the orders reserved, the warehouse covers it and no
\* unit is lost, for any number of orders.
THEOREM StockAlwaysBalances == Spec => []StockBalances
<1>1. ReservedIsHeld /\ NoOversell /\ StockConserved => StockBalances
  BY DEF StockBalances
<1> QED BY ReservedIsHeldAlways, NoOversellAlways, StockConservedAlways, <1>1, PTL

\* What an order holds, took and will be refunded agrees with its status.
THEOREM HistoryAlwaysFollowsStatus == Spec => []HistoryFollowsStatus
<1>1. ReservationFollowsStatus /\ CommittedFollowsStatus /\ PaidAtFollowsStatus
        => HistoryFollowsStatus
  BY DEF HistoryFollowsStatus
<1> QED BY ReservationFollowsStatusAlways, CommittedFollowsStatusAlways,
           PaidAtFollowsStatusAlways, <1>1, PTL

DeliberatelyCancelled(o) ==
  status[o] = CANCELADO /\ cancellationCause[o] # RESERVA_VENCIDA

\* A handler that changes the status of another order leaves this one alone,
\* and none of the handlers of a cancelled order applies to a deliberate
\* cancellation, except the ones that do not change its status.
LEMMA CancelledStep ==
  ASSUME IInv, NEW p \in Order, Handler(p), NEW o \in Order,
         DeliberatelyCancelled(o)
  PROVE  status'[o] = CANCELADO /\ cancellationCause'[o] = cancellationCause[o]
<1> USE DEF DeliberatelyCancelled, IInv, TypeOK, OrderTypeOK, ChangeStatus,
            SIN_ALTA, AWAITING_PAYMENT_STATUSES, PENDIENTE_PAGO,
            PAGO_PENDIENTE_ACREDITACION, PAGO_RECHAZADO, PAGADO, EN_PREPARACION,
            DESPACHADO, ENTREGADO, CANCELADO, DEVUELTO
<1>1. CASE o # p
  <2>1. ASSUME NEW to, NEW cause, ChangeStatus(p, to, cause)
        PROVE  status'[o] = status[o] /\ cancellationCause'[o] = cancellationCause[o]
    BY <1>1, <2>1
  <2>2. CASE Confirm(p)
    BY <1>1, <2>2 DEF Confirm
  <2>3. CASE PreferenceRequestEnds(p) \/ ReservationLapses(p)
    BY <2>3 DEF PreferenceRequestEnds, ReservationLapses, orderVars
  <2>4. CASE RetryPayment(p)
    BY <1>1, <2>4 DEF RetryPayment, statusVars
  <2> QED
    BY <1>1, <2>1, <2>2, <2>3, <2>4
       DEF Handler, CompensateFailedPreference, PaymentApproved, ApplyApproved,
           PaymentRejected, ApplyRejected, PaymentPending, ApplyPending,
           ExpireReservation, CancelByCustomer, CancelByAdmin, ApplyCancellation,
           AdvanceByAdmin
<1>2. CASE o = p
  <2>1. ~Confirm(o) /\ ~CompensateFailedPreference(o) /\ ~RetryPayment(o)
    BY <1>2 DEF Confirm, CompensateFailedPreference, RetryPayment,
                RETRYABLE_PAYMENT_STATUSES
  <2>2. ~PaymentApproved(o) /\ ~PaymentRejected(o) /\ ~PaymentPending(o)
    BY <1>2 DEF PaymentApproved, ApplyApproved, RefundsApproval, PaymentRejected,
                ApplyRejected, TakesRejection, PaymentPending, ApplyPending,
                TakesPending
  <2>3. ~ExpireReservation(o) /\ ~CancelByCustomer(o) /\ ~CancelByAdmin(o)
    BY <1>2 DEF ExpireReservation, CancelByCustomer, CancelByAdmin,
                CUSTOMER_CANCELLABLE_STATUSES, ADMIN_NON_CANCELLABLE_STATUSES
  <2>4. ~AdvanceByAdmin(o)
    BY <1>2 DEF AdvanceByAdmin, ADMIN_TRANSITIONS
  <2>5. PreferenceRequestEnds(o) \/ ReservationLapses(o)
    BY <1>2, <2>1, <2>2, <2>3, <2>4 DEF Handler
  <2> QED BY <2>5 DEF PreferenceRequestEnds, ReservationLapses, orderVars
<1> QED BY <1>1, <1>2

\* Only a lapsed reservation can be undone: an order cancelled by its customer,
\* by an administrator or by a failure of the gateway stays cancelled for good,
\* with the same cause.
THEOREM CancellationIsFinal == Spec => DeliberateCancellationIsFinal
<1> DEFINE Final == \A o \in Order :
        status[o] = CANCELADO /\ cancellationCause[o] # RESERVA_VENCIDA
          => status'[o] = CANCELADO /\ cancellationCause'[o] = cancellationCause[o]
<1>1. IInv /\ [Next]_vars => [Final]_vars
  <2> SUFFICES ASSUME IInv, Next, NEW o \in Order, DeliberatelyCancelled(o)
               PROVE  status'[o] = CANCELADO
                      /\ cancellationCause'[o] = cancellationCause[o]
    BY DEF DeliberatelyCancelled
  <2>1. PICK p \in Order : Handler(p)
    BY DEF Next
  <2> QED BY <2>1, CancelledStep
<1>2. Spec => [][Final]_vars
  BY <1>1, SpecIInv, PTL DEF Spec
<1> QED BY <1>2 DEF DeliberateCancellationIsFinal

-----------------------------------------------------------------------------
(***************************************************************************)
(* Orders implements Inventory.                                            *)
(***************************************************************************)

free == [v \in Variant |-> Available(v)]

\* Two mappings of the counters to free units are equal if they agree on every
\* variant: each step below computes free' variant by variant.
LEMMA FreeAfter ==
  ASSUME IInv, NEW o \in Order
  PROVE  /\ \A v \in Variant : /\ stockTotal[v] \in Nat
                               /\ stockReserved[v] \in Nat
                               /\ Lines[o][v] \in Nat
                               /\ free[v] = stockTotal[v] - stockReserved[v]
                               /\ free'[v] = stockTotal'[v] - stockReserved'[v]
BY LinesType DEF IInv, TypeOK, StockTypeOK, free, Available

\* A reservation is a Hold.
LEMMA ReserveIsHold ==
  ASSUME IInv, NEW o \in Order, ~reservationActive[o], stockCommitted[o] = {},
         ReserveFor(o), UNCHANGED <<stockTotal, stockCommitted>>
  PROVE  Inv!Hold(o)
<1>1. o \notin HoldingOrders /\ HoldingOrders' = HoldingOrders \cup {o}
  BY HoldingOrdersAfter DEF IInv, ReserveFor, HoldingOrders
<1>2. Inv!InStock(o) = Inv!Items(o)
  BY DEF ReserveFor, Reserve, Fits, Inv!InStock, Inv!Items, Available
<1>3. free' = [v \in Variant |-> IF v \in Inv!Items(o)
                                  THEN free[v] - Lines[o][v] ELSE free[v]]
  <2>1. ASSUME NEW v \in Variant
        PROVE  free'[v] = IF v \in Inv!Items(o)
                            THEN free[v] - Lines[o][v] ELSE free[v]
    <3>1. stockTotal'[v] = stockTotal[v] /\ stockReserved'[v] = stockReserved[v] + Lines[o][v]
      BY DEF ReserveFor, Reserve
    <3>2. v \in Inv!Items(o) <=> Lines[o][v] > 0
      BY DEF Inv!Items
    <3> QED BY <3>1, <3>2, FreeAfter
  <2> QED BY <2>1 DEF free
<1> QED BY <1>1, <1>2, <1>3 DEF Inv!Hold, Inv!Take, free

\* The release of an active reservation is a Drop.
LEMMA ReleaseIsDrop ==
  ASSUME IInv, NEW o \in Order, ReleaseReservation(o),
         UNCHANGED <<stockTotal, stockCommitted>>
  PROVE  Inv!Drop(o) \/ UNCHANGED Inv!vars
<1>1. CASE reservationActive[o]
  <2>1. SetReservation(o, FALSE) /\ Release(Lines[o])
    BY <1>1 DEF ReleaseReservation
  <2>2. o \in HoldingOrders /\ HoldingOrders' = HoldingOrders \ {o}
    BY <1>1, <2>1, HoldingOrdersAfter DEF IInv, HoldingOrders
  <2>3. free' = [v \in Variant |-> IF v \in Inv!Items(o)
                                    THEN free[v] + Lines[o][v] ELSE free[v]]
    <3>1. ASSUME NEW v \in Variant
          PROVE  free'[v] = IF v \in Inv!Items(o)
                              THEN free[v] + Lines[o][v] ELSE free[v]
      <4>1. stockTotal'[v] = stockTotal[v] /\ stockReserved'[v] = stockReserved[v] - Lines[o][v]
        BY <1>1, <2>1, HeldIsReserved DEF Release
      <4>2. v \in Inv!Items(o) <=> Lines[o][v] > 0
        BY DEF Inv!Items
      <4> QED BY <4>1, <4>2, FreeAfter
    <3> QED BY <3>1 DEF free
  <2> QED BY <2>2, <2>3 DEF Inv!Drop, Inv!PutBack, free
<1>2. CASE ~reservationActive[o]
  BY <1>2 DEF ReleaseReservation, Inv!vars, HoldingOrders, Available
<1> QED BY <1>1, <1>2

\* The approval of a payment sells what the order holds, or what is free.
LEMMA ApprovedIsSale ==
  ASSUME IInv, NEW o \in Order, ApplyApproved(o), stockCommitted[o] = {}
  PROVE  Inv!SellHeld(o) \/ Inv!SellFree(o)
<1>1. HoldingOrders' = HoldingOrders \ {o}
  BY HoldingOrdersAfter DEF ApplyApproved, IInv
<1>2. stockCommitted' =
        [stockCommitted EXCEPT ![o] = Covered(Lines[o], reservationActive[o])]
  BY DEF ApplyApproved
<1>3. \A v \in Variant : v \in Inv!Items(o) <=> Lines[o][v] > 0
  BY DEF Inv!Items
<1>4. CASE reservationActive[o]
  <2>1. Covered(Lines[o], reservationActive[o]) = Inv!Items(o)
    BY <1>4, HeldIsReserved DEF Covered, Inv!Items
  <2>2. ASSUME NEW v \in Variant
        PROVE  free'[v] = free[v]
    <3>1. CASE v \in Inv!Items(o)
      <4>1. /\ stockTotal'[v] = stockTotal[v] - Lines[o][v]
            /\ stockReserved'[v] = stockReserved[v] - Lines[o][v]
        BY <1>4, <2>1, <3>1 DEF ApplyApproved, ConfirmSale
      <4> QED BY <4>1, FreeAfter
    <3>2. CASE v \notin Inv!Items(o)
      <4>1. stockTotal'[v] = stockTotal[v] /\ stockReserved'[v] = stockReserved[v]
        BY <1>4, <2>1, <3>2 DEF ApplyApproved, ConfirmSale
      <4> QED BY <4>1, FreeAfter
    <3> QED BY <3>1, <3>2
  <2>3. free' = free
    BY <2>2 DEF free
  <2>4. o \in HoldingOrders
    BY <1>4 DEF HoldingOrders
  <2> QED BY <1>1, <1>2, <2>1, <2>3, <2>4 DEF Inv!SellHeld, free
<1>5. CASE ~reservationActive[o]
  <2>1. Covered(Lines[o], reservationActive[o]) = Inv!InStock(o)
    BY <1>5 DEF Covered, Inv!InStock, Inv!Items, Available
  <2>2. ASSUME NEW v \in Variant
        PROVE  free'[v] = IF v \in Inv!InStock(o)
                            THEN free[v] - Lines[o][v] ELSE free[v]
    <3>1. stockReserved'[v] = stockReserved[v]
      BY <1>5 DEF ApplyApproved, ConfirmSale
    <3>2. stockTotal'[v] = IF v \in Inv!InStock(o)
                             THEN stockTotal[v] - Lines[o][v] ELSE stockTotal[v]
      BY <2>1 DEF ApplyApproved, ConfirmSale
    <3> QED BY <3>1, <3>2, FreeAfter
  <2>3. free' = [v \in Variant |-> IF v \in Inv!InStock(o)
                                    THEN free[v] - Lines[o][v] ELSE free[v]]
    BY <2>2 DEF free
  <2>4. o \notin HoldingOrders /\ HoldingOrders' = HoldingOrders
    BY <1>1, <1>5 DEF HoldingOrders
  <2> QED BY <1>2, <2>1, <2>3, <2>4 DEF Inv!SellFree, Inv!Take, free
<1> QED BY <1>4, <1>5

\* A cancellation before the dispatch drops what the order holds or takes back
\* what it bought: never both.
LEMMA CancellationMaps ==
  ASSUME IInv, NEW o \in Order, NEW cause, ApplyCancellation(o, cause)
  PROVE  Inv!Drop(o) \/ Inv!TakeBack(o) \/ UNCHANGED Inv!vars
<1>1. CASE status[o] = DESPACHADO
  BY <1>1 DEF ApplyCancellation, KeepStock, Inv!vars, HoldingOrders, Available,
              stockVars
<1>2. CASE status[o] # DESPACHADO
  <2>1. /\ ReleaseReservation(o)
        /\ RestockCancelledSale(Lines[o], stockCommitted[o])
        /\ stockCommitted' = [stockCommitted EXCEPT ![o] = {}]
    BY <1>2 DEF ApplyCancellation, ReturnStockOnCancel
  <2>2. CASE stockCommitted[o] = {}
    <3>1. stockTotal' = stockTotal
      BY <2>1, <2>2 DEF RestockCancelledSale, IInv, TypeOK, StockTypeOK
    <3>2. stockCommitted' = stockCommitted
      BY <2>1, <2>2 DEF IInv, TypeOK, OrderTypeOK
    <3> QED BY <2>1, <3>1, <3>2, ReleaseIsDrop
  <2>3. CASE stockCommitted[o] # {}
    <3>1. ~reservationActive[o]
      BY <2>3 DEF IInv, CommittedFollowsStatus, ReservationFollowsStatus,
           PAID_STATUSES, PENDIENTE_PAGO, PAGO_PENDIENTE_ACREDITACION, PAGADO,
           EN_PREPARACION, DESPACHADO, ENTREGADO, DEVUELTO, CANCELADO
    <3>2. UNCHANGED <<stockReserved, reservationActive>>
      BY <2>1, <3>1 DEF ReleaseReservation
    <3>3. o \notin HoldingOrders /\ HoldingOrders' = HoldingOrders
      BY <3>1, <3>2 DEF HoldingOrders
    <3>4. ASSUME NEW v \in Variant
          PROVE  free'[v] = IF v \in stockCommitted[o]
                              THEN free[v] + Lines[o][v] ELSE free[v]
      <4>1. stockTotal'[v] = IF v \in stockCommitted[o]
                               THEN stockTotal[v] + Lines[o][v] ELSE stockTotal[v]
        BY <2>1 DEF RestockCancelledSale
      <4> QED BY <3>2, <4>1, FreeAfter
    <3>5. free' = [v \in Variant |-> IF v \in stockCommitted[o]
                                      THEN free[v] + Lines[o][v] ELSE free[v]]
      BY <3>4 DEF free
    <3> QED BY <2>1, <2>3, <3>3, <3>5 DEF Inv!TakeBack, Inv!PutBack, free
  <2> QED BY <2>2, <2>3
<1> QED BY <1>1, <1>2

\* Steps that move no unit are stutters of Inventory.
LEMMA QuietStep ==
  ASSUME UNCHANGED <<stockTotal, stockReserved, reservationActive, stockCommitted>>
  PROVE  UNCHANGED Inv!vars
BY DEF Inv!vars, HoldingOrders, Available

\* Every handler is one step of Inventory or none.
LEMMA HandlerMaps ==
  ASSUME IInv, NEW o \in Order, Handler(o)
  PROVE  Inv!Next \/ UNCHANGED Inv!vars
<1> USE DEF stockVars
<1>0. /\ status[o] \notin PAID_STATUSES /\ ~(status[o] = CANCELADO /\ paidAt[o])
        => stockCommitted[o] = {}
  BY DEF IInv, CommittedFollowsStatus
<1>a. status[o] = SIN_ALTA \/ status[o] \in AWAITING_PAYMENT_STATUSES
        => stockCommitted[o] = {}
  BY DEF IInv, CommittedFollowsStatus, SIN_ALTA, AWAITING_PAYMENT_STATUSES,
         PAID_STATUSES, PENDIENTE_PAGO, PAGO_PENDIENTE_ACREDITACION,
         PAGO_RECHAZADO, PAGADO, EN_PREPARACION, DESPACHADO, ENTREGADO,
         CANCELADO, DEVUELTO
<1>1. CASE Confirm(o)
  <2>1. ~reservationActive[o]
    BY <1>1 DEF Confirm, IInv, ReservationFollowsStatus, SIN_ALTA,
                PENDIENTE_PAGO, PAGO_PENDIENTE_ACREDITACION
  <2> QED BY <1>1, <1>a, <2>1, ReserveIsHold DEF Confirm, Inv!Next
<1>2. CASE PreferenceRequestEnds(o)
  BY <1>2, QuietStep DEF PreferenceRequestEnds, orderVars
<1>3. CASE CompensateFailedPreference(o)
  BY <1>3, ReleaseIsDrop DEF CompensateFailedPreference, Inv!Next
<1>4. CASE RetryPayment(o)
  <2>1. CASE reservationActive[o]
    BY <1>4, <2>1, QuietStep DEF RetryPayment
  <2>2. CASE ~reservationActive[o]
    BY <1>4, <1>a, <2>2, ReserveIsHold
       DEF RetryPayment, Inv!Next, RETRYABLE_PAYMENT_STATUSES, AWAITING_PAYMENT_STATUSES
  <2> QED BY <2>1, <2>2
<1>5. CASE PaymentApproved(o)
  <2>1. ApplyApproved(o)
    BY <1>5 DEF PaymentApproved
  <2>2. status[o] = CANCELADO => ~paidAt[o]
    BY <2>1 DEF ApplyApproved, RefundsApproval, IInv, PaidAtFollowsStatus
  <2>3. stockCommitted[o] = {}
    BY <1>0, <2>1, <2>2 DEF ApplyApproved, RefundsApproval
  <2> QED BY <2>1, <2>3, ApprovedIsSale DEF Inv!Next
<1>6. CASE PaymentRejected(o)
  BY <1>6, ReleaseIsDrop DEF PaymentRejected, ApplyRejected, Inv!Next
<1>7. CASE PaymentPending(o)
  <2>1. UNCHANGED <<stockTotal, stockCommitted>>
    BY <1>7 DEF PaymentPending, ApplyPending
  <2>2. CASE status[o] = PAGO_RECHAZADO /\ Fits(Lines[o])
    <3>1. ~reservationActive[o]
      BY <2>2 DEF IInv, ReservationFollowsStatus, PAGO_RECHAZADO,
                  PENDIENTE_PAGO, PAGO_PENDIENTE_ACREDITACION
    <3>2. ReserveFor(o)
      BY <1>7, <2>2 DEF PaymentPending, ApplyPending
    <3> QED BY <1>a, <2>1, <2>2, <3>1, <3>2, ReserveIsHold
            DEF Inv!Next, AWAITING_PAYMENT_STATUSES
  <2>3. CASE ~(status[o] = PAGO_RECHAZADO /\ Fits(Lines[o]))
    BY <1>7, <2>1, <2>3, QuietStep DEF PaymentPending, ApplyPending
  <2> QED BY <2>2, <2>3
<1>8. CASE ReservationLapses(o)
  BY <1>8, QuietStep DEF ReservationLapses, orderVars
<1>9. CASE ExpireReservation(o)
  BY <1>9, ReleaseIsDrop DEF ExpireReservation, Inv!Next
<1>10. CASE CancelByCustomer(o)
  BY <1>10, CancellationMaps DEF CancelByCustomer, Inv!Next
<1>11. CASE CancelByAdmin(o)
  BY <1>11, CancellationMaps DEF CancelByAdmin, Inv!Next
<1>12. CASE AdvanceByAdmin(o)
  BY <1>12, QuietStep DEF AdvanceByAdmin, KeepStock
<1> QED BY <1>1, <1>2, <1>3, <1>4, <1>5, <1>6, <1>7, <1>8, <1>9, <1>10, <1>11,
           <1>12 DEF Handler

\* The orders move stock only in the five ways of Inventory: whatever the
\* interleaving of checkouts, payments, cron jobs and cancellations, a unit is
\* free, held by one order or sold to one order.
THEOREM OrdersImplementInventory == Spec => ImplementsInventory
<1>1. Init => Inv!Init
  BY OrdersAssumption DEF Init, Inv!Init, HoldingOrders, Available
<1>2. IInv /\ [Next]_vars => [Inv!Next]_(Inv!vars)
  <2>1. ASSUME IInv, Next
        PROVE  Inv!Next \/ UNCHANGED Inv!vars
    <3>1. PICK o \in Order : Handler(o)
      BY <2>1 DEF Next
    <3> QED BY <2>1, <3>1, HandlerMaps
  <2>2. ASSUME UNCHANGED vars
        PROVE  UNCHANGED Inv!vars
    BY <2>2, QuietStep DEF vars, orderVars, stockVars
  <2> QED BY <2>1, <2>2
<1> QED BY <1>1, <1>2, SpecIInv, PTL DEF Spec, ImplementsInventory, Inv!Spec

-----------------------------------------------------------------------------
(***************************************************************************)
(* Payments implements Orders.                                             *)
(***************************************************************************)

\* What the processing of a payment does to the orders.
LEMMA ProcessMaps ==
  ASSUME NEW p \in Payment, NEW s \in GatewayStatuses, ProcessPayment(p, s)
  PROVE  (\E o \in Order : o = PaidFor[p] /\ Handler(o)) \/ UNCHANGED vars
<1>1. PaidFor[p] \in Order
  BY PaymentsAssumption
<1>2. CASE ProcessApproved(p, s)
  BY <1>1, <1>2 DEF ProcessApproved, Handler
<1>3. CASE ProcessRejected(p, s)
  BY <1>1, <1>3 DEF ProcessRejected, Handler
<1>4. CASE ProcessPending(p, s)
  BY <1>1, <1>4 DEF ProcessPending, Handler
<1> QED BY <1>2, <1>3, <1>4 DEF ProcessPayment

\* Every step of the payments is a step of the orders or none.
LEMMA PNextMaps == [PNext]_pvars => [Next]_vars
<1> SUFFICES ASSUME [PNext]_pvars PROVE [Next]_vars
  OBVIOUS
<1>1. ASSUME NEW p \in Payment, GatewayMoves(p)
      PROVE  UNCHANGED vars
  BY <1>1 DEF GatewayMoves
<1>2. ASSUME NEW p \in Payment, NEW s \in GatewayStatuses, ProcessPayment(p, s)
      PROVE  [Next]_vars
  BY <1>2, ProcessMaps DEF Next
<1>3. ASSUME NEW o \in Order, PCancelByCustomer(o) \/ PCancelByAdmin(o) \/ OrderOnly(o)
      PROVE  Next
  BY <1>3 DEF PCancelByCustomer, PCancelByAdmin, OrderOnly, Next, Handler
<1>4. CASE UNCHANGED pvars
  BY <1>4 DEF pvars
<1> QED BY <1>1, <1>2, <1>3, <1>4 DEF PNext

\* Whatever the gateway answers, and in whatever order the answers are
\* processed, the orders behave as Orders says: what is shown above of the
\* stock and of the status of the orders holds with payments too.
THEOREM PaymentsImplementOrders == PSpec => ImplementsOrders
<1>1. PInit => Init
  BY DEF PInit
<1> QED BY <1>1, PNextMaps, PTL DEF PSpec, Spec, ImplementsOrders

-----------------------------------------------------------------------------
(***************************************************************************)
(* Refunds.                                                                *)
(***************************************************************************)

PInv ==
  /\ IInv
  /\ PTypeOK
  /\ RefundsWithinPayment
  /\ PaidByItsPayment

\* Where a refund may go, and what it does: at most one payment of the order
\* gives back the amount, and never more than its balance.
LEMMA RefundStep ==
  ASSUME PInv, NEW o \in Order, NEW C \in SUBSET Payment, NEW amount \in Nat,
         RequestRefund(o, C, amount)
  PROVE  \/ UNCHANGED refunded
         \/ \E p \in C : /\ PaidFor[p] = o
                         /\ paymentStatus'[p] = APROBADO
                         /\ refunded[p] + amount <= Amount[p]
                         /\ refunded' = [refunded EXCEPT ![p] = @ + amount]
<1> DEFINE eligible == { p \in C : /\ PaidFor[p] = o
                                   /\ paymentStatus'[p] = APROBADO
                                   /\ Refundable(p) >= amount }
<1>1. CASE amount > 0 /\ eligible # {}
  <2>1. PICK p \in eligible : refunded' = [refunded EXCEPT ![p] = @ + amount]
    BY <1>1 DEF RequestRefund
  <2>2. refunded[p] \in Nat /\ Amount[p] \in Nat
    BY <2>1, PaymentsAssumption DEF PInv, PTypeOK
  <2>3. refunded[p] + amount <= Amount[p]
    BY <2>1, <2>2 DEF Refundable
  <2> QED BY <2>1, <2>3
<1>2. CASE ~(amount > 0 /\ eligible # {})
  BY <1>2 DEF RequestRefund
<1> QED BY <1>1, <1>2

\* The refund of a cancellation is one of those.
LEMMA CancellationStep ==
  ASSUME PInv, NEW o \in Order, CancellationRefund(o), UNCHANGED paymentStatus
  PROVE  \/ UNCHANGED refunded
         \/ \E p \in Payment :
              /\ PaidFor[p] = o
              /\ paymentStatus[p] = APROBADO
              /\ refunded[p] + CancellationAmount(o) <= Amount[p]
              /\ refunded' = [refunded EXCEPT ![p] = @ + CancellationAmount(o)]
<1>1. CancellationAmount(o) \in Nat
  BY PaymentsAssumption DEF CancellationAmount
<1>2. CASE paidAt[o]
  BY <1>1, <1>2, RefundStep DEF CancellationRefund
<1>3. CASE ~paidAt[o]
  BY <1>3 DEF CancellationRefund
<1> QED BY <1>2, <1>3

\* Recording an answer changes the row of one payment, which was not approved.
LEMMA RecordStep ==
  ASSUME PTypeOK, NEW p \in Payment, NEW s \in GatewayStatuses, Record(p, s)
  PROVE  /\ paymentStatus' \in [Payment -> PaymentStatuses]
         /\ paymentStatus[p] # APROBADO
         /\ \A q \in Payment : q # p => paymentStatus'[q] = paymentStatus[q]
         /\ paymentStatus'[p] = STATUS_MAP[s]
<1>1. STATUS_MAP[s] \in PaymentStatuses
  BY DEF GatewayStatuses, STATUS_MAP, PaymentStatuses, FINAL_PAYMENT_STATUSES
<1> QED BY <1>1 DEF Record, PTypeOK, FINAL_PAYMENT_STATUSES

-----------------------------------------------------------------------------
\* What the processing of a payment, and a cancellation, do to the refunds.
LEMMA ProcessRefunds ==
  ASSUME PInv, NEW p \in Payment, NEW s \in GatewayStatuses, ProcessPayment(p, s)
  PROVE  \/ UNCHANGED refunded
         \/ /\ paymentStatus'[p] = APROBADO
            /\ Amount[p] = Total[PaidFor[p]]
            /\ refunded[p] = 0
            /\ refunded' = [refunded EXCEPT ![p] = @ + Amount[p]]
            /\ UNCHANGED vars
<1>1. PaidFor[p] \in Order /\ Amount[p] \in Nat
  BY PaymentsAssumption
<1>2. CASE ProcessApproved(p, s)
  <2>1. CASE RequestRefund(PaidFor[p], {p}, Amount[p]) /\ Exact(p) /\ UNCHANGED vars
    <3>1. refunded[p] = 0
      <4>1. paymentStatus[p] # APROBADO
        BY <1>2, RecordStep DEF ProcessApproved, PInv
      <4>2. refunded[p] \in Nat
        BY DEF PInv, PTypeOK
      <4> QED BY <4>1, <4>2 DEF PInv, RefundsWithinPayment
    <3>3. \/ UNCHANGED refunded
          \/ /\ paymentStatus'[p] = APROBADO
             /\ refunded' = [refunded EXCEPT ![p] = @ + Amount[p]]
      BY <2>1 DEF RequestRefund
    <3>4. CASE UNCHANGED refunded
      BY <3>4
    <3>5. CASE ~UNCHANGED refunded
      <4>1. /\ paymentStatus'[p] = APROBADO
            /\ refunded' = [refunded EXCEPT ![p] = @ + Amount[p]]
        BY <3>3, <3>5
      <4>2. Amount[p] = Total[PaidFor[p]] /\ UNCHANGED vars
        BY <2>1 DEF Exact
      <4> QED BY <3>1, <4>1, <4>2
    <3> QED BY <3>4, <3>5
  <2> QED BY <1>2, <2>1 DEF ProcessApproved
<1>3. CASE ProcessRejected(p, s) \/ ProcessPending(p, s)
  BY <1>3 DEF ProcessRejected, ProcessPending
<1> QED BY <1>2, <1>3 DEF ProcessPayment

\* Types of the variables of the payments.
LEMMA PTypeStep == PInv /\ [PNext]_pvars => PTypeOK'
<1> SUFFICES ASSUME PInv, [PNext]_pvars PROVE PTypeOK'
  OBVIOUS
<1> USE DEF PTypeOK
<1>0. TypeOK'
  BY NextIInv, PNextMaps DEF PInv, IInv
<1>1. ASSUME NEW p \in Payment, GatewayMoves(p)
      PROVE  PTypeOK'
  BY <1>0, <1>1 DEF GatewayMoves, PInv
<1>2. ASSUME NEW p \in Payment, NEW s \in GatewayStatuses, ProcessPayment(p, s)
      PROVE  PTypeOK'
  <2>1. Record(p, s) /\ UNCHANGED gatewayVars
    BY <1>2 DEF ProcessPayment, ProcessApproved, ProcessRejected, ProcessPending
  <2>2. paymentStatus' \in [Payment -> PaymentStatuses]
    BY <2>1, RecordStep DEF PInv
  <2>3. refunded' \in [Payment -> Nat]
    BY <1>2, ProcessRefunds, PaymentsAssumption DEF PInv
  <2> QED BY <1>0, <2>1, <2>2, <2>3 DEF gatewayVars, PInv
<1>3. ASSUME NEW o \in Order, PCancelByCustomer(o) \/ PCancelByAdmin(o)
      PROVE  PTypeOK'
  <2>1. CancellationRefund(o) /\ UNCHANGED <<gatewayVars, paymentStatus>>
    BY <1>3 DEF PCancelByCustomer, PCancelByAdmin
  <2>2. CancellationAmount(o) \in Nat
    BY PaymentsAssumption DEF CancellationAmount
  <2>3. refunded' \in [Payment -> Nat]
    BY <2>1, <2>2, CancellationStep DEF PInv
  <2> QED BY <1>0, <2>1, <2>3 DEF gatewayVars, PInv
<1>4. ASSUME NEW o \in Order, OrderOnly(o)
      PROVE  PTypeOK'
  BY <1>0, <1>4 DEF OrderOnly, paymentVars, gatewayVars, PInv
<1>5. CASE UNCHANGED pvars
  BY <1>0, <1>5 DEF pvars, paymentVars, gatewayVars, PInv
<1> QED BY <1>1, <1>2, <1>3, <1>4, <1>5 DEF PNext

-----------------------------------------------------------------------------
(***************************************************************************)
(* Balances.                                                               *)
(***************************************************************************)

\* An approved row stays approved.
LEMMA ApprovedStays ==
  ASSUME PInv, [PNext]_pvars, NEW q \in Payment, paymentStatus[q] = APROBADO
  PROVE  paymentStatus'[q] = APROBADO
<1>1. ASSUME NEW p \in Payment, NEW s \in GatewayStatuses, ProcessPayment(p, s)
      PROVE  paymentStatus'[q] = APROBADO
  <2>1. Record(p, s)
    BY <1>1 DEF ProcessPayment, ProcessApproved, ProcessRejected, ProcessPending
  <2> QED BY <2>1, RecordStep DEF PInv
<1>2. ASSUME NEW p \in Payment, GatewayMoves(p)
      PROVE  paymentStatus'[q] = APROBADO
  BY <1>2 DEF GatewayMoves
<1>3. ASSUME NEW o \in Order, PCancelByCustomer(o) \/ PCancelByAdmin(o) \/ OrderOnly(o)
      PROVE  paymentStatus'[q] = APROBADO
  BY <1>3 DEF PCancelByCustomer, PCancelByAdmin, OrderOnly, paymentVars
<1>4. CASE UNCHANGED pvars
  BY <1>4 DEF pvars, paymentVars
<1> QED BY <1>1, <1>2, <1>3, <1>4 DEF PNext

\* One refund at a time, against an approved payment with balance for it.
LEMMA RefundsStep ==
  ASSUME PInv, [PNext]_pvars
  PROVE  \/ UNCHANGED refunded
         \/ \E q \in Payment, amount \in Nat :
              /\ paymentStatus'[q] = APROBADO
              /\ refunded[q] + amount <= Amount[q]
              /\ refunded' = [refunded EXCEPT ![q] = @ + amount]
<1>1. ASSUME NEW p \in Payment, NEW s \in GatewayStatuses, ProcessPayment(p, s),
             ~UNCHANGED refunded
      PROVE  /\ paymentStatus'[p] = APROBADO
             /\ Amount[p] \in Nat
             /\ refunded[p] + Amount[p] <= Amount[p]
             /\ refunded' = [refunded EXCEPT ![p] = @ + Amount[p]]
  <2>1. /\ paymentStatus'[p] = APROBADO
        /\ refunded[p] = 0
        /\ refunded' = [refunded EXCEPT ![p] = @ + Amount[p]]
    BY <1>1, ProcessRefunds
  <2>2. Amount[p] \in Nat
    BY PaymentsAssumption
  <2>3. refunded[p] + Amount[p] <= Amount[p]
    BY <2>1, <2>2
  <2> QED BY <2>1, <2>2, <2>3
<1>2. ASSUME NEW o \in Order, PCancelByCustomer(o) \/ PCancelByAdmin(o),
             ~UNCHANGED refunded
      PROVE  \E q \in Payment, amount \in Nat :
               /\ paymentStatus'[q] = APROBADO
               /\ refunded[q] + amount <= Amount[q]
               /\ refunded' = [refunded EXCEPT ![q] = @ + amount]
  <2>1. CancellationRefund(o) /\ UNCHANGED paymentStatus
    BY <1>2 DEF PCancelByCustomer, PCancelByAdmin
  <2>2. CancellationAmount(o) \in Nat
    BY PaymentsAssumption DEF CancellationAmount
  <2>3. PICK q \in Payment :
          /\ paymentStatus[q] = APROBADO
          /\ refunded[q] + CancellationAmount(o) <= Amount[q]
          /\ refunded' = [refunded EXCEPT ![q] = @ + CancellationAmount(o)]
    BY <1>2, <2>1, CancellationStep
  <2> QED BY <2>1, <2>2, <2>3
<1>3. ASSUME NEW p \in Payment, GatewayMoves(p)
      PROVE  UNCHANGED refunded
  BY <1>3 DEF GatewayMoves
<1>4. ASSUME NEW o \in Order, OrderOnly(o)
      PROVE  UNCHANGED refunded
  BY <1>4 DEF OrderOnly, paymentVars
<1>5. CASE UNCHANGED pvars
  BY <1>5 DEF pvars, paymentVars
<1> QED BY <1>1, <1>2, <1>3, <1>4, <1>5 DEF PNext

\* So no payment ever gives back more than it charged.
LEMMA BalanceStep == PInv /\ [PNext]_pvars => RefundsWithinPayment'
<1> SUFFICES ASSUME PInv, [PNext]_pvars, NEW q \in Payment
             PROVE  /\ refunded'[q] <= Amount[q]
                    /\ refunded'[q] > 0 => paymentStatus'[q] = APROBADO
  BY DEF RefundsWithinPayment
<1>1. /\ refunded \in [Payment -> Nat]
      /\ refunded[q] <= Amount[q]
      /\ refunded[q] > 0 => paymentStatus[q] = APROBADO
  BY DEF PInv, PTypeOK, RefundsWithinPayment
<1>2. CASE UNCHANGED refunded
  BY <1>1, <1>2, ApprovedStays
<1>3. CASE ~UNCHANGED refunded
  <2>1. PICK p \in Payment, amount \in Nat :
          /\ paymentStatus'[p] = APROBADO
          /\ refunded[p] + amount <= Amount[p]
          /\ refunded' = [refunded EXCEPT ![p] = @ + amount]
    BY <1>3, RefundsStep
  <2>2. CASE q = p
    BY <1>1, <2>1, <2>2
  <2>3. CASE q # p
    BY <1>1, <2>1, <2>3, ApprovedStays
  <2> QED BY <2>2, <2>3
<1> QED BY <1>2, <1>3

-----------------------------------------------------------------------------
(***************************************************************************)
(* The payment that stands for a paid order.                               *)
(***************************************************************************)

StandsFor(p, o) ==
  PaidFor[p] = o /\ Exact(p) /\ paymentStatus[p] = APROBADO /\ refunded[p] = 0

\* It goes on standing for it until the order is cancelled: a refund goes to a
\* payment that was not approved until then, or cancels its own order.
LEMMA StandsStep ==
  ASSUME PInv, [PNext]_pvars, NEW q \in Payment, NEW o \in Order,
         StandsFor(q, o), status'[o] # CANCELADO
  PROVE  StandsFor(q, o)'
<1> USE DEF StandsFor, Exact
<1>1. paymentStatus'[q] = APROBADO
  BY ApprovedStays
<1>2. ASSUME NEW p \in Payment, NEW s \in GatewayStatuses, ProcessPayment(p, s)
      PROVE  refunded'[q] = 0
  <2>1. p # q
    <3>1. Record(p, s)
      BY <1>2 DEF ProcessPayment, ProcessApproved, ProcessRejected, ProcessPending
    <3> QED BY <3>1, RecordStep DEF PInv
  <2>2. UNCHANGED refunded \/ refunded' = [refunded EXCEPT ![p] = @ + Amount[p]]
    BY <1>2, ProcessRefunds
  <2> QED BY <2>1, <2>2 DEF PInv, PTypeOK
<1>3. ASSUME NEW u \in Order, PCancelByCustomer(u) \/ PCancelByAdmin(u)
      PROVE  refunded'[q] = 0
  <2>1. CancellationRefund(u) /\ UNCHANGED paymentStatus
    BY <1>3 DEF PCancelByCustomer, PCancelByAdmin
  <2>2. status'[u] = CANCELADO
    BY <1>3 DEF PCancelByCustomer, PCancelByAdmin, CancelByCustomer, CancelByAdmin,
                ApplyCancellation, ChangeStatus, PInv, IInv, TypeOK, OrderTypeOK
  <2>3. u # o
    BY <2>2
  <2>4. CASE UNCHANGED refunded
    BY <2>4
  <2>5. CASE ~UNCHANGED refunded
    <3>1. PICK p \in Payment :
            /\ PaidFor[p] = u
            /\ refunded' = [refunded EXCEPT ![p] = @ + CancellationAmount(u)]
      BY <2>1, <2>5, CancellationStep
    <3>2. p # q
      BY <2>3, <3>1
    <3> QED BY <3>1, <3>2 DEF PInv, PTypeOK
  <2> QED BY <2>4, <2>5
<1>4. ASSUME NEW p \in Payment, GatewayMoves(p)
      PROVE  refunded'[q] = 0
  BY <1>4 DEF GatewayMoves
<1>5. ASSUME NEW u \in Order, OrderOnly(u)
      PROVE  refunded'[q] = 0
  BY <1>5 DEF OrderOnly, paymentVars
<1>6. CASE UNCHANGED pvars
  BY <1>6 DEF pvars, paymentVars
<1>7. refunded'[q] = 0
  BY <1>2, <1>3, <1>4, <1>5, <1>6 DEF PNext
<1> QED BY <1>1, <1>7

\* No handler but the approval of a payment makes an order paid.
LEMMA OnlyApprovalsPay ==
  ASSUME IInv, NEW u \in Order, NEW o \in Order, status'[o] \in PAID_STATUSES,
         \/ OrderOnly(u) \/ PaymentRejected(u) \/ PaymentPending(u)
         \/ CancelByCustomer(u) \/ CancelByAdmin(u)
  PROVE  status[o] \in PAID_STATUSES
<1> USE DEF IInv, TypeOK, OrderTypeOK, ChangeStatus, PAID_STATUSES, PENDIENTE_PAGO,
            PAGO_PENDIENTE_ACREDITACION, PAGO_RECHAZADO, PAGADO, EN_PREPARACION,
            DESPACHADO, ENTREGADO, CANCELADO, DEVUELTO
<1>1. ASSUME NEW to, NEW cause, ChangeStatus(u, to, cause), to \notin PAID_STATUSES
      PROVE  status[o] \in PAID_STATUSES
  BY <1>1
<1>2. CASE Confirm(u)
  BY <1>2 DEF Confirm
<1>3. CASE PreferenceRequestEnds(u) \/ ReservationLapses(u)
  BY <1>3 DEF PreferenceRequestEnds, ReservationLapses, orderVars
<1>4. CASE CompensateFailedPreference(u) \/ ExpireReservation(u)
  BY <1>1, <1>4 DEF CompensateFailedPreference, ExpireReservation
<1>5. CASE RetryPayment(u)
  BY <1>1, <1>5 DEF RetryPayment, statusVars
<1>6. CASE AdvanceByAdmin(u)
  BY <1>6 DEF AdvanceByAdmin, ADMIN_TRANSITIONS
<1>7. CASE PaymentRejected(u) \/ PaymentPending(u)
  BY <1>1, <1>7 DEF PaymentRejected, ApplyRejected, PaymentPending, ApplyPending
<1>8. CASE CancelByCustomer(u) \/ CancelByAdmin(u)
  BY <1>1, <1>8 DEF CancelByCustomer, CancelByAdmin, ApplyCancellation
<1> QED BY <1>2, <1>3, <1>4, <1>5, <1>6, <1>7, <1>8 DEF OrderOnly

\* No handler but a cancellation by its customer or an administrator takes a
\* paid order to CANCELADO.
LEMMA OnlyCancellationsCancel ==
  ASSUME IInv, NEW u \in Order, NEW o \in Order, status[o] \in PAID_STATUSES,
         OrderOnly(u) \/ PaymentApproved(u) \/ PaymentRejected(u) \/ PaymentPending(u)
  PROVE  status'[o] # CANCELADO
<1> USE DEF IInv, TypeOK, OrderTypeOK, ChangeStatus, PAID_STATUSES, PENDIENTE_PAGO,
            PAGO_PENDIENTE_ACREDITACION, PAGO_RECHAZADO, PAGADO, EN_PREPARACION,
            DESPACHADO, ENTREGADO, CANCELADO, DEVUELTO
<1>1. ASSUME NEW to, NEW cause, ChangeStatus(u, to, cause), to # CANCELADO
      PROVE  status'[o] # CANCELADO
  BY <1>1
<1>2. CASE Confirm(u)
  BY <1>2 DEF Confirm
<1>3. CASE PreferenceRequestEnds(u) \/ ReservationLapses(u)
  BY <1>3 DEF PreferenceRequestEnds, ReservationLapses, orderVars
<1>4. CASE CompensateFailedPreference(u) \/ ExpireReservation(u)
  <2>1. u # o
    BY <1>4 DEF CompensateFailedPreference, ExpireReservation,
                AWAITING_PAYMENT_STATUSES
  <2>2. \E cause : ChangeStatus(u, CANCELADO, cause)
    BY <1>4 DEF CompensateFailedPreference, ExpireReservation
  <2> QED BY <2>1, <2>2
<1>5. CASE RetryPayment(u)
  BY <1>1, <1>5 DEF RetryPayment, statusVars
<1>6. CASE AdvanceByAdmin(u)
  BY <1>6 DEF AdvanceByAdmin, ADMIN_TRANSITIONS
<1>7. CASE PaymentApproved(u) \/ PaymentRejected(u) \/ PaymentPending(u)
  BY <1>1, <1>7 DEF PaymentApproved, ApplyApproved, PaymentRejected, ApplyRejected,
                    PaymentPending, ApplyPending
<1> QED BY <1>2, <1>3, <1>4, <1>5, <1>6, <1>7 DEF OrderOnly

\* A paid order always has a payment that stands for it.
LEMMA PaidStep == PInv /\ [PNext]_pvars => PaidByItsPayment'
<1> SUFFICES ASSUME PInv, [PNext]_pvars, NEW o \in Order, status'[o] \in PAID_STATUSES
             PROVE  \E q \in Payment : StandsFor(q, o)'
  BY DEF PaidByItsPayment, StandsFor, Exact
<1>1. status'[o] # CANCELADO
  BY DEF PAID_STATUSES, PAGADO, EN_PREPARACION, DESPACHADO, ENTREGADO, DEVUELTO,
         CANCELADO
<1>2. CASE status[o] \in PAID_STATUSES
  <2>1. PICK q \in Payment : StandsFor(q, o)
    BY <1>2 DEF PInv, PaidByItsPayment, StandsFor
  <2> QED BY <1>1, <2>1, StandsStep
<1>3. CASE status[o] \notin PAID_STATUSES
  <2>1. ASSUME NEW p \in Payment, NEW s \in GatewayStatuses, ProcessPayment(p, s)
        PROVE  \E q \in Payment : StandsFor(q, o)'
    <3>1. PaidFor[p] \in Order
      BY PaymentsAssumption
    <3>2. UNCHANGED vars => status'[o] = status[o]
      BY DEF vars, orderVars
    <3>3. /\ ProcessApproved(p, s)
          /\ Exact(p)
          /\ PaymentApproved(PaidFor[p])
          /\ UNCHANGED refunded
      BY <1>3, <2>1, <3>1, <3>2, OnlyApprovalsPay
         DEF ProcessPayment, ProcessApproved, ProcessRejected, ProcessPending, PInv
    <3>4. PaidFor[p] = o
      BY <1>3, <3>1, <3>3 DEF PaymentApproved, ApplyApproved, ChangeStatus, PInv,
                              IInv, TypeOK, OrderTypeOK
    <3>5. Record(p, s) /\ STATUS_MAP[s] = APROBADO
      BY <3>3 DEF ProcessApproved
    <3>6. paymentStatus[p] # APROBADO /\ paymentStatus'[p] = APROBADO
      BY <3>5, RecordStep DEF PInv
    <3>7. refunded[p] = 0
      BY <3>6 DEF PInv, PTypeOK, RefundsWithinPayment
    <3> QED BY <3>3, <3>4, <3>6, <3>7 DEF StandsFor, Exact
  <2>2. ASSUME NEW p \in Payment, GatewayMoves(p)
        PROVE  FALSE
    BY <1>3, <2>2 DEF GatewayMoves, vars, orderVars
  <2>3. ASSUME NEW u \in Order, PCancelByCustomer(u) \/ PCancelByAdmin(u) \/ OrderOnly(u)
        PROVE  FALSE
    BY <1>3, <2>3, OnlyApprovalsPay DEF PCancelByCustomer, PCancelByAdmin, PInv
  <2>4. CASE UNCHANGED pvars
    BY <1>3, <2>4 DEF pvars, vars, orderVars
  <2> QED BY <2>1, <2>2, <2>3, <2>4 DEF PNext
<1> QED BY <1>2, <1>3

-----------------------------------------------------------------------------
(***************************************************************************)
(* The theorems.                                                           *)
(***************************************************************************)

\* The inductive invariant of the payments.
LEMMA SpecPInv == PSpec => []PInv
<1>1. PInit => PInv
  <2> SUFFICES ASSUME PInit PROVE PInv
    OBVIOUS
  <2>1. IInv
    BY InitIInv DEF PInit
  <2>2. PTypeOK
    BY <2>1 DEF PInit, PTypeOK, IInv, PaymentStatuses
  <2>3. RefundsWithinPayment
    BY PaymentsAssumption DEF PInit, RefundsWithinPayment
  <2>4. PaidByItsPayment
    BY DEF PInit, Init, PaidByItsPayment, SIN_ALTA, PAID_STATUSES, PAGADO,
           EN_PREPARACION, DESPACHADO, ENTREGADO, DEVUELTO
  <2> QED BY <2>1, <2>2, <2>3, <2>4 DEF PInv
<1>2. PInv /\ [PNext]_pvars => PInv'
  <2> SUFFICES ASSUME PInv, [PNext]_pvars PROVE PInv'
    OBVIOUS
  <2>1. IInv'
    BY NextIInv, PNextMaps DEF PInv
  <2>2. PTypeOK'
    BY PTypeStep
  <2>3. RefundsWithinPayment' /\ PaidByItsPayment'
    BY BalanceStep, PaidStep
  <2> QED BY <2>1, <2>2, <2>3 DEF PInv
<1> QED BY <1>1, <1>2, PTL DEF PSpec

\* Every variable of the payments keeps its type.
THEOREM PaymentsTypeCorrect == PSpec => []PTypeOK
<1>1. PInv => PTypeOK
  BY DEF PInv
<1> QED BY <1>1, SpecPInv, PTL

\* However many payments, refunds and cancellations there are, no payment gives
\* back more than it charged.
THEOREM RefundsAlwaysFit == PSpec => []RefundsWithinPayment
<1>1. PInv => RefundsWithinPayment
  BY DEF PInv
<1> QED BY <1>1, SpecPInv, PTL

\* An order that counts as paid has an approved payment of its exact amount, of
\* which nothing was given back.
THEOREM PaidOrdersArePaid == PSpec => []PaidByItsPayment
<1>1. PInv => PaidByItsPayment
  BY DEF PInv
<1> QED BY <1>1, SpecPInv, PTL

\* The cancellation of a paid order finds a payment to give back from: at the
\* least the one that stands for it.
LEMMA CancellationTakes ==
  ASSUME PInv, NEW o \in Order, status[o] \in PAID_STATUSES, paidAt[o],
         CancellationRefund(o), UNCHANGED paymentStatus
  PROVE  \E p \in ApprovedFor(o) :
           refunded' = [refunded EXCEPT ![p] = @ + CancellationAmount(o)]
<1>1. RequestRefund(o, Payment, CancellationAmount(o))
  BY DEF CancellationRefund
<1>2. /\ CancellationAmount(o) \in Nat
      /\ CancellationAmount(o) > 0
      /\ CancellationAmount(o) <= Total[o]
  BY PaymentsAssumption DEF CancellationAmount
<1>3. PICK q \in Payment : StandsFor(q, o)
  BY DEF PInv, PaidByItsPayment, StandsFor
<1>4. Refundable(q) >= CancellationAmount(o)
  <2>1. Refundable(q) = Total[o] - 0 /\ Total[o] \in Nat
    BY <1>3, PaymentsAssumption DEF Refundable, StandsFor, Exact
  <2> QED BY <1>2, <2>1
<1>5. PICK p \in Payment : /\ PaidFor[p] = o
                           /\ paymentStatus'[p] = APROBADO
                           /\ refunded' = [refunded EXCEPT ![p] = @ + CancellationAmount(o)]
  BY <1>1, <1>2, <1>3, <1>4 DEF RequestRefund, StandsFor
<1> QED BY <1>5 DEF ApprovedFor

\* The step that cancels a paid order is the cancellation, and it records the
\* refund.
LEMMA CancelsWithRefund ==
  ASSUME PInv, PNext, NEW o \in Order, paidAt[o], status[o] # CANCELADO,
         status'[o] = CANCELADO
  PROVE  \E p \in ApprovedFor(o) : refunded'[p] = refunded[p] + CancellationAmount(o)
<1>1. status[o] \in PAID_STATUSES
  BY DEF PInv, IInv, TypeOK, OrderTypeOK, OrderStatuses, PaidAtFollowsStatus,
         AWAITING_PAYMENT_STATUSES, PAID_STATUSES
<1>2. CASE PCancelByCustomer(o) \/ PCancelByAdmin(o)
  <2>1. CancellationRefund(o) /\ UNCHANGED paymentStatus
    BY <1>2 DEF PCancelByCustomer, PCancelByAdmin
  <2>2. PICK p \in ApprovedFor(o) :
          refunded' = [refunded EXCEPT ![p] = @ + CancellationAmount(o)]
    BY <1>1, <2>1, CancellationTakes
  <2> QED BY <2>2 DEF ApprovedFor, PInv, PTypeOK
<1>3. ASSUME NEW u \in Order, u # o, PCancelByCustomer(u) \/ PCancelByAdmin(u)
      PROVE  FALSE
  BY <1>3 DEF PCancelByCustomer, PCancelByAdmin, CancelByCustomer, CancelByAdmin,
              ApplyCancellation, ChangeStatus, PInv, IInv, TypeOK, OrderTypeOK
<1>4. ASSUME NEW u \in Order, OrderOnly(u)
      PROVE  FALSE
  BY <1>1, <1>4, OnlyCancellationsCancel DEF PInv
<1>5. ASSUME NEW p \in Payment, NEW s \in GatewayStatuses, ProcessPayment(p, s)
      PROVE  FALSE
  <2>1. PaidFor[p] \in Order
    BY PaymentsAssumption
  <2>2. UNCHANGED vars => status'[o] = status[o]
    BY DEF vars, orderVars
  <2> QED BY <1>1, <1>5, <2>1, <2>2, OnlyCancellationsCancel
          DEF ProcessPayment, ProcessApproved, ProcessRejected, ProcessPending, PInv
<1>6. ASSUME NEW p \in Payment, GatewayMoves(p)
      PROVE  FALSE
  BY <1>6 DEF GatewayMoves, vars, orderVars
<1> QED BY <1>2, <1>3, <1>4, <1>5, <1>6 DEF PNext

\* Never a firm cancellation of a paid order without its refund: in the same
\* step, for the exact amount and against one payment with balance for it.
THEOREM CancellationsRefund == PSpec => CancellationFindsItsRefund
<1> DEFINE Refunds ==
      \A o \in Order :
        paidAt[o] /\ status[o] # CANCELADO /\ status'[o] = CANCELADO =>
          \E p \in ApprovedFor(o) :
            refunded'[p] = refunded[p] + CancellationAmount(o)
<1>1. PInv /\ [PNext]_pvars => [Refunds]_pvars
  BY CancelsWithRefund
<1>2. PSpec => [][Refunds]_pvars
  BY <1>1, SpecPInv, PTL DEF PSpec
<1> QED BY <1>2 DEF CancellationFindsItsRefund

-----------------------------------------------------------------------------
(***************************************************************************)
(* The money of an order.  What it must keep moves with the order, what it *)
(* keeps moves with its payments, and each step moves both by as much.     *)
(***************************************************************************)

\* Only what was paid is dispatched, and then it is never again on its way.
DispatchedWasPaid ==
  \A o \in Order :
    dispatched[o] =>
      paidAt[o] /\ status[o] \in {DESPACHADO, ENTREGADO, DEVUELTO, CANCELADO}

\* At any moment finitely many payments were approved.
ApprovedAreFinite == \A o \in Order : IsFiniteSet(ApprovedFor(o))

\* What the shop must keep of an order.
MustKeep(o) ==
  IF ~paidAt[o] THEN 0
  ELSE IF status[o] # CANCELADO THEN Total[o]
  ELSE IF dispatched[o] THEN Total[o] - Subtotal[o] ELSE 0

MoneyInv ==
  /\ DispatchedWasPaid
  /\ ApprovedAreFinite
  /\ \A o \in Order : Kept(o) = MustKeep(o)

LEMMA DispatchedHandler ==
  ASSUME IInv, DispatchedWasPaid, NEW o \in Order, Handler(o)
  PROVE  DispatchedWasPaid'
<1> USE DEF IInv, TypeOK, OrderTypeOK, DispatchedWasPaid, ChangeStatus,
            PaidAtFollowsStatus, SIN_ALTA, AWAITING_PAYMENT_STATUSES, PAID_STATUSES,
            RETRYABLE_PAYMENT_STATUSES, PENDIENTE_PAGO, PAGO_PENDIENTE_ACREDITACION,
            PAGO_RECHAZADO, PAGADO, EN_PREPARACION, DESPACHADO, ENTREGADO, CANCELADO,
            DEVUELTO
<1>1. CASE Confirm(o)
  BY <1>1 DEF Confirm
<1>2. CASE PreferenceRequestEnds(o) \/ ReservationLapses(o)
  BY <1>2 DEF PreferenceRequestEnds, ReservationLapses, orderVars
<1>3. CASE CompensateFailedPreference(o) \/ ExpireReservation(o)
  BY <1>3 DEF CompensateFailedPreference, ExpireReservation
<1>4. CASE RetryPayment(o)
  BY <1>4 DEF RetryPayment, statusVars
<1>5. CASE PaymentRejected(o) \/ PaymentPending(o)
  BY <1>5 DEF PaymentRejected, ApplyRejected, TakesRejection, PaymentPending,
              ApplyPending, TakesPending
<1>6. CASE PaymentApproved(o)
  <2>1. ~dispatched[o]
    BY <1>6 DEF PaymentApproved, ApplyApproved, RefundsApproval
  <2> QED BY <1>6, <2>1 DEF PaymentApproved, ApplyApproved
<1>7. CASE CancelByCustomer(o) \/ CancelByAdmin(o)
  BY <1>7 DEF CancelByCustomer, CancelByAdmin, ApplyCancellation
<1>8. CASE AdvanceByAdmin(o)
  BY <1>8 DEF AdvanceByAdmin, ADMIN_TRANSITIONS
<1> QED BY <1>1, <1>2, <1>3, <1>4, <1>5, <1>6, <1>7, <1>8 DEF Handler

LEMMA DispatchedStep ==
  ASSUME IInv, DispatchedWasPaid, [Next]_vars
  PROVE  DispatchedWasPaid'
<1>1. CASE Next
  BY <1>1, DispatchedHandler DEF Next
<1>2. CASE UNCHANGED vars
  BY <1>2 DEF vars, orderVars, DispatchedWasPaid
<1> QED BY <1>1, <1>2

\* The handlers that no payment and no refund goes with leave what must be kept.
LEMMA MustKeepStays ==
  ASSUME IInv, NEW u \in Order, NEW o \in Order,
         OrderOnly(u) \/ PaymentRejected(u) \/ PaymentPending(u) \/ UNCHANGED vars
  PROVE  MustKeep(o)' = MustKeep(o)
<1> USE DEF IInv, TypeOK, OrderTypeOK, MustKeep, ChangeStatus,
            PaidAtFollowsStatus, SIN_ALTA, AWAITING_PAYMENT_STATUSES, PAID_STATUSES,
            RETRYABLE_PAYMENT_STATUSES, PENDIENTE_PAGO, PAGO_PENDIENTE_ACREDITACION,
            PAGO_RECHAZADO, PAGADO, EN_PREPARACION, DESPACHADO, ENTREGADO, CANCELADO,
            DEVUELTO
<1>1. CASE Confirm(u)
  BY <1>1 DEF Confirm
<1>2. CASE PreferenceRequestEnds(u) \/ ReservationLapses(u) \/ UNCHANGED vars
  BY <1>2 DEF PreferenceRequestEnds, ReservationLapses, orderVars, vars
<1>3. CASE CompensateFailedPreference(u) \/ ExpireReservation(u)
  BY <1>3 DEF CompensateFailedPreference, ExpireReservation
<1>4. CASE RetryPayment(u)
  BY <1>4 DEF RetryPayment, statusVars
<1>5. CASE PaymentRejected(u) \/ PaymentPending(u)
  BY <1>5 DEF PaymentRejected, ApplyRejected, TakesRejection, PaymentPending,
              ApplyPending, TakesPending
<1>6. CASE AdvanceByAdmin(u)
  BY <1>6 DEF AdvanceByAdmin, ADMIN_TRANSITIONS
<1> QED BY <1>1, <1>2, <1>3, <1>4, <1>5, <1>6 DEF OrderOnly

\* An approval that counts obliges to keep the total of its order.
LEMMA MustKeepApproved ==
  ASSUME IInv, NEW u \in Order, PaymentApproved(u)
  PROVE  /\ MustKeep(u) = 0 /\ MustKeep(u)' = Total[u]
         /\ \A o \in Order \ {u} : MustKeep(o)' = MustKeep(o)
<1> USE DEF IInv, TypeOK, OrderTypeOK, MustKeep, ChangeStatus, PAGADO, CANCELADO,
            PaymentApproved, ApplyApproved
<1>1. ~paidAt[u]
  BY DEF RefundsApproval, OrderStatuses, PaidAtFollowsStatus, PAID_STATUSES,
         AWAITING_PAYMENT_STATUSES, SIN_ALTA
<1>2. status'[u] = PAGADO /\ paidAt'[u]
  OBVIOUS
<1>3. \A o \in Order \ {u} : /\ status'[o] = status[o] /\ paidAt'[o] = paidAt[o]
                             /\ dispatched'[o] = dispatched[o]
  OBVIOUS
<1> QED BY <1>1, <1>2, <1>3

\* A cancellation of a paid order obliges to keep less by what it gives back.
LEMMA MustKeepCancelled ==
  ASSUME IInv, DispatchedWasPaid, NEW u \in Order, CancelByCustomer(u) \/ CancelByAdmin(u)
  PROVE  /\ ~paidAt[u] => MustKeep(u)' = MustKeep(u)
         /\ paidAt[u] => /\ status[u] \in PAID_STATUSES
                         /\ MustKeep(u)' = MustKeep(u) - CancellationAmount(u)
         /\ \A o \in Order \ {u} : MustKeep(o)' = MustKeep(o)
<1> USE DEF IInv, TypeOK, OrderTypeOK, ChangeStatus, ApplyCancellation
<1>1. /\ status'[u] = CANCELADO /\ paidAt'[u] = paidAt[u] /\ dispatched'[u] = dispatched[u]
      /\ status[u] \notin {CANCELADO, ENTREGADO, DEVUELTO}
      /\ status[u] \in OrderStatuses
  BY DEF CancelByCustomer, CancelByAdmin, CUSTOMER_CANCELLABLE_STATUSES,
         AWAITING_PAYMENT_STATUSES, ADMIN_NON_CANCELLABLE_STATUSES, CanTransition,
         PENDIENTE_PAGO, PAGO_PENDIENTE_ACREDITACION, PAGO_RECHAZADO, PAGADO,
         EN_PREPARACION, DESPACHADO, ENTREGADO, CANCELADO, DEVUELTO
<1>2. \A o \in Order \ {u} : /\ status'[o] = status[o] /\ paidAt'[o] = paidAt[o]
                             /\ dispatched'[o] = dispatched[o]
  BY DEF CancelByCustomer, CancelByAdmin
<1>3. dispatched[u] <=> status[u] = DESPACHADO
  BY <1>1 DEF DispatchedWasPaid, PaidAtFollowsStatus
<1>4. paidAt[u] => status[u] \in PAID_STATUSES
  BY <1>1 DEF OrderStatuses, PaidAtFollowsStatus, PAID_STATUSES,
              AWAITING_PAYMENT_STATUSES
<1>5. paidAt[u] => MustKeep(u)' = MustKeep(u) - CancellationAmount(u)
  <2>1. Total[u] \in Nat /\ Subtotal[u] \in Nat
    BY PaymentsAssumption
  <2> QED BY <1>1, <1>3, <2>1 DEF MustKeep, CancellationAmount
<1> QED BY <1>1, <1>2, <1>4, <1>5 DEF MustKeep

-----------------------------------------------------------------------------
\* What an order keeps depends on its approved payments and on their refunds.
LEMMA KeptSame ==
  ASSUME NEW o \in Order, ApprovedFor(o)' = ApprovedFor(o),
         \A p \in ApprovedFor(o) : refunded'[p] = refunded[p]
  PROVE  Kept(o)' = Kept(o)
<1>1. SumOver(refunded', ApprovedFor(o)) = SumOver(refunded, ApprovedFor(o))
  BY SumSame
<1> QED BY <1>1 DEF Kept, Exact

\* The sums of an order are of natural numbers, and finite.
LEMMA KeptType ==
  ASSUME PInv, ApprovedAreFinite, NEW o \in Order
  PROVE  /\ IsFiniteSet(ApprovedFor(o))
         /\ IsFiniteSet({ p \in ApprovedFor(o) : Exact(p) })
         /\ \A p \in ApprovedFor(o) : refunded[p] \in Nat /\ Amount[p] \in Nat
         /\ SumOver(refunded, ApprovedFor(o)) \in Nat
         /\ SumOver(Amount, { p \in ApprovedFor(o) : Exact(p) }) \in Nat
<1>1. IsFiniteSet(ApprovedFor(o))
  BY DEF ApprovedAreFinite
<1>2. IsFiniteSet({ p \in ApprovedFor(o) : Exact(p) })
  <2>1. { p \in ApprovedFor(o) : Exact(p) } \in SUBSET ApprovedFor(o)
    OBVIOUS
  <2> QED BY <1>1, <2>1, FS_Subset
<1>3. \A p \in ApprovedFor(o) : refunded[p] \in Nat /\ Amount[p] \in Nat
  BY PaymentsAssumption DEF ApprovedFor, PInv, PTypeOK
<1> QED BY <1>1, <1>2, <1>3, SumType

\* The approved payments, when an answer is recorded.
LEMMA ApprovedRecord ==
  ASSUME PInv, NEW p \in Payment, NEW s \in GatewayStatuses, Record(p, s)
  PROVE  /\ \A o \in Order : p \notin ApprovedFor(o)
         /\ STATUS_MAP[s] # APROBADO => \A o \in Order : ApprovedFor(o)' = ApprovedFor(o)
         /\ STATUS_MAP[s] = APROBADO =>
              /\ ApprovedFor(PaidFor[p])' = ApprovedFor(PaidFor[p]) \cup {p}
              /\ \A o \in Order \ {PaidFor[p]} : ApprovedFor(o)' = ApprovedFor(o)
<1>1. /\ paymentStatus[p] # APROBADO
      /\ \A q \in Payment : q # p => paymentStatus'[q] = paymentStatus[q]
      /\ paymentStatus'[p] = STATUS_MAP[s]
  BY RecordStep DEF PInv
<1> QED BY <1>1 DEF ApprovedFor

\* A payment that is approved adds to what its order keeps its amount, if it is
\* the exact one, less what is given back of it at once.
LEMMA KeptApproved ==
  ASSUME PInv, ApprovedAreFinite, NEW p \in Payment,
         p \notin ApprovedFor(PaidFor[p]),
         ApprovedFor(PaidFor[p])' = ApprovedFor(PaidFor[p]) \cup {p},
         \A q \in Payment \ {p} : refunded'[q] = refunded[q],
         refunded'[p] \in Nat
  PROVE  Kept(PaidFor[p])' =
           Kept(PaidFor[p]) + (IF Exact(p) THEN Amount[p] ELSE 0) - refunded'[p]
<1> DEFINE o == PaidFor[p]
           A == ApprovedFor(o)
           E == { q \in A : Exact(q) }
<1>0. o \in Order /\ Amount[p] \in Nat
  BY PaymentsAssumption
<1>1. /\ IsFiniteSet(A) /\ IsFiniteSet(E)
      /\ \A q \in A : refunded[q] \in Nat /\ Amount[q] \in Nat
      /\ SumOver(refunded, A) \in Nat /\ SumOver(Amount, E) \in Nat
  BY <1>0, KeptType
<1>2. SumOver(refunded', A \cup {p}) = SumOver(refunded, A) + refunded'[p]
  <2>1. \A q \in A : refunded'[q] = refunded[q]
    BY DEF ApprovedFor
  <2>2. SumOver(refunded', A \cup {p}) = SumOver(refunded', A) + refunded'[p]
    BY <1>1, <2>1, SumAdd
  <2>3. SumOver(refunded', A) = SumOver(refunded, A)
    BY <2>1, SumSame
  <2> QED BY <2>2, <2>3
<1>3. SumOver(Amount, { q \in A \cup {p} : Exact(q) }) =
        SumOver(Amount, E) + (IF Exact(p) THEN Amount[p] ELSE 0)
  <2>1. CASE Exact(p)
    <3>1. { q \in A \cup {p} : Exact(q) } = E \cup {p} /\ p \notin E
      BY <2>1
    <3>2. SumOver(Amount, E \cup {p}) = SumOver(Amount, E) + Amount[p]
      BY <1>0, <1>1, <3>1, SumAdd
    <3> QED BY <2>1, <3>1, <3>2
  <2>2. CASE ~Exact(p)
    <3>1. { q \in A \cup {p} : Exact(q) } = E
      BY <2>2
    <3> QED BY <1>1, <2>2, <3>1
  <2> QED BY <2>1, <2>2
<1>4. Kept(o)' = SumOver(Amount, { q \in A \cup {p} : Exact(q) }) - SumOver(refunded', A \cup {p})
  BY DEF Kept, Exact
<1> QED BY <1>0, <1>1, <1>2, <1>3, <1>4 DEF Kept

\* A refund of an approved payment takes its amount from what the order keeps.
LEMMA KeptRefunded ==
  ASSUME PInv, ApprovedAreFinite, NEW o \in Order, NEW p \in ApprovedFor(o),
         NEW amount \in Nat, ApprovedFor(o)' = ApprovedFor(o),
         refunded' = [refunded EXCEPT ![p] = @ + amount]
  PROVE  Kept(o)' = Kept(o) - amount
<1> DEFINE A == ApprovedFor(o)
           E == { q \in A : Exact(q) }
<1>1. /\ IsFiniteSet(A)
      /\ \A q \in A : refunded[q] \in Nat
      /\ SumOver(refunded, A) \in Nat /\ SumOver(Amount, E) \in Nat
  BY KeptType
<1>2. /\ refunded'[p] = refunded[p] + amount
      /\ \A q \in A \ {p} : refunded'[q] = refunded[q]
  BY DEF ApprovedFor, PInv, PTypeOK
<1>3. SumOver(refunded', A) = SumOver(refunded, A) - refunded[p] + refunded'[p]
  <2> DEFINE f == refunded
             g == refunded'
  <2>1. p \in A /\ \A q \in A : f[q] \in Nat /\ g[q] \in Nat
    BY <1>1, <1>2
  <2>2. \A q \in A \ {p} : g[q] = f[q]
    BY <1>2
  <2> HIDE DEF A, f, g
  <2>3. SumOver(g, A) = SumOver(f, A) - f[p] + g[p]
    BY <1>1, <2>1, <2>2, SumChange
  <2> QED BY <2>3 DEF f, g
<1>4. Kept(o)' = SumOver(Amount, E) - SumOver(refunded', A)
  BY DEF Kept, Exact
<1> QED BY <1>1, <1>2, <1>3, <1>4 DEF Kept

-----------------------------------------------------------------------------
\* The approval of a payment.
LEMMA ApprovalMoney ==
  ASSUME PInv, MoneyInv, NEW p \in Payment, NEW s \in GatewayStatuses,
         ProcessApproved(p, s), NEW o \in Order
  PROVE  IsFiniteSet(ApprovedFor(o)') /\ Kept(o)' = MustKeep(o)'
<1>1. /\ PaidFor[p] \in Order /\ Amount[p] \in Nat
      /\ Total[PaidFor[p]] \in Nat /\ Total[PaidFor[p]] > 0
  BY PaymentsAssumption
<1>2. Record(p, s) /\ STATUS_MAP[s] = APROBADO
  BY DEF ProcessApproved
<1>3. /\ p \notin ApprovedFor(PaidFor[p])
      /\ ApprovedFor(PaidFor[p])' = ApprovedFor(PaidFor[p]) \cup {p}
      /\ \A u \in Order \ {PaidFor[p]} : ApprovedFor(u)' = ApprovedFor(u)
      /\ paymentStatus[p] # APROBADO /\ paymentStatus'[p] = APROBADO
  BY <1>1, <1>2, ApprovedRecord, RecordStep DEF PInv
<1>4. refunded[p] = 0 /\ refunded \in [Payment -> Nat]
  BY <1>3 DEF PInv, PTypeOK, RefundsWithinPayment
<1>5. IsFiniteSet(ApprovedFor(o)) /\ Kept(o) = MustKeep(o)
  BY DEF MoneyInv, ApprovedAreFinite
<1>6. IsFiniteSet(ApprovedFor(o)')
  <2>1. IsFiniteSet(ApprovedFor(o) \cup {p})
    BY <1>5, FS_AddElement
  <2> QED BY <1>3, <1>5, <2>1
<1>7. CASE ~Exact(p) /\ UNCHANGED <<vars, refunded>>
  <2>1. MustKeep(o)' = MustKeep(o)
    BY <1>7, MustKeepStays DEF PInv
  <2>2. CASE o = PaidFor[p]
    <3>1. Kept(o)' = Kept(o) + 0 - 0
      BY <1>3, <1>4, <1>7, <2>2, KeptApproved DEF MoneyInv
    <3>2. Kept(o) \in Int
      BY KeptType DEF MoneyInv, Kept
    <3> QED BY <1>5, <1>6, <2>1, <3>1, <3>2
  <2>3. CASE o # PaidFor[p]
    BY <1>3, <1>5, <1>7, <2>1, <2>3, KeptSame
  <2> QED BY <2>2, <2>3
<1>8. CASE Exact(p) /\ PaymentApproved(PaidFor[p]) /\ UNCHANGED refunded
  <2>1. /\ MustKeep(PaidFor[p]) = 0 /\ MustKeep(PaidFor[p])' = Total[PaidFor[p]]
        /\ o # PaidFor[p] => MustKeep(o)' = MustKeep(o)
    BY <1>1, <1>8, MustKeepApproved DEF PInv
  <2>2. CASE o = PaidFor[p]
    <3>1. Kept(o)' = Kept(o) + Amount[p] - 0
      BY <1>3, <1>4, <1>8, <2>2, KeptApproved DEF MoneyInv
    <3> QED BY <1>1, <1>5, <1>6, <1>8, <2>1, <2>2, <3>1 DEF Exact
  <2>3. CASE o # PaidFor[p]
    BY <1>3, <1>5, <1>8, <2>1, <2>3, KeptSame
  <2> QED BY <2>2, <2>3
<1>9. CASE /\ Exact(p) /\ UNCHANGED vars
           /\ RequestRefund(PaidFor[p], {p}, Amount[p])
  <2>1. MustKeep(o)' = MustKeep(o)
    BY <1>9, MustKeepStays DEF PInv
  <2>2. refunded' = [refunded EXCEPT ![p] = @ + Amount[p]]
    <3>1. Amount[p] > 0 /\ Refundable(p) >= Amount[p]
      BY <1>1, <1>4, <1>9 DEF Exact, Refundable
    <3> QED BY <1>3, <1>9, <3>1 DEF RequestRefund
  <2>3. refunded'[p] = Amount[p] /\ \A q \in Payment \ {p} : refunded'[q] = refunded[q]
    BY <1>1, <1>4, <2>2
  <2>4. CASE o = PaidFor[p]
    <3>1. Kept(o)' = Kept(o) + Amount[p] - Amount[p]
      BY <1>1, <1>3, <1>9, <2>3, <2>4, KeptApproved DEF MoneyInv
    <3>2. Kept(o) \in Int
      BY KeptType DEF MoneyInv, Kept
    <3> QED BY <1>1, <1>5, <1>6, <2>1, <3>1, <3>2
  <2>5. CASE o # PaidFor[p]
    <3>1. \A q \in ApprovedFor(o) : q # p
      BY <2>5 DEF ApprovedFor
    <3>2. \A q \in ApprovedFor(o) : refunded'[q] = refunded[q]
      BY <2>3, <3>1 DEF ApprovedFor
    <3> QED BY <1>3, <1>5, <2>1, <2>5, <3>2, KeptSame
  <2> QED BY <2>4, <2>5
<1> QED BY <1>6, <1>7, <1>8, <1>9 DEF ProcessApproved

\* The cancellation of an order.
LEMMA CancellationMoney ==
  ASSUME PInv, MoneyInv, NEW u \in Order, PCancelByCustomer(u) \/ PCancelByAdmin(u),
         NEW o \in Order
  PROVE  IsFiniteSet(ApprovedFor(o)') /\ Kept(o)' = MustKeep(o)'
<1>1. /\ CancelByCustomer(u) \/ CancelByAdmin(u)
      /\ CancellationRefund(u) /\ UNCHANGED paymentStatus
  BY DEF PCancelByCustomer, PCancelByAdmin
<1>2. ApprovedFor(o)' = ApprovedFor(o) /\ ApprovedFor(u)' = ApprovedFor(u)
  BY <1>1 DEF ApprovedFor
<1>3. IsFiniteSet(ApprovedFor(o)) /\ Kept(o) = MustKeep(o)
  BY DEF MoneyInv, ApprovedAreFinite
<1>4. /\ ~paidAt[u] => MustKeep(u)' = MustKeep(u)
      /\ paidAt[u] => /\ status[u] \in PAID_STATUSES
                      /\ MustKeep(u)' = MustKeep(u) - CancellationAmount(u)
      /\ o # u => MustKeep(o)' = MustKeep(o)
  BY <1>1, MustKeepCancelled DEF PInv, MoneyInv
<1>5. CASE ~paidAt[u]
  <2>1. UNCHANGED refunded
    BY <1>1, <1>5 DEF CancellationRefund
  <2> QED BY <1>2, <1>3, <1>4, <1>5, <2>1, KeptSame
<1>6. CASE paidAt[u]
  <2>1. CancellationAmount(u) \in Nat
    BY PaymentsAssumption DEF CancellationAmount
  <2>2. PICK q \in ApprovedFor(u) :
          refunded' = [refunded EXCEPT ![q] = @ + CancellationAmount(u)]
    BY <1>1, <1>4, <1>6, CancellationTakes
  <2>3. CASE o = u
    <3>1. Kept(u)' = Kept(u) - CancellationAmount(u)
      BY <1>2, <2>1, <2>2, KeptRefunded DEF MoneyInv
    <3> QED BY <1>2, <1>3, <1>4, <1>6, <2>3, <3>1
  <2>4. CASE o # u
    <3>1. \A p \in ApprovedFor(o) : refunded'[p] = refunded[p]
      BY <2>2, <2>4 DEF ApprovedFor, PInv, PTypeOK
    <3> QED BY <1>2, <1>3, <1>4, <2>4, <3>1, KeptSame
  <2> QED BY <2>3, <2>4
<1> QED BY <1>5, <1>6

LEMMA MoneyStep == PInv /\ MoneyInv /\ [PNext]_pvars => MoneyInv'
<1> SUFFICES ASSUME PInv, MoneyInv, [PNext]_pvars PROVE MoneyInv'
  OBVIOUS
<1>1. DispatchedWasPaid'
  BY PNextMaps, DispatchedStep DEF PInv, MoneyInv
<1>2. ASSUME NEW o \in Order PROVE IsFiniteSet(ApprovedFor(o)') /\ Kept(o)' = MustKeep(o)'
  <2>1. IsFiniteSet(ApprovedFor(o)) /\ Kept(o) = MustKeep(o)
    BY DEF MoneyInv, ApprovedAreFinite
  <2>2. ASSUME NEW p \in Payment, NEW s \in GatewayStatuses,
               ProcessRejected(p, s) \/ ProcessPending(p, s)
        PROVE  IsFiniteSet(ApprovedFor(o)') /\ Kept(o)' = MustKeep(o)'
    <3>1. Record(p, s) /\ STATUS_MAP[s] # APROBADO /\ UNCHANGED refunded
      BY <2>2 DEF ProcessRejected, ProcessPending, APROBADO, RECHAZADO, CANCELADO,
                  PENDIENTE_ACREDITACION
    <3>2. ApprovedFor(o)' = ApprovedFor(o)
      BY <3>1, ApprovedRecord
    <3>3. PaidFor[p] \in Order
      BY PaymentsAssumption
    <3>4. MustKeep(o)' = MustKeep(o)
      BY <2>2, <3>3, MustKeepStays DEF ProcessRejected, ProcessPending, PInv
    <3> QED BY <2>1, <3>1, <3>2, <3>4, KeptSame
  <2>3. ASSUME NEW p \in Payment, GatewayMoves(p) \/ UNCHANGED pvars
        PROVE  IsFiniteSet(ApprovedFor(o)') /\ Kept(o)' = MustKeep(o)'
    <3>1. UNCHANGED <<vars, paymentStatus, refunded>>
      BY <2>3 DEF GatewayMoves, pvars, paymentVars
    <3>2. ApprovedFor(o)' = ApprovedFor(o) /\ MustKeep(o)' = MustKeep(o)
      BY <3>1, MustKeepStays DEF ApprovedFor, PInv
    <3> QED BY <2>1, <3>1, <3>2, KeptSame
  <2>4. ASSUME NEW u \in Order, OrderOnly(u)
        PROVE  IsFiniteSet(ApprovedFor(o)') /\ Kept(o)' = MustKeep(o)'
    <3>1. UNCHANGED <<paymentStatus, refunded>>
      BY <2>4 DEF OrderOnly, paymentVars
    <3>2. ApprovedFor(o)' = ApprovedFor(o) /\ MustKeep(o)' = MustKeep(o)
      BY <2>4, <3>1, MustKeepStays DEF ApprovedFor, PInv
    <3> QED BY <2>1, <3>1, <3>2, KeptSame
  <2>5. CASE UNCHANGED pvars
    <3>1. UNCHANGED <<vars, paymentStatus, refunded>>
      BY <2>5 DEF pvars, paymentVars
    <3>2. ApprovedFor(o)' = ApprovedFor(o) /\ MustKeep(o)' = MustKeep(o)
      BY <3>1, MustKeepStays DEF ApprovedFor, PInv
    <3> QED BY <2>1, <3>1, <3>2, KeptSame
  <2> QED BY <2>2, <2>3, <2>4, <2>5, ApprovalMoney, CancellationMoney
          DEF PNext, ProcessPayment
<1> QED BY <1>1, <1>2 DEF MoneyInv, ApprovedAreFinite

\* However many payments are approved for an order, and whenever it is cancelled,
\* the shop keeps exactly what it must, and no payment gives back more than it
\* charged.
THEOREM MoneyAlwaysBalances == PSpec => []MoneyBalances
<1>1. PInit => MoneyInv
  <2> SUFFICES ASSUME PInit PROVE MoneyInv
    OBVIOUS
  <2>1. \A o \in Order : ApprovedFor(o) = {}
    BY DEF PInit, ApprovedFor, SIN_REGISTRO, APROBADO
  <2>2. \A o \in Order : Kept(o) = 0
    <3>1. \A o \in Order : { p \in ApprovedFor(o) : Exact(p) } = {}
      BY <2>1
    <3> QED BY <2>1, <3>1, SumEmpty DEF Kept
  <2>3. \A o \in Order : ~dispatched[o] /\ MustKeep(o) = 0
    BY DEF PInit, Init, MustKeep
  <2>4. IsFiniteSet({})
    BY FS_EmptySet
  <2> QED BY <2>1, <2>2, <2>3, <2>4 DEF MoneyInv, DispatchedWasPaid, ApprovedAreFinite
<1>2. PInv /\ MoneyInv /\ [PNext]_pvars => MoneyInv'
  BY MoneyStep
<1>3. PInv /\ MoneyInv => MoneyBalances
  BY DEF PInv, MoneyInv, MoneyBalances, MoneyAccounted, MustKeep
<1> QED BY <1>1, <1>2, <1>3, SpecPInv, PTL DEF PSpec
=============================================================================
