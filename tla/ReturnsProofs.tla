---------------------------- MODULE ReturnsProofs ----------------------------
(***************************************************************************)
(* Any number of requests over an order of any lines: no unit is claimed   *)
(* twice, and the order is "devuelto" exactly when all its units came back *)
(* and nobody waits for an answer.  And any pages open on an order, with   *)
(* any number of requests under way: they do what they say (PagesInv).     *)
(***************************************************************************)
EXTENDS AfterSaleMC, Sequences, SumsProofs

RequestsOK ==
  /\ orderStatus \in {ENTREGADO, DEVUELTO}
  /\ requestStatus \in [Request -> RequestStatuses]
  /\ requestType \in [Request -> RequestTypes]
  /\ asked \in [Request -> Units]
  /\ approved \in [Request -> Units]
  /\ received \in [Request -> Units]

\* An open request claims something.
OpenRequestsClaim ==
  \A r \in Request :
    /\ requestStatus[r] \in {SUBIENDO, SOLICITADA} => \E v \in Variant : asked[r][v] > 0
    /\ requestStatus[r] = APROBADA => \E v \in Variant : approved[r][v] > 0

QInv ==
  /\ RequestsOK
  /\ OpenRequestsClaim
  /\ ClaimsWithinPurchase
  /\ ReturnedWhenComplete

-----------------------------------------------------------------------------
(***************************************************************************)
(* Counting units.                                                         *)
(***************************************************************************)

\* The first n units of a request.
FirstUnits(r, n) == {r} \X (1..n)

LEMMA FirstUnitsCount ==
  ASSUME NEW r, NEW n \in Nat
  PROVE  IsFiniteSet(FirstUnits(r, n)) /\ Cardinality(FirstUnits(r, n)) = n
<1>1. IsFiniteSet(1..n) /\ Cardinality(1..n) = n
  BY FS_Interval
<1>2. IsFiniteSet({r}) /\ Cardinality({r}) = 1
  BY FS_Singleton
<1>3. IsFiniteSet({r} \X (1..n)) /\ Cardinality({r} \X (1..n)) = 1 * n
  BY <1>1, <1>2, FS_Product
<1> QED BY <1>3 DEF FirstUnits

\* Units are finitely many.
LEMMA PairsFinite ==
  ASSUME NEW U, U \subseteq Request \X (1..MaxUnits)
  PROVE  IsFiniteSet(U) /\ Cardinality(U) \in Nat
<1>1. IsFiniteSet(Request) /\ IsFiniteSet(1..MaxUnits)
  BY ReturnsAssumption, FS_Interval
<1>2. IsFiniteSet(Request \X (1..MaxUnits))
  BY <1>1, FS_Product
<1> QED BY <1>2, FS_Subset, FS_CardinalityType

\* n more units.
LEMMA MoreUnits ==
  ASSUME NEW U, U \subseteq Request \X (1..MaxUnits), NEW r, NEW n \in Nat
  PROVE  /\ IsFiniteSet(U \cup FirstUnits(r, n))
         /\ Cardinality(U \cup FirstUnits(r, n)) <= Cardinality(U) + n
         /\ U \cap FirstUnits(r, n) = {} =>
              Cardinality(U \cup FirstUnits(r, n)) = Cardinality(U) + n
<1>1. IsFiniteSet(U) /\ Cardinality(U) \in Nat
  BY PairsFinite
<1>2. IsFiniteSet(FirstUnits(r, n)) /\ Cardinality(FirstUnits(r, n)) = n
  BY FirstUnitsCount
<1>3. /\ IsFiniteSet(U \cup FirstUnits(r, n))
      /\ Cardinality(U \cup FirstUnits(r, n)) =
           Cardinality(U) + Cardinality(FirstUnits(r, n)) - Cardinality(U \cap FirstUnits(r, n))
  BY <1>1, <1>2, FS_Union
<1>4. IsFiniteSet(U \cap FirstUnits(r, n)) /\ Cardinality(U \cap FirstUnits(r, n)) \in Nat
  BY <1>1, FS_Intersection, FS_CardinalityType
<1>5. PICK k \in Nat : k = Cardinality(U \cap FirstUnits(r, n))
  BY <1>4
<1>6. Cardinality(U \cup FirstUnits(r, n)) = Cardinality(U) + n - k
  BY <1>2, <1>3, <1>5, Zenon
<1>7. U \cap FirstUnits(r, n) = {} => k = 0
  BY <1>5, FS_EmptySet, Zenon
<1> QED BY <1>1, <1>3, <1>6, <1>7

\* What a request blocks, state by state.
Blocks(r, v) ==
  /\ BlockedBy(r, v) \in 0..MaxUnits
  /\ requestStatus[r] = SOLICITADA => BlockedBy(r, v) = asked[r][v]
  /\ requestStatus[r] = APROBADA => BlockedBy(r, v) = approved[r][v]
  /\ requestStatus[r] = RESUELTA => BlockedBy(r, v) = received[r][v]
  /\ requestStatus[r] \in {SIN_ALTA, SUBIENDO, RECHAZADA} => BlockedBy(r, v) = 0

AllBlock == \A r \in Request : \A v \in Variant : Blocks(r, v)

LEMMA BlockedByType == RequestsOK => AllBlock
<1> SUFFICES ASSUME RequestsOK, NEW r \in Request, NEW v \in Variant PROVE Blocks(r, v)
  BY DEF AllBlock
<1>1. /\ requestStatus[r] \in RequestStatuses
      /\ asked[r][v] \in 0..MaxUnits /\ approved[r][v] \in 0..MaxUnits
      /\ received[r][v] \in 0..MaxUnits /\ 0 \in 0..MaxUnits
  BY ReturnsAssumption DEF RequestsOK, Units
<1> QED
  BY <1>1 DEF Blocks, BlockedBy, RequestStatuses, SIN_ALTA, SUBIENDO, SOLICITADA, APROBADA,
              RECHAZADA, RESUELTA

LEMMA BlockedByTypeNext == RequestsOK' => AllBlock'
BY BlockedByType, PTL

LEMMA BlockedType ==
  ASSUME NEW v \in Variant
  PROVE  /\ BlockedUnits(v) \subseteq Request \X (1..MaxUnits)
         /\ ReturnedUnits(v) \subseteq Request \X (1..MaxUnits)
         /\ IsFiniteSet(BlockedUnits(v)) /\ Blocked(v) \in Nat
         /\ IsFiniteSet(ReturnedUnits(v)) /\ Cardinality(ReturnedUnits(v)) \in Nat
         /\ Bought[v] \in Nat
<1>1. /\ BlockedUnits(v) \subseteq Request \X (1..MaxUnits)
      /\ ReturnedUnits(v) \subseteq Request \X (1..MaxUnits)
  BY DEF BlockedUnits, ReturnedUnits
<1>2. Bought[v] \in Nat
  BY ReturnsAssumption
<1> QED BY <1>1, <1>2, PairsFinite DEF Blocked

\* A step that makes nobody claim more.
LEMMA ClaimsShrink ==
  ASSUME RequestsOK, RequestsOK', ClaimsWithinPurchase,
         \A r \in Request, v \in Variant : BlockedBy(r, v)' <= BlockedBy(r, v)
  PROVE  ClaimsWithinPurchase'
<1> SUFFICES ASSUME NEW v \in Variant PROVE Blocked(v)' <= Bought[v]
  BY DEF ClaimsWithinPurchase
<1>1. BlockedUnits(v)' \subseteq BlockedUnits(v)
  <2> SUFFICES ASSUME NEW r \in Request, NEW k \in 1..MaxUnits, k <= BlockedBy(r, v)'
               PROVE  k <= BlockedBy(r, v)
    BY DEF BlockedUnits
  <2>1. BlockedBy(r, v) \in 0..MaxUnits /\ BlockedBy(r, v)' \in 0..MaxUnits
    BY BlockedByType, BlockedByTypeNext DEF AllBlock, Blocks
  <2> QED BY <2>1, ReturnsAssumption
<1>2. Cardinality(BlockedUnits(v)') <= Blocked(v) /\ Cardinality(BlockedUnits(v)') \in Nat
  BY <1>1, BlockedType, FS_Subset, FS_CardinalityType DEF Blocked
<1> QED BY <1>2, BlockedType DEF ClaimsWithinPurchase, Blocked

\* A step after which the same returns are resolved, with the same units.
Resolved(r) == requestType[r] = DEVOLUCION /\ requestStatus[r] = RESUELTA

LEMMA ReturnsStay ==
  ASSUME ReturnedWhenComplete, orderStatus' = orderStatus,
         \A r \in Request : /\ Resolved(r)' <=> Resolved(r)
                            /\ Resolved(r) => received'[r] = received[r]
  PROVE  ReturnedWhenComplete'
<1>1. ASSUME NEW v \in Variant PROVE ReturnedUnits(v)' = ReturnedUnits(v)
  <2>1. ASSUME NEW r \in Request, NEW k \in 1..MaxUnits
        PROVE  <<r, k>> \in ReturnedUnits(v)' <=> <<r, k>> \in ReturnedUnits(v)
    BY DEF ReturnedUnits, Resolved
  <2>2. ReturnedUnits(v) \subseteq Request \X (1..MaxUnits)
    BY DEF ReturnedUnits
  <2>3. ReturnedUnits(v)' \subseteq Request \X (1..MaxUnits)
    BY DEF ReturnedUnits
  <2> QED BY <2>1, <2>2, <2>3
<1> QED BY <1>1 DEF ReturnedWhenComplete

-----------------------------------------------------------------------------
LEMMA InitQInv == Init => QInv
<1> SUFFICES ASSUME Init PROVE QInv
  OBVIOUS
<1> USE DEF SIN_ALTA, SUBIENDO, SOLICITADA, APROBADA, RECHAZADA, RESUELTA
<1>1. None \in Units
  BY ReturnsAssumption DEF None, Units
<1>2. RequestsOK
  BY <1>1 DEF Init, RequestsOK, RequestStatuses, RequestTypes
<1>3. OpenRequestsClaim
  BY DEF Init, OpenRequestsClaim
<1>4. ASSUME NEW v \in Variant PROVE BlockedUnits(v) = {} /\ ReturnedUnits(v) = {}
  <2>1. \A r \in Request : BlockedBy(r, v) = 0
    BY <1>2, BlockedByType DEF Init, AllBlock, Blocks
  <2> QED BY <2>1, ReturnsAssumption DEF Init, BlockedUnits, ReturnedUnits
<1>5. \A v \in Variant : Blocked(v) = 0 /\ Cardinality(ReturnedUnits(v)) = 0
  BY <1>4, FS_EmptySet DEF Blocked
<1>6. \A v \in Variant : Bought[v] \in Nat
  BY ReturnsAssumption
<1>7. ClaimsWithinPurchase
  BY <1>5, <1>6 DEF ClaimsWithinPurchase
<1>8. ReturnedWhenComplete
  <2>1. orderStatus # DEVUELTO
    BY DEF Init, ENTREGADO, DEVUELTO
  <2>2. PICK v \in Variant : Bought[v] > 0
    BY ReturnsAssumption
  <2>3. ~(Cardinality(ReturnedUnits(v)) >= Bought[v])
    BY <1>5, <1>6, <2>2
  <2> QED BY <2>1, <2>3 DEF ReturnedWhenComplete
<1> QED BY <1>2, <1>3, <1>7, <1>8 DEF QInv

\* The request that a transaction creates claims what it asks for, and this fits.
LEMMA CreateQInv ==
  ASSUME QInv, NEW r \in Request, Create(r)
  PROVE  QInv'
<1> USE DEF SIN_ALTA, SUBIENDO, SOLICITADA, APROBADA, RECHAZADA, RESUELTA
<1>1. RequestsOK /\ requestStatus[r] = SUBIENDO /\ asked[r] \in Units
  BY DEF QInv, RequestsOK, Create
<1>2. RequestsOK'
  BY <1>1 DEF RequestsOK, Create, RequestStatuses
<1>3. OpenRequestsClaim'
  BY <1>1 DEF QInv, OpenRequestsClaim, Create, RequestsOK
<1>4. ASSUME NEW v \in Variant PROVE Blocked(v)' <= Bought[v]
  <2>1. PICK n \in Nat : n = asked[r][v] /\ n <= MaxUnits
    BY <1>1, ReturnsAssumption DEF Units
  <2>2. n <= Bought[v] /\ n <= EligibleUnits(v)
    BY <2>1 DEF Create, Validate
  <2>3. Blocked(v) + n <= Bought[v]
    BY <2>1, <2>2, BlockedType DEF EligibleUnits, QInv, ClaimsWithinPurchase
  <2>4. BlockedUnits(v)' \subseteq BlockedUnits(v) \cup FirstUnits(r, n)
    <3> SUFFICES ASSUME NEW s \in Request, NEW k \in 1..MaxUnits, k <= BlockedBy(s, v)'
                 PROVE  <<s, k>> \in BlockedUnits(v) \cup FirstUnits(r, n)
      BY DEF BlockedUnits
    <3>1. CASE s = r
      <4>1. BlockedBy(r, v)' = n
        BY <1>1, <1>2, <2>1, BlockedByTypeNext DEF AllBlock, Blocks, Create, RequestsOK
      <4>2. k \in 1..n
        BY <3>1, <4>1, ReturnsAssumption
      <4> QED BY <3>1, <4>2 DEF FirstUnits
    <3>2. CASE s # r
      <4>1. BlockedBy(s, v)' = BlockedBy(s, v)
        BY <1>1, <3>2 DEF BlockedBy, Create, RequestsOK
      <4> QED BY <4>1 DEF BlockedUnits
    <3> QED BY <3>1, <3>2
  <2>5. /\ IsFiniteSet(BlockedUnits(v) \cup FirstUnits(r, n))
        /\ Cardinality(BlockedUnits(v) \cup FirstUnits(r, n)) <= Blocked(v) + n
    BY BlockedType, MoreUnits DEF Blocked
  <2>6. /\ Cardinality(BlockedUnits(v)') <= Cardinality(BlockedUnits(v) \cup FirstUnits(r, n))
        /\ Cardinality(BlockedUnits(v)') \in Nat
        /\ Cardinality(BlockedUnits(v) \cup FirstUnits(r, n)) \in Nat
    BY <2>4, <2>5, FS_Subset, FS_CardinalityType
  <2>7. Blocked(v) \in Nat /\ Bought[v] \in Nat
    BY BlockedType
  <2> QED BY <2>3, <2>5, <2>6, <2>7 DEF Blocked
<1>5. ClaimsWithinPurchase'
  BY <1>4 DEF ClaimsWithinPurchase
<1>6. ReturnedWhenComplete'
  BY <1>1, ReturnsStay DEF QInv, RequestsOK, Create, Resolved
<1> QED BY <1>2, <1>3, <1>5, <1>6 DEF QInv

\* A step of one request that makes it block no more than it did.
LEMMA OneShrinks ==
  ASSUME QInv, RequestsOK', NEW r \in Request,
         \A v \in Variant : BlockedBy(r, v)' <= BlockedBy(r, v),
         \A s \in Request \ {r} :
           /\ requestStatus'[s] = requestStatus[s] /\ asked'[s] = asked[s]
           /\ approved'[s] = approved[s] /\ received'[s] = received[s]
  PROVE  ClaimsWithinPurchase'
<1>1. ASSUME NEW s \in Request, NEW v \in Variant PROVE BlockedBy(s, v)' <= BlockedBy(s, v)
  <2>1. CASE s = r
    BY <2>1
  <2>2. CASE s # r
    <3>1. BlockedBy(s, v)' = BlockedBy(s, v)
      BY <2>2 DEF BlockedBy
    <3>2. BlockedBy(s, v) \in 0..MaxUnits
      BY BlockedByType DEF QInv, AllBlock, Blocks
    <3> QED BY <3>1, <3>2, ReturnsAssumption
  <2> QED BY <2>1, <2>2
<1> QED BY <1>1, ClaimsShrink DEF QInv

\* The steps before a request exists, and its rejection.
LEMMA AskQInv ==
  ASSUME QInv, NEW r \in Request, UploadPhotos(r) \/ CreateFails(r) \/ Reject(r)
  PROVE  QInv'
<1> USE DEF SIN_ALTA, SUBIENDO, SOLICITADA, APROBADA, RECHAZADA, RESUELTA
<1>0. None \in Units
  BY ReturnsAssumption DEF None, Units
<1>1. /\ RequestsOK
      /\ requestStatus[r] \in {SIN_ALTA, SUBIENDO, SOLICITADA}
      /\ requestStatus'[r] \in {SIN_ALTA, SUBIENDO, RECHAZADA}
      /\ received' = received /\ orderStatus' = orderStatus
      /\ \A s \in Request \ {r} :
           /\ requestStatus'[s] = requestStatus[s] /\ asked'[s] = asked[s]
           /\ approved'[s] = approved[s] /\ requestType'[s] = requestType[s]
  BY DEF QInv, RequestsOK, UploadPhotos, CreateFails, Reject
<1>2. RequestsOK'
  <2>1. CASE UploadPhotos(r)
    <3>1. PICK dto \in CreateReturnRequestDto :
            /\ requestStatus' = [requestStatus EXCEPT ![r] = SUBIENDO]
            /\ requestType' = [requestType EXCEPT ![r] = dto.type]
            /\ asked' = [asked EXCEPT ![r] = dto.units]
      BY <2>1 DEF UploadPhotos
    <3>2. dto.type \in RequestTypes /\ dto.units \in Units
      BY DEF CreateReturnRequestDto
    <3> QED BY <1>1, <2>1, <3>1, <3>2 DEF RequestsOK, RequestStatuses, UploadPhotos
  <2>2. CASE CreateFails(r)
    BY <1>0, <1>1, <2>2 DEF RequestsOK, RequestStatuses, CreateFails
  <2>3. CASE Reject(r)
    BY <1>0, <1>1, <2>3 DEF RequestsOK, RequestStatuses, Reject
  <2> QED BY <2>1, <2>2, <2>3
<1>3. OpenRequestsClaim'
  <2>1. ASSUME UploadPhotos(r) PROVE \E v \in Variant : asked'[r][v] > 0
    <3>1. PICK dto \in CreateReturnRequestDto : asked' = [asked EXCEPT ![r] = dto.units]
      BY <2>1 DEF UploadPhotos
    <3>2. dto.units \in Units /\ dto.units # None
      BY DEF CreateReturnRequestDto
    <3>3. PICK v \in Variant : dto.units[v] # 0
      BY <3>2 DEF Units, None
    <3>4. dto.units[v] \in 0..MaxUnits /\ asked'[r] = dto.units
      BY <1>1, <3>1, <3>2 DEF Units, RequestsOK
    <3> QED BY <3>3, <3>4, ReturnsAssumption
  <2>2. requestStatus'[r] = SUBIENDO => UploadPhotos(r)
    BY <1>1 DEF RequestsOK, CreateFails, Reject
  <2>3. ASSUME NEW s \in Request, s # r
        PROVE  /\ requestStatus'[s] \in {SUBIENDO, SOLICITADA} =>
                    \E v \in Variant : asked'[s][v] > 0
               /\ requestStatus'[s] = APROBADA => \E v \in Variant : approved'[s][v] > 0
    BY <1>1, <2>3 DEF QInv, OpenRequestsClaim
  <2>4. /\ requestStatus'[r] \in {SUBIENDO, SOLICITADA} =>
             \E v \in Variant : asked'[r][v] > 0
        /\ requestStatus'[r] # APROBADA
    BY <1>1, <2>1, <2>2
  <2> QED BY <2>3, <2>4 DEF OpenRequestsClaim
<1>4. ClaimsWithinPurchase'
  <2>1. ASSUME NEW v \in Variant PROVE BlockedBy(r, v)' <= BlockedBy(r, v)
    <3>1. BlockedBy(r, v)' = 0
      BY <1>1, <1>2, BlockedByTypeNext DEF AllBlock, Blocks
    <3>2. BlockedBy(r, v) \in 0..MaxUnits
      BY <1>1, BlockedByType DEF AllBlock, Blocks
    <3> QED BY <3>1, <3>2, ReturnsAssumption
  <2> QED BY <1>1, <1>2, <2>1, OneShrinks
<1>5. ReturnedWhenComplete'
  <2>1. \A s \in Request : Resolved(s)' <=> Resolved(s)
    BY <1>1 DEF Resolved
  <2> QED BY <1>1, <2>1, ReturnsStay DEF QInv
<1> QED BY <1>2, <1>3, <1>4, <1>5 DEF QInv

LEMMA ApproveQInv ==
  ASSUME QInv, NEW r \in Request, Approve(r)
  PROVE  QInv'
<1> USE DEF SIN_ALTA, SUBIENDO, SOLICITADA, APROBADA, RECHAZADA, RESUELTA
<1>1. PICK units \in Units :
        /\ \A v \in Variant : units[v] <= asked[r][v]
        /\ \E v \in Variant : units[v] > 0
        /\ approved' = [approved EXCEPT ![r] = units]
  BY DEF Approve, ApproveReturnDto
<1>2. /\ RequestsOK /\ requestStatus[r] = SOLICITADA
      /\ requestStatus' = [requestStatus EXCEPT ![r] = APROBADA]
      /\ UNCHANGED <<orderStatus, requestType, asked, received>>
  BY DEF Approve, QInv
<1>3. RequestsOK'
  BY <1>1, <1>2 DEF RequestsOK, RequestStatuses
<1>4. OpenRequestsClaim'
  BY <1>1, <1>2 DEF QInv, RequestsOK, OpenRequestsClaim
<1>5. ClaimsWithinPurchase'
  <2>1. ASSUME NEW v \in Variant PROVE BlockedBy(r, v)' <= BlockedBy(r, v)
    <3>1. requestStatus'[r] = APROBADA /\ approved'[r] = units
      BY <1>1, <1>2 DEF RequestsOK
    <3>2. BlockedBy(r, v)' = units[v]
      BY <1>3, <3>1, BlockedByTypeNext DEF AllBlock, Blocks
    <3>3. BlockedBy(r, v) = asked[r][v]
      BY <1>2, BlockedByType DEF AllBlock, Blocks
    <3> QED BY <1>1, <3>2, <3>3
  <2>2. \A s \in Request \ {r} :
          /\ requestStatus'[s] = requestStatus[s] /\ asked'[s] = asked[s]
          /\ approved'[s] = approved[s] /\ received'[s] = received[s]
    BY <1>1, <1>2 DEF RequestsOK
  <2> QED BY <1>3, <2>1, <2>2, OneShrinks
<1>6. ReturnedWhenComplete'
  BY <1>2, ReturnsStay DEF QInv, RequestsOK, Resolved
<1> QED BY <1>3, <1>4, <1>5, <1>6 DEF QInv

\* What receive changes of a request, on a return and on a change.
LEMMA ReceiveKeeps ==
  ASSUME QInv, NEW r \in Request, NEW units \in Units,
         requestStatus[r] = APROBADA,
         \A v \in Variant : units[v] <= approved[r][v],
         received' = [received EXCEPT ![r] = units],
         requestStatus' = [requestStatus EXCEPT ![r] = RESUELTA],
         UNCHANGED <<requestType, asked, approved>>,
         orderStatus' \in {ENTREGADO, DEVUELTO}
  PROVE  RequestsOK' /\ OpenRequestsClaim' /\ ClaimsWithinPurchase'
<1> USE DEF SIN_ALTA, SUBIENDO, SOLICITADA, APROBADA, RECHAZADA, RESUELTA
<1>1. RequestsOK
  BY DEF QInv
<1>2. RequestsOK'
  BY <1>1 DEF RequestsOK, RequestStatuses
<1>3. OpenRequestsClaim'
  BY <1>1 DEF QInv, RequestsOK, OpenRequestsClaim
<1>4. ASSUME NEW v \in Variant PROVE BlockedBy(r, v)' <= BlockedBy(r, v)
  <2>1. requestStatus'[r] = RESUELTA /\ received'[r] = units
    BY <1>1 DEF RequestsOK
  <2>2. BlockedBy(r, v)' = units[v]
    BY <1>2, <2>1, BlockedByTypeNext DEF AllBlock, Blocks
  <2>3. BlockedBy(r, v) = approved[r][v]
    BY <1>1, BlockedByType DEF AllBlock, Blocks
  <2> QED BY <2>2, <2>3
<1>5. \A s \in Request \ {r} :
        /\ requestStatus'[s] = requestStatus[s] /\ asked'[s] = asked[s]
        /\ approved'[s] = approved[s] /\ received'[s] = received[s]
  BY <1>1 DEF RequestsOK
<1> QED BY <1>2, <1>3, <1>4, <1>5, OneShrinks

LEMMA ReceiveChangeQInv ==
  ASSUME QInv, NEW r \in Request, ReceiveChange(r)
  PROVE  QInv'
<1>1. PICK dto \in ReceiveReturnDto :
        Accepts(r, dto) /\ received' = [received EXCEPT ![r] = dto.units]
  BY DEF ReceiveChange
<1>2. dto.units \in Units /\ \A v \in Variant : dto.units[v] <= approved[r][v]
  BY <1>1 DEF ReceiveReturnDto, Accepts
<1>3. /\ RequestsOK /\ requestStatus[r] = APROBADA /\ requestType[r] = CAMBIO
      /\ requestStatus' = [requestStatus EXCEPT ![r] = RESUELTA]
      /\ UNCHANGED <<requestType, asked, approved, orderStatus>>
      /\ orderStatus \in {ENTREGADO, DEVUELTO}
  BY DEF ReceiveChange, QInv, RequestsOK
<1>4. RequestsOK' /\ OpenRequestsClaim' /\ ClaimsWithinPurchase'
  <2>1. orderStatus' \in {ENTREGADO, DEVUELTO}
    BY <1>3
  <2> QED BY <1>1, <1>2, <1>3, <2>1, ReceiveKeeps
<1>5. ReturnedWhenComplete'
  <2>1. ASSUME NEW s \in Request
        PROVE  /\ Resolved(s)' <=> Resolved(s)
               /\ Resolved(s) => received'[s] = received[s]
    <3>1. CASE s = r
      BY <1>3, <3>1 DEF Resolved, CAMBIO, DEVOLUCION
    <3>2. CASE s # r
      BY <1>1, <1>3, <3>2 DEF Resolved, RequestsOK
    <3> QED BY <3>1, <3>2
  <2> QED BY <1>3, <2>1, ReturnsStay DEF QInv
<1> QED BY <1>4, <1>5 DEF QInv

\* The return that completes the order marks it, and no other does.
LEMMA ReceiveReturnQInv ==
  ASSUME QInv, NEW r \in Request, ReceiveReturn(r)
  PROVE  QInv'
<1>1. PICK dto \in ReceiveReturnDto :
        /\ Accepts(r, dto) /\ received' = [received EXCEPT ![r] = dto.units]
        /\ MarkReturnedIfComplete(r, dto.units)
  BY DEF ReceiveReturn
<1>2. dto.units \in Units /\ \A v \in Variant : dto.units[v] <= approved[r][v]
  BY <1>1 DEF ReceiveReturnDto, Accepts
<1>3. /\ RequestsOK /\ requestStatus[r] = APROBADA /\ requestType[r] = DEVOLUCION
      /\ requestStatus' = [requestStatus EXCEPT ![r] = RESUELTA]
      /\ UNCHANGED <<requestType, asked, approved>>
      /\ orderStatus \in {ENTREGADO, DEVUELTO}
  BY DEF ReceiveReturn, QInv, RequestsOK
<1>4. orderStatus' \in {ENTREGADO, DEVUELTO}
  BY <1>1, <1>3 DEF MarkReturnedIfComplete
<1>5. RequestsOK' /\ OpenRequestsClaim' /\ ClaimsWithinPurchase'
  BY <1>1, <1>2, <1>3, <1>4, ReceiveKeeps
<1>6. ASSUME NEW v \in Variant
      PROVE  /\ Cardinality(ReturnedUnits(v)') = ReturnedWith(r, dto.units, v)
             /\ Cardinality(ReturnedUnits(v)') \in Nat
             /\ Cardinality(ReturnedUnits(v)') >= Cardinality(ReturnedUnits(v))
  <2>1. PICK n \in Nat : n = dto.units[v] /\ n <= MaxUnits
    BY <1>2, ReturnsAssumption DEF Units
  <2>2. /\ received'[r] = dto.units
        /\ \A s \in Request \ {r} : received'[s] = received[s]
        /\ \A s \in Request \ {r} : requestStatus'[s] = requestStatus[s]
        /\ requestStatus'[r] = RESUELTA
    BY <1>1, <1>3 DEF RequestsOK
  <2>3. ReturnedUnits(v)' = ReturnedUnits(v) \cup FirstUnits(r, n)
    <3>1. ASSUME NEW s \in Request, NEW k \in 1..MaxUnits
          PROVE  <<s, k>> \in ReturnedUnits(v)' <=> <<s, k>> \in ReturnedUnits(v) \cup FirstUnits(r, n)
      <4>1. CASE s = r
        <5>1. <<s, k>> \in ReturnedUnits(v)' <=> k <= n
          BY <1>3, <2>1, <2>2, <4>1 DEF ReturnedUnits
        <5>2. <<s, k>> \notin ReturnedUnits(v)
          BY <1>3, <4>1 DEF ReturnedUnits, APROBADA, RESUELTA
        <5>3. <<s, k>> \in FirstUnits(r, n) <=> k <= n
          BY <4>1, <2>1, ReturnsAssumption DEF FirstUnits
        <5> QED BY <5>1, <5>2, <5>3
      <4>2. CASE s # r
        BY <1>3, <2>2, <4>2 DEF ReturnedUnits, FirstUnits
      <4> QED BY <4>1, <4>2
    <3>2. ReturnedUnits(v) \cup FirstUnits(r, n) \subseteq Request \X (1..MaxUnits)
      <4>1. 1..n \subseteq 1..MaxUnits
        BY <2>1, ReturnsAssumption
      <4> QED BY <4>1 DEF ReturnedUnits, FirstUnits
    <3>3. ReturnedUnits(v)' \subseteq Request \X (1..MaxUnits)
      BY DEF ReturnedUnits
    <3> QED BY <3>1, <3>2, <3>3
  <2>4. ReturnedUnits(v) \cap FirstUnits(r, n) = {}
    BY <1>3 DEF ReturnedUnits, FirstUnits, APROBADA, RESUELTA
  <2>5. Cardinality(ReturnedUnits(v)') = Cardinality(ReturnedUnits(v)) + n
    BY <2>3, <2>4, BlockedType, MoreUnits
  <2>6. Cardinality(ReturnedUnits(v)) \in Nat
    BY BlockedType
  <2> QED BY <2>1, <2>5, <2>6 DEF ReturnedWith
<1>7. ReturnedWhenComplete'
  <2>1. CASE orderStatus = ENTREGADO
    <3>1. orderStatus' = DEVUELTO <=>
            \A v \in Variant : ReturnedWith(r, dto.units, v) >= Bought[v]
      BY <1>1, <2>1 DEF MarkReturnedIfComplete, ENTREGADO, DEVUELTO
    <3> QED BY <1>6, <3>1 DEF ReturnedWhenComplete
  <2>2. CASE orderStatus = DEVUELTO
    <3>1. orderStatus' = DEVUELTO
      BY <1>1, <2>2 DEF MarkReturnedIfComplete, ENTREGADO, DEVUELTO
    <3>2. ASSUME NEW v \in Variant PROVE Cardinality(ReturnedUnits(v)') >= Bought[v]
      <4>1. Cardinality(ReturnedUnits(v)) >= Bought[v]
        BY <2>2 DEF QInv, ReturnedWhenComplete
      <4> QED BY <4>1, <1>6, BlockedType
    <3> QED BY <3>1, <3>2 DEF ReturnedWhenComplete
  <2> QED BY <1>3, <2>1, <2>2
<1> QED BY <1>5, <1>7 DEF QInv

\* The steps that leave the requests as far as they claim units.
LEMMA RestQInv ==
  ASSUME QInv,
         UNCHANGED <<orderStatus, requestStatus, requestType, asked, approved, received>>
  PROVE  QInv'
<1>1. RequestsOK' /\ OpenRequestsClaim'
  BY DEF QInv, RequestsOK, OpenRequestsClaim
<1>2. ASSUME NEW v \in Variant
      PROVE  BlockedUnits(v)' = BlockedUnits(v) /\ ReturnedUnits(v)' = ReturnedUnits(v)
  <2>1. \A r \in Request : BlockedBy(r, v)' = BlockedBy(r, v)
    BY DEF BlockedBy
  <2> QED BY <2>1 DEF BlockedUnits, ReturnedUnits
<1>3. ClaimsWithinPurchase' /\ ReturnedWhenComplete'
  BY <1>2 DEF QInv, ClaimsWithinPurchase, Blocked, ReturnedWhenComplete
<1> QED BY <1>1, <1>3 DEF QInv

LEMMA NextQInv == QInv /\ [Next]_vars => QInv'
<1> SUFFICES ASSUME QInv, [Next]_vars PROVE QInv'
  OBVIOUS
<1>1. ASSUME NEW r \in Request, UploadPhotos(r) \/ CreateFails(r) \/ Reject(r) PROVE QInv'
  BY <1>1, AskQInv
<1>2. ASSUME NEW r \in Request, Create(r) PROVE QInv'
  BY <1>2, CreateQInv
<1>3. ASSUME NEW r \in Request, Approve(r) PROVE QInv'
  BY <1>3, ApproveQInv
<1>4. ASSUME NEW r \in Request, ReceiveReturn(r) PROVE QInv'
  BY <1>4, ReceiveReturnQInv
<1>5. ASSUME NEW r \in Request, ReceiveChange(r) PROVE QInv'
  BY <1>5, ReceiveChangeQInv
<1>6. ASSUME NEW r \in Request, DispatchReplacement(r) \/ RefundRefused(r) \/ RetryRefund(r)
      PROVE  QInv'
  BY <1>6, RestQInv DEF DispatchReplacement, RefundRefused, RetryRefund, SetRefund
<1>7. CASE WindowCloses
  BY <1>7, RestQInv DEF WindowCloses, requestVars
<1>8. ASSUME NEW v \in Variant, OtherOrderReserves(v) \/ OtherOrderReleases(v) PROVE QInv'
  BY <1>8, RestQInv DEF OtherOrderReserves, OtherOrderReleases, requestVars
<1>9. CASE UNCHANGED vars
  BY <1>9, RestQInv DEF vars, requestVars
<1> QED
  BY <1>1, <1>2, <1>3, <1>4, <1>5, <1>6, <1>7, <1>8, <1>9 DEF Next

LEMMA SpecQInv == Spec => []QInv
BY InitQInv, NextQInv, PTL DEF Spec

\* An open request claims a unit that did not come back in a return.
LEMMA OpenClaimsMore ==
  ASSUME QInv, NEW r \in Request, requestStatus[r] \in {SOLICITADA, APROBADA}
  PROVE  \E v \in Variant : Cardinality(ReturnedUnits(v)) < Bought[v]
<1> USE DEF SIN_ALTA, SUBIENDO, SOLICITADA, APROBADA, RECHAZADA, RESUELTA
<1>1. PICK v \in Variant : BlockedBy(r, v) > 0
  BY BlockedByType DEF QInv, OpenRequestsClaim, AllBlock, Blocks
<1>2. BlockedBy(r, v) \in 0..MaxUnits /\ MaxUnits \in Nat
  BY BlockedByType, ReturnsAssumption DEF QInv, AllBlock, Blocks
<1>3. <<r, 1>> \in BlockedUnits(v) /\ <<r, 1>> \notin ReturnedUnits(v)
  BY <1>1, <1>2 DEF BlockedUnits, ReturnedUnits
<1>4. ReturnedUnits(v) \subseteq BlockedUnits(v)
  BY BlockedByType DEF QInv, BlockedUnits, ReturnedUnits, AllBlock, Blocks
<1>5. ReturnedUnits(v) \cup {<<r, 1>>} \subseteq BlockedUnits(v)
  BY <1>3, <1>4
<1>6. /\ IsFiniteSet(ReturnedUnits(v) \cup {<<r, 1>>})
      /\ Cardinality(ReturnedUnits(v) \cup {<<r, 1>>}) = Cardinality(ReturnedUnits(v)) + 1
  BY <1>3, BlockedType, FS_AddElement
<1>7. Cardinality(ReturnedUnits(v)) + 1 <= Blocked(v)
  BY <1>5, <1>6, BlockedType, FS_Subset DEF Blocked
<1>8. Blocked(v) <= Bought[v]
  BY DEF QInv, ClaimsWithinPurchase
<1> QED BY <1>7, <1>8, BlockedType

-----------------------------------------------------------------------------
\* No unit of an order is claimed twice, however many requests overlap.
THEOREM ClaimsAlwaysFit == Spec => []ClaimsWithinPurchase
<1>1. QInv => ClaimsWithinPurchase
  BY DEF QInv
<1> QED BY SpecQInv, <1>1, PTL

\* The order is "devuelto" exactly when all that was bought came back in returns.
THEOREM ReturnedExactlyWhenComplete == Spec => []ReturnedWhenComplete
<1>1. QInv => ReturnedWhenComplete
  BY DEF QInv
<1> QED BY SpecQInv, <1>1, PTL

\* Once it is, no request is left that somebody would have to resolve.
THEOREM NothingOpenAfterwards == Spec => []NothingOpenOnceReturned
<1>1. QInv => NothingOpenOnceReturned
  <2> SUFFICES ASSUME QInv, orderStatus = DEVUELTO, NEW r \in Request,
                      requestStatus[r] \in {SOLICITADA, APROBADA}
               PROVE  FALSE
    BY DEF NothingOpenOnceReturned
  <2>1. PICK v \in Variant : Cardinality(ReturnedUnits(v)) < Bought[v]
    BY OpenClaimsMore
  <2>2. Cardinality(ReturnedUnits(v)) >= Bought[v]
    BY DEF QInv, ReturnedWhenComplete
  <2> QED BY <2>1, <2>2, BlockedType
<1> QED BY SpecQInv, <1>1, PTL

\* The claims and the status of an order follow its requests, however many of
\* them overlap.
THEOREM ReturnsAlwaysFit == Spec => []ReturnsFitTheOrder
<1>1. ClaimsWithinPurchase /\ ReturnedWhenComplete /\ NothingOpenOnceReturned
        => ReturnsFitTheOrder
  BY DEF ReturnsFitTheOrder
<1> QED BY ClaimsAlwaysFit, ReturnedExactlyWhenComplete, NothingOpenAfterwards, <1>1, PTL

-----------------------------------------------------------------------------
(***************************************************************************)
(* Counting cents.  The cents of the returns that were resolved are as     *)
(* many as some cents of the purchase: each unit that came back has a unit *)
(* of its own among those that were bought.                                *)
(***************************************************************************)

\* The refund of some lines is a finite number of cents.
LEMMA CentsFinite ==
  ASSUME NEW lines \in SUBSET Variant, NEW units \in Units
  PROVE  /\ IsFiniteSet(RefundCents(lines, units))
         /\ RefundAmount(lines, units) \in Nat
<1> DEFINE C == [v \in lines |-> {v} \X ((1..units[v]) \X (1..Price[v]))]
<1>1. ASSUME NEW v \in lines PROVE IsFiniteSet(C[v])
  <2>1. units[v] \in Nat /\ Price[v] \in Nat
    BY ReturnsAssumption DEF Units
  <2>2. IsFiniteSet(1..units[v])
    BY <2>1, FS_Interval
  <2>3. IsFiniteSet(1..Price[v])
    BY <2>1, FS_Interval
  <2>4. IsFiniteSet((1..units[v]) \X (1..Price[v]))
    BY <2>2, <2>3, FS_Product
  <2>5. IsFiniteSet({v})
    BY FS_Singleton
  <2>6. IsFiniteSet({v} \X ((1..units[v]) \X (1..Price[v])))
    BY <2>4, <2>5, FS_Product
  <2> QED BY <2>6
<1>2. IsFiniteSet(lines)
  BY ReturnsAssumption, FS_Subset
<1>3. RefundCents(lines, units) = UNION { C[v] : v \in lines }
  BY DEF RefundCents
<1> HIDE DEF C
<1>4. IsFiniteSet(UNION { C[v] : v \in lines })
  BY <1>1, <1>2, FamilyFinite
<1> QED BY <1>3, <1>4, FS_CardinalityType DEF RefundAmount

\* The cents that the resolved returns may ever be refunded.
AllCents ==
  UNION { {r} \X RefundCents(refundApproved[r], received[r]) :
            r \in { q \in Request : Resolved(q) } }

RefundsOfResolved == \A r \in Request : refund[r] # SIN_REEMBOLSO => Resolved(r)

\* Not more units came back than were bought.
LEMMA ReturnedFit ==
  ASSUME QInv, NEW v \in Variant
  PROVE  Cardinality(ReturnedUnits(v)) <= Bought[v]
<1>1. ReturnedUnits(v) \subseteq BlockedUnits(v)
  BY BlockedByType DEF QInv, BlockedUnits, ReturnedUnits, AllBlock, Blocks
<1>2. Cardinality(ReturnedUnits(v)) <= Blocked(v)
  BY <1>1, BlockedType, FS_Subset DEF Blocked
<1>3. Blocked(v) <= Bought[v]
  BY DEF QInv, ClaimsWithinPurchase
<1> QED BY <1>2, <1>3, BlockedType

\* Each of them has a unit of its own among those that were bought.
PlacesOf(v) ==
  { g \in [ReturnedUnits(v) -> 1..Bought[v]] :
      \A a, b \in ReturnedUnits(v) : g[a] = g[b] => a = b }

LEMMA UnitsHavePlaces ==
  ASSUME QInv, NEW v \in Variant
  PROVE  PlacesOf(v) # {}
<1> DEFINE R == ReturnedUnits(v)
           n == Cardinality(R)
<1>1. n \in Nat /\ IsFiniteSet(R) /\ Bought[v] \in Nat
  BY BlockedType
<1>2. n <= Bought[v]
  BY ReturnedFit
<1> HIDE DEF R
<1>3. ExistsBijection(R, 1..n)
  BY <1>1, FS_CardinalityType, Fun_ExistsBijSymmetric
<1>4. PICK g \in Bijection(R, 1..n) : TRUE
  BY <1>3, Fun_ExistsBij
<1>5. g \in [R -> 1..n] /\ \A a, b \in R : g[a] = g[b] => a = b
  BY <1>4 DEF Bijection, Injection, IsInjective
<1>6. 1..n \subseteq 1..Bought[v]
  BY <1>1, <1>2
<1>7. g \in [R -> 1..Bought[v]]
  BY <1>5, <1>6
<1> QED BY <1>5, <1>7 DEF PlacesOf, R

AllFit ==
  IsFiniteSet(AllCents) /\ Cardinality(AllCents) \in Nat /\ Cardinality(AllCents) <= Paid

\* So do the cents.
LEMMA AllCentsFit ==
  ASSUME QInv, TypeOK
  PROVE  AllFit
<1> DEFINE G == [v \in Variant |-> CHOOSE g : g \in PlacesOf(v)]
           T == RefundCents(Variant, Bought)
           Place(u) == << u[2][1], << G[u[2][1]][<<u[1], u[2][2][1]>>], u[2][2][2] >> >>
           F == [u \in AllCents |-> Place(u)]
<1>1. \A v \in Variant : G[v] \in PlacesOf(v)
  BY UnitsHavePlaces
<1>2. ASSUME NEW u \in AllCents
      PROVE  /\ u = << u[1], << u[2][1], << u[2][2][1], u[2][2][2] >> >> >>
             /\ u[2][1] \in Variant
             /\ <<u[1], u[2][2][1]>> \in ReturnedUnits(u[2][1])
             /\ u[2][2][2] \in 1..Price[u[2][1]]
  <2>1. PICK r \in Request : Resolved(r) /\ u \in {r} \X RefundCents(refundApproved[r], received[r])
    BY DEF AllCents
  <2>2. PICK c \in RefundCents(refundApproved[r], received[r]) : u = <<r, c>>
    BY <2>1
  <2>3. PICK v \in refundApproved[r] : c \in {v} \X ((1..received[r][v]) \X (1..Price[v]))
    BY <2>2 DEF RefundCents
  <2>4. PICK k \in 1..received[r][v], p \in 1..Price[v] : c = <<v, <<k, p>>>>
    BY <2>3
  <2>5. v \in Variant /\ received[r][v] \in 0..MaxUnits
    BY DEF TypeOK, Units
  <2>6. k \in 1..MaxUnits
    BY <2>5, ReturnsAssumption
  <2>7. <<r, k>> \in ReturnedUnits(v)
    BY <2>1, <2>5, <2>6 DEF ReturnedUnits, Resolved
  <2> QED BY <2>2, <2>4, <2>5, <2>7
<1> HIDE DEF G
<1>3. ASSUME NEW u \in AllCents PROVE Place(u) \in T
  <2>1. PICK v \in Variant : v = u[2][1]
    BY <1>2
  <2>2. PICK n \in 1..Bought[v] : n = G[v][<<u[1], u[2][2][1]>>]
    BY <1>1, <1>2, <2>1 DEF PlacesOf
  <2>3. PICK p \in 1..Price[v] : p = u[2][2][2]
    BY <1>2, <2>1
  <2>4. Place(u) = <<v, <<n, p>>>>
    BY <2>1, <2>2, <2>3
  <2>5. <<v, <<n, p>>>> \in {v} \X ((1..Bought[v]) \X (1..Price[v]))
    OBVIOUS
  <2> QED BY <2>4, <2>5 DEF RefundCents
<1>4. ASSUME NEW a \in AllCents, NEW b \in AllCents, Place(a) = Place(b) PROVE a = b
  <2>1. PICK v \in Variant : v = a[2][1] /\ v = b[2][1]
    BY <1>2, <1>4
  <2>2. G[v][<<a[1], a[2][2][1]>>] = G[v][<<b[1], b[2][2][1]>>] /\ a[2][2][2] = b[2][2][2]
    BY <1>4, <2>1
  <2>3. <<a[1], a[2][2][1]>> = <<b[1], b[2][2][1]>>
    BY <1>1, <1>2, <2>1, <2>2 DEF PlacesOf
  <2>4. a[1] = b[1] /\ a[2][2][1] = b[2][2][1]
    BY <2>3
  <2>5. a = << a[1], << v, << a[2][2][1], a[2][2][2] >> >> >>
    BY <1>2, <2>1
  <2>6. b = << b[1], << v, << b[2][2][1], b[2][2][2] >> >> >>
    BY <1>2, <2>1
  <2> QED BY <2>2, <2>4, <2>5, <2>6, Zenon
<1> HIDE DEF T
<1>5. F \in [AllCents -> T]
  BY <1>3
<1>6. \A a, b \in AllCents : F[a] = F[b] => a = b
  BY <1>4
<1> HIDE DEF F
<1>7. F \in Injection(AllCents, T)
  BY <1>5, <1>6, Fun_IsInj
<1>8. Bought \in Units
  BY ReturnsAssumption DEF Units
<1>9. IsFiniteSet(T) /\ Cardinality(T) \in Nat /\ Cardinality(T) <= Paid
  BY <1>8, CentsFinite, ReturnsAssumption DEF RefundAmount, T
<1>10. IsFiniteSet(AllCents) /\ Cardinality(AllCents) <= Cardinality(T)
  BY <1>7, <1>9, FS_Injection
<1>11. Cardinality(AllCents) \in Nat
  BY <1>10, FS_CardinalityType
<1> QED BY <1>9, <1>10, <1>11, ReturnsAssumption DEF AllFit

LEMMA AllCentsFitNext == QInv' /\ TypeOK' => AllFit'
<1>1. QInv /\ TypeOK => AllFit
  BY AllCentsFit
<1> QED BY <1>1, PTL

\* The refunds that were recorded are of resolved returns, so they fit.
LEMMA CommittedFit ==
  ASSUME QInv, TypeOK, RefundsOfResolved
  PROVE  /\ CommittedCents \subseteq AllCents
         /\ IsFiniteSet(CommittedCents)
         /\ CommittedRefunds \in Nat
         /\ CommittedRefunds <= Paid
<1>1. CommittedCents \subseteq AllCents
  BY DEF CommittedCents, AllCents, RefundsOfResolved, COMPROMETIDO, SIN_REEMBOLSO
<1>2. IsFiniteSet(CommittedCents) /\ Cardinality(CommittedCents) <= Cardinality(AllCents)
  BY <1>1, AllCentsFit, FS_Subset DEF AllFit
<1>3. Cardinality(CommittedCents) \in Nat
  BY <1>2, FS_CardinalityType
<1> QED BY <1>1, <1>2, <1>3, AllCentsFit, ReturnsAssumption DEF AllFit, CommittedRefunds

\* What a reception asks for fits beside what was recorded before.
LEMMA ReceptionFits ==
  ASSUME QInv, QInv', TypeOK, TypeOK', RefundsOfResolved, NEW r \in Request,
         ~Resolved(r), Resolved(r)',
         \A q \in Request \ {r} : /\ Resolved(q)' <=> Resolved(q)
                                  /\ refundApproved'[q] = refundApproved[q]
                                  /\ received'[q] = received[q]
  PROVE  Paid - CommittedRefunds >= RefundAmount(refundApproved'[r], received'[r])
<1> DEFINE U == CommittedCents
           T == RefundCents(refundApproved'[r], received'[r])
           W == {r} \X T
<1>1. refundApproved'[r] \in SUBSET Variant /\ received'[r] \in Units
  BY DEF TypeOK
<1>2. IsFiniteSet(T) /\ Cardinality(T) \in Nat
  BY <1>1, CentsFinite DEF RefundAmount
<1>3. IsFiniteSet(U) /\ Cardinality(U) \in Nat
  BY CommittedFit DEF CommittedRefunds
<1>4. U \cap W = {}
  <2>1. refund[r] = SIN_REEMBOLSO
    BY DEF RefundsOfResolved
  <2>2. r \notin { q \in Request : refund[q] = COMPROMETIDO }
    BY <2>1 DEF SIN_REEMBOLSO, COMPROMETIDO
  <2>3. \A u \in U : u[1] # r
    BY <2>2 DEF CommittedCents
  <2>4. \A u \in W : u[1] = r
    OBVIOUS
  <2> QED BY <2>3, <2>4
<1>5. U \cup W \subseteq AllCents'
  <2>1. W \subseteq AllCents'
    BY DEF AllCents
  <2>2. ASSUME NEW u \in U PROVE u \in AllCents'
    <3>1. PICK q \in Request : /\ refund[q] = COMPROMETIDO
                               /\ u \in {q} \X RefundCents(refundApproved[q], received[q])
      BY DEF CommittedCents
    <3>2. Resolved(q) /\ q # r
      BY <3>1 DEF RefundsOfResolved, SIN_REEMBOLSO, COMPROMETIDO
    <3>3. Resolved(q)' /\ u \in {q} \X RefundCents(refundApproved'[q], received'[q])
      BY <3>1, <3>2
    <3> QED BY <3>3 DEF AllCents
  <2> QED BY <2>1, <2>2
<1> HIDE DEF T, U
<1>6. IsFiniteSet({r}) /\ Cardinality({r}) = 1
  BY FS_Singleton
<1>7. IsFiniteSet(W) /\ Cardinality(W) = 1 * Cardinality(T)
  BY <1>2, <1>6, FS_Product
<1> HIDE DEF W
<1>8. Cardinality(U \cup W) = Cardinality(U) + Cardinality(W) - Cardinality(U \cap W)
  BY <1>3, <1>7, FS_Union
<1>9. Cardinality(U \cap W) = 0
  BY <1>4, FS_EmptySet
<1>10. Cardinality(U \cup W) <= Cardinality(AllCents') /\ Cardinality(AllCents') <= Paid
       /\ Cardinality(AllCents') \in Nat
  BY <1>5, AllCentsFitNext, FS_Subset DEF AllFit
<1>11. Cardinality(U) + Cardinality(T) <= Paid
  BY <1>2, <1>3, <1>7, <1>8, <1>9, <1>10, ReturnsAssumption
<1> QED
  BY <1>2, <1>3, <1>11, ReturnsAssumption DEF RefundAmount, CommittedRefunds, U, T

\* The outcomes of a request to the ledger.
LEMMA RefundOutcomes ==
  ASSUME NEW amount \in Nat, CommittedRefunds \in Nat
  PROVE  /\ RequestRefund(amount) \in {SIN_REEMBOLSO, COMPROMETIDO, A_MANO}
         /\ Paid - CommittedRefunds >= amount =>
              RequestRefund(amount) \in {SIN_REEMBOLSO, COMPROMETIDO}
<1>1. Paid - CommittedRefunds \in Int
  BY ReturnsAssumption
<1>2. CASE amount = 0
  BY <1>2 DEF RequestRefund
<1>3. CASE amount > 0 /\ Paid - CommittedRefunds >= amount
  BY <1>1, <1>3 DEF RequestRefund
<1>4. CASE amount > 0 /\ Paid - CommittedRefunds < amount
  BY <1>1, <1>4 DEF RequestRefund
<1> QED BY <1>1, <1>2, <1>3, <1>4

-----------------------------------------------------------------------------
(***************************************************************************)
(* Types, and what is final.                                               *)
(***************************************************************************)

LEMMA InitTypes == Init => TypeOK
<1> SUFFICES ASSUME Init PROVE TypeOK
  OBVIOUS
<1>1. None \in Units /\ None \in [Variant -> Nat]
  BY ReturnsAssumption DEF None, Units
<1>2. RequestsOK
  BY InitQInv DEF QInv
<1>3. InitialStock \in [Variant -> Nat]
  BY ReturnsAssumption
<1> QED
  BY <1>1, <1>2, <1>3 DEF Init, TypeOK, RequestsOK, StockTypeOK, ReplacementStatuses

\* What a reception brings back, and what a replacement takes.
LEMMA GoodUnits ==
  ASSUME NEW dto \in ReceiveReturnDto
  PROVE  /\ InGoodState(dto) \in Units
         /\ dto.units \in Units
         /\ Arrived(dto) \subseteq Variant
<1>1. dto.units \in Units
  BY DEF ReceiveReturnDto
<1>2. \A v \in Variant : dto.units[v] \in 0..MaxUnits /\ 0 \in 0..MaxUnits
  BY <1>1, ReturnsAssumption DEF Units
<1>3. InGoodState(dto) \in Units
  BY <1>2 DEF InGoodState, Units
<1> QED BY <1>1, <1>3 DEF Arrived

LEMMA TakenUnits ==
  ASSUME NEW dto \in ReceiveReturnDto, NEW choice, NEW w \in Variant
  PROVE  SumOver(dto.units, { v \in Arrived(dto) : choice[v] = w }) \in Nat
<1> DEFINE S == { v \in Arrived(dto) : choice[v] = w }
<1>1. S \subseteq Variant /\ dto.units \in Units
  BY GoodUnits
<1>2. IsFiniteSet(S)
  BY <1>1, ReturnsAssumption, FS_Subset
<1>3. \A v \in S : dto.units[v] \in Nat
  BY <1>1, ReturnsAssumption DEF Units
<1> HIDE DEF S
<1>4. SumOver(dto.units, S) \in Nat
  BY <1>2, <1>3, SumType
<1> QED BY <1>4 DEF S

\* What came back is in the warehouse.
LEMMA RestockedType ==
  ASSUME StockTypeOK, NEW good \in Units
  PROVE  RestockReturn(good) \in [Variant -> Nat]
<1>1. \A v \in Variant : stockTotal[v] \in Nat /\ good[v] \in Nat
  BY ReturnsAssumption DEF StockTypeOK, Units
<1> QED BY <1>1 DEF RestockReturn

LEMMA TakenType ==
  ASSUME StockTypeOK, NEW total \in [Variant -> Nat], NEW taken \in [Variant -> Nat],
         TakeForReplacement(total, taken)
  PROVE  stockTotal' \in [Variant -> Nat]
<1>1. ASSUME NEW v \in Variant PROVE total[v] - taken[v] \in Nat
  <2>1. total[v] \in Nat /\ taken[v] \in Nat /\ stockReserved[v] \in Nat
    BY DEF StockTypeOK
  <2>2. taken[v] > 0 => total[v] - stockReserved[v] >= taken[v]
    BY DEF TakeForReplacement
  <2> QED BY <2>1, <2>2
<1> QED BY <1>1 DEF TakeForReplacement

-----------------------------------------------------------------------------
(***************************************************************************)
(* Money, stock and photos follow the requests.                            *)
(***************************************************************************)

\* A request moves nothing before it is received.
NothingBeforeReception ==
  \A r \in Request : requestStatus[r] # RESUELTA => restocked[r] = None /\ sent[r] = None

NoneByHand == \A r \in Request : refund[r] # A_MANO

EInv ==
  /\ TypeOK
  /\ RefundsOfResolved
  /\ NothingBeforeReception
  /\ NoneByHand
  /\ StockFollowsReturns
  /\ PhotosOfRequests

LEMMA InitEInv == Init => EInv
<1> SUFFICES ASSUME Init PROVE EInv
  OBVIOUS
<1>1. TypeOK
  BY InitTypes
<1>2. RefundsOfResolved /\ NothingBeforeReception /\ NoneByHand /\ PhotosOfRequests
  BY DEF Init, RefundsOfResolved, NothingBeforeReception, NoneByHand, PhotosOfRequests,
         SIN_REEMBOLSO, A_MANO
<1>3. StockFollowsReturns
  <2> SUFFICES ASSUME NEW v \in Variant
               PROVE  /\ stockTotal[v] = InitialStock[v]
                           + SumOver([r \in Request |-> restocked[r][v]], Request)
                           - SumOver([r \in Request |-> sent[r][v]], Request)
                      /\ stockReserved[v] <= stockTotal[v]
    BY DEF StockFollowsReturns
  <2>1. \A r \in Request : restocked[r][v] = 0 /\ sent[r][v] = 0
    BY DEF Init, None
  <2>2. /\ SumOver([r \in Request |-> restocked[r][v]], Request) = 0
        /\ SumOver([r \in Request |-> sent[r][v]], Request) = 0
    BY <2>1, ReturnsAssumption, SumZero
  <2>3. stockTotal[v] = InitialStock[v] /\ stockReserved[v] = 0 /\ InitialStock[v] \in Nat
    BY ReturnsAssumption DEF Init, None
  <2> QED BY <2>2, <2>3
<1> QED BY <1>1, <1>2, <1>3 DEF EInv

\* The steps that change neither the stock of the warehouse nor what the
\* requests did to it.
LEMMA StockStays ==
  ASSUME StockFollowsReturns, restocked' = restocked, sent' = sent, UNCHANGED stockVars
  PROVE  StockFollowsReturns'
BY DEF StockFollowsReturns, stockVars

\* Requests that are not received, and the photos of those that appear or go.
LEMMA RequestsEInv ==
  ASSUME QInv, QInv', EInv, NEW r \in Request,
         UploadPhotos(r) \/ Create(r) \/ CreateFails(r) \/ Approve(r) \/ Reject(r)
  PROVE  EInv'
<1> USE DEF SIN_ALTA, SUBIENDO, SOLICITADA, APROBADA, RECHAZADA, RESUELTA
<1>1. /\ requestStatus[r] \in {SIN_ALTA, SUBIENDO, SOLICITADA}
      /\ requestStatus'[r] # RESUELTA
      /\ \A q \in Request \ {r} : /\ requestStatus'[q] = requestStatus[q]
                                  /\ requestType'[q] = requestType[q]
      /\ UNCHANGED <<refundApproved, refund, replacement, sent, restocked, received,
                     windowOpen, stockVars>>
  BY DEF UploadPhotos, Create, CreateFails, Approve, Reject, EInv, TypeOK
<1>2. photos' = { q \in Request : requestStatus'[q] # SIN_ALTA }
  <2>1. photos = { q \in Request : requestStatus[q] # SIN_ALTA }
    BY DEF EInv, PhotosOfRequests
  <2>2. requestStatus \in [Request -> RequestStatuses]
    BY DEF EInv, TypeOK
  <2>3. CASE UploadPhotos(r)
    BY <2>1, <2>2, <2>3 DEF UploadPhotos
  <2>4. CASE CreateFails(r)
    BY <2>1, <2>2, <2>4 DEF CreateFails
  <2>5. CASE Create(r) \/ Approve(r) \/ Reject(r)
    BY <2>1, <2>2, <2>5 DEF Create, Approve, Reject
  <2> QED BY <2>3, <2>4, <2>5
<1>3. TypeOK'
  <2>1. RequestsOK'
    BY DEF QInv
  <2>2. photos' \in SUBSET Request
    BY <1>2
  <2> QED BY <1>1, <2>1, <2>2 DEF EInv, TypeOK, RequestsOK, stockVars, StockTypeOK
<1>4. RefundsOfResolved' /\ NothingBeforeReception' /\ NoneByHand'
  BY <1>1 DEF EInv, RefundsOfResolved, NothingBeforeReception, NoneByHand, Resolved
<1>5. StockFollowsReturns'
  BY <1>1, StockStays DEF EInv
<1> QED BY <1>2, <1>3, <1>4, <1>5 DEF EInv, PhotosOfRequests

\* A reception adds what came back to the stock, and takes what it sends.
LEMMA ReceptionMovesStock ==
  ASSUME TypeOK, TypeOK', StockFollowsReturns, NothingBeforeReception, NEW r \in Request,
         requestStatus[r] # RESUELTA,
         NEW good \in Units, NEW taken \in [Variant -> Nat],
         restocked' = [restocked EXCEPT ![r] = good],
         sent' = [sent EXCEPT ![r] = taken],
         TakeForReplacement(RestockReturn(good), taken),
         stockReserved' = stockReserved
  PROVE  StockFollowsReturns'
<1> SUFFICES ASSUME NEW v \in Variant
             PROVE  /\ stockTotal'[v] = InitialStock[v]
                         + SumOver([q \in Request |-> restocked'[q][v]], Request)
                         - SumOver([q \in Request |-> sent'[q][v]], Request)
                    /\ stockReserved'[v] <= stockTotal'[v]
  BY DEF StockFollowsReturns
<1> DEFINE f == [q \in Request |-> restocked[q][v]]
           g == [q \in Request |-> restocked'[q][v]]
           h == [q \in Request |-> sent[q][v]]
           k == [q \in Request |-> sent'[q][v]]
<1>1. f[r] = 0 /\ h[r] = 0 /\ g[r] = good[v] /\ k[r] = taken[v]
  BY DEF NothingBeforeReception, None, TypeOK
<1>2. /\ \A q \in Request \ {r} : g[q] = f[q]
      /\ \A q \in Request \ {r} : k[q] = h[q]
  BY DEF TypeOK
<1>3. /\ \A q \in Request : f[q] \in Nat /\ g[q] \in Nat
      /\ \A q \in Request : h[q] \in Nat /\ k[q] \in Nat
      /\ IsFiniteSet(Request)
  BY ReturnsAssumption DEF TypeOK, Units
<1>4. stockTotal[v] = InitialStock[v] + SumOver(f, Request) - SumOver(h, Request)
      /\ stockReserved[v] <= stockTotal[v]
  BY DEF StockFollowsReturns
<1> HIDE DEF f, g, h, k
<1>5. SumOver(g, Request) = SumOver(f, Request) - f[r] + g[r]
  BY <1>2, <1>3, SumChange
<1>6. SumOver(k, Request) = SumOver(h, Request) - h[r] + k[r]
  BY <1>2, <1>3, SumChange
<1>7. SumOver(f, Request) \in Nat /\ SumOver(h, Request) \in Nat
  BY <1>3, SumType
<1>8. /\ stockTotal[v] \in Nat /\ stockReserved[v] \in Nat /\ InitialStock[v] \in Nat
      /\ good[v] \in Nat /\ taken[v] \in Nat
  BY ReturnsAssumption DEF TypeOK, StockTypeOK, Units
<1>9. /\ stockTotal'[v] = stockTotal[v] + good[v] - taken[v]
      /\ taken[v] > 0 => stockTotal[v] + good[v] - stockReserved[v] >= taken[v]
  <2>1. PICK n \in Nat : n = stockTotal[v] + good[v] /\ n = RestockReturn(good)[v]
    BY <1>8 DEF RestockReturn
  <2>2. /\ stockTotal'[v] = n - taken[v]
        /\ taken[v] > 0 => n - stockReserved[v] >= taken[v]
    BY <2>1 DEF TakeForReplacement
  <2> QED BY <1>8, <2>1, <2>2
<1>10. /\ stockTotal'[v] = InitialStock[v] + SumOver(g, Request) - SumOver(k, Request)
       /\ stockReserved[v] <= stockTotal'[v]
  BY <1>1, <1>4, <1>5, <1>6, <1>7, <1>8, <1>9
<1> QED BY <1>10 DEF g, k

\* What both receptions do to their request.
LEMMA ReceptionKeeps ==
  ASSUME EInv, NEW r \in Request, requestStatus[r] = APROBADA,
         requestStatus' = [requestStatus EXCEPT ![r] = RESUELTA],
         NEW good, NEW taken,
         restocked' = [restocked EXCEPT ![r] = good],
         sent' = [sent EXCEPT ![r] = taken],
         photos' = photos
  PROVE  NothingBeforeReception' /\ PhotosOfRequests'
<1> USE DEF SIN_ALTA, APROBADA, RESUELTA
<1>1. requestStatus \in [Request -> RequestStatuses]
  BY DEF EInv, TypeOK
<1>2. NothingBeforeReception'
  BY <1>1 DEF EInv, TypeOK, NothingBeforeReception
<1>3. PhotosOfRequests'
  BY <1>1 DEF EInv, PhotosOfRequests
<1> QED BY <1>2, <1>3

\* A return: its refund fits in what is left of the payment.
LEMMA ReturnEInv ==
  ASSUME QInv, QInv', EInv, NEW r \in Request, ReceiveReturn(r)
  PROVE  EInv'
<1> USE DEF SIN_ALTA, SUBIENDO, SOLICITADA, APROBADA, RECHAZADA, RESUELTA
<1>1. PICK dto \in ReceiveReturnDto :
        /\ stockTotal' = RestockReturn(InGoodState(dto))
        /\ restocked' = [restocked EXCEPT ![r] = InGoodState(dto)]
        /\ received' = [received EXCEPT ![r] = dto.units]
        /\ refundApproved' = [refundApproved EXCEPT
               ![r] = Arrived(dto) \ (dto.damaged \ dto.pardoned)]
        /\ refund' = [refund EXCEPT
               ![r] = RequestRefund(
                  RefundAmount(Arrived(dto) \ (dto.damaged \ dto.pardoned), dto.units))]
  BY DEF ReceiveReturn
<1> DEFINE good == InGoodState(dto)
           refunded == Arrived(dto) \ (dto.damaged \ dto.pardoned)
           amount == RefundAmount(refunded, dto.units)
<1>2. good \in Units /\ dto.units \in Units /\ refunded \in SUBSET Variant
  BY GoodUnits
<1>3. /\ requestStatus[r] = APROBADA /\ requestType[r] = DEVOLUCION
      /\ requestStatus' = [requestStatus EXCEPT ![r] = RESUELTA]
      /\ UNCHANGED <<windowOpen, requestType, replacement, sent, photos, stockReserved>>
  BY DEF ReceiveReturn
<1>4. TypeOK
  BY DEF EInv
<1>5. amount \in Nat
  BY <1>2, CentsFinite
<1>6. CommittedRefunds \in Nat
  BY CommittedFit DEF EInv
<1>7. refund'[r] = RequestRefund(amount) /\ refundApproved'[r] = refunded /\ received'[r] = dto.units
  BY <1>1, <1>4 DEF TypeOK
<1> HIDE DEF good, amount
<1>8. TypeOK'
  <2>1. RequestsOK'
    BY DEF QInv
  <2>2. StockTypeOK'
    BY <1>1, <1>2, <1>3, <1>4, RestockedType DEF TypeOK, StockTypeOK, good
  <2>3. refund'[r] \in {SIN_REEMBOLSO, COMPROMETIDO, RECHAZADO, A_MANO}
    BY <1>5, <1>6, <1>7, RefundOutcomes
  <2>4. refund' \in [Request -> {SIN_REEMBOLSO, COMPROMETIDO, RECHAZADO, A_MANO}]
    BY <1>1, <1>4, <2>3 DEF TypeOK
  <2>5. restocked' \in [Request -> Units] /\ refundApproved' \in [Request -> SUBSET Variant]
    BY <1>1, <1>2, <1>4 DEF TypeOK, good
  <2> QED BY <1>3, <1>4, <2>1, <2>2, <2>4, <2>5 DEF TypeOK, RequestsOK
<1>9. /\ ~Resolved(r) /\ Resolved(r)'
      /\ \A q \in Request \ {r} : /\ Resolved(q)' <=> Resolved(q)
                                  /\ refundApproved'[q] = refundApproved[q]
                                  /\ received'[q] = received[q]
                                  /\ refund'[q] = refund[q]
  BY <1>1, <1>3, <1>4 DEF Resolved, TypeOK
<1>10. RefundsOfResolved'
  BY <1>9 DEF EInv, RefundsOfResolved
<1>11. NoneByHand'
  <2>1. Paid - CommittedRefunds >= RefundAmount(refundApproved'[r], received'[r])
    BY <1>4, <1>8, <1>9, ReceptionFits DEF EInv
  <2>2. RequestRefund(amount) \in {SIN_REEMBOLSO, COMPROMETIDO}
    BY <1>5, <1>6, <1>7, <2>1, RefundOutcomes DEF amount
  <2> QED BY <1>7, <1>9, <2>2 DEF EInv, NoneByHand, SIN_REEMBOLSO, COMPROMETIDO, A_MANO
<1>12. sent' = [sent EXCEPT ![r] = None] /\ None \in [Variant -> Nat]
  BY <1>3, <1>4 DEF EInv, NothingBeforeReception, TypeOK, None
<1>13. TakeForReplacement(RestockReturn(good), None)
  <2>1. RestockReturn(good) \in [Variant -> Nat]
    BY <1>2, <1>4, RestockedType DEF TypeOK
  <2>2. stockTotal' = RestockReturn(good)
    BY <1>1 DEF good
  <2> HIDE DEF good
  <2>3. \A v \in Variant : RestockReturn(good)[v] - None[v] = RestockReturn(good)[v]
    BY <2>1 DEF None
  <2>4. stockTotal' = [v \in Variant |-> RestockReturn(good)[v] - None[v]]
    BY <2>1, <2>2, <2>3
  <2> QED BY <2>4 DEF TakeForReplacement, None
<1>14. restocked' = [restocked EXCEPT ![r] = good]
  BY <1>1 DEF good
<1>15. StockFollowsReturns'
  BY <1>2, <1>3, <1>4, <1>8, <1>12, <1>13, <1>14, ReceptionMovesStock DEF EInv
<1>16. NothingBeforeReception' /\ PhotosOfRequests'
  BY <1>3, <1>12, <1>14, ReceptionKeeps
<1> QED BY <1>8, <1>10, <1>11, <1>15, <1>16 DEF EInv

\* A change: its replacements leave what is promised to other orders.
LEMMA ChangeEInv ==
  ASSUME QInv, QInv', EInv, NEW r \in Request, ReceiveChange(r)
  PROVE  EInv'
<1> USE DEF SIN_ALTA, SUBIENDO, SOLICITADA, APROBADA, RECHAZADA, RESUELTA
<1>1. PICK dto \in ReceiveReturnDto :
        /\ CreateReplacements(r, dto)
        /\ restocked' = [restocked EXCEPT ![r] = InGoodState(dto)]
  BY DEF ReceiveChange
<1>2. PICK choice \in [Arrived(dto) -> Variant] :
        LET taken == [w \in Variant |->
                  SumOver(dto.units, { v \in Arrived(dto) : choice[v] = w })]
        IN /\ TakeForReplacement(RestockReturn(InGoodState(dto)), taken)
           /\ sent' = [sent EXCEPT ![r] = taken]
  BY <1>1 DEF CreateReplacements
<1> DEFINE good == InGoodState(dto)
           taken == [w \in Variant |->
                       SumOver(dto.units, { v \in Arrived(dto) : choice[v] = w })]
<1>3. /\ TakeForReplacement(RestockReturn(good), taken)
      /\ sent' = [sent EXCEPT ![r] = taken] /\ restocked' = [restocked EXCEPT ![r] = good]
  BY <1>1, <1>2
<1>4. good \in Units /\ taken \in [Variant -> Nat]
  BY GoodUnits, TakenUnits
<1> HIDE DEF good, taken
<1>5. /\ requestStatus[r] = APROBADA /\ requestType[r] = CAMBIO
      /\ requestStatus' = [requestStatus EXCEPT ![r] = RESUELTA]
      /\ replacement' = [replacement EXCEPT ![r] = PENDIENTE_DESPACHO]
      /\ UNCHANGED <<windowOpen, requestType, refundApproved, refund, photos, stockReserved>>
  BY DEF ReceiveChange
<1>6. TypeOK
  BY DEF EInv
<1>7. TypeOK'
  <2>1. RequestsOK'
    BY DEF QInv
  <2>2. RestockReturn(good) \in [Variant -> Nat]
    BY <1>4, <1>6, RestockedType DEF TypeOK
  <2>3. StockTypeOK'
    BY <1>3, <1>4, <1>5, <1>6, <2>2, TakenType DEF TypeOK, StockTypeOK
  <2>4. restocked' \in [Request -> Units] /\ sent' \in [Request -> [Variant -> Nat]]
    BY <1>3, <1>4, <1>6 DEF TypeOK
  <2> QED BY <1>5, <1>6, <2>1, <2>3, <2>4 DEF TypeOK, RequestsOK, ReplacementStatuses
<1>8. RefundsOfResolved' /\ NoneByHand'
  <2>1. ~Resolved(r) /\ \A q \in Request \ {r} : Resolved(q)' <=> Resolved(q)
    BY <1>5, <1>6 DEF Resolved, TypeOK
  <2> QED BY <1>5, <2>1 DEF EInv, RefundsOfResolved, NoneByHand
<1>9. StockFollowsReturns'
  BY <1>3, <1>4, <1>5, <1>6, <1>7, ReceptionMovesStock DEF EInv
<1>10. NothingBeforeReception' /\ PhotosOfRequests'
  BY <1>3, <1>5, ReceptionKeeps
<1> QED BY <1>7, <1>8, <1>9, <1>10 DEF EInv

\* What the gateway and the administrator do to a refund that exists.
LEMMA RefundEInv ==
  ASSUME QInv', EInv, NEW r \in Request, RefundRefused(r) \/ RetryRefund(r)
  PROVE  EInv'
<1>1. /\ refund[r] \in {COMPROMETIDO, RECHAZADO}
      /\ \E to \in {COMPROMETIDO, RECHAZADO} : refund' = [refund EXCEPT ![r] = to]
      /\ UNCHANGED <<orderStatus, windowOpen, requestStatus, requestType, asked,
                     approved, received, refundApproved, replacement, sent,
                     restocked, photos, stockVars>>
  BY DEF RefundRefused, RetryRefund, SetRefund
<1>2. TypeOK'
  BY <1>1 DEF EInv, TypeOK, StockTypeOK, stockVars
<1>3. RefundsOfResolved' /\ NoneByHand'
  BY <1>1 DEF EInv, TypeOK, RefundsOfResolved, NoneByHand, Resolved,
              SIN_REEMBOLSO, COMPROMETIDO, RECHAZADO, A_MANO
<1>4. NothingBeforeReception' /\ PhotosOfRequests' /\ StockFollowsReturns'
  BY <1>1, StockStays DEF EInv, NothingBeforeReception, PhotosOfRequests
<1> QED BY <1>2, <1>3, <1>4 DEF EInv

\* Other orders reserve what is available, and give it back.
LEMMA OthersEInv ==
  ASSUME EInv, NEW v \in Variant, OtherOrderReserves(v) \/ OtherOrderReleases(v)
  PROVE  EInv'
<1>1. /\ UNCHANGED <<orderStatus, windowOpen, requestStatus, requestType, asked, approved,
                     received, refundApproved, refund, replacement, sent, restocked,
                     photos, stockTotal>>
  BY DEF OtherOrderReserves, OtherOrderReleases, requestVars
<1>2. \A w \in Variant : stockTotal[w] \in Nat /\ stockReserved[w] \in Nat
  BY DEF EInv, TypeOK, StockTypeOK
<1>3. /\ stockReserved' \in [Variant -> Nat]
      /\ \A w \in Variant : stockReserved'[w] <= stockReserved[w]
                              \/ stockReserved'[w] <= stockTotal[w]
  <2>1. CASE OtherOrderReserves(v)
    BY <1>2, <2>1 DEF OtherOrderReserves, Reserve, Fits, Available, OtherLine
  <2>2. CASE OtherOrderReleases(v)
    BY <1>2, <2>2 DEF OtherOrderReleases, Release, OtherLine
  <2> QED BY <2>1, <2>2
<1>4. TypeOK'
  BY <1>1, <1>3 DEF EInv, TypeOK, StockTypeOK
<1>5. StockFollowsReturns'
  <2>1. \A w \in Variant : stockReserved[w] <= stockTotal[w]
    BY DEF EInv, StockFollowsReturns
  <2>2. \A w \in Variant : stockReserved'[w] <= stockTotal[w]
    <3> SUFFICES ASSUME NEW w \in Variant PROVE stockReserved'[w] <= stockTotal[w]
      OBVIOUS
    <3>1. stockReserved'[w] \in Nat
      BY <1>3
    <3> QED BY <1>2, <1>3, <2>1, <3>1
  <2> QED BY <1>1, <2>2 DEF EInv, StockFollowsReturns
<1> QED
  BY <1>1, <1>4, <1>5 DEF EInv, RefundsOfResolved, Resolved, NothingBeforeReception,
                          NoneByHand, PhotosOfRequests

LEMMA NextEInv == QInv /\ QInv' /\ EInv /\ [Next]_vars => EInv'
<1> SUFFICES ASSUME QInv, QInv', EInv, [Next]_vars PROVE EInv'
  OBVIOUS
<1>1. ASSUME NEW r \in Request,
             UploadPhotos(r) \/ Create(r) \/ CreateFails(r) \/ Approve(r) \/ Reject(r)
      PROVE  EInv'
  BY <1>1, RequestsEInv
<1>2. ASSUME NEW r \in Request, ReceiveReturn(r) PROVE EInv'
  BY <1>2, ReturnEInv
<1>3. ASSUME NEW r \in Request, ReceiveChange(r) PROVE EInv'
  BY <1>3, ChangeEInv
<1>4. ASSUME NEW r \in Request, DispatchReplacement(r) PROVE EInv'
  <2>1. /\ replacement' \in [Request -> ReplacementStatuses]
        /\ UNCHANGED <<orderStatus, windowOpen, requestStatus, requestType, asked,
                       approved, received, refundApproved, refund, sent, restocked,
                       photos, stockVars>>
    BY <1>4 DEF DispatchReplacement, EInv, TypeOK, ReplacementStatuses
  <2> QED
    BY <2>1, StockStays DEF EInv, TypeOK, StockTypeOK, stockVars, RefundsOfResolved, Resolved,
                            NothingBeforeReception, NoneByHand, PhotosOfRequests
<1>5. ASSUME NEW r \in Request, RefundRefused(r) \/ RetryRefund(r) PROVE EInv'
  BY <1>5, RefundEInv
<1>6. ASSUME WindowCloses \/ UNCHANGED vars PROVE EInv'
  <2>1. /\ windowOpen' \in BOOLEAN
        /\ UNCHANGED <<orderStatus, requestStatus, requestType, asked, approved, received,
                       refundApproved, refund, replacement, sent, restocked, photos,
                       stockVars>>
    BY <1>6 DEF WindowCloses, vars, requestVars, EInv, TypeOK
  <2> QED
    BY <2>1, StockStays DEF EInv, TypeOK, StockTypeOK, stockVars, RefundsOfResolved, Resolved,
                            NothingBeforeReception, NoneByHand, PhotosOfRequests
<1>7. ASSUME NEW v \in Variant, OtherOrderReserves(v) \/ OtherOrderReleases(v) PROVE EInv'
  BY <1>7, OthersEInv
<1> QED BY <1>1, <1>2, <1>3, <1>4, <1>5, <1>6, <1>7 DEF Next

LEMMA SpecEInv == Spec => []EInv
BY InitEInv, NextEInv, SpecQInv, PTL DEF Spec

-----------------------------------------------------------------------------
\* Every variable holds values of its kind, and stock is never negative.
THEOREM TypesHold == Spec => []TypeOK
<1>1. EInv => TypeOK
  BY DEF EInv
<1> QED BY SpecEInv, <1>1, PTL

\* The refunds of any number of returns fit in the payment of their order, and
\* none is ever left to be done by hand.
THEOREM RefundsAlwaysFit == Spec => []RefundsFitThePayment
<1>1. QInv /\ EInv => RefundsFitThePayment
  BY CommittedFit DEF EInv, NoneByHand, RefundsFitThePayment
<1> QED BY SpecQInv, SpecEInv, <1>1, PTL

\* The money, the stock and the photos follow the requests, however many of
\* them overlap.
THEOREM EffectsAlwaysFollow == Spec => []EffectsFollowRequests
<1>1. RefundsFitThePayment /\ EInv => EffectsFollowRequests
  BY DEF EInv, EffectsFollowRequests
<1> QED BY RefundsAlwaysFit, SpecEInv, <1>1, PTL

\* What was resolved or rejected stays as it was.
THEOREM ResolvedIsFinal == Spec => ResolutionIsFinal
<1> DEFINE Final(r) ==
       requestStatus[r] \in {RECHAZADA, RESUELTA} =>
          /\ requestStatus'[r] = requestStatus[r]
          /\ received'[r] = received[r] /\ sent'[r] = sent[r]
          /\ refundApproved'[r] = refundApproved[r]
          /\ replacement[r] = DESPACHADO => replacement'[r] = DESPACHADO
<1>1. ASSUME TypeOK, [Next]_vars, NEW r \in Request PROVE Final(r)
  <2> USE <1>1 DEF SIN_ALTA, SUBIENDO, SOLICITADA, APROBADA, RECHAZADA, RESUELTA
  <2>1. ASSUME NEW s \in Request,
               UploadPhotos(s) \/ Create(s) \/ CreateFails(s) \/ Approve(s) \/ Reject(s)
        PROVE  Final(r)
    BY <2>1 DEF TypeOK, UploadPhotos, Create, CreateFails, Approve, Reject
  <2>2. ASSUME NEW s \in Request, ReceiveReturn(s) PROVE Final(r)
    BY <2>2 DEF TypeOK, ReceiveReturn
  <2>3. ASSUME NEW s \in Request, ReceiveChange(s) PROVE Final(r)
    BY <2>3 DEF TypeOK, ReceiveChange, CreateReplacements
  <2>4. ASSUME NEW s \in Request, DispatchReplacement(s) PROVE Final(r)
    BY <2>4 DEF TypeOK, DispatchReplacement
  <2>5. ASSUME NEW s \in Request, RefundRefused(s) \/ RetryRefund(s) PROVE Final(r)
    BY <2>5 DEF RefundRefused, RetryRefund, SetRefund
  <2>6. CASE WindowCloses
    BY <2>6 DEF WindowCloses, requestVars
  <2>7. ASSUME NEW v \in Variant, OtherOrderReserves(v) \/ OtherOrderReleases(v)
        PROVE  Final(r)
    BY <2>7 DEF OtherOrderReserves, OtherOrderReleases, requestVars
  <2>8. CASE UNCHANGED vars
    BY <2>8 DEF vars, requestVars
  <2> QED BY <2>1, <2>2, <2>3, <2>4, <2>5, <2>6, <2>7, <2>8 DEF Next
<1>2. TypeOK /\ [Next]_vars => [\A r \in Request : Final(r)]_vars
  BY <1>1
<1> QED BY TypesHold, <1>2, PTL DEF Spec, ResolutionIsFinal

-----------------------------------------------------------------------------
(***************************************************************************)
(* The pages of an order.                                                  *)
(***************************************************************************)

\* An order starts in a state of orders, and "nothing yet" is not an answer.
PagesAssumption(s) ==
  /\ s.starts \subseteq On(s)!OrderStatuses /\ s.maxLog \in Nat \ {0}
  /\ Nothing \notin {"allowed", "INVALID_TRANSITION"}

\* An order that is not cancelled is paid exactly in the states of a paid order.
PaidFits(s, o) == o.status # On(s)!CANCELADO => (o.paid <=> o.status \in On(s)!PAID_STATUSES)

\* What the detail showed at any time.
LogInv(s) ==
  /\ log \in Seq(On(s)!Order) /\ Len(log) \in 1..s.maxLog /\ over \subseteq On(s)!Windows
  /\ \A i \in 1..Len(log) : PaidFits(s, log[i])

\* A page shows, or waits for, a detail that was so.
ScreensInv(s) ==
  /\ DOMAIN shown = On(s)!Pages /\ DOMAIN fetch = On(s)!Pages
  /\ \A p \in On(s)!Pages :
       /\ shown[p] = Nothing \/ On(s)!Detail(shown[p])
       /\ fetch[p].phase \in {"none", "asked", "read"}
       /\ fetch[p].phase = "read" => On(s)!Detail(fetch[p].detail)

RequestFields == {"page", "op", "seen", "phase", "to", "outcome", "when", "answer"}
PageOps == {"cancel", "tracking", "return", "status", "retry", "sync", "note"}

\* What was answered to a request is what the page had announced.
AnswerIsFair(s, r) ==
  /\ r.outcome # "INVALID_TRANSITION"
  /\ On(s)!Refused(r) /\ On(s)!StillOffered(r) => r.op = "retry"
  /\ r.op = "cancel" /\ r.outcome = "allowed" =>
       On(s)!DialogSays(r.page, log[r.seen.at]) = On(s)!CancellationEffects(log[r.when.at])

\* A request names a detail that its page showed, and a transition of it.
RequestInv(s, r) ==
  /\ DOMAIN r = RequestFields
  /\ r.page \in On(s)!Pages /\ r.op \in PageOps /\ On(s)!Detail(r.seen)
  /\ r.phase \in {"sent", "done", "answered"}
  /\ r.op = "status" => r.to \in On(s)!AdminNext(log[r.seen.at])
  /\ r.phase = "sent" => r.outcome = Nothing
  /\ r.phase # "sent" => On(s)!Detail(r.when) /\ AnswerIsFair(s, r)
  /\ r.phase = "answered" /\ r.outcome = "allowed" => On(s)!Detail(r.answer)

\* A page has one request of a kind under way.
OneOfAKind == \A r, q \in requests : r.page = q.page /\ r.op = q.op => r = q

PagesInv(s) ==
  LogInv(s) /\ ScreensInv(s) /\ (\A r \in requests : RequestInv(s, r)) /\ OneOfAKind


-----------------------------------------------------------------------------
(* The log of the order.                                                   *)

\* The states of an order and the sets of them that the policies name.
LEMMA StatusNames ==
  ASSUME NEW s
  PROVE  /\ On(s)!OrderStatuses =
             {"pendiente_pago", "pago_pendiente_acreditacion", "pago_rechazado",
              "pagado", "en_preparacion", "despachado", "entregado", "cancelado", "devuelto"}
         /\ On(s)!PAID_STATUSES =
              {"pagado", "en_preparacion", "despachado", "entregado", "devuelto"}
         /\ On(s)!AWAITING_PAYMENT_STATUSES =
              {"pendiente_pago", "pago_pendiente_acreditacion", "pago_rechazado"}
         /\ On(s)!CANCELADO = "cancelado" /\ On(s)!DEVUELTO = "devuelto" /\ On(s)!PAGADO = "pagado"
         /\ On(s)!DESPACHADO = "despachado" /\ On(s)!PAGO_RECHAZADO = "pago_rechazado"
         /\ On(s)!PENDIENTE_PAGO = "pendiente_pago" /\ On(s)!ENTREGADO = "entregado"
BY DEF On!OrderStatuses, On!PAID_STATUSES, On!AWAITING_PAYMENT_STATUSES, On!PENDIENTE_PAGO,
       On!PAGO_PENDIENTE_ACREDITACION, On!PAGO_RECHAZADO, On!PAGADO, On!EN_PREPARACION,
       On!DESPACHADO, On!ENTREGADO, On!CANCELADO, On!DEVUELTO

\* The transitions and cancellations of the policies, by name.
LEMMA PolicyNames ==
  ASSUME NEW s
  PROVE  /\ On(s)!ADMIN_TRANSITIONS = {<<"pagado", "en_preparacion">>,
              <<"en_preparacion", "despachado">>, <<"despachado", "entregado">>}
         /\ On(s)!CUSTOMER_CANCELLABLE_STATUSES = {"pendiente_pago", "pago_pendiente_acreditacion",
              "pago_rechazado", "pagado", "en_preparacion"}
         /\ On(s)!RETRYABLE_PAYMENT_STATUSES = {"pendiente_pago", "pago_rechazado"}
BY DEF On!ADMIN_TRANSITIONS, On!CUSTOMER_CANCELLABLE_STATUSES, On!RETRYABLE_PAYMENT_STATUSES,
       On!AWAITING_PAYMENT_STATUSES, On!PENDIENTE_PAGO, On!PAGO_PENDIENTE_ACREDITACION,
       On!PAGO_RECHAZADO, On!PAGADO, On!EN_PREPARACION, On!DESPACHADO, On!ENTREGADO

\* A change of state leaves an order that is paid in the states of a paid order.
LEMMA ChangedIsPaid ==
  ASSUME NEW s, NEW o \in On(s)!Order, PaidFits(s, o), NEW to \in On(s)!OrderStatuses,
         to # "cancelado" => (o.paid \/ to = "pagado" <=> to \in On(s)!PAID_STATUSES)
  PROVE  On(s)!ChangeStatus(o, to) \in On(s)!Order /\ PaidFits(s, On(s)!ChangeStatus(o, to))
<1>1. /\ On(s)!ChangeStatus(o, to) \in On(s)!Order /\ On(s)!ChangeStatus(o, to).status = to
      /\ On(s)!ChangeStatus(o, to).paid = (o.paid \/ to = "pagado")
  BY StatusNames DEF On!ChangeStatus, On!Order
<1> QED BY <1>1, StatusNames DEF PaidFits

\* So do the payments, the expiration and the end of the returns.
LEMMA MovesArePaid ==
  ASSUME NEW s, NEW o \in On(s)!Order, PaidFits(s, o),
         NEW n \in On(s)!PaymentChanges(o) \cup On(s)!Expiration(o) \cup On(s)!Completed(o)
  PROVE  n \in On(s)!Order /\ PaidFits(s, n)
<1>1. CASE n \in On(s)!PaymentChanges(o)
  <2>1. PICK to \in {"pago_pendiente_acreditacion", "pago_rechazado", "pagado"} :
          /\ n = On(s)!ChangeStatus(o, to)
          /\ to # "pagado" => o.status \in On(s)!AWAITING_PAYMENT_STATUSES
    BY <1>1, StatusNames DEF On!PaymentChanges
  <2> QED BY <2>1, ChangedIsPaid, StatusNames DEF PaidFits
<1>2. CASE n \in On(s)!Expiration(o)
  <2>1. /\ On(s)!ChangeStatus(o, "cancelado") \in On(s)!Order
        /\ PaidFits(s, On(s)!ChangeStatus(o, "cancelado"))
    BY ChangedIsPaid, StatusNames
  <2>2. n = [On(s)!ChangeStatus(o, "cancelado") EXCEPT !.revivable = TRUE]
    BY <1>2, StatusNames DEF On!Expiration
  <2> QED BY <2>1, <2>2 DEF On!Order, PaidFits
<1>3. CASE n \in On(s)!Completed(o)
  <2>1. n = On(s)!ChangeStatus(o, "devuelto") /\ o.status = "entregado"
    BY <1>3, StatusNames DEF On!Completed
  <2> QED BY <2>1, ChangedIsPaid, StatusNames DEF PaidFits
<1> QED BY <1>1, <1>2, <1>3

\* The log only grows: what a detail showed stays in it.
LogKeeps == Len(log') >= Len(log) /\ \A i \in 1..Len(log) : log'[i] = log[i]

\* A new state of the order goes to the end of the log.
LEMMA RecordKeepsLog ==
  ASSUME NEW s, PagesAssumption(s), LogInv(s), NEW o \in On(s)!Order, PaidFits(s, o),
         On(s)!Record(o)
  PROVE  LogInv(s)' /\ LogKeeps
<1>1. /\ log \in Seq(On(s)!Order) /\ Len(log) \in 1..s.maxLog /\ Len(log) < s.maxLog
      /\ log' = Append(log, o) /\ s.maxLog \in Nat
  BY DEF LogInv, On!Record, PagesAssumption
<1>2. /\ log' \in Seq(On(s)!Order) /\ Len(log') = Len(log) + 1 /\ log'[Len(log) + 1] = o
      /\ \A i \in 1..Len(log) : log'[i] = log[i]
  BY <1>1
<1>3. over' \subseteq On(s)!Windows BY DEF LogInv, On!Record
<1>4. \A i \in 1..Len(log') : PaidFits(s, log'[i])
  BY <1>1, <1>2 DEF LogInv
<1>5. PaidFits(s, log'[Len(log')]) /\ Len(log') \in 1..s.maxLog BY <1>1, <1>2
<1> QED BY <1>1, <1>2, <1>3, <1>4, <1>5 DEF LogInv, LogKeeps

\* The order is the last of the log.
LEMMA OrderIsLogged ==
  ASSUME NEW s, LogInv(s)
  PROVE  /\ On(s)!order \in On(s)!Order /\ PaidFits(s, On(s)!order) /\ On(s)!Detail(On(s)!Now)
         /\ log[On(s)!Now.at] = On(s)!order /\ On(s)!Now.over = over
BY DEF LogInv, On!order, On!Now, On!Detail

\* Details and requests stay as they should be while the log grows.
LEMMA DetailStays ==
  ASSUME NEW s, LogInv(s), LogKeeps, NEW d, On(s)!Detail(d), LogInv(s)'
  PROVE  On(s)!Detail(d)' /\ log'[d.at] = log[d.at]
BY DEF LogInv, LogKeeps, On!Detail

LEMMA RequestStays ==
  ASSUME NEW s, LogInv(s), LogKeeps, LogInv(s)', NEW r, RequestInv(s, r)
  PROVE  RequestInv(s, r)'
<1>1. On(s)!Detail(r.seen)' /\ log'[r.seen.at] = log[r.seen.at]
  BY DetailStays DEF RequestInv
<1>2. r.phase # "sent" => On(s)!Detail(r.when)' /\ log'[r.when.at] = log[r.when.at]
  BY DetailStays DEF RequestInv
<1>3. r.phase = "answered" /\ r.outcome = "allowed" => On(s)!Detail(r.answer)'
  BY DetailStays DEF RequestInv
<1>4. r.phase # "sent" => AnswerIsFair(s, r)'
  <2>1. SUFFICES ASSUME r.phase # "sent" PROVE AnswerIsFair(s, r)'
    OBVIOUS
  <2>2. AnswerIsFair(s, r) /\ log'[r.when.at] = log[r.when.at]
    BY <1>2, <2>1 DEF RequestInv
  <2>3. On(s)!StillOffered(r)' <=> On(s)!StillOffered(r)
    BY <1>1 DEF On!StillOffered, On!Offers
  <2> QED BY <1>1, <2>2, <2>3 DEF AnswerIsFair
<1> QED BY <1>1, <1>2, <1>3, <1>4 DEF RequestInv

-----------------------------------------------------------------------------
(* The answers of the handlers.                                            *)

\* What a handler answers is what the page announced, whatever moved the order
\* since the page read it.
LEMMA OutcomeIsFair ==
  ASSUME NEW s, PagesAssumption(s), LogInv(s), NEW r, RequestInv(s, r), r.phase = "sent",
         NEW outcome \in On(s)!Outcomes(r),
         NEW q, q.page = r.page, q.op = r.op, q.seen = r.seen, q.outcome = outcome,
         q.when = On(s)!Now
  PROVE  /\ AnswerIsFair(s, q)
         /\ outcome = "allowed" /\ r.op = "status" => r.to \in On(s)!AdminNext(On(s)!order)
<1>0. /\ r.op \in PageOps /\ (r.op = "status" => r.to \in On(s)!AdminNext(log[r.seen.at]))
      /\ log[r.seen.at] \in On(s)!Order /\ PaidFits(s, log[r.seen.at])
  BY DEF RequestInv, On!Detail, LogInv
<1>1. /\ On(s)!order \in On(s)!Order /\ PaidFits(s, On(s)!order)
      /\ log[On(s)!Now.at] = On(s)!order /\ On(s)!Now.over = over
  BY OrderIsLogged
<1>2. On(s)!StillOffered(q) =>
        r.op \in On(s)!Offers(r.page, r.seen) /\ log[r.seen.at] = On(s)!order /\ r.seen.over = over
  BY <1>1 DEF On!StillOffered
<1>3. CASE r.op = "cancel"
  <2>1. outcome = On(s)!CancelOutcome(r) BY <1>3 DEF On!Outcomes
  <2>2. outcome # "INVALID_TRANSITION"
    BY <2>1 DEF On!CancelOutcome, On!CustomerCancellation
  <2>3. On(s)!Refused(q) => ~On(s)!StillOffered(q)
    <3>1. SUFFICES ASSUME On(s)!StillOffered(q) PROVE outcome = "allowed"
      BY DEF On!Refused
    <3>2. On(s)!Expected(r) = On(s)!order.status BY <1>2, <3>1 DEF On!Expected
    <3>3. CASE r.page \in s.customers
      BY <3>1, <3>2, <3>3, <1>2, <1>3, <2>1 DEF On!Offers, On!CustomerActions, On!CancelOutcome
    <3>4. CASE r.page \notin s.customers
      BY <3>1, <3>2, <3>4, <1>2, <1>3, <2>1 DEF On!Offers, On!AdminActions, On!CancelOutcome
    <3> QED BY <3>3, <3>4
  <2>4. outcome = "allowed" =>
          On(s)!DialogSays(r.page, log[r.seen.at]) = On(s)!CancellationEffects(On(s)!order)
    <3>1. SUFFICES ASSUME outcome = "allowed"
                   PROVE  On(s)!DialogSays(r.page, log[r.seen.at])
                            = On(s)!CancellationEffects(On(s)!order)
      OBVIOUS
    <3>2. /\ log[r.seen.at].status = On(s)!order.status
          /\ IF r.page \in s.customers
             THEN On(s)!order.status \in On(s)!CUSTOMER_CANCELLABLE_STATUSES
             ELSE On(s)!CanCancel(On(s)!order)
      BY <2>1, <3>1 DEF On!CancelOutcome, On!CustomerCancellation, On!Expected
    <3>3. log[r.seen.at].paid = On(s)!order.paid /\ On(s)!order.status # "cancelado"
          /\ (On(s)!order.paid <=> On(s)!order.status \in On(s)!PAID_STATUSES)
      BY <3>2, <1>0, <1>1, StatusNames, PolicyNames
         DEF PaidFits, On!CanCancel, On!ADMIN_NON_CANCELLABLE_STATUSES, On!Order
    <3>4. CASE r.page \in s.customers
      BY <3>2, <3>3, <3>4, StatusNames, PolicyNames
         DEF On!DialogSays, On!CustomerDialog, On!CancellationEffects, On!CustomerPaymentStatus
    <3>5. CASE r.page \notin s.customers
      BY <3>2, <3>3, <3>5 DEF On!DialogSays, On!AdminDialog, On!CancellationEffects
    <3> QED BY <3>4, <3>5
  <2> QED BY <2>2, <2>3, <2>4, <1>1, <1>3 DEF AnswerIsFair
<1>4. CASE r.op = "status"
  <2>1. outcome = On(s)!StatusOutcome(r) BY <1>4 DEF On!Outcomes
  <2>2. log[r.seen.at].status = On(s)!order.status =>
          On(s)!AdminNext(log[r.seen.at]) = On(s)!AdminNext(On(s)!order)
    BY DEF On!AdminNext
  <2>3. outcome \in {"allowed", "ORDER_STATUS_CHANGED"}
    BY <2>1, <2>2, <1>0, <1>4 DEF On!StatusOutcome, On!Expected
  <2>4. outcome = "allowed" => r.to \in On(s)!AdminNext(On(s)!order)
    BY <2>1 DEF On!StatusOutcome
  <2>5. On(s)!StillOffered(q) => outcome = "allowed"
    BY <2>1, <2>2, <1>0, <1>2, <1>4 DEF On!StatusOutcome, On!Expected
  <2> QED BY <2>3, <2>4, <2>5, <1>4 DEF AnswerIsFair, On!Refused
<1>5. CASE r.op = "tracking"
  <2>1. outcome = IF On(s)!CanEditTracking(On(s)!order) THEN "allowed" ELSE "TRACKING_NOT_EDITABLE"
    BY <1>5 DEF On!Outcomes
  <2>2. On(s)!StillOffered(q) => outcome = "allowed"
    BY <2>1, <1>2, <1>5 DEF On!Offers, On!CustomerActions, On!AdminActions
  <2> QED BY <2>1, <2>2, <1>5 DEF AnswerIsFair, On!Refused
<1>6. CASE r.op = "return"
  <2>1. outcome = On(s)!ReturnAvailability(On(s)!order, over) BY <1>6 DEF On!Outcomes
  <2>2. outcome # "INVALID_TRANSITION"
    BY <2>1 DEF On!ReturnAvailability, On!ReturnWindow
  <2>3. On(s)!StillOffered(q) => outcome = "allowed"
    BY <2>1, <1>2, <1>6 DEF On!Offers, On!CustomerActions, On!AdminActions
  <2> QED BY <2>2, <2>3, <1>6 DEF AnswerIsFair, On!Refused
<1>7. CASE r.op = "retry"
  <2>1. outcome \in {On(s)!PaymentRetry(On(s)!order, over), "allowed", "PAYMENT_RETRY_STALE"}
    BY <1>7 DEF On!Outcomes
  <2>2. outcome # "INVALID_TRANSITION" BY <2>1 DEF On!PaymentRetry
  <2> QED BY <2>2, <1>7 DEF AnswerIsFair
<1>8. CASE r.op \in {"sync", "note"}
  <2>1. outcome = "allowed" BY <1>8 DEF On!Outcomes
  <2> QED BY <2>1, <1>8 DEF AnswerIsFair, On!Refused
<1> QED BY <1>0, <1>3, <1>4, <1>5, <1>6, <1>7, <1>8 DEF PageOps

\* What an accepted request leaves is an order as it should be.
LEMMA ResultIsPaid ==
  ASSUME NEW s, LogInv(s), NEW r, r.op \in PageOps,
         r.op = "status" => r.to \in On(s)!AdminNext(On(s)!order), NEW o \in On(s)!Results(r)
  PROVE  o \in On(s)!Order /\ PaidFits(s, o)
<1>1. On(s)!order \in On(s)!Order /\ PaidFits(s, On(s)!order) BY OrderIsLogged
<1>2. CASE r.op = "cancel"
  <2>1. o = On(s)!ChangeStatus(On(s)!order, "cancelado")
    BY <1>2, StatusNames DEF On!Results, On!AddedOps
  <2> QED BY <1>1, <2>1, StatusNames, ChangedIsPaid
<1>3. CASE r.op = "status"
  <2>1. o = On(s)!ChangeStatus(On(s)!order, r.to) BY <1>3 DEF On!Results, On!AddedOps
  <2>2. On(s)!order.status \in {"pagado", "en_preparacion", "despachado"}
        /\ r.to \in {"en_preparacion", "despachado", "entregado"}
    BY <1>3, PolicyNames DEF On!AdminNext
  <2>3. On(s)!order.paid /\ r.to \in On(s)!PAID_STATUSES /\ r.to \in On(s)!OrderStatuses
    BY <1>1, <2>2, StatusNames DEF PaidFits
  <2> QED BY <1>1, <2>1, <2>3, ChangedIsPaid
<1>4. CASE r.op = "return"
  <2>1. o = [On(s)!order EXCEPT !.claimed = TRUE] BY <1>4 DEF On!Results, On!AddedOps
  <2> QED BY <1>1, <2>1 DEF On!Order, PaidFits
<1>5. CASE r.op = "retry"
  <2>1. CASE o = On(s)!order BY <1>1, <2>1
  <2>2. CASE /\ o = On(s)!ChangeStatus(On(s)!order, "pendiente_pago")
             /\ On(s)!order.status = "pago_rechazado"
    BY <1>1, <2>2, StatusNames, ChangedIsPaid DEF PaidFits
  <2> QED BY <1>5, <2>1, <2>2, StatusNames DEF On!Results, On!AddedOps
<1>6. CASE r.op \in {"tracking", "note"}
  BY <1>1, <1>6 DEF On!Results, On!AddedOps
<1>7. CASE r.op = "sync"
  <2>1. o = On(s)!order \/ o \in On(s)!PaymentChanges(On(s)!order)
    BY <1>7 DEF On!Results, On!AddedOps
  <2> QED BY <1>1, <2>1, MovesArePaid
<1> QED BY <1>2, <1>3, <1>4, <1>5, <1>6, <1>7 DEF PageOps

-----------------------------------------------------------------------------
(* The steps.                                                              *)

\* A step that leaves the log alone.
LEMMA SameLogStays ==
  ASSUME NEW s, LogInv(s), UNCHANGED <<log, over>>
  PROVE  LogInv(s)' /\ LogKeeps
BY DEF LogInv, LogKeeps

\* What pages show stays while the log grows.
LEMMA ScreensStay ==
  ASSUME NEW s, LogInv(s), LogKeeps, LogInv(s)', ScreensInv(s), UNCHANGED <<shown, fetch>>
  PROVE  ScreensInv(s)'
BY DetailStays DEF ScreensInv

\* A step of the order, of the time or of a dialog.
LEMMA OthersKeepPages ==
  ASSUME NEW s, PagesInv(s), LogInv(s)', LogKeeps, UNCHANGED <<shown, fetch, requests>>
  PROVE  PagesInv(s)'
<1>1. ScreensInv(s)' BY ScreensStay DEF PagesInv
<1>2. \A r \in requests : RequestInv(s, r)' BY RequestStays DEF PagesInv
<1> QED BY <1>1, <1>2 DEF PagesInv, OneOfAKind

\* At the start every page reads the detail.
LEMMA PagesStart ==
  ASSUME NEW s, PagesAssumption(s), On(s)!Init
  PROVE  PagesInv(s)
<1>1. PICK st \in s.starts : log = <<On(s)!Started(st)>> BY DEF On!Init
<1>2. On(s)!Started(st) \in On(s)!Order /\ PaidFits(s, On(s)!Started(st))
  <2>1. st \in On(s)!OrderStatuses /\ (st \in On(s)!PAID_STATUSES) \in BOOLEAN
        /\ (st = On(s)!CANCELADO) \in BOOLEAN
    BY DEF PagesAssumption
  <2>2. On(s)!Started(st) \in On(s)!Order BY <2>1, Zenon DEF On!Started, On!Order
  <2>3. On(s)!Started(st).status = st /\ (On(s)!Started(st).paid <=> st \in On(s)!PAID_STATUSES)
    BY DEF On!Started
  <2> QED BY <2>2, <2>3 DEF PaidFits
<1>3. log \in Seq(On(s)!Order) /\ Len(log) = 1 /\ log[1] = On(s)!Started(st) BY <1>1, <1>2
<1>4. LogInv(s) BY <1>2, <1>3 DEF On!Init, LogInv, PagesAssumption
<1>5. ScreensInv(s) BY DEF On!Init, ScreensInv
<1> QED BY <1>4, <1>5 DEF On!Init, PagesInv, OneOfAKind

\* The order moves by itself, and time goes by.
LEMMA OrderMovesKeepPages ==
  ASSUME NEW s, PagesAssumption(s), PagesInv(s),
         On(s)!Elsewhere \/ \E w \in s.ticks : On(s)!Elapse(w)
  PROVE  PagesInv(s)'
<1>1. LogInv(s) BY DEF PagesInv
<1>2. CASE On(s)!Elsewhere
  <2>1. PICK o \in On(s)!PaymentChanges(On(s)!order) \cup On(s)!Expiration(On(s)!order)
                    \cup On(s)!Completed(On(s)!order) :
          On(s)!Record(o)
    BY <1>2 DEF On!Elsewhere
  <2>2. o \in On(s)!Order /\ PaidFits(s, o) BY <1>1, OrderIsLogged, MovesArePaid
  <2>3. LogInv(s)' /\ LogKeeps BY <1>1, <2>1, <2>2, RecordKeepsLog
  <2> QED BY <1>2, <2>3, OthersKeepPages DEF On!Elsewhere
<1>3. ASSUME NEW w \in s.ticks, On(s)!Elapse(w) PROVE PagesInv(s)'
  <2>1. log' = log /\ over' = over \cup {w} /\ w \in On(s)!Windows
    BY <1>3 DEF On!Elapse, On!Windows
  <2>2. LogInv(s)' /\ LogKeeps BY <1>1, <2>1 DEF LogInv, LogKeeps
  <2> QED BY <1>3, <2>2, OthersKeepPages DEF On!Elapse
<1> QED BY <1>2, <1>3

\* A dialog opens or closes, and a state is chosen.
LEMMA DialogsKeepPages ==
  ASSUME NEW s, PagesInv(s), NEW p, NEW x1,
         On(s)!OpenDialog(p, x1) \/ On(s)!CloseDialog(p, x1) \/ On(s)!Choose(p, x1)
  PROVE  PagesInv(s)'
<1>1. UNCHANGED <<log, over, shown, fetch, requests>>
  BY DEF On!OpenDialog, On!CloseDialog, On!Choose
<1> QED BY <1>1, SameLogStays, OthersKeepPages DEF PagesInv

\* A page reads the detail, and shows what it read.
LEMMA ReadsKeepPages ==
  ASSUME NEW s, PagesInv(s), NEW p \in On(s)!Pages, On(s)!PageReads(p) \/ On(s)!Focus(p)
  PROVE  PagesInv(s)'
<1>1. UNCHANGED <<log, over, requests>>
  BY DEF On!PageReads, On!FetchReads, On!FetchArrives, On!Focus
<1>2. LogInv(s) /\ LogInv(s)' /\ LogKeeps /\ ScreensInv(s) BY <1>1, SameLogStays DEF PagesInv
<1>3. \A d : On(s)!Detail(d) => On(s)!Detail(d)' BY <1>1 DEF On!Detail
<1>4. On(s)!Detail(On(s)!Now) BY <1>2, OrderIsLogged
<1>5. ScreensInv(s)'
  <2>1. CASE On(s)!FetchReads(p)
    <3>1. /\ shown' = shown
          /\ fetch' = [fetch EXCEPT ![p] = [phase |-> "read", detail |-> On(s)!Now]]
      BY <2>1 DEF On!FetchReads
    <3> QED BY <3>1, <1>2, <1>3, <1>4 DEF ScreensInv
  <2>2. CASE On(s)!FetchArrives(p)
    <3>1. /\ shown' = [shown EXCEPT ![p] = fetch[p].detail] /\ fetch[p].phase = "read"
          /\ fetch' = [fetch EXCEPT ![p] = [phase |-> "none"]]
      BY <2>2 DEF On!FetchArrives, On!Idle
    <3> QED BY <3>1, <1>2, <1>3 DEF ScreensInv
  <2>3. CASE On(s)!Focus(p)
    <3>1. shown' = shown /\ fetch' = [fetch EXCEPT ![p] = [phase |-> "asked"]]
      BY <2>3 DEF On!Focus, On!Refetched
    <3> QED BY <3>1, <1>2, <1>3 DEF ScreensInv
  <2> QED BY <2>1, <2>2, <2>3 DEF On!PageReads
<1>6. \A r \in requests : RequestInv(s, r)' BY <1>2, RequestStays DEF PagesInv
<1> QED BY <1>1, <1>2, <1>5, <1>6 DEF PagesInv, OneOfAKind

\* A click sends the request of what the page shows.
LEMMA SendKeepsPages ==
  ASSUME NEW s, PagesAssumption(s), PagesInv(s), NEW p \in On(s)!Pages,
         NEW op \in PageOps, On(s)!Send(p, op)
  PROVE  PagesInv(s)'
<1>1. /\ requests' = requests \cup {On(s)!Click(p, op)} /\ UNCHANGED <<log, over, shown, fetch>>
      /\ \A r \in requests : r.page # p \/ r.op # op
      /\ shown[p] # Nothing /\ On(s)!Clickable(p, op)
  BY DEF On!Send, On!Shows
<1>2. LogInv(s) /\ LogInv(s)' /\ LogKeeps BY <1>1, SameLogStays DEF PagesInv
<1>3. ScreensInv(s)' BY <1>1, <1>2, ScreensStay DEF PagesInv
<1> DEFINE q == On(s)!Click(p, op)
<1>4. /\ DOMAIN q = RequestFields /\ q.page = p /\ q.op = op /\ q.seen = shown[p]
      /\ q.phase = "sent" /\ q.outcome = Nothing
      /\ op = "status" => q.to = On(s)!Choice(p)
  BY DEF On!Click, RequestFields
<1>5. On(s)!Detail(shown[p]) BY <1>1 DEF PagesInv, ScreensInv
<1>6. op = "status" => On(s)!Choice(p) \in On(s)!AdminNext(log[shown[p].at])
  BY <1>1 DEF On!Clickable, On!Choice, On!ShownOrder
<1> HIDE DEF q
<1>7. RequestInv(s, q) BY <1>4, <1>5, <1>6 DEF RequestInv
<1>8. \A r \in requests' : RequestInv(s, r)'
  BY <1>1, <1>2, <1>7, RequestStays DEF PagesInv, q
<1>9. OneOfAKind' BY <1>1, <1>4 DEF PagesInv, OneOfAKind, q
<1> QED BY <1>2, <1>3, <1>8, <1>9 DEF PagesInv

\* A request is answered, or its answer gets the detail.
LEMMA ServerKeepsPages ==
  ASSUME NEW s, PagesAssumption(s), PagesInv(s), NEW r \in requests,
         On(s)!Handle(r) \/ On(s)!ReadsDetail(r)
  PROVE  PagesInv(s)'
<1>1. LogInv(s) /\ RequestInv(s, r) /\ On(s)!Detail(On(s)!Now) BY OrderIsLogged DEF PagesInv
<1>2. UNCHANGED <<shown, fetch>> BY DEF On!Handle, On!ReadsDetail
<1>3. ASSUME NEW q, RequestInv(s, q), q.page = r.page, q.op = r.op, On(s)!Replace(r, q),
             LogInv(s)', LogKeeps
      PROVE  PagesInv(s)'
  <2>1. requests' = (requests \ {r}) \cup {q} BY <1>3 DEF On!Replace
  <2>2. \A t \in requests' : RequestInv(s, t)'
    BY <1>1, <1>3, <2>1, RequestStays DEF PagesInv
  <2>3. OneOfAKind' BY <1>3, <2>1 DEF PagesInv, OneOfAKind
  <2>4. ScreensInv(s)' BY <1>1, <1>2, <1>3, ScreensStay DEF PagesInv
  <2> QED BY <1>3, <2>2, <2>3, <2>4 DEF PagesInv
<1>4. CASE On(s)!Handle(r)
  <2>1. PICK outcome \in On(s)!Outcomes(r) :
          /\ r.phase = "sent"
          /\ IF outcome = "allowed"
             THEN /\ \E o \in On(s)!Results(r) :
                       IF o = On(s)!order /\ r.op \notin On(s)!AddedOps THEN UNCHANGED <<log, over>>
                                                             ELSE On(s)!Record(o)
                  /\ On(s)!Replace(r, [r EXCEPT !.phase = "done", !.outcome = outcome,
                                                !.when = On(s)!Now])
             ELSE /\ On(s)!Replace(r, [r EXCEPT !.phase = "answered", !.outcome = outcome,
                                                !.when = On(s)!Now])
                  /\ UNCHANGED <<log, over>>
    BY <1>4 DEF On!Handle
  <2>2. PICK phase \in {"done", "answered"} :
          /\ phase = "answered" => outcome # "allowed"
          /\ On(s)!Replace(r, [r EXCEPT !.phase = phase, !.outcome = outcome, !.when = On(s)!Now])
    BY <2>1
  <2>3. PICK q : q = [r EXCEPT !.phase = phase, !.outcome = outcome, !.when = On(s)!Now]
    OBVIOUS
  <2>4. /\ DOMAIN q = RequestFields /\ q.page = r.page /\ q.op = r.op /\ q.seen = r.seen
        /\ q.to = r.to /\ q.phase = phase /\ q.outcome = outcome /\ q.when = On(s)!Now
    BY <1>1, <2>3 DEF RequestInv, RequestFields
  <2>5. /\ AnswerIsFair(s, q)
        /\ outcome = "allowed" /\ r.op = "status" => r.to \in On(s)!AdminNext(On(s)!order)
    BY <1>1, <2>1, <2>4, OutcomeIsFair
  <2>6. RequestInv(s, q)
    BY <1>1, <2>2, <2>4, <2>5 DEF RequestInv
  <2>7. LogInv(s)' /\ LogKeeps
    <3>1. CASE UNCHANGED <<log, over>>
      BY <1>1, <3>1, SameLogStays
    <3>2. ASSUME outcome = "allowed", NEW o \in On(s)!Results(r), On(s)!Record(o)
          PROVE  LogInv(s)' /\ LogKeeps
      <4>1. o \in On(s)!Order /\ PaidFits(s, o)
        BY <1>1, <2>5, <3>2, ResultIsPaid DEF RequestInv
      <4> QED BY <1>1, <3>2, <4>1, RecordKeepsLog
    <3> QED BY <2>1, <3>1, <3>2
  <2> QED BY <1>3, <2>2, <2>3, <2>4, <2>6, <2>7
<1>5. CASE On(s)!ReadsDetail(r)
  <2>1. PICK q : q = [r EXCEPT !.phase = "answered", !.answer = On(s)!Now]
    OBVIOUS
  <2>2. r.phase = "done" /\ UNCHANGED <<log, over>> /\ On(s)!Replace(r, q)
    BY <1>5, <2>1 DEF On!ReadsDetail
  <2>3. /\ DOMAIN q = RequestFields /\ q.page = r.page /\ q.op = r.op /\ q.seen = r.seen
        /\ q.to = r.to /\ q.phase = "answered" /\ q.outcome = r.outcome /\ q.when = r.when
        /\ q.answer = On(s)!Now
    BY <1>1, <2>1 DEF RequestInv, RequestFields
  <2>4. AnswerIsFair(s, q)
    BY <1>1, <2>2, <2>3 DEF RequestInv, AnswerIsFair, On!Refused, On!StillOffered
  <2>5. RequestInv(s, q) BY <1>1, <2>2, <2>3, <2>4 DEF RequestInv
  <2>6. LogInv(s)' /\ LogKeeps BY <1>1, <2>2, SameLogStays
  <2> QED BY <1>3, <2>2, <2>3, <2>5, <2>6
<1> QED BY <1>4, <1>5

\* A page takes an answer.
LEMMA AnswersKeepPages ==
  ASSUME NEW s, PagesInv(s), NEW r \in requests, On(s)!Answered(r)
  PROVE  PagesInv(s)'
<1>1. /\ UNCHANGED <<log, over>> /\ requests' \subseteq requests /\ r.phase = "answered"
  BY DEF On!Answered, On!Applied, On!Claimed, On!Leaves, On!Failed
<1>2. LogInv(s) /\ LogInv(s)' /\ LogKeeps /\ ScreensInv(s) /\ RequestInv(s, r)
  BY <1>1, SameLogStays DEF PagesInv
<1>3. \A d : On(s)!Detail(d) => On(s)!Detail(d)' BY <1>1 DEF On!Detail
<1>4. /\ shown' = shown \/ shown' = [shown EXCEPT ![r.page] = Nothing]
         \/ (r.outcome = "allowed" /\ shown' = [shown EXCEPT ![r.page] = r.answer])
      /\ fetch' = fetch \/ fetch' = [fetch EXCEPT ![r.page] = [phase |-> "asked"]]
  BY DEF On!Answered, On!Applied, On!Claimed, On!Leaves, On!Failed, On!Refetched
<1>5. /\ DOMAIN shown' = On(s)!Pages
      /\ \A p \in On(s)!Pages : shown'[p] = Nothing \/ On(s)!Detail(shown'[p])
  BY <1>1, <1>2, <1>4 DEF ScreensInv, RequestInv
<1>6. /\ DOMAIN fetch' = On(s)!Pages
      /\ \A p \in On(s)!Pages : fetch'[p] = fetch[p] \/ fetch'[p] = [phase |-> "asked"]
  BY <1>2, <1>4 DEF ScreensInv
<1>7. ScreensInv(s)'
  BY <1>2, <1>3, <1>5, <1>6 DEF ScreensInv, On!Detail
<1>8. \A q \in requests' : RequestInv(s, q)' BY <1>1, <1>2, RequestStays DEF PagesInv
<1> QED BY <1>1, <1>2, <1>7, <1>8 DEF PagesInv, OneOfAKind

\* Every step of the pages keeps PagesInv.
LEMMA NextKeepsPages ==
  ASSUME NEW s, PagesAssumption(s), PagesInv(s), On(s)!Next
  PROVE  PagesInv(s)'
<1>1. CASE On(s)!Elsewhere \/ \E w \in s.ticks : On(s)!Elapse(w)
  BY <1>1, OrderMovesKeepPages
<1>2. ASSUME NEW p \in On(s)!Pages, On(s)!PageReads(p) \/ On(s)!User(p) PROVE PagesInv(s)'
  <2>1. CASE On(s)!PageReads(p) \/ On(s)!Focus(p)
    BY <2>1, ReadsKeepPages
  <2>2. CASE \E d \in {"cancel", "tracking", "return"} :
               On(s)!OpenDialog(p, d) \/ On(s)!CloseDialog(p, d)
    BY <2>2, DialogsKeepPages
  <2>3. CASE \E op \in PageOps : On(s)!Send(p, op)
    BY <2>3, SendKeepsPages
  <2> QED BY <1>2, <2>1, <2>2, <2>3 DEF On!User, PageOps
<1>3. CASE \E p \in s.admins, st \in On(s)!OrderStatuses : On(s)!Choose(p, st)
  BY <1>3, DialogsKeepPages
<1>4. CASE On(s)!ServerWorks
  BY <1>4, ServerKeepsPages, AnswersKeepPages DEF On!ServerWorks
<1> QED BY <1>1, <1>2, <1>3, <1>4 DEF On!Next

\* What PagesInv says of the pages.
LEMMA PagesPromise ==
  ASSUME NEW s, PagesAssumption(s), PagesInv(s)
  PROVE  /\ On(s)!TypeOK /\ On(s)!OnlyRetryIsRefused /\ On(s)!PaymentFilterAgrees
         /\ On(s)!CancelDoesWhatItSaid /\ On(s)!InvalidTransitionNever
<1>1. On(s)!TypeOK BY DEF PagesInv, LogInv, ScreensInv, OneOfAKind, On!TypeOK
<1>2. \A r \in requests :
        /\ r.outcome # "INVALID_TRANSITION"
        /\ On(s)!Refused(r) /\ On(s)!StillOffered(r) => r.op = "retry"
        /\ r.op = "cancel" /\ r.outcome = "allowed" =>
             On(s)!DialogSays(r.page, log[r.seen.at]) = On(s)!CancellationEffects(log[r.when.at])
  <2>1. SUFFICES ASSUME NEW r \in requests
                 PROVE  \/ AnswerIsFair(s, r)
                        \/ (r.outcome = Nothing /\ Nothing \notin {"allowed", "INVALID_TRANSITION"})
    BY DEF AnswerIsFair, On!Refused
  <2>2. RequestInv(s, r) BY DEF PagesInv
  <2> QED BY <2>2 DEF RequestInv, PagesAssumption
<1>3. On(s)!PaymentFilterAgrees
  <2>1. On(s)!order.status \in On(s)!OrderStatuses BY OrderIsLogged DEF PagesInv, On!Order
  <2>2. \A v \in On(s)!PaymentStatuses :
          On(s)!PaymentFilter(v, On(s)!order) <=> On(s)!CustomerPaymentStatus(On(s)!order) = v
    BY <2>1, StatusNames DEF On!PaymentStatuses, On!PaymentFilter, On!CustomerPaymentStatus
  <2> QED BY <2>2 DEF On!PaymentFilterAgrees
<1> QED
  BY <1>1, <1>2, <1>3 DEF On!OnlyRetryIsRefused, On!CancelDoesWhatItSaid,
     On!InvalidTransitionNever

\* Whichever of the three settings of pages the order has.
PartsInv ==
  /\ part = "customer" => PagesInv(Alone)
  /\ part = "both" => PagesInv(Both)
  /\ part = "administrators" => PagesInv(Desk)

\* Whatever pages are open on an order and however they, the payments and the
\* time move it: what a page offers is accepted while nothing has changed, but for
\* a retry of the payment; a cancellation that is accepted does what the dialog
\* said; no form asks for a transition its state does not admit; and the filter of
\* payments selects the orders whose row says so
\* (customer-orders.service.ts:205-217, admin-orders.service.ts:417-449,
\* order-cancellation.service.ts:68-73, admin OrderDetail.tsx:332-338).
THEOREM PagesAlwaysDoWhatTheySay ==
  ASSUME PagesAssumption(Alone), PagesAssumption(Both), PagesAssumption(Desk)
  PROVE  MCSpec => []PagesDoWhatTheySay
<1>1. MCInit => PartsInv
  BY PagesStart DEF MCInit, PartsInv
<1>2. ASSUME PartsInv, [MCNext]_<<vars, ledgerVars, part, pageVars>> PROVE PartsInv'
  <2>1. CASE UNCHANGED <<part, pageVars>>
    <3>1. UNCHANGED <<part, log, over, shown, fetch, requests>>
      BY <2>1 DEF pageVars
    <3>2. \A s : PagesInv(s) => PagesInv(s)'
      BY <3>1, SameLogStays, OthersKeepPages DEF PagesInv
    <3> QED BY <1>2, <3>1, <3>2 DEF PartsInv
  <2>2. CASE PagesNext
    BY <1>2, <2>2, NextKeepsPages DEF PagesNext, PartsInv
  <2>3. CASE UNCHANGED <<vars, ledgerVars, part, pageVars>>
    BY <2>1, <2>3
  <2>4. CASE ReturnsNext \/ BalanceNext
    BY <2>1, <2>4 DEF ReturnsNext, BalanceNext
  <2> QED BY <1>2, <2>2, <2>3, <2>4 DEF MCNext
<1>3. PartsInv => PagesDoWhatTheySay
  BY PagesPromise DEF PartsInv, PagesDoWhatTheySay
<1> QED BY <1>1, <1>2, <1>3, PTL DEF MCSpec
=============================================================================
