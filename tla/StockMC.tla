-------------------------------- MODULE StockMC --------------------------------
(***************************************************************************)
(* What customers and administrators move at once, on small instances: the *)
(* row locks of the transactions over orders, returns and stock            *)
(* (RowLocks), the adjustments of a variant next to its orders             *)
(* (StockAdjust), the cart of a customer under requests and checkouts      *)
(* (Cart), and the cart of a visitor and its merges (GuestCart).  A        *)
(* behaviour is one of one of these, which "part" names.                   *)
(***************************************************************************)
EXTENDS RowLocks, TLC

CONSTANTS t1, t2, o1, o2, q1, v1, v2, k1  \* the rows and transactions of RowLocks

\* Those of the other parts, each as its module says.
CONSTANTS Variant, Quantities,
          Adjustment, Buyer, MaxStock,
          Request, Confirmation, Prices, MaxCarts,
          Goods, Units, Change, MaxLogins

MCLines == [o \in Orders |-> Variants]
MCOrderOf == [q \in Requests |-> o1]
\* Enough units of one variant for a merge to be cut down to what there is.
MCUnits == ("v" :> 0..2) @@ ("w" :> 0..1)
MCRank == (k1 :> 0) @@ (o1 :> 1) @@ (o2 :> 2) @@ (q1 :> 3) @@ (v1 :> 5) @@ (v2 :> 6)

VARIABLES
  part,
  \* of StockAdjust; "holding" is its "held"
  stockTotal, stockReserved, isActive, threshold, holding, entity, columns, recorded,
  \* of Cart
  price, cartStatus, items, order, call, newer, counted, fresh,
  \* of GuestCart
  account, guest, change, batch, sent, outcome, taken, logins, disturbed, moved, unasked,
  \* of more than one of them
  pc, overlapped, available, purchasable

adjustOnly ==
  <<stockTotal, stockReserved, isActive, threshold, holding, entity, columns, recorded>>
cartOnly == <<price, cartStatus, items, order, call, newer, counted, fresh>>
guestOnly ==
  <<account, guest, change, batch, sent, outcome, taken, logins, disturbed, moved, unasked>>
shared == <<pc, overlapped, available, purchasable>>

Adjusting == INSTANCE StockAdjust WITH held <- holding

Basket == INSTANCE Cart WITH NONE <- None

Visitor == INSTANCE GuestCart WITH Variant <- Goods, Quantities <- Units

NoAdjust ==
  /\ stockTotal = <<>> /\ stockReserved = <<>> /\ isActive = <<>> /\ threshold = {}
  /\ holding = <<>> /\ entity = <<>> /\ columns = <<>> /\ recorded = <<>>

NoBasket ==
  /\ price = <<>> /\ cartStatus = <<>> /\ items = <<>> /\ order = <<>> /\ call = <<>>
  /\ newer = <<>> /\ counted = <<>> /\ fresh = {}

NoVisitor ==
  /\ account = <<>> /\ guest = <<>> /\ change = <<>> /\ batch = <<>> /\ sent = <<>>
  /\ outcome = <<>> /\ taken = <<>> /\ logins = 0
  /\ disturbed = FALSE /\ moved = FALSE /\ unasked = FALSE

NoCatalogue == available = <<>> /\ purchasable = <<>>

MCInit ==
  /\ Init
  /\ \/ /\ part = "locks" /\ NoAdjust /\ NoBasket /\ NoVisitor /\ NoCatalogue
        /\ pc = <<>> /\ overlapped = FALSE
     \/ part = "adjust" /\ Adjusting!Init /\ NoBasket /\ NoVisitor /\ NoCatalogue
     \/ part = "cart" /\ Basket!Init /\ NoAdjust /\ NoVisitor
     \/ part = "visitor" /\ Visitor!Init /\ NoAdjust /\ NoBasket /\ overlapped = FALSE

LocksNext ==
  part = "locks" /\ Next /\ UNCHANGED <<part, adjustOnly, cartOnly, guestOnly, shared>>

AdjustNext ==
  /\ part = "adjust" /\ Adjusting!Next
  /\ UNCHANGED <<part, vars, cartOnly, guestOnly, available, purchasable>>

CartNext ==
  part = "cart" /\ Basket!Next /\ UNCHANGED <<part, vars, adjustOnly, guestOnly>>

VisitorNext ==
  /\ part = "visitor" /\ Visitor!Next
  /\ UNCHANGED <<part, vars, adjustOnly, cartOnly, overlapped>>

MCNext == LocksNext \/ AdjustNext \/ CartNext \/ VisitorNext

MCSpec ==
  MCInit /\ [][MCNext]_<<part, vars, adjustOnly, cartOnly, guestOnly, shared>>

Symmetry == Permutations(Tx)

-----------------------------------------------------------------------------
(* What StockAdjust promises.                                              *)

\* Until a row moves in the middle of an adjustment, total, reservations,
\* movements and withdrawals agree; and always the filters of the panel show the
\* variants that carry the flag, and no reserved counter is negative
\* (stock.service.ts:53-107, 174-175).
AdjustmentsAddUp ==
  part = "adjust" =>
    /\ Adjusting!TypeOK
    /\ Adjusting!AloneAdjustmentsAreExact
    /\ Adjusting!FiltersShowTheFlags

-----------------------------------------------------------------------------
(* What Cart promises.                                                     *)

\* A cart that can be edited is not that of an order that waits to be paid, and a
\* deleted cart has no items, however requests, checkouts and compensations
\* overlap (checkout.service.ts:453-467, cart.service.ts:300-343, 434-447).
EditableCartIsFree ==
  part = "cart" => Basket!EditableCartIsFree /\ Basket!DeletedCartsAreEmpty

\* As long as no request saves over a row that moved since it read it, a cart
\* has what its operations add up to; and where nothing changed since the cart
\* was revalidated, the checkout accepts it
\* (cart.service.ts:252-298, 425-447, checkout.service.ts:192-206).
CartsAddUp == part = "cart" => Basket!CartsAddUp

-----------------------------------------------------------------------------
(* What GuestCart promises.                                                *)

\* While the catalogue stands, neither cart holds more than there is: not by
\* answers that overtake each other, nor by a merge that is done twice because
\* its answer was lost.  And as long as nothing else moves during the merges,
\* every unit the visitor had goes to his account, or he was told about it
\* (useGuestCart.ts:21-47, useCartMerge.ts:25-59, cart.service.ts:351-364).
VisitorKeepsHisCart ==
  part = "visitor" =>
    Visitor!TypeOK /\ Visitor!CartsWithinStock /\ Visitor!MergeLosesNothing
=============================================================================
