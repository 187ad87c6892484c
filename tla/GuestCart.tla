------------------------------ MODULE GuestCart ------------------------------
(***************************************************************************)
(* The cart of a visitor, which lives in his browser (store/cart.store.ts, *)
(* features/cart/hooks/useGuestCart.ts), and its merge with the cart of    *)
(* his account once he logs in (useCartMerge.ts, MergeCartModal.tsx,       *)
(* previewMerge and confirmMerge of cart/cart.service.ts).                 *)
(*                                                                         *)
(* Every change asks the server first and is applied when the answer       *)
(* comes; the merge takes a preview, maybe a question to the customer, and *)
(* a confirmation.  Stock, publication and the cart of the account move in *)
(* between.  How the requests of one account's cart overlap is Cart.       *)
(***************************************************************************)
EXTENDS Integers, FiniteSets

CONSTANTS Variant,
          Change,     \* the changes of the visitor to his cart
          Quantities, \* of each variant, what he asks for and what there is
          MaxLogins   \* bound of the logins, in Login

VARIABLES
  available, purchasable,  \* the catalogue
  account,    \* quantities in the cart of the account
  guest,      \* quantities in the cart of the visitor, 0 without an item
  change,     \* the change each request has asked the server about
  pc,         \* what the merge does next
  batch,      \* the items of the visitor it is about, with their quantities
  sent,       \* those that it confirms
  outcome,    \* what the preview said of each of them
  taken,      \* quantities that the confirmation merged
  logins,
  disturbed,  \* something else moved while a merge went on (history)
  moved,      \* the catalogue moved (history)
  unasked     \* units left the cart of the visitor for none (history)

catalogue == <<available, purchasable>>
merge == <<pc, batch, sent, outcome, taken>>
history == <<disturbed, moved, unasked>>
vars == <<catalogue, account, guest, change, merge, logins, history>>

Amounts ==
  { q \in [Variant -> UNION { Quantities[v] : v \in Variant }] :
      \A v \in Variant : q[v] \in Quantities[v] }
Zero == [v \in Variant |-> 0]
NoBatch == [items |-> {}, quantity |-> Zero]
NoChange == [type |-> "none", variant |-> CHOOSE v \in Variant : TRUE, quantity |-> 0]
Ended == [NoChange EXCEPT !.type = "ended"]
Outcomes == { "ok", "insufficient_stock", "unavailable" }
NoOutcome == [v \in Variant |-> [outcome |-> "ok", maxAvailable |-> 0]]

\* Quantities are never negative, whatever answers come late.
TypeOK ==
  /\ available \in [Variant -> Nat]
  /\ purchasable \in [Variant -> BOOLEAN]
  /\ account \in [Variant -> Nat]
  /\ guest \in [Variant -> Nat]
  /\ pc \in { "none", "previewing", "deciding", "confirming", "answered" }
  /\ {batch, sent} \subseteq [items : SUBSET Variant, quantity : [Variant -> Nat]]
  /\ \A v \in Variant : outcome[v].outcome \in Outcomes /\ outcome[v].maxAvailable \in Nat
  /\ taken \in [Variant -> Nat]
  /\ logins \in 0..MaxLogins

Init ==
  /\ available \in Amounts
  /\ purchasable = [v \in Variant |-> TRUE]
  /\ account \in { q \in Amounts : \A v \in Variant : q[v] <= available[v] }
  /\ guest = Zero
  /\ change = [c \in Change |-> NoChange]
  /\ pc = "none" /\ batch = NoBatch /\ sent = NoBatch /\ outcome = NoOutcome /\ taken = Zero
  /\ logins = 0
  /\ disturbed = FALSE /\ moved = FALSE /\ unasked = FALSE

\* What happens while a merge goes on.
Disturbs == disturbed' = (disturbed \/ pc # "none")

-----------------------------------------------------------------------------
(***************************************************************************)
(* The visitor changes his cart.                                           *)
(***************************************************************************)

\* resolveItem, for q units in the cart in all.
Resolves(v, q) == purchasable[v] /\ q <= available[v]

\* addItem and updateQuantity of useGuestCart ask about the whole quantity,
\* from the cart as the page showed it.
Ask(c, type, v, q) ==
  /\ change[c] = NoChange
  /\ pc = "none"
  /\ type = "update" => guest[v] > 0
  /\ change' = [change EXCEPT ![c] =
                  [type |-> type, variant |-> v,
                   quantity |-> IF type = "add" THEN guest[v] + q ELSE q]]
  /\ UNCHANGED <<catalogue, account, guest, merge, logins, history>>

\* setItem and updateQuantity of the store: an item that is gone is set by the
\* first alone.
Stored(c, v) ==
  IF change[c].type = "add" \/ guest[v] > 0 THEN change[c].quantity ELSE 0

Answer(c) ==
  /\ change[c].type \in {"add", "update"}
  /\ LET v == change[c].variant
     IN guest' = IF Resolves(v, change[c].quantity)
                   THEN [guest EXCEPT ![v] = Stored(c, v)] ELSE guest
  /\ change' = [change EXCEPT ![c] = Ended]
  /\ Disturbs
  /\ UNCHANGED <<catalogue, account, merge, logins, moved, unasked>>

RemoveItem(v) ==
  /\ pc = "none" /\ guest[v] > 0
  /\ guest' = [guest EXCEPT ![v] = 0]
  /\ UNCHANGED <<catalogue, account, change, merge, logins, history>>

-----------------------------------------------------------------------------
(***************************************************************************)
(* The merge.                                                              *)
(***************************************************************************)

\* run of useCartMerge, after a login.
Login ==
  /\ pc = "none"
  /\ logins < MaxLogins
  /\ guest # Zero
  /\ logins' = logins + 1
  /\ batch' = [items |-> { v \in Variant : guest[v] > 0 }, quantity |-> guest]
  /\ sent' = batch'
  /\ pc' = "previewing"
  /\ UNCHANGED <<catalogue, account, guest, change, outcome, taken, history>>

\* resolveItem and toMergeItemResult, for q more units in the account.
Result(v, q) ==
  [ outcome |-> IF ~purchasable[v] THEN "unavailable"
                ELSE IF account[v] + q > available[v] THEN "insufficient_stock" ELSE "ok",
    maxAvailable |-> IF available[v] > account[v] THEN available[v] - account[v] ELSE 0 ]

\* previewMerge; without conflicts nobody is asked.
PreviewMerge ==
  /\ pc = "previewing"
  /\ outcome' = [v \in Variant |-> IF v \in batch.items THEN Result(v, batch.quantity[v])
                                                        ELSE NoOutcome[v]]
  /\ pc' = IF \A v \in batch.items : outcome'[v].outcome = "ok" THEN "confirming"
                                                                ELSE "deciding"
  /\ UNCHANGED <<catalogue, account, guest, change, batch, sent, taken, logins, history>>

With(o) == { v \in batch.items : outcome[v].outcome = o }

\* handleConfirm of the modal: what is ok goes as it is, what was cut down
\* where it stays checked.
Decide ==
  /\ pc = "deciding"
  /\ \E accepted \in SUBSET With("insufficient_stock") :
       sent' = [items |-> With("ok") \cup accepted,
                quantity |-> [v \in Variant |-> IF v \in accepted
                                                  THEN outcome[v].maxAvailable
                                                  ELSE batch.quantity[v]]]
  /\ pc' = IF sent'.items = {} THEN "answered" ELSE "confirming"
  /\ taken' = Zero
  /\ UNCHANGED <<catalogue, account, guest, change, batch, outcome, logins, history>>

\* The customer closes the modal, and his cart stays.
Cancel ==
  /\ pc = "deciding"
  /\ pc' = "none" /\ batch' = NoBatch /\ sent' = NoBatch /\ outcome' = NoOutcome
  /\ UNCHANGED <<catalogue, account, guest, change, taken, logins, history>>

\* MergeCartItemDto: a batch with no units of an item is refused whole, and
\* the modal stays.
Valid == \A v \in sent.items : sent.quantity[v] >= 1

ConfirmRefused ==
  /\ pc = "confirming" /\ ~Valid
  /\ pc' = "deciding"
  /\ UNCHANGED <<catalogue, account, guest, change, batch, sent, outcome, taken, logins, history>>

\* Mutant of Merged: an item whose quantity was cut down is left out.
MergedUncut(v) ==
  IF v \in With("ok") /\ Result(v, sent.quantity[v]).outcome = "ok"
    THEN sent.quantity[v] ELSE 0

\* What confirmMerge takes of v: what does not resolve any more is skipped.
Merged(v) ==
  IF v \in sent.items /\ Result(v, sent.quantity[v]).outcome = "ok"
    THEN sent.quantity[v] ELSE 0

ConfirmMerge ==
  /\ pc = "confirming" /\ Valid
  /\ taken' = [v \in Variant |-> Merged(v)]
  /\ account' = [v \in Variant |-> account[v] + taken'[v]]
  /\ pc' = "answered"
  /\ UNCHANGED <<catalogue, guest, change, batch, sent, outcome, logins, history>>

\* The request or the answer is lost: run ends and the cart stays.
RequestLost ==
  /\ pc \in {"previewing", "answered"}
  /\ pc' = "none" /\ batch' = NoBatch /\ sent' = NoBatch
  /\ outcome' = NoOutcome /\ taken' = Zero
  /\ UNCHANGED <<catalogue, account, guest, change, logins, history>>

\* The customer knows of v: he did not keep it, kept what was left of it, or
\* was told that it is not available any more.
Told(v) == outcome[v].outcome # "ok"

\* clear of the store, whatever the answer says was skipped.
Clear ==
  /\ pc = "answered"
  /\ guest' = Zero
  /\ unasked' = \/ unasked
                \/ \E v \in Variant :
                     \/ v \in sent.items /\ taken[v] < sent.quantity[v]
                     \/ v \notin sent.items /\ guest[v] > 0 /\ ~Told(v)
                     \/ guest[v] > batch.quantity[v]
  /\ pc' = "none" /\ batch' = NoBatch /\ sent' = NoBatch
  /\ outcome' = NoOutcome /\ taken' = Zero
  /\ UNCHANGED <<catalogue, account, change, logins, disturbed, moved>>

-----------------------------------------------------------------------------
(***************************************************************************)
(* Everybody else.                                                         *)
(***************************************************************************)

CatalogueChanges ==
  /\ \/ \E v \in Variant : \E q \in Quantities[v] : available' = [available EXCEPT ![v] = q]
        /\ UNCHANGED purchasable
     \/ \E v \in Variant : purchasable' = [purchasable EXCEPT ![v] = ~@]
        /\ UNCHANGED available
  /\ moved' = TRUE
  /\ Disturbs
  /\ UNCHANGED <<account, guest, change, merge, logins, unasked>>

\* The customer uses another device.
AccountChanges ==
  /\ \E v \in Variant : \E q \in Quantities[v] :
       /\ q <= available[v]
       /\ account' = [account EXCEPT ![v] = q]
  /\ Disturbs
  /\ UNCHANGED <<catalogue, guest, change, merge, logins, moved, unasked>>

Next ==
  \/ \E c \in Change :
       \/ \E type \in {"add", "update"}, v \in Variant :
            \E q \in Quantities[v] \ {0} : Ask(c, type, v, q)
       \/ Answer(c)
  \/ \E v \in Variant : RemoveItem(v)
  \/ Login \/ PreviewMerge \/ Decide \/ Cancel \/ ConfirmRefused \/ ConfirmMerge
  \/ RequestLost \/ Clear
  \/ CatalogueChanges \/ AccountChanges

Spec == Init /\ [][Next]_vars

-----------------------------------------------------------------------------
(***************************************************************************)
(* Properties.                                                             *)
(***************************************************************************)

\* While the catalogue stands, neither cart holds more than there is: not by
\* changes whose answers overtake each other, nor by a merge that is done twice
\* because its answer was lost (useGuestCart.ts:21-47, cart.service.ts:351-364).
CartsWithinStock ==
  ~moved => \A v \in Variant : guest[v] <= available[v] /\ account[v] <= available[v]

\* As long as nothing else moves during the merges, every unit the visitor had
\* goes to his account, or he was told about it (useCartMerge.ts:25-59).
MergeLosesNothing == unasked => disturbed
=============================================================================
