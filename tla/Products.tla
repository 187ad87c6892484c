------------------------------- MODULE Products -------------------------------
(***************************************************************************)
(* The products of the shop as its administrators keep them                *)
(* (products/products.service.ts and the form of pages/admin/Products.tsx).*)
(*                                                                         *)
(* An administrator opens a form on a product, which shows it as it is,    *)
(* and saves it later; meanwhile others save, publish and remove it, and   *)
(* customers reserve and buy its variants.  A save of the form reads the   *)
(* product and then runs one transaction, which locks the product and its  *)
(* variants; the other actions of the page read the product and write it   *)
(* back.  What the administrator typed is chosen when the transaction uses *)
(* it: nobody sees it before.                                              *)
(***************************************************************************)
EXTENDS Integers, FiniteSets

CONSTANTS Product, NoProduct, Variant, Sku, Price,
          Admin,
          Totals,      \* the stock totals that an administrator types
          Published,   \* what he sets isPublished to
          MaxVersion,  \* bound of product.version, in the saves
          Actions      \* the actions of the page: some of PageActions

PageActions == { "publish", "unpublish", "threshold", "remove" }

VARIABLES
  product,     \* the rows of products
  variant,     \* the rows of product_variants
  form,        \* the form that each administrator has open
  save,        \* how far the save of his form came
  action,      \* the action of the page he has under way, with what it read
  looked,      \* variants that a customer found for sale and may reserve
  unlinked,    \* administrators whose request left files without an image
  edits,       \* saves of each product (history)
  overwritten, \* one was applied over another that its form had not seen (history)
  surprised    \* a total was set over one that the form had not shown (history)

requests == <<form, save, action>>
history == <<edits, overwritten, surprised>>
vars == <<product, variant, requests, looked, unlinked, history>>

NewProduct(price) ==
  [exists |-> TRUE, isActive |-> TRUE, isPublished |-> FALSE, ownThreshold |-> FALSE,
   price |-> price, version |-> 1]
NewVariant(p, sku, total) ==
  [product |-> p, sku |-> sku, isActive |-> TRUE, stockTotal |-> total, stockReserved |-> 0]

AnyPrice == CHOOSE c \in Price : TRUE
AnySku == CHOOSE s \in Sku : TRUE
Absent == [NewProduct(AnyPrice) EXCEPT !.exists = FALSE]
NoVariant == NewVariant(NoProduct, AnySku, 0)

\* What a form shows: the product, its version, and the totals of its variants;
\* `edits' is not shown (history).
Closed == [of |-> NoProduct, version |-> 0, shown |-> [v \in Variant |-> 0], edits |-> 0]
NoAction == [type |-> "none", of |-> NoProduct, read |-> Absent]
NoSave == [phase |-> "idle", of |-> NoProduct, sku |-> AnySku, total |-> 0]

Of(p) == { v \in Variant : variant[v].product = p }

\* Values of their kinds; stock is never negative.
TypeOK ==
  /\ product \in [Product -> [exists : BOOLEAN, isActive : BOOLEAN, isPublished : BOOLEAN,
                              ownThreshold : BOOLEAN, price : Price, version : 1..MaxVersion]]
  /\ variant \in [Variant -> [product : Product \cup {NoProduct}, sku : Sku,
                              isActive : BOOLEAN, stockTotal : Nat, stockReserved : Nat]]
  /\ \A a \in Admin : save[a].phase \in { "idle", "found", "uploaded" }
  /\ looked \subseteq Variant
  /\ unlinked \subseteq Admin

Init ==
  /\ \E p \in Product, v \in Variant, total \in Totals :
       /\ product = [x \in Product |->
                       IF x = p THEN [NewProduct(AnyPrice) EXCEPT !.isPublished = TRUE]
                                ELSE Absent]
       /\ variant = [x \in Variant |-> IF x = v THEN NewVariant(p, AnySku, total)
                                                ELSE NoVariant]
  /\ form = [a \in Admin |-> Closed]
  /\ save = [a \in Admin |-> NoSave]
  /\ action = [a \in Admin |-> NoAction]
  /\ looked = {} /\ unlinked = {}
  /\ edits = [p \in Product |-> 0]
  /\ overwritten = FALSE /\ surprised = FALSE

Listed(p) == product[p].exists /\ product[p].isActive

-----------------------------------------------------------------------------
(***************************************************************************)
(* Customers.                                                              *)
(***************************************************************************)

\* isPurchasable
Purchasable(v) ==
  /\ variant[v].product # NoProduct
  /\ Listed(variant[v].product)
  /\ product[variant[v].product].isPublished
  /\ variant[v].isActive

\* resolveVariantForPurchase, or the revalidation of the checkout.
Look(v) ==
  /\ Purchasable(v)
  /\ looked' = looked \cup {v}
  /\ UNCHANGED <<product, variant, requests, unlinked, history>>

\* The reservation looks at the stock alone.
Reserve(v) ==
  /\ v \in looked
  /\ looked' = looked \ {v}
  /\ variant[v].stockTotal > variant[v].stockReserved
  /\ variant' = [variant EXCEPT ![v].stockReserved = @ + 1]
  /\ UNCHANGED <<product, requests, unlinked, history>>

Release(v) ==
  /\ variant[v].stockReserved > 0
  /\ variant' = [variant EXCEPT ![v].stockReserved = @ - 1]
  /\ UNCHANGED <<product, requests, looked, unlinked, history>>

Sell(v) ==
  /\ variant[v].stockReserved > 0
  /\ variant' = [variant EXCEPT ![v].stockReserved = @ - 1, ![v].stockTotal = @ - 1]
  /\ UNCHANGED <<product, requests, looked, unlinked, history>>

-----------------------------------------------------------------------------
(***************************************************************************)
(* The form.                                                               *)
(***************************************************************************)

StartEdit(a, p) ==
  /\ Listed(p)
  /\ save[a] = NoSave
  /\ form' = [form EXCEPT ![a] =
                [of |-> p, version |-> product[p].version,
                 shown |-> [v \in Variant |-> variant[v].stockTotal], edits |-> edits[p]]]
  /\ UNCHANGED <<product, variant, save, action, looked, unlinked, history>>

ResetForm(a) == form' = [form EXCEPT ![a] = Closed]

Taken(skus) == \E v \in Variant : variant[v].product # NoProduct /\ variant[v].sku \in skus

\* create, before its transaction: the SKU is free and the images are uploaded.
\* The ids of the instance bound it.
CreateUploads(a, sku, total) ==
  /\ \E p \in Product : ~product[p].exists
  /\ form[a] = Closed /\ save[a] = NoSave
  /\ ~Taken({sku})
  /\ save' = [save EXCEPT ![a] = [phase |-> "uploaded", of |-> NoProduct,
                                  sku |-> sku, total |-> total]]
  /\ unlinked' = unlinked \cup {a}
  /\ UNCHANGED <<product, variant, form, action, looked, history>>

CreateCommits(a, p, v) ==
  /\ save[a].phase = "uploaded"
  /\ ~Taken({save[a].sku})
  /\ ~product[p].exists /\ variant[v].product = NoProduct
  /\ \E c \in Price : product' = [product EXCEPT ![p] = NewProduct(c)]
  /\ variant' = [variant EXCEPT ![v] = NewVariant(p, save[a].sku, save[a].total)]
  /\ save' = [save EXCEPT ![a] = NoSave]
  /\ unlinked' = unlinked \ {a}
  /\ UNCHANGED <<form, action, looked, history>>

RemoveFiles(a) == unlinked' = unlinked \ {a}

\* Another request took the SKU after the check: the UNIQUE of the column.
CreateFails(a) ==
  /\ save[a].phase = "uploaded"
  /\ Taken({save[a].sku})
  /\ RemoveFiles(a)
  /\ save' = [save EXCEPT ![a] = NoSave]
  /\ UNCHANGED <<product, variant, form, action, looked, history>>

\* update, before its transaction.
UpdateFinds(a) ==
  /\ save[a] = NoSave /\ form[a] # Closed
  /\ Listed(form[a].of)
  /\ product[form[a].of].version = form[a].version
  /\ save' = [save EXCEPT ![a] = [NoSave EXCEPT !.phase = "found", !.of = form[a].of]]
  /\ UNCHANGED <<product, variant, form, action, looked, unlinked, history>>

-----------------------------------------------------------------------------
(***************************************************************************)
(* syncVariants.  A list has the variants that stay, each with a SKU and a *)
(* total, and rows that are new.                                           *)
(***************************************************************************)
Row == [sku : Sku, total : Totals]
Lists(p) ==
  { list \in [kept : UNION { [S -> Row] : S \in SUBSET Of(p) }, fresh : SUBSET Row] :
      /\ Cardinality(list.fresh) <= 1
      /\ DOMAIN list.kept # {} \/ list.fresh # {} }

Skus(list) == { list.kept[v].sku : v \in DOMAIN list.kept } \cup { f.sku : f \in list.fresh }

\* A new row with the SKU of a variant that is being dropped is that variant.
Reused(p, list) ==
  { v \in Of(p) \ DOMAIN list.kept :
      variant[v].isActive /\ \E f \in list.fresh : f.sku = variant[v].sku }
Outside(p, list) == Of(p) \ (DOMAIN list.kept \cup Reused(p, list))
Removed(p, list) == { v \in Outside(p, list) : variant[v].isActive }
Added(p, list) ==
  { f \in list.fresh : \A v \in Reused(p, list) : f.sku # variant[v].sku }

SkusAccepted(p, list) ==
  /\ Cardinality(Skus(list)) = Cardinality(DOMAIN list.kept) + Cardinality(list.fresh)
  /\ \A v \in Variant : variant[v].sku \in Skus(list) =>
       variant[v].product \in {p, NoProduct} /\ v \notin Outside(p, list)

\* Totals that the administrator changed in the form.
Typed(a, list) == { v \in DOMAIN list.kept : list.kept[v].total # form[a].shown[v] }

\* Mutant of TotalsAccepted: the total typed replaces whatever is there.
TotalsOverwrite(a, list) ==
  \A v \in Typed(a, list) : list.kept[v].total >= variant[v].stockReserved
TotalsAccepted(a, list) ==
  \A v \in Typed(a, list) :
    /\ variant[v].stockTotal = form[a].shown[v]
    /\ list.kept[v].total >= variant[v].stockReserved

\* Mutant of RemovalAccepted: units of a variant that goes may be reserved.
RemovalAlways(p, list) == TRUE

RemovalAccepted(p, list) == \A v \in Removed(p, list) : variant[v].stockReserved = 0

Accepted(a, p, list) ==
  SkusAccepted(p, list) /\ TotalsAccepted(a, list) /\ RemovalAccepted(p, list)

\* A row after a list that is accepted; new is the id of the row it adds.
SyncedRow(a, p, list, new, v) ==
  IF v \in Removed(p, list) THEN [variant[v] EXCEPT !.isActive = FALSE]
  ELSE IF v \in Typed(a, list)
    THEN [variant[v] EXCEPT !.isActive = TRUE, !.sku = list.kept[v].sku,
                            !.stockTotal = list.kept[v].total]
  ELSE IF v \in DOMAIN list.kept
    THEN [variant[v] EXCEPT !.isActive = TRUE, !.sku = list.kept[v].sku]
  ELSE IF v \in new THEN LET f == CHOOSE f \in Added(p, list) : TRUE
                         IN NewVariant(p, f.sku, f.total)
  ELSE variant[v]

Synced(a, p, list, new) == [v \in Variant |-> SyncedRow(a, p, list, new, v)]

\* The conditional UPDATE of the version, which takes the lock of the row.
Bumps(a, p) == product[p].version = form[a].version

\* The transaction of update; save bumps the version again if a column changed.
UpdateCommits(a, price, published, list) ==
  LET p == save[a].of
  IN /\ save[a].phase = "found"
     /\ Bumps(a, p)
     /\ Accepted(a, p, list)
     /\ \E new \in { S \in SUBSET Variant : Cardinality(S) = Cardinality(Added(p, list)) } :
          /\ \A v \in new : variant[v].product = NoProduct
          /\ variant' = Synced(a, p, list, new)
     /\ LET written == [product[p] EXCEPT !.price = price, !.isPublished = published]
        IN product' = [product EXCEPT ![p] =
             [written EXCEPT !.version = @ + (IF written # product[p] THEN 2 ELSE 1)]]
     /\ product'[p].version <= MaxVersion
     /\ save' = [save EXCEPT ![a] = NoSave]
     /\ ResetForm(a)
     /\ edits' = [edits EXCEPT ![p] = @ + 1]
     /\ overwritten' = (overwritten \/ edits[p] # form[a].edits)
     /\ surprised' = (surprised \/ \E v \in Of(p) :
                        /\ variant'[v].stockTotal # variant[v].stockTotal
                        /\ form[a].shown[v] # variant[v].stockTotal)
     /\ UNCHANGED <<action, looked, unlinked>>

\* A conflict, or a list that is refused; the form stays as it is.
UpdateFails(a, list) ==
  /\ save[a].phase = "found"
  /\ ~Bumps(a, save[a].of) \/ ~Accepted(a, save[a].of, list)
  /\ save' = [save EXCEPT ![a] = NoSave]
  /\ UNCHANGED <<product, variant, form, action, looked, unlinked, history>>

-----------------------------------------------------------------------------
(***************************************************************************)
(* setPublished, setThreshold and remove: findOneForAdminOrFail, and save  *)
(* of what it read.                                                        *)
(***************************************************************************)

ActionFinds(a, type, p) ==
  /\ action[a] = NoAction /\ type \in Actions
  /\ Listed(p)
  /\ type = "remove" => \A v \in Of(p) : variant[v].stockReserved = 0
  /\ action' = [action EXCEPT ![a] = [type |-> type, of |-> p, read |-> product[p]]]
  /\ UNCHANGED <<product, variant, form, save, looked, unlinked, history>>

Changed(type, row) ==
  IF type = "remove" THEN [row EXCEPT !.isActive = FALSE]
  ELSE IF type = "threshold" THEN [row EXCEPT !.ownThreshold = ~@]
  ELSE [row EXCEPT !.isPublished = (type = "publish")]

\* save writes the columns in which the entity differs from the row as it is
\* now, whoever changed them, and @VersionColumn goes up if there are any.
Written(now, entity) ==
  LET same == [entity EXCEPT !.version = now.version]
  IN IF same = now THEN now ELSE [same EXCEPT !.version = now.version + 1]

ActionSaves(a) ==
  LET p == action[a].of
  IN /\ action[a] # NoAction
     /\ product[p].version < MaxVersion
     /\ product' = [product EXCEPT ![p] =
                      Written(product[p], Changed(action[a].type, action[a].read))]
     /\ action' = [action EXCEPT ![a] = NoAction]
     /\ UNCHANGED <<variant, form, save, looked, unlinked, history>>

-----------------------------------------------------------------------------
Saves(a) ==
  \/ \E p \in Product : StartEdit(a, p)
  \/ \E sku \in Sku, total \in Totals : CreateUploads(a, sku, total)
  \/ \E p \in Product, v \in Variant : CreateCommits(a, p, v)
  \/ CreateFails(a)
  \/ UpdateFinds(a)
  \/ /\ save[a].phase = "found"
     /\ \E list \in Lists(save[a].of) :
          \/ \E c \in Price, b \in Published : UpdateCommits(a, c, b, list)
          \/ UpdateFails(a, list)

Next ==
  \/ \E v \in Variant : Look(v) \/ Reserve(v) \/ Release(v) \/ Sell(v)
  \/ \E a \in Admin :
       \/ Saves(a)
       \/ \E type \in Actions, p \in Product : ActionFinds(a, type, p)
       \/ ActionSaves(a)

Spec == Init /\ [][Next]_vars

-----------------------------------------------------------------------------
(***************************************************************************)
(* What the administration of products promises.                           *)
(***************************************************************************)

\* A save is applied to the product that its form showed: no other save came
\* in between, whatever happened between its check and its transaction
\* (products.service.ts, 219-224).
NoEditIsLost == ~overwritten

\* A total of a variant changes by hand only if the form showed the total it
\* had: what was sold or returned while it was open is never undone (266-277).
SalesAreKept == ~surprised

\* No save of a form, and no sale, leaves a variant with fewer units than are
\* reserved of it.
ReservedIsThere == \A v \in Variant : variant[v].stockReserved <= variant[v].stockTotal

\* A variant that a step takes off the list has nothing reserved.
FreeWhenTaken ==
  \A v \in Variant :
    variant[v].isActive /\ ~variant'[v].isActive => variant[v].stockReserved = 0

\* A create that is refused leaves no file behind (140-143).
NoFileIsLeft == \A a \in unlinked : save[a].phase = "uploaded"

=============================================================================
