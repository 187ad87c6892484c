------------------------------- MODULE CatalogueMC -------------------------------
(***************************************************************************)
(* The catalogue on small instances: the products that administrators edit *)
(* while customers buy them (Products), by two of them, by one with every  *)
(* action of the page, and when two create products with one SKU; the tree *)
(* of categories (Categories); and the lists a visitor reads (Catalogue),  *)
(* in every order and under every classification.  A behaviour is one of   *)
(* one of these instances, which "part" names.                             *)
(***************************************************************************)
EXTENDS Naturals, TLC

CONSTANTS a1, a2,      \* administrators
          x, y, z,     \* categories of the tree that is edited
          Nothing,
          Editing, Acting, Creating, \* the shop in each instance of Products
          Variants, Codes, Costs,
          Places, Names, Clerks, Choices, \* the tree, who edits it, the products' places
          Sorting, Filtering \* the catalogue that a visitor reads, in each instance of Catalogue

VARIABLES
  part,
  product, variant, form, save, action, looked, unlinked, edits, overwritten, surprised,
  category, classified, request, overlapped,
  listed, query, pages, loaded, more, changed

productVars ==
  <<product, variant, form, save, action, looked, unlinked, edits, overwritten, surprised>>
treeVars == <<category, classified, request, overlapped>>
listVars == <<listed, query, pages, loaded, more, changed>>

Shop(products, admins, totals, published, maxVersion, actions) ==
  [products |-> products, admins |-> admins, totals |-> totals, published |-> published,
   maxVersion |-> maxVersion, actions |-> actions]

MCEditing == Shop({"p"}, {a1, a2}, {1}, {TRUE}, 3, {})
MCActing ==
  Shop({"p"}, {a1}, {0, 2}, {TRUE}, 2, {"publish", "unpublish", "threshold", "remove"})
MCCreating == Shop({"p", "q"}, {a1, a2}, {1}, BOOLEAN, 2, {})

Editors == INSTANCE Products WITH
  Product <- Editing.products, NoProduct <- Nothing, Variant <- Variants, Sku <- Codes,
  Price <- Costs, Admin <- Editing.admins, Totals <- Editing.totals,
  Published <- Editing.published, MaxVersion <- Editing.maxVersion,
  Actions <- Editing.actions

Actor == INSTANCE Products WITH
  Product <- Acting.products, NoProduct <- Nothing, Variant <- Variants, Sku <- Codes,
  Price <- Costs, Admin <- Acting.admins, Totals <- Acting.totals,
  Published <- Acting.published, MaxVersion <- Acting.maxVersion,
  Actions <- Acting.actions

Creators == INSTANCE Products WITH
  Product <- Creating.products, NoProduct <- Nothing, Variant <- Variants, Sku <- Codes,
  Price <- Costs, Admin <- Creating.admins, Totals <- Creating.totals,
  Published <- Creating.published, MaxVersion <- Creating.maxVersion,
  Actions <- Creating.actions

Tree == INSTANCE Categories WITH
  Category <- Places, Root <- Nothing, Name <- Names, Admin <- Clerks

\* A category with two below it.
Above == ("s" :> "c") @@ ("t" :> "c") @@ ("c" :> "root")

Orders ==
  { [categoryIds |-> {}, maxPrice |-> IF only THEN 10 ELSE 20, inStockOnly |-> only,
     sort |-> order] : only \in BOOLEAN, order \in {"precio_asc", "precio_desc", "nuevos"} }

Filters ==
  { [categoryIds |-> ids, maxPrice |-> 10, inStockOnly |-> FALSE, sort |-> "nuevos"] :
      ids \in {{"c"}, {"s"}, {"s", "t"}} }

Shelf(prices, classes, queries) ==
  [products |-> 1..3, createdAt |-> <<1, 2, 2>>, category |-> {"c", "s", "t"}, root |-> "root",
   parent |-> Above, prices |-> prices, stocks |-> {0, 1}, classes |-> classes,
   queries |-> queries, pageSize |-> 2, maxRelated |-> 2]

MCSorting == Shelf({10, 20}, {{}}, Orders)
MCFiltering == Shelf({10}, SUBSET {"c", "s"}, Filters)

Sorted == INSTANCE Catalogue WITH
  Products <- Sorting.products, CreatedAt <- Sorting.createdAt, Category <- Sorting.category,
  Root <- Sorting.root, Parent <- Sorting.parent, Prices <- Sorting.prices,
  Stocks <- Sorting.stocks, Classes <- Sorting.classes, Queries <- Sorting.queries,
  PageSize <- Sorting.pageSize, MaxRelated <- Sorting.maxRelated, product <- listed

Filtered == INSTANCE Catalogue WITH
  Products <- Filtering.products, CreatedAt <- Filtering.createdAt, Category <- Filtering.category,
  Root <- Filtering.root, Parent <- Filtering.parent, Prices <- Filtering.prices,
  Stocks <- Filtering.stocks, Classes <- Filtering.classes, Queries <- Filtering.queries,
  PageSize <- Filtering.pageSize, MaxRelated <- Filtering.maxRelated, product <- listed

NoProducts ==
  /\ product = <<>> /\ variant = <<>> /\ form = <<>> /\ save = <<>> /\ action = <<>>
  /\ looked = {} /\ unlinked = {} /\ edits = <<>> /\ overwritten = FALSE /\ surprised = FALSE

NoTree == category = <<>> /\ classified = {} /\ request = <<>> /\ overlapped = FALSE

NoList ==
  /\ listed = <<>> /\ query = <<>> /\ pages = 0 /\ loaded = <<>>
  /\ more = FALSE /\ changed = FALSE

MCInit ==
  \/ part = "editors" /\ Editors!Init /\ NoTree /\ NoList
  \/ part = "actor" /\ Actor!Init /\ NoTree /\ NoList
  \/ part = "creators" /\ Creators!Init /\ NoTree /\ NoList
  \/ part = "tree" /\ Tree!Init /\ NoProducts /\ NoList
  \/ part = "sorted" /\ Sorted!Init /\ NoProducts /\ NoTree
  \/ part = "filtered" /\ Filtered!Init /\ NoProducts /\ NoTree

ProductsNext ==
  /\ \/ part = "editors" /\ Editors!Next
     \/ part = "actor" /\ Actor!Next
     \/ part = "creators" /\ Creators!Next
  /\ UNCHANGED <<part, treeVars, listVars>>

TreeNext == part = "tree" /\ Tree!Next /\ UNCHANGED <<part, productVars, listVars>>

ListNext ==
  /\ \/ part = "sorted" /\ Sorted!Next
     \/ part = "filtered" /\ Filtered!Next
  /\ UNCHANGED <<part, productVars, treeVars>>

MCNext == ProductsNext \/ TreeNext \/ ListNext

MCSpec == MCInit /\ [][MCNext]_<<part, productVars, treeVars, listVars>>

Symmetry == Permutations({a1, a2}) \cup Permutations({x, y, z})

-----------------------------------------------------------------------------
(* What Products promises.                                                 *)

\* A save is applied to the product that its form showed; a total changes by
\* hand only from the one that was shown, so that no sale is undone, and never
\* to less than is reserved; and a create that is refused leaves no file behind
\* (products.service.ts:140-143, 219-224, 266-277).
EditsKeepWhatHappened ==
  /\ part = "editors" => Editors!NoEditIsLost
  /\ part = "actor" => Actor!TypeOK /\ Actor!SalesAreKept /\ Actor!ReservedIsThere
  /\ part = "creators" => Creators!NoFileIsLeft

\* A variant is taken off the list only while nothing of it is reserved
\* (products.service.ts:339-346).
FreeWhenRemoved ==
  [][part = "actor" => Actor!FreeWhenTaken]_<<part, productVars, treeVars, listVars>>

-----------------------------------------------------------------------------
(* What Categories promises.                                               *)

\* Siblings have different names, also those that concurrent requests save and
\* those that were removed; and requests that do not overlap keep the tree of
\* two levels, and what is in use in it (categories.service.ts:49-118).
TreeStaysInOrder ==
  part = "tree" => Tree!TypeOK /\ Tree!SiblingNamesDiffer /\ Tree!SequentialTree

-----------------------------------------------------------------------------
(* What Catalogue promises.                                                *)

\* While the catalogue stands still, the pages put together are the list, with
\* what has no stock last.  A product found under a subcategory is found under
\* the category, and related products are different ones that can be bought, no
\* more than fit (products.service.ts:63-96, 555-579, 604-668).
ListsAreWhole ==
  /\ part = "sorted" =>
       Sorted!TypeOK /\ Sorted!PagesMakeTheList /\ Sorted!WithoutStockLast
  /\ part = "filtered" =>
       Filtered!CategoryCoversItsOwn /\ Filtered!RelatedCanBeBought
=============================================================================
