------------------------------ MODULE Catalogue ------------------------------
(***************************************************************************)
(* The catalogue that a visitor browses: findPublished and findRelated of  *)
(* products/products.service.ts, and the list of pages/shop/ProductList.tsx*)
(* with its endless scroll (features/catalog/hooks/useProducts.ts).        *)
(*                                                                         *)
(* A page of the list is a query of its own, at an offset; products are    *)
(* sold, published and priced between one page and the next.  Search by    *)
(* text and the lower price bound filter as the upper one does, and are    *)
(* left out; so is the order by name.                                      *)
(***************************************************************************)
EXTENDS Integers, Sequences, FiniteSets, SequencesExt

CONSTANTS Products,   \* 1..n, in the order of their ids
          CreatedAt,  \* when each was created; the same time may repeat
          Category, Root,
          Parent,     \* the tree of categories
          Prices, Stocks,
          Classes,    \* the sets of categories a product may have
          Queries,    \* the filters a visitor may choose
          PageSize,   \* CATALOG_PAGE_SIZE
          MaxRelated  \* related products shown, 8 in the code

Sorts == { "precio_asc", "precio_desc", "nuevos" }
Query == [categoryIds : SUBSET Category, maxPrice : Nat, inStockOnly : BOOLEAN, sort : Sorts]

VARIABLES
  product, \* what the catalogue shows of each product
  query,   \* the filters of the visitor
  pages,   \* how many pages his list has loaded
  loaded,  \* the products of those pages, one after the other
  more,    \* the last of them said that there are more
  changed  \* the catalogue changed since the first of them (history)

vars == <<product, query, pages, loaded, more, changed>>

ProductRow == [forSale : BOOLEAN, price : Prices, stock : Stocks, categories : Classes]

Init ==
  /\ product \in [Products -> ProductRow]
  /\ query \in Queries
  /\ pages = 0 /\ loaded = <<>> /\ more = TRUE /\ changed = FALSE

-----------------------------------------------------------------------------
(***************************************************************************)
(* findPublished                                                           *)
(***************************************************************************)

\* findDescendantIds
WithDescendants(ids) == ids \cup { c \in Category : Parent[c] \in ids }

\* buildPublicQuery
Matches(p) ==
  /\ product[p].forSale
  /\ query.categoryIds # {} =>
       product[p].categories \cap WithDescendants(query.categoryIds) # {}
  /\ product[p].price <= query.maxPrice
  /\ query.inStockOnly => product[p].stock > 0

\* What applyOrder compares, the first difference deciding.
InStockFirst(p) == IF ~query.inStockOnly /\ product[p].stock = 0 THEN 1 ELSE 0
SortKey(p) ==
  CASE query.sort = "precio_asc"  -> product[p].price
    [] query.sort = "precio_desc" -> 0 - product[p].price
    [] query.sort = "nuevos"      -> 0 - CreatedAt[p]

Before(p, q) ==
  \/ InStockFirst(p) < InStockFirst(q)
  \/ /\ InStockFirst(p) = InStockFirst(q)
     /\ SortKey(p) < SortKey(q) \/ (SortKey(p) = SortKey(q) /\ p < q)

\* ORDER BY: the rows in the order of how many come before them, which is one for
\* each number when "before" is an order of them all.
Ordered(before) ==
  [ n \in 1..Cardinality(DOMAIN before) |->
      CHOOSE p \in DOMAIN before : Cardinality(before[p]) = n - 1 ]

Found == { p \in Products : Matches(p) }

Listing == Ordered([ p \in Found |-> { q \in Found : Before(q, p) } ])

Page(offset) == SubSeq(Listing, offset + 1, Min({offset + PageSize, Len(Listing)}))

\* Mutant of Offset: pages count from one.
OffsetByOne(n) == (n + 1) * PageSize

\* getNextPageParam
Offset(n) == n * PageSize

HasMore(offset) == Page(offset) # <<>> /\ offset + Len(Page(offset)) < Len(Listing)

\* The next page, when the end of the list comes into view.
FetchNextPage ==
  /\ more
  /\ LET offset == Offset(pages)
     IN loaded' = loaded \o Page(offset) /\ more' = HasMore(offset)
  /\ pages' = pages + 1
  /\ UNCHANGED <<product, query, changed>>

\* updateFilter: another key, another list.
UpdateFilter ==
  /\ query' \in Queries \ {query}
  /\ pages' = 0 /\ loaded' = <<>> /\ more' = TRUE /\ changed' = FALSE
  /\ UNCHANGED product

\* Sales, restocking, publication and prices.
Change(p) ==
  /\ \E row \in ProductRow :
       /\ row # product[p] /\ row.categories = product[p].categories
       /\ product' = [product EXCEPT ![p] = row]
  /\ changed' = (pages > 0)
  /\ UNCHANGED <<query, pages, loaded, more>>

Next == FetchNextPage \/ UpdateFilter \/ \E p \in Products : Change(p)

Spec == Init /\ [][Next]_vars

-----------------------------------------------------------------------------
(***************************************************************************)
(* findRelated                                                             *)
(***************************************************************************)
Newest(p, q) == CreatedAt[p] > CreatedAt[q] \/ (CreatedAt[p] = CreatedAt[q] /\ p < q)

\* queryRelatedByCategories, which has no order among products of one time.
RelatedBy(ids, p, excluded, limit) ==
  LET found == { q \in Products \ ({p} \cup excluded) :
                   /\ product[q].categories \cap ids # {}
                   /\ product[q].forSale /\ product[q].stock > 0 }
      sorted == Ordered([ q \in found |-> { r \in found : Newest(r, q) } ])
  IN IF Len(sorted) <= limit THEN sorted ELSE SubSeq(sorted, 1, limit)

Subcategories(p) == { c \in product[p].categories : Parent[c] # Root }
OrElse(ids, others) == IF ids # {} THEN ids ELSE others

Excluded(first) == ToSet(first)

FindRelated(p) ==
  LET ids == product[p].categories
      first == RelatedBy(OrElse(Subcategories(p), ids), p, {}, MaxRelated)
  IN IF ids = {} THEN <<>>
     ELSE first \o RelatedBy(OrElse(ids \ Subcategories(p), ids), p, Excluded(first),
                             MaxRelated - Len(first))

-----------------------------------------------------------------------------
(***************************************************************************)
(* What the catalogue promises.                                            *)
(***************************************************************************)
\* The list shows products that exist, whatever changed, and no more than fit in
\* its pages.
TypeOK ==
  /\ product \in [Products -> ProductRow] /\ query \in Query
  /\ pages \in Nat /\ more \in BOOLEAN /\ changed \in BOOLEAN
  /\ loaded \in Seq(Products) /\ Len(loaded) <= pages * PageSize

\* While the catalogue stands still, the pages put together are the list: no
\* product is repeated or skipped where a page ends, and the scroll stops at
\* the end and not before (findPublished, 72-96; useProducts, 16-19).
PagesMakeTheList ==
  ~changed /\ pages > 0 =>
    /\ IsPrefix(loaded, Listing)
    /\ ~more => loaded = Listing

\* Products without stock come last, in every order, unless they are left out
\* (flow 6a, 575-579): a visitor who reaches one has seen all the others.
WithoutStockLast ==
  ~changed =>
    \A i, j \in DOMAIN loaded : i < j /\ product[loaded[i]].stock = 0
                                  => product[loaded[j]].stock = 0

\* A category stands for its subcategories too (CU-04, 63-67): a product that
\* is found under a subcategory is found under the category.
CategoryCoversItsOwn ==
  \A p \in Products, c \in query.categoryIds :
    product[p].categories \cap ({c} \cup { s \in Category : Parent[s] = c }) # {}
      /\ product[p].forSale /\ product[p].stock > 0 /\ product[p].price <= query.maxPrice
      => Matches(p)

\* Related products are different ones that can be bought, never the product
\* itself, and no more than fit.
RelatedCanBeBought ==
  \A p \in Products :
    LET related == FindRelated(p)
    IN /\ IsInjective(related) /\ Len(related) <= MaxRelated
       /\ \A q \in ToSet(related) : q # p /\ product[q].forSale /\ product[q].stock > 0

=============================================================================
