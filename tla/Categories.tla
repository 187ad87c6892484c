------------------------------ MODULE Categories ------------------------------
(***************************************************************************)
(* The tree of categories (products/categories/categories.service.ts and   *)
(* the form of pages/admin/Categories.tsx) and the categories of a product.*)
(*                                                                         *)
(* Every request checks what it read and then saves one row, without a     *)
(* transaction: the database keeps only the names of siblings apart.       *)
(* Description, order and visibility follow no rule and are left out.      *)
(***************************************************************************)
EXTENDS Integers, FiniteSets

CONSTANTS Category,
          Root,   \* parent_id is NULL
          Name,
          Admin,
          Choices \* the categories that a product is given

VARIABLES
  category,   \* the rows of categories
  classified, \* the categories of a product that is not removed
  request,    \* what each administrator is about to save
  overlapped  \* two requests went on at once (history)

vars == <<category, classified, request, overlapped>>

AnyName == CHOOSE n \in Name : TRUE
Row(parent, name) == [exists |-> TRUE, isActive |-> TRUE, parent |-> parent, name |-> name]
NoRow == [Row(Root, AnyName) EXCEPT !.exists = FALSE, !.isActive = FALSE]

Idle == [type |-> "none", of |-> Root, entity |-> NoRow, chosen |-> {}]

\* Values of their kinds; a product is classified under categories that exist.
TypeOK ==
  /\ category \in [Category -> [exists : BOOLEAN, isActive : BOOLEAN,
                                parent : Category \cup {Root}, name : Name]]
  /\ classified \subseteq { c \in Category : category[c].exists }
  /\ \A a \in Admin : request[a].chosen \subseteq Category

Init ==
  /\ category = [c \in Category |-> NoRow]
  /\ classified = {}
  /\ request = [a \in Admin |-> Idle]
  /\ overlapped = FALSE

-----------------------------------------------------------------------------
(***************************************************************************)
(* What the service asks of the rows.                                      *)
(***************************************************************************)

Active(c) == category[c].isActive
Children(c) == { d \in Category : category[d].parent = c }

\* Mutant of CountChildren: the children are never loaded.
CountNone(c) == 0

CountChildren(c) == Cardinality({ d \in Children(c) : Active(d) })

\* resolveParentOrFail, for the category c if there is one.
ParentAccepted(p, c) ==
  \/ p = Root
  \/ p # c /\ Active(p) /\ category[p].parent = Root

Siblings(row, c) ==
  { d \in Category \ {c} : category[d].exists /\ category[d].parent = row.parent }

\* assertNameNotDuplicated, before a save; rows that were removed count.
NameFree(row, c) == \A d \in Siblings(row, c) : category[d].name # row.name

\* The same, for the two unique indexes: the safeguard of saveOrFailOnDuplicateName.
UniqueName(row, c) == NameFree(row, c)

-----------------------------------------------------------------------------
Starts(a, type, c, row, chosen) ==
  /\ request[a] = Idle
  /\ request' = [request EXCEPT ![a] =
                   [type |-> type, of |-> c, entity |-> row, chosen |-> chosen]]
  /\ overlapped' = (overlapped \/ \E b \in Admin : request[b] # Idle)
  /\ UNCHANGED <<category, classified>>

Create(a, p, n) ==
  /\ ParentAccepted(p, Root)
  /\ NameFree(Row(p, n), Root)
  /\ Starts(a, "create", Root, Row(p, n), {})

\* update.  The form always shows a parent; the option without one sends no
\* parentId, which leaves the parent as it is.
Update(a, c, shown, n) ==
  LET parent == IF shown = Root THEN category[c].parent ELSE shown
      row == [category[c] EXCEPT !.parent = parent, !.name = n]
  IN /\ Active(c)
     /\ parent # category[c].parent => CountChildren(c) = 0 /\ ParentAccepted(parent, c)
     /\ n # category[c].name => NameFree(row, c)
     /\ Starts(a, "update", c, row, {})

Remove(a, c) ==
  /\ Active(c)
  /\ CountChildren(c) = 0
  /\ c \notin classified
  /\ Starts(a, "remove", c, [category[c] EXCEPT !.isActive = FALSE], {})

\* resolveCategoriesOrFail, when a product is created or edited.
Classify(a, chosen) ==
  /\ \A c \in chosen : Active(c)
  /\ Starts(a, "classify", Root, NoRow, chosen)

\* save writes the row as the request left it, isActive too.
Save(a, c) ==
  /\ request[a].type \in { "create", "update", "remove" }
  /\ IF request[a].type = "create" THEN ~category[c].exists ELSE c = request[a].of
  /\ UniqueName(request[a].entity, c)
  /\ category' = [category EXCEPT ![c] = request[a].entity]
  /\ request' = [request EXCEPT ![a] = Idle]
  /\ UNCHANGED <<classified, overlapped>>

SaveFails(a) ==
  /\ request[a].type \in { "create", "update" }
  /\ ~UniqueName(request[a].entity, request[a].of)
  /\ request' = [request EXCEPT ![a] = Idle]
  /\ UNCHANGED <<category, classified, overlapped>>

ClassifySaves(a) ==
  /\ request[a].type = "classify"
  /\ classified' = request[a].chosen
  /\ request' = [request EXCEPT ![a] = Idle]
  /\ UNCHANGED <<category, overlapped>>

Next ==
  \E a \in Admin :
    \/ \E n \in Name, p \in Category \cup {Root} :
         Create(a, p, n) \/ \E c \in Category : Update(a, c, p, n)
    \/ \E c \in Category : Remove(a, c) \/ Save(a, c)
    \/ \E chosen \in Choices : Classify(a, chosen)
    \/ SaveFails(a)
    \/ ClassifySaves(a)

Spec == Init /\ [][Next]_vars

-----------------------------------------------------------------------------
(***************************************************************************)
(* What the tree promises.                                                 *)
(***************************************************************************)

\* The tree has two levels: no parent has a parent.
TwoLevels ==
  \A c \in Category :
    Active(c) /\ category[c].parent # Root => category[category[c].parent].parent = Root

\* Siblings have different names, also those that concurrent requests save and
\* those that were removed (saveOrFailOnDuplicateName, 107-118).
SiblingNamesDiffer ==
  \A c \in Category : category[c].exists =>
    \A d \in Siblings(category[c], c) : category[d].name # category[c].name

\* Of requests that do not overlap, none breaks the tree: it has two levels,
\* what is in use was not removed, so buildTree shows every category.
SequentialTree ==
  ~overlapped =>
    /\ TwoLevels
    /\ \A c \in Category : Active(c) /\ category[c].parent # Root => Active(category[c].parent)
    /\ \A c \in classified : Active(c)

=============================================================================
