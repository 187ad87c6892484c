-------------------------- MODULE CatalogueProofs --------------------------
(***************************************************************************)
(* What administrators do to the catalogue, for any number of them.  The   *)
(* saves of forms keep what other saves did (EditInv) and what customers   *)
(* bought and reserved (ActInv); creates leave no files (FilesInv);        *)
(* requests about categories keep their tree (TreeInv); and the pages of a *)
(* visitor make the list (PagesInv), which holds every product that is     *)
(* found once and in order, because rows that are numbered by how many     *)
(* come before them get each number once (RanksNumberTheRows).             *)
(***************************************************************************)
EXTENDS CatalogueMC, FiniteSetTheorems, Sequences, TLAPS

ProductRows ==
  [exists : BOOLEAN, isActive : BOOLEAN, isPublished : BOOLEAN, ownThreshold : BOOLEAN,
   price : Costs, version : Nat]

\* There is a price and a SKU to choose, "no product" is none, an administrator
\* types numbers of units, and versions count from one.
ShopAssumption(shop) ==
  /\ Costs # {} /\ Codes # {} /\ IsFiniteSet(Variants)
  /\ Nothing \notin shop.products /\ shop.published \subseteq BOOLEAN
  /\ shop.totals \subseteq Nat /\ shop.maxVersion \in Nat \ {0}

Actions(shop) ==
  [type : shop.actions \cup {"none"}, of : shop.products \cup {Nothing}, read : ProductRows]

-----------------------------------------------------------------------------
(* The saves of forms, one after the other.                                *)

EditTypes ==
  /\ product \in [Editing.products -> ProductRows] /\ edits \in [Editing.products -> Nat]
  /\ DOMAIN form = Editing.admins /\ DOMAIN save = Editing.admins
  /\ action \in [Editing.admins -> Actions(Editing)]

\* What a form shows was so, and if its version is still that of the product, no
\* save came in between.
FormsAreOld ==
  \A a \in Editing.admins : form[a] # Editors!Closed =>
    /\ form[a].of \in Editing.products /\ product[form[a].of].exists
    /\ form[a].version \in Nat /\ form[a].version <= product[form[a].of].version
    /\ form[a].version = product[form[a].of].version => form[a].edits = edits[form[a].of]

\* A save is that of the form that is open.
SavesTheForm ==
  \A a \in Editing.admins :
    save[a].phase = "found" => form[a] # Editors!Closed /\ save[a].of = form[a].of

\* An action of the page writes back a product that exists.
ActsOnAProduct ==
  \A a \in Editing.admins :
    action[a] # Editors!NoAction => action[a].of \in Editing.products /\ action[a].read.exists

EditInv ==
  EditTypes /\ FormsAreOld /\ SavesTheForm /\ ActsOnAProduct /\ ~overwritten

\* At the start no form is open.
LEMMA EditStarts ==
  ASSUME ShopAssumption(Editing), Editors!Init
  PROVE  EditInv
<1>1. Editors!AnyPrice \in Costs BY DEF Editors!AnyPrice, ShopAssumption
<1>2. Editors!Absent \in ProductRows /\ [Editors!NewProduct(Editors!AnyPrice) EXCEPT !.isPublished = TRUE] \in ProductRows
  BY <1>1 DEF Editors!Absent, Editors!NewProduct, ProductRows
<1>3. Editors!NoAction \in Actions(Editing) BY <1>2 DEF Editors!NoAction, Actions
<1>4. Editors!NoSave.phase = "idle" BY DEF Editors!NoSave
<1>5. EditTypes BY <1>2, <1>3 DEF Editors!Init, EditTypes
<1> QED BY <1>4, <1>5 DEF Editors!Init, EditInv, FormsAreOld, SavesTheForm, ActsOnAProduct

\* Customers do not touch the product, nor what administrators do with it.
LEMMA CustomersKeepEdits ==
  ASSUME EditInv, NEW v \in Variants,
         Editors!Look(v) \/ Editors!Reserve(v) \/ Editors!Release(v) \/ Editors!Sell(v)
  PROVE  EditInv'
<1>1. UNCHANGED <<product, form, save, action, edits, overwritten>>
  BY DEF Editors!Look, Editors!Reserve, Editors!Release, Editors!Sell, Editors!requests,
     Editors!history
<1> QED BY <1>1 DEF EditInv, EditTypes, FormsAreOld, SavesTheForm, ActsOnAProduct

\* A form is opened on the product as it is.
LEMMA StartEditKeepsEdits ==
  ASSUME EditInv, NEW a \in Editing.admins, NEW p \in Editing.products, Editors!StartEdit(a, p)
  PROVE  EditInv'
<1>0. EditTypes /\ FormsAreOld /\ SavesTheForm /\ ActsOnAProduct /\ ~overwritten BY DEF EditInv
<1>1. /\ product[p].exists /\ save[a] = Editors!NoSave
      /\ UNCHANGED <<product, save, action, edits, overwritten>>
  BY DEF Editors!StartEdit, Editors!Listed, Editors!history
<1>2. /\ DOMAIN form' = Editing.admins /\ \A b \in Editing.admins \ {a} : form'[b] = form[b]
      /\ form'[a].of = p /\ form'[a].version = product[p].version /\ form'[a].edits = edits[p]
  BY <1>0 DEF Editors!StartEdit, EditTypes
<1>3. product[p].version \in Nat BY <1>0 DEF EditTypes, ProductRows
<1>4. FormsAreOld' BY <1>0, <1>1, <1>2, <1>3 DEF FormsAreOld
<1>5. Editors!NoSave.phase = "idle" BY DEF Editors!NoSave
<1>6. SavesTheForm' BY <1>0, <1>1, <1>2, <1>5 DEF SavesTheForm
<1> QED BY <1>0, <1>1, <1>2, <1>4, <1>6 DEF EditInv, EditTypes, ActsOnAProduct

\* What is said of a save that is not of a form.
LEMMA SavesKeepEdits ==
  ASSUME EditInv, NEW a \in Editing.admins,
         UNCHANGED <<product, form, action, edits, overwritten>>,
         NEW s, save' = [save EXCEPT ![a] = s],
         s.phase = "found" => form[a] # Editors!Closed /\ s.of = form[a].of
  PROVE  EditInv'
<1>1. /\ DOMAIN save' = Editing.admins /\ save'[a] = s
      /\ \A b \in Editing.admins \ {a} : save'[b] = save[b]
  BY DEF EditInv, EditTypes
<1> QED BY <1>1 DEF EditInv, EditTypes, FormsAreOld, SavesTheForm, ActsOnAProduct

\* A product is created where none was: no form shows it.
LEMMA CreateKeepsEdits ==
  ASSUME ShopAssumption(Editing), EditInv, NEW a \in Editing.admins, NEW p \in Editing.products,
         NEW v \in Variants, Editors!CreateCommits(a, p, v)
  PROVE  EditInv'
<1>0. EditTypes /\ FormsAreOld /\ SavesTheForm /\ ActsOnAProduct /\ ~overwritten BY DEF EditInv
<1>1. PICK c \in Costs : product' = [product EXCEPT ![p] = Editors!NewProduct(c)]
  BY DEF Editors!CreateCommits
<1>2. /\ ~product[p].exists /\ save' = [save EXCEPT ![a] = Editors!NoSave]
      /\ UNCHANGED <<form, action, edits, overwritten>>
  BY DEF Editors!CreateCommits, Editors!history
<1>3. Editors!NewProduct(c) \in ProductRows BY DEF Editors!NewProduct, ProductRows
<1>4. /\ product' \in [Editing.products -> ProductRows]
      /\ \A q \in Editing.products \ {p} : product'[q] = product[q]
  BY <1>0, <1>1, <1>3 DEF EditTypes
<1>5. FormsAreOld' BY <1>0, <1>2, <1>4 DEF FormsAreOld
<1>6. Editors!NoSave.phase = "idle" BY DEF Editors!NoSave
<1>7. SavesTheForm' BY <1>0, <1>2, <1>6 DEF SavesTheForm, EditTypes
<1> QED BY <1>0, <1>2, <1>4, <1>5, <1>7 DEF EditInv, EditTypes, ActsOnAProduct

\* The other requests of a form write nothing.
LEMMA FormsKeepEdits ==
  ASSUME ShopAssumption(Editing), EditInv, NEW a \in Editing.admins,
         \/ \E sku \in Codes, total \in Editing.totals : Editors!CreateUploads(a, sku, total)
         \/ Editors!CreateFails(a)
         \/ Editors!UpdateFinds(a)
         \/ \E list \in Editors!Lists(save[a].of) : Editors!UpdateFails(a, list)
  PROVE  EditInv'
<1>1. PICK s : /\ save' = [save EXCEPT ![a] = s]
               /\ s.phase = "found" => form[a] # Editors!Closed /\ s.of = form[a].of
  <2>1. Editors!NoSave.phase = "idle" BY DEF Editors!NoSave
  <2>2. CASE \E sku \in Codes, total \in Editing.totals : Editors!CreateUploads(a, sku, total)
    <3>1. PICK sku \in Codes, total \in Editing.totals : Editors!CreateUploads(a, sku, total)
      BY <2>2
    <3>2. [phase |-> "uploaded", of |-> Nothing, sku |-> sku, total |-> total].phase # "found"
      OBVIOUS
    <3> QED BY <3>1, <3>2 DEF Editors!CreateUploads
  <2>3. CASE Editors!CreateFails(a) BY <2>1, <2>3 DEF Editors!CreateFails
  <2>4. CASE Editors!UpdateFinds(a)
    <3>1. [Editors!NoSave EXCEPT !.phase = "found", !.of = form[a].of].of = form[a].of
      BY DEF Editors!NoSave
    <3> QED BY <2>4, <3>1 DEF Editors!UpdateFinds
  <2>5. CASE \E list \in Editors!Lists(save[a].of) : Editors!UpdateFails(a, list)
    BY <2>1, <2>5 DEF Editors!UpdateFails
  <2> QED BY <2>2, <2>3, <2>4, <2>5
<1>2. UNCHANGED <<product, form, action, edits, overwritten>>
  BY DEF Editors!CreateUploads, Editors!CreateFails, Editors!UpdateFinds, Editors!UpdateFails,
     Editors!history
<1> QED BY <1>1, <1>2, SavesKeepEdits

\* A save of a form: its version is that of the product, so it is the next save.
LEMMA UpdateKeepsEdits ==
  ASSUME ShopAssumption(Editing), EditInv, NEW a \in Editing.admins, NEW price \in Costs,
         NEW published \in Editing.published, NEW list, Editors!UpdateCommits(a, price, published, list)
  PROVE  EditInv'
<1>0. EditTypes /\ FormsAreOld /\ SavesTheForm /\ ActsOnAProduct /\ ~overwritten BY DEF EditInv
<1>1. PICK p : p = save[a].of OBVIOUS
<1>2. /\ save[a].phase = "found" /\ product[p].version = form[a].version
      /\ save' = [save EXCEPT ![a] = Editors!NoSave] /\ form' = [form EXCEPT ![a] = Editors!Closed]
      /\ edits' = [edits EXCEPT ![p] = @ + 1] /\ action' = action
      /\ overwritten' = (overwritten \/ edits[p] # form[a].edits)
  BY <1>1 DEF Editors!UpdateCommits, Editors!Bumps, Editors!ResetForm
<1>3. form[a] # Editors!Closed /\ p = form[a].of /\ p \in Editing.products /\ product[p].exists
  BY <1>0, <1>1, <1>2 DEF SavesTheForm, FormsAreOld
<1>4. ~overwritten' BY <1>0, <1>2, <1>3 DEF FormsAreOld
<1>5. PICK row : /\ product' = [product EXCEPT ![p] = row]
                 /\ row \in ProductRows /\ row.exists /\ row.version > product[p].version
  <2>1. product[p] \in ProductRows BY <1>0, <1>3 DEF EditTypes
  <2>2. published \in BOOLEAN BY DEF ShopAssumption
  <2>3. PICK written : written = [product[p] EXCEPT !.price = price, !.isPublished = published]
    OBVIOUS
  <2>4. written \in ProductRows /\ written.version = product[p].version
        /\ written.exists = product[p].exists
    BY <2>1, <2>2, <2>3 DEF ProductRows
  <2>5. PICK row :
          row = [written EXCEPT !.version = @ + (IF written # product[p] THEN 2 ELSE 1)]
    OBVIOUS
  <2>6. PICK n \in {1, 2} : row = [written EXCEPT !.version = written.version + n]
    BY <2>5
  <2>7. row \in ProductRows /\ row.exists = written.exists /\ row.version = written.version + n
    BY <2>4, <2>6 DEF ProductRows
  <2>8. product[p].version \in Nat BY <2>1 DEF ProductRows
  <2>9. product' = [product EXCEPT ![p] = row]
    BY <1>1, <2>3, <2>5, Zenon DEF Editors!UpdateCommits
  <2>10. row \in ProductRows /\ row.exists /\ row.version > product[p].version
    BY <1>3, <2>4, <2>7, <2>8
  <2> QED BY <2>9, <2>10, Zenon
<1>6. /\ product' \in [Editing.products -> ProductRows] /\ product'[p] = row
      /\ \A q \in Editing.products \ {p} : product'[q] = product[q]
  BY <1>0, <1>5, <1>3 DEF EditTypes
<1>7. /\ edits' \in [Editing.products -> Nat]
      /\ \A q \in Editing.products \ {p} : edits'[q] = edits[q]
  BY <1>0, <1>2, <1>3 DEF EditTypes
<1>8. /\ DOMAIN form' = Editing.admins /\ form'[a] = Editors!Closed
      /\ \A b \in Editing.admins \ {a} : form'[b] = form[b]
  BY <1>0, <1>2 DEF EditTypes
<1>9. Editors!NoSave.phase = "idle" BY DEF Editors!NoSave
<1>10. /\ DOMAIN save' = Editing.admins /\ save'[a] = Editors!NoSave
       /\ \A b \in Editing.admins \ {a} : save'[b] = save[b]
  BY <1>0, <1>2 DEF EditTypes
<1>11. FormsAreOld'
  <2> SUFFICES ASSUME NEW b \in Editing.admins \ {a}, form[b] # Editors!Closed
               PROVE  /\ form[b].of \in Editing.products /\ product'[form[b].of].exists
                      /\ form[b].version \in Nat
                      /\ form[b].version <= product'[form[b].of].version
                      /\ form[b].version = product'[form[b].of].version =>
                           form[b].edits = edits'[form[b].of]
    BY <1>8 DEF FormsAreOld
  <2>1. /\ form[b].of \in Editing.products /\ product[form[b].of].exists
        /\ form[b].version \in Nat /\ form[b].version <= product[form[b].of].version
        /\ form[b].version = product[form[b].of].version => form[b].edits = edits[form[b].of]
    BY <1>0 DEF FormsAreOld
  <2>2. product[p].version \in Nat /\ row.version \in Nat
    BY <1>0, <1>3, <1>5 DEF EditTypes, ProductRows
  <2>3. CASE form[b].of = p BY <1>5, <1>6, <2>1, <2>2, <2>3
  <2>4. CASE form[b].of # p BY <1>6, <1>7, <2>1, <2>4
  <2> QED BY <2>3, <2>4
<1>12. SavesTheForm' BY <1>0, <1>8, <1>9, <1>10 DEF SavesTheForm
<1> QED
  BY <1>0, <1>2, <1>4, <1>6, <1>7, <1>8, <1>10, <1>11, <1>12
     DEF EditInv, EditTypes, ActsOnAProduct

\* An action of the page reads a product.
LEMMA ActionFindsKeepsEdits ==
  ASSUME EditInv, NEW a \in Editing.admins, NEW type \in Editing.actions,
         NEW p \in Editing.products, Editors!ActionFinds(a, type, p)
  PROVE  EditInv'
<1>0. EditTypes /\ FormsAreOld /\ SavesTheForm /\ ActsOnAProduct /\ ~overwritten BY DEF EditInv
<1>1. PICK found : found = [type |-> type, of |-> p, read |-> product[p]] OBVIOUS
<1>2. product[p].exists /\ action' = [action EXCEPT ![a] = found]
      /\ UNCHANGED <<product, form, save, edits, overwritten>>
  BY <1>1 DEF Editors!ActionFinds, Editors!Listed, Editors!history
<1>3. found \in Actions(Editing) BY <1>0, <1>1 DEF Actions, EditTypes
<1>4. /\ action' \in [Editing.admins -> Actions(Editing)] /\ action'[a] = found
      /\ \A b \in Editing.admins \ {a} : action'[b] = action[b]
  BY <1>0, <1>2, <1>3 DEF EditTypes
<1>5. ActsOnAProduct' BY <1>0, <1>1, <1>2, <1>4 DEF ActsOnAProduct
<1> QED BY <1>0, <1>2, <1>4, <1>5 DEF EditInv, EditTypes, FormsAreOld, SavesTheForm

\* It writes the product back: its version goes up, or nothing changes.
LEMMA ActionSavesKeepsEdits ==
  ASSUME ShopAssumption(Editing), EditInv, NEW a \in Editing.admins, Editors!ActionSaves(a)
  PROVE  EditInv'
<1>0. EditTypes /\ FormsAreOld /\ SavesTheForm /\ ActsOnAProduct /\ ~overwritten BY DEF EditInv
<1>1. PICK p : p = action[a].of OBVIOUS
<1>2. PICK row : row = Editors!Written(product[p], Editors!Changed(action[a].type, action[a].read)) OBVIOUS
<1>3. /\ action[a] # Editors!NoAction /\ product' = [product EXCEPT ![p] = row]
      /\ action' = [action EXCEPT ![a] = Editors!NoAction]
      /\ UNCHANGED <<form, save, edits, overwritten>>
  BY <1>1, <1>2 DEF Editors!ActionSaves, Editors!history
<1>4. p \in Editing.products /\ action[a].read.exists BY <1>0, <1>1, <1>3 DEF ActsOnAProduct
<1>5. product[p] \in ProductRows /\ action[a].read \in ProductRows
  BY <1>0, <1>4 DEF EditTypes, Actions
<1>6. PICK entity : entity = Editors!Changed(action[a].type, action[a].read) OBVIOUS
<1>7. entity \in ProductRows /\ entity.exists BY <1>4, <1>5, <1>6 DEF Editors!Changed, ProductRows
<1>8. /\ row \in ProductRows
      /\ row = product[p] \/ (row.exists /\ row.version > product[p].version)
  <2>1. PICK same : same = [entity EXCEPT !.version = product[p].version] OBVIOUS
  <2>2. /\ same \in ProductRows /\ same.version = product[p].version /\ same.exists
        /\ product[p].version \in Nat
    BY <1>5, <1>7, <2>1 DEF ProductRows
  <2>3. row = IF same = product[p] THEN product[p]
              ELSE [same EXCEPT !.version = product[p].version + 1]
    BY <1>2, <1>6, <2>1 DEF Editors!Written
  <2> QED BY <1>5, <2>2, <2>3 DEF ProductRows
<1>9. /\ product' \in [Editing.products -> ProductRows] /\ product'[p] = row
      /\ \A q \in Editing.products \ {p} : product'[q] = product[q]
  BY <1>0, <1>3, <1>4, <1>8 DEF EditTypes
<1>10. Editors!NoAction \in Actions(Editing)
  <2>1. Editors!AnyPrice \in Costs BY DEF Editors!AnyPrice, ShopAssumption
  <2>2. Editors!Absent \in ProductRows BY <2>1 DEF Editors!Absent, Editors!NewProduct, ProductRows
  <2> QED BY <2>2 DEF Editors!NoAction, Actions
<1>11. action' \in [Editing.admins -> Actions(Editing)] /\ ActsOnAProduct'
  BY <1>0, <1>3, <1>10 DEF EditTypes, ActsOnAProduct
<1>12. FormsAreOld'
  <2> SUFFICES ASSUME NEW b \in Editing.admins, form[b] # Editors!Closed
               PROVE  /\ form[b].of \in Editing.products /\ product'[form[b].of].exists
                      /\ form[b].version \in Nat
                      /\ form[b].version <= product'[form[b].of].version
                      /\ form[b].version = product'[form[b].of].version =>
                           form[b].edits = edits[form[b].of]
    BY <1>3 DEF FormsAreOld
  <2>1. /\ form[b].of \in Editing.products /\ product[form[b].of].exists
        /\ form[b].version \in Nat /\ form[b].version <= product[form[b].of].version
        /\ form[b].version = product[form[b].of].version => form[b].edits = edits[form[b].of]
    BY <1>0 DEF FormsAreOld
  <2>2. product[p].version \in Nat /\ row.version \in Nat BY <1>5, <1>8 DEF ProductRows
  <2>3. CASE form[b].of = p BY <1>8, <1>9, <2>1, <2>2, <2>3
  <2>4. CASE form[b].of # p BY <1>9, <2>1, <2>4
  <2> QED BY <2>3, <2>4
<1> QED BY <1>0, <1>3, <1>9, <1>11, <1>12 DEF EditInv, EditTypes, SavesTheForm

\* Every step keeps EditInv.
LEMMA NextKeepsEdits ==
  ASSUME ShopAssumption(Editing), EditInv, [Editors!Next]_Editors!vars
  PROVE  EditInv'
<1>1. CASE \E v \in Variants : Editors!Look(v) \/ Editors!Reserve(v) \/ Editors!Release(v) \/ Editors!Sell(v)
  BY <1>1, CustomersKeepEdits
<1>2. CASE \E a \in Editing.admins : Editors!Saves(a)
  BY <1>2, StartEditKeepsEdits, CreateKeepsEdits, FormsKeepEdits, UpdateKeepsEdits
     DEF Editors!Saves
<1>3. CASE \E a \in Editing.admins :
             \/ \E type \in Editing.actions, p \in Editing.products : Editors!ActionFinds(a, type, p)
             \/ Editors!ActionSaves(a)
  BY <1>3, ActionFindsKeepsEdits, ActionSavesKeepsEdits
<1>4. CASE UNCHANGED Editors!vars
  <2>1. UNCHANGED <<product, form, save, action, edits, overwritten>>
    BY <1>4, Zenon DEF Editors!vars, Editors!requests, Editors!history
  <2> QED BY <2>1 DEF EditInv, EditTypes, FormsAreOld, SavesTheForm, ActsOnAProduct
<1> QED BY <1>1, <1>2, <1>3, <1>4 DEF Editors!Next

\* Every reachable shop of the editors is as EditInv says.
LEMMA PartKeepsEdits ==
  ASSUME ShopAssumption(Editing)
  PROVE  MCSpec => [](part = "editors" => EditInv)
<1>1. MCInit => (part = "editors" => EditInv)
  BY EditStarts DEF MCInit
<1>2. ASSUME part = "editors" => EditInv,
             [MCNext]_<<part, productVars, treeVars, listVars>>
      PROVE  (part = "editors" => EditInv)'
  <2>1. CASE UNCHANGED <<part, productVars, treeVars, listVars>>
    <3>1. UNCHANGED <<part, Editors!vars>>
      BY <2>1, Zenon DEF productVars, Editors!vars, Editors!requests, Editors!history
    <3> QED BY <3>1, <1>2, NextKeepsEdits
  <2>2. CASE ProductsNext
    <3>1. part = "editors" => Editors!Next BY <2>2 DEF ProductsNext
    <3>2. part' = part BY <2>2 DEF ProductsNext
    <3> QED BY <3>1, <3>2, <1>2, NextKeepsEdits
  <2>3. CASE TreeNext \/ ListNext
    BY <2>3 DEF TreeNext, ListNext
  <2> QED BY <1>2, <2>1, <2>2, <2>3 DEF MCNext
<1> QED BY <1>1, <1>2, PTL DEF MCSpec


-----------------------------------------------------------------------------
(* The saves of forms, and the stock.                                      *)

VariantRows ==
  [product : Acting.products \cup {Nothing}, sku : Codes, isActive : BOOLEAN,
   stockTotal : Nat, stockReserved : Nat]
FormSaves ==
  [phase : {"idle", "found", "uploaded"}, of : Acting.products \cup {Nothing}, sku : Codes,
   total : Nat]

Versions == \A p \in Acting.products : product[p].version \in 1..Acting.maxVersion

ActTypes ==
  /\ product \in [Acting.products -> ProductRows] /\ Versions
  /\ variant \in [Variants -> VariantRows]
  /\ DOMAIN form = Acting.admins /\ save \in [Acting.admins -> FormSaves]
  /\ action \in [Acting.admins -> Actions(Acting)]
  /\ looked \in SUBSET Variants /\ unlinked \in SUBSET Acting.admins

\* What is under way is about a product.
AboutProducts ==
  \A a \in Acting.admins :
    /\ form[a] # Actor!Closed => form[a].of \in Acting.products
    /\ save[a].phase = "found" => save[a].of \in Acting.products
    /\ action[a] # Actor!NoAction => action[a].of \in Acting.products

ActInv == ActTypes /\ AboutProducts /\ Actor!ReservedIsThere /\ ~surprised

\* What stands for nothing is of its type.
LEMMA NothingIsTyped ==
  ASSUME ShopAssumption(Acting)
  PROVE  /\ Actor!NoAction \in Actions(Acting) /\ Actor!NoVariant \in VariantRows
         /\ Actor!NoSave \in FormSaves /\ Actor!NoSave.phase = "idle" /\ Actor!AnySku \in Codes
         /\ Actor!Absent \in ProductRows /\ Actor!Absent.version = 1 /\ Actor!AnyPrice \in Costs
<1>1. Actor!AnyPrice \in Costs /\ Actor!AnySku \in Codes
  BY DEF Actor!AnyPrice, Actor!AnySku, ShopAssumption
<1>2. Actor!Absent \in ProductRows /\ Actor!Absent.version = 1
  BY <1>1 DEF Actor!Absent, Actor!NewProduct, ProductRows
<1>3. Actor!NoAction \in Actions(Acting) BY <1>2 DEF Actor!NoAction, Actions
<1>4. Actor!NoVariant \in VariantRows BY <1>1 DEF Actor!NoVariant, Actor!NewVariant, VariantRows
<1>5. Actor!NoSave \in FormSaves /\ Actor!NoSave.phase = "idle"
  BY <1>1 DEF Actor!NoSave, FormSaves
<1> QED BY <1>1, <1>2, <1>3, <1>4, <1>5

\* A row that is inserted has nothing reserved.
LEMMA NewRowsAreFree ==
  ASSUME NEW p \in Acting.products \cup {Nothing}, NEW sku \in Codes, NEW total \in Nat
  PROVE  /\ Actor!NewVariant(p, sku, total) \in VariantRows
         /\ Actor!NewVariant(p, sku, total).stockReserved = 0 /\ Actor!NewVariant(p, sku, total).isActive
BY DEF Actor!NewVariant, VariantRows

\* At the start there is one product, with one variant.
LEMMA ActStarts ==
  ASSUME ShopAssumption(Acting), Actor!Init
  PROVE  ActInv
<1>1. PICK p \in Acting.products, v \in Variants, total \in Acting.totals :
        /\ product = [q \in Acting.products |->
                        IF q = p THEN [Actor!NewProduct(Actor!AnyPrice) EXCEPT !.isPublished = TRUE]
                                  ELSE Actor!Absent]
        /\ variant = [q \in Variants |->
                        IF q = v THEN Actor!NewVariant(p, Actor!AnySku, total) ELSE Actor!NoVariant]
  BY DEF Actor!Init
<1>2. /\ [Actor!NewProduct(Actor!AnyPrice) EXCEPT !.isPublished = TRUE] \in ProductRows
      /\ [Actor!NewProduct(Actor!AnyPrice) EXCEPT !.isPublished = TRUE].version = 1
  BY NothingIsTyped DEF Actor!NewProduct, ProductRows
<1>3. product \in [Acting.products -> ProductRows] /\ Versions
  BY <1>1, <1>2, NothingIsTyped DEF Versions, ShopAssumption
<1>4. total \in Nat BY DEF ShopAssumption
<1>5. Actor!NoVariant.stockReserved = 0 /\ Actor!NoVariant \in VariantRows
  BY NothingIsTyped DEF Actor!NoVariant, Actor!NewVariant
<1>6. /\ Actor!NewVariant(p, Actor!AnySku, total) \in VariantRows
      /\ Actor!NewVariant(p, Actor!AnySku, total).stockReserved = 0
  BY <1>4, NothingIsTyped, NewRowsAreFree
<1>7. \A w \in Variants : variant[w] \in VariantRows /\ variant[w].stockReserved = 0
  BY <1>1, <1>5, <1>6
<1>8. variant \in [Variants -> VariantRows] /\ Actor!ReservedIsThere
  <2>1. variant \in [Variants -> VariantRows] BY <1>1, <1>7
  <2> QED BY <2>1, <1>7 DEF Actor!ReservedIsThere, VariantRows
<1> QED BY <1>3, <1>8, NothingIsTyped DEF Actor!Init, ActInv, ActTypes, AboutProducts

\* A step that writes one row of a variant which exists.
LEMMA RowKeepsActor ==
  ASSUME ActInv, NEW v \in Variants, NEW row \in VariantRows,
         variant' = [variant EXCEPT ![v] = row], row.stockReserved <= row.stockTotal,
         row.isActive = variant[v].isActive,
         UNCHANGED <<product, form, save, action, unlinked, surprised>>, looked' \in SUBSET Variants
  PROVE  ActInv' /\ Actor!FreeWhenTaken
<1>1. /\ variant' \in [Variants -> VariantRows] /\ variant'[v] = row
      /\ \A w \in Variants \ {v} : variant'[w] = variant[w]
  BY DEF ActInv, ActTypes
<1>2. Actor!ReservedIsThere' BY <1>1 DEF ActInv, Actor!ReservedIsThere
<1>3. Actor!FreeWhenTaken BY <1>1 DEF Actor!FreeWhenTaken
<1> QED BY <1>1, <1>2, <1>3 DEF ActInv, ActTypes, AboutProducts, Versions

\* Customers reserve what there is, and buy or leave what they reserved.
LEMMA CustomersKeepActor ==
  ASSUME ActInv, NEW v \in Variants, Actor!Look(v) \/ Actor!Reserve(v) \/ Actor!Release(v) \/ Actor!Sell(v)
  PROVE  ActInv' /\ Actor!FreeWhenTaken
<1>0. /\ variant[v] \in VariantRows /\ variant[v].stockReserved <= variant[v].stockTotal
      /\ looked \in SUBSET Variants
  BY DEF ActInv, ActTypes, Actor!ReservedIsThere
<1>1. UNCHANGED <<product, form, save, action, unlinked, surprised>> /\ looked' \in SUBSET Variants
  BY <1>0 DEF Actor!Look, Actor!Reserve, Actor!Release, Actor!Sell, Actor!requests, Actor!history
<1>2. CASE Actor!Look(v)
  <2>1. variant' = variant BY <1>2 DEF Actor!Look
  <2> QED
    BY <2>1, <1>1 DEF ActInv, ActTypes, AboutProducts, Versions, Actor!ReservedIsThere,
       Actor!FreeWhenTaken
<1>3. CASE Actor!Reserve(v)
  <2>1. PICK row : row = [variant[v] EXCEPT !.stockReserved = @ + 1] OBVIOUS
  <2>2. /\ variant' = [variant EXCEPT ![v] = row]
        /\ variant[v].stockTotal > variant[v].stockReserved
    BY <1>3, <2>1 DEF Actor!Reserve
  <2>3. /\ row \in VariantRows /\ row.stockReserved <= row.stockTotal
        /\ row.isActive = variant[v].isActive
    BY <1>0, <2>1, <2>2 DEF VariantRows
  <2> QED BY <1>1, <2>2, <2>3, RowKeepsActor
<1>4. CASE Actor!Release(v)
  <2>1. PICK row : row = [variant[v] EXCEPT !.stockReserved = @ - 1] OBVIOUS
  <2>2. variant' = [variant EXCEPT ![v] = row] /\ variant[v].stockReserved > 0
    BY <1>4, <2>1 DEF Actor!Release
  <2>3. /\ row \in VariantRows /\ row.stockReserved <= row.stockTotal
        /\ row.isActive = variant[v].isActive
    BY <1>0, <2>1, <2>2 DEF VariantRows
  <2> QED BY <1>1, <2>2, <2>3, RowKeepsActor
<1>5. CASE Actor!Sell(v)
  <2>1. PICK total, reserved :
          total = variant[v].stockTotal - 1 /\ reserved = variant[v].stockReserved - 1
    OBVIOUS
  <2>2. /\ variant' = [variant EXCEPT ![v].stockReserved = @ - 1, ![v].stockTotal = @ - 1]
        /\ variant[v].stockReserved > 0
    BY <1>5 DEF Actor!Sell
  <2>3. variant[v].stockTotal \in Nat /\ variant[v].stockReserved \in Nat
    BY <1>0 DEF VariantRows
  <2>4. total \in Nat /\ reserved \in Nat /\ reserved <= total
    BY <1>0, <2>1, <2>2, <2>3
  <2>5. PICK row : row = [variant[v] EXCEPT !.stockReserved = reserved, !.stockTotal = total]
    OBVIOUS
  <2>6. /\ row \in VariantRows /\ row.stockReserved = reserved /\ row.stockTotal = total
        /\ row.isActive = variant[v].isActive
    BY <1>0, <2>4, <2>5 DEF VariantRows
  <2>7. variant' = [variant EXCEPT ![v] = row] BY <2>1, <2>2, <2>5
  <2> QED BY <1>1, <2>4, <2>6, <2>7, RowKeepsActor
<1> QED BY <1>2, <1>3, <1>4, <1>5

\* A request of a form that writes no row yet.
LEMMA FormsKeepActor ==
  ASSUME ShopAssumption(Acting), ActInv, NEW a \in Acting.admins,
         \/ \E p \in Acting.products : Actor!StartEdit(a, p)
         \/ \E sku \in Codes, total \in Acting.totals : Actor!CreateUploads(a, sku, total)
         \/ Actor!CreateFails(a)
         \/ Actor!UpdateFinds(a)
         \/ \E list \in Actor!Lists(save[a].of) : Actor!UpdateFails(a, list)
  PROVE  ActInv' /\ Actor!FreeWhenTaken
<1>0. ActTypes /\ AboutProducts /\ Actor!ReservedIsThere /\ ~surprised BY DEF ActInv
<1>1. /\ UNCHANGED <<product, variant, action, looked, surprised>>
      /\ unlinked' \in SUBSET Acting.admins
  BY <1>0 DEF ActTypes, Actor!StartEdit, Actor!CreateUploads, Actor!CreateFails,
     Actor!RemoveFiles, Actor!UpdateFinds,
              Actor!UpdateFails, Actor!history
<1> DEFINE FormsFit ==
      /\ DOMAIN form' = Acting.admins /\ save' \in [Acting.admins -> FormSaves]
      /\ \A b \in Acting.admins :
           /\ form'[b] # Actor!Closed => form'[b].of \in Acting.products
           /\ save'[b].phase = "found" => save'[b].of \in Acting.products
<1>2. FormsFit
  <2>1. CASE \E p \in Acting.products : Actor!StartEdit(a, p)
    <3>1. PICK p \in Acting.products : Actor!StartEdit(a, p) BY <2>1
    <3>2. PICK f : f.of = p /\ form' = [form EXCEPT ![a] = f] /\ save' = save
      BY <3>1 DEF Actor!StartEdit
    <3> QED BY <3>2, <1>0 DEF ActTypes, AboutProducts
  <2>2. ASSUME form' = form, NEW s \in FormSaves, save' = [save EXCEPT ![a] = s],
               s.phase = "found" => s.of \in Acting.products
        PROVE  FormsFit
    BY <2>2, <1>0 DEF ActTypes, AboutProducts
  <2>3. CASE \E sku \in Codes, total \in Acting.totals : Actor!CreateUploads(a, sku, total)
    <3>1. PICK sku \in Codes, total \in Acting.totals : Actor!CreateUploads(a, sku, total) BY <2>3
    <3>2. PICK s : s = [phase |-> "uploaded", of |-> Nothing, sku |-> sku, total |-> total]
      OBVIOUS
    <3>3. s \in FormSaves /\ s.phase = "uploaded" BY <3>2 DEF FormSaves, ShopAssumption
    <3>4. form' = form /\ save' = [save EXCEPT ![a] = s] BY <3>1, <3>2 DEF Actor!CreateUploads
    <3> QED BY <3>3, <3>4, <2>2
  <2>4. CASE Actor!CreateFails(a) \/ \E list \in Actor!Lists(save[a].of) : Actor!UpdateFails(a, list)
    <3>1. form' = form /\ save' = [save EXCEPT ![a] = Actor!NoSave]
      BY <2>4 DEF Actor!CreateFails, Actor!UpdateFails
    <3> QED BY <3>1, <2>2, NothingIsTyped
  <2>5. CASE Actor!UpdateFinds(a)
    <3>1. form[a].of \in Acting.products BY <2>5, <1>0 DEF AboutProducts, Actor!UpdateFinds
    <3>2. PICK s : s = [Actor!NoSave EXCEPT !.phase = "found", !.of = form[a].of] OBVIOUS
    <3>3. s \in FormSaves /\ s.of = form[a].of BY <3>1, <3>2, NothingIsTyped DEF FormSaves
    <3>4. form' = form /\ save' = [save EXCEPT ![a] = s] BY <2>5, <3>2 DEF Actor!UpdateFinds
    <3> QED BY <3>1, <3>3, <3>4, <2>2
  <2> QED BY <2>1, <2>3, <2>4, <2>5
<1> QED
  BY <1>0, <1>1, <1>2 DEF ActInv, ActTypes, AboutProducts, Versions, Actor!ReservedIsThere,
     Actor!FreeWhenTaken

\* A product is created, with a row that has nothing reserved.
LEMMA CreateKeepsActor ==
  ASSUME ShopAssumption(Acting), ActInv, NEW a \in Acting.admins, NEW p \in Acting.products,
         NEW v \in Variants, Actor!CreateCommits(a, p, v)
  PROVE  ActInv' /\ Actor!FreeWhenTaken
<1>0. ActTypes /\ AboutProducts /\ Actor!ReservedIsThere /\ ~surprised BY DEF ActInv
<1>1. PICK c \in Costs : product' = [product EXCEPT ![p] = Actor!NewProduct(c)]
  BY DEF Actor!CreateCommits
<1>2. PICK row : row = Actor!NewVariant(p, save[a].sku, save[a].total) OBVIOUS
<1>3. /\ variant' = [variant EXCEPT ![v] = row] /\ save' = [save EXCEPT ![a] = Actor!NoSave]
      /\ unlinked' = unlinked \ {a} /\ UNCHANGED <<form, action, looked, surprised>>
  BY <1>2 DEF Actor!CreateCommits, Actor!history
<1>4. save[a].sku \in Codes /\ save[a].total \in Nat BY <1>0 DEF ActTypes, FormSaves
<1>5. row \in VariantRows /\ row.stockReserved = 0 /\ row.isActive
  BY <1>2, <1>4, NewRowsAreFree
<1>6. Actor!NewProduct(c) \in ProductRows /\ Actor!NewProduct(c).version = 1
  BY DEF Actor!NewProduct, ProductRows
<1>7. product' \in [Acting.products -> ProductRows] /\ Versions'
  BY <1>0, <1>1, <1>6 DEF ActTypes, Versions, ShopAssumption
<1>8. /\ variant' \in [Variants -> VariantRows] /\ variant'[v] = row
      /\ \A w \in Variants \ {v} : variant'[w] = variant[w]
  BY <1>0, <1>3, <1>5 DEF ActTypes
<1>9. Actor!ReservedIsThere' BY <1>0, <1>5, <1>8 DEF Actor!ReservedIsThere, VariantRows
<1>10. Actor!FreeWhenTaken BY <1>5, <1>8 DEF Actor!FreeWhenTaken
<1>11. save' \in [Acting.admins -> FormSaves] /\ save'[a] = Actor!NoSave
       /\ \A b \in Acting.admins \ {a} : save'[b] = save[b]
  BY <1>0, <1>3, NothingIsTyped DEF ActTypes
<1>12. AboutProducts' BY <1>0, <1>3, <1>11, NothingIsTyped DEF AboutProducts
<1> QED BY <1>0, <1>3, <1>7, <1>8, <1>9, <1>10, <1>11, <1>12 DEF ActInv, ActTypes

\* The counting of Products is that of FiniteSets.
LEMMA SameActorCardinality == \A S : Actor!Cardinality(S) = Cardinality(S)
BY Zenon DEF Actor!Cardinality, Cardinality

\* A list that is accepted: totals change only from what the form showed and to
\* no less than is reserved, and what goes off the list has nothing reserved.
LEMMA SyncKeepsStock ==
  ASSUME ShopAssumption(Acting), ActInv, NEW a \in Acting.admins, NEW p \in Acting.products,
         NEW list \in Actor!Lists(p), Actor!Accepted(a, p, list),
         NEW new \in SUBSET Variants, Actor!Cardinality(new) = Actor!Cardinality(Actor!Added(p, list)),
         \A v \in new : variant[v].product = Nothing,
         NEW v \in Variants, NEW row, row = Actor!SyncedRow(a, p, list, new, v)
  PROVE  /\ row \in VariantRows /\ row.stockReserved <= row.stockTotal
         /\ variant[v].isActive /\ ~row.isActive => variant[v].stockReserved = 0
         /\ v \in Actor!Of(p) /\ row.stockTotal # variant[v].stockTotal =>
              form[a].shown[v] = variant[v].stockTotal
<1>0. variant[v] \in VariantRows /\ variant[v].stockReserved <= variant[v].stockTotal
  BY DEF ActInv, ActTypes, Actor!ReservedIsThere
<1>1. /\ \A w \in Actor!Typed(a, list) :
           /\ variant[w].stockTotal = form[a].shown[w]
           /\ list.kept[w].total >= variant[w].stockReserved
      /\ \A w \in Actor!Removed(p, list) : variant[w].stockReserved = 0
  BY DEF Actor!Accepted, Actor!TotalsAccepted, Actor!RemovalAccepted
<1>2. \A w \in DOMAIN list.kept : list.kept[w].sku \in Codes /\ list.kept[w].total \in Nat
  <2>1. list.kept \in UNION { [S -> Actor!Row] : S \in SUBSET Actor!Of(p) } BY DEF Actor!Lists
  <2>2. PICK S \in SUBSET Actor!Of(p) : list.kept \in [S -> Actor!Row] BY <2>1
  <2>3. \A w \in S : list.kept[w] \in [sku : Codes, total : Acting.totals] BY <2>2 DEF Actor!Row
  <2> QED BY <2>2, <2>3 DEF ShopAssumption
<1>3. ASSUME v \in new
      PROVE  \E f : f = (CHOOSE g \in Actor!Added(p, list) : TRUE) /\ f.sku \in Codes /\ f.total \in Nat
  <2>1. Actor!Added(p, list) # {}
    <3>1. SUFFICES ASSUME Actor!Added(p, list) = {} PROVE FALSE OBVIOUS
    <3>2. Cardinality(new) = 0 BY <3>1, SameActorCardinality, FS_EmptySet
    <3>3. IsFiniteSet(new) BY FS_Subset DEF ShopAssumption
    <3> QED BY <1>3, <3>2, <3>3, FS_EmptySet
  <2>2. Actor!Added(p, list) \subseteq [sku : Codes, total : Acting.totals]
    <3>1. list.fresh \in SUBSET Actor!Row BY DEF Actor!Lists
    <3> QED BY <3>1 DEF Actor!Added, Actor!Row
  <2>3. PICK f : f = CHOOSE g \in Actor!Added(p, list) : TRUE OBVIOUS
  <2>4. f \in Actor!Added(p, list) BY <2>1, <2>3
  <2> QED BY <2>2, <2>3, <2>4 DEF ShopAssumption
<1>4. CASE v \in Actor!Removed(p, list)
  <2>1. row = [variant[v] EXCEPT !.isActive = FALSE] BY <1>4 DEF Actor!SyncedRow
  <2> QED BY <1>0, <1>1, <1>4, <2>1 DEF VariantRows
<1>5. CASE v \notin Actor!Removed(p, list) /\ v \in Actor!Typed(a, list)
  <2>1. row = [variant[v] EXCEPT !.isActive = TRUE, !.sku = list.kept[v].sku,
                                 !.stockTotal = list.kept[v].total]
    BY <1>5 DEF Actor!SyncedRow
  <2>2. v \in DOMAIN list.kept BY <1>5 DEF Actor!Typed
  <2>3. list.kept[v].sku \in Codes /\ list.kept[v].total \in Nat BY <1>2, <2>2
  <2> QED BY <1>0, <1>1, <1>5, <2>1, <2>3 DEF VariantRows
<1>6. CASE v \notin Actor!Removed(p, list) /\ v \notin Actor!Typed(a, list) /\ v \in DOMAIN list.kept
  <2>1. row = [variant[v] EXCEPT !.isActive = TRUE, !.sku = list.kept[v].sku]
    BY <1>6 DEF Actor!SyncedRow
  <2> QED BY <1>0, <1>2, <1>6, <2>1 DEF VariantRows
<1>7. CASE v \notin Actor!Removed(p, list) /\ v \notin DOMAIN list.kept /\ v \in new
  <2>1. PICK f : f = (CHOOSE g \in Actor!Added(p, list) : TRUE) /\ f.sku \in Codes /\ f.total \in Nat
    BY <1>3, <1>7
  <2>2. v \notin Actor!Typed(a, list) BY <1>7 DEF Actor!Typed
  <2>3. row = Actor!NewVariant(p, f.sku, f.total) BY <1>7, <2>1, <2>2 DEF Actor!SyncedRow
  <2>4. row \in VariantRows /\ row.stockReserved = 0 /\ row.isActive
    BY <2>1, <2>3, NewRowsAreFree
  <2>5. v \notin Actor!Of(p) BY <1>7 DEF Actor!Of, ShopAssumption
  <2> QED BY <2>4, <2>5 DEF VariantRows
<1>8. CASE v \notin Actor!Removed(p, list) /\ v \notin DOMAIN list.kept /\ v \notin new
  <2>1. v \notin Actor!Typed(a, list) BY <1>8 DEF Actor!Typed
  <2>2. row = variant[v] BY <1>8, <2>1 DEF Actor!SyncedRow
  <2> QED BY <1>0, <2>2
<1> QED BY <1>4, <1>5, <1>6, <1>7, <1>8

\* A save of a form, with the list of its variants.
LEMMA UpdateKeepsActor ==
  ASSUME ShopAssumption(Acting), ActInv, NEW a \in Acting.admins, save[a].phase = "found",
         NEW list \in Actor!Lists(save[a].of), NEW price \in Costs, NEW published \in Acting.published,
         Actor!UpdateCommits(a, price, published, list)
  PROVE  ActInv' /\ Actor!FreeWhenTaken
<1>0. ActTypes /\ AboutProducts /\ Actor!ReservedIsThere /\ ~surprised BY DEF ActInv
<1>1. PICK p \in Acting.products : p = save[a].of BY <1>0 DEF AboutProducts
<1>2. PICK new \in SUBSET Variants :
        /\ Actor!Cardinality(new) = Actor!Cardinality(Actor!Added(p, list))
        /\ \A v \in new : variant[v].product = Nothing
        /\ variant' = Actor!Synced(a, p, list, new)
  BY <1>1 DEF Actor!UpdateCommits
<1>3. /\ Actor!Accepted(a, p, list) /\ product'[p].version <= Acting.maxVersion
      /\ save' = [save EXCEPT ![a] = Actor!NoSave] /\ form' = [form EXCEPT ![a] = Actor!Closed]
      /\ surprised' = (surprised \/ \E v \in Actor!Of(p) :
                         /\ variant'[v].stockTotal # variant[v].stockTotal
                         /\ form[a].shown[v] # variant[v].stockTotal)
      /\ UNCHANGED <<action, looked, unlinked>>
  BY <1>1 DEF Actor!UpdateCommits, Actor!ResetForm
<1>4. \A v \in Variants :
        /\ variant'[v] \in VariantRows /\ variant'[v].stockReserved <= variant'[v].stockTotal
        /\ variant[v].isActive /\ ~variant'[v].isActive => variant[v].stockReserved = 0
        /\ v \in Actor!Of(p) /\ variant'[v].stockTotal # variant[v].stockTotal =>
             form[a].shown[v] = variant[v].stockTotal
  <2> TAKE v \in Variants
  <2>1. PICK row : row = Actor!SyncedRow(a, p, list, new, v) OBVIOUS
  <2>2. list \in Actor!Lists(p) BY <1>1
  <2>3. /\ row \in VariantRows /\ row.stockReserved <= row.stockTotal
        /\ variant[v].isActive /\ ~row.isActive => variant[v].stockReserved = 0
        /\ v \in Actor!Of(p) /\ row.stockTotal # variant[v].stockTotal =>
             form[a].shown[v] = variant[v].stockTotal
    BY <1>2, <1>3, <2>1, <2>2, SyncKeepsStock
  <2>4. variant'[v] = row BY <1>2, <2>1 DEF Actor!Synced
  <2> QED BY <2>3, <2>4
<1>5. variant' \in [Variants -> VariantRows]
  <2>1. variant' = [v \in Variants |-> variant'[v]] BY <1>2 DEF Actor!Synced
  <2> QED BY <2>1, <1>4
<1>6. Actor!ReservedIsThere' /\ Actor!FreeWhenTaken
  BY <1>4 DEF Actor!ReservedIsThere, Actor!FreeWhenTaken
<1>7. ~surprised' BY <1>0, <1>3, <1>4 DEF Actor!Of
<1>8. product' \in [Acting.products -> ProductRows] /\ Versions'
  <2>1. product[p] \in ProductRows /\ product[p].version >= 1
    BY <1>0 DEF ActTypes, Versions
  <2>2. published \in BOOLEAN BY DEF ShopAssumption
  <2>3. PICK written : written = [product[p] EXCEPT !.price = price, !.isPublished = published]
    OBVIOUS
  <2>4. written \in ProductRows /\ written.version = product[p].version
    BY <2>1, <2>2, <2>3 DEF ProductRows
  <2>5. PICK row :
          row = [written EXCEPT !.version = @ + (IF written # product[p] THEN 2 ELSE 1)]
    OBVIOUS
  <2>6. PICK n \in {1, 2} : row = [written EXCEPT !.version = written.version + n] BY <2>5
  <2>7. row \in ProductRows /\ row.version = written.version + n
    BY <2>4, <2>6 DEF ProductRows
  <2>8. product' = [product EXCEPT ![p] = row]
    BY <1>1, <2>3, <2>5, Zenon DEF Actor!UpdateCommits
  <2>9. /\ product' \in [Acting.products -> ProductRows] /\ product'[p] = row
        /\ \A q \in Acting.products \ {p} : product'[q] = product[q]
    BY <1>0, <2>7, <2>8 DEF ActTypes
  <2>10. row.version \in 1..Acting.maxVersion
    BY <1>3, <2>1, <2>4, <2>7, <2>9 DEF ProductRows, ShopAssumption
  <2> QED BY <1>0, <2>9, <2>10 DEF ActTypes, Versions
<1>9. /\ save' \in [Acting.admins -> FormSaves] /\ save'[a] = Actor!NoSave
      /\ \A b \in Acting.admins \ {a} : save'[b] = save[b]
      /\ DOMAIN form' = Acting.admins /\ form'[a] = Actor!Closed
      /\ \A b \in Acting.admins \ {a} : form'[b] = form[b]
  BY <1>0, <1>3, NothingIsTyped DEF ActTypes
<1>10. AboutProducts' BY <1>0, <1>3, <1>9, NothingIsTyped DEF AboutProducts
<1> QED BY <1>0, <1>3, <1>5, <1>6, <1>7, <1>8, <1>9, <1>10 DEF ActInv, ActTypes

\* An action of the page reads a product.
LEMMA ActionFindsKeepsActor ==
  ASSUME ActInv, NEW a \in Acting.admins, NEW type \in Acting.actions,
         NEW p \in Acting.products, Actor!ActionFinds(a, type, p)
  PROVE  ActInv' /\ Actor!FreeWhenTaken
<1>0. ActTypes /\ AboutProducts /\ Actor!ReservedIsThere /\ ~surprised BY DEF ActInv
<1>1. PICK found : found = [type |-> type, of |-> p, read |-> product[p]] OBVIOUS
<1>2. /\ action' = [action EXCEPT ![a] = found]
      /\ UNCHANGED <<product, variant, form, save, looked, unlinked, surprised>>
  BY <1>1 DEF Actor!ActionFinds, Actor!history
<1>3. found \in Actions(Acting) BY <1>0, <1>1 DEF Actions, ActTypes
<1>4. /\ action' \in [Acting.admins -> Actions(Acting)] /\ action'[a] = found
      /\ \A b \in Acting.admins \ {a} : action'[b] = action[b]
  BY <1>0, <1>2, <1>3 DEF ActTypes
<1>5. AboutProducts' BY <1>0, <1>1, <1>2, <1>4 DEF AboutProducts
<1>6. Actor!FreeWhenTaken BY <1>2 DEF Actor!FreeWhenTaken
<1> QED BY <1>0, <1>2, <1>4, <1>5, <1>6 DEF ActInv, ActTypes, Versions, Actor!ReservedIsThere

\* It writes the product back, and none of its variants.
LEMMA ActionSavesKeepsActor ==
  ASSUME ShopAssumption(Acting), ActInv, NEW a \in Acting.admins, Actor!ActionSaves(a)
  PROVE  ActInv' /\ Actor!FreeWhenTaken
<1>0. ActTypes /\ AboutProducts /\ Actor!ReservedIsThere /\ ~surprised BY DEF ActInv
<1>1. PICK p : p = action[a].of OBVIOUS
<1>2. PICK row : row = Actor!Written(product[p], Actor!Changed(action[a].type, action[a].read)) OBVIOUS
<1>3. /\ action[a] # Actor!NoAction /\ product[p].version < Acting.maxVersion
      /\ product' = [product EXCEPT ![p] = row] /\ action' = [action EXCEPT ![a] = Actor!NoAction]
      /\ UNCHANGED <<variant, form, save, looked, unlinked, surprised>>
  BY <1>1, <1>2 DEF Actor!ActionSaves, Actor!history
<1>4. p \in Acting.products BY <1>0, <1>1, <1>3 DEF AboutProducts
<1>5. /\ product[p] \in ProductRows /\ action[a].read \in ProductRows
      /\ product[p].version \in 1..Acting.maxVersion
  BY <1>0, <1>4 DEF ActTypes, Actions, Versions
<1>6. PICK entity : entity = Actor!Changed(action[a].type, action[a].read) OBVIOUS
<1>7. entity \in ProductRows BY <1>5, <1>6 DEF Actor!Changed, ProductRows
<1>8. row \in ProductRows /\ row.version \in 1..Acting.maxVersion
  <2>1. PICK same : same = [entity EXCEPT !.version = product[p].version] OBVIOUS
  <2>2. same \in ProductRows /\ same.version = product[p].version
    BY <1>5, <1>7, <2>1 DEF ProductRows
  <2>3. row = IF same = product[p] THEN product[p]
              ELSE [same EXCEPT !.version = product[p].version + 1]
    BY <1>2, <1>6, <2>1 DEF Actor!Written
  <2> QED BY <1>3, <1>5, <2>2, <2>3 DEF ProductRows, ShopAssumption
<1>9. product' \in [Acting.products -> ProductRows] /\ Versions'
  BY <1>0, <1>3, <1>4, <1>8 DEF ActTypes, Versions
<1>10. /\ action' \in [Acting.admins -> Actions(Acting)] /\ action'[a] = Actor!NoAction
       /\ \A b \in Acting.admins \ {a} : action'[b] = action[b]
  BY <1>0, <1>3, NothingIsTyped DEF ActTypes
<1>11. AboutProducts' BY <1>0, <1>3, <1>10 DEF AboutProducts
<1>12. Actor!FreeWhenTaken BY <1>3 DEF Actor!FreeWhenTaken
<1> QED BY <1>0, <1>3, <1>9, <1>10, <1>11, <1>12 DEF ActInv, ActTypes, Actor!ReservedIsThere

\* Every step keeps ActInv, and takes off the list only what is free.
LEMMA NextKeepsActor ==
  ASSUME ShopAssumption(Acting), ActInv, [Actor!Next]_Actor!vars
  PROVE  ActInv' /\ Actor!FreeWhenTaken
<1>1. CASE \E v \in Variants : Actor!Look(v) \/ Actor!Reserve(v) \/ Actor!Release(v) \/ Actor!Sell(v)
  BY <1>1, CustomersKeepActor
<1>2. CASE \E a \in Acting.admins : Actor!Saves(a)
  <2>1. PICK a \in Acting.admins : Actor!Saves(a) BY <1>2
  <2>2. CASE \E p \in Acting.products, v \in Variants : Actor!CreateCommits(a, p, v)
    BY <2>2, CreateKeepsActor
  <2>3. CASE \/ \E p \in Acting.products : Actor!StartEdit(a, p)
             \/ \E sku \in Codes, total \in Acting.totals : Actor!CreateUploads(a, sku, total)
             \/ Actor!CreateFails(a)
             \/ Actor!UpdateFinds(a)
             \/ \E list \in Actor!Lists(save[a].of) : Actor!UpdateFails(a, list)
    BY <2>3, FormsKeepActor
  <2>4. CASE /\ save[a].phase = "found"
             /\ \E list \in Actor!Lists(save[a].of), c \in Costs, b \in Acting.published :
                  Actor!UpdateCommits(a, c, b, list)
    BY <2>4, UpdateKeepsActor
  <2> QED BY <2>1, <2>2, <2>3, <2>4 DEF Actor!Saves
<1>3. CASE \E a \in Acting.admins :
             \/ \E type \in Acting.actions, p \in Acting.products : Actor!ActionFinds(a, type, p)
             \/ Actor!ActionSaves(a)
  BY <1>3, ActionFindsKeepsActor, ActionSavesKeepsActor
<1>4. CASE UNCHANGED Actor!vars
  <2>1. UNCHANGED <<product, variant, form, save, action, looked, unlinked, surprised>>
    BY <1>4, Zenon DEF Actor!vars, Actor!requests, Actor!history
  <2> QED
    BY <2>1 DEF ActInv, ActTypes, AboutProducts, Versions, Actor!ReservedIsThere,
       Actor!FreeWhenTaken
<1> QED BY <1>1, <1>2, <1>3, <1>4 DEF Actor!Next

\* Every reachable shop of who does everything is as ActInv says.
LEMMA PartKeepsActor ==
  ASSUME ShopAssumption(Acting)
  PROVE  MCSpec => [](part = "actor" => ActInv)
<1>1. MCInit => (part = "actor" => ActInv)
  BY ActStarts DEF MCInit
<1>2. ASSUME part = "actor" => ActInv,
             [MCNext]_<<part, productVars, treeVars, listVars>>
      PROVE  (part = "actor" => ActInv)'
  <2>1. CASE UNCHANGED <<part, productVars, treeVars, listVars>>
    <3>1. UNCHANGED <<part, Actor!vars>>
      BY <2>1, Zenon DEF productVars, Actor!vars, Actor!requests, Actor!history
    <3> QED BY <3>1, <1>2, NextKeepsActor
  <2>2. CASE ProductsNext
    <3>1. part = "actor" => Actor!Next BY <2>2 DEF ProductsNext
    <3>2. part' = part BY <2>2 DEF ProductsNext
    <3> QED BY <3>1, <3>2, <1>2, NextKeepsActor
  <2>3. CASE TreeNext \/ ListNext
    BY <2>3 DEF TreeNext, ListNext
  <2> QED BY <1>2, <2>1, <2>2, <2>3 DEF MCNext
<1> QED BY <1>1, <1>2, PTL DEF MCSpec


-----------------------------------------------------------------------------
(* The files of a create.                                                  *)

\* Files without an image are those of a create that goes on.
FilesInv ==
  /\ DOMAIN save = Creating.admins
  /\ \A a \in unlinked : a \in Creating.admins /\ save[a].phase = "uploaded"

\* At the start no files wait.
LEMMA FilesStart == Creators!Init => FilesInv
BY DEF Creators!Init, FilesInv

\* Files are left while a create goes on, and by nobody else.
LEMMA NextKeepsFiles ==
  ASSUME FilesInv, [Creators!Next]_Creators!vars
  PROVE  FilesInv'
<1>0. Creators!NoSave.phase = "idle" BY DEF Creators!NoSave
<1>1. CASE UNCHANGED <<save, unlinked>>
  BY <1>1 DEF FilesInv
<1>2. ASSUME NEW a \in Creating.admins, NEW s, save' = [save EXCEPT ![a] = s],
             \/ unlinked' = unlinked \ {a}
             \/ unlinked' = unlinked /\ save[a].phase # "uploaded"
             \/ unlinked' = unlinked \cup {a} /\ s.phase = "uploaded"
      PROVE  FilesInv'
  BY <1>2 DEF FilesInv
<1>3. CASE \E a \in Creating.admins : Creators!Saves(a)
  <2>1. PICK a \in Creating.admins : Creators!Saves(a) BY <1>3
  <2>2. CASE \E p \in Creating.products : Creators!StartEdit(a, p)
    BY <1>1, <2>2 DEF Creators!StartEdit
  <2>3. CASE \E sku \in Codes, total \in Creating.totals : Creators!CreateUploads(a, sku, total)
    <3>1. PICK sku \in Codes, total \in Creating.totals : Creators!CreateUploads(a, sku, total)
      BY <2>3
    <3>2. PICK s : s = [phase |-> "uploaded", of |-> Nothing, sku |-> sku, total |-> total]
      OBVIOUS
    <3>3. save' = [save EXCEPT ![a] = s] /\ unlinked' = unlinked \cup {a} /\ s.phase = "uploaded"
      BY <3>1, <3>2 DEF Creators!CreateUploads
    <3> QED BY <1>2, <3>3
  <2>4. CASE Creators!CreateFails(a) \/ \E p \in Creating.products, v \in Variants : Creators!CreateCommits(a, p, v)
    <3>1. save' = [save EXCEPT ![a] = Creators!NoSave] /\ unlinked' = unlinked \ {a}
      BY <2>4 DEF Creators!CreateFails, Creators!CreateCommits, Creators!RemoveFiles
    <3> QED BY <1>2, <3>1
  <2>5. CASE Creators!UpdateFinds(a)
    <3>1. PICK s : save' = [save EXCEPT ![a] = s] BY <2>5 DEF Creators!UpdateFinds
    <3>2. save[a].phase # "uploaded" /\ unlinked' = unlinked
      BY <1>0, <2>5 DEF Creators!UpdateFinds
    <3> QED BY <1>2, <3>1, <3>2
  <2>6. CASE /\ save[a].phase = "found"
             /\ \E list \in Creators!Lists(save[a].of) :
                  \/ \E c \in Costs, b \in Creating.published : Creators!UpdateCommits(a, c, b, list)
                  \/ Creators!UpdateFails(a, list)
    <3>1. /\ save' = [save EXCEPT ![a] = Creators!NoSave] /\ save[a].phase # "uploaded"
          /\ unlinked' = unlinked
      BY <2>6 DEF Creators!UpdateCommits, Creators!UpdateFails
    <3> QED BY <1>2, <3>1
  <2> QED BY <2>1, <2>2, <2>3, <2>4, <2>5, <2>6 DEF Creators!Saves
<1>4. CASE \/ \E v \in Variants : Creators!Look(v) \/ Creators!Reserve(v) \/ Creators!Release(v) \/ Creators!Sell(v)
           \/ \E a \in Creating.admins :
                \/ \E type \in Creating.actions, p \in Creating.products : Creators!ActionFinds(a, type, p)
                \/ Creators!ActionSaves(a)
           \/ UNCHANGED Creators!vars
  BY <1>1, <1>4 DEF Creators!Look, Creators!Reserve, Creators!Release, Creators!Sell,
     Creators!ActionFinds, Creators!ActionSaves, Creators!vars,
     Creators!requests
<1> QED BY <1>3, <1>4 DEF Creators!Next

\* Every reachable shop of those who create is as FilesInv says.
LEMMA PartKeepsFiles ==
  MCSpec => [](part = "creators" => FilesInv)
<1>1. MCInit => (part = "creators" => FilesInv)
  BY FilesStart DEF MCInit
<1>2. ASSUME part = "creators" => FilesInv,
             [MCNext]_<<part, productVars, treeVars, listVars>>
      PROVE  (part = "creators" => FilesInv)'
  <2>1. CASE UNCHANGED <<part, productVars, treeVars, listVars>>
    <3>1. UNCHANGED <<part, Creators!vars>>
      BY <2>1, Zenon DEF productVars, Creators!vars, Creators!requests, Creators!history
    <3> QED BY <3>1, <1>2, NextKeepsFiles
  <2>2. CASE ProductsNext
    <3>1. part = "creators" => Creators!Next BY <2>2 DEF ProductsNext
    <3>2. part' = part BY <2>2 DEF ProductsNext
    <3> QED BY <3>1, <3>2, <1>2, NextKeepsFiles
  <2>3. CASE TreeNext \/ ListNext
    BY <2>3 DEF TreeNext, ListNext
  <2> QED BY <1>2, <2>1, <2>2, <2>3 DEF MCNext
<1> QED BY <1>1, <1>2, PTL DEF MCSpec

\* For any products, variants, lists, prices and administrators, each with every
\* action: a save is applied to the product that its form showed; a total changes
\* by hand only from the one that was shown and to no less than is reserved; and a
\* create that is refused leaves no file behind (products.service.ts:140-143,
\* 219-224, 266-277).
THEOREM EditsAlwaysKeepWhatHappened ==
  ASSUME ShopAssumption(Editing), ShopAssumption(Acting)
  PROVE  MCSpec => []EditsKeepWhatHappened
<1>1. EditInv => Editors!NoEditIsLost BY DEF EditInv, Editors!NoEditIsLost
<1>2. ActInv => Actor!TypeOK /\ Actor!SalesAreKept /\ Actor!ReservedIsThere
  BY DEF ActInv, ActTypes, Versions, VariantRows, ProductRows, FormSaves, Actor!TypeOK,
         Actor!SalesAreKept
<1>3. FilesInv => Creators!NoFileIsLeft BY DEF FilesInv, Creators!NoFileIsLeft
<1>4. /\ part = "editors" => EditInv
      /\ part = "actor" => ActInv
      /\ part = "creators" => FilesInv
      => EditsKeepWhatHappened
  BY <1>1, <1>2, <1>3 DEF EditsKeepWhatHappened
<1> QED BY <1>4, PartKeepsEdits, PartKeepsActor, PartKeepsFiles, PTL

\* However many customers reserve and administrators save: a variant is taken off
\* the list only while nothing of it is reserved (products.service.ts:339-346).
THEOREM AlwaysFreeWhenRemoved ==
  ASSUME ShopAssumption(Acting)
  PROVE  MCSpec => FreeWhenRemoved
<1>1. (part = "actor" => ActInv) /\ [MCNext]_<<part, productVars, treeVars, listVars>> =>
        [part = "actor" => Actor!FreeWhenTaken]_<<part, productVars, treeVars, listVars>>
  <2> SUFFICES ASSUME part = "actor" => ActInv, MCNext, part = "actor"
               PROVE  Actor!FreeWhenTaken
    OBVIOUS
  <2>1. Actor!Next BY DEF MCNext, ProductsNext, TreeNext, ListNext
  <2> QED BY <2>1, NextKeepsActor
<1> QED BY <1>1, PartKeepsActor, PTL DEF MCSpec, FreeWhenRemoved


-----------------------------------------------------------------------------
(* The tree of categories.                                                 *)

\* There are finitely many categories, each apart from "no parent"; a product is
\* given categories.
TreeAssumption ==
  /\ IsFiniteSet(Places) /\ Nothing \notin Places /\ Names # {}
  /\ \A chosen \in Choices : chosen \subseteq Places

Rows == [exists : BOOLEAN, isActive : BOOLEAN, parent : Places \cup {Nothing}, name : Names]
Asked ==
  [type : {"none", "create", "update", "remove", "classify"}, of : Places \cup {Nothing},
   entity : Rows, chosen : SUBSET Places]

TreeTypes ==
  /\ category \in [Places -> Rows] /\ classified \in SUBSET Places
  /\ request \in [Clerks -> Asked] /\ overlapped \in BOOLEAN
  /\ \A a \in Clerks : request[a].type = "none" => request[a] = Tree!Idle

\* No row goes away: whatever is used, chosen or saved exists.
RowsStay ==
  /\ \A c \in classified : category[c].exists
  /\ \A c \in Places : Tree!Active(c) => category[c].exists
  /\ \A a \in Clerks :
       /\ \A c \in request[a].chosen : category[c].exists
       /\ request[a].type \in {"create", "update", "remove"} => request[a].entity.exists
       /\ request[a].type \in {"update", "remove"} => request[a].of \in Places

\* Requests that do not overlap: one is under way.
OneAsks ==
  \A a, b \in Clerks : request[a] # Tree!Idle /\ request[b] # Tree!Idle => a = b

NoActiveChild(c) == \A d \in Places : category[d].parent = c => ~Tree!Active(d)

\* What the request of a read before it saves is still so.
ReadIsFresh(a) ==
  LET r == request[a]
  IN /\ r.type = "create" => Tree!ParentAccepted(r.entity.parent, Nothing)
     /\ r.type = "update" =>
          /\ Tree!Active(r.of) /\ r.entity.isActive
          /\ r.entity.parent # category[r.of].parent =>
               NoActiveChild(r.of) /\ Tree!ParentAccepted(r.entity.parent, r.of)
     /\ r.type = "remove" =>
          /\ Tree!Active(r.of) /\ NoActiveChild(r.of) /\ r.of \notin classified
          /\ r.entity = [category[r.of] EXCEPT !.isActive = FALSE]
     /\ r.type = "classify" => \A c \in r.chosen : Tree!Active(c)

TreeInv ==
  /\ TreeTypes /\ RowsStay /\ Tree!SiblingNamesDiffer /\ Tree!SequentialTree
  /\ ~overlapped => OneAsks /\ \A a \in Clerks : ReadIsFresh(a)

\* At the start there are no categories, and nobody asks.
LEMMA TreeStarts ==
  ASSUME TreeAssumption, Tree!Init
  PROVE  TreeInv
<1>1. Tree!NoRow \in Rows /\ ~Tree!NoRow.exists /\ ~Tree!NoRow.isActive
  BY DEF Tree!NoRow, Tree!Row, Tree!AnyName, Rows, TreeAssumption
<1>2. Tree!Idle \in Asked /\ Tree!Idle.type = "none" /\ Tree!Idle.chosen = {}
  BY <1>1 DEF Tree!Idle, Asked
<1>3. TreeTypes BY <1>1, <1>2 DEF Tree!Init, TreeTypes
<1>4. RowsStay BY <1>1, <1>2 DEF Tree!Init, RowsStay, Tree!Active
<1>5. Tree!SiblingNamesDiffer BY <1>1 DEF Tree!Init, Tree!SiblingNamesDiffer
<1>6. Tree!SequentialTree BY <1>1 DEF Tree!Init, Tree!SequentialTree, Tree!TwoLevels, Tree!Active
<1>7. OneAsks /\ \A a \in Clerks : ReadIsFresh(a)
  BY <1>2 DEF Tree!Init, OneAsks, ReadIsFresh
<1> QED BY <1>3, <1>4, <1>5, <1>6, <1>7 DEF TreeInv

\* The counting of Categories is that of FiniteSets.
LEMMA SameTreeCardinality == \A S : Tree!Cardinality(S) = Cardinality(S)
BY Zenon DEF Tree!Cardinality, Cardinality

\* countChildren is zero when no child is active.
LEMMA NoChildCounted ==
  ASSUME TreeAssumption, NEW c \in Places, Tree!CountChildren(c) = 0
  PROVE  NoActiveChild(c)
<1> DEFINE S == { d \in Tree!Children(c) : Tree!Active(d) }
<1>1. IsFiniteSet(S)
  <2>1. S \in SUBSET Places BY DEF Tree!Children
  <2>2. IsFiniteSet(Places) BY DEF TreeAssumption
  <2> HIDE DEF S
  <2> QED BY <2>1, <2>2, FS_Subset
<1>2. S = {}
  <2>1. Cardinality(S) = 0 BY SameTreeCardinality, Zenon DEF Tree!CountChildren
  <2> QED BY <1>1, <2>1, FS_EmptySet
<1> QED BY <1>2 DEF NoActiveChild, Tree!Children

\* A request starts: nothing is saved, and what it read is as it is.
LEMMA StartsKeepTree ==
  ASSUME TreeAssumption, TreeInv, NEW a \in Clerks,
         \/ \E n \in Names, p \in Places \cup {Nothing} :
              Tree!Create(a, p, n) \/ \E c \in Places : Tree!Update(a, c, p, n)
         \/ \E c \in Places : Tree!Remove(a, c)
         \/ \E chosen \in Choices : Tree!Classify(a, chosen)
  PROVE  TreeInv'
<1>0. TreeTypes /\ RowsStay /\ Tree!SiblingNamesDiffer /\ Tree!SequentialTree BY DEF TreeInv
<1>1. PICK type \in {"create", "update", "remove", "classify"}, of \in Places \cup {Nothing},
           entity \in Rows, chosen \in SUBSET Places :
        /\ Tree!Starts(a, type, of, entity, chosen)
        /\ \A c \in chosen : Tree!Active(c)
        /\ type \in {"create", "update", "remove"} => entity.exists
        /\ type \in {"update", "remove"} => of \in Places
        /\ type = "create" => Tree!ParentAccepted(entity.parent, Nothing)
        /\ type = "update" =>
             /\ Tree!Active(of) /\ entity.isActive
             /\ entity.parent # category[of].parent =>
                  NoActiveChild(of) /\ Tree!ParentAccepted(entity.parent, of)
        /\ type = "remove" =>
             /\ Tree!Active(of) /\ NoActiveChild(of) /\ of \notin classified
             /\ entity = [category[of] EXCEPT !.isActive = FALSE]
  <2>1. CASE \E n \in Names, p \in Places \cup {Nothing} : Tree!Create(a, p, n)
    <3>1. PICK n \in Names, p \in Places \cup {Nothing} : Tree!Create(a, p, n) BY <2>1
    <3>2. Tree!Row(p, n) \in Rows /\ Tree!Row(p, n).exists /\ Tree!Row(p, n).parent = p
      BY DEF Tree!Row, Rows
    <3> QED BY <3>1, <3>2 DEF Tree!Create
  <2>2. CASE \E n \in Names, p \in Places \cup {Nothing}, c \in Places : Tree!Update(a, c, p, n)
    <3>1. PICK n \in Names, p \in Places \cup {Nothing}, c \in Places : Tree!Update(a, c, p, n)
      BY <2>2
    <3>2. PICK parent \in Places \cup {Nothing} :
            parent = IF p = Nothing THEN category[c].parent ELSE p
      BY <1>0 DEF TreeTypes, Rows
    <3>3. PICK row \in Rows : row = [category[c] EXCEPT !.parent = parent, !.name = n]
      BY <1>0 DEF TreeTypes, Rows
    <3>4. /\ row.parent = parent /\ row.exists = category[c].exists
          /\ row.isActive = category[c].isActive
      BY <1>0, <3>3 DEF TreeTypes, Rows
    <3>5. /\ Tree!Active(c) /\ Tree!Starts(a, "update", c, row, {})
          /\ parent # category[c].parent =>
               Tree!CountChildren(c) = 0 /\ Tree!ParentAccepted(parent, c)
      BY <3>1, <3>2, <3>3 DEF Tree!Update
    <3>6. row.exists /\ row.isActive BY <3>4, <3>5, <1>0 DEF RowsStay, Tree!Active
    <3> QED BY <3>4, <3>5, <3>6, NoChildCounted
  <2>3. CASE \E c \in Places : Tree!Remove(a, c)
    <3>1. PICK c \in Places : Tree!Remove(a, c) BY <2>3
    <3>2. PICK row \in Rows : row = [category[c] EXCEPT !.isActive = FALSE]
      BY <1>0 DEF TreeTypes, Rows
    <3>3. row.exists = category[c].exists BY <1>0, <3>2 DEF TreeTypes, Rows
    <3>4. /\ Tree!Active(c) /\ Tree!CountChildren(c) = 0 /\ c \notin classified
          /\ Tree!Starts(a, "remove", c, row, {})
      BY <3>1, <3>2 DEF Tree!Remove
    <3>5. /\ Tree!Starts(a, "remove", c, row, {})
          /\ row.exists /\ Tree!Active(c) /\ NoActiveChild(c) /\ c \notin classified
      BY <3>3, <3>4, <1>0, NoChildCounted DEF RowsStay
    <3> WITNESS "remove" \in {"create", "update", "remove", "classify"}, c \in Places \cup {Nothing},
                row \in Rows, {} \in SUBSET Places
    <3> QED BY <3>2, <3>5
  <2>4. CASE \E chosen \in Choices : Tree!Classify(a, chosen)
    <3>1. PICK chosen \in Choices : Tree!Classify(a, chosen) BY <2>4
    <3>2. chosen \in SUBSET Places BY DEF TreeAssumption
    <3>3. Tree!NoRow \in Rows BY DEF Tree!NoRow, Tree!Row, Tree!AnyName, Rows, TreeAssumption
    <3> QED BY <3>1, <3>2, <3>3 DEF Tree!Classify
  <2> QED BY <2>1, <2>2, <2>3, <2>4
<1>2. /\ request[a] = Tree!Idle /\ UNCHANGED <<category, classified>>
      /\ request' = [request EXCEPT ![a] =
                       [type |-> type, of |-> of, entity |-> entity, chosen |-> chosen]]
      /\ overlapped' = (overlapped \/ \E b \in Clerks : request[b] # Tree!Idle)
  BY <1>1 DEF Tree!Starts
<1>3. /\ request'[a] = [type |-> type, of |-> of, entity |-> entity, chosen |-> chosen]
      /\ request'[a] \in Asked
      /\ \A b \in Clerks \ {a} : request'[b] = request[b]
      /\ request' \in [Clerks -> Asked] /\ overlapped' \in BOOLEAN
  BY <1>0, <1>1, <1>2 DEF TreeTypes, Asked
<1>4. TreeTypes' BY <1>0, <1>1, <1>2, <1>3 DEF TreeTypes
<1>5. RowsStay' BY <1>0, <1>1, <1>2, <1>3 DEF RowsStay, Tree!Active
<1>6. Tree!SiblingNamesDiffer' BY <1>0, <1>2 DEF Tree!SiblingNamesDiffer, Tree!Siblings
<1>7. Tree!SequentialTree' BY <1>0, <1>2 DEF Tree!SequentialTree, Tree!TwoLevels, Tree!Active
<1>8. ASSUME ~overlapped' PROVE OneAsks' /\ \A b \in Clerks : ReadIsFresh(b)'
  <2>1. \A b \in Clerks : request[b] = Tree!Idle BY <1>2, <1>8
  <2>2. Tree!Idle.type = "none" BY DEF Tree!Idle
  <2>3. OneAsks' BY <2>1, <1>3 DEF OneAsks
  <2>4. \A b \in Clerks \ {a} : ReadIsFresh(b)' BY <2>1, <2>2, <1>3 DEF ReadIsFresh
  <2>5. ReadIsFresh(a)'
    BY <1>1, <1>2, <1>3 DEF ReadIsFresh, NoActiveChild, Tree!ParentAccepted, Tree!Active
  <2> QED BY <2>3, <2>4, <2>5
<1> QED BY <1>4, <1>5, <1>6, <1>7, <1>8 DEF TreeInv

\* A request is over: nobody is left when it was the only one.
LEMMA OverKeepsTree ==
  ASSUME TreeAssumption, TreeInv, NEW a \in Clerks, request[a].type # "none",
         request' = [request EXCEPT ![a] = Tree!Idle], overlapped' = overlapped
  PROVE  /\ request' \in [Clerks -> Asked] /\ request'[a] = Tree!Idle
         /\ \A b \in Clerks \ {a} : request'[b] = request[b]
         /\ ~overlapped' => \A b \in Clerks : request'[b] = Tree!Idle
<1>1. Tree!Idle \in Asked /\ Tree!Idle.type = "none"
  BY DEF Tree!Idle, Asked, Tree!NoRow, Tree!Row, Tree!AnyName, Rows, TreeAssumption
<1>2. request' \in [Clerks -> Asked] /\ request'[a] = Tree!Idle
      /\ \A b \in Clerks \ {a} : request'[b] = request[b]
  BY <1>1 DEF TreeInv, TreeTypes
<1> QED BY <1>1, <1>2 DEF TreeInv, OneAsks

\* Nobody asks: there is nothing that could be stale.
LEMMA NobodyAsks ==
  ASSUME \A b \in Clerks : request'[b] = Tree!Idle
  PROVE  OneAsks' /\ \A b \in Clerks : ReadIsFresh(b)'
<1>1. Tree!Idle.type = "none" BY DEF Tree!Idle
<1> QED BY <1>1 DEF OneAsks, ReadIsFresh

\* A row is saved.
LEMMA SaveKeepsTree ==
  ASSUME TreeAssumption, TreeInv, NEW a \in Clerks, NEW c \in Places, Tree!Save(a, c)
  PROVE  TreeInv'
<1>0. TreeTypes /\ RowsStay /\ Tree!SiblingNamesDiffer /\ Tree!SequentialTree BY DEF TreeInv
<1>1. /\ request[a].type \in { "create", "update", "remove" }
      /\ request[a].type = "create" => ~category[c].exists
      /\ request[a].type # "create" => c = request[a].of
      /\ Tree!NameFree(request[a].entity, c)
      /\ category' = [category EXCEPT ![c] = request[a].entity]
      /\ request' = [request EXCEPT ![a] = Tree!Idle]
      /\ classified' = classified /\ overlapped' = overlapped
  BY DEF Tree!Save, Tree!UniqueName
<1>2. PICK row \in Rows : row = request[a].entity /\ row.exists
  BY <1>0, <1>1 DEF TreeTypes, RowsStay, Asked
<1>3. /\ category' \in [Places -> Rows] /\ category'[c] = row
      /\ \A d \in Places \ {c} : category'[d] = category[d]
  BY <1>0, <1>1, <1>2 DEF TreeTypes
<1>4. /\ request' \in [Clerks -> Asked] /\ request'[a] = Tree!Idle
      /\ \A b \in Clerks \ {a} : request'[b] = request[b]
      /\ ~overlapped' => \A b \in Clerks : request'[b] = Tree!Idle
  BY <1>1, OverKeepsTree
<1>5. Tree!Idle.type = "none" /\ Tree!Idle.chosen = {} BY DEF Tree!Idle
<1>6. TreeTypes' BY <1>0, <1>1, <1>3, <1>4, <1>5 DEF TreeTypes
<1>7. RowsStay'
  <2>1. \A d \in Places : category[d].exists => category'[d].exists BY <1>2, <1>3
  <2>2. \A d \in Places : Tree!Active(d)' => category'[d].exists
    BY <1>0, <1>2, <1>3 DEF RowsStay, Tree!Active
  <2>3. \A b \in Clerks :
          /\ \A d \in request'[b].chosen : category'[d].exists
          /\ request'[b].type \in {"create", "update", "remove"} => request'[b].entity.exists
          /\ request'[b].type \in {"update", "remove"} => request'[b].of \in Places
    BY <1>0, <1>4, <1>5, <2>1 DEF RowsStay, TreeTypes, Asked
  <2> QED BY <1>0, <1>1, <2>1, <2>2, <2>3 DEF RowsStay, TreeTypes
<1>8. Tree!SiblingNamesDiffer'
  <2>1. \A d \in Places \ {c} :
          category[d].exists /\ category[d].parent = row.parent => category[d].name # row.name
    BY <1>1, <1>2 DEF Tree!NameFree, Tree!Siblings
  <2> SUFFICES ASSUME NEW e \in Places, NEW d \in Places \ {e},
                      category'[e].exists, category'[d].exists,
                      category'[d].parent = category'[e].parent
               PROVE  category'[d].name # category'[e].name
    BY DEF Tree!SiblingNamesDiffer, Tree!Siblings
  <2>2. CASE e # c /\ d # c
    BY <2>2, <1>0, <1>3 DEF Tree!SiblingNamesDiffer, Tree!Siblings
  <2>3. CASE e = c \/ d = c
    BY <2>1, <2>3, <1>3
  <2> QED BY <2>2, <2>3
<1>9. ASSUME ~overlapped PROVE Tree!SequentialTree'
  <2>1. /\ \A d \in Places : Tree!Active(d) /\ category[d].parent # Nothing =>
             Tree!Active(category[d].parent) /\ category[category[d].parent].parent = Nothing
        /\ \A d \in classified : Tree!Active(d)
    BY <1>0, <1>9 DEF Tree!SequentialTree, Tree!TwoLevels
  <2>2. ReadIsFresh(a) BY <1>9 DEF TreeInv
  <2>3. \A d \in Places : category[d].parent \in Places \cup {Nothing}
    BY <1>0 DEF TreeTypes, Rows
  <2>4. \A d \in Places : Tree!Active(d) => category[d].exists BY <1>0 DEF RowsStay
  <2>5. CASE request[a].type = "create"
    <3>1. \A d \in Places : Tree!Active(d) => category[d].parent # c
      BY <2>1, <2>4, <2>5, <1>1 DEF TreeAssumption
    <3>2. row.parent # Nothing =>
            /\ row.parent \in Places \ {c} /\ Tree!Active(row.parent)
            /\ category[row.parent].parent = Nothing
      BY <2>2, <2>4, <2>5, <1>1, <1>2 DEF ReadIsFresh, Tree!ParentAccepted, Rows
    <3>3. ~Tree!Active(c) BY <2>4, <2>5, <1>1
    <3> QED BY <2>1, <2>3, <3>1, <3>2, <3>3, <1>1, <1>3
            DEF Tree!SequentialTree, Tree!TwoLevels, Tree!Active
  <2>6. CASE request[a].type = "update"
    <3>1. Tree!Active(c) /\ row.isActive /\ (row.parent # category[c].parent =>
                           NoActiveChild(c) /\ Tree!ParentAccepted(row.parent, c))
      BY <2>2, <2>6, <1>1, <1>2 DEF ReadIsFresh
    <3>2. row.parent # Nothing =>
            /\ row.parent \in Places \ {c} /\ Tree!Active(row.parent)
            /\ category[row.parent].parent = Nothing
      <4>1. CASE row.parent = category[c].parent
        BY <4>1, <3>1, <2>1, <2>3 DEF TreeAssumption
      <4>2. CASE row.parent # category[c].parent
        BY <4>2, <3>1 DEF Tree!ParentAccepted, Rows
      <4> QED BY <4>1, <4>2
    <3>3. \A d \in Places \ {c} : Tree!Active(d) /\ category[d].parent = c => row.parent = Nothing
      BY <3>1, <2>1 DEF NoActiveChild, TreeAssumption
    <3> QED BY <2>1, <2>3, <3>1, <3>2, <3>3, <1>1, <1>3
            DEF Tree!SequentialTree, Tree!TwoLevels, Tree!Active, TreeAssumption
  <2>7. CASE request[a].type = "remove"
    <3>1. NoActiveChild(c) /\ c \notin classified /\ row = [category[c] EXCEPT !.isActive = FALSE]
      BY <2>2, <2>7, <1>1, <1>2 DEF ReadIsFresh
    <3>2. ~row.isActive /\ row.parent = category[c].parent
      BY <3>1, <1>0 DEF TreeTypes, Rows
    <3>3. \A d \in Places : Tree!Active(d)' => d # c /\ Tree!Active(d) /\ category'[d] = category[d]
      BY <3>2, <1>3 DEF Tree!Active
    <3>4. \A d \in Places \ {c} : Tree!Active(d) => category[d].parent # c
      BY <3>1 DEF NoActiveChild
    <3>5. \A d \in Places : Tree!Active(d)' /\ category'[d].parent # Nothing =>
            Tree!Active(category[d].parent)' /\ category'[category[d].parent].parent = Nothing
      BY <2>1, <2>3, <3>3, <3>4, <1>3 DEF Tree!Active
    <3>6. \A d \in classified' : Tree!Active(d)'
      BY <2>1, <3>1, <1>0, <1>1, <1>3 DEF Tree!Active, TreeTypes
    <3> QED BY <3>3, <3>5, <3>6 DEF Tree!SequentialTree, Tree!TwoLevels
  <2> QED BY <1>1, <2>5, <2>6, <2>7
<1>10. Tree!SequentialTree' BY <1>1, <1>9 DEF Tree!SequentialTree
<1> QED BY <1>1, <1>4, <1>6, <1>7, <1>8, <1>10, NobodyAsks DEF TreeInv

\* A save that the index refuses saves nothing.
LEMMA SaveFailsKeepsTree ==
  ASSUME TreeAssumption, TreeInv, NEW a \in Clerks, Tree!SaveFails(a)
  PROVE  TreeInv'
<1>0. TreeTypes /\ RowsStay /\ Tree!SiblingNamesDiffer /\ Tree!SequentialTree BY DEF TreeInv
<1>1. /\ request[a].type # "none" /\ request' = [request EXCEPT ![a] = Tree!Idle]
      /\ category' = category /\ classified' = classified /\ overlapped' = overlapped
  BY DEF Tree!SaveFails
<1>2. /\ request' \in [Clerks -> Asked] /\ request'[a] = Tree!Idle
      /\ \A b \in Clerks \ {a} : request'[b] = request[b]
      /\ ~overlapped' => \A b \in Clerks : request'[b] = Tree!Idle
  BY <1>1, OverKeepsTree
<1>3. Tree!Idle.type = "none" /\ Tree!Idle.chosen = {} BY DEF Tree!Idle
<1>4. TreeTypes' BY <1>0, <1>1, <1>2, <1>3 DEF TreeTypes
<1>5. RowsStay' BY <1>0, <1>1, <1>2, <1>3 DEF RowsStay, Tree!Active
<1>6. Tree!SiblingNamesDiffer' BY <1>0, <1>1 DEF Tree!SiblingNamesDiffer, Tree!Siblings
<1>7. Tree!SequentialTree' BY <1>0, <1>1 DEF Tree!SequentialTree, Tree!TwoLevels, Tree!Active
<1> QED BY <1>2, <1>4, <1>5, <1>6, <1>7, NobodyAsks DEF TreeInv

\* A product is classified under what was chosen.
LEMMA ClassifyKeepsTree ==
  ASSUME TreeAssumption, TreeInv, NEW a \in Clerks, Tree!ClassifySaves(a)
  PROVE  TreeInv'
<1>0. TreeTypes /\ RowsStay /\ Tree!SiblingNamesDiffer /\ Tree!SequentialTree BY DEF TreeInv
<1>1. /\ request[a].type = "classify" /\ request' = [request EXCEPT ![a] = Tree!Idle]
      /\ category' = category /\ classified' = request[a].chosen /\ overlapped' = overlapped
  BY DEF Tree!ClassifySaves
<1>2. /\ request' \in [Clerks -> Asked] /\ request'[a] = Tree!Idle
      /\ \A b \in Clerks \ {a} : request'[b] = request[b]
      /\ ~overlapped' => \A b \in Clerks : request'[b] = Tree!Idle
  BY <1>1, OverKeepsTree
<1>3. Tree!Idle.type = "none" /\ Tree!Idle.chosen = {} BY DEF Tree!Idle
<1>4. TreeTypes' BY <1>0, <1>1, <1>2, <1>3 DEF TreeTypes, Asked
<1>5. RowsStay' BY <1>0, <1>1, <1>2, <1>3 DEF RowsStay, Tree!Active
<1>6. Tree!SiblingNamesDiffer' BY <1>0, <1>1 DEF Tree!SiblingNamesDiffer, Tree!Siblings
<1>7. Tree!SequentialTree'
  <2>1. ~overlapped => ReadIsFresh(a) BY DEF TreeInv
  <2> QED BY <2>1, <1>0, <1>1 DEF Tree!SequentialTree, Tree!TwoLevels, Tree!Active, ReadIsFresh
<1> QED BY <1>2, <1>4, <1>5, <1>6, <1>7, NobodyAsks DEF TreeInv

\* Every step keeps TreeInv.
LEMMA NextKeepsTree ==
  ASSUME TreeAssumption, TreeInv, [Tree!Next]_Tree!vars
  PROVE  TreeInv'
<1>1. CASE Tree!Next
  BY <1>1, StartsKeepTree, SaveKeepsTree, SaveFailsKeepsTree, ClassifyKeepsTree DEF Tree!Next
<1>2. CASE UNCHANGED Tree!vars
  <2>1. UNCHANGED <<category, classified, request, overlapped>> BY <1>2 DEF Tree!vars
  <2> QED
    BY <2>1 DEF TreeInv, TreeTypes, RowsStay, OneAsks, ReadIsFresh, NoActiveChild, Tree!Active,
                Tree!ParentAccepted, Tree!SiblingNamesDiffer, Tree!Siblings, Tree!SequentialTree, Tree!TwoLevels
<1> QED BY <1>1, <1>2

\* Every reachable tree is as TreeInv says.
LEMMA PartKeepsTree ==
  ASSUME TreeAssumption
  PROVE  MCSpec => [](part = "tree" => TreeInv)
<1>1. MCInit => (part = "tree" => TreeInv)
  BY TreeStarts DEF MCInit
<1>2. ASSUME part = "tree" => TreeInv,
             [MCNext]_<<part, productVars, treeVars, listVars>>
      PROVE  (part = "tree" => TreeInv)'
  <2>1. CASE UNCHANGED <<part, productVars, treeVars, listVars>>
    <3>1. UNCHANGED <<part, Tree!vars>> BY <2>1, Zenon DEF treeVars, Tree!vars
    <3> QED BY <3>1, <1>2, NextKeepsTree
  <2>2. CASE TreeNext
    <3>1. part = "tree" /\ Tree!Next BY <2>2 DEF TreeNext
    <3> QED BY <3>1, <1>2, NextKeepsTree
  <2>3. CASE ProductsNext \/ ListNext
    BY <2>3 DEF ProductsNext, ListNext
  <2> QED BY <1>2, <2>1, <2>2, <2>3 DEF MCNext
<1> QED BY <1>1, <1>2, PTL DEF MCSpec

\* However many administrators edit a tree of any size: siblings have different
\* names, also those that concurrent requests save and those that were removed;
\* and until two requests overlap, the tree has two levels and what is in use was
\* not removed (categories.service.ts:49-118).
THEOREM TreeAlwaysInOrder ==
  ASSUME TreeAssumption
  PROVE  MCSpec => []TreeStaysInOrder
<1>1. TreeInv => Tree!TypeOK
  BY DEF TreeInv, TreeTypes, RowsStay, Rows, Asked, Tree!TypeOK
<1>2. (part = "tree" => TreeInv) => TreeStaysInOrder
  BY <1>1 DEF TreeInv, TreeStaysInOrder
<1> QED BY <1>2, PartKeepsTree, PTL

-----------------------------------------------------------------------------
(* The lists of a visitor.                                                 *)

\* The instance counts and cuts as the standard modules do.
LEMMA SameSortedCardinality == \A S : Sorted!Cardinality(S) = Cardinality(S)
BY Zenon DEF Sorted!Cardinality, Cardinality

\* Each of finitely many rows knows those that come before it: never itself, and
\* with one all that come before that one; and of two, one comes before the other.
OrderOf(S, before) ==
  /\ IsFiniteSet(S) /\ before \in [S -> SUBSET S]
  /\ \A p \in S : p \notin before[p]
  /\ \A p, q \in S : q \in before[p] => before[q] \subseteq before[p]
  /\ \A p, q \in S : p # q => p \in before[q] \/ q \in before[p]

\* The rows are numbered by how many come before them.
LEMMA RanksNumberTheRows ==
  ASSUME NEW S, NEW before, OrderOf(S, before)
  PROVE  /\ Cardinality(S) \in Nat
         /\ \A p \in S : Cardinality(before[p]) \in 0..(Cardinality(S) - 1)
         /\ \A p, q \in S : p \in before[q] => Cardinality(before[p]) < Cardinality(before[q])
         /\ \A n \in 1..Cardinality(S) : \E p \in S : Cardinality(before[p]) = n - 1
<1> DEFINE N == Cardinality(S)
<1>1. N \in Nat BY FS_CardinalityType DEF OrderOf
<1>2. \A p \in S : /\ IsFiniteSet(before[p]) /\ Cardinality(before[p]) \in Nat
                   /\ Cardinality(before[p]) < N
  <2> TAKE p \in S
  <2>1. before[p] \in SUBSET S /\ p \notin before[p] BY DEF OrderOf
  <2>2. /\ IsFiniteSet(before[p]) /\ Cardinality(before[p]) <= N
        /\ Cardinality(S) = Cardinality(before[p]) => S = before[p]
    BY <2>1, FS_Subset DEF OrderOf
  <2>3. Cardinality(before[p]) \in Nat BY <2>2, FS_CardinalityType
  <2> QED BY <1>1, <2>1, <2>2, <2>3
<1>3. ASSUME NEW p \in S, NEW q \in S, p \in before[q]
      PROVE  Cardinality(before[p]) < Cardinality(before[q])
  <2>1. before[p] \subseteq before[q] /\ p \notin before[p] BY <1>3 DEF OrderOf
  <2>2. /\ Cardinality(before[p]) <= Cardinality(before[q])
        /\ Cardinality(before[q]) = Cardinality(before[p]) => before[q] = before[p]
    BY <2>1, <1>2, FS_Subset
  <2> QED BY <1>2, <1>3, <2>1, <2>2
<1> DEFINE rank == [p \in S |-> Cardinality(before[p])]
<1>4. rank \in Injection(S, 0..(N - 1))
  <2>1. rank \in [S -> 0..(N - 1)] BY <1>1, <1>2
  <2>2. ASSUME NEW p \in S, NEW q \in S, rank[p] = rank[q] PROVE p = q
    <3>1. p \in before[q] \/ q \in before[p] \/ p = q BY DEF OrderOf
    <3> QED BY <3>1, <2>2, <1>2, <1>3
  <2> HIDE DEF rank
  <2> QED BY <2>1, <2>2 DEF Injection, IsInjective
<1>5. IsFiniteSet(0..(N - 1)) /\ Cardinality(0..(N - 1)) = N
  BY <1>1, FS_Interval
<1>6. rank \in Surjection(S, 0..(N - 1))
  BY <1>4, <1>5, FS_Injection
<1>7. \A n \in 1..N : \E p \in S : Cardinality(before[p]) = n - 1
  <2> TAKE n \in 1..N
  <2>1. n - 1 \in 0..(N - 1) BY <1>1
  <2>2. PICK p \in S : rank[p] = n - 1 BY <2>1, <1>6 DEF Surjection
  <2> QED BY <2>2
<1> QED BY <1>1, <1>2, <1>3, <1>7

\* Ordered lists every row once, and before every row those that come before it.
LEMMA OrderedListsTheRows ==
  ASSUME NEW S, NEW before, OrderOf(S, before)
  PROVE  /\ Sorted!Ordered(before) \in Seq(S) /\ Len(Sorted!Ordered(before)) = Cardinality(S)
         /\ \A i, j \in 1..Len(Sorted!Ordered(before)) :
              i < j => Sorted!Ordered(before)[i] \in before[Sorted!Ordered(before)[j]]
<1> DEFINE N == Cardinality(S)
           list == Sorted!Ordered(before)
<1>1. DOMAIN before = S BY DEF OrderOf
<1>2. list = [n \in 1..N |-> CHOOSE p \in S : Cardinality(before[p]) = n - 1]
  BY <1>1, SameSortedCardinality DEF Sorted!Ordered
<1>3. N \in Nat BY RanksNumberTheRows
<1>4. \A n \in 1..N : list[n] \in S /\ Cardinality(before[list[n]]) = n - 1
  <2> TAKE n \in 1..N
  <2>1. \E p \in S : Cardinality(before[p]) = n - 1 BY RanksNumberTheRows
  <2>2. list[n] = CHOOSE p \in S : Cardinality(before[p]) = n - 1 BY <1>2
  <2> QED BY <2>1, <2>2
<1>5. list \in Seq(S) /\ Len(list) = N
  <2>1. list \in [1..N -> S] BY <1>2, <1>4
  <2> QED BY <2>1, <1>3
<1>6. ASSUME NEW i \in 1..N, NEW j \in 1..N, i < j PROVE list[i] \in before[list[j]]
  <2>1. list[i] # list[j] BY <1>4, <1>6
  <2>2. list[i] \in before[list[j]] \/ list[j] \in before[list[i]] BY <2>1, <1>4 DEF OrderOf
  <2>3. list[j] \notin before[list[i]] BY <1>4, <1>6, RanksNumberTheRows
  <2> QED BY <2>2, <2>3
<1> QED BY <1>5, <1>6
\* What is sold has an id, a time, a price and an amount; a page holds something.
ShelfAssumption(s) ==
  /\ IsFiniteSet(s.products) /\ s.products \subseteq Nat
  /\ s.createdAt \in [s.products -> Nat]
  /\ s.prices \subseteq Nat /\ s.stocks \subseteq Nat
  /\ s.queries \subseteq [categoryIds : SUBSET s.category, maxPrice : Nat, inStockOnly : BOOLEAN,
                          sort : {"precio_asc", "precio_desc", "nuevos"}]
  /\ s.pageSize \in Nat \ {0} /\ s.maxRelated \in Nat

\* A beginning of a list and what follows it are a longer beginning.
LEMMA BeginningGrows ==
  ASSUME NEW T, NEW list \in Seq(T), NEW m \in 0..Len(list), NEW n \in m..Len(list)
  PROVE  /\ SubSeq(list, m + 1, n) \in Seq(T) /\ Len(SubSeq(list, m + 1, n)) = n - m
         /\ SubSeq(list, 1, m) \o SubSeq(list, m + 1, n) = SubSeq(list, 1, n)
<1> DEFINE a == SubSeq(list, 1, m)
           b == SubSeq(list, m + 1, n)
           c == SubSeq(list, 1, n)
<1>1. a \in Seq(T) /\ Len(a) = m /\ \A i \in 1..m : a[i] = list[i] OBVIOUS
<1>2. b \in Seq(T) /\ Len(b) = n - m /\ \A i \in 1..(n - m) : b[i] = list[m + i]
  <2>1. \A i \in (m + 1)..n : i \in 1..Len(list) OBVIOUS
  <2> QED BY <2>1
<1>3. c \in Seq(T) /\ Len(c) = n /\ \A i \in 1..n : c[i] = list[i] OBVIOUS
<1>0. m \in Nat /\ n \in Nat /\ m <= n OBVIOUS
<1> HIDE DEF a, b, c
<1>4. a \o b \in Seq(T) /\ Len(a \o b) = n BY <1>0, <1>1, <1>2
<1>5. ASSUME NEW i \in 1..n PROVE (a \o b)[i] = c[i]
  <2>1. CASE i <= m BY <2>1, <1>0, <1>1, <1>2, <1>3
  <2>2. CASE i > m
    <3>1. i - m \in 1..(n - m) /\ (a \o b)[i] = b[i - m] BY <2>2, <1>0, <1>1, <1>2
    <3>2. b[i - m] = list[m + (i - m)] /\ m + (i - m) = i BY <3>1, <1>0, <1>2
    <3> QED BY <3>1, <3>2, <1>3
  <2>3. i <= m \/ i > m BY <1>0
  <2> QED BY <2>1, <2>2, <2>3
<1>6. a \o b = c BY <1>3, <1>4, <1>5
<1> QED BY <1>2, <1>6 DEF a, b, c

\* A page holds no more than fit.
LEMMA PageFits ==
  ASSUME NEW T, NEW list \in Seq(T), NEW size \in Nat \ {0}, NEW offset \in Nat,
         NEW upto \in Nat, upto = IF offset + size <= Len(list) THEN offset + size ELSE Len(list)
  PROVE  /\ SubSeq(list, offset + 1, upto) \in Seq(T)
         /\ Len(SubSeq(list, offset + 1, upto)) = IF offset < upto THEN upto - offset ELSE 0
         /\ Len(SubSeq(list, offset + 1, upto)) <= size
<1>0. Len(list) \in Nat OBVIOUS
<1>1. CASE offset < upto
  <2>1. offset \in 0..Len(list) /\ upto \in offset..Len(list) BY <1>0, <1>1
  <2>2. /\ SubSeq(list, offset + 1, upto) \in Seq(T)
        /\ Len(SubSeq(list, offset + 1, upto)) = upto - offset
    BY <2>1, BeginningGrows
  <2>3. upto - offset <= size BY <1>0
  <2> QED BY <2>2, <2>3, <1>1
<1>2. CASE ~(offset < upto)
  <2>1. SubSeq(list, offset + 1, upto) = <<>> BY <1>2
  <2> QED BY <2>1, <1>2
<1> QED BY <1>1, <1>2

\* A beginning of a list has the length that it is given.
LEMMA BeginningHasItsLength ==
  ASSUME NEW T, NEW list \in Seq(T), NEW n \in 0..Len(list)
  PROVE  SubSeq(list, 1, n) \in Seq(T) /\ Len(SubSeq(list, 1, n)) = n
OBVIOUS

\* The page that follows what is loaded makes a longer beginning of the list, and
\* one that follows all of it is empty.
LEMMA PageFollows ==
  ASSUME NEW T, NEW list \in Seq(T), NEW offset \in Nat, NEW upto \in 0..Len(list),
         offset < upto \/ upto = Len(list),
         NEW n \in 0..Len(list), n <= offset, n = offset \/ n = Len(list)
  PROVE  SubSeq(list, 1, n) \o SubSeq(list, offset + 1, upto) = SubSeq(list, 1, upto)
<1>0. Len(list) \in Nat /\ n \in Nat /\ upto \in Nat OBVIOUS
<1>1. CASE offset < upto
  <2>1. offset \in 0..Len(list) /\ upto \in offset..Len(list) /\ n = offset BY <1>0, <1>1
  <2> QED BY <2>1, BeginningGrows
<1>2. CASE ~(offset < upto)
  <2>1. upto = Len(list) /\ n = upto BY <1>0, <1>2
  <2>2. SubSeq(list, offset + 1, upto) = <<>> BY <1>0, <1>2
  <2>3. \A s \in Seq(T) : s \o <<>> = s OBVIOUS
  <2>4. SubSeq(list, 1, n) \in Seq(T) BY BeginningHasItsLength
  <2> QED BY <2>1, <2>2, <2>3, <2>4
<1> QED BY <1>1, <1>2

\* What is sorted and how: every product at its place.
SortTypes ==
  /\ listed \in [Sorting.products -> Sorted!ProductRow] /\ query \in Sorting.queries
  /\ pages \in Nat /\ more \in BOOLEAN /\ changed \in BOOLEAN
  /\ loaded \in Seq(Sorting.products) /\ Len(loaded) <= pages * Sorting.pageSize

\* The rows that come before one that is found.
SortedBefore == [p \in Sorted!Found |-> {q \in Sorted!Found : Sorted!Before(q, p)}]

\* The first difference puts the rows that are found in an order.
LEMMA FoundAreInOrder ==
  ASSUME ShelfAssumption(Sorting), SortTypes
  PROVE  OrderOf(Sorted!Found, SortedBefore)
<1>1. Sorted!Found \subseteq Sorting.products BY DEF Sorted!Found
<1>2. \A p \in Sorting.products :
        p \in Nat /\ Sorted!InStockFirst(p) \in Int /\ Sorted!SortKey(p) \in Int
  <2> TAKE p \in Sorting.products
  <2>1. p \in Nat BY DEF ShelfAssumption
  <2>2. Sorted!InStockFirst(p) \in Int BY DEF Sorted!InStockFirst
  <2>3. listed[p].price \in Nat /\ Sorting.createdAt[p] \in Nat
    BY DEF SortTypes, Sorted!ProductRow, ShelfAssumption
  <2>4. query.sort \in {"precio_asc", "precio_desc", "nuevos"} BY DEF SortTypes, ShelfAssumption
  <2>5. Sorted!SortKey(p) \in Int BY <2>3, <2>4 DEF Sorted!SortKey
  <2> QED BY <2>1, <2>2, <2>5
<1>3. IsFiniteSet(Sorted!Found) BY <1>1, FS_Subset DEF ShelfAssumption
<1>4. SortedBefore \in [Sorted!Found -> SUBSET Sorted!Found] BY DEF SortedBefore
<1>5. \A p \in Sorted!Found : p \notin SortedBefore[p]
  BY <1>1, <1>2 DEF SortedBefore, Sorted!Before
<1>6. ASSUME NEW p \in Sorted!Found, NEW q \in Sorted!Found, q \in SortedBefore[p],
             NEW r \in SortedBefore[q]
      PROVE  r \in SortedBefore[p]
  <2>1. r \in Sorted!Found /\ Sorted!Before(q, p) /\ Sorted!Before(r, q) BY <1>6 DEF SortedBefore
  <2>2. Sorted!Before(r, p)
    <3> DEFINE first(o) == Sorted!InStockFirst(o)
               key(o) == Sorted!SortKey(o)
    <3>1. /\ p \in Nat /\ first(p) \in Int /\ key(p) \in Int
          /\ q \in Nat /\ first(q) \in Int /\ key(q) \in Int
          /\ r \in Nat /\ first(r) \in Int /\ key(r) \in Int
      BY <1>1, <1>2, <2>1
    <3> QED BY <2>1, <3>1 DEF Sorted!Before
  <2> QED BY <2>1, <2>2 DEF SortedBefore
<1>7. ASSUME NEW p \in Sorted!Found, NEW q \in Sorted!Found, p # q
      PROVE  p \in SortedBefore[q] \/ q \in SortedBefore[p]
  BY <1>1, <1>2, <1>7 DEF SortedBefore, Sorted!Before
<1> QED BY <1>3, <1>4, <1>5, <1>6, <1>7 DEF OrderOf

\* The list holds the products that are found, each once and after those that come
\* before it.
LEMMA ListingHoldsTheFound ==
  ASSUME ShelfAssumption(Sorting), SortTypes
  PROVE  /\ Sorted!Listing \in Seq(Sorting.products)
         /\ \A i \in 1..Len(Sorted!Listing) : Sorted!Listing[i] \in Sorted!Found
         /\ \A i, j \in 1..Len(Sorted!Listing) :
              i < j => Sorted!Before(Sorted!Listing[i], Sorted!Listing[j])
<1>1. Sorted!Listing = Sorted!Ordered(SortedBefore) BY DEF Sorted!Listing, SortedBefore
<1>2. /\ Sorted!Listing \in Seq(Sorted!Found)
      /\ \A i, j \in 1..Len(Sorted!Listing) :
           i < j => Sorted!Listing[i] \in SortedBefore[Sorted!Listing[j]]
  BY <1>1, FoundAreInOrder, OrderedListsTheRows
<1>3. Sorted!Found \subseteq Sorting.products BY DEF Sorted!Found
<1>4. Sorted!Listing \in Seq(Sorting.products) BY <1>2, <1>3
<1>5. \A i \in 1..Len(Sorted!Listing) : Sorted!Listing[i] \in Sorted!Found BY <1>2
<1>6. ASSUME NEW i \in 1..Len(Sorted!Listing), NEW j \in 1..Len(Sorted!Listing), i < j
      PROVE  Sorted!Before(Sorted!Listing[i], Sorted!Listing[j])
  <2>1. Sorted!Listing[i] \in SortedBefore[Sorted!Listing[j]] /\ Sorted!Listing[j] \in Sorted!Found
    BY <1>2, <1>5, <1>6
  <2> QED BY <2>1 DEF SortedBefore
<1> QED BY <1>4, <1>5, <1>6

-----------------------------------------------------------------------------
(* The pages of a list.                                                    *)

\* While nothing changes, the pages hold the first products of the list, as many as
\* fit in them, and the last of them says that it is the last.
PagesInv ==
  /\ SortTypes
  /\ ~changed =>
       \E n \in 0..Len(Sorted!Listing) :
         /\ loaded = SubSeq(Sorted!Listing, 1, n) /\ n <= pages * Sorting.pageSize
         /\ n = pages * Sorting.pageSize \/ n = Len(Sorted!Listing)
         /\ ~more => n = Len(Sorted!Listing)
  /\ pages = 0 => more

\* With nothing loaded a list is begun.
LEMMA NothingIsLoaded ==
  ASSUME ShelfAssumption(Sorting), SortTypes, pages = 0, loaded = <<>>, more = TRUE
  PROVE  PagesInv
<1>1. Sorted!Listing \in Seq(Sorting.products) BY ListingHoldsTheFound
<1>2. PICK list \in Seq(Sorting.products) : list = Sorted!Listing BY <1>1
<1>3. SubSeq(list, 1, 0) = <<>> /\ 0 \in 0..Len(list) OBVIOUS
<1>4. PICK size \in Nat : size = Sorting.pageSize BY DEF ShelfAssumption
<1>5. 0 <= pages * size /\ 0 = pages * size OBVIOUS
<1>6. \E n \in 0..Len(list) : /\ loaded = SubSeq(list, 1, n) /\ n <= pages * size
                              /\ n = pages * size \/ n = Len(list)
                              /\ ~more => n = Len(list)
  <2> WITNESS 0 \in 0..Len(list)
  <2> QED BY <1>3, <1>5
<1> HIDE <1>3, <1>5
<1> QED BY <1>2, <1>4, <1>6 DEF PagesInv

\* At the start nothing is loaded.
LEMMA PagesStart ==
  ASSUME ShelfAssumption(Sorting), Sorted!Init
  PROVE  PagesInv
<1>1. loaded = <<>> /\ pages = 0 /\ more = TRUE BY DEF Sorted!Init
<1>2. /\ listed \in [Sorting.products -> Sorted!ProductRow] /\ query \in Sorting.queries
      /\ pages \in Nat /\ more \in BOOLEAN /\ changed \in BOOLEAN
      /\ loaded \in Seq(Sorting.products)
  <2>1. listed \in [Sorting.products -> Sorted!ProductRow] /\ query \in Sorting.queries
    BY DEF Sorted!Init
  <2>2. more \in BOOLEAN /\ changed \in BOOLEAN BY Zenon DEF Sorted!Init
  <2> QED BY <2>1, <2>2, <1>1
<1>3. Len(loaded) <= pages * Sorting.pageSize
  <2>1. PICK size \in Nat : size = Sorting.pageSize BY DEF ShelfAssumption
  <2>2. Len(loaded) <= pages * size BY <1>1
  <2> QED BY <2>1, <2>2
<1>4. SortTypes BY <1>2, <1>3 DEF SortTypes
<1> QED BY <1>1, <1>4, NothingIsLoaded

\* Also in the next state.
LEMMA NothingIsLoadedNext ==
  ASSUME ShelfAssumption(Sorting)
  PROVE  (SortTypes /\ pages = 0 /\ loaded = <<>> /\ more = TRUE => PagesInv)'
<1>1. SortTypes /\ pages = 0 /\ loaded = <<>> /\ more = TRUE => PagesInv BY NothingIsLoaded
<1> QED BY <1>1, PTL

\* No product is in an empty list, however many fit.
LEMMA NothingFits ==
  ASSUME ShelfAssumption(Sorting)
  PROVE  Len(<<>>) <= 0 * Sorting.pageSize
<1>1. PICK size \in Nat : size = Sorting.pageSize BY DEF ShelfAssumption
<1>2. Len(<<>>) <= 0 * size OBVIOUS
<1> QED BY <1>1, <1>2

\* The list is that of the rows and the filters.
LEMMA SameRowsSameListing ==
  ASSUME UNCHANGED <<listed, query>>
  PROVE  Sorted!Listing' = Sorted!Listing
BY DEF Sorted!Listing, Sorted!Found, Sorted!Matches, Sorted!WithDescendants, Sorted!Before,
   Sorted!InStockFirst, Sorted!SortKey, Sorted!Ordered

\* The next page.
LEMMA FetchNextPageKeepsPages ==
  ASSUME ShelfAssumption(Sorting), PagesInv, Sorted!FetchNextPage
  PROVE  PagesInv'
<1>0. PICK size \in Nat \ {0} : size = Sorting.pageSize BY DEF ShelfAssumption
<1>1. SortTypes /\ Sorted!Listing \in Seq(Sorting.products) BY ListingHoldsTheFound DEF PagesInv
<1>2. PICK offset \in Nat : offset = pages * Sorting.pageSize /\ (pages + 1) * size = offset + size
  BY <1>0, <1>1 DEF SortTypes
<1>3. PICK list \in Seq(Sorting.products) : list = Sorted!Listing BY <1>1
<1>4. PICK upto \in Nat : upto = IF offset + size <= Len(list) THEN offset + size ELSE Len(list)
  OBVIOUS
<1>5. PICK page : page = Sorted!Page(offset) OBVIOUS
<1>6. /\ loaded' = loaded \o page /\ more' = Sorted!HasMore(offset) /\ pages' = pages + 1
      /\ UNCHANGED <<listed, query, changed>>
  BY <1>2, <1>5 DEF Sorted!FetchNextPage, Sorted!Offset
<1>7. Sorted!Listing' = list BY <1>3, <1>6, SameRowsSameListing
<1>8. page = SubSeq(list, offset + 1, upto)
  <2>1. Sorted!Min({offset + size, Len(list)}) = upto BY <1>4 DEF Sorted!Min
  <2> QED BY <2>1, <1>0, <1>3, <1>5 DEF Sorted!Page
<1>9. more' = (offset + Len(page) < Len(list) /\ page # <<>>)
  BY <1>3, <1>5, <1>6 DEF Sorted!HasMore
<1>10. page \in Seq(Sorting.products) /\ Len(page) <= size BY <1>4, <1>8, PageFits
<1>11. loaded \in Seq(Sorting.products) /\ Len(loaded) \in Nat /\ Len(loaded) <= offset
  BY <1>1, <1>2 DEF SortTypes
<1>12. pages' * Sorting.pageSize = offset + size BY <1>0, <1>2, <1>6
<1>13. SortTypes'
  <2>1. loaded' \in Seq(Sorting.products) /\ Len(loaded') = Len(loaded) + Len(page)
    BY <1>6, <1>10, <1>11
  <2>2. Len(page) \in Nat BY <1>10
  <2>3. Len(loaded') <= pages' * Sorting.pageSize BY <2>1, <2>2, <1>10, <1>11, <1>12
  <2> QED BY <1>1, <1>6, <1>9, <2>1, <2>3 DEF SortTypes
<1>14. ASSUME ~changed'
       PROVE  \E m \in 0..Len(list) :
                /\ loaded' = SubSeq(list, 1, m) /\ m <= offset + size
                /\ m = offset + size \/ m = Len(list)
                /\ ~more' => m = Len(list)
  <2>1. PICK n \in 0..Len(list) :
          /\ loaded = SubSeq(list, 1, n) /\ n <= offset
          /\ n = offset \/ n = Len(list)
    BY <1>2, <1>3, <1>6, <1>14 DEF PagesInv
  <2>2. upto \in 0..Len(list) /\ (offset < upto \/ upto = Len(list)) BY <1>4
  <2>3. loaded' = SubSeq(list, 1, upto)
    <3>1. SubSeq(list, 1, n) \o SubSeq(list, offset + 1, upto) = SubSeq(list, 1, upto)
      BY <2>1, <2>2, PageFollows
    <3> QED BY <3>1, <2>1, <1>6, <1>8
  <2>4. upto <= offset + size /\ (upto = offset + size \/ upto = Len(list)) BY <1>4
  <2>5. ~more' => upto = Len(list)
    <3>1. Len(page) = IF offset < upto THEN upto - offset ELSE 0 BY <1>4, <1>8, PageFits
    <3>2. CASE offset < upto
      <4>1. offset + Len(page) = upto /\ page # <<>> BY <3>1, <3>2
      <4>2. more' = (upto < Len(list)) BY <4>1, <1>9
      <4>3. upto < Len(list) \/ upto = Len(list) BY <2>2
      <4> QED BY <4>2, <4>3, Zenon
    <3>3. CASE ~(offset < upto) BY <3>3, <2>2
    <3> QED BY <3>2, <3>3
  <2> HIDE <1>4, <1>9
  <2> QED BY <2>2, <2>3, <2>4, <2>5
<1>15. pages' # 0 BY <1>1, <1>6 DEF SortTypes
<1> QED BY <1>7, <1>12, <1>13, <1>14, <1>15 DEF PagesInv

\* Other filters are another list.
LEMMA UpdateFilterKeepsPages ==
  ASSUME ShelfAssumption(Sorting), PagesInv, Sorted!UpdateFilter
  PROVE  PagesInv'
<1>1. /\ query' \in Sorting.queries /\ pages' = 0 /\ loaded' = <<>> /\ more' = TRUE
      /\ changed' = FALSE /\ listed' = listed
  BY DEF Sorted!UpdateFilter
<1>2. Len(loaded') <= pages' * Sorting.pageSize BY <1>1, NothingFits
<1>3. more' \in BOOLEAN /\ changed' \in BOOLEAN BY <1>1, Zenon
<1>4. pages' \in Nat /\ loaded' \in Seq(Sorting.products) BY <1>1
<1>5. listed' \in [Sorting.products -> Sorted!ProductRow] BY <1>1 DEF PagesInv, SortTypes
<1>6. query' \in Sorting.queries BY <1>1
<1>7. SortTypes' BY <1>2, <1>3, <1>4, <1>5, <1>6 DEF SortTypes
<1> QED BY <1>1, <1>7, NothingIsLoadedNext

\* A sale, a delivery, a publication or a new price: the pages that were loaded stay.
LEMMA ChangeKeepsPages ==
  ASSUME ShelfAssumption(Sorting), PagesInv, NEW p \in Sorting.products, Sorted!Change(p)
  PROVE  PagesInv'
<1>1. /\ UNCHANGED <<query, pages, loaded, more>> /\ changed' = (pages > 0)
      /\ listed' \in [Sorting.products -> Sorted!ProductRow]
  BY DEF Sorted!Change, PagesInv, SortTypes
<1>2. SortTypes' BY <1>1 DEF PagesInv, SortTypes
<1>3. CASE pages = 0
  <2>1. PICK size \in Nat : size = Sorting.pageSize BY DEF ShelfAssumption
  <2>2. Len(loaded) <= pages * size /\ loaded \in Seq(Sorting.products)
    BY <2>1 DEF PagesInv, SortTypes
  <2>3. loaded = <<>> BY <2>2, <1>3
  <2>4. more = TRUE BY <1>3 DEF PagesInv, SortTypes
  <2> QED BY <1>1, <1>2, <1>3, <2>3, <2>4, NothingIsLoadedNext
<1>4. CASE pages # 0
  <2>1. pages > 0 BY <1>4 DEF PagesInv, SortTypes
  <2>2. changed' BY <2>1, <1>1
  <2> QED BY <2>2, <1>1, <1>2, <1>4 DEF PagesInv
<1> QED BY <1>3, <1>4

\* Every step keeps PagesInv.
LEMMA NextKeepsPages ==
  ASSUME ShelfAssumption(Sorting), PagesInv, [Sorted!Next]_Sorted!vars
  PROVE  PagesInv'
<1>1. CASE Sorted!Next
  BY <1>1, FetchNextPageKeepsPages, UpdateFilterKeepsPages, ChangeKeepsPages DEF Sorted!Next
<1>2. CASE UNCHANGED Sorted!vars
  <2>1. UNCHANGED <<listed, query, pages, loaded, more, changed>> BY <1>2 DEF Sorted!vars
  <2>2. Sorted!Listing' = Sorted!Listing BY <2>1, SameRowsSameListing
  <2> QED BY <2>1, <2>2 DEF PagesInv, SortTypes
<1> QED BY <1>1, <1>2

\* Every reachable list is as PagesInv says.
LEMMA PartKeepsPages ==
  ASSUME ShelfAssumption(Sorting)
  PROVE  MCSpec => [](part = "sorted" => PagesInv)
<1>1. MCInit => (part = "sorted" => PagesInv)
  BY PagesStart DEF MCInit
<1>2. ASSUME part = "sorted" => PagesInv,
             [MCNext]_<<part, productVars, treeVars, listVars>>
      PROVE  (part = "sorted" => PagesInv)'
  <2>1. CASE UNCHANGED <<part, productVars, treeVars, listVars>>
    <3>1. UNCHANGED <<part, Sorted!vars>> BY <2>1, Zenon DEF listVars, Sorted!vars
    <3> QED BY <3>1, <1>2, NextKeepsPages
  <2>2. CASE ListNext
    <3>1. part' = part /\ (part = "sorted" => Sorted!Next) BY <2>2 DEF ListNext
    <3> QED BY <3>1, <1>2, NextKeepsPages
  <2>3. CASE ProductsNext \/ TreeNext
    BY <2>3 DEF ProductsNext, TreeNext
  <2> QED BY <1>2, <2>1, <2>2, <2>3 DEF MCNext
<1> QED BY <1>1, <1>2, PTL DEF MCSpec

\* The pages are the list, with what has no stock last.
LEMMA PagesMakeTheSortedList ==
  ASSUME ShelfAssumption(Sorting), PagesInv
  PROVE  Sorted!TypeOK /\ Sorted!PagesMakeTheList /\ Sorted!WithoutStockLast
<1>1. SortTypes /\ Sorted!Listing \in Seq(Sorting.products)
      /\ loaded \in Seq(Sorting.products) /\ Len(loaded) \in Nat
  BY ListingHoldsTheFound DEF PagesInv, SortTypes
<1>2. Sorted!TypeOK
  <2>1. query \in Sorted!Query BY <1>1 DEF SortTypes, ShelfAssumption, Sorted!Query, Sorted!Sorts
  <2> QED BY <2>1, <1>1 DEF SortTypes, Sorted!TypeOK
<1>3. ASSUME ~changed
      PROVE  /\ Len(loaded) <= Len(Sorted!Listing)
             /\ loaded = SubSeq(Sorted!Listing, 1, Len(loaded))
             /\ ~more => loaded = Sorted!Listing
             /\ \A i \in 1..Len(loaded) : loaded[i] = Sorted!Listing[i]
  <2>1. PICK n \in 0..Len(Sorted!Listing) :
          loaded = SubSeq(Sorted!Listing, 1, n) /\ (~more => n = Len(Sorted!Listing))
    BY <1>3 DEF PagesInv
  <2>2. Len(loaded) = n BY <2>1, <1>1, BeginningHasItsLength
  <2>3. \A i \in 1..n : loaded[i] = Sorted!Listing[i] BY <2>1, <1>1
  <2>4. SubSeq(Sorted!Listing, 1, Len(Sorted!Listing)) = Sorted!Listing BY <1>1
  <2>5. ~more => loaded = Sorted!Listing BY <2>1, <2>4
  <2>6. n <= Len(Sorted!Listing) BY <1>1
  <2>7. loaded = SubSeq(Sorted!Listing, 1, Len(loaded)) BY <2>1, <2>2
  <2> HIDE <2>1
  <2> QED BY <2>2, <2>3, <2>5, <2>6, <2>7
<1>4. Sorted!PagesMakeTheList
  <2>1. SubSeq(loaded, 1, Len(loaded)) = loaded BY <1>1
  <2> QED BY <2>1, <1>3 DEF Sorted!PagesMakeTheList, Sorted!IsPrefix
<1>5. ASSUME ~changed, NEW i \in DOMAIN loaded, NEW j \in DOMAIN loaded, i < j,
             listed[loaded[i]].stock = 0
      PROVE  listed[loaded[j]].stock = 0
  <2>1. /\ i \in 1..Len(Sorted!Listing) /\ j \in 1..Len(Sorted!Listing)
        /\ loaded[i] = Sorted!Listing[i] /\ loaded[j] = Sorted!Listing[j]
    BY <1>1, <1>3, <1>5
  <2>2. loaded[i] \in Sorted!Found /\ Sorted!Before(loaded[i], loaded[j])
    BY <2>1, <1>1, <1>5, ListingHoldsTheFound
  <2>3. ~query.inStockOnly BY <2>2, <1>5 DEF Sorted!Found, Sorted!Matches
  <2>4. Sorted!InStockFirst(loaded[i]) = 1 BY <2>3, <1>5 DEF Sorted!InStockFirst
  <2>5. Sorted!InStockFirst(loaded[j]) \in {0, 1} BY DEF Sorted!InStockFirst
  <2>6. Sorted!InStockFirst(loaded[j]) = 1 BY <2>2, <2>4, <2>5 DEF Sorted!Before
  <2> QED BY <2>6 DEF Sorted!InStockFirst
<1>6. Sorted!WithoutStockLast BY <1>5 DEF Sorted!WithoutStockLast
<1> QED BY <1>2, <1>4, <1>6

-----------------------------------------------------------------------------
(* What is found under a category, and what is related to a product.       *)

\* What is filtered: the rows that a visitor may meet.
FilterTypes ==
  /\ listed \in [Filtering.products -> Filtered!ProductRow] /\ query \in Filtering.queries

\* The two instances put rows in one order.
LEMMA SameOrdered == \A before : Filtered!Ordered(before) = Sorted!Ordered(before)
<1>1. \A S : Filtered!Cardinality(S) = Sorted!Cardinality(S)
  BY Zenon DEF Filtered!Cardinality, Sorted!Cardinality
<1> QED BY <1>1 DEF Filtered!Ordered, Sorted!Ordered

\* The newest come first.
LEMMA NewestIsAnOrder ==
  ASSUME ShelfAssumption(Filtering), NEW S \in SUBSET Filtering.products
  PROVE  OrderOf(S, [q \in S |-> {r \in S : Filtered!Newest(r, q)}])
<1> DEFINE before == [q \in S |-> {r \in S : Filtered!Newest(r, q)}]
<1>1. \A p \in S : p \in Nat /\ Filtering.createdAt[p] \in Nat BY DEF ShelfAssumption
<1>2. IsFiniteSet(S) BY FS_Subset DEF ShelfAssumption
<1>3. before \in [S -> SUBSET S] OBVIOUS
<1>4. \A p \in S : p \notin before[p] BY <1>1 DEF Filtered!Newest
<1>5. ASSUME NEW p \in S, NEW q \in S, q \in before[p], NEW r \in before[q] PROVE r \in before[p]
  <2>1. r \in S /\ Filtered!Newest(q, p) /\ Filtered!Newest(r, q) BY <1>5
  <2>2. Filtered!Newest(r, p) BY <1>1, <2>1 DEF Filtered!Newest
  <2> QED BY <2>1, <2>2
<1>6. ASSUME NEW p \in S, NEW q \in S, p # q PROVE p \in before[q] \/ q \in before[p]
  BY <1>1, <1>6 DEF Filtered!Newest
<1> HIDE DEF before
<1>7. OrderOf(S, before) BY <1>2, <1>3, <1>4, <1>5, <1>6 DEF OrderOf
<1> QED BY <1>7 DEF before

\* Different products of some categories that can be bought, other than the given
\* one and the ones left out, and as many as fit at the most.
GoodPick(list, p, excluded, limit) ==
  /\ list \in Seq(Filtering.products) /\ Len(list) <= limit
  /\ \A i \in 1..Len(list) :
       /\ list[i] # p /\ list[i] \notin excluded
       /\ listed[list[i]].forSale /\ listed[list[i]].stock > 0
  /\ \A i, j \in 1..Len(list) : list[i] = list[j] => i = j

\* A query of related products.
LEMMA RelatedByIsGood ==
  ASSUME ShelfAssumption(Filtering), FilterTypes, NEW ids, NEW p, NEW excluded, NEW limit \in Nat
  PROVE  GoodPick(Filtered!RelatedBy(ids, p, excluded, limit), p, excluded, limit)
<1> DEFINE found == {q \in Filtering.products \ ({p} \cup excluded) :
                       /\ listed[q].categories \cap ids # {}
                       /\ listed[q].forSale /\ listed[q].stock > 0}
           before == [q \in found |-> {r \in found : Filtered!Newest(r, q)}]
           sorted == Filtered!Ordered(before)
           list == Filtered!RelatedBy(ids, p, excluded, limit)
<1>1. list = IF Len(sorted) <= limit THEN sorted ELSE SubSeq(sorted, 1, limit)
  BY DEF Filtered!RelatedBy
<1>2. found \in SUBSET Filtering.products OBVIOUS
<1>3. \A q \in found : q # p /\ q \notin excluded /\ listed[q].forSale /\ listed[q].stock > 0
  OBVIOUS
<1> HIDE DEF found
<1>4. OrderOf(found, before) BY <1>2, NewestIsAnOrder
<1> HIDE DEF before
<1>5. /\ sorted \in Seq(found)
      /\ \A i, j \in 1..Len(sorted) : i < j => sorted[i] \in before[sorted[j]]
  BY <1>4, OrderedListsTheRows, SameOrdered
<1> HIDE DEF sorted, list
<1>6. ASSUME NEW i \in 1..Len(sorted), NEW j \in 1..Len(sorted), sorted[i] = sorted[j]
      PROVE  i = j
  <2>1. sorted[i] \in found /\ sorted[j] \in found BY <1>5
  <2>2. sorted[i] \notin before[sorted[i]] BY <2>1, <1>4 DEF OrderOf
  <2>3. ~(i < j) /\ ~(j < i) BY <2>2, <1>5, <1>6
  <2> QED BY <2>3, <1>5
<1>7. PICK n \in 0..Len(sorted) :
        n <= limit /\ list \in Seq(found) /\ Len(list) = n /\ \A i \in 1..n : list[i] = sorted[i]
  <2>1. CASE Len(sorted) <= limit BY <2>1, <1>1, <1>5
  <2>2. CASE ~(Len(sorted) <= limit)
    <3>1. limit \in 0..Len(sorted) BY <2>2, <1>5
    <3>2. list = SubSeq(sorted, 1, limit) BY <2>2, <1>1
    <3>3. list \in Seq(found) /\ Len(list) = limit BY <3>1, <3>2, <1>5, BeginningHasItsLength
    <3>4. \A i \in 1..limit : list[i] = sorted[i] BY <3>1, <3>2, <1>5
    <3> QED BY <3>1, <3>3, <3>4
  <2> QED BY <2>1, <2>2
<1>8. \A i \in 1..Len(list) : list[i] \in found BY <1>7
<1>9. \A i, j \in 1..Len(list) : list[i] = list[j] => i = j BY <1>5, <1>6, <1>7
<1>10. list \in Seq(Filtering.products) BY <1>2, <1>7
<1>11. GoodPick(list, p, excluded, limit) BY <1>3, <1>7, <1>8, <1>9, <1>10 DEF GoodPick
<1> QED BY <1>11 DEF list

\* Two picks, the second of which leaves the first out, are one.
LEMMA PicksAdd ==
  ASSUME NEW p, NEW limit \in Nat, NEW first, NEW second, NEW room \in Nat,
         GoodPick(first, p, {}, limit), room = limit - Len(first),
         GoodPick(second, p, {first[i] : i \in DOMAIN first}, room)
  PROVE  GoodPick(first \o second, p, {}, limit)
<1> DEFINE both == first \o second
           n == Len(first)
           m == Len(second)
<1>1. /\ first \in Seq(Filtering.products) /\ second \in Seq(Filtering.products)
      /\ n \in Nat /\ m \in Nat /\ n <= limit /\ m <= limit - n
  BY DEF GoodPick
<1>2. /\ both \in Seq(Filtering.products) /\ Len(both) = n + m
      /\ \A i \in 1..(n + m) : both[i] = IF i <= n THEN first[i] ELSE second[i - n]
  BY <1>1
<1>3. \A i \in 1..(n + m) : ~(i <= n) => i - n \in 1..m BY <1>1
<1>4. \A i \in 1..n, j \in 1..m : second[j] # first[i]
  <2> TAKE i \in 1..n, j \in 1..m
  <2>1. first[i] \in {first[k] : k \in DOMAIN first} BY <1>1
  <2>2. second[j] \notin {first[k] : k \in DOMAIN first} BY DEF GoodPick
  <2> QED BY <2>1, <2>2
<1>5. ASSUME NEW i \in 1..(n + m)
      PROVE  both[i] # p /\ listed[both[i]].forSale /\ listed[both[i]].stock > 0
  <2>1. CASE i <= n
    <3>1. i \in 1..n /\ both[i] = first[i] BY <2>1, <1>1, <1>2
    <3> QED BY <3>1 DEF GoodPick
  <2>2. CASE ~(i <= n)
    <3>1. i - n \in 1..m /\ both[i] = second[i - n] BY <2>2, <1>2, <1>3
    <3> QED BY <3>1 DEF GoodPick
  <2> QED BY <2>1, <2>2
<1>6. ASSUME NEW i \in 1..(n + m), NEW j \in 1..(n + m), both[i] = both[j] PROVE i = j
  <2>1. CASE i <= n /\ j <= n
    <3>1. i \in 1..n /\ j \in 1..n /\ first[i] = first[j] BY <2>1, <1>1, <1>2, <1>6
    <3> QED BY <3>1 DEF GoodPick
  <2>2. CASE ~(i <= n) /\ ~(j <= n)
    <3>1. i - n \in 1..m /\ j - n \in 1..m /\ second[i - n] = second[j - n]
      BY <2>2, <1>2, <1>3, <1>6
    <3>2. i - n = j - n BY <3>1 DEF GoodPick
    <3> QED BY <3>2, <1>1
  <2>3. CASE i <= n /\ ~(j <= n)
    <3>1. i \in 1..n /\ j - n \in 1..m /\ first[i] = second[j - n]
      BY <2>3, <1>1, <1>2, <1>3, <1>6
    <3> QED BY <3>1, <1>4
  <2>4. CASE ~(i <= n) /\ j <= n
    <3>1. j \in 1..n /\ i - n \in 1..m /\ first[j] = second[i - n]
      BY <2>4, <1>1, <1>2, <1>3, <1>6
    <3> QED BY <3>1, <1>4
  <2> QED BY <2>1, <2>2, <2>3, <2>4
<1>7. Len(both) <= limit BY <1>1, <1>2
<1> HIDE DEF both
<1>8. GoodPick(both, p, {}, limit) BY <1>2, <1>5, <1>6, <1>7 DEF GoodPick
<1> QED BY <1>8 DEF both

\* What is related to a product.
LEMMA FindRelatedIsGood ==
  ASSUME ShelfAssumption(Filtering), FilterTypes, NEW p \in Filtering.products
  PROVE  GoodPick(Filtered!FindRelated(p), p, {}, Filtering.maxRelated)
<1> DEFINE ids == listed[p].categories
           first == Filtered!RelatedBy(Filtered!OrElse(Filtered!Subcategories(p), ids), p, {},
                                       Filtering.maxRelated)
           room == Filtering.maxRelated - Len(first)
           second == Filtered!RelatedBy(Filtered!OrElse(ids \ Filtered!Subcategories(p), ids), p,
                                        Filtered!Excluded(first), room)
<1>1. Filtered!FindRelated(p) = IF ids = {} THEN <<>> ELSE first \o second
  BY DEF Filtered!FindRelated
<1>2. Filtering.maxRelated \in Nat BY DEF ShelfAssumption
<1>3. GoodPick(first, p, {}, Filtering.maxRelated) BY <1>2, RelatedByIsGood
<1> HIDE DEF first
<1>4. room \in Nat BY <1>2, <1>3 DEF GoodPick
<1> HIDE DEF room
<1>5. GoodPick(second, p, Filtered!Excluded(first), room) BY <1>4, RelatedByIsGood
<1> HIDE DEF second
<1>6. Filtered!Excluded(first) = {first[i] : i \in DOMAIN first}
  BY DEF Filtered!Excluded, Filtered!ToSet
<1>7. room = Filtering.maxRelated - Len(first) BY DEF room
<1>8. GoodPick(first \o second, p, {}, Filtering.maxRelated)
  BY <1>2, <1>3, <1>4, <1>5, <1>6, <1>7, PicksAdd
<1>9. GoodPick(<<>>, p, {}, Filtering.maxRelated) BY <1>2 DEF GoodPick
<1> QED BY <1>1, <1>8, <1>9

\* What is found and what is related.
LEMMA FilteredIsRight ==
  ASSUME ShelfAssumption(Filtering), FilterTypes
  PROVE  Filtered!CategoryCoversItsOwn /\ Filtered!RelatedCanBeBought
<1>1. Filtered!CategoryCoversItsOwn
  BY DEF Filtered!CategoryCoversItsOwn, Filtered!Matches, Filtered!WithDescendants
<1>2. ASSUME NEW p \in Filtering.products, NEW related, related = Filtered!FindRelated(p)
      PROVE  /\ Filtered!IsInjective(related) /\ Len(related) <= Filtering.maxRelated
             /\ \A q \in Filtered!ToSet(related) : q # p /\ listed[q].forSale /\ listed[q].stock > 0
  <2>1. GoodPick(related, p, {}, Filtering.maxRelated) BY <1>2, FindRelatedIsGood
  <2> HIDE <1>2
  <2>2. DOMAIN related = 1..Len(related) BY <2>1 DEF GoodPick
  <2> QED BY <2>1, <2>2 DEF GoodPick, Filtered!IsInjective, Filtered!ToSet
<1>3. Filtered!RelatedCanBeBought BY <1>2 DEF Filtered!RelatedCanBeBought
<1> QED BY <1>1, <1>3

\* Every step keeps FilterTypes.
LEMMA NextKeepsFilters ==
  ASSUME FilterTypes, [Filtered!Next]_Filtered!vars
  PROVE  FilterTypes'
<1>1. CASE Filtered!FetchNextPage BY <1>1 DEF Filtered!FetchNextPage, FilterTypes
<1>2. CASE Filtered!UpdateFilter BY <1>2 DEF Filtered!UpdateFilter, FilterTypes
<1>3. ASSUME NEW p \in Filtering.products, Filtered!Change(p) PROVE FilterTypes'
  BY <1>3 DEF Filtered!Change, FilterTypes
<1>4. CASE UNCHANGED Filtered!vars BY <1>4 DEF Filtered!vars, FilterTypes
<1> QED BY <1>1, <1>2, <1>3, <1>4 DEF Filtered!Next

\* Every reachable row and filter is as FilterTypes says.
LEMMA PartKeepsFilters ==
  MCSpec => [](part = "filtered" => FilterTypes)
<1>1. MCInit => (part = "filtered" => FilterTypes)
  BY DEF MCInit, Filtered!Init, FilterTypes
<1>2. ASSUME part = "filtered" => FilterTypes,
             [MCNext]_<<part, productVars, treeVars, listVars>>
      PROVE  (part = "filtered" => FilterTypes)'
  <2>1. CASE UNCHANGED <<part, productVars, treeVars, listVars>>
    <3>1. UNCHANGED <<part, Filtered!vars>> BY <2>1, Zenon DEF listVars, Filtered!vars
    <3> QED BY <3>1, <1>2, NextKeepsFilters
  <2>2. CASE ListNext
    <3>1. part' = part /\ (part = "filtered" => Filtered!Next) BY <2>2 DEF ListNext
    <3> QED BY <3>1, <1>2, NextKeepsFilters
  <2>3. CASE ProductsNext \/ TreeNext
    BY <2>3 DEF ProductsNext, TreeNext
  <2> QED BY <1>2, <2>1, <2>2, <2>3 DEF MCNext
<1> QED BY <1>1, <1>2, PTL DEF MCSpec

\* For any products, prices, amounts, categories and filters: while the catalogue
\* stands still the pages of a visitor put together are the list, no product twice
\* or skipped, with what has no stock last; what is found under a subcategory is
\* found under the category; and related products are different ones that can be
\* bought, no more than fit (products.service.ts:63-96, 555-579, 604-668).
THEOREM ListsAreAlwaysWhole ==
  ASSUME ShelfAssumption(Sorting), ShelfAssumption(Filtering)
  PROVE  MCSpec => []ListsAreWhole
<1>1. (part = "sorted" => PagesInv) /\ (part = "filtered" => FilterTypes) => ListsAreWhole
  BY PagesMakeTheSortedList, FilteredIsRight DEF ListsAreWhole
<1> QED BY <1>1, PartKeepsPages, PartKeepsFilters, PTL
=============================================================================
