----------------------------- MODULE Addresses -----------------------------
(***************************************************************************)
(* The address book of a customer: users/addresses.service.ts, and the     *)
(* page of it (pages/account/Addresses.tsx), which acts on the list it     *)
(* loaded.  Each request reads the row it is about, may take the mark off  *)
(* the default, and saves the copy it read: a save writes every column     *)
(* that differs from the table, those the request did not touch included.  *)
(***************************************************************************)
EXTENDS Naturals, FiniteSets

CONSTANTS Ids, None,
          Texts,   \* what an address says, in any of its other columns
          Tabs,    \* pages of the customer
          MaxOpen, \* requests that may overlap
          Edits    \* what PATCH says of isDefault: a subset of Said

Said == { "absent", "true", "false" }

VARIABLES
  row,   \* the table
  shown, \* the list each page shows
  req    \* the request each page has under way

vars == <<row, shown, req>>

Row == [isActive : BOOLEAN, isDefault : BOOLEAN, text : Texts]
Free == [isActive |-> FALSE, isDefault |-> FALSE, text |-> CHOOSE x \in Texts : TRUE]
Idle == [op |-> "none", step |-> "idle", id |-> None, next |-> None, copy |-> Free]

Init ==
  /\ row = [i \in Ids |-> Free]
  /\ shown = [t \in Tabs |-> [i \in Ids |-> Free]]
  /\ req = [t \in Tabs |-> Idle]

-----------------------------------------------------------------------------
\* findAllForUser
Book(rows) == { i \in Ids : rows[i].isActive }
Defaults(rows) == { i \in Book(rows) : rows[i].isDefault }

\* findOwnedOrFail
Owned(i) == i \in Book(row)

Open(t, r) ==
  /\ req[t] = Idle
  /\ Cardinality({ u \in Tabs : req[u] # Idle }) < MaxOpen
  /\ req' = [req EXCEPT ![t] = r]
  /\ UNCHANGED <<row, shown>>

Goes(t, step) == req' = [req EXCEPT ![t].step = step]
Ends(t) == req' = [req EXCEPT ![t] = Idle]

\* Loaded when the page opens, and again after a request that went well.
List(t) ==
  /\ shown' = [shown EXCEPT ![t] = row]
  /\ UNCHANGED <<row, req>>

-----------------------------------------------------------------------------
(***************************************************************************)
(* What the page asks for; editing is offered by the service only.         *)
(***************************************************************************)
AskCreate(t) ==
  \E x \in Texts, d \in BOOLEAN :
    Open(t, [op |-> "create", step |-> "read", id |-> None, next |-> None,
             copy |-> [isActive |-> TRUE, isDefault |-> d, text |-> x]])

AskUpdate(t) ==
  \E i \in Book(shown[t]), x \in Texts, d \in Edits :
    Open(t, [op |-> "update", step |-> "read", id |-> i, next |-> d, copy |-> [Free EXCEPT !.text = x]])

\* handleDelete: the default needs another one in its place.
AskRemove(t) ==
  \E i \in Book(shown[t]) :
    LET others == Book(shown[t]) \ {i}
        chosen == IF shown[t][i].isDefault /\ others # {} THEN others ELSE {None}
    IN \E n \in chosen : Open(t, [Idle EXCEPT !.op = "remove", !.step = "read", !.id = i, !.next = n])

AskDefault(t) ==
  \E i \in Book(shown[t]) \ Defaults(shown[t]) :
    Open(t, [Idle EXCEPT !.op = "default", !.step = "read", !.id = i])

-----------------------------------------------------------------------------
\* Mutant of BecomesDefault: the first address is not marked.
BecomesDefaultIfAsked(copy) == copy.isDefault

BecomesDefault(copy) == Book(row) = {} \/ copy.isDefault

ReadCreate(t) ==
  /\ req[t].op = "create" /\ req[t].step = "read"
  /\ LET d == BecomesDefault(req[t].copy)
     IN req' = [req EXCEPT ![t].copy.isDefault = d,
                           ![t].step = IF d /\ Book(row) # {} THEN "clear" ELSE "save"]
  /\ UNCHANGED <<row, shown>>

\* findOwnedOrFail, then the fields of the request on the copy.
ReadUpdate(t) ==
  /\ req[t].op = "update" /\ req[t].step = "read"
  /\ LET i == req[t].id  said == req[t].next
         marked == IF said = "absent" THEN row[i].isDefault ELSE said = "true"
     IN IF ~Owned(i) THEN Ends(t)
        ELSE req' = [req EXCEPT
               ![t].copy = [isActive |-> row[i].isActive, isDefault |-> marked, text |-> @.text],
               ![t].step = IF said = "true" /\ ~row[i].isDefault THEN "clear" ELSE "save"]
  /\ UNCHANGED <<row, shown>>

ReadDefault(t) ==
  /\ req[t].op = "default" /\ req[t].step = "read"
  /\ IF ~Owned(req[t].id) THEN Ends(t)
     ELSE req' = [req EXCEPT ![t].copy = [row[req[t].id] EXCEPT !.isDefault = TRUE],
                             ![t].step = "clear"]
  /\ UNCHANGED <<row, shown>>

NeedsNext(i) == row[i].isDefault /\ Book(row) \ {i} # {}

Gone(copy) == [copy EXCEPT !.isActive = FALSE, !.isDefault = FALSE]

ReadRemove(t) ==
  /\ req[t].op = "remove" /\ req[t].step = "read"
  /\ LET i == req[t].id
     IN IF ~Owned(i) \/ (NeedsNext(i) /\ req[t].next \notin Book(row) \ {i}) THEN Ends(t)
        ELSE req' = [req EXCEPT
               ![t].copy = Gone(row[i]),
               ![t].step = IF NeedsNext(i) THEN "next" ELSE "save"]
  /\ UNCHANGED <<row, shown>>

MarkNext(t) ==
  /\ req[t].step = "next"
  /\ row' = [row EXCEPT ![req[t].next].isDefault = TRUE]
  /\ Goes(t, "save")
  /\ UNCHANGED <<shown>>

Unmarked == [i \in Ids |-> [row[i] EXCEPT !.isDefault = FALSE]]

ClearDefault(t) ==
  /\ req[t].step = "clear"
  /\ row' = Unmarked
  /\ Goes(t, "save")
  /\ UNCHANGED <<shown>>

Save(t) ==
  /\ req[t].step = "save"
  /\ \E i \in IF req[t].op = "create" THEN { j \in Ids : row[j] = Free } ELSE {req[t].id} :
       row' = [row EXCEPT ![i] = req[t].copy]
  /\ Ends(t)
  /\ UNCHANGED shown

\* A removed row that no page shows and no request is about may be forgotten.
Forget(i) ==
  /\ ~row[i].isActive /\ row[i] # Free
  /\ \A t \in Tabs : req[t].id # i /\ req[t].next # i /\ ~shown[t][i].isActive
  /\ row' = [row EXCEPT ![i] = Free]
  /\ UNCHANGED <<shown, req>>

Next ==
  \/ \E t \in Tabs :
       \/ List(t) \/ AskCreate(t) \/ AskUpdate(t) \/ AskRemove(t) \/ AskDefault(t)
       \/ ReadCreate(t) \/ ReadUpdate(t) \/ ReadDefault(t) \/ ReadRemove(t)
       \/ MarkNext(t) \/ ClearDefault(t) \/ Save(t)
  \/ \E i \in Ids : Forget(i)

Spec == Init /\ [][Next]_vars

-----------------------------------------------------------------------------
\* Values of their kinds; an address with the mark of the default is in the book.
TypeOK ==
  /\ row \in [Ids -> Row] /\ shown \in [Tabs -> [Ids -> Row]]
  /\ \A t \in Tabs : req[t].copy \in Row /\ (req[t].step = "next" => req[t].next \in Ids)
  /\ \A i \in Ids : row[i].isDefault => row[i].isActive

\* Between requests a book that is not empty has one default: the first is
\* marked, another mark takes it over, and the default does not leave without
\* another in its place (create, 29-31; remove, 57-62).
OneDefault ==
  (\A t \in Tabs : req[t] = Idle) /\ Book(row) # {} => Cardinality(Defaults(row)) = 1

=============================================================================
