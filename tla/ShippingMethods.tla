-------------------------- MODULE ShippingMethods --------------------------
(***************************************************************************)
(* The shipping methods of the administrators: the page                    *)
(* (admin/ShippingMethods.tsx) and admin-shipping-methods.service.ts.      *)
(* A method is never deleted, only turned off.  An edit sends every field  *)
(* of the form; update and setActive read the row, change their fields on  *)
(* the copy and save it, and a save writes each column that differs from   *)
(* the row as it is by then.                                               *)
(***************************************************************************)
EXTENDS Naturals

CONSTANTS Methods, Admins, None,
          Names, Costs,
          Apart \* bound: the kinds of requests that meet no other, a subset of Asked

Asked == { "create", "update", "toggle" }

VARIABLES
  row,    \* the table; None when there is no such method
  page,   \* of each administrator: the list it shows and the form
  req,    \* the request each page has under way
  wanted, \* what the last switch that was answered made of each method (history)
  warned, \* somebody was told that no method is left (history)
  met     \* kinds of requests that were under way next to another (history)

vars == <<row, page, req, wanted, warned, met>>

Row == [name : Names, cost : Costs, active : BOOLEAN]
Table == { r \in [Methods -> Row \cup {None}] :
             \A m, n \in Methods : m # n /\ r[m] # None /\ r[n] # None => r[m].name # r[n].name }

Blank == [editing |-> None, name |-> None, cost |-> None]
Idle == [op |-> "none", step |-> "idle", id |-> None, copy |-> None, to |-> FALSE]

Known(rows) == { m \in Methods : rows[m] # None }
ActiveIn(rows) == { m \in Known(rows) : rows[m].active }

Init ==
  /\ row \in { r \in Table : Known(r) # {} /\ ActiveIn(r) = Known(r) }
  /\ page = [a \in Admins |-> [list |-> row, form |-> Blank]]
  /\ req = [a \in Admins |-> Idle]
  /\ wanted = [m \in Methods |-> TRUE] /\ warned = FALSE /\ met = {}

-----------------------------------------------------------------------------
(***************************************************************************)
(* The page.                                                               *)
(***************************************************************************)
List(a) ==
  /\ page' = [page EXCEPT ![a].list = row]
  /\ UNCHANGED <<row, req, wanted, warned, met>>

StartEdit(a) ==
  /\ \E m \in Known(page[a].list) :
       page' = [page EXCEPT ![a].form = [editing |-> m, name |-> page[a].list[m].name, cost |-> page[a].list[m].cost]]
  /\ UNCHANGED <<row, req, wanted, warned, met>>

Type(a) ==
  /\ \E n \in Names, c \in Costs : page' = [page EXCEPT ![a].form.name = n, ![a].form.cost = c]
  /\ UNCHANGED <<row, req, wanted, warned, met>>

CancelEdit(a) ==
  /\ page[a].form.editing # None
  /\ page' = [page EXCEPT ![a].form = Blank]
  /\ UNCHANGED <<row, req, wanted, warned, met>>

Ask(a, r) ==
  /\ req[a] = Idle
  /\ req' = [req EXCEPT ![a] = r]
  /\ LET open == { req[b].op : b \in { b \in Admins : req[b] # Idle } }
         meeting == IF open = {} THEN {} ELSE open \cup {r.op}
     IN meeting \cap Apart = {} /\ met' = met \cup meeting
  /\ UNCHANGED <<row, page, wanted, warned>>

Save(a) ==
  LET f == page[a].form
      new == [name |-> f.name, cost |-> f.cost, active |-> TRUE]
  IN /\ f.name # None
     /\ IF f.editing = None THEN Ask(a, [Idle EXCEPT !.op = "create", !.step = "save", !.copy = new])
        ELSE Ask(a, [Idle EXCEPT !.op = "update", !.step = "read", !.id = f.editing, !.copy = new])

Toggle(a) ==
  \E m \in Known(page[a].list) :
    Ask(a, [Idle EXCEPT !.op = "toggle", !.step = "read", !.id = m, !.to = ~page[a].list[m].active])

-----------------------------------------------------------------------------
(***************************************************************************)
(* The service.                                                            *)
(***************************************************************************)
\* Mutant of Edited: the form turns the method on.
EditedOn(old, new) == new

\* update: the fields of the request on the copy of the row
Edited(old, new) == [old EXCEPT !.name = new.name, !.cost = new.cost]

Read(a) ==
  /\ req[a].step = "read"
  /\ LET old == row[req[a].id]
     IN req' = [req EXCEPT ![a].step = "save",
          ![a].copy = IF req[a].op = "update" THEN Edited(old, @) ELSE [old EXCEPT !.active = req[a].to]]
  /\ UNCHANGED <<row, page, wanted, warned, met>>

\* UX_shipping_methods_name_lower
NameTaken(name, m) == \E n \in Known(row) \ {m} : row[n].name = name

\* done: the form is blank again, whatever it holds by now.
Done(a) == page' = [page EXCEPT ![a].form = Blank, ![a].list = row']

SaveUnique(a) ==
  /\ req[a].step = "save"
  /\ \E m \in IF req[a].op = "create" THEN Methods \ Known(row) ELSE {req[a].id} :
       IF NameTaken(req[a].copy.name, m)
       THEN req' = [req EXCEPT ![a] = Idle] /\ UNCHANGED <<row, page>>
       ELSE /\ row' = [row EXCEPT ![m] = req[a].copy]
            /\ IF req[a].op = "toggle" THEN req' = [req EXCEPT ![a].step = "count"] /\ UNCHANGED page
               ELSE req' = [req EXCEPT ![a] = Idle] /\ Done(a)
  /\ UNCHANGED <<wanted, warned, met>>

LastDisabled(a) == ~req[a].to /\ ActiveIn(row) = {}

\* The answer of setActive, and what the page says of it.
CountActive(a) ==
  /\ req[a].step = "count"
  /\ warned' = (LastDisabled(a) \/ (warned /\ ActiveIn(row) = {}))
  /\ wanted' = [wanted EXCEPT ![req[a].id] = req[a].to]
  /\ page' = [page EXCEPT ![a].list = row]
  /\ req' = [req EXCEPT ![a] = Idle]
  /\ UNCHANGED <<row, met>>

Next == \E a \in Admins :
  \/ List(a) \/ StartEdit(a) \/ Type(a) \/ CancelEdit(a) \/ Save(a) \/ Toggle(a)
  \/ Read(a) \/ SaveUnique(a) \/ CountActive(a)

Spec == Init /\ [][Next]_vars

-----------------------------------------------------------------------------
\* Every method keeps a name of its own (59-69).
TypeOK ==
  /\ row \in Table
  /\ \A a \in Admins : page[a].form.editing \in Known(row) \cup {None}
  /\ \A a \in Admins : req[a].step = "count" => req[a].op = "toggle"

\* A method is on or off as the last switch left it: an edit, from a list of
\* any age, does not turn it (update, 30-37).
StatusIsAsSwitched ==
  (\A a \in Admins : req[a] = Idle) => \A m \in Known(row) : row[m].active = wanted[m]

\* Whoever leaves the checkout without methods is told, even when two
\* administrators turn off the last two at once (setActive, 45-51).
SomebodyIsWarned ==
  ActiveIn(row) = {} => warned \/ \E a \in Admins : req[a].step = "count"

\* The first while requests do not overlap; the second while no edit does, as an
\* edit may put back a switch that came in between.
MethodsAreAsSwitched ==
  /\ met = {} => StatusIsAsSwitched
  /\ "update" \notin met => SomebodyIsWarned
=============================================================================
