------------------------------ MODULE RowLocks ------------------------------
(***************************************************************************)
(* The row locks that the transactions of the orders take.  A row is       *)
(* locked by a SELECT ... FOR UPDATE or by the first UPDATE of it, and is  *)
(* kept until the transaction ends; a transaction that wants a row of      *)
(* another one waits.  A handler is the list of the batches of rows it     *)
(* locks; a batch of the stock is walked in the order of the variants'     *)
(* identifiers, or in the order in which the lines come.                   *)
(***************************************************************************)
EXTENDS Naturals, Sequences

CONSTANTS
  Tx,          \* transactions
  Orders, Requests, Variants, Carts,   \* rows
  OrderOf,     \* the order of a return request
  Lines,       \* the variants of the lines of an order
  Rank,        \* the order of the locks: carts, orders, requests, variants
  MaxRank,     \* the rank of the last row
  None

Rows == Orders \cup Requests \cup Variants \cup Carts

ASSUME RowsAssumption ==
  /\ OrderOf \in [Requests -> Orders]
  /\ Lines \in [Orders -> SUBSET Variants]
  /\ None \notin Rows

ASSUME RankAssumption ==
  /\ MaxRank \in Nat
  /\ Rank \in [Rows -> 0 .. MaxRank]
  /\ \A r, s \in Rows : Rank[r] = Rank[s] => r = s
  /\ \A c \in Carts, v \in Variants : Rank[c] < Rank[v]
  /\ \A o \in Orders, q \in Requests : Rank[o] < Rank[q]
  /\ \A o \in Orders, v \in Variants : Rank[o] < Rank[v]
  /\ \A q \in Requests, v \in Variants : Rank[q] < Rank[v]

VARIABLES
  handler,  \* the handler whose transaction it is or was last, or None
  plan,     \* the batches that a transaction has still to lock
  want,     \* the row it has asked for, or None
  held      \* the rows it has locked

vars == <<handler, plan, want, held>>

Init ==
  /\ handler = [t \in Tx |-> None]
  /\ plan = [t \in Tx |-> <<>>]
  /\ want = [t \in Tx |-> None]
  /\ held = [t \in Tx |-> {}]
-----------------------------------------------------------------------------
(* The handlers.                                                           *)

Sorted(S) == [rows |-> S, sorted |-> TRUE]
AsTheyCome(S) == [rows |-> S, sorted |-> FALSE]
Row(r) == Sorted({r})

\* Mutant of Settle: the stock first.
SettleStockFirst(o) == <<Sorted(Lines[o]), Row(o)>>

\* Payments, cancellations, expirations and retries: the order, its stock.
Settle(o) == <<Row(o), Sorted(Lines[o])>>

\* approve, reject and a receive that refunds: the order, the request and
\* the stock that comes back.
Resolve(q, back) == <<Row(OrderOf[q]), Row(q), Sorted(back)>>

\* A receive that exchanges takes a replacement for every line after all of
\* them came back.
Exchange(q, back, taken) == Append(Resolve(q, back), AsTheyCome(taken))

Dispatch(q) == <<Row(q), Row(OrderOf[q])>>

Checkout(c, bought) == <<Row(c), Sorted(bought)>>

Adjust(v) == <<Row(v)>>

\* What a transaction of each handler locks.
Jobs ==
  [ settle   |-> {Settle(o) : o \in Orders},
    resolve  |-> {Resolve(q, S) : q \in Requests, S \in SUBSET Variants},
    checkout |-> {Checkout(c, S) : c \in Carts, S \in SUBSET Variants},
    adjust   |-> {Adjust(v) : v \in Variants},
    exchange |-> {Exchange(q, S, R) : q \in Requests, S, R \in SUBSET Variants},
    dispatch |-> {Dispatch(q) : q \in Requests} ]

\* The handlers that lock in the order of Rank.
InOrder == {"settle", "resolve", "checkout", "adjust"}
-----------------------------------------------------------------------------
Running(t) == plan[t] # <<>> \/ held[t] # {}

Begin(t) ==
  /\ ~Running(t) /\ want[t] = None
  /\ \E h \in DOMAIN Jobs : \E job \in Jobs[h] :
       /\ handler' = [handler EXCEPT ![t] = h]
       /\ plan' = [plan EXCEPT ![t] = job]
  /\ UNCHANGED <<want, held>>

\* The rows of a batch that may be asked for next.
NextRows(batch) ==
  { r \in batch.rows :
      batch.sorted => \A s \in batch.rows : Rank[r] <= Rank[s] }

\* The batch without the row r, that has just been asked for.
Without(batch, r) == [batch EXCEPT !.rows = @ \ {r}]

Ask(t) ==
  /\ want[t] = None /\ plan[t] # <<>>
  /\ \E r \in NextRows(Head(plan[t])) :
       /\ want' = [want EXCEPT ![t] = r]
       /\ plan' = [plan EXCEPT ![t] = <<Without(Head(@), r)>> \o Tail(@)]
  /\ UNCHANGED <<handler, held>>

BatchDone(t) ==
  /\ want[t] = None /\ plan[t] # <<>> /\ Head(plan[t]).rows = {}
  /\ plan' = [plan EXCEPT ![t] = Tail(@)]
  /\ UNCHANGED <<handler, want, held>>

\* The database grants a row that no other transaction holds.
Granted(t) ==
  /\ want[t] # None
  /\ \A u \in Tx \ {t} : want[t] \notin held[u]
  /\ held' = [held EXCEPT ![t] = @ \cup {want[t]}]
  /\ want' = [want EXCEPT ![t] = None]
  /\ UNCHANGED <<handler, plan>>

\* The transaction commits, or a check of its handler rolls it back earlier.
End(t) ==
  /\ Running(t) /\ want[t] = None
  /\ plan' = [plan EXCEPT ![t] = <<>>]
  /\ held' = [held EXCEPT ![t] = {}]
  /\ UNCHANGED <<handler, want>>

Waits(t, u) == t # u /\ want[t] # None /\ want[t] \in held[u]

Circle(S) == S # {} /\ \A t \in S : \E u \in S : Waits(t, u)

\* The database finds a circle and aborts a transaction of it.
Abort(t) ==
  /\ \E S \in SUBSET Tx : t \in S /\ Circle(S)
  /\ plan' = [plan EXCEPT ![t] = <<>>]
  /\ held' = [held EXCEPT ![t] = {}]
  /\ want' = [want EXCEPT ![t] = None]
  /\ UNCHANGED handler

Next ==
  \E t \in Tx :
    Begin(t) \/ Ask(t) \/ BatchDone(t) \/ Granted(t) \/ End(t) \/ Abort(t)

Spec == Init /\ [][Next]_vars
-----------------------------------------------------------------------------
Batch == [rows : SUBSET Rows, sorted : BOOLEAN]

\* Types: rows are asked for, held and planned, and nothing else.
TypeOK ==
  /\ handler \in [Tx -> DOMAIN Jobs \cup {None}]
  /\ plan \in [Tx -> Seq(Batch)]
  /\ want \in [Tx -> Rows \cup {None}]
  /\ held \in [Tx -> SUBSET Rows]

\* The handlers that lock in the order of the rows never wait for each other in
\* a circle: who deadlocks has an exchange or the dispatch of a replacement among
\* them (the comment of "sorted" in StockReservationService, and the one of
\* lockRequest, "the same order of locks").
NoDeadlock == \A S \in SUBSET {t \in Tx : handler[t] \in InOrder} : ~Circle(S)

\* Whoever is waited for waits itself, if at all, for a row further on.
WaitsClimb ==
  \A t, u \in Tx :
    Waits(t, u) /\ want[u] # None /\ handler[u] \in InOrder =>
      Rank[want[t]] < Rank[want[u]]
=============================================================================
