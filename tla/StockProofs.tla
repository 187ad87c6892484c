---------------------------- MODULE StockProofs ----------------------------
(***************************************************************************)
(* Four subjects that meet at the stock.  Transactions of the handlers     *)
(* that lock their rows in the order of Rank never wait for each other in  *)
(* a circle, whatever the others do.  The operations on a customer's carts *)
(* read before they write: what they leave in a cart, and what they leave  *)
(* of it once it became an order (Basket).  The adjustments of an          *)
(* administrator save over the stock that orders move (Adjusting).  And    *)
(* the cart of a visitor goes to his account by a preview and a            *)
(* confirmation, while the stock moves (Visitor).                          *)
(***************************************************************************)
EXTENDS StockMC, SumsProofs, TLAPS, WellFoundedInduction

\* All rows of a batch come before all rows of the later ones.
BatchesClimb(p) ==
  \A i, j \in DOMAIN p : i < j =>
    \A r \in p[i].rows, s \in p[j].rows : Rank[r] < Rank[s]

AllSorted(p) == \A i \in DOMAIN p : p[i].sorted

Climbs(p) == p \in Seq(Batch) /\ BatchesClimb(p) /\ AllSorted(p)

\* What a transaction holds or waits for comes before what it has still to ask
\* for, and what it holds before what it waits for.
Ahead(t) ==
  /\ Climbs(plan[t])
  /\ \A i \in DOMAIN plan[t] : \A s \in plan[t][i].rows :
       /\ \A h \in held[t] : Rank[h] < Rank[s]
       /\ want[t] # None => Rank[want[t]] < Rank[s]
  /\ want[t] # None => \A h \in held[t] : Rank[h] < Rank[want[t]]

IInv == TypeOK /\ \A t \in Tx : handler[t] \in InOrder => Ahead(t)

-----------------------------------------------------------------------------
\* Every handler of InOrder locks in the order of Rank.
LEMMA JobsClimb ==
  ASSUME NEW h \in InOrder, NEW p \in Jobs[h]
  PROVE  Climbs(p)
<1> USE RowsAssumption, RankAssumption
<1>1. CASE \E o \in Orders : p = Settle(o)
  <2>1. PICK o \in Orders : p = Settle(o) BY <1>1
  <2>2. p = <<[rows |-> {o}, sorted |-> TRUE], [rows |-> Lines[o], sorted |-> TRUE]>>
    BY <2>1 DEF Settle, Row, Sorted
  <2>3. Lines[o] \in SUBSET Variants OBVIOUS
  <2>4. p \in Seq(Batch) BY <2>2, <2>3 DEF Batch, Rows
  <2>5. DOMAIN p = {1, 2} /\ p[1].rows = {o} /\ p[2].rows = Lines[o] /\ p[1].sorted /\ p[2].sorted
    BY <2>2
  <2>6. BatchesClimb(p) /\ AllSorted(p)
    BY <2>5, <2>3 DEF BatchesClimb, AllSorted
  <2> QED BY <2>4, <2>6 DEF Climbs
<1>2. CASE \E q \in Requests, S \in SUBSET Variants : p = Resolve(q, S)
  <2>1. PICK q \in Requests, S \in SUBSET Variants : p = Resolve(q, S) BY <1>2
  <2>2. p = <<[rows |-> {OrderOf[q]}, sorted |-> TRUE], [rows |-> {q}, sorted |-> TRUE],
             [rows |-> S, sorted |-> TRUE]>>
    BY <2>1 DEF Resolve, Row, Sorted
  <2>3. OrderOf[q] \in Orders OBVIOUS
  <2>4. p \in Seq(Batch) BY <2>2, <2>3 DEF Batch, Rows
  <2>5. /\ DOMAIN p = {1, 2, 3} /\ p[1].rows = {OrderOf[q]} /\ p[2].rows = {q}
        /\ p[3].rows = S /\ p[1].sorted /\ p[2].sorted /\ p[3].sorted
    BY <2>2
  <2>6. BatchesClimb(p) /\ AllSorted(p)
    BY <2>5, <2>3 DEF BatchesClimb, AllSorted
  <2> QED BY <2>4, <2>6 DEF Climbs
<1>3. CASE \E c \in Carts, S \in SUBSET Variants : p = Checkout(c, S)
  <2>1. PICK c \in Carts, S \in SUBSET Variants : p = Checkout(c, S) BY <1>3
  <2>2. p = <<[rows |-> {c}, sorted |-> TRUE], [rows |-> S, sorted |-> TRUE]>>
    BY <2>1 DEF Checkout, Row, Sorted
  <2>4. p \in Seq(Batch) BY <2>2 DEF Batch, Rows
  <2>5. DOMAIN p = {1, 2} /\ p[1].rows = {c} /\ p[2].rows = S /\ p[1].sorted /\ p[2].sorted
    BY <2>2
  <2>6. BatchesClimb(p) /\ AllSorted(p)
    BY <2>5 DEF BatchesClimb, AllSorted
  <2> QED BY <2>4, <2>6 DEF Climbs
<1>4. CASE \E v \in Variants : p = Adjust(v)
  <2>1. PICK v \in Variants : p = <<[rows |-> {v}, sorted |-> TRUE]>>
    BY <1>4 DEF Adjust, Row, Sorted
  <2>4. p \in Seq(Batch) BY <2>1 DEF Batch, Rows
  <2>6. BatchesClimb(p) /\ AllSorted(p)
    BY <2>1 DEF BatchesClimb, AllSorted
  <2> QED BY <2>4, <2>6 DEF Climbs
<1>5. \/ h = "settle" /\ Jobs[h] = {Settle(o) : o \in Orders}
      \/ h = "resolve" /\ Jobs[h] = {Resolve(q, S) : q \in Requests, S \in SUBSET Variants}
      \/ h = "checkout" /\ Jobs[h] = {Checkout(c, S) : c \in Carts, S \in SUBSET Variants}
      \/ h = "adjust" /\ Jobs[h] = {Adjust(v) : v \in Variants}
  BY DEF Jobs, InOrder
<1> QED BY <1>1, <1>2, <1>3, <1>4, <1>5

\* Every handler locks rows.
LEMMA JobsAreBatches ==
  ASSUME NEW h \in DOMAIN Jobs, NEW p \in Jobs[h]
  PROVE  p \in Seq(Batch)
<1> USE RowsAssumption
<1>1. CASE h \in InOrder
  BY <1>1, JobsClimb DEF Climbs
<1>2. CASE h = "exchange"
  <2>1. Jobs[h] = {Exchange(q, S, R) : q \in Requests, S, R \in SUBSET Variants}
    BY <1>2 DEF Jobs
  <2>2. PICK q \in Requests, S \in SUBSET Variants, R \in SUBSET Variants : p = Exchange(q, S, R)
    BY <2>1
  <2>3. OrderOf[q] \in Rows /\ q \in Rows /\ S \in SUBSET Rows /\ R \in SUBSET Rows
    BY DEF Rows
  <2>4. /\ [rows |-> {OrderOf[q]}, sorted |-> TRUE] \in Batch
        /\ [rows |-> {q}, sorted |-> TRUE] \in Batch
        /\ [rows |-> S, sorted |-> TRUE] \in Batch
        /\ [rows |-> R, sorted |-> FALSE] \in Batch
    BY <2>3 DEF Batch
  <2>5. Resolve(q, S) \in Seq(Batch)
    BY <2>4 DEF Resolve, Row, Sorted
  <2> QED BY <2>2, <2>4, <2>5 DEF Exchange, AsTheyCome
<1>3. CASE h = "dispatch"
  <2>1. Jobs[h] = {Dispatch(q) : q \in Requests}
    BY <1>3 DEF Jobs
  <2>2. PICK q \in Requests : p = Dispatch(q)
    BY <2>1
  <2>3. OrderOf[q] \in Rows /\ q \in Rows
    BY DEF Rows
  <2>4. /\ [rows |-> {OrderOf[q]}, sorted |-> TRUE] \in Batch
        /\ [rows |-> {q}, sorted |-> TRUE] \in Batch
    BY <2>3 DEF Batch
  <2> QED BY <2>2, <2>4 DEF Dispatch, Row, Sorted
<1>4. h \in InOrder \/ h = "exchange" \/ h = "dispatch"
  BY DEF Jobs, InOrder
<1> QED BY <1>1, <1>2, <1>3, <1>4

\* Asking for a row takes it from the first batch and leaves the others.
LEMMA AskedPlan ==
  ASSUME NEW p \in Seq(Batch), p # <<>>, NEW b \in Batch
  PROVE  LET q == <<b>> \o Tail(p)
         IN /\ q \in Seq(Batch) /\ DOMAIN q = DOMAIN p /\ q[1] = b
            /\ \A i \in DOMAIN p : i # 1 => q[i] = p[i]
<1> DEFINE q == <<b>> \o Tail(p)
<1>1. Tail(p) \in Seq(Batch) /\ Len(p) \in Nat \ {0} /\ Len(Tail(p)) = Len(p) - 1
  OBVIOUS
<1>2. q \in Seq(Batch) /\ Len(q) = Len(p)
  BY <1>1
<1>3. DOMAIN q = DOMAIN p
  BY <1>2
<1>4. q[1] = b
  BY <1>1
<1>5. ASSUME NEW i \in DOMAIN p, i # 1
      PROVE  q[i] = p[i]
  BY <1>1, <1>5
<1> QED BY <1>2, <1>3, <1>4, <1>5

\* A batch without one of its rows keeps the others.
LEMMA WithoutRow ==
  ASSUME NEW b \in Batch, NEW r
  PROVE  Without(b, r).rows = b.rows \ {r} /\ Without(b, r).sorted = b.sorted
BY DEF Without, Batch

\* What Tail leaves of a plan.
LEMMA RestOfPlan ==
  ASSUME NEW p \in Seq(Batch), p # <<>>
  PROVE  /\ Tail(p) \in Seq(Batch)
         /\ \A i \in DOMAIN Tail(p) :
              i \in Nat /\ i + 1 \in DOMAIN p /\ Tail(p)[i] = p[i + 1]
OBVIOUS

-----------------------------------------------------------------------------
LEMMA NothingClimbs == Climbs(<<>>) /\ DOMAIN <<>> = {}
<1>1. <<>> \in Seq(Batch) /\ DOMAIN <<>> = {}
  OBVIOUS
<1> QED BY <1>1 DEF Climbs, BatchesClimb, AllSorted

\* The initial state: nobody has begun.
LEMMA InitIInv == Init => IInv
<1> SUFFICES ASSUME Init PROVE IInv
  OBVIOUS
<1>1. TypeOK
  BY DEF Init, TypeOK
<1>2. ASSUME NEW t \in Tx PROVE Ahead(t)
  <2>1. plan[t] = <<>> /\ want[t] = None /\ held[t] = {}
    BY DEF Init
  <2>2. Climbs(plan[t]) /\ DOMAIN plan[t] = {}
    BY <2>1, NothingClimbs
  <2> QED BY <2>1, <2>2 DEF Ahead
<1> QED BY <1>1, <1>2 DEF IInv

LEMMA BeginIInv ==
  ASSUME IInv, NEW t \in Tx, Begin(t)
  PROVE  IInv'
<1>0. PICK h \in DOMAIN Jobs : \E job \in Jobs[h] :
        /\ handler' = [handler EXCEPT ![t] = h]
        /\ plan' = [plan EXCEPT ![t] = job]
  BY DEF Begin
<1>1. PICK job \in Jobs[h] :
        /\ handler' = [handler EXCEPT ![t] = h]
        /\ plan' = [plan EXCEPT ![t] = job]
  BY <1>0
<1>2. job \in Seq(Batch) /\ (h \in InOrder => Climbs(job))
  BY JobsAreBatches, JobsClimb
<1>3. want' = want /\ held' = held /\ want[t] = None /\ held[t] = {}
  BY DEF Begin, Running
<1>4. /\ plan'[t] = job /\ handler'[t] = h
      /\ \A u \in Tx \ {t} : plan'[u] = plan[u] /\ handler'[u] = handler[u]
  BY <1>1 DEF IInv, TypeOK
<1>5. TypeOK'
  BY <1>1, <1>2, <1>3 DEF IInv, TypeOK
<1>6. ASSUME NEW u \in Tx, handler'[u] \in InOrder PROVE Ahead(u)'
  <2>1. CASE u = t
    BY <2>1, <1>2, <1>3, <1>4, <1>6 DEF Ahead, Climbs, BatchesClimb, AllSorted
  <2>2. CASE u # t
    BY <2>2, <1>3, <1>4, <1>6 DEF IInv, Ahead, Climbs, BatchesClimb, AllSorted
  <2> QED BY <2>1, <2>2
<1> QED BY <1>5, <1>6 DEF IInv

LEMMA AskIInv ==
  ASSUME IInv, NEW t \in Tx, Ask(t)
  PROVE  IInv'
<1>1. PICK r \in NextRows(Head(plan[t])) :
        /\ want' = [want EXCEPT ![t] = r]
        /\ plan' = [plan EXCEPT ![t] = <<Without(Head(plan[t]), r)>> \o Tail(plan[t])]
  BY DEF Ask, IInv, TypeOK
<1>2. held' = held /\ handler' = handler /\ want[t] = None /\ plan[t] # <<>> /\ plan[t] \in Seq(Batch)
  BY DEF Ask, IInv, TypeOK
<1>3. PICK p : p = plan[t]
  OBVIOUS
<1>4. PICK q : q = <<Without(Head(p), r)>> \o Tail(p)
  OBVIOUS
<1>5. r \in Head(p).rows /\ Head(p) = p[1] /\ 1 \in DOMAIN p /\ p[1] \in Batch
  BY <1>1, <1>2, <1>3 DEF NextRows
<1>6. /\ q \in Seq(Batch) /\ DOMAIN q = DOMAIN p /\ q[1] = Without(p[1], r)
      /\ \A i \in DOMAIN p : i # 1 => q[i] = p[i]
  <2>1. Without(Head(p), r) \in Batch
    BY <1>5 DEF Without, Batch
  <2>2. p \in Seq(Batch) /\ p # <<>>
    BY <1>2, <1>3
  <2> QED BY <1>4, <1>5, <2>1, <2>2, AskedPlan
<1>7. /\ q[1].rows = p[1].rows \ {r} /\ q[1].sorted = p[1].sorted
      /\ \A i \in DOMAIN p : i # 1 => q[i] = p[i]
  BY <1>5, <1>6, WithoutRow
<1>8. r \in Rows
  BY <1>5 DEF Batch
<1>9. /\ plan'[t] = q /\ want'[t] = r
      /\ \A u \in Tx \ {t} : plan'[u] = plan[u] /\ want'[u] = want[u]
  BY <1>1, <1>3, <1>4 DEF IInv, TypeOK
<1>10. TypeOK'
  BY <1>1, <1>2, <1>3, <1>4, <1>6, <1>8 DEF IInv, TypeOK
<1>11. \A i \in DOMAIN p : q[i].rows \subseteq p[i].rows /\ q[i].sorted = p[i].sorted
  BY <1>7
<1>12. CASE handler[t] \notin InOrder
  BY <1>2, <1>9, <1>10, <1>12 DEF IInv, Ahead, Climbs, BatchesClimb, AllSorted
<1>13. CASE handler[t] \in InOrder
  <2>1. Ahead(t) /\ Climbs(p) /\ p[1].sorted
    BY <1>3, <1>5, <1>13 DEF IInv, Ahead, Climbs, AllSorted
  <2>2. Climbs(q)
    BY <1>6, <1>11, <2>1 DEF Climbs, BatchesClimb, AllSorted
  <2>3. ASSUME NEW i \in DOMAIN p, NEW s \in q[i].rows PROVE Rank[r] < Rank[s]
    <3>1. CASE i = 1
      <4>1. s \in p[1].rows /\ s # r
        BY <3>1, <1>7
      <4>2. Rank[r] <= Rank[s]
        BY <1>1, <1>3, <1>5, <2>1, <4>1 DEF NextRows
      <4>3. Rank[r] # Rank[s]
        BY <4>1, <1>5, <1>8, RankAssumption DEF Batch
      <4>4. Rank[r] \in Nat /\ Rank[s] \in Nat
        BY <4>1, <1>5, <1>8, RankAssumption DEF Batch
      <4> QED BY <4>2, <4>3, <4>4
    <3>2. CASE i # 1
      <4>1. i \in Nat /\ 1 < i /\ s \in p[i].rows
        BY <3>2, <1>7, <1>2, <1>3
      <4> QED BY <4>1, <1>5, <2>1 DEF Climbs, BatchesClimb
    <3> QED BY <3>1, <3>2
  <2>4. \A h \in held[t] : Rank[h] < Rank[r]
    BY <1>3, <1>5, <2>1 DEF Ahead
  <2>5. ASSUME NEW i \in DOMAIN p, NEW s \in q[i].rows, NEW h \in held[t]
        PROVE  Rank[h] < Rank[s]
    BY <1>3, <1>11, <2>1 DEF Ahead
  <2>6. ASSUME NEW u \in Tx, handler[u] \in InOrder PROVE Ahead(u)'
    <3>1. CASE u = t
      BY <3>1, <1>2, <1>6, <1>9, <2>2, <2>3, <2>4, <2>5
      DEF Ahead, Climbs, BatchesClimb, AllSorted
    <3>2. CASE u # t
      BY <3>2, <1>2, <1>9, <2>6 DEF IInv, Ahead, Climbs, BatchesClimb, AllSorted
    <3> QED BY <3>1, <3>2
  <2> QED BY <1>2, <1>10, <2>6 DEF IInv
<1> QED BY <1>12, <1>13

LEMMA BatchDoneIInv ==
  ASSUME IInv, NEW t \in Tx, BatchDone(t)
  PROVE  IInv'
<1>1. /\ plan' = [plan EXCEPT ![t] = Tail(plan[t])] /\ want' = want /\ held' = held
      /\ handler' = handler
      /\ want[t] = None /\ plan[t] # <<>> /\ plan[t] \in Seq(Batch)
  BY DEF BatchDone, IInv, TypeOK
<1>2. PICK p : p = plan[t]
  OBVIOUS
<1>3. PICK q : q = Tail(p)
  OBVIOUS
<1>4. /\ q \in Seq(Batch)
      /\ \A i \in DOMAIN q : i \in Nat /\ i + 1 \in DOMAIN p /\ q[i] = p[i + 1]
  BY <1>1, <1>2, <1>3, RestOfPlan
<1>5. plan'[t] = q /\ \A u \in Tx \ {t} : plan'[u] = plan[u]
  BY <1>1, <1>2, <1>3 DEF IInv, TypeOK
<1>6. TypeOK'
  BY <1>1, <1>2, <1>3, <1>4 DEF IInv, TypeOK
<1>7. ASSUME NEW u \in Tx, handler[u] \in InOrder PROVE Ahead(u)'
  <2>1. CASE u = t
    <3>1. Ahead(t) /\ Climbs(p)
      BY <2>1, <1>2, <1>7 DEF IInv, Ahead
    <3>2. AllSorted(q)
      BY <1>4, <3>1 DEF Climbs, AllSorted
    <3>3. ASSUME NEW i \in DOMAIN q, NEW j \in DOMAIN q, i < j,
                 NEW r \in q[i].rows, NEW s \in q[j].rows
          PROVE  Rank[r] < Rank[s]
      <4>1. i + 1 < j + 1 /\ i + 1 \in DOMAIN p /\ j + 1 \in DOMAIN p
        BY <1>4, <3>3
      <4>2. r \in p[i + 1].rows /\ s \in p[j + 1].rows
        BY <1>4
      <4> QED BY <4>1, <4>2, <3>1 DEF Climbs, BatchesClimb
    <3>4. Climbs(q)
      BY <1>4, <3>2, <3>3 DEF Climbs, BatchesClimb
    <3>5. ASSUME NEW i \in DOMAIN q, NEW s \in q[i].rows, NEW h \in held[t]
          PROVE  Rank[h] < Rank[s]
      BY <1>2, <1>4, <3>1 DEF Ahead
    <3> QED BY <2>1, <1>1, <1>5, <3>4, <3>5 DEF Ahead, Climbs, BatchesClimb, AllSorted
  <2>2. CASE u # t
    BY <2>2, <1>1, <1>5, <1>7 DEF IInv, Ahead, Climbs, BatchesClimb, AllSorted
  <2> QED BY <2>1, <2>2
<1> QED BY <1>1, <1>6, <1>7 DEF IInv

LEMMA GrantedIInv ==
  ASSUME IInv, NEW t \in Tx, Granted(t)
  PROVE  IInv'
<1>1. /\ held' = [held EXCEPT ![t] = held[t] \cup {want[t]}]
      /\ want' = [want EXCEPT ![t] = None] /\ plan' = plan /\ want[t] # None
      /\ handler' = handler
  BY DEF Granted, IInv, TypeOK
<1>2. TypeOK'
  BY <1>1 DEF IInv, TypeOK
<1>3. /\ held'[t] = held[t] \cup {want[t]} /\ want'[t] = None
      /\ \A u \in Tx \ {t} : held'[u] = held[u] /\ want'[u] = want[u]
  BY <1>1 DEF IInv, TypeOK
<1>4. ASSUME NEW u \in Tx, handler[u] \in InOrder PROVE Ahead(u)'
  <2>1. CASE u = t
    BY <2>1, <1>1, <1>3, <1>4 DEF IInv, Ahead, Climbs, BatchesClimb, AllSorted
  <2>2. CASE u # t
    BY <2>2, <1>1, <1>3, <1>4 DEF IInv, Ahead, Climbs, BatchesClimb, AllSorted
  <2> QED BY <2>1, <2>2
<1> QED BY <1>1, <1>2, <1>4 DEF IInv

\* A transaction that ends or is aborted leaves the others as they are.
LEMMA LeftIInv ==
  ASSUME IInv, NEW t \in Tx, handler' = handler,
         held' = [held EXCEPT ![t] = {}], plan' = [plan EXCEPT ![t] = <<>>],
         want' = [want EXCEPT ![t] = None]
  PROVE  IInv'
<1>1. TypeOK'
  BY DEF IInv, TypeOK
<1>2. /\ held'[t] = {} /\ plan'[t] = <<>> /\ want'[t] = None
      /\ \A u \in Tx \ {t} : held'[u] = held[u] /\ plan'[u] = plan[u] /\ want'[u] = want[u]
  BY DEF IInv, TypeOK
<1>3. ASSUME NEW u \in Tx, handler[u] \in InOrder PROVE Ahead(u)'
  <2>1. CASE u = t
    <3>1. plan'[u] = <<>> /\ want'[u] = None /\ held'[u] = {}
      BY <2>1, <1>2
    <3>2. Climbs(plan'[u]) /\ DOMAIN plan'[u] = {}
      BY <3>1, NothingClimbs
    <3> QED BY <3>1, <3>2 DEF Ahead, Climbs, BatchesClimb, AllSorted
  <2>2. CASE u # t
    BY <2>2, <1>2, <1>3 DEF IInv, Ahead, Climbs, BatchesClimb, AllSorted
  <2> QED BY <2>1, <2>2
<1> QED BY <1>1, <1>3 DEF IInv

LEMMA EndIInv ==
  ASSUME IInv, NEW t \in Tx, End(t)
  PROVE  IInv'
<1>1. /\ held' = [held EXCEPT ![t] = {}] /\ handler' = handler
      /\ plan' = [plan EXCEPT ![t] = <<>>] /\ want' = want /\ want[t] = None
  BY DEF End
<1>2. want' = [want EXCEPT ![t] = None]
  BY <1>1 DEF IInv, TypeOK
<1> QED BY <1>1, <1>2, LeftIInv

LEMMA AbortIInv ==
  ASSUME IInv, NEW t \in Tx, Abort(t)
  PROVE  IInv'
BY LeftIInv DEF Abort

LEMMA NextIInv == IInv /\ [Next]_vars => IInv'
<1> SUFFICES ASSUME IInv, [Next]_vars PROVE IInv'
  OBVIOUS
<1>1. CASE Next
  <2>1. PICK t \in Tx :
          Begin(t) \/ Ask(t) \/ BatchDone(t) \/ Granted(t) \/ End(t) \/ Abort(t)
    BY <1>1 DEF Next
  <2> QED
    BY <2>1, BeginIInv, AskIInv, BatchDoneIInv, GrantedIInv, EndIInv, AbortIInv
<1>2. CASE UNCHANGED vars
  BY <1>2 DEF vars, IInv, TypeOK, Ahead, Climbs, BatchesClimb, AllSorted
<1> QED BY <1>1, <1>2

LEMMA SpecIInv == Spec => []IInv
BY InitIInv, NextIInv, PTL DEF Spec

-----------------------------------------------------------------------------
\* A row that is waited for comes before the row that its holder waits for.
LEMMA HeldIsBehind == IInv => WaitsClimb
<1> SUFFICES ASSUME IInv, NEW t \in Tx, NEW u \in Tx, Waits(t, u), want[u] # None,
                    handler[u] \in InOrder
             PROVE  Rank[want[t]] < Rank[want[u]]
  BY DEF WaitsClimb
<1> QED BY DEF IInv, Ahead, Waits

\* Among waiting transactions one waits for a row of the highest rank, and
\* whoever it waits for waits for nobody.
LEMMA NobodyInACircle ==
  ASSUME IInv, NEW S \in SUBSET {t \in Tx : handler[t] \in InOrder}, Circle(S)
  PROVE  FALSE
<1>1. \A t \in S : t \in Tx /\ want[t] \in Rows /\ want[t] # None
  BY DEF IInv, TypeOK, Circle, Waits
<1>2. PICK T : T = {MaxRank - Rank[want[t]] : t \in S}
  OBVIOUS
<1>3. T \in SUBSET Nat /\ T # {}
  BY <1>1, <1>2, RankAssumption DEF Circle
<1>4. IsWellFoundedOn(OpToRel(<, Nat), Nat)
  BY NatLessThanWellFounded
<1>5. PICK least \in T : \A k \in T : ~(<<k, least>> \in OpToRel(<, Nat))
  BY <1>3, <1>4, WFMin
<1>6. PICK t \in S : least = MaxRank - Rank[want[t]]
  BY <1>2
<1>7. PICK u \in S : Waits(t, u)
  BY DEF Circle
<1>8. Rank[want[t]] < Rank[want[u]]
  BY <1>1, <1>7, HeldIsBehind DEF WaitsClimb
<1>9. MaxRank - Rank[want[u]] \in T /\ MaxRank - Rank[want[u]] < least
  BY <1>1, <1>2, <1>6, <1>8, RankAssumption
<1>10. <<MaxRank - Rank[want[u]], least>> \in OpToRel(<, Nat)
  BY <1>3, <1>9 DEF OpToRel
<1> QED BY <1>5, <1>9, <1>10

\* Transactions hold, want and plan rows only.
THEOREM RowLocksTypeOK == Spec => []TypeOK
<1>1. IInv => TypeOK
  BY DEF IInv
<1> QED BY SpecIInv, <1>1, PTL

\* Whoever is waited for waits, if at all, for a row further on.
THEOREM RowLocksWaitsClimb == Spec => []WaitsClimb
BY SpecIInv, HeldIsBehind, PTL

\* Any number of settlements, resolutions, checkouts and adjustments, of any
\* number of orders over any variants, never deadlock among themselves.
THEOREM RowLocksNoDeadlock == Spec => []NoDeadlock
<1>1. IInv => NoDeadlock
  BY NobodyInACircle, Zenon DEF NoDeadlock
<1> QED BY SpecIInv, <1>1, PTL

-----------------------------------------------------------------------------
(***************************************************************************)
(* The cart of a customer                                                  *)
(***************************************************************************)
CartAssumption ==
  /\ MaxCarts \in Nat /\ Quantities \subseteq Nat
  /\ None \notin Request /\ Request \cap Confirmation = {}

Item == Basket!Rows \cup {Basket!NoRow}
Asked == [op : Basket!Operation, row : [Variant -> Item], entity : [Variant -> Item],
          cart : Basket!CartIds \cup {0}]
Ordered == [status : {"sin_alta", "pendiente_pago", "cancelado"}, cart : Basket!CartIds \cup {0},
            lines : [Variant -> Item]]

CartTypes ==
  /\ Basket!TypeOK
  /\ order \in [Confirmation -> Ordered]
  /\ call \in [Request -> Asked \cup {Basket!NoCall}]
  /\ counted \in [Basket!CartIds -> [Variant -> Nat]]

\* The quantity an operation leaves of a row of n units.
Leaves(op, n) ==
  CASE op.type = "add" -> n + op.quantity [] op.type = "update" -> op.quantity [] op.type = "remove" -> 0

Inserts(c) ==
  LET v == call[c].op.variant
  IN /\ call[c].op.type = "add" /\ call[c].entity[v] \in Basket!Rows
     /\ call[c].entity[v].quantity = call[c].op.quantity

SavesItem(c) ==
  LET v == call[c].op.variant
  IN /\ call[c].row[v] # Basket!NoRow
     /\ call[c].entity[v].quantity = Leaves(call[c].op, call[c].row[v].quantity)

SavesAll(c) == \A v \in Variant : call[c].row[v] = Basket!NoRow => call[c].entity[v] = Basket!NoRow

\* What a request has read, when it writes.
CallFits(c) ==
  /\ pc[c] # "idle" => call[c] \in Asked
  /\ pc[c] \in {"reading", "saving", "inserting", "racing"} => call[c].cart \in Basket!CartIds
  /\ pc[c] \in {"inserting", "racing"} => Inserts(c)
  /\ pc[c] = "saving" =>
       IF call[c].op.type \in Basket!ItemOperations THEN SavesItem(c)
       ELSE call[c].op.type = "revalidate" /\ SavesAll(c)

CallsFit == \A c \in Request : CallFits(c)

\* One cart is active; that of an order that waits is not, and no other waits
\* with it; and an order that is being compensated waits.
CartsApart ==
  /\ \A j, k \in Basket!CartIds : cartStatus[j] = "activo" /\ cartStatus[k] = "activo" => j = k
  /\ \A c \in Confirmation : Basket!Waiting(c) =>
       order[c].cart \in Basket!CartIds /\ cartStatus[order[c].cart] \in {"asociado_a_pedido", "borrado"}
  /\ \A c, d \in Confirmation :
       Basket!Waiting(c) /\ Basket!Waiting(d) /\ order[c].cart = order[d].cart => c = d
  /\ \A c \in Confirmation : pc[c] = "restoring" => Basket!Waiting(c)

\* The checkout takes the row as it is.
Fine(v, r) ==
  r # Basket!NoRow => purchasable[v] /\ r.price = price[v] /\ r.quantity <= available[v]

\* What a revalidation found, when nothing changed since: either it is still
\* there, or another revalidation of the same rows was first.
StillFresh(c) ==
  /\ pc[c] \in {"saving", "done"} /\ call[c] \in Asked
  /\ call[c].op.type = "revalidate" /\ call[c].cart \in Basket!Active
  /\ pc[c] = "saving" => \A v \in Variant :
       /\ call[c].entity[v] = Basket!Revalidated(v, call[c].row[v])
       /\ items[call[c].cart][v] \in {call[c].row[v], call[c].entity[v]}
  /\ pc[c] = "done" => \A v \in Variant : Fine(v, items[call[c].cart][v])

FreshAreAccepted == \A c \in fresh : StillFresh(c)

CartInv ==
  CartTypes /\ CallsFit /\ CartsApart /\ Basket!DeletedCartsAreEmpty /\ Basket!OperationsAddUp /\ FreshAreAccepted

-----------------------------------------------------------------------------
LEMMA NoRowIsNoRow ==
  ASSUME CartAssumption
  PROVE  /\ Basket!NoRow \notin Basket!Rows /\ Basket!NoRow.quantity = 0 /\ Basket!NoRow.id = None
         /\ \A r \in Basket!Rows : r.id # None /\ r.id \in Request /\ r.quantity \in Nat \ {0} /\ r.price \in Prices
         /\ \A r \in Item : r.quantity \in Nat
         /\ Basket!NoItems \in [Variant -> Item] /\ \A v \in Variant : Basket!NoItems[v] = Basket!NoRow
         /\ \A r \in Item : r # Basket!NoRow => r.id # None
BY DEF CartAssumption, Basket!NoRow, Basket!Rows, Basket!NoItems, Item

LEMMA InitCart ==
  ASSUME CartAssumption, Basket!Init
  PROVE  CartInv
<1> USE NoRowIsNoRow DEF Basket!Init, CartAssumption
<1>1. CartTypes
  <2>1. Basket!TypeOK
    BY DEF Basket!TypeOK, Basket!CartIds, Basket!NoOrder, Basket!Steps, Item
  <2> QED BY <2>1 DEF CartTypes, Ordered, Basket!NoOrder, Basket!NoCall
<1>2. CallsFit BY DEF CallsFit, CallFits
<1>3. CartsApart BY DEF CartsApart, Basket!Waiting, Basket!NoOrder
<1>4. Basket!DeletedCartsAreEmpty /\ FreshAreAccepted
  BY DEF Basket!DeletedCartsAreEmpty, FreshAreAccepted
<1>5. Basket!OperationsAddUp BY DEF Basket!OperationsAddUp
<1> QED BY <1>1, <1>2, <1>3, <1>4, <1>5 DEF CartInv

\* What an operation leaves is a row, or none.
LEMMA ChangedIsARow ==
  ASSUME CartAssumption, CartTypes, NEW c \in Request, NEW op \in Basket!Operation, NEW found \in Item,
         op.type \in Basket!ItemOperations, Basket!Accepts(op, found)
  PROVE  Basket!Changed(c, op, found) \in Item
<1> USE NoRowIsNoRow
<1>1. op.quantity \in Nat \ {0} /\ op.variant \in Variant /\ price[op.variant] \in Prices
  BY DEF Basket!Operation, CartTypes, Basket!TypeOK, CartAssumption
<1>2. CASE op.type = "add"
  <2>1. found.quantity + op.quantity \in Nat \ {0} BY <1>1
  <2>2. (IF found = Basket!NoRow THEN c ELSE found.id) \in Request BY DEF Item
  <2> QED BY <1>1, <1>2, <2>1, <2>2 DEF Basket!Changed, Item, Basket!Rows
<1>3. CASE op.type = "update"
  <2>1. found \in Basket!Rows BY <1>3 DEF Basket!Accepts, Item
  <2> QED BY <1>1, <1>3, <2>1 DEF Basket!Changed, Item, Basket!Rows
<1>4. CASE op.type = "remove" BY <1>4 DEF Basket!Changed, Item
<1> QED BY <1>2, <1>3, <1>4 DEF Basket!ItemOperations

LEMMA RevalidatedIsARow ==
  ASSUME CartAssumption, CartTypes, NEW v \in Variant, NEW r \in Item
  PROVE  Basket!Revalidated(v, r) \in Item
<1>1. CASE r = Basket!NoRow \/ ~Basket!Resolves(v, 1)
  BY <1>1 DEF Basket!Revalidated, Item
<1>2. CASE ~(r = Basket!NoRow \/ ~Basket!Resolves(v, 1))
  <2>1. r \in Basket!Rows /\ available[v] \in Nat \ {0} /\ price[v] \in Prices
    BY <1>2 DEF Item, Basket!Resolves, CartTypes, Basket!TypeOK
  <2>2. Basket!Revalidated(v, r) = [r EXCEPT !.quantity = IF r.quantity > available[v] THEN available[v] ELSE r.quantity,
                                       !.price = price[v]]
    BY <1>2, <2>1 DEF Basket!Revalidated, Basket!Rows
  <2>3. Basket!Revalidated(v, r) \in Basket!Rows BY <2>1, <2>2 DEF Basket!Rows
  <2> QED BY <2>3 DEF Item
<1> QED BY <1>1, <1>2

\* Rows, calls and orders keep their types: no request leaves a row without units,
\* and no checkout takes more than there is.
LEMMA NextKeepsTypes ==
  ASSUME CartAssumption, CartInv, [Basket!Next]_(Basket!vars)
  PROVE  CartTypes'
<1> USE NoRowIsNoRow DEF CartInv, CartAssumption
<1>1. ASSUME NEW c \in Request, NEW op \in Basket!Operation, Basket!Find(c, op) PROVE CartTypes'
  <2>1. Basket!Active # {} => Basket!ActiveCart \in Basket!CartIds
    BY DEF Basket!ActiveCart, Basket!Active
  <2> QED BY <1>1, <2>1 DEF Basket!Find, Basket!Goto, CartTypes, Basket!TypeOK, Asked,
    Basket!Steps, Basket!catalogue, Basket!history
<1>2. ASSUME NEW c \in Request, Basket!Create(c) PROVE CartTypes'
  <2>1. pc[c] = "creating" /\ call[c] \in Asked BY <1>2 DEF Basket!Create, CallsFit, CallFits
  <2>2. CASE UNCHANGED <<cartStatus, call>>
    BY <1>2, <2>1, <2>2 DEF Basket!Create, Basket!Goto, CartTypes, Basket!TypeOK, Basket!Steps,
       Basket!catalogue, Basket!history
  <2>3. ASSUME NEW k \in Basket!CartIds, cartStatus' = [cartStatus EXCEPT ![k] = "activo"],
               call' = [call EXCEPT ![c].cart = k], Basket!Goto(c, "reading")
        PROVE  CartTypes'
    <3>1. call' \in [Request -> Asked \cup {Basket!NoCall}] BY <2>1, <2>3 DEF CartTypes, Asked
    <3> QED BY <1>2, <2>3, <3>1 DEF Basket!Create, Basket!Goto, CartTypes, Basket!TypeOK,
      Basket!Steps, Basket!catalogue, Basket!history
  <2> QED BY <1>2, <2>2, <2>3 DEF Basket!Create
<1>3. ASSUME NEW c \in Request, Basket!Reread(c) PROVE CartTypes'
  <2>1. pc[c] = "rereading" /\ call[c] \in Asked BY <1>3 DEF Basket!Reread, CallsFit, CallFits
  <2>2. Basket!Active # {} => Basket!ActiveCart \in Basket!CartIds
    BY DEF Basket!ActiveCart, Basket!Active
  <2>3. ASSUME Basket!Active # {}, call' = [call EXCEPT ![c].cart = Basket!ActiveCart]
        PROVE  call' \in [Request -> Asked \cup {Basket!NoCall}]
    <3>1. PICK k \in Basket!CartIds : k = Basket!ActiveCart BY <2>2, <2>3
    <3>2. call' = [call EXCEPT ![c].cart = k] BY <2>3, <3>1
    <3> QED BY <2>1, <3>2 DEF CartTypes, Asked
  <2>4. call' \in [Request -> Asked \cup {Basket!NoCall}]
    BY <1>3, <2>3 DEF Basket!Reread, CartTypes
  <2> QED BY <1>3, <2>4 DEF Basket!Reread, Basket!Goto, CartTypes, Basket!TypeOK, Basket!Steps,
    Basket!catalogue, Basket!history
<1>4. ASSUME NEW c \in Request, Basket!ReadItem(c) PROVE CartTypes'
  <2>1. call[c] \in Asked /\ call[c].cart \in Basket!CartIds
    BY <1>4 DEF Basket!ReadItem, CallsFit, CallFits
  <2>2. PICK op \in Basket!Operation, k \in Basket!CartIds : op = call[c].op /\ k = call[c].cart
    BY <2>1 DEF Asked
  <2>3. op.variant \in Variant /\ items[k][op.variant] \in Item
    BY <2>2 DEF Basket!Operation, CartTypes, Basket!TypeOK, Item
  <2> DEFINE Frame == /\ UNCHANGED <<Basket!catalogue, cartStatus, items, order, newer, Basket!history>>
                      /\ pc' \in [Request \cup Confirmation -> Basket!Steps]
  <2>f. Frame
    <3>1. \E s \in Basket!Steps : Basket!Goto(c, s) BY <1>4 DEF Basket!ReadItem, Basket!Steps
    <3>2. pc' \in [Request \cup Confirmation -> Basket!Steps]
      BY <3>1 DEF Basket!Goto, CartTypes, Basket!TypeOK
    <3> QED BY <1>4, <3>2 DEF Basket!ReadItem
  <2>4. CASE UNCHANGED call
    BY <2>f, <2>4 DEF CartTypes, Basket!TypeOK, Basket!catalogue, Basket!history
  <2>5. CASE /\ op.type \in Basket!ItemOperations /\ Basket!Accepts(op, items[k][op.variant])
             /\ call' = [call EXCEPT ![c].row[op.variant] = items[k][op.variant],
                                     ![c].entity[op.variant] = Basket!Changed(c, op, items[k][op.variant])]
             /\ Basket!Goto(c, IF op.type = "add" /\ items[k][op.variant] = Basket!NoRow THEN "inserting" ELSE "saving")
    <3>1. Basket!Changed(c, op, items[k][op.variant]) \in Item BY <2>2, <2>3, <2>5, ChangedIsARow
    <3>2. call' \in [Request -> Asked \cup {Basket!NoCall}]
      BY <2>1, <2>3, <2>5, <3>1 DEF CartTypes, Asked
    <3> QED BY <2>f, <3>2 DEF CartTypes, Basket!TypeOK, Basket!catalogue, Basket!history
  <2> QED BY <1>4, <2>2, <2>4, <2>5 DEF Basket!ReadItem
<1>5. ASSUME NEW c \in Request, NEW step \in Basket!Steps, call[c].cart \in Basket!CartIds, call[c] \in Asked,
             call[c].op.type \in Basket!ItemOperations,
             Basket!Write(c) \/ UNCHANGED <<items, counted>>, Basket!Goto(c, step), overlapped' \in BOOLEAN,
             fresh' = {}, UNCHANGED <<Basket!catalogue, cartStatus, order, call, newer>>
      PROVE  CartTypes'
  <2>1. PICK op \in Basket!Operation, k \in Basket!CartIds : op = call[c].op /\ k = call[c].cart
    BY <1>5 DEF Asked
  <2>2. op.variant \in Variant /\ op.quantity \in Nat /\ call[c].entity[op.variant] \in Item
    BY <1>5, <2>1 DEF Basket!Operation, Asked
  <2>3. items' \in [Basket!CartIds -> [Variant -> Item]]
    <3>1. items \in [Basket!CartIds -> [Variant -> Item]] BY DEF CartTypes, Basket!TypeOK, Item
    <3>2. CASE Basket!Write(c)
      <4>1. items' = [items EXCEPT ![k][op.variant] = call[c].entity[op.variant]]
        BY <2>1, <3>2 DEF Basket!Write
      <4> QED BY <2>2, <3>1, <4>1
    <3> QED BY <1>5, <3>1, <3>2
  <2>4. counted' \in [Basket!CartIds -> [Variant -> Nat]]
    BY <1>5, <2>1, <2>2 DEF Basket!Write, CartTypes, Basket!ItemOperations
  <2> QED BY <1>5, <2>3, <2>4 DEF Basket!Goto, CartTypes, Basket!TypeOK, Basket!catalogue, Item
<1>6. ASSUME NEW c \in Request, Basket!SaveItem(c) PROVE CartTypes'
  <2>1. call[c] \in Asked /\ call[c].cart \in Basket!CartIds
    BY <1>6 DEF Basket!SaveItem, CallsFit, CallFits
  <2> QED BY <1>5, <1>6, <2>1 DEF Basket!SaveItem, Basket!Steps, CartTypes, Basket!TypeOK
<1>7. ASSUME NEW c \in Request, Basket!InsertItem(c) PROVE CartTypes'
  <2>1. call[c] \in Asked /\ call[c].cart \in Basket!CartIds /\ call[c].op.type \in Basket!ItemOperations
    BY <1>7 DEF Basket!InsertItem, CallsFit, CallFits, Inserts, Basket!ItemOperations
  <2> QED BY <1>5, <1>7, <2>1 DEF Basket!InsertItem, Basket!Steps, CartTypes, Basket!TypeOK
<1>8. ASSUME NEW c \in Request, Basket!RaceItem(c) PROVE CartTypes'
  <2>1. call[c] \in Asked /\ call[c].cart \in Basket!CartIds /\ Inserts(c)
    BY <1>8 DEF Basket!RaceItem, CallsFit, CallFits
  <2>2. PICK op \in Basket!Operation, k \in Basket!CartIds : op = call[c].op /\ k = call[c].cart
    BY <2>1 DEF Asked
  <2>3. /\ op.variant \in Variant /\ items[k][op.variant] \in Item
        /\ call[c].entity[op.variant] \in Basket!Rows
    BY <2>1, <2>2 DEF Basket!Operation, CartTypes, Basket!TypeOK, Item, Inserts
  <2>f. /\ UNCHANGED <<Basket!catalogue, cartStatus, items, order, newer, Basket!history>>
        /\ pc' \in [Request \cup Confirmation -> Basket!Steps]
    <3>1. \E s \in Basket!Steps : Basket!Goto(c, s) BY <1>8 DEF Basket!RaceItem, Basket!Steps
    <3>2. pc' \in [Request \cup Confirmation -> Basket!Steps]
      BY <3>1 DEF Basket!Goto, CartTypes, Basket!TypeOK
    <3> QED BY <1>8, <3>2 DEF Basket!RaceItem
  <2>4. CASE UNCHANGED call
    BY <2>f, <2>4 DEF CartTypes, Basket!TypeOK, Basket!catalogue, Basket!history
  <2>5. CASE ~UNCHANGED call
    <3>1. /\ items[k][op.variant] # Basket!NoRow
          /\ call' = [call EXCEPT ![c].row[op.variant] = items[k][op.variant],
                       ![c].entity[op.variant] = Basket!Added(items[k][op.variant], call[c].entity[op.variant])]
      BY <1>8, <2>1, <2>2, <2>3, <2>5 DEF Basket!RaceItem, CartTypes, Asked
    <3>2. Basket!Added(items[k][op.variant], call[c].entity[op.variant]) \in Item
      <4>1. items[k][op.variant] \in Basket!Rows BY <2>3, <3>1 DEF Item
      <4>2. \A race, mine \in Basket!Rows : Basket!Added(race, mine) \in Basket!Rows
        <5> TAKE race, mine \in Basket!Rows
        <5>1. race.quantity + mine.quantity \in Nat \ {0} OBVIOUS
        <5>2. Basket!Added(race, mine) = [race EXCEPT !.quantity = race.quantity + mine.quantity, !.price = mine.price]
          BY DEF Basket!Added, Basket!Rows
        <5> QED BY <5>1, <5>2 DEF Basket!Rows
      <4> QED BY <2>3, <4>1, <4>2 DEF Item
    <3>3. call' \in [Request -> Asked \cup {Basket!NoCall}]
      BY <2>1, <2>3, <3>1, <3>2 DEF CartTypes, Asked
    <3> QED BY <2>f, <3>3 DEF CartTypes, Basket!TypeOK, Basket!catalogue, Basket!history
  <2> QED BY <2>4, <2>5
<1>9. ASSUME NEW c \in Request, Basket!ClearItems(c) PROVE CartTypes'
  BY <1>9 DEF Basket!ClearItems, Basket!Goto, CartTypes, Basket!TypeOK, Basket!Steps,
     Basket!catalogue, Item
<1>10. ASSUME NEW v \in Variant, NEW r \in Item PROVE Basket!Revalidated(v, r) \in Item
  BY RevalidatedIsARow
<1>11. ASSUME NEW c \in Request, Basket!ReadAll(c) PROVE CartTypes'
  <2>1. call[c] \in Asked /\ call[c].cart \in Basket!CartIds
    BY <1>11 DEF Basket!ReadAll, CallsFit, CallFits
  <2>2. PICK k \in Basket!CartIds : k = call[c].cart BY <2>1
  <2>3. items[k] \in [Variant -> Item] BY DEF CartTypes, Basket!TypeOK, Item
  <2>4. [v \in Variant |-> Basket!Revalidated(v, items[k][v])] \in [Variant -> Item]
    BY <1>10, <2>3
  <2>5. call' \in [Request -> Asked \cup {Basket!NoCall}]
    BY <1>11, <2>1, <2>2, <2>3, <2>4 DEF Basket!ReadAll, CartTypes, Asked
  <2>6. fresh' \subseteq Request BY <1>11 DEF Basket!ReadAll, CartTypes, Basket!TypeOK
  <2> QED BY <1>11, <2>5, <2>6 DEF Basket!ReadAll, Basket!Goto, CartTypes, Basket!TypeOK,
    Basket!Steps, Basket!catalogue
<1>12. ASSUME NEW c \in Request, Basket!Revalidate(c) PROVE CartTypes'
  <2>1. call[c] \in Asked /\ call[c].cart \in Basket!CartIds
    BY <1>12 DEF Basket!Revalidate, CallsFit, CallFits
  <2>2. PICK k \in Basket!CartIds : k = call[c].cart BY <2>1
  <2>3. items[k] \in [Variant -> Item] /\ call[c].entity \in [Variant -> Item]
    BY <2>1 DEF CartTypes, Basket!TypeOK, Item, Asked
  <2> DEFINE rows == [v \in Variant |->
                        IF call[c].entity[v] = call[c].row[v] THEN items[k][v]
                        ELSE IF items[k][v].id = call[c].row[v].id THEN call[c].entity[v]
                        ELSE items[k][v]]
  <2>4. rows \in [Variant -> Item] BY <2>3
  <2>5. items' = [items EXCEPT ![k] = rows] BY <1>12, <2>2 DEF Basket!Revalidate
  <2>6. counted' = [counted EXCEPT ![k] = [v \in Variant |-> rows[v].quantity]]
    BY <1>12, <2>2 DEF Basket!Revalidate
  <2> HIDE DEF rows
  <2>7. counted' \in [Basket!CartIds -> [Variant -> Nat]] BY <2>4, <2>6 DEF CartTypes
  <2>8. overlapped' \in BOOLEAN /\ fresh' \subseteq Request
    BY <1>12 DEF Basket!Revalidate, CartTypes, Basket!TypeOK
  <2>9. items' \in [Basket!CartIds -> [Variant -> Item]]
    BY <2>4, <2>5 DEF CartTypes, Basket!TypeOK, Item
  <2>10. pc' \in [Request \cup Confirmation -> Basket!Steps]
    BY <1>12 DEF Basket!Revalidate, Basket!Goto, CartTypes, Basket!TypeOK, Basket!Steps
  <2>11. UNCHANGED <<available, price, purchasable, cartStatus, order, call, newer>>
    BY <1>12 DEF Basket!Revalidate, Basket!catalogue
  <2> QED BY <2>7, <2>8, <2>9, <2>10, <2>11 DEF CartTypes, Basket!TypeOK, Item
<1>13. ASSUME NEW c \in Confirmation, Basket!Confirm(c) PROVE CartTypes'
  <2>1. PICK k \in Basket!Active :
          /\ Basket!Reservable(k)
          /\ order' = [order EXCEPT ![c] = [status |-> "pendiente_pago", cart |-> k, lines |-> items[k]]]
          /\ available' = [v \in Variant |-> available[v] - items[k][v].quantity]
          /\ cartStatus' = [cartStatus EXCEPT ![k] = "asociado_a_pedido"]
    BY <1>13 DEF Basket!Confirm
  <2>2. k \in Basket!CartIds /\ items[k] \in [Variant -> Item]
    BY DEF Basket!Active, CartTypes, Basket!TypeOK, Item
  <2>3. available' \in [Variant -> Nat]
    BY <2>1, <2>2 DEF Basket!Reservable, CartTypes, Basket!TypeOK
  <2>4. order' \in [Confirmation -> Ordered] BY <2>1, <2>2 DEF CartTypes, Ordered
  <2> QED
    BY <1>13, <2>1, <2>2, <2>3, <2>4 DEF Basket!Confirm, Basket!Goto, CartTypes, Basket!TypeOK,
       Basket!Steps, Ordered
<1>14. ASSUME NEW c \in Confirmation, Basket!CancelOrder(c), cartStatus' \in [Basket!CartIds ->
               {"sin_alta", "activo", "asociado_a_pedido", "borrado"}],
               items' \in [Basket!CartIds -> [Variant -> Item]], counted' \in [Basket!CartIds -> [Variant -> Nat]],
               pc' \in [Request \cup Confirmation -> Basket!Steps],
               UNCHANGED <<price, purchasable, call, newer, overlapped>>
       PROVE  CartTypes'
  <2>1. order[c].lines \in [Variant -> Item] /\ order[c] \in Ordered BY DEF CartTypes, Ordered
  <2>2. available' \in [Variant -> Nat]
    BY <1>14, <2>1 DEF Basket!CancelOrder, CartTypes, Basket!TypeOK
  <2>3. order' \in [Confirmation -> Ordered]
    BY <1>14, <2>1 DEF Basket!CancelOrder, CartTypes, Ordered
  <2> QED BY <1>14, <2>2, <2>3 DEF Basket!CancelOrder, CartTypes, Basket!TypeOK, Ordered, Item
<1>15. ASSUME NEW c \in Confirmation, Basket!OrderCancelled(c) PROVE CartTypes'
  BY <1>14, <1>15 DEF Basket!OrderCancelled, CartTypes, Basket!TypeOK, Item
<1>16. ASSUME NEW c \in Confirmation,
              Basket!PreferenceRequested(c) \/ Basket!CompensationGivesUp(c) \/ Basket!RestoreClashes(c)
       PROVE  CartTypes'
  <2>1. \E s \in Basket!Steps : Basket!Goto(c, s)
    BY <1>16 DEF Basket!PreferenceRequested, Basket!CompensationGivesUp, Basket!RestoreClashes,
       Basket!Steps
  <2>2. pc' \in [Request \cup Confirmation -> Basket!Steps]
    BY <2>1 DEF Basket!Goto, CartTypes, Basket!TypeOK
  <2>3. UNCHANGED <<Basket!catalogue, cartStatus, items, order, call, newer, Basket!history>>
    BY <1>16 DEF Basket!PreferenceRequested, Basket!CompensationGivesUp, Basket!RestoreClashes
  <2> QED BY <2>2, <2>3 DEF CartTypes, Basket!TypeOK, Basket!catalogue, Basket!history
<1>17. ASSUME NEW c \in Confirmation, Basket!CompensationLooks(c) PROVE CartTypes'
  <2>1. Basket!Active # {} => Basket!ActiveCart \in Basket!CartIds
    BY DEF Basket!ActiveCart, Basket!Active
  <2>2. CASE Basket!CancelOrder(c) /\ Basket!Goto(c, "done") /\ UNCHANGED newer
    BY <1>14, <1>17, <2>2 DEF Basket!CompensationLooks, Basket!Goto, Basket!Steps, CartTypes,
       Basket!TypeOK, Item
  <2>3. CASE /\ newer' = [newer EXCEPT ![c] = IF Basket!Active = {} THEN 0 ELSE Basket!ActiveCart]
             /\ Basket!Goto(c, "restoring") /\ UNCHANGED <<order, available, fresh>>
    BY <1>17, <2>1, <2>3 DEF Basket!CompensationLooks, Basket!Goto, Basket!Steps, CartTypes,
       Basket!TypeOK
  <2> QED BY <1>17, <2>2, <2>3 DEF Basket!CompensationLooks
<1>18. ASSUME NEW c \in Confirmation, Basket!Restore(c) PROVE CartTypes'
  <2>1. items' \in [Basket!CartIds -> [Variant -> Item]]
    BY <1>18 DEF Basket!Restore, CartTypes, Basket!TypeOK, Item
  <2>2. counted' \in [Basket!CartIds -> [Variant -> Nat]] BY <1>18 DEF Basket!Restore, CartTypes
  <2>3. cartStatus' \in [Basket!CartIds -> {"sin_alta", "activo", "asociado_a_pedido", "borrado"}]
    BY <1>18 DEF Basket!Restore, CartTypes, Basket!TypeOK
  <2>4. pc' \in [Request \cup Confirmation -> Basket!Steps]
    BY <1>18 DEF Basket!Restore, Basket!Goto, Basket!Steps, CartTypes, Basket!TypeOK
  <2> QED BY <1>14, <1>18, <2>1, <2>2, <2>3, <2>4 DEF Basket!Restore
<1>19. ASSUME Basket!CatalogueChanges PROVE CartTypes'
  <2>1. /\ available' \in [Variant -> Nat] /\ price' \in [Variant -> Prices]
        /\ purchasable' \in [Variant -> BOOLEAN]
    <3>1. PICK v \in Variant :
            \/ /\ \E p \in Prices \ {price[v]} : price' = [price EXCEPT ![v] = p]
               /\ UNCHANGED <<available, purchasable>>
            \/ purchasable' = [purchasable EXCEPT ![v] = ~@] /\ UNCHANGED <<available, price>>
            \/ /\ available[v] > 0 /\ available' = [available EXCEPT ![v] = @ - 1]
               /\ UNCHANGED <<price, purchasable>>
      BY <1>19, Zenon DEF Basket!CatalogueChanges
    <3>2. available[v] > 0 => available[v] - 1 \in Nat BY DEF CartTypes, Basket!TypeOK
    <3>3. CASE \E p \in Prices \ {price[v]} : price' = [price EXCEPT ![v] = p]
                 /\ UNCHANGED <<available, purchasable>>
      BY <3>3 DEF CartTypes, Basket!TypeOK
    <3>4. CASE purchasable' = [purchasable EXCEPT ![v] = ~@] /\ UNCHANGED <<available, price>>
      BY <3>4 DEF CartTypes, Basket!TypeOK
    <3>5. CASE available[v] > 0 /\ available' = [available EXCEPT ![v] = @ - 1]
                 /\ UNCHANGED <<price, purchasable>>
      BY <3>2, <3>5 DEF CartTypes, Basket!TypeOK
    <3> QED BY <3>1, <3>3, <3>4, <3>5
  <2> QED BY <1>19, <2>1 DEF Basket!CatalogueChanges, CartTypes, Basket!TypeOK
<1>20. CASE UNCHANGED Basket!vars
  BY <1>20 DEF Basket!vars, Basket!catalogue, Basket!history, CartTypes, Basket!TypeOK
<1> QED
  BY <1>1, <1>2, <1>3, <1>4, <1>6, <1>7, <1>8, <1>9, <1>11, <1>12, <1>13, <1>15, <1>16, <1>17,
     <1>18, <1>19, <1>20 DEF Basket!Next

\* A step moves one request, or none.
LEMMA OneCallMoves ==
  ASSUME CartTypes, CallsFit, NEW c \in Request \cup Confirmation, NEW s, Basket!Goto(c, s),
         \A d \in Request : d # c => call'[d] = call[d],
         c \in Request => CallFits(c)'
  PROVE  CallsFit'
<1> SUFFICES ASSUME NEW d \in Request PROVE CallFits(d)'
  BY DEF CallsFit
<1>1. CASE d = c BY <1>1
<1>2. CASE d # c
  <2>1. pc'[d] = pc[d] /\ call'[d] = call[d] BY <1>2 DEF Basket!Goto, CartTypes, Basket!TypeOK
  <2>2. CallFits(d) BY DEF CallsFit
  <2> QED BY <2>1, <2>2 DEF CallFits, Inserts, SavesItem, SavesAll
<1> QED BY <1>1, <1>2

\* What a request saves comes from what it has read.
LEMMA NextKeepsCalls ==
  ASSUME CartAssumption, CartInv, [Basket!Next]_(Basket!vars), CartTypes'
  PROVE  CallsFit'
<1> USE NoRowIsNoRow DEF CartInv
<1>1. ASSUME NEW c \in Request, NEW op \in Basket!Operation, Basket!Find(c, op) PROVE CallsFit'
  <2> DEFINE n == [op |-> op, row |-> Basket!NoItems, entity |-> Basket!NoItems,
                   cart |-> IF Basket!Active = {} THEN 0 ELSE Basket!ActiveCart]
             s == IF Basket!Active = {} THEN "creating" ELSE "reading"
  <2>1. Basket!Active # {} => Basket!ActiveCart \in Basket!CartIds
    BY DEF Basket!ActiveCart, Basket!Active
  <2>2. n \in Asked BY <2>1 DEF Asked
  <2>3. call' = [call EXCEPT ![c] = n] /\ Basket!Goto(c, s) BY <1>1 DEF Basket!Find
  <2>4. call'[c] = n /\ pc'[c] = s /\ \A d \in Request : d # c => call'[d] = call[d]
    BY <2>3 DEF CartTypes, Basket!TypeOK, Basket!Goto
  <2>5. CallFits(c)' BY <2>1, <2>2, <2>4 DEF CallFits
  <2> QED BY <2>3, <2>4, <2>5, OneCallMoves
<1>2. ASSUME NEW c \in Request, Basket!Create(c) PROVE CallsFit'
  <2>1. pc[c] = "creating" /\ call[c] \in Asked BY <1>2 DEF Basket!Create, CallsFit, CallFits
  <2>2. CASE Basket!Goto(c, "rereading") /\ UNCHANGED call
    <3>1. CallFits(c)' BY <2>1, <2>2 DEF CallFits, Basket!Goto, CartTypes, Basket!TypeOK
    <3> QED BY <2>2, <3>1, OneCallMoves
  <2>3. ASSUME NEW k \in Basket!CartIds, call' = [call EXCEPT ![c].cart = k], Basket!Goto(c, "reading")
        PROVE  CallsFit'
    <3>1. CallFits(c)' BY <2>1, <2>3 DEF CallFits, Basket!Goto, CartTypes, Basket!TypeOK, Asked
    <3> QED BY <2>3, <3>1, OneCallMoves DEF CartTypes
  <2> QED BY <1>2, <2>2, <2>3 DEF Basket!Create
<1>3. ASSUME NEW c \in Request, Basket!Reread(c) PROVE CallsFit'
  <2>1. pc[c] = "rereading" /\ call[c] \in Asked BY <1>3 DEF Basket!Reread, CallsFit, CallFits
  <2>2. CASE Basket!Goto(c, "done") /\ UNCHANGED call
    <3>1. CallFits(c)' BY <2>1, <2>2 DEF CallFits, Basket!Goto, CartTypes, Basket!TypeOK
    <3> QED BY <2>2, <3>1, OneCallMoves
  <2>3. CASE Basket!Active # {} /\ call' = [call EXCEPT ![c].cart = Basket!ActiveCart] /\ Basket!Goto(c, "reading")
    <3>1. PICK k \in Basket!CartIds : k = Basket!ActiveCart
      BY <2>3 DEF Basket!ActiveCart, Basket!Active
    <3>2. CallFits(c)' BY <2>1, <2>3, <3>1 DEF CallFits, Basket!Goto, CartTypes, Basket!TypeOK,
      Asked
    <3> QED BY <2>3, <3>2, OneCallMoves DEF CartTypes
  <2> QED BY <1>3, <2>2, <2>3 DEF Basket!Reread
<1>4. ASSUME NEW c \in Request, Basket!Goto(c, "done"), pc[c] # "idle", UNCHANGED call
  PROVE CallsFit'
  <2>1. CallFits(c)' BY <1>4 DEF CallsFit, CallFits, Basket!Goto, CartTypes, Basket!TypeOK
  <2> QED BY <1>4, <2>1, OneCallMoves
<1>5. ASSUME NEW c \in Request, Basket!ReadItem(c) PROVE CallsFit'
  <2>1. call[c] \in Asked /\ call[c].cart \in Basket!CartIds /\ pc[c] = "reading"
    BY <1>5 DEF Basket!ReadItem, CallsFit, CallFits
  <2>2. PICK op \in Basket!Operation, k \in Basket!CartIds : op = call[c].op /\ k = call[c].cart
    BY <2>1 DEF Asked
  <2>3. PICK found \in Item : found = items[k][op.variant]
    BY <2>2 DEF Basket!Operation, CartTypes, Basket!TypeOK, Item
  <2>4. CASE Basket!Goto(c, "done") /\ UNCHANGED call BY <2>1, <2>4, <1>4
  <2>5. CASE /\ op.type \in Basket!ItemOperations /\ Basket!Accepts(op, found)
             /\ call' = [call EXCEPT ![c].row[op.variant] = found,
                                     ![c].entity[op.variant] = Basket!Changed(c, op, found)]
             /\ Basket!Goto(c, IF op.type = "add" /\ found = Basket!NoRow THEN "inserting" ELSE "saving")
    <3> DEFINE v == op.variant
               e == Basket!Changed(c, op, found)
    <3>1. v \in Variant /\ op.quantity \in Nat \ {0} /\ e \in Item
      BY <2>2, <2>5, ChangedIsARow DEF Basket!Operation, CartAssumption
    <3>2. /\ call'[c] = [call[c] EXCEPT !.row[v] = found, !.entity[v] = e]
          /\ \A d \in Request : d # c => call'[d] = call[d]
      BY <2>5 DEF CartTypes
    <3>3. /\ call'[c] \in Asked /\ call'[c].op = op /\ call'[c].cart = k
          /\ call'[c].row[v] = found /\ call'[c].entity[v] = e
      <4>1. call'[c] = [op |-> op, row |-> [call[c].row EXCEPT ![v] = found],
                        entity |-> [call[c].entity EXCEPT ![v] = e], cart |-> k]
        BY <2>1, <2>2, <3>2 DEF Asked
      <4>2. call[c].row \in [Variant -> Item] /\ call[c].entity \in [Variant -> Item]
        BY <2>1 DEF Asked
      <4> HIDE DEF e, v
      <4> QED BY <2>2, <3>1, <4>1, <4>2 DEF Asked
    <3>4. e.quantity = Leaves(op, found.quantity)
      BY <2>5, <3>1 DEF Basket!Changed, Leaves, Basket!ItemOperations, Basket!Rows, Item,
         Basket!Accepts
    <3>5. op.type = "add" => e \in Basket!Rows
      <4>1. ASSUME op.type = "add" PROVE e # Basket!NoRow
        BY <4>1, <3>1, <3>4 DEF Leaves
      <4> QED BY <4>1, <3>1 DEF Item
    <3>6. op.type = "add" /\ found = Basket!NoRow => e.quantity = op.quantity
      BY <3>1, <3>4 DEF Leaves
    <3>7. op.type # "add" => found # Basket!NoRow BY <2>5 DEF Basket!Accepts
    <3>8. pc'[c] = IF op.type = "add" /\ found = Basket!NoRow THEN "inserting" ELSE "saving"
      BY <2>5 DEF Basket!Goto, CartTypes, Basket!TypeOK
    <3> HIDE DEF v, e
    <3>9. CASE op.type = "add" /\ found = Basket!NoRow
      <4>1. Inserts(c)' BY <3>3, <3>5, <3>6, <3>9 DEF Inserts, v
      <4>2. CallFits(c)' BY <4>1, <3>3, <3>8, <3>9 DEF CallFits
      <4>3. Basket!Goto(c, "inserting") BY <2>5, <3>9
      <4> QED BY <4>2, <4>3, <3>2, OneCallMoves
    <3>10. CASE ~(op.type = "add" /\ found = Basket!NoRow)
      <4>1. SavesItem(c)' BY <3>3, <3>4, <3>7, <3>10 DEF SavesItem, v
      <4>2. CallFits(c)' BY <2>5, <4>1, <3>3, <3>8, <3>10 DEF CallFits
      <4>3. Basket!Goto(c, "saving") BY <2>5, <3>10
      <4> QED BY <4>2, <4>3, <3>2, OneCallMoves
    <3> QED BY <3>9, <3>10
  <2> QED BY <1>5, <2>2, <2>3, <2>4, <2>5 DEF Basket!ReadItem
<1>6. ASSUME NEW c \in Request, Basket!SaveItem(c) PROVE CallsFit'
  BY <1>4, <1>6 DEF Basket!SaveItem
<1>7. ASSUME NEW c \in Request, Basket!InsertItem(c) PROVE CallsFit'
  <2>1. CASE Basket!Goto(c, "racing") /\ UNCHANGED call
    <3>1. CallFits(c)' BY <1>7, <2>1 DEF Basket!InsertItem, CallsFit, CallFits, Inserts,
      Basket!Goto, CartTypes, Basket!TypeOK
    <3> QED BY <2>1, <3>1, OneCallMoves
  <2> QED BY <1>4, <1>7, <2>1 DEF Basket!InsertItem
<1>8. ASSUME NEW c \in Request, Basket!RaceItem(c) PROVE CallsFit'
  <2>1. call[c] \in Asked /\ call[c].cart \in Basket!CartIds /\ Inserts(c) /\ pc[c] = "racing"
    BY <1>8 DEF Basket!RaceItem, CallsFit, CallFits
  <2>2. PICK op \in Basket!Operation, k \in Basket!CartIds : op = call[c].op /\ k = call[c].cart
    BY <2>1 DEF Asked
  <2>3. PICK race \in Item : race = items[k][op.variant]
    BY <2>2 DEF Basket!Operation, CartTypes, Basket!TypeOK, Item
  <2>4. CASE Basket!Goto(c, "done") /\ UNCHANGED call BY <2>1, <2>4, <1>4
  <2>5. CASE /\ race # Basket!NoRow /\ Basket!Goto(c, "saving")
             /\ call' = [call EXCEPT ![c].row[op.variant] = race,
                                     ![c].entity[op.variant] = Basket!Added(race, @)]
    <3> DEFINE v == op.variant
    <3>1. PICK mine \in Basket!Rows : mine = call[c].entity[v] BY <2>1, <2>2 DEF Inserts
    <3>2. v \in Variant BY <2>2 DEF Basket!Operation
    <3>3. /\ call'[c].row[v] = race /\ call'[c].entity[v] = Basket!Added(race, mine)
          /\ call'[c].op = op /\ call'[c].cart = k
          /\ \A d \in Request : d # c => call'[d] = call[d]
      BY <2>1, <2>2, <2>5, <3>1, <3>2 DEF CartTypes, Asked
    <3>4. op.type = "add" /\ op.quantity \in Nat /\ mine.quantity = op.quantity
      BY <2>1, <2>2, <3>1 DEF Inserts
    <3>5. Basket!Added(race, mine).quantity = race.quantity + op.quantity
      BY <2>5, <3>4 DEF Basket!Added, Item, Basket!Rows
    <3>6. SavesItem(c)' BY <2>5, <3>3, <3>4, <3>5 DEF SavesItem, Leaves
    <3>7. call'[c] \in Asked \cup {Basket!NoCall} /\ pc'[c] = "saving" /\ op.type \in Basket!ItemOperations
      BY <2>5, <3>4 DEF Basket!Goto, CartTypes, Basket!TypeOK, Basket!ItemOperations
    <3>8. call'[c] # Basket!NoCall
      <4>1. call'[c] = [call[c] EXCEPT !.row[v] = race, !.entity[v] = Basket!Added(race, call[c].entity[v])]
        BY <2>5, <2>1 DEF CartTypes, Asked
      <4>2. DOMAIN call'[c] = {"op", "row", "entity", "cart"} BY <2>1, <4>1 DEF Asked
      <4> QED BY <4>2 DEF Basket!NoCall
    <3>9. CallFits(c)' BY <2>2, <3>3, <3>6, <3>7, <3>8 DEF CallFits
    <3> QED BY <2>5, <3>3, <3>9, OneCallMoves
  <2> QED BY <1>8, <2>2, <2>3, <2>4, <2>5 DEF Basket!RaceItem
<1>9. ASSUME NEW c \in Request, Basket!ClearItems(c) PROVE CallsFit'
  BY <1>4, <1>9 DEF Basket!ClearItems
<1>10. ASSUME NEW c \in Request, Basket!ReadAll(c) PROVE CallsFit'
  <2>1. call[c] \in Asked /\ call[c].cart \in Basket!CartIds /\ call[c].op.type = "revalidate"
    BY <1>10 DEF Basket!ReadAll, CallsFit, CallFits
  <2>2. PICK k \in Basket!CartIds : k = call[c].cart BY <2>1
  <2>3. PICK rows \in [Variant -> Item] : rows = items[k] BY DEF CartTypes, Basket!TypeOK, Item
  <2>4. call' = [call EXCEPT ![c].row = rows, ![c].entity = [v \in Variant |-> Basket!Revalidated(v, rows[v])]]
    BY <1>10, <2>2, <2>3 DEF Basket!ReadAll
  <2>5. /\ call'[c].row = rows /\ call'[c].entity = [v \in Variant |-> Basket!Revalidated(v, rows[v])]
        /\ call'[c].op = call[c].op /\ call'[c].cart = k /\ call'[c] \in Asked
        /\ \A d \in Request : d # c => call'[d] = call[d]
    BY <2>1, <2>2, <2>3, <2>4, RevalidatedIsARow DEF CartTypes, Asked
  <2>6. SavesAll(c)' BY <2>5 DEF SavesAll, Basket!Revalidated
  <2>7. pc'[c] = "saving" /\ Basket!Goto(c, "saving")
    BY <1>10 DEF Basket!ReadAll, Basket!Goto, CartTypes, Basket!TypeOK
  <2> QED BY <2>1, <2>5, <2>6, <2>7, OneCallMoves DEF CallFits, Basket!ItemOperations
<1>11. ASSUME NEW c \in Request, Basket!Revalidate(c) PROVE CallsFit'
  BY <1>4, <1>11 DEF Basket!Revalidate
<1>12. ASSUME NEW c \in Confirmation, NEW s, Basket!Goto(c, s), UNCHANGED call PROVE CallsFit'
  BY <1>12, OneCallMoves DEF CartAssumption
<1>13. ASSUME NEW c \in Confirmation,
              Basket!Confirm(c) \/ Basket!PreferenceRequested(c) \/ Basket!CompensationGivesUp(c)
                \/ Basket!CompensationLooks(c) \/ Basket!Restore(c) \/ Basket!RestoreClashes(c)
       PROVE  CallsFit'
  BY <1>12, <1>13 DEF Basket!Confirm, Basket!PreferenceRequested, Basket!CompensationGivesUp,
     Basket!CompensationLooks,
                      Basket!Restore, Basket!RestoreClashes
<1>14. ASSUME UNCHANGED <<pc, call>> PROVE CallsFit'
  BY <1>14 DEF CallsFit, CallFits, Inserts, SavesItem, SavesAll
<1>15. ASSUME NEW c \in Confirmation, Basket!OrderCancelled(c) PROVE CallsFit'
  BY <1>14, <1>15 DEF Basket!OrderCancelled
<1>16. CASE Basket!CatalogueChanges \/ UNCHANGED Basket!vars
  BY <1>14, <1>16 DEF Basket!CatalogueChanges, Basket!vars
<1> QED
  BY <1>1, <1>2, <1>3, <1>5, <1>6, <1>7, <1>8, <1>9, <1>10, <1>11, <1>13, <1>15,
     <1>16 DEF Basket!Next

\* A step keeps one cart active, and orders that wait with carts of their own.
LEMMA NextKeepsApart ==
  ASSUME CartAssumption, CartInv, [Basket!Next]_(Basket!vars)
  PROVE  CartsApart'
<1> USE DEF CartInv
<1>1. ASSUME UNCHANGED <<cartStatus, order>>, \A c \in Confirmation : pc'[c] = "restoring" => pc[c] = "restoring"
      PROVE  CartsApart'
  BY <1>1 DEF CartsApart, Basket!Waiting
<1>2. ASSUME NEW c \in Request, NEW s, Basket!Goto(c, s)
      PROVE  \A d \in Confirmation : pc'[d] = pc[d]
  BY <1>2 DEF Basket!Goto, CartAssumption, CartTypes, Basket!TypeOK
<1>3. ASSUME NEW c \in Request, NEW op \in Basket!Operation, Basket!Find(c, op) PROVE CartsApart'
  BY <1>1, <1>2, <1>3 DEF Basket!Find
<1>4. ASSUME NEW c \in Request, Basket!Create(c) PROVE CartsApart'
  <2>1. CASE Basket!Active # {} /\ Basket!Goto(c, "rereading") /\ UNCHANGED cartStatus
    BY <1>1, <1>2, <1>4, <2>1 DEF Basket!Create
  <2>2. ASSUME NEW k \in Basket!CartIds, Basket!Active = {}, cartStatus[k] = "sin_alta",
               cartStatus' = [cartStatus EXCEPT ![k] = "activo"], Basket!Goto(c, "reading"), UNCHANGED order
        PROVE  CartsApart'
    <3>1. \A d \in Confirmation : pc'[d] = pc[d] BY <1>2, <2>2
    <3>2. \A j \in Basket!CartIds : cartStatus'[j] = IF j = k THEN "activo" ELSE cartStatus[j]
      BY <2>2 DEF CartTypes, Basket!TypeOK
    <3>3. \A j \in Basket!CartIds : cartStatus[j] # "activo" BY <2>2 DEF Basket!Active
    <3> QED BY <2>2, <3>1, <3>2, <3>3 DEF CartsApart, Basket!Waiting
  <2> QED BY <1>4, <2>1, <2>2 DEF Basket!Create
<1>5. ASSUME NEW c \in Request, Basket!Reread(c) \/ Basket!ReadItem(c) \/ Basket!RaceItem(c)
  PROVE CartsApart'
  BY <1>1, <1>2, <1>5 DEF Basket!Reread, Basket!ReadItem, Basket!RaceItem
<1>6. ASSUME NEW c \in Request, Basket!SaveItem(c) \/ Basket!InsertItem(c) \/ Basket!ClearItems(c)
  PROVE CartsApart'
  BY <1>1, <1>2, <1>6 DEF Basket!SaveItem, Basket!InsertItem, Basket!ClearItems
<1>7. ASSUME NEW c \in Request, Basket!ReadAll(c) \/ Basket!Revalidate(c) PROVE CartsApart'
  BY <1>1, <1>2, <1>7 DEF Basket!ReadAll, Basket!Revalidate
<1>8. ASSUME NEW c \in Confirmation, NEW s, s # "restoring", Basket!Goto(c, s)
      PROVE  \A d \in Confirmation : pc'[d] = "restoring" => pc[d] = "restoring" /\ d # c
  BY <1>8 DEF Basket!Goto, CartTypes, Basket!TypeOK
<1>9. ASSUME NEW c \in Confirmation,
             Basket!PreferenceRequested(c) \/ Basket!CompensationGivesUp(c) \/ Basket!RestoreClashes(c)
      PROVE  CartsApart'
  <2>1. \E s : s # "restoring" /\ Basket!Goto(c, s)
    BY <1>9 DEF Basket!PreferenceRequested, Basket!CompensationGivesUp, Basket!RestoreClashes
  <2>2. UNCHANGED <<cartStatus, order>>
    BY <1>9 DEF Basket!PreferenceRequested, Basket!CompensationGivesUp, Basket!RestoreClashes
  <2> QED BY <1>1, <1>8, <2>1, <2>2
<1>10. ASSUME NEW c \in Confirmation, Basket!Confirm(c) PROVE CartsApart'
  <2>1. PICK k \in Basket!Active :
          /\ order' = [order EXCEPT ![c] = [status |-> "pendiente_pago", cart |-> k, lines |-> items[k]]]
          /\ cartStatus' = [cartStatus EXCEPT ![k] = "asociado_a_pedido"]
    BY <1>10 DEF Basket!Confirm
  <2>2. k \in Basket!CartIds /\ cartStatus[k] = "activo" BY DEF Basket!Active
  <2>3. \A j \in Basket!CartIds : cartStatus'[j] = IF j = k THEN "asociado_a_pedido" ELSE cartStatus[j]
    BY <2>1, <2>2 DEF CartTypes, Basket!TypeOK
  <2>4. /\ order'[c].cart = k /\ order'[c].status = "pendiente_pago"
        /\ \A d \in Confirmation : d # c => order'[d] = order[d]
    BY <2>1 DEF CartTypes
  <2>5. \A d \in Confirmation : pc'[d] = "restoring" => pc[d] = "restoring" /\ d # c
    BY <1>8, <1>10 DEF Basket!Confirm
  <2>6. \A d \in Confirmation : Basket!Waiting(d) => order[d].cart # k BY <2>2 DEF CartsApart
  <2> QED BY <2>2, <2>3, <2>4, <2>5, <2>6 DEF CartsApart, Basket!Waiting
<1>11. ASSUME NEW c \in Confirmation, Basket!CancelOrder(c)
       PROVE  /\ order'[c].status = "cancelado" /\ order'[c].cart = order[c].cart
              /\ \A d \in Confirmation : d # c => order'[d] = order[d]
  BY <1>11 DEF Basket!CancelOrder, CartTypes, Ordered
<1>12. ASSUME NEW c \in Confirmation, Basket!CancelOrder(c), UNCHANGED cartStatus,
              \A d \in Confirmation : pc'[d] = "restoring" => pc[d] = "restoring" /\ d # c
       PROVE  CartsApart'
  BY <1>11, <1>12 DEF CartsApart, Basket!Waiting
<1>13. ASSUME NEW c \in Confirmation, Basket!OrderCancelled(c) PROVE CartsApart'
  BY <1>12, <1>13 DEF Basket!OrderCancelled
<1>14. ASSUME NEW c \in Confirmation, Basket!CompensationLooks(c) PROVE CartsApart'
  <2>1. CASE Basket!CancelOrder(c) /\ Basket!Goto(c, "done")
    BY <1>8, <1>12, <1>14, <2>1 DEF Basket!CompensationLooks
  <2>2. CASE Basket!Goto(c, "restoring") /\ UNCHANGED order
    <3>1. \A d \in Confirmation : pc'[d] = "restoring" => pc[d] = "restoring" \/ d = c
      BY <2>2 DEF Basket!Goto, CartTypes, Basket!TypeOK
    <3> QED BY <1>14, <2>2, <3>1 DEF Basket!CompensationLooks, Basket!Compensates, CartsApart,
      Basket!Waiting
  <2> QED BY <1>14, <2>1, <2>2 DEF Basket!CompensationLooks
<1>15. ASSUME NEW c \in Confirmation, Basket!Restore(c) PROVE CartsApart'
  <2>1. /\ pc[c] = "restoring" /\ Basket!CancelOrder(c) /\ Basket!Goto(c, "done") /\ Basket!Active \subseteq {newer[c]}
    BY <1>15 DEF Basket!Restore
  <2>2. PICK o, n : o = order[c].cart /\ n = newer[c] OBVIOUS
  <2>3. \A k \in Basket!CartIds :
          cartStatus'[k] = IF k = o THEN "activo" ELSE IF k = n THEN "borrado" ELSE cartStatus[k]
    BY <1>15, <2>2 DEF Basket!Restore
  <2>4. \A d \in Confirmation : d # c /\ Basket!Waiting(d) => order[d].cart # o
    BY <2>1, <2>2 DEF CartsApart
  <2>5. \A k \in Basket!CartIds : cartStatus[k] = "activo" => k = n
    BY <2>1, <2>2 DEF Basket!Active
  <2>6. \A d \in Confirmation : pc'[d] = "restoring" => pc[d] = "restoring" /\ d # c
    BY <1>8, <2>1
  <2>7. \A d \in Confirmation : Basket!Waiting(d)' => d # c /\ Basket!Waiting(d) /\ order'[d] = order[d]
    BY <1>11, <2>1 DEF Basket!Waiting
  <2>8. \A j, k \in Basket!CartIds : cartStatus'[j] = "activo" /\ cartStatus'[k] = "activo" => j = k
    BY <2>3, <2>5
  <2>9. \A d \in Confirmation : Basket!Waiting(d)' =>
          order'[d].cart \in Basket!CartIds /\ cartStatus'[order'[d].cart] \in {"asociado_a_pedido", "borrado"}
    BY <2>3, <2>4, <2>7 DEF CartsApart
  <2>10. \A d, e \in Confirmation :
           Basket!Waiting(d)' /\ Basket!Waiting(e)' /\ order'[d].cart = order'[e].cart => d = e
    BY <2>7 DEF CartsApart
  <2>11. \A d \in Confirmation : pc'[d] = "restoring" => Basket!Waiting(d)'
    BY <1>11, <2>1, <2>6 DEF CartsApart, Basket!Waiting
  <2> QED BY <2>8, <2>9, <2>10, <2>11 DEF CartsApart
<1>16. CASE Basket!CatalogueChanges \/ UNCHANGED Basket!vars
  BY <1>1, <1>16 DEF Basket!CatalogueChanges, Basket!vars
<1> QED
  BY <1>3, <1>4, <1>5, <1>6, <1>7, <1>9, <1>10, <1>13, <1>14, <1>15, <1>16 DEF Basket!Next

\* A request writes a row of its own kind: with the units it counts, and of a
\* deleted cart none.
LEMMA WriteIsCounted ==
  ASSUME CartAssumption, CartInv, CartTypes', NEW c \in Request, call[c] \in Asked, call[c].cart \in Basket!CartIds,
         Basket!Write(c), call[c].op.type \in Basket!ItemOperations, UNCHANGED cartStatus,
         Basket!Exists(c) \/ call[c].entity[call[c].op.variant] = Basket!NoRow,
         ~overlapped' => ~overlapped /\ call[c].entity[call[c].op.variant].quantity
                           = Leaves(call[c].op, items[call[c].cart][call[c].op.variant].quantity)
  PROVE  Basket!DeletedCartsAreEmpty' /\ Basket!OperationsAddUp'
<1> USE NoRowIsNoRow
<1>1. PICK k \in Basket!CartIds, op \in Basket!Operation : k = call[c].cart /\ op = call[c].op
  BY DEF Asked
<1>2. PICK v \in Variant : v = op.variant BY DEF Basket!Operation
<1>3. PICK e \in Item : e = call[c].entity[v] BY <1>1, <1>2 DEF Asked
<1>4. items' = [items EXCEPT ![k][v] = e] BY <1>1, <1>2, <1>3 DEF Basket!Write
<1>5. items \in [Basket!CartIds -> [Variant -> Item]] /\ counted \in [Basket!CartIds -> [Variant -> Nat]]
  BY DEF CartInv, CartTypes, Basket!TypeOK, Item
<1>6. /\ \A j \in Basket!CartIds : j # k => items'[j] = items[j]
      /\ items'[k] = [items[k] EXCEPT ![v] = e]
  BY <1>4, <1>5
<1>7. counted' = [counted EXCEPT ![k][v] = Leaves(op, @)]
  <2>1. op.type \in Basket!ItemOperations BY <1>1
  <2> QED BY <1>1, <1>2, <2>1 DEF Basket!Write, Leaves, Basket!ItemOperations
<1>8. Basket!DeletedCartsAreEmpty'
  <2>1. SUFFICES ASSUME NEW j \in Basket!CartIds, cartStatus[j] = "borrado"
    PROVE items'[j] = Basket!NoItems
    BY DEF Basket!DeletedCartsAreEmpty
  <2>2. items[j] = Basket!NoItems BY <2>1 DEF CartInv, Basket!DeletedCartsAreEmpty
  <2>3. CASE j # k BY <1>6, <2>2, <2>3
  <2>4. CASE j = k
    <3>1. e = Basket!NoRow BY <1>1, <1>2, <1>3, <2>1, <2>4 DEF Basket!Exists
    <3> QED BY <1>6, <2>2, <2>4, <3>1
  <2> QED BY <2>3, <2>4
<1>9. Basket!OperationsAddUp'
  <2>1. SUFFICES ASSUME ~overlapped', NEW j \in Basket!CartIds, NEW w \in Variant
                 PROVE  items'[j][w].quantity = counted'[j][w]
    BY DEF Basket!OperationsAddUp
  <2>2. ~overlapped /\ e.quantity = Leaves(op, items[k][v].quantity) BY <1>1, <1>2, <1>3, <2>1
  <2>3. items[j][w].quantity = counted[j][w] /\ items[k][v].quantity = counted[k][v]
    BY <2>2 DEF CartInv, Basket!OperationsAddUp
  <2>4. counted'[j][w] = IF j = k /\ w = v THEN Leaves(op, counted[k][v]) ELSE counted[j][w]
    BY <1>5, <1>7
  <2>5. items'[j][w] = IF j = k /\ w = v THEN e ELSE items[j][w] BY <1>4, <1>5
  <2> QED BY <2>2, <2>3, <2>4, <2>5
<1> QED BY <1>8, <1>9

\* No step gives items to a deleted cart, and without overlaps the counts agree.
LEMMA NextKeepsItems ==
  ASSUME CartAssumption, CartInv, [Basket!Next]_(Basket!vars), CartTypes'
  PROVE  Basket!DeletedCartsAreEmpty' /\ Basket!OperationsAddUp'
<1> DEFINE Goal == Basket!DeletedCartsAreEmpty' /\ Basket!OperationsAddUp'
<1> USE NoRowIsNoRow DEF CartInv
<1>1. ASSUME UNCHANGED <<items, counted>>, overlapped => overlapped',
             \A k \in Basket!CartIds : cartStatus'[k] = "borrado" => cartStatus[k] = "borrado"
      PROVE  Goal
  BY <1>1 DEF Basket!DeletedCartsAreEmpty, Basket!OperationsAddUp
<1>2. ASSUME NEW c \in Request, NEW op \in Basket!Operation, Basket!Find(c, op) PROVE Goal
  BY <1>1, <1>2 DEF Basket!Find, Basket!history
<1>3. ASSUME NEW c \in Request, Basket!Create(c) PROVE Goal
  <2>1. UNCHANGED <<items, counted, overlapped>> BY <1>3 DEF Basket!Create, Basket!history
  <2>2. \A k \in Basket!CartIds : cartStatus'[k] = "borrado" => cartStatus[k] = "borrado"
    BY <1>3 DEF Basket!Create, CartTypes, Basket!TypeOK
  <2> QED BY <1>1, <2>1, <2>2
<1>4. ASSUME NEW c \in Request, Basket!Reread(c) \/ Basket!ReadItem(c) \/ Basket!RaceItem(c) \/ Basket!ReadAll(c)
  PROVE Goal
  BY <1>1, <1>4 DEF Basket!Reread, Basket!ReadItem, Basket!RaceItem, Basket!ReadAll,
     Basket!history
<1>5. ASSUME NEW c \in Request, Basket!SaveItem(c) PROVE Goal
  <2>1. /\ call[c] \in Asked /\ call[c].cart \in Basket!CartIds /\ SavesItem(c)
        /\ call[c].op.type \in Basket!ItemOperations /\ UNCHANGED cartStatus
    BY <1>5 DEF Basket!SaveItem, CallsFit, CallFits
  <2>2. PICK k \in Basket!CartIds, op \in Basket!Operation : k = call[c].cart /\ op = call[c].op
    BY <2>1 DEF Asked
  <2>3. PICK v \in Variant : v = op.variant BY DEF Basket!Operation
  <2>4. PICK found \in Item, current \in Item : found = call[c].row[v] /\ current = items[k][v]
    BY <2>1 DEF Asked, CartTypes, Basket!TypeOK, Item
  <2>5. /\ IF Basket!Writable(c, found, current) THEN Basket!Write(c) ELSE UNCHANGED <<items, counted>>
        /\ overlapped' = (overlapped \/ current # found)
    BY <1>5, <2>2, <2>3, <2>4 DEF Basket!SaveItem
  <2>6. CASE ~Basket!Writable(c, found, current)
    BY <1>1, <2>1, <2>5, <2>6
  <2>7. CASE Basket!Writable(c, found, current)
    <3>1. found # Basket!NoRow /\ call[c].entity[v].quantity = Leaves(op, found.quantity)
      BY <2>1, <2>2, <2>3, <2>4 DEF SavesItem
    <3>2. found.id # None BY <3>1, <2>4
    <3>3. Basket!Exists(c)
      <4>1. SUFFICES ASSUME ~Basket!Exists(c) PROVE FALSE OBVIOUS
      <4>2. items[k] = Basket!NoItems BY <4>1, <2>2 DEF Basket!Exists, Basket!DeletedCartsAreEmpty
      <4>3. current.id = None BY <4>2, <2>4
      <4> QED BY <4>1, <4>3, <3>2, <2>7 DEF Basket!Writable
    <3>4. ~overlapped' => ~overlapped /\ call[c].entity[v].quantity = Leaves(op, items[k][v].quantity)
      BY <2>4, <2>5, <3>1
    <3>5. Basket!Write(c) BY <2>5, <2>7
    <3> QED BY <2>1, <2>2, <2>3, <3>3, <3>4, <3>5, WriteIsCounted
  <2> QED BY <2>6, <2>7
<1>6. ASSUME NEW c \in Request, Basket!InsertItem(c) PROVE Goal
  <2>1. /\ call[c] \in Asked /\ call[c].cart \in Basket!CartIds /\ Inserts(c)
        /\ call[c].op.type \in Basket!ItemOperations /\ UNCHANGED <<cartStatus, overlapped>>
    BY <1>6 DEF Basket!InsertItem, CallsFit, CallFits, Inserts, Basket!ItemOperations
  <2>2. PICK k \in Basket!CartIds, op \in Basket!Operation : k = call[c].cart /\ op = call[c].op
    BY <2>1 DEF Asked
  <2>3. PICK v \in Variant : v = op.variant BY DEF Basket!Operation
  <2>4. CASE UNCHANGED <<items, counted>> BY <1>1, <2>1, <2>4
  <2>5. CASE Basket!Write(c) /\ Basket!Exists(c) /\ items[k][v] = Basket!NoRow
    <3>1. op.quantity \in Nat /\ op.type = "add" /\ call[c].entity[v].quantity = op.quantity
      BY <2>1, <2>2, <2>3 DEF Inserts, Basket!Operation, CartAssumption
    <3>2. call[c].entity[v].quantity = Leaves(op, items[k][v].quantity)
      BY <2>5, <3>1 DEF Leaves
    <3> QED BY <2>1, <2>2, <2>3, <2>5, <3>2, WriteIsCounted
  <2> QED BY <1>6, <2>2, <2>3, <2>4, <2>5 DEF Basket!InsertItem
<1>7. ASSUME NEW K, NEW rows \in [Basket!CartIds -> [Variant -> Item]],
             items' = [k \in Basket!CartIds |-> IF k \in K THEN rows[k] ELSE items[k]],
             counted' = [k \in Basket!CartIds |->
                           IF k \in K THEN [v \in Variant |-> rows[k][v].quantity] ELSE counted[k]],
             overlapped => overlapped',
             \A k \in K \cap Basket!CartIds : cartStatus'[k] = "borrado" => rows[k] = Basket!NoItems,
             \A k \in Basket!CartIds \ K : cartStatus'[k] = "borrado" => cartStatus[k] = "borrado"
      PROVE  Goal
  <2>1. Basket!DeletedCartsAreEmpty' BY <1>7 DEF Basket!DeletedCartsAreEmpty
  <2>2. Basket!OperationsAddUp' BY <1>7 DEF Basket!OperationsAddUp
  <2> QED BY <2>1, <2>2
<1>8. items \in [Basket!CartIds -> [Variant -> Item]] /\ counted \in [Basket!CartIds -> [Variant -> Nat]]
  BY DEF CartTypes, Basket!TypeOK, Item
<1>9. ASSUME NEW c \in Request, Basket!ClearItems(c) PROVE Goal
  <2>1. PICK k : k = call[c].cart OBVIOUS
  <2> DEFINE rows == [i \in Basket!CartIds |-> Basket!NoItems]
  <2>2. items' = [j \in Basket!CartIds |-> IF j \in {k} THEN rows[j] ELSE items[j]]
    BY <1>8, <1>9, <2>1 DEF Basket!ClearItems
  <2>3. counted' = [j \in Basket!CartIds |->
                      IF j \in {k} THEN [v \in Variant |-> rows[j][v].quantity] ELSE counted[j]]
    <3>1. [v \in Variant |-> 0] = [v \in Variant |-> Basket!NoItems[v].quantity] OBVIOUS
    <3> QED BY <1>8, <1>9, <2>1, <3>1 DEF Basket!ClearItems
  <2>4. UNCHANGED <<cartStatus, overlapped>> BY <1>9 DEF Basket!ClearItems
  <2>5. rows \in [Basket!CartIds -> [Variant -> Item]] OBVIOUS
  <2>6. \A j \in {k} \cap Basket!CartIds : cartStatus'[j] = "borrado" => rows[j] = Basket!NoItems OBVIOUS
  <2> HIDE DEF Goal, rows
  <2> QED BY <2>2, <2>3, <2>4, <2>5, <2>6, <1>7
<1>10. ASSUME NEW c \in Request, Basket!Revalidate(c) PROVE Goal
  <2>1. call[c] \in Asked /\ call[c].cart \in Basket!CartIds /\ SavesAll(c) /\ UNCHANGED cartStatus
        /\ (overlapped => overlapped')
    BY <1>10 DEF Basket!Revalidate, CallsFit, CallFits, Basket!ItemOperations
  <2>2. PICK k \in Basket!CartIds : k = call[c].cart BY <2>1
  <2>3. PICK read \in [Variant -> Item], ent \in [Variant -> Item] : read = call[c].row /\ ent = call[c].entity
    BY <2>1 DEF Asked
  <2> DEFINE new == [v \in Variant |-> IF ent[v] = read[v] THEN items[k][v]
                                       ELSE IF items[k][v].id = read[v].id THEN ent[v]
                                       ELSE items[k][v]]
             rows == [j \in Basket!CartIds |-> new]
  <2>4. new \in [Variant -> Item] BY <1>8, <2>3
  <2>5. /\ items' = [items EXCEPT ![k] = new]
        /\ counted' = [counted EXCEPT ![k] = [v \in Variant |-> new[v].quantity]]
    BY <1>10, <2>2, <2>3 DEF Basket!Revalidate
  <2>6. ASSUME cartStatus[k] = "borrado" PROVE new = Basket!NoItems
    <3>1. items[k] = Basket!NoItems BY <2>6 DEF Basket!DeletedCartsAreEmpty
    <3>2. \A v \in Variant : read[v] = Basket!NoRow => ent[v] = Basket!NoRow
      BY <2>1, <2>3 DEF SavesAll
    <3>3. \A v \in Variant : new[v] = Basket!NoRow BY <3>1, <3>2, <2>3
    <3> QED BY <3>3 DEF Basket!NoItems
  <2> HIDE DEF new
  <2>7. items' = [j \in Basket!CartIds |-> IF j \in {k} THEN rows[j] ELSE items[j]] BY <1>8, <2>5
  <2>8. counted' = [j \in Basket!CartIds |->
                      IF j \in {k} THEN [v \in Variant |-> rows[j][v].quantity] ELSE counted[j]]
    BY <1>8, <2>5
  <2>9. rows \in [Basket!CartIds -> [Variant -> Item]] BY <2>4
  <2>10. \A j \in {k} \cap Basket!CartIds : cartStatus'[j] = "borrado" => rows[j] = Basket!NoItems
    BY <2>1, <2>6
  <2> HIDE DEF Goal, rows
  <2> QED BY <2>1, <2>7, <2>8, <2>9, <2>10, <1>7
<1>11. ASSUME NEW c \in Confirmation, Basket!Confirm(c) PROVE Goal
  <2>1. UNCHANGED <<items, counted, overlapped>> BY <1>11 DEF Basket!Confirm
  <2>2. \A k \in Basket!CartIds : cartStatus'[k] = "borrado" => cartStatus[k] = "borrado"
    BY <1>11 DEF Basket!Confirm, CartTypes, Basket!TypeOK
  <2> QED BY <1>1, <2>1, <2>2
<1>12. ASSUME NEW c \in Confirmation,
              Basket!PreferenceRequested(c) \/ Basket!CompensationGivesUp(c) \/ Basket!RestoreClashes(c)
                \/ Basket!OrderCancelled(c) \/ Basket!CompensationLooks(c)
       PROVE  Goal
  BY <1>1, <1>12 DEF Basket!PreferenceRequested, Basket!CompensationGivesUp,
     Basket!RestoreClashes, Basket!OrderCancelled,
                     Basket!CompensationLooks, Basket!history
<1>13. ASSUME NEW c \in Confirmation, Basket!Restore(c) PROVE Goal
  <2>1. PICK n : n = newer[c] OBVIOUS
  <2> DEFINE rows == [i \in Basket!CartIds |-> Basket!NoItems]
  <2>2. items' = [j \in Basket!CartIds |-> IF j \in {n} THEN rows[j] ELSE items[j]]
    BY <1>13, <2>1 DEF Basket!Restore
  <2>3. counted' = [j \in Basket!CartIds |->
                      IF j \in {n} THEN [v \in Variant |-> rows[j][v].quantity] ELSE counted[j]]
    <3>1. [v \in Variant |-> 0] = [v \in Variant |-> Basket!NoItems[v].quantity] OBVIOUS
    <3> QED BY <1>13, <2>1, <3>1 DEF Basket!Restore
  <2>4. UNCHANGED overlapped /\ \A j \in Basket!CartIds \ {n} : cartStatus'[j] = "borrado" => cartStatus[j] = "borrado"
    BY <1>13, <2>1 DEF Basket!Restore
  <2>5. rows \in [Basket!CartIds -> [Variant -> Item]] OBVIOUS
  <2>6. \A j \in {n} \cap Basket!CartIds : cartStatus'[j] = "borrado" => rows[j] = Basket!NoItems OBVIOUS
  <2> HIDE DEF Goal, rows
  <2> QED BY <2>2, <2>3, <2>4, <2>5, <2>6, <1>7
<1>14. CASE Basket!CatalogueChanges \/ UNCHANGED Basket!vars
  BY <1>1, <1>14 DEF Basket!CatalogueChanges, Basket!vars, Basket!history
<1> QED
  BY <1>2, <1>3, <1>4, <1>5, <1>6, <1>9, <1>10, <1>11, <1>12, <1>13, <1>14 DEF Basket!Next

\* A revalidation leaves rows the checkout takes, which stay as they are under
\* another one.
LEMMA RevalidatedIsFine ==
  ASSUME CartAssumption, CartTypes, NEW v \in Variant, NEW r \in Item
  PROVE  /\ Fine(v, Basket!Revalidated(v, r))
         /\ Basket!Revalidated(v, Basket!Revalidated(v, r)) = Basket!Revalidated(v, r)
         /\ Basket!Revalidated(v, r) # Basket!NoRow => Basket!Revalidated(v, r).id = r.id
<1> USE NoRowIsNoRow
<1>1. CASE r = Basket!NoRow \/ ~Basket!Resolves(v, 1)
  BY <1>1 DEF Basket!Revalidated, Fine
<1>2. CASE ~(r = Basket!NoRow \/ ~Basket!Resolves(v, 1))
  <2>1. r \in Basket!Rows /\ available[v] \in Nat \ {0} /\ price[v] \in Prices /\ purchasable[v]
    BY <1>2 DEF Item, Basket!Resolves, CartTypes, Basket!TypeOK
  <2> DEFINE q == IF r.quantity > available[v] THEN available[v] ELSE r.quantity
             s == [r EXCEPT !.quantity = q, !.price = price[v]]
  <2>2. Basket!Revalidated(v, r) = s
    BY <1>2, <2>1 DEF Basket!Revalidated, Basket!Rows
  <2>3. s \in Basket!Rows /\ s.quantity = q /\ q <= available[v] /\ s.price = price[v] /\ s.id = r.id
    <3>1. r.quantity \in Nat \ {0} BY <2>1
    <3>2. q \in Nat \ {0} /\ q <= available[v] BY <2>1, <3>1
    <3> HIDE DEF q
    <3>3. s.quantity = q /\ s.price = price[v] /\ s.id = r.id BY <2>1 DEF Basket!Rows
    <3>4. s \in Basket!Rows BY <2>1, <3>2 DEF Basket!Rows
    <3> QED BY <3>2, <3>3, <3>4
  <2>4. s # Basket!NoRow BY <2>3
  <2>5. Basket!Revalidated(v, s) = [s EXCEPT !.quantity = q, !.price = price[v]]
    BY <1>2, <2>3, <2>4 DEF Basket!Revalidated
  <2>6. [s EXCEPT !.quantity = q, !.price = price[v]] = s BY <2>1 DEF Basket!Rows
  <2> QED BY <2>1, <2>2, <2>3, <2>5, <2>6 DEF Fine
<1> QED BY <1>1, <1>2

LEMMA StaysFresh ==
  ASSUME NEW d, StillFresh(d), UNCHANGED <<available, price, purchasable, items, cartStatus>>,
         pc'[d] = pc[d], call'[d] = call[d]
  PROVE  StillFresh(d)'
<1>1. Basket!Active' = Basket!Active BY DEF Basket!Active
<1>2. \A v \in Variant : Basket!Revalidated(v, call[d].row[v])' = Basket!Revalidated(v, call[d].row[v])
  BY DEF Basket!Revalidated, Basket!Resolves
<1>3. \A v \in Variant : Fine(v, items[call[d].cart][v])' <=> Fine(v, items[call[d].cart][v])
  BY DEF Fine
<1> QED BY <1>1, <1>2, <1>3 DEF StillFresh

\* Between a revalidation and a change of anything else, its rows are fine.
LEMMA NextKeepsFresh ==
  ASSUME CartAssumption, CartInv, [Basket!Next]_(Basket!vars), CartTypes'
  PROVE  FreshAreAccepted'
<1> USE NoRowIsNoRow DEF CartInv
<1>1. ASSUME fresh' = {} PROVE FreshAreAccepted'
  BY <1>1 DEF FreshAreAccepted
<1>2. ASSUME NEW c \in Request \cup Confirmation, c \notin fresh, \E s : Basket!Goto(c, s),
             UNCHANGED <<available, price, purchasable, items, fresh>>,
             fresh # {} => UNCHANGED cartStatus,
             \A d \in Request \ {c} : call'[d] = call[d]
      PROVE  FreshAreAccepted'
  <2>1. SUFFICES ASSUME NEW d \in fresh PROVE StillFresh(d)'
    BY <1>2 DEF FreshAreAccepted
  <2>2. d \in Request /\ d # c BY <1>2 DEF CartTypes, Basket!TypeOK
  <2>3. pc'[d] = pc[d] /\ call'[d] = call[d] /\ cartStatus' = cartStatus
    BY <1>2, <2>2 DEF Basket!Goto, CartTypes, Basket!TypeOK
  <2>4. StillFresh(d) BY DEF FreshAreAccepted
  <2> QED BY <1>2, <2>3, <2>4, StaysFresh
<1>3. \A c \in fresh : pc[c] \in {"saving", "done"} /\ call[c].op.type = "revalidate"
                        /\ call[c] \in Asked /\ call[c].cart \in Basket!Active
  BY DEF FreshAreAccepted, StillFresh
<1>4. Request \cap Confirmation = {} /\ fresh \subseteq Request
  BY DEF CartAssumption, CartTypes, Basket!TypeOK
<1>5. ASSUME NEW c \in Request, NEW op \in Basket!Operation, Basket!Find(c, op)
  PROVE FreshAreAccepted'
  <2>1. c \notin fresh BY <1>3, <1>5 DEF Basket!Find
  <2>2. \A d \in Request \ {c} : call'[d] = call[d] BY <1>5 DEF Basket!Find, CartTypes
  <2> QED BY <1>2, <1>5, <2>1, <2>2 DEF Basket!Find, Basket!catalogue, Basket!history
<1>6. ASSUME NEW c \in Request, Basket!Create(c) PROVE FreshAreAccepted'
  <2>1. c \notin fresh BY <1>3, <1>6 DEF Basket!Create
  <2>2. \A d \in Request \ {c} : call'[d] = call[d] BY <1>6 DEF Basket!Create, CartTypes
  <2>3. fresh # {} => UNCHANGED cartStatus BY <1>3, <1>6 DEF Basket!Create
  <2>4. \E s : Basket!Goto(c, s) BY <1>6 DEF Basket!Create
  <2> QED
    BY <1>2, <1>6, <2>1, <2>2, <2>3, <2>4 DEF Basket!Create, Basket!catalogue, Basket!history
<1>7. ASSUME NEW c \in Request, Basket!Reread(c) \/ Basket!ReadItem(c) \/ Basket!RaceItem(c)
  PROVE FreshAreAccepted'
  <2>1. c \notin fresh BY <1>3, <1>7 DEF Basket!Reread, Basket!ReadItem, Basket!RaceItem
  <2>2. \A d \in Request \ {c} : call'[d] = call[d]
    BY <1>7 DEF Basket!Reread, Basket!ReadItem, Basket!RaceItem, CartTypes
  <2>3. \E s : Basket!Goto(c, s) BY <1>7 DEF Basket!Reread, Basket!ReadItem, Basket!RaceItem
  <2>4. UNCHANGED <<available, price, purchasable, items, fresh, cartStatus>>
    BY <1>7 DEF Basket!Reread, Basket!ReadItem, Basket!RaceItem, Basket!catalogue, Basket!history
  <2> QED BY <1>2, <2>1, <2>2, <2>3, <2>4
<1>8. ASSUME NEW c \in Request, Basket!SaveItem(c) \/ Basket!InsertItem(c) \/ Basket!ClearItems(c)
  PROVE FreshAreAccepted'
  BY <1>1, <1>8 DEF Basket!SaveItem, Basket!InsertItem, Basket!ClearItems
<1>9. items \in [Basket!CartIds -> [Variant -> Item]] BY DEF CartTypes, Basket!TypeOK, Item
<1>10. ASSUME NEW c \in Request, Basket!ReadAll(c) PROVE FreshAreAccepted'
  <2>1. call[c] \in Asked /\ call[c].cart \in Basket!CartIds /\ pc[c] = "reading" /\ call[c].op.type = "revalidate"
    BY <1>10 DEF Basket!ReadAll, CallsFit, CallFits
  <2>2. PICK k \in Basket!CartIds : k = call[c].cart BY <2>1
  <2>3. PICK rows \in [Variant -> Item] : rows = items[k] BY <1>9
  <2>4. call' = [call EXCEPT ![c].row = rows, ![c].entity = [v \in Variant |-> Basket!Revalidated(v, rows[v])]]
    BY <1>10, <2>2, <2>3 DEF Basket!ReadAll
  <2>5. /\ call'[c].row = rows /\ call'[c].entity = [v \in Variant |-> Basket!Revalidated(v, rows[v])]
        /\ call'[c].op = call[c].op /\ call'[c].cart = k /\ call'[c] \in Asked
        /\ \A d \in Request : d # c => call'[d] = call[d]
    BY <2>1, <2>2, <2>3, <2>4, RevalidatedIsARow DEF CartTypes, Asked
  <2>6. UNCHANGED <<available, price, purchasable, cartStatus, items>>
    BY <1>10 DEF Basket!ReadAll, Basket!catalogue
  <2>7. pc'[c] = "saving" /\ \A d \in Request : d # c => pc'[d] = pc[d]
    BY <1>10 DEF Basket!ReadAll, Basket!Goto, CartTypes, Basket!TypeOK
  <2>8. SUFFICES ASSUME NEW d \in fresh' PROVE StillFresh(d)'
    BY DEF FreshAreAccepted
  <2>9. CASE d = c
    <3>1. k \in Basket!Active BY <1>3, <1>10, <2>1, <2>2, <2>8, <2>9 DEF Basket!ReadAll
    <3>2. \A v \in Variant : /\ call'[c].entity[v] = Basket!Revalidated(v, call'[c].row[v])
                             /\ items'[k][v] = call'[c].row[v]
      BY <2>3, <2>5, <2>6
    <3> QED BY <2>1, <2>5, <2>6, <2>7, <2>9, <3>1, <3>2 DEF StillFresh, Basket!Active,
      Basket!Revalidated, Basket!Resolves
  <2>10. CASE d # c
    <3>1. d \in fresh /\ d \in Request BY <1>4, <1>10, <2>8, <2>10 DEF Basket!ReadAll
    <3>2. StillFresh(d) /\ pc'[d] = pc[d] /\ call'[d] = call[d]
      BY <2>5, <2>7, <2>10, <3>1 DEF FreshAreAccepted
    <3> QED BY <2>6, <3>2, StaysFresh
  <2> QED BY <2>9, <2>10
<1>11. ASSUME NEW c \in Request, Basket!Revalidate(c) PROVE FreshAreAccepted'
  <2>1. CASE c \notin fresh BY <1>1, <1>11, <2>1 DEF Basket!Revalidate
  <2>2. CASE c \in fresh
    <3>1. /\ call[c] \in Asked /\ call[c].cart \in Basket!CartIds /\ pc[c] = "saving" /\ StillFresh(c)
      BY <1>11, <2>2 DEF Basket!Revalidate, CallsFit, CallFits, FreshAreAccepted
    <3>2. PICK k \in Basket!CartIds : k = call[c].cart BY <3>1
    <3>3. PICK read \in [Variant -> Item], ent \in [Variant -> Item] : read = call[c].row /\ ent = call[c].entity
      BY <3>1 DEF Asked
    <3> DEFINE new == [v \in Variant |-> IF ent[v] = read[v] THEN items[k][v]
                                         ELSE IF items[k][v].id = read[v].id THEN ent[v]
                                         ELSE items[k][v]]
    <3>4. items' = [items EXCEPT ![k] = new] BY <1>11, <3>2, <3>3 DEF Basket!Revalidate
    <3>5. k \in Basket!Active /\ \A v \in Variant : /\ ent[v] = Basket!Revalidated(v, read[v])
                                              /\ items[k][v] \in {read[v], ent[v]}
      BY <3>1, <3>2, <3>3 DEF StillFresh
    <3>6. \A v \in Variant : new[v] = ent[v]
      BY <3>3, <3>5, <1>9
    <3> HIDE DEF new
    <3>7. \A v \in Variant : items'[k][v] = ent[v] /\ Fine(v, ent[v])
      BY <3>3, <3>4, <3>5, <3>6, <1>9, RevalidatedIsFine
    <3>8. UNCHANGED <<available, price, purchasable, cartStatus, call, fresh>>
      BY <1>11, <2>2 DEF Basket!Revalidate, Basket!catalogue
    <3>9. pc'[c] = "done" /\ \A d \in Request : d # c => pc'[d] = pc[d]
      BY <1>11 DEF Basket!Revalidate, Basket!Goto, CartTypes, Basket!TypeOK
    <3>10. SUFFICES ASSUME NEW d \in fresh PROVE StillFresh(d)'
      BY <3>8 DEF FreshAreAccepted
    <3>11. StillFresh(d) /\ d \in Request /\ call[d] \in Asked
      BY <1>4 DEF FreshAreAccepted, StillFresh
    <3>12. call[d].cart = k
      BY <3>5, <3>11 DEF StillFresh, Basket!Active, CartsApart
    <3>13. CASE pc'[d] = "done"
      <4>1. \A v \in Variant : Fine(v, items[k][v])' BY <3>7, <3>8 DEF Fine
      <4>2. call'[d] = call[d] /\ call'[d].cart = k BY <3>8, <3>12
      <4>3. \A v \in Variant : Fine(v, items[call[d].cart][v])' BY <4>1, <4>2
      <4> QED BY <3>8, <3>11, <3>13, <4>2, <4>3 DEF StillFresh, Basket!Active
    <3>14. CASE pc'[d] # "done"
      <4>1. pc[d] = "saving" /\ pc'[d] = "saving" BY <3>9, <3>11, <3>14 DEF StillFresh
      <4>2. PICK dread \in [Variant -> Item], dent \in [Variant -> Item] :
              dread = call[d].row /\ dent = call[d].entity
        BY <3>11 DEF Asked
      <4>3. \A v \in Variant : /\ dent[v] = Basket!Revalidated(v, dread[v])
                               /\ items[k][v] \in {dread[v], dent[v]}
        BY <3>11, <3>12, <4>1, <4>2 DEF StillFresh
      <4>4. \A v \in Variant : ent[v] = dent[v]
        <5> TAKE v \in Variant
        <5>1. /\ Basket!Revalidated(v, ent[v]) = ent[v] /\ Basket!Revalidated(v, dent[v]) = dent[v]
          BY <3>3, <3>5, <4>2, <4>3, RevalidatedIsFine
        <5> QED BY <3>5, <4>3, <5>1
      <4>5. \A v \in Variant : /\ dent[v] = Basket!Revalidated(v, dread[v])'
                               /\ items'[k][v] \in {dread[v], dent[v]}
        BY <3>7, <3>8, <4>3, <4>4 DEF Basket!Revalidated, Basket!Resolves
      <4>6. call'[d] = call[d] BY <3>8
      <4>7. \A v \in Variant : /\ call'[d].entity[v] = Basket!Revalidated(v, call[d].row[v])'
                               /\ items'[call'[d].cart][v] \in {call'[d].row[v], call'[d].entity[v]}
        BY <3>12, <4>2, <4>5, <4>6
      <4> QED BY <3>8, <3>11, <4>1, <4>7 DEF StillFresh, Basket!Active
    <3> QED BY <3>13, <3>14
  <2> QED BY <2>1, <2>2
<1>12. ASSUME NEW c \in Confirmation, Basket!Confirm(c) \/ Basket!OrderCancelled(c) \/ Basket!Restore(c)
       PROVE  FreshAreAccepted'
  BY <1>1, <1>12 DEF Basket!Confirm, Basket!OrderCancelled, Basket!Restore, Basket!CancelOrder
<1>13. ASSUME NEW c \in Confirmation,
              Basket!PreferenceRequested(c) \/ Basket!CompensationGivesUp(c) \/ Basket!RestoreClashes(c)
       PROVE  FreshAreAccepted'
  <2>1. \E s : Basket!Goto(c, s)
    BY <1>13 DEF Basket!PreferenceRequested, Basket!CompensationGivesUp, Basket!RestoreClashes
  <2>2. UNCHANGED <<available, price, purchasable, items, fresh, cartStatus, call>>
    BY <1>13 DEF Basket!PreferenceRequested, Basket!CompensationGivesUp, Basket!RestoreClashes,
       Basket!catalogue, Basket!history
  <2> QED BY <1>2, <1>4, <2>1, <2>2
<1>14. ASSUME NEW c \in Confirmation, Basket!CompensationLooks(c) PROVE FreshAreAccepted'
  <2>1. CASE Basket!CancelOrder(c) BY <1>1, <2>1 DEF Basket!CancelOrder
  <2>2. CASE Basket!Goto(c, "restoring") /\ UNCHANGED <<order, available, fresh>>
    <3>1. UNCHANGED <<available, price, purchasable, items, fresh, cartStatus, call>>
      BY <1>14, <2>2 DEF Basket!CompensationLooks
    <3> QED BY <1>2, <1>4, <2>2, <3>1
  <2> QED BY <1>14, <2>1, <2>2 DEF Basket!CompensationLooks
<1>15. CASE Basket!CatalogueChanges BY <1>1, <1>15 DEF Basket!CatalogueChanges
<1>16. CASE UNCHANGED Basket!vars
  BY <1>16, StaysFresh DEF FreshAreAccepted, Basket!vars, Basket!catalogue, Basket!history
<1> QED
  BY <1>5, <1>6, <1>7, <1>8, <1>10, <1>11, <1>12, <1>13, <1>14, <1>15, <1>16 DEF Basket!Next

-----------------------------------------------------------------------------
LEMMA NextKeepsCart ==
  ASSUME CartAssumption, CartInv, [Basket!Next]_(Basket!vars)
  PROVE  CartInv'
<1>1. CartTypes' BY NextKeepsTypes
<1> QED BY <1>1, NextKeepsCalls, NextKeepsApart, NextKeepsItems, NextKeepsFresh DEF CartInv

\* Every reachable cart and call is as the operations left it.
LEMMA PartKeepsCart ==
  ASSUME CartAssumption
  PROVE  MCSpec => [](part = "cart" => CartInv)
<1>1. MCInit => (part = "cart" => CartInv)
  BY InitCart DEF MCInit
<1>2. ASSUME part = "cart" => CartInv,
             [MCNext]_<<part, vars, adjustOnly, cartOnly, guestOnly, shared>>
      PROVE  (part = "cart" => CartInv)'
  <2>1. CASE UNCHANGED <<part, vars, adjustOnly, cartOnly, guestOnly, shared>>
    <3>1. UNCHANGED <<part, Basket!vars>>
      BY <2>1, Zenon DEF cartOnly, shared, Basket!vars, Basket!catalogue, Basket!history
    <3> QED BY <3>1, <1>2, NextKeepsCart
  <2>2. CASE CartNext
    <3>1. part = "cart" /\ Basket!Next BY <2>2 DEF CartNext
    <3> QED BY <3>1, <1>2, NextKeepsCart
  <2>3. CASE LocksNext \/ AdjustNext \/ VisitorNext
    BY <2>3 DEF LocksNext, AdjustNext, VisitorNext
  <2> QED BY <1>2, <2>1, <2>2, <2>3 DEF MCNext
<1> QED BY <1>1, <1>2, PTL DEF MCSpec

\* However many requests, checkouts and compensations overlap, a cart that can be
\* edited is not that of an order that waits to be paid, no two such orders come
\* from one cart, and no request gives items to a deleted cart
\* (checkout.service.ts:453-467, cart.service.ts:300-343, 434-447).
THEOREM EditableCartIsAlwaysFree ==
  ASSUME CartAssumption
  PROVE  MCSpec => []EditableCartIsFree
<1>1. (part = "cart" => CartInv) => EditableCartIsFree
  BY DEF CartInv, CartsApart, EditableCartIsFree, Basket!EditableCartIsFree
<1> QED BY <1>1, PartKeepsCart, PTL

\* Until a request saves over a row that moved, carts have what the operations
\* add up to; and a cart that was revalidated is accepted as it is while nothing
\* changes (cart.service.ts:252-298, 425-447; checkout.service.ts:192-206).
THEOREM CartsAlwaysAddUp ==
  ASSUME CartAssumption
  PROVE  MCSpec => []CartsAddUp
<1>1. CartInv => Basket!CartsAddUp
  <2> SUFFICES ASSUME CartInv, NEW c \in fresh, pc[c] = "done", NEW k \in Basket!Active
               PROVE  Basket!Problems(k) = {} /\ Basket!Reservable(k)
    BY DEF CartInv, CartTypes, Basket!CartsAddUp, Basket!RevalidatedIsAccepted
  <2>1. StillFresh(c) BY DEF CartInv, FreshAreAccepted
  <2>2. call[c].cart = k BY <2>1 DEF CartInv, CartsApart, StillFresh, Basket!Active
  <2>3. \A v \in Variant : Fine(v, items[k][v]) BY <2>1, <2>2 DEF StillFresh
  <2>4. Basket!Problems(k) = {} BY <2>3 DEF Fine, Basket!Problems
  <2>5. Basket!NoRow.quantity = 0 /\ \A v \in Variant : available[v] \in Nat
    BY DEF Basket!NoRow, CartInv, CartTypes, Basket!TypeOK
  <2>6. Basket!Reservable(k) BY <2>3, <2>5 DEF Fine, Basket!Reservable
  <2> QED BY <2>4, <2>6
<1>2. (part = "cart" => CartInv) => CartsAddUp
  BY <1>1 DEF CartsAddUp
<1> QED BY <1>2, PartKeepsCart, PTL

-----------------------------------------------------------------------------
(***************************************************************************)
(* The adjustments of the stock                                            *)
(***************************************************************************)
\* A finite number of orders buy at once, and quantities are numbers.
AdjustAssumption == IsFiniteSet(Buyer) /\ Quantities \subseteq Nat

StockRow == [stockTotal : Int, stockReserved : Nat, isActive : BOOLEAN]

\* An adjustment under way: what it read, and what it will save.
AdjEntity(a) ==
  /\ entity[a].variant \in Variant
  /\ entity[a].was \in StockRow
  /\ entity[a].row \in StockRow
  /\ entity[a].row.stockReserved = entity[a].was.stockReserved
  /\ entity[a].row.isActive = entity[a].was.isActive
  /\ entity[a].row.stockTotal >= entity[a].was.stockReserved

\* Rows are of their types, and so is what an adjustment under way holds.
AdjTypes ==
  /\ Adjusting!TypeOK
  /\ DOMAIN entity = Adjustment
  /\ \A a \in Adjustment : pc[a] \in {"saving", "updating"} => AdjEntity(a)

\* What an UPDATE sets that found the row as it was read.
SetsTotalOnly(a) ==
  columns[a] = IF entity[a].row.stockTotal = entity[a].was.stockTotal THEN {} ELSE {"stockTotal"}

\* Besides the property: an UPDATE about to run sets the total and nothing else,
\* unless a row moved.  Without it a save could write back an old reservation.
AdjInv ==
  /\ AdjTypes
  /\ Adjusting!AloneAdjustmentsAreExact
  /\ ~overlapped => \A a \in Adjustment : pc[a] = "updating" => SetsTotalOnly(a)

\* The sums StockAdjust takes are those of Sums.
LEMMA SameSum == \A f, S : Adjusting!SumOver(f, S) = SumOver(f, S)
BY Zenon DEF Adjusting!SumOver, SumOver, Adjusting!UnitsOver, UnitsOver, Adjusting!Cardinality,
   Cardinality

\* What an order adds to what is held of each variant.
LineOf(line, v) == IF v = line.variant THEN line.quantity ELSE 0

LEMMA BatchOfLine ==
  ASSUME NEW line, NEW v \in Variant
  PROVE  Adjusting!Batch(line)[v] = LineOf(line, v)
BY DEF Adjusting!Batch, LineOf

LEMMA LinesAreNumbers ==
  ASSUME AdjustAssumption, NEW line \in Adjusting!OrderLines \cup {Adjusting!Nothing}, NEW v
  PROVE  LineOf(line, v) \in Nat
<1>1. CASE line \in Adjusting!OrderLines
  <2>1. line.quantity \in Quantities BY <1>1 DEF Adjusting!OrderLines
  <2> QED BY <2>1 DEF LineOf, AdjustAssumption
<1>2. CASE line = Adjusting!Nothing
  <2>1. line.quantity = 0 BY <1>2 DEF Adjusting!Nothing
  <2> QED BY <2>1 DEF LineOf
<1> QED BY <1>1, <1>2

\* Another line of one order changes what is held by the difference.
LEMMA HeldChanges ==
  ASSUME AdjustAssumption, holding \in [Buyer -> Adjusting!OrderLines \cup {Adjusting!Nothing}],
         NEW b \in Buyer, NEW line \in Adjusting!OrderLines \cup {Adjusting!Nothing},
         holding' = [holding EXCEPT ![b] = line], NEW v \in Variant
  PROVE  /\ Adjusting!Held(v) \in Nat /\ LineOf(holding[b], v) \in Nat /\ LineOf(line, v) \in Nat
         /\ Adjusting!Held(v) >= LineOf(holding[b], v)
         /\ Adjusting!Held(v)' = Adjusting!Held(v) - LineOf(holding[b], v) + LineOf(line, v)
<1> DEFINE f == [c \in Buyer |-> Adjusting!Batch(holding[c])[v]]
<1>1. PICK g : g = [c \in Buyer |-> Adjusting!Batch(holding'[c])[v]] OBVIOUS
<1>2. \A c \in Buyer : f[c] = LineOf(holding[c], v) /\ f[c] \in Nat
  BY BatchOfLine, LinesAreNumbers
<1>3. \A c \in Buyer : g[c] = LineOf(holding'[c], v) /\ g[c] \in Nat
  <2> SUFFICES ASSUME NEW c \in Buyer PROVE g[c] = LineOf(holding'[c], v) /\ g[c] \in Nat OBVIOUS
  <2>1. PICK mine : mine = holding'[c] OBVIOUS
  <2>2. mine \in Adjusting!OrderLines \cup {Adjusting!Nothing} BY <2>1
  <2>3. g[c] = Adjusting!Batch(mine)[v] BY <1>1, <2>1
  <2>4. g[c] = LineOf(mine, v) BY <2>3, BatchOfLine
  <2> QED BY <2>1, <2>2, <2>4, LinesAreNumbers
<1>4. \A c \in Buyer \ {b} : g[c] = f[c] BY <1>2, <1>3
<1>5. f[b] = LineOf(holding[b], v) /\ g[b] = LineOf(line, v) BY <1>2, <1>3
<1>6. Adjusting!Held(v) = SumOver(f, Buyer) BY SameSum DEF Adjusting!Held
<1>7. Adjusting!Held(v)' = SumOver(g, Buyer)
  <2>1. Adjusting!Held(v)' = Adjusting!SumOver([c \in Buyer |-> Adjusting!Batch(holding'[c])[v]], Buyer)
    BY DEF Adjusting!Held, Adjusting!Batch
  <2> QED BY <1>1, <2>1, SameSum
<1> HIDE DEF f
<1>8. IsFiniteSet(Buyer) BY DEF AdjustAssumption
<1>9. SumOver(g, Buyer) = SumOver(f, Buyer) - f[b] + g[b] BY <1>2, <1>3, <1>4, <1>8, SumChange
<1>10. SumOver(f, Buyer) = SumOver(f, Buyer \ {b}) + f[b] BY <1>2, <1>8, SumRemove
<1>11. SumOver(f, Buyer \ {b}) \in Nat BY <1>2, <1>8, FS_RemoveElement, SumType
<1>12. SumOver(f, Buyer) \in Nat BY <1>2, <1>8, SumType
<1> QED BY <1>2, <1>3, <1>5, <1>6, <1>7, <1>9, <1>10, <1>11, <1>12

LEMMA AdjInit ==
  ASSUME AdjustAssumption, Adjusting!Init
  PROVE  AdjInv
<1>1. AdjTypes
  <2>1. stockTotal \in [Variant -> Int] /\ recorded \in [Variant -> Int]
    <3>1. stockTotal \in [Variant -> Quantities] /\ recorded = stockTotal BY DEF Adjusting!Init
    <3>2. Quantities \subseteq Int BY DEF AdjustAssumption
    <3> QED BY <3>1, <3>2
  <2>2. stockReserved \in [Variant -> Nat] /\ isActive \in [Variant -> BOOLEAN]
    BY DEF Adjusting!Init
  <2>3. threshold \in Adjusting!Thresholds BY DEF Adjusting!Init, Adjusting!Thresholds
  <2>4. holding \in [Buyer -> Adjusting!OrderLines \cup {Adjusting!Nothing}] BY DEF Adjusting!Init
  <2>5. /\ pc \in [Adjustment -> {"idle", "saving", "updating", "done"}]
        /\ columns \in [Adjustment -> SUBSET Adjusting!Columns]
        /\ overlapped \in BOOLEAN /\ DOMAIN entity = Adjustment
        /\ \A a \in Adjustment : pc[a] = "idle"
    BY DEF Adjusting!Init
  <2>6. Adjusting!TypeOK BY <2>1, <2>2, <2>3, <2>4, <2>5 DEF Adjusting!TypeOK
  <2> QED BY <2>5, <2>6 DEF AdjTypes
<1>2. Adjusting!ReservedIsHeld
  <2> SUFFICES ASSUME NEW v \in Variant
    PROVE stockReserved[v] = Adjusting!Held(v) BY DEF Adjusting!ReservedIsHeld
  <2> DEFINE f == [c \in Buyer |-> Adjusting!Batch(holding[c])[v]]
  <2>1. \A c \in Buyer : f[c] = 0 BY DEF Adjusting!Init, Adjusting!Nothing, Adjusting!Batch
  <2> HIDE DEF f
  <2>2. SumOver(f, Buyer) = 0 BY <2>1, SumZero
  <2>3. Adjusting!Held(v) = SumOver(f, Buyer) BY SameSum DEF Adjusting!Held, f
  <2>4. stockReserved[v] = 0 BY DEF Adjusting!Init
  <2> QED BY <2>2, <2>3, <2>4
<1>3. Adjusting!ReservedWithinTotal
  <2>1. stockTotal \in [Variant -> Quantities] /\ \A v \in Variant : stockReserved[v] = 0
    BY DEF Adjusting!Init
  <2>2. \A v \in Variant : stockTotal[v] \in Nat BY <2>1 DEF AdjustAssumption
  <2> QED BY <2>1, <2>2 DEF Adjusting!ReservedWithinTotal
<1> QED BY <1>1, <1>2, <1>3 DEF Adjusting!Init, AdjInv, Adjusting!AloneAdjustmentsAreExact

\* A step of an order, or of nobody, leaves the adjustments as they are.
LEMMA AdjOthers ==
  ASSUME AdjInv, UNCHANGED <<pc, entity, columns, overlapped>>, Adjusting!TypeOK'
  PROVE  /\ AdjTypes'
         /\ (~overlapped => \A a \in Adjustment : pc[a] = "updating" => SetsTotalOnly(a))'
BY DEF AdjInv, AdjTypes, AdjEntity, SetsTotalOnly

\* Every step keeps AdjInv: a save over a row that did not move sets the total
\* alone, and orders move the reservations by what they hold.
LEMMA AdjNext ==
  ASSUME AdjustAssumption, AdjInv, [Adjusting!Next]_(Adjusting!vars)
  PROVE  AdjInv'
<1> USE DEF AdjInv, AdjTypes, AdjustAssumption
<1>0. /\ stockTotal \in [Variant -> Int] /\ stockReserved \in [Variant -> Nat]
      /\ isActive \in [Variant -> BOOLEAN] /\ threshold \in Adjusting!Thresholds
      /\ holding \in [Buyer -> Adjusting!OrderLines \cup {Adjusting!Nothing}]
      /\ pc \in [Adjustment -> {"idle", "saving", "updating", "done"}]
      /\ columns \in [Adjustment -> SUBSET Adjusting!Columns]
      /\ recorded \in [Variant -> Int] /\ overlapped \in BOOLEAN
  BY DEF Adjusting!TypeOK
<1>1. CASE UNCHANGED Adjusting!vars
  <2>1. UNCHANGED <<stockTotal, stockReserved, isActive, threshold, holding, pc, entity, columns,
                    recorded, overlapped>>
    BY <1>1 DEF Adjusting!vars, Adjusting!stockVars, Adjusting!adjustVars
  <2>2. Adjusting!TypeOK' BY <2>1 DEF Adjusting!TypeOK
  <2>3. \A v : Adjusting!Held(v)' = Adjusting!Held(v) BY <2>1 DEF Adjusting!Held
  <2>4. Adjusting!AloneAdjustmentsAreExact'
    BY <2>1, <2>3 DEF Adjusting!AloneAdjustmentsAreExact, Adjusting!ReservedIsHeld,
       Adjusting!ReservedWithinTotal
  <2> QED BY <2>1, <2>2, <2>4, AdjOthers
<1>2. ASSUME NEW a \in Adjustment, NEW v \in Variant, Adjusting!Read(a, v) PROVE AdjInv'
  <2>1. PICK type \in Adjusting!MovementTypes, q \in Quantities :
          LET total == Adjusting!NewTotal(stockTotal[v], type, q)
          IN /\ Adjusting!Fitting(v, total)
             /\ entity' = [entity EXCEPT ![a] = [variant |-> v, was |-> Adjusting!Row(v),
                                                 row |-> [Adjusting!Row(v) EXCEPT !.stockTotal = total]]]
    BY <1>2 DEF Adjusting!Read
  <2>2. PICK total : total = Adjusting!NewTotal(stockTotal[v], type, q) OBVIOUS
  <2>3. total \in Int BY <1>0, <2>2 DEF Adjusting!NewTotal, Adjusting!MovementTypes
  <2>4. total >= stockReserved[v] BY <2>1, <2>2 DEF Adjusting!Fitting
  <2>5. UNCHANGED <<stockTotal, stockReserved, isActive, threshold, holding, columns, recorded, overlapped>>
        /\ pc' = [pc EXCEPT ![a] = "saving"]
    BY <1>2 DEF Adjusting!Read, Adjusting!stockVars
  <2>6. entity'[a] = [variant |-> v, was |-> Adjusting!Row(v), row |-> [Adjusting!Row(v) EXCEPT !.stockTotal = total]]
        /\ \A b \in Adjustment \ {a} : entity'[b] = entity[b]
    BY <2>1, <2>2
  <2>7. Adjusting!Row(v) \in StockRow /\ Adjusting!Row(v).stockReserved = stockReserved[v]
    BY <1>0 DEF Adjusting!Row, StockRow
  <2>8. AdjEntity(a)' BY <2>3, <2>4, <2>6, <2>7 DEF AdjEntity, StockRow
  <2>9. \A b \in Adjustment : pc'[b] \in {"saving", "updating"} => AdjEntity(b)'
    <3> SUFFICES ASSUME NEW b \in Adjustment \ {a}, pc'[b] \in {"saving", "updating"}
      PROVE AdjEntity(b)'
      BY <2>8
    <3> QED BY <1>0, <2>5, <2>6 DEF AdjEntity
  <2>10. Adjusting!TypeOK' BY <1>0, <2>5 DEF Adjusting!TypeOK
  <2>11. DOMAIN entity' = Adjustment BY <2>1
  <2>12. AdjTypes' BY <2>9, <2>10, <2>11
  <2>13. \A w : Adjusting!Held(w)' = Adjusting!Held(w) BY <2>5 DEF Adjusting!Held
  <2>14. Adjusting!AloneAdjustmentsAreExact'
    BY <2>5, <2>13 DEF Adjusting!AloneAdjustmentsAreExact, Adjusting!ReservedIsHeld,
       Adjusting!ReservedWithinTotal
  <2>15. \A b \in Adjustment : pc'[b] = "updating" => b # a /\ pc[b] = "updating" BY <1>0, <2>5
  <2>16. ASSUME ~overlapped', NEW b \in Adjustment, pc'[b] = "updating" PROVE SetsTotalOnly(b)'
    BY <2>5, <2>6, <2>15, <2>16 DEF SetsTotalOnly
  <2> QED BY <2>12, <2>14, <2>16
<1>3. ASSUME NEW a \in Adjustment, Adjusting!Load(a) PROVE AdjInv'
  <2>1. /\ pc[a] = "saving" /\ pc' = [pc EXCEPT ![a] = "updating"]
        /\ columns' = [columns EXCEPT ![a] = Adjusting!Differing(a)]
        /\ overlapped' = (overlapped \/ Adjusting!Moved(a))
        /\ UNCHANGED <<stockTotal, stockReserved, isActive, threshold, holding, entity, recorded>>
    BY <1>3 DEF Adjusting!Load, Adjusting!stockVars
  <2>2. Adjusting!Differing(a) \in SUBSET Adjusting!Columns /\ Adjusting!Moved(a) \in BOOLEAN
    BY DEF Adjusting!Differing, Adjusting!Moved
  <2>3. Adjusting!TypeOK' BY <1>0, <2>1, <2>2 DEF Adjusting!TypeOK
  <2>4. AdjTypes' BY <1>0, <2>1, <2>3 DEF AdjEntity
  <2>5. \A w : Adjusting!Held(w)' = Adjusting!Held(w) BY <2>1 DEF Adjusting!Held
  <2>6. Adjusting!AloneAdjustmentsAreExact'
    BY <2>1, <2>5 DEF Adjusting!AloneAdjustmentsAreExact, Adjusting!ReservedIsHeld,
       Adjusting!ReservedWithinTotal
  <2>7. ASSUME ~overlapped' PROVE SetsTotalOnly(a)'
    <3>1. Adjusting!Row(entity[a].variant) = entity[a].was BY <2>1, <2>7 DEF Adjusting!Moved
    <3>2. AdjEntity(a) BY <2>1
    <3>3. Adjusting!Differing(a) = { c \in Adjusting!Columns : entity[a].row[c] # entity[a].was[c] }
      BY <3>1 DEF Adjusting!Differing
    <3>4. Adjusting!Differing(a) = IF entity[a].row.stockTotal = entity[a].was.stockTotal THEN {} ELSE {"stockTotal"}
      BY <3>2, <3>3 DEF AdjEntity, Adjusting!Columns
    <3> QED BY <1>0, <2>1, <3>4 DEF SetsTotalOnly
  <2>8. ASSUME ~overlapped', NEW b \in Adjustment \ {a}, pc'[b] = "updating"
    PROVE SetsTotalOnly(b)'
    BY <1>0, <2>1, <2>8 DEF SetsTotalOnly
  <2> QED BY <2>4, <2>6, <2>7, <2>8
<1>4. ASSUME NEW a \in Adjustment, Adjusting!Update(a) PROVE AdjInv'
  <2>1. PICK v \in Variant : v = entity[a].variant BY <1>4 DEF Adjusting!Update, AdjEntity
  <2>2. /\ pc[a] = "updating" /\ pc' = [pc EXCEPT ![a] = "done"]
        /\ entity' = [entity EXCEPT ![a] = Adjusting!NoEntity] /\ columns' = [columns EXCEPT ![a] = {}]
        /\ overlapped' = (overlapped \/ Adjusting!Moved(a)) /\ UNCHANGED <<threshold, holding>>
    BY <1>4 DEF Adjusting!Update
  <2>3. AdjEntity(a) BY <2>2
  <2> DEFINE row == entity[a].row
  <2>4. row.stockTotal \in Int /\ row.stockReserved \in Nat /\ row.isActive \in BOOLEAN
    BY <2>3 DEF AdjEntity, StockRow
  <2>5. /\ stockTotal' = IF "stockTotal" \in columns[a] THEN [stockTotal EXCEPT ![v] = row.stockTotal] ELSE stockTotal
        /\ stockReserved' = IF "stockReserved" \in columns[a] THEN [stockReserved EXCEPT ![v] = row.stockReserved]
                                                              ELSE stockReserved
        /\ isActive' = IF "isActive" \in columns[a] THEN [isActive EXCEPT ![v] = row.isActive] ELSE isActive
        /\ recorded' = [recorded EXCEPT ![v] = row.stockTotal]
    BY <1>4, <2>1 DEF Adjusting!Update, Adjusting!Set, Adjusting!Resulting
  <2> HIDE DEF row
  <2>6. Adjusting!TypeOK'
    <3>1. stockTotal' \in [Variant -> Int] BY <1>0, <2>4, <2>5
    <3>2. stockReserved' \in [Variant -> Nat] BY <1>0, <2>4, <2>5
    <3>3. isActive' \in [Variant -> BOOLEAN] BY <1>0, <2>4, <2>5
    <3>4. recorded' \in [Variant -> Int] BY <1>0, <2>4, <2>5
    <3>5. overlapped' \in BOOLEAN BY <1>0, <2>2 DEF Adjusting!Moved
    <3> QED BY <1>0, <2>2, <3>1, <3>2, <3>3, <3>4, <3>5 DEF Adjusting!TypeOK
  <2>7. \A b \in Adjustment \ {a} : pc'[b] = pc[b] /\ entity'[b] = entity[b] /\ columns'[b] = columns[b]
    BY <2>2
  <2>8. pc'[a] = "done" /\ DOMAIN entity' = Adjustment BY <1>0, <2>2
  <2>9. AdjTypes' BY <2>6, <2>7, <2>8 DEF AdjEntity
  <2>10. ASSUME ~overlapped', NEW b \in Adjustment, pc'[b] = "updating" PROVE SetsTotalOnly(b)'
    BY <2>2, <2>7, <2>8, <2>10 DEF SetsTotalOnly
  <2>11. ASSUME ~overlapped'
    PROVE /\ Adjusting!ReservedIsHeld' /\ Adjusting!ReservedWithinTotal' /\ recorded' = stockTotal'
                                   /\ \A w \in Variant : ~isActive'[w] => stockReserved'[w] = 0
    <3>1. ~overlapped /\ Adjusting!Row(v) = entity[a].was /\ SetsTotalOnly(a)
      BY <2>1, <2>2, <2>11 DEF Adjusting!Moved
    <3>2. /\ stockTotal[v] = entity[a].was.stockTotal /\ stockReserved[v] = entity[a].was.stockReserved
      BY <3>1 DEF Adjusting!Row
    <3>3. columns[a] = IF row.stockTotal = stockTotal[v] THEN {} ELSE {"stockTotal"}
      BY <3>1, <3>2 DEF SetsTotalOnly, row
    <3>4. stockTotal' = [stockTotal EXCEPT ![v] = row.stockTotal] BY <1>0, <2>5, <3>3
    <3>5. UNCHANGED <<stockReserved, isActive>> BY <2>5, <3>3
    <3>6. row.stockTotal >= stockReserved[v] BY <2>3, <3>2 DEF AdjEntity, row
    <3>7. recorded = stockTotal /\ Adjusting!ReservedIsHeld /\ Adjusting!ReservedWithinTotal
          /\ \A w \in Variant : ~isActive[w] => stockReserved[w] = 0
      BY <3>1 DEF Adjusting!AloneAdjustmentsAreExact
    <3>8. \A w : Adjusting!Held(w)' = Adjusting!Held(w) BY <2>2 DEF Adjusting!Held
    <3>9. Adjusting!ReservedIsHeld' BY <3>5, <3>7, <3>8 DEF Adjusting!ReservedIsHeld
    <3>10. Adjusting!ReservedWithinTotal'
      BY <1>0, <3>4, <3>5, <3>6, <3>7 DEF Adjusting!ReservedWithinTotal
    <3> QED BY <2>5, <3>4, <3>5, <3>7, <3>9, <3>10
  <2>12. Adjusting!AloneAdjustmentsAreExact' BY <2>11 DEF Adjusting!AloneAdjustmentsAreExact
  <2> QED BY <2>9, <2>10, <2>12
<1>5. CASE Adjusting!SetThreshold
  <2>1. /\ threshold' \in Adjusting!Thresholds
        /\ UNCHANGED <<stockTotal, stockReserved, isActive, holding, pc, entity, columns, recorded, overlapped>>
    BY <1>5 DEF Adjusting!SetThreshold, Adjusting!stockVars, Adjusting!adjustVars
  <2>2. Adjusting!TypeOK' BY <1>0, <2>1 DEF Adjusting!TypeOK
  <2>3. \A v : Adjusting!Held(v)' = Adjusting!Held(v) BY <2>1 DEF Adjusting!Held
  <2>4. Adjusting!AloneAdjustmentsAreExact'
    BY <2>1, <2>3 DEF Adjusting!AloneAdjustmentsAreExact, Adjusting!ReservedIsHeld,
       Adjusting!ReservedWithinTotal
  <2> QED BY <2>1, <2>2, <2>4, AdjOthers
<1>6. ASSUME NEW b \in Buyer, NEW line \in Adjusting!OrderLines, Adjusting!Buy(b, line)
  PROVE AdjInv'
  <2>1. /\ holding[b] = Adjusting!Nothing /\ holding' = [holding EXCEPT ![b] = line] /\ isActive[line.variant]
        /\ \A v \in Variant : Adjusting!Batch(line)[v] > 0 => stockTotal[v] - stockReserved[v] >= Adjusting!Batch(line)[v]
        /\ stockReserved' = [v \in Variant |-> stockReserved[v] + Adjusting!Batch(line)[v]]
        /\ UNCHANGED <<stockTotal, isActive, threshold, pc, entity, columns, recorded, overlapped>>
    BY <1>6 DEF Adjusting!Buy, Adjusting!OrderStep, Adjusting!Reserve, Adjusting!Fits,
       Adjusting!Available, Adjusting!adjustVars
  <2>2. \A v \in Variant : Adjusting!Batch(line)[v] = LineOf(line, v) /\ LineOf(line, v) \in Nat
    BY BatchOfLine, LinesAreNumbers
  <2>3. /\ \A v \in Variant : LineOf(line, v) > 0 => stockTotal[v] - stockReserved[v] >= LineOf(line, v)
        /\ \A v \in Variant : stockReserved'[v] = stockReserved[v] + LineOf(line, v)
    BY <2>1, <2>2
  <2>4. Adjusting!TypeOK' BY <1>0, <2>1, <2>2 DEF Adjusting!TypeOK
  <2>5. ASSUME ~overlapped'
    PROVE /\ Adjusting!ReservedIsHeld' /\ Adjusting!ReservedWithinTotal' /\ recorded' = stockTotal'
                                  /\ \A w \in Variant : ~isActive'[w] => stockReserved'[w] = 0
    <3>1. /\ recorded = stockTotal /\ \A w \in Variant : stockReserved[w] = Adjusting!Held(w)
          /\ \A w \in Variant : stockReserved[w] <= stockTotal[w]
          /\ \A w \in Variant : ~isActive[w] => stockReserved[w] = 0
      BY <2>1, <2>5 DEF Adjusting!AloneAdjustmentsAreExact, Adjusting!ReservedIsHeld,
         Adjusting!ReservedWithinTotal
    <3>2. \A w \in Variant : Adjusting!Held(w) \in Nat /\ Adjusting!Held(w)' = Adjusting!Held(w) + LineOf(line, w)
      <4> SUFFICES ASSUME NEW w \in Variant
        PROVE Adjusting!Held(w) \in Nat /\ Adjusting!Held(w)' = Adjusting!Held(w) + LineOf(line, w)
        OBVIOUS
      <4>1. Adjusting!Held(w) \in Nat /\ Adjusting!Held(w)' = Adjusting!Held(w) - LineOf(holding[b], w) + LineOf(line, w)
        BY <1>0, <2>1, HeldChanges
      <4>2. LineOf(holding[b], w) = 0 BY <2>1 DEF LineOf, Adjusting!Nothing
      <4> QED BY <2>2, <4>1, <4>2
    <3>3. Adjusting!ReservedIsHeld' BY <2>3, <3>1, <3>2 DEF Adjusting!ReservedIsHeld
    <3>4. Adjusting!ReservedWithinTotal'
      BY <1>0, <2>1, <2>2, <2>3, <3>1 DEF Adjusting!ReservedWithinTotal
    <3>5. ASSUME NEW w \in Variant, ~isActive'[w] PROVE stockReserved'[w] = 0
      <4>1. LineOf(line, w) = 0 BY <2>1, <3>5 DEF LineOf
      <4> QED BY <1>0, <2>1, <2>3, <3>1, <3>5, <4>1
    <3> QED BY <2>1, <3>1, <3>3, <3>4, <3>5
  <2>6. Adjusting!AloneAdjustmentsAreExact' BY <2>5 DEF Adjusting!AloneAdjustmentsAreExact
  <2> QED BY <2>1, <2>4, <2>6, AdjOthers
<1>7. ASSUME NEW b \in Buyer, Adjusting!Cancel(b) PROVE AdjInv'
  <2> DEFINE line == holding[b]
  <2>1. /\ holding' = [holding EXCEPT ![b] = Adjusting!Nothing]
        /\ stockReserved' = [v \in Variant |-> IF stockReserved[v] >= Adjusting!Batch(line)[v]
                                                 THEN stockReserved[v] - Adjusting!Batch(line)[v] ELSE 0]
        /\ UNCHANGED <<stockTotal, isActive, threshold, pc, entity, columns, recorded, overlapped>>
    BY <1>7 DEF Adjusting!Cancel, Adjusting!OrderStep, Adjusting!Release, Adjusting!adjustVars
  <2>2. \A v \in Variant : Adjusting!Batch(line)[v] = LineOf(line, v) /\ LineOf(line, v) \in Nat
    BY <1>0, BatchOfLine, LinesAreNumbers
  <2> HIDE DEF line
  <2>3. \A v \in Variant : stockReserved'[v] = IF stockReserved[v] >= LineOf(line, v)
                                                 THEN stockReserved[v] - LineOf(line, v) ELSE 0
    BY <2>1, <2>2
  <2>4. Adjusting!TypeOK'
    <3>1. stockReserved' \in [Variant -> Nat] BY <1>0, <2>1, <2>2, <2>3
    <3> QED BY <1>0, <2>1, <3>1 DEF Adjusting!TypeOK
  <2>5. ASSUME ~overlapped'
    PROVE /\ Adjusting!ReservedIsHeld' /\ Adjusting!ReservedWithinTotal' /\ recorded' = stockTotal'
                                  /\ \A w \in Variant : ~isActive'[w] => stockReserved'[w] = 0
    <3>1. /\ recorded = stockTotal /\ \A w \in Variant : stockReserved[w] = Adjusting!Held(w)
          /\ \A w \in Variant : stockReserved[w] <= stockTotal[w]
          /\ \A w \in Variant : ~isActive[w] => stockReserved[w] = 0
      BY <2>1, <2>5 DEF Adjusting!AloneAdjustmentsAreExact, Adjusting!ReservedIsHeld,
         Adjusting!ReservedWithinTotal
    <3>2. \A w \in Variant : /\ Adjusting!Held(w) \in Nat /\ Adjusting!Held(w) >= LineOf(line, w)
                             /\ Adjusting!Held(w)' = Adjusting!Held(w) - LineOf(line, w)
      <4> SUFFICES ASSUME NEW w \in Variant
                   PROVE  /\ Adjusting!Held(w) \in Nat /\ Adjusting!Held(w) >= LineOf(line, w)
                          /\ Adjusting!Held(w)' = Adjusting!Held(w) - LineOf(line, w)
        OBVIOUS
      <4>1. /\ Adjusting!Held(w) \in Nat /\ Adjusting!Held(w) >= LineOf(holding[b], w)
            /\ Adjusting!Held(w)' = Adjusting!Held(w) - LineOf(holding[b], w) + LineOf(Adjusting!Nothing, w)
        BY <1>0, <2>1, HeldChanges
      <4>2. LineOf(Adjusting!Nothing, w) = 0 BY DEF LineOf, Adjusting!Nothing
      <4> QED BY <2>2, <4>1, <4>2 DEF line
    <3>3. \A w \in Variant : stockReserved'[w] = stockReserved[w] - LineOf(line, w)
      BY <2>3, <3>1, <3>2
    <3>4. Adjusting!ReservedIsHeld' BY <3>1, <3>2, <3>3 DEF Adjusting!ReservedIsHeld
    <3>5. Adjusting!ReservedWithinTotal'
      BY <1>0, <2>1, <2>2, <3>1, <3>3 DEF Adjusting!ReservedWithinTotal
    <3>6. ASSUME NEW w \in Variant, ~isActive'[w] PROVE stockReserved'[w] = 0
      <4>1. stockReserved[w] = 0 BY <2>1, <3>1, <3>6
      <4> QED BY <2>2, <2>3, <4>1
    <3> QED BY <2>1, <3>1, <3>4, <3>5, <3>6
  <2>6. Adjusting!AloneAdjustmentsAreExact' BY <2>5 DEF Adjusting!AloneAdjustmentsAreExact
  <2> QED BY <2>1, <2>4, <2>6, AdjOthers
<1>8. ASSUME NEW b \in Buyer, Adjusting!Pay(b) PROVE AdjInv'
  <2> DEFINE line == holding[b]
             sold == Adjusting!Covered(Adjusting!Batch(line), TRUE)
  <2>1. /\ holding' = [holding EXCEPT ![b] = Adjusting!Nothing] /\ line # Adjusting!Nothing
        /\ stockTotal' = [v \in Variant |-> IF v \in sold THEN stockTotal[v] - Adjusting!Batch(line)[v] ELSE stockTotal[v]]
        /\ stockReserved' = [v \in Variant |-> IF v \in sold THEN stockReserved[v] - Adjusting!Batch(line)[v]
                                                              ELSE stockReserved[v]]
        /\ recorded' = [recorded EXCEPT ![line.variant] = stockTotal'[line.variant]]
        /\ UNCHANGED <<isActive, threshold, pc, entity, columns, overlapped>>
    BY <1>8 DEF Adjusting!Pay, Adjusting!OrderStep, Adjusting!ConfirmSale, Adjusting!adjustVars
  <2>2. \A v \in Variant : Adjusting!Batch(line)[v] = LineOf(line, v) /\ LineOf(line, v) \in Nat
    BY <1>0, BatchOfLine, LinesAreNumbers
  <2>3. sold = { v \in Variant : LineOf(line, v) > 0 /\ stockReserved[v] >= LineOf(line, v) }
    BY <2>2 DEF Adjusting!Covered
  <2>4. line \in Adjusting!OrderLines /\ line.variant \in Variant
    BY <1>0, <2>1 DEF Adjusting!OrderLines
  <2> HIDE DEF line, sold
  <2>5. \A v \in Variant :
          /\ stockTotal'[v] = IF v \in sold THEN stockTotal[v] - LineOf(line, v) ELSE stockTotal[v]
          /\ stockReserved'[v] = IF v \in sold THEN stockReserved[v] - LineOf(line, v) ELSE stockReserved[v]
    BY <2>1, <2>2
  <2>6. \A v \in Variant : stockTotal'[v] \in Int /\ stockReserved'[v] \in Nat
    BY <1>0, <2>2, <2>3, <2>5
  <2>7. Adjusting!TypeOK'
    <3>1. stockTotal' \in [Variant -> Int] /\ stockReserved' \in [Variant -> Nat] BY <2>1, <2>6
    <3>2. recorded' \in [Variant -> Int] BY <1>0, <2>1, <2>4, <2>6
    <3> QED BY <1>0, <2>1, <3>1, <3>2 DEF Adjusting!TypeOK
  <2>8. ASSUME ~overlapped'
    PROVE /\ Adjusting!ReservedIsHeld' /\ Adjusting!ReservedWithinTotal' /\ recorded' = stockTotal'
                                  /\ \A w \in Variant : ~isActive'[w] => stockReserved'[w] = 0
    <3>1. /\ recorded = stockTotal /\ \A w \in Variant : stockReserved[w] = Adjusting!Held(w)
          /\ \A w \in Variant : stockReserved[w] <= stockTotal[w]
          /\ \A w \in Variant : ~isActive[w] => stockReserved[w] = 0
      BY <2>1, <2>8 DEF Adjusting!AloneAdjustmentsAreExact, Adjusting!ReservedIsHeld,
         Adjusting!ReservedWithinTotal
    <3>2. \A w \in Variant : /\ Adjusting!Held(w) \in Nat /\ Adjusting!Held(w) >= LineOf(line, w)
                             /\ Adjusting!Held(w)' = Adjusting!Held(w) - LineOf(line, w)
      <4> SUFFICES ASSUME NEW w \in Variant
                   PROVE  /\ Adjusting!Held(w) \in Nat /\ Adjusting!Held(w) >= LineOf(line, w)
                          /\ Adjusting!Held(w)' = Adjusting!Held(w) - LineOf(line, w)
        OBVIOUS
      <4>1. /\ Adjusting!Held(w) \in Nat /\ Adjusting!Held(w) >= LineOf(holding[b], w)
            /\ Adjusting!Held(w)' = Adjusting!Held(w) - LineOf(holding[b], w) + LineOf(Adjusting!Nothing, w)
        BY <1>0, <2>1, HeldChanges
      <4>2. LineOf(Adjusting!Nothing, w) = 0 BY DEF LineOf, Adjusting!Nothing
      <4> QED BY <2>2, <4>1, <4>2 DEF line
    <3>3. \A w \in Variant : /\ stockReserved'[w] = stockReserved[w] - LineOf(line, w)
                             /\ stockTotal'[w] = stockTotal[w] - LineOf(line, w)
      BY <1>0, <2>2, <2>3, <2>5, <3>1, <3>2
    <3>4. Adjusting!ReservedIsHeld' BY <3>1, <3>2, <3>3 DEF Adjusting!ReservedIsHeld
    <3>5. Adjusting!ReservedWithinTotal'
      BY <1>0, <2>2, <3>1, <3>3 DEF Adjusting!ReservedWithinTotal
    <3>6. ASSUME NEW w \in Variant, ~isActive'[w] PROVE stockReserved'[w] = 0
      <4>1. stockReserved[w] = 0 BY <2>1, <3>1, <3>6
      <4> QED BY <2>2, <2>6, <3>3, <4>1
    <3>7. \A w \in Variant \ {line.variant} : stockTotal'[w] = stockTotal[w]
      BY <1>0, <3>3 DEF LineOf
    <3>8. recorded' = stockTotal' BY <1>0, <2>1, <2>4, <2>6, <3>1, <3>7
    <3> QED BY <3>4, <3>5, <3>6, <3>8
  <2>9. Adjusting!AloneAdjustmentsAreExact' BY <2>8 DEF Adjusting!AloneAdjustmentsAreExact
  <2> QED BY <2>1, <2>7, <2>9, AdjOthers
<1>9. ASSUME NEW v \in Variant, Adjusting!Withdraw(v) PROVE AdjInv'
  <2>1. /\ stockReserved[v] = 0 /\ isActive' = [isActive EXCEPT ![v] = FALSE]
        /\ UNCHANGED <<stockTotal, stockReserved, threshold, holding, pc, entity, columns, recorded, overlapped>>
    BY <1>9 DEF Adjusting!Withdraw, Adjusting!stockVars, Adjusting!adjustVars
  <2>2. Adjusting!TypeOK' BY <1>0, <2>1 DEF Adjusting!TypeOK
  <2>3. \A w : Adjusting!Held(w)' = Adjusting!Held(w) BY <2>1 DEF Adjusting!Held
  <2>4. Adjusting!AloneAdjustmentsAreExact'
    BY <1>0, <2>1, <2>3 DEF Adjusting!AloneAdjustmentsAreExact, Adjusting!ReservedIsHeld,
       Adjusting!ReservedWithinTotal
  <2> QED BY <2>1, <2>2, <2>4, AdjOthers
<1> QED BY <1>1, <1>2, <1>3, <1>4, <1>5, <1>6, <1>7, <1>8, <1>9 DEF Adjusting!Next

\* Every reachable adjustment is as AdjInv says, in the run's specification.
LEMMA PartKeepsAdjustments ==
  ASSUME AdjustAssumption
  PROVE  MCSpec => [](part = "adjust" => AdjInv)
<1>1. MCInit => (part = "adjust" => AdjInv)
  BY AdjInit DEF MCInit
<1>2. ASSUME part = "adjust" => AdjInv,
             [MCNext]_<<part, vars, adjustOnly, cartOnly, guestOnly, shared>>
      PROVE  (part = "adjust" => AdjInv)'
  <2>1. CASE UNCHANGED <<part, vars, adjustOnly, cartOnly, guestOnly, shared>>
    <3>1. UNCHANGED <<part, Adjusting!vars>>
      BY <2>1, Zenon DEF adjustOnly, shared, Adjusting!vars, Adjusting!stockVars,
         Adjusting!adjustVars
    <3> QED BY <3>1, <1>2, AdjNext
  <2>2. CASE AdjustNext
    <3>1. part = "adjust" /\ Adjusting!Next BY <2>2 DEF AdjustNext
    <3> QED BY <3>1, <1>2, AdjNext
  <2>3. CASE LocksNext \/ CartNext \/ VisitorNext
    BY <2>3 DEF LocksNext, CartNext, VisitorNext
  <2> QED BY <1>2, <2>1, <2>2, <2>3 DEF MCNext
<1> QED BY <1>1, <1>2, PTL DEF MCSpec

\* Any number of adjustments next to any number of orders: until a row moves in
\* the middle of one, total, reservations, movements and withdrawals agree, and
\* always the filters of the panel show the variants that carry the flag
\* (stock.service.ts:53-107, 174-175).
THEOREM AdjustmentsAlwaysAddUp ==
  ASSUME AdjustAssumption
  PROVE  MCSpec => []AdjustmentsAddUp
<1>1. AdjInv => Adjusting!FiltersShowTheFlags
  BY DEF Adjusting!FiltersShowTheFlags, Adjusting!Listed, Adjusting!StockItem
<1>2. (part = "adjust" => AdjInv) => AdjustmentsAddUp
  BY <1>1 DEF AdjInv, AdjTypes, AdjustmentsAddUp
<1> QED BY <1>2, PartKeepsAdjustments, PTL

-----------------------------------------------------------------------------
\* What there may be of a variant is a number of units.
VisitorAssumption == MaxLogins \in Nat /\ \A v \in Goods : Units[v] \subseteq Nat

Stages == { "none", "previewing", "deciding", "confirming", "answered" }
Batches == [items : SUBSET Goods, quantity : [Goods -> Nat]]
Answers == [outcome : Visitor!Outcomes, maxAvailable : Nat]

\* What a request asks, with the place of a request that asks nothing.
Changes ==
  [type : {"none", "ended", "add", "update"}, variant : Goods \cup {Visitor!NoChange.variant}, quantity : Nat]

\* Every variable of the visitor keeps its type, and a request asks about goods.
VisitorType ==
  /\ available \in [Goods -> Nat] /\ purchasable \in [Goods -> BOOLEAN]
  /\ account \in [Goods -> Nat] /\ guest \in [Goods -> Nat]
  /\ change \in [Change -> Changes]
  /\ \A c \in Change : change[c].type \in {"add", "update"} => change[c].variant \in Goods
  /\ pc \in Stages /\ batch \in Batches /\ sent \in Batches
  /\ outcome \in [Goods -> Answers] /\ taken \in [Goods -> Nat] /\ logins \in 0..MaxLogins

\* A merge is about the cart of the visitor as it is, which nobody changes meanwhile.
MergesTheCart ==
  pc # "none" =>
    /\ guest = batch.quantity /\ batch.items = { v \in Goods : guest[v] > 0 }
    /\ pc = "previewing" => sent = batch

\* The preview still says what there is.
PreviewIsFresh ==
  pc \in {"deciding", "confirming"} =>
    \A v \in Goods :
      outcome[v] = IF v \in batch.items THEN Visitor!Result(v, batch.quantity[v]) ELSE Visitor!NoOutcome[v]

\* What is confirmed leaves out nothing that the preview accepted, and no more
\* than what there is.
SendsWhatFits ==
  pc = "confirming" =>
    /\ sent.items \subseteq batch.items /\ Visitor!With("ok") \subseteq sent.items
    /\ \A v \in sent.items :
         IF outcome[v].outcome = "ok" THEN sent.quantity[v] = batch.quantity[v]
         ELSE /\ outcome[v].outcome = "insufficient_stock"
              /\ sent.quantity[v] = outcome[v].maxAvailable

\* When the answer is there, all that was confirmed is in the account.
AllIsTaken ==
  pc = "answered" =>
    /\ \A v \in sent.items : taken[v] = sent.quantity[v]
    /\ Visitor!With("ok") \subseteq sent.items

VisitorInv ==
  /\ VisitorType /\ Visitor!CartsWithinStock
  /\ ~disturbed => MergesTheCart /\ PreviewIsFresh /\ SendsWhatFits /\ AllIsTaken /\ ~unasked

\* At the start the visitor has no cart, and the account no more than there is.
LEMMA VisitorInit ==
  ASSUME VisitorAssumption, Visitor!Init
  PROVE  VisitorInv
<1>1. /\ available \in [Goods -> Nat] /\ account \in [Goods -> Nat]
      /\ \A v \in Goods : account[v] <= available[v]
  <2>1. Visitor!Amounts \subseteq [Goods -> Nat] BY DEF Visitor!Amounts, VisitorAssumption
  <2> QED BY <2>1 DEF Visitor!Init
<1>2. Visitor!Zero \in [Goods -> Nat] /\ \A v \in Goods : Visitor!Zero[v] = 0 BY DEF Visitor!Zero
<1>3. Visitor!NoBatch \in Batches BY <1>2 DEF Visitor!NoBatch, Batches
<1>4. Visitor!NoOutcome \in [Goods -> Answers] BY DEF Visitor!NoOutcome, Answers, Visitor!Outcomes
<1>5. Visitor!NoChange \in Changes /\ Visitor!NoChange.type = "none"
  BY DEF Visitor!NoChange, Changes
<1>6. VisitorType
  BY <1>1, <1>2, <1>3, <1>4, <1>5 DEF Visitor!Init, VisitorType, VisitorAssumption, Stages
<1>7. Visitor!CartsWithinStock BY <1>1, <1>2 DEF Visitor!Init, Visitor!CartsWithinStock
<1> QED
  BY <1>6, <1>7 DEF Visitor!Init, VisitorInv, MergesTheCart, PreviewIsFresh, SendsWhatFits,
     AllIsTaken

\* A request of the visitor is asked; an item is removed; both while no merge goes on.
LEMMA AskKeepsVisitor ==
  ASSUME VisitorAssumption, VisitorInv,
         \/ \E c \in Change, type \in {"add", "update"}, v \in Goods :
              \E q \in Units[v] \ {0} : Visitor!Ask(c, type, v, q)
         \/ \E v \in Goods : Visitor!RemoveItem(v)
  PROVE  VisitorInv'
<1>0. VisitorType /\ Visitor!CartsWithinStock BY DEF VisitorInv
<1>1. /\ pc = "none" /\ UNCHANGED <<available, purchasable, account, pc, batch, sent, outcome, taken>>
      /\ UNCHANGED <<logins, disturbed, moved, unasked>>
  BY DEF Visitor!Ask, Visitor!RemoveItem, Visitor!catalogue, Visitor!merge, Visitor!history
<1>2. /\ change' \in [Change -> Changes]
      /\ \A c \in Change : change'[c].type \in {"add", "update"} => change'[c].variant \in Goods
      /\ guest' \in [Goods -> Nat] /\ \A v \in Goods : guest'[v] <= guest[v]
  <2>1. ASSUME NEW c \in Change, NEW type \in {"add", "update"}, NEW v \in Goods,
               NEW q \in Units[v] \ {0}, Visitor!Ask(c, type, v, q)
        PROVE  /\ change' \in [Change -> Changes] /\ guest' = guest
               /\ \A d \in Change : change'[d].type \in {"add", "update"} => change'[d].variant \in Goods
    <3> DEFINE new == [type |-> type, variant |-> v,
                       quantity |-> IF type = "add" THEN guest[v] + q ELSE q]
    <3>1. change' = [change EXCEPT ![c] = new] /\ guest' = guest BY <2>1 DEF Visitor!Ask
    <3>2. new \in Changes /\ new.variant \in Goods
      <4>1. q \in Nat /\ guest[v] \in Nat BY <1>0 DEF VisitorAssumption, VisitorType
      <4> QED BY <4>1 DEF Changes
    <3> HIDE DEF new
    <3> QED BY <1>0, <3>1, <3>2 DEF VisitorType
  <2>2. ASSUME NEW v \in Goods, Visitor!RemoveItem(v)
        PROVE  /\ guest' \in [Goods -> Nat] /\ change' = change
               /\ \A w \in Goods : guest'[w] <= guest[w]
    BY <1>0, <2>2 DEF Visitor!RemoveItem, VisitorType
  <2> QED BY <1>0, <2>1, <2>2 DEF VisitorType
<1>3. VisitorType' BY <1>0, <1>1, <1>2 DEF VisitorType
<1>4. Visitor!CartsWithinStock' BY <1>0, <1>1, <1>2 DEF Visitor!CartsWithinStock, VisitorType
<1> QED BY <1>1, <1>3, <1>4
        DEF VisitorInv, MergesTheCart, PreviewIsFresh, SendsWhatFits, AllIsTaken

\* An answer arrives, the catalogue or the cart of the account changes elsewhere.
LEMMA OthersKeepVisitor ==
  ASSUME VisitorAssumption, VisitorInv,
         (\E c \in Change : Visitor!Answer(c)) \/ Visitor!CatalogueChanges \/ Visitor!AccountChanges
  PROVE  VisitorInv'
<1>0. VisitorType /\ Visitor!CartsWithinStock BY DEF VisitorInv
<1>1. /\ UNCHANGED <<pc, batch, sent, outcome, taken, logins, unasked>>
      /\ disturbed' = (disturbed \/ pc # "none")
  BY DEF Visitor!Answer, Visitor!CatalogueChanges, Visitor!AccountChanges, Visitor!Disturbs,
     Visitor!merge
<1>2. VisitorType' /\ Visitor!CartsWithinStock'
  <2>1. ASSUME NEW c \in Change, Visitor!Answer(c) PROVE VisitorType' /\ Visitor!CartsWithinStock'
    <3> DEFINE v == change[c].variant
               q == change[c].quantity
    <3>1. v \in Goods /\ q \in Nat BY <1>0, <2>1 DEF Visitor!Answer, VisitorType, Changes
    <3>2. Visitor!Stored(c, v) \in {q, 0} BY DEF Visitor!Stored
    <3>3. /\ guest' \in {[guest EXCEPT ![v] = q], [guest EXCEPT ![v] = 0], guest}
          /\ guest' = [guest EXCEPT ![v] = q] => q <= available[v] \/ guest' = guest \/ q = 0
          /\ change' = [change EXCEPT ![c] = Visitor!Ended]
          /\ UNCHANGED <<available, purchasable, account, moved>>
      BY <2>1, <3>2 DEF Visitor!Answer, Visitor!Resolves, Visitor!catalogue
    <3>4. Visitor!Ended \in Changes /\ Visitor!Ended.type = "ended"
      <4>1. Visitor!NoChange \in Changes BY DEF Visitor!NoChange, Changes
      <4> QED BY <4>1 DEF Visitor!Ended, Changes
    <3>5. change' \in [Change -> Changes]
          /\ \A d \in Change : change'[d].type \in {"add", "update"} => change'[d].variant \in Goods
      BY <1>0, <3>3, <3>4 DEF VisitorType
    <3>6. guest' \in [Goods -> Nat] /\ \A w \in Goods : guest'[w] <= guest[w] \/ guest'[w] <= available[w]
      BY <1>0, <3>1, <3>3 DEF VisitorType
    <3>7. VisitorType' BY <1>0, <1>1, <3>3, <3>5, <3>6 DEF VisitorType
    <3>8. Visitor!CartsWithinStock' BY <1>0, <3>3, <3>6 DEF Visitor!CartsWithinStock, VisitorType
    <3> QED BY <3>7, <3>8
  <2>2. CASE Visitor!CatalogueChanges
    <3>1. available' \in [Goods -> Nat] /\ purchasable' \in [Goods -> BOOLEAN] /\ moved' = TRUE
          /\ UNCHANGED <<account, guest, change>>
      BY <1>0, <2>2 DEF Visitor!CatalogueChanges, VisitorType, VisitorAssumption
    <3> QED BY <1>0, <1>1, <3>1 DEF VisitorType, Visitor!CartsWithinStock
  <2>3. CASE Visitor!AccountChanges
    <3>1. PICK v \in Goods : \E q \in Units[v] : q <= available[v] /\ account' = [account EXCEPT ![v] = q]
      BY <2>3 DEF Visitor!AccountChanges
    <3>9. PICK q \in Units[v] : q <= available[v] /\ account' = [account EXCEPT ![v] = q]
      BY <3>1
    <3>2. UNCHANGED <<available, purchasable, guest, change, moved>>
      BY <2>3 DEF Visitor!AccountChanges, Visitor!catalogue
    <3>3. q \in Nat BY DEF VisitorAssumption
    <3>4. VisitorType' BY <1>0, <1>1, <3>9, <3>2, <3>3 DEF VisitorType
    <3>5. Visitor!CartsWithinStock'
      BY <1>0, <3>9, <3>2, <3>3 DEF Visitor!CartsWithinStock, VisitorType
    <3> QED BY <3>4, <3>5
  <2> QED BY <2>1, <2>2, <2>3
<1> QED BY <1>1, <1>2
        DEF VisitorInv, MergesTheCart, PreviewIsFresh, SendsWhatFits, AllIsTaken

\* Somebody logs in, and the merge begins or is given up.
LEMMA LoginKeepsVisitor ==
  ASSUME VisitorAssumption, VisitorInv, Visitor!Login \/ Visitor!Cancel \/ Visitor!RequestLost
  PROVE  VisitorInv'
<1>0. VisitorType /\ Visitor!CartsWithinStock BY DEF VisitorInv
<1>1. UNCHANGED <<available, purchasable, account, guest, change, disturbed, moved, unasked>>
  BY DEF Visitor!Login, Visitor!Cancel, Visitor!RequestLost, Visitor!catalogue, Visitor!history
<1>2. Visitor!CartsWithinStock' BY <1>0, <1>1 DEF Visitor!CartsWithinStock
<1>3. Visitor!Zero \in [Goods -> Nat] BY DEF Visitor!Zero
<1>4. CASE Visitor!Login
  <2>1. /\ batch' = [items |-> { v \in Goods : guest[v] > 0 }, quantity |-> guest] /\ sent' = batch'
        /\ pc' = "previewing" /\ UNCHANGED <<outcome, taken>> /\ logins' \in 0..MaxLogins
    BY <1>0, <1>4 DEF Visitor!Login, VisitorAssumption, VisitorType
  <2>2. batch' \in Batches BY <1>0, <2>1 DEF Batches, VisitorType
  <2>3. VisitorType' BY <1>0, <1>1, <2>1, <2>2 DEF VisitorType, Stages
  <2>4. MergesTheCart' BY <1>1, <2>1 DEF MergesTheCart
  <2> QED
    BY <1>1, <1>2, <2>1, <2>3, <2>4 DEF VisitorInv, PreviewIsFresh, SendsWhatFits, AllIsTaken
<1>5. CASE Visitor!Cancel \/ Visitor!RequestLost
  <2>1. /\ batch' = Visitor!NoBatch /\ sent' = Visitor!NoBatch /\ outcome' = Visitor!NoOutcome /\ pc' = "none"
        /\ taken' \in {taken, Visitor!Zero} /\ logins' = logins
    BY <1>5 DEF Visitor!Cancel, Visitor!RequestLost
  <2>2. Visitor!NoBatch \in Batches BY <1>3 DEF Visitor!NoBatch, Batches
  <2>3. Visitor!NoOutcome \in [Goods -> Answers]
    BY DEF Visitor!NoOutcome, Answers, Visitor!Outcomes
  <2>4. VisitorType' BY <1>0, <1>1, <1>3, <2>1, <2>2, <2>3 DEF VisitorType, Stages
  <2> QED BY <1>1, <1>2, <2>1, <2>4
          DEF VisitorInv, MergesTheCart, PreviewIsFresh, SendsWhatFits, AllIsTaken
<1> QED BY <1>4, <1>5

\* The preview tells what fits.
LEMMA PreviewKeepsVisitor ==
  ASSUME VisitorAssumption, VisitorInv, Visitor!PreviewMerge
  PROVE  VisitorInv'
<1>0. VisitorType /\ Visitor!CartsWithinStock BY DEF VisitorInv
<1>1. /\ pc = "previewing" /\ pc' \in {"confirming", "deciding"}
      /\ outcome' = [v \in Goods |-> IF v \in batch.items THEN Visitor!Result(v, batch.quantity[v])
                                     ELSE Visitor!NoOutcome[v]]
      /\ pc' = "confirming" => \A v \in batch.items : outcome'[v].outcome = "ok"
      /\ UNCHANGED <<available, purchasable, account, guest, change, batch, sent, taken, logins>>
      /\ UNCHANGED <<disturbed, moved, unasked>>
  BY DEF Visitor!PreviewMerge, Visitor!catalogue, Visitor!history
<1>2. ASSUME NEW v \in Goods PROVE outcome'[v] \in Answers
  <2>1. Visitor!NoOutcome[v] \in Answers BY DEF Visitor!NoOutcome, Answers, Visitor!Outcomes
  <2>2. Visitor!Result(v, batch.quantity[v]) \in Answers
    BY <1>0 DEF VisitorType, Batches, Visitor!Result, Answers, Visitor!Outcomes
  <2> QED BY <1>1, <2>1, <2>2
<1>3. VisitorType' BY <1>0, <1>1, <1>2 DEF VisitorType, Stages
<1>4. Visitor!CartsWithinStock' BY <1>0, <1>1 DEF Visitor!CartsWithinStock
<1>5. ASSUME ~disturbed PROVE MergesTheCart' /\ PreviewIsFresh' /\ SendsWhatFits' /\ AllIsTaken'
  <2>1. MergesTheCart BY <1>5 DEF VisitorInv
  <2>2. MergesTheCart' BY <1>1, <2>1 DEF MergesTheCart
  <2>3. PreviewIsFresh' BY <1>1 DEF PreviewIsFresh, Visitor!Result
  <2>4. SendsWhatFits'
    <3>1. sent = batch BY <1>1, <2>1 DEF MergesTheCart
    <3> QED BY <1>1, <3>1 DEF SendsWhatFits, Visitor!With
  <2>5. AllIsTaken' BY <1>1 DEF AllIsTaken
  <2> QED BY <2>2, <2>3, <2>4, <2>5
<1> QED BY <1>1, <1>3, <1>4, <1>5 DEF VisitorInv

\* The customer decides; a batch that is not valid comes back to him.
LEMMA DecideKeepsVisitor ==
  ASSUME VisitorAssumption, VisitorInv, Visitor!Decide \/ Visitor!ConfirmRefused
  PROVE  VisitorInv'
<1>0. VisitorType /\ Visitor!CartsWithinStock BY DEF VisitorInv
<1>1. /\ pc \in {"deciding", "confirming"}
      /\ UNCHANGED <<available, purchasable, account, guest, change, batch, outcome, logins>>
      /\ UNCHANGED <<disturbed, moved, unasked>>
  BY DEF Visitor!Decide, Visitor!ConfirmRefused, Visitor!catalogue, Visitor!history
<1>2. Visitor!CartsWithinStock' BY <1>0, <1>1 DEF Visitor!CartsWithinStock
<1>3. CASE Visitor!ConfirmRefused
  <2>1. pc' = "deciding" /\ UNCHANGED <<sent, taken>> BY <1>3 DEF Visitor!ConfirmRefused
  <2>2. VisitorType' BY <1>0, <1>1, <2>1 DEF VisitorType, Stages
  <2>3. MergesTheCart => MergesTheCart' BY <1>1, <2>1 DEF MergesTheCart
  <2>4. PreviewIsFresh => PreviewIsFresh' BY <1>1, <2>1 DEF PreviewIsFresh, Visitor!Result
  <2>5. SendsWhatFits' /\ AllIsTaken' BY <2>1 DEF SendsWhatFits, AllIsTaken
  <2> QED BY <1>1, <1>2, <2>2, <2>3, <2>4, <2>5 DEF VisitorInv
<1>4. CASE Visitor!Decide
  <2>1. PICK accepted \in SUBSET Visitor!With("insufficient_stock") :
          sent' = [items |-> Visitor!With("ok") \cup accepted,
                   quantity |-> [v \in Goods |-> IF v \in accepted THEN outcome[v].maxAvailable
                                                 ELSE batch.quantity[v]]]
    BY <1>4 DEF Visitor!Decide
  <2>2. /\ pc = "deciding" /\ pc' = IF sent'.items = {} THEN "answered" ELSE "confirming"
        /\ taken' = Visitor!Zero
    BY <1>4 DEF Visitor!Decide
  <2>3. Visitor!With("ok") \subseteq Goods /\ accepted \subseteq Goods
        /\ accepted \subseteq batch.items /\ Visitor!With("ok") \subseteq batch.items
    BY <1>0 DEF VisitorType, Batches, Visitor!With
  <2>4. sent' \in Batches
    <3>1. \A v \in Goods : outcome[v].maxAvailable \in Nat /\ batch.quantity[v] \in Nat
      BY <1>0 DEF VisitorType, Batches, Answers
    <3> QED BY <2>1, <2>3, <3>1 DEF Batches
  <2>5. VisitorType' BY <1>0, <1>1, <2>2, <2>4 DEF VisitorType, Stages, Visitor!Zero
  <2>6. MergesTheCart => MergesTheCart' BY <1>1, <2>2 DEF MergesTheCart
  <2>7. PreviewIsFresh => PreviewIsFresh' BY <1>1, <2>2 DEF PreviewIsFresh, Visitor!Result
  <2>8. SendsWhatFits'
    <3>1. Visitor!With("ok")' = Visitor!With("ok") BY <1>1 DEF Visitor!With
    <3>2. \A v \in accepted : outcome[v].outcome = "insufficient_stock" BY DEF Visitor!With
    <3>3. \A v \in Visitor!With("ok") : outcome[v].outcome = "ok" BY DEF Visitor!With
    <3> QED BY <1>1, <2>1, <2>3, <3>1, <3>2, <3>3 DEF SendsWhatFits
  <2>9. AllIsTaken'
    <3>1. Visitor!With("ok")' = Visitor!With("ok") BY <1>1 DEF Visitor!With
    <3> QED BY <2>1, <2>2, <3>1 DEF AllIsTaken
  <2> QED BY <1>1, <1>2, <2>5, <2>6, <2>7, <2>8, <2>9 DEF VisitorInv
<1> QED BY <1>3, <1>4

\* The confirmation puts in the account what still fits.
LEMMA ConfirmKeepsVisitor ==
  ASSUME VisitorAssumption, VisitorInv, Visitor!ConfirmMerge
  PROVE  VisitorInv'
<1>0. VisitorType /\ Visitor!CartsWithinStock BY DEF VisitorInv
<1>1. /\ pc = "confirming" /\ Visitor!Valid /\ pc' = "answered"
      /\ taken' = [v \in Goods |-> Visitor!Merged(v)]
      /\ account' = [v \in Goods |-> account[v] + taken'[v]]
      /\ UNCHANGED <<available, purchasable, guest, change, batch, sent, outcome, logins>>
      /\ UNCHANGED <<disturbed, moved, unasked>>
  BY DEF Visitor!ConfirmMerge, Visitor!catalogue, Visitor!history
<1>2. ASSUME NEW v \in Goods
      PROVE  /\ Visitor!Merged(v) \in Nat
             /\ account[v] <= available[v] => account[v] + Visitor!Merged(v) <= available[v]
  BY <1>0 DEF VisitorType, Batches, Visitor!Merged, Visitor!Result
<1>3. VisitorType' BY <1>0, <1>1, <1>2 DEF VisitorType, Stages
<1>4. Visitor!CartsWithinStock' BY <1>0, <1>1, <1>2 DEF Visitor!CartsWithinStock
<1>5. ASSUME ~disturbed PROVE MergesTheCart' /\ PreviewIsFresh' /\ SendsWhatFits' /\ AllIsTaken'
  <2>1. MergesTheCart /\ PreviewIsFresh /\ SendsWhatFits BY <1>5 DEF VisitorInv
  <2>2. MergesTheCart' BY <1>1, <2>1 DEF MergesTheCart
  <2>3. PreviewIsFresh' /\ SendsWhatFits' BY <1>1 DEF PreviewIsFresh, SendsWhatFits
  <2>4. ASSUME NEW v \in sent.items PROVE Visitor!Merged(v) = sent.quantity[v] /\ v \in Goods
    <3>1. /\ v \in batch.items /\ v \in Goods /\ sent.quantity[v] \in Nat /\ sent.quantity[v] >= 1
          /\ batch.quantity[v] \in Nat /\ account[v] \in Nat /\ available[v] \in Nat
      BY <1>0, <1>1, <2>1 DEF VisitorType, Batches, SendsWhatFits, Visitor!Valid
    <3>2. outcome[v] = Visitor!Result(v, batch.quantity[v]) BY <1>1, <2>1, <3>1 DEF PreviewIsFresh
    <3>3. Visitor!Result(v, sent.quantity[v]).outcome = "ok"
      <4>1. CASE outcome[v].outcome = "ok"
        <5>1. sent.quantity[v] = batch.quantity[v] BY <1>1, <2>1, <4>1 DEF SendsWhatFits
        <5> QED BY <3>2, <4>1, <5>1
      <4>2. CASE outcome[v].outcome # "ok"
        <5>1. /\ outcome[v].outcome = "insufficient_stock"
              /\ sent.quantity[v] = outcome[v].maxAvailable
          BY <1>1, <2>1, <4>2 DEF SendsWhatFits
        <5>2. purchasable[v] /\ account[v] + sent.quantity[v] = available[v]
          BY <3>1, <3>2, <5>1 DEF Visitor!Result
        <5> QED BY <3>1, <5>2 DEF Visitor!Result
      <4> QED BY <4>1, <4>2
    <3> QED BY <3>1, <3>3 DEF Visitor!Merged
  <2>5. AllIsTaken'
    <3>1. Visitor!With("ok")' = Visitor!With("ok") BY <1>1 DEF Visitor!With
    <3>2. Visitor!With("ok") \subseteq sent.items BY <1>1, <2>1 DEF SendsWhatFits
    <3> QED BY <1>1, <2>4, <3>1, <3>2 DEF AllIsTaken
  <2> QED BY <2>2, <2>3, <2>5
<1> QED BY <1>1, <1>3, <1>4, <1>5 DEF VisitorInv

\* The browser forgets the cart.
LEMMA ClearKeepsVisitor ==
  ASSUME VisitorAssumption, VisitorInv, Visitor!Clear
  PROVE  VisitorInv'
<1>0. VisitorType /\ Visitor!CartsWithinStock BY DEF VisitorInv
<1>1. /\ pc = "answered" /\ guest' = Visitor!Zero /\ pc' = "none"
      /\ batch' = Visitor!NoBatch /\ sent' = Visitor!NoBatch /\ outcome' = Visitor!NoOutcome /\ taken' = Visitor!Zero
      /\ unasked' = (\/ unasked
                     \/ \E v \in Goods :
                          \/ v \in sent.items /\ taken[v] < sent.quantity[v]
                          \/ v \notin sent.items /\ guest[v] > 0 /\ ~Visitor!Told(v)
                          \/ guest[v] > batch.quantity[v])
      /\ UNCHANGED <<available, purchasable, account, change, logins, disturbed, moved>>
  BY DEF Visitor!Clear, Visitor!catalogue
<1>2. Visitor!Zero \in [Goods -> Nat] /\ \A v \in Goods : Visitor!Zero[v] = 0 BY DEF Visitor!Zero
<1>3. Visitor!NoBatch \in Batches BY <1>2 DEF Visitor!NoBatch, Batches
<1>4. Visitor!NoOutcome \in [Goods -> Answers] BY DEF Visitor!NoOutcome, Answers, Visitor!Outcomes
<1>5. VisitorType' BY <1>0, <1>1, <1>2, <1>3, <1>4 DEF VisitorType, Stages
<1>6. Visitor!CartsWithinStock' BY <1>0, <1>1, <1>2 DEF Visitor!CartsWithinStock, VisitorType
<1>7. ASSUME ~disturbed PROVE ~unasked'
  <2>1. MergesTheCart /\ AllIsTaken /\ ~unasked BY <1>7 DEF VisitorInv
  <2>2. ASSUME NEW v \in Goods
        PROVE  /\ v \in sent.items => ~(taken[v] < sent.quantity[v])
               /\ v \notin sent.items /\ guest[v] > 0 => Visitor!Told(v)
               /\ ~(guest[v] > batch.quantity[v])
    <3>1. guest[v] \in Nat /\ taken[v] \in Nat BY <1>0 DEF VisitorType
    <3>2. v \in sent.items => taken[v] = sent.quantity[v] BY <1>1, <2>1 DEF AllIsTaken
    <3>3. guest[v] = batch.quantity[v] BY <1>1, <2>1 DEF MergesTheCart
    <3>4. v \notin sent.items /\ guest[v] > 0 => Visitor!Told(v)
      BY <1>1, <2>1 DEF MergesTheCart, AllIsTaken, Visitor!With, Visitor!Told
    <3> QED BY <3>1, <3>2, <3>3, <3>4
  <2> QED BY <1>1, <2>1, <2>2
<1> QED BY <1>1, <1>5, <1>6, <1>7
        DEF VisitorInv, MergesTheCart, PreviewIsFresh, SendsWhatFits, AllIsTaken

\* Every step of the visitor keeps VisitorInv.
LEMMA NextKeepsVisitor ==
  ASSUME VisitorAssumption, VisitorInv, [Visitor!Next]_Visitor!vars
  PROVE  VisitorInv'
<1>1. CASE Visitor!Next
  BY <1>1, AskKeepsVisitor, OthersKeepVisitor, LoginKeepsVisitor, PreviewKeepsVisitor,
     DecideKeepsVisitor, ConfirmKeepsVisitor, ClearKeepsVisitor DEF Visitor!Next
<1>2. CASE UNCHANGED Visitor!vars
  <2>1. /\ UNCHANGED <<available, purchasable, account, guest, change, pc, batch, sent, outcome>>
        /\ UNCHANGED <<taken, logins, disturbed, moved, unasked>>
    BY <1>2, Zenon DEF Visitor!vars, Visitor!catalogue, Visitor!merge, Visitor!history
  <2> QED
    BY <2>1 DEF VisitorInv, VisitorType, Visitor!CartsWithinStock, MergesTheCart, PreviewIsFresh,
                      Visitor!Result, SendsWhatFits, AllIsTaken, Visitor!With
<1> QED BY <1>1, <1>2

\* Every reachable cart of a visitor is as VisitorInv says.
LEMMA PartKeepsVisitor ==
  ASSUME VisitorAssumption
  PROVE  MCSpec => [](part = "visitor" => VisitorInv)
<1>1. MCInit => (part = "visitor" => VisitorInv)
  BY VisitorInit DEF MCInit
<1>2. ASSUME part = "visitor" => VisitorInv,
             [MCNext]_<<part, vars, adjustOnly, cartOnly, guestOnly, shared>>
      PROVE  (part = "visitor" => VisitorInv)'
  <2>1. CASE UNCHANGED <<part, vars, adjustOnly, cartOnly, guestOnly, shared>>
    <3>1. UNCHANGED <<part, Visitor!vars>>
      BY <2>1, Zenon DEF guestOnly, shared, Visitor!vars, Visitor!catalogue, Visitor!merge,
         Visitor!history
    <3> QED BY <3>1, <1>2, NextKeepsVisitor
  <2>2. CASE VisitorNext
    <3>1. part = "visitor" /\ Visitor!Next BY <2>2 DEF VisitorNext
    <3> QED BY <3>1, <1>2, NextKeepsVisitor
  <2>3. CASE LocksNext \/ AdjustNext \/ CartNext
    BY <2>3 DEF LocksNext, AdjustNext, CartNext
  <2> QED BY <1>2, <2>1, <2>2, <2>3 DEF MCNext
<1> QED BY <1>1, <1>2, PTL DEF MCSpec

\* For any goods, amounts and requests: while the catalogue stands, neither cart
\* holds more than there is, although answers overtake each other and merges are
\* done twice; and as long as nothing else moves during the merges, every unit the
\* visitor had goes to his account, or he was told about it
\* (useGuestCart.ts:21-47, useCartMerge.ts:25-59, cart.service.ts:351-364).
THEOREM VisitorAlwaysKeepsHisCart ==
  ASSUME VisitorAssumption
  PROVE  MCSpec => []VisitorKeepsHisCart
<1>1. VisitorInv => Visitor!TypeOK
  BY DEF VisitorInv, VisitorType, Visitor!TypeOK, Stages, Batches, Answers
<1>2. VisitorInv => Visitor!MergeLosesNothing BY DEF VisitorInv, Visitor!MergeLosesNothing
<1>3. (part = "visitor" => VisitorInv) => VisitorKeepsHisCart
  BY <1>1, <1>2 DEF VisitorInv, VisitorKeepsHisCart
<1> QED BY <1>3, PartKeepsVisitor, PTL
=============================================================================
