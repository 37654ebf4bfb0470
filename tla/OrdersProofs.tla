---------------------------- MODULE OrdersProofs ----------------------------
(***************************************************************************)
(* Proofs about Orders for any orders, clerks, baskets and statuses asked  *)
(* for, with requests overlapping as they like: types, what the history    *)
(* records, what it says of the goods given back, and that an order whose  *)
(* history does not fork has kept what orders promise (OrderLifecycle).    *)
(***************************************************************************)
EXTENDS Orders, FiniteSetTheorems, TLAPS

-----------------------------------------------------------------------------
(* A cancellation writes a whole number of releases for each line. *)
LEMMA ReleasesType ==
  ASSUME NEW b \in Seq(Variants), NEW m \in DOMAIN b
  PROVE  Releases(b)[m] \in Nat
<1>1. IsFiniteSet(1..Len(b))
  BY FS_Interval
<1>2. IsFiniteSet({i \in DOMAIN b : b[i] = b[m]})
  BY <1>1, FS_Subset
<1>3. QED BY <1>2, FS_CardinalityType DEF Releases

(* Lines added to a list keep their places. *)
LEMMA AppendShape ==
  ASSUME NEW S, NEW s \in Seq(S), NEW e \in S
  PROVE  /\ Append(s, e) \in Seq(S) /\ Len(s) \in Nat /\ Len(Append(s, e)) = Len(s) + 1
         /\ Append(s, e)[Len(s) + 1] = e /\ Append(s, e) # <<>>
         /\ \A i \in 1..Len(s) : Append(s, e)[i] = s[i]
OBVIOUS

(* Every request a clerk accepts is a request. *)
LEMMA AcceptType ==
  ASSUME TypeOK, NEW c \in Clerks, NEW o \in Orders, NEW to \in Statuses,
         NEW gives \in BOOLEAN, Accept(c, o, to, gives)
  PROVE  TypeOK'
<1>1. [order |-> o, from |-> status[o], to |-> to, gives |-> gives] \in Requests
  BY DEF TypeOK, Requests
<1>2. request' \in [Clerks -> Requests \cup {Idle}]
  BY <1>1 DEF Accept, TypeOK
<1>3. QED BY <1>2 DEF Accept, TypeOK

(* A new order has its lines, each with nothing released yet. *)
LEMMA InsertType ==
  ASSUME TypeOK, NEW o \in Orders, NEW b \in Baskets, Insert(o, b)
  PROVE  /\ basket' \in [Orders -> Seq(Variants)]
         /\ released' \in [Orders -> Seq(Nat)]
         /\ \A p \in Orders : Len(released'[p]) = Len(basket'[p])
<1>1. b \in Seq(Variants)
  BY BasketsAssumption
<1>2. [m \in DOMAIN b |-> 0] \in Seq(Nat) /\ Len([m \in DOMAIN b |-> 0]) = Len(b)
  BY <1>1
<1>3. QED BY <1>1, <1>2 DEF Insert, TypeOK

(* The row a request adds to the history. *)
Row(c) == Entry(request[c].from, request[c].to, IF request[c].gives THEN "cancel" ELSE "status")

(* What the second half of a request writes has the types of its columns. *)
LEMMA WriteType ==
  ASSUME TypeOK, NEW c \in Clerks, Write(c)
  PROVE  TypeOK'
<1> DEFINE r == request[c]
           o == r.order
<1>1. r \in Requests
  BY DEF TypeOK, Write, WriteRow
<1>2. o \in Orders /\ r.from \in Statuses /\ r.to \in Statuses
  BY <1>1 DEF Requests
<1>3. status' \in [Orders -> Statuses] /\ basket' \in [Orders -> Seq(Variants)]
  BY <1>2 DEF TypeOK, Write, WriteRow
<1>4. history' \in [Orders -> Seq(Entries)]
  <2>1. Row(c) \in Entries
    BY <1>2 DEF Row, Entry, Entries
  <2>2. Append(history[o], Row(c)) \in Seq(Entries)
    BY <1>2, <2>1 DEF TypeOK
  <2>3. QED BY <1>2, <2>2 DEF TypeOK, Write, WriteRow, Row
<1>5. /\ released' \in [Orders -> Seq(Nat)]
      /\ \A p \in Orders : Len(released'[p]) = Len(basket'[p])
  <2> DEFINE more == [m \in DOMAIN released[o] |-> released[o][m] + Releases(basket[o])[m]]
  <2>1. released[o] \in Seq(Nat) /\ basket[o] \in Seq(Variants)
        /\ Len(released[o]) = Len(basket[o])
    BY <1>2 DEF TypeOK
  <2>2. \A m \in DOMAIN released[o] : released[o][m] + Releases(basket[o])[m] \in Nat
    <3>1. \A m \in DOMAIN basket[o] : Releases(basket[o])[m] \in Nat
      BY <2>1, ReleasesType
    <3>2. DOMAIN released[o] = DOMAIN basket[o] /\ \A m \in DOMAIN released[o] : released[o][m] \in Nat
      BY <2>1
    <3>3. QED BY <3>1, <3>2
  <2>3. more \in Seq(Nat) /\ Len(more) = Len(basket[o])
    BY <2>1, <2>2
  <2> HIDE DEF more
  <2>4. released' = IF r.gives THEN [released EXCEPT ![o] = more] ELSE released
    BY DEF Write, WriteRow, more
  <2>5. QED BY <1>2, <2>3, <2>4 DEF TypeOK, Write, WriteRow
<1>6. request' \in [Clerks -> Requests \cup {Idle}]
  BY DEF TypeOK, Write, WriteRow
<1>7. QED BY <1>3, <1>4, <1>5, <1>6 DEF TypeOK

LEMMA TypeOKInit == Init => TypeOK
BY DEF Init, TypeOK, Statuses

LEMMA TypeOKNext == TypeOK /\ [Next]_vars => TypeOK'
<1> SUFFICES ASSUME TypeOK, [Next]_vars PROVE TypeOK'
  OBVIOUS
<1>1. ASSUME NEW o \in Orders, NEW b \in Baskets, Create(o, b) PROVE TypeOK'
  <2>1. <<Entry("NONE", "PENDING", "create")>> \in Seq(Entries)
    BY DEF Entry, Entries, Statuses
  <2>2. history' \in [Orders -> Seq(Entries)] /\ status' \in [Orders -> Statuses]
    BY <1>1, <2>1 DEF Create, TypeOK, Statuses
  <2>3. QED BY <1>1, <2>2, InsertType DEF Create, TypeOK
<1>2. ASSUME NEW o \in Orders, NEW b \in Baskets, CounterSale(o, b) PROVE TypeOK'
  <2>1. <<Entry("NONE", "PENDING", "create"), Entry("PENDING", "DELIVERED", "sale")>> \in Seq(Entries)
    BY DEF Entry, Entries, Statuses
  <2>2. history' \in [Orders -> Seq(Entries)] /\ status' \in [Orders -> Statuses]
    BY <1>2, <2>1 DEF CounterSale, TypeOK, Statuses
  <2>3. QED BY <1>2, <2>2, InsertType DEF CounterSale, TypeOK
<1>3. ASSUME NEW c \in Clerks, NEW o \in Orders, NEW to \in Targets, UpdateStatus(c, o, to)
      PROVE TypeOK'
  BY <1>3, AcceptType, TargetsAssumption DEF UpdateStatus
<1>4. ASSUME NEW c \in Clerks, NEW o \in Orders, Cancel(c, o) PROVE TypeOK'
  BY <1>4, AcceptType DEF Cancel, Statuses
<1>5. ASSUME NEW c \in Clerks, Write(c) PROVE TypeOK'
  BY <1>5, WriteType
<1>6. ASSUME NEW c \in Clerks, Die(c) PROVE TypeOK'
  BY <1>6 DEF Die, TypeOK
<1>7. CASE UNCHANGED vars
  BY <1>7 DEF vars, TypeOK
<1>8. QED BY <1>1, <1>2, <1>3, <1>4, <1>5, <1>6, <1>7 DEF Next

(* Type correctness, however requests overlap: every status, history row and release *)
(* count has its column's type, and every line has its count.                       *)
THEOREM TypeCorrect == Spec => []TypeOK
BY TypeOKInit, TypeOKNext, PTL DEF Spec

-----------------------------------------------------------------------------
(***************************************************************************)
(* The inductive invariant.  A request in flight remembers a status the    *)
(* order once had, though perhaps no longer has.  The lines of an order    *)
(* whose history does not fork say whether it was cancelled: there is no   *)
(* way back to a status once left, so a stale request always leaves a fork *)
(* behind.                                                                 *)
(***************************************************************************)
Cancellations(h) == {i \in DOMAIN h : h[i].by = "cancel"}
LinesLike(b, m) == {n \in DOMAIN b : b[n] = b[m]}

ReadOnce(r) ==
    r # Idle =>
        /\ \E j \in 1..Len(history[r.order]) : history[r.order][j].to = r.from
        /\ <<r.from, r.to>> \in Transitions
        /\ r.gives => r.from \in Cancellable /\ r.to = "CANCELLED"

(* The rows of one order: status, basket, releases, history. *)
Placed(s, b) == (s = "NONE" => b = <<>>) /\ (s # "NONE" => b \in Baskets)

Tree(s, h) ==
    /\ h = <<>> <=> s = "NONE"
    /\ h # <<>> => h[1] = Entry("NONE", "PENDING", "create") /\ h[Len(h)].to = s
    /\ \A i \in 2..Len(h) : Explained(h, i)

Matched(b, g, h) ==
    \A m \in DOMAIN b :
        g[m] = Cardinality(Cancellations(h)) * Cardinality(LinesLike(b, m))

Clean(s, b, g, h) ==
    s # "NONE" /\ ~Forked(h) =>
        \A m \in DOMAIN b : g[m] = IF GivenBack(h) THEN Releases(b)[m] ELSE 0

OrderInv(s, b, g, h) == Placed(s, b) /\ Tree(s, h) /\ Matched(b, g, h) /\ Clean(s, b, g, h)

Inv ==
    /\ TypeOK
    /\ \A c \in Clerks : ReadOnce(request[c])
    /\ \A o \in Orders : OrderInv(status[o], basket[o], released[o], history[o])

LEMMA InvImplies == Inv => HistoryIsATree /\ ReleasesMatchHistory
BY DEF Inv, OrderInv, Tree, Matched, HistoryIsATree, ReleasesMatchHistory, Cancellations, LinesLike

(* No transition leads back to a status that was left, least of all from CANCELLED. *)
LEMMA NoWayBack ==
  ASSUME NEW from, NEW to, <<from, to>> \in Transitions
  PROVE  from \notin {"NONE", "CANCELLED"} /\ to # "NONE" /\ from # to
BY DEF Transitions

(* A new row counts as one more cancellation exactly when cancel wrote it. *)
LEMMA CancellationsGrow ==
  ASSUME NEW h \in Seq(Entries), NEW e \in Entries
  PROVE  /\ Cardinality(Cancellations(h)) \in Nat
         /\ Cardinality(Cancellations(Append(h, e))) =
              Cardinality(Cancellations(h)) + (IF e.by = "cancel" THEN 1 ELSE 0)
<1> DEFINE g == Append(h, e)
<1>1. IsFiniteSet(Cancellations(h)) /\ Cardinality(Cancellations(h)) \in Nat
  <2>1. IsFiniteSet(1..Len(h))
    BY FS_Interval
  <2>2. Cancellations(h) \subseteq 1..Len(h)
    BY DEF Cancellations
  <2>3. QED BY <2>1, <2>2, FS_Subset, FS_CardinalityType
<1>2. /\ Len(h) \in Nat /\ Len(g) = Len(h) + 1 /\ g[Len(h) + 1] = e
      /\ \A i \in 1..Len(h) : g[i] = h[i]
      /\ DOMAIN h = 1..Len(h) /\ DOMAIN g = 1..Len(g)
  BY AppendShape
<1> HIDE DEF g
<1>3. CASE e.by = "cancel"
  <2>1. Cancellations(g) = Cancellations(h) \cup {Len(h) + 1}
    BY <1>2, <1>3 DEF Cancellations
  <2>2. Len(h) + 1 \notin Cancellations(h)
    BY <1>2 DEF Cancellations
  <2>3. Cardinality(Cancellations(g)) = Cardinality(Cancellations(h)) + 1
    BY <1>1, <2>1, <2>2, FS_AddElement
  <2>4. QED BY <1>1, <1>3, <2>3 DEF g
<1>4. CASE e.by # "cancel"
  <2>1. Cancellations(g) = Cancellations(h)
    BY <1>2, <1>4 DEF Cancellations
  <2>2. QED BY <1>1, <1>4, <2>1 DEF g
<1>5. QED BY <1>3, <1>4

LEMMA OneMoreTime == ASSUME NEW k \in Nat, NEW n \in Nat PROVE (k + 1) * n = k * n + n
OBVIOUS

(* A row added to an explained history, from a status the order once had. *)
LEMMA TreeGrows ==
  ASSUME NEW s \in Statuses, NEW h \in Seq(Entries), NEW e \in Entries, Tree(s, h),
         \E j \in 1..Len(h) : h[j].to = e.from,
         <<e.from, e.to>> \in Transitions, e.by \in {"status", "cancel"},
         e.by = "cancel" => e.from \in Cancellable /\ e.to = "CANCELLED"
  PROVE  Tree(e.to, Append(h, e))
<1> DEFINE g == Append(h, e)
<1>1. /\ Len(h) \in Nat /\ Len(g) = Len(h) + 1 /\ g # <<>> /\ g[Len(h) + 1] = e
      /\ \A i \in 1..Len(h) : g[i] = h[i]
  BY AppendShape
<1>2. PICK j \in 1..Len(h) : h[j].to = e.from
  OBVIOUS
<1>3. h # <<>> /\ Len(h) >= 1
  BY <1>1, <1>2
<1> HIDE DEF g
<1>4. g[1] = Entry("NONE", "PENDING", "create") /\ g[Len(g)].to = e.to
  BY <1>1, <1>3 DEF Tree
<1>5. e.to # "NONE"
  BY NoWayBack
<1>6. ASSUME NEW i \in 2..Len(g) PROVE Explained(g, i)
  <2>1. CASE i = Len(g)
    <3>1. g[i] = e /\ j \in 1..(i - 1) /\ g[j].to = e.from
      BY <1>1, <1>2, <2>1
    <3>2. QED BY <3>1 DEF Explained
  <2>2. CASE i # Len(g)
    <3>1. i \in 2..Len(h) /\ g[i] = h[i] /\ 1..(i - 1) \subseteq 1..Len(h)
      BY <1>1, <2>2
    <3>2. Explained(h, i)
      BY <3>1 DEF Tree
    <3>3. PICK k \in 1..(i - 1) : h[k].to = h[i].from
      BY <3>2 DEF Explained
    <3>4. g[k].to = g[i].from
      BY <1>1, <3>1, <3>3
    <3>5. QED BY <3>1, <3>2, <3>4 DEF Explained
  <2>3. QED BY <2>1, <2>2
<1>7. QED BY <1>1, <1>4, <1>5, <1>6 DEF Tree, g

(* What a row adds to a history that still reads as one path: it starts at the *)
(* status, so no cancellation came before it.                                 *)
LEMMA PathGrows ==
  ASSUME NEW s \in Statuses, NEW h \in Seq(Entries), NEW e \in Entries, Tree(s, h),
         h # <<>>, <<e.from, e.to>> \in Transitions, ~Forked(Append(h, e))
  PROVE  ~Forked(h) /\ e.from = s /\ ~GivenBack(h)
<1> DEFINE g == Append(h, e)
<1>1. /\ Len(h) \in Nat \ {0} /\ Len(g) = Len(h) + 1 /\ g[Len(h) + 1] = e
      /\ \A i \in 1..Len(h) : g[i] = h[i]
  BY AppendShape
<1> HIDE DEF g
<1>2. \A i \in 2..Len(g) : g[i].from = g[i - 1].to
  BY DEF Forked, g
<1>3. ~Forked(h)
  <2> SUFFICES ASSUME NEW i \in 2..Len(h) PROVE h[i].from = h[i - 1].to
    BY DEF Forked
  <2>1. i \in 2..Len(g) /\ g[i] = h[i] /\ g[i - 1] = h[i - 1]
    BY <1>1
  <2>2. QED BY <1>2, <2>1
<1>4. e.from = s
  <2>1. Len(g) \in 2..Len(g) /\ Len(g) - 1 = Len(h) /\ g[Len(g)] = e /\ g[Len(h)] = h[Len(h)]
    BY <1>1
  <2>2. QED BY <1>2, <2>1 DEF Tree
<1>5. ~GivenBack(h)
  <2>1. s # "CANCELLED" /\ h[Len(h)].to = s
    BY <1>4, NoWayBack DEF Tree
  <2>2. CASE Len(h) = 1
    BY <2>2 DEF Tree, Entry, GivenBack
  <2>3. CASE Len(h) # 1
    <3>0. \A n \in Nat \ {0} : n # 1 => n \in 2..n
      OBVIOUS
    <3>1. Len(h) \in 2..Len(h)
      BY <1>1, <2>3, <3>0
    <3>2. Explained(h, Len(h))
      BY <3>1 DEF Tree
    <3>3. QED BY <2>1, <3>2 DEF Explained, GivenBack
  <2>4. QED BY <2>2, <2>3
<1>6. QED BY <1>3, <1>4, <1>5

(* The second half of a request, on the rows of its order. *)
LEMMA RowAdded ==
  ASSUME NEW s \in Statuses \ {"NONE"}, NEW b \in Seq(Variants), NEW g \in Seq(Nat), Len(g) = Len(b),
         NEW h \in Seq(Entries), OrderInv(s, b, g, h), NEW e \in Entries,
         \E j \in 1..Len(h) : h[j].to = e.from,
         <<e.from, e.to>> \in Transitions, e.by \in {"status", "cancel"},
         e.by = "cancel" => e.from \in Cancellable /\ e.to = "CANCELLED",
         NEW f \in Seq(Nat),
         f = IF e.by = "cancel" THEN [m \in DOMAIN g |-> g[m] + Releases(b)[m]] ELSE g
  PROVE  OrderInv(e.to, b, f, Append(h, e))
<1>1. Tree(e.to, Append(h, e)) /\ Placed(e.to, b)
  BY TreeGrows, NoWayBack DEF OrderInv, Placed
<1>2. ASSUME NEW m \in DOMAIN b
      PROVE  /\ f[m] = g[m] + (IF e.by = "cancel" THEN Releases(b)[m] ELSE 0)
             /\ Releases(b)[m] \in Nat /\ g[m] \in Nat
             /\ Releases(b)[m] = Cardinality(LinesLike(b, m))
  <2>1. Releases(b)[m] \in Nat /\ g[m] \in Nat /\ m \in DOMAIN g
    BY ReleasesType
  <2>2. Releases(b)[m] = Cardinality(LinesLike(b, m))
    BY DEF Releases, LinesLike
  <2>3. QED BY <2>1, <2>2
<1>3. Matched(b, f, Append(h, e))
  <2> SUFFICES ASSUME NEW m \in DOMAIN b
               PROVE  f[m] = Cardinality(Cancellations(Append(h, e))) * Cardinality(LinesLike(b, m))
    BY DEF Matched
  <2> DEFINE k == Cardinality(Cancellations(h))
             n == Cardinality(LinesLike(b, m))
  <2>1. /\ k \in Nat /\ n \in Nat /\ g[m] = k * n
        /\ f[m] = g[m] + (IF e.by = "cancel" THEN n ELSE 0)
    BY <1>2, CancellationsGrow DEF OrderInv, Matched
  <2>2. Cardinality(Cancellations(Append(h, e))) = k + (IF e.by = "cancel" THEN 1 ELSE 0)
    BY CancellationsGrow
  <2> HIDE DEF k, n
  <2>3. CASE e.by = "cancel"
    <3>1. f[m] = k * n + n
      BY <2>1, <2>3
    <3>2. QED BY <2>1, <2>2, <2>3, <3>1, OneMoreTime DEF n
  <2>4. CASE e.by # "cancel"
    BY <2>1, <2>2, <2>4 DEF n
  <2>5. QED BY <2>3, <2>4
<1>4. Clean(e.to, b, f, Append(h, e))
  <2> SUFFICES ASSUME ~Forked(Append(h, e)), NEW m \in DOMAIN b
               PROVE  f[m] = IF GivenBack(Append(h, e)) THEN Releases(b)[m] ELSE 0
    BY DEF Clean
  <2>1. h # <<>>
    OBVIOUS
  <2>2. ~Forked(h) /\ ~GivenBack(h)
    BY <2>1, PathGrows DEF OrderInv
  <2>3. g[m] = 0
    BY <2>2 DEF OrderInv, Clean
  <2>4. GivenBack(Append(h, e)) <=> e.by = "cancel"
    BY AppendShape DEF GivenBack
  <2>5. CASE e.by = "cancel"
    <3>0. f[m] = g[m] + Releases(b)[m] /\ Releases(b)[m] \in Nat
      BY <1>2, <2>5
    <3>1. f[m] = Releases(b)[m]
      BY <2>3, <3>0
    <3>2. QED BY <2>4, <2>5, <3>1
  <2>6. CASE e.by # "cancel"
    <3>1. f[m] = 0
      BY <1>2, <2>3, <2>6
    <3>2. QED BY <2>4, <2>6, <3>1
  <2>7. QED BY <2>5, <2>6
<1>5. QED BY <1>1, <1>3, <1>4 DEF OrderInv

(* A new order: nobody had read it, its lines are out, its history starts. *)
LEMMA NewOrder ==
  ASSUME Inv, TypeOK', NEW o \in Orders, NEW b \in Baskets, Insert(o, b), UNCHANGED request,
         NEW s \in Statuses \ {"NONE"}, status' = [status EXCEPT ![o] = s],
         NEW h \in Seq(Entries), history' = [history EXCEPT ![o] = h],
         Tree(s, h), \A i \in DOMAIN h : h[i].by # "cancel"
  PROVE  Inv'
<1>1. TypeOK /\ status[o] = "NONE" /\ history[o] = <<>>
  BY DEF Inv, Insert, OrderInv, Tree
<1>2. ASSUME NEW c \in Clerks PROVE ReadOnce(request[c])'
  <2>1. CASE request[c] = Idle
    BY <2>1 DEF ReadOnce
  <2>2. CASE request[c] # Idle
    <3>1. request[c].order \in Orders /\ ReadOnce(request[c])
      BY <1>1, <2>2 DEF TypeOK, Requests, Inv
    <3>2. request[c].order # o
      BY <1>1, <2>2, <3>1 DEF ReadOnce
    <3>3. history'[request[c].order] = history[request[c].order]
      BY <1>1, <3>1, <3>2 DEF TypeOK
    <3>4. QED BY <3>1, <3>3 DEF ReadOnce
  <2>3. QED BY <2>1, <2>2
<1>3. ASSUME NEW p \in Orders PROVE OrderInv(status'[p], basket'[p], released'[p], history'[p])
  <2>1. CASE p = o
    <3> DEFINE f == [m \in DOMAIN b |-> 0]
    <3>1. status'[o] = s /\ basket'[o] = b /\ released'[o] = f /\ history'[o] = h
      BY <1>1 DEF Insert, TypeOK
    <3>2. Cancellations(h) = {} /\ b \in Seq(Variants)
      BY BasketsAssumption DEF Cancellations
    <3>3. Matched(b, f, h)
      <4> SUFFICES ASSUME NEW m \in DOMAIN b
                   PROVE  0 = Cardinality(Cancellations(h)) * Cardinality(LinesLike(b, m))
        BY DEF Matched
      <4>1. Cardinality(LinesLike(b, m)) \in Nat
        BY <3>2, ReleasesType DEF Releases, LinesLike
      <4>2. Cardinality(Cancellations(h)) = 0
        BY <3>2, FS_EmptySet
      <4>3. QED BY <4>1, <4>2
    <3>4. ~GivenBack(h)
      <4>1. h # <<>>
        BY DEF Tree
      <4>2. Len(h) \in DOMAIN h
        BY <4>1
      <4>3. QED BY <4>2 DEF GivenBack
    <3>5. QED BY <2>1, <3>1, <3>3, <3>4 DEF OrderInv, Placed, Clean
  <2>2. CASE p # o
    <3>1. /\ status'[p] = status[p] /\ basket'[p] = basket[p]
          /\ released'[p] = released[p] /\ history'[p] = history[p]
      BY <1>1, <2>2 DEF Insert, TypeOK
    <3>2. QED BY <3>1 DEF Inv
  <2>3. QED BY <2>1, <2>2
<1>4. QED BY <1>2, <1>3 DEF Inv

(* The second half of a request: the row it adds is explained by what it once read. *)
LEMMA WriteShape ==
  ASSUME Inv, NEW c \in Clerks, Write(c)
  PROVE  LET o == request[c].order
         IN  /\ o \in Orders /\ request[c] \in Requests /\ Row(c) \in Entries
             /\ Row(c).from = request[c].from /\ Row(c).to = request[c].to
             /\ Row(c).by = IF request[c].gives THEN "cancel" ELSE "status"
             /\ <<Row(c).from, Row(c).to>> \in Transitions
             /\ Row(c).by = "cancel" => Row(c).from \in Cancellable /\ Row(c).to = "CANCELLED"
             /\ \E j \in 1..Len(history[o]) : history[o][j].to = Row(c).from
             /\ status[o] # "NONE"
             /\ status' = [status EXCEPT ![o] = Row(c).to]
             /\ history' = [history EXCEPT ![o] = Append(@, Row(c))]
             /\ request' = [request EXCEPT ![c] = Idle]
             /\ UNCHANGED basket
             /\ released' = IF request[c].gives
                            THEN [released EXCEPT ![o] =
                                    [m \in DOMAIN @ |-> @[m] + Releases(basket[o])[m]]]
                            ELSE released
<1> DEFINE r == request[c]
           o == r.order
<1>1. r \in Requests /\ r # Idle /\ o \in Orders /\ TypeOK
  BY DEF Inv, TypeOK, Write, WriteRow, Requests
<1>2. ReadOnce(r)
  BY DEF Inv
<1>3. /\ Row(c) \in Entries /\ Row(c).from = r.from /\ Row(c).to = r.to
      /\ Row(c).by = IF r.gives THEN "cancel" ELSE "status"
  BY <1>1 DEF Row, Entry, Entries, Requests
<1>4. \E j \in 1..Len(history[o]) : history[o][j].to = r.from
  BY <1>1, <1>2 DEF ReadOnce
<1>5. status[o] # "NONE"
  <2>1. history[o] # <<>>
    BY <1>4
  <2>2. QED BY <1>1, <2>1 DEF Inv, OrderInv, Tree
<1>6. /\ <<Row(c).from, Row(c).to>> \in Transitions
      /\ Row(c).by = "cancel" => Row(c).from \in Cancellable /\ Row(c).to = "CANCELLED"
  BY <1>1, <1>2, <1>3 DEF ReadOnce
<1>7. /\ status' = [status EXCEPT ![o] = Row(c).to]
      /\ history' = [history EXCEPT ![o] = Append(@, Row(c))]
      /\ request' = [request EXCEPT ![c] = Idle]
      /\ UNCHANGED basket
      /\ released' = IF r.gives
                     THEN [released EXCEPT ![o] =
                             [m \in DOMAIN @ |-> @[m] + Releases(basket[o])[m]]]
                     ELSE released
  BY <1>3 DEF Write, WriteRow, Row
<1>8. QED BY <1>1, <1>3, <1>4, <1>5, <1>6, <1>7

LEMMA WriteKeeps ==
  ASSUME Inv, NEW c \in Clerks, Write(c)
  PROVE  Inv'
<1> DEFINE o == request[c].order
           e == Row(c)
<1>1. TypeOK /\ TypeOK'
  BY WriteType DEF Inv
<1>2. /\ o \in Orders /\ e \in Entries /\ status[o] # "NONE"
      /\ e.by = IF request[c].gives THEN "cancel" ELSE "status"
      /\ <<e.from, e.to>> \in Transitions
      /\ e.by = "cancel" => e.from \in Cancellable /\ e.to = "CANCELLED"
      /\ \E j \in 1..Len(history[o]) : history[o][j].to = e.from
      /\ status' = [status EXCEPT ![o] = e.to]
      /\ history' = [history EXCEPT ![o] = Append(@, e)]
      /\ request' = [request EXCEPT ![c] = Idle]
      /\ UNCHANGED basket
      /\ released' = IF request[c].gives
                     THEN [released EXCEPT ![o] =
                             [m \in DOMAIN @ |-> @[m] + Releases(basket[o])[m]]]
                     ELSE released
  BY WriteShape
<1> HIDE DEF e
<1>3. ASSUME NEW d \in Clerks PROVE ReadOnce(request[d])'
  <2> DEFINE r == request[d]
  <2>1. CASE request'[d] = Idle
    BY <2>1 DEF ReadOnce
  <2>2. CASE request'[d] # Idle
    <3>1. request'[d] = r /\ r # Idle /\ r.order \in Orders /\ ReadOnce(r)
      BY <1>1, <1>2, <2>2 DEF TypeOK, Requests, Inv
    <3>2. PICK j \in 1..Len(history[r.order]) : history[r.order][j].to = r.from
      BY <3>1 DEF ReadOnce
    <3>3. j \in 1..Len(history'[r.order]) /\ history'[r.order][j] = history[r.order][j]
      <4>1. CASE r.order = o
        <5>1. history'[o] = Append(history[o], e) /\ history[o] \in Seq(Entries)
          BY <1>1, <1>2 DEF TypeOK
        <5>2. QED BY <1>2, <4>1, <5>1, AppendShape
      <4>2. CASE r.order # o
        BY <1>1, <1>2, <3>1, <4>2 DEF TypeOK
      <4>3. QED BY <4>1, <4>2
    <3>4. QED BY <3>1, <3>2, <3>3 DEF ReadOnce
  <2>3. QED BY <2>1, <2>2
<1>4. ASSUME NEW p \in Orders PROVE OrderInv(status'[p], basket'[p], released'[p], history'[p])
  <2>1. CASE p = o
    <3> DEFINE s == status[o]
               b == basket[o]
               g == released[o]
               h == history[o]
               f == released'[o]
    <3>1. /\ s \in Statuses \ {"NONE"} /\ b \in Seq(Variants) /\ g \in Seq(Nat) /\ Len(g) = Len(b)
          /\ h \in Seq(Entries) /\ f \in Seq(Nat) /\ OrderInv(s, b, g, h)
      BY <1>1, <1>2 DEF TypeOK, Inv
    <3>2. f = IF e.by = "cancel" THEN [m \in DOMAIN g |-> g[m] + Releases(b)[m]] ELSE g
      BY <1>1, <1>2 DEF TypeOK
    <3>3. status'[o] = e.to /\ basket'[o] = b /\ history'[o] = Append(h, e)
      BY <1>1, <1>2 DEF TypeOK
    <3>4. e.by \in {"status", "cancel"}
      BY <1>2
    <3> HIDE DEF s, b, g, f
    <3>5. OrderInv(e.to, b, f, Append(h, e))
      BY <1>2, <3>1, <3>2, <3>4, RowAdded
    <3>6. QED BY <2>1, <3>3, <3>5 DEF f
  <2>2. CASE p # o
    <3>1. /\ status'[p] = status[p] /\ basket'[p] = basket[p]
          /\ released'[p] = released[p] /\ history'[p] = history[p]
      BY <1>1, <1>2, <2>2 DEF TypeOK
    <3>2. QED BY <3>1 DEF Inv
  <2>3. QED BY <2>1, <2>2
<1>5. QED BY <1>1, <1>3, <1>4 DEF Inv

LEMMA InvInit == Init => Inv
<1> SUFFICES ASSUME Init PROVE Inv
  OBVIOUS
<1>1. TypeOK
  BY TypeOKInit
<1>2. \A c \in Clerks : ReadOnce(request[c])
  BY DEF Init, ReadOnce
<1>3. ASSUME NEW o \in Orders PROVE OrderInv(status[o], basket[o], released[o], history[o])
  BY DEF Init, OrderInv, Placed, Tree, Matched, Clean
<1>4. QED BY <1>1, <1>2, <1>3 DEF Inv

LEMMA InvNext ==
  ASSUME Inv, [Next]_vars
  PROVE  Inv'
<1>1. TypeOK /\ TypeOK'
  BY TypeOKNext DEF Inv
<1>2. ASSUME NEW o \in Orders, NEW b \in Baskets, Create(o, b) PROVE Inv'
  <2> DEFINE h == <<Entry("NONE", "PENDING", "create")>>
  <2>1. /\ h \in Seq(Entries) /\ Tree("PENDING", h) /\ "PENDING" \in Statuses \ {"NONE"}
        /\ \A i \in DOMAIN h : h[i].by # "cancel"
    BY DEF Entry, Entries, Statuses, Tree
  <2>2. /\ status' = [status EXCEPT ![o] = "PENDING"] /\ history' = [history EXCEPT ![o] = h]
        /\ Insert(o, b) /\ UNCHANGED request
    BY <1>2 DEF Create
  <2> HIDE DEF h
  <2>3. QED BY <1>1, <2>1, <2>2, NewOrder
<1>3. ASSUME NEW o \in Orders, NEW b \in Baskets, CounterSale(o, b) PROVE Inv'
  <2> DEFINE h == <<Entry("NONE", "PENDING", "create"), Entry("PENDING", "DELIVERED", "sale")>>
  <2>1. /\ h \in Seq(Entries) /\ Len(h) = 2 /\ h # <<>> /\ "DELIVERED" \in Statuses \ {"NONE"}
        /\ h[1] = Entry("NONE", "PENDING", "create")
        /\ h[2] = Entry("PENDING", "DELIVERED", "sale")
    BY DEF Entry, Entries, Statuses
  <2>2. /\ status' = [status EXCEPT ![o] = "DELIVERED"] /\ history' = [history EXCEPT ![o] = h]
        /\ Insert(o, b) /\ UNCHANGED request
    BY <1>3 DEF CounterSale
  <2> HIDE DEF h
  <2>3. \A i \in DOMAIN h : h[i].by # "cancel"
    <3>1. \A i \in DOMAIN h : i = 1 \/ i = 2
      BY <2>1
    <3>2. QED BY <2>1, <3>1 DEF Entry
  <2>4. Tree("DELIVERED", h)
    <3>1. \A i \in 2..2 : i = 2 /\ 1 \in 1..(i - 1)
      OBVIOUS
    <3>2. Explained(h, 2)
      BY <2>1, <3>1 DEF Explained, Entry
    <3>3. QED BY <2>1, <3>1, <3>2 DEF Tree, Entry
  <2>5. QED BY <1>1, <2>1, <2>2, <2>3, <2>4, NewOrder
<1>4. ASSUME NEW c \in Clerks, NEW o \in Orders, NEW to \in Statuses, NEW gives \in BOOLEAN,
             Accept(c, o, to, gives), <<status[o], to>> \in Transitions,
             gives => status[o] \in Cancellable /\ to = "CANCELLED"
      PROVE  Inv'
  <2>1. ASSUME NEW d \in Clerks PROVE ReadOnce(request[d])'
    <3>1. CASE d = c
      <4>1. request'[d] = [order |-> o, from |-> status[o], to |-> to, gives |-> gives]
            /\ history' = history
        BY <1>1, <1>4, <3>1 DEF Accept, TypeOK
      <4>2. history[o] # <<>> /\ history[o][Len(history[o])].to = status[o]
        BY <1>4 DEF Accept, Inv, OrderInv, Tree
      <4>3. Len(history[o]) \in 1..Len(history[o])
        BY <1>1, <4>2 DEF TypeOK
      <4>4. QED BY <1>4, <4>1, <4>2, <4>3 DEF ReadOnce
    <3>2. CASE d # c
      BY <1>1, <1>4, <3>2 DEF Accept, TypeOK, Inv, ReadOnce
    <3>3. QED BY <3>1, <3>2
  <2>2. QED BY <1>1, <1>4, <2>1 DEF Accept, Inv
<1>5. ASSUME NEW c \in Clerks, NEW o \in Orders, NEW to \in Targets, UpdateStatus(c, o, to)
      PROVE  Inv'
  BY <1>4, <1>5, TargetsAssumption DEF UpdateStatus
<1>6. ASSUME NEW c \in Clerks, NEW o \in Orders, Cancel(c, o) PROVE Inv'
  <2>1. <<status[o], "CANCELLED">> \in Transitions /\ "CANCELLED" \in Statuses
    BY <1>6 DEF Cancel, Cancellable, Transitions, Statuses
  <2>2. QED BY <1>4, <1>6, <2>1 DEF Cancel
<1>7. ASSUME NEW c \in Clerks, Write(c) PROVE Inv'
  BY <1>7, WriteKeeps
<1>8. ASSUME NEW c \in Clerks, Die(c) PROVE Inv'
  <2>1. ASSUME NEW d \in Clerks PROVE ReadOnce(request[d])'
    <3>1. (request'[d] = Idle \/ request'[d] = request[d]) /\ history' = history
      BY <1>1, <1>8 DEF Die, TypeOK
    <3>2. QED BY <3>1 DEF ReadOnce, Inv
  <2>2. QED BY <1>1, <1>8, <2>1 DEF Die, Inv
<1>9. CASE UNCHANGED vars
  <2>1. ASSUME NEW d \in Clerks PROVE ReadOnce(request[d])'
    BY <1>9 DEF vars, ReadOnce, Inv
  <2>2. QED BY <1>1, <1>9, <2>1 DEF vars, Inv
<1>10. QED BY <1>2, <1>3, <1>5, <1>6, <1>7, <1>8, <1>9 DEF Next

THEOREM Invariant == Spec => []Inv
BY InvInit, InvNext, PTL DEF Spec

(* However requests on an order overlap, its history begins with its creation, ends *)
(* at its status, and has no row that a request could not have written: each starts *)
(* at a status the order once had and makes a move ORDER_STATUS_TRANSITIONS allows. *)
THEOREM HistoryExplained == Spec => []HistoryIsATree
BY Invariant, InvImplies, PTL

(* Stock movements and history agree however requests overlap, for any basket: each *)
(* cancellation recorded gave every line back once per line with its variant.       *)
THEOREM ReleasesAreRecorded == Spec => []ReleasesMatchHistory
BY Invariant, InvImplies, PTL

-----------------------------------------------------------------------------
(***************************************************************************)
(* The lifecycle.  Until its history forks an order is in the stage its    *)
(* status says, and its lines say whether its goods are out.               *)
(***************************************************************************)
(* Which stage an order is in, case by case. *)
LEMMA StageCases ==
  ASSUME NEW s \in Statuses, NEW b, NEW h
  PROVE  /\ s = "NONE" <=> StageOf(s, b, h) = "none"
         /\ s # "NONE" /\ (Forked(h) \/ (GivenBack(h) /\ Repeats(b))) => StageOf(s, b, h) = "stray"
         /\ s # "NONE" /\ ~Forked(h) /\ ~(GivenBack(h) /\ Repeats(b)) =>
               /\ s \in Cancellable => StageOf(s, b, h) = "open"
               /\ s = "CANCELLED" /\ GivenBack(h) => StageOf(s, b, h) = "cancelled"
               /\ s = "CANCELLED" /\ ~GivenBack(h) => StageOf(s, b, h) = "dropped"
               /\ s \notin Cancellable \cup {"CANCELLED"} => StageOf(s, b, h) = "gone"
<1>1. CASE s = "NONE"
  BY <1>1 DEF StageOf
<1>2. CASE s # "NONE" /\ (Forked(h) \/ (GivenBack(h) /\ Repeats(b)))
  BY <1>2 DEF StageOf
<1>3. CASE s # "NONE" /\ ~(Forked(h) \/ (GivenBack(h) /\ Repeats(b)))
  <2>1. CASE s \in Cancellable
    BY <1>3, <2>1 DEF StageOf, Cancellable
  <2>2. CASE s = "CANCELLED"
    BY <1>3, <2>2 DEF StageOf, Cancellable
  <2>3. CASE s \notin Cancellable \cup {"CANCELLED"}
    BY <1>3, <2>3 DEF StageOf
  <2>4. QED BY <1>3, <2>1, <2>2, <2>3 DEF Cancellable
<1>4. QED BY <1>1, <1>2, <1>3

(* Goods are out exactly while the order is open, gone or dropped. *)
LEMMA GoodsByStage ==
  ASSUME NEW s \in Statuses, NEW b \in Seq(Variants), NEW g \in Seq(Nat), Len(g) = Len(b),
         NEW h \in Seq(Entries), OrderInv(s, b, g, h), s # "NONE", ~Forked(h)
  PROVE  /\ ~GivenBack(h) => ~NothingTaken(s, g)
         /\ GivenBack(h) /\ ~Repeats(b) => NothingTaken(s, g)
<1>1. b # <<>> /\ DOMAIN g = DOMAIN b
  BY BasketsAssumption DEF OrderInv, Placed
<1>2. \A m \in DOMAIN b : g[m] = IF GivenBack(h) THEN Releases(b)[m] ELSE 0
  BY DEF OrderInv, Clean
<1>3. ASSUME ~GivenBack(h) PROVE ~NothingTaken(s, g)
  <2>1. 1 \in DOMAIN g /\ g[1] = 0
    BY <1>1, <1>2, <1>3
  <2>2. QED BY <2>1 DEF NothingTaken
<1>4. ASSUME GivenBack(h), ~Repeats(b), NEW m \in DOMAIN b PROVE g[m] = 1
  <2>1. {i \in DOMAIN b : b[i] = b[m]} = {m}
    BY <1>4 DEF Repeats
  <2>2. Releases(b)[m] = 1
    BY <2>1, FS_Singleton DEF Releases
  <2>3. QED BY <1>2, <1>4, <2>2
<1>5. QED BY <1>1, <1>3, <1>4 DEF NothingTaken

Stage == [o \in Orders |-> StageOf(status[o], basket[o], history[o])]
Taken == {o \in Orders : ~NothingTaken(status[o], released[o])}

(* A step that touches the rows of one order moves one order of the abstraction. *)
LEMMA OneMoves ==
  ASSUME NEW o \in Orders,
         \A p \in Orders \ {o} : /\ status'[p] = status[p] /\ basket'[p] = basket[p]
                                 /\ released'[p] = released[p] /\ history'[p] = history[p]
  PROVE  /\ Stage' = [Stage EXCEPT ![o] = StageOf(status'[o], basket'[o], history'[o])]
         /\ Taken' = IF NothingTaken(status'[o], released'[o]) THEN Taken \ {o} ELSE Taken \cup {o}
<1>1. Stage' = [Stage EXCEPT ![o] = StageOf(status'[o], basket'[o], history'[o])]
  BY DEF Stage
<1>2. \A p \in Orders \ {o} : p \in Taken' <=> p \in Taken
  BY DEF Taken, NothingTaken
<1>3. Taken \subseteq Orders /\ Taken' \subseteq Orders
  BY DEF Taken
<1>4. o \in Taken' <=> ~NothingTaken(status'[o], released'[o])
  BY DEF Taken
<1>5. Taken' = IF NothingTaken(status'[o], released'[o]) THEN Taken \ {o} ELSE Taken \cup {o}
  <2>1. CASE o \in Taken'
    <3>1. Taken' = Taken \cup {o}
      BY <1>2, <1>3, <2>1
    <3>2. QED BY <1>4, <2>1, <3>1
  <2>2. CASE o \notin Taken'
    <3>1. Taken' = Taken \ {o}
      BY <1>2, <1>3, <2>2
    <3>2. QED BY <1>4, <2>2, <3>1
  <2>3. QED BY <2>1, <2>2
<1>6. QED BY <1>1, <1>5

(* A new order is open, or handed over at once; its goods are out. *)
LEMMA PlacesAnOrder ==
  ASSUME Inv, Inv', NEW o \in Orders, NEW b \in Baskets, Insert(o, b),
         NEW s \in {"PENDING", "DELIVERED"}, status' = [status EXCEPT ![o] = s],
         NEW h \in Seq(Entries), history' = [history EXCEPT ![o] = h],
         ~Forked(h), ~GivenBack(h)
  PROVE  Lifecycle!Next
<1> DEFINE g == released'[o]
<1>1. TypeOK /\ TypeOK' /\ status[o] = "NONE" /\ b \in Seq(Variants)
  BY BasketsAssumption DEF Inv, Insert
<1>2. /\ status'[o] = s /\ basket'[o] = b /\ history'[o] = h
      /\ \A p \in Orders \ {o} : /\ status'[p] = status[p] /\ basket'[p] = basket[p]
                                 /\ released'[p] = released[p] /\ history'[p] = history[p]
  BY <1>1 DEF Insert, TypeOK
<1>3. s \in Statuses /\ s # "NONE" /\ OrderInv(s, b, g, h) /\ g \in Seq(Nat) /\ Len(g) = Len(b)
  BY <1>1, <1>2 DEF Inv, TypeOK, Statuses
<1> HIDE DEF g
<1>4. ~NothingTaken(s, g)
  BY <1>1, <1>3, GoodsByStage
<1>5. StageOf(s, b, h) \in {"open", "gone"}
  <2>1. s \in Cancellable \/ s \notin Cancellable \cup {"CANCELLED"}
    BY DEF Cancellable
  <2>2. QED BY <1>3, <2>1, StageCases
<1>6. Stage[o] = "none"
  BY <1>1, StageCases DEF Stage, TypeOK
<1>7. Stage' = [Stage EXCEPT ![o] = StageOf(s, b, h)] /\ Taken' = Taken \cup {o}
  BY <1>2, <1>4, OneMoves DEF g
<1>8. Lifecycle!Place(o, StageOf(s, b, h))
  BY <1>6, <1>7 DEF Lifecycle!Place, Stage, Taken
<1>9. QED BY <1>5, <1>8 DEF Lifecycle!Next

(* A transition of an order moves it within its stage, or out of an open one. *)
LEMMA StageMoves ==
  ASSUME NEW from, NEW to, <<from, to>> \in Transitions
  PROVE  /\ from \in Statuses /\ to \in Statuses
         /\ \/ from \in Cancellable /\ to = "CANCELLED"
            \/ from \in Cancellable /\ to \in Cancellable
            \/ from \in Cancellable /\ to \notin Cancellable \cup {"CANCELLED"}
            \/ from \notin Cancellable \cup {"CANCELLED"} /\ to \notin Cancellable \cup {"CANCELLED"}
BY DEF Transitions, Cancellable, Statuses

(* The second half of a request: the order moves on, is cancelled, or strays. *)
LEMMA WriteMoves ==
  ASSUME Inv, Inv', NEW c \in Clerks, Write(c)
  PROVE  [Lifecycle!Next]_(Lifecycle!vars)
<1> DEFINE o == request[c].order
           e == Row(c)
           s == status[o]
           b == basket[o]
           h == history[o]
           f == released'[o]
           i == Append(h, e)
<1>1. TypeOK /\ TypeOK'
  BY DEF Inv
<1>2. /\ o \in Orders /\ e \in Entries /\ s \in Statuses \ {"NONE"} /\ h \in Seq(Entries)
      /\ <<e.from, e.to>> \in Transitions /\ e.by \in {"cancel", "status"}
      /\ e.by = "cancel" => e.from \in Cancellable /\ e.to = "CANCELLED"
      /\ status'[o] = e.to /\ basket'[o] = b /\ history'[o] = i
      /\ \A p \in Orders \ {o} : /\ status'[p] = status[p] /\ basket'[p] = basket[p]
                                 /\ released'[p] = released[p] /\ history'[p] = history[p]
  <2>1. /\ o \in Orders /\ e \in Entries /\ s # "NONE"
        /\ e.by = IF request[c].gives THEN "cancel" ELSE "status"
        /\ <<e.from, e.to>> \in Transitions
        /\ e.by = "cancel" => e.from \in Cancellable /\ e.to = "CANCELLED"
        /\ status' = [status EXCEPT ![o] = e.to]
        /\ history' = [history EXCEPT ![o] = Append(@, e)]
        /\ UNCHANGED basket
        /\ released' = IF request[c].gives
                       THEN [released EXCEPT ![o] =
                               [m \in DOMAIN @ |-> @[m] + Releases(basket[o])[m]]]
                       ELSE released
    BY WriteShape
  <2> HIDE DEF e
  <2>2. /\ s \in Statuses \ {"NONE"} /\ h \in Seq(Entries) /\ status'[o] = e.to
        /\ basket'[o] = b /\ history'[o] = i
    BY <1>1, <2>1 DEF TypeOK
  <2>3. \A p \in Orders \ {o} : /\ status'[p] = status[p] /\ basket'[p] = basket[p]
                                 /\ released'[p] = released[p] /\ history'[p] = history[p]
    BY <1>1, <2>1 DEF TypeOK
  <2>4. QED BY <2>1, <2>2, <2>3
<1>3. /\ b \in Seq(Variants) /\ released[o] \in Seq(Nat) /\ Len(released[o]) = Len(b)
      /\ f \in Seq(Nat) /\ Len(f) = Len(b) /\ i \in Seq(Entries)
      /\ OrderInv(s, b, released[o], h) /\ OrderInv(e.to, b, f, i)
  <2>1. /\ b \in Seq(Variants) /\ released[o] \in Seq(Nat) /\ Len(released[o]) = Len(b)
        /\ OrderInv(s, b, released[o], h)
    BY <1>1, <1>2 DEF TypeOK, Inv
  <2>2. /\ basket'[o] \in Seq(Variants) /\ f \in Seq(Nat) /\ Len(f) = Len(basket'[o])
        /\ history'[o] \in Seq(Entries)
        /\ OrderInv(status'[o], basket'[o], f, history'[o])
    BY <1>1, <1>2 DEF TypeOK, Inv
  <2> HIDE DEF e, s, b, h, f, i
  <2>3. QED BY <1>2, <2>1, <2>2
<1>4. h # <<>> /\ GivenBack(i) = (e.by = "cancel") /\ e.to # "NONE" /\ e.to \in Statuses
  <2>1. h # <<>>
    BY <1>2, <1>3 DEF OrderInv, Tree
  <2>2. GivenBack(i) = (e.by = "cancel")
    BY <1>2, AppendShape DEF GivenBack
  <2>3. QED BY <1>2, <2>1, <2>2, NoWayBack, StageMoves
<1> HIDE DEF e, s, b, h, f, i
<1>5. /\ Stage' = [Stage EXCEPT ![o] = StageOf(e.to, b, i)]
      /\ Taken' = IF NothingTaken(e.to, f) THEN Taken \ {o} ELSE Taken \cup {o}
  BY <1>2, OneMoves DEF f
<1>6. Stage[o] = StageOf(s, b, h) /\ (o \in Taken <=> ~NothingTaken(s, released[o]))
  BY <1>2 DEF Stage, Taken, s, b, h
<1>7. CASE Forked(i) \/ (GivenBack(i) /\ Repeats(b))
  <2>1. StageOf(e.to, b, i) = "stray" /\ Stage[o] # "none"
    BY <1>2, <1>4, <1>6, <1>7, StageCases
  <2>2. Taken' \in {Taken \cup {o}, Taken \ {o}}
    BY <1>5
  <2>3. Lifecycle!Stray(o)
    BY <1>5, <2>1, <2>2 DEF Lifecycle!Stray, Stage, Taken
  <2>4. QED BY <1>2, <2>3 DEF Lifecycle!Next
<1>8. CASE ~Forked(i) /\ ~(GivenBack(i) /\ Repeats(b))
  <2>1. ~Forked(h) /\ e.from = s /\ ~GivenBack(h)
    BY <1>2, <1>3, <1>4, <1>8, PathGrows DEF OrderInv, i
  <2>2. o \in Taken
    BY <1>2, <1>3, <1>6, <2>1, GoodsByStage
  <2>3. CASE e.by = "cancel"
    <3>1. NothingTaken(e.to, f)
      BY <1>3, <1>4, <1>8, <2>3, GoodsByStage
    <3>2. Stage[o] = "open"
      BY <1>2, <1>6, <2>1, <2>3, StageCases
    <3>3. GivenBack(i) /\ e.to = "CANCELLED"
      BY <1>2, <1>4, <2>3
    <3>4. StageOf(e.to, b, i) = "cancelled"
      BY <1>4, <1>8, <3>3, StageCases
    <3>5. Lifecycle!Cancel(o)
      BY <1>5, <3>1, <3>2, <3>4 DEF Lifecycle!Cancel, Stage, Taken
    <3>6. QED BY <1>2, <3>5 DEF Lifecycle!Next
  <2>4. CASE e.by # "cancel"
    <3>1. ~NothingTaken(e.to, f) /\ ~GivenBack(i)
      BY <1>3, <1>4, <1>8, <2>4, GoodsByStage
    <3>2. Taken' = Taken
      BY <1>5, <2>2, <3>1
    <3>3. CASE StageOf(e.to, b, i) = Stage[o]
      <4>1. Stage' = Stage
        BY <1>5, <3>3 DEF Stage
      <4>2. QED BY <3>2, <4>1 DEF Lifecycle!vars, Stage, Taken
    <3>4. CASE Stage[o] = "open" /\ StageOf(e.to, b, i) \in {"gone", "dropped"}
      <4>1. Lifecycle!Close(o, StageOf(e.to, b, i))
        BY <1>5, <3>2, <3>4 DEF Lifecycle!Close, Stage, Taken
      <4>2. QED BY <1>2, <3>4, <4>1 DEF Lifecycle!Next
    <3>5. \/ StageOf(e.to, b, i) = Stage[o]
          \/ Stage[o] = "open" /\ StageOf(e.to, b, i) \in {"gone", "dropped"}
      <4>1. s \in Cancellable => Stage[o] = "open"
        BY <1>2, <1>6, <2>1, StageCases
      <4>2. s \notin Cancellable \cup {"CANCELLED"} => Stage[o] = "gone"
        BY <1>2, <1>6, <2>1, StageCases
      <4>3. /\ e.to \in Cancellable => StageOf(e.to, b, i) = "open"
            /\ e.to = "CANCELLED" => StageOf(e.to, b, i) = "dropped"
            /\ e.to \notin Cancellable \cup {"CANCELLED"} => StageOf(e.to, b, i) = "gone"
        BY <1>4, <1>8, <3>1, StageCases
      <4>4. QED BY <1>2, <2>1, <4>1, <4>2, <4>3, StageMoves
    <3>6. QED BY <3>3, <3>4, <3>5
  <2>5. QED BY <2>3, <2>4
<1>9. QED BY <1>7, <1>8

LEMMA LifecycleStep ==
  ASSUME Inv, Inv', [Next]_vars
  PROVE  [Lifecycle!Next]_(Lifecycle!vars)
<1>1. ASSUME NEW o \in Orders, NEW b \in Baskets, Create(o, b) PROVE Lifecycle!Next
  <2> DEFINE h == <<Entry("NONE", "PENDING", "create")>>
  <2>1. h \in Seq(Entries) /\ ~Forked(h) /\ ~GivenBack(h)
    BY DEF Entry, Entries, Statuses, Forked, GivenBack
  <2>2. /\ status' = [status EXCEPT ![o] = "PENDING"] /\ history' = [history EXCEPT ![o] = h]
        /\ Insert(o, b)
    BY <1>1 DEF Create
  <2> HIDE DEF h
  <2>3. QED BY <2>1, <2>2, PlacesAnOrder
<1>2. ASSUME NEW o \in Orders, NEW b \in Baskets, CounterSale(o, b) PROVE Lifecycle!Next
  <2> DEFINE h == <<Entry("NONE", "PENDING", "create"), Entry("PENDING", "DELIVERED", "sale")>>
  <2>1. /\ h \in Seq(Entries) /\ Len(h) = 2
        /\ h[1].to = "PENDING" /\ h[2].from = "PENDING" /\ h[2].by = "sale"
    BY DEF Entry, Entries, Statuses
  <2>2. /\ status' = [status EXCEPT ![o] = "DELIVERED"] /\ history' = [history EXCEPT ![o] = h]
        /\ Insert(o, b)
    BY <1>2 DEF CounterSale
  <2> HIDE DEF h
  <2>3. \A i \in 2..2 : i = 2 /\ i - 1 = 1
    OBVIOUS
  <2>4. ~Forked(h) /\ ~GivenBack(h)
    BY <2>1, <2>3 DEF Forked, GivenBack
  <2>5. QED BY <2>1, <2>2, <2>4, PlacesAnOrder
<1>3. ASSUME NEW c \in Clerks, Write(c) PROVE [Lifecycle!Next]_(Lifecycle!vars)
  BY <1>3, WriteMoves
<1>4. ASSUME UNCHANGED <<status, basket, released, history>> PROVE UNCHANGED Lifecycle!vars
  BY <1>4 DEF Lifecycle!vars
<1>5. ASSUME NEW c \in Clerks, NEW o \in Orders, NEW to \in Targets, UpdateStatus(c, o, to)
      PROVE  UNCHANGED <<status, basket, released, history>>
  BY <1>5 DEF UpdateStatus, Accept
<1>6. ASSUME NEW c \in Clerks, NEW o \in Orders, Cancel(c, o)
      PROVE  UNCHANGED <<status, basket, released, history>>
  BY <1>6 DEF Cancel, Accept
<1>7. ASSUME NEW c \in Clerks, Die(c) PROVE UNCHANGED <<status, basket, released, history>>
  BY <1>7 DEF Die
<1>8. UNCHANGED vars => UNCHANGED <<status, basket, released, history>>
  BY DEF vars
<1>9. QED BY <1>1, <1>2, <1>3, <1>4, <1>5, <1>6, <1>7, <1>8 DEF Next

(* Whoever works on an order at once and whatever is asked for: as long as its     *)
(* history reads as one path it ships, is cancelled or is dropped, one of the three *)
(* and never undone, and a cancel that met no variant on two of its lines gave each *)
(* line back exactly once.                                                         *)
THEOREM OrdersKeepPromise == Spec => ImplementsLifecycle
<1>1. Init => Lifecycle!Init
  <2> SUFFICES ASSUME Init PROVE Lifecycle!Init
    OBVIOUS
  <2>1. \A o \in Orders : status[o] = "NONE" /\ NothingTaken(status[o], released[o])
    BY DEF Init, NothingTaken
  <2>2. \A o \in Orders : StageOf(status[o], basket[o], history[o]) = "none"
    BY <2>1, StageCases DEF Statuses
  <2>3. QED BY <2>1, <2>2 DEF Lifecycle!Init
<1>2. Inv /\ Inv' /\ [Next]_vars => [Lifecycle!Next]_(Lifecycle!vars)
  BY LifecycleStep
<1>3. QED BY <1>1, <1>2, Invariant, PTL DEF Spec, ImplementsLifecycle, Lifecycle!Spec

=============================================================================
