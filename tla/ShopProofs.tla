------------------------------ MODULE ShopProofs ------------------------------
(***************************************************************************)
(* The shop and the business behind it, for any number of requests, rows   *)
(* and values: each part of MCShop has an inductive invariant, which every *)
(* step of the part keeps and the steps of the others leave alone.         *)
(***************************************************************************)
EXTENDS MCShop, FiniteSetTheorems, TLAPS

-----------------------------------------------------------------------------
(* The counter (Counter). *)

(* What was checked was received. *)
SeenIsCaptured ==
    \A c \in Cashier : cashier[c] # Idle =>
        \A n \in DOMAIN cashier[c].bill : n <= cashier[c].seen => cashier[c].bill[n] \in captured

CounterInv == CounterTypeOK /\ SeenIsCaptured /\ UpiPaidOnce /\ OneWalkIn

(* Nothing is paid, and nobody rings. *)
LEMMA CounterInitInv == CounterInit => CounterInv
<1> SUFFICES ASSUME CounterInit PROVE CounterInv
  OBVIOUS
<1>1. CounterTypeOK
  BY DEF CounterInit, CounterTypeOK
<1> QED BY <1>1 DEF CounterInit, CounterInv, SeenIsCaptured, UpiPaidOnce, OneWalkIn, LiveWalkIns

(* A bill names at most two payments. *)
LEMMA BillNames ==
    ASSUME NEW b \in Bills
    PROVE  \E k \in 0..2 : DOMAIN b = 1..k /\ \A n \in 1..k : b[n] \in Upi
  BY DEF Bills

(* A cashier whose sale goes on, ends or fails. *)
LEMMA CashierMoves ==
    ASSUME CounterInv, NEW c \in Cashier, NEW rung \in Rung \cup {Idle},
           cashier' = [cashier EXCEPT ![c] = rung],
           rung # Idle => \A n \in DOMAIN rung.bill : n <= rung.seen => rung.bill[n] \in captured,
           UNCHANGED <<captured, held>>,
           spent' \in [Upi -> 0..2], UpiPaidOnce',
           walkIn' \in [WalkIn -> {"none", "live", "deleted"}], OneWalkIn'
    PROVE  CounterInv'
<1>1. CounterTypeOK'
  BY DEF CounterInv, CounterTypeOK
<1>2. SeenIsCaptured'
  BY DEF CounterInv, CounterTypeOK, SeenIsCaptured
<1> QED BY <1>1, <1>2 DEF CounterInv

(* A sale that goes on with its bill and what it has checked. *)
LEMMA StepMoves ==
    ASSUME CounterInv, NEW c \in Cashier, cashier[c] # Idle,
           NEW step \in {"walkin", "create", "again", "verify"},
           cashier' = [cashier EXCEPT ![c].step = step], UNCHANGED <<captured, spent, held>>,
           walkIn' \in [WalkIn -> {"none", "live", "deleted"}], OneWalkIn'
    PROVE  CounterInv'
<1>1. cashier[c] \in Rung
  BY DEF CounterInv, CounterTypeOK
<1>2. PICK rung \in Rung : rung = [cashier[c] EXCEPT !.step = step]
  BY <1>1 DEF Rung
<1>3. cashier' = [cashier EXCEPT ![c] = rung]
  BY <1>2
<1>4. rung.bill = cashier[c].bill /\ rung.seen = cashier[c].seen
  BY <1>1, <1>2 DEF Rung
<1>5. UpiPaidOnce' /\ spent' \in [Upi -> 0..2]
  BY DEF CounterInv, CounterTypeOK, UpiPaidOnce
<1> QED BY <1>1, <1>3, <1>4, <1>5, CashierMoves DEF CounterInv, SeenIsCaptured

(* Every step of a sale keeps the invariant of the counter. *)
LEMMA CounterNextInv == ASSUME CounterInv, [CounterNext]_counterVars PROVE CounterInv'
<1>1. ASSUME NEW c \in Cashier, NEW bill \in Bills, StartSale(c, bill) PROVE CounterInv'
  <2>1. PICK step \in {"walkin", "verify"} :
            cashier' = [cashier EXCEPT ![c] = [step |-> step, bill |-> bill, seen |-> 0]]
    BY <1>1 DEF StartSale
  <2>2. PICK rung \in Rung : rung = [step |-> step, bill |-> bill, seen |-> 0]
    <3>1. [step |-> step, bill |-> bill, seen |-> 0] \in Rung
      BY DEF Rung
    <3> QED BY <3>1
  <2>3. \A n \in DOMAIN rung.bill : ~(n <= rung.seen)
    BY <2>2, BillNames
  <2> QED BY <1>1, <2>1, <2>2, <2>3, CashierMoves
        DEF StartSale, CounterInv, CounterTypeOK, UpiPaidOnce, OneWalkIn, LiveWalkIns
<1>2. ASSUME UNCHANGED walkIn
      PROVE  walkIn' \in [WalkIn -> {"none", "live", "deleted"}] /\ OneWalkIn'
  BY <1>2 DEF CounterInv, CounterTypeOK, OneWalkIn, LiveWalkIns
<1>3. ASSUME NEW c \in Cashier, FindWalkIn(c) \/ CreateWalkInTwice(c) \/ FindWalkInAgain(c) PROVE CounterInv'
  <2>1. UNCHANGED <<walkIn, captured, spent, held>> /\ cashier[c] # Idle
    BY <1>3 DEF FindWalkIn, CreateWalkInTwice, FindWalkInAgain, Rings, GoOn
  <2>2. PICK step \in {"walkin", "create", "again", "verify"} : cashier' = [cashier EXCEPT ![c].step = step]
    BY <1>3 DEF FindWalkIn, CreateWalkInTwice, FindWalkInAgain, GoOn
  <2> QED BY <1>2, <2>1, <2>2, StepMoves
<1>4. ASSUME NEW c \in Cashier, CreateWalkIn(c) PROVE CounterInv'
  <2>1. PICK w \in WalkIn : walkIn' = [walkIn EXCEPT ![w] = "live"]
    BY <1>4 DEF CreateWalkIn, AddWalkIn
  <2>2. walkIn' \in [WalkIn -> {"none", "live", "deleted"}]
    BY <2>1 DEF CounterInv, CounterTypeOK
  <2>3. LiveWalkIns' = {w}
    BY <1>4, <2>1 DEF CreateWalkIn, LiveWalkIns, CounterInv, CounterTypeOK
  <2>4. OneWalkIn'
    BY <2>3 DEF OneWalkIn
  <2> QED BY <1>4, <2>2, <2>4, StepMoves DEF CreateWalkIn, AddWalkIn, GoOn, Rings
<1>5. ASSUME NEW c \in Cashier, VerifyRazorpayUpi(c) PROVE CounterInv'
  <2>1. cashier[c] \in Rung
    BY <1>5 DEF CounterInv, CounterTypeOK, VerifyRazorpayUpi, Rings
  <2>2. PICK k \in 0..2 : DOMAIN cashier[c].bill = 1..k
    BY <2>1, BillNames DEF Rung
  <2>3. PICK n \in 0..2 : n = cashier[c].seen + 1
    BY <1>5, <2>1, <2>2 DEF VerifyRazorpayUpi, Rung
  <2>4. PICK rung \in Rung : rung = [cashier[c] EXCEPT !.seen = n]
    BY <2>1 DEF Rung
  <2>5. cashier' = [cashier EXCEPT ![c] = rung] /\ rung.bill = cashier[c].bill /\ rung.seen = cashier[c].seen + 1
    BY <1>5, <2>1, <2>3, <2>4 DEF VerifyRazorpayUpi, Rung
  <2>6. \A m \in DOMAIN rung.bill : m <= rung.seen => rung.bill[m] \in captured
    BY <1>5, <2>1, <2>2, <2>5 DEF VerifyRazorpayUpi, CounterInv, SeenIsCaptured, Rings, Rung
  <2> QED BY <1>2, <1>5, <2>5, <2>6, CashierMoves DEF VerifyRazorpayUpi, CounterInv, CounterTypeOK, UpiPaidOnce
<1>6. ASSUME NEW c \in Cashier, CommitSale(c) PROVE CounterInv'
  <2>1. cashier[c] \in Rung
    BY <1>6 DEF CounterInv, CounterTypeOK, CommitSale, Rings
  <2>2. \A n \in DOMAIN cashier[c].bill : cashier[c].bill[n] \in captured
    BY <1>6 DEF CommitSale, CounterInv, SeenIsCaptured, Rings
  <2>3. spent' \in [Upi -> 0..2]
    BY <1>6 DEF CommitSale, CounterInv, CounterTypeOK
  <2>4. ASSUME NEW u \in Upi
        PROVE  spent'[u] <= 1 /\ (spent'[u] > 0 => u \in captured')
    <3>1. CASE \E n \in DOMAIN cashier[c].bill : cashier[c].bill[n] = u
      <4>1. spent[u] = 0 /\ IsInjective(cashier[c].bill)
        BY <1>6, <3>1 DEF CommitSale, IndexAllows
      <4>2. spent'[u] = 1
        BY <1>6, <3>1, <4>1 DEF CommitSale
      <4> QED BY <1>6, <2>2, <3>1, <4>2 DEF CommitSale
    <3>2. CASE ~ \E n \in DOMAIN cashier[c].bill : cashier[c].bill[n] = u
      BY <1>6, <3>2 DEF CommitSale, CounterInv, UpiPaidOnce
    <3> QED BY <3>1, <3>2
  <2>5. UpiPaidOnce'
    BY <2>4 DEF UpiPaidOnce
  <2> QED BY <1>2, <1>6, <2>3, <2>5, CashierMoves DEF CommitSale
<1>7. ASSUME NEW c \in Cashier, RefuseSale(c) PROVE CounterInv'
  BY <1>2, <1>7, CashierMoves DEF RefuseSale, CounterInv, CounterTypeOK, UpiPaidOnce
<1>8. ASSUME NEW u \in Upi, PayQr(u) PROVE CounterInv'
  BY <1>8 DEF PayQr, CounterInv, CounterTypeOK, SeenIsCaptured, UpiPaidOnce, OneWalkIn, LiveWalkIns
<1>9. ASSUME NEW w \in WalkIn, DeleteWalkIn(w) PROVE CounterInv'
  <2>1. CounterTypeOK'
    BY <1>9 DEF DeleteWalkIn, CounterInv, CounterTypeOK
  <2>2. LiveWalkIns' \subseteq LiveWalkIns
    BY <1>9 DEF DeleteWalkIn, LiveWalkIns, CounterInv, CounterTypeOK
  <2> QED BY <1>9, <2>1, <2>2 DEF DeleteWalkIn, CounterInv, SeenIsCaptured, UpiPaidOnce, OneWalkIn
<1>10. ASSUME NEW h \in HeldSale, Hold(h) \/ RemoveHeld(h) PROVE CounterInv'
  BY <1>10 DEF Hold, RemoveHeld, CounterInv, CounterTypeOK, SeenIsCaptured, UpiPaidOnce, OneWalkIn, LiveWalkIns
<1>11. CASE UNCHANGED counterVars
  BY <1>11 DEF counterVars, CounterInv, CounterTypeOK, SeenIsCaptured, UpiPaidOnce, OneWalkIn, LiveWalkIns
<1> QED BY <1>1, <1>3, <1>4, <1>5, <1>6, <1>7, <1>8, <1>9, <1>10, <1>11 DEF CounterNext

-----------------------------------------------------------------------------
(* GST of an invoice (Invoices). *)

(* A hundred percent *)
AllOfIt == 10000

(* A line that was worked out. *)
Taxed == [gross : Nat, rate : 0..AllOfIt, given : BOOLEAN, taxable : Nat, tax : Nat, lineTotal : Nat]

(* f holds the sums over the first lines of q. *)
Sums(f, q) == f = [n \in 0..Len(q) |-> IF n = 0 THEN 0 ELSE f[n - 1] + q[n].lineTotal]
SumIs(q, s) == (\E f : Sums(f, q)) /\ \A f : Sums(f, q) => f[Len(q)] = s

ToHalfAPaisa(t) == LET off == 10000 * t.tax - t.gross * t.rate IN -5000 <= off /\ off <= 5000
RightlyTaxed(t) ==
    ~t.given =>
        /\ sale.inclusive => t.lineTotal = t.gross /\ t.tax - GstCents(t.taxable, t.rate) \in {-1, 0, 1}
        /\ ~sale.inclusive => ToHalfAPaisa(t)

Totals ==
    /\ total.cgst + total.sgst + total.igst = total.tax
    /\ sale.intra => total.igst = 0 /\ total.sgst - total.cgst \in 0..Len(line)
    /\ ~sale.intra => total.igst = total.tax

GstInv ==
    /\ sale \in [inclusive : BOOLEAN, intra : BOOLEAN, charges : BOOLEAN]
    /\ line \in Seq(Taxed) /\ Len(line) <= MaxLine
    /\ total \in [subtotal : Nat, discount : Nat, tax : Nat, cgst : Nat, sgst : Nat, igst : Nat]
    /\ total.discount <= total.subtotal
    /\ SumIs(line, OrderTotal)
    /\ Totals
    /\ \A n \in DOMAIN line : RightlyTaxed(line[n])

(* Products of natural numbers. *)
LEMMA Products ==
    ASSUME NEW a \in Nat, NEW b \in Nat, NEW c \in Nat
    PROVE  /\ a * b \in Nat /\ a * b = b * a
           /\ (a + b) * c = a * c + b * c
           /\ a <= b => a * c <= b * c
           /\ a < b => a * c + c <= b * c
<1>1. a * b \in Nat /\ a * b = b * a
  OBVIOUS
<1>2. (a + b) * c = a * c + b * c
  OBVIOUS
<1>3. a <= b => a * c <= b * c
  OBVIOUS
<1>4. a < b => (a + 1) * c <= b * c
  OBVIOUS
<1>5. (a + 1) * c = a * c + c
  OBVIOUS
<1> QED BY <1>1, <1>2, <1>3, <1>4, <1>5

(* What is left of a division, as the gst helpers round it: *)
LEMMA Quotient ==
    ASSUME NEW a \in Nat, NEW b \in Nat \ {0}
    PROVE  a \div b \in Nat /\ b * (a \div b) <= a /\ a < b * (a \div b) + b
  OBVIOUS

(* to the nearest whole number, *)
LEMMA Nearest ==
    ASSUME NEW a \in Nat, NEW b \in Nat \ {0}
    PROVE  /\ RoundHalfUp(a, b) \in Nat
           /\ 2 * (b * RoundHalfUp(a, b)) <= 2 * a + b
           /\ 2 * a + b < 2 * (b * RoundHalfUp(a, b)) + 2 * b
<1>1. 2 * a + b \in Nat /\ 2 * b \in Nat \ {0}
  OBVIOUS
<1>2. PICK n \in Nat : n = RoundHalfUp(a, b) /\ (2 * b) * n <= 2 * a + b /\ 2 * a + b < (2 * b) * n + 2 * b
  BY <1>1, Quotient DEF RoundHalfUp
<1>3. (2 * b) * n = 2 * (b * n)
  BY <1>2
<1> QED BY <1>2, <1>3

(* and halves go up. *)
LEMMA Halves ==
    ASSUME NEW t \in Nat
    PROVE  t \div 2 \in Nat /\ t - t \div 2 \in Nat /\ (t - t \div 2) - t \div 2 \in 0..1
<1>1. t \div 2 \in Nat /\ 2 * (t \div 2) <= t /\ t < 2 * (t \div 2) + 2
  BY Quotient
<1> QED BY <1>1

(* Of m: r on top of g is u to within a half. *)
LEMMA OnTop ==
    ASSUME NEW a \in Nat, NEW m \in Nat \ {0}, NEW u, u = RoundHalfUp(a, m)
    PROVE  u \in Nat /\ -m <= 2 * (m * u) - 2 * a /\ 2 * (m * u) - 2 * a <= m
<1>1. u \in Nat /\ 2 * (m * u) <= 2 * a + m /\ 2 * a + m < 2 * (m * u) + 2 * m
  BY Nearest, Zenon
<1>2. m * u \in Nat
  BY <1>1, Products
<1>3. PICK mu \in Nat : mu = m * u
  BY <1>2, Zenon
<1>4. 2 * mu <= 2 * a + m /\ 2 * a + m < 2 * mu + 2 * m
  BY <1>1, <1>3, Zenon
<1>5. -m <= 2 * mu - 2 * a /\ 2 * mu - 2 * a <= m
  BY <1>4
<1> QED BY <1>1, <1>3, <1>5, Zenon

(* And t of it is inside. *)
LEMMA Inside ==
    ASSUME NEW g \in Nat, NEW m \in Nat \ {0}, NEW r \in Nat, r <= m, NEW t, t = RoundHalfUp(g * r, m + r)
    PROVE  t \in Nat /\ g - t \in Nat /\ t - RoundHalfUp((g - t) * r, m) \in {-1, 0, 1}
<1>1. PICK a \in Nat : a = g * r
  BY Products
<1>2. m + r \in Nat \ {0}
  OBVIOUS
<1>3. PICK b \in Nat \ {0} : b = m + r
  BY <1>2, Zenon
<1>4. t = RoundHalfUp(a, b)
  BY <1>1, <1>3, Zenon
<1>5. t \in Nat /\ 2 * (b * t) <= 2 * a + b /\ 2 * a + b < 2 * (b * t) + 2 * b
  BY <1>4, Nearest, Zenon
<1>6. m * t \in Nat /\ r * t \in Nat /\ b * t = m * t + r * t
  BY <1>3, <1>5, Products
<1>7. PICK mt \in Nat : mt = m * t
  BY <1>6, Zenon
<1>8. PICK rt \in Nat : rt = r * t
  BY <1>6, Zenon
<1>9. 2 * (mt + rt) <= 2 * a + b /\ 2 * a + b < 2 * (mt + rt) + 2 * b
  BY <1>5, <1>6, <1>7, <1>8, Zenon
<1>10. t <= g
  <2> SUFFICES ASSUME g < t PROVE FALSE
    BY <1>5
  <2>1. g * r + r <= t * r /\ t * r = r * t /\ g * m + m <= t * m /\ t * m = m * t /\ g * m \in Nat
    BY <1>5, Products
  <2>2. PICK gm \in Nat : gm = g * m
    BY <2>1, Zenon
  <2>3. a + r <= rt /\ gm + m <= mt
    BY <1>1, <1>7, <1>8, <2>1, <2>2, Zenon
  <2> QED BY <1>3, <1>9, <2>3
<1>11. g - t \in Nat /\ g = (g - t) + t
  BY <1>5, <1>10
<1>12. PICK x \in Nat : x = g - t
  BY <1>11, Zenon
<1>13. g = x + t
  BY <1>11, <1>12, Zenon
<1>14. (x + t) * r = x * r + t * r /\ t * r = r * t /\ x * r \in Nat
  BY <1>5, Products
<1>15. PICK xr \in Nat : xr = x * r
  BY <1>14, Zenon
<1>16. a = xr + rt
  BY <1>1, <1>8, <1>13, <1>14, <1>15, Zenon
<1>17. PICK u : u = RoundHalfUp(xr, m)
  OBVIOUS
<1>18. u \in Nat /\ -m <= 2 * (m * u) - 2 * xr /\ 2 * (m * u) - 2 * xr <= m
  BY <1>17, OnTop, Zenon
<1>19. PICK mu \in Nat : mu = m * u
  BY <1>18, Products
<1>20. -m <= 2 * mu - 2 * xr /\ 2 * mu - 2 * xr <= m
  BY <1>18, <1>19, Zenon
<1>21. mu < mt + 2 * m /\ mt < mu + 2 * m
  BY <1>3, <1>9, <1>16, <1>20
<1>22. u <= t + 1
  <2> SUFFICES ASSUME t + 2 <= u PROVE FALSE
    BY <1>5, <1>18
  <2>1. (t + 2) * m <= u * m /\ (t + 2) * m = t * m + 2 * m /\ u * m = m * u /\ t * m = m * t
    BY <1>5, <1>18, Products
  <2>2. mt + 2 * m <= mu
    BY <1>7, <1>19, <2>1, Zenon
  <2> QED BY <1>21, <2>2
<1>23. t <= u + 1
  <2> SUFFICES ASSUME u + 2 <= t PROVE FALSE
    BY <1>5, <1>18
  <2>1. (u + 2) * m <= t * m /\ (u + 2) * m = u * m + 2 * m /\ u * m = m * u /\ t * m = m * t
    BY <1>5, <1>18, Products
  <2>2. mu + 2 * m <= mt
    BY <1>7, <1>19, <2>1, Zenon
  <2> QED BY <1>21, <2>2
<1>24. t - u \in {-1, 0, 1}
  <2>1. t \in Nat /\ u \in Nat
    BY <1>5, <1>18, Zenon
  <2> QED BY <1>22, <1>23, <2>1
<1>25. t - RoundHalfUp((g - t) * r, m) \in {-1, 0, 1}
  BY <1>12, <1>15, <1>17, <1>24, Zenon
<1> QED BY <1>5, <1>11, <1>25

(* Tax on top of an amount is exact to half a paisa; tax taken out of it leaves what it is the tax of, to one paisa. *)
LEMMA Taxes ==
    ASSUME NEW g \in Nat, NEW r \in Nat, r <= AllOfIt
    PROVE  /\ GstCents(g, r) \in Nat
           /\ -5000 <= 10000 * GstCents(g, r) - g * r /\ 10000 * GstCents(g, r) - g * r <= 5000
           /\ IncludedGstCents(g, r) \in Nat /\ g - IncludedGstCents(g, r) \in Nat
           /\ IncludedGstCents(g, r) - GstCents(g - IncludedGstCents(g, r), r) \in {-1, 0, 1}
<1>1. AllOfIt \in Nat \ {0}
  BY DEF AllOfIt
<1>2. PICK a \in Nat : a = g * r
  BY Products
<1>3. PICK u : u = RoundHalfUp(a, AllOfIt)
  OBVIOUS
<1>4. u \in Nat /\ -AllOfIt <= 2 * (AllOfIt * u) - 2 * a /\ 2 * (AllOfIt * u) - 2 * a <= AllOfIt
  BY <1>1, <1>3, OnTop, Zenon
<1>5. u \in Nat /\ -5000 <= 10000 * u - a /\ 10000 * u - a <= 5000
  BY <1>4 DEF AllOfIt
<1>6. PICK t : t = RoundHalfUp(g * r, AllOfIt + r)
  OBVIOUS
<1>7. t \in Nat /\ g - t \in Nat /\ t - RoundHalfUp((g - t) * r, AllOfIt) \in {-1, 0, 1}
  BY <1>1, <1>6, Inside, Zenon
<1>8. u = GstCents(g, r) /\ t = IncludedGstCents(g, r)
  BY <1>2, <1>3, <1>6 DEF GstCents, IncludedGstCents, AllOfIt
<1>9. t - GstCents(g - t, r) \in {-1, 0, 1}
  BY <1>7 DEF GstCents, AllOfIt
<1> QED BY <1>2, <1>5, <1>7, <1>8, <1>9

(* A sum over one line more. *)
LEMMA NextSum ==
    ASSUME NEW q \in Seq(Taxed), NEW t \in Taxed, NEW s \in Nat, SumIs(q, s)
    PROVE  SumIs(Append(q, t), s + t.lineTotal)
<1> DEFINE k == Len(q)
           p == Append(q, t)
<1>1. k \in Nat /\ Len(p) = k + 1 /\ p[k + 1] = t /\ \A n \in 1..k : p[n] = q[n]
  OBVIOUS
<1>2. PICK f : Sums(f, q)
  BY DEF SumIs
<1>3. \E h : Sums(h, p)
  <2> DEFINE h == [n \in 0..k + 1 |-> IF n = k + 1 THEN f[k] + t.lineTotal ELSE f[n]]
  <2>1. \A n \in 0..k : f[n] = IF n = 0 THEN 0 ELSE f[n - 1] + q[n].lineTotal
    BY <1>2 DEF Sums
  <2> HIDE DEF p
  <2>2. h = [n \in 0..k + 1 |-> IF n = 0 THEN 0 ELSE h[n - 1] + p[n].lineTotal]
    <3> SUFFICES ASSUME NEW n \in 0..k + 1
                 PROVE  h[n] = IF n = 0 THEN 0 ELSE h[n - 1] + p[n].lineTotal
      OBVIOUS
    <3>1. CASE n = 0
      BY <1>1, <2>1, <3>1
    <3>2. CASE n \in 1..k
      BY <1>1, <2>1, <3>2
    <3>3. CASE n = k + 1
      BY <1>1, <3>3
    <3> QED BY <1>1, <3>1, <3>2, <3>3
  <2> QED BY <1>1, <2>2 DEF Sums
<1>4. ASSUME NEW h, Sums(h, p) PROVE h[k + 1] = s + t.lineTotal
  <2> DEFINE e == [n \in 0..k |-> h[n]]
  <2> HIDE DEF p
  <2>1. \A n \in 0..k + 1 : h[n] = IF n = 0 THEN 0 ELSE h[n - 1] + p[n].lineTotal
    BY <1>1, <1>4 DEF Sums
  <2>2. e = [n \in 0..k |-> IF n = 0 THEN 0 ELSE e[n - 1] + q[n].lineTotal]
    <3> SUFFICES ASSUME NEW n \in 0..k PROVE e[n] = IF n = 0 THEN 0 ELSE e[n - 1] + q[n].lineTotal
      OBVIOUS
    <3> QED BY <1>1, <2>1
  <2>3. e[k] = s
    BY <2>2 DEF SumIs, Sums
  <2> QED BY <1>1, <2>1, <2>3
<1> QED BY <1>1, <1>3, <1>4 DEF SumIs

(* So an amount is what its lines add up to. *)
LEMMA SumFound ==
    ASSUME NEW s, SumIs(line, s)
    PROVE  SumOfLines = s
  BY DEF SumOfLines, SumIs, Sums

(* No lines. *)
LEMMA GstInitInv == GstInit => GstInv
<1> SUFFICES ASSUME GstInit PROVE GstInv
  OBVIOUS
<1>1. Len(line) = 0 /\ line \in Seq(Taxed) /\ Len(line) <= MaxLine
  BY AmountsAssumption DEF GstInit
<1>2. OrderTotal = 0
  BY DEF GstInit, OrderTotal
<1>3. SumIs(line, 0)
  <2> DEFINE f == [n \in 0..0 |-> 0]
  <2>1. Sums(f, line)
    BY <1>1 DEF Sums
  <2>2. ASSUME NEW h, Sums(h, line) PROVE h[0] = 0
    BY <1>1, <2>2 DEF Sums
  <2> QED BY <1>1, <2>1, <2>2 DEF SumIs
<1>4. total \in [subtotal : Nat, discount : Nat, tax : Nat, cgst : Nat, sgst : Nat, igst : Nat] /\ total.discount <= total.subtotal
  BY DEF GstInit
<1>5. Totals
  BY <1>1 DEF GstInit, Totals
<1> QED BY <1>1, <1>2, <1>3, <1>4, <1>5 DEF GstInit, GstInv

(* A line whose tax was given with it. *)
LEMMA ExplicitTax == \A x \in Explicit : x \in Nat
  BY AmountsAssumption

(* What is worked out for a line is right, *)
LEMMA LineIsTaxed ==
    ASSUME sale \in [inclusive : BOOLEAN, intra : BOOLEAN, charges : BOOLEAN],
           NEW g \in Nat, NEW r \in 0..AllOfIt, NEW e \in Explicit \cup {NoTax}, NEW given \in BOOLEAN, given = (e # NoTax),
           NEW t, t = LineTax(g, r, e), NEW new,
           new = [gross |-> g, rate |-> r, given |-> given, taxable |-> t.taxable, tax |-> t.tax,
                  lineTotal |-> t.taxable + t.tax]
    PROVE  new \in Taxed /\ RightlyTaxed(new) /\ t.taxable \in Nat /\ t.tax \in Nat
<1>1. r \in Nat /\ r <= AllOfIt
  BY DEF AllOfIt
<1>2. ASSUME t.taxable \in Nat, t.tax \in Nat PROVE new \in Taxed
  BY <1>2 DEF Taxed
<1>3. CASE e # NoTax
  <2>1. e \in Nat
    BY <1>3, ExplicitTax, Zenon
  <2>2. t = [taxable |-> g, tax |-> e]
    BY <1>3 DEF LineTax
  <2>3. t.taxable = g /\ t.tax = e
    BY <2>2
  <2> QED BY <1>2, <1>3, <2>1, <2>3 DEF RightlyTaxed
<1>4. CASE e = NoTax /\ sale.inclusive
  <2>1. PICK i \in Nat : i = IncludedGstCents(g, r) /\ g - i \in Nat /\ i - GstCents(g - i, r) \in {-1, 0, 1}
    BY <1>1, Taxes
  <2>2. t.taxable = g - i /\ t.tax = i
    BY <1>4, <2>1 DEF LineTax
  <2>3. (g - i) + i = g
    BY <2>1
  <2> QED BY <1>2, <1>4, <2>1, <2>2, <2>3 DEF RightlyTaxed
<1>5. CASE e = NoTax /\ ~sale.inclusive
  <2>1. PICK i \in Nat : i = GstCents(g, r) /\ -5000 <= 10000 * i - g * r /\ 10000 * i - g * r <= 5000
    BY <1>1, Taxes
  <2>2. t.taxable = g /\ t.tax = i
    BY <1>5, <2>1 DEF LineTax
  <2>3. ToHalfAPaisa(new)
    BY <2>1, <2>2 DEF ToHalfAPaisa
  <2> QED BY <1>2, <1>5, <2>1, <2>2, <2>3 DEF RightlyTaxed
<1> QED BY <1>3, <1>4, <1>5

(* it is split into its parts, *)
Parted(tax, split) ==
    /\ split.cgst \in Nat /\ split.sgst \in Nat /\ split.igst \in Nat
    /\ split.cgst + split.sgst + split.igst = tax
    /\ sale.intra => split.igst = 0 /\ split.sgst - split.cgst \in 0..1
    /\ ~sale.intra => split.igst = tax

(* Half of the tax, and the rest. *)
LEMMA TaxIsParted == ASSUME NEW tax \in Nat, NEW split, split = SplitTax(tax) PROVE Parted(tax, split)
<1>1. tax \div 2 \in Nat /\ tax - tax \div 2 \in Nat /\ (tax - tax \div 2) - tax \div 2 \in 0..1
  BY Halves
<1>2. PICK h \in Nat : h = tax \div 2
  BY <1>1
<1>3. tax - h \in Nat /\ (tax - h) - h \in 0..1
  BY <1>1, <1>2
<1>4. split = IF sale.intra THEN [cgst |-> h, sgst |-> tax - h, igst |-> 0] ELSE [cgst |-> 0, sgst |-> 0, igst |-> tax]
  BY <1>2 DEF SplitTax
<1> QED BY <1>3, <1>4 DEF Parted

(* An invoice with one line more, *)
LEMMA OneMoreLine ==
    ASSUME NEW q \in Seq(Taxed), NEW t \in Taxed
    PROVE  /\ Len(q) \in Nat /\ Append(q, t) \in Seq(Taxed) /\ Len(Append(q, t)) = Len(q) + 1
           /\ \A n \in DOMAIN Append(q, t) : (n \in DOMAIN q /\ Append(q, t)[n] = q[n]) \/ Append(q, t)[n] = t
  OBVIOUS

(* and is added to the totals. *)
AddedUp(new, split, d) ==
    total' = [subtotal |-> total.subtotal + new.taxable + d, discount |-> total.discount + d,
              tax |-> total.tax + new.tax, cgst |-> total.cgst + split.cgst, sgst |-> total.sgst + split.sgst,
              igst |-> total.igst + split.igst]

(* its taxes, *)
LEMMA PartsOfTax ==
    ASSUME NEW x \in Nat, NEW y \in Nat, NEW z \in Nat, NEW u \in Nat, NEW v \in Nat, NEW w \in Nat
    PROVE  /\ x + u \in Nat /\ y + v \in Nat /\ z + w \in Nat
           /\ (x + u) + (y + v) + (z + w) = (x + y + z) + (u + v + w)
           /\ \A k \in Nat : y - x \in 0..k /\ v - u \in 0..1 => (y + v) - (x + u) \in 0..(k + 1)
  OBVIOUS

(* and its totals. *)
LEMMA LineIsAdded ==
    ASSUME GstInv, NEW d \in Nat, NEW new \in Taxed, RightlyTaxed(new), new.lineTotal = new.taxable + new.tax,
           NEW split, Parted(new.tax, split), Len(line) < MaxLine,
           UNCHANGED sale, line' = Append(line, new), AddedUp(new, split, d)
    PROVE  GstInv'
<1>1. line \in Seq(Taxed) /\ new.taxable \in Nat /\ new.tax \in Nat /\ new.lineTotal \in Nat
  BY DEF GstInv, Taxed
<1>2. /\ Len(line) \in Nat /\ line' \in Seq(Taxed) /\ Len(line') = Len(line) + 1
      /\ \A n \in DOMAIN line' : (n \in DOMAIN line /\ line'[n] = line[n]) \/ line'[n] = new
  BY <1>1, OneMoreLine
<1>3. Len(line') <= MaxLine
  <2>1. MaxLine \in Nat
    BY AmountsAssumption
  <2> QED BY <1>2, <2>1
<1>4. /\ total.subtotal \in Nat /\ total.discount \in Nat /\ total.tax \in Nat /\ total.cgst \in Nat
      /\ total.sgst \in Nat /\ total.igst \in Nat /\ total.discount <= total.subtotal
  BY DEF GstInv
<1>5. /\ total'.subtotal = total.subtotal + new.taxable + d /\ total'.discount = total.discount + d
      /\ total'.tax = total.tax + new.tax /\ total'.cgst = total.cgst + split.cgst
      /\ total'.sgst = total.sgst + split.sgst /\ total'.igst = total.igst + split.igst
  BY DEF AddedUp
<1>6. split.cgst \in Nat /\ split.sgst \in Nat /\ split.igst \in Nat
  BY DEF Parted
<1> DEFINE k == Len(line)   s == total.subtotal   p == total.discount   t == total.tax
           x == total.cgst  y == total.sgst       z == total.igst       a == new.taxable
           c == new.tax     u == split.cgst       v == split.sgst       w == split.igst
<1>7. /\ s + a + d \in Nat /\ p + d \in Nat /\ t + c \in Nat /\ p + d <= s + a + d
      /\ s - p + t \in Nat /\ (s + a + d) - (p + d) + (t + c) = (s - p + t) + (a + c)
      /\ x + u \in Nat /\ y + v \in Nat /\ z + w \in Nat
      /\ (x + u) + (y + v) + (z + w) = (x + y + z) + (u + v + w)
      /\ y - x \in 0..k /\ v - u \in 0..1 => (y + v) - (x + u) \in 0..(k + 1)
  <2>1. k \in Nat /\ s \in Nat /\ p \in Nat /\ t \in Nat /\ p <= s /\ a \in Nat /\ c \in Nat
    BY <1>1, <1>2, <1>4
  <2>2. x \in Nat /\ y \in Nat /\ z \in Nat /\ u \in Nat /\ v \in Nat /\ w \in Nat
    BY <1>4, <1>6
  <2> HIDE DEF k, s, p, t, x, y, z, a, c, u, v, w
  <2>3. /\ s + a + d \in Nat /\ p + d \in Nat /\ t + c \in Nat /\ p + d <= s + a + d
        /\ s - p + t \in Nat /\ (s + a + d) - (p + d) + (t + c) = (s - p + t) + (a + c)
    <3>1. s + a + d \in Nat /\ p + d \in Nat /\ t + c \in Nat /\ p + d <= s + a + d
      BY <2>1
    <3>2. s - p + t \in Nat
      BY <2>1
    <3>3. (s + a + d) - (p + d) + (t + c) = (s - p + t) + (a + c)
      BY <2>1
    <3> QED BY <3>1, <3>2, <3>3
  <2>4. /\ x + u \in Nat /\ y + v \in Nat /\ z + w \in Nat
        /\ (x + u) + (y + v) + (z + w) = (x + y + z) + (u + v + w)
    BY <2>2
  <2>5. y - x \in 0..k /\ v - u \in 0..1 => (y + v) - (x + u) \in 0..(k + 1)
    BY <2>1, <2>2, PartsOfTax, Zenon
  <2> QED BY <2>3, <2>4, <2>5, Zenon
<1>8. total' \in [subtotal : Nat, discount : Nat, tax : Nat, cgst : Nat, sgst : Nat, igst : Nat]
  BY <1>7 DEF AddedUp
<1>9. OrderTotal \in Nat /\ OrderTotal' = OrderTotal + new.lineTotal
  BY <1>5, <1>7 DEF OrderTotal
<1>10. SumIs(line', OrderTotal')
  <2>1. SumIs(line, OrderTotal)
    BY DEF GstInv
  <2>2. SumIs(Append(line, new), OrderTotal + new.lineTotal)
    BY <1>1, <1>9, <2>1, NextSum, Zenon
  <2> QED BY <1>9, <2>2
<1>11. Totals'
  <2>1. Totals
    BY DEF GstInv
  <2>2. total'.cgst + total'.sgst + total'.igst = total'.tax
    BY <1>5, <1>7, <2>1 DEF Totals, Parted
  <2>3. ASSUME sale.intra PROVE total'.igst = 0 /\ total'.sgst - total'.cgst \in 0..Len(line')
    <3>1. total.igst = 0 /\ split.igst = 0 /\ y - x \in 0..k /\ v - u \in 0..1
      BY <2>1, <2>3 DEF Totals, Parted
    <3>2. (y + v) - (x + u) \in 0..(k + 1)
      BY <1>7, <3>1, Zenon
    <3>3. total'.sgst - total'.cgst \in 0..Len(line')
      BY <1>2, <1>5, <3>2, Zenon
    <3> QED BY <1>5, <3>1, <3>3
  <2>4. ~sale.intra => total'.igst = total'.tax
    BY <1>5, <2>1 DEF Totals, Parted
  <2> QED BY <2>2, <2>3, <2>4 DEF Totals
<1>12. \A n \in DOMAIN line' : RightlyTaxed(line[n])'
  <2> SUFFICES ASSUME NEW n \in DOMAIN line' PROVE RightlyTaxed(line'[n])
    BY DEF RightlyTaxed, ToHalfAPaisa, GstCents, RoundHalfUp
  <2> QED BY <1>2 DEF GstInv
<1>13. sale' \in [inclusive : BOOLEAN, intra : BOOLEAN, charges : BOOLEAN]
  BY DEF GstInv
<1> QED BY <1>2, <1>3, <1>5, <1>7, <1>8, <1>10, <1>11, <1>12, <1>13 DEF GstInv

(* Every line keeps the invariant of an invoice, *)
LEMMA GstNextInv == ASSUME GstInv, [GstNext]_gstVars PROVE GstInv'
<1>1. CASE UNCHANGED gstVars
  BY <1>1 DEF gstVars, GstInv, Totals, OrderTotal, RightlyTaxed
<1>2. CASE GstNext
  <2>1. PICK g \in Gross, d \in Discount, rate \in Rate, e \in Explicit \cup {NoTax} : AddLine(g, d, rate, e)
    BY <1>2 DEF GstNext
  <2>2. g \in Nat /\ d \in Nat /\ 0 \in 0..AllOfIt /\ rate \in 0..AllOfIt
    BY AmountsAssumption DEF AllOfIt
  <2>3. PICK r \in 0..AllOfIt : r = IF sale.charges THEN rate ELSE 0
    BY <2>2
  <2>4. PICK t : t = LineTax(g, r, e)
    OBVIOUS
  <2>5. (e # NoTax) \in BOOLEAN
    OBVIOUS
  <2>6. PICK given \in BOOLEAN : given = (e # NoTax)
    BY <2>5, Zenon
  <2>7. PICK new : new = [gross |-> g, rate |-> r, given |-> given, taxable |-> t.taxable, tax |-> t.tax,
                          lineTotal |-> t.taxable + t.tax]
    BY Zenon
  <2>8. new \in Taxed /\ RightlyTaxed(new) /\ t.taxable \in Nat /\ t.tax \in Nat
    <3>1. sale \in [inclusive : BOOLEAN, intra : BOOLEAN, charges : BOOLEAN]
      BY DEF GstInv
    <3> QED BY <2>2, <2>3, <2>4, <2>6, <2>7, <3>1, LineIsTaxed, Zenon
  <2>9. PICK split : split = SplitTax(t.tax)
    OBVIOUS
  <2>10. new.taxable = t.taxable /\ new.tax = t.tax /\ new.lineTotal = new.taxable + new.tax
    BY <2>7
  <2>11. Parted(new.tax, split)
    BY <2>8, <2>9, <2>10, TaxIsParted
  <2>12. /\ line' = Append(line, new) /\ Len(line) < MaxLine /\ UNCHANGED sale
         /\ AddedUp(new, split, d)
    BY <2>1, <2>3, <2>4, <2>6, <2>7, <2>9, <2>10 DEF AddLine, AddedUp
  <2> QED BY <2>2, <2>8, <2>10, <2>11, <2>12, LineIsAdded
<1> QED BY <1>1, <1>2

(* which is more than was promised. *)
LEMMA GstTells == GstInv => GstTypeOK /\ InvoiceAddsUp /\ TagPriceIsPaid /\ TaxIsNearest
<1> SUFFICES ASSUME GstInv PROVE GstTypeOK /\ InvoiceAddsUp /\ TagPriceIsPaid /\ TaxIsNearest
  OBVIOUS
<1>1. GstTypeOK
  <2>1. \A n \in DOMAIN line : line[n] \in Taxed
    BY DEF GstInv
  <2> QED BY <2>1 DEF GstInv, GstTypeOK, Taxed
<1>2. InvoiceAddsUp
  BY SumFound DEF GstInv, InvoiceAddsUp, Totals
<1>3. TagPriceIsPaid /\ TaxIsNearest
  BY DEF GstInv, RightlyTaxed, ToHalfAPaisa, TagPriceIsPaid, TaxIsNearest
<1> QED BY <1>1, <1>2, <1>3

-----------------------------------------------------------------------------
(* The numbers of invoices (Invoices). *)

Locks(s) == seller[s] # NoSale /\ seller[s].step # "order"
LocksHeld ==
    /\ \A s \in Seller : Locks(s) => seller[s].number = counter[seller[s].fy] + 1
    /\ \A s, t \in Seller : Locks(s) /\ Locks(t) /\ seller[s].fy = seller[t].fy => s = t
Counted(y) ==
    /\ IsFiniteSet(OfYear(y)) /\ Cardinality(OfYear(y)) = counter[y]
    /\ {i.number : i \in OfYear(y)} = 1..counter[y]

InvoicesInv == InvoicesTypeOK /\ LocksHeld /\ \A y \in FinancialYear : Counted(y)

(* Every counter is at zero. *)
LEMMA InvoicesInitInv == InvoicesInit => InvoicesInv
<1> SUFFICES ASSUME InvoicesInit PROVE InvoicesInv
  OBVIOUS
<1>1. 0 \in 0..MaxInvoice /\ 0 \in FinancialYear
  BY BoundsAssumption DEF FinancialYear
<1>2. InvoicesTypeOK
  BY <1>1 DEF InvoicesInit, InvoicesTypeOK
<1>3. ASSUME NEW y \in FinancialYear PROVE Counted(y)
  <2>1. OfYear(y) = {} /\ counter[y] = 0
    BY DEF InvoicesInit, OfYear
  <2> QED BY <2>1, FS_EmptySet DEF Counted
<1> QED BY <1>2, <1>3 DEF InvoicesInv, LocksHeld, Locks, InvoicesInit

(* The invoices and counters stay, and one transaction moves. *)
LEMMA SellerMoves ==
    ASSUME InvoicesInv, NEW s \in Seller, NEW new \in Selling \cup {NoSale}, seller' = [seller EXCEPT ![s] = new],
           UNCHANGED <<counter, invoice, year>>,
           new # NoSale /\ new.step # "order" =>
               new.number = counter[new.fy] + 1 /\ \A t \in Seller \ {s} : Locks(t) => seller[t].fy # new.fy
    PROVE  InvoicesInv'
<1>1. InvoicesTypeOK'
  BY DEF InvoicesInv, InvoicesTypeOK
<1>2. LocksHeld'
  BY DEF InvoicesInv, InvoicesTypeOK, LocksHeld, Locks
<1>3. ASSUME NEW y \in FinancialYear PROVE Counted(y)'
  BY DEF InvoicesInv, Counted, OfYear
<1> QED BY <1>1, <1>2, <1>3 DEF InvoicesInv

(* An order that commits takes the next number of its year. *)
LEMMA NumberTaken ==
    ASSUME InvoicesInv, NEW s \in Seller, Locks(s), seller[s].step = "dated", CommitInvoice(s)
    PROVE  InvoicesInv'
<1>1. seller[s] \in Selling
  BY DEF Locks, InvoicesInv, InvoicesTypeOK
<1>2. PICK f \in FinancialYear : f = seller[s].fy
  BY <1>1 DEF Selling
<1>3. PICK n \in 1..MaxInvoice : n = seller[s].number /\ n = counter[f] + 1
  BY <1>1, <1>2 DEF InvoicesInv, LocksHeld, Selling, InvoicesTypeOK
<1>4. PICK new : new = [by |-> s, fy |-> f, number |-> n, dated |-> seller[s].dated]
  OBVIOUS
<1>5. /\ counter' = [counter EXCEPT ![f] = n] /\ invoice' = invoice \cup {new}
      /\ seller' = [seller EXCEPT ![s] = NoSale] /\ year' = year
  BY <1>2, <1>3, <1>4 DEF CommitInvoice
<1>6. InvoicesTypeOK'
  <2>1. new \in [by : Seller, fy : FinancialYear, number : 1..MaxInvoice, dated : FinancialYear]
    BY <1>1, <1>4 DEF Selling
  <2>2. n \in 0..MaxInvoice
    OBVIOUS
  <2> QED BY <1>5, <2>1, <2>2 DEF InvoicesInv, InvoicesTypeOK
<1>7. LocksHeld'
  <2>1. \A t \in Seller : Locks(t)' => Locks(t) /\ t # s /\ seller'[t] = seller[t]
    BY <1>5 DEF Locks, InvoicesInv, InvoicesTypeOK
  <2>2. ASSUME NEW t \in Seller, Locks(t)' PROVE counter'[seller[t].fy] = counter[seller[t].fy]
    <3>1. seller[t].fy # f /\ Locks(t) /\ t # s
      BY <1>2, <2>1, <2>2 DEF InvoicesInv, LocksHeld
    <3>2. seller[t] \in Selling
      BY <3>1 DEF Locks, InvoicesInv, InvoicesTypeOK
    <3>3. seller[t].fy \in FinancialYear
      BY <3>2 DEF Selling
    <3> QED BY <1>5, <3>1, <3>3 DEF InvoicesInv, InvoicesTypeOK
  <2> QED BY <2>1, <2>2 DEF InvoicesInv, LocksHeld
<1>8. ASSUME NEW y \in FinancialYear PROVE Counted(y)'
  <2>1. Counted(y)
    BY DEF InvoicesInv
  <2>2. CASE y # f
    <3>1. OfYear(y)' = OfYear(y) /\ counter'[y] = counter[y]
      BY <1>4, <1>5, <2>2 DEF OfYear, InvoicesInv, InvoicesTypeOK
    <3> QED BY <2>1, <3>1 DEF Counted
  <2>3. CASE y = f
    <3>1. OfYear(y)' = OfYear(y) \cup {new} /\ counter'[y] = n
      BY <1>4, <1>5, <2>3 DEF OfYear, InvoicesInv, InvoicesTypeOK
    <3>2. counter[y] \in Nat /\ n = counter[y] + 1
      BY <1>3, <2>3 DEF InvoicesInv, InvoicesTypeOK
    <3>3. \A i \in OfYear(y) : i.number \in 1..counter[y]
      BY <2>1 DEF Counted
    <3>4. new \notin OfYear(y)
      BY <1>4, <3>2, <3>3
    <3>5. IsFiniteSet(OfYear(y) \cup {new}) /\ Cardinality(OfYear(y) \cup {new}) = Cardinality(OfYear(y)) + 1
      BY <2>1, <3>4, FS_AddElement DEF Counted
    <3>6. {i.number : i \in OfYear(y) \cup {new}} = {i.number : i \in OfYear(y)} \cup {n}
      BY <1>4
    <3>7. 1..counter[y] \cup {n} = 1..n
      BY <3>2
    <3> QED BY <2>1, <3>1, <3>2, <3>5, <3>6, <3>7 DEF Counted
  <2> QED BY <2>2, <2>3
<1> QED BY <1>6, <1>7, <1>8 DEF InvoicesInv

(* Every step of an order keeps the numbers whole, *)
LEMMA InvoicesNextInv == ASSUME InvoicesInv, [InvoicesNext]_invoiceVars PROVE InvoicesInv'
<1>1. year \in FinancialYear /\ 0 \in 0..MaxInvoice /\ 0 \in FinancialYear
  BY BoundsAssumption DEF FinancialYear, InvoicesInv, InvoicesTypeOK
<1>2. ASSUME NEW s \in Seller, BeginOrder(s) PROVE InvoicesInv'
  <2>1. [step |-> "order", fy |-> year, number |-> 0, dated |-> 0] \in Selling
    BY <1>1 DEF Selling
  <2>2. PICK new \in Selling : new = [step |-> "order", fy |-> year, number |-> 0, dated |-> 0]
    BY <2>1
  <2>3. seller' = [seller EXCEPT ![s] = new] /\ new.step = "order" /\ UNCHANGED <<counter, invoice, year>>
    BY <1>2, <2>2 DEF BeginOrder
  <2> QED BY <2>3, SellerMoves
<1>3. ASSUME NEW s \in Seller, TakeNumber(s) PROVE InvoicesInv'
  <2>1. seller[s] \in Selling
    BY <1>3 DEF TakeNumber, Take, Sells, InvoicesInv, InvoicesTypeOK
  <2>2. PICK f \in FinancialYear : f = seller[s].fy
    BY <2>1 DEF Selling
  <2>3. PICK n \in 0..MaxInvoice : n = counter[f] + 1
    BY <1>3, <2>2, BoundsAssumption DEF TakeNumber, Take, InvoicesInv, InvoicesTypeOK
  <2>4. PICK new \in Selling : new = [seller[s] EXCEPT !.step = "number", !.number = n]
    BY <2>1 DEF Selling
  <2>5. new.step = "number" /\ new.number = n /\ new.fy = f
    BY <2>1, <2>2, <2>4 DEF Selling
  <2>6. seller' = [seller EXCEPT ![s] = new] /\ UNCHANGED <<counter, invoice, year>>
    BY <1>3, <2>2, <2>3, <2>4 DEF TakeNumber, Take
  <2>7. \A t \in Seller \ {s} : Locks(t) => seller[t].fy # new.fy
    BY <1>3, <2>2, <2>5 DEF TakeNumber, YearLocked, Locks
  <2> QED BY <2>3, <2>5, <2>6, <2>7, SellerMoves
<1>4. ASSUME NEW s \in Seller, DateInvoice(s) PROVE InvoicesInv'
  <2>1. seller[s] \in Selling /\ Locks(s)
    BY <1>4 DEF DateInvoice, Sells, Locks, InvoicesInv, InvoicesTypeOK
  <2>2. PICK new \in Selling : new = [seller[s] EXCEPT !.step = "dated", !.dated = year]
    BY <1>1, <2>1 DEF Selling
  <2>3. new.number = seller[s].number /\ new.fy = seller[s].fy
    BY <2>1, <2>2 DEF Selling
  <2>4. seller' = [seller EXCEPT ![s] = new] /\ UNCHANGED <<counter, invoice, year>>
    BY <1>4, <2>2 DEF DateInvoice
  <2>5. new.number = counter[new.fy] + 1 /\ \A t \in Seller \ {s} : Locks(t) => seller[t].fy # new.fy
    BY <2>1, <2>3 DEF InvoicesInv, LocksHeld
  <2> QED BY <2>4, <2>5, SellerMoves
<1>5. ASSUME NEW s \in Seller, CommitInvoice(s) PROVE InvoicesInv'
  <2>1. Locks(s) /\ seller[s].step = "dated"
    BY <1>5 DEF CommitInvoice, Sells, Locks
  <2> QED BY <1>5, <2>1, NumberTaken
<1>6. ASSUME NEW s \in Seller, RollBackInvoice(s) PROVE InvoicesInv'
  BY <1>6, SellerMoves DEF RollBackInvoice
<1>7. ASSUME TurnOfYear PROVE InvoicesInv'
  <2>1. year' \in FinancialYear /\ UNCHANGED <<counter, seller, invoice>>
    BY <1>1, <1>7, BoundsAssumption DEF TurnOfYear, FinancialYear
  <2>2. InvoicesTypeOK'
    BY <2>1 DEF InvoicesInv, InvoicesTypeOK
  <2>3. ASSUME NEW y \in FinancialYear PROVE Counted(y)'
    BY <2>1 DEF InvoicesInv, Counted, OfYear
  <2> QED BY <2>1, <2>2, <2>3 DEF InvoicesInv, LocksHeld, Locks
<1>8. CASE UNCHANGED invoiceVars
  <2>1. UNCHANGED <<counter, seller, invoice, year>>
    BY <1>8 DEF invoiceVars
  <2>2. InvoicesTypeOK'
    BY <2>1 DEF InvoicesInv, InvoicesTypeOK
  <2>3. ASSUME NEW y \in FinancialYear PROVE Counted(y)'
    BY <2>1 DEF InvoicesInv, Counted, OfYear
  <2> QED BY <2>1, <2>2, <2>3 DEF InvoicesInv, LocksHeld, Locks
<1> QED BY <1>2, <1>3, <1>4, <1>5, <1>6, <1>7, <1>8 DEF InvoicesNext

(* which is what was promised. *)
LEMMA InvoicesTell == InvoicesInv => InvoicesTypeOK /\ NumberedWithoutGaps
  BY DEF InvoicesInv, Counted, NumberedWithoutGaps

-----------------------------------------------------------------------------
(* Images of a product (ProductImages). *)

(* Requests know what they work on, *)
WorkOK(w) ==
    /\ w.step \in {"clear", "insert"} => w.id \in file \cup unlinked
    /\ w.step \in {"unlink", "drop"} => w.id \in unlinked
(* and one that is alone, what is primary. *)
Sole(rows) == \A i, j \in rows : i = j
AloneOK(w) ==
    /\ w.step = "insert" /\ TRUE \in w.primary => Primaries(w.of) = {}
    /\ w.step = "chosen" => Primaries(w.of) \subseteq w.saw
    /\ w.step \in {"primary", "chosen", "columns"} /\ image[w.id] # NoImage => image[w.id].of = w.of
    /\ w.step = "columns" /\ TRUE \in w.primary => Primaries(w.of) \subseteq {w.id}
TurnInv ==
    crowded \/ /\ \A u, v \in Uploader : uploader[u] # NoImage /\ uploader[v] # NoImage => u = v
               /\ \A g \in Gallery : Sole(Primaries(g))
               /\ \A u \in Uploader : uploader[u] # NoImage => AloneOK(uploader[u])

ImagesInv ==
    /\ ImagesTypeOK /\ RowHasFile /\ TurnInv
    /\ \A u \in Uploader : uploader[u] # NoImage => WorkOK(uploader[u])

(* No images, no files. *)
LEMMA ImagesInitInv == ImagesInit => ImagesInv
<1> SUFFICES ASSUME ImagesInit PROVE ImagesInv
  OBVIOUS
<1>1. ImagesTypeOK /\ RowHasFile
  BY DEF ImagesInit, ImagesTypeOK, RowHasFile
<1>2. TurnInv
  BY DEF ImagesInit, TurnInv, Sole, Primaries, ImagesOf
<1> QED BY <1>1, <1>2 DEF ImagesInit, ImagesInv

(* One request moves. *)
LEMMA WorkMoves ==
    ASSUME ImagesInv, NEW u \in Uploader, NEW new \in Works \cup {NoImage}, uploader' = [uploader EXCEPT ![u] = new],
           ImagesTypeOK' \/ (UNCHANGED <<gallery, image>> /\ file' \in SUBSET Image /\ unlinked' \in SUBSET Image /\ crowded' \in BOOLEAN),
           \A i \in Image : image'[i] # NoImage => image[i] # NoImage \/ i \in file \cup unlinked,
           file \cup unlinked \subseteq file' \cup unlinked', unlinked \subseteq unlinked',
           new # NoImage => WorkOK(new)',
           crowded' \/ /\ \A v \in Uploader \ {u} : uploader[v] = NoImage
                       /\ \A g \in Gallery : Sole(Primaries(g)')
                       /\ new # NoImage => AloneOK(new)'
    PROVE  ImagesInv'
<1>1. ImagesTypeOK'
  BY DEF ImagesInv, ImagesTypeOK
<1>2. RowHasFile'
  BY DEF ImagesInv, RowHasFile
<1>3. uploader \in [Uploader -> Works \cup {NoImage}]
  BY DEF ImagesInv, ImagesTypeOK
<1>4. ASSUME NEW v \in Uploader, uploader'[v] # NoImage PROVE WorkOK(uploader[v])'
  <2>1. CASE v = u
    BY <1>3, <1>4, <2>1 DEF WorkOK
  <2>2. CASE v # u
    <3>1. uploader'[v] = uploader[v]
      BY <1>3, <2>2
    <3> QED BY <1>4, <3>1 DEF ImagesInv, WorkOK
  <2> QED BY <2>1, <2>2
<1>5. TurnInv'
  <2> SUFFICES ASSUME ~crowded' PROVE TurnInv'
    BY DEF TurnInv
  <2>1. \A v \in Uploader : uploader'[v] # NoImage => v = u /\ uploader'[v] = new
    BY <1>3
  <2>2. \A g \in Gallery : Sole(Primaries(g))'
    BY DEF Sole
  <2>3. ASSUME NEW v \in Uploader, uploader'[v] # NoImage PROVE AloneOK(uploader[v])'
    BY <2>1, <2>3 DEF AloneOK
  <2> QED BY <2>1, <2>2, <2>3 DEF TurnInv
<1> QED BY <1>1, <1>2, <1>4, <1>5 DEF ImagesInv

(* A request begins, *)
LEMMA WorkStarts ==
    ASSUME ImagesInv, NEW u \in Uploader, NEW w \in Works, StartWork(u, w), UNCHANGED <<gallery, image, file>>,
           unlinked' \in SUBSET Image, unlinked \subseteq unlinked', WorkOK(w)', w.step \notin {"insert", "chosen"},
           w.step \in {"primary", "columns"} => image[w.id].of = w.of,
           w.step = "columns" => TRUE \notin w.primary
    PROVE  ImagesInv'
<1>1. uploader' = [uploader EXCEPT ![u] = w] /\ crowded' \in BOOLEAN /\ file' \in SUBSET Image
  BY DEF StartWork, ImagesInv, ImagesTypeOK
<1>2. ASSUME ~crowded'
      PROVE  /\ \A v \in Uploader \ {u} : uploader[v] = NoImage
             /\ \A g \in Gallery : Sole(Primaries(g)')
             /\ AloneOK(w)'
  <2>1. ~crowded /\ \A v \in Uploader \ {u} : uploader[v] = NoImage
    BY <1>2 DEF StartWork
  <2>2. \A g \in Gallery : Sole(Primaries(g)')
    BY <2>1 DEF ImagesInv, TurnInv, Primaries, ImagesOf
  <2>3. AloneOK(w)'
    BY DEF AloneOK
  <2> QED BY <2>1, <2>2, <2>3
<1> QED BY <1>1, <1>2, WorkMoves

(* goes on, *)
LEMMA WorkProceeds ==
    ASSUME ImagesInv, NEW u \in Uploader, uploader[u] # NoImage, NEW new \in Works \cup {NoImage},
           uploader' = [uploader EXCEPT ![u] = new], UNCHANGED crowded,
           ImagesTypeOK' \/ (UNCHANGED <<gallery, image>> /\ file' \in SUBSET Image),
           UNCHANGED unlinked, file \subseteq file' \cup unlinked,
           \A i \in Image : image'[i] # NoImage => image[i] # NoImage \/ i \in file \cup unlinked,
           new # NoImage => WorkOK(new)',
           ~crowded => /\ \A g \in Gallery : Sole(Primaries(g)')
                       /\ new # NoImage => AloneOK(new)'
    PROVE  ImagesInv'
<1>1. crowded' \in BOOLEAN /\ unlinked' \in SUBSET Image
  BY DEF ImagesInv, ImagesTypeOK
<1>2. ~crowded => \A v \in Uploader \ {u} : uploader[v] = NoImage
  BY DEF ImagesInv, TurnInv
<1> QED BY <1>1, <1>2, WorkMoves

(* writes rows, *)
LEMMA WorkWrites ==
    ASSUME ImagesInv, NEW u \in Uploader, uploader[u] # NoImage, NEW new \in Works \cup {NoImage},
           uploader' = [uploader EXCEPT ![u] = new], UNCHANGED <<crowded, unlinked, file>>, ImagesTypeOK',
           \A i \in Image : image'[i] # NoImage => image[i] # NoImage \/ i \in file \cup unlinked,
           new # NoImage => WorkOK(new)',
           ~crowded => \A g \in Gallery : Sole(Primaries(g)'),
           ~crowded /\ new # NoImage => AloneOK(new)'
    PROVE  ImagesInv'
<1>1. file \subseteq file' \cup unlinked /\ UNCHANGED crowded /\ UNCHANGED unlinked
  OBVIOUS
<1>2. ~crowded => /\ \A g \in Gallery : Sole(Primaries(g)')
                  /\ new # NoImage => AloneOK(new)'
  OBVIOUS
<1>3. ImagesTypeOK' \/ (UNCHANGED <<gallery, image>> /\ file' \in SUBSET Image)
  OBVIOUS
<1> QED BY <1>1, <1>2, <1>3, WorkProceeds, Zenon

(* and what it works on. *)
LEMMA WorkFacts ==
    ASSUME ImagesInv, NEW u \in Uploader, uploader[u] # NoImage
    PROVE  /\ uploader[u] \in Works /\ uploader[u].id \in Image /\ uploader[u].of \in Gallery
           /\ uploader[u].saw \in SUBSET Image /\ WorkOK(uploader[u])
           /\ ~crowded => AloneOK(uploader[u]) /\ \A g \in Gallery : Sole(Primaries(g))
  BY DEF ImagesInv, ImagesTypeOK, Works, TurnInv

(* updateMany of primary rows leaves them all as they were, but primary. *)
LEMMA ClearedAre ==
    ASSUME image \in [Image -> ImageRows \cup {NoImage}], NEW rows \in SUBSET Image, NEW cleared, cleared = Cleared(rows)
    PROVE  /\ cleared \in [Image -> ImageRows \cup {NoImage}]
           /\ \A i \in Image : cleared[i] # NoImage <=> image[i] # NoImage
           /\ \A i \in Image : image[i] # NoImage => cleared[i].of = image[i].of /\ cleared[i].primary = (image[i].primary /\ i \notin rows)
<1>1. PICK no \in BOOLEAN : no = FALSE
  OBVIOUS
<1>2. ASSUME NEW i \in Image, image[i] # NoImage
      PROVE  /\ [image[i] EXCEPT !.primary = no] \in ImageRows
             /\ [image[i] EXCEPT !.primary = no].of = image[i].of
             /\ [image[i] EXCEPT !.primary = no].primary = no
  BY <1>2 DEF ImageRows
<1>3. NoImage \notin ImageRows
  BY NoImageAssumption
<1>4. cleared = [i \in Image |-> IF i \in rows /\ image[i] # NoImage THEN [image[i] EXCEPT !.primary = no] ELSE image[i]]
  BY <1>1 DEF Cleared
<1>5. cleared \in [Image -> ImageRows \cup {NoImage}] /\ \A i \in Image : cleared[i] # NoImage <=> image[i] # NoImage
  BY <1>2, <1>3, <1>4
<1>6. \A i \in Image : image[i] # NoImage => cleared[i].of = image[i].of /\ cleared[i].primary = (image[i].primary /\ i \notin rows)
  BY <1>1, <1>2, <1>4 DEF ImageRows
<1> QED BY <1>5, <1>6

(* and what clearing them leaves. *)
LEMMA ClearedRows ==
    ASSUME image \in [Image -> ImageRows \cup {NoImage}], NEW rows \in SUBSET Image, image' = Cleared(rows)
    PROVE  /\ image' \in [Image -> ImageRows \cup {NoImage}]
           /\ \A i \in Image : image'[i] # NoImage <=> image[i] # NoImage
           /\ \A i \in Image : image[i] # NoImage => image'[i].of = image[i].of /\ image'[i].primary = (image[i].primary /\ i \notin rows)
           /\ \A k \in Gallery : Primaries(k)' = Primaries(k) \ rows
<1>1. /\ image' \in [Image -> ImageRows \cup {NoImage}]
      /\ \A i \in Image : image'[i] # NoImage <=> image[i] # NoImage
      /\ \A i \in Image : image[i] # NoImage => image'[i].of = image[i].of /\ image'[i].primary = (image[i].primary /\ i \notin rows)
  BY ClearedAre
<1>2. \A k \in Gallery : Primaries(k)' = Primaries(k) \ rows
  BY <1>1 DEF Primaries, ImagesOf
<1> QED BY <1>1, <1>2

(* Every step of an upload keeps the invariant of images, *)
LEMMA ImagesNextInv == ASSUME ImagesInv, [ImagesNext]_imageVars PROVE ImagesInv'
<1> USE DEF Uploads
<1>0. image \in [Image -> ImageRows \cup {NoImage}] /\ \A i \in Image : image[i] # NoImage => image[i] \in ImageRows /\ image[i].of \in gallery
  BY DEF ImagesInv, ImagesTypeOK
<1>1. ASSUME NEW g \in Gallery, DeleteGallery(g) PROVE ImagesInv'
  <2>1. /\ gallery' = gallery \ {g} /\ UNCHANGED <<file, uploader, unlinked, crowded>>
        /\ image' \in [Image -> ImageRows \cup {NoImage}]
        /\ \A i \in Image : image'[i] # NoImage => image'[i] = image[i] /\ image[i].of # g
    BY <1>0, <1>1 DEF DeleteGallery, ImagesOf
  <2>2. ImagesTypeOK'
    BY <2>1 DEF ImagesInv, ImagesTypeOK
  <2>3. \A k \in Gallery : Primaries(k)' \subseteq Primaries(k)
    BY <2>1 DEF Primaries, ImagesOf
  <2>4. RowHasFile'
    BY <2>1 DEF ImagesInv, RowHasFile
  <2>5. ASSUME NEW u \in Uploader, uploader'[u] # NoImage PROVE WorkOK(uploader[u])' /\ (~crowded => AloneOK(uploader[u])')
    <3>1. WorkOK(uploader[u])'
      BY <2>1, <2>5 DEF ImagesInv, WorkOK
    <3>2. ASSUME ~crowded PROVE AloneOK(uploader[u])'
      <4>1. uploader'[u] = uploader[u] /\ AloneOK(uploader[u]) /\ uploader[u].of \in Gallery /\ uploader[u].id \in Image
        BY <2>1, <2>5, <3>2, WorkFacts
      <4> QED BY <2>1, <2>3, <4>1 DEF AloneOK
    <3> QED BY <3>1, <3>2
  <2>6. TurnInv'
    BY <2>1, <2>3, <2>5 DEF ImagesInv, TurnInv, Sole
  <2> QED BY <2>2, <2>4, <2>5, <2>6 DEF ImagesInv
<1>2. ASSUME NEW u \in Uploader, NEW i \in Image, NEW g \in Gallery, NEW p \in BOOLEAN, CreateProductImage(u, i, g, p)
      PROVE  ImagesInv'
  <2>1. [step |-> "upload", id |-> i, of |-> g, primary |-> {p}, saw |-> {}] \in Works
    BY DEF Works
  <2>2. PICK w \in Works : w = [step |-> "upload", id |-> i, of |-> g, primary |-> {p}, saw |-> {}]
    BY <2>1
  <2>3. w.step = "upload" /\ StartWork(u, w) /\ UNCHANGED <<gallery, image, file, unlinked>>
    BY <1>2, <2>2 DEF CreateProductImage
  <2> QED BY <2>3, WorkStarts DEF WorkOK, ImagesInv, ImagesTypeOK
<1>3. ASSUME NEW u \in Uploader, NEW i \in Image, NEW p \in {{TRUE}, {FALSE}, {}}, UpdateImage(u, i, p) PROVE ImagesInv'
  <2>1. PICK step \in {"primary", "columns"} :
            step = (IF p = {TRUE} THEN "primary" ELSE "columns") /\ (step = "columns" => TRUE \notin p)
    OBVIOUS
  <2>2. image[i].of \in Gallery /\ image[i] # NoImage
    BY <1>0, <1>3 DEF UpdateImage, ImageRows
  <2>3. [step |-> step, id |-> i, of |-> image[i].of, primary |-> p, saw |-> {}] \in Works
    BY <2>2 DEF Works
  <2>4. PICK w \in Works : w = [step |-> step, id |-> i, of |-> image[i].of, primary |-> p, saw |-> {}]
    BY <2>3
  <2>5. /\ w.step = step /\ w.id = i /\ w.of = image[i].of /\ w.primary = p
        /\ StartWork(u, w) /\ UNCHANGED <<gallery, image, file, unlinked>>
    BY <1>3, <2>1, <2>4 DEF UpdateImage
  <2> QED BY <2>1, <2>5, WorkStarts DEF WorkOK, ImagesInv, ImagesTypeOK
<1>4. ASSUME NEW u \in Uploader, NEW i \in Image, DeleteImage(u, i) PROVE ImagesInv'
  <2>1. image[i].of \in Gallery
    BY <1>0, <1>4 DEF DeleteImage, ImageRows
  <2>2. [step |-> "unlink", id |-> i, of |-> image[i].of, primary |-> {}, saw |-> {}] \in Works
    BY <2>1 DEF Works
  <2>3. PICK w \in Works : w = [step |-> "unlink", id |-> i, of |-> image[i].of, primary |-> {}, saw |-> {}]
    BY <2>2
  <2>4. w.step = "unlink" /\ w.id = i /\ StartWork(u, w) /\ UNCHANGED <<gallery, image, file>> /\ unlinked' = unlinked \cup {i}
    BY <1>4, <2>3 DEF DeleteImage
  <2> QED BY <2>4, WorkStarts DEF WorkOK, ImagesInv, ImagesTypeOK
<1>5. ASSUME NEW u \in Uploader, UploadProductImage(u) PROVE ImagesInv'
  <2>1. uploader[u] # NoImage
    BY <1>5 DEF UploadProductImage
  <2>2. PICK step \in {"clear", "insert"} : step = (IF TRUE \in uploader[u].primary THEN "clear" ELSE "insert")
    OBVIOUS
  <2>3. PICK new \in Works : new = [uploader[u] EXCEPT !.step = step]
    BY <2>1, WorkFacts DEF Works
  <2>4. /\ uploader' = [uploader EXCEPT ![u] = new] /\ UNCHANGED <<gallery, image, unlinked, crowded>>
        /\ file' = file \cup {uploader[u].id}
    BY <1>5, <2>2, <2>3 DEF UploadProductImage, Proceed
  <2>5. new.step = step /\ new.id = uploader[u].id /\ new.primary = uploader[u].primary /\ new.id \in Image
    BY <2>1, <2>3, WorkFacts DEF Works
  <2>6. ~crowded => \A g \in Gallery : Sole(Primaries(g)')
    BY <2>1, <2>4, WorkFacts DEF Primaries, ImagesOf
  <2>7. AloneOK(new)'
    BY <2>2, <2>5 DEF AloneOK
  <2> QED BY <2>1, <2>4, <2>5, <2>6, <2>7, WorkProceeds DEF WorkOK, ImagesInv, ImagesTypeOK
<1>6. ASSUME NEW u \in Uploader, ClearPrimaries(u) PROVE ImagesInv'
  <2>1. uploader[u] # NoImage /\ uploader[u].step = "clear"
    BY <1>6 DEF ClearPrimaries
  <2>2. PICK new \in Works : new = [uploader[u] EXCEPT !.step = "insert"]
    BY <2>1, WorkFacts DEF Works
  <2>3. uploader' = [uploader EXCEPT ![u] = new] /\ UNCHANGED <<gallery, file, unlinked, crowded>>
    BY <1>6, <2>2 DEF ClearPrimaries, Proceed
  <2>4. new.step = "insert" /\ new.id = uploader[u].id /\ new.of = uploader[u].of /\ new.of \in Gallery
    BY <2>1, <2>2, WorkFacts DEF Works
  <2>5. image' = Cleared(Primaries(new.of))
    BY <1>6, <2>4 DEF ClearPrimaries
  <2>6. /\ Primaries(new.of) \in SUBSET Image
        /\ image' \in [Image -> ImageRows \cup {NoImage}]
        /\ \A i \in Image : image'[i] # NoImage => image[i] # NoImage /\ image'[i].of = image[i].of
        /\ \A k \in Gallery : Primaries(k)' = Primaries(k) \ Primaries(new.of)
    BY <1>0, <2>5, ClearedRows DEF Primaries, ImagesOf
  <2>7. ImagesTypeOK'
    BY <1>0, <2>3, <2>6 DEF ImagesInv, ImagesTypeOK
  <2>8. ~crowded => \A g \in Gallery : Sole(Primaries(g)')
    BY <2>1, <2>6, WorkFacts DEF Sole
  <2>9. AloneOK(new)'
    BY <2>4, <2>6 DEF AloneOK
  <2>10. WorkOK(new)'
    BY <2>1, <2>3, <2>4, WorkFacts DEF WorkOK
  <2>11. \A i \in Image : image'[i] # NoImage => image[i] # NoImage \/ i \in file \cup unlinked
    BY <2>6
  <2> QED BY <2>1, <2>3, <2>7, <2>8, <2>9, <2>10, <2>11, WorkWrites
<1>7. ASSUME NEW u \in Uploader, CreateImageRow(u) PROVE ImagesInv'
  <2>1. uploader[u] # NoImage /\ uploader[u].step = "insert" /\ uploader[u].of \in gallery
    BY <1>7 DEF CreateImageRow
  <2>2. PICK i \in Image, g \in Gallery : i = uploader[u].id /\ g = uploader[u].of
    BY <2>1, WorkFacts
  <2>3. PICK p \in BOOLEAN : p = (TRUE \in uploader[u].primary)
    <3>1. (TRUE \in uploader[u].primary) \in BOOLEAN
      OBVIOUS
    <3> QED BY <3>1, Zenon
  <2>4. [of |-> g, primary |-> p] \in ImageRows
    BY DEF ImageRows
  <2>5. PICK row \in ImageRows : row = [of |-> g, primary |-> p]
    BY <2>4
  <2>6. row # NoImage /\ row.of = g /\ row.primary = p
    BY <2>5, NoImageAssumption
  <2>7. /\ image' = [image EXCEPT ![i] = row] /\ uploader' = [uploader EXCEPT ![u] = NoImage]
        /\ UNCHANGED <<gallery, file, unlinked, crowded>>
    BY <1>7, <2>2, <2>3, <2>5 DEF CreateImageRow, Finished
  <2>8. ImagesTypeOK'
    BY <1>0, <2>1, <2>2, <2>6, <2>7 DEF ImagesInv, ImagesTypeOK
  <2>9. ASSUME ~crowded, NEW k \in Gallery PROVE Sole(Primaries(k)')
    <3>1. Sole(Primaries(k)) /\ (p => Primaries(g) = {})
      BY <2>1, <2>2, <2>3, <2>9, WorkFacts DEF AloneOK
    <3>2. Primaries(k)' \subseteq Primaries(k) \cup {i} /\ (~(p /\ k = g) => Primaries(k)' \subseteq Primaries(k))
      BY <1>0, <2>6, <2>7 DEF Primaries, ImagesOf
    <3> QED BY <3>1, <3>2 DEF Sole
  <2>10. i \in file \cup unlinked
    BY <2>1, <2>2, WorkFacts DEF WorkOK
  <2>11. \A j \in Image : image'[j] # NoImage => image[j] # NoImage \/ j \in file \cup unlinked
    BY <1>0, <2>7, <2>10
  <2> QED BY <2>1, <2>7, <2>8, <2>9, <2>11, WorkWrites
<1>8. ASSUME NEW u \in Uploader, SetPrimary(u) PROVE ImagesInv'
  <2>1. uploader[u] # NoImage /\ uploader[u].step = "primary"
    BY <1>8 DEF SetPrimary
  <2>2. PICK saw \in SUBSET Image : saw = Primaries(uploader[u].of)
    BY DEF Primaries, ImagesOf
  <2>3. PICK new \in Works : new = [uploader[u] EXCEPT !.step = "chosen", !.saw = saw]
    BY <2>1, WorkFacts DEF Works
  <2>4. /\ new.step = "chosen" /\ new.saw = saw /\ new.id = uploader[u].id /\ new.of = uploader[u].of
        /\ new.primary = uploader[u].primary
    BY <2>1, <2>3, WorkFacts DEF Works
  <2>5. uploader' = [uploader EXCEPT ![u] = new] /\ UNCHANGED <<gallery, image, file, unlinked, crowded>>
    BY <1>8, <2>2, <2>3 DEF SetPrimary
  <2>6. \A k : Primaries(k)' = Primaries(k)
    BY <2>5 DEF Primaries, ImagesOf
  <2>7. ASSUME ~crowded PROVE AloneOK(new)' /\ \A g \in Gallery : Sole(Primaries(g)')
    BY <2>1, <2>2, <2>4, <2>5, <2>6, <2>7, WorkFacts DEF AloneOK
  <2> QED BY <2>1, <2>4, <2>5, <2>7, WorkProceeds DEF WorkOK, ImagesInv, ImagesTypeOK
<1>9. ASSUME NEW u \in Uploader, CommitPrimary(u) PROVE ImagesInv'
  <2>1. uploader[u] # NoImage /\ uploader[u].step = "chosen" /\ image[uploader[u].id] # NoImage
    BY <1>9 DEF CommitPrimary
  <2>2. PICK i \in Image, g \in Gallery : i = uploader[u].id /\ g = uploader[u].of
    BY <2>1, WorkFacts
  <2>3. PICK saw \in SUBSET Image : saw = uploader[u].saw
    BY <2>1, WorkFacts
  <2>4. PICK new \in Works : new = [uploader[u] EXCEPT !.step = "columns"]
    BY <2>1, WorkFacts DEF Works
  <2>5. new.step = "columns" /\ new.id = i /\ new.of = g
    BY <2>1, <2>2, <2>4, WorkFacts DEF Works
  <2>6. PICK yes \in BOOLEAN : yes = TRUE
    BY Zenon
  <2>7. PICK cleared : cleared = Cleared(saw)
    OBVIOUS
  <2>8. /\ cleared \in [Image -> ImageRows \cup {NoImage}]
        /\ \A j \in Image : cleared[j] # NoImage <=> image[j] # NoImage
        /\ \A j \in Image : image[j] # NoImage => cleared[j].of = image[j].of /\ cleared[j].primary = (image[j].primary /\ j \notin saw)
    BY <1>0, <2>7, ClearedAre
  <2>9. PICK row : row = [cleared[i] EXCEPT !.primary = yes]
    OBVIOUS
  <2>10. row \in ImageRows /\ row # NoImage /\ row.of = image[i].of /\ row.primary
    <3>1. cleared[i] \in ImageRows
      BY <2>1, <2>2, <2>8
    <3> QED BY <2>1, <2>2, <2>6, <2>8, <2>9, <3>1, NoImageAssumption DEF ImageRows
  <2>11. /\ image' = [cleared EXCEPT ![i] = row] /\ uploader' = [uploader EXCEPT ![u] = new]
         /\ UNCHANGED <<gallery, file, unlinked, crowded>>
    BY <1>9, <2>2, <2>3, <2>4, <2>6, <2>7, <2>9 DEF CommitPrimary, Proceed
  <2>12. /\ \A j \in Image : image'[j] # NoImage => image[j] # NoImage /\ image'[j].of = image[j].of
         /\ \A j \in Image : j # i /\ image'[j] # NoImage /\ image'[j].primary => image[j].primary /\ j \notin saw
         /\ image'[i] = row
    BY <1>0, <2>1, <2>2, <2>8, <2>10, <2>11
  <2>13. ImagesTypeOK'
    BY <1>0, <2>8, <2>10, <2>11, <2>12 DEF ImagesInv, ImagesTypeOK
  <2>14. ASSUME ~crowded PROVE AloneOK(new)' /\ \A k \in Gallery : Sole(Primaries(k)')
    <3>1. Primaries(g) \subseteq saw /\ image[i].of = g /\ \A k \in Gallery : Sole(Primaries(k))
      BY <2>1, <2>2, <2>3, <2>14, WorkFacts DEF AloneOK
    <3>2. Primaries(g)' \subseteq {i}
      BY <2>12, <3>1 DEF Primaries, ImagesOf
    <3>3. \A k \in Gallery : k # g => Primaries(k)' \subseteq Primaries(k)
      BY <2>10, <2>12, <3>1 DEF Primaries, ImagesOf
    <3>4. AloneOK(new)'
      BY <2>5, <2>12, <3>1, <3>2 DEF AloneOK
    <3> QED BY <3>1, <3>2, <3>3, <3>4 DEF Sole
  <2>15. WorkOK(new)'
    BY <2>5 DEF WorkOK
  <2>16. \A j \in Image : image'[j] # NoImage => image[j] # NoImage \/ j \in file \cup unlinked
    BY <2>12
  <2> QED BY <2>1, <2>11, <2>13, <2>14, <2>15, <2>16, WorkWrites
<1>10. ASSUME NEW u \in Uploader, UpdateColumns(u) PROVE ImagesInv'
  <2>1. uploader[u] # NoImage /\ uploader[u].step = "columns" /\ image[uploader[u].id] # NoImage
    BY <1>10 DEF UpdateColumns
  <2>2. PICK i \in Image, g \in Gallery : i = uploader[u].id /\ g = uploader[u].of
    BY <2>1, WorkFacts
  <2>3. image[i] \in ImageRows /\ image[i].primary \in BOOLEAN
    BY <1>0, <2>1, <2>2 DEF ImageRows
  <2>4. PICK p \in BOOLEAN : p = IF uploader[u].primary = {} THEN image[i].primary ELSE TRUE \in uploader[u].primary
    <3>1. (IF uploader[u].primary = {} THEN image[i].primary ELSE TRUE \in uploader[u].primary) \in BOOLEAN
      <4>1. (TRUE \in uploader[u].primary) \in BOOLEAN
        OBVIOUS
      <4> QED BY <2>3, <4>1
    <3> QED BY <3>1, Zenon
  <2>5. PICK row : row = [image[i] EXCEPT !.primary = p]
    OBVIOUS
  <2>6. row \in ImageRows /\ row # NoImage /\ row.of = image[i].of /\ row.primary = p
    BY <2>3, <2>5, NoImageAssumption DEF ImageRows
  <2>7. /\ image' = [image EXCEPT ![i] = row] /\ uploader' = [uploader EXCEPT ![u] = NoImage]
        /\ UNCHANGED <<gallery, file, unlinked, crowded>>
    BY <1>10, <2>2, <2>4, <2>5 DEF UpdateColumns, Finished
  <2>8. ImagesTypeOK'
    BY <1>0, <2>1, <2>2, <2>6, <2>7 DEF ImagesInv, ImagesTypeOK
  <2>9. ASSUME ~crowded, NEW k \in Gallery PROVE Sole(Primaries(k)')
    <3>1. /\ Sole(Primaries(k)) /\ image[i].of = g
          /\ TRUE \in uploader[u].primary => Primaries(g) \subseteq {i}
      BY <2>1, <2>2, <2>9, WorkFacts DEF AloneOK
    <3>2. Primaries(k)' \subseteq Primaries(k) \cup {i} /\ (k # g => Primaries(k)' \subseteq Primaries(k))
      BY <1>0, <2>6, <2>7, <3>1 DEF Primaries, ImagesOf
    <3>3. uploader[u].primary = {} => Primaries(k)' \subseteq Primaries(k)
      BY <1>0, <2>1, <2>2, <2>4, <2>6, <2>7 DEF Primaries, ImagesOf
    <3>4. p \/ uploader[u].primary = {} \/ Primaries(k)' \subseteq Primaries(k)
      BY <1>0, <2>6, <2>7 DEF Primaries, ImagesOf
    <3>5. p => uploader[u].primary = {} \/ TRUE \in uploader[u].primary
      BY <2>4
    <3> QED BY <3>1, <3>2, <3>3, <3>4, <3>5 DEF Sole
  <2>10. \A j \in Image : image'[j] # NoImage => image[j] # NoImage \/ j \in file \cup unlinked
    BY <1>0, <2>1, <2>2, <2>7
  <2> QED BY <2>1, <2>7, <2>8, <2>9, <2>10, WorkWrites
<1>11. ASSUME NEW u \in Uploader, DeleteFile(u) PROVE ImagesInv'
  <2>1. uploader[u] # NoImage /\ uploader[u].step = "unlink"
    BY <1>11 DEF DeleteFile
  <2>2. PICK new \in Works : new = [uploader[u] EXCEPT !.step = "drop"]
    BY <2>1, WorkFacts DEF Works
  <2>3. /\ uploader' = [uploader EXCEPT ![u] = new] /\ UNCHANGED <<gallery, image, unlinked, crowded>>
        /\ file' = file \ {uploader[u].id}
    BY <1>11, <2>2 DEF DeleteFile, Proceed
  <2>4. new.step = "drop" /\ new.id = uploader[u].id /\ new.id \in unlinked
    BY <2>1, <2>2, WorkFacts DEF Works, WorkOK
  <2>5. ~crowded => \A g \in Gallery : Sole(Primaries(g)')
    BY <2>1, <2>3, WorkFacts DEF Primaries, ImagesOf
  <2>6. AloneOK(new)'
    BY <2>4 DEF AloneOK
  <2> QED BY <2>1, <2>3, <2>4, <2>5, <2>6, WorkProceeds DEF WorkOK, ImagesInv, ImagesTypeOK
<1>12. ASSUME NEW u \in Uploader, DeleteImageRow(u) PROVE ImagesInv'
  <2>1. uploader[u] # NoImage /\ uploader[u].id \in Image
    BY <1>12, WorkFacts DEF DeleteImageRow
  <2>2. /\ image' = [image EXCEPT ![uploader[u].id] = NoImage] /\ uploader' = [uploader EXCEPT ![u] = NoImage]
        /\ UNCHANGED <<gallery, file, unlinked, crowded>>
    BY <1>12 DEF DeleteImageRow, Finished
  <2>3. ImagesTypeOK'
    BY <1>0, <2>2 DEF ImagesInv, ImagesTypeOK
  <2>4. \A k : Primaries(k)' \subseteq Primaries(k)
    BY <1>0, <2>2 DEF Primaries, ImagesOf
  <2>5. ~crowded => \A g \in Gallery : Sole(Primaries(g)')
    BY <2>1, <2>4, WorkFacts DEF Sole
  <2>6. \A j \in Image : image'[j] # NoImage => image[j] # NoImage \/ j \in file \cup unlinked
    BY <1>0, <2>1, <2>2
  <2> QED BY <2>1, <2>2, <2>3, <2>5, <2>6, WorkWrites
<1>13. ASSUME NEW u \in Uploader, DropWork(u) PROVE ImagesInv'
  <2>1. uploader[u] # NoImage /\ uploader' = [uploader EXCEPT ![u] = NoImage] /\ UNCHANGED <<gallery, image, file, unlinked, crowded>>
    BY <1>13 DEF DropWork, Finished
  <2>2. ~crowded => \A g \in Gallery : Sole(Primaries(g)')
    BY <2>1, WorkFacts DEF Primaries, ImagesOf
  <2> QED BY <2>1, <2>2, WorkProceeds DEF ImagesInv, ImagesTypeOK
<1>14. CASE UNCHANGED imageVars
  <2>1. UNCHANGED <<gallery, image, file, uploader, unlinked, crowded>>
    BY <1>14 DEF imageVars
  <2>2. ImagesTypeOK' /\ RowHasFile'
    BY <2>1 DEF ImagesInv, ImagesTypeOK, RowHasFile
  <2>3. TurnInv'
    BY <2>1 DEF ImagesInv, TurnInv, Primaries, ImagesOf, AloneOK
  <2> QED BY <2>1, <2>2, <2>3 DEF ImagesInv, WorkOK
<1> QED BY <1>1, <1>2, <1>3, <1>4, <1>5, <1>6, <1>7, <1>8, <1>9, <1>10, <1>11, <1>12, <1>13, <1>14 DEF ImagesNext

(* A set that holds one element at most. *)
LEMMA AtMostOne == ASSUME NEW S, \A x, y \in S : x = y PROVE IsFiniteSet(S) /\ Cardinality(S) <= 1
<1>1. CASE S = {}
  BY <1>1, FS_EmptySet
<1>2. CASE S # {}
  <2>1. PICK x \in S : S = {x}
    BY <1>2
  <2>2. IsFiniteSet(S) /\ Cardinality(S) = 1
    BY <2>1, FS_Singleton, Zenon
  <2> QED BY <2>2
<1> QED BY <1>1, <1>2

(* which is more than was promised. *)
LEMMA ImagesTell == ImagesInv => ImagesTypeOK /\ RowHasFile /\ OnePrimaryInTurn
<1> SUFFICES ASSUME ImagesInv, ~crowded, NEW g \in Gallery PROVE Cardinality(Primaries(g)) <= 1
  BY DEF ImagesInv, OnePrimaryInTurn
<1> QED BY AtMostOne DEF ImagesInv, TurnInv, Sole

-----------------------------------------------------------------------------
(* A customer's addresses (Customers). *)

(* Both rows are the default of one type. *)
SameDefault(r, s) == r # Nothing /\ s # Nothing /\ r.default /\ s.default /\ r.type = s.type
OneEach(rows) == \A a, b \in Address : SameDefault(rows[a], rows[b]) => a = b
(* What the addresses will be when a transaction commits. *)
AddressesAfter(e) == [a \in Address |-> IF a \in Changed(e) THEN clerk[e].rows[a] ELSE address[a]]
(* Two open transactions change different rows, and make no two defaults of one type. *)
WritesApart(e, f) ==
    /\ Changed(e) \cap Changed(f) = {}
    /\ \A a \in Changed(e), b \in Changed(f) : ~SameDefault(clerk[e].rows[a], clerk[f].rows[b])
HaveDefault(rows) == \A t \in AddressType : OfType(rows, t) # {} => Defaults(rows, t) # {}
(* While requests do not overlap, a type with addresses has a default, before and after. *)
AddressTurns ==
    overlap \/ /\ \A e, f \in Clerk : clerk[e] # Nothing /\ clerk[f] # Nothing => e = f
               /\ HaveDefault(address)
               /\ \A e \in Clerk : Staged(e) => HaveDefault(AddressesAfter(e))
               /\ \A e \in Clerk : Found(e) /\ address[clerk[e].found] # Nothing => address[clerk[e].found].type = clerk[e].type
CustomersInv ==
    /\ customer \in {"active", "deleted"} /\ overlap \in BOOLEAN
    /\ address \in Rows /\ clerk \in [Clerk -> Finding \cup Staging \cup {Nothing}]
    /\ OneEach(address)
    /\ \A e \in Clerk : Staged(e) => OneEach(AddressesAfter(e))
    /\ \A e, f \in Clerk : e # f => WritesApart(e, f)
    /\ AddressTurns

(* A set of numbers that is not empty has a least one. *)
LEMMA LeastOf == ASSUME NEW n \in Nat, NEW S \in SUBSET (1..n), S # {} PROVE Min(S) \in S
<1> DEFINE Below(m) == {k \in S : k <= m}
           T == {Below(m) : m \in S}
<1>1. S \subseteq Nat /\ IsFiniteSet(S)
  <2>1. IsFiniteSet(1..n) /\ 1..n \subseteq Nat
    BY FS_Interval
  <2> QED BY <2>1, FS_Subset
<1>2. IsWellFoundedOn(StrictSubsetOrdering(S), FiniteSubsetsOf(S))
  BY <1>1, FS_StrictSubsetOrderingWellFounded
<1>3. T \subseteq FiniteSubsetsOf(S) /\ T # {}
  <2>1. \A m \in S : Below(m) \in SUBSET S
    OBVIOUS
  <2>2. \A A \in SUBSET S : IsFiniteSet(A)
    BY <1>1, FS_Subset
  <2> HIDE DEF Below
  <2>3. QED BY <2>1, <2>2 DEF FiniteSubsetsOf
<1>4. PICK x \in T : \A y \in T : <<y, x>> \notin StrictSubsetOrdering(S)
  <2> HIDE DEF T
  <2>1. QED BY <1>2, <1>3, WFMin
<1>5. PICK m \in S : x = Below(m)
  OBVIOUS
<1>6. ASSUME NEW k \in S, ~(m <= k) PROVE FALSE
  <2>1. m \notin Below(k) /\ m \in Below(m) /\ Below(k) \subseteq Below(m)
    <3>1. m \in Nat /\ k \in Nat /\ k < m /\ \A j \in S : j \in Nat
      BY <1>1, <1>6
    <3>2. \A j \in Nat : j <= k => j <= m
      BY <3>1
    <3>3. ~(m <= k) /\ m <= m
      BY <3>1
    <3>4. QED BY <3>1, <3>2, <3>3
  <2>2. <<Below(k), Below(m)>> \in StrictSubsetOrdering(S)
    <3>1. Below(k) \in SUBSET S /\ Below(m) \in SUBSET S
      OBVIOUS
    <3> HIDE DEF Below
    <3>2. QED BY <2>1, <3>1 DEF StrictSubsetOrdering
  <2>3. Below(k) \in T
    BY <1>6
  <2> HIDE DEF T, Below
  <2>4. QED BY <1>4, <1>5, <2>2, <2>3
<1>7. \E a \in S : \A b \in S : a <= b
  BY <1>6
<1> QED BY <1>7, Zenon DEF Min

(* A set of one element at most holds no two. *)
LEMMA NoTwo == ASSUME NEW S, IsFiniteSet(S), Cardinality(S) <= 1, NEW x \in S, NEW y \in S PROVE x = y
<1> SUFFICES ASSUME x # y PROVE FALSE
  OBVIOUS
<1>1. IsFiniteSet({x}) /\ Cardinality({x}) = 1
  BY FS_Singleton
<1>2. IsFiniteSet({x} \cup {y}) /\ Cardinality({x} \cup {y}) = 2
  <2>1. PICK X : X = {x}
    OBVIOUS
  <2>2. IsFiniteSet(X) /\ Cardinality(X) = 1 /\ y \notin X
    BY <1>1, <2>1
  <2>3. IsFiniteSet(X \cup {y}) /\ Cardinality(X \cup {y}) = Cardinality(X) + 1
    BY <2>2, FS_AddElement
  <2> QED BY <2>1, <2>2, <2>3
<1>3. Cardinality({x} \cup {y}) <= Cardinality(S)
  <2>1. {x} \cup {y} \in SUBSET S
    OBVIOUS
  <2> QED BY <2>1, FS_Subset
<1>4. Cardinality(S) \in Nat
  BY FS_CardinalityType
<1> QED BY <1>2, <1>3, <1>4

(* A model value that is nothing is no row and no request. *)
LEMMA NothingIsNoRow == Nothing \notin AddressRows \cup Finding \cup Staging
BY NothingAssumption

(* A request has found its address, or has written in a transaction that is still open. *)
LEMMA ClerkKinds ==
  ASSUME CustomersInv, NEW e \in Clerk, clerk[e] # Nothing
  PROVE  \/ /\ Found(e) /\ ~Staged(e) /\ clerk[e] \in Finding /\ Changed(e) = {}
            /\ clerk[e].found \in Address /\ clerk[e].type \in AddressType
         \/ /\ Staged(e) /\ ~Found(e) /\ clerk[e] \in Staging
            /\ Changed(e) \in SUBSET Address /\ clerk[e].rows \in [Changed(e) -> AddressRows \cup {Nothing}]
<1>1. clerk[e] \in Finding \/ clerk[e] \in Staging
  BY DEF CustomersInv
<1>2. CASE clerk[e] \in Finding
  <2>1. DOMAIN clerk[e] = {"found", "type"} /\ clerk[e].found \in Address /\ clerk[e].type \in AddressType
    BY <1>2 DEF Finding
  <2>2. Found(e) /\ ~Staged(e)
    BY <2>1 DEF Found, Staged
  <2> QED BY <1>2, <2>1, <2>2 DEF Changed
<1>3. CASE clerk[e] \in Staging
  <2>1. DOMAIN clerk[e] = {"rows"}
        /\ clerk[e].rows \in UNION {[changed -> AddressRows \cup {Nothing}] : changed \in SUBSET Address}
    BY <1>3 DEF Staging
  <2>2. Staged(e) /\ ~Found(e)
    BY <2>1 DEF Found, Staged
  <2>3. PICK changed \in SUBSET Address : clerk[e].rows \in [changed -> AddressRows \cup {Nothing}]
    BY <2>1
  <2>4. Changed(e) = changed
    BY <2>2, <2>3 DEF Changed
  <2> QED BY <1>3, <2>2, <2>3, <2>4
<1> QED BY <1>1, <1>2, <1>3

(* What it will leave are rows. *)
LEMMA AfterAreRows == ASSUME CustomersInv, NEW e \in Clerk PROVE AddressesAfter(e) \in Rows /\ Changed(e) \in SUBSET Address
<1>1. CASE clerk[e] = Nothing
  <2>1. ~Staged(e)
    BY <1>1 DEF Staged
  <2> QED BY <2>1 DEF Changed, AddressesAfter, Rows, CustomersInv
<1>2. CASE clerk[e] # Nothing
  <2>1. Changed(e) \in SUBSET Address /\ \A a \in Changed(e) : clerk[e].rows[a] \in AddressRows \cup {Nothing}
    BY <1>2, ClerkKinds
  <2> QED BY <2>1 DEF AddressesAfter, Rows, CustomersInv
<1> QED BY <1>1, <1>2

(* What a clerk does leaves the other clerks what they have found and staged. *)
LEMMA ClerksStay ==
  ASSUME CustomersInv, NEW e \in Clerk, NEW x \in Finding \cup Staging \cup {Nothing}, clerk' = [clerk EXCEPT ![e] = x]
  PROVE  /\ clerk' \in [Clerk -> Finding \cup Staging \cup {Nothing}] /\ clerk'[e] = x
         /\ \A f \in Clerk \ {e} : clerk'[f] = clerk[f]
         /\ \A f \in Clerk \ {e} : (Found(f)' <=> Found(f)) /\ (Staged(f)' <=> Staged(f)) /\ Changed(f)' = Changed(f)
<1>1. clerk' \in [Clerk -> Finding \cup Staging \cup {Nothing}] /\ clerk'[e] = x /\ \A f \in Clerk \ {e} : clerk'[f] = clerk[f]
  BY DEF CustomersInv
<1>2. \A f \in Clerk \ {e} : (Found(f)' <=> Found(f)) /\ (Staged(f)' <=> Staged(f))
  BY <1>1 DEF Found, Staged
<1>3. \A f \in Clerk \ {e} : Changed(f)' = Changed(f)
  BY <1>1, <1>2 DEF Changed
<1> QED BY <1>1, <1>2, <1>3

(* An address is looked up, *)
LEMMA FindAddressInv == ASSUME CustomersInv, NEW e \in Clerk, NEW a \in Address, FindAddress(e, a) PROVE CustomersInv'
<1>1. PICK x : x = [found |-> a, type |-> address[a].type]
  OBVIOUS
<1>2. /\ clerk[e] = Nothing /\ customer = "active" /\ address[a] # Nothing
      /\ clerk' = [clerk EXCEPT ![e] = x]
      /\ overlap' = (overlap \/ \E f \in Clerk : clerk[f] # Nothing)
      /\ customer' = customer /\ address' = address
  BY <1>1 DEF FindAddress
<1>3. x \in Finding /\ x.found = a /\ x.type = address[a].type
  <2>1. address[a] \in AddressRows
    BY <1>2 DEF CustomersInv, Rows
  <2> QED BY <1>1, <2>1 DEF Finding, AddressRows
<1>4. /\ clerk' \in [Clerk -> Finding \cup Staging \cup {Nothing}] /\ clerk'[e] = x
      /\ \A f \in Clerk \ {e} : clerk'[f] = clerk[f]
      /\ \A f \in Clerk \ {e} : (Found(f)' <=> Found(f)) /\ (Staged(f)' <=> Staged(f)) /\ Changed(f)' = Changed(f)
  BY <1>2, <1>3, ClerksStay
<1>5. ~Staged(e)' /\ Changed(e)' = {}
  <2>1. DOMAIN x = {"found", "type"}
    BY <1>3 DEF Finding
  <2>2. ~Staged(e)'
    BY <1>4, <2>1 DEF Staged
  <2> QED BY <2>2 DEF Changed
<1>6. \A f, g \in Clerk : f # g => WritesApart(f, g)'
  <2> SUFFICES ASSUME NEW f \in Clerk, NEW g \in Clerk, f # g PROVE WritesApart(f, g)'
    OBVIOUS
  <2>1. CASE f = e \/ g = e
    BY <1>5, <2>1 DEF WritesApart
  <2>2. CASE f # e /\ g # e
    <3>1. WritesApart(f, g)
      BY DEF CustomersInv
    <3> QED BY <1>4, <2>2, <3>1 DEF WritesApart
  <2> QED BY <2>1, <2>2
<1>7. \A f \in Clerk : Staged(f)' => OneEach(AddressesAfter(f))'
  <2> SUFFICES ASSUME NEW f \in Clerk \ {e}, Staged(f)' PROVE OneEach(AddressesAfter(f))'
    BY <1>5
  <2>1. AddressesAfter(f)' = AddressesAfter(f) /\ OneEach(AddressesAfter(f))
    BY <1>2, <1>4 DEF AddressesAfter, CustomersInv
  <2> QED BY <2>1 DEF OneEach
<1>8. AddressTurns'
  <2> SUFFICES ASSUME ~overlap' PROVE AddressTurns'
    BY DEF AddressTurns
  <2>1. ~overlap /\ \A f \in Clerk : clerk[f] = Nothing
    BY <1>2
  <2>2. HaveDefault(address)'
    BY <1>2, <2>1 DEF CustomersInv, AddressTurns, HaveDefault, OfType, Defaults
  <2>3. \A f \in Clerk \ {e} : clerk'[f] = Nothing /\ ~Staged(f)' /\ ~Found(f)'
    BY <1>4, <2>1 DEF Staged, Found
  <2>4. address'[clerk'[e].found].type = clerk'[e].type
    BY <1>2, <1>3, <1>4
  <2> QED BY <1>5, <2>2, <2>3, <2>4 DEF AddressTurns
<1>9. address' \in Rows /\ OneEach(address)' /\ customer' \in {"active", "deleted"} /\ overlap' \in BOOLEAN
  BY <1>2 DEF CustomersInv, OneEach
<1> QED BY <1>4, <1>6, <1>7, <1>8, <1>9 DEF CustomersInv

(* a transaction is rolled back *)
LEMMA AbortAddressInv == ASSUME CustomersInv, NEW e \in Clerk, AbortAddresses(e) PROVE CustomersInv'
<1>1. clerk' = [clerk EXCEPT ![e] = Nothing] /\ overlap' = overlap /\ customer' = customer /\ address' = address
  BY DEF AbortAddresses
<1>2. /\ clerk' \in [Clerk -> Finding \cup Staging \cup {Nothing}] /\ clerk'[e] = Nothing
      /\ \A f \in Clerk \ {e} : clerk'[f] = clerk[f]
      /\ \A f \in Clerk \ {e} : (Found(f)' <=> Found(f)) /\ (Staged(f)' <=> Staged(f)) /\ Changed(f)' = Changed(f)
  BY <1>1, ClerksStay
<1>3. ~Staged(e)' /\ ~Found(e)' /\ Changed(e)' = {}
  BY <1>2 DEF Staged, Found, Changed
<1>4. \A f, g \in Clerk : f # g => WritesApart(f, g)'
  <2> SUFFICES ASSUME NEW f \in Clerk, NEW g \in Clerk, f # g PROVE WritesApart(f, g)'
    OBVIOUS
  <2>1. CASE f = e \/ g = e
    BY <1>3, <2>1 DEF WritesApart
  <2>2. CASE f # e /\ g # e
    <3>1. WritesApart(f, g)
      BY DEF CustomersInv
    <3> QED BY <1>2, <2>2, <3>1 DEF WritesApart
  <2> QED BY <2>1, <2>2
<1>5. \A f \in Clerk : Staged(f)' => Staged(f) /\ AddressesAfter(f)' = AddressesAfter(f)
  BY <1>1, <1>2, <1>3 DEF AddressesAfter
<1>6. \A f \in Clerk : Staged(f)' => OneEach(AddressesAfter(f))'
  <2> SUFFICES ASSUME NEW f \in Clerk, Staged(f)' PROVE OneEach(AddressesAfter(f))'
    OBVIOUS
  <2>1. AddressesAfter(f)' = AddressesAfter(f) /\ OneEach(AddressesAfter(f))
    BY <1>5 DEF CustomersInv
  <2> QED BY <2>1 DEF OneEach
<1>7. AddressTurns'
  <2> SUFFICES ASSUME ~overlap PROVE AddressTurns'
    BY <1>1 DEF AddressTurns
  <2>1. HaveDefault(address)'
    BY <1>1 DEF CustomersInv, AddressTurns, HaveDefault, OfType, Defaults
  <2>2. \A f, g \in Clerk : clerk'[f] # Nothing /\ clerk'[g] # Nothing => f = g
    BY <1>2 DEF CustomersInv, AddressTurns
  <2>3. ASSUME NEW f \in Clerk, Staged(f)' PROVE HaveDefault(AddressesAfter(f))'
    <3>1. AddressesAfter(f)' = AddressesAfter(f) /\ HaveDefault(AddressesAfter(f))
      BY <1>5, <2>3 DEF CustomersInv, AddressTurns
    <3> QED BY <3>1 DEF HaveDefault, OfType, Defaults
  <2>4. \A f \in Clerk : Found(f)' /\ address'[clerk'[f].found] # Nothing => address'[clerk'[f].found].type = clerk'[f].type
    BY <1>1, <1>2, <1>3 DEF CustomersInv, AddressTurns
  <2> QED BY <2>1, <2>2, <2>3, <2>4 DEF AddressTurns
<1>8. address' \in Rows /\ OneEach(address)' /\ customer' \in {"active", "deleted"} /\ overlap' \in BOOLEAN
  BY <1>1 DEF CustomersInv, OneEach
<1> QED BY <1>2, <1>4, <1>6, <1>7, <1>8 DEF CustomersInv

(* or commits: its rows were apart from those of every other. *)
LEMMA CommitAddressInv == ASSUME CustomersInv, NEW e \in Clerk, CommitAddresses(e) PROVE CustomersInv'
<1>1. /\ Staged(e) /\ address' = AddressesAfter(e) /\ clerk' = [clerk EXCEPT ![e] = Nothing]
      /\ overlap' = overlap /\ customer' = customer
  BY DEF CommitAddresses, AddressesAfter
<1>2. /\ clerk' \in [Clerk -> Finding \cup Staging \cup {Nothing}] /\ clerk'[e] = Nothing
      /\ \A f \in Clerk \ {e} : clerk'[f] = clerk[f]
      /\ \A f \in Clerk \ {e} : (Found(f)' <=> Found(f)) /\ (Staged(f)' <=> Staged(f)) /\ Changed(f)' = Changed(f)
  BY <1>1, ClerksStay
<1>3. ~Staged(e)' /\ ~Found(e)' /\ Changed(e)' = {}
  BY <1>2 DEF Staged, Found, Changed
<1>4. /\ address' \in Rows /\ Changed(e) \in SUBSET Address
      /\ \A a \in Address : address'[a] = IF a \in Changed(e) THEN clerk[e].rows[a] ELSE address[a]
  BY <1>1, AfterAreRows DEF AddressesAfter
<1>5. \A f, g \in Clerk : f # g => WritesApart(f, g)'
  <2> SUFFICES ASSUME NEW f \in Clerk, NEW g \in Clerk, f # g PROVE WritesApart(f, g)'
    OBVIOUS
  <2>1. CASE f = e \/ g = e
    BY <1>3, <2>1 DEF WritesApart
  <2>2. CASE f # e /\ g # e
    <3>1. WritesApart(f, g)
      BY DEF CustomersInv
    <3> QED BY <1>2, <2>2, <3>1 DEF WritesApart
  <2> QED BY <2>1, <2>2
<1>6. ASSUME NEW f \in Clerk \ {e}, Staged(f) PROVE OneEach(AddressesAfter(f))'
  <2>1. OneEach(address) /\ OneEach(AddressesAfter(e)) /\ OneEach(AddressesAfter(f)) /\ WritesApart(e, f) /\ WritesApart(f, e)
    BY <1>1, <1>6 DEF CustomersInv
  <2>2. Changed(f) \cap Changed(e) = {} /\ Changed(f) \in SUBSET Address
    BY <2>1, AfterAreRows DEF WritesApart
  <2>3. PICK after : after = [a \in Address |-> IF a \in Changed(f) THEN clerk[f].rows[a] ELSE address'[a]]
    OBVIOUS
  <2>4. AddressesAfter(f)' = after
    BY <1>2, <1>6, <2>3 DEF AddressesAfter
  <2>5. ASSUME NEW a \in Address, NEW b \in Address, SameDefault(after[a], after[b]) PROVE a = b
    <3>1. CASE a \notin Changed(e) /\ b \notin Changed(e)
      <4>1. after[a] = AddressesAfter(f)[a] /\ after[b] = AddressesAfter(f)[b]
        BY <1>4, <2>3, <3>1 DEF AddressesAfter
      <4> QED BY <2>1, <2>5, <4>1 DEF OneEach
    <3>2. CASE a \notin Changed(f) /\ b \notin Changed(f)
      <4>1. after[a] = AddressesAfter(e)[a] /\ after[b] = AddressesAfter(e)[b]
        BY <1>4, <2>3, <3>2 DEF AddressesAfter
      <4> QED BY <2>1, <2>5, <4>1 DEF OneEach
    <3>3. CASE a \in Changed(e) /\ b \in Changed(f)
      <4>1. after[a] = clerk[e].rows[a] /\ after[b] = clerk[f].rows[b]
        BY <1>4, <2>2, <2>3, <3>3
      <4> QED BY <2>1, <2>5, <3>3, <4>1 DEF WritesApart
    <3>4. CASE a \in Changed(f) /\ b \in Changed(e)
      <4>1. after[a] = clerk[f].rows[a] /\ after[b] = clerk[e].rows[b]
        BY <1>4, <2>2, <2>3, <3>4
      <4> QED BY <2>1, <2>5, <3>4, <4>1 DEF WritesApart
    <3> QED BY <2>2, <3>1, <3>2, <3>3, <3>4
  <2> QED BY <2>4, <2>5 DEF OneEach
<1>7. AddressTurns'
  <2> SUFFICES ASSUME ~overlap PROVE AddressTurns'
    BY <1>1 DEF AddressTurns
  <2>1. HaveDefault(AddressesAfter(e)) /\ \A f \in Clerk : clerk[f] # Nothing => f = e
    BY <1>1 DEF CustomersInv, AddressTurns, Staged
  <2>2. HaveDefault(address)'
    BY <1>1, <2>1 DEF HaveDefault, OfType, Defaults
  <2>3. \A f \in Clerk : clerk'[f] = Nothing /\ ~Staged(f)' /\ ~Found(f)'
    BY <1>2, <1>3, <2>1 DEF Staged, Found
  <2> QED BY <2>2, <2>3 DEF AddressTurns
<1>8. OneEach(address)' /\ customer' \in {"active", "deleted"} /\ overlap' \in BOOLEAN
  <2>1. OneEach(AddressesAfter(e))
    BY <1>1 DEF CustomersInv
  <2> QED BY <1>1, <2>1 DEF CustomersInv, OneEach
<1>9. \A f \in Clerk : Staged(f)' => OneEach(AddressesAfter(f))'
  BY <1>2, <1>3, <1>6
<1> QED BY <1>2, <1>4, <1>5, <1>7, <1>8, <1>9 DEF CustomersInv

(* A type whose default nobody has written in an open transaction. *)
LEMMA NotTaken ==
  ASSUME NEW t, t \notin Taken, NEW f \in Clerk, NEW b \in Changed(f), clerk[f].rows[b] # Nothing, clerk[f].rows[b].default
  PROVE  clerk[f].rows[b].type # t
<1> DEFINE new(g) == {clerk[g].rows[a].type : a \in {a \in Changed(g) : clerk[g].rows[a] # Nothing /\ clerk[g].rows[a].default}}
<1>1. clerk[f].rows[b].type \in new(f)
  OBVIOUS
<1>2. new(f) \subseteq Taken
  BY DEF Taken
<1> HIDE DEF new
<1> QED BY <1>1, <1>2

(* The statements of a transaction. *)
LEMMA StageInv ==
  ASSUME CustomersInv, NEW e \in Clerk, clerk[e] = Nothing \/ Found(e), NEW rows \in Rows, Stage(e, rows),
         customer' = customer, address' = address, overlap' \in BOOLEAN,
         ~overlap' => ~overlap /\ HaveDefault(rows) /\ \A f \in Clerk \ {e} : clerk[f] = Nothing
  PROVE  CustomersInv'
<1>1. PICK changed \in SUBSET Address : changed = {a \in Address : rows[a] # address[a]}
  OBVIOUS
<1>2. PICK x : x = [rows |-> [a \in changed |-> rows[a]]]
  OBVIOUS
<1>3. PICK defaults \in SUBSET AddressType : defaults = {t \in AddressType : changed \cap Defaults(rows, t) # {}}
  OBVIOUS
<1>4. /\ changed \cap Locked = {} /\ defaults \cap Taken = {}
      /\ \A t \in AddressType : Cardinality(Defaults(rows, t)) <= 1
      /\ clerk' = [clerk EXCEPT ![e] = x]
  BY <1>1, <1>2, <1>3, Zenon DEF Stage
<1>5. x \in Staging /\ x # Nothing /\ DOMAIN x = {"rows"} /\ DOMAIN x.rows = changed /\ \A a \in changed : x.rows[a] = rows[a]
  <2>1. PICK more : more = [a \in changed |-> rows[a]]
    OBVIOUS
  <2>2. more \in [changed -> AddressRows \cup {Nothing}]
    BY <2>1 DEF Rows
  <2>3. more \in UNION {[C -> AddressRows \cup {Nothing}] : C \in SUBSET Address}
    BY <2>2
  <2>4. x \in Staging
    BY <1>2, <2>1, <2>3 DEF Staging
  <2>5. x # Nothing
    BY <2>4, NothingIsNoRow
  <2> QED BY <1>2, <2>1, <2>4, <2>5
<1>6. /\ clerk' \in [Clerk -> Finding \cup Staging \cup {Nothing}] /\ clerk'[e] = x
      /\ \A f \in Clerk \ {e} : clerk'[f] = clerk[f]
      /\ \A f \in Clerk \ {e} : (Found(f)' <=> Found(f)) /\ (Staged(f)' <=> Staged(f)) /\ Changed(f)' = Changed(f)
  BY <1>4, <1>5, ClerksStay
<1>7. Staged(e)' /\ ~Found(e)' /\ Changed(e)' = changed
  <2>1. Staged(e)' /\ ~Found(e)'
    BY <1>5, <1>6 DEF Staged, Found
  <2> QED BY <1>5, <1>6, <2>1 DEF Changed
<1>8. AddressesAfter(e)' = rows
  <2>1. AddressesAfter(e)' = [a \in Address |-> IF a \in changed THEN x.rows[a] ELSE address[a]]
    BY <1>6, <1>7 DEF AddressesAfter
  <2>2. \A a \in Address : rows[a] = IF a \in changed THEN x.rows[a] ELSE address[a]
    BY <1>1, <1>5
  <2> QED BY <2>1, <2>2 DEF Rows
<1>9. OneEach(rows)
  <2> SUFFICES ASSUME NEW a \in Address, NEW b \in Address, SameDefault(rows[a], rows[b]) PROVE a = b
    BY DEF OneEach
  <2>1. PICK t : t = rows[a].type
    OBVIOUS
  <2>2. t \in AddressType /\ a \in Defaults(rows, t) /\ b \in Defaults(rows, t)
    BY <2>1 DEF SameDefault, Defaults, OfType, Rows, AddressRows
  <2>3. IsFiniteSet(Defaults(rows, t))
    <3>1. IsFiniteSet(Address)
      BY MaxAddressAssumption, FS_Interval DEF Address
    <3>2. Defaults(rows, t) \in SUBSET Address
      BY DEF Defaults, OfType
    <3> QED BY <3>1, <3>2, FS_Subset
  <2> QED BY <1>4, <2>2, <2>3, NoTwo
<1>10. ASSUME NEW f \in Clerk \ {e} PROVE WritesApart(e, f)' /\ WritesApart(f, e)'
  <2>1. Changed(f) \cap changed = {}
    <3>1. Changed(f) \subseteq Locked
      BY DEF Locked
    <3> QED BY <1>4, <3>1
  <2>2. ASSUME NEW a \in changed, NEW b \in Changed(f)
        PROVE  ~SameDefault(x.rows[a], clerk[f].rows[b]) /\ ~SameDefault(clerk[f].rows[b], x.rows[a])
    <3> SUFFICES ASSUME rows[a] # Nothing, rows[a].default, clerk[f].rows[b] # Nothing, clerk[f].rows[b].default
                 PROVE  clerk[f].rows[b].type # rows[a].type
      BY <1>5 DEF SameDefault
    <3>1. PICK t : t = rows[a].type
      OBVIOUS
    <3>2. t \in AddressType /\ a \in Defaults(rows, t)
      BY <3>1 DEF Defaults, OfType, Rows, AddressRows
    <3>3. t \notin Taken
      BY <1>3, <1>4, <3>2
    <3> QED BY <3>1, <3>3, NotTaken
  <2>3. WritesApart(e, f)'
    BY <1>6, <1>7, <2>1, <2>2 DEF WritesApart
  <2>4. WritesApart(f, e)'
    BY <1>6, <1>7, <2>1, <2>2 DEF WritesApart
  <2> QED BY <2>3, <2>4
<1>11. ASSUME NEW f \in Clerk \ {e}, NEW g \in Clerk \ {e}, f # g PROVE WritesApart(f, g)'
  <2>1. WritesApart(f, g)
    BY <1>11 DEF CustomersInv
  <2> QED BY <1>6, <1>11, <2>1 DEF WritesApart
<1>12. \A f, g \in Clerk : f # g => WritesApart(f, g)'
  BY <1>10, <1>11
<1>13. \A f \in Clerk : Staged(f)' => OneEach(AddressesAfter(f))'
  <2>1. OneEach(AddressesAfter(e))'
    BY <1>8, <1>9 DEF OneEach
  <2>2. ASSUME NEW f \in Clerk \ {e}, Staged(f)' PROVE OneEach(AddressesAfter(f))'
    <3>1. AddressesAfter(f)' = AddressesAfter(f) /\ OneEach(AddressesAfter(f))
      BY <1>6, <2>2 DEF AddressesAfter, CustomersInv
    <3> QED BY <3>1 DEF OneEach
  <2> QED BY <2>1, <2>2
<1>14. AddressTurns'
  <2> SUFFICES ASSUME ~overlap' PROVE AddressTurns'
    BY DEF AddressTurns
  <2>1. HaveDefault(address)'
    BY DEF CustomersInv, AddressTurns, HaveDefault, OfType, Defaults
  <2>2. \A f \in Clerk \ {e} : clerk'[f] = Nothing /\ ~Staged(f)' /\ ~Found(f)'
    BY <1>6 DEF Staged, Found
  <2>3. HaveDefault(AddressesAfter(e))'
    BY <1>8 DEF HaveDefault, OfType, Defaults
  <2> QED BY <1>7, <2>1, <2>2, <2>3 DEF AddressTurns
<1>15. address' \in Rows /\ OneEach(address)' /\ customer' \in {"active", "deleted"}
  BY DEF CustomersInv, OneEach
<1> QED BY <1>6, <1>12, <1>13, <1>14, <1>15 DEF CustomersInv

(* EnsureDefault: no row changes but for becoming a default, and the type has one if it has an address. *)
LEMMA Ensured ==
  ASSUME NEW rows \in Rows, NEW t \in AddressType
  PROVE  \E new \in Rows : /\ new = EnsureDefault(rows, t)
                           /\ \A u \in AddressType : /\ OfType(new, u) = OfType(rows, u)
                                                     /\ Defaults(rows, u) # {} => Defaults(new, u) # {}
                           /\ OfType(rows, t) # {} => Defaults(new, t) # {}
<1>1. CASE Defaults(rows, t) # {} \/ OfType(rows, t) = {}
  BY <1>1 DEF EnsureDefault
<1>2. CASE ~(Defaults(rows, t) # {} \/ OfType(rows, t) = {})
  <2>1. PICK m : m = Min(OfType(rows, t))
    OBVIOUS
  <2>2. m \in OfType(rows, t)
    <3>1. OfType(rows, t) \in SUBSET (1..MaxAddress)
      BY DEF OfType, Address
    <3> QED BY <1>2, <2>1, <3>1, LeastOf, MaxAddressAssumption
  <2>3. m \in Address /\ rows[m] \in AddressRows /\ rows[m].type = t
    BY <2>2 DEF OfType, Rows
  <2>4. PICK new : new = [rows EXCEPT ![m].default = TRUE]
    OBVIOUS
  <2>5. PICK row : row = [rows[m] EXCEPT !.default = TRUE]
    OBVIOUS
  <2>6. row \in AddressRows /\ row.type = t
    BY <2>3, <2>5 DEF AddressRows
  <2>7. row.default
    <3>1. "default" \in DOMAIN rows[m]
      BY <2>3 DEF AddressRows
    <3> QED BY <2>5, <3>1, Zenon
  <2>8. new = [rows EXCEPT ![m] = row]
    BY <2>4, <2>5
  <2>9. new \in Rows /\ new[m] = row /\ \A a \in Address : a # m => new[a] = rows[a]
    BY <2>3, <2>6, <2>8 DEF Rows
  <2>10. row # Nothing /\ rows[m] # Nothing
    BY <2>3, <2>6, NothingIsNoRow
  <2>11. \A u \in AddressType : OfType(new, u) = OfType(rows, u)
    BY <2>3, <2>6, <2>9, <2>10 DEF OfType
  <2>12. \A u \in AddressType : Defaults(rows, u) \subseteq Defaults(new, u)
    <3> SUFFICES ASSUME NEW u \in AddressType, NEW a \in Defaults(rows, u) PROVE a \in Defaults(new, u)
      OBVIOUS
    <3>1. a \in Address /\ a \in OfType(rows, u) /\ rows[a].default
      BY DEF Defaults, OfType
    <3>2. new[a].default
      BY <2>7, <2>9, <3>1
    <3> QED BY <2>11, <3>1, <3>2 DEF Defaults
  <2>13. m \in Defaults(new, t)
    BY <2>2, <2>3, <2>7, <2>9, <2>11 DEF Defaults
  <2>14. new = EnsureDefault(rows, t)
    BY <1>2, <2>1, <2>4, Zenon DEF EnsureDefault
  <2> QED BY <2>9, <2>11, <2>12, <2>13, <2>14
<1> QED BY <1>1, <1>2

(* ClearDefault: the type has no default, and nothing else changes. *)
LEMMA DefaultsCleared ==
  ASSUME NEW rows \in Rows, NEW t \in AddressType
  PROVE  \E new \in Rows : /\ new = ClearDefault(rows, t)
                           /\ \A a \in Address : (new[a] = Nothing <=> rows[a] = Nothing)
                                                 /\ (rows[a] # Nothing => new[a].type = rows[a].type)
                                                 /\ (rows[a] # Nothing /\ rows[a].type # t => new[a] = rows[a])
<1>1. PICK new : new = [a \in Address |-> IF a \in Defaults(rows, t) THEN [rows[a] EXCEPT !.default = FALSE] ELSE rows[a]]
  OBVIOUS
<1>2. ASSUME NEW a \in Address
      PROVE  /\ new[a] \in AddressRows \cup {Nothing}
             /\ new[a] = Nothing <=> rows[a] = Nothing
             /\ rows[a] # Nothing => new[a].type = rows[a].type
             /\ rows[a] # Nothing /\ rows[a].type # t => new[a] = rows[a]
  <2>1. CASE a \in Defaults(rows, t)
    <3>1. rows[a] # Nothing /\ rows[a].type = t /\ rows[a] \in AddressRows
      BY <2>1 DEF Defaults, OfType, Rows
    <3>2. new[a] = [rows[a] EXCEPT !.default = FALSE]
      BY <1>1, <2>1
    <3>3. new[a] \in AddressRows /\ new[a].type = rows[a].type
      BY <3>1, <3>2 DEF AddressRows
    <3> QED BY <3>1, <3>3, NothingIsNoRow
  <2>2. CASE a \notin Defaults(rows, t)
    BY <1>1, <2>2 DEF Rows
  <2> QED BY <2>1, <2>2
<1>3. new = [a \in Address |-> new[a]]
  BY <1>1
<1>4. new \in Rows
  BY <1>2, <1>3 DEF Rows
<1>5. new = ClearDefault(rows, t)
  BY <1>1 DEF ClearDefault
<1> QED BY <1>2, <1>4, <1>5

(* A row is set in a table where one type may have lost its default: the others keep theirs. *)
LEMMA OthersHave ==
  ASSUME NEW old \in Rows, HaveDefault(old), NEW t \in AddressType, NEW rows \in Rows, NEW a \in Address,
         NEW base \in Rows, base = old \/ base = ClearDefault(old, t),
         \A b \in Address : b # a => rows[b] = base[b],
         NEW u \in AddressType, u # t, old[a] # Nothing => old[a].type # u, rows[a] # Nothing => rows[a].type # u,
         OfType(rows, u) # {}
  PROVE  Defaults(rows, u) # {}
<1>1. \A b \in Address : (base[b] = Nothing <=> old[b] = Nothing)
                         /\ (old[b] # Nothing => base[b].type = old[b].type)
                         /\ (old[b] # Nothing /\ old[b].type # t => base[b] = old[b])
  BY DefaultsCleared
<1>2. PICK b \in Address : rows[b] # Nothing /\ rows[b].type = u
  BY DEF OfType
<1>3. b # a /\ old[b] # Nothing /\ old[b].type = u
  BY <1>1, <1>2
<1>4. b \in OfType(old, u)
  BY <1>3 DEF OfType
<1>5. PICK c \in Address : old[c] # Nothing /\ old[c].type = u /\ old[c].default
  BY <1>4 DEF HaveDefault, Defaults, OfType
<1>6. c # a /\ rows[c] = old[c]
  BY <1>1, <1>5
<1>7. c \in Defaults(rows, u)
  BY <1>5, <1>6 DEF Defaults, OfType
<1> QED BY <1>7

(* An address is added, its type's default cleared before if it is the new one, *)
LEMMA AddInv ==
  ASSUME CustomersInv, NEW e \in Clerk, NEW t \in AddressType, NEW default \in BOOLEAN, AddAddress(e, t, default)
  PROVE  CustomersInv'
<1>1. PICK a : a = Min(Free)
  OBVIOUS
<1>2. PICK base : base = IF default THEN ClearDefault(address, t) ELSE address
  OBVIOUS
<1>3. PICK row : row = [type |-> t, default |-> default]
  OBVIOUS
<1>4. PICK rows : rows = [base EXCEPT ![a] = row]
  OBVIOUS
<1>5. /\ clerk[e] = Nothing /\ Free # {} /\ Stage(e, EnsureDefault(rows, t))
      /\ overlap' = (overlap \/ \E f \in Clerk : clerk[f] # Nothing)
      /\ customer' = customer /\ address' = address
  BY <1>1, <1>2, <1>3, <1>4, Zenon DEF AddAddress
<1>6. a \in Address /\ address[a] = Nothing
  <2>1. Free \in SUBSET (1..MaxAddress)
    BY DEF Free, Address
  <2>2. a \in Free
    BY <1>1, <1>5, <2>1, LeastOf, MaxAddressAssumption
  <2>3. a \in Address /\ a >= a
    BY <2>1, <2>2, MaxAddressAssumption DEF Address
  <2> QED BY <2>2, <2>3 DEF Free
<1>7. address \in Rows
  BY DEF CustomersInv
<1>8. base \in Rows /\ (base = address \/ base = ClearDefault(address, t))
  <2>1. ClearDefault(address, t) \in Rows
    BY <1>7, DefaultsCleared
  <2> QED BY <1>2, <1>7, <2>1
<1>9. row \in AddressRows /\ row # Nothing /\ row.type = t
  <2>1. row \in AddressRows
    BY <1>3 DEF AddressRows
  <2> QED BY <1>3, <2>1, NothingIsNoRow
<1>10. rows \in Rows /\ rows[a] = row /\ \A b \in Address : b # a => rows[b] = base[b]
  BY <1>4, <1>6, <1>8, <1>9 DEF Rows
<1>11. PICK new \in Rows : /\ new = EnsureDefault(rows, t)
                           /\ \A u \in AddressType : /\ OfType(new, u) = OfType(rows, u)
                                                     /\ Defaults(rows, u) # {} => Defaults(new, u) # {}
                           /\ OfType(rows, t) # {} => Defaults(new, t) # {}
  BY <1>10, Ensured
<1>12. ASSUME HaveDefault(address) PROVE HaveDefault(new)
  <2> SUFFICES ASSUME NEW u \in AddressType, OfType(rows, u) # {}, u # t PROVE Defaults(rows, u) # {}
    BY <1>11 DEF HaveDefault
  <2> QED BY <1>6, <1>7, <1>8, <1>9, <1>10, <1>12, OthersHave
<1>13. ~overlap' => ~overlap /\ HaveDefault(new) /\ \A f \in Clerk \ {e} : clerk[f] = Nothing
  BY <1>5, <1>12 DEF CustomersInv, AddressTurns
<1>14. overlap' \in BOOLEAN
  BY <1>5 DEF CustomersInv
<1> QED BY <1>5, <1>11, <1>13, <1>14, StageInv

(* In turn, what a clerk has found is as it was, and nobody else is at work. *)
LEMMA AloneSince ==
  ASSUME CustomersInv, NEW e \in Clerk, Found(e), address[clerk[e].found] # Nothing
  PROVE  /\ clerk[e].found \in Address /\ clerk[e].type \in AddressType
         /\ ~overlap => /\ HaveDefault(address) /\ address[clerk[e].found].type = clerk[e].type
                        /\ \A f \in Clerk \ {e} : clerk[f] = Nothing
<1>1. clerk[e] # Nothing
  BY DEF Found
<1>2. clerk[e].found \in Address /\ clerk[e].type \in AddressType
  BY <1>1, ClerkKinds
<1> QED BY <1>1, <1>2 DEF CustomersInv, AddressTurns

(* changed, *)
LEMMA UpdateInv ==
  ASSUME CustomersInv, NEW e \in Clerk, NEW t \in AddressType, NEW default \in {{TRUE}, {FALSE}, {}},
         UpdateAddress(e, t, default)
  PROVE  CustomersInv'
<1>1. PICK a : a = clerk[e].found
  OBVIOUS
<1>2. PICK base : base = IF default = {TRUE} THEN ClearDefault(address, t) ELSE address
  OBVIOUS
<1>3. PICK row : row = [type |-> t, default |-> IF default = {} THEN base[a].default ELSE default = {TRUE}]
  OBVIOUS
<1>4. PICK rows : rows = [base EXCEPT ![a] = row]
  OBVIOUS
<1>5. PICK old : old = clerk[e].type
  OBVIOUS
<1>6. PICK changed : changed = EnsureDefault(rows, old)
  OBVIOUS
<1>7. /\ Found(e) /\ address[a] # Nothing
      /\ Stage(e, IF t # old THEN EnsureDefault(changed, t) ELSE changed)
      /\ customer' = customer /\ address' = address /\ overlap' = overlap
  BY <1>1, <1>2, <1>3, <1>4, <1>5, <1>6, Zenon DEF UpdateAddress
<1>8. /\ a \in Address /\ old \in AddressType
      /\ ~overlap => HaveDefault(address) /\ address[a].type = old /\ \A f \in Clerk \ {e} : clerk[f] = Nothing
  BY <1>1, <1>5, <1>7, AloneSince
<1>9. address \in Rows
  BY DEF CustomersInv
<1>10. base \in Rows /\ (base = address \/ base = ClearDefault(address, t)) /\ base[a] # Nothing
  <2>1. PICK new \in Rows : /\ new = ClearDefault(address, t)
                            /\ \A b \in Address : new[b] = Nothing <=> address[b] = Nothing
    BY <1>9, DefaultsCleared
  <2> QED BY <1>2, <1>7, <1>8, <1>9, <2>1
<1>11. row \in AddressRows /\ row # Nothing /\ row.type = t
  <2>1. PICK d : d = IF default = {} THEN base[a].default ELSE default = {TRUE}
    OBVIOUS
  <2>2. base[a].default \in BOOLEAN
    BY <1>8, <1>10 DEF Rows, AddressRows
  <2>3. (default = {TRUE}) \in BOOLEAN
    OBVIOUS
  <2>4. d \in BOOLEAN
    BY <2>1, <2>2, <2>3, Zenon
  <2>5. row = [type |-> t, default |-> d]
    BY <1>3, <2>1
  <2>6. row \in AddressRows
    BY <2>4, <2>5 DEF AddressRows
  <2> QED BY <2>5, <2>6, NothingIsNoRow
<1>12. rows \in Rows /\ rows[a] = row /\ \A b \in Address : b # a => rows[b] = base[b]
  BY <1>4, <1>8, <1>10, <1>11 DEF Rows
<1>13. /\ changed \in Rows
       /\ \A u \in AddressType : /\ OfType(changed, u) = OfType(rows, u)
                                 /\ Defaults(rows, u) # {} => Defaults(changed, u) # {}
       /\ OfType(rows, old) # {} => Defaults(changed, old) # {}
  BY <1>6, <1>8, <1>12, Ensured
<1>14. PICK last : last = IF t # old THEN EnsureDefault(changed, t) ELSE changed
  OBVIOUS
<1>15. /\ last \in Rows
       /\ \A u \in AddressType : /\ OfType(last, u) = OfType(rows, u)
                                 /\ Defaults(changed, u) # {} => Defaults(last, u) # {}
       /\ OfType(rows, t) # {} => Defaults(last, t) # {}
  <2>1. CASE t = old
    BY <1>13, <1>14, <2>1
  <2>2. CASE t # old
    <3>1. PICK new \in Rows : /\ new = EnsureDefault(changed, t)
                              /\ \A u \in AddressType : /\ OfType(new, u) = OfType(changed, u)
                                                        /\ Defaults(changed, u) # {} => Defaults(new, u) # {}
                              /\ OfType(changed, t) # {} => Defaults(new, t) # {}
      BY <1>13, Ensured
    <3>2. last = new
      BY <1>14, <2>2, <3>1
    <3> QED BY <1>13, <3>1, <3>2
  <2> QED BY <2>1, <2>2
<1>16. ASSUME ~overlap PROVE HaveDefault(last)
  <2> SUFFICES ASSUME NEW u \in AddressType, OfType(rows, u) # {}, u # t, u # old PROVE Defaults(rows, u) # {}
    BY <1>8, <1>13, <1>15 DEF HaveDefault
  <2>1. HaveDefault(address) /\ address[a].type # u /\ rows[a].type # u
    BY <1>8, <1>11, <1>12, <1>16
  <2> QED BY <1>8, <1>9, <1>10, <1>12, <2>1, OthersHave
<1>17. ~overlap' => ~overlap /\ HaveDefault(last) /\ \A f \in Clerk \ {e} : clerk[f] = Nothing
  BY <1>7, <1>8, <1>16
<1>18. overlap' \in BOOLEAN /\ Stage(e, last)
  BY <1>7, <1>14 DEF CustomersInv
<1> QED BY <1>7, <1>15, <1>17, <1>18, StageInv

(* or deleted: then another of its type becomes the default. *)
LEMMA DeleteInv == ASSUME CustomersInv, NEW e \in Clerk, DeleteAddress(e) PROVE CustomersInv'
<1>1. PICK a : a = clerk[e].found
  OBVIOUS
<1>2. PICK rows : rows = [address EXCEPT ![a] = Nothing]
  OBVIOUS
<1>3. PICK old : old = clerk[e].type
  OBVIOUS
<1>4. /\ Found(e) /\ address[a] # Nothing /\ Stage(e, EnsureDefault(rows, old))
      /\ customer' = customer /\ address' = address /\ overlap' = overlap
  BY <1>1, <1>2, <1>3, Zenon DEF DeleteAddress
<1>5. /\ a \in Address /\ old \in AddressType
      /\ ~overlap => HaveDefault(address) /\ address[a].type = old /\ \A f \in Clerk \ {e} : clerk[f] = Nothing
  BY <1>1, <1>3, <1>4, AloneSince
<1>6. address \in Rows
  BY DEF CustomersInv
<1>7. rows \in Rows /\ rows[a] = Nothing /\ \A b \in Address : b # a => rows[b] = address[b]
  BY <1>2, <1>5, <1>6 DEF Rows
<1>8. PICK new \in Rows : /\ new = EnsureDefault(rows, old)
                          /\ \A u \in AddressType : /\ OfType(new, u) = OfType(rows, u)
                                                    /\ Defaults(rows, u) # {} => Defaults(new, u) # {}
                          /\ OfType(rows, old) # {} => Defaults(new, old) # {}
  BY <1>5, <1>7, Ensured
<1>9. ASSUME ~overlap PROVE HaveDefault(new)
  <2> SUFFICES ASSUME NEW u \in AddressType, OfType(rows, u) # {}, u # old PROVE Defaults(rows, u) # {}
    BY <1>8 DEF HaveDefault
  <2> QED BY <1>5, <1>6, <1>7, <1>9, OthersHave
<1>10. ~overlap' => ~overlap /\ HaveDefault(new) /\ \A f \in Clerk \ {e} : clerk[f] = Nothing
  BY <1>4, <1>5, <1>9
<1>11. overlap' \in BOOLEAN
  BY <1>4 DEF CustomersInv
<1> QED BY <1>4, <1>8, <1>10, <1>11, StageInv

(* No addresses. *)
LEMMA CustomersInitInv == CustomersInit => CustomersInv
<1> SUFFICES ASSUME CustomersInit PROVE CustomersInv
  OBVIOUS
<1>1. /\ \A a \in Address : address[a] = Nothing
      /\ \A e \in Clerk : clerk[e] = Nothing
  BY DEF CustomersInit
<1>2. \A e \in Clerk : ~Found(e) /\ ~Staged(e) /\ Changed(e) = {}
  BY <1>1 DEF Found, Staged, Changed
<1>3. OneEach(address) /\ HaveDefault(address)
  BY <1>1 DEF OneEach, SameDefault, HaveDefault, OfType
<1>4. address \in Rows /\ clerk \in [Clerk -> Finding \cup Staging \cup {Nothing}]
  BY DEF CustomersInit, Rows
<1>5. overlap \in BOOLEAN
  BY DEF CustomersInit
<1>6. customer \in {"active", "deleted"}
  BY DEF CustomersInit
<1> QED BY <1>1, <1>2, <1>3, <1>4, <1>5, <1>6 DEF CustomersInv, WritesApart, AddressTurns

(* Every step of a request keeps the invariant of addresses, *)
LEMMA CustomersNextInv == CustomersInv /\ [CustomersNext]_customerVars => CustomersInv'
<1> SUFFICES ASSUME CustomersInv, [CustomersNext]_customerVars PROVE CustomersInv'
  OBVIOUS
<1>1. ASSUME address' = address, clerk' = clerk, overlap' = overlap, customer' \in {"active", "deleted"} PROVE CustomersInv'
  <2>1. \A e \in Clerk : (Found(e)' <=> Found(e)) /\ (Staged(e)' <=> Staged(e)) /\ Changed(e)' = Changed(e)
    BY <1>1 DEF Found, Staged, Changed
  <2>2. \A e \in Clerk : AddressesAfter(e)' = AddressesAfter(e)
    BY <1>1, <2>1 DEF AddressesAfter
  <2>3. \A e, f \in Clerk : WritesApart(e, f) => WritesApart(e, f)'
    BY <1>1, <2>1 DEF WritesApart
  <2>4. \A e \in Clerk : /\ OneEach(AddressesAfter(e)) => OneEach(AddressesAfter(e))'
                         /\ HaveDefault(AddressesAfter(e)) => HaveDefault(AddressesAfter(e))'
    BY <2>2 DEF OneEach, HaveDefault, OfType, Defaults
  <2>5. OneEach(address)' /\ (HaveDefault(address) => HaveDefault(address)')
    BY <1>1 DEF CustomersInv, OneEach, HaveDefault, OfType, Defaults
  <2>6. AddressTurns'
    BY <1>1, <2>1, <2>4, <2>5 DEF CustomersInv, AddressTurns
  <2> QED BY <1>1, <2>1, <2>3, <2>4, <2>5, <2>6 DEF CustomersInv
<1>2. CASE UNCHANGED customerVars
  BY <1>1, <1>2 DEF customerVars, CustomersInv
<1>3. CASE DeleteCustomer
  BY <1>1, <1>3 DEF DeleteCustomer
<1>4. CASE CustomersNext
  BY <1>3, <1>4, FindAddressInv, AddInv, UpdateInv, DeleteInv, CommitAddressInv, AbortAddressInv DEF CustomersNext
<1> QED BY <1>2, <1>4

(* which is more than was promised. *)
LEMMA CustomersTell == CustomersInv => CustomersTypeOK /\ OneDefaultInTurn
<1> SUFFICES ASSUME CustomersInv PROVE CustomersTypeOK /\ OneDefaultInTurn
  OBVIOUS
<1>1. ASSUME NEW t \in AddressType
      PROVE  /\ IsFiniteSet(Defaults(address, t)) /\ Cardinality(Defaults(address, t)) <= 1
             /\ ~overlap /\ OfType(address, t) # {} => Cardinality(Defaults(address, t)) = 1
  <2>1. ASSUME NEW a \in Defaults(address, t), NEW b \in Defaults(address, t) PROVE a = b
    BY DEF CustomersInv, OneEach, SameDefault, Defaults, OfType
  <2>2. IsFiniteSet(Defaults(address, t)) /\ Cardinality(Defaults(address, t)) <= 1
    BY <2>1, AtMostOne
  <2>3. Cardinality(Defaults(address, t)) \in Nat /\ (Cardinality(Defaults(address, t)) = 0 => Defaults(address, t) = {})
    BY <2>2, FS_CardinalityType, FS_EmptySet
  <2>4. ASSUME ~overlap, OfType(address, t) # {} PROVE Cardinality(Defaults(address, t)) = 1
    <3>1. Defaults(address, t) # {}
      BY <2>4 DEF CustomersInv, AddressTurns, HaveDefault
    <3> QED BY <2>2, <2>3, <3>1
  <2> QED BY <2>2, <2>4
<1>2. CustomersTypeOK
  BY <1>1 DEF CustomersInv, CustomersTypeOK
<1> QED BY <1>1, <1>2 DEF OneDefaultInTurn

-----------------------------------------------------------------------------
(* The domains of a workspace (Workspace). *)

(* No two rows have an entry of a unique index in common. *)
Disjoint(r, s) == Entries(r) \cap Entries(s) = {}
Indexed(rows) == \A c, e \in Claim : c # e /\ rows[c] # Unclaimed /\ rows[e] # Unclaimed => Disjoint(rows[c], rows[e])
(* What the table will be when a transaction commits. *)
RowsAfter(o) == [c \in Claim |-> IF c \in Writing(o) THEN owner[o].rows[c] ELSE claim[c]]
OnClaim == {"primary", "verify", "remove"}
(* The claim a request has found is its tenant's own. *)
OwnTenant(o) ==
    owner[o] # Unclaimed /\ owner[o].step \in OnClaim =>
        owner[o].id \in Claim /\ (claim[owner[o].id] # Unclaimed => claim[owner[o].id].of = owner[o].of)
(* A row that changes stays its tenant's, and a verified one verified; a new one nobody has looked up. *)
FitsClaim(c, row, does, by) ==
    IF claim[c] = Unclaimed
    THEN \A p \in Owner : owner[p] # Unclaimed /\ owner[p].step \in OnClaim => owner[p].id # c
    ELSE /\ row # Unclaimed => row.of = claim[c].of
         /\ claim[c].verified => \/ row # Unclaimed /\ row.verified
                                 \/ does = "remove" /\ by = claim[c].of
ChangesFit(o) == \A c \in Writing(o) : FitsClaim(c, owner[o].rows[c], owner[o].does, owner[o].by)
(* Two open transactions change different rows, and no two new rows share an entry. *)
Writers(o, p) ==
    /\ Writing(o) \cap Writing(p) = {}
    /\ \A c \in Writing(o), e \in Writing(p) :
          owner[o].rows[c] # Unclaimed /\ owner[p].rows[e] # Unclaimed => Disjoint(owner[o].rows[c], owner[p].rows[e])
HavePrimary(rows) == \A t \in Tenant : ClaimsOf(rows, t) # {} => PrimaryClaims(rows, t) # {}
(* While requests do not overlap, a tenant with claims has a primary, before and after. *)
Turns ==
    jostled \/ /\ \A o, p \in Owner : owner[o] # Unclaimed /\ owner[p] # Unclaimed => o = p
               /\ HavePrimary(claim)
               /\ \A o \in Owner : Asks(o, "commit") => HavePrimary(RowsAfter(o))
Table == [Claim -> ClaimRows \cup {Unclaimed}]
DomainsInv ==
    /\ claim \in Table /\ jostled \in BOOLEAN
    /\ owner \in [Owner -> Asking \cup Commits \cup {Unclaimed}]
    /\ Indexed(claim)
    /\ \A o \in Owner : OwnTenant(o)
    /\ \A o \in Owner : Asks(o, "commit") => Indexed(RowsAfter(o)) /\ ChangesFit(o)
    /\ \A o, p \in Owner : o # p => Writers(o, p)
    /\ Turns

(* It does not matter which row is named first. *)
LEMMA DisjointSym == ASSUME NEW r, NEW s, Disjoint(r, s) PROVE Disjoint(s, r)
BY DEF Disjoint

(* What the unique indexes keep apart. *)
LEMMA SharedEntry ==
  ASSUME NEW r \in ClaimRows, NEW s \in ClaimRows, Disjoint(r, s)
  PROVE  /\ ~(r.of = s.of /\ r.name = s.name)
         /\ ~(r.verified /\ s.verified /\ r.name = s.name)
         /\ ~(r.primary /\ s.primary /\ r.of = s.of)
<1>1. ASSUME r.of = s.of, r.name = s.name PROVE FALSE
  <2>1. <<r.of, r.name>> \in Entries(r) /\ <<r.of, r.name>> \in Entries(s)
    BY <1>1, Zenon DEF Entries
  <2> QED BY <2>1 DEF Disjoint
<1>2. ASSUME r.verified, s.verified, r.name = s.name PROVE FALSE
  <2>1. <<"verified", r.name>> \in Entries(r) /\ <<"verified", r.name>> \in Entries(s)
    BY <1>2, Zenon DEF Entries
  <2> QED BY <2>1 DEF Disjoint
<1>3. ASSUME r.primary, s.primary, r.of = s.of PROVE FALSE
  <2>1. <<"primary", r.of>> \in Entries(r) /\ <<"primary", r.of>> \in Entries(s)
    BY <1>3, Zenon DEF Entries
  <2> QED BY <2>1 DEF Disjoint
<1> QED BY <1>1, <1>2, <1>3

(* The claims of a set have a first one. *)
LEMMA LeastClaim == ASSUME NEW S \in SUBSET Claim, S # {} PROVE Min(S) \in S
<1> DEFINE Below(m) == {k \in S : k <= m}
           T == {Below(m) : m \in S}
<1>1. S \subseteq Nat /\ IsFiniteSet(S)
  <2>1. IsFiniteSet(Claim) /\ Claim \subseteq Nat
    BY FS_Interval, MaxClaimAssumption DEF Claim
  <2> QED BY <2>1, FS_Subset
<1>2. IsWellFoundedOn(StrictSubsetOrdering(S), FiniteSubsetsOf(S))
  BY <1>1, FS_StrictSubsetOrderingWellFounded
<1>3. T \subseteq FiniteSubsetsOf(S) /\ T # {}
  <2>1. \A m \in S : Below(m) \in SUBSET S
    OBVIOUS
  <2>2. \A A \in SUBSET S : IsFiniteSet(A)
    BY <1>1, FS_Subset
  <2> HIDE DEF Below
  <2>3. QED BY <2>1, <2>2 DEF FiniteSubsetsOf
<1>4. PICK x \in T : \A y \in T : <<y, x>> \notin StrictSubsetOrdering(S)
  <2> HIDE DEF T
  <2>1. QED BY <1>2, <1>3, WFMin
<1>5. PICK m \in S : x = Below(m)
  OBVIOUS
<1>6. ASSUME NEW k \in S, ~(m <= k) PROVE FALSE
  <2>1. m \notin Below(k) /\ m \in Below(m) /\ Below(k) \subseteq Below(m)
    <3>1. m \in Nat /\ k \in Nat /\ k < m /\ \A j \in S : j \in Nat
      BY <1>1, <1>6
    <3>2. \A j \in Nat : j <= k => j <= m
      BY <3>1
    <3>3. ~(m <= k) /\ m <= m
      BY <3>1
    <3>4. QED BY <3>1, <3>2, <3>3
  <2>2. <<Below(k), Below(m)>> \in StrictSubsetOrdering(S)
    <3>1. Below(k) \in SUBSET S /\ Below(m) \in SUBSET S
      OBVIOUS
    <3> HIDE DEF Below
    <3>2. QED BY <2>1, <3>1 DEF StrictSubsetOrdering
  <2>3. Below(k) \in T
    BY <1>6
  <2> HIDE DEF T, Below
  <2>4. QED BY <1>4, <1>5, <2>2, <2>3
<1>7. \E a \in S : \A b \in S : a <= b
  BY <1>6
<1> QED BY <1>7, Zenon DEF Min

(* Nothing of a row changes but whether it is the primary one, and no primary is unset. *)
SameButHeirs(new, rows) ==
    \A c \in Claim :
        /\ new[c] = Unclaimed <=> rows[c] = Unclaimed
        /\ rows[c] # Unclaimed => /\ new[c].of = rows[c].of /\ new[c].name = rows[c].name
                                  /\ new[c].verified = rows[c].verified
                                  /\ rows[c].primary => new[c].primary

(* A row that becomes primary. *)
LEMMA MadePrimary ==
  ASSUME NEW row \in ClaimRows
  PROVE  \E new \in ClaimRows : /\ new = [row EXCEPT !.primary = TRUE]
                                /\ new.of = row.of /\ new.name = row.name /\ new.verified = row.verified /\ new.primary
<1>1. PICK new : new = [row EXCEPT !.primary = TRUE]
  OBVIOUS
<1>2. new \in ClaimRows
  BY <1>1 DEF ClaimRows
<1>3. new.of = row.of /\ new.name = row.name /\ new.verified = row.verified
  BY <1>1 DEF ClaimRows
<1>4. new.primary
  <2>1. "primary" \in DOMAIN row
    BY DEF ClaimRows
  <2> QED BY <1>1, <2>1, Zenon
<1> QED BY <1>1, <1>2, <1>3, <1>4

(* Rows that become primary, *)
LEMMA WithHeirs ==
  ASSUME NEW rows \in Table, NEW heirs \in SUBSET Claim, \A c \in heirs : rows[c] # Unclaimed
  PROVE  \E new \in Table : /\ new = [c \in Claim |-> IF c \in heirs THEN [rows[c] EXCEPT !.primary = TRUE] ELSE rows[c]]
                            /\ SameButHeirs(new, rows)
                            /\ \A c \in heirs : new[c].primary
<1>1. \A c \in heirs : rows[c] \in ClaimRows
  BY DEF Table
<1>2. \A c \in heirs : \E r \in ClaimRows : /\ r = [rows[c] EXCEPT !.primary = TRUE]
                                            /\ r.of = rows[c].of /\ r.name = rows[c].name
                                            /\ r.verified = rows[c].verified /\ r.primary
  BY <1>1, MadePrimary
<1>3. PICK new : new = [c \in Claim |-> IF c \in heirs THEN [rows[c] EXCEPT !.primary = TRUE] ELSE rows[c]]
  OBVIOUS
<1>4. \A c \in Claim : IF c \in heirs
                       THEN /\ new[c] \in ClaimRows /\ new[c].of = rows[c].of /\ new[c].name = rows[c].name
                            /\ new[c].verified = rows[c].verified /\ new[c].primary
                       ELSE new[c] = rows[c]
  <2> SUFFICES ASSUME NEW c \in Claim PROVE
        IF c \in heirs THEN /\ new[c] \in ClaimRows /\ new[c].of = rows[c].of /\ new[c].name = rows[c].name
                            /\ new[c].verified = rows[c].verified /\ new[c].primary
                       ELSE new[c] = rows[c]
    OBVIOUS
  <2>1. CASE c \in heirs
    <3>1. new[c] = [rows[c] EXCEPT !.primary = TRUE]
      BY <1>3, <2>1
    <3>2. PICK r \in ClaimRows : /\ r = [rows[c] EXCEPT !.primary = TRUE]
                                 /\ r.of = rows[c].of /\ r.name = rows[c].name
                                 /\ r.verified = rows[c].verified /\ r.primary
      BY <1>2, <2>1, Zenon
    <3>3. new[c] = r
      BY <3>1, <3>2, Zenon
    <3> QED BY <2>1, <3>2, <3>3, Zenon
  <2>2. CASE c \notin heirs
    BY <1>3, <2>2
  <2> QED BY <2>1, <2>2
<1>5. new = [c \in Claim |-> new[c]]
  BY <1>3
<1>6. new \in Table
  <2>1. \A c \in Claim : new[c] \in ClaimRows \cup {Unclaimed}
    BY <1>4 DEF Table
  <2> QED BY <1>5, <2>1 DEF Table
<1>7. SameButHeirs(new, rows)
  <2>1. Unclaimed \notin ClaimRows
    BY UnclaimedAssumption
  <2> QED BY <1>4, <2>1 DEF SameButHeirs
<1> QED BY <1>3, <1>4, <1>6, <1>7

(* and what that does to a table: every tenant that had a primary or was to get one has one. *)
LEMMA HeirsFound ==
  ASSUME NEW rows \in Table, NEW T \in SUBSET Tenant
  PROVE  \E new \in Table : /\ new = EnsurePrimary(rows, T)
                            /\ SameButHeirs(new, rows)
                            /\ \A t \in Tenant : /\ ClaimsOf(rows, t) # {}
                                                 /\ t \in T \/ PrimaryClaims(rows, t) # {}
                                                 => PrimaryClaims(new, t) # {}
<1> DEFINE bereft == {t \in T : ClaimsOf(rows, t) # {} /\ PrimaryClaims(rows, t) = {}}
<1>1. PICK heirs : heirs = {Min(ClaimsOf(rows, t)) : t \in bereft}
  OBVIOUS
<1>2. \A t \in bereft : Min(ClaimsOf(rows, t)) \in ClaimsOf(rows, t)
  <2>1. \A t \in bereft : ClaimsOf(rows, t) \in SUBSET Claim /\ ClaimsOf(rows, t) # {}
    BY DEF ClaimsOf
  <2> HIDE DEF bereft
  <2> QED BY <2>1, LeastClaim
<1>3. heirs \in SUBSET Claim /\ \A c \in heirs : rows[c] # Unclaimed
  <2>1. \A c \in heirs : \E t \in bereft : c \in ClaimsOf(rows, t)
    BY <1>1, <1>2
  <2> HIDE DEF bereft
  <2> QED BY <2>1 DEF ClaimsOf
<1>4. PICK new \in Table : /\ new = [c \in Claim |-> IF c \in heirs THEN [rows[c] EXCEPT !.primary = TRUE] ELSE rows[c]]
                           /\ SameButHeirs(new, rows)
                           /\ \A c \in heirs : new[c].primary
  BY <1>3, WithHeirs
<1>5. new = EnsurePrimary(rows, T)
  BY <1>1, <1>4, Zenon DEF EnsurePrimary
<1>6. ASSUME NEW t \in Tenant, ClaimsOf(rows, t) # {}, t \in T \/ PrimaryClaims(rows, t) # {}
      PROVE  PrimaryClaims(new, t) # {}
  <2>1. CASE PrimaryClaims(rows, t) # {}
    <3>1. PICK c \in PrimaryClaims(rows, t) : TRUE
      BY <2>1
    <3>2. c \in Claim /\ rows[c] # Unclaimed /\ rows[c].of = t /\ rows[c].primary
      BY <3>1 DEF PrimaryClaims, ClaimsOf
    <3>3. new[c] # Unclaimed /\ new[c].of = t /\ new[c].primary
      BY <1>4, <3>2 DEF SameButHeirs
    <3>4. c \in PrimaryClaims(new, t)
      BY <3>2, <3>3 DEF PrimaryClaims, ClaimsOf
    <3> QED BY <3>4
  <2>2. CASE PrimaryClaims(rows, t) = {}
    <3>1. t \in bereft
      BY <1>6, <2>2
    <3>2. PICK c : c = Min(ClaimsOf(rows, t))
      OBVIOUS
    <3>3. c \in ClaimsOf(rows, t) /\ c \in heirs
      BY <1>1, <1>2, <3>1, <3>2
    <3>4. c \in Claim /\ rows[c] # Unclaimed /\ rows[c].of = t
      BY <3>3 DEF ClaimsOf
    <3>5. new[c] # Unclaimed /\ new[c].of = t /\ new[c].primary
      BY <1>4, <3>3, <3>4 DEF SameButHeirs
    <3>6. c \in PrimaryClaims(new, t)
      BY <3>4, <3>5 DEF PrimaryClaims, ClaimsOf
    <3> QED BY <3>6
  <2> QED BY <2>1, <2>2
<1> QED BY <1>4, <1>5, <1>6

(* A request is about to write, or has written in a transaction that is still open. *)
LEMMA OwnerKinds ==
  ASSUME DomainsInv, NEW o \in Owner, owner[o] # Unclaimed
  PROVE  \/ /\ owner[o].step = "commit" /\ Asks(o, "commit") /\ owner[o] \in Commits
            /\ Writing(o) \in SUBSET Claim /\ owner[o].rows \in [Writing(o) -> ClaimRows \cup {Unclaimed}]
         \/ /\ owner[o].step # "commit" /\ ~Asks(o, "commit") /\ owner[o] \in Asking /\ Writing(o) = {}
<1>1. owner[o] \in Asking \/ owner[o] \in Commits
  BY DEF DomainsInv
<1>2. CASE owner[o] \in Asking
  <2>1. owner[o].step # "commit"
    BY <1>2 DEF Asking
  <2> QED BY <1>2, <2>1 DEF Asks, Writing
<1>3. CASE owner[o] \in Commits
  <2>1. /\ owner[o].step = "commit"
        /\ owner[o].rows \in UNION {[changed -> ClaimRows \cup {Unclaimed}] : changed \in SUBSET Claim}
    BY <1>3 DEF Commits
  <2>2. PICK changed \in SUBSET Claim : owner[o].rows \in [changed -> ClaimRows \cup {Unclaimed}]
    BY <2>1
  <2>3. Writing(o) = changed /\ Asks(o, "commit")
    BY <2>1, <2>2 DEF Asks, Writing
  <2> QED BY <1>3, <2>1, <2>2, <2>3
<1> QED BY <1>1, <1>2, <1>3

(* What it will leave is a table. *)
LEMMA AfterIsTable == ASSUME DomainsInv, NEW o \in Owner PROVE RowsAfter(o) \in Table /\ Writing(o) \in SUBSET Claim
<1>1. CASE owner[o] = Unclaimed
  BY <1>1 DEF Asks, Writing, RowsAfter, Table, DomainsInv
<1>2. CASE owner[o] # Unclaimed
  <2>1. Writing(o) \in SUBSET Claim /\ \A c \in Writing(o) : owner[o].rows[c] \in ClaimRows \cup {Unclaimed}
    BY <1>2, OwnerKinds
  <2> QED BY <2>1 DEF RowsAfter, Table, DomainsInv
<1> QED BY <1>1, <1>2

(* What the others have found and written stays as it was. *)
LEMMA OthersStay ==
  ASSUME DomainsInv, NEW o \in Owner, NEW x \in Asking \cup Commits \cup {Unclaimed},
         owner' = [owner EXCEPT ![o] = x], claim' = claim,
         x # Unclaimed /\ x.step \in OnClaim => x.id \in Claim /\ claim[x.id] # Unclaimed
  PROVE  /\ owner' \in [Owner -> Asking \cup Commits \cup {Unclaimed}]
         /\ \A p \in Owner \ {o} :
              /\ OwnTenant(p)'
              /\ Asks(p, "commit")' => Asks(p, "commit") /\ RowsAfter(p)' = RowsAfter(p) /\ ChangesFit(p)'
              /\ \A q \in Owner \ {o} : p # q => Writers(p, q)'
<1>1. owner' \in [Owner -> Asking \cup Commits \cup {Unclaimed}] /\ owner'[o] = x
      /\ \A p \in Owner \ {o} : owner'[p] = owner[p]
  BY DEF DomainsInv
<1>2. ASSUME NEW p \in Owner \ {o}
      PROVE  /\ (Asks(p, "commit") <=> Asks(p, "commit")') /\ Writing(p)' = Writing(p) /\ RowsAfter(p)' = RowsAfter(p)
             /\ OwnTenant(p)'
  <2>1. Asks(p, "commit") <=> Asks(p, "commit")'
    BY <1>1, <1>2 DEF Asks
  <2>2. Writing(p)' = Writing(p)
    BY <1>1, <1>2, <2>1 DEF Writing
  <2>3. RowsAfter(p)' = RowsAfter(p)
    BY <1>1, <1>2, <2>2 DEF RowsAfter
  <2>4. OwnTenant(p)'
    BY <1>1, <1>2 DEF DomainsInv, OwnTenant
  <2> QED BY <2>1, <2>2, <2>3, <2>4
<1>3. ASSUME NEW p \in Owner \ {o}, Asks(p, "commit") PROVE ChangesFit(p)'
  <2> SUFFICES ASSUME NEW c \in Writing(p) PROVE FitsClaim(c, owner[p].rows[c], owner[p].does, owner[p].by)'
    BY <1>1, <1>2, <1>3 DEF ChangesFit
  <2>1. FitsClaim(c, owner[p].rows[c], owner[p].does, owner[p].by)
    BY <1>3 DEF DomainsInv, ChangesFit
  <2>2. CASE claim[c] = Unclaimed
    <3>1. \A q \in Owner : owner[q] # Unclaimed /\ owner[q].step \in OnClaim => owner[q].id # c
      BY <2>1, <2>2 DEF FitsClaim
    <3>2. \A q \in Owner : owner'[q] # Unclaimed /\ owner'[q].step \in OnClaim => owner'[q].id # c
      BY <1>1, <2>2, <3>1
    <3> QED BY <2>2, <3>2 DEF FitsClaim
  <2>3. CASE claim[c] # Unclaimed
    BY <1>1, <1>3, <2>1, <2>3 DEF FitsClaim
  <2> QED BY <2>2, <2>3
<1>4. ASSUME NEW p \in Owner \ {o}, NEW q \in Owner \ {o}, p # q PROVE Writers(p, q)'
  <2>1. Writers(p, q)
    BY <1>4 DEF DomainsInv
  <2> QED BY <1>1, <1>2, <1>4, <2>1 DEF Writers
<1> QED BY <1>1, <1>2, <1>3, <1>4

(* A request finds the claim it asks for. *)
LEMMA LookUpInv ==
  ASSUME DomainsInv, NEW o \in Owner, NEW ask \in Asking, LookUp(o, ask),
         ask.step \in OnClaim => ask.id \in Claim /\ claim[ask.id] # Unclaimed /\ claim[ask.id].of = ask.of
  PROVE  DomainsInv'
<1>1. claim' = claim /\ owner' = [owner EXCEPT ![o] = ask] /\ owner[o] = Unclaimed
      /\ jostled' = (jostled \/ \E p \in Owner : owner[p] # Unclaimed)
  BY DEF LookUp
<1>2. ask.step # "commit"
  BY DEF Asking
<1>3. /\ owner' \in [Owner -> Asking \cup Commits \cup {Unclaimed}]
      /\ \A p \in Owner \ {o} :
           /\ OwnTenant(p)'
           /\ Asks(p, "commit")' => Asks(p, "commit") /\ RowsAfter(p)' = RowsAfter(p) /\ ChangesFit(p)'
           /\ \A q \in Owner \ {o} : p # q => Writers(p, q)'
  BY <1>1, OthersStay
<1>4. owner'[o] = ask /\ \A p \in Owner \ {o} : owner'[p] = owner[p]
  BY <1>1 DEF DomainsInv
<1>5. ~Asks(o, "commit")' /\ Writing(o)' = {} /\ OwnTenant(o)'
  <2>1. ~Asks(o, "commit")'
    BY <1>2, <1>4 DEF Asks
  <2>2. Writing(o)' = {}
    BY <2>1 DEF Writing
  <2>3. OwnTenant(o)'
    BY <1>1, <1>4 DEF OwnTenant
  <2> QED BY <2>1, <2>2, <2>3
<1>6. \A p \in Owner : Writers(o, p)' /\ Writers(p, o)'
  BY <1>5 DEF Writers
<1>7. Turns'
  <2> SUFFICES ASSUME ~jostled' PROVE Turns'
    BY DEF Turns
  <2>1. ~jostled /\ \A p \in Owner : owner[p] = Unclaimed
    BY <1>1
  <2>2. \A p \in Owner : ~Asks(p, "commit")'
    BY <1>3, <1>5, <2>1 DEF Asks
  <2>3. HavePrimary(claim)'
    BY <1>1, <2>1 DEF DomainsInv, Turns, HavePrimary, ClaimsOf, PrimaryClaims
  <2>4. \A p, q \in Owner : owner'[p] # Unclaimed /\ owner'[q] # Unclaimed => p = q
    BY <1>4, <2>1
  <2> QED BY <2>2, <2>3, <2>4 DEF Turns
<1>8. \A p \in Owner : Asks(p, "commit")' => Indexed(RowsAfter(p))' /\ ChangesFit(p)'
  <2> SUFFICES ASSUME NEW p \in Owner \ {o}, Asks(p, "commit")' PROVE Indexed(RowsAfter(p))'
    BY <1>3, <1>5
  <2>1. RowsAfter(p)' = RowsAfter(p) /\ Indexed(RowsAfter(p))
    BY <1>3 DEF DomainsInv
  <2> QED BY <2>1 DEF Indexed
<1>9. claim' \in Table /\ jostled' \in BOOLEAN /\ Indexed(claim)'
  BY <1>1 DEF DomainsInv, Indexed
<1>10. \A p, q \in Owner : p # q => Writers(p, q)'
  BY <1>3, <1>6
<1> QED BY <1>3, <1>5, <1>7, <1>8, <1>9, <1>10 DEF DomainsInv

(* A transaction is rolled back. *)
LEMMA AbortInv ==
  ASSUME DomainsInv, NEW o \in Owner, AbortDomains(o) PROVE DomainsInv'
<1>1. claim' = claim /\ owner' = [owner EXCEPT ![o] = Unclaimed] /\ jostled' = jostled
  BY DEF AbortDomains
<1>2. /\ owner' \in [Owner -> Asking \cup Commits \cup {Unclaimed}]
      /\ \A p \in Owner \ {o} :
           /\ OwnTenant(p)'
           /\ Asks(p, "commit")' => Asks(p, "commit") /\ RowsAfter(p)' = RowsAfter(p) /\ ChangesFit(p)'
           /\ \A q \in Owner \ {o} : p # q => Writers(p, q)'
  BY <1>1, OthersStay
<1>3. owner'[o] = Unclaimed /\ \A p \in Owner \ {o} : owner'[p] = owner[p]
  BY <1>1 DEF DomainsInv
<1>4. ~Asks(o, "commit")' /\ Writing(o)' = {} /\ OwnTenant(o)'
  BY <1>3 DEF Asks, Writing, OwnTenant
<1>5. \A p \in Owner : Writers(o, p)' /\ Writers(p, o)'
  BY <1>4 DEF Writers
<1>6. \A p \in Owner : Asks(p, "commit")' => Asks(p, "commit") /\ RowsAfter(p)' = RowsAfter(p) /\ ChangesFit(p)'
  BY <1>2, <1>4
<1>7. \A p \in Owner : Asks(p, "commit")' => Indexed(RowsAfter(p))'
  <2> SUFFICES ASSUME NEW p \in Owner, Asks(p, "commit")' PROVE Indexed(RowsAfter(p))'
    OBVIOUS
  <2>1. RowsAfter(p)' = RowsAfter(p) /\ Indexed(RowsAfter(p))
    BY <1>6 DEF DomainsInv
  <2> QED BY <2>1 DEF Indexed
<1>8. Turns'
  <2> SUFFICES ASSUME ~jostled PROVE Turns'
    BY <1>1 DEF Turns
  <2>1. HavePrimary(claim)'
    BY <1>1 DEF DomainsInv, Turns, HavePrimary, ClaimsOf, PrimaryClaims
  <2>2. \A p, q \in Owner : owner'[p] # Unclaimed /\ owner'[q] # Unclaimed => p = q
    BY <1>3 DEF DomainsInv, Turns
  <2>3. ASSUME NEW p \in Owner, Asks(p, "commit")' PROVE HavePrimary(RowsAfter(p))'
    <3>1. RowsAfter(p)' = RowsAfter(p) /\ HavePrimary(RowsAfter(p))
      BY <1>6, <2>3 DEF DomainsInv, Turns
    <3> QED BY <3>1 DEF HavePrimary, ClaimsOf, PrimaryClaims
  <2> QED BY <2>1, <2>2, <2>3 DEF Turns
<1>9. claim' \in Table /\ jostled' \in BOOLEAN /\ Indexed(claim)'
  BY <1>1 DEF DomainsInv, Indexed
<1>10. \A p, q \in Owner : p # q => Writers(p, q)'
  BY <1>2, <1>5
<1> QED BY <1>2, <1>4, <1>6, <1>7, <1>8, <1>9, <1>10 DEF DomainsInv

(* A row without entries that an open transaction has reserved shares none with it. *)
LEMMA NotReserved ==
  ASSUME NEW r, Entries(r) \cap Reserved = {}, NEW p \in Owner, NEW e \in Writing(p), owner[p].rows[e] # Unclaimed
  PROVE  Disjoint(r, owner[p].rows[e])
<1> DEFINE new(q) == UNION {Entries(owner[q].rows[c]) : c \in {c \in Writing(q) : owner[q].rows[c] # Unclaimed}}
<1>1. Entries(owner[p].rows[e]) \subseteq new(p)
  OBVIOUS
<1>2. new(p) \subseteq Reserved
  BY DEF Reserved
<1> HIDE DEF new
<1> QED BY <1>1, <1>2 DEF Disjoint

(* The statements of a transaction, given what it was about to do. *)
LEMMA WriteInv ==
  ASSUME DomainsInv, NEW o \in Owner, owner[o] # Unclaimed, owner[o] \in Asking, NEW rows \in Table, WriteClaims(o, rows),
         \A c \in Claim : rows[c] # claim[c] => FitsClaim(c, rows[c], owner[o].step, owner[o].of),
         HavePrimary(claim) => HavePrimary(rows)
  PROVE  DomainsInv'
<1>1. PICK changed \in SUBSET Claim : changed = {c \in Claim : rows[c] # claim[c]}
  OBVIOUS
<1>2. PICK filled \in SUBSET Claim : filled = {c \in Claim : rows[c] # Unclaimed}
  OBVIOUS
<1>3. PICK x : x = [step |-> "commit", does |-> owner[o].step, by |-> owner[o].of, rows |-> [c \in changed |-> rows[c]]]
  OBVIOUS
<1>4. /\ changed \cap LockedClaims = {}
      /\ \A c \in filled : /\ c \in changed => Entries(rows[c]) \cap Reserved = {}
                         /\ \A e \in filled \ {c} : Entries(rows[c]) \cap Entries(rows[e]) = {}
      /\ owner' = [owner EXCEPT ![o] = x] /\ claim' = claim /\ jostled' = jostled
  BY <1>1, <1>2, <1>3, Zenon DEF WriteClaims
<1>5. x \in Commits /\ x # Unclaimed /\ x.step = "commit" /\ x.does = owner[o].step /\ x.by = owner[o].of
      /\ DOMAIN x.rows = changed /\ \A c \in changed : x.rows[c] = rows[c]
  <2>1. PICK piece : piece = [c \in changed |-> rows[c]]
    OBVIOUS
  <2>2. piece \in [changed -> ClaimRows \cup {Unclaimed}]
    BY <2>1 DEF Table
  <2>3. piece \in UNION {[C -> ClaimRows \cup {Unclaimed}] : C \in SUBSET Claim}
    BY <2>2
  <2>4. owner[o].step \in {"add", "primary", "verify", "remove"} /\ owner[o].of \in Tenant
    BY DEF Asking
  <2>5. x = [step |-> "commit", does |-> owner[o].step, by |-> owner[o].of, rows |-> piece]
    BY <1>3, <2>1
  <2>6. x \in Commits
    BY <2>3, <2>4, <2>5 DEF Commits
  <2>7. x # Unclaimed
    BY <2>6, UnclaimedAssumption
  <2>8. x.rows = piece /\ x.step = "commit" /\ x.does = owner[o].step /\ x.by = owner[o].of
    BY <2>5
  <2> QED BY <2>1, <2>2, <2>6, <2>7, <2>8
<1>6. /\ owner' \in [Owner -> Asking \cup Commits \cup {Unclaimed}]
      /\ \A p \in Owner \ {o} :
           /\ OwnTenant(p)'
           /\ Asks(p, "commit")' => Asks(p, "commit") /\ RowsAfter(p)' = RowsAfter(p) /\ ChangesFit(p)'
           /\ \A q \in Owner \ {o} : p # q => Writers(p, q)'
  <2>1. x.step \notin OnClaim
    BY <1>5 DEF OnClaim
  <2> QED BY <1>4, <1>5, <2>1, OthersStay
<1>7. owner'[o] = x /\ \A p \in Owner \ {o} : owner'[p] = owner[p]
  BY <1>4 DEF DomainsInv
<1>8. Asks(o, "commit")' /\ Writing(o)' = changed /\ OwnTenant(o)'
  <2>1. Asks(o, "commit")'
    BY <1>5, <1>7 DEF Asks
  <2>2. Writing(o)' = changed
    BY <1>5, <1>7, <2>1 DEF Writing
  <2>3. OwnTenant(o)'
    BY <1>5, <1>7 DEF OwnTenant, OnClaim
  <2> QED BY <2>1, <2>2, <2>3
<1>9. RowsAfter(o)' = rows
  <2>1. RowsAfter(o)' = [c \in Claim |-> IF c \in changed THEN x.rows[c] ELSE claim[c]]
    BY <1>4, <1>7, <1>8 DEF RowsAfter
  <2>2. \A c \in Claim : rows[c] = IF c \in changed THEN x.rows[c] ELSE claim[c]
    BY <1>1, <1>5
  <2> QED BY <2>1, <2>2 DEF Table
<1>10. Indexed(RowsAfter(o))'
  <2>1. Indexed(rows)
    BY <1>2, <1>4 DEF Indexed, Disjoint
  <2> QED BY <1>9, <2>1 DEF Indexed
<1>11. ChangesFit(o)'
  <2> SUFFICES ASSUME NEW c \in changed PROVE FitsClaim(c, x.rows[c], x.does, x.by)'
    BY <1>5, <1>7, <1>8 DEF ChangesFit
  <2>1. FitsClaim(c, x.rows[c], x.does, x.by)
    BY <1>1, <1>5
  <2>2. \A p \in Owner : owner'[p] # Unclaimed /\ owner'[p].step \in OnClaim => owner[p] # Unclaimed /\ owner[p].step \in OnClaim
                                                                               /\ owner'[p].id = owner[p].id
    BY <1>5, <1>7 DEF OnClaim
  <2>3. CASE claim[c] = Unclaimed
    BY <1>4, <2>1, <2>2, <2>3 DEF FitsClaim
  <2>4. CASE claim[c] # Unclaimed
    BY <1>4, <2>1, <2>4 DEF FitsClaim
  <2> QED BY <2>3, <2>4
<1>12. ASSUME NEW p \in Owner \ {o} PROVE Writers(o, p)' /\ Writers(p, o)'
  <2>1. Writing(p)' = Writing(p) /\ owner'[p] = owner[p]
    BY <1>7 DEF Writing, Asks
  <2>2. Writing(p) \cap changed = {}
    <3>1. Writing(p) \subseteq LockedClaims
      BY DEF LockedClaims
    <3> QED BY <1>4, <3>1
  <2>3. ASSUME NEW c \in changed, NEW e \in Writing(p), x.rows[c] # Unclaimed, owner[p].rows[e] # Unclaimed
        PROVE  Disjoint(x.rows[c], owner[p].rows[e]) /\ Disjoint(owner[p].rows[e], x.rows[c])
    <3>1. c \in filled /\ x.rows[c] = rows[c]
      BY <1>2, <1>5, <2>3
    <3>2. Disjoint(rows[c], owner[p].rows[e])
      BY <1>4, <2>3, <3>1, NotReserved
    <3>3. Disjoint(owner[p].rows[e], rows[c])
      BY <3>2, DisjointSym
    <3> QED BY <3>1, <3>2, <3>3
  <2>4. Writers(o, p)'
    BY <1>7, <1>8, <2>1, <2>2, <2>3 DEF Writers
  <2>5. Writers(p, o)'
    BY <1>7, <1>8, <2>1, <2>2, <2>3 DEF Writers
  <2> QED BY <2>4, <2>5
<1>13. \A p, q \in Owner : p # q => Writers(p, q)'
  BY <1>6, <1>12
<1>14. \A p \in Owner : Asks(p, "commit")' => Indexed(RowsAfter(p))' /\ ChangesFit(p)'
  <2> SUFFICES ASSUME NEW p \in Owner \ {o}, Asks(p, "commit")' PROVE Indexed(RowsAfter(p))'
    BY <1>6, <1>10, <1>11
  <2>1. RowsAfter(p)' = RowsAfter(p) /\ Indexed(RowsAfter(p))
    BY <1>6 DEF DomainsInv
  <2> QED BY <2>1 DEF Indexed
<1>15. Turns'
  <2> SUFFICES ASSUME ~jostled PROVE Turns'
    BY <1>4 DEF Turns
  <2>1. HavePrimary(claim) /\ \A p \in Owner : owner[p] # Unclaimed => p = o
    BY DEF DomainsInv, Turns
  <2>2. HavePrimary(claim)'
    BY <1>4, <2>1 DEF HavePrimary, ClaimsOf, PrimaryClaims
  <2>3. \A p \in Owner : owner'[p] # Unclaimed => p = o
    BY <1>7, <2>1
  <2>4. \A p \in Owner : Asks(p, "commit")' => HavePrimary(RowsAfter(p))'
    <3>1. \A p \in Owner : Asks(p, "commit")' => p = o
      BY <2>3 DEF Asks
    <3>2. HavePrimary(RowsAfter(o))'
      BY <1>9, <2>1 DEF HavePrimary, ClaimsOf, PrimaryClaims
    <3> QED BY <3>1, <3>2
  <2> QED BY <2>2, <2>3, <2>4 DEF Turns
<1>16. claim' \in Table /\ jostled' \in BOOLEAN /\ Indexed(claim)'
  BY <1>4 DEF DomainsInv, Indexed
<1>17. \A p \in Owner : OwnTenant(p)'
  BY <1>6, <1>8
<1> QED BY <1>6, <1>13, <1>14, <1>15, <1>16, <1>17 DEF DomainsInv

(* A transaction commits: its entries were its own. *)
LEMMA CommitInv ==
  ASSUME DomainsInv, NEW o \in Owner, CommitDomains(o) PROVE DomainsInv'
<1>1. Asks(o, "commit") /\ claim' = RowsAfter(o) /\ owner' = [owner EXCEPT ![o] = Unclaimed] /\ jostled' = jostled
  BY DEF CommitDomains, RowsAfter
<1>2. /\ owner' \in [Owner -> Asking \cup Commits \cup {Unclaimed}]
      /\ owner'[o] = Unclaimed /\ \A p \in Owner \ {o} : owner'[p] = owner[p]
  BY <1>1 DEF DomainsInv
<1>3. claim' \in Table /\ Writing(o) \in SUBSET Claim
      /\ \A c \in Claim : claim'[c] = IF c \in Writing(o) THEN owner[o].rows[c] ELSE claim[c]
  BY <1>1, AfterIsTable DEF RowsAfter
<1>4. ~Asks(o, "commit")' /\ Writing(o)' = {} /\ OwnTenant(o)'
  BY <1>2 DEF Asks, Writing, OwnTenant
<1>5. \A p \in Owner \ {o} : (Asks(p, "commit")' <=> Asks(p, "commit")) /\ Writing(p)' = Writing(p)
  BY <1>2 DEF Asks, Writing
<1>6. \A c \in Writing(o) : FitsClaim(c, owner[o].rows[c], owner[o].does, owner[o].by)
  BY <1>1 DEF DomainsInv, ChangesFit
<1>7. ASSUME NEW p \in Owner \ {o} PROVE OwnTenant(p)'
  <2> SUFFICES ASSUME owner[p] # Unclaimed, owner[p].step \in OnClaim
      PROVE owner[p].id \in Claim /\ (claim'[owner[p].id] # Unclaimed => claim'[owner[p].id].of = owner[p].of)
    BY <1>2, <1>7 DEF OwnTenant
  <2>1. owner[p].id \in Claim /\ (claim[owner[p].id] # Unclaimed => claim[owner[p].id].of = owner[p].of)
    BY DEF DomainsInv, OwnTenant
  <2>2. CASE owner[p].id \in Writing(o)
    BY <1>3, <1>6, <2>1, <2>2 DEF FitsClaim
  <2>3. CASE owner[p].id \notin Writing(o)
    BY <1>3, <2>1, <2>3
  <2> QED BY <2>2, <2>3
<1>8. ASSUME NEW p \in Owner \ {o}, Asks(p, "commit") PROVE Indexed(RowsAfter(p))' /\ ChangesFit(p)'
  <2>1. Indexed(claim) /\ Indexed(RowsAfter(o)) /\ Indexed(RowsAfter(p)) /\ Writers(o, p) /\ Writers(p, o) /\ ChangesFit(p)
    BY <1>1, <1>8 DEF DomainsInv
  <2>2. Writing(p) \cap Writing(o) = {} /\ Writing(p) \in SUBSET Claim
    BY <2>1, AfterIsTable DEF Writers
  <2>3. PICK after : after = [c \in Claim |-> IF c \in Writing(p) THEN owner[p].rows[c] ELSE claim'[c]]
    OBVIOUS
  <2>4. RowsAfter(p)' = after
    BY <1>2, <1>5, <1>8, <2>3 DEF RowsAfter
  <2>5. ASSUME NEW c \in Claim, NEW e \in Claim, c # e, after[c] # Unclaimed, after[e] # Unclaimed
        PROVE  Disjoint(after[c], after[e])
    <3>1. CASE c \notin Writing(o) /\ e \notin Writing(o)
      <4>1. after[c] = RowsAfter(p)[c] /\ after[e] = RowsAfter(p)[e]
        BY <1>3, <2>3, <3>1 DEF RowsAfter
      <4> QED BY <2>1, <2>5, <4>1 DEF Indexed
    <3>2. CASE c \notin Writing(p) /\ e \notin Writing(p)
      <4>1. after[c] = RowsAfter(o)[c] /\ after[e] = RowsAfter(o)[e]
        BY <1>3, <2>3, <3>2 DEF RowsAfter
      <4> QED BY <2>1, <2>5, <4>1 DEF Indexed
    <3>3. CASE c \in Writing(o) /\ e \in Writing(p)
      <4>1. after[c] = owner[o].rows[c] /\ after[e] = owner[p].rows[e]
        BY <1>3, <2>2, <2>3, <3>3
      <4> QED BY <2>1, <2>5, <3>3, <4>1 DEF Writers
    <3>4. CASE c \in Writing(p) /\ e \in Writing(o)
      <4>1. after[c] = owner[p].rows[c] /\ after[e] = owner[o].rows[e]
        BY <1>3, <2>2, <2>3, <3>4
      <4> QED BY <2>1, <2>5, <3>4, <4>1 DEF Writers
    <3> QED BY <2>2, <3>1, <3>2, <3>3, <3>4
  <2>6. Indexed(RowsAfter(p))'
    BY <2>4, <2>5 DEF Indexed
  <2>7. ASSUME NEW c \in Writing(p) PROVE FitsClaim(c, owner[p].rows[c], owner[p].does, owner[p].by)'
    <3>1. claim'[c] = claim[c] /\ FitsClaim(c, owner[p].rows[c], owner[p].does, owner[p].by)
      BY <1>3, <2>1, <2>2, <2>7 DEF ChangesFit
    <3>2. \A q \in Owner : owner'[q] # Unclaimed => owner[q] # Unclaimed /\ owner'[q] = owner[q]
      BY <1>2
    <3>3. CASE claim[c] = Unclaimed
      BY <3>1, <3>2, <3>3 DEF FitsClaim
    <3>4. CASE claim[c] # Unclaimed
      BY <1>2, <1>8, <3>1, <3>4 DEF FitsClaim
    <3> QED BY <3>3, <3>4
  <2>8. ChangesFit(p)'
    BY <1>5, <1>8, <2>7 DEF ChangesFit
  <2> QED BY <2>6, <2>8
<1>9. \A p \in Owner : Asks(p, "commit")' => Indexed(RowsAfter(p))' /\ ChangesFit(p)'
  BY <1>4, <1>5, <1>8
<1>10. \A p, q \in Owner : p # q => Writers(p, q)'
  <2> SUFFICES ASSUME NEW p \in Owner, NEW q \in Owner, p # q PROVE Writers(p, q)'
    OBVIOUS
  <2>1. CASE p = o \/ q = o
    BY <1>4, <2>1 DEF Writers
  <2>2. CASE p # o /\ q # o
    <3>1. Writers(p, q)
      BY DEF DomainsInv
    <3> QED BY <1>2, <1>5, <2>2, <3>1 DEF Writers
  <2> QED BY <2>1, <2>2
<1>11. Turns'
  <2> SUFFICES ASSUME ~jostled PROVE Turns'
    BY <1>1 DEF Turns
  <2>1. HavePrimary(RowsAfter(o)) /\ \A p \in Owner : owner[p] # Unclaimed => p = o
    BY <1>1 DEF DomainsInv, Turns, Asks
  <2>2. HavePrimary(claim)'
    BY <1>1, <2>1 DEF HavePrimary, ClaimsOf, PrimaryClaims
  <2>3. \A p \in Owner : owner'[p] = Unclaimed
    BY <1>2, <2>1
  <2> QED BY <2>2, <2>3 DEF Turns, Asks
<1>12. jostled' \in BOOLEAN /\ Indexed(claim)'
  <2>1. Indexed(RowsAfter(o))
    BY <1>1 DEF DomainsInv
  <2> QED BY <1>1, <2>1 DEF DomainsInv, Indexed
<1>13. \A p \in Owner : OwnTenant(p)'
  BY <1>4, <1>7
<1> QED BY <1>2, <1>3, <1>9, <1>10, <1>11, <1>12, <1>13 DEF DomainsInv

(* Its rows leave a primary to every tenant that had one. *)
LEMMA HeirsWritten ==
  ASSUME DomainsInv, NEW o \in Owner, owner[o] # Unclaimed, owner[o] \in Asking,
         NEW base \in Table, NEW T \in SUBSET Tenant, WriteClaims(o, EnsurePrimary(base, T)),
         \A c \in Claim : base[c] # claim[c] => FitsClaim(c, base[c], owner[o].step, owner[o].of),
         HavePrimary(claim) =>
            \A t \in Tenant : ClaimsOf(base, t) # {} => t \in T \/ PrimaryClaims(base, t) # {}
  PROVE  DomainsInv'
<1>1. PICK new \in Table : /\ new = EnsurePrimary(base, T)
                           /\ SameButHeirs(new, base)
                           /\ \A t \in Tenant : /\ ClaimsOf(base, t) # {}
                                                /\ t \in T \/ PrimaryClaims(base, t) # {}
                                                => PrimaryClaims(new, t) # {}
  BY HeirsFound
<1>2. WriteClaims(o, new)
  BY <1>1
<1>3. ASSUME NEW c \in Claim, new[c] # claim[c] PROVE FitsClaim(c, new[c], owner[o].step, owner[o].of)
  <2>1. /\ new[c] = Unclaimed <=> base[c] = Unclaimed
        /\ base[c] # Unclaimed => new[c].of = base[c].of /\ new[c].verified = base[c].verified
    BY <1>1 DEF SameButHeirs
  <2>2. CASE base[c] # claim[c]
    <3>1. FitsClaim(c, base[c], owner[o].step, owner[o].of)
      BY <2>2
    <3> QED BY <2>1, <3>1 DEF FitsClaim
  <2>3. CASE base[c] = claim[c]
    BY <1>3, <2>1, <2>3 DEF FitsClaim
  <2> QED BY <2>2, <2>3
<1>4. ASSUME HavePrimary(claim) PROVE HavePrimary(new)
  <2> SUFFICES ASSUME NEW t \in Tenant, ClaimsOf(new, t) # {} PROVE PrimaryClaims(new, t) # {}
    BY DEF HavePrimary
  <2>1. PICK c \in Claim : new[c] # Unclaimed /\ new[c].of = t
    BY DEF ClaimsOf
  <2>2. base[c] # Unclaimed /\ base[c].of = t
    BY <1>1, <2>1 DEF SameButHeirs
  <2>3. c \in ClaimsOf(base, t)
    BY <2>2 DEF ClaimsOf
  <2> QED BY <1>1, <1>4, <2>3
<1> QED BY <1>2, <1>3, <1>4, WriteInv

(* Every look-up, *)
LEMMA FoundInv ==
  ASSUME DomainsInv, NEW o \in Owner, NEW t \in Tenant,
         (\E d \in Domain : AddDomain(o, t, d)) \/ (\E step \in {"primary", "verify", "remove"} : FindDomain(o, t, step))
  PROVE  DomainsInv'
<1>1. ASSUME NEW d \in Domain, AddDomain(o, t, d) PROVE DomainsInv'
  <2>1. PICK ask : ask = [step |-> "add", of |-> t, id |-> 0, name |-> d]
    OBVIOUS
  <2>2. ask \in Asking /\ ask.step \notin OnClaim
    BY <2>1 DEF Asking, OnClaim
  <2>3. LookUp(o, ask)
    BY <1>1, <2>1 DEF AddDomain
  <2> QED BY <2>2, <2>3, LookUpInv
<1>2. ASSUME NEW step \in {"primary", "verify", "remove"}, FindDomain(o, t, step) PROVE DomainsInv'
  <2>1. PICK c \in ClaimsOf(claim, t) : LookUp(o, [step |-> step, of |-> t, id |-> c, name |-> claim[c].name])
    BY <1>2, Zenon DEF FindDomain
  <2>2. c \in Claim /\ claim[c] # Unclaimed /\ claim[c].of = t /\ claim[c].name \in Domain
    BY <2>1 DEF ClaimsOf, DomainsInv, Table, ClaimRows
  <2>3. PICK ask : ask = [step |-> step, of |-> t, id |-> c, name |-> claim[c].name]
    OBVIOUS
  <2>4. ask \in Asking /\ ask.of = t /\ ask.id = c
    BY <2>2, <2>3 DEF Asking
  <2>5. LookUp(o, ask)
    BY <2>1, <2>3
  <2> QED BY <2>2, <2>4, <2>5, LookUpInv
<1> QED BY <1>1, <1>2

(* and what it has found. *)
LEMMA AskKind ==
  ASSUME DomainsInv, NEW o \in Owner, NEW step \in {"add", "primary", "verify", "remove"}, Asks(o, step)
  PROVE  /\ owner[o] # Unclaimed /\ owner[o] \in Asking /\ owner[o].step = step
         /\ owner[o].of \in Tenant /\ owner[o].name \in Domain
         /\ step \in OnClaim => /\ owner[o].id \in Claim
                                /\ claim[owner[o].id] # Unclaimed => claim[owner[o].id].of = owner[o].of
<1>1. owner[o] # Unclaimed /\ owner[o].step = step /\ step # "commit"
  BY DEF Asks
<1>2. owner[o] \in Asking
  BY <1>1, OwnerKinds
<1>3. OwnTenant(o)
  BY DEF DomainsInv
<1> QED BY <1>1, <1>2, <1>3 DEF OwnTenant, Asking

(* A domain is added, *)
LEMMA CreateInv == ASSUME DomainsInv, NEW o \in Owner, CreateDomain(o) PROVE DomainsInv'
<1>1. PICK inUse : inUse = {owner[p].id : p \in {p \in Owner : owner[p] # Unclaimed /\ ~Asks(p, "commit")}} \cup LockedClaims
  OBVIOUS
<1>2. PICK fresh : fresh = {c \in Claim : \A e \in Claim : e >= c => claim[e] = Unclaimed /\ e \notin inUse}
  OBVIOUS
<1>3. PICK row : row = [of |-> owner[o].of, name |-> owner[o].name, verified |-> FALSE, primary |-> FALSE]
  OBVIOUS
<1>4. PICK base : base = [claim EXCEPT ![Min(fresh)] = row]
  OBVIOUS
<1>5. Asks(o, "add") /\ fresh # {} /\ WriteClaims(o, EnsurePrimary(base, {owner[o].of}))
  BY <1>1, <1>2, <1>3, <1>4, Zenon DEF CreateDomain
<1>6. owner[o] # Unclaimed /\ owner[o] \in Asking /\ owner[o].of \in Tenant /\ owner[o].name \in Domain
  BY <1>5, AskKind
<1>7. PICK n : n = Min(fresh)
  OBVIOUS
<1>8. n \in Claim /\ claim[n] = Unclaimed /\ n \notin inUse
  <2>1. fresh \in SUBSET Claim
    BY <1>2
  <2>2. n \in fresh
    BY <1>5, <1>7, <2>1, LeastClaim
  <2>3. n \in Claim /\ n >= n
    BY <2>1, <2>2, MaxClaimAssumption DEF Claim
  <2> QED BY <1>2, <2>2, <2>3
<1>9. row \in ClaimRows /\ row # Unclaimed /\ row.of = owner[o].of
  <2>1. row \in ClaimRows
    BY <1>3, <1>6 DEF ClaimRows
  <2> QED BY <1>3, <2>1, UnclaimedAssumption
<1>10. base \in Table /\ base[n] = row /\ \A c \in Claim : c # n => base[c] = claim[c]
  BY <1>4, <1>7, <1>8, <1>9 DEF DomainsInv, Table
<1>11. ASSUME NEW c \in Claim, base[c] # claim[c] PROVE FitsClaim(c, base[c], owner[o].step, owner[o].of)
  <2>1. c = n
    BY <1>10, <1>11
  <2>2. ASSUME NEW p \in Owner, owner[p] # Unclaimed, owner[p].step \in OnClaim PROVE owner[p].id # n
    <3>1. ~Asks(p, "commit")
      BY <2>2 DEF Asks, OnClaim
    <3>2. owner[p].id \in inUse
      BY <1>1, <2>2, <3>1
    <3> QED BY <1>8, <3>2
  <2> QED BY <1>8, <2>1, <2>2 DEF FitsClaim
<1>12. ASSUME HavePrimary(claim), NEW t \in Tenant, ClaimsOf(base, t) # {}, t # owner[o].of
       PROVE  PrimaryClaims(base, t) # {}
  <2>1. PICK c \in Claim : base[c] # Unclaimed /\ base[c].of = t
    BY <1>12 DEF ClaimsOf
  <2>2. c # n /\ claim[c] # Unclaimed /\ claim[c].of = t
    BY <1>9, <1>10, <1>12, <2>1
  <2>3. c \in ClaimsOf(claim, t)
    BY <2>2 DEF ClaimsOf
  <2>4. PICK e \in Claim : claim[e] # Unclaimed /\ claim[e].of = t /\ claim[e].primary
    BY <1>12, <2>3 DEF HavePrimary, PrimaryClaims, ClaimsOf
  <2>5. base[e] = claim[e]
    BY <1>8, <1>10, <2>4
  <2>6. e \in PrimaryClaims(base, t)
    BY <2>4, <2>5 DEF PrimaryClaims, ClaimsOf
  <2> QED BY <2>6
<1>13. {owner[o].of} \in SUBSET Tenant
  BY <1>6
<1>14. HavePrimary(claim) =>
         \A t \in Tenant : ClaimsOf(base, t) # {} => t \in {owner[o].of} \/ PrimaryClaims(base, t) # {}
  BY <1>12
<1>15. PICK T : T = {owner[o].of}
  OBVIOUS
<1>16. WriteClaims(o, EnsurePrimary(base, T)) /\ T \in SUBSET Tenant /\ base \in Table
  BY <1>5, <1>10, <1>13, <1>15
<1>17. \A c \in Claim : base[c] # claim[c] => FitsClaim(c, base[c], owner[o].step, owner[o].of)
  BY <1>11
<1>18. HavePrimary(claim) => \A t \in Tenant : ClaimsOf(base, t) # {} => t \in T \/ PrimaryClaims(base, t) # {}
  BY <1>14, <1>15
<1> QED BY <1>6, <1>16, <1>17, <1>18, HeirsWritten

(* or removed: then another becomes the primary. *)
LEMMA RemoveInv == ASSUME DomainsInv, NEW o \in Owner, RemoveDomain(o) PROVE DomainsInv'
<1>1. PICK base : base = [claim EXCEPT ![owner[o].id] = Unclaimed]
  OBVIOUS
<1>2. Asks(o, "remove") /\ claim[owner[o].id] # Unclaimed /\ WriteClaims(o, EnsurePrimary(base, {owner[o].of}))
  BY <1>1, Zenon DEF RemoveDomain
<1>3. PICK n : n = owner[o].id
  OBVIOUS
<1>4. /\ owner[o] # Unclaimed /\ owner[o] \in Asking /\ owner[o].of \in Tenant /\ owner[o].step = "remove"
      /\ n \in Claim /\ claim[n] # Unclaimed /\ claim[n].of = owner[o].of
  BY <1>2, <1>3, AskKind DEF OnClaim
<1>5. base \in Table /\ base[n] = Unclaimed /\ \A c \in Claim : c # n => base[c] = claim[c]
  BY <1>1, <1>3, <1>4 DEF DomainsInv, Table
<1>6. ASSUME NEW c \in Claim, base[c] # claim[c] PROVE FitsClaim(c, base[c], owner[o].step, owner[o].of)
  BY <1>4, <1>5, <1>6 DEF FitsClaim
<1>7. ASSUME HavePrimary(claim), NEW t \in Tenant, ClaimsOf(base, t) # {}, t # owner[o].of
       PROVE  PrimaryClaims(base, t) # {}
  <2>1. PICK c \in Claim : base[c] # Unclaimed /\ base[c].of = t
    BY <1>7 DEF ClaimsOf
  <2>2. claim[c] # Unclaimed /\ claim[c].of = t
    BY <1>5, <2>1
  <2>3. c \in ClaimsOf(claim, t)
    BY <2>2 DEF ClaimsOf
  <2>4. PICK e \in Claim : claim[e] # Unclaimed /\ claim[e].of = t /\ claim[e].primary
    BY <1>7, <2>3 DEF HavePrimary, PrimaryClaims, ClaimsOf
  <2>5. base[e] = claim[e]
    BY <1>4, <1>5, <1>7, <2>4
  <2>6. e \in PrimaryClaims(base, t)
    BY <2>4, <2>5 DEF PrimaryClaims, ClaimsOf
  <2> QED BY <2>6
<1>8. {owner[o].of} \in SUBSET Tenant
  BY <1>4
<1>9. HavePrimary(claim) =>
         \A t \in Tenant : ClaimsOf(base, t) # {} => t \in {owner[o].of} \/ PrimaryClaims(base, t) # {}
  BY <1>7
<1> QED BY <1>2, <1>4, <1>5, <1>6, <1>8, <1>9, HeirsWritten

(* A flag of a row is set or cleared. *)
LEMMA SetFlag ==
  ASSUME NEW row \in ClaimRows, NEW new,
         \/ new = [row EXCEPT !.primary = TRUE] \/ new = [row EXCEPT !.primary = FALSE] \/ new = [row EXCEPT !.verified = TRUE]
  PROVE  /\ new \in ClaimRows /\ new # Unclaimed /\ new.of = row.of
         /\ row.verified => new.verified
         /\ new = [row EXCEPT !.primary = TRUE] => new.primary
         /\ new = [row EXCEPT !.verified = TRUE] /\ row.primary => new.primary
<1>1. new \in ClaimRows
  BY DEF ClaimRows
<1>2. new.of = row.of
  BY DEF ClaimRows
<1>3. Unclaimed \notin ClaimRows
  BY UnclaimedAssumption
<1>4. DOMAIN row = {"of", "name", "verified", "primary"}
  BY DEF ClaimRows
<1>5. ASSUME new = [row EXCEPT !.primary = TRUE] PROVE new.primary /\ new.verified = row.verified
  <2>1. "primary" \in DOMAIN row
    BY <1>4
  <2>2. new.primary
    BY <1>5, <2>1, Zenon
  <2> QED BY <1>4, <1>5, <2>2
<1>6. ASSUME new = [row EXCEPT !.primary = FALSE] PROVE new.verified = row.verified
  BY <1>4, <1>6
<1>7. ASSUME new = [row EXCEPT !.verified = TRUE] PROVE new.verified /\ new.primary = row.primary
  <2>1. "verified" \in DOMAIN row
    BY <1>4
  <2>2. new.verified
    BY <1>7, <2>1, Zenon
  <2> QED BY <1>4, <1>7, <2>2
<1> QED BY <1>1, <1>2, <1>3, <1>5, <1>6, <1>7

(* A domain becomes primary, *)
LEMMA MakePrimaryInv == ASSUME DomainsInv, NEW o \in Owner, MakePrimary(o) PROVE DomainsInv'
<1>1. PICK n : n = owner[o].id
  OBVIOUS
<1>2. PICK rows : rows = [c \in Claim |-> IF c = n THEN [claim[c] EXCEPT !.primary = TRUE]
                                          ELSE IF c \in PrimaryClaims(claim, owner[o].of) THEN [claim[c] EXCEPT !.primary = FALSE]
                                          ELSE claim[c]]
  OBVIOUS
<1>3. Asks(o, "primary") /\ claim[n] # Unclaimed /\ WriteClaims(o, rows)
  BY <1>1, <1>2, Zenon DEF MakePrimary
<1>4. /\ owner[o] # Unclaimed /\ owner[o] \in Asking /\ owner[o].of \in Tenant
      /\ n \in Claim /\ claim[n].of = owner[o].of
  BY <1>1, <1>3, AskKind DEF OnClaim
<1>5. /\ rows[n] = [claim[n] EXCEPT !.primary = TRUE]
      /\ \A c \in PrimaryClaims(claim, owner[o].of) : c # n => rows[c] = [claim[c] EXCEPT !.primary = FALSE]
      /\ \A c \in Claim : c # n /\ c \notin PrimaryClaims(claim, owner[o].of) => rows[c] = claim[c]
      /\ rows = [c \in Claim |-> rows[c]]
  <2>1. PrimaryClaims(claim, owner[o].of) \in SUBSET Claim
    BY DEF PrimaryClaims, ClaimsOf
  <2> QED BY <1>2, <1>4, <2>1
<1>6. \A c \in PrimaryClaims(claim, owner[o].of) : c \in Claim /\ claim[c] # Unclaimed /\ claim[c].of = owner[o].of
  BY DEF PrimaryClaims, ClaimsOf
<1>7. \A c \in Claim : claim[c] # Unclaimed => claim[c] \in ClaimRows
  BY DEF DomainsInv, Table
<1>8. ASSUME NEW c \in Claim
      PROVE  \/ rows[c] = claim[c]
             \/ /\ claim[c] # Unclaimed /\ claim[c].of = owner[o].of
                /\ rows[c] \in ClaimRows /\ rows[c] # Unclaimed /\ rows[c].of = claim[c].of
                /\ claim[c].verified => rows[c].verified
  <2>1. CASE c = n
    <3>1. claim[n] \in ClaimRows
      BY <1>3, <1>4, <1>7
    <3> QED BY <1>3, <1>4, <1>5, <2>1, <3>1, SetFlag
  <2>2. CASE c # n /\ c \in PrimaryClaims(claim, owner[o].of)
    <3>1. claim[c] \in ClaimRows /\ claim[c] # Unclaimed /\ claim[c].of = owner[o].of
      BY <1>6, <1>7, <2>2
    <3> QED BY <1>5, <2>2, <3>1, SetFlag
  <2>3. CASE c # n /\ c \notin PrimaryClaims(claim, owner[o].of)
    BY <1>5, <2>3
  <2> QED BY <2>1, <2>2, <2>3
<1>9. rows \in Table
  <2>1. \A c \in Claim : rows[c] \in ClaimRows \cup {Unclaimed}
    BY <1>8 DEF DomainsInv, Table
  <2> QED BY <1>5, <2>1 DEF Table
<1>10. \A c \in Claim : rows[c] # claim[c] => FitsClaim(c, rows[c], owner[o].step, owner[o].of)
  BY <1>8 DEF FitsClaim
<1>11. ASSUME HavePrimary(claim) PROVE HavePrimary(rows)
  <2> SUFFICES ASSUME NEW t \in Tenant, ClaimsOf(rows, t) # {} PROVE PrimaryClaims(rows, t) # {}
    BY DEF HavePrimary
  <2>1. CASE t = owner[o].of
    <3>1. rows[n] # Unclaimed /\ rows[n].of = t /\ rows[n].primary
      <4>1. claim[n] \in ClaimRows
        BY <1>3, <1>4, <1>7
      <4> QED BY <1>4, <1>5, <2>1, <4>1, SetFlag
    <3>2. n \in PrimaryClaims(rows, t)
      BY <1>4, <3>1 DEF PrimaryClaims, ClaimsOf
    <3> QED BY <3>2
  <2>2. CASE t # owner[o].of
    <3>1. PICK c \in Claim : rows[c] # Unclaimed /\ rows[c].of = t
      BY DEF ClaimsOf
    <3>2. claim[c] # Unclaimed /\ claim[c].of = t
      BY <1>8, <2>2, <3>1
    <3>3. c \in ClaimsOf(claim, t)
      BY <3>2 DEF ClaimsOf
    <3>4. PICK e \in Claim : claim[e] # Unclaimed /\ claim[e].of = t /\ claim[e].primary
      BY <1>11, <3>3 DEF HavePrimary, PrimaryClaims, ClaimsOf
    <3>5. rows[e] = claim[e]
      BY <1>8, <2>2, <3>4
    <3>6. e \in PrimaryClaims(rows, t)
      BY <3>4, <3>5 DEF PrimaryClaims, ClaimsOf
    <3> QED BY <3>6
  <2> QED BY <2>1, <2>2
<1> QED BY <1>3, <1>4, <1>9, <1>10, <1>11, WriteInv

(* or verified, unless somebody else has verified its name. *)
LEMMA VerifyInv == ASSUME DomainsInv, NEW o \in Owner, VerifyDomain(o) PROVE DomainsInv'
<1>1. PICK n : n = owner[o].id
  OBVIOUS
<1>2. PICK dropped : dropped = {c \in ClaimsOn(claim, owner[o].name) \ {n} : ~claim[c].verified}
  OBVIOUS
<1>3. PICK base : base = [c \in Claim |-> IF c = n THEN [claim[c] EXCEPT !.verified = TRUE]
                                          ELSE IF c \in dropped THEN Unclaimed ELSE claim[c]]
  OBVIOUS
<1>4. PICK T : T = {claim[c].of : c \in dropped}
  OBVIOUS
<1>5. Asks(o, "verify") /\ claim[n] # Unclaimed /\ WriteClaims(o, EnsurePrimary(base, T))
  BY <1>1, <1>2, <1>3, <1>4, Zenon DEF VerifyDomain
<1>6. owner[o] # Unclaimed /\ owner[o] \in Asking /\ owner[o].of \in Tenant /\ n \in Claim
  BY <1>1, <1>5, AskKind DEF OnClaim
<1>7. \A c \in Claim : claim[c] # Unclaimed => claim[c] \in ClaimRows /\ claim[c].of \in Tenant
  BY DEF DomainsInv, Table, ClaimRows
<1>8. \A c \in dropped : c \in Claim /\ c # n /\ claim[c] # Unclaimed /\ ~claim[c].verified
  BY <1>2 DEF ClaimsOn
<1>9. T \in SUBSET Tenant
  BY <1>4, <1>7, <1>8
<1>10. /\ base[n] \in ClaimRows /\ base[n] # Unclaimed /\ base[n].of = claim[n].of
       /\ claim[n].verified => base[n].verified
       /\ claim[n].primary => base[n].primary
  <2>1. base[n] = [claim[n] EXCEPT !.verified = TRUE]
    BY <1>3, <1>6
  <2>2. claim[n] \in ClaimRows
    BY <1>5, <1>6, <1>7
  <2> QED BY <2>1, <2>2, SetFlag
<1>11. /\ \A c \in dropped : base[c] = Unclaimed
       /\ \A c \in Claim : c # n /\ c \notin dropped => base[c] = claim[c]
       /\ base = [c \in Claim |-> base[c]]
  BY <1>3, <1>8
<1>12. base \in Table
  <2>1. \A c \in Claim : base[c] \in ClaimRows \cup {Unclaimed}
    BY <1>10, <1>11 DEF DomainsInv, Table
  <2> QED BY <1>11, <2>1 DEF Table
<1>13. \A c \in Claim : base[c] # claim[c] => FitsClaim(c, base[c], owner[o].step, owner[o].of)
  BY <1>5, <1>8, <1>10, <1>11 DEF FitsClaim
<1>14. ASSUME HavePrimary(claim), NEW t \in Tenant, ClaimsOf(base, t) # {}, t \notin T PROVE PrimaryClaims(base, t) # {}
  <2>1. PICK c \in Claim : base[c] # Unclaimed /\ base[c].of = t
    BY <1>14 DEF ClaimsOf
  <2>2. claim[c] # Unclaimed /\ claim[c].of = t
    BY <1>5, <1>10, <1>11, <2>1
  <2>3. c \in ClaimsOf(claim, t)
    BY <2>2 DEF ClaimsOf
  <2>4. PICK e \in Claim : claim[e] # Unclaimed /\ claim[e].of = t /\ claim[e].primary
    BY <1>14, <2>3 DEF HavePrimary, PrimaryClaims, ClaimsOf
  <2>5. e \notin dropped
    BY <1>4, <1>14, <2>4
  <2>6. base[e] # Unclaimed /\ base[e].of = t /\ base[e].primary
    BY <1>10, <1>11, <2>4, <2>5
  <2>7. e \in PrimaryClaims(base, t)
    BY <2>6 DEF PrimaryClaims, ClaimsOf
  <2> QED BY <2>7
<1>15. HavePrimary(claim) => \A t \in Tenant : ClaimsOf(base, t) # {} => t \in T \/ PrimaryClaims(base, t) # {}
  BY <1>14
<1> QED BY <1>5, <1>6, <1>9, <1>12, <1>13, <1>15, HeirsWritten

(* No domains. *)
LEMMA DomainsInitInv == DomainsInit => DomainsInv
<1> SUFFICES ASSUME DomainsInit PROVE DomainsInv
  OBVIOUS
<1>1. \A c \in Claim : claim[c] = Unclaimed
  BY DEF DomainsInit
<1>2. \A o \in Owner : owner[o] = Unclaimed /\ ~Asks(o, "commit") /\ Writing(o) = {}
  BY DEF DomainsInit, Asks, Writing
<1>3. Indexed(claim) /\ HavePrimary(claim)
  BY <1>1 DEF Indexed, HavePrimary, ClaimsOf
<1>4. claim \in Table /\ jostled \in BOOLEAN /\ owner \in [Owner -> Asking \cup Commits \cup {Unclaimed}]
  <2>1. claim \in Table
    BY DEF DomainsInit, Table
  <2>2. jostled \in BOOLEAN
    BY DEF DomainsInit
  <2>3. owner \in [Owner -> Asking \cup Commits \cup {Unclaimed}]
    BY DEF DomainsInit
  <2> QED BY <2>1, <2>2, <2>3
<1> QED BY <1>2, <1>3, <1>4 DEF DomainsInv, OwnTenant, Writers, Turns

(* Every step of a request keeps the invariant of domains. *)
LEMMA DomainsNextInv == DomainsInv /\ [DomainsNext]_domainVars => DomainsInv'
<1> SUFFICES ASSUME DomainsInv, [DomainsNext]_domainVars PROVE DomainsInv'
  OBVIOUS
<1>1. CASE UNCHANGED domainVars
  <2>1. claim' = claim /\ owner' = owner /\ jostled' = jostled
    BY <1>1 DEF domainVars
  <2>2. \A o \in Owner : /\ Asks(o, "commit")' <=> Asks(o, "commit")
                         /\ Writing(o)' = Writing(o)
                         /\ OwnTenant(o) => OwnTenant(o)'
    BY <2>1 DEF Asks, Writing, OwnTenant
  <2>3. \A o \in Owner : RowsAfter(o)' = RowsAfter(o) /\ (ChangesFit(o) => ChangesFit(o)')
    BY <2>1, <2>2 DEF RowsAfter, ChangesFit, FitsClaim
  <2>4. \A o, p \in Owner : Writers(o, p) => Writers(o, p)'
    BY <2>1, <2>2 DEF Writers
  <2>5. \A o \in Owner : Indexed(RowsAfter(o)) => Indexed(RowsAfter(o))'
    BY <2>3 DEF Indexed
  <2>6. HavePrimary(claim) => HavePrimary(claim)'
    BY <2>1 DEF HavePrimary, ClaimsOf, PrimaryClaims
  <2>7. \A o \in Owner : HavePrimary(RowsAfter(o)) => HavePrimary(RowsAfter(o))'
    BY <2>3 DEF HavePrimary, ClaimsOf, PrimaryClaims
  <2>8. Turns'
    BY <2>1, <2>2, <2>6, <2>7 DEF DomainsInv, Turns
  <2>9. Indexed(claim)'
    BY <2>1 DEF DomainsInv, Indexed
  <2> QED BY <2>1, <2>2, <2>3, <2>4, <2>5, <2>8, <2>9 DEF DomainsInv
<1>2. CASE DomainsNext
  <2>1. PICK o \in Owner :
          \/ \E t \in Tenant : \/ \E d \in Domain : AddDomain(o, t, d)
                               \/ \E step \in {"primary", "verify", "remove"} : FindDomain(o, t, step)
          \/ CreateDomain(o) \/ MakePrimary(o) \/ VerifyDomain(o) \/ RemoveDomain(o)
          \/ CommitDomains(o) \/ AbortDomains(o)
    BY <1>2 DEF DomainsNext
  <2> QED BY <2>1, FoundInv, CreateInv, MakePrimaryInv, VerifyInv, RemoveInv, CommitInv, AbortInv
<1> QED BY <1>1, <1>2

(* What the first tenant to verify a domain is promised, of one step. *)
KeepsVerified ==
    /\ \A d \in Domain : Cardinality(VerifiedClaims(claim', d)) <= 1
    /\ \A c \in Claim : claim[c] # Unclaimed /\ claim[c].verified =>
         \/ claim'[c] # Unclaimed /\ claim'[c].verified /\ claim'[c].of = claim[c].of
         \/ \E o \in Owner : Asks(o, "commit") /\ owner[o].does = "remove" /\ owner[o].by = claim[c].of

(* A name has one verified row, *)
LEMMA OneVerified ==
  ASSUME NEW rows \in Table, Indexed(rows), NEW d \in Domain PROVE Cardinality(VerifiedClaims(rows, d)) <= 1
<1>1. ASSUME NEW c \in VerifiedClaims(rows, d), NEW e \in VerifiedClaims(rows, d), c # e PROVE FALSE
  <2>1. /\ c \in Claim /\ rows[c] # Unclaimed /\ rows[c].name = d /\ rows[c].verified
        /\ e \in Claim /\ rows[e] # Unclaimed /\ rows[e].name = d /\ rows[e].verified
    BY DEF VerifiedClaims, ClaimsOn
  <2>2. rows[c] \in ClaimRows /\ rows[e] \in ClaimRows
    BY <2>1 DEF Table
  <2>3. Disjoint(rows[c], rows[e])
    BY <1>1, <2>1 DEF Indexed
  <2> QED BY <2>1, <2>2, <2>3, SharedEntry
<1> QED BY <1>1, AtMostOne

(* which no step of anybody but its tenant takes away. *)
LEMMA VerifiedKeptByStep == DomainsInv /\ DomainsNext => KeepsVerified
<1> SUFFICES ASSUME DomainsInv, DomainsNext PROVE KeepsVerified
  OBVIOUS
<1>1. claim' \in Table /\ Indexed(claim)'
  BY DomainsNextInv DEF DomainsInv
<1>2. \A d \in Domain : Cardinality(VerifiedClaims(claim', d)) <= 1
  <2>1. Indexed(claim')
    BY <1>1 DEF Indexed
  <2> QED BY <1>1, <2>1, OneVerified
<1>3. PICK o \in Owner : claim' = claim \/ CommitDomains(o)
  <2>1. PICK o \in Owner :
          \/ \E t \in Tenant : \/ \E d \in Domain : AddDomain(o, t, d)
                               \/ \E step \in {"primary", "verify", "remove"} : FindDomain(o, t, step)
          \/ CreateDomain(o) \/ MakePrimary(o) \/ VerifyDomain(o) \/ RemoveDomain(o)
          \/ CommitDomains(o) \/ AbortDomains(o)
    BY DEF DomainsNext
  <2>2. claim' = claim \/ CommitDomains(o)
    <3>1. ASSUME NEW t \in Tenant, NEW d \in Domain, AddDomain(o, t, d) PROVE claim' = claim
      BY <3>1, Zenon DEF AddDomain, LookUp
    <3>2. ASSUME NEW t \in Tenant, NEW step, FindDomain(o, t, step) PROVE claim' = claim
      BY <3>2, Zenon DEF FindDomain, LookUp
    <3>3. ASSUME CreateDomain(o) PROVE claim' = claim
      BY <3>3, Zenon DEF CreateDomain, WriteClaims
    <3>4. ASSUME MakePrimary(o) PROVE claim' = claim
      BY <3>4, Zenon DEF MakePrimary, WriteClaims
    <3>5. ASSUME VerifyDomain(o) PROVE claim' = claim
      BY <3>5, Zenon DEF VerifyDomain, WriteClaims
    <3>6. ASSUME RemoveDomain(o) PROVE claim' = claim
      BY <3>6, Zenon DEF RemoveDomain, WriteClaims
    <3>7. ASSUME AbortDomains(o) PROVE claim' = claim
      BY <3>7, Zenon DEF AbortDomains
    <3> QED BY <2>1, <3>1, <3>2, <3>3, <3>4, <3>5, <3>6, <3>7
  <2> QED BY <2>2
<1>4. CASE claim' = claim
  BY <1>2, <1>4 DEF KeepsVerified
<1>5. CASE CommitDomains(o)
  <2>1. Asks(o, "commit") /\ \A c \in Claim : claim'[c] = IF c \in Writing(o) THEN owner[o].rows[c] ELSE claim[c]
    BY <1>5 DEF CommitDomains
  <2>2. \A c \in Writing(o) : FitsClaim(c, owner[o].rows[c], owner[o].does, owner[o].by)
    BY <2>1 DEF DomainsInv, ChangesFit
  <2>3. ASSUME NEW c \in Claim, claim[c] # Unclaimed, claim[c].verified
        PROVE  \/ claim'[c] # Unclaimed /\ claim'[c].verified /\ claim'[c].of = claim[c].of
               \/ owner[o].does = "remove" /\ owner[o].by = claim[c].of
    BY <2>1, <2>2, <2>3 DEF FitsClaim
  <2> QED BY <1>2, <2>1, <2>3 DEF KeepsVerified
<1> QED BY <1>3, <1>4, <1>5

(* That is more than was promised of the rows. *)
LEMMA DomainsTell == DomainsInv => DomainsTypeOK /\ OnePrimaryDomainInTurn
<1> SUFFICES ASSUME DomainsInv PROVE DomainsTypeOK /\ OnePrimaryDomainInTurn
  OBVIOUS
<1>1. claim \in Table /\ Indexed(claim)
  BY DEF DomainsInv
<1>2. ASSUME NEW c \in Claim, NEW e \in Claim, claim[c] # Unclaimed, claim[e] # Unclaimed, claim[c].of = claim[e].of, c # e
      PROVE  claim[c].name # claim[e].name /\ ~(claim[c].primary /\ claim[e].primary)
  <2>1. claim[c] \in ClaimRows /\ claim[e] \in ClaimRows /\ Disjoint(claim[c], claim[e])
    BY <1>1, <1>2 DEF Table, Indexed
  <2> QED BY <1>2, <2>1, SharedEntry
<1>3. ASSUME NEW t \in Tenant
      PROVE  IsFiniteSet(PrimaryClaims(claim, t)) /\ Cardinality(PrimaryClaims(claim, t)) <= 1
  <2>1. \A c, e \in PrimaryClaims(claim, t) : c = e
    BY <1>2 DEF PrimaryClaims, ClaimsOf
  <2> QED BY <2>1, AtMostOne
<1>4. DomainsTypeOK
  BY <1>1, <1>2, <1>3 DEF DomainsInv, DomainsTypeOK, Table
<1>5. OnePrimaryDomainInTurn
  <2> SUFFICES ASSUME ~jostled, NEW t \in Tenant, ClaimsOf(claim, t) # {} PROVE Cardinality(PrimaryClaims(claim, t)) = 1
    BY DEF OnePrimaryDomainInTurn
  <2>1. PrimaryClaims(claim, t) # {}
    BY DEF DomainsInv, Turns, HavePrimary
  <2>2. Cardinality(PrimaryClaims(claim, t)) \in Nat /\ Cardinality(PrimaryClaims(claim, t)) # 0
    BY <1>3, <2>1, FS_CardinalityType, FS_EmptySet
  <2> QED BY <1>3, <2>2
<1> QED BY <1>4, <1>5

-----------------------------------------------------------------------------
(* The cart (Cart). *)

(* Every line was set by a wish of its own that was not taken back, *)
Lines ==
    /\ \A g \in Good : cart[g] = NoWish \/ cart[g] \in 1..wishes \ gone
    /\ \A g, h \in Good : cart[g] = cart[h] /\ cart[g] # NoWish => g = h
(* a wish not yet made has not been bought, *)
Books ==
    \A w \in Wish : /\ w > wishes => bought[w] = 0
                    /\ bought[w] <= 1
                    /\ w \in gone => bought[w] = 0
                    /\ w <= wishes /\ w \notin gone /\ bought[w] = 0 => w \in InCart
(* and what is in the cart has been bought exactly while the cart is about to be emptied. *)
Checkouts ==
    /\ \A t, u \in Tab : tab[t] # NoWish /\ tab[u] # NoWish => t = u
    /\ \A t \in Tab : Is(t, "order") => tab[t].of = InCart
    /\ \A g \in Good : cart[g] # NoWish => (bought[cart[g]] = 1 <=> \E t \in Tab : Is(t, "empty"))
CartInv ==
    /\ cart \in [Good -> 0..MaxWish \cup {NoWish}] /\ wishes \in 0..MaxWish
    /\ offer \in [Good -> Offer] /\ disturbed \in BOOLEAN
    /\ gone \subseteq 1..wishes /\ bought \in [Wish -> 0..2] /\ tab \in [Tab -> CartSteps \cup {NoWish}]
    /\ Lines
    /\ disturbed \/ (Books /\ Checkouts)

(* What a request to the cart holds. *)
LEMMA AskedOfCart ==
  ASSUME CartInv, NEW t \in Tab
  PROVE  /\ Is(t, "set") => tab[t].good \in Good
         /\ Is(t, "order") => tab[t].lines \in SUBSET Good /\ tab[t].of \in SUBSET Wish
         /\ NoWish \notin Nat \cup Wish \cup CartSteps
         /\ wishes \in Nat /\ MaxWish \in Nat /\ wishes <= MaxWish
         /\ 1..wishes \subseteq Wish
<1>1. tab[t] \in CartSteps \cup {NoWish}
  BY DEF CartInv
<1>2. wishes \in Nat /\ MaxWish \in Nat /\ wishes <= MaxWish
  BY MaxWishAssumption DEF CartInv
<1>3. 1..wishes \subseteq Wish /\ Wish \subseteq Nat
  BY <1>2 DEF Wish
<1>4. NoWish \notin Nat \cup Wish \cup CartSteps
  BY <1>3, NoWishAssumption
<1>5. Is(t, "set") => tab[t].good \in Good
  BY <1>1 DEF Is, CartSteps
<1>6. Is(t, "order") => tab[t].lines \in SUBSET Good /\ tab[t].of \in SUBSET Wish
  BY <1>1 DEF Is, CartSteps
<1> QED BY <1>2, <1>3, <1>4, <1>5, <1>6

(* A tab that takes up or ends a request. *)
LEMMA TabTurns ==
  ASSUME CartInv, NEW t \in Tab, NEW x \in CartSteps \cup {NoWish}, tab' = [tab EXCEPT ![t] = x]
  PROVE  /\ tab' \in [Tab -> CartSteps \cup {NoWish}] /\ tab'[t] = x /\ \A u \in Tab \ {t} : tab'[u] = tab[u]
         /\ \A u \in Tab \ {t} : \A s \in {"set", "order", "empty"} : Is(u, s)' <=> Is(u, s)
         /\ \A s \in {"set", "order", "empty"} : Is(t, s)' <=> x # NoWish /\ x.step = s
<1>1. tab' \in [Tab -> CartSteps \cup {NoWish}] /\ tab'[t] = x /\ \A u \in Tab \ {t} : tab'[u] = tab[u]
  BY DEF CartInv
<1> QED BY <1>1 DEF Is

(* A request begins, *)
LEMMA OpenInv ==
  ASSUME CartInv, NEW t \in Tab, NEW ask \in CartSteps, ask.step \in {"set", "order"},
         ask.step = "order" => ask.of = InCart, Open(t, ask)
  PROVE  CartInv'
<1>1. /\ tab[t] = NoWish /\ tab' = [tab EXCEPT ![t] = ask]
      /\ disturbed' = (disturbed \/ Busy)
      /\ cart' = cart /\ offer' = offer /\ bought' = bought /\ gone' = gone /\ wishes' = wishes
  BY DEF Open
<1>2. /\ tab' \in [Tab -> CartSteps \cup {NoWish}] /\ tab'[t] = ask /\ \A u \in Tab \ {t} : tab'[u] = tab[u]
      /\ \A u \in Tab \ {t} : \A s \in {"set", "order", "empty"} : Is(u, s)' <=> Is(u, s)
      /\ \A s \in {"set", "order", "empty"} : Is(t, s)' <=> ask # NoWish /\ ask.step = s
  BY <1>1, TabTurns
<1>3. Lines'
  BY <1>1 DEF CartInv, Lines
<1>4. ASSUME ~disturbed' PROVE Books' /\ Checkouts'
  <2>1. ~disturbed /\ \A u \in Tab : tab[u] = NoWish
    BY <1>1, <1>4 DEF Busy
  <2>2. Books'
    BY <1>1, <2>1 DEF CartInv, Books, InCart
  <2>3. \A u \in Tab : ~Is(u, "empty") /\ ~Is(u, "empty")'
    BY <1>2, <2>1 DEF Is
  <2>4. \A u \in Tab : Is(u, "order")' => u = t /\ tab'[u].of = InCart'
    BY <1>1, <1>2, <2>1 DEF Is, InCart
  <2>5. \A g \in Good : cart'[g] # NoWish => bought'[cart'[g]] # 1
    BY <1>1, <2>1, <2>3 DEF CartInv, Checkouts
  <2> QED BY <1>2, <2>1, <2>2, <2>3, <2>4, <2>5 DEF Checkouts
<1>5. disturbed' \in BOOLEAN
  BY <1>1 DEF CartInv, Busy
<1> QED BY <1>1, <1>2, <1>3, <1>4, <1>5 DEF CartInv

(* sets a line, *)
LEMMA SetInv == ASSUME CartInv, NEW t \in Tab, SetCartItem(t) PROVE CartInv'
<1>1. PICK g : g = tab[t].good
  OBVIOUS
<1>2. /\ Is(t, "set") /\ wishes < MaxWish /\ wishes' = wishes + 1
      /\ cart' = [cart EXCEPT ![g] = wishes + 1]
      /\ gone' = gone \cup ({cart[g]} \ {NoWish})
      /\ tab' = [tab EXCEPT ![t] = NoWish]
      /\ offer' = offer /\ bought' = bought /\ disturbed' = disturbed
  BY <1>1, Zenon DEF SetCartItem
<1>3. /\ g \in Good /\ NoWish \notin Nat \cup Wish \cup CartSteps
      /\ wishes \in Nat /\ MaxWish \in Nat /\ 1..wishes \subseteq Wish
  BY <1>1, <1>2, AskedOfCart
<1>4. /\ tab' \in [Tab -> CartSteps \cup {NoWish}] /\ tab'[t] = NoWish /\ \A u \in Tab \ {t} : tab'[u] = tab[u]
      /\ \A u \in Tab \ {t} : \A s \in {"set", "order", "empty"} : Is(u, s)' <=> Is(u, s)
      /\ \A s \in {"set", "order", "empty"} : ~Is(t, s)'
  BY <1>2, TabTurns
<1>5. wishes + 1 \in Wish /\ wishes + 1 \in 0..MaxWish /\ wishes + 1 \notin 1..wishes /\ 1..wishes \subseteq 1..(wishes + 1)
      /\ wishes + 1 \in 1..(wishes + 1) /\ wishes + 1 # NoWish
  BY <1>2, <1>3 DEF Wish
<1>6. cart' \in [Good -> 0..MaxWish \cup {NoWish}] /\ cart'[g] = wishes + 1 /\ \A h \in Good \ {g} : cart'[h] = cart[h]
  BY <1>2, <1>3, <1>5 DEF CartInv
<1>7. gone' \subseteq 1..wishes /\ wishes + 1 \notin gone' /\ \A h \in Good \ {g} : cart[h] # NoWish => cart[h] \notin gone'
  BY <1>2, <1>3, <1>5 DEF CartInv, Lines
<1>8. Lines'
  <2>1. \A h \in Good : cart'[h] = NoWish \/ cart'[h] \in 1..(wishes + 1) \ gone'
    BY <1>3, <1>5, <1>6, <1>7 DEF CartInv, Lines
  <2>2. \A h \in Good : h # g => cart'[h] # wishes + 1
    BY <1>3, <1>5, <1>6 DEF CartInv, Lines
  <2>3. \A h, k \in Good : cart'[h] = cart'[k] /\ cart'[h] # NoWish => h = k
    BY <1>6, <2>2 DEF CartInv, Lines
  <2> QED BY <1>2, <2>1, <2>3 DEF Lines
<1>9. ASSUME ~disturbed PROVE Books' /\ Checkouts'
  <2>1. Books /\ Checkouts /\ \A u \in Tab \ {t} : tab[u] = NoWish
    BY <1>2, <1>9 DEF CartInv, Checkouts, Is
  <2>2. \A u \in Tab : ~Is(u, "empty")
    BY <1>2, <2>1 DEF Is
  <2>3. \A h \in Good : cart[h] # NoWish => cart[h] \in Wish /\ bought[cart[h]] = 0
    <3>1. \A h \in Good : cart[h] # NoWish => cart[h] \in Wish /\ bought[cart[h]] # 1
      BY <1>3, <2>1, <2>2 DEF CartInv, Lines, Checkouts
    <3>2. \A w \in Wish : bought[w] \in 0..2 /\ bought[w] <= 1
      BY <2>1 DEF CartInv, Books
    <3> QED BY <3>1, <3>2
  <2>4. bought[wishes + 1] = 0
    BY <1>3, <1>5, <2>1 DEF Books
  <2>5. \A w \in InCart : w = cart[g] \/ w \in InCart'
    BY <1>6 DEF InCart
  <2>6. wishes + 1 \in InCart'
    BY <1>3, <1>5, <1>6 DEF InCart
  <2>7. ASSUME NEW w \in Wish
        PROVE  /\ w > wishes' => bought'[w] = 0
               /\ bought'[w] <= 1
               /\ w \in gone' => bought'[w] = 0
               /\ w <= wishes' /\ w \notin gone' /\ bought'[w] = 0 => w \in InCart'
    <3>1. /\ w > wishes => bought[w] = 0
          /\ bought[w] <= 1
          /\ w \in gone => bought[w] = 0
          /\ w <= wishes /\ w \notin gone /\ bought[w] = 0 => w \in InCart
      BY <2>1, <2>7 DEF Books
    <3>2. w \in Nat
      BY <1>3 DEF Wish
    <3>3. w > wishes' => bought'[w] = 0
      BY <1>2, <1>3, <3>1, <3>2
    <3>4. w \in gone' => bought'[w] = 0
      BY <1>2, <1>3, <2>3, <3>1
    <3>5. ASSUME w <= wishes', w \notin gone', bought'[w] = 0 PROVE w \in InCart'
      <4>1. CASE w = wishes + 1
        BY <2>6, <4>1
      <4>2. CASE w # wishes + 1
        <5>1. w <= wishes
          BY <1>2, <1>3, <3>2, <3>5, <4>2
        <5>2. w \in InCart
          BY <1>2, <3>1, <3>5, <5>1
        <5> QED BY <1>2, <2>5, <3>5, <5>2 DEF InCart
      <4> QED BY <4>1, <4>2
    <3> QED BY <1>2, <3>1, <3>3, <3>4, <3>5
  <2>8. Books'
    BY <2>7 DEF Books
  <2>9. \A u \in Tab : tab'[u] = NoWish /\ ~Is(u, "order")' /\ ~Is(u, "empty")'
    BY <1>4, <2>1 DEF Is
  <2>10. \A h \in Good : cart'[h] # NoWish => bought'[cart'[h]] # 1
    BY <1>2, <1>6, <2>3, <2>4
  <2> QED BY <2>8, <2>9, <2>10 DEF Checkouts
<1>10. gone' \subseteq 1..wishes' /\ wishes' \in 0..MaxWish
  BY <1>2, <1>5, <1>7
<1> QED BY <1>2, <1>4, <1>6, <1>8, <1>9, <1>10 DEF CartInv

(* takes lines out, *)
LEMMA RemoveLinesInv == ASSUME CartInv, NEW goods \in SUBSET Good, RemoveCartItems(goods) PROVE CartInv'
<1>1. /\ cart' = [g \in Good |-> IF g \in goods THEN NoWish ELSE cart[g]]
      /\ gone' = gone \cup ({cart[g] : g \in goods} \ {NoWish})
      /\ disturbed' = (disturbed \/ Busy)
      /\ offer' = offer /\ tab' = tab /\ bought' = bought /\ wishes' = wishes
  BY DEF RemoveCartItems
<1>2. cart' \in [Good -> 0..MaxWish \cup {NoWish}]
  BY <1>1 DEF CartInv
<1>3. wishes \in Nat /\ MaxWish \in Nat /\ 1..wishes \subseteq Wish
  <2>1. wishes \in Nat /\ MaxWish \in Nat /\ wishes <= MaxWish
    BY MaxWishAssumption DEF CartInv
  <2> QED BY <2>1 DEF Wish
<1>4. gone' \subseteq 1..wishes
  BY <1>1 DEF CartInv, Lines
<1>5. Lines'
  <2>1. \A h \in Good : cart'[h] # NoWish => h \notin goods /\ cart'[h] = cart[h]
    BY <1>1
  <2>2. \A h \in Good \ goods : cart[h] # NoWish => cart[h] \in 1..wishes \ gone /\ \A g \in goods : cart[g] # cart[h]
    BY DEF CartInv, Lines
  <2>3. \A h \in Good : cart'[h] = NoWish \/ cart'[h] \in 1..wishes \ gone'
    BY <1>1, <2>1, <2>2
  <2>4. \A h, k \in Good : cart'[h] = cart'[k] /\ cart'[h] # NoWish => h = k
    BY <2>1 DEF CartInv, Lines
  <2> QED BY <1>1, <2>3, <2>4 DEF Lines
<1>6. ASSUME ~disturbed' PROVE Books' /\ Checkouts'
  <2>1. Books /\ Checkouts /\ \A u \in Tab : tab[u] = NoWish /\ ~Is(u, "empty") /\ ~Is(u, "order")
    BY <1>1, <1>6 DEF CartInv, Busy, Is
  <2>2. \A h \in Good : cart[h] # NoWish => cart[h] \in Wish /\ bought[cart[h]] = 0
    <3>1. \A h \in Good : cart[h] # NoWish => cart[h] \in Wish /\ bought[cart[h]] # 1
      BY <1>3, <2>1 DEF CartInv, Lines, Checkouts
    <3>2. \A w \in Wish : bought[w] \in 0..2 /\ bought[w] <= 1
      BY <2>1 DEF CartInv, Books
    <3> QED BY <3>1, <3>2
  <2>3. \A w \in InCart : w \in gone' \/ w \in InCart'
    BY <1>1 DEF InCart
  <2>4. \A w \in gone' : w \in gone \/ bought[w] = 0
    BY <1>1, <2>2
  <2>5. Books'
    BY <1>1, <2>1, <2>3, <2>4 DEF Books
  <2>6. \A h \in Good : cart'[h] # NoWish => bought'[cart'[h]] # 1
    BY <1>1, <2>2
  <2>7. \A u \in Tab : tab'[u] = NoWish /\ ~Is(u, "order")' /\ ~Is(u, "empty")'
    BY <1>1, <2>1 DEF Is
  <2> QED BY <2>5, <2>6, <2>7 DEF Checkouts
<1>7. disturbed' \in BOOLEAN
  BY <1>1 DEF CartInv, Busy
<1> QED BY <1>1, <1>2, <1>4, <1>5, <1>6, <1>7 DEF CartInv

(* places the order of what it found, *)
LEMMA PlaceInv == ASSUME CartInv, NEW t \in Tab, PlaceOrder(t) PROVE CartInv'
<1>1. PICK x : x = [step |-> "empty"]
  OBVIOUS
<1>2. /\ Is(t, "order")
      /\ bought' = [w \in Wish |-> IF w \in tab[t].of /\ bought[w] < 2 THEN bought[w] + 1 ELSE bought[w]]
      /\ tab' = [tab EXCEPT ![t] = x]
      /\ cart' = cart /\ offer' = offer /\ gone' = gone /\ wishes' = wishes /\ disturbed' = disturbed
  BY <1>1, Zenon DEF PlaceOrder
<1>3. tab[t].of \in SUBSET Wish /\ NoWish \notin Nat \cup Wish \cup CartSteps
      /\ wishes \in Nat /\ MaxWish \in Nat /\ 1..wishes \subseteq Wish
  BY <1>2, AskedOfCart
<1>4. x \in CartSteps /\ x.step = "empty" /\ x # NoWish
  <2>1. x \in CartSteps
    BY <1>1 DEF CartSteps
  <2> QED BY <1>1, <1>3, <2>1
<1>5. /\ tab' \in [Tab -> CartSteps \cup {NoWish}] /\ tab'[t] = x /\ \A u \in Tab \ {t} : tab'[u] = tab[u]
      /\ \A u \in Tab \ {t} : \A s \in {"set", "order", "empty"} : Is(u, s)' <=> Is(u, s)
      /\ \A s \in {"set", "order", "empty"} : Is(t, s)' <=> x # NoWish /\ x.step = s
  BY <1>2, <1>4, TabTurns
<1>6. \A w \in Wish : bought[w] \in 0..2
  BY DEF CartInv
<1>7. bought' \in [Wish -> 0..2]
  BY <1>2, <1>6
<1>8. Lines'
  BY <1>2 DEF CartInv, Lines
<1>9. ASSUME ~disturbed PROVE Books' /\ Checkouts'
  <2>1. Books /\ Checkouts /\ tab[t].of = InCart /\ \A u \in Tab \ {t} : tab[u] = NoWish
    BY <1>2, <1>9 DEF CartInv, Checkouts, Is
  <2>2. \A u \in Tab : ~Is(u, "empty")
    BY <1>2, <2>1 DEF Is
  <2>3. \A w \in InCart : w \in Wish /\ bought[w] = 0 /\ w <= wishes /\ w \notin gone
    <3>1. \A w \in InCart : w \in 1..wishes /\ w \notin gone /\ bought[w] # 1
      BY <2>1, <2>2 DEF CartInv, Lines, Checkouts, InCart
    <3>2. \A w \in Wish : bought[w] \in 0..2 /\ bought[w] <= 1
      BY <1>6, <2>1 DEF Books
    <3> QED BY <1>3, <3>1, <3>2
  <2>4. \A w \in Wish : bought'[w] = IF w \in InCart THEN 1 ELSE bought[w]
    BY <1>2, <1>6, <2>1, <2>3
  <2>5. InCart' = InCart
    BY <1>2 DEF InCart
  <2>6. Books'
    <3> SUFFICES ASSUME NEW w \in Wish
        PROVE  /\ w > wishes => bought'[w] = 0
               /\ bought'[w] <= 1
               /\ w \in gone => bought'[w] = 0
               /\ w <= wishes /\ w \notin gone /\ bought'[w] = 0 => w \in InCart
      BY <1>2, <2>5 DEF Books
    <3>1. w \in Nat
      BY <1>3 DEF Wish
    <3>2. CASE w \in InCart
      BY <1>3, <2>3, <2>4, <3>1, <3>2
    <3>3. CASE w \notin InCart
      BY <2>1, <2>4, <3>3 DEF Books
    <3> QED BY <3>2, <3>3
  <2>7. Is(t, "empty")' /\ ~Is(t, "order")' /\ \A u \in Tab \ {t} : tab'[u] = NoWish /\ ~Is(u, "order")'
    BY <1>4, <1>5, <2>1 DEF Is
  <2>8. \A h \in Good : cart'[h] # NoWish => bought'[cart'[h]] = 1
    <3>1. \A h \in Good : cart'[h] # NoWish => cart'[h] \in InCart
      BY <1>2 DEF InCart
    <3> QED BY <2>3, <2>4, <3>1
  <2> QED BY <2>6, <2>7, <2>8 DEF Checkouts
<1> QED BY <1>2, <1>5, <1>7, <1>8, <1>9 DEF CartInv

(* empties the cart, *)
LEMMA EmptyInv == ASSUME CartInv, NEW t \in Tab, EmptyCart(t) PROVE CartInv'
<1>1. /\ Is(t, "empty")
      /\ cart' = [g \in Good |-> NoWish]
      /\ tab' = [tab EXCEPT ![t] = NoWish]
      /\ offer' = offer /\ bought' = bought /\ gone' = gone /\ wishes' = wishes /\ disturbed' = disturbed
  BY DEF EmptyCart
<1>2. /\ tab' \in [Tab -> CartSteps \cup {NoWish}] /\ tab'[t] = NoWish /\ \A u \in Tab \ {t} : tab'[u] = tab[u]
      /\ \A u \in Tab \ {t} : \A s \in {"set", "order", "empty"} : Is(u, s)' <=> Is(u, s)
      /\ \A s \in {"set", "order", "empty"} : ~Is(t, s)'
  BY <1>1, TabTurns
<1>3. cart' \in [Good -> 0..MaxWish \cup {NoWish}] /\ Lines' /\ InCart' = {}
  BY <1>1 DEF Lines, InCart
<1>4. ASSUME ~disturbed PROVE Books' /\ Checkouts'
  <2>1. Books /\ Checkouts /\ \A u \in Tab \ {t} : tab[u] = NoWish
    BY <1>1, <1>4 DEF CartInv, Checkouts, Is
  <2>2. \A w \in InCart : bought[w] = 1
    BY <1>1, <2>1 DEF Checkouts, InCart
  <2>3. Books'
    BY <1>1, <1>3, <2>1, <2>2 DEF Books
  <2>4. \A u \in Tab : tab'[u] = NoWish /\ ~Is(u, "order")'
    BY <1>2, <2>1 DEF Is
  <2> QED BY <1>1, <2>3, <2>4 DEF Checkouts
<1> QED BY <1>1, <1>2, <1>3, <1>4 DEF CartInv

(* or stops. *)
LEMMA StopInv == ASSUME CartInv, NEW t \in Tab, StopTab(t) PROVE CartInv'
<1>1. /\ tab[t] # NoWish /\ tab' = [tab EXCEPT ![t] = NoWish] /\ disturbed' = (disturbed \/ Is(t, "empty"))
      /\ cart' = cart /\ offer' = offer /\ bought' = bought /\ gone' = gone /\ wishes' = wishes
  BY DEF StopTab
<1>2. /\ tab' \in [Tab -> CartSteps \cup {NoWish}] /\ tab'[t] = NoWish /\ \A u \in Tab \ {t} : tab'[u] = tab[u]
      /\ \A u \in Tab \ {t} : \A s \in {"set", "order", "empty"} : Is(u, s)' <=> Is(u, s)
      /\ \A s \in {"set", "order", "empty"} : ~Is(t, s)'
  BY <1>1, TabTurns
<1>3. Lines'
  BY <1>1 DEF CartInv, Lines
<1>4. ASSUME ~disturbed' PROVE Books' /\ Checkouts'
  <2>1. Books /\ Checkouts /\ ~Is(t, "empty") /\ \A u \in Tab \ {t} : tab[u] = NoWish
    BY <1>1, <1>4 DEF CartInv, Checkouts
  <2>2. Books'
    BY <1>1, <2>1 DEF Books, InCart
  <2>3. \A u \in Tab : tab'[u] = NoWish /\ ~Is(u, "order")' /\ ~Is(u, "empty")' /\ ~Is(u, "empty")
    BY <1>2, <2>1 DEF Is
  <2>4. \A g \in Good : cart'[g] # NoWish => bought'[cart'[g]] # 1
    BY <1>1, <2>1, <2>3 DEF Checkouts
  <2> QED BY <2>2, <2>3, <2>4 DEF Checkouts
<1>5. disturbed' \in BOOLEAN
  BY <1>1 DEF CartInv, Is
<1> QED BY <1>1, <1>2, <1>3, <1>4, <1>5 DEF CartInv

(* An empty cart. *)
LEMMA CartInitInv == CartInit => CartInv
<1> SUFFICES ASSUME CartInit PROVE CartInv
  OBVIOUS
<1>1. /\ \A g \in Good : cart[g] = NoWish
      /\ \A t \in Tab : tab[t] = NoWish /\ ~Is(t, "order") /\ ~Is(t, "empty")
      /\ wishes = 0 /\ gone = {}
  BY DEF CartInit, Is
<1>2. cart \in [Good -> 0..MaxWish \cup {NoWish}] /\ offer \in [Good -> Offer]
  BY DEF CartInit, Offer
<1>3. tab \in [Tab -> CartSteps \cup {NoWish}] /\ bought \in [Wish -> 0..2]
  BY DEF CartInit
<1>4. wishes \in 0..MaxWish /\ disturbed \in BOOLEAN
  <2>1. disturbed \in BOOLEAN
    BY DEF CartInit
  <2>2. wishes \in 0..MaxWish
    BY <1>1, MaxWishAssumption
  <2> QED BY <2>1, <2>2
<1>5. \A w \in Wish : bought[w] = 0 /\ w >= 1 /\ w \in Nat
  BY MaxWishAssumption DEF CartInit, Wish
<1>6. Lines /\ Checkouts
  BY <1>1 DEF Lines, Checkouts
<1>7. Books
  BY <1>1, <1>5 DEF Books
<1> QED BY <1>1, <1>2, <1>3, <1>4, <1>6, <1>7 DEF CartInv

(* Every step keeps the invariant of the cart, *)
LEMMA CartNextInv == CartInv /\ [CartNext]_cartVars => CartInv'
<1> SUFFICES ASSUME CartInv, [CartNext]_cartVars PROVE CartInv'
  OBVIOUS
<1>1. ASSUME cart' = cart, tab' = tab, bought' = bought, gone' = gone, wishes' = wishes, disturbed' = disturbed,
             offer' \in [Good -> Offer]
      PROVE  CartInv'
  <2>1. Lines' /\ (Books => Books') /\ (Checkouts => Checkouts')
    BY <1>1 DEF CartInv, Lines, Books, Checkouts, InCart, Is
  <2> QED BY <1>1, <2>1 DEF CartInv
<1>2. CASE UNCHANGED cartVars
  BY <1>1, <1>2 DEF cartVars, CartInv
<1>3. ASSUME NEW g \in Good, ChangeGood(g) PROVE CartInv'
  BY <1>1, <1>3 DEF ChangeGood, CartInv
<1>4. ASSUME NEW t \in Tab, NEW g \in Good, FindGood(t, g) PROVE CartInv'
  <2>1. PICK ask : ask = [step |-> "set", good |-> g]
    OBVIOUS
  <2>2. ask \in CartSteps /\ ask.step = "set"
    BY <2>1 DEF CartSteps
  <2> QED BY <1>4, <2>1, <2>2, OpenInv DEF FindGood
<1>5. ASSUME NEW t \in Tab, FindCart(t) PROVE CartInv'
  <2>1. PICK ask : ask = [step |-> "order", lines |-> {g \in Good : cart[g] # NoWish}, of |-> InCart]
    OBVIOUS
  <2>2. InCart \in SUBSET Wish
    BY <1>5, AskedOfCart DEF CartInv, Lines, InCart
  <2>3. ask \in CartSteps /\ ask.step = "order" /\ ask.of = InCart
    BY <2>1, <2>2 DEF CartSteps
  <2>4. Open(t, ask)
    BY <1>5, <2>1, Zenon DEF FindCart
  <2> QED BY <2>3, <2>4, OpenInv
<1>6. CASE CartNext
  BY <1>3, <1>4, <1>5, <1>6, SetInv, RemoveLinesInv, PlaceInv, EmptyInv, StopInv DEF CartNext
<1> QED BY <1>2, <1>6

(* which is what was promised of wishes. *)
LEMMA CartTells == CartInv => CartTypeOK /\ WishesKeptInTurn
<1> SUFFICES ASSUME CartInv PROVE CartTypeOK /\ WishesKeptInTurn
  OBVIOUS
<1>1. InCart \subseteq 1..wishes
  BY DEF CartInv, Lines, InCart
<1>2. CartTypeOK
  BY <1>1 DEF CartInv, CartTypeOK
<1>3. ASSUME ~disturbed, NEW w \in 1..wishes
      PROVE  /\ bought[w] <= 1
             /\ w \in gone => w \notin InCart /\ bought[w] = 0
             /\ w \notin gone /\ bought[w] = 0 => w \in InCart
             /\ w \in InCart /\ bought[w] = 1 => \E t \in Tab : Is(t, "empty")
  <2>1. w \in Wish /\ w <= wishes
    <3>1. wishes \in Nat /\ MaxWish \in Nat /\ wishes <= MaxWish
      BY MaxWishAssumption DEF CartInv
    <3> QED BY <3>1 DEF Wish
  <2>2. w \in gone => w \notin InCart
    BY DEF CartInv, Lines, InCart
  <2> QED BY <1>3, <2>1, <2>2 DEF CartInv, Books, Checkouts, InCart
<1> QED BY <1>2, <1>3 DEF WishesKeptInTurn

-----------------------------------------------------------------------------
(* The categories (Categories). *)

(* What a move has climbed: from its new parent up, without the category that is moved. *)
Climbed(e, W) ==
    /\ editor[e].to \in W \/ editor[e].at = editor[e].to
    /\ editor[e].id \notin W
    /\ \A w \in W : parentOf[w] \in W \cup {editor[e].at, Top}
(* As long as the new parent is there, the climb stands on its ancestors. *)
OnItsWay(e) == Editing(e, "move") /\ editor[e].to \in ExistingCategories => \E W \in SUBSET ExistingCategories : Climbed(e, W)
(* The rows, and who the parents are. *)
Forest ==
    /\ parentOf \in [Category -> Category \cup {Unmade, Top}]
    /\ \A c \in ExistingCategories : parentOf[c] \in ExistingCategories \cup {Top}
    /\ shown \subseteq ExistingCategories /\ filed \subseteq ExistingCategories
(* An id that was drawn for a new category is nobody else's. *)
NewIds ==
    \A e \in Editor : Editing(e, "create") =>
        /\ editor[e].id \notin ExistingCategories
        /\ \A f \in Editor \ {e} : editor[e].id \notin HeldBy(f)
OneMove == \A e, f \in Editor : Editing(e, "move") /\ Editing(f, "move") => e = f
CategoriesInv ==
    /\ Forest /\ twoMoves \in BOOLEAN
    /\ editor \in [Editor -> Edits \cup {NoEdit}]
    /\ NewIds
    /\ twoMoves \/ (Acyclic /\ OneMove /\ \A e \in Editor : OnItsWay(e))

(* What is no category. *)
LEMMA NoOne == Unmade \notin Category /\ Top \notin Category /\ Unmade # Top /\ NoEdit \notin Edits
BY CategoryAssumption

HeldIn(x) == IF x = NoEdit THEN {} ELSE {x[f] : f \in DOMAIN x \ {"op"}}

(* The fields of what a request holds, *)
LEMMA EditKinds ==
  ASSUME NEW x \in Edits
  PROVE  /\ x # NoEdit /\ x.id \in Category /\ x.id \in HeldIn(x) /\ x.op \in {"create", "move", "count", "delete"}
         /\ x.op = "create" => x.to \in Category /\ HeldIn(x) = {x.id, x.to}
         /\ x.op = "move" => x.to \in Category /\ x.at \in Category \cup {Top} /\ HeldIn(x) = {x.id, x.to, x.at}
         /\ x.op \in {"count", "delete"} => HeldIn(x) = {x.id}
<1>1. x # NoEdit
  BY NoOne
<1>2. CASE x \in [op : {"create"}, id : Category, to : Category]
  <2>1. DOMAIN x = {"op", "id", "to"} /\ x.op = "create" /\ x.id \in Category /\ x.to \in Category
    BY <1>2
  <2>2. DOMAIN x \ {"op"} = {"id", "to"}
    BY <2>1
  <2>3. {x[f] : f \in DOMAIN x \ {"op"}} = {x.id, x.to}
    BY <2>2
  <2> QED BY <1>1, <2>1, <2>3 DEF HeldIn
<1>3. CASE x \in [op : {"count", "delete"}, id : Category]
  <2>1. DOMAIN x = {"op", "id"} /\ x.op \in {"count", "delete"} /\ x.id \in Category
    BY <1>3
  <2>2. DOMAIN x \ {"op"} = {"id"}
    BY <2>1
  <2>3. {x[f] : f \in DOMAIN x \ {"op"}} = {x.id}
    BY <2>2
  <2> QED BY <1>1, <2>1, <2>3 DEF HeldIn
<1>4. CASE x \in [op : {"move"}, id : Category, to : Category, at : Category \cup {Top}]
  <2>1. DOMAIN x = {"op", "id", "to", "at"} /\ x.op = "move" /\ x.id \in Category /\ x.to \in Category
        /\ x.at \in Category \cup {Top}
    BY <1>4
  <2>2. DOMAIN x \ {"op"} = {"id", "to", "at"}
    BY <2>1
  <2>3. {x[f] : f \in DOMAIN x \ {"op"}} = {x.id, x.to, x.at}
    BY <2>2
  <2> QED BY <1>1, <2>1, <2>3 DEF HeldIn
<1> QED BY <1>2, <1>3, <1>4 DEF Edits

(* and the ids it may still use. *)
LEMMA EditorHas ==
  ASSUME CategoriesInv, NEW e \in Editor, NEW op, Editing(e, op)
  PROVE  editor[e] \in Edits /\ editor[e].op = op /\ HeldBy(e) = HeldIn(editor[e])
<1>1. editor[e] # NoEdit /\ editor[e].op = op
  BY DEF Editing
<1> QED BY <1>1 DEF CategoriesInv, HeldBy, HeldIn

(* A request goes on, and no row changes its place. *)
LEMMA EditInv ==
  ASSUME CategoriesInv, NEW e \in Editor, NEW x \in Edits \cup {NoEdit}, editor' = [editor EXCEPT ![e] = x],
         parentOf' = parentOf, shown' = shown, filed' = filed, twoMoves' \in BOOLEAN,
         x # NoEdit /\ x.op = "create" => x.id \notin ExistingCategories /\ \A f \in Editor \ {e} : x.id \notin HeldBy(f),
         \A f \in Editor \ {e} : Editing(f, "create") => editor[f].id \notin HeldIn(x),
         ~twoMoves' => /\ ~twoMoves
                       /\ x # NoEdit /\ x.op = "move" =>
                            /\ \A f \in Editor \ {e} : ~Editing(f, "move")
                            /\ x.to \in ExistingCategories =>
                                 \E W \in SUBSET ExistingCategories :
                                    /\ x.to \in W \/ x.at = x.to
                                    /\ x.id \notin W
                                    /\ \A w \in W : parentOf[w] \in W \cup {x.at, Top}
  PROVE  CategoriesInv'
<1>1. editor' \in [Editor -> Edits \cup {NoEdit}] /\ editor'[e] = x /\ \A f \in Editor \ {e} : editor'[f] = editor[f]
  BY DEF CategoriesInv
<1>2. ExistingCategories' = ExistingCategories
  BY DEF ExistingCategories
<1>3. \A f \in Editor \ {e} : \A op : Editing(f, op)' <=> Editing(f, op)
  BY <1>1 DEF Editing
<1>4. \A op : Editing(e, op)' <=> x # NoEdit /\ x.op = op
  BY <1>1 DEF Editing
<1>5. HeldBy(e)' = HeldIn(x) /\ \A f \in Editor \ {e} : HeldBy(f)' = HeldBy(f)
  BY <1>1 DEF HeldBy, HeldIn
<1>6. Forest'
  BY <1>2 DEF CategoriesInv, Forest
<1>7. NewIds'
  <2>1. Editing(e, "create")' => editor'[e].id \notin ExistingCategories' /\ \A f \in Editor \ {e} : editor'[e].id \notin HeldBy(f)'
    BY <1>1, <1>2, <1>4, <1>5
  <2>2. ASSUME NEW f \in Editor \ {e}, Editing(f, "create")'
        PROVE  editor'[f].id \notin ExistingCategories' /\ \A g \in Editor \ {f} : editor'[f].id \notin HeldBy(g)'
    <3>1. Editing(f, "create") /\ editor'[f] = editor[f]
      BY <1>1, <1>3, <2>2
    <3>2. editor[f].id \notin ExistingCategories /\ \A g \in Editor \ {f} : editor[f].id \notin HeldBy(g)
      BY <3>1 DEF CategoriesInv, NewIds
    <3> QED BY <1>2, <1>5, <3>1, <3>2
  <2> QED BY <2>1, <2>2 DEF NewIds
<1>8. ASSUME ~twoMoves' PROVE Acyclic' /\ OneMove' /\ \A f \in Editor : OnItsWay(f)'
  <2>1. Acyclic'
    BY <1>2, <1>8 DEF CategoriesInv, Acyclic
  <2>2. OneMove'
    BY <1>3, <1>4, <1>8 DEF CategoriesInv, OneMove
  <2>3. OnItsWay(e)'
    BY <1>1, <1>2, <1>4, <1>8 DEF OnItsWay, Climbed
  <2>4. ASSUME NEW f \in Editor \ {e} PROVE OnItsWay(f)'
    <3>1. OnItsWay(f)
      BY <1>8 DEF CategoriesInv
    <3> QED BY <1>1, <1>2, <1>3, <3>1 DEF OnItsWay, Climbed
  <2> QED BY <2>1, <2>2, <2>3, <2>4
<1> QED BY <1>1, <1>6, <1>7, <1>8 DEF CategoriesInv

(* A new category finds its parent, *)
LEMMA FindParentInv ==
  ASSUME CategoriesInv, NEW e \in Editor, NEW c \in Category, NEW p \in Category, FindParent(e, c, p) PROVE CategoriesInv'
<1>1. PICK x : x = [op |-> "create", id |-> c, to |-> p]
  OBVIOUS
<1>2. /\ FreshCategory(c) /\ p \in ExistingCategories /\ editor' = [editor EXCEPT ![e] = x]
      /\ parentOf' = parentOf /\ shown' = shown /\ filed' = filed /\ twoMoves' = twoMoves
  BY <1>1 DEF FindParent
<1>3. x \in Edits /\ x.op = "create" /\ x.id = c /\ x.to = p
  BY <1>1 DEF Edits
<1>4. HeldIn(x) = {c, p}
  BY <1>3, EditKinds
<1>5. c \notin ExistingCategories /\ \A f \in Editor : c \notin HeldBy(f)
  BY <1>2 DEF FreshCategory, ExistingCategories
<1>6. ASSUME NEW f \in Editor \ {e}, Editing(f, "create") PROVE editor[f].id \notin HeldIn(x)
  <2>1. editor[f].id \notin ExistingCategories
    BY <1>6 DEF CategoriesInv, NewIds
  <2>2. editor[f].id \in HeldBy(f)
    BY <1>6, EditorHas, EditKinds
  <2> QED BY <1>2, <1>4, <1>5, <2>1, <2>2
<1> QED BY <1>2, <1>3, <1>5, <1>6, EditInv DEF CategoriesInv

(* a move finds its category and its new parent, *)
LEMMA FindForMoveInv ==
  ASSUME CategoriesInv, NEW e \in Editor, NEW c \in Category, NEW p \in Category, FindForMove(e, c, p) PROVE CategoriesInv'
<1>1. PICK x : x = [op |-> "move", id |-> c, to |-> p, at |-> p]
  OBVIOUS
<1>2. /\ c \in ExistingCategories /\ p \in ExistingCategories /\ editor' = [editor EXCEPT ![e] = x]
      /\ parentOf' = parentOf /\ shown' = shown /\ filed' = filed
      /\ twoMoves' = (twoMoves \/ \E f \in Editor : Editing(f, "move"))
  BY <1>1 DEF FindForMove
<1>3. x \in Edits /\ x.op = "move" /\ x.id = c /\ x.to = p /\ x.at = p
  BY <1>1 DEF Edits
<1>4. HeldIn(x) = {c, p}
  BY <1>3, EditKinds
<1>5. \A f \in Editor \ {e} : Editing(f, "create") => editor[f].id \notin HeldIn(x)
  BY <1>2, <1>4 DEF CategoriesInv, NewIds
<1>6. twoMoves' \in BOOLEAN
  BY <1>2 DEF CategoriesInv, Editing
<1>7. \E W \in SUBSET ExistingCategories :
         /\ x.to \in W \/ x.at = x.to
         /\ x.id \notin W
         /\ \A w \in W : parentOf[w] \in W \cup {x.at, Top}
  <2>1. {} \in SUBSET ExistingCategories
    OBVIOUS
  <2> QED BY <1>3, <2>1
<1> QED BY <1>2, <1>3, <1>5, <1>6, <1>7, EditInv

(* climbs from there, one parent at a time, *)
LEMMA ClimbInv == ASSUME CategoriesInv, NEW e \in Editor, Climb(e) PROVE CategoriesInv'
<1>1. PICK at : at = editor[e].at
  OBVIOUS
<1>2. PICK up : up = IF parentOf[at] \in Category THEN parentOf[at] ELSE Top
  OBVIOUS
<1>3. PICK x : x = [editor[e] EXCEPT !.at = up]
  OBVIOUS
<1>4. /\ Editing(e, "move") /\ at \in Category /\ at # editor[e].id /\ editor' = [editor EXCEPT ![e] = x]
      /\ parentOf' = parentOf /\ shown' = shown /\ filed' = filed /\ twoMoves' = twoMoves
  BY <1>1, <1>2, <1>3 DEF Climb
<1>5. editor[e] \in Edits /\ editor[e].op = "move"
  BY <1>4, EditorHas
<1>6. editor[e] \in [op : {"move"}, id : Category, to : Category, at : Category \cup {Top}]
  BY <1>5 DEF Edits
<1>7. up \in ExistingCategories \cup {Top} /\ parentOf[at] \in {up, Top, Unmade} /\ up \in Category \cup {Top}
  BY <1>2, <1>4, NoOne DEF CategoriesInv, Forest, ExistingCategories
<1>8. x \in Edits /\ x.op = "move" /\ x.id = editor[e].id /\ x.to = editor[e].to /\ x.at = up
  <2>1. x \in [op : {"move"}, id : Category, to : Category, at : Category \cup {Top}]
    BY <1>3, <1>6, <1>7
  <2>2. x.id = editor[e].id /\ x.to = editor[e].to /\ x.at = up
    BY <1>3, <1>6
  <2> QED BY <2>1, <2>2 DEF Edits
<1>9. HeldIn(x) = {editor[e].id, editor[e].to, up} /\ HeldBy(e) = {editor[e].id, editor[e].to, editor[e].at}
  BY <1>4, <1>5, <1>8, EditKinds, EditorHas
<1>10. ASSUME NEW f \in Editor \ {e}, Editing(f, "create") PROVE editor[f].id \notin HeldIn(x)
  <2>1. editor[f].id \notin ExistingCategories /\ editor[f].id \notin HeldBy(e)
    BY <1>10 DEF CategoriesInv, NewIds
  <2>2. editor[f].id \in Category
    BY <1>10, EditorHas, EditKinds
  <2> QED BY <1>7, <1>9, <2>1, <2>2, NoOne
<1>11. ASSUME ~twoMoves, x.to \in ExistingCategories
       PROVE  \E W \in SUBSET ExistingCategories :
                 /\ x.to \in W \/ x.at = x.to
                 /\ x.id \notin W
                 /\ \A w \in W : parentOf[w] \in W \cup {x.at, Top}
  <2>1. PICK W \in SUBSET ExistingCategories : Climbed(e, W)
    BY <1>4, <1>8, <1>11 DEF CategoriesInv, OnItsWay
  <2>2. CASE at \in ExistingCategories
    <3>1. parentOf[at] \in {up, Top}
      BY <1>7, <2>2 DEF ExistingCategories
    <3>2. PICK V \in SUBSET ExistingCategories : V = W \cup {at}
      BY <2>2
    <3>3. x.to \in V /\ x.id \notin V
      BY <1>1, <1>4, <1>8, <2>1, <3>2 DEF Climbed
    <3>4. \A w \in V : parentOf[w] \in V \cup {x.at, Top}
      BY <1>1, <1>8, <2>1, <3>1, <3>2 DEF Climbed
    <3> QED BY <3>3, <3>4
  <2>3. CASE at \notin ExistingCategories
    <3>1. x.to \in W /\ x.id \notin W
      BY <1>1, <1>8, <1>11, <2>1, <2>3 DEF Climbed
    <3>2. \A w \in W : parentOf[w] \in ExistingCategories \cup {Top}
      BY DEF CategoriesInv, Forest
    <3>3. \A w \in W : parentOf[w] \in W \cup {x.at, Top}
      BY <1>1, <2>1, <2>3, <3>2 DEF Climbed
    <3> QED BY <3>1, <3>3
  <2> QED BY <2>2, <2>3
<1>12. ~twoMoves => \A f \in Editor \ {e} : ~Editing(f, "move")
  BY <1>4 DEF CategoriesInv, OneMove
<1>13. twoMoves' \in BOOLEAN /\ (~twoMoves' => ~twoMoves)
  BY <1>4 DEF CategoriesInv
<1> QED BY <1>4, <1>8, <1>10, <1>11, <1>12, <1>13, EditInv

(* a deletion counts, and a request gives up. *)
LEMMA CountInv ==
  ASSUME CategoriesInv, NEW e \in Editor,
         (\E c \in Category : HasNoChildren(e, c)) \/ HasNoProducts(e) \/ GiveUpEdit(e)
  PROVE  CategoriesInv'
<1>1. ASSUME NEW c \in Category, HasNoChildren(e, c) PROVE CategoriesInv'
  <2>1. PICK x : x = [op |-> "count", id |-> c]
    OBVIOUS
  <2>2. x \in Edits /\ x.op = "count" /\ x.id = c
    BY <2>1 DEF Edits
  <2>3. /\ c \in ExistingCategories /\ editor' = [editor EXCEPT ![e] = x]
        /\ parentOf' = parentOf /\ shown' = shown /\ filed' = filed /\ twoMoves' = twoMoves
    BY <1>1, <2>1 DEF HasNoChildren
  <2>4. HeldIn(x) = {c}
    BY <2>2, EditKinds
  <2>5. \A f \in Editor \ {e} : Editing(f, "create") => editor[f].id \notin HeldIn(x)
    BY <2>3, <2>4 DEF CategoriesInv, NewIds
  <2> QED BY <2>2, <2>3, <2>5, EditInv DEF CategoriesInv
<1>2. ASSUME HasNoProducts(e) PROVE CategoriesInv'
  <2>1. PICK x : x = [editor[e] EXCEPT !.op = "delete"]
    OBVIOUS
  <2>2. /\ Editing(e, "count") /\ editor' = [editor EXCEPT ![e] = x]
        /\ parentOf' = parentOf /\ shown' = shown /\ filed' = filed /\ twoMoves' = twoMoves
    BY <1>2, <2>1 DEF HasNoProducts
  <2>3. editor[e] \in Edits /\ editor[e].op = "count" /\ HeldBy(e) = HeldIn(editor[e])
    BY <2>2, EditorHas
  <2>4. editor[e] \in [op : {"count", "delete"}, id : Category]
    BY <2>3 DEF Edits
  <2>5. x \in [op : {"count", "delete"}, id : Category] /\ x.op = "delete" /\ x.id = editor[e].id
    BY <2>1, <2>4
  <2>6. x \in Edits
    BY <2>5 DEF Edits
  <2>7. HeldIn(x) = HeldBy(e)
    BY <2>3, <2>5, <2>6, EditKinds
  <2>8. \A f \in Editor \ {e} : Editing(f, "create") => editor[f].id \notin HeldIn(x)
    BY <2>7 DEF CategoriesInv, NewIds
  <2> QED BY <2>2, <2>5, <2>6, <2>8, EditInv DEF CategoriesInv
<1>3. ASSUME GiveUpEdit(e) PROVE CategoriesInv'
  <2>1. /\ editor' = [editor EXCEPT ![e] = NoEdit]
        /\ parentOf' = parentOf /\ shown' = shown /\ filed' = filed /\ twoMoves' = twoMoves
    BY <1>3 DEF GiveUpEdit, FinishEdit
  <2>2. HeldIn(NoEdit) = {}
    BY DEF HeldIn
  <2> QED BY <2>1, <2>2, EditInv DEF CategoriesInv
<1> QED BY <1>1, <1>2, <1>3

(* The rows change, and a request may have ended. *)
Ended == \A f \in Editor : editor'[f] \in {editor[f], NoEdit}

(* What a change of the rows has to keep. *)
LEMMA RowsChange ==
  ASSUME CategoriesInv, editor' \in [Editor -> Edits \cup {NoEdit}], Ended, Forest', twoMoves' = twoMoves,
         \A f \in Editor : Editing(f, "create")' => editor[f].id \notin ExistingCategories',
         ~twoMoves => /\ Acyclic'
                      /\ \A f \in Editor : OnItsWay(f) /\ Editing(f, "move")' => OnItsWay(f)'
  PROVE  CategoriesInv'
<1>1. \A f \in Editor : \A op : Editing(f, op)' => Editing(f, op) /\ editor'[f] = editor[f]
  BY DEF Ended, Editing
<1>2. \A f \in Editor : HeldBy(f)' \subseteq HeldBy(f)
  BY DEF Ended, HeldBy
<1>3. NewIds'
  BY <1>1, <1>2 DEF CategoriesInv, NewIds
<1>4. ASSUME ~twoMoves PROVE OneMove' /\ \A f \in Editor : OnItsWay(f)'
  <2>1. OneMove'
    BY <1>1, <1>4 DEF CategoriesInv, OneMove
  <2>2. ASSUME NEW f \in Editor PROVE OnItsWay(f)'
    <3>1. CASE Editing(f, "move")'
      BY <1>4, <3>1 DEF CategoriesInv
    <3>2. CASE ~Editing(f, "move")'
      BY <3>2 DEF OnItsWay
    <3> QED BY <3>1, <3>2
  <2> QED BY <2>1, <2>2
<1> QED BY <1>3, <1>4 DEF CategoriesInv

(* A new row is nobody's parent yet, so it closes no cycle, *)
LEMMA InsertInv ==
  ASSUME CategoriesInv, editor' \in [Editor -> Edits \cup {NoEdit}], Ended, NEW c \in Category,
         NEW p \in ExistingCategories \cup {Top}, NEW b \in BOOLEAN, InsertUnder(c, p, b),
         \A f \in Editor : editor'[f] # NoEdit => c \notin HeldBy(f)
  PROVE  CategoriesInv'
<1>1. /\ parentOf[c] = Unmade /\ parentOf' = [parentOf EXCEPT ![c] = p]
      /\ shown' = (IF b THEN shown \cup {c} ELSE shown) /\ filed' = filed /\ twoMoves' = twoMoves
  BY DEF InsertUnder
<1>2. /\ parentOf \in [Category -> Category \cup {Unmade, Top}]
      /\ \A d \in ExistingCategories : parentOf[d] \in ExistingCategories \cup {Top}
      /\ shown \subseteq ExistingCategories /\ filed \subseteq ExistingCategories /\ ExistingCategories \in SUBSET Category
  BY DEF CategoriesInv, Forest, ExistingCategories
<1>3. /\ parentOf' \in [Category -> Category \cup {Unmade, Top}] /\ parentOf'[c] = p
      /\ \A d \in Category : d # c => parentOf'[d] = parentOf[d]
  BY <1>1, <1>2
<1>4. ExistingCategories' = ExistingCategories \cup {c} /\ c \notin ExistingCategories
  BY <1>1, <1>2, <1>3, NoOne DEF ExistingCategories
<1>5. Forest'
  BY <1>1, <1>2, <1>3, <1>4 DEF Forest
<1>6. ASSUME NEW f \in Editor, Editing(f, "create")' PROVE editor[f].id \notin ExistingCategories'
  <2>1. editor'[f] # NoEdit /\ Editing(f, "create")
    BY <1>6 DEF Ended, Editing
  <2>2. editor[f].id \notin ExistingCategories
    BY <2>1 DEF CategoriesInv, NewIds
  <2>3. editor[f].id \in HeldBy(f)
    BY <2>1, EditorHas, EditKinds
  <2> QED BY <1>4, <2>1, <2>2, <2>3
<1>7. ASSUME ~twoMoves PROVE Acyclic'
  <2> SUFFICES ASSUME NEW S \in SUBSET (ExistingCategories \cup {c}), S # {}, \A s \in S : parentOf'[s] \in S PROVE FALSE
    BY <1>4 DEF Acyclic
  <2>1. Acyclic
    BY <1>7 DEF CategoriesInv
  <2>2. PICK V \in SUBSET ExistingCategories : V = S \ {c}
    BY <1>4
  <2>3. V # {}
    <3>1. PICK s \in S : TRUE
      OBVIOUS
    <3>2. CASE s = c
      BY <1>3, <1>4, <2>2, <3>2, NoOne
    <3>3. CASE s # c
      BY <2>2, <3>3
    <3> QED BY <3>2, <3>3
  <2>4. ASSUME NEW s \in V PROVE parentOf[s] \in V
    <3>1. s \in ExistingCategories /\ s # c /\ s \in S
      BY <1>4, <2>2
    <3>2. s \in Category /\ parentOf[s] \in ExistingCategories \cup {Top}
      BY <1>2, <3>1 DEF ExistingCategories
    <3>3. parentOf[s] \in S
      BY <1>3, <3>1, <3>2
    <3>4. parentOf[s] # Top
      BY <1>4, <3>3, NoOne DEF ExistingCategories
    <3> QED BY <1>4, <2>2, <3>2, <3>3, <3>4
  <2> QED BY <2>1, <2>3, <2>4 DEF Acyclic
<1>8. ASSUME NEW f \in Editor, OnItsWay(f), Editing(f, "move")' PROVE OnItsWay(f)'
  <2>1. editor'[f] = editor[f] /\ editor[f] # NoEdit /\ Editing(f, "move")
    BY <1>8 DEF Ended, Editing
  <2>2. editor[f].to \in HeldBy(f)
    BY <2>1, EditorHas, EditKinds
  <2>3. editor[f].to # c
    BY <2>1, <2>2
  <2> SUFFICES ASSUME editor[f].to \in ExistingCategories
               PROVE  \E W \in SUBSET ExistingCategories' : Climbed(f, W)'
    BY <1>4, <2>1, <2>3 DEF OnItsWay
  <2>4. PICK W \in SUBSET ExistingCategories : Climbed(f, W)
    BY <1>8, <2>1 DEF OnItsWay
  <2>5. Climbed(f, W)'
    BY <1>2, <1>3, <1>4, <2>1, <2>4 DEF Climbed
  <2> QED BY <1>4, <2>4, <2>5
<1> QED BY <1>1, <1>5, <1>6, <1>7, <1>8, RowsChange

(* at the top *)
LEMMA CreateTopInv == ASSUME CategoriesInv, NEW c \in Category, NEW b \in BOOLEAN, CreateTop(c, b) PROVE CategoriesInv'
<1>1. FreshCategory(c) /\ InsertUnder(c, Top, b) /\ editor' = editor
  BY DEF CreateTop
<1>2. editor' \in [Editor -> Edits \cup {NoEdit}] /\ Ended
  BY <1>1 DEF CategoriesInv, Ended
<1> QED BY <1>1, <1>2, InsertInv DEF FreshCategory

(* (its request ends) *)
LEMMA FinishedEdit ==
  ASSUME CategoriesInv, NEW e \in Editor, FinishEdit(e)
  PROVE  editor' \in [Editor -> Edits \cup {NoEdit}] /\ Ended /\ editor'[e] = NoEdit
BY DEF CategoriesInv, FinishEdit, Ended

(* or under another. *)
LEMMA InsertCategoryInv == ASSUME CategoriesInv, NEW e \in Editor, NEW b \in BOOLEAN, InsertCategory(e, b) PROVE CategoriesInv'
<1>1. /\ Editing(e, "create") /\ editor[e].to \in ExistingCategories
      /\ InsertUnder(editor[e].id, editor[e].to, b) /\ FinishEdit(e)
  BY DEF InsertCategory
<1>2. editor[e].id \in Category
  BY <1>1, EditorHas, EditKinds
<1>3. editor' \in [Editor -> Edits \cup {NoEdit}] /\ Ended /\ editor'[e] = NoEdit
  BY <1>1, FinishedEdit
<1>4. \A f \in Editor : editor'[f] # NoEdit => editor[e].id \notin HeldBy(f)
  BY <1>1, <1>3 DEF CategoriesInv, NewIds
<1>5. PICK c \in Category, p \in ExistingCategories \cup {Top} : c = editor[e].id /\ p = editor[e].to
  BY <1>1, <1>2
<1>6. InsertUnder(c, p, b) /\ \A f \in Editor : editor'[f] # NoEdit => c \notin HeldBy(f)
  BY <1>1, <1>4, <1>5
<1> QED BY <1>3, <1>6, InsertInv

(* A move closes no cycle: every cycle would pass through the climbed ancestors, which lead to the top. *)
LEMMA UpdateParentInv == ASSUME CategoriesInv, NEW e \in Editor, UpdateParent(e) PROVE CategoriesInv'
<1>1. PICK c, p : c = editor[e].id /\ p = editor[e].to
  OBVIOUS
<1>2. /\ Editing(e, "move") /\ editor[e].at = Top /\ c \in ExistingCategories /\ p \in ExistingCategories
      /\ parentOf' = [parentOf EXCEPT ![c] = p] /\ FinishEdit(e)
      /\ shown' = shown /\ filed' = filed /\ twoMoves' = twoMoves
  BY <1>1 DEF UpdateParent
<1>3. editor' \in [Editor -> Edits \cup {NoEdit}] /\ Ended /\ editor'[e] = NoEdit
  BY <1>2, FinishedEdit
<1>4. /\ parentOf \in [Category -> Category \cup {Unmade, Top}] /\ ExistingCategories \in SUBSET Category
      /\ \A d \in ExistingCategories : parentOf[d] \in ExistingCategories \cup {Top}
  BY DEF CategoriesInv, Forest, ExistingCategories
<1>5. /\ parentOf' \in [Category -> Category \cup {Unmade, Top}] /\ parentOf'[c] = p
      /\ \A d \in Category : d # c => parentOf'[d] = parentOf[d]
  BY <1>2, <1>4
<1>6. ExistingCategories' = ExistingCategories
  BY <1>2, <1>4, <1>5, NoOne DEF ExistingCategories
<1>7. Forest'
  BY <1>2, <1>4, <1>5, <1>6 DEF CategoriesInv, Forest
<1>8. ASSUME NEW f \in Editor, Editing(f, "create")' PROVE editor[f].id \notin ExistingCategories'
  <2>1. Editing(f, "create")
    BY <1>3, <1>8 DEF Ended, Editing
  <2> QED BY <1>6, <2>1 DEF CategoriesInv, NewIds
<1>9. ASSUME ~twoMoves PROVE Acyclic'
  <2> SUFFICES ASSUME NEW S \in SUBSET ExistingCategories, S # {}, \A s \in S : parentOf'[s] \in S PROVE FALSE
    BY <1>6 DEF Acyclic
  <2>1. Acyclic /\ OnItsWay(e)
    BY <1>9 DEF CategoriesInv
  <2>2. PICK W \in SUBSET ExistingCategories : Climbed(e, W)
    BY <1>1, <1>2, <2>1 DEF OnItsWay
  <2>3. p \in W /\ c \notin W /\ \A w \in W : parentOf[w] \in W \cup {Top}
    BY <1>1, <1>2, <1>4, <2>2, NoOne DEF Climbed
  <2>4. CASE c \notin S
    <3>1. \A s \in S : parentOf[s] \in S
      BY <1>4, <1>5, <2>4
    <3> QED BY <2>1, <3>1 DEF Acyclic
  <2>5. CASE c \in S
    <3>1. PICK V \in SUBSET ExistingCategories : V = S \cap W
      OBVIOUS
    <3>2. p \in V
      BY <1>5, <2>3, <2>5, <3>1
    <3>3. ASSUME NEW v \in V PROVE parentOf[v] \in V
      <4>1. v \in Category /\ v # c /\ v \in W /\ v \in S
        BY <1>4, <2>3, <3>1
      <4>2. parentOf[v] \in S /\ parentOf[v] \in W \cup {Top}
        BY <1>5, <2>3, <4>1
      <4> QED BY <1>4, <3>1, <4>2, NoOne
    <3> QED BY <2>1, <3>2, <3>3 DEF Acyclic
  <2> QED BY <2>4, <2>5
<1>10. ASSUME ~twoMoves, NEW f \in Editor, Editing(f, "move")' PROVE FALSE
  <2>1. editor'[f] # NoEdit
    BY <1>10 DEF Editing
  <2>2. Editing(f, "move")
    BY <1>3, <1>10, <2>1 DEF Ended, Editing
  <2>3. f = e
    BY <1>2, <1>10, <2>2 DEF CategoriesInv, OneMove
  <2> QED BY <1>3, <2>1, <2>3
<1> QED BY <1>2, <1>3, <1>7, <1>8, <1>9, <1>10, RowsChange

(* Rows that lose their parent, or go. *)
LEMMA LooseInv ==
  ASSUME CategoriesInv, editor' \in [Editor -> Edits \cup {NoEdit}], Ended, twoMoves' = twoMoves, Forest',
         ExistingCategories' \subseteq ExistingCategories,
         \A d \in ExistingCategories' : parentOf'[d] \in {parentOf[d], Top},
         \A d \in ExistingCategories' : parentOf'[d] \in ExistingCategories' \cup {Top}
  PROVE  CategoriesInv'
<1>1. ASSUME NEW f \in Editor, Editing(f, "create")' PROVE editor[f].id \notin ExistingCategories'
  <2>1. Editing(f, "create")
    BY <1>1 DEF Ended, Editing
  <2> QED BY <2>1 DEF CategoriesInv, NewIds
<1>2. ASSUME ~twoMoves PROVE Acyclic'
  <2> SUFFICES ASSUME NEW S \in SUBSET ExistingCategories', S # {}, \A s \in S : parentOf'[s] \in S PROVE FALSE
    BY DEF Acyclic
  <2>1. Acyclic /\ S \in SUBSET ExistingCategories
    BY <1>2 DEF CategoriesInv
  <2>2. Top \notin S
    BY <2>1, NoOne DEF ExistingCategories
  <2>3. \A s \in S : parentOf[s] \in S
    BY <2>2
  <2> QED BY <2>1, <2>3 DEF Acyclic
<1>3. ASSUME NEW f \in Editor, OnItsWay(f), Editing(f, "move")' PROVE OnItsWay(f)'
  <2>1. editor'[f] = editor[f] /\ Editing(f, "move")
    BY <1>3 DEF Ended, Editing
  <2> SUFFICES ASSUME editor[f].to \in ExistingCategories'
               PROVE  \E W \in SUBSET ExistingCategories' : Climbed(f, W)'
    BY <2>1 DEF OnItsWay
  <2>2. PICK W \in SUBSET ExistingCategories : Climbed(f, W)
    BY <1>3, <2>1 DEF OnItsWay
  <2>3. PICK V \in SUBSET ExistingCategories' : V = W \cap ExistingCategories'
    OBVIOUS
  <2>4. \A w \in V : parentOf'[w] \in V \cup {editor[f].at, Top}
    BY <2>2, <2>3 DEF Climbed
  <2>5. Climbed(f, V)'
    BY <2>1, <2>2, <2>3, <2>4 DEF Climbed
  <2> QED BY <2>5
<1> QED BY <1>1, <1>2, <1>3, RowsChange

(* A category moves to the top, *)
LEMMA MoveToTopInv == ASSUME CategoriesInv, NEW c \in Category, MoveToTop(c) PROVE CategoriesInv'
<1>1. /\ c \in ExistingCategories /\ parentOf' = [parentOf EXCEPT ![c] = Top]
      /\ shown' = shown /\ filed' = filed /\ editor' = editor /\ twoMoves' = twoMoves
  BY DEF MoveToTop
<1>2. /\ parentOf \in [Category -> Category \cup {Unmade, Top}]
      /\ \A d \in ExistingCategories : d \in Category /\ parentOf[d] \in ExistingCategories \cup {Top}
  BY DEF CategoriesInv, Forest, ExistingCategories
<1>3. /\ parentOf' \in [Category -> Category \cup {Unmade, Top}] /\ parentOf'[c] = Top
      /\ \A d \in Category : d # c => parentOf'[d] = parentOf[d]
  BY <1>1, <1>2
<1>4. ExistingCategories' = ExistingCategories
  BY <1>1, <1>3, NoOne DEF ExistingCategories
<1>5. Forest'
  BY <1>1, <1>2, <1>3, <1>4 DEF CategoriesInv, Forest
<1>6. editor' \in [Editor -> Edits \cup {NoEdit}] /\ Ended
  BY <1>1 DEF CategoriesInv, Ended
<1>7. \A d \in ExistingCategories' : parentOf'[d] \in {parentOf[d], Top} /\ parentOf'[d] \in ExistingCategories' \cup {Top}
  BY <1>2, <1>3, <1>4
<1> QED BY <1>1, <1>4, <1>5, <1>6, <1>7, LooseInv

(* or is deleted, and its children move to the top. *)
LEMMA DeleteCategoryInv == ASSUME CategoriesInv, NEW e \in Editor, DeleteCategory(e) PROVE CategoriesInv'
<1>1. PICK c : c = editor[e].id
  OBVIOUS
<1>2. /\ c \in ExistingCategories /\ FinishEdit(e) /\ twoMoves' = twoMoves
      /\ shown' = shown \ {c} /\ filed' = filed \ {c}
      /\ parentOf' = [d \in Category |-> IF d = c THEN Unmade ELSE IF d \in Children(c) THEN Top ELSE parentOf[d]]
  BY <1>1, Zenon DEF DeleteCategory
<1>3. /\ parentOf \in [Category -> Category \cup {Unmade, Top}] /\ ExistingCategories \in SUBSET Category
      /\ \A d \in ExistingCategories : parentOf[d] \in ExistingCategories \cup {Top}
      /\ shown \subseteq ExistingCategories /\ filed \subseteq ExistingCategories
  BY DEF CategoriesInv, Forest, ExistingCategories
<1>4. ASSUME NEW d \in Category
      PROVE  /\ d = c => parentOf'[d] = Unmade
             /\ d # c /\ d \in Children(c) => parentOf'[d] = Top
             /\ d # c /\ d \notin Children(c) => parentOf'[d] = parentOf[d]
  BY <1>2
<1>5. ExistingCategories' = ExistingCategories \ {c}
  <2>1. \A d \in Category : parentOf'[d] # Unmade <=> parentOf[d] # Unmade /\ d # c
    BY <1>4, NoOne DEF Children, ExistingCategories
  <2> QED BY <2>1 DEF ExistingCategories
<1>6. \A d \in ExistingCategories' : parentOf'[d] \in {parentOf[d], Top} /\ parentOf'[d] \in ExistingCategories' \cup {Top}
  BY <1>3, <1>4, <1>5 DEF Children
<1>7. parentOf' \in [Category -> Category \cup {Unmade, Top}]
  <2>1. \A d \in Category : parentOf'[d] \in Category \cup {Unmade, Top}
    BY <1>3, <1>4
  <2>2. parentOf' = [d \in Category |-> parentOf'[d]]
    BY <1>2
  <2> QED BY <2>1, <2>2
<1>8. Forest'
  BY <1>2, <1>3, <1>5, <1>6, <1>7 DEF Forest
<1>9. editor' \in [Editor -> Edits \cup {NoEdit}] /\ Ended
  BY <1>2, FinishedEdit
<1> QED BY <1>2, <1>5, <1>6, <1>8, <1>9, LooseInv

(* Switches and products. *)
LEMMA SwitchInv ==
  ASSUME CategoriesInv, parentOf' = parentOf, editor' = editor, twoMoves' = twoMoves,
         shown' \subseteq ExistingCategories, filed' \subseteq ExistingCategories
  PROVE  CategoriesInv'
<1>1. ExistingCategories' = ExistingCategories
  BY DEF ExistingCategories
<1>2. editor' \in [Editor -> Edits \cup {NoEdit}] /\ Ended
  BY DEF CategoriesInv, Ended
<1>3. Forest' /\ \A d \in ExistingCategories : parentOf[d] \in ExistingCategories \cup {Top}
  BY <1>1 DEF CategoriesInv, Forest
<1> QED BY <1>1, <1>2, <1>3, LooseInv

(* No categories. *)
LEMMA CategoriesInitInv == CategoriesInit => CategoriesInv
<1> SUFFICES ASSUME CategoriesInit PROVE CategoriesInv
  OBVIOUS
<1>1. ExistingCategories = {} /\ \A e \in Editor : editor[e] = NoEdit /\ \A op : ~Editing(e, op)
  BY DEF CategoriesInit, ExistingCategories, Editing
<1>2. Forest
  BY <1>1 DEF CategoriesInit, Forest
<1>3. editor \in [Editor -> Edits \cup {NoEdit}]
  BY DEF CategoriesInit
<1>4. twoMoves \in BOOLEAN
  BY DEF CategoriesInit
<1>5. Acyclic
  BY <1>1 DEF Acyclic
<1> QED BY <1>1, <1>2, <1>3, <1>4, <1>5 DEF CategoriesInv, NewIds, OneMove, OnItsWay

(* Every step keeps the invariant of categories, *)
LEMMA CategoriesNextInv == CategoriesInv /\ [CategoriesNext]_categoryVars => CategoriesInv'
<1> SUFFICES ASSUME CategoriesInv, [CategoriesNext]_categoryVars PROVE CategoriesInv'
  OBVIOUS
<1>1. CASE UNCHANGED categoryVars
  BY <1>1, SwitchInv DEF categoryVars, CategoriesInv, Forest
<1>2. ASSUME NEW c \in Category, SetActive(c) \/ FileProducts(c) PROVE CategoriesInv'
  <2>1. /\ c \in ExistingCategories /\ parentOf' = parentOf /\ editor' = editor /\ twoMoves' = twoMoves
        /\ shown' \subseteq ExistingCategories /\ filed' \subseteq ExistingCategories
    BY <1>2 DEF SetActive, FileProducts, CategoriesInv, Forest
  <2> QED BY <2>1, SwitchInv
<1>3. CASE CategoriesNext
  BY <1>2, <1>3, CreateTopInv, MoveToTopInv, FindParentInv, FindForMoveInv, InsertCategoryInv, CountInv, ClimbInv,
     UpdateParentInv, DeleteCategoryInv DEF CategoriesNext
<1> QED BY <1>1, <1>3

(* so whoever is shown is reached from a root, and only two moves at once make a cycle. *)
LEMMA CategoriesTell == CategoriesInv => CategoriesTypeOK /\ OnlyTwoMovesMakeACycle /\ EverybodyIsInTheTree
<1> SUFFICES ASSUME CategoriesInv PROVE CategoriesTypeOK /\ OnlyTwoMovesMakeACycle /\ EverybodyIsInTheTree
  OBVIOUS
<1>1. CategoriesTypeOK /\ OnlyTwoMovesMakeACycle
  BY DEF CategoriesInv, Forest, CategoriesTypeOK, OnlyTwoMovesMakeACycle
<1>2. ASSUME Acyclic, NEW c \in shown, NEW S \in SUBSET shown, TreeRoots \subseteq S,
             \A d \in shown : parentOf[d] \in S => d \in S, c \notin S
      PROVE  FALSE
  <2>1. PICK R \in SUBSET shown : R = shown \ S
    OBVIOUS
  <2>2. R \in SUBSET ExistingCategories /\ c \in R
    BY <1>2, <2>1 DEF CategoriesInv, Forest
  <2>3. \A r \in R : parentOf[r] \in R
    BY <1>2, <2>1 DEF TreeRoots
  <2> QED BY <1>2, <2>2, <2>3 DEF Acyclic
<1>3. EverybodyIsInTheTree
  BY <1>2 DEF EverybodyIsInTheTree, Tree
<1> QED BY <1>1, <1>3

-----------------------------------------------------------------------------
(* The catalogue (Catalog). *)

(* What a request has seen is still so when it writes, as long as it is alone. *)
StillSo(w) ==
    /\ w.step = "placing" => placed[w.id] \subseteq w.saw
    /\ w.step = "insert" /\ w.code # Blank => Scanned(w.code) = {}
    /\ w.step \in {"set", "valued", "write"} /\ w.code # Blank => Scanned(w.code) \subseteq {w.id}
    /\ w.step = "valued" => values[w.id] \subseteq w.saw
    /\ w.step = "valued" /\ w.value # Blank => attribute # "absent" /\ Fits(attribute, w.value)
    /\ w.step = "change" => attribute # "absent" /\ (ValuesInUse = {} \/ w.to = attribute)
(* The rows as look-ups keep them. *)
RowsInOrder ==
    /\ \A b \in Barcode : \A v, w \in Scanned(b) : v = w
    /\ \A p \in Product : \A r, q \in placed[p] : r.primary /\ q.primary => r = q
    /\ \A v \in Variant : \A r, q \in values[v] : r = q
    /\ \A v \in Variant : \A r \in values[v] : Fits(attribute, r.value)
InOrder ==
    /\ RowsInOrder
    /\ \A m \in Merchant : merchant[m] # Blank => StillSo(merchant[m])
    /\ \A m, n \in Merchant : merchant[m] # Blank /\ merchant[n] # Blank => m = n
CatalogInv == CatalogTypeOK /\ (crossed \/ InOrder)

(* What is no barcode, no value and no request. *)
LEMMA NotBlank ==
  Blank \notin Barcode /\ Blank \notin Value /\ Blank \notin WorkInHand /\ Blank # "12" /\ Blank # "red"
BY BlankAssumption DEF Value

(* An empty catalogue. *)
LEMMA CatalogInitInv == ASSUME CatalogInit PROVE CatalogInv
<1>1. LiveVariants = {} /\ LiveProducts = {}
  BY DEF CatalogInit, LiveVariants, LiveProducts, NoVariant
<1>2. Product = Product /\ NoVariant \in [state : {"none", "live"}, of : Product \cup {Blank}, barcode : Codes]
  BY DEF NoVariant, Codes
<1>3. CatalogTypeOK
  BY <1>1, <1>2 DEF CatalogInit, CatalogTypeOK, Types
<1>4. InOrder
  BY <1>1 DEF CatalogInit, InOrder, RowsInOrder, Scanned
<1> QED BY <1>3, <1>4 DEF CatalogInv

(* The fields of what a request holds. *)
LEMMA WorkKinds ==
  ASSUME NEW w \in WorkInHand
  PROVE  /\ w # Blank
         /\ w.step \in {"place", "placing", "delete", "insert", "set", "valued", "write", "change"}
         /\ w.step \in {"place", "placing"} =>
              w \in [step : {"place", "placing"}, id : Product, shelves : SUBSET Shelf, primary : Shelf, saw : SUBSET PlaceRows]
         /\ w.step = "delete" => w.id \in Product
         /\ w.step \in {"insert", "set", "valued"} =>
              w \in [step : {"insert", "set", "valued"}, id : Variant, of : Product \cup {Blank}, code : Codes,
                     value : Value \cup {Blank}, saw : SUBSET ValueRows]
         /\ w.step = "write" => w \in [step : {"write"}, id : Variant, code : Codes]
         /\ w.step = "change" => w.to \in Types
<1>1. w # Blank
  BY NotBlank
<1> QED BY <1>1 DEF WorkInHand

(* A request that stands at a step. *)
LEMMA InHand ==
  ASSUME CatalogInv, NEW m \in Merchant, NEW s, Does(m, s)
  PROVE  merchant[m] \in WorkInHand /\ merchant[m] # Blank /\ merchant[m].step = s
BY DEF CatalogInv, CatalogTypeOK, Does

(* In-order rows after a step that leaves at most one request, whose record is w. *)
LEMMA OneLeft ==
  ASSUME CatalogTypeOK', NEW m \in Merchant, NEW w, merchant'[m] = w,
         \A n \in Merchant : n # m => crossed' \/ merchant'[n] = Blank,
         crossed' \/ (RowsInOrder' /\ (w # Blank => StillSo(w)'))
  PROVE  CatalogInv'
<1> SUFFICES ASSUME ~crossed' PROVE InOrder'
  BY DEF CatalogInv
<1>1. \A n \in Merchant : merchant'[n] # Blank => n = m
  OBVIOUS
<1>2. ASSUME NEW n \in Merchant, merchant'[n] # Blank PROVE StillSo(merchant[n])'
  <2>1. n = m /\ merchant'[n] = w
    BY <1>1, <1>2
  <2>2. PICK u : u = merchant'[n]
    OBVIOUS
  <2>3. StillSo(u)'
    BY <1>2, <2>1, <2>2
  <2> QED BY <2>2, <2>3 DEF StillSo
<1> QED BY <1>1, <1>2 DEF InOrder

(* While requests do not overlap, one that works is alone, *)
LEMMA Alone ==
  ASSUME CatalogInv, NEW m \in Merchant, merchant[m] # Blank, ~crossed
  PROVE  /\ RowsInOrder /\ StillSo(merchant[m])
         /\ \A n \in Merchant : n # m => merchant[n] = Blank
BY DEF CatalogInv, InOrder

(* from its beginning *)
LEMMA Begun ==
  ASSUME CatalogInv, NEW m \in Merchant, NEW w \in WorkInHand, BeginWork(m, w)
  PROVE  /\ merchant' \in [Merchant -> WorkInHand \cup {Blank}] /\ crossed' \in BOOLEAN /\ merchant'[m] = w
         /\ ~crossed /\ \A n \in Merchant : n # m => crossed' \/ merchant'[n] = Blank
<1>1. merchant \in [Merchant -> WorkInHand \cup {Blank}]
  BY DEF CatalogInv, CatalogTypeOK
<1>2. merchant' = [merchant EXCEPT ![m] = w] /\ ~crossed
  BY DEF BeginWork
<1>3. crossed' \in BOOLEAN
  BY <1>2 DEF BeginWork
<1>4. ASSUME NEW n \in Merchant, n # m PROVE crossed' \/ merchant'[n] = Blank
  <2>1. merchant'[n] = merchant[n]
    BY <1>1, <1>2, <1>4
  <2> QED BY <2>1 DEF BeginWork
<1> QED BY <1>1, <1>2, <1>3, <1>4

(* to its end. *)
LEMMA DoneWith ==
  ASSUME CatalogInv, NEW m \in Merchant, Done(m)
  PROVE  /\ merchant' \in [Merchant -> WorkInHand \cup {Blank}] /\ crossed' = crossed /\ merchant'[m] = Blank
         /\ \A n \in Merchant : n # m => merchant'[n] = merchant[n]
BY DEF CatalogInv, CatalogTypeOK, Done

(* A request begins, the rows stay; a new product may be there. *)
LEMMA BeginsInv ==
  ASSUME CatalogInv, NEW m \in Merchant, NEW w \in WorkInHand, BeginWork(m, w),
         placed' = placed, variant' = variant, attribute' = attribute, values' = values,
         product' \in [Product -> {"none", "live"}], LiveProducts \subseteq LiveProducts',
         RowsInOrder => StillSo(w)
  PROVE  CatalogInv'
<1>1. /\ merchant' \in [Merchant -> WorkInHand \cup {Blank}] /\ crossed' \in BOOLEAN /\ merchant'[m] = w
      /\ ~crossed /\ \A n \in Merchant : n # m => crossed' \/ merchant'[n] = Blank
  BY Begun
<1>2. LiveVariants' = LiveVariants
  BY DEF LiveVariants
<1>3. ValuesInUse' = ValuesInUse /\ \A b : Scanned(b)' = Scanned(b)
  BY <1>2 DEF ValuesInUse, Scanned
<1>4. CatalogTypeOK'
  BY <1>1, <1>2 DEF CatalogInv, CatalogTypeOK
<1>5. RowsInOrder /\ RowsInOrder'
  BY <1>1, <1>3 DEF CatalogInv, InOrder, RowsInOrder
<1>6. StillSo(w)'
  BY <1>3, <1>5 DEF StillSo
<1> QED BY <1>1, <1>4, <1>5, <1>6, OneLeft

(* A product is created, *)
LEMMA CreateProductInv ==
  ASSUME CatalogInv, NEW m \in Merchant, NEW p \in Product, NEW s \in SUBSET Shelf, NEW c \in Shelf, CreateProduct(m, p, s, c)
  PROVE  CatalogInv'
<1>1. PICK w : w = [step |-> "place", id |-> p, shelves |-> s, primary |-> c, saw |-> {}]
  OBVIOUS
<1>2. w \in WorkInHand /\ w.step = "place"
  BY <1>1 DEF WorkInHand
<1>3. BeginWork(m, w) /\ product' = [product EXCEPT ![p] = "live"]
  BY <1>1 DEF CreateProduct
<1>4. product' \in [Product -> {"none", "live"}] /\ LiveProducts \subseteq LiveProducts'
  BY <1>3 DEF CatalogInv, CatalogTypeOK, LiveProducts
<1>5. StillSo(w)
  BY <1>2 DEF StillSo
<1> QED BY <1>2, <1>3, <1>4, <1>5, BeginsInv DEF CreateProduct

(* A request begins with what it has looked up: *)
LEMMA LooksUpInv ==
  ASSUME CatalogInv, NEW m \in Merchant, NEW w \in WorkInHand, BeginWork(m, w), RowsInOrder => StillSo(w),
         UNCHANGED <<product, placed, variant, attribute, values>>
  PROVE  CatalogInv'
<1>1. product' \in [Product -> {"none", "live"}] /\ LiveProducts \subseteq LiveProducts'
  BY DEF CatalogInv, CatalogTypeOK, LiveProducts
<1> QED BY <1>1, BeginsInv

(* new categories of a product, *)
LEMMA SetCategoriesInv ==
  ASSUME CatalogInv, NEW m \in Merchant, NEW p \in Product, NEW s \in SUBSET Shelf, NEW c \in Shelf, SetCategories(m, p, s, c)
  PROVE  CatalogInv'
<1>1. PICK w : w = [step |-> "place", id |-> p, shelves |-> s, primary |-> c, saw |-> {}]
  OBVIOUS
<1>2. w \in WorkInHand /\ w.step = "place"
  BY <1>1 DEF WorkInHand
<1>3. BeginWork(m, w) /\ UNCHANGED <<product, placed, variant, attribute, values>>
  BY <1>1 DEF SetCategories
<1>4. StillSo(w)
  BY <1>2 DEF StillSo
<1> QED BY <1>2, <1>3, <1>4, LooksUpInv

(* a product without variants, *)
LEMMA CountVariantsInv ==
  ASSUME CatalogInv, NEW m \in Merchant, NEW p \in Product, CountVariants(m, p)
  PROVE  CatalogInv'
<1>1. PICK w : w = [step |-> "delete", id |-> p]
  OBVIOUS
<1>2. w \in WorkInHand /\ w.step = "delete"
  BY <1>1 DEF WorkInHand
<1>3. BeginWork(m, w) /\ UNCHANGED <<product, placed, variant, attribute, values>>
  BY <1>1 DEF CountVariants
<1>4. StillSo(w)
  BY <1>2 DEF StillSo
<1> QED BY <1>2, <1>3, <1>4, LooksUpInv

(* a barcode that is free, *)
LEMMA FindProductInv ==
  ASSUME CatalogInv, NEW m \in Merchant, NEW v \in Variant, NEW p \in Product, NEW b \in Codes, NEW x \in Value \cup {Blank},
         FindProduct(m, v, p, b, x)
  PROVE  CatalogInv'
<1>1. PICK w : w = [step |-> "insert", id |-> v, of |-> p, code |-> b, value |-> x, saw |-> {}]
  OBVIOUS
<1>2. w \in WorkInHand /\ w.step = "insert" /\ w.code = b
  BY <1>1 DEF WorkInHand
<1>3. BeginWork(m, w) /\ UNCHANGED <<product, placed, variant, attribute, values>> /\ (b # Blank => Scanned(b) = {})
  BY <1>1 DEF FindProduct
<1>4. StillSo(w)
  BY <1>2, <1>3 DEF StillSo
<1> QED BY <1>2, <1>3, <1>4, LooksUpInv

(* The new barcode of a variant is its own or nobody's. *)
LEMMA FindVariantInv ==
  ASSUME CatalogInv, NEW m \in Merchant, NEW v \in Variant, NEW b \in Codes, NEW x \in Value \cup {Blank, Same},
         FindVariant(m, v, b, x)
  PROVE  CatalogInv'
<1>1. PICK w : w = IF x = Same THEN [step |-> "write", id |-> v, code |-> b]
                   ELSE [step |-> "set", id |-> v, of |-> Blank, code |-> b, value |-> x, saw |-> {}]
  OBVIOUS
<1>2. w \in WorkInHand /\ w.step \in {"write", "set"} /\ w.code = b /\ w.id = v
  <2>1. CASE x = Same
    BY <1>1, <2>1 DEF WorkInHand
  <2>2. CASE x # Same
    <3>1. w = [step |-> "set", id |-> v, of |-> Blank, code |-> b, value |-> x, saw |-> {}] /\ x \in Value \cup {Blank}
      BY <1>1, <2>2
    <3> QED BY <3>1 DEF WorkInHand
  <2> QED BY <2>1, <2>2
<1>3. /\ BeginWork(m, w) /\ UNCHANGED <<product, placed, variant, attribute, values>>
      /\ v \in LiveVariants /\ (b \notin {Blank, variant[v].barcode} => Scanned(b) = {})
  BY <1>1 DEF FindVariant
<1>4. ASSUME RowsInOrder, b # Blank PROVE Scanned(b) \subseteq {v}
  <2>1. CASE b = variant[v].barcode
    <3>1. v \in Scanned(b) /\ b \in Barcode
      BY <1>3, <1>4, <2>1 DEF Scanned, Codes
    <3> QED BY <1>4, <3>1 DEF RowsInOrder
  <2>2. CASE b # variant[v].barcode
    BY <1>3, <1>4, <2>2
  <2> QED BY <2>1, <2>2
<1>5. RowsInOrder => StillSo(w)
  BY <1>2, <1>4 DEF StillSo
<1> QED BY <1>2, <1>3, <1>5, LooksUpInv

(* an attribute that is not in use. *)
LEMMA CountUsesInv ==
  ASSUME CatalogInv, NEW m \in Merchant, NEW t \in Types, CountUses(m, t)
  PROVE  CatalogInv'
<1>1. PICK w : w = [step |-> "change", to |-> t]
  OBVIOUS
<1>2. w \in WorkInHand /\ w.step = "change" /\ w.to = t
  BY <1>1 DEF WorkInHand
<1>3. /\ BeginWork(m, w) /\ UNCHANGED <<product, placed, variant, attribute, values>>
      /\ attribute # "absent" /\ (ValuesInUse = {} \/ t = attribute)
  BY <1>1 DEF CountUses
<1>4. StillSo(w)
  BY <1>2, <1>3 DEF StillSo
<1> QED BY <1>2, <1>3, <1>4, LooksUpInv
(* A request goes on or ends; what others hold stays held by them only. *)
LEMMA GoesOn ==
  ASSUME CatalogInv, NEW m \in Merchant, merchant[m] # Blank, CatalogTypeOK', crossed' = crossed,
         NEW w, merchant'[m] = w, \A n \in Merchant : n # m /\ merchant[n] = Blank => merchant'[n] = Blank,
         crossed \/ (RowsInOrder' /\ (w # Blank => StillSo(w)'))
  PROVE  CatalogInv'
<1>1. \A n \in Merchant : n # m => crossed' \/ merchant'[n] = Blank
  BY Alone
<1> QED BY <1>1, OneLeft

(* Rows that stay as they are. *)
LEMMA SameRows ==
  ASSUME placed' = placed, variant' = variant, attribute' = attribute, values' = values
  PROVE  /\ LiveVariants' = LiveVariants /\ ValuesInUse' = ValuesInUse /\ (\A b : Scanned(b)' = Scanned(b))
         /\ RowsInOrder' = RowsInOrder
<1>1. LiveVariants' = LiveVariants
  BY DEF LiveVariants
<1>2. ValuesInUse' = ValuesInUse /\ \A b : Scanned(b)' = Scanned(b)
  BY <1>1 DEF ValuesInUse, Scanned
<1> QED BY <1>1, <1>2 DEF RowsInOrder

(* A request gives up. *)
LEMMA GiveUpWorkInv == ASSUME CatalogInv, NEW m \in Merchant, GiveUpWork(m) PROVE CatalogInv'
<1>1. merchant[m] # Blank /\ Done(m) /\ UNCHANGED <<product, placed, variant, attribute, values>>
  BY DEF GiveUpWork
<1>2. /\ merchant' \in [Merchant -> WorkInHand \cup {Blank}] /\ crossed' = crossed /\ merchant'[m] = Blank
      /\ \A n \in Merchant : n # m => merchant'[n] = merchant[n]
  BY <1>1, DoneWith
<1>3. LiveProducts' = LiveProducts /\ LiveVariants' = LiveVariants /\ (RowsInOrder => RowsInOrder')
  BY <1>1, SameRows DEF LiveProducts
<1>4. CatalogTypeOK'
  BY <1>1, <1>2, <1>3 DEF CatalogInv, CatalogTypeOK
<1>5. crossed \/ RowsInOrder'
  BY <1>3 DEF CatalogInv, InOrder
<1> QED BY <1>1, <1>2, <1>4, <1>5, GoesOn

(* The places it sees are deleted, *)
LEMMA DeletePlacesInv == ASSUME CatalogInv, NEW m \in Merchant, DeletePlaces(m) PROVE CatalogInv'
<1>1. PICK w : w = merchant[m]
  OBVIOUS
<1>2. w \in WorkInHand /\ w # Blank /\ w.step = "place"
  BY <1>1, InHand DEF DeletePlaces
<1>3. w \in [step : {"place", "placing"}, id : Product, shelves : SUBSET Shelf, primary : Shelf, saw : SUBSET PlaceRows]
  BY <1>2, WorkKinds
<1>4. PICK u : u = [step |-> "placing", id |-> w.id, shelves |-> w.shelves, primary |-> w.primary, saw |-> placed[w.id]]
  OBVIOUS
<1>5. merchant \in [Merchant -> WorkInHand \cup {Blank}] /\ placed \in [Product -> SUBSET PlaceRows]
  BY DEF CatalogInv, CatalogTypeOK
<1>6. u \in WorkInHand /\ u.step = "placing" /\ u.id = w.id /\ u.saw = placed[w.id]
  BY <1>3, <1>4, <1>5 DEF WorkInHand
<1>7. merchant' = [merchant EXCEPT ![m] = u]
  <2>1. merchant' = [merchant EXCEPT ![m].step = "placing", ![m].saw = placed[merchant[m].id]]
    BY DEF DeletePlaces
  <2>2. PICK seen : seen = placed[w.id]
    OBVIOUS
  <2>3. PICK t, i, h, c, y : w = [step |-> t, id |-> i, shelves |-> h, primary |-> c, saw |-> y]
    BY <1>3
  <2>4. u = [step |-> "placing", id |-> i, shelves |-> h, primary |-> c, saw |-> seen]
    BY <1>4, <2>2, <2>3
  <2>5. PICK v : v = [w EXCEPT !.step = "placing"]
    OBVIOUS
  <2>6. v = [step |-> "placing", id |-> i, shelves |-> h, primary |-> c, saw |-> y]
    BY <2>3, <2>5
  <2>7. u = [v EXCEPT !.saw = seen]
    BY <2>4, <2>6
  <2> QED BY <1>1, <1>5, <2>1, <2>2, <2>5, <2>7
<1>8. UNCHANGED <<product, placed, variant, attribute, values, crossed>>
  BY DEF DeletePlaces
<1>9. LiveProducts' = LiveProducts /\ LiveVariants' = LiveVariants /\ (RowsInOrder => RowsInOrder')
  BY <1>8, SameRows DEF LiveProducts
<1>10. merchant' \in [Merchant -> WorkInHand \cup {Blank}] /\ merchant'[m] = u
       /\ \A n \in Merchant : n # m => merchant'[n] = merchant[n]
  BY <1>5, <1>6, <1>7
<1>11. CatalogTypeOK'
  BY <1>8, <1>9, <1>10 DEF CatalogInv, CatalogTypeOK
<1>12. crossed \/ RowsInOrder'
  BY <1>9 DEF CatalogInv, InOrder
<1>13. StillSo(u)'
  BY <1>6, <1>8 DEF StillSo
<1> QED BY <1>1, <1>2, <1>8, <1>10, <1>11, <1>12, <1>13, GoesOn

(* A request of others that stood after its deletes: those rows are lost for it too. *)
LEMMA Forgets ==
  ASSUME CatalogInv, NEW s \in {"placing", "valued"}, NEW n \in Merchant, Does(n, s), NEW lost, NEW u,
         u = [merchant[n] EXCEPT !.saw = @ \ lost]
  PROVE  u \in WorkInHand
<1>1. PICK w : w = merchant[n]
  OBVIOUS
<1>2. w \in WorkInHand /\ w.step = s
  BY <1>1, InHand
<1>3. CASE s = "placing"
  <2>1. w \in [step : {"place", "placing"}, id : Product, shelves : SUBSET Shelf, primary : Shelf, saw : SUBSET PlaceRows]
    BY <1>2, <1>3, WorkKinds
  <2>2. u \in [step : {"place", "placing"}, id : Product, shelves : SUBSET Shelf, primary : Shelf, saw : SUBSET PlaceRows]
    BY <1>1, <2>1
  <2> QED BY <2>2 DEF WorkInHand
<1>4. CASE s = "valued"
  <2>1. w \in [step : {"insert", "set", "valued"}, id : Variant, of : Product \cup {Blank}, code : Codes,
               value : Value \cup {Blank}, saw : SUBSET ValueRows]
    BY <1>2, <1>4, WorkKinds
  <2>2. u \in [step : {"insert", "set", "valued"}, id : Variant, of : Product \cup {Blank}, code : Codes,
               value : Value \cup {Blank}, saw : SUBSET ValueRows]
    BY <1>1, <2>1
  <2> QED BY <2>2 DEF WorkInHand
<1> QED BY <1>3, <1>4

(* A transaction commits for m, which then holds x: the others that waited for its rows skip them. *)
WrittenFor(m, s, i, lost, x) ==
    merchant' = [n \in Merchant |->
        IF n = m THEN x
        ELSE IF Does(n, s) /\ merchant[n].id = i THEN [merchant[n] EXCEPT !.saw = @ \ lost] ELSE merchant[n]]

(* The requests after such a commit. *)
LEMMA Forgotten ==
  ASSUME CatalogInv, NEW m \in Merchant, NEW lost, NEW s \in {"placing", "valued"}, NEW i, NEW x \in WorkInHand \cup {Blank},
         WrittenFor(m, s, i, lost, x)
  PROVE  /\ merchant' \in [Merchant -> WorkInHand \cup {Blank}] /\ merchant'[m] = x
         /\ \A n \in Merchant : n # m /\ merchant[n] = Blank => merchant'[n] = Blank
<1>1. merchant \in [Merchant -> WorkInHand \cup {Blank}]
  BY DEF CatalogInv, CatalogTypeOK
<1>2. ASSUME NEW n \in Merchant PROVE merchant'[n] \in WorkInHand \cup {Blank}
  <2>1. PICK u : u = [merchant[n] EXCEPT !.saw = @ \ lost]
    OBVIOUS
  <2>2. merchant'[n] = IF n = m THEN x ELSE IF Does(n, s) /\ merchant[n].id = i THEN u ELSE merchant[n]
    BY <2>1 DEF WrittenFor
  <2>3. Does(n, s) => u \in WorkInHand
    BY <2>1, Forgets
  <2> QED BY <1>1, <2>2, <2>3
<1>3. merchant' = [n \in Merchant |-> merchant'[n]] /\ merchant'[m] = x
  BY DEF WrittenFor
<1>4. merchant' \in [Merchant -> WorkInHand \cup {Blank}]
  BY <1>2, <1>3
<1>5. ASSUME NEW n \in Merchant, n # m, merchant[n] = Blank PROVE merchant'[n] = Blank
  BY <1>5 DEF Does, WrittenFor
<1> QED BY <1>3, <1>4, <1>5

(* Its places replace them: alone, it saw every old one, so its primary is the only one. *)
LEMMA CommitPlacesInv == ASSUME CatalogInv, NEW m \in Merchant, CommitPlaces(m) PROVE CatalogInv'
<1>1. PICK w : w = merchant[m]
  OBVIOUS
<1>2. w \in WorkInHand /\ w # Blank /\ w.step = "placing"
  BY <1>1, InHand DEF CommitPlaces
<1>3. w \in [step : {"place", "placing"}, id : Product, shelves : SUBSET Shelf, primary : Shelf, saw : SUBSET PlaceRows]
  BY <1>2, WorkKinds
<1>4. PICK p, left, fresh :
        /\ p = w.id /\ p \in Product /\ left = placed[w.id] \ w.saw
        /\ fresh = {[shelf |-> c, primary |-> c = w.primary] : c \in {d \in w.shelves : \A r \in left : r.shelf # d}}
  BY <1>3
<1>5. /\ p \in LiveProducts /\ placed' = [placed EXCEPT ![p] = left \cup fresh]
      /\ WrittenFor(m, "placing", p, w.saw, Blank)
      /\ UNCHANGED <<product, variant, attribute, values, crossed>>
  BY <1>1, <1>4 DEF CommitPlaces, Forget, WrittenFor
<1>6. /\ merchant' \in [Merchant -> WorkInHand \cup {Blank}] /\ merchant'[m] = Blank
      /\ \A n \in Merchant : n # m /\ merchant[n] = Blank => merchant'[n] = Blank
  BY <1>5, Forgotten
<1>7. placed \in [Product -> SUBSET PlaceRows]
  BY DEF CatalogInv, CatalogTypeOK
<1>8. ASSUME NEW r \in fresh PROVE r \in PlaceRows /\ (r.primary <=> r.shelf = w.primary) /\ \A q \in left : q.shelf # r.shelf
  <2>1. PICK c \in w.shelves : r = [shelf |-> c, primary |-> c = w.primary] /\ \A q \in left : q.shelf # c
    BY <1>4
  <2>2. c \in Shelf /\ r.shelf = c /\ r.primary = (c = w.primary)
    BY <1>3, <2>1
  <2> QED BY <2>1, <2>2 DEF PlaceRows
<1>9. \A r, q \in fresh : r.shelf = q.shelf => r = q
  <2> SUFFICES ASSUME NEW r \in fresh, NEW q \in fresh, r.shelf = q.shelf PROVE r = q
    OBVIOUS
  <2>1. r \in PlaceRows /\ q \in PlaceRows /\ r.primary = q.primary
    BY <1>8 DEF PlaceRows
  <2> QED BY <2>1 DEF PlaceRows
<1>10. /\ placed' \in [Product -> SUBSET PlaceRows] /\ placed'[p] = left \cup fresh
       /\ \A o \in Product : o # p => placed'[o] = placed[o]
  BY <1>4, <1>5, <1>7, <1>8
<1>11. LiveProducts' = LiveProducts /\ LiveVariants' = LiveVariants
  BY <1>5 DEF LiveProducts, LiveVariants
<1>12. left \subseteq placed[p] /\ \A r, q \in left : r.shelf = q.shelf => r = q
  BY <1>4 DEF CatalogInv, CatalogTypeOK
<1>13. \A r, q \in placed'[p] : r.shelf = q.shelf => r = q
  BY <1>8, <1>9, <1>10, <1>12
<1>14. CatalogTypeOK'
  BY <1>5, <1>6, <1>10, <1>11, <1>13 DEF CatalogInv, CatalogTypeOK
<1>15. ASSUME ~crossed PROVE RowsInOrder'
  <2>1. RowsInOrder /\ StillSo(w)
    BY <1>1, <1>2, <1>15, Alone
  <2>2. left = {}
    BY <1>2, <1>4, <2>1 DEF StillSo
  <2>3. \A r, q \in placed'[p] : r.primary /\ q.primary => r = q
    BY <1>8, <1>9, <1>10, <2>2
  <2>4. \A b : Scanned(b)' = Scanned(b)
    BY <1>5, <1>11 DEF Scanned
  <2>5. \A o \in Product : \A r, q \in placed'[o] : r.primary /\ q.primary => r = q
    BY <1>10, <2>1, <2>3 DEF RowsInOrder
  <2> QED BY <1>5, <2>1, <2>4, <2>5 DEF RowsInOrder
<1> QED BY <1>1, <1>2, <1>5, <1>6, <1>14, <1>15, GoesOn
(* Rows that go take nothing from what a request has seen. *)
LEMMA FewerRows ==
  ASSUME RowsInOrder, attribute' = attribute, \A p \in Product : placed'[p] \subseteq placed[p],
         \A v \in Variant : values'[v] \subseteq values[v],
         LiveVariants' \subseteq LiveVariants, \A v \in LiveVariants' : variant'[v] = variant[v]
  PROVE  RowsInOrder' /\ \A w \in WorkInHand : StillSo(w) => StillSo(w)'
<1>1. \A b : Scanned(b)' \subseteq Scanned(b)
  BY DEF Scanned
<1>2. ValuesInUse' \subseteq ValuesInUse
  BY DEF ValuesInUse, LiveVariants
<1>3. RowsInOrder'
  BY <1>1 DEF RowsInOrder
<1>4. ASSUME NEW w \in WorkInHand, StillSo(w) PROVE StillSo(w)'
  <2>1. w.step = "placing" => w.id \in Product
    BY WorkKinds
  <2>2. w.step = "valued" => w.id \in Variant
    BY WorkKinds
  <2>3. w.step = "placing" => placed'[w.id] \subseteq w.saw
    BY <1>4, <2>1 DEF StillSo
  <2>4. w.step = "valued" => values'[w.id] \subseteq w.saw
    BY <1>4, <2>2 DEF StillSo
  <2>5. w.step = "insert" /\ w.code # Blank => Scanned(w.code)' = {}
    BY <1>1, <1>4 DEF StillSo
  <2>6. w.step \in {"set", "valued", "write"} /\ w.code # Blank => Scanned(w.code)' \subseteq {w.id}
    BY <1>1, <1>4 DEF StillSo
  <2>7. w.step = "change" => attribute' # "absent" /\ (ValuesInUse' = {} \/ w.to = attribute')
    BY <1>2, <1>4 DEF StillSo
  <2>8. w.step = "valued" /\ w.value # Blank => attribute' # "absent" /\ Fits(attribute', w.value)
    BY <1>4 DEF StillSo
  <2> QED BY <2>3, <2>4, <2>5, <2>6, <2>7, <2>8 DEF StillSo
<1> QED BY <1>3, <1>4

(* A step that no request takes. *)
LEMMA NobodysStep ==
  ASSUME CatalogInv, CatalogTypeOK', merchant' = merchant, crossed' = crossed,
         crossed \/ (RowsInOrder' /\ \A w \in WorkInHand : StillSo(w) => StillSo(w)')
  PROVE  CatalogInv'
<1> SUFFICES ASSUME ~crossed PROVE InOrder'
  BY DEF CatalogInv
<1>1. InOrder
  BY DEF CatalogInv
<1>2. ASSUME NEW n \in Merchant, merchant'[n] # Blank PROVE StillSo(merchant[n])'
  <2>1. PICK u : u = merchant[n]
    OBVIOUS
  <2>2. u \in WorkInHand /\ StillSo(u)
    BY <1>1, <1>2, <2>1 DEF InOrder, CatalogInv, CatalogTypeOK
  <2>3. StillSo(u)'
    BY <2>2
  <2>4. u = merchant'[n]
    BY <2>1
  <2> QED BY <2>3, <2>4 DEF StillSo
<1> QED BY <1>1, <1>2 DEF InOrder

(* A variant goes with its values. *)
LEMMA DeleteVariantInv == ASSUME CatalogInv, NEW v \in Variant, DeleteVariant(v) PROVE CatalogInv'
<1>1. /\ v \in LiveVariants /\ variant' = [variant EXCEPT ![v] = NoVariant] /\ values' = [values EXCEPT ![v] = {}]
      /\ UNCHANGED <<product, placed, attribute, merchant, crossed>>
  BY DEF DeleteVariant
<1>2. CatalogTypeOK
  BY DEF CatalogInv
<1>3. NoVariant \in [state : {"none", "live"}, of : Product \cup {Blank}, barcode : Codes] /\ NoVariant.state = "none"
  BY DEF NoVariant, Codes
<1>4. /\ variant' \in [Variant -> [state : {"none", "live"}, of : Product \cup {Blank}, barcode : Codes]]
      /\ variant'[v] = NoVariant /\ \A w \in Variant : w # v => variant'[w] = variant[w]
      /\ values' \in [Variant -> SUBSET ValueRows] /\ values'[v] = {} /\ \A w \in Variant : w # v => values'[w] = values[w]
  BY <1>1, <1>2, <1>3 DEF CatalogTypeOK
<1>5. /\ LiveVariants' = LiveVariants \ {v} /\ \A w \in LiveVariants' : variant'[w] = variant[w]
      /\ \A w \in Variant : values'[w] \subseteq values[w]
  BY <1>3, <1>4 DEF LiveVariants
<1>6. LiveProducts' = LiveProducts
  BY <1>1 DEF LiveProducts
<1>7. \A p \in Product : placed'[p] \subseteq placed[p]
  BY <1>1
<1>8. CatalogTypeOK'
  BY <1>1, <1>2, <1>4, <1>5, <1>6 DEF CatalogTypeOK
<1>9. crossed \/ (RowsInOrder' /\ \A w \in WorkInHand : StillSo(w) => StillSo(w)')
  BY <1>1, <1>5, <1>7, FewerRows DEF CatalogInv, InOrder
<1> QED BY <1>1, <1>8, <1>9, NobodysStep

(* An attribute is created; no values were left of an older one. *)
LEMMA CreateAttributeInv == ASSUME CatalogInv, NEW t \in Types, t # "absent", CreateAttribute(t) PROVE CatalogInv'
<1>1. /\ attribute = "absent" /\ attribute' = t
      /\ UNCHANGED <<product, placed, variant, values, merchant, crossed>>
  BY DEF CreateAttribute
<1>2. LiveProducts' = LiveProducts /\ LiveVariants' = LiveVariants
  BY <1>1 DEF LiveProducts, LiveVariants
<1>3. \A b : Scanned(b)' = Scanned(b)
  BY <1>1, <1>2 DEF Scanned
<1>4. \A v \in Variant : values[v] = {}
  BY <1>1 DEF CatalogInv, CatalogTypeOK
<1>5. CatalogTypeOK'
  BY <1>1, <1>2 DEF CatalogInv, CatalogTypeOK
<1>6. ASSUME RowsInOrder PROVE RowsInOrder'
  BY <1>1, <1>3, <1>4, <1>6 DEF RowsInOrder
<1>7. ASSUME NEW w \in WorkInHand, StillSo(w) PROVE StillSo(w)'
  BY <1>1, <1>3, <1>7 DEF StillSo
<1> QED BY <1>1, <1>5, <1>6, <1>7, NobodysStep DEF CatalogInv, InOrder

(* A product goes with its places, its variants and their values. *)
LEMMA DeleteProductInv == ASSUME CatalogInv, NEW m \in Merchant, DeleteProduct(m) PROVE CatalogInv'
<1>1. PICK p : p = merchant[m].id
  OBVIOUS
<1>2. /\ merchant[m] # Blank /\ p \in LiveProducts /\ Done(m) /\ attribute' = attribute
      /\ product' = [product EXCEPT ![p] = "none"] /\ placed' = [placed EXCEPT ![p] = {}]
      /\ variant' = [v \in Variant |-> IF v \in VariantsOf(p) THEN NoVariant ELSE variant[v]]
      /\ values' = [v \in Variant |-> IF v \in VariantsOf(p) THEN {} ELSE values[v]]
  BY <1>1 DEF DeleteProduct, Does
<1>3. CatalogTypeOK
  BY DEF CatalogInv
<1>4. /\ merchant' \in [Merchant -> WorkInHand \cup {Blank}] /\ crossed' = crossed /\ merchant'[m] = Blank
      /\ \A n \in Merchant : n # m => merchant'[n] = merchant[n]
  BY <1>2, DoneWith
<1>5. NoVariant \in [state : {"none", "live"}, of : Product \cup {Blank}, barcode : Codes] /\ NoVariant.state = "none"
  BY DEF NoVariant, Codes
<1>6. ASSUME NEW v \in Variant
      PROVE  /\ v \in VariantsOf(p) => variant'[v] = NoVariant /\ values'[v] = {}
             /\ v \notin VariantsOf(p) => variant'[v] = variant[v] /\ values'[v] = values[v]
             /\ variant'[v] \in [state : {"none", "live"}, of : Product \cup {Blank}, barcode : Codes]
             /\ values'[v] \in SUBSET ValueRows /\ values'[v] \subseteq values[v]
  BY <1>2, <1>3, <1>5 DEF CatalogTypeOK
<1>7. /\ variant' = [v \in Variant |-> variant'[v]] /\ values' = [v \in Variant |-> values'[v]]
  BY <1>2
<1>8. /\ variant' \in [Variant -> [state : {"none", "live"}, of : Product \cup {Blank}, barcode : Codes]]
      /\ values' \in [Variant -> SUBSET ValueRows]
  BY <1>6, <1>7
<1>9. /\ LiveVariants' = LiveVariants \ VariantsOf(p) /\ \A v \in LiveVariants' : variant'[v] = variant[v]
  BY <1>5, <1>6 DEF LiveVariants
<1>10. /\ product' \in [Product -> {"none", "live"}] /\ LiveProducts' = LiveProducts \ {p}
       /\ placed' \in [Product -> SUBSET PlaceRows] /\ placed'[p] = {} /\ \A o \in Product : o # p => placed'[o] = placed[o]
  BY <1>2, <1>3 DEF CatalogTypeOK, LiveProducts
<1>11. \A v \in LiveVariants' : variant'[v].of \in LiveProducts'
  BY <1>3, <1>9, <1>10 DEF CatalogTypeOK, VariantsOf
<1>12. \A v \in Variant : values'[v] # {} => v \in LiveVariants' /\ attribute' # "absent"
  BY <1>2, <1>3, <1>6, <1>9 DEF CatalogTypeOK
<1>13. CatalogTypeOK'
  BY <1>2, <1>3, <1>4, <1>8, <1>10, <1>11, <1>12 DEF CatalogTypeOK
<1>14. crossed \/ RowsInOrder'
  <2>1. \A o \in Product : placed'[o] \subseteq placed[o]
    BY <1>10
  <2> QED BY <1>2, <1>6, <1>9, <2>1, FewerRows DEF CatalogInv, InOrder
<1> QED BY <1>2, <1>4, <1>13, <1>14, GoesOn

(* A variant is inserted: alone, its barcode is still free. *)
LEMMA InsertVariantInv == ASSUME CatalogInv, NEW m \in Merchant, InsertVariant(m) PROVE CatalogInv'
<1>1. PICK w : w = merchant[m]
  OBVIOUS
<1>2. w \in WorkInHand /\ w # Blank /\ w.step = "insert"
  BY <1>1, InHand DEF InsertVariant
<1>3. w \in [step : {"insert", "set", "valued"}, id : Variant, of : Product \cup {Blank}, code : Codes,
             value : Value \cup {Blank}, saw : SUBSET ValueRows]
  BY <1>2, WorkKinds
<1>4. PICK i \in Variant, b \in Codes, o \in Product \cup {Blank} : i = w.id /\ o = w.of /\ b = w.code
  BY <1>3
<1>5. /\ o \in LiveProducts /\ variant[i].state = "none"
      /\ variant' = [variant EXCEPT ![i] = [state |-> "live", of |-> o, barcode |-> b]]
      /\ IF w.value = Blank THEN Done(m) ELSE Continue(m, "set")
      /\ UNCHANGED <<product, placed, attribute, values>>
  BY <1>1, <1>4 DEF InsertVariant
<1>6. CatalogTypeOK
  BY DEF CatalogInv
<1>7. PICK u \in WorkInHand \cup {Blank} :
        /\ merchant' = [merchant EXCEPT ![m] = u] /\ crossed' = crossed
        /\ u # Blank => u.step = "set" /\ u.code = b /\ u.id = i
  <2>1. CASE w.value = Blank
    BY <1>5, <2>1 DEF Done
  <2>2. CASE w.value # Blank
    <3>1. merchant' = [merchant EXCEPT ![m].step = "set"] /\ crossed' = crossed
      BY <1>5, <2>2 DEF Continue
    <3>2. PICK u : u = [w EXCEPT !.step = "set"]
      OBVIOUS
    <3>3. PICK t, f, y, z : w = [step |-> t, id |-> i, of |-> f, code |-> b, value |-> y, saw |-> z]
      BY <1>3, <1>4
    <3>4. u = [step |-> "set", id |-> i, of |-> f, code |-> b, value |-> y, saw |-> z]
      BY <3>2, <3>3
    <3>5. u \in [step : {"insert", "set", "valued"}, id : Variant, of : Product \cup {Blank}, code : Codes,
                 value : Value \cup {Blank}, saw : SUBSET ValueRows]
      BY <1>3, <3>3, <3>4
    <3>6. u \in WorkInHand /\ u.step = "set" /\ u.code = b /\ u.id = i
      BY <3>4, <3>5 DEF WorkInHand
    <3>7. merchant' = [merchant EXCEPT ![m] = u]
      BY <1>1, <1>6, <3>1, <3>2 DEF CatalogTypeOK
    <3> QED BY <3>1, <3>6, <3>7
  <2> QED BY <2>1, <2>2
<1>8. /\ merchant' \in [Merchant -> WorkInHand \cup {Blank}] /\ merchant'[m] = u
      /\ \A n \in Merchant : n # m => merchant'[n] = merchant[n]
  BY <1>6, <1>7 DEF CatalogTypeOK
<1>9. [state |-> "live", of |-> o, barcode |-> b] \in [state : {"none", "live"}, of : Product \cup {Blank}, barcode : Codes]
  BY <1>5 DEF LiveProducts
<1>10. /\ variant' \in [Variant -> [state : {"none", "live"}, of : Product \cup {Blank}, barcode : Codes]]
       /\ variant'[i].state = "live" /\ variant'[i].of = o /\ variant'[i].barcode = b
       /\ \A v \in Variant : v # i => variant'[v] = variant[v]
  BY <1>5, <1>6, <1>9 DEF CatalogTypeOK
<1>11. LiveVariants' = LiveVariants \cup {i} /\ i \notin LiveVariants /\ LiveProducts' = LiveProducts
  BY <1>5, <1>10 DEF LiveVariants, LiveProducts
<1>12. \A v \in LiveVariants' : variant'[v].of \in LiveProducts'
  BY <1>5, <1>6, <1>10, <1>11 DEF CatalogTypeOK, LiveVariants
<1>13. CatalogTypeOK'
  BY <1>5, <1>6, <1>7, <1>8, <1>10, <1>11, <1>12 DEF CatalogTypeOK
<1>14. ASSUME ~crossed PROVE RowsInOrder' /\ (u # Blank => StillSo(u)')
  <2>1. RowsInOrder /\ StillSo(w)
    BY <1>1, <1>2, <1>14, Alone
  <2>2. \A c : c # b => Scanned(c)' = Scanned(c)
    BY <1>10, <1>11 DEF Scanned, LiveVariants
  <2>3. b # Blank => Scanned(b)' = {i}
    <3>1. b # Blank => Scanned(b) = {}
      BY <1>2, <1>4, <2>1 DEF StillSo
    <3> QED BY <1>10, <1>11, <3>1 DEF Scanned, LiveVariants
  <2>4. RowsInOrder'
    BY <1>5, <2>1, <2>2, <2>3, NotBlank DEF RowsInOrder
  <2>5. u # Blank => StillSo(u)'
    BY <1>7, <2>3 DEF StillSo
  <2> QED BY <2>4, <2>5
<1> QED BY <1>1, <1>2, <1>7, <1>8, <1>13, <1>14, GoesOn

(* The values it sees are deleted, and the new one is checked, *)
LEMMA DeleteValuesInv == ASSUME CatalogInv, NEW m \in Merchant, DeleteValues(m) PROVE CatalogInv'
<1>1. PICK w : w = merchant[m]
  OBVIOUS
<1>2. w \in WorkInHand /\ w # Blank /\ w.step = "set"
  BY <1>1, InHand DEF DeleteValues
<1>3. w \in [step : {"insert", "set", "valued"}, id : Variant, of : Product \cup {Blank}, code : Codes,
             value : Value \cup {Blank}, saw : SUBSET ValueRows]
  BY <1>2, WorkKinds
<1>4. CatalogTypeOK
  BY DEF CatalogInv
<1>5. PICK i \in Variant, seen \in SUBSET ValueRows : i = w.id /\ seen = values[i]
  BY <1>3, <1>4 DEF CatalogTypeOK
<1>6. /\ w.value # Blank => attribute # "absent" /\ Fits(attribute, w.value)
      /\ merchant' = [merchant EXCEPT ![m].step = "valued", ![m].saw = seen]
      /\ UNCHANGED <<product, placed, variant, attribute, values, crossed>>
  BY <1>1, <1>5 DEF DeleteValues
<1>7. PICK u \in WorkInHand : /\ merchant' = [merchant EXCEPT ![m] = u]
                              /\ u.step = "valued" /\ u.code = w.code /\ u.id = i /\ u.value = w.value /\ u.saw = seen
  <2>1. PICK t, f, b, y, z : w = [step |-> t, id |-> i, of |-> f, code |-> b, value |-> y, saw |-> z]
    BY <1>3, <1>5
  <2>2. PICK x : x = [w EXCEPT !.step = "valued"]
    OBVIOUS
  <2>3. x = [step |-> "valued", id |-> i, of |-> f, code |-> b, value |-> y, saw |-> z]
    BY <2>1, <2>2
  <2>4. PICK u : u = [x EXCEPT !.saw = seen]
    OBVIOUS
  <2>5. u = [step |-> "valued", id |-> i, of |-> f, code |-> b, value |-> y, saw |-> seen]
    BY <2>3, <2>4
  <2>6. u \in [step : {"insert", "set", "valued"}, id : Variant, of : Product \cup {Blank}, code : Codes,
               value : Value \cup {Blank}, saw : SUBSET ValueRows]
    BY <1>3, <2>1, <2>5
  <2>7. u \in WorkInHand
    BY <2>6 DEF WorkInHand
  <2>8. merchant' = [merchant EXCEPT ![m] = u]
    BY <1>1, <1>4, <1>6, <2>2, <2>4 DEF CatalogTypeOK
  <2> QED BY <2>1, <2>5, <2>7, <2>8
<1>8. /\ merchant' \in [Merchant -> WorkInHand \cup {Blank}] /\ merchant'[m] = u
      /\ \A n \in Merchant : n # m => merchant'[n] = merchant[n]
  BY <1>4, <1>7 DEF CatalogTypeOK
<1>9. LiveProducts' = LiveProducts /\ LiveVariants' = LiveVariants /\ (RowsInOrder => RowsInOrder')
      /\ \A b : Scanned(b)' = Scanned(b)
  BY <1>6, SameRows DEF LiveProducts
<1>10. CatalogTypeOK'
  BY <1>4, <1>6, <1>8, <1>9 DEF CatalogTypeOK
<1>11. ASSUME ~crossed PROVE RowsInOrder' /\ StillSo(u)'
  <2>1. RowsInOrder /\ StillSo(w)
    BY <1>1, <1>2, <1>11, Alone
  <2>2. u.code # Blank => Scanned(u.code) \subseteq {i}
    BY <1>2, <1>5, <1>7, <2>1 DEF StillSo
  <2>3. values' = values /\ attribute' = attribute
    BY <1>6
  <2>4. StillSo(u)'
    BY <1>5, <1>6, <1>7, <1>9, <2>2, <2>3 DEF StillSo
  <2> QED BY <1>9, <2>1, <2>4
<1> QED BY <1>1, <1>2, <1>6, <1>8, <1>10, <1>11, GoesOn

(* Its columns are written: alone, nobody else has its barcode. *)
LEMMA WriteVariantInv == ASSUME CatalogInv, NEW m \in Merchant, WriteVariant(m) PROVE CatalogInv'
<1>1. PICK w : w = merchant[m]
  OBVIOUS
<1>2. w \in WorkInHand /\ w # Blank /\ w.step = "write"
  BY <1>1, InHand DEF WriteVariant
<1>3. w \in [step : {"write"}, id : Variant, code : Codes]
  BY <1>2, WorkKinds
<1>4. PICK i \in Variant, b \in Codes : i = w.id /\ b = w.code
  BY <1>3
<1>5. /\ i \in LiveVariants /\ variant' = [variant EXCEPT ![i].barcode = b] /\ Done(m)
      /\ UNCHANGED <<product, placed, attribute, values>>
  BY <1>1, <1>4 DEF WriteVariant
<1>6. CatalogTypeOK
  BY DEF CatalogInv
<1>7. /\ merchant' \in [Merchant -> WorkInHand \cup {Blank}] /\ crossed' = crossed /\ merchant'[m] = Blank
      /\ \A n \in Merchant : n # m => merchant'[n] = merchant[n]
  BY <1>5, DoneWith
<1>8. /\ variant' \in [Variant -> [state : {"none", "live"}, of : Product \cup {Blank}, barcode : Codes]]
      /\ variant'[i].state = variant[i].state /\ variant'[i].of = variant[i].of /\ variant'[i].barcode = b
      /\ \A v \in Variant : v # i => variant'[v] = variant[v]
  BY <1>5, <1>6 DEF CatalogTypeOK
<1>9. LiveVariants' = LiveVariants /\ LiveProducts' = LiveProducts
  BY <1>5, <1>8 DEF LiveVariants, LiveProducts
<1>10. \A v \in LiveVariants' : variant'[v].of \in LiveProducts'
  BY <1>6, <1>8, <1>9 DEF CatalogTypeOK, LiveVariants
<1>11. CatalogTypeOK'
  BY <1>5, <1>6, <1>7, <1>8, <1>9, <1>10 DEF CatalogTypeOK
<1>12. ASSUME ~crossed PROVE RowsInOrder'
  <2>1. RowsInOrder /\ StillSo(w)
    BY <1>1, <1>2, <1>12, Alone
  <2>2. \A c : c # b => Scanned(c)' \subseteq Scanned(c)
    BY <1>8, <1>9 DEF Scanned, LiveVariants
  <2>3. b # Blank => Scanned(b)' \subseteq {i}
    <3>1. b # Blank => Scanned(b) \subseteq {i}
      BY <1>2, <1>4, <2>1 DEF StillSo
    <3> QED BY <1>8, <1>9, <3>1 DEF Scanned, LiveVariants
  <2> QED BY <1>5, <2>1, <2>2, <2>3, NotBlank DEF RowsInOrder
<1> QED BY <1>1, <1>2, <1>7, <1>11, <1>12, GoesOn

(* The type of an attribute changes, or it goes with its values: alone, it is still not in use. *)
LEMMA ChangeAttributeInv == ASSUME CatalogInv, NEW m \in Merchant, ChangeAttribute(m) PROVE CatalogInv'
<1>1. PICK w : w = merchant[m]
  OBVIOUS
<1>2. w \in WorkInHand /\ w # Blank /\ w.step = "change" /\ w.to \in Types
  BY <1>1, InHand, WorkKinds DEF ChangeAttribute
<1>3. /\ attribute' = w.to /\ values' = (IF w.to = "absent" THEN [v \in Variant |-> {}] ELSE values)
      /\ Done(m) /\ UNCHANGED <<product, placed, variant>> /\ attribute # "absent"
  BY <1>1 DEF ChangeAttribute
<1>4. CatalogTypeOK
  BY DEF CatalogInv
<1>5. /\ merchant' \in [Merchant -> WorkInHand \cup {Blank}] /\ crossed' = crossed /\ merchant'[m] = Blank
      /\ \A n \in Merchant : n # m => merchant'[n] = merchant[n]
  BY <1>3, DoneWith
<1>6. LiveVariants' = LiveVariants /\ LiveProducts' = LiveProducts
  BY <1>3 DEF LiveVariants, LiveProducts
<1>7. /\ values' \in [Variant -> SUBSET ValueRows] /\ \A v \in Variant : values'[v] \subseteq values[v]
      /\ \A v \in Variant : values'[v] # {} => w.to # "absent"
  BY <1>3, <1>4 DEF CatalogTypeOK
<1>8. CatalogTypeOK'
  BY <1>2, <1>3, <1>4, <1>5, <1>6, <1>7 DEF CatalogTypeOK
<1>9. ASSUME ~crossed PROVE RowsInOrder'
  <2>1. RowsInOrder /\ StillSo(w)
    BY <1>1, <1>2, <1>9, Alone
  <2>2. ValuesInUse = {} \/ w.to = attribute
    BY <1>2, <2>1 DEF StillSo
  <2>3. ASSUME NEW v \in Variant, NEW r \in values'[v] PROVE Fits(w.to, r.value)
    <3>1. r \in values[v]
      BY <1>7, <2>3
    <3>2. r \in ValuesInUse
      BY <1>4, <3>1 DEF ValuesInUse, CatalogTypeOK
    <3> QED BY <2>1, <2>2, <3>1, <3>2 DEF RowsInOrder
  <2>4. \A b : Scanned(b)' = Scanned(b)
    BY <1>3, <1>6 DEF Scanned
  <2> QED BY <1>3, <1>7, <2>1, <2>3, <2>4 DEF RowsInOrder
<1> QED BY <1>1, <1>2, <1>5, <1>8, <1>9, GoesOn

(* then inserted: alone, it is the only one and fits. *)
LEMMA CommitValuesInv == ASSUME CatalogInv, NEW m \in Merchant, CommitValues(m) PROVE CatalogInv'
<1>1. PICK w : w = merchant[m]
  OBVIOUS
<1>2. w \in WorkInHand /\ w # Blank /\ w.step = "valued"
  BY <1>1, InHand DEF CommitValues
<1>3. w \in [step : {"insert", "set", "valued"}, id : Variant, of : Product \cup {Blank}, code : Codes,
             value : Value \cup {Blank}, saw : SUBSET ValueRows]
  BY <1>2, WorkKinds
<1>4. CatalogTypeOK
  BY DEF CatalogInv
<1>5. PICK i, b, left, fresh, u :
        /\ i = w.id /\ i \in Variant /\ b \in Codes /\ b = w.code /\ left = values[w.id] \ w.saw
        /\ fresh = {[value |-> x, by |-> m] : x \in {w.value} \cap Value}
        /\ u = IF w.of = Blank THEN [step |-> "write", id |-> i, code |-> b] ELSE Blank
  BY <1>3
<1>6. /\ i \in LiveVariants /\ (w.value # Blank => attribute # "absent")
      /\ values' = [values EXCEPT ![i] = left \cup fresh] /\ WrittenFor(m, "valued", i, w.saw, u)
      /\ UNCHANGED <<product, placed, variant, attribute, crossed>>
  BY <1>1, <1>5 DEF CommitValues, WrittenFor
<1>7. u \in WorkInHand \cup {Blank} /\ (u # Blank => u.step = "write" /\ u.code = b /\ u.id = i)
  <2>1. CASE w.of = Blank
    BY <1>5, <2>1 DEF WorkInHand
  <2>2. CASE w.of # Blank
    BY <1>5, <2>2
  <2> QED BY <2>1, <2>2
<1>8. /\ merchant' \in [Merchant -> WorkInHand \cup {Blank}] /\ merchant'[m] = u
      /\ \A n \in Merchant : n # m /\ merchant[n] = Blank => merchant'[n] = Blank
  BY <1>6, <1>7, Forgotten
<1>9. ASSUME NEW r \in fresh PROVE r \in ValueRows /\ r.value = w.value /\ r.by = m /\ w.value \in Value
  BY <1>5 DEF ValueRows
<1>10. left \subseteq values[i] /\ left \subseteq ValueRows
  BY <1>4, <1>5 DEF CatalogTypeOK
<1>11. /\ values' \in [Variant -> SUBSET ValueRows] /\ values'[i] = left \cup fresh
       /\ \A v \in Variant : v # i => values'[v] = values[v]
  <2>1. left \cup fresh \in SUBSET ValueRows
    BY <1>9, <1>10
  <2>2. values \in [Variant -> SUBSET ValueRows] /\ values' = [values EXCEPT ![i] = left \cup fresh] /\ i \in Variant
    BY <1>4, <1>5, <1>6 DEF CatalogTypeOK
  <2> QED BY <2>1, <2>2
<1>12. LiveProducts' = LiveProducts /\ LiveVariants' = LiveVariants /\ \A c : Scanned(c)' = Scanned(c)
  <2>1. LiveProducts' = LiveProducts /\ LiveVariants' = LiveVariants
    BY <1>6 DEF LiveProducts, LiveVariants
  <2>2. variant' = variant
    BY <1>6
  <2> QED BY <2>1, <2>2 DEF Scanned
<1>13. \A v \in Variant : values'[v] # {} => v \in LiveVariants /\ attribute # "absent"
  <2>1. fresh # {} => attribute # "absent"
    BY <1>6, <1>9, NotBlank
  <2> QED BY <1>4, <1>6, <1>10, <1>11, <2>1 DEF CatalogTypeOK
<1>14. CatalogTypeOK'
  BY <1>4, <1>6, <1>8, <1>11, <1>12, <1>13 DEF CatalogTypeOK
<1>15. ASSUME ~crossed PROVE RowsInOrder' /\ (u # Blank => StillSo(u)')
  <2>1. RowsInOrder /\ StillSo(w)
    BY <1>1, <1>2, <1>15, Alone
  <2>2. left = {}
    BY <1>2, <1>5, <2>1 DEF StillSo
  <2>3. \A r, q \in fresh : r = q
    BY <1>9 DEF ValueRows
  <2>4. \A r \in fresh : Fits(attribute, r.value)
    BY <1>2, <1>9, <2>1, NotBlank DEF StillSo
  <2>5. \A v \in Variant : \A r, q \in values'[v] : r = q
    BY <1>11, <2>1, <2>2, <2>3 DEF RowsInOrder
  <2>6. \A v \in Variant : \A r \in values'[v] : Fits(attribute, r.value)
    BY <1>11, <2>1, <2>2, <2>4 DEF RowsInOrder
  <2>7. attribute' = attribute /\ placed' = placed
    BY <1>6
  <2>8. RowsInOrder'
    BY <1>12, <2>1, <2>5, <2>6, <2>7 DEF RowsInOrder
  <2>9. b # Blank => Scanned(b) \subseteq {i}
    BY <1>2, <1>5, <2>1 DEF StillSo
  <2>10. u # Blank => StillSo(u)'
    BY <1>7, <1>12, <2>9 DEF StillSo
  <2> QED BY <2>8, <2>10
<1>16. crossed' = crossed
  BY <1>6
<1> QED BY <1>1, <1>2, <1>8, <1>14, <1>15, <1>16, GoesOn

(* Every step of products, *)
LEMMA ProductsNextInv == ASSUME CatalogInv, ProductsNext PROVE CatalogInv'
<1>1. ASSUME NEW m \in Merchant, NEW p \in Product, NEW s \in (SUBSET Shelf) \ {{}}, NEW c \in Shelf, CreateProduct(m, p, s, c)
      PROVE  CatalogInv'
  BY <1>1, CreateProductInv
<1> QED BY <1>1, CountVariantsInv, DeleteProductInv, GiveUpWorkInv DEF ProductsNext

(* of their places *)
LEMMA PlacesNextInv == ASSUME CatalogInv, PlacesNext PROVE CatalogInv'
<1>1. ASSUME NEW m \in Merchant, NEW p \in Product, NEW s \in (SUBSET Shelf) \ {{}}, NEW c \in Shelf, SetCategories(m, p, s, c)
      PROVE  CatalogInv'
  BY <1>1, SetCategoriesInv
<1> QED BY <1>1, DeletePlacesInv, CommitPlacesInv DEF PlacesNext

(* and of their variants *)
LEMMA VariantsNextInv == ASSUME CatalogInv, VariantsNext PROVE CatalogInv'
<1>1. ASSUME NEW m \in Merchant, NEW v \in Variant, NEW b \in Barcode \cup {Blank}, NEW x \in Value \cup {Blank},
             \/ \E p \in Product : FindProduct(m, v, p, b, x)
             \/ FindVariant(m, v, b, x) \/ FindVariant(m, v, b, Same)
      PROVE  CatalogInv'
  <2>1. b \in Codes
    BY DEF Codes
  <2>2. ASSUME NEW p \in Product, FindProduct(m, v, p, b, x) PROVE CatalogInv'
    BY <2>1, <2>2, FindProductInv
  <2>3. ASSUME NEW y \in Value \cup {Blank, Same}, FindVariant(m, v, b, y) PROVE CatalogInv'
    BY <2>1, <2>3, FindVariantInv
  <2> QED BY <1>1, <2>2, <2>3
<1>2. ASSUME NEW m \in Merchant,
             \/ InsertVariant(m) \/ DeleteValues(m) \/ CommitValues(m) \/ WriteVariant(m) \/ ChangeAttribute(m)
             \/ \E t \in Types : CountUses(m, t)
      PROVE  CatalogInv'
  BY <1>2, InsertVariantInv, DeleteValuesInv, CommitValuesInv, WriteVariantInv, ChangeAttributeInv, CountUsesInv
<1>3. ASSUME NEW t \in {"TEXT", "NUMBER"}, CreateAttribute(t) PROVE CatalogInv'
  <2>1. t \in Types /\ t # "absent"
    BY DEF Types
  <2> QED BY <1>3, <2>1, CreateAttributeInv
<1> QED BY <1>1, <1>2, <1>3, DeleteVariantInv DEF VariantsNext

(* keeps the invariant of the catalogue, *)
LEMMA CatalogNextInv == ASSUME CatalogInv, CatalogNext PROVE CatalogInv'
BY ProductsNextInv, PlacesNextInv, VariantsNextInv DEF CatalogNext

(* which is more than was promised. *)
LEMMA CatalogTells == CatalogInv => CatalogTypeOK /\ CatalogInTurn
<1> SUFFICES ASSUME CatalogInv, ~crossed PROVE CatalogInTurn
  BY DEF CatalogInv, CatalogInTurn
<1>1. RowsInOrder
  BY DEF CatalogInv, InOrder
<1>2. ASSUME NEW b \in Barcode PROVE Cardinality(Scanned(b)) <= 1
  BY <1>1, AtMostOne DEF RowsInOrder
<1>3. ASSUME NEW p \in Product PROVE Cardinality({r \in placed[p] : r.primary}) <= 1
  <2>1. PICK S : S = {r \in placed[p] : r.primary}
    OBVIOUS
  <2>2. \A x, y \in S : x = y
    BY <1>1, <2>1 DEF RowsInOrder
  <2> QED BY <2>1, <2>2, AtMostOne
<1>4. ASSUME NEW v \in Variant PROVE Cardinality(values[v]) <= 1
  BY <1>1, AtMostOne DEF RowsInOrder
<1>5. ASSUME NEW r \in ValuesInUse PROVE Fits(attribute, r.value)
  BY <1>1 DEF RowsInOrder, ValuesInUse, LiveVariants
<1> QED BY <1>2, <1>3, <1>4, <1>5 DEF CatalogInTurn

(* Steps of other parts change nothing here. *)
LEMMA CatalogStays == ASSUME CatalogInv, UNCHANGED catalogVars PROVE CatalogInv'
<1>1. UNCHANGED <<product, placed, variant, attribute, values, merchant, crossed>>
  BY DEF catalogVars
<1>2. LiveProducts' = LiveProducts /\ LiveVariants' = LiveVariants /\ ValuesInUse' = ValuesInUse
      /\ (\A b : Scanned(b)' = Scanned(b)) /\ RowsInOrder' = RowsInOrder
  BY <1>1, SameRows DEF LiveProducts
<1>3. CatalogTypeOK'
  BY <1>1, <1>2 DEF CatalogInv, CatalogTypeOK
<1>4. ASSUME NEW w \in WorkInHand, StillSo(w) PROVE StillSo(w)'
  BY <1>1, <1>2, <1>4 DEF StillSo
<1> QED BY <1>1, <1>2, <1>3, <1>4, NobodysStep DEF CatalogInv, InOrder

-----------------------------------------------------------------------------
(* Plans and limits (Plans). *)

NoLaxerThan(p) == \A r \in Resource : ceiling[r] # Null => LimitOn(p, r) # Null /\ LimitOn(p, r) <= ceiling[r]
InForceOK == planRow[onPlan] # Null /\ NoLaxerThan(onPlan)
CreatesOK ==
    \A m \in Maker : maker[m] # Null =>
        /\ planRow[maker[m].plan] # Null
        /\ maker[m].step = "limit" => NoLaxerThan(maker[m].plan)
        /\ maker[m].step = "count" =>
              LET c == ceiling[maker[m].of] IN c # Null => maker[m].limit # Null /\ maker[m].limit <= c
Creating(r) == {m \in Maker : At(m, "create") /\ maker[m].of = r}
Slack == IF rushed THEN Cardinality(Maker) - 1 ELSE 0
Room == \A r \in Resource : ceiling[r] # Null => used[r] + Cardinality(Creating(r)) <= ceiling[r] + Slack
OneCreates == rushed \/ \A m, o \in Maker : maker[m] # Null /\ maker[o] # Null => m = o
RowsMeant ==
    /\ meant \in [PlanCode -> Limits \cup {Null}]
    /\ \A p \in PlanCode : planRow[p] # Null => meant[p] \in Limits
    /\ \A f \in Officer : officer[f] # Null => planRow[officer[f].plan] # Null
OneUpdates ==
    mingled \/ /\ \A f, g \in Officer : Holding(f, "update") /\ Holding(g, "update") => f = g
               /\ \A f \in Officer : Holding(f, "update") => officer[f].was = meant[officer[f].plan]
PlansInv == PlansTypeOK /\ InForceOK /\ CreatesOK /\ Room /\ OneCreates /\ RowsMeant /\ OneUpdates /\ LimitsKeptInTurn

(* Nobody creates, and no plan has changed. *)
LEMMA PlansInitInv == PlansInit => PlansInv
<1> SUFFICES ASSUME NEW l \in Limits,
        planRow = [p \in PlanCode |-> IF p = FreePlan THEN [active |-> TRUE, limits |-> l] ELSE Null],
        meant = [p \in PlanCode |-> IF p = FreePlan THEN l ELSE Null],
        onPlan = FreePlan, ceiling = l, used = [r \in Resource |-> 0],
        maker = [m \in Maker |-> Null], officer = [f \in Officer |-> Null], rushed = FALSE, mingled = FALSE
    PROVE PlansInv
  BY DEF PlansInit
<1> USE FreePlanAssumption, LimitAssumption, NullAssumption
<1>1. [active |-> TRUE, limits |-> l] \in PlanRows
  BY DEF PlanRows
<1>2. PICK row \in PlanRows : row = [active |-> TRUE, limits |-> l]
  BY <1>1
<1>3. planRow[FreePlan] = row /\ row.limits = l /\ row # Null
  BY <1>2 DEF PlanRows
<1>11. planRow = [p \in PlanCode |-> IF p = FreePlan THEN row ELSE Null]
  BY <1>2
<1>12. \A r \in Resource : l[r] # Null => l[r] \in Nat
  BY DEF Limits
<1>13. Null \notin PlanRows \cup Creates \cup AboutPlans /\ FreePlan \in PlanCode /\ 0 \in 0..MaxUsed
  OBVIOUS
<1>4. \A p \in PlanCode : planRow[p] # Null => p = FreePlan
  OBVIOUS
<1>5. PlansTypeOK
  <2>1. planRow \in [PlanCode -> PlanRows \cup {Null}]
    BY <1>11, <1>13
  <2>2. maker \in [Maker -> Creates \cup {Null}] /\ officer \in [Officer -> AboutPlans \cup {Null}]
    OBVIOUS
  <2>3. onPlan \in PlanCode /\ used \in [Resource -> 0..MaxUsed] /\ ceiling \in Limits
    BY <1>13
  <2> QED BY <2>1, <2>2, <2>3 DEF PlansTypeOK
<1>6. InForceOK
  <2>1. planRow[onPlan] # Null /\ \A r \in Resource : LimitOn(onPlan, r) = l[r]
    BY <1>3 DEF LimitOn
  <2> QED BY <1>12, <2>1 DEF InForceOK, NoLaxerThan
<1>7. \A r \in Resource : Creating(r) = {}
  BY DEF Creating, At
<1>8. Room
  <2>1. \A r \in Resource : used[r] = 0 /\ Cardinality(Creating(r)) = 0 /\ Slack = 0
    BY <1>7, FS_EmptySet DEF Slack
  <2> QED BY <1>12, <2>1 DEF Room
<1>9. CreatesOK /\ OneCreates /\ OneUpdates
  BY DEF CreatesOK, OneCreates, OneUpdates, Holding
<1>10. RowsMeant /\ LimitsKeptInTurn
  BY <1>3, <1>4 DEF RowsMeant, LimitsKeptInTurn
<1> QED BY <1>5, <1>6, <1>8, <1>9, <1>10 DEF PlansInv

(* The creates at work are finitely many, *)
LEMMA CreatingAre ==
    \A r \in Resource : IsFiniteSet(Creating(r)) /\ Cardinality(Creating(r)) \in Nat
                        /\ Cardinality(Creating(r)) <= Cardinality(Maker) /\ Cardinality(Maker) \in Nat
<1> TAKE r \in Resource
<1>1. Creating(r) \subseteq Maker
  BY DEF Creating
<1> QED BY <1>1, MakerAssumption, FS_Subset, FS_CardinalityType

(* one more or one less when one of them begins or ends, *)
LEMMA Counts ==
    ASSUME PlansInv
    PROVE  /\ \A r \in Resource : used[r] \in Nat /\ (ceiling[r] # Null => ceiling[r] \in Nat)
           /\ rushed \in BOOLEAN /\ DOMAIN used = Resource
<1>1. ceiling \in [Resource -> Limit \cup {Null}] /\ Limit \subseteq Nat /\ MaxUsed \in Nat
  BY LimitAssumption DEF PlansInv, PlansTypeOK, Limits
<1>2. used \in [Resource -> 0..MaxUsed] /\ rushed \in BOOLEAN
  BY DEF PlansInv, PlansTypeOK
<1>3. \A r \in Resource : ceiling[r] # Null => ceiling[r] \in Nat
  BY <1>1
<1> QED BY <1>1, <1>2, <1>3

(* so that what is used stays within the room that is left for them. *)
LEMMA RoomKept ==
    ASSUME PlansInv, \A r \in Resource : Creating(r)' \subseteq Creating(r),
           UNCHANGED ceiling, used' \in [Resource -> 0..MaxUsed], \A r \in Resource : used'[r] <= used[r],
           rushed' \in BOOLEAN, rushed => rushed', Maker = {} => UNCHANGED rushed
    PROVE  Room'
<1> SUFFICES ASSUME NEW r \in Resource, ceiling[r] # Null
             PROVE  used'[r] + Cardinality(Creating(r)') <= ceiling[r] + Slack'
  BY DEF Room
<1>1. Cardinality(Creating(r)') \in Nat /\ Cardinality(Creating(r)') <= Cardinality(Creating(r))
      /\ Cardinality(Creating(r)) \in Nat /\ Cardinality(Maker) \in Nat
  BY CreatingAre, FS_Subset, FS_CardinalityType
<1>2. Maker # {} => Cardinality(Maker) >= 1
  BY <1>1, MakerAssumption, FS_EmptySet
<1>3. used[r] + Cardinality(Creating(r)) <= ceiling[r] + Slack
  BY DEF PlansInv, Room
<1>4. used[r] \in Nat /\ used'[r] \in Nat /\ ceiling[r] \in Nat /\ rushed \in BOOLEAN
  <2>1. \A n \in 0..MaxUsed : n \in Nat
    BY LimitAssumption
  <2> QED BY <2>1, Counts
<1>5. Slack \in Int /\ Slack' \in Int /\ Slack <= Slack'
  BY <1>1, <1>2, <1>4 DEF Slack
<1> HIDE DEF Slack
<1> QED BY <1>1, <1>3, <1>4, <1>5

(* A create that ends, or goes on reading. *)
LEMMA MakerMoves ==
    ASSUME PlansInv, NEW m \in Maker, NEW new \in Creates \cup {Null}, maker' = [maker EXCEPT ![m] = new],
           new # Null =>
               /\ planRow[new.plan] # Null
               /\ new.step = "limit" => NoLaxerThan(new.plan)
               /\ new.step = "count" => (ceiling[new.of] # Null => new.limit # Null /\ new.limit <= ceiling[new.of]),
           rushed' \in BOOLEAN, OneCreates', Room', used' \in [Resource -> 0..MaxUsed], UNCHANGED <<planRow, onPlan, officer, ceiling, meant, mingled>>
    PROVE  PlansInv'
<1>1. PlansTypeOK'
  BY DEF PlansInv, PlansTypeOK
<1>2. InForceOK' /\ RowsMeant' /\ OneUpdates' /\ LimitsKeptInTurn'
  BY DEF PlansInv, InForceOK, NoLaxerThan, LimitOn, RowsMeant, OneUpdates, LimitsKeptInTurn, Holding
<1>4. CreatesOK'
  BY DEF PlansInv, CreatesOK, NoLaxerThan, LimitOn, PlansTypeOK
<1> QED BY <1>1, <1>2, <1>4 DEF PlansInv

(* The rows and requests of plans. *)
LEMMA PlanFacts ==
    ASSUME PlansInv
    PROVE  /\ \A m \in Maker : maker[m] # Null => maker[m] \in Creates
           /\ \A f \in Officer : officer[f] # Null => officer[f] \in AboutPlans
           /\ \A p \in PlanCode : planRow[p] # Null => planRow[p] \in PlanRows /\ planRow[p].limits \in Limits
           /\ Null \notin Creates /\ Null \notin AboutPlans /\ Null \notin PlanRows
  BY NullAssumption DEF PlansInv, PlansTypeOK, PlanRows

(* A step of a create keeps the invariant. *)
LEMMA CreatesStep == ASSUME PlansInv, CreatesNext PROVE PlansInv'
<1> USE PlanFacts
<1>1. ASSUME NEW m \in Maker, NEW r \in Resource, ReadPlan(m, r) PROVE PlansInv'
  <2>1. PICK new \in Creates : new = [step |-> "limit", of |-> r, plan |-> onPlan, limit |-> Null]
    <3>1. [step |-> "limit", of |-> r, plan |-> onPlan, limit |-> Null] \in Creates
      BY DEF Creates, PlansInv, PlansTypeOK
    <3> QED BY <3>1
  <2>2. new.step = "limit" /\ new.plan = onPlan /\ maker' = [maker EXCEPT ![m] = new]
    BY <1>1, <2>1 DEF ReadPlan
  <2>3. \A q \in Resource : Creating(q)' \subseteq Creating(q)
    BY <2>2 DEF Creating, At, PlansInv, PlansTypeOK
  <2>4. rushed' \in BOOLEAN /\ (rushed => rushed')
    BY <1>1 DEF ReadPlan, PlansInv, PlansTypeOK
  <2>5. UNCHANGED used /\ UNCHANGED ceiling /\ used \in [Resource -> 0..MaxUsed] /\ \A q \in Resource : used[q] \in Int
    BY <1>1 DEF ReadPlan, PlansInv, PlansTypeOK
  <2>6. Room'
    <3>1. \A q \in Resource : used'[q] <= used[q]
      BY <2>5
    <3> QED BY <2>3, <2>4, <2>5, <3>1, RoomKept
  <2>7. OneCreates'
    BY <1>1, <2>2 DEF ReadPlan, PlansInv, PlansTypeOK, OneCreates
  <2>8. planRow[new.plan] # Null /\ NoLaxerThan(new.plan) /\ new.step # "count"
    BY <2>2 DEF PlansInv, InForceOK
  <2>9. used' \in [Resource -> 0..MaxUsed] /\ UNCHANGED <<planRow, onPlan, officer, ceiling, meant, mingled>>
    BY <1>1, <2>5 DEF ReadPlan
  <2> QED BY <2>1, <2>2, <2>4, <2>6, <2>7, <2>8, <2>9, MakerMoves
<1>2. ASSUME NEW m \in Maker, maker[m] # Null, NEW new \in Creates \cup {Null}, maker' = [maker EXCEPT ![m] = new],
             new # Null => new.step \in {"limit", "count"},
             new # Null =>
               /\ planRow[new.plan] # Null
               /\ new.step = "limit" => NoLaxerThan(new.plan)
               /\ new.step = "count" => (ceiling[new.of] # Null => new.limit # Null /\ new.limit <= ceiling[new.of]),
             UNCHANGED <<planRow, onPlan, used, officer, ceiling, meant, rushed, mingled>>
      PROVE PlansInv'
  <2>1. \A q \in Resource : Creating(q)' \subseteq Creating(q)
    BY <1>2 DEF Creating, At, PlansInv, PlansTypeOK
  <2>2. \A q \in Resource : used'[q] <= used[q]
    BY <1>2 DEF PlansInv, PlansTypeOK
  <2>3. used' \in [Resource -> 0..MaxUsed] /\ rushed' \in BOOLEAN
    BY <1>2 DEF PlansInv, PlansTypeOK
  <2>4. Room'
    BY <1>2, <2>1, <2>2, <2>3, RoomKept
  <2>5. OneCreates'
    BY <1>2 DEF PlansInv, PlansTypeOK, OneCreates
  <2> QED BY <1>2, <2>3, <2>4, <2>5, MakerMoves
<1>3. ASSUME NEW m \in Maker, ReadLimit(m) PROVE PlansInv'
  <2>1. maker[m] \in Creates /\ maker[m].step = "limit" /\ maker[m].plan \in PlanCode /\ maker[m].of \in Resource
    BY <1>3 DEF ReadLimit, At, Creates
  <2>2. NoLaxerThan(maker[m].plan) /\ planRow[maker[m].plan] # Null
    BY <1>3, <2>1 DEF ReadLimit, At, PlansInv, CreatesOK
  <2>3. LimitOn(maker[m].plan, maker[m].of) \in Limit \cup {Null}
    BY <2>1 DEF LimitOn, Limits
  <2>4. PICK l \in Limit \cup {Null} : l = LimitOn(maker[m].plan, maker[m].of)
    BY <2>3
  <2>5. PICK new \in Creates : new = [maker[m] EXCEPT !.step = "count", !.limit = l]
    BY <2>1 DEF Creates
  <2>6. new.step = "count" /\ new.plan = maker[m].plan /\ new.of = maker[m].of /\ new.limit = l
    BY <2>1, <2>5 DEF Creates
  <2>7. maker' = [maker EXCEPT ![m] = new]
    BY <1>3, <2>4, <2>5 DEF ReadLimit, PlansInv, PlansTypeOK
  <2>8. ceiling[new.of] # Null => new.limit # Null /\ new.limit <= ceiling[new.of]
    BY <2>1, <2>2, <2>4, <2>6 DEF NoLaxerThan
  <2>9. maker[m] # Null /\ UNCHANGED <<planRow, onPlan, used, officer, ceiling, meant, rushed, mingled>>
    BY <1>3 DEF ReadLimit, At
  <2>10. new.step \in {"limit", "count"} /\ planRow[new.plan] # Null /\ new.step # "limit" /\ new \in Creates \cup {Null}
    BY <2>2, <2>5, <2>6
  <2> QED BY <1>2, <2>7, <2>8, <2>9, <2>10
<1>4. ASSUME NEW m \in Maker, CountUsed(m) PROVE PlansInv'
  <2>1. maker[m] \in Creates /\ maker[m].step = "count" /\ maker[m].of \in Resource /\ maker[m] # Null
    BY <1>4 DEF CountUsed, At, Creates
  <2>2. PICK new \in Creates : new = [maker[m] EXCEPT !.step = "create"]
    BY <2>1 DEF Creates
  <2>3. new.step = "create" /\ new.plan = maker[m].plan /\ new.of = maker[m].of /\ new # Null
    BY <2>1, <2>2 DEF Creates
  <2>4. maker' = [maker EXCEPT ![m] = new] /\ UNCHANGED <<planRow, onPlan, used, officer, ceiling, meant, rushed, mingled>>
    BY <1>4, <2>2 DEF CountUsed
  <2>5. planRow[new.plan] # Null
    BY <2>1, <2>3 DEF PlansInv, CreatesOK
  <2>6. used' \in [Resource -> 0..MaxUsed]
    BY <2>4 DEF PlansInv, PlansTypeOK
  <2>7. ASSUME NEW r \in Resource, ceiling[r] # Null
        PROVE  used[r] + Cardinality(Creating(r)') <= ceiling[r] + Slack
    <3> DEFINE c == Cardinality(Creating(r)) n == Cardinality(Maker) after == Cardinality(Creating(r)')
    <3>1. used[r] \in Nat /\ ceiling[r] \in Nat /\ rushed \in BOOLEAN
      BY <2>7, Counts
    <3>2. used[r] + c <= ceiling[r] + Slack
      BY <2>7 DEF PlansInv, Room
    <3>3. CASE r # maker[m].of
      <4>1. Creating(r)' = Creating(r)
        BY <2>1, <2>3, <2>4, <3>3 DEF Creating, At, PlansInv, PlansTypeOK
      <4> QED BY <3>2, <4>1
    <3>4. CASE r = maker[m].of
      <4>1. used[r] < ceiling[r]
        <5>1. maker[m].limit # Null /\ maker[m].limit <= ceiling[r]
          BY <2>1, <2>7, <3>4 DEF PlansInv, CreatesOK
        <5>2. maker[m].limit \in Nat
          BY <2>1, <5>1, LimitAssumption DEF Creates
        <5>3. used[r] < maker[m].limit
          BY <1>4, <3>4, <5>1 DEF CountUsed
        <5> QED BY <3>1, <5>1, <5>2, <5>3
      <4>2. CASE rushed
        <5>1. Creating(r)' \subseteq Maker
          BY DEF Creating
        <5>2. after <= n /\ n \in Nat /\ after \in Nat
          BY <5>1, MakerAssumption, FS_Subset, FS_CardinalityType
        <5>3. Slack = n - 1
          BY <4>2 DEF Slack
        <5> QED BY <3>1, <4>1, <5>2, <5>3
      <4>3. CASE ~rushed
        <5>1. Creating(r)' = {m}
          BY <2>1, <2>3, <2>4, <3>4, <4>3 DEF Creating, At, PlansInv, OneCreates, PlansTypeOK
        <5>2. after = 1
          <6>1. Cardinality({m}) = 1
            BY FS_Singleton, Zenon
          <6> QED BY <5>1, <6>1
        <5>3. Slack = 0
          BY <4>3 DEF Slack
        <5> QED BY <3>1, <4>1, <5>2, <5>3
      <4> QED BY <4>2, <4>3
    <3> QED BY <3>3, <3>4
  <2>8. Room'
    BY <2>4, <2>7 DEF Room, Slack
  <2>9. OneCreates' /\ rushed' \in BOOLEAN
    BY <2>1, <2>4 DEF PlansInv, PlansTypeOK, OneCreates
  <2> QED BY <2>1, <2>3, <2>4, <2>5, <2>6, <2>8, <2>9, MakerMoves
<1>5. ASSUME NEW m \in Maker, CreateCounted(m) PROVE PlansInv'
  <2>1. maker[m] \in Creates /\ maker[m].step = "create" /\ maker[m].of \in Resource /\ maker[m] # Null
    BY <1>5 DEF CreateCounted, At, Creates
  <2>2. maker' = [maker EXCEPT ![m] = Null] /\ UNCHANGED <<planRow, onPlan, officer, ceiling, meant, rushed, mingled>>
        /\ used' = [used EXCEPT ![maker[m].of] = @ + 1] /\ used[maker[m].of] < MaxUsed
    BY <1>5 DEF CreateCounted
  <2>3. used' \in [Resource -> 0..MaxUsed]
    BY <2>1, <2>2, LimitAssumption DEF PlansInv, PlansTypeOK
  <2>4. ASSUME NEW r \in Resource, ceiling[r] # Null
        PROVE  used'[r] + Cardinality(Creating(r)') <= ceiling[r] + Slack
    <3>1. used[r] \in Nat /\ ceiling[r] \in Nat /\ rushed \in BOOLEAN /\ DOMAIN used = Resource
      BY <2>4, Counts
    <3>2. used[r] + Cardinality(Creating(r)) <= ceiling[r] + Slack
      BY <2>4 DEF PlansInv, Room
    <3>3. CASE r # maker[m].of
      <4>1. Creating(r)' = Creating(r) /\ used'[r] = used[r]
        BY <2>1, <2>2, <3>1, <3>3 DEF Creating, At, PlansInv, PlansTypeOK
      <4> QED BY <3>2, <4>1
    <3>4. CASE r = maker[m].of
      <4>1. m \in Creating(r)
        BY <2>1, <3>4 DEF Creating, At
      <4>2. Creating(r)' = Creating(r) \ {m}
        BY <2>1, <2>2, <3>4 DEF Creating, At, PlansInv, PlansTypeOK
      <4>3. Cardinality(Creating(r)') = Cardinality(Creating(r)) - 1 /\ Cardinality(Creating(r)) \in Nat
        BY <4>1, <4>2, CreatingAre, FS_RemoveElement
      <4>4. used'[r] = used[r] + 1
        BY <2>2, <3>1, <3>4
      <4>5. Slack \in Int
        BY <3>1, CreatingAre DEF Slack
      <4> QED BY <3>1, <3>2, <4>3, <4>4, <4>5
    <3> QED BY <3>3, <3>4
  <2>5. Room'
    BY <2>2, <2>4 DEF Room, Slack
  <2>6. OneCreates' /\ rushed' \in BOOLEAN
    BY <2>1, <2>2 DEF PlansInv, PlansTypeOK, OneCreates
  <2> QED BY <2>1, <2>2, <2>3, <2>5, <2>6, MakerMoves
<1>6. ASSUME NEW m \in Maker, GiveUp(m) PROVE PlansInv'
  BY <1>2, <1>6 DEF GiveUp
<1>7. ASSUME NEW r \in Resource, StopCounting(r) PROVE PlansInv'
  <2>1. used' = [used EXCEPT ![r] = @ - 1] /\ used[r] > 0
        /\ UNCHANGED <<planRow, onPlan, maker, officer, ceiling, meant, rushed, mingled>>
    BY <1>7 DEF StopCounting
  <2>2. used' \in [Resource -> 0..MaxUsed] /\ \A q \in Resource : used'[q] <= used[q]
    BY <2>1, LimitAssumption DEF PlansInv, PlansTypeOK
  <2>3. \A q \in Resource : Creating(q)' \subseteq Creating(q)
    BY <2>1 DEF Creating, At
  <2>4. rushed' \in BOOLEAN
    BY <2>1 DEF PlansInv, PlansTypeOK
  <2>5. Room'
    BY <2>1, <2>2, <2>3, <2>4, RoomKept
  <2>6. PlansTypeOK'
    BY <2>1, <2>2 DEF PlansInv, PlansTypeOK
  <2> QED BY <2>1, <2>5, <2>6 DEF PlansInv, InForceOK, NoLaxerThan, LimitOn, CreatesOK, OneCreates, RowsMeant, OneUpdates,
                LimitsKeptInTurn, Holding
<1> QED BY <1>1, <1>3, <1>4, <1>5, <1>6, <1>7 DEF CreatesNext

NotLowered == \A r \in Resource : ceiling'[r] # Null => ceiling[r] # Null /\ ceiling[r] <= ceiling'[r]
AtLeast(limits) == \A r \in Resource : ceiling'[r] # Null => limits[r] # Null /\ limits[r] <= ceiling'[r]

(* A plan that takes the place of another is no stricter, *)
LEMMA Raising ==
    ASSUME PlansInv, NEW rows, NEW p, rows[p] # Null, rows[p].limits \in Limits, ceiling' = Raised(rows, p)
    PROVE  ceiling' \in Limits /\ NotLowered /\ AtLeast(rows[p].limits)
<1>1. PICK limits \in Limits : limits = rows[p].limits
  OBVIOUS
<1>2. ceiling' = [r \in Resource |-> Higher(ceiling[r], limits[r])]
  BY <1>1 DEF Raised
<1>3. \A a, b \in Limit \cup {Null} :
        /\ Higher(a, b) \in Limit \cup {Null}
        /\ Higher(a, b) # Null => a # Null /\ b # Null /\ a <= Higher(a, b) /\ b <= Higher(a, b)
  BY LimitAssumption DEF Higher
<1>4. \A r \in Resource : limits[r] \in Limit \cup {Null} /\ ceiling[r] \in Limit \cup {Null}
  BY DEF PlansInv, PlansTypeOK, Limits
<1>5. \A r \in Resource : ceiling'[r] = Higher(ceiling[r], limits[r])
  BY <1>2
<1>6. ceiling' \in Limits
  BY <1>2, <1>3, <1>4 DEF Limits
<1> QED BY <1>1, <1>3, <1>4, <1>5, <1>6 DEF NotLowered, AtLeast

(* and what was read of the older one is no laxer. *)
LEMMA StillNotLaxer ==
    ASSUME PlansInv, NEW p \in PlanCode, NoLaxerThan(p), planRow[p] # Null, planRow'[p] = planRow[p],
           ceiling' \in Limits, NotLowered
    PROVE  NoLaxerThan(p)'
<1> SUFFICES ASSUME NEW r \in Resource, ceiling'[r] # Null PROVE LimitOn(p, r)' # Null /\ LimitOn(p, r)' <= ceiling'[r]
  BY DEF NoLaxerThan
<1>1. LimitOn(p, r)' = LimitOn(p, r) /\ LimitOn(p, r) \in Limit \cup {Null}
  BY PlanFacts DEF LimitOn, Limits
<1>2. ceiling[r] # Null /\ ceiling[r] <= ceiling'[r] /\ ceiling[r] \in Nat
  BY Counts DEF NotLowered
<1>3. ceiling'[r] \in Nat
  BY LimitAssumption DEF Limits
<1>4. LimitOn(p, r) # Null /\ LimitOn(p, r) <= ceiling[r]
  BY <1>2 DEF NoLaxerThan
<1>5. LimitOn(p, r) \in Nat
  BY <1>1, <1>4, LimitAssumption
<1> QED BY <1>1, <1>2, <1>3, <1>4, <1>5

(* A limit that is written, *)
LEMMA CeilingMoves ==
    ASSUME PlansInv, ceiling' \in Limits, NotLowered, UNCHANGED <<used, maker, rushed>>
    PROVE  Room'
<1> SUFFICES ASSUME NEW r \in Resource, ceiling'[r] # Null
             PROVE  used[r] + Cardinality(Creating(r)) <= ceiling'[r] + Slack
  BY DEF Room, Creating, At, Slack
<1>1. ceiling[r] # Null /\ ceiling[r] <= ceiling'[r] /\ ceiling[r] \in Nat
  BY Counts DEF NotLowered
<1>2. ceiling'[r] \in Nat /\ used[r] \in Nat
  BY LimitAssumption, Counts DEF Limits
<1>3. used[r] + Cardinality(Creating(r)) <= ceiling[r] + Slack
  BY <1>1 DEF PlansInv, Room
<1>4. Slack \in Int /\ Cardinality(Creating(r)) \in Nat
  BY CreatingAre, Counts DEF Slack
<1> QED BY <1>1, <1>2, <1>3, <1>4

(* A plan is made or changed; the plans in force are counted. *)
LEMMA RowMoves ==
    ASSUME PlansInv, NEW p \in PlanCode, NEW row \in PlanRows, planRow' = [planRow EXCEPT ![p] = row],
           ceiling' \in Limits, NotLowered, InForce(p) => AtLeast(row.limits),
           UNCHANGED <<onPlan, used, maker, rushed>>
    PROVE  InForceOK' /\ CreatesOK' /\ Room'
<1>1. /\ planRow'[p] = row /\ row # Null /\ \A q \in PlanCode : q # p => planRow'[q] = planRow[q]
  BY PlanFacts DEF PlansInv, PlansTypeOK
<1>2. ASSUME NEW q \in PlanCode, planRow[q] # Null, NoLaxerThan(q), InForce(q) PROVE planRow'[q] # Null /\ NoLaxerThan(q)'
  <2>1. CASE q = p
    BY <1>1, <1>2, <2>1 DEF NoLaxerThan, AtLeast, LimitOn
  <2>2. CASE q # p
    BY <1>1, <1>2, <2>2, StillNotLaxer
  <2> QED BY <2>1, <2>2
<1>3. InForceOK'
  <2>1. onPlan \in PlanCode /\ InForce(onPlan) /\ planRow[onPlan] # Null /\ NoLaxerThan(onPlan)
    BY DEF PlansInv, PlansTypeOK, InForce, InForceOK
  <2>2. planRow'[onPlan] # Null /\ NoLaxerThan(onPlan)'
    BY <1>2, <2>1
  <2> QED BY <2>2 DEF InForceOK, NoLaxerThan, LimitOn
<1>4. CreatesOK'
  <2> SUFFICES ASSUME NEW m \in Maker, maker[m] # Null
        PROVE  /\ planRow'[maker[m].plan] # Null
               /\ maker[m].step = "limit" => NoLaxerThan(maker[m].plan)'
               /\ maker[m].step = "count" =>
                    (ceiling'[maker[m].of] # Null => maker[m].limit # Null /\ maker[m].limit <= ceiling'[maker[m].of])
    BY DEF CreatesOK, NoLaxerThan, LimitOn
  <2>1. maker[m].plan \in PlanCode /\ maker[m].of \in Resource /\ maker[m].limit \in Limit \cup {Null}
    BY PlanFacts DEF Creates
  <2>2. planRow'[maker[m].plan] # Null
    BY <1>1, <2>1 DEF PlansInv, CreatesOK
  <2>3. ASSUME maker[m].step = "limit" PROVE NoLaxerThan(maker[m].plan)'
    <3>1. PICK q \in PlanCode : q = maker[m].plan
      BY <2>1
    <3>2. InForce(q) /\ planRow[q] # Null /\ NoLaxerThan(q)
      BY <2>3, <3>1 DEF InForce, At, PlansInv, CreatesOK
    <3>3. NoLaxerThan(q)'
      BY <1>2, <3>2
    <3> QED BY <3>1, <3>3 DEF NoLaxerThan, LimitOn
  <2>4. ASSUME maker[m].step = "count", ceiling'[maker[m].of] # Null
        PROVE  maker[m].limit # Null /\ maker[m].limit <= ceiling'[maker[m].of]
    <3>1. ceiling[maker[m].of] # Null /\ ceiling[maker[m].of] <= ceiling'[maker[m].of] /\ ceiling[maker[m].of] \in Nat
      BY <2>1, <2>4, Counts DEF NotLowered
    <3>2. ceiling'[maker[m].of] \in Nat
      BY <2>1, <2>4, LimitAssumption DEF Limits
    <3>3. maker[m].limit # Null /\ maker[m].limit <= ceiling[maker[m].of]
      BY <2>4, <3>1 DEF PlansInv, CreatesOK
    <3>4. maker[m].limit \in Nat
      BY <2>1, <3>3, LimitAssumption
    <3> QED BY <3>1, <3>2, <3>3, <3>4
  <2> QED BY <2>2, <2>3, <2>4
<1> QED BY <1>3, <1>4, CeilingMoves

(* or left. *)
LEMMA SameCeiling == ASSUME PlansInv, UNCHANGED ceiling PROVE ceiling' \in Limits /\ NotLowered
<1>1. \A r \in Resource : ceiling[r] # Null => ceiling[r] \in Nat
  BY Counts
<1>2. \A r \in Resource : ceiling[r] # Null => ceiling[r] <= ceiling[r]
  BY <1>1
<1> QED BY <1>2 DEF NotLowered, PlansInv, PlansTypeOK

(* A new plan is no plan of the tenant yet. *)
LEMMA CreatePlanStep ==
    ASSUME PlansInv, NEW p \in PlanCode, NEW limits \in Limits, CreatePlan(p, limits)
    PROVE  PlansInv'
<1>1. [active |-> TRUE, limits |-> limits] \in PlanRows
  BY DEF PlanRows
<1>2. PICK row \in PlanRows : row = [active |-> TRUE, limits |-> limits]
  BY <1>1
<1>3. row.limits = limits /\ row # Null
  BY <1>2, PlanFacts
<1>4. /\ planRow' = [planRow EXCEPT ![p] = row] /\ meant' = [meant EXCEPT ![p] = limits] /\ planRow[p] = Null
      /\ UNCHANGED <<onPlan, used, maker, officer, ceiling, rushed, mingled>>
  BY <1>2 DEF CreatePlan
<1>5. ~InForce(p)
  BY <1>4 DEF InForce, PlansInv, InForceOK, CreatesOK, At
<1>6. InForceOK' /\ CreatesOK' /\ Room'
  BY <1>4, <1>5, SameCeiling, RowMoves
<1>7. PlansTypeOK'
  BY <1>4 DEF PlansInv, PlansTypeOK
<1>8. OneCreates'
  BY <1>4 DEF PlansInv, OneCreates
<1>9. \A f \in Officer : officer[f] # Null => officer[f].plan \in PlanCode /\ officer[f].plan # p
  BY <1>4, PlanFacts DEF PlansInv, RowsMeant, AboutPlans
<1>10. RowsMeant'
  BY <1>3, <1>4, <1>9 DEF PlansInv, PlansTypeOK, RowsMeant
<1>11. OneUpdates'
  BY <1>4, <1>9 DEF PlansInv, RowsMeant, OneUpdates, Holding
<1>12. LimitsKeptInTurn'
  BY <1>3, <1>4 DEF PlansInv, PlansTypeOK, RowsMeant, LimitsKeptInTurn
<1> QED BY <1>6, <1>7, <1>8, <1>10, <1>11, <1>12 DEF PlansInv

(* A step of whoever sets plans keeps the invariant. *)
LEMMA OfficerStep == ASSUME PlansInv, NEW f \in Officer, OfficerNext(f) PROVE PlansInv'
<1>1. ASSUME NEW new \in AboutPlans, officer' = [officer EXCEPT ![f] = new], planRow[new.plan] # Null,
             UNCHANGED <<planRow, onPlan, used, maker, ceiling, meant, rushed>>, mingled' \in BOOLEAN, OneUpdates',
             mingled => mingled'
      PROVE  PlansInv'
  <2>1. PlansTypeOK'
    BY <1>1 DEF PlansInv, PlansTypeOK
  <2>2. InForceOK' /\ CreatesOK' /\ Room' /\ OneCreates'
    BY <1>1 DEF PlansInv, InForceOK, NoLaxerThan, LimitOn, CreatesOK, Room, Creating, At, Slack, OneCreates
  <2>3. RowsMeant'
    BY <1>1 DEF PlansInv, PlansTypeOK, RowsMeant
  <2>4. LimitsKeptInTurn'
    BY <1>1 DEF PlansInv, LimitsKeptInTurn
  <2> QED BY <1>1, <2>1, <2>2, <2>3, <2>4 DEF PlansInv
<1>2. ASSUME NEW p \in PlanCode, AssertAssignablePlan(f, p) PROVE PlansInv'
  <2>1. [step |-> "assign", plan |-> p] \in AboutPlans
    BY DEF AboutPlans
  <2>2. PICK new \in AboutPlans : new = [step |-> "assign", plan |-> p]
    BY <2>1
  <2>3. new.step = "assign" /\ new.plan = p
    BY <2>2
  <2>4. /\ officer' = [officer EXCEPT ![f] = new] /\ planRow[new.plan] # Null
        /\ UNCHANGED <<planRow, onPlan, used, maker, ceiling, meant, rushed, mingled>>
    BY <1>2, <2>2, <2>3 DEF AssertAssignablePlan
  <2>5. \A g \in Officer : Holding(g, "update")' => g # f /\ officer'[g] = officer[g]
    BY <2>3, <2>4 DEF Holding, PlansInv, PlansTypeOK
  <2>6. OneUpdates'
    BY <2>4, <2>5 DEF OneUpdates, Holding, PlansInv
  <2>7. mingled' \in BOOLEAN
    BY <2>4 DEF PlansInv, PlansTypeOK
  <2> QED BY <1>1, <2>4, <2>6, <2>7
<1>3. ASSUME NEW p \in PlanCode, NEW ask \in Given \cup {Null}, ReadPlanRow(f, p, ask) PROVE PlansInv'
  <2>1. planRow[p].limits \in Limits /\ planRow[p] # Null
    BY <1>3, PlanFacts DEF ReadPlanRow
  <2>2. PICK was \in Limits : was = planRow[p].limits
    BY <2>1
  <2>3. [step |-> "update", plan |-> p, was |-> was, ask |-> ask] \in AboutPlans
    BY DEF AboutPlans
  <2>4. PICK new \in AboutPlans : new = [step |-> "update", plan |-> p, was |-> was, ask |-> ask]
    BY <2>3
  <2>5. new.step = "update" /\ new.plan = p /\ new.was = was
    BY <2>4
  <2>6. /\ officer' = [officer EXCEPT ![f] = new]
        /\ UNCHANGED <<planRow, onPlan, used, maker, ceiling, meant, rushed>>
    BY <1>3, <2>2, <2>4 DEF ReadPlanRow
  <2>7. mingled' \in BOOLEAN /\ (mingled => mingled') /\ (~mingled' => \A o \in Officer : officer[o] = Null)
    BY <1>3 DEF ReadPlanRow, PlansInv, PlansTypeOK
  <2>8. OneUpdates'
    <3> SUFFICES ASSUME ~mingled' PROVE OneUpdates'
      BY DEF OneUpdates
    <3>1. \A g \in Officer : Holding(g, "update")' => g = f
      BY <2>6, <2>7 DEF Holding, PlansInv, PlansTypeOK
    <3>2. planRow[p].limits = meant[p]
      BY <2>1, <2>7 DEF PlansInv, LimitsKeptInTurn
    <3>3. officer'[f] = new
      BY <2>6 DEF PlansInv, PlansTypeOK
    <3> QED BY <2>2, <2>5, <2>6, <3>1, <3>2, <3>3 DEF OneUpdates
  <2> QED BY <1>1, <2>1, <2>5, <2>6, <2>7, <2>8
<1>4. ASSUME AssignPlan(f) PROVE PlansInv'
  <2>1. officer[f] \in AboutPlans /\ officer[f].plan \in PlanCode /\ officer[f] # Null
    BY <1>4, PlanFacts DEF AssignPlan, Holding, AboutPlans
  <2>2. PICK p \in PlanCode : p = officer[f].plan
    BY <2>1
  <2>3. /\ onPlan' = p /\ ceiling' = Raised(planRow, p) /\ officer' = [officer EXCEPT ![f] = Null]
        /\ UNCHANGED <<planRow, used, maker, meant, rushed, mingled>>
    BY <1>4, <2>2 DEF AssignPlan
  <2>4. planRow[p] # Null /\ planRow[p].limits \in Limits
    BY <2>1, <2>2, PlanFacts DEF PlansInv, RowsMeant
  <2>5. ceiling' \in Limits /\ NotLowered /\ AtLeast(planRow[p].limits)
    BY <2>3, <2>4, Raising
  <2>6. PlansTypeOK'
    BY <2>3, <2>5 DEF PlansInv, PlansTypeOK
  <2>7. InForceOK'
    BY <2>3, <2>4, <2>5 DEF InForceOK, NoLaxerThan, LimitOn, AtLeast
  <2>8. CreatesOK'
    <3>1. PICK row \in PlanRows : row = planRow[p]
      BY <2>4, PlanFacts
    <3>2. planRow' = [planRow EXCEPT ![p] = row]
      BY <2>3, <3>1 DEF PlansInv, PlansTypeOK
    <3> SUFFICES ASSUME NEW m \in Maker, maker[m] # Null
          PROVE  /\ planRow[maker[m].plan] # Null
                 /\ maker[m].step = "limit" => NoLaxerThan(maker[m].plan)'
                 /\ maker[m].step = "count" =>
                      (ceiling'[maker[m].of] # Null => maker[m].limit # Null /\ maker[m].limit <= ceiling'[maker[m].of])
      BY <2>3 DEF CreatesOK, NoLaxerThan, LimitOn
    <3>3. maker[m].plan \in PlanCode /\ maker[m].of \in Resource /\ maker[m].limit \in Limit \cup {Null}
      BY PlanFacts DEF Creates
    <3>4. planRow[maker[m].plan] # Null
      BY DEF PlansInv, CreatesOK
    <3>5. ASSUME maker[m].step = "limit" PROVE NoLaxerThan(maker[m].plan)'
      <4>1. PICK q \in PlanCode : q = maker[m].plan
        BY <3>3
      <4>2. planRow[q] # Null /\ NoLaxerThan(q) /\ planRow'[q] = planRow[q]
        BY <2>3, <3>5, <4>1 DEF PlansInv, CreatesOK
      <4>3. NoLaxerThan(q)'
        BY <2>5, <4>2, StillNotLaxer
      <4> QED BY <4>1, <4>3, <2>3 DEF NoLaxerThan, LimitOn
    <3>6. ASSUME maker[m].step = "count", ceiling'[maker[m].of] # Null
          PROVE  maker[m].limit # Null /\ maker[m].limit <= ceiling'[maker[m].of]
      <4>1. ceiling[maker[m].of] # Null /\ ceiling[maker[m].of] <= ceiling'[maker[m].of] /\ ceiling[maker[m].of] \in Nat
        BY <2>5, <3>3, <3>6, Counts DEF NotLowered
      <4>2. ceiling'[maker[m].of] \in Nat
        BY <2>5, <3>3, <3>6, LimitAssumption DEF Limits
      <4>3. maker[m].limit # Null /\ maker[m].limit <= ceiling[maker[m].of]
        BY <3>6, <4>1 DEF PlansInv, CreatesOK
      <4>4. maker[m].limit \in Nat
        BY <3>3, <4>3, LimitAssumption
      <4> QED BY <4>1, <4>2, <4>3, <4>4
    <3> QED BY <3>4, <3>5, <3>6
  <2>9. Room' /\ OneCreates'
    BY <2>3, <2>5, CeilingMoves DEF PlansInv, OneCreates
  <2>10. \A g \in Officer : officer'[g] # Null => officer'[g] = officer[g] /\ officer[g] # Null
    BY <2>3 DEF PlansInv, PlansTypeOK
  <2>11. RowsMeant' /\ LimitsKeptInTurn'
    BY <2>3, <2>10 DEF PlansInv, RowsMeant, LimitsKeptInTurn
  <2>12. OneUpdates'
    BY <2>3, <2>10 DEF PlansInv, OneUpdates, Holding
  <2> QED BY <2>6, <2>7, <2>8, <2>9, <2>11, <2>12 DEF PlansInv
<1>5. ASSUME NEW active \in BOOLEAN, UpdatePlan(f, active) PROVE PlansInv'
  <2>1. officer[f] \in AboutPlans /\ officer[f].step = "update" /\ officer[f] # Null
    BY <1>5, PlanFacts DEF UpdatePlan, Holding
  <2>2. officer[f].plan \in PlanCode /\ officer[f].was \in Limits /\ officer[f].ask \in Given \cup {Null}
    BY <2>1 DEF AboutPlans
  <2>3. PICK p \in PlanCode : p = officer[f].plan
    BY <2>2
  <2>4. PICK ask \in Given \cup {Null} : ask = officer[f].ask
    BY <2>2
  <2>5. PICK was \in Limits : was = officer[f].was
    BY <2>2
  <2>6. planRow[p] # Null /\ planRow[p] \in PlanRows /\ planRow[p].limits \in Limits /\ meant[p] \in Limits
    BY <2>1, <2>3, PlanFacts DEF PlansInv, RowsMeant
  <2>7. ask # Null => \A old \in Limits : PutOver(ask, old) \in Limits
    BY <2>4 DEF PutOver, Given, Limits
  <2>8. PICK limits \in Limits : limits = IF ask # Null THEN PutOver(ask, was) ELSE planRow[p].limits
    BY <2>6, <2>7
  <2>9. PICK row \in PlanRows : row.active = active /\ row.limits = limits /\ row = [active |-> active, limits |-> limits]
    <3>1. [active |-> active, limits |-> limits] \in PlanRows
      BY DEF PlanRows
    <3> QED BY <3>1
  <2>10. PICK rows : rows = [planRow EXCEPT ![p] = row]
    OBVIOUS
  <2>11. /\ planRow' = rows
         /\ ceiling' = IF InForce(p) THEN Raised(rows, p) ELSE ceiling
         /\ meant' = IF ask # Null THEN [meant EXCEPT ![p] = PutOver(ask, @)] ELSE meant
         /\ officer' = [officer EXCEPT ![f] = Null]
         /\ UNCHANGED <<onPlan, used, maker, rushed, mingled>>
    BY <1>5, <2>3, <2>4, <2>5, <2>8, <2>9, <2>10 DEF UpdatePlan, MergeLimits
  <2>12. rows[p] = row /\ row # Null /\ rows[p].limits \in Limits /\ rows[p].limits = limits
    BY <2>9, <2>10, PlanFacts DEF PlansInv, PlansTypeOK
  <2>13. ceiling' \in Limits /\ NotLowered /\ (InForce(p) => AtLeast(row.limits))
    <3>1. CASE InForce(p)
      BY <2>11, <2>12, <3>1, Raising
    <3>2. CASE ~InForce(p)
      BY <2>11, <3>2, SameCeiling
    <3> QED BY <3>1, <3>2
  <2>14. InForceOK' /\ CreatesOK' /\ Room'
    BY <2>10, <2>11, <2>13, RowMoves
  <2>15. PlansTypeOK'
    BY <2>10, <2>11, <2>13 DEF PlansInv, PlansTypeOK
  <2>16. OneCreates'
    BY <2>11 DEF PlansInv, OneCreates
  <2>17. PICK new \in Limits : new = IF ask # Null THEN PutOver(ask, meant[p]) ELSE meant[p]
    BY <2>6, <2>7
  <2>18. meant' = [meant EXCEPT ![p] = new] /\ meant'[p] = new /\ \A q \in PlanCode : q # p => meant'[q] = meant[q]
    BY <2>11, <2>17 DEF PlansInv, RowsMeant
  <2>19. \A g \in Officer : officer'[g] # Null => officer'[g] = officer[g] /\ officer[g] # Null /\ g # f
    BY <2>11 DEF PlansInv, PlansTypeOK
  <2>20. planRow'[p] = row /\ \A q \in PlanCode : q # p => planRow'[q] = planRow[q]
    BY <2>10, <2>11, <2>12
  <2>21. RowsMeant'
    <3>1. meant' \in [PlanCode -> Limits \cup {Null}]
      BY <2>18 DEF PlansInv, RowsMeant
    <3>2. \A q \in PlanCode : planRow'[q] # Null => meant'[q] \in Limits
      BY <2>6, <2>18, <2>20 DEF PlansInv, RowsMeant
    <3>3. \A q \in PlanCode : planRow[q] # Null => planRow'[q] # Null
      BY <2>12, <2>20
    <3>4. \A g \in Officer : officer[g] # Null => officer[g].plan \in PlanCode /\ planRow[officer[g].plan] # Null
      BY PlanFacts DEF PlansInv, RowsMeant, AboutPlans
    <3> QED BY <2>19, <3>1, <3>2, <3>3, <3>4 DEF RowsMeant
  <2>22. \A g \in Officer : Holding(g, "update")' => mingled
    BY <2>1, <2>19 DEF PlansInv, OneUpdates, Holding
  <2>23. OneUpdates'
    BY <2>11, <2>22 DEF OneUpdates
  <2>24. LimitsKeptInTurn'
    <3> SUFFICES ASSUME ~mingled, NEW q \in PlanCode, planRow'[q] # Null PROVE planRow'[q].limits = meant'[q]
      BY <2>11 DEF LimitsKeptInTurn
    <3>1. CASE q # p
      BY <2>18, <2>20, <3>1 DEF PlansInv, LimitsKeptInTurn
    <3>2. planRow[p].limits = meant[p] /\ was = meant[p]
      BY <2>1, <2>3, <2>5, <2>6 DEF PlansInv, LimitsKeptInTurn, OneUpdates, Holding
    <3>3. limits = new
      BY <2>8, <2>17, <3>2
    <3> QED BY <2>9, <2>18, <2>20, <3>1, <3>3
  <2> QED BY <2>14, <2>15, <2>16, <2>21, <2>23, <2>24 DEF PlansInv
<1>6. \A some \in SUBSET Resource, limits \in Limits : [r \in some |-> limits[r]] \in Given
  <2> TAKE some \in SUBSET Resource, limits \in Limits
  <2>1. [r \in some |-> limits[r]] \in [some -> Limit \cup {Null}]
    BY DEF Limits
  <2> QED BY <2>1 DEF Given
<1>7. ASSUME NEW p \in PlanCode, NEW some \in SUBSET Resource, NEW limits \in Limits, ReadPlanRow(f, p, [r \in some |-> limits[r]])
      PROVE  PlansInv'
  <2>1. PICK ask \in Given : ask = [r \in some |-> limits[r]]
    BY <1>6
  <2> QED BY <1>3, <1>7, <2>1
<1> QED BY <1>2, <1>3, <1>4, <1>5, <1>7 DEF OfficerNext

(* Every step keeps the invariant of plans and limits, *)
LEMMA PlansNextInv == ASSUME PlansInv, [PlansNext]_planVars PROVE PlansInv'
<1>1. CASE UNCHANGED planVars
  <2>1. UNCHANGED <<planRow, onPlan, used, maker, officer, ceiling, meant, rushed, mingled>>
    BY <1>1 DEF planVars
  <2> QED BY <2>1 DEF PlansInv, PlansTypeOK, InForceOK, NoLaxerThan, LimitOn, CreatesOK, Room, Creating, At, Slack, OneCreates,
                RowsMeant, OneUpdates, Holding, LimitsKeptInTurn
<1> QED BY <1>1, CreatesStep, CreatePlanStep, OfficerStep DEF PlansNext

(* which is more than was promised. *)
LEMMA PlansTell == ASSUME PlansInv PROVE PlansTypeOK /\ SoftLimit /\ LimitsKeptInTurn
<1>1. ASSUME NEW r \in Resource, ceiling[r] # Null PROVE used[r] <= ceiling[r] + Slack
  <2>1. used[r] + Cardinality(Creating(r)) <= ceiling[r] + Slack
    BY <1>1 DEF PlansInv, Room
  <2>2. used[r] \in Nat /\ ceiling[r] \in Nat /\ Cardinality(Creating(r)) \in Nat /\ Slack \in Int
    BY <1>1, Counts, CreatingAre DEF Slack
  <2> QED BY <2>1, <2>2
<1> QED BY <1>1 DEF PlansInv, SoftLimit, Slack

-----------------------------------------------------------------------------
(* The platform's people and support visits (Platform). *)

Entering == {"look", "tenant", "holder", "in"}
(* A start has its visit to itself, and an end is of a visit that began. *)
StartFits(k, d) ==
    d.step \in {"start", "starting"} =>
        visit[d.on] = Nobody /\ \A o \in Desk : o # k /\ desk[o] # Nobody /\ desk[o].step \in {"start", "starting"} => desk[o].on # d.on
EndFits(d) == d.step = "end" => visit[d.on] # Nobody
(* What stood against a request when it came stands against it at every read that is still to come. *)
BarFits(d) ==
    d.step \in Entering =>
        /\ visit[d.on] # Nobody
        /\ d.step = "look" /\ d.barred = "forever" => Over(d.on) \/ access[visit[d.on].by] = "removed"
        /\ d.step \in {"tenant", "holder"} /\ d.barred = "forever" => access[visit[d.on].by] = "removed"
        /\ d.step \in {"look", "tenant"} /\ d.barred = "while" => ~open[visit[d.on].of]
        /\ d.step = "holder" => d.barred # "while"
        /\ d.step = "in" => d.barred = "no"
DesksFit == \A k \in Desk : desk[k] # Nobody => StartFits(k, desk[k]) /\ EndFits(desk[k]) /\ BarFits(desk[k])
Removes(k) == desk[k] # Nobody /\ desk[k].step \in {"remove", "removing"}
RemovalsFit ==
    contested \/ /\ \A k, o \in Desk : Removes(k) /\ Removes(o) => k = o
                 /\ \A k \in Desk : Removes(k) => \E p \in Insider : p # desk[k].whom /\ access[p] = "manager"
PlatformInv == PlatformTypeOK /\ DesksFit /\ RemovalsFit /\ AManagerRemainsInTurn

(* The founder manages, and nobody visits. *)
LEMMA PlatformInitInv == PlatformInit => PlatformInv
<1> SUFFICES ASSUME PlatformInit PROVE PlatformInv
  OBVIOUS
<1>1. PlatformTypeOK
  BY DEF PlatformInit, PlatformTypeOK
<1>2. access[Founder] = "manager"
  BY FounderAssumption DEF PlatformInit
<1> QED BY <1>1, <1>2, FounderAssumption
      DEF PlatformInit, PlatformInv, DesksFit, RemovalsFit, Removes, AManagerRemainsInTurn

(* What requests are about, *)
LEMMA DeskFacts ==
    ASSUME PlatformInv
    PROVE  /\ \A k \in Desk : desk[k] # Nobody => desk[k] \in Asked
           /\ \A v \in Visit : visit[v] # Nobody => visit[v] \in Visits /\ visit[v].by \in Insider /\ visit[v].of \in Business
           /\ Nobody \notin Asked /\ Nobody \notin Visits
  BY NobodyAssumption DEF PlatformInv, PlatformTypeOK, Visits

(* and what they ask for. *)
LEMMA AskedFacts ==
    ASSUME NEW d \in Asked
    PROVE  /\ d.step = "add" => d.whom \in Insider /\ d.role \in {"manager", "agent"}
           /\ d.step \in {"remove", "removing"} => d.whom \in Insider
           /\ d.step \in {"start", "starting"} => d.by \in Insider /\ d.of \in Business /\ d.on \in Visit
           /\ d.step = "end" => d.on \in Visit
           /\ d.step \in Entering => d.on \in Visit /\ d.barred \in {"no", "while", "forever"}
  BY DEF Asked, Entering

(* A request goes on, is answered or comes. *)
LEMMA DeskMoves ==
    ASSUME PlatformInv, NEW k \in Desk, NEW new \in Asked \cup {Nobody}, desk' = [desk EXCEPT ![k] = new],
           UNCHANGED <<access, open, visit>>,
           new # Nobody => StartFits(k, new) /\ EndFits(new) /\ BarFits(new),
           contested' \in BOOLEAN, contested => contested', RemovalsFit'
    PROVE  PlatformInv'
<1>1. desk'[k] = new /\ \A o \in Desk : o # k => desk'[o] = desk[o]
  BY DEF PlatformInv, PlatformTypeOK
<1>2. DesksFit'
  <2> SUFFICES ASSUME NEW o \in Desk, desk'[o] # Nobody
               PROVE  StartFits(o, desk[o])' /\ EndFits(desk[o])' /\ BarFits(desk[o])'
    BY DEF DesksFit
  <2>1. CASE o = k
    BY <1>1, <2>1 DEF StartFits, EndFits, BarFits, Over
  <2>2. CASE o # k
    <3>1. desk'[o] = desk[o] /\ StartFits(o, desk[o]) /\ EndFits(desk[o]) /\ BarFits(desk[o])
      BY <1>1, <2>2 DEF PlatformInv, DesksFit
    <3>2. EndFits(desk[o])' /\ BarFits(desk[o])'
      BY <3>1 DEF EndFits, BarFits, Over
    <3>3. StartFits(o, desk[o])'
      BY <1>1, <2>2, <3>1 DEF StartFits
    <3> QED BY <3>2, <3>3
  <2> QED BY <2>1, <2>2
<1>3. desk' \in [Desk -> Asked \cup {Nobody}]
  BY DEF PlatformInv, PlatformTypeOK
<1>4. PlatformTypeOK'
  <2>1. \A o \in Desk : desk'[o] # Nobody /\ desk'[o].step \in {"look", "tenant", "holder", "in"} => visit'[desk'[o].on] # Nobody
    BY <1>2 DEF DesksFit, BarFits, Entering
  <2> QED BY <1>3, <2>1 DEF PlatformInv, PlatformTypeOK
<1>5. AManagerRemainsInTurn'
  BY DEF PlatformInv, AManagerRemainsInTurn
<1> QED BY <1>2, <1>4, <1>5 DEF PlatformInv

(* One that is not a new removal. *)
LEMMA OtherMoves ==
    ASSUME PlatformInv, NEW k \in Desk, NEW new \in Asked \cup {Nobody}, desk' = [desk EXCEPT ![k] = new],
           UNCHANGED <<access, open, visit, contested>>,
           new # Nobody => StartFits(k, new) /\ EndFits(new) /\ BarFits(new),
           new # Nobody /\ new.step \in {"remove", "removing"} => Removes(k) /\ new.whom = desk[k].whom
    PROVE  PlatformInv'
<1>1. desk'[k] = new /\ \A o \in Desk : o # k => desk'[o] = desk[o]
  BY DEF PlatformInv, PlatformTypeOK
<1>2. \A o \in Desk : Removes(o)' => Removes(o) /\ desk'[o].whom = desk[o].whom
  BY <1>1 DEF Removes
<1>3. RemovalsFit'
  BY <1>2 DEF PlatformInv, RemovalsFit
<1>4. contested' \in BOOLEAN
  BY DEF PlatformInv, PlatformTypeOK
<1> QED BY <1>3, <1>4, DeskMoves

(* What a change of the accounts and of the visits leaves standing. *)
Standing ==
    /\ \A p \in Insider : access[p] = "removed" => access'[p] = "removed"
    /\ \A v \in Visit : visit[v] # Nobody =>
          visit'[v] # Nobody /\ visit'[v].by = visit[v].by /\ visit'[v].of = visit[v].of /\ (Over(v) => Over(v)')

(* Steps after which fewer are let in. *)
LEMMA BarStays ==
    ASSUME PlatformInv, Standing, UNCHANGED open, NEW d \in Asked, EndFits(d), BarFits(d)
    PROVE  EndFits(d)' /\ BarFits(d)'
<1>1. CASE d.step = "end"
  BY <1>1, AskedFacts DEF EndFits, BarFits, Entering, Standing
<1>2. CASE d.step \in Entering
  <2>1. PICK v \in Visit : v = d.on
    BY <1>2, AskedFacts
  <2>2. visit[v] # Nobody /\ visit[v].by \in Insider /\ visit[v].of \in Business
    BY <1>2, <2>1, DeskFacts DEF BarFits
  <2>3. visit'[v] # Nobody /\ visit'[v].by = visit[v].by /\ visit'[v].of = visit[v].of /\ (Over(v) => Over(v)')
        /\ (access[visit[v].by] = "removed" => access'[visit[v].by] = "removed")
    BY <2>2 DEF Standing
  <2>4. BarFits(d)'
    BY <1>2, <2>1, <2>2, <2>3 DEF BarFits
  <2> QED BY <1>2, <2>4 DEF EndFits, Entering
<1>3. CASE d.step \notin Entering \cup {"end"}
  BY <1>3 DEF EndFits, BarFits
<1> QED BY <1>1, <1>2, <1>3

(* The requests that add, change and remove people of the platform, *)
LEMMA AdminSteps ==
    ASSUME PlatformInv, NEW k \in Desk,
           \/ \E p \in Insider, q \in Insider : AskToRemove(k, p, q) \/ \E role \in {"manager", "agent"} : AskToAdd(k, p, q, role)
           \/ FindTarget(k)
    PROVE  PlatformInv'
<1>1. ASSUME NEW p \in Insider, NEW q \in Insider, AskToRemove(k, p, q) PROVE PlatformInv'
  <2>1. [step |-> "remove", whom |-> q] \in Asked
    BY DEF Asked
  <2>2. PICK new \in Asked : new = [step |-> "remove", whom |-> q]
    BY <2>1
  <2>3. new.step = "remove" /\ new.whom = q
    BY <2>2
  <2>4. desk' = [desk EXCEPT ![k] = new] /\ p # q /\ access[p] = "manager" /\ UNCHANGED <<access, open, visit>> /\ desk[k] = Nobody
    BY <1>1, <2>2 DEF AskToRemove, AuthorizePlatform, Holds
  <2>5. contested' \in BOOLEAN /\ (contested => contested') /\ (~contested' => \A o \in Desk : ~Removes(o))
    BY <1>1 DEF AskToRemove, PlatformInv, PlatformTypeOK, Removes, DeskDoes
  <2>6. desk'[k] = new /\ \A o \in Desk : o # k => desk'[o] = desk[o]
    BY <2>4 DEF PlatformInv, PlatformTypeOK
  <2>7. RemovalsFit'
    BY <2>3, <2>4, <2>5, <2>6 DEF RemovalsFit, Removes
  <2>8. StartFits(k, new) /\ EndFits(new) /\ BarFits(new)
    BY <2>3 DEF StartFits, EndFits, BarFits, Entering
  <2> QED BY <2>4, <2>5, <2>7, <2>8, DeskMoves
<1>2. ASSUME NEW p \in Insider, NEW q \in Insider, NEW role \in {"manager", "agent"}, AskToAdd(k, p, q, role) PROVE PlatformInv'
  <2>1. [step |-> "add", whom |-> q, role |-> role] \in Asked
    BY DEF Asked
  <2>2. PICK new \in Asked : new = [step |-> "add", whom |-> q, role |-> role]
    BY <2>1
  <2>3. new.step = "add"
    BY <2>2
  <2>4. desk' = [desk EXCEPT ![k] = new] /\ UNCHANGED <<access, open, visit, contested>>
    BY <1>2, <2>2 DEF AskToAdd, AuthorizePlatform
  <2>5. StartFits(k, new) /\ EndFits(new) /\ BarFits(new)
    BY <2>3 DEF StartFits, EndFits, BarFits, Entering
  <2> QED BY <2>3, <2>4, <2>5, OtherMoves
<1>3. ASSUME FindTarget(k) PROVE PlatformInv'
  <2>1. desk[k] \in Asked /\ desk[k].step = "remove" /\ desk[k] # Nobody /\ desk[k].whom \in Insider
    BY <1>3, DeskFacts, AskedFacts DEF FindTarget, DeskDoes
  <2>2. PICK new \in Asked : new.step = "removing" /\ new.whom = desk[k].whom /\ new = [desk[k] EXCEPT !.step = "removing"]
    BY <2>1 DEF Asked
  <2>3. desk' = [desk EXCEPT ![k] = new] /\ UNCHANGED <<access, open, visit, contested>>
    BY <1>3, <2>2 DEF FindTarget, Turn
  <2>4. StartFits(k, new) /\ EndFits(new) /\ BarFits(new)
    BY <2>2 DEF StartFits, EndFits, BarFits, Entering
  <2>5. Removes(k)
    BY <2>1 DEF Removes
  <2> QED BY <2>2, <2>3, <2>4, <2>5, OtherMoves
<1> QED BY <1>1, <1>2, <1>3

(* and those that start and end a support visit. *)
LEMMA VisitSteps ==
    ASSUME PlatformInv, NEW k \in Desk,
           \/ \E p \in Insider, b \in Business, v \in Visit : AskToVisit(k, p, b, v)
           \/ \E v \in Visit : AskToEnd(k, v) \/ Arrive(k, v)
           \/ CheckTenant(k) \/ FindSession(k) \/ FindTenant(k) \/ FindGrant(k) \/ Close(k)
    PROVE  PlatformInv'
<1>1. ASSUME NEW p \in Insider, NEW b \in Business, NEW v \in Visit, AskToVisit(k, p, b, v) PROVE PlatformInv'
  <2>1. [step |-> "start", by |-> p, of |-> b, on |-> v] \in Asked
    BY DEF Asked
  <2>2. PICK new \in Asked : new = [step |-> "start", by |-> p, of |-> b, on |-> v]
    BY <2>1
  <2>3. new.step = "start" /\ new.on = v
    BY <2>2
  <2>4. desk' = [desk EXCEPT ![k] = new] /\ UNCHANGED <<access, open, visit, contested>> /\ visit[v] = Nobody
        /\ ~\E o \in Desk : (DeskDoes(o, "start") \/ DeskDoes(o, "starting")) /\ desk[o].on = v
    BY <1>1, <2>2 DEF AskToVisit, AuthorizePlatform
  <2>5. EndFits(new) /\ BarFits(new)
    BY <2>3 DEF EndFits, BarFits, Entering
  <2>6. StartFits(k, new)
    BY <2>3, <2>4 DEF StartFits, DeskDoes
  <2> QED BY <2>3, <2>4, <2>5, <2>6, OtherMoves
<1>2. ASSUME NEW v \in Visit, AskToEnd(k, v) PROVE PlatformInv'
  <2>1. [step |-> "end", on |-> v] \in Asked
    BY DEF Asked
  <2>2. PICK new \in Asked : new = [step |-> "end", on |-> v]
    BY <2>1
  <2>3. new.step = "end" /\ new.on = v
    BY <2>2
  <2>4. desk' = [desk EXCEPT ![k] = new] /\ UNCHANGED <<access, open, visit, contested>> /\ visit[v] # Nobody
    BY <1>2, <2>2 DEF AskToEnd, AuthorizePlatform
  <2>5. StartFits(k, new) /\ EndFits(new) /\ BarFits(new)
    BY <2>3, <2>4 DEF StartFits, EndFits, BarFits, Entering
  <2> QED BY <2>3, <2>4, <2>5, OtherMoves
<1>3. ASSUME NEW v \in Visit, Arrive(k, v) PROVE PlatformInv'
  <2>1. PICK barred \in {"no", "while", "forever"} :
           barred = IF Over(v) \/ access[visit[v].by] = "removed" THEN "forever" ELSE IF ~open[visit[v].of] THEN "while" ELSE "no"
    OBVIOUS
  <2>2. [step |-> "look", on |-> v, barred |-> barred] \in Asked
    BY DEF Asked
  <2>3. PICK new \in Asked : new = [step |-> "look", on |-> v, barred |-> barred]
    BY <2>2
  <2>4. new.step = "look" /\ new.on = v /\ new.barred = barred
    BY <2>3
  <2>5. desk' = [desk EXCEPT ![k] = new] /\ UNCHANGED <<access, open, visit, contested>> /\ visit[v] # Nobody
    BY <1>3, <2>1, <2>3 DEF Arrive
  <2>6. BarFits(new)
    BY <2>1, <2>4, <2>5 DEF BarFits
  <2>7. StartFits(k, new) /\ EndFits(new)
    BY <2>4 DEF StartFits, EndFits
  <2> QED BY <2>4, <2>5, <2>6, <2>7, OtherMoves
<1>4. ASSUME CheckTenant(k) PROVE PlatformInv'
  <2>1. desk[k] \in Asked /\ desk[k].step = "start" /\ desk[k] # Nobody
    BY <1>4, DeskFacts DEF CheckTenant, DeskDoes
  <2>2. PICK new \in Asked : new.step = "starting" /\ new.on = desk[k].on /\ new = [desk[k] EXCEPT !.step = "starting"]
    BY <2>1 DEF Asked
  <2>3. desk' = [desk EXCEPT ![k] = new] /\ UNCHANGED <<access, open, visit, contested>>
    BY <1>4, <2>2 DEF CheckTenant, Turn
  <2>4. StartFits(k, new)
    BY <2>1, <2>2 DEF PlatformInv, DesksFit, StartFits
  <2>5. EndFits(new) /\ BarFits(new)
    BY <2>2 DEF EndFits, BarFits, Entering
  <2> QED BY <2>2, <2>3, <2>4, <2>5, OtherMoves
<1>5. ASSUME NEW old, NEW next \in Entering, desk[k] # Nobody, desk[k].step = old, old \in Entering,
             desk' = [desk EXCEPT ![k].step = next], UNCHANGED <<access, open, visit, contested>>,
             NEW new, new = [desk[k] EXCEPT !.step = next], BarFits(new)
      PROVE PlatformInv'
  <2>1. desk[k] \in Asked
    BY <1>5, DeskFacts
  <2>2. new \in Asked /\ new.step = next
    BY <1>5, <2>1 DEF Asked, Entering
  <2>3. desk' = [desk EXCEPT ![k] = new]
    BY <1>5
  <2>4. StartFits(k, new) /\ EndFits(new) /\ next \notin {"remove", "removing"}
    BY <2>2 DEF StartFits, EndFits, Entering
  <2> QED BY <1>5, <2>2, <2>3, <2>4, OtherMoves
<1>6. ASSUME desk[k] # Nobody, desk[k].step \in Entering
      PROVE  /\ BarFits(desk[k]) /\ desk[k] \in Asked /\ desk[k].on \in Visit /\ desk[k].barred \in {"no", "while", "forever"}
             /\ \A next \in Entering : LET new == [desk[k] EXCEPT !.step = next]
                                       IN new.step = next /\ new.on = desk[k].on /\ new.barred = desk[k].barred
  <2>1. BarFits(desk[k]) /\ desk[k] \in Asked
    BY <1>6, DeskFacts DEF PlatformInv, DesksFit
  <2>2. desk[k].on \in Visit /\ desk[k].barred \in {"no", "while", "forever"}
    BY <1>6, <2>1, AskedFacts
  <2> QED BY <1>6, <2>1, <2>2 DEF Asked, Entering
<1>7. ASSUME FindSession(k) PROVE PlatformInv'
  <2>1. desk[k] # Nobody /\ desk[k].step = "look" /\ ~Over(desk[k].on) /\ desk' = [desk EXCEPT ![k].step = "tenant"]
        /\ UNCHANGED <<access, open, visit, contested>>
    BY <1>7 DEF FindSession, DeskDoes, Turn
  <2>2. PICK new : new = [desk[k] EXCEPT !.step = "tenant"]
    OBVIOUS
  <2>3. "tenant" \in Entering /\ "look" \in Entering
    BY DEF Entering
  <2>4. new.step = "tenant" /\ new.on = desk[k].on /\ new.barred = desk[k].barred /\ BarFits(desk[k])
    BY <1>6, <2>1, <2>2, <2>3
  <2>5. BarFits(new)
    BY <2>1, <2>3, <2>4 DEF BarFits
  <2> QED BY <1>5, <2>1, <2>2, <2>3, <2>5
<1>8. ASSUME FindTenant(k) PROVE PlatformInv'
  <2>1. desk[k] # Nobody /\ desk[k].step = "tenant" /\ open[visit[desk[k].on].of] /\ desk' = [desk EXCEPT ![k].step = "holder"]
        /\ UNCHANGED <<access, open, visit, contested>>
    BY <1>8 DEF FindTenant, DeskDoes, Turn
  <2>2. PICK new : new = [desk[k] EXCEPT !.step = "holder"]
    OBVIOUS
  <2>3. "tenant" \in Entering /\ "holder" \in Entering
    BY DEF Entering
  <2>4. new.step = "holder" /\ new.on = desk[k].on /\ new.barred = desk[k].barred /\ BarFits(desk[k])
    BY <1>6, <2>1, <2>2, <2>3
  <2>5. BarFits(new)
    BY <2>1, <2>3, <2>4 DEF BarFits
  <2> QED BY <1>5, <2>1, <2>2, <2>3, <2>5
<1>9. ASSUME FindGrant(k) PROVE PlatformInv'
  <2>1. desk[k] # Nobody /\ desk[k].step = "holder" /\ access[visit[desk[k].on].by] # "removed"
        /\ desk' = [desk EXCEPT ![k].step = "in"] /\ UNCHANGED <<access, open, visit, contested>>
    BY <1>9 DEF FindGrant, DeskDoes, Turn, Holds
  <2>2. PICK new : new = [desk[k] EXCEPT !.step = "in"]
    OBVIOUS
  <2>3. "in" \in Entering /\ "holder" \in Entering
    BY DEF Entering
  <2>4. new.step = "in" /\ new.on = desk[k].on /\ new.barred = desk[k].barred /\ BarFits(desk[k])
        /\ desk[k].barred \in {"no", "while", "forever"}
    BY <1>6, <2>1, <2>2, <2>3
  <2>5. BarFits(new)
    BY <2>1, <2>3, <2>4 DEF BarFits
  <2> QED BY <1>5, <2>1, <2>2, <2>3, <2>5
<1>10. ASSUME Close(k) PROVE PlatformInv'
  BY <1>10, OtherMoves DEF Close, Leave
<1> QED BY <1>1, <1>2, <1>3, <1>4, <1>7, <1>8, <1>9, <1>10

(* The desks when accounts and visits change and the request that changed them is answered. *)
LEMMA DesksStand ==
    ASSUME PlatformInv, Standing, UNCHANGED open,
           \A o \in Desk : desk'[o] # Nobody => desk'[o] = desk[o],
           \A o \in Desk : desk'[o] # Nobody /\ desk[o].step \in {"start", "starting"} => visit'[desk[o].on] = visit[desk[o].on]
    PROVE  DesksFit'
<1> SUFFICES ASSUME NEW o \in Desk, desk'[o] # Nobody
             PROVE  StartFits(o, desk[o])' /\ EndFits(desk[o])' /\ BarFits(desk[o])'
  BY DEF DesksFit
<1>1. PICK d \in Asked : d = desk[o]
  BY DeskFacts
<1>2. StartFits(o, d) /\ EndFits(d) /\ BarFits(d) /\ desk'[o] = d
  BY <1>1 DEF PlatformInv, DesksFit
<1>3. EndFits(d)' /\ BarFits(d)'
  BY <1>2, BarStays
<1>4. StartFits(o, d)'
  BY <1>1, <1>2 DEF StartFits
<1> QED BY <1>2, <1>3, <1>4 DEF StartFits, EndFits, BarFits

(* The rows that such steps leave. *)
LEMMA TypeStands ==
    ASSUME PlatformInv, DesksFit', access' \in [Insider -> {"none", "agent", "manager", "removed"}],
           open' \in [Business -> BOOLEAN], contested' \in BOOLEAN, visit' \in [Visit -> Visits \cup {Nobody}],
           desk' \in [Desk -> Asked \cup {Nobody}]
    PROVE  PlatformTypeOK'
<1>1. \A o \in Desk : desk'[o] # Nobody /\ desk'[o].step \in {"look", "tenant", "holder", "in"} => visit'[desk'[o].on] # Nobody
  BY DEF DesksFit, BarFits, Entering
<1> QED BY <1>1 DEF PlatformTypeOK

(* A request that is answered leaves the others. *)
LEMMA Answered ==
    ASSUME PlatformInv, NEW k \in Desk, desk[k] # Nobody, Leave(k)
    PROVE  /\ desk' \in [Desk -> Asked \cup {Nobody}]
           /\ desk'[k] = Nobody /\ \A o \in Desk : desk'[o] # Nobody => desk'[o] = desk[o] /\ o # k
  BY DEF PlatformInv, PlatformTypeOK, Leave

(* Somebody joins. *)
LEMMA AddStep == ASSUME PlatformInv, NEW k \in Desk, AddPlatformAdmin(k) PROVE PlatformInv'
<1>1. desk[k] \in Asked /\ desk[k].step = "add" /\ desk[k] # Nobody
  BY DeskFacts DEF AddPlatformAdmin, DeskDoes
<1>2. desk[k].whom \in Insider /\ desk[k].role \in {"manager", "agent"}
  BY <1>1, AskedFacts
<1>3. /\ access' = IF access[desk[k].whom] = "none" THEN [access EXCEPT ![desk[k].whom] = desk[k].role] ELSE access
      /\ Leave(k) /\ UNCHANGED <<open, visit, contested>>
  BY DEF AddPlatformAdmin
<1>4. access' \in [Insider -> {"none", "agent", "manager", "removed"}]
      /\ \A p \in Insider : access[p] \in {"manager", "removed"} => access'[p] = access[p]
  BY <1>2, <1>3 DEF PlatformInv, PlatformTypeOK
<1>5. Standing
  BY <1>3, <1>4 DEF Standing, Over
<1>6. desk' \in [Desk -> Asked \cup {Nobody}] /\ \A o \in Desk : desk'[o] # Nobody => desk'[o] = desk[o]
  BY <1>1, <1>3, Answered
<1>7. DesksFit'
  BY <1>3, <1>5, <1>6, DesksStand
<1>8. PlatformTypeOK'
  BY <1>3, <1>4, <1>6, <1>7, TypeStands DEF PlatformInv, PlatformTypeOK
<1>9. RemovalsFit'
  BY <1>3, <1>4, <1>6 DEF PlatformInv, RemovalsFit, Removes
<1>10. AManagerRemainsInTurn'
  BY <1>3, <1>4 DEF PlatformInv, AManagerRemainsInTurn
<1> QED BY <1>7, <1>8, <1>9, <1>10 DEF PlatformInv

(* Somebody leaves: the manager who asks stays. *)
LEMMA RemoveStep == ASSUME PlatformInv, NEW k \in Desk, RemovePlatformAdmin(k) PROVE PlatformInv'
<1>1. desk[k] \in Asked /\ desk[k].step = "removing" /\ desk[k] # Nobody
  BY DeskFacts DEF RemovePlatformAdmin, DeskDoes
<1>2. PICK w \in Insider : w = desk[k].whom
  BY <1>1, AskedFacts
<1>3. /\ access' = [access EXCEPT ![w] = "removed"] /\ Leave(k) /\ UNCHANGED <<open, contested>>
      /\ visit' = [v \in Visit |-> IF visit[v] # Nobody /\ visit[v].by = w THEN [visit[v] EXCEPT !.ended = TRUE] ELSE visit[v]]
  BY <1>2 DEF RemovePlatformAdmin
<1>4. access' \in [Insider -> {"none", "agent", "manager", "removed"}] /\ access'[w] = "removed"
      /\ \A p \in Insider : p # w => access'[p] = access[p]
  BY <1>3 DEF PlatformInv, PlatformTypeOK
<1>5. \A v \in Visit :
         /\ visit'[v] \in Visits \cup {Nobody}
         /\ visit[v] = Nobody => visit'[v] = Nobody
         /\ visit[v] # Nobody => visit'[v] \in Visits /\ visit'[v].by = visit[v].by /\ visit'[v].of = visit[v].of
                                 /\ visit'[v].expired = visit[v].expired /\ (visit[v].ended => visit'[v].ended)
  <2> TAKE v \in Visit
  <2>1. CASE visit[v] # Nobody /\ visit[v].by = w
    <3>1. visit[v] \in Visits /\ visit'[v] = [visit[v] EXCEPT !.ended = TRUE]
      BY <1>3, <2>1, DeskFacts
    <3>2. visit'[v] \in Visits /\ visit'[v].by = visit[v].by /\ visit'[v].of = visit[v].of
          /\ visit'[v].expired = visit[v].expired /\ visit'[v].ended
      BY <3>1 DEF Visits
    <3> QED BY <2>1, <3>2
  <2>2. CASE visit[v] = Nobody
    BY <1>3, <2>2
  <2>3. CASE visit[v] # Nobody /\ visit[v].by # w
    <3>1. visit[v] \in Visits /\ visit'[v] = visit[v]
      BY <1>3, <2>3, DeskFacts
    <3> QED BY <2>3, <3>1
  <2> QED BY <2>1, <2>2, <2>3
<1>6. visit' \in [Visit -> Visits \cup {Nobody}]
  <2>1. visit' = [v \in Visit |-> visit'[v]]
    BY <1>3
  <2> QED BY <1>5, <2>1
<1>7. Standing
  <2>1. \A v \in Visit : visit[v] # Nobody => visit'[v] # Nobody /\ (Over(v) => Over(v)')
    BY <1>5, DeskFacts DEF Over
  <2> QED BY <1>4, <1>5, <2>1 DEF Standing
<1>8. desk' \in [Desk -> Asked \cup {Nobody}] /\ \A o \in Desk : desk'[o] # Nobody => desk'[o] = desk[o] /\ o # k
  BY <1>1, <1>3, Answered
<1>9. DesksFit'
  <2>1. \A o \in Desk : desk'[o] # Nobody /\ desk[o].step \in {"start", "starting"} => visit'[desk[o].on] = visit[desk[o].on]
    <3> TAKE o \in Desk
    <3> HAVE desk'[o] # Nobody /\ desk[o].step \in {"start", "starting"}
    <3>1. desk[o] \in Asked /\ desk[o] # Nobody /\ StartFits(o, desk[o])
      BY <1>8, DeskFacts DEF PlatformInv, DesksFit
    <3>2. desk[o].on \in Visit /\ visit[desk[o].on] = Nobody
      BY <3>1, AskedFacts DEF StartFits
    <3> QED BY <1>5, <3>2
  <2> QED BY <1>3, <1>7, <1>8, <2>1, DesksStand
<1>10. PlatformTypeOK'
  BY <1>3, <1>4, <1>6, <1>8, <1>9, TypeStands DEF PlatformInv, PlatformTypeOK
<1>11. RemovalsFit' /\ AManagerRemainsInTurn'
  <2> SUFFICES ASSUME ~contested PROVE RemovalsFit' /\ AManagerRemainsInTurn'
    BY <1>3 DEF RemovalsFit, AManagerRemainsInTurn
  <2>1. Removes(k)
    BY <1>1 DEF Removes
  <2>2. \A o \in Desk : ~Removes(o)'
    BY <1>8, <2>1 DEF PlatformInv, RemovalsFit, Removes
  <2>3. PICK p \in Insider : p # w /\ access[p] = "manager"
    BY <1>2, <2>1 DEF PlatformInv, RemovalsFit
  <2>4. access'[p] = "manager"
    BY <1>4, <2>3
  <2> QED BY <2>2, <2>4 DEF RemovalsFit, AManagerRemainsInTurn
<1> QED BY <1>9, <1>10, <1>11 DEF PlatformInv

IsOver(row) == row.ended \/ row.expired

(* One row of support_sessions begins, ends or expires. *)
LEMMA VisitWritten ==
    ASSUME PlatformInv, NEW v \in Visit, NEW row \in Visits, visit' = [visit EXCEPT ![v] = row],
           visit[v] # Nobody => row.by = visit[v].by /\ row.of = visit[v].of /\ (Over(v) => IsOver(row)),
           \A o \in Desk : desk'[o] # Nobody /\ desk[o].step \in {"start", "starting"} => desk[o].on # v,
           desk' \in [Desk -> Asked \cup {Nobody}], \A o \in Desk : desk'[o] # Nobody => desk'[o] = desk[o],
           UNCHANGED <<access, open, contested>>
    PROVE  PlatformInv'
<1>1. visit'[v] = row /\ row # Nobody /\ \A u \in Visit : u # v => visit'[u] = visit[u]
  BY DeskFacts DEF PlatformInv, PlatformTypeOK
<1>2. visit' \in [Visit -> Visits \cup {Nobody}]
  BY DEF PlatformInv, PlatformTypeOK
<1>3. Standing
  BY <1>1 DEF Standing, Over, IsOver
<1>4. DesksFit'
  <2>1. \A o \in Desk : desk'[o] # Nobody /\ desk[o].step \in {"start", "starting"} => visit'[desk[o].on] = visit[desk[o].on]
    <3> TAKE o \in Desk
    <3> HAVE desk'[o] # Nobody /\ desk[o].step \in {"start", "starting"}
    <3>1. desk[o] \in Asked /\ desk[o].on # v
      BY DeskFacts
    <3>2. desk[o].on \in Visit
      BY <3>1, AskedFacts
    <3> QED BY <1>1, <3>1, <3>2
  <2> QED BY <1>3, <2>1, DesksStand
<1>5. PlatformTypeOK'
  BY <1>2, <1>4, TypeStands DEF PlatformInv, PlatformTypeOK
<1>6. RemovalsFit' /\ AManagerRemainsInTurn'
  BY DEF PlatformInv, RemovalsFit, Removes, AManagerRemainsInTurn
<1> QED BY <1>4, <1>5, <1>6 DEF PlatformInv

(* A visit starts with a row that is open, *)
LEMMA StartStep == ASSUME PlatformInv, NEW k \in Desk, StartVisit(k) PROVE PlatformInv'
<1>1. desk[k] \in Asked /\ desk[k].step = "starting" /\ desk[k] # Nobody
  BY DeskFacts DEF StartVisit, DeskDoes
<1>2. desk[k].on \in Visit /\ desk[k].by \in Insider /\ desk[k].of \in Business
  BY <1>1, AskedFacts
<1>3. PICK v \in Visit : v = desk[k].on
  BY <1>2
<1>4. [by |-> desk[k].by, of |-> desk[k].of, ended |-> FALSE, expired |-> FALSE] \in Visits
  BY <1>2 DEF Visits
<1>5. PICK row \in Visits : row = [by |-> desk[k].by, of |-> desk[k].of, ended |-> FALSE, expired |-> FALSE]
  BY <1>4
<1>6. visit' = [visit EXCEPT ![v] = row] /\ Leave(k) /\ UNCHANGED <<access, open, contested>>
  BY <1>3, <1>5 DEF StartVisit
<1>7. StartFits(k, desk[k])
  BY <1>1 DEF PlatformInv, DesksFit
<1>8. visit[v] = Nobody /\ \A o \in Desk : o # k /\ desk[o] # Nobody /\ desk[o].step \in {"start", "starting"} => desk[o].on # v
  BY <1>1, <1>3, <1>7 DEF StartFits
<1>9. desk' \in [Desk -> Asked \cup {Nobody}] /\ \A o \in Desk : desk'[o] # Nobody => desk'[o] = desk[o] /\ o # k
  BY <1>1, <1>6, Answered
<1> QED BY <1>6, <1>8, <1>9, VisitWritten

(* ends by hand, *)
LEMMA EndStep == ASSUME PlatformInv, NEW k \in Desk, EndVisit(k) PROVE PlatformInv'
<1>1. desk[k] \in Asked /\ desk[k].step = "end" /\ desk[k] # Nobody /\ EndFits(desk[k])
  BY DeskFacts DEF EndVisit, DeskDoes, PlatformInv, DesksFit
<1>2. PICK v \in Visit : v = desk[k].on
  BY <1>1, AskedFacts
<1>3. visit[v] \in Visits /\ visit[v] # Nobody
  BY <1>1, <1>2, DeskFacts DEF EndFits
<1>4. [visit[v] EXCEPT !.ended = TRUE] \in Visits
  BY <1>3 DEF Visits
<1>5. PICK row \in Visits : row = [visit[v] EXCEPT !.ended = TRUE]
  BY <1>4
<1>6. row.by = visit[v].by /\ row.of = visit[v].of /\ IsOver(row)
  BY <1>3, <1>5 DEF Visits, IsOver
<1>7. visit' = [visit EXCEPT ![v] = row] /\ Leave(k) /\ UNCHANGED <<access, open, contested>>
  BY <1>2, <1>5 DEF EndVisit, PlatformInv, PlatformTypeOK
<1>8. desk' \in [Desk -> Asked \cup {Nobody}] /\ \A o \in Desk : desk'[o] # Nobody => desk'[o] = desk[o]
  BY <1>1, <1>7, Answered
<1>9. \A o \in Desk : desk[o] # Nobody /\ desk[o].step \in {"start", "starting"} => desk[o].on # v
  BY <1>3 DEF PlatformInv, DesksFit, StartFits
<1> QED BY <1>6, <1>7, <1>8, <1>9, VisitWritten

(* or by the clock; *)
LEMMA ExpireStep == ASSUME PlatformInv, NEW v \in Visit, ExpireVisit(v) PROVE PlatformInv'
<1>1. visit[v] \in Visits /\ visit[v] # Nobody
  BY DeskFacts DEF ExpireVisit
<1>2. [visit[v] EXCEPT !.expired = TRUE] \in Visits
  BY <1>1 DEF Visits
<1>3. PICK row \in Visits : row = [visit[v] EXCEPT !.expired = TRUE]
  BY <1>2
<1>4. row.by = visit[v].by /\ row.of = visit[v].of /\ IsOver(row)
  BY <1>1, <1>3 DEF Visits, IsOver
<1>5. visit' = [visit EXCEPT ![v] = row] /\ UNCHANGED <<access, open, desk, contested>>
  BY <1>3 DEF ExpireVisit, PlatformInv, PlatformTypeOK
<1>6. \A o \in Desk : desk[o] # Nobody /\ desk[o].step \in {"start", "starting"} => desk[o].on # v
  BY <1>1 DEF PlatformInv, DesksFit, StartFits
<1>7. desk' \in [Desk -> Asked \cup {Nobody}]
  BY <1>5 DEF PlatformInv, PlatformTypeOK
<1> QED BY <1>4, <1>5, <1>6, <1>7, VisitWritten

(* and a business is suspended or not. *)
LEMMA StatusStep == ASSUME PlatformInv, NEW b \in Business, UpdateTenantStatus(b) PROVE PlatformInv'
<1> DEFINE Freed(o) == ~open[b] /\ desk[o] # Nobody /\ desk[o].step \in {"look", "tenant", "holder"}
                       /\ visit[desk[o].on].of = b /\ desk[o].barred = "while"
<1>1. /\ open' = [open EXCEPT ![b] = ~open[b]] /\ UNCHANGED <<access, visit, contested>>
      /\ desk' = [o \in Desk |-> IF Freed(o) THEN [desk[o] EXCEPT !.barred = "no"] ELSE desk[o]]
  BY DEF UpdateTenantStatus
<1>2. open' \in [Business -> BOOLEAN] /\ \A c \in Business : open'[c] = IF c = b THEN ~open[b] ELSE open[c]
  BY <1>1 DEF PlatformInv, PlatformTypeOK
<1>3. \A o \in Desk :
        /\ Freed(o) => desk[o] # Nobody /\ desk[o].step \in {"look", "tenant", "holder"} /\ desk'[o] \in Asked
                       /\ desk'[o].step = desk[o].step /\ desk'[o].on = desk[o].on /\ desk'[o].barred = "no"
        /\ ~Freed(o) => desk'[o] = desk[o]
  <2> TAKE o \in Desk
  <2>1. CASE Freed(o)
    <3>1. desk[o] \in Asked /\ desk[o].step \in {"look", "tenant", "holder"} /\ desk'[o] = [desk[o] EXCEPT !.barred = "no"]
      BY <1>1, <2>1, DeskFacts
    <3> HIDE DEF Freed
    <3>2. desk'[o] \in Asked /\ desk'[o].step = desk[o].step /\ desk'[o].on = desk[o].on /\ desk'[o].barred = "no"
      BY <3>1 DEF Asked
    <3>3. desk[o] # Nobody
      BY <2>1 DEF Freed
    <3> QED BY <2>1, <3>1, <3>2, <3>3
  <2>2. CASE ~Freed(o)
    BY <1>1, <2>2
  <2> QED BY <2>1, <2>2
<1>4. desk' \in [Desk -> Asked \cup {Nobody}]
  <2>1. \A o \in Desk : desk'[o] \in Asked \cup {Nobody}
    BY <1>3, DeskFacts
  <2>2. desk' = [o \in Desk |-> desk'[o]]
    BY <1>1
  <2> QED BY <2>1, <2>2
<1>5. DesksFit'
  <2> SUFFICES ASSUME NEW o \in Desk, desk'[o] # Nobody
               PROVE  StartFits(o, desk[o])' /\ EndFits(desk[o])' /\ BarFits(desk[o])'
    BY DEF DesksFit
  <2>1. desk[o] # Nobody /\ desk'[o].step = desk[o].step /\ (~Freed(o) => desk'[o] = desk[o])
    BY <1>3
  <2>2. desk[o] \in Asked /\ StartFits(o, desk[o]) /\ EndFits(desk[o]) /\ BarFits(desk[o])
    BY <2>1, DeskFacts DEF PlatformInv, DesksFit
  <2>3. \A q \in Desk : desk'[q] # Nobody /\ desk'[q].step \in {"start", "starting"} =>
                desk'[q] = desk[q] /\ desk[q] # Nobody
    BY <1>3
  <2>4. StartFits(o, desk[o])'
    <3> SUFFICES ASSUME desk'[o].step \in {"start", "starting"} PROVE StartFits(o, desk[o])'
      BY DEF StartFits
    <3>1. desk'[o] = desk[o]
      BY <2>3
    <3> QED BY <1>1, <2>2, <2>3, <3>1 DEF StartFits
  <2>5. EndFits(desk[o])'
    <3> SUFFICES ASSUME desk'[o].step = "end" PROVE EndFits(desk[o])'
      BY DEF EndFits
    <3>1. desk'[o] = desk[o]
      BY <1>3
    <3> QED BY <1>1, <2>2, <3>1 DEF EndFits
  <2>6. BarFits(desk[o])'
    <3> SUFFICES ASSUME desk'[o].step \in Entering PROVE BarFits(desk[o])'
      BY DEF BarFits
    <3>1. desk[o].step \in Entering /\ desk[o].on \in Visit /\ visit[desk[o].on] # Nobody
      BY <2>1, <2>2, AskedFacts DEF BarFits
    <3>2. visit[desk[o].on].of \in Business
      BY <3>1, DeskFacts
    <3>3. CASE Freed(o)
      <4>1. desk'[o].on = desk[o].on /\ desk'[o].barred = "no" /\ desk'[o].step = desk[o].step
        BY <1>3, <3>3
      <4>2. desk'[o].step \in {"look", "tenant", "holder"} /\ visit'[desk'[o].on] # Nobody
        BY <1>1, <3>1, <3>3, <4>1
      <4>3. desk'[o].barred = "no" => ~(desk'[o].step = "in" /\ desk'[o].barred # "no")
        OBVIOUS
      <4> HIDE DEF Freed
      <4> QED BY <4>1, <4>2 DEF BarFits
    <3>4. CASE ~Freed(o)
      <4>1. desk'[o] = desk[o]
        BY <2>1, <3>4
      <4>2. desk[o].step \in {"look", "tenant"} /\ desk[o].barred = "while" => ~open'[visit[desk[o].on].of]
        <5> SUFFICES ASSUME desk[o].step \in {"look", "tenant"}, desk[o].barred = "while" PROVE ~open'[visit[desk[o].on].of]
          OBVIOUS
        <5>1. ~open[visit[desk[o].on].of]
          BY <2>2, <3>1 DEF BarFits
        <5>2. visit[desk[o].on].of # b
          BY <2>1, <3>4, <5>1
        <5> QED BY <1>2, <3>2, <5>1, <5>2
      <4> QED BY <1>1, <2>2, <3>1, <4>1, <4>2 DEF BarFits, Over
    <3> QED BY <3>3, <3>4
  <2> QED BY <2>4, <2>5, <2>6
<1>6. PlatformTypeOK'
  BY <1>1, <1>2, <1>4, <1>5, TypeStands DEF PlatformInv, PlatformTypeOK
<1>7. RemovalsFit'
  <2>1. \A o \in Desk : Removes(o)' => Removes(o) /\ desk'[o].whom = desk[o].whom
    BY <1>3 DEF Removes
  <2> QED BY <1>1, <2>1 DEF PlatformInv, RemovalsFit
<1>8. AManagerRemainsInTurn'
  BY <1>1 DEF PlatformInv, AManagerRemainsInTurn
<1> QED BY <1>5, <1>6, <1>7, <1>8 DEF PlatformInv

(* Every step keeps the invariant of the platform, *)
LEMMA PlatformNextInv == ASSUME PlatformInv, [PlatformNext]_platformVars PROVE PlatformInv'
<1>1. CASE UNCHANGED platformVars
  <2>1. UNCHANGED <<access, open, visit, desk, contested>>
    BY <1>1 DEF platformVars
  <2> QED BY <2>1 DEF PlatformInv, PlatformTypeOK, DesksFit, StartFits, EndFits, BarFits, Over, RemovalsFit, Removes, AManagerRemainsInTurn
<1> QED BY <1>1, AdminSteps, VisitSteps, AddStep, RemoveStep, StartStep, EndStep, ExpireStep, StatusStep DEF PlatformNext

(* which is more than was promised. *)
LEMMA PlatformTells == ASSUME PlatformInv PROVE PlatformTypeOK /\ NoEntryAfterTheEnd /\ AManagerRemainsInTurn
<1>1. NoEntryAfterTheEnd
  BY DEF PlatformInv, DesksFit, BarFits, Entering, DeskDoes, NoEntryAfterTheEnd
<1> QED BY <1>1 DEF PlatformInv

-----------------------------------------------------------------------------
(* The settings of a workspace (Workspace). *)

(* An object whose GSTIN, if there is one, has its state and PAN filled in. *)
IsFilledIn(o) == o.gstin # Unset => o.state = o.gstin.state /\ o.pan # Unset
(* What a request is about to write is what the answers will add up to. *)
SettingsInTurn ==
    /\ \A s, r \in Saver : saver[s] # Unset /\ saver[r] # Unset => s = r
    /\ metadata = said
    /\ \A s \in Saver : saver[s] # Unset => saver[s].next = FilledIn(Merged(said, saver[s].changes))
SettingsInv ==
    /\ SettingsTypeOK
    /\ IsFilledIn(metadata) /\ \A s \in Saver : saver[s] # Unset => IsFilledIn(saver[s].next)
    /\ together \/ SettingsInTurn

(* The keys of the object. *)
LEMMA ObjectFields ==
    ASSUME NEW o \in Metadata
    PROVE  /\ DOMAIN o = {"locale", "gstin", "state", "pan"}
           /\ o.locale \in {Unset, "hi"} /\ o.gstin \in Gstin \cup {Unset} /\ o.state \in State \cup {Unset} /\ o.pan \in Pan \cup {Unset}
  BY DEF Metadata

(* An update keeps the type, *)
LEMMA MergedAre ==
    ASSUME NEW o \in Metadata, NEW c \in Changes
    PROVE  /\ Merged(o, c) \in Metadata
           /\ Merged(o, c).gstin = IF c.gstin = Left THEN o.gstin ELSE c.gstin
           /\ Merged(o, c).state = IF c.state = Left THEN o.state ELSE c.state
           /\ Merged(o, c).pan = IF c.pan = Left THEN o.pan ELSE c.pan
           /\ Merged(o, c).locale = IF c.locale = Left THEN o.locale ELSE c.locale
<1>1. DOMAIN o = {"locale", "gstin", "state", "pan"}
  BY ObjectFields
<1>2. PICK m : m = Merged(o, c)
  OBVIOUS
<1>3. m = [k \in {"locale", "gstin", "state", "pan"} |-> IF c[k] = Left THEN o[k] ELSE c[k]]
  BY <1>1, <1>2 DEF Merged
<1>4. /\ m = [locale |-> m["locale"], gstin |-> m["gstin"], state |-> m["state"], pan |-> m["pan"]]
  BY <1>3
<1>5. /\ m["gstin"] = IF c["gstin"] = Left THEN o["gstin"] ELSE c["gstin"]
      /\ m["state"] = IF c["state"] = Left THEN o["state"] ELSE c["state"]
      /\ m["pan"] = IF c["pan"] = Left THEN o["pan"] ELSE c["pan"]
      /\ m["locale"] = IF c["locale"] = Left THEN o["locale"] ELSE c["locale"]
  BY <1>3
<1>6. /\ c.locale \in {Unset, Left, "hi"} /\ c.gstin \in Gstin \cup {Unset, Left} /\ c.state \in State \cup {Unset, Left}
      /\ c.pan \in Pan \cup {Unset, Left}
  BY DEF Changes
<1>7. m \in Metadata
  BY <1>4, <1>5, <1>6, ObjectFields DEF Metadata
<1> QED BY <1>2, <1>5, <1>7

(* and so does filling in. *)
LEMMA FilledAre ==
    ASSUME NEW o \in Metadata
    PROVE  /\ FilledIn(o) \in Metadata /\ FilledIn(o).gstin = o.gstin
           /\ o.gstin # Unset => FilledIn(o).state # Unset /\ FilledIn(o).pan # Unset
           /\ IsFilledIn(o) => FilledIn(o) = o
<1>1. CASE o.gstin = Unset
  BY <1>1 DEF FilledIn
<1>2. CASE o.gstin # Unset
  <2>1. o.gstin \in Gstin /\ o.gstin.state \in State /\ o.gstin.pan \in Pan
    BY <1>2, ObjectFields DEF Gstin
  <2>2. PICK state \in State : state = IF o.state = Unset THEN o.gstin.state ELSE o.state
    BY <2>1, ObjectFields
  <2>3. PICK pan \in Pan : pan = IF o.pan = Unset THEN o.gstin.pan ELSE o.pan
    BY <2>1, ObjectFields
  <2>4. FilledIn(o) = [o EXCEPT !.state = state, !.pan = pan]
    BY <1>2, <2>2, <2>3 DEF FilledIn
  <2>5. PICK f \in Metadata : f = [o EXCEPT !.state = state, !.pan = pan]
    BY DEF Metadata
  <2>6. f.gstin = o.gstin /\ f.state = state /\ f.pan = pan /\ f.locale = o.locale
    BY <2>5 DEF Metadata
  <2>7. state # Unset /\ pan # Unset
    BY UnsetAssumption
  <2>8. ASSUME IsFilledIn(o) PROVE f = o
    <3>1. o.state = o.gstin.state /\ o.pan # Unset
      BY <1>2, <2>8 DEF IsFilledIn
    <3>2. state = o.state /\ pan = o.pan
      BY <2>2, <2>3, <3>1
    <3> QED BY <2>5, <3>2 DEF Metadata
  <2> QED BY <2>4, <2>5, <2>6, <2>7, <2>8
<1> QED BY <1>1, <1>2

(* What a request is about to write. *)
LEMMA SaveFacts ==
    ASSUME SettingsInv
    PROVE  /\ metadata \in Metadata /\ said \in Metadata
           /\ \A s \in Saver : saver[s] # Unset => saver[s] \in Saves /\ saver[s].next \in Metadata /\ saver[s].changes \in Changes
           /\ Unset \notin Saves
  BY UnsetAssumption DEF SettingsInv, SettingsTypeOK, Saves

(* Nothing is set. *)
LEMMA SettingsInitInv == SettingsInit => SettingsInv
<1> SUFFICES ASSUME SettingsInit PROVE SettingsInv
  OBVIOUS
<1>1. metadata \in Metadata /\ metadata.gstin = Unset
  BY DEF SettingsInit, Metadata
<1> QED BY <1>1 DEF SettingsInit, SettingsInv, SettingsTypeOK, IsFilledIn, SettingsInTurn

(* A request reads the object, and has what it will write in hand. *)
LEMMA Reading ==
    ASSUME SettingsInv, NEW s \in Saver, NEW next \in Metadata, NEW changes \in Changes, ReadSettings(s, next, changes),
           IsFilledIn(next), next = FilledIn(Merged(metadata, changes))
    PROVE  SettingsInv'
<1>1. [next |-> next, changes |-> changes] \in Saves
  BY DEF Saves
<1>2. PICK new \in Saves : new = [next |-> next, changes |-> changes]
  BY <1>1
<1>3. new.next = next /\ new.changes = changes
  BY <1>2
<1>4. saver' = [saver EXCEPT ![s] = new] /\ UNCHANGED <<metadata, said>> /\ ~together /\ saver[s] = Unset
  BY <1>2 DEF ReadSettings
<1>5. together' \in BOOLEAN /\ (~together' => \A o \in Saver : saver[o] = Unset)
  BY DEF ReadSettings
<1>6. saver'[s] = new /\ \A o \in Saver : o # s => saver'[o] = saver[o]
  BY <1>4 DEF SettingsInv, SettingsTypeOK
<1>7. SettingsTypeOK'
  BY <1>4, <1>5 DEF SettingsInv, SettingsTypeOK
<1>8. \A o \in Saver : saver'[o] # Unset => IsFilledIn(saver'[o].next)
  BY <1>3, <1>6 DEF SettingsInv
<1>9. IsFilledIn(metadata')
  BY <1>4 DEF SettingsInv
<1>10. ASSUME ~together' PROVE SettingsInTurn'
  <2>1. \A o \in Saver : saver'[o] # Unset => o = s
    BY <1>5, <1>6, <1>10
  <2>2. metadata = said
    BY <1>4 DEF SettingsInv, SettingsInTurn
  <2> QED BY <1>3, <1>4, <1>6, <2>1, <2>2 DEF SettingsInTurn
<1> QED BY <1>7, <1>8, <1>9, <1>10 DEF SettingsInv, IsFilledIn

(* Writing the object, or not. *)
LEMMA SavingStep == ASSUME SettingsInv, NEW s \in Saver, SaveSettings(s) PROVE SettingsInv'
<1>1. saver[s] # Unset /\ metadata' = saver[s].next /\ said' = FilledIn(Merged(said, saver[s].changes))
      /\ saver' = [saver EXCEPT ![s] = Unset] /\ UNCHANGED together
  BY DEF SaveSettings
<1>2. saver[s].next \in Metadata /\ saver[s].changes \in Changes /\ said \in Metadata /\ IsFilledIn(saver[s].next)
  BY <1>1, SaveFacts DEF SettingsInv
<1>3. metadata' \in Metadata /\ said' \in Metadata
  <2>1. Merged(said, saver[s].changes) \in Metadata
    BY <1>2, MergedAre
  <2> QED BY <1>1, <1>2, <2>1, FilledAre
<1>4. \A o \in Saver : saver'[o] # Unset => saver'[o] = saver[o] /\ saver[o] # Unset /\ o # s
  BY <1>1 DEF SettingsInv, SettingsTypeOK
<1>5. SettingsTypeOK'
  BY <1>1, <1>3 DEF SettingsInv, SettingsTypeOK
<1>6. IsFilledIn(metadata')
  BY <1>1, <1>2
<1>7. \A o \in Saver : saver'[o] # Unset => IsFilledIn(saver'[o].next)
  BY <1>4 DEF SettingsInv
<1>8. ASSUME ~together PROVE SettingsInTurn'
  <2>1. \A o \in Saver : saver'[o] = Unset
    BY <1>1, <1>4, <1>8 DEF SettingsInv, SettingsInTurn
  <2>2. metadata' = said'
    BY <1>1, <1>8 DEF SettingsInv, SettingsInTurn
  <2> QED BY <2>1, <2>2 DEF SettingsInTurn
<1> QED BY <1>1, <1>5, <1>6, <1>7, <1>8 DEF SettingsInv, IsFilledIn

ProfileChange(g, st, p) == [Untouched EXCEPT !.gstin = g, !.state = st, !.pan = p]

(* The changes of a tax profile. *)
LEMMA ProfileChangesAre == \A changes \in ProfileChanges : changes \in Changes
<1> DEFINE Gs == Gstin \cup {Unset, Left} Ss == State \cup {Unset, Left} Ps == Pan \cup {Unset, Left}
<1>1. ProfileChanges = {ProfileChange(g, st, p) : g \in Gs, st \in Ss, p \in Ps}
  BY DEF ProfileChanges, ProfileChange
<1>2. ASSUME NEW g \in Gs, NEW st \in Ss, NEW p \in Ps PROVE ProfileChange(g, st, p) \in Changes
  <2>1. PICK changes : changes = [Untouched EXCEPT !.gstin = g, !.state = st, !.pan = p]
    OBVIOUS
  <2>2. changes = [locale |-> Left, gstin |-> g, state |-> st, pan |-> p]
    BY <2>1 DEF Untouched
  <2> QED BY <2>1, <2>2 DEF ProfileChange, Changes
<1> HIDE DEF Gs, Ss, Ps
<1> QED BY <1>1, <1>2

(* Every step keeps the invariant of settings, *)
LEMMA SettingsNextInv == ASSUME SettingsInv, [SettingsNext]_settingsVars PROVE SettingsInv'
<1>1. ASSUME NEW s \in Saver, NEW v \in {Unset, "hi"}, UpdateSettings(s, v) PROVE SettingsInv'
  <2>1. PICK changes \in Changes : changes = [locale |-> v, gstin |-> Left, state |-> Left, pan |-> Left]
    <3>1. [locale |-> v, gstin |-> Left, state |-> Left, pan |-> Left] \in Changes
      BY DEF Changes
    <3> QED BY <3>1
  <2>2. changes = [Untouched EXCEPT !.locale = v] /\ changes.gstin = Left /\ changes.state = Left /\ changes.pan = Left
    BY <2>1 DEF Untouched
  <2>3. PICK next \in Metadata : next = Merged(metadata, changes)
    BY SaveFacts, MergedAre
  <2>4. next.gstin = metadata.gstin /\ next.state = metadata.state /\ next.pan = metadata.pan
    BY <2>2, <2>3, SaveFacts, MergedAre
  <2>5. IsFilledIn(next)
    BY <2>4 DEF SettingsInv, IsFilledIn
  <2>6. next = FilledIn(Merged(metadata, changes))
    BY <2>3, <2>5, FilledAre
  <2>7. ReadSettings(s, next, changes)
    BY <1>1, <2>2, <2>3 DEF UpdateSettings
  <2> QED BY <2>5, <2>6, <2>7, Reading
<1>2. ASSUME NEW s \in Saver, NEW changes \in ProfileChanges, UpdateTaxProfile(s, changes) PROVE SettingsInv'
  <2>1. changes \in Changes
    BY ProfileChangesAre
  <2>2. PICK merged \in Metadata : merged = Merged(metadata, changes)
    BY <2>1, SaveFacts, MergedAre
  <2>3. PICK next \in Metadata : next = FilledIn(merged)
    BY FilledAre
  <2>4. ReadSettings(s, next, changes) /\ (next.gstin # Unset => next.state = next.gstin.state)
    BY <1>2, <2>2, <2>3 DEF UpdateTaxProfile
  <2>5. IsFilledIn(next)
    BY <2>3, <2>4, FilledAre DEF IsFilledIn
  <2> QED BY <2>1, <2>2, <2>3, <2>4, <2>5, Reading
<1>3. ASSUME NEW s \in Saver, RollBack(s) PROVE SettingsInv'
  <2>1. saver' = [saver EXCEPT ![s] = Unset] /\ UNCHANGED <<metadata, said, together>>
    BY <1>3 DEF RollBack
  <2>2. \A o \in Saver : saver'[o] # Unset => saver'[o] = saver[o] /\ saver[o] # Unset
    BY <2>1 DEF SettingsInv, SettingsTypeOK
  <2>3. SettingsTypeOK'
    BY <2>1 DEF SettingsInv, SettingsTypeOK
  <2>4. IsFilledIn(metadata)' /\ \A o \in Saver : saver'[o] # Unset => IsFilledIn(saver'[o].next)
    BY <2>1, <2>2 DEF SettingsInv, IsFilledIn
  <2>5. SettingsInTurn => SettingsInTurn'
    BY <2>1, <2>2 DEF SettingsInTurn
  <2> QED BY <2>1, <2>3, <2>4, <2>5 DEF SettingsInv, IsFilledIn
<1>4. CASE UNCHANGED settingsVars
  <2>1. UNCHANGED <<metadata, saver, said, together>>
    BY <1>4 DEF settingsVars
  <2> QED BY <2>1 DEF SettingsInv, SettingsTypeOK, IsFilledIn, SettingsInTurn
<1> QED BY <1>1, <1>2, <1>3, <1>4, SavingStep DEF SettingsNext

(* which is more than was promised. *)
LEMMA SettingsTell == ASSUME SettingsInv PROVE SettingsTypeOK /\ ProfileOfOneState /\ SettingsKeptInTurn
  BY DEF SettingsInv, IsFilledIn, SettingsInTurn, ProfileOfOneState, SettingsKeptInTurn

-----------------------------------------------------------------------------
(* Keys of Razorpay (Gateway). *)

(* A payment whose account has been left alone: the keys are the ones it was begun with, they can be read, and once it
   is at Razorpay they work. *)
KeysOf(row) == gateway # NoKey /\ gateway.readable /\ gateway.key = row.key /\ (row.at # "start" => row.key \in valid)
KeptHold(p) == payee[p] # NoKey /\ KeysOf(payee[p])
GatewayInv == GatewayTypeOK /\ \A p \in kept : KeptHold(p)

(* No keys, no payments. *)
LEMMA GatewayInitInv == GatewayInit => GatewayInv
  BY DEF GatewayInit, GatewayInv, GatewayTypeOK

(* The keys of a row. *)
LEMMA KeysFacts ==
    ASSUME GatewayInv
    PROVE  /\ gateway # NoKey => gateway \in GatewayRows /\ gateway.key \in RazorpayKey
           /\ \A o \in Keeper : keeper[o] # NoKey => keeper[o] \in KeeperHas /\ keeper[o].key \in RazorpayKey
                                                     /\ keeper[o].hook \in BOOLEAN /\ keeper[o].on \in BOOLEAN
           /\ \A p \in Payee : payee[p] # NoKey => payee[p] \in PayeeRows /\ payee[p].key \in RazorpayKey
           /\ NoKey \notin GatewayRows /\ NoKey \notin KeeperHas /\ NoKey \notin PayeeRows /\ NoKey \notin RazorpayKey
  BY GatewayAssumption DEF GatewayInv, GatewayTypeOK, GatewayRows, KeeperHas, PayeeRows

(* A request has something else in hand. *)
LEMMA KeeperMoves ==
    ASSUME GatewayInv, NEW o \in Keeper, NEW new \in KeeperHas \cup {NoKey}, keeper' = [keeper EXCEPT ![o] = new],
           UNCHANGED <<gateway, valid, payee, kept>>
    PROVE  GatewayInv'
  BY DEF GatewayInv, GatewayTypeOK, KeptHold, KeysOf

(* The row of keys changes, and what is kept is kept by the new row. *)
LEMMA RowChanges ==
    ASSUME GatewayInv, NEW row \in GatewayRows \cup {NoKey}, gateway' = row, keeper' \in [Keeper -> KeeperHas \cup {NoKey}],
           UNCHANGED <<valid, payee>>, kept' \subseteq kept,
           kept' # {} => row # NoKey /\ row.readable /\ row.key = gateway.key
    PROVE  GatewayInv'
  BY DEF GatewayInv, GatewayTypeOK, KeptHold, KeysOf

(* A payment goes on. *)
LEMMA PayeeMoves ==
    ASSUME GatewayInv, NEW p \in Payee, NEW row \in PayeeRows, payee' = [payee EXCEPT ![p] = row],
           UNCHANGED <<gateway, keeper, valid>>, kept' = kept \/ kept' = kept \cup {p},
           p \in kept' => KeysOf(row)
    PROVE  GatewayInv'
<1>1. \A q \in Payee : q # p => payee'[q] = payee[q]
  BY DEF GatewayInv, GatewayTypeOK
<1>2. payee'[p] = row /\ row # NoKey
  BY KeysFacts DEF GatewayInv, GatewayTypeOK
<1>3. GatewayTypeOK'
  BY DEF GatewayInv, GatewayTypeOK
<1>4. ASSUME NEW q \in kept' PROVE KeptHold(q)'
  <2>1. CASE q = p
    BY <1>2, <1>4, <2>1 DEF KeptHold, KeysOf
  <2>2. CASE q # p
    BY <1>1, <1>3, <1>4, <2>2 DEF KeptHold, KeysOf, GatewayInv, GatewayTypeOK
  <2> QED BY <2>1, <2>2
<1> QED BY <1>3, <1>4 DEF GatewayInv

(* Every step keeps the invariant of keys and payments, *)
LEMMA GatewayNextInv == ASSUME GatewayInv, [GatewayNext]_gatewayVars PROVE GatewayInv'
<1> USE KeysFacts
<1>1. ASSUME NEW o \in Keeper, NEW k \in RazorpayKey, NEW hook \in BOOLEAN, NEW on \in BOOLEAN, AskRazorpay(o, k, hook, on)
      PROVE  GatewayInv'
  <2>1. [op |-> "save", key |-> k, hook |-> hook, on |-> on] \in KeeperHas
    BY DEF KeeperHas
  <2>2. CASE UNCHANGED keeper
    BY <1>1, <2>2 DEF AskRazorpay, GatewayInv, GatewayTypeOK, KeptHold, KeysOf
  <2>3. CASE keeper' = [keeper EXCEPT ![o] = [op |-> "save", key |-> k, hook |-> hook, on |-> on]]
    BY <1>1, <2>1, <2>3, KeeperMoves DEF AskRazorpay
  <2> QED BY <1>1, <2>2, <2>3 DEF AskRazorpay, Receives
<1>2. ASSUME NEW o \in Keeper, NEW on \in BOOLEAN, FindGateway(o, on) PROVE GatewayInv'
  <2>1. PICK no \in BOOLEAN : no = FALSE
    OBVIOUS
  <2>2. [op |-> "switch", key |-> gateway.key, hook |-> no, on |-> on] \in KeeperHas
    BY <1>2 DEF KeeperHas, FindGateway
  <2> QED BY <1>2, <2>1, <2>2, KeeperMoves DEF FindGateway, Receives
<1>3. ASSUME NEW o \in Keeper, SaveKeys(o) PROVE GatewayInv'
  <2>1. keeper[o] # NoKey
    BY <1>3 DEF SaveKeys, Serves
  <2>2. [key |-> keeper[o].key, hook |-> keeper[o].hook, enabled |-> keeper[o].on, readable |-> TRUE] \in GatewayRows
    BY <2>1 DEF GatewayRows
  <2>3. PICK row \in GatewayRows :
           row = [key |-> keeper[o].key, hook |-> keeper[o].hook, enabled |-> keeper[o].on, readable |-> TRUE]
    BY <2>2
  <2>4. row.readable /\ row # NoKey
    BY <2>3
  <2>5. /\ gateway' = row /\ LetGo(o) /\ UNCHANGED <<valid, payee>>
        /\ kept' = IF gateway # NoKey /\ gateway.key = row.key /\ (gateway.hook => row.hook) THEN kept ELSE {}
    BY <1>3, <2>3 DEF SaveKeys
  <2>6. kept' \subseteq kept /\ (kept' # {} => row.key = gateway.key)
    BY <2>5
  <2>7. keeper' \in [Keeper -> KeeperHas \cup {NoKey}]
    BY <2>5 DEF LetGo, GatewayInv, GatewayTypeOK
  <2> QED BY <2>4, <2>5, <2>6, <2>7, RowChanges
<1>4. ASSUME NEW o \in Keeper, SetEnabled(o) PROVE GatewayInv'
  <2>1. keeper' \in [Keeper -> KeeperHas \cup {NoKey}]
    BY <1>4 DEF SetEnabled, LetGo, GatewayInv, GatewayTypeOK
  <2>2. CASE gateway = NoKey
    <3>1. gateway' = NoKey /\ UNCHANGED <<valid, payee, kept>> /\ kept = {}
      BY <1>4, <2>2 DEF SetEnabled, GatewayInv, KeptHold, KeysOf
    <3> QED BY <2>1, <3>1, RowChanges
  <2>3. CASE gateway # NoKey
    <3>1. PICK on \in BOOLEAN : on = keeper[o].on
      BY <1>4 DEF SetEnabled, Serves
    <3>2. [gateway EXCEPT !.enabled = on] \in GatewayRows
      BY <2>3 DEF GatewayRows
    <3>3. PICK row \in GatewayRows : row = [gateway EXCEPT !.enabled = on]
      BY <3>2
    <3>4. row.readable = gateway.readable /\ row.key = gateway.key
      BY <2>3, <3>3 DEF GatewayRows
    <3>5. gateway' = row /\ UNCHANGED <<valid, payee, kept>>
      BY <1>4, <2>3, <3>1, <3>3 DEF SetEnabled
    <3>6. kept # {} => gateway.readable
      BY DEF GatewayInv, KeptHold, KeysOf
    <3> QED BY <2>1, <3>4, <3>5, <3>6, RowChanges
  <2> QED BY <2>2, <2>3
<1>5. ASSUME RemoveKeys PROVE GatewayInv'
  BY <1>5 DEF RemoveKeys, GatewayInv, GatewayTypeOK
<1>6. ASSUME EncryptionKeyChanges PROVE GatewayInv'
  <2>1. gateway' \in GatewayRows
    BY <1>6 DEF EncryptionKeyChanges, GatewayRows
  <2> QED BY <1>6, <2>1 DEF EncryptionKeyChanges, GatewayInv, GatewayTypeOK
<1>7. ASSUME NEW k \in RazorpayKey, Regenerate(k) PROVE GatewayInv'
  <2>1. valid' = valid \ {k} /\ kept' = {p \in kept : payee[p].key # k} /\ UNCHANGED <<gateway, keeper, payee>>
    BY <1>7 DEF Regenerate
  <2> QED BY <2>1 DEF GatewayInv, GatewayTypeOK, KeptHold, KeysOf
<1>8. ASSUME NEW p \in Payee, StartPayment(p) PROVE GatewayInv'
  <2>1. gateway # NoKey /\ gateway.readable /\ CredentialsFor(FALSE) = gateway.key
    BY <1>8 DEF StartPayment, CredentialsFor
  <2>2. [key |-> gateway.key, at |-> "start"] \in PayeeRows
    BY <2>1 DEF PayeeRows
  <2>3. PICK row \in PayeeRows : row = [key |-> gateway.key, at |-> "start"]
    BY <2>2
  <2>4. KeysOf(row)
    BY <2>1, <2>3 DEF KeysOf
  <2> QED BY <1>8, <2>1, <2>3, <2>4, PayeeMoves DEF StartPayment
<1>9. ASSUME NEW p \in Payee, NEW where \in {"open", "taken", "booked", "refunded"}, payee[p] # NoKey,
             payee' = [payee EXCEPT ![p].at = where], payee[p].at # "start" \/ payee[p].key \in valid,
             UNCHANGED <<gateway, keeper, valid, kept>>
      PROVE  GatewayInv'
  <2>1. PICK row \in PayeeRows : row.at = where /\ row.key = payee[p].key /\ row = [payee[p] EXCEPT !.at = where]
    BY <1>9 DEF PayeeRows
  <2>2. payee' = [payee EXCEPT ![p] = row]
    BY <1>9, <2>1
  <2>3. p \in kept => KeptHold(p)
    BY DEF GatewayInv
  <2>4. kept' = kept /\ UNCHANGED <<gateway, keeper, valid>>
    BY <1>9
  <2>5. p \in kept' => KeysOf(row)
    BY <1>9, <2>1, <2>3, <2>4 DEF KeptHold, KeysOf
  <2> QED BY <2>2, <2>4, <2>5, PayeeMoves
<1>10. ASSUME NEW p \in Payee, CreateRazorpayOrder(p) PROVE GatewayInv'
  <2>1. CASE CredentialsValid(payee[p].key)
    <3>1. payee' = [payee EXCEPT ![p].at = "open"] /\ payee[p] # NoKey /\ payee[p].key \in valid
          /\ UNCHANGED <<gateway, keeper, valid, kept>>
      BY <1>10, <2>1 DEF CreateRazorpayOrder, CredentialsValid, PayeeAt
    <3> QED BY <1>9, <3>1
  <2>2. CASE ~CredentialsValid(payee[p].key)
    BY <1>10, <2>2 DEF CreateRazorpayOrder, GatewayInv, GatewayTypeOK, KeptHold, KeysOf
  <2> QED BY <2>1, <2>2
<1>11. ASSUME NEW p \in Payee, PayAtRazorpay(p) \/ Verify(p) \/ HandleWebhook(p) \/ RefundAtProvider(p) PROVE GatewayInv'
  <2>1. UNCHANGED <<gateway, keeper, valid, kept>> /\ payee[p] # NoKey /\ payee[p].at # "start"
    BY <1>11 DEF PayAtRazorpay, Verify, HandleWebhook, RefundAtProvider, PayeeAt
  <2>2. PICK where \in {"taken", "booked", "refunded"} : payee' = [payee EXCEPT ![p].at = where]
    BY <1>11 DEF PayAtRazorpay, Verify, HandleWebhook, RefundAtProvider
  <2> QED BY <1>9, <2>1, <2>2
<1>12. CASE UNCHANGED gatewayVars
  BY <1>12 DEF gatewayVars, GatewayInv, GatewayTypeOK, KeptHold, KeysOf
<1> QED BY <1>1, <1>2, <1>3, <1>4, <1>5, <1>6, <1>7, <1>8, <1>10, <1>11, <1>12 DEF GatewayNext

(* which is more than was promised. *)
LEMMA GatewayTells == ASSUME GatewayInv PROVE GatewayTypeOK /\ SwitchingOffStrandsNothing
<1>1. ASSUME NEW p \in kept PROVE (PayeeAt(p, "taken") => VerifiedBy(p)) /\ (PayeeAt(p, "booked") => RefundReaches(p))
  <2>1. KeptHold(p)
    BY <1>1 DEF GatewayInv
  <2>2. CredentialsFor(TRUE) = payee[p].key /\ payee[p].key # NoKey
    BY <2>1, KeysFacts DEF CredentialsFor, KeptHold, KeysOf
  <2>3. PayeeAt(p, "booked") => payee[p].key \in valid
    BY <2>1 DEF PayeeAt, KeptHold, KeysOf
  <2> QED BY <2>2, <2>3 DEF VerifiedBy, RefundReaches, CredentialsValid, SameAccount
<1> QED BY <1>1 DEF GatewayInv, SwitchingOffStrandsNothing

-----------------------------------------------------------------------------
(* Tenants and the seed (Tenants). *)

FirmsFit == \A f \in Firms : firm[f].grants \subseteq GrantsOf(Perm)
SeedFits ==
    /\ \A f \in seeder.listed : firm[f] # NoFirm
    /\ seeder.at \in Phases =>
          /\ seeder.now \in seeder.listed
          /\ \A f \in seeder.listed \ (seeder.todo \cup {seeder.now}) : There(f) => Whole(f)
          /\ seeder.at # "perms" /\ There(seeder.now) => firm[seeder.now].perms = Perm
          /\ seeder.at = "grants" /\ There(seeder.now) => firm[seeder.now].roles = SystemRole
    /\ seeder.at = "done" => \A f \in seeder.listed : There(f) => Whole(f)
EntryTrue(f) == There(f) /\ entry[f] = [slug |-> firm[f].slug, status |-> firm[f].status]
Dropping(f) == \E d \in Director : director[d] # NoFirm /\ director[d].at = "drop" /\ director[d].firm = f
FillsFit == \A d \in Director : director[d] # NoFirm /\ director[d].at = "fill" => director[d].read # NoFirm
CalmFits ==
    calm => /\ seeder.at = "off"
            /\ \A d, c \in Director : director[d] # NoFirm /\ director[c] # NoFirm => d = c
            /\ \A d \in Director : director[d] # NoFirm =>
                  /\ director[d].op \in {"create", "read", "update", "delete"}
                  /\ director[d].at = "fill" => director[d].read = firm[director[d].firm]
            /\ \A f \in Firm : entry[f] # NoFirm => EntryTrue(f) \/ Dropping(f)
TenantsInv == TenantsTypeOK /\ FirmsFit /\ SeedFits /\ FillsFit /\ CalmFits

(* The rows of requests, tenants and the seed. *)
LEMMA RequestFacts ==
    ASSUME TenantsInv
    PROVE  /\ \A d \in Director : director[d] # NoFirm => director[d] \in Directs /\ director[d].firm \in Firm
           /\ \A f \in Firm : There(f) <=> firm[f] \in FirmRows
           /\ NoFirm \notin Directs /\ NoFirm \notin FirmRows /\ NoFirm \notin CachedRows /\ Gone \notin FirmRows
           /\ Gone # NoFirm /\ NoFirm \notin Firm
           /\ seeder \in Seeds /\ seeder.now \in Firm \cup {NoFirm} /\ seeder.todo \subseteq Firm /\ seeder.listed \subseteq Firm
  BY NoFirmAssumption, TenantsAssumption DEF TenantsInv, TenantsTypeOK, Directs, Makings, Changings, Others, There, Seeds

(* The grants of the older release are among those of this one. *)
LEMMA GrantsAre == GrantsOf(OldPerm) \subseteq GrantsOf(Perm) /\ GrantsOf(Perm) \subseteq SystemRole \X Perm
<1>1. \A role \in SystemRole : Granted(role, OldPerm) \subseteq Granted(role, Perm) /\ Granted(role, Perm) \subseteq Perm
  BY TenantsAssumption DEF SystemRole, Granted
<1>2. \A perms : GrantsOf(perms) = UNION {{role} \X Granted(role, perms) : role \in SystemRole}
  BY DEF GrantsOf
<1> QED BY <1>1, <1>2

(* A tenant of the platform's making, *)
LEMMA ProvisionedAre ==
    ASSUME NEW s \in Slug, NEW status \in Status
    PROVE  /\ Provisioned(s, status, Perm) \in FirmRows /\ Provisioned(s, status, OldPerm) \in FirmRows
           /\ Provisioned(s, status, Perm).grants \subseteq GrantsOf(Perm)
           /\ Provisioned(s, status, OldPerm).grants \subseteq GrantsOf(Perm)
<1>1. Perm \in SUBSET Perm /\ OldPerm \in SUBSET Perm /\ SystemRole \in SUBSET SystemRole
      /\ GrantsOf(Perm) \in SUBSET (SystemRole \X Perm) /\ GrantsOf(OldPerm) \in SUBSET (SystemRole \X Perm)
  BY GrantsAre, TenantsAssumption
<1>2. Provisioned(s, status, Perm) \in FirmRows /\ Provisioned(s, status, OldPerm) \in FirmRows
  BY <1>1 DEF Provisioned, FirmRows
<1>3. Provisioned(s, status, Perm).grants = GrantsOf(Perm) /\ Provisioned(s, status, OldPerm).grants = GrantsOf(OldPerm)
  BY DEF Provisioned
<1> QED BY <1>2, <1>3, GrantsAre

(* and a bare one. *)
LEMMA BareAre ==
    ASSUME NEW s \in Slug, NEW status \in Status
    PROVE  Bare(s, status) \in FirmRows /\ Bare(s, status).grants = {} /\ Bare(s, status).slug = s /\ Bare(s, status).status = status
  BY DEF Bare, FirmRows

(* There is a tenant of the older release, or none. *)
LEMMA TenantsInitInv == TenantsInit => TenantsInv
<1> SUFFICES ASSUME TenantsInit PROVE TenantsInv
  OBVIOUS
<1> DEFINE old == Provisioned(Development, "ACTIVE", OldPerm) ended == Provisioned(Development, "CANCELLED", OldPerm)
<1>1. firm \in [Firm -> {NoFirm, old, ended}]
  BY DEF TenantsInit
<1>2. {old, ended} \subseteq FirmRows /\ old.grants \subseteq GrantsOf(Perm) /\ ended.grants \subseteq GrantsOf(Perm)
  <2>1. Development \in Slug /\ "ACTIVE" \in Status /\ "CANCELLED" \in Status
    BY TenantsAssumption DEF Status
  <2> QED BY <2>1, ProvisionedAre
<1> HIDE DEF old, ended
<1>3. firm \in [Firm -> FirmRows \cup {NoFirm, Gone}]
  BY <1>1, <1>2
<1>4. \A f \in Firm : There(f) => firm[f] \in {old, ended}
  BY <1>1 DEF There
<1>5. FirmsFit
  BY <1>2, <1>4 DEF FirmsFit, Firms
<1>6. home \in [Email -> Firms \cup {NoFirm, PlatformSlug}]
  BY DEF TenantsInit
<1>7. seeder = [at |-> "off", now |-> NoFirm, todo |-> {}, listed |-> {}] /\ seeder \in Seeds
  BY DEF TenantsInit, Seeds
<1>8. TenantsTypeOK
  BY <1>3, <1>6, <1>7 DEF TenantsTypeOK, TenantsInit
<1>9. SeedFits /\ FillsFit /\ CalmFits
  BY <1>7 DEF SeedFits, FillsFit, CalmFits, TenantsInit, Phases
<1> QED BY <1>5, <1>8, <1>9 DEF TenantsInv

(* What a request may be about while calm. *)
InCalm(new) ==
    /\ new.op \in {"create", "read", "update", "delete"}
    /\ new.at = "fill" => new.read = firm[new.firm]
(* A request goes on or ends, and nothing but the cache has changed. *)
LEMMA DirectorMoves ==
    ASSUME TenantsInv, NEW d \in Director, NEW new \in Directs \cup {NoFirm}, director' = [director EXCEPT ![d] = new],
           UNCHANGED <<firm, home, seeder>>, calm' \in BOOLEAN, calm' => calm,
           entry' \in [Firm -> CachedRows \cup {NoFirm}],
           new # NoFirm => (new.at = "fill" => new.read # NoFirm),
           calm' /\ new # NoFirm => InCalm(new),
           calm' => director[d] # NoFirm \/ \A o \in Director : director[o] = NoFirm,
           calm' => \A f \in Firm : entry'[f] # NoFirm => EntryTrue(f)' \/ Dropping(f)'
    PROVE  TenantsInv'
<1>1. director'[d] = new /\ \A o \in Director : o # d => director'[o] = director[o]
  BY DEF TenantsInv, TenantsTypeOK
<1>2. TenantsTypeOK'
  BY DEF TenantsInv, TenantsTypeOK, Firms, There
<1>3. FirmsFit' /\ SeedFits'
  BY DEF TenantsInv, FirmsFit, SeedFits, Firms, There, Whole
<1>4. FillsFit'
  BY <1>1 DEF TenantsInv, FillsFit
<1>5. CalmFits'
  <2> SUFFICES ASSUME calm' PROVE CalmFits'
    BY DEF CalmFits
  <2>1. calm /\ seeder'.at = "off"
    BY DEF TenantsInv, CalmFits
  <2>2. \A c, o \in Director : director'[c] # NoFirm /\ director'[o] # NoFirm => c = o
    BY <1>1, <2>1 DEF TenantsInv, CalmFits
  <2>3. \A o \in Director : director'[o] # NoFirm => o = d
    BY <1>1, <2>1 DEF TenantsInv, CalmFits
  <2>4. \A o \in Director : director'[o] # NoFirm =>
            /\ director'[o].op \in {"create", "read", "update", "delete"}
            /\ director'[o].at = "fill" => director'[o].read = firm'[director'[o].firm]
    BY <1>1, <2>3 DEF InCalm
  <2> QED BY <2>1, <2>2, <2>4 DEF CalmFits
<1> QED BY <1>2, <1>3, <1>4, <1>5 DEF TenantsInv

(* The same, when the cache stays and the request is not about to drop its entry. *)
LEMMA DirectorGoes ==
    ASSUME TenantsInv, NEW d \in Director, NEW new \in Directs \cup {NoFirm}, director' = [director EXCEPT ![d] = new],
           UNCHANGED <<firm, home, seeder, entry>>, calm' \in BOOLEAN, calm' => calm,
           new # NoFirm => (new.at = "fill" => new.read # NoFirm),
           calm' /\ new # NoFirm => InCalm(new),
           director[d] = NoFirm \/ director[d].at # "drop",
           calm' => director[d] # NoFirm \/ \A o \in Director : director[o] = NoFirm
    PROVE  TenantsInv'
<1>1. director'[d] = new /\ \A o \in Director : o # d => director'[o] = director[o]
  BY DEF TenantsInv, TenantsTypeOK
<1>2. entry' \in [Firm -> CachedRows \cup {NoFirm}]
  BY DEF TenantsInv, TenantsTypeOK
<1>3. ASSUME calm', NEW f \in Firm, entry'[f] # NoFirm PROVE EntryTrue(f)' \/ Dropping(f)'
  <2>1. EntryTrue(f) \/ Dropping(f)
    BY <1>3 DEF TenantsInv, CalmFits
  <2>2. EntryTrue(f) => EntryTrue(f)'
    BY DEF EntryTrue, There
  <2>3. Dropping(f) => Dropping(f)'
    BY <1>1 DEF Dropping
  <2> QED BY <2>1, <2>2, <2>3
<1> QED BY <1>2, <1>3, DirectorMoves

(* A request begins, *)
LEMMA BeginStep ==
    ASSUME TenantsInv, NEW d \in Director, NEW request \in Directs, request.at = "look", Begin(d, request)
    PROVE  TenantsInv'
<1>1. director[d] = NoFirm /\ director' = [director EXCEPT ![d] = request] /\ UNCHANGED <<firm, home, entry, seeder>>
  BY DEF Begin
<1>2. calm' \in BOOLEAN /\ (calm' => calm)
      /\ (calm' => (\A o \in Director : director[o] = NoFirm) /\ request.op \in {"create", "read", "update", "delete"})
  BY DEF Begin, TenantsInv, TenantsTypeOK
<1>3. calm' => InCalm(request)
  BY <1>2 DEF InCalm
<1> QED BY <1>1, <1>2, <1>3, DirectorGoes

(* of each kind. *)
LEMMA StartsStep ==
    ASSUME TenantsInv, NEW d \in Director,
           \/ StartCreate(d) \/ StartCreateOnly(d) \/ StartCreateWithAdmin(d) \/ StartCreateAdmin(d) \/ StartRead(d)
           \/ StartUpdate(d) \/ StartPlatformUpdate(d) \/ StartDelete(d)
    PROVE  TenantsInv'
<1>1. ASSUME NEW op, NEW f \in Firm, NEW s \in Slug \cup {NoFirm}, NEW e \in Email \cup {NoFirm}, NEW status \in Status \cup {NoFirm},
             \/ op \in {"create", "only", "withadmin"} /\ s \in Slug /\ status \in Status
             \/ op \in {"update", "platform"} /\ e = NoFirm /\ status \in Status
             \/ op \in {"admin", "read", "delete"} /\ s = NoFirm /\ status = NoFirm,
             Begin(d, Ask(op, f, s, e, status))
      PROVE  TenantsInv'
  <2>1. Ask(op, f, s, e, status) \in Directs /\ Ask(op, f, s, e, status).at = "look"
    BY <1>1 DEF Ask, Directs, Makings, Changings, Others, Stages
  <2> QED BY <1>1, <2>1, BeginStep
<1>2. NewFirms \subseteq Firm /\ Firms \subseteq Firm /\ "ACTIVE" \in Status
  BY DEF NewFirms, Firms, Status
<1>3. CASE StartCreate(d)
  BY <1>1, <1>2, <1>3 DEF StartCreate
<1>4. CASE StartCreateOnly(d)
  BY <1>1, <1>2, <1>4 DEF StartCreateOnly
<1>5. CASE StartCreateWithAdmin(d)
  BY <1>1, <1>2, <1>5 DEF StartCreateWithAdmin
<1>6. CASE StartCreateAdmin(d)
  BY <1>1, <1>2, <1>6 DEF StartCreateAdmin
<1>7. CASE StartRead(d)
  BY <1>1, <1>2, <1>7 DEF StartRead
<1>8. CASE StartUpdate(d)
  BY <1>1, <1>2, <1>8 DEF StartUpdate
<1>9. CASE StartPlatformUpdate(d)
  BY <1>1, <1>2, <1>9 DEF StartPlatformUpdate
<1>10. CASE StartDelete(d)
  BY <1>1, <1>2, <1>10 DEF StartDelete
<1> QED BY <1>3, <1>4, <1>5, <1>6, <1>7, <1>8, <1>9, <1>10

PutAt(r, at) == [r EXCEPT !.at = at]
PutRead(r, row) == [r EXCEPT !.at = "fill", !.read = row]

(* A request that goes on, *)
LEMMA MovedTo ==
    ASSUME NEW r \in Directs, NEW at \in Stages
    PROVE  /\ PutAt(r, at) \in Directs /\ PutAt(r, at).at = at /\ PutAt(r, at).op = r.op
           /\ PutAt(r, at).firm = r.firm /\ PutAt(r, at).read = r.read
<1>1. CASE r \in Makings
  BY <1>1 DEF PutAt, Directs, Makings
<1>2. CASE r \in Changings
  BY <1>2 DEF PutAt, Directs, Changings
<1>3. CASE r \in Others
  BY <1>3 DEF PutAt, Directs, Others
<1> QED BY <1>1, <1>2, <1>3 DEF Directs

(* and one that has read a row. *)
LEMMA MovedWith ==
    ASSUME NEW r \in Directs, NEW row \in FirmRows
    PROVE  /\ PutRead(r, row) \in Directs /\ PutRead(r, row).at = "fill" /\ PutRead(r, row).op = r.op
           /\ PutRead(r, row).firm = r.firm /\ PutRead(r, row).read = row
<1> "fill" \in Stages
  BY DEF Stages
<1>1. CASE r \in Makings
  BY <1>1 DEF PutRead, Directs, Makings
<1>2. CASE r \in Changings
  BY <1>2 DEF PutRead, Directs, Changings
<1>3. CASE r \in Others
  BY <1>3 DEF PutRead, Directs, Others
<1> QED BY <1>1, <1>2, <1>3 DEF Directs

(* What a request finds before it writes. *)
LEMMA Finds ==
    ASSUME TenantsInv, NEW d \in Director, director[d] # NoFirm, director[d].at # "drop",
           UNCHANGED <<firm, home, seeder, entry>>, calm' \in BOOLEAN, calm' => calm,
           Ends(d) \/ Goes(d, "write") \/ Goes(d, "check")
    PROVE  TenantsInv'
<1>1. director[d] \in Directs
  BY RequestFacts
<1>2. CASE Ends(d)
  BY <1>2, DirectorGoes DEF Ends
<1>3. ASSUME NEW at \in {"write", "check"}, Goes(d, at) PROVE TenantsInv'
  <2>1. PICK new \in Directs : new = PutAt(director[d], at) /\ new.at = at /\ new.op = director[d].op
    BY <1>1, MovedTo DEF Stages
  <2>2. director' = [director EXCEPT ![d] = new]
    BY <1>3, <2>1 DEF Goes, PutAt
  <2>3. calm' => InCalm(new)
    BY <2>1 DEF InCalm, TenantsInv, CalmFits
  <2> QED BY <2>1, <2>2, <2>3, DirectorGoes
<1> QED BY <1>2, <1>3

(* A request looks around, or compares its slug. *)
LEMMA LookStep ==
    ASSUME TenantsInv, NEW d \in Director, LookAround(d) \/ CheckSlug(d)
    PROVE  TenantsInv'
<1>1. director[d] # NoFirm /\ director[d].at # "drop" /\ UNCHANGED <<firm, home, seeder, entry, calm>>
  BY DEF LookAround, CheckSlug, DirectorAt, Apart
<1>2. Ends(d) \/ Goes(d, "write")
  BY DEF LookAround, CheckSlug
<1>3. calm' \in BOOLEAN
  BY <1>1 DEF TenantsInv, TenantsTypeOK
<1> QED BY <1>1, <1>2, <1>3, Finds

(* It finds the tenant in the cache or in the database, *)
LEMMA GetByIdStep == ASSUME TenantsInv, NEW d \in Director, GetById(d) PROVE TenantsInv'
<1>1. director[d] # NoFirm /\ director[d].at = "look" /\ director[d] \in Directs /\ director[d].firm \in Firm
      /\ UNCHANGED <<firm, home, entry, seeder>>
  BY RequestFacts DEF GetById, DirectorAt, Apart
<1>2. calm' \in BOOLEAN /\ (calm' => calm)
  BY DEF GetById, TenantsInv, TenantsTypeOK
<1>3. CASE Ends(d) \/ Goes(d, "check")
  BY <1>1, <1>2, <1>3, Finds
<1>4. CASE There(director[d].firm) /\ director' = [director EXCEPT ![d].at = "fill", ![d].read = firm[director[d].firm]]
  <2>1. PICK row \in FirmRows : row = firm[director[d].firm]
    BY <1>1, <1>4, RequestFacts
  <2>2. PICK new \in Directs : new = PutRead(director[d], row) /\ new.at = "fill" /\ new.read = row
                               /\ new.op = director[d].op /\ new.firm = director[d].firm
    BY <1>1, MovedWith
  <2>3. director' = [director EXCEPT ![d] = new]
    BY <1>4, <2>1, <2>2 DEF PutRead
  <2>4. calm' => InCalm(new)
    BY <1>1, <1>2, <2>1, <2>2 DEF InCalm, TenantsInv, CalmFits
  <2>5. new.read # NoFirm
    BY <2>2, RequestFacts
  <2> QED BY <1>1, <1>2, <2>3, <2>4, <2>5, DirectorGoes
<1> QED BY <1>3, <1>4 DEF GetById

(* and writes the cache, *)
LEMMA FillStep == ASSUME TenantsInv, NEW d \in Director, Fill(d) PROVE TenantsInv'
<1>1. director[d] # NoFirm /\ director[d].at = "fill" /\ director[d] \in Directs /\ UNCHANGED <<firm, home, seeder>>
  BY RequestFacts DEF Fill, DirectorAt, Apart
<1>2. PICK f \in Firm : f = director[d].firm
  BY <1>1, RequestFacts
<1>3. PICK row \in FirmRows : row = director[d].read
  BY <1>1 DEF TenantsInv, FillsFit, Directs, Makings, Changings, Others
<1>4. PICK cached \in CachedRows : cached = [slug |-> row.slug, status |-> row.status]
  BY DEF FirmRows, CachedRows
<1>5. PICK up \in BOOLEAN : entry' = (IF up THEN [entry EXCEPT ![f] = cached] ELSE entry) /\ calm' = (calm /\ up)
  BY <1>2, <1>3, <1>4 DEF Fill
<1>6. entry' \in [Firm -> CachedRows \cup {NoFirm}] /\ calm' \in BOOLEAN /\ (calm' => calm)
  BY <1>5 DEF TenantsInv, TenantsTypeOK
<1>7. ASSUME calm', NEW g \in Firm, entry'[g] # NoFirm PROVE EntryTrue(g)'
  <2>1. up /\ calm
    BY <1>5, <1>7
  <2>2. entry' = [entry EXCEPT ![f] = cached] /\ row = firm[f]
    BY <1>1, <1>2, <1>3, <1>5, <2>1 DEF TenantsInv, CalmFits
  <2>3. CASE g = f
    <3>1. entry'[f] = cached /\ There(f)
      BY <2>2, RequestFacts DEF TenantsInv, TenantsTypeOK
    <3> QED BY <1>1, <1>4, <2>2, <2>3, <3>1 DEF EntryTrue, There
  <2>4. CASE g # f
    <3>1. entry'[g] = entry[g] /\ ~Dropping(g)
      BY <1>1, <2>1, <2>2, <2>4 DEF TenantsInv, TenantsTypeOK, CalmFits, Dropping
    <3>2. EntryTrue(g)
      BY <1>7, <2>1, <3>1 DEF TenantsInv, CalmFits
    <3> QED BY <1>1, <3>1, <3>2 DEF EntryTrue, There
  <2> QED BY <2>3, <2>4
<1>8. CASE Ends(d)
  BY <1>1, <1>6, <1>7, <1>8, DirectorMoves DEF Ends
<1>9. CASE Goes(d, "check")
  <2>1. PICK new \in Directs : new = PutAt(director[d], "check") /\ new.at = "check" /\ new.op = director[d].op
    BY <1>1, MovedTo DEF Stages
  <2>2. director' = [director EXCEPT ![d] = new]
    BY <1>9, <2>1 DEF Goes, PutAt
  <2>3. calm' => InCalm(new)
    BY <1>1, <1>6, <2>1 DEF InCalm, TenantsInv, CalmFits
  <2> QED BY <1>1, <1>6, <1>7, <2>1, <2>2, <2>3, DirectorMoves
<1> QED BY <1>8, <1>9 DEF Fill

(* or drops from it what has changed. *)
LEMMA DropStep == ASSUME TenantsInv, NEW d \in Director, DropEntry(d) PROVE TenantsInv'
<1>1. director[d] # NoFirm /\ director[d] \in Directs /\ director' = [director EXCEPT ![d] = NoFirm] /\ UNCHANGED <<firm, home, seeder>>
  BY RequestFacts DEF DropEntry, DirectorAt, Apart, Ends
<1>2. PICK f \in Firm : f = director[d].firm
  BY <1>1, RequestFacts
<1>3. PICK up \in BOOLEAN : entry' = (IF up THEN [entry EXCEPT ![f] = NoFirm] ELSE entry) /\ calm' = (calm /\ up)
  BY <1>2 DEF DropEntry, Dropped
<1>4. entry' \in [Firm -> CachedRows \cup {NoFirm}] /\ calm' \in BOOLEAN /\ (calm' => calm)
  BY <1>3 DEF TenantsInv, TenantsTypeOK
<1>5. ASSUME calm', NEW g \in Firm, entry'[g] # NoFirm PROVE EntryTrue(g)'
  <2>1. up /\ calm /\ entry' = [entry EXCEPT ![f] = NoFirm]
    BY <1>3, <1>5
  <2>2. g # f /\ entry'[g] = entry[g]
    BY <1>5, <2>1 DEF TenantsInv, TenantsTypeOK
  <2>3. ~Dropping(g)
    BY <1>1, <1>2, <2>1, <2>2 DEF Dropping, TenantsInv, CalmFits
  <2>4. EntryTrue(g)
    BY <1>5, <2>1, <2>2, <2>3 DEF TenantsInv, CalmFits
  <2> QED BY <1>1, <2>2, <2>4 DEF EntryTrue, There
<1> QED BY <1>1, <1>4, <1>5, DirectorMoves

(* The seed's facts stay, when every firm that is left has kept what the seed brought it. *)
LEMMA SeedStays ==
    ASSUME TenantsInv, UNCHANGED seeder, \A g \in Firm : firm[g] # NoFirm => firm'[g] # NoFirm,
           \A g \in Firm : firm[g] # NoFirm /\ There(g)' =>
                /\ There(g) /\ (Whole(g) => Whole(g)')
                /\ firm[g].perms = Perm => firm'[g].perms = Perm
                /\ firm[g].roles = SystemRole => firm'[g].roles = SystemRole
    PROVE  SeedFits'
<1>1. seeder.listed \subseteq Firm
  BY RequestFacts
<1>2. \A g \in seeder.listed : firm'[g] # NoFirm /\ firm[g] # NoFirm
  BY <1>1 DEF TenantsInv, SeedFits
<1>3. \A g \in seeder.listed : There(g)' /\ (There(g) => Whole(g)) => Whole(g)'
  BY <1>1, <1>2
<1>4. ASSUME seeder.at \in Phases
      PROVE  /\ seeder.now \in seeder.listed
             /\ \A g \in seeder.listed \ (seeder.todo \cup {seeder.now}) : There(g)' => Whole(g)'
             /\ seeder.at # "perms" /\ There(seeder.now)' => firm'[seeder.now].perms = Perm
             /\ seeder.at = "grants" /\ There(seeder.now)' => firm'[seeder.now].roles = SystemRole
  <2>1. PICK now \in Firm : now = seeder.now /\ now \in seeder.listed
    BY <1>1, <1>4 DEF TenantsInv, SeedFits
  <2>2. /\ \A g \in seeder.listed \ (seeder.todo \cup {seeder.now}) : There(g) => Whole(g)
        /\ seeder.at # "perms" /\ There(now) => firm[now].perms = Perm
        /\ seeder.at = "grants" /\ There(now) => firm[now].roles = SystemRole
        /\ firm[now] # NoFirm
    BY <1>2, <1>4, <2>1 DEF TenantsInv, SeedFits
  <2>3. /\ seeder.at # "perms" /\ There(now)' => firm'[now].perms = Perm
        /\ seeder.at = "grants" /\ There(now)' => firm'[now].roles = SystemRole
    BY <2>2
  <2> QED BY <1>3, <2>1, <2>2, <2>3 DEF There
<1>5. seeder.at = "done" => \A g \in seeder.listed : There(g)' => Whole(g)'
  BY <1>3 DEF TenantsInv, SeedFits
<1> QED BY <1>2, <1>4, <1>5 DEF SeedFits, There, Whole

(* A row that an insert, a change or an upsert leaves: what the seed has brought to this release stays there. *)
Keeps(f, row) ==
    /\ row.grants \subseteq GrantsOf(Perm)
    /\ There(f) => /\ firm[f].perms = Perm => row.perms = Perm
                   /\ firm[f].roles = SystemRole => row.roles = SystemRole
                   /\ Whole(f) => row.perms = Perm /\ row.roles = SystemRole /\ row.grants = GrantsOf(Perm)

(* Such a row keeps the facts of the seed. *)
LEMMA FirmWritten ==
    ASSUME TenantsInv, NEW f \in Firm, NEW row \in FirmRows, firm' = [firm EXCEPT ![f] = row], firm[f] # Gone, Keeps(f, row),
           UNCHANGED seeder
    PROVE  /\ firm' \in [Firm -> FirmRows \cup {NoFirm, Gone}] /\ Firms \subseteq Firms' /\ FirmsFit' /\ SeedFits'
           /\ firm'[f] = row /\ \A g \in Firm : g # f => firm'[g] = firm[g]
<1>1. firm' \in [Firm -> FirmRows \cup {NoFirm, Gone}] /\ firm'[f] = row /\ \A g \in Firm : g # f => firm'[g] = firm[g]
  BY DEF TenantsInv, TenantsTypeOK
<1>2. row # NoFirm /\ row # Gone
  BY RequestFacts
<1>3. Firms \subseteq Firms'
  BY <1>1, <1>2 DEF Firms, There
<1>4. FirmsFit'
  BY <1>1 DEF TenantsInv, FirmsFit, Firms, There, Keeps
<1>5. ASSUME NEW g \in Firm, firm[g] # NoFirm, There(g)'
      PROVE  /\ There(g)
             /\ firm[g].perms = Perm => firm'[g].perms = Perm
             /\ firm[g].roles = SystemRole => firm'[g].roles = SystemRole
             /\ Whole(g) => Whole(g)'
  <2>1. CASE g = f
    <3>1. There(f)
      BY <1>5, <2>1 DEF There
    <3> QED BY <1>1, <2>1, <3>1 DEF Keeps, Whole
  <2>2. CASE g # f
    BY <1>1, <1>5, <2>2 DEF There, Whole
  <2> QED BY <2>1, <2>2
<1>6. \A g \in Firm : firm[g] # NoFirm => firm'[g] # NoFirm
  BY <1>1, <1>2
<1>7. SeedFits'
  BY <1>5, <1>6, SeedStays
<1> QED BY <1>1, <1>3, <1>4, <1>7

(* In calm, the entry of a firm that has changed is about to be dropped, and a new firm has none. *)
LEMMA CalmAfter ==
    ASSUME TenantsInv, NEW d \in Director, director[d] # NoFirm, director[d].at = "write", NEW new \in Directs \cup {NoFirm},
           director' = [director EXCEPT ![d] = new], UNCHANGED <<entry, seeder, calm>>,
           NEW f \in Firm, \A g \in Firm : g # f => firm'[g] = firm[g],
           IF new = NoFirm THEN New(f) ELSE new.at = "drop" /\ new.firm = f /\ new.op = director[d].op
    PROVE  CalmFits'
<1> SUFFICES ASSUME calm PROVE CalmFits'
  BY DEF CalmFits
<1>1. director'[d] = new /\ \A o \in Director : o # d => director'[o] = director[o] /\ director[o] = NoFirm
  BY DEF TenantsInv, TenantsTypeOK, CalmFits
<1>2. seeder.at = "off" /\ director[d].op \in {"create", "read", "update", "delete"}
  BY DEF TenantsInv, CalmFits
<1>3. \A c, o \in Director : director'[c] # NoFirm /\ director'[o] # NoFirm => c = o
  BY <1>1
<1>4. \A o \in Director : director'[o] # NoFirm =>
         director'[o].op \in {"create", "read", "update", "delete"} /\ director'[o].at = "drop" /\ director'[o].firm = f
  BY <1>1, <1>2
<1>5. \A g \in Firm : ~Dropping(g)
  BY <1>1 DEF Dropping
<1>6. ASSUME NEW g \in Firm, entry[g] # NoFirm PROVE EntryTrue(g)' \/ Dropping(g)'
  <2>1. EntryTrue(g)
    BY <1>5, <1>6 DEF TenantsInv, CalmFits
  <2>2. CASE g # f
    BY <2>1, <2>2 DEF EntryTrue, There
  <2>3. CASE g = f
    <3>1. new # NoFirm
      BY <2>1, <2>3, RequestFacts DEF EntryTrue, There, New
    <3> QED BY <1>1, <2>3, <3>1 DEF Dropping
  <2> QED BY <2>2, <2>3
<1> QED BY <1>2, <1>3, <1>4, <1>6 DEF CalmFits

(* Whoever has written fills nothing. *)
LEMMA FillsAfter ==
    ASSUME TenantsInv, NEW d \in Director, NEW new \in Directs \cup {NoFirm}, director' = [director EXCEPT ![d] = new],
           new # NoFirm => new.at # "fill"
    PROVE  FillsFit' /\ director' \in [Director -> Directs \cup {NoFirm}]
  BY DEF TenantsInv, TenantsTypeOK, FillsFit

(* A tenant is made, *)
LEMMA InsertStep == ASSUME TenantsInv, NEW d \in Director, Insert(d) PROVE TenantsInv'
<1>1. director[d] # NoFirm /\ director[d].at = "write" /\ director[d] \in Directs /\ director[d].firm \in Firm
      /\ director[d].op \in {"create", "only", "withadmin"}
      /\ director' = [director EXCEPT ![d] = NoFirm] /\ UNCHANGED <<entry, calm, seeder>>
  BY RequestFacts DEF Insert, DirectorAt, Apart, Ends
<1>2. PICK f \in Firm : f = director[d].firm
  BY <1>1
<1>3. CASE UNCHANGED <<firm, home, member>>
  <2>1. calm' \in BOOLEAN
    BY <1>1 DEF TenantsInv, TenantsTypeOK
  <2> QED BY <1>1, <1>3, <2>1, DirectorGoes
<1>4. CASE /\ ~ExistsBySlug(director[d].slug) /\ New(f)
           /\ firm' = [firm EXCEPT ![f] = IF director[d].op = "create" THEN Bare(director[d].slug, director[d].status)
                                          ELSE Provisioned(director[d].slug, director[d].status, Perm)]
           /\ IF director[d].op = "withadmin" THEN Admit(director[d].email, f) ELSE UNCHANGED <<home, member>>
  <2>1. PICK row : row = IF director[d].op = "create" THEN Bare(director[d].slug, director[d].status)
                         ELSE Provisioned(director[d].slug, director[d].status, Perm)
    OBVIOUS
  <2>2. director[d].slug \in Slug /\ director[d].status \in Status
    BY <1>1 DEF Directs, Makings, Changings, Others
  <2>3. row \in FirmRows /\ row.grants \subseteq GrantsOf(Perm)
    BY <2>1, <2>2, BareAre, ProvisionedAre
  <2>4. firm' = [firm EXCEPT ![f] = row] /\ firm[f] # Gone /\ ~There(f)
    BY <1>4, <2>1, RequestFacts DEF New, There
  <2>5. Keeps(f, row)
    BY <2>3, <2>4 DEF Keeps
  <2>6. /\ firm' \in [Firm -> FirmRows \cup {NoFirm, Gone}] /\ Firms \subseteq Firms' /\ FirmsFit' /\ SeedFits'
        /\ firm'[f] = row /\ \A g \in Firm : g # f => firm'[g] = firm[g]
    BY <1>1, <2>3, <2>4, <2>5, FirmWritten
  <2>7. home' \in [Email -> Firms' \cup {NoFirm, PlatformSlug}]
    <3>1. f \in Firms'
      BY <2>3, <2>6, RequestFacts DEF Firms, There
    <3>2. home \in [Email -> Firms' \cup {NoFirm, PlatformSlug}]
      BY <2>6 DEF TenantsInv, TenantsTypeOK
    <3>3. home' = home \/ \E e : home' = [home EXCEPT ![e] = f]
      BY <1>4 DEF Admit
    <3> QED BY <3>1, <3>2, <3>3
  <2>8. FillsFit' /\ director' \in [Director -> Directs \cup {NoFirm}]
    BY <1>1, FillsAfter
  <2>9. CalmFits'
    <3>1. \A g \in Firm : g # f => firm'[g] = firm[g]
      BY <2>6
    <3>2. New(f) /\ UNCHANGED <<entry, seeder, calm>>
      BY <1>1, <1>4
    <3>3. PICK new \in Directs \cup {NoFirm} : new = NoFirm
      OBVIOUS
    <3> QED BY <1>1, <3>1, <3>2, <3>3, CalmAfter
  <2>10. TenantsTypeOK'
    BY <1>1, <2>6, <2>7, <2>8 DEF TenantsInv, TenantsTypeOK
  <2> QED BY <2>6, <2>8, <2>9, <2>10 DEF TenantsInv
<1> QED BY <1>2, <1>3, <1>4 DEF Insert

(* is given an admin, *)
LEMMA InsertAdminStep == ASSUME TenantsInv, NEW d \in Director, InsertAdmin(d) PROVE TenantsInv'
<1>1. director[d] # NoFirm /\ director[d].at = "write" /\ director' = [director EXCEPT ![d] = NoFirm]
      /\ UNCHANGED <<firm, entry, calm, seeder>>
  BY DEF InsertAdmin, DirectorAt, Apart, Ends
<1>2. director[d].firm \in Firm
  BY <1>1, RequestFacts
<1>3. home' \in [Email -> Firms \cup {NoFirm, PlatformSlug}]
  BY <1>2 DEF InsertAdmin, Admit, Firms, TenantsInv, TenantsTypeOK
<1>4. FillsFit' /\ director' \in [Director -> Directs \cup {NoFirm}]
  BY <1>1, FillsAfter
<1>5. TenantsTypeOK'
  BY <1>1, <1>3, <1>4 DEF TenantsInv, TenantsTypeOK, Firms, There
<1>6. FirmsFit' /\ SeedFits'
  BY <1>1 DEF TenantsInv, FirmsFit, SeedFits, Firms, There, Whole
<1>7. \A o \in Director : director'[o] # NoFirm => director'[o] = director[o] /\ o # d
  BY <1>1 DEF TenantsInv, TenantsTypeOK
<1>8. \A g \in Firm : (EntryTrue(g) => EntryTrue(g)') /\ (Dropping(g) => Dropping(g)')
  <2>1. \A o \in Director : o # d => director'[o] = director[o]
    BY <1>1 DEF TenantsInv, TenantsTypeOK
  <2> QED BY <1>1, <2>1 DEF EntryTrue, Dropping, There
<1>9. CalmFits'
  BY <1>1, <1>7, <1>8 DEF TenantsInv, CalmFits
<1> QED BY <1>4, <1>5, <1>6, <1>9 DEF TenantsInv

Altered(r, slug, status) == [r EXCEPT !.slug = slug, !.status = status]

(* A row with another slug and status. *)
LEMMA AlteredAre ==
    ASSUME NEW r \in FirmRows, NEW slug \in Slug, NEW status \in Status
    PROVE  /\ Altered(r, slug, status) \in FirmRows /\ Altered(r, slug, status).perms = r.perms
           /\ Altered(r, slug, status).roles = r.roles /\ Altered(r, slug, status).grants = r.grants
  BY DEF Altered, FirmRows

(* A tenant changes, *)
LEMMA ChangeStep == ASSUME TenantsInv, NEW d \in Director, Change(d) PROVE TenantsInv'
<1>1. director[d] # NoFirm /\ director[d].at = "write" /\ director[d] \in Directs /\ director[d].firm \in Firm
      /\ director[d].op \in {"update", "platform"} /\ UNCHANGED <<home, member, entry, calm, seeder>>
  BY RequestFacts DEF Change, DirectorAt, Apart
<1>2. PICK f \in Firm : f = director[d].firm
  BY <1>1
<1>3. CASE UNCHANGED firm /\ Ends(d)
  <2>1. calm' \in BOOLEAN
    BY <1>1 DEF TenantsInv, TenantsTypeOK
  <2>2. director' = [director EXCEPT ![d] = NoFirm]
    BY <1>3 DEF Ends
  <2> QED BY <1>1, <1>3, <2>1, <2>2, DirectorGoes
<1>4. CASE /\ There(f)
           /\ firm' = [firm EXCEPT ![f].slug = IF director[d].slug = NoFirm THEN @ ELSE director[d].slug, ![f].status = director[d].status]
           /\ IF director[d].op = "update" THEN Goes(d, "drop") ELSE Ends(d)
  <2>1. firm[f] \in FirmRows /\ director[d].slug \in Slug \cup {NoFirm}
    BY <1>1, <1>4, RequestFacts DEF Directs, Makings, Changings, Others
  <2>2. PICK slug \in Slug : slug = IF director[d].slug = NoFirm THEN firm[f].slug ELSE director[d].slug
    BY <2>1 DEF FirmRows
  <2>3. PICK status \in Status : status = director[d].status
    BY <1>1 DEF Directs, Makings, Changings, Others
  <2>4. PICK row \in FirmRows : /\ row = Altered(firm[f], slug, status)
                                /\ row.perms = firm[f].perms /\ row.roles = firm[f].roles /\ row.grants = firm[f].grants
    BY <2>1, AlteredAre
  <2>5. firm' = [firm EXCEPT ![f] = row]
    BY <1>4, <2>2, <2>3, <2>4 DEF Altered
  <2>6. Keeps(f, row)
    <3>1. row.grants \subseteq GrantsOf(Perm)
      BY <1>4, <2>4 DEF TenantsInv, FirmsFit, Firms
    <3> QED BY <2>4, <3>1 DEF Keeps, Whole
  <2>7. firm[f] # Gone
    BY <1>4 DEF There
  <2>8. /\ firm' \in [Firm -> FirmRows \cup {NoFirm, Gone}] /\ Firms \subseteq Firms' /\ FirmsFit' /\ SeedFits'
        /\ firm'[f] = row /\ \A g \in Firm : g # f => firm'[g] = firm[g]
    BY <1>1, <2>5, <2>6, <2>7, FirmWritten
  <2>9. PICK new \in Directs \cup {NoFirm} :
            /\ director' = [director EXCEPT ![d] = new]
            /\ IF director[d].op = "update" THEN new # NoFirm /\ new.at = "drop" /\ new.firm = f /\ new.op = "update" ELSE new = NoFirm
    <3>1. CASE director[d].op = "update"
      <4>1. PICK new \in Directs : new = PutAt(director[d], "drop") /\ new.at = "drop" /\ new.op = director[d].op /\ new.firm = f
        BY <1>1, <1>2, MovedTo DEF Stages
      <4>2. director' = [director EXCEPT ![d] = new]
        BY <1>4, <3>1, <4>1 DEF Goes, PutAt
      <4>3. new # NoFirm
        BY RequestFacts
      <4> QED BY <3>1, <4>1, <4>2, <4>3
    <3>2. CASE director[d].op # "update"
      BY <1>4, <3>2 DEF Ends
    <3> QED BY <3>1, <3>2
  <2>10. FillsFit' /\ director' \in [Director -> Directs \cup {NoFirm}]
    BY <2>9, FillsAfter
  <2>11. CalmFits'
    <3>1. CASE director[d].op = "update"
      <4>1. \A g \in Firm : g # f => firm'[g] = firm[g]
        BY <2>8
      <4>2. new # NoFirm /\ new.at = "drop" /\ new.firm = f /\ new.op = director[d].op
        BY <2>9, <3>1
      <4>3. UNCHANGED <<entry, seeder, calm>>
        BY <1>1
      <4> QED BY <1>1, <2>9, <4>1, <4>2, <4>3, CalmAfter
    <3>2. CASE director[d].op # "update"
      <4>1. ~calm
        BY <1>1, <3>2 DEF TenantsInv, CalmFits
      <4> QED BY <1>1, <4>1 DEF CalmFits
    <3> QED BY <3>1, <3>2
  <2>12. TenantsTypeOK'
    <3>1. home' \in [Email -> Firms' \cup {NoFirm, PlatformSlug}]
      BY <1>1, <2>8 DEF TenantsInv, TenantsTypeOK
    <3> QED BY <1>1, <2>8, <2>10, <3>1 DEF TenantsInv, TenantsTypeOK
  <2> QED BY <2>8, <2>10, <2>11, <2>12 DEF TenantsInv
<1> QED BY <1>2, <1>3, <1>4 DEF Change

(* and goes. *)
LEMMA DeleteStep == ASSUME TenantsInv, NEW d \in Director, Delete(d) PROVE TenantsInv'
<1>1. director[d] # NoFirm /\ director[d].at = "write" /\ director[d] \in Directs /\ director[d].firm \in Firm
      /\ director[d].op = "delete" /\ UNCHANGED <<entry, calm, seeder>>
  BY RequestFacts DEF Delete, DirectorAt, Apart
<1>2. PICK f \in Firm : f = director[d].firm
  BY <1>1
<1>3. CASE UNCHANGED <<firm, home, member>> /\ Ends(d)
  <2>1. calm' \in BOOLEAN
    BY <1>1 DEF TenantsInv, TenantsTypeOK
  <2>2. director' = [director EXCEPT ![d] = NoFirm]
    BY <1>3 DEF Ends
  <2> QED BY <1>1, <1>3, <2>1, <2>2, DirectorGoes
<1>4. CASE /\ There(f) /\ firm' = [firm EXCEPT ![f] = Gone]
           /\ home' = [e \in Email |-> IF home[e] = f THEN NoFirm ELSE home[e]] /\ Goes(d, "drop")
  <2>1. /\ firm' \in [Firm -> FirmRows \cup {NoFirm, Gone}] /\ firm'[f] = Gone
        /\ \A g \in Firm : g # f => firm'[g] = firm[g]
    BY <1>4 DEF TenantsInv, TenantsTypeOK
  <2>2. \A g \in Firm : There(g)' => There(g) /\ firm'[g] = firm[g]
    BY <2>1 DEF There
  <2>3. \A g \in Firms : g # f => g \in Firms'
    BY <2>1 DEF Firms, There
  <2>4. home' \in [Email -> Firms' \cup {NoFirm, PlatformSlug}]
    <3>1. \A e \in Email : home[e] \in Firms \cup {NoFirm, PlatformSlug}
      BY DEF TenantsInv, TenantsTypeOK
    <3> QED BY <1>4, <2>3, <3>1
  <2>5. PICK new \in Directs : new = PutAt(director[d], "drop") /\ new.at = "drop" /\ new.op = director[d].op /\ new.firm = f
    BY <1>1, <1>2, MovedTo DEF Stages
  <2>6. director' = [director EXCEPT ![d] = new] /\ new # NoFirm
    BY <1>4, <2>5, RequestFacts DEF Goes, PutAt
  <2>7. FillsFit' /\ director' \in [Director -> Directs \cup {NoFirm}]
    BY <2>5, <2>6, FillsAfter
  <2>8. CalmFits'
    BY <1>1, <2>1, <2>5, <2>6, CalmAfter
  <2>9. FirmsFit'
    BY <2>2 DEF TenantsInv, FirmsFit, Firms
  <2>10. SeedFits'
    <3>1. \A g \in Firm : firm[g] # NoFirm => firm'[g] # NoFirm
      BY <2>1, TenantsAssumption
    <3>2. \A g \in Firm : There(g)' => There(g) /\ firm'[g] = firm[g] /\ (Whole(g) => Whole(g)')
      BY <2>2 DEF Whole
    <3> QED BY <1>1, <3>1, <3>2, SeedStays
  <2>11. TenantsTypeOK'
    BY <1>1, <2>1, <2>4, <2>7 DEF TenantsInv, TenantsTypeOK
  <2> QED BY <2>7, <2>8, <2>9, <2>10, <2>11 DEF TenantsInv
<1> QED BY <1>2, <1>3, <1>4 DEF Delete

(* A cached row expires. *)
LEMMA ExpiresStep == ASSUME TenantsInv, NEW f \in Firm, EntryExpires(f) PROVE TenantsInv'
<1>1. entry' = [entry EXCEPT ![f] = NoFirm] /\ UNCHANGED <<firm, home, director, calm, seeder>>
  BY DEF EntryExpires, Apart
<1>2. entry' \in [Firm -> CachedRows \cup {NoFirm}]
  BY <1>1 DEF TenantsInv, TenantsTypeOK
<1>3. TenantsTypeOK'
  BY <1>1, <1>2 DEF TenantsInv, TenantsTypeOK, Firms, There
<1>4. FirmsFit' /\ SeedFits' /\ FillsFit'
  BY <1>1 DEF TenantsInv, FirmsFit, SeedFits, FillsFit, Firms, There, Whole
<1>5. \A g \in Firm : entry'[g] # NoFirm => entry'[g] = entry[g]
  BY <1>1 DEF TenantsInv, TenantsTypeOK
<1>6. ASSUME calm', NEW g \in Firm, entry'[g] # NoFirm PROVE EntryTrue(g)' \/ Dropping(g)'
  <2>1. EntryTrue(g) \/ Dropping(g)
    BY <1>1, <1>5, <1>6 DEF TenantsInv, CalmFits
  <2> QED BY <1>1, <1>5, <1>6, <2>1 DEF EntryTrue, Dropping, There
<1>7. CalmFits'
  BY <1>1, <1>6 DEF TenantsInv, CalmFits
<1> QED BY <1>3, <1>4, <1>7 DEF TenantsInv

(* No request came one by one next to a seed. *)
LEMMA SeedMoves ==
    ASSUME TenantsInv, SeedAside, seeder.at # "off" \/ calm' = FALSE, calm' = calm \/ calm' = FALSE,
           firm' \in [Firm -> FirmRows \cup {NoFirm, Gone}], home' \in [Email -> Firms' \cup {NoFirm, PlatformSlug}],
           seeder' \in Seeds, seeder'.todo \subseteq seeder'.listed, seeder'.now \in seeder'.listed \cup {NoFirm},
           FirmsFit', SeedFits'
    PROVE  TenantsInv'
<1>1. UNCHANGED <<director, entry>> /\ calm' \in BOOLEAN
  BY DEF SeedAside, TenantsInv, TenantsTypeOK
<1>2. TenantsTypeOK'
  BY <1>1 DEF TenantsInv, TenantsTypeOK
<1>3. FillsFit'
  BY <1>1 DEF TenantsInv, FillsFit
<1>4. ~calm'
  BY DEF TenantsInv, CalmFits
<1>5. CalmFits'
  BY <1>4 DEF CalmFits
<1> QED BY <1>2, <1>3, <1>5 DEF TenantsInv

(* The seed starts, or stops anywhere; *)
LEMMA SeedStartStep == ASSUME TenantsInv, SeedStart \/ SeedStops PROVE TenantsInv'
<1>1. UNCHANGED <<firm, home>> /\ SeedAside
  BY DEF SeedStart, SeedStops
<1>2. firm' \in [Firm -> FirmRows \cup {NoFirm, Gone}] /\ home' \in [Email -> Firms' \cup {NoFirm, PlatformSlug}] /\ FirmsFit'
  BY <1>1 DEF TenantsInv, TenantsTypeOK, Firms, There, FirmsFit
<1>3. CASE SeedStart
  <2>1. seeder' = [at |-> "platform", now |-> NoFirm, todo |-> {}, listed |-> {}] /\ seeder' \in Seeds /\ calm' = FALSE
    BY <1>3 DEF SeedStart, Seeds
  <2>2. SeedFits'
    BY <2>1 DEF SeedFits, Phases
  <2> QED BY <1>1, <1>2, <2>1, <2>2, SeedMoves
<1>4. CASE SeedStops
  <2>1. seeder.at # "off" /\ calm' = calm /\ seeder' = [seeder EXCEPT !.at = "off"]
    BY <1>4 DEF SeedStops
  <2>2. /\ seeder' \in Seeds /\ seeder'.at = "off" /\ seeder'.todo = seeder.todo
        /\ seeder'.listed = seeder.listed /\ seeder'.now = seeder.now
    BY <2>1, RequestFacts DEF Seeds
  <2>3. SeedFits'
    BY <1>1, <2>2 DEF TenantsInv, SeedFits, Phases
  <2>4. seeder'.todo \subseteq seeder'.listed /\ seeder'.now \in seeder'.listed \cup {NoFirm}
    BY <2>2 DEF TenantsInv, TenantsTypeOK
  <2> QED BY <1>1, <1>2, <2>1, <2>2, <2>3, <2>4, SeedMoves
<1> QED BY <1>3, <1>4

(* makes the platform's admin; *)
LEMMA SeedAdminStep == ASSUME TenantsInv, SeedPlatformAdmin PROVE TenantsInv'
<1>1. /\ UNCHANGED <<firm, calm>> /\ SeedAside /\ seeder.at = "platform" /\ home' = [home EXCEPT ![AdminEmail] = PlatformSlug]
      /\ seeder' = [seeder EXCEPT !.at = "list"]
  BY DEF SeedPlatformAdmin
<1>2. firm' \in [Firm -> FirmRows \cup {NoFirm, Gone}] /\ home' \in [Email -> Firms' \cup {NoFirm, PlatformSlug}] /\ FirmsFit'
  BY <1>1 DEF TenantsInv, TenantsTypeOK, Firms, There, FirmsFit
<1>3. /\ seeder' \in Seeds /\ seeder'.at = "list" /\ seeder'.todo = seeder.todo
      /\ seeder'.listed = seeder.listed /\ seeder'.now = seeder.now
  BY <1>1, RequestFacts DEF Seeds
<1>4. SeedFits'
  BY <1>1, <1>3 DEF TenantsInv, SeedFits, Phases
<1>5. seeder'.todo \subseteq seeder'.listed /\ seeder'.now \in seeder'.listed \cup {NoFirm}
  BY <1>3 DEF TenantsInv, TenantsTypeOK
<1> QED BY <1>1, <1>2, <1>3, <1>4, <1>5, SeedMoves

(* lists the tenants it sets out for, or makes one; *)
LEMMA ListStep == ASSUME TenantsInv, ListTenants PROVE TenantsInv'
<1>1. seeder.at = "list" /\ SeedAside /\ UNCHANGED <<home, calm>>
  BY DEF ListTenants
<1>2. Listed \subseteq Firms /\ Firms \subseteq Firm
  BY DEF Listed, Firms
<1>3. ASSUME UNCHANGED firm
      PROVE  /\ firm' \in [Firm -> FirmRows \cup {NoFirm, Gone}] /\ home' \in [Email -> Firms' \cup {NoFirm, PlatformSlug}]
             /\ FirmsFit'
  BY <1>1, <1>3 DEF TenantsInv, TenantsTypeOK, Firms, There, FirmsFit
<1>4. ASSUME NEW f \in Listed, seeder' = [at |-> "perms", now |-> f, todo |-> Listed \ {f}, listed |-> Listed], UNCHANGED firm
      PROVE  TenantsInv'
  <2>1. seeder' \in Seeds
    BY <1>2, <1>4 DEF Seeds, Phases
  <2>2. seeder'.todo \subseteq seeder'.listed /\ seeder'.now \in seeder'.listed \cup {NoFirm}
    BY <1>4
  <2>3. SeedFits'
    BY <1>2, <1>4 DEF SeedFits, Firms, There
  <2> QED BY <1>1, <1>3, <1>4, <2>1, <2>2, <2>3, SeedMoves
<1>5. CASE seeder' = [seeder EXCEPT !.at = "off"] /\ UNCHANGED firm
  <2>1. /\ seeder' \in Seeds /\ seeder'.at = "off" /\ seeder'.todo = seeder.todo
        /\ seeder'.listed = seeder.listed /\ seeder'.now = seeder.now
    BY <1>5, RequestFacts DEF Seeds
  <2>2. SeedFits'
    BY <1>5, <2>1 DEF TenantsInv, SeedFits, Phases
  <2>3. seeder'.todo \subseteq seeder'.listed /\ seeder'.now \in seeder'.listed \cup {NoFirm}
    BY <2>1 DEF TenantsInv, TenantsTypeOK
  <2> QED BY <1>1, <1>3, <1>5, <2>1, <2>2, <2>3, SeedMoves
<1>6. ASSUME NEW f \in NewFirms, firm' = [firm EXCEPT ![f] = Bare(Development, "ACTIVE")],
             seeder' = [at |-> "perms", now |-> f, todo |-> {}, listed |-> {f}]
      PROVE  TenantsInv'
  <2>1. f \in Firm /\ firm[f] = NoFirm
    BY DEF NewFirms, New
  <2>2. PICK row \in FirmRows : row = Bare(Development, "ACTIVE") /\ row.grants = {}
    BY BareAre, TenantsAssumption DEF Status
  <2>3. /\ firm' \in [Firm -> FirmRows \cup {NoFirm, Gone}] /\ firm'[f] = row
        /\ \A g \in Firm : g # f => firm'[g] = firm[g]
    BY <1>6, <2>1, <2>2 DEF TenantsInv, TenantsTypeOK
  <2>4. row # NoFirm /\ row # Gone
    BY RequestFacts
  <2>5. Firms \subseteq Firms'
    BY <2>3, <2>4 DEF Firms, There
  <2>6. home' \in [Email -> Firms' \cup {NoFirm, PlatformSlug}]
    BY <1>1, <2>5 DEF TenantsInv, TenantsTypeOK
  <2>7. FirmsFit'
    BY <2>2, <2>3 DEF TenantsInv, FirmsFit, Firms, There
  <2>8. seeder' \in Seeds
    BY <1>6, <2>1 DEF Seeds, Phases
  <2>9. SeedFits'
    BY <1>6, <2>3, <2>4 DEF SeedFits
  <2>10. seeder'.todo \subseteq seeder'.listed /\ seeder'.now \in seeder'.listed \cup {NoFirm}
    BY <1>6
  <2> QED BY <1>1, <2>3, <2>6, <2>7, <2>8, <2>9, <2>10, SeedMoves
<1> QED BY <1>4, <1>5, <1>6 DEF ListTenants

(* What one upsert adds to a row. *)
AddedTo(phase, r, x) ==
    CASE phase = "perms" -> [r EXCEPT !.perms = @ \cup {x}]
      [] phase = "roles" -> [r EXCEPT !.roles = @ \cup {x}]
      [] phase = "grants" -> [r EXCEPT !.grants = @ \cup {x}]

(* An upsert adds what is missing, *)
LEMMA AddedAre ==
    ASSUME TenantsInv, NEW phase \in Phases, NEW f \in Firm, There(f), NEW x \in Missing(phase, f)
    PROVE  AddedTo(phase, firm[f], x) \in FirmRows /\ Keeps(f, AddedTo(phase, firm[f], x))
<1>1. firm[f] \in FirmRows /\ firm[f].grants \subseteq GrantsOf(Perm)
  BY RequestFacts DEF TenantsInv, FirmsFit, Firms
<1>2. PICK r \in FirmRows : r = firm[f]
  BY <1>1
<1>3. GrantsOf(Perm) \subseteq SystemRole \X Perm
  BY GrantsAre
<1>4. CASE phase = "perms"
  <2>1. x \in Perm /\ x \notin r.perms
    BY <1>2, <1>4 DEF Missing
  <2>2. PICK row \in FirmRows : row = [r EXCEPT !.perms = @ \cup {x}] /\ row.perms = r.perms \cup {x}
                                /\ row.roles = r.roles /\ row.grants = r.grants
    <3>1. PICK more \in SUBSET Perm : more = r.perms \cup {x}
      BY <2>1 DEF FirmRows
    <3>2. [r EXCEPT !.perms = more] \in FirmRows
      BY DEF FirmRows
    <3> QED BY <3>1, <3>2 DEF FirmRows
  <2>3. row = AddedTo(phase, firm[f], x)
    BY <1>2, <1>4, <2>2 DEF AddedTo
  <2>4. Keeps(f, row)
    BY <1>1, <1>2, <2>1, <2>2 DEF Keeps, Whole
  <2> QED BY <2>3, <2>4
<1>5. CASE phase = "roles"
  <2>1. x \in SystemRole /\ x \notin r.roles
    BY <1>2, <1>5 DEF Missing
  <2>2. PICK row \in FirmRows : row = [r EXCEPT !.roles = @ \cup {x}] /\ row.roles = r.roles \cup {x}
                                /\ row.perms = r.perms /\ row.grants = r.grants
    <3>1. PICK more \in SUBSET SystemRole : more = r.roles \cup {x}
      BY <2>1 DEF FirmRows
    <3>2. [r EXCEPT !.roles = more] \in FirmRows
      BY DEF FirmRows
    <3> QED BY <3>1, <3>2 DEF FirmRows
  <2>3. row = AddedTo(phase, firm[f], x)
    BY <1>2, <1>5, <2>2 DEF AddedTo
  <2>4. Keeps(f, row)
    BY <1>1, <1>2, <2>1, <2>2 DEF Keeps, Whole
  <2> QED BY <2>3, <2>4
<1>6. CASE phase = "grants"
  <2>1. x \in GrantsOf(Perm) /\ x \notin r.grants
    BY <1>2, <1>6 DEF Missing
  <2>2. PICK row \in FirmRows : row = [r EXCEPT !.grants = @ \cup {x}] /\ row.grants = r.grants \cup {x}
                                /\ row.perms = r.perms /\ row.roles = r.roles
    <3>1. PICK more \in SUBSET (SystemRole \X Perm) : more = r.grants \cup {x}
      BY <1>3, <2>1 DEF FirmRows
    <3>2. [r EXCEPT !.grants = more] \in FirmRows
      BY DEF FirmRows
    <3> QED BY <3>1, <3>2 DEF FirmRows
  <2>3. row = AddedTo(phase, firm[f], x)
    BY <1>2, <1>6, <2>2 DEF AddedTo
  <2>4. Keeps(f, row)
    BY <1>1, <1>2, <2>1, <2>2 DEF Keeps, Whole
  <2> QED BY <2>3, <2>4
<1> QED BY <1>4, <1>5, <1>6 DEF Phases

(* and nothing else; *)
LEMMA UpsertStep == ASSUME TenantsInv, Upsert PROVE TenantsInv'
<1>1. SeedAside /\ UNCHANGED <<home, seeder, calm>> /\ There(seeder.now) /\ seeder.at # "off"
  BY DEF Upsert, Phases, Current
<1>2. PICK phase \in Phases : phase = seeder.at
  BY DEF Upsert
<1>3. PICK f \in Firm : f = seeder.now
  BY <1>2, RequestFacts DEF TenantsInv, SeedFits
<1>4. PICK x \in Missing(phase, f) : firm' = Added(phase, f, x)
  BY <1>2, <1>3 DEF Upsert, Current
<1>5. There(f)
  BY <1>1, <1>3
<1>6. PICK row \in FirmRows : row = AddedTo(phase, firm[f], x) /\ Keeps(f, row)
  BY <1>5, AddedAre
<1>7. firm' = [firm EXCEPT ![f] = row]
  BY <1>4, <1>6 DEF Added, AddedTo, Phases
<1>8. firm[f] # Gone
  BY <1>5 DEF There
<1>9. firm' \in [Firm -> FirmRows \cup {NoFirm, Gone}] /\ Firms \subseteq Firms' /\ FirmsFit' /\ SeedFits'
  BY <1>1, <1>6, <1>7, <1>8, FirmWritten
<1>10. home' \in [Email -> Firms' \cup {NoFirm, PlatformSlug}]
  BY <1>1, <1>9 DEF TenantsInv, TenantsTypeOK
<1>11. seeder' \in Seeds /\ seeder'.todo \subseteq seeder'.listed /\ seeder'.now \in seeder'.listed \cup {NoFirm}
  BY <1>1, RequestFacts DEF TenantsInv, TenantsTypeOK
<1> QED BY <1>1, <1>9, <1>10, <1>11, SeedMoves

(* and goes on when nothing is missing. *)
LEMMA GoesOnStep == ASSUME TenantsInv, SeedGoesOn PROVE TenantsInv'
<1>1. SeedAside /\ UNCHANGED <<firm, home, calm>> /\ There(seeder.now) /\ seeder.at \in Phases /\ seeder.at # "off"
  BY DEF SeedGoesOn, Phases, Current
<1>2. PICK f \in Firm : f = seeder.now /\ f \in seeder.listed
  BY <1>1, RequestFacts DEF TenantsInv, SeedFits
<1>3. firm' \in [Firm -> FirmRows \cup {NoFirm, Gone}] /\ home' \in [Email -> Firms' \cup {NoFirm, PlatformSlug}] /\ FirmsFit'
  BY <1>1 DEF TenantsInv, TenantsTypeOK, Firms, There, FirmsFit
<1>4. /\ firm[f] \in FirmRows /\ firm[f].grants \subseteq GrantsOf(Perm) /\ There(f)
  BY <1>1, <1>2, RequestFacts DEF TenantsInv, FirmsFit, Firms
<1>5. /\ seeder \in Seeds /\ seeder.todo \subseteq seeder.listed
      /\ \A g \in seeder.listed : firm[g] # NoFirm
      /\ \A g \in seeder.listed \ (seeder.todo \cup {f}) : There(g) => Whole(g)
      /\ seeder.at # "perms" => firm[f].perms = Perm
      /\ seeder.at = "grants" => firm[f].roles = SystemRole
  BY <1>1, <1>2, <1>4 DEF TenantsInv, TenantsTypeOK, SeedFits
<1>6. Missing(seeder.at, f) = {}
  BY <1>2 DEF SeedGoesOn, Current
<1>7. /\ seeder.at = "perms" => firm[f].perms = Perm
      /\ seeder.at = "roles" => firm[f].roles = SystemRole
      /\ seeder.at = "grants" => Whole(f)
  <2>1. CASE seeder.at = "perms"
    <3>1. Perm \subseteq firm[f].perms
      BY <1>6, <2>1 DEF Missing
    <3>2. firm[f].perms \subseteq Perm
      BY <1>4 DEF FirmRows
    <3> QED BY <2>1, <3>1, <3>2
  <2>2. CASE seeder.at = "roles"
    <3>1. SystemRole \subseteq firm[f].roles
      BY <1>6, <2>2 DEF Missing
    <3>2. firm[f].roles \subseteq SystemRole
      BY <1>4 DEF FirmRows
    <3> QED BY <2>2, <3>1, <3>2
  <2>3. CASE seeder.at = "grants"
    <3>1. GrantsOf(Perm) \subseteq firm[f].grants
      BY <1>6, <2>3 DEF Missing
    <3> QED BY <1>4, <1>5, <2>3, <3>1 DEF Whole
  <2> QED BY <1>1, <2>1, <2>2, <2>3 DEF Phases
<1>8. ASSUME NEW at \in Phases \cup {"done"}, NEW now \in Firm \cup {NoFirm}, NEW todo \in SUBSET Firm, GoesTo(at, now, todo)
      PROVE  /\ seeder' \in Seeds /\ seeder'.at = at /\ seeder'.now = now /\ seeder'.todo = todo
             /\ seeder'.listed = seeder.listed
  BY <1>5, <1>8 DEF GoesTo, Seeds
<1>9. seeder.todo \in SUBSET Firm /\ seeder.now = f /\ f \in Firm \cup {NoFirm} /\ NoFirm \in Firm \cup {NoFirm} /\ {} \in SUBSET Firm
  BY <1>2, <1>5 DEF Seeds
<1>10. CASE seeder.at # "grants" /\ GoesTo(NextPhase(seeder.at), Current, seeder.todo)
  <2>1. PICK at \in {"roles", "grants"} : at = NextPhase(seeder.at) /\ (at = "grants" => seeder.at = "roles")
    BY <1>1, <1>10 DEF NextPhase, Phases
  <2>2. GoesTo(at, f, seeder.todo) /\ at \in Phases \cup {"done"}
    BY <1>2, <1>10, <2>1 DEF Current, Phases
  <2>3. seeder' \in Seeds /\ seeder'.at = at /\ seeder'.now = f /\ seeder'.todo = seeder.todo /\ seeder'.listed = seeder.listed
    BY <1>8, <1>9, <2>2
  <2>4. firm[f].perms = Perm /\ (at = "grants" => firm[f].roles = SystemRole)
    BY <1>1, <1>5, <1>7, <1>10, <2>1 DEF Phases
  <2>5. SeedFits'
    BY <1>1, <1>2, <1>5, <2>3, <2>4 DEF SeedFits, There, Whole
  <2> QED BY <1>1, <1>2, <1>3, <1>5, <2>3, <2>5, SeedMoves
<1>11. CASE seeder.at = "grants" /\ seeder.todo = {} /\ GoesTo("done", NoFirm, {})
  <2>1. seeder' \in Seeds /\ seeder'.at = "done" /\ seeder'.now = NoFirm /\ seeder'.todo = {} /\ seeder'.listed = seeder.listed
    BY <1>8, <1>9, <1>11
  <2>2. \A g \in seeder.listed : There(g) => Whole(g)
    BY <1>5, <1>7, <1>11
  <2>3. SeedFits'
    BY <1>1, <1>5, <2>1, <2>2 DEF SeedFits, There, Whole, Phases
  <2> QED BY <1>1, <1>3, <1>5, <2>1, <2>3, SeedMoves
<1>12. ASSUME NEW g \in seeder.todo, seeder.at = "grants", GoesTo("perms", g, seeder.todo \ {g})
       PROVE  TenantsInv'
  <2>1. g \in seeder.listed /\ g \in Firm /\ seeder.todo \ {g} \in SUBSET Firm
    BY <1>5, <1>9
  <2>2. /\ seeder' \in Seeds /\ seeder'.at = "perms" /\ seeder'.now = g /\ seeder'.todo = seeder.todo \ {g}
        /\ seeder'.listed = seeder.listed
    BY <1>8, <1>12, <2>1 DEF Phases
  <2>3. \A h \in seeder.listed \ ((seeder.todo \ {g}) \cup {g}) : There(h) => Whole(h)
    BY <1>5, <1>7, <1>12
  <2>4. SeedFits'
    BY <1>1, <1>5, <2>1, <2>2, <2>3 DEF SeedFits, There, Whole
  <2> QED BY <1>1, <1>3, <1>5, <2>1, <2>2, <2>4, SeedMoves
<1> QED BY <1>10, <1>11, <1>12 DEF SeedGoesOn

(* Every step keeps the invariant of tenants, *)
LEMMA TenantsNextInv == ASSUME TenantsInv, [TenantsNext]_tenantVars PROVE TenantsInv'
<1>1. CASE UNCHANGED tenantVars
  <2>1. UNCHANGED <<firm, home, director, entry, seeder, calm>>
    BY <1>1 DEF tenantVars
  <2>2. TenantsTypeOK' /\ FirmsFit'
    BY <2>1 DEF TenantsInv, TenantsTypeOK, FirmsFit, Firms, There
  <2>3. SeedFits' /\ FillsFit'
    BY <2>1 DEF TenantsInv, SeedFits, FillsFit, There, Whole
  <2>4. CalmFits'
    BY <2>1 DEF TenantsInv, CalmFits, EntryTrue, Dropping, There
  <2> QED BY <2>2, <2>3, <2>4 DEF TenantsInv
<1>2. CASE TenantsNext
  BY <1>2, StartsStep, LookStep, GetByIdStep, FillStep, DropStep, InsertStep, InsertAdminStep, ChangeStep, DeleteStep,
     ExpiresStep, SeedStartStep, SeedAdminStep, ListStep, UpsertStep, GoesOnStep DEF TenantsNext
<1> QED BY <1>1, <1>2

(* which is more than was promised. *)
LEMMA TenantsTell == TenantsInv => TenantsTypeOK /\ SeededIsWhole /\ TenantCacheInTurn
<1> SUFFICES ASSUME TenantsInv PROVE TenantsTypeOK /\ SeededIsWhole /\ TenantCacheInTurn
  OBVIOUS
<1>1. TenantsTypeOK /\ SeededIsWhole
  BY DEF TenantsInv, SeedFits, SeededIsWhole
<1>2. TenantCacheInTurn
  BY DEF TenantsInv, CalmFits, EntryTrue, Dropping, TenantCacheInTurn
<1> QED BY <1>1, <1>2

-----------------------------------------------------------------------------
(* All parts. *)

ShopInv ==
    /\ CustomersInv /\ CategoriesInv /\ CatalogInv /\ DomainsInv /\ CartInv
    /\ CounterInv /\ GstInv /\ InvoicesInv /\ ImagesInv /\ PlansInv /\ PlatformInv /\ SettingsInv /\ GatewayInv /\ TenantsInv

(* Each part begins as it would alone, *)
LEMMA ShopInitInv == ShopInit => ShopInv
<1> SUFFICES ASSUME ShopInit PROVE ShopInv
  OBVIOUS
<1>1. /\ CustomersInit /\ CategoriesInit /\ CatalogInit /\ DomainsInit /\ CartInit
      /\ ImagesInit /\ SettingsInit /\ PlatformInit /\ PlansInit /\ CounterInit /\ GstInit
      /\ InvoicesInit /\ TenantsInit /\ GatewayInit
  BY DEF ShopInit
<1> QED BY <1>1, CustomersInitInv, CategoriesInitInv, CatalogInitInv, DomainsInitInv, CartInitInv, CounterInitInv, GstInitInv, InvoicesInitInv, ImagesInitInv, PlansInitInv, PlatformInitInv, SettingsInitInv,
           GatewayInitInv, TenantsInitInv DEF ShopInv

(* and takes its own steps, or none. *)
LEMMA StepsOfParts ==
    ASSUME [ShopNext]_allVars
    PROVE  /\ [CounterNext]_counterVars /\ [GstNext]_gstVars /\ [InvoicesNext]_invoiceVars /\ [ImagesNext]_imageVars
           /\ [PlansNext]_planVars /\ [PlatformNext]_platformVars /\ [SettingsNext]_settingsVars
           /\ [GatewayNext]_gatewayVars /\ [TenantsNext]_tenantVars /\ [CustomersNext]_customerVars
           /\ [CategoriesNext]_categoryVars /\ [CatalogNext]_catalogVars /\ [DomainsNext]_domainVars /\ [CartNext]_cartVars
<1>1. CASE UNCHANGED allVars
  BY <1>1 DEF allVars
<1>2. CASE ShopNext
  BY <1>2, OfficerAssumption DEF ShopNext, PlansNext, CatalogNext
<1> QED BY <1>1, <1>2

(* So every step keeps what each part keeps, *)
LEMMA ShopNextInv == ASSUME ShopInv, [ShopNext]_allVars PROVE ShopInv'
<1>1. /\ [CounterNext]_counterVars /\ [GstNext]_gstVars /\ [InvoicesNext]_invoiceVars /\ [ImagesNext]_imageVars
      /\ [PlansNext]_planVars /\ [PlatformNext]_platformVars /\ [SettingsNext]_settingsVars
      /\ [GatewayNext]_gatewayVars /\ [TenantsNext]_tenantVars /\ [CustomersNext]_customerVars
      /\ [CategoriesNext]_categoryVars /\ [CatalogNext]_catalogVars /\ [DomainsNext]_domainVars /\ [CartNext]_cartVars
  BY StepsOfParts
<1>2. CounterInv' /\ GstInv' /\ InvoicesInv' /\ ImagesInv'
  BY <1>1, CounterNextInv, GstNextInv, InvoicesNextInv, ImagesNextInv DEF ShopInv
<1>3. PlansInv' /\ PlatformInv' /\ SettingsInv'
  BY <1>1, PlansNextInv, PlatformNextInv, SettingsNextInv DEF ShopInv
<1>4. GatewayInv' /\ TenantsInv'
  BY <1>1, GatewayNextInv, TenantsNextInv DEF ShopInv
<1>5. CustomersInv' /\ DomainsInv' /\ CartInv'
  BY <1>1, CustomersNextInv, DomainsNextInv, CartNextInv DEF ShopInv
<1>6. CategoriesInv'
  BY <1>1, CategoriesNextInv DEF ShopInv
<1>7. CatalogInv'
  <2>1. CASE CatalogNext
    BY <2>1, CatalogNextInv DEF ShopInv
  <2>2. CASE UNCHANGED catalogVars
    BY <2>2, CatalogStays DEF ShopInv
  <2> QED BY <1>1, <2>1, <2>2
<1> QED BY <1>2, <1>3, <1>4, <1>5, <1>6, <1>7 DEF ShopInv

(* always. *)
LEMMA ShopAlways == ShopSpec => []ShopInv
<1>1. ShopSpec => ShopInit /\ [][ShopNext]_allVars
  BY DEF ShopSpec
<1>2. ShopInv /\ [ShopNext]_allVars => ShopInv'
  BY ShopNextInv
<1> QED BY <1>1, <1>2, ShopInitInv, PTL

(* What locks, unique indexes and the order of the steps keep whatever overlaps (KeptAlways): a row of an image has its
   file, a tax profile is of one state, nobody is let in after the end of a support visit, a plan's limit is passed by no
   more than the creates at once, a UPI payment pays one sale and there is one walk-in customer, an invoice adds up and
   its tax is the nearest, the numbers of a year have no gap, a seed that ends leaves whole tenants, and no payment is
   stranded when Razorpay is switched off. *)
THEOREM KeptWhateverOverlaps == ShopSpec => []KeptAlways
<1>1. ShopInv => /\ RowHasFile /\ ProfileOfOneState /\ NoEntryAfterTheEnd /\ SoftLimit /\ UpiPaidOnce /\ OneWalkIn
                 /\ InvoiceAddsUp /\ TagPriceIsPaid /\ TaxIsNearest /\ NumberedWithoutGaps /\ SeededIsWhole
                 /\ SwitchingOffStrandsNothing
  BY ImagesTell, SettingsTell, PlatformTells, PlansTell, GstTells, InvoicesTell, TenantsTell, GatewayTells
     DEF ShopInv, CounterInv
<1>2. ShopInv => KeptAlways
  BY <1>1 DEF KeptAlways, In
<1> QED BY <1>2, ShopAlways, PTL

(* What the code keeps by looking before it writes, as long as requests do not overlap (KeptInTurn): one default address
   of a type, one primary image, domain and category, barcodes apart, values that fit, a tree of categories, settings and
   limits that nobody overwrites, a manager of the platform, a cart bought once, a cached tenant that is the tenant. *)
THEOREM KeptByLookingFirst == ShopSpec => []KeptInTurn
<1>1. ShopInv => /\ OneDefaultInTurn /\ OnePrimaryInTurn /\ OnePrimaryDomainInTurn /\ CatalogInTurn
                 /\ OnlyTwoMovesMakeACycle /\ EverybodyIsInTheTree /\ SettingsKeptInTurn /\ LimitsKeptInTurn
                 /\ AManagerRemainsInTurn /\ WishesKeptInTurn /\ TenantCacheInTurn
  BY CustomersTell, ImagesTell, DomainsTell, CatalogTells, CategoriesTell, SettingsTell, PlansTell, PlatformTells, CartTells,
     TenantsTell DEF ShopInv
<1>2. ShopInv => KeptInTurn
  BY <1>1 DEF KeptInTurn, In
<1> QED BY <1>2, ShopAlways, PTL

(* The rows, requests and totals of every part have the values of the schema (ShopTypeOK). *)
THEOREM RowsOfTheSchema == ShopSpec => []ShopTypeOK
<1>1. ShopInv => /\ CustomersTypeOK /\ CategoriesTypeOK /\ CatalogTypeOK /\ ImagesTypeOK /\ DomainsTypeOK /\ SettingsTypeOK
                 /\ PlatformTypeOK /\ PlansTypeOK /\ CartTypeOK /\ CounterTypeOK /\ GstTypeOK /\ InvoicesTypeOK
                 /\ TenantsTypeOK /\ GatewayTypeOK
  BY CustomersTell, CategoriesTell, CatalogTells, ImagesTell, DomainsTell, SettingsTell, PlatformTells, PlansTell, CartTells,
     GstTells, InvoicesTell, TenantsTell, GatewayTells DEF ShopInv, CounterInv
<1>2. ShopInv => ShopTypeOK
  BY <1>1 DEF ShopTypeOK, In
<1> QED BY <1>2, ShopAlways, PTL

(* A domain that a tenant was the first to verify stays its own until it removes it (VerifiedStays). *)
THEOREM FirstToVerifyKeepsIt == ShopSpec => VerifiedStays
<1>1. VerifiedStays <=> [][KeepsVerified]_domainVars
  BY DEF VerifiedStays, KeepsVerified
<1>2. ShopInv /\ [ShopNext]_allVars => [KeepsVerified]_domainVars
  BY StepsOfParts, VerifiedKeptByStep DEF ShopInv
<1>3. ShopSpec => [][ShopNext]_allVars
  BY DEF ShopSpec
<1> QED BY <1>1, <1>2, <1>3, ShopAlways, PTL

=============================================================================
