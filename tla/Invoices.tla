------------------------------ MODULE Invoices ------------------------------
(***************************************************************************)
(* What an order costs and which invoice it is (OrderService.create with   *)
(* orders/gst).  First the GST of a line, its split into CGST, SGST and    *)
(* IGST, and the totals, in paise: lines are taxed one after the other, and*)
(* an amount is never negative by then (the code refuses it).  Then the    *)
(* numbers: each order takes the next of its financial year from a counter *)
(* row that it locks until it commits, and dates itself after.             *)
(***************************************************************************)
EXTENDS Integers, Sequences, FiniteSets

CONSTANTS
    Gross,      \* unit price x quantity - discount of a line, in paise
    Discount,
    Rate,       \* GST rates in hundredths of a percent
    Explicit,   \* taxes given for a line instead of a rate
    MaxLine,
    NoTax,      \* no explicit tax
    Seller,     \* transactions that create an order
    MaxInvoice, \* bound on the numbers of a year
    LastYear,   \* bound on the financial years
    NoSale

\* rates are at most 100 % (products.validation.js:7, workspace.validation.js:38)
ASSUME AmountsAssumption ==
    Gross \cup Discount \cup Explicit \subseteq Nat /\ Rate \subseteq 0..10000 /\ MaxLine \in Nat /\ NoTax \notin Nat
ASSUME BoundsAssumption == MaxInvoice \in Nat /\ LastYear \in Nat

VARIABLES
    sale,       \* inclusive: prices include GST; intra: within the shop's state; charges: not a composition dealer
    line,       \* what was worked out for each line
    total,      \* the sums over the lines
    counter,    \* invoice_sequences.last_number by year, committed (0: no row yet)
    seller,     \* transactions in progress
    invoice,    \* the committed orders: year and number, and the year they are dated in
    year        \* the financial year it is now

gstVars == <<sale, line, total>>
invoiceVars == <<counter, seller, invoice, year>>

-----------------------------------------------------------------------------
(* Math.round of a quotient of naturals *)
RoundDown(a, b) == a \div b
RoundHalfUp(a, b) == (2 * a + b) \div (2 * b)
GstCents(taxable, rate) == RoundHalfUp(taxable * rate, 10000)
IncludedGstCents(gross, rate) == RoundHalfUp(gross * rate, 10000 + rate)
LineTax(gross, rate, explicit) ==
    IF explicit # NoTax THEN [taxable |-> gross, tax |-> explicit]
    ELSE IF sale.inclusive THEN [taxable |-> gross - IncludedGstCents(gross, rate), tax |-> IncludedGstCents(gross, rate)]
    ELSE [taxable |-> gross, tax |-> GstCents(gross, rate)]
SplitInHalves(tax) ==
    IF sale.intra THEN [cgst |-> tax \div 2, sgst |-> tax \div 2, igst |-> 0] ELSE [cgst |-> 0, sgst |-> 0, igst |-> tax]
SplitTax(tax) ==
    IF sale.intra THEN [cgst |-> tax \div 2, sgst |-> tax - tax \div 2, igst |-> 0] ELSE [cgst |-> 0, sgst |-> 0, igst |-> tax]

GstInit ==
    /\ sale \in [inclusive : BOOLEAN, intra : BOOLEAN, charges : BOOLEAN]
    /\ line = <<>>
    /\ total = [subtotal |-> 0, discount |-> 0, tax |-> 0, cgst |-> 0, sgst |-> 0, igst |-> 0]

(* One turn of the loop over the items; rate is the product's own, or the shop's, or none for exempt goods. *)
AddLine(gross, discount, rate, explicit) ==
    LET effective == IF sale.charges THEN rate ELSE 0
        t == LineTax(gross, effective, explicit)
        split == SplitTax(t.tax)
    IN /\ Len(line) < MaxLine
       /\ line' = Append(line, [gross |-> gross, rate |-> effective, given |-> explicit # NoTax, taxable |-> t.taxable,
                                tax |-> t.tax, lineTotal |-> t.taxable + t.tax])
       /\ total' = [subtotal |-> total.subtotal + t.taxable + discount, discount |-> total.discount + discount,
                    tax |-> total.tax + t.tax, cgst |-> total.cgst + split.cgst, sgst |-> total.sgst + split.sgst,
                    igst |-> total.igst + split.igst]
       /\ UNCHANGED sale

GstNext == \E gross \in Gross, discount \in Discount, rate \in Rate, explicit \in Explicit \cup {NoTax} :
              AddLine(gross, discount, rate, explicit)

GstSpec == GstInit /\ [][GstNext]_gstVars

-----------------------------------------------------------------------------
(* The numbers. *)
FinancialYear == 0..LastYear
Selling == [step : {"order", "number", "dated"}, fy : FinancialYear, number : 0..MaxInvoice, dated : FinancialYear]
ASSUME NoSaleAssumption == NoSale \notin Selling
YearLocked(y) == \E s \in Seller : seller[s] # NoSale /\ seller[s].step # "order" /\ seller[s].fy = y
Sells(s, step) == seller[s] # NoSale /\ seller[s].step = step

InvoicesInit ==
    /\ counter = [y \in FinancialYear |-> 0]
    /\ seller = [s \in Seller |-> NoSale]
    /\ invoice = {} /\ year = 0

(* The transaction has its stock (see Orders), and asks for the financial year. *)
BeginOrder(s) ==
    /\ seller[s] = NoSale
    /\ seller' = [seller EXCEPT ![s] = [step |-> "order", fy |-> year, number |-> 0, dated |-> 0]]
    /\ UNCHANGED <<counter, invoice, year>>
(* INSERT ... ON CONFLICT DO UPDATE ... RETURNING *)
Take(s) ==
    /\ Sells(s, "order") /\ counter[seller[s].fy] < MaxInvoice
    /\ seller' = [seller EXCEPT ![s].step = "number", ![s].number = counter[seller[s].fy] + 1]
    /\ UNCHANGED <<counter, invoice, year>>
TakeNumber(s) ==
    /\ Take(s)
    /\ ~YearLocked(seller[s].fy)   \* else wait for the row's lock
DateInvoice(s) ==
    /\ Sells(s, "number")
    /\ seller' = [seller EXCEPT ![s].step = "dated", ![s].dated = year]
    /\ UNCHANGED <<counter, invoice, year>>
CommitInvoice(s) ==
    /\ Sells(s, "dated")
    /\ counter' = [counter EXCEPT ![seller[s].fy] = seller[s].number]
    /\ invoice' = invoice \cup {[by |-> s, fy |-> seller[s].fy, number |-> seller[s].number, dated |-> seller[s].dated]}
    /\ seller' = [seller EXCEPT ![s] = NoSale]
    /\ UNCHANGED year
(* Rolled back: not enough stock, a deadlock, a lost connection; the number goes back with the row. *)
RollBackInvoice(s) ==
    /\ seller[s] # NoSale
    /\ seller' = [seller EXCEPT ![s] = NoSale]
    /\ UNCHANGED <<counter, invoice, year>>
(* The first of April. *)
TurnOfYear ==
    /\ year < LastYear /\ year' = year + 1
    /\ UNCHANGED <<counter, seller, invoice>>

InvoicesNext ==
    \/ \E s \in Seller : BeginOrder(s) \/ TakeNumber(s) \/ DateInvoice(s) \/ CommitInvoice(s) \/ RollBackInvoice(s)
    \/ TurnOfYear

InvoicesSpec == InvoicesInit /\ [][InvoicesNext]_invoiceVars

-----------------------------------------------------------------------------
SumOfLines == LET sum[n \in 0..Len(line)] == IF n = 0 THEN 0 ELSE sum[n - 1] + line[n].lineTotal IN sum[Len(line)]
OrderTotal == total.subtotal - total.discount + total.tax

(* Lines and totals are amounts. *)
GstTypeOK ==
    /\ Len(line) <= MaxLine
    /\ \A n \in DOMAIN line : line[n].taxable \in Nat /\ line[n].tax \in Nat
    /\ \A f \in DOMAIN total : total[f] \in Nat

(* "CGST + SGST (halves; any odd paisa goes to SGST)" (gst.js:57): not a paisa is lost between the lines, the
   total and its parts; inside the state the halves differ by at most one paisa for each line. *)
InvoiceAddsUp ==
    /\ OrderTotal = SumOfLines
    /\ total.cgst + total.sgst + total.igst = total.tax
    /\ sale.intra => total.igst = 0 /\ total.sgst - total.cgst \in 0..Len(line)
    /\ ~sale.intra => total.igst = total.tax

(* "GST already inside a tax-inclusive amount" (gst.js:30): the buyer pays what was on the tag, and the tax taken
   out of it is the tax of what is left, to within the one rounding. *)
TagPriceIsPaid ==
    sale.inclusive => \A n \in DOMAIN line : ~line[n].given =>
        /\ line[n].lineTotal = line[n].gross
        /\ line[n].tax - GstCents(line[n].taxable, line[n].rate) \in {-1, 0, 1}

(* The tax is the rate's share of the amount, to half a paisa. *)
TaxIsNearest ==
    ~sale.inclusive => \A n \in DOMAIN line : ~line[n].given =>
        LET off == 10000 * line[n].tax - line[n].gross * line[n].rate IN -5000 <= off /\ off <= 5000

OfYear(y) == {i \in invoice : i.fy = y}

(* Counters, invoices and transactions have the values of the schema. *)
InvoicesTypeOK ==
    /\ counter \in [FinancialYear -> 0..MaxInvoice] /\ year \in FinancialYear
    /\ seller \in [Seller -> Selling \cup {NoSale}]
    /\ invoice \subseteq [by : Seller, fy : FinancialYear, number : 1..MaxInvoice, dated : FinancialYear]

(* "Next invoice number for this financial year (the upsert locks the counter row)" (orders.service.js): whoever
   sells at once, rolls back or stops, the invoices of a year are numbered 1, 2, 3 with no gap and none twice. *)
NumberedWithoutGaps ==
    \A y \in FinancialYear :
        /\ {i.number : i \in OfYear(y)} = 1..counter[y]
        /\ Cardinality(OfYear(y)) = counter[y]

(* An invoice is dated in the year it is numbered in, which TLC refutes: the year is asked for before the counter's
   lock is waited for, the date after it. *)
DatedInItsYear == \A i \in invoice : i.dated = i.fy

=============================================================================
