------------------------------ MODULE Analytics ------------------------------
(***************************************************************************)
(* The figures of a tenant: sales, orders, revenue, stock, customers, the  *)
(* overview and the dashboard.  An answer is put together from several     *)
(* queries, none of them in a transaction, and is then cached for a while. *)
(*                                                                         *)
(* Instants are ticks of days; date_trunc makes buckets of days or of      *)
(* Week days.  Paging through the buckets is left to Listings.             *)
(***************************************************************************)
EXTENDS Integers, FiniteSets, FiniteSetsExt, Sequences, Functions, TLC

CONSTANTS
    Bill, Patron, Charge, Pile, \* ids of orders, customers, payments and stock rows
    Buyer,          \* [Bill -> Patron], whose order it is
    Worth,          \* [Bill \cup Charge -> amount]
    Wanted,         \* orders and stock rows of the category, product or warehouse that filters name
    Days, DayTicks, Week,
    Moment,         \* instants at which rows may be
    Ttl,
    MaxClock, MaxEvent, MaxStock, Repeated, \* bounds; only questions of these endpoints are asked again
    Never

ASSUME AnalyticsAssumption ==
    /\ Buyer \in [Bill -> Patron] /\ Worth \in [Bill \cup Charge -> Nat \ {0}]
    /\ {Days, DayTicks, Week, Ttl} \subseteq Nat \ {0} /\ MaxClock \in Nat /\ Moment \subseteq 0..(Days * DayTicks - 1)

VARIABLES
    order,      \* [Bill -> Never or [at, status]]
    payment,    \* [Charge -> Never or [at, status]]
    refund,     \* [Charge -> Never or [at, amount]], the one refund of a payment that completed
    customer,   \* [Patron -> Never or [at, gone]]
    pile,       \* [Pile -> quantity]
    asked,      \* the question
    asker,      \* where the request is, the queries that have run, whether anything happened between them
    cached,     \* Never or [got, calm, version, left]: left ticks of its life
    clock,      \* the version of the tables at the beginning of every tick so far
    version     \* how often the tables have changed

analyticsVars == <<order, payment, refund, customer, pile, asked, asker, cached, clock, version>>
tables == <<order, payment, refund, customer, pile>>

Day == 0..(Days - 1)
OrderStatuses == {"PENDING", "CANCELLED"}
Payments == [at : Moment, status : {"PENDING", "COMPLETED", "PARTIALLY_REFUNDED", "REFUNDED"}]

-----------------------------------------------------------------------------
BoundAtMidnight(day, isEnd) == day * DayTicks
(* parseDateBound: a date stands for its first instant, or for its last one at the end of the range. *)
BoundOf(day, isEnd) == IF isEnd THEN (day + 1) * DayTicks - 1 ELSE day * DayTicks
InRange(q, at) ==
    /\ q.from = Never \/ BoundOf(q.from, FALSE) <= at
    /\ q.to = Never \/ at <= BoundOf(q.to, TRUE)
Bucket(q, at) == IF q.groupBy = "day" THEN at \div DayTicks ELSE at \div (DayTicks * Week)

OrdersWhere(q) ==
    {o \in Bill : /\ order[o] # Never /\ InRange(q, order[o].at)
                  /\ q.status # Never => order[o].status = q.status
                  /\ q.filtered => o \in Wanted}
PaymentsWhere(q) ==
    {p \in Charge : payment[p] # Never /\ InRange(q, payment[p].at) /\ payment[p].status = q.status}
RefundsWhere(q) == {p \in Charge : refund[p] # Never /\ InRange(q, refund[p].at)}
CustomersWhere(q) == {c \in Patron : customer[c] # Never /\ ~customer[c].gone /\ InRange(q, customer[c].at)}
PilesWhere(q) == {i \in Pile : q.filtered => i \in Wanted}

GroupBy(S, key(_), value(_)) == [b \in {key(x) : x \in S} |-> value({x \in S : key(x) = b})]
SumWorth(S) == MapThenSumSet(LAMBDA x : Worth[x], S)
SumRefunds(S) == MapThenSumSet(LAMBDA p : refund[p].amount, S)
SumStock(S) == MapThenSumSet(LAMBDA i : pile[i], S)
Sales(S) == [count |-> Cardinality(S), total |-> SumWorth(S)]
OrderDay(q, o) == Bucket(q, order[o].at)
PaymentDay(q, p) == Bucket(q, payment[p].at)
RefundDay(q, p) == Bucket(q, refund[p].at)
ByStatus(S) == GroupBy(S, LAMBDA o : order[o].status, Cardinality)

-----------------------------------------------------------------------------
(* Each answer: what its queries return now. *)
SalesQueries(q) ==
    [rows |-> IF q.groupBy = Never THEN (0 :> Sales(OrdersWhere(q)))
              ELSE GroupBy(OrdersWhere(q), LAMBDA o : OrderDay(q, o), Sales),
     summary |-> Sales(OrdersWhere(q))]
OrdersQueries(q) ==
    [rows |-> IF q.groupBy = Never THEN <<>> ELSE GroupBy(OrdersWhere(q), LAMBDA o : OrderDay(q, o), Sales),
     count |-> Cardinality(OrdersWhere(q)), byStatus |-> ByStatus(OrdersWhere(q))]
(* Rows exist for buckets with a payment; refunds of other buckets are in the summary only. *)
RevenueQueries(q) ==
    [gross |-> SumWorth(PaymentsWhere(q)), refunded |-> SumRefunds(RefundsWhere(q)),
     rows |-> IF q.groupBy = Never THEN <<>> ELSE GroupBy(PaymentsWhere(q), LAMBDA p : PaymentDay(q, p), SumWorth),
     refundRows |-> IF q.groupBy = Never THEN <<>>
                    ELSE GroupBy(RefundsWhere(q), LAMBDA p : RefundDay(q, p), SumRefunds)]
InventoryQueries(q) ==
    [quantity |-> SumStock(PilesWhere(q)), items |-> Cardinality(PilesWhere(q)),
     byWarehouse |-> GroupBy(PilesWhere(q), LAMBDA i : i, SumStock)] \* a warehouse has one row here
(* Whoever has ordered is on the list of top customers, also when they are gone since. *)
CustomersQueries(q) ==
    [customers |-> Cardinality(CustomersWhere(q)), orders |-> Cardinality(OrdersWhere(q)),
     top |-> GroupBy(OrdersWhere(q), LAMBDA o : Buyer[o], Sales),
     buckets |-> IF q.groupBy = Never THEN <<>>
                 ELSE GroupBy(CustomersWhere(q), LAMBDA c : Bucket(q, customer[c].at), Cardinality)]
OverviewQueries(q) ==
    [orders |-> Cardinality(OrdersWhere(q)), byStatus |-> ByStatus(OrdersWhere(q)), sales |-> SumWorth(OrdersWhere(q)),
     revenue |-> SumWorth(PaymentsWhere([q EXCEPT !.status = "COMPLETED"])), refunded |-> SumRefunds(RefundsWhere(q))]

(* The sections of the dashboard, each of a service of its own. *)
OrdersOverview == [orders |-> Cardinality({o \in Bill : order[o] # Never}), byStatus |-> ByStatus({o \in Bill : order[o] # Never})]
PaymentsOverview ==
    LET all == {p \in Charge : payment[p] # Never}
    IN [payments |-> Cardinality(all), byStatus |-> GroupBy(all, LAMBDA p : payment[p].status, Cardinality),
        revenue |-> SumWorth({p \in all : payment[p].status = "COMPLETED"})]
InventoryOverview == SumStock(Pile)
Section(figures) == [ok |-> TRUE, figures |-> figures]
DashboardQueries ==
    [orders |-> Section(OrdersOverview), payments |-> Section(PaymentsOverview), inventory |-> Section(InventoryOverview)]

Answer(q) ==
    CASE q.endpoint = "sales" -> SalesQueries(q)
      [] q.endpoint = "orders" -> OrdersQueries(q)
      [] q.endpoint = "revenue" -> RevenueQueries(q)
      [] q.endpoint = "inventory" -> InventoryQueries(q)
      [] q.endpoint = "customers" -> CustomersQueries(q)
      [] q.endpoint = "overview" -> OverviewQueries(q)
      [] q.endpoint = "dashboard" -> DashboardQueries

Questions ==
    LET ranges == {<<Never, Never>>} \cup {r \in Day \X Day : r[1] <= r[2]}
        Ask(endpoint, groups, statuses, filters) ==
            {[endpoint |-> endpoint, from |-> r[1], to |-> r[2], groupBy |-> g, status |-> s, filtered |-> f] :
                r \in ranges, g \in groups, s \in statuses, f \in filters}
        groups == {Never, "day", "week"}
        Always(q) == q.from = Never
    IN UNION {Ask("sales", groups, {"PENDING", Never}, BOOLEAN), Ask("orders", groups, {"PENDING", Never}, {FALSE}),
              Ask("revenue", groups, {"COMPLETED"}, {FALSE}), Ask("customers", {Never, "day"}, {Never}, {FALSE}),
              Ask("overview", {Never}, {Never}, {FALSE}),
              {q \in Ask("inventory", {Never}, {Never}, BOOLEAN) : Always(q)},
              {q \in Ask("dashboard", {Never}, {Never}, {FALSE}) : Always(q)}}

(* What must be there for a question to be about anything; the other tables begin empty. *)
About(q, table) ==
    CASE table = "order" -> q.endpoint \in {"sales", "orders", "customers", "overview"}
      [] table = "payment" -> q.endpoint \in {"revenue", "dashboard"}
      [] table = "customer" -> q.endpoint = "customers"
      [] table = "pile" -> q.endpoint \in {"inventory", "dashboard"}

NobodyAsks == [at |-> "idle", got |-> <<>>, calm |-> TRUE, version |-> 0]

(* Refunds lie after their payments, and change their status. *)
AnalyticsInit ==
    /\ asked \in Questions
    /\ order \in IF About(asked, "order") THEN [Bill -> {Never} \cup [at : Moment, status : OrderStatuses]]
                                          ELSE {[o \in Bill |-> Never]}
    /\ payment \in IF About(asked, "payment") THEN [Charge -> {Never} \cup Payments] ELSE {[p \in Charge |-> Never]}
    /\ refund \in [Charge -> {Never} \cup [at : Moment, amount : {1}]]
    /\ asked.endpoint = "customers" => \A o \in Bill : order[o] # Never => order[o].status = "PENDING"
    /\ \A p \in Charge :
        /\ refund[p] # Never => payment[p] # Never /\ payment[p].at <= refund[p].at
        /\ payment[p] # Never =>
            payment[p].status \in CASE refund[p] = Never -> {"PENDING", "COMPLETED"}
                                    [] OTHER -> {IF Worth[p] = 1 THEN "REFUNDED" ELSE "PARTIALLY_REFUNDED"}
    /\ customer \in IF About(asked, "customer") THEN [Patron -> [at : Moment, gone : BOOLEAN]] ELSE {[c \in Patron |-> Never]}
    /\ pile \in IF About(asked, "pile") THEN [Pile -> 0..MaxStock] ELSE {[i \in Pile |-> 0]}
    /\ asker = NobodyAsks /\ cached = Never /\ clock = <<0>> /\ version = 0

-----------------------------------------------------------------------------
(* _cachedFetch and the dashboard's getOverview: a hit is answered from the cache, a miss by the queries. *)
Hit ==
    /\ asker.at = "idle" /\ cached # Never
    /\ asker' = [at |-> "done", got |-> cached.got, calm |-> cached.calm, version |-> cached.version]
    /\ UNCHANGED <<tables, asked, cached, clock, version>>
Miss ==
    /\ asker.at = "idle" /\ cached = Never
    /\ asker' = [NobodyAsks EXCEPT !.at = "load", !.version = version]
    /\ UNCHANGED <<tables, asked, cached, clock, version>>
(* One query: those of a Promise.all in any order, and the others too, as no property looks at which was first. *)
RunQuery(x) ==
    /\ asker.at = "load" /\ x \notin DOMAIN asker.got
    /\ asker' = [asker EXCEPT !.got = @ @@ (x :> Answer(asked)[x])]
    /\ UNCHANGED <<tables, asked, cached, clock, version>>
(* Promise.allSettled: a section that fails is an error in the answer, which is cached like any other. *)
SectionFails(x) ==
    /\ asker.at = "load" /\ x \notin DOMAIN asker.got /\ asked.endpoint = "dashboard"
    /\ asker' = [asker EXCEPT !.got = @ @@ (x :> [ok |-> FALSE])]
    /\ UNCHANGED <<tables, asked, cached, clock, version>>
Failed == asked.endpoint = "dashboard" /\ \A x \in DOMAIN asker.got : ~asker.got[x].ok
Loaded == asker.at = "load" /\ DOMAIN asker.got = DOMAIN Answer(asked)
(* cache.set, whose failure is only logged; nothing is cached when no section succeeded. *)
Store ==
    /\ Loaded
    /\ asker' = [asker EXCEPT !.at = IF Failed THEN "failed" ELSE "done"]
    /\ cached' \in IF Failed THEN {cached}
                   ELSE {cached, [got |-> asker.got, calm |-> asker.calm, version |-> asker.version, left |-> Ttl]}
    /\ UNCHANGED <<tables, asked, clock, version>>
AskAgain ==
    /\ asker.at \in {"done", "failed"} /\ asked.endpoint \in Repeated
    /\ asker' = NobodyAsks
    /\ UNCHANGED <<tables, asked, cached, clock, version>>

Ageless == cached
Aged == IF cached = Never \/ cached.left = 1 THEN Never ELSE [cached EXCEPT !.left = @ - 1]
(* Time passes, and the entry expires.  An answer is put together within a tick. *)
Tick ==
    /\ asker.at # "load" /\ Len(clock) <= MaxClock /\ asked.endpoint \in Repeated
    /\ clock' = Append(clock, version)
    /\ cached' = Aged
    /\ asker' = NobodyAsks
    /\ UNCHANGED <<tables, asked, version>>

(* What the shop does meanwhile.  Bound: while an answer is put together, or of questions that are asked again. *)
Today == CHOOSE t \in Moment : \A m \in Moment : m <= t
Changes ==
    /\ version < MaxEvent /\ version' = version + 1
    /\ (asker.got # <<>> /\ asker.at = "load") \/ asked.endpoint \in Repeated
    /\ asker' = IF asker.at = "load" /\ asker.got # <<>> THEN [asker EXCEPT !.calm = FALSE] ELSE asker
    /\ UNCHANGED <<asked, cached, clock>>
TakeOrder(o) ==
    /\ About(asked, "order") /\ order[o] = Never
    /\ order' = [order EXCEPT ![o] = [at |-> Today, status |-> "PENDING"]]
    /\ Changes /\ UNCHANGED <<payment, refund, customer, pile>>
CancelBill(o) ==
    /\ order[o] # Never /\ order[o].status = "PENDING"
    /\ order' = [order EXCEPT ![o].status = "CANCELLED"]
    /\ Changes /\ UNCHANGED <<payment, refund, customer, pile>>
TakeMoney(p) ==
    /\ payment[p] # Never /\ payment[p].status = "PENDING"
    /\ payment' = [payment EXCEPT ![p].status = "COMPLETED"]
    /\ Changes /\ UNCHANGED <<order, refund, customer, pile>>
GiveBack(p, amount) ==
    /\ payment[p] # Never /\ payment[p].status = "COMPLETED" /\ amount <= Worth[p]
    /\ payment' = [payment EXCEPT ![p].status = IF amount = Worth[p] THEN "REFUNDED" ELSE "PARTIALLY_REFUNDED"]
    /\ refund' = [refund EXCEPT ![p] = [at |-> Today, amount |-> amount]]
    /\ Changes /\ UNCHANGED <<order, customer, pile>>
MoveStock(i, n) ==
    /\ About(asked, "pile") /\ n # pile[i]
    /\ pile' = [pile EXCEPT ![i] = n]
    /\ Changes /\ UNCHANGED <<order, payment, refund, customer>>

AnalyticsNext ==
    \/ Hit \/ Miss \/ Store \/ AskAgain \/ Tick
    \/ \E x \in DOMAIN Answer(asked) : RunQuery(x) \/ SectionFails(x)
    \/ \E o \in Bill : TakeOrder(o) \/ CancelBill(o)
    \/ \E p \in Charge : TakeMoney(p) \/ \E amount \in 1..Worth[p] : GiveBack(p, amount)
    \/ \E i \in Pile, n \in 0..MaxStock : MoveStock(i, n)

AnalyticsSpec == AnalyticsInit /\ [][AnalyticsNext]_analyticsVars

-----------------------------------------------------------------------------
AnalyticsTypeOK ==
    /\ asked \in Questions /\ asker.at \in {"idle", "load", "done", "failed"}
    /\ DOMAIN asker.got \subseteq DOMAIN Answer(asked)
    /\ \A p \in Charge : payment[p] # Never => payment[p] \in Payments
    /\ cached # Never => cached.left \in 1..Ttl

SumOf(f) == MapThenSumSet(LAMBDA x : f[x], DOMAIN f)
SumOfRows(f) ==
    [count |-> MapThenSumSet(LAMBDA b : f[b].count, DOMAIN f), total |-> MapThenSumSet(LAMBDA b : f[b].total, DOMAIN f)]
(* The rows of the revenue answer, as shown: each with the refunds of its bucket. *)
Net(got, b) == got.rows[b] - (IF b \in DOMAIN got.refundRows THEN got.refundRows[b] ELSE 0)

AddsUp(q, got) ==
    CASE q.endpoint = "sales" -> SumOfRows(got.rows) = got.summary
      [] q.endpoint = "orders" ->
            /\ SumOf(got.byStatus) = got.count
            /\ q.groupBy # Never => SumOfRows(got.rows).count = got.count
      [] q.endpoint = "revenue" /\ q.groupBy # Never ->
            /\ SumOf(got.rows) = got.gross
            /\ DOMAIN got.refundRows \subseteq DOMAIN got.rows =>
                    MapThenSumSet(LAMBDA b : Net(got, b), DOMAIN got.rows) = got.gross - got.refunded
      [] q.endpoint = "inventory" -> SumOf(got.byWarehouse) = got.quantity /\ Cardinality(DOMAIN got.byWarehouse) = got.items
      [] q.endpoint = "customers" ->
            /\ SumOfRows(got.top).count = got.orders
            /\ q.groupBy # Never => SumOf(got.buckets) = got.customers
      [] q.endpoint = "overview" -> SumOf(got.byStatus) = got.orders
      [] q.endpoint = "dashboard" ->
            /\ got.orders.ok => SumOf(got.orders.figures.byStatus) = got.orders.figures.orders
            /\ got.payments.ok => SumOf(got.payments.figures.byStatus) = got.payments.figures.payments
      [] OTHER -> TRUE

(* The rows, statuses and warehouses of an answer add up to its summary, when nothing happened while its queries ran
   (analytics.repository.js:212, 430, 588); of refunds only when each falls into a bucket with a payment.  And the days
   of a range add up to the range, no order being of two days or of none (parseDateBound, analytics.repository.js:16). *)
FiguresAddUp ==
    /\ asker.at = "done" /\ asker.calm => AddsUp(asked, asker.got)
    /\ asker.at = "idle" /\ asked.from # Never =>
        LET OnDay(d) == [asked EXCEPT !.from = d, !.to = d]
        IN /\ Cardinality(OrdersWhere(asked)) = MapThenSumSet(LAMBDA d : Cardinality(OrdersWhere(OnDay(d))), asked.from..asked.to)
           /\ SumRefunds(RefundsWhere(asked)) = MapThenSumSet(LAMBDA d : SumRefunds(RefundsWhere(OnDay(d))), asked.from..asked.to)

(* What is answered was read at most Ttl ticks ago, from the cache or not (_cachedFetch, analytics.service.js:38). *)
AnswersAreRecent ==
    asker.at = "done" => asker.version >= clock[IF Len(clock) < Ttl THEN 1 ELSE Len(clock) - Ttl + 1]

(* The same when the shop goes on meanwhile, and for the refunds of buckets without a payment ("so each row carries
   refunded and net like the summary does", analytics.repository.js:595): TLC refutes both. *)
FiguresAlwaysAddUp == asker.at = "done" => AddsUp(asked, asker.got)
RowsCarryRefunds ==
    asker.at = "done" /\ asker.calm /\ asked.endpoint = "revenue" /\ asked.groupBy # Never =>
        MapThenSumSet(LAMBDA b : Net(asker.got, b), DOMAIN asker.got.rows) = asker.got.gross - asker.got.refunded

=============================================================================
