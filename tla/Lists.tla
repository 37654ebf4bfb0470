------------------------------- MODULE Lists -------------------------------
(***************************************************************************)
(* The lists of the API, and which rows a request is reply of.              *)
(*                                                                         *)
(* For each list: what a row must hold to be the reader's (holds), the     *)
(* filters in the order in which the code writes them into the where of    *)
(* its query (where), those about the variants of a product (some), those  *)
(* that are always there (always) or that the route refuses (refused), and *)
(* what the list may be sorted by (shapes).  A filter is what is asked for, *)
(* the key of the where that it is written to, the columns it looks at,    *)
(* and how it compares them.  A search for a part of a text is an equality *)
(* here: a text is the one thing that a search can find in it.             *)
(*                                                                         *)
(* The route lets a request through or refuses it, the repository writes   *)
(* its filters into one where, key by key, and reads the page and the      *)
(* count with it; the shop window is read in one query, and its cards are  *)
(* a promise about the page of the product.  A where speaks of one row at  *)
(* a time, so there is one: every column holds one of a few values; those  *)
(* of holds are 1 if the row is the reader's own, not deleted, or whatever *)
(* the list demands.  How pages follow each other is in Listings.          *)
(***************************************************************************)
EXTENDS Naturals, FiniteSets, SequencesExt

CONSTANTS
    MaxAsked, \* bound: filters of one request, a range counted as one
    Nil

ASSUME ListsAssumption == MaxAsked \in Nat /\ Nil \notin BOOLEAN

VARIABLES
    about,  \* the list that is asked
    query,  \* the filters of the request, with their values
    sample, \* the row: its columns, and the variants of a product
    reply   \* how far it is, whether the page has the row and the count counted it, and the card that shows it

filterVars == <<about, query, sample, reply>>

-----------------------------------------------------------------------------
Filter(ask, key, columns, test) == <<[ask |-> ask, key |-> key, columns |-> columns, test |-> test]>>
Equal(column) == Filter(column, column, {column}, "same")
Search(columns) == Filter("search", "OR", columns, "same")
Between(least, most, column) == Filter(least, least, {column}, "least") \o Filter(most, most, {column}, "most")

(* What each list may be sorted by: an instant of creation, of the last change, a value, or a value no two
   rows share; downwards or upwards; with the id to break ties or without.  Most lists are two queries, the page and
   the count; one of them is a single query. *)
Shapes(columns, unique) == [column : columns, down : BOOLEAN, unique : {unique}, once : {FALSE}]
NewestFirst(unique) == [column : {"created"}, down : {TRUE}, unique : {unique}, once : {FALSE}]
OldestFirst(unique) == [column : {"created"}, down : {FALSE}, unique : {unique}, once : {FALSE}]
ByValue == [column : {"value"}, down : {FALSE}, unique : {FALSE}, once : {FALSE}]

ListOf(holds, where, shapes) ==
    [holds |-> holds, where |-> where, some |-> <<>>, always |-> {}, refused |-> {}, shapes |-> shapes]

-----------------------------------------------------------------------------
UserLists == ListOf({"member"}, \* memberships of this tenant, ACTIVE
    Search({"email", "firstName", "lastName"}) \o Equal("status") \o Equal("role"),
    Shapes({"created", "updated", "value", "distinct"}, FALSE)) \* by e-mail, too
OrderLists == ListOf({"tenant"}, Equal("status") \o Equal("customer"), Shapes({"created", "updated", "value"}, FALSE))
OrderHistoryLists == ListOf({"tenant", "order"}, <<>>, OldestFirst(FALSE))
CustomerLists == ListOf({"tenant", "kept"}, Search({"email", "firstName", "lastName", "phone"}),
    Shapes({"created", "updated", "value"}, TRUE))
OrdersOfCustomerLists == ListOf({"tenant", "customer"}, Equal("status"), NewestFirst(TRUE))
PaymentLists == ListOf({"tenant"}, Equal("status") \o Equal("order"), Shapes({"created"}, TRUE))
(* A search is written to the key that the SKU was written to. *)
StockLists == ListOf({"tenant"},
    Equal("warehouse") \o Equal("variant") \o Filter("sku", "productVariant", {"sku"}, "same")
        \o Filter("search", "productVariant", {"sku", "barcode"}, "same"),
    [column : {"updated"}, down : {TRUE}, unique : {FALSE}, once : {FALSE}])
(* The threshold is 10 when none is given. *)
LowStockLists == [ListOf({"tenant"}, Filter("threshold", "quantity", {"quantity"}, "most") \o Equal("warehouse"), ByValue)
    EXCEPT !.always = {"threshold"}]
MovementLists == ListOf({"tenant"}, Equal("variant") \o Equal("warehouse") \o Equal("type") \o Equal("reason"),
    NewestFirst(FALSE))
NoticeLists == ListOf({"tenant", "visible"}, \* the reader's own or everybody's
    Equal("isRead") \o Equal("type") \o Equal("channel"), Shapes({"created"}, FALSE))
VariantLists == ListOf({"tenant", "product"}, Equal("status"),
    Shapes({"created", "updated", "value", "distinct"}, FALSE)) \* by SKU, too
(* The route takes true and false for isActive and only strings arrive (categories.validation.js:49). *)
CategoryLists == [ListOf({"tenant"}, Search({"name", "slug", "description"}) \o Equal("isActive") \o Equal("parent"),
    Shapes({"created", "updated", "value", "distinct"}, FALSE)) EXCEPT !.refused = {"isActive"}] \* by slug, too
AttributeLists == ListOf({"tenant"}, Search({"name", "code"}) \o Equal("dataType"),
    Shapes({"created", "updated", "value", "distinct"}, FALSE)) \* by code, too
AttributeValueLists == ListOf({"tenant", "attribute"}, <<>>, ByValue)
ImageLists == ListOf({"tenant", "product"}, Equal("variant"), ByValue)
WarehouseLists == ListOf({"tenant"}, Search({"name", "code", "city"}) \o Equal("isActive"), OldestFirst(FALSE))
RoleLists == ListOf({"tenant"}, <<>>, OldestFirst(FALSE))
AuditLists == ListOf({"tenant"},
    Equal("action") \o Equal("resource") \o Equal("resourceId") \o Equal("user") \o Between("from", "to", "created"),
    Shapes({"created", "value"}, FALSE))
ActivityLists == ListOf({"tenant"}, Equal("action") \o Equal("user") \o Between("from", "to", "created"),
    Shapes({"created", "value"}, FALSE))
PlatformAuditLists == ListOf({}, Equal("action") \o Equal("tenant") \o Equal("actor") \o Between("from", "to", "created"),
    NewestFirst(TRUE))
TenantLists == ListOf({"shop"}, Equal("status") \o Search({"name", "slug"}), NewestFirst(FALSE)) \* not the platform's own
TemplateLists == ListOf({"tenant"}, Equal("channel") \o Equal("isActive") \o Filter("search", "name", {"name"}, "same"),
    [column : {"distinct"}, down : {FALSE}, unique : {FALSE}, once : {FALSE}]) \* name and channel
ReportLists == ListOf({"tenant"}, Equal("type") \o Equal("status"), NewestFirst(TRUE))
ScheduleLists == ListOf({"tenant"}, <<>>, NewestFirst(TRUE))
ShiftLists == ListOf({"tenant"}, Equal("register"), NewestFirst(FALSE))
ShopperOrderLists == ListOf({"tenant", "customer"}, Equal("status"), NewestFirst(TRUE))

(* Products, which may also be asked for by what their variants are. *)
ProductLists == [ListOf({"tenant"}, Search({"name", "description", "brand"}) \o Equal("status") \o Equal("category"),
    Shapes({"created", "updated", "value"}, FALSE)) EXCEPT
        !.some = Equal("sku") \o Equal("barcode") \o Between("minPrice", "maxPrice", "price")
                    \o Equal("color") \o Equal("size")]
(* The shop window: "ties broken by id so pages are stable" (storefront.catalog.js:35), and page and total in one query. *)
StoreLists == [ListOf({"tenant", "active", "kept"}, Search({"name", "brand", "description"}) \o Equal("category"),
    [column : {"created"}, down : {TRUE}, unique : {TRUE}, once : {TRUE}]
        \cup [column : {"value"}, down : BOOLEAN, unique : {TRUE}, once : {TRUE}]) EXCEPT
        !.some = Between("minPrice", "maxPrice", "price") \o Filter("inStock", "inStock", {"stock"}, "same")]

TheLists ==
    {UserLists, OrderLists, OrderHistoryLists, CustomerLists, OrdersOfCustomerLists, PaymentLists, StockLists,
     LowStockLists, MovementLists, NoticeLists, VariantLists, CategoryLists, AttributeLists, AttributeValueLists,
     ImageLists, WarehouseLists, RoleLists, AuditLists, ActivityLists, PlatformAuditLists, TenantLists, TemplateLists,
     ReportLists, ScheduleLists, ShiftLists, ShopperOrderLists, ProductLists, StoreLists}

-----------------------------------------------------------------------------
(* Three prices: a range can lie between two variants. *)
Column(c) == IF c = "price" THEN 1..3 ELSE 1..2
Asks(l) == {l.where[i].ask : i \in DOMAIN l.where} \cup {l.some[i].ask : i \in DOMAIN l.some}
(* "inStock=false" is as good as not asked. *)
Values(f) ==
    CASE f = "inStock" -> {1}
      [] f \in {"minPrice", "maxPrice"} -> Column("price")
      [] OTHER -> Column(f)
CountedAs(f) == CASE f = "maxPrice" -> "minPrice" [] f = "to" -> "from" [] OTHER -> f
ListRequests(l) ==
    UNION {{q \in [asked -> 1..3] : \A f \in asked : q[f] \in Values(f)} :
        asked \in {s \in SUBSET Asks(l) : l.always \subseteq s /\ Cardinality({CountedAs(f) : f \in s}) <= MaxAsked}}
AskedIn(filters, q) == SelectSeq(filters, LAMBDA f : f.ask \in DOMAIN q)
ColumnsOf(filters) == UNION {filters[i].columns : i \in DOMAIN filters}

(* Only columns that something was asked of differ: the where has no condition on the others.  Of what the row must
   hold it lacks one thing at most: each of them excludes it. *)
SampleRows(columns, free) == {c \in [columns -> 1..3] : \A k \in columns : c[k] \in IF k \in free THEN Column(k) ELSE {1}}
Variants(l, q) ==
    SampleRows(ColumnsOf(l.some) \cup {"sellable"},
         ColumnsOf(AskedIn(l.some, q)) \cup (IF l = StoreLists THEN {"sellable", "price", "stock"} ELSE {}))
RowsFor(l, q) ==
    LET columns == l.holds \cup ColumnsOf(l.where)
    IN [columns : {c \in SampleRows(columns, l.holds \cup ColumnsOf(AskedIn(l.where, q))) :
                        Cardinality({k \in l.holds : c[k] # 1}) <= 1},
        variants : IF l.some = <<>> THEN {{}} ELSE {{v, w} : v, w \in Variants(l, q)} \cup {{}}]

FiltersInit ==
    /\ about \in TheLists
    /\ query \in ListRequests(about)
    /\ sample \in RowsFor(about, query)
    /\ reply = [at |-> "asked", page |-> Nil, total |-> Nil, card |-> Nil]

-----------------------------------------------------------------------------
Compares(f, value, columns) ==
    CASE f.test = "same" -> \E c \in f.columns : columns[c] = value
      [] f.test = "least" -> \A c \in f.columns : columns[c] >= value
      [] f.test = "most" -> \A c \in f.columns : columns[c] <= value

(* The filters that are left in the where: one that is written to a key replaces what was there. *)
Written(filters, q) ==
    LET asked == AskedIn(filters, q)
    IN {asked[i] : i \in {i \in DOMAIN asked : \A j \in DOMAIN asked : j > i => asked[j].key # asked[i].key}}
WhereHolds(columns) ==
    /\ \A c \in about.holds : columns[c] = 1
    /\ \A f \in Written(about.where, query) : Compares(f, query[f.ask], columns)

Attribute == {"color", "size"}
(* The rows that give a variant its attributes, one for each. *)
AttributesOf(v) == {[code |-> c, value |-> v[c]] : c \in Attribute \cap DOMAIN v}
(* attributes: {some: {AND: ...}}: one row of attributes that is all that was asked. *)
AttributesMatch(v) ==
    LET asked == Attribute \cap DOMAIN query
    IN asked # {} => \E a \in AttributesOf(v) : \A c \in asked : a.code = c /\ a.value = query[c]
OwnFilters == {f \in Written(about.some, query) : f.ask \notin Attribute}
(* variants: {some: {AND: ...}}: one variant for all the filters, whether or not it can be sold. *)
SomeVariant ==
    (\E i \in DOMAIN about.some : about.some[i].ask \in DOMAIN query) =>
        \E v \in sample.variants : (\A f \in OwnFilters : Compares(f, query[f.ask], v)) /\ AttributesMatch(v)

(* The shop window joins products and sellable variants; BOOL_OR of the price range, and BOOL_OR of the stock. *)
Sellable == {v \in sample.variants : v["sellable"] = 1}
PriceFilters == {f \in Written(about.some, query) : f.ask # "inStock"}
PriceInRange(v) == \A f \in PriceFilters : Compares(f, query[f.ask], v)
SellsSomeAtEachBound ==
    /\ Sellable # {} /\ \A f \in PriceFilters : \E v \in Sellable : Compares(f, query[f.ask], v)
    /\ "inStock" \in DOMAIN query => \E v \in Sellable : v["stock"] = 1
SellsSome ==
    /\ \E v \in Sellable : PriceInRange(v)
    /\ "inStock" \in DOMAIN query => \E v \in Sellable : v["stock"] = 1

Found == WhereHolds(sample.columns) /\ (IF about = StoreLists THEN SellsSome ELSE SomeVariant)

PricesOf(vs) == {v["price"] : v \in vs}
Lowest(s) == CHOOSE p \in s : \A q \in s : p <= q
Highest(s) == CHOOSE p \in s : \A q \in s : p >= q
CardOfAll(vs) ==
    LET all == sample.variants
    IN [from |-> Lowest(PricesOf(all)), to |-> Highest(PricesOf(all)), inStock |-> \E v \in vs : v["stock"] = 1]
Card(vs) == [from |-> Lowest(PricesOf(vs)), to |-> Highest(PricesOf(vs)), inStock |-> \E v \in vs : v["stock"] = 1]

-----------------------------------------------------------------------------
(* validate: the shop window refuses a price range upside down. *)
Refused ==
    \/ DOMAIN query \cap about.refused # {}
    \/ about = StoreLists /\ {"minPrice", "maxPrice"} \subseteq DOMAIN query /\ query["minPrice"] > query["maxPrice"]
Route ==
    /\ reply.at = "asked"
    /\ reply' = [reply EXCEPT !.at = IF Refused THEN "refused" ELSE "reading"]
    /\ UNCHANGED <<about, query, sample>>
(* Two queries with one where: their order is of no matter to a row that stays as it is. *)
ReadPageAndCount ==
    /\ reply.at = "reading" /\ about # StoreLists
    /\ reply' = [reply EXCEPT !.page = Found, !.total = Found, !.at = "done"]
    /\ UNCHANGED <<about, query, sample>>
(* Without the total that is there when no row is. *)
ReadWindowByItsRows ==
    /\ reply.at = "reading" /\ about = StoreLists
    /\ reply' = [at |-> "done", page |-> Found, total |-> IF Found THEN Found ELSE Nil,
                  card |-> IF Found THEN Card(Sellable) ELSE Nil]
    /\ UNCHANGED <<about, query, sample>>
ReadWindow ==
    /\ reply.at = "reading" /\ about = StoreLists
    /\ reply' = [at |-> "done", page |-> Found, total |-> Found, card |-> IF Found THEN Card(Sellable) ELSE Nil]
    /\ UNCHANGED <<about, query, sample>>

FiltersNext == Route \/ ReadPageAndCount \/ ReadWindow
FiltersSpec == FiltersInit /\ [][FiltersNext]_filterVars

-----------------------------------------------------------------------------
(* The page of the product (getProduct): an own, active, kept product with a sellable variant, and those variants. *)
PageOpens == (\A c \in StoreLists.holds : sample.columns[c] = 1) /\ Sellable # {}
PricesOfPage == {v["price"] : v \in Sellable}
(* What setCartItem looks for, of quantity 1. *)
CanBePut(v) == (\A c \in StoreLists.holds : sample.columns[c] = 1) /\ v \in Sellable /\ v["stock"] = 1

(* What was asked, filter by filter: of the filters of the product each on its own, of those of its variants one variant
   for all; in the shop window, where "a product matches a price range when one of its sellable variants is in it"
   (storefront.catalog.js:69), one for the price and one for the stock. *)
Meets(f, columns) == f.ask \in DOMAIN query => Compares(f, query[f.ask], columns)
Meant ==
    /\ \A c \in about.holds : sample.columns[c] = 1
    /\ \A i \in DOMAIN about.where : Meets(about.where[i], sample.columns)
    /\ IF about = StoreLists
       THEN \E v, w \in Sellable :
            \A i \in DOMAIN about.some : Meets(about.some[i], IF about.some[i].ask = "inStock" THEN w ELSE v)
       ELSE (\E i \in DOMAIN about.some : about.some[i].ask \in DOMAIN query) =>
            \E v \in sample.variants : \A i \in DOMAIN about.some : Meets(about.some[i], v)

FiltersTypeOK ==
    /\ DOMAIN query \subseteq Asks(about) /\ about.holds \subseteq DOMAIN sample.columns
    /\ reply.at \in {"asked", "reading", "refused", "done"}
    /\ reply.at = "done" => reply.page \in BOOLEAN /\ reply.total \in BOOLEAN
    /\ reply.card # Nil => about = StoreLists

(* The requests that the code gets wrong: a SKU together with a search of the stock, and two attributes of products. *)
Collides ==
    \/ about = StockLists /\ {"sku", "search"} \subseteq DOMAIN query
    \/ about = ProductLists /\ Attribute \subseteq DOMAIN query

(* Whatever else is asked, together, of any list: the page has, and the count counts, just the rows that meet each
   of the filters (products.repository.js:62, storefront.catalog.js:57). *)
AnswersMeetTheFilters ==
    reply.at = "done" /\ ~Collides => reply.page = Meant /\ reply.total = Meant

(* What the card of the shop window says of a product (storefront.catalog.js:84) is what its page shows
   (storefront.catalog.js:114) and what the basket takes (storefront.shop.js:62), though each asks in its own words: the
   product opens, its cheapest and its dearest variant cost that much, and it is in stock just when some variant can be
   put into the basket. *)
CardsTellTheTruth ==
    reply.card # Nil =>
        /\ PageOpens
        /\ PricesOfPage \subseteq reply.card.from..reply.card.to
        /\ {reply.card.from, reply.card.to} \subseteq PricesOfPage
        /\ reply.card.inStock = \E v \in sample.variants : CanBePut(v)

(* "filters warehouseId, variantId, sku, search" (IMPLEMENTED_FEATURES.md:634): refuted, the search is written over
   the SKU. *)
StockFiltersCompose == about = StockLists /\ reply.at = "done" => reply.page = Meant
(* "AND across multiple attrs" (PULSEOPS_FRONTEND_BACKEND_HANDOFF.md:620): refuted, no row of attributes is two. *)
AttributesCompose == about = ProductLists /\ reply.at = "done" => reply.page = Meant
(* "isActive" among the filters of GET /api/v1/categories (PULSEOPS_FRONTEND_BACKEND_HANDOFF.md:174): refuted, the
   route refuses it. *)
CategoriesCanBeFiltered == about = CategoryLists => reply.at # "refused"

=============================================================================
