------------------------------- MODULE Catalog -------------------------------
(***************************************************************************)
(* Products, their variants, the attributes of variants and the categories *)
(* a product is filed under (ProductService, VariantService,               *)
(* AttributeService).                                                      *)
(*                                                                         *)
(* A request looks things up, then writes; only the replacement of a       *)
(* product's categories and of a variant's attribute values is a           *)
(* transaction, which deletes the rows it sees and inserts its own.  The   *)
(* database keeps foreign keys (with cascades) and one row per product and *)
(* category; nothing keeps barcodes, primary categories or values apart.   *)
(* One attribute stands for all; SKUs, slugs and codes have unique indexes.*)
(***************************************************************************)
EXTENDS Naturals, FiniteSets

CONSTANTS
    Product, Variant, Shelf,   \* Shelf: category ids
    Barcode,
    Merchant,                  \* requests
    Blank                      \* no barcode, no value, no request

Value == {"12", "red"}
Types == {"absent", "TEXT", "NUMBER"}
Codes == Barcode \cup {Blank}
PlaceRows == [shelf : Shelf, primary : BOOLEAN]
ValueRows == [value : Value, by : Merchant]
(* A request between two of its statements: what it was asked and what it saw. *)
WorkInHand ==
    [step : {"place", "placing"}, id : Product, shelves : SUBSET Shelf, primary : Shelf, saw : SUBSET PlaceRows]
    \cup [step : {"delete"}, id : Product]
    \cup [step : {"insert", "set", "valued"}, id : Variant, of : Product \cup {Blank}, code : Codes,
          value : Value \cup {Blank}, saw : SUBSET ValueRows]
    \cup [step : {"write"}, id : Variant, code : Codes]
    \cup [step : {"change"}, to : Types]

ASSUME BlankAssumption == Blank \notin Barcode \cup Value \cup WorkInHand

VARIABLES
    product,    \* state of the row
    placed,     \* product_categories
    variant,    \* state, product and barcode of the row
    attribute,  \* its data type, or that it is absent
    values,     \* product_variant_attributes, with the request that wrote them
    merchant,   \* requests in progress
    crossed     \* two requests were in progress at once

catalogVars == <<product, placed, variant, attribute, values, merchant, crossed>>

Same == "same"
Fits(type, v) == type = "TEXT" \/ v = "12"    \* validateAttributeValue

LiveProducts == {p \in Product : product[p] = "live"}
LiveVariants == {v \in Variant : variant[v].state = "live"}
VariantsOf(p) == {v \in LiveVariants : variant[v].of = p}
Scanned(code) == {v \in LiveVariants : variant[v].barcode = code}
NoVariant == [state |-> "none", of |-> Blank, barcode |-> Blank]
ValuesInUse == UNION {values[v] : v \in LiveVariants}

CatalogInit ==
    /\ product = [p \in Product |-> "none"] /\ placed = [p \in Product |-> {}]
    /\ variant = [v \in Variant |-> NoVariant]
    /\ attribute = "absent" /\ values = [v \in Variant |-> {}]
    /\ merchant = [m \in Merchant |-> Blank] /\ crossed = FALSE

(* Bound: the last requests to begin are the first two that overlap. *)
BeginWork(m, work) ==
    /\ merchant[m] = Blank /\ ~crossed
    /\ merchant' = [merchant EXCEPT ![m] = work]
    /\ crossed' = (crossed \/ \E n \in Merchant : merchant[n] # Blank)
Does(m, step) == merchant[m] # Blank /\ merchant[m].step = step
(* Ids are random: none is given again while a request may still hold it. *)
FreshId(i) == \A m \in Merchant : merchant[m] # Blank => i \notin {merchant[m][f] : f \in {"id", "of"} \cap DOMAIN merchant[m]}
Continue(m, step) == merchant' = [merchant EXCEPT ![m].step = step] /\ UNCHANGED crossed
Done(m) == merchant' = [merchant EXCEPT ![m] = Blank] /\ UNCHANGED crossed

-----------------------------------------------------------------------------
(* ProductService.create: the row, then its categories; update and setCategories start at these.
   primary is the requested category, or the first of the list. *)
CreateProduct(m, p, shelves, primary) ==
    /\ product[p] = "none" /\ FreshId(p)
    /\ product' = [product EXCEPT ![p] = "live"]
    /\ BeginWork(m, [step |-> "place", id |-> p, shelves |-> shelves, primary |-> primary, saw |-> {}])
    /\ UNCHANGED <<placed, variant, attribute, values>>
SetCategories(m, p, shelves, primary) ==
    /\ p \in LiveProducts
    /\ BeginWork(m, [step |-> "place", id |-> p, shelves |-> shelves, primary |-> primary, saw |-> {}])
    /\ UNCHANGED <<product, placed, variant, attribute, values>>
(* deleteMany works on the rows it sees, waiting for and skipping those another request deletes. *)
DeletePlaces(m) ==
    /\ Does(m, "place")
    /\ merchant' = [merchant EXCEPT ![m].step = "placing", ![m].saw = placed[merchant[m].id]]
    /\ UNCHANGED <<product, placed, variant, attribute, values, crossed>>
Forget(m, step, gone) ==
    merchant' = [n \in Merchant |->
        IF n = m THEN Blank
        ELSE IF Does(n, step) /\ merchant[n].id = merchant[m].id
             THEN [merchant[n] EXCEPT !.saw = @ \ gone] ELSE merchant[n]]
AddPlaces(m) ==   \* a bug: the old rows stay
    LET w == merchant[m]
        new == {c \in w.shelves : \A r \in placed[w.id] : r.shelf # c}
    IN /\ Does(m, "place") /\ w.id \in LiveProducts
       /\ placed' = [placed EXCEPT ![w.id] = @ \cup {[shelf |-> c, primary |-> c = w.primary] : c \in new}]
       /\ Done(m) /\ UNCHANGED <<product, variant, attribute, values>>
(* createMany skips the categories that are there. *)
CommitPlaces(m) ==
    LET w == merchant[m]
        kept == placed[w.id] \ w.saw
        new == {c \in w.shelves : \A r \in kept : r.shelf # c}
    IN /\ Does(m, "placing") /\ w.id \in LiveProducts
       /\ placed' = [placed EXCEPT ![w.id] = kept \cup {[shelf |-> c, primary |-> c = w.primary] : c \in new}]
       /\ Forget(m, "placing", w.saw)
       /\ UNCHANGED <<product, variant, attribute, values, crossed>>

(* delete: the variants are counted first; the row takes its variants and places with it. *)
CountVariants(m, p) ==
    /\ p \in LiveProducts /\ VariantsOf(p) = {}
    /\ BeginWork(m, [step |-> "delete", id |-> p])
    /\ UNCHANGED <<product, placed, variant, attribute, values>>
DeleteProduct(m) ==
    LET p == merchant[m].id
    IN /\ Does(m, "delete") /\ p \in LiveProducts
       /\ product' = [product EXCEPT ![p] = "none"] /\ placed' = [placed EXCEPT ![p] = {}]
       /\ variant' = [v \in Variant |-> IF v \in VariantsOf(p) THEN NoVariant ELSE variant[v]]
       /\ values' = [v \in Variant |-> IF v \in VariantsOf(p) THEN {} ELSE values[v]]
       /\ Done(m) /\ UNCHANGED attribute

(* VariantService.create: the product and the barcode are looked up, the row is inserted, then its
   value is set.  A value that is refused then leaves the variant without it. *)
FindProduct(m, v, p, code, value) ==
    /\ variant[v].state = "none" /\ FreshId(v) /\ p \in LiveProducts
    /\ code # Blank => Scanned(code) = {}
    /\ BeginWork(m, [step |-> "insert", id |-> v, of |-> p, code |-> code, value |-> value, saw |-> {}])
    /\ UNCHANGED <<product, placed, variant, attribute, values>>
InsertVariant(m) ==
    LET w == merchant[m]
    IN /\ Does(m, "insert") /\ w.of \in LiveProducts /\ variant[w.id].state = "none"
       /\ variant' = [variant EXCEPT ![w.id] = [state |-> "live", of |-> w.of, barcode |-> w.code]]
       /\ IF w.value = Blank THEN Done(m) ELSE Continue(m, "set")
       /\ UNCHANGED <<product, placed, attribute, values>>

(* update: its value is replaced if one is given, then its columns are written.  The transaction deletes
   the values it sees and checks the new one against the attribute's type. *)
FindVariantUnscanned(m, v, code, value) ==   \* a bug: the new barcode is not looked up
    /\ v \in LiveVariants
    /\ BeginWork(m, IF value = Same THEN [step |-> "write", id |-> v, code |-> code]
                    ELSE [step |-> "set", id |-> v, of |-> Blank, code |-> code, value |-> value, saw |-> {}])
    /\ UNCHANGED <<product, placed, variant, attribute, values>>
FindVariant(m, v, code, value) ==
    /\ v \in LiveVariants
    /\ code \notin {Blank, variant[v].barcode} => Scanned(code) = {}
    /\ BeginWork(m, IF value = Same THEN [step |-> "write", id |-> v, code |-> code]
                    ELSE [step |-> "set", id |-> v, of |-> Blank, code |-> code, value |-> value, saw |-> {}])
    /\ UNCHANGED <<product, placed, variant, attribute, values>>
DeleteValues(m) ==
    /\ Does(m, "set")
    /\ merchant[m].value # Blank => attribute # "absent" /\ Fits(attribute, merchant[m].value)
    /\ merchant' = [merchant EXCEPT ![m].step = "valued", ![m].saw = values[merchant[m].id]]
    /\ UNCHANGED <<product, placed, variant, attribute, values, crossed>>
(* The rows are inserted if the attribute and the variant are still there; then, when the variant is
   updated, its columns are written in a statement of their own. *)
CommitValues(m) ==
    LET w == merchant[m]
        kept == values[w.id] \ w.saw
    IN /\ Does(m, "valued") /\ w.id \in LiveVariants
       /\ w.value # Blank => attribute # "absent"
       /\ values' = [values EXCEPT ![w.id] = kept \cup {[value |-> x, by |-> m] : x \in {w.value} \cap Value}]
       /\ merchant' = [n \in Merchant |->
            IF n = m THEN IF w.of = Blank THEN [step |-> "write", id |-> w.id, code |-> w.code] ELSE Blank
            ELSE IF Does(n, "valued") /\ merchant[n].id = w.id
                 THEN [merchant[n] EXCEPT !.saw = @ \ w.saw] ELSE merchant[n]]
       /\ UNCHANGED <<product, placed, variant, attribute, crossed>>
WriteVariant(m) ==
    /\ Does(m, "write") /\ merchant[m].id \in LiveVariants
    /\ variant' = [variant EXCEPT ![merchant[m].id].barcode = merchant[m].code]
    /\ Done(m) /\ UNCHANGED <<product, placed, attribute, values>>
DeleteVariant(v) ==
    /\ v \in LiveVariants
    /\ variant' = [variant EXCEPT ![v] = NoVariant] /\ values' = [values EXCEPT ![v] = {}]
    /\ UNCHANGED <<product, placed, attribute, merchant, crossed>>

(* AttributeService: an attribute in use keeps its type and is not deleted; the uses are counted first. *)
CreateAttribute(type) ==
    /\ attribute = "absent" /\ attribute' = type
    /\ UNCHANGED <<product, placed, variant, values, merchant, crossed>>
CountUses(m, change) ==
    /\ attribute # "absent" /\ (ValuesInUse = {} \/ change = attribute)
    /\ BeginWork(m, [step |-> "change", to |-> change])
    /\ UNCHANGED <<product, placed, variant, attribute, values>>
ChangeAttribute(m) ==
    /\ Does(m, "change") /\ attribute # "absent"
    /\ attribute' = merchant[m].to
    /\ values' = IF merchant[m].to = "absent" THEN [v \in Variant |-> {}] ELSE values
    /\ Done(m) /\ UNCHANGED <<product, placed, variant>>

(* The request is refused, a foreign key fails, or the request dies. *)
GiveUpWork(m) == merchant[m] # Blank /\ Done(m) /\ UNCHANGED <<product, placed, variant, attribute, values>>

(* Categories and variants of a product only meet in the product's row: either side of the catalogue
   can be looked at alone. *)
ProductsNext ==
    \/ \E m \in Merchant, p \in Product :
        \/ \E s \in (SUBSET Shelf) \ {{}}, c \in Shelf : CreateProduct(m, p, s, c)
        \/ CountVariants(m, p)
    \/ \E m \in Merchant : DeleteProduct(m) \/ GiveUpWork(m)
PlacesNext ==
    \/ \E m \in Merchant, p \in Product, s \in (SUBSET Shelf) \ {{}}, c \in Shelf : SetCategories(m, p, s, c)
    \/ \E m \in Merchant : DeletePlaces(m) \/ CommitPlaces(m)
VariantsNext ==
    \/ \E m \in Merchant, v \in Variant, b \in Barcode \cup {Blank}, x \in Value \cup {Blank} :
        \/ \E p \in Product : FindProduct(m, v, p, b, x)
        \/ FindVariant(m, v, b, x) \/ FindVariant(m, v, b, Same)
    \/ \E m \in Merchant : \/ InsertVariant(m) \/ DeleteValues(m) \/ CommitValues(m)
                           \/ WriteVariant(m) \/ ChangeAttribute(m)
                           \/ \E t \in Types : CountUses(m, t)
    \/ \E v \in Variant : DeleteVariant(v)
    \/ \E t \in {"TEXT", "NUMBER"} : CreateAttribute(t)
CatalogNext == ProductsNext \/ PlacesNext \/ VariantsNext

CatalogSpec == CatalogInit /\ [][CatalogNext]_catalogVars

-----------------------------------------------------------------------------
(* Rows have the values of the schema and its foreign keys hold: a variant has a product, a place is in
   a product once, a value belongs to a variant and an attribute. *)
CatalogTypeOK ==
    /\ product \in [Product -> {"none", "live"}] /\ crossed \in BOOLEAN
    /\ placed \in [Product -> SUBSET PlaceRows] /\ merchant \in [Merchant -> WorkInHand \cup {Blank}]
    /\ variant \in [Variant -> [state : {"none", "live"}, of : Product \cup {Blank}, barcode : Codes]]
    /\ \A v \in LiveVariants : variant[v].of \in LiveProducts
    /\ attribute \in Types
    /\ \A p \in Product : placed[p] # {} => p \in LiveProducts
    /\ \A p \in Product : \A r, q \in placed[p] : r.shelf = q.shelf => r = q
    /\ values \in [Variant -> SUBSET ValueRows]
    /\ \A v \in Variant : values[v] # {} => v \in LiveVariants /\ attribute # "absent"

(* What the look-ups are for, while requests do not overlap: no two variants with one barcode
   ("Barcode already exists", variants.service.js:33), at most one primary category of a product, one
   value per variant, and that of the attribute's type ("Cannot change data type of attribute that is
   in use", attributes.service.js:52). *)
CatalogInTurn ==
    crossed \/ /\ \A b \in Barcode : Cardinality(Scanned(b)) <= 1
               /\ \A p \in Product : Cardinality({r \in placed[p] : r.primary}) <= 1
               /\ \A v \in Variant : Cardinality(values[v]) <= 1
               /\ \A r \in ValuesInUse : Fits(attribute, r.value)

(* Each of them for overlapping requests, which TLC refutes. *)
BarcodesDiffer == \A b \in Barcode : Cardinality(Scanned(b)) <= 1
OnePrimaryCategory == \A p \in Product : Cardinality({r \in placed[p] : r.primary}) <= 1
ValuesFit == \A r \in ValuesInUse : Fits(attribute, r.value)

=============================================================================
