------------------------------ MODULE Listings ------------------------------
(***************************************************************************)
(* What a reader sees of a table page by page, and what an export writes   *)
(* of it batch by batch, while other requests add, change and remove rows. *)
(*                                                                         *)
(* A list of the API is two queries at once, the rows of the page (skip,   *)
(* take) and the count of all of them; the shop window is one query, and   *)
(* counts by another only what is past its last page.  Lists differ in     *)
(* what they may be sorted by and in whether the id breaks ties (Lists).   *)
(* Rows that are equal to the sort come in any order, a new one in each    *)
(* query.  Whether a row meets the filters (Lists) is the flag match.      *)
(* An export follows the id of the last row it wrote.                      *)
(***************************************************************************)
EXTENDS Lists, Integers

CONSTANTS
    Id,        \* ids, in their order
    Value,      \* of a column that is neither an instant nor an id
    Limit,      \* page sizes that the schemas let through
    MaxTake,    \* 100
    Batch,      \* 1000
    MaxInstant, MaxChurn \* bounds

ASSUME ListingsAssumption ==
    /\ Id \subseteq Nat \ {0} /\ Value \subseteq Nat /\ Nil \notin Id
    /\ MaxTake \in Nat \ {0} /\ Limit \subseteq 1..MaxTake /\ Batch \in Nat \ {0}

VARIABLES
    row,        \* [Id -> Nil or [match, key]]: key is the column the list is sorted by
    list,       \* the shape of the list that is read
    reader,     \* the page that is asked for, what its queries have returned, and all that was shown
    export,     \* the cursor, and the ids written
    churn,      \* what the others did since the reading began, and in how many steps
    stayed      \* rows that matched all the time since then

listingVars == <<row, list, reader, export, churn, stayed>>

-----------------------------------------------------------------------------
AllShapes == UNION {l.shapes : l \in TheLists}

-----------------------------------------------------------------------------
There == {r \in Id : row[r] # Nil}
Shown == {r \in There : row[r].match}
Before(r, s) ==
    \/ IF list.down THEN row[r].key > row[s].key ELSE row[r].key < row[s].key
    \/ row[r].key = row[s].key /\ (list.unique => r < s)
(* The orders in which the database may return what matches. *)
Sorted == {s \in SetToSeqs(Shown) : \A i, j \in DOMAIN s : i < j => Before(s[i], s[j])}

Smaller(a, b) == IF a <= b THEN a ELSE b
Part(s, skip, take) == SubSeq(s, skip + 1, Smaller(skip + take, Len(s)))
PageFromOne(s, page, limit) == Part(s, page * limit, Smaller(limit, MaxTake))
PageByPages(s, page, limit) == Part(s, page - 1, Smaller(limit, MaxTake))
PageOf(s, page, limit) == Part(s, (page - 1) * limit, Smaller(limit, MaxTake))
PagesOf(total, limit) == (total + Smaller(limit, MaxTake) - 1) \div Smaller(limit, MaxTake)

Keys ==
    CASE list.column \in {"created", "updated"} -> 1..MaxInstant
      [] list.column = "value" -> Value
      [] OTHER -> Id \* as many names as rows
Latest == IF There = {} THEN 1 ELSE CHOOSE k \in {row[r].key : r \in There} : \A r \in There : row[r].key <= k
(* An instant is the latest so far or a later one; values are free, or free but distinct. *)
NewKey(r, k) ==
    CASE list.column \in {"created", "updated"} -> k \in Latest..Latest + 1
      [] list.column = "value" -> TRUE
      [] OTHER -> \A s \in There \ {r} : row[s].key # k

ListingsInit ==
    /\ list \in AllShapes
    \* a row that does not match is, to begin with, as good as none
    /\ row \in {f \in [Id -> {Nil} \cup [match : {TRUE}, key : Keys]] :
            list.column = "distinct" => \A r, s \in Id : r # s /\ f[r] # Nil /\ f[s] # Nil => f[r].key # f[s].key}
    /\ reader \in [limit : Limit, page : {1}, rows : {Nil}, total : {Nil}, shown : {<<>>}, at : {"list", "away"}]
    /\ export = [last |-> Nil, out |-> <<>>, at |-> IF reader.at = "list" THEN "away" ELSE "read"]
    /\ reader.at = "away" => list \in ByValue /\ \A l \in Limit : reader.limit <= l \* an export is none of the lists
    /\ churn = [kinds |-> {}, steps |-> 0] /\ stayed = Shown

-----------------------------------------------------------------------------
(* The two queries of one answer, in either order. *)
FindMany ==
    /\ ~list.once /\ reader.at = "list" /\ reader.rows = Nil
    /\ \E s \in Sorted : reader' = [reader EXCEPT !.rows = PageOf(s, reader.page, reader.limit)]
    /\ UNCHANGED <<row, list, export, churn, stayed>>
CountAll ==
    /\ reader.at = "list" /\ reader.total = Nil
    /\ list.once => reader.rows # Nil \* past the last page of the shop window
    /\ reader' = [reader EXCEPT !.total = Cardinality(Shown)]
    /\ UNCHANGED <<row, list, export, churn, stayed>>
(* The shop window: every row of the page knows how many there are; the first page has none only if there are none. *)
FindAndCount ==
    /\ list.once /\ reader.at = "list" /\ reader.rows = Nil
    /\ \E s \in Sorted :
        LET rows == PageOf(s, reader.page, reader.limit)
        IN reader' = [reader EXCEPT !.rows = rows,
                                    !.total = IF rows # <<>> THEN Len(s) ELSE IF reader.page > 1 THEN Nil ELSE 0]
    /\ UNCHANGED <<row, list, export, churn, stayed>>
(* The reader turns to the next page for as long as the answer says that there is one. *)
Turn ==
    /\ reader.at = "list" /\ reader.rows # Nil /\ reader.total # Nil
    /\ reader' = [reader EXCEPT !.shown = @ \o reader.rows, !.rows = Nil, !.total = Nil, !.page = @ + 1,
                                !.at = IF reader.page < PagesOf(reader.total, reader.limit) THEN "list" ELSE "done"]
    /\ UNCHANGED <<row, list, export, churn, stayed>>

WithCursor ==
    LET rest == SelectSeq(SetToSortSeq(Shown, LAMBDA r, s : r < s), LAMBDA r : export.last = Nil \/ r >= export.last)
    IN Part(rest, 0, Batch)
(* findMany with orderBy id, take, and from the second batch on cursor and skip 1: the rows from the cursor's id
   on, less the first; none when the row of the cursor is gone. *)
FromCursor ==
    LET byId == SetToSortSeq(Shown, LAMBDA r, s : r < s)
        rest == SelectSeq(byId, LAMBDA r : r >= export.last)
    IN CASE export.last = Nil -> Part(byId, 0, Batch)
         [] export.last # Nil /\ row[export.last] = Nil -> <<>>
         [] OTHER -> Part(rest, 1, Batch)
NextBatch == FromCursor
ExportBatch ==
    /\ export.at = "read"
    /\ export' = [export EXCEPT
            !.out = @ \o NextBatch,
            !.last = IF NextBatch = <<>> THEN @ ELSE Last(NextBatch),
            !.at = IF Len(NextBatch) < Batch THEN "done" ELSE @]
    /\ UNCHANGED <<row, list, reader, churn, stayed>>

-----------------------------------------------------------------------------
(* What others do meanwhile.  Bound: MaxChurn steps, and keys within Keys. *)
Busy == reader.at = "list" \/ export.at = "read"
Torn == reader.at = "list" /\ (reader.rows = Nil) # (reader.total = Nil)
Happens(what) ==
    /\ Busy /\ churn.steps < MaxChurn
    /\ churn' = [kinds |-> churn.kinds \cup what \cup (IF Torn THEN {"torn"} ELSE {}), steps |-> churn.steps + 1]
    /\ UNCHANGED <<list, reader, export>>
Moved(r) == IF export.last = r THEN {"cursor"} ELSE {}
AddRow(r, k) ==
    /\ row[r] = Nil /\ NewKey(r, k)
    /\ row' = [row EXCEPT ![r] = [match |-> TRUE, key |-> k]]
    /\ Happens({"added"}) /\ UNCHANGED stayed
ChangeRow(r, match, k) ==
    /\ row[r] # Nil
    /\ IF list.column = "created" THEN k = row[r].key ELSE NewKey(r, k)
    /\ row' = [row EXCEPT ![r] = [match |-> match, key |-> k]] /\ row' # row
    /\ Happens({"changed"} \cup (IF match THEN {} ELSE Moved(r)))
    /\ stayed' = IF match THEN stayed ELSE stayed \ {r}
RemoveRow(r) ==
    /\ row[r] # Nil
    /\ row' = [row EXCEPT ![r] = Nil]
    /\ Happens({"removed"} \cup Moved(r))
    /\ stayed' = stayed \ {r}

ListingsNext ==
    \/ FindMany \/ CountAll \/ FindAndCount \/ Turn \/ ExportBatch
    \/ \E r \in Id, k \in Keys : AddRow(r, k) \/ \E match \in BOOLEAN : ChangeRow(r, match, k)
    \/ \E r \in Id : RemoveRow(r)

ListingsSpec == ListingsInit /\ [][ListingsNext]_listingVars

-----------------------------------------------------------------------------
(* Rows have keys of their column, and what is shown are ids. *)
ListingsTypeOK ==
    /\ list \in AllShapes
    /\ \A r \in There : row[r].key \in Keys
    /\ reader.shown \in Seq(Id) /\ export.out \in Seq(Id) /\ stayed \subseteq Shown

Total == list.unique \/ list.column = "distinct"
(* "pages are stable" (storefront.catalog.js:35): of lists whose order is total, a reader who turns all the pages
   sees each row exactly once while nothing happens; and misses none that was there all the time while rows are only
   added, however they push each other down, as long as none is added between the two queries of one answer.  Of the
   other lists, which may show one row twice and another never, only the number of rows is as announced. *)
PagesAreStable ==
    reader.at = "done" =>
        /\ churn.kinds = {} => Len(reader.shown) = Cardinality(Shown)
        /\ Total /\ churn.kinds = {} => reader.shown \in Sorted
        /\ Total /\ churn.kinds \subseteq {"added"} => stayed \subseteq Range(reader.shown)

(* "Reads a tenant-scoped table in id-cursor batches" (reports.builders.js:14): no row is written twice whatever
   happens; none that matched all the time is left out while the row of the cursor stays as it is. *)
ExportIsComplete ==
    /\ IsInjective(export.out)
    /\ export.at = "done" /\ "cursor" \notin churn.kinds => stayed \subseteq Range(export.out)

(* The same for lists without a total order, for a row added between the two queries, and for a cursor whose row
   goes away: TLC refutes all three. *)
AnyListIsStable == reader.at = "done" /\ churn.kinds = {} => reader.shown \in Sorted
AnswersAgree == Total /\ reader.at = "done" /\ churn.kinds \subseteq {"added", "torn"} => stayed \subseteq Range(reader.shown)
ExportAlwaysComplete == export.at = "done" => stayed \subseteq Range(export.out)

=============================================================================
