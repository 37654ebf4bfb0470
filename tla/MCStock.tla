------------------------------ MODULE MCStock ------------------------------
(* Small instance of Stock: two rows, two or three open transactions. *)
EXTENDS Stock, FiniteSetsExt, TLC

leg(k, d) == [key |-> k, by |-> d]
op(kind, legs, locks) == [kind |-> kind, legs |-> legs, locks |-> locks]

(* Orders with their lines in both orders, and two lines on one row. *)
Reserves == { op("reserve", <<leg(1, -1), leg(2, -1)>>, <<1, 2>>),
              op("reserve", <<leg(2, -2), leg(1, -1)>>, <<1, 2>>),
              op("reserve", <<leg(1, -1), leg(1, -1)>>, <<1, 1>>) }
Releases == { op("release", <<leg(2, 1), leg(1, 1)>>, <<1, 2>>) }
Adjusts == { op("adjust", <<leg(1, 2)>>, <<1>>), op("adjust", <<leg(2, -1)>>, <<2>>) }
Transfers == { op("transfer", <<leg(1, -1), leg(2, 1)>>, <<1, 2>>),
               op("transfer", <<leg(2, -1), leg(1, 1)>>, <<1, 2>>) }

AllOps == Reserves \cup Releases \cup Adjusts \cup Transfers
(* Stock arriving in a warehouse that never held the variant, and its buyers. *)
FirstReceiptOps == { op("adjust", <<leg(2, 2)>>, <<2>>),
                     op("transfer", <<leg(1, -1), leg(2, 1)>>, <<1, 2>>),
                     op("reserve", <<leg(2, -1)>>, <<2>>) }
SortedOps == Reserves \cup Adjusts \cup Transfers

(* The net change of an operation, per row. *)
EffectOf(o) ==
    [k \in Keys |->
        MapThenSumSet(LAMBDA i : o.legs[i].by,
                      {i \in 1..Len(o.legs) : o.legs[i].key = k})]

Atomic == INSTANCE StockAtomic WITH Effects <- {EffectOf(o) : o \in Ops}

(* The statement-level transactions implement the indivisible ones: between *)
(* begin and commit nothing shows, and the commit is the whole operation.   *)
ImplementsAtomic == Atomic!Spec

Symmetry == Permutations(Txs)

=============================================================================
