----------------------------- MODULE MCPayments -----------------------------
(* Small instances of Payments: two attempts to pay one order. *)
EXTENDS Payments, TLC

CONSTANTS o1, p1, p2, r1, r2

event(n, p, to, t) == [id |-> n, payment |-> p, to |-> to, txn |-> t]

(* Success, failure and refund of the first payment; success and refund name one *)
(* transaction of the provider.                                                  *)
SameOrder == (p1 :> o1) @@ (p2 :> o1)
ProviderEvents ==
    { event(1, p1, "COMPLETED", 1), event(2, p1, "FAILED", 2), event(3, p1, "REFUNDED", 1) }
NoEvents == {}

Symmetry == Permutations(Requests)

=============================================================================
