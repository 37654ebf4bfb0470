--------------------------- MODULE MCIdempotency ---------------------------
(* Small instances of Idempotency: one request, two repeats, and a different one. *)
EXTENDS Idempotency, TLC

CONSTANTS r1, r2, r3, r4, k1, k2

OneKey == [r \in Requests |-> k1]
Repeats == [r \in Requests |-> IF r = r4 THEN "other" ELSE "same"]

=============================================================================
