---------------------------- MODULE StockAtomic ----------------------------
(***************************************************************************)
(* What the stock tables promise to the rest of PulseOps: an order, a      *)
(* cancellation, an adjustment or a transfer changes every inventory row   *)
(* it touches in one indivisible step, writes the movements that explain   *)
(* the change in that same step, and never takes a row below zero.         *)
(***************************************************************************)
EXTENDS Integers

CONSTANTS
    Keys,       \* inventory rows: (variant, warehouse) pairs of one tenant
    Effects     \* the changes an operation may make: functions from Keys to Int

VARIABLES
    qty,        \* inventory.quantity, 0 for a row that does not exist
    ledger      \* sum of inventory_movements.quantity_changed per row

vars == <<qty, ledger>>

Init ==
    /\ qty \in [Keys -> Nat]
    /\ ledger = qty

Apply(effect) ==
    /\ \A k \in Keys : qty[k] + effect[k] >= 0
    /\ qty' = [k \in Keys |-> qty[k] + effect[k]]
    /\ ledger' = [k \in Keys |-> ledger[k] + effect[k]]

Next == \E effect \in Effects : Apply(effect)

Spec == Init /\ [][Next]_vars

=============================================================================
