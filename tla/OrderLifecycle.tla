-------------------------- MODULE OrderLifecycle --------------------------
(***************************************************************************)
(* What orders promise to the shop.  Placing an order takes its goods out  *)
(* of stock.  An open order ships, is cancelled, or is dropped (set to     *)
(* CANCELLED by hand, which gives nothing back): one of the three, and it  *)
(* is never undone.  Cancelling gives the goods back exactly once; goods   *)
(* that have left are never put back by the order.  An order may stray     *)
(* from this, and then never looks as if it had kept it.                   *)
(***************************************************************************)
CONSTANT Orders

VARIABLES
    stage,      \* "none", "open", "gone", "cancelled", "dropped" or "stray"
    taken       \* orders whose goods are out of stock

vars == <<stage, taken>>

Init ==
    /\ stage = [o \in Orders |-> "none"]
    /\ taken = {}

(* "open" for an order to be prepared, "gone" for one handed over at once. *)
Place(o, to) ==
    /\ stage[o] = "none"
    /\ stage' = [stage EXCEPT ![o] = to]
    /\ taken' = taken \cup {o}

(* Shipped to the customer, or written off: the goods stay out. *)
Close(o, to) ==
    /\ stage[o] = "open"
    /\ stage' = [stage EXCEPT ![o] = to]
    /\ UNCHANGED taken

Cancel(o) ==
    /\ stage[o] = "open"
    /\ stage' = [stage EXCEPT ![o] = "cancelled"]
    /\ taken' = taken \ {o}

Stray(o) ==
    /\ stage[o] # "none"
    /\ stage' = [stage EXCEPT ![o] = "stray"]
    /\ taken' \in {taken \cup {o}, taken \ {o}}

Next ==
    \E o \in Orders :
        \/ \E to \in {"open", "gone"} : Place(o, to)
        \/ \E to \in {"gone", "dropped"} : Close(o, to)
        \/ Cancel(o)
        \/ Stray(o)

Spec == Init /\ [][Next]_vars

=============================================================================
