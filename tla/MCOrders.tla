------------------------------ MODULE MCOrders ------------------------------
(* Small instances of Orders: two variants, baskets of one and two lines. *)
EXTENDS Orders

CONSTANTS v1, v2, c1, c2, o1

(* One line, two lines, and one variant twice (from two warehouses, or listed twice). *)
SomeBaskets == { <<v1>>, <<v1, v2>>, <<v1, v1>> }
DistinctBaskets == { <<v1>>, <<v1, v2>> }

AllStatuses == Statuses \ {"NONE"}
WithoutCancelled == AllStatuses \ {"CANCELLED"}

(* Both clerks work on one order: their requests overlap at will. *)
OneOrder == { <<c1, o1>>, <<c2, o1>> }

=============================================================================
