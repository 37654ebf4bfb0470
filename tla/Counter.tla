------------------------------- MODULE Counter -------------------------------
(***************************************************************************)
(* Sales at the counter (PosService): the walk-in customer they are booked *)
(* on, the UPI payments they are paid with, and the sales put on hold.     *)
(*                                                                         *)
(* A sale looks up its customer and its UPI payments first; then the       *)
(* order, its payments and the drawer's entry are one transaction (their   *)
(* own rules are in Orders and CashRegister), which the unique index on    *)
(* payments(tenant_id, provider_payment_id) guards.                        *)
(***************************************************************************)
EXTENDS Naturals, Functions

CONSTANTS
    Upi,        \* payments to the shop's Razorpay QR codes
    MaxWalkIn,  \* bound on the walk-in customers ever made
    Cashier,    \* requests
    HeldSale,       \* held sales
    Idle

ASSUME MaxWalkInAssumption == MaxWalkIn \in Nat

VARIABLES
    captured,   \* the payments Razorpay has captured
    spent,      \* the COMPLETED payments that name each of them: none, 1, or 2 and more
    walkIn,     \* customers with the walk-in address: "none", "live" or "deleted"
    cashier,    \* sales in progress
    held        \* pos_held_sales

counterVars == <<captured, spent, walkIn, cashier, held>>

WalkIn == 1..MaxWalkIn
Bills == UNION {[1..n -> Upi] : n \in 0..2}   \* the UPI payments a bill is split over
Rung == [step : {"walkin", "create", "again", "verify"}, bill : Bills, seen : 0..2]   \* a sale being rung up
ASSUME IdleAssumption == Idle \notin Rung
LiveWalkIns == {w \in WalkIn : walkIn[w] = "live"}
Rings(c, step) == cashier[c] # Idle /\ cashier[c].step = step
GoOn(c, step) == cashier' = [cashier EXCEPT ![c].step = step] /\ UNCHANGED <<captured, spent, held>>

CounterInit ==
    /\ captured = {} /\ spent = [u \in Upi |-> 0]
    /\ walkIn = [w \in WalkIn |-> "none"]
    /\ cashier = [c \in Cashier |-> Idle] /\ held = {}

(* upiQr has shown a code; somebody pays it. *)
PayQr(u) ==
    /\ u \notin captured /\ captured' = captured \cup {u}
    /\ UNCHANGED <<spent, walkIn, cashier, held>>

-----------------------------------------------------------------------------
(* sale: on a customer who is named, or on the walk-in customer. *)
StartSale(c, bill) ==
    /\ cashier[c] = Idle
    /\ \E step \in {"walkin", "verify"} : cashier' = [cashier EXCEPT ![c] = [step |-> step, bill |-> bill, seen |-> 0]]
    /\ UNCHANGED <<captured, spent, walkIn, held>>
(* walkInCustomer: one is found, or made; when somebody was faster, theirs is looked up. *)
FindWalkIn(c) ==
    /\ Rings(c, "walkin")
    /\ GoOn(c, IF LiveWalkIns = {} THEN "create" ELSE "verify") /\ UNCHANGED walkIn
AddWalkIn(c) ==
    /\ Rings(c, "create")
    /\ \E w \in WalkIn : walkIn[w] = "none" /\ walkIn' = [walkIn EXCEPT ![w] = "live"]
    /\ GoOn(c, "verify")
CreateWalkIn(c) ==
    /\ LiveWalkIns = {}   \* customers_tenant_id_email_active_key
    /\ AddWalkIn(c)
CreateWalkInTwice(c) ==
    /\ Rings(c, "create") /\ LiveWalkIns # {}
    /\ GoOn(c, "again") /\ UNCHANGED walkIn
FindWalkInAgain(c) ==   \* deleted again by now: the sale fails
    /\ Rings(c, "again") /\ LiveWalkIns # {}
    /\ GoOn(c, "verify") /\ UNCHANGED walkIn
(* verifyRazorpayUpi, for each: Razorpay has captured it, and no payment names it yet. *)
VerifyRazorpayUpi(c) ==
    LET n == cashier[c].seen + 1
    IN /\ Rings(c, "verify") /\ n \in DOMAIN cashier[c].bill
       /\ cashier[c].bill[n] \in captured /\ spent[cashier[c].bill[n]] = 0
       /\ cashier' = [cashier EXCEPT ![c].seen = n]
       /\ UNCHANGED <<captured, spent, walkIn, held>>

(* The places the payments take in the unique index. *)
IndexAllowsAny(bill) == TRUE
IndexAllows(bill) == IsInjective(bill) /\ \A n \in DOMAIN bill : spent[bill[n]] = 0
CommitSale(c) ==
    LET bill == cashier[c].bill
    IN /\ Rings(c, "verify") /\ \A n \in DOMAIN bill : n <= cashier[c].seen
       /\ IndexAllows(bill)
       /\ spent' = [u \in Upi |-> IF \E n \in DOMAIN bill : bill[n] = u
                                  THEN IF spent[u] = 0 /\ IsInjective(bill) THEN 1 ELSE 2 ELSE spent[u]]
       /\ cashier' = [cashier EXCEPT ![c] = Idle]
       /\ UNCHANGED <<captured, walkIn, held>>
(* The sale is refused, rolled back, or the server stops. *)
RefuseSale(c) ==
    /\ cashier[c] # Idle /\ cashier' = [cashier EXCEPT ![c] = Idle]
    /\ UNCHANGED <<captured, spent, walkIn, held>>

(* CustomerService.delete *)
DeleteWalkIn(w) ==
    /\ walkIn[w] = "live" /\ walkIn' = [walkIn EXCEPT ![w] = "deleted"]
    /\ UNCHANGED <<captured, spent, cashier, held>>
(* hold and removeHeld: a held sale is handed out with its removal. *)
Hold(h) ==
    /\ h \notin held /\ held' = held \cup {h}
    /\ UNCHANGED <<captured, spent, walkIn, cashier>>
RemoveHeld(h) ==
    /\ h \in held /\ held' = held \ {h}
    /\ UNCHANGED <<captured, spent, walkIn, cashier>>

CounterNext ==
    \/ \E c \in Cashier :
        \/ \E bill \in Bills : StartSale(c, bill)
        \/ FindWalkIn(c) \/ CreateWalkIn(c) \/ CreateWalkInTwice(c) \/ FindWalkInAgain(c)
        \/ VerifyRazorpayUpi(c) \/ CommitSale(c) \/ RefuseSale(c)
    \/ \E u \in Upi : PayQr(u)
    \/ \E w \in WalkIn : DeleteWalkIn(w)
    \/ \E h \in HeldSale : Hold(h) \/ RemoveHeld(h)

CounterSpec == CounterInit /\ [][CounterNext]_counterVars

-----------------------------------------------------------------------------
(* Payments, customers and sales have the values of the schema. *)
CounterTypeOK ==
    /\ captured \subseteq Upi /\ spent \in [Upi -> 0..2] /\ held \subseteq HeldSale
    /\ walkIn \in [WalkIn -> {"none", "live", "deleted"}]
    /\ cashier \in [Cashier -> Rung \cup {Idle}]

(* "Check a Razorpay UPI QR really received this amount and that the money isn't already used by another sale"
   (pos.service.js:118): two sales at once, or one bill split over one payment twice, and still no payment of
   a customer pays twice, nor one that was never received. *)
UpiPaidOnce == \A u \in Upi : spent[u] <= 1 /\ (spent[u] > 0 => u \in captured)

(* "One per business" (pos.service.js:31), though the first two sales look for it at once. *)
OneWalkIn == \A v, w \in LiveWalkIns : v = w

=============================================================================
