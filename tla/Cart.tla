--------------------------------- MODULE Cart --------------------------------
(***************************************************************************)
(* The cart of one shopper, who may have the shop open in several tabs,    *)
(* and what checkout makes of it (storefront.shop).                        *)
(*                                                                         *)
(* A line is given as the number of the wish it was set by.  Placing the   *)
(* order is one transaction (see Orders); emptying the cart comes after    *)
(* it, and then the payment is started (see Payments).                     *)
(***************************************************************************)
EXTENDS Naturals

CONSTANTS
    Good,       \* product variants
    MaxWish,    \* bound on the times a line is set
    Tab,
    NoWish

ASSUME MaxWishAssumption == MaxWish \in Nat

Wish == 1..MaxWish
CartSteps ==
    [step : {"set"}, good : Good] \cup [step : {"order"}, lines : SUBSET Good, of : SUBSET Wish] \cup [step : {"empty"}]
ASSUME NoWishAssumption == NoWish \notin Nat \cup Tab \cup CartSteps

(* "open": ACTIVE, not deleted, of an ACTIVE product, and enough of it in one active warehouse; "spread": enough of it
   in all warehouses, but not in one that is active (the one with enough of it was closed, or has lost some); "hidden":
   the variant is deleted, or its product is not to be sold; "out": not ACTIVE, or not enough of it. *)
Offer == {"open", "spread", "hidden", "out"}

VARIABLES
    cart,       \* cart_items: the wish each line was set by
    offer,      \* how each variant can be bought
    tab,        \* requests
    bought,     \* orders with a line of each wish: none, 1, or 2 and more
    gone,       \* wishes the shopper replaced or removed
    wishes,     \* wishes made
    disturbed   \* two requests overlapped, or a checkout stopped half-way

cartVars == <<cart, offer, tab, bought, gone, wishes, disturbed>>

InCart == {cart[g] : g \in Good} \ {NoWish}
Busy == \E t \in Tab : tab[t] # NoWish
Is(t, step) == tab[t] # NoWish /\ tab[t].step = step

CartInit ==
    /\ cart = [g \in Good |-> NoWish] /\ offer = [g \in Good |-> "open"]
    /\ tab = [t \in Tab |-> NoWish]
    /\ bought = [w \in Wish |-> 0] /\ gone = {} /\ wishes = 0 /\ disturbed = FALSE

Open(t, ask) ==
    /\ tab[t] = NoWish /\ tab' = [tab EXCEPT ![t] = ask]
    /\ disturbed' = (disturbed \/ Busy)
    /\ UNCHANGED <<cart, offer, bought, gone, wishes>>

(* setCartItem: the variant and its stock in all warehouses are looked at, then the line is written. *)
FindGood(t, g) ==
    /\ offer[g] \notin {"hidden", "out"}
    /\ Open(t, [step |-> "set", good |-> g])
SetCartItem(t) ==
    LET g == tab[t].good
    IN /\ Is(t, "set") /\ wishes < MaxWish
       /\ wishes' = wishes + 1
       /\ cart' = [cart EXCEPT ![g] = wishes + 1]
       /\ gone' = gone \cup ({cart[g]} \ {NoWish})
       /\ tab' = [tab EXCEPT ![t] = NoWish]
       /\ UNCHANGED <<offer, bought, disturbed>>
(* setCartItem with a quantity of zero, and clearCart: one statement. *)
RemoveCartItems(goods) ==
    /\ cart' = [g \in Good |-> IF g \in goods THEN NoWish ELSE cart[g]]
    /\ gone' = gone \cup ({cart[g] : g \in goods} \ {NoWish})
    /\ disturbed' = (disturbed \/ Busy)
    /\ UNCHANGED <<offer, tab, bought, wishes>>

(* checkout: every line must be to be had in one active warehouse when the cart is read; OrderService.create looks
   again only at the variant's status and at the stock of that warehouse, be it open or closed; where that stock has
   gone elsewhere, the order is refused (StopTab). *)
FindCart(t) ==
    /\ InCart # {} /\ \A g \in Good : cart[g] # NoWish => offer[g] = "open"
    /\ Open(t, [step |-> "order", lines |-> {g \in Good : cart[g] # NoWish}, of |-> InCart])
PlaceOrder(t) ==
    /\ Is(t, "order") /\ \A g \in tab[t].lines : offer[g] # "out"
    /\ bought' = [w \in Wish |-> IF w \in tab[t].of /\ bought[w] < 2 THEN bought[w] + 1 ELSE bought[w]]
    /\ tab' = [tab EXCEPT ![t] = [step |-> "empty"]]
    /\ UNCHANGED <<cart, offer, gone, wishes, disturbed>>
LeaveCart(t) ==
    /\ Is(t, "empty")
    /\ tab' = [tab EXCEPT ![t] = NoWish]
    /\ UNCHANGED <<cart, offer, bought, gone, wishes, disturbed>>
EmptyCart(t) ==
    /\ Is(t, "empty")
    /\ cart' = [g \in Good |-> NoWish]
    /\ tab' = [tab EXCEPT ![t] = NoWish]
    /\ UNCHANGED <<offer, bought, gone, wishes, disturbed>>

(* The request is refused, or the server stops, before its next step. *)
StopTab(t) ==
    /\ tab[t] # NoWish
    /\ tab' = [tab EXCEPT ![t] = NoWish]
    /\ disturbed' = (disturbed \/ Is(t, "empty"))
    /\ UNCHANGED <<cart, offer, bought, gone, wishes>>
(* Stock and catalogue change. *)
ChangeGood(g) ==
    /\ \E o \in Offer : offer' = [offer EXCEPT ![g] = o]
    /\ UNCHANGED <<cart, tab, bought, gone, wishes, disturbed>>

CartNext ==
    \/ \E t \in Tab : \/ \E g \in Good : FindGood(t, g)
                      \/ SetCartItem(t) \/ FindCart(t) \/ PlaceOrder(t) \/ EmptyCart(t) \/ StopTab(t)
    \/ \E goods \in SUBSET Good : goods # {} /\ RemoveCartItems(goods)
    \/ \E g \in Good : ChangeGood(g)

CartSpec == CartInit /\ [][CartNext]_cartVars

-----------------------------------------------------------------------------
(* Lines, wishes and requests have the values of the code. *)
CartTypeOK ==
    /\ cart \in [Good -> 0..MaxWish \cup {NoWish}] /\ InCart \subseteq 1..wishes
    /\ offer \in [Good -> Offer] /\ disturbed \in BOOLEAN /\ wishes \in 0..MaxWish
    /\ gone \subseteq 1..wishes /\ bought \in [Wish -> 0..2] /\ tab \in [Tab -> CartSteps \cup {NoWish}]

(* "Turns the cart into an order" (storefront.shop.js:173): while requests take turns and none stops
   half-way, what a shopper wished is in the cart, was taken back, or was bought once, and never two of these. *)
WishesKeptInTurn ==
    disturbed \/ \A w \in 1..wishes :
        /\ bought[w] <= 1
        /\ w \in gone => w \notin InCart /\ bought[w] = 0
        /\ w \notin gone /\ bought[w] = 0 => w \in InCart
        /\ w \in InCart /\ bought[w] = 1 => \E t \in Tab : Is(t, "empty")

(* The same whatever overlaps, which TLC refutes: a line set while a checkout is between its order and the
   emptying of the cart is lost, and two checkouts of one cart (without the same Idempotency-Key) buy it twice. *)
WishesKept == \A w \in 1..wishes : bought[w] <= 1 /\ (w \notin gone /\ bought[w] = 0 => w \in InCart)

(* An order is of what the shop still offers: refuted, between the reading of the cart and the order a product may be
   withdrawn, or a warehouse closed, and no one looks again. *)
SoldAsOffered == [][\A t \in Tab : PlaceOrder(t) => \A g \in tab[t].lines : offer[g] = "open"]_cartVars

=============================================================================
