------------------------------ MODULE Orders ------------------------------
(***************************************************************************)
(* Orders of one tenant: OrderService.create, updateStatus and cancel, and *)
(* the counter sale of PosService.                                         *)
(*                                                                         *)
(* create is one database transaction (module Stock shows that its stock   *)
(* movements are indivisible).  updateStatus and cancel are not: they read *)
(* the order first, decide on the status they read, and write in a later   *)
(* transaction that locks nothing and checks nothing again.  Requests on   *)
(* the same order overlap when two clerks handle it: each row of the       *)
(* history is then written from a status that may be long gone.            *)
(*                                                                         *)
(* Stock is counted in reservations: line m of an order has one            *)
(* ORDER_RESERVATION movement, and released[o][m] counts the ORDER_RELEASE *)
(* movements written back for it.                                          *)
(***************************************************************************)
EXTENDS Naturals, Sequences, FiniteSets

CONSTANTS
    Orders,     \* orders that may be placed
    Clerks,     \* requests in flight: staff, API clients, browser tabs
    Handles,    \* pairs <<c, o>>: the orders each clerk works on
    Variants,   \* product variants
    Baskets,    \* the lines of an order: sequences of variants
    Targets,    \* statuses asked for in PATCH /orders/:id/status
    MaxHistory, \* bound on the status history of one order
    Idle        \* a clerk with no request in flight

Statuses == {"NONE", "DRAFT", "PENDING", "CONFIRMED", "PROCESSING", "SHIPPED",
             "DELIVERED", "CANCELLED", "REFUNDED", "PARTIALLY_REFUNDED"}
Cancellable == {"DRAFT", "PENDING", "CONFIRMED", "PROCESSING"}

ASSUME BasketsAssumption == Baskets \subseteq Seq(Variants) \ {<<>>}
ASSUME TargetsAssumption == Targets \subseteq Statuses \ {"NONE"}
ASSUME HistoryAssumption == MaxHistory \in Nat \ {0, 1}

Requests == [order : Orders, from : Statuses, to : Statuses, gives : BOOLEAN]
ASSUME IdleAssumption == Idle \notin Requests

VARIABLES
    status,     \* orders.status, "NONE" before the order exists
    basket,     \* variants of the order's lines
    released,   \* release movements written per line
    history,    \* order_status_history: the rows in the order they were written
    request     \* per clerk: what it read and is about to write

vars == <<status, basket, released, history, request>>

-----------------------------------------------------------------------------
(* ORDER_STATUS_TRANSITIONS *)
Transitions ==
    { <<"DRAFT", "PENDING">>, <<"DRAFT", "CANCELLED">>,
      <<"PENDING", "CONFIRMED">>, <<"PENDING", "CANCELLED">>,
      <<"CONFIRMED", "PROCESSING">>, <<"CONFIRMED", "CANCELLED">>,
      <<"PROCESSING", "SHIPPED">>, <<"PROCESSING", "CANCELLED">>,
      <<"SHIPPED", "DELIVERED">>,
      <<"DELIVERED", "REFUNDED">>, <<"DELIVERED", "PARTIALLY_REFUNDED">>,
      <<"PARTIALLY_REFUNDED", "REFUNDED">> }

(* A history row and the activity row written beside it: by which request it is. *)
Entry(from, to, by) == [from |-> from, to |-> to, by |-> by]

Init ==
    /\ status = [o \in Orders |-> "NONE"]
    /\ basket = [o \in Orders |-> <<>>]
    /\ released = [o \in Orders |-> <<>>]
    /\ history = [o \in Orders |-> <<>>]
    /\ request = [c \in Clerks |-> Idle]

(* The rows every order starts with; no line has been released. *)
InsertWithoutMovements(o, b) ==
    /\ status[o] = "NONE"
    /\ basket' = [basket EXCEPT ![o] = b]
    /\ UNCHANGED released
Insert(o, b) ==
    /\ status[o] = "NONE"
    /\ basket' = [basket EXCEPT ![o] = b]
    /\ released' = [released EXCEPT ![o] = [m \in DOMAIN b |-> 0]]

(* OrderService.create, one transaction: all of it or nothing. *)
Create(o, b) ==
    /\ Insert(o, b)
    /\ status' = [status EXCEPT ![o] = "PENDING"]
    /\ history' = [history EXCEPT ![o] = <<Entry("NONE", "PENDING", "create")>>]
    /\ UNCHANGED request

(* PosService.sale: the counter's hook in the same transaction delivers the order. *)
CounterSale(o, b) ==
    /\ Insert(o, b)
    /\ status' = [status EXCEPT ![o] = "DELIVERED"]
    /\ history' = [history EXCEPT ![o] = <<Entry("NONE", "PENDING", "create"),
                                           Entry("PENDING", "DELIVERED", "sale")>>]
    /\ UNCHANGED request

(* The first half of a request: the order is read and the request accepted. *)
Accept(c, o, to, gives) ==
    /\ request[c] = Idle
    /\ <<c, o>> \in Handles
    /\ status[o] # "NONE"
    /\ request' = [request EXCEPT
            ![c] = [order |-> o, from |-> status[o], to |-> to, gives |-> gives]]
    /\ UNCHANGED <<status, basket, released, history>>

UpdateStatus(c, o, to) ==
    /\ <<status[o], to>> \in Transitions
    /\ Accept(c, o, to, FALSE)

CancelUnlessCancelled(c, o) ==
    /\ status[o] # "CANCELLED"
    /\ Accept(c, o, "CANCELLED", TRUE)
Cancel(c, o) ==
    /\ status[o] \in Cancellable
    /\ Accept(c, o, "CANCELLED", TRUE)

(***************************************************************************)
(* cancel releases, for each item, every ORDER_RESERVATION movement of the *)
(* order that has the item's variant: a movement is released once per item *)
(* with its variant.                                                       *)
(***************************************************************************)
ReleaseOnlyFirst(b) == [m \in DOMAIN b |-> IF m = 1 THEN 1 ELSE 0]
Releases(b) == [m \in DOMAIN b |-> Cardinality({i \in DOMAIN b : b[i] = b[m]})]

(* The second half: the transaction, on whatever status the order has by now. *)
WriteRow(c, from) ==
    LET r == request[c]
        o == r.order
    IN  /\ r # Idle
        /\ Len(history[o]) < MaxHistory
        /\ status' = [status EXCEPT ![o] = r.to]
        /\ history' = [history EXCEPT ![o] = Append(@,
                          Entry(from, r.to, IF r.gives THEN "cancel" ELSE "status"))]
        /\ released' = IF r.gives
                       THEN [released EXCEPT ![o] =
                                [m \in DOMAIN @ |-> @[m] + Releases(basket[o])[m]]]
                       ELSE released
        /\ request' = [request EXCEPT ![c] = Idle]
        /\ UNCHANGED basket
WriteSeeingStatus(c) == WriteRow(c, status[request[c].order])
Write(c) == WriteRow(c, request[c].from)

(* The request dies between the two: connection lost, process restarted, rollback. *)
Die(c) ==
    /\ request[c] # Idle
    /\ request' = [request EXCEPT ![c] = Idle]
    /\ UNCHANGED <<status, basket, released, history>>

Next ==
    \/ \E o \in Orders, b \in Baskets : Create(o, b) \/ CounterSale(o, b)
    \/ \E c \in Clerks, o \in Orders :
            \/ \E to \in Targets : UpdateStatus(c, o, to)
            \/ Cancel(c, o)
    \/ \E c \in Clerks : Write(c) \/ Die(c)

Spec == Init /\ [][Next]_vars

-----------------------------------------------------------------------------
Entries == [from : Statuses, to : Statuses, by : {"create", "sale", "status", "cancel"}]

TypeOK ==
    /\ status \in [Orders -> Statuses]
    /\ basket \in [Orders -> Seq(Variants)]
    /\ released \in [Orders -> Seq(Nat)]
    /\ \A o \in Orders : Len(released[o]) = Len(basket[o])
    /\ history \in [Orders -> Seq(Entries)]
    /\ request \in [Clerks -> Requests \cup {Idle}]

(***************************************************************************)
(* What GET /orders/:id/history can be trusted for however requests        *)
(* overlap: it begins with the creation and ends at the status, and every  *)
(* row between starts at a status the order once had and makes a           *)
(* documented move from it (the counter's own row apart); a row of cancel  *)
(* starts where cancel is allowed.  It need not be a path.                 *)
(***************************************************************************)
Explained(h, i) ==
    /\ \E j \in 1..(i - 1) : h[j].to = h[i].from
    /\ \/ <<h[i].from, h[i].to>> \in Transitions /\ h[i].by \in {"status", "cancel"}
       \/ i = 2 /\ h[i] = Entry("PENDING", "DELIVERED", "sale")
    /\ h[i].by = "cancel" => h[i].from \in Cancellable /\ h[i].to = "CANCELLED"

HistoryIsATree ==
    \A o \in Orders :
        LET h == history[o]
        IN  /\ h = <<>> <=> status[o] = "NONE"
            /\ h # <<>> => h[1] = Entry("NONE", "PENDING", "create") /\ h[Len(h)].to = status[o]
            /\ \A i \in 2..Len(h) : Explained(h, i)

(* Stock and history agree even when requests overlap: every cancellation the *)
(* history records gave each line back, once for every line with its variant. *)
ReleasesMatchHistory ==
    \A o \in Orders : \A m \in DOMAIN basket[o] :
        released[o][m] = Cardinality({i \in DOMAIN history[o] : history[o][i].by = "cancel"})
                         * Cardinality({n \in DOMAIN basket[o] : basket[o][n] = basket[o][m]})

(* "double cancel 400": no reservation is ever given back twice. *)
ReleasedAtMostOnce == \A o \in Orders : \A m \in DOMAIN basket[o] : released[o][m] <= 1

-----------------------------------------------------------------------------
(***************************************************************************)
(* The promise, and how to tell an order it was broken for: its history    *)
(* forks (a request overtook another), or cancel met a variant on two of   *)
(* its lines.  An order of which neither is true has kept the promise,     *)
(* whoever else was working on it.                                         *)
(***************************************************************************)
Forked(h) == \E i \in 2..Len(h) : h[i].from # h[i - 1].to
GivenBack(h) == h[Len(h)].by = "cancel"
Repeats(b) == \E i, j \in DOMAIN b : i # j /\ b[i] = b[j]

StageOf(s, b, h) ==
    CASE s = "NONE" -> "none"
      [] s # "NONE" /\ (Forked(h) \/ (GivenBack(h) /\ Repeats(b))) -> "stray"
      [] OTHER -> CASE s \in Cancellable -> "open"
                    [] s = "CANCELLED" -> IF GivenBack(h) THEN "cancelled" ELSE "dropped"
                    [] OTHER -> "gone"

(* Exactly what was taken is back; one release too many or too few is not. *)
NothingTaken(s, g) == s = "NONE" \/ \A m \in DOMAIN g : g[m] = 1

Lifecycle == INSTANCE OrderLifecycle WITH
    stage <- [o \in Orders |-> StageOf(status[o], basket[o], history[o])],
    taken <- {o \in Orders : ~NothingTaken(status[o], released[o])}

(* Orders ship or are cancelled, once, and cancel gives every line back: so it was *)
(* with every order whose history reads as one path.                              *)
ImplementsLifecycle == Lifecycle!Spec

=============================================================================
