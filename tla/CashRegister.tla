---------------------------- MODULE CashRegister ----------------------------
(***************************************************************************)
(* The cash drawer of one tenant: counters, their shifts, and what goes in *)
(* and out.  addMovement and close lock the shift's row, decide, and write *)
(* before they unlock it.  A counter sale finds the open shift before its  *)
(* transaction (PosService.sale) and records the cash at the end of it; it *)
(* takes no lock, but the movement's foreign key waits for one.            *)
(***************************************************************************)
EXTENDS Integers

CONSTANTS
    Registers,  \* names a counter may have
    Shifts,     \* rows the cash_sessions table may get
    Clerks,     \* requests in flight
    Amounts,    \* cash amounts, in the currency's minor unit
    MaxCash,    \* bound on each kind of a shift's movements
    None        \* no counter, clerk or amount

ASSUME AmountsAssumption == (\A a \in Amounts : a \in Nat \ {0}) /\ MaxCash \in Nat
ASSUME NoneAssumption == None \notin Registers \cup Clerks \cup Int

VARIABLES
    registers,  \* counters that exist
    status,     \* cash_sessions.status, "NONE" before the row exists
    at,         \* the counter of each shift
    float,      \* opening_float
    sales,      \* sum of the shift's SALE movements (the code writes no REFUND)
    added,      \* ... of its CASH_IN movements
    removed,    \* ... of its CASH_OUT movements
    expected,   \* expected_cash, None until the shift is closed
    lock,       \* the clerk holding each shift's row
    task        \* what each clerk's request is doing and has read

movements == <<sales, added, removed>>
vars == <<registers, status, at, float, movements, expected, lock, task>>

Free == [op |-> "free", shift |-> None, amount |-> 0, total |-> 0]

(* sessionTotals(...).expectedCash *)
Total(s) == float[s] + sales[s] + added[s] - removed[s]

Init ==
    /\ registers = {}
    /\ status = [s \in Shifts |-> "NONE"]
    /\ at = [s \in Shifts |-> None]
    /\ float = [s \in Shifts |-> 0]
    /\ sales = [s \in Shifts |-> 0]
    /\ added = [s \in Shifts |-> 0]
    /\ removed = [s \in Shifts |-> 0]
    /\ expected = [s \in Shifts |-> None]
    /\ lock = [s \in Shifts |-> None]
    /\ task = [c \in Clerks |-> Free]

(* create, or ensureDefault on first use; names are unique. *)
AddRegister(g) ==
    /\ registers' = registers \cup {g}
    /\ UNCHANGED <<status, at, float, movements, expected, lock, task>>

(* open: at most one open shift per counter (a partial unique index). *)
OpenAgain(s, g, f) ==
    /\ status[s] # "OPEN"
    /\ g \in registers
    /\ \A t \in Shifts : at[t] = g => status[t] # "OPEN"
    /\ status' = [status EXCEPT ![s] = "OPEN"]
    /\ at' = [at EXCEPT ![s] = g]
    /\ float' = [float EXCEPT ![s] = f]
    /\ UNCHANGED <<registers, movements, expected, lock, task>>
Open(s, g, f) ==
    /\ status[s] = "NONE"
    /\ g \in registers
    /\ \A t \in Shifts : at[t] = g => status[t] # "OPEN"
    /\ status' = [status EXCEPT ![s] = "OPEN"]
    /\ at' = [at EXCEPT ![s] = g]
    /\ float' = [float EXCEPT ![s] = f]
    /\ UNCHANGED <<registers, movements, expected, lock, task>>

(* addMovement and close, to the point where they have decided; the row stays locked. *)
BeginUnlocked(c, s, op, a) ==
    /\ task[c] = Free
    /\ status[s] = "OPEN"
    /\ op = "out" => a <= Total(s)
    /\ task' = [task EXCEPT ![c] = [op |-> op, shift |-> s, amount |-> a, total |-> Total(s)]]
    /\ UNCHANGED <<registers, status, at, float, movements, expected, lock>>
BeginUnchecked(c, s, op, a) ==
    /\ task[c] = Free
    /\ lock[s] = None
    /\ status[s] = "OPEN"
    /\ lock' = [lock EXCEPT ![s] = c]
    /\ task' = [task EXCEPT ![c] = [op |-> op, shift |-> s, amount |-> a, total |-> Total(s)]]
    /\ UNCHANGED <<registers, status, at, float, movements, expected>>
Begin(c, s, op, a) ==
    /\ task[c] = Free
    /\ lock[s] = None
    /\ status[s] = "OPEN"
    /\ op = "out" => a <= Total(s)
    /\ lock' = [lock EXCEPT ![s] = c]
    /\ task' = [task EXCEPT ![c] = [op |-> op, shift |-> s, amount |-> a, total |-> Total(s)]]
    /\ UNCHANGED <<registers, status, at, float, movements, expected>>

(* ... and what they write: the movement, or the closed shift with what it should hold. *)
Unlock(c) == lock' = [s \in Shifts |-> IF lock[s] = c THEN None ELSE lock[s]]
End(c) ==
    LET s == task[c].shift
        a == task[c].amount
    IN  /\ \/ /\ task[c].op = "in" /\ added[s] + a <= MaxCash
              /\ added' = [added EXCEPT ![s] = @ + a]
              /\ UNCHANGED <<status, removed, expected>>
           \/ /\ task[c].op = "out" /\ removed[s] + a <= MaxCash
              /\ removed' = [removed EXCEPT ![s] = @ + a]
              /\ UNCHANGED <<status, added, expected>>
           \/ /\ task[c].op = "close"
              /\ status' = [status EXCEPT ![s] = "CLOSED"]
              /\ expected' = [expected EXCEPT ![s] = task[c].total]
              /\ UNCHANGED <<added, removed>>
        /\ Unlock(c)
        /\ task' = [task EXCEPT ![c] = Free]
        /\ UNCHANGED <<registers, at, float, sales>>

(* PosService.sale finds the open shift; its transaction ends with recordSale. *)
SaleRead(c, s, a) ==
    /\ task[c] = Free
    /\ status[s] = "OPEN"
    /\ task' = [task EXCEPT ![c] = [Free EXCEPT !.op = "sale", !.shift = s, !.amount = a]]
    /\ UNCHANGED <<registers, status, at, float, movements, expected, lock>>
RecordSale(c) ==
    LET s == task[c].shift
        a == task[c].amount
    IN  /\ task[c].op = "sale"
        /\ lock[s] = None
        /\ sales[s] + a <= MaxCash
        /\ sales' = [sales EXCEPT ![s] = @ + a]
        /\ task' = [task EXCEPT ![c] = Free]
        /\ UNCHANGED <<registers, status, at, float, added, removed, expected, lock>>

(* A request that fails or dies is rolled back. *)
Die(c) ==
    /\ task[c] # Free
    /\ Unlock(c)
    /\ task' = [task EXCEPT ![c] = Free]
    /\ UNCHANGED <<registers, status, at, float, movements, expected>>

Next ==
    \/ \E g \in Registers : AddRegister(g)
    \/ \E s \in Shifts, g \in Registers, f \in Amounts \cup {0} : Open(s, g, f)
    \/ \E c \in Clerks :
        \/ \E s \in Shifts :
            \/ \E a \in Amounts, op \in {"in", "out"} : Begin(c, s, op, a)
            \/ Begin(c, s, "close", 0)
            \/ \E a \in Amounts : SaleRead(c, s, a)
        \/ End(c)
        \/ RecordSale(c)
        \/ Die(c)

Spec == Init /\ [][Next]_vars

-----------------------------------------------------------------------------
Tasks == [op : {"free", "in", "out", "close", "sale"}, shift : Shifts \cup {None},
          amount : Nat, total : Int]

(* The columns' types; only a closed shift says what it should hold. *)
TypeOK ==
    /\ registers \subseteq Registers
    /\ status \in [Shifts -> {"NONE", "OPEN", "CLOSED"}]
    /\ at \in [Shifts -> Registers \cup {None}]
    /\ float \in [Shifts -> Nat]
    /\ sales \in [Shifts -> 0..MaxCash]
    /\ added \in [Shifts -> 0..MaxCash]
    /\ removed \in [Shifts -> 0..MaxCash]
    /\ expected \in [Shifts -> Int \cup {None}]
    /\ \A s \in Shifts : expected[s] # None <=> status[s] = "CLOSED"
    /\ lock \in [Shifts -> Clerks \cup {None}]
    /\ task \in [Clerks -> Tasks]

(* "There is not that much cash in the drawer": however many clerks take cash out at *)
(* once, a drawer never owes more than it was given.                                 *)
DrawerNeverOwes == \A s \in Shifts : Total(s) >= 0

(* What a closed shift says it should hold was in it: no cash leaves between the count *)
(* and the closing, nor after it.  (It may say too little: see the next property.)     *)
ClosedNeverOverstates == \A s \in Shifts : status[s] = "CLOSED" => expected[s] <= Total(s)

(* "A cash sale lands in the open shift." *)
SalesLandInOpenShift ==
    [][\A s \in Shifts : sales'[s] # sales[s] => status[s] = "OPEN"]_vars

=============================================================================
