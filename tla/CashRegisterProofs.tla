------------------------- MODULE CashRegisterProofs -------------------------
(***************************************************************************)
(* Proofs about CashRegister for any counters, shifts, clerks and amounts: *)
(* what locking the shift's row makes true however requests interleave.    *)
(***************************************************************************)
EXTENDS CashRegister, TLAPS

(* A request that has decided holds its shift's row, so its decision still stands. *)
Decided(c) ==
    LET s == task[c].shift
        op == task[c].op
    IN  /\ op # "free" => s \in Shifts
        /\ op \in {"in", "out", "close"} => lock[s] = c /\ status[s] = "OPEN"
        /\ op = "sale" => status[s] # "NONE"
        /\ op = "out" => task[c].amount <= Total(s)
        /\ op = "close" => task[c].total = Total(s)

(* A shift that was never opened has no cash. *)
Unopened ==
    \A s \in Shifts : status[s] = "NONE" => sales[s] = 0 /\ added[s] = 0 /\ removed[s] = 0

IInv ==
    /\ TypeOK
    /\ DrawerNeverOwes
    /\ ClosedNeverOverstates
    /\ \A c \in Clerks : Decided(c)
    /\ Unopened

LEMMA FreeTask == Free \in Tasks /\ Free.op = "free"
BY DEF Free, Tasks

LEMMA SaleTask ==
  ASSUME NEW s \in Shifts, NEW a \in Nat
  PROVE  LET t == [Free EXCEPT !.op = "sale", !.shift = s, !.amount = a]
         IN  t \in Tasks /\ t.op = "sale" /\ t.shift = s
BY FreeTask DEF Free, Tasks

LEMMA Columns ==
  ASSUME TypeOK, NEW s \in Shifts
  PROVE  float[s] \in Nat /\ sales[s] \in Nat /\ added[s] \in Nat /\ removed[s] \in Nat
<1>1. float[s] \in Nat
  BY DEF TypeOK
<1>2. sales[s] \in 0..MaxCash /\ added[s] \in 0..MaxCash /\ removed[s] \in 0..MaxCash
  BY DEF TypeOK
<1>3. QED BY <1>1, <1>2, AmountsAssumption

LEMMA TotalType == ASSUME TypeOK, NEW s \in Shifts PROVE Total(s) \in Int
BY Columns DEF Total

LEMMA IInvInit == Init => IInv
<1> SUFFICES ASSUME Init PROVE IInv
  OBVIOUS
<1>1. TypeOK
  BY FreeTask, AmountsAssumption, NoneAssumption DEF Init, TypeOK
<1>2. DrawerNeverOwes /\ ClosedNeverOverstates /\ Unopened
  BY DEF Init, DrawerNeverOwes, ClosedNeverOverstates, Unopened, Total
<1>3. \A c \in Clerks : Decided(c)
  BY FreeTask DEF Init, Decided
<1>4. QED BY <1>1, <1>2, <1>3 DEF IInv

(* Nothing changes but one clerk's task, which decides nothing. *)
LEMMA TaskKeeps ==
  ASSUME IInv, NEW c \in Clerks, NEW t \in Tasks, task' = [task EXCEPT ![c] = t],
         t.op \in {"free", "sale"},
         t.op = "sale" => t.shift \in Shifts /\ status[t.shift] # "NONE",
         Unlock(c) \/ UNCHANGED lock,
         UNCHANGED <<registers, status, at, float, movements, expected>>
  PROVE  IInv'
<1>1. TypeOK'
  BY DEF IInv, TypeOK, Unlock, movements
<1>2. \A s \in Shifts : Total(s)' = Total(s)
  BY DEF Total, movements
<1>3. DrawerNeverOwes' /\ ClosedNeverOverstates' /\ Unopened'
  BY <1>2 DEF IInv, DrawerNeverOwes, ClosedNeverOverstates, Unopened, movements
<1>4. ASSUME NEW d \in Clerks PROVE Decided(d)'
  <2>1. CASE d = c
    <3>1. task'[d] = t
      BY <2>1 DEF IInv, TypeOK
    <3>2. QED BY <3>1 DEF Decided
  <2>2. CASE d # c
    <3>1. task'[d] = task[d]
      BY <2>2 DEF IInv, TypeOK
    <3>2. \A s \in Shifts : lock[s] = d => lock'[s] = d
      BY <2>2 DEF Unlock
    <3>3. QED BY <1>2, <3>1, <3>2 DEF IInv, Decided
  <2>3. QED BY <2>1, <2>2
<1>5. QED BY <1>1, <1>3, <1>4 DEF IInv

LEMMA BeginKeeps ==
  ASSUME IInv, NEW c \in Clerks, NEW s \in Shifts, NEW op \in {"in", "out", "close"},
         NEW a \in Nat, Begin(c, s, op, a)
  PROVE  IInv'
<1> DEFINE t == [op |-> op, shift |-> s, amount |-> a, total |-> Total(s)]
<1>1. t \in Tasks
  BY TotalType DEF IInv, Tasks
<1>2. task' = [task EXCEPT ![c] = t] /\ lock' = [lock EXCEPT ![s] = c] /\ lock[s] = None
  BY DEF Begin
<1>3. TypeOK'
  BY <1>1, <1>2 DEF Begin, IInv, TypeOK, movements
<1>4. \A x \in Shifts : Total(x)' = Total(x)
  BY DEF Begin, Total, movements
<1>5. DrawerNeverOwes' /\ ClosedNeverOverstates' /\ Unopened'
  BY <1>4 DEF Begin, IInv, DrawerNeverOwes, ClosedNeverOverstates, Unopened, movements
<1>6. ASSUME NEW d \in Clerks PROVE Decided(d)'
  <2>1. CASE d = c
    <3>1. task'[d] = t /\ lock'[s] = d
      BY <1>2, <2>1 DEF IInv, TypeOK
    <3>2. QED BY <1>4, <3>1 DEF Begin, Decided
  <2>2. CASE d # c
    <3>1. task'[d] = task[d]
      BY <1>2, <2>2 DEF IInv, TypeOK
    <3>2. \A x \in Shifts : lock[x] = d => lock'[x] = d
      BY <1>2, NoneAssumption DEF IInv, TypeOK
    <3>3. QED BY <1>4, <3>1, <3>2 DEF IInv, Begin, Decided
  <2>3. QED BY <2>1, <2>2
<1>7. QED BY <1>3, <1>5, <1>6 DEF IInv

(* A movement, or a sale, changes one shift's total; no other clerk has decided on it. *)
LEMMA MovementKeeps ==
  ASSUME IInv, TypeOK', NEW c \in Clerks, NEW s \in Shifts,
         task' = [task EXCEPT ![c] = Free], Unlock(c) \/ UNCHANGED lock,
         lock[s] \in {c, None},
         UNCHANGED <<status, expected>>,
         \A x \in Shifts \ {s} : Total(x)' = Total(x),
         Total(s)' \in Nat,
         status[s] = "OPEN" \/ Total(s)' >= Total(s),
         status[s] # "NONE",
         \A x \in Shifts \ {s} : UNCHANGED <<sales[x], added[x], removed[x]>>
  PROVE  IInv'
<1>1. DrawerNeverOwes'
  BY DEF IInv, DrawerNeverOwes
<1>2. ClosedNeverOverstates'
  <2>1. ASSUME NEW x \in Shifts, status[x] = "CLOSED" PROVE expected[x] <= Total(x)'
    <3>1. Total(x) \in Int
      BY TotalType DEF IInv
    <3>2. Total(x)' \in Int /\ Total(x)' >= Total(x)
      BY <2>1, <3>1
    <3>3. expected[x] \in Int /\ expected[x] <= Total(x)
      BY <2>1, NoneAssumption DEF IInv, TypeOK, ClosedNeverOverstates
    <3>4. QED BY <3>1, <3>2, <3>3
  <2>2. QED BY <2>1 DEF ClosedNeverOverstates
<1>3. ASSUME NEW d \in Clerks PROVE Decided(d)'
  <2>1. CASE d = c
    BY <2>1, FreeTask DEF IInv, TypeOK, Decided
  <2>2. CASE d # c
    <3>1. task'[d] = task[d]
      BY <2>2 DEF IInv, TypeOK
    <3>2. \A x \in Shifts : lock[x] = d => lock'[x] = d /\ x # s
      BY <2>2, NoneAssumption DEF Unlock
    <3>3. QED BY <3>1, <3>2 DEF IInv, Decided
  <2>3. QED BY <2>1, <2>2
<1>4. Unopened'
  BY DEF IInv, Unopened
<1>5. QED BY <1>1, <1>2, <1>3, <1>4 DEF IInv

LEMMA EndKeeps == ASSUME IInv, NEW c \in Clerks, End(c) PROVE IInv'
<1> PICK s \in Shifts : s = task[c].shift
  BY DEF IInv, Decided, End
<1> DEFINE a == task[c].amount
<1>1. a \in Nat /\ task[c].total \in Int
  BY DEF IInv, TypeOK, Tasks
<1>2. lock[s] = c /\ status[s] = "OPEN"
  BY DEF IInv, Decided, End
<1>3. task' = [task EXCEPT ![c] = Free] /\ Unlock(c)
  BY DEF End
<1>4. /\ lock' \in [Shifts -> Clerks \cup {None}] /\ task' \in [Clerks -> Tasks]
  BY <1>3, FreeTask DEF IInv, TypeOK, Unlock
<1>5. Total(s) \in Int /\ Total(s) >= 0
  BY TotalType DEF IInv, DrawerNeverOwes
<1>6. CASE task[c].op = "in"
  <2>1. added' = [added EXCEPT ![s] = @ + a] /\ added[s] + a <= MaxCash
        /\ UNCHANGED <<registers, status, at, float, sales, removed, expected>>
    BY <1>6 DEF End
  <2>2. TypeOK'
    BY <1>1, <1>4, <2>1, AmountsAssumption DEF IInv, TypeOK
  <2>3. /\ added'[s] = added[s] + a
        /\ \A x \in Shifts \ {s} : UNCHANGED <<sales[x], added[x], removed[x]>>
    BY <2>1 DEF IInv, TypeOK
  <2>4. /\ \A x \in Shifts \ {s} : Total(x)' = Total(x)
        /\ Total(s)' = Total(s) + a
    BY <1>1, <2>1, <2>3, Columns DEF IInv, Total
  <2>5. Total(s)' \in Nat
    BY <1>1, <1>5, <2>4
  <2>6. QED BY <1>2, <1>3, <2>1, <2>2, <2>3, <2>4, <2>5, MovementKeeps
<1>7. CASE task[c].op = "out"
  <2>1. removed' = [removed EXCEPT ![s] = @ + a] /\ removed[s] + a <= MaxCash
        /\ UNCHANGED <<registers, status, at, float, sales, added, expected>>
    BY <1>7 DEF End
  <2>2. TypeOK'
    BY <1>1, <1>4, <2>1, AmountsAssumption DEF IInv, TypeOK
  <2>3. /\ removed'[s] = removed[s] + a
        /\ \A x \in Shifts \ {s} : UNCHANGED <<sales[x], added[x], removed[x]>>
    BY <2>1 DEF IInv, TypeOK
  <2>4. /\ \A x \in Shifts \ {s} : Total(x)' = Total(x)
        /\ Total(s)' = Total(s) - a
    BY <1>1, <2>1, <2>3, Columns DEF IInv, Total
  <2>5. Total(s)' \in Nat
    BY <1>1, <1>5, <1>7, <2>4 DEF IInv, Decided
  <2>6. QED BY <1>2, <1>3, <2>1, <2>2, <2>3, <2>4, <2>5, MovementKeeps
<1>8. CASE task[c].op = "close"
  <2>1. /\ status' = [status EXCEPT ![s] = "CLOSED"]
        /\ expected' = [expected EXCEPT ![s] = task[c].total]
        /\ UNCHANGED <<registers, at, float, movements>>
    BY <1>8 DEF End, movements
  <2>2. TypeOK'
    BY <1>1, <1>4, <2>1, NoneAssumption DEF IInv, TypeOK, movements
  <2>3. \A x \in Shifts : Total(x)' = Total(x)
    BY <2>1 DEF Total, movements
  <2>4. DrawerNeverOwes'
    BY <2>3 DEF IInv, DrawerNeverOwes
  <2>5. ClosedNeverOverstates'
    <3>1. ASSUME NEW x \in Shifts, status'[x] = "CLOSED" PROVE expected'[x] <= Total(x)
      <4>1. CASE x = s
        <5>1. expected'[s] = Total(s)
          BY <1>8, <2>1 DEF IInv, TypeOK, Decided
        <5>2. QED BY <1>5, <4>1, <5>1
      <4>2. CASE x # s
        BY <2>1, <3>1, <4>2 DEF IInv, TypeOK, ClosedNeverOverstates
      <4>3. QED BY <4>1, <4>2
    <3>2. QED BY <2>3, <3>1 DEF ClosedNeverOverstates
  <2>6. ASSUME NEW d \in Clerks PROVE Decided(d)'
    <3>1. CASE d = c
      BY <1>3, <3>1, FreeTask DEF IInv, TypeOK, Decided
    <3>2. CASE d # c
      <4>1. task'[d] = task[d]
        BY <1>3, <3>2 DEF IInv, TypeOK
      <4>2. \A x \in Shifts : lock[x] = d => lock'[x] = d /\ status'[x] = status[x]
        BY <1>2, <1>3, <2>1, <3>2 DEF Unlock, IInv, TypeOK
      <4>3. \A x \in Shifts : status[x] # "NONE" => status'[x] # "NONE"
        BY <2>1 DEF IInv, TypeOK
      <4>4. \A x \in Shifts : lock[x] = d => x # s
        BY <1>2, <3>2
      <4>5. QED BY <2>3, <4>1, <4>2, <4>3 DEF IInv, Decided
    <3>3. QED BY <3>1, <3>2
  <2>7. Unopened'
    BY <1>2, <2>1 DEF IInv, TypeOK, Unopened, movements
  <2>8. QED BY <2>2, <2>4, <2>5, <2>6, <2>7 DEF IInv
<1>9. QED BY <1>6, <1>7, <1>8 DEF End

LEMMA RecordSaleKeeps == ASSUME IInv, NEW c \in Clerks, RecordSale(c) PROVE IInv'
<1> PICK s \in Shifts : s = task[c].shift
  BY DEF IInv, Decided, RecordSale
<1> DEFINE a == task[c].amount
<1>1. a \in Nat
  BY DEF IInv, TypeOK, Tasks
<1>2. /\ sales' = [sales EXCEPT ![s] = @ + a] /\ sales[s] + a <= MaxCash /\ lock[s] = None
      /\ task' = [task EXCEPT ![c] = Free]
      /\ UNCHANGED <<registers, status, at, float, added, removed, expected, lock>>
  BY DEF RecordSale
<1>3. TypeOK'
  BY <1>1, <1>2, FreeTask, AmountsAssumption DEF IInv, TypeOK
<1>4. /\ sales'[s] = sales[s] + a
      /\ \A x \in Shifts \ {s} : UNCHANGED <<sales[x], added[x], removed[x]>>
  BY <1>2 DEF IInv, TypeOK
<1>5. /\ \A x \in Shifts \ {s} : Total(x)' = Total(x)
      /\ Total(s)' = Total(s) + a
  BY <1>1, <1>2, <1>4, Columns DEF IInv, Total
<1>6. Total(s) \in Int /\ Total(s)' \in Nat /\ Total(s)' >= Total(s)
  BY <1>1, <1>5, TotalType DEF IInv, DrawerNeverOwes
<1>7. status[s] # "NONE"
  BY DEF IInv, Decided, RecordSale
<1>8. QED BY <1>2, <1>3, <1>4, <1>5, <1>6, <1>7, MovementKeeps

LEMMA OpenKeeps ==
  ASSUME IInv, NEW s \in Shifts, NEW g \in Registers, NEW f \in Nat, Open(s, g, f)
  PROVE  IInv'
<1>1. /\ status' = [status EXCEPT ![s] = "OPEN"] /\ status[s] = "NONE"
      /\ float' = [float EXCEPT ![s] = f]
      /\ UNCHANGED <<movements, expected, lock, task>>
  BY DEF Open
<1>2. TypeOK'
  BY <1>1 DEF Open, IInv, TypeOK, movements
<1>3. \A x \in Shifts \ {s} : Total(x)' = Total(x) /\ status'[x] = status[x]
  BY <1>1 DEF IInv, TypeOK, Total, movements
<1>4. f \in Nat /\ float'[s] = f /\ status'[s] = "OPEN"
  BY <1>1, AmountsAssumption DEF IInv, TypeOK
<1>5. Total(s)' = f
  BY <1>1, <1>4 DEF IInv, Unopened, Total, movements
<1>6. DrawerNeverOwes' /\ ClosedNeverOverstates'
  BY <1>1, <1>3, <1>4, <1>5 DEF IInv, DrawerNeverOwes, ClosedNeverOverstates
<1>7. \A d \in Clerks : Decided(d)'
  BY <1>1, <1>3, <1>4 DEF IInv, Decided
<1>8. Unopened'
  BY <1>1, <1>3, <1>4 DEF IInv, Unopened, movements
<1>9. QED BY <1>2, <1>6, <1>7, <1>8 DEF IInv

LEMMA IInvNext == IInv /\ [Next]_vars => IInv'
<1> SUFFICES ASSUME IInv, [Next]_vars PROVE IInv'
  OBVIOUS
<1>1. ASSUME NEW g \in Registers, AddRegister(g) PROVE IInv'
  BY <1>1 DEF AddRegister, IInv, TypeOK, DrawerNeverOwes, ClosedNeverOverstates, Decided,
              Unopened, Total, movements
<1>2. ASSUME NEW c \in Clerks, NEW s \in Shifts, NEW a \in Amounts, SaleRead(c, s, a)
      PROVE  IInv'
  <2> DEFINE t == [Free EXCEPT !.op = "sale", !.shift = s, !.amount = a]
  <2>1. t \in Tasks /\ t.op = "sale" /\ t.shift = s
    BY SaleTask, AmountsAssumption
  <2>2. QED BY <1>2, <2>1, TaskKeeps DEF SaleRead
<1>3. ASSUME NEW c \in Clerks, Die(c) PROVE IInv'
  BY <1>3, FreeTask, TaskKeeps DEF Die
<1>4. ASSUME NEW c \in Clerks, NEW s \in Shifts,
             \/ \E a \in Amounts, op \in {"in", "out"} : Begin(c, s, op, a)
             \/ Begin(c, s, "close", 0)
      PROVE  IInv'
  BY <1>4, BeginKeeps, AmountsAssumption
<1>5. CASE UNCHANGED vars
  BY <1>5 DEF vars, IInv, TypeOK, DrawerNeverOwes, ClosedNeverOverstates, Decided,
              Unopened, Total, movements
<1>6. ASSUME NEW s \in Shifts, NEW g \in Registers, NEW f \in Amounts \cup {0}, Open(s, g, f)
      PROVE  IInv'
  BY <1>6, OpenKeeps, AmountsAssumption
<1>7. QED BY <1>1, <1>2, <1>3, <1>4, <1>5, <1>6, EndKeeps, RecordSaleKeeps DEF Next

(* The columns keep their types however requests interleave and die. *)
THEOREM TypeCorrect == Spec => []TypeOK
BY IInvInit, IInvNext, PTL DEF Spec, IInv

(* For any number of clerks, no drawer owes more than it was given. *)
THEOREM NeverOwes == Spec => []DrawerNeverOwes
BY IInvInit, IInvNext, PTL DEF Spec, IInv

(* For any number of clerks, a closed shift held at least what it says it should. *)
THEOREM NeverOverstates == Spec => []ClosedNeverOverstates
BY IInvInit, IInvNext, PTL DEF Spec, IInv

=============================================================================
