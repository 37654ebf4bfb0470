------------------------------- MODULE Stock -------------------------------
(***************************************************************************)
(* The stock tables of one tenant, at the granularity of SQL statements.   *)
(*                                                                         *)
(* Orders (reserve), cancellations (release), adjustments and transfers    *)
(* each run one PostgreSQL READ COMMITTED transaction that locks inventory *)
(* rows with SELECT ... FOR UPDATE, reads quantities, and writes quantities *)
(* computed from what it read.  A transaction is the sequence of its       *)
(* statements; statements of different transactions interleave.            *)
(*                                                                         *)
(* FOR UPDATE locks the rows it finds: it takes nothing when the row does  *)
(* not exist, and a row another transaction inserted is invisible until    *)
(* that transaction commits.  warehouse_inventory mirrors inventory: the   *)
(* code writes the same value to it right after each write, under the same *)
(* row lock, so one quantity stands for both.                              *)
(***************************************************************************)
EXTENDS Integers, Sequences

CONSTANTS
    Keys,       \* inventory rows, numbered in the order the code sorts them
    Txs,        \* database transactions that may be open at the same time
    Ops,        \* the operations requests ask for, see Program
    Stocked,    \* rows that exist before the first request
    InitQty,    \* their quantity
    MaxQty,     \* largest value of the INTEGER column
    Free        \* the owner of a row nobody has locked

ASSUME KeysAssumption == Keys \subseteq Nat
ASSUME StockedAssumption == Stocked \subseteq Keys
ASSUME QtyAssumption == MaxQty \in Nat /\ InitQty \in 0..MaxQty
ASSUME FreeAssumption == Free \notin Txs

VARIABLES
    rows,       \* committed rows of the inventory table
    qty,        \* committed inventory.quantity, 0 without a row
    ledger,     \* sum of the committed movements' quantity_changed, per row
    lock,       \* the transaction holding each row's lock
    todo,       \* per transaction: statements still to run
    seen,       \* per transaction: the quantity it read last (or wrote) per row
    found,      \* per transaction: rows its reads found
    wrote,      \* per transaction: rows it has written, uncommitted
    moved       \* per transaction: sum of its uncommitted movements, per row

table == <<rows, qty, ledger>>
vars  == <<rows, qty, ledger, lock, todo, seen, found, wrote, moved>>

-----------------------------------------------------------------------------
(* The statements a transaction sends, in order. *)

Lock(k)     == [do |-> "lock", key |-> k, by |-> 0]      \* SELECT ... FOR UPDATE
LockRead(k) == [do |-> "lockRead", key |-> k, by |-> 0]  \* the same, its result used
Read(k)     == [do |-> "read", key |-> k, by |-> 0]      \* SELECT quantity
Write(k, d) == [do |-> "write", key |-> k, by |-> d]     \* UPDATE or INSERT, and the movement
Commit      == [do |-> "commit", key |-> 0, by |-> 0]

Statements ==
    [do : {"lock", "lockRead", "read", "write"}, key : Keys, by : Int] \cup {Commit}

(***************************************************************************)
(* An operation: its legs (row and signed quantity, in the order of the    *)
(* order's lines or of the transfer's two sides) and its locks, the rows   *)
(* of the legs as the code's sort orders them.                             *)
(***************************************************************************)
Kinds == {"reserve", "release", "adjust", "transfer"}
Leg == [key : Keys, by : Int]
KeysOf(legs) == {legs[i].key : i \in DOMAIN legs}

ASSUME OpsAssumption ==
    \A op \in Ops :
        /\ op \in [kind : Kinds, legs : Seq(Leg), locks : Seq(Keys)]
        /\ {op.locks[i] : i \in DOMAIN op.locks} = KeysOf(op.legs)
        /\ \A i, j \in DOMAIN op.locks : i <= j => op.locks[i] <= op.locks[j]
        /\ op.kind = "adjust" => Len(op.legs) = 1
        /\ op.kind = "transfer" => /\ Len(op.legs) = 2
                                   /\ op.legs[1].key # op.legs[2].key
                                   /\ op.legs[1].by = -op.legs[2].by

LockAll(keys) == [i \in 1..Len(keys) |-> Lock(keys[i])]

ReadAndWrite(legs) ==
    [i \in 1..(2 * Len(legs)) |->
        LET leg == legs[(i + 1) \div 2]
        IN  IF i % 2 = 1 THEN Read(leg.key) ELSE Write(leg.key, leg.by)]

(* OrderService.create: every row locked in sorted order, then line by line. *)
ReserveInLineOrder(op) ==
    [i \in 1..Len(op.legs) |-> Lock(op.legs[i].key)] \o ReadAndWrite(op.legs)
ReserveUnlocked(op) == ReadAndWrite(op.legs)
Reserve(op) == LockAll(op.locks) \o ReadAndWrite(op.legs)

(* OrderService.cancel: reservation by reservation, in the order of the items. *)
Release(op) ==
    [i \in 1..(3 * Len(op.legs)) |->
        LET leg == op.legs[(i + 2) \div 3]
        IN  CASE i % 3 = 1 -> Lock(leg.key)
              [] i % 3 = 2 -> Read(leg.key)
              [] i % 3 = 0 -> Write(leg.key, leg.by)]

(* InventoryService.adjust: one row, its quantity taken from the locking read. *)
Adjust(op) == <<LockRead(op.legs[1].key), Write(op.legs[1].key, op.legs[1].by)>>

(* InventoryService.transfer: both rows locked in sorted order, then both read. *)
TransferReadingFirst(op) ==
    [i \in 1..2 |-> Read(op.legs[i].key)] \o LockAll(op.locks)
        \o [i \in 1..2 |-> Write(op.legs[i].key, op.legs[i].by)]
Transfer(op) ==
    LockAll(op.locks)
        \o <<Read(op.legs[1].key), Read(op.legs[2].key),
             Write(op.legs[1].key, op.legs[1].by), Write(op.legs[2].key, op.legs[2].by)>>

Body(op) ==
    CASE op.kind = "reserve"  -> Reserve(op)
      [] op.kind = "release"  -> Release(op)
      [] op.kind = "adjust"   -> Adjust(op)
      [] op.kind = "transfer" -> Transfer(op)

Program(op) == Append(Body(op), Commit)

-----------------------------------------------------------------------------
Init ==
    /\ rows = Stocked
    /\ qty = [k \in Keys |-> IF k \in Stocked THEN InitQty ELSE 0]
    /\ ledger = qty
    /\ lock = [k \in Keys |-> Free]
    /\ todo = [t \in Txs |-> <<>>]
    /\ seen = [t \in Txs |-> [k \in Keys |-> 0]]
    /\ found = [t \in Txs |-> {}]
    /\ wrote = [t \in Txs |-> {}]
    /\ moved = [t \in Txs |-> [k \in Keys |-> 0]]

Open(t) == todo[t] # <<>>
Now(t) == Head(todo[t])
At(t, what) == Open(t) /\ Now(t).do = what
Advance(t) == todo' = [todo EXCEPT ![t] = Tail(@)]

CanLock(t, k) == lock[k] \in {Free, t}

(* Grants the row lock when the row is there to be locked. *)
Acquire(t, k) ==
    IF k \in rows
    THEN CanLock(t, k) /\ lock' = [lock EXCEPT ![k] = t]
    ELSE UNCHANGED lock

(* What a SELECT of t returns for row k: its own write, else what is committed. *)
Observe(t, k) ==
    LET there == k \in rows \cup wrote[t]
    IN  /\ found' = [found EXCEPT ![t] = IF there THEN @ \cup {k} ELSE @ \ {k}]
        /\ seen' = [seen EXCEPT ![t][k] = IF k \in wrote[t] THEN @ ELSE qty[k]]

Begin(t, op) ==
    /\ ~Open(t)
    /\ todo' = [todo EXCEPT ![t] = Program(op)]
    /\ UNCHANGED <<table, lock, seen, found, wrote, moved>>

LockRow(t) ==
    /\ At(t, "lock")
    /\ Acquire(t, Now(t).key)
    /\ Advance(t)
    /\ UNCHANGED <<table, seen, found, wrote, moved>>

LockAndReadRow(t) ==
    /\ At(t, "lockRead")
    /\ Acquire(t, Now(t).key)
    /\ Observe(t, Now(t).key)
    /\ Advance(t)
    /\ UNCHANGED <<table, wrote, moved>>

ReadRow(t) ==
    /\ At(t, "read")
    /\ Observe(t, Now(t).key)
    /\ Advance(t)
    /\ UNCHANGED <<table, lock, wrote, moved>>

(* The column's check constraint and width; the services check the first themselves. *)
Unchecked(q) == q \in Int
Storable(q) == q \in 0..MaxQty

(***************************************************************************)
(* UPDATE of a row the transaction found, INSERT of one it did not: both   *)
(* wait for the row's lock, and an INSERT that finds the row committed by  *)
(* another transaction fails (unique index), as does a negative quantity   *)
(* (INSUFFICIENT_STOCK) or one past the column: those transactions Abort.  *)
(***************************************************************************)
WriteRow(t) ==
    LET k == Now(t).key
        after == seen[t][k] + Now(t).by
    IN  /\ At(t, "write")
        /\ CanLock(t, k)
        /\ k \in found[t] \/ k \notin rows
        /\ Storable(after)
        /\ lock' = [lock EXCEPT ![k] = t]
        /\ seen' = [seen EXCEPT ![t][k] = after]
        /\ found' = [found EXCEPT ![t] = @ \cup {k}]
        /\ wrote' = [wrote EXCEPT ![t] = @ \cup {k}]
        /\ moved' = [moved EXCEPT ![t][k] = @ + Now(t).by]
        /\ Advance(t)
        /\ UNCHANGED table

(* End of the transaction, either way: its locks and private state are gone. *)
Forget(t) ==
    /\ lock' = [k \in Keys |-> IF lock[k] = t THEN Free ELSE lock[k]]
    /\ todo' = [todo EXCEPT ![t] = <<>>]
    /\ seen' = [seen EXCEPT ![t] = [k \in Keys |-> 0]]
    /\ found' = [found EXCEPT ![t] = {}]
    /\ wrote' = [wrote EXCEPT ![t] = {}]
    /\ moved' = [moved EXCEPT ![t] = [k \in Keys |-> 0]]

CommitTx(t) ==
    /\ At(t, "commit")
    /\ rows' = rows \cup wrote[t]
    /\ qty' = [k \in Keys |-> IF k \in wrote[t] THEN seen[t][k] ELSE qty[k]]
    /\ ledger' = [k \in Keys |-> ledger[k] + moved[t][k]]
    /\ Forget(t)

(***************************************************************************)
(* Rollback at any point before the commit: insufficient stock, a unique   *)
(* violation, a deadlock victim, the transaction's time limit, a lost      *)
(* connection.  A retry of the service's loop is another Begin.            *)
(***************************************************************************)
AbortTx(t) ==
    /\ Open(t)
    /\ Forget(t)
    /\ UNCHANGED table

Next ==
    \E t \in Txs :
        \/ \E op \in Ops : Begin(t, op)
        \/ LockRow(t)
        \/ LockAndReadRow(t)
        \/ ReadRow(t)
        \/ WriteRow(t)
        \/ CommitTx(t)
        \/ AbortTx(t)

Spec == Init /\ [][Next]_vars

-----------------------------------------------------------------------------
TypeOK ==
    /\ rows \in SUBSET Keys
    /\ qty \in [Keys -> 0..MaxQty]
    /\ ledger \in [Keys -> Int]
    /\ lock \in [Keys -> Txs \cup {Free}]
    /\ todo \in [Txs -> Seq(Statements)]
    /\ seen \in [Txs -> [Keys -> 0..MaxQty]]
    /\ found \in [Txs -> SUBSET Keys]
    /\ wrote \in [Txs -> SUBSET Keys]
    /\ moved \in [Txs -> [Keys -> Int]]

(* No lost update: the on-hand quantity of every row is the sum of the     *)
(* movements committed for it.  Violated when a transaction writes a       *)
(* quantity it computed from a value another transaction has since changed. *)
LedgerExplainsStock == \A k \in Keys : qty[k] = ledger[k]

(***************************************************************************)
(* Why no update is lost, where every row exists: a transaction holds the  *)
(* lock of each row it wrote, and each write still to come is preceded, in *)
(* the statements already run or still to run, by a read of the row that   *)
(* is itself preceded by the row's lock.                                   *)
(***************************************************************************)
Locking == {"lock", "lockRead"}
Reading == {"read", "lockRead"}

Before(s, i, kinds, k) ==
    \E j \in 1..(i - 1) : s[j].do \in kinds /\ s[j].key = k

Current(t, k) == lock[k] = t /\ (k \notin wrote[t] => seen[t][k] = qty[k])

WritesPending(t) ==
    \A k \in Keys :
        IF k \in wrote[t]
        THEN lock[k] = t /\ seen[t][k] = qty[k] + moved[t][k]
        ELSE moved[t][k] = 0

ReadsAfterLocks(t) ==
    \A i \in DOMAIN todo[t] : todo[t][i].do = "read" =>
        LET k == todo[t][i].key IN lock[k] = t \/ Before(todo[t], i, Locking, k)

WritesAfterReads(t) ==
    \A i \in DOMAIN todo[t] : todo[t][i].do = "write" =>
        LET k == todo[t][i].key IN Current(t, k) \/ Before(todo[t], i, Reading, k)

LockDiscipline ==
    \A t \in Txs : WritesPending(t) /\ ReadsAfterLocks(t) /\ WritesAfterReads(t)

(* The transaction that t's next statement has to wait for. *)
WaitsFor(t, u) ==
    /\ Open(t)
    /\ u # t
    /\ \/ Now(t).do \in {"lock", "lockRead"} /\ Now(t).key \in rows
       \/ Now(t).do = "write"
    /\ lock[Now(t).key] = u

(* The sorted lock order means no set of transactions ever waits in a      *)
(* circle (orders.service.js:209, "deterministic order to avoid deadlock"). *)
NoWaitCycle ==
    \A S \in (SUBSET Txs) \ {{}} : \E t \in S : \A u \in S : ~WaitsFor(t, u)

=============================================================================
