---------------------------- MODULE StockProofs ----------------------------
(***************************************************************************)
(* Proofs about Stock for any rows, any number of open transactions and    *)
(* any operations.  The inductive invariant is LockDiscipline: it needs    *)
(* every row to exist before it is locked, hence Stocked = Keys below.     *)
(***************************************************************************)
EXTENDS Stock, FiniteSetTheorems, TLAPS

(* A program locks each row before it reads it and reads it before writing. *)
WellFormed(s) ==
    \A i \in DOMAIN s :
        /\ s[i].do = "read" => Before(s, i, Locking, s[i].key)
        /\ s[i].do = "write" => Before(s, i, Reading, s[i].key)

-----------------------------------------------------------------------------
(* The statements of the builders are statements. *)
LEMMA StatementTypes ==
  /\ \A k \in Keys : Lock(k) \in Statements /\ LockRead(k) \in Statements
  /\ \A k \in Keys : Read(k) \in Statements
  /\ \A k \in Keys, d \in Int : Write(k, d) \in Statements
  /\ Commit \in Statements
BY DEF Statements, Lock, LockRead, Read, Write, Commit

(* Legs have a row and an amount. *)
LEMMA LegTypes ==
  ASSUME NEW legs \in Seq(Leg)
  PROVE  /\ Len(legs) \in Nat
         /\ \A p \in 1..Len(legs) : legs[p].key \in Keys /\ legs[p].by \in Int
<1>1. \A p \in 1..Len(legs) : legs[p] \in Leg
  OBVIOUS
<1>2. QED BY <1>1 DEF Leg

(* Legs are spelled out as a read and a write each, in order. *)
LEMMA ReadAndWriteShape ==
  ASSUME NEW legs \in Seq(Leg)
  PROVE  /\ ReadAndWrite(legs) \in Seq(Statements)
         /\ Len(ReadAndWrite(legs)) = 2 * Len(legs)
         /\ \A m \in 1..(2 * Len(legs)) : \E p \in 1..Len(legs) :
              \/ m = 2 * p - 1 /\ ReadAndWrite(legs)[m] = Read(legs[p].key)
              \/ m = 2 * p /\ ReadAndWrite(legs)[m] = Write(legs[p].key, legs[p].by)
         /\ \A p \in 1..Len(legs) : ReadAndWrite(legs)[2 * p - 1] = Read(legs[p].key)
<1> DEFINE n == Len(legs)
           RW == ReadAndWrite(legs)
<1>1. n \in Nat /\ \A p \in 1..n : legs[p].key \in Keys /\ legs[p].by \in Int
  BY LegTypes
<1>2. ASSUME NEW m \in 1..(2 * n)
      PROVE  \E p \in 1..n : \/ m = 2 * p - 1 /\ m % 2 = 1 /\ (m + 1) \div 2 = p
                             \/ m = 2 * p /\ m % 2 = 0 /\ (m + 1) \div 2 = p
  <2>1. (m + 1) \div 2 \in 1..n
    BY <1>1
  <2>2. \/ m = 2 * ((m + 1) \div 2) - 1 /\ m % 2 = 1
        \/ m = 2 * ((m + 1) \div 2) /\ m % 2 = 0
    BY <1>1
  <2>3. QED BY <2>1, <2>2
<1>3. ASSUME NEW m \in 1..(2 * n)
      PROVE  \E p \in 1..n : \/ m = 2 * p - 1 /\ RW[m] = Read(legs[p].key)
                             \/ m = 2 * p /\ RW[m] = Write(legs[p].key, legs[p].by)
  BY <1>2 DEF ReadAndWrite
<1>4. ASSUME NEW p \in 1..n
      PROVE  RW[2 * p - 1] = Read(legs[p].key)
  <2>1. 2 * p - 1 \in 1..(2 * n) /\ (2 * p - 1) % 2 = 1 /\ ((2 * p - 1) + 1) \div 2 = p
    BY <1>1
  <2>2. QED BY <2>1 DEF ReadAndWrite
<1>5. ASSUME NEW m \in 1..(2 * n) PROVE RW[m] \in Statements
  <2> HIDE DEF RW, n
  <2>1. QED BY <1>1, <1>3, StatementTypes
<1>6. DOMAIN RW = 1..(2 * n) /\ RW = [m \in 1..(2 * n) |-> RW[m]] /\ 2 * n \in Nat
  BY <1>1 DEF ReadAndWrite
<1>7. RW \in Seq(Statements) /\ Len(RW) = 2 * n
  <2> HIDE DEF RW, n
  <2>1. QED BY <1>5, <1>6
<1>8. QED BY <1>3, <1>4, <1>7

(* A cancellation locks, reads and writes one row after the other. *)
LEMMA ReleaseShape ==
  ASSUME NEW op \in Ops
  PROVE  Release(op) \in Seq(Statements) /\ WellFormed(Release(op))
<1> DEFINE legs == op.legs
           n == Len(legs)
           RL == Release(op)
<1>1. n \in Nat /\ \A p \in 1..n : legs[p].key \in Keys /\ legs[p].by \in Int
  BY LegTypes, OpsAssumption
<1>2. ASSUME NEW m \in 1..(3 * n)
      PROVE  \E p \in 1..n : \/ m = 3 * p - 2 /\ m % 3 = 1 /\ (m + 2) \div 3 = p
                             \/ m = 3 * p - 1 /\ m % 3 = 2 /\ (m + 2) \div 3 = p
                             \/ m = 3 * p /\ m % 3 = 0 /\ (m + 2) \div 3 = p
  <2>1. (m + 2) \div 3 \in 1..n
    BY <1>1
  <2>2. m \in Nat
    BY <1>1
  <2>3. \/ m = 3 * ((m + 2) \div 3) - 2 /\ m % 3 = 1
        \/ m = 3 * ((m + 2) \div 3) - 1 /\ m % 3 = 2
        \/ m = 3 * ((m + 2) \div 3) /\ m % 3 = 0
    <3> HIDE DEF n
    <3>1. QED BY <2>2
  <2>4. QED BY <2>1, <2>3
<1>3. ASSUME NEW m \in 1..(3 * n)
      PROVE  \E p \in 1..n : \/ m = 3 * p - 2 /\ RL[m] = Lock(legs[p].key)
                             \/ m = 3 * p - 1 /\ RL[m] = Read(legs[p].key)
                             \/ m = 3 * p /\ RL[m] = Write(legs[p].key, legs[p].by)
  <2>1. PICK p \in 1..n : \/ m = 3 * p - 2 /\ m % 3 = 1 /\ (m + 2) \div 3 = p
                          \/ m = 3 * p - 1 /\ m % 3 = 2 /\ (m + 2) \div 3 = p
                          \/ m = 3 * p /\ m % 3 = 0 /\ (m + 2) \div 3 = p
    BY <1>2
  <2>2. RL[m] = CASE m % 3 = 1 -> Lock(legs[p].key)
                  [] m % 3 = 2 -> Read(legs[p].key)
                  [] m % 3 = 0 -> Write(legs[p].key, legs[p].by)
    BY <2>1 DEF Release
  <2>3. CASE m % 3 = 1
    BY <2>1, <2>2, <2>3
  <2>4. CASE m % 3 = 2
    <3> HIDE DEF RL
    <3>1. m % 3 # 1 /\ m % 3 # 0
      BY <2>4
    <3>2. RL[m] = Read(legs[p].key)
      BY <2>2, <2>4, <3>1, Zenon
    <3>3. QED BY <2>1, <3>1, <3>2
  <2>5. CASE m % 3 = 0
    <3> HIDE DEF RL
    <3>1. m % 3 # 1 /\ m % 3 # 2
      BY <2>5
    <3>2. RL[m] = Write(legs[p].key, legs[p].by)
      BY <2>2, <2>5, <3>1, Zenon
    <3>3. QED BY <2>1, <3>1, <3>2
  <2>6. QED BY <2>1, <2>3, <2>4, <2>5
<1>4. ASSUME NEW m \in 1..(3 * n) PROVE RL[m] \in Statements
  <2> HIDE DEF RL, n
  <2>1. QED BY <1>1, <1>3, StatementTypes
<1>5. DOMAIN RL = 1..(3 * n) /\ RL = [m \in 1..(3 * n) |-> RL[m]] /\ 3 * n \in Nat
  BY <1>1 DEF Release
<1>6. RL \in Seq(Statements)
  <2> HIDE DEF RL, n
  <2>1. QED BY <1>4, <1>5
<1>7. ASSUME NEW m \in DOMAIN RL, RL[m].do = "read"
      PROVE  m - 1 \in 1..(m - 1) /\ RL[m - 1].do = "lock" /\ RL[m - 1].key = RL[m].key
  <2> HIDE DEF RL, n
  <2>1. PICK p \in 1..n : m = 3 * p - 1 /\ RL[m] = Read(legs[p].key)
    BY <1>3, <1>5, <1>7 DEF Lock, Read, Write
  <2>2. m - 1 \in 1..(3 * n) /\ m - 1 \in 1..(m - 1) /\ m - 1 = 3 * p - 2
    BY <2>1, <1>1, <1>5
  <2>3. PICK q \in 1..n : \/ m - 1 = 3 * q - 2 /\ RL[m - 1] = Lock(legs[q].key)
                          \/ m - 1 = 3 * q - 1 /\ RL[m - 1] = Read(legs[q].key)
                          \/ m - 1 = 3 * q /\ RL[m - 1] = Write(legs[q].key, legs[q].by)
    BY <1>3, <2>2
  <2>4. p = q /\ RL[m - 1] = Lock(legs[p].key)
    BY <2>2, <2>3, <1>1
  <2>5. QED BY <2>1, <2>2, <2>4 DEF Lock, Read
<1>8. ASSUME NEW m \in DOMAIN RL, RL[m].do = "write"
      PROVE  m - 1 \in 1..(m - 1) /\ RL[m - 1].do = "read" /\ RL[m - 1].key = RL[m].key
  <2> HIDE DEF RL, n
  <2>1. PICK p \in 1..n : m = 3 * p /\ RL[m] = Write(legs[p].key, legs[p].by)
    BY <1>3, <1>5, <1>8 DEF Lock, Read, Write
  <2>2. m - 1 \in 1..(3 * n) /\ m - 1 \in 1..(m - 1) /\ m - 1 = 3 * p - 1
    BY <2>1, <1>1, <1>5
  <2>3. PICK q \in 1..n : \/ m - 1 = 3 * q - 2 /\ RL[m - 1] = Lock(legs[q].key)
                          \/ m - 1 = 3 * q - 1 /\ RL[m - 1] = Read(legs[q].key)
                          \/ m - 1 = 3 * q /\ RL[m - 1] = Write(legs[q].key, legs[q].by)
    BY <1>3, <2>2
  <2>4. p = q /\ RL[m - 1] = Read(legs[p].key)
    BY <2>2, <2>3, <1>1
  <2>5. QED BY <2>1, <2>2, <2>4 DEF Write, Read
<1>9. WellFormed(RL)
  <2> HIDE DEF RL, n
  <2>1. QED BY <1>7, <1>8 DEF WellFormed, Before, Locking, Reading
<1>10. QED BY <1>6, <1>9

(* The rows a program locks up front are all the rows of its legs. *)
LEMMA LockAllShape ==
  ASSUME NEW op \in Ops
  PROVE  /\ LockAll(op.locks) \in Seq(Statements)
         /\ Len(LockAll(op.locks)) = Len(op.locks)
         /\ \A i \in 1..Len(op.locks) : LockAll(op.locks)[i].do = "lock"
         /\ \A p \in 1..Len(op.legs) : \E j \in 1..Len(op.locks) :
               LockAll(op.locks)[j].key = op.legs[p].key
<1>1. op.legs \in Seq(Leg) /\ op.locks \in Seq(Keys)
  BY OpsAssumption
<1>2. LockAll(op.locks) \in Seq(Statements) /\ Len(LockAll(op.locks)) = Len(op.locks)
  <2>1. \A i \in 1..Len(op.locks) : Lock(op.locks[i]) \in Statements
    BY <1>1, StatementTypes
  <2>2. QED BY <2>1, <1>1 DEF LockAll
<1>3. \A i \in 1..Len(op.locks) : LockAll(op.locks)[i].do = "lock"
  BY DEF LockAll, Lock
<1>4. ASSUME NEW p \in 1..Len(op.legs)
      PROVE  \E j \in 1..Len(op.locks) : LockAll(op.locks)[j].key = op.legs[p].key
  <2>1. op.legs[p].key \in KeysOf(op.legs)
    BY <1>1 DEF KeysOf
  <2>2. PICK j \in DOMAIN op.locks : op.locks[j] = op.legs[p].key
    BY <2>1, OpsAssumption
  <2>3. QED BY <2>2, <1>1 DEF LockAll, Lock
<1>5. QED BY <1>2, <1>3, <1>4

(* OrderService.create's statements lock every row, then read it, then write it. *)
LEMMA ReserveShape ==
  ASSUME NEW op \in Ops
  PROVE  Reserve(op) \in Seq(Statements) /\ WellFormed(Reserve(op))
<1> DEFINE legs == op.legs
           n == Len(legs)
           LA == LockAll(op.locks)
           L == Len(LA)
           RW == ReadAndWrite(legs)
           s == LA \o RW
<1>1. legs \in Seq(Leg) /\ op.locks \in Seq(Keys) /\ n \in Nat
  BY OpsAssumption
<1>2. /\ LA \in Seq(Statements) /\ RW \in Seq(Statements)
      /\ L \in Nat /\ Len(RW) = 2 * n
  BY <1>1, LockAllShape, ReadAndWriteShape
<1>3. \A m \in 1..(2 * n) : \E p \in 1..n :
        \/ m = 2 * p - 1 /\ RW[m] = Read(legs[p].key)
        \/ m = 2 * p /\ RW[m] = Write(legs[p].key, legs[p].by)
  BY <1>1, ReadAndWriteShape
<1>4. \A p \in 1..n : RW[2 * p - 1] = Read(legs[p].key)
  BY <1>1, ReadAndWriteShape
<1>5. /\ \A i \in 1..L : LA[i].do = "lock"
      /\ \A p \in 1..n : \E j \in 1..L : LA[j].key = legs[p].key
  BY LockAllShape
<1> HIDE DEF legs, n, LA, L, RW
<1>6. /\ s \in Seq(Statements)
      /\ DOMAIN s = 1..(L + 2 * n)
      /\ \A i \in 1..L : s[i] = LA[i]
      /\ \A i \in (L + 1)..(L + 2 * n) : s[i] = RW[i - L] /\ i - L \in 1..(2 * n)
  <2>1. /\ s \in Seq(Statements) /\ DOMAIN s = 1..(L + 2 * n)
        /\ \A i \in 1..L : s[i] = LA[i]
        /\ \A i \in 1..(2 * n) : s[L + i] = RW[i]
    <3>1. /\ s \in Seq(Statements) /\ DOMAIN s = 1..(Len(LA) + Len(RW))
          /\ \A i \in 1..Len(LA) : s[i] = LA[i]
          /\ \A i \in 1..Len(RW) : s[Len(LA) + i] = RW[i]
      BY <1>2
    <3> HIDE DEF s
    <3>2. QED BY <1>2, <3>1 DEF L
  <2> HIDE DEF s
  <2>2. ASSUME NEW i \in (L + 1)..(L + 2 * n)
        PROVE  i - L \in 1..(2 * n) /\ L + (i - L) = i
    BY <1>1, <1>2
  <2>3. QED BY <2>1, <2>2
<1> HIDE DEF s
<1>7. ASSUME NEW i \in DOMAIN s, s[i].do = "read"
      PROVE  \E j \in 1..(i - 1) : s[j].do \in Locking /\ s[j].key = s[i].key
  <2>1. i \in (L + 1)..(L + 2 * n)
    <3>1. i \notin 1..L
      BY <1>5, <1>6, <1>7
    <3>2. QED BY <1>1, <1>2, <1>6, <3>1
  <2>9. PICK m \in 1..(2 * n) : i = L + m /\ RW[m].do = "read" /\ s[i] = RW[m]
    BY <1>2, <1>6, <1>7, <2>1
  <2>2. PICK p \in 1..n : RW[m] = Read(legs[p].key)
    <3>1. PICK p \in 1..n : \/ m = 2 * p - 1 /\ RW[m] = Read(legs[p].key)
                            \/ m = 2 * p /\ RW[m] = Write(legs[p].key, legs[p].by)
      BY <1>3, <2>9
    <3>2. RW[m] # Write(legs[p].key, legs[p].by)
      BY <2>9 DEF Write
    <3>3. QED BY <3>1, <3>2
  <2>3. PICK j \in 1..L : LA[j].key = legs[p].key
    BY <1>5
  <2>4. j \in 1..(i - 1) /\ s[j] = LA[j] /\ s[i] = Read(legs[p].key)
    BY <1>2, <1>6, <2>1, <2>9, <2>2
  <2>5. QED BY <1>5, <2>3, <2>4 DEF Locking, Read
<1>8. ASSUME NEW i \in DOMAIN s, s[i].do = "write"
      PROVE  \E j \in 1..(i - 1) : s[j].do \in Reading /\ s[j].key = s[i].key
  <2>1. i \in (L + 1)..(L + 2 * n)
    <3>1. i \notin 1..L
      BY <1>5, <1>6, <1>8
    <3>2. QED BY <1>1, <1>2, <1>6, <3>1
  <2>9. PICK m \in 1..(2 * n) : i = L + m /\ RW[m].do = "write" /\ s[i] = RW[m]
    BY <1>2, <1>6, <1>8, <2>1
  <2>2. PICK p \in 1..n : m = 2 * p /\ RW[m] = Write(legs[p].key, legs[p].by)
    <3>1. PICK p \in 1..n : \/ m = 2 * p - 1 /\ RW[m] = Read(legs[p].key)
                            \/ m = 2 * p /\ RW[m] = Write(legs[p].key, legs[p].by)
      BY <1>3, <2>9
    <3>2. RW[m] # Read(legs[p].key)
      BY <2>9 DEF Read
    <3>3. QED BY <3>1, <3>2
  <2>3. i - 1 \in 1..(i - 1) /\ i - 1 \in (L + 1)..(L + 2 * n) /\ (i - 1) - L = 2 * p - 1
    <3>1. p \in Nat /\ p >= 1 /\ m = 2 * p /\ m \in Nat /\ m <= 2 * n /\ i = L + m
      BY <1>1, <2>9, <2>2
    <3>2. QED BY <1>1, <1>2, <3>1
  <2>4. s[i - 1] = Read(legs[p].key)
    BY <1>4, <1>6, <2>3
  <2>5. s[i].key = legs[p].key /\ s[i - 1].key = legs[p].key /\ s[i - 1].do = "read"
    BY <2>9, <2>2, <2>4 DEF Read, Write
  <2>6. QED BY <2>3, <2>5 DEF Reading
<1>9. QED BY <1>6, <1>7, <1>8 DEF WellFormed, Before, Reserve, s, LA, RW, legs

(* InventoryService.transfer's statements do too: two locks, two reads, two writes. *)
LEMMA TransferShape ==
  ASSUME NEW op \in Ops, op.kind = "transfer"
  PROVE  Transfer(op) \in Seq(Statements) /\ WellFormed(Transfer(op))
<1> DEFINE a == op.legs[1]
           b == op.legs[2]
           LA == LockAll(op.locks)
           L == Len(LA)
           four == <<Read(a.key), Read(b.key), Write(a.key, a.by), Write(b.key, b.by)>>
           s == LA \o four
<1>1. op.legs \in Seq(Leg) /\ op.locks \in Seq(Keys) /\ Len(op.legs) = 2
  BY OpsAssumption
<1>2. a.key \in Keys /\ a.by \in Int /\ b.key \in Keys /\ b.by \in Int
  BY <1>1, LegTypes
<1>3. four \in Seq(Statements) /\ Len(four) = 4
  BY <1>2, StatementTypes
<1>4. /\ LA \in Seq(Statements) /\ L \in Nat
      /\ \A i \in 1..L : LA[i].do = "lock"
      /\ \E j \in 1..L : LA[j].key = a.key
      /\ \E j \in 1..L : LA[j].key = b.key
  <2>1. 1 \in 1..Len(op.legs) /\ 2 \in 1..Len(op.legs)
    BY <1>1
  <2>2. LA \in Seq(Statements) /\ L = Len(op.locks)
    BY LockAllShape
  <2>3. \E j \in 1..L : LA[j].key = a.key
    BY <2>1, <2>2, LockAllShape
  <2>4. \E j \in 1..L : LA[j].key = b.key
    BY <2>1, <2>2, LockAllShape
  <2>5. \A i \in 1..L : LA[i].do = "lock"
    BY <2>2, LockAllShape
  <2>6. QED BY <1>1, <2>2, <2>3, <2>4, <2>5
<1>5. /\ four[1] = Read(a.key) /\ four[2] = Read(b.key)
      /\ four[3] = Write(a.key, a.by) /\ four[4] = Write(b.key, b.by)
  OBVIOUS
<1> HIDE DEF LA, L, four, a, b
<1>6. /\ s \in Seq(Statements) /\ DOMAIN s = 1..(L + 4)
      /\ \A i \in 1..L : s[i] = LA[i]
      /\ s[L + 1] = four[1] /\ s[L + 2] = four[2] /\ s[L + 3] = four[3] /\ s[L + 4] = four[4]
  <2>1. /\ s \in Seq(Statements) /\ DOMAIN s = 1..(Len(LA) + Len(four))
        /\ \A i \in 1..Len(LA) : s[i] = LA[i]
        /\ \A i \in 1..Len(four) : s[Len(LA) + i] = four[i]
    <3>1. LA \in Seq(Statements) /\ four \in Seq(Statements)
      BY <1>3, <1>4
    <3>2. QED BY <3>1
  <2> HIDE DEF s
  <2>2. QED BY <1>3, <1>4, <2>1 DEF L
<1> HIDE DEF s
<1>7. \A i \in DOMAIN s : i \in 1..L \/ i \in {L + 1, L + 2, L + 3, L + 4}
  BY <1>4, <1>6
<1>8. ASSUME NEW i \in DOMAIN s, s[i].do = "read"
      PROVE  \E j \in 1..(i - 1) : s[j].do \in Locking /\ s[j].key = s[i].key
  <2>1. \/ i = L + 1 /\ s[i] = Read(a.key)
        \/ i = L + 2 /\ s[i] = Read(b.key)
    <3>1. i \notin 1..L
      BY <1>4, <1>6, <1>8
    <3>2. i # L + 3 /\ i # L + 4
      BY <1>5, <1>6, <1>8 DEF Write
    <3>3. i = L + 1 \/ i = L + 2
      BY <1>7, <3>1, <3>2
    <3> QED BY <1>5, <1>6, <3>3
  <2>2. PICK j \in 1..L : LA[j].key = s[i].key
    BY <1>4, <2>1 DEF Read
  <2>3. j \in 1..(i - 1) /\ s[j] = LA[j]
    BY <1>4, <1>6, <2>1
  <2>4. QED BY <1>4, <2>2, <2>3 DEF Locking
<1>9. ASSUME NEW i \in DOMAIN s, s[i].do = "write"
      PROVE  \E j \in 1..(i - 1) : s[j].do \in Reading /\ s[j].key = s[i].key
  <2>1. \/ i = L + 3 /\ s[i] = Write(a.key, a.by)
        \/ i = L + 4 /\ s[i] = Write(b.key, b.by)
    <3>1. i \notin 1..L
      BY <1>4, <1>6, <1>9
    <3>2. i # L + 1 /\ i # L + 2
      BY <1>5, <1>6, <1>9 DEF Read
    <3>3. QED BY <1>5, <1>6, <1>7, <3>1, <3>2
  <2>2. i - 2 \in 1..(i - 1) /\ \/ i = L + 3 /\ i - 2 = L + 1
                                \/ i = L + 4 /\ i - 2 = L + 2
    BY <1>4, <2>1
  <2>3. s[i - 2].do = "read" /\ s[i - 2].key = s[i].key
    BY <1>4, <1>5, <1>6, <2>1, <2>2 DEF Read, Write
  <2>4. QED BY <2>2, <2>3 DEF Reading
<1>10. QED BY <1>6, <1>8, <1>9 DEF WellFormed, Before, Transfer, s, LA, four, a, b

(* InventoryService.adjust takes its quantity from the locking read itself. *)
LEMMA AdjustShape ==
  ASSUME NEW op \in Ops, op.kind = "adjust"
  PROVE  Adjust(op) \in Seq(Statements) /\ WellFormed(Adjust(op))
<1> DEFINE a == op.legs[1]
<1>1. a.key \in Keys /\ a.by \in Int
  BY OpsAssumption, LegTypes
<1> HIDE DEF a
<1>2. <<LockRead(a.key), Write(a.key, a.by)>> \in Seq(Statements)
  BY <1>1, StatementTypes
<1>3. WellFormed(<<LockRead(a.key), Write(a.key, a.by)>>)
  BY DEF WellFormed, Before, Reading, Locking, LockRead, Write
<1>4. QED BY <1>2, <1>3 DEF Adjust, a

(* Every program locks before it reads and reads before it writes. *)
LEMMA ProgramShape ==
  ASSUME NEW op \in Ops
  PROVE  Program(op) \in Seq(Statements) /\ WellFormed(Program(op))
<1>1. Body(op) \in Seq(Statements) /\ WellFormed(Body(op))
  <2>1. op.kind \in Kinds
    BY OpsAssumption
  <2>2. CASE op.kind = "reserve"
    BY <2>2, ReserveShape DEF Body
  <2>3. CASE op.kind = "release"
    BY <2>3, ReleaseShape DEF Body
  <2>4. CASE op.kind = "adjust"
    BY <2>4, AdjustShape DEF Body
  <2>5. CASE op.kind = "transfer"
    BY <2>5, TransferShape DEF Body
  <2>6. QED BY <2>1, <2>2, <2>3, <2>4, <2>5 DEF Kinds
<1> DEFINE b == Body(op)
           s == Append(b, Commit)
<1> HIDE DEF b
<1>2. b \in Seq(Statements) /\ WellFormed(b)
  BY <1>1 DEF b
<1>3. /\ s \in Seq(Statements) /\ DOMAIN s = 1..(Len(b) + 1) /\ DOMAIN b = 1..Len(b)
      /\ Len(b) \in Nat
      /\ \A i \in DOMAIN b : s[i] = b[i]
      /\ s[Len(b) + 1] = Commit
  BY <1>2, StatementTypes
<1> HIDE DEF s
<1>4. \A i \in DOMAIN s : s[i].do \in {"read", "write"} => i \in DOMAIN b
  BY <1>3 DEF Commit
<1>5. \A i \in DOMAIN b : \A j \in 1..(i - 1) : j \in DOMAIN b
  BY <1>3
<1>6. WellFormed(s)
  <2>1. ASSUME NEW i \in DOMAIN s, s[i].do = "read"
        PROVE  \E j \in 1..(i - 1) : s[j].do \in Locking /\ s[j].key = s[i].key
    BY <1>2, <1>3, <1>4, <1>5, <2>1 DEF WellFormed, Before
  <2>2. ASSUME NEW i \in DOMAIN s, s[i].do = "write"
        PROVE  \E j \in 1..(i - 1) : s[j].do \in Reading /\ s[j].key = s[i].key
    BY <1>2, <1>3, <1>4, <1>5, <2>2 DEF WellFormed, Before
  <2>3. QED BY <2>1, <2>2 DEF WellFormed, Before
<1>7. QED BY <1>3, <1>6 DEF Program, s, b

(* What is left of a transaction's statements after the next one. *)
LEMMA TailShape ==
  ASSUME NEW s \in Seq(Statements), s # <<>>
  PROVE  /\ Head(s) \in Statements /\ Head(s) = s[1] /\ 1 \in DOMAIN s
         /\ Tail(s) \in Seq(Statements)
         /\ \A i \in DOMAIN Tail(s) : i + 1 \in DOMAIN s /\ Tail(s)[i] = s[i + 1] /\ i \in Nat \ {0}
OBVIOUS

-----------------------------------------------------------------------------
(* Initially every variable has its type. *)
LEMMA TypeOKInit == Init => TypeOK
<1> SUFFICES ASSUME Init PROVE TypeOK
  OBVIOUS
<1>1. qty \in [Keys -> 0..MaxQty] /\ ledger \in [Keys -> Int]
  BY QtyAssumption DEF Init
<1>2. seen \in [Txs -> [Keys -> 0..MaxQty]] /\ moved \in [Txs -> [Keys -> Int]]
  BY QtyAssumption DEF Init
<1>3. todo \in [Txs -> Seq(Statements)]
  BY DEF Init
<1>4. QED BY <1>1, <1>2, <1>3, StockedAssumption DEF Init, TypeOK

(* A statement with a row names one of the rows. *)
LEMMA RowStatement ==
  ASSUME TypeOK, NEW t \in Txs, Open(t), Now(t).do # "commit"
  PROVE  Now(t).key \in Keys /\ Now(t).by \in Int
<1>1. todo[t] \in Seq(Statements) /\ todo[t] # <<>>
  BY DEF TypeOK, Open
<1>2. Now(t) \in Statements
  BY <1>1, TailShape DEF Now
<1>3. QED BY <1>2 DEF Statements, Commit

(* Every step keeps every variable in its type: the quantity a commit stores is *)
(* one a write has checked, and what is left of a program is a program.         *)
LEMMA TypeOKNext == TypeOK /\ [Next]_vars => TypeOK'
<1> SUFFICES ASSUME TypeOK, [Next]_vars PROVE TypeOK'
  OBVIOUS
<1> USE DEF TypeOK
<1>1. ASSUME NEW t \in Txs, todo[t] # <<>>, Advance(t)
      PROVE  todo' \in [Txs -> Seq(Statements)]
  BY <1>1, TailShape DEF Advance
<1>2. ASSUME NEW t \in Txs, NEW k \in Keys, Acquire(t, k)
      PROVE  lock' \in [Keys -> Txs \cup {Free}]
  BY <1>2 DEF Acquire
<1>3. ASSUME NEW t \in Txs, NEW k \in Keys, Observe(t, k)
      PROVE  /\ seen' \in [Txs -> [Keys -> 0..MaxQty]]
             /\ found' \in [Txs -> SUBSET Keys]
  <2>1. found' \in [Txs -> SUBSET Keys]
    BY <1>3 DEF Observe
  <2>2. (IF k \in wrote[t] THEN seen[t][k] ELSE qty[k]) \in 0..MaxQty
    OBVIOUS
  <2>3. seen' = [seen EXCEPT ![t] = [seen[t] EXCEPT ![k] = IF k \in wrote[t] THEN seen[t][k] ELSE qty[k]]]
    BY <1>3 DEF Observe
  <2>4. QED BY <2>1, <2>2, <2>3
<1>4. ASSUME NEW t \in Txs, Forget(t)
      PROVE  /\ lock' \in [Keys -> Txs \cup {Free}]
             /\ todo' \in [Txs -> Seq(Statements)]
             /\ seen' \in [Txs -> [Keys -> 0..MaxQty]]
             /\ found' \in [Txs -> SUBSET Keys]
             /\ wrote' \in [Txs -> SUBSET Keys]
             /\ moved' \in [Txs -> [Keys -> Int]]
  <2>1. 0 \in 0..MaxQty /\ <<>> \in Seq(Statements)
    BY QtyAssumption
  <2>2. lock' \in [Keys -> Txs \cup {Free}]
    BY <1>4 DEF Forget
  <2>3. todo' \in [Txs -> Seq(Statements)]
    BY <1>4, <2>1 DEF Forget
  <2>4. seen' \in [Txs -> [Keys -> 0..MaxQty]] /\ moved' \in [Txs -> [Keys -> Int]]
    BY <1>4, <2>1 DEF Forget
  <2>5. found' \in [Txs -> SUBSET Keys] /\ wrote' \in [Txs -> SUBSET Keys]
    BY <1>4 DEF Forget
  <2>6. QED BY <2>2, <2>3, <2>4, <2>5
<1>5. CASE UNCHANGED vars
  BY <1>5 DEF vars
<1>6. ASSUME NEW t \in Txs, NEW op \in Ops, Begin(t, op) PROVE TypeOK'
  <2>1. todo' \in [Txs -> Seq(Statements)]
    BY <1>6, ProgramShape DEF Begin
  <2>2. QED BY <1>6, <2>1 DEF Begin, table
<1>7. ASSUME NEW t \in Txs, LockRow(t) PROVE TypeOK'
  <2>1. Now(t).key \in Keys /\ todo[t] # <<>>
    BY <1>7, RowStatement DEF LockRow, At, Open
  <2>2. QED BY <1>1, <1>2, <1>7, <2>1 DEF LockRow, table
<1>8. ASSUME NEW t \in Txs, LockAndReadRow(t) PROVE TypeOK'
  <2>1. Now(t).key \in Keys /\ todo[t] # <<>>
    BY <1>8, RowStatement DEF LockAndReadRow, At, Open
  <2>2. QED BY <1>1, <1>2, <1>3, <1>8, <2>1 DEF LockAndReadRow, table
<1>9. ASSUME NEW t \in Txs, ReadRow(t) PROVE TypeOK'
  <2>1. Now(t).key \in Keys /\ todo[t] # <<>>
    BY <1>9, RowStatement DEF ReadRow, At, Open
  <2>2. QED BY <1>1, <1>3, <1>9, <2>1 DEF ReadRow, table
<1>10. ASSUME NEW t \in Txs, WriteRow(t) PROVE TypeOK'
  <2> DEFINE k == Now(t).key
             after == seen[t][k] + Now(t).by
  <2>1. k \in Keys /\ Now(t).by \in Int /\ todo[t] # <<>>
    BY <1>10, RowStatement DEF WriteRow, At, Open
  <2>2. after \in 0..MaxQty
    BY <1>10 DEF WriteRow, Storable
  <2>3. todo' \in [Txs -> Seq(Statements)]
    BY <1>1, <1>10, <2>1 DEF WriteRow
  <2>4. lock' \in [Keys -> Txs \cup {Free}]
    BY <1>10, <2>1 DEF WriteRow
  <2>5. seen' \in [Txs -> [Keys -> 0..MaxQty]]
    <3>1. seen' = [seen EXCEPT ![t] = [seen[t] EXCEPT ![k] = after]]
      BY <1>10 DEF WriteRow
    <3>2. QED BY <2>1, <2>2, <3>1
  <2>6. found' \in [Txs -> SUBSET Keys] /\ wrote' \in [Txs -> SUBSET Keys]
    BY <1>10, <2>1 DEF WriteRow
  <2>7. moved' \in [Txs -> [Keys -> Int]]
    <3>1. moved' = [moved EXCEPT ![t] = [moved[t] EXCEPT ![k] = moved[t][k] + Now(t).by]]
      BY <1>10 DEF WriteRow
    <3>2. QED BY <2>1, <3>1
  <2>8. rows' \in SUBSET Keys /\ qty' \in [Keys -> 0..MaxQty] /\ ledger' \in [Keys -> Int]
    BY <1>10 DEF WriteRow, table
  <2>9. QED BY <2>3, <2>4, <2>5, <2>6, <2>7, <2>8
<1>11. ASSUME NEW t \in Txs, CommitTx(t) PROVE TypeOK'
  <2>1. rows' \in SUBSET Keys
    BY <1>11 DEF CommitTx
  <2>2. qty' \in [Keys -> 0..MaxQty]
    BY <1>11 DEF CommitTx
  <2>3. ledger' \in [Keys -> Int]
    <3>1. \A k \in Keys : ledger[k] + moved[t][k] \in Int
      OBVIOUS
    <3>2. QED BY <1>11, <3>1 DEF CommitTx
  <2>4. Forget(t)
    BY <1>11 DEF CommitTx
  <2>5. QED BY <1>4, <2>1, <2>2, <2>3, <2>4
<1>12. ASSUME NEW t \in Txs, AbortTx(t) PROVE TypeOK'
  BY <1>4, <1>12 DEF AbortTx, table
<1>13. QED
  BY <1>5, <1>6, <1>7, <1>8, <1>9, <1>10, <1>11, <1>12 DEF Next

(* Type correctness: no committed or computed quantity leaves the column's range, *)
(* whatever the transactions, their operations and their interleaving.            *)
THEOREM TypeCorrect == Spec => []TypeOK
BY TypeOKInit, TypeOKNext, PTL DEF Spec

-----------------------------------------------------------------------------
(***************************************************************************)
(* No lost update.  The invariant is inductive only where every row        *)
(* exists: a lock on a row that is not there yet is no lock.               *)
(***************************************************************************)
Inv == TypeOK /\ rows = Keys /\ LedgerExplainsStock /\ LockDiscipline

LEMMA InvInit == ASSUME Stocked = Keys PROVE Init => Inv
<1> SUFFICES ASSUME Init PROVE Inv
  OBVIOUS
<1>1. TypeOK
  BY TypeOKInit
<1>2. rows = Keys /\ LedgerExplainsStock
  BY DEF Init, LedgerExplainsStock
<1>3. LockDiscipline
  <2> SUFFICES ASSUME NEW t \in Txs
               PROVE  WritesPending(t) /\ ReadsAfterLocks(t) /\ WritesAfterReads(t)
    BY DEF LockDiscipline
  <2>1. WritesPending(t)
    BY DEF Init, WritesPending
  <2>2. DOMAIN todo[t] = {}
    BY DEF Init
  <2>3. QED BY <2>1, <2>2 DEF ReadsAfterLocks, WritesAfterReads
<1>4. QED BY <1>1, <1>2, <1>3 DEF Inv

(* A transaction whose own locks, reads and statements stay as they are, on rows *)
(* it has locked whose stock stays as it is, keeps the discipline.               *)
LEMMA Undisturbed ==
  ASSUME TypeOK, NEW u \in Txs,
         WritesPending(u), ReadsAfterLocks(u), WritesAfterReads(u),
         todo'[u] = todo[u], seen'[u] = seen[u], wrote'[u] = wrote[u], moved'[u] = moved[u],
         \A k \in Keys : lock[k] = u => lock'[k] = u /\ qty'[k] = qty[k]
  PROVE  (WritesPending(u) /\ ReadsAfterLocks(u) /\ WritesAfterReads(u))'
<1>1. WritesPending(u)'
  BY DEF WritesPending
<1>2. \A i \in DOMAIN todo[u] : todo[u][i].do \in {"read", "write"} => todo[u][i].key \in Keys
  <2>1. \A i \in DOMAIN todo[u] : todo[u][i] \in Statements
    BY DEF TypeOK
  <2>2. QED BY <2>1 DEF Statements, Commit
<1>3. ReadsAfterLocks(u)'
  BY <1>2 DEF ReadsAfterLocks, Before
<1>4. \A k \in Keys : Current(u, k) => Current(u, k)'
  BY DEF Current
<1>5. WritesAfterReads(u)'
  BY <1>2, <1>4 DEF WritesAfterReads, Before
<1>6. QED BY <1>1, <1>3, <1>5

(* Running one statement keeps what is left disciplined, when a lock leaves the *)
(* row locked, a read leaves it locked and its value known, and nothing that    *)
(* was locked or known is lost.                                                 *)
LEMMA OneStatement ==
  ASSUME TypeOK, NEW t \in Txs, Open(t), Advance(t),
         ReadsAfterLocks(t), WritesAfterReads(t),
         Now(t).do \in Locking => lock'[Now(t).key] = t,
         \A k \in Keys : Now(t).do \in Reading /\ Now(t).key = k => Current(t, k)',
         \A k \in Keys : lock[k] = t => lock'[k] = t,
         \A k \in Keys : Current(t, k) => Current(t, k)'
  PROVE  (ReadsAfterLocks(t) /\ WritesAfterReads(t))'
<1> DEFINE s == todo[t]
<1>1. s \in Seq(Statements) /\ s # <<>>
  BY DEF TypeOK, Open
<1>2. todo'[t] = Tail(s)
  BY DEF Advance, TypeOK
<1>3. \A i \in DOMAIN s : s[i].do \in {"read", "write"} => s[i].key \in Keys
  <2>1. \A i \in DOMAIN s : s[i] \in Statements
    BY <1>1
  <2>2. QED BY <2>1 DEF Statements, Commit
<1>4. /\ Now(t) = s[1]
      /\ \A i \in DOMAIN Tail(s) : i + 1 \in DOMAIN s /\ Tail(s)[i] = s[i + 1] /\ i \in Nat \ {0}
      /\ DOMAIN s = 1..Len(s) /\ DOMAIN Tail(s) = 1..(Len(s) - 1) /\ Len(s) \in Nat
  BY <1>1, TailShape DEF Now
<1> HIDE DEF s
<1>5. ASSUME NEW i \in DOMAIN Tail(s), NEW kinds, NEW k \in Keys, Before(s, i + 1, kinds, k)
      PROVE  (Now(t).do \in kinds /\ Now(t).key = k) \/ Before(Tail(s), i, kinds, k)
  <2>1. PICK j \in 1..i : s[j].do \in kinds /\ s[j].key = k
    BY <1>4, <1>5 DEF Before
  <2>2. CASE j = 1
    BY <1>4, <2>1, <2>2
  <2>3. CASE j # 1
    <3>1. j - 1 \in 1..(i - 1) /\ j - 1 \in DOMAIN Tail(s)
      BY <1>4, <2>1, <2>3
    <3>2. Tail(s)[j - 1] = s[j]
      BY <1>4, <3>1, <2>1
    <3>3. QED BY <2>1, <3>1, <3>2 DEF Before
  <2>4. QED BY <2>2, <2>3
<1>6. ASSUME NEW i \in DOMAIN Tail(s), NEW k \in Keys,
             Tail(s)[i].do = "read", Tail(s)[i].key = k
      PROVE  lock'[k] = t \/ Before(Tail(s), i, Locking, k)
  <2>1. i + 1 \in DOMAIN s /\ s[i + 1].do = "read" /\ s[i + 1].key = k
    BY <1>4, <1>6
  <2>2. lock[k] = t \/ Before(s, i + 1, Locking, k)
    BY <2>1 DEF ReadsAfterLocks, s
  <2>3. QED BY <1>5, <2>2
<1>7. ASSUME NEW i \in DOMAIN Tail(s), NEW k \in Keys,
             Tail(s)[i].do = "write", Tail(s)[i].key = k
      PROVE  Current(t, k)' \/ Before(Tail(s), i, Reading, k)
  <2>1. i + 1 \in DOMAIN s /\ s[i + 1].do = "write" /\ s[i + 1].key = k
    BY <1>4, <1>7
  <2>2. Current(t, k) \/ Before(s, i + 1, Reading, k)
    BY <2>1 DEF WritesAfterReads, s
  <2>3. QED BY <1>5, <2>2
<1>8. \A i \in DOMAIN Tail(s) : Tail(s)[i].do \in {"read", "write"} => Tail(s)[i].key \in Keys
  BY <1>3, <1>4
<1>9. ReadsAfterLocks(t)'
  BY <1>2, <1>6, <1>8 DEF ReadsAfterLocks
<1>10. WritesAfterReads(t)'
  BY <1>2, <1>7, <1>8 DEF WritesAfterReads, Current
<1>11. QED BY <1>9, <1>10

(* The next statement itself has nothing before it in what is left. *)
LEMMA NextStatement ==
  ASSUME TypeOK, NEW t \in Txs, Open(t), ReadsAfterLocks(t), WritesAfterReads(t)
  PROVE  /\ Now(t).do = "read" => lock[Now(t).key] = t
         /\ Now(t).do = "write" => Current(t, Now(t).key)
<1>1. todo[t] \in Seq(Statements) /\ todo[t] # <<>>
  BY DEF TypeOK, Open
<1>2. 1 \in DOMAIN todo[t] /\ Now(t) = todo[t][1]
  BY <1>1, TailShape DEF Now
<1>3. \A kinds, k : ~Before(todo[t], 1, kinds, k)
  BY DEF Before
<1>4. QED BY <1>2, <1>3 DEF ReadsAfterLocks, WritesAfterReads

(* A row lock has one holder: who takes a lock disturbs nobody else's. *)
LEMMA OthersLocks ==
  ASSUME TypeOK, NEW t \in Txs, NEW k \in Keys, CanLock(t, k), NEW u \in Txs, u # t
  PROVE  lock[k] # u
BY FreeAssumption DEF CanLock

LEMMA InvNext == ASSUME Inv, Next PROVE Inv'
<1>1. TypeOK /\ rows = Keys /\ LedgerExplainsStock /\ LockDiscipline
  BY DEF Inv
<1>2. TypeOK'
  BY <1>1, TypeOKNext
<1>3. ASSUME NEW t \in Txs
      PROVE  WritesPending(t) /\ ReadsAfterLocks(t) /\ WritesAfterReads(t)
  BY <1>1 DEF LockDiscipline
<1>4. ASSUME NEW t \in Txs, UNCHANGED table,
             \A u \in Txs : (WritesPending(u) /\ ReadsAfterLocks(u) /\ WritesAfterReads(u))'
      PROVE  Inv'
  <2>1. (rows = Keys)' /\ LedgerExplainsStock'
    BY <1>1, <1>4 DEF table, LedgerExplainsStock
  <2>2. LockDiscipline'
    BY <1>4 DEF LockDiscipline
  <2>3. QED BY <1>2, <2>1, <2>2 DEF Inv
<1>5. ASSUME NEW t \in Txs, NEW op \in Ops, Begin(t, op) PROVE Inv'
  <2>1. ASSUME NEW u \in Txs, u # t
        PROVE  (WritesPending(u) /\ ReadsAfterLocks(u) /\ WritesAfterReads(u))'
    BY <1>1, <1>3, <1>5, <2>1, Undisturbed DEF Begin, table, TypeOK
  <2>2. WritesPending(t)'
    BY <1>3, <1>5 DEF Begin, table, WritesPending
  <2>3. todo'[t] = Program(op)
    BY <1>1, <1>5 DEF Begin, TypeOK
  <2>4. ReadsAfterLocks(t)' /\ WritesAfterReads(t)'
    <3>1. WellFormed(Program(op))
      BY ProgramShape
    <3> DEFINE s == Program(op)
    <3> HIDE DEF s
    <3>2. todo'[t] = s /\ WellFormed(s)
      BY <2>3, <3>1 DEF s
    <3>3. QED BY <3>2 DEF WellFormed, ReadsAfterLocks, WritesAfterReads
  <2>5. QED BY <1>4, <1>5, <2>1, <2>2, <2>4 DEF Begin
<1>6. ASSUME NEW t \in Txs, LockRow(t) PROVE Inv'
  <2> DEFINE k == Now(t).key
  <2>1. Open(t) /\ Advance(t) /\ Now(t).do = "lock" /\ k \in Keys
    BY <1>1, <1>6, RowStatement DEF LockRow, At
  <2>2. CanLock(t, k) /\ lock' = [lock EXCEPT ![k] = t]
    BY <1>1, <1>6, <2>1 DEF LockRow, Acquire
  <2>3. UNCHANGED <<table, seen, wrote, moved>>
    BY <1>6 DEF LockRow
  <2> HIDE DEF k
  <2>4. ASSUME NEW u \in Txs, u # t
        PROVE  (WritesPending(u) /\ ReadsAfterLocks(u) /\ WritesAfterReads(u))'
    <3>1. todo'[u] = todo[u]
      BY <2>1, <2>4 DEF Advance
    <3>2. \A r \in Keys : lock[r] = u => lock'[r] = u /\ qty'[r] = qty[r]
      BY <1>1, <2>1, <2>2, <2>3, <2>4, OthersLocks DEF TypeOK, table
    <3>3. QED BY <1>1, <1>3, <2>3, <3>1, <3>2, Undisturbed
  <2>5. lock'[k] = t /\ \A r \in Keys : lock[r] = t => lock'[r] = t
    BY <1>1, <2>1, <2>2 DEF TypeOK
  <2>6. WritesPending(t)'
    BY <1>3, <2>3, <2>5 DEF WritesPending, table
  <2>7. \A r \in Keys : Current(t, r) => Current(t, r)'
    BY <2>3, <2>5 DEF Current, table
  <2>8. Now(t).do \notin Reading
    BY <2>1 DEF Reading
  <2>9. ReadsAfterLocks(t)' /\ WritesAfterReads(t)'
    BY <1>1, <1>3, <2>1, <2>5, <2>7, <2>8, OneStatement DEF k
  <2>10. QED BY <1>4, <2>3, <2>4, <2>6, <2>9
<1>7. ASSUME NEW t \in Txs, LockAndReadRow(t) PROVE Inv'
  <2> DEFINE k == Now(t).key
  <2>1. Open(t) /\ Advance(t) /\ k \in Keys
    BY <1>1, <1>7, RowStatement DEF LockAndReadRow, At
  <2>2. CanLock(t, k) /\ lock' = [lock EXCEPT ![k] = t]
    BY <1>1, <1>7, <2>1 DEF LockAndReadRow, Acquire
  <2>3. UNCHANGED <<table, wrote, moved>>
    BY <1>7 DEF LockAndReadRow
  <2>4. /\ \A u \in Txs : u # t => seen'[u] = seen[u]
        /\ \A r \in Keys : r # k => seen'[t][r] = seen[t][r]
        /\ seen'[t][k] = IF k \in wrote[t] THEN seen[t][k] ELSE qty[k]
    BY <1>1, <1>7, <2>1 DEF LockAndReadRow, Observe, TypeOK
  <2> HIDE DEF k
  <2>5. ASSUME NEW u \in Txs, u # t
        PROVE  (WritesPending(u) /\ ReadsAfterLocks(u) /\ WritesAfterReads(u))'
    <3>1. todo'[u] = todo[u]
      BY <2>1, <2>5 DEF Advance
    <3>2. \A r \in Keys : lock[r] = u => lock'[r] = u /\ qty'[r] = qty[r]
      BY <1>1, <2>1, <2>2, <2>3, <2>5, OthersLocks DEF TypeOK, table
    <3>3. QED BY <1>1, <1>3, <2>3, <2>4, <2>5, <3>1, <3>2, Undisturbed
  <2>6. lock'[k] = t /\ \A r \in Keys : lock[r] = t => lock'[r] = t
    BY <1>1, <2>1, <2>2 DEF TypeOK
  <2>7. WritesPending(t)'
    BY <1>3, <2>1, <2>3, <2>4, <2>6 DEF WritesPending, table
  <2>8. \A r \in Keys : Current(t, r) => Current(t, r)'
    BY <2>1, <2>3, <2>4, <2>6 DEF Current, table
  <2>9. ReadsAfterLocks(t)' /\ WritesAfterReads(t)'
    <3>1. \A r \in Keys : Now(t).do \in Reading /\ Now(t).key = r => Current(t, r)'
      BY <2>3, <2>4, <2>6 DEF Current, table, k
    <3>2. QED BY <1>1, <1>3, <2>1, <2>6, <2>8, <3>1, OneStatement DEF k
  <2>10. QED BY <1>4, <2>3, <2>5, <2>7, <2>9
<1>8. ASSUME NEW t \in Txs, ReadRow(t) PROVE Inv'
  <2> DEFINE k == Now(t).key
  <2>1. Open(t) /\ Advance(t) /\ Now(t).do = "read" /\ k \in Keys
    BY <1>1, <1>8, RowStatement DEF ReadRow, At
  <2>2. lock[k] = t
    BY <1>1, <1>3, <2>1, NextStatement
  <2>3. UNCHANGED <<table, lock, wrote, moved>>
    BY <1>8 DEF ReadRow
  <2>4. /\ \A u \in Txs : u # t => seen'[u] = seen[u]
        /\ \A r \in Keys : r # k => seen'[t][r] = seen[t][r]
        /\ seen'[t][k] = IF k \in wrote[t] THEN seen[t][k] ELSE qty[k]
    BY <1>1, <1>8, <2>1 DEF ReadRow, Observe, TypeOK
  <2> HIDE DEF k
  <2>5. ASSUME NEW u \in Txs, u # t
        PROVE  (WritesPending(u) /\ ReadsAfterLocks(u) /\ WritesAfterReads(u))'
    <3>1. todo'[u] = todo[u]
      BY <2>1, <2>5 DEF Advance
    <3>2. QED BY <1>1, <1>3, <2>3, <2>4, <2>5, <3>1, Undisturbed DEF table
  <2>6. WritesPending(t)'
    BY <1>3, <2>1, <2>3, <2>4 DEF WritesPending, table
  <2>7. \A r \in Keys : Current(t, r) => Current(t, r)'
    BY <2>3, <2>4 DEF Current, table
  <2>8. ReadsAfterLocks(t)' /\ WritesAfterReads(t)'
    <3>1. \A r \in Keys : Now(t).do \in Reading /\ Now(t).key = r => Current(t, r)'
      BY <2>2, <2>3, <2>4 DEF Current, table, k
    <3>2. Now(t).do \notin Locking
      BY <2>1 DEF Locking
    <3>3. QED BY <1>1, <1>3, <2>1, <2>3, <2>7, <3>1, <3>2, OneStatement
  <2>9. QED BY <1>4, <2>3, <2>5, <2>6, <2>8
<1>9. ASSUME NEW t \in Txs, WriteRow(t) PROVE Inv'
  <2> DEFINE k == Now(t).key
             d == Now(t).by
  <2>1. Open(t) /\ Advance(t) /\ Now(t).do = "write" /\ k \in Keys /\ d \in Int
    BY <1>1, <1>9, RowStatement DEF WriteRow, At
  <2>2. CanLock(t, k) /\ lock' = [lock EXCEPT ![k] = t] /\ UNCHANGED table
    BY <1>9 DEF WriteRow
  <2>3. Current(t, k)
    BY <1>1, <1>3, <2>1, NextStatement
  <2>4. /\ \A u \in Txs : u # t =>
              seen'[u] = seen[u] /\ wrote'[u] = wrote[u] /\ moved'[u] = moved[u]
        /\ \A r \in Keys : r # k => seen'[t][r] = seen[t][r] /\ moved'[t][r] = moved[t][r]
        /\ seen'[t][k] = seen[t][k] + d
        /\ moved'[t][k] = moved[t][k] + d
        /\ wrote'[t] = wrote[t] \cup {k}
    BY <1>1, <1>9, <2>1 DEF WriteRow, TypeOK
  <2> HIDE DEF k, d
  <2>5. ASSUME NEW u \in Txs, u # t
        PROVE  (WritesPending(u) /\ ReadsAfterLocks(u) /\ WritesAfterReads(u))'
    <3>1. todo'[u] = todo[u]
      BY <2>1, <2>5 DEF Advance
    <3>2. \A r \in Keys : lock[r] = u => lock'[r] = u /\ qty'[r] = qty[r]
      BY <1>1, <2>1, <2>2, <2>5, OthersLocks DEF TypeOK, table
    <3>3. QED BY <1>1, <1>3, <2>4, <2>5, <3>1, <3>2, Undisturbed
  <2>6. lock'[k] = t /\ \A r \in Keys : lock[r] = t => lock'[r] = t
    BY <1>1, <2>1, <2>2 DEF TypeOK
  <2>7. qty[k] \in Int /\ seen[t][k] \in Int /\ moved[t][k] \in Int
    BY <1>1, <2>1, QtyAssumption DEF TypeOK
  <2>8. lock[k] = t /\ seen[t][k] = qty[k] + moved[t][k]
    BY <1>3, <2>1, <2>3, <2>7 DEF Current, WritesPending
  <2>9. WritesPending(t)'
    <3> SUFFICES ASSUME NEW r \in Keys
                 PROVE  IF r \in wrote'[t]
                        THEN lock'[r] = t /\ seen'[t][r] = qty'[r] + moved'[t][r]
                        ELSE moved'[t][r] = 0
      BY DEF WritesPending
    <3>1. qty'[r] = qty[r]
      BY <2>2 DEF table
    <3>2. CASE r = k
      BY <2>1, <2>4, <2>6, <2>7, <2>8, <3>1, <3>2
    <3>3. CASE r # k
      BY <1>3, <2>4, <2>6, <3>1, <3>3 DEF WritesPending
    <3>4. QED BY <3>2, <3>3
  <2>10. \A r \in Keys : Current(t, r) => Current(t, r)'
    BY <2>1, <2>2, <2>4, <2>6 DEF Current, table
  <2>11. Now(t).do \notin Locking /\ Now(t).do \notin Reading
    BY <2>1 DEF Locking, Reading
  <2>12. ReadsAfterLocks(t)' /\ WritesAfterReads(t)'
    BY <1>1, <1>3, <2>1, <2>6, <2>10, <2>11, OneStatement
  <2>13. QED BY <1>4, <2>2, <2>5, <2>9, <2>12
<1>10. ASSUME NEW t \in Txs, Forget(t),
              \A u \in Txs, r \in Keys : u # t /\ lock[r] = u => qty'[r] = qty[r]
       PROVE  \A u \in Txs : (WritesPending(u) /\ ReadsAfterLocks(u) /\ WritesAfterReads(u))'
  <2>1. ASSUME NEW u \in Txs, u # t
        PROVE  (WritesPending(u) /\ ReadsAfterLocks(u) /\ WritesAfterReads(u))'
    <3>1. /\ todo'[u] = todo[u] /\ seen'[u] = seen[u]
          /\ wrote'[u] = wrote[u] /\ moved'[u] = moved[u]
      BY <1>1, <1>10, <2>1 DEF Forget, TypeOK
    <3>2. \A r \in Keys : lock[r] = u => lock'[r] = u /\ qty'[r] = qty[r]
      BY <1>10, <2>1 DEF Forget
    <3>3. QED BY <1>1, <1>3, <3>1, <3>2, Undisturbed
  <2>2. todo'[t] = <<>> /\ wrote'[t] = {} /\ \A k \in Keys : moved'[t][k] = 0
    BY <1>1, <1>10 DEF Forget, TypeOK
  <2>3. (WritesPending(t) /\ ReadsAfterLocks(t) /\ WritesAfterReads(t))'
    BY <2>2 DEF WritesPending, ReadsAfterLocks, WritesAfterReads
  <2>4. QED BY <2>1, <2>3
<1>11. ASSUME NEW t \in Txs, CommitTx(t) PROVE Inv'
  <2>1. \A r \in Keys : IF r \in wrote[t] THEN qty'[r] = seen[t][r] ELSE qty'[r] = qty[r]
    BY <1>11 DEF CommitTx
  <2>2. \A r \in Keys : r \in wrote[t] => lock[r] = t
    BY <1>3 DEF WritesPending
  <2>3. LockDiscipline'
    BY <1>10, <1>11, <2>1, <2>2 DEF CommitTx, LockDiscipline
  <2>4. rows' = Keys
    BY <1>1, <1>11 DEF CommitTx, TypeOK
  <2>5. LedgerExplainsStock'
    <3> SUFFICES ASSUME NEW r \in Keys PROVE qty'[r] = ledger'[r]
      BY DEF LedgerExplainsStock
    <3>1. qty[r] = ledger[r] /\ ledger'[r] = ledger[r] + moved[t][r]
      BY <1>1, <1>11 DEF LedgerExplainsStock, CommitTx
    <3>2. qty[r] \in Int
      BY <1>1 DEF TypeOK
    <3>3. QED BY <1>3, <2>1, <3>1, <3>2 DEF WritesPending
  <2>6. QED BY <1>2, <2>3, <2>4, <2>5 DEF Inv
<1>12. ASSUME NEW t \in Txs, AbortTx(t) PROVE Inv'
  <2>1. UNCHANGED table /\ Forget(t)
    BY <1>12 DEF AbortTx
  <2>2. \A u \in Txs : (WritesPending(u) /\ ReadsAfterLocks(u) /\ WritesAfterReads(u))'
    BY <1>10, <2>1 DEF table
  <2>3. QED BY <1>4, <2>1, <2>2
<1>13. QED
  BY <1>5, <1>6, <1>7, <1>8, <1>9, <1>11, <1>12 DEF Next

LEMMA InvStutter == Inv /\ UNCHANGED vars => Inv'
BY DEF Inv, vars, TypeOK, LedgerExplainsStock, LockDiscipline, WritesPending,
       ReadsAfterLocks, WritesAfterReads, Before, Current

(* No lost update (orders, cancellations, adjustments, transfers): where every   *)
(* row exists, the stock on hand of every row is always the sum of its committed *)
(* movements, however the statements of the open transactions interleave.        *)
THEOREM NoLostUpdate == ASSUME Stocked = Keys PROVE Spec => []LedgerExplainsStock
<1>1. Init => Inv
  BY InvInit
<1>2. Inv /\ [Next]_vars => Inv'
  BY InvNext, InvStutter
<1>3. Inv => LedgerExplainsStock
  BY DEF Inv
<1>4. QED BY <1>1, <1>2, <1>3, PTL DEF Spec

-----------------------------------------------------------------------------
(* The promise to the rest of the system, for operations of any effect. *)
Promise == INSTANCE StockAtomic WITH Effects <- [Keys -> Int]

LEMMA PromiseStep ==
  ASSUME Inv, Inv', [Next]_vars
  PROVE  [Promise!Next]_Promise!vars
<1>1. TypeOK /\ TypeOK'
  BY DEF Inv
<1>2. ASSUME NEW t \in Txs, CommitTx(t) PROVE Promise!Next
  <2>1. moved[t] \in [Keys -> Int] /\ qty' \in [Keys -> 0..MaxQty]
    BY <1>1 DEF TypeOK
  <2>2. ASSUME NEW r \in Keys PROVE qty'[r] = qty[r] + moved[t][r]
    <3>1. WritesPending(t)
      BY DEF Inv, LockDiscipline
    <3>2. IF r \in wrote[t] THEN qty'[r] = seen[t][r] ELSE qty'[r] = qty[r]
      BY <1>2 DEF CommitTx
    <3>3. qty[r] \in Int
      BY <1>1 DEF TypeOK
    <3>4. QED BY <3>1, <3>2, <3>3 DEF WritesPending
  <2>3. qty' = [r \in Keys |-> qty[r] + moved[t][r]]
    BY <2>1, <2>2
  <2>4. ledger' = [r \in Keys |-> ledger[r] + moved[t][r]]
    BY <1>2 DEF CommitTx
  <2>5. \A r \in Keys : qty[r] + moved[t][r] >= 0
    BY <2>1, <2>2, QtyAssumption
  <2>6. Promise!Apply(moved[t])
    BY <2>3, <2>4, <2>5 DEF Promise!Apply
  <2>7. QED BY <2>1, <2>6 DEF Promise!Next
<1>3. ASSUME ~(\E t \in Txs : CommitTx(t)) PROVE UNCHANGED Promise!vars
  BY <1>3 DEF Next, Begin, LockRow, LockAndReadRow, ReadRow, WriteRow, AbortTx, table,
       vars, Promise!vars
<1>4. QED BY <1>2, <1>3

(* Transactions are indivisible: seen through the committed quantities and the    *)
(* committed movements alone, each operation happens in one step or not at all,   *)
(* its movements explain its change, and no row goes below zero.                  *)
THEOREM ImplementsPromise == ASSUME Stocked = Keys PROVE Spec => Promise!Spec
<1>1. Init => Inv
  BY InvInit
<1>2. Inv /\ [Next]_vars => Inv'
  BY InvNext, InvStutter
<1>3. Init => Promise!Init
  BY QtyAssumption DEF Init, Promise!Init
<1>4. Inv /\ Inv' /\ [Next]_vars => [Promise!Next]_Promise!vars
  BY PromiseStep
<1>5. QED BY <1>1, <1>2, <1>3, <1>4, PTL DEF Spec, Promise!Spec

-----------------------------------------------------------------------------
(***************************************************************************)
(* No circle of waiting transactions.  Where every operation locks its     *)
(* rows in the order the code sorts them, what a transaction holds never   *)
(* comes after what it still has to lock, so along a chain of waiting      *)
(* transactions the rows waited for only go up.                            *)
(***************************************************************************)
Sorted == \A op \in Ops : op.kind # "release"

Ascending(s) ==
    \A i, j \in DOMAIN s :
        i <= j /\ s[i].do \in Locking /\ s[j].do \in Locking => s[i].key <= s[j].key

Climbs(t) ==
    /\ Ascending(todo[t])
    /\ \A k \in Keys, i \in DOMAIN todo[t] :
          lock[k] = t /\ todo[t][i].do \in Locking => k <= todo[t][i].key

EndsInCommit(t) ==
    IF Open(t) THEN todo[t][Len(todo[t])] = Commit ELSE \A k \in Keys : lock[k] # t

ClimbInv == \A t \in Txs : Climbs(t) /\ EndsInCommit(t)

(* Statements that only read and write after a sorted list of locks stay sorted. *)
LEMMA AscendingLocks ==
  ASSUME NEW op \in Ops, NEW s \in Seq(Statements),
         \A i \in DOMAIN s : s[i].do \notin Locking
  PROVE  Ascending(LockAll(op.locks) \o s)
<1> DEFINE LA == LockAll(op.locks)
           L == Len(LA)
           g == LA \o s
<1>1. /\ op.locks \in Seq(Keys) /\ Len(op.locks) = L /\ L \in Nat
      /\ LA \in Seq(Statements) /\ \A i \in 1..L : LA[i].key = op.locks[i]
  <2>1. op.locks \in Seq(Keys)
    BY OpsAssumption
  <2>2. LA \in Seq(Statements) /\ L = Len(op.locks)
    BY LockAllShape
  <2>3. \A i \in 1..L : LA[i].key = op.locks[i]
    BY <2>2 DEF LockAll, Lock
  <2>4. QED BY <2>1, <2>2, <2>3
<1>2. \A i, j \in 1..L : i <= j => op.locks[i] <= op.locks[j]
  BY <1>1, OpsAssumption
<1> HIDE DEF LA, L
<1>3. /\ DOMAIN g = 1..(L + Len(s)) /\ Len(s) \in Nat
      /\ \A i \in 1..L : g[i] = LA[i]
      /\ \A i \in 1..Len(s) : g[L + i] = s[i]
  BY <1>1 DEF L
<1> HIDE DEF g
<1>4. ASSUME NEW i \in DOMAIN g, g[i].do \in Locking PROVE i \in 1..L
  <2>1. CASE i \notin 1..L
    <3>1. i - L \in 1..Len(s) /\ L + (i - L) = i
      BY <1>1, <1>3, <2>1
    <3>2. g[i] = s[i - L]
      BY <1>3, <3>1
    <3>3. QED BY <1>4, <3>1, <3>2
  <2>2. QED BY <2>1
<1>5. ASSUME NEW i \in DOMAIN g, NEW j \in DOMAIN g, i <= j,
             g[i].do \in Locking, g[j].do \in Locking
      PROVE  g[i].key <= g[j].key
  <2>1. i \in 1..L /\ j \in 1..L
    BY <1>4, <1>5
  <2>2. g[i].key = op.locks[i] /\ g[j].key = op.locks[j]
    BY <1>1, <1>3, <2>1
  <2>3. QED BY <1>2, <1>5, <2>1, <2>2
<1>6. QED BY <1>5 DEF Ascending, g, LA

(* Orders, adjustments and transfers lock in sorted order. *)
LEMMA AscendingProgram ==
  ASSUME Sorted, NEW op \in Ops
  PROVE  /\ Ascending(Program(op))
         /\ Program(op) # <<>> /\ Program(op)[Len(Program(op))] = Commit
<1>1. op.kind \in {"reserve", "adjust", "transfer"} /\ op.legs \in Seq(Leg)
  BY OpsAssumption DEF Sorted, Kinds
<1>2. Body(op) \in Seq(Statements) /\ Ascending(Body(op))
  <2>1. CASE op.kind = "reserve"
    <3>1. /\ ReadAndWrite(op.legs) \in Seq(Statements)
          /\ Len(ReadAndWrite(op.legs)) = 2 * Len(op.legs)
      BY <1>1, ReadAndWriteShape
    <3>2. ASSUME NEW i \in DOMAIN ReadAndWrite(op.legs)
          PROVE  ReadAndWrite(op.legs)[i].do \notin Locking
      <4>1. i \in 1..(2 * Len(op.legs))
        BY <3>1
      <4>2. \E p \in 1..Len(op.legs) :
              \/ ReadAndWrite(op.legs)[i] = Read(op.legs[p].key)
              \/ ReadAndWrite(op.legs)[i] = Write(op.legs[p].key, op.legs[p].by)
        BY <1>1, <4>1, ReadAndWriteShape
      <4>3. QED BY <4>2 DEF Read, Write, Locking
    <3>3. Body(op) = Reserve(op)
      BY <2>1 DEF Body
    <3>4. QED BY <3>1, <3>2, <3>3, AscendingLocks, ReserveShape DEF Reserve
  <2>2. CASE op.kind = "adjust"
    <3>1. Ascending(Adjust(op))
      <4>1. op.legs[1].key \in Keys
        BY <1>1, <2>2, OpsAssumption, LegTypes
      <4>2. \A k \in Keys : k <= k
        BY KeysAssumption
      <4>3. op.legs[1].key <= op.legs[1].key
        BY <4>1, <4>2
      <4>4. QED BY <4>3 DEF Adjust, Ascending, LockRead, Write, Locking
    <3>2. Body(op) = Adjust(op)
      BY <2>2 DEF Body
    <3>3. QED BY <2>2, <3>1, <3>2, AdjustShape
  <2>3. CASE op.kind = "transfer"
    <3> DEFINE a == op.legs[1]
               b == op.legs[2]
               four == <<Read(a.key), Read(b.key), Write(a.key, a.by), Write(b.key, b.by)>>
    <3>1. a.key \in Keys /\ a.by \in Int /\ b.key \in Keys /\ b.by \in Int
      BY <1>1, <2>3, OpsAssumption, LegTypes
    <3> HIDE DEF a, b
    <3>2. four \in Seq(Statements) /\ \A i \in DOMAIN four : four[i].do \notin Locking
      <4>1. four \in Seq(Statements) /\ Len(four) = 4
        BY <3>1, StatementTypes
      <4>2. \A i \in 1..4 : four[i].do \notin Locking
        BY DEF Read, Write, Locking
      <4>3. QED BY <4>1, <4>2
    <3>3. Body(op) = Transfer(op) /\ Transfer(op) = LockAll(op.locks) \o four
      BY <2>3 DEF Body, Transfer, a, b
    <3> HIDE DEF four
    <3>4. QED BY <2>3, <3>2, <3>3, AscendingLocks, TransferShape
  <2>4. QED BY <1>1, <2>1, <2>2, <2>3
<1> DEFINE b == Body(op)
           s == Append(b, Commit)
<1> HIDE DEF b
<1>3. /\ DOMAIN s = 1..(Len(b) + 1) /\ DOMAIN b = 1..Len(b) /\ Len(b) \in Nat
      /\ \A i \in DOMAIN b : s[i] = b[i]
      /\ s[Len(b) + 1] = Commit /\ Len(s) = Len(b) + 1 /\ s # <<>>
  BY <1>2, StatementTypes DEF b
<1> HIDE DEF s
<1>4. \A i \in DOMAIN s : s[i].do \in Locking => i \in DOMAIN b
  BY <1>3 DEF Commit, Locking
<1>5. Ascending(s)
  BY <1>2, <1>3, <1>4 DEF Ascending, b
<1>6. QED BY <1>3, <1>5 DEF Program, s, b

(* Running a statement other than the commit keeps what is left ascending, when the *)
(* only lock it may add to those held is the one the statement asks for.            *)
LEMMA ClimbOn ==
  ASSUME TypeOK, NEW t \in Txs, Open(t), Climbs(t), EndsInCommit(t), Advance(t),
         Now(t).do # "commit",
         \A k \in Keys : lock'[k] = t =>
              lock[k] = t \/ (Now(t).do \in Locking /\ k = Now(t).key)
  PROVE  Climbs(t)' /\ EndsInCommit(t)'
<1> DEFINE s == todo[t]
<1>1. s \in Seq(Statements) /\ s # <<>> /\ todo'[t] = Tail(s)
  BY DEF TypeOK, Open, Advance
<1>2. /\ Now(t) = s[1] /\ 1 \in DOMAIN s
      /\ \A i \in DOMAIN Tail(s) : i + 1 \in DOMAIN s /\ Tail(s)[i] = s[i + 1] /\ i \in Nat \ {0}
      /\ Len(s) \in Nat \ {0} /\ Len(Tail(s)) = Len(s) - 1
      /\ DOMAIN Tail(s) = 1..(Len(s) - 1)
  BY <1>1, TailShape DEF Now
<1>3. Ascending(s) /\ s[Len(s)] = Commit
  BY DEF Climbs, EndsInCommit
<1> HIDE DEF s
<1>4. Len(s) # 1
  BY <1>2, <1>3 DEF Commit
<1>5. Ascending(Tail(s))
  <2>1. ASSUME NEW i \in DOMAIN Tail(s), NEW j \in DOMAIN Tail(s), i <= j,
               Tail(s)[i].do \in Locking, Tail(s)[j].do \in Locking
        PROVE  Tail(s)[i].key <= Tail(s)[j].key
    <3>1. i + 1 <= j + 1
      BY <1>2, <2>1
    <3>2. QED BY <1>2, <1>3, <2>1, <3>1 DEF Ascending
  <2>2. QED BY <2>1 DEF Ascending
<1>6. ASSUME NEW k \in Keys, NEW i \in DOMAIN Tail(s), lock'[k] = t, Tail(s)[i].do \in Locking
      PROVE  k <= Tail(s)[i].key
  <2>1. i + 1 \in DOMAIN s /\ s[i + 1] = Tail(s)[i] /\ 1 <= i + 1
    BY <1>2
  <2>2. CASE lock[k] = t
    BY <1>6, <2>1, <2>2 DEF Climbs, s
  <2>3. CASE Now(t).do \in Locking /\ k = Now(t).key
    BY <1>2, <1>3, <1>6, <2>1, <2>3 DEF Ascending
  <2>4. QED BY <1>6, <2>2, <2>3
<1>7. Climbs(t)'
  BY <1>1, <1>5, <1>6 DEF Climbs
<1>8. Tail(s) # <<>> /\ Tail(s)[Len(Tail(s))] = Commit
  <2>1. Len(s) - 1 \in DOMAIN Tail(s) /\ (Len(s) - 1) + 1 = Len(s)
    BY <1>2, <1>4
  <2>2. Tail(s)[Len(Tail(s))] = s[Len(s)]
    BY <1>2, <2>1
  <2>3. Tail(s) # <<>>
    <3>1. Len(Tail(s)) # 0 /\ Len(<<>>) = 0
      BY <1>2, <1>4
    <3>2. QED BY <3>1
  <2>4. QED BY <1>3, <2>2, <2>3
<1>9. EndsInCommit(t)'
  BY <1>1, <1>8 DEF EndsInCommit, Open
<1>10. QED BY <1>7, <1>9

(* A transaction that is not running and gains no lock climbs as before. *)
LEMMA ClimbStays ==
  ASSUME NEW u \in Txs, Climbs(u), EndsInCommit(u), todo'[u] = todo[u],
         \A k \in Keys : lock'[k] = u => lock[k] = u
  PROVE  Climbs(u)' /\ EndsInCommit(u)'
BY DEF Climbs, EndsInCommit, Open

LEMMA ClimbNext == ASSUME Sorted, Inv, ClimbInv, [Next]_vars PROVE ClimbInv'
<1>1. TypeOK /\ TypeOK' /\ rows = Keys /\ LockDiscipline
  BY TypeOKNext DEF Inv
<1> SUFFICES ASSUME NEW u \in Txs PROVE Climbs(u)' /\ EndsInCommit(u)'
  BY DEF ClimbInv
<1>2. Climbs(u) /\ EndsInCommit(u)
  BY DEF ClimbInv
<1>3. ASSUME NEW t \in Txs, Open(t), Now(t).do # "commit", Advance(t),
             UNCHANGED lock \/ lock' = [lock EXCEPT ![Now(t).key] = t],
             Now(t).do \in Locking \/ lock'= lock \/ lock[Now(t).key] = t
      PROVE  Climbs(u)' /\ EndsInCommit(u)'
  <2>1. Now(t).key \in Keys
    BY <1>1, <1>3, RowStatement
  <2>2. \A k \in Keys : lock'[k] = t => lock[k] = t \/ (Now(t).do \in Locking /\ k = Now(t).key)
    BY <1>1, <1>3, <2>1 DEF TypeOK
  <2>3. CASE u = t
    BY <1>1, <1>2, <1>3, <2>2, <2>3, ClimbOn
  <2>4. CASE u # t
    <3>1. todo'[u] = todo[u]
      BY <1>1, <1>3, <2>4 DEF Advance, TypeOK
    <3>2. \A k \in Keys : lock'[k] = u => lock[k] = u
      BY <1>1, <1>3, <2>1, <2>4 DEF TypeOK
    <3>3. QED BY <1>2, <3>1, <3>2, ClimbStays
  <2>5. QED BY <2>3, <2>4
<1>4. ASSUME NEW t \in Txs, Forget(t) PROVE Climbs(u)' /\ EndsInCommit(u)'
  <2>1. CASE u = t
    <3>1. todo'[t] = <<>> /\ \A k \in Keys : lock'[k] # t
      BY <1>1, <1>4, FreeAssumption DEF Forget, TypeOK
    <3>2. QED BY <2>1, <3>1 DEF Climbs, Ascending, EndsInCommit, Open
  <2>2. CASE u # t
    <3>1. todo'[u] = todo[u] /\ \A k \in Keys : lock'[k] = u => lock[k] = u
      BY <1>1, <1>4, <2>2, FreeAssumption DEF Forget, TypeOK
    <3>2. QED BY <1>2, <3>1, ClimbStays
  <2>3. QED BY <2>1, <2>2
<1>5. ASSUME NEW t \in Txs, NEW op \in Ops, Begin(t, op) PROVE Climbs(u)' /\ EndsInCommit(u)'
  <2>1. CASE u = t
    <3> DEFINE s == Program(op)
    <3>1. Ascending(s) /\ s # <<>> /\ s[Len(s)] = Commit
      BY AscendingProgram
    <3> HIDE DEF s
    <3>2. todo'[t] = s /\ lock' = lock /\ ~Open(t)
      BY <1>1, <1>5 DEF Begin, TypeOK, s
    <3>3. \A k \in Keys : lock'[k] # t
      BY <1>2, <2>1, <3>2 DEF EndsInCommit
    <3>4. QED BY <2>1, <3>1, <3>2, <3>3 DEF Climbs, EndsInCommit, Open
  <2>2. CASE u # t
    <3>1. todo'[u] = todo[u] /\ lock' = lock
      BY <1>1, <1>5, <2>2 DEF Begin, TypeOK
    <3>2. QED BY <1>2, <3>1, ClimbStays
  <2>3. QED BY <2>1, <2>2
<1>6. ASSUME NEW t \in Txs, LockRow(t) PROVE Climbs(u)' /\ EndsInCommit(u)'
  BY <1>3, <1>6 DEF LockRow, At, Acquire, Locking
<1>7. ASSUME NEW t \in Txs, LockAndReadRow(t) PROVE Climbs(u)' /\ EndsInCommit(u)'
  BY <1>3, <1>7 DEF LockAndReadRow, At, Acquire, Locking
<1>8. ASSUME NEW t \in Txs, ReadRow(t) PROVE Climbs(u)' /\ EndsInCommit(u)'
  BY <1>3, <1>8 DEF ReadRow, At
<1>9. ASSUME NEW t \in Txs, WriteRow(t) PROVE Climbs(u)' /\ EndsInCommit(u)'
  <2>1. /\ Open(t) /\ Now(t).do = "write" /\ Advance(t)
        /\ lock' = [lock EXCEPT ![Now(t).key] = t]
    BY <1>9 DEF WriteRow, At
  <2>2. lock[Now(t).key] = t
    BY <1>1, <2>1, NextStatement DEF LockDiscipline, Current
  <2>3. QED BY <1>3, <2>1, <2>2
<1>10. ASSUME NEW t \in Txs, CommitTx(t) PROVE Climbs(u)' /\ EndsInCommit(u)'
  BY <1>4, <1>10 DEF CommitTx
<1>11. ASSUME NEW t \in Txs, AbortTx(t) PROVE Climbs(u)' /\ EndsInCommit(u)'
  BY <1>4, <1>11 DEF AbortTx
<1>12. CASE UNCHANGED vars
  BY <1>2, <1>12, ClimbStays DEF vars
<1>13. QED
  BY <1>5, <1>6, <1>7, <1>8, <1>9, <1>10, <1>11, <1>12 DEF Next

(* A nonempty finite set of rows has a last one. *)
LEMMA LastRow ==
  ASSUME NEW K \in SUBSET Nat, IsFiniteSet(K), K # {}
  PROVE  \E m \in K : \A k \in K : k <= m
<1> DEFINE Above(m) == {k \in K : k >= m}
           T == {Above(m) : m \in K}
<1>1. IsWellFoundedOn(StrictSubsetOrdering(K), FiniteSubsetsOf(K))
  BY FS_StrictSubsetOrderingWellFounded
<1>2. T \subseteq FiniteSubsetsOf(K) /\ T # {}
  <2>1. \A m \in K : Above(m) \in SUBSET K
    OBVIOUS
  <2>2. \A A \in SUBSET K : IsFiniteSet(A)
    BY FS_Subset
  <2> HIDE DEF Above
  <2>3. QED BY <2>1, <2>2 DEF FiniteSubsetsOf
<1>3. PICK x \in T : \A y \in T : <<y, x>> \notin StrictSubsetOrdering(K)
  <2> HIDE DEF T
  <2>1. QED BY <1>1, <1>2, WFMin
<1>4. PICK m \in K : x = Above(m)
  OBVIOUS
<1>5. ASSUME NEW k \in K, ~(k <= m) PROVE FALSE
  <2>1. m \notin Above(k) /\ m \in Above(m) /\ Above(k) \subseteq Above(m)
    <3>1. m \in Nat /\ k \in Nat /\ m < k /\ \A j \in K : j \in Nat
      BY <1>5
    <3>2. \A j \in Nat : j >= k => j >= m
      BY <3>1
    <3>3. ~(m >= k) /\ m >= m
      BY <3>1
    <3>4. QED BY <3>1, <3>2, <3>3
  <2>2. <<Above(k), Above(m)>> \in StrictSubsetOrdering(K)
    <3>1. Above(k) \in SUBSET K /\ Above(m) \in SUBSET K
      OBVIOUS
    <3> HIDE DEF Above
    <3>2. QED BY <2>1, <3>1 DEF StrictSubsetOrdering
  <2>3. QED BY <1>3, <1>4, <2>2
<1>6. QED BY <1>5

(* Who waits, waits for a lock it asks for; what it holds comes no later. *)
LEMMA WaitsUpwards ==
  ASSUME Inv, ClimbInv, NEW t \in Txs, NEW u \in Txs, WaitsFor(t, u)
  PROVE  /\ Now(t).key \in Keys /\ lock[Now(t).key] = u
         /\ \A k \in Keys : lock[k] = t => k < Now(t).key
<1>1. TypeOK /\ LockDiscipline /\ Climbs(t) /\ Open(t)
  BY DEF Inv, ClimbInv, WaitsFor
<1>2. Now(t).do # "commit" /\ lock[Now(t).key] = u /\ u # t
  BY DEF WaitsFor
<1>3. Now(t).key \in Keys
  BY <1>1, <1>2, RowStatement
<1>4. Now(t).do # "write"
  BY <1>1, <1>2, NextStatement DEF LockDiscipline, Current
<1>5. Now(t).do \in Locking
  BY <1>4 DEF WaitsFor, Locking
<1>6. 1 \in DOMAIN todo[t] /\ Now(t) = todo[t][1]
  BY <1>1, TailShape DEF TypeOK, Open, Now
<1>7. ASSUME NEW k \in Keys, lock[k] = t PROVE k < Now(t).key
  <2>1. k <= Now(t).key
    BY <1>1, <1>5, <1>6, <1>7 DEF Climbs
  <2>2. k # Now(t).key
    BY <1>2, <1>7
  <2>3. k \in Nat /\ Now(t).key \in Nat
    BY <1>3, KeysAssumption
  <2>4. QED BY <2>1, <2>2, <2>3
<1>8. QED BY <1>2, <1>3, <1>7

LEMMA NobodyInACircle ==
  ASSUME IsFiniteSet(Keys), Inv, ClimbInv
  PROVE  NoWaitCycle
<1> SUFFICES ASSUME NEW S \in SUBSET Txs, S # {},
                    \A t \in S : \E u \in S : WaitsFor(t, u)
             PROVE  FALSE
  BY DEF NoWaitCycle
<1> DEFINE K == {Now(t).key : t \in S}
<1>1. K \subseteq Keys
  BY WaitsUpwards
<1>2. K \in SUBSET Nat /\ IsFiniteSet(K) /\ K # {}
  <2>1. K # {}
    OBVIOUS
  <2> HIDE DEF K
  <2>2. K \in SUBSET Keys /\ K \in SUBSET Nat
    BY <1>1, KeysAssumption
  <2>3. IsFiniteSet(K)
    BY <2>2, FS_Subset
  <2>4. QED BY <2>1, <2>2, <2>3
<1>3. PICK m \in K : \A k \in K : k <= m
  <2> HIDE DEF K
  <2>1. QED BY <1>2, LastRow
<1>4. PICK t \in S : m = Now(t).key
  OBVIOUS
<1>5. PICK u \in S : WaitsFor(t, u)
  OBVIOUS
<1>6. m \in Keys /\ lock[m] = u
  BY <1>4, <1>5, WaitsUpwards
<1>7. PICK w \in S : WaitsFor(u, w)
  OBVIOUS
<1>8. m < Now(u).key /\ Now(u).key \in K
  BY <1>6, <1>7, WaitsUpwards
<1>9. Now(u).key <= m /\ m \in Nat /\ Now(u).key \in Nat
  BY <1>1, <1>2, <1>3, <1>8
<1>10. QED BY <1>8, <1>9

(* No deadlock among orders, adjustments and transfers (orders.service.js:209,     *)
(* "deterministic order to avoid deadlock"): however many transactions are open,   *)
(* there are never some that all wait for one another.                             *)
THEOREM NoDeadlock ==
  ASSUME Stocked = Keys, IsFiniteSet(Keys), Sorted
  PROVE  Spec => []NoWaitCycle
<1>1. Init => Inv /\ ClimbInv
  <2>1. Init => ClimbInv
    BY FreeAssumption DEF Init, ClimbInv, Climbs, Ascending, EndsInCommit, Open
  <2>2. QED BY <2>1, InvInit
<1>2. Inv /\ ClimbInv /\ [Next]_vars => Inv' /\ ClimbInv'
  BY InvNext, InvStutter, ClimbNext
<1>3. Inv /\ ClimbInv => NoWaitCycle
  BY NobodyInACircle
<1>4. QED BY <1>1, <1>2, <1>3, PTL DEF Spec

=============================================================================
