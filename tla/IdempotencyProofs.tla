-------------------------- MODULE IdempotencyProofs --------------------------
(***************************************************************************)
(* What the middleware guarantees for any number of requests and keys.     *)
(* While a request runs, its key's row is its own: it exists, holds no     *)
(* response yet, and nobody else of that key runs.                         *)
(***************************************************************************)
EXTENDS Idempotency, TLAPS

ConstAssumptions ==
    /\ KeyOf \in [Requests -> Keys]
    /\ None \notin Requests \cup Refusals \cup Rows
    /\ Requests \cap Refusals = {}

Pending == {"new", "refused"}
Phases == Running \cup Over \cup Pending

RowHeld ==
    \A r \in Requests : phase[r] \in Running =>
        row[KeyOf[r]] \in Rows /\ row[KeyOf[r]].by = None /\ row[KeyOf[r]].body = BodyOf[r]

RunsAlone ==
    \A r, s \in Requests : phase[r] \in Running /\ phase[s] \in Running /\ KeyOf[r] = KeyOf[s] => r = s

SoldPhases == \A r \in Requests : phase[r] = "sold" => r \in sold

StoredWasSold ==
    \A k \in Keys : row[k] \in Rows /\ row[k].by # None =>
        row[k].by \in sold /\ KeyOf[row[k].by] = k /\ BodyOf[row[k].by] = row[k].body

IInv == TypeOK /\ RowHeld /\ RunsAlone /\ SoldPhases /\ StoredWasSold /\ RepliesAreOfSales /\ AnsweredIsStored

(* The next four hold when the handler never fails after it has sold. *)
SellerIsFirst ==
    \A r, s \in Requests : phase[r] \in Running /\ s \in sold /\ KeyOf[r] = KeyOf[s] => r = s

SoldIsRemembered ==
    \A r, s \in Requests : s \in sold /\ KeyOf[r] = KeyOf[s] /\ phase[r] \in Pending => row[KeyOf[s]] # None

SellersAreDone == \A r \in sold : phase[r] \in {"sold"} \cup Over

OInv == IInv /\ SellerIsFirst /\ SoldIsRemembered /\ SellersAreDone /\ SoldOnce

-----------------------------------------------------------------------------
LEMMA Constants == ConstAssumptions
  BY KeyOfAssumption, NoneAssumption, AnswersAssumption DEF ConstAssumptions

LEMMA InitHolds == Init => OInv
<1> USE Constants DEF ConstAssumptions
<1> QED
  BY DEF Init, OInv, IInv, TypeOK, RowHeld, RunsAlone, SoldPhases, StoredWasSold, RepliesAreOfSales,
         AnsweredIsStored, SellerIsFirst, SoldIsRemembered, SellersAreDone, SoldOnce, Running, Over, Pending

(* What a request's own entry becomes, and that the others' stay. *)
LEMMA GoesTo ==
  ASSUME TypeOK, NEW r \in Requests, NEW p \in Phases, Goes(r, p)
  PROVE  /\ phase' \in [Requests -> Phases]
         /\ phase'[r] = p
         /\ \A s \in Requests : s # r => phase'[s] = phase[s]
BY DEF Goes, TypeOK, Phases, Pending

LEMMA IsTold ==
  ASSUME TypeOK, NEW r \in Requests, NEW a, answer' = [answer EXCEPT ![r] = a]
  PROVE  /\ answer'[r] = a
         /\ \A s \in Requests : s # r => answer'[s] = answer[s]
         /\ a \in Requests \cup Refusals \cup {None} =>
              answer' \in [Requests -> Requests \cup Refusals \cup {None}]
BY DEF TypeOK

LEMMA Stored ==
  ASSUME TypeOK, NEW r \in Requests, NEW v \in Rows \cup {None}, Store(r, v)
  PROVE  /\ row' \in [Keys -> Rows \cup {None}]
         /\ row'[KeyOf[r]] = v
         /\ \A k \in Keys : k # KeyOf[r] => row'[k] = row[k]
BY Constants DEF Store, TypeOK, ConstAssumptions

LEMMA FreshRow ==
  ASSUME NEW r \in Requests
  PROVE  LET v == [body |-> BodyOf[r], by |-> None]
         IN  v \in Rows /\ v.body = BodyOf[r] /\ v.by = None
BY DEF Rows

LEMMA FilledRow ==
  ASSUME NEW r \in Requests, NEW v \in Rows
  PROVE  LET w == [v EXCEPT !.by = r]
         IN  w \in Rows /\ w.body = v.body /\ w.by = r
BY DEF Rows

LEMMA RowTypes ==
  ASSUME TypeOK, NEW k \in Keys
  PROVE  /\ row[k] \in Rows \/ row[k] = None
         /\ row[k] \in Rows => row[k] # None /\ row[k].by \in Requests \cup {None}
BY Constants DEF TypeOK, Rows, ConstAssumptions

(* Each action keeps the invariant. *)
LEMMA ClaimKeeps ==
  ASSUME IInv, NEW r \in Requests, Claim(r)
  PROVE  IInv'
<1> USE Constants DEF ConstAssumptions
<1>1. CASE row[KeyOf[r]] # None
  <2>1. phase[r] = "new" /\ Goes(r, "refused") /\ UNCHANGED <<row, answer, sold>>
    BY <1>1 DEF Claim
  <2>2. /\ phase' \in [Requests -> Phases] /\ phase'[r] = "refused"
        /\ \A s \in Requests : s # r => phase'[s] = phase[s]
    BY <2>1, GoesTo DEF IInv, Phases, Pending
  <2> QED
    BY <1>1, <2>1, <2>2
    DEF IInv, TypeOK, RowHeld, RunsAlone, SoldPhases, StoredWasSold, RepliesAreOfSales, AnsweredIsStored,
        Phases, Running, Over, Pending
<1>2. CASE row[KeyOf[r]] = None
  <2>1. phase[r] = "new" /\ Goes(r, "running") /\ UNCHANGED <<answer, sold>>
        /\ Store(r, [body |-> BodyOf[r], by |-> None])
    BY <1>2 DEF Claim
  <2>2. /\ phase' \in [Requests -> Phases] /\ phase'[r] = "running"
        /\ \A s \in Requests : s # r => phase'[s] = phase[s]
    BY <2>1, GoesTo DEF IInv, Phases, Running
  <2>3. PICK v \in Rows : v.body = BodyOf[r] /\ v.by = None /\ Store(r, v)
    BY <2>1, FreshRow
  <2>4. /\ row' \in [Keys -> Rows \cup {None}] /\ row'[KeyOf[r]] = v
        /\ \A k \in Keys : k # KeyOf[r] => row'[k] = row[k]
    BY <2>3, Stored DEF IInv
  <2>5. \A s \in Requests : phase[s] \in Running => KeyOf[s] # KeyOf[r]
    BY <1>2, RowTypes DEF IInv, RowHeld
  <2>6. TypeOK'
    BY <2>1, <2>2, <2>4 DEF IInv, TypeOK, Phases, Pending
  <2>7. RowHeld' /\ RunsAlone' /\ SoldPhases'
    BY <2>1, <2>2, <2>3, <2>4, <2>5 DEF IInv, RowHeld, RunsAlone, SoldPhases, Running
  <2>8. StoredWasSold' /\ RepliesAreOfSales'
    BY <2>1, <2>3, <2>4 DEF IInv, StoredWasSold, RepliesAreOfSales
  <2>9. AnsweredIsStored'
    BY <1>2, <2>1, <2>2, <2>4 DEF IInv, AnsweredIsStored
  <2> QED BY <2>6, <2>7, <2>8, <2>9 DEF IInv
<1> QED BY <1>1, <1>2

LEMMA RefuseKeeps ==
  ASSUME IInv, NEW r \in Requests, Refuse(r)
  PROVE  IInv'
<1>1. /\ phase[r] \in Running /\ phase[r] \notin {"answered", "unrecorded"}
      /\ Goes(r, "failed") /\ UNCHANGED <<row, answer, sold>>
  BY DEF Refuse, Running
<1>2. /\ phase' \in [Requests -> Phases] /\ phase'[r] = "failed"
      /\ \A s \in Requests : s # r => phase'[s] = phase[s]
  BY <1>1, GoesTo DEF IInv, Phases, Running, Over
<1>3. TypeOK' /\ RowHeld' /\ RunsAlone' /\ SoldPhases'
  BY <1>1, <1>2 DEF IInv, TypeOK, RowHeld, RunsAlone, SoldPhases, Phases, Pending, Running
<1>4. StoredWasSold' /\ RepliesAreOfSales' /\ AnsweredIsStored'
  BY <1>1, <1>2 DEF IInv, StoredWasSold, RepliesAreOfSales, AnsweredIsStored
<1> QED BY <1>3, <1>4 DEF IInv

LEMMA DieKeeps ==
  ASSUME IInv, NEW r \in Requests, Die(r)
  PROVE  IInv'
<1>1. /\ phase[r] \in Running \cup {"refused"} /\ phase[r] \notin {"answered", "unrecorded"}
      /\ Goes(r, "dead") /\ UNCHANGED <<row, answer, sold>>
  BY DEF Die, Running
<1>2. /\ phase' \in [Requests -> Phases] /\ phase'[r] = "dead"
      /\ \A s \in Requests : s # r => phase'[s] = phase[s]
  BY <1>1, GoesTo DEF IInv, Phases, Running, Over
<1>3. TypeOK' /\ RowHeld' /\ RunsAlone' /\ SoldPhases'
  BY <1>1, <1>2 DEF IInv, TypeOK, RowHeld, RunsAlone, SoldPhases, Phases, Pending, Running
<1>4. StoredWasSold' /\ RepliesAreOfSales' /\ AnsweredIsStored'
  BY <1>1, <1>2 DEF IInv, StoredWasSold, RepliesAreOfSales, AnsweredIsStored
<1> QED BY <1>3, <1>4 DEF IInv

LEMMA SellKeeps ==
  ASSUME IInv, NEW r \in Requests, Sell(r)
  PROVE  IInv'
<1>1. phase[r] = "running" /\ Goes(r, "sold") /\ sold' = sold \cup {r} /\ UNCHANGED <<row, answer>>
  BY DEF Sell
<1>2. /\ phase' \in [Requests -> Phases] /\ phase'[r] = "sold"
      /\ \A s \in Requests : s # r => phase'[s] = phase[s]
  BY <1>1, GoesTo DEF IInv, Phases, Running
<1>3. TypeOK' /\ RowHeld' /\ RunsAlone' /\ SoldPhases'
  BY <1>1, <1>2 DEF IInv, TypeOK, RowHeld, RunsAlone, SoldPhases, Phases, Pending, Running
<1>4. StoredWasSold' /\ RepliesAreOfSales' /\ AnsweredIsStored'
  BY <1>1, <1>2 DEF IInv, StoredWasSold, RepliesAreOfSales, AnsweredIsStored
<1> QED BY <1>3, <1>4 DEF IInv

LEMMA LookupKeeps ==
  ASSUME IInv, NEW r \in Requests, Lookup(r)
  PROVE  IInv'
<1> USE Constants DEF ConstAssumptions
<1> DEFINE found == row[KeyOf[r]]
<1>1. /\ found \in Rows \/ found = None
      /\ found \in Rows => found # None /\ found.by \in Requests \cup {None}
  BY RowTypes DEF IInv
<1>2. PICK a \in Requests \cup Refusals :
        /\ phase[r] = "refused" /\ Answers(r, a) /\ UNCHANGED <<row, sold>>
        /\ a \in Requests => found \in Rows /\ found.body = BodyOf[r] /\ found.by = a
  BY <1>1 DEF Lookup, Refusals
<1>3. /\ phase' \in [Requests -> Phases] /\ phase'[r] = "answered"
      /\ \A s \in Requests : s # r => phase'[s] = phase[s]
  BY <1>2, GoesTo DEF IInv, Phases, Over, Answers
<1>4. /\ answer'[r] = a /\ answer' \in [Requests -> Requests \cup Refusals \cup {None}]
      /\ \A s \in Requests : s # r => answer'[s] = answer[s]
  BY <1>2, IsTold DEF IInv, Answers
<1>5. a \in Requests => a \in sold /\ KeyOf[a] = KeyOf[r] /\ BodyOf[a] = BodyOf[r]
  BY <1>1, <1>2 DEF IInv, StoredWasSold
<1>6. TypeOK'
  BY <1>2, <1>3, <1>4 DEF IInv, TypeOK, Phases, Pending
<1>7. RowHeld' /\ RunsAlone' /\ SoldPhases' /\ StoredWasSold'
  BY <1>2, <1>3 DEF IInv, RowHeld, RunsAlone, SoldPhases, StoredWasSold, Running
<1>8. RepliesAreOfSales'
  BY <1>2, <1>4, <1>5 DEF IInv, RepliesAreOfSales
<1>9. AnsweredIsStored'
  BY <1>1, <1>2, <1>3, <1>4 DEF IInv, AnsweredIsStored
<1> QED BY <1>6, <1>7, <1>8, <1>9 DEF IInv

LEMMA SaveKeeps ==
  ASSUME IInv, NEW r \in Requests, Save(r)
  PROVE  IInv'
<1> USE Constants DEF ConstAssumptions
<1> DEFINE w == [row[KeyOf[r]] EXCEPT !.by = r]
<1>1. phase[r] = "sold" /\ Answers(r, r) /\ Store(r, w) /\ UNCHANGED sold
  BY DEF Save
<1>2. /\ w \in Rows /\ w.body = BodyOf[r] /\ w.by = r
  BY <1>1, FilledRow DEF IInv, RowHeld, Running
<1> HIDE DEF w
<1>3. /\ row' \in [Keys -> Rows \cup {None}] /\ row'[KeyOf[r]] = w
      /\ \A k \in Keys : k # KeyOf[r] => row'[k] = row[k]
  BY <1>1, <1>2, Stored DEF IInv
<1>4. /\ phase' \in [Requests -> Phases] /\ phase'[r] = "answered"
      /\ \A s \in Requests : s # r => phase'[s] = phase[s]
  BY <1>1, GoesTo DEF IInv, Phases, Over, Answers
<1>5. /\ answer'[r] = r /\ answer' \in [Requests -> Requests \cup Refusals \cup {None}]
      /\ \A s \in Requests : s # r => answer'[s] = answer[s]
  BY <1>1, IsTold DEF IInv, Answers
<1>6. r \in sold /\ \A s \in Requests : s # r /\ phase[s] \in Running => KeyOf[s] # KeyOf[r]
  BY <1>1 DEF IInv, RunsAlone, SoldPhases, Running
<1>7. row[KeyOf[r]].by = None
  BY <1>1 DEF IInv, RowHeld, Running
<1>8. TypeOK'
  BY <1>1, <1>3, <1>4, <1>5 DEF IInv, TypeOK, Phases, Pending
<1>9. RowHeld' /\ RunsAlone' /\ SoldPhases'
  BY <1>1, <1>3, <1>4, <1>6 DEF IInv, RowHeld, RunsAlone, SoldPhases, Running
<1>10. StoredWasSold' /\ RepliesAreOfSales'
  BY <1>1, <1>2, <1>3, <1>5, <1>6 DEF IInv, StoredWasSold, RepliesAreOfSales
<1>11. AnsweredIsStored'
  BY <1>2, <1>3, <1>4, <1>5, <1>7 DEF IInv, AnsweredIsStored
<1> QED BY <1>8, <1>9, <1>10, <1>11 DEF IInv

LEMMA FreeKeeps ==
  ASSUME IInv, NEW r \in Requests, Free(r)
  PROVE  IInv'
<1> USE Constants DEF ConstAssumptions
<1>1. phase[r] = "failed" /\ Answers(r, "failed") /\ Store(r, None) /\ UNCHANGED sold
  BY DEF Free
<1>2. /\ row' \in [Keys -> Rows \cup {None}] /\ row'[KeyOf[r]] = None
      /\ \A k \in Keys : k # KeyOf[r] => row'[k] = row[k]
  BY <1>1, Stored DEF IInv
<1>3. /\ phase' \in [Requests -> Phases] /\ phase'[r] = "answered"
      /\ \A s \in Requests : s # r => phase'[s] = phase[s]
  BY <1>1, GoesTo DEF IInv, Phases, Over, Answers
<1>4. /\ answer'[r] = "failed" /\ answer' \in [Requests -> Requests \cup Refusals \cup {None}]
      /\ \A s \in Requests : s # r => answer'[s] = answer[s]
  BY <1>1, IsTold DEF IInv, Answers, Refusals
<1>5. /\ "failed" \notin Requests /\ row[KeyOf[r]].by = None
      /\ \A s \in Requests : s # r /\ phase[s] \in Running => KeyOf[s] # KeyOf[r]
  BY <1>1 DEF IInv, RowHeld, RunsAlone, Running, Refusals
<1>6. TypeOK'
  BY <1>1, <1>2, <1>3, <1>4 DEF IInv, TypeOK, Phases, Pending, Refusals
<1>7. RowHeld' /\ RunsAlone' /\ SoldPhases'
  BY <1>1, <1>2, <1>3, <1>5 DEF IInv, RowHeld, RunsAlone, SoldPhases, Running
<1>8. StoredWasSold' /\ RepliesAreOfSales'
  BY <1>1, <1>2, <1>4, <1>5 DEF IInv, StoredWasSold, RepliesAreOfSales
<1>9. AnsweredIsStored'
  BY <1>2, <1>3, <1>4, <1>5 DEF IInv, AnsweredIsStored
<1> QED BY <1>6, <1>7, <1>8, <1>9 DEF IInv

LEMMA UnrecordedKeeps ==
  ASSUME IInv, NEW r \in Requests, Unrecorded(r)
  PROVE  IInv'
<1> USE Constants DEF ConstAssumptions
<1>1. PICK a \in Requests \cup Refusals :
        /\ phase[r] \in {"sold", "failed"} /\ Goes(r, "unrecorded")
        /\ answer' = [answer EXCEPT ![r] = a] /\ UNCHANGED <<row, sold>>
        /\ a \in Requests => a = r /\ phase[r] = "sold"
  BY DEF Unrecorded, Refusals
<1>2. /\ phase' \in [Requests -> Phases] /\ phase'[r] = "unrecorded"
      /\ \A s \in Requests : s # r => phase'[s] = phase[s]
  BY <1>1, GoesTo DEF IInv, Phases, Over
<1>3. /\ answer'[r] = a /\ answer' \in [Requests -> Requests \cup Refusals \cup {None}]
      /\ \A s \in Requests : s # r => answer'[s] = answer[s]
  BY <1>1, IsTold DEF IInv
<1>4. TypeOK'
  BY <1>1, <1>2, <1>3 DEF IInv, TypeOK, Phases, Pending
<1>5. RowHeld' /\ RunsAlone' /\ SoldPhases' /\ StoredWasSold'
  BY <1>1, <1>2 DEF IInv, RowHeld, RunsAlone, SoldPhases, StoredWasSold, Running
<1>6. RepliesAreOfSales' /\ AnsweredIsStored'
  BY <1>1, <1>2, <1>3 DEF IInv, SoldPhases, RepliesAreOfSales, AnsweredIsStored
<1> QED BY <1>4, <1>5, <1>6 DEF IInv

LEMMA ForgetKeeps ==
  ASSUME IInv, NEW k \in Keys, Forget(k)
  PROVE  IInv'
<1> USE Constants DEF ConstAssumptions
<1>1. /\ row' = [row EXCEPT ![k] = None] /\ UNCHANGED <<phase, answer, sold>>
      /\ \A r \in Requests : KeyOf[r] = k => phase[r] \in Over
  BY DEF Forget
<1>2. /\ row' \in [Keys -> Rows \cup {None}] /\ row'[k] = None
      /\ \A j \in Keys : j # k => row'[j] = row[j]
  BY <1>1 DEF IInv, TypeOK
<1>3. TypeOK'
  BY <1>1, <1>2 DEF IInv, TypeOK
<1>4. RowHeld' /\ RunsAlone' /\ SoldPhases'
  BY <1>1, <1>2 DEF IInv, RowHeld, RunsAlone, SoldPhases, Running, Over
<1>5. StoredWasSold' /\ RepliesAreOfSales'
  BY <1>1, <1>2 DEF IInv, StoredWasSold, RepliesAreOfSales
<1>6. AnsweredIsStored'
  BY <1>1, <1>2 DEF IInv, AnsweredIsStored, Over
<1> QED BY <1>3, <1>4, <1>5, <1>6 DEF IInv

LEMMA StepKeeps == IInv /\ [Next]_vars => IInv'
<1> SUFFICES ASSUME IInv, [Next]_vars PROVE IInv'
  OBVIOUS
<1>1. ASSUME NEW r \in Requests,
             Claim(r) \/ Lookup(r) \/ Sell(r) \/ Refuse(r) \/ Save(r) \/ Free(r) \/ Unrecorded(r) \/ Die(r)
      PROVE  IInv'
  BY <1>1, ClaimKeeps, LookupKeeps, SellKeeps, RefuseKeeps, SaveKeeps, FreeKeeps, UnrecordedKeeps, DieKeeps
<1>2. ASSUME NEW k \in Keys, Forget(k) PROVE IInv'
  BY <1>2, ForgetKeeps
<1>3. CASE UNCHANGED vars
  BY <1>3
  DEF vars, IInv, TypeOK, RowHeld, RunsAlone, SoldPhases, StoredWasSold, RepliesAreOfSales, AnsweredIsStored
<1> QED BY <1>1, <1>2, <1>3 DEF Next

-----------------------------------------------------------------------------
(* Keys, rows, answers and phases have their types, however requests interleave. *)
THEOREM TypeCorrect == Spec => []TypeOK
<1>1. Init => IInv BY InitHolds DEF OInv
<1>2. IInv => TypeOK BY DEF IInv
<1> QED BY <1>1, <1>2, StepKeeps, PTL DEF Spec

(* A stored response is only given to a repeat of the request it answers, for any number *)
(* of repeats (idempotency.js findUnique and its comparisons).                           *)
THEOREM RepliesOfSales == Spec => []RepliesAreOfSales
<1>1. Init => IInv BY InitHolds DEF OInv
<1>2. IInv => RepliesAreOfSales BY DEF IInv
<1> QED BY <1>1, <1>2, StepKeeps, PTL DEF Spec

(* Whoever was told of a sale, and whose outcome could be recorded, has its response *)
(* stored for as long as repeats may come (idempotency.js res.json).                 *)
THEOREM AnswersStored == Spec => []AnsweredIsStored
<1>1. Init => IInv BY InitHolds DEF OInv
<1>2. IInv => AnsweredIsStored BY DEF IInv
<1> QED BY <1>1, <1>2, StepKeeps, PTL DEF Spec

-----------------------------------------------------------------------------
(* A handler that never fails once it has sold. *)
Prompt == FailsLate = FALSE

Sales == SellerIsFirst /\ SoldIsRemembered /\ SellersAreDone /\ SoldOnce

(* A request may only begin to run while nobody of its key has sold. *)
LEMMA ClaimSells ==
  ASSUME OInv, NEW r \in Requests, Claim(r)
  PROVE  Sales'
<1> USE Constants DEF ConstAssumptions
<1>1. phase[r] = "new" /\ sold' = sold
  BY DEF Claim
<1>2. CASE row[KeyOf[r]] # None
  <2>1. row' = row /\ Goes(r, "refused")
    BY <1>2 DEF Claim
  <2>2. /\ phase'[r] = "refused" /\ \A s \in Requests : s # r => phase'[s] = phase[s]
    BY <2>1, GoesTo DEF OInv, IInv, Phases, Pending
  <2> QED
    BY <1>1, <1>2, <2>1, <2>2
    DEF OInv, IInv, TypeOK, Sales, SellerIsFirst, SoldIsRemembered, SellersAreDone, SoldOnce, Running, Over, Pending
<1>3. CASE row[KeyOf[r]] = None
  <2>1. Goes(r, "running") /\ Store(r, [body |-> BodyOf[r], by |-> None])
    BY <1>3 DEF Claim
  <2>2. /\ phase'[r] = "running" /\ \A s \in Requests : s # r => phase'[s] = phase[s]
    BY <2>1, GoesTo DEF OInv, IInv, Phases, Running
  <2>3. /\ row'[KeyOf[r]] # None /\ \A k \in Keys : k # KeyOf[r] => row'[k] = row[k]
    BY <2>1, FreshRow, Stored DEF OInv, IInv
  <2>4. \A s \in sold : KeyOf[s] # KeyOf[r]
    BY <1>1, <1>3 DEF OInv, IInv, TypeOK, SoldIsRemembered, Pending
  <2> QED
    BY <1>1, <2>2, <2>3, <2>4
    DEF OInv, IInv, TypeOK, Sales, SellerIsFirst, SoldIsRemembered, SellersAreDone, SoldOnce, Running, Over, Pending
<1> QED BY <1>2, <1>3

(* A key is only freed by a request that has not sold, and it was its key alone. *)
LEMMA FreeSells ==
  ASSUME OInv, NEW r \in Requests, Free(r)
  PROVE  Sales'
<1> USE Constants DEF ConstAssumptions
<1>1. phase[r] = "failed" /\ Answers(r, "failed") /\ Store(r, None) /\ sold' = sold
  BY DEF Free
<1>2. \A k \in Keys : k # KeyOf[r] => row'[k] = row[k]
  BY <1>1, Stored DEF OInv, IInv
<1>3. /\ phase'[r] = "answered" /\ \A s \in Requests : s # r => phase'[s] = phase[s]
  BY <1>1, GoesTo DEF OInv, IInv, Phases, Over, Answers
<1>4. \A s \in sold : KeyOf[s] # KeyOf[r]
  BY <1>1 DEF OInv, IInv, TypeOK, SellerIsFirst, SellersAreDone, Running, Over
<1> QED
  BY <1>1, <1>2, <1>3, <1>4
  DEF OInv, IInv, TypeOK, Sales, SellerIsFirst, SoldIsRemembered, SellersAreDone, SoldOnce, Running, Over, Pending

LEMMA SellSells ==
  ASSUME OInv, NEW r \in Requests, Sell(r)
  PROVE  Sales'
<1>1. phase[r] = "running" /\ Goes(r, "sold") /\ sold' = sold \cup {r} /\ row' = row
  BY DEF Sell
<1>2. /\ phase'[r] = "sold" /\ \A s \in Requests : s # r => phase'[s] = phase[s]
  BY <1>1, GoesTo DEF OInv, IInv, Phases, Running
<1>3. /\ row[KeyOf[r]] # None
      /\ \A s \in sold : KeyOf[s] = KeyOf[r] => s = r
      /\ \A s \in Requests : phase[s] \in Running /\ KeyOf[s] = KeyOf[r] => s = r
  BY <1>1, Constants
  DEF OInv, IInv, TypeOK, RowHeld, RunsAlone, SellerIsFirst, Running, ConstAssumptions
<1> QED
  BY <1>1, <1>2, <1>3
  DEF OInv, IInv, TypeOK, Sales, SellerIsFirst, SoldIsRemembered, SellersAreDone, SoldOnce, Running, Over, Pending

(* What the other actions do to a request, its key's row and the sales. *)
LEMMA QuietSells ==
  ASSUME OInv, NEW r \in Requests, sold' = sold, NEW p \in Over \cup {"failed"}, Goes(r, p),
         p = "failed" => phase[r] = "running",
         phase[r] \in Running \cup {"refused"},
         \A k \in Keys : row[k] # None => row'[k] # None
  PROVE  Sales'
<1>1. /\ phase'[r] = p /\ \A s \in Requests : s # r => phase'[s] = phase[s]
  BY GoesTo DEF OInv, IInv, Phases, Running
<1> QED
  BY <1>1, Constants
  DEF OInv, IInv, TypeOK, Sales, SellerIsFirst, SoldIsRemembered, SellersAreDone, SoldOnce, Running, Over, Pending,
      ConstAssumptions

LEMMA StepSells ==
  ASSUME Prompt, OInv, [Next]_vars
  PROVE  Sales'
<1> USE Constants DEF ConstAssumptions
<1>1. ASSUME NEW r \in Requests, Lookup(r) PROVE Sales'
  BY <1>1, QuietSells DEF Lookup, Answers, Over
<1>2. ASSUME NEW r \in Requests, Refuse(r) PROVE Sales'
  BY <1>2, QuietSells DEF Refuse, Prompt, Running
<1>3. ASSUME NEW r \in Requests, Save(r) PROVE Sales'
  <2>1. phase[r] = "sold" /\ Store(r, [row[KeyOf[r]] EXCEPT !.by = r]) /\ Goes(r, "answered") /\ sold' = sold
    BY <1>3 DEF Save, Answers
  <2>2. [row[KeyOf[r]] EXCEPT !.by = r] \in Rows
    BY <2>1, FilledRow DEF OInv, IInv, RowHeld, Running
  <2>3. \A k \in Keys : row[k] # None => row'[k] # None
    BY <2>1, <2>2, Stored DEF OInv, IInv
  <2> QED BY <2>1, <2>3, QuietSells DEF Over, Running
<1>4. ASSUME NEW r \in Requests, Unrecorded(r) PROVE Sales'
  BY <1>4, QuietSells DEF Unrecorded, Over, Running
<1>5. ASSUME NEW r \in Requests, Die(r) PROVE Sales'
  BY <1>5, QuietSells DEF Die, Over
<1>6. ASSUME NEW k \in Keys, Forget(k) PROVE Sales'
  BY <1>6
  DEF Forget, OInv, IInv, TypeOK, Sales, SellerIsFirst, SoldIsRemembered, SellersAreDone, SoldOnce,
      Running, Over, Pending
<1>7. CASE UNCHANGED vars
  BY <1>7 DEF vars, OInv, Sales, SellerIsFirst, SoldIsRemembered, SellersAreDone, SoldOnce
<1> QED
  BY <1>1, <1>2, <1>3, <1>4, <1>5, <1>6, <1>7, ClaimSells, FreeSells, SellSells DEF Next

(* Where the handler never fails once it has sold, a key sells once however often its *)
(* request is repeated and wherever the server stops (idempotency.js, as a whole).    *)
THEOREM SellsOnce == ASSUME Prompt PROVE Spec => []SoldOnce
<1>1. OInv /\ [Next]_vars => OInv'
  BY StepKeeps, StepSells DEF OInv, Sales
<1>2. OInv => SoldOnce
  BY DEF OInv
<1> QED BY <1>1, <1>2, InitHolds, PTL DEF Spec

=============================================================================
