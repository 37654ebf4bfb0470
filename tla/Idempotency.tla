----------------------------- MODULE Idempotency -----------------------------
(***************************************************************************)
(* The Idempotency-Key middleware in front of counter sale, new order and  *)
(* checkout.  A request claims its key, runs the handler, which sells, and *)
(* records the outcome before it answers.  A repeat finds the key claimed  *)
(* and then reads what became of it; the two are separate statements.      *)
(***************************************************************************)
EXTENDS Naturals

CONSTANTS
    Requests,   \* requests that carry a key, repeats included
    Keys,
    KeyOf,      \* the key of each request (in one shop and on one route)
    BodyOf,     \* its body
    FailsLate,  \* whether the handler may fail after it has sold
    None        \* no claim, answer or stored response

Rows == [body : {BodyOf[r] : r \in Requests}, by : Requests \cup {None}]
Refusals == {"failed", "in progress", "reused", "retry"}

ASSUME KeyOfAssumption == KeyOf \in [Requests -> Keys]
ASSUME FailsLateAssumption == FailsLate \in BOOLEAN
ASSUME NoneAssumption == None \notin Requests \cup Refusals \cup Rows
ASSUME AnswersAssumption == Requests \cap Refusals = {}

VARIABLES
    row,    \* idempotency_keys: the hash, and the request whose response is stored
    phase,  \* where each request is
    answer, \* what it was told: a request's response, or why not
    sold    \* the requests whose sale is committed

vars == <<row, phase, answer, sold>>

Running == {"running", "sold", "failed"}
Over == {"answered", "unrecorded", "dead"}

Init ==
    /\ row = [k \in Keys |-> None]
    /\ phase = [r \in Requests |-> "new"]
    /\ answer = [r \in Requests |-> None]
    /\ sold = {}

Goes(r, p) == phase' = [phase EXCEPT ![r] = p]
Answers(r, a) == Goes(r, "answered") /\ answer' = [answer EXCEPT ![r] = a]
Store(r, value) == row' = [row EXCEPT ![KeyOf[r]] = value]

(* INSERT ... ON CONFLICT DO NOTHING: the row exists from here on, without a response. *)
ClaimAnyway(r) ==
    /\ phase[r] = "new"
    /\ \/ row[KeyOf[r]] = None /\ Store(r, [body |-> BodyOf[r], by |-> None]) /\ Goes(r, "running")
       \/ row[KeyOf[r]] # None /\ row[KeyOf[r]].by = None /\ Goes(r, "running") /\ UNCHANGED row
       \/ row[KeyOf[r]] # None /\ row[KeyOf[r]].by # None /\ Goes(r, "refused") /\ UNCHANGED row
    /\ UNCHANGED <<answer, sold>>
Claim(r) ==
    /\ phase[r] = "new"
    /\ \/ row[KeyOf[r]] = None /\ Store(r, [body |-> BodyOf[r], by |-> None]) /\ Goes(r, "running")
       \/ row[KeyOf[r]] # None /\ Goes(r, "refused") /\ UNCHANGED row
    /\ UNCHANGED <<answer, sold>>

(* The key was taken: the row, which may be gone by now, says what to answer. *)
LookupUnfinished(r) ==
    LET found == row[KeyOf[r]]
    IN  /\ phase[r] = "refused"
        /\ \/ found = None /\ Answers(r, "retry")
           \/ found # None /\ found.body # BodyOf[r] /\ Answers(r, "reused")
           \/ found # None /\ found.body = BodyOf[r] /\ Answers(r, found.by)
        /\ UNCHANGED <<row, sold>>
LookupAnyBody(r) ==
    LET found == row[KeyOf[r]]
    IN  /\ phase[r] = "refused"
        /\ \/ found = None /\ Answers(r, "retry")
           \/ found # None /\ found.by = None /\ Answers(r, "in progress")
           \/ found # None /\ found.by # None /\ Answers(r, found.by)
        /\ UNCHANGED <<row, sold>>
Lookup(r) ==
    LET found == row[KeyOf[r]]
    IN  /\ phase[r] = "refused"
        /\ \/ found = None /\ Answers(r, "retry")
           \/ found # None /\ found.body # BodyOf[r] /\ Answers(r, "reused")
           \/ found # None /\ found.body = BodyOf[r] /\ found.by = None /\ Answers(r, "in progress")
           \/ found # None /\ found.body = BodyOf[r] /\ found.by # None /\ Answers(r, found.by)
        /\ UNCHANGED <<row, sold>>

(* The handler sells, in one transaction (modules Stock and Orders), or refuses to. *)
Sell(r) ==
    /\ phase[r] = "running"
    /\ sold' = sold \cup {r}
    /\ Goes(r, "sold")
    /\ UNCHANGED <<row, answer>>
Refuse(r) ==
    /\ phase[r] = "running" \/ (phase[r] = "sold" /\ FailsLate)
    /\ Goes(r, "failed")
    /\ UNCHANGED <<row, answer, sold>>

(* res.json: the outcome is recorded, then sent. *)
SaveAfterAnswer(r) ==
    /\ \/ phase[r] = "sold" /\ Answers(r, r) /\ UNCHANGED row
       \/ phase[r] = "answered" /\ answer[r] = r /\ row[KeyOf[r]] # None
          /\ Store(r, [row[KeyOf[r]] EXCEPT !.by = r]) /\ UNCHANGED <<phase, answer>>
    /\ UNCHANGED sold
Save(r) ==
    /\ phase[r] = "sold"
    /\ Store(r, [row[KeyOf[r]] EXCEPT !.by = r])
    /\ Answers(r, r)
    /\ UNCHANGED sold
Free(r) ==
    /\ phase[r] = "failed"
    /\ Store(r, None)
    /\ Answers(r, "failed")
    /\ UNCHANGED sold
(* The outcome could not be recorded: that is logged, and the answer sent all the same. *)
Unrecorded(r) ==
    /\ phase[r] \in {"sold", "failed"}
    /\ Goes(r, "unrecorded")
    /\ answer' = [answer EXCEPT ![r] = IF phase[r] = "sold" THEN r ELSE "failed"]
    /\ UNCHANGED <<row, sold>>

(* The server stops: what was running is gone, what was committed stays. *)
Die(r) ==
    /\ phase[r] \in Running \cup {"refused"}
    /\ Goes(r, "dead")
    /\ UNCHANGED <<row, answer, sold>>

(* The nightly cleanup forgets keys a day old, when all their repeats are long over. *)
Forget(k) ==
    /\ row[k] # None
    /\ \A r \in Requests : KeyOf[r] = k => phase[r] \in Over
    /\ row' = [row EXCEPT ![k] = None]
    /\ UNCHANGED <<phase, answer, sold>>

Next ==
    \/ \E r \in Requests : \/ Claim(r) \/ Lookup(r)
                           \/ Sell(r) \/ Refuse(r)
                           \/ Save(r) \/ Free(r) \/ Unrecorded(r)
                           \/ Die(r)
    \/ \E k \in Keys : Forget(k)

Spec == Init /\ [][Next]_vars

-----------------------------------------------------------------------------
(* The columns' types; who is told something is done with, and whoever is done was told. *)
TypeOK ==
    /\ row \in [Keys -> Rows \cup {None}]
    /\ phase \in [Requests -> Running \cup Over \cup {"new", "refused"}]
    /\ answer \in [Requests -> Requests \cup Refusals \cup {None}]
    /\ \A r \in Requests : answer[r] # None <=> phase[r] \in {"answered", "unrecorded"}
    /\ sold \subseteq Requests

(* "... instead of selling twice": however often a request is repeated, at the same *)
(* time or after a crash, its key sells once.                                       *)
SoldOnce == \A r, s \in sold : KeyOf[r] = KeyOf[s] => r = s

(* "Repeating the request with the same key returns the first response", and a different *)
(* request with that key never does: every response given is that of a committed sale    *)
(* of the same key and body.                                                             *)
RepliesAreOfSales ==
    \A r \in Requests : answer[r] \in Requests =>
        /\ answer[r] \in sold
        /\ KeyOf[answer[r]] = KeyOf[r] /\ BodyOf[answer[r]] = BodyOf[r]

(* "Send only after the result is recorded, so an immediate repeat replays": as long as  *)
(* a repeat may still come, the row of a recorded sale holds its response.               *)
AnsweredIsStored ==
    \A r, s \in Requests :
        phase[r] = "answered" /\ answer[r] = r /\ KeyOf[s] = KeyOf[r] /\ phase[s] \in {"new", "refused"} =>
            row[KeyOf[r]] # None /\ row[KeyOf[r]].by = r

(* "While the first is still running -> 409 IDEMPOTENCY_IN_PROGRESS": a key in progress *)
(* is in progress for somebody.                                                         *)
InProgressIsRunning ==
    \A k \in Keys : row[k] # None /\ row[k].by = None =>
        \E r \in Requests : KeyOf[r] = k /\ phase[r] \in Running

=============================================================================
