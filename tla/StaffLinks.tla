----------------------------- MODULE StaffLinks -----------------------------
(***************************************************************************)
(* The one-time links AuthService sends by email: verify an address, reset *)
(* a password.  A link is a row in email_verification_tokens or in         *)
(* password_reset_tokens.  Redeeming one reads the row and marks it used   *)
(* in a later statement; what becomes of the sessions afterwards is in     *)
(* StaffSessions.                                                          *)
(***************************************************************************)
EXTENDS Naturals, FiniteSets

CONSTANTS
    Person, Link,
    Visit,    \* requests in flight
    MaxSpent, \* bound on the passwords one link sets
    NoVisit

ASSUME MaxSpentAssumption == MaxSpent \in Nat

VARIABLES
    person, \* users: whether the account exists, and whether its address is verified
    link,   \* the rows; "spent" counts the passwords set with it, "mailed" that its email was queued
    visit,  \* what each request in flight has read
    tidy    \* people whose requests never overlap and always run to their end

linkVars == <<person, link, visit, tidy>>

People == {"none", "unverified", "verified", "deleted"}
Links == [of : Person, kind : {"reset", "verify"}, state : {"open", "used", "expired"},
          spent : 0..MaxSpent, mailed : BOOLEAN]
Visits == [at : {"send", "deliver", "reset", "mark", "verify", "markverified"}, of : Person, link : Link \cup {NoVisit}]
ASSUME NoVisitAssumption == NoVisit \notin Link \cup Links \cup Visits

Is(l, kind, state) == link[l] # NoVisit /\ link[l].kind = kind /\ link[l].state = state
OpenLinks(p, kind) == {l \in Link : Is(l, kind, "open") /\ link[l].of = p}
SetState(L, state) == link' = [l \in Link |-> IF l \in L THEN [link[l] EXCEPT !.state = state] ELSE link[l]]
NewLink(l, p, kind) ==
    /\ link[l] = NoVisit /\ \A v \in Visit : visit[v] # NoVisit => visit[v].link # l
    /\ link' = [link EXCEPT ![l] = [of |-> p, kind |-> kind, state |-> "open", spent |-> 0, mailed |-> FALSE]]
Exists(p) == person[p] \in {"unverified", "verified"}
Start(v, at, p, l) == visit[v] = NoVisit /\ visit' = [visit EXCEPT ![v] = [at |-> at, of |-> p, link |-> l]]
Doing(v, at) == visit[v] # NoVisit /\ visit[v].at = at
Continue(v, at) == visit' = [visit EXCEPT ![v].at = at]
Finish(v) == visit' = [visit EXCEPT ![v] = NoVisit]
Alone(p) == p \in tidy => \A v \in Visit : visit[v] # NoVisit => visit[v].of # p

LinksInit ==
    /\ person = [p \in Person |-> "none"]
    /\ link = [l \in Link |-> NoVisit]
    /\ visit = [v \in Visit |-> NoVisit]
    /\ tidy \in SUBSET Person

-----------------------------------------------------------------------------
(* register makes the account and then its first verification link. *)
RegisterPerson(v, p) ==
    /\ person[p] = "none" /\ Start(v, "send", p, NoVisit)
    /\ person' = [person EXCEPT ![p] = "unverified"]
    /\ UNCHANGED <<link, tidy>>

(* resendVerification closes the older links and then makes a new one. *)
ResendOneMore(v, p) ==
    /\ person[p] = "unverified" /\ Alone(p) /\ Start(v, "send", p, NoVisit)
    /\ UNCHANGED <<person, link, tidy>>
ResendVerification(v, p) ==
    /\ person[p] = "unverified" /\ Alone(p) /\ Start(v, "send", p, NoVisit)
    /\ SetState(OpenLinks(p, "verify"), "used")
    /\ UNCHANGED <<person, tidy>>
SendEmailVerification(v) ==
    /\ Doing(v, "send") /\ Exists(visit[v].of)
    /\ \E l \in Link : /\ NewLink(l, visit[v].of, "verify")
                       /\ visit' = [visit EXCEPT ![v] = [at |-> "deliver", of |-> visit[v].of, link |-> l]]
    /\ UNCHANGED <<person, tidy>>

(* forgotPassword makes one more link; the older ones keep working. *)
ForgotPassword(v, p) ==
    /\ Exists(p) /\ Alone(p)
    /\ \E l \in Link : NewLink(l, p, "reset") /\ Start(v, "deliver", p, l)
    /\ UNCHANGED <<person, tidy>>

(* deliverAuthEmail: a link whose email cannot be queued stays valid, and nobody has it. *)
DeliverAuthEmail(v) ==
    /\ Doing(v, "deliver")
    /\ \/ link' = [link EXCEPT ![visit[v].link] = IF @ = NoVisit THEN @ ELSE [@ EXCEPT !.mailed = TRUE]]
       \/ UNCHANGED link
    /\ Finish(v)
    /\ UNCHANGED <<person, tidy>>

-----------------------------------------------------------------------------
(* resetPassword: read the link; write the password; mark the link used. *)
RedeemReset(v, l) ==
    /\ Is(l, "reset", "open") /\ link[l].mailed /\ Alone(link[l].of)
    /\ Start(v, "reset", link[l].of, l)
    /\ UNCHANGED <<person, link, tidy>>
Spent(row) == IF row = NoVisit \/ row.spent = MaxSpent THEN row ELSE [row EXCEPT !.spent = row.spent + 1]
UpdatePasswordByLink(v) ==
    /\ Doing(v, "reset") /\ Exists(visit[v].of)
    /\ link' = [link EXCEPT ![visit[v].link] = Spent(@)]
    /\ Continue(v, "mark")
    /\ UNCHANGED <<person, tidy>>
ForgetToMark(v) ==
    /\ Doing(v, "mark")
    /\ Finish(v)
    /\ UNCHANGED <<person, link, tidy>>
MarkPasswordResetTokenUsed(v) ==
    /\ Doing(v, "mark")
    /\ SetState({visit[v].link} \ {l \in Link : ~Is(l, "reset", "open")}, "used")
    /\ Finish(v)
    /\ UNCHANGED <<person, tidy>>

(* verifyEmail: read the link; mark the address verified; mark the link used. *)
VerifyEmail(v, l) ==
    /\ Is(l, "verify", "open") /\ link[l].mailed /\ Alone(link[l].of)
    /\ Start(v, "verify", link[l].of, l)
    /\ UNCHANGED <<person, link, tidy>>
UpdateVerified(v) ==
    /\ Doing(v, "verify") /\ Exists(visit[v].of)
    /\ person' = [person EXCEPT ![visit[v].of] = "verified"]
    /\ Continue(v, "markverified")
    /\ UNCHANGED <<link, tidy>>
MarkEmailVerificationTokenUsed(v) ==
    /\ Doing(v, "markverified")
    /\ SetState({visit[v].link} \ {l \in Link : ~Is(l, "verify", "open")}, "used")
    /\ Finish(v)
    /\ UNCHANGED <<person, tidy>>

-----------------------------------------------------------------------------
(* An hour or a day passes; the nightly cleanup; a deleted account takes its links along. *)
ExpireLink(l) ==
    /\ link[l] # NoVisit /\ link[l].state # "expired"
    /\ SetState({l}, "expired")
    /\ UNCHANGED <<person, visit, tidy>>
CleanupLinks ==
    /\ \E l \in Link : link[l] # NoVisit /\ link[l].state = "expired"
    /\ link' = [l \in Link |-> IF link[l] # NoVisit /\ link[l].state = "expired" THEN NoVisit ELSE link[l]]
    /\ UNCHANGED <<person, visit, tidy>>
DeleteAlone(p) ==
    /\ Exists(p)
    /\ person' = [person EXCEPT ![p] = "deleted"]
    /\ UNCHANGED <<link, visit, tidy>>
DeletePerson(p) ==
    /\ Exists(p)
    /\ person' = [person EXCEPT ![p] = "deleted"]
    /\ link' = [l \in Link |-> IF link[l] # NoVisit /\ link[l].of = p THEN NoVisit ELSE link[l]]
    /\ UNCHANGED <<visit, tidy>>
(* A request fails: its account is gone, or the server stops. *)
Abandon(v) ==
    /\ visit[v] # NoVisit /\ (visit[v].of \notin tidy \/ person[visit[v].of] = "deleted")
    /\ Finish(v)
    /\ UNCHANGED <<person, link, tidy>>

LinksNext ==
    \/ CleanupLinks
    \/ \E p \in Person : DeletePerson(p)
    \/ \E l \in Link : ExpireLink(l)
    \/ \E v \in Visit, p \in Person : RegisterPerson(v, p) \/ ResendVerification(v, p) \/ ForgotPassword(v, p)
    \/ \E v \in Visit, l \in Link : RedeemReset(v, l) \/ VerifyEmail(v, l)
    \/ \E v \in Visit : \/ SendEmailVerification(v) \/ DeliverAuthEmail(v) \/ UpdatePasswordByLink(v)
                        \/ MarkPasswordResetTokenUsed(v) \/ UpdateVerified(v)
                        \/ MarkEmailVerificationTokenUsed(v) \/ Abandon(v)

LinksSpec == LinksInit /\ [][LinksNext]_linkVars

-----------------------------------------------------------------------------
(* People, links and requests have the values of the schema; no link outlives its account. *)
LinksTypeOK ==
    /\ person \in [Person -> People]
    /\ link \in [Link -> Links \cup {NoVisit}]
    /\ visit \in [Visit -> Visits \cup {NoVisit}]
    /\ tidy \in SUBSET Person
    /\ \A l \in Link : link[l] # NoVisit => Exists(link[l].of)

(* A reset link "works once" (auth.service.js:760) for whoever's requests do not overlap. *)
ResetOnce == \A l \in Link : link[l] # NoVisit /\ link[l].of \in tidy => link[l].spent <= 1

(* "Only the newest link works" (auth.service.js:467) for such a user, whatever expires or fails. *)
NewestLinkOnly == \A p \in tidy : Cardinality(OpenLinks(p, "verify")) <= 1

=============================================================================
