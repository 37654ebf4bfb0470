--------------------------- MODULE AccountsProofs ---------------------------
(***************************************************************************)
(* Proofs about who is let in and what is told (MCAccounts): staff         *)
(* sessions, the links sent to staff, shoppers, calls to providers, and    *)
(* tokens with their keys and sockets.  Every part has an inductive        *)
(* invariant of its own, and a section here; the parts meet at the end.    *)
(***************************************************************************)
EXTENDS MCAccounts, FiniteSetTheorems, TLAPS

-----------------------------------------------------------------------------
(* Staff sessions (StaffSessions). *)

(* Whoever is orderly has one request at most. *)
OneCall ==
    \A c, d \in Call : call[c] # None /\ call[d] # None /\ call[c].user = call[d].user /\ call[c].user \in orderly => c = d
(* A session is of one user, and so is what is to be put into it. *)
OneUser ==
    /\ \A j, k \in Token : Has(j) /\ Has(k) /\ token[j].session = token[k].session /\ token[j].session # None
          => token[j].user = token[k].user
    /\ \A c \in Call, k \in Token : At(c, "refresh") /\ Has(k) =>
          /\ k = call[c].token => token[k].user = call[c].user /\ token[k].session = call[c].session
          /\ token[k].session = call[c].session /\ token[k].session # None => token[k].user = call[c].user
(* The only token of its session that works is the one a refresh has read. *)
OwnToken ==
    \A c \in Call : At(c, "refresh") /\ call[c].user \in orderly /\ call[c].session # None =>
        \A k \in InSession(call[c].session) : Live(k) => k = call[c].token
(* The tokens of a deleted user are deleted. *)
GoneHasNone == \A u \in User : account[u].status = "deleted" => \A k \in Token : Has(k) => token[k].user # u
(* What an orderly user is signed in with is the newest password, until one is written. *)
SigningOut(u) == \E c \in Call : call[c] # None /\ call[c].user = u /\ call[c].at \in {"signout", "revokeall"}
Known ==
    /\ \A u \in orderly : ~SigningOut(u) => \A k \in LiveOf(u) : token[k].knew = account[u].password
    /\ \A c \in Call : call[c] # None /\ call[c].user \in orderly /\ call[c].at \in {"login", "refresh"}
          => call[c].knew = account[call[c].user].password
StaffInv == StaffTypeOK /\ OneCall /\ OneUser /\ OneLiveToken /\ OwnToken /\ GoneHasNone /\ Known

(* No session that has ended comes back. *)
SessionsEnd == \A s \in Session : InSession(s) # {} /\ Cold(s) => Cold(s)'
StaffStep == StaffInv' /\ SessionsEnd

(* A row of a token that is gone, or is what it was and works no more. *)
Fades(rec, old) ==
    \/ rec = old \/ rec = None
    \/ /\ old # None /\ rec \in Rows /\ rec.state # "live"
       /\ rec.user = old.user /\ rec.session = old.session

(* The invariant holds when the first staff account is about to be made, with or without old tokens in the table. *)
LEMMA StaffInitInv == StaffInit => StaffInv
<1> SUFFICES ASSUME StaffInit PROVE StaffInv
  OBVIOUS
<1> USE LegacyAssumption, MaxPasswordAssumption, NoneAssumption
<1>1. PICK holder \in [Legacy -> {u \in User : account[u].status = "ACTIVE" /\ account[u].scope = "tenant"} \cup {None}] :
          token = [k \in Token |-> IF k \in Legacy /\ holder[k] # None THEN Row(holder[k], None, 0) ELSE None]
  BY DEF StaffInit
<1>2. /\ account \in [User -> [status : {"none", "ACTIVE"}, scope : Scope, password : {0}]]
      /\ call = [c \in Call |-> None] /\ orderly \in SUBSET User
  BY DEF StaffInit
<1>3. \A k \in Token : Has(k) => /\ token[k] \in Rows /\ token[k].session = None /\ token[k].knew = 0
                               /\ account[token[k].user].status = "ACTIVE"
  BY <1>1 DEF Has, Row, Rows
<1>4. StaffTypeOK
  BY <1>1, <1>2, <1>3 DEF StaffTypeOK, Accounts, Has, At
<1>5. GoneHasNone
  BY <1>3 DEF GoneHasNone
<1>6. OneLiveToken
  BY <1>3 DEF OneLiveToken, InSession
<1>7. Known
  BY <1>2, <1>3 DEF Known, LiveOf, Live
<1> QED BY <1>2, <1>3, <1>4, <1>5, <1>6, <1>7 DEF StaffInv, OneCall, OneUser, OwnToken, At

(* A step that only ends tokens, deletes them, or changes the status of accounts keeps it, and brings no session back. *)
LEMMA TokensFade ==
    ASSUME StaffInv, token' \in [Token -> Rows \cup {None}], \A k \in Token : Fades(token'[k], token[k]),
           UNCHANGED <<call, orderly>>, account' \in [User -> Accounts],
           \A u \in User : /\ account'[u].password = account[u].password
                           /\ account'[u].status = "deleted" => \A k \in Token : token'[k] # None => token'[k].user # u
    PROVE  StaffStep
<1> USE NoneAssumption DEF StaffInv
<1>1. StaffTypeOK'
  BY DEF StaffTypeOK, At
<1>2. OneCall' /\ GoneHasNone'
  BY DEF OneCall, GoneHasNone, Has
<1>3. \A k \in Token : Has(k)' => Has(k) /\ token'[k].user = token[k].user /\ token'[k].session = token[k].session
  BY DEF Has, Fades
<1>4. \A k \in Token : Live(k)' => Live(k) /\ token'[k] = token[k]
  BY DEF Has, Fades, Live
<1>5. OneUser'
  BY <1>3 DEF OneUser, At
<1>6. OneLiveToken' /\ OwnToken'
  BY <1>3, <1>4 DEF OneLiveToken, OwnToken, InSession, At
<1>7. Known'
  <2>1. \A u \in User : LiveOf(u)' \subseteq LiveOf(u) /\ \A k \in LiveOf(u)' : token'[k] = token[k]
    BY <1>4 DEF LiveOf
  <2>2. \A u : SigningOut(u)' = SigningOut(u)
    BY DEF SigningOut
  <2>3. orderly \subseteq User /\ \A c \in Call : call[c] # None => call[c].user \in User
    BY DEF StaffTypeOK, Calls
  <2> QED BY <2>1, <2>2, <2>3 DEF Known
<1>9c. SessionsEnd
  <2> SUFFICES ASSUME NEW r \in Session, Cold(r) PROVE ~Refreshing(r)' /\ \A j \in Token : Has(j)' /\ token'[j].session = r => ~Live(j)'
    BY DEF SessionsEnd, Cold, InSession
  <2>1. ~Refreshing(r)'
    BY DEF Cold, Refreshing, At
  <2>2. ASSUME NEW j \in Token, Has(j)', token'[j].session = r PROVE ~Live(j)'
    BY <1>3, <1>4, <2>2 DEF Cold, InSession
  <2> QED BY <2>1, <2>2
<1> QED BY <1>1, <1>2, <1>5, <1>6, <1>7, <1>9c DEF StaffStep

(* updateMany with a status leaves rows that work no more, *)
LEMMA RowsRevoked ==
    ASSUME StaffTypeOK, NEW K \in SUBSET Token, \A k \in K : Has(k), RevokeUserTokens(K)
    PROVE  token' \in [Token -> Rows \cup {None}] /\ \A k \in Token : Fades(token'[k], token[k])
<1>1. ASSUME NEW k \in Token, k \in K PROVE token'[k] \in Rows /\ token'[k].state = "revoked" /\ Fades(token'[k], token[k])
  <2>1. token[k] # None /\ token[k] \in Rows /\ token'[k] = [token[k] EXCEPT !.state = "revoked"]
    BY <1>1 DEF Has, RevokeUserTokens, StaffTypeOK
  <2> QED BY <2>1 DEF Rows, Fades
<1>2. ASSUME NEW k \in Token, k \notin K PROVE token'[k] = token[k]
  BY <1>2 DEF RevokeUserTokens
<1>3. \A k \in Token : token'[k] \in Rows \cup {None}
  BY <1>1, <1>2 DEF StaffTypeOK
<1> QED BY <1>1, <1>2, <1>3 DEF RevokeUserTokens, Fades

(* and deleteMany leaves none. *)
LEMMA RowsDeleted ==
    ASSUME StaffTypeOK, NEW K, DeleteTokens(K)
    PROVE  /\ token' \in [Token -> Rows \cup {None}] /\ \A k \in Token : Fades(token'[k], token[k])
           /\ \A k \in K \cap Token : token'[k] = None
  BY DEF StaffTypeOK, DeleteTokens, Fades

(* The same with accounts as they are. *)
LEMMA StayGone ==
    ASSUME StaffInv, token' \in [Token -> Rows \cup {None}], \A k \in Token : Fades(token'[k], token[k]), UNCHANGED <<account, call, orderly>>
    PROVE  StaffStep
<1>1. \A u \in User : /\ account'[u].password = account[u].password
                      /\ account'[u].status = "deleted" => \A k \in Token : token'[k] # None => token'[k].user # u
  BY DEF StaffInv, GoneHasNone, Has, Fades
<1> QED BY <1>1, TokensFade DEF StaffInv, StaffTypeOK

(* Registration, suspension and deletion: whoever is deleted takes the tokens along. *)
LEMMA AccountsChange ==
    ASSUME StaffInv, NEW u \in User, Register(u) \/ AddAdmin(u) \/ UpdateStatus(u) \/ DeleteUser(u) \/ RemoveAdmin(u)
    PROVE  StaffStep
<1> USE DEF StaffInv
<1>1. PICK status \in {"ACTIVE", "INACTIVE", "deleted"} : account' = [account EXCEPT ![u].status = status]
  BY DEF Register, AddAdmin, UpdateStatus, DeleteUser, RemoveAdmin
<1>2. account[u] \in Accounts /\ account \in [User -> Accounts]
  BY DEF StaffTypeOK
<1>3. /\ account' \in [User -> Accounts] /\ account'[u].status = status
      /\ \A v \in User : account'[v].password = account[v].password
      /\ \A v \in User \ {u} : account'[v] = account[v]
  BY <1>1, <1>2 DEF Accounts
<1>4. UNCHANGED <<call, orderly>>
  BY DEF Register, AddAdmin, UpdateStatus, DeleteUser, RemoveAdmin
<1>5. /\ token' \in [Token -> Rows \cup {None}] /\ \A k \in Token : Fades(token'[k], token[k])
      /\ status = "deleted" => \A k \in Token : token'[k] # None => token'[k].user # u
  <2>1. CASE DeleteUser(u)
    <3>1. DeleteTokens({k \in Token : Has(k) /\ token[k].user = u})
      BY <2>1 DEF DeleteUser
    <3> QED BY <3>1, RowsDeleted DEF Fades, Has, DeleteTokens
  <2>2. CASE RemoveAdmin(u)
    <3>1. RevokeUserTokens(LiveOf(u)) /\ status # "deleted"
      <4>1. RevokeUserTokens(LiveOf(u)) /\ account' = [account EXCEPT ![u].status = "INACTIVE"]
        BY <2>2 DEF RemoveAdmin
      <4>2. account'[u].status = "INACTIVE"
        BY <4>1, <1>2 DEF Accounts
      <4> QED BY <4>1, <4>2, <1>3
    <3>2. LiveOf(u) \in SUBSET Token /\ \A k \in LiveOf(u) : Has(k)
      BY DEF LiveOf, Live
    <3> QED BY <3>1, <3>2, RowsRevoked
  <2>3. CASE Register(u) \/ AddAdmin(u) \/ UpdateStatus(u)
    <3>1. token' = token
      BY <2>3 DEF Register, AddAdmin, UpdateStatus
    <3>2. status # "deleted"
      <4>1. account'[u].status \in {"ACTIVE", "INACTIVE"}
        BY <2>3, <1>2 DEF Register, AddAdmin, UpdateStatus, Accounts
      <4> QED BY <4>1, <1>3
    <3> QED BY <3>1, <3>2 DEF Fades, StaffTypeOK
  <2> QED BY <2>1, <2>2, <2>3
<1>6. \A v \in User : /\ account'[v].password = account[v].password
                      /\ account'[v].status = "deleted" => \A k \in Token : token'[k] # None => token'[k].user # v
  BY <1>3, <1>5 DEF GoneHasNone, Has, Fades
<1> QED BY <1>3, <1>4, <1>5, <1>6, TokensFade

(* Sign-outs, revocations, expiry, the replay of a used token and the nightly cleanup only end tokens. *)
LEMMA TokensEnd ==
    ASSUME StaffInv,
           \/ Cleanup
           \/ \E u \in User, own \in Session : LogoutAll(u, own) \/ \E s \in Session : RevokeSession(u, own, s)
           \/ \E k \in Token : Replay(k) \/ Logout(k) \/ Expire(k)
    PROVE  StaffStep
<1>0. StaffTypeOK
  BY DEF StaffInv
<1>1. CASE Cleanup
  <2>1. DeleteTokens({k \in Token : Has(k) /\ token[k].state = "expired"}) /\ UNCHANGED <<account, call, orderly>>
    BY <1>1 DEF Cleanup
  <2> QED BY <1>0, <2>1, RowsDeleted, StayGone
<1>2. ASSUME NEW K \in SUBSET Token, \A k \in K : Has(k), RevokeUserTokens(K), UNCHANGED <<account, call, orderly>>
      PROVE  StaffStep
  BY <1>0, <1>2, RowsRevoked, StayGone
<1>3. \A u : LiveOf(u) \in SUBSET Token /\ \A k \in LiveOf(u) : Has(k)
  BY DEF LiveOf, Live
<1>4. ASSUME NEW u \in User, NEW own \in Session, LogoutAll(u, own) PROVE StaffStep
  BY <1>2, <1>3, <1>4 DEF LogoutAll, RevokeAllUserRefreshTokens
<1>5. ASSUME NEW u \in User, NEW own \in Session, NEW s \in Session, RevokeSession(u, own, s) PROVE StaffStep
  BY <1>2, <1>3, <1>5 DEF RevokeSession, RevokeSessionOf
<1>6. ASSUME NEW k \in Token, Replay(k) PROVE StaffStep
  BY <1>2, <1>3, <1>6 DEF Replay, RevokeSessionOf, RevokeAllUserRefreshTokens
<1>7. ASSUME NEW k \in Token, Logout(k) PROVE StaffStep
  BY <1>2, <1>7 DEF Logout, Live
<1>8. ASSUME NEW k \in Token, Expire(k) PROVE StaffStep
  <2>1. token[k] # None /\ token[k] \in Rows /\ token' = [token EXCEPT ![k].state = "expired"] /\ UNCHANGED <<account, call, orderly>>
    BY <1>0, <1>8 DEF Expire, Has, StaffTypeOK
  <2>2. token' \in [Token -> Rows \cup {None}] /\ \A j \in Token : Fades(token'[j], token[j])
    BY <1>0, <2>1 DEF StaffTypeOK, Rows, Fades
  <2> QED BY <2>1, <2>2, StayGone
<1> QED BY <1>1, <1>4, <1>5, <1>6, <1>7, <1>8

(* A request that begins has read what is true at that time. *)
LEMMA BeginsKeep ==
    ASSUME StaffInv, NEW c \in Call, NEW ask \in Calls, Begin(c, ask), Quiet(ask.user), UNCHANGED <<account, token, orderly>>,
           ask.at \notin {"signout", "revokeall"},
           ask.at = "login" => ask.knew = account[ask.user].password,
           ask.at = "refresh" => /\ ask.token # None /\ Live(ask.token) /\ token[ask.token].user = ask.user
                                 /\ token[ask.token].session = ask.session /\ token[ask.token].knew = ask.knew
    PROVE  StaffStep
<1> USE NoneAssumption DEF StaffInv
<1>0. /\ call[c] = None /\ call' = [call EXCEPT ![c] = ask] /\ call \in [Call -> Calls \cup {None}] /\ ask # None
      /\ call'[c] = ask /\ \A d \in Call \ {c} : call'[d] = call[d]
  BY DEF Begin, StaffTypeOK
<1>1. ask.user \in orderly => \A d \in Call : call[d] # None => call[d].user # ask.user
  BY DEF Quiet, Asking
<1>2. ask.at = "refresh" => ask.token \in Token
  BY DEF Calls
<1>3. StaffTypeOK'
  BY <1>0 DEF StaffTypeOK, At
<1>4. OneCall'
  BY <1>0, <1>1 DEF OneCall
<1>5. OneUser'
  <2>1. (\A j, k \in Token : Has(j) /\ Has(k) /\ token[j].session = token[k].session /\ token[j].session # None
          => token[j].user = token[k].user)'
    BY DEF OneUser, Has
  <2>2. ASSUME NEW d \in Call, NEW k \in Token, At(d, "refresh")', Has(k)
        PROVE  /\ k = call'[d].token => token[k].user = call'[d].user /\ token[k].session = call'[d].session
               /\ token[k].session = call'[d].session /\ token[k].session # None => token[k].user = call'[d].user
    <3>1. CASE d = c
      <4>1. ask.at = "refresh" /\ Has(ask.token)
        BY <1>0, <2>2, <3>1 DEF At, Live
      <4> QED BY <1>0, <1>2, <2>2, <3>1, <4>1 DEF OneUser
    <3>2. CASE d # c
      BY <1>0, <2>2, <3>2 DEF At, OneUser
    <3> QED BY <3>1, <3>2
  <2> QED BY <2>1, <2>2 DEF OneUser, Has
<1>6. OneLiveToken'
  BY DEF OneLiveToken, InSession, Has, Live
<1>7. OwnToken'
  <2>1. ASSUME NEW d \in Call, At(d, "refresh")', call'[d].user \in orderly, call'[d].session # None,
               NEW k \in InSession(call'[d].session), Live(k)
        PROVE  k = call'[d].token
    <3>1. CASE d = c
      <4>1. ask.at = "refresh" /\ ask.session \in Session
        BY <1>0, <2>1, <3>1 DEF At, Calls
      <4>2. ask.token \in InSession(ask.session) /\ Live(ask.token) /\ token[ask.token].user \in orderly
        BY <1>0, <1>2, <2>1, <3>1, <4>1 DEF InSession, Live
      <4> QED BY <1>0, <2>1, <3>1, <4>1, <4>2 DEF OneLiveToken
    <3>2. CASE d # c
      BY <1>0, <2>1, <3>2 DEF At, OwnToken
    <3> QED BY <3>1, <3>2
  <2> QED BY <2>1 DEF OwnToken, InSession, Has, Live
<1>8. Known'
  <2>1. \A u : SigningOut(u)' => SigningOut(u)
    BY <1>0 DEF SigningOut
  <2>2. ask.at = "refresh" /\ ask.user \in orderly => ask.knew = account[ask.user].password
    <3>1. ask.user \in orderly => ~SigningOut(ask.user)
      BY <1>1 DEF SigningOut
    <3>2. ask.at = "refresh" => ask.token \in LiveOf(ask.user)
      BY <1>2 DEF LiveOf
    <3> QED BY <3>1, <3>2 DEF Known
  <2>3. ASSUME NEW u \in orderly PROVE SigningOut(u)' = SigningOut(u)
    BY <1>0 DEF SigningOut
  <2>4. \A u \in orderly : ~SigningOut(u)' => \A k \in LiveOf(u) : token[k].knew = account[u].password
    BY <2>3 DEF Known
  <2>5. \A d \in Call : call'[d] # None /\ call'[d].user \in orderly /\ call'[d].at \in {"login", "refresh"}
          => call'[d].knew = account[call'[d].user].password
    BY <1>0, <2>2 DEF Known
  <2> QED BY <2>4, <2>5 DEF Known, LiveOf, Live, Has
<1>9. GoneHasNone'
  BY DEF GoneHasNone, Has
<1>9c. SessionsEnd
  <2> SUFFICES ASSUME NEW r \in Session, Cold(r) PROVE ~Refreshing(r)' /\ \A j \in Token : Has(j)' /\ token'[j].session = r => ~Live(j)'
    BY DEF SessionsEnd, Cold, InSession
  <2>1. ask.at = "refresh" => ask.session # r
    BY <1>2 DEF Cold, InSession, Live
  <2>2. ~Refreshing(r)'
    BY <1>0, <2>1 DEF Cold, Refreshing, At
  <2>3. ASSUME NEW j \in Token, Has(j)', token'[j].session = r PROVE ~Live(j)'
    BY <2>3 DEF Cold, InSession, Has, Live
  <2> QED BY <2>2, <2>3
<1> QED BY <1>3, <1>4, <1>5, <1>6, <1>7, <1>8, <1>9, <1>9c DEF StaffStep

(* Logins, refreshes and changes of a password begin so. *)
LEMMA RequestsBegin ==
    ASSUME StaffInv, NEW c \in Call,
           \/ \E u \in User : TenantLogin(c, u) \/ PlatformLogin(c, u) \/ ResetPassword(c, u)
                                 \/ \E own \in Session : ChangePassword(c, u, own)
           \/ \E k \in Token : Refresh(c, k)
    PROVE  StaffStep
<1>0. /\ account \in [User -> Accounts] /\ token \in [Token -> Rows \cup {None}]
      /\ \A u \in User : account[u].password \in 0..MaxPassword
  BY DEF StaffInv, StaffTypeOK, Accounts
<1>1. ASSUME NEW u \in User, NEW s \in Session \cup {None}, NEW at \in {"login", "password", "reset"},
             Begin(c, Ask(at, u, s)), Quiet(u), UNCHANGED <<account, token, orderly>>
      PROVE  StaffStep
  <2> DEFINE ask == Ask(at, u, s)
  <2>1. ask \in Calls /\ ask.user = u /\ ask.at = at /\ ask.knew = account[u].password
    BY <1>0 DEF Ask, Calls
  <2>2. Begin(c, ask)
    BY <1>1
  <2> HIDE DEF ask
  <2> QED BY <1>1, <2>1, <2>2, BeginsKeep
<1>2. ASSUME NEW k \in Token, Refresh(c, k) PROVE StaffStep
  <2> DEFINE ask == AskOf(k)
  <2>1. token[k] \in Rows /\ Live(k) /\ Quiet(token[k].user) /\ UNCHANGED <<account, token, orderly>> /\ Begin(c, ask)
    BY <1>0, <1>2 DEF Refresh, Live, Has
  <2>2. /\ ask \in Calls /\ ask.at = "refresh" /\ ask.user = token[k].user /\ ask.session = token[k].session
        /\ ask.token = k /\ ask.knew = token[k].knew
    BY <2>1 DEF AskOf, Calls, Rows
  <2>3. k # None
    BY NoneAssumption
  <2> HIDE DEF ask
  <2> QED BY <2>1, <2>2, <2>3, BeginsKeep
<1>3. ASSUME NEW u \in User, TenantLogin(c, u) \/ PlatformLogin(c, u) \/ ResetPassword(c, u) PROVE StaffStep
  BY <1>1, <1>3 DEF TenantLogin, PlatformLogin, ResetPassword
<1>4. ASSUME NEW u \in User, NEW own \in Session, ChangePassword(c, u, own) PROVE StaffStep
  BY <1>1, <1>4 DEF ChangePassword
<1> QED BY <1>2, <1>3, <1>4

(* A token inserted for a login is of a new session; one inserted for a refresh goes on with the session of the token it
   has just used up, and was read under the password that is still the newest of an orderly user. *)
LEMMA NewTokenKeeps ==
    ASSUME StaffInv, NEW c \in Call, call[c] # None, call[c].at \in {"login", "refresh"},
           NEW k \in Token, NewToken(k), NEW s \in Session,
           \/ NewSession(s)
           \/ call[c].at = "refresh" /\ call[c].session = s /\ Has(call[c].token),
           account[call[c].user].status # "deleted",
           token' \in [Token -> Rows \cup {None}], token'[k] = Row(call[c].user, s, call[c].knew),
           \A j \in Token \ {k} : Fades(token'[j], token[j]),
           \A j \in Token : call[c].at = "refresh" /\ j = call[c].token => ~Live(j)',
           End(c), UNCHANGED <<account, orderly>>
    PROVE  StaffStep
<1> USE NoneAssumption DEF StaffInv
<1> DEFINE u == call[c].user
<1>0. /\ call \in [Call -> Calls \cup {None}] /\ call[c] \in Calls /\ u \in User
      /\ call'[c] = None /\ \A d \in Call \ {c} : call'[d] = call[d]
      /\ call' \in [Call -> Calls \cup {None}]
  BY DEF End, StaffTypeOK, Calls
<1>1. /\ token'[k] \in Rows /\ token'[k].user = u /\ token'[k].session = s /\ token'[k].knew = call[c].knew
      /\ token[k] = None /\ token'[k] # None /\ \A d \in Call : call[d] # None => call[d].token # k
  <2>1. token'[k] \in Rows
    BY <1>0 DEF Row, Rows, Calls
  <2> QED BY <2>1 DEF Row, NewToken
<1> HIDE DEF u
<1>2. \A j \in Token \ {k} : /\ Has(j)' => Has(j) /\ token'[j].user = token[j].user /\ token'[j].session = token[j].session
                             /\ Live(j)' => Live(j) /\ token'[j] = token[j]
  BY DEF Has, Fades, Live
<1>3. StaffTypeOK'
  BY <1>0 DEF StaffTypeOK, At
<1>4. OneCall'
  BY <1>0 DEF OneCall
<1>5. \A j \in Token : Has(j) /\ token[j].session = s => token[j].user = u
  <2>1. CASE NewSession(s)
    BY <2>1 DEF NewSession, InSession
  <2>2. CASE call[c].at = "refresh" /\ call[c].session = s /\ Has(call[c].token)
    BY <2>2 DEF OneUser, At, u
  <2> QED BY <2>1, <2>2
<1>6. \A d \in Call \ {c} : At(d, "refresh") /\ call[d].session = s => call[d].user = u
  <2>1. CASE NewSession(s)
    BY <2>1 DEF NewSession, At
  <2>2. CASE call[c].at = "refresh" /\ call[c].session = s /\ Has(call[c].token)
    <3>1. call[c].token \in Token /\ token[call[c].token].session = s
      BY <1>0, <2>2 DEF OneUser, At, Calls, StaffTypeOK
    <3> QED BY <1>5, <2>2, <3>1 DEF OneUser, At
  <2> QED BY <2>1, <2>2
<1>7. OneUser'
  <2>1. ASSUME NEW i \in Token, NEW j \in Token, Has(i)', Has(j)', token'[i].session = token'[j].session, token'[i].session # None
        PROVE  token'[i].user = token'[j].user
    <3>1. CASE i # k /\ j # k
      BY <1>2, <2>1, <3>1 DEF OneUser
    <3>2. CASE i = k /\ j # k
      BY <1>1, <1>2, <1>5, <2>1, <3>2
    <3>3. CASE i # k /\ j = k
      BY <1>1, <1>2, <1>5, <2>1, <3>3
    <3> QED BY <3>1, <3>2, <3>3
  <2>2. ASSUME NEW d \in Call, NEW j \in Token, At(d, "refresh")', Has(j)'
        PROVE  /\ j = call'[d].token => token'[j].user = call'[d].user /\ token'[j].session = call'[d].session
               /\ token'[j].session = call'[d].session /\ token'[j].session # None => token'[j].user = call'[d].user
    <3>1. d # c /\ call'[d] = call[d] /\ At(d, "refresh")
      BY <1>0, <2>2 DEF At
    <3>2. CASE j = k
      BY <1>1, <1>6, <3>1, <3>2 DEF At
    <3>3. CASE j # k
      BY <1>2, <2>2, <3>1, <3>3 DEF OneUser
    <3> QED BY <3>2, <3>3
  <2> QED BY <2>1, <2>2 DEF OneUser
<1>8. u \in orderly => \A j \in Token \ {k} : Has(j)' /\ token'[j].session = s => ~Live(j)'
  <2> SUFFICES ASSUME u \in orderly, NEW j \in Token \ {k}, Has(j)', token'[j].session = s, Live(j)' PROVE FALSE
    OBVIOUS
  <2>1. Has(j) /\ token[j].session = s /\ Live(j) /\ j \in InSession(s)
    BY <1>2 DEF InSession
  <2>2. call[c].at = "refresh" /\ call[c].session = s /\ Has(call[c].token)
    BY <2>1 DEF NewSession
  <2>3. j = call[c].token
    BY <2>1, <2>2 DEF OwnToken, At, u
  <2> QED BY <2>2, <2>3
<1>9. OneLiveToken'
  <2>1. ASSUME NEW r \in Session, NEW i \in Token, NEW j \in Token, Has(i)', Has(j)', token'[i].session = r, token'[j].session = r,
               Live(i)', Live(j)', token'[i].user \in orderly
        PROVE  i = j
    <3>1. CASE i # k /\ j # k
      BY <1>2, <2>1, <3>1 DEF OneLiveToken, InSession
    <3>2. CASE i = k /\ j # k
      BY <1>1, <1>8, <2>1, <3>2
    <3>3. CASE i # k /\ j = k
      BY <1>1, <1>2, <1>5, <1>8, <2>1, <3>3
    <3> QED BY <3>1, <3>2, <3>3
  <2> QED BY <2>1 DEF OneLiveToken, InSession
<1>10. OwnToken'
  <2>1. ASSUME NEW d \in Call, At(d, "refresh")', call'[d].user \in orderly, call'[d].session # None,
               NEW j \in Token, Has(j)', token'[j].session = call'[d].session, Live(j)'
        PROVE  j = call'[d].token
    <3>1. d # c /\ call'[d] = call[d] /\ At(d, "refresh")
      BY <1>0, <2>1 DEF At
    <3>2. CASE j = k
      BY <1>1, <1>6, <2>1, <3>1, <3>2 DEF OneCall, At, u
    <3>3. CASE j # k
      BY <1>2, <2>1, <3>1, <3>3 DEF OwnToken, InSession
    <3> QED BY <3>2, <3>3
  <2> QED BY <2>1 DEF OwnToken, InSession
<1>11. GoneHasNone'
  BY <1>1, <1>2 DEF GoneHasNone, u
<1>12. Known'
  <2>1. ASSUME NEW v \in orderly, ~SigningOut(v)', NEW j \in LiveOf(v)' PROVE token'[j].knew = account[v].password
    <3>1. ~SigningOut(v)
      BY <1>0, <2>1 DEF SigningOut
    <3>2. j \in Token /\ Live(j)' /\ token'[j].user = v
      BY DEF LiveOf
    <3>3. CASE j = k
      BY <1>1, <3>2, <3>3 DEF Known, u
    <3>4. CASE j # k
      BY <1>2, <3>1, <3>2, <3>4 DEF Known, LiveOf
    <3> QED BY <3>3, <3>4
  <2>2. \A d \in Call : call'[d] # None /\ call'[d].user \in orderly /\ call'[d].at \in {"login", "refresh"}
          => call'[d].knew = account[call'[d].user].password
    BY <1>0 DEF Known
  <2> QED BY <2>1, <2>2 DEF Known
<1>9c. SessionsEnd
  <2> SUFFICES ASSUME NEW r \in Session, Cold(r), InSession(r) # {} PROVE ~Refreshing(r)' /\ \A j \in Token : Has(j)' /\ token'[j].session = r => ~Live(j)'
    BY DEF SessionsEnd, Cold, InSession
  <2>1. ~Refreshing(r)'
    BY <1>0 DEF Cold, Refreshing, At
  <2>2. r # s
    BY DEF Cold, Refreshing, At, NewSession
  <2>3. ASSUME NEW j \in Token, Has(j)', token'[j].session = r PROVE ~Live(j)'
    BY <1>1, <1>2, <2>2, <2>3 DEF Cold, InSession
  <2> QED BY <2>1, <2>3
<1> QED BY <1>3, <1>4, <1>7, <1>9, <1>10, <1>11, <1>12, <1>9c DEF StaffStep

(* Logins and refreshes end so. *)
LEMMA TokensIssued ==
    ASSUME StaffInv, NEW c \in Call, GenerateRefreshToken(c) \/ Rotate(c)
    PROVE  StaffStep
<1> USE NoneAssumption
<1>0. /\ StaffTypeOK /\ call[c] # None /\ call[c] \in Calls /\ End(c) /\ UNCHANGED <<account, orderly>>
      /\ token \in [Token -> Rows \cup {None}] /\ call[c].at \in {"login", "refresh"}
  BY DEF StaffInv, StaffTypeOK, GenerateRefreshToken, Rotate, At
<1>1. \A k \in Token, s \in Session : Row(call[c].user, s, call[c].knew) \in Rows
  BY <1>0 DEF Row, Rows, Calls
<1>2. CASE GenerateRefreshToken(c)
  <2>1. PICK k \in Token, s \in Session : /\ NewToken(k) /\ NewSession(s)
                                        /\ token' = [token EXCEPT ![k] = Row(call[c].user, s, call[c].knew)]
    BY <1>2 DEF GenerateRefreshToken
  <2>2. call[c].at = "login" /\ account[call[c].user].status # "deleted"
    BY <1>2 DEF GenerateRefreshToken, At
  <2>3. \A j \in Token \ {k} : Fades(token'[j], token[j])
    BY <1>0, <2>1 DEF Fades
  <2>4. token' \in [Token -> Rows \cup {None}] /\ token'[k] = Row(call[c].user, s, call[c].knew)
    BY <1>0, <1>1, <2>1
  <2> QED BY <1>0, <2>1, <2>2, <2>3, <2>4, NewTokenKeeps
<1>3. CASE Rotate(c)
  <2>1. PICK k \in Token, s \in Session :
          /\ NewToken(k) /\ IF call[c].session = None THEN NewSession(s) ELSE s = call[c].session
          /\ token' = [j \in Token |-> IF j = k THEN Row(call[c].user, s, call[c].knew)
                                      ELSE IF j = call[c].token THEN Rotated(token[j]) ELSE token[j]]
    BY <1>3 DEF Rotate
  <2>2. call[c].at = "refresh" /\ Has(call[c].token) /\ call[c].token # k /\ call[c].token \in Token
    BY <1>0, <1>3, <2>1 DEF Rotate, At, NewToken, Calls, StaffTypeOK
  <2>3. \/ NewSession(s)
        \/ call[c].at = "refresh" /\ call[c].session = s /\ Has(call[c].token)
    BY <2>1, <2>2
  <2>4. token[call[c].token] # None /\ token[call[c].token] \in Rows /\ token[call[c].token].user = call[c].user
    BY <1>0, <2>2 DEF Has, StaffInv, OneUser, At
  <2>5. account[call[c].user].status # "deleted"
    BY <1>0, <2>2, <2>4 DEF StaffInv, GoneHasNone, Calls
  <2>6. /\ token'[call[c].token] \in Rows /\ token'[call[c].token].state # "live"
        /\ Fades(token'[call[c].token], token[call[c].token])
    <3>1. token'[call[c].token] = Rotated(token[call[c].token])
      BY <2>1, <2>2
    <3>2. CASE token[call[c].token].state = "live"
      BY <2>4, <3>1, <3>2 DEF Rotated, Rows, Fades
    <3>3. CASE token[call[c].token].state # "live"
      BY <2>4, <3>1, <3>3 DEF Rotated, Rows, Fades
    <3> QED BY <3>2, <3>3
  <2>7. \A j \in Token \ {k} : Fades(token'[j], token[j])
    BY <2>1, <2>6 DEF Fades
  <2>8. token' \in [Token -> Rows \cup {None}] /\ token'[k] = Row(call[c].user, s, call[c].knew)
    <3>1. \A j \in Token : token'[j] \in Rows \cup {None}
      BY <1>0, <1>1, <2>1, <2>6
    <3> QED BY <2>1, <3>1
  <2>9. \A j \in Token : call[c].at = "refresh" /\ j = call[c].token => ~Live(j)'
    BY <2>6 DEF Live
  <2> QED BY <1>0, <2>1, <2>3, <2>5, <2>7, <2>8, <2>9, NewTokenKeeps
<1> QED BY <1>2, <1>3

(* A new password is written while its writer is about to sign out. *)
LEMMA PasswordWritten ==
    ASSUME StaffInv, NEW c \in Call, UpdatePassword(c)
    PROVE  StaffStep
<1> USE NoneAssumption, MaxPasswordAssumption DEF StaffInv
<1>u. PICK u \in User : u = call[c].user
  BY DEF StaffTypeOK, UpdatePassword, At, Calls
<1>n. PICK n \in Nat : n = account[u].password + 1
  BY <1>u DEF StaffTypeOK, Accounts
<1>a. PICK at \in {"signout", "revokeall"} : at = IF call[c].at = "reset" THEN "revokeall" ELSE "signout"
  OBVIOUS
<1>0. /\ call \in [Call -> Calls \cup {None}] /\ call[c] # None /\ call[c] \in Calls /\ u \in User
      /\ account \in [User -> Accounts] /\ call[c].at \in {"password", "reset"} /\ UNCHANGED <<token, orderly>>
      /\ account[u].password < MaxPassword /\ account[u].status # "deleted" /\ account[u].password \in Nat
  BY <1>u DEF StaffTypeOK, UpdatePassword, At, Calls, Accounts
<1>1. /\ account' = [account EXCEPT ![u].password = n] /\ call' = [call EXCEPT ![c].at = at]
      /\ n \in 0..MaxPassword
  BY <1>0, <1>u, <1>n, <1>a DEF UpdatePassword
<1>2. /\ account' \in [User -> Accounts] /\ account'[u].status = account[u].status
      /\ \A v \in User \ {u} : account'[v] = account[v]
  BY <1>0, <1>1 DEF Accounts
<1>3. /\ call' \in [Call -> Calls \cup {None}] /\ call'[c] # None /\ call'[c].user = u /\ call'[c].at = at
      /\ \A d \in Call \ {c} : call'[d] = call[d]
  <2>1. [call[c] EXCEPT !.at = at] \in Calls /\ [call[c] EXCEPT !.at = at].user = u /\ [call[c] EXCEPT !.at = at].at = at
    BY <1>0, <1>1, <1>u DEF Calls
  <2> QED BY <1>0, <1>1, <2>1
<1>4. \A d \in Call : At(d, "refresh")' => At(d, "refresh") /\ call'[d] = call[d]
  BY <1>1, <1>3 DEF At
<1>5. StaffTypeOK'
  BY <1>0, <1>2, <1>3, <1>4 DEF StaffTypeOK
<1>6. OneCall'
  BY <1>0, <1>3, <1>u DEF OneCall
<1>7. OneUser' /\ OneLiveToken' /\ OwnToken'
  BY <1>0, <1>4 DEF OneUser, OneLiveToken, OwnToken, InSession, Has, Live
<1>8. GoneHasNone'
  BY <1>0, <1>2 DEF GoneHasNone, Has
<1>9. Known'
  <2>1. SigningOut(u)'
    BY <1>3 DEF SigningOut
  <2>2. ASSUME NEW v \in User, v # u, ~SigningOut(v)' PROVE ~SigningOut(v) /\ account'[v] = account[v] /\ LiveOf(v)' = LiveOf(v)
    BY <1>0, <1>2, <1>3, <1>u, <2>2 DEF SigningOut, LiveOf, Live, Has
  <2>3. orderly \subseteq User
    BY DEF StaffTypeOK
  <2>4. ASSUME NEW v \in orderly, ~SigningOut(v)', NEW k \in LiveOf(v)' PROVE token'[k].knew = account'[v].password
    <3>1. v \in User /\ v # u
      BY <2>1, <2>3, <2>4
    <3> QED BY <1>0, <2>2, <2>4, <3>1 DEF Known
  <2>5. ASSUME NEW d \in Call, call'[d] # None, call'[d].user \in orderly, call'[d].at \in {"login", "refresh"}
        PROVE  call'[d].knew = account'[call'[d].user].password
    <3>1. d # c /\ call'[d] = call[d]
      BY <1>1, <1>3, <2>5
    <3>2. call[d].user # u
      BY <1>0, <1>u, <2>5, <3>1 DEF OneCall
    <3> QED BY <1>2, <2>3, <2>5, <3>1, <3>2 DEF Known
  <2> QED BY <1>0, <2>4, <2>5 DEF Known
<1>9c. SessionsEnd
  <2> SUFFICES ASSUME NEW r \in Session, Cold(r) PROVE ~Refreshing(r)' /\ \A j \in Token : Has(j)' /\ token'[j].session = r => ~Live(j)'
    BY DEF SessionsEnd, Cold, InSession
  <2>1. ~Refreshing(r)'
    BY <1>0, <1>4 DEF Cold, Refreshing, At
  <2>2. ASSUME NEW j \in Token, Has(j)', token'[j].session = r PROVE ~Live(j)'
    BY <1>0, <2>2 DEF Cold, InSession, Has, Live
  <2> QED BY <2>1, <2>2
<1> QED BY <1>5, <1>6, <1>7, <1>8, <1>9, <1>9c DEF StaffStep

(* And the sign-out leaves no token that was issued under an older one. *)
LEMMA SignedOut ==
    ASSUME StaffInv, NEW c \in Call, RevokeUserSessions(c) \/ RevokeAfterReset(c)
    PROVE  StaffStep
<1> USE NoneAssumption DEF StaffInv
<1>u. PICK u \in User : u = call[c].user
  BY DEF StaffTypeOK, RevokeUserSessions, RevokeAfterReset, At, Calls
<1>0. /\ call \in [Call -> Calls \cup {None}] /\ call[c] # None /\ call[c].at \in {"signout", "revokeall"}
      /\ token \in [Token -> Rows \cup {None}] /\ account \in [User -> Accounts] /\ UNCHANGED <<account, orderly>>
      /\ call'[c] = None /\ \A d \in Call \ {c} : call'[d] = call[d]
      /\ call' \in [Call -> Calls \cup {None}] /\ account[u].password \in 0..MaxPassword
  BY DEF StaffTypeOK, RevokeUserSessions, RevokeAfterReset, At, End, Accounts
<1>1. \A k \in Token : token[k] # None => token[k] \in Rows
  BY <1>0
<1>2. /\ token' \in [Token -> Rows \cup {None}]
      /\ \A k \in Token : /\ token'[k] # None => token[k] # None /\ token'[k].user = token[k].user /\ token'[k].session = token[k].session
                          /\ Live(k)' => Live(k)
                          /\ Live(k)' /\ token[k].user = u => token'[k].knew = account[u].password
                          /\ token[k].user # u => token'[k] = token[k]
  <2>1. CASE RevokeUserSessions(c)
    <3>1. token' = [k \in Token |->
              IF k \in LiveOf(u) /\ token[k].session = call[c].session THEN [token[k] EXCEPT !.knew = account[u].password]
              ELSE IF k \in LiveOf(u) THEN [token[k] EXCEPT !.state = "revoked"] ELSE token[k]]
      BY <1>u, <2>1 DEF RevokeUserSessions, SignOut
    <3>2. ASSUME NEW k \in Token, k \in LiveOf(u) PROVE token[k] # None /\ token[k] \in Rows /\ token[k].user = u /\ token[k].state = "live"
      BY <1>1, <3>2 DEF LiveOf, Live, Has
    <3>3. ASSUME NEW k \in Token, k \notin LiveOf(u) PROVE token'[k] = token[k] /\ (token[k].user = u => ~Live(k))
      BY <3>1, <3>3 DEF LiveOf
    <3>4. ASSUME NEW k \in Token, k \in LiveOf(u), token[k].session = call[c].session
          PROVE  /\ token'[k] \in Rows /\ token'[k].user = token[k].user /\ token'[k].session = token[k].session
                 /\ token'[k].knew = account[u].password
      BY <1>0, <3>1, <3>2, <3>4 DEF Rows
    <3>5. ASSUME NEW k \in Token, k \in LiveOf(u), token[k].session # call[c].session
          PROVE  /\ token'[k] \in Rows /\ token'[k].user = token[k].user /\ token'[k].session = token[k].session
                 /\ token'[k].state # "live"
      BY <1>0, <3>1, <3>2, <3>5 DEF Rows
    <3>6. \A k \in Token : token'[k] \in Rows \cup {None}
      BY <1>0, <3>3, <3>4, <3>5
    <3>7. token' \in [Token -> Rows \cup {None}]
      BY <3>1, <3>6
    <3> QED BY <3>2, <3>3, <3>4, <3>5, <3>7 DEF Live, Has
  <2>2. CASE RevokeAfterReset(c)
    <3>1. RevokeUserTokens(LiveOf(u))
      BY <1>u, <2>2 DEF RevokeAfterReset, RevokeAllUserRefreshTokens
    <3>2. LiveOf(u) \in SUBSET Token /\ \A k \in LiveOf(u) : Has(k)
      BY DEF LiveOf, Live
    <3>3. token' \in [Token -> Rows \cup {None}] /\ \A k \in Token : Fades(token'[k], token[k])
      BY <3>1, <3>2, RowsRevoked
    <3>4. \A k \in Token : k \notin LiveOf(u) => token'[k] = token[k]
      BY <3>1 DEF RevokeUserTokens
    <3>5. \A k \in LiveOf(u) : token'[k].state = "revoked"
      <4>1. ASSUME NEW k \in LiveOf(u) PROVE token'[k].state = "revoked"
        <5>1. k \in Token /\ token[k] \in Rows /\ token'[k] = [token[k] EXCEPT !.state = "revoked"]
          BY <1>1, <3>1 DEF RevokeUserTokens, LiveOf, Live, Has
        <5> QED BY <5>1 DEF Rows
      <4> QED BY <4>1
    <3> QED BY <3>3, <3>4, <3>5 DEF Fades, LiveOf, Live, Has
  <2> QED BY <2>1, <2>2
<1>3. \A d \in Call : At(d, "refresh")' => At(d, "refresh") /\ call'[d] = call[d]
  BY <1>0 DEF At
<1>4. StaffTypeOK'
  BY <1>0, <1>2, <1>3 DEF StaffTypeOK
<1>5. OneCall' /\ GoneHasNone'
  BY <1>0, <1>2 DEF OneCall, GoneHasNone, Has
<1>6. OneUser'
  BY <1>0, <1>2, <1>3 DEF OneUser, Has
<1>7. OneLiveToken' /\ OwnToken'
  BY <1>0, <1>2, <1>3 DEF OneLiveToken, OwnToken, InSession, Has
<1>8. Known'
  <2>1. ASSUME NEW v \in orderly, ~SigningOut(v)', NEW k \in LiveOf(v)' PROVE token'[k].knew = account[v].password
    <3>1. k \in Token /\ Live(k)' /\ token'[k].user = v /\ token'[k] # None
      BY DEF LiveOf, Live, Has
    <3>2. token[k].user = v /\ Live(k)
      BY <1>2, <3>1
    <3>3. CASE v = u
      BY <1>2, <3>1, <3>2, <3>3
    <3>4. CASE v # u
      <4>1. ~SigningOut(v)
        BY <1>0, <1>u, <2>1, <3>4 DEF SigningOut
      <4>2. token'[k] = token[k]
        BY <1>2, <3>1, <3>2, <3>4
      <4> QED BY <3>1, <3>2, <4>1, <4>2 DEF Known, LiveOf
    <3> QED BY <3>3, <3>4
  <2>2. \A d \in Call : call'[d] # None /\ call'[d].user \in orderly /\ call'[d].at \in {"login", "refresh"}
          => call'[d].knew = account[call'[d].user].password
    BY <1>0 DEF Known
  <2> QED BY <1>0, <2>1, <2>2 DEF Known
<1>9c. SessionsEnd
  <2> SUFFICES ASSUME NEW r \in Session, Cold(r) PROVE ~Refreshing(r)' /\ \A j \in Token : Has(j)' /\ token'[j].session = r => ~Live(j)'
    BY DEF SessionsEnd, Cold, InSession
  <2>1. ~Refreshing(r)'
    BY <1>0, <1>3 DEF Cold, Refreshing, At
  <2>2. ASSUME NEW j \in Token, Has(j)', token'[j].session = r PROVE ~Live(j)'
    BY <1>0, <1>2, <2>2 DEF Cold, InSession, Has
  <2> QED BY <2>1, <2>2
<1> QED BY <1>4, <1>5, <1>6, <1>7, <1>8, <1>9c DEF StaffStep

(* A request that fails leaves its tokens as they are. *)
LEMMA CallFails ==
    ASSUME StaffInv, NEW c \in Call, Fail(c)
    PROVE  StaffStep
<1> USE NoneAssumption DEF StaffInv
<1>0. /\ call \in [Call -> Calls \cup {None}] /\ call[c] # None /\ UNCHANGED <<account, token, orderly>>
      /\ call'[c] = None /\ \A d \in Call \ {c} : call'[d] = call[d]
      /\ call' \in [Call -> Calls \cup {None}]
      /\ call[c].user \in User /\ token \in [Token -> Rows \cup {None}]
  BY DEF Fail, End, StaffTypeOK, Calls
<1>1. \A d \in Call : At(d, "refresh")' => At(d, "refresh") /\ call'[d] = call[d]
  BY <1>0 DEF At
<1>2. StaffTypeOK' /\ OneCall' /\ GoneHasNone'
  BY <1>0, <1>1 DEF StaffTypeOK, OneCall, GoneHasNone, Has
<1>3. OneUser' /\ OneLiveToken' /\ OwnToken'
  BY <1>0, <1>1 DEF OneUser, OneLiveToken, OwnToken, InSession, Has, Live
<1>4. Known'
  <2>1. ASSUME NEW v \in orderly, ~SigningOut(v)', NEW k \in LiveOf(v) PROVE token[k].knew = account[v].password
    <3>1. CASE SigningOut(v)
      <4>1. call[c].user = v /\ call[c].at \in {"signout", "revokeall"}
        BY <1>0, <2>1, <3>1 DEF SigningOut
      <4>2. account[v].status = "deleted"
        BY <2>1, <4>1 DEF Fail, At
      <4>3. k \in Token /\ Has(k) /\ token[k].user = v /\ v \in User
        BY <1>0, <4>1 DEF LiveOf, Live
      <4> QED BY <4>2, <4>3 DEF GoneHasNone
    <3>2. CASE ~SigningOut(v)
      BY <3>2 DEF Known
    <3> QED BY <3>1, <3>2
  <2>2. \A d \in Call : call'[d] # None /\ call'[d].user \in orderly /\ call'[d].at \in {"login", "refresh"}
          => call'[d].knew = account[call'[d].user].password
    BY <1>0 DEF Known
  <2> QED BY <1>0, <2>1, <2>2 DEF Known, LiveOf, Live, Has
<1>9c. SessionsEnd
  <2> SUFFICES ASSUME NEW r \in Session, Cold(r) PROVE ~Refreshing(r)' /\ \A j \in Token : Has(j)' /\ token'[j].session = r => ~Live(j)'
    BY DEF SessionsEnd, Cold, InSession
  <2>1. ~Refreshing(r)'
    BY <1>0, <1>1 DEF Cold, Refreshing, At
  <2>2. ASSUME NEW j \in Token, Has(j)', token'[j].session = r PROVE ~Live(j)'
    BY <1>0, <2>2 DEF Cold, InSession, Has, Live
  <2> QED BY <2>1, <2>2
<1> QED BY <1>2, <1>3, <1>4, <1>9c DEF StaffStep

(* Every step keeps the invariant of staff sessions, and the end of those that have ended. *)
LEMMA StaffNextKeeps == ASSUME StaffInv, [StaffNext]_staffVars PROVE StaffStep
<1>1. CASE \/ Cleanup
           \/ \E u \in User, own \in Session : LogoutAll(u, own) \/ \E s \in Session : RevokeSession(u, own, s)
           \/ \E k \in Token : Replay(k) \/ Logout(k) \/ Expire(k)
  BY <1>1, TokensEnd
<1>2. ASSUME NEW u \in User, Register(u) \/ AddAdmin(u) \/ UpdateStatus(u) \/ DeleteUser(u) \/ RemoveAdmin(u)
      PROVE  StaffStep
  BY <1>2, AccountsChange
<1>3. ASSUME NEW c \in Call,
             \/ \E u \in User : TenantLogin(c, u) \/ PlatformLogin(c, u) \/ ResetPassword(c, u)
                                   \/ \E own \in Session : ChangePassword(c, u, own)
             \/ \E k \in Token : Refresh(c, k)
      PROVE  StaffStep
  BY <1>3, RequestsBegin
<1>4. ASSUME NEW c \in Call, \/ GenerateRefreshToken(c) \/ Rotate(c) \/ UpdatePassword(c)
                             \/ RevokeUserSessions(c) \/ RevokeAfterReset(c) \/ Fail(c)
      PROVE  StaffStep
  BY <1>4, TokensIssued, PasswordWritten, SignedOut, CallFails
<1>5. CASE UNCHANGED staffVars
  <2>1. UNCHANGED <<account, token, call, orderly>>
    BY <1>5 DEF staffVars
  <2>2. token' \in [Token -> Rows \cup {None}] /\ \A k \in Token : Fades(token'[k], token[k])
    BY <2>1 DEF StaffInv, StaffTypeOK, Fades
  <2> QED BY <2>1, <2>2, StayGone
<1> QED BY <1>1, <1>2, <1>3, <1>4, <1>5 DEF StaffNext

-----------------------------------------------------------------------------
(* The links sent to staff (StaffLinks). *)

(* Whoever is tidy has one request at most, and nobody has one before the account. *)
OneVisit ==
    /\ \A v, w \in Visit : visit[v] # NoVisit /\ visit[w] # NoVisit /\ visit[v].of = visit[w].of /\ visit[v].of \in tidy => v = w
    /\ \A v \in Visit : visit[v] # NoVisit => person[visit[v].of] # "none"
(* The link a request has read is its owner's, and what resets a password is a reset link. *)
ReadLinks ==
    \A v \in Visit, l \in Link : visit[v] # NoVisit /\ visit[v].link = l /\ link[l] # NoVisit =>
        /\ link[l].of = visit[v].of
        /\ visit[v].at \in {"reset", "mark"} => link[l].kind = "reset"
        /\ visit[v].at = "reset" /\ visit[v].of \in tidy => link[l].spent = 0
(* A link that has set a password is about to be marked, or no longer open. *)
Marking(l) == \E v \in Visit : Doing(v, "mark") /\ visit[v].link = l
SpentOnce ==
    \A l \in Link : link[l] # NoVisit /\ link[l].of \in tidy /\ link[l].spent > 0 =>
        /\ link[l].spent = 1 /\ link[l].kind = "reset"
        /\ link[l].state = "open" => Marking(l)
(* There is one open verification link at most, and none while the next one is to be made. *)
OneOpen ==
    /\ \A j, k \in Link : Is(j, "verify", "open") /\ Is(k, "verify", "open") /\ link[j].of = link[k].of /\ link[j].of \in tidy => j = k
    /\ \A v \in Visit, l \in Link : Doing(v, "send") /\ visit[v].of \in tidy /\ Is(l, "verify", "open") => link[l].of # visit[v].of
LinksInv == LinksTypeOK /\ OneVisit /\ ReadLinks /\ SpentOnce /\ OneOpen

(* A row that is gone, or is what it was for whoever asks, and no more open than it was. *)
Wanes(rec, old) ==
    \/ rec = old \/ rec = NoVisit
    \/ /\ old # NoVisit /\ rec \in Links /\ rec.of = old.of /\ rec.kind = old.kind /\ rec.spent = old.spent
       /\ rec.state = "open" => old.state = "open"
Waning == link' \in [Link -> Links \cup {NoVisit}] /\ \A l \in Link : Wanes(link'[l], link[l])
Peopled == person' \in [Person -> People] /\ \A p \in Person : person'[p] = "none" => person[p] = "none"
Owned == \A l \in Link : link'[l] # NoVisit => person'[link'[l].of] \in {"unverified", "verified"}

(* Nobody has an account, a link or a request. *)
LEMMA LinksInitInv == LinksInit => LinksInv
  BY NoVisitAssumption DEF LinksInit, LinksInv, LinksTypeOK, OneVisit, ReadLinks, SpentOnce, OneOpen, People, Doing, Is

(* What waning leaves of a link, *)
LEMMA WanedFacts ==
    ASSUME LinksTypeOK, Waning
    PROVE  \A l \in Link : /\ link'[l] # NoVisit => /\ link[l] # NoVisit /\ link'[l].of = link[l].of /\ link'[l].kind = link[l].kind
                                                    /\ link'[l].spent = link[l].spent
                                                    /\ link'[l].state = "open" => link[l].state = "open"
                           /\ \A kind : Is(l, kind, "open")' => Is(l, kind, "open")
  BY DEF Waning, Wanes, Is

(* Links wane while no request moves. *)
LEMMA LinksWane ==
    ASSUME LinksInv, Waning, Peopled, Owned, UNCHANGED <<visit, tidy>>
    PROVE  LinksInv'
<1> USE DEF LinksInv
<1>1. \A l \in Link : /\ link'[l] # NoVisit => /\ link[l] # NoVisit /\ link'[l].of = link[l].of /\ link'[l].kind = link[l].kind
                                               /\ link'[l].spent = link[l].spent
                                               /\ link'[l].state = "open" => link[l].state = "open"
                      /\ \A kind : Is(l, kind, "open")' => Is(l, kind, "open")
  BY WanedFacts
<1>2. LinksTypeOK'
  BY DEF LinksTypeOK, Waning, Peopled, Owned, Exists
<1>3. OneVisit'
  BY NoVisitAssumption DEF OneVisit, Peopled, LinksTypeOK, Visits
<1>4. ReadLinks'
  BY <1>1 DEF ReadLinks
<1>5. SpentOnce'
  BY <1>1 DEF SpentOnce, Marking, Doing
<1>6. OneOpen'
  BY <1>1 DEF OneOpen, Doing, Is
<1> QED BY <1>2, <1>3, <1>4, <1>5, <1>6

(* What a request may become while links wane. *)
Becomes(v, new) ==
    /\ visit' = [visit EXCEPT ![v] = new] /\ new \in Visits \cup {NoVisit}
    /\ new # NoVisit =>
          /\ IF visit[v] = NoVisit THEN Alone(new.of) ELSE new.of = visit[v].of
          /\ person'[new.of] # "none"
          /\ \A l \in Link : new.link = l /\ link'[l] # NoVisit =>
                /\ link'[l].of = new.of
                /\ new.at \in {"reset", "mark"} => link'[l].kind = "reset"
                /\ new.at = "reset" /\ new.of \in tidy => link'[l].spent = 0
          /\ new.at = "send" /\ new.of \in tidy => \A l \in Link : Is(l, "verify", "open")' => link'[l].of # new.of
    /\ Doing(v, "mark") => \A l \in Link : l = visit[v].link /\ link'[l] # NoVisit /\ link'[l].of \in tidy => link'[l].state # "open"

(* and of the invariant, whatever one request does meanwhile. *)
LEMMA RequestMoves ==
    ASSUME LinksInv, Waning, Peopled, Owned, NEW v \in Visit, NEW new, Becomes(v, new), UNCHANGED tidy
    PROVE  LinksInv'
<1> USE NoVisitAssumption DEF LinksInv
<1>1. \A l \in Link : /\ link'[l] # NoVisit => /\ link[l] # NoVisit /\ link'[l].of = link[l].of /\ link'[l].kind = link[l].kind
                                               /\ link'[l].spent = link[l].spent
                                               /\ link'[l].state = "open" => link[l].state = "open"
                      /\ \A kind : Is(l, kind, "open")' => Is(l, kind, "open")
  BY WanedFacts
<1>2. /\ visit'[v] = new /\ \A w \in Visit \ {v} : visit'[w] = visit[w]
      /\ visit' \in [Visit -> Visits \cup {NoVisit}] /\ visit \in [Visit -> Visits \cup {NoVisit}]
  BY DEF Becomes, LinksTypeOK
<1>3. LinksTypeOK'
  BY <1>2 DEF LinksTypeOK, Waning, Peopled, Owned, Exists
<1>4. OneVisit'
  <2>1. ASSUME NEW w \in Visit \ {v}, new # NoVisit, visit[w] # NoVisit, visit[w].of = new.of, new.of \in tidy PROVE FALSE
    BY <2>1 DEF Becomes, Alone, OneVisit
  <2>2. \A w \in Visit : visit'[w] # NoVisit => person'[visit'[w].of] # "none"
    BY <1>2 DEF OneVisit, Peopled, Becomes, Visits
  <2> QED BY <1>2, <2>1, <2>2 DEF OneVisit
<1>5. ReadLinks'
  <2>1. ASSUME NEW w \in Visit, NEW l \in Link, visit'[w] # NoVisit, visit'[w].link = l, link'[l] # NoVisit
        PROVE  /\ link'[l].of = visit'[w].of
               /\ visit'[w].at \in {"reset", "mark"} => link'[l].kind = "reset"
               /\ visit'[w].at = "reset" /\ visit'[w].of \in tidy => link'[l].spent = 0
    <3>1. CASE w = v
      BY <1>2, <2>1, <3>1 DEF Becomes
    <3>2. CASE w # v
      BY <1>1, <1>2, <2>1, <3>2 DEF ReadLinks
    <3> QED BY <3>1, <3>2
  <2> QED BY <2>1 DEF ReadLinks
<1>6. SpentOnce'
  <2>1. ASSUME NEW l \in Link, link'[l] # NoVisit, link'[l].of \in tidy, link'[l].spent > 0
        PROVE  /\ link'[l].spent = 1 /\ link'[l].kind = "reset"
               /\ link'[l].state = "open" => Marking(l)'
    <3>1. /\ link[l] # NoVisit /\ link[l].of \in tidy /\ link[l].spent = 1 /\ link[l].kind = "reset"
          /\ link[l].state = "open" => Marking(l)
      BY <1>1, <2>1 DEF SpentOnce
    <3>2. ASSUME link'[l].state = "open" PROVE Marking(l)'
      <4>1. PICK w \in Visit : Doing(w, "mark") /\ visit[w].link = l
        BY <1>1, <2>1, <3>1, <3>2 DEF Marking
      <4>2. w # v
        BY <2>1, <3>2, <4>1 DEF Becomes
      <4> QED BY <1>2, <4>1, <4>2 DEF Marking, Doing
    <3> QED BY <1>1, <2>1, <3>1, <3>2
  <2> QED BY <2>1 DEF SpentOnce
<1>7. OneOpen'
  <2>1. \A j, k \in Link : Is(j, "verify", "open")' /\ Is(k, "verify", "open")' /\ link'[j].of = link'[k].of /\ link'[j].of \in tidy => j = k
    BY <1>1 DEF OneOpen, Is
  <2>2. ASSUME NEW w \in Visit, NEW l \in Link, Doing(w, "send")', visit'[w].of \in tidy, Is(l, "verify", "open")'
        PROVE  link'[l].of # visit'[w].of
    <3>1. CASE w = v
      BY <1>2, <2>2, <3>1 DEF Becomes, Doing
    <3>2. CASE w # v
      BY <1>1, <1>2, <2>2, <3>2 DEF OneOpen, Doing, Is
    <3> QED BY <3>1, <3>2
  <2> QED BY <2>1, <2>2 DEF OneOpen
<1> QED BY <1>3, <1>4, <1>5, <1>6, <1>7

(* updateMany of a state lets links wane. *)
LEMMA StatesWane ==
    ASSUME LinksTypeOK, NEW L \in SUBSET Link, NEW state \in {"used", "expired"}, \A l \in L : link[l] # NoVisit, SetState(L, state)
    PROVE  Waning /\ \A l \in L : link'[l].state = state
<1>1. ASSUME NEW l \in Link, l \in L
      PROVE  link'[l] \in Links /\ Wanes(link'[l], link[l]) /\ link'[l].state = state
  <2>1. link[l] \in Links /\ link[l] # NoVisit /\ link'[l] = [link[l] EXCEPT !.state = state]
    BY <1>1 DEF LinksTypeOK, SetState
  <2> QED BY <2>1 DEF Links, Wanes
<1>2. ASSUME NEW l \in Link, l \notin L PROVE link'[l] = link[l]
  BY <1>2 DEF SetState
<1>3. \A l \in Link : link'[l] \in Links \cup {NoVisit}
  BY <1>1, <1>2 DEF LinksTypeOK
<1> QED BY <1>1, <1>2, <1>3 DEF SetState, Waning, Wanes

(* What the rows say of each other, and that to leave them alone is a special case. *)
LEMMA Standing ==
    ASSUME LinksTypeOK
    PROVE  /\ \A l \in Link : link[l] # NoVisit => link[l] \in Links /\ link[l].of \in Person /\ Exists(link[l].of)
           /\ \A v \in Visit : visit[v] # NoVisit => visit[v] \in Visits /\ visit[v].of \in Person
           /\ link' = link => Waning
           /\ person' = person => Peopled
           /\ Waning /\ person' = person => Owned
<1>1. \A l \in Link : link[l] # NoVisit => link[l] \in Links /\ link[l].of \in Person /\ Exists(link[l].of)
  BY DEF LinksTypeOK, Links
<1>2. Waning /\ person' = person => Owned
  BY <1>1 DEF Waning, Wanes, Owned, Exists
<1> QED BY <1>1, <1>2 DEF LinksTypeOK, Visits, Waning, Wanes, Peopled

(* Expiry, the cleanup, and the deletion of a person. *)
LEMMA LinksEnd ==
    ASSUME LinksInv, CleanupLinks \/ (\E l \in Link : ExpireLink(l)) \/ (\E p \in Person : DeletePerson(p))
    PROVE  LinksInv'
<1>0. LinksTypeOK
  BY DEF LinksInv
<1>1. CASE CleanupLinks
  <2>1. Waning /\ person' = person /\ UNCHANGED <<visit, tidy>>
    BY <1>0, <1>1 DEF CleanupLinks, LinksTypeOK, Waning, Wanes
  <2> QED BY <1>0, <2>1, Standing, LinksWane
<1>2. ASSUME NEW l \in Link, ExpireLink(l) PROVE LinksInv'
  <2>1. Waning /\ person' = person /\ UNCHANGED <<visit, tidy>>
    BY <1>0, <1>2, StatesWane DEF ExpireLink
  <2> QED BY <1>0, <2>1, Standing, LinksWane
<1>3. ASSUME NEW p \in Person, DeletePerson(p) PROVE LinksInv'
  <2>1. Waning /\ UNCHANGED <<visit, tidy>> /\ \A l \in Link : link'[l] # NoVisit => link'[l] = link[l] /\ link[l].of # p
    BY <1>0, <1>3 DEF DeletePerson, LinksTypeOK, Waning, Wanes
  <2>2. Peopled /\ \A q \in Person \ {p} : person'[q] = person[q]
    BY <1>0, <1>3 DEF DeletePerson, LinksTypeOK, Peopled, People
  <2>3. Owned
    BY <1>0, <2>1, <2>2, Standing DEF Owned, Exists
  <2> QED BY <2>1, <2>2, <2>3, LinksWane
<1> QED BY <1>1, <1>2, <1>3

(* Requests begin with links as they are, *)
LEMMA VisitsBegin ==
    ASSUME LinksInv, NEW v \in Visit,
           \/ \E p \in Person : RegisterPerson(v, p) \/ ResendVerification(v, p)
           \/ \E l \in Link : RedeemReset(v, l) \/ VerifyEmail(v, l)
    PROVE  LinksInv'
<1> USE NoVisitAssumption
<1>0. LinksTypeOK
  BY DEF LinksInv
<1>1. ASSUME NEW p \in Person, RegisterPerson(v, p) PROVE LinksInv'
  <2> DEFINE new == [at |-> "send", of |-> p, link |-> NoVisit]
  <2>1. person[p] = "none" /\ visit[v] = NoVisit /\ visit' = [visit EXCEPT ![v] = new] /\ link' = link /\ tidy' = tidy
        /\ person' = [person EXCEPT ![p] = "unverified"]
    BY <1>1 DEF RegisterPerson, Start
  <2>2. new \in Visits /\ new.of = p /\ new.link = NoVisit /\ new.at = "send" /\ new # NoVisit
    BY DEF Visits
  <2> HIDE DEF new
  <2>3. Peopled /\ person'[p] = "unverified" /\ \A q \in Person \ {p} : person'[q] = person[q]
    BY <1>0, <2>1 DEF LinksTypeOK, Peopled, People
  <2>4. Owned /\ Waning /\ \A l \in Link : link[l] # NoVisit => link[l].of # p
    BY <1>0, <2>1, <2>3, Standing DEF Owned, Exists
  <2>5. Alone(p)
    BY <2>1 DEF LinksInv, OneVisit, Alone
  <2>6. Becomes(v, new)
    BY <2>1, <2>2, <2>3, <2>4, <2>5 DEF Becomes, Doing, Is
  <2> QED BY <2>1, <2>3, <2>4, <2>6, RequestMoves
<1>2. ASSUME NEW p \in Person, ResendVerification(v, p) PROVE LinksInv'
  <2> DEFINE new == [at |-> "send", of |-> p, link |-> NoVisit]
  <2>1. person[p] = "unverified" /\ Alone(p) /\ visit[v] = NoVisit /\ visit' = [visit EXCEPT ![v] = new]
        /\ SetState(OpenLinks(p, "verify"), "used") /\ UNCHANGED <<person, tidy>>
    BY <1>2 DEF ResendVerification, Start
  <2>2. new \in Visits /\ new.of = p /\ new.link = NoVisit /\ new.at = "send" /\ new # NoVisit
    BY DEF Visits
  <2> HIDE DEF new
  <2>3. OpenLinks(p, "verify") \in SUBSET Link /\ \A l \in OpenLinks(p, "verify") : link[l] # NoVisit
    BY DEF OpenLinks, Is
  <2>4. Waning /\ Peopled /\ Owned /\ \A l \in OpenLinks(p, "verify") : link'[l].state = "used"
    BY <1>0, <2>1, <2>3, StatesWane, Standing
  <2>5. \A l \in Link : Is(l, "verify", "open")' => link'[l].of # p
    BY <1>0, <2>4, WanedFacts DEF OpenLinks, Is
  <2>6. Becomes(v, new)
    BY <2>1, <2>2, <2>5 DEF Becomes, Doing
  <2> QED BY <2>1, <2>4, <2>6, RequestMoves
<1>3. ASSUME NEW l \in Link, RedeemReset(v, l) PROVE LinksInv'
  <2> DEFINE new == [at |-> "reset", of |-> link[l].of, link |-> l]
  <2>1. /\ link[l] # NoVisit /\ link[l].kind = "reset" /\ link[l].state = "open" /\ Alone(link[l].of) /\ visit[v] = NoVisit
        /\ visit' = [visit EXCEPT ![v] = new] /\ UNCHANGED <<person, link, tidy>>
    BY <1>3 DEF RedeemReset, Start, Is
  <2>2. new \in Visits /\ new.of = link[l].of /\ new.link = l /\ new.at = "reset" /\ new # NoVisit
    BY <1>0, <2>1, Standing DEF Visits
  <2> HIDE DEF new
  <2>3. link[l].of \in tidy => link[l].spent = 0
    <3>1. link[l].spent \in Nat /\ (link[l].of \in tidy => ~Marking(l))
      <4>1. link[l].spent \in Nat
        BY <1>0, <2>1, Standing, MaxSpentAssumption DEF Links
      <4>2. link[l].of \in tidy => ~Marking(l)
        BY <2>1 DEF LinksInv, ReadLinks, Marking, Doing, Alone
      <4> QED BY <4>1, <4>2
    <3> QED BY <2>1, <3>1 DEF LinksInv, SpentOnce
  <2>4. Waning /\ Peopled /\ Owned /\ person'[new.of] # "none"
    BY <1>0, <2>1, <2>2, Standing DEF Exists
  <2>5. Becomes(v, new)
    BY <2>1, <2>2, <2>3, <2>4 DEF Becomes, Doing
  <2> QED BY <2>1, <2>4, <2>5, RequestMoves
<1>4. ASSUME NEW l \in Link, VerifyEmail(v, l) PROVE LinksInv'
  <2> DEFINE new == [at |-> "verify", of |-> link[l].of, link |-> l]
  <2>1. /\ link[l] # NoVisit /\ Alone(link[l].of) /\ visit[v] = NoVisit
        /\ visit' = [visit EXCEPT ![v] = new] /\ UNCHANGED <<person, link, tidy>>
    BY <1>4 DEF VerifyEmail, Start, Is
  <2>2. new \in Visits /\ new.of = link[l].of /\ new.link = l /\ new.at = "verify" /\ new # NoVisit
    BY <1>0, <2>1, Standing DEF Visits
  <2> HIDE DEF new
  <2>4. Waning /\ Peopled /\ Owned /\ person'[new.of] # "none"
    BY <1>0, <2>1, <2>2, Standing DEF Exists
  <2>5. Becomes(v, new)
    BY <2>1, <2>2, <2>4 DEF Becomes, Doing
  <2> QED BY <2>1, <2>4, <2>5, RequestMoves
<1> QED BY <1>1, <1>2, <1>3, <1>4

(* and end with a link marked, delivered or left. *)
LEMMA VisitsEnd ==
    ASSUME LinksInv, NEW v \in Visit,
           \/ DeliverAuthEmail(v) \/ MarkPasswordResetTokenUsed(v) \/ MarkEmailVerificationTokenUsed(v) \/ Abandon(v)
    PROVE  LinksInv'
<1> USE NoVisitAssumption
<1>0. LinksTypeOK /\ UNCHANGED <<person, tidy>> /\ Finish(v)
  BY DEF LinksInv, DeliverAuthEmail, MarkPasswordResetTokenUsed, MarkEmailVerificationTokenUsed, Abandon
<1>1. ASSUME Waning, Doing(v, "mark") => \A l \in Link : l = visit[v].link /\ link'[l] # NoVisit /\ link'[l].of \in tidy => link'[l].state # "open"
      PROVE  LinksInv'
  <2>1. Becomes(v, NoVisit)
    BY <1>0, <1>1 DEF Becomes, Finish
  <2>2. Peopled /\ Owned
    BY <1>0, <1>1, Standing
  <2> QED BY <1>0, <1>1, <2>1, <2>2, RequestMoves
<1>2. CASE DeliverAuthEmail(v)
  <2>1. Waning
    <3>1. CASE link' = [link EXCEPT ![visit[v].link] = IF @ = NoVisit THEN @ ELSE [@ EXCEPT !.mailed = TRUE]]
      <4>1. PICK yes \in BOOLEAN : yes = TRUE
        OBVIOUS
      <4>2. ASSUME NEW l \in Link PROVE link'[l] \in Links \cup {NoVisit} /\ Wanes(link'[l], link[l])
        <5>1. CASE link'[l] = link[l]
          BY <1>0, <5>1 DEF LinksTypeOK, Wanes
        <5>2. CASE link[l] # NoVisit /\ link'[l] = [link[l] EXCEPT !.mailed = yes]
          <6>1. link[l] \in Links
            BY <1>0, <5>2 DEF LinksTypeOK
          <6> QED BY <5>2, <6>1 DEF Links, Wanes
        <5> QED BY <1>0, <3>1, <4>1, <5>1, <5>2 DEF LinksTypeOK
      <4>3. link' \in [Link -> Links \cup {NoVisit}]
        BY <1>0, <3>1, <4>2 DEF LinksTypeOK
      <4> QED BY <4>2, <4>3 DEF Waning
    <3>2. CASE link' = link
      BY <1>0, <3>2, Standing
    <3> QED BY <1>2, <3>1, <3>2 DEF DeliverAuthEmail
  <2> QED BY <1>1, <1>2, <2>1 DEF DeliverAuthEmail, Doing
<1>3. CASE MarkPasswordResetTokenUsed(v)
  <2> DEFINE L == {visit[v].link} \ {l \in Link : ~Is(l, "reset", "open")}
  <2>1. SetState(L \cap Link, "used") /\ \A l \in L \cap Link : link[l] # NoVisit
    BY <1>3 DEF MarkPasswordResetTokenUsed, SetState, Is
  <2>2. Waning /\ \A l \in L \cap Link : link'[l].state = "used"
    BY <1>0, <2>1, StatesWane
  <2>3. ASSUME NEW l \in Link, l = visit[v].link, link'[l] # NoVisit PROVE link'[l].state # "open"
    <3>1. CASE l \in L
      BY <2>2, <3>1
    <3>2. CASE l \notin L
      <4>1. ~Is(l, "reset", "open") /\ link[l] # NoVisit /\ link[l].kind = "reset"
        BY <1>0, <1>3, <2>2, <2>3, <3>2, WanedFacts DEF MarkPasswordResetTokenUsed, Doing, LinksInv, ReadLinks
      <4> QED BY <1>0, <2>2, <2>3, <4>1, WanedFacts DEF Is
    <3> QED BY <3>1, <3>2
  <2> QED BY <1>1, <2>2, <2>3
<1>4. CASE MarkEmailVerificationTokenUsed(v)
  <2> DEFINE L == {visit[v].link} \ {l \in Link : ~Is(l, "verify", "open")}
  <2>1. SetState(L \cap Link, "used") /\ \A l \in L \cap Link : link[l] # NoVisit
    BY <1>4 DEF MarkEmailVerificationTokenUsed, SetState, Is
  <2>2. Waning
    BY <1>0, <2>1, StatesWane
  <2> QED BY <1>1, <1>4, <2>2 DEF MarkEmailVerificationTokenUsed, Doing
<1>5. CASE Abandon(v)
  <2>1. Waning /\ link' = link
    BY <1>0, <1>5, Standing DEF Abandon
  <2>2. ASSUME NEW l \in Link, l = visit[v].link, link[l] # NoVisit, link[l].of \in tidy PROVE FALSE
    <3>1. link[l].of = visit[v].of /\ person[visit[v].of] = "deleted"
      BY <1>5, <2>2 DEF Abandon, LinksInv, ReadLinks
    <3> QED BY <1>0, <2>2, <3>1, Standing DEF Exists
  <2> QED BY <1>0, <1>1, <2>1, <2>2
<1> QED BY <1>2, <1>3, <1>4, <1>5

(* A verified address changes its person alone. *)
LEMMA AddressVerified ==
    ASSUME LinksInv, NEW v \in Visit, UpdateVerified(v)
    PROVE  LinksInv'
<1> USE NoVisitAssumption
<1> DEFINE new == [visit[v] EXCEPT !.at = "markverified"]
<1>0. /\ LinksTypeOK /\ visit[v] # NoVisit /\ visit[v] \in Visits /\ visit[v].of \in Person /\ Exists(visit[v].of)
      /\ person' = [person EXCEPT ![visit[v].of] = "verified"] /\ UNCHANGED <<link, tidy>>
      /\ visit[v].at = "verify" /\ visit' = [visit EXCEPT ![v] = new]
  BY Standing DEF LinksInv, UpdateVerified, Doing, Continue
<1>1. /\ new \in Visits /\ new.of = visit[v].of /\ new.link = visit[v].link /\ new.at = "markverified" /\ new # NoVisit
  BY <1>0 DEF Visits
<1> HIDE DEF new
<1>2. Peopled /\ person'[new.of] # "none" /\ \A p \in Person : Exists(p) => person'[p] \in {"unverified", "verified"}
  BY <1>0, <1>1 DEF LinksTypeOK, Peopled, People, Exists
<1>3. Waning /\ Owned
  BY <1>0, <1>2, Standing DEF Owned
<1>4. Becomes(v, new)
  BY <1>0, <1>1, <1>2 DEF Becomes, Doing, LinksInv, ReadLinks
<1> QED BY <1>0, <1>2, <1>3, <1>4, RequestMoves

(* A new link, and the request that is to deliver it. *)
LEMMA LinkMade ==
    ASSUME LinksInv, NEW v \in Visit, NEW p \in Person, NEW k \in Link, NEW kind \in {"reset", "verify"},
           NewLink(k, p, kind), Exists(p), UNCHANGED <<person, tidy>>,
           NEW new \in Visits, visit' = [visit EXCEPT ![v] = new], new.at = "deliver", new.of = p, new.link = k,
           IF visit[v] = NoVisit THEN Alone(p) ELSE visit[v].of = p /\ visit[v].at = "send",
           kind = "verify" => Doing(v, "send")
    PROVE  LinksInv'
<1> USE NoVisitAssumption DEF LinksInv
<1>1. /\ link[k] = NoVisit /\ \A w \in Visit : visit[w] # NoVisit => visit[w].link # k
      /\ link' \in [Link -> Links \cup {NoVisit}] /\ link'[k] # NoVisit
      /\ link'[k].of = p /\ link'[k].kind = kind /\ link'[k].state = "open" /\ link'[k].spent = 0
      /\ \A l \in Link \ {k} : link'[l] = link[l]
  <2>1. PICK no \in BOOLEAN : no = FALSE
    OBVIOUS
  <2> DEFINE rec == [of |-> p, kind |-> kind, state |-> "open", spent |-> 0, mailed |-> no]
  <2>2. link' = [link EXCEPT ![k] = rec] /\ link[k] = NoVisit /\ \A w \in Visit : visit[w] # NoVisit => visit[w].link # k
    BY <2>1 DEF NewLink
  <2>3. rec \in Links /\ rec.of = p /\ rec.kind = kind /\ rec.state = "open" /\ rec.spent = 0
    BY MaxSpentAssumption DEF Links
  <2>4. rec # NoVisit
    BY <2>3
  <2> HIDE DEF rec
  <2> QED BY <2>2, <2>3, <2>4 DEF LinksTypeOK
<1>2. /\ visit'[v] = new /\ \A w \in Visit \ {v} : visit'[w] = visit[w]
      /\ visit' \in [Visit -> Visits \cup {NoVisit}] /\ new # NoVisit /\ visit \in [Visit -> Visits \cup {NoVisit}]
  BY DEF LinksTypeOK
<1>3. LinksTypeOK'
  BY <1>1, <1>2 DEF LinksTypeOK, Exists
<1>4. ASSUME NEW w \in Visit \ {v}, visit[w] # NoVisit, visit[w].of = p, p \in tidy PROVE FALSE
  BY <1>4 DEF Alone, OneVisit
<1>5. OneVisit'
  BY <1>2, <1>4 DEF OneVisit, Exists
<1>6. ReadLinks'
  <2>1. ASSUME NEW w \in Visit, NEW l \in Link, visit'[w] # NoVisit, visit'[w].link = l, link'[l] # NoVisit
        PROVE  /\ link'[l].of = visit'[w].of
               /\ visit'[w].at \in {"reset", "mark"} => link'[l].kind = "reset"
               /\ visit'[w].at = "reset" /\ visit'[w].of \in tidy => link'[l].spent = 0
    <3>1. CASE w = v
      BY <1>1, <1>2, <2>1, <3>1
    <3>2. CASE w # v
      BY <1>1, <1>2, <2>1, <3>2 DEF ReadLinks
    <3> QED BY <3>1, <3>2
  <2> QED BY <2>1 DEF ReadLinks
<1>7. SpentOnce'
  <2>1. ASSUME NEW l \in Link, link'[l] # NoVisit, link'[l].of \in tidy, link'[l].spent > 0
        PROVE  /\ link'[l].spent = 1 /\ link'[l].kind = "reset"
               /\ link'[l].state = "open" => Marking(l)'
    <3>1. l # k /\ link'[l] = link[l]
      BY <1>1, <2>1
    <3>2. Marking(l) => Marking(l)'
      BY <1>2 DEF Marking, Doing
    <3> QED BY <2>1, <3>1, <3>2 DEF SpentOnce
  <2> QED BY <2>1 DEF SpentOnce
<1>8. OneOpen'
  <2>1. p \in tidy /\ kind = "verify" => \A l \in Link : Is(l, "verify", "open") => link[l].of # p
    BY DEF OneOpen, Doing
  <2>2. ASSUME NEW i \in Link, NEW j \in Link, Is(i, "verify", "open")', Is(j, "verify", "open")', link'[i].of = link'[j].of, link'[i].of \in tidy
        PROVE  i = j
    <3>1. CASE i # k /\ j # k
      BY <1>1, <2>2, <3>1 DEF OneOpen, Is
    <3>2. CASE i = k \/ j = k
      BY <1>1, <2>1, <2>2, <3>2 DEF Is
    <3> QED BY <3>1, <3>2
  <2>3. ASSUME NEW w \in Visit, NEW l \in Link, Doing(w, "send")', visit'[w].of \in tidy, Is(l, "verify", "open")'
        PROVE  link'[l].of # visit'[w].of
    <3>1. w # v /\ Doing(w, "send")
      BY <1>2, <2>3 DEF Doing
    <3>2. CASE l = k
      BY <1>1, <1>2, <1>4, <2>3, <3>1, <3>2 DEF Doing
    <3>3. CASE l # k
      BY <1>1, <1>2, <2>3, <3>1, <3>3 DEF OneOpen, Is
    <3> QED BY <3>2, <3>3
  <2> QED BY <2>2, <2>3 DEF OneOpen
<1> QED BY <1>3, <1>5, <1>6, <1>7, <1>8

(* A verification link is made after the older ones were marked, a reset link beside the others. *)
LEMMA LinksMade ==
    ASSUME LinksInv, NEW v \in Visit, SendEmailVerification(v) \/ \E p \in Person : ForgotPassword(v, p)
    PROVE  LinksInv'
<1> USE NoVisitAssumption
<1>0. LinksTypeOK
  BY DEF LinksInv
<1>1. CASE SendEmailVerification(v)
  <2>1. visit[v] # NoVisit /\ visit[v].at = "send" /\ visit[v] \in Visits /\ Exists(visit[v].of) /\ UNCHANGED <<person, tidy>>
    BY <1>0, <1>1, Standing DEF SendEmailVerification, Doing
  <2>2. PICK k \in Link : NewLink(k, visit[v].of, "verify") /\ visit' = [visit EXCEPT ![v] = [at |-> "deliver", of |-> visit[v].of, link |-> k]]
    BY <1>1 DEF SendEmailVerification
  <2> DEFINE new == [at |-> "deliver", of |-> visit[v].of, link |-> k]
  <2>3. new \in Visits /\ new.at = "deliver" /\ new.of = visit[v].of /\ new.link = k
    BY <2>1 DEF Visits
  <2>4. visit' = [visit EXCEPT ![v] = new]
    BY <2>2
  <2>5. PICK p \in Person : p = visit[v].of
    BY <2>1 DEF Visits
  <2> HIDE DEF new
  <2> QED BY <2>1, <2>2, <2>3, <2>4, <2>5, LinkMade DEF Doing
<1>2. ASSUME NEW p \in Person, ForgotPassword(v, p) PROVE LinksInv'
  <2>1. PICK k \in Link : NewLink(k, p, "reset") /\ Start(v, "deliver", p, k)
    BY <1>2 DEF ForgotPassword
  <2> DEFINE new == [at |-> "deliver", of |-> p, link |-> k]
  <2>2. /\ visit[v] = NoVisit /\ visit' = [visit EXCEPT ![v] = new] /\ Alone(p) /\ Exists(p) /\ UNCHANGED <<person, tidy>>
        /\ new \in Visits /\ new.at = "deliver" /\ new.of = p /\ new.link = k
    BY <1>2, <2>1 DEF ForgotPassword, Start, Visits
  <2> HIDE DEF new
  <2> QED BY <2>1, <2>2, LinkMade
<1> QED BY <1>1, <1>2

(* A link sets a password: of a person with one request at a time, only one that has set none. *)
LEMMA LinkSpent ==
    ASSUME LinksInv, NEW v \in Visit, UpdatePasswordByLink(v)
    PROVE  LinksInv'
<1> USE NoVisitAssumption, MaxSpentAssumption DEF LinksInv
<1>k. PICK k \in Link \cup {NoVisit} : k = visit[v].link
  BY Standing DEF UpdatePasswordByLink, Doing, Visits
<1> DEFINE new == [visit[v] EXCEPT !.at = "mark"]
<1>0. /\ visit[v] # NoVisit /\ visit[v] \in Visits /\ visit[v].at = "reset" /\ Exists(visit[v].of) /\ UNCHANGED <<person, tidy>>
      /\ link' = [link EXCEPT ![k] = Spent(link[k])] /\ visit' = [visit EXCEPT ![v] = new]
  BY <1>k, Standing DEF UpdatePasswordByLink, Doing, Continue
<1>1. new \in Visits /\ new.of = visit[v].of /\ new.link = k /\ new.at = "mark" /\ new # NoVisit
  BY <1>0, <1>k DEF Visits
<1> HIDE DEF new
<1>2. /\ visit'[v] = new /\ \A w \in Visit \ {v} : visit'[w] = visit[w]
      /\ visit' \in [Visit -> Visits \cup {NoVisit}] /\ visit \in [Visit -> Visits \cup {NoVisit}]
  BY <1>0, <1>1 DEF LinksTypeOK
<1>3. \A l \in Link : /\ link'[l] \in Links \cup {NoVisit} /\ (link'[l] = NoVisit <=> link[l] = NoVisit)
                      /\ link[l] # NoVisit => /\ link'[l].of = link[l].of /\ link'[l].kind = link[l].kind /\ link'[l].state = link[l].state
                                              /\ link'[l].spent \in {link[l].spent, link[l].spent + 1} /\ link[l].spent \in Nat
                      /\ l # k => link'[l] = link[l]
  <2>1. ASSUME NEW l \in Link, l = k, link[l] # NoVisit, link[l].spent # MaxSpent
        PROVE  /\ link'[l] \in Links /\ link'[l].of = link[l].of /\ link'[l].kind = link[l].kind /\ link'[l].state = link[l].state
               /\ link'[l].spent = link[l].spent + 1 /\ link[l].spent \in Nat
    <3>1. link[l] \in Links /\ link'[l] = [link[l] EXCEPT !.spent = link[l].spent + 1]
      BY <1>0, <2>1 DEF LinksTypeOK, Spent
    <3> QED BY <2>1, <3>1 DEF Links
  <2>2. ASSUME NEW l \in Link, l # k \/ link[l] = NoVisit \/ link[l].spent = MaxSpent PROVE link'[l] = link[l]
    BY <1>0, <2>2 DEF LinksTypeOK, Spent
  <2>3. \A l \in Link : link[l] # NoVisit => link[l].spent \in Nat
    BY DEF LinksTypeOK, Links
  <2> QED BY <2>1, <2>2, <2>3 DEF LinksTypeOK
<1>4. LinksTypeOK'
  <2>1. link' \in [Link -> Links \cup {NoVisit}]
    BY <1>0, <1>3 DEF LinksTypeOK
  <2> QED BY <1>0, <1>2, <1>3, <2>1 DEF LinksTypeOK, Exists
<1>5. OneVisit'
  BY <1>0, <1>1, <1>2 DEF OneVisit
<1>6. ReadLinks'
  <2>1. ASSUME NEW w \in Visit, NEW l \in Link, visit'[w] # NoVisit, visit'[w].link = l, link'[l] # NoVisit
        PROVE  /\ link'[l].of = visit'[w].of
               /\ visit'[w].at \in {"reset", "mark"} => link'[l].kind = "reset"
               /\ visit'[w].at = "reset" /\ visit'[w].of \in tidy => link'[l].spent = 0
    <3>1. CASE w = v
      BY <1>0, <1>k, <1>1, <1>2, <1>3, <2>1, <3>1 DEF ReadLinks
    <3>2. CASE w # v
      <4>1. visit'[w] = visit[w] /\ link[l] # NoVisit /\ link[l].of = visit[w].of
        BY <1>2, <1>3, <2>1, <3>2 DEF ReadLinks
      <4>2. ASSUME l = k, visit[w].of \in tidy PROVE FALSE
        BY <1>0, <1>k, <2>1, <3>2, <4>1, <4>2 DEF ReadLinks, OneVisit
      <4> QED BY <1>0, <1>3, <2>1, <4>1, <4>2 DEF ReadLinks
    <3> QED BY <3>1, <3>2
  <2> QED BY <1>0, <2>1 DEF ReadLinks
<1>7. SpentOnce'
  <2>1. ASSUME NEW l \in Link, link'[l] # NoVisit, link'[l].of \in tidy, link'[l].spent > 0
        PROVE  /\ link'[l].spent = 1 /\ link'[l].kind = "reset"
               /\ link'[l].state = "open" => Marking(l)'
    <3>1. link[l] # NoVisit /\ link[l].of \in tidy /\ (Marking(l) => Marking(l)')
      BY <1>0, <1>1, <1>2, <1>3, <2>1 DEF Marking, Doing
    <3>2. CASE l = k
      <4>1. link[l].spent = 0 /\ link[l].kind = "reset"
        BY <1>0, <1>k, <3>1, <3>2 DEF ReadLinks
      <4>2. Marking(l)'
        BY <1>1, <1>2, <3>2 DEF Marking, Doing
      <4> QED BY <1>3, <2>1, <3>1, <4>1, <4>2
    <3>3. CASE l # k
      BY <1>3, <2>1, <3>1, <3>3 DEF SpentOnce
    <3> QED BY <3>2, <3>3
  <2> QED BY <1>0, <2>1 DEF SpentOnce
<1>8. OneOpen'
  <2>1. \A l \in Link : Is(l, "verify", "open")' => Is(l, "verify", "open") /\ link'[l].of = link[l].of
    BY <1>3 DEF Is
  <2>2. \A w \in Visit : Doing(w, "send")' => Doing(w, "send") /\ visit'[w] = visit[w]
    BY <1>1, <1>2 DEF Doing
  <2> QED BY <1>0, <2>1, <2>2 DEF OneOpen
<1> QED BY <1>4, <1>5, <1>6, <1>7, <1>8

(* Every step keeps the invariant of links, *)
LEMMA LinksNextInv == ASSUME LinksInv, [LinksNext]_linkVars PROVE LinksInv'
<1>1. CASE LinksNext
  BY <1>1, LinksEnd, VisitsBegin, VisitsEnd, AddressVerified, LinksMade, LinkSpent DEF LinksNext
<1>2. CASE UNCHANGED linkVars
  <2>1. LinksTypeOK /\ UNCHANGED <<person, link, visit, tidy>>
    BY <1>2 DEF LinksInv, linkVars
  <2> QED BY <2>1, Standing, LinksWane
<1> QED BY <1>1, <1>2

(* which is more than was promised. *)
LEMMA LinksWorkOnce == LinksInv => ResetOnce /\ NewestLinkOnly
<1> SUFFICES ASSUME LinksInv PROVE ResetOnce /\ NewestLinkOnly
  OBVIOUS
<1> USE DEF LinksInv
<1>1. ResetOnce
  <2>1. \A l \in Link : link[l] # NoVisit => link[l].spent \in Nat
    BY MaxSpentAssumption DEF LinksTypeOK, Links
  <2> QED BY <2>1 DEF SpentOnce, ResetOnce
<1>2. ASSUME NEW p \in tidy PROVE Cardinality(OpenLinks(p, "verify")) <= 1
  <2>1. \A j, k \in OpenLinks(p, "verify") : j = k
    BY DEF OneOpen, OpenLinks, Is
  <2>2. CASE OpenLinks(p, "verify") = {}
    BY <2>2, FS_EmptySet
  <2>3. CASE OpenLinks(p, "verify") # {}
    <3>1. PICK k : OpenLinks(p, "verify") = {k}
      BY <2>1, <2>3
    <3>2. Cardinality(OpenLinks(p, "verify")) = 1
      BY <3>1, FS_Singleton
    <3> QED BY <3>2
  <2> QED BY <2>2, <2>3
<1> QED BY <1>1, <1>2 DEF NewestLinkOnly

-----------------------------------------------------------------------------
(* Shoppers (ShopperSessions). *)

(* What a request has read is there. *)
Reads(t) ==
    /\ tab[t].at = "redeem" => tab[t].code \in Code /\ code[tab[t].code] # Nobody
    /\ tab[t].at = "rotate" => tab[t].session \in Login /\ session[tab[t].session] # Nobody /\ tab[t].turn \in 1..MaxTurn
    /\ tab[t].at = "login" => shopper[tab[t].of].password > 0
    /\ \A c \in tab[t].seen : code[c] # Nobody
AllRead == \A t \in Tab : tab[t] # Nobody => Reads(t)
(* A code that is open has set no password, and a token of no session was not exchanged. *)
OpenIsUnused ==
    /\ chosen \in [Code -> 0..1]
    /\ \A c \in Code : code[c] = Nobody \/ code[c].open => chosen[c] = 0
Untraded == \A s \in Login : session[s] = Nobody => \A n \in 1..MaxTurn : traded[s][n] = 0
ShopperInv == ShopperTypeOK /\ AllRead /\ OpenIsUnused /\ Untraded /\ TokenTradedOnce /\ LiveUnderThisPassword

(* An ended session issues no token. *)
NothingIssued ==
    \A s \in Login : session[s] # Nobody /\ ~session[s].live =>
          traded'[s] = traded[s] /\ session'[s].newest = session[s].newest /\ ~session'[s].live
ShopperStep == ShopperInv' /\ NothingIssued

(* No shopper, no code, no session. *)
LEMMA ShopperInitInv == ShopperInit => ShopperInv
<1> USE NobodyAssumption, MaxTurnAssumption, MaxChangeAssumption
<1> SUFFICES ASSUME ShopperInit PROVE ShopperInv
  OBVIOUS
<1> DEFINE first == [state |-> "none", password |-> 0]
<1>1. shopper = [p \in Shopper |-> first] /\ first \in Shoppers
  BY DEF ShopperInit, Shoppers
<1> HIDE DEF first
<1>2. ShopperTypeOK
  <2>1. [n \in 1..MaxTurn |-> 0] \in [1..MaxTurn -> 0..1]
    OBVIOUS
  <2> QED BY <1>1, <2>1 DEF ShopperInit, ShopperTypeOK
<1> QED BY <1>2 DEF ShopperInit, ShopperInv, AllRead, OpenIsUnused, Untraded, TokenTradedOnce, LiveUnderThisPassword, Usable

(* What stays there for the requests that stay. *)
Stays ==
    /\ \A s \in Login : session[s] # Nobody => session'[s] # Nobody
    /\ \A c \in Code : code[c] # Nobody => code'[c] # Nobody
    /\ \A p \in Shopper : shopper[p].password \in Nat /\ shopper'[p].password \in Nat /\ shopper'[p].password >= shopper[p].password

(* What requests have read stays there, if it stays there for one. *)
LEMMA ReadsStay ==
    ASSUME ShopperTypeOK, AllRead, Stays, NEW t, tab' \in [Tab -> Tabs \cup {Nobody}],
           \A v \in Tab \ {t} : tab'[v] = tab[v], t \in Tab /\ tab'[t] # Nobody => Reads(t)'
    PROVE  AllRead'
<1>1. ASSUME NEW v \in Tab \ {t}, tab'[v] # Nobody PROVE Reads(v)'
  <2>1. tab'[v] = tab[v] /\ Reads(v) /\ tab[v] \in Tabs
    BY <1>1 DEF AllRead, ShopperTypeOK
  <2>2. tab[v].of \in Shopper /\ tab[v].seen \subseteq Code
    BY <2>1 DEF Tabs
  <2> QED BY <2>1, <2>2 DEF Reads, Stays
<1> QED BY <1>1 DEF AllRead

(* What a request is to have read. *)
HasRead(new) ==
    new # Nobody =>
        /\ new.at = "redeem" => new.code \in Code /\ code[new.code] # Nobody
        /\ new.at = "rotate" => new.session \in Login /\ session[new.session] # Nobody /\ new.turn \in 1..MaxTurn
        /\ new.at = "login" => shopper[new.of].password > 0
        /\ \A c \in new.seen : code[c] # Nobody
SamePasswords == shopper' \in [Shopper -> Shoppers] /\ \A p \in Shopper : shopper'[p].password = shopper[p].password

(* Only requests and shoppers change, and no password. *)
LEMMA TabMoves ==
    ASSUME ShopperInv, NEW t, NEW new \in Tabs \cup {Nobody}, tab' = tab \/ (tab' = [tab EXCEPT ![t] = new] /\ HasRead(new)),
           SamePasswords, UNCHANGED <<session, code, traded, chosen>>
    PROVE  ShopperStep
<1> USE DEF ShopperInv
<1>1. tab' \in [Tab -> Tabs \cup {Nobody}] /\ \A v \in Tab : tab'[v] = tab[v] \/ (v = t /\ tab'[v] = new /\ HasRead(new))
  BY DEF ShopperTypeOK
<1>2. ShopperTypeOK'
  BY <1>1 DEF ShopperTypeOK, SamePasswords
<1>3. ASSUME NEW v \in Tab, tab'[v] # Nobody PROVE Reads(v)'
  <2>1. CASE tab'[v] = tab[v]
    <3>1. tab[v] \in Tabs /\ Reads(v)
      BY <1>3, <2>1 DEF AllRead, ShopperTypeOK
    <3>2. tab[v].of \in Shopper
      BY <3>1 DEF Tabs
    <3> QED BY <2>1, <3>1, <3>2 DEF Reads, SamePasswords
  <2>2. CASE tab'[v] = new /\ HasRead(new)
    <3>1. new.of \in Shopper
      BY <1>3, <2>2 DEF Tabs
    <3> QED BY <1>3, <2>2, <3>1 DEF Reads, HasRead, SamePasswords
  <2> QED BY <1>1, <2>1, <2>2
<1>4. AllRead'
  BY <1>3 DEF AllRead
<1>6. OpenIsUnused' /\ Untraded' /\ TokenTradedOnce'
  BY DEF OpenIsUnused, Untraded, TokenTradedOnce
<1>7. LiveUnderThisPassword'
  BY DEF LiveUnderThisPassword, Usable, ShopperTypeOK, Sessions, SamePasswords
<1>8. NothingIssued
  BY DEF NothingIssued
<1> QED BY <1>2, <1>4, <1>6, <1>7, <1>8 DEF ShopperStep

(* One session ends or expires. *)
LEMMA SessionFades ==
    ASSUME ShopperInv, NEW s \in Login, session[s] # Nobody, NEW new \in Sessions, session' = [session EXCEPT ![s] = new],
           new.of = session[s].of, new.newest = session[s].newest, new.since = session[s].since,
           new.live => session[s].live, new.expired \/ ~session[s].expired, UNCHANGED <<shopper, code, tab, traded, chosen>>
    PROVE  ShopperStep
<1> USE NobodyAssumption DEF ShopperInv
<1>1. /\ session' \in [Login -> Sessions \cup {Nobody}] /\ session'[s] = new /\ new # Nobody
      /\ \A r \in Login \ {s} : session'[r] = session[r]
  BY DEF ShopperTypeOK
<1>2. ShopperTypeOK'
  BY <1>1 DEF ShopperTypeOK
<1>3. AllRead'
  BY <1>1 DEF AllRead, Reads
<1>4. OpenIsUnused' /\ Untraded' /\ TokenTradedOnce'
  BY <1>1 DEF OpenIsUnused, Untraded, TokenTradedOnce
<1>5. LiveUnderThisPassword'
  BY <1>1 DEF LiveUnderThisPassword, Usable
<1>6. NothingIssued
  BY <1>1 DEF NothingIssued
<1> QED BY <1>2, <1>3, <1>4, <1>5, <1>6 DEF ShopperStep

(* Logout, expiry, and the end of a session whose old token shows up. *)
LEMMA SessionsFade ==
    ASSUME ShopperInv, NEW s \in Login, LogoutShopper(s) \/ ExpireSession(s) \/ \E n \in 0..MaxTurn : ReuseToken(s, n)
    PROVE  ShopperStep
<1>1. session[s] # Nobody /\ session[s] \in Sessions /\ UNCHANGED <<shopper, code, tab, traded, chosen>>
  BY DEF LogoutShopper, ExpireSession, ReuseToken, Usable, ShopperInv, ShopperTypeOK
<1>2. PICK yes \in BOOLEAN : yes = TRUE
  OBVIOUS
<1>3. PICK no \in BOOLEAN : no = FALSE
  OBVIOUS
<1>4. CASE session' = [session EXCEPT ![s].live = FALSE]
  <2> DEFINE new == [session[s] EXCEPT !.live = no]
  <2>1. session' = [session EXCEPT ![s] = new]
    BY <1>3, <1>4
  <2>2. /\ new \in Sessions /\ new.of = session[s].of /\ new.newest = session[s].newest /\ new.since = session[s].since
        /\ new.live = no /\ new.expired = session[s].expired
    BY <1>1 DEF Sessions
  <2> HIDE DEF new
  <2>3. (new.live => session[s].live) /\ (new.expired \/ ~session[s].expired)
    BY <1>3, <2>2
  <2> QED BY <1>1, <2>1, <2>2, <2>3, SessionFades
<1>5. CASE session' = [session EXCEPT ![s].expired = TRUE]
  <2> DEFINE new == [session[s] EXCEPT !.expired = yes]
  <2>1. session' = [session EXCEPT ![s] = new]
    BY <1>2, <1>5
  <2>2. /\ new \in Sessions /\ new.of = session[s].of /\ new.newest = session[s].newest /\ new.since = session[s].since
        /\ new.live = session[s].live /\ new.expired = yes
    BY <1>1 DEF Sessions
  <2> HIDE DEF new
  <2>3. (new.live => session[s].live) /\ (new.expired \/ ~session[s].expired)
    BY <1>2, <2>2
  <2> QED BY <1>1, <2>1, <2>2, <2>3, SessionFades
<1> QED BY <1>4, <1>5 DEF LogoutShopper, ExpireSession, ReuseToken

(* Steps of requests that read or close codes. *)
LEMMA TabsMove ==
    ASSUME ShopperInv,
           \/ \E p \in Shopper : DeleteShopper(p)
           \/ \E t \in Tab, p \in Shopper : RegisterShopper(t, p) \/ ForgotShopperPassword(t, p) \/ LoginShopper(t, p)
           \/ \E t \in Tab, c \in Code : SetPassword(t, c)
           \/ \E t \in Tab, s \in Login : RefreshShopper(t, s)
           \/ \E t \in Tab : CloseCodes(t) \/ GiveUp(t)
    PROVE  ShopperStep
<1> USE MaxTurnAssumption, NobodyAssumption
<1>0. ShopperTypeOK
  BY DEF ShopperInv
<1>1. ASSUME NEW p \in Shopper, NEW state \in {"here", "deleted"}, shopper' = [shopper EXCEPT ![p].state = state]
      PROVE  SamePasswords
  <2> DEFINE new == [shopper[p] EXCEPT !.state = state]
  <2>1. new \in Shoppers /\ new.password = shopper[p].password /\ shopper' = [shopper EXCEPT ![p] = new]
    BY <1>0, <1>1 DEF ShopperTypeOK, Shoppers
  <2> HIDE DEF new
  <2> QED BY <1>0, <2>1 DEF ShopperTypeOK, SamePasswords
<1>a. shopper' = shopper => SamePasswords
  BY <1>0 DEF ShopperTypeOK, SamePasswords
<1>2. ASSUME NEW p \in Shopper, DeleteShopper(p) PROVE ShopperStep
  <2>1. tab' = tab /\ UNCHANGED <<session, code, traded, chosen>> /\ shopper' = [shopper EXCEPT ![p].state = "deleted"]
    BY <1>2 DEF DeleteShopper
  <2> QED BY <1>1, <2>1, TabMoves
<1>3. ASSUME NEW t \in Tab, NEW p \in Shopper, RegisterShopper(t, p) \/ ForgotShopperPassword(t, p) \/ LoginShopper(t, p) PROVE ShopperStep
  <2>1. PICK at \in {"send", "login"} : Open(t, at, p) /\ (at = "login" => shopper[p].password > 0)
    BY <1>3 DEF RegisterShopper, ForgotShopperPassword, LoginShopper
  <2>2. SamePasswords
    BY <1>1, <1>a, <1>3 DEF RegisterShopper, ForgotShopperPassword, LoginShopper
  <2>3. UNCHANGED <<session, code, traded, chosen>>
    BY <1>3 DEF RegisterShopper, ForgotShopperPassword, LoginShopper
  <2> DEFINE new == [at |-> at, of |-> p, session |-> Nobody, code |-> Nobody, seen |-> {}, turn |-> 0]
  <2>4. tab' = [tab EXCEPT ![t] = new] /\ new \in Tabs /\ new.at = at /\ new.of = p /\ new.seen = {}
    BY <2>1 DEF Open, Tabs
  <2> HIDE DEF new
  <2> QED BY <2>1, <2>2, <2>3, <2>4, TabMoves DEF HasRead
<1>4. ASSUME NEW t \in Tab, NEW c \in Code, SetPassword(t, c) PROVE ShopperStep
  <2>1. code[c] # Nobody /\ code[c] \in Codes /\ code[c].of \in Shopper
    BY <1>0, <1>4 DEF SetPassword, ShopperTypeOK, Codes
  <2> DEFINE new == [at |-> "redeem", of |-> code[c].of, session |-> Nobody, code |-> c, seen |-> {}, turn |-> 0]
  <2>2. tab' = [tab EXCEPT ![t] = new] /\ new \in Tabs /\ new.at = "redeem" /\ new.code = c /\ new.seen = {}
    BY <1>4, <2>1 DEF SetPassword, Tabs
  <2>3. UNCHANGED <<shopper, session, code, traded, chosen>>
    BY <1>4 DEF SetPassword
  <2> HIDE DEF new
  <2> QED BY <1>a, <2>1, <2>2, <2>3, TabMoves DEF HasRead
<1>5. ASSUME NEW t \in Tab, NEW s \in Login, RefreshShopper(t, s) PROVE ShopperStep
  <2>1. session[s] # Nobody /\ session[s] \in Sessions /\ session[s].of \in Shopper /\ session[s].newest \in 1..MaxTurn
    BY <1>0, <1>5 DEF RefreshShopper, Usable, ShopperTypeOK, Sessions
  <2> DEFINE new == [at |-> "rotate", of |-> session[s].of, session |-> s, code |-> Nobody, seen |-> {}, turn |-> session[s].newest]
  <2>2. /\ tab' = [tab EXCEPT ![t] = new] /\ new \in Tabs /\ new.at = "rotate" /\ new.session = s /\ new.seen = {}
        /\ new.turn = session[s].newest
    BY <1>5, <2>1 DEF RefreshShopper, Tabs
  <2>3. UNCHANGED <<shopper, session, code, traded, chosen>>
    BY <1>5 DEF RefreshShopper
  <2> HIDE DEF new
  <2> QED BY <1>a, <2>1, <2>2, <2>3, TabMoves DEF HasRead
<1>6. ASSUME NEW t \in Tab, CloseCodes(t) PROVE ShopperStep
  <2> DEFINE new == [tab[t] EXCEPT !.seen = OpenCodes(tab[t].of)]
  <2>1. tab[t] # Nobody /\ tab[t] \in Tabs /\ tab[t].at = "send" /\ UNCHANGED <<shopper, session, code, traded, chosen>>
    BY <1>0, <1>6 DEF CloseCodes, On, ShopperTypeOK
  <2>2. OpenCodes(tab[t].of) \in SUBSET Code /\ \A c \in OpenCodes(tab[t].of) : code[c] # Nobody
    BY DEF OpenCodes
  <2>3. tab' = [tab EXCEPT ![t] = new] /\ new \in Tabs /\ new.at = "send" /\ new.seen = OpenCodes(tab[t].of)
    BY <1>6, <2>1, <2>2 DEF CloseCodes, Tabs
  <2> HIDE DEF new
  <2>4. HasRead(new) /\ SamePasswords
    BY <1>a, <2>1, <2>2, <2>3 DEF HasRead
  <2> QED BY <2>1, <2>3, <2>4, TabMoves
<1>7. ASSUME NEW t \in Tab, GiveUp(t) PROVE ShopperStep
  BY <1>a, <1>7, TabMoves DEF GiveUp, Shut, HasRead
<1> QED BY <1>2, <1>3, <1>4, <1>5, <1>6, <1>7

(* A new code has set no password. *)
LEMMA CodeInserted ==
    ASSUME ShopperInv, NEW t \in Tab, InsertCode(t)
    PROVE  ShopperStep
<1> USE NobodyAssumption DEF ShopperInv
<1>0. tab[t] # Nobody /\ tab[t] \in Tabs /\ Reads(t) /\ UNCHANGED <<shopper, session, traded, chosen>> /\ tab' = [tab EXCEPT ![t] = Nobody]
  BY DEF InsertCode, On, Shut, ShopperTypeOK, AllRead
<1>1. PICK p \in Shopper : p = tab[t].of
  BY <1>0 DEF Tabs
<1>2. PICK c \in Code : /\ code[c] = Nobody
                        /\ code' = [d \in Code |-> IF d = c THEN [of |-> p, open |-> TRUE]
                                                  ELSE IF d \in tab[t].seen THEN [code[d] EXCEPT !.open = FALSE] ELSE code[d]]
  BY <1>1 DEF InsertCode
<1>3. PICK yes \in BOOLEAN : yes = TRUE
  OBVIOUS
<1>4. PICK no \in BOOLEAN : no = FALSE
  OBVIOUS
<1>5. code'[c] \in Codes
  <2>1. code'[c] = [of |-> p, open |-> yes]
    BY <1>2, <1>3
  <2> QED BY <2>1 DEF Codes
<1>6. ASSUME NEW d \in Code \ {c}
      PROVE  code'[d] \in Codes \cup {Nobody} /\ (code'[d] = Nobody => code[d] = Nobody) /\ (code[d] # Nobody => code'[d] # Nobody)
             /\ (code'[d] # Nobody /\ code'[d].open => code[d].open)
  <2>1. CASE d \in tab[t].seen
    <3>1. code[d] # Nobody /\ code[d] \in Codes
      BY <1>0, <2>1 DEF Reads, ShopperTypeOK
    <3> DEFINE new == [code[d] EXCEPT !.open = no]
    <3>2. code'[d] = new
      BY <1>2, <1>4, <2>1
    <3>3. new \in Codes /\ new.open = no
      BY <3>1 DEF Codes
    <3> HIDE DEF new
    <3> QED BY <1>4, <3>1, <3>2, <3>3
  <2>2. CASE d \notin tab[t].seen
    BY <1>2, <2>2 DEF ShopperTypeOK
  <2> QED BY <2>1, <2>2
<1>7. code' \in [Code -> Codes \cup {Nobody}]
  <2>1. \A d \in Code : code'[d] \in Codes \cup {Nobody}
    BY <1>5, <1>6
  <2> QED BY <1>2, <2>1
<1>8. tab' \in [Tab -> Tabs \cup {Nobody}] /\ tab'[t] = Nobody /\ \A v \in Tab \ {t} : tab'[v] = tab[v]
  BY <1>0 DEF ShopperTypeOK
<1>9. ShopperTypeOK'
  BY <1>0, <1>7, <1>8 DEF ShopperTypeOK
<1>10. Stays
  BY <1>0, <1>2, <1>6, MaxChangeAssumption DEF Stays, ShopperTypeOK, Shoppers
<1>11. AllRead'
  BY <1>8, <1>10, ReadsStay
<1>12. OpenIsUnused'
  BY <1>0, <1>2, <1>5, <1>6 DEF OpenIsUnused
<1>13. Untraded' /\ TokenTradedOnce' /\ LiveUnderThisPassword' /\ NothingIssued
  BY <1>0 DEF Untraded, TokenTradedOnce, LiveUnderThisPassword, Usable, NothingIssued
<1> QED BY <1>9, <1>11, <1>12, <1>13 DEF ShopperStep

(* A session is issued, and the older ones of its shopper stay or end. *)
LEMMA SessionIssued ==
    ASSUME ShopperInv, NEW p \in Shopper, NEW live \in BOOLEAN, NEW password \in 1..MaxChange, IssueSession(p, live, password),
           UNCHANGED traded
    PROVE  /\ session' \in [Login -> Sessions \cup {Nobody}]
           /\ \A s \in Login : session[s] # Nobody => session'[s] # Nobody
           /\ \A s \in Login : session'[s] # Nobody => session'[s].since > 0
           /\ \A s \in Login : Usable(s)' =>
                 \/ session'[s].of = p /\ session'[s].since = password
                 \/ session'[s] = session[s] /\ session[s].of # p
                 \/ live /\ Usable(s) /\ session'[s].of = p /\ session[s].of = p /\ session'[s].since = session[s].since
           /\ Untraded' /\ TokenTradedOnce' /\ NothingIssued
<1> USE NobodyAssumption, MaxTurnAssumption DEF ShopperInv
<1>1. PICK s \in Login :
        /\ session[s] = Nobody
        /\ session' = [r \in Login |->
               IF r = s THEN [of |-> p, newest |-> 1, live |-> TRUE, expired |-> FALSE, since |-> password]
               ELSE IF r \in SessionsOf(p) THEN [session[r] EXCEPT !.live = @ /\ live] ELSE session[r]]
  BY DEF IssueSession
<1>2. PICK yes \in BOOLEAN : yes = TRUE
  OBVIOUS
<1>3. PICK no \in BOOLEAN : no = FALSE
  OBVIOUS
<1>4. session'[s] \in Sessions /\ session'[s].of = p /\ session'[s].newest = 1 /\ session'[s].since = password
  <2>1. session'[s] = [of |-> p, newest |-> 1, live |-> yes, expired |-> no, since |-> password]
    BY <1>1, <1>2, <1>3
  <2>2. password \in 0..MaxChange /\ 1 \in 1..MaxTurn
    BY MaxChangeAssumption
  <2> QED BY <2>1, <2>2 DEF Sessions
<1>5. ASSUME NEW r \in Login \ {s}, r \in SessionsOf(p)
      PROVE  /\ session'[r] \in Sessions /\ session[r] # Nobody /\ session'[r].of = p /\ session[r].of = p
             /\ session'[r].newest = session[r].newest /\ session'[r].since = session[r].since
             /\ session'[r].expired = session[r].expired /\ (session'[r].live => session[r].live /\ live)
  <2>1. session[r] # Nobody /\ session[r] \in Sessions /\ session[r].of = p /\ session[r].live \in BOOLEAN
    BY <1>5 DEF SessionsOf, ShopperTypeOK, Sessions
  <2>2. PICK goes \in BOOLEAN : goes = (session[r].live /\ live)
    BY <2>1
  <2> DEFINE new == [session[r] EXCEPT !.live = goes]
  <2>3. session'[r] = new
    BY <1>1, <1>5, <2>2
  <2>4. new \in Sessions /\ new.of = session[r].of /\ new.newest = session[r].newest /\ new.since = session[r].since
        /\ new.expired = session[r].expired /\ new.live = goes
    BY <2>1 DEF Sessions
  <2> HIDE DEF new
  <2> QED BY <2>1, <2>2, <2>3, <2>4
<1>6. \A r \in Login \ {s} : r \notin SessionsOf(p) => session'[r] = session[r] /\ (session[r] # Nobody => session[r].of # p)
  BY <1>1 DEF SessionsOf
<1>7. session' \in [Login -> Sessions \cup {Nobody}]
  <2>1. \A r \in Login : session'[r] \in Sessions \cup {Nobody}
    BY <1>4, <1>5, <1>6 DEF ShopperTypeOK
  <2> QED BY <1>1, <2>1
<1>8. \A r \in Login : session[r] # Nobody => session'[r] # Nobody
  BY <1>1, <1>5, <1>6
<1>9. \A r \in Login : session'[r] # Nobody => session'[r].since > 0
  BY <1>4, <1>5, <1>6 DEF ShopperTypeOK
<1>10. ASSUME NEW r \in Login, Usable(r)'
       PROVE  \/ session'[r].of = p /\ session'[r].since = password
              \/ session'[r] = session[r] /\ session[r].of # p
              \/ live /\ Usable(r) /\ session'[r].of = p /\ session[r].of = p /\ session'[r].since = session[r].since
  <2>1. CASE r = s
    BY <1>4, <2>1
  <2>2. CASE r # s /\ r \in SessionsOf(p)
    BY <1>5, <1>10, <2>2 DEF Usable
  <2>3. CASE r # s /\ r \notin SessionsOf(p)
    BY <1>6, <1>10, <2>3 DEF Usable
  <2> QED BY <2>1, <2>2, <2>3
<1>11. Untraded'
  BY <1>8 DEF Untraded
<1>12. TokenTradedOnce'
  <2>1. ASSUME NEW r \in Login, session'[r] # Nobody, NEW n \in 1..MaxTurn
        PROVE  traded[r][n] = IF n < session'[r].newest THEN 1 ELSE 0
    <3>1. CASE r = s
      <4>1. traded[r][n] = 0
        BY <1>1, <3>1 DEF Untraded
      <4> QED BY <1>4, <3>1, <4>1
    <3>2. CASE r # s
      <4>1. session[r] # Nobody /\ session'[r].newest = session[r].newest
        BY <1>5, <1>6, <2>1, <3>2
      <4> QED BY <4>1 DEF TokenTradedOnce
    <3> QED BY <3>1, <3>2
  <2> QED BY <2>1 DEF TokenTradedOnce
<1>13. NothingIssued
  BY <1>1, <1>5, <1>6 DEF NothingIssued
<1> QED BY <1>7, <1>8, <1>9, <1>10, <1>11, <1>12, <1>13

(* A session is issued under the password that was compared, or not at all. *)
LEMMA SignedIn ==
    ASSUME ShopperInv, NEW t \in Tab, SignIn(t)
    PROVE  ShopperStep
<1> USE NobodyAssumption DEF ShopperInv
<1>0. tab[t] # Nobody /\ tab[t] \in Tabs /\ tab[t].at = "login" /\ Reads(t) /\ UNCHANGED <<shopper, code, traded, chosen>> /\ tab' = [tab EXCEPT ![t] = Nobody]
  BY DEF SignIn, On, Shut, ShopperTypeOK, AllRead
<1>1. PICK p \in Shopper : p = tab[t].of
  BY <1>0 DEF Tabs
<1>2. PICK password \in 1..MaxChange : password = shopper[p].password
  BY <1>0, <1>1, MaxChangeAssumption DEF Reads, ShopperTypeOK, Shoppers
<1>3. PICK live \in BOOLEAN : live = TRUE
  OBVIOUS
<1>4. IssueSession(p, live, password)
  BY <1>1, <1>2, <1>3 DEF SignIn
<1>5. /\ session' \in [Login -> Sessions \cup {Nobody}]
      /\ \A s \in Login : session[s] # Nobody => session'[s] # Nobody
      /\ \A s \in Login : session'[s] # Nobody => session'[s].since > 0
      /\ \A s \in Login : Usable(s)' =>
            \/ session'[s].of = p /\ session'[s].since = password
            \/ session'[s] = session[s] /\ session[s].of # p
            \/ live /\ Usable(s) /\ session'[s].of = p /\ session[s].of = p /\ session'[s].since = session[s].since
      /\ Untraded' /\ TokenTradedOnce' /\ NothingIssued
  BY <1>0, <1>4, SessionIssued
<1>6. tab' \in [Tab -> Tabs \cup {Nobody}] /\ tab'[t] = Nobody /\ \A v \in Tab \ {t} : tab'[v] = tab[v]
  BY <1>0 DEF ShopperTypeOK
<1>7. ShopperTypeOK'
  BY <1>0, <1>5, <1>6 DEF ShopperTypeOK
<1>8. Stays
  BY <1>0, <1>5, MaxChangeAssumption DEF Stays, ShopperTypeOK, Shoppers
<1>9. AllRead'
  BY <1>6, <1>8, ReadsStay
<1>10. OpenIsUnused'
  BY <1>0 DEF OpenIsUnused
<1>11. LiveUnderThisPassword'
  BY <1>0, <1>2, <1>5 DEF LiveUnderThisPassword, Usable
<1> QED BY <1>5, <1>7, <1>9, <1>10, <1>11 DEF ShopperStep

(* A code is spent in the transaction that sets the password and ends all sessions: open is checked there again. *)
LEMMA CodeRedeemed ==
    ASSUME ShopperInv, NEW t \in Tab, RedeemCode(t)
    PROVE  ShopperStep
<1> USE NobodyAssumption DEF ShopperInv
<1>0. /\ tab[t] # Nobody /\ tab[t] \in Tabs /\ tab[t].at = "redeem" /\ Reads(t) /\ UNCHANGED traded /\ tab' = [tab EXCEPT ![t] = Nobody]
      /\ ChoosePassword(t, TRUE) /\ code[tab[t].code].open
  BY DEF RedeemCode, ChoosePassword, On, Shut, ShopperTypeOK, AllRead
<1>1. PICK p \in Shopper : p = tab[t].of
  BY <1>0 DEF Tabs
<1>2. PICK c \in Code : c = tab[t].code /\ code[c] # Nobody /\ code[c].open
  BY <1>0 DEF Reads
<1>3. PICK password \in 1..MaxChange : password = shopper[p].password + 1
  BY <1>0, <1>1, MaxChangeAssumption DEF ChoosePassword, ShopperTypeOK, Shoppers
<1>4. PICK no \in BOOLEAN : no = FALSE
  OBVIOUS
<1>5. IssueSession(p, no, password)
  BY <1>0, <1>1, <1>3, <1>4 DEF ChoosePassword
<1>6. /\ session' \in [Login -> Sessions \cup {Nobody}]
      /\ \A s \in Login : session[s] # Nobody => session'[s] # Nobody
      /\ \A s \in Login : session'[s] # Nobody => session'[s].since > 0
      /\ \A s \in Login : Usable(s)' =>
            \/ session'[s].of = p /\ session'[s].since = password
            \/ session'[s] = session[s] /\ session[s].of # p
            \/ no /\ Usable(s) /\ session'[s].of = p /\ session[s].of = p /\ session'[s].since = session[s].since
      /\ Untraded' /\ TokenTradedOnce' /\ NothingIssued
  BY <1>0, <1>5, SessionIssued
<1>7. tab' \in [Tab -> Tabs \cup {Nobody}] /\ tab'[t] = Nobody /\ \A v \in Tab \ {t} : tab'[v] = tab[v]
  BY <1>0 DEF ShopperTypeOK
<1>8. /\ shopper' \in [Shopper -> Shoppers] /\ shopper'[p].password = password
      /\ \A q \in Shopper \ {p} : shopper'[q] = shopper[q]
  <2> DEFINE new == [shopper[p] EXCEPT !.password = password]
  <2>1. shopper' = [shopper EXCEPT ![p] = new]
    BY <1>0, <1>1, <1>3 DEF ChoosePassword
  <2>2. new \in Shoppers /\ new.password = password
    BY MaxChangeAssumption DEF ShopperTypeOK, Shoppers
  <2> HIDE DEF new
  <2> QED BY <2>1, <2>2 DEF ShopperTypeOK
<1>9. /\ code' \in [Code -> Codes \cup {Nobody}] /\ code'[c] # Nobody /\ ~code'[c].open
      /\ \A d \in Code \ {c} : code'[d] = code[d]
  <2> DEFINE new == [code[c] EXCEPT !.open = no]
  <2>1. code' = [code EXCEPT ![c] = new]
    BY <1>0, <1>2, <1>4 DEF ChoosePassword
  <2>2. new \in Codes /\ new.open = no
    BY <1>2 DEF ShopperTypeOK, Codes
  <2> HIDE DEF new
  <2> QED BY <1>4, <2>1, <2>2 DEF ShopperTypeOK
<1>10. chosen' \in [Code -> 0..1] /\ \A d \in Code \ {c} : chosen'[d] = chosen[d]
  <2>1. chosen' = [chosen EXCEPT ![c] = chosen[c] + 1]
    BY <1>0, <1>2 DEF ChoosePassword
  <2> QED BY <1>2, <2>1 DEF OpenIsUnused
<1>11. ShopperTypeOK'
  BY <1>0, <1>6, <1>7, <1>8, <1>9 DEF ShopperTypeOK
<1>12. Stays
  <2>1. \A q \in Shopper : shopper[q].password \in Nat /\ shopper'[q].password \in Nat
    BY <1>8, MaxChangeAssumption DEF ShopperTypeOK, Shoppers
  <2>2. \A q \in Shopper : shopper'[q].password >= shopper[q].password
    BY <1>3, <1>8, <2>1
  <2> QED BY <1>6, <1>9, <2>1, <2>2 DEF Stays
<1>13. AllRead'
  BY <1>7, <1>12, ReadsStay
<1>14. OpenIsUnused'
  BY <1>9, <1>10 DEF OpenIsUnused
<1>15. LiveUnderThisPassword'
  <2>1. ASSUME NEW s \in Login, Usable(s)' PROVE session'[s].since = shopper'[session'[s].of].password
    <3>1. CASE session'[s].of = p /\ session'[s].since = password
      BY <1>8, <3>1
    <3>2. CASE session'[s] = session[s] /\ session[s].of # p
      <4>1. Usable(s) /\ session[s].of \in Shopper
        BY <2>1, <3>2 DEF Usable, ShopperTypeOK, Sessions
      <4> QED BY <1>8, <3>2, <4>1 DEF LiveUnderThisPassword
    <3> QED BY <1>4, <1>6, <2>1, <3>1, <3>2
  <2> QED BY <2>1 DEF LiveUnderThisPassword
<1> QED BY <1>6, <1>11, <1>13, <1>14, <1>15 DEF ShopperStep

(* A token is traded where it is still the newest of a live session: the compare-and-set of refresh. *)
LEMMA TokenRotated ==
    ASSUME ShopperInv, NEW t \in Tab, RotateToken(t)
    PROVE  ShopperStep
<1> USE NobodyAssumption DEF ShopperInv
<1>0. /\ tab[t] # Nobody /\ tab[t].at = "rotate" /\ Reads(t) /\ UNCHANGED <<shopper, code, chosen>> /\ tab' = [tab EXCEPT ![t] = Nobody]
      /\ Exchange(t) /\ session[tab[t].session].live /\ session[tab[t].session].newest = tab[t].turn
  BY DEF RotateToken, Exchange, On, Shut, ShopperTypeOK, AllRead
<1>1. PICK s \in Login : s = tab[t].session /\ session[s] # Nobody
  BY <1>0 DEF Reads
<1>2. PICK n \in 1..MaxTurn : n = tab[t].turn /\ n = session[s].newest
  BY <1>0, <1>1 DEF Reads
<1>3. PICK m \in 1..MaxTurn : m = n + 1
  BY <1>0, <1>1, <1>2, MaxTurnAssumption DEF Exchange
<1>4. /\ session' \in [Login -> Sessions \cup {Nobody}] /\ session'[s] # Nobody /\ session'[s].newest = m
      /\ session'[s].since = session[s].since /\ session'[s].of = session[s].of
      /\ session'[s].live = session[s].live /\ session'[s].expired = session[s].expired
      /\ \A r \in Login \ {s} : session'[r] = session[r]
  <2> DEFINE new == [session[s] EXCEPT !.newest = m]
  <2>1. session' = [session EXCEPT ![s] = new]
    BY <1>0, <1>1, <1>2, <1>3 DEF Exchange
  <2>2. /\ new \in Sessions /\ new.newest = m /\ new.since = session[s].since /\ new.of = session[s].of
        /\ new.live = session[s].live /\ new.expired = session[s].expired
    BY <1>1 DEF ShopperTypeOK, Sessions
  <2> HIDE DEF new
  <2> QED BY <2>1, <2>2 DEF ShopperTypeOK
<1>5. /\ traded' \in [Login -> [1..MaxTurn -> 0..1]] /\ traded'[s][n] = 1
      /\ \A j \in 1..MaxTurn \ {n} : traded'[s][j] = traded[s][j]
      /\ \A r \in Login \ {s} : traded'[r] = traded[r]
  <2> DEFINE new == [traded[s] EXCEPT ![n] = traded[s][n] + 1]
  <2>1. traded' = [traded EXCEPT ![s] = new]
    BY <1>0, <1>1, <1>2 DEF Exchange
  <2>2. traded[s] \in [1..MaxTurn -> 0..1] /\ traded[s][n] = 0
    BY <1>1, <1>2, MaxTurnAssumption DEF ShopperTypeOK, TokenTradedOnce
  <2>3. new \in [1..MaxTurn -> 0..1] /\ new[n] = 1 /\ \A j \in 1..MaxTurn \ {n} : new[j] = traded[s][j]
    <3>1. new = [traded[s] EXCEPT ![n] = 1] /\ 1 \in 0..1
      BY <2>2
    <3>2. PICK D : D = 1..MaxTurn
      OBVIOUS
    <3>3. PICK B : B = 0..1
      OBVIOUS
    <3>4. traded[s] \in [D -> B] /\ n \in D /\ 1 \in B
      BY <2>2, <3>1, <3>2, <3>3
    <3> HIDE DEF new
    <3>5. new \in [D -> B] /\ new[n] = 1 /\ \A j \in D \ {n} : new[j] = traded[s][j]
      BY <3>1, <3>4
    <3> QED BY <3>2, <3>3, <3>5
  <2> HIDE DEF new
  <2> QED BY <2>1, <2>3 DEF ShopperTypeOK
<1>6. tab' \in [Tab -> Tabs \cup {Nobody}] /\ tab'[t] = Nobody /\ \A v \in Tab \ {t} : tab'[v] = tab[v]
  BY <1>0 DEF ShopperTypeOK
<1>7. ShopperTypeOK'
  BY <1>0, <1>1, <1>4, <1>5, <1>6 DEF ShopperTypeOK
<1>8. Stays
  BY <1>0, <1>4, MaxChangeAssumption DEF Stays, ShopperTypeOK, Shoppers
<1>9. AllRead'
  BY <1>6, <1>8, ReadsStay
<1>10. OpenIsUnused'
  BY <1>0 DEF OpenIsUnused
<1>11. Untraded'
  BY <1>1, <1>4, <1>5 DEF Untraded
<1>12. TokenTradedOnce'
  <2>1. ASSUME NEW r \in Login, session'[r] # Nobody, NEW j \in 1..MaxTurn
        PROVE  traded'[r][j] = IF j < session'[r].newest THEN 1 ELSE 0
    <3>1. CASE r # s
      BY <1>4, <1>5, <2>1, <3>1 DEF TokenTradedOnce
    <3>2. CASE r = s
      <4>1. j = n => traded'[s][j] = 1
        BY <1>5
      <4>2. j # n => traded'[s][j] = IF j < n THEN 1 ELSE 0
        BY <1>1, <1>2, <1>5 DEF TokenTradedOnce
      <4> QED BY <1>2, <1>3, <1>4, <3>2, <4>1, <4>2, MaxTurnAssumption
    <3> QED BY <3>1, <3>2
  <2> QED BY <2>1 DEF TokenTradedOnce
<1>13. LiveUnderThisPassword'
  BY <1>0, <1>1, <1>4 DEF LiveUnderThisPassword, Usable
<1>14. NothingIssued
  BY <1>0, <1>1, <1>4, <1>5 DEF NothingIssued
<1> QED BY <1>7, <1>9, <1>10, <1>11, <1>12, <1>13, <1>14 DEF ShopperStep

(* Every step keeps the invariant of shoppers, and ended sessions issue nothing, *)
LEMMA ShopperNextKeeps == ASSUME ShopperInv, [ShopperNext]_shopperVars PROVE ShopperStep
<1>1. CASE ShopperNext
  BY <1>1, SessionsFade, TabsMove, CodeInserted, CodeRedeemed, SignedIn, TokenRotated DEF ShopperNext
<1>2. CASE UNCHANGED shopperVars
  <2>1. UNCHANGED <<shopper, session, code, tab, traded, chosen>> /\ SamePasswords
    BY <1>2 DEF shopperVars, ShopperInv, ShopperTypeOK, SamePasswords
  <2> QED BY <2>1, TabMoves
<1> QED BY <1>1, <1>2

(* which is more than was promised. *)
LEMMA ShopperSecrets == ShopperInv => CodeOnce /\ TokenTradedOnce /\ LiveUnderThisPassword /\ ShopperTypeOK
  BY DEF ShopperInv, CodeOnce, OpenIsUnused

-----------------------------------------------------------------------------
(* Calls to providers (Outgoing). *)

(* An attempt is on its way for one call, and is one of those it has made. *)
InFlight ==
    /\ wire \in SUBSET (Caller \X (1..3))
    /\ \A c \in Caller, a \in 1..3 : <<c, a>> \in wire => send[c] # NoSend /\ a <= send[c].attempt
    /\ \A c \in Caller : CallAt(c, "pause") => send[c].attempt < send[c].kind.tries
(* What is not to be repeated is on its way, or was done, but not both. *)
Counted ==
    /\ done \in [Caller -> Nat]
    /\ \A c \in Caller : send[c] = NoSend => done[c] = 0
    /\ \A c \in Caller : send[c] # NoSend /\ send[c].kind.does = "act" => done[c] <= IF <<c, 1>> \in wire THEN 0 ELSE 1
    /\ \A c \in Caller : CallAt(c, "ok") => done[c] > 0
(* The provider has a key of every charge it made. *)
Keyed == charged \in [Thing -> Nat] /\ \A t \in Thing : charged[t] = IF <<t>> \in seen THEN 1 ELSE 0
(* Nobody puts what somebody removes. *)
Puts(p, t) == send[p] # NoSend /\ send[p].kind.does = "put" /\ send[p].thing = t
Removes(c, t) == send[c] # NoSend /\ send[c].kind.does = "remove" /\ send[c].thing = t
Removed ==
    \A c \in Caller, t \in Thing : Removes(c, t) =>
        /\ \E p \in Caller : Puts(p, t)
        /\ \A p \in Caller : Puts(p, t) => CallEnded(p)
        /\ t \notin late => \A p \in Caller, a \in 1..3 : Puts(p, t) => <<p, a>> \notin wire
        /\ t \notin late /\ CallAt(c, "ok") => t \notin object
CallsInv == CallsTypeOK /\ InFlight /\ Counted /\ Keyed /\ Removed

(* No call is tried more than three times, nor one that acts more than once. *)
LEMMA KindFacts ==
    \A kind \in Kinds : kind.tries \in 1..3 /\ (kind.does = "act" => kind.tries = 1)
<1>1. /\ ChargePayment = [does |-> "charge", tries |-> 3] /\ PutObject = [does |-> "put", tries |-> 3]
      /\ GetRate = [does |-> "read", tries |-> 3] /\ Geocode = [does |-> "read", tries |-> 3]
  BY DEF Kind, Tries, ChargePayment, PutObject, GetRate, Geocode
<1>2. /\ RefundPayment = [does |-> "act", tries |-> 1] /\ SendEmail = [does |-> "act", tries |-> 1]
      /\ SendSms = [does |-> "act", tries |-> 1] /\ CreateShipment = [does |-> "act", tries |-> 1]
      /\ CallRazorpay = [does |-> "act", tries |-> 1]
  BY DEF Kind, Tries, RefundPayment, SendEmail, SendSms, CreateShipment, CallRazorpay
<1>3. /\ DeleteObject = [does |-> "remove", tries |-> 1] /\ HeadObject = [does |-> "read", tries |-> 1]
      /\ GetObject = [does |-> "read", tries |-> 1]
  BY DEF Kind, Tries, DeleteObject, HeadObject, GetObject
<1>4. \A kind \in Kinds : \/ kind = [does |-> "act", tries |-> 1]
                          \/ \E does \in {"charge", "put", "read", "remove"}, tries \in {1, 3} : kind = [does |-> does, tries |-> tries]
  BY <1>1, <1>2, <1>3 DEF Kinds
<1> QED BY <1>4

(* Nobody has called. *)
LEMMA CallsInitInv == CallsInit => CallsInv
  BY NoSendAssumption DEF CallsInit, CallsInv, CallsTypeOK, InFlight, Counted, Keyed, Removed, Removes, CallAt

(* A call moves on: as before but for where it is, and its attempt. *)
MovesOn(c) ==
    /\ send' \in [Caller -> Sendings \cup {NoSend}] /\ \A d \in Caller \ {c} : send'[d] = send[d]
    /\ send[c] # NoSend /\ send'[c] # NoSend
    /\ send'[c].kind = send[c].kind /\ send'[c].thing = send[c].thing /\ send'[c].attempt >= send[c].attempt
    /\ send'[c].attempt <= send[c].kind.tries /\ (send'[c].at = "pause" => send'[c].attempt < send[c].kind.tries)
    /\ CallEnded(c) => send'[c] = send[c]

(* A call whose row is replaced by a sensible one moves on; *)
LEMMA CallMoved ==
    ASSUME CallsTypeOK, InFlight, NEW c \in Caller, send[c] # NoSend, ~CallEnded(c), NEW new \in Sendings, send' = [send EXCEPT ![c] = new],
           new.kind = send[c].kind, new.thing = send[c].thing, new.attempt >= send[c].attempt,
           new.attempt <= send[c].kind.tries, new.at = "pause" => new.attempt < send[c].kind.tries
    PROVE  MovesOn(c) /\ send'[c] = new
  BY NoSendAssumption DEF CallsTypeOK, MovesOn

(* so does one that stays; *)
LEMMA Stood ==
    ASSUME CallsTypeOK, InFlight, NEW c \in Caller, send[c] # NoSend, send' = send
    PROVE  MovesOn(c)
<1>1. send[c] \in Sendings /\ send[c].attempt \in 1..3
  BY DEF CallsTypeOK, Sendings
<1> QED BY <1>1 DEF CallsTypeOK, MovesOn, InFlight, CallAt

(* one in trouble, which is tried again as long as it may; *)
LEMMA Troubled ==
    ASSUME CallsTypeOK, InFlight, NEW c \in Caller, CallAt(c, "wait"), send' = AfterTrouble(c)
    PROVE  MovesOn(c) /\ send'[c].at # "ok"
<1>0. send[c] # NoSend /\ send[c] \in Sendings /\ ~CallEnded(c) /\ send[c].attempt <= send[c].kind.tries
  BY DEF CallAt, CallEnded, CallsTypeOK
<1>1. PICK at \in {"pause", "failed"} : at = IF send[c].attempt < send[c].kind.tries THEN "pause" ELSE "failed"
  OBVIOUS
<1> DEFINE new == [send[c] EXCEPT !.at = at]
<1>2. send' = [send EXCEPT ![c] = new]
  BY <1>1 DEF AfterTrouble
<1>3. /\ new \in Sendings /\ new.at = at /\ new.kind = send[c].kind /\ new.thing = send[c].thing /\ new.attempt = send[c].attempt
      /\ send[c].attempt \in 1..3
  BY <1>0 DEF Sendings
<1> HIDE DEF new
<1>4. new.attempt >= send[c].attempt
  BY <1>3
<1> QED BY <1>0, <1>1, <1>2, <1>3, <1>4, CallMoved

(* and one that hears of an attempt. *)
LEMMA Heard ==
    ASSUME CallsTypeOK, InFlight, NEW c \in Caller, send[c] # NoSend, NEW attempt, NEW answer \in {"ok", "rejected", "trouble", "silence"},
           send' = Hears(c, attempt, answer)
    PROVE  MovesOn(c) /\ (send'[c].at = "ok" => answer = "ok" \/ send[c].at = "ok")
<1>1. CASE ~(CallAt(c, "wait") /\ send[c].attempt = attempt) \/ answer = "silence"
  BY <1>1, Stood DEF Hears
<1>2. CASE CallAt(c, "wait") /\ send[c].attempt = attempt /\ answer = "trouble"
  BY <1>2, Troubled DEF Hears
<1>3. CASE CallAt(c, "wait") /\ send[c].attempt = attempt /\ answer \in {"ok", "rejected"}
  <2>0. send[c] # NoSend /\ send[c] \in Sendings /\ ~CallEnded(c) /\ send[c].attempt <= send[c].kind.tries
    BY <1>3 DEF CallAt, CallEnded, CallsTypeOK
  <2>1. PICK at \in {"ok", "failed"} : at = IF answer = "ok" THEN "ok" ELSE "failed"
    OBVIOUS
  <2> DEFINE new == [send[c] EXCEPT !.at = at]
  <2>2. send' = [send EXCEPT ![c] = new]
    BY <1>3, <2>1 DEF Hears
  <2>3. /\ new \in Sendings /\ new.at = at /\ new.kind = send[c].kind /\ new.thing = send[c].thing /\ new.attempt = send[c].attempt
        /\ send[c].attempt \in 1..3
    BY <2>0 DEF Sendings
  <2> HIDE DEF new
  <2>4. new.attempt >= send[c].attempt
    BY <2>3
  <2> QED BY <2>0, <2>1, <2>2, <2>3, <2>4, CallMoved
<1> QED BY <1>1, <1>2, <1>3

(* Whatever is done, the calls stay what they are. *)
Same ==
    /\ \A d \in Caller : /\ (send'[d] = NoSend <=> send[d] = NoSend) /\ (CallEnded(d) => send'[d] = send[d])
                         /\ send[d] # NoSend => /\ send'[d].kind = send[d].kind /\ send'[d].thing = send[d].thing
                                                /\ send[d].attempt \in 1..3 /\ send'[d].attempt \in 1..3
                                                /\ send'[d].attempt >= send[d].attempt
    /\ \A d \in Caller, t \in Thing : (Removes(d, t)' <=> Removes(d, t)) /\ (Puts(d, t)' <=> Puts(d, t))

(* Moving on changes neither what calls are for nor those that have ended. *)
LEMMA CallsSame ==
    ASSUME CallsTypeOK, InFlight, NEW c \in Caller, MovesOn(c)
    PROVE  Same
<1>1. \A d \in Caller : send[d] # NoSend => send[d].attempt \in 1..3
  BY DEF CallsTypeOK, Sendings
<1>2. \A d \in Caller : send'[d] # NoSend => send'[d].attempt \in 1..3
  BY DEF MovesOn, Sendings
<1>3. \A d \in Caller : /\ (send'[d] = NoSend <=> send[d] = NoSend) /\ (CallEnded(d) => send'[d] = send[d])
                        /\ send[d] # NoSend => /\ send'[d].kind = send[d].kind /\ send'[d].thing = send[d].thing
                                               /\ send[d].attempt \in 1..3 /\ send'[d].attempt \in 1..3
                                               /\ send'[d].attempt >= send[d].attempt
  BY <1>1, <1>2 DEF MovesOn
<1> QED BY <1>3 DEF Same, Removes, Puts

(* The rows are of their types, *)
LEMMA TypesKept ==
    ASSUME CallsTypeOK, NEW c \in Caller, MovesOn(c), object' \subseteq Thing, late' = late
    PROVE  CallsTypeOK'
  BY DEF CallsTypeOK, MovesOn

(* and attempts are of their calls. *)
LEMMA FlightKept ==
    ASSUME CallsTypeOK, InFlight, NEW c \in Caller, MovesOn(c),
           wire' \in SUBSET (Caller \X (1..3)), \A d \in Caller, a \in 1..3 : <<d, a>> \in wire' => <<d, a>> \in wire \/ (d = c /\ a = send'[c].attempt)
    PROVE  InFlight'
<1>0. Same
  BY CallsSame
<1>1. ASSUME NEW d \in Caller, NEW a \in 1..3, <<d, a>> \in wire' PROVE send'[d] # NoSend /\ a <= send'[d].attempt
  <2>1. CASE <<d, a>> \in wire
    <3>1. send[d] # NoSend /\ a <= send[d].attempt /\ send[d].attempt \in 1..3 /\ send'[d].attempt \in 1..3 /\ send'[d].attempt >= send[d].attempt
      BY <1>0, <2>1 DEF InFlight, Same
    <3> QED BY <1>0, <3>1 DEF Same
  <2>2. CASE d = c /\ a = send'[c].attempt
    BY <2>2 DEF MovesOn
  <2> QED BY <1>1, <2>1, <2>2
<1>2. \A d \in Caller : CallAt(d, "pause")' => send'[d].attempt < send'[d].kind.tries
  BY DEF CallAt, MovesOn, InFlight
<1> QED BY <1>1, <1>2 DEF InFlight

(* A call hears what it hears, and nothing was done. *)
LEMMA NothingDone ==
    ASSUME CallsInv, NEW c \in Caller, MovesOn(c), send'[c].at = "ok" => send[c].at = "ok", wire' \in SUBSET wire,
           UNCHANGED <<done, seen, charged, object, late>>
    PROVE  CallsInv'
<1> USE DEF CallsInv
<1>0. Same
  BY CallsSame
<1>1. CallsTypeOK'
  <2>1. object' \subseteq Thing
    BY DEF CallsTypeOK
  <2> QED BY <2>1, TypesKept
<1>2. InFlight'
  <2>1. wire' \in SUBSET (Caller \X (1..3))
    BY DEF InFlight
  <2> QED BY <2>1, FlightKept
<1>o. \A d \in Caller : CallAt(d, "ok")' => CallAt(d, "ok")
  BY DEF CallAt, MovesOn
<1>3. Counted'
  <2>1. ASSUME NEW d \in Caller, send'[d] # NoSend, send'[d].kind.does = "act" PROVE done'[d] <= IF <<d, 1>> \in wire' THEN 0 ELSE 1
    <3>1. done[d] \in Nat /\ done[d] <= IF <<d, 1>> \in wire THEN 0 ELSE 1
      BY <1>0, <2>1 DEF Counted, Same
    <3>2. <<d, 1>> \in wire' => <<d, 1>> \in wire
      OBVIOUS
    <3> QED BY <3>1, <3>2
  <2> QED BY <1>0, <1>o, <2>1 DEF Counted, Same
<1>4. Keyed'
  BY DEF Keyed
<1>5. Removed'
  <2>1. \A d \in Caller : CallEnded(d) => CallEnded(d)'
    BY <1>0 DEF Same, CallEnded, CallAt
  <2>2. ASSUME NEW d \in Caller, NEW t \in Thing, Removes(d, t)
        PROVE  /\ \E p \in Caller : Puts(p, t)'
               /\ \A p \in Caller : Puts(p, t)' => CallEnded(p)'
               /\ t \notin late => \A p \in Caller, a \in 1..3 : Puts(p, t)' => <<p, a>> \notin wire'
               /\ t \notin late /\ CallAt(d, "ok")' => t \notin object
    BY <1>0, <1>o, <2>1, <2>2 DEF Removed, Same
  <2> QED BY <1>0, <2>2 DEF Removed, Same
<1> QED BY <1>1, <1>2, <1>3, <1>4, <1>5

(* A timeout, or an answer without effect at the provider. *)
LEMMA CallsMove ==
    ASSUME CallsInv, NEW c \in Caller,
           \/ TimeOut(c)
           \/ \E attempt \in 1..3, answer \in {"ok", "rejected", "trouble", "silence"} : Refuse(c, attempt, answer)
    PROVE  CallsInv'
<1> USE DEF CallsInv
<1>1. CASE TimeOut(c)
  BY <1>1, Troubled, NothingDone DEF TimeOut
<1>2. ASSUME NEW attempt \in 1..3, NEW answer \in {"ok", "rejected", "trouble", "silence"}, Refuse(c, attempt, answer) PROVE CallsInv'
  <2>1. send[c] # NoSend /\ answer # "ok" /\ wire' \in SUBSET wire
    BY <1>2 DEF Refuse, InFlight
  <2> QED BY <1>2, <2>1, Heard, NothingDone DEF Refuse
<1> QED BY <1>1, <1>2

(* The next attempt goes out after an earlier one. *)
LEMMA CallsRetry ==
    ASSUME CallsInv, NEW c \in Caller, Retry(c)
    PROVE  CallsInv'
<1> USE DEF CallsInv
<1>0. /\ send[c] # NoSend /\ send[c] \in Sendings /\ send[c].at = "pause" /\ ~CallEnded(c) /\ send[c].attempt < send[c].kind.tries
      /\ send[c].kind \in Kinds /\ send[c].attempt \in 1..3 /\ UNCHANGED <<done, seen, charged, object, late>>
      /\ send[c].kind.tries \in 1..3 /\ (send[c].kind.does = "act" => send[c].kind.tries = 1)
  BY KindFacts DEF Retry, CallAt, CallEnded, CallsTypeOK, Sendings, InFlight
<1>1. PICK n \in 1..3 : n = send[c].attempt + 1
  BY <1>0
<1> DEFINE new == [kind |-> send[c].kind, thing |-> send[c].thing, attempt |-> n, at |-> "wait"]
<1>2. send' = [send EXCEPT ![c] = new] /\ wire' = wire \cup {<<c, n>>}
  BY <1>1 DEF Retry
<1>3. new \in Sendings /\ new.kind = send[c].kind /\ new.thing = send[c].thing /\ new.attempt = n /\ new.at = "wait"
  BY <1>0 DEF Sendings
<1> HIDE DEF new
<1>4. MovesOn(c) /\ send'[c] = new
  <2>1. n >= send[c].attempt /\ n <= send[c].kind.tries
    BY <1>0, <1>1
  <2>2. new.attempt >= send[c].attempt /\ new.attempt <= send[c].kind.tries /\ new.at # "pause"
    BY <1>3, <2>1
  <2> QED BY <1>0, <1>2, <1>3, <2>2, CallMoved
<1>5. Same
  BY <1>4, CallsSame
<1>6. CallsTypeOK'
  <2>1. object' \subseteq Thing
    BY <1>0 DEF CallsTypeOK
  <2> QED BY <1>0, <1>4, <2>1, TypesKept
<1>7. InFlight'
  <2>1. wire' \in SUBSET (Caller \X (1..3))
    BY <1>2 DEF InFlight
  <2>2. \A d \in Caller, a \in 1..3 : <<d, a>> \in wire' => <<d, a>> \in wire \/ (d = c /\ a = send'[c].attempt)
    BY <1>2, <1>3, <1>4
  <2> QED BY <1>4, <2>1, <2>2, FlightKept
<1>8. send[c].kind.does # "act"
  BY <1>0
<1>9. \A d \in Caller : d # c => \A a : <<d, a>> \in wire' => <<d, a>> \in wire
  BY <1>2
<1>o. \A d \in Caller : CallAt(d, "ok")' => CallAt(d, "ok") /\ d # c
  BY <1>3, <1>4 DEF CallAt, MovesOn
<1>10. Counted'
  <2>1. ASSUME NEW d \in Caller, send'[d] # NoSend, send'[d].kind.does = "act" PROVE done'[d] <= IF <<d, 1>> \in wire' THEN 0 ELSE 1
    <3>1. d # c /\ done'[d] = done[d] /\ done[d] \in Nat /\ done[d] <= IF <<d, 1>> \in wire THEN 0 ELSE 1
      BY <1>0, <1>5, <1>8, <2>1 DEF Counted, Same
    <3> QED BY <1>9, <3>1
  <2> QED BY <1>0, <1>5, <1>o, <2>1 DEF Counted, Same
<1>11. Keyed'
  BY <1>0 DEF Keyed
<1>12. Removed'
  <2>1. \A d \in Caller : CallEnded(d) => CallEnded(d)'
    BY <1>5 DEF Same, CallEnded, CallAt
  <2>2. ASSUME NEW d \in Caller, NEW t \in Thing, Removes(d, t)
        PROVE  /\ \E p \in Caller : Puts(p, t)'
               /\ \A p \in Caller : Puts(p, t)' => CallEnded(p)'
               /\ t \notin late => \A p \in Caller, a \in 1..3 : Puts(p, t)' => <<p, a>> \notin wire'
               /\ t \notin late /\ CallAt(d, "ok")' => t \notin object
    <3>1. ~Puts(c, t)
      BY <1>0, <2>2 DEF Removed
    <3> QED BY <1>5, <1>9, <1>o, <2>1, <2>2, <3>1 DEF Removed, Same
  <2> QED BY <1>0, <1>5, <2>2 DEF Removed, Same
<1> QED BY <1>6, <1>7, <1>10, <1>11, <1>12

(* The provider does what it is asked, by key once, whether or not its answer arrives. *)
LEMMA CallCarried ==
    ASSUME CallsInv, NEW c \in Caller, NEW attempt \in 1..3, NEW answer, Carry(c, attempt, answer)
    PROVE  CallsInv'
<1> USE DEF CallsInv
<1>0. /\ <<c, attempt>> \in wire /\ answer \in {"ok", "trouble", "silence"} /\ wire' = wire \ {<<c, attempt>>} /\ late' = late
      /\ send[c] # NoSend /\ send[c] \in Sendings /\ send[c].thing \in Thing /\ attempt <= send[c].attempt
      /\ send[c].attempt <= send[c].kind.tries /\ send[c].attempt \in 1..3 /\ send[c].kind \in Kinds
  BY DEF Carry, InFlight, CallsTypeOK, Sendings
<1>t. PICK t \in Thing : t = send[c].thing
  BY <1>0
<1>1. MovesOn(c)
  BY <1>0, Heard DEF Carry
<1>2. Same
  BY <1>1, CallsSame
<1>3. done' = [done EXCEPT ![c] = done[c] + 1] /\ done[c] \in Nat
  BY DEF Carry, Counted
<1>4. done' \in [Caller -> Nat] /\ done'[c] = done[c] + 1 /\ \A d \in Caller \ {c} : done'[d] = done[d]
  BY <1>3 DEF Counted
<1>5. /\ send[c].kind.does = "put" => object' = object \cup {t}
      /\ send[c].kind.does = "remove" => object' = object \ {t}
      /\ send[c].kind.does \notin {"put", "remove"} => object' = object
  BY <1>t DEF Carry
<1>6. CallsTypeOK'
  <2>1. object' \subseteq Thing
    BY <1>5 DEF CallsTypeOK
  <2> QED BY <1>0, <1>1, <2>1, TypesKept
<1>7. InFlight'
  <2>1. wire' \in SUBSET (Caller \X (1..3))
    BY <1>0 DEF InFlight
  <2> QED BY <1>0, <1>1, <2>1, FlightKept
<1>8. Counted'
  <2>1. ASSUME NEW d \in Caller, send'[d] # NoSend, send'[d].kind.does = "act" PROVE done'[d] <= IF <<d, 1>> \in wire' THEN 0 ELSE 1
    <3>1. send[d] # NoSend /\ send[d].kind.does = "act" /\ done[d] \in Nat /\ done[d] <= IF <<d, 1>> \in wire THEN 0 ELSE 1
      BY <1>2, <2>1 DEF Counted, Same
    <3>2. CASE d = c
      <4>1. send[c].kind.tries = 1
        BY <1>0, <3>1, <3>2, KindFacts
      <4>2. attempt = 1
        BY <1>0, <4>1
      <4> QED BY <1>0, <1>4, <3>1, <3>2, <4>2
    <3>3. CASE d # c
      BY <1>0, <1>4, <3>1, <3>3
    <3> QED BY <3>2, <3>3
  <2>2. ASSUME NEW d \in Caller, CallAt(d, "ok")' PROVE done'[d] > 0
    <3>1. CASE d = c
      BY <1>3, <1>4, <3>1
    <3>2. CASE d # c
      BY <1>1, <1>4, <2>2, <3>2 DEF Counted, CallAt, MovesOn
    <3> QED BY <3>1, <3>2
  <2>3. \A d \in Caller : send'[d] = NoSend => done'[d] = 0
    BY <1>0, <1>2, <1>4 DEF Counted, Same
  <2> QED BY <1>4, <2>1, <2>2, <2>3 DEF Counted
<1>9. Keyed'
  <2>1. CASE send[c].kind.does = "charge" /\ <<t>> \notin seen
    <3>1. seen' = seen \cup {<<t>>} /\ charged' = [charged EXCEPT ![t] = charged[t] + 1]
      BY <1>t, <2>1 DEF Carry, ChargeKey
    <3>2. charged[t] = 0
      BY <2>1 DEF Keyed
    <3>3. \A u \in Thing \ {t} : <<u>> # <<t>>
      OBVIOUS
    <3> QED BY <3>1, <3>2, <3>3 DEF Keyed
  <2>2. CASE ~(send[c].kind.does = "charge" /\ <<t>> \notin seen)
    BY <1>t, <2>2 DEF Carry, ChargeKey, Keyed
  <2> QED BY <2>1, <2>2
<1>10. Removed'
  <2>1. \A d \in Caller : CallEnded(d) => CallEnded(d)'
    BY <1>2 DEF Same, CallEnded, CallAt
  <2>2. ASSUME NEW d \in Caller, NEW u \in Thing, Removes(d, u)
        PROVE  /\ \E p \in Caller : Puts(p, u)'
               /\ \A p \in Caller : Puts(p, u)' => CallEnded(p)'
               /\ u \notin late => \A p \in Caller, a \in 1..3 : Puts(p, u)' => <<p, a>> \notin wire'
               /\ u \notin late /\ CallAt(d, "ok")' => u \notin object'
    <3>1. ASSUME u \notin late, CallAt(d, "ok")' PROVE u \notin object'
      <4>1. ~Puts(c, u)
        BY <1>0, <2>2, <3>1 DEF Removed
      <4>2. CASE d = c
        BY <1>5, <1>t, <2>2, <4>2 DEF Removes
      <4>3. CASE d # c
        <5>1. u \notin object
          BY <1>1, <2>2, <3>1, <4>3 DEF Removed, CallAt, MovesOn
        <5>2. ~(send[c].kind.does = "put" /\ t = u)
          BY <1>0, <1>t, <4>1 DEF Puts
        <5> QED BY <1>5, <5>1, <5>2
      <4> QED BY <4>2, <4>3
    <3> QED BY <1>0, <1>2, <2>1, <2>2, <3>1 DEF Removed, Same
  <2> QED BY <1>0, <1>2, <2>2 DEF Removed, Same
<1> QED BY <1>6, <1>7, <1>8, <1>9, <1>10

(* A call begins; an object is removed only after all that put it have ended. *)
LEMMA CallSent ==
    ASSUME CallsInv, NEW c \in Caller, NEW kind \in Kinds, NEW t \in Thing, Sends(c, kind, t)
    PROVE  CallsInv'
<1> USE NoSendAssumption DEF CallsInv
<1> DEFINE new == [kind |-> kind, thing |-> t, attempt |-> 1, at |-> "wait"]
<1>0. /\ send[c] = NoSend /\ send' = [send EXCEPT ![c] = new] /\ wire' = wire \cup {<<c, 1>>} /\ UNCHANGED <<done, seen, charged, object>>
      /\ kind.does = "put" => \A p \in Caller : ~Puts(p, t)
      /\ kind.does = "remove" => (\E p \in Caller : Puts(p, t)) /\ \A p \in Caller : Puts(p, t) => CallEnded(p)
  BY DEF Sends, Putting, Puts
<1>1. new \in Sendings /\ new.kind = kind /\ new.thing = t /\ new.attempt = 1 /\ new.at = "wait"
  BY DEF Sendings
<1> HIDE DEF new
<1>2. /\ send' \in [Caller -> Sendings \cup {NoSend}] /\ send'[c] = new /\ new # NoSend /\ \A d \in Caller \ {c} : send'[d] = send[d]
      /\ kind.tries \in 1..3
  BY <1>0, <1>1, KindFacts DEF CallsTypeOK
<1>3. /\ late' \subseteq Thing /\ late \subseteq late'
      /\ kind.does = "remove" /\ t \notin late' => \A p \in Caller, a \in 1..3 : Puts(p, t) => <<p, a>> \notin wire
  <2>1. late' = late \cup (IF kind.does = "remove" /\ OnTheWay(t) # {} THEN {t} ELSE {})
    BY DEF Sends
  <2>2. ASSUME NEW p \in Caller, NEW a \in 1..3, Puts(p, t), <<p, a>> \in wire PROVE OnTheWay(t) # {}
    BY <2>2 DEF OnTheWay, Putting, Puts
  <2> QED BY <2>1, <2>2 DEF CallsTypeOK
<1>4. CallsTypeOK'
  BY <1>0, <1>1, <1>2, <1>3 DEF CallsTypeOK
<1>5. \A a \in 1..3 : <<c, a>> \notin wire
  BY <1>0 DEF InFlight
<1>6. InFlight'
  <2>1. wire' \in SUBSET (Caller \X (1..3))
    BY <1>0 DEF InFlight
  <2>2. ASSUME NEW d \in Caller, NEW a \in 1..3, <<d, a>> \in wire' PROVE send'[d] # NoSend /\ a <= send'[d].attempt
    <3>1. CASE d = c
      BY <1>0, <1>1, <1>2, <1>5, <2>2, <3>1
    <3>2. CASE d # c
      BY <1>0, <1>2, <2>2, <3>2 DEF InFlight
    <3> QED BY <3>1, <3>2
  <2>3. \A d \in Caller : CallAt(d, "pause")' => d # c /\ CallAt(d, "pause")
    BY <1>1, <1>2 DEF CallAt
  <2> QED BY <1>2, <2>1, <2>2, <2>3 DEF InFlight
<1>7. Counted'
  <2>1. ASSUME NEW d \in Caller, send'[d] # NoSend, send'[d].kind.does = "act" PROVE done'[d] <= IF <<d, 1>> \in wire' THEN 0 ELSE 1
    <3>1. CASE d = c
      BY <1>0, <3>1 DEF Counted
    <3>2. CASE d # c
      BY <1>0, <1>2, <2>1, <3>2 DEF Counted
    <3> QED BY <3>1, <3>2
  <2>2. \A d \in Caller : CallAt(d, "ok")' => d # c /\ CallAt(d, "ok")
    BY <1>1, <1>2 DEF CallAt
  <2> QED BY <1>0, <1>2, <2>1, <2>2 DEF Counted
<1>8. Keyed'
  BY <1>0 DEF Keyed
<1>9. Removed'
  <2>1. \A d \in Caller : CallEnded(d) => CallEnded(d)'
    BY <1>0, <1>2 DEF CallEnded, CallAt
  <2>2. \A d \in Caller \ {c}, u \in Thing : (Removes(d, u)' <=> Removes(d, u)) /\ (Puts(d, u)' <=> Puts(d, u))
    BY <1>2 DEF Removes, Puts
  <2>3. \A u \in Thing : /\ Removes(c, u)' <=> kind.does = "remove" /\ u = t
                         /\ Puts(c, u)' <=> kind.does = "put" /\ u = t
                         /\ ~Puts(c, u)
    BY <1>0, <1>1, <1>2 DEF Removes, Puts
  <2>4. ASSUME NEW d \in Caller, NEW u \in Thing, Removes(d, u)'
        PROVE  (\E p \in Caller : Puts(p, u)) /\ \A p \in Caller : Puts(p, u) => CallEnded(p)
    BY <1>0, <2>2, <2>3, <2>4 DEF Removed
  <2>5. ASSUME NEW d \in Caller, NEW u \in Thing, Removes(d, u)' PROVE ~Puts(c, u)'
    BY <1>0, <2>3, <2>4, <2>5
  <2>6. ASSUME NEW d \in Caller, NEW u \in Thing, Removes(d, u)', u \notin late', NEW p \in Caller, NEW a \in 1..3, Puts(p, u)'
        PROVE  <<p, a>> \notin wire'
    <3>1. p # c /\ Puts(p, u)
      BY <2>2, <2>5, <2>6
    <3>2. <<p, a>> \notin wire
      BY <1>3, <2>2, <2>3, <2>6, <3>1 DEF Removed
    <3> QED BY <1>0, <3>1, <3>2
  <2>7. ASSUME NEW d \in Caller, NEW u \in Thing, Removes(d, u)', u \notin late', CallAt(d, "ok")' PROVE u \notin object'
    BY <1>0, <1>1, <1>2, <1>3, <2>2, <2>7 DEF Removed, CallAt
  <2>8. ASSUME NEW d \in Caller, NEW u \in Thing, Removes(d, u)'
        PROVE  (\E p \in Caller : Puts(p, u)') /\ \A p \in Caller : Puts(p, u)' => CallEnded(p)'
    BY <2>1, <2>2, <2>3, <2>4, <2>5, <2>8
  <2> QED BY <2>6, <2>7, <2>8 DEF Removed
<1> QED BY <1>4, <1>6, <1>7, <1>8, <1>9

(* Every step keeps the invariant of calls, *)
LEMMA CallsNextInv == ASSUME CallsInv, [CallsNext]_callVars PROVE CallsInv'
<1>1. ASSUME NEW c \in Caller, NEW kind \in Kinds, NEW t \in Thing, Sends(c, kind, t) PROVE CallsInv'
  BY <1>1, CallSent
<1>2. ASSUME NEW c \in Caller, NEW attempt \in 1..3, NEW answer \in {"ok", "rejected", "trouble", "silence"},
             Carry(c, attempt, answer) \/ Refuse(c, attempt, answer)
      PROVE  CallsInv'
  BY <1>2, CallCarried, CallsMove
<1>3. ASSUME NEW c \in Caller, TimeOut(c) \/ Retry(c) PROVE CallsInv'
  BY <1>3, CallsMove, CallsRetry
<1>4. CASE UNCHANGED callVars
  <2>1. UNCHANGED <<send, wire, done, seen, charged, object, late>>
    BY <1>4 DEF callVars
  <2>2. CallsTypeOK' /\ InFlight'
    BY <2>1 DEF CallsInv, CallsTypeOK, InFlight, CallAt
  <2>3. Counted' /\ Keyed' /\ Removed'
    BY <2>1 DEF CallsInv, Counted, Keyed, Removed, Removes, Puts, CallEnded, CallAt
  <2> QED BY <2>2, <2>3 DEF CallsInv
<1> QED BY <1>1, <1>2, <1>3, <1>4 DEF CallsNext

(* which is more than was promised. *)
LEMMA CallsTell == CallsInv => CallsTypeOK /\ ProviderActsOnce /\ ReportedIsDone
<1> SUFFICES ASSUME CallsInv PROVE CallsTypeOK /\ ProviderActsOnce /\ ReportedIsDone
  OBVIOUS
<1>1. ProviderActsOnce
  <2>1. \A c \in Caller : send[c] # NoSend /\ send[c].kind.does = "act" => done[c] <= 1
    <3>1. ASSUME NEW c \in Caller, send[c] # NoSend, send[c].kind.does = "act" PROVE done[c] <= 1
      <4>1. done[c] \in Nat /\ done[c] <= IF <<c, 1>> \in wire THEN 0 ELSE 1
        BY <3>1 DEF CallsInv, Counted
      <4> QED BY <4>1
    <3> QED BY <3>1
  <2>2. ASSUME NEW t \in Thing PROVE charged[t] <= 1
    <3>1. charged[t] = IF <<t>> \in seen THEN 1 ELSE 0
      BY DEF CallsInv, Keyed
    <3> QED BY <3>1
  <2> QED BY <2>1, <2>2 DEF ProviderActsOnce
<1>2. ReportedIsDone
  <2>1. \A c \in Caller : CallAt(c, "ok") => send[c].thing \in Thing /\ done[c] > 0
    BY DEF CallsInv, Counted, CallsTypeOK, Sendings, CallAt
  <2> QED BY <2>1 DEF CallsInv, Removed, Removes, ReportedIsDone, CallAt
<1> QED BY <1>1, <1>2 DEF CallsInv

-----------------------------------------------------------------------------
(* Tokens, keys and sockets (Realtime). *)

(* One process has the newest key; and the keys of a process open every token that some process has signed with a key no
   newer than its own. *)
KeysOpen ==
    /\ \A n \in Node : \E m \in Node : \A l \in Node : node[l].current <= node[m].current
    /\ \A m, n \in Node : node[m].current <= node[n].current => node[m].current \in Verifiers(n)
    /\ \A n \in Node : node[n].current \in oldKeys
    /\ \A t \in Pass : pass[t] # NoPass /\ pass[t].left > 0 => pass[t].key \in oldKeys
KeysInv == KeysOpen /\ TokensOpenDoors
(* A socket is of a token; what is to be told has happened, and is news to whoever will hear it. *)
SocketsHaveTokens == \A s \in Socket : socket[s] # NoPass => pass[socket[s].pass] # NoPass
ToldNext ==
    /\ \A m \in telling : m[2] <= story[m[1]]
    /\ \A m, n \in telling : m[1] = n[1] /\ m[1] \notin overlap => m = n
    /\ \A m \in telling, s \in Socket : m[1] \notin overlap /\ socket[s] # NoPass =>
          \A i \in DOMAIN socket[s].heard : socket[s].heard[i][1] = m[1] => socket[s].heard[i][2] < m[2]
NewsInv == SocketsHaveTokens /\ ToldNext /\ NewsIsTrue
RealtimeInv == RealtimeTypeOK /\ KeysInv /\ NewsInv

(* Whose session has ended does not get past its check. *)
NothingOpens ==
    \A s \in Socket : socket[s] # NoPass /\ socket[s].at = "session" /\ ~pass[socket[s].pass].live =>
            socket'[s] = NoPass \/ socket'[s] = socket[s]
RealtimeStep == RealtimeInv' /\ NothingOpens

(* What two states have in common when no process, or no news, is touched. *)
PassesGoOn ==
    \A t \in Pass : pass[t] # NoPass =>
        pass'[t] # NoPass /\ pass'[t].holder = pass[t].holder /\ pass'[t].key = pass[t].key /\ pass'[t].left <= pass[t].left

(* All processes have the first key, and nobody is signed in. *)
LEMMA RealtimeInitInv == RealtimeInit => RealtimeInv
<1> SUFFICES ASSUME RealtimeInit PROVE RealtimeInv
  OBVIOUS
<1>0. 1 \in 1..Generations /\ 0 \in 0..MaxVersion
  BY RealtimeAssumption
<1>1. RealtimeTypeOK
  BY <1>0 DEF RealtimeInit, RealtimeTypeOK, Nodes
<1>2. KeysInv
  BY <1>0 DEF RealtimeInit, KeysInv, KeysOpen, TokensOpenDoors, Verifiers
<1>3. NewsInv
  BY DEF RealtimeInit, NewsInv, SocketsHaveTokens, ToldNext, NewsIsTrue
<1> QED BY <1>1, <1>2, <1>3 DEF RealtimeInv

(* The row of a token, *)
LEMMA PassTyped ==
    ASSUME RealtimeTypeOK, NEW t \in Pass, pass[t] # NoPass
    PROVE  pass[t] \in Passes /\ pass[t].left \in 0..Expiry /\ pass[t].key \in 1..Generations /\ pass[t].holder \in Holder
BY DEF RealtimeTypeOK, Passes

(* and of a socket. *)
LEMMA SocketTyped ==
    ASSUME RealtimeTypeOK, NEW s \in Socket, socket[s] # NoPass
    PROVE  /\ socket[s] \in Sockets /\ socket[s].pass \in Pass /\ socket[s].node \in Node
           /\ socket[s].heard \in Seq(Story \X (0..MaxVersion))
           /\ \A i \in DOMAIN socket[s].heard : socket[s].heard[i] \in Story \X (0..MaxVersion)
<1>1. socket[s] \in Sockets
  BY DEF RealtimeTypeOK
<1>2. socket[s].heard \in Seq(Story \X (0..MaxVersion)) /\ socket[s].pass \in Pass /\ socket[s].node \in Node
  BY <1>1 DEF Sockets
<1> QED BY <1>1, <1>2

(* Steps that leave the processes and their keys alone. *)
KeysStand == UNCHANGED <<node, oldKeys>> /\ PassesGoOn /\ \A t \in Pass : pass'[t] # NoPass => pass[t] # NoPass

(* Such steps leave every token its doors. *)
LEMMA KeysUntouched == ASSUME RealtimeInv, RealtimeTypeOK', KeysStand PROVE KeysInv'
<1>1. UNCHANGED <<node, oldKeys>>
  BY DEF KeysStand
<1>2. \A n \in Node : Verifiers(n)' = Verifiers(n)
  BY <1>1 DEF Verifiers
<1>3. ASSUME NEW t \in Pass, pass'[t] # NoPass, pass'[t].left > 0
      PROVE  pass[t] # NoPass /\ pass[t].left > 0 /\ pass'[t].key = pass[t].key
  <2>1. pass[t] # NoPass
    BY <1>3 DEF KeysStand
  <2>2. pass'[t].left <= pass[t].left /\ pass'[t].key = pass[t].key
    BY <2>1 DEF KeysStand, PassesGoOn
  <2>3. pass[t].left \in Int
    BY <2>1, PassTyped DEF RealtimeInv
  <2>4. pass'[t].left \in Int
    BY <1>3 DEF RealtimeTypeOK, Passes
  <2> QED BY <1>3, <2>1, <2>2, <2>3, <2>4
<1>4. KeysOpen'
  BY <1>1, <1>2, <1>3 DEF RealtimeInv, KeysInv, KeysOpen
<1>5. TokensOpenDoors'
  BY <1>1, <1>2, <1>3 DEF RealtimeInv, KeysInv, TokensOpenDoors, VerifyAccessToken
<1> QED BY <1>4, <1>5 DEF KeysInv

(* Steps after which nothing more is told or heard: a socket goes on with what it has heard, starts afresh, or closes. *)
NewsStand ==
    /\ UNCHANGED <<story, overlap>> /\ telling' \subseteq telling
    /\ \A s \in Socket : socket'[s] # NoPass =>
          /\ pass'[socket'[s].pass] # NoPass
          /\ \/ socket'[s].heard = <<>>
             \/ socket[s] # NoPass /\ socket'[s].heard = socket[s].heard /\ socket'[s].pass = socket[s].pass

(* Such steps leave what was heard true. *)
LEMMA NewsUntouched == ASSUME RealtimeInv, RealtimeTypeOK', PassesGoOn, NewsStand PROVE NewsInv'
<1>1. SocketsHaveTokens'
  BY DEF NewsStand, SocketsHaveTokens
<1>2. UNCHANGED <<story, overlap>> /\ telling' \subseteq telling
  BY DEF NewsStand
<1>3. ASSUME NEW s \in Socket, socket'[s] # NoPass, socket'[s].heard # <<>>
      PROVE  /\ socket[s] # NoPass /\ socket'[s].heard = socket[s].heard /\ socket'[s].pass = socket[s].pass
             /\ pass'[socket'[s].pass].holder = pass[socket[s].pass].holder
  <2>1. socket[s] # NoPass /\ socket'[s].heard = socket[s].heard /\ socket'[s].pass = socket[s].pass
    BY <1>3 DEF NewsStand
  <2>2. pass[socket[s].pass] # NoPass /\ socket[s].pass \in Pass
    BY <2>1, SocketTyped DEF RealtimeInv, NewsInv, SocketsHaveTokens
  <2> QED BY <2>1, <2>2 DEF PassesGoOn
<1>4. \A s \in Socket : socket'[s] # NoPass /\ socket'[s].heard = <<>> => DOMAIN socket'[s].heard = {}
  OBVIOUS
<1>5. ToldNext'
  <2>1. /\ \A m \in telling' : m[2] <= story'[m[1]]
        /\ \A m, n \in telling' : m[1] = n[1] /\ m[1] \notin overlap' => m = n
    BY <1>2 DEF RealtimeInv, NewsInv, ToldNext
  <2>2. ASSUME NEW m \in telling', NEW s \in Socket, m[1] \notin overlap', socket'[s] # NoPass,
               NEW i \in DOMAIN socket'[s].heard, socket'[s].heard[i][1] = m[1]
        PROVE  socket'[s].heard[i][2] < m[2]
    <3>1. socket'[s].heard # <<>>
      BY <1>4, <2>2
    <3> QED BY <1>2, <1>3, <2>2, <3>1 DEF RealtimeInv, NewsInv, ToldNext
  <2> QED BY <2>1, <2>2 DEF ToldNext
<1>6. NewsIsTrue'
  <2>1. ASSUME NEW s \in Socket, socket'[s] # NoPass
        PROVE  /\ \A i \in DOMAIN socket'[s].heard :
                    /\ StoryOf[socket'[s].heard[i][1]] = HomeOf[pass'[socket'[s].pass].holder]
                    /\ socket'[s].heard[i][2] <= story'[socket'[s].heard[i][1]]
               /\ \A i, j \in DOMAIN socket'[s].heard :
                    i < j /\ socket'[s].heard[i][1] = socket'[s].heard[j][1] /\ socket'[s].heard[i][1] \notin overlap' =>
                        socket'[s].heard[i][2] < socket'[s].heard[j][2]
    <3>1. CASE socket'[s].heard = <<>>
      BY <1>4, <2>1, <3>1
    <3>2. CASE socket'[s].heard # <<>>
      <4>1. socket[s] # NoPass /\ socket'[s].heard = socket[s].heard
            /\ pass'[socket'[s].pass].holder = pass[socket[s].pass].holder
        BY <1>3, <2>1, <3>2
      <4> QED BY <1>2, <4>1 DEF RealtimeInv, NewsInv, NewsIsTrue
    <3> QED BY <3>1, <3>2
  <2> QED BY <2>1 DEF NewsIsTrue
<1> QED BY <1>1, <1>5, <1>6 DEF NewsInv

(* Steps of tokens alone. *)
LEMMA TokenSteps ==
    ASSUME RealtimeInv, RealtimeTypeOK', PassesGoOn, UNCHANGED <<node, oldKeys, socket, story, telling, overlap>>
    PROVE  NewsInv' /\ NothingOpens
<1>1. NewsStand
  BY SocketTyped DEF RealtimeInv, NewsInv, SocketsHaveTokens, NewsStand, PassesGoOn
<1>2. NothingOpens
  BY DEF NothingOpens
<1> QED BY <1>1, <1>2, NewsUntouched

(* A token is signed with the key of its process: whoever has a newer one knows it. *)
LEMMA TokenSigned ==
    ASSUME RealtimeInv, NEW t \in Pass, NEW h \in Holder, NEW n \in Node, SignAccessToken(t, h, n)
    PROVE  RealtimeStep
<1>0. pass[t] = NoPass /\ UNCHANGED <<node, oldKeys, socket, story, telling, overlap>>
  BY DEF SignAccessToken
<1>1. PICK yes \in BOOLEAN : yes = TRUE
  OBVIOUS
<1>2. PICK new \in Passes : new = [holder |-> h, key |-> node[n].current, left |-> Expiry, live |-> yes]
  <2>1. node[n].current \in 1..Generations /\ Expiry \in 0..Expiry
    BY RealtimeAssumption DEF RealtimeInv, RealtimeTypeOK, Nodes
  <2> QED BY <2>1 DEF Passes
<1>3. pass' = [pass EXCEPT ![t] = new]
  BY <1>1, <1>2 DEF SignAccessToken
<1>4. new # NoPass /\ new.key = node[n].current
  BY <1>2, NoPassAssumption
<1>5. RealtimeTypeOK'
  BY <1>0, <1>3 DEF RealtimeInv, RealtimeTypeOK
<1>6. PassesGoOn
  <2>1. \A u \in Pass : pass[u] # NoPass => pass'[u] = pass[u] /\ pass[u].left <= pass[u].left
    BY <1>0, <1>3, PassTyped DEF RealtimeInv, RealtimeTypeOK
  <2> QED BY <2>1 DEF PassesGoOn
<1>7. KeysInv'
  <2>1. \A m \in Node : Verifiers(m)' = Verifiers(m)
    BY <1>0 DEF Verifiers
  <2>2. pass'[t] = new /\ \A u \in Pass : u # t => pass'[u] = pass[u]
    BY <1>3 DEF RealtimeInv, RealtimeTypeOK
  <2>3. KeysOpen'
    BY <1>0, <1>4, <2>1, <2>2 DEF RealtimeInv, KeysInv, KeysOpen
  <2>4. ASSUME NEW u \in Pass, NEW m \in Node, pass'[u] # NoPass, pass'[u].left > 0, node'[m].current >= pass'[u].key
        PROVE  pass'[u].key \in Verifiers(m)
    <3>1. CASE u = t
      <4>1. node[n].current <= node[m].current
        BY <1>0, <1>4, <2>2, <2>4, <3>1 DEF RealtimeInv, RealtimeTypeOK, Nodes
      <4> QED BY <1>4, <2>2, <3>1, <4>1 DEF RealtimeInv, KeysInv, KeysOpen
    <3>2. CASE u # t
      BY <1>0, <2>2, <2>4, <3>2 DEF RealtimeInv, KeysInv, TokensOpenDoors, VerifyAccessToken
    <3> QED BY <3>1, <3>2
  <2>5. TokensOpenDoors'
    BY <2>1, <2>4 DEF TokensOpenDoors, VerifyAccessToken
  <2> QED BY <2>3, <2>5 DEF KeysInv
<1> QED BY <1>0, <1>5, <1>6, <1>7, TokenSteps DEF RealtimeInv, RealtimeStep

(* Sessions end, and tokens grow older. *)
LEMMA TokenEnded == ASSUME RealtimeInv, NEW t \in Pass, EndSession(t) \/ Lapse PROVE RealtimeStep
<1>0. UNCHANGED <<node, oldKeys, socket, story, telling, overlap>>
  BY DEF EndSession, Lapse
<1>1. /\ pass' = [u \in Pass |-> pass'[u]]
      /\ \A u \in Pass : pass[u] = NoPass => pass'[u] = NoPass
      /\ \A u \in Pass : pass[u] # NoPass => /\ pass'[u] \in Passes /\ pass'[u].holder = pass[u].holder
                                            /\ pass'[u].key = pass[u].key /\ pass'[u].left <= pass[u].left
  <2>1. CASE EndSession(t)
    <3>1. PICK no \in BOOLEAN : no = FALSE
      OBVIOUS
    <3>2. PICK new : new = [pass[t] EXCEPT !.live = no]
      OBVIOUS
    <3>3. pass[t] # NoPass /\ pass' = [pass EXCEPT ![t] = new]
      BY <2>1, <3>1, <3>2 DEF EndSession
    <3>4. pass[t] \in Passes
      BY <3>3, PassTyped DEF RealtimeInv
    <3>5. new \in Passes /\ new.holder = pass[t].holder /\ new.key = pass[t].key /\ new.left <= pass[t].left
      BY <3>2, <3>4, RealtimeAssumption DEF Passes
    <3>6. \A u \in Pass : pass[u] # NoPass => pass[u] \in Passes /\ pass[u].left <= pass[u].left
      BY PassTyped DEF RealtimeInv
    <3>7. pass = [u \in Pass |-> pass[u]]
      BY DEF RealtimeInv, RealtimeTypeOK
    <3> HIDE <3>2
    <3> QED BY <3>3, <3>5, <3>6, <3>7
  <2>2. CASE Lapse
    <3>1. pass' = [u \in Pass |-> IF pass[u] # NoPass /\ pass[u].left > 0 THEN [pass[u] EXCEPT !.left = @ - 1] ELSE pass[u]]
      BY <2>2 DEF Lapse
    <3>2. ASSUME NEW u \in Pass, pass[u] # NoPass
          PROVE  /\ pass'[u] \in Passes /\ pass'[u].holder = pass[u].holder
                 /\ pass'[u].key = pass[u].key /\ pass'[u].left <= pass[u].left
      <4>1. pass[u] \in Passes /\ pass[u].left \in 0..Expiry
        BY <3>2, PassTyped DEF RealtimeInv
      <4>2. PICK new : new = [pass[u] EXCEPT !.left = pass[u].left - 1]
        OBVIOUS
      <4>3. pass[u].left > 0 => new \in Passes /\ new.holder = pass[u].holder
                 /\ new.key = pass[u].key /\ new.left <= pass[u].left
        BY <4>1, <4>2, RealtimeAssumption DEF Passes
      <4>4. pass'[u] = IF pass[u].left > 0 THEN new ELSE pass[u]
        BY <3>1, <3>2, <4>2
      <4>5. pass[u].left <= pass[u].left
        BY <4>1, RealtimeAssumption
      <4> QED BY <4>1, <4>3, <4>4, <4>5
    <3>3. \A u \in Pass : pass[u] = NoPass => pass'[u] = NoPass
      BY <3>1
    <3>4. pass' = [u \in Pass |-> pass'[u]]
      BY <3>1
    <3> QED BY <3>2, <3>3, <3>4
  <2> QED BY <2>1, <2>2
<1>2. pass' \in [Pass -> Passes \cup {NoPass}]
  <2>1. \A u \in Pass : pass'[u] \in Passes \cup {NoPass}
    BY <1>1
  <2> QED BY <1>1, <2>1
<1>3. RealtimeTypeOK'
  BY <1>0, <1>2 DEF RealtimeInv, RealtimeTypeOK
<1>4. \A u \in Pass : pass[u] # NoPass => pass'[u] # NoPass
  BY <1>1, NoPassAssumption
<1>5. PassesGoOn
  BY <1>1, <1>4 DEF PassesGoOn
<1>6. KeysStand
  BY <1>0, <1>1, <1>5 DEF KeysStand
<1> QED BY <1>0, <1>3, <1>5, <1>6, KeysUntouched, TokenSteps DEF RealtimeInv, RealtimeStep

(* A new process. *)
LEMMA NewestIsNewest ==
    ASSUME RealtimeInv, Node # {}
    PROVE  Newest \in 1..Generations /\ Newest \in {node[n].current : n \in Node} /\ \A n \in Node : node[n].current <= Newest
<1>1. PICK m \in Node : \A l \in Node : node[l].current <= node[m].current
  BY DEF RealtimeInv, KeysInv, KeysOpen
<1>2. \E k \in {node[n].current : n \in Node} : \A n \in Node : node[n].current <= k
  BY <1>1
<1>3. Newest \in {node[n].current : n \in Node} /\ \A n \in Node : node[n].current <= Newest
  BY <1>2 DEF Newest
<1>4. Newest \in 1..Generations
  BY <1>3 DEF RealtimeInv, RealtimeTypeOK, Nodes
<1> QED BY <1>3, <1>4

(* A new process has every key of which a token lives, and none older than the others have. *)
LEMMA ProcessReplaced == ASSUME RealtimeInv, NEW n \in Node, Redeploy(n) PROVE RealtimeStep
<1>1. PICK key : key = IF \A m \in Node : node[m].current = Newest THEN Newest + 1 ELSE Newest
  OBVIOUS
<1>2. PICK kept : kept = KeptKeys
  OBVIOUS
<1>3. /\ key <= Generations /\ oldKeys' = kept \cup {key}
      /\ node' = [node EXCEPT ![n] = [current |-> key, previous |-> kept \ {key}]]
      /\ socket' = [s \in Socket |-> IF socket[s] # NoPass /\ socket[s].node = n THEN NoPass ELSE socket[s]]
      /\ telling' = {news \in telling : news[3] # n} /\ UNCHANGED <<pass, story, overlap>>
  BY <1>1, <1>2 DEF Redeploy
<1>4. key \in 1..Generations /\ \A m \in Node : node[m].current <= key
  <2>1. Newest \in 1..Generations /\ \A m \in Node : node[m].current <= Newest /\ node[m].current \in 1..Generations
    BY NewestIsNewest DEF RealtimeInv, RealtimeTypeOK, Nodes
  <2>2. key = Newest \/ key = Newest + 1
    BY <1>1
  <2> QED BY <1>3, <2>1, <2>2, RealtimeAssumption
<1>5. kept \subseteq 1..Generations /\ kept \subseteq oldKeys
  BY <1>2 DEF KeptKeys, RealtimeInv, RealtimeTypeOK
<1>6. PICK new \in Nodes : new = [current |-> key, previous |-> kept \ {key}]
  BY <1>4, <1>5 DEF Nodes
<1>7. node' = [node EXCEPT ![n] = new] /\ new.current = key /\ new.previous = kept \ {key}
  BY <1>3, <1>6
<1>8. RealtimeTypeOK'
  <2>1. node' \in [Node -> Nodes] /\ oldKeys' \subseteq 1..Generations
    BY <1>3, <1>4, <1>5, <1>7 DEF RealtimeInv, RealtimeTypeOK
  <2>2. socket' \in [Socket -> Sockets \cup {NoPass}]
    BY <1>3 DEF RealtimeInv, RealtimeTypeOK
  <2>3. telling' \subseteq Story \X (0..MaxVersion) \X Node
    BY <1>3 DEF RealtimeInv, RealtimeTypeOK
  <2> QED BY <1>3, <2>1, <2>2, <2>3 DEF RealtimeInv, RealtimeTypeOK
<1>9. /\ node'[n].current = key /\ \A k \in kept : k \in Verifiers(n)'
      /\ \A m \in Node : m # n => node'[m] = node[m] /\ Verifiers(m)' = Verifiers(m) /\ node[m].current \in kept
  <2>1. node'[n] = new /\ \A m \in Node : m # n => node'[m] = node[m]
    BY <1>7 DEF RealtimeInv, RealtimeTypeOK
  <2>2. \A m \in Node : node[m].current \in kept
    BY <1>2 DEF RealtimeInv, KeysInv, KeysOpen, KeptKeys
  <2> QED BY <1>7, <2>1, <2>2 DEF Verifiers
<1>10. ASSUME NEW t \in Pass, pass[t] # NoPass, pass[t].left > 0 PROVE pass[t].key \in kept
  BY <1>2, <1>10 DEF RealtimeInv, KeysInv, KeysOpen, KeptKeys
<1>11. KeysOpen'
  <2>1. \A l \in Node : node'[l].current <= node'[n].current
    BY <1>4, <1>9
  <2>2. ASSUME NEW l, NEW m, l \in Node, m \in Node, node'[l].current <= node'[m].current PROVE node'[l].current \in Verifiers(m)'
    <3>1. CASE l = m
      BY <3>1 DEF Verifiers
    <3>2. CASE m = n /\ l # n
      BY <1>9, <2>2, <3>2
    <3>3. CASE m # n /\ l # n
      <4>1. node[l].current <= node[m].current
        BY <1>9, <2>2, <3>3
      <4> QED BY <1>9, <2>2, <3>3, <4>1 DEF RealtimeInv, KeysInv, KeysOpen
    <3>4. CASE l = n /\ m # n
      <4>1. key = node[m].current
        BY <1>4, <1>9, <2>2, <3>4 DEF RealtimeInv, RealtimeTypeOK, Nodes
      <4>2. node[m].current \in Verifiers(m)
        BY DEF Verifiers
      <4> QED BY <1>9, <2>2, <3>4, <4>1, <4>2
    <3> QED BY <3>1, <3>2, <3>3, <3>4
  <2>3. \A m \in Node : node'[m].current \in oldKeys'
    BY <1>3, <1>9
  <2>4. \A t \in Pass : pass'[t] # NoPass /\ pass'[t].left > 0 => pass'[t].key \in oldKeys'
    BY <1>3, <1>10
  <2> QED BY <2>1, <2>2, <2>3, <2>4 DEF KeysOpen
<1>12. TokensOpenDoors'
  <2>1. ASSUME NEW t \in Pass, NEW m \in Node, pass'[t] # NoPass, pass'[t].left > 0, node'[m].current >= pass'[t].key
        PROVE  pass'[t].key \in Verifiers(m)'
    <3>1. CASE m = n
      BY <1>3, <1>9, <1>10, <2>1, <3>1
    <3>2. CASE m # n
      BY <1>3, <1>9, <2>1, <3>2 DEF RealtimeInv, KeysInv, TokensOpenDoors, VerifyAccessToken
    <3> QED BY <3>1, <3>2
  <2> QED BY <2>1 DEF TokensOpenDoors, VerifyAccessToken
<1>13. PassesGoOn
  <2>1. \A u \in Pass : pass[u] # NoPass => pass'[u] = pass[u] /\ pass[u].left <= pass[u].left
    BY <1>3, PassTyped DEF RealtimeInv
  <2> QED BY <2>1 DEF PassesGoOn
<1>14. \A s \in Socket : socket'[s] = NoPass \/ socket'[s] = socket[s]
  BY <1>3
<1>15. NewsInv'
  <2>1. ASSUME NEW s \in Socket, socket'[s] # NoPass
        PROVE  pass'[socket'[s].pass] # NoPass /\ socket[s] # NoPass /\ socket'[s] = socket[s]
    BY <1>3, <1>14, <2>1 DEF RealtimeInv, NewsInv, SocketsHaveTokens
  <2>2. NewsStand
    BY <1>3, <2>1 DEF NewsStand
  <2> QED BY <1>8, <1>13, <2>2, NewsUntouched
<1>16. NothingOpens
  BY <1>14 DEF NothingOpens
<1> QED BY <1>8, <1>11, <1>12, <1>15, <1>16 DEF RealtimeStep, RealtimeInv, KeysInv

(* Steps of sockets alone. *)
SocketsMove ==
    /\ UNCHANGED <<node, oldKeys, pass, story, telling, overlap>>
    /\ socket' \in [Socket -> Sockets \cup {NoPass}]
    /\ \A s \in Socket : socket'[s] # NoPass =>
          /\ pass[socket'[s].pass] # NoPass
          /\ \/ socket'[s].heard = <<>>
             \/ socket[s] # NoPass /\ socket'[s].heard = socket[s].heard /\ socket'[s].pass = socket[s].pass

(* Such steps keep the invariant. *)
LEMMA SocketSteps == ASSUME RealtimeInv, SocketsMove PROVE RealtimeInv'
<1>1. RealtimeTypeOK'
  BY DEF SocketsMove, RealtimeInv, RealtimeTypeOK
<1>2. PassesGoOn
  <2>1. \A u \in Pass : pass[u] # NoPass => pass'[u] = pass[u] /\ pass[u].left <= pass[u].left
    BY PassTyped DEF RealtimeInv, SocketsMove
  <2> QED BY <2>1 DEF PassesGoOn
<1>3. KeysStand
  BY <1>2 DEF KeysStand, SocketsMove
<1>4. NewsStand
  BY DEF NewsStand, SocketsMove
<1> QED BY <1>1, <1>2, <1>3, <1>4, KeysUntouched, NewsUntouched DEF RealtimeInv

(* The handshake, the check of its session, the rooms, and the end. *)
LEMMA SocketOpens ==
    ASSUME RealtimeInv, NEW s \in Socket,
           (\E t \in Pass, n \in Node : Handshake(s, t, n)) \/ CheckSession(s) \/ JoinRooms(s) \/ Disconnect(s)
    PROVE  RealtimeStep
<1>1. PICK new \in Sockets \cup {NoPass} :
          /\ socket' = [socket EXCEPT ![s] = new]
          /\ new # NoPass => /\ pass[new.pass] # NoPass
                             /\ \/ new.heard = <<>>
                                \/ socket[s] # NoPass /\ new.heard = socket[s].heard /\ new.pass = socket[s].pass
          /\ socket[s] # NoPass /\ socket[s].at = "session" /\ ~pass[socket[s].pass].live => new = NoPass
  <2>1. ASSUME NEW t \in Pass, NEW n \in Node, Handshake(s, t, n)
        PROVE  /\ [pass |-> t, node |-> n, at |-> "session", heard |-> <<>>] \in Sockets
               /\ socket' = [socket EXCEPT ![s] = [pass |-> t, node |-> n, at |-> "session", heard |-> <<>>]]
               /\ pass[t] # NoPass /\ socket[s] = NoPass
    BY <2>1 DEF Handshake, Sockets
  <2>2. ASSUME NEW at \in {"session", "person", "open"}, socket[s] # NoPass
        PROVE  /\ [socket[s] EXCEPT !.at = at] \in Sockets
               /\ [socket[s] EXCEPT !.at = at].pass = socket[s].pass /\ [socket[s] EXCEPT !.at = at].heard = socket[s].heard
               /\ pass[socket[s].pass] # NoPass
    <3>1. socket[s] \in Sockets /\ pass[socket[s].pass] # NoPass
      BY <2>2, SocketTyped DEF RealtimeInv, NewsInv, SocketsHaveTokens
    <3> QED BY <3>1 DEF Sockets
  <2>3. CASE \E t \in Pass, n \in Node : Handshake(s, t, n)
    <3>1. PICK t \in Pass, n \in Node : Handshake(s, t, n)
      BY <2>3
    <3>2. PICK new \in Sockets : new = [pass |-> t, node |-> n, at |-> "session", heard |-> <<>>]
      BY <2>1, <3>1
    <3>3. pass[new.pass] # NoPass /\ new.heard = <<>> /\ socket[s] = NoPass
      BY <2>1, <3>1, <3>2
    <3>4. socket' = [socket EXCEPT ![s] = new]
      BY <2>1, <3>1, <3>2
    <3> QED BY <3>3, <3>4
  <2>4. CASE CheckSession(s)
    <3>1. socket[s] # NoPass /\ socket[s].at = "session"
          /\ socket' = [socket EXCEPT ![s] = IF pass[socket[s].pass].live THEN [socket[s] EXCEPT !.at = "person"] ELSE NoPass]
      BY <2>4 DEF CheckSession, SocketAt, SessionActive
    <3>2. CASE pass[socket[s].pass].live
      BY <2>2, <3>1, <3>2
    <3>3. CASE ~pass[socket[s].pass].live
      BY <3>1, <3>3
    <3> QED BY <3>2, <3>3
  <2>5. CASE JoinRooms(s)
    <3>1. socket[s] # NoPass /\ socket[s].at = "person"
      BY <2>5 DEF JoinRooms, SocketAt
    <3>2. PICK new : new = [socket[s] EXCEPT !.at = "open"]
      OBVIOUS
    <3>3. new \in Sockets /\ pass[new.pass] # NoPass /\ new.heard = socket[s].heard /\ new.pass = socket[s].pass
      BY <2>2, <3>1, <3>2
    <3>4. socket' = [socket EXCEPT ![s] = new]
      BY <2>5, <3>2 DEF JoinRooms, RealtimeInv, RealtimeTypeOK
    <3> QED BY <3>1, <3>3, <3>4
  <2>6. CASE Disconnect(s)
    BY <2>6 DEF Disconnect
  <2> QED BY <2>3, <2>4, <2>5, <2>6
<1>2. UNCHANGED <<node, oldKeys, pass, story, telling, overlap>>
  BY DEF Handshake, CheckSession, JoinRooms, Disconnect
<1>3. socket'[s] = new /\ \A r \in Socket : r # s => socket'[r] = socket[r]
  BY <1>1 DEF RealtimeInv, RealtimeTypeOK
<1>4. SocketsMove
  <2>1. socket' \in [Socket -> Sockets \cup {NoPass}]
    BY <1>1 DEF RealtimeInv, RealtimeTypeOK
  <2>2. ASSUME NEW r \in Socket, socket'[r] # NoPass
        PROVE  /\ pass[socket'[r].pass] # NoPass
               /\ \/ socket'[r].heard = <<>>
                  \/ socket[r] # NoPass /\ socket'[r].heard = socket[r].heard /\ socket'[r].pass = socket[r].pass
    BY <1>1, <1>3, <2>2 DEF RealtimeInv, NewsInv, SocketsHaveTokens
  <2> QED BY <1>2, <2>1, <2>2 DEF SocketsMove
<1>5. NothingOpens
  BY <1>1, <1>3 DEF NothingOpens
<1> QED BY <1>4, <1>5, SocketSteps DEF RealtimeStep

(* A change commits, and is told. *)
LEMMA NewsComes == ASSUME RealtimeInv, NEW x \in Story, NEW n \in Node, Commit(x, n) PROVE RealtimeStep
<1>0. UNCHANGED <<node, oldKeys, pass, socket>>
  BY DEF Commit
<1>1. PICK new \in Story \X (0..MaxVersion) \X Node :
          /\ new = <<x, story[x] + 1, n>> /\ telling' = telling \cup {new} /\ story' = [story EXCEPT ![x] = story[x] + 1]
  <2>1. story[x] \in 0..MaxVersion /\ story[x] < MaxVersion
    BY DEF Commit, RealtimeInv, RealtimeTypeOK
  <2>2. story[x] + 1 \in 0..MaxVersion
    BY <2>1, RealtimeAssumption
  <2>3. PICK new : new = <<x, story[x] + 1, n>>
    OBVIOUS
  <2>4. new \in Story \X (0..MaxVersion) \X Node
    BY <2>2, <2>3
  <2>5. telling' = telling \cup {new} /\ story' = [story EXCEPT ![x] = story[x] + 1]
    BY <2>3 DEF Commit
  <2> QED BY <2>3, <2>4, <2>5
<1>2. overlap' = IF \E news \in telling : news[1] = x THEN overlap \cup {x} ELSE overlap
  BY DEF Commit
<1>3. /\ story \in [Story -> 0..MaxVersion] /\ story[x] < MaxVersion
      /\ telling \subseteq Story \X (0..MaxVersion) \X Node /\ overlap \subseteq Story
  BY DEF Commit, RealtimeInv, RealtimeTypeOK
<1>4. RealtimeTypeOK'
  <2>1. story' \in [Story -> 0..MaxVersion]
    BY <1>1, <1>3, RealtimeAssumption
  <2> QED BY <1>0, <1>1, <1>2, <1>3, <2>1 DEF RealtimeInv, RealtimeTypeOK
<1>5. PassesGoOn
  <2>1. \A u \in Pass : pass[u] # NoPass => pass'[u] = pass[u] /\ pass[u].left <= pass[u].left
    BY <1>0, PassTyped DEF RealtimeInv
  <2> QED BY <2>1 DEF PassesGoOn
<1>6. KeysStand
  BY <1>0, <1>5 DEF KeysStand
<1>7. /\ \A y \in Story : story'[y] \in Int /\ story[y] \in Int /\ story[y] <= story'[y]
      /\ story'[x] = story[x] + 1
  BY <1>1, <1>3
<1>8. /\ new[1] = x /\ new[2] = story[x] + 1 /\ new[2] \in Int
      /\ \A m \in telling : m[1] \in Story /\ m[2] \in Int
  BY <1>1, <1>3, RealtimeAssumption
<1>9. /\ overlap \subseteq overlap'
      /\ \A m \in telling : m[1] = x => x \in overlap'
  BY <1>2
<1>10. ToldNext'
  <2>1. \A m \in telling' : m[2] <= story'[m[1]]
    BY <1>1, <1>7, <1>8 DEF RealtimeInv, NewsInv, ToldNext
  <2>2. \A l, m \in telling' : l[1] = m[1] /\ l[1] \notin overlap' => l = m
    BY <1>1, <1>8, <1>9 DEF RealtimeInv, NewsInv, ToldNext
  <2>3. ASSUME NEW m \in telling', NEW s \in Socket, m[1] \notin overlap', socket[s] # NoPass,
               NEW i \in DOMAIN socket[s].heard, socket[s].heard[i][1] = m[1]
        PROVE  socket[s].heard[i][2] < m[2]
    <3>1. CASE m \in telling
      BY <1>9, <2>3, <3>1 DEF RealtimeInv, NewsInv, ToldNext
    <3>2. CASE m = new
      <4>1. socket[s].heard[i] \in Story \X (0..MaxVersion)
        BY <2>3, SocketTyped DEF RealtimeInv
      <4>2. socket[s].heard[i][2] <= story[x]
        BY <1>8, <2>3, <3>2 DEF RealtimeInv, NewsInv, NewsIsTrue
      <4>3. socket[s].heard[i][2] \in Int
        BY <4>1
      <4> QED BY <1>7, <1>8, <3>2, <4>2, <4>3
    <3> QED BY <1>1, <2>3, <3>1, <3>2
  <2> QED BY <1>0, <2>1, <2>2, <2>3 DEF ToldNext
<1>11. NewsIsTrue'
  <2>1. ASSUME NEW s \in Socket, socket[s] # NoPass, NEW i \in DOMAIN socket[s].heard
        PROVE  socket[s].heard[i][2] <= story'[socket[s].heard[i][1]]
    <3>1. socket[s].heard[i] \in Story \X (0..MaxVersion)
      BY <2>1, SocketTyped DEF RealtimeInv
    <3>2. socket[s].heard[i][2] <= story[socket[s].heard[i][1]]
      BY <2>1 DEF RealtimeInv, NewsInv, NewsIsTrue
    <3>3. socket[s].heard[i][2] \in Int /\ socket[s].heard[i][1] \in Story
      BY <3>1
    <3> QED BY <1>7, <3>2, <3>3
  <2>2. \A s \in Socket : socket[s] # NoPass => \A i \in DOMAIN socket[s].heard :
            StoryOf[socket[s].heard[i][1]] = HomeOf[pass[socket[s].pass].holder]
    BY DEF RealtimeInv, NewsInv, NewsIsTrue
  <2>3. \A s \in Socket : socket[s] # NoPass => \A i, j \in DOMAIN socket[s].heard :
            i < j /\ socket[s].heard[i][1] = socket[s].heard[j][1] /\ socket[s].heard[i][1] \notin overlap' =>
                socket[s].heard[i][2] < socket[s].heard[j][2]
    BY <1>9 DEF RealtimeInv, NewsInv, NewsIsTrue
  <2> QED BY <1>0, <2>1, <2>2, <2>3 DEF NewsIsTrue
<1>12. SocketsHaveTokens'
  BY <1>0 DEF RealtimeInv, NewsInv, SocketsHaveTokens
<1>13. NothingOpens
  BY <1>0 DEF NothingOpens
<1> QED BY <1>4, <1>6, <1>10, <1>11, <1>12, <1>13, KeysUntouched DEF RealtimeStep, RealtimeInv, NewsInv

(* What is appended comes last. *)
LEMMA OneMore ==
    ASSUME NEW S, NEW q \in Seq(S), NEW e \in S
    PROVE  /\ DOMAIN Append(q, e) = (DOMAIN q) \cup {Len(q) + 1}
           /\ \A i \in DOMAIN q : Append(q, e)[i] = q[i] /\ i < Len(q) + 1 /\ ~(Len(q) + 1 < i)
           /\ Append(q, e)[Len(q) + 1] = e /\ ~(Len(q) + 1 < Len(q) + 1)
<1>1. PICK k \in Nat : k = Len(q) /\ DOMAIN q = 1..k
  OBVIOUS
<1>2. /\ Len(Append(q, e)) = k + 1 /\ Append(q, e) \in Seq(S)
      /\ \A i \in 1..k : Append(q, e)[i] = q[i]
      /\ Append(q, e)[k + 1] = e
  BY <1>1
<1>3. DOMAIN Append(q, e) = 1..(k + 1) /\ 1..(k + 1) = (1..k) \cup {k + 1}
  BY <1>2
<1>4. \A i \in 1..k : i < k + 1 /\ ~(k + 1 < i)
  OBVIOUS
<1> QED BY <1>1, <1>2, <1>3, <1>4

(* What is told has happened, is of the tenant of the room, and is newer than what was heard of the same order. *)
LEMMA NewsTold ==
    ASSUME RealtimeInv, NEW x \in Story, NEW n \in Node, NEW v \in 1..MaxVersion, EmitRealtime(x, v, n)
    PROVE  RealtimeStep
<1>0. UNCHANGED <<node, oldKeys, pass, story, overlap>>
  BY DEF EmitRealtime
<1>1. PICK told : told = <<x, v, n>>
  OBVIOUS
<1>2. told \in telling /\ telling' = telling \ {told} /\ told[1] = x /\ told[2] = v
  BY <1>1 DEF EmitRealtime
<1>3. PICK news \in Story \X (0..MaxVersion) : news = <<x, v>>
  <2>1. v \in 0..MaxVersion
    BY RealtimeAssumption
  <2> QED BY <2>1
<1>4. news[1] = x /\ news[2] = v /\ v \in Int
  BY <1>3, RealtimeAssumption
<1>5. ASSUME NEW s \in Socket, socket[s] # NoPass
      PROVE  /\ socket[s].pass \in Pass /\ socket[s].heard \in Seq(Story \X (0..MaxVersion))
             /\ pass[socket[s].pass] # NoPass
             /\ socket[s] \in Sockets /\ DOMAIN socket[s].heard = 1..Len(socket[s].heard) /\ Len(socket[s].heard) \in Nat
             /\ \A i \in DOMAIN socket[s].heard : socket[s].heard[i][2] \in Int
  <2>1. socket[s].heard \in Seq(Story \X (0..MaxVersion)) /\ socket[s].pass \in Pass /\ socket[s] \in Sockets
        /\ \A i \in DOMAIN socket[s].heard : socket[s].heard[i] \in Story \X (0..MaxVersion)
    BY <1>5, SocketTyped DEF RealtimeInv
  <2>2. pass[socket[s].pass] # NoPass
    BY <1>5 DEF RealtimeInv, NewsInv, SocketsHaveTokens
  <2> QED BY <2>1, <2>2
<1>6. ASSUME NEW s \in Socket
      PROVE  \/ socket'[s] = socket[s]
             \/ /\ socket[s] # NoPass /\ socket[s].at = "open" /\ HomeOf[pass[socket[s].pass].holder] = StoryOf[x]
                /\ socket'[s] \in Sockets /\ socket'[s].pass = socket[s].pass
                /\ socket'[s].heard = Append(socket[s].heard, news)
  <2>1. socket'[s] = IF s \in RoomOf(x, n) THEN [socket[s] EXCEPT !.heard = Append(socket[s].heard, news)] ELSE socket[s]
    BY <1>3 DEF EmitRealtime
  <2>2. CASE s \in RoomOf(x, n)
    <3>1. socket[s] # NoPass /\ socket[s].at = "open" /\ HomeOf[pass[socket[s].pass].holder] = StoryOf[x]
      BY <2>2 DEF RoomOf, TenantRoom, SocketAt
    <3>2. Append(socket[s].heard, news) \in Seq(Story \X (0..MaxVersion)) /\ socket[s] \in Sockets
      BY <1>5, <3>1
    <3>3. PICK more \in Seq(Story \X (0..MaxVersion)) : more = Append(socket[s].heard, news)
      BY <3>2
    <3>4. socket'[s] = [socket[s] EXCEPT !.heard = more]
      BY <2>1, <2>2, <3>3
    <3>5. socket'[s] \in Sockets /\ socket'[s].pass = socket[s].pass /\ socket'[s].heard = more
      BY <3>2, <3>4 DEF Sockets
    <3> QED BY <3>1, <3>3, <3>5
  <2> QED BY <2>1, <2>2
<1>7. RealtimeTypeOK'
  <2>1. \A s \in Socket : socket'[s] \in Sockets \cup {NoPass}
    BY <1>6 DEF RealtimeInv, RealtimeTypeOK
  <2>2. socket' = [s \in Socket |-> socket'[s]]
    BY DEF EmitRealtime
  <2>3. socket' \in [Socket -> Sockets \cup {NoPass}]
    BY <2>1, <2>2
  <2> QED BY <1>0, <1>2, <2>3 DEF RealtimeInv, RealtimeTypeOK
<1>8. PassesGoOn
  <2>1. \A u \in Pass : pass[u] # NoPass => pass'[u] = pass[u] /\ pass[u].left <= pass[u].left
    BY <1>0, PassTyped DEF RealtimeInv
  <2> QED BY <2>1 DEF PassesGoOn
<1>9. KeysStand
  BY <1>0, <1>8 DEF KeysStand
<1>10. NothingOpens
  BY <1>6 DEF NothingOpens
<1>11. ASSUME NEW s \in Socket, socket'[s] # NoPass
       PROVE  /\ socket[s] # NoPass /\ socket'[s].pass = socket[s].pass
              /\ \/ socket'[s].heard = socket[s].heard
                 \/ /\ HomeOf[pass[socket[s].pass].holder] = StoryOf[x]
                    /\ DOMAIN socket'[s].heard = (DOMAIN socket[s].heard) \cup {Len(socket[s].heard) + 1}
                    /\ \A i \in DOMAIN socket[s].heard :
                          socket'[s].heard[i] = socket[s].heard[i] /\ i < Len(socket[s].heard) + 1 /\ ~(Len(socket[s].heard) + 1 < i)
                    /\ ~(Len(socket[s].heard) + 1 < Len(socket[s].heard) + 1)
                    /\ socket'[s].heard[Len(socket[s].heard) + 1] = news
  <2>1. CASE socket'[s] = socket[s]
    BY <1>11, <2>1
  <2>2. CASE /\ socket[s] # NoPass /\ HomeOf[pass[socket[s].pass].holder] = StoryOf[x]
             /\ socket'[s].pass = socket[s].pass /\ socket'[s].heard = Append(socket[s].heard, news)
    <3>1. socket[s].heard \in Seq(Story \X (0..MaxVersion))
      BY <1>5, <2>2
    <3>2. /\ DOMAIN Append(socket[s].heard, news) = (DOMAIN socket[s].heard) \cup {Len(socket[s].heard) + 1}
          /\ \A i \in DOMAIN socket[s].heard :
                Append(socket[s].heard, news)[i] = socket[s].heard[i] /\ i < Len(socket[s].heard) + 1 /\ ~(Len(socket[s].heard) + 1 < i)
          /\ Append(socket[s].heard, news)[Len(socket[s].heard) + 1] = news
          /\ ~(Len(socket[s].heard) + 1 < Len(socket[s].heard) + 1)
      BY <3>1, OneMore, Zenon
    <3> QED BY <2>2, <3>2
  <2> QED BY <1>6, <2>1, <2>2
<1>12. SocketsHaveTokens'
  BY <1>0, <1>5, <1>11 DEF SocketsHaveTokens
<1>13. ToldNext'
  <2>1. /\ \A m \in telling' : m[2] <= story'[m[1]]
        /\ \A l, m \in telling' : l[1] = m[1] /\ l[1] \notin overlap' => l = m
    BY <1>0, <1>2 DEF RealtimeInv, NewsInv, ToldNext
  <2>2. \A m \in telling' : m \in telling /\ (m[1] = x => x \in overlap)
    BY <1>2 DEF RealtimeInv, NewsInv, ToldNext
  <2>3. ASSUME NEW m \in telling', NEW s \in Socket, m[1] \notin overlap', socket'[s] # NoPass,
               NEW i \in DOMAIN socket'[s].heard, socket'[s].heard[i][1] = m[1]
        PROVE  socket'[s].heard[i][2] < m[2]
    <3>1. m \in telling /\ m[1] \notin overlap /\ m[1] # x
      BY <1>0, <2>2, <2>3
    <3>2. socket[s] # NoPass /\ i \in DOMAIN socket[s].heard /\ socket'[s].heard[i] = socket[s].heard[i]
      BY <1>4, <1>11, <2>3, <3>1
    <3> QED BY <2>3, <3>1, <3>2 DEF RealtimeInv, NewsInv, ToldNext
  <2> QED BY <2>1, <2>3 DEF ToldNext
<1>14. NewsIsTrue'
  <2>1. v <= story[x] /\ (x \notin overlap => \A s \in Socket : socket[s] # NoPass =>
            \A i \in DOMAIN socket[s].heard : socket[s].heard[i][1] = x => socket[s].heard[i][2] < v)
    BY <1>2 DEF RealtimeInv, NewsInv, ToldNext
  <2>2. ASSUME NEW s \in Socket, socket'[s] # NoPass, NEW i \in DOMAIN socket'[s].heard
        PROVE  /\ StoryOf[socket'[s].heard[i][1]] = HomeOf[pass'[socket'[s].pass].holder]
               /\ socket'[s].heard[i][2] <= story'[socket'[s].heard[i][1]]
    <3>1. socket[s] # NoPass /\ socket'[s].pass = socket[s].pass
      BY <1>11, <2>2
    <3>2. CASE i \in DOMAIN socket[s].heard /\ socket'[s].heard[i] = socket[s].heard[i]
      BY <1>0, <3>1, <3>2 DEF RealtimeInv, NewsInv, NewsIsTrue
    <3>3. CASE socket'[s].heard[i] = news /\ HomeOf[pass[socket[s].pass].holder] = StoryOf[x]
      BY <1>0, <1>4, <2>1, <3>1, <3>3
    <3> QED BY <1>11, <2>2, <3>2, <3>3
  <2>3. ASSUME NEW s \in Socket, socket'[s] # NoPass, NEW i \in DOMAIN socket'[s].heard, NEW j \in DOMAIN socket'[s].heard,
               i < j, socket'[s].heard[i][1] = socket'[s].heard[j][1], socket'[s].heard[i][1] \notin overlap'
        PROVE  socket'[s].heard[i][2] < socket'[s].heard[j][2]
    <3>1. socket[s] # NoPass
      BY <1>11, <2>3
    <3>2. CASE /\ i \in DOMAIN socket[s].heard /\ socket'[s].heard[i] = socket[s].heard[i]
               /\ j \in DOMAIN socket[s].heard /\ socket'[s].heard[j] = socket[s].heard[j]
      BY <1>0, <2>3, <3>1, <3>2 DEF RealtimeInv, NewsInv, NewsIsTrue
    <3>3. CASE i \in DOMAIN socket[s].heard /\ socket'[s].heard[i] = socket[s].heard[i] /\ socket'[s].heard[j] = news
      BY <1>0, <1>4, <2>1, <2>3, <3>1, <3>3
    <3> QED BY <1>11, <2>3, <3>2, <3>3
  <2> QED BY <2>2, <2>3 DEF NewsIsTrue
<1> QED BY <1>7, <1>9, <1>10, <1>12, <1>13, <1>14, KeysUntouched DEF RealtimeStep, RealtimeInv, NewsInv

(* Every step keeps the invariant of tokens and sockets, and opens no door to an ended session. *)
LEMMA RealtimeNextKeeps == ASSUME RealtimeInv, [RealtimeNext]_realtimeVars PROVE RealtimeStep
<1>1. ASSUME SignsIn PROVE RealtimeStep
  BY <1>1, TokenSigned DEF SignsIn
<1>2. ASSUME KeysNext PROVE RealtimeStep
  <2>1. CASE Lapse
    <3>1. PICK t \in Pass : pass[t] # NoPass
      BY <2>1 DEF Lapse
    <3> QED BY <2>1, <3>1, TokenEnded
  <2> QED BY <1>1, <1>2, <2>1, ProcessReplaced DEF KeysNext
<1>3. ASSUME SocketsNext PROVE RealtimeStep
  BY <1>1, <1>3, TokenEnded, SocketOpens, NewsComes, NewsTold DEF SocketsNext
<1>4. CASE UNCHANGED realtimeVars
  <2>1. UNCHANGED <<node, oldKeys, pass, socket, story, telling, overlap>>
    BY <1>4 DEF realtimeVars
  <2>2. SocketsMove
    BY <2>1 DEF SocketsMove, RealtimeInv, RealtimeTypeOK, NewsInv, SocketsHaveTokens
  <2>3. NothingOpens
    BY <2>1 DEF NothingOpens
  <2> QED BY <2>2, <2>3, SocketSteps DEF RealtimeStep
<1> QED BY <1>2, <1>3, <1>4 DEF RealtimeNext

-----------------------------------------------------------------------------
(* The parts together (MCAccounts). *)

AccountsInv == StaffInv /\ LinksInv /\ ShopperInv /\ CallsInv /\ RealtimeInv

(* What staff are promised. *)
LEMMA StaffSecrets == StaffInv => StaffTypeOK /\ OneLiveToken /\ PasswordEndsSessions
<1> SUFFICES ASSUME StaffInv PROVE PasswordEndsSessions
  BY DEF StaffInv
<1>1. ASSUME NEW u \in orderly, ~Asking(u) PROVE ~SigningOut(u)
  BY <1>1 DEF Asking, SigningOut
<1> QED BY <1>1 DEF StaffInv, Known, PasswordEndsSessions

(* All parts begin well, *)
LEMMA AccountsInitInv == AccountsInit => AccountsInv
  BY StaffInitInv, LinksInitInv, ShopperInitInv, CallsInitInv, RealtimeInitInv DEF AccountsInit, AccountsInv

(* a step is a step of one of them, *)
LEMMA StepsOfParts ==
    ASSUME [AccountsNext]_allVars
    PROVE  /\ [StaffNext]_staffVars /\ [LinksNext]_linkVars /\ [ShopperNext]_shopperVars
           /\ [CallsNext]_callVars /\ [RealtimeNext]_realtimeVars
  BY DEF AccountsNext, allVars, RealtimeNext

(* and keeps what is so of all. *)
LEMMA AccountsNextInv ==
    AccountsInv /\ [AccountsNext]_allVars => AccountsInv' /\ SessionsEnd /\ NothingIssued /\ NothingOpens
<1> SUFFICES ASSUME AccountsInv, [AccountsNext]_allVars PROVE AccountsInv' /\ SessionsEnd /\ NothingIssued /\ NothingOpens
  OBVIOUS
<1>1. /\ [StaffNext]_staffVars /\ [LinksNext]_linkVars /\ [ShopperNext]_shopperVars
      /\ [CallsNext]_callVars /\ [RealtimeNext]_realtimeVars
  BY StepsOfParts
<1>2. StaffInv' /\ SessionsEnd
  BY <1>1, StaffNextKeeps DEF AccountsInv, StaffStep
<1>3. LinksInv' /\ CallsInv'
  BY <1>1, LinksNextInv, CallsNextInv DEF AccountsInv
<1>4. ShopperInv' /\ NothingIssued
  BY <1>1, ShopperNextKeeps DEF AccountsInv, ShopperStep
<1>5. RealtimeInv' /\ NothingOpens
  BY <1>1, RealtimeNextKeeps DEF AccountsInv, RealtimeStep
<1> QED BY <1>2, <1>3, <1>4, <1>5 DEF AccountsInv

(* So it is always. *)
LEMMA AccountsAlways == AccountsSpec => []AccountsInv
<1>1. AccountsSpec => AccountsInit /\ [][AccountsNext]_allVars
  BY DEF AccountsSpec
<1>2. AccountsInv /\ [AccountsNext]_allVars => AccountsInv'
  BY AccountsNextInv
<1> QED BY <1>1, <1>2, AccountsInitInv, PTL

(* The rows of accounts, tokens, links, requests, shoppers, codes, sessions, calls and sockets have the values of the
   schema, whatever requests come between each other (the types of lists and figures are left to TLC). *)
THEOREM RowsAsTyped ==
    AccountsSpec => [](StaffTypeOK /\ LinksTypeOK /\ ShopperTypeOK /\ RealtimeTypeOK /\ CallsTypeOK)
<1>1. AccountsInv => StaffTypeOK /\ LinksTypeOK /\ ShopperTypeOK /\ RealtimeTypeOK /\ CallsTypeOK
  BY StaffSecrets, ShopperSecrets, CallsTell DEF AccountsInv, LinksInv, RealtimeInv
<1> QED BY <1>1, AccountsAlways, PTL

(* A secret works once: refresh tokens of staff and of shoppers, reset links, verification links, set-password codes,
   and the keys of charges (SecretsWorkOnce), for any number of people, tokens, requests and calls. *)
THEOREM SecretsAreForOnce == AccountsSpec => []SecretsWorkOnce
<1>1. AccountsInv => SecretsWorkOnce
  BY StaffSecrets, LinksWorkOnce, ShopperSecrets, CallsTell DEF AccountsInv, SecretsWorkOnce
<1> QED BY <1>1, AccountsAlways, PTL

(* A new password ends what was signed in with an older one, of staff and of shoppers (PasswordSignsOut). *)
THEOREM NewPasswordsSignOut == AccountsSpec => []PasswordSignsOut
<1>1. AccountsInv => PasswordSignsOut
  BY StaffSecrets, ShopperSecrets DEF AccountsInv, PasswordSignsOut
<1> QED BY <1>1, AccountsAlways, PTL

(* What sockets hear is of their tenant, has happened, and comes in its order; a token opens every process that was
   deployed since it was signed, however many rotations lie between; and what a call reports as done was done: the parts
   of AnswersAreSo that are not about lists and figures, in every state. *)
THEOREM WhatIsToldIsSo == AccountsSpec => [](NewsIsTrue /\ TokensOpenDoors /\ ReportedIsDone)
<1>1. AccountsInv => NewsIsTrue /\ TokensOpenDoors /\ ReportedIsDone
  BY CallsTell DEF AccountsInv, RealtimeInv, KeysInv, NewsInv
<1> QED BY <1>1, AccountsAlways, PTL

(* No step brings an ended session of staff back, lets one of a shopper issue a token, or lets one past the handshake of
   a socket (SessionsEndForGood). *)
THEOREM EndedSessionsStayEnded == AccountsSpec => SessionsEndForGood
<1>1. AccountsInv /\ [AccountsNext]_allVars => [SessionsEnd]_staffVars /\ [NothingIssued]_shopperVars /\ [NothingOpens]_realtimeVars
  BY AccountsNextInv
<1>2. AccountsSpec => [][AccountsNext]_allVars
  BY DEF AccountsSpec
<1>3. AccountsSpec => [][SessionsEnd]_staffVars /\ [][NothingIssued]_shopperVars /\ [][NothingOpens]_realtimeVars
  BY <1>1, <1>2, AccountsAlways, PTL
<1>4. SessionsEndForGood <=> [][SessionsEnd]_staffVars /\ [][NothingIssued]_shopperVars /\ [][NothingOpens]_realtimeVars
  BY DEF SessionsEndForGood, EndedStaysEnded, NoTokenAfterTheEnd, EndedOpensNothing, SessionsEnd, NothingIssued, NothingOpens
<1> QED BY <1>3, <1>4

=============================================================================
