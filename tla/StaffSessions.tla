--------------------------- MODULE StaffSessions ---------------------------
(***************************************************************************)
(* Staff sign-in: AuthService, its repository, the authenticate            *)
(* middlewares and what the administration does to a signed-in user.       *)
(*                                                                         *)
(* A session is a chain of rows in refresh_tokens: login inserts the first *)
(* one, refresh revokes the presented one and inserts the next.  An access *)
(* token only counts while its session has an unrevoked row.  login,       *)
(* refresh, changePassword and resetPassword read first and write in later *)
(* statements that check nothing again, so what a request has read is kept *)
(* in call[c] until it writes.  A user belongs to one scope; "INACTIVE"    *)
(* also stands for a suspended membership or tenant.                       *)
(***************************************************************************)
EXTENDS Naturals, FiniteSets

CONSTANTS
    User, Session, Token,
    Call,        \* requests in flight
    Legacy,      \* tokens that may be left from before sessions had ids
    MaxPassword, \* bound on the password changes of one user
    None

ASSUME LegacyAssumption == Legacy \subseteq Token
ASSUME MaxPasswordAssumption == MaxPassword \in Nat

VARIABLES
    account, \* users: status, scope, password (its version)
    token,   \* refresh_tokens; "knew" is the password version its session was opened with
    call,    \* what each request in flight has read
    orderly  \* users whose requests never overlap and always run to their end

staffVars == <<account, token, call, orderly>>

Scope == {"tenant", "platform"}
Accounts == [status : {"none", "ACTIVE", "INACTIVE", "deleted"}, scope : Scope, password : 0..MaxPassword]
Rows == [user : User, session : Session \cup {None},
         state : {"live", "revoked", "expired"}, knew : 0..MaxPassword]
Calls == [at : {"login", "refresh", "password", "signout", "reset", "revokeall"}, user : User,
          session : Session \cup {None}, token : Token \cup {None}, knew : 0..MaxPassword]
ASSUME NoneAssumption == None \notin Session \cup Token \cup Rows \cup Calls

-----------------------------------------------------------------------------
(* Reads. *)
Has(k) == token[k] # None
Live(k) == Has(k) /\ token[k].state = "live"
LiveOf(u) == {k \in Token : Live(k) /\ token[k].user = u}
InSession(s) == {k \in Token : Has(k) /\ token[k].session = s}
FindActiveSessionTokens(u) == {token[k].session : k \in LiveOf(u)} \ {None}
IsSessionActive(u, s) == \E k \in LiveOf(u) : token[k].session = s
Active(u) == account[u].status = "ACTIVE"
AuthenticateTenant(u, s) == IsSessionActive(u, s) /\ Active(u) /\ account[u].scope = "tenant"
AuthenticatePlatform(u, s) == IsSessionActive(u, s) /\ Active(u) /\ account[u].scope = "platform"
AuthenticateAnyScope(u, s) ==
    IF account[u].scope = "platform" THEN AuthenticatePlatform(u, s) ELSE AuthenticateTenant(u, s)

(* Writes. *)
Row(u, s, knew) == [user |-> u, session |-> s, state |-> "live", knew |-> knew]
Rotated(rec) == IF rec.state = "live" THEN [rec EXCEPT !.state = "revoked"] ELSE rec
RevokeUserTokens(K) == token' = [k \in Token |-> IF k \in K THEN [token[k] EXCEPT !.state = "revoked"] ELSE token[k]]
DeleteTokens(K) == token' = [k \in Token |-> IF k \in K THEN None ELSE token[k]]
RevokeSessionOf(u, s) == RevokeUserTokens(LiveOf(u) \cap InSession(s))
RevokeAllUserRefreshTokens(u) == RevokeUserTokens(LiveOf(u))

(* A random id that no row and no request has. *)
NewSession(s) == InSession(s) = {} /\ \A c \in Call : call[c] # None => call[c].session # s
NewToken(k) == token[k] = None /\ \A c \in Call : call[c] # None => call[c].token # k

Ask(at, u, s) == [at |-> at, user |-> u, session |-> s, token |-> None, knew |-> account[u].password]
AskOf(k) == [at |-> "refresh", user |-> token[k].user, session |-> token[k].session, token |-> k, knew |-> token[k].knew]
Begin(c, ask) == call[c] = None /\ call' = [call EXCEPT ![c] = ask]
At(c, at) == call[c] # None /\ call[c].at = at
End(c) == call' = [call EXCEPT ![c] = None]
Asking(u) == ~\A c \in Call : call[c] # None => call[c].user # u
Quiet(u) == ~(u \in orderly /\ Asking(u))

(* Accounts, perhaps with a token from before sessions had ids. *)
StaffInit ==
    /\ account \in [User -> [status : {"none", "ACTIVE"}, scope : Scope, password : {0}]]
    /\ \E holder \in [Legacy -> {u \in User : account[u].status = "ACTIVE" /\ account[u].scope = "tenant"} \cup {None}] :
          token = [k \in Token |-> IF k \in Legacy /\ holder[k] # None THEN Row(holder[k], None, 0) ELSE None]
    /\ call = [c \in Call |-> None]
    /\ orderly \in SUBSET User

-----------------------------------------------------------------------------
(* Accounts: register, addAdmin, UserService.update and delete, removeAdmin. *)
Register(u) ==
    /\ account[u].status = "none" /\ account[u].scope = "tenant"
    /\ account' = [account EXCEPT ![u].status = "ACTIVE"]
    /\ UNCHANGED <<token, call, orderly>>
AddAdmin(u) ==
    /\ account[u].status = "none" /\ account[u].scope = "platform"
    /\ account' = [account EXCEPT ![u].status = "ACTIVE"]
    /\ UNCHANGED <<token, call, orderly>>
UpdateStatus(u) ==
    /\ account[u].status \in {"ACTIVE", "INACTIVE"} /\ account[u].scope = "tenant"
    /\ account' = [account EXCEPT ![u].status = IF Active(u) THEN "INACTIVE" ELSE "ACTIVE"]
    /\ UNCHANGED <<token, call, orderly>>
(* The tokens of a deleted user are deleted with it. *)
DeleteUser(u) ==
    /\ account[u].status \in {"ACTIVE", "INACTIVE"} /\ account[u].scope = "tenant"
    /\ account' = [account EXCEPT ![u].status = "deleted"]
    /\ DeleteTokens({k \in Token : Has(k) /\ token[k].user = u})
    /\ UNCHANGED <<call, orderly>>
RemoveAdmin(u) ==
    /\ Active(u) /\ account[u].scope = "platform"
    /\ account' = [account EXCEPT ![u].status = "INACTIVE"]
    /\ RevokeUserTokens(LiveOf(u))
    /\ UNCHANGED <<call, orderly>>

-----------------------------------------------------------------------------
(* login checks the password; the session's first token is a later statement. *)
TenantLogin(c, u) ==
    /\ Active(u) /\ account[u].scope = "tenant" /\ Quiet(u)
    /\ Begin(c, Ask("login", u, None))
    /\ UNCHANGED <<account, token, orderly>>
PlatformLogin(c, u) ==
    /\ Active(u) /\ account[u].scope = "platform" /\ Quiet(u)
    /\ Begin(c, Ask("login", u, None))
    /\ UNCHANGED <<account, token, orderly>>
GenerateForDeleted(c) ==
    /\ At(c, "login")
    /\ \E k \in Token, s \in Session :
        /\ NewToken(k) /\ NewSession(s)
        /\ token' = [token EXCEPT ![k] = [Row(call[c].user, s, call[c].knew) EXCEPT !.user = None]]
    /\ End(c)
    /\ UNCHANGED <<account, orderly>>
GenerateRefreshToken(c) ==
    /\ At(c, "login") /\ account[call[c].user].status # "deleted"
    /\ \E k \in Token, s \in Session :
        /\ NewToken(k) /\ NewSession(s)
        /\ token' = [token EXCEPT ![k] = Row(call[c].user, s, call[c].knew)]
    /\ End(c)
    /\ UNCHANGED <<account, orderly>>

(* refresh, first part: look the token up and check its user. *)
RefreshOfRevoked(c, k) ==
    /\ Has(k) /\ token[k].state \in {"live", "revoked"} /\ Active(token[k].user) /\ Quiet(token[k].user)
    /\ Begin(c, AskOf(k))
    /\ UNCHANGED <<account, token, orderly>>
Refresh(c, k) ==
    /\ Live(k) /\ Active(token[k].user) /\ Quiet(token[k].user)
    /\ Begin(c, AskOf(k))
    /\ UNCHANGED <<account, token, orderly>>

(* ... and its transaction, which finds the row again but does not look at its state again. *)
RotateAndKeep(c) ==
    /\ At(c, "refresh") /\ Has(call[c].token)
    /\ \E k \in Token, s \in Session :
        /\ NewToken(k) /\ IF call[c].session = None THEN NewSession(s) ELSE s = call[c].session
        /\ token' = [token EXCEPT ![k] = Row(call[c].user, s, call[c].knew)]
    /\ End(c)
    /\ UNCHANGED <<account, orderly>>
Rotate(c) ==
    /\ At(c, "refresh") /\ Has(call[c].token)
    /\ \E k \in Token, s \in Session :
        /\ NewToken(k) /\ IF call[c].session = None THEN NewSession(s) ELSE s = call[c].session
        /\ token' = [j \in Token |-> IF j = k THEN Row(call[c].user, s, call[c].knew)
                                    ELSE IF j = call[c].token THEN Rotated(token[j]) ELSE token[j]]
    /\ End(c)
    /\ UNCHANGED <<account, orderly>>

(* A token that was rotated already: its session ends, or all of them if it has no session id. *)
Replay(k) ==
    /\ Has(k) /\ token[k].state = "revoked" /\ Quiet(token[k].user)
    /\ IF token[k].session = None THEN RevokeAllUserRefreshTokens(token[k].user)
       ELSE RevokeSessionOf(token[k].user, token[k].session)
    /\ UNCHANGED <<account, call, orderly>>

(* logout revokes the presented token, whatever else its session has. *)
Logout(k) ==
    /\ Live(k) /\ Quiet(token[k].user)
    /\ RevokeUserTokens({k})
    /\ UNCHANGED <<account, call, orderly>>
RevokeSession(u, own, s) ==
    /\ AuthenticateAnyScope(u, own) /\ Quiet(u) /\ s \in FindActiveSessionTokens(u)
    /\ RevokeSessionOf(u, s)
    /\ UNCHANGED <<account, call, orderly>>
LogoutAll(u, own) ==
    /\ AuthenticateAnyScope(u, own) /\ Quiet(u)
    /\ RevokeAllUserRefreshTokens(u)
    /\ UNCHANGED <<account, call, orderly>>

-----------------------------------------------------------------------------
(* changePassword and resetPassword: check; write the password; sign out. *)
ChangePassword(c, u, own) ==
    /\ AuthenticateAnyScope(u, own) /\ Quiet(u)
    /\ Begin(c, Ask("password", u, own))
    /\ UNCHANGED <<account, token, orderly>>
ResetPassword(c, u) ==
    /\ account[u].status \in {"ACTIVE", "INACTIVE"} /\ account[u].scope = "tenant" /\ Quiet(u)
    /\ Begin(c, Ask("reset", u, None))
    /\ UNCHANGED <<account, token, orderly>>
UpdatePassword(c) ==
    /\ (At(c, "password") \/ At(c, "reset")) /\ account[call[c].user].status # "deleted"
    /\ account[call[c].user].password < MaxPassword
    /\ account' = [account EXCEPT ![call[c].user].password = @ + 1]
    /\ call' = [call EXCEPT ![c].at = IF @ = "reset" THEN "revokeall" ELSE "signout"]
    /\ UNCHANGED <<token, orderly>>

(* Whoever stays signed in has just chosen the password. *)
SignOut(K, u, own) ==
    token' = [k \in Token |-> IF k \in LiveOf(u) /\ token[k].session = own THEN [token[k] EXCEPT !.knew = account[u].password]
                              ELSE IF k \in K THEN [token[k] EXCEPT !.state = "revoked"] ELSE token[k]]
RevokeSessionsWithId(c) ==
    /\ At(c, "signout")
    /\ SignOut({k \in LiveOf(call[c].user) : token[k].session # None}, call[c].user, call[c].session)
    /\ End(c)
    /\ UNCHANGED <<account, orderly>>
RevokeUserSessions(c) ==
    /\ At(c, "signout")
    /\ SignOut(LiveOf(call[c].user), call[c].user, call[c].session)
    /\ End(c)
    /\ UNCHANGED <<account, orderly>>
RevokeAfterReset(c) ==
    /\ At(c, "revokeall")
    /\ RevokeAllUserRefreshTokens(call[c].user)
    /\ End(c)
    /\ UNCHANGED <<account, orderly>>

-----------------------------------------------------------------------------
(* A week passes; the nightly cleanup deletes what has expired. *)
Expire(k) ==
    /\ Has(k) /\ token[k].state # "expired"
    /\ token' = [token EXCEPT ![k].state = "expired"]
    /\ UNCHANGED <<account, call, orderly>>
Cleanup ==
    /\ \E k \in Token : Has(k) /\ token[k].state = "expired"
    /\ DeleteTokens({k \in Token : Has(k) /\ token[k].state = "expired"})
    /\ UNCHANGED <<account, call, orderly>>

(* A request fails: its user is gone, its row is gone, or the server stops. *)
Fail(c) ==
    /\ call[c] # None
    /\ \/ call[c].user \notin orderly
       \/ account[call[c].user].status = "deleted"
       \/ At(c, "refresh") /\ ~Has(call[c].token)
    /\ End(c)
    /\ UNCHANGED <<account, token, orderly>>

StaffNext ==
    \/ Cleanup
    \/ \E u \in User : Register(u) \/ AddAdmin(u) \/ UpdateStatus(u) \/ DeleteUser(u) \/ RemoveAdmin(u)
    \/ \E u \in User, own \in Session : LogoutAll(u, own) \/ \E s \in Session : RevokeSession(u, own, s)
    \/ \E k \in Token : Replay(k) \/ Logout(k) \/ Expire(k)
    \/ \E c \in Call, u \in User : TenantLogin(c, u) \/ PlatformLogin(c, u) \/ ResetPassword(c, u)
                                   \/ \E own \in Session : ChangePassword(c, u, own)
    \/ \E c \in Call, k \in Token : Refresh(c, k)
    \/ \E c \in Call : \/ GenerateRefreshToken(c) \/ Rotate(c) \/ UpdatePassword(c)
                       \/ RevokeUserSessions(c) \/ RevokeAfterReset(c) \/ Fail(c)

StaffSpec == StaffInit /\ [][StaffNext]_staffVars

-----------------------------------------------------------------------------
(* Rows, accounts and requests have the columns and values of the schema; a request that will
   write a refresh token of a session names the token it redeems. *)
StaffTypeOK ==
    /\ account \in [User -> Accounts]
    /\ token \in [Token -> Rows \cup {None}]
    /\ call \in [Call -> Calls \cup {None}]
    /\ orderly \in SUBSET User
    /\ \A c \in Call : At(c, "refresh") => call[c].token # None

(* Rotation keeps one chain: a session of a user whose requests do not overlap never has two
   tokens that work (refresh, auth.service.js:378-405). *)
OneLiveToken ==
    \A s \in Session : \A j, k \in InSession(s) :
        Live(j) /\ Live(k) /\ token[j].user \in orderly => j = k

(* A session that has ended stays ended (auth.middleware.js:12): whatever ended it, no request
   can bring it back or set out to, except a refresh that had read its token before the end. *)
Refreshing(s) == ~\A c \in Call : At(c, "refresh") => call[c].session # s
Cold(s) == ~Refreshing(s) /\ \A k \in InSession(s) : ~Live(k)
EndedStaysEnded == [][\A s \in Session : InSession(s) # {} /\ Cold(s) => Cold(s)']_staffVars

(* Changing or resetting a password signs out everything that was signed in with an older one,
   except the session that changed it (auth.service.js:437-451, 589-591). *)
PasswordEndsSessions ==
    \A u \in orderly : ~Asking(u) => \A k \in LiveOf(u) : token[k].knew = account[u].password

=============================================================================
