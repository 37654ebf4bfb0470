-------------------------- MODULE ShopperSessions --------------------------
(***************************************************************************)
(* Shopper accounts of the storefront: StorefrontAuthService and the       *)
(* authenticateCustomer middleware.                                        *)
(*                                                                         *)
(* A session keeps the hash of its newest refresh token only: tokens are   *)
(* numbered, and the row holds the newest number.  Codes are redeemed and  *)
(* tokens rotated by a compare-and-set, after a read of their own.  A      *)
(* transaction that writes the customer's row keeps it locked to its end,  *)
(* so those of one customer run one after the other.                       *)
(***************************************************************************)
EXTENDS Naturals

CONSTANTS
    Shopper, Code,
    Login,     \* session ids
    Tab,       \* requests in flight
    MaxChange, \* bound on the passwords one shopper chooses
    MaxTurn,   \* bound on the tokens of one session
    Nobody

ASSUME MaxChangeAssumption == MaxChange \in Nat
ASSUME MaxTurnAssumption == MaxTurn \in Nat \ {0}

VARIABLES
    shopper, \* customers: deleted or not; the number of the password, 0 while there is none
    session, \* customer_sessions; "since" is the password the row was inserted under
    code,    \* customer_tokens of type SET_PASSWORD
    tab,     \* what each request in flight has read
    traded,  \* how often each refresh token of each session was exchanged for the next
    chosen   \* how often each code set a password

shopperVars == <<shopper, session, code, tab, traded, chosen>>

Shoppers == [state : {"none", "here", "deleted"}, password : 0..MaxChange]
Sessions == [of : Shopper, newest : 1..MaxTurn, live : BOOLEAN, expired : BOOLEAN, since : 0..MaxChange]
Codes == [of : Shopper, open : BOOLEAN]
Tabs == [at : {"send", "redeem", "login", "rotate"}, of : Shopper, session : Login \cup {Nobody},
         code : Code \cup {Nobody}, seen : SUBSET Code, turn : 0..MaxTurn]
ASSUME NobodyAssumption == Nobody \notin Login \cup Code \cup Sessions \cup Codes \cup Tabs

Here(p) == shopper[p].state = "here"
OpenCodes(p) == {c \in Code : code[c] # Nobody /\ code[c].of = p /\ code[c].open}
SessionsOf(p) == {s \in Login : session[s] # Nobody /\ session[s].of = p}
Usable(s) == session[s] # Nobody /\ session[s].live /\ ~session[s].expired

(* authenticateCustomer: a live session of a customer who is still here. *)
AuthenticateCustomer(p, s) == s \in SessionsOf(p) /\ Usable(s) /\ Here(p)

Idle(t) == tab[t] = Nobody
On(t, at) == tab[t] # Nobody /\ tab[t].at = at
Open(t, at, p) ==
    tab' = [tab EXCEPT ![t] = [at |-> at, of |-> p, session |-> Nobody, code |-> Nobody, seen |-> {}, turn |-> 0]]
Shut(t) == tab' = [tab EXCEPT ![t] = Nobody]

ShopperInit ==
    /\ shopper = [p \in Shopper |-> [state |-> "none", password |-> 0]]
    /\ session = [s \in Login |-> Nobody]
    /\ code = [c \in Code |-> Nobody]
    /\ tab = [t \in Tab |-> Nobody]
    /\ traded = [s \in Login |-> [n \in 1..MaxTurn |-> 0]]
    /\ chosen = [c \in Code |-> 0]

(* issueSession, within the transactions of setPassword and login. *)
IssueSession(p, live, password) == \* the older sessions stay live or end
    \E s \in Login :
        /\ session[s] = Nobody
        /\ session' = [r \in Login |->
               IF r = s THEN [of |-> p, newest |-> 1, live |-> TRUE, expired |-> FALSE, since |-> password]
               ELSE IF r \in SessionsOf(p) THEN [session[r] EXCEPT !.live = @ /\ live] ELSE session[r]]

-----------------------------------------------------------------------------
(* register (a new email, or a customer without a password) and forgotPassword; staff create customers too. *)
RegisterShopper(t, p) ==
    /\ Idle(t) /\ shopper[p].state # "deleted" /\ shopper[p].password = 0
    /\ shopper' = [shopper EXCEPT ![p].state = "here"]
    /\ Open(t, "send", p)
    /\ UNCHANGED <<session, code, traded, chosen>>
ForgotShopperPassword(t, p) ==
    /\ Idle(t) /\ Here(p)
    /\ Open(t, "send", p)
    /\ UNCHANGED <<shopper, session, code, traded, chosen>>

(* sendSetPasswordLink closes the open codes it sees and inserts a new one in one transaction. *)
CloseCodes(t) ==
    /\ On(t, "send") /\ tab[t].seen = {} /\ OpenCodes(tab[t].of) # {}
    /\ tab' = [tab EXCEPT ![t].seen = OpenCodes(tab[t].of)]
    /\ UNCHANGED <<shopper, session, code, traded, chosen>>
InsertCode(t) ==
    /\ On(t, "send")
    /\ \E c \in Code :
        /\ code[c] = Nobody
        /\ code' = [d \in Code |-> IF d = c THEN [of |-> tab[t].of, open |-> TRUE]
                                   ELSE IF d \in tab[t].seen THEN [code[d] EXCEPT !.open = FALSE] ELSE code[d]]
    /\ Shut(t)
    /\ UNCHANGED <<shopper, session, traded, chosen>>

(* setPassword: look at the code; claim it, set the password, end the sessions and sign in. *)
SetPassword(t, c) ==
    /\ Idle(t) /\ code[c] # Nobody /\ code[c].open /\ Here(code[c].of)
    /\ tab' = [tab EXCEPT ![t] = [at |-> "redeem", of |-> code[c].of, session |-> Nobody, code |-> c, seen |-> {}, turn |-> 0]]
    /\ UNCHANGED <<shopper, session, code, traded, chosen>>
ChoosePassword(t, ends) ==
    LET p == tab[t].of IN
    /\ shopper[p].password < MaxChange
    /\ shopper' = [shopper EXCEPT ![p].password = @ + 1]
    /\ code' = [code EXCEPT ![tab[t].code].open = FALSE]
    /\ chosen' = [chosen EXCEPT ![tab[t].code] = @ + 1]
    /\ IssueSession(p, ~ends, shopper[p].password + 1)
    /\ Shut(t)
    /\ UNCHANGED traded
RedeemUnclaimed(t) == On(t, "redeem") /\ ChoosePassword(t, TRUE)
RedeemAndStaySignedIn(t) == On(t, "redeem") /\ code[tab[t].code].open /\ ChoosePassword(t, FALSE)
RedeemCode(t) == On(t, "redeem") /\ code[tab[t].code].open /\ ChoosePassword(t, TRUE)

(* login: verify the password; sign in. *)
LoginShopper(t, p) ==
    /\ Idle(t) /\ Here(p) /\ shopper[p].password > 0
    /\ Open(t, "login", p)
    /\ UNCHANGED <<shopper, session, code, traded, chosen>>
SignInUnlocked(t) ==
    /\ On(t, "login")
    /\ IssueSession(tab[t].of, TRUE, shopper[tab[t].of].password - 1)
    /\ Shut(t)
    /\ UNCHANGED <<shopper, code, traded, chosen>>
SignIn(t) ==
    /\ On(t, "login")
    /\ IssueSession(tab[t].of, TRUE, shopper[tab[t].of].password)
    /\ Shut(t)
    /\ UNCHANGED <<shopper, code, traded, chosen>>

-----------------------------------------------------------------------------
(* refresh with the newest token: look at the session; swap the token if nobody else has. *)
RefreshShopper(t, s) ==
    /\ Idle(t) /\ Usable(s) /\ Here(session[s].of)
    /\ tab' = [tab EXCEPT ![t] = [at |-> "rotate", of |-> session[s].of, session |-> s, code |-> Nobody,
                                  seen |-> {}, turn |-> session[s].newest]]
    /\ UNCHANGED <<shopper, session, code, traded, chosen>>
Exchange(t) ==
    /\ session[tab[t].session].newest < MaxTurn
    /\ session' = [session EXCEPT ![tab[t].session].newest = @ + 1]
    /\ traded' = [traded EXCEPT ![tab[t].session][tab[t].turn] = @ + 1]
    /\ Shut(t)
    /\ UNCHANGED <<shopper, code, chosen>>
RotateWhatever(t) == On(t, "rotate") /\ session[tab[t].session].live /\ Exchange(t)
RotateEnded(t) == On(t, "rotate") /\ session[tab[t].session].newest = tab[t].turn /\ Exchange(t)
RotateToken(t) ==
    /\ On(t, "rotate")
    /\ session[tab[t].session].newest = tab[t].turn /\ session[tab[t].session].live
    /\ Exchange(t)

(* A token that is not the newest (0: no token of it at all) ends the session. *)
ReuseToken(s, n) ==
    /\ Usable(s) /\ Here(session[s].of) /\ n # session[s].newest
    /\ session' = [session EXCEPT ![s].live = FALSE]
    /\ UNCHANGED <<shopper, code, tab, traded, chosen>>
LogoutShopper(s) ==
    /\ session[s] # Nobody /\ session[s].live
    /\ session' = [session EXCEPT ![s].live = FALSE]
    /\ UNCHANGED <<shopper, code, tab, traded, chosen>>

(* The compare-and-set finds nothing to set, or the server stops. *)
GiveUp(t) ==
    /\ ~Idle(t) /\ Shut(t)
    /\ UNCHANGED <<shopper, session, code, traded, chosen>>

(* CustomerService.delete; a month or a day passes. *)
DeleteShopper(p) ==
    /\ Here(p)
    /\ shopper' = [shopper EXCEPT ![p].state = "deleted"]
    /\ UNCHANGED <<session, code, tab, traded, chosen>>
ExpireSession(s) ==
    /\ Usable(s)
    /\ session' = [session EXCEPT ![s].expired = TRUE]
    /\ UNCHANGED <<shopper, code, tab, traded, chosen>>

ShopperNext ==
    \/ \E p \in Shopper : DeleteShopper(p)
    \/ \E s \in Login : LogoutShopper(s) \/ ExpireSession(s) \/ \E n \in 0..MaxTurn : ReuseToken(s, n)
    \/ \E t \in Tab, p \in Shopper : RegisterShopper(t, p) \/ ForgotShopperPassword(t, p) \/ LoginShopper(t, p)
    \/ \E t \in Tab, c \in Code : SetPassword(t, c)
    \/ \E t \in Tab, s \in Login : RefreshShopper(t, s)
    \/ \E t \in Tab : CloseCodes(t) \/ InsertCode(t) \/ RedeemCode(t) \/ SignIn(t) \/ RotateToken(t) \/ GiveUp(t)

ShopperSpec == ShopperInit /\ [][ShopperNext]_shopperVars

-----------------------------------------------------------------------------
(* Customers, sessions, codes and requests have the values of the schema; only a customer with a
   password has sessions. *)
ShopperTypeOK ==
    /\ shopper \in [Shopper -> Shoppers]
    /\ session \in [Login -> Sessions \cup {Nobody}]
    /\ code \in [Code -> Codes \cup {Nobody}]
    /\ tab \in [Tab -> Tabs \cup {Nobody}]
    /\ traded \in [Login -> [1..MaxTurn -> 0..1]]
    /\ \A s \in Login : session[s] # Nobody => session[s].since > 0

(* Each code sets one password, however many requests redeem it at once (setPassword, storefront.auth.js:111). *)
CodeOnce == \A c \in Code : chosen[c] <= 1

(* Each refresh token is exchanged at most once, and only the newest is worth anything: a session that
   two requests refresh at once goes on as one chain (refresh, storefront.auth.js:143-147). *)
TokenTradedOnce ==
    \A s \in Login : session[s] # Nobody =>
        \A n \in 1..MaxTurn : traded[s][n] = IF n < session[s].newest THEN 1 ELSE 0

(* A password that is chosen ends every session opened before (storefront.auth.js:117): a session
   that works has its row from under the password the customer has now.  (`since` is the password at the
   insert: a login that compared the old one just before the change opens its session after it.) *)
LiveUnderThisPassword == \A s \in Login : Usable(s) => session[s].since = shopper[session[s].of].password

(* An ended session issues no token (refresh checks revokedAt again where it writes, :144). *)
NoTokenAfterTheEnd ==
    [][\A s \in Login : session[s] # Nobody /\ ~session[s].live =>
          traded'[s] = traded[s] /\ session'[s].newest = session[s].newest /\ ~session'[s].live]_shopperVars

=============================================================================
