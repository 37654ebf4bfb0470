------------------------------ MODULE Gateway ------------------------------
(***************************************************************************)
(* The Razorpay account of one shop: its keys, as the shop connects,       *)
(* replaces, switches off and removes them, and what the calls that use    *)
(* them find: starting a payment, confirming it by the browser's signature *)
(* or by Razorpay's own event, refunding it.  A key stands for its id and  *)
(* its secret.  Orders, amounts and the rows of payments are in Payments.  *)
(***************************************************************************)
EXTENDS Integers, FiniteSets

CONSTANTS
    RazorpayKey, OtherKey,      \* keys, and those of another account
    Payee,                      \* payments
    Keeper,                     \* requests in flight
    MaxMoves,                   \* bound on what owners, Razorpay and deployments do to keys
    NoKey

GatewayRows == [key : RazorpayKey, hook : BOOLEAN, enabled : BOOLEAN, readable : BOOLEAN]
KeeperHas == [op : {"save", "switch"}, key : RazorpayKey, hook : BOOLEAN, on : BOOLEAN]
PayeeRows == [key : RazorpayKey, at : {"start", "open", "taken", "booked", "refunded"}]

ASSUME GatewayAssumption ==
    NoKey \notin RazorpayKey \cup GatewayRows \cup KeeperHas \cup PayeeRows /\ OtherKey \subseteq RazorpayKey /\ MaxMoves \in Nat

VARIABLES
    gateway,    \* the row of keys, if there is one: hook is the webhook secret
    valid,      \* keys that Razorpay takes
    keeper,     \* what each request has in hand
    payee,      \* [Payee -> NoKey or the key it was begun with and how far it came]
    kept,       \* payments since whose start the account's keys, hook and encryption have been left alone
    moves

gatewayVars == <<gateway, valid, keeper, payee, kept, moves>>

-----------------------------------------------------------------------------
EnabledCredentials(includeDisabled) ==
    IF gateway = NoKey \/ ~gateway.enabled \/ ~gateway.readable THEN NoKey ELSE gateway.key
(* credentialsFor: none when there are none, they are off (unless that does not matter), or they cannot be decrypted. *)
CredentialsFor(includeDisabled) ==
    IF gateway = NoKey \/ (~gateway.enabled /\ ~includeDisabled) \/ ~gateway.readable THEN NoKey ELSE gateway.key
CredentialsValid(k) == k \in valid
SameAccount(k, p) == k \in OtherKey <=> payee[p].key \in OtherKey
PayeeAt(p, where) == payee[p] # NoKey /\ payee[p].at = where

GatewayInit ==
    /\ gateway = NoKey /\ valid = RazorpayKey /\ keeper = [o \in Keeper |-> NoKey]
    /\ payee = [p \in Payee |-> NoKey] /\ kept = {} /\ moves = 0

Moves == moves < MaxMoves /\ moves' = moves + 1
Serves(o, op) == keeper[o] # NoKey /\ keeper[o].op = op
Receives(o, op, k, hook, on) == keeper' = [keeper EXCEPT ![o] = [op |-> op, key |-> k, hook |-> hook, on |-> on]]
LetGo(o) == keeper' = [keeper EXCEPT ![o] = NoKey]

(* save: Razorpay is asked, then the row is written as a whole, the webhook secret with it or wiped. *)
AskRazorpay(o, k, hook, on) ==
    /\ keeper[o] = NoKey /\ Moves
    /\ IF CredentialsValid(k) THEN Receives(o, "save", k, hook, on) ELSE UNCHANGED keeper
    /\ UNCHANGED <<gateway, valid, payee, kept>>
SaveKeys(o) ==
    LET new == [key |-> keeper[o].key, hook |-> keeper[o].hook, enabled |-> keeper[o].on, readable |-> TRUE]
    IN /\ Serves(o, "save")
       /\ gateway' = new
       /\ kept' = IF gateway # NoKey /\ gateway.key = new.key /\ (gateway.hook => new.hook) THEN kept ELSE {}
       /\ LetGo(o) /\ UNCHANGED <<valid, payee, moves>>
(* setEnabled: finds the row, then updates it, which fails when it has gone meanwhile. *)
FindGateway(o, on) ==
    /\ keeper[o] = NoKey /\ gateway # NoKey /\ Moves
    /\ Receives(o, "switch", gateway.key, FALSE, on)
    /\ UNCHANGED <<gateway, valid, payee, kept>>
SetEnabled(o) ==
    /\ Serves(o, "switch")
    /\ gateway' = IF gateway = NoKey THEN NoKey ELSE [gateway EXCEPT !.enabled = keeper[o].on]
    /\ LetGo(o) /\ UNCHANGED <<valid, payee, kept, moves>>
RemoveKeys ==
    /\ gateway # NoKey /\ Moves
    /\ gateway' = NoKey /\ kept' = {}
    /\ UNCHANGED <<valid, keeper, payee>>
(* At Razorpay a key is made anew; at the deployment the key that encrypts secrets is another. *)
Regenerate(k) ==
    /\ k \in valid /\ Moves
    /\ valid' = valid \ {k} /\ kept' = {p \in kept : payee[p].key # k}
    /\ UNCHANGED <<gateway, keeper, payee>>
EncryptionKeyChanges ==
    /\ gateway # NoKey /\ gateway.readable /\ Moves
    /\ gateway' = [gateway EXCEPT !.readable = FALSE] /\ kept' = {}
    /\ UNCHANGED <<valid, keeper, payee>>

(* start: the credentials are read before the order is locked, and used after. *)
StartPayment(p) ==
    /\ payee[p] = NoKey /\ CredentialsFor(FALSE) # NoKey
    /\ payee' = [payee EXCEPT ![p] = [key |-> CredentialsFor(FALSE), at |-> "start"]]
    /\ kept' = kept \cup {p}
    /\ UNCHANGED <<gateway, valid, keeper, moves>>
CreateRazorpayOrder(p) ==
    /\ PayeeAt(p, "start")
    /\ payee' = [payee EXCEPT ![p] = IF CredentialsValid(payee[p].key) THEN [payee[p] EXCEPT !.at = "open"] ELSE NoKey]
    /\ kept' = IF CredentialsValid(payee[p].key) THEN kept ELSE kept \ {p}
    /\ UNCHANGED <<gateway, valid, keeper, moves>>
(* The shopper pays: Razorpay has the money. *)
PayAtRazorpay(p) ==
    /\ PayeeAt(p, "open")
    /\ payee' = [payee EXCEPT ![p].at = "taken"]
    /\ UNCHANGED <<gateway, valid, keeper, kept, moves>>
(* verify: the browser's signature is made with the secret of the key that the payment was opened with. *)
VerifiedBy(p) == CredentialsFor(TRUE) = payee[p].key
Verify(p) ==
    /\ PayeeAt(p, "taken") /\ VerifiedBy(p)
    /\ payee' = [payee EXCEPT ![p].at = "booked"]
    /\ UNCHANGED <<gateway, valid, keeper, kept, moves>>
(* handleWebhook: any key of the account will do, but the webhook secret is needed. *)
HeardBy(p) == CredentialsFor(TRUE) # NoKey /\ SameAccount(CredentialsFor(TRUE), p) /\ gateway.hook
HandleWebhook(p) ==
    /\ PayeeAt(p, "taken") /\ HeardBy(p)
    /\ payee' = [payee EXCEPT ![p].at = "booked"]
    /\ UNCHANGED <<gateway, valid, keeper, kept, moves>>
(* refundAtProvider: with the keys of today, whichever account they are of. *)
RefundReaches(p) ==
    CredentialsFor(TRUE) # NoKey /\ CredentialsValid(CredentialsFor(TRUE)) /\ SameAccount(CredentialsFor(TRUE), p)
RefundAtProvider(p) ==
    /\ PayeeAt(p, "booked") /\ RefundReaches(p)
    /\ payee' = [payee EXCEPT ![p].at = "refunded"]
    /\ UNCHANGED <<gateway, valid, keeper, kept, moves>>

GatewayNext ==
    \/ \E o \in Keeper : \/ \E k \in RazorpayKey, hook, on \in BOOLEAN : AskRazorpay(o, k, hook, on)
                        \/ \E on \in BOOLEAN : FindGateway(o, on)
                        \/ SaveKeys(o) \/ SetEnabled(o)
    \/ RemoveKeys \/ EncryptionKeyChanges \/ \E k \in RazorpayKey : Regenerate(k)
    \/ \E p \in Payee : \/ StartPayment(p) \/ CreateRazorpayOrder(p) \/ PayAtRazorpay(p) \/ Verify(p)
                        \/ HandleWebhook(p) \/ RefundAtProvider(p)

GatewaySpec == GatewayInit /\ [][GatewayNext]_gatewayVars

-----------------------------------------------------------------------------
GatewayTypeOK ==
    /\ gateway \in GatewayRows \cup {NoKey} /\ keeper \in [Keeper -> KeeperHas \cup {NoKey}]
    /\ payee \in [Payee -> PayeeRows \cup {NoKey}] /\ valid \subseteq RazorpayKey /\ kept \subseteq Payee

(* "includeDisabled serves refunds and webhooks for payments taken before the shop switched Razorpay off"
   (payment-gateway.service.js:81): a payment that was begun is confirmed and refunded however Razorpay is switched and
   saved again, by requests that overlap, as long as its keys are the ones it was begun with and still work. *)
SwitchingOffStrandsNothing ==
    \A p \in kept : /\ PayeeAt(p, "taken") => VerifiedBy(p)
                    /\ PayeeAt(p, "booked") => RefundReaches(p)

(* TLC refutes: that a payment is confirmed and refunded whatever becomes of the keys, and that none is begun once
   Razorpay is off. *)
NothingIsEverStranded == \A p \in Payee : (PayeeAt(p, "taken") => VerifiedBy(p) \/ HeardBy(p)) /\ (PayeeAt(p, "booked") => RefundReaches(p))
OffIsOff == \A p \in Payee : PayeeAt(p, "start") => CredentialsFor(FALSE) # NoKey

=============================================================================
