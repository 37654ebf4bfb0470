------------------------------ MODULE Outgoing ------------------------------
(***************************************************************************)
(* Calls to providers over HTTP: charges and refunds, e-mail, SMS,         *)
(* shipments, rates, and objects in a bucket.  A call gives up on an       *)
(* attempt after a while, but what it sent may still be on its way; it     *)
(* tries again when it was told that doing so is safe.  Amounts, headers   *)
(* and signatures are left out; the key of a charge is not.                *)
(***************************************************************************)
EXTENDS Integers, FiniteSets

CONSTANTS Caller, Thing, NoSend \* a thing is what a charge or an object is of

VARIABLES
    send,       \* [Caller -> NoSend or one of Sendings]
    wire,       \* the attempts on their way to a provider, as <<caller, attempt>>
    done,       \* [Caller -> how often a provider did what the call asks for]
    seen,       \* keys of charges the payment provider has handled
    charged,    \* [Thing -> how often]
    object,     \* things that are in the bucket
    late        \* things that were removed while an attempt to put them was still on its way

callVars == <<send, wire, done, seen, charged, object, late>>

-----------------------------------------------------------------------------
TriesAnyway(idempotent, retries) == retries + 1
(* requestWithRetry: retries are for calls that say they are idempotent. *)
Tries(idempotent, retries) == IF idempotent THEN retries + 1 ELSE 1
Kind(does, idempotent, retries) == [does |-> does, tries |-> Tries(idempotent, retries)]

ChargePayment == Kind("charge", TRUE, 2) \* PaymentService always sends a key
RefundPayment == Kind("act", FALSE, 1)
SendEmail == Kind("act", FALSE, 2)
SendSms == Kind("act", FALSE, 1)
CreateShipment == Kind("act", FALSE, 0)
GetRate == Kind("read", TRUE, 2)
Geocode == Kind("read", TRUE, 2)
CallRazorpay == Kind("act", FALSE, 0)
PutObject == Kind("put", TRUE, 2)
DeleteObject == Kind("remove", FALSE, 0)
HeadObject == Kind("read", FALSE, 0)
GetObject == Kind("read", FALSE, 0)

Kinds == {ChargePayment, RefundPayment, SendEmail, SendSms, CreateShipment, GetRate, Geocode, CallRazorpay,
          PutObject, DeleteObject, HeadObject, GetObject}
Sendings == [kind : Kinds, thing : Thing, attempt : 1..3, at : {"wait", "pause", "ok", "failed"}]
ASSUME NoSendAssumption == NoSend \notin Sendings

AttemptKey(c, attempt) == <<send[c].thing, c, attempt>>
(* tenant:order:amount, the same in every attempt, and in every other charge of the order. *)
ChargeKey(c, attempt) == <<send[c].thing>>

CallsInit ==
    /\ send = [c \in Caller |-> NoSend] /\ done = [c \in Caller |-> 0] /\ charged = [t \in Thing |-> 0]
    /\ wire = {} /\ seen = {} /\ object = {} /\ late = {}

CallAt(c, where) == send[c] # NoSend /\ send[c].at = where
CallEnded(c) == CallAt(c, "ok") \/ CallAt(c, "failed")
Putting(t) == {c \in Caller : send[c] # NoSend /\ send[c].kind.does = "put" /\ send[c].thing = t}
OnTheWay(t) == {m \in wire : m[1] \in Putting(t)}

(* A key of the bucket is made for one file; it is removed when nobody is putting it any more. *)
Sends(c, kind, t) ==
    /\ send[c] = NoSend
    /\ kind.does = "put" => Putting(t) = {}
    /\ kind.does = "remove" => Putting(t) # {} /\ \A p \in Putting(t) : CallEnded(p)
    /\ send' = [send EXCEPT ![c] = [kind |-> kind, thing |-> t, attempt |-> 1, at |-> "wait"]]
    /\ wire' = wire \cup {<<c, 1>>}
    /\ late' = late \cup (IF kind.does = "remove" /\ OnTheWay(t) # {} THEN {t} ELSE {})
    /\ UNCHANGED <<done, seen, charged, object>>

(* isRetryableError, isRetryableStatus: time-outs, refused connections, 408, 429 and 5xx are tried again. *)
AfterTrouble(c) == [send EXCEPT ![c].at = IF send[c].attempt < send[c].kind.tries THEN "pause" ELSE "failed"]
Hears(c, attempt, answer) ==
    IF ~(CallAt(c, "wait") /\ send[c].attempt = attempt) THEN send \* nobody listens any more
    ELSE CASE answer = "ok" -> [send EXCEPT ![c].at = "ok"]
           [] answer = "rejected" -> [send EXCEPT ![c].at = "failed"]
           [] answer = "trouble" -> AfterTrouble(c)
           [] answer = "silence" -> send

(* The provider does what an attempt asks for, whether or not its answer is heard, and whichever it is. *)
Carry(c, attempt, answer) ==
    /\ <<c, attempt>> \in wire /\ answer \in {"ok", "trouble", "silence"}
    /\ wire' = wire \ {<<c, attempt>>}
    /\ send' = Hears(c, attempt, answer)
    /\ done' = [done EXCEPT ![c] = @ + 1]
    /\ IF send[c].kind.does = "charge" /\ ChargeKey(c, attempt) \notin seen
       THEN /\ seen' = seen \cup {ChargeKey(c, attempt)}
            /\ charged' = [charged EXCEPT ![send[c].thing] = @ + 1]
       ELSE UNCHANGED <<seen, charged>>
    /\ object' = CASE send[c].kind.does = "put" -> object \cup {send[c].thing}
                   [] send[c].kind.does = "remove" -> object \ {send[c].thing}
                   [] OTHER -> object
    /\ UNCHANGED late
(* Or it does nothing, or the network loses the attempt. *)
Refuse(c, attempt, answer) ==
    /\ <<c, attempt>> \in wire /\ answer \in {"rejected", "trouble", "silence"}
    /\ wire' = wire \ {<<c, attempt>>}
    /\ send' = Hears(c, attempt, answer)
    /\ UNCHANGED <<done, seen, charged, object, late>>
(* fetchWithTimeout *)
TimeOut(c) ==
    /\ CallAt(c, "wait")
    /\ send' = AfterTrouble(c)
    /\ UNCHANGED <<wire, done, seen, charged, object, late>>
Retry(c) ==
    /\ CallAt(c, "pause")
    /\ send' = [send EXCEPT ![c] = [kind |-> send[c].kind, thing |-> send[c].thing, attempt |-> send[c].attempt + 1, at |-> "wait"]]
    /\ wire' = wire \cup {<<c, send[c].attempt + 1>>}
    /\ UNCHANGED <<done, seen, charged, object, late>>

CallsNext ==
    \E c \in Caller :
        \/ \E kind \in Kinds, t \in Thing : Sends(c, kind, t)
        \/ \E attempt \in 1..3, answer \in {"ok", "rejected", "trouble", "silence"} :
                Carry(c, attempt, answer) \/ Refuse(c, attempt, answer)
        \/ TimeOut(c) \/ Retry(c)

CallsSpec == CallsInit /\ [][CallsNext]_callVars

-----------------------------------------------------------------------------
CallsTypeOK ==
    /\ send \in [Caller -> Sendings \cup {NoSend}]
    /\ \A c \in Caller : send[c] # NoSend => send[c].attempt <= send[c].kind.tries
    /\ object \subseteq Thing /\ late \subseteq Thing

(* Money is given back, a message sent or a shipment made at most once by a call (requestWithRetry, http-client.js:55),
   and an order charged at most once for its amount, by all attempts of all calls (payments.service.js:79). *)
ProviderActsOnce ==
    /\ \A c \in Caller : send[c] # NoSend /\ send[c].kind.does = "act" => done[c] <= 1
    /\ \A t \in Thing : charged[t] <= 1

(* What a call reports as done was done (http-client.js:84), and an object that was removed is gone, unless an attempt
   to put it was still on its way (S3StorageProvider.delete, s3-storage.provider.js:162). *)
ReportedIsDone ==
    \A c \in Caller : CallAt(c, "ok") =>
        /\ done[c] > 0
        /\ send[c].kind.does = "remove" /\ send[c].thing \notin late => send[c].thing \notin object

(* TLC refutes: that what failed was not done, and that what was removed stays away. *)
FailedIsNotDone == \A c \in Caller : CallAt(c, "failed") => done[c] = 0
RemovedStaysAway ==
    \A c \in Caller : CallAt(c, "ok") /\ send[c].kind.does = "remove" => send[c].thing \notin object

=============================================================================
