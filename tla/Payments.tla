------------------------------ MODULE Payments ------------------------------
(***************************************************************************)
(* Payments of one tenant: PaymentService (create, confirm, refund, the    *)
(* provider's webhook), RazorpayPaymentsService (start, verify, webhook,   *)
(* markPaid) and the Razorpay account PaymentGatewayService keeps for it.  *)
(*                                                                         *)
(* Handlers that lock the payment row and decide on what they read under   *)
(* the lock are one step.  The others are split where they read, where they *)
(* call the provider and where they write: create and start check the      *)
(* order's payments before they insert, start reads the shop's keys before *)
(* its transaction, a report of a payment is checked before markPaid's     *)
(* transaction, the webhook handler reads the payment before its own, and  *)
(* a refund of a Razorpay payment is sent to Razorpay, with the row        *)
(* locked, before it is recorded.                                          *)
(***************************************************************************)
EXTENDS Naturals

CONSTANTS
    Orders,     \* orders of the shop
    Payments,   \* rows the payments table may get
    OrderOf,    \* the order each payment is for
    Online,     \* the payments taken through the shop's Razorpay account
    Events,     \* webhook events of the other providers: [id, payment, to, txn]
    Requests,   \* requests in flight
    Amount,     \* the amount of every payment
    MaxSent,    \* bound on what is refunded at Razorpay per payment
    MaxKeys,    \* bound on the Razorpay keys the shop ever has, numbered from 1
    None        \* no order, payment, event or request

Active == {"PENDING", "PROCESSING"}
Paid == {"COMPLETED", "PARTIALLY_REFUNDED", "REFUNDED"}
Refundable == {"COMPLETED", "PARTIALLY_REFUNDED"}
Statuses == {"NONE", "FAILED", "CANCELLED"} \cup Active \cup Paid

ASSUME OrderOfAssumption == OrderOf \in [Payments -> Orders]
ASSUME OnlineAssumption == Online \subseteq Payments
ASSUME EventsAssumption ==
    /\ \A e \in Events : e.payment \in Payments /\ e.to \in {"COMPLETED", "FAILED", "REFUNDED"}
    /\ \A e, f \in Events : e.txn = f.txn => e.payment = f.payment
ASSUME AmountAssumption == Amount \in Nat \ {0} /\ MaxSent \in Nat
ASSUME KeysAssumption == MaxKeys \in Nat
ASSUME NoneAssumption == None \notin Orders \cup Payments \cup Events \cup Requests

VARIABLES
    status,     \* payments.status, "NONE" before the row exists
    open,       \* orders whose status still lets them be paid
    keyOf,      \* the keys in a payment's metadata, 0 if it has none
    charges,    \* COMPLETED CHARGE rows of the payment, but for the notes
    refunded,   \* sum of the payment's refund rows
    known,      \* payments with a razorpayPaymentId in their metadata
    noted,      \* CHARGE rows "Captured after the payment was closed; refund needed"
    sent,       \* refunds Razorpay has accepted, per payment
    recorded,   \* payment_webhook_events
    txns,       \* provider transactions that have their row
    captured,   \* Razorpay orders the shopper has paid, at Razorpay
    accepted,   \* those whose signed report was accepted, on its way to markPaid
    gateway,    \* the shop's Razorpay account: "none", "off" or "on"
    keys,       \* its keys, 0 before the first
    hooked,     \* the webhook secret stored is the one Razorpay signs with
    rowLock,    \* the refund holding each payment row
    orderLock,  \* the start holding each order row
    request     \* per request: its handler and what it has read

money == <<charges, refunded, known, noted, sent>>
hooks == <<recorded, txns>>
reports == <<captured, accepted>>
account == <<gateway, keys, hooked>>
vars == <<status, open, keyOf, money, hooks, reports, account, rowLock, orderLock, request>>

-----------------------------------------------------------------------------
(* PAYMENT_TRANSITIONS *)
Transitions ==
    { <<"PENDING", "PROCESSING">>, <<"PENDING", "COMPLETED">>, <<"PENDING", "FAILED">>,
      <<"PENDING", "CANCELLED">>, <<"PROCESSING", "COMPLETED">>, <<"PROCESSING", "FAILED">>,
      <<"PROCESSING", "CANCELLED">>, <<"COMPLETED", "REFUNDED">>,
      <<"COMPLETED", "PARTIALLY_REFUNDED">>, <<"PARTIALLY_REFUNDED", "REFUNDED">>,
      <<"PARTIALLY_REFUNDED", "PARTIALLY_REFUNDED">> }

(* isValidTransition: never to the status it already has. *)
Valid(from, to) == from # to /\ <<from, to>> \in Transitions

Has(o, statuses) == {p \in Payments : OrderOf[p] = o /\ status[p] \in statuses}

(* What a request in flight keeps; the fields its handler does not use are empty. *)
Idle == [op |-> "idle", order |-> None, payment |-> None, event |-> None,
         read |-> "NONE", amount |-> 0, keys |-> 0]
Does(r, op) == request[r].op = op
Set(r, fields) == request' = [request EXCEPT ![r] = fields]

Init ==
    /\ status = [p \in Payments |-> "NONE"]
    /\ open = Orders
    /\ keyOf = [p \in Payments |-> 0]
    /\ charges = [p \in Payments |-> 0]
    /\ refunded = [p \in Payments |-> 0]
    /\ known = {}
    /\ noted = {}
    /\ sent = [p \in Payments |-> 0]
    /\ recorded = {}
    /\ txns = {}
    /\ captured = {}
    /\ accepted = {}
    /\ gateway = "none"
    /\ keys = 0
    /\ hooked = FALSE
    /\ rowLock = [p \in Payments |-> None]
    /\ orderLock = [o \in Orders |-> None]
    /\ request = [r \in Requests |-> Idle]

(* The order ships or is cancelled (module Orders): it can no longer be paid. *)
(* The update waits for a start that has the order row locked.                *)
CloseOrder(o) ==
    /\ o \in open
    /\ orderLock[o] = None
    /\ open' = open \ {o}
    /\ UNCHANGED <<status, keyOf, money, hooks, reports, account, rowLock, orderLock, request>>

(***************************************************************************)
(* The shop's Razorpay account.  save stores keys Razorpay has accepted    *)
(* and, whatever was stored before, the webhook secret it is given or      *)
(* none: the secret stored is from then on Razorpay's, or it is not.       *)
(***************************************************************************)
SaveKeys(k, on) ==
    /\ k \in {keys, keys + 1} \cap (1..MaxKeys)
    /\ keys' = k
    /\ gateway' = on
    /\ hooked' \in BOOLEAN
    /\ UNCHANGED <<status, open, keyOf, money, hooks, reports, rowLock, orderLock, request>>

SetEnabled(on) ==
    /\ gateway # "none"
    /\ gateway' = on
    /\ UNCHANGED <<status, open, keyOf, money, hooks, reports, keys, hooked,
                   rowLock, orderLock, request>>

RemoveGateway ==
    /\ gateway # "none"
    /\ gateway' = "none"
    /\ hooked' = FALSE
    /\ UNCHANGED <<status, open, keyOf, money, hooks, reports, keys, rowLock, orderLock, request>>

-----------------------------------------------------------------------------
(* PaymentService.create, before its transaction. *)
CreateCheck(r, o) ==
    /\ Does(r, "idle")
    /\ o \in open
    /\ Has(o, Active) = {}
    /\ Set(r, [Idle EXCEPT !.op = "create", !.order = o])
    /\ UNCHANGED <<status, open, keyOf, money, hooks, reports, account, rowLock, orderLock>>

(* ... and its transaction, which looks at nothing; the foreign key to the order *)
(* waits for a start that has the order row locked.                             *)
CreateInsert(r, p) ==
    /\ Does(r, "create")
    /\ orderLock[OrderOf[p]] = None
    /\ status[p] = "NONE" /\ OrderOf[p] = request[r].order /\ p \notin Online
    /\ status' = [status EXCEPT ![p] = "PENDING"]
    /\ Set(r, Idle)
    /\ UNCHANGED <<open, keyOf, money, hooks, reports, account, rowLock, orderLock>>

(* confirm: the status is checked again under the row's lock. *)
Confirm(p, to) ==
    /\ rowLock[p] = None
    /\ status[p] \in Active
    /\ status' = [status EXCEPT ![p] = to]
    /\ charges' = IF to = "COMPLETED" THEN [charges EXCEPT ![p] = @ + 1] ELSE charges
    /\ UNCHANGED <<open, keyOf, refunded, known, noted, sent, hooks, reports, account,
                   rowLock, orderLock, request>>

-----------------------------------------------------------------------------
(***************************************************************************)
(* RazorpayPaymentsService.start reads the keys, then locks the order's    *)
(* row.  An attempt in progress is returned as it is (no state changes)    *)
(* unless it is stale: another provider's, or of other keys than those the *)
(* start has read.                                                         *)
(***************************************************************************)
Stale(p, k) == p \notin Online \/ keyOf[p] # k

StartRead(r, o) ==
    /\ Does(r, "idle")
    /\ gateway = "on"
    /\ Set(r, [Idle EXCEPT !.op = "pay", !.order = o, !.keys = keys])
    /\ UNCHANGED <<status, open, keyOf, money, hooks, reports, account, rowLock, orderLock>>

(* What start finds in the order's row and payments: nothing complete, and nothing open *)
(* or an attempt it may replace.                                                        *)
MayStart(o, old, k) ==
    /\ o \in open
    /\ Has(o, {"COMPLETED"}) = {}
    /\ \/ old = None /\ Has(o, Active) = {}
       \/ old \in Has(o, Active) /\ Stale(old, k)

StartCheckUnlocked(r, old) ==
    /\ Does(r, "pay")
    /\ MayStart(request[r].order, old, request[r].keys)
    /\ Set(r, [request[r] EXCEPT !.op = "start", !.payment = old])
    /\ UNCHANGED <<status, open, keyOf, money, hooks, reports, account, rowLock, orderLock>>
StartCheck(r, old) ==
    /\ Does(r, "pay")
    /\ orderLock[request[r].order] = None
    /\ MayStart(request[r].order, old, request[r].keys)
    /\ orderLock' = [orderLock EXCEPT ![request[r].order] = r]
    /\ Set(r, [request[r] EXCEPT !.op = "start", !.payment = old])
    /\ UNCHANGED <<status, open, keyOf, money, hooks, reports, account, rowLock>>

(* The old attempt is cancelled by its id, whatever it has become; the new one *)
(* is inserted once Razorpay has answered.                                     *)
StartCommit(r, p) ==
    LET old == request[r].payment
    IN  /\ Does(r, "start")
        /\ status[p] = "NONE" /\ OrderOf[p] = request[r].order /\ p \in Online
        /\ old # None => rowLock[old] = None
        /\ status' = [q \in Payments |-> IF q = p THEN "PENDING"
                                         ELSE IF q = old THEN "CANCELLED" ELSE status[q]]
        /\ keyOf' = [keyOf EXCEPT ![p] = request[r].keys]
        /\ orderLock' = [o \in Orders |-> IF orderLock[o] = r THEN None ELSE orderLock[o]]
        /\ Set(r, Idle)
        /\ UNCHANGED <<open, money, hooks, reports, account, rowLock>>

(* The shopper pays at Razorpay, which knows nothing of the payment's status. *)
Capture(p) ==
    /\ p \in Online \ captured
    /\ status[p] # "NONE"
    /\ captured' = captured \cup {p}
    /\ UNCHANGED <<status, open, keyOf, money, hooks, accepted, account,
                   rowLock, orderLock, request>>

(***************************************************************************)
(* A capture is reported by the browser (verify), whose signature is made  *)
(* with the secret of the keys the attempt was started with, and by        *)
(* Razorpay (payment.captured and order.paid, repeated until answered),    *)
(* signed with the webhook secret.  A report refused changes nothing, and  *)
(* so does one of a capture already written (a second note breaks the      *)
(* unique transaction id and is rolled back).                              *)
(***************************************************************************)
Unbooked(p) == p \in captured \ (known \cup noted)
Accept(p) ==
    /\ Unbooked(p) /\ p \notin accepted
    /\ gateway # "none"
    /\ accepted' = accepted \cup {p}
    /\ UNCHANGED <<status, open, keyOf, money, hooks, captured, account,
                   rowLock, orderLock, request>>
Verify(p) == keyOf[p] = keys /\ Accept(p)
Hear(p) == hooked /\ Accept(p)

(* An accepted report dies before markPaid commits. *)
Lose(p) ==
    /\ p \in accepted
    /\ accepted' = accepted \ {p}
    /\ UNCHANGED <<status, open, keyOf, money, hooks, captured, account,
                   rowLock, orderLock, request>>

(* markPaid, under the payment's row lock. *)
MarkPaidWhileOpen(p) ==
    /\ p \in accepted
    /\ rowLock[p] = None
    /\ status[p] \in Active
    /\ accepted' = accepted \ {p}
    /\ status' = [status EXCEPT ![p] = "COMPLETED"]
    /\ charges' = [charges EXCEPT ![p] = @ + 1]
    /\ known' = known \cup {p}
    /\ UNCHANGED <<open, keyOf, refunded, noted, sent, hooks, captured, account,
                   rowLock, orderLock, request>>
MarkPaid(p) ==
    /\ p \in accepted
    /\ rowLock[p] = None
    /\ accepted' = accepted \ {p}
    /\ IF status[p] \in Active
       THEN /\ status' = [status EXCEPT ![p] = "COMPLETED"]
            /\ charges' = [charges EXCEPT ![p] = @ + 1]
            /\ known' = known \cup {p}
            /\ UNCHANGED noted
       ELSE /\ noted' = noted \cup {p}
            /\ UNCHANGED <<status, charges, known>>
    /\ UNCHANGED <<open, keyOf, refunded, sent, hooks, captured, account,
                   rowLock, orderLock, request>>

-----------------------------------------------------------------------------
(* handleWebhook of the other providers: the payment is read before the transaction ... *)
WebhookRead(r, e) ==
    /\ Does(r, "idle")
    /\ status[e.payment] # "NONE"
    /\ Set(r, [Idle EXCEPT !.op = "webhook", !.event = e, !.read = status[e.payment]])
    /\ UNCHANGED <<status, open, keyOf, money, hooks, reports, account, rowLock, orderLock>>

(***************************************************************************)
(* ... which inserts the event (a repeat breaks the unique event id and is *)
(* rolled back) and moves the status if the transition is valid both from  *)
(* the status read before and from the status under the lock.  A move      *)
(* writes its row unless its provider transaction has one already (an      *)
(* event that names none has one of its own).  The event refers to the     *)
(* payment, so its insert waits for the payment's row lock.                *)
(***************************************************************************)
WebhookMoves(r, moves) ==
    LET e == request[r].event
        p == e.payment
    IN  /\ Does(r, "webhook")
        /\ e \notin recorded => rowLock[p] = None
        /\ recorded' = recorded \cup {e}
        /\ status' = IF moves THEN [status EXCEPT ![p] = e.to] ELSE status
        /\ charges' = IF moves /\ e.to = "COMPLETED" /\ e.txn \notin txns
                      THEN [charges EXCEPT ![p] = @ + 1] ELSE charges
        /\ txns' = IF moves THEN txns \cup {e.txn} ELSE txns
        /\ Set(r, Idle)
        /\ UNCHANGED <<open, keyOf, refunded, known, noted, sent, reports, account,
                       rowLock, orderLock>>
WebhookCommitUnchecked(r) ==
    LET e == request[r].event
    IN  WebhookMoves(r, e \notin recorded /\ Valid(request[r].read, e.to))
WebhookCommit(r) ==
    LET e == request[r].event
    IN  WebhookMoves(r, /\ e \notin recorded
                        /\ Valid(request[r].read, e.to)
                        /\ Valid(status[e.payment], e.to))

-----------------------------------------------------------------------------
(* What refund asks of a payment, a of which is to go back. *)
MayRefund(p, a) ==
    /\ status[p] \in Refundable
    /\ refunded[p] + a <= Amount
    /\ p \in Online => p \in known /\ gateway # "none" /\ sent[p] + a <= MaxSent

(* refund, to the point where Razorpay has accepted it: the row stays locked. *)
RefundBeginUnlocked(r, p, a) ==
    /\ Does(r, "idle")
    /\ MayRefund(p, a)
    /\ sent' = IF p \in Online THEN [sent EXCEPT ![p] = @ + a] ELSE sent
    /\ Set(r, [Idle EXCEPT !.op = "refund", !.payment = p, !.amount = a])
    /\ UNCHANGED <<status, open, keyOf, charges, refunded, known, noted, hooks, reports, account,
                   rowLock, orderLock>>
RefundBeginUnsent(r, p, a) ==
    /\ Does(r, "idle")
    /\ rowLock[p] = None
    /\ MayRefund(p, a)
    /\ rowLock' = [rowLock EXCEPT ![p] = r]
    /\ Set(r, [Idle EXCEPT !.op = "refund", !.payment = p, !.amount = a])
    /\ UNCHANGED <<status, open, keyOf, money, hooks, reports, account, orderLock>>
RefundBegin(r, p, a) ==
    /\ Does(r, "idle")
    /\ rowLock[p] = None
    /\ MayRefund(p, a)
    /\ rowLock' = [rowLock EXCEPT ![p] = r]
    /\ sent' = IF p \in Online THEN [sent EXCEPT ![p] = @ + a] ELSE sent
    /\ Set(r, [Idle EXCEPT !.op = "refund", !.payment = p, !.amount = a])
    /\ UNCHANGED <<status, open, keyOf, charges, refunded, known, noted, hooks, reports, account,
                   orderLock>>

(* The refund row, the new status and the commit. *)
RefundCommitForgettingRow(r) ==
    LET p == request[r].payment
        total == refunded[p] + request[r].amount
    IN  /\ Does(r, "refund")
        /\ status' = [status EXCEPT ![p] = IF total >= Amount THEN "REFUNDED"
                                           ELSE "PARTIALLY_REFUNDED"]
        /\ rowLock' = [rowLock EXCEPT ![p] = None]
        /\ Set(r, Idle)
        /\ UNCHANGED <<open, keyOf, money, hooks, reports, account, orderLock>>
RefundCommit(r) ==
    LET p == request[r].payment
        total == refunded[p] + request[r].amount
    IN  /\ Does(r, "refund")
        /\ refunded' = [refunded EXCEPT ![p] = total]
        /\ status' = [status EXCEPT ![p] = IF total >= Amount THEN "REFUNDED"
                                           ELSE "PARTIALLY_REFUNDED"]
        /\ rowLock' = [rowLock EXCEPT ![p] = None]
        /\ Set(r, Idle)
        /\ UNCHANGED <<open, keyOf, charges, known, noted, sent, hooks, reports, account,
                       orderLock>>

(* The request ends where it is: an early return, an error, the time limit or a *)
(* restart; its locks are freed.                                                *)
Die(r) ==
    /\ ~Does(r, "idle")
    /\ rowLock' = [p \in Payments |-> IF rowLock[p] = r THEN None ELSE rowLock[p]]
    /\ orderLock' = [o \in Orders |-> IF orderLock[o] = r THEN None ELSE orderLock[o]]
    /\ Set(r, Idle)
    /\ UNCHANGED <<status, open, keyOf, money, hooks, reports, account>>

Next ==
    \/ \E o \in Orders : CloseOrder(o)
    \/ \E on \in {"off", "on"} :
            \/ \E k \in 1..MaxKeys : SaveKeys(k, on)
            \/ SetEnabled(on)
    \/ RemoveGateway
    \/ \E p \in Payments :
            \/ \E to \in {"COMPLETED", "FAILED"} : Confirm(p, to)
            \/ Capture(p) \/ Verify(p) \/ Hear(p) \/ Lose(p) \/ MarkPaid(p)
    \/ \E r \in Requests :
            \/ \E o \in Orders : CreateCheck(r, o) \/ StartRead(r, o)
            \/ \E p \in Payments : CreateInsert(r, p)
            \/ \E old \in Payments \cup {None} : StartCheck(r, old)
            \/ \E p \in Payments : StartCommit(r, p)
            \/ \E e \in Events : WebhookRead(r, e)
            \/ WebhookCommit(r)
            \/ \E p \in Payments, a \in 1..Amount : RefundBegin(r, p, a)
            \/ RefundCommit(r)
            \/ Die(r)

Spec == Init /\ [][Next]_vars

(* Razorpay repeats a webhook until it is answered, and a report that is accepted *)
(* again and again is once not lost on the way.                                   *)
FairSpec == Spec /\ \A p \in Payments : WF_vars(Hear(p)) /\ SF_vars(MarkPaid(p))

(* The shopper's browser reports as well. *)
BothReport == FairSpec /\ \A p \in Payments : WF_vars(Verify(p))

-----------------------------------------------------------------------------
Calls == [op : {"idle", "create", "pay", "start", "webhook", "refund"},
          order : Orders \cup {None}, payment : Payments \cup {None}, event : Events \cup {None},
          read : Statuses, amount : 0..Amount, keys : 0..MaxKeys]

(* The columns' types; what is refunded stays within the amount, and a capture is *)
(* either a charge or a note.                                                     *)
TypeOK ==
    /\ status \in [Payments -> Statuses]
    /\ open \subseteq Orders
    /\ charges \in [Payments -> Nat]
    /\ refunded \in [Payments -> 0..Amount]
    /\ keyOf \in [Payments -> 0..MaxKeys]
    /\ known \subseteq captured
    /\ noted \subseteq captured \ known
    /\ sent \in [Payments -> 0..MaxSent]
    /\ recorded \subseteq Events
    /\ txns \subseteq {e.txn : e \in Events}
    /\ captured \subseteq Online
    /\ accepted \subseteq captured \ (known \cup noted)
    /\ gateway \in {"none", "off", "on"}
    /\ keys \in 0..MaxKeys
    /\ hooked \in BOOLEAN
    /\ rowLock \in [Payments -> Requests \cup {None}]
    /\ orderLock \in [Orders -> Requests \cup {None}]
    /\ request \in [Requests -> Calls]

(***************************************************************************)
(* The status tells what was given back, although refunds, confirmations   *)
(* and webhooks race: nothing while COMPLETED, part of the amount while    *)
(* PARTIALLY_REFUNDED, all of it only when REFUNDED (which a webhook may   *)
(* also say with no refund row), and never more than was paid.  Only of a  *)
(* payment that start has replaced, and left CANCELLED, it does not tell.  *)
(***************************************************************************)
RefundsMatchStatus ==
    \A p \in Payments :
        /\ refunded[p] <= Amount
        /\ status[p] = "PARTIALLY_REFUNDED" => refunded[p] \in 1..(Amount - 1)
        /\ status[p] # "CANCELLED" =>
              /\ refunded[p] = Amount => status[p] = "REFUNDED"
              /\ refunded[p] > 0 => status[p] \in {"PARTIALLY_REFUNDED", "REFUNDED"}

(* Browser, webhooks and staff may all report one payment as paid: it is charged once  *)
(* when it has been paid, not at all while it has not, and never twice, replaced or not. *)
ChargedOnce ==
    \A p \in Payments :
        /\ charges[p] <= 1
        /\ status[p] \in Paid => charges[p] = 1
        /\ status[p] \notin Paid \cup {"CANCELLED"} => charges[p] = 0

(* Whatever a refund of a Razorpay payment records, Razorpay has been sent. *)
RecordedRefundsWereSent == \A p \in Online : refunded[p] <= sent[p]

(* A payment's row is locked by a refund of that payment that is still running, *)
(* and no two refunds of a payment run at the same time.                        *)
LocksAreHeld ==
    /\ \A p \in Payments : rowLock[p] # None =>
            Does(rowLock[p], "refund") /\ request[rowLock[p]].payment = p
    /\ \A r \in Requests : Does(r, "refund") => rowLock[request[r].payment] = r

(***************************************************************************)
(* PAYMENT_TRANSITIONS, over the steps of every handler together: a        *)
(* payment opens or moves along the table, or it was the attempt of an     *)
(* order that start found open and cancels as it opens the next one.  That *)
(* last move is the only way off the table: it may cancel what has been    *)
(* paid or refunded meanwhile, but never a payment of another order and    *)
(* never without a new attempt in its place.                               *)
(***************************************************************************)
Opened(p) == status[p] = "NONE" /\ status'[p] = "PENDING"
Overtaken(p) ==
    /\ status'[p] = "CANCELLED"
    /\ \E r \in Requests : Does(r, "start") /\ request[r].payment = p
    /\ \E q \in Payments \ {p} : OrderOf[q] = OrderOf[p] /\ Opened(q)
StatusMovesAllowed ==
    [][\A p \in Payments : status'[p] # status[p] =>
            Opened(p) \/ Valid(status[p], status'[p]) \/ Overtaken(p)]_vars

(* "Controlled state machine": every change of status is in PAYMENT_TRANSITIONS. *)
OnlyTransitions ==
    [][\A p \in Payments : status'[p] # status[p] =>
            Opened(p) \/ Valid(status[p], status'[p])]_vars

(* create: "Prevent duplicate active payment for same order". *)
OneActivePayment == \A o \in Orders : \A p, q \in Has(o, Active) : p = q

(* start: a second attempt never runs beside an open one, and never beside a payment *)
(* of the order that is already complete, although stale attempts are replaced.      *)
OneLivePayment == \A o \in Orders : \A p, q \in Has(o, Active \cup {"COMPLETED"}) : p = q

(* "failure -> rollback everything": no refund is at Razorpay and not in the books, *)
(* unless a request is still working on it.                                         *)
NoOrphanRefund == \A p \in Online : rowLock[p] = None => sent[p] = refunded[p]

(* Money taken at Razorpay ends up in the books, as the payment's charge or as a note *)
(* that it must be given back, while its webhooks can be accepted.                    *)
Deaf == gateway = "none" \/ ~hooked
CapturesAreBooked ==
    \A p \in Payments : (p \in captured) ~> (p \in known \cup noted \/ Deaf)

(* "If money was taken, it will be confirmed automatically or refunded": it reaches the *)
(* books, where browser and Razorpay both report it and the shop stays connected.       *)
CapturesReachTheBooks ==
    \A p \in Payments : (p \in captured) ~> (p \in known \cup noted \/ gateway = "none")

=============================================================================
