--------------------------- MODULE PaymentsProofs ---------------------------
(***************************************************************************)
(* Proofs about Payments for any orders, payments, events, keys and        *)
(* requests.  All of it holds however requests interleave, with attempts   *)
(* replaced while they are being paid; only that an order has one live     *)
(* payment needs that all of them are started through start (OnlineOnly).  *)
(***************************************************************************)
EXTENDS Payments, TLAPS

OnlineOnly == Online = Payments

-----------------------------------------------------------------------------
(***************************************************************************)
(* What the requests in flight may rely on: a refund that has reached the  *)
(* provider is still allowed, and is counted in what was sent.             *)
(***************************************************************************)
RefundStands(r) ==
    LET p == request[r].payment
        a == request[r].amount
    IN  Does(r, "refund") =>
            /\ p \in Payments
            /\ status[p] \in Refundable
            /\ a >= 1
            /\ refunded[p] + a <= Amount
            /\ p \in Online => refunded[p] + a <= sent[p]
InFlight ==
    \A r \in Requests :
        /\ Does(r, "create") \/ Does(r, "pay") \/ Does(r, "start") => request[r].order \in Orders
        /\ Does(r, "webhook") => request[r].event \in Events
        /\ RefundStands(r)

IInv == TypeOK /\ LocksAreHeld /\ RecordedRefundsWereSent /\ InFlight

(* Writing the record of one request leaves the others alone. *)
LEMMA SetCall ==
  ASSUME TypeOK, NEW r \in Requests, NEW c \in Calls, Set(r, c)
  PROVE  /\ request' \in [Requests -> Calls] /\ request'[r] = c
         /\ \A s \in Requests \ {r} : request'[s] = request[s]
BY DEF Set, TypeOK

LEMMA IdleCall == Idle \in Calls
BY AmountAssumption, KeysAssumption DEF Idle, Calls, Statuses

(* A request that starts anything but a refund disturbs no lock and no refund. *)
LEMMA OtherCall ==
  ASSUME IInv, NEW r \in Requests, NEW c \in Calls, Set(r, c), ~Does(r, "refund"),
         c.op # "refund",
         c.op \in {"create", "pay", "start"} => c.order \in Orders,
         c.op = "webhook" => c.event \in Events,
         UNCHANGED <<status, refunded, sent, rowLock>>
  PROVE  LocksAreHeld' /\ RecordedRefundsWereSent' /\ InFlight'
<1>1. /\ request' \in [Requests -> Calls] /\ request'[r] = c
      /\ \A s \in Requests \ {r} : request'[s] = request[s]
  BY SetCall DEF IInv
<1>2. LocksAreHeld'
  BY <1>1 DEF IInv, LocksAreHeld, Does, TypeOK
<1>3. InFlight'
  BY <1>1 DEF IInv, InFlight, RefundStands, Does
<1>4. RecordedRefundsWereSent'
  BY DEF IInv, RecordedRefundsWereSent
<1>5. QED BY <1>2, <1>3, <1>4

(* A status moves only where no refund holds the row: refunds in flight still stand. *)
LEMMA FreeRow ==
  ASSUME IInv, NEW s \in [Payments -> Statuses], status' = s,
         \A p \in Payments : rowLock[p] # None => s[p] = status[p],
         UNCHANGED <<refunded, sent, rowLock, request>>
  PROVE  LocksAreHeld' /\ RecordedRefundsWereSent' /\ InFlight'
<1>1. LocksAreHeld' /\ RecordedRefundsWereSent'
  BY DEF IInv, LocksAreHeld, Does, RecordedRefundsWereSent
<1>2. ASSUME NEW r \in Requests, Does(r, "refund")
      PROVE  s[request[r].payment] = status[request[r].payment]
  BY <1>2, NoneAssumption DEF IInv, LocksAreHeld, InFlight, RefundStands
<1>3. InFlight'
  BY <1>2 DEF IInv, InFlight, RefundStands, Does
<1>4. QED BY <1>1, <1>3

(* The same where the step also ends a request that is not a refund. *)
LEMMA FreeRowEnd ==
  ASSUME IInv, NEW r \in Requests, Set(r, Idle), ~Does(r, "refund"),
         NEW s \in [Payments -> Statuses], status' = s,
         \A p \in Payments : rowLock[p] # None => s[p] = status[p],
         UNCHANGED <<refunded, sent, rowLock>>
  PROVE  LocksAreHeld' /\ RecordedRefundsWereSent' /\ InFlight'
<1>1. /\ request' \in [Requests -> Calls] /\ request'[r] = Idle
      /\ \A t \in Requests \ {r} : request'[t] = request[t]
  BY SetCall, IdleCall DEF IInv
<1>2. Idle.op = "idle"
  BY DEF Idle
<1>3. LocksAreHeld'
  BY <1>1, <1>2 DEF IInv, LocksAreHeld, Does, TypeOK
<1>4. ASSUME NEW t \in Requests, Does(t, "refund")
      PROVE  s[request[t].payment] = status[request[t].payment]
  BY <1>4, NoneAssumption DEF IInv, LocksAreHeld, InFlight, RefundStands
<1>5. InFlight'
  BY <1>1, <1>2, <1>4 DEF IInv, InFlight, RefundStands, Does
<1>6. RecordedRefundsWereSent'
  BY DEF IInv, RecordedRefundsWereSent
<1>7. QED BY <1>3, <1>5, <1>6

LEMMA IInvInit == Init => IInv
<1> SUFFICES ASSUME Init PROVE IInv
  OBVIOUS
<1>1. \A r \in Requests : request[r] = Idle /\ ~Does(r, "refund")
  BY DEF Init, Idle, Does
<1>2. TypeOK
  <2>1. hooked \in BOOLEAN
    BY Zenon DEF Init
  <2>2. QED BY <2>1, IdleCall, AmountAssumption, KeysAssumption DEF Init, TypeOK, Statuses
<1>3. LocksAreHeld /\ RecordedRefundsWereSent
  BY <1>1, OnlineAssumption DEF Init, LocksAreHeld, RecordedRefundsWereSent
<1>4. InFlight
  BY <1>1 DEF InFlight, RefundStands, Does, Idle
<1>5. QED BY <1>2, <1>3, <1>4 DEF IInv

-----------------------------------------------------------------------------
(* The steps, one by one. *)
LEMMA CloseOrderKeeps ==
  ASSUME IInv, NEW o \in Orders, CloseOrder(o) PROVE IInv'
<1>1. TypeOK'
  BY DEF IInv, TypeOK, CloseOrder, money, hooks, reports, account
<1>2. LocksAreHeld' /\ RecordedRefundsWereSent' /\ InFlight'
  BY FreeRow DEF IInv, TypeOK, CloseOrder, money
<1>3. QED BY <1>1, <1>2 DEF IInv

LEMMA AccountKeeps ==
  ASSUME IInv,
         \/ \E k \in 1..MaxKeys, on \in {"off", "on"} : SaveKeys(k, on)
         \/ \E on \in {"off", "on"} : SetEnabled(on)
         \/ RemoveGateway
  PROVE  IInv'
<1>1. gateway' \in {"none", "off", "on"} /\ keys' \in 0..MaxKeys
  BY KeysAssumption DEF IInv, TypeOK, SaveKeys, SetEnabled, RemoveGateway
<1> hooked' \in BOOLEAN
  BY Zenon DEF IInv, TypeOK, SaveKeys, SetEnabled, RemoveGateway
<1>2. UNCHANGED <<status, open, keyOf, money, hooks, reports, rowLock, orderLock, request>>
  BY DEF SaveKeys, SetEnabled, RemoveGateway
<1>3. TypeOK'
  BY <1>1, <1>2 DEF IInv, TypeOK, money, hooks, reports
<1>4. LocksAreHeld' /\ RecordedRefundsWereSent' /\ InFlight'
  BY <1>2, FreeRow DEF IInv, TypeOK, money
<1>5. QED BY <1>3, <1>4 DEF IInv

(* A report of a capture comes in or is lost. *)
LEMMA ReportKeeps ==
  ASSUME IInv, NEW p \in Payments, Capture(p) \/ Verify(p) \/ Hear(p) \/ Lose(p) PROVE IInv'
<1>1. UNCHANGED <<status, open, keyOf, money, hooks, account, rowLock, orderLock, request>>
  BY DEF Capture, Verify, Hear, Lose, Accept
<1>2. captured' \subseteq Online /\ captured \subseteq captured'
  BY DEF IInv, TypeOK, Capture, Verify, Hear, Lose, Accept
<1>3. accepted' \subseteq captured \ (known \cup noted)
  BY DEF IInv, TypeOK, Capture, Verify, Hear, Lose, Accept, Unbooked
<1>4. TypeOK'
  BY <1>1, <1>2, <1>3 DEF IInv, TypeOK, money, hooks, account
<1>5. LocksAreHeld' /\ RecordedRefundsWereSent' /\ InFlight'
  BY <1>1, FreeRow DEF IInv, TypeOK, money
<1>6. QED BY <1>4, <1>5 DEF IInv

LEMMA CreateCheckKeeps ==
  ASSUME IInv, NEW r \in Requests, NEW o \in Orders, CreateCheck(r, o) PROVE IInv'
<1> DEFINE c == [Idle EXCEPT !.op = "create", !.order = o]
<1>1. c \in Calls /\ c.op = "create" /\ c.order = o
  BY IdleCall DEF Idle, Calls
<1>2. TypeOK'
  BY <1>1, SetCall DEF IInv, TypeOK, CreateCheck, money, hooks, reports, account
<1>3. LocksAreHeld' /\ RecordedRefundsWereSent' /\ InFlight'
  BY <1>1, OtherCall DEF CreateCheck, money, Does
<1>4. QED BY <1>2, <1>3 DEF IInv

LEMMA StartReadKeeps ==
  ASSUME IInv, NEW r \in Requests, NEW o \in Orders, StartRead(r, o) PROVE IInv'
<1> DEFINE c == [Idle EXCEPT !.op = "pay", !.order = o, !.keys = keys]
<1>1. c \in Calls /\ c.op = "pay" /\ c.order = o
  BY IdleCall DEF Idle, Calls, IInv, TypeOK
<1>2. TypeOK'
  BY <1>1, SetCall DEF IInv, TypeOK, StartRead, money, hooks, reports, account
<1>3. LocksAreHeld' /\ RecordedRefundsWereSent' /\ InFlight'
  BY <1>1, OtherCall DEF StartRead, money, Does
<1>4. QED BY <1>2, <1>3 DEF IInv

(* The call a start becomes once it has the order's row. *)
Going(r, old) == [request[r] EXCEPT !.op = "start", !.payment = old]
LEMMA StartCall ==
  ASSUME IInv, NEW r \in Requests, NEW old \in Payments \cup {None}, StartCheck(r, old)
  PROVE  /\ Set(r, Going(r, old)) /\ Going(r, old) \in Calls
         /\ Going(r, old).op = "start" /\ Going(r, old).payment = old
         /\ Going(r, old).order = request[r].order /\ request[r].order \in Orders
<1>1. request[r] \in Calls /\ request[r].order \in Orders
  BY DEF IInv, TypeOK, InFlight, Does, StartCheck
<1>2. Set(r, Going(r, old))
  BY DEF StartCheck, Going
<1>3. /\ Going(r, old) \in Calls /\ Going(r, old).order = request[r].order
      /\ Going(r, old).op = "start" /\ Going(r, old).payment = old
  BY <1>1 DEF Calls, Going
<1>4. QED BY <1>1, <1>2, <1>3

LEMMA StartCheckKeeps ==
  ASSUME IInv, NEW r \in Requests, NEW old \in Payments \cup {None}, StartCheck(r, old)
  PROVE  IInv'
<1>1. /\ Set(r, Going(r, old)) /\ Going(r, old) \in Calls
      /\ Going(r, old).op = "start" /\ Going(r, old).order \in Orders
  BY StartCall
<1>2. TypeOK'
  <2>1. orderLock' \in [Orders -> Requests \cup {None}]
    BY DEF IInv, TypeOK, StartCheck
  <2>2. QED BY <1>1, <2>1, SetCall
            DEF IInv, TypeOK, StartCheck, money, hooks, reports, account
<1>3. LocksAreHeld' /\ RecordedRefundsWereSent' /\ InFlight'
  BY <1>1, OtherCall DEF StartCheck, money, Does
<1>4. QED BY <1>2, <1>3 DEF IInv

LEMMA WebhookReadKeeps ==
  ASSUME IInv, NEW r \in Requests, NEW e \in Events, WebhookRead(r, e) PROVE IInv'
<1> DEFINE c == [Idle EXCEPT !.op = "webhook", !.event = e, !.read = status[e.payment]]
<1>1. status[e.payment] \in Statuses
  BY EventsAssumption DEF IInv, TypeOK
<1>2. c \in Calls /\ c.op = "webhook" /\ c.event = e
  BY <1>1, IdleCall DEF Idle, Calls
<1>3. TypeOK'
  BY <1>2, SetCall DEF IInv, TypeOK, WebhookRead, money, hooks, reports, account
<1>4. LocksAreHeld' /\ RecordedRefundsWereSent' /\ InFlight'
  BY <1>2, OtherCall DEF WebhookRead, money, Does
<1>5. QED BY <1>3, <1>4 DEF IInv

LEMMA ConfirmKeeps ==
  ASSUME IInv, NEW p \in Payments, NEW to \in {"COMPLETED", "FAILED"}, Confirm(p, to)
  PROVE  IInv'
<1>1. status' \in [Payments -> Statuses] /\ charges' \in [Payments -> Nat]
  BY DEF IInv, TypeOK, Confirm, Statuses, Paid
<1>2. TypeOK'
  BY <1>1 DEF IInv, TypeOK, Confirm, hooks, reports, account
<1>3. \A q \in Payments : rowLock[q] # None => status'[q] = status[q]
  BY DEF IInv, TypeOK, Confirm
<1>4. LocksAreHeld' /\ RecordedRefundsWereSent' /\ InFlight'
  BY <1>1, <1>3, FreeRow DEF Confirm
<1>5. QED BY <1>2, <1>4 DEF IInv

LEMMA MarkPaidKeeps ==
  ASSUME IInv, NEW p \in Payments, MarkPaid(p) PROVE IInv'
<1>1. status' \in [Payments -> Statuses] /\ charges' \in [Payments -> Nat]
  BY DEF IInv, TypeOK, MarkPaid, Statuses, Paid
<1>2. /\ known' \subseteq captured /\ noted' \subseteq captured \ known'
      /\ accepted' \subseteq captured \ (known' \cup noted')
  BY DEF IInv, TypeOK, MarkPaid
<1>3. TypeOK'
  BY <1>1, <1>2 DEF IInv, TypeOK, MarkPaid, hooks, account
<1>4. \A q \in Payments : rowLock[q] # None => status'[q] = status[q]
  BY DEF IInv, TypeOK, MarkPaid
<1>5. LocksAreHeld' /\ RecordedRefundsWereSent' /\ InFlight'
  BY <1>1, <1>4, FreeRow DEF MarkPaid
<1>6. QED BY <1>3, <1>5 DEF IInv

LEMMA CreateInsertKeeps ==
  ASSUME IInv, NEW r \in Requests, NEW p \in Payments, CreateInsert(r, p) PROVE IInv'
<1>1. status' \in [Payments -> Statuses]
  BY DEF IInv, TypeOK, CreateInsert, Statuses, Active
<1>2. TypeOK'
  BY <1>1, SetCall, IdleCall DEF IInv, TypeOK, CreateInsert, money, hooks, reports, account
<1>3. \A q \in Payments : rowLock[q] # None => status'[q] = status[q]
  <2>1. ASSUME rowLock[p] # None PROVE status[p] \in Refundable
    BY <2>1 DEF IInv, TypeOK, LocksAreHeld, InFlight, RefundStands
  <2>2. QED BY <2>1 DEF IInv, TypeOK, CreateInsert, Refundable
<1>4. LocksAreHeld' /\ RecordedRefundsWereSent' /\ InFlight'
  BY <1>1, <1>3, FreeRowEnd DEF CreateInsert, Does, money
<1>5. QED BY <1>2, <1>4 DEF IInv

LEMMA StartCommitKeeps ==
  ASSUME IInv, NEW r \in Requests, NEW p \in Payments, StartCommit(r, p) PROVE IInv'
<1>1. status' \in [Payments -> Statuses]
  BY DEF IInv, TypeOK, StartCommit, Statuses, Active
<1>2. orderLock' \in [Orders -> Requests \cup {None}]
  BY DEF IInv, TypeOK, StartCommit
<1>3. TypeOK'
  <2>1. keyOf' \in [Payments -> 0..MaxKeys]
    BY DEF IInv, TypeOK, Calls, StartCommit
  <2>2. QED BY <1>1, <1>2, <2>1, SetCall, IdleCall
            DEF IInv, TypeOK, StartCommit, money, hooks, reports, account
<1>4. \A q \in Payments : rowLock[q] # None => status'[q] = status[q]
  <2>1. ASSUME rowLock[p] # None PROVE status[p] \in Refundable
    BY <2>1 DEF IInv, TypeOK, LocksAreHeld, InFlight, RefundStands
  <2>2. rowLock[p] = None
    BY <2>1 DEF StartCommit, Refundable
  <2>3. QED BY <2>2, NoneAssumption DEF IInv, TypeOK, StartCommit
<1>5. LocksAreHeld' /\ RecordedRefundsWereSent' /\ InFlight'
  BY <1>1, <1>4, FreeRowEnd DEF StartCommit, Does, money
<1>6. QED BY <1>3, <1>5 DEF IInv

LEMMA WebhookCommitKeeps ==
  ASSUME IInv, NEW r \in Requests, WebhookCommit(r) PROVE IInv'
<1> DEFINE e == request[r].event
           moves == e \notin recorded /\ Valid(request[r].read, e.to)
                                      /\ Valid(status[e.payment], e.to)
<1>1. Does(r, "webhook") /\ WebhookMoves(r, moves)
  BY DEF WebhookCommit, WebhookMoves
<1>2. e \in Events /\ e.payment \in Payments /\ e.to \in {"COMPLETED", "FAILED", "REFUNDED"}
  BY <1>1, EventsAssumption DEF IInv, InFlight
<1> HIDE DEF moves
<1>3. status' \in [Payments -> Statuses] /\ charges' \in [Payments -> Nat]
  BY <1>1, <1>2 DEF IInv, TypeOK, WebhookMoves, Statuses, Paid
<1>4. recorded' \subseteq Events /\ txns' \subseteq {x.txn : x \in Events}
  BY <1>1, <1>2 DEF IInv, TypeOK, WebhookMoves
<1>5. TypeOK'
  BY <1>1, <1>3, <1>4, SetCall, IdleCall DEF IInv, TypeOK, WebhookMoves, reports, account
<1>6. \A q \in Payments : rowLock[q] # None => status'[q] = status[q]
  BY <1>1, <1>2 DEF IInv, TypeOK, WebhookMoves, moves
<1>7. LocksAreHeld' /\ RecordedRefundsWereSent' /\ InFlight'
  BY <1>1, <1>3, <1>6, FreeRowEnd DEF WebhookMoves, Does
<1>8. QED BY <1>5, <1>7 DEF IInv

LEMMA RefundBeginKeeps ==
  ASSUME IInv, NEW r \in Requests, NEW p \in Payments, NEW a \in 1..Amount,
         RefundBegin(r, p, a)
  PROVE  IInv'
<1> DEFINE c == [Idle EXCEPT !.op = "refund", !.payment = p, !.amount = a]
<1>1. c \in Calls /\ c.op = "refund" /\ c.payment = p /\ c.amount = a
  <2>1. a \in 0..Amount
    BY AmountAssumption
  <2>2. QED BY <2>1, IdleCall DEF Idle, Calls
<1>2. /\ request' \in [Requests -> Calls] /\ request'[r] = c
      /\ \A s \in Requests \ {r} : request'[s] = request[s]
  BY <1>1, SetCall DEF IInv, RefundBegin
<1>3. sent' \in [Payments -> 0..MaxSent] /\ \A q \in Payments : sent'[q] >= sent[q]
  BY AmountAssumption DEF IInv, TypeOK, RefundBegin, MayRefund
<1>4. rowLock' \in [Payments -> Requests \cup {None}]
  BY DEF IInv, TypeOK, RefundBegin, MayRefund
<1>5. TypeOK'
  BY <1>2, <1>3, <1>4 DEF IInv, TypeOK, RefundBegin, MayRefund, hooks, reports, account
<1>6. ~Does(r, "refund") /\ rowLock[p] = None
  BY DEF RefundBegin, Does
<1>7. \A s \in Requests \ {r} : Does(s, "refund") => request[s].payment # p
  BY <1>6, NoneAssumption DEF IInv, LocksAreHeld
<1>8. LocksAreHeld'
  <2>1. rowLock'[p] = r /\ \A q \in Payments \ {p} : rowLock'[q] = rowLock[q]
    BY DEF IInv, TypeOK, RefundBegin, MayRefund
  <2>2. ASSUME NEW q \in Payments, rowLock'[q] # None
        PROVE  /\ request'[rowLock'[q]].op = "refund"
               /\ request'[rowLock'[q]].payment = q
    <3>1. CASE q = p
      BY <1>1, <1>2, <2>1, <3>1
    <3>2. CASE q # p
      BY <1>2, <1>6, <2>1, <2>2, <3>2 DEF IInv, TypeOK, LocksAreHeld, Does
    <3>3. QED BY <3>1, <3>2
  <2>3. ASSUME NEW s \in Requests, request'[s].op = "refund"
        PROVE  rowLock'[request'[s].payment] = s
    <3>1. CASE s = r
      BY <1>1, <1>2, <2>1, <3>1
    <3>2. CASE s # r
      BY <1>2, <1>7, <2>1, <2>3, <3>2 DEF IInv, LocksAreHeld, InFlight, RefundStands, Does
    <3>3. QED BY <3>1, <3>2
  <2>4. QED BY <2>2, <2>3 DEF LocksAreHeld, Does
<1>9. RecordedRefundsWereSent'
  <2>1. refunded \in [Payments -> 0..Amount] /\ sent \in [Payments -> 0..MaxSent]
    BY DEF IInv, TypeOK
  <2>2. ASSUME NEW q \in Online PROVE refunded[q] <= sent'[q]
    <3>1. refunded[q] \in 0..Amount /\ sent[q] \in 0..MaxSent /\ sent'[q] \in 0..MaxSent
      BY <1>3, <2>1, OnlineAssumption
    <3>2. refunded[q] <= sent[q] /\ sent[q] <= sent'[q]
      BY <1>3, OnlineAssumption DEF IInv, RecordedRefundsWereSent
    <3>3. QED BY <3>1, <3>2, AmountAssumption
  <2>3. QED BY <2>2 DEF RecordedRefundsWereSent, RefundBegin
<1>10. InFlight'
  <2>1. ASSUME NEW s \in Requests \ {r}, request[s].op = "refund"
        PROVE  sent'[request[s].payment] = sent[request[s].payment]
    BY <1>7, <2>1 DEF IInv, TypeOK, RefundBegin, MayRefund, InFlight, RefundStands, Does
  <2>2. p \in Online => refunded[p] + a <= sent'[p]
    <3>1. refunded[p] \in 0..Amount /\ sent[p] \in 0..MaxSent /\ a \in 1..Amount
      BY DEF IInv, TypeOK
    <3>2. p \in Online => sent'[p] = sent[p] + a /\ refunded[p] <= sent[p]
      BY DEF IInv, TypeOK, RefundBegin, MayRefund, RecordedRefundsWereSent
    <3>3. QED BY <3>1, <3>2, AmountAssumption
  <2>3. RefundStands(r)'
    BY <1>1, <1>2, <2>2 DEF RefundBegin, MayRefund, RefundStands, Does
  <2>4. ASSUME NEW s \in Requests \ {r} PROVE RefundStands(s)'
    BY <1>2, <2>1 DEF IInv, InFlight, RefundStands, RefundBegin, MayRefund, Does
  <2>5. QED BY <1>1, <1>2, <2>3, <2>4 DEF IInv, InFlight, Does
<1>11. QED BY <1>5, <1>8, <1>9, <1>10 DEF IInv

LEMMA RefundCommitKeeps ==
  ASSUME IInv, NEW r \in Requests, RefundCommit(r) PROVE IInv'
<1> DEFINE p == request[r].payment
           total == refunded[p] + request[r].amount
<1>1. p \in Payments /\ rowLock[p] = r /\ request[r].amount \in 0..Amount
  BY DEF RefundCommit, IInv, TypeOK, InFlight, RefundStands, LocksAreHeld, Calls
<1>2. refunded[p] \in 0..Amount /\ total <= Amount /\ (p \in Online => total <= sent[p])
  BY <1>1 DEF RefundCommit, IInv, TypeOK, InFlight, RefundStands
<1>3. total \in 0..Amount
  BY <1>1, <1>2, AmountAssumption
<1>4. /\ request' \in [Requests -> Calls] /\ request'[r] = Idle
      /\ \A s \in Requests \ {r} : request'[s] = request[s]
  BY SetCall, IdleCall DEF IInv, RefundCommit
<1>5. refunded' = [refunded EXCEPT ![p] = total] /\ UNCHANGED sent
  BY DEF RefundCommit
<1>6. TypeOK'
  <2>1. status' \in [Payments -> Statuses]
    BY <1>1 DEF RefundCommit, IInv, TypeOK, Statuses, Paid
  <2>2. refunded' \in [Payments -> 0..Amount]
    BY <1>3, <1>5 DEF IInv, TypeOK
  <2>3. rowLock' \in [Payments -> Requests \cup {None}]
    BY DEF RefundCommit, IInv, TypeOK
  <2>4. QED BY <1>4, <2>1, <2>2, <2>3
            DEF RefundCommit, IInv, TypeOK, hooks, reports, account
<1>7. \A s \in Requests \ {r} : Does(s, "refund") => request[s].payment # p
  BY <1>1 DEF IInv, LocksAreHeld
<1>8. LocksAreHeld'
  BY <1>1, <1>4, <1>7 DEF RefundCommit, IInv, TypeOK, LocksAreHeld, InFlight, RefundStands, Does, Idle
<1>9. RecordedRefundsWereSent'
  BY <1>1, <1>2, <1>5 DEF IInv, TypeOK, RecordedRefundsWereSent
<1>10. InFlight'
  BY <1>4, <1>5, <1>7 DEF RefundCommit, IInv, TypeOK, InFlight, RefundStands, Does, Idle
<1>11. QED BY <1>6, <1>8, <1>9, <1>10 DEF IInv

LEMMA DieKeeps ==
  ASSUME IInv, NEW r \in Requests, Die(r) PROVE IInv'
<1>1. /\ request' \in [Requests -> Calls] /\ request'[r] = Idle
      /\ \A s \in Requests \ {r} : request'[s] = request[s]
  BY SetCall, IdleCall DEF IInv, Die
<1>2. /\ rowLock' \in [Payments -> Requests \cup {None}]
      /\ orderLock' \in [Orders -> Requests \cup {None}]
  BY DEF IInv, TypeOK, Die
<1>3. TypeOK'
  BY <1>1, <1>2 DEF IInv, TypeOK, Die, money, hooks, reports, account
<1>4. \A q \in Payments : rowLock'[q] = IF rowLock[q] = r THEN None ELSE rowLock[q]
  BY DEF Die
<1>5. LocksAreHeld'
  <2>1. ASSUME NEW q \in Payments, rowLock'[q] # None
        PROVE  /\ request'[rowLock'[q]].op = "refund"
               /\ request'[rowLock'[q]].payment = q
    BY <1>1, <1>4, <2>1 DEF IInv, TypeOK, LocksAreHeld, Does
  <2>2. ASSUME NEW s \in Requests, request'[s].op = "refund"
        PROVE  rowLock'[request'[s].payment] = s
    BY <1>1, <1>4, <2>2 DEF IInv, LocksAreHeld, InFlight, RefundStands, Does, Idle
  <2>3. QED BY <2>1, <2>2 DEF LocksAreHeld, Does
<1>6. RecordedRefundsWereSent' /\ InFlight'
  BY <1>1 DEF IInv, RecordedRefundsWereSent, InFlight, RefundStands, Does, Idle, Die, money
<1>7. QED BY <1>3, <1>5, <1>6 DEF IInv

LEMMA IInvNext == IInv /\ [Next]_vars => IInv'
<1>1. ASSUME IInv, UNCHANGED vars PROVE IInv'
  BY <1>1 DEF IInv, TypeOK, LocksAreHeld, RecordedRefundsWereSent, InFlight, RefundStands,
              Does, vars, money, hooks, reports, account
<1>2. QED
  BY <1>1, CloseOrderKeeps, AccountKeeps, CreateCheckKeeps, CreateInsertKeeps, ConfirmKeeps,
     ReportKeeps, MarkPaidKeeps, StartReadKeeps, StartCheckKeeps, StartCommitKeeps,
     WebhookReadKeeps, WebhookCommitKeeps,
     RefundBeginKeeps, RefundCommitKeeps, DieKeeps DEF Next

(* Type correctness however requests interleave; what keeps refunded within the amount *)
(* is that a refund decides on what it read under the row's lock.                      *)
THEOREM TypeCorrect == Spec => []TypeOK
BY IInvInit, IInvNext, PTL DEF Spec, IInv

(* A payment's row is locked by one refund of it, which is running: no two refunds of *)
(* one payment overlap, and no lock outlives the request that took it.                *)
THEOREM LocksHeld == Spec => []LocksAreHeld
BY IInvInit, IInvNext, PTL DEF Spec, IInv

(* Nothing is recorded as refunded that Razorpay was not sent, wherever requests die. *)
THEOREM RefundsSent == Spec => []RecordedRefundsWereSent
BY IInvInit, IInvNext, PTL DEF Spec, IInv

-----------------------------------------------------------------------------
(***************************************************************************)
(* What a step can do to one payment: nothing, or one of six moves, the    *)
(* last of them being cancelled by a start that opens the next attempt,    *)
(* whatever the payment has become since the start found it.               *)
(***************************************************************************)
Same(p) == UNCHANGED <<charges[p], refunded[p]>>
Opens(p) == Opened(p) /\ Same(p)
IsPaid(p) ==
    /\ status[p] \in Active /\ status'[p] = "COMPLETED"
    /\ charges'[p] = charges[p] + 1 /\ refunded'[p] = refunded[p]
Fails(p) == status[p] \in Active /\ status'[p] = "FAILED" /\ Same(p)
IsToldRefunded(p) == status[p] \in Refundable /\ status'[p] = "REFUNDED" /\ Same(p)
GivesBack(p) ==
    /\ status[p] \in Refundable
    /\ charges'[p] = charges[p]
    /\ refunded'[p] > refunded[p] /\ refunded'[p] <= Amount
    /\ status'[p] = IF refunded'[p] >= Amount THEN "REFUNDED" ELSE "PARTIALLY_REFUNDED"
IsReplaced(p) == Overtaken(p) /\ Same(p)
PaymentStep(p) ==
    \/ UNCHANGED status[p] /\ Same(p)
    \/ Opens(p) \/ IsPaid(p) \/ Fails(p) \/ IsToldRefunded(p) \/ GivesBack(p) \/ IsReplaced(p)

(* A start in flight that replaces an attempt found it among those of its order. *)
Replaces(r) ==
    LET old == request[r].payment
    IN  Does(r, "start") /\ old # None =>
            old \in Payments /\ OrderOf[old] = request[r].order
Replacing == \A r \in Requests : Replaces(r)

(* The payment of a provider transaction that has its row has left the open statuses, so *)
(* the row of the move that completes a payment is never taken for a repeat.             *)
TxnsSettled ==
    \A e \in Events : e.txn \in txns => status[e.payment] \notin Active \cup {"NONE"}

LEMMA ReplacingInit == Init => Replacing
BY DEF Init, Replacing, Replaces, Does, Idle

(* A request that is written keeps what it says about its own attempt. *)
LEMMA ReplacingSet ==
  ASSUME IInv, Replacing, NEW r \in Requests, NEW c \in Calls, Set(r, c),
         c.op = "start" /\ c.payment # None =>
            c.payment \in Payments /\ OrderOf[c.payment] = c.order
  PROVE  Replacing'
<1>1. /\ request' \in [Requests -> Calls] /\ request'[r] = c
      /\ \A s \in Requests \ {r} : request'[s] = request[s]
  BY SetCall DEF IInv
<1>2. QED BY <1>1 DEF Replacing, Replaces, Does

LEMMA ReplacingNext == IInv /\ Replacing /\ [Next]_vars => Replacing'
<1> SUFFICES ASSUME IInv, Replacing, [Next]_vars PROVE Replacing'
  OBVIOUS
<1>1. ASSUME UNCHANGED request PROVE Replacing'
  BY <1>1 DEF Replacing, Replaces, Does
<1>2. ASSUME NEW r \in Requests, Set(r, Idle) PROVE Replacing'
  BY <1>2, IdleCall, ReplacingSet DEF Idle
<1>3. ASSUME NEW r \in Requests, NEW o \in Orders, CreateCheck(r, o) PROVE Replacing'
  <2> DEFINE c == [Idle EXCEPT !.op = "create", !.order = o]
  <2>1. c \in Calls /\ c.op = "create"
    BY IdleCall DEF Idle, Calls
  <2>2. QED BY <1>3, <2>1, ReplacingSet DEF CreateCheck
<1>4. ASSUME NEW r \in Requests, NEW old \in Payments \cup {None}, StartCheck(r, old)
      PROVE  Replacing'
  <2>1. old # None => old \in Payments /\ OrderOf[old] = request[r].order
    BY <1>4 DEF StartCheck, MayStart, Has
  <2>2. QED BY <1>4, <2>1, StartCall, ReplacingSet
<1>5. ASSUME NEW r \in Requests, NEW e \in Events, WebhookRead(r, e) PROVE Replacing'
  <2> DEFINE c == [Idle EXCEPT !.op = "webhook", !.event = e, !.read = status[e.payment]]
  <2>1. status[e.payment] \in Statuses
    BY EventsAssumption DEF IInv, TypeOK
  <2>2. c \in Calls /\ c.op = "webhook"
    BY <2>1, IdleCall DEF Idle, Calls
  <2>3. QED BY <1>5, <2>2, ReplacingSet DEF WebhookRead
<1>6. ASSUME NEW r \in Requests, NEW p \in Payments, NEW a \in 1..Amount, RefundBegin(r, p, a)
      PROVE  Replacing'
  <2> DEFINE c == [Idle EXCEPT !.op = "refund", !.payment = p, !.amount = a]
  <2>1. a \in 0..Amount
    BY AmountAssumption
  <2>2. c \in Calls /\ c.op = "refund"
    BY <2>1, IdleCall DEF Idle, Calls
  <2>3. QED BY <1>6, <2>2, ReplacingSet DEF RefundBegin
<1>7. ASSUME NEW r \in Requests, WebhookCommit(r) \/ RefundCommit(r) \/ Die(r) PROVE Replacing'
  BY <1>2, <1>7 DEF WebhookCommit, WebhookMoves, RefundCommit, Die
<1>8. ASSUME NEW r \in Requests, NEW p \in Payments, CreateInsert(r, p) \/ StartCommit(r, p)
      PROVE  Replacing'
  BY <1>2, <1>8 DEF CreateInsert, StartCommit
<1>9. ASSUME NEW p \in Payments,
             \/ \E to \in {"COMPLETED", "FAILED"} : Confirm(p, to)
             \/ Capture(p) \/ Verify(p) \/ Hear(p) \/ Lose(p) \/ MarkPaid(p)
      PROVE  Replacing'
  BY <1>1, <1>9 DEF Confirm, Capture, Verify, Hear, Accept, Lose, MarkPaid
<1>10. ASSUME \/ \E o \in Orders : CloseOrder(o)
              \/ \E k \in 1..MaxKeys, on \in {"off", "on"} : SaveKeys(k, on)
              \/ \E on \in {"off", "on"} : SetEnabled(on)
              \/ RemoveGateway
       PROVE  Replacing'
  BY <1>1, <1>10 DEF CloseOrder, SaveKeys, SetEnabled, RemoveGateway
<1>11. ASSUME NEW r \in Requests, NEW o \in Orders, StartRead(r, o) PROVE Replacing'
  <2> DEFINE c == [Idle EXCEPT !.op = "pay", !.order = o, !.keys = keys]
  <2>1. c \in Calls /\ c.op = "pay"
    BY IdleCall DEF Idle, Calls, IInv, TypeOK
  <2>2. QED BY <1>11, <2>1, ReplacingSet DEF StartRead
<1>12. CASE UNCHANGED vars
  BY <1>1, <1>12 DEF vars
<1>13. QED BY <1>3, <1>4, <1>5, <1>6, <1>7, <1>8, <1>9, <1>10, <1>11, <1>12 DEF Next

(* start's commit opens a payment and cancels at most the attempt it found. *)
LEMMA StartStep ==
  ASSUME IInv, Replacing, NEW r \in Requests, NEW p \in Payments, StartCommit(r, p),
         NEW q \in Payments
  PROVE  PaymentStep(q)
<1> DEFINE old == request[r].payment
<1>1. /\ status'[q] = IF q = p THEN "PENDING" ELSE IF q = old THEN "CANCELLED" ELSE status[q]
      /\ status[p] = "NONE" /\ status'[p] = "PENDING" /\ OrderOf[p] = request[r].order
      /\ Does(r, "start") /\ Same(q)
  BY DEF StartCommit, Same, money
<1>2. CASE q = p
  BY <1>1, <1>2 DEF PaymentStep, Opens, Opened
<1>3. CASE q # p /\ q = old
  <2>1. OrderOf[q] = request[r].order
    BY <1>1, <1>3, NoneAssumption DEF Replacing, Replaces
  <2>2. Overtaken(q)
    BY <1>1, <1>3, <2>1 DEF Overtaken, Opened
  <2>3. QED BY <1>1, <2>2 DEF PaymentStep, IsReplaced
<1>4. CASE q # p /\ q # old
  BY <1>1, <1>4 DEF PaymentStep
<1>5. QED BY <1>2, <1>3, <1>4

LEMMA WebhookStep ==
  ASSUME IInv, TxnsSettled, NEW r \in Requests, WebhookCommit(r), NEW q \in Payments
  PROVE  PaymentStep(q)
<1> DEFINE e == request[r].event
           p == e.payment
           moves == e \notin recorded /\ Valid(request[r].read, e.to) /\ Valid(status[p], e.to)
<1>1. Does(r, "webhook") /\ WebhookMoves(r, moves)
  BY DEF WebhookCommit, WebhookMoves
<1>2. e \in Events /\ p \in Payments /\ e.to \in {"COMPLETED", "FAILED", "REFUNDED"}
  BY <1>1, EventsAssumption DEF IInv, InFlight
<1>3. CASE ~moves
  BY <1>1, <1>3 DEF WebhookMoves, PaymentStep, Same
<1>4. CASE moves /\ q # p
  BY <1>1, <1>2, <1>4 DEF WebhookMoves, IInv, TypeOK, PaymentStep, Same
<1>5. CASE moves /\ q = p
  <2>1. /\ e.to \in {"COMPLETED", "FAILED"} => status[p] \in Active
        /\ e.to = "REFUNDED" => status[p] \in Refundable
    BY <1>2, <1>5 DEF Valid, Transitions, Active, Refundable
  <2>2. e.to = "COMPLETED" => e.txn \notin txns
    BY <1>2, <2>1 DEF TxnsSettled
  <2>3. /\ status'[p] = e.to /\ refunded'[p] = refunded[p]
        /\ charges'[p] = IF e.to = "COMPLETED" THEN charges[p] + 1 ELSE charges[p]
    BY <1>1, <1>2, <1>5, <2>2 DEF WebhookMoves, IInv, TypeOK
  <2>4. QED BY <1>2, <1>5, <2>1, <2>3
            DEF PaymentStep, IsPaid, Fails, IsToldRefunded, Same
<1>6. QED BY <1>3, <1>4, <1>5

LEMMA RefundStep ==
  ASSUME IInv, NEW r \in Requests, RefundCommit(r), NEW q \in Payments
  PROVE  PaymentStep(q)
<1> DEFINE p == request[r].payment
           total == refunded[p] + request[r].amount
<1>1. /\ p \in Payments /\ status[p] \in Refundable
      /\ request[r].amount >= 1 /\ total <= Amount
  BY DEF RefundCommit, IInv, InFlight, RefundStands
<1>2. refunded[p] \in 0..Amount /\ request[r].amount \in 0..Amount
  BY <1>1 DEF IInv, TypeOK, Calls
<1>3. total > refunded[p]
  BY <1>1, <1>2, AmountAssumption
<1>4. CASE q # p
  BY <1>1, <1>4 DEF RefundCommit, IInv, TypeOK, PaymentStep, Same
<1>5. CASE q = p
  <2>1. /\ refunded'[p] = total /\ charges'[p] = charges[p]
        /\ status'[p] = IF total >= Amount THEN "REFUNDED" ELSE "PARTIALLY_REFUNDED"
    BY <1>1 DEF RefundCommit, IInv, TypeOK
  <2>2. QED BY <1>1, <1>3, <1>5, <2>1 DEF PaymentStep, GivesBack
<1>6. QED BY <1>4, <1>5

LEMMA Steps ==
  ASSUME IInv, Replacing, TxnsSettled, [Next]_vars, NEW q \in Payments
  PROVE  PaymentStep(q)
<1>1. ASSUME UNCHANGED <<status, charges, refunded>> PROVE PaymentStep(q)
  BY <1>1 DEF PaymentStep, Same
<1>2. ASSUME NEW p \in Payments, NEW to \in {"COMPLETED", "FAILED"}, Confirm(p, to)
      PROVE  PaymentStep(q)
  BY <1>2 DEF IInv, TypeOK, Confirm, PaymentStep, IsPaid, Fails, Same
<1>3. ASSUME NEW p \in Payments, MarkPaid(p) PROVE PaymentStep(q)
  BY <1>3 DEF IInv, TypeOK, MarkPaid, PaymentStep, IsPaid, Same
<1>4. ASSUME NEW r \in Requests, NEW p \in Payments, CreateInsert(r, p) PROVE PaymentStep(q)
  BY <1>4 DEF IInv, TypeOK, CreateInsert, PaymentStep, Opens, Opened, Same, money
<1>5. ASSUME NEW r \in Requests, NEW p \in Payments, StartCommit(r, p) PROVE PaymentStep(q)
  BY <1>5, StartStep
<1>6. ASSUME NEW r \in Requests, WebhookCommit(r) \/ RefundCommit(r) PROVE PaymentStep(q)
  BY <1>6, WebhookStep, RefundStep
<1>7. ASSUME NEW r \in Requests,
             \/ \E o \in Orders : CreateCheck(r, o) \/ StartRead(r, o)
             \/ \E old \in Payments \cup {None} : StartCheck(r, old)
             \/ \E e \in Events : WebhookRead(r, e)
             \/ \E p \in Payments, a \in 1..Amount : RefundBegin(r, p, a)
             \/ Die(r)
      PROVE  PaymentStep(q)
  BY <1>1, <1>7 DEF CreateCheck, StartRead, StartCheck, WebhookRead, RefundBegin, Die, money
<1>8. ASSUME \/ \E o \in Orders : CloseOrder(o)
             \/ \E k \in 1..MaxKeys, on \in {"off", "on"} : SaveKeys(k, on)
             \/ \E on \in {"off", "on"} : SetEnabled(on)
             \/ RemoveGateway
             \/ \E p \in Payments : Capture(p) \/ Verify(p) \/ Hear(p) \/ Lose(p)
      PROVE  PaymentStep(q)
  BY <1>1, <1>8 DEF CloseOrder, SaveKeys, SetEnabled, RemoveGateway, Capture, Verify, Hear,
                    Accept, Lose, money
<1>9. CASE UNCHANGED vars
  BY <1>1, <1>9 DEF vars, money
<1>10. QED BY <1>2, <1>3, <1>4, <1>5, <1>6, <1>7, <1>8, <1>9 DEF Next

(* What has left the open statuses never returns to them. *)
LEMMA Settled ==
  ASSUME NEW p \in Payments, PaymentStep(p), status[p] \notin Active \cup {"NONE"}
  PROVE  status'[p] \notin Active \cup {"NONE"}
BY DEF PaymentStep, Opens, Opened, IsPaid, Fails, IsToldRefunded, GivesBack, IsReplaced,
       Overtaken, Active

LEMMA TxnsSettledNext ==
  ASSUME IInv, TxnsSettled, [Next]_vars, \A p \in Payments : PaymentStep(p)
  PROVE  TxnsSettled'
<1> SUFFICES ASSUME NEW f \in Events, f.txn \in txns'
             PROVE  status'[f.payment] \notin Active \cup {"NONE"}
  BY DEF TxnsSettled
<1>1. f.payment \in Payments
  BY EventsAssumption
<1>2. CASE f.txn \in txns
  BY <1>1, <1>2, Settled DEF TxnsSettled
<1>3. CASE f.txn \notin txns
  <2>1. PICK r \in Requests : WebhookCommit(r)
    BY <1>3 DEF Next, vars, hooks, CloseOrder, SaveKeys, SetEnabled, RemoveGateway, Confirm,
                Capture, Verify, Hear, Accept, Lose, MarkPaid, CreateCheck, StartRead,
                CreateInsert, StartCheck, StartCommit, WebhookRead, RefundBegin, RefundCommit, Die
  <2> DEFINE e == request[r].event
  <2>2. Does(r, "webhook") /\ e \in Events
    BY <2>1 DEF WebhookCommit, WebhookMoves, IInv, InFlight
  <2>3. f.txn = e.txn /\ status' = [status EXCEPT ![e.payment] = e.to]
    BY <1>3, <2>1 DEF WebhookCommit, WebhookMoves
  <2>4. f.payment = e.payment /\ e.to \in {"COMPLETED", "FAILED", "REFUNDED"}
    BY <2>2, <2>3, EventsAssumption
  <2>5. QED BY <1>1, <2>3, <2>4 DEF IInv, TypeOK, Active
<1>4. QED BY <1>2, <1>3

(* A payment's step keeps its books: the charge, the refunds and the status agree. *)
Matches(p) ==
    /\ refunded[p] <= Amount
    /\ status[p] = "PARTIALLY_REFUNDED" => refunded[p] \in 1..(Amount - 1)
    /\ status[p] # "CANCELLED" =>
          /\ refunded[p] = Amount => status[p] = "REFUNDED"
          /\ refunded[p] > 0 => status[p] \in {"PARTIALLY_REFUNDED", "REFUNDED"}

LEMMA MatchesKept ==
  ASSUME TypeOK, TypeOK', NEW p \in Payments, Matches(p), PaymentStep(p)
  PROVE  Matches(p)'
<1>1. /\ refunded[p] \in 0..Amount /\ refunded'[p] \in 0..Amount /\ Amount \in Nat \ {0}
  BY AmountAssumption DEF TypeOK
<1>2. CASE UNCHANGED status[p] /\ Same(p)
  BY <1>2 DEF Matches, Same
<1>3. CASE Opens(p) \/ IsPaid(p) \/ Fails(p)
  <2>1. refunded[p] = 0
    BY <1>1, <1>3 DEF Opens, Opened, IsPaid, Fails, Matches, Active
  <2>2. refunded'[p] = 0
    BY <1>3, <2>1 DEF Opens, IsPaid, Fails, Same
  <2>3. status'[p] # "PARTIALLY_REFUNDED"
    BY <1>3 DEF Opens, Opened, IsPaid, Fails
  <2>4. QED BY <1>1, <2>2, <2>3 DEF Matches
<1>4. CASE IsToldRefunded(p)
  BY <1>1, <1>4 DEF IsToldRefunded, Matches, Same, Refundable
<1>5. CASE GivesBack(p)
  BY <1>1, <1>5 DEF GivesBack, Matches
<1>6. CASE IsReplaced(p)
  BY <1>1, <1>6 DEF IsReplaced, Overtaken, Matches, Same
<1>7. QED BY <1>2, <1>3, <1>4, <1>5, <1>6 DEF PaymentStep

Charged(p) ==
    /\ charges[p] <= 1
    /\ status[p] \in Paid => charges[p] = 1
    /\ status[p] \notin Paid \cup {"CANCELLED"} => charges[p] = 0

LEMMA ChargeKept ==
  ASSUME NEW p \in Payments, Charged(p), PaymentStep(p) PROVE Charged(p)'
BY DEF PaymentStep, Same, Opens, Opened, IsPaid, Fails, IsToldRefunded, GivesBack, IsReplaced,
       Overtaken, Paid, Active, Refundable, Charged

BooksInv == IInv /\ Replacing /\ TxnsSettled /\ RefundsMatchStatus /\ ChargedOnce

LEMMA BooksInit == Init => BooksInv
<1> SUFFICES ASSUME Init PROVE TxnsSettled /\ RefundsMatchStatus /\ ChargedOnce
  BY IInvInit, ReplacingInit DEF BooksInv
<1>1. RefundsMatchStatus
  BY AmountAssumption DEF Init, RefundsMatchStatus
<1>2. ChargedOnce /\ TxnsSettled
  BY DEF Init, ChargedOnce, TxnsSettled, Paid
<1>3. QED BY <1>1, <1>2

LEMMA BooksNext == BooksInv /\ [Next]_vars => BooksInv'
<1> SUFFICES ASSUME BooksInv, [Next]_vars PROVE BooksInv'
  OBVIOUS
<1>1. IInv' /\ Replacing'
  BY IInvNext, ReplacingNext DEF BooksInv
<1>2. \A p \in Payments : PaymentStep(p)
  BY Steps DEF BooksInv
<1>3. RefundsMatchStatus'
  <2>1. \A p \in Payments : Matches(p)
    BY DEF BooksInv, RefundsMatchStatus, Matches
  <2>2. \A p \in Payments : Matches(p)'
    BY <1>1, <1>2, <2>1, MatchesKept DEF BooksInv, IInv
  <2>3. QED BY <2>2 DEF RefundsMatchStatus, Matches
<1>4. ChargedOnce'
  <2>1. \A p \in Payments : Charged(p)
    BY DEF BooksInv, ChargedOnce, Charged
  <2>2. \A p \in Payments : Charged(p)'
    BY <1>2, <2>1, ChargeKept
  <2>3. QED BY <2>2 DEF ChargedOnce, Charged
<1>5. TxnsSettled'
  BY <1>2, TxnsSettledNext DEF BooksInv
<1>6. QED BY <1>1, <1>3, <1>4, <1>5 DEF BooksInv

(* However refunds, confirmations, webhooks and starts race, the status says how much was *)
(* given back, unless a start has cancelled the payment, and it is never more than was    *)
(* paid.                                                                                  *)
THEOREM RefundsAddUp == Spec => []RefundsMatchStatus
BY BooksInit, BooksNext, PTL DEF Spec, BooksInv

(* A payment reported as paid by browser, webhooks and staff is charged once. *)
THEOREM ChargesOnce == Spec => []ChargedOnce
BY BooksInit, BooksNext, PTL DEF Spec, BooksInv

(* Every status change a step makes opens a payment, is in PAYMENT_TRANSITIONS or is that *)
(* of an attempt another one replaces.                                                    *)
LEMMA StepIsAllowed ==
  ASSUME NEW p \in Payments, PaymentStep(p), status'[p] # status[p]
  PROVE  Opened(p) \/ Valid(status[p], status'[p]) \/ Overtaken(p)
BY DEF PaymentStep, Opens, IsPaid, Fails, IsToldRefunded, GivesBack, IsReplaced, Active,
       Refundable, Valid, Transitions

(* PAYMENT_TRANSITIONS binds all the handlers together, however they interleave, but for *)
(* one move: a start may cancel the attempt it found open, whatever has become of it, as *)
(* it opens the next attempt of the same order.                                          *)
THEOREM MovesAllowed == Spec => StatusMovesAllowed
<1>1. ASSUME BooksInv, [Next]_vars
      PROVE  [\A p \in Payments : status'[p] # status[p] =>
                  Opened(p) \/ Valid(status[p], status'[p]) \/ Overtaken(p)]_vars
  BY <1>1, Steps, StepIsAllowed DEF BooksInv
<1>2. QED BY <1>1, BooksInit, BooksNext, PTL DEF Spec, StatusMovesAllowed

-----------------------------------------------------------------------------
(***************************************************************************)
(* One live payment per order: a start in flight holds its order's row, so *)
(* nothing but the attempt it is about to replace can be live meanwhile.   *)
(***************************************************************************)
Live(o) == Has(o, Active \cup {"COMPLETED"})
StartHolds(r) ==
    Does(r, "start") =>
        /\ orderLock[request[r].order] = r
        /\ Live(request[r].order) \subseteq {request[r].payment}
LiveInv == IInv /\ OneLivePayment /\ \A r \in Requests : StartHolds(r)

(* No payment becomes live, no start begins and no lock of one is freed. *)
LEMMA LiveQuiet ==
  ASSUME LiveInv,
         \A p \in Payments : status'[p] \in Active \cup {"COMPLETED"} =>
                                 status[p] \in Active \cup {"COMPLETED"},
         \A r \in Requests : Does(r, "start")' =>
            /\ Does(r, "start") /\ UNCHANGED request[r]
            /\ orderLock'[request[r].order] = orderLock[request[r].order]
  PROVE  OneLivePayment' /\ \A r \in Requests : StartHolds(r)'
<1>1. \A o : Live(o)' \subseteq Live(o)
  BY DEF Live, Has
<1>2. OneLivePayment'
  BY <1>1 DEF LiveInv, OneLivePayment, Live
<1>3. \A r \in Requests : StartHolds(r)'
  BY <1>1 DEF LiveInv, StartHolds, Does
<1>4. QED BY <1>2, <1>3

(* A call that is not a start, or that ends one. *)
LEMMA LiveCall ==
  ASSUME LiveInv, NEW r \in Requests, NEW c \in Calls, Set(r, c), c.op # "start",
         \A p \in Payments : status'[p] \in Active \cup {"COMPLETED"} =>
                                 status[p] \in Active \cup {"COMPLETED"},
         \A o \in Orders : orderLock[o] # r => orderLock'[o] = orderLock[o]
  PROVE  OneLivePayment' /\ \A s \in Requests : StartHolds(s)'
<1>1. /\ request' \in [Requests -> Calls] /\ request'[r] = c
      /\ \A s \in Requests \ {r} : request'[s] = request[s]
  BY SetCall DEF LiveInv, IInv
<1>2. \A s \in Requests : Does(s, "start")' =>
            /\ Does(s, "start") /\ UNCHANGED request[s]
            /\ orderLock'[request[s].order] = orderLock[request[s].order]
  BY <1>1 DEF LiveInv, IInv, InFlight, StartHolds, Does
<1>3. QED BY <1>2, LiveQuiet

LEMMA LiveStartCheck ==
  ASSUME LiveInv, NEW r \in Requests, NEW old \in Payments \cup {None}, StartCheck(r, old)
  PROVE  OneLivePayment' /\ \A s \in Requests : StartHolds(s)'
<1> DEFINE c == Going(r, old)
<1> PICK o \in Orders : o = request[r].order
  BY StartCall DEF LiveInv
<1>1. c \in Calls /\ c.op = "start" /\ c.order = o /\ c.payment = old
  BY StartCall DEF LiveInv
<1> HIDE DEF c
<1>2. /\ request'[r] = c
      /\ \A s \in Requests \ {r} : request'[s] = request[s]
  BY <1>1, StartCall, SetCall DEF LiveInv, IInv, c
<1>3. \A p : Live(p)' = Live(p)
  BY DEF StartCheck, MayStart, Live, Has
<1>4. OneLivePayment'
  BY <1>3 DEF LiveInv, OneLivePayment, Live
<1>5. Live(o) \subseteq {old}
  <2>1. CASE old = None
    BY <2>1, NoneAssumption DEF StartCheck, MayStart, Live, Has
  <2>2. CASE old \in Live(o)
    BY <2>2 DEF LiveInv, OneLivePayment, Live
  <2>3. QED BY <2>1, <2>2 DEF StartCheck, MayStart, Live, Has
<1>6. orderLock'[o] = r /\ \A p \in Orders \ {o} : orderLock'[p] = orderLock[p]
  BY DEF LiveInv, IInv, TypeOK, StartCheck
<1>7. StartHolds(r)'
  BY <1>1, <1>2, <1>3, <1>5, <1>6 DEF StartHolds, Does
<1>8. ASSUME NEW s \in Requests \ {r}, request[s].op = "start"
      PROVE  request[s].order \in Orders \ {o}
  BY <1>8, NoneAssumption DEF LiveInv, IInv, InFlight, StartHolds, StartCheck, Does
<1>9. ASSUME NEW s \in Requests \ {r} PROVE StartHolds(s)'
  BY <1>2, <1>3, <1>6, <1>8 DEF LiveInv, StartHolds, Does
<1>10. QED BY <1>4, <1>7, <1>9

LEMMA LiveStartCommit ==
  ASSUME LiveInv, NEW r \in Requests, NEW p \in Payments, StartCommit(r, p)
  PROVE  OneLivePayment' /\ \A s \in Requests : StartHolds(s)'
<1> PICK o \in Orders : o = request[r].order
  BY DEF LiveInv, IInv, InFlight, StartCommit
<1> DEFINE old == request[r].payment
<1>1. /\ request'[r] = Idle
      /\ \A s \in Requests \ {r} : request'[s] = request[s]
  BY SetCall, IdleCall DEF LiveInv, IInv, StartCommit
<1>2. OrderOf[p] = o /\ orderLock[o] = r /\ Live(o) \subseteq {old}
  BY DEF LiveInv, IInv, InFlight, StartHolds, StartCommit
<1>3. \A q \in Payments : status'[q] = IF q = p THEN "PENDING"
                                       ELSE IF q = old THEN "CANCELLED" ELSE status[q]
  BY DEF StartCommit
<1>4. \A q \in Payments \ {p} : status'[q] \in Active \cup {"COMPLETED"} =>
            status[q] \in Active \cup {"COMPLETED"} /\ q # old
  BY <1>3 DEF Active
<1>5. Live(o)' \subseteq {p}
  BY <1>2, <1>4 DEF Live, Has
<1>6. ASSUME NEW x, x # o PROVE Live(x)' \subseteq Live(x)
  <2>1. \A q \in Payments : OrderOf[q] = x => q # p
    BY <1>2, <1>6
  <2>2. QED BY <1>4, <2>1 DEF Live, Has
<1>7. OneLivePayment'
  <2>1. \A x \in Orders : \A q, s \in Live(x) : q = s
    BY DEF LiveInv, OneLivePayment, Live
  <2>2. \A x \in Orders : \A q, s \in Live(x)' : q = s
    BY <1>5, <1>6, <2>1
  <2>3. QED BY <2>2 DEF OneLivePayment, Live
<1>8. ASSUME NEW s \in Requests PROVE StartHolds(s)'
  <2>1. CASE s = r
    BY <1>1, <2>1 DEF StartHolds, Does, Idle
  <2>2. CASE s # r /\ request[s].op = "start"
    <3>1. request[s].order \in Orders /\ orderLock[request[s].order] = s
      BY <2>2 DEF LiveInv, IInv, InFlight, StartHolds, Does
    <3>2. request[s].order # o
      BY <1>2, <2>2, <3>1
    <3>3. orderLock'[request[s].order] = s
      BY <2>2, <3>1 DEF StartCommit
    <3>4. QED BY <1>1, <1>6, <2>2, <3>2, <3>3 DEF LiveInv, StartHolds, Does
  <2>3. CASE s # r /\ request[s].op # "start"
    BY <1>1, <2>3 DEF StartHolds, Does
  <2>4. QED BY <2>1, <2>2, <2>3
<1>9. QED BY <1>7, <1>8

LEMMA LiveInit == Init => LiveInv
BY IInvInit DEF Init, LiveInv, OneLivePayment, StartHolds, Has, Active, Does, Idle

LEMMA LiveNext == OnlineOnly /\ LiveInv /\ [Next]_vars => LiveInv'
<1> SUFFICES ASSUME OnlineOnly, LiveInv, [Next]_vars
             PROVE  OneLivePayment' /\ \A s \in Requests : StartHolds(s)'
  BY IInvNext DEF LiveInv
<1>1. ASSUME NEW p \in Payments,
             \/ \E to \in {"COMPLETED", "FAILED"} : Confirm(p, to)
             \/ Capture(p) \/ Verify(p) \/ Hear(p) \/ Lose(p) \/ MarkPaid(p)
      PROVE  OneLivePayment' /\ \A s \in Requests : StartHolds(s)'
  BY <1>1, LiveQuiet DEF Confirm, Capture, Verify, Hear, Accept, Lose, MarkPaid, LiveInv, IInv,
                         TypeOK, Active, Does
<1>2. ASSUME \/ \E o \in Orders : CloseOrder(o)
             \/ \E k \in 1..MaxKeys, on \in {"off", "on"} : SaveKeys(k, on)
             \/ \E on \in {"off", "on"} : SetEnabled(on)
             \/ RemoveGateway
      PROVE  OneLivePayment' /\ \A s \in Requests : StartHolds(s)'
  BY <1>2, LiveQuiet DEF CloseOrder, SaveKeys, SetEnabled, RemoveGateway, Does
<1>3. ASSUME NEW r \in Requests, NEW o \in Orders, CreateCheck(r, o)
      PROVE  OneLivePayment' /\ \A s \in Requests : StartHolds(s)'
  <2> DEFINE c == [Idle EXCEPT !.op = "create", !.order = o]
  <2>1. c \in Calls /\ c.op = "create"
    BY IdleCall DEF Idle, Calls
  <2>2. QED BY <1>3, <2>1, LiveCall DEF CreateCheck
<1>4. ASSUME NEW r \in Requests, NEW p \in Payments, CreateInsert(r, p) PROVE FALSE
  BY <1>4 DEF OnlineOnly, CreateInsert
<1>5. ASSUME NEW r \in Requests, NEW e \in Events, WebhookRead(r, e)
      PROVE  OneLivePayment' /\ \A s \in Requests : StartHolds(s)'
  <2> DEFINE c == [Idle EXCEPT !.op = "webhook", !.event = e, !.read = status[e.payment]]
  <2>1. status[e.payment] \in Statuses
    BY EventsAssumption DEF LiveInv, IInv, TypeOK
  <2>2. c \in Calls /\ c.op = "webhook"
    BY <2>1, IdleCall DEF Idle, Calls
  <2>3. QED BY <1>5, <2>2, LiveCall DEF WebhookRead
<1>6. ASSUME NEW r \in Requests, WebhookCommit(r)
      PROVE  OneLivePayment' /\ \A s \in Requests : StartHolds(s)'
  <2>1. \A p \in Payments : status'[p] \in Active \cup {"COMPLETED"} =>
                                status[p] \in Active \cup {"COMPLETED"}
    <3> DEFINE e == request[r].event
    <3>1. e.to \in {"COMPLETED", "FAILED", "REFUNDED"}
      BY <1>6, EventsAssumption DEF LiveInv, IInv, InFlight, WebhookCommit, WebhookMoves
    <3>2. \A p \in Payments : status'[p] # status[p] =>
                status'[p] = e.to /\ Valid(status[p], e.to)
      BY <1>6 DEF LiveInv, IInv, TypeOK, WebhookCommit, WebhookMoves
    <3>3. QED BY <3>1, <3>2 DEF Valid, Transitions, Active
  <2>2. QED BY <1>6, <2>1, IdleCall, LiveCall DEF WebhookCommit, WebhookMoves, Idle
<1>7. ASSUME NEW r \in Requests, NEW p \in Payments, NEW a \in 1..Amount, RefundBegin(r, p, a)
      PROVE  OneLivePayment' /\ \A s \in Requests : StartHolds(s)'
  <2> DEFINE c == [Idle EXCEPT !.op = "refund", !.payment = p, !.amount = a]
  <2>1. a \in 0..Amount
    BY AmountAssumption
  <2>2. c \in Calls /\ c.op = "refund"
    BY <2>1, IdleCall DEF Idle, Calls
  <2>3. QED BY <1>7, <2>2, LiveCall DEF RefundBegin
<1>8. ASSUME NEW r \in Requests, RefundCommit(r)
      PROVE  OneLivePayment' /\ \A s \in Requests : StartHolds(s)'
  <2>1. \A p \in Payments : status'[p] \in Active \cup {"COMPLETED"} =>
                                status[p] \in Active \cup {"COMPLETED"}
    BY <1>8 DEF RefundCommit, LiveInv, IInv, TypeOK, Active
  <2>2. QED BY <1>8, <2>1, IdleCall, LiveCall DEF RefundCommit, Idle
<1>9. ASSUME NEW r \in Requests, Die(r)
      PROVE  OneLivePayment' /\ \A s \in Requests : StartHolds(s)'
  BY <1>9, IdleCall, LiveCall DEF Die, Idle
<1>10. CASE UNCHANGED vars
  BY <1>10, LiveQuiet DEF vars, Does
<1>11. ASSUME NEW r \in Requests, NEW o \in Orders, StartRead(r, o)
       PROVE  OneLivePayment' /\ \A s \in Requests : StartHolds(s)'
  <2> DEFINE c == [Idle EXCEPT !.op = "pay", !.order = o, !.keys = keys]
  <2>1. c \in Calls /\ c.op = "pay"
    BY IdleCall DEF Idle, Calls, LiveInv, IInv, TypeOK
  <2>2. QED BY <1>11, <2>1, LiveCall DEF StartRead
<1>12. QED BY <1>1, <1>2, <1>3, <1>4, <1>5, <1>6, <1>7, <1>8, <1>9, <1>10, <1>11,
              LiveStartCheck, LiveStartCommit DEF Next

(* start keeps its promise for any number of shoppers, retries and staff: an order never *)
(* has two payments that are open or complete, where all of them come from start.        *)
THEOREM OneLive == ASSUME OnlineOnly PROVE Spec => []OneLivePayment
BY LiveInit, LiveNext, PTL DEF Spec, LiveInv

=============================================================================
