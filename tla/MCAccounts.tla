----------------------------- MODULE MCAccounts -----------------------------
(***************************************************************************)
(* Who is let in, and what they are told, for TLC: staff sessions, the     *)
(* links sent to staff, the accounts of shoppers, access tokens and their  *)
(* keys, sockets, lists and their filters, exports, figures, and calls to  *)
(* providers.  They share no row, so a behaviour is one of the part chosen *)
(* at its start.                                                           *)
(***************************************************************************)
EXTENDS StaffSessions, StaffLinks, ShopperSessions, Realtime, Outgoing, Lists, Listings, Analytics

CONSTANTS s1, s2, k1, k2, k3, c1, c2, h1, h2, f1, f2, q1, x1, x2, y1

VARIABLE part

allVars == <<part, staffVars, linkVars, shopperVars, realtimeVars, callVars, filterVars, listingVars, analyticsVars>>

(* Two people of two tenants, and a story of the first; two orders of two people, and what they are worth. *)
HolderHomes == (h1 :> f1) @@ (h2 :> f2)
StoryHomes == q1 :> f1
BillBuyers == (1 :> x1) @@ (2 :> x2)
BillWorths == (1 :> 1) @@ (2 :> 2) @@ (3 :> 1) @@ (4 :> 2)

(* The parts that stand still start in one state only. *)
NobodyAsked ==
    /\ about = ScheduleLists /\ query = <<>> /\ sample = [columns |-> <<>>, variants |-> {}]
    /\ reply = [at |-> "asked", page |-> Nil, total |-> Nil, card |-> Nil]
NobodyReads ==
    /\ row = [r \in Id |-> Nil] /\ list = (CHOOSE s \in ScheduleLists.shapes : TRUE)
    /\ reader = [limit |-> 1, page |-> 1, rows |-> Nil, total |-> Nil, shown |-> <<>>, at |-> "away"]
    /\ export = [last |-> Nil, out |-> <<>>, at |-> "away"]
    /\ churn = [kinds |-> {}, steps |-> 0] /\ stayed = {}
NobodyCounts ==
    /\ asked = (CHOOSE q \in Questions : q.endpoint = "dashboard")
    /\ order = [o \in Bill |-> Never] /\ payment = [p \in Charge |-> Never] /\ refund = [p \in Charge |-> Never]
    /\ customer = [c \in Patron |-> Never] /\ pile = [i \in Pile |-> 0]
    /\ asker = NobodyAsks /\ cached = Never /\ clock = <<0>> /\ version = 0

AccountsInit ==
    /\ part \in {"sessions", "links", "shoppers", "keys", "sockets", "calls", "filters", "lists", "figures"}
    /\ StaffInit /\ LinksInit /\ ShopperInit
    /\ part # "sessions" => orderly = {} /\ \A u \in User : account[u] = [status |-> "none", scope |-> "tenant", password |-> 0]
    /\ part # "links" => tidy = {}
    /\ RealtimeInit /\ CallsInit
    /\ IF part = "filters" THEN FiltersInit ELSE NobodyAsked
    /\ IF part = "lists" THEN ListingsInit ELSE NobodyReads
    /\ IF part = "figures" THEN AnalyticsInit ELSE NobodyCounts

AccountsNext ==
    /\ UNCHANGED part
    /\ \/ part = "sessions" /\ StaffNext
          /\ UNCHANGED <<linkVars, shopperVars, realtimeVars, callVars, filterVars, listingVars, analyticsVars>>
       \/ part = "links" /\ LinksNext
          /\ UNCHANGED <<staffVars, shopperVars, realtimeVars, callVars, filterVars, listingVars, analyticsVars>>
       \/ part = "shoppers" /\ ShopperNext
          /\ UNCHANGED <<staffVars, linkVars, realtimeVars, callVars, filterVars, listingVars, analyticsVars>>
       \/ part = "keys" /\ KeysNext
          /\ UNCHANGED <<staffVars, linkVars, shopperVars, callVars, filterVars, listingVars, analyticsVars>>
       \/ part = "sockets" /\ SocketsNext
          /\ UNCHANGED <<staffVars, linkVars, shopperVars, callVars, filterVars, listingVars, analyticsVars>>
       \/ part = "calls" /\ CallsNext
          /\ UNCHANGED <<staffVars, linkVars, shopperVars, realtimeVars, filterVars, listingVars, analyticsVars>>
       \/ part = "filters" /\ FiltersNext
          /\ UNCHANGED <<staffVars, linkVars, shopperVars, realtimeVars, callVars, listingVars, analyticsVars>>
       \/ part = "lists" /\ ListingsNext
          /\ UNCHANGED <<staffVars, linkVars, shopperVars, realtimeVars, callVars, filterVars, analyticsVars>>
       \/ part = "figures" /\ AnalyticsNext
          /\ UNCHANGED <<staffVars, linkVars, shopperVars, realtimeVars, callVars, filterVars, listingVars>>

AccountsSpec == AccountsInit /\ [][AccountsNext]_allVars

(* The parts share the model values of their ids, and so their permutations.  k1 stands apart:
   it may be a token from before sessions had ids. *)
AccountsSymmetry == Permutations({s1, s2}) \cup Permutations({k2, k3}) \cup Permutations({c1, c2})

(* The rows of the parts have the values of the schema. *)
AccountsTypeOK ==
    /\ StaffTypeOK /\ LinksTypeOK /\ ShopperTypeOK /\ RealtimeTypeOK /\ CallsTypeOK
    /\ part = "filters" => FiltersTypeOK
    /\ part = "lists" => ListingsTypeOK
    /\ part = "figures" => AnalyticsTypeOK

(* A secret works once: a session goes on as one chain of refresh tokens, of staff whose requests do not overlap (refresh,
   auth.service.js:378), and of shoppers in any order (storefront.auth.js:143); a link sets one password and the newest
   verification link is the only one, for staff whose requests do not overlap (auth.service.js:760, 467); a shopper's
   code sets one password however many requests redeem it at once (storefront.auth.js:111); and the key of a charge pays
   an order once, however often it is sent (payments.service.js:79, http-client.js:55). *)
SecretsWorkOnce == OneLiveToken /\ TokenTradedOnce /\ ResetOnce /\ NewestLinkOnly /\ CodeOnce /\ ProviderActsOnce

(* A new password ends what was signed in with an older one: of staff whose requests do not
   overlap (auth.service.js:449), and of shoppers in any order (storefront.auth.js:117). *)
PasswordSignsOut == PasswordEndsSessions /\ LiveUnderThisPassword

(* What is shown is so: lists have the rows that were asked for, and the shop window's cards say what page and basket say
   (products.repository.js:62, storefront.catalog.js:84); pages and exports of a table that others change
   (reports.builders.js:14), figures that add up and are no older than the cache lets them be (analytics.service.js:38),
   news of the own tenant that have happened (realtime.service.js:81), calls to providers that were done if they say so
   (http-client.js:84); and a token is good wherever its key is known (jwt.util.js:42). *)
AnswersAreSo ==
    /\ part = "filters" => AnswersMeetTheFilters /\ CardsTellTheTruth
    /\ part = "lists" => PagesAreStable /\ ExportIsComplete
    /\ part = "figures" => FiguresAddUp /\ AnswersAreRecent
    /\ part \in {"keys", "sockets"} => NewsIsTrue /\ TokensOpenDoors
    /\ part = "calls" => ReportedIsDone

(* An ended session does not come back, nor does it open a socket (auth.middleware.js:12, storefront.auth.js:144,
   socket.auth.js:66). *)
SessionsEndForGood == EndedStaysEnded /\ NoTokenAfterTheEnd /\ EndedOpensNothing

=============================================================================
