------------------------------ MODULE Realtime ------------------------------
(***************************************************************************)
(* Access tokens and their keys, and the sockets that are opened with them *)
(* and hear what happens in the shop.  API processes are replaced one by   *)
(* one when a key is rotated; each has sockets of its own, and a news is   *)
(* told to those of the process that served the request it came from, once *)
(* its transaction has committed.  Payloads, claims and the pages of       *)
(* /jwks.json are left out: a token names its person and its session.      *)
(***************************************************************************)
EXTENDS Integers, FiniteSets, Sequences, SequencesExt

CONSTANTS
    Node,       \* API processes
    Holder, HomeOf, \* people, and [Holder -> their tenant]
    Pass,       \* access tokens, each of a session of its own
    Socket,
    Story, StoryOf, \* an order, say, of [Story -> tenant]
    Expiry,     \* ticks that a token lives
    Generations, MaxVersion, \* bounds: keys 1..Generations, versions of a story
    NoPass

ASSUME RealtimeAssumption ==
    /\ Generations \in Nat \ {0} /\ Expiry \in Nat \ {0} /\ MaxVersion \in Nat
    /\ DOMAIN HomeOf = Holder /\ DOMAIN StoryOf = Story

VARIABLES
    node,       \* [Node -> the keys of its environment: [current, previous]]
    oldKeys,    \* the operator's view: the keys whose tokens may still be about
    pass,       \* [Pass -> NoPass or [holder, key, left, live]]: live is that its session has not ended
    socket,     \* [Socket -> NoPass or [pass, node, at, heard]]
    story,      \* [Story -> committed version]
    telling,    \* committed, not told yet: <<story, version, node>>
    overlap     \* stories with two changes under way at once

realtimeVars == <<node, oldKeys, pass, socket, story, telling, overlap>>

Nodes == [current : 1..Generations, previous : SUBSET (1..Generations)]
Passes == [holder : Holder, key : 1..Generations, left : 0..Expiry, live : BOOLEAN]
Sockets == [pass : Pass, node : Node, at : {"session", "person", "open"}, heard : Seq(Story \X (0..MaxVersion))]
ASSUME NoPassAssumption == NoPass \notin Passes \cup Sockets

-----------------------------------------------------------------------------
(* createAccessTokenKeys: a process signs with its own key and verifies with those of its environment. *)
Verifiers(n) == {node[n].current} \cup node[n].previous
Newest == CHOOSE k \in {node[n].current : n \in Node} : \A n \in Node : node[n].current <= k

RealtimeInit ==
    /\ node = [n \in Node |-> [current |-> 1, previous |-> {}]] /\ oldKeys = {1}
    /\ pass = [t \in Pass |-> NoPass] /\ socket = [s \in Socket |-> NoPass]
    /\ story = [x \in Story |-> 0] /\ telling = {} /\ overlap = {}

(* Sign-in and refresh. *)
SignAccessToken(t, h, n) ==
    /\ pass[t] = NoPass
    /\ pass' = [pass EXCEPT ![t] = [holder |-> h, key |-> node[n].current, left |-> Expiry, live |-> TRUE]]
    /\ UNCHANGED <<node, oldKeys, socket, story, telling, overlap>>
EndSession(t) ==
    /\ pass[t] # NoPass /\ pass[t].live
    /\ pass' = [pass EXCEPT ![t].live = FALSE]
    /\ UNCHANGED <<node, oldKeys, socket, story, telling, overlap>>
(* A tick, for as long as a token lives. *)
Lapse ==
    /\ \E t \in Pass : pass[t] # NoPass /\ pass[t].left > 0
    /\ pass' = [t \in Pass |-> IF pass[t] # NoPass /\ pass[t].left > 0 THEN [pass[t] EXCEPT !.left = @ - 1] ELSE pass[t]]
    /\ UNCHANGED <<node, oldKeys, socket, story, telling, overlap>>
VerifyAccessToken(t, n) == pass[t].left > 0 /\ pass[t].key \in Verifiers(n)

(* "put the new private key in JWT_PRIVATE_KEY and the old public key in JWT_PREVIOUS_PUBLIC_KEYS until the last old
   token has expired" (jwt.util.js:42): the next process is replaced by one of the new environment, its sockets close;
   the operator drops old keys once no token of theirs lives. *)
ForgottenKeys == {}
KeptKeys ==
    {k \in oldKeys : \/ \E t \in Pass : pass[t] # NoPass /\ pass[t].left > 0 /\ pass[t].key = k
                     \/ \E m \in Node : node[m].current = k}
Redeploy(n) ==
    LET key == IF \A m \in Node : node[m].current = Newest THEN Newest + 1 ELSE Newest
    IN /\ key <= Generations
       /\ oldKeys' = KeptKeys \cup {key}
       /\ node' = [node EXCEPT ![n] = [current |-> key, previous |-> KeptKeys \ {key}]]
       /\ socket' = [s \in Socket |-> IF socket[s] # NoPass /\ socket[s].node = n THEN NoPass ELSE socket[s]]
       /\ telling' = {news \in telling : news[3] # n}
       /\ UNCHANGED <<pass, story, overlap>>

(* socketAuthMiddleware: the token, then its session, then the person and the tenant, then the rooms. *)
SocketAt(s, where) == socket[s] # NoPass /\ socket[s].at = where
Handshake(s, t, n) ==
    /\ socket[s] = NoPass /\ pass[t] # NoPass
    /\ VerifyAccessToken(t, n)
    /\ socket' = [socket EXCEPT ![s] = [pass |-> t, node |-> n, at |-> "session", heard |-> <<>>]]
    /\ UNCHANGED <<node, oldKeys, pass, story, telling, overlap>>
SessionUnchecked(s) == TRUE
SessionActive(s) == pass[socket[s].pass].live
CheckSession(s) ==
    /\ SocketAt(s, "session")
    /\ socket' = [socket EXCEPT ![s] = IF SessionActive(s) THEN [@ EXCEPT !.at = "person"] ELSE NoPass]
    /\ UNCHANGED <<node, oldKeys, pass, story, telling, overlap>>
JoinRooms(s) ==
    /\ SocketAt(s, "person")
    /\ socket' = [socket EXCEPT ![s].at = "open"]
    /\ UNCHANGED <<node, oldKeys, pass, story, telling, overlap>>
(* A client may ask for a room by name: only for those it is in, so nothing changes (socket.server.js:37, 68). *)
Disconnect(s) ==
    /\ socket[s] # NoPass
    /\ socket' = [socket EXCEPT ![s] = NoPass]
    /\ UNCHANGED <<node, oldKeys, pass, story, telling, overlap>>

EveryRoom(x) == {s \in Socket : SocketAt(s, "open")}
TenantRoom(x) == {s \in Socket : SocketAt(s, "open") /\ HomeOf[pass[socket[s].pass].holder] = StoryOf[x]}
RoomOf(x, n) == {s \in TenantRoom(x) : socket[s].node = n}

(* A change commits on one process, and is emitted there after it; another may come in between. *)
Commit(x, n) ==
    /\ story[x] < MaxVersion
    /\ story' = [story EXCEPT ![x] = @ + 1]
    /\ telling' = telling \cup {<<x, story[x] + 1, n>>}
    /\ overlap' = IF \E news \in telling : news[1] = x THEN overlap \cup {x} ELSE overlap
    /\ UNCHANGED <<node, oldKeys, pass, socket>>
EmitRealtime(x, v, n) ==
    /\ <<x, v, n>> \in telling
    /\ telling' = telling \ {<<x, v, n>>}
    /\ socket' = [s \in Socket |-> IF s \in RoomOf(x, n) THEN [socket[s] EXCEPT !.heard = Append(@, <<x, v>>)] ELSE socket[s]]
    /\ UNCHANGED <<node, oldKeys, pass, story, overlap>>

SignsIn == \E t \in Pass, h \in Holder, n \in Node : SignAccessToken(t, h, n)
KeysNext == SignsIn \/ Lapse \/ \E n \in Node : Redeploy(n)
SocketsNext ==
    \/ SignsIn \/ \E t \in Pass : EndSession(t)
    \/ \E s \in Socket : \/ \E t \in Pass, n \in Node : Handshake(s, t, n)
                         \/ CheckSession(s) \/ JoinRooms(s) \/ Disconnect(s)
    \/ \E x \in Story, n \in Node : Commit(x, n) \/ \E v \in 1..MaxVersion : EmitRealtime(x, v, n)
RealtimeNext == KeysNext \/ SocketsNext

RealtimeSpec == RealtimeInit /\ [][RealtimeNext]_realtimeVars

-----------------------------------------------------------------------------
RealtimeTypeOK ==
    /\ node \in [Node -> Nodes] /\ oldKeys \subseteq 1..Generations
    /\ pass \in [Pass -> Passes \cup {NoPass}]
    /\ socket \in [Socket -> Sockets \cup {NoPass}]
    /\ story \in [Story -> 0..MaxVersion] /\ overlap \subseteq Story
    /\ telling \subseteq Story \X (0..MaxVersion) \X Node

(* What a socket hears is of its own tenant (realtime.service.js:81) and has happened (orders.service.js:385); and of
   one order in its order while its changes do not overlap. *)
NewsIsTrue ==
    \A s \in Socket : socket[s] # NoPass =>
        /\ \A i \in DOMAIN socket[s].heard :
            LET news == socket[s].heard[i]
            IN StoryOf[news[1]] = HomeOf[pass[socket[s].pass].holder] /\ news[2] <= story[news[1]]
        /\ \A i, j \in DOMAIN socket[s].heard :
            i < j /\ socket[s].heard[i][1] = socket[s].heard[j][1] /\ socket[s].heard[i][1] \notin overlap =>
                socket[s].heard[i][2] < socket[s].heard[j][2]

(* A key is given up only after its last token (jwt.util.js:42): a token that has not expired opens every process that
   has been deployed since it was signed, however many rotations lie between. *)
TokensOpenDoors ==
    \A t \in Pass, n \in Node :
        pass[t] # NoPass /\ pass[t].left > 0 /\ node[n].current >= pass[t].key => VerifyAccessToken(t, n)

(* "a signed-out or revoked session cannot open new sockets" (socket.auth.js:66), as a step. *)
EndedOpensNothing ==
    [][\A s \in Socket : socket[s] # NoPass /\ socket[s].at = "session" /\ ~pass[socket[s].pass].live =>
            socket'[s] = NoPass \/ socket'[s] = socket[s]]_realtimeVars

(* TLC refutes: that processes of before the rotation take new tokens, too; that an open socket's session goes on; and
   that changes are heard in the order in which they happened. *)
TokensOpenAllDoors == \A t \in Pass, n \in Node : pass[t] # NoPass /\ pass[t].left > 0 => VerifyAccessToken(t, n)
OpenMeansSignedIn == \A s \in Socket : SocketAt(s, "open") => pass[socket[s].pass].live
HeardInOrder ==
    \A s \in Socket : socket[s] # NoPass => \A i, j \in DOMAIN socket[s].heard : i < j => socket[s].heard[i][2] < socket[s].heard[j][2]

=============================================================================
