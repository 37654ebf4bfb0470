------------------------------ MODULE Workspace ------------------------------
(***************************************************************************)
(* The workspace of a tenant (WorkspaceService): the domains it claims for *)
(* its shop and proves to be its own by a DNS record, and its settings,    *)
(* one JSON object in one row with the tax profile inside it.              *)
(*                                                                         *)
(* For a domain, a request looks its claim up, then runs one READ          *)
(* COMMITTED transaction: the rows it changes stay locked until it         *)
(* commits, and so do the places they take in the unique indexes (one      *)
(* verified claim per domain, one primary claim per tenant).  Claims are   *)
(* numbered in order of creation.                                          *)
(*                                                                         *)
(* For the settings, either update reads the object, changes its own part  *)
(* and writes the whole object back, in a READ COMMITTED transaction that  *)
(* locks nothing it reads.  A GSTIN stands for the state and the PAN it    *)
(* carries.                                                                *)
(***************************************************************************)
EXTENDS Integers, FiniteSets, FiniteSetsExt

CONSTANTS
    Tenant, Domain,
    MaxClaim,   \* bound on the claims ever made
    Owner,      \* requests
    Unclaimed

ASSUME MaxClaimAssumption == MaxClaim \in Nat
VARIABLES
    claim,      \* tenant_domains, committed
    owner,      \* requests: what was found; then the rows the transaction changes
    jostled     \* two requests were in progress at once

domainVars == <<claim, owner, jostled>>

Claim == 1..MaxClaim
ClaimRows == [of : Tenant, name : Domain, verified : BOOLEAN, primary : BOOLEAN]
Asking == [step : {"add", "primary", "verify", "remove"}, of : Tenant, id : Claim \cup {0}, name : Domain]
Commits ==
    [step : {"commit"}, does : {"add", "primary", "verify", "remove"}, by : Tenant,
     rows : UNION {[changed -> ClaimRows \cup {Unclaimed}] : changed \in SUBSET Claim}]
ASSUME UnclaimedAssumption == Unclaimed \notin Tenant \cup Domain \cup ClaimRows \cup Asking \cup Commits

ClaimsOf(rows, t) == {c \in Claim : rows[c] # Unclaimed /\ rows[c].of = t}
PrimaryClaims(rows, t) == {c \in ClaimsOf(rows, t) : rows[c].primary}
ClaimsOn(rows, d) == {c \in Claim : rows[c] # Unclaimed /\ rows[c].name = d}
VerifiedClaims(rows, d) == {c \in ClaimsOn(rows, d) : rows[c].verified}

Asks(o, step) == owner[o] # Unclaimed /\ owner[o].step = step
Writing(o) == IF Asks(o, "commit") THEN DOMAIN owner[o].rows ELSE {}
LockedClaims == UNION {Writing(o) : o \in Owner}
(* The entries of a row in the unique indexes, and those that open transactions are about to add. *)
Entries(row) ==
    {<<row.of, row.name>>} \cup (IF row.verified THEN {<<"verified", row.name>>} ELSE {})
                           \cup (IF row.primary THEN {<<"primary", row.of>>} ELSE {})
Reserved == UNION {UNION {Entries(owner[o].rows[c]) : c \in {c \in Writing(o) : owner[o].rows[c] # Unclaimed}} : o \in Owner}

DomainsInit ==
    /\ claim = [c \in Claim |-> Unclaimed]
    /\ owner = [o \in Owner |-> Unclaimed] /\ jostled = FALSE

LookUp(o, ask) ==
    /\ owner[o] = Unclaimed
    /\ owner' = [owner EXCEPT ![o] = ask]
    /\ jostled' = (jostled \/ \E p \in Owner : owner[p] # Unclaimed)
    /\ UNCHANGED claim

(* The statements of the transaction, once what they change is free. *)
WriteClaims(o, rows) ==
    LET changed == {c \in Claim : rows[c] # claim[c]}
        kept == {c \in Claim : rows[c] # Unclaimed}
    IN /\ changed \cap LockedClaims = {}
       /\ \A c \in kept : /\ c \in changed => Entries(rows[c]) \cap Reserved = {}
                         /\ \A e \in kept \ {c} : Entries(rows[c]) \cap Entries(rows[e]) = {}
       /\ owner' = [owner EXCEPT ![o] = [step |-> "commit", does |-> owner[o].step, by |-> owner[o].of,
                                         rows |-> [c \in changed |-> rows[c]]]]
       /\ UNCHANGED <<claim, jostled>>
EnsureNoPrimary(rows, T) == rows
EnsurePrimary(rows, T) ==   \* of the tenants T
    LET heirs == {Min(ClaimsOf(rows, t)) : t \in {t \in T : ClaimsOf(rows, t) # {} /\ PrimaryClaims(rows, t) = {}}}
    IN [c \in Claim |-> IF c \in heirs THEN [rows[c] EXCEPT !.primary = TRUE] ELSE rows[c]]

-----------------------------------------------------------------------------
(* addDomain: a domain somebody has verified is taken. *)
AddDomain(o, t, d) ==
    /\ VerifiedClaims(claim, d) = {}
    /\ LookUp(o, [step |-> "add", of |-> t, id |-> 0, name |-> d])
CreateDomain(o) ==
    LET held == {owner[p].id : p \in {p \in Owner : owner[p] # Unclaimed /\ ~Asks(p, "commit")}} \cup LockedClaims
        fresh == {c \in Claim : \A e \in Claim : e >= c => claim[e] = Unclaimed /\ e \notin held}
        row == [of |-> owner[o].of, name |-> owner[o].name, verified |-> FALSE, primary |-> FALSE]
    IN /\ Asks(o, "add") /\ fresh # {}
       /\ WriteClaims(o, EnsurePrimary([claim EXCEPT ![Min(fresh)] = row], {owner[o].of}))

(* makePrimary, verifyDomain (after the DNS look-up) and removeDomain, of a tenant's own claim. *)
FindAnyDomain(o, t, step) ==
    \E c \in Claim : claim[c] # Unclaimed /\ LookUp(o, [step |-> step, of |-> t, id |-> c, name |-> claim[c].name])
FindDomain(o, t, step) ==
    \E c \in ClaimsOf(claim, t) :
        /\ step = "primary" => ~claim[c].primary
        /\ step = "verify" => VerifiedClaims(claim, claim[c].name) = {}
        /\ LookUp(o, [step |-> step, of |-> t, id |-> c, name |-> claim[c].name])
MakePrimary(o) ==
    /\ Asks(o, "primary") /\ claim[owner[o].id] # Unclaimed
    /\ WriteClaims(o, [c \in Claim |-> IF c = owner[o].id THEN [claim[c] EXCEPT !.primary = TRUE]
                                       ELSE IF c \in PrimaryClaims(claim, owner[o].of) THEN [claim[c] EXCEPT !.primary = FALSE]
                                       ELSE claim[c]])
VerifyDomain(o) ==
    LET id == owner[o].id
        dropped == {c \in ClaimsOn(claim, owner[o].name) \ {id} : ~claim[c].verified}
    IN /\ Asks(o, "verify") /\ claim[id] # Unclaimed
       /\ WriteClaims(o, EnsurePrimary([c \in Claim |-> IF c = id THEN [claim[c] EXCEPT !.verified = TRUE]
                                                        ELSE IF c \in dropped THEN Unclaimed ELSE claim[c]],
                                       {claim[c].of : c \in dropped}))
RemoveDomain(o) ==
    /\ Asks(o, "remove") /\ claim[owner[o].id] # Unclaimed
    /\ WriteClaims(o, EnsurePrimary([claim EXCEPT ![owner[o].id] = Unclaimed], {owner[o].of}))

CommitDomains(o) ==
    /\ Asks(o, "commit")
    /\ claim' = [c \in Claim |-> IF c \in Writing(o) THEN owner[o].rows[c] ELSE claim[c]]
    /\ owner' = [owner EXCEPT ![o] = Unclaimed]
    /\ UNCHANGED jostled
(* The claim is gone, the domain or the place of the primary is taken, a deadlock, or the server stops. *)
AbortDomains(o) ==
    /\ owner[o] # Unclaimed
    /\ owner' = [owner EXCEPT ![o] = Unclaimed]
    /\ UNCHANGED <<claim, jostled>>

DomainsNext ==
    \E o \in Owner :
        \/ \E t \in Tenant : \/ \E d \in Domain : AddDomain(o, t, d)
                             \/ \E step \in {"primary", "verify", "remove"} : FindDomain(o, t, step)
        \/ CreateDomain(o) \/ MakePrimary(o) \/ VerifyDomain(o) \/ RemoveDomain(o)
        \/ CommitDomains(o) \/ AbortDomains(o)

DomainsSpec == DomainsInit /\ [][DomainsNext]_domainVars

-----------------------------------------------------------------------------
(* Rows have the values of the schema and its unique indexes hold. *)
DomainsTypeOK ==
    /\ claim \in [Claim -> ClaimRows \cup {Unclaimed}] /\ jostled \in BOOLEAN
    /\ owner \in [Owner -> Asking \cup Commits \cup {Unclaimed}]
    /\ \A t \in Tenant : Cardinality(PrimaryClaims(claim, t)) <= 1
    /\ \A c, e \in Claim : claim[c] # Unclaimed /\ claim[e] # Unclaimed /\ claim[c].of = claim[e].of
                           /\ claim[c].name = claim[e].name => c = e

(* "Keeps 'a tenant with domains has exactly one primary'" (workspace.repository.js:66), while requests
   do not overlap. *)
OnePrimaryDomainInTurn ==
    jostled \/ \A t \in Tenant : ClaimsOf(claim, t) # {} => Cardinality(PrimaryClaims(claim, t)) = 1

(* "The first tenant to verify a domain keeps it" (workspace.service.js:172), whoever else is at work:
   no two tenants have verified one domain, and a verified claim only goes when its own tenant removes it. *)
VerifiedStays ==
    [][/\ \A d \in Domain : Cardinality(VerifiedClaims(claim', d)) <= 1
       /\ \A c \in Claim : claim[c] # Unclaimed /\ claim[c].verified =>
            \/ claim'[c] # Unclaimed /\ claim'[c].verified /\ claim'[c].of = claim[c].of
            \/ \E o \in Owner : Asks(o, "commit") /\ owner[o].does = "remove" /\ owner[o].by = claim[c].of
       ]_domainVars

(* The comment's words for overlapping requests, which TLC refutes. *)
OnePrimaryDomain == \A t \in Tenant : ClaimsOf(claim, t) # {} => Cardinality(PrimaryClaims(claim, t)) = 1

-----------------------------------------------------------------------------
CONSTANTS
    State, Pan,
    Saver,      \* requests
    Unset, Left \* no value; a key that an update does not give

ASSUME LeftAssumption == Left \notin State \cup Pan

VARIABLES
    metadata,   \* tenant_settings.metadata: a plain setting, and the tax profile
    saver,      \* requests: the object each is about to write
    said,       \* what the answers of the updates that succeeded add up to
    together    \* two requests were in progress at once

settingsVars == <<metadata, saver, said, together>>

Gstin == [state : State, pan : Pan]
Metadata == [locale : {Unset, "hi"}, gstin : Gstin \cup {Unset}, state : State \cup {Unset}, pan : Pan \cup {Unset}]
Changes ==
    [locale : {Unset, Left, "hi"}, gstin : Gstin \cup {Unset, Left}, state : State \cup {Unset, Left}, pan : Pan \cup {Unset, Left}]
Saves == [next : Metadata, changes : Changes]
ASSUME UnsetAssumption == Unset \notin State \cup Pan \cup {Left} \cup Gstin \cup Saves

SettingsInit ==
    /\ metadata = [locale |-> Unset, gstin |-> Unset, state |-> Unset, pan |-> Unset]
    /\ saver = [s \in Saver |-> Unset]
    /\ said = metadata /\ together = FALSE

(* The given keys are set, null clears them, the others are kept. *)
Untouched == [locale |-> Left, gstin |-> Left, state |-> Left, pan |-> Left]
Merged(old, changes) == [k \in DOMAIN old |-> IF changes[k] = Left THEN old[k] ELSE changes[k]]
(* The state and the PAN of a GSTIN are filled in where there is none. *)
FilledIn(next) ==
    IF next.gstin = Unset THEN next
    ELSE [next EXCEPT !.state = IF @ = Unset THEN next.gstin.state ELSE @,
                      !.pan = IF @ = Unset THEN next.gstin.pan ELSE @]

(* findSettings, and what becomes of it.  Bound: no request begins after two have overlapped. *)
ReadSettings(s, next, changes) ==
    /\ saver[s] = Unset /\ ~together
    /\ saver' = [saver EXCEPT ![s] = [next |-> next, changes |-> changes]]
    /\ together' = (\E o \in Saver : saver[o] # Unset)
    /\ UNCHANGED <<metadata, said>>

UpdateSettings(s, value) ==
    LET changes == [Untouched EXCEPT !.locale = value]
    IN ReadSettings(s, Merged(metadata, changes), changes)

(* updateTaxProfile: a GSTIN of another state than the profile's is refused. *)
UpdateProfileUnmerged(s, changes) ==
    LET given == FilledIn(Merged([k \in DOMAIN metadata |-> Unset], changes))
    IN /\ ReadSettings(s, FilledIn(Merged(metadata, changes)), changes)
       /\ given.gstin # Unset => given.state = given.gstin.state
UpdateTaxProfile(s, changes) ==
    LET next == FilledIn(Merged(metadata, changes))
    IN /\ ReadSettings(s, next, changes)
       /\ next.gstin # Unset => next.state = next.gstin.state

(* saveSettings upserts the whole row and commits. *)
SaveChangesOnly(s) ==
    /\ saver[s] # Unset
    /\ metadata' = Merged([k \in DOMAIN metadata |-> Unset], saver[s].changes)
    /\ said' = FilledIn(Merged(said, saver[s].changes))
    /\ saver' = [saver EXCEPT ![s] = Unset]
    /\ UNCHANGED together
SaveSettings(s) ==
    /\ saver[s] # Unset
    /\ metadata' = saver[s].next
    /\ said' = FilledIn(Merged(said, saver[s].changes))
    /\ saver' = [saver EXCEPT ![s] = Unset]
    /\ UNCHANGED together
RollBack(s) ==
    /\ saver[s] # Unset
    /\ saver' = [saver EXCEPT ![s] = Unset]
    /\ UNCHANGED <<metadata, said, together>>

ProfileChanges ==
    {[Untouched EXCEPT !.gstin = g, !.state = st, !.pan = p] :
        g \in Gstin \cup {Unset, Left}, st \in State \cup {Unset, Left}, p \in Pan \cup {Unset, Left}}

SettingsNext ==
    \E s \in Saver :
        \/ \E v \in {Unset, "hi"} : UpdateSettings(s, v)
        \/ \E changes \in ProfileChanges : UpdateTaxProfile(s, changes)
        \/ SaveSettings(s) \/ RollBack(s)

SettingsSpec == SettingsInit /\ [][SettingsNext]_settingsVars

-----------------------------------------------------------------------------
(* The object has the keys and values the schemas allow. *)
SettingsTypeOK ==
    /\ metadata \in Metadata /\ said \in Metadata /\ together \in BOOLEAN
    /\ saver \in [Saver -> Saves \cup {Unset}]

(* "The GSTIN belongs to a different state than the business state" (workspace.service.js:123) is never
   true of the stored profile, whoever saves at once: the object is checked and written as a whole. *)
ProfileOfOneState == metadata.gstin # Unset => metadata.state = metadata.gstin.state

(* "Given keys are set, null clears them, other stored metadata is kept" (workspace.service.js:84), while
   updates do not overlap: the object is what the answers add up to. *)
SettingsKeptInTurn == together \/ metadata = said

(* The same for updates that overlap, and that a PAN is its GSTIN's: TLC refutes both. *)
SettingsKept == metadata = said
ProfileOfOnePan == metadata.gstin # Unset => metadata.pan = metadata.gstin.pan

=============================================================================
