------------------------------ MODULE Tenants ------------------------------
(***************************************************************************)
(* Tenants come and go: the platform's calls, which make a tenant with its *)
(* roles and its first admin, the older calls, which make a bare one, keep *)
(* tenants in a cache and delete them, and the seed script, which brings   *)
(* every tenant up to the permissions of this release and may stop at any  *)
(* statement.  The tenant of the platform itself is not among the firms:   *)
(* it has the slug PlatformSlug.  Plans are left to Plans, names left out. *)
(***************************************************************************)
EXTENDS Integers, FiniteSets

CONSTANTS
    Firm, Slug, Email, Director, \* a director is a request in flight
    PlatformSlug, Development,   \* slugs
    AdminEmail,                  \* of the platform's admin, as configured
    Perm, OldPerm, ReadPerm, ExcludedPerm, \* of this release, of the one before, and two kinds of them
    MaxCalls,                    \* bound
    NoFirm, Gone

ASSUME TenantsAssumption ==
    /\ {PlatformSlug, Development} \subseteq Slug /\ PlatformSlug # Development /\ AdminEmail \in Email
    /\ OldPerm \cup ReadPerm \cup ExcludedPerm \subseteq Perm /\ Gone # NoFirm /\ MaxCalls \in Nat

VARIABLES
    firm,       \* tenants: NoFirm, Gone or the row with its permissions, roles and grants
    home,       \* [Email -> NoFirm, PlatformSlug or the firm of the account]
    member,     \* memberships, as <<e-mail, firm>>
    director,   \* requests: what each is about, and what it has read
    entry,      \* the cached row of each firm
    seeder,     \* [at, now, todo, listed]: the tenant at hand, those after it, and all of them
    calls, calm \* how many so far; and whether requests came one by one, through the older calls, with the cache up

tenantVars == <<firm, home, member, director, entry, seeder, calls, calm>>

-----------------------------------------------------------------------------
SystemRole == {"admin", "manager", "member"}
Granted(role, perms) ==
    CASE role = "admin" -> perms
      [] role = "manager" -> perms \ ExcludedPerm
      [] role = "member" -> perms \cap ReadPerm
GrantsOf(perms) == UNION {{role} \X Granted(role, perms) : role \in SystemRole}
Bare(slug, status) == [slug |-> slug, status |-> status, perms |-> {}, roles |-> {}, grants |-> {}]
Provisioned(slug, status, perms) ==
    [slug |-> slug, status |-> status, perms |-> perms, roles |-> SystemRole, grants |-> GrantsOf(perms)]
Whole(f) == firm[f].perms = Perm /\ firm[f].roles = SystemRole /\ firm[f].grants = GrantsOf(Perm)

Status == {"ACTIVE", "CANCELLED"}
FirmRows == [slug : Slug, status : Status, perms : SUBSET Perm, roles : SUBSET SystemRole, grants : SUBSET (SystemRole \X Perm)]
CachedRows == [slug : Slug, status : Status]
Stages == {"look", "fill", "check", "write", "drop"}
Makings == [op : {"create", "only", "withadmin"}, firm : Firm, slug : Slug, email : Email \cup {NoFirm}, status : Status, at : Stages,
            read : FirmRows \cup {NoFirm}]
Changings == [op : {"update", "platform"}, firm : Firm, slug : Slug \cup {NoFirm}, email : {NoFirm}, status : Status, at : Stages,
              read : FirmRows \cup {NoFirm}]
Others == [op : {"admin", "read", "delete"}, firm : Firm, slug : {NoFirm}, email : Email \cup {NoFirm}, status : {NoFirm}, at : Stages,
           read : FirmRows \cup {NoFirm}]
Directs == Makings \cup Changings \cup Others
Phases == {"perms", "roles", "grants"}
Seeds == [at : {"off", "platform", "list", "done"} \cup Phases, now : Firm \cup {NoFirm}, todo : SUBSET Firm, listed : SUBSET Firm]
ASSUME NoFirmAssumption ==
    NoFirm \notin Firm \cup FirmRows \cup CachedRows \cup Directs /\ Gone \notin FirmRows

There(f) == firm[f] \notin {NoFirm, Gone}
New(f) == firm[f] = NoFirm
NewFirms == {f \in Firm : New(f)}
Firms == {f \in Firm : There(f)}
ExistsBySlug(s) == s = PlatformSlug \/ \E f \in Firms : firm[f].slug = s
TakenByOther(s, f) == s = PlatformSlug \/ \E g \in Firms \ {f} : firm[g].slug = s

TenantsInit ==
    /\ firm \in {r \in [Firm -> {NoFirm, Provisioned(Development, "ACTIVE", OldPerm), Provisioned(Development, "CANCELLED", OldPerm)}] :
                    Cardinality({f \in Firm : r[f] # NoFirm}) <= 1}
    /\ home \in {h \in [Email -> Firms \cup {NoFirm}] : h[AdminEmail] = NoFirm} \* moved to the platform by the seed
    /\ member = {<<e, home[e]>> : e \in {e \in Email : home[e] # NoFirm}}
    /\ director = [d \in Director |-> NoFirm] /\ entry = [f \in Firm |-> NoFirm]
    /\ seeder = [at |-> "off", now |-> NoFirm, todo |-> {}, listed |-> {}] /\ calls = 0 /\ calm = TRUE

(* Requests. *)
Ask(op, f, s, e, status) ==
    [op |-> op, firm |-> f, slug |-> s, email |-> e, status |-> status, at |-> "look", read |-> NoFirm]
Begin(d, request) ==
    /\ director[d] = NoFirm /\ calls < MaxCalls
    /\ calls' = calls + 1
    /\ director' = [director EXCEPT ![d] = request]
    /\ calm' = (calm /\ (\A o \in Director : director[o] = NoFirm) /\ request.op \in {"create", "read", "update", "delete"}
                     /\ seeder.at = "off")
    /\ UNCHANGED <<firm, home, member, entry, seeder>>
DirectorAt(d, ops, at) == director[d] # NoFirm /\ director[d].op \in ops /\ director[d].at = at
Goes(d, at) == director' = [director EXCEPT ![d].at = at]
Ends(d) == director' = [director EXCEPT ![d] = NoFirm]
Apart == UNCHANGED <<seeder, calls>>

StartCreate(d) == \E f \in NewFirms, s \in Slug, status \in Status : Begin(d, Ask("create", f, s, NoFirm, status))
StartCreateOnly(d) == \E f \in NewFirms, s \in Slug \ {PlatformSlug} : Begin(d, Ask("only", f, s, NoFirm, "ACTIVE"))
StartCreateWithAdmin(d) ==
    \E f \in NewFirms, s \in Slug \ {PlatformSlug}, e \in Email : Begin(d, Ask("withadmin", f, s, e, "ACTIVE"))
StartCreateAdmin(d) == \E f \in Firms, e \in Email : Begin(d, Ask("admin", f, NoFirm, e, NoFirm))
StartRead(d) == \E f \in Firms : Begin(d, Ask("read", f, NoFirm, NoFirm, NoFirm))
StartUpdate(d) == \E f \in Firms, s \in Slug \cup {NoFirm}, status \in Status : Begin(d, Ask("update", f, s, NoFirm, status))
StartPlatformUpdate(d) ==
    \E f \in Firms, s \in {NoFirm} \cup (Slug \ {PlatformSlug}), status \in Status : Begin(d, Ask("platform", f, s, NoFirm, status))
StartDelete(d) == \E f \in Firms : Begin(d, Ask("delete", f, NoFirm, NoFirm, NoFirm))

(* What is looked up before anything is written. *)
LookAround(d) ==
    LET r == director[d]
    IN /\ DirectorAt(d, {"create", "only", "withadmin", "admin", "platform"}, "look")
       /\ IF CASE r.op \in {"create", "only"} -> ~ExistsBySlug(r.slug)
               [] r.op = "withadmin" -> ~ExistsBySlug(r.slug) /\ home[r.email] = NoFirm
               [] r.op = "admin" -> There(r.firm) /\ home[r.email] = NoFirm /\ "admin" \in firm[r.firm].roles
               [] r.op = "platform" -> There(r.firm) /\ (r.slug \in {NoFirm, firm[r.firm].slug} \/ ~ExistsBySlug(r.slug))
          THEN Goes(d, "write") ELSE Ends(d)
       /\ UNCHANGED <<firm, home, member, entry, calm>> /\ Apart

(* TenantService.getById: from the cache, or from the database into the cache; two calls of the cache may fail. *)
GetById(d) ==
    LET r == director[d]
    IN /\ DirectorAt(d, {"read", "update", "delete"}, "look")
       /\ \E up \in BOOLEAN :
            /\ calm' = (calm /\ up)
            /\ CASE up /\ entry[r.firm] # NoFirm /\ r.op = "read" -> Ends(d)
                 [] up /\ entry[r.firm] # NoFirm /\ r.op # "read" -> Goes(d, "check")
                 [] OTHER -> IF There(r.firm) THEN director' = [director EXCEPT ![d].at = "fill", ![d].read = firm[r.firm]]
                                              ELSE Ends(d)
       /\ UNCHANGED <<firm, home, member, entry>> /\ Apart
Fill(d) ==
    LET r == director[d]
    IN /\ DirectorAt(d, {"read", "update", "delete"}, "fill")
       /\ \E up \in BOOLEAN :
            /\ entry' = IF up THEN [entry EXCEPT ![r.firm] = [slug |-> r.read.slug, status |-> r.read.status]] ELSE entry
            /\ calm' = (calm /\ up)
       /\ IF r.op = "read" THEN Ends(d) ELSE Goes(d, "check")
       /\ UNCHANGED <<firm, home, member>> /\ Apart
(* update refuses every slug that exists, its own among them; it may come without one. *)
CheckSlug(d) ==
    /\ DirectorAt(d, {"update", "delete"}, "check")
    /\ IF director[d].op = "update" /\ director[d].slug # NoFirm /\ ExistsBySlug(director[d].slug) THEN Ends(d) ELSE Goes(d, "write")
    /\ UNCHANGED <<firm, home, member, entry, calm>> /\ Apart

(* The writes.  The unique indexes of slugs and e-mails refuse what has come meanwhile. *)
Admit(e, f) == home' = [home EXCEPT ![e] = f] /\ member' = member \cup {<<e, f>>}
Insert(d) ==
    LET r == director[d]
    IN /\ DirectorAt(d, {"create", "only", "withadmin"}, "write")
       /\ Ends(d)
       /\ IF ExistsBySlug(r.slug) \/ (r.op = "withadmin" /\ home[r.email] # NoFirm) \/ ~New(r.firm)
          THEN UNCHANGED <<firm, home, member>>
          ELSE /\ firm' = [firm EXCEPT ![r.firm] = IF r.op = "create" THEN Bare(r.slug, r.status)
                                                   ELSE Provisioned(r.slug, r.status, Perm)]
               /\ IF r.op = "withadmin" THEN Admit(r.email, r.firm) ELSE UNCHANGED <<home, member>>
       /\ UNCHANGED <<entry, calm>> /\ Apart
InsertAdmin(d) ==
    LET r == director[d]
    IN /\ DirectorAt(d, {"admin"}, "write")
       /\ Ends(d)
       /\ IF There(r.firm) /\ home[r.email] = NoFirm THEN Admit(r.email, r.firm) ELSE UNCHANGED <<home, member>>
       /\ UNCHANGED <<firm, entry, calm>> /\ Apart
Change(d) ==
    LET r == director[d]
    IN /\ DirectorAt(d, {"update", "platform"}, "write")
       /\ IF There(r.firm) /\ ~TakenByOther(r.slug, r.firm)
          THEN /\ firm' = [firm EXCEPT ![r.firm].slug = IF r.slug = NoFirm THEN @ ELSE r.slug, ![r.firm].status = r.status]
               /\ IF r.op = "update" THEN Goes(d, "drop") ELSE Ends(d)
          ELSE UNCHANGED firm /\ Ends(d)
       /\ UNCHANGED <<home, member, entry, calm>> /\ Apart
Delete(d) ==
    LET r == director[d]
    IN /\ DirectorAt(d, {"delete"}, "write")
       /\ IF There(r.firm)
          THEN /\ firm' = [firm EXCEPT ![r.firm] = Gone] \* and everything of it
               /\ home' = [e \in Email |-> IF home[e] = r.firm THEN NoFirm ELSE home[e]]
               /\ member' = {m \in member : m[2] # r.firm}
               /\ Goes(d, "drop")
          ELSE UNCHANGED <<firm, home, member>> /\ Ends(d)
       /\ UNCHANGED <<entry, calm>> /\ Apart
NotDropped(f) == entry
Dropped(f) == [entry EXCEPT ![f] = NoFirm]
DropEntry(d) ==
    /\ DirectorAt(d, {"update", "delete"}, "drop")
    /\ \E up \in BOOLEAN : entry' = (IF up THEN Dropped(director[d].firm) ELSE entry) /\ calm' = (calm /\ up)
    /\ Ends(d)
    /\ UNCHANGED <<firm, home, member>> /\ Apart
EntryExpires(f) ==
    /\ entry[f] # NoFirm /\ entry' = [entry EXCEPT ![f] = NoFirm]
    /\ UNCHANGED <<firm, home, member, director, calm>> /\ Apart

-----------------------------------------------------------------------------
(* The seed script, statement by statement, next to all that.  Bound: it counts as a call. *)
SeedAside == UNCHANGED <<director, entry>>
SeedStart ==
    /\ seeder.at \in {"off", "done"} /\ calls < MaxCalls /\ calls' = calls + 1
    /\ seeder' = [at |-> "platform", now |-> NoFirm, todo |-> {}, listed |-> {}]
    /\ calm' = FALSE
    /\ SeedAside /\ UNCHANGED <<firm, home, member>>
(* seedPlatformAdmin: an account with that e-mail becomes the platform's, and keeps its other memberships. *)
SeedPlatformAdmin ==
    /\ seeder.at = "platform"
    /\ home' = [home EXCEPT ![AdminEmail] = PlatformSlug] /\ member' = member \cup {<<AdminEmail, PlatformSlug>>}
    /\ seeder' = [seeder EXCEPT !.at = "list"]
    /\ SeedAside /\ UNCHANGED <<firm, calls, calm>>
(* main: the tenants that are not CANCELLED; when there is none, one is made, unless its slug is taken. *)
Listed == {f \in Firms : firm[f].status # "CANCELLED"}
ListTenants ==
    /\ seeder.at = "list"
    /\ IF Listed # {} THEN (\E f \in Listed : seeder' = [at |-> "perms", now |-> f, todo |-> Listed \ {f}, listed |-> Listed]) /\ UNCHANGED firm
       ELSE IF ExistsBySlug(Development) THEN seeder' = [seeder EXCEPT !.at = "off"] /\ UNCHANGED firm
       ELSE \E f \in NewFirms :
            /\ firm' = [firm EXCEPT ![f] = Bare(Development, "ACTIVE")]
            /\ seeder' = [at |-> "perms", now |-> f, todo |-> {}, listed |-> {f}]
    /\ SeedAside /\ UNCHANGED <<home, member, calls, calm>>
Current == seeder.now
MissingOfNewRoles(phase, f) ==
    CASE phase = "perms" -> Perm \ firm[f].perms
      [] phase = "roles" -> SystemRole \ firm[f].roles
      [] phase = "grants" -> IF firm[f].grants # {} THEN {} ELSE GrantsOf(Perm) \ firm[f].grants
(* One upsert of a phase that still adds something, or the next phase; none for a tenant that was deleted. *)
Missing(phase, f) ==
    CASE phase = "perms" -> Perm \ firm[f].perms
      [] phase = "roles" -> SystemRole \ firm[f].roles
      [] phase = "grants" -> GrantsOf(Perm) \ firm[f].grants
Added(phase, f, x) ==
    CASE phase = "perms" -> [firm EXCEPT ![f].perms = @ \cup {x}]
      [] phase = "roles" -> [firm EXCEPT ![f].roles = @ \cup {x}]
      [] phase = "grants" -> [firm EXCEPT ![f].grants = @ \cup {x}]
NextPhase(at) == IF at = "perms" THEN "roles" ELSE "grants"
Upsert ==
    /\ seeder.at \in Phases /\ There(Current)
    /\ \E x \in Missing(seeder.at, Current) : firm' = Added(seeder.at, Current, x)
    /\ SeedAside /\ UNCHANGED <<home, member, seeder, calls, calm>>
GoesTo(at, now, todo) == seeder' = [seeder EXCEPT !.at = at, !.now = now, !.todo = todo]
SeedGoesOn ==
    /\ seeder.at \in Phases /\ There(Current)
    /\ Missing(seeder.at, Current) = {}
    /\ \/ seeder.at # "grants" /\ GoesTo(NextPhase(seeder.at), Current, seeder.todo)
       \/ seeder.at = "grants" /\ seeder.todo = {} /\ GoesTo("done", NoFirm, {})
       \/ seeder.at = "grants" /\ \E f \in seeder.todo : GoesTo("perms", f, seeder.todo \ {f})
    /\ SeedAside /\ UNCHANGED <<firm, home, member, calls, calm>>
SeedStops ==
    /\ seeder.at \notin {"off", "done"}
    /\ seeder' = [seeder EXCEPT !.at = "off"]
    /\ SeedAside /\ UNCHANGED <<firm, home, member, calls, calm>>

TenantsNext ==
    \/ \E d \in Director :
        \/ StartCreate(d) \/ StartCreateOnly(d) \/ StartCreateWithAdmin(d) \/ StartCreateAdmin(d) \/ StartRead(d)
        \/ StartUpdate(d) \/ StartPlatformUpdate(d) \/ StartDelete(d)
        \/ LookAround(d) \/ GetById(d) \/ Fill(d) \/ CheckSlug(d)
        \/ Insert(d) \/ InsertAdmin(d) \/ Change(d) \/ Delete(d) \/ DropEntry(d)
    \/ \E f \in Firm : EntryExpires(f)
    \/ SeedStart \/ SeedPlatformAdmin \/ ListTenants \/ Upsert \/ SeedGoesOn \/ SeedStops

TenantsSpec == TenantsInit /\ [][TenantsNext]_tenantVars

-----------------------------------------------------------------------------
TenantsTypeOK ==
    /\ firm \in [Firm -> FirmRows \cup {NoFirm, Gone}] /\ entry \in [Firm -> CachedRows \cup {NoFirm}]
    /\ director \in [Director -> Directs \cup {NoFirm}]
    /\ home \in [Email -> Firms \cup {NoFirm, PlatformSlug}] /\ calm \in BOOLEAN
    /\ seeder \in Seeds /\ seeder.todo \subseteq seeder.listed /\ seeder.now \in seeder.listed \cup {NoFirm}

(* "idempotent" (seed.js:164, 222): however often it was stopped before, and whatever was called meanwhile, a seed that
   ends has brought each tenant it set out for to exactly the roles of this release, which a tenant of the platform's
   making has from its first moment (platform.service.js:47). *)
SeededIsWhole == seeder.at = "done" => \A f \in seeder.listed : There(f) => Whole(f)

(* The cached tenant is the tenant (tenants.service.js:101), when requests come one by one, the cache answers, and
   nobody uses the platform's calls, which leave the cache alone (platform.service.js:161). *)
TenantCacheInTurn ==
    calm /\ (\A d \in Director : director[d] = NoFirm) =>
        \A f \in Firm : entry[f] # NoFirm => There(f) /\ entry[f] = [slug |-> firm[f].slug, status |-> firm[f].status]

(* TLC refutes: that the cached tenant is the tenant however the requests overlap; that every account is a member of its
   own firm only; that an admin can do everything; and that no seed is in vain. *)
TenantCacheTrue == \A f \in Firm : entry[f] # NoFirm /\ (\A d \in Director : director[d] = NoFirm) => There(f)
MembersOfOne == \A m, n \in member : m[1] = n[1] => m[2] = n[2]
AdminsCanAct == \A e \in Email : home[e] \in Firms => Granted("admin", OldPerm) \subseteq {g[2] : g \in {g \in firm[home[e]].grants : g[1] = "admin"}}
SeedFindsRoom == seeder.at = "list" /\ Listed = {} => ~ExistsBySlug(Development)

=============================================================================
