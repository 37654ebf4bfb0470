------------------------------ MODULE Platform -------------------------------
(***************************************************************************)
(* The platform over the businesses.                                       *)
(*                                                                         *)
(* First the people who run it and their read-only visits to a business    *)
(* (PlatformOpsService, PlatformService.updateTenantStatus,                *)
(* SupportService).  A platform request is authorized first and does its   *)
(* work later; only the writes of removeAdmin are one transaction.  A      *)
(* request that carries a support token is let in by reads made one after  *)
(* the other: the visit, its business, the grant of its holder.            *)
(*                                                                         *)
(* Then what a tenant's plan allows (PlanService, assertWithinPlan,        *)
(* assignPlan), for one tenant: its plan, the plan's limits and what is    *)
(* counted against them.  None of it is a transaction: a create reads the  *)
(* tenant's plan, the plan's limits and the count, and writes its row      *)
(* later; an update of a plan writes back the limits it read, merged with  *)
(* the new ones.                                                           *)
(***************************************************************************)
EXTENDS Integers, FiniteSets

CONSTANTS
    Insider,    \* accounts of the platform's tenant
    Founder,    \* the one the seed creates, a platform_admin
    Business,   \* tenants
    Visit,      \* support sessions
    Desk,       \* requests
    Nobody

ASSUME FounderAssumption == Founder \in Insider
VARIABLES
    access,     \* platform_user_roles and the account's status
    open,       \* tenants: ACTIVE or TRIAL
    visit,      \* support_sessions
    desk,       \* what each request is about to do
    contested     \* two removals were in progress at once

platformVars == <<access, open, visit, desk, contested>>

Visits == [by : Insider, of : Business, ended : BOOLEAN, expired : BOOLEAN]
Asked ==   \* what a request is about to do
    [step : {"add"}, whom : Insider, role : {"manager", "agent"}] \cup [step : {"remove", "removing"}, whom : Insider]
        \cup [step : {"start", "starting"}, by : Insider, of : Business, on : Visit] \cup [step : {"end"}, on : Visit]
        \cup [step : {"look", "tenant", "holder", "in"}, on : Visit, barred : {"no", "while", "forever"}]
ASSUME NobodyAssumption == Nobody \notin Insider \cup Business \cup Visit \cup Desk \cup Visits \cup Asked

Holds(p, permission) ==
    access[p] \in (IF permission = "platform:admin:manage" THEN {"manager"} ELSE {"manager", "agent"})
Over(v) == visit[v] = Nobody \/ visit[v].ended \/ visit[v].expired

DeskDoes(k, step) == desk[k] # Nobody /\ desk[k].step = step
Turn(k, step) == desk' = [desk EXCEPT ![k].step = step]
Leave(k) == desk' = [desk EXCEPT ![k] = Nobody]

PlatformInit ==
    /\ access = [p \in Insider |-> IF p = Founder THEN "manager" ELSE "none"]
    /\ open = [b \in Business |-> TRUE]
    /\ visit = [v \in Visit |-> Nobody]
    /\ desk = [k \in Desk |-> Nobody] /\ contested = FALSE

(* authenticatePlatform, authorizePlatform: the grant is read, then the handler starts. *)
AuthorizePlatform(k, p, permission, ask) ==
    /\ desk[k] = Nobody /\ Holds(p, permission)
    /\ desk' = [desk EXCEPT ![k] = ask]

-----------------------------------------------------------------------------
(* Platform admins *)
AskToAdd(k, p, newcomer, role) ==
    /\ AuthorizePlatform(k, p, "platform:admin:manage", [step |-> "add", whom |-> newcomer, role |-> role])
    /\ UNCHANGED <<access, open, visit, contested>>
AddPlatformAdmin(k) ==   \* a new account: the e-mail address must be free
    /\ DeskDoes(k, "add")
    /\ access' = IF access[desk[k].whom] = "none" THEN [access EXCEPT ![desk[k].whom] = desk[k].role] ELSE access
    /\ Leave(k) /\ UNCHANGED <<open, visit, contested>>

AskToRemoveAnyone(k, p, whom) ==
    /\ AuthorizePlatform(k, p, "platform:admin:manage", [step |-> "remove", whom |-> whom])
    /\ contested' = (contested \/ \E o \in Desk : DeskDoes(o, "remove") \/ DeskDoes(o, "removing"))
    /\ UNCHANGED <<access, open, visit>>
AskToRemove(k, p, whom) ==
    /\ p # whom
    /\ AuthorizePlatform(k, p, "platform:admin:manage", [step |-> "remove", whom |-> whom])
    /\ contested' = (contested \/ \E o \in Desk : DeskDoes(o, "remove") \/ DeskDoes(o, "removing"))
    /\ UNCHANGED <<access, open, visit>>
FindTarget(k) ==
    /\ DeskDoes(k, "remove") /\ access[desk[k].whom] \in {"manager", "agent"}
    /\ Turn(k, "removing") /\ UNCHANGED <<access, open, visit, contested>>
RemovePlatformAdmin(k) ==   \* the roles, the status and the open visits, in one transaction
    /\ DeskDoes(k, "removing")
    /\ access' = [access EXCEPT ![desk[k].whom] = "removed"]
    /\ visit' = [v \in Visit |-> IF visit[v] # Nobody /\ visit[v].by = desk[k].whom
                                 THEN [visit[v] EXCEPT !.ended = TRUE] ELSE visit[v]]
    /\ Leave(k) /\ UNCHANGED <<open, contested>>

-----------------------------------------------------------------------------
(* updateTenant and updateTenantStatus: a business is suspended, or opened again. *)
UpdateTenantStatus(b) ==
    /\ open' = [open EXCEPT ![b] = ~open[b]]
    \* a request that met the suspension may now be let in
    /\ desk' = [k \in Desk |-> IF ~open[b] /\ desk[k] # Nobody /\ desk[k].step \in {"look", "tenant", "holder"}
                                  /\ visit[desk[k].on].of = b /\ desk[k].barred = "while"
                               THEN [desk[k] EXCEPT !.barred = "no"] ELSE desk[k]]
    /\ UNCHANGED <<access, visit, contested>>

(* Support visits: start and end (the holder's own, twice is a no-op). *)
AskToVisit(k, p, b, v) ==
    /\ visit[v] = Nobody /\ ~\E o \in Desk : (DeskDoes(o, "start") \/ DeskDoes(o, "starting")) /\ desk[o].on = v
    /\ AuthorizePlatform(k, p, "platform:tenant:access", [step |-> "start", by |-> p, of |-> b, on |-> v])
    /\ UNCHANGED <<access, open, visit, contested>>
CheckTenant(k) ==
    /\ DeskDoes(k, "start") /\ open[desk[k].of]
    /\ Turn(k, "starting") /\ UNCHANGED <<access, open, visit, contested>>
StartVisit(k) ==
    /\ DeskDoes(k, "starting")
    /\ visit' = [visit EXCEPT ![desk[k].on] = [by |-> desk[k].by, of |-> desk[k].of, ended |-> FALSE, expired |-> FALSE]]
    /\ Leave(k) /\ UNCHANGED <<access, open, contested>>
AskToEnd(k, v) ==
    /\ visit[v] # Nobody /\ ~visit[v].ended
    /\ AuthorizePlatform(k, visit[v].by, "platform:tenant:access", [step |-> "end", on |-> v])
    /\ UNCHANGED <<access, open, visit, contested>>
EndVisit(k) ==
    /\ DeskDoes(k, "end")
    /\ visit' = [visit EXCEPT ![desk[k].on].ended = TRUE]
    /\ Leave(k) /\ UNCHANGED <<access, open, contested>>
ExpireVisit(v) ==
    /\ visit[v] # Nobody /\ ~visit[v].expired
    /\ visit' = [visit EXCEPT ![v].expired = TRUE]
    /\ UNCHANGED <<access, open, desk, contested>>

-----------------------------------------------------------------------------
(* A request with a support token arrives (barred: something already stands against it). *)
Arrive(k, v) ==
    /\ desk[k] = Nobody /\ visit[v] # Nobody
    /\ desk' = [desk EXCEPT ![k] =
                  [step |-> "look", on |-> v,
                   barred |-> IF Over(v) \/ access[visit[v].by] = "removed" THEN "forever"
                              ELSE IF ~open[visit[v].of] THEN "while" ELSE "no"]]
    /\ UNCHANGED <<access, open, visit, contested>>
(* findActive *)
FindAnySession(k) ==
    /\ DeskDoes(k, "look") /\ ~visit[desk[k].on].expired
    /\ Turn(k, "tenant") /\ UNCHANGED <<access, open, visit, contested>>
FindSession(k) ==
    /\ DeskDoes(k, "look") /\ ~Over(desk[k].on)
    /\ Turn(k, "tenant") /\ UNCHANGED <<access, open, visit, contested>>
FindTenant(k) ==
    /\ DeskDoes(k, "tenant") /\ open[visit[desk[k].on].of]
    /\ Turn(k, "holder") /\ UNCHANGED <<access, open, visit, contested>>
FindGrant(k) ==
    /\ DeskDoes(k, "holder") /\ Holds(visit[desk[k].on].by, "platform:tenant:access")
    /\ Turn(k, "in") /\ UNCHANGED <<access, open, visit, contested>>

(* The request is answered, or fails where it stands. *)
Close(k) ==
    /\ desk[k] # Nobody
    /\ Leave(k) /\ UNCHANGED <<access, open, visit, contested>>

PlatformNext ==
    \/ \E k \in Desk :
        \/ \E p \in Insider :
            \/ \E q \in Insider : AskToRemove(k, p, q) \/ \E role \in {"manager", "agent"} : AskToAdd(k, p, q, role)
            \/ \E b \in Business, v \in Visit : AskToVisit(k, p, b, v)
        \/ \E v \in Visit : AskToEnd(k, v) \/ Arrive(k, v)
        \/ AddPlatformAdmin(k) \/ FindTarget(k) \/ RemovePlatformAdmin(k) \/ CheckTenant(k) \/ StartVisit(k)
        \/ EndVisit(k) \/ FindSession(k) \/ FindTenant(k) \/ FindGrant(k) \/ Close(k)
    \/ \E b \in Business : UpdateTenantStatus(b)
    \/ \E v \in Visit : ExpireVisit(v)

PlatformSpec == PlatformInit /\ [][PlatformNext]_platformVars

-----------------------------------------------------------------------------
(* Accounts, tenants and visits have the values of the schema. *)
PlatformTypeOK ==
    /\ access \in [Insider -> {"none", "agent", "manager", "removed"}]
    /\ open \in [Business -> BOOLEAN] /\ contested \in BOOLEAN
    /\ visit \in [Visit -> Visits \cup {Nobody}] /\ desk \in [Desk -> Asked \cup {Nobody}]
    /\ \A k \in Desk : desk[k] # Nobody /\ desk[k].step \in {"look", "tenant", "holder", "in"} => visit[desk[k].on] # Nobody

(* "Ending the session, its expiry, losing the permission or the tenant being suspended cuts the token
   off immediately" (support.service.js:13): whatever happens between the reads, a request that comes
   after any of these is not let in (a suspension: unless the business is open again). *)
NoEntryAfterTheEnd == \A k \in Desk : DeskDoes(k, "in") => desk[k].barred = "no"

(* "The caller holds platform:admin:manage and can't remove themselves, so at least one manager always
   remains" (platform-ops.service.js:63): so it is while removals do not overlap. *)
AManagerRemainsInTurn == contested \/ \E p \in Insider : access[p] = "manager"

(* The comment's words for any two requests, which TLC refutes: two managers remove each other. *)
AManagerRemains == \E p \in Insider : access[p] = "manager"

-----------------------------------------------------------------------------
CONSTANTS
    PlanCode,
    FreePlan,   \* the plan the tenant starts on, without limits
    Resource,   \* users, products, warehouses, ordersPerMonth
    MaxUsed,    \* bound on the rows of a resource
    Limit,      \* the limits somebody sets
    Maker,      \* requests that create rows
    Officer,    \* requests about plans
    Null        \* no row, or a limit that is null: unlimited

ASSUME FreePlanAssumption == FreePlan \in PlanCode
ASSUME MakerAssumption == IsFiniteSet(Maker)
ASSUME LimitAssumption == MaxUsed \in Nat /\ Limit \subseteq Nat /\ Null \notin Nat

VARIABLES
    planRow,    \* plans, committed
    onPlan,     \* tenants.plan
    used,       \* rows that count against each limit
    maker,      \* creates: what each has read
    officer,    \* requests about plans: what each has read
    ceiling,    \* the highest limit that was in force for a create
    meant,      \* the limits somebody asked for last
    rushed, mingled  \* two creates, or two updates of plans, were in progress at once

planVars == <<planRow, onPlan, used, maker, officer, ceiling, meant, rushed, mingled>>

Limits == [Resource -> Limit \cup {Null}]
PlanRows == [active : BOOLEAN, limits : Limits]
Creates == [step : {"limit", "count", "create"}, of : Resource, plan : PlanCode, limit : Limit \cup {Null}]
Given == UNION {[some -> Limit \cup {Null}] : some \in SUBSET Resource}
AboutPlans == [step : {"update"}, plan : PlanCode, was : Limits, ask : Given \cup {Null}] \cup [step : {"assign"}, plan : PlanCode]
ASSUME NullAssumption == Null \notin PlanRows \cup Creates \cup AboutPlans

LimitOn(p, r) == IF planRow[p] = Null THEN Null ELSE planRow[p].limits[r]
Higher(a, b) == IF Null \in {a, b} THEN Null ELSE IF a > b THEN a ELSE b

At(m, step) == maker[m] # Null /\ maker[m].step = step
Holding(f, step) == officer[f] # Null /\ officer[f].step = step
(* The plan of the tenant, or the one a create read as such before it changed. *)
InForce(p) == p = onPlan \/ \E m \in Maker : At(m, "limit") /\ maker[m].plan = p
(* The ceilings once the tenant is on plan p with these rows. *)
Raised(rows, p) == [r \in Resource |-> Higher(ceiling[r], IF rows[p] = Null THEN Null ELSE rows[p].limits[r])]

PlansInit ==
    \E l \in Limits :
        /\ planRow = [p \in PlanCode |-> IF p = FreePlan THEN [active |-> TRUE, limits |-> l] ELSE Null]
        /\ meant = [p \in PlanCode |-> IF p = FreePlan THEN l ELSE Null]
        /\ onPlan = FreePlan /\ ceiling = l
        /\ used = [r \in Resource |-> 0]
        /\ maker = [m \in Maker |-> Null] /\ officer = [f \in Officer |-> Null]
        /\ rushed = FALSE /\ mingled = FALSE

-----------------------------------------------------------------------------
(* assertWithinPlan, then the row of the caller: a member, a product, a warehouse, an order. *)
ReadPlan(m, r) ==
    /\ maker[m] = Null
    /\ maker' = [maker EXCEPT ![m] = [step |-> "limit", of |-> r, plan |-> onPlan, limit |-> Null]]
    /\ rushed' = (rushed \/ \E o \in Maker : maker[o] # Null)
    /\ UNCHANGED <<planRow, onPlan, used, officer, ceiling, meant, mingled>>
ReadLimit(m) ==
    /\ At(m, "limit")
    /\ maker' = [maker EXCEPT ![m].step = "count", ![m].limit = LimitOn(maker[m].plan, maker[m].of)]
    /\ UNCHANGED <<planRow, onPlan, used, officer, ceiling, meant, rushed, mingled>>
CountUpTo(m) ==   \* one too many
    /\ At(m, "count") /\ (maker[m].limit # Null => used[maker[m].of] <= maker[m].limit)
    /\ maker' = [maker EXCEPT ![m].step = "create"]
    /\ UNCHANGED <<planRow, onPlan, used, officer, ceiling, meant, rushed, mingled>>
CountUsed(m) ==
    /\ At(m, "count")
    /\ maker[m].limit # Null => used[maker[m].of] < maker[m].limit   \* else PLAN_LIMIT_REACHED
    /\ maker' = [maker EXCEPT ![m].step = "create"]
    /\ UNCHANGED <<planRow, onPlan, used, officer, ceiling, meant, rushed, mingled>>
CreateCounted(m) ==
    /\ At(m, "create") /\ used[maker[m].of] < MaxUsed
    /\ used' = [used EXCEPT ![maker[m].of] = @ + 1]
    /\ maker' = [maker EXCEPT ![m] = Null]
    /\ UNCHANGED <<planRow, onPlan, officer, ceiling, meant, rushed, mingled>>
GiveUp(m) ==
    /\ maker[m] # Null
    /\ maker' = [maker EXCEPT ![m] = Null]
    /\ UNCHANGED <<planRow, onPlan, used, officer, ceiling, meant, rushed, mingled>>
(* A row is deleted, or a new month begins. *)
StopCounting(r) ==
    /\ used[r] > 0
    /\ used' = [used EXCEPT ![r] = @ - 1]
    /\ UNCHANGED <<planRow, onPlan, maker, officer, ceiling, meant, rushed, mingled>>

-----------------------------------------------------------------------------
(* The requests of platform admins *)
CreatePlan(p, limits) ==
    /\ planRow[p] = Null
    /\ planRow' = [planRow EXCEPT ![p] = [active |-> TRUE, limits |-> limits]]
    /\ meant' = [meant EXCEPT ![p] = limits]
    /\ UNCHANGED <<onPlan, used, maker, officer, ceiling, rushed, mingled>>

(* update: the row is read; the limits given (of some resources, or Null: none are) are laid over what was read. *)
ReadPlanRow(f, p, ask) ==
    /\ officer[f] = Null /\ planRow[p] # Null
    /\ officer' = [officer EXCEPT ![f] = [step |-> "update", plan |-> p, was |-> planRow[p].limits, ask |-> ask]]
    /\ mingled' = (mingled \/ \E o \in Officer : officer[o] # Null)
    /\ UNCHANGED <<planRow, onPlan, used, maker, ceiling, meant, rushed>>
PutOver(ask, was) == [r \in Resource |-> IF r \in DOMAIN ask THEN ask[r] ELSE was[r]]
PutAlone(ask, was) == [r \in Resource |-> IF r \in DOMAIN ask THEN ask[r] ELSE Null]
MergeLimits(ask, was) == PutOver(ask, was)
UpdatePlan(f, active) ==
    LET p == officer[f].plan
        given == officer[f].ask # Null
        rows == [planRow EXCEPT ![p] = [active |-> active, limits |-> IF given THEN MergeLimits(officer[f].ask, officer[f].was) ELSE @.limits]]
    IN /\ Holding(f, "update")
       /\ planRow' = rows
       /\ ceiling' = IF InForce(p) THEN Raised(rows, p) ELSE ceiling
       /\ meant' = IF given THEN [meant EXCEPT ![p] = PutOver(officer[f].ask, @)] ELSE meant
       /\ officer' = [officer EXCEPT ![f] = Null]
       /\ UNCHANGED <<onPlan, used, maker, rushed, mingled>>

(* assignPlan: assertAssignablePlan, then the tenant's row. *)
AssertAssignablePlan(f, p) ==
    /\ officer[f] = Null /\ planRow[p] # Null /\ planRow[p].active
    /\ officer' = [officer EXCEPT ![f] = [step |-> "assign", plan |-> p]]
    /\ UNCHANGED <<planRow, onPlan, used, maker, ceiling, meant, rushed, mingled>>
AssignPlan(f) ==
    /\ Holding(f, "assign")
    /\ onPlan' = officer[f].plan
    /\ ceiling' = Raised(planRow, officer[f].plan)
    /\ officer' = [officer EXCEPT ![f] = Null]
    /\ UNCHANGED <<planRow, used, maker, meant, rushed, mingled>>

CreatesNext ==
    \/ \E m \in Maker : \/ \E r \in Resource : ReadPlan(m, r)
                        \/ ReadLimit(m) \/ CountUsed(m) \/ CreateCounted(m) \/ GiveUp(m)
    \/ \E r \in Resource : StopCounting(r)
OfficerNext(f) ==
    \/ \E p \in PlanCode : \/ AssertAssignablePlan(f, p) \/ ReadPlanRow(f, p, Null)
                           \/ \E some \in SUBSET Resource, limits \in Limits :
                                ReadPlanRow(f, p, [r \in some |-> limits[r]])
    \/ AssignPlan(f) \/ \E active \in BOOLEAN : UpdatePlan(f, active)
PlansNext ==
    \/ CreatesNext
    \/ \E p \in PlanCode, limits \in Limits : CreatePlan(p, limits)
    \/ \E f \in Officer : OfficerNext(f)

PlansSpec == PlansInit /\ [][PlansNext]_planVars

-----------------------------------------------------------------------------
(* Plans, counts and requests have the values of the code. *)
PlansTypeOK ==
    /\ planRow \in [PlanCode -> PlanRows \cup {Null}]
    /\ maker \in [Maker -> Creates \cup {Null}] /\ officer \in [Officer -> AboutPlans \cup {Null}]
    /\ onPlan \in PlanCode /\ used \in [Resource -> 0..MaxUsed] /\ ceiling \in Limits
    /\ rushed \in BOOLEAN /\ mingled \in BOOLEAN

(* "Soft limit: two concurrent creates at the boundary can both pass" (plans.service.js:45): so many creates
   at once, so many rows less one above the highest limit that was in force, and none while they take turns. *)
SoftLimit ==
    \A r \in Resource : ceiling[r] # Null =>
        used[r] <= ceiling[r] + (IF rushed THEN Cardinality(Maker) - 1 ELSE 0)

(* A plan's limits are what was asked for last, whatever an update leaves out (plans.service.js:89), while updates
   do not overlap. *)
LimitsKeptInTurn == mingled \/ \A p \in PlanCode : planRow[p] # Null => planRow[p].limits = meant[p]

(* The same for overlapping updates, which TLC refutes: the second writes back what the first changed. *)
LimitsKept == \A p \in PlanCode : planRow[p] # Null => planRow[p].limits = meant[p]

=============================================================================
