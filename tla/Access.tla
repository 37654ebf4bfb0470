------------------------------- MODULE Access -------------------------------
(***************************************************************************)
(* Who may do what in one tenant: roles, their permissions and holders     *)
(* (RoleService, UserService), and the permission cache that authorize     *)
(* fills from them.                                                        *)
(*                                                                         *)
(* A change commits and only then deletes the cache entries it made stale; *)
(* Redis may be away, and then the delete is skipped with a warning.  A    *)
(* fill reads the user's roles, then their permissions, then stores the    *)
(* result, and a change may commit at any point between.  Entries that     *)
(* such a race or a lost delete may have left stale are marked suspect.    *)
(***************************************************************************)
EXTENDS Naturals, FiniteSets

CONSTANTS
    Member, Role, Permission,
    AdminRole,   \* the tenant's system role "admin"
    Request,     \* requests that fill the cache
    Manager,     \* requests that change roles
    MaxEdits,    \* bound on the changes
    NoEntry

ASSUME AdminRoleAssumption == AdminRole \in Role
ASSUME MaxEditsAssumption == MaxEdits \in Nat

VARIABLES
    member,    \* users with an active membership
    roles,     \* roles that exist
    holds,     \* user_roles
    grants,    \* role_permissions
    cache,     \* permissions:user:<id>, per user
    fill,      \* fills in progress
    pending,   \* per change that committed: the users whose entries it has yet to delete
    removing,  \* admin-role removals that have counted the holders
    contested, \* two such removals overlapped, or a user with the role was deleted
    edits

accessVars == <<member, roles, holds, grants, cache, fill, pending, removing, contested, edits>>

Entries == [permissions : SUBSET Permission, suspect : BOOLEAN]
Fills == [of : Member, roles : SUBSET Role, overtaken : BOOLEAN]
ASSUME NoEntryAssumption == NoEntry \notin Member \cup Entries \cup Fills

RolesOf(m) == {r \in Role : <<m, r>> \in holds}
PermissionsOf(R) == {p \in Permission : \E r \in R : <<r, p>> \in grants}
Holders(r) == {m \in Member : <<m, r>> \in holds}

AccessInit ==
    /\ member = Member /\ roles = Role
    /\ \E A \in (SUBSET Member) \ {{}} : holds = (A \X {AdminRole}) \cup ((Member \ A) \X (Role \ {AdminRole}))
    /\ grants = {<<AdminRole, p>> : p \in Permission}
    /\ cache = [m \in Member |-> NoEntry]
    /\ fill = [q \in Request |-> NoEntry]
    /\ pending = [a \in Manager |-> {}]
    /\ removing = [a \in Manager |-> NoEntry]
    /\ contested = FALSE /\ edits = 0

-----------------------------------------------------------------------------
(* getUserPermissions on a miss: the user's roles; their permissions, unless there are none; the entry. *)
ReadUserRoles(q, m) ==
    /\ fill[q] = NoEntry /\ m \in member /\ cache[m] = NoEntry
    /\ fill' = [fill EXCEPT ![q] = [of |-> m, roles |-> RolesOf(m), overtaken |-> FALSE]]
    /\ UNCHANGED <<member, roles, holds, grants, cache, pending, removing, contested, edits>>
(* Reading the permissions and storing them are one step here: a change between them overtakes
   the fill just as one between the two reads does. *)
SetUserPermissions(q) ==
    /\ fill[q] # NoEntry
    /\ cache' = [cache EXCEPT ![fill[q].of] =
                    [permissions |-> PermissionsOf(fill[q].roles), suspect |-> fill[q].overtaken]]
    /\ fill' = [fill EXCEPT ![q] = NoEntry]
    /\ UNCHANGED <<member, roles, holds, grants, pending, removing, contested, edits>>
(* Redis does not take it, or the request dies. *)
LoseFill(q) ==
    /\ fill[q] # NoEntry
    /\ fill' = [fill EXCEPT ![q] = NoEntry]
    /\ UNCHANGED <<member, roles, holds, grants, cache, pending, removing, contested, edits>>
(* CACHE_TTL.PERMISSIONS_USER: five minutes. *)
KeepEntry(m) ==
    /\ cache[m] # NoEntry /\ m \notin Member
    /\ UNCHANGED accessVars
ExpireEntry(m) ==
    /\ cache[m] # NoEntry
    /\ cache' = [cache EXCEPT ![m] = NoEntry]
    /\ UNCHANGED <<member, roles, holds, grants, fill, pending, removing, contested, edits>>

-----------------------------------------------------------------------------
(* What a committed change leaves to do: delete the entries of M.  Fills in progress are overtaken. *)
Commit(a, M) ==
    /\ pending[a] = {} /\ edits < MaxEdits
    /\ edits' = edits + 1
    /\ pending' = [pending EXCEPT ![a] = M]
    /\ fill' = [q \in Request |-> IF fill[q] = NoEntry \/ fill[q].of \notin M THEN fill[q]
                                  ELSE [fill[q] EXCEPT !.overtaken = TRUE]]

(* UserService.assignRoles. *)
AssignRole(a, m, r) ==
    /\ m \in member /\ r \in roles /\ <<m, r>> \notin holds
    /\ holds' = holds \cup {<<m, r>>}
    /\ Commit(a, {m})
    /\ UNCHANGED <<member, roles, grants, cache, removing, contested>>

(* UserService.removeRole; for the admin role it counts the holders before it deletes. *)
RemoveRole(a, m, r) ==
    /\ m \in member /\ <<m, r>> \in holds /\ r # AdminRole
    /\ holds' = holds \ {<<m, r>>}
    /\ Commit(a, {m})
    /\ UNCHANGED <<member, roles, grants, cache, removing, contested>>
CountNobody(a, m) ==
    /\ m \in member /\ removing[a] = NoEntry /\ pending[a] = {}
    /\ removing' = [removing EXCEPT ![a] = m]
    /\ contested' = (contested \/ ~\A b \in Manager : removing[b] = NoEntry)
    /\ UNCHANGED <<member, roles, holds, grants, cache, fill, pending, edits>>
CountHolders(a, m) ==
    /\ m \in member /\ removing[a] = NoEntry /\ pending[a] = {}
    /\ Cardinality(Holders(AdminRole)) > 1
    /\ removing' = [removing EXCEPT ![a] = m]
    /\ contested' = (contested \/ ~\A b \in Manager : removing[b] = NoEntry)
    /\ UNCHANGED <<member, roles, holds, grants, cache, fill, pending, edits>>
RemoveAdminRole(a) ==
    /\ removing[a] # NoEntry /\ <<removing[a], AdminRole>> \in holds
    /\ holds' = holds \ {<<removing[a], AdminRole>>}
    /\ Commit(a, {removing[a]})
    /\ removing' = [removing EXCEPT ![a] = NoEntry]
    /\ UNCHANGED <<member, roles, grants, cache, contested>>

(* It has no such role any more, or the request dies. *)
RemoveNothing(a) ==
    /\ removing[a] # NoEntry
    /\ removing' = [removing EXCEPT ![a] = NoEntry]
    /\ UNCHANGED <<member, roles, holds, grants, cache, fill, pending, contested, edits>>

(* RoleService.create, delete, assignPermissions, replacePermissions, removePermission: never on a
   system role, and for every user of the tenant. *)
CreateRole(r) ==
    /\ r \notin roles
    /\ roles' = roles \cup {r}
    /\ UNCHANGED <<member, holds, grants, cache, fill, pending, removing, contested, edits>>
DeleteRoleOnly(a, r) ==
    /\ r \in roles \ {AdminRole}
    /\ roles' = roles \ {r}
    /\ Commit(a, Member)
    /\ UNCHANGED <<member, holds, grants, cache, removing, contested>>
DeleteRole(a, r) ==
    /\ r \in roles \ {AdminRole}
    /\ roles' = roles \ {r}
    /\ holds' = {h \in holds : h[2] # r}
    /\ grants' = {g \in grants : g[1] # r}
    /\ Commit(a, Member)
    /\ UNCHANGED <<member, cache, removing, contested>>
ReplaceForNobody(a, r, P) ==
    /\ r \in roles \ {AdminRole}
    /\ grants' = {g \in grants : g[1] # r} \cup {<<r, p>> : p \in P}
    /\ Commit(a, {})
    /\ UNCHANGED <<member, roles, holds, cache, removing, contested>>
ReplacePermissions(a, r, P) == \* P: what assign, replace or remove leaves the role
    /\ r \in roles \ {AdminRole} /\ P # PermissionsOf({r})
    /\ grants' = {g \in grants : g[1] # r} \cup {<<r, p>> : p \in P}
    /\ Commit(a, Member)
    /\ UNCHANGED <<member, roles, holds, cache, removing, contested>>

(* cache.del and delByPattern. *)
Invalidate(a) ==
    /\ pending[a] # {}
    /\ cache' = [m \in Member |-> IF m \in pending[a] THEN NoEntry ELSE cache[m]]
    /\ pending' = [pending EXCEPT ![a] = {}]
    /\ UNCHANGED <<member, roles, holds, grants, fill, removing, contested, edits>>
(* Redis is away, or the server stops. *)
InvalidationLost(a) ==
    /\ pending[a] # {}
    /\ cache' = [m \in Member |-> IF m \notin pending[a] \/ cache[m] = NoEntry THEN cache[m]
                                  ELSE [cache[m] EXCEPT !.suspect = TRUE]]
    /\ pending' = [pending EXCEPT ![a] = {}]
    /\ UNCHANGED <<member, roles, holds, grants, fill, removing, contested, edits>>

(* UserService.delete: the roles go with the user; nothing looks at who is left, or at the cache. *)
DeleteMember(m) ==
    /\ m \in member
    /\ member' = member \ {m}
    /\ holds' = {h \in holds : h[1] # m}
    /\ contested' = (contested \/ <<m, AdminRole>> \in holds)
    /\ UNCHANGED <<roles, grants, cache, fill, pending, removing, edits>>

AccessNext ==
    \/ \E q \in Request : SetUserPermissions(q) \/ LoseFill(q) \/ \E m \in Member : ReadUserRoles(q, m)
    \/ \E m \in Member : ExpireEntry(m) \/ DeleteMember(m)
    \/ \E r \in Role : CreateRole(r)
    \/ \E a \in Manager :
        \/ Invalidate(a) \/ InvalidationLost(a) \/ RemoveAdminRole(a) \/ RemoveNothing(a)
        \/ \E m \in Member : CountHolders(a, m) \/ \E r \in Role : AssignRole(a, m, r) \/ RemoveRole(a, m, r)
        \/ \E r \in Role : DeleteRole(a, r) \/ \E P \in SUBSET Permission : ReplacePermissions(a, r, P)

AccessSpec == AccessInit /\ [][AccessNext]_accessVars

-----------------------------------------------------------------------------
(* Members, roles, assignments, grants, entries and requests have the values of the schema; nobody
   holds, and nothing is granted to, a role that is gone. *)
AccessTypeOK ==
    /\ member \subseteq Member /\ roles \subseteq Role
    /\ holds \subseteq member \X roles
    /\ grants \subseteq roles \X Permission
    /\ cache \in [Member -> Entries \cup {NoEntry}]
    /\ fill \in [Request -> Fills \cup {NoEntry}]
    /\ pending \in [Manager -> SUBSET Member]
    /\ removing \in [Manager -> Member \cup {NoEntry}]
    /\ contested \in BOOLEAN /\ edits \in 0..MaxEdits

(* authorize decides by what the user is granted: an entry that no race or lost delete made suspect
   is the user's permissions, or about to be deleted (getUserPermissions, authorization.middleware.js:94). *)
CacheTellsTheTruth ==
    \A m \in member :
        cache[m] # NoEntry /\ ~cache[m].suspect =>
            \/ cache[m].permissions = PermissionsOf(RolesOf(m))
            \/ \E a \in Manager : m \in pending[a]

(* "Never leave a tenant without anyone holding the admin role" (users.service.js:211): true while
   removals do not overlap and no admin is deleted. *)
SomebodyIsAdmin == Holders(AdminRole) = {} => contested

(* Whatever the cache got wrong passes: once roles stop changing, what is cached becomes what is
   granted, because entries expire (CACHE_TTL.PERMISSIONS_USER). *)
CacheComesRight ==
    <>[](\A m \in member : cache[m] # NoEntry => cache[m].permissions = PermissionsOf(RolesOf(m)))

=============================================================================
