-------------------------------- MODULE Access --------------------------------
(* Who may do what: the roles of users (users.service.ts, rbac.service.ts),  *)
(* the guard of the platform's routes (platform-role.guard.ts), the members  *)
(* of a merchant, and the seed that provisions roles and the first super     *)
(* administrator at every deployment (prisma/seed.ts).                       *)
EXTENDS Integers, Sequences, FiniteSets

CONSTANTS
    Requests,      \* requests in flight at most
    Users,         \* users; one of them is named by SUPER_ADMIN_EMAIL
    Bootstrap,     \* that user
    Tenants,       \* merchants
    Seeders,       \* instances that run the seed as they start
    Asked,         \* names of platform roles a request asks for
    MaxCopies,     \* bound: UserRole rows of one user, role and scope
    MaxRows,       \* bound: users, roles and scopes that have a row
    MaxDenials     \* bound: audit rows of refusals

VARIABLES
    row,           \* number of UserRole rows per user, role and scope
    asked,         \* <<user, role asked for>>: platform roles assigned and kept
    member,        \* TenantUser rows: the role of each user in each merchant
    account,       \* the account of each user: whose password it has
    seeded,        \* parts of the core configuration that were upserted
    sample,        \* the sample merchant: created, and filled
    seeder,        \* where each running seed is, and what it read
    crashed,       \* a seed died on its way
    refused, audited,  \* requests the guard turned away; audit rows of those
    solo,          \* requests and seeds do not overlap in this behaviour
    call           \* what each request read and has still to write

roleVars == <<row, asked, member, refused, audited>>
seedVars == <<account, seeded, sample, seeder, crashed>>

Idle == [op |-> "idle"]
Alone == solo => /\ \A r \in Requests : call[r] = Idle
                 /\ \A s \in Seeders : seeder[s].at \in {"off", "done"}
Free(q) == call[q] = Idle /\ Alone
Begin(q, c) == Free(q) /\ call' = [call EXCEPT ![q] = c]
Go(q, c) == call' = [call EXCEPT ![q] = c]
End(q) == call' = [call EXCEPT ![q] = Idle]
Is(q, op) == call[q].op = op

Roles == {"super_admin", "platform_operator", "operations", "support"}
Platform == "platform"       \* the scope of a row whose tenantId is null
Scopes == Tenants \cup {Platform}

-----------------------------------------------------------------------------
(* rbac.service.ts *)

UserHasRole(u, r, scope) == row[<<u, r, scope>>] > 0
RoleExists == "roles" \in seeded
\* The key on user, role and tenant does not bind rows without a tenant.
CanStore(u, r, scope) ==
    /\ RoleExists
    /\ Cardinality({k \in DOMAIN row : row[k] > 0}) < MaxRows
    /\ IF scope = Platform THEN row[<<u, r, scope>>] < MaxCopies
                           ELSE ~UserHasRole(u, r, scope)

-----------------------------------------------------------------------------
(* The guard of the platform's routes *)

SameRoles(roles) == roles
DatabaseRoles(roles) ==
    roles \cup (IF "support_agent" \in roles THEN {"support"} ELSE {})
PassesGuard(u, roles) == \E r \in DatabaseRoles(roles) \cap Roles : UserHasRole(u, r, Platform)

\* A refusal is audited before the request fails.
Gate(q, u, roles, next) ==
    /\ IF PassesGuard(u, roles)
       THEN Begin(q, next) /\ UNCHANGED refused
       ELSE /\ refused < MaxDenials
            /\ Begin(q, [op |-> "deny"])
            /\ refused' = refused + 1
    /\ UNCHANGED <<row, asked, member, audited>>
Unaudited(q) ==
    End(q) /\ UNCHANGED roleVars
Deny(q) ==
    /\ audited' = audited + 1
    /\ End(q)
    /\ UNCHANGED <<row, asked, member, refused>>

-----------------------------------------------------------------------------
(* Roles are assigned and removed by super administrators *)

Stored(r) == IF r = "support_agent" THEN "support" ELSE r

RequestAssign(q, admin, u, r, scope) ==
    Gate(q, admin, {"super_admin"},
         [op |-> IF scope = Platform THEN "check" ELSE "assign",
          admin |-> admin, u |-> u, role |-> r, scope |-> scope])
\* A platform role is given by whoever is still a super administrator.
CheckAdmin(q) ==
    /\ IF UserHasRole(call[q].admin, "super_admin", Platform)
       THEN Go(q, [call[q] EXCEPT !.op = IF @ = "check" THEN "assign" ELSE "remove"])
       ELSE End(q)
    /\ UNCHANGED roleVars
\* assignUserRoles maps the name asked for; inviteUser stores it as it came.
AssignRole(q) ==
    LET c == call[q]
        r == IF c.scope = Platform THEN Stored(c.role) ELSE c.role
    IN  /\ IF r \in Roles /\ CanStore(c.u, r, c.scope)
           THEN /\ row' = [row EXCEPT ![<<c.u, r, c.scope>>] = @ + 1]
                /\ asked' = IF c.scope = Platform
                            THEN asked \cup {<<c.u, c.role>>} ELSE asked
           ELSE UNCHANGED <<row, asked>>
        /\ End(q)
        /\ UNCHANGED <<member, refused, audited>>
RequestRemove(q, admin, u, scope) ==
    Gate(q, admin, {"super_admin"},
         [op |-> IF scope = Platform THEN "recheck" ELSE "remove",
          admin |-> admin, u |-> u, scope |-> scope])
\* removeUser deletes every row of the user in that scope.
RemoveUser(q) ==
    LET c == call[q] IN
    /\ row' = [k \in DOMAIN row |->
                 IF k[1] = c.u /\ k[3] = c.scope THEN 0 ELSE row[k]]
    /\ asked' = IF c.scope = Platform THEN {a \in asked : a[1] # c.u} ELSE asked
    /\ End(q)
    /\ UNCHANGED <<member, refused, audited>>

\* The dashboard's list of merchants: a reviewer sees those under review only.
DashboardAccess(u) ==
    IF PassesGuard(u, {"super_admin", "platform_operator"}) THEN "manager"
    ELSE IF PassesGuard(u, {"operations"}) THEN "app-reviewer" ELSE "none"

-----------------------------------------------------------------------------
(* Members of a merchant *)

AddMember(q, t, u, r) ==
    /\ member[<<t, u>>] = "none"
    /\ Begin(q, [op |-> "join", t |-> t, u |-> u, role |-> r])
    /\ UNCHANGED roleVars
CreateMember(q) ==
    LET k == <<call[q].t, call[q].u>> IN
    /\ member' = [member EXCEPT ![k] = IF @ = "none" THEN call[q].role ELSE @]
    /\ End(q)
    /\ UNCHANGED <<row, asked, refused, audited>>
RemoveMember(t, u) ==
    /\ member[<<t, u>>] # "none"
    /\ member' = [member EXCEPT ![<<t, u>>] = "none"]
    /\ UNCHANGED <<row, asked, refused, audited, call>>
\* resolveTenantId: an owner's merchant before a manager's.
ResolveTenant(u) ==
    LET of(r) == {t \in Tenants : member[<<t, u>>] = r}
    IN  IF of("owner") # {} THEN of("owner") ELSE of("manager")

RoleNext ==
    /\ \/ \E q \in Requests : \E a \in Users : \E u \in Users : \E r \in Asked :
             \E scope \in Scopes : RequestAssign(q, a, u, r, scope)
       \/ \E q \in Requests : \E a \in Users : \E u \in Users :
             \E scope \in Scopes : RequestRemove(q, a, u, scope)
       \/ \E q \in Requests : Is(q, "deny") /\ Deny(q)
       \/ \E q \in Requests : (Is(q, "check") \/ Is(q, "recheck")) /\ CheckAdmin(q)
       \/ \E q \in Requests : Is(q, "assign") /\ AssignRole(q)
       \/ \E q \in Requests : Is(q, "remove") /\ RemoveUser(q)
    /\ UNCHANGED <<seedVars, solo>>
MemberNext ==
    /\ \/ \E q \in Requests : \E t \in Tenants : \E u \in Users :
             \E r \in {"owner", "manager", "staff"} : AddMember(q, t, u, r)
       \/ \E q \in Requests : Is(q, "join") /\ CreateMember(q)
       \/ \E t \in Tenants : \E u \in Users : RemoveMember(t, u)
    /\ UNCHANGED <<seedVars, solo>>

-----------------------------------------------------------------------------
(* The seed.  Every part of the core configuration is upserted. *)

Move(s, at) == seeder' = [seeder EXCEPT ![s] = [at |-> at, read |-> "none"]]
Read(s, at, found) == seeder' = [seeder EXCEPT ![s] = [at |-> at, read |-> found]]

StartSeed(s) ==
    /\ seeder[s].at = "off" /\ Alone
    /\ Move(s, "roles")
    /\ UNCHANGED <<account, seeded, sample, crashed, row>>
Following(at) == CASE at = "roles" -> "permissions" [] at = "permissions" -> "grants"
              [] at = "grants" -> "admin" [] at = "catalog" -> "sample"
UpsertCore(s) ==
    /\ seeder[s].at \in {"roles", "permissions", "grants", "catalog"}
    /\ seeded' = seeded \cup {seeder[s].at}
    /\ Move(s, Following(seeder[s].at))
    /\ UNCHANGED <<account, sample, crashed, row>>
FindAdmin(s) ==
    /\ seeder[s].at = "admin"
    /\ Read(s, "provision", account[Bootstrap])
    /\ UNCHANGED <<account, seeded, sample, crashed, row>>
ResetAdmin(s) ==
    /\ seeder[s].at = "provision"
    /\ account' = [account EXCEPT ![Bootstrap] = "seed"]
    /\ Move(s, "find")
    /\ UNCHANGED <<crashed, seeded, sample, row>>
\* A second account with that e-mail is refused by its key, and the seed dies.
ProvisionAdmin(s) ==
    /\ seeder[s].at = "provision"
    /\ IF seeder[s].read = "none" /\ account[Bootstrap] # "none"
       THEN Move(s, "off") /\ crashed' = TRUE /\ UNCHANGED account
       ELSE /\ account' = IF seeder[s].read \in {"none", "blank"}
                          THEN [account EXCEPT ![Bootstrap] = "seed"] ELSE account
            /\ Move(s, "find")
            /\ UNCHANGED crashed
    /\ UNCHANGED <<seeded, sample, row>>
FindAdminRole(s) ==
    /\ seeder[s].at = "find"
    /\ Move(s, IF UserHasRole(Bootstrap, "super_admin", Platform)
               THEN "catalog" ELSE "grant")
    /\ UNCHANGED <<account, seeded, sample, crashed, row>>
GrantAdmin(s) ==
    /\ seeder[s].at = "grant"
    /\ CanStore(Bootstrap, "super_admin", Platform)
    /\ row' = [row EXCEPT ![<<Bootstrap, "super_admin", Platform>>] = @ + 1]
    /\ Move(s, "catalog")
    /\ UNCHANGED <<account, seeded, sample, crashed>>
FindSample(s) ==
    /\ seeder[s].at = "sample"
    /\ Move(s, IF sample = "none" THEN "tenant" ELSE "done")
    /\ UNCHANGED <<account, seeded, sample, crashed, row>>
CreateSample(s) ==
    /\ seeder[s].at = "tenant"
    /\ IF sample # "none"
       THEN Move(s, "off") /\ crashed' = TRUE /\ UNCHANGED sample
       ELSE sample' = "bare" /\ Move(s, "fill") /\ UNCHANGED crashed
    /\ UNCHANGED <<account, seeded, row>>
FillSample(s) ==
    /\ seeder[s].at = "fill"
    /\ sample' = "whole"
    /\ Move(s, "done")
    /\ UNCHANGED <<account, seeded, crashed, row>>
Crash(s) ==
    /\ seeder[s].at \notin {"off", "done"}
    /\ Move(s, "off") /\ crashed' = TRUE
    /\ UNCHANGED <<account, seeded, sample, row>>

\* The owner of an account sets its password; an account without one signed
\* up through a provider.
OwnPassword(u) ==
    /\ Alone
    /\ account' = [account EXCEPT ![u] = "own"]
    /\ UNCHANGED <<seeded, sample, seeder, crashed, row>>
SignUp(u) ==
    /\ Alone /\ account[u] = "none"
    /\ account' = [account EXCEPT ![u] = "blank"]
    /\ UNCHANGED <<seeded, sample, seeder, crashed, row>>

SeedNext ==
    /\ \/ \E s \in Seeders :
             \/ StartSeed(s) \/ UpsertCore(s) \/ FindAdmin(s) \/ ProvisionAdmin(s)
             \/ FindAdminRole(s) \/ GrantAdmin(s) \/ FindSample(s)
             \/ CreateSample(s) \/ FillSample(s) \/ Crash(s)
       \/ \E u \in Users : OwnPassword(u) \/ SignUp(u)
    /\ UNCHANGED <<asked, member, refused, audited, solo, call>>

-----------------------------------------------------------------------------
\* The first deployment was seeded, or nothing was.
Init ==
    /\ seeded \in {{}, {"roles", "permissions", "grants", "catalog"}}
    /\ row = [k \in Users \X Roles \X Scopes |->
                IF seeded # {} /\ k = <<Bootstrap, "super_admin", Platform>>
                THEN 1 ELSE 0]
    /\ account = [u \in Users |-> IF seeded # {} /\ u = Bootstrap
                                  THEN "seed" ELSE "none"]
    /\ asked = {}
    /\ member = [k \in Tenants \X Users |-> "none"]
    /\ sample = "none"
    /\ seeder = [s \in Seeders |-> [at |-> "off", read |-> "none"]]
    /\ crashed = FALSE
    /\ refused = 0 /\ audited = 0
    /\ solo \in BOOLEAN
    /\ call = [q \in Requests |-> Idle]

AccessNext == RoleNext \/ MemberNext \/ SeedNext
Spec == Init /\ [][AccessNext]_<<roleVars, seedVars, solo, call>>

-----------------------------------------------------------------------------
TypeOK ==
    /\ row \in [Users \X Roles \X Scopes -> 0..MaxCopies]
    /\ asked \subseteq Users \X Asked
    /\ member \in [Tenants \X Users -> {"none", "owner", "manager", "staff"}]
    /\ account \in [Users -> {"none", "blank", "own", "seed"}]
    /\ sample \in {"none", "bare", "whole"}
    /\ audited \in 0..refused
    /\ refused = audited + Cardinality({q \in Requests : Is(q, "deny")})

\* A platform role that was assigned opens the routes that ask for it by the
\* name it was assigned under, until it is removed; "Operations is
\* app-review-only and must never satisfy a platform_operator guard"; one who
\* has no other role is shown the merchants under review and nothing else.
GrantsOpenTheirRoutes ==
    /\ \A a \in asked : PassesGuard(a[1], {a[2]})
    /\ \A u \in Users :
         LET held == {r \in Roles : UserHasRole(u, r, Platform)} IN
         /\ held = {"operations"} =>
               ~PassesGuard(u, {"platform_operator"}) /\ DashboardAccess(u) = "app-reviewer"
         /\ DashboardAccess(u) = "manager" =>
               held \cap {"super_admin", "platform_operator"} # {}
    /\ \A u \in Users : \A t \in ResolveTenant(u) : member[<<t, u>>] # "staff"

\* "Never reset an existing account's password during a seed or app restart"
\* (while nothing overlaps), however often the seed dies and runs again.
PasswordsKept ==
    [][solo => \A u \in Users : account[u] = "own" => account'[u] = "own"]_account

\* Unless a seed died on its way, the sample merchant is filled.
SampleWhole ==
    sample = "bare" => crashed \/ \E s \in Seeders : seeder[s].at = "fill"
=============================================================================
