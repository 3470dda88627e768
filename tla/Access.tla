-------------------------------- MODULE Access --------------------------------
(***************************************************************************)
(* Who may act, and in which tenant: logins and their signed claims, the   *)
(* tenant a request runs in, user administration, the registration of      *)
(* tenants, and the single-use tickets that open a device shell.           *)
(***************************************************************************)
EXTENDS Naturals, FiniteSets

CONSTANTS Users, Tenants, Devices, None,
          Home,        \* the tenant whose schema holds a device's row
          MaxTickets,  \* tickets issued in a behaviour (bound)
          MaxSessions, \* claims signed and not expired (bound)
          MaxBoots     \* restarts in a behaviour (bound)

ASSUME AccessAssumption ==
    /\ Home \in [Devices -> Tenants] /\ None \notin Tenants
    /\ IsFiniteSet(Users) /\ Users # {} /\ IsFiniteSet(Tenants)
    /\ MaxTickets \in Nat /\ MaxSessions \in Nat /\ MaxBoots \in Nat

VARIABLES
    up,         \* the controller runs
    tenant,     \* rows of tenants and the state of their schemas
    user,       \* rows of users
    claims,     \* signed claims that have not expired (24 hours)
    passed,     \* user requests between the last-admin check and the write
    ticket,     \* authtickets.Store: lost in a restart
    issued, shells, boots

vars == <<up, tenant, user, claims, passed, ticket, issued, shells, boots>>

Roles == {"SUPERADMIN", "ADMIN", "VIEWER"}
Alias == Tenants \cup {None}
Ids == 1..MaxTickets

\* born orders the rows by created_at; registering: RegisterTenant is between
\* the row and the migrations; stuck: the migrations failed and the row stayed
\* (history).
Tenant == [row : BOOLEAN, active : BOOLEAN, born : Nat, ready : BOOLEAN, registering : BOOLEAN,
           stuck : BOOLEAN]
User == [role : Roles, tenant : Alias]
Claims == [user : Users, role : Roles, alias : Alias]
Ticket == [device : Devices, tenant : Tenants, by : Claims, used : BOOLEAN, live : BOOLEAN]
Change == [user : Users, role : Roles \cup {None}]    \* None: delete

TypeOK ==
    /\ up \in BOOLEAN
    /\ tenant \in [Tenants -> Tenant]
    /\ user \in [Users -> User \cup {None}]
    /\ claims \subseteq Claims /\ passed \subseteq Change
    /\ ticket \in [Ids -> Ticket \cup {None}]
    /\ issued \in 0..MaxTickets /\ boots \in 0..MaxBoots
    /\ \A s \in shells : s \in [ticket : Ids, device : Devices, tenant : Tenants,
                                by : Claims, nth : Nat]

NoTenant == [row |-> FALSE, active |-> FALSE, born |-> 0, ready |-> FALSE, registering |-> FALSE,
             stuck |-> FALSE]

\* The oldest tenant and its users; users are bound to tenants outside the API.
Init ==
    /\ up = TRUE
    /\ \E t \in Tenants :
         /\ tenant = [x \in Tenants |-> IF x = t
                        THEN [NoTenant EXCEPT !.row = TRUE, !.active = TRUE, !.born = 1, !.ready = TRUE]
                        ELSE NoTenant]
         /\ user \in [Users -> {None} \cup [role : Roles, tenant : {None, t}]]
    /\ \E u \in Users : user[u] # None /\ user[u].role = "SUPERADMIN"
    /\ claims = {} /\ passed = {} /\ shells = {}
    /\ ticket = [k \in Ids |-> None] /\ issued = 0 /\ boots = 0

Active(t) == tenant[t].row /\ tenant[t].active

-----------------------------------------------------------------------------
(* WithAuth *)

\* LoginHandler: the binding is signed only while the tenant is enabled.
Login(u) ==
    LET bound == user[u].tenant # None /\ Active(user[u].tenant)
        c == [user |-> u, role |-> user[u].role, alias |-> IF bound THEN user[u].tenant ELSE None]
    IN  /\ up /\ user[u] # None
        /\ c \notin claims /\ Cardinality(claims) < MaxSessions
        /\ claims' = claims \cup {c}
        /\ UNCHANGED <<up, tenant, user, passed, ticket, issued, shells, boots>>

ClaimsExpire(c) ==
    /\ claims' = claims \ {c}
    /\ UNCHANGED <<up, tenant, user, passed, ticket, issued, shells, boots>>

\* Mutant of HeaderAllowed: any role may name a tenant.
AnyHeaderAllowed(c, header) == TRUE

\* Only SUPERADMIN may assume a tenant through the header.
HeaderAllowed(c, header) == c.role = "SUPERADMIN" \/ header \in {None, c.alias}

\* The oldest enabled tenant, for claims without one.
Default ==
    LET active == {t \in Tenants : Active(t)} IN
    IF active = {} THEN None
    ELSE CHOOSE t \in active : \A x \in active : tenant[t].born <= tenant[x].born

Resolve(c, header) ==
    IF header # None THEN header ELSE IF c.alias # None THEN c.alias ELSE Default

\* The tenants a request with these claims and this header runs in: one, or none.
RunsIn(c, header) ==
    {t \in Tenants : HeaderAllowed(c, header) /\ t = Resolve(c, header) /\ Active(t)}

\* RequireAdmin and RequireSuperAdmin read the role that was signed.
RequireAdmin == up /\ \E c \in claims : c.role \in {"ADMIN", "SUPERADMIN"}
RequireSuperAdmin == up /\ \E c \in claims : c.role = "SUPERADMIN"

-----------------------------------------------------------------------------
(* Users *)

CreateUser(u, role) ==
    /\ RequireAdmin /\ user[u] = None /\ role # "SUPERADMIN"
    /\ user' = [user EXCEPT ![u] = [role |-> role, tenant |-> None]]
    /\ UNCHANGED <<up, tenant, claims, passed, ticket, issued, shells, boots>>

Admins == {u \in Users : user[u] # None /\ user[u].role = "ADMIN"}
NotLast(u) == u \in Admins => Cardinality(Admins) > 1

\* UpdateUserRoleHandler up to the write: committed rows are read.
CheckRole(u, role) ==
    /\ RequireAdmin /\ user[u] # None /\ role # "SUPERADMIN"
    /\ role # "ADMIN" => NotLast(u)
    /\ passed' = passed \cup {[user |-> u, role |-> role]}
    /\ UNCHANGED <<up, tenant, user, claims, ticket, issued, shells, boots>>

\* DeleteUserHandler up to the write
CheckDelete(u) ==
    /\ RequireAdmin /\ user[u] # None /\ NotLast(u)
    /\ passed' = passed \cup {[user |-> u, role |-> None]}
    /\ UNCHANGED <<up, tenant, user, claims, ticket, issued, shells, boots>>

\* The write of either, committed.
Write(p) ==
    /\ up /\ p \in passed
    /\ passed' = passed \ {p}
    /\ user' = [user EXCEPT ![p.user] =
                  IF @ = None \/ p.role = None THEN None ELSE [@ EXCEPT !.role = p.role]]
    /\ UNCHANGED <<up, tenant, claims, ticket, issued, shells, boots>>

-----------------------------------------------------------------------------
(* Tenants *)

Born == {tenant[t].born : t \in Tenants}

\* RegisterTenant: the row is committed before its schema exists ...
RegisterTenant(t) ==
    /\ RequireSuperAdmin /\ ~tenant[t].row
    /\ \E n \in 1..Cardinality(Tenants) :
         /\ \A b \in Born : b < n
         /\ tenant' = [tenant EXCEPT ![t] = [row |-> TRUE, active |-> TRUE, born |-> n,
                                             ready |-> @.ready, registering |-> TRUE,
                                             stuck |-> FALSE]]
    /\ UNCHANGED <<up, user, claims, passed, ticket, issued, shells, boots>>

\* ... then the schema is made, or the row goes again, or it stays because the
\* DELETE failed as well, which nobody looks at.
RunTenantMigrations(t) ==
    /\ up /\ tenant[t].registering
    /\ \/ tenant' = [tenant EXCEPT ![t].ready = TRUE, ![t].registering = FALSE]
       \/ tenant' = [tenant EXCEPT ![t].row = FALSE, ![t].active = FALSE, ![t].born = 0,
                                   ![t].registering = FALSE]
       \/ tenant' = [tenant EXCEPT ![t].registering = FALSE, ![t].stuck = TRUE]
    /\ UNCHANGED <<up, user, claims, passed, ticket, issued, shells, boots>>

ToggleTenant(t) ==
    /\ RequireSuperAdmin /\ tenant[t].row
    /\ tenant' = [tenant EXCEPT ![t].active = ~@]
    /\ UNCHANGED <<up, user, claims, passed, ticket, issued, shells, boots>>

-----------------------------------------------------------------------------
(* Tickets *)

\* IssueWSTicketHandler: the device's row is in the tenant the request runs in.
IssueTicket(c, header, d) ==
    /\ up /\ c \in claims /\ issued < MaxTickets
    /\ \E t \in RunsIn(c, header) :
         /\ tenant[t].ready /\ Home[d] = t
         /\ ticket' = [ticket EXCEPT ![issued + 1] =
                [device |-> d, tenant |-> t, by |-> c, used |-> FALSE, live |-> TRUE]]
    /\ issued' = issued + 1
    /\ UNCHANGED <<up, tenant, user, claims, passed, shells, boots>>

\* ConsumeForDevice: checks and mark in one critical section.
Consume(k, d) ==
    /\ ticket[k] # None /\ ~ticket[k].used /\ ticket[k].live /\ ticket[k].device = d
    /\ ticket' = [ticket EXCEPT ![k].used = TRUE]

\* The handshake of a shell: the ticket is gone even if the tenant is disabled.
OpenShell(k, d, header) ==
    /\ up /\ Consume(k, d)
    /\ LET t == ticket[k].tenant
           n == Cardinality({s \in shells : s.ticket = k})
       IN  shells' = IF header \in {None, t} /\ Active(t)
                     THEN shells \cup {[ticket |-> k, device |-> d, tenant |-> t,
                                        by |-> ticket[k].by, nth |-> n + 1]}
                     ELSE shells
    /\ UNCHANGED <<up, tenant, user, claims, passed, issued, boots>>

TicketExpires(k) ==
    /\ ticket[k] # None /\ ticket[k].live
    /\ ticket' = [ticket EXCEPT ![k].live = FALSE]
    /\ UNCHANGED <<up, tenant, user, claims, passed, issued, shells, boots>>

\* gcLocked, by a timer and by Issue
Collect ==
    /\ up /\ \E k \in Ids : ticket[k] # None /\ ~ticket[k].live
    /\ ticket' = [k \in Ids |-> IF ticket[k] # None /\ ticket[k].live THEN ticket[k] ELSE None]
    /\ UNCHANGED <<up, tenant, user, claims, passed, issued, shells, boots>>

-----------------------------------------------------------------------------
(* Restarts *)

Crash ==
    /\ up /\ boots < MaxBoots
    /\ up' = FALSE /\ boots' = boots + 1
    /\ passed' = {} /\ ticket' = [k \in Ids |-> None]
    /\ tenant' = [t \in Tenants |-> [tenant[t] EXCEPT !.registering = FALSE]]
    /\ UNCHANGED <<user, claims, issued, shells>>

Superadmins == {u \in Users : user[u] # None /\ user[u].role = "SUPERADMIN"}

\* seedSuperAdminUser: no user at all gets one, and no SUPERADMIN promotes the
\* user called admin.
SeedSuperAdmin(admin) ==
    user' = IF \A u \in Users : user[u] = None
            THEN [user EXCEPT ![admin] = [role |-> "SUPERADMIN", tenant |-> None]]
            ELSE IF Superadmins = {} /\ admin \in Admins
            THEN [user EXCEPT ![admin].role = "SUPERADMIN"] ELSE user

\* Mutant of MigrateAll: schemas are left as they are.
MigrateNone(ok) == tenant

\* runMigrationsForAllTenants: enabled tenants only; those whose migrations fail
\* are logged and left as they are.
MigrateAll(ok) ==
    [t \in Tenants |->
        IF ~Active(t) THEN tenant[t]
        ELSE [tenant[t] EXCEPT !.ready = @ \/ t \in ok,
                               !.stuck = ~tenant[t].ready /\ t \notin ok]]

\* InitPostgres, with a database that answers
Boot ==
    /\ ~up /\ up' = TRUE
    /\ SeedSuperAdmin(CHOOSE u \in Users : TRUE)
    /\ \E ok \in SUBSET Tenants : tenant' = MigrateAll(ok)
    /\ UNCHANGED <<claims, passed, ticket, issued, shells, boots>>

Next ==
    \/ \E u \in Users : \/ Login(u) \/ CheckDelete(u)
                        \/ \E r \in Roles : CreateUser(u, r) \/ CheckRole(u, r)
    \/ \E p \in passed : Write(p)
    \/ \E c \in claims : \/ ClaimsExpire(c)
                         \/ \E h \in Alias, d \in Devices : IssueTicket(c, h, d)
    \/ \E t \in Tenants : RegisterTenant(t) \/ RunTenantMigrations(t) \/ ToggleTenant(t)
    \/ \E k \in Ids : \/ TicketExpires(k)
                      \/ \E d \in Devices, h \in Alias : OpenShell(k, d, h)
    \/ Collect \/ Crash \/ Boot

\* A request runs on, and the service is restarted.
Fairness == WF_vars(Boot) /\ \A t \in Tenants : WF_vars(RunTenantMigrations(t))

Spec == Init /\ [][Next]_vars /\ Fairness

-----------------------------------------------------------------------------
(* Properties *)

\* A ticket opens at most one shell, to the device it was issued for and in the
\* tenant that holds the device, whatever expires, is collected or restarts in
\* between; and claims that are bound to a tenant never lead to a shell in
\* another one, unless they are a SUPERADMIN's.
ShellsBound ==
    \A s \in shells :
        /\ s.nth = 1
        /\ s.tenant = Home[s.device]
        /\ s.by.alias # None /\ s.by.role # "SUPERADMIN" => s.tenant = s.by.alias

\* A tenant that is never disabled gets its schema or loses its row again, even
\* when the controller stops between the two; the only ones that have a row and no
\* schema are those whose migrations failed, at a boot or together with the DELETE
\* that was to undo the registration.
Provisioned ==
    \A t \in Tenants :
        [](tenant[t].row => tenant[t].active) =>
            (tenant[t].row ~> (tenant[t].ready \/ ~tenant[t].row \/ tenant[t].stuck))

\* "Rollback tenant record on schema failure", of every failure: a DELETE that
\* fails leaves an enabled tenant without schema, whose alias is taken.
RolledBack ==
    \A t \in Tenants :
        [](tenant[t].row => tenant[t].active) =>
            (tenant[t].row ~> (tenant[t].ready \/ ~tenant[t].row))

\* "Protect against removing the last ADMIN if changing their role", and against
\* terminating it: no request of a user leaves the controller without one.
LastAdminKept == [][Admins # {} /\ up => Admins' # {}]_vars
=============================================================================
