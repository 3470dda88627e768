----------------------------- MODULE AccessProofs -----------------------------
(***************************************************************************)
(* A ticket opens one shell, in the tenant of its device and of its claims, *)
(* for any users, tenants, devices, tickets and restarts.  The invariant    *)
(* adds to ShellsBound what a ticket is worth while nobody has used it, and *)
(* that one which has opened a shell is spent or gone, and its number is    *)
(* never drawn again.                                                       *)
(*                                                                         *)
(* An enrollment that was committed is answered again the same way, and no  *)
(* withdrawn token lets a device in, for any sites, routers, tokens, nonces. *)
(***************************************************************************)
EXTENDS AccessParts, TLAPS, FiniteSetTheorems

\* Claims that are bound to a tenant lead to this one, unless a SUPERADMIN's.
BoundTo(c, t) == c.alias # None /\ c.role # "SUPERADMIN" => t = c.alias

\* A ticket was drawn, for a device of its tenant, by claims that reach it.
TicketsBound ==
    \A k \in Ids : ticket[k] # None =>
        /\ k <= issued
        /\ ticket[k].tenant = Home[ticket[k].device]
        /\ BoundTo(ticket[k].by, ticket[k].tenant)

\* The ticket of a shell was drawn before, and cannot open another.
ShellsSpent ==
    \A s \in shells : s.ticket <= issued /\ (ticket[s.ticket] # None => ticket[s.ticket].used)

IInv == TypeOK /\ TicketsBound /\ ShellsSpent /\ ShellsBound

\* Everything but users, tenants and sessions stays as it is.
Quiet == UNCHANGED <<ticket, issued, shells>>

\* The invariant holds at the start.
LEMMA InitInv == ASSUME Init PROVE IInv
<1>1. PICK t \in Tenants :
         /\ tenant = [x \in Tenants |-> IF x = t
                        THEN [NoTenant EXCEPT !.row = TRUE, !.active = TRUE, !.born = 1, !.ready = TRUE]
                        ELSE NoTenant]
         /\ user \in [Users -> {None} \cup [role : Roles, tenant : {None, t}]]
  BY DEF Init
<1>2. tenant \in [Tenants -> Tenant]
  BY <1>1 DEF Tenant, NoTenant
<1>3. user \in [Users -> User \cup {None}]
  BY <1>1 DEF User, Alias
<1>4. QED
  BY <1>2, <1>3, AccessAssumption
     DEF Init, IInv, TypeOK, TicketsBound, ShellsSpent, ShellsBound, Ids

\* A step that leaves tickets and shells alone keeps what is said of them.
LEMMA QuietStep ==
    ASSUME IInv, Quiet, TypeOK'
    PROVE  IInv'
BY DEF IInv, Quiet, TicketsBound, ShellsSpent, ShellsBound, Ids, BoundTo

\* The claims a login signs name a role and a tenant.
LEMMA LoginStep == ASSUME IInv, NEW u \in Users, Login(u) PROVE IInv'
<1>1. user[u] \in User
  BY DEF IInv, TypeOK, Login
<1>2. claims' \subseteq Claims
  BY <1>1 DEF IInv, TypeOK, Login, Claims, User, Alias
<1>3. TypeOK' /\ Quiet
  BY <1>2 DEF IInv, TypeOK, Login, Quiet
<1>4. QED
  BY <1>3, QuietStep

\* Nor do the requests of administrators touch a ticket.
LEMMA UserStep ==
    ASSUME IInv, NEW u \in Users, NEW r \in Roles,
           CreateUser(u, r) \/ CheckRole(u, r) \/ CheckDelete(u)
    PROVE  IInv'
<1>1. CASE CreateUser(u, r)
  <2>1. [role |-> r, tenant |-> None] \in User
    BY DEF User, Alias
  <2>2. user' \in [Users -> User \cup {None}]
    BY <1>1, <2>1 DEF IInv, TypeOK, CreateUser
  <2>3. TypeOK' /\ Quiet
    BY <1>1, <2>2 DEF IInv, TypeOK, CreateUser, Quiet
  <2>4. QED
    BY <2>3, QuietStep
<1>2. CASE CheckRole(u, r)
  <2>1. passed' \subseteq Change
    BY <1>2 DEF IInv, TypeOK, CheckRole, Change
  <2>2. TypeOK' /\ Quiet
    BY <1>2, <2>1 DEF IInv, TypeOK, CheckRole, Quiet
  <2>3. QED
    BY <2>2, QuietStep
<1>3. CASE CheckDelete(u)
  <2>1. passed' \subseteq Change
    BY <1>3 DEF IInv, TypeOK, CheckDelete, Change
  <2>2. TypeOK' /\ Quiet
    BY <1>3, <2>1 DEF IInv, TypeOK, CheckDelete, Quiet
  <2>3. QED
    BY <2>2, QuietStep
<1>4. QED
  BY <1>1, <1>2, <1>3

\* The write that such a request ends with.
LEMMA WriteStep == ASSUME IInv, NEW p \in passed, Write(p) PROVE IInv'
<1>1. p \in Change /\ p.user \in Users
  BY DEF IInv, TypeOK, Change
<1>2. user[p.user] # None /\ p.role # None => [user[p.user] EXCEPT !.role = p.role] \in User
  BY <1>1 DEF IInv, TypeOK, User, Change
<1>3. user' \in [Users -> User \cup {None}]
  BY <1>1, <1>2 DEF IInv, TypeOK, Write
<1>4. TypeOK' /\ Quiet
  BY <1>3 DEF IInv, TypeOK, Write, Quiet
<1>5. QED
  BY <1>4, QuietStep

\* Registering, migrating and toggling a tenant keep its row well formed.
LEMMA TenantStep ==
    ASSUME IInv, NEW t \in Tenants, RegisterTenant(t) \/ RunTenantMigrations(t) \/ ToggleTenant(t)
    PROVE  IInv'
<1>1. tenant \in [Tenants -> Tenant] /\ tenant[t] \in Tenant
  BY DEF IInv, TypeOK
<1>2. CASE RegisterTenant(t)
  <2>1. Cardinality(Tenants) \in Nat
    BY AccessAssumption, FS_CardinalityType
  <2>2. PICK n \in 1..Cardinality(Tenants) :
           tenant' = [tenant EXCEPT ![t] = [row |-> TRUE, active |-> TRUE, born |-> n,
                                            ready |-> @.ready, registering |-> TRUE,
                                            stuck |-> FALSE]]
    BY <1>2 DEF RegisterTenant
  <2>3. tenant' \in [Tenants -> Tenant]
    BY <1>1, <2>1, <2>2 DEF Tenant
  <2>4. QED
    BY <1>2, <2>3, QuietStep DEF RegisterTenant, IInv, TypeOK, Quiet
<1>3. CASE RunTenantMigrations(t)
  <2>1. tenant' \in [Tenants -> Tenant]
    <3>1. PICK after \in Tenant : tenant' = [tenant EXCEPT ![t] = after]
      <4>1. /\ [tenant[t] EXCEPT !.ready = TRUE, !.registering = FALSE] \in Tenant
            /\ [tenant[t] EXCEPT !.row = FALSE, !.active = FALSE, !.born = 0,
                                 !.registering = FALSE] \in Tenant
            /\ [tenant[t] EXCEPT !.registering = FALSE, !.stuck = TRUE] \in Tenant
        BY <1>1 DEF Tenant
      <4>2. QED
        BY <1>1, <1>3, <4>1 DEF RunTenantMigrations
    <3>2. QED
      BY <1>1, <3>1
  <2>2. QED
    BY <1>3, <2>1, QuietStep DEF RunTenantMigrations, IInv, TypeOK, Quiet
<1>4. CASE ToggleTenant(t)
  <2>1. tenant' \in [Tenants -> Tenant]
    BY <1>1, <1>4 DEF ToggleTenant, Tenant
  <2>2. QED
    BY <1>4, <2>1, QuietStep DEF ToggleTenant, IInv, TypeOK, Quiet
<1>5. QED
  BY <1>2, <1>3, <1>4

\* A request runs in the tenant of its claims, unless a SUPERADMIN names another.
LEMMA RunsInBound ==
    ASSUME NEW c \in Claims, NEW h \in Alias, NEW t \in RunsIn(c, h)
    PROVE  t \in Tenants /\ BoundTo(c, t)
BY DEF RunsIn, HeaderAllowed, Resolve, BoundTo, Claims

\* A new ticket is bound, and no shell has its number.
LEMMA IssueStep ==
    ASSUME IInv, NEW c \in claims, NEW h \in Alias, NEW d \in Devices, IssueTicket(c, h, d)
    PROVE  IInv'
<1> DEFINE k == issued + 1
<1>1. c \in Claims /\ issued \in Nat /\ k \in Ids /\ MaxTickets \in Nat
  BY AccessAssumption DEF IInv, TypeOK, IssueTicket, Ids
<1>2. PICK t \in RunsIn(c, h) :
        /\ Home[d] = t
        /\ ticket' = [ticket EXCEPT ![k] =
                [device |-> d, tenant |-> t, by |-> c, used |-> FALSE, live |-> TRUE]]
  BY DEF IssueTicket
<1>3. t \in Tenants /\ BoundTo(c, t)
  BY <1>1, RunsInBound
<1>4. issued' = k /\ UNCHANGED <<up, tenant, user, claims, passed, shells, boots>>
  BY DEF IssueTicket
<1>5. [device |-> d, tenant |-> t, by |-> c, used |-> FALSE, live |-> TRUE] \in Ticket
  BY <1>1, <1>3 DEF Ticket
<1>6. ticket \in [Ids -> Ticket \cup {None}]
  BY DEF IInv, TypeOK
<1>7. /\ ticket' \in [Ids -> Ticket \cup {None}] /\ issued' \in 0..MaxTickets
  BY <1>1, <1>2, <1>4, <1>5, <1>6 DEF Ids
<1>8. TypeOK'
  BY <1>4, <1>7 DEF IInv, TypeOK
<1>9. TicketsBound'
  <2>1. SUFFICES ASSUME NEW j \in Ids, ticket'[j] # None
        PROVE  /\ j <= issued' /\ ticket'[j].tenant = Home[ticket'[j].device]
               /\ BoundTo(ticket'[j].by, ticket'[j].tenant)
    BY DEF TicketsBound, BoundTo
  <2>2. CASE j = k
    BY <1>1, <1>2, <1>3, <1>4, <1>6, <2>2 DEF Ids
  <2>3. CASE j # k
    <3>1. ticket'[j] = ticket[j]
      BY <1>1, <1>2, <1>6, <2>3
    <3>2. j <= issued
      BY <2>1, <3>1 DEF IInv, TicketsBound
    <3>3. QED
      BY <1>1, <1>4, <2>1, <3>1, <3>2 DEF IInv, TicketsBound, Ids
  <2>4. QED
    BY <2>2, <2>3
<1>10. ShellsSpent'
  <2>1. SUFFICES ASSUME NEW s \in shells
        PROVE  s.ticket <= issued' /\ (ticket'[s.ticket] # None => ticket'[s.ticket].used)
    BY <1>4 DEF ShellsSpent
  <2>2. s.ticket \in Ids /\ s.ticket <= issued /\ (ticket[s.ticket] # None => ticket[s.ticket].used)
    BY DEF IInv, TypeOK, ShellsSpent
  <2>3. s.ticket # k /\ ticket'[s.ticket] = ticket[s.ticket]
    BY <1>1, <1>2, <1>6, <2>2 DEF Ids
  <2>4. QED
    BY <1>1, <1>4, <2>2, <2>3 DEF Ids
<1>11. ShellsBound'
  BY <1>4 DEF IInv, ShellsBound
<1>12. QED
  BY <1>8, <1>9, <1>10, <1>11 DEF IInv

\* The handshake: the first shell of its ticket, and the last.
LEMMA ShellStep ==
    ASSUME IInv, NEW k \in Ids, NEW d \in Devices, NEW h \in Alias, OpenShell(k, d, h)
    PROVE  IInv'
<1> DEFINE t == ticket[k].tenant
           new == [ticket |-> k, device |-> d, tenant |-> t, by |-> ticket[k].by, nth |-> 1]
<1>1. /\ ticket \in [Ids -> Ticket \cup {None}] /\ ticket[k] \in Ticket
      /\ ticket[k] # None /\ ticket[k].used = FALSE /\ ticket[k].device = d
      /\ ticket' = [ticket EXCEPT ![k].used = TRUE]
      /\ UNCHANGED <<up, tenant, user, claims, passed, issued, boots>>
  BY DEF IInv, TypeOK, OpenShell, Consume, Ticket
<1>2. /\ k <= issued /\ t = Home[d] /\ BoundTo(ticket[k].by, t) /\ t \in Tenants
      /\ ticket[k].by \in Claims
  BY <1>1 DEF IInv, TicketsBound, Ticket
<1>3. {s \in shells : s.ticket = k} = {}
  BY <1>1 DEF IInv, ShellsSpent
<1>4. Cardinality({s \in shells : s.ticket = k}) + 1 = 1
  BY <1>3, FS_EmptySet
<1>5. shells' \in {shells, shells \cup {new}}
  BY <1>4 DEF OpenShell
<1>6. /\ ticket'[k] \in Ticket /\ ticket'[k].used = TRUE /\ ticket'[k].device = ticket[k].device
      /\ ticket'[k].tenant = ticket[k].tenant /\ ticket'[k].by = ticket[k].by
  BY <1>1 DEF Ticket
<1>7. \A j \in Ids : j # k => ticket'[j] = ticket[j]
  BY <1>1
<1>8. ticket' \in [Ids -> Ticket \cup {None}]
  BY <1>1 DEF Ticket
<1>9. new \in [ticket : Ids, device : Devices, tenant : Tenants, by : Claims, nth : Nat]
  BY <1>2
<1>10. TypeOK'
  <2>1. \A s \in shells' : s \in [ticket : Ids, device : Devices, tenant : Tenants,
                                  by : Claims, nth : Nat]
    BY <1>5, <1>9 DEF IInv, TypeOK
  <2>2. QED
    BY <1>1, <1>8, <2>1 DEF IInv, TypeOK
<1>11. TicketsBound'
  <2>1. SUFFICES ASSUME NEW j \in Ids, ticket'[j] # None
        PROVE  /\ j <= issued /\ ticket'[j].tenant = Home[ticket'[j].device]
               /\ BoundTo(ticket'[j].by, ticket'[j].tenant)
    BY <1>1 DEF TicketsBound, BoundTo
  <2>2. QED
    BY <1>1, <1>2, <1>6, <1>7, <2>1 DEF IInv, TicketsBound
<1>12. ShellsSpent'
  <2>1. SUFFICES ASSUME NEW s \in shells'
        PROVE  s.ticket <= issued /\ (ticket'[s.ticket] # None => ticket'[s.ticket].used)
    BY <1>1 DEF ShellsSpent
  <2>2. CASE s.ticket = k
    BY <1>2, <1>6, <2>2
  <2>3. CASE s.ticket # k
    BY <1>5, <1>7, <2>1, <2>3 DEF IInv, ShellsSpent, TypeOK
  <2>4. QED
    BY <2>2, <2>3
<1>13. ShellsBound'
  BY <1>2, <1>5 DEF IInv, ShellsBound, BoundTo
<1>14. QED
  BY <1>10, <1>11, <1>12, <1>13 DEF IInv

\* A step after which a ticket is what it was, has had its time, or is gone.
LEMMA WearStep ==
    ASSUME IInv, ticket' \in [Ids -> Ticket \cup {None}],
           UNCHANGED <<issued, shells>>, TypeOK',
           \A k \in Ids : ticket'[k] # None =>
               /\ ticket[k] # None /\ ticket'[k].used = ticket[k].used
               /\ ticket'[k].device = ticket[k].device /\ ticket'[k].tenant = ticket[k].tenant
               /\ ticket'[k].by = ticket[k].by
    PROVE  IInv'
<1>1. TicketsBound'
  <2>1. SUFFICES ASSUME NEW j \in Ids, ticket'[j] # None
        PROVE  /\ j <= issued /\ ticket'[j].tenant = Home[ticket'[j].device]
               /\ BoundTo(ticket'[j].by, ticket'[j].tenant)
    BY DEF TicketsBound, BoundTo
  <2>2. QED
    BY <2>1 DEF IInv, TicketsBound
<1>2. ShellsSpent'
  BY DEF IInv, ShellsSpent, TypeOK
<1>3. ShellsBound'
  BY DEF IInv, ShellsBound
<1>4. QED
  BY <1>1, <1>2, <1>3 DEF IInv

\* Tickets expire, are collected, and a crash takes them all.
LEMMA LossStep ==
    ASSUME IInv, Collect \/ Crash \/ \E k \in Ids : TicketExpires(k)
    PROVE  IInv'
<1>1. ticket \in [Ids -> Ticket \cup {None}]
  BY DEF IInv, TypeOK
<1>2. CASE Collect
  <2>1. ticket' = [k \in Ids |-> IF ticket[k] # None /\ ticket[k].live THEN ticket[k] ELSE None]
    BY <1>2 DEF Collect
  <2>2. ticket' \in [Ids -> Ticket \cup {None}]
    BY <1>1, <2>1
  <2>3. TypeOK' /\ UNCHANGED <<issued, shells>>
    BY <1>2, <2>2 DEF Collect, IInv, TypeOK
  <2>4. QED
    BY <2>1, <2>2, <2>3, WearStep
<1>3. CASE Crash
  <2>1. ticket' = [k \in Ids |-> None] /\ passed' = {} /\ up' = FALSE /\ boots' = boots + 1
        /\ boots < MaxBoots /\ UNCHANGED <<user, claims, issued, shells>>
        /\ tenant' = [t \in Tenants |-> [tenant[t] EXCEPT !.registering = FALSE]]
    BY <1>3 DEF Crash
  <2>2. tenant' \in [Tenants -> Tenant]
    BY <2>1 DEF IInv, TypeOK, Tenant
  <2>3. boots' \in 0..MaxBoots
    BY <2>1, AccessAssumption DEF IInv, TypeOK
  <2>4. TypeOK'
    BY <2>1, <2>2, <2>3 DEF IInv, TypeOK
  <2>5. QED
    BY <2>1, <2>4, WearStep
<1>4. ASSUME NEW k \in Ids, TicketExpires(k) PROVE IInv'
  <2>1. /\ ticket[k] # None /\ ticket[k] \in Ticket
        /\ ticket' = [ticket EXCEPT ![k].live = FALSE]
        /\ UNCHANGED <<up, tenant, user, claims, passed, issued, shells, boots>>
    BY <1>1, <1>4 DEF TicketExpires
  <2>2. /\ ticket'[k] \in Ticket /\ ticket'[k].used = ticket[k].used
        /\ ticket'[k].device = ticket[k].device
        /\ ticket'[k].tenant = ticket[k].tenant /\ ticket'[k].by = ticket[k].by
    BY <1>1, <2>1 DEF Ticket
  <2>3. ticket' \in [Ids -> Ticket \cup {None}] /\ \A j \in Ids : j # k => ticket'[j] = ticket[j]
    BY <1>1, <2>1 DEF Ticket
  <2>4. TypeOK'
    BY <2>1, <2>3 DEF IInv, TypeOK
  <2>5. QED
    BY <2>1, <2>2, <2>3, <2>4, WearStep
<1>5. QED
  BY <1>2, <1>3, <1>4

\* A restart seeds a SUPERADMIN and completes schemas.
LEMMA BootStep == ASSUME IInv, Boot PROVE IInv'
<1> DEFINE admin == CHOOSE u \in Users : TRUE
<1>1. admin \in Users
  BY AccessAssumption
<1>2. user \in [Users -> User \cup {None}]
  BY DEF IInv, TypeOK
<1>3. [role |-> "SUPERADMIN", tenant |-> None] \in User
  BY DEF User, Roles, Alias
<1>4. admin \in Admins => [user[admin] EXCEPT !.role = "SUPERADMIN"] \in User
  BY <1>1, <1>2 DEF Admins, User, Roles
<1>5. SeedSuperAdmin(admin)
  BY DEF Boot
<1> HIDE DEF admin
<1>6. user' \in [Users -> User \cup {None}]
  BY <1>1, <1>2, <1>3, <1>4, <1>5 DEF SeedSuperAdmin
<1>7. tenant' \in [Tenants -> Tenant]
  <2>1. PICK ok \in SUBSET Tenants : tenant' = MigrateAll(ok)
    BY DEF Boot
  <2>2. QED
    BY <2>1 DEF MigrateAll, IInv, TypeOK, Tenant
<1>8. TypeOK' /\ Quiet
  BY <1>6, <1>7 DEF Boot, IInv, TypeOK, Quiet
<1>9. QED
  BY <1>8, QuietStep

\* Every step keeps the invariant.
LEMMA NextInv == ASSUME IInv, [Next]_vars PROVE IInv'
<1>1. CASE UNCHANGED vars
  BY <1>1, QuietStep DEF vars, IInv, TypeOK, Quiet
<1>2. ASSUME NEW u \in Users, Login(u) \/ CheckDelete(u) PROVE IInv'
  <2>1. "ADMIN" \in Roles
    BY DEF Roles
  <2>2. QED
    BY <1>2, <2>1, LoginStep, UserStep
<1>3. ASSUME NEW u \in Users, NEW r \in Roles, CreateUser(u, r) \/ CheckRole(u, r) PROVE IInv'
  BY <1>3, UserStep
<1>4. ASSUME NEW p \in passed, Write(p) PROVE IInv'
  BY <1>4, WriteStep
<1>5. ASSUME NEW c \in claims, ClaimsExpire(c) PROVE IInv'
  BY <1>5, QuietStep DEF ClaimsExpire, IInv, TypeOK, Quiet
<1>6. ASSUME NEW c \in claims, NEW h \in Alias, NEW d \in Devices, IssueTicket(c, h, d) PROVE IInv'
  BY <1>6, IssueStep
<1>7. ASSUME NEW t \in Tenants, RegisterTenant(t) \/ RunTenantMigrations(t) \/ ToggleTenant(t)
      PROVE  IInv'
  BY <1>7, TenantStep
<1>8. ASSUME NEW k \in Ids, NEW d \in Devices, NEW h \in Alias, OpenShell(k, d, h) PROVE IInv'
  BY <1>8, ShellStep
<1>9. CASE Collect \/ Crash \/ \E k \in Ids : TicketExpires(k)
  BY <1>9, LossStep
<1>10. CASE Boot
  BY <1>10, BootStep
<1>11. QED
  BY <1>1, <1>2, <1>3, <1>4, <1>5, <1>6, <1>7, <1>8, <1>9, <1>10 DEF Next

\* The controller keeps users, tenants, claims, tickets and shells well formed.
THEOREM TypeCorrect == Spec => []TypeOK
<1>1. IInv => TypeOK
  BY DEF IInv
<1>2. QED
  BY <1>1, InitInv, NextInv, PTL DEF Spec

\* A ticket opens at most one shell, to its device and in the device's tenant, and
\* claims bound to a tenant open none elsewhere (authtickets.go, ws_ticket.go,
\* auth.go): for any number of users, tenants, devices, tickets and restarts.
THEOREM ShellsStayBound == Spec => []ShellsBound
<1>1. IInv => ShellsBound
  BY DEF IInv
<1>2. QED
  BY <1>1, InitInv, NextInv, PTL DEF Spec

-----------------------------------------------------------------------------
(* Enrollment.  EnrollmentKept needs to know that the device a nonce was      *)
(* spent on has a row with a token: forgetting the device takes its nonces    *)
(* along, and no step takes the token from a row that stays.                  *)

\* The row a nonce was spent on is there and has a token.
NoncesHeld == \A n \in nonces : device[n.device] # None /\ device[n.device].token # None

EnrollmentInv == E!TypeOK /\ NoncesHeld

\* What a step of the operator on a site's row leaves alone.
RowsAlone == UNCHANGED <<legacy, device, nonces, agent, requests, upserts, pulls, drawn, flashed>>

\* The invariant holds at the start.
LEMMA EnrollmentInit == ASSUME E!Init PROVE EnrollmentInv
<1>1. E!Blank \in E!Device /\ E!NewAgent \in E!Agent
  BY DEF E!Blank, E!Device, E!NewAgent, E!Agent
<1>2. E!TypeOK
  BY <1>1, EnrollmentAssumption DEF E!Init, E!TypeOK
<1>3. QED
  BY <1>2 DEF E!Init, EnrollmentInv, NoncesHeld

\* A step on the rows of sites keeps it.
LEMMA SiteRowStep ==
    ASSUME EnrollmentInv, RowsAlone, site' \in [Sites -> E!Site \cup {None}], handed' \in 0..MaxTokens
    PROVE  EnrollmentInv'
BY DEF EnrollmentInv, RowsAlone, E!TypeOK, NoncesHeld

\* The operator creates a site, switches adoption, issues and revokes tokens,
\* which also expire.
LEMMA SiteStep ==
    ASSUME EnrollmentInv, NEW s \in Sites,
           \/ E!CreateSite(s) \/ E!ToggleAutoAdopt(s) \/ E!IssueDeviceEnrollmentTokenHandler(s)
           \/ E!RevokeDeviceEnrollmentTokenHandler(s) \/ E!TokenExpires(s)
    PROVE  EnrollmentInv'
<1>1. site \in [Sites -> E!Site \cup {None}] /\ handed \in 0..MaxTokens
  BY DEF EnrollmentInv, E!TypeOK
<1>2. CASE E!CreateSite(s)
  <2>1. [auto |-> FALSE, token |-> None, valid |-> FALSE] \in E!Site
    BY DEF E!Site
  <2>2. site' \in [Sites -> E!Site \cup {None}]
    BY <1>1, <1>2, <2>1 DEF E!CreateSite
  <2>3. QED
    BY <1>1, <1>2, <2>2, SiteRowStep DEF E!CreateSite, RowsAlone
<1>3. CASE E!ToggleAutoAdopt(s)
  <2>1. site[s] \in E!Site
    BY <1>1, <1>3 DEF E!ToggleAutoAdopt, E!Known
  <2>2. site' \in [Sites -> E!Site \cup {None}]
    BY <1>1, <1>3, <2>1 DEF E!ToggleAutoAdopt, E!Site
  <2>3. QED
    BY <1>1, <1>3, <2>2, SiteRowStep DEF E!ToggleAutoAdopt, RowsAlone
<1>4. CASE E!IssueDeviceEnrollmentTokenHandler(s)
  <2>1. site[s] \in E!Site
    BY <1>1, <1>4 DEF E!IssueDeviceEnrollmentTokenHandler, E!Known
  <2>2. handed' \in 0..MaxTokens /\ handed + 1 \in E!Token
    BY <1>1, <1>4, EnrollmentAssumption DEF E!IssueDeviceEnrollmentTokenHandler, E!Token
  <2>3. site' \in [Sites -> E!Site \cup {None}]
    BY <1>1, <1>4, <2>1, <2>2
       DEF E!IssueDeviceEnrollmentTokenHandler, E!IssueDeviceEnrollmentToken, E!Site
  <2>4. QED
    BY <1>4, <2>2, <2>3, SiteRowStep DEF E!IssueDeviceEnrollmentTokenHandler, RowsAlone
<1>5. CASE E!RevokeDeviceEnrollmentTokenHandler(s)
  <2>1. site[s] \in E!Site
    BY <1>1, <1>5 DEF E!RevokeDeviceEnrollmentTokenHandler, E!Known
  <2>2. site' \in [Sites -> E!Site \cup {None}]
    BY <1>1, <1>5, <2>1
       DEF E!RevokeDeviceEnrollmentTokenHandler, E!RevokeDeviceEnrollmentToken, E!Site
  <2>3. QED
    BY <1>1, <1>5, <2>2, SiteRowStep DEF E!RevokeDeviceEnrollmentTokenHandler, RowsAlone
<1>6. CASE E!TokenExpires(s)
  <2>1. site[s] \in E!Site
    BY <1>1, <1>6 DEF E!TokenExpires, E!Known
  <2>2. site' \in [Sites -> E!Site \cup {None}]
    BY <1>1, <1>6, <2>1 DEF E!TokenExpires, E!Site
  <2>3. QED
    BY <1>1, <1>6, <2>2, SiteRowStep DEF E!TokenExpires, RowsAlone
<1>7. QED
  BY <1>2, <1>3, <1>4, <1>5, <1>6

\* A device that is adopted or migrated keeps its token.
LEMMA AdoptStep ==
    ASSUME EnrollmentInv, NEW d \in Routers, NEW s \in Sites,
           E!AdoptDevice(d, s) \/ E!MigrateDevice(d, s)
    PROVE  EnrollmentInv'
<1>1. E!AdoptDevice(d, s)
  BY DEF E!MigrateDevice
<1>2. device \in [Routers -> E!Device \cup {None}] /\ device[d] \in E!Device
  BY <1>1 DEF EnrollmentInv, E!TypeOK, E!AdoptDevice
<1>3. /\ device' = [device EXCEPT ![d] = [device[d] EXCEPT !.site = s]]
      /\ [device[d] EXCEPT !.site = s] \in E!Device
      /\ [device[d] EXCEPT !.site = s].token = device[d].token
  BY <1>1, <1>2 DEF E!AdoptDevice, E!Device
<1>4. E!TypeOK'
  BY <1>1, <1>2, <1>3 DEF EnrollmentInv, E!TypeOK, E!AdoptDevice
<1>5. \A n \in nonces : n.device \in Routers
  BY DEF EnrollmentInv, E!TypeOK, E!NonceRow
<1>6. NoncesHeld'
  BY <1>1, <1>2, <1>3, <1>5, EnrollmentAssumption DEF EnrollmentInv, NoncesHeld, E!AdoptDevice
<1>7. QED
  BY <1>4, <1>6 DEF EnrollmentInv

\* A row that goes takes its nonces along; a site that goes leaves its devices
\* their tokens; a nonce that expires stays where it was.
LEMMA DropStep ==
    ASSUME EnrollmentInv,
           \/ \E d \in Routers : E!ForgetDevice(d)
           \/ \E s \in Sites : E!DeleteSite(s)
           \/ \E n \in nonces : E!NonceExpires(n)
    PROVE  EnrollmentInv'
<1>1. /\ device \in [Routers -> E!Device \cup {None}] /\ site \in [Sites -> E!Site \cup {None}]
      /\ nonces \subseteq E!NonceRow
  BY DEF EnrollmentInv, E!TypeOK
<1>2. \A n \in E!NonceRow : n.device \in Routers
  BY DEF E!NonceRow
<1>3. ASSUME NEW d \in Routers, E!ForgetDevice(d) PROVE EnrollmentInv'
  <2>1. E!TypeOK'
    BY <1>1, <1>3 DEF EnrollmentInv, E!TypeOK, E!ForgetDevice
  <2>2. NoncesHeld'
    BY <1>1, <1>2, <1>3 DEF EnrollmentInv, NoncesHeld, E!ForgetDevice
  <2>3. QED
    BY <2>1, <2>2 DEF EnrollmentInv
<1>4. ASSUME NEW s \in Sites, E!DeleteSite(s) PROVE EnrollmentInv'
  <2>1. \A x \in E!Device : [x EXCEPT !.site = None] \in E!Device /\ [x EXCEPT !.site = None].token = x.token
    BY DEF E!Device
  <2>2. \A d \in Routers : /\ device'[d] \in E!Device \cup {None}
                           /\ device[d] # None => device'[d] # None /\ device'[d].token = device[d].token
    BY <1>1, <1>4, <2>1, EnrollmentAssumption DEF E!DeleteSite
  <2>3. device' \in [Routers -> E!Device \cup {None}]
    BY <1>4, <2>2 DEF E!DeleteSite
  <2>4. E!TypeOK'
    BY <1>1, <1>4, <2>3 DEF EnrollmentInv, E!TypeOK, E!DeleteSite
  <2>5. NoncesHeld'
    BY <1>1, <1>2, <1>4, <2>2 DEF EnrollmentInv, NoncesHeld, E!DeleteSite
  <2>6. QED
    BY <2>4, <2>5 DEF EnrollmentInv
<1>5. ASSUME NEW n \in nonces, E!NonceExpires(n) PROVE EnrollmentInv'
  <2>1. [n EXCEPT !.live = FALSE] \in E!NonceRow /\ [n EXCEPT !.live = FALSE].device = n.device
    BY <1>1 DEF E!NonceRow
  <2>2. E!TypeOK'
    BY <1>1, <1>5, <2>1 DEF EnrollmentInv, E!TypeOK, E!NonceExpires
  <2>3. NoncesHeld'
    BY <1>5, <2>1 DEF EnrollmentInv, NoncesHeld, E!NonceExpires
  <2>4. QED
    BY <2>2, <2>3 DEF EnrollmentInv
<1>6. QED
  BY <1>3, <1>4, <1>5

\* A router is flashed, or sends its request.
LEMMA RouterStep ==
    ASSUME EnrollmentInv, NEW d \in Routers,
           E!Bootstrap(d) \/ \E s \in Sites : E!Flash(d, s)
    PROVE  EnrollmentInv'
<1>1. /\ agent \in [Routers -> E!Agent] /\ agent[d] \in E!Agent
      /\ requests \subseteq E!Request /\ site \in [Sites -> E!Site \cup {None}]
  BY DEF EnrollmentInv, E!TypeOK
<1>2. CASE E!Bootstrap(d)
  <2>1. PICK n \in Nonces :
           /\ agent' = [agent EXCEPT ![d].nonce = n]
           /\ requests' = requests \cup
                {[device |-> d, site |-> s, token |-> agent[d].siteToken, nonce |-> n] :
                    s \in E!Resolved(agent[d].siteToken)}
    BY <1>2 DEF E!Bootstrap
  <2>2. agent' \in [Routers -> E!Agent]
    BY <1>1, <2>1 DEF E!Agent
  <2>3. agent[d].siteToken \in E!Token
    BY <1>1, <1>2 DEF E!Bootstrap, E!Agent
  <2>4. requests' \subseteq E!Request
    BY <1>1, <2>1, <2>3 DEF E!Request, E!Resolved
  <2>5. QED
    BY <1>2, <2>2, <2>4 DEF EnrollmentInv, E!TypeOK, E!Bootstrap, NoncesHeld
<1>3. ASSUME NEW s \in Sites, E!Flash(d, s) PROVE EnrollmentInv'
  <2>1. site[s] \in E!Site
    BY <1>1, <1>3 DEF E!Flash, E!Known
  <2>2. [E!NewAgent EXCEPT !.siteToken = site[s].token, !.key = s] \in E!Agent
    BY <2>1 DEF E!NewAgent, E!Agent, E!Site
  <2>3. agent' \in [Routers -> E!Agent] /\ requests' \subseteq E!Request
    BY <1>1, <1>3, <2>2 DEF E!Flash
  <2>4. flashed' \in 0..MaxFlashes
    <3>1. flashed \in 0..MaxFlashes /\ flashed < MaxFlashes /\ flashed' = flashed + 1
      BY <1>3 DEF EnrollmentInv, E!TypeOK, E!Flash
    <3>2. QED
      BY <3>1, EnrollmentAssumption
  <2>5. QED
    BY <1>3, <2>3, <2>4 DEF EnrollmentInv, E!TypeOK, E!Flash, NoncesHeld
<1>4. QED
  BY <1>2, <1>3

\* An enrollment that creates a row gives it a token.
LEMMA EnrollStep == ASSUME EnrollmentInv, NEW r \in requests, E!EnrollDevice(r) PROVE EnrollmentInv'
<1>1. /\ device \in [Routers -> E!Device \cup {None}] /\ agent \in [Routers -> E!Agent]
      /\ nonces \subseteq E!NonceRow /\ requests \subseteq E!Request /\ drawn \in 0..MaxTokens
  BY DEF EnrollmentInv, E!TypeOK
<1>2. r \in E!Request /\ r.device \in Routers /\ r.site \in Sites /\ r.nonce \in Nonces
  BY <1>1 DEF E!Request
<1>3. \A t \in E!Token \cup {None} : E!Delivered(r.device, t) \in [Routers -> E!Agent]
  BY <1>1, <1>2, ZenonT(30) DEF E!Delivered, E!Agent
<1>4. requests' \subseteq E!Request /\ UNCHANGED <<legacy, site, upserts, pulls, handed, flashed>>
  BY <1>1 DEF E!EnrollDevice
<1>5. CASE E!Outcome(r) = "refused" /\ UNCHANGED <<device, nonces, agent, drawn>>
  BY <1>4, <1>5 DEF EnrollmentInv, E!TypeOK, NoncesHeld
<1>6. CASE /\ E!Outcome(r) = "same" /\ UNCHANGED <<device, nonces, drawn>>
           /\ agent' \in {agent, E!Delivered(r.device, device[r.device].token)}
  <2>1. device[r.device].token \in E!Token \cup {None}
    <3>1. E!SameToken(r)
      BY <1>6 DEF E!Outcome
    <3>2. device[r.device] \in E!Device
      BY <1>1, <1>2, <3>1 DEF E!SameToken
    <3>3. QED
      BY <3>2 DEF E!Device
  <2>2. agent' \in [Routers -> E!Agent]
    BY <1>1, <1>3, <1>6, <2>1
  <2>3. QED
    BY <1>4, <1>6, <2>2 DEF EnrollmentInv, E!TypeOK, NoncesHeld
<1>7. CASE /\ drawn < MaxTokens /\ E!Created(r, drawn + 1)
           /\ agent' \in {agent, E!Delivered(r.device, drawn + 1)}
  <2>1. drawn + 1 \in E!Token /\ drawn + 1 \in 0..MaxTokens /\ drawn + 1 # None
    BY <1>1, <1>7, EnrollmentAssumption DEF E!Token
  <2>2. agent' \in [Routers -> E!Agent]
    BY <1>1, <1>3, <1>7, <2>1
  <2>3. [site |-> r.site, token |-> drawn + 1] \in E!Device
    BY <1>2, <2>1 DEF E!Device
  <2>4. [site |-> r.site, nonce |-> r.nonce, device |-> r.device, live |-> TRUE] \in E!NonceRow
    BY <1>2 DEF E!NonceRow
  <2>5. /\ device' = [device EXCEPT ![r.device] = [site |-> r.site, token |-> drawn + 1]]
        /\ nonces' = nonces \cup {[site |-> r.site, nonce |-> r.nonce, device |-> r.device, live |-> TRUE]}
        /\ drawn' = drawn + 1
    BY <1>7 DEF E!Created
  <2>6. device' \in [Routers -> E!Device \cup {None}] /\ nonces' \subseteq E!NonceRow
    BY <1>1, <2>3, <2>4, <2>5
  <2>7. E!TypeOK'
    BY <1>4, <2>1, <2>2, <2>5, <2>6 DEF EnrollmentInv, E!TypeOK
  <2>8. \A n \in nonces : n.device \in Routers
    BY <1>1 DEF E!NonceRow
  <2>9. device'[r.device] # None /\ device'[r.device].token # None
    BY <1>1, <1>2, <2>1, <2>3, <2>5, EnrollmentAssumption
  <2>10. ASSUME NEW n \in nonces' PROVE device'[n.device] # None /\ device'[n.device].token # None
    <3>1. CASE n.device = r.device
      BY <2>9, <3>1
    <3>2. CASE n.device # r.device
      <4>1. n \in nonces
        BY <2>5, <3>2
      <4>2. device'[n.device] = device[n.device]
        BY <1>1, <2>5, <2>8, <3>2, <4>1
      <4>3. QED
        BY <4>1, <4>2 DEF EnrollmentInv, NoncesHeld
    <3>3. QED
      BY <3>1, <3>2
  <2>11. QED
    BY <2>7, <2>10 DEF EnrollmentInv, NoncesHeld
<1>8. QED
  BY <1>5, <1>6, <1>7 DEF E!EnrollDevice

\* A request is about a row, if any.
LEMMA IdentityIsRouter ==
    ASSUME NEW d \in Routers, NEW x \in Routers, E!Identity(d, x) # None
    PROVE  E!Identity(d, x) \in Routers /\ device[E!Identity(d, x)] # None
<1>1. E!Credential(d) = "token" => E!Holder(agent[d].token) # {}
  BY DEF E!Credential
<1>2. \A y \in E!Holder(agent[d].token) : y \in Routers /\ device[y] # None
  BY DEF E!Holder
<1>3. E!Credential(d) = "token" =>
        (CHOOSE y \in E!Holder(agent[d].token) : TRUE) \in E!Holder(agent[d].token)
  BY <1>1
<1>4. QED
  BY <1>2, <1>3 DEF E!Identity

\* Telemetry lets a row without a token join a site, and stores a row that is not there.
LEMMA TelemetryStep ==
    ASSUME EnrollmentInv, NEW d \in Routers,
           E!Upsert(d) \/ \E x \in Routers : E!Telemetry(d, x)
    PROVE  EnrollmentInv'
<1>1. /\ device \in [Routers -> E!Device \cup {None}] /\ agent[d] \in E!Agent
      /\ upserts \subseteq Routers /\ nonces \subseteq E!NonceRow
  BY DEF EnrollmentInv, E!TypeOK
<1>2. E!Blank \in E!Device /\ \A k \in Sites : [E!Blank EXCEPT !.site = k] \in E!Device
  BY DEF E!Blank, E!Device
<1>3. \A n \in nonces : n.device \in Routers
  BY <1>1 DEF E!NonceRow
<1>4. CASE E!Upsert(d)
  <2>1. device' \in [Routers -> E!Device \cup {None}]
    BY <1>1, <1>2, <1>4 DEF E!Upsert
  <2>2. E!TypeOK'
    BY <1>4, <2>1 DEF EnrollmentInv, E!TypeOK, E!Upsert
  <2>3. NoncesHeld'
    BY <1>1, <1>3, <1>4 DEF EnrollmentInv, NoncesHeld, E!Upsert
  <2>4. QED
    BY <2>2, <2>3 DEF EnrollmentInv
<1>5. ASSUME NEW x \in Routers, E!Telemetry(d, x) PROVE EnrollmentInv'
  <2>1. PICK y \in Routers : upserts' = upserts \cup {y} /\ E!ZeroTouch(d, y)
    BY <1>5, IdentityIsRouter DEF E!Telemetry
  <2>2. CASE device' = device
    BY <1>1, <1>5, <2>1, <2>2 DEF EnrollmentInv, E!TypeOK, NoncesHeld, E!Telemetry
  <2>3. CASE device' # device
    <3>1. /\ device[y] = E!Blank /\ agent[d].key \in Sites
          /\ device' = [device EXCEPT ![y].site = agent[d].key]
      BY <1>1, <2>1, <2>3 DEF E!ZeroTouch, E!Agent
    <3>2. device' = [device EXCEPT ![y] = [E!Blank EXCEPT !.site = agent[d].key]]
      BY <1>1, <3>1
    <3>3. device' \in [Routers -> E!Device \cup {None}]
      BY <1>1, <1>2, <3>1, <3>2
    <3>4. E!TypeOK'
      BY <1>1, <1>5, <2>1, <3>3 DEF EnrollmentInv, E!TypeOK, E!Telemetry
    <3>5. E!Blank.token = None
      BY DEF E!Blank
    <3>6. \A n \in nonces : n.device # y
      BY <3>1, <3>5 DEF EnrollmentInv, NoncesHeld
    <3>7. \A n \in nonces : device'[n.device] = device[n.device]
      BY <1>1, <1>3, <3>2, <3>6
    <3>8. nonces' = nonces
      BY <1>5 DEF E!Telemetry
    <3>9. NoncesHeld'
      BY <3>7, <3>8 DEF EnrollmentInv, NoncesHeld
    <3>10. QED
      BY <3>4, <3>9 DEF EnrollmentInv
  <2>4. QED
    BY <2>2, <2>3
<1>6. QED
  BY <1>4, <1>5

\* A router keeps a token of the kind that rows have.
LEMMA KeepTyped ==
    ASSUME agent \in [Routers -> E!Agent], device' \in [Routers -> E!Device \cup {None}],
           NEW d \in Routers, device'[d] # None, E!Keep(d, d)
    PROVE  agent' \in [Routers -> E!Agent]
<1>1. device'[d].token \in E!Token \cup {None}
  <2>1. device'[d] \in E!Device
    OBVIOUS
  <2>2. QED
    BY <2>1 DEF E!Device
<1>2. agent[d] \in E!Agent /\ [agent[d] EXCEPT !.token = device'[d].token] \in E!Agent
  BY <1>1 DEF E!Agent
<1>3. QED
  BY <1>2 DEF E!Keep

\* A config pull gives a row a token, or a router the token of its row.
LEMMA PullStep ==
    ASSUME EnrollmentInv, NEW d \in Routers, E!PullConfig(d) \/ E!EnsureDeviceToken(d)
    PROVE  EnrollmentInv'
<1>1. /\ device \in [Routers -> E!Device \cup {None}] /\ agent \in [Routers -> E!Agent]
      /\ nonces \subseteq E!NonceRow /\ drawn \in 0..MaxTokens /\ pulls \subseteq Routers
  BY DEF EnrollmentInv, E!TypeOK
<1>2. CASE E!PullConfig(d)
  <2>1. CASE device[d].token = None
    BY <1>2, <2>1 DEF EnrollmentInv, E!TypeOK, NoncesHeld, E!PullConfig
  <2>2. CASE device[d].token # None
    <3>1. UNCHANGED <<pulls, device>> /\ E!Keep(d, d)
      BY <1>2, <2>2 DEF E!PullConfig
    <3>2. device[d] # None
      BY <1>2, IdentityIsRouter, EnrollmentAssumption DEF E!PullConfig
    <3>3. agent' \in [Routers -> E!Agent]
      BY <1>1, <3>1, <3>2, KeepTyped
    <3>4. QED
      BY <1>2, <3>1, <3>3 DEF EnrollmentInv, E!TypeOK, NoncesHeld, E!PullConfig
  <2>3. QED
    BY <2>1, <2>2
<1>3. CASE E!EnsureDeviceToken(d)
  <2>1. drawn' = drawn + 1 /\ drawn + 1 \in E!Token /\ drawn + 1 \in 0..MaxTokens /\ drawn + 1 # None
    BY <1>1, <1>3, EnrollmentAssumption DEF E!EnsureDeviceToken, E!Token
  <2>2. CASE device[d] = None
    BY <1>3, <2>1, <2>2 DEF EnrollmentInv, E!TypeOK, NoncesHeld, E!EnsureDeviceToken
  <2>3. CASE device[d] # None
    <3>1. device[d] \in E!Device /\ device' = [device EXCEPT ![d].token = drawn + 1] /\ E!Keep(d, d)
      BY <1>1, <1>3, <2>3 DEF E!EnsureDeviceToken
    <3>2. /\ device' = [device EXCEPT ![d] = [device[d] EXCEPT !.token = drawn + 1]]
          /\ [device[d] EXCEPT !.token = drawn + 1] \in E!Device
          /\ [device[d] EXCEPT !.token = drawn + 1].token = drawn + 1
      BY <2>1, <3>1 DEF E!Device
    <3>3. device' \in [Routers -> E!Device \cup {None}] /\ device'[d] # None /\ device'[d].token # None
      BY <1>1, <2>1, <3>2, EnrollmentAssumption
    <3>4. agent' \in [Routers -> E!Agent]
      BY <1>1, <3>1, <3>3, KeepTyped
    <3>5. E!TypeOK'
      BY <1>3, <2>1, <3>3, <3>4 DEF EnrollmentInv, E!TypeOK, E!EnsureDeviceToken
    <3>6. \A n \in nonces : n.device \in Routers /\ (n.device # d => device'[n.device] = device[n.device])
      BY <1>1, <3>2 DEF E!NonceRow
    <3>7. nonces' = nonces
      BY <1>3 DEF E!EnsureDeviceToken
    <3>8. NoncesHeld'
      BY <3>3, <3>6, <3>7 DEF EnrollmentInv, NoncesHeld
    <3>9. QED
      BY <3>5, <3>8 DEF EnrollmentInv
  <2>4. QED
    BY <2>2, <2>3
<1>4. QED
  BY <1>2, <1>3

\* Every step keeps the invariant.
LEMMA EnrollmentNext == ASSUME EnrollmentInv, [E!Next]_E!vars PROVE EnrollmentInv'
<1>1. CASE UNCHANGED E!vars
  BY <1>1 DEF E!vars, EnrollmentInv, E!TypeOK, NoncesHeld
<1>2. ASSUME NEW s \in Sites,
             \/ E!CreateSite(s) \/ E!ToggleAutoAdopt(s) \/ E!IssueDeviceEnrollmentTokenHandler(s)
             \/ E!RevokeDeviceEnrollmentTokenHandler(s) \/ E!TokenExpires(s) \/ E!DeleteSite(s)
             \/ \E d \in Routers : E!AdoptDevice(d, s) \/ E!MigrateDevice(d, s) \/ E!Flash(d, s)
      PROVE  EnrollmentInv'
  BY <1>2, SiteStep, DropStep, AdoptStep, RouterStep
<1>3. ASSUME NEW n \in nonces, E!NonceExpires(n) PROVE EnrollmentInv'
  BY <1>3, DropStep
<1>4. ASSUME NEW d \in Routers,
             \/ E!ForgetDevice(d) \/ E!Bootstrap(d) \/ E!Upsert(d)
             \/ E!PullConfig(d) \/ E!EnsureDeviceToken(d) \/ \E x \in Routers : E!Telemetry(d, x)
      PROVE  EnrollmentInv'
  BY <1>4, DropStep, RouterStep, TelemetryStep, PullStep
<1>5. ASSUME NEW r \in requests, E!EnrollDevice(r) PROVE EnrollmentInv'
  BY <1>5, EnrollStep
<1>6. QED
  BY <1>1, <1>2, <1>3, <1>4, <1>5 DEF E!Next

\* The nonce is found, and the row it was spent on has the site and a token.
LEMMA RetriesAnswered == ASSUME EnrollmentInv PROVE E!RetryAnswered
<1>1. SUFFICES ASSUME NEW d \in Routers, NEW n \in nonces,
                      n.device = d, n.live, agent[d].siteToken # None, device[d].site = n.site,
                      E!Authorized([device |-> d, site |-> n.site, token |-> agent[d].siteToken,
                                    nonce |-> n.nonce])
               PROVE  E!Outcome([device |-> d, site |-> n.site, token |-> agent[d].siteToken,
                                 nonce |-> n.nonce]) = "same"
  BY DEF E!RetryAnswered
<1> DEFINE r == [device |-> d, site |-> n.site, token |-> agent[d].siteToken, nonce |-> n.nonce]
<1>2. n \in E!Bound(r) /\ r.device = d /\ r.site = n.site
  BY DEF E!Bound
<1>3. E!Retry(r)
  BY <1>1, <1>2 DEF E!Retry
<1>4. device[d] # None /\ device[d].token # None
  BY <1>1 DEF EnrollmentInv, NoncesHeld
<1>5. E!SameToken(r)
  BY <1>1, <1>2, <1>4 DEF E!SameToken
<1>6. QED
  BY <1>1, <1>3, <1>5 DEF E!Outcome

\* What EnrollmentFenced says of a step.
Fenced ==
    \A d \in Routers :
        (device'[d] # device[d] /\ nonces' # nonces /\ device'[d] # None /\ site' = site /\ drawn' > drawn)
        => \E r \in requests :
             /\ r.device = d /\ device'[d].site = r.site
             /\ site[r.site].auto /\ site[r.site].valid /\ site[r.site].token = r.token

\* Only an enrollment adds a nonce and draws a token, and it has checked the site's row.
LEMMA FenceStep == ASSUME EnrollmentInv, [E!Next]_E!vars PROVE Fenced
<1>1. drawn \in Nat /\ device \in [Routers -> E!Device \cup {None}] /\ requests \subseteq E!Request
  BY EnrollmentAssumption DEF EnrollmentInv, E!TypeOK
<1>2. CASE drawn' = drawn \/ nonces' = nonces
  BY <1>1, <1>2 DEF Fenced
<1>3. CASE ~(drawn' = drawn \/ nonces' = nonces)
  <2>1. PICK r \in requests : E!EnrollDevice(r)
    BY <1>3 DEF E!Next, E!vars, E!CreateSite, E!ToggleAutoAdopt, E!IssueDeviceEnrollmentTokenHandler,
         E!RevokeDeviceEnrollmentTokenHandler, E!TokenExpires, E!DeleteSite, E!AdoptDevice,
         E!MigrateDevice, E!Flash, E!NonceExpires, E!ForgetDevice, E!Bootstrap, E!Upsert,
         E!PullConfig, E!EnsureDeviceToken, E!Telemetry
  <2>2. E!Outcome(r) = "created" /\ E!Created(r, drawn + 1)
    BY <1>3, <2>1 DEF E!EnrollDevice
  <2>3. E!Authorized(r)
    BY <2>2 DEF E!Outcome
  <2>4. r.device \in Routers
    BY <1>1 DEF E!Request
  <2>5. device' = [device EXCEPT ![r.device] = [site |-> r.site, token |-> drawn + 1]]
    BY <2>2 DEF E!Created
  <2>6. \A d \in Routers : device'[d] # device[d] => r.device = d /\ device'[d].site = r.site
    BY <1>1, <2>4, <2>5
  <2>7. QED
    BY <2>3, <2>6 DEF Fenced, E!Authorized
<1>4. QED
  BY <1>2, <1>3

\* Sites, rows, nonces, routers and requests stay well formed (devices.go, enrollment.go).
THEOREM EnrollmentTypeCorrect == E!Spec => []E!TypeOK
<1>1. EnrollmentInv => E!TypeOK
  BY DEF EnrollmentInv
<1>2. QED
  BY <1>1, EnrollmentInit, EnrollmentNext, PTL DEF E!Spec

\* A router that repeats a committed enrollment whose answer was lost gets the
\* token of its row, and a device joins a site by enrollment only with the site's
\* current token (EnrollDevice): for any routers, sites and nonces.
THEOREM EnrollmentIsKept == E!Spec => EnrollmentKept
<1>1. EnrollmentInv /\ [E!Next]_E!vars => [Fenced]_E!vars
  BY FenceStep
<1>2. E!Spec => []EnrollmentInv
  BY EnrollmentInit, EnrollmentNext, PTL DEF E!Spec
<1>3. E!Spec => [][Fenced]_E!vars
  BY <1>1, <1>2, PTL DEF E!Spec
<1>4. [][Fenced]_E!vars => E!EnrollmentFenced
  BY DEF Fenced, E!EnrollmentFenced
<1>5. E!Spec => []E!RetryAnswered
  BY <1>2, RetriesAnswered, PTL
<1>6. QED
  BY <1>3, <1>4, <1>5 DEF EnrollmentKept
===============================================================================
