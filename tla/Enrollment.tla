----------------------------- MODULE Enrollment -----------------------------
(***************************************************************************)
(* How a router gets, keeps and loses its identity: site enrollment tokens,  *)
(* the enrollment transaction and its nonces, the credentials of telemetry  *)
(* and config pulls, adoption, migration, forgetting a device and deleting  *)
(* a site.  One tenant; a step is one statement or transaction.             *)
(***************************************************************************)
EXTENDS Integers, FiniteSets

CONSTANTS Devices, Sites, Nonces, None,
          MaxTokens,      \* tokens drawn in a behaviour, of each kind (bound)
          MaxFlashes      \* images written to routers (bound)

VARIABLES
    legacy,    \* ALLOW_LEGACY_PROVISION
    site,      \* row of sites: auto_adopt, enrollment token and its validity
    device,    \* row of devices: site_id and device_token
    nonces,    \* rows of device_enrollment_nonces
    agent,     \* files of a router: device token, image's site token, nonce, site key
    requests,  \* enrollment requests whose token has been resolved
    upserts,   \* telemetry goroutines that have not stored the state yet
    pulls,     \* legacy config pulls that saw a row without a token
    drawn,     \* device tokens drawn so far
    issued,    \* site tokens issued so far
    flashed    \* images written so far

vars == <<legacy, site, device, nonces, agent, requests, upserts, pulls, drawn, issued, flashed>>

Token == 1..MaxTokens
Site == [auto : BOOLEAN, token : Token \cup {None}, valid : BOOLEAN]
Device == [site : Sites \cup {None}, token : Token \cup {None}]
Agent == [token : Token \cup {None}, siteToken : Token \cup {None},
          nonce : Nonces \cup {None}, key : Sites \cup {None}]
Request == [device : Devices, site : Sites, token : Token, nonce : Nonces]
NonceRow == [site : Sites, nonce : Nonces, device : Devices, live : BOOLEAN]

TypeOK ==
    /\ legacy \in BOOLEAN
    /\ site \in [Sites -> Site \cup {None}]
    /\ device \in [Devices -> Device \cup {None}]
    /\ nonces \subseteq NonceRow
    /\ agent \in [Devices -> Agent]
    /\ requests \subseteq Request
    /\ upserts \subseteq Devices /\ pulls \subseteq Devices
    /\ drawn \in 0..MaxTokens /\ issued \in 0..MaxTokens /\ flashed \in 0..MaxFlashes

Blank == [site |-> None, token |-> None]
NewAgent == [token |-> None, siteToken |-> None, nonce |-> None, key |-> None]

\* A row without site and token is what earlier releases made of a first heartbeat.
Init ==
    /\ legacy \in BOOLEAN
    /\ site = [s \in Sites |-> None]
    /\ device \in [Devices -> {None, Blank}]
    /\ nonces = {} /\ agent = [d \in Devices |-> NewAgent]
    /\ requests = {} /\ upserts = {} /\ pulls = {}
    /\ drawn = 0 /\ issued = 0 /\ flashed = 0

Known(s) == site[s] # None

-----------------------------------------------------------------------------
(* The operator *)

CreateSite(s) ==
    /\ ~Known(s)
    /\ site' = [site EXCEPT ![s] = [auto |-> FALSE, token |-> None, valid |-> FALSE]]
    /\ UNCHANGED <<legacy, device, nonces, agent, requests, upserts, pulls, drawn, issued, flashed>>

ToggleAutoAdopt(s) ==
    /\ Known(s)
    /\ site' = [site EXCEPT ![s].auto = ~@]
    /\ UNCHANGED <<legacy, device, nonces, agent, requests, upserts, pulls, drawn, issued, flashed>>

\* A new token takes the place of the one before.
IssueDeviceEnrollmentToken(s, t) == site' = [site EXCEPT ![s].token = t, ![s].valid = TRUE]

IssueDeviceEnrollmentTokenHandler(s) ==
    /\ Known(s) /\ issued < MaxTokens
    /\ issued' = issued + 1
    /\ IssueDeviceEnrollmentToken(s, issued + 1)
    /\ UNCHANGED <<legacy, device, nonces, agent, requests, upserts, pulls, drawn, flashed>>

RevokeDeviceEnrollmentToken(s) == site' = [site EXCEPT ![s].token = None, ![s].valid = FALSE]

RevokeDeviceEnrollmentTokenHandler(s) ==
    /\ Known(s) /\ site[s].token # None
    /\ RevokeDeviceEnrollmentToken(s)
    /\ UNCHANGED <<legacy, device, nonces, agent, requests, upserts, pulls, drawn, issued, flashed>>

\* 24 hours; a nonce lives 24 hours from its own insertion.
TokenExpires(s) ==
    /\ Known(s) /\ site[s].valid
    /\ site' = [site EXCEPT ![s].valid = FALSE]
    /\ UNCHANGED <<legacy, device, nonces, agent, requests, upserts, pulls, drawn, issued, flashed>>

NonceExpires(n) ==
    /\ n \in nonces /\ n.live
    /\ nonces' = (nonces \ {n}) \cup {[n EXCEPT !.live = FALSE]}
    /\ UNCHANGED <<legacy, site, device, agent, requests, upserts, pulls, drawn, issued, flashed>>

\* AdoptDeviceHandler and MigrateDeviceHandler differ in their error messages
\* only: the foreign key refuses a site that does not exist.
AdoptDevice(d, s) ==
    /\ device[d] # None /\ Known(s)
    /\ device' = [device EXCEPT ![d].site = s]
    /\ UNCHANGED <<legacy, site, nonces, agent, requests, upserts, pulls, drawn, issued, flashed>>

MigrateDevice(d, s) == device[d] # None /\ device[d].site # s /\ AdoptDevice(d, s)

\* The nonces of the row go with it (ON DELETE CASCADE).
ForgetDevice(d) ==
    /\ device[d] # None
    /\ device' = [device EXCEPT ![d] = None]
    /\ nonces' = {n \in nonces : n.device # d}
    /\ UNCHANGED <<legacy, site, agent, requests, upserts, pulls, drawn, issued, flashed>>

\* Devices of the site become orphans and keep their tokens.
DeleteSite(s) ==
    /\ Known(s)
    /\ site' = [site EXCEPT ![s] = None]
    /\ device' = [d \in Devices |-> IF device[d] # None /\ device[d].site = s
                                    THEN [device[d] EXCEPT !.site = None] ELSE device[d]]
    /\ nonces' = {n \in nonces : n.site # s}
    /\ UNCHANGED <<legacy, agent, requests, upserts, pulls, drawn, issued, flashed>>

-----------------------------------------------------------------------------
(* Enrollment *)

\* A router starts with the image of a site; what it was doing is gone.
Flash(d, s) ==
    /\ Known(s) /\ site[s].token # None /\ flashed < MaxFlashes
    /\ flashed' = flashed + 1
    /\ agent' = [agent EXCEPT ![d] = [NewAgent EXCEPT !.siteToken = site[s].token, !.key = s]]
    /\ requests' = {r \in requests : r.device # d}
    /\ UNCHANGED <<legacy, site, device, nonces, upserts, pulls, drawn, issued>>

\* ResolveDeviceEnrollmentToken, before the transaction
Resolved(t) == {s \in Sites : Known(s) /\ site[s].token = t /\ site[s].valid /\ site[s].auto}

\* bootstrap_agent and the first half of DeviceEnrollmentHandler: the nonce is
\* written to flash before the request is sent.
Bootstrap(d) ==
    /\ agent[d].token = None /\ agent[d].siteToken # None
    /\ \E n \in Nonces :
         /\ agent[d].nonce \in {None, n}
         /\ agent' = [agent EXCEPT ![d].nonce = n]
         /\ requests' = requests \cup
              {[device |-> d, site |-> s, token |-> agent[d].siteToken, nonce |-> n] :
                  s \in Resolved(agent[d].siteToken)}
    /\ UNCHANGED <<legacy, site, device, nonces, upserts, pulls, drawn, issued, flashed>>

\* Mutant of Authorized: what ResolveDeviceEnrollmentToken found is good enough.
AuthorizedOnce(r) == Known(r.site)

\* The transaction checks the token again, with the site's row locked.
Authorized(r) ==
    /\ Known(r.site) /\ site[r.site].auto
    /\ site[r.site].valid /\ site[r.site].token = r.token

Bound(r) == {n \in nonces : n.site = r.site /\ n.nonce = r.nonce}

\* The nonce is known and live: the request repeats one whose answer was lost.
Retry(r) == \E n \in Bound(r) : n.live

\* The repeat gets the token of the row, if it is the row the nonce made.
SameToken(r) ==
    /\ \E n \in Bound(r) : n.device = r.device
    /\ device[r.device] # None
    /\ device[r.device].site = r.site /\ device[r.device].token # None

\* What EnrollDevice answers: the token of the row, New, or a refusal.
Outcome(r) ==
    IF ~Authorized(r) THEN "refused"
    ELSE IF Retry(r) THEN (IF SameToken(r) THEN "same" ELSE "refused")
    ELSE IF device[r.device] # None /\ device[r.device].site # None THEN "refused"
    ELSE IF Bound(r) = {} THEN "created" ELSE "refused"  \* primary key

Delivered(d, t) == [agent EXCEPT ![d] = [@ EXCEPT !.token = t, !.siteToken = None, !.nonce = None]]

\* The row, its token and the nonce, in one commit.
Created(r, t) ==
    /\ drawn' = t
    /\ device' = [device EXCEPT ![r.device] = [site |-> r.site, token |-> t]]
    /\ nonces' = nonces \cup {[site |-> r.site, nonce |-> r.nonce, device |-> r.device, live |-> TRUE]}

\* EnrollDevice and the answer, which may be lost.  A router that holds the
\* token deletes the enrollment files.
EnrollDevice(r) ==
    /\ r \in requests
    /\ requests' = requests \ {r}
    /\ \/ Outcome(r) = "refused" /\ UNCHANGED <<device, nonces, agent, drawn>>
       \/ /\ Outcome(r) = "same" /\ UNCHANGED <<device, nonces, drawn>>
          /\ agent' \in {agent, Delivered(r.device, device[r.device].token)}
       \/ /\ Outcome(r) = "created" /\ drawn < MaxTokens
          /\ Created(r, drawn + 1)
          /\ agent' \in {agent, Delivered(r.device, drawn + 1)}
    /\ UNCHANGED <<legacy, site, upserts, pulls, issued, flashed>>

-----------------------------------------------------------------------------
(* Telemetry and config pulls *)

\* GetTenantSchemaForDeviceToken
Holder(t) == {d \in Devices : t # None /\ device[d] # None /\ device[d].token = t}

\* GetTenantSchemaForSiteKey: the site key speaks for a router in legacy mode only.
SiteKeyKnown(k) == legacy /\ k # None /\ Known(k)

\* resolveDeviceTenant: the device token first; one that is nobody's is ignored
\* when the site key is known.
Credential(d) ==
    IF Holder(agent[d].token) # {} THEN "token"
    ELSE IF SiteKeyKnown(agent[d].key) THEN "key" ELSE "none"

\* validateDeviceTelemetryTokenForMode, and the site key of the row's site
Accepted(d, x) ==
    IF Credential(d) = "token" THEN device[x].token = agent[d].token
    ELSE device[x].site \in {None, agent[d].key}

\* The row a request of router d under the id x is about, or None: a router that
\* reports a MAC that is nobody's is known by its token.
Identity(d, x) ==
    IF Credential(d) = "none" THEN None
    ELSE IF device[x] # None THEN IF Accepted(d, x) THEN x ELSE None
    ELSE IF Credential(d) = "token" THEN CHOOSE y \in Holder(agent[d].token) : TRUE
    ELSE None

\* A row without site and token joins the site of the key.
ZeroTouch(d, y) ==
    device' = IF /\ legacy /\ device[y] = Blank
                 /\ agent[d].key # None /\ Known(agent[d].key) /\ site[agent[d].key].auto
              THEN [device EXCEPT ![y].site = agent[d].key] ELSE device

\* TelemetryHandler.  Its goroutine stores the state later.
Telemetry(d, x) ==
    LET y == Identity(d, x) IN
    /\ y # None
    /\ upserts' = upserts \cup {y}
    /\ ZeroTouch(d, y)
    /\ UNCHANGED <<legacy, site, nonces, agent, requests, pulls, drawn, issued, flashed>>

\* UpsertDeviceState: INSERT ... ON CONFLICT DO UPDATE
Upsert(y) ==
    /\ y \in upserts
    /\ upserts' = upserts \ {y}
    /\ device' = IF device[y] = None THEN [device EXCEPT ![y] = Blank] ELSE device
    /\ UNCHANGED <<legacy, site, nonces, agent, requests, pulls, drawn, issued, flashed>>

\* A router keeps the token a config pull returns; "wait" carries none.
Keep(d, y) ==
    agent' = IF device'[y].site = None THEN agent
             ELSE [agent EXCEPT ![d].token = device'[y].token]

\* GetDeviceConfigHandler; without a token, in legacy mode, it first needs one.
PullConfig(d) ==
    /\ Identity(d, d) = d
    /\ IF device[d].token = None THEN pulls' = pulls \cup {d} /\ UNCHANGED <<device, agent>>
       ELSE UNCHANGED <<pulls, device>> /\ Keep(d, d)
    /\ UNCHANGED <<legacy, site, nonces, requests, upserts, drawn, issued, flashed>>

\* ensureDeviceToken writes whatever was stored meanwhile.
EnsureDeviceToken(d) ==
    /\ d \in pulls /\ drawn < MaxTokens
    /\ pulls' = pulls \ {d} /\ drawn' = drawn + 1
    /\ IF device[d] = None THEN UNCHANGED <<device, agent>>
       ELSE device' = [device EXCEPT ![d].token = drawn + 1] /\ Keep(d, d)
    /\ UNCHANGED <<legacy, site, nonces, requests, upserts, issued, flashed>>

Next ==
    \/ \E s \in Sites : \/ CreateSite(s) \/ ToggleAutoAdopt(s) \/ IssueDeviceEnrollmentTokenHandler(s)
                        \/ RevokeDeviceEnrollmentTokenHandler(s) \/ TokenExpires(s) \/ DeleteSite(s)
                        \/ \E d \in Devices : AdoptDevice(d, s) \/ MigrateDevice(d, s) \/ Flash(d, s)
    \/ \E n \in nonces : NonceExpires(n)
    \/ \E d \in Devices : \/ ForgetDevice(d) \/ Bootstrap(d) \/ Upsert(d)
                          \/ PullConfig(d) \/ EnsureDeviceToken(d)
                          \/ \E x \in Devices : Telemetry(d, x)
    \/ \E r \in requests : EnrollDevice(r)

Spec == Init /\ [][Next]_vars

-----------------------------------------------------------------------------
(* Properties *)

\* "so a lost HTTP response can be retried safely": a router whose enrollment
\* was committed and whose answer was lost gets the same token when it repeats
\* the request, however the site's token was rotated and the device was
\* migrated back and forth, as long as the nonce lives and the router's image
\* carries the current token.
RetryAnswered ==
    \A d \in Devices, n \in nonces :
        LET r == [device |-> d, site |-> n.site, token |-> agent[d].siteToken, nonce |-> n.nonce]
        IN  (/\ n.device = d /\ n.live /\ agent[d].nonce = n.nonce /\ agent[d].siteToken # None
             /\ Authorized(r) /\ device[d].site = n.site)
            => Outcome(r) = "same"

\* A device joins a site by enrollment only while the token it presented is that
\* site's current, valid token and the site adopts: neither a rotation nor a
\* revocation between the lookup of the token and the transaction is missed.
EnrollmentFenced ==
    [][\A d \in Devices :
        (device'[d] # device[d] /\ nonces' # nonces /\ device'[d] # None /\ site' = site /\ drawn' > drawn)
        => \E r \in requests :
             /\ r.device = d /\ device'[d].site = r.site
             /\ site[r.site].auto /\ site[r.site].valid /\ site[r.site].token = r.token]_vars

\* "Telemetry never creates unknown devices."
TelemetryCreatesNoDevice ==
    [][\A d \in Devices : d \in upserts /\ device[d] = None /\ upserts' # upserts
                          => device'[d] = None]_vars
=============================================================================
