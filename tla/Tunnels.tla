------------------------------- MODULE Tunnels -------------------------------
(***************************************************************************)
(* The WireGuard tunnel of a site (SECURE_TUNNEL).  A config pull creates   *)
(* whatever is missing on its way: the device's key, its address in the     *)
(* tunnel, the site's key.  Each is a read followed by a write of its own,  *)
(* on no common transaction, so pulls of two devices, or a pull and the     *)
(* retry of one that the agent stopped waiting for, interleave.  The agent  *)
(* applies the answer through its transaction journal.                      *)
(***************************************************************************)
EXTENDS Naturals, FiniteSets, FiniteSetsExt

CONSTANTS Devices, Gateways, Requests, Endpoints, None,
          Limit,       \* addresses of 10.8.0.0/24 that are handed out (252)
          MaxChanges,  \* operator changes in a behaviour (bound)
          MaxFaults    \* timeouts and failed transactions in a behaviour (bound)

VARIABLES
    row,      \* wg_privkey and wg_ip of a device
    site,     \* wg_pubkey and wg_endpoint of the site, secure_tunnel_enabled
    drawn,    \* keys generated so far: a key is its number, 0 is none
    request,  \* config pulls the controller is working on
    waits,    \* the pull the agent waits for
    got,      \* the answer the agent has not applied yet
    wg,       \* network.wg_nerve as committed on the device, or None
    hash,     \* $NERVE_WG_HASH_FILE
    last,     \* the journal's last committed transaction
    changes, faults

stored == <<row, site, drawn>>
agent == <<waits, got, wg, hash, last>>
vars == <<stored, request, agent, changes, faults>>

Key == 0..(2 * Cardinality(Devices) + 2 + MaxChanges * 2)
Address == 0..Limit
Payload == [enabled : BOOLEAN, key : Key, ctl : Key, ip : Address, endpoint : Endpoints \cup {None}]
Off == [enabled |-> FALSE, key |-> 0, ctl |-> 0, ip |-> 0, endpoint |-> None]
Idle == [pc |-> "idle", dev |-> None, read |-> Off, used |-> {}]

TypeOK ==
    /\ row \in [Devices -> [key : Key, ip : Address]]
    /\ site \in [key : Key, endpoint : Endpoints \cup {None}, enabled : BOOLEAN]
    /\ drawn \in Key
    /\ request \in [Requests -> {Idle} \cup
          [pc : {"key", "check", "scan", "assign", "site", "answer"},
           dev : Devices, read : Payload, used : SUBSET Address]]
    /\ waits \in [Devices -> Requests \cup {None}]
    /\ got \in [Devices -> Payload \cup {None}]
    /\ wg \in [Devices -> Payload \cup {None}]
    /\ hash \in [Devices -> Payload \cup {None}] /\ last \in [Devices -> Payload \cup {None}]
    /\ changes \in 0..MaxChanges /\ faults \in 0..MaxFaults

Init ==
    /\ row = [d \in Devices |-> [key |-> 0, ip |-> 0]]
    /\ site = [key |-> 0, endpoint |-> None, enabled |-> TRUE]
    /\ drawn = 0 /\ changes = 0 /\ faults = 0
    /\ request = [q \in Requests |-> Idle]
    /\ waits = [d \in Devices |-> None] /\ got = [d \in Devices |-> None]
    /\ wg = [d \in Devices |-> None] /\ hash = [d \in Devices |-> None]
    /\ last = [d \in Devices |-> None]

-----------------------------------------------------------------------------
(* A config pull *)

At(q, pc) == request[q].pc = pc
Goto(q, pc) == request' = [request EXCEPT ![q].pc = pc]

\* The agent asks, and the controller reads the rows it will answer from.
PullConfig(d, q) ==
    /\ waits[d] = None /\ got[d] = None /\ At(q, "idle")
    /\ waits' = [waits EXCEPT ![d] = q]
    /\ request' = [request EXCEPT ![q] =
          [pc |-> "key", dev |-> d, used |-> {},
           read |-> [enabled |-> site.enabled, key |-> row[d].key, ctl |-> site.key,
                     ip |-> row[d].ip, endpoint |-> site.endpoint]]]
    /\ UNCHANGED <<stored, got, wg, hash, last, changes, faults>>

Missing(k) == k = 0

DeviceKey(q) ==
    /\ At(q, "key")
    /\ LET d == request[q].dev
       IN  IF Missing(request[q].read.key)
           THEN /\ drawn' = drawn + 1
                /\ row' = [row EXCEPT ![d].key = drawn + 1]
                /\ request' = [request EXCEPT ![q].read.key = drawn + 1,
                     ![q].pc = IF Missing(request[q].read.ip) THEN "check" ELSE "site"]
           ELSE /\ Goto(q, IF Missing(request[q].read.ip) THEN "check" ELSE "site")
                /\ UNCHANGED <<drawn, row>>
    /\ UNCHANGED <<site, agent, changes, faults>>

\* AssignInternalIP looks at the row again and then, in a transaction that
\* locks nothing, at every address in use.
AssignCheck(q) ==
    /\ At(q, "check")
    /\ LET ip == row[request[q].dev].ip
       IN  IF Missing(ip) THEN Goto(q, "scan")
           ELSE request' = [request EXCEPT ![q].pc = "site", ![q].read.ip = ip]
    /\ UNCHANGED <<stored, agent, changes, faults>>

AssignScan(q) ==
    /\ At(q, "scan")
    /\ request' = [request EXCEPT ![q].pc = "assign",
                     ![q].used = {row[d].ip : d \in Devices} \ {0}]
    /\ UNCHANGED <<stored, agent, changes, faults>>

\* The first free address; an exhausted range leaves the answer without one.
AssignInternalIP(q) ==
    /\ At(q, "assign")
    /\ LET free == (1..Limit) \ request[q].used
           ip == IF free = {} THEN 0 ELSE Min(free)
       IN  /\ row' = [row EXCEPT ![request[q].dev].ip = IF ip = 0 THEN @ ELSE ip]
           /\ request' = [request EXCEPT ![q].pc = "site", ![q].read.ip = ip, ![q].used = {}]
    /\ UNCHANGED <<site, drawn, agent, changes, faults>>

SiteKey(q) ==
    /\ At(q, "site")
    /\ IF Missing(request[q].read.ctl)
       THEN /\ drawn' = drawn + 1
            /\ site' = [site EXCEPT !.key = drawn + 1]
            /\ request' = [request EXCEPT ![q].read.ctl = drawn + 1, ![q].pc = "answer"]
       ELSE Goto(q, "answer") /\ UNCHANGED <<drawn, site>>
    /\ UNCHANGED <<row, agent, changes, faults>>

\* What a device is told, given what was read of its rows.
WgConfig(d, read) ==
    IF read.endpoint # None /\ d \in Gateways /\ read.enabled THEN read ELSE Off

\* An agent that stopped waiting gets nothing.
Answer(q) ==
    /\ At(q, "answer")
    /\ LET d == request[q].dev
       IN  IF waits[d] = q
           THEN /\ waits' = [waits EXCEPT ![d] = None]
                /\ got' = [got EXCEPT ![d] = WgConfig(d, request[q].read)]
           ELSE UNCHANGED <<waits, got>>
    /\ request' = [request EXCEPT ![q] = Idle]
    /\ UNCHANGED <<stored, wg, hash, last, changes, faults>>

Fault ==
    /\ faults < MaxFaults
    /\ faults' = faults + 1

\* curl gives up after five seconds; the controller does not notice.
Timeout(d) ==
    /\ waits[d] # None
    /\ waits' = [waits EXCEPT ![d] = None]
    /\ Fault
    /\ UNCHANGED <<stored, request, got, wg, hash, last, changes>>

-----------------------------------------------------------------------------
(* The agent *)

Exists(d) == wg[d] # None

NeedsApplyIfAbsent(d, p) == p.enabled # Exists(d)

NeedsApply(d, p) ==
    \/ p.enabled /\ (~Exists(d) \/ hash[d] # p)
    \/ ~p.enabled /\ Exists(d)

\* The journal keeps the last committed transaction (the others are pruned at
\* every round), and its name is the hash of the payload.  As the hash file is
\* written before the marker of the last one, it takes a crash between the two to
\* replay a transaction; no crash is modelled here.
Replayed(d, p) == last[d] = p

ApplyTunnel(d) ==
    /\ got[d] # None
    /\ got' = [got EXCEPT ![d] = None]
    /\ LET p == got[d]
       IN  IF ~NeedsApply(d, p) THEN UNCHANGED <<wg, hash, last>>
           ELSE IF Replayed(d, p) THEN hash' = [hash EXCEPT ![d] = p] /\ UNCHANGED <<wg, last>>
           ELSE /\ wg' = [wg EXCEPT ![d] = IF p.enabled THEN p ELSE None]
                /\ hash' = [hash EXCEPT ![d] = p]
                /\ last' = [last EXCEPT ![d] = p]
    /\ UNCHANGED <<stored, request, waits, changes, faults>>

\* A failed transaction is rolled back; the next round tries again.  The journal
\* keeps it as the last one, and the committed one before it is pruned.
ApplyFails(d) ==
    /\ got[d] # None /\ NeedsApply(d, got[d]) /\ ~Replayed(d, got[d])
    /\ got' = [got EXCEPT ![d] = None]
    /\ last' = [last EXCEPT ![d] = None]
    /\ Fault
    /\ UNCHANGED <<stored, request, waits, wg, hash, changes>>

-----------------------------------------------------------------------------
(* The operator *)

Change ==
    /\ changes < MaxChanges
    /\ changes' = changes + 1

UpdateVPNEndpoint(e) ==
    /\ Change
    /\ site' = [site EXCEPT !.endpoint = e]
    /\ UNCHANGED <<row, drawn, request, agent, faults>>

ToggleTunnel ==
    /\ Change
    /\ site' = [site EXCEPT !.enabled = ~@]
    /\ UNCHANGED <<row, drawn, request, agent, faults>>

\* An import takes over the first tunnel found on the device: its key and
\* address, and its peer as the controller's side.
ImportVpn(d, ip, e) ==
    /\ Change
    /\ drawn' = drawn + 2
    /\ row' = [row EXCEPT ![d] = [key |-> drawn + 1, ip |-> ip]]
    /\ site' = [site EXCEPT !.key = drawn + 2, !.endpoint = e]
    /\ UNCHANGED <<request, agent, faults>>

-----------------------------------------------------------------------------
Step(q) == DeviceKey(q) \/ AssignCheck(q) \/ AssignScan(q) \/ AssignInternalIP(q)
             \/ SiteKey(q) \/ Answer(q)

Next ==
    \/ \E d \in Devices, q \in Requests : PullConfig(d, q)
    \/ \E q \in Requests : Step(q)
    \/ \E d \in Devices : Timeout(d) \/ ApplyTunnel(d) \/ ApplyFails(d)
    \/ \E e \in Endpoints : UpdateVPNEndpoint(e)
    \/ ToggleTunnel
    \/ \E d \in Devices, ip \in 1..Limit, e \in Endpoints : ImportVpn(d, ip, e)

\* The agent's loop never ends, and a request is worked on until it is answered.
Fairness ==
    /\ \A d \in Devices : SF_vars(\E q \in Requests : PullConfig(d, q)) /\ WF_vars(ApplyTunnel(d))
    /\ \A q \in Requests : WF_vars(Step(q))

Spec == Init /\ [][Next]_vars /\ Fairness

-----------------------------------------------------------------------------
\* Once the operator leaves the site alone, every gateway ends up with the
\* tunnel the controller has stored, and keeps it: its own key and address,
\* the site's key and endpoint.  Pulls that raced each other to create a key,
\* answers that were lost and transactions that failed leave nothing behind
\* that a later pull does not repair (provision.go, GetDeviceConfigHandler).
TunnelsSettle ==
    <>[](\A d \in Devices :
            wg[d] = LET want == WgConfig(d, [enabled |-> site.enabled, key |-> row[d].key,
                                  ctl |-> site.key, ip |-> row[d].ip, endpoint |-> site.endpoint])
                    IN  IF want.enabled THEN want ELSE None)

\* AssignInternalIP: "assigns a unique 10.8.0.x IP for the given device ID".
\* It does not: two pulls may scan before either of them writes.
AddressesUnique ==
    \A d, e \in Devices : d # e /\ row[d].ip # 0 => row[d].ip # row[e].ip
=============================================================================
