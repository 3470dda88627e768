---------------------------- MODULE ClientIdentity ----------------------------
(***************************************************************************)
(* Who a client is: the names and the trust an administrator gives, and the *)
(* two views that join them with what the devices report.  The client list  *)
(* and the identity directory (the one Sentinel and the logs use) go        *)
(* through the devices in the order the database returns them, and through  *)
(* the stations in the order of a Go map, so the same data can be merged in *)
(* any order.  The administrator's record has the MAC for its primary key,  *)
(* over all sites of the tenant.                                            *)
(***************************************************************************)
EXTENDS Naturals, Sequences, FiniteSets, SequencesExt

CONSTANTS Macs,        \* clients and devices
          Sites, None,
          Devices,     \* [name, site, stations, radios, arp, bridge, leases] of a device's MAC:
                       \* the reports are sets of [mac, ip, host]
          Names,       \* labels and hostnames an administrator types
          MaxChanges   \* changes by administrators in a behaviour (bound)

VARIABLES
    row,      \* client_hostnames: [site, hostname, trusted, label, past] of a MAC, or None
    load,     \* a directory being loaded: its scope, the rows it read, what is left
    list,     \* the client list shown since the last change, with the rows it was made of
    given,    \* history: the sites at which administrators hold a MAC for trusted
    changes

vars == <<row, load, list, given, changes>>

Nodes == DOMAIN Devices
Row == [site : Sites, hostname : Names \cup {None}, trusted : BOOLEAN,
        label : Names \cup {None}, past : BOOLEAN]

Labels == Names \cup {None}

\* What a device reports of its clients, and an entry of the identity directory.
Entry == [mac : Macs, ip : STRING \cup {None}, host : Labels]
Report == [name : Labels, site : Sites, stations : SUBSET Entry, radios : SUBSET Entry,
           arp : SUBSET Entry, bridge : SUBSET Entry, leases : SUBSET Entry]
Identity == [site : Sites, kind : {"node", "client"}, label : Labels, ip : STRING \cup {None},
             uplink : Nodes \cup {None}, manual : BOOLEAN, trusted : BOOLEAN, past : BOOLEAN]

TypeOK ==
    /\ row \in [Macs -> Row \cup {None}]
    /\ load # None => load.left \subseteq Nodes /\ load.site \in Sites \cup {None}
                      /\ load.dir \in [Macs -> Identity \cup {None}]
    /\ given \in [Macs -> SUBSET Sites] /\ changes \in 0..MaxChanges

Init ==
    /\ row = [m \in Macs |-> None]
    /\ load = None /\ list = None
    /\ given = [m \in Macs |-> {}] /\ changes = 0

-----------------------------------------------------------------------------
(* The administrator *)

Change ==
    /\ changes < MaxChanges
    /\ changes' = changes + 1
    /\ list' = None
    /\ UNCHANGED load

UpdateClientHostname(m, s, name) ==
    /\ Change
    /\ row' = [row EXCEPT ![m] =
          IF @ = None THEN [site |-> s, hostname |-> name, trusted |-> FALSE,
                            label |-> None, past |-> FALSE]
          ELSE [@ EXCEPT !.hostname = name, !.site = s]]
    /\ UNCHANGED given

TrustClient(m, s, label) ==
    /\ Change
    /\ row' = [row EXCEPT ![m] =
          [site |-> s, trusted |-> TRUE, label |-> label, past |-> FALSE,
           hostname |-> IF @ = None \/ @.hostname = None THEN label ELSE @.hostname]]
    /\ given' = [given EXCEPT ![m] = @ \cup {s}]

\* Says "untrusted" also when the row is another site's.
UntrustClient(m, s) ==
    /\ Change
    /\ row' = [row EXCEPT ![m] =
          IF @ # None /\ @.site = s
          THEN [@ EXCEPT !.trusted = FALSE, !.label = None, !.past = FALSE] ELSE @]
    /\ given' = [given EXCEPT ![m] = @ \ {s}]

\* trust_expires_at passes.
Expire(m) ==
    /\ row[m] # None /\ row[m].trusted /\ ~row[m].past
    /\ row' = [row EXCEPT ![m].past = TRUE]
    /\ UNCHANGED <<load, list, given, changes>>

InScope(s, t) == s = None \/ s = t

-----------------------------------------------------------------------------
(* The identity directory *)

Either(a, b) == IF a # None THEN a ELSE b

\* Fields that telemetry may fill in once; hostname and model follow the rule of ip.
MergedLabelAlways(e, c) == Either(c.label, e.label)

MergedLabel(e, c) == IF ~e.manual \/ e.label = None THEN Either(c.label, e.label) ELSE e.label

Merged(e, c) ==
    LET fill == c.kind = "node" \/ e.kind # "node"
        filled == IF fill
                  THEN [e EXCEPT !.site = c.site, !.kind = IF c.kind = "node" THEN "node" ELSE @,
                                 !.label = MergedLabel(e, c),
                                 !.ip = Either(@, c.ip), !.uplink = Either(@, c.uplink)]
                  ELSE e
    IN  [filled EXCEPT !.manual = @ \/ c.manual, !.trusted = @ \/ c.trusted,
                       !.past = IF c.trusted THEN c.past ELSE @]

mergeNetworkIdentity(dir, m, c) ==
    [dir EXCEPT ![m] = IF @ = None THEN c ELSE Merged(@, c)]

Seen(site, kind, label, ip, uplink) ==
    [site |-> site, kind |-> kind, label |-> label, ip |-> ip, uplink |-> uplink,
     manual |-> FALSE, trusted |-> FALSE, past |-> FALSE]

\* One entry of one of a device's tables; a bridge table has no addresses, and
\* only stations and leases name the client.
MergeEntry(dir, e) ==
    mergeNetworkIdentity(dir, e.mac, Seen(Devices[e.uplink].site, "client", e.host, e.ip, e.uplink))

Entries(d, table, order) == [i \in DOMAIN order |->
    LET e == order[i]
    IN  [mac |-> e.mac, uplink |-> d,
         ip |-> IF table = "bridge" THEN None ELSE e.ip,
         host |-> IF table \in {"stations", "radios", "leases"} THEN e.host ELSE None]]

\* The entries of a device, in the order they are gone through.
addNetworkTelemetryIdentities(d, stations) ==
    LET t == Devices[d]
    IN  Entries(d, "stations", stations) \o Entries(d, "radios", SetToSeq(t.radios))
          \o Entries(d, "arp", SetToSeq(t.arp)) \o Entries(d, "bridge", SetToSeq(t.bridge))
          \o Entries(d, "leases", SetToSeq(t.leases))

\* The administrator's rows first, in a query of their own.
LoadManual(s) ==
    /\ load = None
    /\ load' = [site |-> s, rows |-> row, left |-> {d \in Nodes : InScope(s, Devices[d].site)},
                entries |-> <<>>,
                dir |-> [m \in Macs |->
                   IF row[m] = None \/ ~InScope(s, row[m].site) THEN None
                   ELSE [site |-> row[m].site, kind |-> "client", label |-> Either(row[m].label, row[m].hostname),
                         ip |-> None, uplink |-> None, manual |-> TRUE,
                         trusted |-> row[m].trusted, past |-> row[m].past]]]
    /\ UNCHANGED <<row, list, given, changes>>

\* Then the devices, in any order: each one is a node.
LoadDevice(d) ==
    /\ load # None /\ load.entries = <<>> /\ d \in load.left
    /\ \E stations \in SetToSeqs(Devices[d].stations) :
         load' = [load EXCEPT !.left = @ \ {d},
                    !.entries = addNetworkTelemetryIdentities(d, stations),
                    !.dir = mergeNetworkIdentity(@, d, Seen(Devices[d].site, "node", Devices[d].name, None, None))]
    /\ UNCHANGED <<row, list, given, changes>>

\* And the clients it reports, one after the other.
LoadEntry ==
    /\ load # None /\ load.entries # <<>>
    /\ load' = [load EXCEPT !.dir = MergeEntry(@, Head(load.entries)), !.entries = Tail(@)]
    /\ UNCHANGED <<row, list, given, changes>>

Loaded == load # None /\ load.left = {} /\ load.entries = <<>>

LoadEnds ==
    /\ Loaded
    /\ load' = None
    /\ UNCHANGED <<row, list, given, changes>>

IsTrusted(i) == i.trusted /\ ~i.past

-----------------------------------------------------------------------------
(* The client list *)

Client(conn, e, ip, host) == [conn |-> conn, ip |-> ip, host |-> host, uplink |-> e.uplink]

\* A station replaces whatever another device said of the client before.
Station(c, e) == [c EXCEPT ![e.mac] = Client("wireless", e, None, None)]

LegacyStation(c, e) ==
    [c EXCEPT ![e.mac] = IF @ = None THEN Client("wireless", e, None, None) ELSE @]

Arp(c, e) ==
    [c EXCEPT ![e.mac] = IF @ = None THEN Client("wired", e, e.ip, None)
                         ELSE [@ EXCEPT !.ip = Either(@, e.ip)]]

Bridge(c, e) ==
    [c EXCEPT ![e.mac] = IF @ = None THEN Client("wired", e, None, None) ELSE @]

Lease(c, e) ==
    [c EXCEPT ![e.mac] = IF @ = None THEN Client("wired", e, e.ip, e.host)
                         ELSE [@ EXCEPT !.ip = Either(e.ip, @), !.host = Either(e.host, @)]]

DeviceClients(c, d) ==
    LET of(table) == Entries(d, table, SetToSeq(Devices[d][table]))
    IN  FoldLeft(Lease, FoldLeft(Bridge, FoldLeft(Arp, FoldLeft(LegacyStation,
          FoldLeft(Station, c, of("stations")), of("radios")), of("arp")), of("bridge")), of("leases"))

\* The administrator's name and trust go over what the devices said.
Customized(c, r) ==
    [conn |-> c.conn, ip |-> c.ip, uplink |-> c.uplink,
     host |-> IF r # None /\ r.hostname # None THEN r.hostname ELSE c.host,
     trusted |-> r # None /\ r.trusted /\ ~r.past]

GetClients(s) ==
    /\ load = None
    /\ \E order \in SetToSeqs({d \in Nodes : Devices[d].site = s}) :
         LET found == FoldLeft(DeviceClients, [m \in Macs |-> None], order)
             custom(m) == IF row[m] # None /\ row[m].site = s THEN row[m] ELSE None
         IN  list' = [site |-> s, rows |-> row,
                      clients |-> [m \in {n \in Macs : found[n] # None} |->
                                     Customized(found[m], custom(m))]]
    /\ UNCHANGED <<row, load, given, changes>>

-----------------------------------------------------------------------------
Next ==
    \/ \E m \in Macs, s \in Sites :
         \/ \E n \in Names \cup {None} : UpdateClientHostname(m, s, n)
         \/ \E n \in Names : TrustClient(m, s, n)
         \/ UntrustClient(m, s)
    \/ \E m \in Macs : Expire(m)
    \/ \E s \in Sites \cup {None} : LoadManual(s)
    \/ \E d \in Nodes : LoadDevice(d)
    \/ LoadEntry
    \/ LoadEnds
    \/ \E s \in Sites : GetClients(s)

Spec == Init /\ [][Next]_vars

-----------------------------------------------------------------------------
(* Properties *)

\* What the administrator's row says of a client at a scope.
RowAt(rows, s, m) == IF rows[m] # None /\ InScope(s, rows[m].site) THEN rows[m] ELSE None

\* Whatever the order in which devices and their tables are merged, the label an
\* administrator gave a client or a device stays, telemetry neither gives nor takes
\* trust, a managed device is a node, and the client list shows the typed name and
\* the same trust (mergeNetworkIdentity, GetClientsHandler).
IdentityKept ==
    /\ Loaded => \A m \in Macs :
         LET r == RowAt(load.rows, load.site, m)
             i == load.dir[m]
         IN  /\ r # None => /\ Either(r.label, r.hostname) # None
                               => i.label = Either(r.label, r.hostname)
                            /\ IsTrusted(i) = (r.trusted /\ ~r.past)
             /\ i # None /\ r = None => ~i.trusted
             /\ m \in Nodes /\ InScope(load.site, Devices[m].site) => i.kind = "node"
    /\ list # None => \A m \in DOMAIN list.clients :
         LET r == RowAt(list.rows, list.site, m)
             c == list.clients[m]
         IN  /\ c.trusted = (r # None /\ r.trusted /\ ~r.past)
             /\ r # None /\ r.hostname # None => c.host = r.hostname

\* The trust of a client holds at a site where an administrator gave it: the
\* specification of identity trust speaks of "a trusted operator endpoint for its
\* site".  The row has the MAC for its key, so renaming the client at another site
\* takes its trust there.
TrustScoped == \A m \in Macs : row[m] # None /\ row[m].trusted => row[m].site \in given[m]
=============================================================================
