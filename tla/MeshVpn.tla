------------------------------- MODULE MeshVpn -------------------------------
(***************************************************************************)
(* Mesh VPN: nodes are added to and removed from a mesh, and a sync reads   *)
(* them once and then pushes a script to every device over SSH, one after   *)
(* the other.  The scripts set the named sections of the nodes of that      *)
(* reading and add to their lists; nothing removes what an earlier sync     *)
(* left.  A push that fails is logged and the sync goes on.  Syncs that     *)
(* overlap, and changes of the mesh, interleave with the pushes.  One mesh: *)
(* a device that is in several of them, which share the sections of wg_mesh *)
(* on it, is not modelled.                                                  *)
(***************************************************************************)
EXTENDS Naturals, Sequences, FiniteSets, SequencesExt

CONSTANTS Devices, Hub, Addresses, Syncs, None,
          MaxNodes,  \* nodes added in a behaviour (bound)
          MaxSyncs,  \* syncs started in a behaviour (bound)
          MaxFaults  \* pushes that fail in a behaviour (bound)

VARIABLES
    nodes,   \* rows of vpn_mesh_nodes: device, key and address
    drawn,   \* keys generated so far: a node's key pair is its number
    sync,    \* syncs in progress: what they read and how far they got
    board,   \* wg_mesh as committed on a device
    agreed,  \* the mesh has not changed since the last whole sync read it
    started, faults

vars == <<nodes, drawn, sync, board, agreed, started, faults>>

Slots == 0..Cardinality(Devices) - 1
Key == 0..MaxNodes
Node == [dev : Devices, key : 1..MaxNodes, ip : Addresses]
Peer == [key : Key, ips : SUBSET Addresses]
Board == [key : Key, addresses : SUBSET Addresses, hub : Key, peers : [Slots -> Peer]]
Idle == [plan |-> <<>>, next |-> 0, whole |-> FALSE]

TypeOK ==
    /\ nodes \subseteq Node /\ drawn \in Key
    /\ board \in [Devices -> Board]
    /\ \A s \in Syncs : sync[s].plan \in Seq(Node) /\ sync[s].next \in 0..(Cardinality(Devices) + 1)
    /\ agreed \in BOOLEAN /\ started \in 0..MaxSyncs /\ faults \in 0..MaxFaults

Init ==
    /\ nodes = {} /\ drawn = 0 /\ started = 0 /\ faults = 0 /\ agreed = FALSE
    /\ sync = [s \in Syncs |-> Idle]
    /\ board = [d \in Devices |-> [key |-> 0, addresses |-> {}, hub |-> 0,
                   peers |-> [i \in Slots |-> [key |-> 0, ips |-> {}]]]]

Running(s) == sync[s].next > 0
Unsettled == agreed' = FALSE /\ sync' = [s \in Syncs |-> [sync[s] EXCEPT !.whole = FALSE]]

-----------------------------------------------------------------------------
(* The mesh *)

\* A device and an address occur once in a mesh; every node gets a new key.
AddVPNMeshNode(d, ip) ==
    /\ drawn < MaxNodes
    /\ \A n \in nodes : n.dev # d /\ n.ip # ip
    /\ drawn' = drawn + 1
    /\ nodes' = nodes \cup {[dev |-> d, key |-> drawn + 1, ip |-> ip]}
    /\ Unsettled
    /\ UNCHANGED <<board, started, faults>>

DeleteVPNMeshNode(n) ==
    /\ nodes' = nodes \ {n}
    /\ Unsettled
    /\ UNCHANGED <<drawn, board, started, faults>>

\* The rows of the nodes go with the mesh; the devices keep their tunnels.
DeleteVPNMesh ==
    /\ nodes # {}
    /\ nodes' = {}
    /\ Unsettled
    /\ UNCHANGED <<drawn, board, started, faults>>

-----------------------------------------------------------------------------
(* A sync *)

HubNode(plan) == CHOOSE n \in ToSet(plan) : n.dev = Hub

\* The rows come in any order.  The hub must be one of them, and its public
\* address is asked of the hub itself: public_endpoint is never read.
StartSync(s) ==
    /\ ~Running(s) /\ started < MaxSyncs
    /\ \E n \in nodes : n.dev = Hub
    /\ \E plan \in SetToSeqs(nodes) :
         sync' = [t \in Syncs |->
                    IF t = s THEN [plan |-> plan, next |-> 1,
                                   whole |-> \A u \in Syncs \ {s} : ~Running(u)]
                    ELSE [sync[t] EXCEPT !.whole = FALSE]]
    /\ started' = started + 1
    /\ agreed' = FALSE
    /\ UNCHANGED <<nodes, drawn, board, faults>>

HubUCIOneSection(b, plan, me) ==
    [b EXCEPT !.key = me.key, !.addresses = @ \cup {me.ip},
       !.peers = [i \in Slots |->
          IF i = 0 THEN LET n == Last(plan) IN [key |-> n.key, ips |-> @[i].ips \cup {n.ip}]
          ELSE @[i]]]

\* A peer section per node other than the hub, named by its place in the rows
generateHubUCI(b, plan, me) ==
    [b EXCEPT !.key = me.key, !.addresses = @ \cup {me.ip},
       !.peers = [i \in Slots |->
          IF i < Len(plan) /\ plan[i + 1] # me
          THEN [key |-> plan[i + 1].key, ips |-> @[i].ips \cup {plan[i + 1].ip}]
          ELSE @[i]]]

generateSpokeUCI(b, hub, me) ==
    [b EXCEPT !.key = me.key, !.addresses = @ \cup {me.ip}, !.hub = hub.key]

Script(b, plan, n) ==
    LET hub == HubNode(plan)
    IN  IF n = hub THEN generateHubUCI(b, plan, n) ELSE generateSpokeUCI(b, hub, n)

PushDone(s, ok) ==
    LET whole == sync[s].whole /\ ok
    IN  IF sync[s].next = Len(sync[s].plan)
        THEN sync' = [sync EXCEPT ![s] = Idle] /\ agreed' = whole
        ELSE /\ sync' = [sync EXCEPT ![s].next = @ + 1, ![s].whole = whole]
             /\ UNCHANGED agreed

Push(s) ==
    /\ Running(s)
    /\ LET n == sync[s].plan[sync[s].next]
       IN  board' = [board EXCEPT ![n.dev] = Script(@, sync[s].plan, n)]
    /\ PushDone(s, TRUE)
    /\ UNCHANGED <<nodes, drawn, started, faults>>

\* Logged, and reported to nobody: the request succeeds.
PushFails(s) ==
    /\ Running(s) /\ faults < MaxFaults
    /\ faults' = faults + 1
    /\ PushDone(s, FALSE)
    /\ UNCHANGED <<nodes, drawn, board, started>>

-----------------------------------------------------------------------------
Next ==
    \/ \E d \in Devices, ip \in Addresses : AddVPNMeshNode(d, ip)
    \/ \E n \in nodes : DeleteVPNMeshNode(n)
    \/ DeleteVPNMesh
    \/ \E s \in Syncs : StartSync(s) \/ Push(s) \/ PushFails(s)

Spec == Init /\ [][Next]_vars

-----------------------------------------------------------------------------
\* After a sync that reached every device, alone and with the mesh unchanged
\* since, hub and spokes know each other: whatever earlier syncs, removed
\* nodes and other row orders left on the devices, every spoke runs with its
\* own key and the hub's, and the hub has a peer with the spoke's key and
\* address (vpn_mesh_engine.go, SyncVPNMesh).
MeshCovered ==
    agreed => \A n \in nodes :
        /\ board[n.dev].key = n.key /\ n.ip \in board[n.dev].addresses
        /\ n.dev # Hub =>
             /\ \E h \in nodes : h.dev = Hub /\ board[n.dev].hub = h.key
             /\ \E i \in Slots : board[Hub].peers[i].key = n.key /\ n.ip \in board[Hub].peers[i].ips

\* No peer section of the hub lists an address under the key of another node.
\* The lists only grow, so a removed node's address stays with its successor.
AddressesSeparate ==
    agreed => \A n \in nodes, i \in Slots :
        n.ip \in board[Hub].peers[i].ips => board[Hub].peers[i].key = n.key
=============================================================================
