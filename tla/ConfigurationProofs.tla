------------------------- MODULE ConfigurationProofs -------------------------
(***************************************************************************)
(* A guarded UCI batch is atomic for any number of sessions, of kills and   *)
(* of reboots, and for any age at which a lock is stale, until a script     *)
(* removes another lock than the one whose age it read.  The invariant      *)
(* says who may be inside the script (the holder of a lock that is not yet  *)
(* stale), that nothing moved between the guard and the first mutation, and *)
(* that a snapshot a rollback may copy back holds no change of a session    *)
(* that has not succeeded -- the snapshot of a dead one included.           *)
(*                                                                         *)
(* After a whole sync the nodes of a mesh know each other, for any devices, *)
(* addresses, syncs and faults.                                             *)
(*                                                                         *)
(* After an import template and WLAN rows do not contradict each other, and *)
(* telemetry leaves an administrator's labels and trust alone, in whatever  *)
(* order it is merged.                                                      *)
(***************************************************************************)
EXTENDS ConfigurationParts, TLAPS, FiniteSetTheorems, SequenceTheorems

-----------------------------------------------------------------------------
(* UCI batches *)

\* A session inside the script holds the lock, and the lock is young.
Mutex == \A s \in Sessions : pc[s] \in Running => lock = s /\ age[s] < Stale

\* What the guard saw is still there when the mutations start.
Guarded == \A s \in Sessions : pc[s] = "mutate" => Shown = expect[s]

\* Mutations were made on what the preview saw, and a session that has not started
\* has made none.
Based == \A s \in Sessions : /\ pc[s] = "idle" => basis[s] = None
                             /\ basis[s] # None => basis[s] = expect[s]

\* A session that has not mutated anything, or has failed, has left nothing.
Clean == \A s \in Sessions :
    pc[s] \in {"idle", "snapshot", "guard", "mutate"} \cup Waiting \cup Failed
        => s \notin config \cup staged

\* The snapshot of a running session was taken before its own changes, from a
\* configuration that is still part of the present one.
Saved == \A s \in Sessions :
    pc[s] \in {"guard", "mutate", "commit", "health"} =>
        snapshot = None \/ (snapshot \subseteq config /\ s \notin snapshot)

\* All of it, as long as no lock was removed in place of another.
Safe == Mutex /\ Guarded /\ Based /\ Clean /\ Saved

IInv == TypeOK /\ (~robbed => Safe)

\* While a session is inside the script every other one is outside.
LEMMA Alone ==
    ASSUME Mutex, NEW s \in Sessions, NEW t \in Sessions, pc[s] \in Running, pc[t] \in Running
    PROVE  s = t
BY DEF Mutex

\* A session that copies the snapshot back and leaves keeps it so: only
\* its own change can be in the file and not in the snapshot.
LEMMA RollbackStep ==
    ASSUME TypeOK, Safe, NEW s \in Sessions, pc[s] \in {"mutate", "commit", "health"}, Rollback(s),
           basis' = basis \/ (basis' = [basis EXCEPT ![s] = Shown] /\ Shown = expect[s]),
           UNCHANGED <<expect, waited, age, seen, robbed, kills, reboots>>
    PROVE  Safe'
<1> USE DEF Safe
<1>1. Restored \subseteq config /\ s \notin Restored
  BY DEF Saved, Restored, TypeOK
<1>2. /\ pc' = [pc EXCEPT ![s] = "rolled_back"]
      /\ config' = Restored /\ staged' = {} /\ snapshot' = None /\ lock' = None
  BY DEF Rollback, Goto, Release
<1>3. \A t \in Sessions : pc[t] \in Running => t = s
  BY Alone DEF Running
<1>4. Mutex' /\ Guarded' /\ Saved'
  BY <1>2, <1>3 DEF Mutex, Guarded, Saved, Running, TypeOK
<1>5. Based'
  BY <1>2 DEF Based, TypeOK, Shown
<1>6. Clean'
  BY <1>1, <1>2 DEF Clean, Waiting, Failed, TypeOK
<1> QED BY <1>4, <1>5, <1>6

\* Every step keeps the types, and what has been removed in place of another lock
\* stays removed.
LEMMA BatchTypes == ASSUME TypeOK, [Next]_vars PROVE TypeOK' /\ (robbed => robbed')
<1> USE DEF TypeOK, Goto, Shown, Waiting, Running, Failed
<1>1. ASSUME NEW s \in Sessions, Step(s) \/ Kill(s) PROVE TypeOK' /\ (robbed => robbed')
  <2>1. Restored \subseteq Sessions
    BY DEF Restored
  <2>2. CASE Preview(s) \/ Acquire(s) \/ Blocked(s) \/ Stat(s)
    BY <2>2 DEF Preview, Acquire, Blocked, Stat
  <2>3. CASE Steal(s)
    BY <2>3 DEF Steal
  <2>8. CASE Wait(s)
    BY <2>8 DEF Wait
  <2>4. CASE Snapshot(s) \/ Guard(s) \/ Kill(s)
    BY <2>4 DEF Snapshot, Guard, Release, Kill
  <2>5. CASE Mutate(s)
    BY <2>1, <2>5 DEF Mutate, Rollback, Release
  <2>6. CASE Commit(s)
    BY <2>1, <2>6 DEF Commit, Rollback, Release
  <2>7. CASE Health(s)
    BY <2>1, <2>7 DEF Health, Rollback, Release
  <2> QED BY <1>1, <2>2, <2>3, <2>4, <2>5, <2>6, <2>7, <2>8 DEF Step
<1>2. CASE Tick
  BY <1>2 DEF Tick
<1>3. CASE Reboot
  BY <1>3 DEF Reboot
<1>4. CASE UNCHANGED vars
  BY <1>4 DEF vars
<1> QED BY <1>1, <1>2, <1>3, <1>4 DEF Next

\* Every line of the script, the clock, a kill and a reboot keep the rest, unless
\* they remove one lock in place of another.
LEMMA BatchStep == ASSUME TypeOK, Safe, [Next]_vars, ~robbed' PROVE Safe'
<1> USE StaleAssumption, NoneAssumption DEF Safe
<1>1. ASSUME NEW s \in Sessions, Preview(s) PROVE Safe'
  BY <1>1 DEF Preview, Goto, Shown, TypeOK, Mutex, Guarded, Based, Clean, Saved, Running, Waiting, Failed
<1>2. ASSUME NEW s \in Sessions, Acquire(s) PROVE Safe'
  <2>1. Guarded' /\ Based' /\ Clean' /\ Saved'
    BY <1>2 DEF Acquire, Goto, Shown, TypeOK, Guarded, Based, Clean, Saved, Running, Waiting, Failed
  <2>2. Mutex'
    BY <1>2 DEF Acquire, LockFree, Goto, Mutex, TypeOK, Running
  <2> QED BY <2>1, <2>2
<1>3. ASSUME NEW s \in Sessions, Blocked(s) \/ Stat(s) PROVE Safe'
  BY <1>3 DEF Blocked, Stat, Goto, Shown, TypeOK, Mutex, Guarded, Based, Clean, Saved, Running, Waiting, Failed
<1>4. ASSUME NEW s \in Sessions, Steal(s) PROVE Safe'
  <2>1. \A t \in Sessions : pc[t] \notin Running
    <3>1. lock = None \/ lock = seen[s]
      BY <1>4 DEF Steal, TypeOK
    <3>2. seen[s] \in Sessions => ~(age[seen[s]] < Stale)
      BY <1>4 DEF Steal, TooOld, TypeOK
    <3> QED BY <3>1, <3>2 DEF Mutex
  <2> QED BY <1>4, <2>1 DEF Steal, Goto, Shown, TypeOK, Mutex, Guarded, Based, Clean, Saved, Running, Waiting, Failed
<1>5. ASSUME NEW s \in Sessions, Wait(s) PROVE Safe'
  BY <1>5 DEF Wait, Goto, Shown, TypeOK, Mutex, Guarded, Based, Clean, Saved, Running, Waiting, Failed
<1>6. ASSUME NEW s \in Sessions, Snapshot(s) PROVE Safe'
  <2>1. \A t \in Sessions : pc[t] \in Running => t = s
    BY <1>6, Alone DEF Snapshot, Running
  <2>2. Mutex' /\ Guarded' /\ Based' /\ Clean'
    BY <1>6 DEF Snapshot, Goto, Shown, TypeOK, Mutex, Guarded, Based, Clean, Running, Waiting, Failed
  <2>3. Saved'
    BY <1>6, <2>1 DEF Snapshot, Goto, TypeOK, Clean, Saved, Running
  <2> QED BY <2>2, <2>3
<1>7. ASSUME NEW s \in Sessions, Guard(s) PROVE Safe'
  <2>1. \A t \in Sessions : pc[t] \in Running => t = s
    BY <1>7, Alone DEF Guard, Running
  <2>2. Guarded' /\ Based' /\ Clean' /\ Saved'
    BY <1>7 DEF Guard, Goto, Release, Shown, TypeOK, Guarded, Based, Clean, Saved, Running, Waiting, Failed
  <2>3. Mutex'
    BY <1>7, <2>1 DEF Guard, Goto, Release, Mutex, TypeOK, Running
  <2> QED BY <2>2, <2>3
<1>8. ASSUME NEW s \in Sessions, Mutate(s) PROVE Safe'
  <2>1. \A t \in Sessions : pc[t] \in Running => t = s
    BY <1>8, Alone DEF Mutate, Running
  <2>2. CASE Rollback(s)
    BY <1>8, <2>2, RollbackStep DEF Mutate, Guarded
  <2>3. CASE /\ staged' = staged \cup {s}
             /\ Goto(s, "commit")
             /\ UNCHANGED <<lock, config, snapshot>>
    <3>1. Mutex' /\ Guarded' /\ Saved'
      BY <1>8, <2>1, <2>3 DEF Mutate, Goto, TypeOK, Mutex, Guarded, Saved, Running
    <3>2. Based' /\ Clean'
      BY <1>8, <2>3 DEF Mutate, Goto, Shown, TypeOK, Guarded, Based, Clean, Waiting, Failed
    <3> QED BY <3>1, <3>2
  <2> QED BY <1>8, <2>2, <2>3 DEF Mutate
<1>9. ASSUME NEW s \in Sessions, Commit(s) PROVE Safe'
  <2>1. \A t \in Sessions : pc[t] \in Running => t = s
    BY <1>9, Alone DEF Commit, Running
  <2>2. CASE Rollback(s)
    BY <1>9, <2>2, RollbackStep DEF Commit
  <2>3. CASE /\ config' = Shown /\ staged' = {}
             /\ Goto(s, "health")
             /\ UNCHANGED <<lock, snapshot>>
    <3>1. Mutex' /\ Guarded' /\ Saved'
      BY <1>9, <2>1, <2>3 DEF Commit, Goto, Shown, TypeOK, Mutex, Guarded, Saved, Running
    <3>2. Based' /\ Clean'
      BY <1>9, <2>3 DEF Commit, Goto, Shown, TypeOK, Based, Clean, Waiting, Failed
    <3> QED BY <3>1, <3>2
  <2> QED BY <1>9, <2>2, <2>3 DEF Commit
<1>10. ASSUME NEW s \in Sessions, Health(s) PROVE Safe'
  <2>1. \A t \in Sessions : pc[t] \in Running => t = s
    BY <1>10, Alone DEF Health, Running
  <2>2. CASE Rollback(s)
    BY <1>10, <2>2, RollbackStep DEF Health
  <2>3. CASE /\ snapshot' = None
             /\ Goto(s, "done")
             /\ Release
             /\ UNCHANGED <<config, staged>>
    BY <1>10, <2>1, <2>3 DEF Health, Goto, Release, Shown, TypeOK, Mutex, Guarded, Based, Clean,
                            Saved, Running, Waiting, Failed
  <2> QED BY <1>10, <2>2, <2>3 DEF Health
<1>11. CASE Tick
  BY <1>11 DEF Tick, Young, Shown, TypeOK, Mutex, Guarded, Based, Clean, Saved
<1>12. ASSUME NEW s \in Sessions, Kill(s) PROVE Safe'
  BY <1>12 DEF Kill, Goto, Shown, TypeOK, Mutex, Guarded, Based, Clean, Saved, Running, Waiting, Failed
<1>13. CASE Reboot
  <2>1. /\ \A s \in Sessions : pc'[s] \notin Running
        /\ \A s \in Sessions : pc'[s] = pc[s] \/ pc'[s] = "dead"
    BY <1>13 DEF Reboot, TypeOK, Running
  <2>2. Mutex' /\ Guarded' /\ Saved'
    BY <2>1 DEF Mutex, Guarded, Saved, Running
  <2>3. Based' /\ Clean'
    BY <1>13, <2>1 DEF Reboot, Based, Clean, Waiting, Failed
  <2> QED BY <2>2, <2>3
<1>14. CASE UNCHANGED vars
  BY <1>14 DEF vars, Shown, TypeOK, Mutex, Guarded, Based, Clean, Saved
<1> QED BY <1>1, <1>2, <1>3, <1>4, <1>5, <1>6, <1>7, <1>8, <1>9, <1>10, <1>11, <1>12, <1>13, <1>14
        DEF Next, Step

\* Batches of sessions that share lock, snapshot file and staging area change a
\* device only on top of what their preview saw, and leave nothing when they fail,
\* until a script removes another lock than the one whose age it read.
THEOREM BatchesAreAtomic == Spec => []BatchAtomic
<1>1. Init => IInv
  <2> SUFFICES ASSUME Init PROVE IInv
    OBVIOUS
  <2>1. TypeOK
    BY DEF Init, TypeOK
  <2>2. Mutex /\ Guarded /\ Saved
    BY DEF Init, Mutex, Guarded, Saved, Running
  <2>3. Based /\ Clean
    BY DEF Init, Based, Clean
  <2> QED BY <2>1, <2>2, <2>3 DEF IInv, Safe
<1>2. IInv /\ [Next]_vars => IInv'
  <2>1. ASSUME IInv, [Next]_vars PROVE IInv'
    <3>1. TypeOK' /\ (robbed => robbed')
      BY <2>1, BatchTypes DEF IInv
    <3>2. ASSUME ~robbed' PROVE Safe'
      BY <2>1, <3>1, <3>2, BatchStep DEF IInv
    <3> QED BY <3>1, <3>2 DEF IInv
  <2> QED BY <2>1
<1>3. IInv => BatchAtomic
  BY DEF IInv, Safe, Based, Clean, BatchAtomic
<1> QED BY <1>1, <1>2, <1>3, PTL DEF Spec

-----------------------------------------------------------------------------
(* The mesh.  A sync that is still whole is alone and has read the mesh as it *)
(* is, so what it has pushed so far is what the mesh needs: the invariant     *)
(* says so of every node before the next one, whatever was on the boards.     *)

\* The board of a node has what a script made of this plan sets.
Covered(b, plan, n) ==
    /\ b[n.dev].key = n.key /\ n.ip \in b[n.dev].addresses
    /\ n.dev # Hub => b[n.dev].hub = V!HubNode(plan).key
    /\ n.dev = Hub => \A i \in V!Slots : i < Len(plan) /\ plan[i + 1] # n =>
          b[Hub].peers[i].key = plan[i + 1].key /\ plan[i + 1].ip \in b[Hub].peers[i].ips

SyncRow == [plan : Seq(V!Node), next : Nat, whole : BOOLEAN]

MeshTypes ==
    /\ nodes \subseteq V!Node /\ drawn \in V!Key
    /\ board \in [Devices -> V!Board] /\ sync \in [Syncs -> SyncRow] /\ agreed \in BOOLEAN

\* A device is one node of the mesh.
OneNode == \A m, n \in nodes : m.dev = n.dev => m = n

\* A plan has the hub, and no more nodes than there are devices.
GoodPlan(plan) ==
    Len(plan) <= Cardinality(Devices) /\ \E i \in 1..Len(plan) : plan[i].dev = Hub

\* A sync is at one of its nodes.
WithinPlan ==
    \A s \in Syncs : V!Running(s) => sync[s].next <= Len(sync[s].plan) /\ GoodPlan(sync[s].plan)

\* The plan of a sync goes through the nodes of a mesh, once.
PlanOf(plan, mesh) ==
    /\ {plan[i] : i \in 1..Len(plan)} = mesh
    /\ \A i, j \in 1..Len(plan) : i # j => plan[i] # plan[j]

\* A sync that is whole is alone, and has pushed to the nodes before the next one.
WholeSync ==
    \A s \in Syncs : sync[s].whole =>
        /\ V!Running(s) /\ \A u \in Syncs \ {s} : ~V!Running(u)
        /\ PlanOf(sync[s].plan, nodes)
        /\ \A j \in 1..Len(sync[s].plan) :
              j < sync[s].next => Covered(board, sync[s].plan, sync[s].plan[j])

\* While hub and spokes know each other no sync runs.
Settled == agreed => \A s \in Syncs : ~V!Running(s)

MeshInv == MeshTypes /\ OneNode /\ WithinPlan /\ WholeSync /\ Settled /\ MeshCovered

\* The operators of the library are those the mesh uses.
LEMMA MeshLibrary ==
    /\ \A S : V!Cardinality(S) = Cardinality(S)
    /\ \A q : V!ToSet(q) = {q[i] : i \in DOMAIN q}
<1>1. \A S : V!Cardinality(S) = Cardinality(S)
  BY Zenon DEF V!Cardinality, Cardinality
<1>2. \A q : V!ToSet(q) = {q[i] : i \in DOMAIN q}
  BY DEF V!ToSet
<1>3. QED
  BY <1>1, <1>2

\* The hub has a slot for each device.
LEMMA SlotsAre == Cardinality(Devices) \in Nat /\ V!Slots = 0..(Cardinality(Devices) - 1)
<1>1. Cardinality(Devices) \in Nat
  BY MeshAssumption, FS_CardinalityType
<1>2. V!Cardinality(Devices) = Cardinality(Devices)
  BY MeshLibrary
<1>3. QED
  BY <1>1, <1>2 DEF V!Slots

\* Nothing is agreed at the start, and nothing runs.
LEMMA MeshInit == ASSUME V!Init PROVE MeshInv
<1>2. V!Idle \in SyncRow
  BY DEF V!Idle, SyncRow
<1>3. [key |-> 0, addresses |-> {}, hub |-> 0,
       peers |-> [i \in V!Slots |-> [key |-> 0, ips |-> {}]]] \in V!Board
  BY MeshAssumption DEF V!Board, V!Key, V!Peer
<1>4. MeshTypes
  <2>1. board \in [Devices -> V!Board]
    BY <1>3 DEF V!Init
  <2>2. sync \in [Syncs -> SyncRow]
    BY <1>2 DEF V!Init
  <2>3. drawn \in V!Key /\ nodes \subseteq V!Node
    BY MeshAssumption DEF V!Init, V!Key
  <2>4. agreed \in BOOLEAN
    BY DEF V!Init
  <2>5. QED
    BY <2>1, <2>2, <2>3, <2>4 DEF MeshTypes
<1>5. \A s \in Syncs : ~V!Running(s) /\ ~sync[s].whole
  BY DEF V!Init, V!Running, V!Idle
<1>6. QED
  BY <1>4, <1>5 DEF V!Init, MeshInv, OneNode, WithinPlan, WholeSync, Settled, MeshCovered, V!MeshCovered

\* A change of the mesh takes wholeness from every sync.
LEMMA UnsettledStep ==
    ASSUME MeshInv, V!Unsettled, UNCHANGED board, nodes' \subseteq V!Node, drawn' \in V!Key, OneNode'
    PROVE  MeshInv'
<1>1. sync \in [Syncs -> SyncRow]
  BY DEF MeshInv, MeshTypes
<1>2. \A s \in Syncs : [sync[s] EXCEPT !.whole = FALSE] \in SyncRow
  BY <1>1 DEF SyncRow
<1>3. \A s \in Syncs : /\ sync'[s] \in SyncRow /\ ~sync'[s].whole
                       /\ sync'[s].plan = sync[s].plan /\ sync'[s].next = sync[s].next
  BY <1>1, <1>2 DEF V!Unsettled, SyncRow
<1>4. MeshTypes'
  BY <1>3 DEF MeshInv, MeshTypes, V!Unsettled
<1>5. WithinPlan'
  BY <1>3 DEF MeshInv, WithinPlan, V!Running
<1>6. QED
  BY <1>3, <1>4, <1>5 DEF MeshInv, WholeSync, Settled, MeshCovered, V!MeshCovered, V!Unsettled

\* Nodes come and go.
LEMMA NodesStep ==
    ASSUME MeshInv,
           \/ \E d \in Devices, ip \in Addresses : V!AddVPNMeshNode(d, ip)
           \/ \E n \in nodes : V!DeleteVPNMeshNode(n)
           \/ V!DeleteVPNMesh
    PROVE  MeshInv'
<1>1. nodes \subseteq V!Node /\ drawn \in 0..MaxNodes
  BY DEF MeshInv, MeshTypes, V!Key
<1>2. ASSUME NEW d \in Devices, NEW ip \in Addresses, V!AddVPNMeshNode(d, ip) PROVE MeshInv'
  <2>1. drawn' = drawn + 1 /\ drawn' \in V!Key /\ drawn + 1 \in 1..MaxNodes
    <3>1. drawn < MaxNodes /\ drawn' = drawn + 1
      BY <1>2 DEF V!AddVPNMeshNode
    <3>2. QED
      BY <1>1, <3>1, MeshAssumption DEF V!Key
  <2>2. [dev |-> d, key |-> drawn + 1, ip |-> ip] \in V!Node
    BY <2>1 DEF V!Node
  <2>3. nodes' \subseteq V!Node /\ OneNode'
    BY <1>1, <1>2, <2>2 DEF V!AddVPNMeshNode, MeshInv, OneNode
  <2>4. QED
    BY <1>2, <2>1, <2>3, UnsettledStep DEF V!AddVPNMeshNode
<1>3. CASE V!DeleteVPNMesh \/ \E n \in nodes : V!DeleteVPNMeshNode(n)
  <2>1. nodes' \subseteq nodes /\ drawn' = drawn /\ V!Unsettled /\ UNCHANGED board
    BY <1>3 DEF V!DeleteVPNMesh, V!DeleteVPNMeshNode
  <2>2. OneNode'
    BY <2>1 DEF MeshInv, OneNode
  <2>3. QED
    BY <1>1, <2>1, <2>2, UnsettledStep DEF V!Key
<1>4. QED
  BY <1>2, <1>3

\* The rows of the mesh in any order go through it once, and there are no more of
\* them than devices.
LEMMA RowsInOrder ==
    ASSUME MeshInv, NEW plan \in V!SetToSeqs(nodes)
    PROVE  plan \in Seq(V!Node) /\ Len(plan) <= Cardinality(Devices) /\ PlanOf(plan, nodes)
<1> DEFINE dev == [n \in nodes |-> n.dev]
<1>1. nodes \subseteq V!Node
  BY DEF MeshInv, MeshTypes
<1>2. \A n \in nodes : n.dev \in Devices
  BY <1>1 DEF V!Node
<1>3. dev \in Injection(nodes, Devices)
  BY <1>2 DEF MeshInv, OneNode, Injection, IsInjective
<1>4. IsFiniteSet(nodes) /\ Cardinality(nodes) <= Cardinality(Devices)
  BY <1>3, MeshAssumption, FS_Injection
<1>5. Cardinality(nodes) \in Nat
  BY <1>4, FS_CardinalityType
<1>6. /\ plan \in [1..Cardinality(nodes) -> nodes]
      /\ \A i, j \in 1..Cardinality(nodes) : i # j => plan[i] # plan[j]
  BY MeshLibrary DEF V!SetToSeqs
<1>7. plan \in Injection(1..Cardinality(nodes), nodes)
  BY <1>6 DEF Injection, IsInjective
<1>8. Cardinality(1..Cardinality(nodes)) = Cardinality(nodes)
  BY <1>5, FS_Interval
<1>9. plan \in Surjection(1..Cardinality(nodes), nodes)
  BY <1>4, <1>7, <1>8, FS_Injection
<1>10. plan \in Seq(V!Node) /\ Len(plan) = Cardinality(nodes)
  BY <1>1, <1>5, <1>6
<1>11. QED
  BY <1>4, <1>6, <1>9, <1>10 DEF Surjection, PlanOf

\* A sync starts with the rows of the mesh, and takes wholeness from the others.
LEMMA StartStep == ASSUME MeshInv, NEW s \in Syncs, V!StartSync(s) PROVE MeshInv'
<1>1. sync \in [Syncs -> SyncRow]
  BY DEF MeshInv, MeshTypes
<1>2. PICK plan \in V!SetToSeqs(nodes) :
        sync' = [t \in Syncs |->
                    IF t = s THEN [plan |-> plan, next |-> 1,
                                   whole |-> \A u \in Syncs \ {s} : ~V!Running(u)]
                    ELSE [sync[t] EXCEPT !.whole = FALSE]]
  BY DEF V!StartSync
<1>3. plan \in Seq(V!Node) /\ Len(plan) <= Cardinality(Devices) /\ PlanOf(plan, nodes)
  BY RowsInOrder
<1>4. PICK h \in nodes : h.dev = Hub
  BY DEF V!StartSync
<1>5. PICK i \in 1..Len(plan) : plan[i] = h
  BY <1>3, <1>4 DEF PlanOf
<1>6. GoodPlan(plan) /\ 1 <= Len(plan)
  BY <1>3, <1>4, <1>5 DEF GoodPlan
<1>7. sync'[s].plan = plan /\ sync'[s].next = 1 /\ sync'[s] \in SyncRow
  BY <1>2, <1>3 DEF SyncRow
<1>8. \A t \in Syncs \ {s} : /\ sync'[t] \in SyncRow /\ ~sync'[t].whole
                             /\ sync'[t].plan = sync[t].plan /\ sync'[t].next = sync[t].next
  BY <1>1, <1>2 DEF SyncRow
<1>9. UNCHANGED <<nodes, drawn, board>> /\ agreed' = FALSE
  BY DEF V!StartSync
<1>10. MeshTypes' /\ OneNode'
  BY <1>2, <1>7, <1>8, <1>9 DEF MeshInv, MeshTypes, OneNode
<1>11. WithinPlan'
  BY <1>6, <1>7, <1>8 DEF MeshInv, WithinPlan, V!Running
<1>12. WholeSync'
  <2>1. SUFFICES ASSUME NEW t \in Syncs, sync'[t].whole
                 PROVE  /\ V!Running(t)' /\ \A u \in Syncs \ {t} : ~V!Running(u)'
                        /\ PlanOf(sync'[t].plan, nodes')
                        /\ \A j \in 1..Len(sync'[t].plan) :
                              j < sync'[t].next => Covered(board', sync'[t].plan, sync'[t].plan[j])
    BY DEF WholeSync
  <2>2. t = s
    BY <1>8, <2>1
  <2>3. \A u \in Syncs \ {s} : ~V!Running(u)
    BY <1>2, <2>1, <2>2
  <2>4. \A u \in Syncs \ {s} : ~V!Running(u)'
    BY <1>8, <2>3 DEF V!Running
  <2>5. QED
    BY <1>3, <1>7, <1>9, <2>2, <2>4 DEF V!Running
<1>13. QED
  BY <1>9, <1>10, <1>11, <1>12 DEF MeshInv, Settled, MeshCovered, V!MeshCovered

\* The hub of a plan is one of its nodes.
LEMMA HubOfPlan ==
    ASSUME NEW plan \in Seq(V!Node), GoodPlan(plan)
    PROVE  /\ V!HubNode(plan) \in V!Node /\ V!HubNode(plan).dev = Hub
           /\ \E i \in 1..Len(plan) : V!HubNode(plan) = plan[i]
<1>1. V!ToSet(plan) = {plan[i] : i \in 1..Len(plan)}
  BY MeshLibrary
<1>2. \E n \in V!ToSet(plan) : n.dev = Hub
  BY <1>1 DEF GoodPlan
<1>3. V!HubNode(plan) \in V!ToSet(plan) /\ V!HubNode(plan).dev = Hub
  BY <1>2 DEF V!HubNode
<1>4. QED
  BY <1>1, <1>3

\* What a script makes of a board.
LEMMA ScriptSets ==
    ASSUME NEW plan \in Seq(V!Node), GoodPlan(plan), NEW n \in V!Node, NEW b \in V!Board
    PROVE  LET c == V!Script(b, plan, n)
           IN  /\ c \in V!Board /\ c.key = n.key /\ n.ip \in c.addresses
               /\ n # V!HubNode(plan) => c.hub = V!HubNode(plan).key
               /\ n = V!HubNode(plan) => \A i \in V!Slots : i < Len(plan) /\ plan[i + 1] # n =>
                    c.peers[i].key = plan[i + 1].key /\ plan[i + 1].ip \in c.peers[i].ips
<1>1. \A m \in V!Node : m.key \in V!Key /\ m.ip \in Addresses
  BY MeshAssumption DEF V!Node, V!Key
<1>2. /\ b.key \in V!Key /\ b.addresses \in SUBSET Addresses /\ b.hub \in V!Key
      /\ b.peers \in [V!Slots -> V!Peer]
  BY DEF V!Board
<1>3. CASE n # V!HubNode(plan)
  <2>1. V!Script(b, plan, n) = V!generateSpokeUCI(b, V!HubNode(plan), n)
    BY <1>3 DEF V!Script
  <2>2. V!HubNode(plan).key \in V!Key
    <3>1. V!HubNode(plan) \in V!Node
      BY HubOfPlan
    <3>2. QED
      BY <1>1, <3>1
  <2> DEFINE c == V!generateSpokeUCI(b, V!HubNode(plan), n)
  <2>3. /\ c.key = n.key /\ c.addresses = b.addresses \cup {n.ip}
        /\ c.hub = V!HubNode(plan).key /\ c.peers = b.peers
    BY DEF V!generateSpokeUCI, V!Board
  <2>4. c \in V!Board
    BY <1>1, <2>2 DEF V!generateSpokeUCI, V!Board
  <2>5. QED
    BY <1>3, <2>1, <2>3, <2>4
<1>4. CASE n = V!HubNode(plan)
  <2> DEFINE peers == [i \in V!Slots |->
          IF i < Len(plan) /\ plan[i + 1] # n
          THEN [key |-> plan[i + 1].key, ips |-> b.peers[i].ips \cup {plan[i + 1].ip}]
          ELSE b.peers[i]]
  <2>1. V!Script(b, plan, n) = V!generateHubUCI(b, plan, n)
    BY <1>4 DEF V!Script
  <2> DEFINE c == V!generateHubUCI(b, plan, n)
  <2>2. /\ c.key = n.key /\ c.addresses = b.addresses \cup {n.ip} /\ c.hub = b.hub
        /\ c = [b EXCEPT !.key = n.key, !.addresses = b.addresses \cup {n.ip}, !.peers = peers]
        /\ c.peers = peers
    BY DEF V!generateHubUCI, V!Board
  <2>3. \A i \in V!Slots : i \in Nat
    BY SlotsAre, SMT
  <2>4. \A i \in V!Slots : i < Len(plan) => plan[i + 1] \in V!Node
    BY <2>3
  <2>5. \A i \in V!Slots : b.peers[i].ips \in SUBSET Addresses
    BY <1>2 DEF V!Peer
  <2>6. \A i \in V!Slots : i < Len(plan) =>
          [key |-> plan[i + 1].key, ips |-> b.peers[i].ips \cup {plan[i + 1].ip}] \in V!Peer
    BY <1>1, <2>4, <2>5 DEF V!Peer
  <2>7. peers \in [V!Slots -> V!Peer]
    BY <1>2, <2>6
  <2>8. c \in V!Board
    BY <1>1, <1>2, <2>2, <2>7 DEF V!Board
  <2>9. \A i \in V!Slots : i < Len(plan) /\ plan[i + 1] # n =>
          peers[i].key = plan[i + 1].key /\ plan[i + 1].ip \in peers[i].ips
    OBVIOUS
  <2>10. QED
    BY <1>4, <2>1, <2>2, <2>8, <2>9
<1>5. QED
  BY <1>3, <1>4

\* Hub and spokes know each other once all nodes of the mesh are covered.
LEMMA AllCovered ==
    ASSUME NEW mesh, NEW plan \in Seq(V!Node), NEW b, GoodPlan(plan), PlanOf(plan, mesh),
           \A j \in 1..Len(plan) : Covered(b, plan, plan[j])
    PROVE  \A n \in mesh :
             /\ b[n.dev].key = n.key /\ n.ip \in b[n.dev].addresses
             /\ n.dev # Hub =>
                  /\ \E h \in mesh : h.dev = Hub /\ b[n.dev].hub = h.key
                  /\ \E i \in V!Slots : b[Hub].peers[i].key = n.key /\ n.ip \in b[Hub].peers[i].ips
<1>1. SUFFICES ASSUME NEW n \in mesh
               PROVE  /\ b[n.dev].key = n.key /\ n.ip \in b[n.dev].addresses
                      /\ n.dev # Hub =>
                         /\ \E h \in mesh : h.dev = Hub /\ b[n.dev].hub = h.key
                         /\ \E i \in V!Slots : b[Hub].peers[i].key = n.key /\ n.ip \in b[Hub].peers[i].ips
  OBVIOUS
<1>2. PICK j \in 1..Len(plan) : n = plan[j]
  BY DEF PlanOf
<1>3. PICK k \in 1..Len(plan) : V!HubNode(plan) = plan[k] /\ plan[k].dev = Hub
  BY HubOfPlan
<1>4. V!HubNode(plan) \in mesh
  BY <1>3 DEF PlanOf
<1>5. Covered(b, plan, n) /\ Covered(b, plan, plan[k])
  BY <1>2
<1>6. ASSUME n.dev # Hub
      PROVE  \E i \in V!Slots : b[Hub].peers[i].key = n.key /\ n.ip \in b[Hub].peers[i].ips
  <2>1. Cardinality(Devices) \in Nat /\ V!Slots = 0..(Cardinality(Devices) - 1)
    BY SlotsAre
  <2>2. j - 1 \in V!Slots /\ j - 1 < Len(plan) /\ (j - 1) + 1 = j
    BY <2>1 DEF GoodPlan
  <2>3. plan[j] # plan[k]
    BY <1>2, <1>3, <1>6
  <2>4. QED
    BY <1>2, <1>3, <1>5, <2>2, <2>3 DEF Covered
<1>7. QED
  BY <1>3, <1>4, <1>5, <1>6 DEF Covered

\* A push that is done, or has failed, is behind the sync.
LEMMA DoneStep ==
    ASSUME MeshInv, NEW s \in Syncs, NEW ok \in BOOLEAN, V!Running(s), V!PushDone(s, ok),
           UNCHANGED <<nodes, drawn>>, board' \in [Devices -> V!Board],
           NEW plan, plan = sync[s].plan, NEW k, k = sync[s].next,
           sync[s].whole /\ ok => \A j \in 1..Len(plan) : j <= k => Covered(board', plan, plan[j])
    PROVE  MeshInv'
<1>1. sync \in [Syncs -> SyncRow] /\ plan \in Seq(V!Node) /\ k \in Nat /\ sync[s].whole \in BOOLEAN
  BY DEF MeshInv, MeshTypes, SyncRow
<1>2. k <= Len(plan) /\ GoodPlan(plan)
  BY DEF MeshInv, WithinPlan
<1>3. agreed = FALSE
  BY DEF MeshInv, Settled, MeshTypes
<1>4. \A t \in Syncs \ {s} : ~sync[t].whole
  BY DEF MeshInv, WholeSync
<1>5. sync[s].whole => PlanOf(plan, nodes) /\ \A u \in Syncs \ {s} : ~V!Running(u)
  BY DEF MeshInv, WholeSync
<1>6. OneNode'
  BY DEF MeshInv, OneNode
<1>7. nodes' \subseteq V!Node /\ drawn' \in V!Key
  BY DEF MeshInv, MeshTypes
<1> DEFINE whole == sync[s].whole /\ ok
<1>8. CASE k = Len(plan)
  <2>1. sync' = [sync EXCEPT ![s] = V!Idle] /\ agreed' = whole
    BY <1>8 DEF V!PushDone
  <2>2. V!Idle \in SyncRow /\ V!Idle.next = 0 /\ V!Idle.whole = FALSE
    BY DEF V!Idle, SyncRow
  <2>3. sync'[s] = V!Idle /\ \A t \in Syncs \ {s} : sync'[t] = sync[t]
    BY <1>1, <2>1
  <2>4. sync' \in [Syncs -> SyncRow]
    BY <1>1, <2>1, <2>2
  <2>5. MeshTypes'
    BY <1>1, <1>7, <2>1, <2>4 DEF MeshTypes
  <2>6. WithinPlan'
    BY <2>2, <2>3 DEF MeshInv, WithinPlan, V!Running
  <2>7. WholeSync'
    BY <1>4, <2>2, <2>3 DEF WholeSync
  <2>8. Settled'
    <3>1. ~V!Running(s)'
      BY <2>2, <2>3 DEF V!Running
    <3>2. agreed' => \A u \in Syncs \ {s} : ~V!Running(u)'
      BY <1>5, <2>1, <2>3 DEF V!Running
    <3>3. QED
      BY <3>1, <3>2 DEF Settled
  <2>9. MeshCovered'
    <3>1. SUFFICES ASSUME agreed' PROVE MeshCovered'
      BY DEF MeshCovered, V!MeshCovered
    <3>2. PlanOf(plan, nodes') /\ \A j \in 1..Len(plan) : Covered(board', plan, plan[j])
      BY <1>1, <1>5, <1>8, <2>1, <3>1
    <3>3. \A n \in nodes' :
             /\ board'[n.dev].key = n.key /\ n.ip \in board'[n.dev].addresses
             /\ n.dev # Hub =>
                  /\ \E h \in nodes' : h.dev = Hub /\ board'[n.dev].hub = h.key
                  /\ \E i \in V!Slots :
                        board'[Hub].peers[i].key = n.key /\ n.ip \in board'[Hub].peers[i].ips
      BY <1>1, <1>2, <3>2, AllCovered, SMTT(20)
    <3>4. QED
      BY <3>3 DEF MeshCovered, V!MeshCovered
  <2>10. QED
    BY <1>6, <2>5, <2>6, <2>7, <2>8, <2>9 DEF MeshInv
<1>9. CASE k # Len(plan)
  <2>1. sync' = [sync EXCEPT ![s].next = @ + 1, ![s].whole = whole] /\ agreed' = agreed
    BY <1>9 DEF V!PushDone
  <2>2. /\ sync'[s] \in SyncRow /\ sync'[s].plan = plan /\ sync'[s].next = k + 1
        /\ sync'[s].whole = whole
        /\ \A t \in Syncs \ {s} : sync'[t] = sync[t]
    <3>1. sync' = [sync EXCEPT ![s] = [[sync[s] EXCEPT !.next = k + 1] EXCEPT !.whole = whole]]
      BY <1>1, <2>1
    <3>2. /\ [sync[s] EXCEPT !.next = k + 1] \in SyncRow
          /\ [sync[s] EXCEPT !.next = k + 1].plan = plan
          /\ [sync[s] EXCEPT !.next = k + 1].next = k + 1
      BY <1>1 DEF SyncRow
    <3>3. \A r \in SyncRow : /\ [r EXCEPT !.whole = whole] \in SyncRow
                             /\ [r EXCEPT !.whole = whole].plan = r.plan
                             /\ [r EXCEPT !.whole = whole].next = r.next
                             /\ [r EXCEPT !.whole = whole].whole = whole
      BY <1>1 DEF SyncRow
    <3>4. QED
      BY <1>1, <3>1, <3>2, <3>3
  <2>3. sync' \in [Syncs -> SyncRow]
    BY <1>1, <2>1, <2>2
  <2>4. MeshTypes'
    BY <1>3, <1>7, <2>1, <2>3 DEF MeshTypes
  <2>5. WithinPlan'
    BY <1>1, <1>2, <1>9, <2>2 DEF MeshInv, WithinPlan, V!Running
  <2>6. WholeSync'
    <3>1. SUFFICES ASSUME sync'[s].whole
                   PROVE  /\ V!Running(s)' /\ \A u \in Syncs \ {s} : ~V!Running(u)'
                          /\ PlanOf(plan, nodes')
                          /\ \A j \in 1..Len(plan) : j < k + 1 => Covered(board', plan, plan[j])
      BY <1>4, <2>2 DEF WholeSync
    <3>2. V!Running(s)' /\ \A u \in Syncs \ {s} : ~V!Running(u)'
      BY <1>1, <1>5, <2>2, <3>1 DEF V!Running
    <3>3. \A j \in 1..Len(plan) : j < k + 1 => Covered(board', plan, plan[j])
      BY <1>1, <2>2, <3>1
    <3>4. QED
      BY <1>5, <2>2, <3>1, <3>2, <3>3
  <2>7. QED
    BY <1>3, <1>6, <2>1, <2>4, <2>5, <2>6 DEF MeshInv, Settled, MeshCovered, V!MeshCovered
<1>10. QED
  BY <1>8, <1>9

\* A push brings the next node up to date and leaves the boards of the others alone.
LEMMA PushStep == ASSUME MeshInv, NEW s \in Syncs, V!Push(s) PROVE MeshInv'
<1>1. PICK plan, k : plan = sync[s].plan /\ k = sync[s].next
  OBVIOUS
<1>2. plan \in Seq(V!Node) /\ k \in Nat /\ nodes \subseteq V!Node /\ board \in [Devices -> V!Board]
  BY <1>1 DEF MeshInv, MeshTypes, SyncRow
<1>3. V!Running(s) /\ V!PushDone(s, TRUE) /\ UNCHANGED <<nodes, drawn>>
  BY DEF V!Push
<1>4. k \in 1..Len(plan) /\ GoodPlan(plan)
  BY <1>1, <1>2, <1>3 DEF MeshInv, WithinPlan, V!Running
<1>5. PICK n \in V!Node : n = plan[k]
  BY <1>2, <1>4
<1>6. n.dev \in Devices /\ board[n.dev] \in V!Board
  BY <1>2, <1>5 DEF V!Node
<1>7. PICK c : c = V!Script(board[n.dev], plan, n)
  OBVIOUS
<1>8. board' = [board EXCEPT ![n.dev] = c]
  BY <1>1, <1>5, <1>7 DEF V!Push
<1>9. /\ c \in V!Board /\ c.key = n.key /\ n.ip \in c.addresses
      /\ n # V!HubNode(plan) => c.hub = V!HubNode(plan).key
      /\ n = V!HubNode(plan) => \A i \in V!Slots : i < Len(plan) /\ plan[i + 1] # n =>
           c.peers[i].key = plan[i + 1].key /\ plan[i + 1].ip \in c.peers[i].ips
  BY <1>2, <1>4, <1>6, <1>7, ScriptSets
<1>10. board' \in [Devices -> V!Board] /\ board'[n.dev] = c
  BY <1>2, <1>6, <1>8, <1>9
<1>11. ASSUME sync[s].whole, NEW j \in 1..Len(plan), j <= k
       PROVE  Covered(board', plan, plan[j])
  <2>1. PlanOf(plan, nodes) /\ (j < k => Covered(board, plan, plan[j]))
    BY <1>1, <1>11 DEF MeshInv, WholeSync
  <2>2. n \in nodes /\ plan[j] \in nodes
    BY <1>4, <1>5, <2>1 DEF PlanOf
  <2>3. CASE j = k
    <3>1. V!HubNode(plan) \in nodes /\ V!HubNode(plan).dev = Hub
      BY <1>2, <1>4, <2>1, HubOfPlan DEF PlanOf
    <3>2. n = V!HubNode(plan) <=> n.dev = Hub
      BY <2>2, <3>1 DEF MeshInv, OneNode
    <3>3. QED
      BY <1>5, <1>9, <1>10, <2>3, <3>2 DEF Covered
  <2>4. CASE j # k
    <3>1. j < k /\ plan[j] # n
      BY <1>2, <1>4, <1>5, <1>11, <2>1, <2>4 DEF PlanOf
    <3>2. plan[j].dev # n.dev
      BY <2>2, <3>1 DEF MeshInv, OneNode
    <3>3. plan[j] \in V!Node /\ plan[j].dev \in Devices
      BY <1>2, <2>2 DEF V!Node
    <3>4. board'[plan[j].dev] = board[plan[j].dev]
      BY <1>2, <1>8, <3>2, <3>3
    <3>5. QED
      BY <2>1, <3>1, <3>4 DEF Covered
  <2>5. QED
    BY <2>3, <2>4
<1>12. QED
  BY <1>1, <1>3, <1>10, <1>11, DoneStep

\* A push that fails takes wholeness from its sync.
LEMMA FailStep == ASSUME MeshInv, NEW s \in Syncs, V!PushFails(s) PROVE MeshInv'
<1>1. V!Running(s) /\ V!PushDone(s, FALSE) /\ UNCHANGED <<nodes, drawn, board>>
  BY DEF V!PushFails
<1>2. board' \in [Devices -> V!Board]
  BY <1>1 DEF MeshInv, MeshTypes
<1>3. PICK plan, k : plan = sync[s].plan /\ k = sync[s].next
  OBVIOUS
<1>4. QED
  BY <1>1, <1>2, <1>3, DoneStep

\* Every step keeps the invariant.
LEMMA MeshNext == ASSUME MeshInv, [V!Next]_V!vars PROVE MeshInv'
<1>1. CASE UNCHANGED V!vars
  BY <1>1 DEF V!vars, MeshInv, MeshTypes, OneNode, WithinPlan, WholeSync, Settled, MeshCovered,
              V!MeshCovered, V!Running
<1>2. CASE V!Next
  BY <1>2, NodesStep, StartStep, PushStep, FailStep DEF V!Next
<1>3. QED
  BY <1>1, <1>2

\* After a sync that reached every device, alone and with the mesh unchanged since,
\* every spoke runs with its own key and the hub's, and the hub has a peer for it
\* (SyncVPNMesh): for any devices, addresses, syncs and faults, and whatever was on
\* the devices before.
THEOREM MeshIsCovered == V!Spec => []MeshCovered
<1>1. MeshInv => MeshCovered
  BY DEF MeshInv
<1>2. QED
  BY <1>1, MeshInit, MeshNext, PTL DEF V!Spec

-----------------------------------------------------------------------------
(* Imports.  What an import writes to the template and to the rows comes from *)
(* the same interfaces of the device, merged by their network name; a row of  *)
(* the imported name is rewritten, whoever made it.                           *)

\* The columns of a template, and of a row, that speak of a network.
NetworkOf(t) == {"ssid", "enc", "key"} \subseteq DOMAIN t
RowOf(r) == {"ssid", "security", "password"} \subseteq DOMAIN r

\* Template and rows have the columns, and the wireless interfaces are a sequence.
Formed ==
    /\ site # None => NetworkOf(site)
    /\ wireless \in Seq({wireless[i] : i \in DOMAIN wireless})
    /\ DOMAIN wlans = Wlans /\ \A w \in Wlans : wlans[w] # None => RowOf(wlans[w])

ImportInv == Formed /\ ImportAgrees

\* A sequence is one over the values it has.
LEMMA OverOwnValues ==
    ASSUME NEW S, NEW s \in Seq(S)
    PROVE  s \in Seq({s[i] : i \in DOMAIN s})
<1>1. Len(s) \in Nat /\ DOMAIN s = 1..Len(s) /\ s = [i \in 1..Len(s) |-> s[i]]
  BY SeqDef, LenProperties
<1>2. s \in [1..Len(s) -> {s[i] : i \in DOMAIN s}]
  BY <1>1
<1>3. QED
  BY <1>1, <1>2, SeqDef, SMTT(20)

\* A local administrator leaves finitely many wireless interfaces.
LEMMA BoardIsFormed ==
    ASSUME NEW b \in Boards, NEW x, x = b.wireless
    PROVE  x \in Seq({x[i] : i \in DOMAIN x})
BY FormAssumption, OverOwnValues

\* A finite set is written down as a sequence.
LEMMA WrittenDown ==
    ASSUME NEW S, IsFiniteSet(S)
    PROVE  F!SetToSeq(S) \in Seq(S)
<1>1. Cardinality(S) \in Nat /\ ExistsBijection(1..Cardinality(S), S)
  BY FS_CardinalityType
<1>2. PICK f \in Bijection(1..Cardinality(S), S) : TRUE
  BY <1>1 DEF ExistsBijection
<1>3. f \in [1..Cardinality(S) -> S] /\ F!IsInjective(f)
  BY <1>2 DEF Bijection, Injection, IsInjective, F!IsInjective
<1>4. F!Cardinality(S) = Cardinality(S)
  BY Zenon DEF F!Cardinality, Cardinality
<1>5. F!SetToSeq(S) \in [1..Cardinality(S) -> S]
  BY <1>3, <1>4 DEF F!SetToSeq
<1>6. QED
  BY <1>1, <1>5, SeqDef

\* What the controller provisions is a sequence of interfaces.
LEMMA ProvisionedIsFormed ==
    ASSUME NEW x, x = F!ProvisionedWlans
    PROVE  x \in Seq({x[i] : i \in DOMAIN x})
<1> DEFINE reached == {w \in Wlans : wlans[w] # None /\ F!AppliesToDevice(wlans[w])}
<1>1. IsFiniteSet(reached)
  BY FormAssumption, FS_Subset
<1>2. PICK sent \in Seq(reached) : sent = F!SetToSeq(reached)
  BY <1>1, WrittenDown
<1>3. x = [i \in 1..Len(sent) |-> [ssid |-> wlans[sent[i]].ssid, enc |-> wlans[sent[i]].security,
                                   key |-> wlans[sent[i]].password]]
  BY <1>2 DEF F!ProvisionedWlans
<1>4. Len(sent) \in Nat
  BY <1>2, LenProperties
<1>5. x \in [1..Len(sent) -> {x[i] : i \in DOMAIN x}]
  BY <1>3
<1>6. QED
  BY <1>4, <1>5, SeqDef

\* Nothing is imported at the start.
LEMMA ImportInit == ASSUME F!Init PROVE ImportInv
<1>1. PICK b \in Boards : wireless = b.wireless
  BY DEF F!Init
<1>2. QED
  BY <1>1, BoardIsFormed, ZenonT(30) DEF F!Init, F!Nothing, ImportInv, Formed, ImportAgrees, F!ImportAgrees

\* Only an import says that one was made.
LEMMA OtherNews ==
    ASSUME F!Next, ~F!ImportDeviceConfig
    PROVE  last'.event # "imported"
<1>1. F!Nothing.event # "imported"
  BY DEF F!Nothing
<1>2. CASE F!SyncFleet
  <2>1. last'.event \in {"applied", "failed"}
    BY <1>2 DEF F!SyncFleet
  <2>2. QED
    BY <2>1
<1>3. CASE last' = F!Nothing
  BY <1>1, <1>3
<1>4. QED
  BY <1>2, <1>3
     DEF F!Next, F!SaveSite, F!CommitOmadaMigration, F!CreateWLAN, F!UpdateWLAN, F!DeleteWLAN,
         F!PutDeviceRole, F!PullConfig, F!PreviewSync, F!PutCentralConfig, F!AgentEnds, F!LocalEdit

\* Only a pull and a local administrator touch the wireless interfaces.
LEMMA WirelessStep ==
    ASSUME Formed, F!Next
    PROVE  wireless' \in Seq({wireless'[i] : i \in DOMAIN wireless'})
<1>1. CASE UNCHANGED wireless
  BY <1>1 DEF Formed
<1>2. CASE F!PullConfig
  BY <1>2, ProvisionedIsFormed DEF F!PullConfig
<1>3. ASSUME NEW b \in Boards, F!LocalEdit(b)
      PROVE  wireless' \in Seq({wireless'[i] : i \in DOMAIN wireless'})
  BY <1>3, BoardIsFormed DEF F!LocalEdit
<1>4. QED
  BY <1>1, <1>2, <1>3
     DEF F!Next, F!SaveSite, F!CommitOmadaMigration, F!CreateWLAN, F!UpdateWLAN, F!DeleteWLAN,
         F!PutDeviceRole, F!ImportDeviceConfig, F!PreviewSync, F!SyncFleet, F!PutCentralConfig,
         F!AgentEnds

\* Forms keep the columns.
LEMMA FormedStep ==
    ASSUME Formed, F!Next, ~F!ImportDeviceConfig
    PROVE  Formed'
<1> USE WirelessStep
<1>1. CASE UNCHANGED <<site, wlans>>
  BY <1>1 DEF Formed
<1>2. ASSUME NEW t \in Templates, F!SaveSite(t) PROVE Formed'
  <2>1. NetworkOf([t EXCEPT !.wans = <<>>, !.guest = FALSE])
    BY FormAssumption DEF NetworkOf
  <2>2. QED
    BY <1>2, <2>1 DEF F!SaveSite, F!UpsertSiteConfig, Formed
<1>3. ASSUME NEW l \in Leases, F!CommitOmadaMigration(l) PROVE Formed'
  <2>1. NetworkOf(F!EmptyTemplate)
    BY DEF F!EmptyTemplate, NetworkOf
  <2>2. \A t : NetworkOf(t) => NetworkOf([t EXCEPT !.leases = l, !.forwards = <<>>])
    BY DEF NetworkOf
  <2>3. QED
    BY <1>3, <2>1, <2>2 DEF F!CommitOmadaMigration, F!UpsertSiteConfig, Formed
<1>4. ASSUME NEW w \in Wlans, NEW r \in Rows, F!CreateWLAN(w, r) \/ F!UpdateWLAN(w, r)
      PROVE  Formed'
  <2>1. RowOf(r)
    BY FormAssumption DEF RowOf, F!Wlan
  <2>2. \A p : RowOf([r EXCEPT !.password = p])
    BY <2>1 DEF RowOf
  <2>3. CASE F!CreateWLAN(w, r)
    BY <2>1, <2>3 DEF F!CreateWLAN, Formed
  <2>4. CASE F!UpdateWLAN(w, r)
    BY <2>2, <2>4 DEF F!UpdateWLAN, Formed
  <2>5. QED
    BY <1>4, <2>3, <2>4
<1>5. ASSUME NEW w \in Wlans, F!DeleteWLAN(w) PROVE Formed'
  BY <1>5 DEF F!DeleteWLAN, Formed
<1>6. QED
  BY <1>1, <1>2, <1>3, <1>4, <1>5
     DEF F!Next, F!PutDeviceRole, F!PullConfig, F!PreviewSync, F!SyncFleet,
         F!PutCentralConfig, F!AgentEnds, F!LocalEdit

\* Interfaces of one name become one network of that name.
LEMMA ImportedName ==
    ASSUME NEW n, NEW ifaces
    PROVE  RowOf(F!ImportedWlan(n, ifaces)) /\ F!ImportedWlan(n, ifaces).ssid = n
BY DEF F!ImportedWlan, RowOf

\* A row of an imported name has what was imported under it.
LEMMA ImportedRow ==
    ASSUME Formed, NEW ifaces, NEW w \in Wlans,
           NEW r, r = F!ImportedRows(ifaces)[w], r # None
    PROVE  /\ RowOf(r)
           /\ r.ssid \in F!ImportedNames(ifaces) =>
                /\ r.security = F!ImportedWlan(r.ssid, ifaces).security
                /\ r.password = F!ImportedWlan(r.ssid, ifaces).password
<1> DEFINE names == F!ImportedNames(ifaces)
           fresh == {n \in names : F!RowsOf(n) = {}}
           new == CHOOSE f \in [fresh -> Wlans] :
                    F!IsInjective(f) /\ \A n \in fresh : wlans[f[n]] = None
<1>1. r = IF wlans[w] # None /\ wlans[w].ssid \in names
          THEN [wlans[w] EXCEPT !.security = F!ImportedWlan(wlans[w].ssid, ifaces).security,
                                !.password = F!ImportedWlan(wlans[w].ssid, ifaces).password]
          ELSE IF \E n \in fresh : new[n] = w
          THEN F!ImportedWlan(CHOOSE n \in fresh : new[n] = w, ifaces)
          ELSE wlans[w]
  BY DEF F!ImportedRows
<1>2. CASE wlans[w] # None /\ wlans[w].ssid \in names
  <2>1. RowOf(wlans[w])
    BY <1>2 DEF Formed
  <2>2. PICK a, b : /\ a = F!ImportedWlan(wlans[w].ssid, ifaces).security
                    /\ b = F!ImportedWlan(wlans[w].ssid, ifaces).password
    OBVIOUS
  <2>3. r = [wlans[w] EXCEPT !.security = a, !.password = b]
    BY <1>1, <1>2, <2>2
  <2>4. RowOf(r) /\ r.security = a /\ r.password = b /\ r.ssid = wlans[w].ssid
    BY <2>1, <2>3 DEF RowOf
  <2>5. QED
    BY <2>2, <2>4
<1>3. CASE ~(wlans[w] # None /\ wlans[w].ssid \in names) /\ \E n \in fresh : new[n] = w
  <2>1. PICK m : r = F!ImportedWlan(m, ifaces)
    BY <1>1, <1>3
  <2>2. QED
    BY <2>1, ImportedName
<1>4. CASE ~(wlans[w] # None /\ wlans[w].ssid \in names) /\ ~(\E n \in fresh : new[n] = w)
  BY <1>1, <1>4 DEF Formed
<1>5. QED
  BY <1>2, <1>3, <1>4

\* The template takes the network of the first interface, if there is one.
LEMMA ImportedSite ==
    ASSUME Formed, NEW d, NEW ifaces, NEW t, t = F!ImportedTemplate(d, ifaces)
    PROVE  /\ NetworkOf(t)
           /\ ifaces = <<>> => t.ssid = ""
           /\ ifaces # <<>> =>
                LET first == F!ImportedWlan(Head(ifaces).ssid, ifaces)
                IN  t.ssid = first.ssid /\ t.enc = first.security /\ t.key = first.password
<1>1. PICK base : base = IF site = None THEN [F!EmptyTemplate EXCEPT !.enabled = TRUE] ELSE site
  OBVIOUS
<1>2. PICK first : first = IF ifaces = <<>> THEN [ssid |-> "", security |-> "psk2", password |-> ""]
                           ELSE F!ImportedWlan(Head(ifaces).ssid, ifaces)
  OBVIOUS
<1>3. NetworkOf(base)
  <2>1. NetworkOf([F!EmptyTemplate EXCEPT !.enabled = TRUE])
    BY DEF F!EmptyTemplate, NetworkOf
  <2>2. QED
    BY <1>1, <2>1 DEF Formed
<1>4. PICK ssid, enc, key, zone, lan, dns, syn, leases, forwards, auth :
        /\ ssid = first.ssid /\ enc = first.security /\ key = first.password
        /\ zone = F!Scalar(d.opts[F!Timezone], "UTC")
        /\ lan = F!Scalar(d.opts[F!LanAddress], F!LastIP)
        /\ dns = <<"9.9.9.9", "1.1.1.1">>
        /\ syn = (d.opts[F!SynFlood] \in {<<>>, <<"1">>, <<"true">>})
        /\ leases = F!ImportedLeases(d.hosts)
        /\ forwards = F!ImportedForwards(d.redirects)
        /\ auth = F!ImportedPasswordAuth(d.opts[F!PasswordAuth])
  OBVIOUS
<1>5. t = [base EXCEPT !.ssid = ssid, !.enc = enc, !.key = key, !.timezone = zone, !.lan = lan,
             !.dns = dns, !.synFlood = syn, !.leases = leases, !.forwards = forwards,
             !.passwordAuth = auth]
  BY <1>1, <1>2, <1>4, Zenon DEF F!ImportedTemplate
<1>6. t.ssid = ssid /\ t.enc = enc /\ t.key = key /\ NetworkOf(t)
  BY <1>3, <1>5 DEF NetworkOf
<1>7. QED
  BY <1>2, <1>4, <1>6

\* An import leaves no row that contradicts the template.
LEMMA ImportStep == ASSUME Formed, F!Next, F!ImportDeviceConfig PROVE ImportInv'
<1>1. PICK ifaces, d : ifaces = wireless /\ d = live
  OBVIOUS
<1>2. site' = F!ImportedTemplate(d, ifaces) /\ wlans' = F!ImportedRows(ifaces)
  BY <1>1 DEF F!ImportDeviceConfig
<1>3. NetworkOf(site')
  BY <1>2, ImportedSite
<1>4. DOMAIN wlans' = Wlans
  BY <1>2 DEF F!ImportedRows
<1>5. \A w \in Wlans : wlans'[w] # None =>
        /\ RowOf(wlans'[w])
        /\ wlans'[w].ssid \in F!ImportedNames(ifaces) =>
             /\ wlans'[w].security = F!ImportedWlan(wlans'[w].ssid, ifaces).security
             /\ wlans'[w].password = F!ImportedWlan(wlans'[w].ssid, ifaces).password
  BY <1>2, ImportedRow
<1>6. ASSUME NEW w \in Wlans, wlans'[w] # None, F!Conflicts(site', wlans'[w]) PROVE FALSE
  <2>1. site'.ssid # "" /\ site'.ssid = wlans'[w].ssid
    BY <1>6 DEF F!Conflicts
  <2>2. ifaces # <<>>
    BY <1>1, <1>2, <2>1, ImportedSite, ZenonT(30)
  <2>3. PICK n : n = Head(ifaces).ssid
    OBVIOUS
  <2>4. /\ site'.ssid = n /\ site'.enc = F!ImportedWlan(n, ifaces).security
        /\ site'.key = F!ImportedWlan(n, ifaces).password
    <3>1. PICK t : t = F!ImportedTemplate(d, ifaces) /\ t = site'
      BY <1>2
    <3>2. LET first == F!ImportedWlan(n, ifaces)
          IN  t.ssid = first.ssid /\ t.enc = first.security /\ t.key = first.password
      BY <2>2, <2>3, <3>1, ImportedSite, ZenonT(30)
    <3>3. F!ImportedWlan(n, ifaces).ssid = n
      BY ImportedName
    <3>4. QED
      BY <3>1, <3>2, <3>3
  <2>5. n \in F!ImportedNames(ifaces)
    <3>1. 1 \in DOMAIN ifaces /\ Head(ifaces) = ifaces[1]
      BY <1>1, <2>2, HeadTailProperties, LenProperties, EmptySeq DEF Formed
    <3>2. QED
      BY <2>3, <3>1 DEF F!ImportedNames
  <2>6. QED
    BY <1>5, <1>6, <2>1, <2>4, <2>5 DEF F!Conflicts
<1>7. wireless' = wireless
  BY DEF F!ImportDeviceConfig
<1>8. QED
  BY <1>3, <1>4, <1>5, <1>6, <1>7 DEF ImportInv, Formed, ImportAgrees, F!ImportAgrees

\* Whatever happens, the last import still agrees with what it wrote.
LEMMA ImportNext == ASSUME ImportInv, [F!Next]_F!vars PROVE ImportInv'
<1>1. CASE UNCHANGED F!vars
  BY <1>1 DEF ImportInv, Formed, ImportAgrees, F!ImportAgrees, F!Conflicts, F!vars
<1>2. CASE F!Next /\ F!ImportDeviceConfig
  BY <1>2, ImportStep DEF ImportInv
<1>3. CASE F!Next /\ ~F!ImportDeviceConfig
  BY <1>3, FormedStep, OtherNews DEF ImportInv, ImportAgrees, F!ImportAgrees
<1>4. QED
  BY <1>1, <1>2, <1>3

\* For any templates, rows and devices: after an import, the template's own network
\* fields and the WLAN rows never contradict each other, whatever operators saved
\* before it and whichever rows bore the imported names.
THEOREM ImportsAgree == F!Spec => []ImportAgrees
<1>1. ImportInv => ImportAgrees
  BY DEF ImportInv
<1>2. QED
  BY <1>1, ImportInit, ImportNext, PTL DEF F!Spec

-----------------------------------------------------------------------------
(* Identities.  The administrator's rows are in the directory before anything *)
(* a device reports; what is merged into an entry is never manual and never    *)
(* trusted, so it cannot touch the entry's label or trust, and a managed       *)
(* device that has been gone through stays a node.                             *)

\* An entry that is about to be merged.
Telemetry == [mac : Macs, uplink : N!Nodes, ip : STRING \cup {None}, host : N!Labels]

Rows0 == [Macs -> N!Row \cup {None}]

Load == [site : Sites \cup {None}, rows : Rows0, left : SUBSET N!Nodes, entries : Seq(Telemetry),
         dir : [Macs -> N!Identity \cup {None}]]

\* What the directory says of a MAC whose row at the scope is r.
EntryKept(r, i) ==
    /\ r # None => /\ i # None /\ i.manual
                   /\ i.trusted = r.trusted /\ i.past = r.past
                   /\ N!Either(r.label, r.hostname) # None => i.label = N!Either(r.label, r.hostname)
    /\ r = None /\ i # None => ~i.trusted

\* The directory, when the devices of `left' are still to come.
DirectoryKept(rows, s, left, dir) ==
    /\ dir \in [Macs -> N!Identity \cup {None}]
    /\ \A m \in Macs :
         /\ EntryKept(N!RowAt(rows, s, m), dir[m])
         /\ m \in N!Nodes \ left /\ N!InScope(s, Reports[m].site) => dir[m] # None /\ dir[m].kind = "node"

ListKept ==
    list # None => \A m \in DOMAIN list.clients :
        LET r == N!RowAt(list.rows, list.site, m)
            c == list.clients[m]
        IN  /\ c.trusted = (r # None /\ r.trusted /\ ~r.past)
            /\ r # None /\ r.hostname # None => c.host = r.hostname

IdentityInv ==
    /\ row \in Rows0
    /\ load # None => load \in Load /\ DirectoryKept(load.rows, load.site, load.left, load.dir)
    /\ ListKept

\* Telemetry merged into an entry changes neither its label nor its trust.
LEMMA MergedKeeps ==
    ASSUME NEW e \in N!Identity, NEW c \in N!Identity, ~c.manual, ~c.trusted,
           NEW x, x = N!Merged(e, c)
    PROVE  /\ x \in N!Identity
           /\ x.manual = e.manual /\ x.trusted = e.trusted /\ x.past = e.past
           /\ e.manual /\ e.label # None => x.label = e.label
           /\ e.kind = "node" \/ c.kind = "node" => x.kind = "node"
<1>1. PICK kind, label, ip, uplink :
        /\ kind = (IF c.kind = "node" THEN "node" ELSE e.kind)
        /\ label = N!MergedLabel(e, c)
        /\ ip = N!Either(e.ip, c.ip)
        /\ uplink = N!Either(e.uplink, c.uplink)
  OBVIOUS
<1>2. /\ kind \in {"node", "client"} /\ label \in N!Labels /\ ip \in STRING \cup {None}
      /\ uplink \in N!Nodes \cup {None}
      /\ e.manual /\ e.label # None => label = e.label
  BY <1>1 DEF N!Identity, N!MergedLabel, N!Either
<1>3. PICK f : f = IF c.kind = "node" \/ e.kind # "node"
                   THEN [e EXCEPT !.site = c.site, !.kind = kind, !.label = label, !.ip = ip,
                                  !.uplink = uplink]
                   ELSE e
  OBVIOUS
<1>4. /\ f \in N!Identity
      /\ f.manual = e.manual /\ f.trusted = e.trusted /\ f.past = e.past
      /\ e.manual /\ e.label # None => f.label = e.label
      /\ e.kind = "node" \/ c.kind = "node" => f.kind = "node"
  BY <1>1, <1>2, <1>3, ZenonT(30) DEF N!Identity
<1>5. x = [f EXCEPT !.manual = f.manual \/ c.manual, !.trusted = f.trusted \/ c.trusted,
                    !.past = IF c.trusted THEN c.past ELSE f.past]
  BY <1>1, <1>3, Zenon DEF N!Merged
<1>6. /\ x \in N!Identity
      /\ x.manual = f.manual /\ x.trusted = f.trusted /\ x.past = f.past
      /\ x.label = f.label /\ x.kind = f.kind
  BY <1>4, <1>5 DEF N!Identity
<1>7. QED
  BY <1>4, <1>6

\* One merge of telemetry keeps the directory.
LEMMA MergeKeeps ==
    ASSUME NEW rows, NEW s, NEW left, NEW left2, NEW dir, DirectoryKept(rows, s, left, dir),
           NEW m \in Macs, NEW c \in N!Identity, ~c.manual, ~c.trusted,
           \A d \in N!Nodes : d \notin left2 => d \notin left \/ (d = m /\ c.kind = "node"),
           NEW dir2, dir2 = N!mergeNetworkIdentity(dir, m, c)
    PROVE  DirectoryKept(rows, s, left2, dir2)
<1>1. dir \in [Macs -> N!Identity \cup {None}]
  BY DEF DirectoryKept
<1>2. PICK e, x : e = dir[m] /\ x = N!Merged(e, c)
  OBVIOUS
<1>3. dir2 = [dir EXCEPT ![m] = IF e = None THEN c ELSE x]
  BY <1>2, Zenon DEF N!mergeNetworkIdentity
<1>4. c # None
  BY IdentityAssumption
<1>5. e # None => /\ x \in N!Identity
                  /\ x.manual = e.manual /\ x.trusted = e.trusted /\ x.past = e.past
                  /\ e.manual /\ e.label # None => x.label = e.label
                  /\ e.kind = "node" \/ c.kind = "node" => x.kind = "node"
  <2>1. CASE e # None
    <3>1. e \in N!Identity
      BY <1>1, <1>2, <2>1
    <3>2. QED
      BY <1>2, <3>1, MergedKeeps
  <2>2. QED
    BY <2>1
<1>6. e # None => x # None
  BY <1>5, IdentityAssumption
<1>7. dir2 \in [Macs -> N!Identity \cup {None}]
  BY <1>1, <1>3, <1>5
<1>8. ASSUME NEW n \in Macs
      PROVE  /\ EntryKept(N!RowAt(rows, s, n), dir2[n])
             /\ n \in N!Nodes \ left2 /\ N!InScope(s, Reports[n].site) => dir2[n] # None /\ dir2[n].kind = "node"
  <2>1. /\ EntryKept(N!RowAt(rows, s, n), dir[n])
        /\ n \in N!Nodes \ left /\ N!InScope(s, Reports[n].site) => dir[n] # None /\ dir[n].kind = "node"
    BY DEF DirectoryKept
  <2>2. CASE n # m
    <3>1. dir2[n] = dir[n]
      BY <1>1, <1>3, <2>2
    <3>2. QED
      BY <2>1, <2>2, <3>1
  <2>3. CASE n = m
    <3>1. dir2[n] = IF e = None THEN c ELSE x
      BY <1>1, <1>3, <2>3
    <3>2. EntryKept(N!RowAt(rows, s, n), dir2[n])
      BY <1>2, <1>4, <1>5, <1>6, <2>1, <2>3, <3>1 DEF EntryKept
    <3>3. n \in N!Nodes \ left2 /\ N!InScope(s, Reports[n].site) => dir2[n] # None /\ dir2[n].kind = "node"
      BY <1>2, <1>4, <1>5, <1>6, <2>1, <2>3, <3>1
    <3>4. QED
      BY <3>2, <3>3
  <2>4. QED
    BY <2>2, <2>3
<1>9. QED
  BY <1>7, <1>8 DEF DirectoryKept

\* What telemetry makes of a device or a client is an entry that is not trusted.
LEMMA SeenIsIdentity ==
    ASSUME NEW d \in N!Nodes, NEW kind \in {"node", "client"}, NEW label \in N!Labels,
           NEW ip \in STRING \cup {None}, NEW uplink \in N!Nodes \cup {None},
           NEW c, c = N!Seen(Reports[d].site, kind, label, ip, uplink)
    PROVE  c \in N!Identity /\ ~c.manual /\ ~c.trusted /\ c.kind = kind
<1>1. Reports[d].site \in Sites
  BY IdentityAssumption DEF N!Nodes, N!Report
<1>2. QED
  BY <1>1 DEF N!Seen, N!Identity

\* The entries of one table of a device are telemetry.
LEMMA EntriesAre ==
    ASSUME NEW d \in N!Nodes, NEW table, NEW order \in Seq(N!Entry)
    PROVE  N!Entries(d, table, order) \in Seq(Telemetry)
<1> DEFINE entry(i) == [mac |-> order[i].mac, uplink |-> d,
                        ip |-> IF table = "bridge" THEN None ELSE order[i].ip,
                        host |-> IF table \in {"stations", "radios", "leases"} THEN order[i].host ELSE None]
<1>1. Len(order) \in Nat /\ DOMAIN order = 1..Len(order)
  BY LenProperties
<1>2. N!Entries(d, table, order) = [i \in 1..Len(order) |-> entry(i)]
  BY <1>1, Zenon DEF N!Entries
<1>3. \A i \in 1..Len(order) : order[i] \in N!Entry
  BY <1>1, ElementOfSeq
<1>4. \A i \in 1..Len(order) : entry(i) \in Telemetry
  BY <1>3 DEF Telemetry, N!Entry, N!Labels
<1>5. QED
  BY <1>1, <1>2, <1>4, SeqDef

\* A finite table is written down as a sequence of its entries.
LEMMA TableWrittenDown ==
    ASSUME NEW d \in N!Nodes, NEW t \in {"radios", "arp", "bridge", "leases"}
    PROVE  N!SetToSeq(Reports[d][t]) \in Seq(N!Entry)
<1>1. PICK S : S = Reports[d][t]
  OBVIOUS
<1>2. IsFiniteSet(S) /\ S \subseteq N!Entry
  BY <1>1, IdentityAssumption DEF N!Nodes, N!Report
<1>3. F!SetToSeq(S) \in Seq(S)
  BY <1>2, WrittenDown
<1>4. N!SetToSeq(S) = F!SetToSeq(S)
  BY Zenon DEF N!SetToSeq, F!SetToSeq, N!IsInjective, F!IsInjective, N!Cardinality, F!Cardinality
<1>5. Seq(S) \subseteq Seq(N!Entry)
  BY <1>2
<1>6. QED
  BY <1>1, <1>3, <1>4, <1>5

\* So are the stations, in whatever order.
LEMMA StationsInOrder ==
    ASSUME NEW d \in N!Nodes, NEW stations \in N!SetToSeqs(Reports[d].stations)
    PROVE  stations \in Seq(N!Entry)
<1>1. PICK S : S = Reports[d].stations
  OBVIOUS
<1>2. IsFiniteSet(S) /\ S \subseteq N!Entry
  BY <1>1, IdentityAssumption DEF N!Nodes, N!Report
<1>3. N!Cardinality(S) = Cardinality(S)
  BY Zenon DEF N!Cardinality, Cardinality
<1>4. Cardinality(S) \in Nat
  BY <1>2, FS_CardinalityType
<1>5. stations \in [1..Cardinality(S) -> S]
  BY <1>1, <1>3 DEF N!SetToSeqs
<1>6. stations \in Seq(S)
  BY <1>4, <1>5, SeqDef
<1>7. QED
  BY <1>2, <1>6

\* All the entries of a device are telemetry.
LEMMA TelemetryOfDevice ==
    ASSUME NEW d \in N!Nodes, NEW stations \in N!SetToSeqs(Reports[d].stations)
    PROVE  N!addNetworkTelemetryIdentities(d, stations) \in Seq(Telemetry)
<1>1. N!Entries(d, "stations", stations) \in Seq(Telemetry)
  BY StationsInOrder, EntriesAre
<1>2. /\ N!Entries(d, "radios", N!SetToSeq(Reports[d].radios)) \in Seq(Telemetry)
      /\ N!Entries(d, "arp", N!SetToSeq(Reports[d].arp)) \in Seq(Telemetry)
      /\ N!Entries(d, "bridge", N!SetToSeq(Reports[d].bridge)) \in Seq(Telemetry)
      /\ N!Entries(d, "leases", N!SetToSeq(Reports[d].leases)) \in Seq(Telemetry)
  BY TableWrittenDown, EntriesAre
<1>3. QED
  BY <1>1, <1>2, ConcatProperties DEF N!addNetworkTelemetryIdentities

\* Nobody is known at the start.
LEMMA IdentityInit == ASSUME N!Init PROVE IdentityInv
BY DEF N!Init, IdentityInv, Rows0, ListKept

\* The administrator types, trusts and distrusts; trust expires.
LEMMA RowStep ==
    ASSUME row \in Rows0, N!Next
    PROVE  row' \in Rows0
<1>1. ASSUME NEW m \in Macs, NEW s \in Sites, NEW n \in Names \cup {None}, N!UpdateClientHostname(m, s, n)
      PROVE  row' \in Rows0
  BY <1>1 DEF N!UpdateClientHostname, Rows0, N!Row
<1>2. ASSUME NEW m \in Macs, NEW s \in Sites, NEW n \in Names, N!TrustClient(m, s, n)
      PROVE  row' \in Rows0
  BY <1>2 DEF N!TrustClient, Rows0, N!Row
<1>3. ASSUME NEW m \in Macs, NEW s \in Sites, N!UntrustClient(m, s)
      PROVE  row' \in Rows0
  BY <1>3 DEF N!UntrustClient, Rows0, N!Row
<1>4. ASSUME NEW m \in Macs, N!Expire(m)
      PROVE  row' \in Rows0
  BY <1>4 DEF N!Expire, Rows0, N!Row
<1>5. CASE UNCHANGED row
  BY <1>5
<1>6. QED
  BY <1>1, <1>2, <1>3, <1>4, <1>5
     DEF N!Next, N!LoadManual, N!LoadDevice, N!LoadEntry, N!LoadEnds, N!GetClients

\* A directory starts with the administrator's rows.
LEMMA ManualStep ==
    ASSUME IdentityInv, NEW s \in Sites \cup {None}, N!LoadManual(s)
    PROVE  IdentityInv'
<1>1. PICK rows, dir, left :
        /\ rows = row
        /\ left = {d \in N!Nodes : N!InScope(s, Reports[d].site)}
        /\ dir = [m \in Macs |->
             IF row[m] = None \/ ~N!InScope(s, row[m].site) THEN None
             ELSE [site |-> row[m].site, kind |-> "client",
                   label |-> N!Either(row[m].label, row[m].hostname),
                   ip |-> None, uplink |-> None, manual |-> TRUE,
                   trusted |-> row[m].trusted, past |-> row[m].past]]
  OBVIOUS
<1>2. load' = [site |-> s, rows |-> rows, left |-> left, entries |-> <<>>, dir |-> dir]
  BY <1>1 DEF N!LoadManual
<1>3. rows \in Rows0
  BY <1>1 DEF IdentityInv
<1>4. ASSUME NEW m \in Macs
      PROVE  /\ dir[m] \in N!Identity \cup {None}
             /\ EntryKept(N!RowAt(rows, s, m), dir[m])
  <2>1. PICK r : r = rows[m]
    OBVIOUS
  <2>2. CASE r = None \/ ~N!InScope(s, r.site)
    <3>1. dir[m] = None /\ N!RowAt(rows, s, m) = None
      BY <1>1, <2>1, <2>2 DEF N!RowAt
    <3>2. QED
      BY <3>1 DEF EntryKept
  <2>3. CASE ~(r = None \/ ~N!InScope(s, r.site))
    <3>1. r \in N!Row
      BY <1>3, <2>1, <2>3 DEF Rows0
    <3>2. PICK label : label = N!Either(r.label, r.hostname)
      OBVIOUS
    <3>3. label \in N!Labels
      BY <3>1, <3>2 DEF N!Either, N!Row, N!Labels
    <3>4. PICK i : i = [site |-> r.site, kind |-> "client", label |-> label, ip |-> None,
                        uplink |-> None, manual |-> TRUE, trusted |-> r.trusted, past |-> r.past]
      OBVIOUS
    <3>5. i \in N!Identity /\ i.manual /\ i.trusted = r.trusted /\ i.past = r.past /\ i.label = label
      BY <3>1, <3>3, <3>4 DEF N!Identity, N!Row
    <3>6. dir[m] = i /\ N!RowAt(rows, s, m) = r
      BY <1>1, <2>1, <2>3, <3>2, <3>4 DEF N!RowAt
    <3>7. i # None /\ r # None
      BY <2>3, <3>5, IdentityAssumption
    <3>8. QED
      BY <3>2, <3>5, <3>6, <3>7 DEF EntryKept
  <2>4. QED
    BY <2>2, <2>3
<1>5. dir \in [Macs -> N!Identity \cup {None}]
  BY <1>1, <1>4
<1>6. DirectoryKept(rows, s, left, dir)
  <2>1. \A m \in N!Nodes \ left : ~N!InScope(s, Reports[m].site)
    BY <1>1
  <2>2. QED
    BY <1>4, <1>5, <2>1 DEF DirectoryKept
<1>7. <<>> \in Seq(Telemetry) /\ left \subseteq N!Nodes
  BY <1>1, EmptySeq
<1>8. load' \in Load
  BY <1>2, <1>3, <1>5, <1>7 DEF Load
<1>9. /\ load'.rows = rows /\ load'.site = s /\ load'.left = left /\ load'.dir = dir
      /\ UNCHANGED <<row, list>>
  BY <1>2 DEF N!LoadManual
<1>10. QED
  BY <1>6, <1>8, <1>9 DEF IdentityInv, ListKept

\* A managed device joins the directory.
LEMMA DeviceStep ==
    ASSUME IdentityInv, NEW d \in N!Nodes, N!LoadDevice(d)
    PROVE  IdentityInv'
<1>1. PICK l : l = load
  OBVIOUS
<1>2. l \in Load /\ DirectoryKept(l.rows, l.site, l.left, l.dir)
  BY <1>1 DEF N!LoadDevice, IdentityInv
<1>3. PICK stations \in N!SetToSeqs(Reports[d].stations) :
        load' = [load EXCEPT !.left = @ \ {d},
                   !.entries = N!addNetworkTelemetryIdentities(d, stations),
                   !.dir = N!mergeNetworkIdentity(@, d,
                             N!Seen(Reports[d].site, "node", Reports[d].name, None, None))]
  BY DEF N!LoadDevice
<1>4. PICK c, entries, dir, left :
        /\ c = N!Seen(Reports[d].site, "node", Reports[d].name, None, None)
        /\ entries = N!addNetworkTelemetryIdentities(d, stations)
        /\ dir = N!mergeNetworkIdentity(l.dir, d, c)
        /\ left = l.left \ {d}
  OBVIOUS
<1>5. load' = [l EXCEPT !.left = left, !.entries = entries, !.dir = dir]
  BY <1>1, <1>3, <1>4, Zenon
<1>6. entries \in Seq(Telemetry)
  BY <1>4, TelemetryOfDevice
<1>7. c \in N!Identity /\ ~c.manual /\ ~c.trusted /\ c.kind = "node"
  <2>1. Reports[d].name \in N!Labels
    BY IdentityAssumption DEF N!Nodes, N!Report
  <2>2. QED
    BY <1>4, <2>1, SeenIsIdentity, ZenonT(30)
<1>8. d \in Macs
  BY IdentityAssumption DEF N!Nodes
<1>9. DirectoryKept(l.rows, l.site, left, dir)
  <2>1. PICK rows, s, was, left0 : rows = l.rows /\ s = l.site /\ was = l.dir /\ left0 = l.left
    OBVIOUS
  <2>2. DirectoryKept(rows, s, left0, was) /\ dir = N!mergeNetworkIdentity(was, d, c) /\ left = left0 \ {d}
    BY <1>2, <1>4, <2>1
  <2>3. DirectoryKept(rows, s, left, dir)
    BY <1>7, <1>8, <2>2, MergeKeeps
  <2>4. QED
    BY <2>1, <2>3
<1>10. /\ load' \in Load
       /\ load'.rows = l.rows /\ load'.site = l.site /\ load'.left = left /\ load'.dir = dir
  <2>1. left \subseteq N!Nodes /\ dir \in [Macs -> N!Identity \cup {None}]
    BY <1>2, <1>4, <1>9 DEF Load, DirectoryKept
  <2>2. QED
    BY <1>2, <1>5, <1>6, <2>1 DEF Load
<1>11. UNCHANGED <<row, list>>
  BY DEF N!LoadDevice
<1>12. QED
  BY <1>9, <1>10, <1>11 DEF IdentityInv, ListKept

\* So does a client that it reports.
LEMMA EntryStep ==
    ASSUME IdentityInv, N!LoadEntry
    PROVE  IdentityInv'
<1>1. PICK l : l = load
  OBVIOUS
<1>2. l \in Load /\ DirectoryKept(l.rows, l.site, l.left, l.dir) /\ l.entries # <<>>
  BY <1>1 DEF N!LoadEntry, IdentityInv
<1>3. PICK e, entries : e = Head(l.entries) /\ entries = Tail(l.entries)
  OBVIOUS
<1>4. e \in Telemetry /\ entries \in Seq(Telemetry)
  BY <1>2, <1>3, HeadTailProperties DEF Load
<1>5. PICK c, dir : /\ c = N!Seen(Reports[e.uplink].site, "client", e.host, e.ip, e.uplink)
                    /\ dir = N!mergeNetworkIdentity(l.dir, e.mac, c)
  OBVIOUS
<1>6. load' = [l EXCEPT !.dir = dir, !.entries = entries]
  BY <1>1, <1>3, <1>5, Zenon DEF N!LoadEntry, N!MergeEntry
<1>7. c \in N!Identity /\ ~c.manual /\ ~c.trusted /\ c.kind = "client"
  <2>1. PICK d, host, ip, mac : d = e.uplink /\ host = e.host /\ ip = e.ip /\ mac = e.mac
    OBVIOUS
  <2>2. d \in N!Nodes /\ host \in N!Labels /\ ip \in STRING \cup {None}
    BY <1>4, <2>1 DEF Telemetry
  <2>3. c = N!Seen(Reports[d].site, "client", host, ip, d)
    BY <1>5, <2>1
  <2>4. QED
    BY <2>2, <2>3, SeenIsIdentity
<1>8. DirectoryKept(l.rows, l.site, l.left, dir)
  <2>1. PICK rows, s, was, left, m :
          rows = l.rows /\ s = l.site /\ was = l.dir /\ left = l.left /\ m = e.mac
    OBVIOUS
  <2>2. DirectoryKept(rows, s, left, was) /\ dir = N!mergeNetworkIdentity(was, m, c) /\ m \in Macs
    BY <1>2, <1>4, <1>5, <2>1 DEF Telemetry
  <2>3. DirectoryKept(rows, s, left, dir)
    BY <1>7, <2>2, MergeKeeps
  <2>4. QED
    BY <2>1, <2>3
<1>9. /\ load' \in Load
      /\ load'.rows = l.rows /\ load'.site = l.site /\ load'.left = l.left /\ load'.dir = dir
  <2>1. dir \in [Macs -> N!Identity \cup {None}]
    BY <1>8 DEF DirectoryKept
  <2>2. QED
    BY <1>2, <1>4, <1>6, <2>1 DEF Load
<1>10. UNCHANGED <<row, list>>
  BY DEF N!LoadEntry
<1>11. QED
  BY <1>8, <1>9, <1>10 DEF IdentityInv, ListKept

\* The list shows the administrator's name and trust.
LEMMA ListStep ==
    ASSUME NEW s \in Sites, N!GetClients(s)
    PROVE  ListKept'
<1>1. PICK found, rows :
        /\ rows = row
        /\ list' = [site |-> s, rows |-> rows,
                    clients |-> [m \in {n \in Macs : found[n] # None} |->
                       N!Customized(found[m],
                          IF rows[m] # None /\ rows[m].site = s THEN rows[m] ELSE None)]]
  BY Zenon DEF N!GetClients
<1>2. PICK clients : clients = [m \in {n \in Macs : found[n] # None} |->
                       N!Customized(found[m],
                          IF rows[m] # None /\ rows[m].site = s THEN rows[m] ELSE None)]
  OBVIOUS
<1>3. list'.site = s /\ list'.rows = rows /\ list'.clients = clients
  BY <1>1, <1>2
<1>4. ASSUME NEW m \in DOMAIN clients
      PROVE  LET r == N!RowAt(rows, s, m)
                 c == clients[m]
             IN  /\ c.trusted = (r # None /\ r.trusted /\ ~r.past)
                 /\ r # None /\ r.hostname # None => c.host = r.hostname
  <2>1. PICK r, c, f : /\ r = (IF rows[m] # None /\ rows[m].site = s THEN rows[m] ELSE None)
                       /\ c = clients[m] /\ f = found[m]
    OBVIOUS
  <2>2. c = N!Customized(f, r)
    BY <1>2, <2>1
  <2>3. c.trusted = (r # None /\ r.trusted /\ ~r.past) /\ (r # None /\ r.hostname # None => c.host = r.hostname)
    BY <2>2 DEF N!Customized
  <2>4. N!RowAt(rows, s, m) = r
    BY <2>1, IdentityAssumption DEF N!RowAt, N!InScope
  <2>5. QED
    BY <2>1, <2>3, <2>4
<1>5. QED
  BY <1>3, <1>4 DEF ListKept

\* Every step keeps the directory being loaded and the list.
LEMMA IdentityNext == ASSUME IdentityInv, [N!Next]_N!vars PROVE IdentityInv'
<1>1. CASE UNCHANGED N!vars
  BY <1>1 DEF N!vars, IdentityInv, ListKept
<1>2. CASE N!Next
  <2>1. row' \in Rows0
    BY <1>2, RowStep DEF IdentityInv
  <2>2. ASSUME NEW m \in Macs, NEW s \in Sites, NEW n \in Names \cup {None},
               N!UpdateClientHostname(m, s, n) \/ N!TrustClient(m, s, n) \/ N!UntrustClient(m, s)
        PROVE  IdentityInv'
    <3>1. list' = None /\ load' = load
      BY <2>2 DEF N!UpdateClientHostname, N!TrustClient, N!UntrustClient, N!Change
    <3>2. QED
      BY <2>1, <3>1 DEF IdentityInv, ListKept
  <2>3. ASSUME NEW m \in Macs, N!Expire(m) PROVE IdentityInv'
    BY <2>1, <2>3 DEF N!Expire, IdentityInv, ListKept
  <2>4. ASSUME NEW s \in Sites \cup {None}, N!LoadManual(s) PROVE IdentityInv'
    BY <2>4, ManualStep
  <2>5. ASSUME NEW d \in N!Nodes, N!LoadDevice(d) PROVE IdentityInv'
    BY <2>5, DeviceStep
  <2>6. CASE N!LoadEntry
    BY <2>6, EntryStep
  <2>7. CASE N!LoadEnds
    BY <2>1, <2>7 DEF N!LoadEnds, IdentityInv, ListKept
  <2>8. ASSUME NEW s \in Sites, N!GetClients(s) PROVE IdentityInv'
    <3>1. load' = load
      BY <2>8 DEF N!GetClients
    <3>2. ListKept'
      BY <2>8, ListStep
    <3>3. QED
      BY <2>1, <3>1, <3>2 DEF IdentityInv
  <2>9. QED
    BY <1>2, <2>2, <2>3, <2>4, <2>5, <2>6, <2>7, <2>8 DEF N!Next
<1>3. QED
  BY <1>1, <1>2

\* A directory that is loaded says what the rows say.
LEMMA LoadedIsKept == IdentityInv => IdentityKept
<1> SUFFICES ASSUME IdentityInv PROVE IdentityKept
  OBVIOUS
<1>1. ASSUME N!Loaded, NEW m \in Macs
      PROVE  LET r == N!RowAt(load.rows, load.site, m)
                 i == load.dir[m]
             IN  /\ r # None => /\ N!Either(r.label, r.hostname) # None
                                    => i.label = N!Either(r.label, r.hostname)
                                /\ N!IsTrusted(i) = (r.trusted /\ ~r.past)
                 /\ i # None /\ r = None => ~i.trusted
                 /\ m \in N!Nodes /\ N!InScope(load.site, Reports[m].site) => i.kind = "node"
  <2>1. DirectoryKept(load.rows, load.site, load.left, load.dir) /\ load.left = {}
    BY <1>1 DEF N!Loaded, IdentityInv
  <2>2. PICK r, i : r = N!RowAt(load.rows, load.site, m) /\ i = load.dir[m]
    OBVIOUS
  <2>3. /\ EntryKept(r, i)
        /\ m \in N!Nodes /\ N!InScope(load.site, Reports[m].site) => i.kind = "node"
    BY <2>1, <2>2 DEF DirectoryKept
  <2>4. /\ r # None => /\ N!Either(r.label, r.hostname) # None
                            => i.label = N!Either(r.label, r.hostname)
                       /\ N!IsTrusted(i) = (r.trusted /\ ~r.past)
        /\ i # None /\ r = None => ~i.trusted
    BY <2>3 DEF EntryKept, N!IsTrusted
  <2>5. QED
    BY <2>2, <2>3, <2>4
<1>2. ListKept
  BY DEF IdentityInv
<1>3. QED
  BY <1>1, <1>2 DEF IdentityKept, N!IdentityKept, ListKept

\* For any devices, reports, sites and changes by administrators, and whatever the
\* order in which devices and their tables are gone through: an administrator's label
\* and trust of a client survive the telemetry, telemetry gives nobody trust, a managed
\* device stays a node, and the client list shows the typed name and the same trust.
THEOREM IdentityIsKept == N!Spec => []IdentityKept
<1>1. QED
  BY IdentityInit, IdentityNext, LoadedIsKept, PTL DEF N!Spec
===============================================================================
