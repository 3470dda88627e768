-------------------------- MODULE ConfigurationParts --------------------------
(***************************************************************************)
(* What reaches a device's configuration besides rollouts and the journal,  *)
(* and what is read back from it, side by side: the site's configuration    *)
(* from form to device, the batch scripts of the UCI bridge, the mesh VPN,  *)
(* and the identities of clients.  The models share no state.  `part' says  *)
(* which of them runs in a behaviour; the others stay in an initial state.  *)
(* The batch model is extended, the others are instances.                   *)
(***************************************************************************)
EXTENDS UciBatch, Sequences

CONSTANTS
    \* SiteConfiguration
    Templates, Leases, Boards, Edits, Rows, Wlans, MaxEdits,
    \* MeshVpn
    Devices, Hub, Addresses, Syncs, MaxNodes, MaxSyncs, MaxFaults,
    \* ClientIdentity
    Macs, Sites, Reports, Names, MaxChanges

VARIABLES
    part,
    site, wlans, role, live, wireless, wifi, draft, queued, wg, last, edits,
    nodes, drawn, sync, board, agreed, started, faults,
    row, load, list, given, changes

F == INSTANCE SiteConfiguration WITH MaxChanges <- MaxEdits, changes <- edits

V == INSTANCE MeshVpn

N == INSTANCE ClientIdentity WITH Devices <- Reports

\* A template has the site's network and its credentials among its fields; the
\* table of WLANs is finite, and a board has finitely many wireless interfaces.
ASSUME FormAssumption ==
    /\ \A t \in Templates : {"ssid", "enc", "key"} \subseteq DOMAIN t
    /\ Rows \subseteq F!Wlan
    /\ IsFiniteSet(Wlans)
    /\ \A b \in Boards : b.wireless \in Seq([ssid : STRING, enc : STRING, key : STRING])

\* A mesh has finitely many devices.
ASSUME MeshAssumption == IsFiniteSet(Devices) /\ MaxNodes \in Nat

\* Devices of known sites report finitely many clients; None is not a site, and
\* not an entry of the directory.
ASSUME IdentityAssumption ==
    /\ DOMAIN Reports \subseteq Macs
    /\ \A d \in DOMAIN Reports :
         /\ Reports[d] \in N!Report
         /\ \A t \in {"stations", "radios", "arp", "bridge", "leases"} : IsFiniteSet(Reports[d][t])
    /\ None \notin Sites /\ None \notin N!Identity

siteVars == <<site, wlans, role, live, wireless, wifi, draft, queued, wg, last, edits>>
meshVars == <<nodes, drawn, sync, board, agreed, started, faults>>
identityVars == <<row, load, list, given, changes>>
allVars == <<part, siteVars, vars, meshVars, identityVars>>

\* The site's model has several initial states: if it does not run it stays in
\* one with an access point.
PartInit ==
    /\ part \in {"site", "batch", "mesh", "identity"}
    /\ F!Init /\ (part # "site" => role = "AP")
    /\ Init /\ V!Init /\ N!Init

PartNext ==
    /\ UNCHANGED part
    /\ IF part = "site" THEN F!Next ELSE UNCHANGED siteVars
    /\ IF part = "batch" THEN Next ELSE UNCHANGED vars
    /\ IF part = "mesh" THEN V!Next ELSE UNCHANGED meshVars
    /\ IF part = "identity" THEN N!Next ELSE UNCHANGED identityVars

-----------------------------------------------------------------------------
(* Properties: those of the models.  BatchAtomic is that of UciBatch. *)

\* After a rollout that ended well the device shows what the template asked for
\* (SiteConfiguration).
AppliedMatches == F!AppliedMatches

\* After an import template and WLAN rows do not contradict each other (SiteConfiguration).
ImportAgrees == F!ImportAgrees

\* After a rollout that ended well the drift report says MATCH (SiteConfiguration).
SyncedMatches == F!SyncedMatches

\* After a whole sync hub and spokes of the mesh know each other (MeshVpn).
MeshCovered == V!MeshCovered

\* Telemetry changes neither an operator's labels nor trust (ClientIdentity).
IdentityKept == N!IdentityKept

\* The trust of a client stays at the site where it was given (ClientIdentity).
TrustScoped == N!TrustScoped
=============================================================================
