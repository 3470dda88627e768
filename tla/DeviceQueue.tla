----------------------------- MODULE DeviceQueue -----------------------------
(***************************************************************************)
(* The work queue of one device: the statements of DeviceRow run against   *)
(* one row of `devices`, in any order, by the API handlers, the rollout    *)
(* worker and the telemetry goroutines.                                    *)
(*                                                                         *)
(* Nothing is assumed about who reports: telemetry persists every status   *)
(* in a goroutine of its own after the 202 is sent (telemetry.go), so a    *)
(* status may arrive late, twice, out of order, for work that was replaced *)
(* long ago, without a generation or a hash (older agents), or never.  A   *)
(* report is therefore any status at all.                                  *)
(*                                                                         *)
(* The table rollout_runs is seen through two sets: the rollouts of the    *)
(* device's site that are RUNNING, and those of them that were touched in  *)
(* the last 20 minutes.  Module Rollout has the table itself.              *)
(***************************************************************************)
EXTENDS DeviceRow

CONSTANTS Rollouts,   \* ids of the rollouts of the device's site
          MaxGen      \* bound: generations the enumerated plans and reports name

ASSUME MaxGenAssumption == MaxGen \in Nat \ {0}

VARIABLES row,       \* the device's row
          running,   \* rollouts of the site with status RUNNING
          fresh      \* those with updated_at in the last 20 minutes

vars == <<row, running, fresh>>

Gens == 0 .. MaxGen

\* Generation 0: the plan does not name one.
OpPlans == [id : OpIds, hash : Hashes, gen : Gens]

ChangeSets == [id : CsIds, hash : Hashes, gen : Gens]

OpReports == [id : OpIds, hash : Hashes \cup {NoHash}, gen : Gens, state : OpStates]

\* parseDeviceChangeSet refuses a status without a hash or a generation.
CsReports == [id : CsIds, hash : Hashes, gen : Gens \ {0}, state : CsStates]

Init == /\ \E capable \in BOOLEAN, role \in Roles : row = InitRow(capable, role)
        /\ running = {} /\ fresh = {}

-----------------------------------------------------------------------------
(* API handlers and the rollout worker *)

QueueDeviceOperation(plan) ==
    /\ CanQueueOp(row, plan, fresh # {})
    /\ ReservedGen(row, plan) <= MaxGen
    /\ row' = QueueOp(row, plan)
    /\ UNCHANGED <<running, fresh>>

QueueDeviceChangeSet(cs) ==
    /\ CanQueueCs(row, cs, fresh # {})
    /\ ReservedGen(row, cs) <= MaxGen
    /\ row' = QueueCs(row, cs)
    /\ UNCHANGED <<running, fresh>>

\* The owner must be RUNNING, and it is the one active rollout that does not
\* fence the device; the role must still be the one of the draft.
QueueDeviceChangeSetForRollout(cs, owner, ownerRole) ==
    /\ owner \in running
    /\ row.role = ownerRole
    /\ CanQueueCs(row, cs, fresh \ {owner} # {})
    /\ ReservedGen(row, cs) <= MaxGen
    /\ row' = QueueCs(row, cs)
    /\ UNCHANGED <<running, fresh>>

\* The claim of a draft and its first phase in one transaction.  The claim needs
\* a site without an active rollout, turns the expired ones STALE and releases
\* their devices; the row is then queued under that claim.
ClaimAndQueueDeviceChangeSet(cs, ownerRole) ==
    LET claimed == IF running # {} THEN EndRunning(row, "FAILED") ELSE row
    IN  /\ fresh = {}
        /\ claimed.role = ownerRole
        /\ CanQueueCs(claimed, cs, FALSE)
        /\ ReservedGen(claimed, cs) <= MaxGen
        /\ row' = QueueCs(claimed, cs)
        /\ running' = {} /\ fresh' = {}

-----------------------------------------------------------------------------
(* Telemetry *)

RecordDeviceOperationStatus(st) ==
    /\ OpStatusApplies(row, st)
    /\ row' = RecordOp(row, st)
    /\ UNCHANGED <<running, fresh>>

\* The second statement of the handler updates QUEUED rollouts only, which
\* neither set contains; see Rollout!RecordRolloutResult.
RecordDeviceChangeSetStatus(st) ==
    /\ CsStatusApplies(row, st)
    /\ row' = RecordCs(row, st)
    /\ UNCHANGED <<running, fresh>>

ReportCapabilities ==
    /\ \E capable \in BOOLEAN : row' = [row EXCEPT !.capable = capable]
    /\ UNCHANGED <<running, fresh>>

-----------------------------------------------------------------------------
(* The rest of the site *)

\* An SSH rollout that holds its claim marks the device.
MarkRolloutDeviceRunning ==
    /\ running # {}
    /\ \E role \in Roles : CanMarkRunning(row, role)
    /\ row' = MarkRunning(row)
    /\ UNCHANGED <<running, fresh>>

\* It ends, or a later claim or failure of the site's rollouts ends it.
EndSshRollout ==
    /\ row.rolloutStatus = "RUNNING"
    /\ \E status \in SshStatuses : row' = EndRunning(row, status)
    /\ running' \in SUBSET Rollouts
    /\ fresh' \in SUBSET running'

UpdateDeviceRole ==
    /\ row.rolloutStatus # "RUNNING"
    /\ \E role \in Roles : row' = [row EXCEPT !.role = role]
    /\ UNCHANGED <<running, fresh>>

SiteRolloutsChange ==
    /\ running' \in SUBSET Rollouts
    /\ fresh' \in SUBSET running'
    /\ UNCHANGED row

Next == \/ \E plan \in OpPlans : QueueDeviceOperation(plan)
        \/ \E cs \in ChangeSets : QueueDeviceChangeSet(cs)
        \/ \E cs \in ChangeSets, owner \in Rollouts, role \in Roles :
              QueueDeviceChangeSetForRollout(cs, owner, role)
        \/ \E cs \in ChangeSets, role \in Roles : ClaimAndQueueDeviceChangeSet(cs, role)
        \/ \E st \in OpReports : RecordDeviceOperationStatus(st)
        \/ \E st \in CsReports : RecordDeviceChangeSetStatus(st)
        \/ ReportCapabilities
        \/ MarkRolloutDeviceRunning
        \/ EndSshRollout
        \/ UpdateDeviceRole
        \/ SiteRolloutsChange

Spec == Init /\ [][Next]_vars

-----------------------------------------------------------------------------
(* Invariants *)

TypeOK == /\ row \in Row
          /\ running \in SUBSET Rollouts
          /\ fresh \in SUBSET running

\* The agent refuses both when a pull delivers an operation and a change set
\* (provision.go answers 503), and an SSH rollout rewrites the same files: of
\* the three ways to configure a device at most one is under way.
OneTransport == /\ row.pendingOp = NoWork \/ row.pendingCs = NoWork
                /\ row.rolloutStatus = "RUNNING" => NoPending(row)

\* Work that waits for the device carries the generation that the device is
\* meant to reach: no later reservation overtakes work still in the queue.
PendingIsDesired == /\ row.pendingOp # NoWork => row.pendingOp.gen = row.desired
                    /\ row.pendingCs # NoWork => row.pendingCs.gen = row.desired

\* No report, however late or malformed, makes the controller believe that the
\* device reached a generation that was never reserved for it.
ObservedNotAhead == row.observed <= row.desired /\ row.successful <= row.desired

\* While an operation waits, the last recorded status is about that operation:
\* a report about its predecessor cannot make it look applied.  (Queueing
\* clears the column; a change set's status column is not cleared.)
LastSpeaksOfPending ==
    (row.pendingOp # NoWork /\ row.lastOp # NoStatus)
        => /\ row.lastOp.id = row.pendingOp.id
           /\ row.lastOp.hash \in {NoHash, row.pendingOp.hash}
           /\ row.lastOp.gen \in {0, row.pendingOp.gen}

\* The four together: one way of configuring a device at a time, and a row whose
\* generations and recorded status fit the work that waits.
QueueCoherent == OneTransport /\ PendingIsDesired /\ ObservedNotAhead /\ LastSpeaksOfPending

-----------------------------------------------------------------------------
(* Action properties *)

\* Queued work leaves the queue only by a terminal report about itself: same
\* id, same plan, and the same generation whenever the report names one.
ClearedByOwnReport ==
    [][/\ (row.pendingOp # NoWork /\ row'.pendingOp # row.pendingOp)
            => /\ row'.pendingOp = NoWork
               /\ row'.lastOp.state \in OpTerminal
               /\ row'.lastOp.id = row.pendingOp.id
               /\ row'.lastOp.hash = row.pendingOp.hash
               /\ row'.lastOp.gen \in {0, row.pendingOp.gen}
       /\ (row.pendingCs # NoWork /\ row'.pendingCs # row.pendingCs)
            => /\ row'.pendingCs = NoWork
               /\ row'.lastCs.state \in CsTerminal
               /\ row'.lastCs.id = row.pendingCs.id
               /\ row'.lastCs.hash = row.pendingCs.hash
               /\ row'.lastCs.gen = row.pendingCs.gen]_vars

\* A recorded outcome is final: a late report of an earlier phase, or of the
\* other outcome, does not replace it.  Only new work does (an operation by
\* clearing the column, a change set by its own first report).
OutcomeIsFinal ==
    [][/\ (row.pendingOp = NoWork /\ row.lastOp.state \in OpTerminal)
            => \/ row'.lastOp.state = row.lastOp.state /\ row'.lastOp.id = row.lastOp.id
               \/ row'.lastOp = NoStatus /\ row'.pendingOp # NoWork
       /\ (row.pendingCs = NoWork /\ row.lastCs.state \in CsTerminal)
            => row'.lastCs.state = row.lastCs.state /\ row'.lastCs.id = row.lastCs.id]_vars

\* A device whose change set needs manual recovery is fenced for good: no
\* statement of the queue gives it new work or forgets the state.
RecoveryFence ==
    [][row.lastCs.state = "RECOVERY_REQUIRED"
         => /\ row'.lastCs.state = "RECOVERY_REQUIRED"
            /\ NoPending(row')
            /\ row'.rolloutStatus = "RUNNING" => row.rolloutStatus = "RUNNING"]_vars

\* Generations never go back, and the observed one moves only when a COMMITTED
\* report names it.
GenerationsGrow ==
    [][/\ row'.desired >= row.desired
       /\ row'.observed >= row.observed
       /\ row'.observed # row.observed
            => \/ row'.lastOp.state = "COMMITTED" /\ row'.observed = row'.lastOp.gen
               \/ row'.lastCs.state = "COMMITTED" /\ row'.observed = row'.lastCs.gen]_vars
=============================================================================
