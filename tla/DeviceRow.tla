------------------------------ MODULE DeviceRow ------------------------------
(***************************************************************************)
(* One row of the controller's `devices` table, as far as configuration    *)
(* work is concerned, and what the four statements of the database layer   *)
(* do to it:                                                               *)
(*                                                                         *)
(*   QueueDeviceOperation            internal/database/device_operations.go*)
(*   RecordDeviceOperationStatus     internal/database/device_operations.go*)
(*   queueDeviceChangeSet            internal/database/device_change_sets.go*)
(*   RecordDeviceChangeSetStatus     internal/database/device_change_sets.go*)
(*                                                                         *)
(* Each of them is one UPDATE ... WHERE: the operators ending in `Matches` *)
(* or starting with `Can` are the WHERE clause, the operators that return  *)
(* a row are the SET list.  They are pure, so that the specification of    *)
(* one device (DeviceQueue) and the one of a site (Rollout) share them.    *)
(*                                                                         *)
(* A JSONB column that is NULL is the record NoWork or NoStatus; a key     *)
(* that is absent is NoHash, generation 0 or state "".  Payloads (the UCI  *)
(* commands, health checks) are represented by the plan hash alone.        *)
(***************************************************************************)
EXTENDS Naturals

CONSTANTS OpIds,    \* operation_id of typed device operations
          CsIds,    \* change_set_id of device change sets
          Hashes,   \* plan_hash: the immutable content of a plan
          Roles,    \* device_role
          NoId,     \* `->>'id'` of a NULL column
          NoHash    \* an absent plan_hash (older agents)

ASSUME IdAssumption == /\ NoId \notin OpIds \cup CsIds
                       /\ NoHash \notin Hashes

OpStates == {"APPLYING", "PENDING_CONFIRM", "ROLLING_BACK", "COMMITTED",
             "RESTORED", "RECOVERY_REQUIRED"}

CsStates == OpStates \cup {"PREPARED", "REJECTED"}

\* What the SSH rollout writes to last_rollout_status.
SshStatuses == {"SUCCESS", "FAILED", "ABORTED", "STALE"}

RolloutStatuses == {"", "QUEUED", "RUNNING"} \cup CsStates \cup SshStatuses

\* Terminal for a standalone operation: RECOVERY_REQUIRED is not, so it
\* leaves pending_operation in place.
OpTerminal == {"COMMITTED", "RESTORED"}

CsTerminal == {"COMMITTED", "RESTORED", "RECOVERY_REQUIRED", "REJECTED"}

-----------------------------------------------------------------------------
(* The row *)

Work(Ids) == [id : Ids, hash : Hashes, gen : Nat]

NoWork == [id |-> NoId, hash |-> NoHash, gen |-> 0]

Status(Ids, States) ==
    [id : Ids, hash : Hashes \cup {NoHash}, gen : Nat, state : States]

NoStatus == [id |-> NoId, hash |-> NoHash, gen |-> 0, state |-> ""]

Row == [pendingOp : Work(OpIds) \cup {NoWork},
        pendingCs : Work(CsIds) \cup {NoWork},
        lastOp    : Status(OpIds, OpStates) \cup {NoStatus},
        lastCs    : Status(CsIds, CsStates) \cup {NoStatus},
        desired : Nat, observed : Nat, successful : Nat,
        rolloutStatus : RolloutStatuses,
        capable : BOOLEAN,      \* capabilities.device_change_set is the v2 contract
        role : Roles]

InitRow(capable, role) ==
    [pendingOp |-> NoWork, pendingCs |-> NoWork,
     lastOp |-> NoStatus, lastCs |-> NoStatus,
     desired |-> 0, observed |-> 0, successful |-> 0,
     rolloutStatus |-> "", capable |-> capable, role |-> role]

Greatest(a, b) == IF a >= b THEN a ELSE b

\* A plan without a generation reserves the next one; a bound plan keeps its own.
ReservedGen(row, plan) == IF plan.gen > 0 THEN plan.gen ELSE row.desired + 1

Reserved(row, plan) == [plan EXCEPT !.gen = ReservedGen(row, plan)]

\* Mutant: the guard of the time before change sets existed.
NoPendingOpOnly(row) == row.pendingOp = NoWork

NoPending(row) == row.pendingOp = NoWork /\ row.pendingCs = NoWork

\* Mutant: the recovery state of a change set is not consulted.
NeedsOpRecovery(row) == row.lastOp.state = "RECOVERY_REQUIRED"

NeedsRecovery(row) == \/ row.lastOp.state = "RECOVERY_REQUIRED"
                      \/ row.lastCs.state = "RECOVERY_REQUIRED"

\* The conjuncts that every queueing statement shares.
Unfenced(row) == /\ row.rolloutStatus # "RUNNING"
                 /\ NoPending(row)
                 /\ ~NeedsRecovery(row)

-----------------------------------------------------------------------------
(* Standalone typed operations *)

\* siteActive: some rollout of the site is RUNNING and was touched during the
\* last 20 minutes.
CanQueueOp(row, plan, siteActive) ==
    /\ Unfenced(row)
    /\ ~siteActive
    /\ row.lastOp.id # plan.id
    /\ plan.gen > 0 => row.desired = plan.gen

QueueOp(row, plan) ==
    [row EXCEPT !.pendingOp = Reserved(row, plan),
                !.desired = ReservedGen(row, plan),
                !.lastOp = NoStatus,
                !.rolloutStatus = "QUEUED"]

\* An absent hash is accepted only for work without a generation (legacy).
OpContentMatches(stored, st) ==
    /\ stored.id = st.id
    /\ IF st.hash # NoHash THEN stored.hash = st.hash ELSE stored.gen = 0
    /\ st.gen = 0 \/ stored.gen = st.gen

OpPendingMatches(row, st) == OpContentMatches(row.pendingOp, st)

\* Mutant: a terminal status may be replaced by any later report.
OpLastMatchesAnyState(row, st) ==
    row.pendingCs = NoWork /\ OpContentMatches(row.lastOp, st)

OpLastMatches(row, st) ==
    /\ row.pendingCs = NoWork
    /\ OpContentMatches(row.lastOp, st)
    /\ row.lastOp.state \in OpTerminal => row.lastOp.state = st.state

OpStatusApplies(row, st) == OpPendingMatches(row, st) \/ OpLastMatches(row, st)

ReportedGen(current, st) ==
    IF st.state = "COMMITTED" /\ st.gen > 0 THEN Greatest(current, st.gen) ELSE current

ReportedRolloutStatus(row, st) ==
    IF row.rolloutStatus = "RUNNING" THEN "RUNNING" ELSE st.state

RecordOp(row, st) ==
    [row EXCEPT !.lastOp = st,
                !.pendingOp = IF st.state \in OpTerminal /\ OpPendingMatches(row, st)
                              THEN NoWork ELSE row.pendingOp,
                !.rolloutStatus = ReportedRolloutStatus(row, st),
                !.observed = ReportedGen(row.observed, st),
                !.successful = ReportedGen(row.successful, st)]

-----------------------------------------------------------------------------
(* Device change sets *)

\* siteActive excludes the rollout that owns the change set.
CanQueueCs(row, cs, siteActive) ==
    /\ row.capable
    /\ Unfenced(row)
    /\ ~siteActive
    /\ row.lastCs.id # cs.id
    /\ cs.gen > 0 => row.desired = cs.gen

\* Unlike QueueOp, the last recorded status stays.
QueueCs(row, cs) ==
    [row EXCEPT !.pendingCs = Reserved(row, cs),
                !.desired = ReservedGen(row, cs),
                !.rolloutStatus = "QUEUED"]

SameChangeSet(stored, cs) ==
    stored.id = cs.id /\ stored.hash = cs.hash /\ (cs.gen > 0 => stored.gen = cs.gen)

\* The answer to a change set that could not be queued: the generation under
\* which the row already holds it, or 0 for every error.
HeldCsGen(row, cs) ==
    LET held == IF row.pendingCs # NoWork THEN row.pendingCs ELSE row.lastCs
    IN  IF row.capable /\ row.lastCs.state # "RECOVERY_REQUIRED" /\ SameChangeSet(held, cs)
        THEN held.gen ELSE 0

\* From which recorded states of the same change set a state may follow.
CsFrom == [PREPARED          |-> {"", "PREPARED"},
           APPLYING          |-> {"PREPARED", "APPLYING"},
           PENDING_CONFIRM   |-> {"APPLYING", "PENDING_CONFIRM"},
           ROLLING_BACK      |-> {"PREPARED", "APPLYING", "PENDING_CONFIRM", "ROLLING_BACK"},
           COMMITTED         |-> {"APPLYING", "PENDING_CONFIRM", "COMMITTED"},
           RESTORED          |-> {"ROLLING_BACK", "RESTORED"},
           RECOVERY_REQUIRED |-> {"PREPARED", "APPLYING", "PENDING_CONFIRM", "ROLLING_BACK",
                                  "RECOVERY_REQUIRED"},
           REJECTED          |-> {"", "PREPARED", "APPLYING", "REJECTED"}]

CsTransition(row, st) == row.lastCs.id # st.id \/ row.lastCs.state \in CsFrom[st.state]

\* Mutant: the plan hash a report names is not compared.
CsContentMatchesAnyHash(stored, st) == stored.id = st.id /\ stored.gen = st.gen

CsContentMatches(stored, st) ==
    stored.id = st.id /\ stored.hash = st.hash /\ stored.gen = st.gen

CsPendingMatches(row, st) == /\ row.pendingOp = NoWork
                             /\ CsContentMatches(row.pendingCs, st)
                             /\ CsTransition(row, st)

CsLastMatches(row, st) ==
    /\ NoPending(row)
    /\ CsContentMatches(row.lastCs, st)
    /\ row.lastCs.state \in CsTerminal => row.lastCs.state = st.state
    /\ CsTransition(row, st)

CsStatusApplies(row, st) == CsPendingMatches(row, st) \/ CsLastMatches(row, st)

RecordCs(row, st) ==
    [row EXCEPT !.lastCs = st,
                !.pendingCs = IF st.state \in CsTerminal /\ CsPendingMatches(row, st)
                              THEN NoWork ELSE row.pendingCs,
                !.rolloutStatus = ReportedRolloutStatus(row, st),
                !.observed = ReportedGen(row.observed, st),
                !.successful = ReportedGen(row.successful, st)]

-----------------------------------------------------------------------------
(* The SSH rollout on one device *)

CanMarkRunning(row, role) == Unfenced(row) /\ row.role = role

MarkRunning(row) == [row EXCEPT !.rolloutStatus = "RUNNING"]

\* Every statement that ends an SSH rollout touches only RUNNING devices.
EndRunning(row, status) ==
    IF row.rolloutStatus = "RUNNING" THEN [row EXCEPT !.rolloutStatus = status] ELSE row
=============================================================================
