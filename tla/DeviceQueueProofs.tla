-------------------------- MODULE DeviceQueueProofs --------------------------
(***************************************************************************)
(* What DeviceQueue promises for every set of ids, plans, roles and        *)
(* rollouts, every bound on generations and every sequence of reports.     *)
(*                                                                         *)
(* The inductive invariant IInv adds to the properties of interest that    *)
(* every generation the controller has heard of was reserved, that the     *)
(* status it keeps beside a waiting operation is about that operation,     *)
(* that a waiting operation has a generation, and that nothing waits for a *)
(* device whose last change set requires recovery.                         *)
(***************************************************************************)
EXTENDS DeviceQueue, TLAPS

\* The invariant as a predicate on a row, so that each statement of DeviceRow
\* can be shown to keep it once, whoever runs the statement.
RowInv(r) ==
    /\ r.pendingOp = NoWork \/ r.pendingCs = NoWork
    /\ r.rolloutStatus = "RUNNING" => NoPending(r)
    /\ r.pendingOp # NoWork => r.pendingOp.gen = r.desired
    /\ r.pendingCs # NoWork => r.pendingCs.gen = r.desired
    /\ r.observed <= r.desired /\ r.successful <= r.desired
    /\ r.lastOp.gen <= r.desired /\ r.lastCs.gen <= r.desired
    /\ (r.pendingOp # NoWork /\ r.lastOp # NoStatus)
         => /\ r.lastOp.id = r.pendingOp.id
            /\ r.lastOp.hash \in {NoHash, r.pendingOp.hash}
            /\ r.lastOp.gen \in {0, r.pendingOp.gen}
    /\ r.pendingOp # NoWork => r.pendingOp.gen > 0
    /\ r.lastCs.state = "RECOVERY_REQUIRED" => NoPending(r)

IInv == TypeOK /\ RowInv(row)


-----------------------------------------------------------------------------
(* The statements of DeviceRow keep the row a row. *)

\* Reserving a generation for a plan (device_operations.go:119-124) yields a
\* record of the same kind with a generation of its own.
LEMMA ReservedType ==
    ASSUME NEW Ids, NEW r \in Row, NEW plan \in [id : Ids, hash : Hashes, gen : Nat]
    PROVE  /\ ReservedGen(r, plan) \in Nat \ {0}
           /\ Reserved(r, plan) \in Work(Ids)
           /\ Reserved(r, plan).gen = ReservedGen(r, plan)
           /\ Reserved(r, plan).id = plan.id
  <1>1. r.desired \in Nat BY DEF Row
  <1> QED BY <1>1 DEF Reserved, ReservedGen, Work

\* QueueDeviceOperation writes a well-formed row.
LEMMA QueueOpType ==
    ASSUME NEW r \in Row, NEW plan \in [id : OpIds, hash : Hashes, gen : Nat]
    PROVE  QueueOp(r, plan) \in Row
  <1>1. /\ ReservedGen(r, plan) \in Nat
        /\ Reserved(r, plan) \in Work(OpIds)
    BY ReservedType
  <1> QED BY <1>1 DEF QueueOp, Row, RolloutStatuses

\* queueDeviceChangeSet writes a well-formed row.
LEMMA QueueCsType ==
    ASSUME NEW r \in Row, NEW cs \in [id : CsIds, hash : Hashes, gen : Nat]
    PROVE  QueueCs(r, cs) \in Row
  <1>1. /\ ReservedGen(r, cs) \in Nat
        /\ Reserved(r, cs) \in Work(CsIds)
    BY ReservedType
  <1> QED BY <1>1 DEF QueueCs, Row, RolloutStatuses

\* RecordDeviceOperationStatus writes a well-formed row.
LEMMA RecordOpType ==
    ASSUME NEW r \in Row, NEW st \in Status(OpIds, OpStates)
    PROVE  RecordOp(r, st) \in Row
  <1>1. /\ ReportedGen(r.observed, st) \in Nat
        /\ ReportedGen(r.successful, st) \in Nat
    BY DEF Row, Status, ReportedGen, Greatest
  <1>2. ReportedRolloutStatus(r, st) \in RolloutStatuses
    BY DEF Status, ReportedRolloutStatus, RolloutStatuses, CsStates
  <1>3. (IF st.state \in OpTerminal /\ OpPendingMatches(r, st) THEN NoWork ELSE r.pendingOp)
            \in Work(OpIds) \cup {NoWork}
    BY DEF Row
  <1> QED BY <1>1, <1>2, <1>3 DEF RecordOp, Row

\* RecordDeviceChangeSetStatus writes a well-formed row.
LEMMA RecordCsType ==
    ASSUME NEW r \in Row, NEW st \in Status(CsIds, CsStates)
    PROVE  RecordCs(r, st) \in Row
  <1>1. /\ ReportedGen(r.observed, st) \in Nat
        /\ ReportedGen(r.successful, st) \in Nat
    BY DEF Row, Status, ReportedGen, Greatest
  <1>2. ReportedRolloutStatus(r, st) \in RolloutStatuses
    BY DEF Status, ReportedRolloutStatus, RolloutStatuses
  <1>3. (IF st.state \in CsTerminal /\ CsPendingMatches(r, st) THEN NoWork ELSE r.pendingCs)
            \in Work(CsIds) \cup {NoWork}
    BY DEF Row
  <1> QED BY <1>1, <1>2, <1>3 DEF RecordCs, Row

\* Ending an SSH rollout changes nothing but the rollout status.
LEMMA EndRunningType ==
    ASSUME NEW r \in Row, NEW status \in SshStatuses
    PROVE  EndRunning(r, status) \in Row
  BY DEF EndRunning, Row, RolloutStatuses

-----------------------------------------------------------------------------
(* The statements of DeviceRow keep the invariant of the row. *)

\* Every generation of a row is a natural number, the one of an absent
\* status and of absent work 0.
LEMMA RowGens ==
    ASSUME NEW r \in Row
    PROVE  /\ r.desired \in Nat /\ r.observed \in Nat /\ r.successful \in Nat
           /\ r.lastOp.gen \in Nat /\ r.lastCs.gen \in Nat
           /\ r.pendingOp.gen \in Nat /\ r.pendingCs.gen \in Nat
           /\ NoStatus.gen = 0 /\ NoWork.gen = 0
  <1>1. NoStatus.gen = 0 /\ NoWork.gen = 0 BY DEF NoStatus, NoWork
  <1>2. /\ r.lastOp \in Status(OpIds, OpStates) \/ r.lastOp = NoStatus
        /\ r.lastCs \in Status(CsIds, CsStates) \/ r.lastCs = NoStatus
        /\ r.pendingOp \in Work(OpIds) \/ r.pendingOp = NoWork
        /\ r.pendingCs \in Work(CsIds) \/ r.pendingCs = NoWork
        /\ r.desired \in Nat /\ r.observed \in Nat /\ r.successful \in Nat
    BY DEF Row
  <1>3. /\ r.lastOp \in Status(OpIds, OpStates) => r.lastOp.gen \in Nat
        /\ r.lastCs \in Status(CsIds, CsStates) => r.lastCs.gen \in Nat
    BY DEF Status
  <1>4. /\ r.pendingOp \in Work(OpIds) => r.pendingOp.gen \in Nat
        /\ r.pendingCs \in Work(CsIds) => r.pendingCs.gen \in Nat
    BY DEF Work
  <1> QED BY <1>1, <1>2, <1>3, <1>4

\* A reservation never goes back: a plan that names its generation is queued
\* only when that is the device's desired one.
LEMMA ReservedGrows ==
    ASSUME NEW Ids, NEW r \in Row, NEW plan \in [id : Ids, hash : Hashes, gen : Nat],
           plan.gen > 0 => r.desired = plan.gen
    PROVE  ReservedGen(r, plan) >= r.desired
  <1>1. r.desired \in Nat BY DEF Row
  <1> QED BY <1>1 DEF ReservedGen

\* QueueDeviceOperation keeps the invariant.
LEMMA QueueOpInv ==
    ASSUME NEW r \in Row, RowInv(r), NEW a,
           NEW plan \in [id : OpIds, hash : Hashes, gen : Nat],
           CanQueueOp(r, plan, a)
    PROVE  RowInv(QueueOp(r, plan))
  <1> DEFINE q == QueueOp(r, plan)
  <1>1. /\ ReservedGen(r, plan) \in Nat /\ ReservedGen(r, plan) > 0
        /\ ReservedGen(r, plan) >= r.desired
        /\ Reserved(r, plan).gen = ReservedGen(r, plan)
    BY ReservedType, ReservedGrows DEF CanQueueOp
  <1>2. /\ q.pendingOp = Reserved(r, plan)
        /\ q.pendingCs = NoWork
        /\ q.lastOp = NoStatus
        /\ q.lastCs = r.lastCs
        /\ q.desired = ReservedGen(r, plan)
        /\ q.observed = r.observed /\ q.successful = r.successful
        /\ q.rolloutStatus = "QUEUED"
    BY DEF QueueOp, Row, CanQueueOp, Unfenced, NoPending
  <1>3. q.lastCs.state # "RECOVERY_REQUIRED"
    BY <1>2 DEF CanQueueOp, Unfenced, NeedsRecovery
  <1> HIDE DEF q
  <1>4. RowInv(q) BY <1>1, <1>2, <1>3, RowGens DEF RowInv
  <1> QED BY <1>4 DEF q

\* queueDeviceChangeSet keeps the invariant.
LEMMA QueueCsInv ==
    ASSUME NEW r \in Row, RowInv(r), NEW a,
           NEW cs \in [id : CsIds, hash : Hashes, gen : Nat],
           CanQueueCs(r, cs, a)
    PROVE  RowInv(QueueCs(r, cs))
  <1> DEFINE q == QueueCs(r, cs)
  <1>1. /\ ReservedGen(r, cs) \in Nat /\ ReservedGen(r, cs) > 0
        /\ ReservedGen(r, cs) >= r.desired
        /\ Reserved(r, cs).gen = ReservedGen(r, cs)
    BY ReservedType, ReservedGrows DEF CanQueueCs
  <1>2. /\ q.pendingCs = Reserved(r, cs)
        /\ q.pendingOp = NoWork
        /\ q.lastOp = r.lastOp /\ q.lastCs = r.lastCs
        /\ q.desired = ReservedGen(r, cs)
        /\ q.observed = r.observed /\ q.successful = r.successful
        /\ q.rolloutStatus = "QUEUED"
    BY DEF QueueCs, Row, CanQueueCs, Unfenced, NoPending
  <1>3. q.lastCs.state # "RECOVERY_REQUIRED"
    BY <1>2 DEF CanQueueCs, Unfenced, NeedsRecovery
  <1> HIDE DEF q
  <1>4. RowInv(q) BY <1>1, <1>2, <1>3, RowGens DEF RowInv
  <1> QED BY <1>4 DEF q

\* A row that holds work or a status of a real id holds no null record.
LEMMA NotNull ==
    ASSUME NEW id \in OpIds \cup CsIds, NEW w, w.id = id
    PROVE  w # NoWork /\ w # NoStatus
  <1>1. NoWork.id = NoId /\ NoStatus.id = NoId BY DEF NoWork, NoStatus
  <1> QED BY <1>1, IdAssumption

\* What a recorded COMMITTED report does to an observed generation.
LEMMA ReportedGenBound ==
    ASSUME NEW current \in Nat, NEW bound \in Nat, NEW st, st.gen \in Nat,
           current <= bound, st.gen <= bound
    PROVE  ReportedGen(current, st) \in Nat /\ ReportedGen(current, st) <= bound
  BY DEF ReportedGen, Greatest

\* RecordDeviceOperationStatus keeps the invariant.
LEMMA RecordOpInv ==
    ASSUME NEW r \in Row, RowInv(r), NEW st \in Status(OpIds, OpStates),
           OpStatusApplies(r, st)
    PROVE  RowInv(RecordOp(r, st))
  <1> DEFINE q == RecordOp(r, st)
  <1>1. st.id \in OpIds /\ st.gen \in Nat /\ st.state \in OpStates BY DEF Status
  <1>2. OpPendingMatches(r, st) => r.pendingOp # NoWork
    BY <1>1, NotNull DEF OpPendingMatches, OpContentMatches
  <1>3. OpLastMatches(r, st) => r.lastOp # NoStatus
    BY <1>1, NotNull DEF OpLastMatches, OpContentMatches
  <1>4. st.gen <= r.desired
    <2>1. CASE OpPendingMatches(r, st)
      BY <1>1, <1>2, <2>1, RowGens DEF RowInv, OpPendingMatches, OpContentMatches
    <2>2. CASE OpLastMatches(r, st)
      BY <1>1, <2>2, RowGens DEF RowInv, OpLastMatches, OpContentMatches
    <2> QED BY <2>1, <2>2 DEF OpStatusApplies
  <1>5. r.pendingOp # NoWork => /\ st.id = r.pendingOp.id
                                /\ st.hash \in {NoHash, r.pendingOp.hash}
                                /\ st.gen \in {0, r.pendingOp.gen}
    <2>1. CASE OpPendingMatches(r, st)
      BY <2>1 DEF OpPendingMatches, OpContentMatches
    <2>2. CASE OpLastMatches(r, st)
      BY <1>3, <2>2 DEF RowInv, OpLastMatches, OpContentMatches
    <2> QED BY <2>1, <2>2 DEF OpStatusApplies
  <1>6. /\ q.pendingOp \in {NoWork, r.pendingOp} /\ q.pendingCs = r.pendingCs
        /\ q.lastOp = st /\ q.lastCs = r.lastCs
        /\ q.desired = r.desired
        /\ q.observed = ReportedGen(r.observed, st)
        /\ q.successful = ReportedGen(r.successful, st)
        /\ q.rolloutStatus = ReportedRolloutStatus(r, st)
    BY DEF RecordOp, Row
  <1>7. q.rolloutStatus = "RUNNING" => r.rolloutStatus = "RUNNING"
    BY <1>1, <1>6 DEF ReportedRolloutStatus, OpStates
  <1>8. q.observed <= q.desired /\ q.successful <= q.desired
    BY <1>1, <1>4, <1>6, ReportedGenBound, RowGens DEF RowInv
  <1> HIDE DEF q
  <1>9. RowInv(q) BY <1>4, <1>5, <1>6, <1>7, <1>8 DEF RowInv, NoPending
  <1> QED BY <1>9 DEF q

\* RecordDeviceChangeSetStatus keeps the invariant.
LEMMA RecordCsInv ==
    ASSUME NEW r \in Row, RowInv(r), NEW st \in Status(CsIds, CsStates),
           CsStatusApplies(r, st)
    PROVE  RowInv(RecordCs(r, st))
  <1> DEFINE q == RecordCs(r, st)
  <1>1. st.id \in CsIds /\ st.gen \in Nat /\ st.state \in CsStates BY DEF Status
  <1>2. CsPendingMatches(r, st) => r.pendingCs # NoWork
    BY <1>1, NotNull DEF CsPendingMatches, CsContentMatches
  <1>3. r.pendingOp = NoWork
    BY DEF CsStatusApplies, CsPendingMatches, CsLastMatches, NoPending
  <1>4. st.gen <= r.desired
    <2>1. CASE CsPendingMatches(r, st)
      BY <1>1, <1>2, <2>1, RowGens DEF RowInv, CsPendingMatches, CsContentMatches
    <2>2. CASE CsLastMatches(r, st)
      BY <1>1, <2>2, RowGens DEF RowInv, CsLastMatches, CsContentMatches
    <2> QED BY <2>1, <2>2 DEF CsStatusApplies
  <1>6. /\ q.pendingCs \in {NoWork, r.pendingCs} /\ q.pendingOp = r.pendingOp
        /\ q.lastCs = st /\ q.lastOp = r.lastOp
        /\ q.desired = r.desired
        /\ q.observed = ReportedGen(r.observed, st)
        /\ q.successful = ReportedGen(r.successful, st)
        /\ q.rolloutStatus = ReportedRolloutStatus(r, st)
    BY DEF RecordCs, Row
  <1>7. q.rolloutStatus = "RUNNING" => r.rolloutStatus = "RUNNING"
    BY <1>1, <1>6 DEF ReportedRolloutStatus, CsStates, OpStates
  <1>8. q.observed <= q.desired /\ q.successful <= q.desired
    BY <1>1, <1>4, <1>6, ReportedGenBound, RowGens DEF RowInv
  <1> HIDE DEF q
  <1>9. st.state = "RECOVERY_REQUIRED" => NoPending(q)
    <2> SUFFICES ASSUME st.state = "RECOVERY_REQUIRED" PROVE NoPending(q)
      OBVIOUS
    <2>1. CASE CsPendingMatches(r, st)
      BY <1>3, <2>1 DEF q, RecordCs, Row, CsTerminal, NoPending
    <2>2. CASE CsLastMatches(r, st)
      BY <1>6, <2>2 DEF CsLastMatches, NoPending
    <2> QED BY <2>1, <2>2 DEF CsStatusApplies
  <1>10. RowInv(q) BY <1>3, <1>4, <1>6, <1>7, <1>8, <1>9 DEF RowInv, NoPending
  <1> QED BY <1>10 DEF q

\* An SSH rollout takes a device that has nothing queued, and its end changes
\* only the rollout status, to a value other than RUNNING.
LEMMA RunningInv ==
    ASSUME NEW r \in Row, RowInv(r)
    PROVE  /\ NoPending(r) => MarkRunning(r) \in Row /\ RowInv(MarkRunning(r))
           /\ \A status \in SshStatuses : RowInv(EndRunning(r, status))
  <1>1. NoPending(r) => MarkRunning(r) \in Row BY DEF MarkRunning, Row, RolloutStatuses
  <1>2. NoPending(r) => RowInv(MarkRunning(r)) BY DEF MarkRunning, Row, RowInv, NoPending
  <1>3. ASSUME NEW status \in SshStatuses PROVE RowInv(EndRunning(r, status))
    BY DEF EndRunning, SshStatuses, Row, RowInv, NoPending
  <1> QED BY <1>1, <1>2, <1>3

-----------------------------------------------------------------------------
(* The invariant of the specification *)

\* A device that has just enrolled satisfies the invariant.
LEMMA InitInv == Init => IInv
  <1> SUFFICES ASSUME Init PROVE IInv OBVIOUS
  <1> PICK capable \in BOOLEAN, role \in Roles : row = InitRow(capable, role)
    BY DEF Init
  <1>1. row \in Row BY DEF Row, InitRow, RolloutStatuses
  <1>2. TypeOK BY <1>1 DEF Init, TypeOK
  <1>3. RowInv(row)
    <2>1. /\ row.pendingOp = NoWork /\ row.pendingCs = NoWork
          /\ row.lastOp = NoStatus /\ row.lastCs = NoStatus
          /\ row.desired = 0 /\ row.observed = 0 /\ row.successful = 0
      BY DEF InitRow
    <2> QED BY <1>1, <2>1, RowGens DEF RowInv, NoPending
  <1> QED BY <1>2, <1>3 DEF IInv

\* Every statement that any handler, worker or report runs keeps it.
LEMMA NextInv == IInv /\ [Next]_vars => IInv'
  <1> SUFFICES ASSUME IInv, [Next]_vars PROVE IInv' OBVIOUS
  <1> USE DEF IInv
  <1>0. /\ row \in Row /\ RowInv(row)
        /\ running \in SUBSET Rollouts /\ fresh \in SUBSET running
    BY DEF TypeOK
  <1>g. Gens \subseteq Nat BY DEF Gens
  <1>1. ASSUME NEW plan \in OpPlans, QueueDeviceOperation(plan) PROVE IInv'
    <2>1. plan \in [id : OpIds, hash : Hashes, gen : Nat] BY <1>g DEF OpPlans
    <2>2. row' = QueueOp(row, plan) /\ CanQueueOp(row, plan, fresh # {})
      BY <1>1 DEF QueueDeviceOperation
    <2>3. row' \in Row /\ RowInv(row)' BY <1>0, <2>1, <2>2, QueueOpType, QueueOpInv
    <2> QED BY <1>0, <1>1, <2>3 DEF QueueDeviceOperation, TypeOK
  <1>2. ASSUME NEW cs \in ChangeSets, QueueDeviceChangeSet(cs) PROVE IInv'
    <2>1. cs \in [id : CsIds, hash : Hashes, gen : Nat] BY <1>g DEF ChangeSets
    <2>2. row' = QueueCs(row, cs) /\ CanQueueCs(row, cs, fresh # {})
      BY <1>2 DEF QueueDeviceChangeSet
    <2>3. row' \in Row /\ RowInv(row)' BY <1>0, <2>1, <2>2, QueueCsType, QueueCsInv
    <2> QED BY <1>0, <1>2, <2>3 DEF QueueDeviceChangeSet, TypeOK
  <1>3. ASSUME NEW cs \in ChangeSets, NEW owner \in Rollouts, NEW role \in Roles,
               QueueDeviceChangeSetForRollout(cs, owner, role)
        PROVE IInv'
    <2>1. cs \in [id : CsIds, hash : Hashes, gen : Nat] BY <1>g DEF ChangeSets
    <2>2. row' = QueueCs(row, cs) /\ CanQueueCs(row, cs, fresh \ {owner} # {})
      BY <1>3 DEF QueueDeviceChangeSetForRollout
    <2>3. row' \in Row /\ RowInv(row)' BY <1>0, <2>1, <2>2, QueueCsType, QueueCsInv
    <2> QED BY <1>0, <1>3, <2>3 DEF QueueDeviceChangeSetForRollout, TypeOK
  <1>4. ASSUME NEW cs \in ChangeSets, NEW role \in Roles,
               ClaimAndQueueDeviceChangeSet(cs, role)
        PROVE IInv'
    <2>1. cs \in [id : CsIds, hash : Hashes, gen : Nat] BY <1>g DEF ChangeSets
    <2> DEFINE claimed == IF running # {} THEN EndRunning(row, "FAILED") ELSE row
    <2>2. "FAILED" \in SshStatuses BY DEF SshStatuses
    <2>3. claimed \in Row /\ RowInv(claimed)
      BY <1>0, <2>2, EndRunningType, RunningInv
    <2>4. row' = QueueCs(claimed, cs) /\ CanQueueCs(claimed, cs, FALSE)
          /\ running' = {} /\ fresh' = {}
      BY <1>4 DEF ClaimAndQueueDeviceChangeSet
    <2> HIDE DEF claimed
    <2>5. row' \in Row /\ RowInv(row)' BY <2>1, <2>3, <2>4, QueueCsType, QueueCsInv
    <2> QED BY <2>4, <2>5 DEF TypeOK
  <1>5. ASSUME NEW st \in OpReports, RecordDeviceOperationStatus(st) PROVE IInv'
    <2>1. st \in Status(OpIds, OpStates) BY <1>g DEF OpReports, Status
    <2>2. row' = RecordOp(row, st) /\ OpStatusApplies(row, st)
      BY <1>5 DEF RecordDeviceOperationStatus
    <2>3. row' \in Row /\ RowInv(row)' BY <1>0, <2>1, <2>2, RecordOpType, RecordOpInv
    <2> QED BY <1>0, <1>5, <2>3 DEF RecordDeviceOperationStatus, TypeOK
  <1>6. ASSUME NEW st \in CsReports, RecordDeviceChangeSetStatus(st) PROVE IInv'
    <2>1. st \in Status(CsIds, CsStates) BY <1>g DEF CsReports, Status
    <2>2. row' = RecordCs(row, st) /\ CsStatusApplies(row, st)
      BY <1>6 DEF RecordDeviceChangeSetStatus
    <2>3. row' \in Row /\ RowInv(row)' BY <1>0, <2>1, <2>2, RecordCsType, RecordCsInv
    <2> QED BY <1>0, <1>6, <2>3 DEF RecordDeviceChangeSetStatus, TypeOK
  <1>7. ASSUME ReportCapabilities PROVE IInv'
    <2> PICK capable \in BOOLEAN : row' = [row EXCEPT !.capable = capable]
      BY <1>7 DEF ReportCapabilities
    <2>1. row' \in Row BY <1>0 DEF Row
    <2>2. RowInv(row)' BY <1>0 DEF Row, RowInv, NoPending
    <2> QED BY <1>0, <1>7, <2>1, <2>2 DEF ReportCapabilities, TypeOK
  <1>8. ASSUME MarkRolloutDeviceRunning PROVE IInv'
    <2>1. NoPending(row) /\ row' = MarkRunning(row)
      BY <1>8 DEF MarkRolloutDeviceRunning, CanMarkRunning, Unfenced
    <2>2. row' \in Row /\ RowInv(row)' BY <1>0, <2>1, RunningInv
    <2> QED BY <1>0, <1>8, <2>2 DEF MarkRolloutDeviceRunning, TypeOK
  <1>9. ASSUME EndSshRollout PROVE IInv'
    <2> PICK status \in SshStatuses : row' = EndRunning(row, status)
      BY <1>9 DEF EndSshRollout
    <2>1. row' \in Row /\ RowInv(row)' BY <1>0, EndRunningType, RunningInv
    <2> QED BY <1>9, <2>1 DEF EndSshRollout, TypeOK
  <1>10. ASSUME UpdateDeviceRole PROVE IInv'
    <2> PICK role \in Roles : row' = [row EXCEPT !.role = role]
      BY <1>10 DEF UpdateDeviceRole
    <2>1. row' \in Row BY <1>0 DEF Row
    <2>2. RowInv(row)' BY <1>0 DEF Row, RowInv, NoPending
    <2> QED BY <1>0, <1>10, <2>1, <2>2 DEF UpdateDeviceRole, TypeOK
  <1>11. ASSUME SiteRolloutsChange PROVE IInv'
    BY <1>0, <1>11 DEF SiteRolloutsChange, TypeOK, RowInv, NoPending
  <1>12. ASSUME UNCHANGED vars PROVE IInv'
    BY <1>0, <1>12 DEF vars, TypeOK, RowInv, NoPending
  <1> QED BY <1>1, <1>2, <1>3, <1>4, <1>5, <1>6, <1>7, <1>8, <1>9, <1>10, <1>11, <1>12
          DEF Next

\* The inductive invariant holds in every reachable state.
LEMMA Invariance == Spec => []IInv
  BY InitInv, NextInv, PTL DEF Spec

\* The type invariant, for every number of operations, change sets, rollouts.
THEOREM TypeCorrect == Spec => []TypeOK
  <1>1. IInv => TypeOK BY DEF IInv
  <1> QED BY <1>1, Invariance, PTL

\* The four safety invariants of the queue of a device.
THEOREM QueueSafety ==
    Spec => []QueueCoherent
  <1>1. IInv => QueueCoherent
    BY DEF IInv, RowInv, QueueCoherent, OneTransport, PendingIsDesired, ObservedNotAhead,
           LastSpeaksOfPending
  <1> QED BY <1>1, Invariance, PTL

-----------------------------------------------------------------------------
(* What a step may never do *)

\* Work is queued for a row without work and without a state that needs recovery.
QueueStep ==
    /\ NoPending(row) /\ ~NeedsRecovery(row)
    /\ \/ row'.lastOp = row.lastOp
       \/ row'.lastOp = NoStatus /\ row'.pendingOp # NoWork
    /\ row'.lastCs = row.lastCs
    /\ row'.desired >= row.desired /\ row'.observed = row.observed

OpStep == \E st \in Status(OpIds, OpStates) : OpStatusApplies(row, st) /\ row' = RecordOp(row, st)

CsStep == \E st \in Status(CsIds, CsStates) : CsStatusApplies(row, st) /\ row' = RecordCs(row, st)

\* Roles, capabilities and SSH rollouts leave work and reports alone.
OtherStep ==
    /\ row'.pendingOp = row.pendingOp /\ row'.pendingCs = row.pendingCs
    /\ row'.lastOp = row.lastOp /\ row'.lastCs = row.lastCs
    /\ row'.desired = row.desired /\ row'.observed = row.observed
    /\ row'.rolloutStatus = "RUNNING" => row.rolloutStatus = "RUNNING" \/ ~NeedsRecovery(row)

\* An operation is queued.
LEMMA QueueOpStep ==
    ASSUME NEW r \in Row, NEW a, NEW plan \in [id : OpIds, hash : Hashes, gen : Nat],
           CanQueueOp(r, plan, a)
    PROVE  LET q == QueueOp(r, plan)
           IN  /\ NoPending(r) /\ ~NeedsRecovery(r)
               /\ q.lastOp = NoStatus /\ q.pendingOp # NoWork /\ q.lastCs = r.lastCs
               /\ q.desired >= r.desired /\ q.observed = r.observed
  <1> DEFINE q == QueueOp(r, plan)
  <1>1. ReservedGen(r, plan) >= r.desired BY ReservedGrows DEF CanQueueOp
  <1>2. /\ q.lastOp = NoStatus /\ q.pendingOp = Reserved(r, plan) /\ q.lastCs = r.lastCs
        /\ q.desired = ReservedGen(r, plan) /\ q.observed = r.observed
    BY DEF QueueOp, Row
  <1>3. plan.id \in OpIds /\ Reserved(r, plan).id = plan.id BY ReservedType
  <1>4. q.pendingOp # NoWork BY <1>2, <1>3, NotNull
  <1> QED BY <1>1, <1>2, <1>4 DEF CanQueueOp, Unfenced

\* A change set is queued.
LEMMA QueueCsStep ==
    ASSUME NEW r \in Row, NEW a, NEW cs \in [id : CsIds, hash : Hashes, gen : Nat],
           CanQueueCs(r, cs, a)
    PROVE  LET q == QueueCs(r, cs)
           IN  /\ NoPending(r) /\ ~NeedsRecovery(r)
               /\ q.lastOp = r.lastOp /\ q.lastCs = r.lastCs
               /\ q.desired >= r.desired /\ q.observed = r.observed
  <1> DEFINE q == QueueCs(r, cs)
  <1>1. ReservedGen(r, cs) >= r.desired BY ReservedGrows DEF CanQueueCs
  <1>2. /\ q.lastOp = r.lastOp /\ q.lastCs = r.lastCs
        /\ q.desired = ReservedGen(r, cs) /\ q.observed = r.observed
    BY DEF QueueCs, Row
  <1> QED BY <1>1, <1>2 DEF CanQueueCs, Unfenced

\* Ending an SSH rollout changes the rollout status alone.
LEMMA EndRunningStep ==
    ASSUME NEW r \in Row, NEW status \in SshStatuses
    PROVE  LET q == EndRunning(r, status)
           IN  /\ q.pendingOp = r.pendingOp /\ q.pendingCs = r.pendingCs
               /\ q.lastOp = r.lastOp /\ q.lastCs = r.lastCs
               /\ q.desired = r.desired /\ q.observed = r.observed
               /\ q.rolloutStatus = "RUNNING" => r.rolloutStatus = "RUNNING"
  BY DEF EndRunning, Row

\* Every step of the specification is of one of the four shapes.
LEMMA StepShape ==
    ASSUME IInv, [Next]_vars
    PROVE  QueueStep \/ OpStep \/ CsStep \/ OtherStep
  <1>0. row \in Row BY DEF IInv, TypeOK
  <1>g. Gens \subseteq Nat BY DEF Gens
  <1>1. ASSUME NEW plan \in OpPlans, QueueDeviceOperation(plan) PROVE QueueStep
    <2>1. plan \in [id : OpIds, hash : Hashes, gen : Nat] BY <1>g DEF OpPlans
    <2>2. row' = QueueOp(row, plan) /\ CanQueueOp(row, plan, fresh # {})
      BY <1>1 DEF QueueDeviceOperation
    <2> QED BY <1>0, <2>1, <2>2, QueueOpStep DEF QueueStep
  <1>2. ASSUME NEW cs \in ChangeSets, QueueDeviceChangeSet(cs) PROVE QueueStep
    <2>1. cs \in [id : CsIds, hash : Hashes, gen : Nat] BY <1>g DEF ChangeSets
    <2>2. row' = QueueCs(row, cs) /\ CanQueueCs(row, cs, fresh # {})
      BY <1>2 DEF QueueDeviceChangeSet
    <2> QED BY <1>0, <2>1, <2>2, QueueCsStep DEF QueueStep
  <1>3. ASSUME NEW cs \in ChangeSets, NEW owner \in Rollouts, NEW role \in Roles,
               QueueDeviceChangeSetForRollout(cs, owner, role)
        PROVE  QueueStep
    <2>1. cs \in [id : CsIds, hash : Hashes, gen : Nat] BY <1>g DEF ChangeSets
    <2>2. row' = QueueCs(row, cs) /\ CanQueueCs(row, cs, fresh \ {owner} # {})
      BY <1>3 DEF QueueDeviceChangeSetForRollout
    <2> QED BY <1>0, <2>1, <2>2, QueueCsStep DEF QueueStep
  <1>4. ASSUME NEW cs \in ChangeSets, NEW role \in Roles,
               ClaimAndQueueDeviceChangeSet(cs, role)
        PROVE  QueueStep
    <2>1. cs \in [id : CsIds, hash : Hashes, gen : Nat] BY <1>g DEF ChangeSets
    <2> DEFINE claimed == IF running # {} THEN EndRunning(row, "FAILED") ELSE row
    <2>2. "FAILED" \in SshStatuses BY DEF SshStatuses
    <2>3. claimed \in Row BY <1>0, <2>2, EndRunningType
    <2>4. /\ claimed.pendingOp = row.pendingOp /\ claimed.pendingCs = row.pendingCs
          /\ claimed.lastOp = row.lastOp /\ claimed.lastCs = row.lastCs
          /\ claimed.desired = row.desired /\ claimed.observed = row.observed
      BY <1>0, <2>2, EndRunningStep
    <2>5. row' = QueueCs(claimed, cs) /\ CanQueueCs(claimed, cs, FALSE)
      BY <1>4 DEF ClaimAndQueueDeviceChangeSet
    <2> HIDE DEF claimed
    <2>6. /\ NoPending(claimed) /\ ~NeedsRecovery(claimed)
          /\ row'.lastOp = claimed.lastOp /\ row'.lastCs = claimed.lastCs
          /\ row'.desired >= claimed.desired /\ row'.observed = claimed.observed
      BY <2>1, <2>3, <2>5, QueueCsStep
    <2> QED BY <2>4, <2>6 DEF QueueStep, NoPending, NeedsRecovery
  <1>5. ASSUME NEW st \in OpReports, RecordDeviceOperationStatus(st) PROVE OpStep
    <2>1. st \in Status(OpIds, OpStates) BY <1>g DEF OpReports, Status
    <2> QED BY <1>5, <2>1 DEF RecordDeviceOperationStatus, OpStep
  <1>6. ASSUME NEW st \in CsReports, RecordDeviceChangeSetStatus(st) PROVE CsStep
    <2>1. st \in Status(CsIds, CsStates) BY <1>g DEF CsReports, Status
    <2> QED BY <1>6, <2>1 DEF RecordDeviceChangeSetStatus, CsStep
  <1>7. ASSUME ReportCapabilities PROVE OtherStep
    BY <1>0, <1>7 DEF ReportCapabilities, Row, OtherStep
  <1>8. ASSUME MarkRolloutDeviceRunning PROVE OtherStep
    <2>1. row' = MarkRunning(row) /\ ~NeedsRecovery(row)
      BY <1>8 DEF MarkRolloutDeviceRunning, CanMarkRunning, Unfenced
    <2> QED BY <1>0, <2>1 DEF MarkRunning, Row, OtherStep
  <1>9. ASSUME EndSshRollout PROVE OtherStep
    BY <1>0, <1>9, EndRunningStep DEF EndSshRollout, OtherStep
  <1>10. ASSUME UpdateDeviceRole PROVE OtherStep
    BY <1>0, <1>10 DEF UpdateDeviceRole, Row, OtherStep
  <1>11. ASSUME SiteRolloutsChange \/ UNCHANGED vars PROVE OtherStep
    BY <1>11 DEF SiteRolloutsChange, vars, OtherStep
  <1> QED BY <1>1, <1>2, <1>3, <1>4, <1>5, <1>6, <1>7, <1>8, <1>9, <1>10, <1>11 DEF Next

\* What a report about operations does to the row.
LEMMA OpStepEffect ==
    ASSUME NEW r \in Row, NEW st \in Status(OpIds, OpStates)
    PROVE  LET q == RecordOp(r, st)
           IN  /\ q.lastOp = st /\ q.lastCs = r.lastCs /\ q.pendingCs = r.pendingCs
               /\ q.desired = r.desired /\ q.observed = ReportedGen(r.observed, st)
               /\ \/ q.pendingOp = r.pendingOp
                  \/ /\ q.pendingOp = NoWork
                     /\ st.state \in OpTerminal /\ OpPendingMatches(r, st)
               /\ q.rolloutStatus = "RUNNING" => r.rolloutStatus = "RUNNING"
  <1> DEFINE q == RecordOp(r, st)
  <1>1. /\ q.lastOp = st /\ q.lastCs = r.lastCs /\ q.pendingCs = r.pendingCs
        /\ q.desired = r.desired /\ q.observed = ReportedGen(r.observed, st)
        /\ q.rolloutStatus = ReportedRolloutStatus(r, st)
        /\ q.pendingOp = IF st.state \in OpTerminal /\ OpPendingMatches(r, st)
                         THEN NoWork ELSE r.pendingOp
    BY DEF RecordOp, Row
  <1>2. q.rolloutStatus = "RUNNING" => r.rolloutStatus = "RUNNING"
    BY <1>1 DEF ReportedRolloutStatus, Status, OpStates
  <1> QED BY <1>1, <1>2

\* What a report about change sets does to the row.
LEMMA CsStepEffect ==
    ASSUME NEW r \in Row, NEW st \in Status(CsIds, CsStates)
    PROVE  LET q == RecordCs(r, st)
           IN  /\ q.lastCs = st /\ q.lastOp = r.lastOp /\ q.pendingOp = r.pendingOp
               /\ q.desired = r.desired /\ q.observed = ReportedGen(r.observed, st)
               /\ \/ q.pendingCs = r.pendingCs
                  \/ /\ q.pendingCs = NoWork
                     /\ st.state \in CsTerminal /\ CsPendingMatches(r, st)
               /\ q.rolloutStatus = "RUNNING" => r.rolloutStatus = "RUNNING"
  <1> DEFINE q == RecordCs(r, st)
  <1>1. /\ q.lastCs = st /\ q.lastOp = r.lastOp /\ q.pendingOp = r.pendingOp
        /\ q.desired = r.desired /\ q.observed = ReportedGen(r.observed, st)
        /\ q.rolloutStatus = ReportedRolloutStatus(r, st)
        /\ q.pendingCs = IF st.state \in CsTerminal /\ CsPendingMatches(r, st)
                         THEN NoWork ELSE r.pendingCs
    BY DEF RecordCs, Row
  <1>2. q.rolloutStatus = "RUNNING" => r.rolloutStatus = "RUNNING"
    BY <1>1 DEF ReportedRolloutStatus, Status, CsStates, OpStates
  <1> QED BY <1>1, <1>2

\* Queued work leaves the queue only by a final report about itself, same id, same
\* plan, same generation if the report names one (device_operations.go:255-291,
\* device_change_sets.go:433-510), whatever else is reported or queued.
THEOREM ClearedOnlyByOwnReport == Spec => ClearedByOwnReport
  <1> DEFINE A == /\ (row.pendingOp # NoWork /\ row'.pendingOp # row.pendingOp)
                       => /\ row'.pendingOp = NoWork
                          /\ row'.lastOp.state \in OpTerminal
                          /\ row'.lastOp.id = row.pendingOp.id
                          /\ row'.lastOp.hash = row.pendingOp.hash
                          /\ row'.lastOp.gen \in {0, row.pendingOp.gen}
                  /\ (row.pendingCs # NoWork /\ row'.pendingCs # row.pendingCs)
                       => /\ row'.pendingCs = NoWork
                          /\ row'.lastCs.state \in CsTerminal
                          /\ row'.lastCs.id = row.pendingCs.id
                          /\ row'.lastCs.hash = row.pendingCs.hash
                          /\ row'.lastCs.gen = row.pendingCs.gen
  <1>1. IInv /\ [Next]_vars => A
    <2> SUFFICES ASSUME IInv, [Next]_vars PROVE A
      OBVIOUS
    <2>0. row \in Row BY DEF IInv, TypeOK
    <2>1. CASE QueueStep BY <2>1 DEF QueueStep, NoPending
    <2>2. CASE OpStep
      <3> PICK st \in Status(OpIds, OpStates) : row' = RecordOp(row, st)
        BY <2>2 DEF OpStep
      <3>1. /\ row'.lastOp = st /\ row'.pendingCs = row.pendingCs
            /\ \/ row'.pendingOp = row.pendingOp
               \/ /\ row'.pendingOp = NoWork
                  /\ st.state \in OpTerminal /\ OpPendingMatches(row, st)
        BY <2>0, OpStepEffect
      <3>2. ASSUME row.pendingOp # NoWork, OpPendingMatches(row, st)
            PROVE  /\ st.id = row.pendingOp.id /\ st.hash = row.pendingOp.hash
                   /\ st.gen \in {0, row.pendingOp.gen}
        <4>1. row.pendingOp.gen # 0
          <5>1. row.pendingOp.gen \in Nat /\ row.pendingOp.gen > 0
            BY <2>0, <3>2, RowGens DEF IInv, RowInv
          <5> QED BY <5>1
        <4> QED BY <3>2, <4>1 DEF OpPendingMatches, OpContentMatches
      <3> QED BY <3>1, <3>2
    <2>3. CASE CsStep
      <3> PICK st \in Status(CsIds, CsStates) : row' = RecordCs(row, st)
        BY <2>3 DEF CsStep
      <3>1. /\ row'.lastCs = st /\ row'.pendingOp = row.pendingOp
            /\ \/ row'.pendingCs = row.pendingCs
               \/ /\ row'.pendingCs = NoWork
                  /\ st.state \in CsTerminal /\ CsPendingMatches(row, st)
        BY <2>0, CsStepEffect
      <3> QED BY <3>1 DEF CsPendingMatches, CsContentMatches
    <2>4. CASE OtherStep BY <2>4 DEF OtherStep
    <2> QED BY <2>1, <2>2, <2>3, <2>4, StepShape
  <1>2. [][A]_vars => ClearedByOwnReport BY DEF ClearedByOwnReport
  <1> HIDE DEF A
  <1> QED BY <1>1, <1>2, Invariance, PTL DEF Spec

\* A recorded outcome is replaced by new work only, never by a late report of an
\* earlier phase or of another outcome (device_operations.go:259-263,
\* device_change_sets.go:453-457).
THEOREM OutcomesAreFinal == Spec => OutcomeIsFinal
  <1> DEFINE A == /\ (row.pendingOp = NoWork /\ row.lastOp.state \in OpTerminal)
                       => \/ row'.lastOp.state = row.lastOp.state /\ row'.lastOp.id = row.lastOp.id
                          \/ row'.lastOp = NoStatus /\ row'.pendingOp # NoWork
                  /\ (row.pendingCs = NoWork /\ row.lastCs.state \in CsTerminal)
                       => row'.lastCs.state = row.lastCs.state /\ row'.lastCs.id = row.lastCs.id
  <1>1. IInv /\ [Next]_vars => A
    <2> SUFFICES ASSUME IInv, [Next]_vars PROVE A
      OBVIOUS
    <2>0. row \in Row BY DEF IInv, TypeOK
    <2>1. CASE QueueStep BY <2>1 DEF QueueStep
    <2>2. CASE OpStep
      <3> PICK st \in Status(OpIds, OpStates) : OpStatusApplies(row, st) /\ row' = RecordOp(row, st)
        BY <2>2 DEF OpStep
      <3>1. row'.lastOp = st /\ row'.lastCs = row.lastCs BY <2>0, OpStepEffect
      <3>2. st.id \in OpIds BY DEF Status
      <3>3. row.pendingOp = NoWork => OpLastMatches(row, st)
        BY <3>2, NotNull DEF OpStatusApplies, OpPendingMatches, OpContentMatches
      <3> QED BY <3>1, <3>3 DEF OpLastMatches, OpContentMatches
    <2>3. CASE CsStep
      <3> PICK st \in Status(CsIds, CsStates) : CsStatusApplies(row, st) /\ row' = RecordCs(row, st)
        BY <2>3 DEF CsStep
      <3>1. row'.lastCs = st /\ row'.lastOp = row.lastOp BY <2>0, CsStepEffect
      <3>2. st.id \in CsIds BY DEF Status
      <3>3. row.pendingCs = NoWork => CsLastMatches(row, st)
        BY <3>2, NotNull DEF CsStatusApplies, CsPendingMatches, CsContentMatches
      <3> QED BY <3>1, <3>3 DEF CsLastMatches, CsContentMatches
    <2>4. CASE OtherStep BY <2>4 DEF OtherStep
    <2> QED BY <2>1, <2>2, <2>3, <2>4, StepShape
  <1>2. [][A]_vars => OutcomeIsFinal BY DEF OutcomeIsFinal
  <1> HIDE DEF A
  <1> QED BY <1>1, <1>2, Invariance, PTL DEF Spec

\* A device whose change set requires recovery gets no more work, and no report
\* makes the controller forget it (device_change_sets.go:303-304, 451-457).
THEOREM RecoveryIsFenced == Spec => RecoveryFence
  <1> DEFINE A == row.lastCs.state = "RECOVERY_REQUIRED"
                    => /\ row'.lastCs.state = "RECOVERY_REQUIRED"
                       /\ NoPending(row')
                       /\ row'.rolloutStatus = "RUNNING" => row.rolloutStatus = "RUNNING"
  <1>1. IInv /\ [Next]_vars => A
    <2> SUFFICES ASSUME IInv, [Next]_vars, row.lastCs.state = "RECOVERY_REQUIRED"
                 PROVE  /\ row'.lastCs.state = "RECOVERY_REQUIRED"
                        /\ NoPending(row')
                        /\ row'.rolloutStatus = "RUNNING" => row.rolloutStatus = "RUNNING"
      OBVIOUS
    <2>0. row \in Row /\ NoPending(row) /\ NeedsRecovery(row)
      BY DEF IInv, TypeOK, RowInv, NeedsRecovery
    <2>1. CASE QueueStep BY <2>0, <2>1 DEF QueueStep
    <2>2. CASE OpStep
      <3> PICK st \in Status(OpIds, OpStates) : row' = RecordOp(row, st)
        BY <2>2 DEF OpStep
      <3>1. /\ row'.lastCs = row.lastCs /\ row'.pendingCs = row.pendingCs
            /\ row'.pendingOp = row.pendingOp \/ row'.pendingOp = NoWork
            /\ row'.rolloutStatus = "RUNNING" => row.rolloutStatus = "RUNNING"
        BY <2>0, OpStepEffect
      <3> QED BY <2>0, <3>1 DEF NoPending
    <2>3. CASE CsStep
      <3> PICK st \in Status(CsIds, CsStates) : CsStatusApplies(row, st) /\ row' = RecordCs(row, st)
        BY <2>3 DEF CsStep
      <3>1. /\ row'.lastCs = st /\ row'.pendingOp = row.pendingOp
            /\ row'.pendingCs = row.pendingCs \/ row'.pendingCs = NoWork
            /\ row'.rolloutStatus = "RUNNING" => row.rolloutStatus = "RUNNING"
        BY <2>0, CsStepEffect
      <3>2. st.id \in CsIds BY DEF Status
      <3>3. CsLastMatches(row, st)
        BY <2>0, <3>2, NotNull DEF NoPending, CsStatusApplies, CsPendingMatches, CsContentMatches
      <3>4. st.state = "RECOVERY_REQUIRED" BY <3>3 DEF CsLastMatches, CsTerminal
      <3> QED BY <2>0, <3>1, <3>4 DEF NoPending
    <2>4. CASE OtherStep BY <2>0, <2>4 DEF OtherStep, NoPending
    <2> QED BY <2>1, <2>2, <2>3, <2>4, StepShape
  <1>2. [][A]_vars => RecoveryFence BY DEF RecoveryFence
  <1> HIDE DEF A
  <1> QED BY <1>1, <1>2, Invariance, PTL DEF Spec

\* Generations never go back, and the observed one moves only to the generation of a
\* COMMITTED report (device_operations.go:278-287).
THEOREM GenerationsOnlyGrow == Spec => GenerationsGrow
  <1> DEFINE A == /\ row'.desired >= row.desired
                  /\ row'.observed >= row.observed
                  /\ row'.observed # row.observed
                       => \/ row'.lastOp.state = "COMMITTED" /\ row'.observed = row'.lastOp.gen
                          \/ row'.lastCs.state = "COMMITTED" /\ row'.observed = row'.lastCs.gen
  <1>1. IInv /\ [Next]_vars => A
    <2> SUFFICES ASSUME IInv, [Next]_vars PROVE A
      OBVIOUS
    <2>0. row \in Row /\ row.desired \in Nat /\ row.observed \in Nat
      BY RowGens DEF IInv, TypeOK
    <2>a. ASSUME NEW st, st.gen \in Nat
          PROVE  /\ ReportedGen(row.observed, st) >= row.observed
                 /\ ReportedGen(row.observed, st) # row.observed
                      => st.state = "COMMITTED" /\ ReportedGen(row.observed, st) = st.gen
      BY <2>0, <2>a DEF ReportedGen, Greatest
    <2>1. CASE QueueStep BY <2>0, <2>1 DEF QueueStep
    <2>2. CASE OpStep
      <3> PICK st \in Status(OpIds, OpStates) : row' = RecordOp(row, st)
        BY <2>2 DEF OpStep
      <3>1. st.gen \in Nat BY DEF Status
      <3>2. /\ row'.lastOp = st /\ row'.desired = row.desired
            /\ row'.observed = ReportedGen(row.observed, st)
        BY <2>0, OpStepEffect
      <3>3. row.desired >= row.desired BY <2>0
      <3> QED BY <2>a, <3>1, <3>2, <3>3
    <2>3. CASE CsStep
      <3> PICK st \in Status(CsIds, CsStates) : row' = RecordCs(row, st)
        BY <2>3 DEF CsStep
      <3>1. st.gen \in Nat BY DEF Status
      <3>2. /\ row'.lastCs = st /\ row'.desired = row.desired
            /\ row'.observed = ReportedGen(row.observed, st)
        BY <2>0, CsStepEffect
      <3>3. row.desired >= row.desired BY <2>0
      <3> QED BY <2>a, <3>1, <3>2, <3>3
    <2>4. CASE OtherStep BY <2>0, <2>4 DEF OtherStep
    <2> QED BY <2>1, <2>2, <2>3, <2>4, StepShape
  <1>2. [][A]_vars => GenerationsGrow BY DEF GenerationsGrow
  <1> HIDE DEF A
  <1> QED BY <1>1, <1>2, Invariance, PTL DEF Spec
=============================================================================
