-------------------------- MODULE RolloutRefinement --------------------------
(***************************************************************************)
(* Every device of a site is a DeviceQueue: each step of Rollout is, for   *)
(* each device, a step of DeviceQueue or no step.  So what                 *)
(* DeviceQueueProofs shows of one row holds of every row of the site,      *)
(* whatever requests, workers and agents do.                               *)
(***************************************************************************)
EXTENDS RolloutProofs

\* The statements and guards of DeviceRow, seen through the instance.
LEMMA SameStatements ==
    ASSUME NEW d, NEW q, NEW w, NEW x
    PROVE  /\ Queue(d)!QueueOp(q, w) = QueueOp(q, w) /\ Queue(d)!QueueCs(q, w) = QueueCs(q, w)
           /\ Queue(d)!CanQueueOp(q, w, x) <=> CanQueueOp(q, w, x)
           /\ Queue(d)!CanQueueCs(q, w, x) <=> CanQueueCs(q, w, x)
           /\ Queue(d)!ReservedGen(q, w) = ReservedGen(q, w)
           /\ Queue(d)!RecordOp(q, w) = RecordOp(q, w) /\ Queue(d)!RecordCs(q, w) = RecordCs(q, w)
           /\ Queue(d)!OpStatusApplies(q, w) <=> OpStatusApplies(q, w)
           /\ Queue(d)!CsStatusApplies(q, w) <=> CsStatusApplies(q, w)
           /\ Queue(d)!CanMarkRunning(q, x) <=> CanMarkRunning(q, x)
           /\ Queue(d)!MarkRunning(q) = MarkRunning(q)
           /\ Queue(d)!EndRunning(q, x) = EndRunning(q, x)
           /\ Queue(d)!InitRow(w, x) = InitRow(w, x)
           /\ Queue(d)!SshStatuses = SshStatuses /\ Queue(d)!OpStates = OpStates
           /\ Queue(d)!CsStates = CsStates
           /\ Queue(d)!Unfenced(q) <=> Unfenced(q)
  <1>1. /\ Queue(d)!NoWork = NoWork /\ Queue(d)!NoStatus = NoStatus
        /\ Queue(d)!OpTerminal = OpTerminal /\ Queue(d)!CsTerminal = CsTerminal
        /\ Queue(d)!SshStatuses = SshStatuses /\ Queue(d)!OpStates = OpStates
        /\ Queue(d)!CsStates = CsStates /\ Queue(d)!CsFrom = CsFrom
    BY DEF Queue!NoWork, NoWork, Queue!NoStatus, NoStatus, Queue!OpTerminal, OpTerminal,
           Queue!CsTerminal, CsTerminal, Queue!SshStatuses, SshStatuses, Queue!OpStates, OpStates,
           Queue!CsStates, CsStates, Queue!CsFrom, CsFrom
  <1>2. /\ Queue(d)!ReservedGen(q, w) = ReservedGen(q, w)
        /\ Queue(d)!Reserved(q, w) = Reserved(q, w)
        /\ \A c : Queue(d)!ReportedGen(c, w) = ReportedGen(c, w)
        /\ Queue(d)!ReportedRolloutStatus(q, w) = ReportedRolloutStatus(q, w)
    BY DEF Queue!ReservedGen, ReservedGen, Queue!Reserved, Reserved, Queue!ReportedGen,
           ReportedGen, Queue!Greatest, Greatest,
           Queue!ReportedRolloutStatus, ReportedRolloutStatus
  <1>3. /\ Queue(d)!NoPending(q) <=> NoPending(q)
        /\ Queue(d)!NeedsRecovery(q) <=> NeedsRecovery(q)
    BY <1>1 DEF Queue!NoPending, NoPending, Queue!NeedsRecovery, NeedsRecovery
  <1>4. Queue(d)!Unfenced(q) <=> Unfenced(q) BY <1>3 DEF Queue!Unfenced, Unfenced
  <1>5. /\ Queue(d)!QueueOp(q, w) = QueueOp(q, w) /\ Queue(d)!QueueCs(q, w) = QueueCs(q, w)
    BY <1>1, <1>2 DEF Queue!QueueOp, QueueOp, Queue!QueueCs, QueueCs
  <1>6. /\ Queue(d)!CanQueueOp(q, w, x) <=> CanQueueOp(q, w, x)
        /\ Queue(d)!CanQueueCs(q, w, x) <=> CanQueueCs(q, w, x)
        /\ Queue(d)!CanMarkRunning(q, x) <=> CanMarkRunning(q, x)
    BY <1>4 DEF Queue!CanQueueOp, CanQueueOp, Queue!CanQueueCs, CanQueueCs,
                Queue!CanMarkRunning, CanMarkRunning
  <1>7. /\ Queue(d)!OpPendingMatches(q, w) <=> OpPendingMatches(q, w)
        /\ Queue(d)!OpLastMatches(q, w) <=> OpLastMatches(q, w)
    BY <1>1 DEF Queue!OpPendingMatches, OpPendingMatches, Queue!OpLastMatches, OpLastMatches,
                Queue!OpContentMatches, OpContentMatches
  <1>8. /\ Queue(d)!CsPendingMatches(q, w) <=> CsPendingMatches(q, w)
        /\ Queue(d)!CsLastMatches(q, w) <=> CsLastMatches(q, w)
    BY <1>1, <1>3 DEF Queue!CsPendingMatches, CsPendingMatches, Queue!CsLastMatches, CsLastMatches,
                Queue!CsContentMatches, CsContentMatches, Queue!CsTransition, CsTransition
  <1>9. /\ Queue(d)!OpStatusApplies(q, w) <=> OpStatusApplies(q, w)
        /\ Queue(d)!CsStatusApplies(q, w) <=> CsStatusApplies(q, w)
    BY <1>7, <1>8 DEF Queue!OpStatusApplies, OpStatusApplies, Queue!CsStatusApplies, CsStatusApplies
  <1>10. Queue(d)!RecordOp(q, w) = RecordOp(q, w)
    BY Zenon DEF Queue!RecordOp, RecordOp, Queue!OpTerminal, OpTerminal, Queue!NoWork, NoWork,
           Queue!OpPendingMatches, OpPendingMatches, Queue!OpContentMatches, OpContentMatches,
           Queue!ReportedRolloutStatus, ReportedRolloutStatus,
           Queue!ReportedGen, ReportedGen, Queue!Greatest, Greatest
  <1>11. Queue(d)!RecordCs(q, w) = RecordCs(q, w)
    BY Zenon DEF Queue!RecordCs, RecordCs, Queue!CsTerminal, CsTerminal, Queue!NoWork, NoWork,
           Queue!CsPendingMatches, CsPendingMatches, Queue!CsContentMatches, CsContentMatches,
           Queue!CsTransition, CsTransition, Queue!CsFrom, CsFrom,
           Queue!ReportedRolloutStatus, ReportedRolloutStatus,
           Queue!ReportedGen, ReportedGen, Queue!Greatest, Greatest
  <1>12. /\ Queue(d)!MarkRunning(q) = MarkRunning(q)
         /\ Queue(d)!EndRunning(q, x) = EndRunning(q, x)
         /\ Queue(d)!InitRow(w, x) = InitRow(w, x)
    BY <1>1 DEF Queue!MarkRunning, MarkRunning, Queue!EndRunning, EndRunning, Queue!InitRow, InitRow
  <1> QED BY <1>1, <1>2, <1>4, <1>5, <1>6, <1>9, <1>10, <1>11, <1>12

\* The work a plan stands for before a generation is reserved.
PlanOf(id) == [id |-> id, hash |-> CHOOSE h \in Hashes : TRUE, gen |-> 0]

\* What the bound on generations means for a row ...
RowGenOK(q) ==
    /\ q.desired <= MaxGen
    /\ q.pendingOp # NoWork => q.pendingOp.gen \in 1 .. MaxGen
    /\ q.pendingCs # NoWork => q.pendingCs.gen \in 1 .. MaxGen

\* ... and for reports: an agent reports what it was handed.
GenInv == \A d \in Devices : /\ RowGenOK(rows[d])
                            /\ \A st \in sent[d] : st.gen \in 1 .. MaxGen /\ st.hash \in Hashes

\* A plan of the site is one of the plans that DeviceQueue enumerates.
LEMMA PlanOfType ==
    ASSUME NEW d, NEW q, q.desired \in Nat, q.desired < MaxGen
    PROVE  /\ \A id \in OpIds : PlanOf(id) \in Queue(d)!OpPlans
           /\ \A id \in CsIds : PlanOf(id) \in Queue(d)!ChangeSets /\ PlanOf(id) = ChangeSet(id)
           /\ \A id : ReservedGen(q, PlanOf(id)) <= MaxGen /\ PlanOf(id).gen = 0
  <1> DEFINE h == CHOOSE x \in Hashes : TRUE
  <1>1. h \in Hashes /\ MaxGen \in Nat BY Site
  <1>2. \A id : PlanOf(id) = [id |-> id, hash |-> h, gen |-> 0] BY DEF PlanOf
  <1>3. \A id : PlanOf(id) = ChangeSet(id) BY DEF PlanOf, ChangeSet
  <1> HIDE DEF h
  <1>4. \A id : ReservedGen(q, PlanOf(id)) <= MaxGen /\ PlanOf(id).gen = 0
    BY <1>1, <1>2 DEF ReservedGen
  <1>5. 0 \in Queue(d)!Gens BY <1>1 DEF Queue!Gens
  <1> QED BY <1>1, <1>2, <1>3, <1>4, <1>5 DEF Queue!OpPlans, Queue!ChangeSets

\* Rollouts come and go.
LEMMA MoveSite ==
    ASSUME TypeOK', NEW d \in Devices, rows'[d] = rows[d]
    PROVE  Queue(d)!Next
  <1>1. RunIds' \subseteq 1 .. MaxRuns
    <2>1. RunIds' = 1 .. Len(runs') /\ Len(runs') \in Nat /\ Len(runs') <= MaxRuns
      BY LenProperties DEF TypeOK, RunIds
    <2> QED BY <2>1, Site
  <1>2. Queue(d)!SiteRolloutsChange BY <1>1 DEF Queue!SiteRolloutsChange, Active
  <1> QED BY <1>2 DEF Queue!Next

\* QueueDeviceOperation.
LEMMA MoveOp ==
    ASSUME TypeOK, NEW d \in Devices, NEW id \in OpIds, UNCHANGED runs,
           CanQueueOp(rows[d], PlanOf(id), \E s \in RunIds : Active(s)),
           rows[d].desired < MaxGen, rows'[d] = QueueOp(rows[d], PlanOf(id))
    PROVE  Queue(d)!Next
  <1>1. rows[d].desired \in Nat BY DEF TypeOK, Row
  <1>2. PlanOf(id) \in Queue(d)!OpPlans /\ ReservedGen(rows[d], PlanOf(id)) <= MaxGen
    BY <1>1, PlanOfType
  <1>3. CanQueueOp(rows[d], PlanOf(id), {r \in RunIds : Active(r)} # {}) BY DEF CanQueueOp
  <1>4. UNCHANGED <<{r \in RunIds : runs[r].status = "RUNNING"}, {r \in RunIds : Active(r)}>>
    BY DEF RunIds, Active
  <1>5. Queue(d)!QueueDeviceOperation(PlanOf(id))
    BY <1>2, <1>3, <1>4, SameStatements DEF Queue!QueueDeviceOperation
  <1> QED BY <1>2, <1>5 DEF Queue!Next

\* QueueDeviceChangeSetForRollout.
LEMMA MoveCs ==
    ASSUME TypeOK, NEW d \in Devices, NEW r \in RunIds, UNCHANGED runs,
           runs[r].status = "RUNNING", CanQueueCs(rows[d], ChangeSet(r), OtherActive(r)),
           rows[d].desired < MaxGen, rows'[d] = QueueCs(rows[d], ChangeSet(r))
    PROVE  Queue(d)!Next
  <1>1. rows[d].desired \in Nat /\ rows[d].role \in Roles BY DEF TypeOK, Row
  <1>2. r \in CsIds /\ r \in 1 .. MaxRuns BY RunsMap, Site
  <1>3. /\ ChangeSet(r) \in Queue(d)!ChangeSets /\ ReservedGen(rows[d], ChangeSet(r)) <= MaxGen
    BY <1>1, <1>2, PlanOfType
  <1>4. CanQueueCs(rows[d], ChangeSet(r), {s \in RunIds : Active(s)} \ {r} # {})
    BY DEF CanQueueCs, OtherActive
  <1>5. UNCHANGED <<{s \in RunIds : runs[s].status = "RUNNING"}, {s \in RunIds : Active(s)}>>
    BY DEF RunIds, Active
  <1>6. Queue(d)!QueueDeviceChangeSetForRollout(ChangeSet(r), r, rows[d].role)
    BY <1>3, <1>4, <1>5, SameStatements DEF Queue!QueueDeviceChangeSetForRollout
  <1> QED BY <1>1, <1>2, <1>3, <1>6 DEF Queue!Next

\* The claim of a rollout and its first change set.
LEMMA MoveClaim ==
    ASSUME TypeOK, NEW d \in Devices, NEW r \in RunIds, Claimable(r), RunIds' = RunIds,
           \A s \in RunIds : runs'[s].status # "RUNNING",
           ClaimedRows[d].role \in Roles, ClaimedRows[d].desired \in Nat,
           CanQueueCs(ClaimedRows[d], ChangeSet(r), FALSE),
           ClaimedRows[d].desired < MaxGen, rows'[d] = QueueCs(ClaimedRows[d], ChangeSet(r))
    PROVE  Queue(d)!Next
  <1> DEFINE running == {s \in RunIds : runs[s].status = "RUNNING"}
             q == ClaimedRows[d]
  <1>1. r \in CsIds BY RunsMap
  <1>2. /\ ChangeSet(r) \in Queue(d)!ChangeSets /\ ReservedGen(q, ChangeSet(r)) <= MaxGen
    BY <1>1, PlanOfType
  <1>3. {s \in RunIds : Active(s)} = {} BY DEF Claimable
  <1>4. running # {} <=> \E s \in RunIds : Expired(s)
    <2>1. \A s \in RunIds : runs[s].age \in Nat /\ FenceWindow \in Nat
      <3>1. \A s \in RunIds : runs[s].age \in 0 .. FenceWindow BY RunsMap DEF Run
      <3> QED BY <3>1, Site
    <2> QED BY <2>1 DEF Claimable, Active, Expired
  <1>5. q = IF running # {} THEN EndRunning(rows[d], "FAILED") ELSE rows[d]
    BY <1>4 DEF ClaimedRows
  <1>6. /\ {s \in RunIds : runs[s].status = "RUNNING"}' = {}
        /\ {s \in RunIds : Active(s)}' = {}
    BY DEF Active
  <1>7. Queue(d)!EndRunning(rows[d], "FAILED") = EndRunning(rows[d], "FAILED") BY SameStatements
  <1>8. /\ Queue(d)!CanQueueCs(q, ChangeSet(r), FALSE)
        /\ Queue(d)!ReservedGen(q, ChangeSet(r)) <= MaxGen
        /\ rows'[d] = Queue(d)!QueueCs(q, ChangeSet(r))
    <2>1. Queue(d)!Unfenced(q) <=> Unfenced(q) BY SameStatements
    <2>2. Queue(d)!CanQueueCs(q, ChangeSet(r), FALSE)
      BY <2>1 DEF Queue!CanQueueCs, CanQueueCs
    <2>3. /\ Queue(d)!ReservedGen(q, ChangeSet(r)) = ReservedGen(q, ChangeSet(r))
          /\ Queue(d)!QueueCs(q, ChangeSet(r)) = QueueCs(q, ChangeSet(r))
      BY SameStatements
    <2>4. rows'[d] = QueueCs(q, ChangeSet(r)) OBVIOUS
    <2> HIDE DEF q
    <2> QED BY <1>2, <2>2, <2>3, <2>4
  <1>9. q = IF running # {} THEN Queue(d)!EndRunning(rows[d], "FAILED") ELSE rows[d]
    BY <1>5, <1>7
  <1>10. PICK role \in Roles : q.role = role OBVIOUS
  <1> HIDE DEF q
  <1>11. Queue(d)!ClaimAndQueueDeviceChangeSet(ChangeSet(r), role)
    BY <1>3, <1>6, <1>8, <1>9, <1>10 DEF Queue!ClaimAndQueueDeviceChangeSet
  <1> QED BY <1>2, <1>11 DEF Queue!Next

\* RecordDeviceOperationStatus.
LEMMA MoveOpReport ==
    ASSUME TypeOK, NEW d \in Devices, UNCHANGED runs, NEW st,
           st \in [id : OpIds, hash : Hashes \cup {NoHash}, gen : 0 .. MaxGen, state : OpStates],
           OpStatusApplies(rows[d], st), rows'[d] = RecordOp(rows[d], st)
    PROVE  Queue(d)!Next
  <1>1. UNCHANGED <<{s \in RunIds : runs[s].status = "RUNNING"}, {s \in RunIds : Active(s)}>>
    BY DEF RunIds, Active
  <1>2. st \in Queue(d)!OpReports BY SameStatements DEF Queue!OpReports, Queue!Gens
  <1>3. Queue(d)!RecordDeviceOperationStatus(st)
    BY <1>1, SameStatements DEF Queue!RecordDeviceOperationStatus
  <1> QED BY <1>2, <1>3 DEF Queue!Next

\* The first statement of RecordDeviceChangeSetStatus.
LEMMA MoveCsReport ==
    ASSUME TypeOK, NEW d \in Devices, UNCHANGED runs, NEW st,
           st \in [id : CsIds, hash : Hashes, gen : 1 .. MaxGen, state : CsStates],
           CsStatusApplies(rows[d], st), rows'[d] = RecordCs(rows[d], st)
    PROVE  Queue(d)!Next
  <1>1. UNCHANGED <<{s \in RunIds : runs[s].status = "RUNNING"}, {s \in RunIds : Active(s)}>>
    BY DEF RunIds, Active
  <1>2. 1 .. MaxGen \subseteq Queue(d)!Gens \ {0} BY Site DEF Queue!Gens
  <1>3. st \in Queue(d)!CsReports BY <1>2, SameStatements DEF Queue!CsReports
  <1>4. Queue(d)!RecordDeviceChangeSetStatus(st)
    BY <1>1, SameStatements DEF Queue!RecordDeviceChangeSetStatus
  <1> QED BY <1>3, <1>4 DEF Queue!Next

\* An SSH rollout marks the device, and ends.
LEMMA MoveSsh ==
    ASSUME TypeOK, TypeOK', NEW d \in Devices,
           \/ /\ UNCHANGED runs /\ \E r \in RunIds : runs[r].status = "RUNNING"
              /\ CanMarkRunning(rows[d], rows[d].role) /\ rows'[d] = MarkRunning(rows[d])
           \/ \E status \in SshStatuses : rows'[d] = EndRunning(rows[d], status)
    PROVE  Queue(d)!Next
  <1>0. rows[d] \in Row /\ rows[d].role \in Roles BY DEF TypeOK, Row
  <1>1. CASE /\ UNCHANGED runs /\ \E r \in RunIds : runs[r].status = "RUNNING"
             /\ CanMarkRunning(rows[d], rows[d].role) /\ rows'[d] = MarkRunning(rows[d])
    <2>1. UNCHANGED <<{s \in RunIds : runs[s].status = "RUNNING"}, {s \in RunIds : Active(s)}>>
      BY <1>1 DEF RunIds, Active
    <2>2. Queue(d)!MarkRolloutDeviceRunning
      BY <1>0, <1>1, <2>1, SameStatements DEF Queue!MarkRolloutDeviceRunning
    <2> QED BY <2>2 DEF Queue!Next
  <1>2. ASSUME NEW status \in SshStatuses, rows'[d] = EndRunning(rows[d], status)
        PROVE  Queue(d)!Next
    <2>1. CASE rows[d].rolloutStatus # "RUNNING"
      <3>1. rows'[d] = rows[d] BY <1>2, <2>1 DEF EndRunning
      <3> QED BY <3>1, MoveSite
    <2>2. CASE rows[d].rolloutStatus = "RUNNING"
      <3>1. RunIds' \subseteq 1 .. MaxRuns
        <4>1. RunIds' = 1 .. Len(runs') /\ Len(runs') \in Nat /\ Len(runs') <= MaxRuns
          BY LenProperties DEF TypeOK, RunIds
        <4> QED BY <4>1, Site
      <3>2. status \in Queue(d)!SshStatuses /\ rows'[d] = Queue(d)!EndRunning(rows[d], status)
        BY <1>2, SameStatements
      <3>3. Queue(d)!EndSshRollout BY <2>2, <3>1, <3>2 DEF Queue!EndSshRollout, Active
      <3> QED BY <3>3 DEF Queue!Next
    <2> QED BY <2>1, <2>2
  <1> QED BY <1>1, <1>2

\* UpdateDeviceRole.
LEMMA MoveRole ==
    ASSUME TypeOK, NEW d \in Devices, UNCHANGED runs, rows[d].rolloutStatus # "RUNNING",
           NEW role \in Roles, rows'[d] = [rows[d] EXCEPT !.role = role]
    PROVE  Queue(d)!Next
  <1>1. UNCHANGED <<{s \in RunIds : runs[s].status = "RUNNING"}, {s \in RunIds : Active(s)}>>
    BY DEF RunIds, Active
  <1>2. Queue(d)!UpdateDeviceRole BY <1>1 DEF Queue!UpdateDeviceRole
  <1> QED BY <1>2 DEF Queue!Next

-----------------------------------------------------------------------------
(* Generations *)

\* No statement reserves a generation beyond the bound, or queues work without one.
LEMMA RowGens ==
    ASSUME NEW q \in Row, RowGenOK(q)
    PROVE  /\ q.desired < MaxGen =>
                 /\ \A id \in OpIds : RowGenOK(QueueOp(q, PlanOf(id)))
                 /\ \A r \in CsIds : RowGenOK(QueueCs(q, ChangeSet(r)))
           /\ \A st \in Status(OpIds, OpTerminal) : RowGenOK(RecordOp(q, st))
           /\ \A st \in Status(CsIds, CsTerminal) : RowGenOK(RecordCs(q, st))
           /\ RowGenOK(MarkRunning(q))
           /\ \A status \in SshStatuses : RowGenOK(EndRunning(q, status))
           /\ \A role \in Roles : RowGenOK([q EXCEPT !.role = role])
  <1>0. q.desired \in Nat /\ MaxGen \in Nat BY Site DEF Row
  <1>g. ASSUME NEW n, n.desired = q.desired,
               n.pendingOp \in {q.pendingOp, NoWork}, n.pendingCs \in {q.pendingCs, NoWork}
        PROVE  RowGenOK(n)
    BY <1>g DEF RowGenOK
  <1>1. ASSUME q.desired < MaxGen, NEW id \in OpIds PROVE RowGenOK(QueueOp(q, PlanOf(id)))
    <2> DEFINE h == CHOOSE x \in Hashes : TRUE
               n == QueueOp(q, PlanOf(id))
    <2>1. h \in Hashes BY Site
    <2>2. PlanOf(id) = [id |-> id, hash |-> h, gen |-> 0] BY DEF PlanOf
    <2> HIDE DEF h
    <2>3. /\ n.pendingOp = [id |-> id, hash |-> h, gen |-> q.desired + 1]
          /\ n.pendingCs = q.pendingCs /\ n.desired = q.desired + 1
      BY <2>1, <2>2, QueueOpRow
    <2> HIDE DEF n
    <2>4. n.pendingOp.gen = q.desired + 1 BY <2>3
    <2>5. RowGenOK(n) BY <1>0, <1>1, <2>3, <2>4 DEF RowGenOK
    <2> QED BY <2>5 DEF n
  <1>2. ASSUME q.desired < MaxGen, NEW r \in CsIds PROVE RowGenOK(QueueCs(q, ChangeSet(r)))
    <2> DEFINE n == QueueCs(q, ChangeSet(r))
    <2>1. /\ n.pendingCs.gen = q.desired + 1
          /\ n.pendingOp = q.pendingOp /\ n.desired = q.desired + 1
      BY QueueCsRow
    <2> HIDE DEF n
    <2>2. RowGenOK(n) BY <1>0, <1>2, <2>1 DEF RowGenOK
    <2> QED BY <2>2 DEF n
  <1>3. \A st \in Status(OpIds, OpTerminal) : RowGenOK(RecordOp(q, st)) BY <1>g, RecordOpRow
  <1>4. \A st \in Status(CsIds, CsTerminal) : RowGenOK(RecordCs(q, st)) BY <1>g, RecordCsRow
  <1>5. "FAILED" \in SshStatuses BY DEF SshStatuses
  <1>6. RowGenOK(MarkRunning(q)) BY <1>g, <1>5, SshRow
  <1>7. \A status \in SshStatuses : RowGenOK(EndRunning(q, status)) BY <1>g, SshRow
  <1>8. ASSUME NEW role \in Roles PROVE RowGenOK([q EXCEPT !.role = role])
    <2> DEFINE n == [q EXCEPT !.role = role]
    <2>1. n.desired = q.desired /\ n.pendingOp = q.pendingOp /\ n.pendingCs = q.pendingCs BY DEF Row
    <2> HIDE DEF n
    <2> QED BY <1>g, <2>1 DEF n
  <1> QED BY <1>1, <1>2, <1>3, <1>4, <1>6, <1>7, <1>8

-----------------------------------------------------------------------------
(* The steps of a site, seen by one device *)

\* A device takes a step of its queue and stays within the bound.
DeviceOK(d) == Queue(d)!Next /\ RowGenOK(rows'[d])

\* Devices that a step does not touch.
LEMMA UntouchedOK ==
    ASSUME TypeOK', GenInv, NEW d \in Devices, rows'[d] = rows[d]
    PROVE  DeviceOK(d)
  BY MoveSite DEF DeviceOK, GenInv

\* Devices that a step releases.
LEMMA ReleasedOK ==
    ASSUME TypeOK, TypeOK', GenInv, NEW d \in Devices,
           rows'[d] = rows[d] \/ \E status \in SshStatuses : rows'[d] = EndRunning(rows[d], status)
    PROVE  DeviceOK(d)
  <1>1. rows[d] \in Row /\ RowGenOK(rows[d]) BY DEF TypeOK, GenInv
  <1>2. CASE rows'[d] = rows[d] BY <1>2, UntouchedOK
  <1>3. CASE \E status \in SshStatuses : rows'[d] = EndRunning(rows[d], status)
    <2>1. Queue(d)!Next BY <1>3, MoveSsh
    <2>2. RowGenOK(rows'[d]) BY <1>1, <1>3, RowGens
    <2> QED BY <2>1, <2>2 DEF DeviceOK
  <1> QED BY <1>2, <1>3

\* Claiming a draft releases every device, or none.
LEMMA ClaimedRow ==
    ASSUME NEW d \in Devices
    PROVE  ClaimedRows[d] = rows[d] \/ ClaimedRows[d] = EndRunning(rows[d], "FAILED")
  BY DEF ClaimedRows

\* The claim of a change set rollout.
LEMMA FirstPhaseOK ==
    ASSUME TypeOK, GenInv, NEW r \in RunIds, ClaimAndQueueDeviceChangeSets(r)
    PROVE  \A d \in Devices : DeviceOK(d)
  <1>1. /\ TypeOK' /\ RunIds' = RunIds /\ Claimable(r) /\ runs'[r].status = "QUEUED"
        /\ \A s \in RunIds \ {r} : runs'[s] = IF runs[s].status \in {"RUNNING", "DRAFT"}
                                              THEN AsStale(runs[s]) ELSE runs[s]
    BY FirstPhaseEffect
  <1>2. PICK d \in Targets(r) :
          /\ CanQueueCs(ClaimedRows[d], ChangeSet(r), FALSE) /\ rows[d].desired < MaxGen
          /\ rows' = [ClaimedRows EXCEPT ![d] = QueueCs(@, ChangeSet(r))]
    BY FirstPhaseEffect
  <1>3. d \in Devices /\ r \in CsIds /\ runs[r] \in Run BY RunsMap
  <1>4. /\ ClaimedRows \in [Devices -> Row] /\ ClaimedRows[d].desired = rows[d].desired
    BY <1>1, <1>3, ClaimEffect
  <1>5. \A s \in RunIds : runs'[s].status # "RUNNING" BY <1>1, StaleTable
  <1>6. "FAILED" \in SshStatuses BY DEF SshStatuses
  <1>7. ASSUME NEW e \in Devices \ {d} PROVE DeviceOK(e)
    <2>1. rows'[e] = ClaimedRows[e] BY <1>2, <1>4
    <2> QED BY <1>1, <1>6, <2>1, ClaimedRow, ReleasedOK
  <1>8. DeviceOK(d)
    <2>1. rows'[d] = QueueCs(ClaimedRows[d], ChangeSet(r)) BY <1>2, <1>3, <1>4
    <2>2. ClaimedRows[d] \in Row BY <1>3, <1>4
    <2>3. ClaimedRows[d].role \in Roles /\ ClaimedRows[d].desired \in Nat BY <2>2 DEF Row
    <2>4. Queue(d)!Next BY <1>1, <1>2, <1>3, <1>4, <1>5, <2>1, <2>3, MoveClaim
    <2>5. RowGenOK(ClaimedRows[d])
      BY <1>3, <1>6, ClaimedRow, RowGens DEF GenInv, TypeOK
    <2>6. RowGenOK(rows'[d]) BY <1>2, <1>3, <1>4, <2>1, <2>2, <2>5, RowGens
    <2> QED BY <2>4, <2>6 DEF DeviceOK
  <1> QED BY <1>7, <1>8

\* The worker hands out the next phase.
LEMMA NextPhaseOK ==
    ASSUME TypeOK, GenInv, NEW w \in Workers, QueueNextPhase(w)
    PROVE  \A d \in Devices : DeviceOK(d)
  <1> DEFINE r == workers[w].run
  <1>1. /\ TypeOK' /\ r \in RunIds /\ UNCHANGED runs /\ DOMAIN workers[w].results \subseteq Devices
        /\ \/ rows' = rows
           \/ \E d \in DOMAIN workers[w].results :
                /\ runs[r].status = "RUNNING" /\ rows[d].desired < MaxGen
                /\ CanQueueCs(rows[d], ChangeSet(r), OtherActive(r))
                /\ rows' = [rows EXCEPT ![d] = QueueCs(@, ChangeSet(r))]
    <2>1. workers[w].results \in Partial(Entry) BY DEF TypeOK, Worker
    <2>2. DOMAIN workers[w].results \subseteq Devices BY <2>1, PartialMap
    <2> QED BY <2>2, QueueEffect
  <1>2. CASE rows' = rows BY <1>1, <1>2, UntouchedOK
  <1>3. ASSUME NEW d \in Devices, runs[r].status = "RUNNING", rows[d].desired < MaxGen,
               CanQueueCs(rows[d], ChangeSet(r), OtherActive(r)),
               rows' = [rows EXCEPT ![d] = QueueCs(@, ChangeSet(r))]
        PROVE  \A e \in Devices : DeviceOK(e)
    <2>1. rows \in [Devices -> Row] /\ rows[d] \in Row /\ RowGenOK(rows[d]) BY DEF TypeOK, GenInv
    <2>2. /\ rows'[d] = QueueCs(rows[d], ChangeSet(r))
          /\ \A e \in Devices \ {d} : rows'[e] = rows[e]
      BY <1>3, <2>1
    <2>3. Queue(d)!Next BY <1>1, <1>3, <2>2, MoveCs
    <2>4. r \in CsIds BY <1>1, RunsMap
    <2>5. RowGenOK(rows'[d]) BY <1>3, <2>1, <2>2, <2>4, RowGens
    <2>6. DeviceOK(d) BY <2>3, <2>5 DEF DeviceOK
    <2>7. \A e \in Devices \ {d} : DeviceOK(e) BY <1>1, <2>2, UntouchedOK
    <2> QED BY <2>6, <2>7
  <1> QED BY <1>1, <1>2, <1>3
\* The steps of one device: telemetry, typed operations, roles.
LEMMA OneDeviceOK ==
    ASSUME TypeOK, GenInv, NEW d \in Devices,
           \/ \E st \in sent[d] : RecordDeviceChangeSetStatus(d, st)
           \/ \E id \in OpIds : QueueDeviceOperation(d, id)
           \/ \E id \in OpIds, state \in OpTerminal : RecordDeviceOperationStatus(d, id, state)
           \/ \E role \in Roles : UpdateDeviceRole(d, role)
    PROVE  \A e \in Devices : DeviceOK(e)
  <1>0. /\ rows \in [Devices -> Row] /\ rows[d] \in Row /\ RowGenOK(rows[d]) /\ MaxGen \in Nat
        /\ TypeOK' /\ UNCHANGED runs /\ \A e \in Devices \ {d} : rows'[e] = rows[e]
    BY DeviceEffect, Site DEF TypeOK, GenInv
  <1>1. \A e \in Devices \ {d} : DeviceOK(e) BY <1>0, UntouchedOK
  <1>2. ASSUME NEW st \in sent[d], RecordDeviceChangeSetStatus(d, st) PROVE DeviceOK(d)
    <2>1. rows'[d] = RecordCs(rows[d], st) /\ CsStatusApplies(rows[d], st)
      BY <1>0, <1>2 DEF RecordDeviceChangeSetStatus
    <2>2. st \in Status(CsIds, CsTerminal) /\ st.gen \in 1 .. MaxGen /\ st.hash \in Hashes
      BY DEF TypeOK, GenInv
    <2>3. CsTerminal \subseteq CsStates BY DEF CsTerminal, CsStates, OpStates
    <2>4. st \in [id : CsIds, hash : Hashes, gen : 1 .. MaxGen, state : CsStates]
      BY <2>2, <2>3 DEF Status
    <2>5. Queue(d)!Next BY <1>0, <2>1, <2>4, MoveCsReport
    <2>6. RowGenOK(rows'[d]) BY <1>0, <2>1, <2>2, RowGens
    <2> QED BY <2>5, <2>6 DEF DeviceOK
  <1>3. ASSUME NEW id \in OpIds, QueueDeviceOperation(d, id) PROVE DeviceOK(d)
    <2>1. /\ CanQueueOp(rows[d], PlanOf(id), \E s \in RunIds : Active(s))
          /\ rows[d].desired < MaxGen /\ rows' = [rows EXCEPT ![d] = QueueOp(@, PlanOf(id))]
      BY <1>3 DEF QueueDeviceOperation, PlanOf
    <2>2. rows'[d] = QueueOp(rows[d], PlanOf(id)) BY <1>0, <2>1
    <2>3. Queue(d)!Next BY <1>0, <2>1, <2>2, MoveOp
    <2>4. RowGenOK(rows'[d]) BY <1>0, <2>1, <2>2, RowGens
    <2> QED BY <2>3, <2>4 DEF DeviceOK
  <1>4. ASSUME NEW id \in OpIds, NEW state \in OpTerminal, RecordDeviceOperationStatus(d, id, state)
        PROVE  DeviceOK(d)
    <2> DEFINE op == rows[d].pendingOp
               st == [id |-> id, hash |-> op.hash, gen |-> op.gen, state |-> state]
    <2>1. op.id = id /\ rows'[d] = RecordOp(rows[d], st)
      BY <1>0, <1>4 DEF RecordDeviceOperationStatus
    <2>2. op # NoWork BY <2>1, IdAssumption DEF NoWork
    <2>3. op \in Work(OpIds) /\ op.gen \in 1 .. MaxGen
      BY <1>0, <2>2 DEF Row, RowGenOK
    <2>4. op.hash \in Hashes /\ op.hash # NoHash /\ op.gen \in Nat BY <2>3, IdAssumption DEF Work
    <2>5. op.gen \in 0 .. MaxGen BY <1>0, <2>3
    <2>6. OpTerminal \subseteq OpStates BY DEF OpTerminal, OpStates
    <2>7. /\ st \in [id : OpIds, hash : Hashes \cup {NoHash}, gen : 0 .. MaxGen, state : OpStates]
          /\ st \in Status(OpIds, OpTerminal)
      BY <2>4, <2>5, <2>6 DEF Status
    <2>8. OpStatusApplies(rows[d], st)
      BY <2>1, <2>4 DEF OpStatusApplies, OpPendingMatches, OpContentMatches
    <2> HIDE DEF st
    <2>9. Queue(d)!Next BY <1>0, <2>1, <2>7, <2>8, MoveOpReport
    <2>10. RowGenOK(rows'[d]) BY <1>0, <2>1, <2>7, RowGens
    <2> QED BY <2>9, <2>10 DEF DeviceOK
  <1>5. ASSUME NEW role \in Roles, UpdateDeviceRole(d, role) PROVE DeviceOK(d)
    <2>1. rows[d].rolloutStatus # "RUNNING" /\ rows'[d] = [rows[d] EXCEPT !.role = role]
      BY <1>0, <1>5 DEF UpdateDeviceRole
    <2>2. Queue(d)!Next BY <1>0, <2>1, MoveRole
    <2>3. RowGenOK(rows'[d]) BY <1>0, <2>1, RowGens
    <2> QED BY <2>2, <2>3 DEF DeviceOK
  <1>6. DeviceOK(d) BY <1>2, <1>3, <1>4, <1>5
  <1> QED BY <1>1, <1>6

\* The steps of an SSH request before the scripts run.
LEMMA RequestOK ==
    ASSUME TypeOK, GenInv, NEW h \in Handlers,
           \/ \E r \in RunIds : VerifyRolloutDraftTargets(h, r)
           \/ ValidateClaimedDraft(h)
           \/ MarkRolloutDevicesRunning(h)
    PROVE  \A d \in Devices : DeviceOK(d)
  <1> DEFINE r == handlers[h].run
  <1>1. /\ TypeOK' /\ UNCHANGED runs
        /\ \/ rows' = rows
           \/ /\ handlers[h].pc = "mark" /\ HoldsClaim(h) /\ Markable(r)
              /\ rows' = [d \in Devices |-> IF d \in Targets(r) THEN MarkRunning(rows[d]) ELSE rows[d]]
    BY RequestEffect
  <1>2. CASE rows' = rows BY <1>1, <1>2, UntouchedOK
  <1>3. CASE /\ handlers[h].pc = "mark" /\ HoldsClaim(h) /\ Markable(r)
             /\ rows' = [d \in Devices |-> IF d \in Targets(r) THEN MarkRunning(rows[d]) ELSE rows[d]]
    <2>1. r \in RunIds /\ runs[r].status = "RUNNING" BY <1>3 DEF TypeOK, HoldsClaim
    <2> SUFFICES ASSUME NEW d \in Devices PROVE DeviceOK(d)
      OBVIOUS
    <2>2. CASE d \notin Targets(r)
      <3>1. rows'[d] = rows[d] BY <1>3, <2>2
      <3> QED BY <1>1, <3>1, UntouchedOK
    <2>3. CASE d \in Targets(r)
      <3>1. rows'[d] = MarkRunning(rows[d]) /\ CanMarkRunning(rows[d], rows[d].role)
        BY <1>3, <2>3 DEF Markable, CanMarkRunning
      <3>2. Queue(d)!Next BY <1>1, <2>1, <3>1, MoveSsh
      <3>3. rows[d] \in Row /\ RowGenOK(rows[d]) BY DEF TypeOK, GenInv
      <3>4. RowGenOK(rows'[d]) BY <3>1, <3>3, RowGens
      <3> QED BY <3>2, <3>4 DEF DeviceOK
    <2> QED BY <2>2, <2>3
  <1> QED BY <1>1, <1>2, <1>3

\* The claim of an SSH rollout, and its end.
LEMMA SshOK ==
    ASSUME TypeOK, GenInv, NEW h \in Handlers,
           \/ ClaimRolloutDraft(h)
           \/ ReleaseRolloutDraft(h) \/ MarkRolloutDraftStale(h)
           \/ PersistRolloutResults(h) \/ MarkRolloutPersistenceFailure(h)
    PROVE  \A d \in Devices : DeviceOK(d)
  <1>1. CASE ClaimRolloutDraft(h)
    <2>1. TypeOK' /\ (rows' = rows \/ rows' = ClaimedRows) BY <1>1, ClaimDraftEffect
    <2>2. "FAILED" \in SshStatuses BY DEF SshStatuses
    <2>3. \A d \in Devices : rows'[d] = rows[d] \/ rows'[d] = EndRunning(rows[d], "FAILED")
      BY <2>1, ClaimedRow
    <2> QED BY <2>1, <2>2, <2>3, ReleasedOK
  <1>2. CASE \/ ReleaseRolloutDraft(h) \/ MarkRolloutDraftStale(h)
             \/ PersistRolloutResults(h) \/ MarkRolloutPersistenceFailure(h)
    <2>1. TypeOK' /\ (rows' = rows \/ EndedRows(handlers[h].run)) BY <1>2, EndEffect
    <2>2. \A d \in Devices :
            rows'[d] = rows[d] \/ \E status \in SshStatuses : rows'[d] = EndRunning(rows[d], status)
      BY <2>1 DEF EndedRows
    <2> QED BY <2>1, <2>2, ReleasedOK
  <1> QED BY <1>1, <1>2

\* Each step of the site is a step of every device's queue.
LEMMA StepDevices ==
    ASSUME TypeOK, GenInv, Next
    PROVE  \A d \in Devices : DeviceOK(d)
  <1>0. TypeOK' BY StepType
  <1>1. rows' = rows => \A d \in Devices : DeviceOK(d) BY <1>0, UntouchedOK
  <1>2. CASE \/ \E kind \in Kinds, targets \in TargetSets : CreateRolloutDraft(kind, targets)
             \/ \E r \in RunIds : RejectRolloutDraft(r)
             \/ \E r \in RunIds : LeaseExpires(r)
             \/ \E w \in Workers : ClaimQueuedRollout(w)
             \/ \E w \in Workers : ReadProgress(w)
             \/ \E w \in Workers : \/ UpdateRolloutWorkerCursor(w) \/ UpdateRolloutWorkerResults(w)
                                   \/ RenewRolloutLease(w)
             \/ \E d \in Devices : \E st \in sent[d] : RecordRolloutResult(d, st)
             \/ \E d \in Devices, outcome \in Outcomes : AgentApply(d, outcome)
             \/ Tick
             \/ Crash
    <2>1. rows' = rows
      BY <1>2 DEF CreateRolloutDraft, RejectRolloutDraft, LeaseExpires, ClaimQueuedRollout,
                  ReadProgress, UpdateRolloutWorkerCursor, UpdateRolloutWorkerResults,
                  RenewRolloutLease, RecordRolloutResult, AgentApply, Tick, Crash
    <2> QED BY <1>1, <2>1
  <1>3. CASE \E r \in RunIds : ClaimAndQueueDeviceChangeSets(r) BY <1>3, FirstPhaseOK
  <1>4. CASE \E w \in Workers : QueueNextPhase(w) BY <1>4, NextPhaseOK
  <1>5. CASE \E h \in Handlers : \/ \E r \in RunIds : VerifyRolloutDraftTargets(h, r)
                                 \/ ValidateClaimedDraft(h)
                                 \/ MarkRolloutDevicesRunning(h)
    BY <1>5, RequestOK
  <1>6. CASE \/ \E h \in Handlers : ClaimRolloutDraft(h)
             \/ \E h \in Handlers : \/ ReleaseRolloutDraft(h) \/ MarkRolloutDraftStale(h)
                                    \/ PersistRolloutResults(h) \/ MarkRolloutPersistenceFailure(h)
    BY <1>6, SshOK
  <1>7. CASE \E d \in Devices :
               \/ \E st \in sent[d] : RecordDeviceChangeSetStatus(d, st)
               \/ \E id \in OpIds : QueueDeviceOperation(d, id)
               \/ \E id \in OpIds, state \in OpTerminal : RecordDeviceOperationStatus(d, id, state)
               \/ \E role \in Roles : UpdateDeviceRole(d, role)
    BY <1>7, OneDeviceOK
  <1> QED BY <1>2, <1>3, <1>4, <1>5, <1>6, <1>7, NextCases

\* Agents report generations that were reserved and hashes that were planned.
LEMMA StepGens ==
    ASSUME TypeOK, GenInv, [Next]_vars
    PROVE  GenInv'
  <1>1. CASE Next
    <2>1. \A d \in Devices : RowGenOK(rows'[d]) BY <1>1, StepDevices DEF DeviceOK
    <2>2. CASE sent' = sent BY <2>1, <2>2 DEF GenInv, RowGenOK
    <2>3. ASSUME NEW d \in Devices, NEW outcome \in Outcomes, AgentApply(d, outcome) PROVE GenInv'
      <3> DEFINE cs == rows[d].pendingCs
                 st == [id |-> cs.id, hash |-> cs.hash, gen |-> cs.gen, state |-> outcome]
      <3>1. /\ cs \in Work(CsIds) /\ sent'[d] = sent[d] \cup {st}
            /\ \A e \in Devices \ {d} : sent'[e] = sent[e]
        BY <2>3, ApplyEffect
      <3>2. cs # NoWork BY <2>3 DEF AgentApply
      <3>3. st.gen \in 1 .. MaxGen /\ st.hash \in Hashes
        BY <3>1, <3>2 DEF GenInv, RowGenOK, Work
      <3> HIDE DEF st
      <3>4. \A e \in Devices : \A x \in sent'[e] : x.gen \in 1 .. MaxGen /\ x.hash \in Hashes
        BY <3>1, <3>3 DEF GenInv
      <3> QED BY <2>1, <3>4 DEF GenInv, RowGenOK
    <2>4. sent' = sent \/ \E d \in Devices, outcome \in Outcomes : AgentApply(d, outcome)
      BY <1>1, NextCases DEF CreateRolloutDraft, RejectRolloutDraft, ClaimAndQueueDeviceChangeSets,
            LeaseExpires, ClaimQueuedRollout, ReadProgress, UpdateRolloutWorkerCursor,
            UpdateRolloutWorkerResults, RenewRolloutLease, QueueNextPhase,
            VerifyRolloutDraftTargets, ValidateClaimedDraft, MarkRolloutDevicesRunning,
            ClaimRolloutDraft, ReleaseRolloutDraft, MarkRolloutDraftStale, PersistRolloutResults,
            MarkRolloutPersistenceFailure, RecordDeviceChangeSetStatus, QueueDeviceOperation,
            RecordDeviceOperationStatus, UpdateDeviceRole, RecordRolloutResult, Tick, Crash
    <2> QED BY <2>2, <2>3, <2>4
  <1>2. CASE UNCHANGED vars BY <1>2 DEF vars, GenInv, RowGenOK
  <1> QED BY <1>1, <1>2

\* Devices start as queues do, without work.
LEMMA InitDevices == Init => DeviceInits /\ GenInv
  <1> SUFFICES ASSUME Init PROVE DeviceInits /\ GenInv
    OBVIOUS
  <1>1. PICK capable \in [Devices -> Capable], role \in [Devices -> Roles] :
          rows = [d \in Devices |-> InitRow(capable[d], role[d])]
    BY DEF Init
  <1>2. \A d \in Devices : capable[d] \in BOOLEAN /\ role[d] \in Roles BY <1>1, SiteAssumption
  <1>3. RunIds = {} BY EmptyMap DEF Init, RunIds
  <1>4. ASSUME NEW d \in Devices PROVE Queue(d)!Init
    <2>1. PICK c \in BOOLEAN : c = capable[d] BY <1>2
    <2>2. PICK x \in Roles : x = role[d] BY <1>2
    <2>3. rows[d] = InitRow(c, x) BY <1>1, <2>1, <2>2
    <2>4. rows[d] = Queue(d)!InitRow(c, x)
      BY <2>3, Zenon DEF Queue!InitRow, InitRow, Queue!NoWork, NoWork, Queue!NoStatus, NoStatus
    <2> QED BY <1>3, <2>4 DEF Queue!Init
  <1>5. ASSUME NEW d \in Devices PROVE RowGenOK(rows[d])
    <2>1. /\ rows[d].desired = 0 /\ rows[d].pendingOp = NoWork /\ rows[d].pendingCs = NoWork
      BY <1>1 DEF InitRow
    <2>2. MaxGen \in Nat BY Site
    <2> QED BY <2>1, <2>2 DEF RowGenOK
  <1>6. \A d \in Devices : sent[d] = {} BY DEF Init
  <1> QED BY <1>4, <1>5, <1>6 DEF DeviceInits, GenInv

\* Generations stay within the bound that the model gives them: no step of the
\* site makes a device's queue leave the states DeviceQueue enumerates.
THEOREM GensBounded == Spec => []GenInv
  <1>1. Init => TypeOK /\ GenInv BY InitType, InitDevices
  <1>2. TypeOK /\ GenInv /\ [Next]_vars => (TypeOK /\ GenInv)' BY StepType, StepGens
  <1> QED BY <1>1, <1>2, PTL DEF Spec

\* The site implements one DeviceQueue per device: whatever previews, claims,
\* worker phases, SSH requests, reports, crashes and lease expiries interleave,
\* what they do to a device's row is a step of the queue of that device.
THEOREM SiteImplementsQueues == Spec => DevicesAreQueues
  <1>1. Init => DeviceInits BY InitDevices
  <1>2. TypeOK /\ GenInv /\ [Next]_vars => [DeviceSteps]_vars
    <2>1. TypeOK /\ GenInv /\ Next => DeviceSteps BY StepDevices DEF DeviceOK, DeviceSteps
    <2> QED BY <2>1
  <1> QED BY <1>1, <1>2, TypeCorrect, GensBounded, PTL DEF Spec, DevicesAreQueues
=============================================================================
