---------------------------- MODULE RolloutProofs ----------------------------
(***************************************************************************)
(* Proofs about Rollout, for every site, every number of rollouts, worker  *)
(* goroutines and requests, and every order of their steps.                *)
(***************************************************************************)
EXTENDS Rollout, FiniteSetTheorems, SequenceTheorems, TLAPS

-----------------------------------------------------------------------------
(* The inductive invariant: claims *)

\* Only change sets are queued and leased; a draft has no results, an SSH
\* rollout none before it ends.
KindInv ==
    \A r \in RunIds :
        /\ runs[r].status = "QUEUED" \/ runs[r].lease # "none" => runs[r].kind = "changeset"
        /\ runs[r].status \in {"QUEUED", "RUNNING"} /\ runs[r].kind = "changeset"
              => DOMAIN runs[r].results = Targets(r)
        /\ runs[r].status = "DRAFT" \/ (runs[r].status = "RUNNING" /\ runs[r].kind = "ssh")
              => DOMAIN runs[r].results = {}

SshRunning(r) == runs[r].status = "RUNNING" /\ runs[r].kind = "ssh"

OneSsh == \A r, s \in RunIds : SshRunning(r) /\ SshRunning(s) => r = s

\* Beyond SupersededDraftsRetired: an SSH rollout may become a draft again.
Superseded ==
    \A r, s \in RunIds : r < s /\ runs[s].status \notin {"DRAFT", "STALE", "REJECTED"}
        => runs[r].status # "DRAFT" /\ ~SshRunning(r)

RunningIdle == \A d \in Devices : rows[d].rolloutStatus = "RUNNING" => NoPending(rows[d])

\* A request that drew the token still holds the claim: its rollout is younger
\* than the request, and the request ends before the fence does.
HandlerOK(h) ==
    /\ handlers[h].pc # "idle" => runs[handlers[h].run].kind = "ssh"
    /\ handlers[h].claimed =>
          /\ handlers[h].pc \notin {"idle", "claim"} /\ HoldsClaim(h)
          /\ runs[handlers[h].run].age <= handlers[h].age
    /\ handlers[h].pc \in {"validate", "mark", "release", "execute", "persistFailed"}
          => handlers[h].claimed
    /\ handlers[h].pc \in {"validate", "mark", "release"}
          => \A d \in Devices : rows[d].rolloutStatus # "RUNNING"
    /\ handlers[h].pc = "execute"
          => \A d \in Targets(handlers[h].run) : rows[d].rolloutStatus = "RUNNING"

HandlerInv == \A h \in Handlers : HandlerOK(h)

ClaimInv == /\ KindInv /\ OneSsh /\ Superseded
            /\ RunningIdle /\ RunningHasOwner /\ HandlerInv /\ OneLease

-----------------------------------------------------------------------------
(* The inductive invariant: phases *)

HandedOut(r, d) == rows[d].pendingCs.id = r \/ Applied(r, d)

\* Before, as a relation of the roles that a draft has recorded.
Earlier(roles, d, e) ==
    LET gateway(x) == roles[x] = "Gateway"
    IN  IF gateway(d) # gateway(e) THEN gateway(e) ELSE d < e

\* An entry of rollout r says what the agent, which sent S, has reached.
EntryTrue(S, r, entry) ==
    IF entry.cs = "" THEN entry.status \in {"WAITING", "QUEUED"}
    ELSE /\ entry.status = IF entry.cs = "COMMITTED" THEN "SUCCESS" ELSE "FAILED"
         /\ \E st \in S : st.id = r /\ st.state = entry.cs

\* The row of a change set rollout in the table.
RunTrue(r, run, S) ==
    run.kind = "changeset" =>
        /\ \A d \in DOMAIN run.results : EntryTrue(S[d], r, run.results[d])
        /\ run.cursor <= TerminalCount(run.results)
        /\ run.status = "completed"
              => \A d \in DOMAIN run.roles : \E st \in S[d] : st.id = r /\ st.state = "COMMITTED"

RunsTrue == \A r \in RunIds : RunTrue(r, runs[r], sent)

\* An agent applies a change set once.
SentOnce == \A d \in Devices : \A a, b \in sent[d] : a.id = b.id => a = b

\* PhaseGate as the controller sees it: the earlier devices have committed and
\* the column results says so.
GateOpen(run, d) ==
    /\ run.kind = "changeset" /\ DOMAIN run.results = DOMAIN run.roles /\ d \in DOMAIN run.roles
    /\ \A e \in DOMAIN run.roles : Earlier(run.roles, e, d) => run.results[e].cs = "COMMITTED"

RecordedGate == \A r \in CsIds, d \in Devices : HandedOut(r, d) => r \in RunIds /\ GateOpen(runs[r], d)

\* What a worker read stays true, and is closed under earlier phases.
CopyTrue(copy, r, run, S) ==
    /\ DOMAIN copy = DOMAIN run.roles
    /\ \A d \in DOMAIN copy :
          /\ EntryTrue(S[d], r, copy[d])
          /\ copy[d].cs # "" => run.results[d].cs = copy[d].cs
    /\ \A d, e \in DOMAIN copy :
          copy[d].cs # "" /\ Earlier(run.roles, e, d) => copy[e].cs = "COMMITTED"

\* While the lease is live nobody else has written the column.
CopyCurrent(copy, run) ==
    \A d \in DOMAIN copy : copy[d] = run.results[d] \/ (run.results[d].cs = "" /\ copy[d].cs = "")

FencedBy(run, w) == run.status = "RUNNING" /\ run.lease = "live" /\ run.worker = w

\* A worker that is not idle, and the row of its rollout.
WorkerTrue(w, worker, run, S) ==
    /\ run.kind = "changeset" /\ DOMAIN run.results = DOMAIN run.roles
    /\ worker.cursor <= TerminalCount(run.results)
    /\ worker.pc \in {"cursor", "queue", "results"} =>
          /\ CopyTrue(worker.results, worker.run, run, S)
          /\ FencedBy(run, w) => CopyCurrent(worker.results, run)
    /\ worker.pc = "queue" => /\ TerminalCount(worker.results) = worker.cursor
                              /\ FailureCount(worker.results) = 0

WorkerInv == \A w \in Workers : workers[w].pc # "idle" =>
                WorkerTrue(w, workers[w], runs[workers[w].run], sent)

PhaseInv == RunsTrue /\ SentOnce /\ RecordedGate /\ WorkerInv

IInv == TypeOK /\ ClaimInv /\ PhaseInv

-----------------------------------------------------------------------------
(* Types *)

\* The assumptions on the site, by themselves.
LEMMA Site ==
    /\ IsFiniteSet(Devices) /\ Devices \subseteq Nat
    /\ \A T \in TargetSets : T \subseteq Devices
    /\ Kinds \subseteq {"ssh", "changeset"} /\ Outcomes \subseteq CsTerminal
    /\ NoProcess \notin Workers /\ NoProcess \notin Handlers
    /\ MaxRuns \in Nat /\ CsIds = 1 .. MaxRuns /\ NoId \notin CsIds /\ NoId \notin OpIds
    /\ MaxGen \in Nat \ {0} /\ Hashes # {}
    /\ ExecutionLimit \in Nat /\ FenceWindow \in Nat /\ ExecutionLimit < FenceWindow
  BY SiteAssumption, IdAssumption

\* A device selection without entries is a map from no device.
LEMMA EmptyMap == DOMAIN << >> = {} /\ \A S : << >> \in Partial(S)
  <1>1. DOMAIN << >> = {} OBVIOUS
  <1>2. ASSUME NEW S PROVE << >> \in Partial(S)
    <2>1. << >> \in [{} -> S] OBVIOUS
    <2> QED BY <2>1 DEF Partial
  <1> QED BY <1>1, <1>2

\* Partial is the set of the maps from some of the devices.
LEMMA PartialMap ==
    ASSUME NEW S
    PROVE  /\ \A f \in Partial(S) : /\ DOMAIN f \subseteq Devices /\ f \in [DOMAIN f -> S]
                                    /\ IsFiniteSet(DOMAIN f)
           /\ \A T \in SUBSET Devices : [T -> S] \subseteq Partial(S)
  <1>1. ASSUME NEW f \in Partial(S)
        PROVE  DOMAIN f \subseteq Devices /\ f \in [DOMAIN f -> S] /\ IsFiniteSet(DOMAIN f)
    <2>1. PICK T \in SUBSET Devices : f \in [T -> S] BY DEF Partial
    <2> QED BY <2>1, FS_Subset, Site
  <1> QED BY <1>1 DEF Partial

\* The number of final entries is that of a set of devices.
LEMMA CountType ==
    ASSUME NEW results \in Partial(Entry)
    PROVE  /\ TerminalCount(results) \in 0 .. Cardinality(Devices)
           /\ FailureCount(results) \in Nat
  <1>1. DOMAIN results \subseteq Devices BY PartialMap
  <1>2. /\ {d \in DOMAIN results : Terminal(results[d])} \in SUBSET Devices
        /\ {d \in DOMAIN results : Terminal(results[d]) /\ ~Succeeded(results[d])} \in SUBSET Devices
    BY <1>1
  <1>3. Cardinality(Devices) \in Nat BY FS_CardinalityType, Site
  <1> QED BY <1>2, <1>3, FS_Subset, FS_CardinalityType, Site DEF TerminalCount, FailureCount

\* The table, as a function.
LEMMA RunsMap ==
    ASSUME TypeOK
    PROVE  /\ RunIds = 1 .. Len(runs) /\ Len(runs) \in Nat /\ runs \in [RunIds -> Run]
           /\ RunIds \subseteq CsIds
           /\ \A r \in RunIds : /\ Targets(r) \subseteq Devices
                                /\ runs[r].roles \in [Targets(r) -> Roles]
                                /\ runs[r].results \in [DOMAIN runs[r].results -> Entry]
  <1>1. /\ RunIds = 1 .. Len(runs) /\ Len(runs) \in Nat /\ runs \in [RunIds -> Run]
    BY LenProperties DEF TypeOK, RunIds
  <1>2. RunIds \subseteq CsIds BY <1>1, Site DEF TypeOK
  <1>3. ASSUME NEW r \in RunIds
        PROVE  /\ Targets(r) \subseteq Devices
               /\ runs[r].roles \in [Targets(r) -> Roles]
               /\ runs[r].results \in [DOMAIN runs[r].results -> Entry]
    <2>1. runs[r].roles \in Partial(Roles) /\ runs[r].results \in Partial(Entry) BY <1>1 DEF Run
    <2> QED BY <2>1, PartialMap DEF Targets
  <1> QED BY <1>1, <1>2, <1>3

\* A function on the same numbers is a table of the same length.
LEMMA SameTable ==
    ASSUME TypeOK, NEW f \in [RunIds -> Run]
    PROVE  f \in Seq(Run) /\ Len(f) = Len(runs) /\ DOMAIN f = RunIds
  <1>1. RunIds = 1 .. Len(runs) /\ Len(runs) \in Nat BY RunsMap
  <1>2. f \in Seq(Run) BY <1>1, SeqDef
  <1>3. DOMAIN f = 1 .. Len(f) /\ Len(f) \in Nat BY <1>2, LenProperties
  <1> QED BY <1>1, <1>2, <1>3

-----------------------------------------------------------------------------
(* The statements of DeviceRow, as Rollout uses them *)

\* queueDeviceChangeSet for a change set that names no generation.
LEMMA QueueCsRow ==
    ASSUME NEW q \in Row, NEW r \in CsIds
    PROVE  LET n == QueueCs(q, ChangeSet(r))
           IN  /\ n \in Row /\ ChangeSet(r) \in Work(CsIds)
               /\ n.pendingCs.id = r /\ n.pendingCs.gen = q.desired + 1
               /\ n.pendingCs.hash \in Hashes
               /\ n.pendingOp = q.pendingOp /\ n.rolloutStatus = "QUEUED"
               /\ n.desired = q.desired + 1
  <1> DEFINE h == CHOOSE x \in Hashes : TRUE
             n == QueueCs(q, ChangeSet(r))
  <1>1. q.desired \in Nat BY DEF Row
  <1>2. h \in Hashes BY Site
  <1>3. ChangeSet(r) = [id |-> r, hash |-> h, gen |-> 0] BY DEF ChangeSet
  <1> HIDE DEF h
  <1>4. ReservedGen(q, ChangeSet(r)) = q.desired + 1 BY <1>1, <1>3 DEF ReservedGen
  <1>5. ReservedGen(q, ChangeSet(r)) \in Nat BY <1>1, <1>4
  <1>6. Reserved(q, ChangeSet(r)) = [id |-> r, hash |-> h, gen |-> q.desired + 1]
    BY <1>3, <1>4 DEF Reserved
  <1>7. Reserved(q, ChangeSet(r)) \in Work(CsIds) /\ ChangeSet(r) \in Work(CsIds)
    BY <1>1, <1>2, <1>3, <1>6 DEF Work
  <1>8. n \in Row BY <1>5, <1>7 DEF QueueCs, Row, RolloutStatuses
  <1>9. /\ n.pendingCs = Reserved(q, ChangeSet(r)) /\ n.pendingOp = q.pendingOp
        /\ n.rolloutStatus = "QUEUED" /\ n.desired = q.desired + 1
    BY <1>4 DEF QueueCs, Row
  <1> HIDE DEF n
  <1>10. n.pendingCs.id = r /\ n.pendingCs.gen = q.desired + 1 /\ n.pendingCs.hash \in Hashes
    BY <1>2, <1>6, <1>9
  <1> QED BY <1>7, <1>8, <1>9, <1>10 DEF n

\* QueueDeviceOperation for a plan that names no generation.
LEMMA QueueOpRow ==
    ASSUME NEW q \in Row, NEW id \in OpIds, NEW h \in Hashes
    PROVE  LET plan == [id |-> id, hash |-> h, gen |-> 0]
               n == QueueOp(q, plan)
           IN  /\ n \in Row
               /\ n.pendingOp = [id |-> id, hash |-> h, gen |-> q.desired + 1]
               /\ n.pendingCs = q.pendingCs /\ n.rolloutStatus = "QUEUED"
               /\ n.desired = q.desired + 1
  <1> DEFINE plan == [id |-> id, hash |-> h, gen |-> 0]
  <1>1. q.desired \in Nat BY DEF Row
  <1>2. Reserved(q, plan) = [id |-> id, hash |-> h, gen |-> q.desired + 1]
    BY <1>1 DEF Reserved, ReservedGen
  <1>3. Reserved(q, plan) \in Work(OpIds) BY <1>1, <1>2 DEF Work
  <1>4. ReservedGen(q, plan) = q.desired + 1 BY <1>1 DEF ReservedGen
  <1>5. ReservedGen(q, plan) \in Nat BY <1>1, <1>4
  <1> HIDE DEF plan
  <1>6. QueueOp(q, plan) \in Row BY <1>3, <1>5 DEF QueueOp, Row, RolloutStatuses
  <1>7. /\ QueueOp(q, plan).pendingOp = Reserved(q, plan)
        /\ QueueOp(q, plan).pendingCs = q.pendingCs
        /\ QueueOp(q, plan).rolloutStatus = "QUEUED"
        /\ QueueOp(q, plan).desired = ReservedGen(q, plan)
    BY DEF QueueOp, Row
  <1> QED BY <1>2, <1>4, <1>6, <1>7 DEF plan

\* The generation a report moves the row to.
LEMMA ReportedGenType ==
    ASSUME NEW current \in Nat, NEW st, st.gen \in Nat
    PROVE  ReportedGen(current, st) \in Nat
  BY DEF ReportedGen, Greatest

\* First statement of RecordDeviceChangeSetStatus: RUNNING stays, no other
\* status becomes RUNNING, nothing is queued.
LEMMA RecordCsRow ==
    ASSUME NEW q \in Row, NEW st \in Status(CsIds, CsTerminal)
    PROVE  LET n == RecordCs(q, st)
           IN  /\ n \in Row /\ n.pendingOp = q.pendingOp
               /\ n.pendingCs \in {q.pendingCs, NoWork}
               /\ n.rolloutStatus = "RUNNING" <=> q.rolloutStatus = "RUNNING"
               /\ n.desired = q.desired
  <1> DEFINE n == RecordCs(q, st)
  <1>1. /\ st.gen \in Nat /\ q.observed \in Nat /\ q.successful \in Nat
        /\ st \in Status(CsIds, CsStates) /\ st.state \in CsTerminal
    BY DEF Status, Row, CsTerminal, CsStates, OpStates
  <1>2. ReportedGen(q.observed, st) \in Nat /\ ReportedGen(q.successful, st) \in Nat
    BY <1>1, ReportedGenType
  <1>3. /\ ReportedRolloutStatus(q, st) \in RolloutStatuses
        /\ ReportedRolloutStatus(q, st) = "RUNNING" <=> q.rolloutStatus = "RUNNING"
    BY <1>1 DEF ReportedRolloutStatus, RolloutStatuses, CsStates, OpStates, CsTerminal
  <1>4. n \in Row BY <1>1, <1>2, <1>3 DEF RecordCs, Row
  <1>5. n.rolloutStatus = ReportedRolloutStatus(q, st) BY DEF RecordCs, Row
  <1> QED BY <1>3, <1>4, <1>5 DEF RecordCs, Row

\* RecordDeviceOperationStatus, likewise.
LEMMA RecordOpRow ==
    ASSUME NEW q \in Row, NEW st \in Status(OpIds, OpTerminal)
    PROVE  LET n == RecordOp(q, st)
           IN  /\ n \in Row /\ n.pendingCs = q.pendingCs
               /\ n.pendingOp \in {q.pendingOp, NoWork}
               /\ n.rolloutStatus = "RUNNING" <=> q.rolloutStatus = "RUNNING"
               /\ n.desired = q.desired
  <1> DEFINE n == RecordOp(q, st)
  <1>1. /\ st.gen \in Nat /\ q.observed \in Nat /\ q.successful \in Nat
        /\ st \in Status(OpIds, OpStates) /\ st.state \in OpTerminal
    BY DEF Status, Row, OpTerminal, OpStates
  <1>2. ReportedGen(q.observed, st) \in Nat /\ ReportedGen(q.successful, st) \in Nat
    BY <1>1, ReportedGenType
  <1>3. /\ ReportedRolloutStatus(q, st) \in RolloutStatuses
        /\ ReportedRolloutStatus(q, st) = "RUNNING" <=> q.rolloutStatus = "RUNNING"
    BY <1>1 DEF ReportedRolloutStatus, RolloutStatuses, CsStates, OpStates, OpTerminal
  <1>4. n \in Row BY <1>1, <1>2, <1>3 DEF RecordOp, Row
  <1>5. n.rolloutStatus = ReportedRolloutStatus(q, st) BY DEF RecordOp, Row
  <1> QED BY <1>3, <1>4, <1>5 DEF RecordOp, Row

\* The statements of the SSH rollout change rolloutStatus only.
LEMMA SshRow ==
    ASSUME NEW q \in Row, NEW status \in SshStatuses
    PROVE  LET m == MarkRunning(q)
               n == EndRunning(q, status)
           IN  /\ m \in Row /\ m.rolloutStatus = "RUNNING"
               /\ m.pendingOp = q.pendingOp /\ m.pendingCs = q.pendingCs /\ m.desired = q.desired
               /\ n \in Row /\ n.rolloutStatus # "RUNNING"
               /\ q.rolloutStatus # "RUNNING" => n = q
               /\ n.pendingOp = q.pendingOp /\ n.pendingCs = q.pendingCs /\ n.desired = q.desired
  <1>1. /\ MarkRunning(q) \in Row /\ MarkRunning(q).rolloutStatus = "RUNNING"
        /\ MarkRunning(q).pendingOp = q.pendingOp /\ MarkRunning(q).pendingCs = q.pendingCs
        /\ MarkRunning(q).desired = q.desired
    BY DEF MarkRunning, Row, RolloutStatuses
  <1>2. EndRunning(q, status) \in Row /\ EndRunning(q, status).rolloutStatus # "RUNNING"
    <2>1. status \in RolloutStatuses /\ status # "RUNNING" BY DEF RolloutStatuses, SshStatuses
    <2> QED BY <2>1 DEF EndRunning, Row
  <1>3. /\ q.rolloutStatus # "RUNNING" => EndRunning(q, status) = q
        /\ EndRunning(q, status).pendingOp = q.pendingOp
        /\ EndRunning(q, status).pendingCs = q.pendingCs
        /\ EndRunning(q, status).desired = q.desired
    BY DEF EndRunning, Row
  <1> QED BY <1>1, <1>2, <1>3

-----------------------------------------------------------------------------
(* Type correctness *)

RowsType == rows \in [Devices -> Row]

RunsType == /\ runs \in Seq(Run) /\ Len(runs) <= MaxRuns
            /\ \A r \in RunIds : DOMAIN runs[r].results \in {{}, Targets(r)}

WorkersType == /\ workers \in [Workers -> Worker]
               /\ \A w \in Workers : workers[w].pc # "idle" =>
                     /\ workers[w].run \in RunIds
                     /\ DOMAIN workers[w].results \in {{}, Targets(workers[w].run)}

HandlersType == /\ handlers \in [Handlers -> Handler]
                /\ \A h \in Handlers : handlers[h].pc # "idle" => handlers[h].run \in RunIds

SameTargets == \A r \in RunIds : Targets(r)' = Targets(r)

SentType == sent \in [Devices -> SUBSET Status(CsIds, CsTerminal)]

\* TypeOK by variable.
LEMMA TypeParts ==
    ASSUME RowsType', RunsType', WorkersType', HandlersType', SentType'
    PROVE  TypeOK'
  BY DEF TypeOK, RowsType, RunsType, WorkersType, HandlersType, SentType

\* A step that creates no rollout replaces rows of the table.
LEMMA RunsTypeStep ==
    ASSUME TypeOK, runs' \in [RunIds -> Run],
           \A r \in RunIds : DOMAIN runs'[r].results \in {{}, DOMAIN runs'[r].roles}
    PROVE  RunsType' /\ RunIds' = RunIds
  <1>1. runs' \in Seq(Run) /\ Len(runs') = Len(runs) /\ DOMAIN runs' = RunIds BY SameTable
  <1>2. RunIds' = RunIds BY <1>1 DEF RunIds
  <1>3. \A r \in RunIds : Targets(r)' = DOMAIN runs'[r].roles BY DEF Targets
  <1> QED BY <1>1, <1>2, <1>3 DEF RunsType, TypeOK

\* A step that leaves the table alone.
LEMMA RunsTypeSame ==
    ASSUME TypeOK, runs' = runs
    PROVE  RunsType' /\ RunIds' = RunIds /\ SameTargets
  BY DEF RunsType, TypeOK, RunIds, Targets, SameTargets

\* A worker that starts, ends or changes within its rollout.
LEMMA WorkersTypeStep ==
    ASSUME TypeOK, RunIds' = RunIds, SameTargets, NEW w \in Workers, NEW new \in Worker,
           new.pc # "idle" => new.run \in RunIds /\ DOMAIN new.results \in {{}, Targets(new.run)},
           workers' = [workers EXCEPT ![w] = new]
    PROVE  WorkersType'
  BY DEF WorkersType, TypeOK, SameTargets

\* A request, likewise.
LEMMA HandlersTypeStep ==
    ASSUME TypeOK, RunIds' = RunIds, NEW h \in Handlers, NEW new \in Handler,
           new.pc # "idle" => new.run \in RunIds,
           handlers' = [handlers EXCEPT ![h] = new]
    PROVE  HandlersType'
  BY DEF HandlersType, TypeOK

\* Workers and requests that do not move.
LEMMA ProcessesSame ==
    ASSUME TypeOK, RunIds \subseteq RunIds'
    PROVE  /\ UNCHANGED workers /\ SameTargets => WorkersType'
           /\ UNCHANGED handlers => HandlersType'
  BY DEF WorkersType, HandlersType, TypeOK, SameTargets

\* The values of the processes' initial states.
LEMMA IdleType == IdleWorker \in Worker /\ IdleHandler \in Handler
  <1>1. Cardinality(Devices) \in Nat BY FS_CardinalityType, Site
  <1>2. IdleWorker \in Worker BY <1>1, EmptyMap DEF IdleWorker, Worker
  <1> QED BY <1>2, Site DEF IdleHandler, Handler

\* Values of the column status.
LEMMA StatusNames ==
    /\ {"DRAFT", "QUEUED", "RUNNING", "STALE", "REJECTED", "completed", "failed",
        "canary_failed", "aborted", "FAILED"} = RunStatuses
    /\ \A r, results : SshRunStatus(r, results) \in {"completed", "STALE", "aborted", "canary_failed"}
    /\ \A r, d, st : ResultStatus(r, d, st) \in {"QUEUED", "completed", "failed"}
  BY DEF RunStatuses, SshRunStatus, ResultStatus

\* A retired rollout changes its status, token and age.
LEMMA AsStaleRun ==
    ASSUME NEW run \in Run
    PROVE  LET n == AsStale(run)
           IN  /\ n \in Run /\ n.status = "STALE" /\ n.claim = NoProcess
               /\ n.kind = run.kind /\ n.roles = run.roles /\ n.worker = run.worker
               /\ n.lease = run.lease /\ n.cursor = run.cursor /\ n.age = 0
               /\ n.results = run.results
  <1>0. "STALE" \in RunStatuses /\ 0 \in 0 .. FenceWindow BY Site DEF RunStatuses
  <1>1. AsStale(run) \in Run BY <1>0 DEF AsStale, Run
  <1> QED BY <1>1 DEF AsStale, Run

\* What a claim does to the table and to the devices.
LEMMA ClaimEffect ==
    ASSUME TypeOK, NEW r \in RunIds, NEW claimed \in Run, Claimable(r)
    PROVE  /\ ClaimedRuns(r, claimed) \in [RunIds -> Run]
           /\ ClaimedRuns(r, claimed)[r] = claimed
           /\ \A s \in RunIds \ {r} :
                ClaimedRuns(r, claimed)[s] = IF runs[s].status \in {"RUNNING", "DRAFT"}
                                             THEN AsStale(runs[s]) ELSE runs[s]
           /\ ClaimedRows \in [Devices -> Row]
           /\ \A d \in Devices :
                 /\ ClaimedRows[d].pendingCs = rows[d].pendingCs
                 /\ ClaimedRows[d].pendingOp = rows[d].pendingOp
                 /\ ClaimedRows[d].desired = rows[d].desired
                 /\ (\E s \in RunIds : runs[s].status = "RUNNING")
                        => ClaimedRows[d] = EndRunning(rows[d], "FAILED")
           /\ (\A s \in RunIds : runs[s].status # "RUNNING") => ClaimedRows = rows
  <1>1. runs \in [RunIds -> Run] /\ RunIds \subseteq Nat BY RunsMap
  <1>2. ASSUME NEW s \in RunIds PROVE AsStale(runs[s]) \in Run BY <1>1, AsStaleRun
  <1>3. ASSUME NEW s \in RunIds PROVE Expired(s) <=> runs[s].status = "RUNNING"
    <2>1. runs[s].age \in 0 .. FenceWindow BY <1>1 DEF Run
    <2> QED BY <2>1, Site DEF Claimable, Active, Expired
  <1>4. ASSUME NEW s \in RunIds \ {r}
        PROVE  Retired(s) <=> runs[s].status \in {"RUNNING", "DRAFT"}
    <2>1. runs[s].status = "DRAFT" => s < r BY <1>1 DEF Claimable
    <2> QED BY <1>3, <2>1 DEF Retired, Claimable
  <1>5. /\ ClaimedRuns(r, claimed) \in [RunIds -> Run]
        /\ ClaimedRuns(r, claimed)[r] = claimed
        /\ \A s \in RunIds \ {r} :
             ClaimedRuns(r, claimed)[s] = IF runs[s].status \in {"RUNNING", "DRAFT"}
                                          THEN AsStale(runs[s]) ELSE runs[s]
    BY <1>1, <1>2, <1>4 DEF ClaimedRuns
  <1>6. "FAILED" \in SshStatuses /\ rows \in [Devices -> Row] BY DEF SshStatuses, TypeOK
  <1>7. ClaimedRows \in [Devices -> Row]
    <2>1. \A d \in Devices : rows[d] \in Row /\ EndRunning(rows[d], "FAILED") \in Row BY <1>6, SshRow
    <2> QED BY <1>6, <2>1 DEF ClaimedRows
  <1>8. ASSUME NEW d \in Devices
        PROVE  /\ ClaimedRows[d].pendingCs = rows[d].pendingCs
               /\ ClaimedRows[d].pendingOp = rows[d].pendingOp
               /\ ClaimedRows[d].desired = rows[d].desired
               /\ (\E s \in RunIds : runs[s].status = "RUNNING")
                      => ClaimedRows[d] = EndRunning(rows[d], "FAILED")
    <2>1. rows[d] \in Row BY <1>6
    <2>2. /\ EndRunning(rows[d], "FAILED").pendingCs = rows[d].pendingCs
          /\ EndRunning(rows[d], "FAILED").pendingOp = rows[d].pendingOp
          /\ EndRunning(rows[d], "FAILED").desired = rows[d].desired
      BY <1>6, <2>1, SshRow
    <2>3. ClaimedRows[d] \in {rows[d], EndRunning(rows[d], "FAILED")} BY DEF ClaimedRows
    <2> QED BY <1>3, <2>2, <2>3 DEF ClaimedRows
  <1>9. (\A s \in RunIds : runs[s].status # "RUNNING") => ClaimedRows = rows
    BY <1>3 DEF ClaimedRows
  <1> QED BY <1>5, <1>7, <1>8, <1>9

\* A statement that updates one rollout.
LEMMA RunReplaced ==
    ASSUME TypeOK, NEW r \in RunIds, NEW new \in Run, runs' = [runs EXCEPT ![r] = new],
           DOMAIN new.results \in {{}, Targets(r)}, new.roles = runs[r].roles
    PROVE  /\ RunsType' /\ RunIds' = RunIds /\ SameTargets
           /\ runs' \in [RunIds -> Run] /\ runs'[r] = new
           /\ \A s \in RunIds \ {r} : runs'[s] = runs[s]
  <1>1. runs \in [RunIds -> Run] BY RunsMap
  <1>2. runs' \in [RunIds -> Run] /\ runs'[r] = new /\ \A s \in RunIds \ {r} : runs'[s] = runs[s]
    BY <1>1
  <1>3. \A s \in RunIds : DOMAIN runs[s].results \in {{}, DOMAIN runs[s].roles}
    BY DEF TypeOK, Targets
  <1>4. \A s \in RunIds : DOMAIN runs'[s].results \in {{}, DOMAIN runs'[s].roles}
    BY <1>2, <1>3 DEF Targets
  <1>5. SameTargets BY <1>2 DEF SameTargets, Targets
  <1> QED BY <1>2, <1>4, <1>5, RunsTypeStep

\* The preview: a new number, the older drafts retired, nothing else.
LEMMA DraftEffect ==
    ASSUME TypeOK, NEW kind \in Kinds, NEW targets \in TargetSets, CreateRolloutDraft(kind, targets)
    PROVE  LET n == Len(runs) + 1
           IN  /\ TypeOK' /\ RunIds' = RunIds \cup {n} /\ n \notin RunIds
               /\ SameTargets /\ \A r \in RunIds : r < n
               /\ runs'[n] = NewRun(kind, [d \in targets |-> rows[d].role])
               /\ \A r \in RunIds : runs'[r] = IF runs[r].status = "DRAFT"
                                               THEN AsStale(runs[r]) ELSE runs[r]
  <1> DEFINE n == Len(runs) + 1
             new == NewRun(kind, [d \in targets |-> rows[d].role])
             old == [r \in RunIds |-> IF runs[r].status = "DRAFT" THEN AsStale(runs[r]) ELSE runs[r]]
  <1>1. RunIds = 1 .. Len(runs) /\ Len(runs) \in Nat /\ runs \in [RunIds -> Run] BY RunsMap
  <1>2. new \in Run
    <2>1. [d \in targets |-> rows[d].role] \in Partial(Roles)
      <3>1. targets \subseteq Devices BY Site
      <3>2. \A d \in targets : rows[d].role \in Roles BY <3>1 DEF TypeOK, Row
      <3> QED BY <3>1, <3>2, PartialMap
    <2>2. Cardinality(Devices) \in Nat BY FS_CardinalityType, Site
    <2>3. << >> \in Partial(Entry) /\ 0 \in 0 .. FenceWindow /\ 0 \in 0 .. Cardinality(Devices)
      BY <2>2, EmptyMap, Site
    <2> HIDE DEF new
    <2> QED BY <2>1, <2>3 DEF new, NewRun, Run, RunStatuses
  <1>3. old \in [RunIds -> Run] BY <1>1, AsStaleRun
  <1>4. old \in Seq(Run) /\ Len(old) = Len(runs) BY <1>3, SameTable
  <1>5. runs' = Append(old, new) /\ Len(runs) < MaxRuns BY DEF CreateRolloutDraft
  <1> HIDE DEF old, new
  <1>6. /\ runs' \in Seq(Run) /\ Len(runs') = n /\ runs'[n] = new
        /\ \A r \in RunIds : runs'[r] = old[r]
    BY <1>1, <1>2, <1>4, <1>5, AppendProperties
  <1>7. RunIds' = 1 .. n BY <1>6, LenProperties DEF RunIds
  <1>8. \A r \in RunIds : /\ DOMAIN old[r].results = DOMAIN runs[r].results
                          /\ DOMAIN old[r].roles = DOMAIN runs[r].roles
    BY <1>1, AsStaleRun DEF old
  <1>9. DOMAIN new.results = {} BY EmptyMap DEF new, NewRun
  <1>10. ASSUME NEW r \in RunIds' PROVE DOMAIN runs'[r].results \in {{}, DOMAIN runs'[r].roles}
    <2>1. r \in RunIds \/ r = n BY <1>1, <1>7
    <2>2. CASE r \in RunIds
      <3>1. DOMAIN runs[r].results \in {{}, DOMAIN runs[r].roles} BY <2>2 DEF TypeOK, Targets
      <3> QED BY <1>6, <1>8, <2>2, <3>1
    <2>3. CASE r = n BY <1>6, <1>9, <2>3
    <2> QED BY <2>1, <2>2, <2>3
  <1>11. RunsType'
    <2>1. Len(runs') <= MaxRuns BY <1>1, <1>5, <1>6, Site
    <2> QED BY <1>6, <1>10, <2>1 DEF RunsType, Targets
  <1>12. SameTargets BY <1>6, <1>8 DEF SameTargets, Targets
  <1>13. UNCHANGED <<rows, workers, handlers, sent>> BY DEF CreateRolloutDraft
  <1>14. WorkersType' /\ HandlersType'
    <2>1. RunIds \subseteq RunIds' BY <1>1, <1>7
    <2> QED BY <1>12, <1>13, <2>1, ProcessesSame
  <1>15. TypeOK' BY <1>11, <1>13, <1>14, TypeParts DEF TypeOK, RowsType, SentType
  <1> QED BY <1>1, <1>6, <1>7, <1>12, <1>15 DEF old, new

\* The end of an iteration, and its continuation, stay with the rollout.
LEMMA AdvancingWorker ==
    ASSUME NEW worker \in Worker
    PROVE  /\ Settled(worker) \in Worker /\ Settled(worker).pc \in {"idle", "wait"}
           /\ Advancing(worker) \in Worker /\ Advancing(worker).pc \in {"idle", "wait", "queue"}
           /\ \A new \in {Settled(worker), Advancing(worker)} : new.pc # "idle" =>
                 new.run = worker.run /\ new.cursor = worker.cursor /\ new.results = worker.results
           /\ Advancing(worker).pc = "queue" => FailureCount(worker.results) = 0
  <1> DEFINE wait == [worker EXCEPT !.pc = "wait"]
             queue == [worker EXCEPT !.pc = "queue"]
  <1>1. /\ wait \in Worker /\ wait.pc = "wait" /\ wait.run = worker.run
        /\ wait.cursor = worker.cursor /\ wait.results = worker.results
    BY DEF Worker
  <1>2. /\ queue \in Worker /\ queue.pc = "queue" /\ queue.run = worker.run
        /\ queue.cursor = worker.cursor /\ queue.results = worker.results
    BY DEF Worker
  <1>3. IdleWorker.pc = "idle" BY DEF IdleWorker
  <1>4. Settled(worker) \in {IdleWorker, wait} BY DEF Settled
  <1>5. \/ Advancing(worker) = Settled(worker)
        \/ Advancing(worker) = queue /\ FailureCount(worker.results) = 0
    BY DEF Advancing, canAdvancePhase
  <1> HIDE DEF wait, queue
  <1> QED BY <1>1, <1>2, <1>3, <1>4, <1>5, IdleType

\* Handing out a phase marks one entry of the copy.
LEMMA HandedOutWorker ==
    ASSUME NEW worker \in Worker, NEW d \in DOMAIN worker.results
    PROVE  LET n == [worker EXCEPT !.pc = "results", !.results[d].status = "QUEUED"]
           IN  /\ n \in Worker /\ n.pc = "results" /\ n.run = worker.run /\ n.cursor = worker.cursor
               /\ n.results = [worker.results EXCEPT ![d].status = "QUEUED"]
               /\ DOMAIN n.results = DOMAIN worker.results
               /\ n.results[d].cs = worker.results[d].cs /\ n.results[d].status = "QUEUED"
               /\ \A e \in DOMAIN worker.results \ {d} : n.results[e] = worker.results[e]
  <1> DEFINE n == [worker EXCEPT !.pc = "results", !.results[d].status = "QUEUED"]
             new == [worker.results EXCEPT ![d].status = "QUEUED"]
  <1>1. worker.results \in Partial(Entry) BY DEF Worker
  <1>2. DOMAIN worker.results \subseteq Devices /\ worker.results \in [DOMAIN worker.results -> Entry]
    BY <1>1, PartialMap
  <1>3. new \in [DOMAIN worker.results -> Entry] BY <1>2 DEF Entry
  <1>4. new \in Partial(Entry) BY <1>2, <1>3, PartialMap
  <1>5. /\ n.pc = "results" /\ n.run = worker.run /\ n.cursor = worker.cursor
        /\ n.seen = worker.seen /\ n.results = new
    BY DEF Worker
  <1>6. n \in Worker BY <1>4, <1>5 DEF Worker
  <1>7. /\ DOMAIN new = DOMAIN worker.results
        /\ new[d].cs = worker.results[d].cs /\ new[d].status = "QUEUED"
        /\ \A e \in DOMAIN worker.results \ {d} : new[e] = worker.results[e]
    BY <1>2 DEF Entry
  <1> HIDE DEF n, new
  <1> QED BY <1>5, <1>6, <1>7 DEF n, new

\* The fields of a rollout that no step of a worker or a request changes, and
\* those that only a claim, a lease or a result changes.
SamePlan(r) == runs'[r].kind = runs[r].kind /\ runs'[r].roles = runs[r].roles

SameClaim(r) == /\ SamePlan(r) /\ runs'[r].status = runs[r].status
                /\ runs'[r].claim = runs[r].claim

SameLease(r) == runs'[r].lease = runs[r].lease /\ runs'[r].worker = runs[r].worker

SameResults(r) == runs'[r].results = runs[r].results /\ runs'[r].cursor = runs[r].cursor

OthersSame(r) == \A s \in RunIds \ {r} : runs'[s] = runs[s]

Reclaimed(run, status, claim) == [run EXCEPT !.status = status, !.claim = claim, !.age = 0]

\* A rollout that a request claims or releases.
LEMMA ReclaimedRun ==
    ASSUME NEW run \in Run, NEW status \in RunStatuses, NEW claim \in Handlers \cup {NoProcess}
    PROVE  LET n == Reclaimed(run, status, claim)
           IN  /\ n \in Run /\ n.kind = run.kind /\ n.roles = run.roles
               /\ n.lease = run.lease /\ n.worker = run.worker
               /\ n.results = run.results /\ n.cursor = run.cursor
               /\ n.status = status /\ n.claim = claim /\ n.age = 0
  <1> DEFINE n == Reclaimed(run, status, claim)
  <1>1. 0 \in 0 .. FenceWindow BY Site
  <1>2. n \in Run BY <1>1 DEF Run, Reclaimed
  <1>3. /\ n.kind = run.kind /\ n.roles = run.roles /\ n.lease = run.lease
        /\ n.worker = run.worker /\ n.results = run.results /\ n.cursor = run.cursor
        /\ n.status = status /\ n.claim = claim /\ n.age = 0
    BY DEF Run, Reclaimed
  <1> QED BY <1>2, <1>3

Ended(run, status, results) ==
    [run EXCEPT !.status = status, !.claim = NoProcess, !.age = 0, !.results = results]

\* A rollout that a request ends with results.
LEMMA EndedRun ==
    ASSUME NEW run \in Run, NEW status \in RunStatuses, NEW results \in Partial(Entry)
    PROVE  LET n == Ended(run, status, results)
           IN  /\ n \in Run /\ n.kind = run.kind /\ n.roles = run.roles
               /\ n.lease = run.lease /\ n.worker = run.worker
               /\ n.results = results /\ n.cursor = run.cursor
               /\ n.status = status /\ n.claim = NoProcess /\ n.age = 0
  <1> DEFINE n == Ended(run, status, results)
  <1>1. 0 \in 0 .. FenceWindow BY Site
  <1>2. n \in Run BY <1>1 DEF Run, Ended
  <1>3. /\ n.kind = run.kind /\ n.roles = run.roles /\ n.lease = run.lease
        /\ n.worker = run.worker /\ n.results = results /\ n.cursor = run.cursor
        /\ n.status = status /\ n.claim = NoProcess /\ n.age = 0
    BY DEF Run, Ended
  <1> QED BY <1>2, <1>3

\* A draft that is rejected.
LEMMA RejectEffect ==
    ASSUME TypeOK, NEW r \in RunIds, RejectRolloutDraft(r)
    PROVE  /\ TypeOK' /\ RunIds' = RunIds /\ OthersSame(r) /\ SamePlan(r) /\ SameLease(r)
           /\ runs[r].status = "DRAFT" /\ runs'[r].status = "REJECTED"
           /\ runs'[r].cursor = runs[r].cursor /\ runs'[r].results = << >>
           /\ UNCHANGED <<rows, workers, handlers, sent, recording>>
  <1>0. runs \in [RunIds -> Run] BY RunsMap
  <1> DEFINE new == [runs[r] EXCEPT !.status = "REJECTED", !.results = << >>, !.age = 0]
  <1>1. runs' = [runs EXCEPT ![r] = new] BY <1>0 DEF RejectRolloutDraft, Run
  <1>2. "REJECTED" \in RunStatuses /\ 0 \in 0 .. FenceWindow /\ << >> \in Partial(Entry)
    BY Site, EmptyMap DEF RunStatuses
  <1>3. new \in Run BY <1>0, <1>2 DEF Run
  <1>4. /\ new.results = << >> /\ new.roles = runs[r].roles /\ new.kind = runs[r].kind
        /\ new.lease = runs[r].lease /\ new.worker = runs[r].worker
        /\ new.cursor = runs[r].cursor /\ new.status = "REJECTED"
    BY <1>0 DEF Run
  <1> HIDE DEF new
  <1>5. RunsType' /\ RunIds' = RunIds /\ SameTargets /\ runs'[r] = new /\ OthersSame(r)
    BY <1>1, <1>3, <1>4, EmptyMap, RunReplaced DEF OthersSame
  <1>6. UNCHANGED <<rows, workers, handlers, sent, recording>> /\ runs[r].status = "DRAFT"
    BY DEF RejectRolloutDraft
  <1>7. WorkersType' /\ HandlersType' BY <1>5, <1>6, ProcessesSame
  <1>8. TypeOK' BY <1>5, <1>6, <1>7, TypeParts DEF TypeOK, RowsType, SentType
  <1> QED BY <1>4, <1>5, <1>6, <1>8 DEF SamePlan, SameLease

FirstEntries(r, d) ==
    [e \in Targets(r) |-> [NoResult EXCEPT !.status = IF e = d THEN "QUEUED" ELSE "WAITING"]]

\* The claim of a change set rollout, with the change set of its first device.
LEMMA FirstPhaseEffect ==
    ASSUME TypeOK, NEW r \in RunIds, ClaimAndQueueDeviceChangeSets(r)
    PROVE  /\ TypeOK' /\ RunIds' = RunIds /\ SamePlan(r) /\ SameLease(r)
           /\ Claimable(r) /\ runs[r].kind = "changeset"
           /\ runs'[r].status = "QUEUED" /\ runs'[r].cursor = runs[r].cursor
           /\ \A s \in RunIds \ {r} : runs'[s] = IF runs[s].status \in {"RUNNING", "DRAFT"}
                                              THEN AsStale(runs[s]) ELSE runs[s]
           /\ \E d \in Targets(r) :
                /\ Phase(r, d) = 0 /\ ClaimedRows[d].role = runs[r].roles[d]
                /\ CanQueueCs(ClaimedRows[d], ChangeSet(r), FALSE) /\ rows[d].desired < MaxGen
                /\ rows' = [ClaimedRows EXCEPT ![d] = QueueCs(@, ChangeSet(r))]
                /\ runs'[r].results = FirstEntries(r, d)
           /\ UNCHANGED <<workers, handlers, sent, recording>>
  <1>0. runs \in [RunIds -> Run] /\ RunIds \subseteq CsIds BY RunsMap
  <1>1. PICK d \in Targets(r) :
          /\ Phase(r, d) = 0 /\ ClaimedRows[d].role = runs[r].roles[d]
          /\ CanQueueCs(ClaimedRows[d], ChangeSet(r), FALSE) /\ rows[d].desired < MaxGen
          /\ rows' = [ClaimedRows EXCEPT ![d] = QueueCs(@, ChangeSet(r))]
          /\ runs' = ClaimedRuns(r, Ended(runs[r], "QUEUED", FirstEntries(r, d)))
    BY DEF ClaimAndQueueDeviceChangeSets, Ended, FirstEntries
  <1> DEFINE results == FirstEntries(r, d)
             new == Ended(runs[r], "QUEUED", results)
  <1>2. Claimable(r) /\ runs[r].kind = "changeset" BY DEF ClaimAndQueueDeviceChangeSets
  <1>3. Targets(r) \subseteq Devices BY RunsMap
  <1>4. results \in [Targets(r) -> Entry] BY DEF FirstEntries, NoResult, Entry
  <1>5. results \in Partial(Entry) BY <1>3, <1>4, PartialMap
  <1>6. DOMAIN results = Targets(r) BY DEF FirstEntries
  <1>7. "QUEUED" \in RunStatuses BY DEF RunStatuses
  <1>8. /\ new \in Run /\ new.results = results /\ new.roles = runs[r].roles
        /\ new.kind = runs[r].kind /\ new.lease = runs[r].lease /\ new.worker = runs[r].worker
        /\ new.cursor = runs[r].cursor /\ new.status = "QUEUED"
    BY <1>0, <1>5, <1>7, EndedRun
  <1>9. runs' = ClaimedRuns(r, new) BY <1>1
  <1> HIDE DEF new, results
  <1>10. /\ runs' \in [RunIds -> Run] /\ runs'[r] = new
         /\ \A s \in RunIds \ {r} : runs'[s] = IF runs[s].status \in {"RUNNING", "DRAFT"}
                                            THEN AsStale(runs[s]) ELSE runs[s]
    BY <1>2, <1>8, <1>9, ClaimEffect
  <1>11. \A s \in RunIds : DOMAIN runs[s].results \in {{}, DOMAIN runs[s].roles}
    BY DEF TypeOK, Targets
  <1>12. \A s \in RunIds : DOMAIN runs'[s].results \in {{}, DOMAIN runs'[s].roles}
    BY <1>0, <1>6, <1>8, <1>10, <1>11, AsStaleRun DEF Targets
  <1>13. RunsType' /\ RunIds' = RunIds /\ SameTargets
    <2>1. \A s \in RunIds : runs'[s].roles = runs[s].roles BY <1>0, <1>8, <1>10, AsStaleRun
    <2> QED BY <1>10, <1>12, <2>1, RunsTypeStep DEF SameTargets, Targets
  <1>14. RowsType'
    <2>1. ClaimedRows \in [Devices -> Row] BY <1>2, <1>8, ClaimEffect
    <2>2. d \in Devices BY <1>3
    <2>3. QueueCs(ClaimedRows[d], ChangeSet(r)) \in Row BY <1>0, <2>1, <2>2, QueueCsRow
    <2> QED BY <1>1, <2>1, <2>3 DEF RowsType
  <1>15. UNCHANGED <<workers, handlers, sent, recording>> BY DEF ClaimAndQueueDeviceChangeSets
  <1>16. WorkersType' /\ HandlersType' BY <1>13, <1>15, ProcessesSame
  <1>17. TypeOK' BY <1>13, <1>14, <1>15, <1>16, TypeParts DEF TypeOK, SentType
  <1>18. runs'[r].results = FirstEntries(r, d) BY <1>8, <1>10 DEF results
  <1>19. SamePlan(r) /\ SameLease(r) BY <1>8, <1>10 DEF SamePlan, SameLease
  <1> QED BY <1>1, <1>2, <1>8, <1>10, <1>13, <1>15, <1>17, <1>18, <1>19

\* A lease that runs out.
LEMMA ExpireEffect ==
    ASSUME TypeOK, NEW r \in RunIds, LeaseExpires(r)
    PROVE  /\ TypeOK' /\ RunIds' = RunIds /\ OthersSame(r) /\ SameClaim(r) /\ SameResults(r)
           /\ runs'[r].age = runs[r].age /\ runs'[r].lease = "expired" /\ LiveLease(r)
           /\ runs'[r].worker = runs[r].worker
           /\ UNCHANGED <<rows, workers, handlers, sent, recording>>
  <1>0. runs \in [RunIds -> Run] BY RunsMap
  <1> DEFINE new == [runs[r] EXCEPT !.lease = "expired"]
  <1>1. runs' = [runs EXCEPT ![r] = new] BY <1>0 DEF LeaseExpires, Run
  <1>2. new \in Run BY <1>0 DEF Run
  <1>3. /\ new.results = runs[r].results /\ new.roles = runs[r].roles /\ new.kind = runs[r].kind
        /\ new.status = runs[r].status /\ new.claim = runs[r].claim /\ new.worker = runs[r].worker
        /\ new.cursor = runs[r].cursor /\ new.age = runs[r].age /\ new.lease = "expired"
    BY <1>0 DEF Run
  <1> HIDE DEF new
  <1>4. DOMAIN new.results \in {{}, Targets(r)} BY <1>3 DEF TypeOK
  <1>5. RunsType' /\ RunIds' = RunIds /\ SameTargets /\ runs'[r] = new /\ OthersSame(r)
    BY <1>1, <1>2, <1>3, <1>4, RunReplaced DEF OthersSame
  <1>6. UNCHANGED <<rows, workers, handlers, sent, recording>> /\ LiveLease(r) BY DEF LeaseExpires
  <1>7. WorkersType' /\ HandlersType' BY <1>5, <1>6, ProcessesSame
  <1>8. TypeOK' BY <1>5, <1>6, <1>7, TypeParts DEF TypeOK, RowsType, SentType
  <1> QED BY <1>3, <1>5, <1>6, <1>8 DEF SameClaim, SamePlan, SameResults

\* The lease: one candidate becomes RUNNING, with the worker's token.
LEMMA LeaseEffect ==
    ASSUME TypeOK, NEW w \in Workers, ClaimQueuedRollout(w)
    PROVE  /\ TypeOK' /\ RunIds' = RunIds
           /\ \E r \in RunIds :
                /\ LeaseCandidate(r) /\ SiteUnleased /\ OthersSame(r)
                /\ SamePlan(r) /\ SameResults(r) /\ runs'[r].claim = runs[r].claim
                /\ runs'[r].status = "RUNNING" /\ runs'[r].worker = w /\ runs'[r].lease = "live"
                /\ runs'[r].age = 0
                /\ workers[w].pc = "idle"
                /\ workers' = [workers EXCEPT ![w] = workers'[w]]
                /\ workers'[w].pc = "read" /\ workers'[w].run = r
                /\ workers'[w].cursor = runs[r].cursor
           /\ UNCHANGED <<rows, handlers, sent, recording>>
  <1>0. runs \in [RunIds -> Run] /\ RunIds \subseteq Nat BY RunsMap
  <1>1. PICK r \in RunIds :
          /\ LeaseCandidate(r)
          /\ runs' = [runs EXCEPT ![r].status = "RUNNING", ![r].worker = w,
                                  ![r].lease = "live", ![r].age = 0]
          /\ workers' = [workers EXCEPT ![w] =
                [IdleWorker EXCEPT !.pc = "read", !.run = r, !.cursor = runs[r].cursor]]
    BY DEF ClaimQueuedRollout
  <1> DEFINE new == [runs[r] EXCEPT !.status = "RUNNING", !.worker = w, !.lease = "live", !.age = 0]
             worker == [IdleWorker EXCEPT !.pc = "read", !.run = r, !.cursor = runs[r].cursor]
  <1>2. runs' = [runs EXCEPT ![r] = new] BY <1>0, <1>1 DEF Run
  <1>3. "RUNNING" \in RunStatuses /\ 0 \in 0 .. FenceWindow BY Site DEF RunStatuses
  <1>4. new \in Run BY <1>0, <1>3 DEF Run
  <1>5. /\ new.kind = runs[r].kind /\ new.roles = runs[r].roles /\ new.claim = runs[r].claim
        /\ new.results = runs[r].results /\ new.cursor = runs[r].cursor
        /\ new.status = "RUNNING" /\ new.worker = w /\ new.lease = "live" /\ new.age = 0
    BY <1>0 DEF Run
  <1> HIDE DEF new
  <1>6. DOMAIN new.results \in {{}, Targets(r)} BY <1>5 DEF TypeOK
  <1>7. RunsType' /\ RunIds' = RunIds /\ SameTargets /\ runs'[r] = new /\ OthersSame(r)
    BY <1>2, <1>4, <1>5, <1>6, RunReplaced DEF OthersSame
  <1>8. worker \in Worker
    <2>1. IdleWorker \in Worker /\ runs[r].cursor \in 0 .. Cardinality(Devices) BY <1>0, IdleType DEF Run
    <2> QED BY <1>0, <2>1 DEF Worker
  <1>9. /\ worker.pc = "read" /\ worker.run = r /\ worker.cursor = runs[r].cursor
        /\ DOMAIN worker.results = {}
    BY EmptyMap DEF IdleWorker
  <1> HIDE DEF worker
  <1>10. workers' = [workers EXCEPT ![w] = worker] BY <1>1 DEF worker
  <1>11. workers'[w] = worker BY <1>10 DEF TypeOK
  <1>12. WorkersType' BY <1>7, <1>8, <1>9, <1>10, WorkersTypeStep
  <1>13. UNCHANGED <<rows, handlers, sent, recording>> /\ workers[w].pc = "idle" /\ SiteUnleased
    BY DEF ClaimQueuedRollout
  <1>14. HandlersType' BY <1>7, <1>13, ProcessesSame
  <1>15. TypeOK' BY <1>7, <1>12, <1>13, <1>14, TypeParts DEF TypeOK, RowsType, SentType
  <1>16. /\ LeaseCandidate(r) /\ SiteUnleased /\ OthersSame(r)
         /\ SamePlan(r) /\ SameResults(r) /\ runs'[r].claim = runs[r].claim
         /\ runs'[r].status = "RUNNING" /\ runs'[r].worker = w /\ runs'[r].lease = "live"
         /\ runs'[r].age = 0
    BY <1>1, <1>5, <1>7, <1>13 DEF SamePlan, SameResults
  <1>17. /\ workers[w].pc = "idle" /\ workers' = [workers EXCEPT ![w] = workers'[w]]
         /\ workers'[w].pc = "read" /\ workers'[w].run = r
         /\ workers'[w].cursor = runs[r].cursor
    BY <1>9, <1>10, <1>11, <1>13
  <1> QED BY <1>7, <1>13, <1>15, <1>16, <1>17

\* A read takes a copy; the table stays.
LEMMA ReadEffect ==
    ASSUME TypeOK, NEW w \in Workers, ReadProgress(w)
    PROVE  LET r == workers[w].run
               read == [workers[w] EXCEPT !.seen = runs[r].status, !.results = runs[r].results]
           IN  /\ TypeOK' /\ r \in RunIds /\ read \in Worker /\ workers[w].pc = "read"
               /\ read.run = r /\ read.cursor = workers[w].cursor /\ read.results = runs[r].results
               /\ workers' = [workers EXCEPT ![w] = workers'[w]]
               /\ \/ workers'[w] = [read EXCEPT !.pc = "cursor"]
                  \/ workers'[w] = Advancing(read) /\ ~(TerminalCount(read.results) > read.cursor)
               /\ UNCHANGED <<rows, runs, handlers, sent, recording>>
  <1> DEFINE r == workers[w].run
             read == [workers[w] EXCEPT !.seen = runs[r].status, !.results = runs[r].results]
             new == IF TerminalCount(read.results) > read.cursor
                    THEN [read EXCEPT !.pc = "cursor"] ELSE Advancing(read)
  <1>0. runs \in [RunIds -> Run] BY RunsMap
  <1>1. workers[w].pc = "read" /\ workers[w] \in Worker /\ r \in RunIds
    BY DEF ReadProgress, TypeOK
  <1>2. read \in Worker /\ read.run = r /\ read.cursor = workers[w].cursor
        /\ read.results = runs[r].results
    BY <1>0, <1>1 DEF Worker, Run
  <1>3. workers' = [workers EXCEPT ![w] = new] /\ UNCHANGED <<rows, runs, handlers, sent, recording>>
    BY DEF ReadProgress
  <1> HIDE DEF read
  <1>4. /\ [read EXCEPT !.pc = "cursor"] \in Worker /\ [read EXCEPT !.pc = "cursor"].run = r
        /\ [read EXCEPT !.pc = "cursor"].results = read.results
    BY <1>2 DEF Worker
  <1>5. /\ Advancing(read) \in Worker
        /\ Advancing(read).pc # "idle" =>
              Advancing(read).run = r /\ Advancing(read).results = read.results
    BY <1>2, AdvancingWorker
  <1>6. /\ new \in Worker
        /\ new.pc # "idle" => new.run \in RunIds /\ DOMAIN new.results \in {{}, Targets(new.run)}
    BY <1>1, <1>2, <1>4, <1>5 DEF TypeOK
  <1>7. RunsType' /\ RunIds' = RunIds /\ SameTargets BY <1>3, RunsTypeSame
  <1>8. WorkersType' BY <1>3, <1>6, <1>7, WorkersTypeStep
  <1>9. HandlersType' BY <1>3, <1>7, ProcessesSame
  <1>10. TypeOK' BY <1>3, <1>7, <1>8, <1>9, TypeParts DEF TypeOK, RowsType, SentType
  <1>11. workers'[w] = new BY <1>3 DEF TypeOK
  <1> QED BY <1>1, <1>2, <1>3, <1>10, <1>11 DEF read

\* A step of one worker on its own rollout keeps the types.
LEMMA WorkerUpdate ==
    ASSUME TypeOK, NEW w \in Workers, workers[w].pc # "idle",
           NEW run \in Run, run.roles = runs[workers[w].run].roles,
           DOMAIN run.results \in {{}, Targets(workers[w].run)},
           runs' = [runs EXCEPT ![workers[w].run] = run],
           NEW worker \in Worker,
           worker.pc # "idle" => /\ worker.run = workers[w].run
                                 /\ DOMAIN worker.results \in {{}, Targets(workers[w].run)},
           workers' = [workers EXCEPT ![w] = worker],
           UNCHANGED <<rows, handlers, sent>>
    PROVE  /\ TypeOK' /\ RunIds' = RunIds /\ workers[w].run \in RunIds
           /\ runs'[workers[w].run] = run /\ OthersSame(workers[w].run)
           /\ workers'[w] = worker
  <1>1. workers[w].run \in RunIds BY DEF TypeOK
  <1>2. /\ RunsType' /\ RunIds' = RunIds /\ SameTargets
        /\ runs'[workers[w].run] = run /\ OthersSame(workers[w].run)
    BY <1>1, RunReplaced DEF OthersSame
  <1>3. WorkersType' BY <1>1, <1>2, WorkersTypeStep
  <1>4. HandlersType' BY <1>2, ProcessesSame
  <1>5. TypeOK' BY <1>2, <1>3, <1>4, TypeParts DEF TypeOK, RowsType, SentType
  <1>6. workers'[w] = worker BY DEF TypeOK
  <1> QED BY <1>1, <1>2, <1>5, <1>6

\* A fenced statement of the worker: its rollout keeps claim and lease.
LEMMA FencedEffect ==
    ASSUME TypeOK, NEW w \in Workers,
           UpdateRolloutWorkerCursor(w) \/ UpdateRolloutWorkerResults(w) \/ RenewRolloutLease(w)
    PROVE  LET r == workers[w].run
           IN  /\ TypeOK' /\ RunIds' = RunIds /\ r \in RunIds
               /\ workers[w].pc \in {"cursor", "results", "wait"}
               /\ workers' = [workers EXCEPT ![w] = workers'[w]]
               /\ OthersSame(r) /\ SameClaim(r) /\ SameLease(r)
               /\ runs'[r].age \in {0, runs[r].age}
               /\ \/ workers'[w] = IdleWorker /\ runs'[r] = runs[r]
                  \/ Fenced(w) /\ workers[w].pc = "cursor"
                     /\ LET count == TerminalCount(workers[w].results)
                        IN  /\ runs'[r].results = runs[r].results
                            /\ runs'[r].cursor = Greatest(runs[r].cursor, count)
                            /\ workers'[w] = Advancing([workers[w] EXCEPT !.cursor = count])
                  \/ Fenced(w) /\ workers[w].pc = "results"
                     /\ runs'[r].results = workers[w].results /\ runs'[r].cursor = runs[r].cursor
                     /\ workers'[w] = Settled(workers[w])
                  \/ Fenced(w) /\ workers[w].pc = "wait"
                     /\ runs'[r].results = runs[r].results /\ runs'[r].cursor = runs[r].cursor
                     /\ workers'[w] = [workers[w] EXCEPT !.pc = "read"]
               /\ UNCHANGED <<rows, handlers, sent, recording>>
  <1> DEFINE r == workers[w].run
             count == TerminalCount(workers[w].results)
             counted == [workers[w] EXCEPT !.cursor = count]
  <1>0. /\ runs \in [RunIds -> Run] /\ r \in RunIds /\ runs[r] \in Run /\ workers[w] \in Worker
        /\ workers[w].pc \in {"cursor", "results", "wait"} /\ w \in DOMAIN workers
        /\ DOMAIN runs[r].results \in {{}, Targets(r)} /\ DOMAIN workers[w].results \in {{}, Targets(r)}
        /\ UNCHANGED <<rows, handlers, sent, recording>>
    BY RunsMap DEF UpdateRolloutWorkerCursor, UpdateRolloutWorkerResults, RenewRolloutLease, TypeOK
  <1>z. 0 \in 0 .. FenceWindow /\ IdleWorker.pc = "idle" BY Site DEF IdleWorker
  <1>1. CASE runs' = runs /\ workers' = [workers EXCEPT ![w] = IdleWorker]
    <2>1. runs' = [runs EXCEPT ![r] = runs[r]] BY <1>0, <1>1
    <2>2. /\ TypeOK' /\ RunIds' = RunIds /\ runs'[r] = runs[r] /\ OthersSame(r)
          /\ workers'[w] = IdleWorker
      BY <1>0, <1>z, <1>1, <2>1, IdleType, WorkerUpdate
    <2> QED BY <1>0, <1>1, <2>2 DEF SameClaim, SamePlan, SameLease
  <1>2. CASE Fenced(w) /\ UpdateRolloutWorkerCursor(w)
    <2> DEFINE new == [runs[r] EXCEPT !.cursor = Greatest(@, count), !.age = 0]
    <2>1. /\ workers[w].pc = "cursor" /\ runs' = [runs EXCEPT ![r].cursor = Greatest(@, count), ![r].age = 0]
          /\ workers' = [workers EXCEPT ![w] = Advancing(counted)]
      BY <1>0, <1>2 DEF UpdateRolloutWorkerCursor
    <2>2. runs' = [runs EXCEPT ![r] = new] BY <1>0, <2>1
    <2>3. count \in 0 .. Cardinality(Devices) BY <1>0, CountType DEF Worker
    <2> HIDE DEF count
    <2>4. Greatest(runs[r].cursor, count) \in 0 .. Cardinality(Devices)
      BY <1>0, <2>3 DEF Greatest, Run
    <2>5. /\ new \in Run /\ new.kind = runs[r].kind /\ new.roles = runs[r].roles
          /\ new.status = runs[r].status /\ new.claim = runs[r].claim /\ new.lease = runs[r].lease
          /\ new.worker = runs[r].worker /\ new.results = runs[r].results
          /\ new.cursor = Greatest(runs[r].cursor, count) /\ new.age = 0
      BY <1>0, <1>z, <2>4 DEF Run
    <2>6. /\ counted \in Worker /\ counted.run = r /\ counted.results = workers[w].results
      BY <1>0, <2>3 DEF Worker
    <2> HIDE DEF new, counted
    <2>7. /\ Advancing(counted) \in Worker
          /\ Advancing(counted).pc # "idle" => /\ Advancing(counted).run = r
                                               /\ Advancing(counted).results = workers[w].results
      BY <2>6, AdvancingWorker
    <2>8. /\ TypeOK' /\ RunIds' = RunIds /\ runs'[r] = new /\ OthersSame(r)
          /\ workers'[w] = Advancing(counted)
      BY <1>0, <2>1, <2>2, <2>5, <2>7, WorkerUpdate
    <2>9. workers' = [workers EXCEPT ![w] = workers'[w]] BY <2>1, <2>8
    <2> QED BY <1>0, <1>2, <2>1, <2>5, <2>8, <2>9 DEF SameClaim, SamePlan, SameLease, count, counted
  <1>3. CASE Fenced(w) /\ UpdateRolloutWorkerResults(w)
    <2> DEFINE new == [runs[r] EXCEPT !.results = workers[w].results, !.age = 0]
    <2>1. /\ workers[w].pc = "results" /\ workers' = [workers EXCEPT ![w] = Settled(workers[w])]
          /\ runs' = [runs EXCEPT ![r].results = workers[w].results, ![r].age = 0]
      BY <1>0, <1>3 DEF UpdateRolloutWorkerResults
    <2>2. runs' = [runs EXCEPT ![r] = new] BY <1>0, <2>1
    <2>3. /\ new \in Run /\ new.kind = runs[r].kind /\ new.roles = runs[r].roles
          /\ new.status = runs[r].status /\ new.claim = runs[r].claim /\ new.lease = runs[r].lease
          /\ new.worker = runs[r].worker /\ new.results = workers[w].results
          /\ new.cursor = runs[r].cursor /\ new.age = 0
      BY <1>0, <1>z DEF Run, Worker
    <2> HIDE DEF new
    <2>4. /\ Settled(workers[w]) \in Worker
          /\ Settled(workers[w]).pc # "idle" => /\ Settled(workers[w]).run = r
                                                /\ Settled(workers[w]).results = workers[w].results
      BY <1>0, AdvancingWorker
    <2>5. /\ TypeOK' /\ RunIds' = RunIds /\ runs'[r] = new /\ OthersSame(r)
          /\ workers'[w] = Settled(workers[w])
      BY <1>0, <2>1, <2>2, <2>3, <2>4, WorkerUpdate
    <2>6. workers' = [workers EXCEPT ![w] = workers'[w]] BY <2>1, <2>5
    <2> QED BY <1>0, <1>3, <2>1, <2>3, <2>5, <2>6 DEF SameClaim, SamePlan, SameLease
  <1>4. CASE Fenced(w) /\ RenewRolloutLease(w)
    <2> DEFINE new == [runs[r] EXCEPT !.age = 0]
               worker == [workers[w] EXCEPT !.pc = "read"]
    <2>1. /\ workers[w].pc = "wait" /\ workers' = [workers EXCEPT ![w] = worker]
          /\ runs' = [runs EXCEPT ![r] = new]
      BY <1>0, <1>4 DEF RenewRolloutLease
    <2>2. /\ new \in Run /\ new.kind = runs[r].kind /\ new.roles = runs[r].roles
          /\ new.status = runs[r].status /\ new.claim = runs[r].claim /\ new.lease = runs[r].lease
          /\ new.worker = runs[r].worker /\ new.results = runs[r].results
          /\ new.cursor = runs[r].cursor /\ new.age = 0
      BY <1>0, <1>z DEF Run
    <2>3. worker \in Worker /\ worker.run = r /\ worker.results = workers[w].results
      BY <1>0 DEF Worker
    <2> HIDE DEF new, worker
    <2>4. /\ TypeOK' /\ RunIds' = RunIds /\ runs'[r] = new /\ OthersSame(r) /\ workers'[w] = worker
      BY <1>0, <2>1, <2>2, <2>3, WorkerUpdate
    <2>5. workers' = [workers EXCEPT ![w] = workers'[w]] BY <2>1, <2>4
    <2> QED BY <1>0, <1>4, <2>1, <2>2, <2>4, <2>5 DEF SameClaim, SamePlan, SameLease, worker
  <1>5. \/ runs' = runs /\ workers' = [workers EXCEPT ![w] = IdleWorker]
        \/ Fenced(w) /\ UpdateRolloutWorkerCursor(w)
        \/ Fenced(w) /\ UpdateRolloutWorkerResults(w)
        \/ Fenced(w) /\ RenewRolloutLease(w)
    BY DEF UpdateRolloutWorkerCursor, UpdateRolloutWorkerResults, RenewRolloutLease, Exit
  <1> QED BY <1>1, <1>2, <1>3, <1>4, <1>5

\* The next phase: nothing to hand out, or the change set of one device.
LEMMA QueueEffect ==
    ASSUME TypeOK, NEW w \in Workers, QueueNextPhase(w)
    PROVE  LET worker == workers[w]
               r == worker.run
               handedOut(d) == [worker EXCEPT !.pc = "results", !.results[d].status = "QUEUED"]
               next(d) == Phase(r, d) = worker.cursor /\ worker.results[d].status = "WAITING"
           IN  /\ TypeOK' /\ r \in RunIds /\ worker.pc = "queue"
               /\ workers' = [workers EXCEPT ![w] = workers'[w]]
               /\ \/ rows' = rows /\ workers'[w] \in {IdleWorker, Settled(worker)}
                  \/ \E d \in DOMAIN worker.results :
                       /\ next(d) /\ workers'[w] = handedOut(d)
                       /\ rows' = rows
                  \/ \E d \in DOMAIN worker.results :
                       /\ next(d) /\ workers'[w] = handedOut(d)
                       /\ runs[r].status = "RUNNING" /\ rows[d].role = runs[r].roles[d]
                       /\ CanQueueCs(rows[d], ChangeSet(r), OtherActive(r))
                       /\ rows[d].desired < MaxGen
                       /\ rows' = [rows EXCEPT ![d] = QueueCs(@, ChangeSet(r))]
               /\ UNCHANGED <<runs, handlers, sent, recording>>
  <1> DEFINE worker == workers[w]
             r == worker.run
             handedOut(d) == [worker EXCEPT !.pc = "results", !.results[d].status = "QUEUED"]
             next(d) == Phase(r, d) = worker.cursor /\ worker.results[d].status = "WAITING"
  <1>0. /\ worker.pc = "queue" /\ worker \in Worker /\ r \in RunIds
        /\ DOMAIN worker.results \in {{}, Targets(r)}
        /\ UNCHANGED <<runs, handlers, sent, recording>>
    BY DEF QueueNextPhase, TypeOK
  <1>r. RunsType' /\ RunIds' = RunIds /\ SameTargets BY <1>0, RunsTypeSame
  <1>t. ASSUME NEW new \in Worker, workers' = [workers EXCEPT ![w] = new], RowsType',
               new.pc # "idle" => new.run = r /\ DOMAIN new.results \in {{}, Targets(r)}
        PROVE  TypeOK' /\ workers'[w] = new /\ workers' = [workers EXCEPT ![w] = workers'[w]]
    <2>1. WorkersType' BY <1>0, <1>r, <1>t, WorkersTypeStep
    <2>2. HandlersType' BY <1>0, <1>r, ProcessesSame
    <2>3. workers'[w] = new BY <1>t DEF TypeOK
    <2>4. TypeOK' BY <1>0, <1>r, <1>t, <2>1, <2>2, TypeParts DEF TypeOK, SentType
    <2> QED BY <1>t, <2>3, <2>4
  <1>i. IdleWorker \in Worker /\ IdleWorker.pc = "idle" BY IdleType DEF IdleWorker
  <1>s. /\ Settled(worker) \in Worker
        /\ Settled(worker).pc # "idle" =>
              Settled(worker).run = r /\ DOMAIN Settled(worker).results \in {{}, Targets(r)}
    BY <1>0, AdvancingWorker
  <1>h. ASSUME NEW d \in DOMAIN worker.results
        PROVE  /\ handedOut(d) \in Worker /\ handedOut(d).run = r
               /\ DOMAIN handedOut(d).results \in {{}, Targets(r)}
    BY <1>0, HandedOutWorker
  <1>q. \/ rows' = rows /\ workers' = [workers EXCEPT ![w] = Settled(worker)]
        \/ rows' = rows /\ workers' = [workers EXCEPT ![w] = IdleWorker]
        \/ \E d \in DOMAIN worker.results :
             next(d) /\ rows' = rows /\ workers' = [workers EXCEPT ![w] = handedOut(d)]
        \/ \E d \in DOMAIN worker.results :
             /\ next(d) /\ workers' = [workers EXCEPT ![w] = handedOut(d)]
             /\ runs[r].status = "RUNNING" /\ rows[d].role = runs[r].roles[d]
             /\ CanQueueCs(rows[d], ChangeSet(r), OtherActive(r))
             /\ rows[d].desired < MaxGen
             /\ rows' = [rows EXCEPT ![d] = QueueCs(@, ChangeSet(r))]
    BY DEF QueueNextPhase
  <1> HIDE DEF worker, r, handedOut, next
  <1>1. CASE rows' = rows /\ workers' = [workers EXCEPT ![w] = Settled(worker)]
    <2>1. TypeOK' /\ workers'[w] = Settled(worker) /\ workers' = [workers EXCEPT ![w] = workers'[w]]
      BY <1>1, <1>s, <1>t DEF RowsType, TypeOK
    <2> QED BY <1>0, <1>1, <2>1 DEF worker, r
  <1>2. CASE rows' = rows /\ workers' = [workers EXCEPT ![w] = IdleWorker]
    <2>1. TypeOK' /\ workers'[w] = IdleWorker /\ workers' = [workers EXCEPT ![w] = workers'[w]]
      BY <1>2, <1>i, <1>t DEF RowsType, TypeOK
    <2> QED BY <1>0, <1>2, <2>1 DEF worker, r
  <1>3. CASE \E d \in DOMAIN worker.results :
               next(d) /\ rows' = rows /\ workers' = [workers EXCEPT ![w] = handedOut(d)]
    <2>1. PICK d \in DOMAIN worker.results :
                 next(d) /\ rows' = rows /\ workers' = [workers EXCEPT ![w] = handedOut(d)]
      BY <1>3
    <2>2. TypeOK' /\ workers'[w] = handedOut(d) /\ workers' = [workers EXCEPT ![w] = workers'[w]]
      BY <2>1, <1>h, <1>t DEF RowsType, TypeOK
    <2> QED BY <1>0, <2>1, <2>2 DEF worker, r, next, handedOut
  <1>4. CASE \E d \in DOMAIN worker.results :
             /\ next(d) /\ workers' = [workers EXCEPT ![w] = handedOut(d)]
             /\ runs[r].status = "RUNNING" /\ rows[d].role = runs[r].roles[d]
             /\ CanQueueCs(rows[d], ChangeSet(r), OtherActive(r))
             /\ rows[d].desired < MaxGen
             /\ rows' = [rows EXCEPT ![d] = QueueCs(@, ChangeSet(r))]
    <2>1. PICK d \in DOMAIN worker.results :
             /\ next(d) /\ workers' = [workers EXCEPT ![w] = handedOut(d)]
             /\ runs[r].status = "RUNNING" /\ rows[d].role = runs[r].roles[d]
             /\ CanQueueCs(rows[d], ChangeSet(r), OtherActive(r))
             /\ rows[d].desired < MaxGen
             /\ rows' = [rows EXCEPT ![d] = QueueCs(@, ChangeSet(r))]
      BY <1>4
    <2>2. d \in Devices /\ r \in CsIds BY <1>0, RunsMap DEF worker, r
    <2>3. RowsType'
      <3>1. rows \in [Devices -> Row] BY DEF TypeOK
      <3>2. QueueCs(rows[d], ChangeSet(r)) \in Row BY <2>2, <3>1, QueueCsRow
      <3> QED BY <2>1, <3>1, <3>2 DEF RowsType
    <2>4. TypeOK' /\ workers'[w] = handedOut(d) /\ workers' = [workers EXCEPT ![w] = workers'[w]]
      BY <2>1, <2>3, <1>h, <1>t
    <2> QED BY <1>0, <2>1, <2>4 DEF worker, r, next, handedOut
  <1> QED BY <1>1, <1>2, <1>3, <1>4, <1>q

\* A step of one request keeps the types if its writes do.
LEMMA HandlerUpdate ==
    ASSUME TypeOK, NEW h \in Handlers, RunsType', RowsType', RunIds' = RunIds, SameTargets,
           NEW new \in Handler, new.pc # "idle" => new.run \in RunIds,
           handlers' = [handlers EXCEPT ![h] = new], UNCHANGED <<workers, sent>>
    PROVE  TypeOK' /\ handlers'[h] = new
  <1>1. HandlersType' BY HandlersTypeStep
  <1>2. WorkersType' BY ProcessesSame
  <1>3. TypeOK' BY <1>1, <1>2, TypeParts DEF TypeOK, SentType
  <1> QED BY <1>3 DEF TypeOK

\* The steps of a request that touch neither the table nor, but for the targets
\* it marks, the devices.
LEMMA RequestEffect ==
    ASSUME TypeOK, NEW h \in Handlers,
           \/ \E r \in RunIds : VerifyRolloutDraftTargets(h, r)
           \/ ValidateClaimedDraft(h)
           \/ MarkRolloutDevicesRunning(h)
    PROVE  /\ TypeOK' /\ handlers' = [handlers EXCEPT ![h] = handlers'[h]]
           /\ handlers'[h].run \in RunIds /\ handlers'[h].age \in {0, handlers[h].age}
           /\ UNCHANGED <<runs, workers, sent, recording>>
           /\ \/ /\ rows' = rows /\ handlers[h].pc = "idle" /\ ~handlers'[h].claimed
                 /\ handlers'[h].pc \in {"claim", "stale"} /\ runs[handlers'[h].run].kind = "ssh"
              \/ /\ rows' = rows /\ handlers[h].pc \in {"validate", "mark"}
                 /\ handlers'[h].pc \in {"mark", "release", "stale"}
                 /\ handlers'[h].run = handlers[h].run /\ handlers'[h].age = handlers[h].age
                 /\ handlers'[h].claimed = handlers[h].claimed
              \/ /\ handlers[h].pc = "mark" /\ handlers'[h].pc = "execute"
                 /\ handlers'[h].run = handlers[h].run /\ handlers'[h].age = handlers[h].age
                 /\ handlers'[h].claimed = handlers[h].claimed
                 /\ HoldsClaim(h) /\ Markable(handlers[h].run)
                 /\ rows' = [d \in Devices |-> IF d \in Targets(handlers[h].run)
                                               THEN MarkRunning(rows[d]) ELSE rows[d]]
  <1>0. handlers \in [Handlers -> Handler] /\ rows \in [Devices -> Row] BY DEF TypeOK
  <1>u. UNCHANGED <<runs, workers, sent, recording>>
    BY DEF VerifyRolloutDraftTargets, ValidateClaimedDraft, MarkRolloutDevicesRunning
  <1>r. RunsType' /\ RunIds' = RunIds /\ SameTargets BY <1>u, RunsTypeSame
  <1>1. CASE \E r \in RunIds : VerifyRolloutDraftTargets(h, r)
    <2>r. PICK r \in RunIds : VerifyRolloutDraftTargets(h, r) BY <1>1
    <2> DEFINE valid == \A d \in Targets(r) : /\ ~NeedsRecovery(rows[d]) /\ NoPending(rows[d])
                                              /\ rows[d].role = runs[r].roles[d]
               pc == IF valid THEN "claim" ELSE "stale"
    <2>1. /\ handlers[h].pc = "idle" /\ runs[r].kind = "ssh" /\ rows' = rows
          /\ handlers' = [handlers EXCEPT ![h] = [IdleHandler EXCEPT !.pc = pc, !.run = r]]
      <3>1. handlers[h].pc = "idle" /\ runs[r].kind = "ssh" /\ rows' = rows
        BY <2>r DEF VerifyRolloutDraftTargets
      <3>2. handlers' = [handlers EXCEPT ![h] = [IdleHandler EXCEPT !.pc = pc, !.run = r]]
        BY <2>r, Zenon DEF VerifyRolloutDraftTargets
      <3> QED BY <3>1, <3>2
    <2>p. pc \in {"claim", "stale"} OBVIOUS
    <2> HIDE DEF valid, pc
    <2> DEFINE new == [IdleHandler EXCEPT !.pc = pc, !.run = r]
    <2>2. r \in Nat /\ 0 \in 0 .. ExecutionLimit BY RunsMap, Site
    <2>3. /\ new \in Handler /\ new.run = r /\ new.pc = pc /\ new.age = 0 /\ ~new.claimed
      BY <2>p, <2>2 DEF IdleHandler, Handler
    <2> HIDE DEF new
    <2>4. handlers' = [handlers EXCEPT ![h] = new] BY <2>1 DEF new
    <2>5. TypeOK' /\ handlers'[h] = new
      BY <1>0, <1>u, <1>r, <2>1, <2>3, <2>4, HandlerUpdate DEF RowsType
    <2> QED BY <1>u, <2>p, <2>1, <2>3, <2>4, <2>5
  <1>2. CASE ValidateClaimedDraft(h) \/ MarkRolloutDevicesRunning(h)
    <2>1. PICK pc \in {"mark", "release", "stale", "execute"} :
            handlers' = [handlers EXCEPT ![h].pc = pc]
      BY <1>2 DEF ValidateClaimedDraft, MarkRolloutDevicesRunning, Goto
    <2> DEFINE new == [handlers[h] EXCEPT !.pc = pc]
    <2>2. handlers[h].pc \in {"validate", "mark"} /\ handlers[h] \in Handler /\ handlers[h].run \in RunIds
      BY <1>0, <1>2 DEF ValidateClaimedDraft, MarkRolloutDevicesRunning, TypeOK
    <2>3. /\ new \in Handler /\ new.run = handlers[h].run /\ new.pc = pc
          /\ new.age = handlers[h].age /\ new.claimed = handlers[h].claimed
      BY <2>2 DEF Handler
    <2>4. handlers' = [handlers EXCEPT ![h] = new] BY <1>0, <2>1
    <2> HIDE DEF new
    <2>5. handlers'[h] = new BY <1>0, <2>4
    <2>6. CASE rows' = rows /\ pc # "execute"
      <3>1. TypeOK' BY <1>0, <1>u, <1>r, <2>2, <2>3, <2>4, <2>6, HandlerUpdate DEF RowsType
      <3> QED BY <1>u, <2>2, <2>3, <2>4, <2>5, <2>6, <3>1
    <2>7. CASE /\ handlers[h].pc = "mark" /\ pc = "execute"
               /\ HoldsClaim(h) /\ Markable(handlers[h].run)
               /\ rows' = [d \in Devices |-> IF d \in Targets(handlers[h].run)
                                             THEN MarkRunning(rows[d]) ELSE rows[d]]
      <3>1. RowsType'
        <4>1. \A d \in Devices : MarkRunning(rows[d]) \in Row
          <5>1. "FAILED" \in SshStatuses BY DEF SshStatuses
          <5> QED BY <1>0, <5>1, SshRow
        <4> QED BY <1>0, <2>7, <4>1 DEF RowsType
      <3>2. TypeOK' BY <1>u, <1>r, <2>2, <2>3, <2>4, <3>1, HandlerUpdate
      <3> QED BY <1>u, <2>2, <2>3, <2>4, <2>5, <2>7, <3>2
    <2>8. \/ rows' = rows /\ pc # "execute"
          \/ /\ handlers[h].pc = "mark" /\ pc = "execute"
             /\ HoldsClaim(h) /\ Markable(handlers[h].run)
             /\ rows' = [d \in Devices |-> IF d \in Targets(handlers[h].run)
                                           THEN MarkRunning(rows[d]) ELSE rows[d]]
      <3>1. \A p, q : [handlers EXCEPT ![h].pc = p] = [handlers EXCEPT ![h].pc = q] => p = q
        <4> SUFFICES ASSUME NEW p, NEW q,
                            [handlers EXCEPT ![h].pc = p] = [handlers EXCEPT ![h].pc = q]
                     PROVE  p = q
          OBVIOUS
        <4>1. [handlers EXCEPT ![h].pc = p][h].pc = p /\ [handlers EXCEPT ![h].pc = q][h].pc = q
          BY <1>0 DEF Handler
        <4> QED BY <4>1
      <3> QED BY <1>2, <2>1, <3>1 DEF ValidateClaimedDraft, MarkRolloutDevicesRunning, Goto
    <2> QED BY <2>6, <2>7, <2>8
  <1> QED BY <1>1, <1>2

\* The claim of a draft over SSH, or its refusal.
LEMMA ClaimDraftEffect ==
    ASSUME TypeOK, NEW h \in Handlers, ClaimRolloutDraft(h)
    PROVE  LET r == handlers[h].run
           IN  /\ TypeOK' /\ RunIds' = RunIds /\ r \in RunIds /\ handlers[h].pc = "claim"
               /\ handlers' = [handlers EXCEPT ![h] = handlers'[h]]
               /\ UNCHANGED <<workers, sent, recording>>
               /\ \/ rows' = rows /\ runs' = runs /\ handlers'[h] = IdleHandler
                  \/ /\ Claimable(r) /\ rows' = ClaimedRows
                     /\ SamePlan(r) /\ SameLease(r) /\ SameResults(r)
                     /\ runs'[r].status = "RUNNING" /\ runs'[r].claim = h /\ runs'[r].age = 0
                     /\ \A s \in RunIds \ {r} :
                          runs'[s] = IF runs[s].status \in {"RUNNING", "DRAFT"}
                                     THEN AsStale(runs[s]) ELSE runs[s]
                     /\ handlers'[h].pc = "validate" /\ handlers'[h].claimed
                     /\ handlers'[h].run = r /\ handlers'[h].age = handlers[h].age
  <1> DEFINE r == handlers[h].run
  <1>0. /\ handlers \in [Handlers -> Handler] /\ rows \in [Devices -> Row]
        /\ runs \in [RunIds -> Run] /\ handlers[h].pc = "claim" /\ r \in RunIds
        /\ UNCHANGED <<workers, sent, recording>>
    BY RunsMap DEF TypeOK, ClaimRolloutDraft
  <1>1. CASE ~Claimable(r)
    <2>1. rows' = rows /\ runs' = runs /\ handlers' = [handlers EXCEPT ![h] = IdleHandler]
      BY <1>1 DEF ClaimRolloutDraft, EndRequest
    <2>2. RunsType' /\ RunIds' = RunIds /\ SameTargets BY <2>1, RunsTypeSame
    <2>3. IdleHandler \in Handler /\ IdleHandler.pc = "idle" BY IdleType DEF IdleHandler
    <2>4. TypeOK' /\ handlers'[h] = IdleHandler
      BY <1>0, <2>1, <2>2, <2>3, HandlerUpdate DEF RowsType
    <2> QED BY <1>0, <2>1, <2>2, <2>4
  <1>2. CASE Claimable(r)
    <2> DEFINE new == Reclaimed(runs[r], "RUNNING", h)
               handler == [handlers[h] EXCEPT !.pc = "validate", !.claimed = TRUE]
    <2>1. /\ rows' = ClaimedRows /\ runs' = ClaimedRuns(r, new)
          /\ handlers' = [handlers EXCEPT ![h].pc = "validate", ![h].claimed = TRUE]
      BY <1>2 DEF ClaimRolloutDraft, Reclaimed
    <2>2. "RUNNING" \in RunStatuses /\ 0 \in 0 .. FenceWindow BY Site DEF RunStatuses
    <2>3. /\ new \in Run /\ new.kind = runs[r].kind /\ new.roles = runs[r].roles
          /\ new.lease = runs[r].lease /\ new.worker = runs[r].worker
          /\ new.results = runs[r].results /\ new.cursor = runs[r].cursor
          /\ new.status = "RUNNING" /\ new.claim = h /\ new.age = 0
      <3>1. runs[r] \in Run /\ h \in Handlers \cup {NoProcess} BY <1>0
      <3> QED BY <2>2, <3>1, ReclaimedRun
    <2> HIDE DEF new
    <2>4. /\ runs' \in [RunIds -> Run] /\ runs'[r] = new /\ ClaimedRows \in [Devices -> Row]
          /\ \A s \in RunIds \ {r} : runs'[s] = IF runs[s].status \in {"RUNNING", "DRAFT"}
                                                THEN AsStale(runs[s]) ELSE runs[s]
      BY <1>0, <1>2, <2>1, <2>3, ClaimEffect
    <2>5. \A s \in RunIds : /\ runs'[s].roles = runs[s].roles /\ runs'[s].results = runs[s].results
      BY <1>0, <2>3, <2>4, AsStaleRun
    <2>6. \A s \in RunIds : DOMAIN runs'[s].results \in {{}, DOMAIN runs'[s].roles}
      <3>1. \A s \in RunIds : DOMAIN runs[s].results \in {{}, DOMAIN runs[s].roles}
        BY DEF TypeOK, Targets
      <3> QED BY <2>5, <3>1
    <2>7. RunsType' /\ RunIds' = RunIds /\ SameTargets
      BY <2>4, <2>5, <2>6, RunsTypeStep DEF SameTargets, Targets
    <2>8. /\ handler \in Handler /\ handler.pc = "validate" /\ handler.claimed
          /\ handler.run = r /\ handler.age = handlers[h].age
      BY <1>0 DEF Handler
    <2>9. handlers' = [handlers EXCEPT ![h] = handler] BY <1>0, <2>1
    <2> HIDE DEF handler
    <2>10. TypeOK' /\ handlers'[h] = handler
      BY <1>0, <2>1, <2>4, <2>7, <2>8, <2>9, HandlerUpdate DEF RowsType
    <2>11. SamePlan(r) /\ SameLease(r) /\ SameResults(r)
      BY <2>3, <2>4 DEF SamePlan, SameLease, SameResults
    <2> QED BY <1>0, <1>2, <2>1, <2>3, <2>4, <2>7, <2>8, <2>9, <2>10, <2>11
  <1> QED BY <1>1, <1>2

\* What the devices of a rollout report over SSH.
LEMMA SshResultsType ==
    ASSUME TypeOK, NEW r \in RunIds, NEW results \in SshResults(r)
    PROVE  /\ results \in [Targets(r) -> SshStatuses] /\ SshEntries(results) \in Partial(Entry)
           /\ DOMAIN SshEntries(results) = Targets(r)
  <1>1. results \in [Targets(r) -> SshStatuses] BY DEF SshResults, SshStatuses
  <1>2. SshEntries(results) \in [Targets(r) -> Entry]
    <2>1. ASSUME NEW d \in Targets(r) PROVE [NoResult EXCEPT !.status = results[d]] \in Entry
      BY <1>1 DEF NoResult, Entry
    <2> QED BY <1>1, <2>1 DEF SshEntries
  <1>3. Targets(r) \subseteq Devices BY RunsMap
  <1> QED BY <1>1, <1>2, <1>3, PartialMap

\* The status column of the devices after an SSH rollout of the targets ended.
EndedRows(r) ==
    \A d \in Devices :
        /\ rows'[d] = rows[d] \/ \E status \in SshStatuses : rows'[d] = EndRunning(rows[d], status)
        /\ d \in Targets(r) => rows'[d].rolloutStatus # "RUNNING"

\* The last step of a request: nothing is written, or the draft is released, or
\* marked stale without a claim, or the rollout ends.
LEMMA EndEffect ==
    ASSUME TypeOK, NEW h \in Handlers,
           \/ ReleaseRolloutDraft(h) \/ MarkRolloutDraftStale(h)
           \/ PersistRolloutResults(h) \/ MarkRolloutPersistenceFailure(h)
    PROVE  LET r == handlers[h].run
           IN  /\ TypeOK' /\ RunIds' = RunIds /\ r \in RunIds
               /\ handlers[h].pc \in {"release", "stale", "execute", "persistFailed"}
               /\ handlers' = [handlers EXCEPT ![h] = handlers'[h]]
               /\ UNCHANGED <<workers, sent, recording>>
               /\ OthersSame(r) /\ SamePlan(r) /\ SameLease(r) /\ runs'[r].cursor = runs[r].cursor
               /\ \/ rows' = rows /\ runs' = runs /\ handlers'[h] = IdleHandler
                  \/ /\ rows' = rows /\ runs' = runs
                     /\ handlers[h].pc = "execute" /\ handlers'[h].pc = "persistFailed"
                     /\ handlers'[h].run = r /\ handlers'[h].age = handlers[h].age
                     /\ handlers'[h].claimed = handlers[h].claimed
                  \/ /\ HoldsClaim(h) /\ handlers[h].pc = "release" /\ rows' = rows
                     /\ runs'[r].status = "DRAFT" /\ runs'[r].results = runs[r].results
                     /\ handlers'[h] = IdleHandler
                  \/ /\ runs[r].status = "DRAFT" /\ rows' = rows
                     /\ runs'[r].status = "STALE" /\ runs'[r].results = runs[r].results
                     /\ handlers'[h] = IdleHandler
                  \/ /\ HoldsClaim(h) /\ EndedRows(r)
                     /\ runs'[r].status \in {"completed", "STALE", "aborted", "canary_failed", "FAILED"}
                     /\ handlers'[h] = IdleHandler
  <1> DEFINE r == handlers[h].run
             final == {"completed", "STALE", "aborted", "canary_failed", "FAILED"}
  <1>0. /\ handlers \in [Handlers -> Handler] /\ rows \in [Devices -> Row]
        /\ runs \in [RunIds -> Run] /\ r \in RunIds /\ runs[r] \in Run
        /\ handlers[h].pc \in {"release", "stale", "execute", "persistFailed"}
        /\ DOMAIN runs[r].results \in {{}, Targets(r)}
        /\ UNCHANGED <<workers, sent, recording>>
    BY RunsMap DEF TypeOK, ReleaseRolloutDraft, MarkRolloutDraftStale,
                   PersistRolloutResults, MarkRolloutPersistenceFailure
  <1>i. IdleHandler \in Handler /\ IdleHandler.pc = "idle" BY IdleType DEF IdleHandler
  <1>f. "FAILED" \in SshStatuses /\ final \subseteq RunStatuses BY DEF SshStatuses, RunStatuses
  <1>1. ASSUME NEW new \in Run, new.roles = runs[r].roles, DOMAIN new.results \in {{}, Targets(r)},
               new.kind = runs[r].kind, new.lease = runs[r].lease, new.worker = runs[r].worker,
               new.cursor = runs[r].cursor,
               runs' = [runs EXCEPT ![r] = new], RowsType',
               handlers' = [handlers EXCEPT ![h] = IdleHandler]
        PROVE  /\ TypeOK' /\ RunIds' = RunIds /\ runs'[r] = new /\ handlers'[h] = IdleHandler
               /\ handlers' = [handlers EXCEPT ![h] = handlers'[h]]
               /\ OthersSame(r) /\ SamePlan(r) /\ SameLease(r) /\ runs'[r].cursor = runs[r].cursor
    <2>1. /\ RunsType' /\ RunIds' = RunIds /\ SameTargets /\ runs'[r] = new /\ OthersSame(r)
      BY <1>0, <1>1, RunReplaced DEF OthersSame
    <2>2. TypeOK' /\ handlers'[h] = IdleHandler
      BY <1>0, <1>i, <1>1, <2>1, HandlerUpdate
    <2> QED BY <1>1, <2>1, <2>2 DEF SamePlan, SameLease
  <1>2. CASE rows' = rows /\ runs' = runs /\ handlers' = [handlers EXCEPT ![h] = IdleHandler]
    <2>1. RowsType' /\ runs' = [runs EXCEPT ![r] = runs[r]] BY <1>0, <1>2 DEF RowsType
    <2>2. /\ TypeOK' /\ RunIds' = RunIds /\ handlers'[h] = IdleHandler
          /\ handlers' = [handlers EXCEPT ![h] = handlers'[h]]
          /\ OthersSame(r) /\ SamePlan(r) /\ SameLease(r) /\ runs'[r].cursor = runs[r].cursor
      BY <1>0, <1>1, <1>2, <2>1
    <2> QED BY <1>0, <1>2, <2>2
  <1>3. CASE handlers[h].pc = "execute" /\ rows' = rows /\ runs' = runs /\ Goto(h, "persistFailed")
    <2> DEFINE new == [handlers[h] EXCEPT !.pc = "persistFailed"]
    <2>1. handlers' = [handlers EXCEPT ![h] = new] BY <1>0, <1>3 DEF Goto
    <2>2. /\ new \in Handler /\ new.pc = "persistFailed" /\ new.run = r
          /\ new.age = handlers[h].age /\ new.claimed = handlers[h].claimed
      BY <1>0 DEF Handler
    <2> HIDE DEF new
    <2>3. RunsType' /\ RunIds' = RunIds /\ SameTargets BY <1>3, RunsTypeSame
    <2>4. TypeOK' /\ handlers'[h] = new
      BY <1>0, <1>3, <2>1, <2>2, <2>3, HandlerUpdate DEF RowsType
    <2>5. OthersSame(r) /\ SamePlan(r) /\ SameLease(r) /\ runs'[r].cursor = runs[r].cursor
      BY <1>3 DEF OthersSame, SamePlan, SameLease
    <2> QED BY <1>0, <1>3, <2>1, <2>2, <2>3, <2>4, <2>5
  <1>4. CASE /\ HoldsClaim(h) /\ handlers[h].pc = "release" /\ rows' = rows
             /\ runs' = [runs EXCEPT ![r] = Reclaimed(runs[r], "DRAFT", NoProcess)]
             /\ handlers' = [handlers EXCEPT ![h] = IdleHandler]
    <2> DEFINE new == Reclaimed(runs[r], "DRAFT", NoProcess)
    <2>1. "DRAFT" \in RunStatuses /\ RowsType' BY <1>0, <1>4 DEF RunStatuses, RowsType
    <2>2. /\ new \in Run /\ new.roles = runs[r].roles /\ new.results = runs[r].results
          /\ new.kind = runs[r].kind /\ new.lease = runs[r].lease /\ new.worker = runs[r].worker
          /\ new.cursor = runs[r].cursor /\ new.status = "DRAFT"
      BY <1>0, <2>1, ReclaimedRun
    <2> HIDE DEF new
    <2>3. runs' = [runs EXCEPT ![r] = new] BY <1>4 DEF new
    <2>4. /\ TypeOK' /\ RunIds' = RunIds /\ runs'[r] = new /\ handlers'[h] = IdleHandler
          /\ handlers' = [handlers EXCEPT ![h] = handlers'[h]]
          /\ OthersSame(r) /\ SamePlan(r) /\ SameLease(r) /\ runs'[r].cursor = runs[r].cursor
      BY <1>0, <1>1, <1>4, <2>1, <2>2, <2>3
    <2> QED BY <1>0, <1>4, <2>2, <2>4
  <1>5. CASE /\ HoldsClaim(h) \/ runs[r].status = "DRAFT"
             /\ runs' = [runs EXCEPT ![r] = AsStale(runs[r])]
             /\ rows' = IF HoldsClaim(h) THEN [d \in Devices |-> EndRunning(rows[d], "FAILED")] ELSE rows
             /\ handlers' = [handlers EXCEPT ![h] = IdleHandler]
    <2> DEFINE new == AsStale(runs[r])
    <2>1. \A d \in Devices : /\ EndRunning(rows[d], "FAILED") \in Row
                             /\ EndRunning(rows[d], "FAILED").rolloutStatus # "RUNNING"
      BY <1>0, <1>f, SshRow
    <2>2. RowsType' BY <1>0, <1>5, <2>1 DEF RowsType
    <2>3. /\ new \in Run /\ new.roles = runs[r].roles /\ new.results = runs[r].results
          /\ new.kind = runs[r].kind /\ new.lease = runs[r].lease /\ new.worker = runs[r].worker
          /\ new.cursor = runs[r].cursor /\ new.status = "STALE"
      BY <1>0, AsStaleRun
    <2> HIDE DEF new
    <2>4. runs' = [runs EXCEPT ![r] = new] BY <1>5 DEF new
    <2>5. /\ TypeOK' /\ RunIds' = RunIds /\ runs'[r] = new /\ handlers'[h] = IdleHandler
          /\ handlers' = [handlers EXCEPT ![h] = handlers'[h]]
          /\ OthersSame(r) /\ SamePlan(r) /\ SameLease(r) /\ runs'[r].cursor = runs[r].cursor
      BY <1>0, <1>1, <1>5, <2>2, <2>3, <2>4
    <2>6. HoldsClaim(h) => EndedRows(r) BY <1>f, <1>5, <2>1 DEF EndedRows
    <2> QED BY <1>0, <1>5, <2>3, <2>5, <2>6
  <1>6. ASSUME NEW results \in SshResults(r), NEW status \in final, HoldsClaim(h),
               runs' = [runs EXCEPT ![r] = Ended(runs[r], status, SshEntries(results))],
               RowsType', EndedRows(r), handlers' = [handlers EXCEPT ![h] = IdleHandler]
        PROVE  /\ TypeOK' /\ RunIds' = RunIds /\ runs'[r].status = status
               /\ handlers'[h] = IdleHandler
               /\ handlers' = [handlers EXCEPT ![h] = handlers'[h]]
               /\ OthersSame(r) /\ SamePlan(r) /\ SameLease(r) /\ runs'[r].cursor = runs[r].cursor
    <2> DEFINE new == Ended(runs[r], status, SshEntries(results))
    <2>1. SshEntries(results) \in Partial(Entry) /\ DOMAIN SshEntries(results) = Targets(r)
      BY <1>0, SshResultsType
    <2>2. /\ new \in Run /\ new.roles = runs[r].roles /\ new.results = SshEntries(results)
          /\ new.kind = runs[r].kind /\ new.lease = runs[r].lease /\ new.worker = runs[r].worker
          /\ new.cursor = runs[r].cursor /\ new.status = status
      <3>1. status \in RunStatuses /\ runs[r] \in Run BY <1>0, <1>f
      <3> HIDE DEF r, final
      <3> QED BY <2>1, <3>1, EndedRun
    <2> HIDE DEF new
    <2>3. runs' = [runs EXCEPT ![r] = new] BY <1>6 DEF new
    <2> QED BY <1>0, <1>1, <1>6, <2>1, <2>2, <2>3
  <1>7. CASE \E results \in SshResults(r) :
               /\ HoldsClaim(h)
               /\ rows' = [d \in Devices |-> IF d \in Targets(r)
                                             THEN EndRunning(rows[d], results[d]) ELSE rows[d]]
               /\ runs' = [runs EXCEPT ![r] = Ended(runs[r], SshRunStatus(r, results), SshEntries(results))]
               /\ handlers' = [handlers EXCEPT ![h] = IdleHandler]
    <2>1. PICK results \in SshResults(r) :
               /\ HoldsClaim(h)
               /\ rows' = [d \in Devices |-> IF d \in Targets(r)
                                             THEN EndRunning(rows[d], results[d]) ELSE rows[d]]
               /\ runs' = [runs EXCEPT ![r] = Ended(runs[r], SshRunStatus(r, results), SshEntries(results))]
               /\ handlers' = [handlers EXCEPT ![h] = IdleHandler]
      BY <1>7
    <2>2. results \in [Targets(r) -> SshStatuses] BY <1>0, SshResultsType
    <2>3. \A d \in Devices : d \in Targets(r) =>
             /\ EndRunning(rows[d], results[d]) \in Row
             /\ EndRunning(rows[d], results[d]).rolloutStatus # "RUNNING"
      <3>1. \A d \in Devices : d \in Targets(r) => rows[d] \in Row /\ results[d] \in SshStatuses
        BY <1>0, <2>2
      <3> HIDE DEF r
      <3> QED BY <3>1, SshRow
    <2>4. RowsType' BY <1>0, <2>1, <2>3 DEF RowsType
    <2>5. EndedRows(r) BY <2>1, <2>2, <2>3 DEF EndedRows
    <2>6. SshRunStatus(r, results) \in final BY StatusNames
    <2> QED BY <1>0, <1>6, <2>1, <2>4, <2>5, <2>6
  <1>8. CASE \E results \in SshResults(r) :
               /\ HoldsClaim(h)
               /\ rows' = [d \in Devices |-> EndRunning(rows[d], "FAILED")]
               /\ runs' = [runs EXCEPT ![r] = Ended(runs[r], "FAILED", SshEntries(results))]
               /\ handlers' = [handlers EXCEPT ![h] = IdleHandler]
    <2>1. PICK results \in SshResults(r) :
               /\ HoldsClaim(h)
               /\ rows' = [d \in Devices |-> EndRunning(rows[d], "FAILED")]
               /\ runs' = [runs EXCEPT ![r] = Ended(runs[r], "FAILED", SshEntries(results))]
               /\ handlers' = [handlers EXCEPT ![h] = IdleHandler]
      BY <1>8
    <2>2. \A d \in Devices : /\ EndRunning(rows[d], "FAILED") \in Row
                             /\ EndRunning(rows[d], "FAILED").rolloutStatus # "RUNNING"
      BY <1>0, <1>f, SshRow
    <2>3. RowsType' /\ EndedRows(r) BY <1>f, <2>1, <2>2 DEF RowsType, EndedRows
    <2>4. "FAILED" \in final OBVIOUS
    <2> QED BY <1>0, <1>6, <2>1, <2>3, <2>4
  <1>9. CASE ReleaseRolloutDraft(h)
    <2>1. /\ handlers[h].pc = "release" /\ rows' = rows
          /\ runs' = IF HoldsClaim(h)
                     THEN [runs EXCEPT ![r].status = "DRAFT", ![r].claim = NoProcess, ![r].age = 0]
                     ELSE runs
          /\ handlers' = [handlers EXCEPT ![h] = IdleHandler]
      BY <1>9 DEF ReleaseRolloutDraft, EndRequest
    <2>2. [runs EXCEPT ![r].status = "DRAFT", ![r].claim = NoProcess, ![r].age = 0]
          = [runs EXCEPT ![r] = Reclaimed(runs[r], "DRAFT", NoProcess)]
      BY <1>0 DEF Reclaimed
    <2> QED BY <1>2, <1>4, <2>1, <2>2
  <1>10. CASE MarkRolloutDraftStale(h)
    <2>1. /\ runs' = IF HoldsClaim(h) \/ runs[r].status = "DRAFT"
                     THEN [runs EXCEPT ![r] = AsStale(runs[r])] ELSE runs
          /\ rows' = IF HoldsClaim(h) THEN [d \in Devices |-> EndRunning(rows[d], "FAILED")] ELSE rows
          /\ handlers' = [handlers EXCEPT ![h] = IdleHandler]
      BY <1>0, <1>10 DEF MarkRolloutDraftStale, EndRequest
    <2> QED BY <1>2, <1>5, <2>1
  <1>11. CASE PersistRolloutResults(h)
    <2>1. ASSUME NEW results \in SshResults(r)
          PROVE  [runs EXCEPT ![r].status = SshRunStatus(r, results), ![r].claim = NoProcess,
                              ![r].age = 0, ![r].results = SshEntries(results)]
                 = [runs EXCEPT ![r] = Ended(runs[r], SshRunStatus(r, results), SshEntries(results))]
      BY <1>0 DEF Ended
    <2>2. handlers[h].pc = "execute" BY <1>11 DEF PersistRolloutResults
    <2> QED BY <1>3, <1>7, <1>11, <2>1, <2>2 DEF PersistRolloutResults, EndRequest
  <1>12. CASE MarkRolloutPersistenceFailure(h)
    <2>1. ASSUME NEW results \in SshResults(r)
          PROVE  [runs EXCEPT ![r].status = "FAILED", ![r].claim = NoProcess,
                              ![r].age = 0, ![r].results = SshEntries(results)]
                 = [runs EXCEPT ![r] = Ended(runs[r], "FAILED", SshEntries(results))]
      BY <1>0 DEF Ended
    <2> QED BY <1>2, <1>8, <1>12, <2>1 DEF MarkRolloutPersistenceFailure, EndRequest
  <1> QED BY <1>9, <1>10, <1>11, <1>12

\* The statements on one device row that are not part of a rollout: nothing
\* becomes RUNNING, and a device that is RUNNING stays so and is given no work.
LEMMA DeviceEffect ==
    ASSUME TypeOK, NEW d \in Devices,
           \/ \E st \in sent[d] : RecordDeviceChangeSetStatus(d, st)
           \/ \E id \in OpIds : QueueDeviceOperation(d, id)
           \/ \E id \in OpIds, state \in OpTerminal : RecordDeviceOperationStatus(d, id, state)
           \/ \E role \in Roles : UpdateDeviceRole(d, role)
    PROVE  /\ TypeOK' /\ UNCHANGED <<runs, workers, handlers, sent>>
           /\ \A e \in Devices \ {d} : rows'[e] = rows[e]
           /\ rows'[d].pendingCs \in {rows[d].pendingCs, NoWork}
           /\ rows'[d].rolloutStatus = "RUNNING" <=> rows[d].rolloutStatus = "RUNNING"
           /\ rows[d].rolloutStatus = "RUNNING" /\ NoPending(rows[d]) => NoPending(rows'[d])
  <1>0. rows \in [Devices -> Row] /\ rows[d] \in Row BY DEF TypeOK
  <1>u. UNCHANGED <<runs, workers, handlers, sent>>
    BY DEF RecordDeviceChangeSetStatus, QueueDeviceOperation, RecordDeviceOperationStatus,
           UpdateDeviceRole
  <1>1. ASSUME NEW new \in Row, rows' = [rows EXCEPT ![d] = new],
               new.pendingCs \in {rows[d].pendingCs, NoWork},
               new.rolloutStatus = "RUNNING" <=> rows[d].rolloutStatus = "RUNNING",
               rows[d].rolloutStatus = "RUNNING" /\ NoPending(rows[d]) => NoPending(new)
        PROVE  /\ TypeOK' /\ \A e \in Devices \ {d} : rows'[e] = rows[e]
               /\ rows'[d].pendingCs \in {rows[d].pendingCs, NoWork}
               /\ rows'[d].rolloutStatus = "RUNNING" <=> rows[d].rolloutStatus = "RUNNING"
               /\ rows[d].rolloutStatus = "RUNNING" /\ NoPending(rows[d]) => NoPending(rows'[d])
    <2>1. RowsType' /\ rows'[d] = new /\ \A e \in Devices \ {d} : rows'[e] = rows[e]
      BY <1>0, <1>1 DEF RowsType
    <2>2. RunsType' /\ RunIds' = RunIds /\ SameTargets BY <1>u, RunsTypeSame
    <2>3. WorkersType' /\ HandlersType' BY <1>u, <2>2, ProcessesSame
    <2>4. TypeOK' BY <1>u, <2>1, <2>2, <2>3, TypeParts DEF TypeOK, SentType
    <2> QED BY <1>1, <2>1, <2>4
  <1>2. CASE \E st \in sent[d] : RecordDeviceChangeSetStatus(d, st)
    <2>1. PICK st \in sent[d] : rows' = [rows EXCEPT ![d] = RecordCs(rows[d], st)]
      BY <1>2 DEF RecordDeviceChangeSetStatus
    <2>2. st \in Status(CsIds, CsTerminal) BY DEF TypeOK
    <2> DEFINE new == RecordCs(rows[d], st)
    <2>3. /\ new \in Row /\ new.pendingOp = rows[d].pendingOp
          /\ new.pendingCs \in {rows[d].pendingCs, NoWork}
          /\ new.rolloutStatus = "RUNNING" <=> rows[d].rolloutStatus = "RUNNING"
      BY <1>0, <2>2, RecordCsRow
    <2> HIDE DEF new
    <2>4. rows' = [rows EXCEPT ![d] = new] BY <2>1 DEF new
    <2>5. NoPending(rows[d]) => NoPending(new) BY <2>3 DEF NoPending
    <2> QED BY <1>u, <1>1, <2>3, <2>4, <2>5
  <1>3. CASE \E id \in OpIds : QueueDeviceOperation(d, id)
    <2>1. PICK id \in OpIds : QueueDeviceOperation(d, id) BY <1>3
    <2> DEFINE h == CHOOSE x \in Hashes : TRUE
               plan == [id |-> id, hash |-> h, gen |-> 0]
               new == QueueOp(rows[d], plan)
    <2>2. rows' = [rows EXCEPT ![d] = new] /\ Unfenced(rows[d])
      BY <2>1 DEF QueueDeviceOperation, CanQueueOp
    <2>3. h \in Hashes BY Site
    <2> HIDE DEF h
    <2>4. /\ new \in Row /\ new.pendingCs = rows[d].pendingCs /\ new.rolloutStatus = "QUEUED"
      BY <1>0, <2>3, QueueOpRow
    <2>5. rows[d].rolloutStatus # "RUNNING" BY <2>2 DEF Unfenced
    <2> HIDE DEF new
    <2> QED BY <1>u, <1>1, <2>2, <2>4, <2>5
  <1>4. CASE \E id \in OpIds, state \in OpTerminal : RecordDeviceOperationStatus(d, id, state)
    <2>1. PICK id \in OpIds, state \in OpTerminal : RecordDeviceOperationStatus(d, id, state) BY <1>4
    <2> DEFINE st == [id |-> id, hash |-> rows[d].pendingOp.hash,
                      gen |-> rows[d].pendingOp.gen, state |-> state]
               new == RecordOp(rows[d], st)
    <2>2. rows' = [rows EXCEPT ![d] = new] /\ rows[d].pendingOp.id = id
      BY <2>1 DEF RecordDeviceOperationStatus
    <2>3. rows[d].pendingOp \in Work(OpIds) \cup {NoWork} BY <1>0 DEF Row
    <2>4. st \in Status(OpIds, OpTerminal) BY <2>2, <2>3, Site DEF Work, NoWork, Status
    <2> HIDE DEF st
    <2>5. /\ new \in Row /\ new.pendingCs = rows[d].pendingCs
          /\ new.pendingOp \in {rows[d].pendingOp, NoWork}
          /\ new.rolloutStatus = "RUNNING" <=> rows[d].rolloutStatus = "RUNNING"
      BY <1>0, <2>4, RecordOpRow
    <2> HIDE DEF new
    <2>6. NoPending(rows[d]) => NoPending(new) BY <2>5 DEF NoPending
    <2> QED BY <1>u, <1>1, <2>2, <2>5, <2>6
  <1>5. CASE \E role \in Roles : UpdateDeviceRole(d, role)
    <2>1. PICK role \in Roles : UpdateDeviceRole(d, role) BY <1>5
    <2> DEFINE new == [rows[d] EXCEPT !.role = role]
    <2>2. rows' = [rows EXCEPT ![d] = new] /\ rows[d].rolloutStatus # "RUNNING"
      BY <1>0, <2>1 DEF UpdateDeviceRole
    <2>3. /\ new \in Row /\ new.pendingCs = rows[d].pendingCs
          /\ new.rolloutStatus = rows[d].rolloutStatus
      BY <1>0 DEF Row
    <2> HIDE DEF new
    <2> QED BY <1>u, <1>1, <2>2, <2>3
  <1> QED BY <1>2, <1>3, <1>4, <1>5

\* The agent: one more final state, for work that waits.
LEMMA ApplyEffect ==
    ASSUME TypeOK, NEW d \in Devices, NEW outcome \in Outcomes, AgentApply(d, outcome)
    PROVE  LET cs == rows[d].pendingCs
               st == [id |-> cs.id, hash |-> cs.hash, gen |-> cs.gen, state |-> outcome]
           IN  /\ TypeOK' /\ UNCHANGED <<rows, runs, workers, handlers, recording>>
               /\ cs \in Work(CsIds) /\ st \in Status(CsIds, CsTerminal)
               /\ \A old \in sent[d] : old.id # st.id
               /\ sent'[d] = sent[d] \cup {st} /\ \A e \in Devices \ {d} : sent'[e] = sent[e]
  <1> DEFINE cs == rows[d].pendingCs
             st == [id |-> cs.id, hash |-> cs.hash, gen |-> cs.gen, state |-> outcome]
  <1>1. rows[d] \in Row BY DEF TypeOK
  <1>2. cs \in Work(CsIds) BY <1>1 DEF AgentApply, Row
  <1>3. st \in Status(CsIds, CsTerminal) BY <1>2, Site DEF Work, Status
  <1>4. /\ UNCHANGED <<rows, runs, workers, handlers, recording>>
        /\ \A old \in sent[d] : old.id # st.id
        /\ sent' = [sent EXCEPT ![d] = sent[d] \cup {st}]
    BY DEF AgentApply
  <1> HIDE DEF st
  <1>5. SentType' BY <1>3, <1>4 DEF TypeOK, SentType
  <1>6. /\ sent'[d] = sent[d] \cup {st} /\ \A e \in Devices \ {d} : sent'[e] = sent[e]
    BY <1>4 DEF TypeOK
  <1>7. RunsType' /\ RunIds' = RunIds /\ SameTargets BY <1>4, RunsTypeSame
  <1>8. WorkersType' /\ HandlersType' BY <1>4, <1>7, ProcessesSame
  <1>9. TypeOK' BY <1>4, <1>5, <1>7, <1>8, TypeParts DEF TypeOK, RowsType
  <1> QED BY <1>2, <1>3, <1>4, <1>6, <1>9 DEF st

EntryOf(state) == [status |-> IF state = "COMMITTED" THEN "SUCCESS" ELSE "FAILED", cs |-> state]

\* The rollout takes a result: one entry, and the status that follows.
LEMMA ResultEffect ==
    ASSUME TypeOK, NEW d \in Devices, NEW st \in sent[d], RecordRolloutResult(d, st)
    PROVE  /\ TypeOK' /\ RunIds' = RunIds /\ UNCHANGED <<rows, workers, handlers, sent>>
           /\ \A r \in RunIds :
                /\ ~TakesResult(r, d, st) => runs'[r] = runs[r]
                /\ TakesResult(r, d, st) =>
                     /\ SamePlan(r) /\ SameLease(r) /\ runs'[r].claim = runs[r].claim
                     /\ runs'[r].cursor = runs[r].cursor /\ runs'[r].age = 0
                     /\ runs'[r].status = ResultStatus(r, d, st)
                     /\ runs'[r].results = [runs[r].results EXCEPT ![d] = EntryOf(st.state)]
  <1>0. runs \in [RunIds -> Run] /\ st \in Status(CsIds, CsTerminal) BY RunsMap DEF TypeOK
  <1>u. UNCHANGED <<rows, workers, handlers, sent>> BY DEF RecordRolloutResult
  <1> DEFINE new(r) == [runs[r] EXCEPT !.status = ResultStatus(r, d, st), !.age = 0,
                                       !.results[d] = EntryOf(st.state)]
  <1>1. runs' = [r \in RunIds |-> IF TakesResult(r, d, st) THEN new(r) ELSE runs[r]]
    BY DEF RecordRolloutResult, EntryOf
  <1>2. EntryOf(st.state) \in Entry BY <1>0 DEF EntryOf, Entry, Status, SshStatuses
  <1>3. ASSUME NEW r \in RunIds, TakesResult(r, d, st)
        PROVE  /\ new(r) \in Run /\ new(r).kind = runs[r].kind /\ new(r).roles = runs[r].roles
               /\ new(r).lease = runs[r].lease /\ new(r).worker = runs[r].worker
               /\ new(r).claim = runs[r].claim /\ new(r).cursor = runs[r].cursor /\ new(r).age = 0
               /\ new(r).status = ResultStatus(r, d, st)
               /\ new(r).results = [runs[r].results EXCEPT ![d] = EntryOf(st.state)]
               /\ DOMAIN new(r).results = DOMAIN runs[r].results
    <2> DEFINE results == [runs[r].results EXCEPT ![d] = EntryOf(st.state)]
               status == ResultStatus(r, d, st)
    <2>1. runs[r] \in Run /\ status \in RunStatuses /\ 0 \in 0 .. FenceWindow
      BY <1>0, StatusNames, Site
    <2>2. runs[r].results \in [DOMAIN runs[r].results -> Entry] /\ DOMAIN runs[r].results \subseteq Devices
      BY <2>1, PartialMap DEF Run
    <2>3. results \in [DOMAIN runs[r].results -> Entry] BY <1>2, <2>2
    <2>4. results \in Partial(Entry) /\ DOMAIN results = DOMAIN runs[r].results
      BY <2>2, <2>3, PartialMap
    <2>5. new(r) = [runs[r] EXCEPT !.status = status, !.age = 0, !.results = results]
      BY <2>1 DEF Run
    <2> HIDE DEF results, status, new
    <2>6. new(r) \in Run BY <2>1, <2>4, <2>5 DEF Run
    <2>7. /\ new(r).kind = runs[r].kind /\ new(r).roles = runs[r].roles
          /\ new(r).lease = runs[r].lease /\ new(r).worker = runs[r].worker
          /\ new(r).claim = runs[r].claim /\ new(r).cursor = runs[r].cursor /\ new(r).age = 0
          /\ new(r).status = status /\ new(r).results = results
      BY <2>1, <2>5 DEF Run
    <2> QED BY <2>4, <2>6, <2>7 DEF results, status
  <1> HIDE DEF new
  <1>4. runs' \in [RunIds -> Run] BY <1>0, <1>1, <1>3
  <1>5. \A r \in RunIds : DOMAIN runs'[r].results \in {{}, DOMAIN runs'[r].roles}
    <2>1. \A r \in RunIds : DOMAIN runs[r].results \in {{}, DOMAIN runs[r].roles}
      BY DEF TypeOK, Targets
    <2> QED BY <1>1, <1>3, <2>1
  <1>6. RunsType' /\ RunIds' = RunIds BY <1>4, <1>5, RunsTypeStep
  <1>7. SameTargets BY <1>1, <1>3 DEF SameTargets, Targets
  <1>8. WorkersType' /\ HandlersType' BY <1>u, <1>6, <1>7, ProcessesSame
  <1>9. TypeOK' BY <1>u, <1>6, <1>8, TypeParts DEF TypeOK, RowsType, SentType
  <1> QED BY <1>u, <1>1, <1>3, <1>6, <1>9 DEF SamePlan, SameLease

\* Time: ages grow, those of requests at least as fast as those of rollouts.
LEMMA TickEffect ==
    ASSUME TypeOK, Tick
    PROVE  /\ TypeOK' /\ RunIds' = RunIds /\ UNCHANGED <<rows, workers, sent, recording>>
           /\ \A r \in RunIds : /\ SameClaim(r) /\ SameLease(r) /\ SameResults(r)
                                /\ runs'[r].age \in {runs[r].age, runs[r].age + 1}
           /\ \A h \in Handlers : /\ handlers'[h].pc = handlers[h].pc
                                  /\ handlers'[h].run = handlers[h].run
                                  /\ handlers'[h].claimed = handlers[h].claimed
                                  /\ handlers[h].pc # "idle" => handlers'[h].age = handlers[h].age + 1
  <1>0. runs \in [RunIds -> Run] /\ handlers \in [Handlers -> Handler] BY RunsMap DEF TypeOK
  <1>u. UNCHANGED <<rows, workers, sent, recording>> BY DEF Tick
  <1>1. ASSUME NEW r \in RunIds
        PROVE  /\ runs'[r] \in Run
               /\ SameClaim(r) /\ SameLease(r) /\ SameResults(r)
               /\ runs'[r].age \in {runs[r].age, runs[r].age + 1}
    <2> DEFINE new == [runs[r] EXCEPT !.age = @ + 1]
    <2>1. runs[r] \in Run /\ runs[r].age \in 0 .. FenceWindow /\ FenceWindow \in Nat
      BY <1>0, Site DEF Run
    <2>2. runs'[r] = runs[r] \/ (runs[r].age < FenceWindow /\ runs'[r] = new)
      BY DEF Tick
    <2>3. ASSUME runs[r].age < FenceWindow PROVE new \in Run BY <2>1, <2>3 DEF Run
    <2>4. /\ new.kind = runs[r].kind /\ new.roles = runs[r].roles /\ new.status = runs[r].status
          /\ new.claim = runs[r].claim /\ new.lease = runs[r].lease /\ new.worker = runs[r].worker
          /\ new.cursor = runs[r].cursor /\ new.results = runs[r].results
          /\ new.age = runs[r].age + 1
      BY <2>1 DEF Run
    <2> HIDE DEF new
    <2> QED BY <2>1, <2>2, <2>3, <2>4 DEF SameClaim, SamePlan, SameLease, SameResults
  <1>2. ASSUME NEW h \in Handlers
        PROVE  /\ handlers'[h] \in Handler /\ handlers'[h].pc = handlers[h].pc
               /\ handlers'[h].run = handlers[h].run
               /\ handlers'[h].claimed = handlers[h].claimed
               /\ handlers[h].pc # "idle" => handlers'[h].age = handlers[h].age + 1
    <2> DEFINE new == [handlers[h] EXCEPT !.age = @ + 1]
    <2>1. handlers[h] \in Handler /\ handlers[h].age \in 0 .. ExecutionLimit /\ ExecutionLimit \in Nat
      BY <1>0, Site DEF Handler
    <2>2. \/ handlers[h].pc = "idle" /\ handlers'[h] = handlers[h]
          \/ handlers[h].pc # "idle" /\ handlers[h].age < ExecutionLimit /\ handlers'[h] = new
      BY DEF Tick
    <2>3. ASSUME handlers[h].age < ExecutionLimit PROVE new \in Handler BY <2>1, <2>3 DEF Handler
    <2>4. /\ new.pc = handlers[h].pc /\ new.run = handlers[h].run
          /\ new.claimed = handlers[h].claimed /\ new.age = handlers[h].age + 1
      BY <2>1 DEF Handler
    <2> HIDE DEF new
    <2> QED BY <2>1, <2>2, <2>3, <2>4
  <1>3. /\ runs' = [r \in RunIds |-> runs'[r]] /\ handlers' = [h \in Handlers |-> handlers'[h]]
    BY DEF Tick
  <1>4. runs' \in [RunIds -> Run] /\ handlers' \in [Handlers -> Handler] BY <1>1, <1>2, <1>3
  <1>5. \A r \in RunIds : DOMAIN runs'[r].results \in {{}, DOMAIN runs'[r].roles}
    <2>1. \A r \in RunIds : DOMAIN runs[r].results \in {{}, DOMAIN runs[r].roles}
      BY DEF TypeOK, Targets
    <2> QED BY <1>1, <2>1 DEF SameClaim, SamePlan, SameResults
  <1>6. RunsType' /\ RunIds' = RunIds BY <1>4, <1>5, RunsTypeStep
  <1>7. SameTargets BY <1>1 DEF SameTargets, Targets, SameClaim, SamePlan
  <1>8. WorkersType' BY <1>u, <1>6, <1>7, ProcessesSame
  <1>9. HandlersType' BY <1>2, <1>4, <1>6 DEF HandlersType, TypeOK
  <1>10. TypeOK' BY <1>u, <1>6, <1>8, <1>9, TypeParts DEF TypeOK, RowsType, SentType
  <1> QED BY <1>u, <1>1, <1>2, <1>6, <1>10

\* A crash forgets what one process holds in memory.
LEMMA CrashEffect ==
    ASSUME TypeOK, Crash
    PROVE  /\ TypeOK' /\ UNCHANGED <<rows, runs, sent>>
           /\ \A w \in Workers : workers'[w] \in {workers[w], IdleWorker}
           /\ \A h \in Handlers : handlers'[h] \in {handlers[h], IdleHandler}
  <1>u. UNCHANGED <<rows, runs, sent>> BY DEF Crash
  <1>r. RunsType' /\ RunIds' = RunIds /\ SameTargets BY <1>u, RunsTypeSame
  <1>i. /\ IdleWorker \in Worker /\ IdleWorker.pc = "idle"
        /\ IdleHandler \in Handler /\ IdleHandler.pc = "idle"
    BY IdleType DEF IdleWorker, IdleHandler
  <1>p. \/ workers' = workers
        \/ \E w \in Workers : workers' = [workers EXCEPT ![w] = IdleWorker]
    BY DEF Crash, Exit
  <1>q. \/ handlers' = handlers
        \/ \E h \in Handlers : handlers' = [handlers EXCEPT ![h] = IdleHandler]
    BY DEF Crash, EndRequest
  <1>1. WorkersType' BY <1>i, <1>p, <1>r, ProcessesSame, WorkersTypeStep
  <1>2. HandlersType' BY <1>i, <1>q, <1>r, ProcessesSame, HandlersTypeStep
  <1>3. TypeOK' BY <1>u, <1>r, <1>1, <1>2, TypeParts DEF TypeOK, RowsType, SentType
  <1>4. /\ \A w \in Workers : workers'[w] \in {workers[w], IdleWorker}
        /\ \A h \in Handlers : handlers'[h] \in {handlers[h], IdleHandler}
    BY <1>p, <1>q DEF TypeOK
  <1> QED BY <1>u, <1>3, <1>4

-----------------------------------------------------------------------------
(* Type correctness *)

\* The initial state has the types.
LEMMA InitType == Init => TypeOK
  <1> SUFFICES ASSUME Init PROVE TypeOK
    OBVIOUS
  <1>1. rows \in [Devices -> Row]
    <2>1. PICK capable \in [Devices -> Capable], role \in [Devices -> Roles] :
            rows = [d \in Devices |-> InitRow(capable[d], role[d])]
      BY DEF Init
    <2>2. ASSUME NEW c \in BOOLEAN, NEW x \in Roles PROVE InitRow(c, x) \in Row
      BY DEF InitRow, Row, RolloutStatuses
    <2>3. \A d \in Devices : capable[d] \in BOOLEAN /\ role[d] \in Roles BY <2>1, SiteAssumption
    <2> QED BY <2>1, <2>2, <2>3
  <1>2. runs = << >> /\ runs \in Seq(Run) /\ Len(runs) = 0 /\ RunIds = {}
    BY EmptyMap, EmptySeq DEF Init, RunIds
  <1>3. workers \in [Workers -> Worker] /\ \A w \in Workers : workers[w].pc = "idle"
    BY IdleType DEF Init, IdleWorker
  <1>4. handlers \in [Handlers -> Handler] /\ \A h \in Handlers : handlers[h].pc = "idle"
    BY IdleType DEF Init, IdleHandler
  <1>5. sent \in [Devices -> SUBSET Status(CsIds, CsTerminal)] BY DEF Init
  <1> QED BY <1>1, <1>2, <1>3, <1>4, <1>5, Site DEF TypeOK

\* The kinds of steps that Next has, as the proofs below go through them.
LEMMA NextCases ==
    ASSUME Next
    PROVE  \/ \E kind \in Kinds, targets \in TargetSets : CreateRolloutDraft(kind, targets)
           \/ \E r \in RunIds : RejectRolloutDraft(r)
           \/ \E r \in RunIds : ClaimAndQueueDeviceChangeSets(r)
           \/ \E r \in RunIds : LeaseExpires(r)
           \/ \E w \in Workers : ClaimQueuedRollout(w)
           \/ \E w \in Workers : ReadProgress(w)
           \/ \E w \in Workers : \/ UpdateRolloutWorkerCursor(w) \/ UpdateRolloutWorkerResults(w)
                                 \/ RenewRolloutLease(w)
           \/ \E w \in Workers : QueueNextPhase(w)
           \/ \E h \in Handlers : \/ \E r \in RunIds : VerifyRolloutDraftTargets(h, r)
                                  \/ ValidateClaimedDraft(h)
                                  \/ MarkRolloutDevicesRunning(h)
           \/ \E h \in Handlers : ClaimRolloutDraft(h)
           \/ \E h \in Handlers : \/ ReleaseRolloutDraft(h) \/ MarkRolloutDraftStale(h)
                                  \/ PersistRolloutResults(h) \/ MarkRolloutPersistenceFailure(h)
           \/ \E d \in Devices :
                 \/ \E st \in sent[d] : RecordDeviceChangeSetStatus(d, st)
                 \/ \E id \in OpIds : QueueDeviceOperation(d, id)
                 \/ \E id \in OpIds, state \in OpTerminal : RecordDeviceOperationStatus(d, id, state)
                 \/ \E role \in Roles : UpdateDeviceRole(d, role)
           \/ \E d \in Devices : \E st \in sent[d] : RecordRolloutResult(d, st)
           \/ \E d \in Devices, outcome \in Outcomes : AgentApply(d, outcome)
           \/ Tick
           \/ Crash
  BY DEF Next, WorkerStep, HandlerStep, Telemetry

\* Every step keeps the types.
LEMMA StepType ==
    ASSUME TypeOK, [Next]_vars
    PROVE  TypeOK'
  <1>1. CASE Next
    BY <1>1, NextCases, DraftEffect, RejectEffect, FirstPhaseEffect, ExpireEffect, LeaseEffect, ReadEffect, FencedEffect, QueueEffect,
       RequestEffect, ClaimDraftEffect, EndEffect, DeviceEffect, ResultEffect, ApplyEffect,
       TickEffect, CrashEffect
  <1>2. CASE UNCHANGED vars
    BY <1>2 DEF vars, TypeOK, RunIds, Targets
  <1> QED BY <1>1, <1>2

\* Type correctness of the site: the table is a sequence of rollouts, results
\* speak of a rollout's targets, processes of rollouts that exist.
THEOREM TypeCorrect == Spec => []TypeOK
  BY InitType, StepType, PTL DEF Spec

-----------------------------------------------------------------------------
(* Claims: steps that leave them alone *)

\* No rollout changes hands; a lease may run out, and ages may be reset.
QuietRuns ==
    /\ RunIds' = RunIds
    /\ \A r \in RunIds :
          /\ SameClaim(r) /\ DOMAIN runs'[r].results = DOMAIN runs[r].results
          /\ runs'[r].lease # "none" => runs[r].lease # "none"
          /\ runs'[r].lease = "live" => runs[r].lease = "live"

\* The part of the invariant that is about the table alone.
LEMMA QuietTable ==
    ASSUME ClaimInv, QuietRuns
    PROVE  /\ KindInv' /\ OneSsh' /\ Superseded' /\ OneLease'
           /\ \A r \in RunIds : Targets(r)' = Targets(r) /\ SshRunning(r)' = SshRunning(r)
  <1>1. \A r \in RunIds : /\ Targets(r)' = Targets(r) /\ SshRunning(r)' = SshRunning(r)
                          /\ LiveLease(r)' => LiveLease(r)
    BY DEF QuietRuns, SameClaim, SamePlan, Targets, SshRunning, LiveLease
  <1>2. KindInv' BY <1>1 DEF QuietRuns, SameClaim, SamePlan, ClaimInv, KindInv
  <1>3. OneSsh' BY <1>1 DEF QuietRuns, ClaimInv, OneSsh
  <1>4. Superseded' BY <1>1 DEF QuietRuns, SameClaim, ClaimInv, Superseded
  <1>5. OneLease' BY <1>1 DEF QuietRuns, ClaimInv, OneLease
  <1> QED BY <1>1, <1>2, <1>3, <1>4, <1>5

\* Nothing but ages, leases and entries changes.
LEMMA QuietStep ==
    ASSUME TypeOK, ClaimInv, QuietRuns, UNCHANGED <<rows, handlers>>,
           \A r \in RunIds : runs'[r].age \in {0, runs[r].age}
    PROVE  ClaimInv'
  <1>1. /\ KindInv' /\ OneSsh' /\ Superseded' /\ OneLease'
        /\ \A r \in RunIds : Targets(r)' = Targets(r)
    BY QuietTable
  <1>2. RunningIdle' BY DEF ClaimInv, RunningIdle
  <1>3. RunningHasOwner' BY <1>1 DEF QuietRuns, SameClaim, SamePlan, ClaimInv, RunningHasOwner
  <1>4. HandlerInv'
    <2> SUFFICES ASSUME NEW h \in Handlers PROVE HandlerOK(h)'
      BY DEF HandlerInv
    <2>1. handlers[h].pc # "idle" => handlers[h].run \in RunIds BY DEF TypeOK
    <2>2. handlers[h].age \in Nat BY DEF TypeOK, Handler
    <2>3. handlers[h].claimed => handlers[h].pc # "idle" BY DEF ClaimInv, HandlerInv, HandlerOK
    <2>4. handlers[h].pc # "idle" =>
            /\ SameClaim(handlers[h].run) /\ Targets(handlers[h].run)' = Targets(handlers[h].run)
            /\ runs'[handlers[h].run].age \in {0, runs[handlers[h].run].age}
      BY <1>1, <2>1 DEF QuietRuns
    <2> QED BY <2>2, <2>3, <2>4 DEF SameClaim, SamePlan, ClaimInv, HandlerInv, HandlerOK, HoldsClaim
  <1> QED BY <1>1, <1>2, <1>3, <1>4 DEF ClaimInv

\* A step that touches neither the table, the devices nor the requests.
LEMMA ClaimUntouched ==
    ASSUME TypeOK, ClaimInv, UNCHANGED <<rows, runs, handlers>>
    PROVE  ClaimInv'
  BY DEF ClaimInv, KindInv, OneSsh, Superseded, RunningIdle, RunningHasOwner, HandlerInv, HandlerOK, OneLease,
         RunIds, Targets, SshRunning, LiveLease, HoldsClaim

\* A step on the devices alone, which makes none RUNNING and gives none that is
\* RUNNING work.
LEMMA RowsStep ==
    ASSUME TypeOK, ClaimInv, UNCHANGED <<runs, handlers>>,
           \A d \in Devices : /\ rows'[d].rolloutStatus = "RUNNING" <=> rows[d].rolloutStatus = "RUNNING"
                              /\ rows[d].rolloutStatus = "RUNNING" /\ NoPending(rows[d])
                                    => NoPending(rows'[d])
    PROVE  ClaimInv'
  <1>1. KindInv' /\ OneSsh' /\ Superseded' /\ OneLease'
    BY DEF ClaimInv, KindInv, OneSsh, Superseded, OneLease, RunIds, Targets, SshRunning, LiveLease
  <1>2. RunningIdle' BY DEF ClaimInv, RunningIdle
  <1>3. RunningHasOwner' BY DEF ClaimInv, RunningHasOwner, RunIds, Targets
  <1>4. HandlerInv'
    <2> SUFFICES ASSUME NEW h \in Handlers PROVE HandlerOK(h)'
      BY DEF HandlerInv
    <2>1. handlers[h].pc = "execute" => Targets(handlers[h].run) \subseteq Devices
      BY RunsMap DEF TypeOK
    <2>2. HandlerOK(h) /\ (HoldsClaim(h)' <=> HoldsClaim(h)) /\ Targets(handlers[h].run)' = Targets(handlers[h].run)
      BY DEF ClaimInv, HandlerInv, HoldsClaim, Targets
    <2> QED BY <2>1, <2>2 DEF HandlerOK
  <1> QED BY <1>1, <1>2, <1>3, <1>4 DEF ClaimInv

-----------------------------------------------------------------------------
(* Claims: drafts and their claim *)

\* A request that drew the token is younger than the fence: while there is one,
\* no draft can be claimed; and a claim leaves no device RUNNING.
LEMMA ClaimFree ==
    ASSUME TypeOK, ClaimInv, NEW r \in RunIds, Claimable(r)
    PROVE  /\ \A h \in Handlers : ~handlers[h].claimed
           /\ \A d \in Devices : ClaimedRows[d].rolloutStatus # "RUNNING"
  <1>0. runs \in [RunIds -> Run] /\ rows \in [Devices -> Row] BY RunsMap DEF TypeOK
  <1>1. ASSUME NEW h \in Handlers, handlers[h].claimed PROVE FALSE
    <2>1. /\ runs[handlers[h].run].status = "RUNNING" /\ handlers[h].run \in RunIds
          /\ runs[handlers[h].run].age <= handlers[h].age
      BY <1>1 DEF ClaimInv, HandlerInv, HandlerOK, HoldsClaim, TypeOK
    <2>2. handlers[h].age \in 0 .. ExecutionLimit BY DEF TypeOK, Handler
    <2>3. runs[handlers[h].run].age \in 0 .. FenceWindow BY <1>0, <2>1 DEF Run
    <2>4. runs[handlers[h].run].age < FenceWindow BY <2>1, <2>2, <2>3, Site
    <2> QED BY <2>1, <2>4 DEF Claimable, Active
  <1>2. ASSUME NEW d \in Devices PROVE ClaimedRows[d].rolloutStatus # "RUNNING"
    <2>1. "FAILED" \in SshStatuses BY DEF SshStatuses
    <2>2. EndRunning(rows[d], "FAILED").rolloutStatus # "RUNNING" BY <1>0, <2>1, SshRow
    <2>3. CASE \E s \in RunIds : runs[s].status = "RUNNING"
      <3>1. ClaimedRows[d] = EndRunning(rows[d], "FAILED") BY <1>0, <2>3, ClaimEffect
      <3> QED BY <2>2, <3>1
    <2>4. CASE \A s \in RunIds : runs[s].status # "RUNNING"
      <3>1. ClaimedRows = rows BY <1>0, <2>4, ClaimEffect
      <3> QED BY <2>4, <3>1 DEF ClaimInv, RunningHasOwner
    <2> QED BY <2>3, <2>4
  <1> QED BY <1>1, <1>2

\* What a preview and a claim do to an older draft or an expired rollout.
LEMMA StaleTable ==
    ASSUME TypeOK
    PROVE  \A s \in RunIds : /\ AsStale(runs[s]).status = "STALE" /\ AsStale(runs[s]).kind = runs[s].kind
                             /\ AsStale(runs[s]).lease = runs[s].lease
                             /\ AsStale(runs[s]).roles = runs[s].roles
                             /\ AsStale(runs[s]).results = runs[s].results
  BY RunsMap, AsStaleRun

\* The preview.
LEMMA CreateClaims ==
    ASSUME TypeOK, ClaimInv, NEW kind \in Kinds, NEW targets \in TargetSets,
           CreateRolloutDraft(kind, targets)
    PROVE  ClaimInv'
  <1> DEFINE n == Len(runs) + 1
  <1>1. /\ RunIds' = RunIds \cup {n} /\ n \notin RunIds
        /\ SameTargets /\ \A r \in RunIds : r < n /\ r \in Nat
        /\ runs'[n] = NewRun(kind, [d \in targets |-> rows[d].role])
        /\ \A r \in RunIds : runs'[r] = IF runs[r].status = "DRAFT"
                                        THEN AsStale(runs[r]) ELSE runs[r]
    BY DraftEffect, RunsMap
  <1>2. UNCHANGED <<rows, handlers>> BY DEF CreateRolloutDraft
  <1>3. n \in Nat BY RunsMap
  <1> HIDE DEF n
  <1>4. /\ runs'[n].status = "DRAFT" /\ runs'[n].lease = "none" /\ DOMAIN runs'[n].results = {}
    BY <1>1, EmptyMap DEF NewRun
  <1>5. \A r \in RunIds : /\ runs'[r].kind = runs[r].kind /\ runs'[r].lease = runs[r].lease
                          /\ runs'[r].results = runs[r].results /\ Targets(r)' = Targets(r)
                          /\ runs[r].status # "DRAFT" => runs'[r] = runs[r]
                          /\ runs[r].status = "DRAFT" => runs'[r].status = "STALE"
    BY <1>1, StaleTable DEF SameTargets
  <1>6. KindInv' BY <1>1, <1>4, <1>5 DEF ClaimInv, KindInv
  <1>7. \A r \in RunIds' : /\ SshRunning(r)' => r \in RunIds /\ SshRunning(r)
                           /\ LiveLease(r)' => r \in RunIds /\ LiveLease(r)
    BY <1>1, <1>4, <1>5 DEF SshRunning, LiveLease
  <1>8. OneSsh' /\ OneLease' BY <1>7 DEF ClaimInv, OneSsh, OneLease
  <1>9. Superseded'
    <2> SUFFICES ASSUME NEW r \in RunIds', NEW s \in RunIds', r < s,
                        runs'[s].status \notin {"DRAFT", "STALE", "REJECTED"}
                 PROVE  runs'[r].status # "DRAFT" /\ ~SshRunning(r)'
      BY DEF Superseded
    <2>1. s \in RunIds /\ runs[s].status \notin {"DRAFT", "STALE", "REJECTED"} BY <1>1, <1>4, <1>5
    <2>2. r \in RunIds BY <1>1, <1>3, <2>1
    <2>3. runs[r].status # "DRAFT" /\ ~SshRunning(r) BY <2>1, <2>2 DEF ClaimInv, Superseded
    <2> QED BY <1>5, <1>7, <2>2, <2>3
  <1>10. RunningIdle' BY <1>2 DEF ClaimInv, RunningIdle
  <1>11. RunningHasOwner' BY <1>1, <1>2, <1>5 DEF ClaimInv, RunningHasOwner
  <1>12. HandlerInv'
    <2> SUFFICES ASSUME NEW h \in Handlers PROVE HandlerOK(h)'
      BY DEF HandlerInv
    <2>1. handlers[h].pc # "idle" => handlers[h].run \in RunIds BY DEF TypeOK
    <2>2. handlers[h].claimed => handlers[h].pc # "idle" BY DEF ClaimInv, HandlerInv, HandlerOK
    <2> QED BY <1>2, <1>5, <2>1, <2>2 DEF ClaimInv, HandlerInv, HandlerOK, HoldsClaim
  <1> QED BY <1>6, <1>8, <1>9, <1>10, <1>11, <1>12 DEF ClaimInv

\* A step that ends one draft.
LEMMA DraftEnds ==
    ASSUME TypeOK, ClaimInv, NEW r \in RunIds, runs[r].status = "DRAFT", RunIds' = RunIds,
           OthersSame(r), SamePlan(r), runs'[r].lease = runs[r].lease,
           runs'[r].status \in {"STALE", "REJECTED"},
           DOMAIN runs'[r].results = {}, UNCHANGED rows,
           \A h \in Handlers : handlers'[h] \in {handlers[h], IdleHandler}
    PROVE  ClaimInv'
  <1>1. \A s \in RunIds : /\ runs'[s].kind = runs[s].kind /\ runs'[s].lease = runs[s].lease
                          /\ Targets(s)' = Targets(s) /\ (s # r => runs'[s] = runs[s])
    BY DEF OthersSame, SamePlan, Targets
  <1>2. \A s \in RunIds : /\ SshRunning(s)' <=> SshRunning(s)
                          /\ LiveLease(s)' <=> LiveLease(s)
                          /\ runs'[s].status = "DRAFT" => runs[s].status = "DRAFT"
    BY <1>1 DEF SshRunning, LiveLease
  <1>3. KindInv' BY <1>1 DEF ClaimInv, KindInv
  <1>4. OneSsh' /\ OneLease' BY <1>2 DEF ClaimInv, OneSsh, OneLease
  <1>5. Superseded'
    <2>1. \A s \in RunIds : runs'[s].status \notin {"DRAFT", "STALE", "REJECTED"}
                              => runs[s].status \notin {"DRAFT", "STALE", "REJECTED"}
      BY <1>1
    <2> QED BY <1>2, <2>1 DEF ClaimInv, Superseded
  <1>6. RunningIdle' BY DEF ClaimInv, RunningIdle
  <1>7. RunningHasOwner' BY <1>1 DEF ClaimInv, RunningHasOwner
  <1>8. HandlerInv'
    <2> SUFFICES ASSUME NEW h \in Handlers PROVE HandlerOK(h)'
      BY DEF HandlerInv
    <2>1. CASE handlers'[h] = IdleHandler BY <2>1 DEF IdleHandler, HandlerOK
    <2>2. CASE handlers'[h] = handlers[h]
      <3>1. handlers[h].pc # "idle" => handlers[h].run \in RunIds BY DEF TypeOK
      <3>2. handlers[h].claimed => handlers[h].pc # "idle" BY DEF ClaimInv, HandlerInv, HandlerOK
      <3>3. handlers[h].claimed => handlers[h].run # r BY DEF ClaimInv, HandlerInv, HandlerOK, HoldsClaim
      <3>4. handlers[h].claimed => runs'[handlers[h].run] = runs[handlers[h].run] BY <1>1, <3>1, <3>2, <3>3
      <3>5. handlers[h].claimed => HoldsClaim(h)' BY <2>2, <3>4 DEF ClaimInv, HandlerInv, HandlerOK, HoldsClaim
      <3> QED BY <1>1, <2>2, <3>1, <3>4, <3>5 DEF ClaimInv, HandlerInv, HandlerOK
    <2> QED BY <2>1, <2>2
  <1> QED BY <1>3, <1>4, <1>5, <1>6, <1>7, <1>8 DEF ClaimInv

\* A claim: the rollout starts, everything older ends, and no device is RUNNING.
LEMMA ClaimStep ==
    ASSUME TypeOK, ClaimInv, NEW r \in RunIds, Claimable(r), RunIds' = RunIds,
           SamePlan(r), SameLease(r),
           \/ /\ runs'[r].status = "QUEUED" /\ runs[r].kind = "changeset"
              /\ DOMAIN runs'[r].results = Targets(r)
           \/ runs'[r].status = "RUNNING" /\ runs[r].kind = "ssh" /\ DOMAIN runs'[r].results = {},
           \A s \in RunIds \ {r} : runs'[s] = IF runs[s].status \in {"RUNNING", "DRAFT"}
                                              THEN AsStale(runs[s]) ELSE runs[s],
           \A d \in Devices : rows'[d].rolloutStatus # "RUNNING"
    PROVE  KindInv' /\ OneSsh' /\ Superseded' /\ RunningIdle' /\ RunningHasOwner' /\ OneLease'
  <1>1. \A s \in RunIds : /\ runs'[s].kind = runs[s].kind /\ runs'[s].lease = runs[s].lease
                          /\ Targets(s)' = Targets(s)
    BY StaleTable DEF SamePlan, SameLease, Targets
  <1>2. \A s \in RunIds \ {r} : /\ runs'[s].status \notin {"RUNNING", "DRAFT"}
                                /\ runs'[s].status \in {runs[s].status, "STALE"}
                                /\ runs'[s].results = runs[s].results
    BY StaleTable
  <1>3. KindInv'
    <2> SUFFICES ASSUME NEW s \in RunIds
                 PROVE  /\ runs'[s].status = "QUEUED" \/ runs'[s].lease # "none" => runs'[s].kind = "changeset"
                        /\ runs'[s].status \in {"QUEUED", "RUNNING"} /\ runs'[s].kind = "changeset"
                              => DOMAIN runs'[s].results = Targets(s)'
                        /\ runs'[s].status = "DRAFT" \/ (runs'[s].status = "RUNNING" /\ runs'[s].kind = "ssh")
                              => DOMAIN runs'[s].results = {}
      BY DEF KindInv
    <2>1. CASE s = r BY <1>1, <2>1 DEF ClaimInv, KindInv
    <2>2. CASE s # r BY <1>1, <1>2, <2>2 DEF ClaimInv, KindInv
    <2> QED BY <2>1, <2>2
  <1>4. OneSsh' /\ OneLease' BY <1>2 DEF OneSsh, OneLease, SshRunning, LiveLease
  <1>5. Superseded'
    <2> SUFFICES ASSUME NEW q \in RunIds, NEW s \in RunIds, q < s,
                        runs'[s].status \notin {"DRAFT", "STALE", "REJECTED"}
                 PROVE  runs'[q].status # "DRAFT" /\ ~SshRunning(q)'
      BY DEF Superseded
    <2>1. CASE q # r BY <1>2, <2>1 DEF SshRunning
    <2>2. CASE q = r
      <3>1. s # r BY <2>2, RunsMap
      <3>2. runs[s].status \notin {"DRAFT", "STALE", "REJECTED"} BY <1>2, <3>1, StaleTable
      <3>3. FALSE BY <2>2, <3>2 DEF ClaimInv, Superseded, Claimable
      <3> QED BY <3>3
    <2> QED BY <2>1, <2>2
  <1> QED BY <1>3, <1>4, <1>5 DEF RunningIdle, RunningHasOwner

\* The claim of a change set rollout.
LEMMA FirstPhaseClaims ==
    ASSUME TypeOK, ClaimInv, NEW r \in RunIds, ClaimAndQueueDeviceChangeSets(r)
    PROVE  ClaimInv'
  <1>1. /\ RunIds' = RunIds /\ SamePlan(r) /\ SameLease(r) /\ Claimable(r)
        /\ runs[r].kind = "changeset" /\ runs'[r].status = "QUEUED"
        /\ \A s \in RunIds \ {r} : runs'[s] = IF runs[s].status \in {"RUNNING", "DRAFT"}
                                              THEN AsStale(runs[s]) ELSE runs[s]
        /\ UNCHANGED handlers
    BY FirstPhaseEffect
  <1>2. PICK d \in Targets(r) : /\ rows' = [ClaimedRows EXCEPT ![d] = QueueCs(@, ChangeSet(r))]
                                /\ runs'[r].results = FirstEntries(r, d)
    BY FirstPhaseEffect
  <1>3. DOMAIN runs'[r].results = Targets(r) BY <1>2 DEF FirstEntries
  <1>4. /\ \A h \in Handlers : ~handlers[h].claimed
        /\ \A e \in Devices : ClaimedRows[e].rolloutStatus # "RUNNING"
    BY <1>1, ClaimFree
  <1>5. \A e \in Devices : rows'[e].rolloutStatus # "RUNNING"
    <2>1. r \in CsIds /\ d \in Devices /\ runs[r] \in Run BY RunsMap
    <2>2. ClaimedRows \in [Devices -> Row] BY <1>1, <2>1, ClaimEffect
    <2>3. QueueCs(ClaimedRows[d], ChangeSet(r)).rolloutStatus = "QUEUED"
      BY <2>1, <2>2, QueueCsRow
    <2> QED BY <1>2, <1>4, <2>2, <2>3
  <1>6. KindInv' /\ OneSsh' /\ Superseded' /\ RunningIdle' /\ RunningHasOwner' /\ OneLease'
    BY <1>1, <1>3, <1>5, ClaimStep
  <1>7. HandlerInv'
    <2> SUFFICES ASSUME NEW h \in Handlers PROVE HandlerOK(h)'
      BY DEF HandlerInv
    <2>1. HandlerOK(h) /\ ~handlers[h].claimed /\ handlers'[h] = handlers[h]
      BY <1>1, <1>4 DEF ClaimInv, HandlerInv
    <2>2. handlers[h].pc # "idle" => runs'[handlers[h].run].kind = runs[handlers[h].run].kind
      BY <1>1, StaleTable DEF TypeOK, SamePlan
    <2> QED BY <2>1, <2>2 DEF HandlerOK
  <1> QED BY <1>6, <1>7 DEF ClaimInv

\* A request that has ended.
LEMMA IdleOK == ASSUME NEW h \in Handlers, handlers'[h] = IdleHandler PROVE HandlerOK(h)'
  BY DEF IdleHandler, HandlerOK

\* Steps of the requests on memory alone.
LEMMA RequestsOnly ==
    ASSUME ClaimInv, UNCHANGED <<rows, runs>>,
           \A h \in Handlers : handlers'[h] = handlers[h] \/ HandlerOK(h)'
    PROVE  ClaimInv'
  <1>1. KindInv' /\ OneSsh' /\ Superseded' /\ RunningIdle' /\ RunningHasOwner' /\ OneLease'
    BY DEF ClaimInv, KindInv, OneSsh, Superseded, RunningIdle, RunningHasOwner, OneLease,
           RunIds, Targets, SshRunning, LiveLease
  <1>2. ASSUME NEW h \in Handlers, handlers'[h] = handlers[h] PROVE HandlerOK(h)'
    <2>1. HandlerOK(h) BY DEF ClaimInv, HandlerInv
    <2> QED BY <1>2, <2>1 DEF HandlerOK, HoldsClaim, Targets
  <1>3. HandlerInv' BY <1>2 DEF HandlerInv
  <1> QED BY <1>1, <1>3 DEF ClaimInv

\* Two requests that hold claims are one: a site has one SSH rollout.
LEMMA OneClaim ==
    ASSUME TypeOK, ClaimInv, NEW g \in Handlers, NEW h \in Handlers,
           handlers[g].claimed, handlers[h].claimed
    PROVE  g = h /\ SshRunning(handlers[h].run)
  <1>1. /\ HandlerOK(g) /\ HandlerOK(h)
        /\ handlers[g].pc # "idle" => handlers[g].run \in RunIds
        /\ handlers[h].pc # "idle" => handlers[h].run \in RunIds
    BY DEF ClaimInv, HandlerInv, TypeOK
  <1>2. SshRunning(handlers[g].run) /\ SshRunning(handlers[h].run)
    BY <1>1 DEF HandlerOK, HoldsClaim, SshRunning
  <1>3. handlers[g].run = handlers[h].run BY <1>1, <1>2 DEF HandlerOK, ClaimInv, OneSsh
  <1> QED BY <1>1, <1>2, <1>3 DEF HandlerOK, HoldsClaim

\* The claim of a draft over SSH.
LEMMA SshDraftClaims ==
    ASSUME TypeOK, ClaimInv, NEW h \in Handlers, ClaimRolloutDraft(h)
    PROVE  ClaimInv'
  <1> DEFINE r == handlers[h].run
  <1>1. /\ RunIds' = RunIds /\ r \in RunIds /\ handlers[h].pc = "claim"
        /\ handlers' = [handlers EXCEPT ![h] = handlers'[h]] /\ handlers \in [Handlers -> Handler]
        /\ HandlerOK(h)
    BY ClaimDraftEffect DEF TypeOK, ClaimInv, HandlerInv
  <1>2. CASE rows' = rows /\ runs' = runs /\ handlers'[h] = IdleHandler
    BY <1>1, <1>2, IdleOK, RequestsOnly
  <1>3. CASE /\ Claimable(r) /\ rows' = ClaimedRows
             /\ SamePlan(r) /\ SameLease(r) /\ SameResults(r)
             /\ runs'[r].status = "RUNNING" /\ runs'[r].claim = h /\ runs'[r].age = 0
             /\ \A s \in RunIds \ {r} : runs'[s] = IF runs[s].status \in {"RUNNING", "DRAFT"}
                                                   THEN AsStale(runs[s]) ELSE runs[s]
             /\ handlers'[h].pc = "validate" /\ handlers'[h].claimed
             /\ handlers'[h].run = r /\ handlers'[h].age = handlers[h].age
    <2>1. runs[r].kind = "ssh" /\ runs[r].status = "DRAFT" BY <1>1, <1>3 DEF HandlerOK, Claimable
    <2>2. DOMAIN runs'[r].results = {} BY <1>1, <1>3, <2>1 DEF ClaimInv, KindInv, SameResults
    <2>3. /\ \A g \in Handlers : ~handlers[g].claimed
          /\ \A e \in Devices : rows'[e].rolloutStatus # "RUNNING"
      BY <1>1, <1>3, ClaimFree
    <2> HIDE DEF r
    <2>4. KindInv' /\ OneSsh' /\ Superseded' /\ RunningIdle' /\ RunningHasOwner' /\ OneLease'
      BY <1>1, <1>3, <2>1, <2>2, <2>3, ClaimStep
    <2>5. HandlerInv'
      <3> SUFFICES ASSUME NEW g \in Handlers PROVE HandlerOK(g)'
        BY DEF HandlerInv
      <3>1. CASE g = h
        <4>1. runs'[r].kind = "ssh" /\ handlers[h].age \in Nat /\ HoldsClaim(h)'
          BY <1>1, <1>3, <2>1 DEF SamePlan, HoldsClaim, Handler
        <4> QED BY <1>3, <2>3, <3>1, <4>1 DEF HandlerOK
      <3>2. CASE g # h
        <4>1. HandlerOK(g) /\ ~handlers[g].claimed /\ handlers'[g] = handlers[g]
          BY <1>1, <2>3, <3>2 DEF ClaimInv, HandlerInv
        <4>2. handlers[g].pc # "idle" => runs'[handlers[g].run].kind = runs[handlers[g].run].kind
          BY <1>3, StaleTable DEF TypeOK, SamePlan
        <4> QED BY <4>1, <4>2 DEF HandlerOK
      <3> QED BY <3>1, <3>2
    <2> QED BY <2>4, <2>5 DEF ClaimInv
  <1> QED BY <1>2, <1>3, ClaimDraftEffect

\* The lease of a queued rollout.
LEMMA LeaseClaims ==
    ASSUME TypeOK, ClaimInv, NEW w \in Workers, ClaimQueuedRollout(w)
    PROVE  ClaimInv'
  <1>1. RunIds' = RunIds /\ UNCHANGED <<rows, handlers>> BY LeaseEffect
  <1>2. PICK r \in RunIds :
          /\ LeaseCandidate(r) /\ SiteUnleased /\ OthersSame(r)
          /\ SamePlan(r) /\ SameResults(r) /\ runs'[r].claim = runs[r].claim
          /\ runs'[r].status = "RUNNING" /\ runs'[r].lease = "live"
    BY LeaseEffect
  <1>3. runs[r].kind = "changeset" /\ DOMAIN runs[r].results = Targets(r)
    BY <1>2 DEF ClaimInv, KindInv, LeaseCandidate
  <1>4. \A s \in RunIds : /\ runs'[s].kind = runs[s].kind /\ Targets(s)' = Targets(s)
                          /\ runs'[s].results = runs[s].results
                          /\ s # r => runs'[s] = runs[s]
    BY <1>2 DEF OthersSame, SamePlan, SameResults, Targets
  <1>5. KindInv' BY <1>1, <1>2, <1>3, <1>4 DEF ClaimInv, KindInv
  <1>6. \A s \in RunIds : /\ SshRunning(s)' <=> SshRunning(s)
                          /\ LiveLease(s)' => s = r
                          /\ runs'[s].status = "DRAFT" => runs[s].status = "DRAFT"
                          /\ runs'[s].status \notin {"DRAFT", "STALE", "REJECTED"}
                                => runs[s].status \notin {"DRAFT", "STALE", "REJECTED"}
    BY <1>2, <1>3, <1>4 DEF SshRunning, LiveLease, SiteUnleased, LeaseCandidate
  <1>7. OneSsh' /\ OneLease' BY <1>1, <1>6 DEF ClaimInv, OneSsh, OneLease
  <1>8. Superseded' BY <1>1, <1>6 DEF ClaimInv, Superseded
  <1>9. RunningIdle' BY <1>1 DEF ClaimInv, RunningIdle
  <1>10. RunningHasOwner'
    <2>1. \A s \in RunIds : runs[s].status = "RUNNING" => runs'[s].status = "RUNNING" BY <1>2, <1>4
    <2> QED BY <1>1, <1>4, <2>1 DEF ClaimInv, RunningHasOwner
  <1>11. HandlerInv'
    <2> SUFFICES ASSUME NEW h \in Handlers PROVE HandlerOK(h)'
      BY DEF HandlerInv
    <2>1. HandlerOK(h) /\ handlers'[h] = handlers[h] BY <1>1 DEF ClaimInv, HandlerInv
    <2>2. handlers[h].pc # "idle" => runs'[handlers[h].run] = runs[handlers[h].run]
      <3>1. handlers[h].pc # "idle" => handlers[h].run \in RunIds /\ handlers[h].run # r
        BY <1>3, <2>1 DEF TypeOK, HandlerOK
      <3> QED BY <1>4, <3>1
    <2> QED BY <1>1, <2>1, <2>2 DEF HandlerOK, HoldsClaim, Targets
  <1> QED BY <1>5, <1>7, <1>8, <1>9, <1>10, <1>11 DEF ClaimInv

\* The statements of a worker on its rollout.
LEMMA WorkerClaims ==
    ASSUME TypeOK, ClaimInv, WorkerInv, NEW w \in Workers,
           \/ UpdateRolloutWorkerCursor(w) \/ UpdateRolloutWorkerResults(w) \/ RenewRolloutLease(w)
    PROVE  ClaimInv'
  <1> DEFINE r == workers[w].run
  <1>1. /\ RunIds' = RunIds /\ r \in RunIds /\ UNCHANGED <<rows, handlers>>
        /\ workers[w].pc # "idle"
        /\ OthersSame(r) /\ SameClaim(r) /\ SameLease(r) /\ runs'[r].age \in {0, runs[r].age}
        /\ runs'[r].results = runs[r].results
           \/ (workers[w].pc = "results" /\ runs'[r].results = workers[w].results)
    BY FencedEffect
  <1>2. /\ DOMAIN runs[r].results = Targets(r)
        /\ workers[w].pc = "results" => DOMAIN workers[w].results = Targets(r)
    BY <1>1 DEF WorkerInv, WorkerTrue, CopyTrue, Targets
  <1>3. \A s \in RunIds : s # r => runs'[s] = runs[s] BY <1>1 DEF OthersSame
  <1> HIDE DEF r
  <1>4. QuietRuns /\ \A s \in RunIds : runs'[s].age \in {0, runs[s].age}
    <2> SUFFICES ASSUME NEW s \in RunIds
                 PROVE  /\ SameClaim(s) /\ DOMAIN runs'[s].results = DOMAIN runs[s].results
                        /\ runs'[s].lease = runs[s].lease
                        /\ runs'[s].age \in {0, runs[s].age}
      BY <1>1 DEF QuietRuns
    <2>1. CASE s = r BY <1>1, <1>2, <2>1 DEF SameLease
    <2>2. CASE s # r BY <1>3, <2>2 DEF SameClaim, SamePlan
    <2> QED BY <2>1, <2>2
  <1> QED BY <1>1, <1>4, QuietStep

\* A lease that runs out.
LEMMA ExpireClaims ==
    ASSUME TypeOK, ClaimInv, NEW r \in RunIds, LeaseExpires(r)
    PROVE  ClaimInv'
  <1>1. /\ RunIds' = RunIds /\ OthersSame(r) /\ SameClaim(r) /\ SameResults(r)
        /\ runs'[r].age = runs[r].age /\ runs'[r].lease = "expired" /\ LiveLease(r)
        /\ UNCHANGED <<rows, handlers>>
    BY ExpireEffect
  <1>2. QuietRuns /\ \A s \in RunIds : runs'[s].age \in {0, runs[s].age}
    BY <1>1 DEF QuietRuns, OthersSame, SameClaim, SamePlan, SameResults, LiveLease
  <1> QED BY <1>1, <1>2, QuietStep

\* The next phase of a change set rollout.
LEMMA QueueClaims ==
    ASSUME TypeOK, ClaimInv, NEW w \in Workers, QueueNextPhase(w)
    PROVE  ClaimInv'
  <1> DEFINE r == workers[w].run
  <1>1. UNCHANGED <<runs, handlers>> /\ r \in CsIds BY QueueEffect, RunsMap
  <1>2. CASE rows' = rows BY <1>1, <1>2, ClaimUntouched
  <1>3. CASE rows' # rows
    <2>1. PICK d \in DOMAIN workers[w].results :
             /\ CanQueueCs(rows[d], ChangeSet(r), OtherActive(r))
             /\ rows' = [rows EXCEPT ![d] = QueueCs(@, ChangeSet(r))]
      BY <1>3, QueueEffect
    <2>2. rows \in [Devices -> Row] /\ d \in Devices
      <3>1. workers[w].results \in Partial(Entry) BY DEF TypeOK, Worker
      <3> QED BY <3>1, PartialMap DEF TypeOK
    <2> HIDE DEF r
    <2>3. rows[d].rolloutStatus # "RUNNING" BY <2>1 DEF CanQueueCs, Unfenced
    <2>4. QueueCs(rows[d], ChangeSet(r)).rolloutStatus = "QUEUED" BY <1>1, <2>2, QueueCsRow
    <2>5. /\ rows'[d].rolloutStatus = "QUEUED"
          /\ \A e \in Devices : e # d => rows'[e] = rows[e]
      BY <2>1, <2>2, <2>4
    <2> QED BY <1>1, <2>3, <2>5, RowsStep
  <1> QED BY <1>2, <1>3

\* The checks of a request, and the marking of its targets.
LEMMA RequestClaims ==
    ASSUME TypeOK, ClaimInv, NEW h \in Handlers,
           \/ \E r \in RunIds : VerifyRolloutDraftTargets(h, r)
           \/ ValidateClaimedDraft(h)
           \/ MarkRolloutDevicesRunning(h)
    PROVE  ClaimInv'
  <1> DEFINE r == handlers[h].run
  <1>1. /\ UNCHANGED runs /\ handlers \in [Handlers -> Handler] /\ HandlerOK(h)
        /\ handlers' = [handlers EXCEPT ![h] = handlers'[h]]
    BY RequestEffect DEF TypeOK, ClaimInv, HandlerInv
  <1>2. \A g \in Handlers : g # h => handlers'[g] = handlers[g] BY <1>1
  <1>3. CASE /\ rows' = rows /\ handlers[h].pc = "idle" /\ ~handlers'[h].claimed
             /\ handlers'[h].pc \in {"claim", "stale"} /\ runs[handlers'[h].run].kind = "ssh"
    <2>1. HandlerOK(h)' BY <1>1, <1>3 DEF HandlerOK
    <2> QED BY <1>1, <1>2, <1>3, <2>1, RequestsOnly
  <1>4. CASE /\ rows' = rows /\ handlers[h].pc \in {"validate", "mark"}
             /\ handlers'[h].pc \in {"mark", "release", "stale"}
             /\ handlers'[h].run = handlers[h].run /\ handlers'[h].age = handlers[h].age
             /\ handlers'[h].claimed = handlers[h].claimed
    <2>1. HandlerOK(h)' BY <1>1, <1>4 DEF HandlerOK, HoldsClaim
    <2> QED BY <1>1, <1>2, <1>4, <2>1, RequestsOnly
  <1>5. CASE /\ handlers[h].pc = "mark" /\ handlers'[h].pc = "execute"
             /\ handlers'[h].run = handlers[h].run /\ handlers'[h].age = handlers[h].age
             /\ handlers'[h].claimed = handlers[h].claimed
             /\ HoldsClaim(h) /\ Markable(r)
             /\ rows' = [d \in Devices |-> IF d \in Targets(r) THEN MarkRunning(rows[d]) ELSE rows[d]]
    <2>1. /\ handlers[h].claimed /\ SshRunning(r) /\ r \in RunIds /\ Targets(r) \subseteq Devices
          /\ \A d \in Devices : rows[d].rolloutStatus # "RUNNING"
      BY <1>1, <1>5, RunsMap DEF HandlerOK, HoldsClaim, SshRunning, TypeOK
    <2>2. \A d \in Devices : /\ rows'[d].rolloutStatus = "RUNNING" <=> d \in Targets(r)
                             /\ d \in Targets(r) => NoPending(rows'[d])
      <3> SUFFICES ASSUME NEW d \in Devices
                   PROVE  /\ rows'[d].rolloutStatus = "RUNNING" <=> d \in Targets(r)
                          /\ d \in Targets(r) => NoPending(rows'[d])
        OBVIOUS
      <3>1. rows[d] \in Row /\ "FAILED" \in SshStatuses BY DEF TypeOK, SshStatuses
      <3>2. /\ MarkRunning(rows[d]).rolloutStatus = "RUNNING"
            /\ MarkRunning(rows[d]).pendingOp = rows[d].pendingOp
            /\ MarkRunning(rows[d]).pendingCs = rows[d].pendingCs
        BY <3>1, SshRow
      <3>3. d \in Targets(r) => NoPending(rows[d]) BY <1>5 DEF Markable, CanMarkRunning, Unfenced
      <3> QED BY <1>5, <2>1, <3>2, <3>3 DEF NoPending
    <2>3. KindInv' /\ OneSsh' /\ Superseded' /\ OneLease'
      BY <1>1 DEF ClaimInv, KindInv, OneSsh, Superseded, OneLease, RunIds, Targets, SshRunning, LiveLease
    <2>4. RunningIdle' BY <2>2 DEF RunningIdle
    <2>5. RunningHasOwner'
      <3>1. /\ RunIds' = RunIds /\ Targets(r) = DOMAIN runs'[r].roles
            /\ runs'[r].status = "RUNNING" /\ runs'[r].kind = "ssh"
        BY <1>1, <2>1 DEF RunIds, Targets, SshRunning
      <3> HIDE DEF r
      <3> QED BY <2>1, <2>2, <3>1 DEF RunningHasOwner, Targets
    <2>6. HandlerInv'
      <3> SUFFICES ASSUME NEW g \in Handlers PROVE HandlerOK(g)'
        BY DEF HandlerInv
      <3>1. CASE g = h
        <4>1. HoldsClaim(h)' BY <1>1, <1>5 DEF HoldsClaim
        <4>2. \A d \in Targets(r) : rows'[d].rolloutStatus = "RUNNING" BY <2>1, <2>2
        <4>3. Targets(handlers[h].run)' = Targets(r) BY <1>1, <1>5 DEF Targets
        <4> QED BY <1>1, <1>5, <2>1, <3>1, <4>1, <4>2, <4>3 DEF HandlerOK
      <3>2. CASE g # h
        <4>1. HandlerOK(g) /\ ~handlers[g].claimed /\ handlers'[g] = handlers[g]
          BY <1>2, <2>1, <3>2, OneClaim DEF ClaimInv, HandlerInv
        <4> QED BY <1>1, <4>1 DEF HandlerOK
      <3> QED BY <3>1, <3>2
    <2> QED BY <2>3, <2>4, <2>5, <2>6 DEF ClaimInv
  <1> QED BY <1>3, <1>4, <1>5, RequestEffect

\* A claimed SSH rollout ends or is released, and no device is RUNNING then.
LEMMA ClaimEnds ==
    ASSUME TypeOK, ClaimInv, NEW h \in Handlers, handlers[h].claimed, RunIds' = RunIds,
           OthersSame(handlers[h].run), SamePlan(handlers[h].run), SameLease(handlers[h].run),
           \/ /\ runs'[handlers[h].run].status = "DRAFT"
              /\ runs'[handlers[h].run].results = runs[handlers[h].run].results
           \/ runs'[handlers[h].run].status
                 \in {"completed", "STALE", "aborted", "canary_failed", "FAILED"},
           \A d \in Devices : rows'[d].rolloutStatus # "RUNNING",
           handlers' = [handlers EXCEPT ![h] = IdleHandler]
    PROVE  ClaimInv'
  <1> DEFINE r == handlers[h].run
  <1>1. HandlerOK(h) /\ SshRunning(r) /\ r \in RunIds /\ handlers \in [Handlers -> Handler]
    BY OneClaim DEF ClaimInv, HandlerInv, HandlerOK, TypeOK
  <1>2. \A s \in RunIds : /\ runs'[s].kind = runs[s].kind /\ runs'[s].lease = runs[s].lease
                          /\ Targets(s)' = Targets(s) /\ (s # r => runs'[s] = runs[s])
    BY DEF OthersSame, SamePlan, SameLease, Targets
  <1>3. KindInv'
    <2>1. /\ runs[r].kind = "ssh" /\ runs[r].lease = "none" /\ DOMAIN runs[r].results = {}
      BY <1>1 DEF ClaimInv, KindInv, SshRunning
    <2>2. /\ runs'[r].kind = "ssh" /\ runs'[r].lease = "none"
          /\ runs'[r].status \notin {"QUEUED", "RUNNING"}
          /\ runs'[r].status = "DRAFT" => DOMAIN runs'[r].results = {}
      BY <1>1, <1>2, <2>1
    <2> HIDE DEF r
    <2> QED BY <1>2, <2>2 DEF ClaimInv, KindInv
  <1>4. \A s \in RunIds : /\ SshRunning(s)' => SshRunning(s) /\ s # r
                          /\ LiveLease(s)' => LiveLease(s)
    BY <1>2 DEF SshRunning, LiveLease
  <1>5. OneSsh' /\ OneLease' BY <1>4 DEF ClaimInv, OneSsh, OneLease
  <1>6. Superseded'
    <2> SUFFICES ASSUME NEW q \in RunIds, NEW s \in RunIds, q < s,
                        runs'[s].status \notin {"DRAFT", "STALE", "REJECTED"}
                 PROVE  runs'[q].status # "DRAFT" /\ ~SshRunning(q)'
      BY DEF Superseded
    <2>1. runs[s].status \notin {"DRAFT", "STALE", "REJECTED"} BY <1>1, <1>2 DEF SshRunning
    <2>2. runs[q].status # "DRAFT" /\ ~SshRunning(q) BY <2>1 DEF ClaimInv, Superseded
    <2>3. q # r BY <1>1, <2>2
    <2> QED BY <1>2, <1>4, <2>2, <2>3
  <1>7. RunningIdle' /\ RunningHasOwner' BY DEF RunningIdle, RunningHasOwner
  <1>8. HandlerInv'
    <2> SUFFICES ASSUME NEW g \in Handlers PROVE HandlerOK(g)'
      BY DEF HandlerInv
    <2>1. CASE g = h BY <1>1, <2>1, IdleOK
    <2>2. CASE g # h
      <3>1. HandlerOK(g) /\ ~handlers[g].claimed /\ handlers'[g] = handlers[g]
        BY <1>1, <2>2, OneClaim DEF ClaimInv, HandlerInv
      <3>2. handlers[g].pc # "idle" => runs'[handlers[g].run].kind = runs[handlers[g].run].kind
        BY <1>2 DEF TypeOK
      <3> QED BY <3>1, <3>2 DEF HandlerOK
    <2> QED BY <2>1, <2>2
  <1> QED BY <1>3, <1>5, <1>6, <1>7, <1>8 DEF ClaimInv

\* The end of a request.
LEMMA EndClaims ==
    ASSUME TypeOK, ClaimInv, NEW h \in Handlers,
           \/ ReleaseRolloutDraft(h) \/ MarkRolloutDraftStale(h)
           \/ PersistRolloutResults(h) \/ MarkRolloutPersistenceFailure(h)
    PROVE  ClaimInv'
  <1> DEFINE r == handlers[h].run
  <1>1. /\ RunIds' = RunIds /\ r \in RunIds /\ handlers \in [Handlers -> Handler]
        /\ handlers' = [handlers EXCEPT ![h] = handlers'[h]] /\ HandlerOK(h)
        /\ OthersSame(r) /\ SamePlan(r) /\ SameLease(r)
    BY EndEffect DEF TypeOK, ClaimInv, HandlerInv
  <1>2. \A g \in Handlers : g # h => handlers'[g] = handlers[g] BY <1>1
  <1>3. CASE rows' = rows /\ runs' = runs /\ handlers'[h] = IdleHandler
    BY <1>2, <1>3, IdleOK, RequestsOnly
  <1>4. CASE /\ rows' = rows /\ runs' = runs
             /\ handlers[h].pc = "execute" /\ handlers'[h].pc = "persistFailed"
             /\ handlers'[h].run = r /\ handlers'[h].age = handlers[h].age
             /\ handlers'[h].claimed = handlers[h].claimed
    <2>1. HandlerOK(h)' BY <1>1, <1>4 DEF HandlerOK, HoldsClaim
    <2> QED BY <1>2, <1>4, <2>1, RequestsOnly
  <1>5. CASE /\ HoldsClaim(h) /\ handlers[h].pc = "release" /\ rows' = rows
             /\ runs'[r].status = "DRAFT" /\ runs'[r].results = runs[r].results
             /\ handlers'[h] = IdleHandler
    <2>1. handlers[h].claimed /\ \A d \in Devices : rows'[d].rolloutStatus # "RUNNING"
      BY <1>1, <1>5 DEF HandlerOK
    <2> QED BY <1>1, <1>5, <2>1, ClaimEnds
  <1>6. CASE /\ runs[r].status = "DRAFT" /\ rows' = rows
             /\ runs'[r].status = "STALE" /\ runs'[r].results = runs[r].results
             /\ handlers'[h] = IdleHandler
    <2>1. DOMAIN runs'[r].results = {} BY <1>1, <1>6 DEF ClaimInv, KindInv
    <2>2. \A g \in Handlers : handlers'[g] \in {handlers[g], IdleHandler} BY <1>2, <1>6
    <2>3. runs'[r].lease = runs[r].lease BY <1>1 DEF SameLease
    <2> HIDE DEF r
    <2> QED BY <1>1, <1>6, <2>1, <2>2, <2>3, DraftEnds
  <1>7. CASE /\ HoldsClaim(h) /\ EndedRows(r)
             /\ runs'[r].status \in {"completed", "STALE", "aborted", "canary_failed", "FAILED"}
             /\ handlers'[h] = IdleHandler
    <2>1. handlers[h].claimed /\ SshRunning(r) BY <1>7, OneClaim DEF HoldsClaim
    <2>2. ASSUME NEW d \in Devices PROVE rows'[d].rolloutStatus # "RUNNING"
      <3>1. CASE d \in Targets(r) BY <1>7, <3>1 DEF EndedRows
      <3>2. CASE d \notin Targets(r)
        <4>1. rows[d].rolloutStatus # "RUNNING"
          BY <1>1, <2>1, <3>2 DEF ClaimInv, RunningHasOwner, OneSsh, SshRunning
        <4>2. rows[d] \in Row BY DEF TypeOK
        <4>3. \A status \in SshStatuses : EndRunning(rows[d], status) = rows[d]
          BY <4>1, <4>2, SshRow
        <4> QED BY <1>7, <4>1, <4>3 DEF EndedRows
      <3> QED BY <3>1, <3>2
    <2> QED BY <1>1, <1>7, <2>1, <2>2, ClaimEnds
  <1> QED BY <1>3, <1>4, <1>5, <1>6, <1>7, EndEffect

\* A result of a queued rollout.
LEMMA ResultClaims ==
    ASSUME TypeOK, ClaimInv, NEW d \in Devices, NEW st \in sent[d], RecordRolloutResult(d, st)
    PROVE  ClaimInv'
  <1>1. RunIds' = RunIds /\ UNCHANGED <<rows, handlers>> BY ResultEffect
  <1>2. ASSUME NEW r \in RunIds
        PROVE  /\ SamePlan(r) /\ SameLease(r) /\ DOMAIN runs'[r].results = DOMAIN runs[r].results
               /\ \/ runs'[r] = runs[r]
                  \/ /\ runs[r].status = "QUEUED"
                     /\ runs'[r].status \in {"QUEUED", "completed", "failed"}
    <2>1. CASE ~TakesResult(r, d, st)
      <3>1. runs'[r] = runs[r] BY <2>1, ResultEffect
      <3> QED BY <3>1 DEF SamePlan, SameLease
    <2>2. CASE TakesResult(r, d, st)
      <3>1. /\ SamePlan(r) /\ SameLease(r) /\ runs'[r].status = ResultStatus(r, d, st)
            /\ runs'[r].results = [runs[r].results EXCEPT ![d] = EntryOf(st.state)]
        BY <2>2, ResultEffect
      <3>2. DOMAIN runs'[r].results = DOMAIN runs[r].results BY <3>1
      <3>3. runs[r].status = "QUEUED" BY <2>2 DEF TakesResult
      <3> QED BY <3>1, <3>2, <3>3, StatusNames
    <2> QED BY <2>1, <2>2
  <1>3. \A r \in RunIds : /\ runs'[r].kind = runs[r].kind /\ runs'[r].lease = runs[r].lease
                          /\ Targets(r)' = Targets(r)
    BY <1>2 DEF SamePlan, SameLease, Targets
  <1>4. KindInv' BY <1>1, <1>2, <1>3 DEF ClaimInv, KindInv
  <1>5. \A s \in RunIds : /\ SshRunning(s)' <=> SshRunning(s)
                          /\ LiveLease(s)' <=> LiveLease(s)
                          /\ runs[s].status = "RUNNING" => runs'[s].status = "RUNNING"
                          /\ runs'[s].status = "DRAFT" => runs[s].status = "DRAFT"
                          /\ runs'[s].status \notin {"DRAFT", "STALE", "REJECTED"}
                                => runs[s].status \notin {"DRAFT", "STALE", "REJECTED"}
    BY <1>2, <1>3 DEF SshRunning, LiveLease
  <1>6. OneSsh' /\ OneLease' BY <1>1, <1>5 DEF ClaimInv, OneSsh, OneLease
  <1>7. Superseded' BY <1>1, <1>5 DEF ClaimInv, Superseded
  <1>8. RunningIdle' BY <1>1 DEF ClaimInv, RunningIdle
  <1>9. RunningHasOwner' BY <1>1, <1>3, <1>5 DEF ClaimInv, RunningHasOwner
  <1>10. HandlerInv'
    <2> SUFFICES ASSUME NEW h \in Handlers PROVE HandlerOK(h)'
      BY DEF HandlerInv
    <2>1. HandlerOK(h) /\ handlers'[h] = handlers[h] BY <1>1 DEF ClaimInv, HandlerInv
    <2>2. handlers[h].pc # "idle" => runs'[handlers[h].run] = runs[handlers[h].run]
      <3>1. handlers[h].pc # "idle" => handlers[h].run \in RunIds /\ runs[handlers[h].run].kind = "ssh"
        BY <2>1 DEF TypeOK, HandlerOK
      <3>2. handlers[h].pc # "idle" => runs[handlers[h].run].status # "QUEUED"
        BY <3>1 DEF ClaimInv, KindInv
      <3> QED BY <1>2, <3>1, <3>2
    <2> QED BY <1>1, <2>1, <2>2 DEF HandlerOK, HoldsClaim, Targets
  <1> QED BY <1>4, <1>6, <1>7, <1>8, <1>9, <1>10 DEF ClaimInv

\* Time.
LEMMA TickClaims ==
    ASSUME TypeOK, ClaimInv, Tick
    PROVE  ClaimInv'
  <1>1. /\ RunIds' = RunIds /\ UNCHANGED rows
        /\ \A r \in RunIds : /\ SameClaim(r) /\ SameLease(r) /\ SameResults(r)
                             /\ runs'[r].age \in {runs[r].age, runs[r].age + 1}
        /\ \A h \in Handlers : /\ handlers'[h].pc = handlers[h].pc
                               /\ handlers'[h].run = handlers[h].run
                               /\ handlers'[h].claimed = handlers[h].claimed
                               /\ handlers[h].pc # "idle" => handlers'[h].age = handlers[h].age + 1
    BY TickEffect
  <1>2. QuietRuns BY <1>1 DEF QuietRuns, SameLease, SameResults
  <1>3. /\ KindInv' /\ OneSsh' /\ Superseded' /\ OneLease'
        /\ \A r \in RunIds : Targets(r)' = Targets(r)
    BY <1>2, QuietTable
  <1>4. RunningIdle' BY <1>1 DEF ClaimInv, RunningIdle
  <1>5. RunningHasOwner' BY <1>1, <1>3 DEF SameClaim, SamePlan, ClaimInv, RunningHasOwner
  <1>6. HandlerInv'
    <2> SUFFICES ASSUME NEW h \in Handlers PROVE HandlerOK(h)'
      BY DEF HandlerInv
    <2>1. HandlerOK(h) BY DEF ClaimInv, HandlerInv
    <2>2. handlers[h].pc # "idle" =>
            /\ handlers[h].run \in RunIds /\ SameClaim(handlers[h].run)
            /\ runs[handlers[h].run].age \in Nat /\ handlers[h].age \in Nat
            /\ runs'[handlers[h].run].age \in {runs[handlers[h].run].age, runs[handlers[h].run].age + 1}
            /\ Targets(handlers[h].run)' = Targets(handlers[h].run)
      BY <1>1, <1>3, RunsMap DEF TypeOK, Run, Handler, Targets
    <2>3. handlers[h].claimed => HoldsClaim(h)' /\ runs'[handlers[h].run].age <= handlers'[h].age
      BY <1>1, <2>1, <2>2 DEF HandlerOK, HoldsClaim, SameClaim
    <2> QED BY <1>1, <2>1, <2>2, <2>3 DEF HandlerOK, SameClaim, SamePlan
  <1> QED BY <1>3, <1>4, <1>5, <1>6 DEF ClaimInv

\* Initially there is no rollout.
LEMMA InitClaims == Init => ClaimInv
  <1> SUFFICES ASSUME Init PROVE ClaimInv
    OBVIOUS
  <1>1. RunIds = {} BY EmptyMap DEF Init, RunIds
  <1>2. \A h \in Handlers : handlers[h].pc = "idle" /\ ~handlers[h].claimed
    BY DEF Init, IdleHandler
  <1>3. \A d \in Devices : rows[d].rolloutStatus # "RUNNING"
    <2>1. PICK capable \in [Devices -> Capable], role \in [Devices -> Roles] :
            rows = [d \in Devices |-> InitRow(capable[d], role[d])]
      BY DEF Init
    <2>2. \A c, x : InitRow(c, x).rolloutStatus = "" BY DEF InitRow
    <2> QED BY <2>1, <2>2
  <1>4. KindInv /\ OneSsh /\ Superseded /\ OneLease
    BY <1>1 DEF KindInv, OneSsh, Superseded, OneLease
  <1>5. RunningIdle /\ RunningHasOwner BY <1>3 DEF RunningIdle, RunningHasOwner
  <1>6. HandlerInv BY <1>2 DEF HandlerInv, HandlerOK
  <1> QED BY <1>4, <1>5, <1>6 DEF ClaimInv

\* Every step keeps the claims.
LEMMA StepClaims ==
    ASSUME TypeOK, ClaimInv, WorkerInv, [Next]_vars
    PROVE  ClaimInv'
  <1>1. CASE Next
    <2>1. CASE \E kind \in Kinds, targets \in TargetSets : CreateRolloutDraft(kind, targets)
      BY <2>1, CreateClaims
    <2>2. CASE \E r \in RunIds : RejectRolloutDraft(r)
      <3>1. PICK r \in RunIds : RejectRolloutDraft(r) BY <2>2
      <3>2. /\ runs[r].status = "DRAFT" /\ RunIds' = RunIds /\ OthersSame(r) /\ SamePlan(r)
            /\ runs'[r].lease = runs[r].lease /\ runs'[r].status = "REJECTED"
            /\ DOMAIN runs'[r].results = {} /\ UNCHANGED <<rows, handlers>>
        BY <3>1, RejectEffect, EmptyMap DEF SameLease
      <3> QED BY <3>2, DraftEnds
    <2>3. CASE \E r \in RunIds : ClaimAndQueueDeviceChangeSets(r) BY <2>3, FirstPhaseClaims
    <2>4. CASE \E r \in RunIds : LeaseExpires(r) BY <2>4, ExpireClaims
    <2>5. CASE \E w \in Workers : ClaimQueuedRollout(w) BY <2>5, LeaseClaims
    <2>6. CASE \E w \in Workers : ReadProgress(w)
      <3>1. UNCHANGED <<rows, runs, handlers>> BY <2>6 DEF ReadProgress
      <3> QED BY <3>1, ClaimUntouched
    <2>7. CASE \E w \in Workers : \/ UpdateRolloutWorkerCursor(w) \/ UpdateRolloutWorkerResults(w)
                                  \/ RenewRolloutLease(w)
      BY <2>7, WorkerClaims
    <2>8. CASE \E w \in Workers : QueueNextPhase(w) BY <2>8, QueueClaims
    <2>9. CASE \E h \in Handlers : \/ \E r \in RunIds : VerifyRolloutDraftTargets(h, r)
                                   \/ ValidateClaimedDraft(h)
                                   \/ MarkRolloutDevicesRunning(h)
      BY <2>9, RequestClaims
    <2>10. CASE \E h \in Handlers : ClaimRolloutDraft(h) BY <2>10, SshDraftClaims
    <2>11. CASE \E h \in Handlers : \/ ReleaseRolloutDraft(h) \/ MarkRolloutDraftStale(h)
                                    \/ PersistRolloutResults(h) \/ MarkRolloutPersistenceFailure(h)
      BY <2>11, EndClaims
    <2>12. CASE \E d \in Devices :
                 \/ \E st \in sent[d] : RecordDeviceChangeSetStatus(d, st)
                 \/ \E id \in OpIds : QueueDeviceOperation(d, id)
                 \/ \E id \in OpIds, state \in OpTerminal : RecordDeviceOperationStatus(d, id, state)
                 \/ \E role \in Roles : UpdateDeviceRole(d, role)
      <3>1. PICK d \in Devices :
              /\ UNCHANGED <<runs, handlers>> /\ \A e \in Devices \ {d} : rows'[e] = rows[e]
              /\ rows'[d].rolloutStatus = "RUNNING" <=> rows[d].rolloutStatus = "RUNNING"
              /\ rows[d].rolloutStatus = "RUNNING" /\ NoPending(rows[d]) => NoPending(rows'[d])
        BY <2>12, DeviceEffect
      <3> QED BY <3>1, RowsStep
    <2>13. CASE \E d \in Devices : \E st \in sent[d] : RecordRolloutResult(d, st)
      BY <2>13, ResultClaims
    <2>14. CASE \E d \in Devices, outcome \in Outcomes : AgentApply(d, outcome)
      <3>1. UNCHANGED <<rows, runs, handlers>> BY <2>14 DEF AgentApply
      <3> QED BY <3>1, ClaimUntouched
    <2>15. CASE Tick BY <2>15, TickClaims
    <2>16. CASE Crash
      <3>1. /\ UNCHANGED <<rows, runs>>
            /\ \A h \in Handlers : handlers'[h] \in {handlers[h], IdleHandler}
        BY <2>16, CrashEffect
      <3> QED BY <3>1, IdleOK, RequestsOnly
    <2> QED BY <1>1, <2>1, <2>2, <2>3, <2>4, <2>5, <2>6, <2>7, <2>8, <2>9, <2>10, <2>11, <2>12,
               <2>13, <2>14, <2>15, <2>16, NextCases
  <1>2. CASE UNCHANGED vars BY <1>2, ClaimUntouched DEF vars
  <1> QED BY <1>1, <1>2

-----------------------------------------------------------------------------
(* Phases: counting final entries *)

\* Two devices of a rollout are in different phases.
LEMMA EarlierTotal ==
    ASSUME NEW roles, NEW d \in Nat, NEW e \in Nat, d # e
    PROVE  Earlier(roles, d, e) \/ Earlier(roles, e, d)
  BY DEF Earlier

\* The relation that Rollout uses.
LEMMA BeforeIsEarlier ==
    \A r, d, e : Before(r, d, e) <=> Earlier(runs[r].roles, d, e)
  BY DEF Before, Earlier

\* A final entry is one with a state of the agent; success is COMMITTED.
LEMMA Finality ==
    ASSUME NEW entry \in Entry, NEW S, NEW r, EntryTrue(S, r, entry)
    PROVE  /\ Terminal(entry) <=> entry.cs # ""
           /\ Succeeded(entry) <=> entry.cs = "COMMITTED"
  BY DEF EntryTrue, Entry, Terminal, Succeeded, CsTerminal

\* More final entries, a greater count.
LEMMA CountGrows ==
    ASSUME NEW old \in Partial(Entry), NEW new \in Partial(Entry), DOMAIN old = DOMAIN new,
           NEW S, NEW r, \A d \in DOMAIN old : EntryTrue(S[d], r, old[d]),
           \A d \in DOMAIN old : old[d].cs # "" => new[d].cs = old[d].cs
    PROVE  TerminalCount(old) <= TerminalCount(new)
  <1> DEFINE A == {d \in DOMAIN old : Terminal(old[d])}
             B == {d \in DOMAIN new : Terminal(new[d])}
  <1>1. /\ old \in [DOMAIN old -> Entry] /\ new \in [DOMAIN new -> Entry] /\ IsFiniteSet(DOMAIN new)
    BY PartialMap
  <1>2. A \subseteq B
    <2> SUFFICES ASSUME NEW d \in DOMAIN old, Terminal(old[d]) PROVE Terminal(new[d])
      OBVIOUS
    <2>1. old[d] \in Entry /\ new[d] \in Entry /\ EntryTrue(S[d], r, old[d]) BY <1>1
    <2>2. old[d].cs # "" BY <2>1, Finality
    <2>3. new[d].cs # "" BY <2>2
    <2> QED BY <2>1, <2>3 DEF Terminal, Entry
  <1>3. IsFiniteSet(B) BY <1>1, FS_Subset
  <1>4. Cardinality(A) <= Cardinality(B) BY <1>2, <1>3, FS_Subset
  <1> QED BY <1>4 DEF TerminalCount

\* The number of a device's phase, from the roles.
PhaseNumber(roles, n) == Cardinality({e \in DOMAIN roles : Earlier(roles, e, n)})

\* A copy with as many final entries as device n has predecessors, none of them a
\* failure, while n itself waits: the predecessors have committed.
LEMMA PhaseReached ==
    ASSUME NEW copy \in Partial(Entry), NEW run, NEW S, NEW r, CopyTrue(copy, r, run, S),
           FailureCount(copy) = 0, NEW n \in DOMAIN copy, copy[n].cs = "",
           TerminalCount(copy) = PhaseNumber(run.roles, n)
    PROVE  \A e \in DOMAIN run.roles : Earlier(run.roles, e, n) => copy[e].cs = "COMMITTED"
  <1> DEFINE roles == run.roles
             T == {d \in DOMAIN copy : Terminal(copy[d])}
             P == {e \in DOMAIN roles : Earlier(roles, e, n)}
             F == {d \in DOMAIN copy : Terminal(copy[d]) /\ ~Succeeded(copy[d])}
  <1>0. /\ DOMAIN copy = DOMAIN roles /\ \A d \in DOMAIN copy : EntryTrue(S[d], r, copy[d])
        /\ \A d, e \in DOMAIN copy :
              copy[d].cs # "" /\ Earlier(roles, e, d) => copy[e].cs = "COMMITTED"
    BY DEF CopyTrue
  <1> HIDE DEF roles
  <1>1. /\ copy \in [DOMAIN copy -> Entry] /\ IsFiniteSet(DOMAIN copy) /\ DOMAIN copy \subseteq Nat
    BY PartialMap, Site
  <1>2. \A d \in DOMAIN copy : /\ Terminal(copy[d]) <=> copy[d].cs # ""
                               /\ Succeeded(copy[d]) <=> copy[d].cs = "COMMITTED"
    BY <1>0, <1>1, Finality
  <1>3. T \subseteq P
    <2> SUFFICES ASSUME NEW t \in DOMAIN copy, Terminal(copy[t]) PROVE Earlier(roles, t, n)
      BY <1>0
    <2>1. copy[t].cs # "" /\ t # n BY <1>2
    <2>2. ~Earlier(roles, n, t) BY <1>0, <2>1
    <2> QED BY <1>1, <2>1, <2>2, EarlierTotal
  <1>4. IsFiniteSet(P) BY <1>0, <1>1, FS_Subset
  <1>5. Cardinality(T) = Cardinality(P) BY DEF TerminalCount, PhaseNumber, roles
  <1>6. T = P BY <1>3, <1>4, <1>5, FS_Subset
  <1>7. F = {}
    <2>1. IsFiniteSet(F) BY <1>1, FS_Subset
    <2> QED BY <2>1, FS_EmptySet DEF FailureCount
  <1>8. \A e \in DOMAIN roles : Earlier(roles, e, n) => copy[e].cs = "COMMITTED"
    BY <1>0, <1>2, <1>6, <1>7
  <1> QED BY <1>8 DEF roles

-----------------------------------------------------------------------------
(* Phases: what every step keeps *)

\* A rollout keeps its plan and its final entries.
Grown(old, new) ==
    /\ new.kind = old.kind /\ new.roles = old.roles
    /\ old.kind = "changeset" /\ DOMAIN old.results = DOMAIN old.roles =>
          /\ DOMAIN new.results = DOMAIN new.roles
          /\ \A d \in DOMAIN old.results :
                old.results[d].cs # "" => new.results[d] = old.results[d]

SentGrows == \A d \in Devices : sent[d] \subseteq sent'[d]

\* What was true of an entry stays true.
LEMMA EntryKept ==
    ASSUME NEW S, NEW S2, S \subseteq S2, NEW r, NEW entry, EntryTrue(S, r, entry)
    PROVE  EntryTrue(S2, r, entry)
  BY DEF EntryTrue

\* A row whose entries and cursor stay, and that is not completed by this step.
LEMMA RunKept ==
    ASSUME TypeOK, SentGrows, NEW r \in RunIds, RunTrue(r, runs[r], sent), SamePlan(r),
           runs[r].kind = "changeset" => SameResults(r),
           runs'[r].status = "completed" => runs[r].status = "completed" \/ runs[r].kind = "ssh"
    PROVE  /\ RunTrue(r, runs'[r], sent') /\ Grown(runs[r], runs'[r])
  <1>1. DOMAIN runs[r].roles \subseteq Devices /\ DOMAIN runs[r].results \subseteq Devices
    BY RunsMap, PartialMap DEF Targets, Run
  <1>2. CASE runs[r].kind # "changeset"
    BY <1>2 DEF RunTrue, Grown, SamePlan
  <1>3. CASE runs[r].kind = "changeset"
    <2>1. /\ runs'[r].results = runs[r].results /\ runs'[r].cursor = runs[r].cursor
          /\ runs'[r].roles = runs[r].roles /\ runs'[r].kind = runs[r].kind
          /\ runs'[r].status = "completed" => runs[r].status = "completed"
      BY <1>3 DEF SameResults, SamePlan
    <2>2. \A d \in DOMAIN runs[r].results : EntryTrue(sent'[d], r, runs[r].results[d])
      BY <1>1, <1>3, EntryKept DEF RunTrue, SentGrows
    <2>3. runs[r].status = "completed" => \A d \in DOMAIN runs[r].roles :
                                \E st \in sent'[d] : st.id = r /\ st.state = "COMMITTED"
      BY <1>1, <1>3 DEF RunTrue, SentGrows
    <2>4. RunTrue(r, runs'[r], sent') BY <1>3, <2>1, <2>2, <2>3 DEF RunTrue
    <2>5. Grown(runs[r], runs'[r]) BY <2>1 DEF Grown
    <2> QED BY <2>4, <2>5
  <1> QED BY <1>2, <1>3

\* A gate that is open stays open.
LEMMA GateKept ==
    ASSUME NEW old, NEW new, NEW d, Grown(old, new), GateOpen(old, d)
    PROVE  GateOpen(new, d)
  BY DEF Grown, GateOpen

\* The token and the entries that a worker's copy depends on.
FenceKept(old, new, w) == FencedBy(new, w) => FencedBy(old, w) /\ new.results = old.results

\* What a worker holds stays true while its rollout grows.
LEMMA WorkerKept ==
    ASSUME TypeOK, TypeOK', SentGrows, NEW w \in Workers, workers'[w] = workers[w],
           workers[w].pc # "idle", RunTrue(workers[w].run, runs[workers[w].run], sent),
           WorkerTrue(w, workers[w], runs[workers[w].run], sent),
           Grown(runs[workers[w].run], runs'[workers[w].run]),
           FenceKept(runs[workers[w].run], runs'[workers[w].run], w)
    PROVE  WorkerTrue(w, workers'[w], runs'[workers'[w].run], sent')
  <1> DEFINE r == workers[w].run
             old == runs[r]
             new == runs'[r]
             copy == workers[w].results
             cursor == workers[w].cursor
  <1>1. /\ workers[w] \in Worker /\ r \in RunIds /\ r \in RunIds'
        /\ old \in Run /\ new \in Run
    <2>1. workers[w] \in Worker /\ r \in RunIds BY DEF TypeOK
    <2>2. workers'[w].pc # "idle" => workers'[w].run \in RunIds' BY DEF TypeOK
    <2>3. runs' \in [RunIds' -> Run] BY LenProperties DEF TypeOK, RunIds
    <2> QED BY <2>1, <2>2, <2>3, RunsMap
  <1>2. /\ old.results \in Partial(Entry) /\ new.results \in Partial(Entry)
        /\ copy \in Partial(Entry) /\ cursor \in Nat /\ DOMAIN copy \subseteq Devices
    <2>1. old.results \in Partial(Entry) /\ new.results \in Partial(Entry) BY <1>1 DEF Run
    <2>2. copy \in Partial(Entry) /\ cursor \in 0 .. Cardinality(Devices) BY <1>1 DEF Worker
    <2>3. DOMAIN copy \subseteq Devices BY <2>2, PartialMap
    <2> QED BY <2>1, <2>2, <2>3
  <1>3. /\ old.kind = "changeset" /\ DOMAIN old.results = DOMAIN old.roles
        /\ cursor <= TerminalCount(old.results)
        /\ workers[w].pc \in {"cursor", "queue", "results"} =>
              CopyTrue(copy, r, old, sent) /\ (FencedBy(old, w) => CopyCurrent(copy, old))
        /\ workers[w].pc = "queue" => TerminalCount(copy) = cursor /\ FailureCount(copy) = 0
        /\ \A d \in DOMAIN old.results : EntryTrue(sent[d], r, old.results[d])
    BY DEF WorkerTrue, RunTrue
  <1>4. /\ new.kind = "changeset" /\ new.roles = old.roles /\ DOMAIN new.results = DOMAIN new.roles
        /\ \A d \in DOMAIN old.results : old.results[d].cs # "" => new.results[d] = old.results[d]
        /\ FencedBy(new, w) => FencedBy(old, w) /\ new.results = old.results
    BY <1>3 DEF Grown, FenceKept
  <1>w. workers'[w] = workers[w] OBVIOUS
  <1> HIDE DEF old, new, copy, cursor, r
  <1>5. cursor <= TerminalCount(new.results)
    <2>1. TerminalCount(old.results) <= TerminalCount(new.results) BY <1>2, <1>3, <1>4, CountGrows
    <2>2. TerminalCount(old.results) \in Nat /\ TerminalCount(new.results) \in Nat
      BY <1>2, CountType
    <2> QED BY <1>2, <1>3, <2>1, <2>2
  <1>6. CopyTrue(copy, r, old, sent) => CopyTrue(copy, r, new, sent')
    <2> SUFFICES ASSUME CopyTrue(copy, r, old, sent) PROVE CopyTrue(copy, r, new, sent')
      OBVIOUS
    <2>1. \A d \in DOMAIN copy : EntryTrue(sent'[d], r, copy[d])
      BY <1>2, EntryKept DEF CopyTrue, SentGrows
    <2>2. \A d \in DOMAIN copy : copy[d].cs # "" => new.results[d].cs = copy[d].cs
      BY <1>3, <1>4 DEF CopyTrue
    <2> QED BY <1>4, <2>1, <2>2 DEF CopyTrue
  <1>7. (FencedBy(old, w) => CopyCurrent(copy, old)) => (FencedBy(new, w) => CopyCurrent(copy, new))
    BY <1>4 DEF CopyCurrent
  <1>8. WorkerTrue(w, workers[w], new, sent')
    BY <1>3, <1>4, <1>5, <1>6, <1>7 DEF WorkerTrue, copy, cursor, r
  <1> QED BY <1>w, <1>8 DEF new, r

\* The shape of every step: rows of the table stay true and grow, hand-outs pass
\* the gate, and workers that move are shown to be right.
LEMMA PhaseStep ==
    ASSUME TypeOK, TypeOK', PhaseInv, RunIds \subseteq RunIds', SentGrows, SentOnce',
           \A r \in RunIds : Grown(runs[r], runs'[r]),
           \A r \in RunIds' : RunTrue(r, runs'[r], sent'),
           \A r \in CsIds, d \in Devices :
              HandedOut(r, d)' => HandedOut(r, d) \/ (r \in RunIds' /\ GateOpen(runs'[r], d)),
           \A w \in Workers :
              \/ /\ workers'[w] = workers[w]
                 /\ workers[w].pc # "idle" =>
                       FenceKept(runs[workers[w].run], runs'[workers[w].run], w)
              \/ workers'[w].pc = "idle"
              \/ WorkerTrue(w, workers'[w], runs'[workers'[w].run], sent')
    PROVE  PhaseInv'
  <1>1. RunsTrue' BY DEF RunsTrue
  <1>2. RecordedGate' BY GateKept DEF PhaseInv, RecordedGate
  <1>3. WorkerInv'
    <2> SUFFICES ASSUME NEW w \in Workers, workers'[w].pc # "idle"
                 PROVE  WorkerTrue(w, workers'[w], runs'[workers'[w].run], sent')
      BY DEF WorkerInv
    <2>1. CASE /\ workers'[w] = workers[w]
               /\ workers[w].pc # "idle" => FenceKept(runs[workers[w].run], runs'[workers[w].run], w)
      <3>1. workers[w].pc # "idle" /\ workers[w].run \in RunIds BY <2>1 DEF TypeOK
      <3>2. /\ RunTrue(workers[w].run, runs[workers[w].run], sent)
            /\ WorkerTrue(w, workers[w], runs[workers[w].run], sent)
            /\ Grown(runs[workers[w].run], runs'[workers[w].run])
        BY <3>1 DEF PhaseInv, RunsTrue, WorkerInv
      <3> QED BY <2>1, <3>1, <3>2, WorkerKept
    <2>2. CASE WorkerTrue(w, workers'[w], runs'[workers'[w].run], sent') BY <2>2
    <2> QED BY <2>1, <2>2
  <1> QED BY <1>1, <1>2, <1>3 DEF PhaseInv
-----------------------------------------------------------------------------
(* Phases: the actions *)

\* Steps that leave the rows of the table, the agents and the hand-outs alone.
LEMMA TableStep ==
    ASSUME TypeOK, TypeOK', PhaseInv, RunIds' = RunIds, UNCHANGED <<workers, sent>>,
           \A r \in RunIds : SamePlan(r) /\ (runs[r].kind = "changeset" => SameResults(r)),
           \A r \in RunIds : runs[r].kind = "changeset" =>
              /\ runs'[r].status = "completed" => runs[r].status = "completed"
              /\ \A w \in Workers : FencedBy(runs'[r], w) => FencedBy(runs[r], w),
           \A d \in Devices : rows'[d].pendingCs \in {rows[d].pendingCs, NoWork}
    PROVE  PhaseInv'
  <1>1. SentGrows /\ SentOnce' BY DEF SentGrows, SentOnce, PhaseInv
  <1>2. \A r \in RunIds : runs[r].kind \in {"changeset", "ssh"} BY RunsMap, Site DEF Run
  <1>3. \A r \in RunIds : RunTrue(r, runs'[r], sent') /\ Grown(runs[r], runs'[r])
    BY <1>1, <1>2, RunKept DEF PhaseInv, RunsTrue
  <1>4. \A r \in CsIds, d \in Devices : HandedOut(r, d)' => HandedOut(r, d)
    BY Site DEF HandedOut, Applied, NoWork
  <1>5. ASSUME NEW w \in Workers, workers[w].pc # "idle"
        PROVE  FenceKept(runs[workers[w].run], runs'[workers[w].run], w)
    <2>1. /\ workers[w].run \in RunIds /\ runs[workers[w].run].kind = "changeset"
      BY <1>5 DEF TypeOK, PhaseInv, WorkerInv, WorkerTrue
    <2> QED BY <2>1 DEF FenceKept, SameResults
  <1> QED BY <1>1, <1>3, <1>4, <1>5, PhaseStep

\* Nothing but the rows of the devices changes, and nothing is queued.
LEMMA PhaseUntouched ==
    ASSUME TypeOK, TypeOK', PhaseInv, UNCHANGED <<runs, workers, sent>>,
           \A d \in Devices : rows'[d].pendingCs \in {rows[d].pendingCs, NoWork}
    PROVE  PhaseInv'
  <1>1. RunIds' = RunIds /\ \A r \in RunIds : SamePlan(r) /\ SameResults(r)
    BY DEF RunIds, SamePlan, SameResults
  <1> QED BY <1>1, TableStep

\* A preview: the new row has no entries, older drafts become stale.
LEMMA CreatePhases ==
    ASSUME TypeOK, PhaseInv, NEW kind \in Kinds, NEW targets \in TargetSets,
           CreateRolloutDraft(kind, targets)
    PROVE  PhaseInv'
  <1> DEFINE n == Len(runs) + 1
             new == NewRun(kind, [d \in targets |-> rows[d].role])
  <1>1. /\ TypeOK' /\ RunIds' = RunIds \cup {n} /\ runs'[n] = new
        /\ \A r \in RunIds : runs'[r] = IF runs[r].status = "DRAFT" THEN AsStale(runs[r]) ELSE runs[r]
    BY DraftEffect
  <1>2. UNCHANGED <<rows, workers, sent>> BY DEF CreateRolloutDraft
  <1>3. SentGrows /\ SentOnce' BY <1>2 DEF SentGrows, SentOnce, PhaseInv
  <1>4. \A r \in RunIds : SamePlan(r) /\ SameResults(r)
                          /\ runs'[r].status \in {runs[r].status, "STALE"}
                          /\ (runs'[r].status = "RUNNING" => runs'[r] = runs[r])
    BY <1>1, RunsMap, AsStaleRun DEF SamePlan, SameResults
  <1>5. \A r \in RunIds : RunTrue(r, runs'[r], sent') /\ Grown(runs[r], runs'[r])
    BY <1>3, <1>4, RunKept DEF PhaseInv, RunsTrue
  <1>6. RunTrue(n, runs'[n], sent')
    <2>1. new.results = << >> /\ new.cursor = 0 /\ new.status = "DRAFT" BY DEF NewRun
    <2>2. TerminalCount(<< >>) \in Nat BY EmptyMap, CountType
    <2> HIDE DEF new
    <2> QED BY <1>1, <2>1, <2>2, EmptyMap DEF RunTrue
  <1>7. \A r \in CsIds, d \in Devices : HandedOut(r, d)' => HandedOut(r, d)
    BY <1>2 DEF HandedOut, Applied
  <1>8. ASSUME NEW w \in Workers, workers[w].pc # "idle"
        PROVE  FenceKept(runs[workers[w].run], runs'[workers[w].run], w)
    <2>1. workers[w].run \in RunIds BY <1>8 DEF TypeOK
    <2> QED BY <1>4, <2>1 DEF FenceKept, FencedBy
  <1>9. \A r \in RunIds' : RunTrue(r, runs'[r], sent') BY <1>1, <1>5, <1>6
  <1> HIDE DEF n, new
  <1> QED BY <1>1, <1>2, <1>3, <1>5, <1>7, <1>8, <1>9, PhaseStep

\* A row without entries has no final ones.
LEMMA EmptyCount == TerminalCount(<< >>) = 0
  <1>1. {d \in DOMAIN << >> : Terminal(<< >>[d])} = {} BY EmptyMap
  <1> QED BY <1>1, FS_EmptySet DEF TerminalCount

\* A map from no device is << >>.
LEMMA NoEntries ==
    ASSUME NEW f \in Partial(Entry), DOMAIN f = {}
    PROVE  f = << >>
  BY PartialMap, EmptyMap

\* A draft that is rejected had no entries.
LEMMA RejectPhases ==
    ASSUME TypeOK, ClaimInv, PhaseInv, NEW r \in RunIds, RejectRolloutDraft(r)
    PROVE  PhaseInv'
  <1>1. /\ TypeOK' /\ RunIds' = RunIds /\ OthersSame(r) /\ SamePlan(r)
        /\ runs[r].status = "DRAFT" /\ runs'[r].status = "REJECTED"
        /\ runs'[r].cursor = runs[r].cursor /\ runs'[r].results = << >>
        /\ UNCHANGED <<rows, workers, sent>>
    BY RejectEffect
  <1>2. DOMAIN runs[r].results = {} BY <1>1 DEF ClaimInv, KindInv
  <1>3. runs[r].results \in Partial(Entry) BY RunsMap DEF Run
  <1>4. runs[r].results = << >> BY <1>2, <1>3, NoEntries
  <1>5. SameResults(r) BY <1>1, <1>4 DEF SameResults
  <1>6. \A s \in RunIds : /\ SamePlan(s) /\ SameResults(s)
                          /\ runs'[s].status = "completed" => runs[s].status = "completed"
                          /\ \A w \in Workers : FencedBy(runs'[s], w) => FencedBy(runs[s], w)
    BY <1>1, <1>5 DEF OthersSame, SamePlan, SameResults, FencedBy
  <1> QED BY <1>1, <1>6, TableStep
\* Phase 0: no device is earlier.
LEMMA FirstDevice ==
    ASSUME TypeOK, NEW r \in RunIds, NEW d, Phase(r, d) = 0
    PROVE  \A e \in Targets(r) : ~Earlier(runs[r].roles, e, d)
  <1> DEFINE P == {e \in Targets(r) : Before(r, e, d)}
  <1>1. P \in SUBSET Devices BY RunsMap
  <1>2. IsFiniteSet(P) BY <1>1, FS_Subset, Site
  <1>3. P = {} BY <1>2, FS_EmptySet DEF Phase
  <1> QED BY <1>3, BeforeIsEarlier

\* The entries of a rollout that starts.
LEMMA FirstEntriesTrue ==
    ASSUME NEW r, NEW d, NEW S
    PROVE  /\ DOMAIN FirstEntries(r, d) = Targets(r)
           /\ \A e \in Targets(r) : EntryTrue(S[e], r, FirstEntries(r, d)[e])
  BY DEF FirstEntries, NoResult, EntryTrue

\* The claim of a change set rollout: nobody has read its row before, and the
\* device that is handed the change set is in the first phase.
LEMMA FirstPhasePhases ==
    ASSUME TypeOK, ClaimInv, PhaseInv, NEW r \in RunIds, ClaimAndQueueDeviceChangeSets(r)
    PROVE  PhaseInv'
  <1>1. /\ TypeOK' /\ RunIds' = RunIds /\ SamePlan(r) /\ Claimable(r)
        /\ runs[r].kind = "changeset"
        /\ runs'[r].status = "QUEUED" /\ runs'[r].cursor = runs[r].cursor
        /\ \A s \in RunIds \ {r} : runs'[s] = IF runs[s].status \in {"RUNNING", "DRAFT"}
                                              THEN AsStale(runs[s]) ELSE runs[s]
        /\ UNCHANGED <<workers, sent>>
    BY FirstPhaseEffect
  <1>2. PICK d \in Targets(r) :
          /\ Phase(r, d) = 0 /\ rows' = [ClaimedRows EXCEPT ![d] = QueueCs(@, ChangeSet(r))]
          /\ runs'[r].results = FirstEntries(r, d)
    BY FirstPhaseEffect
  <1>3. runs[r] \in Run /\ r \in CsIds /\ d \in Devices BY RunsMap
  <1>4. SentGrows /\ SentOnce' BY <1>1 DEF SentGrows, SentOnce, PhaseInv
  <1>5. runs[r].status = "DRAFT" BY <1>1 DEF Claimable
  <1>6. DOMAIN runs[r].results = {} BY <1>5 DEF ClaimInv, KindInv
  <1>7. DOMAIN runs[r].results # DOMAIN runs[r].roles BY <1>6 DEF Targets
  <1>8. \A s \in RunIds \ {r} : /\ SamePlan(s) /\ SameResults(s)
                                /\ runs'[s].status \in {runs[s].status, "STALE"}
                                /\ (runs'[s].status = "RUNNING" => runs'[s] = runs[s])
    BY <1>1, RunsMap, AsStaleRun DEF SamePlan, SameResults
  <1>9. \A s \in RunIds \ {r} : RunTrue(s, runs'[s], sent') /\ Grown(runs[s], runs'[s])
    BY <1>4, <1>8, RunKept DEF PhaseInv, RunsTrue
  <1>10. Grown(runs[r], runs'[r]) BY <1>1, <1>7 DEF Grown, SamePlan
  <1>11. /\ DOMAIN runs'[r].results = Targets(r)
         /\ \A e \in DOMAIN runs'[r].results : EntryTrue(sent'[e], r, runs'[r].results[e])
    BY <1>2, FirstEntriesTrue
  <1>12. runs'[r].cursor <= TerminalCount(runs'[r].results)
    <2>1. runs[r].results \in Partial(Entry) /\ runs[r].cursor \in 0 .. Cardinality(Devices)
      BY <1>3 DEF Run
    <2>2. runs[r].results = << >> BY <2>1, <1>6, NoEntries
    <2>3. runs[r].cursor <= 0 BY <1>1, <2>2, EmptyCount DEF PhaseInv, RunsTrue, RunTrue
    <2>4. runs'[r] \in Run BY <1>1, RunsMap, LenProperties DEF TypeOK, RunIds
    <2>5. runs'[r].results \in Partial(Entry) BY <2>4 DEF Run
    <2>6. TerminalCount(runs'[r].results) \in Nat BY <2>5, CountType
    <2> QED BY <1>1, <2>1, <2>3, <2>6
  <1>13. RunTrue(r, runs'[r], sent') BY <1>1, <1>11, <1>12 DEF RunTrue
  <1>14. GateOpen(runs'[r], d)
    <2>1. \A e \in Targets(r) : ~Earlier(runs[r].roles, e, d) BY <1>2, FirstDevice
    <2> QED BY <1>1, <1>11, <2>1 DEF GateOpen, SamePlan, Targets
  <1>15. \A s \in CsIds, e \in Devices :
            HandedOut(s, e)' => HandedOut(s, e) \/ (s = r /\ e = d)
    <2>1. /\ ClaimedRows \in [Devices -> Row]
          /\ \A e \in Devices : ClaimedRows[e].pendingCs = rows[e].pendingCs
      BY <1>1, <1>3, ClaimEffect
    <2>2. QueueCs(ClaimedRows[d], ChangeSet(r)).pendingCs.id = r
      BY <1>3, <2>1, QueueCsRow
    <2>3. /\ rows'[d].pendingCs.id = r
          /\ \A e \in Devices \ {d} : rows'[e].pendingCs = rows[e].pendingCs
      BY <1>2, <1>3, <2>1, <2>2
    <2> QED BY <1>1, <2>3 DEF HandedOut, Applied
  <1>16. ASSUME NEW w \in Workers, workers[w].pc # "idle"
         PROVE  FenceKept(runs[workers[w].run], runs'[workers[w].run], w)
    <2>1. workers[w].run \in RunIds /\ workers[w].run # r
      BY <1>7, <1>16 DEF TypeOK, PhaseInv, WorkerInv, WorkerTrue
    <2> QED BY <1>8, <2>1 DEF FenceKept, FencedBy
  <1>17. /\ \A s \in RunIds : Grown(runs[s], runs'[s])
         /\ \A s \in RunIds' : RunTrue(s, runs'[s], sent')
    BY <1>1, <1>9, <1>10, <1>13
  <1>18. \A s \in CsIds, e \in Devices :
            HandedOut(s, e)' => HandedOut(s, e) \/ (s \in RunIds' /\ GateOpen(runs'[s], e))
    BY <1>1, <1>14, <1>15
  <1> QED BY <1>1, <1>4, <1>16, <1>17, <1>18, PhaseStep

\* A worker takes the lease: what it copies is the cursor of the row.
LEMMA LeasePhases ==
    ASSUME TypeOK, ClaimInv, PhaseInv, NEW w \in Workers, ClaimQueuedRollout(w)
    PROVE  PhaseInv'
  <1>1. TypeOK' /\ RunIds' = RunIds /\ UNCHANGED <<rows, sent>> BY LeaseEffect
  <1>2. PICK r \in RunIds :
          /\ LeaseCandidate(r) /\ OthersSame(r) /\ SamePlan(r) /\ SameResults(r)
          /\ runs'[r].status = "RUNNING" /\ runs'[r].worker = w
          /\ workers[w].pc = "idle" /\ workers' = [workers EXCEPT ![w] = workers'[w]]
          /\ workers'[w].pc = "read" /\ workers'[w].run = r /\ workers'[w].cursor = runs[r].cursor
    BY LeaseEffect
  <1>3. SentGrows /\ SentOnce' BY <1>1 DEF SentGrows, SentOnce, PhaseInv
  <1>4. \A s \in RunIds : /\ SamePlan(s) /\ SameResults(s)
                          /\ runs'[s].status = "completed" => runs[s].status = "completed"
    BY <1>2 DEF OthersSame, SamePlan, SameResults
  <1>5. \A s \in RunIds : RunTrue(s, runs'[s], sent') /\ Grown(runs[s], runs'[s])
    BY <1>3, <1>4, RunKept DEF PhaseInv, RunsTrue
  <1>6. \A s \in CsIds, d \in Devices : HandedOut(s, d)' => HandedOut(s, d)
    BY <1>1 DEF HandedOut, Applied
  <1>7. WorkerTrue(w, workers'[w], runs'[r], sent')
    <2>1. runs[r].kind = "changeset" /\ DOMAIN runs[r].results = DOMAIN runs[r].roles
      BY <1>2 DEF LeaseCandidate, ClaimInv, KindInv, Targets
    <2>2. runs[r].cursor <= TerminalCount(runs[r].results)
      BY <2>1 DEF PhaseInv, RunsTrue, RunTrue
    <2> QED BY <1>2, <2>1, <2>2 DEF WorkerTrue, SamePlan, SameResults
  <1>8. ASSUME NEW v \in Workers \ {w}, workers[v].pc # "idle"
        PROVE  FenceKept(runs[workers[v].run], runs'[workers[v].run], v)
    <2>1. workers[v].run \in RunIds BY <1>8 DEF TypeOK
    <2> QED BY <1>2, <2>1 DEF FenceKept, FencedBy, OthersSame
  <1>w. workers \in [Workers -> Worker] BY DEF TypeOK
  <1>9. \A v \in Workers \ {w} : workers'[v] = workers[v] BY <1>2, <1>w
  <1> QED BY <1>1, <1>2, <1>3, <1>5, <1>6, <1>7, <1>8, <1>9, PhaseStep
\* A step of a worker that writes the row of its rollout only under its lease.
LEMMA LeasedStep ==
    ASSUME TypeOK, TypeOK', PhaseInv, NEW w \in Workers, workers[w].run \in RunIds,
           RunIds' = RunIds, OthersSame(workers[w].run),
           \/ runs'[workers[w].run] = runs[workers[w].run]
           \/ /\ Fenced(w) /\ SameClaim(workers[w].run) /\ SameLease(workers[w].run)
              /\ Grown(runs[workers[w].run], runs'[workers[w].run])
              /\ RunTrue(workers[w].run, runs'[workers[w].run], sent'),
           UNCHANGED sent,
           \A r \in CsIds, d \in Devices :
              HandedOut(r, d)' => HandedOut(r, d) \/ (r \in RunIds' /\ GateOpen(runs'[r], d)),
           workers' = [workers EXCEPT ![w] = workers'[w]],
           \/ workers'[w].pc = "idle"
           \/ WorkerTrue(w, workers'[w], runs'[workers'[w].run], sent')
    PROVE  PhaseInv'
  <1> DEFINE r == workers[w].run
  <1>1. SentGrows /\ SentOnce' BY DEF SentGrows, SentOnce, PhaseInv
  <1>2. ASSUME NEW s \in RunIds, runs'[s] = runs[s]
        PROVE  RunTrue(s, runs'[s], sent') /\ Grown(runs[s], runs'[s])
    BY <1>2 DEF PhaseInv, RunsTrue, Grown
  <1>3. /\ \A s \in RunIds : Grown(runs[s], runs'[s])
        /\ \A s \in RunIds' : RunTrue(s, runs'[s], sent')
    BY <1>2 DEF OthersSame
  <1>4. workers \in [Workers -> Worker] BY DEF TypeOK
  <1>5. \A v \in Workers \ {w} : workers'[v] = workers[v] BY <1>4
  <1>6. ASSUME NEW v \in Workers \ {w}, workers[v].pc # "idle"
        PROVE  FenceKept(runs[workers[v].run], runs'[workers[v].run], v)
    <2>1. workers[v].run \in RunIds BY <1>6 DEF TypeOK
    <2>2. CASE runs'[workers[v].run] = runs[workers[v].run] BY <2>2 DEF FenceKept
    <2>3. CASE runs'[workers[v].run] # runs[workers[v].run]
      <3>1. workers[v].run = r BY <2>1, <2>3 DEF OthersSame
      <3>2. runs'[r].worker = w BY <2>3, <3>1 DEF Fenced, SameLease
      <3> QED BY <3>1, <3>2 DEF FenceKept, FencedBy
    <2> QED BY <2>2, <2>3
  <1> HIDE DEF r
  <1> QED BY <1>1, <1>3, <1>5, <1>6, PhaseStep

\* The column results itself is a true copy: the entries it has are of devices
\* that were handed the change set, after the gate.
LEMMA ColumnTrue ==
    ASSUME TypeOK, PhaseInv, NEW r \in RunIds, runs[r].kind = "changeset",
           DOMAIN runs[r].results = DOMAIN runs[r].roles
    PROVE  CopyTrue(runs[r].results, r, runs[r], sent) /\ CopyCurrent(runs[r].results, runs[r])
  <1>1. r \in CsIds /\ DOMAIN runs[r].roles \subseteq Devices BY RunsMap DEF Targets
  <1>2. \A d \in DOMAIN runs[r].results : EntryTrue(sent[d], r, runs[r].results[d])
    BY DEF PhaseInv, RunsTrue, RunTrue
  <1>3. ASSUME NEW d \in DOMAIN runs[r].results, runs[r].results[d].cs # ""
        PROVE  GateOpen(runs[r], d)
    <2>1. Applied(r, d) BY <1>2, <1>3 DEF EntryTrue, Applied
    <2> QED BY <1>1, <2>1 DEF PhaseInv, RecordedGate, HandedOut
  <1>4. \A d, e \in DOMAIN runs[r].results :
           runs[r].results[d].cs # "" /\ Earlier(runs[r].roles, e, d)
              => runs[r].results[e].cs = "COMMITTED"
    BY <1>3 DEF GateOpen
  <1> QED BY <1>2, <1>4 DEF CopyTrue, CopyCurrent

\* GetRolloutProgress.
LEMMA ReadPhases ==
    ASSUME TypeOK, PhaseInv, NEW w \in Workers, ReadProgress(w)
    PROVE  PhaseInv'
  <1> DEFINE r == workers[w].run
             read == [workers[w] EXCEPT !.seen = runs[r].status, !.results = runs[r].results]
             copied == [read EXCEPT !.pc = "cursor"]
  <1>1. /\ TypeOK' /\ r \in RunIds /\ read \in Worker /\ workers[w].pc = "read"
        /\ read.run = r /\ read.cursor = workers[w].cursor /\ read.results = runs[r].results
        /\ workers' = [workers EXCEPT ![w] = workers'[w]]
        /\ \/ workers'[w] = copied
           \/ workers'[w] = Advancing(read) /\ ~(TerminalCount(read.results) > read.cursor)
        /\ UNCHANGED <<rows, runs, sent>>
    BY ReadEffect
  <1>2. copied.pc = "cursor" /\ copied.run = r /\ copied.cursor = read.cursor
        /\ copied.results = read.results
    BY <1>1 DEF Worker
  <1> HIDE DEF read, copied
  <1>3. /\ runs[r].kind = "changeset" /\ DOMAIN runs[r].results = DOMAIN runs[r].roles
        /\ workers[w].cursor <= TerminalCount(runs[r].results)
    BY <1>1 DEF PhaseInv, WorkerInv, WorkerTrue
  <1>4. /\ CopyTrue(runs[r].results, r, runs[r], sent) /\ CopyCurrent(runs[r].results, runs[r])
    BY <1>1, <1>3, ColumnTrue
  <1>5. workers'[w].pc = "idle" \/ WorkerTrue(w, workers'[w], runs'[workers'[w].run], sent')
    <2>1. CASE workers'[w] = copied
      BY <1>1, <1>2, <1>3, <1>4, <2>1 DEF WorkerTrue
    <2>2. CASE /\ workers'[w] = Advancing(read)
               /\ ~(TerminalCount(read.results) > read.cursor) /\ workers'[w].pc # "idle"
      <3>1. /\ workers'[w].pc \in {"wait", "queue"} /\ workers'[w].run = r
            /\ workers'[w].cursor = read.cursor /\ workers'[w].results = read.results
            /\ workers'[w].pc = "queue" => FailureCount(read.results) = 0
        BY <1>1, <2>2, AdvancingWorker
      <3>2. read.results \in Partial(Entry) /\ read.cursor \in 0 .. Cardinality(Devices)
        BY <1>1 DEF Worker
      <3>3. TerminalCount(read.results) \in Nat BY <3>2, CountType
      <3>4. TerminalCount(read.results) = read.cursor BY <1>1, <1>3, <2>2, <3>2, <3>3
      <3> QED BY <1>1, <1>3, <1>4, <3>1, <3>4 DEF WorkerTrue
    <2> QED BY <1>1, <2>1, <2>2
  <1>6. \A s \in CsIds, d \in Devices : HandedOut(s, d)' => HandedOut(s, d)
    BY <1>1 DEF HandedOut, Applied
  <1>7. RunIds' = RunIds /\ OthersSame(r) /\ runs'[r] = runs[r] BY <1>1 DEF RunIds, OthersSame
  <1> QED BY <1>1, <1>5, <1>6, <1>7, LeasedStep

\* The three statements that are fenced by the lease.  The cursor counts final
\* entries of the copy, which the column has too; the copy that replaces the
\* column has every final entry of it.
LEMMA FencedPhases ==
    ASSUME TypeOK, PhaseInv, NEW w \in Workers,
           UpdateRolloutWorkerCursor(w) \/ UpdateRolloutWorkerResults(w) \/ RenewRolloutLease(w)
    PROVE  PhaseInv'
  <1> DEFINE r == workers[w].run
             copy == workers[w].results
             count == TerminalCount(copy)
             counted == [workers[w] EXCEPT !.cursor = count]
             again == [workers[w] EXCEPT !.pc = "read"]
  <1>1. /\ TypeOK' /\ RunIds' = RunIds /\ r \in RunIds
        /\ workers[w].pc \in {"cursor", "results", "wait"}
        /\ workers' = [workers EXCEPT ![w] = workers'[w]]
        /\ OthersSame(r) /\ SameClaim(r) /\ SameLease(r) /\ UNCHANGED <<rows, sent>>
    BY FencedEffect
  <1>2. \/ workers'[w] = IdleWorker /\ runs'[r] = runs[r]
        \/ /\ Fenced(w) /\ workers[w].pc = "cursor" /\ runs'[r].results = runs[r].results
           /\ runs'[r].cursor = Greatest(runs[r].cursor, count) /\ workers'[w] = Advancing(counted)
        \/ /\ Fenced(w) /\ workers[w].pc = "results" /\ runs'[r].results = copy
           /\ runs'[r].cursor = runs[r].cursor /\ workers'[w] = Settled(workers[w])
        \/ /\ Fenced(w) /\ workers[w].pc = "wait" /\ runs'[r].results = runs[r].results
           /\ runs'[r].cursor = runs[r].cursor /\ workers'[w] = again
    BY FencedEffect
  <1>3. /\ workers[w] \in Worker /\ runs[r] \in Run /\ copy \in Partial(Entry)
        /\ workers[w].cursor \in 0 .. Cardinality(Devices)
        /\ runs[r].cursor \in 0 .. Cardinality(Devices) /\ runs[r].results \in Partial(Entry)
    BY <1>1, RunsMap DEF TypeOK, Run, Worker
  <1>4. /\ count \in 0 .. Cardinality(Devices) /\ TerminalCount(runs[r].results) \in Nat
    BY <1>3, CountType
  <1>5. /\ runs[r].kind = "changeset" /\ DOMAIN runs[r].results = DOMAIN runs[r].roles
        /\ workers[w].cursor <= TerminalCount(runs[r].results)
        /\ workers[w].pc \in {"cursor", "results"} =>
              CopyTrue(copy, r, runs[r], sent) /\ (FencedBy(runs[r], w) => CopyCurrent(copy, runs[r]))
    BY <1>1 DEF PhaseInv, WorkerInv, WorkerTrue
  <1>6. /\ \A d \in DOMAIN runs[r].results : EntryTrue(sent[d], r, runs[r].results[d])
        /\ runs[r].cursor <= TerminalCount(runs[r].results)
        /\ runs[r].status = "completed" => \A d \in DOMAIN runs[r].roles :
                                \E st \in sent[d] : st.id = r /\ st.state = "COMMITTED"
    BY <1>1, <1>5 DEF PhaseInv, RunsTrue, RunTrue
  <1>7. /\ runs'[r].kind = "changeset" /\ runs'[r].roles = runs[r].roles
        /\ runs'[r].status = runs[r].status
        /\ \A v \in Workers : FencedBy(runs'[r], v) <=> FencedBy(runs[r], v)
    BY <1>1, <1>5 DEF SameClaim, SamePlan, SameLease, FencedBy
  <1>8. \A s \in CsIds, d \in Devices : HandedOut(s, d)' => HandedOut(s, d)
    BY <1>1 DEF HandedOut, Applied
  <1>9. /\ counted \in Worker /\ counted.run = r /\ counted.cursor = count /\ counted.results = copy
        /\ again.pc = "read" /\ again.run = r /\ again.cursor = workers[w].cursor
    <2>1. counted \in Worker BY <1>3, <1>4 DEF Worker
    <2> QED BY <1>3, <2>1 DEF Worker
  <1> HIDE DEF counted, again
  <1>10. CASE workers'[w] = IdleWorker /\ runs'[r] = runs[r]
    <2>0. IdleWorker.pc = "idle" BY DEF IdleWorker
    <2>1. workers'[w].pc = "idle" BY <1>10, <2>0
    <2> QED BY <1>1, <1>8, <1>10, <2>1, LeasedStep
  <1>11. CASE /\ Fenced(w) /\ workers[w].pc = "cursor" /\ runs'[r].results = runs[r].results
              /\ runs'[r].cursor = Greatest(runs[r].cursor, count)
              /\ workers'[w] = Advancing(counted)
    <2>1. CopyTrue(copy, r, runs[r], sent) /\ (FencedBy(runs[r], w) => CopyCurrent(copy, runs[r]))
      BY <1>5, <1>11
    <2>2. count <= TerminalCount(runs[r].results)
      <3>1. /\ DOMAIN copy = DOMAIN runs[r].results
            /\ \A d \in DOMAIN copy : EntryTrue(sent[d], r, copy[d])
            /\ \A d \in DOMAIN copy : copy[d].cs # "" => runs[r].results[d].cs = copy[d].cs
        BY <1>5, <2>1 DEF CopyTrue
      <3> QED BY <1>3, <3>1, CountGrows
    <2>3. runs'[r].cursor <= TerminalCount(runs'[r].results)
      BY <1>3, <1>4, <1>6, <1>11, <2>2 DEF Greatest
    <2>4. RunTrue(r, runs'[r], sent') BY <1>1, <1>6, <1>7, <1>11, <2>3 DEF RunTrue
    <2>5. Grown(runs[r], runs'[r]) BY <1>5, <1>7, <1>11 DEF Grown
    <2>6. workers'[w].pc = "idle" \/ WorkerTrue(w, workers'[w], runs'[workers'[w].run], sent')
      <3> SUFFICES ASSUME workers'[w].pc # "idle"
                   PROVE  WorkerTrue(w, workers'[w], runs'[workers'[w].run], sent')
        OBVIOUS
      <3>1. /\ workers'[w].pc \in {"wait", "queue"} /\ workers'[w].run = r
            /\ workers'[w].cursor = count /\ workers'[w].results = copy
            /\ workers'[w].pc = "queue" => FailureCount(copy) = 0
        BY <1>9, <1>11, AdvancingWorker
      <3>2. CopyTrue(copy, r, runs'[r], sent') BY <1>1, <1>7, <1>11, <2>1 DEF CopyTrue
      <3>3. FencedBy(runs'[r], w) => CopyCurrent(copy, runs'[r])
        BY <1>7, <1>11, <2>1 DEF CopyCurrent
      <3> QED BY <1>5, <1>7, <1>11, <2>2, <3>1, <3>2, <3>3 DEF WorkerTrue
    <2> QED BY <1>1, <1>8, <1>11, <2>4, <2>5, <2>6, LeasedStep
  <1>12. CASE /\ Fenced(w) /\ workers[w].pc = "results" /\ runs'[r].results = copy
              /\ runs'[r].cursor = runs[r].cursor /\ workers'[w] = Settled(workers[w])
    <2>1. /\ FencedBy(runs[r], w) BY <1>12 DEF Fenced, FencedBy, LiveLease
    <2>2. /\ DOMAIN copy = DOMAIN runs[r].roles
          /\ \A d \in DOMAIN copy : EntryTrue(sent[d], r, copy[d])
          /\ \A d \in DOMAIN copy : runs[r].results[d].cs # "" => copy[d] = runs[r].results[d]
      BY <1>5, <1>12, <2>1 DEF CopyTrue, CopyCurrent
    <2>3. TerminalCount(runs[r].results) <= count BY <1>3, <1>5, <1>6, <2>2, CountGrows
    <2>4. runs[r].cursor <= count /\ workers[w].cursor <= count
      BY <1>3, <1>4, <1>5, <1>6, <2>3
    <2>5. RunTrue(r, runs'[r], sent') BY <1>1, <1>6, <1>7, <1>12, <2>2, <2>4 DEF RunTrue
    <2>6. Grown(runs[r], runs'[r]) BY <1>5, <1>7, <1>12, <2>2 DEF Grown
    <2>7. workers'[w].pc = "idle" \/ WorkerTrue(w, workers'[w], runs'[workers'[w].run], sent')
      <3> SUFFICES ASSUME workers'[w].pc # "idle"
                   PROVE  WorkerTrue(w, workers'[w], runs'[workers'[w].run], sent')
        OBVIOUS
      <3>1. workers'[w].pc = "wait" /\ workers'[w].run = r /\ workers'[w].cursor = workers[w].cursor
        BY <1>3, <1>12, AdvancingWorker
      <3> QED BY <1>7, <1>12, <2>2, <2>4, <3>1 DEF WorkerTrue
    <2> QED BY <1>1, <1>8, <1>12, <2>5, <2>6, <2>7, LeasedStep
  <1>13. CASE /\ Fenced(w) /\ workers[w].pc = "wait" /\ runs'[r].results = runs[r].results
              /\ runs'[r].cursor = runs[r].cursor /\ workers'[w] = again
    <2>1. RunTrue(r, runs'[r], sent') BY <1>1, <1>6, <1>7, <1>13 DEF RunTrue
    <2>2. Grown(runs[r], runs'[r]) BY <1>5, <1>7, <1>13 DEF Grown
    <2>3. WorkerTrue(w, workers'[w], runs'[workers'[w].run], sent')
      BY <1>5, <1>7, <1>9, <1>13 DEF WorkerTrue
    <2> QED BY <1>1, <1>8, <1>13, <2>1, <2>2, <2>3, LeasedStep
  <1> QED BY <1>2, <1>10, <1>11, <1>12, <1>13
\* The worker hands out the next phase.  Every device before it has a final entry
\* in the copy, none is a failure, so all have committed, and the column has
\* these entries too, whatever became of the lease.
LEMMA QueuePhases ==
    ASSUME TypeOK, PhaseInv, NEW w \in Workers, QueueNextPhase(w)
    PROVE  PhaseInv'
  <1> DEFINE worker == workers[w]
             r == worker.run
             copy == worker.results
             handedOut(d) == [worker EXCEPT !.pc = "results", !.results[d].status = "QUEUED"]
             next(d) == Phase(r, d) = worker.cursor /\ worker.results[d].status = "WAITING"
  <1>1. /\ TypeOK' /\ r \in RunIds /\ worker.pc = "queue"
        /\ workers' = [workers EXCEPT ![w] = workers'[w]] /\ UNCHANGED <<runs, sent>>
        /\ \/ rows' = rows /\ workers'[w] \in {IdleWorker, Settled(worker)}
           \/ \E d \in DOMAIN copy : /\ next(d) /\ workers'[w] = handedOut(d)
                                     /\ \/ rows' = rows
                                        \/ rows' = [rows EXCEPT ![d] = QueueCs(@, ChangeSet(r))]
    BY QueueEffect
  <1>2. worker \in Worker /\ copy \in Partial(Entry) /\ r \in CsIds
    BY <1>1, RunsMap DEF TypeOK, Worker
  <1>3. /\ runs[r].kind = "changeset" /\ DOMAIN runs[r].results = DOMAIN runs[r].roles
        /\ worker.cursor <= TerminalCount(runs[r].results)
        /\ CopyTrue(copy, r, runs[r], sent)
        /\ FencedBy(runs[r], w) => CopyCurrent(copy, runs[r])
        /\ TerminalCount(copy) = worker.cursor /\ FailureCount(copy) = 0
    BY <1>1 DEF PhaseInv, WorkerInv, WorkerTrue
  <1>4. RunIds' = RunIds /\ OthersSame(r) /\ runs'[r] = runs[r] BY <1>1 DEF RunIds, OthersSame
  <1>5. CASE rows' = rows /\ workers'[w] \in {IdleWorker, Settled(worker)}
    <2>1. IdleWorker.pc = "idle" BY DEF IdleWorker
    <2>2. workers'[w].pc # "idle" => /\ workers'[w].pc = "wait" /\ workers'[w].run = r
                                     /\ workers'[w].cursor = worker.cursor
      BY <1>2, <1>5, <2>1, AdvancingWorker
    <2>3. workers'[w].pc = "idle" \/ WorkerTrue(w, workers'[w], runs'[workers'[w].run], sent')
      BY <1>3, <1>4, <2>2 DEF WorkerTrue
    <2>4. \A s \in CsIds, d \in Devices : HandedOut(s, d)' => HandedOut(s, d)
      BY <1>1, <1>5 DEF HandedOut, Applied
    <2> QED BY <1>1, <1>4, <2>3, <2>4, LeasedStep
  <1>6. ASSUME NEW d \in DOMAIN copy, next(d), workers'[w] = handedOut(d),
               rows' = rows \/ rows' = [rows EXCEPT ![d] = QueueCs(@, ChangeSet(r))]
        PROVE  PhaseInv'
    <2>1. /\ workers'[w].pc = "results" /\ workers'[w].run = r
          /\ workers'[w].cursor = worker.cursor
          /\ DOMAIN workers'[w].results = DOMAIN copy
          /\ workers'[w].results[d].cs = copy[d].cs /\ workers'[w].results[d].status = "QUEUED"
          /\ \A e \in DOMAIN copy \ {d} : workers'[w].results[e] = copy[e]
      <3> DEFINE n == handedOut(d)
      <3>1. /\ n.pc = "results" /\ n.run = worker.run /\ n.cursor = worker.cursor
            /\ DOMAIN n.results = DOMAIN worker.results
            /\ n.results[d].cs = worker.results[d].cs /\ n.results[d].status = "QUEUED"
            /\ \A e \in DOMAIN worker.results \ {d} : n.results[e] = worker.results[e]
        BY <1>2, HandedOutWorker
      <3>2. workers'[w] = n BY <1>6
      <3> HIDE DEF n
      <3> QED BY <3>1, <3>2
    <2>2. /\ DOMAIN copy = DOMAIN runs[r].roles /\ DOMAIN copy \subseteq Devices
          /\ \A e \in DOMAIN copy : /\ EntryTrue(sent[e], r, copy[e])
                                    /\ copy[e].cs # "" => runs[r].results[e].cs = copy[e].cs
          /\ \A a, b \in DOMAIN copy :
                copy[a].cs # "" /\ Earlier(runs[r].roles, b, a) => copy[b].cs = "COMMITTED"
      BY <1>2, <1>3, PartialMap DEF CopyTrue
    <2>3. copy[d].status = "WAITING" BY <1>6
    <2>4. copy[d].cs = "" BY <2>2, <2>3 DEF EntryTrue
    <2>5. GateOpen(runs[r], d)
      <3>1. Phase(r, d) = PhaseNumber(runs[r].roles, d)
        BY BeforeIsEarlier DEF Phase, PhaseNumber, Targets
      <3>2. TerminalCount(copy) = PhaseNumber(runs[r].roles, d) BY <1>3, <1>6, <3>1
      <3>3. \A e \in DOMAIN runs[r].roles : Earlier(runs[r].roles, e, d) => copy[e].cs = "COMMITTED"
        BY <1>2, <1>3, <2>4, <3>2, PhaseReached
      <3> QED BY <1>3, <2>2, <3>3 DEF GateOpen
    <2>6. \A s \in CsIds, e \in Devices : HandedOut(s, e)' => HandedOut(s, e) \/ (s = r /\ e = d)
      <3>1. rows \in [Devices -> Row] /\ d \in Devices BY <2>2 DEF TypeOK
      <3>2. QueueCs(rows[d], ChangeSet(r)).pendingCs.id = r BY <1>2, <3>1, QueueCsRow
      <3>3. /\ \A e \in Devices \ {d} : rows'[e] = rows[e]
            /\ rows'[d] = rows[d] \/ rows'[d].pendingCs.id = r
        BY <1>6, <3>1, <3>2
      <3> QED BY <1>1, <3>3 DEF HandedOut, Applied
    <2>7. \A s \in CsIds, e \in Devices :
             HandedOut(s, e)' => HandedOut(s, e) \/ (s \in RunIds' /\ GateOpen(runs'[s], e))
      BY <1>1, <1>4, <2>5, <2>6
    <2> DEFINE new == workers'[w].results
    <2>8. DOMAIN new = DOMAIN copy /\ \A e \in DOMAIN copy : new[e].cs = copy[e].cs
      BY <2>1
    <2>9. \A e \in DOMAIN new : EntryTrue(sent[e], r, new[e])
      <3>1. EntryTrue(sent[d], r, new[d]) BY <2>1, <2>4 DEF EntryTrue
      <3>2. \A e \in DOMAIN copy \ {d} : EntryTrue(sent[e], r, new[e]) BY <2>1, <2>2
      <3> QED BY <2>8, <3>1, <3>2
    <2> HIDE DEF new
    <2>10. CopyTrue(new, r, runs[r], sent) BY <2>2, <2>8, <2>9 DEF CopyTrue
    <2>11. FencedBy(runs[r], w) => CopyCurrent(new, runs[r])
      <3> SUFFICES ASSUME CopyCurrent(copy, runs[r]), NEW e \in DOMAIN new
                   PROVE  new[e] = runs[r].results[e] \/ (runs[r].results[e].cs = "" /\ new[e].cs = "")
        BY <1>3 DEF CopyCurrent
      <3>1. CASE e = d BY <2>4, <2>8, <3>1 DEF CopyCurrent
      <3>2. CASE e # d
        <4>1. new[e] = copy[e] BY <2>1, <2>8, <3>2 DEF new
        <4> QED BY <2>8, <4>1 DEF CopyCurrent
      <3> QED BY <3>1, <3>2
    <2>12. WorkerTrue(w, workers'[w], runs'[workers'[w].run], sent')
      BY <1>1, <1>3, <1>4, <2>1, <2>10, <2>11 DEF WorkerTrue, new
    <2> QED BY <1>1, <1>4, <2>7, <2>12, LeasedStep
  <1> HIDE DEF handedOut, next
  <1> QED BY <1>1, <1>5, <1>6

\* An agent applies what it was handed, once.
LEMMA ApplyPhases ==
    ASSUME TypeOK, PhaseInv, NEW d \in Devices, NEW outcome \in Outcomes, AgentApply(d, outcome)
    PROVE  PhaseInv'
  <1> DEFINE cs == rows[d].pendingCs
             st == [id |-> cs.id, hash |-> cs.hash, gen |-> cs.gen, state |-> outcome]
  <1>1. /\ TypeOK' /\ UNCHANGED <<rows, runs, workers>>
        /\ \A old \in sent[d] : old.id # st.id
        /\ sent'[d] = sent[d] \cup {st} /\ \A e \in Devices \ {d} : sent'[e] = sent[e]
    BY ApplyEffect
  <1>2. st.id = rows[d].pendingCs.id OBVIOUS
  <1> HIDE DEF st
  <1>3. SentGrows BY <1>1 DEF SentGrows
  <1>4. SentOnce'
    <2> SUFFICES ASSUME NEW e \in Devices, NEW a \in sent'[e], NEW b \in sent'[e], a.id = b.id
                 PROVE  a = b
      BY DEF SentOnce
    <2> QED BY <1>1 DEF PhaseInv, SentOnce
  <1>5. RunIds' = RunIds /\ \A r \in RunIds : SamePlan(r) /\ SameResults(r)
    BY <1>1 DEF RunIds, SamePlan, SameResults
  <1>6. \A r \in RunIds : RunTrue(r, runs'[r], sent') /\ Grown(runs[r], runs'[r])
    BY <1>1, <1>3, <1>5, RunKept DEF PhaseInv, RunsTrue
  <1>7. \A r \in CsIds, e \in Devices : HandedOut(r, e)' => HandedOut(r, e)
    BY <1>1, <1>2 DEF HandedOut, Applied
  <1>8. \A w \in Workers : FenceKept(runs[workers[w].run], runs'[workers[w].run], w)
    BY <1>1 DEF FenceKept
  <1> QED BY <1>1, <1>3, <1>4, <1>5, <1>6, <1>7, <1>8, PhaseStep

Once(S) == \A a, b \in S : a.id = b.id => a = b

\* The only final entry that is true of an agent that sent S.
OnlyEntry(S, r, new) ==
    /\ EntryTrue(S, r, new)
    /\ \A entry \in Entry : entry.cs # "" /\ EntryTrue(S, r, entry) => entry = new

\* The entry that RecordRolloutResult writes says what the agent reached, and a
\* final entry that was there already says the same.
LEMMA EntryWritten ==
    ASSUME NEW S, Once(S), NEW st \in S, NEW state \in CsTerminal, st.state = state
    PROVE  OnlyEntry(S, st.id, EntryOf(state))
  <1> DEFINE r == st.id
  <1>1. EntryTrue(S, r, EntryOf(state)) BY DEF EntryOf, EntryTrue, CsTerminal
  <1>2. ASSUME NEW entry \in Entry, entry.cs # "", EntryTrue(S, r, entry)
        PROVE  entry = EntryOf(state)
    <2>1. PICK s2 \in S : s2.id = r /\ s2.state = entry.cs BY <1>2 DEF EntryTrue
    <2>2. entry.cs = state BY <2>1 DEF Once
    <2>3. entry.status = IF state = "COMMITTED" THEN "SUCCESS" ELSE "FAILED"
      BY <1>2, <2>2 DEF EntryTrue
    <2>4. entry = [status |-> entry.status, cs |-> entry.cs] BY DEF Entry
    <2> QED BY <2>2, <2>3, <2>4 DEF EntryOf
  <1> QED BY <1>1, <1>2 DEF OnlyEntry

\* The second statement of a report.
LEMMA ResultRow ==
    ASSUME TypeOK, ClaimInv, PhaseInv, NEW d \in Devices, NEW st \in sent[d],
           RecordRolloutResult(d, st), NEW r \in RunIds, TakesResult(r, d, st)
    PROVE  /\ RunTrue(r, runs'[r], sent') /\ Grown(runs[r], runs'[r])
           /\ runs'[r].status # "RUNNING"
  <1> DEFINE old == runs[r].results
             new == runs'[r].results
  <1>1. /\ TypeOK' /\ RunIds' = RunIds /\ sent' = sent /\ SamePlan(r)
        /\ runs'[r].cursor = runs[r].cursor /\ runs'[r].status = ResultStatus(r, d, st)
        /\ new = [old EXCEPT ![d] = EntryOf(st.state)]
    BY ResultEffect
  <1>2. /\ runs[r].status = "QUEUED" /\ st.id = r /\ d \in DOMAIN old BY DEF TakesResult
  <1>3. runs[r].kind = "changeset" /\ DOMAIN old = DOMAIN runs[r].roles
    BY <1>2 DEF ClaimInv, KindInv, Targets
  <1>4. st.state \in CsTerminal /\ st.state # ""
    <2>1. st \in Status(CsIds, CsTerminal) BY DEF TypeOK
    <2>2. st.state \in CsTerminal BY <2>1 DEF Status
    <2> QED BY <2>2 DEF CsTerminal
  <1>5. runs[r] \in Run /\ runs'[r] \in Run
    BY <1>1, RunsMap, LenProperties DEF TypeOK, RunIds
  <1>6. /\ old \in Partial(Entry) /\ new \in Partial(Entry) /\ old \in [DOMAIN old -> Entry]
        /\ runs[r].cursor \in 0 .. Cardinality(Devices)
    <2>1. /\ old \in Partial(Entry) /\ new \in Partial(Entry)
          /\ runs[r].cursor \in 0 .. Cardinality(Devices)
      BY <1>5 DEF Run
    <2> QED BY <2>1, PartialMap
  <1>7. /\ \A e \in DOMAIN old : EntryTrue(sent[e], r, old[e])
        /\ runs[r].cursor <= TerminalCount(old)
    BY <1>3 DEF PhaseInv, RunsTrue, RunTrue
  <1>8. /\ DOMAIN new = DOMAIN old /\ new[d] = EntryOf(st.state)
        /\ \A e \in DOMAIN old \ {d} : new[e] = old[e]
    BY <1>1, <1>2, <1>6
  <1>9. \A a, b \in sent[d] : a.id = b.id => a = b BY DEF PhaseInv, SentOnce
  <1> HIDE DEF old, new
  <1>w. OnlyEntry(sent[d], r, EntryOf(st.state))
    <2>1. Once(sent[d]) BY <1>9 DEF Once
    <2> QED BY <1>2, <1>4, <2>1, EntryWritten
  <1>10. old[d].cs # "" => new[d] = old[d]
    <2>1. old[d] \in Entry /\ EntryTrue(sent[d], r, old[d]) BY <1>2, <1>6, <1>7
    <2> QED BY <1>w, <1>8, <2>1 DEF OnlyEntry
  <1>11. \A e \in DOMAIN old : old[e].cs # "" => new[e] = old[e] BY <1>8, <1>10
  <1>12. \A e \in DOMAIN new : EntryTrue(sent[e], r, new[e])
    <2>1. EntryTrue(sent[d], r, new[d]) BY <1>w, <1>8 DEF OnlyEntry
    <2> QED BY <1>7, <1>8, <2>1
  <1>13. runs[r].cursor <= TerminalCount(new)
    <2>1. TerminalCount(old) <= TerminalCount(new) BY <1>6, <1>7, <1>8, <1>11, CountGrows
    <2>2. TerminalCount(old) \in Nat /\ TerminalCount(new) \in Nat BY <1>6, CountType
    <2> QED BY <1>6, <1>7, <2>1, <2>2
  <1>14. ResultStatus(r, d, st) = "completed" =>
            \A e \in DOMAIN old : \E s2 \in sent[e] : s2.id = r /\ s2.state = "COMMITTED"
    <2> SUFFICES ASSUME ResultStatus(r, d, st) = "completed", NEW e \in DOMAIN old
                 PROVE  \E s2 \in sent[e] : s2.id = r /\ s2.state = "COMMITTED"
      OBVIOUS
    <2>1. /\ st.state = "COMMITTED"
          /\ {runs[r].results[x].cs : x \in DOMAIN runs[r].results \ {d}} \subseteq {"COMMITTED"}
      BY DEF ResultStatus
    <2>2. CASE e = d BY <1>2, <2>1, <2>2
    <2>3. CASE e # d
      <3>1. old[e].cs = "COMMITTED" BY <2>1, <2>3 DEF old
      <3> QED BY <1>7, <3>1 DEF EntryTrue
    <2> QED BY <2>2, <2>3
  <1>15. RunTrue(r, runs'[r], sent')
    BY <1>1, <1>3, <1>12, <1>13, <1>14 DEF RunTrue, SamePlan, new
  <1>16. Grown(runs[r], runs'[r])
    BY <1>1, <1>3, <1>8, <1>11 DEF Grown, SamePlan, old, new
  <1>17. runs'[r].status # "RUNNING" BY <1>1, StatusNames
  <1> QED BY <1>15, <1>16, <1>17

\* The second statement of a report, for the whole table.
LEMMA ResultPhases ==
    ASSUME TypeOK, ClaimInv, PhaseInv, NEW d \in Devices, NEW st \in sent[d],
           RecordRolloutResult(d, st)
    PROVE  PhaseInv'
  <1>1. /\ TypeOK' /\ RunIds' = RunIds /\ UNCHANGED <<rows, workers, sent>>
        /\ \A r \in RunIds : ~TakesResult(r, d, st) => runs'[r] = runs[r]
    BY ResultEffect
  <1>2. SentGrows /\ SentOnce' BY <1>1 DEF SentGrows, SentOnce, PhaseInv
  <1>3. ASSUME NEW r \in RunIds
        PROVE  /\ RunTrue(r, runs'[r], sent') /\ Grown(runs[r], runs'[r])
               /\ runs'[r] = runs[r] \/ runs'[r].status # "RUNNING"
    <2>1. CASE TakesResult(r, d, st) BY <2>1, ResultRow
    <2>2. CASE ~TakesResult(r, d, st)
      BY <1>1, <2>2 DEF PhaseInv, RunsTrue, Grown
    <2> QED BY <2>1, <2>2
  <1>4. \A s \in CsIds, e \in Devices : HandedOut(s, e)' => HandedOut(s, e)
    BY <1>1 DEF HandedOut, Applied
  <1>5. ASSUME NEW w \in Workers, workers[w].pc # "idle"
        PROVE  FenceKept(runs[workers[w].run], runs'[workers[w].run], w)
    <2>1. workers[w].run \in RunIds BY <1>5 DEF TypeOK
    <2> QED BY <1>3, <2>1 DEF FenceKept, FencedBy
  <1> QED BY <1>1, <1>2, <1>3, <1>4, <1>5, PhaseStep

\* The claim of an SSH rollout retires other rollouts and queues nothing.
LEMMA ClaimDraftPhases ==
    ASSUME TypeOK, ClaimInv, PhaseInv, NEW h \in Handlers, ClaimRolloutDraft(h)
    PROVE  PhaseInv'
  <1> DEFINE r == handlers[h].run
  <1>1. /\ TypeOK' /\ RunIds' = RunIds /\ r \in RunIds /\ handlers[h].pc = "claim"
        /\ UNCHANGED <<workers, sent>>
        /\ \/ rows' = rows /\ runs' = runs
           \/ /\ Claimable(r) /\ rows' = ClaimedRows /\ SamePlan(r) /\ SameResults(r)
              /\ runs'[r].status = "RUNNING"
              /\ \A s \in RunIds \ {r} : runs'[s] = IF runs[s].status \in {"RUNNING", "DRAFT"}
                                                    THEN AsStale(runs[s]) ELSE runs[s]
    BY ClaimDraftEffect
  <1>2. CASE rows' = rows /\ runs' = runs BY <1>1, <1>2, PhaseUntouched
  <1>3. CASE /\ Claimable(r) /\ rows' = ClaimedRows /\ SamePlan(r) /\ SameResults(r)
             /\ runs'[r].status = "RUNNING"
             /\ \A s \in RunIds \ {r} : runs'[s] = IF runs[s].status \in {"RUNNING", "DRAFT"}
                                                   THEN AsStale(runs[s]) ELSE runs[s]
    <2>1. runs[r].kind = "ssh" BY <1>1 DEF ClaimInv, HandlerInv, HandlerOK
    <2>2. \A s \in RunIds \ {r} : /\ SamePlan(s) /\ SameResults(s)
                                  /\ runs'[s].status \in {runs[s].status, "STALE"}
                                  /\ (runs'[s].status = "RUNNING" => runs'[s] = runs[s])
      BY <1>3, RunsMap, AsStaleRun DEF SamePlan, SameResults
    <2>3. \A s \in RunIds : SamePlan(s) /\ SameResults(s) BY <1>3, <2>2
    <2>4. \A s \in RunIds : runs[s].kind = "changeset" =>
             /\ runs'[s].status = "completed" => runs[s].status = "completed"
             /\ \A w \in Workers : FencedBy(runs'[s], w) => FencedBy(runs[s], w)
      BY <2>1, <2>2 DEF FencedBy
    <2>5. \A d \in Devices : ClaimedRows[d].pendingCs = rows[d].pendingCs
      BY <1>1, <1>3, ClaimEffect, RunsMap
    <2>6. \A d \in Devices : rows'[d].pendingCs \in {rows[d].pendingCs, NoWork} BY <1>3, <2>5
    <2> QED BY <1>1, <2>3, <2>4, <2>6, TableStep
  <1> QED BY <1>1, <1>2, <1>3

\* A request ends: the rollout is an SSH rollout, or a draft that becomes stale.
LEMMA EndPhases ==
    ASSUME TypeOK, ClaimInv, PhaseInv, NEW h \in Handlers,
           \/ ReleaseRolloutDraft(h) \/ MarkRolloutDraftStale(h)
           \/ PersistRolloutResults(h) \/ MarkRolloutPersistenceFailure(h)
    PROVE  PhaseInv'
  <1> DEFINE r == handlers[h].run
  <1>1. /\ TypeOK' /\ RunIds' = RunIds /\ r \in RunIds /\ handlers[h].pc # "idle"
        /\ UNCHANGED <<workers, sent>> /\ OthersSame(r) /\ SamePlan(r)
        /\ \/ rows' = rows
           \/ EndedRows(r)
    BY EndEffect
  <1>2. runs[r].kind = "ssh" BY <1>1 DEF ClaimInv, HandlerInv, HandlerOK
  <1>3. \A s \in RunIds : /\ SamePlan(s) /\ (runs[s].kind = "changeset" => SameResults(s))
                          /\ runs[s].kind = "changeset" => runs'[s] = runs[s]
    BY <1>1, <1>2 DEF OthersSame, SamePlan, SameResults
  <1>4. \A d \in Devices : rows'[d].pendingCs = rows[d].pendingCs
    <2>1. \A d \in Devices : rows[d] \in Row BY DEF TypeOK
    <2>2. \A d \in Devices, status \in SshStatuses :
             EndRunning(rows[d], status).pendingCs = rows[d].pendingCs
      BY <2>1, SshRow
    <2> QED BY <1>1, <2>2 DEF EndedRows
  <1> QED BY <1>1, <1>3, <1>4, TableStep
\* No rollout, no worker that is not idle, nothing sent or queued.
LEMMA InitPhases == Init => PhaseInv
  <1> SUFFICES ASSUME Init PROVE PhaseInv
    OBVIOUS
  <1>1. RunIds = {} BY EmptyMap DEF Init, RunIds
  <1>2. SentOnce BY DEF Init, SentOnce
  <1>3. RunsTrue BY <1>1 DEF RunsTrue
  <1>4. RecordedGate
    <2>0. PICK capable \in [Devices -> Capable], role \in [Devices -> Roles] :
            rows = [d \in Devices |-> InitRow(capable[d], role[d])]
      BY DEF Init
    <2>i. \A c, x : InitRow(c, x).pendingCs = NoWork BY DEF InitRow
    <2>1. \A d \in Devices : rows[d].pendingCs = NoWork /\ sent[d] = {} BY <2>0, <2>i DEF Init
    <2>2. NoWork.id = NoId BY DEF NoWork
    <2> QED BY <2>1, <2>2, Site DEF RecordedGate, HandedOut, Applied
  <1>5. WorkerInv
    <2>1. \A w \in Workers : workers[w] = IdleWorker BY DEF Init
    <2>2. IdleWorker.pc = "idle" BY DEF IdleWorker
    <2> QED BY <2>1, <2>2 DEF WorkerInv
  <1> QED BY <1>2, <1>3, <1>4, <1>5 DEF PhaseInv

\* Every step keeps what is recorded true.
LEMMA StepPhases ==
    ASSUME TypeOK, ClaimInv, PhaseInv, [Next]_vars
    PROVE  PhaseInv'
  <1>t. TypeOK' BY StepType
  <1>1. CASE Next
    <2>1. CASE \E kind \in Kinds, targets \in TargetSets : CreateRolloutDraft(kind, targets)
      BY <2>1, CreatePhases
    <2>2. CASE \E r \in RunIds : RejectRolloutDraft(r) BY <2>2, RejectPhases
    <2>3. CASE \E r \in RunIds : ClaimAndQueueDeviceChangeSets(r) BY <2>3, FirstPhasePhases
    <2>4. CASE \E r \in RunIds : LeaseExpires(r)
      <3>1. PICK r \in RunIds : LeaseExpires(r) BY <2>4
      <3>2. /\ RunIds' = RunIds /\ OthersSame(r) /\ SameClaim(r) /\ SameResults(r)
            /\ runs'[r].lease = "expired" /\ UNCHANGED <<rows, workers, sent>>
        BY <3>1, ExpireEffect
      <3>3. \A s \in RunIds : /\ SamePlan(s) /\ SameResults(s)
                              /\ runs'[s].status = "completed" => runs[s].status = "completed"
                              /\ \A w \in Workers : FencedBy(runs'[s], w) => FencedBy(runs[s], w)
        BY <3>2 DEF OthersSame, SamePlan, SameResults, SameClaim, FencedBy
      <3> QED BY <1>t, <3>2, <3>3, TableStep
    <2>5. CASE \E w \in Workers : ClaimQueuedRollout(w) BY <2>5, LeasePhases
    <2>6. CASE \E w \in Workers : ReadProgress(w) BY <2>6, ReadPhases
    <2>7. CASE \E w \in Workers : \/ UpdateRolloutWorkerCursor(w) \/ UpdateRolloutWorkerResults(w)
                                  \/ RenewRolloutLease(w)
      BY <2>7, FencedPhases
    <2>8. CASE \E w \in Workers : QueueNextPhase(w) BY <2>8, QueuePhases
    <2>9. CASE \E h \in Handlers : \/ \E r \in RunIds : VerifyRolloutDraftTargets(h, r)
                                   \/ ValidateClaimedDraft(h)
                                   \/ MarkRolloutDevicesRunning(h)
      <3>1. PICK h \in Handlers :
              /\ UNCHANGED <<runs, workers, sent>>
              /\ \/ rows' = rows
                 \/ rows' = [d \in Devices |-> IF d \in Targets(handlers[h].run)
                                               THEN MarkRunning(rows[d]) ELSE rows[d]]
        BY <2>9, RequestEffect
      <3>2. "FAILED" \in SshStatuses BY DEF SshStatuses
      <3>3. \A d \in Devices : MarkRunning(rows[d]).pendingCs = rows[d].pendingCs
        BY <3>2, SshRow DEF TypeOK
      <3>4. \A d \in Devices : rows'[d].pendingCs = rows[d].pendingCs BY <3>1, <3>3
      <3> QED BY <1>t, <3>1, <3>4, PhaseUntouched
    <2>10. CASE \E h \in Handlers : ClaimRolloutDraft(h) BY <2>10, ClaimDraftPhases
    <2>11. CASE \E h \in Handlers : \/ ReleaseRolloutDraft(h) \/ MarkRolloutDraftStale(h)
                                    \/ PersistRolloutResults(h) \/ MarkRolloutPersistenceFailure(h)
      BY <2>11, EndPhases
    <2>12. CASE \E d \in Devices :
                 \/ \E st \in sent[d] : RecordDeviceChangeSetStatus(d, st)
                 \/ \E id \in OpIds : QueueDeviceOperation(d, id)
                 \/ \E id \in OpIds, state \in OpTerminal : RecordDeviceOperationStatus(d, id, state)
                 \/ \E role \in Roles : UpdateDeviceRole(d, role)
      <3>1. PICK d \in Devices :
              /\ UNCHANGED <<runs, workers, sent>> /\ \A e \in Devices \ {d} : rows'[e] = rows[e]
              /\ rows'[d].pendingCs \in {rows[d].pendingCs, NoWork}
        BY <2>12, DeviceEffect
      <3> QED BY <1>t, <3>1, PhaseUntouched
    <2>13. CASE \E d \in Devices : \E st \in sent[d] : RecordRolloutResult(d, st)
      BY <2>13, ResultPhases
    <2>14. CASE \E d \in Devices, outcome \in Outcomes : AgentApply(d, outcome)
      BY <2>14, ApplyPhases
    <2>15. CASE Tick
      <3>1. /\ RunIds' = RunIds /\ UNCHANGED <<rows, workers, sent>>
            /\ \A r \in RunIds : SameClaim(r) /\ SameLease(r) /\ SameResults(r)
        BY <2>15, TickEffect
      <3>2. \A s \in RunIds : /\ SamePlan(s) /\ SameResults(s)
                              /\ runs'[s].status = "completed" => runs[s].status = "completed"
                              /\ \A w \in Workers : FencedBy(runs'[s], w) => FencedBy(runs[s], w)
        BY <3>1 DEF SameClaim, SameLease, FencedBy
      <3> QED BY <1>t, <3>1, <3>2, TableStep
    <2>16. CASE Crash
      <3>1. /\ UNCHANGED <<rows, runs, sent>>
            /\ \A w \in Workers : workers'[w] \in {workers[w], IdleWorker}
        BY <2>16, CrashEffect
      <3>2. IdleWorker.pc = "idle" BY DEF IdleWorker
      <3>3. /\ RunIds' = RunIds /\ SentGrows /\ SentOnce'
            /\ \A r \in RunIds : RunTrue(r, runs'[r], sent') /\ Grown(runs[r], runs'[r])
        BY <3>1 DEF RunIds, SentGrows, SentOnce, PhaseInv, RunsTrue, Grown
      <3>4. \A r \in CsIds, d \in Devices : HandedOut(r, d)' => HandedOut(r, d)
        BY <3>1 DEF HandedOut, Applied
      <3>5. \A w \in Workers : FenceKept(runs[workers[w].run], runs'[workers[w].run], w)
        BY <3>1 DEF FenceKept
      <3> QED BY <1>t, <3>1, <3>2, <3>3, <3>4, <3>5, PhaseStep
    <2> QED BY <1>1, <2>1, <2>2, <2>3, <2>4, <2>5, <2>6, <2>7, <2>8, <2>9, <2>10, <2>11, <2>12,
               <2>13, <2>14, <2>15, <2>16, NextCases
  <1>2. CASE UNCHANGED vars BY <1>t, <1>2, PhaseUntouched DEF vars
  <1> QED BY <1>1, <1>2

-----------------------------------------------------------------------------
(* Theorems *)

\* The inductive invariant holds of every reachable state.
THEOREM Inductive == Spec => []IInv
  <1>1. Init => IInv BY InitType, InitClaims, InitPhases DEF IInv
  <1>2. IInv /\ [Next]_vars => IInv'
    BY StepType, StepClaims, StepPhases DEF IInv, PhaseInv
  <1> QED BY <1>1, <1>2, PTL DEF Spec

\* Requests own the targets they run scripts on, no device is RUNNING without a
\* rollout that is, and no draft older than a started rollout is left to apply
\* (SyncFleetHandler, claimRolloutDraftTx, MarkRolloutDevicesRunning).
THEOREM ClaimsHold == Spec => []SshClaims
  <1>1. IInv => SshClaims
    <2> SUFFICES ASSUME IInv PROVE SshClaims
      OBVIOUS
    <2>1. RunningHasOwner BY DEF IInv, ClaimInv
    <2>2. SupersededDraftsRetired BY DEF IInv, ClaimInv, Superseded, SupersededDraftsRetired
    <2>3. SshOwnsTargets
      <3> SUFFICES ASSUME NEW h \in Handlers, handlers[h].pc = "execute"
                   PROVE  /\ HoldsClaim(h)
                          /\ \A d \in Targets(handlers[h].run) :
                                rows[d].rolloutStatus = "RUNNING" /\ NoPending(rows[d])
                          /\ \A g \in Handlers \ {h} : handlers[g].pc # "execute"
        BY DEF SshOwnsTargets
      <3>1. \A g \in Handlers : handlers[g].pc = "execute" =>
               /\ HoldsClaim(g) /\ runs[handlers[g].run].kind = "ssh" /\ handlers[g].run \in RunIds
               /\ \A d \in Targets(handlers[g].run) : rows[d].rolloutStatus = "RUNNING"
        BY DEF IInv, TypeOK, ClaimInv, HandlerInv, HandlerOK
      <3>2. \A d \in Targets(handlers[h].run) : NoPending(rows[d])
        BY <3>1, RunsMap DEF IInv, ClaimInv, RunningIdle
      <3>3. ASSUME NEW g \in Handlers, handlers[g].pc = "execute" PROVE g = h
        <4>1. handlers[g].run = handlers[h].run
          BY <3>1, <3>3 DEF IInv, ClaimInv, OneSsh, SshRunning, HoldsClaim
        <4> QED BY <3>1, <3>3, <4>1 DEF HoldsClaim
      <3> QED BY <3>1, <3>2, <3>3
    <2> QED BY <2>1, <2>2, <2>3 DEF SshClaims
  <1> QED BY <1>1, Inductive, PTL

\* At most one rollout of a site is leased (ClaimQueuedRollout).
THEOREM LeaseUnique == Spec => []OneLease
  <1>1. IInv => OneLease BY DEF IInv, ClaimInv
  <1> QED BY <1>1, Inductive, PTL

\* A device is handed the change set of a rollout only after every device of an
\* earlier phase has committed it (queueNextPhase, canAdvancePhase).
THEOREM PhasesInOrder == Spec => []PhaseGate
  <1>1. IInv => PhaseGate
    <2> SUFFICES ASSUME IInv, NEW r \in RunIds, NEW d \in Devices, HandedOut(r, d),
                        NEW e \in Targets(r), Before(r, e, d)
                 PROVE  Committed(r, e)
      BY DEF PhaseGate, HandedOut
    <2>1. TypeOK /\ r \in CsIds BY RunsMap DEF IInv
    <2>2. GateOpen(runs[r], d) BY <2>1 DEF IInv, PhaseInv, RecordedGate
    <2>3. runs[r].results[e].cs = "COMMITTED" BY <2>2, BeforeIsEarlier DEF GateOpen, Targets
    <2>4. EntryTrue(sent[e], r, runs[r].results[e])
      BY <2>2 DEF GateOpen, Targets, IInv, PhaseInv, RunsTrue, RunTrue
    <2> QED BY <2>3, <2>4 DEF EntryTrue, Committed
  <1> QED BY <1>1, Inductive, PTL

\* A final state in the column results is what that device's agent reached, and a
\* rollout is completed only when every device committed (RecordRolloutResult,
\* UpdateRolloutWorkerResults).
THEOREM ResultsTrue == Spec => []ResultsAreTrue
  <1>1. IInv => ResultsAreTrue
    BY DEF IInv, PhaseInv, RunsTrue, RunTrue, EntryTrue, ResultsAreTrue, Targets, Committed
  <1> QED BY <1>1, Inductive, PTL
-----------------------------------------------------------------------------
(* What stays *)

\* What FinalResultsStay says of one rollout.
Stays(r) ==
    /\ \A d \in DOMAIN runs[r].results : runs[r].results[d].cs \in CsTerminal
          => runs'[r].results[d] = runs[r].results[d]
    /\ runs[r].status \notin {"DRAFT", "QUEUED", "RUNNING"} => runs'[r].status = runs[r].status

\* Rollouts that are claimed, retired or left alone.
LEMMA StaysOpen ==
    ASSUME NEW r, runs'[r].results = runs[r].results \/ DOMAIN runs[r].results = {},
           runs'[r].status = runs[r].status \/ runs[r].status \in {"DRAFT", "QUEUED", "RUNNING"}
    PROVE  Stays(r)
  BY DEF Stays

\* The worker's copy has the final entries of the column while the lease is live.
LEMMA FencedStays ==
    ASSUME TypeOK, PhaseInv, NEW w \in Workers,
           UpdateRolloutWorkerCursor(w) \/ UpdateRolloutWorkerResults(w) \/ RenewRolloutLease(w)
    PROVE  \A r \in RunIds : Stays(r)
  <1> DEFINE r == workers[w].run
  <1>1. /\ r \in RunIds /\ OthersSame(r) /\ SameClaim(r)
        /\ \/ runs'[r].results = runs[r].results
           \/ Fenced(w) /\ workers[w].pc = "results" /\ runs'[r].results = workers[w].results
    BY FencedEffect
  <1>2. \A s \in RunIds \ {r} : Stays(s) BY <1>1, StaysOpen DEF OthersSame
  <1>3. CASE runs'[r].results = runs[r].results BY <1>1, <1>2, <1>3, StaysOpen DEF SameClaim
  <1>4. CASE Fenced(w) /\ workers[w].pc = "results" /\ runs'[r].results = workers[w].results
    <2>1. FencedBy(runs[r], w) BY <1>4 DEF Fenced, FencedBy, LiveLease
    <2>2. /\ DOMAIN runs[r].results = DOMAIN workers[w].results
          /\ CopyCurrent(workers[w].results, runs[r])
      BY <1>4, <2>1 DEF PhaseInv, WorkerInv, WorkerTrue, CopyTrue
    <2>3. "" \notin CsTerminal BY DEF CsTerminal
    <2>4. Stays(r) BY <1>1, <1>4, <2>2, <2>3 DEF Stays, CopyCurrent, SameClaim
    <2> QED BY <1>2, <2>4
  <1> QED BY <1>1, <1>3, <1>4

\* A request changes the results of a rollout that had none.
LEMMA EndStays ==
    ASSUME TypeOK, ClaimInv, NEW h \in Handlers,
           \/ ReleaseRolloutDraft(h) \/ MarkRolloutDraftStale(h)
           \/ PersistRolloutResults(h) \/ MarkRolloutPersistenceFailure(h)
    PROVE  \A r \in RunIds : Stays(r)
  <1> DEFINE r == handlers[h].run
  <1>1. /\ r \in RunIds /\ handlers[h].pc # "idle" /\ OthersSame(r)
        /\ \/ runs' = runs
           \/ HoldsClaim(h)
           \/ runs[r].status = "DRAFT" /\ runs'[r].results = runs[r].results
    BY EndEffect
  <1>2. \A s \in RunIds \ {r} : Stays(s) BY <1>1, StaysOpen DEF OthersSame
  <1>3. HoldsClaim(h) => runs[r].status = "RUNNING" /\ DOMAIN runs[r].results = {}
    BY <1>1 DEF HoldsClaim, ClaimInv, KindInv, HandlerInv, HandlerOK
  <1>4. Stays(r) BY <1>1, <1>3, StaysOpen
  <1> QED BY <1>2, <1>4

\* A claim: the rollout was a draft, those it retires were running or drafts.
LEMMA ClaimedStays ==
    ASSUME TypeOK, ClaimInv, NEW r \in RunIds, runs[r].status = "DRAFT",
           \A s \in RunIds \ {r} : runs'[s] = IF runs[s].status \in {"RUNNING", "DRAFT"}
                                              THEN AsStale(runs[s]) ELSE runs[s]
    PROVE  \A s \in RunIds : Stays(s)
  <1>1. DOMAIN runs[r].results = {} BY DEF ClaimInv, KindInv
  <1>2. \A s \in RunIds \ {r} : /\ runs'[s].results = runs[s].results
                                /\ \/ runs'[s].status = runs[s].status
                                   \/ runs[s].status \in {"DRAFT", "RUNNING"}
    BY StaleTable
  <1>3. \A s \in RunIds \ {r} : Stays(s) BY <1>2, StaysOpen
  <1>4. Stays(r) BY <1>1, StaysOpen
  <1> QED BY <1>3, <1>4

\* Every step.
LEMMA StepStays ==
    ASSUME TypeOK, ClaimInv, PhaseInv, Next
    PROVE  \A r \in RunIds : Stays(r)
  <1>0. runs' = runs => \A r \in RunIds : Stays(r) BY StaysOpen
  <1>1. CASE \E kind \in Kinds, targets \in TargetSets : CreateRolloutDraft(kind, targets)
    <2>1. \A r \in RunIds : runs'[r] = IF runs[r].status = "DRAFT"
                                       THEN AsStale(runs[r]) ELSE runs[r]
      BY <1>1, DraftEffect
    <2>2. \A s \in RunIds : /\ runs'[s].results = runs[s].results
                            /\ runs'[s].status = runs[s].status \/ runs[s].status = "DRAFT"
      BY <2>1, StaleTable
    <2> QED BY <2>2, StaysOpen
  <1>2. CASE \E r \in RunIds : RejectRolloutDraft(r)
    <2>1. PICK r \in RunIds : OthersSame(r) /\ runs[r].status = "DRAFT" BY <1>2, RejectEffect
    <2>2. DOMAIN runs[r].results = {} BY <2>1 DEF ClaimInv, KindInv
    <2>3. Stays(r) /\ \A s \in RunIds \ {r} : Stays(s) BY <2>1, <2>2, StaysOpen DEF OthersSame
    <2> QED BY <2>3
  <1>3. CASE \E r \in RunIds : ClaimAndQueueDeviceChangeSets(r)
    <2>1. PICK r \in RunIds :
            /\ Claimable(r)
            /\ \A s \in RunIds \ {r} : runs'[s] = IF runs[s].status \in {"RUNNING", "DRAFT"}
                                                  THEN AsStale(runs[s]) ELSE runs[s]
      BY <1>3, FirstPhaseEffect
    <2> QED BY <2>1, ClaimedStays DEF Claimable
  <1>4. CASE \E r \in RunIds : LeaseExpires(r)
    <2>1. PICK r \in RunIds : OthersSame(r) /\ SameClaim(r) /\ SameResults(r) BY <1>4, ExpireEffect
    <2>2. Stays(r) /\ \A s \in RunIds \ {r} : Stays(s)
      BY <2>1, StaysOpen DEF OthersSame, SameClaim, SameResults
    <2> QED BY <2>2
  <1>5. CASE \E w \in Workers : ClaimQueuedRollout(w)
    <2>1. PICK r \in RunIds : OthersSame(r) /\ LeaseCandidate(r) /\ SameResults(r)
      BY <1>5, LeaseEffect
    <2>2. Stays(r) /\ \A s \in RunIds \ {r} : Stays(s)
      BY <2>1, StaysOpen DEF OthersSame, LeaseCandidate, SameResults
    <2> QED BY <2>2
  <1>6. CASE \E w \in Workers : ReadProgress(w) BY <1>0, <1>6, ReadEffect
  <1>7. CASE \E w \in Workers : \/ UpdateRolloutWorkerCursor(w) \/ UpdateRolloutWorkerResults(w)
                                \/ RenewRolloutLease(w)
    BY <1>7, FencedStays
  <1>8. CASE \E w \in Workers : QueueNextPhase(w) BY <1>0, <1>8, QueueEffect
  <1>9. CASE \E h \in Handlers : \/ \E r \in RunIds : VerifyRolloutDraftTargets(h, r)
                                 \/ ValidateClaimedDraft(h)
                                 \/ MarkRolloutDevicesRunning(h)
    BY <1>0, <1>9, RequestEffect
  <1>10. CASE \E h \in Handlers : ClaimRolloutDraft(h)
    <2>1. PICK h \in Handlers : ClaimRolloutDraft(h) BY <1>10
    <2>2. /\ handlers[h].run \in RunIds
          /\ \/ runs' = runs
             \/ /\ Claimable(handlers[h].run)
                /\ \A s \in RunIds \ {handlers[h].run} :
                      runs'[s] = IF runs[s].status \in {"RUNNING", "DRAFT"}
                                 THEN AsStale(runs[s]) ELSE runs[s]
      BY <2>1, ClaimDraftEffect
    <2> QED BY <1>0, <2>2, ClaimedStays DEF Claimable
  <1>11. CASE \E h \in Handlers : \/ ReleaseRolloutDraft(h) \/ MarkRolloutDraftStale(h)
                                  \/ PersistRolloutResults(h) \/ MarkRolloutPersistenceFailure(h)
    BY <1>11, EndStays
  <1>12. CASE \E d \in Devices :
               \/ \E st \in sent[d] : RecordDeviceChangeSetStatus(d, st)
               \/ \E id \in OpIds : QueueDeviceOperation(d, id)
               \/ \E id \in OpIds, state \in OpTerminal : RecordDeviceOperationStatus(d, id, state)
               \/ \E role \in Roles : UpdateDeviceRole(d, role)
    BY <1>0, <1>12, DeviceEffect
  <1>13. CASE \E d \in Devices : \E st \in sent[d] : RecordRolloutResult(d, st)
    <2>0. PICK d \in Devices : \E st \in sent[d] : RecordRolloutResult(d, st) BY <1>13
    <2>1. PICK st \in sent[d] : RecordRolloutResult(d, st) BY <2>0
    <2> SUFFICES ASSUME NEW r \in RunIds PROVE Stays(r)
      OBVIOUS
    <2>2. CASE ~TakesResult(r, d, st)
      <3>1. runs'[r] = runs[r] BY <2>1, <2>2, ResultEffect
      <3> QED BY <3>1, StaysOpen
    <2>3. CASE TakesResult(r, d, st)
      <3>1. Grown(runs[r], runs'[r]) BY <2>1, <2>3, ResultRow
      <3>2. /\ runs[r].status = "QUEUED" /\ runs[r].kind = "changeset"
            /\ DOMAIN runs[r].results = DOMAIN runs[r].roles
        BY <2>3 DEF TakesResult, ClaimInv, KindInv, Targets
      <3>3. "" \notin CsTerminal BY DEF CsTerminal
      <3> QED BY <3>1, <3>2, <3>3 DEF Grown, Stays
    <2> QED BY <2>2, <2>3
  <1>14. CASE \E d \in Devices, outcome \in Outcomes : AgentApply(d, outcome)
    BY <1>0, <1>14, ApplyEffect
  <1>15. CASE Tick
    <2>1. \A r \in RunIds : SameClaim(r) /\ SameResults(r) BY <1>15, TickEffect
    <2> QED BY <2>1, StaysOpen DEF SameClaim, SameResults
  <1>16. CASE Crash BY <1>0, <1>16, CrashEffect
  <1> QED BY <1>1, <1>2, <1>3, <1>4, <1>5, <1>6, <1>7, <1>8, <1>9, <1>10, <1>11, <1>12,
             <1>13, <1>14, <1>15, <1>16, NextCases

\* A final result is never replaced, neither by a later report nor by the worker,
\* which writes the whole column from an older copy; a rollout that has ended
\* does not start again (UpdateRolloutWorkerResults, RecordRolloutResult).
THEOREM FinalStays == Spec => FinalResultsStay
  <1>1. IInv /\ [Next]_vars =>
          [\A r \in RunIds :
             /\ \A d \in DOMAIN runs[r].results : runs[r].results[d].cs \in CsTerminal
                    => runs'[r].results[d] = runs[r].results[d]
             /\ runs[r].status \notin {"DRAFT", "QUEUED", "RUNNING"}
                    => runs'[r].status = runs[r].status]_vars
    BY StepStays DEF IInv, Stays
  <1> QED BY <1>1, Inductive, PTL DEF Spec, FinalResultsStay
=============================================================================
