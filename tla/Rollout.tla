------------------------------- MODULE Rollout -------------------------------
(***************************************************************************)
(* The fleet rollouts of one site: the table rollout_runs, the rows of the *)
(* site's devices, and the processes that work on them,                    *)
(*                                                                         *)
(*   - API requests that preview (CreateRolloutDraft) and apply a draft    *)
(*     (SyncFleetHandler), either over SSH, in a request of up to 15       *)
(*     minutes, or as device change sets that the agents pull;             *)
(*   - the goroutines of rolloutworker, which lease a queued rollout and   *)
(*     hand out its next phase;                                            *)
(*   - the telemetry goroutines, which record what an agent reports in two *)
(*     statements: the device's row, then the rollout;                     *)
(*   - the agents.                                                         *)
(*                                                                         *)
(* Every SQL statement, or transaction, is one step; a process may crash   *)
(* between any two.                                                        *)
(*                                                                         *)
(* Simplifications.  A rollout is named by its site sequence number (the   *)
(* column generation); its change sets have stable ids derived from the    *)
(* rollout and the device, so the rollout's number serves as the id.  A    *)
(* claim or lease token is the process that drew it: a process that draws  *)
(* another one has forgotten the first.  Time passes in ticks of some      *)
(* minutes.  Agents report final states only, as often as they like and in *)
(* any order; DeviceQueue has the reports of intermediate states.          *)
(***************************************************************************)
EXTENDS DeviceRow, FiniteSets, Sequences

CONSTANTS Devices,        \* device ids: numbers, for their order
          TargetSets,     \* the target sets that previews may select
          Capable,        \* whether agents support change sets: a set of Booleans
          Kinds,          \* "ssh", "changeset": the drafts that are previewed
          Outcomes,       \* the final states that agents report
          Workers,        \* goroutines running reconcileLease
          Handlers,       \* requests running SyncFleetHandler over SSH
          NoProcess,      \* a NULL token
          Crashes,        \* whether processes crash, or stall past a lease
          MaxRuns,        \* bound: rollouts previewed
          MaxGen,         \* bound: generations reserved for a device
          ExecutionLimit, \* ticks an SSH rollout may take (15 minutes)
          FenceWindow     \* ticks a RUNNING rollout is believed alive (20 minutes)

ASSUME SiteAssumption ==
    /\ Devices \subseteq Nat /\ IsFiniteSet(Devices)
    /\ TargetSets \subseteq (SUBSET Devices) \ {{}}
    /\ Capable \subseteq BOOLEAN
    /\ Kinds \subseteq {"ssh", "changeset"} /\ Outcomes \subseteq CsTerminal
    /\ NoProcess \notin Workers \cup Handlers
    /\ MaxRuns \in Nat /\ CsIds = 1 .. MaxRuns
    /\ MaxGen \in Nat \ {0} /\ Hashes # {}
    /\ ExecutionLimit \in Nat /\ FenceWindow \in Nat /\ ExecutionLimit < FenceWindow

VARIABLES rows,        \* devices
          runs,        \* rollout_runs, by sequence number
          workers,     \* what each worker goroutine holds in memory
          handlers,    \* what each SSH request holds in memory
          sent,        \* final states each agent has reached and reports
          recording    \* reports whose second statement is outstanding

vars == <<rows, runs, workers, handlers, sent, recording>>

RunIds == DOMAIN runs

Targets(r) == DOMAIN runs[r].roles

\* Status and change_set_state of a device in the column results, which maps
\* the devices that have an entry to it; <<>> is an array without such entries.
NoResult == [status |-> "", cs |-> ""]

NewRun(kind, roles) ==
    [kind |-> kind, roles |-> roles, status |-> "DRAFT", claim |-> NoProcess,
     worker |-> NoProcess, lease |-> "none", cursor |-> 0, age |-> 0,
     results |-> <<>>]

IdleWorker == [pc |-> "idle", run |-> 0, cursor |-> 0, seen |-> "", results |-> <<>>]

IdleHandler == [pc |-> "idle", run |-> 0, age |-> 0, claimed |-> FALSE]

Init == /\ \E capable \in [Devices -> Capable], role \in [Devices -> Roles] :
              rows = [d \in Devices |-> InitRow(capable[d], role[d])]
        /\ runs = <<>>
        /\ workers = [w \in Workers |-> IdleWorker]
        /\ handlers = [h \in Handlers |-> IdleHandler]
        /\ sent = [d \in Devices |-> {}]
        /\ recording = {}

-----------------------------------------------------------------------------
(* Drafts and claims *)

\* updated_at of a RUNNING rollout lies in the last 20 minutes, or before.
Active(r) == runs[r].status = "RUNNING" /\ runs[r].age < FenceWindow

Expired(r) == runs[r].status = "RUNNING" /\ runs[r].age >= FenceWindow

AsStale(run) == [run EXCEPT !.status = "STALE", !.claim = NoProcess, !.age = 0]

\* The preview reserves the next number and retires every older draft.
CreateRolloutDraft(kind, targets) ==
    /\ Len(runs) < MaxRuns
    /\ runs' = Append([r \in RunIds |-> IF runs[r].status = "DRAFT"
                                        THEN AsStale(runs[r]) ELSE runs[r]],
                      NewRun(kind, [d \in targets |-> rows[d].role]))
    /\ UNCHANGED <<rows, workers, handlers, sent, recording>>

\* A draft that cannot be executed (contents, transport or capability).
RejectRolloutDraft(r) ==
    /\ runs[r].status = "DRAFT"
    /\ runs' = [runs EXCEPT ![r].status = "REJECTED", ![r].results = <<>>, ![r].age = 0]
    /\ UNCHANGED <<rows, workers, handlers, sent, recording>>

\* claimRolloutDraftTx: the newest draft, on a site without an active rollout.
Claimable(r) == /\ runs[r].status = "DRAFT"
                /\ \A s \in RunIds : s > r => runs[s].status # "DRAFT"
                /\ \A s \in RunIds : ~Active(s)

\* Its statement also retires older drafts and expired rollouts ...
Retired(s) == \/ Expired(s)
              \/ runs[s].status = "DRAFT" /\ \E n \in RunIds : n > s /\ runs[n].status = "DRAFT"

ClaimedRuns(r, claimed) ==
    [s \in RunIds |-> IF s = r THEN claimed
                      ELSE IF Retired(s) THEN AsStale(runs[s]) ELSE runs[s]]

\* Mutant: the devices of an expired rollout are not released.
RowsNotReleased == rows

\* ... and releases the devices that an expired rollout left RUNNING.
ClaimedRows == IF \E s \in RunIds : Expired(s)
               THEN [d \in Devices |-> EndRunning(rows[d], "FAILED")] ELSE rows

-----------------------------------------------------------------------------
(* Change set rollouts: the first phase *)

ChangeSet(r) == [id |-> r, hash |-> CHOOSE h \in Hashes : TRUE, gen |-> 0]

\* Gateways last, then by device id.
Before(r, d, e) ==
    LET gateway(x) == runs[r].roles[x] = "Gateway"
    IN  IF gateway(d) # gateway(e) THEN gateway(e) ELSE d < e

Phase(r, d) == Cardinality({e \in Targets(r) : Before(r, e, d)})

\* One transaction: the claim, the change set of the first device, the results.
ClaimAndQueueDeviceChangeSets(r) ==
    /\ runs[r].kind = "changeset"
    /\ Claimable(r)
    /\ \E d \in Targets(r) :
        /\ Phase(r, d) = 0
        /\ ClaimedRows[d].role = runs[r].roles[d]
        /\ CanQueueCs(ClaimedRows[d], ChangeSet(r), FALSE)
        /\ rows[d].desired < MaxGen
        /\ rows' = [ClaimedRows EXCEPT ![d] = QueueCs(@, ChangeSet(r))]
        /\ runs' = ClaimedRuns(r, [runs[r] EXCEPT
                      !.status = "QUEUED", !.claim = NoProcess, !.age = 0,
                      !.results = [e \in Targets(r) |->
                          [NoResult EXCEPT !.status = IF e = d THEN "QUEUED" ELSE "WAITING"]]])
    /\ UNCHANGED <<workers, handlers, sent, recording>>

-----------------------------------------------------------------------------
(* Change set rollouts: the worker *)

LiveLease(r) == runs[r].status = "RUNNING" /\ runs[r].lease = "live"

\* Mutant: leases are not reclaimed.
QueuedCandidate(r) == runs[r].status = "QUEUED"

LeaseCandidate(r) == \/ runs[r].status = "QUEUED"
                     \/ runs[r].status = "RUNNING" /\ runs[r].lease = "expired"

\* Mutant: the claim does not look at the other rollouts of the site.
AnySite == TRUE

\* No rollout of the site is leased by a live worker.
SiteUnleased == \A s \in RunIds : ~LiveLease(s)

\* The oldest candidate, on a site without a live lease.
ClaimQueuedRollout(w) ==
    /\ workers[w].pc = "idle"
    /\ SiteUnleased
    /\ \E r \in RunIds :
        /\ LeaseCandidate(r)
        /\ \A s \in RunIds : LeaseCandidate(s) => r <= s
        /\ runs' = [runs EXCEPT ![r].status = "RUNNING", ![r].worker = w,
                                ![r].lease = "live", ![r].age = 0]
        /\ workers' = [workers EXCEPT ![w] =
              [IdleWorker EXCEPT !.pc = "read", !.run = r, !.cursor = runs[r].cursor]]
    /\ UNCHANGED <<rows, handlers, sent, recording>>

\* Every mutation of the worker is fenced by its token and a live lease.
Fenced(w) == LiveLease(workers[w].run) /\ runs[workers[w].run].worker = w

Terminal(result) == result.status \in {"SUCCESS", "SKIPPED"} \/ result.cs \in CsTerminal

Succeeded(result) == result.status \in {"SUCCESS", "SKIPPED"} \/ result.cs = "COMMITTED"

TerminalCount(results) == Cardinality({d \in DOMAIN results : Terminal(results[d])})

FailureCount(results) ==
    Cardinality({d \in DOMAIN results : Terminal(results[d]) /\ ~Succeeded(results[d])})

\* Mutant: a phase that ended is a phase that succeeded.
canAdvanceAfterFailure(cursor, results) == cursor > 0

canAdvancePhase(cursor, results) == cursor > 0 /\ FailureCount(results) = 0

\* The end of an iteration: leave, or wait for the ticker.
Settled(worker) ==
    IF \/ worker.seen # "RUNNING"
       \/ worker.results # <<>> /\ TerminalCount(worker.results) = Cardinality(DOMAIN worker.results)
    THEN IdleWorker ELSE [worker EXCEPT !.pc = "wait"]

Advancing(worker) == IF canAdvancePhase(worker.cursor, worker.results)
                     THEN [worker EXCEPT !.pc = "queue"] ELSE Settled(worker)

\* GetRolloutProgress: everything below works on this copy.
ReadProgress(w) ==
    LET r == workers[w].run
        read == [workers[w] EXCEPT !.seen = runs[r].status, !.results = runs[r].results]
    IN  /\ workers[w].pc = "read"
        /\ workers' = [workers EXCEPT ![w] =
              IF TerminalCount(read.results) > read.cursor
              THEN [read EXCEPT !.pc = "cursor"] ELSE Advancing(read)]
        /\ UNCHANGED <<rows, runs, handlers, sent, recording>>

Exit(w) == workers' = [workers EXCEPT ![w] = IdleWorker]

UpdateRolloutWorkerCursor(w) ==
    LET r == workers[w].run
        count == TerminalCount(workers[w].results)
    IN  /\ workers[w].pc = "cursor"
        /\ IF Fenced(w)
           THEN /\ runs' = [runs EXCEPT ![r].cursor = Greatest(@, count), ![r].age = 0]
                /\ workers' = [workers EXCEPT ![w] = Advancing([@ EXCEPT !.cursor = count])]
           ELSE Exit(w) /\ UNCHANGED runs
        /\ UNCHANGED <<rows, handlers, sent, recording>>

\* Mutant: a rollout that is RUNNING owns the site.
NoOtherActive(r) == FALSE

\* Another rollout of the site fences its devices.
OtherActive(r) == \E s \in RunIds \ {r} : Active(s)

\* queueNextPhase up to QueueDeviceChangeSetForRollout.  That statement is not
\* fenced by the lease; it needs the rollout to be RUNNING.
QueueNextPhase(w) ==
    LET worker == workers[w]
        r == worker.run
        next == {d \in DOMAIN worker.results : Phase(r, d) = worker.cursor}
        waiting == {d \in next : worker.results[d].status = "WAITING"}
        queueable(d) == /\ runs[r].status = "RUNNING"
                        /\ rows[d].role = runs[r].roles[d]
                        /\ CanQueueCs(rows[d], ChangeSet(r), OtherActive(r))
        held(d) == rows[d].role = runs[r].roles[d] /\ HeldCsGen(rows[d], ChangeSet(r)) > 0
        handedOut(d) == [worker EXCEPT !.pc = "results", !.results[d].status = "QUEUED"]
    IN  /\ worker.pc = "queue"
        /\ \/ /\ waiting = {}
              /\ workers' = [workers EXCEPT ![w] = Settled(worker)]
              /\ UNCHANGED rows
           \/ \E d \in waiting :
                /\ queueable(d) /\ rows[d].desired < MaxGen
                /\ rows' = [rows EXCEPT ![d] = QueueCs(@, ChangeSet(r))]
                /\ workers' = [workers EXCEPT ![w] = handedOut(d)]
           \/ \E d \in waiting :
                /\ ~queueable(d)
                /\ workers' = [workers EXCEPT ![w] = IF held(d) THEN handedOut(d) ELSE IdleWorker]
                /\ UNCHANGED rows
        /\ UNCHANGED <<runs, handlers, sent, recording>>

\* The copy with the new entry replaces the whole column.
UpdateRolloutWorkerResults(w) ==
    LET r == workers[w].run
    IN  /\ workers[w].pc = "results"
        /\ IF Fenced(w)
           THEN /\ runs' = [runs EXCEPT ![r].results = workers[w].results, ![r].age = 0]
                /\ workers' = [workers EXCEPT ![w] = Settled(@)]
           ELSE Exit(w) /\ UNCHANGED runs
        /\ UNCHANGED <<rows, handlers, sent, recording>>

RenewRolloutLease(w) ==
    LET r == workers[w].run
    IN  /\ workers[w].pc = "wait"
        /\ IF Fenced(w)
           THEN /\ runs' = [runs EXCEPT ![r].age = 0]
                /\ workers' = [workers EXCEPT ![w].pc = "read"]
           ELSE Exit(w) /\ UNCHANGED runs
        /\ UNCHANGED <<rows, handlers, sent, recording>>

-----------------------------------------------------------------------------
(* SSH rollouts: one request from the checks to the results *)

Goto(h, pc) == handlers' = [handlers EXCEPT ![h].pc = pc]

EndRequest(h) == handlers' = [handlers EXCEPT ![h] = IdleHandler]

\* The request drew the token that the rollout carries.
HoldsClaim(h) == /\ handlers[h].claimed
                 /\ runs[handlers[h].run].status = "RUNNING"
                 /\ runs[handlers[h].run].claim = h

\* verifyRolloutDraftTargets, before the claim.
VerifyRolloutDraftTargets(h, r) ==
    LET valid == \A d \in Targets(r) : /\ ~NeedsRecovery(rows[d]) /\ NoPending(rows[d])
                                       /\ rows[d].role = runs[r].roles[d]
    IN  /\ handlers[h].pc = "idle"
        /\ runs[r].kind = "ssh"
        /\ handlers' = [handlers EXCEPT ![h] =
              [IdleHandler EXCEPT !.pc = IF valid THEN "claim" ELSE "stale", !.run = r]]
        /\ UNCHANGED <<rows, runs, workers, sent, recording>>

ClaimRolloutDraft(h) ==
    LET r == handlers[h].run
    IN  /\ handlers[h].pc = "claim"
        /\ IF Claimable(r)
           THEN /\ runs' = ClaimedRuns(r, [runs[r] EXCEPT !.status = "RUNNING", !.claim = h, !.age = 0])
                /\ rows' = ClaimedRows
                /\ handlers' = [handlers EXCEPT ![h].pc = "validate", ![h].claimed = TRUE]
           ELSE EndRequest(h) /\ UNCHANGED <<rows, runs>>
        /\ UNCHANGED <<workers, sent, recording>>

\* The audit record, the observed state, the backups, the observed state again:
\* all good, or a failure worth a retry, or a configuration that has changed.
ValidateClaimedDraft(h) ==
    /\ handlers[h].pc = "validate"
    /\ \E pc \in {"mark", "release", "stale"} : Goto(h, pc)
    /\ UNCHANGED <<rows, runs, workers, sent, recording>>

Markable(r) == \A d \in Targets(r) : CanMarkRunning(rows[d], runs[r].roles[d])

\* All targets or none; an error of the database releases the draft instead.
MarkRolloutDevicesRunning(h) ==
    LET r == handlers[h].run
    IN  /\ handlers[h].pc = "mark"
        /\ \/ /\ HoldsClaim(h) /\ Markable(r)
              /\ rows' = [d \in Devices |-> IF d \in Targets(r) THEN MarkRunning(rows[d]) ELSE rows[d]]
              /\ Goto(h, "execute")
           \/ /\ ~(HoldsClaim(h) /\ Markable(r))
              /\ Goto(h, "stale") /\ UNCHANGED rows
           \/ Goto(h, "release") /\ UNCHANGED rows
        /\ UNCHANGED <<runs, workers, sent, recording>>

ReleaseRolloutDraft(h) ==
    LET r == handlers[h].run
    IN  /\ handlers[h].pc = "release"
        /\ runs' = IF HoldsClaim(h)
                   THEN [runs EXCEPT ![r].status = "DRAFT", ![r].claim = NoProcess, ![r].age = 0]
                   ELSE runs
        /\ EndRequest(h)
        /\ UNCHANGED <<rows, workers, sent, recording>>

MarkRolloutDraftStale(h) ==
    LET r == handlers[h].run
        wasRunning == HoldsClaim(h)
    IN  /\ handlers[h].pc = "stale"
        /\ runs' = IF wasRunning \/ runs[r].status = "DRAFT"
                   THEN [runs EXCEPT ![r] = AsStale(@)] ELSE runs
        /\ rows' = IF wasRunning
                   THEN [d \in Devices |-> EndRunning(rows[d], "FAILED")] ELSE rows
        /\ EndRequest(h)
        /\ UNCHANGED <<workers, sent, recording>>

\* The devices in the order of the draft, one after the other; the first that
\* fails, or whose configuration has changed, aborts the rest.
RoleRank == [AP |-> 1, Gateway |-> 2, IoT_Node |-> 3]

SshResults(r) ==
    LET first(d, e) == \/ RoleRank[runs[r].roles[d]] < RoleRank[runs[r].roles[e]]
                       \/ runs[r].roles[d] = runs[r].roles[e] /\ d < e
    IN  {[d \in Targets(r) |-> "SUCCESS"]} \cup
        {[d \in Targets(r) |-> IF d = f THEN failure ELSE IF first(d, f) THEN "SUCCESS" ELSE "ABORTED"] :
            f \in Targets(r), failure \in {"FAILED", "STALE"}}

SshRunStatus(r, results) ==
    LET aborted == \E d \in Targets(r) : results[d] = "SUCCESS"
    IN  IF \A d \in Targets(r) : results[d] = "SUCCESS" THEN "completed"
        ELSE IF \E d \in Targets(r) : results[d] = "STALE" THEN "STALE"
        ELSE IF aborted THEN "aborted" ELSE "canary_failed"

SshEntries(results) == [d \in DOMAIN results |-> [NoResult EXCEPT !.status = results[d]]]

\* persistRolloutResults: every target still RUNNING, or nothing is written.
PersistRolloutResults(h) ==
    LET r == handlers[h].run
        current == HoldsClaim(h) /\ \A d \in Targets(r) : rows[d].rolloutStatus = "RUNNING"
    IN  /\ handlers[h].pc = "execute"
        /\ \/ \E results \in SshResults(r) :
              /\ current
              /\ rows' = [d \in Devices |-> IF d \in Targets(r)
                                            THEN EndRunning(rows[d], results[d]) ELSE rows[d]]
              /\ runs' = [runs EXCEPT ![r].status = SshRunStatus(r, results), ![r].claim = NoProcess,
                            ![r].age = 0,
                            ![r].results = SshEntries(results)]
              /\ EndRequest(h)
           \/ Goto(h, "persistFailed") /\ UNCHANGED <<rows, runs>>
        /\ UNCHANGED <<workers, sent, recording>>

MarkRolloutPersistenceFailure(h) ==
    LET r == handlers[h].run
    IN  /\ handlers[h].pc = "persistFailed"
        /\ \/ \E results \in SshResults(r) :
              /\ HoldsClaim(h)
              /\ rows' = [d \in Devices |-> EndRunning(rows[d], "FAILED")]
              /\ runs' = [runs EXCEPT ![r].status = "FAILED", ![r].claim = NoProcess, ![r].age = 0,
                                      ![r].results = SshEntries(results)]
           \/ UNCHANGED <<rows, runs>>
        /\ EndRequest(h)
        /\ UNCHANGED <<workers, sent, recording>>

-----------------------------------------------------------------------------
(* Agents and telemetry *)

\* An agent pulls the pending change set, applies it once and journals how
\* that ended; every later heartbeat repeats it.
AgentApply(d, outcome) ==
    LET cs == rows[d].pendingCs
    IN  /\ cs # NoWork
        /\ \A st \in sent[d] : st.id # cs.id
        /\ sent' = [sent EXCEPT ![d] = @ \cup
              {[id |-> cs.id, hash |-> cs.hash, gen |-> cs.gen, state |-> outcome]}]
        /\ UNCHANGED <<rows, runs, workers, handlers, recording>>

\* First statement of RecordDeviceChangeSetStatus.
RecordDeviceChangeSetStatus(d, st) ==
    /\ CsStatusApplies(rows[d], st)
    /\ rows' = [rows EXCEPT ![d] = RecordCs(@, st)]
    /\ recording' = recording \cup {[device |-> d, status |-> st]}
    /\ UNCHANGED <<runs, workers, handlers, sent>>

\* Second statement: only a rollout that is QUEUED takes the result.
TakesResult(r, d, st) == /\ runs[r].status = "QUEUED"
                         /\ r = st.id /\ d \in DOMAIN runs[r].results

\* Mutant: the outcome of one device decides for the rollout.
ResultStatusOfOne(r, d, st) == IF st.state = "COMMITTED" THEN "completed" ELSE "failed"

ResultStatus(r, d, st) ==
    LET others == {runs[r].results[e].cs : e \in DOMAIN runs[r].results \ {d}}
    IN  IF ~(others \subseteq CsTerminal) THEN "QUEUED"
        ELSE IF others \subseteq {"COMMITTED"} /\ st.state = "COMMITTED" THEN "completed"
        ELSE "failed"

\* Mutant: a rollout that is RUNNING takes the result too and keeps its status,
\* while the worker still writes the whole column from its copy.
RecordResultWhileRunning(d, st) ==
    /\ [device |-> d, status |-> st] \in recording
    /\ recording' = recording \ {[device |-> d, status |-> st]}
    /\ runs' = [r \in RunIds |->
          IF r = st.id /\ d \in DOMAIN runs[r].results /\ runs[r].status \in {"QUEUED", "RUNNING"}
          THEN [runs[r] EXCEPT
                  !.results[d] = [status |-> IF st.state = "COMMITTED" THEN "SUCCESS" ELSE "FAILED",
                                  cs |-> st.state]]
          ELSE runs[r]]
    /\ UNCHANGED <<rows, workers, handlers, sent>>

RecordRolloutResult(d, st) ==
    /\ [device |-> d, status |-> st] \in recording
    /\ recording' = recording \ {[device |-> d, status |-> st]}
    /\ runs' = [r \in RunIds |->
          IF TakesResult(r, d, st)
          THEN [runs[r] EXCEPT
                  !.status = ResultStatus(r, d, st), !.age = 0,
                  !.results[d] = [status |-> IF st.state = "COMMITTED" THEN "SUCCESS" ELSE "FAILED",
                                  cs |-> st.state]]
          ELSE runs[r]]
    /\ UNCHANGED <<rows, workers, handlers, sent>>

-----------------------------------------------------------------------------
(* Operators of the site, time and crashes *)

QueueDeviceOperation(d, id) ==
    LET plan == [id |-> id, hash |-> CHOOSE h \in Hashes : TRUE, gen |-> 0]
    IN  /\ CanQueueOp(rows[d], plan, \E s \in RunIds : Active(s))
        /\ rows[d].desired < MaxGen
        /\ rows' = [rows EXCEPT ![d] = QueueOp(@, plan)]
        /\ UNCHANGED <<runs, workers, handlers, sent, recording>>

RecordDeviceOperationStatus(d, id, state) ==
    LET st == [id |-> id, hash |-> rows[d].pendingOp.hash,
               gen |-> rows[d].pendingOp.gen, state |-> state]
    IN  /\ rows[d].pendingOp.id = id
        /\ rows' = [rows EXCEPT ![d] = RecordOp(@, st)]
        /\ UNCHANGED <<runs, workers, handlers, sent, recording>>

UpdateDeviceRole(d, role) ==
    /\ rows[d].rolloutStatus # "RUNNING"
    /\ rows' = [rows EXCEPT ![d].role = role]
    /\ UNCHANGED <<runs, workers, handlers, sent, recording>>

\* A lease runs out (30 seconds, renewed every 10) when its worker is gone, or
\* too slow.
LeaseExpires(r) ==
    /\ LiveLease(r)
    /\ Crashes \/ workers[runs[r].worker].pc = "idle" \/ workers[runs[r].worker].run # r
    /\ runs' = [runs EXCEPT ![r].lease = "expired"]
    /\ UNCHANGED <<rows, workers, handlers, sent, recording>>

\* Some minutes.  A lease that is live now was renewed less than 30 seconds ago;
\* a request whose 15 minutes are over ends within seconds.
Tick ==
    /\ \A h \in Handlers : handlers[h].pc # "idle" => handlers[h].age < ExecutionLimit
    /\ runs' = [r \in RunIds |->
          IF runs[r].status = "RUNNING" /\ runs[r].lease # "live" /\ runs[r].age < FenceWindow
          THEN [runs[r] EXCEPT !.age = @ + 1] ELSE runs[r]]
    /\ handlers' = [h \in Handlers |-> IF handlers[h].pc = "idle" THEN handlers[h]
                                       ELSE [handlers[h] EXCEPT !.age = @ + 1]]
    /\ UNCHANGED <<rows, workers, sent, recording>>

Crash ==
    /\ Crashes
    /\ \/ \E w \in Workers : workers[w].pc # "idle" /\ Exit(w) /\ UNCHANGED <<handlers, recording>>
       \/ \E h \in Handlers : handlers[h].pc # "idle" /\ EndRequest(h) /\ UNCHANGED <<workers, recording>>
       \/ \E rec \in recording : recording' = recording \ {rec} /\ UNCHANGED <<workers, handlers>>
    /\ UNCHANGED <<rows, runs, sent>>

-----------------------------------------------------------------------------
WorkerStep(w) == \/ ClaimQueuedRollout(w) \/ ReadProgress(w) \/ UpdateRolloutWorkerCursor(w)
                 \/ QueueNextPhase(w) \/ UpdateRolloutWorkerResults(w) \/ RenewRolloutLease(w)

HandlerStep(h) == \/ \E r \in RunIds : VerifyRolloutDraftTargets(h, r)
                  \/ ClaimRolloutDraft(h) \/ ValidateClaimedDraft(h)
                  \/ MarkRolloutDevicesRunning(h)
                  \/ ReleaseRolloutDraft(h) \/ MarkRolloutDraftStale(h)
                  \/ PersistRolloutResults(h) \/ MarkRolloutPersistenceFailure(h)

Telemetry(d) == \E st \in sent[d] : RecordDeviceChangeSetStatus(d, st) \/ RecordRolloutResult(d, st)

Next == \/ \E kind \in Kinds, targets \in TargetSets : CreateRolloutDraft(kind, targets)
        \/ \E r \in RunIds : \/ RejectRolloutDraft(r)
                             \/ ClaimAndQueueDeviceChangeSets(r)
                             \/ LeaseExpires(r)
        \/ \E w \in Workers : WorkerStep(w)
        \/ \E h \in Handlers : HandlerStep(h)
        \/ \E d \in Devices : \/ Telemetry(d)
                              \/ \E outcome \in Outcomes : AgentApply(d, outcome)
                              \/ \E id \in OpIds :
                                    \/ QueueDeviceOperation(d, id)
                                    \/ \E state \in OpTerminal :
                                         RecordDeviceOperationStatus(d, id, state)
                              \/ \E role \in Roles : UpdateDeviceRole(d, role)
        \/ Tick
        \/ Crash

Spec == Init /\ [][Next]_vars

\* The ticker of the controller runs the worker again and again; the rest of
\* the project's liveness needs no more than that agents keep reporting.
Fairness == /\ \A w \in Workers : WF_vars(WorkerStep(w))
            /\ \A d \in Devices : /\ WF_vars(\E outcome \in Outcomes : AgentApply(d, outcome))
                                  /\ WF_vars(\E st \in sent[d] : RecordDeviceChangeSetStatus(d, st))
                                  /\ WF_vars(\E st \in sent[d] : RecordRolloutResult(d, st))

FairSpec == Spec /\ Fairness

-----------------------------------------------------------------------------
(* Invariants *)

RunStatuses == {"DRAFT", "QUEUED", "RUNNING", "STALE", "REJECTED", "completed", "failed",
                "canary_failed", "aborted", "FAILED"}

Entry == [status : {"", "WAITING", "QUEUED"} \cup SshStatuses, cs : {""} \cup CsTerminal]

\* Maps from some of the devices.
Partial(S) == UNION {[targets -> S] : targets \in SUBSET Devices}

Run == [kind : Kinds, roles : Partial(Roles), status : RunStatuses,
        claim : Handlers \cup {NoProcess}, worker : Workers \cup {NoProcess},
        lease : {"none", "live", "expired"}, cursor : 0 .. Cardinality(Devices),
        age : 0 .. FenceWindow, results : Partial(Entry)]

Worker == [pc : {"idle", "read", "cursor", "queue", "results", "wait"}, run : Nat,
           cursor : 0 .. Cardinality(Devices), seen : RunStatuses \cup {""},
           results : Partial(Entry)]

Handler == [pc : {"idle", "claim", "validate", "mark", "release", "stale", "execute",
                  "persistFailed"},
            run : Nat, age : 0 .. ExecutionLimit, claimed : BOOLEAN]

TypeOK ==
    /\ rows \in [Devices -> Row]
    /\ runs \in Seq(Run) /\ Len(runs) <= MaxRuns
    /\ workers \in [Workers -> Worker]
    /\ handlers \in [Handlers -> Handler]
    /\ sent \in [Devices -> SUBSET Status(CsIds, CsTerminal)]
    /\ \A r \in RunIds : DOMAIN runs[r].results \in {{}, Targets(r)}
    /\ \A w \in Workers : workers[w].pc # "idle" =>
          workers[w].run \in RunIds /\ DOMAIN workers[w].results \in {{}, Targets(workers[w].run)}
    /\ \A h \in Handlers : handlers[h].pc # "idle" => handlers[h].run \in RunIds

Applied(r, d) == \E st \in sent[d] : st.id = r

Committed(r, d) == \E st \in sent[d] : st.id = r /\ st.state = "COMMITTED"

\* While a request runs scripts over SSH, its rollout is still claimed by it and
\* each of its targets is fenced: marked RUNNING, with nothing queued, and in
\* no other request's hands.  (15 minutes of execution against a fence of 20.)
SshOwnsTargets ==
    \A h \in Handlers : handlers[h].pc = "execute" =>
        /\ HoldsClaim(h)
        /\ \A d \in Targets(handlers[h].run) :
              rows[d].rolloutStatus = "RUNNING" /\ NoPending(rows[d])
        /\ \A g \in Handlers \ {h} : handlers[g].pc # "execute"

\* A device is fenced by an SSH rollout only as long as that rollout is RUNNING:
\* no path, crash or failed write leaves a device RUNNING on its own, where
\* nothing could ever be queued for it again.
RunningHasOwner ==
    \A d \in Devices : rows[d].rolloutStatus = "RUNNING" =>
        \E r \in RunIds : /\ runs[r].status = "RUNNING" /\ runs[r].kind = "ssh"
                          /\ d \in Targets(r)

\* A device is handed the change set of a rollout only after every device of an
\* earlier phase has really committed it, whatever the worker read and however
\* reports, crashes and leases interleave.
PhaseGate ==
    \A r \in RunIds, d \in Devices :
        (rows[d].pendingCs.id = r \/ Applied(r, d))
            => \A e \in Targets(r) : Before(r, e, d) => Committed(r, e)

\* The results of a rollout are true: a final state in the column results is
\* what that device's agent reached, and a rollout is `completed` only when
\* every device committed.
ResultsAreTrue ==
    \A r \in RunIds : runs[r].kind = "changeset" =>
        /\ \A d \in DOMAIN runs[r].results : runs[r].results[d].cs # "" =>
              \E st \in sent[d] : st.id = r /\ st.state = runs[r].results[d].cs
        /\ runs[r].status = "completed" => \A d \in Targets(r) : Committed(r, d)

\* Once a newer rollout has started, no older draft can be applied any more.
SupersededDraftsRetired ==
    \A r, s \in RunIds : r < s /\ runs[s].status \notin {"DRAFT", "STALE", "REJECTED"}
        => runs[r].status # "DRAFT"

\* The three together: requests own the targets they run scripts on, no device is
\* RUNNING without a rollout that is, and no draft older than a started rollout
\* is left to apply.
SshClaims == SshOwnsTargets /\ RunningHasOwner /\ SupersededDraftsRetired

\* At most one rollout of a site is leased.
OneLease == \A r, s \in RunIds : LiveLease(r) /\ LiveLease(s) => r = s

\* A plan that the controller has retired is not applied later: nothing of it
\* waits in a device's queue (rollout_drafts.go:179-182, "expired RUNNING drafts
\* and older DRAFTs are marked stale so a crashed or superseded plan cannot be
\* applied later").  Claiming a draft retires the rollout of a worker that
\* disappeared, and leaves its change set in pending_change_set.
RetiredPlansNotApplied ==
    \A r \in RunIds, d \in Devices : runs[r].status = "STALE" => rows[d].pendingCs.id # r

-----------------------------------------------------------------------------
(* Action properties *)

\* A final result stays: neither a later report nor the worker, which writes the
\* whole column from an older copy, replaces it; and a rollout that has ended
\* does not start again.
FinalResultsStay ==
    [][\A r \in RunIds :
         /\ \A d \in DOMAIN runs[r].results : runs[r].results[d].cs \in CsTerminal
                => runs'[r].results[d] = runs[r].results[d]
         /\ runs[r].status \notin {"DRAFT", "QUEUED", "RUNNING"}
                => runs'[r].status = runs[r].status]_vars

-----------------------------------------------------------------------------
(* Every device of the site is a DeviceQueue *)

Queue(d) == INSTANCE DeviceQueue
              WITH row <- rows[d], Rollouts <- 1 .. MaxRuns,
                   running <- {r \in RunIds : runs[r].status = "RUNNING"},
                   fresh <- {r \in RunIds : Active(r)}

DeviceInits == \A d \in Devices : Queue(d)!Init

DeviceSteps == \A d \in Devices : UNCHANGED Queue(d)!vars \/ Queue(d)!Next

\* The site does to a device only what DeviceQueue says is done to one, so that
\* what is proved there holds of every device here.
\* (The conjunction over the devices of Queue(d)!Spec.)
DevicesAreQueues == DeviceInits /\ [][DeviceSteps]_vars

-----------------------------------------------------------------------------
(* Liveness *)

\* A rollout whose worker disappeared is leased again, whatever its worker had
\* done when it disappeared, and even if workers keep crashing.
LeaseReclaimed ==
    \A r \in 1 .. MaxRuns :
        (r \in RunIds /\ runs[r].status = "RUNNING" /\ runs[r].lease = "expired")
        ~> (r \in RunIds /\ (runs[r].status # "RUNNING" \/ runs[r].lease = "live"))

\* After the first device has committed and the controller has recorded it, the
\* device of the second phase gets its change set (docs/ARCHITECTURE.md:47-50).
LaterPhasesDelivered ==
    \A r \in 1 .. MaxRuns, d, e \in Devices :
        (/\ r \in RunIds /\ {d, e} \subseteq Targets(r) /\ Phase(r, d) = 0 /\ Phase(r, e) = 1
         /\ rows[d].lastCs.id = r /\ rows[d].lastCs.state = "COMMITTED")
        ~> (rows[e].pendingCs.id = r \/ Applied(r, e))
=============================================================================
