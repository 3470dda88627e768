# Verification of openwrt-controller

TLA+ models of openwrt-controller: how a configuration change is planned, queued,
delivered to a router, applied there, rolled back and reported; how routers, users and
phones get in; and how Sentinel gets from an alarm to an operation that an operator
approved. TLC checks the models on small instances; TLAPS proves some of the results for
every instance.

Paths are relative to the repository. `tlc -config <cfg> <module>` repeats a run and
`tlapm <module>.tla` the proofs of a module; `PROJECT.json` lists runs, mutants, theorems, hazards
and findings, and maps each definition to the lines it stands for.

## 1. The system

A controller (Go, PostgreSQL, InfluxDB) manages OpenWrt routers. Each router runs a shell
agent that sends a heartbeat every 10 seconds, pulls configuration and reports what became
of it. Configuration reaches a router in one of these ways:

| way | who writes the router | fence |
|---|---|---|
| typed operation | the agent, after a pull | `devices.pending_operation` |
| device change set | the agent, after a pull; phase by phase for a fleet | `devices.pending_change_set`, lease on the rollout |
| SSH rollout | the controller, within one HTTP request of up to 15 minutes | `devices.last_rollout_status = 'RUNNING'`, claim on the rollout |
| UCI batch, mesh sync | the controller over SSH, at once | lock directory on the device (batch), none (mesh) |
| wireless and WireGuard pulls | the agent, when the answer's hash differs | the agent's journal |

### Inventory

State, operations and correctness of the components that carry the program's logic:

**Device work queue** (`internal/database/device_operations.go`,
`device_change_sets.go`). A dozen columns of a `devices` row. Operations: queue an
operation, queue a change set (alone, for a rollout, or with the claim of a draft), record
a status; each is one `UPDATE ... WHERE`. Hard: statuses are persisted after the 202 was
sent, in goroutines, so they come late, repeated, reordered. Correct: one way of writing at
a time; a report only speaks for its own work; outcomes are final; generations only grow; a
device that needs recovery gets no more work.

**Rollout drafts, worker, fleet handlers** (`rollout_drafts.go`, `rollout_worker.go`,
`internal/rolloutworker/worker.go`, `handlers/site_orchestrator.go`). `rollout_runs` and
what each goroutine and request remembers. Hard: leases of 30 seconds against goroutines
that stall, claims of 20 minutes against requests that overrun, decisions on copies read
several statements earlier. Correct: no device gets a phase before its predecessors
committed; at most one rollout of a site works; devices are not left fenced; results are
true.

**Site configuration** (`orchestrator_engine.go`, `site_orchestrator.go`,
`central_config.go`, `import_config.go`, `wlans.go`, `wlan_policy.go`). The row of
`site_configs`, WLAN rows, drafts. Operations: save, import, migrate, preview, sync, edit
centrally, pull. Hard: a plan is filtered by what a device showed minutes earlier; two
places hold wireless credentials. Correct: what is applied is what was asked for; an import
leaves no contradiction.

**UCI bridge** (`uci_bridge.go`). A shell script per batch; sessions share a lock
directory, a snapshot and the staging area of `uci` on the device. Hard: sessions that are
cut off, locks taken over as stale (age and removal are separate commands), reboots.
Correct: all of a batch or nothing of it.

**Mesh VPN and tunnels** (`vpn_mesh_engine.go`, `vpn_mesh_queries.go`, `vpn.go`,
`provision.go`, `agent.sh`). Keys and addresses made on first use by a read and a write;
pushes that fail one by one. Correct: hub and spokes know each other after a whole sync; a
gateway ends up with the tunnel the controller has stored.

**Agent transaction journal** (`devices/agent.sh`). A directory per transaction, the
markers `active` and `last`, two status files, the configuration and what is staged. Hard:
a power loss between any two of some fifteen writes, failing rollbacks, repeated delivery.
Correct: there is always a snapshot to go back to; what is reported is what happened; what
started ends.

**Agent config guard** (`devices/agent-config-guard.sh`, `.init`). `agent.conf` and a
journal directory. Hard: kills and power losses, a deadline in uptime. Correct: the
confirmed file can always be put back, and is before the agent of the next boot starts; a
rollback that has begun is final; no change stays unconfirmed.

**Enrollment** (`enrollment.go`, `adoption.go`, `sites.go`, `telemetry.go`). Site tokens,
nonces, device tokens. Hard: answers that are lost after the commit, tokens rotated while
a request is under way, telemetry that is stored after its device was forgotten. Correct:
a repeated request gets the same token; a withdrawn token admits nobody.

**Access** (`auth.go`, `users.go`, `tenant_manager.go`, `authtickets.go`, `ws_ticket.go`,
`postgres.go`). Users, signed claims, tenants and their schemas, tickets in memory.
Correct: a ticket opens one shell, to its device, in its tenant; a tenant that was
registered gets its schema or loses its row, unless a migration and its compensation fail.

**Surveys** (`surveys.go`, `survey_worker.go`). Survey rows and a buffer that is swapped
and refilled while it is being worked on. Correct: no sample stays for good, none is stored
twice.

**Sentinel** (`sentinel_*.go`, `ai_engine.go`, `alerts.go`). Alarms open incidents and
Cases; a Case is investigated by a model with read-only tools; a proposal is approved by an
operator and becomes an operation; what was learned becomes memories and skills; optional
reasoning runs as queued tasks; a router decides which endpoint sees what. Hard: every
request reads, decides and writes in separate statements, the model may answer anything,
and a restart loses the goroutines. Correct: see the run `sentinel`.

**Client identity** (`network_identity.go`, `clients.go`). An administrator's names and
trust, merged with telemetry in any order. Correct: telemetry changes neither.

Interactions: handlers, worker and telemetry meet in rows of the database only. Agent and
controller exchange config pulls and heartbeats, nothing else. The config guard and the
agent share `agent.conf`. Alarms open Cases, investigations leave proposals, an approval
queues an operation in the device's row. `PROJECT.json` lists every component with its
status.

## 2. Modules

| module | models |
|---|---|
| `DeviceRow` | a row of `devices` and its statements as pure operators: `Can...` and `...Matches` are WHERE clauses, operators returning a row are SET lists |
| `DeviceQueue`, `DeviceQueueProofs` | one row under every order of statements, and any report at all |
| `Rollout`, `RolloutProofs` | all rollouts of a site: `rollout_runs`, rows, worker goroutines, SSH requests, telemetry, agents; composes `DeviceRow` |
| `RolloutRefinement` | the proof that every device of a `Rollout` is a `DeviceQueue` |
| `AgentJournal`, `AgentJournalProofs` | the agent's journal with crashes between writes, and the controller reduced to a queue of one |
| `ConfigGuard`, `ConfigGuardProofs` | the commit-confirmed change of `agent.conf` |
| `UciPlan` | typed commands as pure functions: rendering, parsing `uci show`, the filter of the preflight, what `uci` makes of a batch |
| `SiteConfiguration` | the site's template and WLAN rows from form to device and back; uses `UciPlan` |
| `UciBatch` | the batch script in several SSH sessions on one device |
| `MeshVpn`, `Tunnels` | mesh nodes and syncs; the WireGuard tunnel of a site from pull to journal |
| `ClientIdentity` | the identity directory and the client list |
| `ConfigurationParts`, `ConfigurationProofs` | `SiteConfiguration`, `UciBatch`, `MeshVpn` and `ClientIdentity` side by side |
| `Access` | users, tenants and tickets |
| `Enrollment`, `Surveys` | identities of routers; surveys and their worker |
| `AccessParts`, `AccessProofs` | `Access`, `Enrollment`, `Surveys` and `Tunnels` side by side |
| `Alerts` | incidents of silence, signal and load, and the Cases they open |
| `SentinelCases`, `SentinelInvestigation` | the life of Cases; one investigation with its tools, scope and budgets |
| `SentinelProposals` | the approval gate |
| `SentinelMemories`, `SentinelSkills` | what was learned, from candidate to trust and revocation |
| `SentinelTasks`, `ModelRouting` | queued model work; which endpoint a request is sent to, with which key |
| `SentinelParts`, `SentinelProofs` | the models of Sentinel and `Alerts` side by side |
| `MC...` | instances for TLC |

**Instances.** `SentinelParts`, `AccessParts` and `ConfigurationParts` hold several models
that share no state: each extends one (`SentinelProposals`, `Access`, `UciBatch`), has
the others as instances, and gives their properties names of their own. A variable `part`
says which model runs in a behaviour, and the others stay in a fixed initial state, so
a run's states are the sum, not the product, of theirs. The specification of the whole has
no fairness; a liveness property has the fairness of its model as premise
(`part = "cases" /\ C!Fairness => ...`). The theorems are about the specifications of the
models (`C!Spec => []AnswersBacked`), each for all values of its constants, and `part`
plays no role in them. `MCSentinel`, `MCAccess` and `MCConfiguration` only give the
constants values. `MCAgentPlans` extends `AgentJournal` and has a second instance of it,
without failing commands, on the same variables; `plan` chooses. `MCRolloutPlans` restricts
the behaviours of `Rollout` to two kinds of schedule, chosen by `plan` as well. So the runs
check the definitions the theorems are about.

**Steps.** In the models of the controller a step is one SQL statement or transaction;
PostgreSQL runs the statements modelled here as if one after the other (row locks, the
per-site advisory lock of claims). What a goroutine or request read is kept in a variable
(`workers`, `handlers`, `request`, `job`, `approver`, `passed`, ...) until it is used. In
the models of the agent a step is one durable write (write, sync, rename) with the
decisions before it; a crash can come between any two. In `UciBatch` and `MeshVpn` a step
is a phase of a script or one push.

**Data.** Plans are an id, a hash and a generation, except in `UciPlan`, which has typed
commands. A configuration file's content is the number of the change that wrote it, or the
set of writers whose change it holds. Tokens and keys are numbers in the order in which
they are drawn; digests are equality. What a model answers is any answer. A row that a
Sentinel tool returns is the site and device it is about.

**History variables**, which no guard reads: `commits` (`AgentJournal`), `base` and
`fenced` (`ConfigGuard`), `queued` (`SentinelProposals`), `ever` (`SentinelSkills`),
`shells` and a tenant's `stuck` (`Access`), `basis` and `robbed` (`UciBatch`), `lost`
(`SentinelTasks`), `agreed` (`MeshVpn`), `given` (`ClientIdentity`), `last`
(`SiteConfiguration`).

**`DeviceQueue`.** `row` is the device's row; `running` and `fresh` are what its statements
see of `rollout_runs`. Reports are arbitrary: any id, hash, generation or state, at any
time. So the properties need no assumption about agents.

**`Rollout`.** Time passes in ticks of some minutes; `ExecutionLimit` is the 15 minutes of a
request and `FenceWindow` the 20 minutes of a claim. A token is the process that drew it.
Generations end at `MaxGen`, as they do in `DeviceQueue`. `DevicesAreQueues` says that every
device of a site behaves as `DeviceQueue` allows: it is the refinement that carries the
theorems about one queue over to a site.

**`AgentJournal`.** `Rank` is the order in which the shell lists the directories of the
journal: that of their names, which are random, and not of their age.
`transaction_recover_pending` meets unfinished entries in that order (`FirstOf`), and
`agent_mixed` runs it against the order of the items. `"NONE"` is a state file that is not
there. A change set of several namespaces continues in the directory that a crash left
behind.

**`SiteConfiguration`.** An option's value is a sequence: absent, plain or a list. DHCP
hosts and firewall redirects, which plans address by content or position, are sequences of
their own, and so are the wireless interfaces (`wireless`, beside `live`, the rest of the
configuration). The SSH sync is one step here because `UciBatch` shows that a batch is
atomic as long as no script removes a lock in place of another.

**`ClientIdentity`.** The directory is built in steps: the administrator's rows in a query of
their own, then a device, then one entry of its tables after the other, so that the loops of
the code are steps of the model; operators may write between any two.

**`UciBatch`.** A configuration is the set of sessions whose change it holds. The commands
of a waiting script are steps of their own: the `mkdir` that fails (`Blocked`), `stat`, which
reads the mtime of whatever lock is there (`Stat`), and the comparison with what it read,
followed by `rmdir` of whatever lock is there by then (`Steal`). `date` is taken with the
comparison: a script that stops between the two behaves as one that stopped before. So a
script can remove another lock than the one it judged; `robbed` remembers that. A live
holder's lock does not reach the age at which it counts as stale: every command of the
script is bounded, and the script ends before that. This is an assumption about the device,
stated in `Tick`.

**`Alerts`.** A telemetry request stores its report in a goroutine (`UpsertDeviceState`) and
resolves or opens incidents in another, so either may be behind, and the sweep may see the
device between the two. The two statements of `ResolveIncident`, incident and Case, are steps
of their own.

## 3. Runs

Passing runs (distinct states in brackets):

- `device_queue` (182 808): two operations, two change sets, two plans, two roles, two
  rollouts, generations to 3. `QueueCoherent`: at most one way of writing the device, queued
  work carries the desired generation, nothing unreserved is ever observed, and the status
  beside an operation is about it. Work leaves the queue only by its own final report
  (`ClearedByOwnReport`); outcomes are final (`OutcomeIsFinal`); RECOVERY_REQUIRED of a
  change set fences for good (`RecoveryFence`).
- `rollout_worker` (35 780): one change set rollout, three devices, two workers that crash or
  stall: no phase is handed out before its predecessors committed (`PhaseGate`), the results
  are true (`ResultsAreTrue`) and stay (`FinalResultsStay`), and a rollout whose worker
  disappeared is leased again (`LeaseReclaimed`, liveness).
- `rollout_plans` (556 555): two SSH rollouts in two requests that crash, overrun and fail to
  persist, beside an operation; or SSH and change set rollouts on one site. `SshClaims`: a
  request that executes owns its targets, no device is left fenced by nobody, no superseded
  draft can be applied. At most one lease (`OneLease`), and the refinement
  `DevicesAreQueues`.
- `agent_mixed` (268 908): an operation, a change set of two namespaces and a single one,
  failing commands, two crashes: a snapshot to go back to for every deviation
  (`Recoverable`), and RECOVERY_REQUIRED of one fences all (`RecoveryFences`).
- `agent_plans` (490 124): three change sets of one entry with an operation between them, two
  crashes. With failing commands: what the controller has recorded of a change set is true
  (`ChangeSetsTruthful`), and nothing is applied after a failed recovery
  (`FailedRecoveryFences`). Without: what started ends and every change set is answered
  (`JournalEnds`, liveness).
- `config_guard` (106 224): failing copies and restarts, two kills, two power losses: the
  confirmed file can be put back (`Recoverable`), is before the agent starts
  (`BootRunsConfirmed`), a rollback is final (`RollbackFences`), and while the worker runs
  every change ends (`UnconfirmedEnds`).
- `sentinel` (187 776). An investigation stays within its limits, refused calls and prefetch
  included, and a Case's evidence within its site and device (`InvestigationConfined`); it
  ends (`InvestigationEnds`). Answers keep their evidence and no Case is under two automatic
  investigations (`AnswersBacked`); none stays INVESTIGATING across restarts
  (`InvestigatingEnds`). An approved proposal is queued once, others never (`QueuedOnce`).
  What one site taught is not shown to another and rejected memories stay so
  (`MemoriesTrusted`); trust in a skill was earned and revocation is final (`SkillsTrusted`).
  Every model task completes, except those whose worker was cut off or could not requeue
  them, and repeats leave no second candidate (`TasksComplete`). What must stay local does,
  and keys go to their own endpoints (`RoutesKept`). A device that stays silent ends up with
  an incident that stays open, and one that keeps reporting with neither incident nor Case
  (`AlarmsSettle`).
- `access` (417 572). A ticket opens one shell, to its device and in its tenant
  (`ShellsBound`). A repeated enrollment gets its answer, and no device joins with a token
  that was withdrawn in between (`EnrollmentKept`). A tenant gets its schema or loses its
  row, unless its migrations failed at a boot or together with the DELETE that was to undo
  the registration (`TenantsProvisioned`). No sample stays in the worker (`SamplesSettle`). A
  gateway ends up with the tunnel that is stored (`TunnelsSettle`).
- `configuration` (1 666 285). After a sync that ended well the device holds the options and
  leases it ran for (`AppliedMatches`); an import leaves no contradiction between template
  and WLAN rows (`ImportAgrees`); a batch is applied as previewed or leaves nothing, in every
  behaviour in which no script has removed another lock than the one it judged
  (`BatchAtomic`; section 6 has the other behaviours); after a whole mesh sync hub and spokes
  know each other (`MeshCovered`); telemetry changes neither labels nor trust, in any merge
  order (`IdentityKept`).

Each property has a mutant in `PROJECT.json`: a plausible bug (a dropped conjunct of a
WHERE clause, a missing reset, a swapped order) that makes it fail in the same run.

Runs that end in a counterexample state what a comment, test or document of the repository
says; section 6 describes them. `AgentAttempts.cfg` (with `MCAgentJournal`) and
`RolloutRetired.cfg` (with `MCRollout`) reproduce two more. `AlertsReports.cfg` (with
`Alerts`) checks `AlarmsSettle` with two reports at a time (390 226 states).

**Bounds.** Two of each id let work be replaced by other work of the same and of the other
kind; three generations let a report be behind, right and ahead. Three devices make a phase
that is neither first nor last; two workers make an old and a new owner of a lease, two
requests an old and a new owner of a claim. Two crashes let the recovery of the first crash
be hit by the second. Three change sets let an entry be pruned while another is in progress.
Three boots and two kills let the guard be interrupted while it recovers and recover in the
next boot. The ticks are as few as keep `ExecutionLimit < FenceWindow`.

- `sentinel`: two sites with a device each and notes filed under either column, two rounds
  and four tool calls (prefetch and model compete for the budget); one Case with room for
  two investigations, one chat run, a ledger of two; two proposals and two approvers; two
  memories, two requests and Cases of two sites; one skill judged on two Cases; three tasks
  of two classes with two failures; one device with one report at a time beside the sweep,
  and a silence of two ticks (`AlertsReports.cfg`: two reports, one tick).
- `access`: one router that may be flashed twice and so meets its own row again, two tokens
  and two nonces; two tenants with a device each, one ticket, one session, one restart; one
  survey, two samples and two tokens; a gateway with two pulls at a time.
- `configuration`: two templates that differ in a list, leases, a forward and switches, and
  three boards; one WLAN row; three changes. Three sessions: one holds the lock, one takes
  it over, one waits with an mtime it has read; one kill and one reboot. A hub and two
  spokes, three nodes, two syncs one after the other (the theorem covers overlapping ones).
  Two devices that see each other and one client.

Symmetry is declared only over ids and processes that are compared for equality, and in no
run with a liveness property.

**Deadlock** is checked except where a bounded model really ends: `config_guard` (uptime,
changes and boots are used up) and the three runs of several models (an investigation ends,
a batch of scripts ends, tokens and changes are used up).

**Fairness.**

- `Rollout`: workers take steps (a ticker starts them every 5 seconds and a leased one
  loops), agents apply and report (heartbeats repeat a report until it is superseded).
  Nothing makes a lease expire or a process crash.
- `AgentJournal`: procd restarts the agent, which loops (`WF(AgentStep)`); config pulls that
  are tried again and again succeed again and again (`SF(Pull)`); a report repeated with
  every heartbeat is persisted (`WF(Record)`).
- `ConfigGuard`: commands go on, time passes, init runs S18 and S99, the worker looks every
  2 seconds while it exists, and copies and restarts that are tried again and again succeed
  (strong fairness). The boot path does not try again; see section 7.
- `Alerts`: the sweep's ticker, and the steps of goroutines that have started, the one that
  stores a report included. That a device
  keeps reporting is a premise of `AlarmsSettle`, not assumed.
- `SentinelCases`: time, the recovery loop, and goroutines of jobs and chats.
  `SentinelTasks`: the worker's loop, a claim that is possible again and again (the queue is
  read in order of age), back-off that ends; nothing brings back a task whose worker was cut
  off. `SentinelInvestigation`: the loop goes on (every call has a timeout).
- `Access`: a stopped controller is started again, a registration's migrations return, whether
  they succeed or not.
- `Surveys`: the worker's ticker and the loop over the swapped buffer. `Tunnels`: pulls that
  are tried again and again are answered (strong), handlers and the agent go on.

The liveness runs of the agent exclude failing commands (`Failures = FALSE`): a rollback
that fails ends in RECOVERY_REQUIRED by design.

## 4. What is proved

`DeviceQueueProofs`, for all sets of ids, hashes, roles and rollouts, any generation bound
and any sequence of reports:

- `TypeCorrect`: `Spec => []TypeOK`;
- `QueueSafety`: `Spec => []QueueCoherent`, which is `OneTransport`, `PendingIsDesired`,
  `ObservedNotAhead` and `LastSpeaksOfPending`;
- the action properties, each as `Spec => P`: `ClearedOnlyByOwnReport`
  (`ClearedByOwnReport`), `OutcomesAreFinal` (`OutcomeIsFinal`), `RecoveryIsFenced`
  (`RecoveryFence`) and `GenerationsOnlyGrow` (`GenerationsGrow`).

The four are not inductive. `ObservedNotAhead` needs that the generations of *recorded*
statuses were reserved, since a COMMITTED report that matches the last status moves
`observed`; `RowInv` adds that. The proof goes statement by statement: a lemma for each
operator of `DeviceRow` shows that it keeps `RowInv`, whoever runs it, and a step for each
action cites it. The action properties need two more conjuncts: a waiting operation has a
generation above 0 (a report without hash and generation could otherwise pass for a report
of it), and nothing waits beside a change set that is RECOVERY_REQUIRED. The lemma
`StepShape` reduces every step to four shapes (work queued, an operation status recorded, a
change-set status recorded, anything else); each property is then shown for the four.
Assumptions: `IdAssumption` (the null id and hash are no ids or hashes),
`MaxGenAssumption`.

`ConfigGuardProofs`, for any contents, deadlines, number of changes, kills and boots:
`GuardTypeCorrect`, `AlwaysRecoverable`, `RollbackIsFinal`, `RestoredMeansRunning` and
`BootIsSafe` state the type invariant, `Recoverable`, `RollbackFences`, `RestoredRuns` and
`BootRunsConfirmed`, whatever copies and restarts fail.

The invariant has three parts. `JournalInv`: without journal the file is the confirmed one,
with one the journal holds the confirmed one, and before the system is up it is from an
earlier boot. `LockInv`: what the command with the lock has established at each of its
steps. `FenceInv`: a change whose rollback has begun is closed as restored, or active with
deadline 0; with deadline 0 no confirmation passes `expired`, and a closed id is never
armed again, so it is never committed. `BootIsSafe` adds that there is no worker while S18
runs. Assumption: `GuardAssumption` (the constants are distinct values of the right kind).

`SentinelProofs`, for all constants and without any bound but those of the code:

- `ApprovedIsQueuedOnce`, `Spec => []QueuedOnce`, for any number of proposals and concurrent
  approvals. A request past its claim has a proposal in APPROVING (`Approvals`), no proposal
  is in the hands of two requests (`OneRequest`), and the number of operations queued follows
  from status and request (`Counts`); a proposal that a restart left in APPROVING stays
  there, queued at most once.
- `RoutesAreKept`, `R!Spec => []RoutesKept`. A request is judged by the class that was asked
  for, and sent with the route of a class of its chain. So `FallsBackLocally` says that the
  chains of routine work and of deep analysis never lead to an optional class.
- `MemoriesAreTrusted`, `M!Spec => MemoriesTrusted`. A request writes what it read some time
  ago: `RequestsHaveRows` keeps the row it will write to in existence, `EvidenceFits` the
  evidence of every row in the scope of the Case it was learned from. That a final state is
  final follows from the WHERE clauses, also for the writes that come late.
- `SkillsAreTrusted`, `K!Spec => SkillsTrusted`. A promotion writes on the strength of counts
  it read before, while Cases may be deleted with their evaluations. `Promotions` says of a
  promotion under way what `TrustEarned` says of a trusted skill; `Judgements` that what is
  counted has been judged, which nothing undoes.
- `AnswersAreBacked`, `C!Spec => []AnswersBacked`. That a Case is under one automatic
  investigation is a matter of time: the throttle's entry is never older than the
  investigation it stands for (`JobInv`), and counts longer than one may last; the proof
  uses `Timeout < Throttle`. That answers keep their evidence is a matter of order: the
  evidence is in the ledger before the run is completed (`RunInv`), and leaves a ledger only
  when that is full.
- `InvestigationIsConfined`, `I!Spec => []InvestigationConfined`. The loop of a Case counts
  the calls of the model only. That *all* calls stay within the limit needs `WithinLimits`:
  what was spent and is still planned exceeds the plan's allowance by no more than the
  model's calls, and those stop at the limit less `ToolReserve`.

Assumptions, in `SentinelProposals` and `SentinelParts`: `NoneAssumption` and
`AbsentAssumption` (what is absent is no row, age or setting), `InvestigationLimits` (the
order of the limits in the code), `CaseTimes`, `PromotionLimits`.

`ConfigurationProofs`:

- `BatchesAreAtomic`, `Spec => []BatchAtomic`, for any number of sessions, kills and reboots.
  `BatchAtomic` is about behaviours in which no lock was removed in place of another
  (`robbed`), which the script does not rule out; so the invariant is that types hold and,
  while `robbed` is false, `Safe`. `BatchTypes` shows that `robbed` stays, `BatchStep` that a
  step that does not set it keeps `Safe`. A script that judged a lock as too old then removes
  the lock of a session that is not running, since that lock has the age it read (`Mutex`
  bounds the age of a live holder's lock). Lock, snapshot and staging area are shared, so
  `Safe` says who is inside and what each of them may find: one session is inside the script
  and holds the lock (`Mutex`), what the guard saw is still there when the mutations start
  (`Guarded`, `Based`), a session that has not mutated or has failed has left nothing
  (`Clean`), and the snapshot of a running session is from before its own change (`Saved`).
- `MeshIsCovered`, `V!Spec => []MeshCovered`, for any devices, addresses, syncs and faults.
  A sync that is still whole is alone and has read the mesh as it is, so what it has pushed
  so far is what the mesh needs, whatever was on the boards (`WholeSync`). The
  peers of the hub go by their place in the plan; that the plan goes through each node once
  (`PlanOf`) keeps them apart.
- `ImportsAgree`, `F!Spec => []ImportAgrees`, for any templates, rows and boards. Template and
  rows are written from the same wireless interfaces, merged by network name, and a row of
  the imported name is rewritten whoever made it. The invariant (`Formed`) adds the columns.
- `IdentityIsKept`, `N!Spec => []IdentityKept`, for any devices, reports and orders. The
  administrator's rows are in the directory before anything a device reports
  (`DirectoryKept`), what is merged into an entry is never manual and never trusted, and a
  device that was gone through stays a node.

Assumptions, in `UciBatch` and `ConfigurationParts`: `StaleAssumption`, `NoneAssumption` and
the bound on live holders that `Tick` states; `FormAssumption` (a template has the columns
of its network), `MeshAssumption` (finitely many devices), `IdentityAssumption` (finitely
many entries in a report).

`RolloutProofs`, for any finite set of devices, any drafts and target sets, any number of
rollouts, workers and requests: `TypeCorrect`; `ClaimsHold`, `Spec => []SshClaims`;
`LeaseUnique`, `Spec => []OneLease`; `PhasesInOrder`, `Spec => []PhaseGate`; `ResultsTrue`,
`Spec => []ResultsAreTrue`; `FinalStays`, `Spec => FinalResultsStay`. One invariant
(`Inductive`) carries them, in two parts:

- `ClaimInv`. A request that drew a token still holds the claim (`HandlerOK`): its rollout is
  younger than the request, and the request ends before the fence does, which is where
  `ExecutionLimit < FenceWindow` is used. At most one SSH rollout is running (`OneSsh`), and a
  newer rollout that has started leaves no older draft *and no older running SSH rollout*
  (`Superseded`): the release of a claim makes such a rollout a draft again, so
  `SupersededDraftsRetired` is not inductive without it. A RUNNING device has an empty queue
  (`RunningIdle`); only change sets are queued and leased (`KindInv`).
- `PhaseInv`. `PhaseGate` speaks of what agents did, the worker looks at the column
  `results`, and decides on a copy of it. So the invariant says what a copy is worth: its
  final states are true, are in the column as well, and only follow committed earlier
  phases (`CopyTrue`); while the lease is live nobody else has written the column
  (`CopyCurrent`); the cursor is never ahead of the final states. `RecordedGate` is the gate
  as the controller sees it, `RunsTrue` says that the column is true, `SentOnce` that an
  agent applies a change set once.

Each action has a lemma for types, one for claims and one for phases. `FinalStays` follows
from `CopyTrue` and the worker's fence. Assumptions: `SiteAssumption`, and the id
assumptions of `DeviceRow`.

`RolloutRefinement`: `SiteImplementsQueues`, `Spec => DevicesAreQueues`. Every step of the
site maps, for every device, to a step of `DeviceQueue` or leaves its row alone: a claim to
the queueing or fencing statement with the plan it carries, a worker's phase to
`QueueDeviceChangeSetForRollout`, a report to `RecordDeviceChangeSetStatus`, and changes of
`rollout_runs` to steps of the queue's environment. `GensBounded` shows that work and
reports stay within the generations `DeviceQueue` enumerates. With it, the theorems of
`DeviceQueueProofs` hold for each device of a site.

`AccessProofs`:

- `TypeCorrect` and `ShellsStayBound`, `Spec => []ShellsBound`, for any users, tenants,
  devices, tickets, sessions and restarts. The invariant adds what a ticket is worth while
  nobody has used it (`TicketsBound`: it was drawn, for a device of its tenant, by claims
  that reach it) and that the ticket of a shell is spent or gone and its number is not
  drawn again (`ShellsSpent`).
- `EnrollmentTypeCorrect` and `EnrollmentIsKept`, `E!Spec => EnrollmentKept`, for any sites,
  routers, tokens and nonces. The invariant adds that the device a nonce was spent on has a
  row with a token (`NoncesHeld`): forgetting a device takes its nonces along, and no
  statement takes the token from a row that stays.

Assumptions: `AccessAssumption`, `EnrollmentAssumption`.

`AgentJournalProofs`, for any items, namespaces and failures, and any number of crashes
between any two writes:

- `TypeCorrect` and `RecoveryFencesHold`, `Spec => RecoveryFences`, for work of every kind.
  They rest on `ControlInv` (`ControlHolds`): which entry the process is working on at each
  of its places and what that entry says (`Known`, `AtWork`), that entries in flight have
  their snapshot (`Sound`), that nothing is applied while an entry requires recovery
  (`Fenced`), and that the last phase of a recovery finds every entry over (`LastPhase`).

The next three hold *when no change set has several namespaces*:

- `FailedRecoveryFencesHold`, `Spec => FailedRecoveryFences`: what is applied follows a
  recovery that did not fail (`Unfailed`), also when the failure left no entry that says so.
  With several namespaces it is false, as TLC shows with the constants of `agent_mixed`:
  that path does not call `transaction_recover_pending` (section 7).
- `WriteAhead`, `Spec => []Recoverable`. `Recoverable` alone says nothing of the entry that
  is about to be written. `LogInv` adds that a transaction begins when every other is over
  (`Sole`), that snapshots in flight hold what was last committed (`Backed`), what the files
  hold at each place (`Files`), and that items are applied in the order of their
  generations (`InOrderOf`), without which a commit would not change what is intended.
  The hypothesis is there because change sets of several namespaces start without
  recovery: another entry may be in flight while one is applied, and `Sole` is false.
- `ChangeSetsAreTruthful`, `Spec => []ChangeSetsTruthful`, whatever operations lie between the
  change sets. The property relates what happened to a column three steps away from it, so
  `OutcomeInv` follows the truth along the way: the journal says of a change set what
  happened (`JournalTrue`), the status file does too (`StatusTrue`), final reports say what
  the status file says unless that is newer (`SentTrue`), and what is recorded was reported
  (`Recorded`). `CommitsKnown` is the delicate part: between the commit in the journal
  and the status COMMITTED a crash leaves a committed change set that the status file calls
  PENDING_CONFIRM; the invariant says that then nothing is in flight, the controller still
  waits for it, and the recovery at boot writes the status before anything can be pulled
  (`Untold`). `BegunOpen` says that what is being applied has no end yet; `AtStatus` and
  `ApplyingIsOpen` where each status can be met.

Assumption: `ItemAssumption`. TLC checked `IInv`, `GenInv`, `ControlInv`, `LogInv` and
`OutcomeInv` as invariants of small instances before they were proved.

## 5. What is only model-checked

- Liveness: `LeaseReclaimed`, `JournalEnds`, `UnconfirmedEnds`, `InvestigationEnds`,
  `InvestigatingEnds`, `TasksComplete`, `AlarmsSettle`, `TenantsProvisioned`,
  `SamplesSettle`, `TunnelsSettle`. Fairness and ENABLED are out of the prover's reach.
- `Recoverable` with change sets of several namespaces (`agent_mixed` has one), and
  `ChangeSetsTruthful` beside them (it holds with the constants of `agent_mixed`). The
  invariant needed there must say which entry in flight is the newest one that touches a
  namespace, and what is behind an entry without state file for good.
- `AppliedMatches` relates what was asked for to what folds over lists of commands make of it
  (rendering, parsing `uci show`, the filter, `uci` itself): that takes induction over data.

Every other safety property of a passing run is stated by a theorem.

## 6. Where code and documentation disagree

Runs with a counterexample:

- `rollout_stranded`. A report that arrives after the worker's claim does not reach the
  column `results`: `RecordDeviceChangeSetStatus` updates rollouts with status QUEUED only,
  and the claim sets RUNNING. The worker then renews its lease for ever and later phases
  are not handed out, although `docs/ARCHITECTURE.md` and `docs/DEVICE_AGENT.md` say that
  they follow terminal telemetry.
- `agent_multi_crash`. A change set of several namespaces writes its manifest after the
  state APPLYING. A crash in between ends in RECOVERY_REQUIRED, although nothing had been
  touched.
- `config_synced`. The preview drops an `add_list` whose value is on the device and keeps
  the `delete` before it: the sync removes the value.

The others are stated as definitions next to the properties of their module, and TLC
violates each of them when it is checked with the constants of the run of that module:

| definition | what happens |
|---|---|
| `Rollout!RetiredPlansNotApplied` | retiring an expired rollout leaves its change set in `pending_change_set`, and the device applies it (`RolloutRetired.cfg`) |
| `AgentJournal!TruthfulOutcome` | a restored operation that is delivered again is applied again under the same id, and may commit after RESTORED was recorded (`AgentAttempts.cfg`) |
| `ClientIdentity!TrustScoped` | a client's row moves to another site with its trust |
| `Surveys!SamplesAccepted` | samples of public surveys are refused: the token's hash is never read |
| `ModelRouting!InvestigationsStayLocal` | the tool loop uses the platform-wide engine, which may be remote |
| `Access!LastAdminKept` | two requests remove the last two administrators (two users) |
| `Tunnels!AddressesUnique` | two first pulls get one address (two devices, two addresses) |
| `Enrollment!TelemetryCreatesNoDevice` | late telemetry re-creates a forgotten device |
| `Alerts!OneIncident` | sweep and telemetry, or two reports (`AlertsReports.cfg`), open an incident each |
| `SentinelCases!UnresolvedKept` | a Case that was opened again is swept, as it keeps `resolved_at` |
| `SentinelMemories!ContradictedNotShown` | counter-evidence recorded during a validation is in a row that becomes VALIDATED |
| `SentinelProposals!BlockedNeverQueued` | a proposal blocked by the Case's scope can be approved |
| `SentinelTasks!TasksRetried` | a task that was RUNNING when the controller stopped, or whose requeue failed, is never claimed again, and its class of the Case stays taken |
| `Access!RolledBack` | the DELETE that undoes a failed registration may fail too, and a boot only logs failed migrations: an enabled tenant without schema |
| `UciBatch!BatchesSerialized` | two scripts read the age of a dead session's lock; the second removes the fresh lock of the first, and two batches run |

## 7. Observations and limits

Met while modelling; no run shows them:

- A restore of `agent.conf` that fails at boot ends `start_service` before the worker is
  registered (`agent-config-guard.init:6`), so nothing retries until the next boot, while
  `docs/AGENT_CONFIG_GUARD.md:17-18` says that a failed restore retries.
  `BootRunsConfirmed` and `UnconfirmedEnds` therefore ask for the worker.
- A journal directory without state file, left by a crash, makes every recovery fail
  (`agent.sh:657`); for an operation no heartbeat says so, although the comment at
  `agent.sh:1865-1868` expects it.
- The path for several namespaces does not call `transaction_recover_pending`, and
  `TRANSACTION_RECOVERY_BLOCKED` is set but never read: after a failed recovery that left no
  RECOVERY_REQUIRED it still applies.
- `$NERVE_OPERATION_STATUS_FILE` of an earlier operation hides the status of the next one
  until a pull finds nothing queued.
- A single change set whose rollback at boot fails keeps the status ROLLING_BACK until the
  next restart. One of several namespaces that crashes between PREPARED and APPLYING is
  restored, but PREPARED to RESTORED is refused by `change_set_status_write`.
- The controller accepts RESTORED only after ROLLING_BACK, the agent also allows it from
  APPLYING and PENDING_CONFIRM.
- `FOR UPDATE SKIP LOCKED` with a check of other leases in the same statement would let two
  controller processes lease two rollouts of a site at once. One process, whose goroutines
  claim one after the other, is modelled.
- An SSH rollout whose controller died stays RUNNING, and its devices stay fenced, until
  somebody claims another draft of the site after the 20 minute expiry.
- As reports that come after the first claim are lost to `results` (`rollout_stranded`), no
  schedule of the model reaches a third phase.
- `PutSiteConfigHandler` resets `wan_interfaces` and `guest_portal`, which its form does not
  send (`site_orchestrator.go:158-270`).
- A port forward is rendered as an `add` with empty value, which the bridge refuses
  (`orchestrator_engine.go:217`, `uci_bridge.go:188`).
- The import reads `PasswordAuth` as `1` or `true` where devices hold `on` or `off`
  (`import_config.go`).
- A lease's address and host name are lost when the access point's row is read after the
  gateway's (`clients.go:118-158`).
- The mesh query never selects `public_endpoint` (`vpn_mesh_queries.go:41`); `allowed_ips` of
  the hub only grow, so a removed node's address stays with the node that takes its section
  (`MeshVpn!AddressesSeparate` is violated); a sync whose pushes fail reports success
  (`vpn_mesh_engine.go:142-144`).
- A crash between the two last writes of `transaction_commit` (`agent.sh:984-986`) leaves the
  marker `last` at the transaction before. When the controller goes back to that
  transaction's WireGuard payload, `transaction_begin` finds it COMMITTED, the hash file is
  written and the device keeps the other tunnel. `Tunnels` has no crash of the agent.
- A `wg_nerve` that was removed locally is not created again until the answer's hash changes
  (`agent.sh:2581-2588`).

**Limits.** File system behaviour below rename and sync is assumed sound, writes to the
journal do not fail, and the clock of the database does not jump. One controller process is
modelled. `MeshVpn` has one mesh: a device may be in several, which share `wg_mesh`, and
their syncs then overwrite each other's sections. `MeshCovered` says nothing of a mesh whose
last sync failed in part until the next whole sync. A survey sample is judged by the
timestamp its client sent, which may lie in the past (any age in `EnqueueGPS`); one that
lies ahead of the controller's clock waits longer, which is not modelled.

**Not modelled**, and why:

- formats and I/O: the Omada parser, InfluxDB, webhooks, chat messages, threat lists, the
  SSH executor, cryptography, static files, the web console;
- statistics over real numbers: analytics, RF, flow and topology engines, mesh benchmark;
- operations that keep no state (batch commands, the rendering of Edge Nexus) or are a single
  statement (shaping rules, most site and client handlers, retention loops);
- guest vouchers (a read and one update) and the baseline and preview pages of the fleet
  handlers: left for later;
- the agent's telemetry collection, self update and first boot, and the laboratory prototypes
  of commit-confirmed changes, which no shipped path calls.

## 8. Plan

Done: the device queue, the rollouts of a site, the agent's journal, the config guard,
enrollment and access, surveys and tunnels, site configuration with the UCI bridge and the
mesh, client identity, Sentinel and its alarms; proofs of every safety property of the runs
except `AppliedMatches`, and of the refinement of the device queue by a site's rollouts.

Next, in this order:

1. Proofs: `Recoverable` and `ChangeSetsTruthful` of `AgentJournal` with change sets of
   several namespaces.
2. `Delivery`: `DeviceRow` and `AgentJournal` composed over heartbeats and pulls, shown to
   implement a specification of one unit of work (queued, applied at most once, outcome
   recorded once).
3. An approved proposal followed into the device's row, and a Case from its alarm to its
   proposal, as compositions of the models there are.
4. Guest vouchers, the agent's self update and first boot.
