---------------------------- MODULE SentinelParts ----------------------------
(***************************************************************************)
(* The eight models of Sentinel and of the alarms that feed it, side by     *)
(* side.  They share no state: each keeps its own tables.  `part' says      *)
(* which of them runs in a behaviour; the others stay in an initial state,  *)
(* so a state is a state of one model.  The fairness of a model is a        *)
(* premise of its liveness property.  The approval gate is extended, the    *)
(* others are instances.                                                    *)
(***************************************************************************)
EXTENDS SentinelProposals

CONSTANTS
    \* SentinelInvestigation
    Tools, Unknown, MaxCalls, Devices, Sites, SiteOf, Notes,
    MaxRounds, MaxToolCalls, PlanLimit, ToolReserve, Batch,
    \* SentinelCases
    Cases, Runs, Slots, Throttle, Timeout, LedgerLimit, MaxFaults,
    \* SentinelMemories and SentinelSkills
    Requests, PastCases, Memories, CaseScope, Skills, MinReplay, MinShadow,
    \* SentinelTasks
    Tasks, TaskClasses, Statements, MaxFailures,
    \* Alerts
    Alarmed, Reports, Silence, MaxCrashes

VARIABLES
    part,
    mode, scope, pc, plan, round, calls, modelCalls, pending, counts, seen, result,
    legacy, case, throttle, job, run, chat, faults,
    memory, past, learning,
    skill, eval, request, ever,
    task, due, worker, candidates, lost, failures,
    platform, env, chain, class, sent,
    age, upsert, rows, opener, incident, alarmCase, lastCPU, crashes

I == INSTANCE SentinelInvestigation WITH proposal <- result

C == INSTANCE SentinelCases

M == INSTANCE SentinelMemories WITH Cases <- PastCases, request <- learning

K == INSTANCE SentinelSkills WITH Cases <- PastCases

T == INSTANCE SentinelTasks WITH Classes <- TaskClasses, memory <- candidates

R == INSTANCE ModelRouting

A == INSTANCE Alerts WITH Devices <- Alarmed, job <- opener, case <- alarmCase

\* What the registry and the limits of an investigation satisfy.
ASSUME InvestigationLimits == I!InvestigationAssumption

\* An entry of sentinelCaseRuns counts for five minutes, an investigation ends within three.
ASSUME CaseTimes == {Throttle, Timeout, LedgerLimit, MaxFaults} \subseteq Nat /\ Timeout < Throttle

\* What a promotion asks for, and the Cases it may be judged on.
ASSUME PromotionLimits == {MinReplay, MinShadow} \subseteq Nat /\ IsFiniteSet(PastCases)

\* A row, an age or a setting that is absent is none of those that are present.
ASSUME AbsentAssumption ==
    /\ None \notin Nat /\ None \notin M!Row /\ None \notin C!RunRow
    /\ None \notin {"local", "remote", "platform", "override"}

investigationVars == <<mode, scope, pc, plan, round, calls, modelCalls, pending, counts, seen, result>>
casesVars == <<legacy, case, throttle, job, run, chat, faults>>
memoriesVars == <<memory, past, learning>>
skillsVars == <<skill, eval, request, ever>>
tasksVars == <<task, due, worker, candidates, lost, failures>>
routingVars == <<platform, env, chain, class, sent>>
alertsVars == <<age, upsert, rows, opener, incident, alarmCase, lastCPU, crashes>>
allVars == <<part, investigationVars, casesVars, vars, memoriesVars, skillsVars, tasksVars, routingVars, alertsVars>>

Parts == {"investigation", "cases", "proposals", "memories", "skills", "tasks", "routing", "alerts"}

\* The models with one initial state start in it.  One that has several and
\* does not run stays in a fixed one.
PartInit ==
    /\ part \in Parts
    /\ C!Init /\ (part # "cases" => legacy = {})
    /\ Init /\ M!Init /\ K!Init /\ T!Init /\ A!Init
    /\ I!Init /\ (part # "investigation" => mode = "site" /\ scope.site = None)
    /\ IF part = "routing" THEN R!Init
       ELSE platform = None /\ env = None /\ chain = <<>> /\ class = None /\ sent = {}

PartNext ==
    /\ UNCHANGED part
    /\ IF part = "investigation" THEN I!Next ELSE UNCHANGED investigationVars
    /\ IF part = "cases" THEN C!Next ELSE UNCHANGED casesVars
    /\ IF part = "proposals" THEN Next ELSE UNCHANGED vars
    /\ IF part = "memories" THEN M!Next ELSE UNCHANGED memoriesVars
    /\ IF part = "skills" THEN K!Next ELSE UNCHANGED skillsVars
    /\ IF part = "tasks" THEN T!Next ELSE UNCHANGED tasksVars
    /\ IF part = "routing" THEN R!Next ELSE UNCHANGED routingVars
    /\ IF part = "alerts" THEN A!Next ELSE UNCHANGED alertsVars

PartSpec == PartInit /\ [][PartNext]_allVars

-----------------------------------------------------------------------------
(* Properties: those of the models.  QueuedOnce is that of SentinelProposals. *)

\* The limits of rounds, tools and rates hold for the whole investigation, and a
\* Case's evidence is about its own site and device (SentinelInvestigation).
InvestigationConfined == I!BoundedWork /\ I!EvidenceInScope

\* Every investigation ends (SentinelInvestigation).
InvestigationEnds == part = "investigation" /\ I!Fairness => I!InvestigationEnds

\* An answer to an operator keeps its evidence, and no Case is under two
\* automatic investigations at once (SentinelCases).
AnswersBacked == C!AnswersBacked /\ C!OneInvestigation

\* No Case stays INVESTIGATING (SentinelCases).
InvestigatingEnds == part = "cases" /\ C!Fairness => C!InvestigatingEnds

\* What one site taught is not shown to another, and rejected, superseded and
\* expired memories stay so (SentinelMemories).
MemoriesTrusted == []M!KnowledgeInScope /\ M!FinalStays

\* A trusted skill was judged on enough Cases, and a revoked one stays revoked
\* (SentinelSkills).
SkillsTrusted == []K!TrustEarned /\ K!RevokedStays

\* Every queued model task completes that is not cut off, and repeats leave no
\* second candidate (SentinelTasks).
TasksComplete == part = "tasks" /\ T!Fairness => T!TasksComplete /\ []T!CandidatesOnce

\* What must stay local is sent to local endpoints, and keys to their own
\* (ModelRouting).
RoutesKept == R!RoutesKept

\* Incidents and Cases of a device settle with its silence or its reports (Alerts).
AlarmsSettle == part = "alerts" /\ A!Fairness => A!AlarmsSettle
=============================================================================
