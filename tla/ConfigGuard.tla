----------------------------- MODULE ConfigGuard -----------------------------
(***************************************************************************)
(* devices/agent-config-guard.sh: commit-confirmed changes of              *)
(* /etc/nerve/agent.conf.  A change is armed (the old and the new file go  *)
(* into the directory `active`), applied and confirmed before a deadline;  *)
(* otherwise a worker, or the next boot, puts the old file back.           *)
(*                                                                         *)
(* Every command holds a file lock, so commands do not interleave, but the *)
(* process may be killed and the power may fail between two of its steps,  *)
(* and time goes on.  A step is one rename, or one restart of the agent,   *)
(* with the checks before it.  Contents of the file are opaque, digests    *)
(* are equality of contents, and only the guard writes the file.           *)
(***************************************************************************)
EXTENDS Naturals

CONSTANTS Changes,     \* change ids
          Contents,    \* contents of the configuration file
          Initial,     \* the one the device starts with
          NoJournal,   \* there is no directory `active`
          NotRunning,  \* the agent is down
          Faults,      \* "restart": restarting the agent may fail; "copy": cp may
          TTL,         \* the time a change is given
          MaxUptime,   \* bound: seconds (some) since boot
          MaxBoots,    \* bound: boots
          MaxKills     \* bound: killed commands

Journals == [id : Changes, original : Contents, candidate : Contents,
             boot : Nat, deadline : Nat]

Systems == [phase : {"starting", "guarded", "up"}, boot : Nat, uptime : Nat,
            worker : {"running", "none"}]

ASSUME GuardAssumption ==
    /\ Initial \in Contents /\ NotRunning \notin Contents
    /\ NoJournal \notin Journals
    /\ TTL \in Nat \ {0}
    /\ MaxUptime \in Nat /\ MaxBoots \in Nat /\ MaxKills \in Nat

VARIABLES target,    \* /etc/nerve/agent.conf
          running,   \* what the running agent has read
          active,    \* $ROOT/active
          prepared,  \* $ROOT/prepared-<id> of the running arm
          ended,     \* the directories prepared-, committed- and restored-<id>
          pc,        \* where the command that has the lock is
          system,    \* phase of the boot, boot id, uptime, worker process
          base,      \* history: the content confirmed last
          fenced,    \* history: changes whose rollback has expired the deadline
          kills

vars == <<target, running, active, prepared, ended, pc, system, base, fenced, kills>>

Init == /\ target = Initial /\ running = Initial /\ base = Initial
        /\ active = NoJournal /\ prepared = NoJournal
        /\ ended = [i \in Changes |-> ""]
        /\ pc = "idle"
        /\ system = [phase |-> "up", boot |-> 1, uptime |-> 0, worker |-> "running"]
        /\ fenced = {}
        /\ kills = 0

\* Mutant: a deadline of an earlier boot is compared with the uptime of this one.
ExpiredByUptime == system.uptime >= active.deadline

\* The deadline counts in seconds of uptime and is void in another boot.
Expired == active.boot # system.boot \/ system.uptime >= active.deadline

Up == system.phase = "up"

\* A command starts: it has the lock.
Free == pc = "idle" /\ Up

-----------------------------------------------------------------------------
(* arm, apply, confirm *)

\* Mutant: a second change is armed over the first.
ArmAnyway(i, c) ==
    /\ Free /\ ended[i] = "" /\ system.uptime + TTL <= MaxUptime
    /\ prepared' = [id |-> i, original |-> target, candidate |-> c,
                    boot |-> system.boot, deadline |-> system.uptime + TTL]
    /\ ended' = [ended EXCEPT ![i] = "prepared"]
    /\ pc' = "arm"
    /\ UNCHANGED <<target, running, active, system, base, fenced, kills>>

Arm(i, c) ==
    /\ Free /\ active = NoJournal /\ ended[i] = ""
    /\ system.uptime + TTL <= MaxUptime
    /\ prepared' = [id |-> i, original |-> target, candidate |-> c,
                    boot |-> system.boot, deadline |-> system.uptime + TTL]
    /\ ended' = [ended EXCEPT ![i] = "prepared"]
    /\ pc' = "arm"
    /\ UNCHANGED <<target, running, active, system, base, fenced, kills>>

\* mv prepared-<id> active
Activate ==
    /\ pc = "arm"
    /\ active' = prepared
    /\ ended' = [ended EXCEPT ![prepared.id] = ""]
    /\ pc' = "idle"
    /\ UNCHANGED <<target, running, prepared, system, base, fenced, kills>>

Apply ==
    /\ Free /\ active # NoJournal /\ ~Expired
    /\ target = active.original
    /\ pc' = "swap"
    /\ UNCHANGED <<target, running, active, prepared, ended, system, base, fenced, kills>>

Swap ==
    /\ pc = "swap"
    /\ \/ target' = active.candidate /\ pc' = "restart"
       \/ "copy" \in Faults /\ pc' = "idle" /\ UNCHANGED target
    /\ UNCHANGED <<running, active, prepared, ended, system, base, fenced, kills>>

Restart ==
    /\ pc = "restart"
    /\ running' = target \/ ("restart" \in Faults /\ UNCHANGED running)
    /\ pc' = "idle"
    /\ UNCHANGED <<target, active, prepared, ended, system, base, fenced, kills>>

Confirm ==
    /\ Free /\ active # NoJournal /\ ~Expired
    /\ target = active.candidate
    /\ pc' = "commit"
    /\ UNCHANGED <<target, running, active, prepared, ended, system, base, fenced, kills>>

\* mv active committed-<id>
Commit ==
    /\ pc = "commit"
    /\ ended' = [ended EXCEPT ![active.id] = "committed"]
    /\ active' = NoJournal
    /\ base' = target
    /\ pc' = "idle"
    /\ UNCHANGED <<target, running, prepared, system, fenced, kills>>

-----------------------------------------------------------------------------
(* rollback, check, restore *)

Rollback ==
    /\ Free /\ active # NoJournal
    /\ pc' = "fence"
    /\ UNCHANGED <<target, running, active, prepared, ended, system, base, fenced, kills>>

\* Mutant: the deadline stays as it is.
FenceNothing ==
    /\ pc = "fence"
    /\ fenced' = fenced \cup {active.id}
    /\ pc' = "restore"
    /\ UNCHANGED <<target, running, active, prepared, ended, system, base, kills>>

\* The deadline goes first, so that the change can no longer be confirmed.
Fence ==
    /\ pc = "fence"
    /\ active' = [active EXCEPT !.deadline = 0]
    /\ fenced' = fenced \cup {active.id}
    /\ pc' = "restore"
    /\ UNCHANGED <<target, running, prepared, ended, system, base, kills>>

\* Mutant: a change that was never applied has nothing to restore.
CheckApplied ==
    /\ Free /\ active # NoJournal /\ Expired
    /\ target # active.original
    /\ pc' = "restore"
    /\ UNCHANGED <<target, running, active, prepared, ended, system, base, fenced, kills>>

\* The worker every two seconds, or somebody by hand.
Check ==
    /\ Free /\ active # NoJournal /\ Expired
    /\ pc' = "restore"
    /\ UNCHANGED <<target, running, active, prepared, ended, system, base, fenced, kills>>

\* A failing boot check ends start_service before the worker is registered.
Failed == IF Up THEN system ELSE [system EXCEPT !.phase = "guarded"]

\* During boot the agent has not started yet and needs no restart.
PutBack ==
    /\ pc = "restore"
    /\ \/ /\ target' = active.original
          /\ pc' = IF Up THEN "again" ELSE "close"
          /\ UNCHANGED system
       \/ /\ "copy" \in Faults
          /\ pc' = "idle" /\ system' = Failed
          /\ UNCHANGED target
    /\ UNCHANGED <<running, active, prepared, ended, base, fenced, kills>>

Again ==
    /\ pc = "again"
    /\ \/ running' = target /\ pc' = "close"
       \/ "restart" \in Faults /\ pc' = "idle" /\ UNCHANGED running
    /\ UNCHANGED <<target, active, prepared, ended, system, base, fenced, kills>>

Guarded == [system EXCEPT !.phase = "guarded", !.worker = "running"]

\* mv active restored-<id>
Close ==
    /\ pc = "close"
    /\ ended' = [ended EXCEPT ![active.id] = "restored"]
    /\ active' = NoJournal
    /\ system' = IF Up THEN system ELSE Guarded
    /\ pc' = "idle"
    /\ UNCHANGED <<target, running, prepared, base, fenced, kills>>

-----------------------------------------------------------------------------
(* Boot, time, and what interrupts a command *)

\* S18: agent-config-guard boot, then the worker.
BootCheck ==
    /\ system.phase = "starting" /\ pc = "idle"
    /\ IF active # NoJournal /\ Expired
       THEN pc' = "restore" /\ UNCHANGED system
       ELSE system' = Guarded /\ UNCHANGED pc
    /\ UNCHANGED <<target, running, active, prepared, ended, base, fenced, kills>>

\* S99
StartAgent ==
    /\ system.phase = "guarded"
    /\ system' = [system EXCEPT !.phase = "up"]
    /\ running' = target
    /\ UNCHANGED <<target, active, prepared, ended, pc, base, fenced, kills>>

Tick ==
    /\ system.uptime < MaxUptime
    /\ system' = [system EXCEPT !.uptime = @ + 1]
    /\ UNCHANGED <<target, running, active, prepared, ended, pc, base, fenced, kills>>

Kill ==
    /\ kills < MaxKills /\ pc # "idle" /\ Up
    /\ kills' = kills + 1
    /\ pc' = "idle"
    /\ UNCHANGED <<target, running, active, prepared, ended, system, base, fenced>>

PowerLoss ==
    /\ system.boot < MaxBoots
    /\ system' = [phase |-> "starting", boot |-> system.boot + 1, uptime |-> 0,
                  worker |-> "none"]
    /\ running' = NotRunning
    /\ pc' = "idle"
    /\ UNCHANGED <<target, active, prepared, ended, base, fenced, kills>>

Operator == (\E i \in Changes, c \in Contents : Arm(i, c)) \/ Apply \/ Confirm \/ Rollback

\* What a command that has the lock does next.
Running == \/ Activate \/ Swap \/ Restart \/ Commit \/ Fence
           \/ PutBack \/ Again \/ Close

Next == Operator \/ Check \/ Running \/ BootCheck \/ StartAgent \/ Tick \/ Kill \/ PowerLoss

Spec == Init /\ [][Next]_vars

\* A command that runs goes on, time passes, init runs its scripts, the worker
\* looks every two seconds, and a restore that is tried again and again succeeds.
FairSpec ==
    /\ Spec
    /\ WF_vars(Running) /\ WF_vars(Tick) /\ WF_vars(BootCheck) /\ WF_vars(StartAgent)
    /\ SF_vars(system.worker = "running" /\ Check)
    /\ SF_vars(PutBack /\ pc' # "idle") /\ SF_vars(Again /\ pc' = "close")

-----------------------------------------------------------------------------
(* Properties *)

TypeOK ==
    /\ target \in Contents /\ base \in Contents /\ running \in Contents \cup {NotRunning}
    /\ active \in Journals \cup {NoJournal} /\ prepared \in Journals \cup {NoJournal}
    /\ ended \in [Changes -> {"", "prepared", "committed", "restored"}]
    /\ pc \in {"idle", "arm", "swap", "restart", "commit", "fence", "restore", "again", "close"}
    /\ system \in Systems
    /\ fenced \subseteq Changes
    /\ kills \in Nat

\* The journal is kept until the file is what was confirmed last: whenever it is
\* not, `active` holds the content to go back to.
Recoverable == target # base => active # NoJournal /\ active.original = base

\* The agent of a new boot starts with a confirmed configuration: S18 has put it
\* back before S99 (docs/AGENT_CONFIG_GUARD.md:15-16), unless it failed and ended
\* without a worker.
BootRunsConfirmed == system.phase = "guarded" /\ system.worker = "running" => target = base

\* A change whose rollback has begun is never confirmed, wherever the rollback is
\* interrupted (docs/AGENT_CONFIG_GUARD.md:38-40).
RollbackFences == \A i \in fenced : ended[i] # "committed"

\* A change counts as restored only when the running agent has read the old file.
RestoredRuns ==
    [][\A i \in Changes : ended[i] # "restored" /\ ended'[i] = "restored" /\ Up
          => running' = base /\ target' = base]_vars

\* As long as the worker runs, every armed change is confirmed or restored in the
\* end, without anybody doing anything more, however often a restore is killed or
\* fails (docs/AGENT_CONFIG_GUARD.md:13-18).
UnconfirmedEnds == active # NoJournal /\ system.worker = "running"
                   ~> active = NoJournal \/ system.worker = "none"
=============================================================================
