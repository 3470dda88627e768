---------------------------- MODULE AgentJournal ----------------------------
(***************************************************************************)
(* The transaction journal of devices/agent.sh: how the agent on a router  *)
(* applies what the controller has queued for it, and how it gets back to  *)
(* a known configuration when a step fails or the process, or the power,   *)
(* goes away between two writes.                                           *)
(*                                                                         *)
(* The agent is one shell process, so only a crash can come between two of *)
(* its steps.  A step is one durable write (transaction_write_atomic: a    *)
(* rename followed by sync) with the reads and decisions that precede it.  *)
(* A read-only decision is not a step of its own: crashing before it or    *)
(* after it leaves the same files.                                         *)
(*                                                                         *)
(* Work comes in three kinds: typed operations, change sets with a single  *)
(* `system` entry, and change sets of several namespaces.  They share the  *)
(* journal but not the code path.  An item is named by its generation:     *)
(* the controller hands out increasing ones.  The content of a             *)
(* configuration file is named by the item whose commands produced it, 0   *)
(* being what was there before.  Items are well formed (the controller     *)
(* validated them), identities and hashes are the item itself, and writes  *)
(* to the journal do not fail; commands, service restarts and health       *)
(* checks may.  The controller is reduced to its queue of one and the      *)
(* outcome it has recorded (DeviceRow has the whole of it).                *)
(***************************************************************************)
EXTENDS Naturals, FiniteSets, FiniteSetsExt

CONSTANTS NumItems,    \* bound: items the controller plans, one after the other
          Kind,        \* "operation", "single" or "multi", for each item
          Touches,     \* the namespaces (uci configs) of each item
          Rank,        \* the place of an item's id, which is random, in a listing
          Failures,    \* whether commands, restarts and health checks fail
          MaxCrashes   \* bound: crashes

Items == 1 .. NumItems

Namespaces == UNION {Touches[i] : i \in Items}

ASSUME ItemAssumption ==
    /\ NumItems \in Nat /\ MaxCrashes \in Nat /\ Failures \in BOOLEAN
    /\ Kind \in [Items -> {"operation", "single", "multi"}]
    /\ Rank \in [Items -> Nat] /\ \A i, j \in Items : Rank[i] = Rank[j] => i = j
    /\ \A i \in Items : /\ Touches[i] \subseteq Nat /\ Touches[i] # {} /\ IsFiniteSet(Touches[i])
                        /\ Kind[i] # "multi" => Cardinality(Touches[i]) = 1

VARIABLES journal,   \* $NERVE_TRANSACTION_ROOT/<id>/, by item
          marks,     \* the files active, last and $NERVE_OPERATION_STATUS_FILE
          status,    \* $NERVE_CHANGE_SET_STATUS_FILE
          config,    \* /etc/config/<namespace>
          staged,    \* uncommitted uci changes (in /tmp: a power loss clears them)
          agent,     \* where the process is
          server,    \* the controller: queue, what it planned on, recorded outcomes
          sent,      \* status reports that have left the device
          commits,   \* history: the items whose journal has said COMMITTED
          crashes

vars == <<journal, marks, status, config, staged, agent, server, sent, commits, crashes>>

\* A state of NONE stands for a file that is not there or is empty.  How much of a
\* journal entry is on disk: 1 the snapshot, 2 the device id that
\* tells a change set, 3 its generation, 4 the whole manifest.
NoEntry == [exists |-> FALSE, state |-> "NONE", level |-> 0, backup |-> <<>>]

EmptyEntry == [NoEntry EXCEPT !.exists = TRUE]

InFlight == {"APPLYING", "PENDING_CONFIRM", "ROLLING_BACK"}

Done == {"COMMITTED", "RESTORED"}

\* rec is the entry being recovered, from who called the recovery, failed whether
\* the last one did, left the namespaces still to do.
Started == [pc |-> "boot", item |-> 0, rec |-> 0, from |-> "boot", phase |-> "start",
            left |-> {}, failed |-> FALSE]

Init == /\ journal = [i \in Items |-> NoEntry]
        /\ marks = [active |-> 0, last |-> 0, operation |-> 0]
        /\ status = [id |-> 0, state |-> "NONE"]
        /\ config = [n \in Namespaces |-> 0]
        /\ staged = [n \in Namespaces |-> 0]
        /\ agent = Started
        /\ server = [pending |-> 0, planned |-> 0, observed |-> config,
                     outcome |-> [i \in Items |-> "NONE"]]
        /\ sent = {}
        /\ commits = {}
        /\ crashes = 0

-----------------------------------------------------------------------------
(* The change set status file *)

\* change_set_transition_allowed
NextStates ==
    [PREPARED          |-> {"PREPARED", "APPLYING", "REJECTED", "ROLLING_BACK", "RECOVERY_REQUIRED"},
     APPLYING          |-> {"APPLYING", "COMMITTED", "PENDING_CONFIRM", "ROLLING_BACK", "RESTORED",
                            "RECOVERY_REQUIRED", "REJECTED"},
     PENDING_CONFIRM   |-> {"PENDING_CONFIRM", "COMMITTED", "ROLLING_BACK", "RESTORED",
                            "RECOVERY_REQUIRED"},
     ROLLING_BACK      |-> {"ROLLING_BACK", "RESTORED", "RECOVERY_REQUIRED"},
     COMMITTED         |-> {"COMMITTED"},
     RESTORED          |-> {"RESTORED", "PREPARED", "REJECTED"},
     RECOVERY_REQUIRED |-> {"RECOVERY_REQUIRED"},
     REJECTED          |-> {"REJECTED"}]

\* change_set_status_write refuses a state that does not follow, and a change
\* set other than the recorded one unless that one is over and older.
StatusAllowed(i, state) ==
    \/ status.id = 0
    \/ status.id = i /\ state \in NextStates[status.state]
    \/ /\ status.id # i /\ i > status.id
       /\ status.state \in Done \cup {"REJECTED"}

StatusWritten(i, state) ==
    IF StatusAllowed(i, state) THEN [id |-> i, state |-> state] ELSE status

\* A status that speaks of work in progress whose journal is gone.
Orphaned == status.state \in InFlight \cup {"PREPARED"} /\ journal[status.id].state = "NONE"

\* change_set_device_id or change_set_namespaces is there.
IsChangeSet(i) == journal[i].level >= (IF Kind[i] = "multi" THEN 1 ELSE 2)

\* Everything that tells its identity is there.
Complete(i) == journal[i].level = (IF Kind[i] = "operation" THEN 1 ELSE 4)

HasGeneration(i) == journal[i].level >= (IF Kind[i] = "multi" THEN 3 ELSE 1)

\* Mutant: only the status file is asked.
NoRecoveryStatus == status.state # "RECOVERY_REQUIRED"

NoRecoveryRequired == /\ status.state # "RECOVERY_REQUIRED"
                      /\ \A i \in Items : journal[i].state # "RECOVERY_REQUIRED"

\* change_set_generation_allowed: nothing newer is known, and what is as new is
\* this change set.
GenerationAllowed(i) ==
    LET newest == Max({0, status.id} \cup {j \in Items : HasGeneration(j)})
    IN  /\ NoRecoveryRequired
        /\ i > newest \/ (i = newest /\ (status.id = i \/ journal[i].level >= 2))

-----------------------------------------------------------------------------
(* transaction_recover_pending, called when the agent starts (boot), before a *)
(* transaction begins (begin) and when a step of one fails (stage, verify).   *)

At(pc) == agent.pc = pc

Goto(pc) == agent' = [agent EXCEPT !.pc = pc]

Calling(from) == [agent EXCEPT !.pc = "recover", !.from = from, !.phase = "start"]

\* What a single-entry change set does when it has failed, and what others do.
GiveUp == IF Kind[agent.item] = "single" THEN "publish" ELSE "prune"

\* Mutant: the answer of the recovery before a transaction begins is not looked at.
ReturnedAnyway(ok) ==
    [agent EXCEPT !.failed = ~ok,
                  !.pc = CASE agent.from = "boot" -> "report"
                           [] agent.from = "begin" -> "begin"
                           [] agent.from = "stage" /\ Kind[agent.item] = "operation" -> "operation"
                           [] OTHER -> GiveUp]

\* Where the caller of transaction_recover_pending goes on.
Returned(ok) ==
    [agent EXCEPT !.failed = ~ok,
                  !.pc = CASE agent.from = "boot" -> "report"
                           [] agent.from = "begin" /\ ok -> "begin"
                           [] agent.from = "stage" /\ Kind[agent.item] = "operation" -> "operation"
                           [] OTHER -> GiveUp]

\* The loop over the journal stops at the first failure; the highest change set
\* that is over comes last.
OneReturned(ok) ==
    IF ok /\ agent.phase # "last" THEN [agent EXCEPT !.pc = "recover", !.phase = "scan"]
    ELSE Returned(ok)

Recovering(i, phase) == [agent EXCEPT !.pc = "one", !.rec = i, !.phase = phase]

\* Mutant: only the active marker is followed.
UnrecoveredWithoutScan == {}

Unrecovered == {i \in Items : journal[i].exists /\ journal[i].state \notin Done}

\* The first directory that `for transaction_path in .../*' finds.
FirstOf(S) == CHOOSE i \in S : \A j \in S : Rank[i] <= Rank[j]

OverChangeSets == {i \in Items : journal[i].state \in Done /\ journal[i].level >= 2}

\* One of them has lost its generation.
Illegible == \E i \in OverChangeSets : journal[i].level < 3

\* The status file lacks the newest change set that is over.
Unpublished == /\ OverChangeSets # {}
               /\ status.id <= Max(OverChangeSets)

RecoverPending ==
    /\ At("recover")
    /\ IF agent.phase = "start" /\ Orphaned
       THEN /\ status' = StatusWritten(status.id, "RECOVERY_REQUIRED")
            /\ agent' = Returned(FALSE)
       ELSE /\ agent' = IF agent.phase = "start" /\ marks.active # 0
                        THEN Recovering(marks.active, "active")
                        ELSE IF Unrecovered # {} THEN Recovering(FirstOf(Unrecovered), "scan")
                        ELSE IF Illegible THEN Returned(FALSE)
                        ELSE IF Unpublished THEN Recovering(Max(OverChangeSets), "last")
                        ELSE Returned(TRUE)
            /\ UNCHANGED status
    /\ UNCHANGED <<journal, marks, config, staged, server, sent, commits, crashes>>

-----------------------------------------------------------------------------
(* transaction_recover_one *)

SetState(i, state) == journal' = [journal EXCEPT ![i].state = state]

\* It is a change set, and its manifest is incomplete or its state unknown.
Unrecoverable(i) == IsChangeSet(i) /\ (journal[i].level < 4 \/ journal[i].state = "NONE")

\* An entry that is over: publish, then drop the active marker.
RecoverDone(i) ==
    /\ journal[i].state \in Done
    /\ status' = IF IsChangeSet(i) THEN StatusWritten(i, journal[i].state) ELSE status
    /\ IF IsChangeSet(i) /\ ~StatusAllowed(i, journal[i].state)
       THEN agent' = OneReturned(FALSE) /\ UNCHANGED marks
       ELSE /\ agent' = OneReturned(TRUE)
            /\ marks' = [marks EXCEPT !.active = IF @ = i THEN 0 ELSE @]
    /\ UNCHANGED journal

\* An operation without a state, or an entry that gave up before.
RecoverRefused(i) ==
    /\ journal[i].state \in {"NONE", "RECOVERY_REQUIRED"}
    /\ status' = IF IsChangeSet(i) THEN StatusWritten(i, "RECOVERY_REQUIRED") ELSE status
    /\ agent' = OneReturned(FALSE)
    /\ UNCHANGED <<journal, marks>>

\* The rollback starts: a single change set says so in its status first.
RecoverInFlight(i) ==
    /\ journal[i].state \in InFlight
    /\ IF Kind[i] = "single"
       THEN /\ status' = StatusWritten(i, "ROLLING_BACK")
            /\ Goto(IF StatusAllowed(i, "ROLLING_BACK") THEN "rollback" ELSE "markState")
            /\ UNCHANGED journal
       ELSE /\ SetState(i, "ROLLING_BACK")
            /\ agent' = [agent EXCEPT !.pc = "restore", !.left = Touches[i]]
            /\ UNCHANGED status
    /\ UNCHANGED marks

RecoverOne ==
    /\ At("one")
    /\ IF Unrecoverable(agent.rec)
       THEN Goto("markStatus") /\ UNCHANGED <<journal, marks, status>>
       ELSE RecoverDone(agent.rec) \/ RecoverRefused(agent.rec) \/ RecoverInFlight(agent.rec)
    /\ UNCHANGED <<config, staged, server, sent, commits, crashes>>

RollingBack ==
    /\ At("rollback")
    /\ SetState(agent.rec, "ROLLING_BACK")
    /\ agent' = [agent EXCEPT !.pc = "restore", !.left = Touches[agent.rec]]
    /\ UNCHANGED <<marks, status, config, staged, server, sent, commits, crashes>>

\* Mutant: the staged changes stay.
RestoreFileOnly ==
    /\ At("restore") /\ agent.left # {}
    /\ LET n == Min(agent.left)
       IN  /\ config' = [config EXCEPT ![n] = journal[agent.rec].backup[n]]
           /\ agent' = [agent EXCEPT !.left = @ \ {n}]
    /\ UNCHANGED <<journal, marks, status, staged, server, sent, commits, crashes>>

\* Put the snapshot of one namespace back, drop its staged changes, restart its
\* service.  Any of that may fail after the file is back.
Restore ==
    /\ At("restore") /\ agent.left # {}
    /\ LET i == agent.rec
           n == Min(agent.left)
       IN  /\ config' = [config EXCEPT ![n] = journal[i].backup[n]]
           /\ staged' = [staged EXCEPT ![n] = 0]
           /\ \/ agent' = [agent EXCEPT !.left = @ \ {n}]
              \/ Failures /\ Goto(IF Kind[i] = "multi" THEN "markStatus" ELSE "markState")
    /\ UNCHANGED <<journal, marks, status, server, sent, commits, crashes>>

Restored ==
    /\ At("restore") /\ agent.left = {}
    /\ SetState(agent.rec, "RESTORED")
    /\ Goto("forget")
    /\ UNCHANGED <<marks, status, config, staged, server, sent, commits, crashes>>

\* The active marker and the snapshots go.
Forget ==
    /\ At("forget")
    /\ marks' = [marks EXCEPT !.active = IF @ = agent.rec THEN 0 ELSE @]
    /\ journal' = [journal EXCEPT ![agent.rec].backup = <<>>]
    /\ Goto("recordLast")
    /\ UNCHANGED <<status, config, staged, server, sent, commits, crashes>>

RecordLast ==
    /\ At("recordLast")
    /\ marks' = [marks EXCEPT !.last = agent.rec]
    /\ Goto("announce")
    /\ UNCHANGED <<journal, status, config, staged, server, sent, commits, crashes>>

\* An operation through its status file, a change set through its own.
Announce ==
    /\ At("announce")
    /\ LET i == agent.rec
       IN  IF Kind[i] = "operation"
           THEN /\ marks' = [marks EXCEPT !.operation = i]
                /\ agent' = OneReturned(TRUE)
                /\ UNCHANGED status
           ELSE /\ status' = StatusWritten(i, "RESTORED")
                /\ agent' = OneReturned(StatusAllowed(i, "RESTORED"))
                /\ UNCHANGED marks
    /\ UNCHANGED <<journal, config, staged, server, sent, commits, crashes>>

\* transaction_mark_change_set_recovery_required: the status, if the manifest
\* says enough to write one, then the journal.
MarkStatus ==
    /\ At("markStatus")
    /\ status' = IF journal[agent.rec].level >= 3
                 THEN StatusWritten(agent.rec, "RECOVERY_REQUIRED") ELSE status
    /\ Goto("markState")
    /\ UNCHANGED <<journal, marks, config, staged, server, sent, commits, crashes>>

MarkState ==
    /\ At("markState")
    /\ SetState(agent.rec, "RECOVERY_REQUIRED")
    /\ agent' = OneReturned(FALSE)
    /\ UNCHANGED <<marks, status, config, staged, server, sent, commits, crashes>>

-----------------------------------------------------------------------------
(* The loop: heartbeat, config pull, the work that was pulled, prune *)

Boot == /\ At("boot")
        /\ agent' = Calling("boot")
        /\ UNCHANGED <<journal, marks, status, config, staged, server, sent, commits, crashes>>

\* transaction_status_json speaks of the operation in the status file if its
\* journal is there, else of the active one, else of the last.
ReportedOperation ==
    IF marks.operation # 0 /\ journal[marks.operation].state # "NONE" THEN marks.operation
    ELSE IF marks.active # 0 THEN marks.active ELSE marks.last

\* What is known of it, unless it is a change set or has no state.
OperationReports ==
    {[id |-> i, state |-> journal[i].state] : i \in
        {j \in {ReportedOperation} \ {0} :
            Kind[j] = "operation" /\ journal[j].state # "NONE" /\ Complete(j)}}

StatusReports == IF status.id # 0 THEN {status} ELSE {}

Heartbeat ==
    /\ At("report")
    /\ sent' = sent \cup StatusReports \cup OperationReports
    /\ Goto("pull")
    /\ UNCHANGED <<journal, marks, status, config, staged, server, commits, crashes>>

\* GET .../config may fail, find nothing queued, or find an item.
PullFails == /\ At("pull")
             /\ Goto("report")
             /\ UNCHANGED <<journal, marks, status, config, staged, server, sent, commits, crashes>>

PullNothing ==
    /\ At("pull") /\ server.pending = 0
    /\ marks' = [marks EXCEPT !.operation = 0]
    /\ Goto("prune")
    /\ UNCHANGED <<journal, status, config, staged, server, sent, commits, crashes>>

\* `uci show` includes staged changes.
Shown(n) == IF staged[n] # 0 THEN staged[n] ELSE config[n]

AsPlanned(i) == \A n \in Touches[i] : Shown(n) = server.observed[n]

\* apply_pending_operation up to transaction_begin (operations carry no
\* observed_state_hash).
PullOperation ==
    /\ At("pull") /\ server.pending # 0 /\ Kind[server.pending] = "operation"
    /\ agent' = [Calling("begin") EXCEPT !.item = server.pending]
    /\ UNCHANGED <<journal, marks, status, config, staged, server, sent, commits, crashes>>

\* Mutant: only a commit counts as an end.
CommitKnown(i) == (status.id = i /\ status.state = "COMMITTED") \/ journal[i].state = "COMMITTED"

\* What is known of the end of a change set, from its status or its journal.
EndKnown(i) == \/ status.id = i /\ status.state \in Done \cup {"REJECTED"}
               \/ journal[i].state \in Done

\* apply_pending_change_set_single up to transaction_begin: a change set whose
\* end is known is not applied again.
PullSingle ==
    /\ At("pull") /\ server.pending # 0 /\ Kind[server.pending] = "single"
    /\ LET i == server.pending
           ends(newStatus) == /\ status' = newStatus
                              /\ agent' = [agent EXCEPT !.pc = "prune", !.item = i]
       IN  IF EndKnown(i)
           THEN ends(IF status.id = i /\ status.state \in Done \cup {"REJECTED"} THEN status
                     ELSE StatusWritten(i, IF Complete(i) THEN journal[i].state ELSE "REJECTED"))
           ELSE IF ~GenerationAllowed(i) \/ ~AsPlanned(i) THEN ends(StatusWritten(i, "REJECTED"))
           ELSE /\ agent' = [Calling("begin") EXCEPT !.item = i]
                /\ UNCHANGED status
    /\ UNCHANGED <<journal, marks, config, staged, server, sent, commits, crashes>>

\* apply_pending_change_set_multi up to change_set_transaction_begin.  It does
\* not call transaction_recover_pending, and compares the observed state first.
PullMulti ==
    /\ At("pull") /\ server.pending # 0 /\ Kind[server.pending] = "multi"
    /\ LET i == server.pending
           goes(pc, newStatus) == /\ status' = newStatus
                                  /\ agent' = [agent EXCEPT !.pc = pc, !.item = i]
       IN  IF ~AsPlanned(i) THEN goes("prune", StatusWritten(i, "REJECTED"))
           ELSE IF journal[i].state \in Done \cup {"RECOVERY_REQUIRED"} THEN goes("prune", status)
           ELSE IF ~GenerationAllowed(i) THEN goes("prune", StatusWritten(i, "REJECTED"))
           ELSE goes("mkdir", status)
    /\ UNCHANGED <<journal, marks, config, staged, server, sent, commits, crashes>>

\* rm -rf on its way: of the state file and the others some are left.
Unlink(i) ==
    \E st \in {"NONE", journal[i].state}, l \in 0 .. journal[i].level :
        journal' = [journal EXCEPT ![i] = [@ EXCEPT !.state = st, !.level = l, !.backup = <<>>]]

\* transaction_prune_terminal, a directory at a time.
Prunable(i) == /\ journal[i].state \in Done
               /\ i \notin {marks.last, marks.operation, marks.active}

Prune ==
    /\ At("prune")
    /\ \/ \E i \in Items : /\ Prunable(i)
                           /\ Unlink(i)
                           /\ agent' = [agent EXCEPT !.pc = "rmdir", !.rec = i]
       \/ /\ \A i \in Items : ~Prunable(i)
          /\ Goto("report")
          /\ UNCHANGED journal
    /\ UNCHANGED <<marks, status, config, staged, server, sent, commits, crashes>>

RemoveDirectory ==
    /\ At("rmdir")
    /\ journal' = [journal EXCEPT ![agent.rec] = NoEntry]
    /\ Goto("prune")
    /\ UNCHANGED <<marks, status, config, staged, server, sent, commits, crashes>>

-----------------------------------------------------------------------------
(* transaction_begin, change_set_transaction_begin *)

\* After recovery every entry is over.  A committed one ends the request, a
\* restored one makes room for another attempt.
Begin ==
    /\ At("begin")
    /\ LET i == agent.item
       IN  IF journal[i].state = "COMMITTED" /\ Complete(i)
           THEN /\ Goto(IF Kind[i] = "operation" THEN "prune" ELSE "committed")
                /\ UNCHANGED journal
           ELSE IF \/ journal[i].state \in InFlight \cup {"RECOVERY_REQUIRED"}
                   \/ journal[i].state \in Done /\ ~Complete(i)
           THEN Goto(GiveUp) /\ UNCHANGED journal
           ELSE /\ IF journal[i].state = "RESTORED" THEN Unlink(i) ELSE UNCHANGED journal
                /\ Goto("mkdir")
    /\ UNCHANGED <<marks, status, config, staged, server, sent, commits, crashes>>

Snapshot(i) == [n \in Touches[i] |-> config[n]]

\* What transaction_begin finds it has removed.  mkdir -p lets a change set of
\* several namespaces continue in a directory that a crash left behind.
MakeDirectory ==
    /\ At("mkdir")
    /\ LET i == agent.item
       IN  journal' = [journal EXCEPT ![i] = IF Kind[i] = "multi" /\ @.level > 0
                                             THEN [@ EXCEPT !.backup = Snapshot(i)]
                                             ELSE EmptyEntry]
    /\ Goto("journal")
    /\ UNCHANGED <<marks, status, config, staged, server, sent, commits, crashes>>

\* The manifest is complete before the state of a single change set is written;
\* a change set of several namespaces writes it after its state and the marker,
\* and writes both again when it continues what a crash left behind.
ManifestTop(i) == IF Kind[i] = "single" \/ At("manifest") THEN 4 ELSE 1

\* The snapshot first, the files of the manifest after it.
WriteManifest ==
    /\ At("journal") \/ At("manifest")
    /\ LET i == agent.item
           e == journal[i]
       IN  /\ e.level < ManifestTop(i)
           /\ journal' = [journal EXCEPT ![i] =
                 IF e.level = 0
                 THEN [e EXCEPT !.level = 1, !.backup = Snapshot(i)]
                 ELSE [e EXCEPT !.level = @ + 1]]
    /\ UNCHANGED <<marks, status, config, staged, agent, server, sent, commits, crashes>>

WriteApplying ==
    /\ At("journal")
    /\ LET i == agent.item
       IN  /\ journal[i].level >= ManifestTop(i)
           /\ SetState(i, "APPLYING")
    /\ Goto("activate")
    /\ UNCHANGED <<marks, status, config, staged, server, sent, commits, crashes>>

StagingFrom == [agent EXCEPT !.pc = "stage", !.left = Touches[agent.item]]

WriteActive ==
    /\ At("activate")
    /\ marks' = [marks EXCEPT !.active = agent.item]
    /\ agent' = CASE Kind[agent.item] = "operation" -> StagingFrom
                  [] Kind[agent.item] = "single"    -> [agent EXCEPT !.pc = "prepared"]
                  [] Kind[agent.item] = "multi"     -> [agent EXCEPT !.pc = "manifest"]
    /\ UNCHANGED <<journal, status, config, staged, server, sent, commits, crashes>>

\* A status that cannot be written ends the attempt: the journal of a single
\* change set says so, the other is left as it is.
WritePrepared ==
    /\ \/ At("prepared")
       \/ At("manifest") /\ journal[agent.item].level = 4
    /\ LET i == agent.item
           refused == ~StatusAllowed(i, "PREPARED")
       IN  /\ status' = StatusWritten(i, "PREPARED")
           /\ Goto(IF refused THEN GiveUp ELSE "applying")
           /\ IF refused /\ Kind[i] = "single" THEN SetState(i, "RECOVERY_REQUIRED")
              ELSE UNCHANGED journal
    /\ UNCHANGED <<marks, config, staged, server, sent, commits, crashes>>

WriteStatusApplying ==
    /\ At("applying")
    /\ status' = StatusWritten(agent.item, "APPLYING")
    /\ agent' = StagingFrom
    /\ UNCHANGED <<journal, marks, config, staged, server, sent, commits, crashes>>

-----------------------------------------------------------------------------
(* apply_pending_operation and apply_pending_change_set_multi after that *)

\* The commands of one namespace; one of them may fail.
Stage ==
    /\ At("stage")
    /\ staged' = [staged EXCEPT ![Min(agent.left)] = agent.item]
    /\ Goto("commit") \/ (Failures /\ agent' = Calling("stage"))
    /\ UNCHANGED <<journal, marks, status, config, server, sent, commits, crashes>>

\* uci commit writes the file, or fails and does not.
UciCommit ==
    /\ At("commit")
    /\ LET n == Min(agent.left)
           left == agent.left \ {n}
       IN  \/ /\ config' = [config EXCEPT ![n] = staged[n]]
              /\ staged' = [staged EXCEPT ![n] = 0]
              /\ agent' = [agent EXCEPT !.left = left,
                             !.pc = IF left # {} THEN "stage"
                                    ELSE IF Kind[agent.item] = "multi" THEN "verify"
                                    ELSE "confirm"]
           \/ Failures /\ agent' = Calling("stage") /\ UNCHANGED <<config, staged>>
    /\ UNCHANGED <<journal, marks, status, server, sent, commits, crashes>>

MarkPending ==
    /\ At("confirm")
    /\ SetState(agent.item, "PENDING_CONFIRM")
    /\ Goto(IF Kind[agent.item] = "single" THEN "confirmStatus" ELSE "verify")
    /\ UNCHANGED <<marks, status, config, staged, server, sent, commits, crashes>>

WriteStatusPending ==
    /\ At("confirmStatus")
    /\ status' = StatusWritten(agent.item, "PENDING_CONFIRM")
    /\ Goto("verify")
    /\ UNCHANGED <<journal, marks, config, staged, server, sent, commits, crashes>>

\* Restart the services, read the configuration, ping the health targets.
Verify ==
    /\ At("verify")
    /\ Goto("decide") \/ (Failures /\ agent' = Calling("verify"))
    /\ UNCHANGED <<journal, marks, status, config, staged, server, sent, commits, crashes>>

Commit ==
    /\ At("decide")
    /\ SetState(agent.item, "COMMITTED")
    /\ commits' = commits \cup {agent.item}
    /\ Goto("deactivate")
    /\ UNCHANGED <<marks, status, config, staged, server, sent, crashes>>

\* The snapshot goes with the marker, except that of several namespaces.
Deactivate ==
    /\ At("deactivate")
    /\ marks' = [marks EXCEPT !.active = 0]
    /\ journal' = IF Kind[agent.item] = "multi" THEN journal
                  ELSE [journal EXCEPT ![agent.item].backup = <<>>]
    /\ Goto("last")
    /\ UNCHANGED <<status, config, staged, server, sent, commits, crashes>>

WriteLast ==
    /\ At("last")
    /\ marks' = [marks EXCEPT !.last = agent.item]
    /\ Goto(IF Kind[agent.item] = "operation" THEN "operation" ELSE "committed")
    /\ UNCHANGED <<journal, status, config, staged, server, sent, commits, crashes>>

WriteOperationStatus ==
    /\ At("operation")
    /\ marks' = [marks EXCEPT !.operation = agent.item]
    /\ Goto("prune")
    /\ UNCHANGED <<journal, status, config, staged, server, sent, commits, crashes>>

WriteStatusCommitted ==
    /\ At("committed")
    /\ status' = StatusWritten(agent.item, "COMMITTED")
    /\ Goto("prune")
    /\ UNCHANGED <<journal, marks, config, staged, server, sent, commits, crashes>>

\* How a single change set that failed is reported.
FailureState(state) ==
    CASE state \in Done -> state
      [] state \in InFlight \cup {"RECOVERY_REQUIRED"} -> "RECOVERY_REQUIRED"
      [] OTHER -> "REJECTED"

PublishFailure ==
    /\ At("publish")
    /\ status' = StatusWritten(agent.item, FailureState(journal[agent.item].state))
    /\ Goto("prune")
    /\ UNCHANGED <<journal, marks, config, staged, server, sent, commits, crashes>>

-----------------------------------------------------------------------------
(* Crashes and the controller *)

\* The process is gone, with the staged changes if the power was.
Crash ==
    /\ crashes < MaxCrashes
    /\ crashes' = crashes + 1
    /\ agent' = Started
    /\ staged' \in {staged, [n \in Namespaces |-> 0]}
    /\ UNCHANGED <<journal, marks, status, config, server, sent, commits>>

\* One item at a time, made from the configuration as it is, and none for a
\* device that needs recovery.
Plan ==
    /\ server.pending = 0 /\ server.planned < NumItems
    /\ \A i \in Items : server.outcome[i] # "RECOVERY_REQUIRED"
    /\ server' = [server EXCEPT !.pending = server.planned + 1, !.planned = @ + 1,
                                !.observed = [n \in Namespaces |-> Shown(n)]]
    /\ UNCHANGED <<journal, marks, status, config, staged, agent, sent, commits, crashes>>

FinalStates(i) ==
    Done \cup (IF Kind[i] = "operation" THEN {} ELSE {"RECOVERY_REQUIRED", "REJECTED"})

\* A report is persisted some time after it was answered, or never.
Record ==
    /\ \E r \in sent :
        /\ r.id = server.pending /\ r.state \in FinalStates(r.id)
        /\ server' = [server EXCEPT !.pending = 0, !.outcome[r.id] = r.state]
    /\ UNCHANGED <<journal, marks, status, config, staged, agent, sent, commits, crashes>>

-----------------------------------------------------------------------------
Recovery == \/ RecoverPending \/ RecoverOne \/ RollingBack \/ Restore \/ Restored \/ Forget
            \/ RecordLast \/ Announce \/ MarkStatus \/ MarkState

Pull == PullNothing \/ PullOperation \/ PullSingle \/ PullMulti

Apply == \/ Begin \/ MakeDirectory \/ WriteManifest \/ WriteApplying \/ WriteActive
         \/ WritePrepared \/ WriteStatusApplying \/ Stage \/ UciCommit \/ MarkPending
         \/ WriteStatusPending \/ Verify \/ Commit \/ Deactivate \/ WriteLast
         \/ WriteOperationStatus \/ WriteStatusCommitted \/ PublishFailure

AgentStep == \/ Boot \/ Heartbeat \/ PullFails \/ Pull \/ Prune \/ RemoveDirectory
             \/ Recovery \/ Apply

Next == AgentStep \/ Crash \/ Plan \/ Record

Spec == Init /\ [][Next]_vars

\* procd restarts the agent, which loops; config pulls succeed again and again;
\* the controller persists a report it keeps receiving.
Fairness == WF_vars(AgentStep) /\ SF_vars(Pull) /\ WF_vars(Record)

FairSpec == Spec /\ Fairness

-----------------------------------------------------------------------------
(* Properties *)

JournalStates == {"NONE"} \cup InFlight \cup Done \cup {"RECOVERY_REQUIRED"}

StatusStates == JournalStates \cup {"PREPARED", "REJECTED"}

Content == 0 .. NumItems

\* The snapshot an entry may hold, or none.
Backups(i) == [Touches[i] -> Content] \cup {<<>>}

Entry == [exists : BOOLEAN, state : JournalStates, level : 0 .. 4,
          backup : UNION {Backups(i) : i \in Items}]

RecoveringOne == {"one", "rollback", "restore", "forget", "recordLast", "announce",
                "markStatus", "markState"}

Beginning == {"mkdir", "journal", "activate", "manifest", "prepared", "applying"}

Mutating == {"stage", "commit"}

Verifying == {"confirm", "confirmStatus", "verify", "decide"}

Finishing == {"deactivate", "last", "operation", "committed", "publish"}

Pcs == {"boot", "report", "pull", "prune", "rmdir", "recover", "begin"}
       \cup RecoveringOne \cup Beginning \cup Mutating \cup Verifying \cup Finishing

Agent == [pc : Pcs, item : Content, rec : Content, from : {"boot", "begin", "stage", "verify"},
          phase : {"start", "active", "scan", "last"}, left : SUBSET Namespaces,
          failed : BOOLEAN]

TypeOK ==
    /\ journal \in [Items -> Entry] /\ \A i \in Items : journal[i].backup \in Backups(i)
    /\ marks \in [active : Content, last : Content, operation : Content]
    /\ status \in [id : Items, state : StatusStates \ {"NONE"}] \cup {[id |-> 0, state |-> "NONE"]}
    /\ config \in [Namespaces -> Content] /\ staged \in [Namespaces -> Content]
    /\ agent \in Agent
    /\ server \in [pending : Content, planned : Content, observed : [Namespaces -> Content],
                   outcome : [Items -> StatusStates]]
    /\ sent \subseteq [id : Items, state : StatusStates]
    /\ commits \subseteq Items /\ crashes \in 0 .. MaxCrashes

\* What a namespace should hold: the newest item that was committed, if any.
Intended(n) == Max({0} \cup {i \in commits : n \in Touches[i]})

\* The journal is a write-ahead log: whenever a configuration file or the staged
\* changes differ from what was last committed, an entry that is not over holds
\* the snapshot to go back to.  So nothing is half applied once no entry is open.
Recoverable ==
    \A n \in Namespaces : config[n] # Intended(n) \/ staged[n] # 0 =>
        \E i \in Items : /\ journal[i].state \in InFlight \cup {"RECOVERY_REQUIRED"}
                         /\ n \in Touches[i] /\ journal[i].backup # <<>>
                         /\ journal[i].backup[n] = Intended(n)

Truthful(i) ==
    /\ server.outcome[i] = "COMMITTED" => i \in commits
    /\ server.outcome[i] \in {"RESTORED", "REJECTED"} =>
          i \notin commits /\ \A n \in Namespaces : config[n] # i

\* What the controller has recorded is what happened on the device: COMMITTED
\* only after the commit, RESTORED and REJECTED only for an item of which nothing
\* was, or is later, left in the configuration.
TruthfulOutcome == \A i \in Items : Truthful(i)

\* So it is of every change set of one namespace, whatever operations lie between
\* (apply_pending_change_set_single, change_set_status_write).
ChangeSetsTruthful == \A i \in {j \in Items : Kind[j] = "single"} : Truthful(i)

\* An entry that requires recovery fences every later mutation (agent.sh:870),
\* whatever was restarted, lost or delivered since.
RecoveryFences ==
    [][(\E i \in Items : journal[i].state = "RECOVERY_REQUIRED")
         => \A n \in Namespaces : staged'[n] \in {staged[n], 0}]_vars

\* After a recovery that failed nothing is applied, also when it left no entry that
\* requires recovery (agent.sh, agent_main), unless a change set has several namespaces.
FailedRecoveryFences ==
    [][agent.failed => \A n \in Namespaces : staged'[n] \in {staged[n], 0}]_vars

\* As long as commands and restarts work, every transaction that has started ends,
\* committed or restored, whichever write a crash hits (agent.sh:804-805).
StartedEnds ==
    \A i \in Items : journal[i].state \in InFlight ~> journal[i].state \in Done

\* As long as commands and restarts work, the controller gets a final report of
\* every change set it has queued, however often the agent crashes on the way and
\* whatever the operations between them left in the journal.
EveryChangeSetAnswered ==
    \A i \in {j \in Items : Kind[j] = "single"} : server.pending = i ~> server.pending # i
=============================================================================
