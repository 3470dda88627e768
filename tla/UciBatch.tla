------------------------------ MODULE UciBatch ------------------------------
(* The shell script of a guarded UCI batch, run over SSH by sessions that    *)
(* share one device: the directory lock, the snapshot in /tmp, the           *)
(* observed-state guard, the staged mutations, commit, restart, health check *)
(* and rollback.  A configuration is the set of writers whose change it      *)
(* holds; one namespace, so the sessions also share snapshot and staging.    *)
EXTENDS Naturals, FiniteSets

CONSTANTS Sessions,    \* SSH sessions, each running one script
          Stale,       \* age at which a waiting script removes the lock
          MaxWait,     \* attempts of a waiting script
          MaxKills,    \* bound: sessions cut off in the middle
          MaxReboots,  \* bound: reboots of the device
          None

\* A lock is not stale at once.
ASSUME StaleAssumption == Stale \in Nat \ {0}

\* No session stands for an absent lock.
ASSUME NoneAssumption == None \notin Sessions

VARIABLES pc,        \* [Sessions -> where the script is]
          expect,    \* [Sessions -> configuration the preview saw]
          waited,    \* [Sessions -> attempts to take the lock]
          lock,      \* /tmp/central_luci_uci.lock: who made it, or None
          age,       \* [Sessions -> age of the lock it made]
          seen,      \* [Sessions -> whose lock a waiting script read the mtime of, or None]
          robbed,    \* a script removed another lock than the one it had read (history)
          config,    \* /etc/config/<namespace>
          staged,    \* /tmp/.uci: mutations not committed
          snapshot,  \* /tmp/central_luci_bak_<namespace>.conf, or None
          basis,     \* [Sessions -> configuration under its mutations] (history)
          kills, reboots

vars == <<pc, expect, waited, lock, age, seen, robbed, config, staged, snapshot, basis, kills, reboots>>

Waiting == {"lock", "stat", "compare"}
Running == {"snapshot", "guard", "mutate", "commit", "health"}
Failed  == {"timeout", "stale", "rolled_back"}

TypeOK == /\ pc \in [Sessions -> {"idle", "done", "dead"} \cup Waiting \cup Running \cup Failed]
          /\ expect \in [Sessions -> (SUBSET Sessions) \cup {None}]
          /\ basis \in [Sessions -> (SUBSET Sessions) \cup {None}]
          /\ waited \in [Sessions -> Nat]
          /\ lock \in Sessions \cup {None}
          /\ age \in [Sessions -> Nat]
          /\ seen \in [Sessions -> Sessions \cup {None}]
          /\ robbed \in BOOLEAN
          /\ config \subseteq Sessions /\ staged \subseteq Sessions
          /\ snapshot \in (SUBSET Sessions) \cup {None}
          /\ kills \in Nat /\ reboots \in Nat

Init == /\ pc = [s \in Sessions |-> "idle"]
        /\ expect = [s \in Sessions |-> None]
        /\ waited = [s \in Sessions |-> 0]
        /\ lock = None
        /\ age = [s \in Sessions |-> 0]
        /\ seen = [s \in Sessions |-> None]
        /\ robbed = FALSE
        /\ config = {}
        /\ staged = {}
        /\ snapshot = None
        /\ basis = [s \in Sessions |-> None]
        /\ kills = 0
        /\ reboots = 0

\* `uci show` merges what is staged.
Shown == config \cup staged

Goto(s, where) == pc' = [pc EXCEPT ![s] = where]

\* The preflight of a preview: the script is built around what it saw.
Preview(s) ==
    /\ pc[s] = "idle"
    /\ Goto(s, "lock")
    /\ expect' = [expect EXCEPT ![s] = Shown]
    /\ UNCHANGED <<waited, lock, age, seen, robbed, config, staged, snapshot, basis, kills, reboots>>

\* mkdir succeeds for one session only; the others look at the lock.
LockFree(s) == lock = None

Acquire(s) ==
    /\ pc[s] = "lock"
    /\ LockFree(s)
    /\ lock' = s
    /\ age' = [age EXCEPT ![s] = 0]
    /\ Goto(s, "snapshot")
    /\ UNCHANGED <<expect, waited, seen, robbed, config, staged, snapshot, basis, kills, reboots>>

Blocked(s) ==
    /\ pc[s] = "lock"
    /\ lock # None
    /\ Goto(s, "stat")
    /\ UNCHANGED <<expect, waited, lock, age, seen, robbed, config, staged, snapshot, basis, kills, reboots>>

\* stat reads the mtime of the lock that is there by now: 0 if it is gone.
Stat(s) ==
    /\ pc[s] = "stat"
    /\ seen' = [seen EXCEPT ![s] = lock]
    /\ Goto(s, "compare")
    /\ UNCHANGED <<expect, waited, lock, age, robbed, config, staged, snapshot, basis, kills, reboots>>

\* date, and whether the lock that stat read is too old.
TooOld(s) == seen[s] # None /\ age[seen[s]] >= Stale

\* It is: rmdir removes the lock that is there by now, whoever made it, and the
\* loop tries again.
Steal(s) ==
    /\ pc[s] = "compare"
    /\ TooOld(s)
    /\ lock' = None
    /\ robbed' = (robbed \/ lock \notin {None, seen[s]})
    /\ seen' = [seen EXCEPT ![s] = None]
    /\ Goto(s, "lock")
    /\ UNCHANGED <<expect, waited, age, config, staged, snapshot, basis, kills, reboots>>

\* It is not: another attempt, or the last.
Wait(s) ==
    /\ pc[s] = "compare"
    /\ ~TooOld(s)
    /\ seen' = [seen EXCEPT ![s] = None]
    /\ waited' = [waited EXCEPT ![s] = @ + 1]
    /\ Goto(s, IF waited[s] + 1 >= MaxWait THEN "timeout" ELSE "lock")
    /\ UNCHANGED <<expect, lock, age, robbed, config, staged, snapshot, basis, kills, reboots>>

\* Phase 1.
Snapshot(s) ==
    /\ pc[s] = "snapshot"
    /\ snapshot' = config
    /\ Goto(s, "guard")
    /\ UNCHANGED <<expect, waited, lock, age, seen, robbed, config, staged, basis, kills, reboots>>

\* The EXIT trap removes the directory, without asking whose it is.
Release == lock' = None

\* Exit 75 leaves everything as it was, the snapshot file included.
Guard(s) ==
    /\ pc[s] = "guard"
    /\ \/ /\ Shown = expect[s]
          /\ Goto(s, "mutate")
          /\ UNCHANGED lock
       \/ /\ Shown # expect[s]
          /\ Goto(s, "stale")
          /\ Release
    /\ UNCHANGED <<expect, waited, age, seen, robbed, config, staged, snapshot, basis, kills, reboots>>

\* Mutant: the trap reverts the staging area but does not copy the file back.
RestoredNever == config

\* rollback copies the snapshot over the file.
Restored == IF snapshot = None THEN {} ELSE snapshot

Rollback(s) ==
    /\ config' = Restored
    /\ staged' = {}
    /\ snapshot' = None
    /\ Goto(s, "rolled_back")
    /\ Release

\* Phase 2: every command goes to the staging area; one that fails rolls back.
Mutate(s) ==
    /\ pc[s] = "mutate"
    /\ basis' = [basis EXCEPT ![s] = Shown]
    /\ \/ /\ staged' = staged \cup {s}
          /\ Goto(s, "commit")
          /\ UNCHANGED <<lock, config, snapshot>>
       \/ Rollback(s)
    /\ UNCHANGED <<expect, waited, age, seen, robbed, kills, reboots>>

\* Phases 3 and 4: commit, then `uci show` as a syntax check.
Commit(s) ==
    /\ pc[s] = "commit"
    /\ \/ /\ config' = Shown
          /\ staged' = {}
          /\ Goto(s, "health")
          /\ UNCHANGED <<lock, snapshot>>
       \/ Rollback(s)
    /\ UNCHANGED <<expect, waited, age, seen, robbed, basis, kills, reboots>>

\* Phase 5 and the pings that BuildSafeBatchScript puts behind the restart.
Health(s) ==
    /\ pc[s] = "health"
    /\ \/ /\ snapshot' = None
          /\ Goto(s, "done")
          /\ Release
          /\ UNCHANGED <<config, staged>>
       \/ Rollback(s)
    /\ UNCHANGED <<expect, waited, age, seen, robbed, basis, kills, reboots>>

-----------------------------------------------------------------------------
(* The environment                                                           *)

\* Time.  The commands of a script are bounded, so a live holder ends before
\* its lock is old enough to be removed.  Locks that are gone grow older as well
\* while a script compares what it read of them.
Young == {s \in Sessions : age[s] < Stale /\ (s = lock \/ \E t \in Sessions : s = seen[t])}

Tick ==
    /\ Young # {}
    /\ \A s \in Young : pc[s] \in Running => age[s] + 1 < Stale
    /\ age' = [s \in Sessions |-> IF s \in Young THEN age[s] + 1 ELSE age[s]]
    /\ UNCHANGED <<pc, expect, waited, lock, seen, robbed, config, staged, snapshot, basis, kills, reboots>>

\* The connection or the shell dies: no trap runs, lock and staging stay.
Kill(s) ==
    /\ kills < MaxKills
    /\ pc[s] \in Running
    /\ kills' = kills + 1
    /\ Goto(s, "dead")
    /\ UNCHANGED <<expect, waited, lock, age, seen, robbed, config, staged, snapshot, basis, reboots>>

\* A reboot empties /tmp: lock, staging and snapshot; sessions die.
Reboot ==
    /\ reboots < MaxReboots
    /\ reboots' = reboots + 1
    /\ pc' = [s \in Sessions |-> IF pc[s] \in Running \cup Waiting THEN "dead" ELSE pc[s]]
    /\ lock' = None
    /\ seen' = [s \in Sessions |-> None]
    /\ staged' = {}
    /\ snapshot' = None
    /\ UNCHANGED <<expect, waited, age, robbed, config, basis, kills>>

Step(s) == \/ Preview(s) \/ Acquire(s) \/ Blocked(s) \/ Stat(s) \/ Steal(s) \/ Wait(s)
           \/ Snapshot(s) \/ Guard(s) \/ Mutate(s) \/ Commit(s) \/ Health(s)

Next == \/ \E s \in Sessions : Step(s) \/ Kill(s)
        \/ Tick
        \/ Reboot

Spec == Init /\ [][Next]_vars

-----------------------------------------------------------------------------
(* A batch changes the device only on top of the configuration its preview   *)
(* saw, and one that ended in a timeout, as stale or in a rollback has left  *)
(* nothing behind -- with several sessions sharing lock, snapshot file and   *)
(* staging area, sessions that die holding the lock, reboots, and scripts    *)
(* that remove locks they believe to be old.  The one thing that breaks it   *)
(* is a removal that hits another lock than the one whose age was read.      *)
BatchAtomic == ~robbed => \A s \in Sessions :
    /\ basis[s] # None => basis[s] = expect[s]
    /\ pc[s] \in Failed => s \notin config \cup staged

\* What the comment of withUciMutationLock says of every behaviour: batches are
\* serialized.  Two scripts that read the age of a dead session's lock both remove
\* a lock, the second one the fresh lock of a script that is running.
BatchesSerialized == \A s, t \in Sessions : pc[s] \in Running /\ pc[t] \in Running => s = t
=============================================================================
