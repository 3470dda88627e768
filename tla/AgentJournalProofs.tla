------------------------- MODULE AgentJournalProofs -------------------------
(***************************************************************************)
(* What the journal of devices/agent.sh promises for any items, kinds of   *)
(* items, namespaces, failures and crashes: an entry that requires recovery *)
(* fences every later mutation, and, as long as no change set has several  *)
(* namespaces, so does a recovery that failed, the journal is a write-ahead *)
(* log, and what the controller has recorded of a change set is true.      *)
(*                                                                         *)
(* ControlInv says where the process can be, given the journal it has      *)
(* written: which entry it works on and what that entry says.  LogInv adds *)
(* what the configuration holds there, and OutcomeInv what the status file *)
(* and the reports that have left the device say of it.                    *)
(***************************************************************************)
EXTENDS AgentJournal, TLAPS, FiniteSetTheorems, WellFoundedInduction

pc == agent.pc

Applying == Beginning \cup Mutating \cup Verifying

IsSnapshot(i, b) == b \in [Touches[i] -> Content]

HasSnapshot(i) == IsSnapshot(i, journal[i].backup)

\* The process knows the item it applies, and the entry it recovers or removes.
Known ==
    /\ pc \in {"begin"} \cup Applying \cup Finishing => agent.item \in Items
    /\ pc \in {"recover"} \cup RecoveringOne /\ agent.from # "boot" => agent.item \in Items
    /\ pc \in RecoveringOne \cup {"rmdir"} => agent.rec \in Items

\* Entries that say something have a directory, and so has the active one; an entry
\* in flight has its snapshot.
Sound ==
    /\ \A i \in Items : journal[i].state # "NONE" \/ journal[i].level > 0 => journal[i].exists
    /\ marks.active # 0 => journal[marks.active].exists
    /\ \A i \in Items : journal[i].state \in InFlight => HasSnapshot(i)

\* What the entry at work says, and what is left to do of it.
AtWork ==
    /\ pc = "journal" => /\ journal[agent.item].exists
                         /\ journal[agent.item].level >= 1 => HasSnapshot(agent.item)
    /\ pc \in Applying \ {"mkdir", "journal"} => journal[agent.item].state \in InFlight
    /\ pc \in Mutating => agent.left # {} /\ agent.left \subseteq Touches[agent.item]
    /\ pc = "deactivate" => journal[agent.item].state = "COMMITTED"
    /\ pc \in RecoveringOne => journal[agent.rec].exists
    /\ pc \in {"rollback", "restore"} => journal[agent.rec].state \in InFlight
    /\ pc = "restore" => agent.left \subseteq Touches[agent.rec]
    /\ pc = "forget" => journal[agent.rec].state = "RESTORED"
    /\ pc = "rmdir" => /\ agent.rec # marks.active
                       /\ journal[agent.rec].state \in Done \cup {"NONE"}

\* Nothing is applied while an entry requires recovery.
Fenced ==
    pc \in {"begin"} \cup Applying => \A i \in Items : journal[i].state # "RECOVERY_REQUIRED"

\* The newest change set that is over is published after every entry is over.
LastPhase ==
    pc \in RecoveringOne /\ agent.phase = "last" =>
        /\ Unrecovered = {}
        /\ pc \in {"one", "markStatus", "markState"}

ControlInv == TypeOK /\ Sound /\ Known /\ AtWork /\ Fenced /\ LastPhase

-----------------------------------------------------------------------------
(* The write-ahead log, for operations and change sets of one namespace *)

NoMulti == \A i \in Items : Kind[i] # "multi"

Intact(n) == config[n] = Intended(n) /\ staged[n] = 0

HoldsIntended(i) == \A n \in Touches[i] : journal[i].backup[n] = Intended(n)

\* A transaction begins when every other one is over.
Sole ==
    /\ pc = "begin" => Unrecovered = {}
    /\ pc \in Applying => Unrecovered \subseteq {agent.item}

\* The snapshot of an entry in flight is what was last committed.
Backed == \A i \in Items : journal[i].state \in InFlight => HoldsIntended(i)

\* What is in the files at each place.
Files ==
    /\ pc \in Beginning => \A n \in Namespaces : Intact(n)
    /\ pc = "journal" /\ journal[agent.item].level >= 1 => HoldsIntended(agent.item)
    /\ pc = "commit" => \A n \in Touches[agent.item] : staged[n] = agent.item
    /\ pc \in Verifying => \A n \in Touches[agent.item] : config[n] = agent.item /\ staged[n] = 0
    /\ pc = "restore" => \A n \in Touches[agent.rec] \ agent.left : Intact(n)

\* The process has pulled an item that it may yet apply.
Begun ==
    \/ pc \in {"begin"} \cup Applying
    \/ pc \in {"recover"} \cup RecoveringOne /\ agent.from = "begin"

\* Items are applied in the order of their generations.
InOrderOf ==
    /\ server.pending # 0 => server.pending = server.planned
    /\ agent.item <= server.planned
    /\ \A c \in commits : c <= server.planned
    /\ Begun => \A c \in commits : c <= agent.item

LogInv == Sole /\ Backed /\ Files /\ InOrderOf /\ Recoverable
-----------------------------------------------------------------------------
(* The model's operators *)

\* What is assumed of the constants, in the form the proofs need.
LEMMA Constants ==
    /\ NumItems \in Nat /\ Items \subseteq Nat /\ Items \subseteq Content /\ 0 \in Content
    /\ Content \subseteq Nat /\ 0 \notin Items
    /\ \A i \in Items : /\ Touches[i] \subseteq Namespaces /\ Touches[i] \subseteq Nat
                        /\ Touches[i] # {}
                        /\ Kind[i] \in {"operation", "single", "multi"} /\ Rank[i] \in Nat
<1>1. NumItems \in Nat
  BY ItemAssumption
<1>2. QED
  BY <1>1, ItemAssumption DEF Items, Content, Namespaces

\* A set of numbers that is not empty has a smallest one.
LEMMA Smallest ==
    ASSUME NEW S, S \subseteq Nat, S # {}
    PROVE  \E x \in S : \A y \in S : x <= y
<1>1. IsWellFoundedOn(OpToRel(<, Nat), Nat)
  BY NatLessThanWellFounded
<1>2. PICK x \in S : \A y \in S : ~ (<<y, x>> \in OpToRel(<, Nat))
  BY <1>1, WFMin
<1>3. \A y \in S : ~ (y < x)
  BY <1>2 DEF OpToRel
<1>4. QED
  BY <1>3

\* Min of the namespaces that are left is one of them.
LEMMA MinIn ==
    ASSUME NEW S, S \subseteq Nat, S # {}
    PROVE  Min(S) \in S
BY Smallest DEF Min

\* The scan finds an entry that is there.
LEMMA FirstIn ==
    ASSUME NEW S, S \subseteq Items, S # {}
    PROVE  FirstOf(S) \in S
<1>1. {Rank[i] : i \in S} \subseteq Nat /\ {Rank[i] : i \in S} # {}
  BY Constants
<1>2. PICK x \in {Rank[i] : i \in S} : \A y \in {Rank[i] : i \in S} : x <= y
  BY <1>1, Smallest
<1>3. PICK i \in S : x = Rank[i]
  BY <1>2
<1>4. \A j \in S : Rank[i] <= Rank[j]
  BY <1>2, <1>3
<1>5. QED
  BY <1>4 DEF FirstOf

\* And the newest of some items is one of them.
LEMMA MaxBounds ==
    ASSUME NEW S, S \subseteq Content, S # {}
    PROVE  Max(S) \in S /\ \A x \in S : x <= Max(S)
<1>1. {NumItems - i : i \in S} \subseteq Nat /\ {NumItems - i : i \in S} # {}
  <2>1. \A i \in S : i \in Nat /\ i <= NumItems
    BY Constants DEF Content
  <2>2. \A i \in S : NumItems - i \in Nat
    BY <2>1, Constants
  <2>3. QED
    BY <2>2
<1>2. PICK x \in {NumItems - i : i \in S} : \A y \in {NumItems - i : i \in S} : x <= y
  BY <1>1, Smallest
<1>3. PICK i \in S : x = NumItems - i
  BY <1>2
<1>4. \A j \in S : NumItems - i <= NumItems - j
  BY <1>2, <1>3
<1>5. \A j \in S : i >= j
  BY <1>4, Constants DEF Content
<1>6. Max(S) \in S /\ \A y \in S : Max(S) >= y
  BY <1>5 DEF Max
<1>7. S \subseteq Nat
  BY Constants
<1>8. QED
  BY <1>6, <1>7

\* In particular of items.
LEMMA MaxIn ==
    ASSUME NEW S, S \subseteq Items, S # {}
    PROVE  Max(S) \in S
<1>1. S \subseteq Content
  BY Constants
<1>2. QED
  BY <1>1, MaxBounds
-----------------------------------------------------------------------------
(* The control of the process *)

\* What a step to another place leaves of the record of the process.
SameWork == /\ agent'.item = agent.item /\ agent'.rec = agent.rec
            /\ agent'.from = agent.from /\ agent'.phase = agent.phase
            /\ agent'.left = agent.left

\* Goto moves the process and leaves what it works on.
LEMMA GotoFact ==
    ASSUME TypeOK, NEW p \in Pcs, Goto(p)
    PROVE  agent' \in Agent /\ agent'.pc = p /\ SameWork
BY DEF TypeOK, Agent, Goto, SameWork

\* A status file that is there is about an item.
LEMMA StatusType ==
    ASSUME TypeOK, status.id # 0 \/ status.state # "NONE"
    PROVE  status \in [id : Items, state : StatusStates \ {"NONE"}]
<1>1. status \in [id : Items, state : StatusStates \ {"NONE"}] \cup {[id |-> 0, state |-> "NONE"]}
  BY DEF TypeOK
<1>2. CASE status = [id |-> 0, state |-> "NONE"]
  BY <1>2
<1>3. QED
  BY <1>1, <1>2

\* The process starts with an empty journal.
LEMMA ControlInit == ASSUME Init PROVE ControlInv
<1>1. TypeOK
  <2>1. journal \in [Items -> Entry] /\ \A i \in Items : journal[i].backup \in Backups(i)
    <3>1. \A i \in Items : <<>> \in Backups(i)
      BY DEF Backups
    <3>2. \A i \in Items : NoEntry \in Entry
      <4>1. SUFFICES ASSUME NEW i \in Items PROVE NoEntry \in Entry
        OBVIOUS
      <4>2. <<>> \in UNION {Backups(j) : j \in Items}
        BY <3>1
      <4>3. QED
        BY <4>2 DEF NoEntry, Entry, JournalStates
    <3>3. QED
      BY <3>1, <3>2 DEF Init, NoEntry
  <2>2. config \in [Namespaces -> Content] /\ staged \in [Namespaces -> Content]
    BY Constants DEF Init
  <2>3. agent \in Agent
    BY Constants DEF Init, Started, Agent, Pcs
  <2>4. marks \in [active : Content, last : Content, operation : Content]
    BY Constants DEF Init
  <2>5. server \in [pending : Content, planned : Content, observed : [Namespaces -> Content],
                    outcome : [Items -> StatusStates]]
    <3>1. [i \in Items |-> "NONE"] \in [Items -> StatusStates]
      BY DEF StatusStates, JournalStates
    <3>2. server = [pending |-> 0, planned |-> 0, observed |-> config,
                    outcome |-> [i \in Items |-> "NONE"]]
      BY DEF Init
    <3>3. QED
      BY Constants, <2>2, <3>1, <3>2
  <2>6. /\ status = [id |-> 0, state |-> "NONE"] /\ sent = {} /\ commits = {}
        /\ crashes \in 0 .. MaxCrashes
    <3>1. status = [id |-> 0, state |-> "NONE"] /\ sent = {} /\ commits = {} /\ crashes = 0
      BY DEF Init
    <3>2. MaxCrashes \in Nat
      BY ItemAssumption
    <3>3. QED
      BY <3>1, <3>2
  <2>7. QED
    BY <2>1, <2>2, <2>3, <2>4, <2>5, <2>6 DEF TypeOK
<1>2. pc = "boot"
  BY DEF Init, Started, pc
<1>3. \A i \in Items : journal[i].state = "NONE" /\ journal[i].level = 0
  BY DEF Init, NoEntry
<1>4. marks.active = 0
  BY DEF Init
<1>5. Known /\ AtWork /\ Fenced /\ LastPhase
  BY <1>2 DEF Known, AtWork, Fenced, LastPhase, Applying, Beginning, Mutating, Verifying,
     Finishing, RecoveringOne
<1>6. Sound
  BY <1>3, <1>4 DEF Sound, InFlight
<1>7. QED
  BY <1>1, <1>5, <1>6 DEF ControlInv

\* The places where no entry is at work.
Resting == {"boot", "report", "pull", "prune", "recover", "last", "operation", "committed", "publish"}

\* A step to such a place.
LEMMA RestStep ==
    ASSUME TypeOK', Sound', agent'.pc \in Resting,
           agent'.pc \in Finishing => agent'.item \in Items,
           agent'.pc = "recover" /\ agent'.from # "boot" => agent'.item \in Items
    PROVE  ControlInv'
BY DEF ControlInv, Known, AtWork, Fenced, LastPhase, pc, Resting,
     Applying, Beginning, Mutating, Verifying, Finishing, RecoveringOne

\* The journal stays as it is, and the active marker at most goes.
SameFiles == journal' = journal /\ marks'.active \in {marks.active, 0}

\* Such a step keeps the journal sound.
LEMMA SoundStep == ASSUME Sound, SameFiles PROVE Sound'
BY DEF Sound, SameFiles, HasSnapshot

\* The heartbeat, a pull that fails or finds nothing.
LEMMA IdleStep ==
    ASSUME ControlInv, Heartbeat \/ PullFails \/ PullNothing
    PROVE  ControlInv'
<1>1. ASSUME Heartbeat PROVE ControlInv'
  <2>1. sent' \subseteq [id : Items, state : StatusStates]
    <3>1. StatusReports \subseteq [id : Items, state : StatusStates]
      <4>1. status.id # 0 => status \in [id : Items, state : StatusStates \ {"NONE"}]
        BY StatusType DEF ControlInv
      <4>2. status.id # 0 => status \in [id : Items, state : StatusStates]
        BY <4>1
      <4>3. QED
        BY <4>2 DEF StatusReports
    <3>2. ReportedOperation \in Content
      BY DEF ControlInv, TypeOK, ReportedOperation
    <3>3. \A j \in Items : journal[j].state \in StatusStates
      BY DEF ControlInv, TypeOK, Entry, StatusStates
    <3>4. Content \ {0} \subseteq Items
      BY Constants DEF Content, Items
    <3>5. OperationReports \subseteq [id : Items, state : StatusStates]
      <4>1. SUFFICES ASSUME NEW r \in OperationReports
            PROVE  r \in [id : Items, state : StatusStates]
        OBVIOUS
      <4>2. PICK j \in {ReportedOperation} \ {0} : r = [id |-> j, state |-> journal[j].state]
        BY DEF OperationReports
      <4>3. QED
        BY <3>2, <3>3, <3>4, <4>2
    <3>6. QED
      BY <1>1, <3>1, <3>5 DEF Heartbeat, ControlInv, TypeOK
  <2>2. QED
    BY <1>1, <2>1, GotoFact, RestStep, SoundStep
       DEF Heartbeat, ControlInv, TypeOK, Pcs, Resting, Finishing, SameFiles
<1>2. ASSUME PullFails PROVE ControlInv'
  BY <1>2, GotoFact, RestStep, SoundStep
     DEF PullFails, ControlInv, TypeOK, Pcs, Resting, Finishing, SameFiles
<1>3. ASSUME PullNothing PROVE ControlInv'
  <2>1. /\ marks' \in [active : Content, last : Content, operation : Content]
        /\ marks'.active = marks.active
    BY <1>3, Constants DEF PullNothing, ControlInv, TypeOK
  <2>2. QED
    BY <1>3, <2>1, GotoFact, RestStep, SoundStep
       DEF PullNothing, ControlInv, TypeOK, Pcs, Resting, Finishing, SameFiles
<1>4. QED
  BY <1>1, <1>2, <1>3

StatusFiles == [id : Items, state : StatusStates \ {"NONE"}] \cup {[id |-> 0, state |-> "NONE"]}

\* A status is written for an item, or not at all.
LEMMA StatusFact ==
    ASSUME TypeOK, NEW i \in Items, NEW s \in StatusStates \ {"NONE"}
    PROVE  StatusWritten(i, s) \in StatusFiles
<1>1. [id |-> i, state |-> s] \in StatusFiles
  BY DEF StatusFiles
<1>2. status \in StatusFiles
  BY DEF TypeOK, StatusFiles
<1>3. QED
  BY <1>1, <1>2 DEF StatusWritten

\* The item that is pulled is one the controller has planned.
LEMMA PendingItem ==
    ASSUME TypeOK, server.pending # 0
    PROVE  server.pending \in Items
<1>1. server.pending \in Content
  BY DEF TypeOK
<1>2. QED
  BY <1>1, Constants DEF Content, Items

\* The start of the process, and the pull of an operation.
LEMMA CallStep ==
    ASSUME ControlInv, Boot \/ PullOperation
    PROVE  ControlInv'
<1>1. CASE Boot
  <2>1. agent' \in Agent /\ agent'.pc = "recover" /\ agent'.from = "boot"
    BY <1>1 DEF Boot, Calling, ControlInv, TypeOK, Agent, Pcs
  <2>2. QED
    BY <1>1, <2>1, RestStep, SoundStep
       DEF Boot, ControlInv, TypeOK, Resting, Finishing, SameFiles
<1>2. CASE PullOperation
  <2>1. server.pending \in Items
    BY <1>2, PendingItem DEF PullOperation, ControlInv
  <2>2. agent' \in Agent /\ agent'.pc = "recover" /\ agent'.item = server.pending
    BY <1>2, <2>1, Constants DEF PullOperation, Calling, ControlInv, TypeOK, Agent, Pcs
  <2>3. QED
    BY <1>2, <2>1, <2>2, RestStep, SoundStep
       DEF PullOperation, ControlInv, TypeOK, Resting, Finishing, SameFiles
<1>3. QED
  BY <1>1, <1>2

\* The pull of a change set with one entry writes a status or calls the recovery.
LEMMA PullSingleStep == ASSUME ControlInv, PullSingle PROVE ControlInv'
<1> DEFINE i == server.pending
<1>1. i \in Items
  BY PendingItem DEF PullSingle, ControlInv
<1>2. TypeOK
  BY DEF ControlInv
<1>3. status \in StatusFiles
  BY <1>2 DEF TypeOK, StatusFiles
<1>4. "REJECTED" \in StatusStates \ {"NONE"}
  BY DEF StatusStates, JournalStates
<1>5. journal[i].state \in Done => journal[i].state \in StatusStates \ {"NONE"}
  BY DEF StatusStates, JournalStates, Done
<1>6. StatusWritten(i, "REJECTED") \in StatusFiles
  BY <1>1, <1>2, <1>4, StatusFact
<1>7. journal[i].state \in Done => StatusWritten(i, journal[i].state) \in StatusFiles
  BY <1>1, <1>2, <1>5, StatusFact
<1>8. /\ status' \in StatusFiles
      /\ agent' \in {[agent EXCEPT !.pc = "prune", !.item = i], [Calling("begin") EXCEPT !.item = i]}
  <2>1. CASE ~EndKnown(i)
    <3>1. \/ status' = StatusWritten(i, "REJECTED") /\ agent' = [agent EXCEPT !.pc = "prune", !.item = i]
          \/ status' = status /\ agent' = [Calling("begin") EXCEPT !.item = i]
      BY <2>1, Zenon DEF PullSingle
    <3>2. QED
      BY <1>3, <1>6, <3>1, Zenon
  <2>2. CASE EndKnown(i)
    <3> DEFINE known == status.id = i /\ status.state \in Done \cup {"REJECTED"}
    <3>1. /\ status' = IF known THEN status
                       ELSE StatusWritten(i, IF Complete(i) THEN journal[i].state ELSE "REJECTED")
          /\ agent' = [agent EXCEPT !.pc = "prune", !.item = i]
      BY <2>2, Zenon DEF PullSingle
    <3>2. known \/ journal[i].state \in Done
      BY <2>2 DEF EndKnown
    <3> HIDE DEF known
    <3>3. CASE known
      BY <1>3, <3>1, <3>3
    <3>4. CASE ~known
      <4>1. status' \in {StatusWritten(i, journal[i].state), StatusWritten(i, "REJECTED")}
        BY <3>1, <3>4
      <4>2. QED
        BY <1>6, <1>7, <3>1, <3>2, <3>4, <4>1
    <3>5. QED
      BY <3>3, <3>4
  <2>3. QED
    BY <2>1, <2>2
<1>9. agent' \in Agent /\ agent'.pc \in {"prune", "recover"} /\ agent'.item = i
  <2>1. agent \in Agent /\ i \in Content
    BY <1>1, <1>2, Constants DEF TypeOK
  <2>2. CASE agent' = [agent EXCEPT !.pc = "prune", !.item = i]
    BY <2>1, <2>2 DEF Agent, Pcs
  <2>3. CASE agent' = [Calling("begin") EXCEPT !.item = i]
    BY <2>1, <2>3 DEF Calling, Agent, Pcs
  <2>4. QED
    BY <1>8, <2>2, <2>3
<1>10. UNCHANGED <<journal, marks, config, staged, server, sent, commits, crashes>>
  BY Zenon DEF PullSingle
<1>11. TypeOK' /\ SameFiles
  BY <1>2, <1>8, <1>9, <1>10 DEF TypeOK, StatusFiles, SameFiles
<1>12. Sound'
  BY <1>11, SoundStep DEF ControlInv
<1>13. QED
  BY <1>1, <1>9, <1>11, <1>12, RestStep DEF Resting, Finishing

\* That of several namespaces makes a directory only if nothing requires recovery.
LEMMA PullMultiStep == ASSUME ControlInv, PullMulti PROVE ControlInv'
<1> DEFINE i == server.pending
<1>1. i \in Items
  BY PendingItem DEF PullMulti, ControlInv
<1>2. TypeOK
  BY DEF ControlInv
<1>3. status \in StatusFiles
  BY <1>2 DEF TypeOK, StatusFiles
<1>4. StatusWritten(i, "REJECTED") \in StatusFiles
  <2>1. "REJECTED" \in StatusStates \ {"NONE"}
    BY DEF StatusStates, JournalStates
  <2>2. QED
    BY <1>1, <1>2, <2>1, StatusFact
<1>5. /\ status' \in StatusFiles
      /\ \/ agent' = [agent EXCEPT !.pc = "prune", !.item = i]
         \/ agent' = [agent EXCEPT !.pc = "mkdir", !.item = i] /\ GenerationAllowed(i)
  BY <1>3, <1>4 DEF PullMulti
<1>6. agent' \in Agent /\ agent'.pc \in {"prune", "mkdir"} /\ agent'.item = i
  BY <1>1, <1>2, <1>5, Constants, ZenonT(30) DEF TypeOK, Agent, Pcs, Beginning
<1>7. agent'.pc = "mkdir" => NoRecoveryRequired
  BY <1>2, <1>5 DEF GenerationAllowed, TypeOK, Agent
<1>8. TypeOK' /\ SameFiles
  BY <1>2, <1>5, <1>6 DEF PullMulti, TypeOK, StatusFiles, SameFiles
<1>9. Sound'
  BY <1>8, SoundStep DEF ControlInv
<1>10. CASE agent'.pc = "prune"
  BY <1>8, <1>9, <1>10, RestStep DEF Resting, Finishing
<1>11. CASE agent'.pc = "mkdir"
  <2>1. Known' /\ AtWork' /\ LastPhase'
    BY <1>1, <1>6, <1>11 DEF Known, AtWork, LastPhase, pc, Applying, Beginning, Mutating,
       Verifying, Finishing, RecoveringOne
  <2>2. Fenced'
    BY <1>7, <1>8, <1>11 DEF Fenced, NoRecoveryRequired, SameFiles
  <2>3. QED
    BY <1>8, <1>9, <2>1, <2>2 DEF ControlInv
<1>12. QED
  BY <1>6, <1>10, <1>11

\* What unlinking leaves of an entry.
LEMMA UnlinkFact ==
    ASSUME TypeOK, Sound, NEW i \in Items, Unlink(i), journal[i].state \in Done
    PROVE  /\ journal' \in [Items -> Entry] /\ \A j \in Items : journal'[j].backup \in Backups(j)
           /\ \A j \in Items : j # i => journal'[j] = journal[j]
           /\ journal'[i].exists /\ journal'[i].state \in {"NONE", journal[i].state}
           /\ journal'[i].level <= journal[i].level
<1>1. PICK st \in {"NONE", journal[i].state}, l \in 0 .. journal[i].level :
        journal' = [journal EXCEPT ![i] = [@ EXCEPT !.state = st, !.level = l, !.backup = <<>>]]
  BY DEF Unlink
<1>2. /\ journal \in [Items -> Entry] /\ journal[i] \in Entry
      /\ \A j \in Items : journal[j].backup \in Backups(j)
  BY DEF TypeOK
<1>3. journal[i].exists
  BY DEF Sound, Done
<1>4. st \in JournalStates /\ l \in 0 .. 4 /\ l <= journal[i].level
  <2>1. journal[i].state \in JournalStates /\ journal[i].level \in 0 .. 4
    BY <1>2 DEF Entry
  <2>2. "NONE" \in JournalStates
    BY DEF JournalStates
  <2>3. QED
    BY <2>1, <2>2
<1>5. <<>> \in Backups(i)
  BY DEF Backups
<1>6. <<>> \in UNION {Backups(j) : j \in Items}
  BY <1>5
<1> DEFINE e == [journal[i] EXCEPT !.state = st, !.level = l, !.backup = <<>>]
<1>7. e \in Entry /\ e.exists /\ e.state = st /\ e.level = l /\ e.backup = <<>>
  BY <1>2, <1>3, <1>4, <1>6 DEF Entry
<1>8. journal' = [journal EXCEPT ![i] = e]
  BY <1>1
<1> HIDE DEF e
<1>9. QED
  BY <1>2, <1>4, <1>5, <1>7, <1>8

\* A directory is removed in two steps, and only one that is over.
LEMMA PruneStep == ASSUME ControlInv, Prune PROVE ControlInv'
<1>1. TypeOK /\ Sound /\ journal \in [Items -> Entry]
  BY DEF ControlInv, TypeOK
<1>2. CASE Goto("report") /\ UNCHANGED journal
  <2>1. agent' \in Agent /\ agent'.pc = "report"
    BY <1>1, <1>2, GotoFact DEF Pcs
  <2>2. QED
    BY <1>2, <2>1, RestStep, SoundStep
       DEF Prune, ControlInv, TypeOK, Resting, Finishing, SameFiles
<1>3. ASSUME NEW i \in Items, Prunable(i), Unlink(i),
             agent' = [agent EXCEPT !.pc = "rmdir", !.rec = i]
      PROVE  ControlInv'
  <2>1. agent' \in Agent /\ agent'.pc = "rmdir" /\ agent'.rec = i
    BY <1>1, <1>3, Constants DEF TypeOK, Agent, Pcs
  <2>2. /\ journal[i].state \in Done /\ i # marks.active
        /\ marks' = marks
    BY <1>3 DEF Prunable, Prune
  <2>3. /\ journal' \in [Items -> Entry] /\ \A j \in Items : journal'[j].backup \in Backups(j)
        /\ \A j \in Items : j # i => journal'[j] = journal[j]
        /\ journal'[i].exists /\ journal'[i].state \in {"NONE", journal[i].state}
    BY <1>1, <1>3, <2>2, UnlinkFact
  <2>4. TypeOK'
    BY <1>1, <2>1, <2>3 DEF Prune, TypeOK
  <2>5. marks.active \in Content
    BY <1>1 DEF TypeOK
  <2>6. Sound'
    BY <1>1, <2>2, <2>3, <2>5, Constants DEF Sound, HasSnapshot, InFlight, Done, Content, Items
  <2>7. QED
    BY <1>3, <2>1, <2>2, <2>3, <2>4, <2>6
       DEF ControlInv, Known, AtWork, Fenced, LastPhase, pc, Applying, Beginning, Mutating,
           Verifying, Finishing, RecoveringOne
<1>4. QED
  BY <1>2, <1>3 DEF Prune

\* The second step takes what is left.
LEMMA RemoveStep == ASSUME ControlInv, RemoveDirectory PROVE ControlInv'
<1>1. TypeOK /\ Sound /\ agent.rec \in Items /\ agent.rec # marks.active
  BY DEF ControlInv, RemoveDirectory, At, Known, AtWork, pc
<1>2. agent' \in Agent /\ agent'.pc = "prune"
  BY <1>1, GotoFact DEF RemoveDirectory, Pcs
<1>3. <<>> \in Backups(agent.rec)
  BY DEF Backups
<1>4. <<>> \in UNION {Backups(j) : j \in Items}
  BY <1>1, <1>3
<1>5. NoEntry \in Entry
  BY <1>4 DEF NoEntry, Entry, JournalStates
<1>6. journal' = [journal EXCEPT ![agent.rec] = NoEntry] /\ journal \in [Items -> Entry]
  BY DEF RemoveDirectory, ControlInv, TypeOK
<1>7. NoEntry.backup = <<>> /\ NoEntry.state = "NONE" /\ NoEntry.level = 0
  BY DEF NoEntry
<1>8. /\ journal' \in [Items -> Entry]
      /\ \A j \in Items : j # agent.rec => journal'[j] = journal[j]
      /\ journal'[agent.rec].backup = <<>> /\ journal'[agent.rec].state = "NONE"
      /\ journal'[agent.rec].level = 0
  BY <1>1, <1>5, <1>6, <1>7
<1>9. TypeOK'
  BY <1>1, <1>2, <1>3, <1>8 DEF RemoveDirectory, TypeOK
<1>10. marks' = marks /\ marks.active \in Content
  BY <1>1 DEF RemoveDirectory, TypeOK
<1>11. Sound'
  BY <1>1, <1>8, <1>10 DEF Sound, HasSnapshot, InFlight, Content, Items
<1>12. QED
  BY <1>2, <1>9, <1>11, RestStep DEF Resting, Finishing
-----------------------------------------------------------------------------
(* Recovery *)

\* Where a recovery that failed returns to.
LEMMA ReturnedNo ==
    ASSUME TypeOK, agent' = Returned(FALSE)
    PROVE  /\ agent' \in Agent /\ SameWork
           /\ agent'.pc \in {"report", "operation", "publish", "prune"}
           /\ agent.from = "boot" => agent'.pc = "report"
<1>1. agent \in Agent
  BY DEF TypeOK
<1>2. agent' = [agent EXCEPT !.failed = TRUE, !.pc = Returned(FALSE).pc]
  BY <1>1 DEF Returned, Agent
<1>3. /\ Returned(FALSE).pc \in {"report", "operation", "publish", "prune"}
      /\ agent.from = "boot" => Returned(FALSE).pc = "report"
  BY <1>1 DEF Returned, GiveUp, Agent
<1>4. QED
  BY <1>1, <1>2, <1>3 DEF Agent, SameWork, Pcs, Finishing

\* Where one that succeeded returns to.
LEMMA ReturnedYes ==
    ASSUME TypeOK, agent' = Returned(TRUE)
    PROVE  /\ agent' \in Agent /\ SameWork
           /\ agent'.pc \in {"report", "operation", "publish", "prune", "begin"}
           /\ agent.from = "boot" => agent'.pc = "report"
           /\ agent'.pc = "begin" => agent.from = "begin"
<1>1. agent \in Agent
  BY DEF TypeOK
<1>2. agent' = [agent EXCEPT !.failed = FALSE, !.pc = Returned(TRUE).pc]
  BY <1>1 DEF Returned, Agent
<1>3. /\ Returned(TRUE).pc \in {"report", "operation", "publish", "prune", "begin"}
      /\ agent.from = "boot" => Returned(TRUE).pc = "report"
      /\ Returned(TRUE).pc = "begin" => agent.from = "begin"
  BY <1>1 DEF Returned, GiveUp, Agent
<1>4. QED
  BY <1>1, <1>2, <1>3 DEF Agent, SameWork, Pcs, Finishing

\* The recovery goes on with one entry.
LEMMA RecoveringStep ==
    ASSUME ControlInv, pc = "recover", TypeOK', SameFiles, NEW i \in Items, journal[i].exists,
           NEW ph \in {"active", "scan", "last"}, agent' = Recovering(i, ph),
           ph = "last" => Unrecovered = {}
    PROVE  ControlInv'
<1>1. agent \in Agent
  BY DEF ControlInv, TypeOK
<1>2. /\ agent'.pc = "one" /\ agent'.rec = i /\ agent'.phase = ph
      /\ agent'.from = agent.from /\ agent'.item = agent.item
  BY <1>1 DEF Recovering, Agent
<1>3. Sound' /\ journal' = journal
  BY SoundStep DEF ControlInv, SameFiles
<1>4. agent.from # "boot" => agent.item \in Items
  BY DEF ControlInv, Known
<1>5. Unrecovered' = Unrecovered
  BY <1>3 DEF Unrecovered
<1>6. QED
  BY <1>2, <1>3, <1>4, <1>5 DEF ControlInv, Known, AtWork, Fenced, LastPhase, pc, Applying,
     Beginning, Mutating, Verifying, Finishing, RecoveringOne

\* A recovery that ends without success leaves no entry at work.
LEMMA FailedStep ==
    ASSUME ControlInv, pc \in {"recover"} \cup RecoveringOne, TypeOK', Sound',
           agent' = Returned(FALSE)
    PROVE  ControlInv'
<1>1. agent.from # "boot" => agent.item \in Items
  BY DEF ControlInv, Known
<1>2. QED
  BY <1>1, ReturnedNo, RestStep DEF ControlInv, SameWork, Resting, Finishing

\* One that succeeds returns when every entry is over.
LEMMA SucceededStep ==
    ASSUME ControlInv, pc \in {"recover"} \cup RecoveringOne, TypeOK', SameFiles,
           Unrecovered = {}, agent' = Returned(TRUE)
    PROVE  ControlInv'
<1>1. agent.from # "boot" => agent.item \in Items
  BY DEF ControlInv, Known
<1>2. Sound' /\ journal' = journal
  BY SoundStep DEF ControlInv, SameFiles
<1>3. TypeOK /\ SameWork
  BY ReturnedYes DEF ControlInv
<1>4. CASE agent'.pc # "begin"
  BY <1>1, <1>2, <1>3, <1>4, ReturnedYes, RestStep DEF SameWork, Resting, Finishing
<1>5. CASE agent'.pc = "begin"
  <2>1. \A i \in Items : journal[i].state # "RECOVERY_REQUIRED"
    BY DEF Unrecovered, Done, ControlInv, Sound
  <2>2. agent.item \in Items
    BY <1>1, <1>3, <1>5, ReturnedYes
  <2>3. QED
    BY <1>2, <1>3, <1>5, <2>1, <2>2 DEF ControlInv, SameWork, Known, AtWork, Fenced,
       LastPhase, pc, Applying, Beginning, Mutating, Verifying, Finishing, RecoveringOne
<1>6. QED
  BY <1>4, <1>5

\* transaction_recover_pending
LEMMA RecoverPendingStep == ASSUME ControlInv, RecoverPending PROVE ControlInv'
<1>1. TypeOK /\ Sound /\ pc = "recover" /\ SameFiles
  BY DEF ControlInv, RecoverPending, At, pc, SameFiles
<1>2. ASSUME Orphaned, status' = StatusWritten(status.id, "RECOVERY_REQUIRED"),
             agent' = Returned(FALSE)
      PROVE  ControlInv'
  <2>1. status.id \in Items
    <3>1. status.state # "NONE"
      BY <1>2 DEF Orphaned, InFlight
    <3>2. QED
      BY <1>1, <3>1, StatusType
  <2>2. "RECOVERY_REQUIRED" \in StatusStates \ {"NONE"}
    BY DEF StatusStates, JournalStates
  <2>3. status' \in StatusFiles
    BY <1>1, <1>2, <2>1, <2>2, StatusFact
  <2>4. TypeOK'
    BY <1>1, <1>2, <2>3, ReturnedNo DEF RecoverPending, TypeOK, StatusFiles
  <2>5. QED
    BY <1>1, <1>2, <2>4, SoundStep, FailedStep
<1>3. ASSUME status' = status, agent' \in Agent PROVE TypeOK'
  BY <1>1, <1>3 DEF RecoverPending, TypeOK
<1>4. ASSUME status' = status, agent' = Returned(FALSE) PROVE ControlInv'
  BY <1>1, <1>3, <1>4, ReturnedNo, SoundStep, FailedStep
<1>5. ASSUME status' = status, NEW i \in Items, journal[i].exists,
             NEW ph \in {"active", "scan", "last"}, agent' = Recovering(i, ph),
             ph = "last" => Unrecovered = {}
      PROVE  ControlInv'
  <2>1. agent' \in Agent
    BY <1>1, <1>5, Constants DEF Recovering, TypeOK, Agent, Pcs, RecoveringOne
  <2>2. QED
    BY <1>1, <1>3, <1>5, <2>1, RecoveringStep
<1>6. ASSUME status' = status, Unrecovered = {}, agent' = Returned(TRUE) PROVE ControlInv'
  BY <1>1, <1>3, <1>6, ReturnedYes, SucceededStep
<1>7. marks.active # 0 => marks.active \in Items /\ journal[marks.active].exists
  <2>1. marks.active \in Content
    BY <1>1 DEF TypeOK
  <2>2. QED
    BY <1>1, <2>1, Constants DEF Sound, Content, Items
<1>8. Unrecovered # {} => FirstOf(Unrecovered) \in Items /\ journal[FirstOf(Unrecovered)].exists
  <2>1. Unrecovered \subseteq Items
    BY DEF Unrecovered
  <2>2. Unrecovered # {} => FirstOf(Unrecovered) \in Unrecovered
    BY <2>1, FirstIn
  <2>3. QED
    BY <2>2 DEF Unrecovered
<1>9. Unpublished => Max(OverChangeSets) \in Items /\ journal[Max(OverChangeSets)].exists
  <2>1. OverChangeSets \subseteq Items
    BY DEF OverChangeSets
  <2>2. OverChangeSets # {} => Max(OverChangeSets) \in OverChangeSets
    BY <2>1, MaxIn
  <2>3. QED
    BY <1>1, <2>2 DEF OverChangeSets, Unpublished, Sound, Done
<1>10. \/ /\ Orphaned /\ status' = StatusWritten(status.id, "RECOVERY_REQUIRED")
          /\ agent' = Returned(FALSE)
       \/ /\ status' = status
          /\ \/ marks.active # 0 /\ agent' = Recovering(marks.active, "active")
             \/ Unrecovered # {} /\ agent' = Recovering(FirstOf(Unrecovered), "scan")
             \/ agent' = Returned(FALSE)
             \/ Unrecovered = {} /\ Unpublished /\ agent' = Recovering(Max(OverChangeSets), "last")
             \/ Unrecovered = {} /\ agent' = Returned(TRUE)
  BY Zenon DEF RecoverPending
<1>11. QED
  BY <1>2, <1>4, <1>5, <1>6, <1>7, <1>8, <1>9, <1>10

\* SetState changes the state of one entry.
OnlyState(i, s) ==
    /\ journal' \in [Items -> Entry] /\ \A j \in Items : journal'[j].backup \in Backups(j)
    /\ \A j \in Items : /\ journal'[j].exists = journal[j].exists
                        /\ journal'[j].level = journal[j].level
                        /\ journal'[j].backup = journal[j].backup
                        /\ j # i => journal'[j].state = journal[j].state
    /\ journal'[i].state = s

\* What SetState does, on entries of the right form.
LEMMA StateFact ==
    ASSUME TypeOK, NEW i \in Items, NEW s \in JournalStates, SetState(i, s)
    PROVE  OnlyState(i, s)
<1>1. journal \in [Items -> Entry] /\ \A j \in Items : journal[j].backup \in Backups(j)
  BY DEF TypeOK
<1>2. journal' = [journal EXCEPT ![i] = [journal[i] EXCEPT !.state = s]]
  BY <1>1 DEF SetState
<1> DEFINE e == [journal[i] EXCEPT !.state = s]
<1>3. /\ e \in Entry /\ e.state = s /\ e.exists = journal[i].exists
      /\ e.level = journal[i].level /\ e.backup = journal[i].backup
  BY <1>1 DEF Entry
<1>4. journal' = [journal EXCEPT ![i] = e]
  BY <1>2
<1> HIDE DEF e
<1>5. QED
  BY <1>1, <1>3, <1>4 DEF OnlyState

\* A new state keeps the journal sound if the entry is there and, in flight, has
\* its snapshot.
LEMMA StateSound ==
    ASSUME TypeOK, Sound, NEW i \in Items, NEW s, OnlyState(i, s), marks' = marks,
           journal[i].exists, s \in InFlight => HasSnapshot(i)
    PROVE  Sound'
<1>1. \A j \in Items : journal'[j].state # "NONE" \/ journal'[j].level > 0 => journal'[j].exists
  BY DEF Sound, OnlyState
<1>2. marks'.active # 0 => journal'[marks'.active].exists
  <2>1. marks.active \in Content
    BY DEF TypeOK
  <2>2. marks.active # 0 => marks.active \in Items
    BY <2>1, Constants DEF Content, Items
  <2>3. QED
    BY <2>2 DEF Sound, OnlyState
<1>3. ASSUME NEW j \in Items, journal'[j].state \in InFlight PROVE HasSnapshot(j)'
  <2>1. HasSnapshot(j)
    BY <1>3 DEF Sound, OnlyState
  <2>2. QED
    BY <2>1 DEF HasSnapshot, OnlyState
<1>4. QED
  BY <1>1, <1>2, <1>3 DEF Sound

\* The result of recovering one entry, when the files it leaves are sound.
LEMMA OneReturnedNo ==
    ASSUME ControlInv, pc \in RecoveringOne, TypeOK', Sound', agent' = OneReturned(FALSE)
    PROVE  ControlInv'
<1>1. agent' = Returned(FALSE)
  BY DEF OneReturned
<1>2. QED
  BY <1>1, FailedStep

\* After success the loop goes on, unless this was the last one.
LEMMA OneReturnedYes ==
    ASSUME ControlInv, pc \in RecoveringOne, TypeOK', SameFiles, agent' = OneReturned(TRUE)
    PROVE  ControlInv'
<1>1. CASE agent.phase # "last"
  <2>1. agent' = [agent EXCEPT !.pc = "recover", !.phase = "scan"]
    BY <1>1 DEF OneReturned
  <2>2. agent'.pc = "recover" /\ agent'.from = agent.from /\ agent'.item = agent.item
    BY <2>1 DEF ControlInv, TypeOK, Agent
  <2>3. agent.from # "boot" => agent.item \in Items
    BY DEF ControlInv, Known
  <2>4. Sound'
    BY SoundStep DEF ControlInv
  <2>5. QED
    BY <2>2, <2>3, <2>4, RestStep DEF Resting, Finishing
<1>2. CASE agent.phase = "last"
  <2>1. agent' = Returned(TRUE)
    BY <1>2 DEF OneReturned
  <2>2. Unrecovered = {}
    BY <1>2 DEF ControlInv, LastPhase
  <2>3. QED
    BY <2>1, <2>2, SucceededStep
<1>3. QED
  BY <1>1, <1>2

\* OneReturned gives a record of the right form.
LEMMA OneReturnedType ==
    ASSUME TypeOK, agent' = OneReturned(TRUE) \/ agent' = OneReturned(FALSE)
    PROVE  agent' \in Agent
<1>1. agent \in Agent
  BY DEF TypeOK
<1>2. CASE agent' = [agent EXCEPT !.pc = "recover", !.phase = "scan"]
  BY <1>1, <1>2 DEF Agent, Pcs
<1>3. CASE agent' = Returned(TRUE)
  BY <1>3, ReturnedYes
<1>4. CASE agent' = Returned(FALSE)
  BY <1>4, ReturnedNo
<1>5. QED
  BY <1>2, <1>3, <1>4 DEF OneReturned

\* The rest of the journal's own steps move to another place of the recovery.
LEMMA RecoveryMove ==
    ASSUME TypeOK, Known, pc \in RecoveringOne, NEW p \in RecoveringOne, TypeOK', Sound',
           agent'.pc = p, agent'.rec = agent.rec, agent'.from = agent.from,
           agent'.item = agent.item, agent'.phase = agent.phase, journal'[agent.rec].exists,
           p \in {"rollback", "restore"} => journal'[agent.rec].state \in InFlight,
           p = "restore" => agent'.left \subseteq Touches[agent.rec],
           p = "forget" => journal'[agent.rec].state = "RESTORED",
           agent.phase = "last" => Unrecovered' = {} /\ p \in {"one", "markStatus", "markState"}
    PROVE  ControlInv'
BY DEF ControlInv, Known, AtWork, Fenced, LastPhase, pc, Applying, Beginning, Mutating, Verifying,
   Finishing, RecoveringOne

\* A move that leaves journal and markers.
LEMMA StayMove ==
    ASSUME ControlInv, pc \in RecoveringOne, NEW p \in {"rollback", "announce", "markStatus", "markState"},
           TypeOK', SameFiles, agent'.pc = p, SameWork,
           p = "rollback" => journal[agent.rec].state \in InFlight,
           agent.phase = "last" => p \in {"markStatus", "markState"}
    PROVE  ControlInv'
<1>1. Sound' /\ journal' = journal
  BY SoundStep DEF ControlInv, SameFiles
<1>2. journal[agent.rec].exists
  BY DEF ControlInv, AtWork
<1>3. agent.phase = "last" => Unrecovered' = {}
  BY <1>1 DEF ControlInv, LastPhase, Unrecovered
<1>4. p \in RecoveringOne
  BY DEF RecoveringOne
<1>5. QED
  BY <1>1, <1>2, <1>3, <1>4, RecoveryMove DEF ControlInv, SameWork

\* transaction_recover_one
LEMMA RecoverOneStep == ASSUME ControlInv, RecoverOne PROVE ControlInv'
<1> DEFINE i == agent.rec
<1>1. /\ TypeOK /\ Sound /\ Known /\ pc = "one" /\ pc \in RecoveringOne /\ i \in Items
      /\ journal[i].exists
  BY DEF ControlInv, RecoverOne, At, pc, Known, AtWork, RecoveringOne
<1>2. UNCHANGED <<config, staged, server, sent, commits, crashes>>
  BY DEF RecoverOne
<1>3. journal[i].state \in InFlight => agent.phase # "last"
  BY <1>1 DEF ControlInv, LastPhase, Unrecovered, Done, InFlight
<1>4. ASSUME NEW s \in StatusStates \ {"NONE"} PROVE StatusWritten(i, s) \in StatusFiles
  BY <1>1, StatusFact
<1>5. status \in StatusFiles
  BY <1>1 DEF TypeOK, StatusFiles
<1>6. journal[i].state \in Done => journal[i].state \in StatusStates \ {"NONE"}
  BY DEF StatusStates, JournalStates, Done
<1>7. {"RECOVERY_REQUIRED", "ROLLING_BACK"} \subseteq StatusStates \ {"NONE"}
  BY DEF StatusStates, JournalStates, InFlight
<1>8. ASSUME Goto("markStatus"), UNCHANGED <<journal, marks, status>> PROVE ControlInv'
  <2>1. agent' \in Agent /\ agent'.pc = "markStatus" /\ SameWork
    BY <1>1, <1>8, GotoFact DEF Pcs, RecoveringOne
  <2>2. TypeOK' /\ SameFiles
    BY <1>1, <1>2, <1>8, <2>1 DEF TypeOK, SameFiles
  <2>3. QED
    BY <1>1, <2>1, <2>2, StayMove
<1>9. CASE RecoverDone(i)
  <2>1. status' \in StatusFiles /\ journal' = journal
    BY <1>4, <1>5, <1>6, <1>9 DEF RecoverDone
  <2>2. marks' \in {marks, [marks EXCEPT !.active = IF @ = i THEN 0 ELSE @]}
    BY <1>9 DEF RecoverDone
  <2>3. /\ marks' \in [active : Content, last : Content, operation : Content]
        /\ marks'.active \in {marks.active, 0}
    BY <1>1, <2>2, Constants DEF TypeOK
  <2>4. agent' = OneReturned(TRUE) \/ agent' = OneReturned(FALSE)
    BY <1>9 DEF RecoverDone
  <2>5. TypeOK' /\ SameFiles
    BY <1>1, <1>2, <2>1, <2>3, <2>4, OneReturnedType DEF TypeOK, SameFiles, StatusFiles
  <2>6. Sound'
    BY <1>1, <2>5, SoundStep
  <2>7. QED
    BY <1>1, <2>4, <2>5, <2>6, OneReturnedYes, OneReturnedNo
<1>10. CASE RecoverRefused(i)
  <2>1. status' \in StatusFiles /\ journal' = journal /\ marks' = marks
    BY <1>4, <1>5, <1>7, <1>10 DEF RecoverRefused
  <2>2. agent' = OneReturned(FALSE)
    BY <1>10 DEF RecoverRefused
  <2>3. TypeOK' /\ SameFiles
    BY <1>1, <1>2, <2>1, <2>2, OneReturnedType DEF TypeOK, SameFiles, StatusFiles
  <2>4. Sound'
    BY <1>1, <2>3, SoundStep
  <2>5. QED
    BY <1>1, <2>2, <2>3, <2>4, OneReturnedNo
<1>11. CASE RecoverInFlight(i)
  <2>1. journal[i].state \in InFlight /\ marks' = marks /\ HasSnapshot(i)
    BY <1>1, <1>11 DEF RecoverInFlight, Sound
  <2>2. CASE Kind[i] = "single"
    <3>1. status' \in StatusFiles /\ journal' = journal
      BY <1>4, <1>7, <1>11, <2>2 DEF RecoverInFlight
    <3>2. PICK p \in {"rollback", "markState"} : Goto(p)
      BY <1>11, <2>2 DEF RecoverInFlight
    <3>3. agent' \in Agent /\ agent'.pc = p /\ SameWork
      BY <1>1, <3>2, GotoFact DEF Pcs, RecoveringOne
    <3>4. TypeOK' /\ SameFiles
      BY <1>1, <1>2, <2>1, <3>1, <3>3 DEF TypeOK, SameFiles, StatusFiles
    <3>5. QED
      BY <1>1, <1>3, <2>1, <3>3, <3>4, StayMove
  <2>3. CASE Kind[i] # "single"
    <3>1. /\ SetState(i, "ROLLING_BACK") /\ status' = status
          /\ agent' = [agent EXCEPT !.pc = "restore", !.left = Touches[i]]
      BY <1>11, <2>3 DEF RecoverInFlight
    <3>2. OnlyState(i, "ROLLING_BACK")
      BY <1>1, <3>1, StateFact DEF JournalStates, InFlight
    <3>3. /\ agent' \in Agent /\ agent'.pc = "restore" /\ agent'.left = Touches[i]
          /\ agent'.rec = agent.rec /\ agent'.from = agent.from /\ agent'.item = agent.item
          /\ agent'.phase = agent.phase
      BY <1>1, <3>1, Constants DEF TypeOK, Agent, Pcs, RecoveringOne
    <3>4. TypeOK'
      BY <1>1, <1>2, <2>1, <3>1, <3>2, <3>3 DEF TypeOK, OnlyState
    <3>5. Sound'
      BY <1>1, <2>1, <3>2, StateSound
    <3>6. "restore" \in RecoveringOne /\ "ROLLING_BACK" \in InFlight
      BY DEF RecoveringOne, InFlight
    <3>7. QED
      BY <1>1, <1>3, <2>1, <3>2, <3>3, <3>4, <3>5, <3>6, RecoveryMove DEF OnlyState
  <2>4. QED
    BY <2>2, <2>3
<1>12. QED
  BY <1>8, <1>9, <1>10, <1>11 DEF RecoverOne

\* What the steps of recovering one entry have in common.
LEMMA AtRecovery ==
    ASSUME ControlInv, pc \in RecoveringOne
    PROVE  TypeOK /\ Sound /\ Known /\ agent.rec \in Items /\ journal[agent.rec].exists
BY DEF ControlInv, Known, AtWork

\* The process works on something only while it recovers entries that are not the
\* last.
LEMMA NotLast ==
    ASSUME ControlInv, pc \in {"rollback", "restore", "forget", "recordLast", "announce"}
    PROVE  agent.phase # "last"
BY DEF ControlInv, LastPhase, RecoveringOne

\* ROLLING_BACK is written in the journal.
LEMMA RollingBackStep == ASSUME ControlInv, RollingBack PROVE ControlInv'
<1> DEFINE i == agent.rec
<1>1. pc = "rollback" /\ pc \in RecoveringOne
  BY DEF RollingBack, At, pc, RecoveringOne
<1>2. TypeOK /\ Sound /\ Known /\ i \in Items /\ journal[i].exists
  BY <1>1, AtRecovery
<1>3. agent.phase # "last"
  BY <1>1, NotLast
<1>4. HasSnapshot(i)
  BY <1>1, <1>2 DEF ControlInv, AtWork, Sound
<1>5. /\ SetState(i, "ROLLING_BACK") /\ marks' = marks
      /\ agent' = [agent EXCEPT !.pc = "restore", !.left = Touches[i]]
  BY DEF RollingBack
<1>6. OnlyState(i, "ROLLING_BACK")
  BY <1>2, <1>5, StateFact DEF JournalStates, InFlight
<1>7. /\ agent' \in Agent /\ agent'.pc = "restore" /\ agent'.left = Touches[i]
      /\ agent'.rec = agent.rec /\ agent'.from = agent.from /\ agent'.item = agent.item
      /\ agent'.phase = agent.phase
  BY <1>2, <1>5, Constants DEF TypeOK, Agent, Pcs, RecoveringOne
<1>8. TypeOK'
  BY <1>2, <1>6, <1>7 DEF RollingBack, TypeOK, OnlyState
<1>9. Sound'
  BY <1>2, <1>4, <1>5, <1>6, StateSound
<1>10. "restore" \in RecoveringOne /\ "ROLLING_BACK" \in InFlight
  BY DEF RecoveringOne, InFlight
<1>11. QED
  BY <1>1, <1>2, <1>3, <1>6, <1>7, <1>8, <1>9, <1>10, RecoveryMove DEF OnlyState

\* What Restore does to the files: a namespace of the entry gets its snapshot.
LEMMA RestoreFact ==
    ASSUME ControlInv, Restore
    PROVE  /\ pc = "restore" /\ agent.rec \in Items /\ HasSnapshot(agent.rec)
           /\ Min(agent.left) \in agent.left /\ Min(agent.left) \in Touches[agent.rec]
           /\ config' \in [Namespaces -> Content] /\ staged' \in [Namespaces -> Content]
           /\ config' = [config EXCEPT ![Min(agent.left)] = journal[agent.rec].backup[Min(agent.left)]]
           /\ staged' = [staged EXCEPT ![Min(agent.left)] = 0]
<1>1. pc = "restore" /\ pc \in RecoveringOne /\ agent.left # {}
  BY DEF Restore, At, pc, RecoveringOne
<1>2. TypeOK /\ Sound /\ agent.rec \in Items
  BY <1>1, AtRecovery
<1>3. agent.left \subseteq Touches[agent.rec] /\ journal[agent.rec].state \in InFlight
  BY <1>1 DEF ControlInv, AtWork
<1>4. HasSnapshot(agent.rec)
  BY <1>2, <1>3 DEF Sound
<1>5. Min(agent.left) \in agent.left
  BY <1>1, <1>2, <1>3, Constants, MinIn
<1>6. /\ config' = [config EXCEPT ![Min(agent.left)] = journal[agent.rec].backup[Min(agent.left)]]
      /\ staged' = [staged EXCEPT ![Min(agent.left)] = 0]
  BY DEF Restore
<1>7. journal[agent.rec].backup[Min(agent.left)] \in Content
  BY <1>3, <1>4, <1>5 DEF HasSnapshot, IsSnapshot
<1>8. config \in [Namespaces -> Content] /\ staged \in [Namespaces -> Content]
  BY <1>2 DEF TypeOK
<1>9. config' \in [Namespaces -> Content]
  BY <1>6, <1>7, <1>8
<1>10. staged' \in [Namespaces -> Content]
  BY <1>6, <1>8, Constants
<1>11. QED
  BY <1>1, <1>2, <1>3, <1>4, <1>5, <1>6, <1>9, <1>10

\* One namespace is restored, or the restoration fails.
LEMMA RestoreStep == ASSUME ControlInv, Restore PROVE ControlInv'
<1> DEFINE i == agent.rec
<1>1. pc = "restore" /\ pc \in RecoveringOne
  BY DEF Restore, At, pc, RecoveringOne
<1>2. TypeOK /\ Sound /\ Known /\ i \in Items /\ journal[i].exists
  BY <1>1, AtRecovery
<1>3. agent.phase # "last" /\ journal[i].state \in InFlight /\ agent.left \subseteq Touches[i]
  BY <1>1, NotLast DEF ControlInv, AtWork
<1>4. config' \in [Namespaces -> Content] /\ staged' \in [Namespaces -> Content]
  BY RestoreFact
<1>5. UNCHANGED <<journal, marks, status, server, sent, commits, crashes>>
  BY DEF Restore
<1>6. ASSUME agent' \in Agent PROVE TypeOK'
  BY <1>2, <1>4, <1>5, <1>6 DEF TypeOK
<1>7. Sound' /\ SameFiles
  BY <1>2, <1>5, SoundStep DEF SameFiles
<1>8. ASSUME NEW n, agent' = [agent EXCEPT !.left = @ \ {n}] PROVE ControlInv'
  <2>1. /\ agent' \in Agent /\ agent'.pc = "restore" /\ agent'.left \subseteq Touches[i]
        /\ agent'.rec = agent.rec /\ agent'.from = agent.from /\ agent'.item = agent.item
        /\ agent'.phase = agent.phase
    BY <1>1, <1>2, <1>3, <1>8 DEF TypeOK, Agent, pc
  <2>2. journal'[i].exists /\ journal'[i].state \in InFlight
    BY <1>2, <1>3, <1>5
  <2>3. "restore" \in RecoveringOne
    BY DEF RecoveringOne
  <2>4. QED
    BY <1>1, <1>2, <1>3, <1>6, <1>7, <2>1, <2>2, <2>3, RecoveryMove
<1>9. ASSUME NEW p \in {"markStatus", "markState"}, Goto(p) PROVE ControlInv'
  <2>1. agent' \in Agent /\ agent'.pc = p /\ SameWork
    BY <1>2, <1>9, GotoFact DEF Pcs, RecoveringOne
  <2>2. QED
    BY <1>1, <1>3, <1>6, <1>7, <2>1, StayMove
<1>10. \/ agent' = [agent EXCEPT !.left = @ \ {Min(agent.left)}]
       \/ Goto("markStatus") \/ Goto("markState")
  BY DEF Restore
<1>11. QED
  BY <1>8, <1>9, <1>10

\* RESTORED is written in the journal.
LEMMA RestoredStep == ASSUME ControlInv, Restored PROVE ControlInv'
<1> DEFINE i == agent.rec
<1>1. pc = "restore" /\ pc \in RecoveringOne
  BY DEF Restored, At, pc, RecoveringOne
<1>2. TypeOK /\ Sound /\ Known /\ i \in Items /\ journal[i].exists
  BY <1>1, AtRecovery
<1>3. agent.phase # "last"
  BY <1>1, NotLast
<1>4. OnlyState(i, "RESTORED")
  BY <1>2, StateFact DEF Restored, JournalStates, Done
<1>5. agent' \in Agent /\ agent'.pc = "forget" /\ SameWork
  BY <1>2, GotoFact DEF Restored, Pcs, RecoveringOne
<1>6. TypeOK'
  BY <1>2, <1>4, <1>5 DEF Restored, TypeOK, OnlyState
<1>7. Sound'
  BY <1>2, <1>4, StateSound DEF Restored, InFlight
<1>8. "forget" \in RecoveringOne
  BY DEF RecoveringOne
<1>9. QED
  BY <1>1, <1>2, <1>3, <1>4, <1>5, <1>6, <1>7, <1>8, RecoveryMove DEF OnlyState, SameWork

\* The entry of a finished attempt loses its snapshot.
OnlyBackup(i) ==
    /\ journal' \in [Items -> Entry] /\ \A j \in Items : journal'[j].backup \in Backups(j)
    /\ \A j \in Items : /\ journal'[j].exists = journal[j].exists
                        /\ journal'[j].level = journal[j].level
                        /\ journal'[j].state = journal[j].state
                        /\ j # i => journal'[j].backup = journal[j].backup

\* What dropping a snapshot does, on entries of the right form.
LEMMA BackupFact ==
    ASSUME TypeOK, NEW i \in Items, journal' = [journal EXCEPT ![i].backup = <<>>]
    PROVE  OnlyBackup(i)
<1>1. journal \in [Items -> Entry] /\ \A j \in Items : journal[j].backup \in Backups(j)
  BY DEF TypeOK
<1>2. <<>> \in Backups(i)
  BY DEF Backups
<1>3. <<>> \in UNION {Backups(j) : j \in Items}
  BY <1>2
<1> DEFINE e == [journal[i] EXCEPT !.backup = <<>>]
<1>4. /\ e \in Entry /\ e.state = journal[i].state /\ e.exists = journal[i].exists
      /\ e.level = journal[i].level /\ e.backup = <<>>
  BY <1>1, <1>3 DEF Entry
<1>5. journal' = [journal EXCEPT ![i] = e]
  BY <1>1
<1> HIDE DEF e
<1>6. QED
  BY <1>1, <1>2, <1>4, <1>5 DEF OnlyBackup

\* The snapshot of an entry that is over is not missed.
LEMMA BackupSound ==
    ASSUME TypeOK, Sound, NEW i \in Items, OnlyBackup(i), journal[i].state \in Done,
           marks'.active \in {marks.active, 0}
    PROVE  Sound'
<1>1. \A j \in Items : journal'[j].state # "NONE" \/ journal'[j].level > 0 => journal'[j].exists
  BY DEF Sound, OnlyBackup
<1>2. marks'.active # 0 => journal'[marks'.active].exists
  <2>1. marks.active \in Content
    BY DEF TypeOK
  <2>2. marks.active # 0 => marks.active \in Items
    BY <2>1, Constants DEF Content, Items
  <2>3. QED
    BY <2>2 DEF Sound, OnlyBackup
<1>3. ASSUME NEW j \in Items, journal'[j].state \in InFlight PROVE HasSnapshot(j)'
  <2>1. HasSnapshot(j) /\ j # i
    BY <1>3 DEF Sound, OnlyBackup, InFlight, Done
  <2>2. QED
    BY <2>1 DEF HasSnapshot, OnlyBackup
<1>4. QED
  BY <1>1, <1>2, <1>3 DEF Sound

MarkFiles == [active : Content, last : Content, operation : Content]

\* The marker and the snapshot of a restored entry go.
LEMMA ForgetStep == ASSUME ControlInv, Forget PROVE ControlInv'
<1> DEFINE i == agent.rec
<1>1. pc = "forget" /\ pc \in RecoveringOne
  BY DEF Forget, At, pc, RecoveringOne
<1>2. TypeOK /\ Sound /\ Known /\ i \in Items /\ journal[i].exists
  BY <1>1, AtRecovery
<1>3. agent.phase # "last" /\ journal[i].state \in Done
  BY <1>1, NotLast DEF ControlInv, AtWork, Done
<1>4. OnlyBackup(i)
  BY <1>2, BackupFact DEF Forget
<1>5. agent' \in Agent /\ agent'.pc = "recordLast" /\ SameWork
  BY <1>2, GotoFact DEF Forget, Pcs, RecoveringOne
<1>6. marks' \in MarkFiles /\ marks'.active \in {marks.active, 0}
  BY <1>2, Constants DEF Forget, TypeOK, MarkFiles
<1>7. TypeOK'
  BY <1>2, <1>4, <1>5, <1>6 DEF Forget, TypeOK, OnlyBackup, MarkFiles
<1>8. Sound'
  BY <1>2, <1>3, <1>4, <1>6, BackupSound
<1>9. "recordLast" \in RecoveringOne
  BY DEF RecoveringOne
<1>10. QED
  BY <1>1, <1>2, <1>3, <1>4, <1>5, <1>7, <1>8, <1>9, RecoveryMove DEF OnlyBackup, SameWork

\* Then the entry is recorded as the last one.
LEMMA RecordLastStep == ASSUME ControlInv, RecordLast PROVE ControlInv'
<1>1. pc = "recordLast" /\ pc \in RecoveringOne
  BY DEF RecordLast, At, pc, RecoveringOne
<1>2. TypeOK /\ agent.rec \in Content /\ agent.phase # "last"
  BY <1>1, AtRecovery, NotLast, Constants
<1>3. agent' \in Agent /\ agent'.pc = "announce" /\ SameWork
  BY <1>2, GotoFact DEF RecordLast, Pcs, RecoveringOne
<1>4. marks' \in MarkFiles /\ marks'.active = marks.active
  BY <1>2 DEF RecordLast, TypeOK, MarkFiles
<1>5. TypeOK' /\ SameFiles
  BY <1>2, <1>3, <1>4 DEF RecordLast, TypeOK, SameFiles, MarkFiles
<1>6. QED
  BY <1>1, <1>2, <1>3, <1>5, StayMove

\* Its end is announced, in one status file or the other.
LEMMA AnnounceStep == ASSUME ControlInv, Announce PROVE ControlInv'
<1> DEFINE i == agent.rec
<1>1. pc = "announce" /\ pc \in RecoveringOne
  BY DEF Announce, At, pc, RecoveringOne
<1>2. TypeOK /\ Sound /\ i \in Items /\ i \in Content
  BY <1>1, AtRecovery, Constants
<1>3. "RESTORED" \in StatusStates \ {"NONE"}
  BY DEF StatusStates, JournalStates, Done
<1>4. StatusWritten(i, "RESTORED") \in StatusFiles /\ status \in StatusFiles
  BY <1>2, <1>3, StatusFact DEF TypeOK, StatusFiles
<1>5. /\ status' \in StatusFiles
      /\ marks' \in {marks, [marks EXCEPT !.operation = i]}
      /\ agent' = OneReturned(TRUE) \/ agent' = OneReturned(FALSE)
  <2>1. CASE Kind[i] = "operation"
    BY <1>4, <2>1 DEF Announce
  <2>2. CASE Kind[i] # "operation"
    <3>1. /\ status' = StatusWritten(i, "RESTORED") /\ marks' = marks
          /\ agent' = OneReturned(StatusAllowed(i, "RESTORED"))
      BY <2>2 DEF Announce
    <3>2. StatusAllowed(i, "RESTORED") \in BOOLEAN
      BY DEF StatusAllowed
    <3>3. QED
      BY <1>4, <3>1, <3>2
  <2>3. QED
    BY <2>1, <2>2
<1>6. marks' \in MarkFiles /\ marks'.active = marks.active
  BY <1>2, <1>5 DEF TypeOK, MarkFiles
<1>7. TypeOK' /\ SameFiles
  BY <1>2, <1>5, <1>6, OneReturnedType DEF Announce, TypeOK, SameFiles, MarkFiles, StatusFiles
<1>8. Sound'
  BY <1>2, <1>7, SoundStep
<1>9. QED
  BY <1>1, <1>5, <1>7, <1>8, OneReturnedYes, OneReturnedNo

\* An entry that cannot be recovered: first the status says so.
LEMMA MarkStatusStep == ASSUME ControlInv, MarkStatus PROVE ControlInv'
<1>1. pc = "markStatus" /\ pc \in RecoveringOne
  BY DEF MarkStatus, At, pc, RecoveringOne
<1>2. TypeOK /\ agent.rec \in Items
  BY <1>1, AtRecovery
<1>3. "RECOVERY_REQUIRED" \in StatusStates \ {"NONE"}
  BY DEF StatusStates, JournalStates
<1>4. StatusWritten(agent.rec, "RECOVERY_REQUIRED") \in StatusFiles /\ status \in StatusFiles
  BY <1>2, <1>3, StatusFact DEF TypeOK, StatusFiles
<1>5. agent' \in Agent /\ agent'.pc = "markState" /\ SameWork
  BY <1>2, GotoFact DEF MarkStatus, Pcs, RecoveringOne
<1>6. status' \in StatusFiles
  BY <1>4 DEF MarkStatus
<1>7. TypeOK' /\ SameFiles
  BY <1>2, <1>5, <1>6 DEF MarkStatus, TypeOK, SameFiles, StatusFiles
<1>8. QED
  BY <1>1, <1>5, <1>7, StayMove

\* Then the journal.
LEMMA MarkStateStep == ASSUME ControlInv, MarkState PROVE ControlInv'
<1>1. pc = "markState" /\ pc \in RecoveringOne
  BY DEF MarkState, At, pc, RecoveringOne
<1>2. TypeOK /\ Sound /\ agent.rec \in Items /\ journal[agent.rec].exists
  BY <1>1, AtRecovery
<1>3. OnlyState(agent.rec, "RECOVERY_REQUIRED")
  BY <1>2, StateFact DEF MarkState, JournalStates
<1>4. agent' = OneReturned(FALSE)
  BY DEF MarkState
<1>5. TypeOK'
  BY <1>2, <1>3, <1>4, OneReturnedType DEF MarkState, TypeOK, OnlyState
<1>6. Sound'
  BY <1>2, <1>3, StateSound DEF MarkState, InFlight
<1>7. QED
  BY <1>1, <1>4, <1>5, <1>6, OneReturnedNo
-----------------------------------------------------------------------------
(* Applying an item *)

\* What the steps of applying an item have in common.
LEMMA AtApply ==
    ASSUME ControlInv, pc \in {"begin"} \cup Applying
    PROVE  /\ TypeOK /\ Sound /\ agent.item \in Items /\ agent.item \in Content
           /\ \A j \in Items : journal[j].state # "RECOVERY_REQUIRED"
BY Constants DEF ControlInv, Known, Fenced

\* A step to a place of applying an item.
LEMMA ApplyMove ==
    ASSUME TypeOK', Sound', NEW p \in Applying, agent'.pc = p, agent'.item \in Items,
           \A j \in Items : journal'[j].state # "RECOVERY_REQUIRED",
           p = "journal" => /\ journal'[agent'.item].exists
                            /\ journal'[agent'.item].level >= 1 => HasSnapshot(agent.item)',
           p \in Applying \ {"mkdir", "journal"} => journal'[agent'.item].state \in InFlight,
           p \in Mutating => agent'.left # {} /\ agent'.left \subseteq Touches[agent'.item]
    PROVE  ControlInv'
<1>1. pc' = p /\ p \notin RecoveringOne /\ p \notin {"deactivate", "rmdir", "recover"}
  BY DEF pc, Applying, Beginning, Mutating, Verifying, RecoveringOne
<1>2. Known' /\ Fenced' /\ LastPhase'
  BY <1>1 DEF Known, Fenced, LastPhase
<1>3. AtWork'
  BY <1>1 DEF AtWork, RecoveringOne
<1>4. QED
  BY <1>2, <1>3 DEF ControlInv

\* One that leaves journal and markers.
LEMMA ApplyStay ==
    ASSUME ControlInv, pc \in Applying \ {"mkdir", "journal"}, TypeOK', SameFiles,
           NEW p \in Applying \ {"mkdir", "journal"}, agent'.pc = p, agent'.item = agent.item,
           p \in Mutating => agent'.left # {} /\ agent'.left \subseteq Touches[agent'.item]
    PROVE  ControlInv'
<1>1. /\ Sound /\ agent.item \in Items
      /\ \A j \in Items : journal[j].state # "RECOVERY_REQUIRED"
  BY AtApply
<1>2. journal[agent.item].state \in InFlight
  BY DEF ControlInv, AtWork
<1>3. Sound' /\ journal' = journal
  BY <1>1, SoundStep DEF SameFiles
<1>4. p \in Applying /\ p # "journal"
  OBVIOUS
<1>5. QED
  BY <1>1, <1>2, <1>3, <1>4, ApplyMove

\* A step of applying that gives up or calls the recovery.
LEMMA ApplyEnds ==
    ASSUME ControlInv, pc \in {"begin"} \cup Applying \cup Finishing, TypeOK', Sound',
           agent'.pc \in Resting, agent'.item = agent.item
    PROVE  ControlInv'
<1>1. agent.item \in Items
  BY DEF ControlInv, Known
<1>2. QED
  BY <1>1, RestStep

\* Where an attempt ends that has failed.
LEMMA GiveUpFact == GiveUp \in {"publish", "prune"} /\ {"publish", "prune"} \subseteq Pcs \cap Resting
BY DEF GiveUp, Pcs, Finishing, Resting

\* The recovery is called with the item at hand.
LEMMA CallingFact ==
    ASSUME TypeOK, NEW f \in {"stage", "verify"}, agent' = Calling(f)
    PROVE  agent' \in Agent /\ agent'.pc = "recover" /\ agent'.item = agent.item
BY DEF TypeOK, Calling, Agent, Pcs

\* Staging starts with all namespaces of the item.
LEMMA StagingFact ==
    ASSUME TypeOK, agent.item \in Items, agent' = StagingFrom
    PROVE  /\ agent' \in Agent /\ agent'.pc = "stage" /\ agent'.item = agent.item
           /\ agent'.left = Touches[agent.item]
<1>1. Touches[agent.item] \subseteq Namespaces
  BY Constants
<1>2. QED
  BY <1>1 DEF TypeOK, StagingFrom, Agent, Pcs, Mutating

\* The snapshot has the configuration's content.
LEMMA SnapshotFact ==
    ASSUME TypeOK, NEW i \in Items
    PROVE  /\ IsSnapshot(i, Snapshot(i)) /\ Snapshot(i) \in Backups(i)
           /\ Snapshot(i) \in UNION {Backups(j) : j \in Items}
           /\ \A n \in Touches[i] : Snapshot(i)[n] = config[n]
<1>1. Touches[i] \subseteq Namespaces
  BY Constants
<1>2. config \in [Namespaces -> Content]
  BY DEF TypeOK
<1>3. IsSnapshot(i, Snapshot(i))
  BY <1>1, <1>2 DEF IsSnapshot, Snapshot
<1>4. Snapshot(i) \in Backups(i)
  BY <1>3 DEF IsSnapshot, Backups
<1>5. \A n \in Touches[i] : Snapshot(i)[n] = config[n]
  BY DEF Snapshot
<1>6. QED
  BY <1>3, <1>4, <1>5

\* An entry is replaced.
OnlyEntry(i, e) ==
    /\ journal' \in [Items -> Entry] /\ \A j \in Items : journal'[j].backup \in Backups(j)
    /\ \A j \in Items : j # i => journal'[j] = journal[j]
    /\ journal'[i] = e

\* By one of the right form.
LEMMA EntryFact ==
    ASSUME TypeOK, NEW i \in Items, NEW e \in Entry, e.backup \in Backups(i),
           journal' = [journal EXCEPT ![i] = e]
    PROVE  OnlyEntry(i, e)
<1>1. journal \in [Items -> Entry] /\ \A j \in Items : journal[j].backup \in Backups(j)
  BY DEF TypeOK
<1>2. QED
  BY <1>1 DEF OnlyEntry

\* A new entry keeps the journal sound if its directory is there and, in flight, it
\* has a snapshot.
LEMMA EntrySound ==
    ASSUME TypeOK, Sound, NEW i \in Items, NEW e, OnlyEntry(i, e), marks' = marks,
           e.exists, e.state \in InFlight => IsSnapshot(i, e.backup)
    PROVE  Sound'
<1>1. \A j \in Items : journal'[j].state # "NONE" \/ journal'[j].level > 0 => journal'[j].exists
  BY DEF Sound, OnlyEntry
<1>2. marks'.active # 0 => journal'[marks'.active].exists
  <2>1. marks.active \in Content
    BY DEF TypeOK
  <2>2. marks.active # 0 => marks.active \in Items
    BY <2>1, Constants DEF Content, Items
  <2>3. QED
    BY <2>2 DEF Sound, OnlyEntry
<1>3. ASSUME NEW j \in Items, journal'[j].state \in InFlight PROVE HasSnapshot(j)'
  <2>1. CASE j = i
    BY <1>3, <2>1 DEF HasSnapshot, OnlyEntry
  <2>2. CASE j # i
    <3>1. HasSnapshot(j)
      BY <1>3, <2>2 DEF Sound, OnlyEntry
    <3>2. QED
      BY <2>2, <3>1 DEF HasSnapshot, OnlyEntry
  <2>3. QED
    BY <2>1, <2>2
<1>4. QED
  BY <1>1, <1>2, <1>3 DEF Sound

\* The transaction begins, or ends at once.
LEMMA BeginStep == ASSUME ControlInv, Begin PROVE ControlInv'
<1> DEFINE i == agent.item
<1>1. pc = "begin"
  BY DEF Begin, At, pc
<1>2. /\ TypeOK /\ Sound /\ i \in Items
      /\ \A j \in Items : journal[j].state # "RECOVERY_REQUIRED"
  BY <1>1, AtApply
<1>3. UNCHANGED <<marks, status, config, staged, server, sent, commits, crashes>>
  BY DEF Begin
<1>4. ASSUME NEW p \in {"prune", "committed", "publish"}, Goto(p), journal' = journal PROVE ControlInv'
  <2>1. agent' \in Agent /\ agent'.pc = p /\ SameWork
    BY <1>2, <1>4, GotoFact DEF Pcs, Finishing
  <2>2. TypeOK' /\ SameFiles
    BY <1>2, <1>3, <1>4, <2>1 DEF TypeOK, SameFiles
  <2>3. Sound'
    BY <1>2, <2>2, SoundStep
  <2>4. QED
    BY <1>1, <2>1, <2>2, <2>3, ApplyEnds DEF SameWork, Resting
<1>5. ASSUME Goto("mkdir"), journal' \in [Items -> Entry],
             \A j \in Items : journal'[j].backup \in Backups(j), Sound',
             \A j \in Items : journal'[j].state # "RECOVERY_REQUIRED"
      PROVE  ControlInv'
  <2>1. agent' \in Agent /\ agent'.pc = "mkdir" /\ SameWork
    BY <1>2, <1>5, GotoFact DEF Pcs, Beginning
  <2>2. TypeOK'
    BY <1>2, <1>3, <1>5, <2>1 DEF TypeOK
  <2>3. "mkdir" \in Applying /\ "mkdir" \notin Mutating
    BY DEF Applying, Beginning, Mutating
  <2>4. QED
    BY <1>2, <1>5, <2>1, <2>2, <2>3, ApplyMove DEF SameWork
<1>6. ASSUME Goto("mkdir"), journal' = journal PROVE ControlInv'
  <2>1. Sound'
    BY <1>2, <1>3, <1>6, SoundStep DEF SameFiles
  <2>2. QED
    BY <1>2, <1>5, <1>6, <2>1 DEF TypeOK
<1>7. ASSUME Goto("mkdir"), journal[i].state = "RESTORED", Unlink(i) PROVE ControlInv'
  <2>1. /\ journal' \in [Items -> Entry] /\ \A j \in Items : journal'[j].backup \in Backups(j)
        /\ \A j \in Items : j # i => journal'[j] = journal[j]
        /\ journal'[i].exists /\ journal'[i].state \in {"NONE", "RESTORED"}
    BY <1>2, <1>7, UnlinkFact DEF Done
  <2>2. OnlyEntry(i, journal'[i])
    BY <2>1 DEF OnlyEntry
  <2>3. Sound'
    BY <1>2, <1>3, <2>1, <2>2, EntrySound DEF InFlight
  <2>4. QED
    BY <1>2, <1>5, <1>7, <2>1, <2>3
<1>8. \/ (Goto("prune") \/ Goto("committed") \/ Goto(GiveUp)) /\ journal' = journal
      \/ Goto("mkdir") /\ (journal' = journal \/ (journal[i].state = "RESTORED" /\ Unlink(i)))
  BY Zenon DEF Begin
<1>9. QED
  BY <1>4, <1>6, <1>7, <1>8, GiveUpFact

\* The directory is made, or continued by a change set of several namespaces.
LEMMA MakeDirectoryFact ==
    ASSUME TypeOK, Sound, agent.item \in Items, MakeDirectory
    PROVE  /\ OnlyEntry(agent.item, journal'[agent.item]) /\ journal'[agent.item].exists
           /\ \/ /\ Kind[agent.item] = "multi"
                 /\ journal'[agent.item].state = journal[agent.item].state
                 /\ IsSnapshot(agent.item, journal'[agent.item].backup)
              \/ journal'[agent.item].state = "NONE" /\ journal'[agent.item].level = 0
<1> DEFINE i == agent.item
           old == [journal[i] EXCEPT !.backup = Snapshot(i)]
<1>1. journal \in [Items -> Entry] /\ journal[i] \in Entry
  BY DEF TypeOK
<1>2. /\ IsSnapshot(i, Snapshot(i)) /\ Snapshot(i) \in Backups(i)
      /\ Snapshot(i) \in UNION {Backups(j) : j \in Items}
  BY SnapshotFact
<1>3. journal' = [journal EXCEPT ![i] = IF Kind[i] = "multi" /\ journal[i].level > 0
                                        THEN old ELSE EmptyEntry]
  BY <1>1 DEF MakeDirectory
<1>4. CASE Kind[i] = "multi" /\ journal[i].level > 0
  <2>1. /\ old \in Entry /\ old.backup = Snapshot(i) /\ old.state = journal[i].state
        /\ old.exists = journal[i].exists
    BY <1>1, <1>2 DEF Entry
  <2>2. journal[i].exists
    BY <1>4 DEF Sound
  <2>3. journal' = [journal EXCEPT ![i] = old]
    BY <1>3, <1>4
  <2> HIDE DEF old
  <2>4. OnlyEntry(i, old)
    BY <1>2, <2>1, <2>3, EntryFact
  <2>5. journal'[i] = old
    BY <2>4 DEF OnlyEntry
  <2>6. QED
    BY <1>2, <1>4, <2>1, <2>2, <2>4, <2>5
<1>5. CASE ~(Kind[i] = "multi" /\ journal[i].level > 0)
  <2>1. <<>> \in Backups(i)
    BY DEF Backups
  <2>2. <<>> \in UNION {Backups(j) : j \in Items}
    BY <2>1
  <2>3. NoEntry \in Entry
    BY <2>2 DEF NoEntry, Entry, JournalStates
  <2>4. /\ EmptyEntry \in Entry /\ EmptyEntry.exists /\ EmptyEntry.state = "NONE"
        /\ EmptyEntry.level = 0 /\ EmptyEntry.backup = <<>>
    <3>1. NoEntry.state = "NONE" /\ NoEntry.level = 0 /\ NoEntry.backup = <<>>
      BY DEF NoEntry
    <3>2. QED
      BY <2>3, <3>1 DEF EmptyEntry, Entry
  <2>5. journal' = [journal EXCEPT ![i] = EmptyEntry]
    BY <1>3, <1>5
  <2>6. OnlyEntry(i, EmptyEntry)
    BY <2>1, <2>4, <2>5, EntryFact
  <2>7. journal'[i] = EmptyEntry
    BY <2>6 DEF OnlyEntry
  <2>8. QED
    BY <2>4, <2>6, <2>7
<1>6. QED
  BY <1>4, <1>5

\* A directory for the item.
LEMMA MakeDirectoryStep == ASSUME ControlInv, MakeDirectory PROVE ControlInv'
<1> DEFINE i == agent.item
<1>1. pc = "mkdir" /\ pc \in Applying
  BY DEF MakeDirectory, At, pc, Applying, Beginning
<1>2. /\ TypeOK /\ Sound /\ i \in Items
      /\ \A j \in Items : journal[j].state # "RECOVERY_REQUIRED"
  BY <1>1, AtApply
<1>3. /\ OnlyEntry(i, journal'[i]) /\ journal'[i].exists
      /\ \/ journal'[i].state = journal[i].state /\ IsSnapshot(i, journal'[i].backup)
         \/ journal'[i].state = "NONE" /\ journal'[i].level = 0
  BY <1>2, MakeDirectoryFact
<1>4. agent' \in Agent /\ agent'.pc = "journal" /\ SameWork
  BY <1>2, GotoFact DEF MakeDirectory, Pcs, Beginning
<1>5. TypeOK'
  BY <1>2, <1>3, <1>4 DEF MakeDirectory, TypeOK, OnlyEntry
<1>6. Sound'
  BY <1>2, <1>3, EntrySound DEF MakeDirectory, InFlight
<1>7. journal'[i].level >= 1 => HasSnapshot(i)'
  <2>1. journal'[i].level >= 1 => IsSnapshot(i, journal'[i].backup)
    BY <1>3
  <2>2. QED
    BY <1>4, <2>1 DEF HasSnapshot, SameWork
<1>8. \A j \in Items : journal'[j].state # "RECOVERY_REQUIRED"
  BY <1>2, <1>3 DEF OnlyEntry
<1>9. "journal" \in Applying /\ "journal" \notin Mutating
  BY DEF Applying, Beginning, Mutating
<1>10. QED
  BY <1>2, <1>3, <1>4, <1>5, <1>6, <1>7, <1>8, <1>9, ApplyMove DEF SameWork

\* The snapshot comes with the first file of the manifest.
LEMMA FirstFile ==
    ASSUME NEW e \in Entry, NEW b \in UNION {Backups(j) : j \in Items}
    PROVE  /\ [e EXCEPT !.level = 1, !.backup = b] \in Entry
           /\ [e EXCEPT !.level = 1, !.backup = b].backup = b
           /\ [e EXCEPT !.level = 1, !.backup = b].level = 1
           /\ [e EXCEPT !.level = 1, !.backup = b].state = e.state
           /\ [e EXCEPT !.level = 1, !.backup = b].exists = e.exists
<1> DEFINE f == [e EXCEPT !.level = 1, !.backup = b]
<1>1. 1 \in 0 .. 4
  OBVIOUS
<1>2. f.backup = b /\ f.level = 1 /\ f.state = e.state /\ f.exists = e.exists
  BY DEF Entry
<1>3. f \in Entry
  BY <1>1 DEF Entry
<1>4. QED
  BY <1>2, <1>3

\* What WriteManifest leaves of the entry.
LEMMA WriteManifestFact ==
    ASSUME TypeOK, Sound, agent.item \in Items, WriteManifest
    PROVE  /\ OnlyEntry(agent.item, journal'[agent.item])
           /\ journal'[agent.item].exists = journal[agent.item].exists
           /\ journal'[agent.item].state = journal[agent.item].state
           /\ journal'[agent.item].level = journal[agent.item].level + 1
           /\ \/ /\ journal[agent.item].level = 0
                 /\ journal'[agent.item].backup = Snapshot(agent.item)
              \/ /\ journal[agent.item].level >= 1
                 /\ journal'[agent.item].backup = journal[agent.item].backup
<1> DEFINE i == agent.item
           e == journal[i]
           first == [e EXCEPT !.level = 1, !.backup = Snapshot(i)]
           next == [e EXCEPT !.level = @ + 1]
<1>1. journal \in [Items -> Entry] /\ e \in Entry /\ e.backup \in Backups(i) /\ e.level \in 0 .. 4
  BY DEF TypeOK, Entry
<1>2. Snapshot(i) \in Backups(i) /\ Snapshot(i) \in UNION {Backups(j) : j \in Items}
  BY SnapshotFact
<1>3. e.level < 4
  BY <1>1 DEF WriteManifest, ManifestTop
<1>4. journal' = [journal EXCEPT ![i] = IF e.level = 0 THEN first ELSE next]
  BY DEF WriteManifest
<1>5. CASE e.level = 0
  <2>1. /\ first \in Entry /\ first.backup = Snapshot(i) /\ first.state = e.state /\ first.level = 1
        /\ first.exists = e.exists
    BY <1>1, <1>2, FirstFile
  <2>2. journal' = [journal EXCEPT ![i] = first]
    BY <1>4, <1>5
  <2> HIDE DEF first
  <2>3. OnlyEntry(i, first)
    BY <1>2, <2>1, <2>2, EntryFact
  <2>4. journal'[i] = first
    BY <2>3 DEF OnlyEntry
  <2>5. QED
    BY <1>5, <2>1, <2>3, <2>4
<1>6. CASE e.level # 0
  <2>1. /\ next \in Entry /\ next.backup = e.backup /\ next.state = e.state
        /\ next.level = e.level + 1
        /\ next.exists = e.exists
    BY <1>1, <1>3 DEF Entry
  <2>2. journal' = [journal EXCEPT ![i] = next]
    BY <1>4, <1>6
  <2> HIDE DEF next
  <2>3. OnlyEntry(i, next)
    BY <1>1, <2>1, <2>2, EntryFact
  <2>4. journal'[i] = next
    BY <2>3 DEF OnlyEntry
  <2>5. QED
    BY <1>1, <1>6, <2>1, <2>3, <2>4
<1>7. QED
  BY <1>5, <1>6

\* The snapshot, or a file of the manifest.
LEMMA WriteManifestStep == ASSUME ControlInv, WriteManifest PROVE ControlInv'
<1> DEFINE i == agent.item
<1>1. pc \in {"journal", "manifest"} /\ pc \in Applying /\ pc \notin Mutating
  BY DEF WriteManifest, At, pc, Applying, Beginning, Mutating
<1>2. /\ TypeOK /\ Sound /\ i \in Items
      /\ \A j \in Items : journal[j].state # "RECOVERY_REQUIRED"
  BY <1>1, AtApply
<1>3. /\ OnlyEntry(i, journal'[i])
      /\ journal'[i].exists = journal[i].exists /\ journal'[i].state = journal[i].state
      /\ \/ journal'[i].backup = Snapshot(i)
         \/ journal[i].level >= 1 /\ journal'[i].backup = journal[i].backup
  BY <1>2, WriteManifestFact
<1>4. IsSnapshot(i, Snapshot(i))
  BY <1>2, SnapshotFact
<1>5. agent' = agent /\ marks' = marks
  BY DEF WriteManifest
<1>6. TypeOK'
  BY <1>2, <1>3, <1>5 DEF WriteManifest, TypeOK, OnlyEntry
<1>7. journal[i].exists
  BY <1>1, <1>2 DEF ControlInv, AtWork, Applying, Beginning, Sound, InFlight
<1>8. pc = "manifest" => journal[i].state \in InFlight
  BY <1>1 DEF ControlInv, AtWork
<1>9. journal[i].state \in InFlight \/ (pc = "journal" /\ journal[i].level >= 1) => HasSnapshot(i)
  BY <1>2 DEF ControlInv, AtWork, Sound
<1>10. \/ journal[i].state \in InFlight
       \/ pc = "journal"
       => IsSnapshot(i, journal'[i].backup)
  BY <1>3, <1>4, <1>9 DEF HasSnapshot
<1>11. Sound'
  BY <1>2, <1>3, <1>5, <1>7, <1>10, EntrySound
<1>12. pc = "journal" => HasSnapshot(i)'
  BY <1>5, <1>10 DEF HasSnapshot
<1>13. \A j \in Items : journal'[j].state # "RECOVERY_REQUIRED"
  BY <1>2, <1>3 DEF OnlyEntry
<1>14. agent'.pc = pc
  BY <1>5 DEF pc
<1>15. QED
  BY <1>1, <1>2, <1>3, <1>5, <1>6, <1>7, <1>8, <1>11, <1>12, <1>13, <1>14, ApplyMove

\* APPLYING is written when the snapshot is there.
LEMMA WriteApplyingStep == ASSUME ControlInv, WriteApplying PROVE ControlInv'
<1> DEFINE i == agent.item
<1>1. pc = "journal" /\ pc \in Applying
  BY DEF WriteApplying, At, pc, Applying, Beginning
<1>2. /\ TypeOK /\ Sound /\ i \in Items
      /\ \A j \in Items : journal[j].state # "RECOVERY_REQUIRED"
  BY <1>1, AtApply
<1>3. journal[i].level >= 1
  <2>1. journal[i].level \in 0 .. 4
    BY <1>2 DEF TypeOK, Entry
  <2>2. QED
    BY <2>1 DEF WriteApplying, ManifestTop
<1>4. journal[i].exists /\ HasSnapshot(i)
  BY <1>1, <1>3 DEF ControlInv, AtWork
<1>5. OnlyState(i, "APPLYING")
  BY <1>2, StateFact DEF WriteApplying, JournalStates, InFlight
<1>6. agent' \in Agent /\ agent'.pc = "activate" /\ SameWork
  BY <1>2, GotoFact DEF WriteApplying, Pcs, Beginning
<1>7. TypeOK'
  BY <1>2, <1>5, <1>6 DEF WriteApplying, TypeOK, OnlyState
<1>8. Sound'
  BY <1>2, <1>4, <1>5, StateSound DEF WriteApplying
<1>9. \A j \in Items : journal'[j].state # "RECOVERY_REQUIRED"
  BY <1>2, <1>5 DEF OnlyState
<1>10. /\ "activate" \in Applying /\ "activate" \notin Mutating
       /\ journal'[i].state \in InFlight
  BY <1>5 DEF Applying, Beginning, Mutating, InFlight, OnlyState
<1>11. QED
  BY <1>2, <1>6, <1>7, <1>8, <1>9, <1>10, ApplyMove DEF SameWork

\* The active marker points at the entry that is in flight.
LEMMA WriteActiveStep == ASSUME ControlInv, WriteActive PROVE ControlInv'
<1> DEFINE i == agent.item
<1>1. pc = "activate" /\ pc \in Applying
  BY DEF WriteActive, At, pc, Applying, Beginning
<1>2. /\ TypeOK /\ Sound /\ i \in Items /\ i \in Content
      /\ \A j \in Items : journal[j].state # "RECOVERY_REQUIRED"
  BY <1>1, AtApply
<1>3. journal[i].state \in InFlight
  BY <1>1 DEF ControlInv, AtWork
<1>4. journal[i].exists
  BY <1>2, <1>3 DEF Sound, InFlight
<1>5. marks' \in MarkFiles /\ marks'.active = i /\ journal' = journal
  BY <1>2 DEF WriteActive, TypeOK, MarkFiles
<1>6. Sound'
  BY <1>2, <1>4, <1>5 DEF Sound, HasSnapshot
<1>7. /\ agent' \in Agent /\ agent'.pc \in {"stage", "prepared", "manifest"} /\ agent'.item = i
      /\ agent'.pc = "stage" => agent'.left = Touches[i]
  <2>1. CASE agent' = StagingFrom
    BY <1>2, <2>1, StagingFact
  <2>2. ASSUME NEW p \in {"prepared", "manifest"}, agent' = [agent EXCEPT !.pc = p]
        PROVE  agent' \in Agent /\ agent'.pc = p /\ agent'.item = i
    BY <1>2, <2>2 DEF TypeOK, Agent, Pcs, Beginning
  <2>3. Kind[i] \in {"operation", "single", "multi"}
    BY <1>2, Constants
  <2>4. \/ agent' = StagingFrom \/ agent' = [agent EXCEPT !.pc = "prepared"]
        \/ agent' = [agent EXCEPT !.pc = "manifest"]
    BY <2>3 DEF WriteActive
  <2>5. QED
    BY <2>1, <2>2, <2>4
<1>8. TypeOK'
  BY <1>2, <1>5, <1>7 DEF WriteActive, TypeOK, MarkFiles
<1>9. {"stage", "prepared", "manifest"} \subseteq Applying \ {"mkdir", "journal"}
  BY DEF Applying, Beginning, Mutating
<1>10. agent'.pc \in Mutating => agent'.left # {} /\ agent'.left \subseteq Touches[i]
  BY <1>2, <1>7, Constants DEF Mutating
<1>11. QED
  BY <1>2, <1>3, <1>5, <1>6, <1>7, <1>8, <1>9, <1>10, ApplyMove

\* PREPARED, unless the status file refuses it.
LEMMA WritePreparedStep == ASSUME ControlInv, WritePrepared PROVE ControlInv'
<1> DEFINE i == agent.item
<1>1. pc \in {"prepared", "manifest"} /\ pc \in Applying \ {"mkdir", "journal"}
  BY DEF WritePrepared, At, pc, Applying, Beginning
<1>2. TypeOK /\ Sound /\ i \in Items
  BY <1>1, AtApply
<1>3. "PREPARED" \in StatusStates \ {"NONE"}
  BY DEF StatusStates, JournalStates, InFlight, Done
<1>4. status' \in StatusFiles
  BY <1>2, <1>3, StatusFact DEF WritePrepared
<1>5. UNCHANGED <<marks, config, staged, server, sent, commits, crashes>>
  BY DEF WritePrepared
<1>6. CASE Goto("applying") /\ journal' = journal
  <2>1. agent' \in Agent /\ agent'.pc = "applying" /\ SameWork
    BY <1>2, <1>6, GotoFact DEF Pcs, Beginning
  <2>2. TypeOK' /\ SameFiles
    BY <1>2, <1>4, <1>5, <1>6, <2>1 DEF TypeOK, SameFiles, StatusFiles
  <2>3. "applying" \in Applying \ {"mkdir", "journal"} /\ "applying" \notin Mutating
    BY DEF Applying, Beginning, Mutating
  <2>4. QED
    BY <1>1, <2>1, <2>2, <2>3, ApplyStay DEF SameWork
<1>7. CASE Goto(GiveUp) /\ (journal' = journal \/ SetState(i, "RECOVERY_REQUIRED"))
  <2>1. GiveUp \in Pcs \cap Resting
    BY GiveUpFact
  <2>2. agent' \in Agent /\ agent'.pc \in Resting /\ SameWork
    BY <1>2, <1>7, <2>1, GotoFact
  <2>3. CASE journal' = journal
    <3>1. TypeOK' /\ SameFiles
      BY <1>2, <1>4, <1>5, <2>2, <2>3 DEF TypeOK, SameFiles, StatusFiles
    <3>2. Sound'
      BY <1>2, <3>1, SoundStep
    <3>3. QED
      BY <1>1, <2>2, <3>1, <3>2, ApplyEnds DEF SameWork
  <2>4. CASE SetState(i, "RECOVERY_REQUIRED")
    <3>1. OnlyState(i, "RECOVERY_REQUIRED")
      BY <1>2, <2>4, StateFact DEF JournalStates
    <3>2. TypeOK'
      BY <1>2, <1>4, <1>5, <2>2, <3>1 DEF TypeOK, StatusFiles, OnlyState
    <3>3. journal[i].exists
      BY <1>1, <1>2 DEF ControlInv, AtWork, Sound, InFlight
    <3>4. Sound'
      BY <1>2, <1>5, <3>1, <3>3, StateSound DEF InFlight
    <3>5. QED
      BY <1>1, <2>2, <3>2, <3>4, ApplyEnds DEF SameWork
  <2>5. QED
    BY <1>7, <2>3, <2>4
<1>8. \/ Goto("applying") /\ journal' = journal
      \/ Goto(GiveUp) /\ (journal' = journal \/ SetState(i, "RECOVERY_REQUIRED"))
  BY Zenon DEF WritePrepared
<1>9. QED
  BY <1>6, <1>7, <1>8

\* APPLYING in the status file.
LEMMA WriteStatusApplyingStep == ASSUME ControlInv, WriteStatusApplying PROVE ControlInv'
<1>1. pc = "applying" /\ pc \in Applying \ {"mkdir", "journal"}
  BY DEF WriteStatusApplying, At, pc, Applying, Beginning
<1>2. TypeOK /\ agent.item \in Items
  BY <1>1, AtApply
<1>3. "APPLYING" \in StatusStates \ {"NONE"}
  BY DEF StatusStates, JournalStates, InFlight
<1>4. status' \in StatusFiles
  BY <1>2, <1>3, StatusFact DEF WriteStatusApplying
<1>5. /\ agent' \in Agent /\ agent'.pc = "stage" /\ agent'.item = agent.item
      /\ agent'.left = Touches[agent.item]
  BY <1>2, StagingFact DEF WriteStatusApplying
<1>6. TypeOK' /\ SameFiles
  BY <1>2, <1>4, <1>5 DEF WriteStatusApplying, TypeOK, SameFiles, StatusFiles
<1>7. "stage" \in Applying \ {"mkdir", "journal"}
  BY DEF Applying, Mutating
<1>8. QED
  BY <1>1, <1>2, <1>5, <1>6, <1>7, Constants, ApplyStay

\* The namespace that staging and committing are about.
LEMMA AtMutation ==
    ASSUME ControlInv, pc \in Mutating
    PROVE  /\ agent.left # {} /\ agent.left \subseteq Touches[agent.item]
           /\ Min(agent.left) \in agent.left /\ Min(agent.left) \in Namespaces
<1>1. agent.left # {} /\ agent.left \subseteq Touches[agent.item] /\ agent.item \in Items
  BY DEF ControlInv, AtWork, Known, Applying
<1>2. agent.left \subseteq Nat /\ Touches[agent.item] \subseteq Namespaces
  BY <1>1, Constants
<1>3. Min(agent.left) \in agent.left
  BY <1>1, <1>2, MinIn
<1>4. QED
  BY <1>1, <1>2, <1>3

\* The commands of one namespace.
LEMMA StageStep == ASSUME ControlInv, Stage PROVE ControlInv'
<1>1. pc = "stage" /\ pc \in Mutating /\ pc \in Applying \ {"mkdir", "journal"}
  BY DEF Stage, At, pc, Applying, Mutating
<1>2. TypeOK /\ Sound /\ agent.item \in Items /\ agent.item \in Content
  BY <1>1, AtApply
<1>3. agent.left # {} /\ agent.left \subseteq Touches[agent.item]
  BY <1>1, AtMutation
<1>4. staged' \in [Namespaces -> Content]
  BY <1>2 DEF Stage, TypeOK
<1>5. UNCHANGED <<journal, marks, status, config, server, sent, commits, crashes>>
  BY DEF Stage
<1>6. SameFiles /\ Sound'
  BY <1>2, <1>5, SoundStep DEF SameFiles
<1>7. ASSUME agent' \in Agent PROVE TypeOK'
  BY <1>2, <1>4, <1>5, <1>7 DEF TypeOK
<1>8. CASE Goto("commit")
  <2>1. agent' \in Agent /\ agent'.pc = "commit" /\ SameWork
    BY <1>2, <1>8, GotoFact DEF Pcs, Mutating
  <2>2. "commit" \in Applying \ {"mkdir", "journal"}
    BY DEF Applying, Mutating
  <2>3. QED
    BY <1>1, <1>3, <1>6, <1>7, <2>1, <2>2, ApplyStay DEF SameWork
<1>9. CASE agent' = Calling("stage")
  <2>1. agent' \in Agent /\ agent'.pc = "recover" /\ agent'.item = agent.item
    BY <1>2, <1>9, CallingFact
  <2>2. QED
    BY <1>1, <1>6, <1>7, <2>1, ApplyEnds DEF Resting
<1>10. QED
  BY <1>8, <1>9 DEF Stage

\* uci commit of one namespace.
LEMMA UciCommitStep == ASSUME ControlInv, UciCommit PROVE ControlInv'
<1> DEFINE n == Min(agent.left)
<1>1. pc = "commit" /\ pc \in Mutating /\ pc \in Applying \ {"mkdir", "journal"}
  BY DEF UciCommit, At, pc, Applying, Mutating
<1>2. TypeOK /\ Sound /\ agent.item \in Items
  BY <1>1, AtApply
<1>3. agent.left \subseteq Touches[agent.item] /\ n \in Namespaces
  BY <1>1, AtMutation
<1>4. UNCHANGED <<journal, marks, status, server, sent, commits, crashes>>
  BY DEF UciCommit
<1>5. SameFiles /\ Sound'
  BY <1>2, <1>4, SoundStep DEF SameFiles
<1>6. config' \in [Namespaces -> Content] /\ staged' \in [Namespaces -> Content]
  <2>1. config \in [Namespaces -> Content] /\ staged \in [Namespaces -> Content]
    BY <1>2 DEF TypeOK
  <2>2. staged[n] \in Content /\ 0 \in Content
    BY <1>3, <2>1, Constants
  <2>3. \/ config' = [config EXCEPT ![n] = staged[n]] /\ staged' = [staged EXCEPT ![n] = 0]
        \/ config' = config /\ staged' = staged
    BY DEF UciCommit
  <2>4. QED
    BY <2>1, <2>2, <2>3
<1>7. ASSUME agent' \in Agent PROVE TypeOK'
  BY <1>2, <1>4, <1>6, <1>7 DEF TypeOK
<1>8. ASSUME NEW p \in {"stage", "verify", "confirm"},
             agent' = [agent EXCEPT !.left = agent.left \ {n}, !.pc = p],
             p = "stage" => agent.left \ {n} # {}
      PROVE  ControlInv'
  <2>1. agent' \in Agent /\ agent'.pc = p /\ agent'.item = agent.item /\ agent'.left = agent.left \ {n}
    BY <1>2, <1>8 DEF TypeOK, Agent, Pcs, Mutating, Verifying
  <2>2. p \in Applying \ {"mkdir", "journal"} /\ (p \in Mutating => p = "stage")
    BY DEF Applying, Mutating, Verifying
  <2>3. QED
    BY <1>1, <1>3, <1>5, <1>7, <1>8, <2>1, <2>2, ApplyStay
<1>9. CASE agent' = Calling("stage")
  <2>1. agent' \in Agent /\ agent'.pc = "recover" /\ agent'.item = agent.item
    BY <1>2, <1>9, CallingFact
  <2>2. QED
    BY <1>1, <1>5, <1>7, <2>1, ApplyEnds DEF Resting
<1>10. \/ \E p \in {"stage", "verify", "confirm"} :
             /\ agent' = [agent EXCEPT !.left = agent.left \ {n}, !.pc = p]
             /\ p = "stage" => agent.left \ {n} # {}
       \/ agent' = Calling("stage")
  BY DEF UciCommit
<1>11. QED
  BY <1>8, <1>9, <1>10

\* PENDING_CONFIRM in the journal.
LEMMA MarkPendingStep == ASSUME ControlInv, MarkPending PROVE ControlInv'
<1> DEFINE i == agent.item
<1>1. pc = "confirm" /\ pc \in Applying \ {"mkdir", "journal"}
  BY DEF MarkPending, At, pc, Applying, Verifying
<1>2. /\ TypeOK /\ Sound /\ i \in Items
      /\ \A j \in Items : journal[j].state # "RECOVERY_REQUIRED"
  BY <1>1, AtApply
<1>3. HasSnapshot(i) /\ journal[i].exists
  BY <1>1, <1>2 DEF ControlInv, AtWork, Sound, InFlight
<1>4. OnlyState(i, "PENDING_CONFIRM")
  BY <1>2, StateFact DEF MarkPending, JournalStates, InFlight
<1>5. PICK p \in {"confirmStatus", "verify"} : Goto(p)
  BY DEF MarkPending
<1>6. agent' \in Agent /\ agent'.pc = p /\ SameWork
  BY <1>2, <1>5, GotoFact DEF Pcs, Verifying
<1>7. TypeOK'
  BY <1>2, <1>4, <1>6 DEF MarkPending, TypeOK, OnlyState
<1>8. Sound'
  BY <1>2, <1>3, <1>4, StateSound DEF MarkPending
<1>9. \A j \in Items : journal'[j].state # "RECOVERY_REQUIRED"
  BY <1>2, <1>4 DEF OnlyState
<1>10. p \in Applying /\ p \notin Mutating /\ p # "journal" /\ journal'[i].state \in InFlight
  BY <1>4 DEF Applying, Verifying, Mutating, InFlight, OnlyState
<1>11. QED
  BY <1>2, <1>6, <1>7, <1>8, <1>9, <1>10, ApplyMove DEF SameWork

\* And in the status file.
LEMMA WriteStatusPendingStep == ASSUME ControlInv, WriteStatusPending PROVE ControlInv'
<1>1. pc = "confirmStatus" /\ pc \in Applying \ {"mkdir", "journal"}
  BY DEF WriteStatusPending, At, pc, Applying, Verifying
<1>2. TypeOK /\ agent.item \in Items
  BY <1>1, AtApply
<1>3. "PENDING_CONFIRM" \in StatusStates \ {"NONE"}
  BY DEF StatusStates, JournalStates, InFlight
<1>4. status' \in StatusFiles
  BY <1>2, <1>3, StatusFact DEF WriteStatusPending
<1>5. agent' \in Agent /\ agent'.pc = "verify" /\ SameWork
  BY <1>2, GotoFact DEF WriteStatusPending, Pcs, Verifying
<1>6. TypeOK' /\ SameFiles
  BY <1>2, <1>4, <1>5 DEF WriteStatusPending, TypeOK, SameFiles, StatusFiles
<1>7. "verify" \in Applying \ {"mkdir", "journal"} /\ "verify" \notin Mutating
  BY DEF Applying, Verifying, Mutating
<1>8. QED
  BY <1>1, <1>5, <1>6, <1>7, ApplyStay DEF SameWork

\* The health checks.
LEMMA VerifyStep == ASSUME ControlInv, Verify PROVE ControlInv'
<1>1. pc = "verify" /\ pc \in Applying \ {"mkdir", "journal"}
  BY DEF Verify, At, pc, Applying, Verifying
<1>2. TypeOK /\ Sound
  BY <1>1, AtApply
<1>3. SameFiles /\ Sound'
  BY <1>2, SoundStep DEF Verify, SameFiles
<1>4. ASSUME agent' \in Agent PROVE TypeOK'
  BY <1>2, <1>4 DEF Verify, TypeOK
<1>5. CASE Goto("decide")
  <2>1. agent' \in Agent /\ agent'.pc = "decide" /\ SameWork
    BY <1>2, <1>5, GotoFact DEF Pcs, Verifying
  <2>2. "decide" \in Applying \ {"mkdir", "journal"} /\ "decide" \notin Mutating
    BY DEF Applying, Verifying, Mutating
  <2>3. QED
    BY <1>1, <1>3, <1>4, <2>1, <2>2, ApplyStay DEF SameWork
<1>6. CASE agent' = Calling("verify")
  <2>1. agent' \in Agent /\ agent'.pc = "recover" /\ agent'.item = agent.item
    BY <1>2, <1>6, CallingFact
  <2>2. QED
    BY <1>1, <1>3, <1>4, <2>1, ApplyEnds DEF Resting
<1>7. QED
  BY <1>5, <1>6 DEF Verify

\* COMMITTED in the journal.
LEMMA CommitStep == ASSUME ControlInv, Commit PROVE ControlInv'
<1> DEFINE i == agent.item
<1>1. pc = "decide" /\ pc \in Applying \ {"mkdir", "journal"}
  BY DEF Commit, At, pc, Applying, Verifying
<1>2. TypeOK /\ Sound /\ i \in Items
  BY <1>1, AtApply
<1>3. journal[i].exists
  BY <1>1, <1>2 DEF ControlInv, AtWork, Sound, InFlight
<1>4. OnlyState(i, "COMMITTED")
  BY <1>2, StateFact DEF Commit, JournalStates, Done
<1>5. agent' \in Agent /\ agent'.pc = "deactivate" /\ SameWork
  BY <1>2, GotoFact DEF Commit, Pcs, Finishing
<1>6. TypeOK'
  BY <1>2, <1>4, <1>5 DEF Commit, TypeOK, OnlyState
<1>7. Sound'
  BY <1>2, <1>3, <1>4, StateSound DEF Commit, InFlight
<1>8. journal'[i].state = "COMMITTED" /\ pc' = "deactivate"
  BY <1>4, <1>5 DEF OnlyState, pc
<1>9. "deactivate" \notin {"begin", "recover", "rmdir"} \cup Applying \cup RecoveringOne
  BY DEF Applying, Beginning, Mutating, Verifying, RecoveringOne
<1>10. Known' /\ Fenced' /\ LastPhase'
  BY <1>2, <1>5, <1>8, <1>9 DEF Known, Fenced, LastPhase, SameWork
<1>11. AtWork'
  BY <1>5, <1>8, <1>9 DEF AtWork, SameWork, Applying, RecoveringOne
<1>12. QED
  BY <1>6, <1>7, <1>10, <1>11 DEF ControlInv

\* Marker and snapshot go.
LEMMA DeactivateStep == ASSUME ControlInv, Deactivate PROVE ControlInv'
<1> DEFINE i == agent.item
<1>1. pc = "deactivate" /\ pc \in Finishing
  BY DEF Deactivate, At, pc, Finishing
<1>2. TypeOK /\ Sound /\ i \in Items /\ journal[i].state \in Done
  BY <1>1 DEF ControlInv, Known, AtWork, Done
<1>3. agent' \in Agent /\ agent'.pc = "last" /\ SameWork
  BY <1>2, GotoFact DEF Deactivate, Pcs, Finishing
<1>4. marks' \in MarkFiles /\ marks'.active \in {marks.active, 0}
  BY <1>2, Constants DEF Deactivate, TypeOK, MarkFiles
<1>5. UNCHANGED <<status, config, staged, server, sent, commits, crashes>>
  BY DEF Deactivate
<1>6. CASE journal' = journal
  <2>1. TypeOK' /\ SameFiles
    BY <1>2, <1>3, <1>4, <1>5, <1>6 DEF TypeOK, SameFiles, MarkFiles
  <2>2. QED
    BY <1>1, <1>2, <1>3, <2>1, SoundStep, ApplyEnds DEF SameWork, Resting
<1>7. CASE journal' = [journal EXCEPT ![i].backup = <<>>]
  <2>1. OnlyBackup(i)
    BY <1>2, <1>7, BackupFact
  <2>2. TypeOK'
    BY <1>2, <1>3, <1>4, <1>5, <2>1 DEF TypeOK, MarkFiles, OnlyBackup
  <2>3. Sound'
    BY <1>2, <1>4, <2>1, BackupSound
  <2>4. QED
    BY <1>1, <1>3, <2>2, <2>3, ApplyEnds DEF SameWork, Resting
<1>8. QED
  BY <1>6, <1>7 DEF Deactivate

\* What FailureState reports.
LEMMA FailureType ==
    ASSUME NEW s \in JournalStates PROVE FailureState(s) \in StatusStates \ {"NONE"}
BY DEF FailureState, StatusStates, JournalStates, InFlight, Done

\* The markers and status files written at the end.
LEMMA FinishStep ==
    ASSUME ControlInv, WriteLast \/ WriteOperationStatus \/ WriteStatusCommitted \/ PublishFailure
    PROVE  ControlInv'
<1> DEFINE i == agent.item
<1>1. pc \in Finishing
  BY DEF WriteLast, WriteOperationStatus, WriteStatusCommitted, PublishFailure, At, pc, Finishing
<1>2. TypeOK /\ Sound /\ i \in Items /\ i \in Content
  BY <1>1, Constants DEF ControlInv, Known
<1>3. UNCHANGED <<journal, config, staged, server, sent, commits, crashes>>
  BY DEF WriteLast, WriteOperationStatus, WriteStatusCommitted, PublishFailure
<1>4. PICK p \in {"operation", "committed", "prune"} : Goto(p)
  BY DEF WriteLast, WriteOperationStatus, WriteStatusCommitted, PublishFailure
<1>5. agent' \in Agent /\ agent'.pc = p /\ SameWork
  BY <1>2, <1>4, GotoFact DEF Pcs, Finishing
<1>6. marks' \in MarkFiles /\ marks'.active = marks.active
  BY <1>2 DEF WriteLast, WriteOperationStatus, WriteStatusCommitted, PublishFailure, TypeOK, MarkFiles
<1>7. status' \in StatusFiles
  <2>1. status \in StatusFiles
    BY <1>2 DEF TypeOK, StatusFiles
  <2>2. "COMMITTED" \in StatusStates \ {"NONE"}
    BY DEF StatusStates, JournalStates, Done
  <2>3. StatusWritten(i, "COMMITTED") \in StatusFiles
    BY <1>2, <2>2, StatusFact
  <2>4. journal[i].state \in JournalStates
    BY <1>2 DEF TypeOK, Entry
  <2>5. FailureState(journal[i].state) \in StatusStates \ {"NONE"}
    BY <2>4, FailureType
  <2>6. StatusWritten(i, FailureState(journal[i].state)) \in StatusFiles
    BY <1>2, <2>5, StatusFact
  <2>7. QED
    BY <2>1, <2>3, <2>6 DEF WriteLast, WriteOperationStatus, WriteStatusCommitted, PublishFailure
<1>8. TypeOK' /\ SameFiles
  BY <1>2, <1>3, <1>5, <1>6, <1>7 DEF TypeOK, SameFiles, MarkFiles, StatusFiles
<1>9. QED
  BY <1>1, <1>2, <1>5, <1>8, SoundStep, ApplyEnds DEF SameWork, Resting
-----------------------------------------------------------------------------
(* Crashes, the controller, and the theorems *)

\* A crash leaves the files and starts the process again.
LEMMA CrashStep == ASSUME ControlInv, Crash PROVE ControlInv'
<1>1. TypeOK /\ Sound
  BY DEF ControlInv
<1>2. agent' \in Agent /\ agent'.pc = "boot"
  BY Constants DEF Crash, Started, Agent, Pcs
<1>3. staged' \in [Namespaces -> Content]
  <2>1. [n \in Namespaces |-> 0] \in [Namespaces -> Content]
    BY Constants
  <2>2. QED
    BY <1>1, <2>1 DEF Crash, TypeOK
<1>4. crashes' \in 0 .. MaxCrashes
  <2>1. crashes \in 0 .. MaxCrashes /\ MaxCrashes \in Nat
    BY <1>1, ItemAssumption DEF TypeOK
  <2>2. QED
    BY <2>1 DEF Crash
<1>5. TypeOK' /\ SameFiles
  BY <1>1, <1>2, <1>3, <1>4 DEF Crash, TypeOK, SameFiles
<1>6. QED
  BY <1>1, <1>2, <1>5, SoundStep, RestStep DEF Resting, Finishing

\* Steps that leave the device alone.
LEMMA SameControl ==
    ASSUME ControlInv, TypeOK', UNCHANGED <<journal, marks, agent>>
    PROVE  ControlInv'
<1>1. Sound'
  BY SoundStep DEF ControlInv, SameFiles
<1>2. Known' /\ Fenced'
  BY DEF ControlInv, Known, Fenced, pc
<1>3. AtWork'
  BY DEF ControlInv, AtWork, HasSnapshot, pc
<1>4. LastPhase'
  BY DEF ControlInv, LastPhase, Unrecovered, pc
<1>5. QED
  BY <1>1, <1>2, <1>3, <1>4 DEF ControlInv

\* The controller plans the next item.
LEMMA PlanStep == ASSUME ControlInv, Plan PROVE ControlInv'
<1>1. TypeOK
  BY DEF ControlInv
<1>2. [n \in Namespaces |-> Shown(n)] \in [Namespaces -> Content]
  BY <1>1 DEF TypeOK, Shown
<1>3. server.planned + 1 \in Content
  BY <1>1, Constants DEF Plan, TypeOK, Content
<1>4. server \in [pending : Content, planned : Content, observed : [Namespaces -> Content],
                  outcome : [Items -> StatusStates]]
  BY <1>1 DEF TypeOK
<1> DEFINE shown == [n \in Namespaces |-> Shown(n)]
<1>5. server' = [server EXCEPT !.pending = server.planned + 1, !.planned = server.planned + 1,
                               !.observed = shown]
  BY <1>4 DEF Plan
<1>6. shown \in [Namespaces -> Content]
  BY <1>2
<1> HIDE DEF shown
<1>7. server' \in [pending : Content, planned : Content, observed : [Namespaces -> Content],
                   outcome : [Items -> StatusStates]]
  BY <1>3, <1>4, <1>5, <1>6
<1>8. TypeOK'
  BY <1>1, <1>7 DEF Plan, TypeOK
<1>9. QED
  BY <1>8, SameControl DEF Plan

\* The controller persists a report.
LEMMA RecordStep == ASSUME ControlInv, Record PROVE ControlInv'
<1>1. TypeOK
  BY DEF ControlInv
<1>2. PICK r \in sent : server' = [server EXCEPT !.pending = 0, !.outcome[r.id] = r.state]
  BY DEF Record
<1>3. r.id \in Items /\ r.state \in StatusStates
  BY <1>1 DEF TypeOK
<1>4. server \in [pending : Content, planned : Content, observed : [Namespaces -> Content],
                  outcome : [Items -> StatusStates]]
  BY <1>1 DEF TypeOK
<1> DEFINE outcome == [server.outcome EXCEPT ![r.id] = r.state]
<1>5. outcome \in [Items -> StatusStates]
  BY <1>3, <1>4
<1>6. server' = [server EXCEPT !.pending = 0, !.outcome = outcome]
  BY <1>2, <1>4
<1> HIDE DEF outcome
<1>7. server' \in [pending : Content, planned : Content, observed : [Namespaces -> Content],
                   outcome : [Items -> StatusStates]]
  BY <1>4, <1>5, <1>6, Constants
<1>8. TypeOK'
  BY <1>1, <1>7 DEF Record, TypeOK
<1>9. QED
  BY <1>8, SameControl DEF Record

\* Every step keeps ControlInv.
LEMMA ControlStep == ASSUME ControlInv, [Next]_vars PROVE ControlInv'
<1>1. CASE Recovery
  BY <1>1, RecoverPendingStep, RecoverOneStep, RollingBackStep, RestoreStep, RestoredStep,
     ForgetStep, RecordLastStep, AnnounceStep, MarkStatusStep, MarkStateStep DEF Recovery
<1>2. CASE Apply
  BY <1>2, BeginStep, MakeDirectoryStep, WriteManifestStep, WriteApplyingStep, WriteActiveStep,
     WritePreparedStep, WriteStatusApplyingStep, StageStep, UciCommitStep, MarkPendingStep,
     WriteStatusPendingStep, VerifyStep, CommitStep, DeactivateStep, FinishStep DEF Apply
<1>3. CASE Boot \/ Heartbeat \/ PullFails \/ Pull \/ Prune \/ RemoveDirectory
  BY <1>3, CallStep, IdleStep, PullSingleStep, PullMultiStep, PruneStep, RemoveStep DEF Pull
<1>4. CASE Crash \/ Plan \/ Record
  BY <1>4, CrashStep, PlanStep, RecordStep
<1>5. CASE UNCHANGED vars
  <2>1. TypeOK'
    BY <1>5 DEF ControlInv, TypeOK, vars
  <2>2. QED
    BY <1>5, <2>1, SameControl DEF vars
<1>6. QED
  BY <1>1, <1>2, <1>3, <1>4, <1>5 DEF Next, AgentStep

\* Where the process is fits what the journal says: ControlInv always holds.
THEOREM ControlHolds == Spec => []ControlInv
<1>1. Init => ControlInv
  BY ControlInit
<1>2. ControlInv /\ [Next]_vars => ControlInv'
  BY ControlStep
<1>3. QED
  BY <1>1, <1>2, PTL DEF Spec

\* Journal, markers, status files and the configuration have their types.
THEOREM TypeCorrect == Spec => []TypeOK
<1>1. ControlInv => TypeOK
  BY DEF ControlInv
<1>2. QED
  BY <1>1, ControlHolds, PTL

\* Only staging adds to the staged changes.
LEMMA OnlyStageStages ==
    ASSUME TypeOK, Next, ~Stage, NEW n \in Namespaces
    PROVE  staged'[n] \in {staged[n], 0}
<1>1. staged \in [Namespaces -> Content]
  BY DEF TypeOK
<1>2. CASE staged' = staged
  BY <1>2
<1>3. CASE Restore \/ UciCommit
  BY <1>1, <1>3 DEF Restore, UciCommit
<1>4. CASE Crash
  BY <1>4 DEF Crash
<1>5. \/ staged' = staged \/ Restore \/ UciCommit \/ Crash
  <2>1. ASSUME AgentStep, ~Restore, ~UciCommit PROVE staged' = staged
    <3>1. ASSUME Recovery PROVE staged' = staged
      BY <2>1, <3>1 DEF Recovery, RecoverPending, RecoverOne, RollingBack, Restored, Forget,
         RecordLast, Announce, MarkStatus, MarkState
    <3>2. ASSUME Apply PROVE staged' = staged
      BY <2>1, <3>2 DEF Apply, Begin, MakeDirectory, WriteManifest, WriteApplying,
         WriteActive, WritePrepared, WriteStatusApplying, MarkPending, WriteStatusPending, Verify,
         Commit, Deactivate, WriteLast, WriteOperationStatus, WriteStatusCommitted, PublishFailure
    <3>3. ASSUME Boot \/ Heartbeat \/ PullFails \/ Pull \/ Prune \/ RemoveDirectory
          PROVE  staged' = staged
      BY <3>3 DEF Boot, Heartbeat, PullFails, Pull, PullNothing, PullOperation, PullSingle,
         PullMulti, Prune, RemoveDirectory
    <3>4. QED
      BY <2>1, <3>1, <3>2, <3>3 DEF AgentStep
  <2>2. ASSUME Plan \/ Record PROVE staged' = staged
    BY <2>2 DEF Plan, Record
  <2>3. QED
    BY <2>1, <2>2 DEF Next
<1>6. QED
  BY <1>2, <1>3, <1>4, <1>5

\* Staging is part of applying an item.
LEMMA StageApplies == ASSUME Stage PROVE pc \in Applying
BY DEF Stage, At, pc, Applying, Mutating

\* Whatever the kinds of items, and whatever was restarted, lost or delivered since:
\* no step stages a change while an entry of the journal says RECOVERY_REQUIRED
\* (transaction_recovery_required_present, agent.sh:870).
THEOREM RecoveryFencesHold == Spec => RecoveryFences
<1> DEFINE Fence == (\E i \in Items : journal[i].state = "RECOVERY_REQUIRED")
                       => \A n \in Namespaces : staged'[n] \in {staged[n], 0}
<1>1. ControlInv /\ [Next]_vars => [Fence]_vars
  <2>1. SUFFICES ASSUME ControlInv, Next, NEW i \in Items, journal[i].state = "RECOVERY_REQUIRED",
                        NEW n \in Namespaces
                 PROVE  staged'[n] \in {staged[n], 0}
    BY DEF vars
  <2>2. ~Stage
    BY <2>1, StageApplies, AtApply
  <2>3. QED
    BY <2>1, <2>2, OnlyStageStages DEF ControlInv
<1>2. QED
  BY <1>1, ControlHolds, PTL DEF Spec, RecoveryFences

\* What is applied follows a recovery that did not fail.
Unfailed == pc \in {"begin"} \cup Applying => ~agent.failed

\* A step that goes on after the answer of the last recovery, or asks for another.
Continues ==
    /\ agent'.failed = agent.failed
    /\ agent'.pc \in {"begin"} \cup Applying => pc \in {"begin"} \cup Applying

\* A recovery that says yes begins the transaction, one that says no does not.
LEMMA ReturnUnfailed ==
    ASSUME TypeOK, agent' = Returned(TRUE) \/ agent' = Returned(FALSE)
    PROVE  Unfailed'
<1>1. CASE agent' = Returned(TRUE)
  BY <1>1 DEF Returned, Unfailed, TypeOK, Agent
<1>2. CASE agent' = Returned(FALSE)
  <2>1. agent'.pc \notin {"begin"} \cup Applying
    BY <1>2, ReturnedNo DEF Applying, Beginning, Mutating, Verifying
  <2>2. QED
    BY <2>1 DEF Unfailed, pc
<1>3. QED
  BY <1>1, <1>2

\* The loop over the journal that goes on, or returns.
LEMMA OneReturnUnfailed ==
    ASSUME TypeOK, Unfailed, agent' = OneReturned(TRUE) \/ agent' = OneReturned(FALSE)
    PROVE  Unfailed'
<1>1. CASE agent' = [agent EXCEPT !.pc = "recover", !.phase = "scan"]
  <2>1. agent'.pc = "recover"
    BY <1>1 DEF TypeOK, Agent
  <2>2. QED
    BY <2>1 DEF Unfailed, pc, Applying, Beginning, Mutating, Verifying
<1>2. CASE agent' = Returned(TRUE) \/ agent' = Returned(FALSE)
  BY <1>2, ReturnUnfailed
<1>3. QED
  BY <1>1, <1>2 DEF OneReturned

\* What follows begin is only reached from there.
LEMMA ContinuesUnfailed == ASSUME Unfailed, Continues PROVE Unfailed'
BY DEF Unfailed, Continues, pc

\* The steps of the recovery.
LEMMA RecoveryUnfailed == ASSUME TypeOK, Unfailed, Recovery PROVE Unfailed'
<1>1. \/ agent' \in {OneReturned(TRUE), OneReturned(FALSE), Returned(TRUE), Returned(FALSE)}
      \/ agent'.pc \in RecoveringOne
  <2>1. agent \in Agent
    BY DEF TypeOK
  <2>2. ASSUME NEW p \in RecoveringOne, Goto(p) PROVE agent'.pc \in RecoveringOne
    BY <2>1, <2>2 DEF Goto, Agent
  <2>3. CASE RecoverPending
    BY <2>1, <2>3 DEF RecoverPending, Recovering, RecoveringOne, Agent
  <2>4. CASE RecoverOne
    <3>1. CASE Unrecoverable(agent.rec)
      BY <2>2, <2>4, <3>1 DEF RecoverOne, RecoveringOne
    <3>2. CASE RecoverDone(agent.rec)
      BY <3>2 DEF RecoverDone
    <3>3. CASE RecoverRefused(agent.rec)
      BY <3>3 DEF RecoverRefused
    <3>4. CASE RecoverInFlight(agent.rec)
      BY <2>1, <2>2, <3>4 DEF RecoverInFlight, RecoveringOne, Agent
    <3>5. QED
      BY <2>4, <3>1, <3>2, <3>3, <3>4 DEF RecoverOne
  <2>5. CASE RollingBack
    BY <2>1, <2>5 DEF RollingBack, RecoveringOne, Agent
  <2>6. CASE Restore
    BY <2>1, <2>2, <2>6 DEF Restore, At, RecoveringOne, Agent
  <2>7. CASE Restored \/ Forget \/ MarkStatus
    BY <2>2, <2>7 DEF Restored, Forget, MarkStatus, RecoveringOne
  <2>8. CASE RecordLast \/ Announce \/ MarkState
    <3>1. CASE RecordLast
      BY <2>2, <3>1 DEF RecordLast, RecoveringOne
    <3>2. CASE Announce
      <4>1. \/ agent' = OneReturned(TRUE)
            \/ agent' = OneReturned(StatusAllowed(agent.rec, "RESTORED"))
        BY <3>2 DEF Announce
      <4>2. StatusAllowed(agent.rec, "RESTORED") \in {TRUE, FALSE}
        BY Zenon DEF StatusAllowed
      <4>3. QED
        BY <4>1, <4>2
    <3>3. CASE MarkState
      BY <3>3 DEF MarkState
    <3>4. QED
      BY <2>8, <3>1, <3>2, <3>3
  <2>9. QED
    BY <2>3, <2>4, <2>5, <2>6, <2>7, <2>8 DEF Recovery
<1>2. CASE agent'.pc \in RecoveringOne
  BY <1>2 DEF Unfailed, pc, RecoveringOne, Applying, Beginning, Mutating, Verifying
<1>3. QED
  BY <1>1, <1>2, OneReturnUnfailed, ReturnUnfailed

\* The steps of applying an item.
LEMMA ApplyContinues == ASSUME TypeOK, Known, Apply PROVE Continues
<1>1. agent \in Agent
  BY DEF TypeOK
<1>2. ASSUME NEW p, Goto(p), p \in {"begin"} \cup Applying => pc \in {"begin"} \cup Applying
      PROVE  Continues
  BY <1>1, <1>2 DEF Goto, Agent, Continues
<1>3. ASSUME NEW p, p \notin {"begin"} \cup Applying, Goto(p) PROVE Continues
  BY <1>2, <1>3
<1>4. ASSUME NEW p, pc \in {"begin"} \cup Applying, Goto(p) PROVE Continues
  BY <1>2, <1>4
<1>5. GiveUp \notin {"begin"} \cup Applying
  BY GiveUpFact DEF Applying, Beginning, Mutating, Verifying
<1>6. ASSUME NEW f, agent' = Calling(f) PROVE Continues
  BY <1>1, <1>6 DEF Calling, Agent, Continues, Applying, Beginning, Mutating, Verifying
<1>7. agent' = StagingFrom /\ pc \in Applying => Continues
  BY <1>1 DEF StagingFrom, Agent, Continues
<1>8. CASE Begin
  <2>1. \E p : Goto(p) /\ pc = "begin"
    BY <1>8 DEF Begin, At, pc
  <2>2. QED
    BY <1>4, <2>1
<1>9. CASE MakeDirectory \/ WriteApplying
  <2>1. pc \in Applying
    BY <1>9 DEF MakeDirectory, WriteApplying, At, pc, Applying, Beginning
  <2>2. QED
    BY <1>4, <1>9, <2>1 DEF MakeDirectory, WriteApplying
<1>10. CASE WriteManifest
  BY <1>10 DEF WriteManifest, Continues, pc
<1>11. CASE WriteActive
  <2>1. pc \in Applying
    BY <1>11 DEF WriteActive, At, pc, Applying, Beginning
  <2>2. CASE Kind[agent.item] = "operation"
    <3>1. agent' = StagingFrom
      BY <1>11, <2>2 DEF WriteActive
    <3>2. QED
      BY <1>7, <2>1, <3>1
  <2>3. CASE Kind[agent.item] # "operation"
    <3>1. agent.item \in Items
      BY <2>1 DEF Known
    <3>2. Goto("prepared") \/ Goto("manifest")
      BY <1>11, <2>3, <3>1, Constants DEF WriteActive, Goto
    <3>3. QED
      BY <1>4, <2>1, <3>2
  <2>4. QED
    BY <2>2, <2>3
<1>12. CASE WritePrepared
  <2>1. pc \in Applying
    BY <1>12 DEF WritePrepared, At, pc, Applying, Beginning
  <2>2. Goto(GiveUp) \/ Goto("applying")
    BY <1>12 DEF WritePrepared
  <2>3. QED
    BY <1>4, <1>5, <2>1, <2>2
<1>13. CASE WriteStatusApplying
  BY <1>7, <1>13 DEF WriteStatusApplying, At, pc, Applying, Beginning
<1>14. CASE Stage \/ Verify
  <2>1. pc \in Applying
    BY <1>14 DEF Stage, Verify, At, pc, Applying, Mutating, Verifying
  <2>2. QED
    BY <1>4, <1>6, <1>14, <2>1 DEF Stage, Verify
<1>15. CASE UciCommit
  <2>1. pc \in Applying
    BY <1>15 DEF UciCommit, At, pc, Applying, Mutating
  <2>2. agent' = Calling("stage") \/ agent'.failed = agent.failed
    BY <1>1, <1>15 DEF UciCommit, Agent
  <2>3. QED
    BY <1>6, <2>1, <2>2 DEF Continues
<1>16. CASE MarkPending \/ WriteStatusPending
  <2>1. pc \in Applying
    BY <1>16 DEF MarkPending, WriteStatusPending, At, pc, Applying, Verifying
  <2>2. QED
    BY <1>4, <1>16, <2>1 DEF MarkPending, WriteStatusPending
<1>17. CASE \/ Commit \/ Deactivate \/ WriteLast
            \/ WriteOperationStatus \/ WriteStatusCommitted \/ PublishFailure
  <2>1. \E p \in {"deactivate", "last", "operation", "committed", "prune"} : Goto(p)
    BY <1>17 DEF Commit, Deactivate, WriteLast, WriteOperationStatus, WriteStatusCommitted,
       PublishFailure
  <2>2. QED
    BY <1>3, <2>1 DEF Applying, Beginning, Mutating, Verifying
<1>18. QED
  BY <1>8, <1>9, <1>10, <1>11, <1>12, <1>13, <1>14, <1>15, <1>16, <1>17 DEF Apply

\* The loop begins nothing without a recovery, if no change set has several namespaces.
LEMMA LoopUnfailed ==
    ASSUME NoMulti, TypeOK, Unfailed,
           \/ Boot \/ Heartbeat \/ PullFails \/ Pull \/ Prune \/ RemoveDirectory
           \/ Crash \/ Plan \/ Record \/ UNCHANGED vars
    PROVE  Unfailed'
<1>1. agent \in Agent
  BY DEF TypeOK
<1>2. ~PullMulti
  BY PendingItem DEF PullMulti, NoMulti
<1>3. \/ agent' = agent
      \/ agent'.failed = agent.failed /\ agent'.pc \in {"recover", "pull", "report", "prune", "rmdir"}
      \/ agent' = Started
  <2>1. CASE Boot \/ Heartbeat \/ PullFails \/ PullNothing \/ PullOperation
    BY <1>1, <2>1 DEF Boot, Heartbeat, PullFails, PullNothing, PullOperation, Calling, Goto, Agent
  <2>2. CASE PullSingle
    BY <1>1, <2>2 DEF PullSingle, Calling, Agent
  <2>3. CASE Prune \/ RemoveDirectory
    BY <1>1, <2>3 DEF Prune, RemoveDirectory, Goto, Agent
  <2>4. CASE Crash \/ Plan \/ Record \/ UNCHANGED vars
    BY <2>4 DEF Crash, Plan, Record, vars
  <2>5. QED
    BY <1>2, <2>1, <2>2, <2>3, <2>4 DEF Pull
<1>4. CASE agent' = agent
  BY <1>4 DEF Unfailed, pc
<1>5. CASE agent'.pc \in {"recover", "pull", "report", "prune", "rmdir"}
  BY <1>5 DEF Unfailed, pc, Applying, Beginning, Mutating, Verifying
<1>6. CASE agent' = Started
  BY <1>6 DEF Started, Unfailed
<1>7. QED
  BY <1>3, <1>4, <1>5, <1>6

\* As long as no change set has several namespaces: no step stages a change after a
\* recovery that failed, also when it left no entry that says RECOVERY_REQUIRED (an
\* entry without a state, a status that was refused), until a recovery succeeds or the
\* agent is started again (transaction_recover_pending and its callers, agent.sh:804).
THEOREM FailedRecoveryFencesHold ==
    (\A i \in Items : Kind[i] # "multi") => (Spec => FailedRecoveryFences)
<1> DEFINE Fence == agent.failed => \A n \in Namespaces : staged'[n] \in {staged[n], 0}
<1>1. SUFFICES ASSUME NoMulti PROVE Spec => FailedRecoveryFences
  BY DEF NoMulti
<1>2. Init => Unfailed
  BY DEF Init, Started, Unfailed
<1>3. ControlInv /\ Unfailed /\ [Next]_vars => Unfailed'
  BY <1>1, RecoveryUnfailed, ApplyContinues, ContinuesUnfailed, LoopUnfailed
     DEF ControlInv, Next, AgentStep
<1>4. TypeOK /\ Unfailed /\ [Next]_vars => [Fence]_vars
  <2>1. SUFFICES ASSUME TypeOK, Unfailed, Next, agent.failed, NEW n \in Namespaces
                 PROVE  staged'[n] \in {staged[n], 0}
    BY DEF vars
  <2>2. ~Stage
    BY <2>1, StageApplies DEF Unfailed
  <2>3. QED
    BY <2>1, <2>2, OnlyStageStages
<1>5. ControlInv => TypeOK
  BY DEF ControlInv
<1>6. QED
  BY <1>2, <1>3, <1>4, <1>5, ControlHolds, PTL DEF Spec, FailedRecoveryFences
-----------------------------------------------------------------------------
(* The write-ahead log *)

\* The states of an entry that is not over.
Open == InFlight \cup {"RECOVERY_REQUIRED"}

\* No snapshot of an entry that is not over is lost, and no entry gets in flight.
Kept ==
    \A i \in Items :
        /\ journal[i].state \in Open =>
              journal'[i].state \in Open /\ journal'[i].backup = journal[i].backup
        /\ journal'[i].state \in InFlight => journal[i].state \in InFlight

SameData == config' = config /\ staged' = staged /\ commits' = commits

\* What is intended depends on the commits.
LEMMA IntendedSame == ASSUME commits' = commits PROVE \A n : Intended(n)' = Intended(n)
BY DEF Intended

\* So does what is intact.
LEMMA IntactSame == ASSUME SameData PROVE \A n : Intact(n)' <=> Intact(n)
BY IntendedSame DEF SameData, Intact

\* A snapshot is not an empty one.
LEMMA SnapshotThere ==
    ASSUME NEW i \in Items, NEW b, IsSnapshot(i, b)
    PROVE  b # <<>>
<1>1. DOMAIN b = Touches[i] /\ Touches[i] # {}
  BY Constants DEF IsSnapshot
<1>2. DOMAIN <<>> = {}
  OBVIOUS
<1>3. QED
  BY <1>1, <1>2

\* The largest of a set.
LEMMA MaxIs ==
    ASSUME NEW S, S \subseteq Nat, NEW m \in S, \A x \in S : x <= m
    PROVE  Max(S) = m
<1>1. \E x \in S : \A y \in S : x >= y
  OBVIOUS
<1>2. Max(S) \in S /\ \A y \in S : Max(S) >= y
  BY <1>1 DEF Max
<1>3. Max(S) \in Nat /\ m \in Nat /\ Max(S) >= m /\ Max(S) <= m
  BY <1>2
<1>4. QED
  BY <1>3

\* Where everything is intact there is nothing to recover.
LEMMA IntactRecoverable == ASSUME \A n \in Namespaces : Intact(n) PROVE Recoverable
BY DEF Recoverable, Intact

\* The snapshots stay what the configuration can be restored from.
LEMMA KeptLog ==
    ASSUME Backed, Recoverable, Kept, SameData
    PROVE  Backed' /\ Recoverable'
<1>1. \A n : Intended(n)' = Intended(n)
  BY IntendedSame DEF SameData
<1>2. ASSUME NEW i \in Items, journal'[i].state \in InFlight PROVE HoldsIntended(i)'
  <2>1. journal[i].state \in InFlight /\ journal'[i].backup = journal[i].backup
    BY <1>2 DEF Kept, Open
  <2>2. HoldsIntended(i)
    BY <2>1 DEF Backed
  <2>3. QED
    BY <1>1, <2>1, <2>2 DEF HoldsIntended
<1>3. ASSUME NEW n \in Namespaces, config'[n] # Intended(n)' \/ staged'[n] # 0
      PROVE  \E i \in Items : /\ journal'[i].state \in InFlight \cup {"RECOVERY_REQUIRED"}
                              /\ n \in Touches[i] /\ journal'[i].backup # <<>>
                              /\ journal'[i].backup[n] = Intended(n)'
  <2>1. config[n] # Intended(n) \/ staged[n] # 0
    BY <1>1, <1>3 DEF SameData
  <2>2. PICK i \in Items : /\ journal[i].state \in InFlight \cup {"RECOVERY_REQUIRED"}
                           /\ n \in Touches[i] /\ journal[i].backup # <<>>
                           /\ journal[i].backup[n] = Intended(n)
    BY <2>1 DEF Recoverable
  <2>3. journal'[i].state \in Open /\ journal'[i].backup = journal[i].backup
    BY <2>2 DEF Kept, Open
  <2>4. QED
    BY <1>1, <2>2, <2>3 DEF Open
<1>4. QED
  BY <1>2, <1>3 DEF Backed, Recoverable

\* The order of generations, when the device goes on with its item.
LEMMA OrderKept ==
    ASSUME InOrderOf, server' = server, commits' = commits, agent'.item = agent.item,
           Begun' => Begun
    PROVE  InOrderOf'
BY DEF InOrderOf

\* A step to a place where nothing is said of the files.
LEMMA LogRest ==
    ASSUME LogInv, Kept, SameData, InOrderOf', agent'.pc \notin {"begin", "restore"} \cup Applying
    PROVE  LogInv'
<1>1. Backed' /\ Recoverable'
  BY KeptLog DEF LogInv
<1>2. Sole' /\ Files'
  BY DEF Sole, Files, pc, Applying, Beginning, Mutating, Verifying
<1>3. QED
  BY <1>1, <1>2 DEF LogInv

\* States that keep the snapshots.
LEMMA KeptState ==
    ASSUME NEW i \in Items, NEW s \in Open, OnlyState(i, s),
           s \in InFlight => journal[i].state \in InFlight
    PROVE  Kept
BY DEF Kept, OnlyState

\* A snapshot that goes with the end of the entry.
LEMMA KeptBackup ==
    ASSUME NEW i \in Items, OnlyBackup(i), journal[i].state \in Done
    PROVE  Kept
BY DEF Kept, OnlyBackup, Open, InFlight, Done

\* An entry that was over, or not yet.
LEMMA KeptEntry ==
    ASSUME NEW i \in Items, NEW e, OnlyEntry(i, e), e.state \notin Open, journal[i].state \notin Open
    PROVE  Kept
BY DEF Kept, OnlyEntry, Open

\* Nothing changes in the journal.
LEMMA KeptSame == ASSUME journal' = journal PROVE Kept
BY DEF Kept

\* A transaction starts with everything intact.
LEMMA NothingOpen ==
    ASSUME Sound, Recoverable, Unrecovered = {}
    PROVE  \A n \in Namespaces : Intact(n)
<1>1. \A i \in Items : journal[i].state \notin Open
  BY DEF Sound, Unrecovered, Open, InFlight, Done
<1>2. QED
  BY <1>1 DEF Recoverable, Intact, Open

\* A recovery that returns.
LEMMA ReturnLog ==
    ASSUME ControlInv, LogInv, pc \in {"recover"} \cup RecoveringOne, Kept, SameData,
           server' = server,
           \/ agent' = Returned(FALSE)
           \/ agent' = Returned(TRUE) /\ Unrecovered = {} /\ journal' = journal
    PROVE  LogInv'
<1>1. TypeOK
  BY DEF ControlInv
<1>2. /\ SameWork /\ agent'.pc \in {"report", "operation", "publish", "prune", "begin"}
      /\ agent'.pc = "begin" => agent.from = "begin" /\ Unrecovered = {} /\ journal' = journal
  BY <1>1, ReturnedNo, ReturnedYes
<1>3. Begun' => Begun
  BY <1>2 DEF Begun, pc, Applying, Beginning, Mutating, Verifying, RecoveringOne
<1>4. InOrderOf'
  BY <1>2, <1>3, OrderKept DEF LogInv, SameWork, SameData
<1>5. CASE agent'.pc # "begin"
  BY <1>2, <1>4, <1>5, LogRest DEF Applying, Beginning, Mutating, Verifying
<1>6. CASE agent'.pc = "begin"
  <2>1. Backed' /\ Recoverable'
    BY KeptLog DEF LogInv
  <2>2. Unrecovered' = {}
    BY <1>2, <1>6 DEF Unrecovered
  <2>3. Sole' /\ Files'
    BY <1>6, <2>2 DEF Sole, Files, pc, Applying, Beginning, Mutating, Verifying
  <2>4. QED
    BY <1>4, <2>1, <2>3 DEF LogInv
<1>7. QED
  BY <1>5, <1>6

\* The recovery of one entry that returns.
LEMMA OneReturnLog ==
    ASSUME ControlInv, LogInv, pc \in RecoveringOne, Kept, SameData, server' = server,
           \/ agent' = OneReturned(FALSE)
           \/ agent' = OneReturned(TRUE) /\ journal' = journal
    PROVE  LogInv'
<1>1. CASE agent' = Returned(FALSE) \/ (agent' = Returned(TRUE) /\ agent.phase = "last" /\ journal' = journal)
  <2>1. agent.phase = "last" => Unrecovered = {}
    BY DEF ControlInv, LastPhase
  <2>2. QED
    BY <1>1, <2>1, ReturnLog
<1>2. CASE agent' = [agent EXCEPT !.pc = "recover", !.phase = "scan"]
  <2>1. agent'.pc = "recover" /\ agent'.from = agent.from /\ agent'.item = agent.item
    BY <1>2 DEF ControlInv, TypeOK, Agent
  <2>2. Begun' => Begun
    BY <2>1 DEF Begun, pc, Applying, Beginning, Mutating, Verifying, RecoveringOne
  <2>3. InOrderOf'
    BY <2>1, <2>2, OrderKept DEF LogInv, SameData
  <2>4. QED
    BY <2>1, <2>3, LogRest DEF Applying, Beginning, Mutating, Verifying
<1>3. QED
  BY <1>1, <1>2 DEF OneReturned

\* A step of the recovery to another place of it.
LEMMA MoveLog ==
    ASSUME LogInv, pc \in {"recover"} \cup RecoveringOne, Kept, SameData, server' = server,
           agent'.pc \in RecoveringOne, agent'.from = agent.from, agent'.item = agent.item,
           agent'.pc = "restore" => agent'.left = Touches[agent'.rec]
    PROVE  LogInv'
<1>1. Begun' => Begun
  BY DEF Begun, pc, Applying, Beginning, Mutating, Verifying, RecoveringOne
<1>2. InOrderOf'
  BY <1>1, OrderKept DEF LogInv, SameData
<1>3. CASE agent'.pc # "restore"
  BY <1>2, <1>3, LogRest DEF Applying, Beginning, Mutating, Verifying, RecoveringOne
<1>4. CASE agent'.pc = "restore"
  <2>1. Backed' /\ Recoverable'
    BY KeptLog DEF LogInv
  <2>2. Sole' /\ Files'
    BY <1>4 DEF Sole, Files, pc, Applying, Beginning, Mutating, Verifying
  <2>3. QED
    BY <1>2, <2>1, <2>2 DEF LogInv
<1>5. QED
  BY <1>3, <1>4

\* A step to the loop of the agent.
LEMMA LoopLog ==
    ASSUME LogInv, Kept, SameData, server' = server, agent'.item = agent.item,
           agent'.pc \in {"report", "pull", "prune", "rmdir", "deactivate", "last", "operation",
                          "committed", "publish"}
    PROVE  LogInv'
<1>1. ~Begun'
  BY DEF Begun, pc, Applying, Beginning, Mutating, Verifying, RecoveringOne
<1>2. InOrderOf'
  BY <1>1, OrderKept DEF LogInv, SameData
<1>3. QED
  BY <1>2, LogRest DEF Applying, Beginning, Mutating, Verifying

\* The loop: heartbeat, pulls, prune, and the start of the process.
LEMMA LoopStepLog ==
    ASSUME NoMulti, ControlInv, LogInv,
           Boot \/ Heartbeat \/ PullFails \/ Pull \/ Prune \/ RemoveDirectory
    PROVE  LogInv'
<1>1. TypeOK /\ Sound /\ InOrderOf
  BY DEF ControlInv, LogInv
<1>2. SameData /\ server' = server
  BY DEF Boot, Heartbeat, PullFails, Pull, PullNothing, PullOperation, PullSingle, PullMulti,
     Prune, RemoveDirectory, SameData
<1>3. CASE Boot
  <2>1. agent'.pc = "recover" /\ agent'.from = "boot" /\ agent'.item = agent.item
    BY <1>1, <1>3 DEF Boot, Calling, TypeOK, Agent
  <2>2. ~Begun'
    BY <2>1 DEF Begun, pc, Applying, Beginning, Mutating, Verifying, RecoveringOne
  <2>3. InOrderOf'
    BY <1>1, <1>2, <2>1, <2>2, OrderKept DEF SameData
  <2>4. QED
    BY <1>2, <1>3, <2>1, <2>3, KeptSame, LogRest DEF Boot, Applying, Beginning, Mutating, Verifying
<1>4. CASE Heartbeat \/ PullFails \/ PullNothing
  <2>1. PICK p \in {"pull", "report", "prune"} : Goto(p)
    BY <1>4 DEF Heartbeat, PullFails, PullNothing
  <2>2. agent'.pc = p /\ SameWork
    BY <1>1, <2>1, GotoFact DEF Pcs
  <2>3. journal' = journal
    BY <1>4 DEF Heartbeat, PullFails, PullNothing
  <2>4. QED
    BY <1>2, <2>2, <2>3, KeptSame, LoopLog DEF SameWork
<1>5. CASE PullOperation \/ PullSingle
  <2>1. server.pending # 0 /\ journal' = journal
    BY <1>5 DEF PullOperation, PullSingle
  <2>2. server.pending \in Items /\ agent \in Agent
    BY <1>1, <2>1, PendingItem DEF TypeOK
  <2>3. \/ agent' = [agent EXCEPT !.pc = "prune", !.item = server.pending]
        \/ agent' = [Calling("begin") EXCEPT !.item = server.pending]
    BY <1>5, Zenon DEF PullOperation, PullSingle
  <2>4. agent'.pc \in {"prune", "recover"} /\ agent'.item = server.pending
    BY <2>2, <2>3 DEF Calling, Agent
  <2>5. \A c \in commits : c <= server.pending
    BY <1>1, <2>1 DEF InOrderOf
  <2>6. server.planned \in Nat
    BY <1>1, Constants DEF TypeOK
  <2>7. InOrderOf'
    BY <1>1, <1>2, <2>1, <2>4, <2>5, <2>6 DEF InOrderOf, SameData
  <2>8. QED
    BY <1>2, <2>1, <2>4, <2>7, KeptSame, LogRest DEF Applying, Beginning, Mutating, Verifying
<1>6. CASE PullMulti
  <2>1. server.pending \in Items
    BY <1>1, <1>6, PendingItem DEF PullMulti
  <2>2. QED
    BY <1>6, <2>1 DEF PullMulti, NoMulti
<1>7. CASE Prune
  <2>1. CASE Goto("report") /\ journal' = journal
    <3>1. agent'.pc = "report" /\ SameWork
      BY <1>1, <2>1, GotoFact DEF Pcs
    <3>2. QED
      BY <1>2, <2>1, <3>1, KeptSame, LoopLog DEF SameWork
  <2>2. ASSUME NEW i \in Items, Prunable(i), Unlink(i),
               agent' = [agent EXCEPT !.pc = "rmdir", !.rec = i]
        PROVE  LogInv'
    <3>1. agent'.pc = "rmdir" /\ agent'.item = agent.item
      BY <1>1, <2>2 DEF TypeOK, Agent
    <3>2. journal[i].state \in Done
      BY <2>2 DEF Prunable
    <3>3. /\ journal' \in [Items -> Entry] /\ \A j \in Items : journal'[j].backup \in Backups(j)
          /\ \A j \in Items : j # i => journal'[j] = journal[j]
          /\ journal'[i].state \in {"NONE", journal[i].state}
      BY <1>1, <2>2, <3>2, UnlinkFact
    <3>4. OnlyEntry(i, journal'[i])
      BY <3>3 DEF OnlyEntry
    <3>5. Kept
      BY <3>2, <3>3, <3>4, KeptEntry DEF Open, InFlight, Done
    <3>6. QED
      BY <1>2, <3>1, <3>5, LoopLog
  <2>3. QED
    BY <1>7, <2>1, <2>2 DEF Prune
<1>8. CASE RemoveDirectory
  <2>1. agent.rec \in Items /\ journal[agent.rec].state \notin Open
    BY <1>8 DEF ControlInv, RemoveDirectory, At, Known, AtWork, pc, Open, InFlight, Done
  <2>2. agent'.pc = "prune" /\ SameWork
    BY <1>1, <1>8, GotoFact DEF RemoveDirectory, Pcs
  <2>3. journal \in [Items -> Entry] /\ journal' = [journal EXCEPT ![agent.rec] = NoEntry]
    BY <1>1, <1>8 DEF RemoveDirectory, TypeOK
  <2>4. NoEntry.state \notin Open
    BY DEF NoEntry, Open, InFlight
  <2>5. Kept
    BY <2>1, <2>3, <2>4 DEF Kept, Open
  <2>6. QED
    BY <1>2, <2>2, <2>5, LoopLog DEF SameWork
<1>9. QED
  BY <1>3, <1>4, <1>5, <1>6, <1>7, <1>8 DEF Pull

\* transaction_recover_pending reads the journal.
LEMMA RecoverPendingLog == ASSUME ControlInv, LogInv, RecoverPending PROVE LogInv'
<1>1. TypeOK /\ pc = "recover" /\ journal' = journal /\ SameData /\ server' = server
  BY DEF ControlInv, RecoverPending, At, pc, SameData
<1>2. ASSUME NEW i, NEW ph, agent' = Recovering(i, ph) PROVE LogInv'
  <2>1. agent'.pc = "one" /\ agent'.from = agent.from /\ agent'.item = agent.item
    BY <1>1, <1>2 DEF Recovering, TypeOK, Agent
  <2>2. QED
    BY <1>1, <2>1, KeptSame, MoveLog DEF RecoveringOne
<1>3. CASE agent' = Returned(FALSE) \/ (agent' = Returned(TRUE) /\ Unrecovered = {})
  BY <1>1, <1>3, KeptSame, ReturnLog
<1>4. \/ agent' = Returned(FALSE)
      \/ agent' = Returned(TRUE) /\ Unrecovered = {}
      \/ agent' = Recovering(marks.active, "active")
      \/ agent' = Recovering(FirstOf(Unrecovered), "scan")
      \/ agent' = Recovering(Max(OverChangeSets), "last")
  BY Zenon DEF RecoverPending
<1>5. QED
  BY <1>2, <1>3, <1>4

\* transaction_recover_one up to the rollback.
LEMMA RecoverOneLog == ASSUME ControlInv, LogInv, RecoverOne PROVE LogInv'
<1> DEFINE i == agent.rec
<1>1. TypeOK /\ Sound /\ pc \in RecoveringOne /\ i \in Items
  BY DEF ControlInv, RecoverOne, At, pc, Known, RecoveringOne
<1>2. SameData /\ server' = server
  BY DEF RecoverOne, SameData
<1>3. ASSUME NEW p \in {"markStatus", "markState", "rollback"}, Goto(p), journal' = journal
      PROVE  LogInv'
  <2>1. agent'.pc = p /\ SameWork
    BY <1>1, <1>3, GotoFact DEF Pcs, RecoveringOne
  <2>2. QED
    BY <1>1, <1>2, <1>3, <2>1, KeptSame, MoveLog DEF SameWork, RecoveringOne
<1>4. ASSUME journal' = journal, agent' = OneReturned(TRUE) \/ agent' = OneReturned(FALSE)
      PROVE  LogInv'
  BY <1>1, <1>2, <1>4, KeptSame, OneReturnLog
<1>5. ASSUME SetState(i, "ROLLING_BACK"), journal[i].state \in InFlight,
             agent' = [agent EXCEPT !.pc = "restore", !.left = Touches[i]]
      PROVE  LogInv'
  <2>1. OnlyState(i, "ROLLING_BACK")
    BY <1>1, <1>5, StateFact DEF JournalStates, InFlight
  <2>2. Kept
    BY <1>1, <1>5, <2>1, KeptState DEF Open, InFlight
  <2>3. /\ agent'.pc = "restore" /\ agent'.from = agent.from /\ agent'.item = agent.item
        /\ agent'.left = Touches[agent'.rec]
    BY <1>1, <1>5 DEF TypeOK, Agent
  <2>4. QED
    BY <1>1, <1>2, <2>2, <2>3, MoveLog DEF RecoveringOne
<1>6. CASE RecoverDone(i) \/ RecoverRefused(i)
  <2>1. journal' = journal /\ (agent' = OneReturned(TRUE) \/ agent' = OneReturned(FALSE))
    BY <1>6 DEF RecoverDone, RecoverRefused
  <2>2. QED
    BY <1>4, <2>1
<1>7. CASE RecoverInFlight(i)
  <2>1. CASE Kind[i] = "single"
    <3>1. journal' = journal /\ (Goto("rollback") \/ Goto("markState"))
      BY <1>7, <2>1 DEF RecoverInFlight
    <3>2. QED
      BY <1>3, <3>1
  <2>2. CASE Kind[i] # "single"
    BY <1>5, <1>7, <2>2 DEF RecoverInFlight
  <2>3. QED
    BY <2>1, <2>2
<1>8. CASE Goto("markStatus") /\ journal' = journal
  BY <1>3, <1>8
<1>9. QED
  BY <1>6, <1>7, <1>8 DEF RecoverOne

\* The rollback starts.
LEMMA RollingBackLog == ASSUME ControlInv, LogInv, RollingBack PROVE LogInv'
<1> DEFINE i == agent.rec
<1>1. pc = "rollback" /\ pc \in RecoveringOne
  BY DEF RollingBack, At, pc, RecoveringOne
<1>2. TypeOK /\ i \in Items /\ journal[i].state \in InFlight
  BY <1>1, AtRecovery DEF ControlInv, AtWork
<1>3. OnlyState(i, "ROLLING_BACK")
  BY <1>2, StateFact DEF RollingBack, JournalStates, InFlight
<1>4. Kept
  BY <1>2, <1>3, KeptState DEF Open, InFlight
<1>5. /\ agent'.pc = "restore" /\ agent'.from = agent.from /\ agent'.item = agent.item
      /\ agent'.left = Touches[agent'.rec]
  BY <1>2 DEF RollingBack, TypeOK, Agent
<1>6. SameData /\ server' = server
  BY DEF RollingBack, SameData
<1>7. QED
  BY <1>1, <1>4, <1>5, <1>6, MoveLog DEF RecoveringOne

\* A namespace gets back what is intended for it.
LEMMA RestoreLog == ASSUME ControlInv, LogInv, Restore PROVE LogInv'
<1> DEFINE i == agent.rec
           n == Min(agent.left)
<1>1. /\ pc = "restore" /\ i \in Items /\ n \in agent.left /\ n \in Touches[i]
      /\ config' = [config EXCEPT ![n] = journal[i].backup[n]]
      /\ staged' = [staged EXCEPT ![n] = 0]
  BY RestoreFact
<1>2. /\ TypeOK /\ journal[i].state \in InFlight
      /\ config \in [Namespaces -> Content] /\ staged \in [Namespaces -> Content]
  BY <1>1 DEF ControlInv, AtWork, TypeOK
<1>3. UNCHANGED <<journal, commits, server>>
  BY DEF Restore
<1>4. \A m : Intended(m)' = Intended(m)
  BY <1>3, IntendedSame
<1>5. journal[i].backup[n] = Intended(n)
  BY <1>1, <1>2 DEF LogInv, Backed, HoldsIntended
<1>6. n \in Namespaces
  BY <1>1, Constants
<1>7. /\ config'[n] = Intended(n) /\ staged'[n] = 0
      /\ \A m \in Namespaces : m # n => config'[m] = config[m] /\ staged'[m] = staged[m]
  BY <1>1, <1>2, <1>5, <1>6
<1>8. \A m \in Namespaces : Intact(m) \/ m = n => Intact(m)'
  BY <1>4, <1>7 DEF Intact
<1>9. Recoverable'
  <2>1. ASSUME NEW m \in Namespaces, config'[m] # Intended(m)' \/ staged'[m] # 0
        PROVE  \E j \in Items : /\ journal'[j].state \in InFlight \cup {"RECOVERY_REQUIRED"}
                                /\ m \in Touches[j] /\ journal'[j].backup # <<>>
                                /\ journal'[j].backup[m] = Intended(m)'
    <3>1. config[m] # Intended(m) \/ staged[m] # 0
      BY <1>4, <1>7, <2>1
    <3>2. PICK j \in Items : /\ journal[j].state \in InFlight \cup {"RECOVERY_REQUIRED"}
                             /\ m \in Touches[j] /\ journal[j].backup # <<>>
                             /\ journal[j].backup[m] = Intended(m)
      BY <3>1 DEF LogInv, Recoverable
    <3>3. QED
      BY <1>3, <1>4, <3>2
  <2>2. QED
    BY <2>1 DEF Recoverable
<1>10. Backed'
  BY <1>3, <1>4 DEF LogInv, Backed, HoldsIntended
<1>11. /\ agent'.from = agent.from /\ agent'.item = agent.item /\ agent'.rec = agent.rec
       /\ \/ agent'.pc = "restore" /\ agent'.left = agent.left \ {n}
          \/ agent'.pc \in {"markStatus", "markState"}
  <2>1. agent \in Agent /\ agent.pc = "restore"
    BY <1>1, <1>2 DEF TypeOK, pc
  <2>2. \/ agent' = [agent EXCEPT !.left = agent.left \ {n}]
        \/ Goto("markStatus") \/ Goto("markState")
    BY <2>1 DEF Restore
  <2>3. CASE agent' = [agent EXCEPT !.left = agent.left \ {n}]
    BY <2>1, <2>3 DEF Agent
  <2>4. QED
    BY <2>1, <2>2, <2>3 DEF Goto, Agent
<1>12. Begun' => Begun
  BY <1>1, <1>11 DEF Begun, pc, Applying, Beginning, Mutating, Verifying, RecoveringOne
<1>13. InOrderOf'
  BY <1>3, <1>11, <1>12, OrderKept DEF LogInv
<1>14. agent'.pc = "restore" => \A m \in Touches[i] \ agent'.left : Intact(m)'
  <2>1. ASSUME agent'.pc = "restore", NEW m \in Touches[i] \ agent'.left PROVE Intact(m)'
    <3>1. m \in Namespaces /\ (m = n \/ m \in Touches[i] \ agent.left)
      BY <1>1, <1>11, <2>1, Constants
    <3>2. QED
      BY <1>1, <1>8, <3>1 DEF LogInv, Files
  <2>2. QED
    BY <2>1
<1>15. Sole' /\ Files'
  BY <1>11, <1>14 DEF Sole, Files, pc, Applying, Beginning, Mutating, Verifying
<1>16. QED
  BY <1>9, <1>10, <1>13, <1>15 DEF LogInv

\* An entry is over when everything it touched is intact.
LEMMA RestoredLog == ASSUME ControlInv, LogInv, Restored PROVE LogInv'
<1> DEFINE i == agent.rec
<1>1. pc = "restore" /\ pc \in RecoveringOne /\ agent.left = {}
  BY DEF Restored, At, pc, RecoveringOne
<1>2. TypeOK /\ i \in Items
  BY <1>1, AtRecovery
<1>3. OnlyState(i, "RESTORED")
  BY <1>2, StateFact DEF Restored, JournalStates, Done
<1>4. SameData /\ server' = server
  BY DEF Restored, SameData
<1>5. \A n \in Touches[i] : Intact(n)
  BY <1>1 DEF LogInv, Files
<1>6. \A n : Intended(n)' = Intended(n)
  BY <1>4, IntendedSame DEF SameData
<1>7. Recoverable'
  <2>1. ASSUME NEW n \in Namespaces, config'[n] # Intended(n)' \/ staged'[n] # 0
        PROVE  \E j \in Items : /\ journal'[j].state \in InFlight \cup {"RECOVERY_REQUIRED"}
                                /\ n \in Touches[j] /\ journal'[j].backup # <<>>
                                /\ journal'[j].backup[n] = Intended(n)'
    <3>1. config[n] # Intended(n) \/ staged[n] # 0
      BY <1>4, <1>6, <2>1 DEF SameData
    <3>2. PICK j \in Items : /\ journal[j].state \in InFlight \cup {"RECOVERY_REQUIRED"}
                             /\ n \in Touches[j] /\ journal[j].backup # <<>>
                             /\ journal[j].backup[n] = Intended(n)
      BY <3>1 DEF LogInv, Recoverable
    <3>3. j # i
      BY <1>5, <3>1, <3>2 DEF Intact
    <3>4. journal'[j].state = journal[j].state /\ journal'[j].backup = journal[j].backup
      BY <1>3, <3>2, <3>3 DEF OnlyState
    <3>5. QED
      BY <1>6, <3>2, <3>4
  <2>2. QED
    BY <2>1 DEF Recoverable
<1>8. Backed'
  <2>1. ASSUME NEW j \in Items, journal'[j].state \in InFlight PROVE HoldsIntended(j)'
    <3>1. j # i /\ journal[j].state \in InFlight /\ journal'[j].backup = journal[j].backup
      BY <1>3, <2>1 DEF OnlyState, InFlight
    <3>2. QED
      BY <1>6, <3>1 DEF LogInv, Backed, HoldsIntended
  <2>2. QED
    BY <2>1 DEF Backed
<1>9. agent'.pc = "forget" /\ SameWork
  BY <1>2, GotoFact DEF Restored, Pcs, RecoveringOne
<1>10. Begun' => Begun
  BY <1>1, <1>9 DEF Begun, pc, Applying, Beginning, Mutating, Verifying, RecoveringOne, SameWork
<1>11. InOrderOf'
  BY <1>4, <1>9, <1>10, OrderKept DEF LogInv, SameWork, SameData
<1>12. Sole' /\ Files'
  BY <1>9 DEF Sole, Files, pc, Applying, Beginning, Mutating, Verifying
<1>13. QED
  BY <1>7, <1>8, <1>11, <1>12 DEF LogInv

\* The rest of the recovery.
LEMMA RecoveryEndLog ==
    ASSUME ControlInv, LogInv, Forget \/ RecordLast \/ Announce \/ MarkStatus \/ MarkState
    PROVE  LogInv'
<1> DEFINE i == agent.rec
<1>1. pc \in RecoveringOne
  BY DEF Forget, RecordLast, Announce, MarkStatus, MarkState, At, pc, RecoveringOne
<1>2. TypeOK /\ i \in Items
  BY <1>1, AtRecovery
<1>3. SameData /\ server' = server
  BY DEF Forget, RecordLast, Announce, MarkStatus, MarkState, SameData
<1>4. CASE Forget
  <2>1. journal[i].state \in Done
    BY <1>4 DEF Forget, At, ControlInv, AtWork, pc, Done
  <2>2. OnlyBackup(i)
    BY <1>2, <1>4, BackupFact DEF Forget
  <2>3. agent'.pc = "recordLast" /\ SameWork
    BY <1>2, <1>4, GotoFact DEF Forget, Pcs, RecoveringOne
  <2>4. QED
    BY <1>1, <1>2, <1>3, <2>1, <2>2, <2>3, KeptBackup, MoveLog DEF SameWork, RecoveringOne
<1>5. CASE RecordLast \/ MarkStatus
  <2>1. PICK p \in {"announce", "markState"} : Goto(p)
    BY <1>5 DEF RecordLast, MarkStatus
  <2>2. agent'.pc = p /\ SameWork
    BY <1>2, <2>1, GotoFact DEF Pcs, RecoveringOne
  <2>3. journal' = journal
    BY <1>5 DEF RecordLast, MarkStatus
  <2>4. QED
    BY <1>1, <1>3, <2>2, <2>3, KeptSame, MoveLog DEF SameWork, RecoveringOne
<1>6. CASE Announce
  <2>1. agent' = OneReturned(TRUE) \/ agent' = OneReturned(FALSE)
    <3>1. StatusAllowed(i, "RESTORED") \in BOOLEAN
      BY DEF StatusAllowed
    <3>2. QED
      BY <1>6, <3>1 DEF Announce
  <2>2. journal' = journal
    BY <1>6 DEF Announce
  <2>3. QED
    BY <1>1, <1>3, <2>1, <2>2, KeptSame, OneReturnLog
<1>7. CASE MarkState
  <2>1. OnlyState(i, "RECOVERY_REQUIRED")
    BY <1>2, <1>7, StateFact DEF MarkState, JournalStates
  <2>2. Kept
    BY <1>2, <2>1, KeptState DEF Open, InFlight
  <2>3. QED
    BY <1>1, <1>3, <1>7, <2>2, OneReturnLog DEF MarkState
<1>8. QED
  BY <1>4, <1>5, <1>6, <1>7

\* An item of one namespace.
LEMMA OneNamespace ==
    ASSUME NoMulti, NEW i \in Items, NEW m \in Touches[i], NEW n \in Touches[i]
    PROVE  m = n
<1>1. IsFiniteSet(Touches[i]) /\ Cardinality(Touches[i]) = 1
  BY ItemAssumption DEF NoMulti
<1>2. PICK x : Touches[i] = {x}
  BY <1>1, FS_Singleton
<1>3. QED
  BY <1>2

\* Only the entry of the item changes.
Alone == \A j \in Items : j # agent.item => journal'[j] = journal[j]

\* No other transaction is open.
LEMMA SoleKept ==
    ASSUME Unrecovered \subseteq {agent.item}, Alone
    PROVE  Unrecovered' \subseteq {agent.item}
BY DEF Unrecovered, Alone

\* Those steps of a transaction that come before the configuration is touched.
LEMMA BeginningLog ==
    ASSUME LogInv, pc \in Beginning, agent'.pc \in Beginning, agent'.item = agent.item,
           SameData, server' = server, Alone, agent.item \in Items,
           \/ journal'[agent.item].state \in InFlight
           \/ agent'.pc = "journal" /\ journal'[agent.item].level >= 1
           => \A n \in Touches[agent.item] : journal'[agent.item].backup[n] = Intended(n)
    PROVE  LogInv'
<1>1. \A n : Intended(n)' = Intended(n)
  BY IntendedSame DEF SameData
<1>2. \A n \in Namespaces : Intact(n)'
  BY IntactSame DEF LogInv, Files
<1>3. Recoverable'
  BY <1>2 DEF Recoverable, Intact
<1>4. \/ journal'[agent.item].state \in InFlight
      \/ agent'.pc = "journal" /\ journal'[agent.item].level >= 1
      => HoldsIntended(agent.item)'
  BY <1>1 DEF HoldsIntended
<1>5. Backed'
  <2>1. ASSUME NEW j \in Items, journal'[j].state \in InFlight PROVE HoldsIntended(j)'
    <3>1. CASE j = agent.item
      BY <1>4, <2>1, <3>1 DEF HoldsIntended
    <3>2. CASE j # agent.item
      <4>1. journal'[j] = journal[j] /\ HoldsIntended(j)
        BY <2>1, <3>2 DEF Alone, LogInv, Backed
      <4>2. QED
        BY <1>1, <4>1 DEF HoldsIntended
    <3>3. QED
      BY <3>1, <3>2
  <2>2. QED
    BY <2>1 DEF Backed
<1>6. pc \in Applying /\ agent'.pc \in Applying /\ agent'.pc \notin {"begin", "commit", "restore"} \cup Verifying
  BY DEF Applying, Beginning, Verifying
<1>7. Sole'
  <2>1. Unrecovered \subseteq {agent.item}
    BY <1>6 DEF LogInv, Sole
  <2>2. QED
    BY <1>6, <2>1, SoleKept DEF Sole, pc
<1>8. Files'
  BY <1>2, <1>4, <1>6 DEF Files, pc
<1>9. InOrderOf'
  BY <1>6, OrderKept DEF LogInv, SameData, Begun
<1>10. QED
  BY <1>3, <1>5, <1>7, <1>8, <1>9 DEF LogInv

\* The other steps that leave the configuration alone and go on.
LEMMA ApplyLog ==
    ASSUME LogInv, pc \in Applying, agent'.pc \in Applying \ {"journal", "commit"},
           agent'.item = agent.item, SameData, server' = server, Alone, Kept,
           agent'.pc \in Beginning => pc \in Beginning,
           agent'.pc \in Verifying => pc \in Verifying
    PROVE  LogInv'
<1>1. Backed' /\ Recoverable'
  BY KeptLog DEF LogInv
<1>2. agent'.pc \notin {"begin", "restore"}
  BY DEF Applying, Beginning, Mutating, Verifying
<1>3. Sole'
  <2>1. Unrecovered \subseteq {agent.item}
    BY DEF LogInv, Sole
  <2>2. QED
    BY <1>2, <2>1, SoleKept DEF Sole, pc
<1>4. pc' \in Beginning => \A n \in Namespaces : Intact(n)'
  BY IntactSame DEF LogInv, Files, pc
<1>5. pc' \in Verifying => \A n \in Touches[agent'.item] : config'[n] = agent'.item /\ staged'[n] = 0
  BY DEF LogInv, Files, pc, SameData
<1>6. Files'
  BY <1>2, <1>4, <1>5 DEF Files, pc
<1>7. InOrderOf'
  BY OrderKept DEF LogInv, SameData, Begun
<1>8. QED
  BY <1>1, <1>3, <1>6, <1>7 DEF LogInv

\* A transaction that gives up, or is left to the recovery.
LEMMA CalledLog ==
    ASSUME ControlInv, LogInv, agent' = Calling("stage") \/ agent' = Calling("verify"),
           Kept, SameData, server' = server
    PROVE  LogInv'
<1>1. agent'.pc = "recover" /\ agent'.from # "begin" /\ agent'.item = agent.item
  BY DEF ControlInv, TypeOK, Calling, Agent
<1>2. ~Begun'
  BY <1>1 DEF Begun, pc, Applying, Beginning, Mutating, Verifying, RecoveringOne
<1>3. InOrderOf'
  BY <1>1, <1>2, OrderKept DEF LogInv, SameData
<1>4. QED
  BY <1>1, <1>3, LogRest DEF Applying, Beginning, Mutating, Verifying

\* transaction_begin after its recovery.
LEMMA BeginLog == ASSUME ControlInv, LogInv, Begin PROVE LogInv'
<1> DEFINE i == agent.item
<1>1. pc = "begin" /\ Unrecovered = {}
  BY DEF Begin, At, pc, LogInv, Sole
<1>2. TypeOK /\ Sound /\ i \in Items
  BY <1>1, AtApply
<1>3. SameData /\ server' = server
  BY DEF Begin, SameData
<1>4. ASSUME NEW p \in {"prune", "committed", "publish"}, Goto(p), journal' = journal PROVE LogInv'
  <2>1. agent'.pc = p /\ SameWork
    BY <1>2, <1>4, GotoFact DEF Pcs, Finishing
  <2>2. QED
    BY <1>3, <1>4, <2>1, KeptSame, LoopLog DEF SameWork
<1>5. ASSUME Goto("mkdir"), Alone, Kept PROVE LogInv'
  <2>1. agent'.pc = "mkdir" /\ SameWork
    BY <1>2, <1>5, GotoFact DEF Pcs, Beginning
  <2>2. Backed' /\ Recoverable'
    BY <1>3, <1>5, KeptLog DEF LogInv
  <2>3. \A n \in Namespaces : Intact(n)'
    BY <1>1, <1>2, <1>3, NothingOpen, IntactSame DEF LogInv
  <2>4. Unrecovered' \subseteq {i}
    BY <1>1, <1>5, SoleKept
  <2>5. Sole' /\ Files'
    BY <2>1, <2>3, <2>4 DEF Sole, Files, pc, SameWork, Verifying
  <2>6. InOrderOf'
    BY <1>1, <1>3, <2>1, OrderKept DEF LogInv, SameData, SameWork, Begun
  <2>7. QED
    BY <2>2, <2>5, <2>6 DEF LogInv
<1>6. ASSUME Goto("mkdir"), journal' = journal PROVE LogInv'
  BY <1>5, <1>6, KeptSame DEF Alone
<1>7. ASSUME Goto("mkdir"), journal[i].state = "RESTORED", Unlink(i) PROVE LogInv'
  <2>1. /\ journal' \in [Items -> Entry] /\ \A j \in Items : journal'[j].backup \in Backups(j)
        /\ \A j \in Items : j # i => journal'[j] = journal[j]
        /\ journal'[i].state \in {"NONE", "RESTORED"}
    BY <1>2, <1>7, UnlinkFact DEF Done
  <2>2. OnlyEntry(i, journal'[i])
    BY <2>1 DEF OnlyEntry
  <2>3. Kept
    BY <1>2, <1>7, <2>1, <2>2, KeptEntry DEF Open, InFlight
  <2>4. QED
    BY <1>5, <1>7, <2>1, <2>3 DEF Alone
<1>8. \/ (Goto("prune") \/ Goto("committed") \/ Goto(GiveUp)) /\ journal' = journal
      \/ Goto("mkdir") /\ (journal' = journal \/ (journal[i].state = "RESTORED" /\ Unlink(i)))
  BY Zenon DEF Begin
<1>9. QED
  BY <1>4, <1>6, <1>7, <1>8, GiveUpFact

\* The journal of a transaction, up to its state.
LEMMA JournalLog ==
    ASSUME NoMulti, ControlInv, LogInv, MakeDirectory \/ WriteManifest \/ WriteApplying
    PROVE  LogInv'
<1> DEFINE i == agent.item
<1>1. pc \in {"mkdir", "journal", "manifest"} /\ pc \in Beginning /\ pc \in Applying
  BY DEF MakeDirectory, WriteManifest, WriteApplying, At, pc, Beginning, Applying
<1>2. TypeOK /\ Sound /\ i \in Items
  BY <1>1, AtApply
<1>3. SameData /\ server' = server
  BY DEF MakeDirectory, WriteManifest, WriteApplying, SameData
<1>4. journal[i].state \in InFlight => HoldsIntended(i)
  BY <1>2 DEF LogInv, Backed
<1>5. CASE MakeDirectory
  <2>1. /\ OnlyEntry(i, journal'[i])
        /\ journal'[i].state = "NONE" /\ journal'[i].level = 0
    BY <1>2, <1>5, MakeDirectoryFact DEF NoMulti
  <2>2. agent'.pc = "journal" /\ SameWork
    BY <1>2, <1>5, GotoFact DEF MakeDirectory, Pcs, Beginning
  <2>3. Alone
    BY <2>1 DEF Alone, OnlyEntry
  <2>4. QED
    BY <1>1, <1>2, <1>3, <2>1, <2>2, <2>3, BeginningLog DEF SameWork, Beginning, InFlight
<1>6. CASE WriteManifest
  <2>1. /\ OnlyEntry(i, journal'[i]) /\ journal'[i].state = journal[i].state
        /\ \/ journal'[i].backup = Snapshot(i)
           \/ journal[i].level >= 1 /\ journal'[i].backup = journal[i].backup
    BY <1>2, <1>6, WriteManifestFact
  <2>2. agent' = agent /\ pc \in {"journal", "manifest"}
    BY <1>6 DEF WriteManifest, At, pc
  <2>3. Alone
    BY <2>1 DEF Alone, OnlyEntry
  <2>4. \A n \in Touches[i] : Snapshot(i)[n] = Intended(n)
    <3>1. \A n \in Touches[i] : Snapshot(i)[n] = config[n]
      BY <1>2, SnapshotFact
    <3>2. \A n \in Touches[i] : config[n] = Intended(n)
      BY <1>1, <1>2, Constants DEF LogInv, Files, Intact
    <3>3. QED
      BY <3>1, <3>2
  <2>5. pc = "journal" /\ journal[i].level >= 1 => HoldsIntended(i)
    BY DEF LogInv, Files
  <2>6. \/ journal'[i].state \in InFlight
        \/ agent'.pc = "journal" /\ journal'[i].level >= 1
        => \A n \in Touches[i] : journal'[i].backup[n] = Intended(n)
    BY <1>4, <2>1, <2>2, <2>4, <2>5 DEF HoldsIntended, pc
  <2>7. QED
    BY <1>1, <1>2, <1>3, <2>2, <2>3, <2>6, BeginningLog DEF pc
<1>7. CASE WriteApplying
  <2>1. journal[i].level \in 0 .. 4
    BY <1>2 DEF TypeOK, Entry
  <2>2. pc = "journal" /\ journal[i].level >= 1
    BY <1>7, <2>1 DEF WriteApplying, ManifestTop, At, pc
  <2>3. HoldsIntended(i)
    BY <2>2 DEF LogInv, Files
  <2>4. journal \in [Items -> Entry] /\ journal' = [journal EXCEPT ![i].state = "APPLYING"]
    BY <1>2, <1>7 DEF WriteApplying, SetState, TypeOK
  <2>5. Alone
    BY <1>2, <2>4 DEF Alone
  <2>6. OnlyState(i, "APPLYING")
    BY <1>2, <1>7, StateFact DEF WriteApplying, JournalStates, InFlight
  <2>7. \A n \in Touches[i] : journal'[i].backup[n] = Intended(n)
    BY <1>2, <2>3, <2>6 DEF OnlyState, HoldsIntended
  <2>8. agent'.pc = "activate" /\ SameWork
    BY <1>2, <1>7, GotoFact DEF WriteApplying, Pcs, Beginning
  <2>9. QED
    BY <1>1, <1>2, <1>3, <2>5, <2>7, <2>8, BeginningLog DEF SameWork, Beginning
<1>8. QED
  BY <1>5, <1>6, <1>7

\* The marker and the status files before the first command.
LEMMA PrepareLog ==
    ASSUME ControlInv, LogInv, WriteActive \/ WritePrepared \/ WriteStatusApplying
    PROVE  LogInv'
<1> DEFINE i == agent.item
<1>1. pc \in {"activate", "manifest", "prepared", "applying"} /\ pc \in Beginning /\ pc \in Applying
  BY DEF WriteActive, WritePrepared, WriteStatusApplying, At, pc, Beginning, Applying
<1>2. TypeOK /\ i \in Items
  BY <1>1, AtApply
<1>3. SameData /\ server' = server
  BY DEF WriteActive, WritePrepared, WriteStatusApplying, SameData
<1>4. ASSUME journal' = journal, agent'.pc \in {"stage", "prepared", "manifest", "applying"},
             agent'.item = i
      PROVE  LogInv'
  <2>1. agent'.pc \in Applying \ {"journal", "commit"} /\ agent'.pc \notin Verifying
    BY <1>4 DEF Applying, Beginning, Mutating, Verifying
  <2>2. Alone /\ Kept
    BY <1>4, KeptSame DEF Alone
  <2>3. QED
    BY <1>1, <1>3, <1>4, <2>1, <2>2, ApplyLog
<1>5. ASSUME agent' = StagingFrom PROVE agent'.pc = "stage" /\ agent'.item = i
  BY <1>2, <1>5, StagingFact
<1>6. ASSUME NEW p \in {"prepared", "manifest", "applying"}, Goto(p)
      PROVE  agent'.pc = p /\ agent'.item = i
  BY <1>2, <1>6, GotoFact DEF Pcs, Beginning, SameWork
<1>7. CASE WriteActive
  <2>1. Kind[i] \in {"operation", "single", "multi"}
    BY <1>2, Constants
  <2>2. agent' = StagingFrom \/ Goto("prepared") \/ Goto("manifest")
    BY <1>7, <2>1 DEF WriteActive, Goto
  <2>3. journal' = journal
    BY <1>7 DEF WriteActive
  <2>4. QED
    BY <1>4, <1>5, <1>6, <2>2, <2>3
<1>8. CASE WritePrepared
  <2>1. CASE Goto("applying") /\ journal' = journal
    BY <1>4, <1>6, <2>1
  <2>2. CASE Goto(GiveUp) /\ (journal' = journal \/ SetState(i, "RECOVERY_REQUIRED"))
    <3>1. GiveUp \in {"publish", "prune"} /\ GiveUp \in Pcs
      BY GiveUpFact
    <3>2. agent'.pc \in {"publish", "prune"} /\ SameWork
      BY <1>2, <2>2, <3>1, GotoFact
    <3>3. Kept
      <4>1. CASE SetState(i, "RECOVERY_REQUIRED")
        <5>1. OnlyState(i, "RECOVERY_REQUIRED")
          BY <1>2, <4>1, StateFact DEF JournalStates
        <5>2. QED
          BY <1>2, <5>1, KeptState DEF Open, InFlight
      <4>2. QED
        BY <2>2, <4>1, KeptSame
    <3>4. QED
      BY <1>3, <3>2, <3>3, LoopLog DEF SameWork
  <2>3. \/ Goto("applying") /\ journal' = journal
        \/ Goto(GiveUp) /\ (journal' = journal \/ SetState(i, "RECOVERY_REQUIRED"))
    BY <1>8, Zenon DEF WritePrepared
  <2>4. QED
    BY <2>1, <2>2, <2>3
<1>9. CASE WriteStatusApplying
  BY <1>4, <1>5, <1>9 DEF WriteStatusApplying
<1>10. QED
  BY <1>7, <1>8, <1>9

\* The snapshot of the entry covers what its own namespaces go through.
LEMMA Covered ==
    ASSUME ControlInv, LogInv, pc \in Mutating, journal' = journal, commits' = commits,
           NEW n \in Touches[agent.item],
           \A m \in Namespaces : m # n => config'[m] = config[m] /\ staged'[m] = staged[m]
    PROVE  Backed' /\ Recoverable'
<1> DEFINE i == agent.item
<1>1. pc \in Applying \ {"mkdir", "journal"} /\ pc \in Applying
  BY DEF Applying, Beginning, Mutating, Verifying
<1>2. Sound /\ i \in Items /\ journal[i].state \in InFlight
  BY <1>1, AtApply DEF ControlInv, AtWork
<1>3. journal[i].backup # <<>>
  BY <1>2, SnapshotThere DEF Sound, HasSnapshot
<1>4. journal[i].backup[n] = Intended(n)
  BY <1>2 DEF LogInv, Backed, HoldsIntended
<1>5. \A m : Intended(m)' = Intended(m)
  BY IntendedSame
<1>6. Backed'
  BY <1>5 DEF LogInv, Backed, HoldsIntended
<1>7. ASSUME NEW m \in Namespaces, config'[m] # Intended(m)' \/ staged'[m] # 0
      PROVE  \E j \in Items : /\ journal'[j].state \in InFlight \cup {"RECOVERY_REQUIRED"}
                              /\ m \in Touches[j] /\ journal'[j].backup # <<>>
                              /\ journal'[j].backup[m] = Intended(m)'
  <2>1. CASE m = n
    BY <1>2, <1>3, <1>4, <1>5, <2>1
  <2>2. CASE m # n
    <3>1. config[m] # Intended(m) \/ staged[m] # 0
      BY <1>5, <1>7, <2>2
    <3>2. PICK j \in Items : /\ journal[j].state \in InFlight \cup {"RECOVERY_REQUIRED"}
                             /\ m \in Touches[j] /\ journal[j].backup # <<>>
                             /\ journal[j].backup[m] = Intended(m)
      BY <3>1 DEF LogInv, Recoverable
    <3>3. QED
      BY <1>5, <3>2
  <2>3. QED
    BY <2>1, <2>2
<1>8. QED
  BY <1>6, <1>7 DEF Recoverable

\* What the place says of a mutation: it goes on with the item, or to the recovery.
LEMMA MutationLog ==
    ASSUME LogInv, pc \in Mutating, Backed', Recoverable', journal' = journal,
           commits' = commits, server' = server, agent'.item = agent.item,
           \/ agent'.pc = "commit" /\ \A n \in Touches[agent.item] : staged'[n] = agent.item
           \/ agent'.pc \in {"verify", "confirm"}
              /\ \A n \in Touches[agent.item] : config'[n] = agent.item /\ staged'[n] = 0
           \/ agent'.pc = "recover" /\ agent'.from = "stage"
    PROVE  LogInv'
<1>1. pc \in Applying
  BY DEF Applying
<1>2. Begun' => Begun
  BY <1>1 DEF Begun
<1>3. InOrderOf'
  BY <1>2, OrderKept DEF LogInv
<1>4. Unrecovered' \subseteq {agent'.item}
  BY <1>1 DEF LogInv, Sole, Unrecovered
<1>5. Sole' /\ Files'
  BY <1>4 DEF Sole, Files, pc, Applying, Beginning, Mutating, Verifying
<1>6. QED
  BY <1>3, <1>5 DEF LogInv

\* The commands of the namespace.
LEMMA StageLog == ASSUME NoMulti, ControlInv, LogInv, Stage PROVE LogInv'
<1> DEFINE i == agent.item
           n == Min(agent.left)
<1>1. pc = "stage" /\ pc \in Mutating /\ pc \in Applying
  BY DEF Stage, At, pc, Applying, Mutating
<1>2. TypeOK /\ i \in Items /\ n \in Touches[i] /\ n \in Namespaces
  BY <1>1, AtApply, AtMutation
<1>3. /\ staged \in [Namespaces -> Content] /\ staged' = [staged EXCEPT ![n] = i]
      /\ config' = config /\ journal' = journal /\ commits' = commits /\ server' = server
  BY <1>2 DEF Stage, TypeOK
<1>4. staged'[n] = i /\ \A m \in Namespaces : m # n => staged'[m] = staged[m]
  BY <1>2, <1>3
<1>5. Backed' /\ Recoverable'
  BY <1>1, <1>2, <1>3, <1>4, Covered
<1>6. \A m \in Touches[i] : staged'[m] = i
  BY <1>2, <1>4, OneNamespace
<1>7. agent'.item = i /\ (agent'.pc = "commit" \/ (agent'.pc = "recover" /\ agent'.from = "stage"))
  BY <1>2 DEF Stage, Goto, Calling, TypeOK, Agent
<1>8. QED
  BY <1>1, <1>3, <1>5, <1>6, <1>7, MutationLog

\* uci commit.
LEMMA UciCommitLog == ASSUME NoMulti, ControlInv, LogInv, UciCommit PROVE LogInv'
<1> DEFINE i == agent.item
           n == Min(agent.left)
<1>1. pc = "commit" /\ pc \in Mutating /\ pc \in Applying
  BY DEF UciCommit, At, pc, Applying, Mutating
<1>2. TypeOK /\ i \in Items /\ n \in agent.left /\ n \in Touches[i] /\ n \in Namespaces
  BY <1>1, AtApply, AtMutation
<1>3. /\ staged \in [Namespaces -> Content] /\ config \in [Namespaces -> Content]
      /\ journal' = journal /\ commits' = commits /\ server' = server
  BY <1>2 DEF UciCommit, TypeOK
<1>4. agent.left = {n}
  BY <1>1, <1>2, AtMutation, OneNamespace
<1>5. ASSUME agent' = Calling("stage"), config' = config, staged' = staged PROVE LogInv'
  <2>1. Kept /\ SameData
    BY <1>3, <1>5, KeptSame DEF SameData
  <2>2. QED
    BY <1>3, <1>5, <2>1, CalledLog
<1>6. ASSUME NEW p \in {"verify", "confirm"}, agent' = [agent EXCEPT !.left = agent.left \ {n}, !.pc = p],
             config' = [config EXCEPT ![n] = staged[n]], staged' = [staged EXCEPT ![n] = 0]
      PROVE  LogInv'
  <2>1. agent'.pc = p /\ agent'.item = i
    BY <1>2, <1>6 DEF TypeOK, Agent
  <2>2. staged[n] = i
    BY <1>1, <1>2 DEF LogInv, Files
  <2>3. /\ config'[n] = i /\ staged'[n] = 0
        /\ \A m \in Namespaces : m # n => config'[m] = config[m] /\ staged'[m] = staged[m]
    BY <1>2, <1>3, <1>6, <2>2
  <2>4. Backed' /\ Recoverable'
    BY <1>1, <1>2, <1>3, <2>3, Covered
  <2>5. \A m \in Touches[i] : config'[m] = i /\ staged'[m] = 0
    BY <1>2, <2>3, OneNamespace
  <2>6. QED
    BY <1>1, <1>3, <2>1, <2>4, <2>5, MutationLog
<1>7. \/ agent' = Calling("stage") /\ config' = config /\ staged' = staged
      \/ /\ config' = [config EXCEPT ![n] = staged[n]] /\ staged' = [staged EXCEPT ![n] = 0]
         /\ \E p \in {"verify", "confirm"} : agent' = [agent EXCEPT !.left = agent.left \ {n}, !.pc = p]
  <2>1. agent.left \ {n} = {}
    BY <1>4
  <2>2. QED
    BY <2>1 DEF UciCommit
<1>8. QED
  BY <1>5, <1>6, <1>7

\* The health checks before the commit.
LEMMA VerifyLog ==
    ASSUME ControlInv, LogInv, MarkPending \/ WriteStatusPending \/ Verify
    PROVE  LogInv'
<1> DEFINE i == agent.item
<1>1. pc \in Verifying /\ pc \in Applying \ {"mkdir", "journal"} /\ pc \in Applying
  BY DEF MarkPending, WriteStatusPending, Verify, At, pc, Verifying, Applying
<1>2. TypeOK /\ i \in Items /\ journal[i].state \in InFlight
  BY <1>1, AtApply DEF ControlInv, AtWork
<1>3. SameData /\ server' = server
  BY DEF MarkPending, WriteStatusPending, Verify, SameData
<1>4. ASSUME NEW p \in {"confirmStatus", "verify", "decide"}, Goto(p), Alone, Kept PROVE LogInv'
  <2>1. agent'.pc = p /\ SameWork
    BY <1>2, <1>4, GotoFact DEF Pcs, Verifying
  <2>2. p \in Applying \ {"journal", "commit"} /\ p \notin Beginning
    BY DEF Applying, Beginning, Mutating, Verifying
  <2>3. QED
    BY <1>1, <1>3, <1>4, <2>1, <2>2, ApplyLog DEF SameWork
<1>5. CASE MarkPending
  <2>1. journal \in [Items -> Entry] /\ journal' = [journal EXCEPT ![i].state = "PENDING_CONFIRM"]
    BY <1>2, <1>5 DEF MarkPending, SetState, TypeOK
  <2>2. Alone
    BY <1>2, <2>1 DEF Alone
  <2>3. OnlyState(i, "PENDING_CONFIRM")
    BY <1>2, <1>5, StateFact DEF MarkPending, JournalStates, InFlight
  <2>4. Kept
    BY <1>2, <2>3, KeptState DEF Open, InFlight
  <2>5. Goto("confirmStatus") \/ Goto("verify")
    BY <1>5 DEF MarkPending
  <2>6. QED
    BY <1>4, <2>2, <2>4, <2>5
<1>6. CASE WriteStatusPending
  <2>1. Alone /\ Kept
    BY <1>6, KeptSame DEF WriteStatusPending, Alone
  <2>2. QED
    BY <1>4, <1>6, <2>1 DEF WriteStatusPending
<1>7. CASE Verify
  <2>1. Alone /\ Kept
    BY <1>7, KeptSame DEF Verify, Alone
  <2>2. QED
    BY <1>3, <1>4, <1>7, <2>1, CalledLog DEF Verify
<1>8. QED
  BY <1>5, <1>6, <1>7

\* The newest of the committed items, when a newer one joins them.
LEMMA NewestIs ==
    ASSUME NEW C, C \subseteq Nat, NEW i \in Nat, \A c \in C : c <= i,
           NEW S, S \subseteq C \cup {i}, i \in S
    PROVE  Max({0} \cup S) = i
<1>1. {0} \cup S \subseteq Nat /\ i \in {0} \cup S
  OBVIOUS
<1>2. \A x \in {0} \cup S : x <= i
  OBVIOUS
<1>3. QED
  BY <1>1, <1>2, MaxIs

\* With the commit the item becomes what is intended, and no entry is in flight.
LEMMA CommitLog == ASSUME ControlInv, LogInv, Commit PROVE LogInv'
<1> DEFINE i == agent.item
<1>1. pc = "decide" /\ pc \in Verifying /\ pc \in Applying
  BY DEF Commit, At, pc, Verifying, Applying
<1>2. TypeOK /\ Sound /\ i \in Items /\ i \in Nat
  BY <1>1, AtApply, Constants
<1>3. /\ OnlyState(i, "COMMITTED") /\ commits' = commits \cup {i}
      /\ UNCHANGED <<config, staged, server>>
  BY <1>2, StateFact DEF Commit, JournalStates, Done
<1>4. Unrecovered \subseteq {i}
  BY <1>1 DEF LogInv, Sole
<1>5. \A j \in Items : j # i => journal[j].state \notin Open
  BY <1>2, <1>4 DEF Unrecovered, Sound, Open, InFlight, Done
<1>6. \A j \in Items : journal'[j].state \notin InFlight
  BY <1>3, <1>5 DEF OnlyState, Open, InFlight
<1>7. Backed'
  BY <1>6 DEF Backed
<1>8. \A c \in commits : c <= i
  BY <1>1 DEF LogInv, InOrderOf, Begun
<1>9. commits \subseteq Items /\ Items \subseteq Nat
  BY <1>2, Constants DEF TypeOK
<1>10. ASSUME NEW n \in Touches[i] PROVE Intended(n)' = i
  <2> DEFINE S == {c \in commits \cup {i} : n \in Touches[c]}
  <2>1. S \subseteq commits \cup {i} /\ i \in S
    BY <1>10
  <2>2. commits \subseteq Nat /\ i \in Nat
    BY <1>2, <1>9
  <2>3. Intended(n)' = Max({0} \cup S)
    BY <1>3 DEF Intended
  <2> HIDE DEF S, i
  <2>4. Max({0} \cup S) = i
    BY <1>8, <2>1, <2>2, NewestIs
  <2>5. QED
    BY <2>3, <2>4
<1>11. ASSUME NEW n \in Namespaces, n \notin Touches[i] PROVE Intended(n)' = Intended(n)
  <2>1. {c \in commits \cup {i} : n \in Touches[c]} = {c \in commits : n \in Touches[c]}
    BY <1>11
  <2>2. QED
    BY <1>3, <2>1 DEF Intended
<1>12. ASSUME NEW n \in Namespaces PROVE config'[n] = Intended(n)' /\ staged'[n] = 0
  <2>1. CASE n \in Touches[i]
    BY <1>1, <1>3, <1>10, <2>1 DEF LogInv, Files
  <2>2. CASE n \notin Touches[i]
    <3>1. config[n] = Intended(n) /\ staged[n] = 0
      BY <1>5, <2>2 DEF LogInv, Recoverable, Open
    <3>2. QED
      BY <1>3, <1>11, <2>2, <3>1
  <2>3. QED
    BY <2>1, <2>2
<1>13. Recoverable'
  BY <1>12 DEF Recoverable
<1>14. agent'.pc = "deactivate" /\ SameWork
  BY <1>2, GotoFact DEF Commit, Pcs, Finishing
<1>15. Sole' /\ Files' /\ ~Begun'
  BY <1>14 DEF Sole, Files, Begun, pc, Applying, Beginning, Mutating, Verifying, RecoveringOne
<1>16. InOrderOf'
  BY <1>3, <1>14, <1>15 DEF LogInv, InOrderOf, SameWork
<1>17. QED
  BY <1>7, <1>13, <1>15, <1>16 DEF LogInv

\* What follows the end of a transaction.
LEMMA FinishLog ==
    ASSUME ControlInv, LogInv,
           \/ Deactivate \/ WriteLast \/ WriteOperationStatus \/ WriteStatusCommitted
           \/ PublishFailure
    PROVE  LogInv'
<1>1. TypeOK
  BY DEF ControlInv
<1>2. SameData /\ server' = server
  BY DEF Deactivate, WriteLast, WriteOperationStatus, WriteStatusCommitted, PublishFailure, SameData
<1>3. PICK p \in {"last", "operation", "committed", "prune"} : Goto(p)
  BY DEF Deactivate, WriteLast, WriteOperationStatus, WriteStatusCommitted, PublishFailure
<1>4. agent'.pc = p /\ SameWork
  BY <1>1, <1>3, GotoFact DEF Pcs, Finishing
<1>5. Kept
  <2>1. CASE journal' = journal
    BY <2>1, KeptSame
  <2>2. CASE Deactivate /\ journal' # journal
    <3>1. agent.item \in Items /\ journal[agent.item].state \in Done
      BY <2>2 DEF Deactivate, At, ControlInv, Known, AtWork, pc, Done, Finishing
    <3>2. journal' = [journal EXCEPT ![agent.item].backup = <<>>]
      BY <2>2 DEF Deactivate
    <3>3. OnlyBackup(agent.item)
      BY <1>1, <3>1, <3>2, BackupFact
    <3>4. QED
      BY <3>1, <3>3, KeptBackup
  <2>3. QED
    BY <2>1, <2>2 DEF WriteLast, WriteOperationStatus, WriteStatusCommitted, PublishFailure
<1>6. QED
  BY <1>2, <1>4, <1>5, LoopLog DEF SameWork

\* A crash loses at most staged changes.
LEMMA CrashLog == ASSUME ControlInv, LogInv, Crash PROVE LogInv'
<1>1. TypeOK /\ staged \in [Namespaces -> Content]
  BY DEF ControlInv, TypeOK
<1>2. UNCHANGED <<journal, config, server, commits>>
  BY DEF Crash
<1>3. \A n : Intended(n)' = Intended(n)
  BY <1>2, IntendedSame
<1>4. \A n \in Namespaces : staged'[n] \in {staged[n], 0}
  BY DEF Crash
<1>5. Backed'
  BY <1>2, <1>3 DEF LogInv, Backed, HoldsIntended
<1>6. ASSUME NEW n \in Namespaces, config'[n] # Intended(n)' \/ staged'[n] # 0
      PROVE  \E j \in Items : /\ journal'[j].state \in InFlight \cup {"RECOVERY_REQUIRED"}
                              /\ n \in Touches[j] /\ journal'[j].backup # <<>>
                              /\ journal'[j].backup[n] = Intended(n)'
  <2>1. config[n] # Intended(n) \/ staged[n] # 0
    BY <1>2, <1>3, <1>4, <1>6
  <2>2. PICK j \in Items : /\ journal[j].state \in InFlight \cup {"RECOVERY_REQUIRED"}
                           /\ n \in Touches[j] /\ journal[j].backup # <<>>
                           /\ journal[j].backup[n] = Intended(n)
    BY <2>1 DEF LogInv, Recoverable
  <2>3. QED
    BY <1>2, <1>3, <2>2
<1>7. agent'.pc = "boot" /\ agent'.item = 0
  BY DEF Crash, Started
<1>8. Sole' /\ Files' /\ ~Begun'
  BY <1>7 DEF Sole, Files, Begun, pc, Applying, Beginning, Mutating, Verifying, RecoveringOne
<1>9. server.planned \in Nat
  BY <1>1, Constants DEF TypeOK
<1>10. InOrderOf'
  BY <1>2, <1>7, <1>8, <1>9 DEF LogInv, InOrderOf
<1>11. QED
  BY <1>5, <1>6, <1>8, <1>10 DEF LogInv, Recoverable

\* The controller's steps, and none at all.
LEMMA ControllerLog ==
    ASSUME ControlInv, LogInv, Plan \/ Record \/ UNCHANGED vars
    PROVE  LogInv'
<1>1. UNCHANGED <<journal, agent>> /\ SameData
  BY DEF Plan, Record, vars, SameData
<1>2. Backed' /\ Recoverable'
  BY <1>1, KeptSame, KeptLog DEF LogInv
<1>3. Sole'
  BY <1>1 DEF LogInv, Sole, Unrecovered, pc
<1>4. Files'
  <2>1. \A n : Intended(n)' = Intended(n)
    BY <1>1, IntendedSame DEF SameData
  <2>2. \A n : Intact(n)' <=> Intact(n)
    BY <1>1, IntactSame
  <2>3. \A i : HoldsIntended(i)' <=> HoldsIntended(i)
    BY <1>1, <2>1 DEF HoldsIntended
  <2>4. pc' = pc /\ config' = config /\ staged' = staged
    BY <1>1 DEF pc, SameData
  <2>5. Files
    BY DEF LogInv
  <2>6. QED
    BY <1>1, <2>2, <2>3, <2>4, <2>5 DEF Files
<1>5. InOrderOf'
  <2>1. TypeOK /\ InOrderOf /\ (Begun' <=> Begun)
    BY <1>1 DEF ControlInv, LogInv, Begun, pc
  <2>2. server \in [pending : Content, planned : Content, observed : [Namespaces -> Content],
                    outcome : [Items -> StatusStates]]
    BY <2>1 DEF TypeOK
  <2>3. server.planned \in Nat /\ agent.item \in Nat /\ commits \subseteq Nat
    <3>1. server.planned \in Content /\ agent.item \in Content
      BY <2>1, <2>2 DEF TypeOK, Agent
    <3>2. commits \subseteq Items
      BY <2>1 DEF TypeOK
    <3>3. QED
      BY <3>1, <3>2, Constants
  <2>4. CASE Plan
    <3> DEFINE shown == [n \in Namespaces |-> Shown(n)]
    <3>1. server' = [server EXCEPT !.pending = server.planned + 1, !.planned = server.planned + 1,
                                   !.observed = shown]
      BY <2>2, <2>4 DEF Plan
    <3> HIDE DEF shown
    <3>2. server'.pending = server.planned + 1 /\ server'.planned = server.planned + 1
      BY <2>2, <3>1
    <3>3. QED
      BY <1>1, <2>1, <2>3, <3>2 DEF InOrderOf, SameData
  <2>5. CASE Record
    <3>1. PICK r \in sent : server' = [server EXCEPT !.pending = 0, !.outcome[r.id] = r.state]
      BY <2>5 DEF Record
    <3> DEFINE outcome == [server.outcome EXCEPT ![r.id] = r.state]
    <3>2. server' = [server EXCEPT !.pending = 0, !.outcome = outcome]
      BY <2>2, <3>1
    <3> HIDE DEF outcome
    <3>3. server'.pending = 0 /\ server'.planned = server.planned
      BY <2>2, <3>2
    <3>4. QED
      BY <1>1, <2>1, <3>3 DEF InOrderOf, SameData
  <2>6. CASE UNCHANGED vars
    BY <2>1, <2>6 DEF InOrderOf, vars
  <2>7. QED
    BY <2>4, <2>5, <2>6
<1>6. QED
  BY <1>2, <1>3, <1>4, <1>5 DEF LogInv

\* Every step keeps LogInv.
LEMMA LogStep == ASSUME NoMulti, ControlInv, LogInv, [Next]_vars PROVE LogInv'
<1>1. CASE Recovery
  BY <1>1, RecoverPendingLog, RecoverOneLog, RollingBackLog, RestoreLog, RestoredLog,
     RecoveryEndLog DEF Recovery
<1>2. CASE Apply
  BY <1>2, BeginLog, JournalLog, PrepareLog, StageLog, UciCommitLog, VerifyLog, CommitLog,
     FinishLog DEF Apply
<1>3. CASE Boot \/ Heartbeat \/ PullFails \/ Pull \/ Prune \/ RemoveDirectory
  BY <1>3, LoopStepLog
<1>4. QED
  BY <1>1, <1>2, <1>3, CrashLog, ControllerLog DEF Next, AgentStep

\* Nothing has been applied at the start.
LEMMA LogInit == ASSUME Init PROVE LogInv
<1>1. agent.pc = "boot" /\ agent.item = 0 /\ commits = {} /\ server.pending = 0 /\ server.planned = 0
  BY DEF Init, Started
<1>2. \A i \in Items : journal[i].state = "NONE"
  BY DEF Init, NoEntry
<1>3. \A n : Intended(n) = 0
  <2>1. ASSUME NEW n PROVE Max({0} \cup {i \in commits : n \in Touches[i]}) = 0
    <3>1. {0} \cup {i \in commits : n \in Touches[i]} = {0}
      BY <1>1
    <3>2. Max({0}) = 0
      BY MaxIs
    <3>3. QED
      BY <3>1, <3>2
  <2>2. QED
    BY <2>1 DEF Intended
<1>4. \A n \in Namespaces : Intact(n)
  BY <1>3 DEF Intact, Init
<1>5. Recoverable
  BY <1>4, IntactRecoverable
<1>6. Sole /\ Files /\ ~Begun
  BY <1>1 DEF Sole, Files, Begun, pc, Applying, Beginning, Mutating, Verifying, RecoveringOne
<1>7. InOrderOf
  BY <1>1, <1>6 DEF InOrderOf
<1>8. Backed
  BY <1>2 DEF Backed, InFlight
<1>9. QED
  BY <1>5, <1>6, <1>7, <1>8 DEF LogInv

\* Operations and change sets of one namespace, in any number, with commands and
\* restarts that fail and crashes anywhere: whenever the configuration or the staged
\* changes differ from what was last committed, an entry that is not over holds the
\* snapshot to go back to (transaction_begin writes it before transaction_recover_one
\* can need it, agent.sh:804).
THEOREM WriteAhead == (\A i \in Items : Kind[i] # "multi") => (Spec => []Recoverable)
<1>1. SUFFICES ASSUME NoMulti PROVE Spec => []Recoverable
  BY DEF NoMulti
<1>2. Init => LogInv
  BY LogInit
<1>3. ControlInv /\ LogInv /\ [Next]_vars => LogInv'
  BY <1>1, LogStep
<1>4. LogInv => Recoverable
  BY DEF LogInv
<1>5. QED
  BY <1>2, <1>3, <1>4, ControlHolds, PTL DEF Spec

-----------------------------------------------------------------------------
(* What the controller is told of change sets of one namespace.  A status may *)
(* be written for an item only while nothing newer has one, so a report that   *)
(* is final stays what the status file says, or an older item's; and the agent *)
(* applies nothing again whose end it has reported.                            *)

Single(i) == Kind[i] = "single"

\* Something of an item is, or was, in the configuration.
Left(i) == i \in commits \/ \E n \in Namespaces : config[n] = i \/ staged[n] = i

Final == Done \cup {"RECOVERY_REQUIRED", "REJECTED"}

\* What an item brings goes into the namespaces it touches; only what is planned has
\* an entry; that of an operation has only the snapshot, and that of a change set in
\* flight is complete.
Placed ==
    /\ \A n \in Namespaces : /\ config[n] # 0 => n \in Touches[config[n]]
                             /\ staged[n] # 0 => n \in Touches[staged[n]]
    /\ \A i \in Items :
          /\ journal[i].level > 0 => i <= server.planned
          /\ Kind[i] = "operation" => journal[i].level <= 1
          /\ Single(i) /\ journal[i].state \in InFlight => journal[i].level = 4

\* The journal tells the truth.
JournalTrue ==
    \A i \in Items : Single(i) =>
        /\ journal[i].state = "COMMITTED" => i \in commits
        /\ journal[i].state = "RESTORED" => ~Left(i)
        /\ journal[i].state \in InFlight => i \notin commits

\* So does the status file: nothing that was applied is called restored or rejected.
StatusTrue ==
    /\ status.id # 0 => Single(status.id)
    /\ status.state = "COMMITTED" => status.id \in commits
    /\ \A i \in Items : Single(i) /\ Left(i) =>
         \/ status.id > i
         \/ status.id = i /\ status.state \in InFlight \cup {"RECOVERY_REQUIRED", "COMMITTED"}

\* The places only a change set of one namespace comes to, and what is over there.
Paths ==
    /\ pc # "manifest"
    /\ pc \in {"prepared", "applying", "confirmStatus", "committed", "publish"} =>
          Single(agent.item)
    /\ pc = "rollback" => Single(agent.rec)
    /\ pc \in {"recordLast", "announce"} => journal[agent.rec].state = "RESTORED"
    /\ pc \in {"deactivate", "last", "committed"} => agent.item \in commits

\* The status and the marker while it is applied.
AtStatus ==
    agent.item # 0 /\ Single(agent.item) =>
        /\ pc = "applying" => status = [id |-> agent.item, state |-> "PREPARED"]
        /\ pc \in Mutating \cup {"confirm", "confirmStatus"} =>
             status = [id |-> agent.item, state |-> "APPLYING"]
        /\ pc \in {"verify", "decide", "deactivate", "last"} =>
             status = [id |-> agent.item, state |-> "PENDING_CONFIRM"]
        /\ pc \in {"prepared", "applying", "deactivate"} \cup Mutating \cup Verifying =>
             marks.active = agent.item

\* A status that says APPLYING is taken back before anything else happens.
ApplyingIsOpen ==
    status.state = "APPLYING" =>
        /\ journal[status.id].state \in InFlight /\ marks.active = status.id
        /\ \/ pc = "boot"
           \/ pc = "recover" /\ agent.phase = "start"
           \/ pc = "one" /\ agent.rec = status.id
           \/ pc \in Mutating \cup {"confirm", "confirmStatus"} /\ agent.item = status.id

\* A commit that the status file does not tell of yet.
Untold(i) ==
    /\ status = [id |-> i, state |-> "PENDING_CONFIRM"]
    /\ journal[i].state = "COMMITTED" /\ journal[i].level = 4
    /\ server.pending = i /\ marks.active \in {0, i} /\ Unrecovered = {}
    /\ \/ pc \in {"boot", "report", "pull"}
       \/ pc \in {"deactivate", "last", "committed"} /\ agent.item = i
       \/ pc \in {"recover", "one"} /\ agent.from = "boot" /\ (pc = "one" => agent.rec = i)

\* A committed item is known as such, or nothing is applied any more.
CommitsKnown ==
    \A i \in commits : Single(i) =>
        \/ status.id > i
        \/ status = [id |-> i, state |-> "COMMITTED"]
        \/ status.state = "RECOVERY_REQUIRED"
        \/ Untold(i)

\* What is applied is what the controller waits for, and has no end yet.
BegunOpen ==
    Begun /\ Single(agent.item) =>
        /\ server.pending = agent.item /\ agent.item \notin commits
        /\ \A r \in sent : r.id = agent.item => r.state \notin Final

\* A final report says what the status file says, unless that is newer.
SentTrue ==
    \A r \in sent : Single(r.id) =>
        /\ r.state = "COMMITTED" => r.id \in commits /\ (status = r \/ status.id > r.id)
        /\ r.state \in {"RESTORED", "REJECTED"} =>
             /\ ~Left(r.id)
             /\ \/ status.id = r.id /\ status.state \in {"RESTORED", "REJECTED"}
                \/ status.id > r.id
        /\ r.state = "RECOVERY_REQUIRED" => status = r

\* What the controller has recorded was reported.
Recorded ==
    \A i \in Items : server.outcome[i] # "NONE" => [id |-> i, state |-> server.outcome[i]] \in sent

OutcomeInv ==
    /\ Placed /\ JournalTrue /\ StatusTrue /\ Paths /\ AtStatus /\ ApplyingIsOpen
    /\ CommitsKnown /\ BegunOpen /\ SentTrue /\ Recorded

\* What is known before a step.
Before == NoMulti /\ ControlInv /\ LogInv /\ OutcomeInv

\* Where each step of the agent starts.
LEMMA StepPlaces ==
    ASSUME Next
    PROVE  \/ pc = "boot" /\ Boot
           \/ pc = "report" /\ Heartbeat
           \/ pc = "pull" /\ (PullFails \/ Pull)
           \/ pc = "prune" /\ Prune
           \/ pc = "rmdir" /\ RemoveDirectory
           \/ pc = "recover" /\ RecoverPending
           \/ pc = "one" /\ RecoverOne
           \/ pc = "rollback" /\ RollingBack
           \/ pc = "restore" /\ (Restore \/ Restored)
           \/ pc = "forget" /\ Forget
           \/ pc = "recordLast" /\ RecordLast
           \/ pc = "announce" /\ Announce
           \/ pc = "markStatus" /\ MarkStatus
           \/ pc = "markState" /\ MarkState
           \/ pc = "begin" /\ Begin
           \/ pc = "mkdir" /\ MakeDirectory
           \/ pc \in {"journal", "manifest"} /\ WriteManifest
           \/ pc = "journal" /\ WriteApplying
           \/ pc = "activate" /\ WriteActive
           \/ pc \in {"prepared", "manifest"} /\ WritePrepared
           \/ pc = "applying" /\ WriteStatusApplying
           \/ pc = "stage" /\ Stage
           \/ pc = "commit" /\ UciCommit
           \/ pc = "confirm" /\ MarkPending
           \/ pc = "confirmStatus" /\ WriteStatusPending
           \/ pc = "verify" /\ Verify
           \/ pc = "decide" /\ Commit
           \/ pc = "deactivate" /\ Deactivate
           \/ pc = "last" /\ WriteLast
           \/ pc = "operation" /\ WriteOperationStatus
           \/ pc = "committed" /\ WriteStatusCommitted
           \/ pc = "publish" /\ PublishFailure
           \/ Crash \/ Plan \/ Record
<1>1. /\ (RecoverPending => pc = "recover")
      /\ (RecoverOne => pc = "one")
      /\ (RollingBack => pc = "rollback")
      /\ (Restore => pc = "restore")
      /\ (Restored => pc = "restore")
      /\ (Forget => pc = "forget")
      /\ (RecordLast => pc = "recordLast")
      /\ (Announce => pc = "announce")
      /\ (MarkStatus => pc = "markStatus")
      /\ (MarkState => pc = "markState")
  <2>1. RecoverPending => pc = "recover"
    BY DEF pc, At, RecoverPending
  <2>2. RecoverOne => pc = "one"
    BY DEF pc, At, RecoverOne
  <2>3. RollingBack => pc = "rollback"
    BY DEF pc, At, RollingBack
  <2>4. Restore => pc = "restore"
    BY DEF pc, At, Restore
  <2>5. Restored => pc = "restore"
    BY DEF pc, At, Restored
  <2>6. Forget => pc = "forget"
    BY DEF pc, At, Forget
  <2>7. RecordLast => pc = "recordLast"
    BY DEF pc, At, RecordLast
  <2>8. Announce => pc = "announce"
    BY DEF pc, At, Announce
  <2>9. MarkStatus => pc = "markStatus"
    BY DEF pc, At, MarkStatus
  <2>10. MarkState => pc = "markState"
    BY DEF pc, At, MarkState
  <2>11. QED
    BY <2>1, <2>2, <2>3, <2>4, <2>5, <2>6, <2>7, <2>8, <2>9, <2>10
<1>2. /\ (Begin => pc = "begin")
      /\ (MakeDirectory => pc = "mkdir")
      /\ (WriteManifest => pc \in {"journal", "manifest"})
      /\ (WriteApplying => pc = "journal")
      /\ (WriteActive => pc = "activate")
      /\ (WritePrepared => pc \in {"prepared", "manifest"})
      /\ (WriteStatusApplying => pc = "applying")
      /\ (Stage => pc = "stage")
      /\ (UciCommit => pc = "commit")
  <2>1. Begin => pc = "begin"
    BY DEF pc, At, Begin
  <2>2. MakeDirectory => pc = "mkdir"
    BY DEF pc, At, MakeDirectory
  <2>3. WriteManifest => pc \in {"journal", "manifest"}
    BY DEF pc, At, WriteManifest
  <2>4. WriteApplying => pc = "journal"
    BY DEF pc, At, WriteApplying
  <2>5. WriteActive => pc = "activate"
    BY DEF pc, At, WriteActive
  <2>6. WritePrepared => pc \in {"prepared", "manifest"}
    BY DEF pc, At, WritePrepared
  <2>7. WriteStatusApplying => pc = "applying"
    BY DEF pc, At, WriteStatusApplying
  <2>8. Stage => pc = "stage"
    BY DEF pc, At, Stage
  <2>9. UciCommit => pc = "commit"
    BY DEF pc, At, UciCommit
  <2>10. QED
    BY <2>1, <2>2, <2>3, <2>4, <2>5, <2>6, <2>7, <2>8, <2>9
<1>3. /\ (MarkPending => pc = "confirm")
      /\ (WriteStatusPending => pc = "confirmStatus")
      /\ (Verify => pc = "verify")
      /\ (Commit => pc = "decide")
      /\ (Deactivate => pc = "deactivate")
      /\ (WriteLast => pc = "last")
      /\ (WriteOperationStatus => pc = "operation")
      /\ (WriteStatusCommitted => pc = "committed")
      /\ (PublishFailure => pc = "publish")
  <2>1. MarkPending => pc = "confirm"
    BY DEF pc, At, MarkPending
  <2>2. WriteStatusPending => pc = "confirmStatus"
    BY DEF pc, At, WriteStatusPending
  <2>3. Verify => pc = "verify"
    BY DEF pc, At, Verify
  <2>4. Commit => pc = "decide"
    BY DEF pc, At, Commit
  <2>5. Deactivate => pc = "deactivate"
    BY DEF pc, At, Deactivate
  <2>6. WriteLast => pc = "last"
    BY DEF pc, At, WriteLast
  <2>7. WriteOperationStatus => pc = "operation"
    BY DEF pc, At, WriteOperationStatus
  <2>8. WriteStatusCommitted => pc = "committed"
    BY DEF pc, At, WriteStatusCommitted
  <2>9. PublishFailure => pc = "publish"
    BY DEF pc, At, PublishFailure
  <2>10. QED
    BY <2>1, <2>2, <2>3, <2>4, <2>5, <2>6, <2>7, <2>8, <2>9
<1>4. /\ (Boot => pc = "boot")
      /\ (Heartbeat => pc = "report")
      /\ (PullFails => pc = "pull")
      /\ (Prune => pc = "prune")
      /\ (RemoveDirectory => pc = "rmdir")
  <2>1. Boot => pc = "boot"
    BY DEF pc, At, Boot
  <2>2. Heartbeat => pc = "report"
    BY DEF pc, At, Heartbeat
  <2>3. PullFails => pc = "pull"
    BY DEF pc, At, PullFails
  <2>4. Prune => pc = "prune"
    BY DEF pc, At, Prune
  <2>5. RemoveDirectory => pc = "rmdir"
    BY DEF pc, At, RemoveDirectory
  <2>6. QED
    BY <2>1, <2>2, <2>3, <2>4, <2>5
<1>5. Pull => pc = "pull"
  BY DEF pc, At, Pull, PullNothing, PullOperation, PullSingle, PullMulti
<1>6. QED
  BY <1>1, <1>2, <1>3, <1>4, <1>5 DEF Next, AgentStep, Recovery, Apply

\* How much there is of an entry.
LEMMA LevelType ==
    ASSUME TypeOK, NEW i \in Items
    PROVE  journal[i].level \in 0 .. 4 /\ journal[i].level \in Nat
<1>1. journal[i].level \in 0 .. 4
  BY DEF TypeOK, Entry
<1>2. QED
  BY <1>1

\* How a step may change the state of an entry, and how much of it there is.
Changed(i) ==
    /\ journal'[i].state \in InFlight =>
          \/ /\ journal[i].state \in InFlight
             /\ Single(i) => journal'[i].level = journal[i].level
          \/ /\ pc = "journal" /\ agent.item = i
             /\ journal[i].level >= ManifestTop(i) /\ journal'[i].level = journal[i].level
    /\ journal'[i].state = "COMMITTED" =>
          \/ journal[i].state = "COMMITTED"
          \/ pc = "decide" /\ agent.item = i /\ commits' = commits \cup {i}
    /\ journal'[i].state = "RESTORED" =>
          \/ journal[i].state = "RESTORED"
          \/ pc = "restore" /\ agent.rec = i /\ agent.left = {}
    /\ \/ journal'[i].level <= journal[i].level
       \/ pc = "journal" /\ agent.item = i /\ journal'[i].level <= ManifestTop(i)

\* In the file of one state.
LEMMA ChangedState ==
    ASSUME TypeOK, NEW k \in Items, NEW s \in Open, OnlyState(k, s),
           s \in InFlight => \/ journal[k].state \in InFlight
                             \/ pc = "journal" /\ agent.item = k /\ journal[k].level >= ManifestTop(k)
    PROVE  \A i \in Items : Changed(i)
<1>1. SUFFICES ASSUME NEW i \in Items PROVE Changed(i)
  OBVIOUS
<1>2. journal[i].level \in Nat
  BY LevelType
<1>3. CASE i = k
  BY <1>2, <1>3 DEF Changed, OnlyState, Open, InFlight
<1>4. CASE i # k
  BY <1>2, <1>4 DEF Changed, OnlyState
<1>5. QED
  BY <1>3, <1>4

\* When it says that the entry is over.
LEMMA ChangedDone ==
    ASSUME TypeOK, NEW k \in Items, NEW s \in Done, OnlyState(k, s),
           \/ s = "COMMITTED" /\ pc = "decide" /\ agent.item = k /\ commits' = commits \cup {k}
           \/ s = "RESTORED" /\ pc = "restore" /\ agent.rec = k /\ agent.left = {}
    PROVE  \A i \in Items : Changed(i)
<1>1. SUFFICES ASSUME NEW i \in Items PROVE Changed(i)
  OBVIOUS
<1>2. journal[i].level \in Nat
  BY LevelType
<1>3. CASE i = k
  BY <1>2, <1>3 DEF Changed, OnlyState, Done, InFlight
<1>4. CASE i # k
  BY <1>2, <1>4 DEF Changed, OnlyState
<1>5. QED
  BY <1>3, <1>4

\* In one entry that loses its state, or keeps it.
LEMMA ChangedEntry ==
    ASSUME TypeOK, NEW k \in Items, NEW e, OnlyEntry(k, e), e.state \in {"NONE", journal[k].state},
           e.level \in Nat,
           \/ e.level <= journal[k].level /\ journal[k].state \notin InFlight
           \/ e.state = "NONE" /\ e.level = 0
           \/ /\ pc = "journal" /\ agent.item = k /\ e.level <= ManifestTop(k)
              /\ Single(k) => journal[k].state \notin InFlight
    PROVE  \A i \in Items : Changed(i)
<1>1. SUFFICES ASSUME NEW i \in Items PROVE Changed(i)
  OBVIOUS
<1>2. journal[i].level \in Nat
  BY LevelType
<1>3. CASE i = k
  BY <1>2, <1>3 DEF Changed, OnlyEntry, InFlight
<1>4. CASE i # k
  BY <1>2, <1>4 DEF Changed, OnlyEntry
<1>5. QED
  BY <1>3, <1>4

\* Not at all, or in the snapshot.
LEMMA ChangedSame ==
    ASSUME TypeOK, \/ journal' = journal
                   \/ \E k \in Items : OnlyBackup(k)
    PROVE  \A i \in Items : Changed(i)
<1>1. SUFFICES ASSUME NEW i \in Items PROVE Changed(i)
  OBVIOUS
<1>2. journal[i].level \in Nat
  BY LevelType
<1>3. journal'[i].state = journal[i].state /\ journal'[i].level = journal[i].level
  BY DEF OnlyBackup
<1>4. QED
  BY <1>2, <1>3 DEF Changed

\* Items are operations or change sets of one namespace.
LEMMA Kinds ==
    ASSUME NoMulti, NEW i \in Items
    PROVE  Kind[i] = "operation" \/ (Single(i) /\ Kind[i] = "single")
BY Constants DEF NoMulti, Single

\* In the recovery.
LEMMA ChangedRecovery ==
    ASSUME Before, Recovery
    PROVE  \A i \in Items : Changed(i)
<1> DEFINE k == agent.rec
<1>1. TypeOK /\ ControlInv
  BY DEF Before, ControlInv
<1>2. CASE journal' = journal
  BY <1>1, <1>2, ChangedSame
<1>3. CASE Forget \/ RollingBack \/ Restored \/ MarkState \/ RecoverOne
  <2>1. k \in Items
    BY <1>1, <1>3, AtRecovery
       DEF Forget, RollingBack, Restored, MarkState, RecoverOne, At, pc, RecoveringOne
  <2>2. CASE Forget
    <3>1. OnlyBackup(k)
      BY <1>1, <2>1, <2>2, BackupFact DEF Forget
    <3>2. QED
      BY <1>1, <2>1, <3>1, ChangedSame
  <2>3. CASE RollingBack
    <3>1. OnlyState(k, "ROLLING_BACK")
      BY <1>1, <2>1, <2>3, StateFact DEF RollingBack, JournalStates, InFlight
    <3>2. journal[k].state \in InFlight
      BY <1>1, <2>3 DEF RollingBack, At, pc, ControlInv, AtWork
    <3>3. QED
      BY <1>1, <2>1, <3>1, <3>2, ChangedState DEF Open, InFlight
  <2>4. CASE Restored
    <3>1. OnlyState(k, "RESTORED") /\ pc = "restore" /\ agent.left = {}
      BY <1>1, <2>1, <2>4, StateFact DEF Restored, At, pc, JournalStates, Done
    <3>2. QED
      BY <1>1, <2>1, <3>1, ChangedDone DEF Done
  <2>5. CASE MarkState
    <3>1. OnlyState(k, "RECOVERY_REQUIRED")
      BY <1>1, <2>1, <2>5, StateFact DEF MarkState, JournalStates
    <3>2. QED
      BY <1>1, <2>1, <3>1, ChangedState DEF Open, InFlight
  <2>6. CASE RecoverOne /\ journal' # journal
    <3>1. RecoverInFlight(k) /\ SetState(k, "ROLLING_BACK") /\ journal[k].state \in InFlight
      BY <2>6 DEF RecoverOne, RecoverDone, RecoverRefused, RecoverInFlight
    <3>2. OnlyState(k, "ROLLING_BACK")
      BY <1>1, <2>1, <3>1, StateFact DEF JournalStates, InFlight
    <3>3. QED
      BY <1>1, <2>1, <3>1, <3>2, ChangedState DEF Open, InFlight
  <2>7. QED
    BY <1>2, <1>3, <2>2, <2>3, <2>4, <2>5, <2>6
<1>4. journal' = journal \/ Forget \/ RollingBack \/ Restored \/ MarkState \/ RecoverOne
  BY DEF Recovery, RecoverPending, Restore, RecordLast, Announce, MarkStatus
<1>5. QED
  BY <1>2, <1>3, <1>4

\* While an item is applied.
LEMMA ChangedApply ==
    ASSUME Before, Apply
    PROVE  \A i \in Items : Changed(i)
<1> DEFINE k == agent.item
<1>1. TypeOK /\ Sound /\ ControlInv /\ NoMulti
  BY DEF Before, ControlInv
<1>2. CASE journal' = journal
  BY <1>1, <1>2, ChangedSame
<1>3. \/ journal' = journal \/ Begin \/ MakeDirectory \/ WriteManifest \/ WriteApplying
      \/ WritePrepared \/ MarkPending \/ Commit \/ Deactivate
  BY DEF Apply, WriteActive, WriteStatusApplying, Stage, UciCommit, WriteStatusPending, Verify,
     WriteLast, WriteOperationStatus, WriteStatusCommitted, PublishFailure
<1>4. CASE Begin /\ journal' # journal
  <2>1. journal[k].state = "RESTORED" /\ Unlink(k)
    BY <1>4, Zenon DEF Begin
  <2>2. k \in Items
    BY <1>1, <1>4, AtApply DEF Begin, At, pc
  <2>3. /\ journal' \in [Items -> Entry] /\ \A j \in Items : journal'[j].backup \in Backups(j)
        /\ \A j \in Items : j # k => journal'[j] = journal[j]
        /\ journal'[k].state \in {"NONE", journal[k].state}
        /\ journal'[k].level <= journal[k].level
    BY <1>1, <2>1, <2>2, UnlinkFact DEF Done
  <2>4. OnlyEntry(k, journal'[k]) /\ journal'[k].level \in 0 .. 4
    BY <2>2, <2>3 DEF OnlyEntry, Entry
  <2>5. QED
    BY <1>1, <2>1, <2>2, <2>3, <2>4, ChangedEntry DEF InFlight
<1>5. CASE MakeDirectory \/ WriteManifest \/ WriteApplying \/ WritePrepared \/ MarkPending \/ Commit
  <2>1. pc \in Applying
    BY <1>5 DEF MakeDirectory, WriteManifest, WriteApplying, WritePrepared, MarkPending, Commit, At,
       pc, Applying, Beginning, Verifying
  <2>2. k \in Items
    BY <1>1, <2>1, AtApply
  <2>3. CASE MakeDirectory
    <3>1. /\ OnlyEntry(k, journal'[k])
          /\ journal'[k].state = "NONE" /\ journal'[k].level = 0
      BY <1>1, <2>2, <2>3, MakeDirectoryFact DEF NoMulti
    <3>2. QED
      BY <1>1, <2>2, <3>1, ChangedEntry
  <2>4. CASE WriteManifest
    <3>1. /\ OnlyEntry(k, journal'[k])
          /\ journal'[k].state = journal[k].state
          /\ journal'[k].level = journal[k].level + 1
      BY <1>1, <2>2, <2>4, WriteManifestFact
    <3>2. pc = "journal" /\ journal[k].level < ManifestTop(k)
      BY <2>4 DEF WriteManifest, At, pc, Before, OutcomeInv, Paths
    <3>3. Single(k) => ManifestTop(k) = 4
      BY DEF ManifestTop, Single
    <3>4. Single(k) => journal[k].state \notin InFlight
      BY <2>2, <3>2, <3>3 DEF Before, OutcomeInv, Placed
    <3>5. journal[k].level \in Nat /\ ManifestTop(k) \in Nat
      BY <1>1, <2>2, LevelType DEF ManifestTop
    <3>6. QED
      BY <1>1, <2>2, <3>1, <3>2, <3>4, <3>5, ChangedEntry
  <2>5. CASE WriteApplying
    <3>1. OnlyState(k, "APPLYING") /\ pc = "journal" /\ journal[k].level >= ManifestTop(k)
      BY <1>1, <2>2, <2>5, StateFact DEF WriteApplying, At, pc, JournalStates, InFlight
    <3>2. QED
      BY <1>1, <2>2, <3>1, ChangedState DEF Open, InFlight
  <2>6. CASE WritePrepared /\ journal' # journal
    <3>1. OnlyState(k, "RECOVERY_REQUIRED")
      BY <1>1, <2>2, <2>6, StateFact DEF WritePrepared, JournalStates
    <3>2. QED
      BY <1>1, <2>2, <3>1, ChangedState DEF Open, InFlight
  <2>7. CASE MarkPending
    <3>1. OnlyState(k, "PENDING_CONFIRM")
      BY <1>1, <2>2, <2>7, StateFact DEF MarkPending, JournalStates, InFlight
    <3>2. journal[k].state \in InFlight
      BY <1>1, <2>1, <2>7 DEF MarkPending, At, pc, ControlInv, AtWork
    <3>3. QED
      BY <1>1, <2>2, <3>1, <3>2, ChangedState DEF Open, InFlight
  <2>8. CASE Commit
    <3>1. OnlyState(k, "COMMITTED") /\ pc = "decide" /\ commits' = commits \cup {k}
      BY <1>1, <2>2, <2>8, StateFact DEF Commit, At, pc, JournalStates, Done
    <3>2. QED
      BY <1>1, <2>2, <3>1, ChangedDone DEF Done
  <2>9. QED
    BY <1>2, <1>5, <2>3, <2>4, <2>5, <2>6, <2>7, <2>8
<1>6. CASE Deactivate /\ journal' # journal
  <2>1. k \in Items
    BY <1>1, <1>6 DEF Deactivate, At, pc, ControlInv, Known, Finishing
  <2>2. OnlyBackup(k)
    BY <1>1, <1>6, <2>1, BackupFact DEF Deactivate
  <2>3. QED
    BY <1>1, <2>1, <2>2, ChangedSame
<1>7. QED
  BY <1>2, <1>3, <1>4, <1>5, <1>6

\* In any step.
LEMMA ChangedStep ==
    ASSUME Before, [Next]_vars
    PROVE  \A i \in Items : Changed(i)
<1>1. TypeOK /\ Sound /\ ControlInv
  BY DEF Before, ControlInv
<1>2. CASE journal' = journal
  BY <1>1, <1>2, ChangedSame
<1>3. CASE Prune /\ journal' # journal
  <2>1. PICK k \in Items : Prunable(k) /\ Unlink(k)
    BY <1>3 DEF Prune
  <2>2. journal[k].state \in Done
    BY <2>1 DEF Prunable
  <2>3. /\ journal' \in [Items -> Entry] /\ \A j \in Items : journal'[j].backup \in Backups(j)
        /\ \A j \in Items : j # k => journal'[j] = journal[j]
        /\ journal'[k].state \in {"NONE", journal[k].state}
        /\ journal'[k].level <= journal[k].level
    BY <1>1, <2>1, <2>2, UnlinkFact
  <2>4. OnlyEntry(k, journal'[k]) /\ journal'[k].level \in 0 .. 4
    BY <2>3 DEF OnlyEntry, Entry
  <2>5. QED
    BY <1>1, <2>2, <2>3, <2>4, ChangedEntry DEF InFlight, Done
<1>4. CASE RemoveDirectory
  <2>1. agent.rec \in Items
    BY <1>1, <1>4 DEF RemoveDirectory, At, pc, ControlInv, Known
  <2>2. <<>> \in Backups(agent.rec)
    BY DEF Backups
  <2>3. <<>> \in UNION {Backups(j) : j \in Items}
    BY <2>1, <2>2
  <2>4. /\ NoEntry \in Entry /\ NoEntry.backup = <<>> /\ NoEntry.state = "NONE"
        /\ NoEntry.level = 0
    BY <2>3 DEF NoEntry, Entry, JournalStates
  <2>5. OnlyEntry(agent.rec, NoEntry)
    BY <1>1, <1>4, <2>1, <2>2, <2>4, EntryFact DEF RemoveDirectory
  <2>6. QED
    BY <1>1, <2>1, <2>4, <2>5, ChangedEntry
<1>5. \/ journal' = journal \/ Recovery \/ Apply \/ Prune \/ RemoveDirectory
  BY DEF vars, Next, AgentStep, Boot, Heartbeat, PullFails, Pull, PullNothing, PullOperation,
     PullSingle, PullMulti, Crash, Plan, Record
<1>6. QED
  BY <1>2, <1>3, <1>4, <1>5, ChangedRecovery, ChangedApply

\* The steps that change the configuration, the staged changes or what is committed.
LEMMA DataSteps ==
    ASSUME [Next]_vars
    PROVE  SameData \/ Stage \/ UciCommit \/ Restore \/ Commit \/ Crash
<1>1. CASE Recovery
  BY <1>1 DEF Recovery, RecoverPending, RecoverOne, RollingBack, Restored, Forget, RecordLast,
     Announce, MarkStatus, MarkState, SameData
<1>2. CASE Apply
  BY <1>2 DEF Apply, Begin, MakeDirectory, WriteManifest, WriteApplying, WriteActive, WritePrepared,
     WriteStatusApplying, MarkPending, WriteStatusPending, Verify, Deactivate, WriteLast,
     WriteOperationStatus, WriteStatusCommitted, PublishFailure, SameData
<1>3. CASE Boot \/ Heartbeat \/ PullFails \/ Pull \/ Prune \/ RemoveDirectory
  BY <1>3 DEF Boot, Heartbeat, PullFails, Pull, PullNothing, PullOperation, PullSingle, PullMulti,
     Prune, RemoveDirectory, SameData
<1>4. CASE Plan \/ Record \/ UNCHANGED vars
  BY <1>4 DEF Plan, Record, vars, SameData
<1>5. QED
  BY <1>1, <1>2, <1>3, <1>4 DEF Next, AgentStep

\* What is intended is what was there before, or a committed item that touches the
\* namespace.
LEMMA IntendedIn ==
    ASSUME TypeOK, NEW n
    PROVE  Intended(n) \in Content /\ (Intended(n) # 0 => Intended(n) \in commits /\ n \in Touches[Intended(n)])
<1> DEFINE S == {0} \cup {i \in commits : n \in Touches[i]}
<1>1. S \subseteq Content /\ S # {}
  BY Constants DEF TypeOK
<1>2. Intended(n) = Max(S)
  BY DEF Intended
<1>3. Max(S) \in S
  <2> HIDE DEF S
  <2>1. QED
    BY <1>1, MaxBounds
<1>4. QED
  BY <1>1, <1>2, <1>3

\* Only staging leaves something of an item that nothing is left of.
LEMMA LeftStep ==
    ASSUME Before, [Next]_vars, NEW i \in Items, Left(i)'
    PROVE  \/ Left(i)
           \/ /\ pc = "stage" /\ agent.item = i
              /\ UNCHANGED <<journal, marks, status, server, sent, commits, crashes>>
<1>1. /\ TypeOK /\ ControlInv /\ LogInv
      /\ config \in [Namespaces -> Content] /\ staged \in [Namespaces -> Content]
  BY DEF Before, ControlInv, TypeOK
<1>2. i # 0
  BY Constants
<1>3. CASE SameData
  BY <1>3 DEF SameData, Left
<1>4. CASE Stage
  <2>1. pc = "stage" /\ pc \in Mutating
    BY <1>4 DEF Stage, At, pc, Mutating
  <2>2. Min(agent.left) \in Namespaces
    BY <1>1, <2>1, AtMutation
  <2>3. staged' = [staged EXCEPT ![Min(agent.left)] = agent.item] /\ config' = config
        /\ UNCHANGED <<journal, marks, status, server, sent, commits, crashes>>
    BY <1>4 DEF Stage
  <2>4. CASE agent.item = i
    BY <2>1, <2>3, <2>4
  <2>5. CASE agent.item # i
    <3>1. \A n \in Namespaces : staged'[n] = i => staged[n] = i
      BY <1>1, <2>2, <2>3, <2>5
    <3>2. QED
      BY <2>3, <3>1 DEF Left
  <2>6. QED
    BY <2>4, <2>5
<1>5. CASE UciCommit
  <2>1. commits' = commits
    BY <1>5 DEF UciCommit
  <2>2. \A n \in Namespaces : /\ config'[n] = i => config[n] = i \/ staged[n] = i
                              /\ staged'[n] = i => staged[n] = i
    BY <1>1, <1>2, <1>5 DEF UciCommit
  <2>3. QED
    BY <2>1, <2>2 DEF Left
<1>6. CASE Restore
  <2> DEFINE m == Min(agent.left)
  <2>1. /\ pc = "restore" /\ agent.rec \in Items /\ m \in Touches[agent.rec]
        /\ config' = [config EXCEPT ![m] = journal[agent.rec].backup[m]]
        /\ staged' = [staged EXCEPT ![m] = 0] /\ commits' = commits
    BY <1>1, <1>6, RestoreFact DEF Restore
  <2>2. journal[agent.rec].state \in InFlight
    BY <1>1, <2>1 DEF ControlInv, AtWork
  <2>3. journal[agent.rec].backup[m] = Intended(m)
    BY <1>1, <2>1, <2>2 DEF LogInv, Backed, HoldsIntended
  <2>4. Intended(m) = i => i \in commits
    BY <1>1, <1>2, IntendedIn
  <2> HIDE DEF m
  <2>5. \A n \in Namespaces : /\ config'[n] = i => config[n] = i \/ i \in commits
                              /\ staged'[n] = i => staged[n] = i
    BY <1>1, <1>2, <2>1, <2>3, <2>4
  <2>6. QED
    BY <2>1, <2>5 DEF Left
<1>7. CASE Commit
  <2>1. commits' = commits \cup {agent.item} /\ UNCHANGED <<config, staged>>
    BY <1>7 DEF Commit
  <2>2. pc \in Verifying /\ pc \in Applying
    BY <1>7 DEF Commit, At, pc, Verifying, Applying
  <2>3. agent.item \in Items
    BY <1>1, <2>2, AtApply
  <2>4. PICK n \in Touches[agent.item] : n \in Namespaces
    BY <2>3, Constants
  <2>5. config[n] = agent.item
    BY <1>1, <2>2 DEF LogInv, Files
  <2>6. QED
    BY <2>1, <2>4, <2>5 DEF Left
<1>8. CASE Crash
  <2>1. config' = config /\ commits' = commits
    BY <1>8 DEF Crash
  <2>2. \A n \in Namespaces : staged'[n] = i => staged[n] = i
    BY <1>2, <1>8 DEF Crash
  <2>3. QED
    BY <2>1, <2>2 DEF Left
<1>9. QED
  BY <1>3, <1>4, <1>5, <1>6, <1>7, <1>8, DataSteps

\* The controller's part of a step: what is planned grows, and an item is planned only
\* when none is waited for.
LEMMA ServerStep ==
    ASSUME TypeOK, [Next]_vars
    PROVE  \/ server' = server
           \/ /\ Plan /\ server.pending = 0 /\ server'.outcome = server.outcome
              /\ server'.pending = server.planned + 1 /\ server'.planned = server.planned + 1
           \/ /\ Record /\ server'.pending = 0 /\ server'.planned = server.planned
              /\ \E r \in sent :
                    /\ r.id = server.pending /\ r.state \in FinalStates(r.id)
                    /\ server'.outcome = [server.outcome EXCEPT ![r.id] = r.state]
<1>1. server \in [pending : Content, planned : Content, observed : [Namespaces -> Content],
                  outcome : [Items -> StatusStates]]
  BY DEF TypeOK
<1>2. CASE Plan
  <2> DEFINE shown == [n \in Namespaces |-> Shown(n)]
  <2>1. server' = [server EXCEPT !.pending = server.planned + 1, !.planned = server.planned + 1,
                                 !.observed = shown]
    BY <1>1, <1>2 DEF Plan
  <2> HIDE DEF shown
  <2>2. /\ server'.pending = server.planned + 1 /\ server'.planned = server.planned + 1
        /\ server'.outcome = server.outcome
    BY <1>1, <2>1
  <2>3. QED
    BY <1>2, <2>2 DEF Plan
<1>3. CASE Record
  <2>1. PICK r \in sent : /\ r.id = server.pending /\ r.state \in FinalStates(r.id)
                          /\ server' = [server EXCEPT !.pending = 0, !.outcome[r.id] = r.state]
    BY <1>3 DEF Record
  <2> DEFINE outcome == [server.outcome EXCEPT ![r.id] = r.state]
  <2>2. server' = [server EXCEPT !.pending = 0, !.outcome = outcome]
    BY <1>1, <2>1
  <2> HIDE DEF outcome
  <2>3. server'.pending = 0 /\ server'.planned = server.planned /\ server'.outcome = outcome
    BY <1>1, <2>2
  <2>4. QED
    BY <1>3, <2>1, <2>3 DEF outcome
<1>4. CASE Recovery
  BY <1>4 DEF Recovery, RecoverPending, RecoverOne, RollingBack, Restore, Restored, Forget,
     RecordLast, Announce, MarkStatus, MarkState
<1>5. CASE Apply
  BY <1>5 DEF Apply, Begin, MakeDirectory, WriteManifest, WriteApplying, WriteActive, WritePrepared,
     WriteStatusApplying, Stage, UciCommit, MarkPending, WriteStatusPending, Verify, Commit,
     Deactivate, WriteLast, WriteOperationStatus, WriteStatusCommitted, PublishFailure
<1>6. CASE Boot \/ Heartbeat \/ PullFails \/ Pull \/ Prune \/ RemoveDirectory
  BY <1>6 DEF Boot, Heartbeat, PullFails, Pull, PullNothing, PullOperation, PullSingle, PullMulti,
     Prune, RemoveDirectory
<1>7. CASE Crash \/ UNCHANGED vars
  BY <1>7 DEF Crash, vars
<1>8. QED
  BY <1>2, <1>3, <1>4, <1>5, <1>6, <1>7 DEF Next, AgentStep

\* What an item brings stays in its place.
LEMMA PlacedStep ==
    ASSUME Before, [Next]_vars
    PROVE  Placed'
<1>1. /\ TypeOK /\ ControlInv /\ LogInv /\ Placed
      /\ config \in [Namespaces -> Content] /\ staged \in [Namespaces -> Content]
  BY DEF Before, OutcomeInv, ControlInv, TypeOK
<1>2. ControlInv' /\ TypeOK'
  BY <1>1, ControlStep DEF ControlInv
<1>3. ASSUME NEW n \in Namespaces
      PROVE  /\ config'[n] # 0 => n \in Touches[config'[n]]
             /\ staged'[n] # 0 => n \in Touches[staged'[n]]
  <2>1. /\ config[n] # 0 => n \in Touches[config[n]]
        /\ staged[n] # 0 => n \in Touches[staged[n]]
    BY <1>1 DEF Placed
  <2>2. CASE SameData
    BY <2>1, <2>2 DEF SameData
  <2>3. CASE Stage
    <3>1. pc \in Mutating
      BY <2>3 DEF Stage, At, pc, Mutating
    <3>2. Min(agent.left) \in Touches[agent.item]
      BY <1>1, <3>1, AtMutation
    <3>3. staged'[n] \in {staged[n], IF n = Min(agent.left) THEN agent.item ELSE staged[n]}
          /\ config' = config
      BY <1>1, <2>3 DEF Stage
    <3>4. QED
      BY <2>1, <3>2, <3>3
  <2>4. CASE UciCommit
    BY <1>1, <2>1, <2>4 DEF UciCommit
  <2>5. CASE Restore
    <3> DEFINE m == Min(agent.left)
    <3>1. /\ pc = "restore" /\ agent.rec \in Items /\ m \in Touches[agent.rec]
          /\ config' = [config EXCEPT ![m] = journal[agent.rec].backup[m]]
          /\ staged' = [staged EXCEPT ![m] = 0]
      BY <1>1, <2>5, RestoreFact
    <3>2. journal[agent.rec].state \in InFlight
      BY <1>1, <3>1 DEF ControlInv, AtWork
    <3>3. journal[agent.rec].backup[m] = Intended(m)
      BY <1>1, <3>1, <3>2 DEF LogInv, Backed, HoldsIntended
    <3>4. Intended(m) # 0 => m \in Touches[Intended(m)]
      BY <1>1, IntendedIn
    <3> HIDE DEF m
    <3>5. config'[n] = (IF n = m THEN Intended(m) ELSE config[n]) /\ staged'[n] \in {0, staged[n]}
      BY <1>1, <3>1, <3>3
    <3>6. QED
      BY <2>1, <3>4, <3>5
  <2>6. CASE Commit \/ Crash
    <3>1. config' = config /\ staged'[n] \in {0, staged[n]}
      BY <2>6 DEF Commit, Crash
    <3>2. QED
      BY <2>1, <3>1
  <2>7. QED
    BY <2>2, <2>3, <2>4, <2>5, <2>6, DataSteps
<1>4. ASSUME NEW i \in Items
      PROVE  /\ journal'[i].level > 0 => i <= server'.planned
             /\ Kind[i] = "operation" => journal'[i].level <= 1
             /\ Single(i) /\ journal'[i].state \in InFlight => journal'[i].level = 4
  <2>1. Changed(i)
    BY ChangedStep
  <2>2. /\ journal[i].level > 0 => i <= server.planned
        /\ Kind[i] = "operation" => journal[i].level <= 1
        /\ Single(i) /\ journal[i].state \in InFlight => journal[i].level = 4
    BY <1>1 DEF Placed
  <2>3. journal[i].level \in 0 .. 4 /\ journal'[i].level \in 0 .. 4
    BY <1>1, <1>2, LevelType DEF TypeOK, Entry
  <2>4. server.planned \in Nat /\ server.planned <= server'.planned /\ server'.planned \in Nat
    <3>1. server.planned \in Content
      BY <1>1 DEF TypeOK
    <3>2. server.planned \in Nat
      BY <3>1, Constants
    <3>3. server'.planned \in {server.planned, server.planned + 1}
      BY <1>1, ServerStep
    <3>4. QED
      BY <3>2, <3>3
  <2>5. agent.item <= server.planned
    BY <1>1 DEF LogInv, InOrderOf
  <2>6. pc = "journal" => ManifestTop(i) = IF Single(i) THEN 4 ELSE 1
    BY DEF ManifestTop, At, pc, Single
  <2>7. journal'[i].level > 0 => i <= server'.planned
    <3>1. i \in Nat
      BY Constants
    <3>2. journal'[i].level <= journal[i].level \/ agent.item = i
      BY <2>1 DEF Changed
    <3>3. QED
      BY <2>2, <2>3, <2>4, <2>5, <3>1, <3>2
  <2>8. Kind[i] = "operation" => journal'[i].level <= 1
    BY <2>1, <2>2, <2>3, <2>6 DEF Changed, Single
  <2>9. Single(i) /\ journal'[i].state \in InFlight => journal'[i].level = 4
    BY <2>1, <2>2, <2>3, <2>6 DEF Changed
  <2>10. QED
    BY <2>7, <2>8, <2>9
<1>5. QED
  BY <1>3, <1>4 DEF Placed, Single

\* What a status that is written says, and of what.
Justified(i, state) ==
    /\ Single(i)
    /\ state = "COMMITTED" => i \in commits
    /\ state = "RESTORED" => ~Left(i)
    /\ state = "REJECTED" => pc \in {"pull", "publish"}
    /\ state = "PREPARED" => pc = "prepared" /\ agent.item = i
    /\ state = "APPLYING" => pc = "applying" /\ agent.item = i
    /\ state = "PENDING_CONFIRM" => pc = "confirmStatus" /\ agent.item = i
    /\ state = "ROLLING_BACK" => journal[i].state \in InFlight

\* A status is kept, or written over as the code allows.
Written == \E i \in Items, state \in StatusStates \ {"NONE"} :
    Justified(i, state) /\ status' = StatusWritten(i, state)

\* What the journal says of the end of a change set.
LEMMA JournalEnd ==
    ASSUME Before, NEW i \in Items, Single(i), journal[i].state \in Done
    PROVE  Justified(i, journal[i].state) /\ journal[i].state \in StatusStates \ {"NONE"}
<1>1. JournalTrue
  BY DEF Before, OutcomeInv
<1>2. QED
  BY <1>1 DEF JournalTrue, Justified, Done, InFlight, StatusStates, JournalStates

\* A change set's entry is told from an operation's.
LEMMA ChangeSetSingle ==
    ASSUME Before, NEW i \in Items, IsChangeSet(i) \/ journal[i].level >= 2
    PROVE  Single(i)
<1>1. NoMulti /\ Placed /\ journal[i].level \in Nat
  BY LevelType DEF Before, OutcomeInv, ControlInv
<1>2. journal[i].level >= 2
  BY <1>1 DEF IsChangeSet, NoMulti
<1>3. Kind[i] # "operation"
  BY <1>1, <1>2 DEF Placed
<1>4. QED
  BY <1>1, <1>3, Kinds

\* The recovery's statuses.
LEMMA StatusRecovery ==
    ASSUME Before, Recovery
    PROVE  status' = status \/ Written
<1>1. TypeOK /\ ControlInv /\ NoMulti
  BY DEF Before, ControlInv
<1>2. ASSUME NEW i \in Items, Single(i), status' = StatusWritten(i, "RECOVERY_REQUIRED")
      PROVE  Written
  <2>1. Justified(i, "RECOVERY_REQUIRED") /\ "RECOVERY_REQUIRED" \in StatusStates \ {"NONE"}
    BY <1>2 DEF Justified, StatusStates, JournalStates
  <2>2. QED
    BY <1>2, <2>1 DEF Written
<1>3. CASE RecoverPending
  <2>1. CASE status' # status
    <3>1. Orphaned /\ status' = StatusWritten(status.id, "RECOVERY_REQUIRED")
      BY <1>3, <2>1 DEF RecoverPending
    <3>2. status.state # "NONE"
      BY <3>1 DEF Orphaned, InFlight
    <3>3. status.id \in Items /\ status.id # 0
      BY <1>1, <3>2, StatusType, Constants
    <3>4. Single(status.id)
      BY <3>3 DEF Before, OutcomeInv, StatusTrue
    <3>5. QED
      BY <1>2, <3>1, <3>3, <3>4
  <2>2. QED
    BY <2>1
<1>4. CASE RecoverOne
  <2> DEFINE i == agent.rec
  <2>1. i \in Items
    BY <1>1, <1>4, AtRecovery DEF RecoverOne, At, pc, RecoveringOne
  <2>2. CASE RecoverDone(i)
    <3>1. CASE IsChangeSet(i)
      <4>1. Single(i) /\ journal[i].state \in Done /\ status' = StatusWritten(i, journal[i].state)
        BY <2>1, <2>2, <3>1, ChangeSetSingle DEF RecoverDone
      <4>2. QED
        BY <2>1, <4>1, JournalEnd DEF Written
    <3>2. CASE ~IsChangeSet(i)
      BY <2>2, <3>2 DEF RecoverDone
    <3>3. QED
      BY <3>1, <3>2
  <2>3. CASE RecoverRefused(i)
    <3>1. CASE IsChangeSet(i)
      BY <1>2, <2>1, <2>3, <3>1, ChangeSetSingle DEF RecoverRefused
    <3>2. CASE ~IsChangeSet(i)
      BY <2>3, <3>2 DEF RecoverRefused
    <3>3. QED
      BY <3>1, <3>2
  <2>4. CASE RecoverInFlight(i)
    <3>1. CASE Kind[i] = "single"
      <4>1. status' = StatusWritten(i, "ROLLING_BACK") /\ journal[i].state \in InFlight
        BY <2>4, <3>1 DEF RecoverInFlight
      <4>2. Justified(i, "ROLLING_BACK") /\ "ROLLING_BACK" \in StatusStates \ {"NONE"}
        BY <3>1, <4>1 DEF Justified, Single, StatusStates, JournalStates, InFlight
      <4>3. QED
        BY <2>1, <4>1, <4>2 DEF Written
    <3>2. CASE Kind[i] # "single"
      BY <2>4, <3>2 DEF RecoverInFlight
    <3>3. QED
      BY <3>1, <3>2
  <2>5. CASE status' = status
    BY <2>5
  <2>6. QED
    BY <1>4, <2>2, <2>3, <2>4, <2>5 DEF RecoverOne
<1>5. CASE Announce \/ MarkStatus
  <2> DEFINE i == agent.rec
  <2>1. i \in Items
    BY <1>1, <1>5, AtRecovery DEF Announce, MarkStatus, At, pc, RecoveringOne
  <2>2. CASE Announce /\ status' # status
    <3>1. Kind[i] # "operation" /\ status' = StatusWritten(i, "RESTORED")
      BY <2>2 DEF Announce
    <3>2. Single(i)
      BY <1>1, <2>1, <3>1, Kinds
    <3>3. journal[i].state = "RESTORED"
      BY <2>2 DEF Announce, At, pc, Before, OutcomeInv, Paths
    <3>4. QED
      BY <2>1, <3>1, <3>2, <3>3, JournalEnd DEF Written, Done
  <2>3. CASE MarkStatus /\ status' # status
    <3>1. journal[i].level >= 3 /\ status' = StatusWritten(i, "RECOVERY_REQUIRED")
      BY <2>3 DEF MarkStatus
    <3>2. journal[i].level >= 2
      BY <1>1, <2>1, <3>1, LevelType
    <3>3. QED
      BY <1>2, <2>1, <3>1, <3>2, ChangeSetSingle
  <2>4. QED
    BY <1>5, <2>2, <2>3
<1>6. QED
  BY <1>3, <1>4, <1>5 DEF Recovery, RollingBack, Restore, Restored, Forget, RecordLast, MarkState

\* Those of an item that is applied, or is not.
LEMMA StatusApply ==
    ASSUME Before, Apply \/ PullSingle
    PROVE  status' = status \/ Written
<1> DEFINE i == agent.item
<1>1. TypeOK /\ ControlInv /\ NoMulti /\ Paths
  BY DEF Before, ControlInv, OutcomeInv
<1>2. {"PREPARED", "APPLYING", "PENDING_CONFIRM", "COMMITTED", "RECOVERY_REQUIRED", "REJECTED"}
         \subseteq StatusStates \ {"NONE"}
  BY DEF StatusStates, JournalStates, InFlight, Done
<1>3. CASE WritePrepared \/ WriteStatusApplying \/ WriteStatusPending
  <2>1. pc \in {"prepared", "applying", "confirmStatus"} /\ pc \in Applying
    BY <1>1, <1>3 DEF WritePrepared, WriteStatusApplying, WriteStatusPending, At, pc, Paths,
       Applying, Beginning, Verifying
  <2>2. Single(i) /\ i \in Items
    BY <1>1, <2>1, AtApply DEF Paths
  <2>3. CASE WritePrepared
    <3>1. status' = StatusWritten(i, "PREPARED") /\ pc = "prepared"
      BY <1>1, <2>3 DEF WritePrepared, At, pc, Paths
    <3>2. QED
      BY <1>2, <2>2, <3>1 DEF Written, Justified
  <2>4. CASE WriteStatusApplying
    <3>1. status' = StatusWritten(i, "APPLYING") /\ pc = "applying"
      BY <2>4 DEF WriteStatusApplying, At, pc
    <3>2. QED
      BY <1>2, <2>2, <3>1 DEF Written, Justified
  <2>5. CASE WriteStatusPending
    <3>1. status' = StatusWritten(i, "PENDING_CONFIRM") /\ pc = "confirmStatus"
      BY <2>5 DEF WriteStatusPending, At, pc
    <3>2. QED
      BY <1>2, <2>2, <3>1 DEF Written, Justified
  <2>6. QED
    BY <1>3, <2>3, <2>4, <2>5
<1>4. CASE WriteStatusCommitted
  <2>1. pc = "committed" /\ status' = StatusWritten(i, "COMMITTED")
    BY <1>4 DEF WriteStatusCommitted, At, pc
  <2>2. i \in Items /\ Single(i) /\ i \in commits
    BY <1>1, <2>1 DEF ControlInv, Known, Finishing, Paths
  <2>3. QED
    BY <1>2, <2>1, <2>2 DEF Written, Justified
<1>5. CASE PublishFailure
  <2>1. pc = "publish" /\ status' = StatusWritten(i, FailureState(journal[i].state))
    BY <1>5 DEF PublishFailure, At, pc
  <2>2. i \in Items /\ Single(i)
    BY <1>1, <2>1 DEF ControlInv, Known, Finishing, Paths
  <2>3. CASE journal[i].state \in Done
    <3>1. FailureState(journal[i].state) = journal[i].state
      BY <2>3 DEF FailureState, Done, InFlight
    <3>2. QED
      BY <2>1, <2>2, <2>3, <3>1, JournalEnd DEF Written
  <2>4. CASE journal[i].state \notin Done
    <3>1. FailureState(journal[i].state) \in {"RECOVERY_REQUIRED", "REJECTED"}
      BY <2>4 DEF FailureState
    <3>2. QED
      BY <1>2, <2>1, <2>2, <3>1 DEF Written, Justified
  <2>5. QED
    BY <2>3, <2>4
<1>6. CASE PullSingle
  <2> DEFINE k == server.pending
  <2>1. k \in Items /\ pc = "pull" /\ Single(k)
    BY <1>1, <1>6, PendingItem DEF PullSingle, At, pc, Single
  <2>2. status' = StatusWritten(k, "REJECTED") => Written
    BY <1>2, <2>1 DEF Written, Justified
  <2>3. CASE ~EndKnown(k)
    BY <1>6, <2>2, <2>3, Zenon DEF PullSingle
  <2>4. CASE EndKnown(k)
    <3> DEFINE known == status.id = k /\ status.state \in Done \cup {"REJECTED"}
    <3>1. status' = IF known THEN status
                    ELSE StatusWritten(k, IF Complete(k) THEN journal[k].state ELSE "REJECTED")
      BY <1>6, <2>4, Zenon DEF PullSingle
    <3>2. known \/ journal[k].state \in Done
      BY <2>4 DEF EndKnown
    <3> HIDE DEF known
    <3>3. ~known => \/ status' = StatusWritten(k, "REJECTED")
                    \/ status' = StatusWritten(k, journal[k].state) /\ journal[k].state \in Done
      BY <3>1, <3>2
    <3>4. QED
      BY <2>1, <2>2, <3>1, <3>3, JournalEnd DEF Written
  <2>5. QED
    BY <2>3, <2>4
<1>7. QED
  BY <1>3, <1>4, <1>5, <1>6 DEF Apply, Begin, MakeDirectory, WriteManifest, WriteApplying, WriteActive,
     Stage, UciCommit, MarkPending, Verify, Commit, Deactivate, WriteLast, WriteOperationStatus

\* Those of any step.
LEMMA StatusStep ==
    ASSUME Before, [Next]_vars
    PROVE  status' = status \/ Written
<1>1. ~PullMulti
  BY PendingItem DEF PullMulti, Before, NoMulti, ControlInv
<1>2. QED
  BY <1>1, StatusRecovery, StatusApply DEF Next, AgentStep, Boot, Heartbeat, PullFails, Pull,
     PullNothing, PullOperation, Prune, RemoveDirectory, Crash, Plan, Record, vars

\* A status that changes follows the one before.
LEMMA StatusChange ==
    ASSUME Before, [Next]_vars, status' # status
    PROVE  \E i \in Items, state \in StatusStates \ {"NONE"} :
              /\ Justified(i, state) /\ StatusAllowed(i, state)
              /\ status' = [id |-> i, state |-> state]
              /\ status'.id = i /\ status'.state = state
<1>1. PICK i \in Items, state \in StatusStates \ {"NONE"} :
         Justified(i, state) /\ status' = StatusWritten(i, state)
  BY StatusStep DEF Written
<1>2. StatusAllowed(i, state) /\ status' = [id |-> i, state |-> state]
  BY <1>1 DEF StatusWritten
<1>3. status'.id = i /\ status'.state = state
  BY <1>2
<1>4. QED
  BY <1>1, <1>2, <1>3

\* The identities in the status file only grow, and one that speaks of the same change
\* set follows the order of change_set_transition_allowed.
LEMMA StatusOrder ==
    ASSUME Before, [Next]_vars, status' # status
    PROVE  /\ status.id \in Content /\ status'.id \in Items
           /\ \/ status.id = 0 /\ status.state = "NONE"
              \/ status'.id = status.id /\ status'.state \in NextStates[status.state]
              \/ status'.id > status.id /\ status.state \in Done \cup {"REJECTED"}
<1>1. PICK i \in Items, state \in StatusStates \ {"NONE"} :
              /\ Justified(i, state) /\ StatusAllowed(i, state)
              /\ status'.id = i /\ status'.state = state
  BY StatusChange
<1>2. TypeOK
  BY DEF Before, ControlInv
<1>3. CASE status.id # 0 \/ status.state # "NONE"
  <2>1. status \in [id : Items, state : StatusStates \ {"NONE"}]
    BY <1>2, <1>3, StatusType
  <2>2. status.id \in Items /\ status.id # 0 /\ status.id \in Content
    BY <2>1, Constants
  <2>3. QED
    BY <1>1, <2>2 DEF StatusAllowed
<1>4. CASE status.id = 0 /\ status.state = "NONE"
  BY <1>1, <1>4, Constants
<1>5. QED
  BY <1>3, <1>4

\* The states of a change set that the status file may give after each.
LEMMA Transitions ==
    /\ NextStates["PREPARED"] =
          {"PREPARED", "APPLYING", "REJECTED", "ROLLING_BACK", "RECOVERY_REQUIRED"}
    /\ NextStates["APPLYING"] = {"APPLYING", "COMMITTED", "PENDING_CONFIRM", "ROLLING_BACK", "RESTORED",
                                 "RECOVERY_REQUIRED", "REJECTED"}
    /\ NextStates["PENDING_CONFIRM"] = {"PENDING_CONFIRM", "COMMITTED", "ROLLING_BACK", "RESTORED",
                                        "RECOVERY_REQUIRED"}
    /\ NextStates["ROLLING_BACK"] = {"ROLLING_BACK", "RESTORED", "RECOVERY_REQUIRED"}
    /\ NextStates["COMMITTED"] = {"COMMITTED"}
    /\ NextStates["RESTORED"] = {"RESTORED", "PREPARED", "REJECTED"}
    /\ NextStates["RECOVERY_REQUIRED"] = {"RECOVERY_REQUIRED"}
    /\ NextStates["REJECTED"] = {"REJECTED"}
BY DEF NextStates

\* What is committed only grows, by the item that is decided on.
LEMMA CommitsStep ==
    ASSUME [Next]_vars
    PROVE  commits' = commits \/ (pc = "decide" /\ Commit /\ commits' = commits \cup {agent.item})
<1>1. CASE Stage \/ UciCommit \/ Restore \/ Crash
  BY <1>1 DEF Stage, UciCommit, Restore, Crash
<1>2. CASE Commit
  BY <1>2 DEF Commit, At, pc
<1>3. QED
  BY <1>1, <1>2, DataSteps DEF SameData

\* The journal goes on telling the truth.
LEMMA JournalTrueStep ==
    ASSUME Before, [Next]_vars
    PROVE  JournalTrue'
<1>1. /\ TypeOK /\ ControlInv /\ LogInv /\ JournalTrue /\ Placed /\ BegunOpen
      /\ config \in [Namespaces -> Content] /\ staged \in [Namespaces -> Content]
  BY DEF Before, OutcomeInv, ControlInv, TypeOK
<1>2. SUFFICES ASSUME NEW i \in Items, Single(i)
               PROVE  /\ journal'[i].state = "COMMITTED" => i \in commits'
                      /\ journal'[i].state = "RESTORED" => ~Left(i)'
                      /\ journal'[i].state \in InFlight => i \notin commits'
  BY DEF JournalTrue, Single
<1>3. Changed(i)
  BY ChangedStep
<1>4. /\ journal[i].state = "COMMITTED" => i \in commits
      /\ journal[i].state = "RESTORED" => ~Left(i)
      /\ journal[i].state \in InFlight => i \notin commits
  BY <1>1, <1>2 DEF JournalTrue
<1>5. commits \subseteq commits' /\ (i \in commits' => i \in commits \/ (pc = "decide" /\ Commit /\ agent.item = i))
  BY CommitsStep
<1>6. ASSUME journal'[i].state = "COMMITTED" PROVE i \in commits'
  BY <1>3, <1>4, <1>5, <1>6 DEF Changed
<1>7. ASSUME journal'[i].state = "RESTORED" PROVE ~Left(i)'
  <2>1. SUFFICES ASSUME Left(i)' PROVE FALSE
    OBVIOUS
  <2>2. CASE journal[i].state = "RESTORED"
    <3>1. pc = "stage" /\ agent.item = i
      BY <1>4, <2>1, <2>2, LeftStep
    <3>2. pc \in Applying \ {"mkdir", "journal"}
      BY <3>1 DEF Applying, Mutating
    <3>3. journal[i].state \in InFlight
      BY <1>1, <3>1, <3>2 DEF ControlInv, AtWork
    <3>4. QED
      BY <2>2, <3>3 DEF InFlight
  <2>3. CASE pc = "restore" /\ agent.rec = i /\ agent.left = {} /\ journal[i].state # "RESTORED"
    <3>1. journal[i].state \in InFlight
      BY <1>1, <2>3 DEF ControlInv, AtWork
    <3>2. i \notin commits
      BY <1>4, <3>1
    <3>3. PICK n \in Namespaces : config[n] = i \/ staged[n] = i
      <4>1. Left(i)
        BY <2>1, <2>3, LeftStep
      <4>2. QED
        BY <3>2, <4>1 DEF Left
    <3>4. n \in Touches[i] /\ i # 0
      BY <1>1, <3>3, Constants DEF Placed
    <3>5. Intact(n)
      BY <1>1, <2>3, <3>4 DEF LogInv, Files
    <3>6. Intended(n) = i
      BY <3>3, <3>4, <3>5 DEF Intact
    <3>7. QED
      BY <1>1, <3>2, <3>4, <3>6, IntendedIn
  <2>4. QED
    BY <1>3, <1>7, <2>2, <2>3 DEF Changed
<1>8. ASSUME journal'[i].state \in InFlight PROVE i \notin commits'
  <2>1. i \notin commits
    <3>1. CASE journal[i].state \in InFlight
      BY <1>4, <3>1
    <3>2. CASE pc = "journal" /\ agent.item = i
      BY <1>1, <1>2, <3>2 DEF BegunOpen, Begun, Applying, Beginning
    <3>3. QED
      BY <1>3, <1>8, <3>1, <3>2 DEF Changed
  <2>2. ~(pc = "decide" /\ Commit /\ agent.item = i)
    <3>1. SUFFICES ASSUME Commit, agent.item = i PROVE FALSE
      OBVIOUS
    <3>2. OnlyState(i, "COMMITTED")
      BY <1>1, <3>1, StateFact DEF Commit, JournalStates, Done
    <3>3. QED
      BY <1>8, <3>2 DEF OnlyState, InFlight
  <2>3. QED
    BY <1>5, <2>1, <2>2
<1>9. QED
  BY <1>6, <1>7, <1>8

\* And so does the status file.
LEMMA StatusTrueStep ==
    ASSUME Before, [Next]_vars
    PROVE  StatusTrue'
<1>1. /\ TypeOK /\ ControlInv /\ StatusTrue /\ AtStatus /\ ApplyingIsOpen
  BY DEF Before, OutcomeInv, ControlInv
<1>2. commits \subseteq commits'
  BY CommitsStep
<1>3. CASE status' = status
  <2>1. ASSUME NEW i \in Items, Single(i), Left(i)'
        PROVE  \/ status.id > i
               \/ status.id = i /\ status.state \in InFlight \cup {"RECOVERY_REQUIRED", "COMMITTED"}
    <3>1. CASE Left(i)
      BY <1>1, <2>1, <3>1 DEF StatusTrue
    <3>2. CASE pc = "stage" /\ agent.item = i
      <4>1. status = [id |-> i, state |-> "APPLYING"]
        BY <1>1, <2>1, <3>2, Constants DEF AtStatus, Mutating
      <4>2. QED
        BY <4>1 DEF InFlight
    <3>3. QED
      BY <2>1, <3>1, <3>2, LeftStep
  <2>2. QED
    BY <1>1, <1>2, <1>3, <2>1 DEF StatusTrue, Single
<1>4. CASE status' # status
  <2>1. PICK j \in Items, state \in StatusStates \ {"NONE"} :
              /\ Justified(j, state) /\ status'.id = j /\ status'.state = state
    BY <1>4, StatusChange
  <2>2. Single(j) /\ (state = "COMMITTED" => j \in commits')
    BY <1>2, <2>1 DEF Justified
  <2>3. ASSUME NEW i \in Items, Single(i), Left(i)'
        PROVE  \/ j > i
               \/ j = i /\ state \in InFlight \cup {"RECOVERY_REQUIRED", "COMMITTED"}
    <3>1. Left(i)
      BY <1>4, <2>3, LeftStep
    <3>2. \/ status.id > i
          \/ status.id = i /\ status.state \in InFlight \cup {"RECOVERY_REQUIRED", "COMMITTED"}
      BY <1>1, <2>3, <3>1 DEF StatusTrue
    <3>3. /\ status.id \in Nat /\ i \in Nat /\ j \in Nat /\ i # 0 /\ i > 0
          /\ \/ status.id = 0 /\ status.state = "NONE"
             \/ j = status.id /\ state \in NextStates[status.state]
             \/ j > status.id /\ status.state \in Done \cup {"REJECTED"}
      <4>1. status.id \in Nat /\ i \in Nat /\ j \in Nat /\ i # 0
        BY <1>4, <2>1, StatusOrder, Constants
      <4>2. QED
        BY <1>4, <2>1, <4>1, StatusOrder
    <3>4. CASE status.id > i
      BY <3>3, <3>4
    <3>5. CASE status.id = i /\ status.state \in InFlight \cup {"RECOVERY_REQUIRED", "COMMITTED"}
      <4>1. CASE j = i
        <5>1. state \in NextStates[status.state]
          BY <3>3, <3>5, <4>1
        <5>2. state # "RESTORED"
          BY <2>1, <3>1, <4>1 DEF Justified
        <5>3. status.state = "APPLYING" => state # "REJECTED"
          <6>1. status.state = "APPLYING" => pc \notin {"pull", "publish"}
            BY <1>1 DEF ApplyingIsOpen, Mutating
          <6>2. QED
            BY <2>1, <6>1 DEF Justified
        <5>4. QED
          BY <3>5, <4>1, <5>1, <5>2, <5>3, Transitions DEF InFlight
      <4>2. CASE j # i
        BY <3>3, <3>5, <4>2
      <4>3. QED
        BY <4>1, <4>2
    <3>6. QED
      BY <3>2, <3>4, <3>5
  <2>4. QED
    BY <2>1, <2>2, <2>3 DEF StatusTrue, Single
<1>5. QED
  BY <1>3, <1>4

\* The recovery goes on with what it was called for.
LEMMA RecoveryAgent ==
    ASSUME ControlInv, Recovery
    PROVE  /\ agent'.item = agent.item /\ agent'.from = agent.from
           /\ pc \in {"recover"} \cup RecoveringOne
           /\ agent'.pc = "begin" => agent.from = "begin"
           /\ agent'.pc \notin Applying
<1>1. TypeOK /\ agent \in Agent
  BY DEF ControlInv, TypeOK
<1>2. pc \in {"recover"} \cup RecoveringOne
  BY DEF Recovery, RecoverPending, RecoverOne, RollingBack, Restore, Restored, Forget, RecordLast,
     Announce, MarkStatus, MarkState, At, pc, RecoveringOne
<1>3. \/ agent' \in {OneReturned(TRUE), OneReturned(FALSE), Returned(TRUE), Returned(FALSE)}
      \/ agent'.pc \in RecoveringOne /\ agent'.item = agent.item /\ agent'.from = agent.from
  <2>1. ASSUME NEW p \in RecoveringOne, Goto(p)
        PROVE  agent'.pc \in RecoveringOne /\ agent'.item = agent.item /\ agent'.from = agent.from
    BY <1>1, <2>1 DEF Goto, Agent
  <2>2. CASE RecoverPending
    BY <1>1, <2>2 DEF RecoverPending, Recovering, RecoveringOne, Agent
  <2>3. CASE RecoverOne
    <3>1. CASE Unrecoverable(agent.rec)
      BY <2>1, <2>3, <3>1 DEF RecoverOne, RecoveringOne
    <3>2. CASE RecoverDone(agent.rec)
      BY <3>2 DEF RecoverDone
    <3>3. CASE RecoverRefused(agent.rec)
      BY <3>3 DEF RecoverRefused
    <3>4. CASE RecoverInFlight(agent.rec)
      BY <1>1, <2>1, <3>4 DEF RecoverInFlight, RecoveringOne, Agent
    <3>5. QED
      BY <2>3, <3>1, <3>2, <3>3, <3>4 DEF RecoverOne
  <2>4. CASE RollingBack
    BY <1>1, <2>4 DEF RollingBack, RecoveringOne, Agent
  <2>5. CASE Restore
    BY <1>1, <2>1, <2>5 DEF Restore, At, RecoveringOne, Agent
  <2>6. CASE Restored \/ Forget \/ MarkStatus
    BY <2>1, <2>6 DEF Restored, Forget, MarkStatus, RecoveringOne
  <2>7. CASE RecordLast
    BY <2>1, <2>7 DEF RecordLast, RecoveringOne
  <2>8. CASE Announce
    <3>1. \/ agent' = OneReturned(TRUE)
          \/ agent' = OneReturned(StatusAllowed(agent.rec, "RESTORED"))
      BY <2>8 DEF Announce
    <3>2. StatusAllowed(agent.rec, "RESTORED") \in {TRUE, FALSE}
      BY Zenon DEF StatusAllowed
    <3>3. QED
      BY <3>1, <3>2
  <2>9. CASE MarkState
    BY <2>9 DEF MarkState
  <2>10. QED
    BY <2>2, <2>3, <2>4, <2>5, <2>6, <2>7, <2>8, <2>9 DEF Recovery
<1>4. CASE agent' \in {Returned(TRUE), Returned(FALSE)}
  BY <1>1, <1>2, <1>4, ReturnedYes, ReturnedNo DEF SameWork, Applying, Beginning, Mutating, Verifying
<1>5. CASE agent' = [agent EXCEPT !.pc = "recover", !.phase = "scan"]
  BY <1>1, <1>2, <1>5 DEF Agent, Applying, Beginning, Mutating, Verifying
<1>6. CASE agent'.pc \in RecoveringOne /\ agent'.item = agent.item /\ agent'.from = agent.from
  BY <1>2, <1>6 DEF RecoveringOne, Applying, Beginning, Mutating, Verifying
<1>7. QED
  BY <1>3, <1>4, <1>5, <1>6 DEF OneReturned

\* The item at hand stays, and only a command that failed calls the recovery.
Stays ==
    /\ agent'.item = agent.item
    /\ agent'.pc \in {"recover"} \cup RecoveringOne => agent'.from \in {"stage", "verify"}

\* Where no entry is recovered.
Aside == {"begin"} \cup Applying \cup Finishing \cup {"prune"}

\* Applying goes on with its item.
LEMMA ApplyStays == ASSUME ControlInv, Apply PROVE Stays
<1>1. TypeOK /\ Known /\ agent \in Agent
  BY DEF ControlInv, TypeOK
<1>3. \A p \in Aside : p \notin {"recover"} \cup RecoveringOne
  BY DEF Aside, Applying, Beginning, Mutating, Verifying, Finishing, RecoveringOne
<1>4. ASSUME NEW p \in Aside, Goto(p) PROVE Stays
  <2>1. agent'.item = agent.item /\ agent'.pc = p
    BY <1>1, <1>4 DEF Goto, Agent
  <2>2. QED
    BY <1>3, <2>1 DEF Stays
<1>5. ASSUME NEW f \in {"stage", "verify"}, agent' = Calling(f) PROVE Stays
  BY <1>1, <1>5 DEF Calling, Agent, Stays
<1>6. agent' = StagingFrom => Stays
  BY <1>1 DEF StagingFrom, Agent, RecoveringOne, Stays
<1>7. GiveUp \in Aside
  BY GiveUpFact DEF Aside, Finishing
<1>8. {"mkdir", "journal", "activate", "manifest", "prepared", "applying", "stage", "commit", "confirm",
       "confirmStatus", "verify", "decide", "deactivate", "last", "operation", "committed", "prune"}
         \subseteq Aside
  BY DEF Aside, Applying, Beginning, Mutating, Verifying, Finishing
<1>9. CASE Begin
  BY <1>4, <1>7, <1>8, <1>9 DEF Begin
<1>10. CASE MakeDirectory \/ WriteApplying \/ MarkPending \/ WriteStatusPending \/ Commit \/ Deactivate
  <2>1. \E p \in {"journal", "activate", "confirmStatus", "verify", "deactivate", "last"} : Goto(p)
    BY <1>10 DEF MakeDirectory, WriteApplying, MarkPending, WriteStatusPending, Commit, Deactivate
  <2>2. QED
    BY <1>4, <1>8, <2>1
<1>11. CASE WriteManifest
  <2>1. agent' = agent /\ agent.pc \in {"journal", "manifest"}
    BY <1>11 DEF WriteManifest, At
  <2>2. QED
    BY <2>1 DEF RecoveringOne, Stays
<1>12. CASE WriteActive
  <2>1. Kind[agent.item] \in {"operation", "single", "multi"}
    <3>1. pc \in Applying
      BY <1>12 DEF WriteActive, At, pc, Applying, Beginning
    <3>2. QED
      BY <1>1, <3>1, Constants DEF Known
  <2>2. agent' = StagingFrom \/ Goto("prepared") \/ Goto("manifest")
    BY <1>12, <2>1 DEF WriteActive, Goto
  <2>3. QED
    BY <1>4, <1>6, <1>8, <2>2
<1>13. CASE WritePrepared
  BY <1>4, <1>7, <1>8, <1>13 DEF WritePrepared
<1>14. CASE WriteStatusApplying
  BY <1>6, <1>14 DEF WriteStatusApplying
<1>15. CASE Stage \/ Verify
  BY <1>4, <1>5, <1>8, <1>15 DEF Stage, Verify
<1>16. CASE UciCommit
  <2>1. CASE agent' = Calling("stage")
    BY <1>5, <2>1
  <2>2. CASE agent' # Calling("stage")
    <3>1. agent'.item = agent.item /\ agent'.pc \in {"stage", "verify", "confirm"}
      BY <1>1, <1>16, <2>2 DEF UciCommit, Agent
    <3>2. QED
      BY <3>1 DEF Stays, RecoveringOne
  <2>3. QED
    BY <2>1, <2>2
<1>17. CASE WriteLast \/ WriteOperationStatus \/ WriteStatusCommitted \/ PublishFailure
  <2>1. \E p \in {"operation", "committed", "prune"} : Goto(p)
    BY <1>17 DEF WriteLast, WriteOperationStatus, WriteStatusCommitted, PublishFailure
  <2>2. QED
    BY <1>4, <1>8, <2>1
<1>18. QED
  BY <1>9, <1>10, <1>11, <1>12, <1>13, <1>14, <1>15, <1>16, <1>17 DEF Apply

\* An item is begun when it is pulled.
LEMMA BegunStep ==
    ASSUME NoMulti, ControlInv, [Next]_vars, Begun'
    PROVE  \/ Begun /\ agent'.item = agent.item
           \/ /\ PullOperation \/ PullSingle
              /\ agent' = [Calling("begin") EXCEPT !.item = server.pending]
              /\ agent'.item = server.pending /\ server.pending \in Items
<1>1. TypeOK /\ agent \in Agent
  BY DEF ControlInv, TypeOK
<1>2. \/ agent'.pc \in {"begin"} \cup Applying
      \/ agent'.pc \in {"recover"} \cup RecoveringOne /\ agent'.from = "begin"
  BY DEF Begun, pc
<1>3. CASE Recovery
  BY <1>2, <1>3, RecoveryAgent DEF Begun, Applying, Beginning, Mutating, Verifying
<1>4. CASE Apply
  <2>1. Stays /\ Continues
    BY <1>4, ApplyStays, ApplyContinues DEF ControlInv
  <2>2. agent'.pc \in {"begin"} \cup Applying
    BY <1>2, <2>1 DEF Stays
  <2>3. QED
    BY <2>1, <2>2 DEF Begun, Stays, Continues
<1>5. CASE Boot \/ Heartbeat \/ PullFails \/ PullNothing \/ Prune \/ RemoveDirectory \/ Crash
  <2>1. \/ agent'.pc \in {"pull", "report", "prune", "rmdir", "boot"}
        \/ agent'.pc = "recover" /\ agent'.from = "boot"
    <3>1. CASE Boot \/ Crash
      <4>1. CASE Boot
        BY <1>1, <4>1 DEF Boot, Calling, Agent
      <4>2. CASE Crash
        BY <4>2 DEF Crash, Started
      <4>3. QED
        BY <3>1, <4>1, <4>2
    <3>2. CASE Heartbeat \/ PullFails \/ PullNothing \/ RemoveDirectory
      BY <1>1, <3>2 DEF Heartbeat, PullFails, PullNothing, RemoveDirectory, Goto, Agent
    <3>3. CASE Prune
      BY <1>1, <3>3 DEF Prune, Goto, Agent
    <3>4. QED
      BY <1>5, <3>1, <3>2, <3>3
  <2>2. QED
    BY <1>2, <2>1 DEF Applying, Beginning, Mutating, Verifying, RecoveringOne
<1>6. CASE PullOperation \/ PullSingle
  <2>1. server.pending \in Items
    BY <1>1, <1>6, PendingItem DEF PullOperation, PullSingle
  <2>2. \/ agent' = [agent EXCEPT !.pc = "prune", !.item = server.pending]
        \/ agent' = [Calling("begin") EXCEPT !.item = server.pending]
    BY <1>6, Zenon DEF PullOperation, PullSingle
  <2>3. CASE agent' = [agent EXCEPT !.pc = "prune", !.item = server.pending]
    <3>1. agent'.pc = "prune"
      BY <1>1, <2>3 DEF Agent
    <3>2. QED
      BY <1>2, <3>1 DEF Applying, Beginning, Mutating, Verifying, RecoveringOne
  <2>4. CASE agent' = [Calling("begin") EXCEPT !.item = server.pending]
    BY <1>1, <1>6, <2>1, <2>4 DEF Calling, Agent
  <2>5. QED
    BY <2>2, <2>3, <2>4
<1>7. CASE Plan \/ Record \/ UNCHANGED vars
  <2>1. agent' = agent
    BY <1>7 DEF Plan, Record, vars
  <2>2. QED
    BY <1>2, <2>1 DEF Begun, pc
<1>8. ~PullMulti
  BY <1>1, PendingItem DEF PullMulti, NoMulti
<1>9. QED
  BY <1>3, <1>4, <1>5, <1>6, <1>7, <1>8 DEF Next, AgentStep, Pull

\* A generation that is allowed is not older than the status.
LEMMA AllowedIsNew ==
    ASSUME TypeOK, NEW i \in Items, GenerationAllowed(i)
    PROVE  status.id <= i /\ status.state # "RECOVERY_REQUIRED"
<1> DEFINE S == {0, status.id} \cup {j \in Items : HasGeneration(j)}
<1>1. status.id \in Content
  <2>1. CASE status.id # 0
    BY <2>1, StatusType, Constants
  <2>2. QED
    BY <2>1, Constants
<1>2. S \subseteq Content /\ S # {} /\ status.id \in S
  BY <1>1, Constants
<1>3. (i > Max(S) \/ i = Max(S)) /\ status.state # "RECOVERY_REQUIRED"
  BY DEF GenerationAllowed, NoRecoveryRequired
<1>4. status.id <= Max(S) /\ Max(S) \in Content
  <2> HIDE DEF S
  <2>1. QED
    BY <1>2, MaxBounds
<1>5. status.id \in Nat /\ Max(S) \in Nat /\ i \in Nat
  BY <1>1, <1>4, Constants
<1> HIDE DEF S
<1>6. QED
  BY <1>3, <1>4, <1>5

\* Reports leave the device with the heartbeat.
LEMMA SentStep ==
    ASSUME [Next]_vars
    PROVE  \/ sent' = sent
           \/ /\ Heartbeat /\ pc = "report"
              /\ UNCHANGED <<journal, marks, status, config, staged, server, commits, crashes>>
              /\ sent' = sent \cup StatusReports \cup OperationReports
<1>1. CASE Recovery
  BY <1>1 DEF Recovery, RecoverPending, RecoverOne, RollingBack, Restore, Restored, Forget,
     RecordLast, Announce, MarkStatus, MarkState
<1>2. CASE Apply
  BY <1>2 DEF Apply, Begin, MakeDirectory, WriteManifest, WriteApplying, WriteActive, WritePrepared,
     WriteStatusApplying, Stage, UciCommit, MarkPending, WriteStatusPending, Verify, Commit,
     Deactivate, WriteLast, WriteOperationStatus, WriteStatusCommitted, PublishFailure
<1>3. CASE Boot \/ PullFails \/ Pull \/ Prune \/ RemoveDirectory
  BY <1>3 DEF Boot, PullFails, Pull, PullNothing, PullOperation, PullSingle, PullMulti, Prune,
     RemoveDirectory
<1>4. CASE Heartbeat
  BY <1>4 DEF Heartbeat, At, pc
<1>5. CASE Crash \/ Plan \/ Record \/ UNCHANGED vars
  BY <1>5 DEF Crash, Plan, Record, vars
<1>6. QED
  BY <1>1, <1>2, <1>3, <1>4, <1>5 DEF Next, AgentStep

\* A change set is begun only when no end of it is known.
LEMMA BegunOpenStep ==
    ASSUME Before, [Next]_vars
    PROVE  BegunOpen'
<1>1. /\ TypeOK /\ ControlInv /\ NoMulti /\ BegunOpen /\ CommitsKnown /\ SentTrue
      /\ agent \in Agent
  BY DEF Before, OutcomeInv, ControlInv, TypeOK
<1>2. SUFFICES ASSUME Begun', Single(agent'.item)
               PROVE  /\ server'.pending = agent'.item /\ agent'.item \notin commits'
                      /\ \A r \in sent' : r.id = agent'.item => r.state \notin Final
  BY DEF BegunOpen, Single
<1> DEFINE i == agent'.item
<1>3. CASE Begun /\ i = agent.item
  <2>1. /\ server.pending = i /\ i \notin commits
        /\ \A r \in sent : r.id = i => r.state \notin Final
    BY <1>1, <1>2, <1>3 DEF BegunOpen
  <2>2. i \in Items /\ i # 0
    BY <1>1, <1>3, Constants DEF ControlInv, Known, Begun
  <2>3. FinalStates(i) = Final
    BY <1>2 DEF FinalStates, Final, Single
  <2>4. server'.pending = i
    BY <1>1, <2>1, <2>2, <2>3, ServerStep
  <2>5. ~Commit
    <3>1. ASSUME Commit PROVE agent'.pc = "deactivate"
      BY <1>1, <3>1 DEF Commit, Goto, Agent
    <3>2. QED
      BY <1>2, <3>1 DEF Begun, pc, Applying, Beginning, Mutating, Verifying, RecoveringOne
  <2>6. commits' = commits
    BY <2>5, CommitsStep
  <2>7. pc # "report"
    BY <1>3 DEF Begun, Applying, Beginning, Mutating, Verifying, RecoveringOne
  <2>8. sent' = sent
    BY <2>7, SentStep
  <2>9. QED
    BY <2>1, <2>4, <2>6, <2>8
<1>4. CASE /\ PullOperation \/ PullSingle
           /\ agent' = [Calling("begin") EXCEPT !.item = server.pending]
           /\ i = server.pending /\ server.pending \in Items
  <2>1. UNCHANGED <<sent, server, commits>>
    BY <1>4 DEF PullOperation, PullSingle
  <2>2. PullSingle
    BY <1>2, <1>4 DEF PullOperation, Single
  <2>3. ~EndKnown(i) /\ GenerationAllowed(i)
    <3>1. agent'.pc = "recover"
      BY <1>1, <1>4 DEF Calling, Agent
    <3>2. [agent EXCEPT !.pc = "prune", !.item = server.pending].pc = "prune"
      BY <1>1 DEF Agent
    <3>3. agent' # [agent EXCEPT !.pc = "prune", !.item = server.pending]
      BY <3>1, <3>2
    <3>4. ~EndKnown(server.pending) /\ GenerationAllowed(server.pending)
      BY <2>2, <3>3, Zenon DEF PullSingle
    <3>5. QED
      BY <1>4, <3>4
  <2>4. status.id <= i /\ status.state # "RECOVERY_REQUIRED"
    BY <1>1, <1>4, <2>3, AllowedIsNew
  <2>5. i \in Items /\ i \in Nat /\ status.id \in Nat
    <3>1. status.id # 0 => status.id \in Items
      BY <1>1, StatusType
    <3>2. QED
      BY <1>4, <3>1, Constants
  <2>6. ~(status.id > i)
    BY <2>4, <2>5
  <2>7. /\ ~(status.id = i /\ status.state \in Done \cup {"REJECTED"})
        /\ journal[i].state \notin Done
    BY <2>3 DEF EndKnown
  <2>8. i \notin commits
    <3>1. status # [id |-> i, state |-> "COMMITTED"]
      BY <2>7 DEF Done
    <3>2. ~Untold(i)
      BY <2>7 DEF Untold, Done
    <3>3. QED
      BY <1>1, <1>2, <2>4, <2>6, <3>1, <3>2 DEF CommitsKnown
  <2>9. ASSUME NEW r \in sent, r.id = i, r.state \in Final PROVE FALSE
    <3>1. /\ r.state = "COMMITTED" => i \in commits
          /\ r.state \in {"RESTORED", "REJECTED"} =>
               \/ status.id = i /\ status.state \in {"RESTORED", "REJECTED"}
               \/ status.id > i
          /\ r.state = "RECOVERY_REQUIRED" => status = r
      BY <1>1, <1>2, <2>9 DEF SentTrue
    <3>2. QED
      BY <2>4, <2>6, <2>7, <2>8, <2>9, <3>1 DEF Final, Done
  <2>10. QED
    BY <1>4, <2>1, <2>8, <2>9
<1>5. QED
  BY <1>1, <1>2, <1>3, <1>4, BegunStep

\* The place where an item is applied is one where it is begun.
LEMMA BegunAt ==
    ASSUME Before, pc \in {"prepared", "stage"}, Single(agent.item)
    PROVE  \A r \in sent : r.id = agent.item => r.state \notin Final
<1>1. Begun
  BY DEF Begun, Applying, Beginning, Mutating
<1>2. QED
  BY <1>1 DEF Before, OutcomeInv, BegunOpen

\* What was reported stays true.
LEMMA SentTrueStep ==
    ASSUME Before, [Next]_vars
    PROVE  SentTrue'
<1>1. /\ TypeOK /\ ControlInv /\ StatusTrue /\ SentTrue
      /\ sent \subseteq [id : Items, state : StatusStates]
  BY DEF Before, OutcomeInv, ControlInv, TypeOK
<1>2. commits \subseteq commits'
  BY CommitsStep
<1>3. ASSUME NEW r \in sent, Single(r.id)
      PROVE  /\ r.state = "COMMITTED" => r.id \in commits' /\ (status' = r \/ status'.id > r.id)
             /\ r.state \in {"RESTORED", "REJECTED"} =>
                  /\ ~Left(r.id)'
                  /\ \/ status'.id = r.id /\ status'.state \in {"RESTORED", "REJECTED"}
                     \/ status'.id > r.id
             /\ r.state = "RECOVERY_REQUIRED" => status' = r
  <2> DEFINE i == r.id
  <2>1. i \in Items /\ i \in Nat /\ i # 0 /\ r = [id |-> i, state |-> r.state]
    BY <1>1, Constants
  <2>2. /\ r.state = "COMMITTED" => i \in commits /\ (status = r \/ status.id > i)
        /\ r.state \in {"RESTORED", "REJECTED"} =>
             /\ ~Left(i)
             /\ \/ status.id = i /\ status.state \in {"RESTORED", "REJECTED"}
                \/ status.id > i
        /\ r.state = "RECOVERY_REQUIRED" => status = r
    BY <1>1, <1>3 DEF SentTrue
  <2>3. ASSUME r.state \in {"RESTORED", "REJECTED"} PROVE ~Left(i)'
    <3>1. r.state \in Final
      BY <2>3 DEF Final, Done
    <3>2. ~(pc = "stage" /\ agent.item = i)
      BY <1>3, <3>1, BegunAt
    <3>3. QED
      BY <2>1, <2>2, <2>3, <3>2, LeftStep
  <2>4. CASE status' = status
    BY <1>2, <2>2, <2>3, <2>4
  <2>5. CASE status' # status
    <3>1. PICK j \in Items, state \in StatusStates \ {"NONE"} :
              /\ Justified(j, state) /\ status' = [id |-> j, state |-> state]
              /\ status'.id = j /\ status'.state = state
      BY <2>5, StatusChange
    <3>2. /\ status.id \in Nat /\ j \in Nat
          /\ \/ status.id = 0 /\ status.state = "NONE"
             \/ j = status.id /\ state \in NextStates[status.state]
             \/ j > status.id /\ status.state \in Done \cup {"REJECTED"}
      BY <2>5, <3>1, StatusOrder, Constants
    <3>3. status.id > i => j > i
      BY <2>1, <3>2
    <3>4. ASSUME r.state = "COMMITTED", status = r PROVE status' = r \/ j > i
      <4>1. status.id = i /\ status.state = "COMMITTED"
        BY <3>4
      <4>2. (j = i /\ state = "COMMITTED") \/ j > i
        BY <2>1, <3>2, <4>1, Transitions
      <4>3. QED
        BY <2>1, <3>1, <3>4, <4>2
    <3>5. ASSUME r.state \in {"RESTORED", "REJECTED"},
                 status.id = i, status.state \in {"RESTORED", "REJECTED"}
          PROVE  (j = i /\ state \in {"RESTORED", "REJECTED"}) \/ j > i
      <4>1. (j = i /\ state \in {"RESTORED", "PREPARED", "REJECTED"}) \/ j > i
        BY <2>1, <3>2, <3>5, Transitions
      <4>2. r.state \in Final
        BY <3>5 DEF Final, Done
      <4>3. j = i => state # "PREPARED"
        BY <1>3, <3>1, <4>2, BegunAt DEF Justified
      <4>4. QED
        BY <4>1, <4>3
    <3>6. r.state # "RECOVERY_REQUIRED"
      <4>1. SUFFICES ASSUME r.state = "RECOVERY_REQUIRED" PROVE FALSE
        OBVIOUS
      <4>2. status = r /\ status.id = i /\ status.state = "RECOVERY_REQUIRED"
        BY <2>2, <4>1
      <4>3. j = i /\ state = "RECOVERY_REQUIRED"
        BY <2>1, <3>2, <4>2, Transitions DEF Done
      <4>4. QED
        BY <2>1, <2>5, <3>1, <4>2, <4>3
    <3>7. QED
      BY <1>2, <2>2, <2>3, <3>1, <3>3, <3>4, <3>5, <3>6
  <2>6. QED
    BY <2>4, <2>5
<1>4. CASE sent' = sent
  BY <1>3, <1>4 DEF SentTrue, Single
<1>5. CASE /\ Heartbeat /\ pc = "report"
           /\ UNCHANGED <<journal, marks, status, config, staged, server, commits, crashes>>
           /\ sent' = sent \cup StatusReports \cup OperationReports
  <2>1. ASSUME NEW r \in OperationReports, Single(r.id) PROVE FALSE
    <3>1. PICK j \in {ReportedOperation} \ {0} : /\ Kind[j] = "operation"
                                                 /\ r = [id |-> j, state |-> journal[j].state]
      BY DEF OperationReports
    <3>2. QED
      BY <2>1, <3>1 DEF Single
  <2>2. ASSUME NEW r \in StatusReports
        PROVE  /\ status = r /\ status.id \in Items
               /\ r.state = "COMMITTED" => r.id \in commits
               /\ r.state \in {"RESTORED", "REJECTED"} => ~Left(r.id)
    <3>1. status = r /\ status.id # 0
      BY <2>2 DEF StatusReports
    <3>2. status.id \in Items
      BY <1>1, <3>1, StatusType
    <3>3. Single(status.id) /\ ~(status.id > status.id)
      <4>1. status.id \in Nat
        BY <3>2, Constants
      <4>2. QED
        BY <1>1, <3>1, <4>1 DEF StatusTrue
    <3>4. ASSUME status.state \in {"RESTORED", "REJECTED"} PROVE ~Left(status.id)
      BY <1>1, <3>2, <3>3, <3>4 DEF StatusTrue, InFlight
    <3>5. QED
      BY <1>1, <3>1, <3>2, <3>4 DEF StatusTrue
  <2>3. \A i : Left(i)' <=> Left(i)
    BY <1>5 DEF Left
  <2>4. ASSUME NEW r \in StatusReports
        PROVE  /\ r.state = "COMMITTED" => r.id \in commits' /\ status' = r
               /\ r.state \in {"RESTORED", "REJECTED"} =>
                    /\ ~Left(r.id)'
                    /\ status'.id = r.id /\ status'.state \in {"RESTORED", "REJECTED"}
               /\ r.state = "RECOVERY_REQUIRED" => status' = r
    BY <1>5, <2>2, <2>3
  <2>5. QED
    BY <1>3, <1>5, <2>1, <2>4 DEF SentTrue, Single
<1>6. QED
  BY <1>4, <1>5, SentStep

\* What the controller has recorded has been reported.
LEMMA RecordedStep ==
    ASSUME Before, [Next]_vars
    PROVE  Recorded'
<1>1. TypeOK /\ Recorded /\ sent \subseteq [id : Items, state : StatusStates]
  BY DEF Before, OutcomeInv, ControlInv, TypeOK
<1>2. sent \subseteq sent'
  BY SentStep
<1>3. CASE server'.outcome = server.outcome
  BY <1>1, <1>2, <1>3 DEF Recorded
<1>4. ASSUME NEW r \in sent, server'.outcome = [server.outcome EXCEPT ![r.id] = r.state]
      PROVE  Recorded'
  <2>1. r = [id |-> r.id, state |-> r.state] /\ r \in sent'
    BY <1>1, <1>2
  <2>2. server.outcome \in [Items -> StatusStates]
    BY <1>1 DEF TypeOK
  <2>3. ASSUME NEW i \in Items, server'.outcome[i] # "NONE"
        PROVE  [id |-> i, state |-> server'.outcome[i]] \in sent'
    <3>1. CASE i = r.id
      BY <1>4, <2>1, <2>2, <3>1
    <3>2. CASE i # r.id
      <4>1. server'.outcome[i] = server.outcome[i]
        BY <1>4, <2>2, <3>2
      <4>2. QED
        BY <1>1, <1>2, <2>3, <4>1 DEF Recorded
    <3>3. QED
      BY <3>1, <3>2
  <2>4. QED
    BY <2>3 DEF Recorded
<1>5. QED
  BY <1>1, <1>3, <1>4, ServerStep

\* The places of which Paths or AtStatus says something.
Said == {"manifest", "prepared", "applying", "confirmStatus", "committed", "publish", "rollback",
         "recordLast", "announce", "deactivate", "last"} \cup Mutating \cup Verifying

\* A step to another place.
LEMMA SaidNothing == ASSUME agent'.pc \notin Said PROVE Paths' /\ AtStatus'
BY DEF Said, Paths, AtStatus, pc, Mutating, Verifying

\* A step that leaves the process where it is, and what is said there.
LEMMA SaidSame ==
    ASSUME Before, agent' = agent, UNCHANGED <<status, marks, commits>>,
           pc \in {"recordLast", "announce"} => journal' = journal
    PROVE  Paths' /\ AtStatus'
BY DEF Before, OutcomeInv, Paths, AtStatus, pc, Single

\* Where an attempt ends that has failed, it is known to be one of a change set.
LEMMA GiveUpSaid ==
    ASSUME agent'.pc = GiveUp, agent'.item = agent.item
    PROVE  Paths' /\ AtStatus'
<1>1. agent'.pc \in {"publish", "prune"} /\ (agent'.pc = "publish" => Single(agent.item))
  BY DEF GiveUp, Single
<1>2. QED
  BY <1>1 DEF Paths, AtStatus, pc, Single, Mutating, Verifying

\* In the recovery.
LEMMA SaidRecovery ==
    ASSUME Before, Recovery
    PROVE  Paths' /\ AtStatus'
<1>1. /\ TypeOK /\ ControlInv /\ NoMulti /\ agent \in Agent
      /\ agent'.item = agent.item /\ pc \in {"recover"} \cup RecoveringOne
  BY RecoveryAgent DEF Before, ControlInv, TypeOK
<1>2. ASSUME agent' = Returned(TRUE) \/ agent' = Returned(FALSE) PROVE Paths' /\ AtStatus'
  <2>1. agent'.pc \in {"report", "begin", "operation"} \/ agent'.pc = GiveUp
    BY <1>1, <1>2 DEF Returned, Agent
  <2>2. CASE agent'.pc \in {"report", "begin", "operation"}
    BY <2>2, SaidNothing DEF Said, Mutating, Verifying
  <2>3. QED
    BY <1>1, <2>1, <2>2, GiveUpSaid
<1>3. ASSUME agent' = OneReturned(TRUE) \/ agent' = OneReturned(FALSE) PROVE Paths' /\ AtStatus'
  <2>1. CASE agent' = [agent EXCEPT !.pc = "recover", !.phase = "scan"]
    <3>1. agent'.pc = "recover"
      BY <1>1, <2>1 DEF Agent
    <3>2. QED
      BY <3>1, SaidNothing DEF Said, Mutating, Verifying
  <2>2. QED
    BY <1>2, <1>3, <2>1 DEF OneReturned
<1>4. ASSUME agent'.pc \in {"one", "restore", "forget", "markStatus", "markState"}
      PROVE  Paths' /\ AtStatus'
  BY <1>4, SaidNothing DEF Said, Mutating, Verifying
<1>5. ASSUME NEW p, Goto(p) PROVE agent'.pc = p /\ agent'.rec = agent.rec
  BY <1>1, <1>5 DEF Goto, Agent
<1>6. CASE RecoverPending
  <2>1. \/ agent' \in {Returned(TRUE), Returned(FALSE)}
        \/ agent'.pc = "one"
    BY <1>1, <1>6 DEF RecoverPending, Recovering, Agent
  <2>2. QED
    BY <1>2, <1>4, <2>1
<1>7. CASE RecoverOne
  <2>1. CASE Unrecoverable(agent.rec)
    BY <1>4, <1>5, <1>7, <2>1 DEF RecoverOne
  <2>2. CASE RecoverDone(agent.rec)
    BY <1>3, <2>2 DEF RecoverDone
  <2>3. CASE RecoverRefused(agent.rec)
    BY <1>3, <2>3 DEF RecoverRefused
  <2>4. CASE RecoverInFlight(agent.rec)
    <3>1. CASE Kind[agent.rec] = "single"
      <4>1. Goto("rollback") \/ Goto("markState")
        BY <2>4, <3>1 DEF RecoverInFlight
      <4>2. CASE Goto("rollback")
        <5>1. agent'.pc = "rollback" /\ agent'.rec = agent.rec
          BY <1>5, <4>2
        <5>2. QED
          BY <3>1, <5>1 DEF Paths, AtStatus, pc, Single, Mutating, Verifying
      <4>3. CASE Goto("markState")
        BY <1>4, <1>5, <4>3
      <4>4. QED
        BY <4>1, <4>2, <4>3
    <3>2. CASE Kind[agent.rec] # "single"
      <4>1. agent'.pc = "restore"
        BY <1>1, <2>4, <3>2 DEF RecoverInFlight, Agent
      <4>2. QED
        BY <1>4, <4>1
    <3>3. QED
      BY <3>1, <3>2
  <2>5. QED
    BY <1>7, <2>1, <2>2, <2>3, <2>4 DEF RecoverOne
<1>8. CASE RollingBack
  <2>1. agent'.pc = "restore"
    BY <1>1, <1>8 DEF RollingBack, Agent
  <2>2. QED
    BY <1>4, <2>1
<1>9. CASE Restore
  <2>1. agent'.pc \in {"restore", "markStatus", "markState"}
    <3>1. CASE agent' = [agent EXCEPT !.left = @ \ {Min(agent.left)}]
      BY <1>1, <1>9, <3>1 DEF Restore, At, Agent
    <3>2. CASE Goto("markStatus") \/ Goto("markState")
      BY <1>5, <3>2
    <3>3. QED
      BY <1>9, <3>1, <3>2 DEF Restore
  <2>2. QED
    BY <1>4, <2>1
<1>10. CASE Restored \/ MarkStatus
  BY <1>4, <1>5, <1>10 DEF Restored, MarkStatus
<1>11. CASE Forget
  <2>1. agent.rec \in Items /\ pc = "forget"
    BY <1>1, <1>11, AtRecovery DEF Forget, At, pc, RecoveringOne
  <2>2. journal[agent.rec].state = "RESTORED"
    BY <1>1, <2>1 DEF ControlInv, AtWork
  <2>3. OnlyBackup(agent.rec)
    BY <1>1, <1>11, <2>1, BackupFact DEF Forget
  <2>4. journal'[agent.rec].state = "RESTORED"
    BY <2>1, <2>2, <2>3 DEF OnlyBackup
  <2>5. agent'.pc = "recordLast" /\ agent'.rec = agent.rec
    BY <1>5, <1>11 DEF Forget
  <2>6. QED
    BY <2>4, <2>5 DEF Paths, AtStatus, pc, Mutating, Verifying
<1>12. CASE RecordLast
  <2>1. agent'.pc = "announce" /\ agent'.rec = agent.rec /\ journal' = journal
    BY <1>5, <1>12 DEF RecordLast
  <2>2. journal[agent.rec].state = "RESTORED"
    BY <1>12 DEF RecordLast, At, pc, Before, OutcomeInv, Paths
  <2>3. QED
    BY <2>1, <2>2 DEF Paths, AtStatus, pc, Mutating, Verifying
<1>13. CASE Announce
  <2>1. \/ agent' = OneReturned(TRUE)
        \/ agent' = OneReturned(StatusAllowed(agent.rec, "RESTORED"))
    BY <1>13 DEF Announce
  <2>2. StatusAllowed(agent.rec, "RESTORED") \in {TRUE, FALSE}
    BY Zenon DEF StatusAllowed
  <2>3. QED
    BY <1>3, <2>1, <2>2
<1>14. CASE MarkState
  BY <1>3, <1>14 DEF MarkState
<1>15. QED
  BY <1>6, <1>7, <1>8, <1>9, <1>10, <1>11, <1>12, <1>13, <1>14 DEF Recovery

\* A status that may follow is written.
LEMMA WrittenFact ==
    ASSUME NEW i, NEW state, status' = StatusWritten(i, state), StatusAllowed(i, state)
    PROVE  status' = [id |-> i, state |-> state]
BY DEF StatusWritten

\* The status of an attempt goes from PREPARED to APPLYING and PENDING_CONFIRM.
LEMMA AttemptAllowed ==
    ASSUME NEW i,
           NEW s, NEW t, <<s, t>> \in {<<"PREPARED", "APPLYING">>, <<"APPLYING", "PENDING_CONFIRM">>},
           status = [id |-> i, state |-> s]
    PROVE  StatusAllowed(i, t)
<1>1. status.id = i /\ status.state = s
  OBVIOUS
<1>2. t \in NextStates[s]
  BY Transitions
<1>3. QED
  BY <1>1, <1>2 DEF StatusAllowed

\* While an item is applied, up to its commands.
LEMMA SaidBegin ==
    ASSUME Before,
           \/ Begin \/ MakeDirectory \/ WriteManifest \/ WriteApplying \/ WriteActive \/ WritePrepared
           \/ WriteStatusApplying
    PROVE  Paths' /\ AtStatus'
<1> DEFINE i == agent.item
<1>1. TypeOK /\ ControlInv /\ NoMulti /\ agent \in Agent /\ Paths /\ AtStatus
  BY DEF Before, ControlInv, OutcomeInv, TypeOK
<1>2. pc \in {"begin"} \cup Applying
  BY DEF Begin, MakeDirectory, WriteManifest, WriteApplying, WriteActive, WritePrepared,
     WriteStatusApplying, At, pc, Applying, Beginning
<1>3. i \in Items /\ i # 0
  BY <1>1, <1>2, AtApply, Constants
<1>4. ASSUME NEW p, Goto(p) PROVE agent'.pc = p /\ agent'.item = i
  BY <1>1, <1>4 DEF Goto, Agent
<1>5. ASSUME Goto(GiveUp) PROVE Paths' /\ AtStatus'
  BY <1>4, <1>5, GiveUpSaid
<1>6. ASSUME NEW p \in {"mkdir", "journal", "activate", "prune"}, Goto(p) PROVE Paths' /\ AtStatus'
  BY <1>4, <1>6, SaidNothing DEF Said, Mutating, Verifying
<1>7. CASE Begin
  <2>1. CASE Goto("committed") /\ Kind[i] # "operation" /\ journal[i].state = "COMMITTED"
             /\ commits' = commits
    <3>1. Single(i)
      BY <1>1, <1>3, <2>1, Kinds
    <3>2. i \in commits
      BY <1>3, <2>1, <3>1 DEF Before, OutcomeInv, JournalTrue
    <3>3. agent'.pc = "committed" /\ agent'.item = i
      BY <1>4, <2>1
    <3>4. QED
      BY <2>1, <3>1, <3>2, <3>3 DEF Paths, AtStatus, pc, Single, Mutating, Verifying
  <2>2. \/ Goto("committed") /\ Kind[i] # "operation" /\ journal[i].state = "COMMITTED"
           /\ commits' = commits
        \/ Goto("prune") \/ Goto(GiveUp) \/ Goto("mkdir")
    BY <1>7, Zenon DEF Begin
  <2>3. QED
    BY <1>5, <1>6, <2>1, <2>2
<1>8. CASE MakeDirectory \/ WriteApplying
  BY <1>6, <1>8 DEF MakeDirectory, WriteApplying
<1>9. CASE WriteManifest
  <2>1. pc \in {"journal", "manifest"} /\ agent' = agent /\ UNCHANGED <<status, marks, commits>>
    BY <1>9 DEF WriteManifest, At, pc
  <2>2. QED
    BY <2>1, SaidSame
<1>10. CASE WriteActive
  <2>1. marks'.active = i
    BY <1>1, <1>3, <1>10, Constants DEF WriteActive, TypeOK
  <2>2. CASE Kind[i] = "operation"
    <3>1. agent' = StagingFrom
      BY <1>10, <2>2 DEF WriteActive
    <3>2. agent'.pc = "stage" /\ agent'.item = i
      BY <1>1, <1>3, <3>1, StagingFact
    <3>3. QED
      BY <2>2, <3>2 DEF Paths, AtStatus, pc, Single
  <2>3. CASE Kind[i] = "single"
    <3>1. agent' = [agent EXCEPT !.pc = "prepared"]
      BY <1>10, <2>3 DEF WriteActive
    <3>2. agent'.pc = "prepared" /\ agent'.item = i
      BY <1>1, <3>1 DEF Agent
    <3>3. QED
      BY <2>1, <2>3, <3>2 DEF Paths, AtStatus, pc, Single, Mutating
  <2>4. QED
    BY <1>1, <1>3, <2>2, <2>3, Kinds
<1>11. CASE WritePrepared
  <2>1. pc = "prepared" /\ status' = StatusWritten(i, "PREPARED") /\ marks' = marks
    BY <1>1, <1>11 DEF WritePrepared, At, pc, Paths
  <2>2. CASE ~StatusAllowed(i, "PREPARED")
    BY <1>5, <1>11, <2>2 DEF WritePrepared
  <2>3. CASE StatusAllowed(i, "PREPARED")
    <3>1. Goto("applying")
      BY <1>11, <2>3 DEF WritePrepared
    <3>2. agent'.pc = "applying" /\ agent'.item = i
      BY <1>4, <3>1
    <3>3. status' = [id |-> i, state |-> "PREPARED"]
      BY <2>1, <2>3, WrittenFact
    <3>4. Single(i) /\ marks.active = i
      BY <1>1, <1>3, <2>1 DEF Paths, AtStatus
    <3>5. QED
      BY <2>1, <3>2, <3>3, <3>4 DEF Paths, AtStatus, pc, Single, Mutating, Verifying
  <2>4. QED
    BY <2>2, <2>3
<1>12. CASE WriteStatusApplying
  <2>1. pc = "applying" /\ status' = StatusWritten(i, "APPLYING") /\ marks' = marks
        /\ agent' = StagingFrom
    BY <1>12 DEF WriteStatusApplying, At, pc
  <2>2. Single(i) /\ marks.active = i /\ status = [id |-> i, state |-> "PREPARED"]
    BY <1>1, <1>3, <2>1 DEF Paths, AtStatus
  <2>3. status' = [id |-> i, state |-> "APPLYING"]
    BY <2>1, <2>2, AttemptAllowed, WrittenFact
  <2>4. agent'.pc = "stage" /\ agent'.item = i
    BY <1>1, <1>3, <2>1, StagingFact
  <2>5. QED
    BY <2>1, <2>2, <2>3, <2>4 DEF Paths, AtStatus, pc, Single, Mutating, Verifying
<1>13. QED
  BY <1>7, <1>8, <1>9, <1>10, <1>11, <1>12

\* While the commands of an item run, and after them.
LEMMA SaidApply ==
    ASSUME Before,
           \/ Stage \/ UciCommit \/ MarkPending \/ WriteStatusPending \/ Verify \/ Commit
           \/ Deactivate \/ WriteLast \/ WriteOperationStatus \/ WriteStatusCommitted \/ PublishFailure
    PROVE  Paths' /\ AtStatus'
<1> DEFINE i == agent.item
<1>1. TypeOK /\ ControlInv /\ NoMulti /\ agent \in Agent /\ Paths /\ AtStatus
  BY DEF Before, ControlInv, OutcomeInv, TypeOK
<1>2. pc \in Applying \cup Finishing
  BY DEF Stage, UciCommit, MarkPending, WriteStatusPending, Verify, Commit, Deactivate, WriteLast,
     WriteOperationStatus, WriteStatusCommitted, PublishFailure, At, pc, Applying, Mutating,
     Verifying, Finishing
<1>3. i \in Items /\ i # 0
  BY <1>1, <1>2, Constants DEF ControlInv, Known
<1>4. ASSUME NEW p, Goto(p) PROVE agent'.pc = p /\ agent'.item = i
  BY <1>1, <1>4 DEF Goto, Agent
<1>5. ASSUME NEW f, agent' = Calling(f) PROVE Paths' /\ AtStatus'
  <2>1. agent'.pc = "recover"
    BY <1>1, <1>5 DEF Calling, Agent
  <2>2. QED
    BY <2>1, SaidNothing DEF Said, Mutating, Verifying
<1>6. ASSUME NEW p \in {"operation", "prune"}, Goto(p) PROVE Paths' /\ AtStatus'
  BY <1>4, <1>6, SaidNothing DEF Said, Mutating, Verifying
<1>7. ASSUME NEW p \in {"stage", "commit", "verify", "confirm", "decide"},
             agent'.pc = p, agent'.item = i, UNCHANGED <<marks, status>>,
             Single(i) => IF p \in {"verify", "decide"} THEN pc \in {"verify", "decide"}
                          ELSE pc \in Mutating
      PROVE  Paths' /\ AtStatus'
  <2>1. Paths'
    BY <1>7 DEF Paths, pc
  <2>2. Single(i) => /\ marks.active = i
                     /\ pc \in Mutating => status = [id |-> i, state |-> "APPLYING"]
                     /\ pc \in {"verify", "decide"} => status = [id |-> i, state |-> "PENDING_CONFIRM"]
    BY <1>1, <1>3, <1>7 DEF AtStatus, Verifying
  <2>3. QED
    BY <1>7, <2>1, <2>2 DEF AtStatus, pc, Single, Mutating, Verifying
<1>8. CASE Stage
  <2>1. pc \in Mutating /\ UNCHANGED <<marks, status>>
    BY <1>8 DEF Stage, At, pc, Mutating
  <2>2. CASE Goto("commit")
    BY <1>4, <1>7, <2>1, <2>2
  <2>3. QED
    BY <1>5, <1>8, <2>2 DEF Stage
<1>9. CASE UciCommit
  <2>1. pc \in Mutating /\ UNCHANGED <<marks, status>>
    BY <1>9 DEF UciCommit, At, pc, Mutating
  <2>2. CASE agent' # Calling("stage")
    <3>1. Kind[i] # "multi"
      BY <1>1, <1>3 DEF NoMulti
    <3>2. agent'.item = i /\ agent'.pc \in {"stage", "confirm"}
      BY <1>1, <1>9, <2>2, <3>1 DEF UciCommit, Agent
    <3>3. QED
      BY <1>7, <2>1, <3>2
  <2>3. QED
    BY <1>5, <2>2
<1>10. CASE MarkPending
  <2>1. pc = "confirm" /\ UNCHANGED <<marks, status>>
    BY <1>10 DEF MarkPending, At, pc
  <2>2. CASE Kind[i] = "single"
    <3>1. agent'.pc = "confirmStatus" /\ agent'.item = i
      BY <1>4, <1>10, <2>2 DEF MarkPending
    <3>2. marks.active = i /\ status = [id |-> i, state |-> "APPLYING"]
      BY <1>1, <1>3, <2>1, <2>2 DEF AtStatus, Single, Verifying
    <3>3. QED
      BY <2>1, <2>2, <3>1, <3>2 DEF Paths, AtStatus, pc, Single, Mutating, Verifying
  <2>3. CASE Kind[i] # "single"
    <3>1. agent'.pc = "verify" /\ agent'.item = i
      BY <1>4, <1>10, <2>3 DEF MarkPending
    <3>2. QED
      BY <1>7, <2>1, <2>3, <3>1 DEF Single
  <2>4. QED
    BY <2>2, <2>3
<1>11. CASE WriteStatusPending
  <2>1. pc = "confirmStatus" /\ status' = StatusWritten(i, "PENDING_CONFIRM") /\ marks' = marks
        /\ Goto("verify")
    BY <1>11 DEF WriteStatusPending, At, pc
  <2>2. Single(i) /\ marks.active = i /\ status = [id |-> i, state |-> "APPLYING"]
    BY <1>1, <1>3, <2>1 DEF Paths, AtStatus, Verifying
  <2>3. status' = [id |-> i, state |-> "PENDING_CONFIRM"]
    BY <2>1, <2>2, AttemptAllowed, WrittenFact
  <2>4. agent'.pc = "verify" /\ agent'.item = i
    BY <1>4, <2>1
  <2>5. QED
    BY <2>1, <2>2, <2>3, <2>4 DEF Paths, AtStatus, pc, Single, Mutating, Verifying
<1>12. CASE Verify
  <2>1. pc = "verify" /\ UNCHANGED <<marks, status>>
    BY <1>12 DEF Verify, At, pc
  <2>2. CASE Goto("decide")
    BY <1>4, <1>7, <2>1, <2>2
  <2>3. QED
    BY <1>5, <1>12, <2>2 DEF Verify
<1>13. CASE Commit
  <2>1. pc = "decide" /\ UNCHANGED <<marks, status>> /\ i \in commits' /\ Goto("deactivate")
    BY <1>13 DEF Commit, At, pc
  <2>2. Single(i) => marks.active = i /\ status = [id |-> i, state |-> "PENDING_CONFIRM"]
    BY <1>1, <1>3, <2>1 DEF AtStatus, Verifying
  <2>3. agent'.pc = "deactivate" /\ agent'.item = i
    BY <1>4, <2>1
  <2>4. QED
    BY <2>1, <2>2, <2>3 DEF Paths, AtStatus, pc, Single, Mutating, Verifying
<1>14. CASE Deactivate
  <2>1. pc = "deactivate" /\ UNCHANGED <<status, commits>> /\ Goto("last")
    BY <1>14 DEF Deactivate, At, pc
  <2>2. i \in commits /\ (Single(i) => status = [id |-> i, state |-> "PENDING_CONFIRM"])
    BY <1>1, <1>3, <2>1 DEF Paths, AtStatus
  <2>3. agent'.pc = "last" /\ agent'.item = i
    BY <1>4, <2>1
  <2>4. QED
    BY <2>1, <2>2, <2>3 DEF Paths, AtStatus, pc, Single, Mutating, Verifying
<1>15. CASE WriteLast
  <2>1. pc = "last" /\ commits' = commits
    BY <1>15 DEF WriteLast, At, pc
  <2>2. i \in commits
    BY <1>1, <2>1 DEF Paths
  <2>3. CASE Kind[i] = "operation"
    BY <1>6, <1>15, <2>3 DEF WriteLast
  <2>4. CASE Kind[i] # "operation"
    <3>1. Single(i)
      BY <1>1, <1>3, <2>4, Kinds
    <3>2. agent'.pc = "committed" /\ agent'.item = i
      BY <1>4, <1>15, <2>4 DEF WriteLast
    <3>3. QED
      BY <2>1, <2>2, <3>1, <3>2 DEF Paths, AtStatus, pc, Single, Mutating, Verifying
  <2>5. QED
    BY <2>3, <2>4
<1>16. CASE WriteOperationStatus \/ WriteStatusCommitted \/ PublishFailure
  BY <1>6, <1>16 DEF WriteOperationStatus, WriteStatusCommitted, PublishFailure
<1>17. QED
  BY <1>8, <1>9, <1>10, <1>11, <1>12, <1>13, <1>14, <1>15, <1>16

\* In the loop, after a crash, and when the controller acts.
LEMMA SaidLoop ==
    ASSUME Before,
           \/ Boot \/ Heartbeat \/ PullFails \/ Pull \/ Prune \/ RemoveDirectory
           \/ Crash \/ Plan \/ Record \/ UNCHANGED vars
    PROVE  Paths' /\ AtStatus'
<1>1. TypeOK /\ agent \in Agent /\ NoMulti
  BY DEF Before, ControlInv, TypeOK
<1>2. ASSUME agent'.pc \in {"recover", "pull", "report", "prune", "rmdir", "boot"}
      PROVE  Paths' /\ AtStatus'
  BY <1>2, SaidNothing DEF Said, Mutating, Verifying
<1>3. CASE Boot \/ PullOperation \/ PullSingle
  <2>1. \/ agent' = Calling("boot")
        \/ agent' = [Calling("begin") EXCEPT !.item = server.pending]
        \/ agent' = [agent EXCEPT !.pc = "prune", !.item = server.pending]
    BY <1>3, Zenon DEF Boot, PullOperation, PullSingle
  <2>2. agent'.pc \in {"recover", "prune"}
    BY <1>1, <2>1 DEF Calling, Agent
  <2>3. QED
    BY <1>2, <2>2
<1>4. CASE Heartbeat \/ PullFails \/ PullNothing \/ RemoveDirectory
  <2>1. agent'.pc \in {"pull", "report", "prune"}
    BY <1>1, <1>4 DEF Heartbeat, PullFails, PullNothing, RemoveDirectory, Goto, Agent
  <2>2. QED
    BY <1>2, <2>1
<1>5. CASE Prune
  <2>1. agent'.pc \in {"rmdir", "report"}
    BY <1>1, <1>5 DEF Prune, Goto, Agent
  <2>2. QED
    BY <1>2, <2>1
<1>6. CASE Crash
  <2>1. agent'.pc = "boot"
    BY <1>6 DEF Crash, Started
  <2>2. QED
    BY <1>2, <2>1
<1>7. CASE Plan \/ Record \/ UNCHANGED vars
  <2>1. UNCHANGED <<agent, status, marks, commits, journal>>
    BY <1>7 DEF Plan, Record, vars
  <2>2. QED
    BY <2>1, SaidSame
<1>8. ~PullMulti
  BY <1>1, PendingItem DEF PullMulti, NoMulti
<1>9. QED
  BY <1>3, <1>4, <1>5, <1>6, <1>7, <1>8 DEF Pull

\* So what is said of the places holds after every step.
LEMMA SaidStep ==
    ASSUME Before, [Next]_vars
    PROVE  Paths' /\ AtStatus'
BY SaidRecovery, SaidBegin, SaidApply, SaidLoop DEF Next, AgentStep, Apply

\* A status that says APPLYING was written while its item is applied, and is taken back.
LEMMA ApplyingIsOpenStep ==
    ASSUME Before, [Next]_vars
    PROVE  ApplyingIsOpen'
<1> DEFINE i == status.id
<1>1. /\ TypeOK /\ ControlInv /\ NoMulti /\ agent \in Agent /\ Paths /\ AtStatus /\ ApplyingIsOpen
      /\ StatusTrue /\ Placed
  BY DEF Before, ControlInv, OutcomeInv, TypeOK
<1>2. SUFFICES ASSUME status'.state = "APPLYING" PROVE ApplyingIsOpen'
  BY DEF ApplyingIsOpen
<1>3. ASSUME NEW p, Goto(p) PROVE agent'.pc = p /\ agent'.item = agent.item
  BY <1>1, <1>3 DEF Goto, Agent
<1>4. CASE status' # status
  <2>1. PICK j \in Items, state \in StatusStates \ {"NONE"} :
            /\ Justified(j, state) /\ status' = [id |-> j, state |-> state]
            /\ status'.id = j /\ status'.state = state
    BY <1>4, StatusChange
  <2>2. pc = "applying" /\ agent.item = j
    BY <1>2, <2>1 DEF Justified
  <2>3. Next /\ ~Crash /\ ~Plan /\ ~Record
    BY <1>4 DEF Crash, Plan, Record, vars
  <2>4. WriteStatusApplying
    BY <2>2, <2>3, StepPlaces
  <2>5. agent'.pc = "stage" /\ agent'.item = j
    BY <1>1, <2>1, <2>2, <2>4, StagingFact DEF WriteStatusApplying
  <2>6. journal[j].state \in InFlight
    BY <1>1, <2>2 DEF ControlInv, AtWork, Applying, Beginning
  <2>7. marks.active = j
    BY <1>1, <2>1, <2>2, Constants DEF Paths, AtStatus
  <2>8. journal' = journal /\ marks' = marks
    BY <2>4 DEF WriteStatusApplying
  <2>9. QED
    BY <2>1, <2>5, <2>6, <2>7, <2>8 DEF ApplyingIsOpen, pc, Mutating
<1>5. CASE status' = status
  <2>1. /\ status.state = "APPLYING" /\ journal[i].state \in InFlight /\ marks.active = i
        /\ \/ pc = "boot"
           \/ pc = "recover" /\ agent.phase = "start"
           \/ pc = "one" /\ agent.rec = i
           \/ pc \in Mutating \cup {"confirm", "confirmStatus"} /\ agent.item = i
    BY <1>1, <1>2, <1>5 DEF ApplyingIsOpen
  <2>2. i \in Items /\ i # 0 /\ Single(i) /\ Kind[i] = "single" /\ journal[i].level = 4
    <3>1. i \in Items
      BY <1>1, <2>1, StatusType
    <3>2. i # 0
      BY <3>1, Constants
    <3>3. QED
      BY <1>1, <2>1, <3>1, <3>2 DEF StatusTrue, Placed, Single
  <2>3. ASSUME journal' = journal, marks' = marks,
               \/ agent'.pc = "boot"
               \/ agent'.pc = "recover" /\ agent'.phase = "start"
               \/ agent'.pc = "one" /\ agent'.rec = i
               \/ agent'.pc \in {"stage", "commit", "confirm", "confirmStatus"} /\ agent'.item = i
        PROVE  ApplyingIsOpen'
    BY <1>5, <2>1, <2>3 DEF ApplyingIsOpen, pc, Mutating
  <2>4. ASSUME NEW f, agent' = Calling(f), journal' = journal, marks' = marks PROVE ApplyingIsOpen'
    <3>1. agent'.pc = "recover" /\ agent'.phase = "start"
      BY <1>1, <2>4 DEF Calling, Agent
    <3>2. QED
      BY <2>3, <2>4, <3>1
  <2>5. CASE Boot
    BY <2>4, <2>5 DEF Boot
  <2>6. CASE RecoverPending /\ agent.phase = "start"
    <3>1. ~Orphaned
      BY <2>1 DEF Orphaned, InFlight
    <3>2. agent' = Recovering(i, "active") /\ UNCHANGED <<journal, marks>>
      BY <2>1, <2>2, <2>6, <3>1 DEF RecoverPending
    <3>3. agent'.pc = "one" /\ agent'.rec = i
      BY <1>1, <3>2 DEF Recovering, Agent
    <3>4. QED
      BY <2>3, <3>2, <3>3
  <2>7. CASE RecoverOne /\ agent.rec = i
    <3>1. ~Unrecoverable(i)
      BY <2>1, <2>2 DEF Unrecoverable, InFlight
    <3>2. RecoverInFlight(i)
      BY <2>1, <2>7, <3>1 DEF RecoverOne, RecoverDone, RecoverRefused, InFlight, Done
    <3>3. status' = StatusWritten(i, "ROLLING_BACK")
      BY <2>2, <3>2 DEF RecoverInFlight
    <3>4. StatusAllowed(i, "ROLLING_BACK")
      BY <2>1, Transitions DEF StatusAllowed
    <3>5. status' = [id |-> i, state |-> "ROLLING_BACK"]
      BY <3>3, <3>4, WrittenFact
    <3>6. QED
      BY <1>2, <3>5
  <2>8. CASE Stage /\ agent.item = i
    <3>1. UNCHANGED <<journal, marks>>
      BY <2>8 DEF Stage
    <3>2. CASE Goto("commit")
      BY <1>3, <2>3, <2>8, <3>1, <3>2
    <3>3. QED
      BY <2>4, <2>8, <3>1, <3>2 DEF Stage
  <2>9. CASE UciCommit /\ agent.item = i
    <3>1. UNCHANGED <<journal, marks>>
      BY <2>9 DEF UciCommit
    <3>2. CASE agent' # Calling("stage")
      <4>1. agent'.item = i /\ agent'.pc \in {"stage", "confirm"}
        BY <1>1, <2>2, <2>9, <3>2 DEF UciCommit, Agent
      <4>2. QED
        BY <2>3, <3>1, <4>1
    <3>3. QED
      BY <2>4, <3>1, <3>2
  <2>10. CASE MarkPending /\ agent.item = i
    <3>1. OnlyState(i, "PENDING_CONFIRM") /\ marks' = marks /\ Goto("confirmStatus")
      BY <1>1, <2>2, <2>10, StateFact DEF MarkPending, JournalStates, InFlight
    <3>2. agent'.pc = "confirmStatus" /\ agent'.item = i
      BY <1>3, <2>10, <3>1
    <3>3. journal'[i].state \in InFlight
      BY <2>2, <3>1 DEF OnlyState, InFlight
    <3>4. QED
      BY <1>5, <2>1, <3>1, <3>2, <3>3 DEF ApplyingIsOpen, pc
  <2>11. CASE WriteStatusPending /\ agent.item = i
    <3>1. status = [id |-> i, state |-> "APPLYING"]
      BY <1>1, <2>2, <2>11 DEF WriteStatusPending, At, pc, AtStatus
    <3>2. status'.state = "PENDING_CONFIRM"
      BY <2>11, <3>1, AttemptAllowed, WrittenFact DEF WriteStatusPending
    <3>3. QED
      BY <1>2, <3>2
  <2>12. CASE Crash
    BY <2>3, <2>12 DEF Crash, Started
  <2>13. CASE Plan \/ Record \/ UNCHANGED vars
    <3>1. UNCHANGED <<agent, marks, journal>>
      BY <2>13 DEF Plan, Record, vars
    <3>2. QED
      BY <2>1, <2>3, <3>1 DEF pc, Mutating
  <2>14. QED
    BY <2>1, <2>5, <2>6, <2>7, <2>8, <2>9, <2>10, <2>11, <2>12, <2>13, StepPlaces DEF Mutating
<1>6. QED
  BY <1>4, <1>5

\* A commit the status file does not tell of yet is told of when its place is left.
LEMMA UntoldStep ==
    ASSUME Before, [Next]_vars, NEW i \in commits, Single(i), Untold(i), status' = status
    PROVE  Untold(i)'
<1>1. /\ TypeOK /\ ControlInv /\ NoMulti /\ agent \in Agent /\ SentTrue /\ Placed /\ LogInv
      /\ i \in Items
  BY DEF Before, ControlInv, OutcomeInv, TypeOK
<1>2. i # 0 /\ Kind[i] = "single"
  BY <1>1, Constants DEF Single
<1>3. /\ status = [id |-> i, state |-> "PENDING_CONFIRM"]
      /\ status.id = i /\ status.state = "PENDING_CONFIRM"
      /\ journal[i].state = "COMMITTED" /\ journal[i].level = 4
      /\ server.pending = i /\ marks.active \in {0, i} /\ Unrecovered = {}
      /\ \/ pc \in {"boot", "report", "pull"}
         \/ pc \in {"deactivate", "last", "committed"} /\ agent.item = i
         \/ pc \in {"recover", "one"} /\ agent.from = "boot" /\ (pc = "one" => agent.rec = i)
  BY DEF Untold
<1>4. ASSUME NEW p, Goto(p)
      PROVE  /\ agent'.pc = p /\ agent'.item = agent.item /\ agent'.rec = agent.rec
             /\ agent'.from = agent.from
  BY <1>1, <1>4 DEF Goto, Agent
<1>5. ASSUME journal' = journal \/ OnlyBackup(i),
             server' = server, marks'.active \in {0, marks.active},
             \/ agent'.pc \in {"boot", "report", "pull"}
             \/ agent'.pc \in {"last", "committed"} /\ agent'.item = i
             \/ agent'.pc = "recover" /\ agent'.from = "boot"
             \/ agent'.pc = "one" /\ agent'.from = "boot" /\ agent'.rec = i
      PROVE  Untold(i)'
  <2>1. \A k \in Items : /\ journal'[k].state = journal[k].state
                         /\ journal'[k].level = journal[k].level
                         /\ journal'[k].exists = journal[k].exists
    BY <1>5 DEF OnlyBackup
  <2>2. Unrecovered' = {}
    BY <1>3, <2>1 DEF Unrecovered
  <2>3. journal'[i].state = "COMMITTED" /\ journal'[i].level = 4
    BY <1>1, <1>3, <2>1
  <2>4. server'.pending = i /\ marks'.active \in {0, i}
    BY <1>3, <1>5
  <2>5. status' = [id |-> i, state |-> "PENDING_CONFIRM"]
    BY <1>3
  <2>6. QED
    BY <1>5, <2>2, <2>3, <2>4, <2>5 DEF Untold, pc
<1>6. ASSUME status' = StatusWritten(i, "COMMITTED") PROVE FALSE
  <2>1. StatusAllowed(i, "COMMITTED")
    BY <1>3, Transitions DEF StatusAllowed
  <2>2. status' = [id |-> i, state |-> "COMMITTED"]
    BY <1>6, <2>1, WrittenFact
  <2>3. QED
    BY <1>3, <2>2
<1>7. ASSUME agent.from = "boot", agent' = Returned(TRUE) \/ agent' = Returned(FALSE)
      PROVE  agent'.pc = "report"
  BY <1>1, <1>7, ReturnedNo, ReturnedYes
<1>8. CASE Boot
  <2>1. agent'.pc = "recover" /\ agent'.from = "boot"
    BY <1>1, <1>8 DEF Boot, Calling, Agent
  <2>2. QED
    BY <1>5, <1>8, <2>1 DEF Boot
<1>9. CASE Heartbeat \/ PullFails
  <2>1. agent'.pc \in {"pull", "report"} /\ UNCHANGED <<journal, server, marks>>
    BY <1>4, <1>9 DEF Heartbeat, PullFails
  <2>2. QED
    BY <1>5, <2>1
<1>10. ~PullNothing /\ ~PullOperation /\ ~PullMulti
  BY <1>2, <1>3 DEF PullNothing, PullOperation, PullMulti
<1>11. ~PullSingle
  <2>1. SUFFICES ASSUME PullSingle PROVE FALSE
    OBVIOUS
  <2>2. EndKnown(i) /\ ~(status.id = i /\ status.state \in Done \cup {"REJECTED"}) /\ Complete(i)
    BY <1>2, <1>3 DEF EndKnown, Complete, Done
  <2>3. status' = StatusWritten(i, "COMMITTED")
    BY <1>3, <2>1, <2>2 DEF PullSingle
  <2>4. QED
    BY <1>6, <2>3
<1>12. CASE Deactivate /\ agent.item = i
  <2>1. OnlyBackup(i)
    BY <1>1, <1>2, <1>12, BackupFact DEF Deactivate
  <2>2. marks'.active = 0 /\ server' = server
    BY <1>1, <1>12 DEF Deactivate, TypeOK
  <2>3. agent'.pc = "last" /\ agent'.item = i
    BY <1>4, <1>12 DEF Deactivate
  <2>4. QED
    BY <1>5, <2>1, <2>2, <2>3
<1>13. CASE WriteLast /\ agent.item = i
  <2>1. marks'.active = marks.active /\ UNCHANGED <<journal, server>>
    BY <1>1, <1>13 DEF WriteLast, TypeOK
  <2>2. agent'.pc = "committed" /\ agent'.item = i
    BY <1>2, <1>4, <1>13 DEF WriteLast
  <2>3. QED
    BY <1>5, <2>1, <2>2
<1>14. ~(WriteStatusCommitted /\ agent.item = i)
  BY <1>6 DEF WriteStatusCommitted
<1>15. CASE RecoverPending /\ agent.from = "boot"
  <2>1. ~Orphaned
    BY <1>3 DEF Orphaned
  <2>2. i \in OverChangeSets /\ OverChangeSets \subseteq Nat
    <3>1. i \in OverChangeSets
      BY <1>1, <1>3 DEF OverChangeSets, Done
    <3>2. OverChangeSets \subseteq Items
      BY DEF OverChangeSets
    <3>3. QED
      BY <3>1, <3>2, Constants
  <2>3. Max(OverChangeSets) = i
    <3>1. ASSUME NEW j \in OverChangeSets PROVE j <= i
      <4>1. j \in Items /\ journal[j].level > 0
        <5>1. j \in Items /\ journal[j].level >= 2
          BY DEF OverChangeSets
        <5>2. journal[j].level \in Nat
          BY <1>1, <5>1, LevelType
        <5>3. QED
          BY <5>1, <5>2
      <4>2. j <= server.planned
        BY <1>1, <4>1 DEF Placed
      <4>3. server.planned = i
        BY <1>1, <1>2, <1>3 DEF LogInv, InOrderOf
      <4>4. QED
        BY <4>2, <4>3
    <3>2. QED
      BY <2>2, <3>1, MaxIs
  <2>4. /\ UNCHANGED <<journal, server, marks>>
        /\ \/ agent' = Returned(TRUE) \/ agent' = Returned(FALSE)
           \/ agent' = Recovering(i, "active") \/ agent' = Recovering(i, "last")
    BY <1>3, <1>15, <2>1, <2>3 DEF RecoverPending
  <2>5. ASSUME NEW ph, agent' = Recovering(i, ph)
        PROVE  agent'.pc = "one" /\ agent'.from = "boot" /\ agent'.rec = i
    BY <1>1, <1>15, <2>5 DEF Recovering, Agent
  <2>6. QED
    BY <1>5, <1>7, <1>15, <2>4, <2>5
<1>16. ~(RecoverOne /\ agent.rec = i)
  <2>1. SUFFICES ASSUME RecoverOne, agent.rec = i PROVE FALSE
    OBVIOUS
  <2>2. ~Unrecoverable(i) /\ IsChangeSet(i)
    BY <1>2, <1>3 DEF Unrecoverable, IsChangeSet
  <2>3. RecoverDone(i)
    BY <1>3, <2>1, <2>2 DEF RecoverOne, RecoverRefused, RecoverInFlight, InFlight
  <2>4. status' = StatusWritten(i, "COMMITTED")
    BY <1>3, <2>2, <2>3 DEF RecoverDone
  <2>5. QED
    BY <1>6, <2>4
<1>17. CASE Crash
  BY <1>5, <1>17 DEF Crash, Started
<1>18. ~Plan
  BY <1>2, <1>3 DEF Plan
<1>19. ~Record
  <2>1. SUFFICES ASSUME NEW r \in sent, r.id = i, r.state \in FinalStates(i) PROVE FALSE
    BY <1>3 DEF Record
  <2>2. r.state \in {"COMMITTED", "RESTORED", "REJECTED", "RECOVERY_REQUIRED"} /\ ~(status.id > i)
    <3>1. i \in Nat
      BY <1>1, Constants
    <3>2. QED
      BY <1>3, <2>1, <3>1 DEF FinalStates, Done
  <2>3. /\ r.state = "COMMITTED" => status = r
        /\ r.state \in {"RESTORED", "REJECTED"} => status.state \in {"RESTORED", "REJECTED"}
        /\ r.state = "RECOVERY_REQUIRED" => status = r
    BY <1>1, <2>1, <2>2 DEF SentTrue
  <2>4. QED
    BY <1>3, <2>2, <2>3
<1>20. CASE UNCHANGED vars
  BY <1>20 DEF vars, Untold, Unrecovered, pc
<1>21. CASE Next
  BY <1>3, <1>8, <1>9, <1>10, <1>11, <1>12, <1>13, <1>14, <1>15, <1>16, <1>17, <1>18, <1>19, <1>21,
     StepPlaces DEF Pull
<1>22. QED
  BY <1>20, <1>21

\* What is committed is known.
LEMMA CommitsKnownStep ==
    ASSUME Before, [Next]_vars
    PROVE  CommitsKnown'
<1>1. /\ TypeOK /\ ControlInv /\ NoMulti /\ agent \in Agent /\ AtStatus /\ CommitsKnown /\ JournalTrue
      /\ Placed /\ LogInv /\ BegunOpen
  BY DEF Before, ControlInv, OutcomeInv, TypeOK
<1>2. SUFFICES ASSUME NEW i \in commits', Single(i)
               PROVE  \/ status'.id > i
                      \/ status' = [id |-> i, state |-> "COMMITTED"]
                      \/ status'.state = "RECOVERY_REQUIRED"
                      \/ Untold(i)'
  BY DEF CommitsKnown, Single
<1>3. CASE i \notin commits
  <2>1. pc = "decide" /\ Commit /\ agent.item = i
    BY <1>2, <1>3, CommitsStep
  <2>2. i \in Items /\ i # 0
    BY <1>1, <2>1, Constants DEF ControlInv, Known, Applying, Verifying
  <2>3. status = [id |-> i, state |-> "PENDING_CONFIRM"] /\ marks.active = i
    BY <1>1, <1>2, <2>1, <2>2 DEF AtStatus, Verifying
  <2>4. server.pending = i
    BY <1>1, <1>2, <2>1 DEF BegunOpen, Begun, Applying, Verifying
  <2>5. journal[i].level = 4
    <3>1. journal[i].state \in InFlight
      BY <1>1, <2>1 DEF ControlInv, AtWork, Applying, Verifying
    <3>2. QED
      BY <1>1, <1>2, <2>2, <3>1 DEF Placed
  <2>6. OnlyState(i, "COMMITTED") /\ UNCHANGED <<status, marks, server>>
    BY <1>1, <2>1, <2>2, StateFact DEF Commit, JournalStates, Done
  <2>7. Unrecovered' = {}
    <3>1. Unrecovered \subseteq {i}
      BY <1>1, <2>1 DEF LogInv, Sole, Applying, Verifying
    <3>2. QED
      BY <2>6, <3>1 DEF OnlyState, Unrecovered, Done
  <2>8. agent'.pc = "deactivate" /\ agent'.item = i
    BY <1>1, <2>1 DEF Commit, Goto, Agent
  <2>9. journal'[i].state = "COMMITTED" /\ journal'[i].level = 4
    BY <2>2, <2>5, <2>6 DEF OnlyState
  <2>10. QED
    BY <2>3, <2>4, <2>6, <2>7, <2>8, <2>9 DEF Untold, pc
<1>4. CASE i \in commits
  <2>1. i \in Items /\ i \in Nat /\ i # 0
    BY <1>1, <1>4, Constants DEF TypeOK
  <2>2. \/ status.id > i
        \/ status = [id |-> i, state |-> "COMMITTED"]
        \/ status.state = "RECOVERY_REQUIRED"
        \/ Untold(i)
    BY <1>1, <1>2, <1>4 DEF CommitsKnown
  <2>3. CASE status' = status
    BY <1>2, <1>4, <2>2, <2>3, UntoldStep
  <2>4. CASE status' # status
    <3>1. PICK j \in Items, state \in StatusStates \ {"NONE"} :
              /\ Justified(j, state) /\ status' = [id |-> j, state |-> state]
              /\ status'.id = j /\ status'.state = state
      BY <2>4, StatusChange
    <3>2. /\ status.id \in Nat /\ j \in Nat
          /\ \/ status.id = 0 /\ status.state = "NONE"
             \/ j = status.id /\ state \in NextStates[status.state]
             \/ j > status.id /\ status.state \in Done \cup {"REJECTED"}
      BY <2>4, <3>1, StatusOrder, Constants
    <3>3. CASE status.id > i
      <4>1. j > i
        BY <2>1, <3>2, <3>3
      <4>2. QED
        BY <3>1, <4>1
    <3>4. CASE status = [id |-> i, state |-> "COMMITTED"]
      <4>1. status.id = i /\ status.state = "COMMITTED"
        BY <3>4
      <4>2. (j = i /\ state = "COMMITTED") \/ j > i
        BY <2>1, <3>2, <4>1, Transitions
      <4>3. QED
        BY <3>1, <4>2
    <3>5. CASE status.state = "RECOVERY_REQUIRED"
      BY <3>1, <3>2, <3>5, Transitions DEF Done
    <3>6. CASE Untold(i)
      <4>1. /\ status.id = i /\ status.state = "PENDING_CONFIRM" /\ journal[i].state = "COMMITTED"
            /\ status = [id |-> i, state |-> "PENDING_CONFIRM"]
        BY <3>6 DEF Untold
      <4>2. /\ j = i
            /\ state \in {"PENDING_CONFIRM", "COMMITTED", "ROLLING_BACK", "RESTORED", "RECOVERY_REQUIRED"}
        BY <2>1, <3>2, <4>1, Transitions DEF Done
      <4>3. state # "ROLLING_BACK" /\ state # "RESTORED"
        BY <1>4, <3>1, <4>1, <4>2 DEF Justified, Left, InFlight
      <4>4. state # "PENDING_CONFIRM"
        BY <2>4, <3>1, <4>1, <4>2
      <4>5. QED
        BY <3>1, <4>2, <4>3, <4>4
    <3>7. QED
      BY <2>2, <3>3, <3>4, <3>5, <3>6
  <2>5. QED
    BY <2>3, <2>4
<1>5. QED
  BY <1>3, <1>4

\* All of it holds at first.
LEMMA OutcomeInit == ASSUME Init PROVE OutcomeInv
<1>1. /\ \A i \in Items : /\ journal[i].state = "NONE" /\ journal[i].level = 0
                          /\ server.outcome[i] = "NONE"
      /\ \A n \in Namespaces : config[n] = 0 /\ staged[n] = 0
      /\ status.id = 0 /\ status.state = "NONE" /\ commits = {} /\ sent = {}
      /\ agent.item = 0 /\ agent.from = "boot" /\ pc = "boot"
  BY DEF Init, NoEntry, Started, pc
<1>2. \A i \in Items : i \in Nat /\ i # 0
  BY Constants
<1>3. \A i \in Items : ~Left(i)
  BY <1>1, <1>2 DEF Left
<1>4. Placed
  BY <1>1 DEF Placed, InFlight
<1>5. JournalTrue
  BY <1>1 DEF JournalTrue, InFlight
<1>6. StatusTrue
  BY <1>1, <1>3 DEF StatusTrue
<1>7. Paths /\ AtStatus /\ ApplyingIsOpen
  BY <1>1 DEF Paths, AtStatus, ApplyingIsOpen
<1>8. ~Begun
  BY <1>1 DEF Begun, Applying, Beginning, Mutating, Verifying, RecoveringOne
<1>9. CommitsKnown /\ BegunOpen /\ SentTrue /\ Recorded
  BY <1>1, <1>8 DEF CommitsKnown, BegunOpen, SentTrue, Recorded
<1>10. QED
  BY <1>4, <1>5, <1>6, <1>7, <1>9 DEF OutcomeInv

\* And after every step.
LEMMA OutcomeStep == ASSUME Before, [Next]_vars PROVE OutcomeInv'
BY PlacedStep, JournalTrueStep, StatusTrueStep, SaidStep, ApplyingIsOpenStep, CommitsKnownStep,
   BegunOpenStep, SentTrueStep, RecordedStep
   DEF OutcomeInv

\* What is recorded was reported, and what was reported of an end is true.
LEMMA OutcomeTruthful == ASSUME ControlInv, OutcomeInv PROVE ChangeSetsTruthful
<1>1. Recorded /\ SentTrue
  BY DEF OutcomeInv
<1>2. SUFFICES ASSUME NEW i \in Items, Single(i) PROVE Truthful(i)
  BY DEF ChangeSetsTruthful, Single
<1> DEFINE r == [id |-> i, state |-> server.outcome[i]]
<1>3. r.id = i /\ r.state = server.outcome[i] /\ Single(r.id)
  BY <1>2
<1>4. server.outcome[i] # "NONE" => r \in sent
  BY <1>1 DEF Recorded
<1>5. server.outcome[i] = "COMMITTED" => i \in commits
  <2>1. SUFFICES ASSUME server.outcome[i] = "COMMITTED" PROVE i \in commits
    OBVIOUS
  <2>2. r \in sent
    BY <1>4, <2>1
  <2>3. QED
    BY <1>1, <1>3, <2>1, <2>2 DEF SentTrue
<1>6. server.outcome[i] \in {"RESTORED", "REJECTED"} => ~Left(i)
  <2>1. SUFFICES ASSUME server.outcome[i] \in {"RESTORED", "REJECTED"} PROVE ~Left(i)
    OBVIOUS
  <2>2. r \in sent
    BY <1>4, <2>1
  <2>3. QED
    BY <1>1, <1>3, <2>1, <2>2 DEF SentTrue
<1>7. QED
  BY <1>5, <1>6 DEF Truthful, Left

\* What the controller has recorded of a change set is what happened on the device, whatever
\* fails, crashes, is reported late or lies between the change sets, as long as none has
\* several namespaces (change_set_status_write, apply_pending_change_set_single).
THEOREM ChangeSetsAreTruthful ==
    (\A i \in Items : Kind[i] # "multi") => (Spec => []ChangeSetsTruthful)
<1>1. SUFFICES ASSUME NoMulti PROVE Spec => []ChangeSetsTruthful
  BY DEF NoMulti
<1>2. Init => LogInv /\ OutcomeInv
  BY LogInit, OutcomeInit
<1>3. ControlInv /\ LogInv /\ OutcomeInv /\ [Next]_vars => LogInv' /\ OutcomeInv'
  BY <1>1, LogStep, OutcomeStep DEF Before
<1>4. ControlInv /\ LogInv /\ OutcomeInv => ChangeSetsTruthful
  BY OutcomeTruthful
<1>5. QED
  BY <1>2, <1>3, <1>4, ControlHolds, PTL DEF Spec
=============================================================================
