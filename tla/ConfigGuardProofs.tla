-------------------------- MODULE ConfigGuardProofs --------------------------
(***************************************************************************)
(* What ConfigGuard promises for any contents, any number of changes,      *)
(* kills and boots, any deadlines and whatever fails.                      *)
(*                                                                         *)
(* The properties speak of states between commands; the inductive          *)
(* invariant adds what a command that holds the lock has established at    *)
(* each of its steps, where a kill or a power loss may stop it.            *)
(***************************************************************************)
EXTENDS ConfigGuard, TLAPS

\* What the directory `active` says about the file.
JournalInv ==
    /\ active = NoJournal => target = base
    /\ active # NoJournal =>
         /\ active.original = base
         /\ ended[active.id] = ""
         /\ active.boot <= system.boot
         /\ ~Up => active.boot < system.boot

\* What the command that has the lock has established.
LockInv ==
    /\ pc = "arm" => /\ active = NoJournal /\ prepared # NoJournal
                     /\ prepared.original = target
                     /\ prepared.boot <= system.boot
                     /\ ended[prepared.id] = "prepared"
    /\ pc \notin {"idle", "arm"} => active # NoJournal
    /\ pc \notin {"idle", "restore", "close"} => Up
    /\ system.phase = "guarded" => pc = "idle"
    /\ pc = "commit" => active.id \notin fenced
    /\ pc \in {"again", "close"} => target = active.original
    /\ pc = "close" /\ Up => running = target

\* A change whose rollback has begun is either closed as restored or still
\* active with an expired deadline.
FenceInv ==
    \A i \in fenced : \/ ended[i] = "restored"
                      \/ active # NoJournal /\ active.id = i /\ active.deadline = 0

IInv == TypeOK /\ JournalInv /\ LockInv /\ FenceInv

-----------------------------------------------------------------------------

\* A journal is a record with an identity, two contents, a boot and a deadline.
LEMMA JournalType ==
    ASSUME NEW j \in Journals
    PROVE  /\ j.id \in Changes /\ j.original \in Contents /\ j.candidate \in Contents
           /\ j.boot \in Nat /\ j.deadline \in Nat
           /\ j # NoJournal
  BY GuardAssumption DEF Journals

\* A later boot has a larger number.
LEMMA Later ==
    ASSUME NEW a \in Nat, NEW b \in Nat, a <= b
    PROVE  a <= b + 1 /\ a < b + 1 /\ b + 1 \in Nat
  OBVIOUS

\* Boot id and uptime are natural numbers.
LEMMA SystemType ==
    ASSUME NEW s \in Systems
    PROVE  s.boot \in Nat /\ s.uptime \in Nat
  BY DEF Systems

\* What init, time and a power loss make of the system's state.
LEMMA SystemEdit ==
    ASSUME NEW s \in Systems, NEW t
    PROVE  /\ t = [s EXCEPT !.phase = "guarded"]
                => t \in Systems /\ t.boot = s.boot /\ t.phase = "guarded" /\ t.worker = s.worker
           /\ t = [s EXCEPT !.phase = "guarded", !.worker = "running"]
                => t \in Systems /\ t.boot = s.boot /\ t.phase = "guarded"
           /\ t = [s EXCEPT !.phase = "up"]
                => t \in Systems /\ t.boot = s.boot /\ t.phase = "up"
           /\ t = [s EXCEPT !.uptime = @ + 1]
                => t \in Systems /\ t.boot = s.boot /\ t.phase = s.phase /\ t.worker = s.worker
           /\ t = [phase |-> "starting", boot |-> s.boot + 1, uptime |-> 0, worker |-> "none"]
                => t \in Systems /\ t.boot = s.boot + 1 /\ t.phase = "starting"
  <1>1. ASSUME t = [s EXCEPT !.phase = "guarded"]
        PROVE  t \in Systems /\ t.boot = s.boot /\ t.phase = "guarded" /\ t.worker = s.worker
    BY <1>1 DEF Systems
  <1>2. ASSUME t = [s EXCEPT !.phase = "guarded", !.worker = "running"]
        PROVE  t \in Systems /\ t.boot = s.boot /\ t.phase = "guarded"
    BY <1>2 DEF Systems
  <1>3. ASSUME t = [s EXCEPT !.phase = "up"]
        PROVE  t \in Systems /\ t.boot = s.boot /\ t.phase = "up"
    BY <1>3 DEF Systems
  <1>4. ASSUME t = [s EXCEPT !.uptime = @ + 1]
        PROVE  t \in Systems /\ t.boot = s.boot /\ t.phase = s.phase /\ t.worker = s.worker
    BY <1>4 DEF Systems
  <1>5. ASSUME t = [phase |-> "starting", boot |-> s.boot + 1, uptime |-> 0, worker |-> "none"]
        PROVE  t \in Systems /\ t.boot = s.boot + 1 /\ t.phase = "starting"
    BY <1>5 DEF Systems
  <1> QED BY <1>1, <1>2, <1>3, <1>4, <1>5

\* Init establishes the invariant.
LEMMA InitInv == Init => IInv
  <1> SUFFICES ASSUME Init PROVE IInv
    OBVIOUS
  <1>1. system \in Systems BY DEF Init, Systems
  <1>2. TypeOK BY <1>1, GuardAssumption DEF Init, TypeOK
  <1>3. JournalInv /\ LockInv /\ FenceInv
    BY DEF Init, JournalInv, LockInv, FenceInv, Up
  <1> QED BY <1>2, <1>3 DEF IInv

\* Arm takes the lock with a complete prepared-<id>.
LEMMA ArmInv ==
    ASSUME IInv, NEW i \in Changes, NEW c \in Contents, Arm(i, c)
    PROVE  IInv'
  <1> DEFINE j == [id |-> i, original |-> target, candidate |-> c,
                   boot |-> system.boot, deadline |-> system.uptime + TTL]
  <1>1. j \in Journals
    <2>1. target \in Contents /\ system \in Systems BY DEF IInv, TypeOK
    <2>2. system.boot \in Nat /\ system.uptime \in Nat BY <2>1, SystemType
    <2>3. TTL \in Nat BY GuardAssumption
    <2> QED BY <2>1, <2>2, <2>3 DEF Journals
  <1>2. j # NoJournal BY <1>1, JournalType
  <1>3. /\ prepared' = j /\ pc' = "arm" /\ ended' = [ended EXCEPT ![i] = "prepared"]
        /\ active = NoJournal /\ ended[i] = "" /\ Up
        /\ UNCHANGED <<target, running, active, system, base, fenced, kills>>
    BY DEF Arm, Free
  <1>4. TypeOK' BY <1>1, <1>3 DEF IInv, TypeOK
  <1>5. JournalInv' BY <1>3 DEF IInv, JournalInv
  <1>6. LockInv'
    <2>1. prepared'.original = target' /\ prepared'.boot <= system'.boot
      <3>1. system \in Systems BY DEF IInv, TypeOK
      <3>2. system.boot <= system.boot BY <3>1, SystemType
      <3> QED BY <1>3, <3>2
    <2>2. ended'[prepared'.id] = "prepared" BY <1>3 DEF IInv, TypeOK
    <2> QED BY <1>2, <1>3, <2>1, <2>2 DEF LockInv, Up
  <1>7. FenceInv' BY <1>3 DEF IInv, TypeOK, FenceInv
  <1> QED BY <1>4, <1>5, <1>6, <1>7 DEF IInv

\* The rename of prepared-<id> to active makes the file's content the one to go back to.
LEMMA ActivateInv == IInv /\ Activate => IInv'
  <1> SUFFICES ASSUME IInv, Activate PROVE IInv'
    OBVIOUS
  <1>1. /\ active = NoJournal /\ prepared # NoJournal
        /\ prepared.original = target /\ prepared.boot <= system.boot
        /\ ended[prepared.id] = "prepared" /\ Up /\ target = base
    BY DEF Activate, IInv, LockInv, JournalInv
  <1>2. prepared \in Journals /\ prepared.id \in Changes
    BY <1>1, JournalType DEF IInv, TypeOK
  <1>3. TypeOK' BY <1>2 DEF Activate, IInv, TypeOK
  <1>4. JournalInv'
    BY <1>1, <1>2 DEF Activate, IInv, TypeOK, JournalInv, Up
  <1>5. LockInv' BY <1>1 DEF Activate, LockInv, Up
  <1>6. FenceInv'
    BY <1>1, <1>2 DEF Activate, IInv, TypeOK, FenceInv
  <1> QED BY <1>3, <1>4, <1>5, <1>6 DEF IInv

\* Commands that only pass their checks and take the lock.
LEMMA LockTakenInv == IInv /\ (Apply \/ Confirm \/ Rollback \/ Check) => IInv'
  <1> SUFFICES ASSUME IInv, Apply \/ Confirm \/ Rollback \/ Check PROVE IInv'
    OBVIOUS
  <1>1. /\ UNCHANGED <<target, running, active, prepared, ended, system, base, fenced, kills>>
        /\ Up /\ active # NoJournal
        /\ pc' \in {"swap", "commit", "fence", "restore"}
        /\ pc' = "commit" => ~Expired
    BY DEF Apply, Confirm, Rollback, Check, Free
  <1>2. TypeOK' BY <1>1 DEF IInv, TypeOK
  <1>3. JournalInv' /\ FenceInv' BY <1>1 DEF IInv, JournalInv, FenceInv, Up
  <1>4. pc' = "commit" => active.id \notin fenced
    <2> SUFFICES ASSUME ~Expired, active.id \in fenced PROVE FALSE
      BY <1>1
    <2>1. ended[active.id] = "" BY <1>1 DEF IInv, JournalInv
    <2>2. active.deadline = 0 BY <2>1 DEF IInv, FenceInv
    <2>3. system.uptime \in Nat BY SystemType DEF IInv, TypeOK
    <2> QED BY <2>2, <2>3 DEF Expired
  <1>5. LockInv' BY <1>1, <1>4 DEF LockInv, Up
  <1> QED BY <1>2, <1>3, <1>5 DEF IInv

\* The new file is in place while `active` holds the old one.
LEMMA SwapInv == IInv /\ (Swap \/ Restart) => IInv'
  <1> SUFFICES ASSUME IInv, Swap \/ Restart PROVE IInv'
    OBVIOUS
  <1>1. /\ active # NoJournal /\ Up /\ active \in Journals
        /\ UNCHANGED <<active, prepared, ended, system, base, fenced, kills>>
        /\ pc' \in {"restart", "idle"}
        /\ target' \in {target, active.candidate}
        /\ running' \in {running, target}
    BY DEF Swap, Restart, IInv, LockInv, TypeOK
  <1>2. TypeOK' BY <1>1, JournalType DEF IInv, TypeOK
  <1>3. JournalInv' /\ LockInv' /\ FenceInv'
    BY <1>1 DEF IInv, JournalInv, LockInv, FenceInv, Up
  <1> QED BY <1>2, <1>3 DEF IInv

\* The rename of active to committed-<id> makes the new file the confirmed one.
LEMMA CommitInv == IInv /\ Commit => IInv'
  <1> SUFFICES ASSUME IInv, Commit PROVE IInv'
    OBVIOUS
  <1>1. /\ active # NoJournal /\ active \in Journals /\ active.id \in Changes
        /\ active.id \notin fenced /\ Up
    BY JournalType DEF Commit, IInv, LockInv, TypeOK
  <1>2. TypeOK' BY <1>1 DEF Commit, IInv, TypeOK
  <1>3. JournalInv' BY DEF Commit, JournalInv
  <1>4. LockInv' BY <1>1 DEF Commit, LockInv, Up
  <1>5. FenceInv' BY <1>1 DEF Commit, IInv, TypeOK, FenceInv
  <1> QED BY <1>2, <1>3, <1>4, <1>5 DEF IInv

\* The rollback expires the deadline before it does anything else.
LEMMA FencedInv == IInv /\ Fence => IInv'
  <1> SUFFICES ASSUME IInv, Fence PROVE IInv'
    OBVIOUS
  <1>1. /\ active # NoJournal /\ active \in Journals /\ active.id \in Changes /\ Up
    BY JournalType DEF Fence, IInv, LockInv, TypeOK
  <1>2. /\ active' \in Journals /\ active'.id = active.id
        /\ active'.original = active.original /\ active'.boot = active.boot
        /\ active'.deadline = 0
    BY <1>1 DEF Fence, Journals
  <1>3. active' # NoJournal BY <1>2, JournalType
  <1>4. TypeOK' BY <1>1, <1>2 DEF Fence, IInv, TypeOK
  <1>5. JournalInv'
    <2>1. UNCHANGED <<target, ended, system, base>> BY DEF Fence
    <2>2. active.original = base /\ ended[active.id] = "" /\ active.boot <= system.boot
      BY <1>1 DEF IInv, JournalInv
    <2> QED BY <1>1, <1>2, <1>3, <2>1, <2>2 DEF JournalInv, Up
  <1>6. LockInv' BY <1>1, <1>3 DEF Fence, LockInv, Up
  <1>7. FenceInv' BY <1>2, <1>3 DEF Fence, IInv, FenceInv
  <1> QED BY <1>4, <1>5, <1>6, <1>7 DEF IInv

\* Restoring keeps the journal until the file, and the agent, are back.
LEMMA RestoreInv == IInv /\ (PutBack \/ Again) => IInv'
  <1> SUFFICES ASSUME IInv, PutBack \/ Again PROVE IInv'
    OBVIOUS
  <1>1. /\ active # NoJournal /\ active \in Journals
        /\ UNCHANGED <<active, prepared, ended, base, fenced, kills>>
    BY DEF PutBack, Again, IInv, LockInv, TypeOK
  <1>2. CASE PutBack
    <2>1. /\ target' \in {target, active.original} /\ running' = running
          /\ pc' \in {"again", "close", "idle"}
          /\ pc' # "idle" => target' = active.original /\ system' = system
          /\ pc' = "again" => Up
          /\ pc' = "close" => ~Up
          /\ system' \in {system, [system EXCEPT !.phase = "guarded"]}
          /\ Up => system' = system
      BY <1>2 DEF PutBack, Failed
    <2>2. system'.boot = system.boot /\ (Up' => Up) /\ system' \in Systems
      <3>1. system \in Systems BY DEF IInv, TypeOK
      <3>2. CASE system' = system BY <3>1, <3>2 DEF Up
      <3>3. CASE system' = [system EXCEPT !.phase = "guarded"]
        BY <3>1, <3>3, SystemEdit DEF Up
      <3> QED BY <2>1, <3>2, <3>3
    <2>3. TypeOK' BY <1>1, <2>1, <2>2, JournalType DEF IInv, TypeOK
    <2>4. JournalInv' BY <1>1, <2>1, <2>2 DEF IInv, JournalInv, Up
    <2>5. system'.phase = "guarded" => pc' = "idle"
      BY <1>2, <2>1 DEF PutBack, IInv, LockInv
    <2>6. LockInv' BY <1>1, <2>1, <2>2, <2>5 DEF LockInv, Up
    <2>7. FenceInv' BY <1>1 DEF IInv, FenceInv
    <2> QED BY <2>3, <2>4, <2>6, <2>7 DEF IInv
  <1>3. CASE Again
    <2>1. Up /\ target = active.original BY <1>3 DEF Again, IInv, LockInv
    <2>2. TypeOK' BY <1>3 DEF Again, IInv, TypeOK
    <2>3. JournalInv' /\ FenceInv' BY <1>3 DEF Again, IInv, JournalInv, FenceInv, Up
    <2>4. LockInv' BY <1>1, <1>3, <2>1 DEF Again, LockInv, Up
    <2> QED BY <2>2, <2>3, <2>4 DEF IInv
  <1> QED BY <1>2, <1>3

\* The rename of active to restored-<id>.
LEMMA CloseInv == IInv /\ Close => IInv'
  <1> SUFFICES ASSUME IInv, Close PROVE IInv'
    OBVIOUS
  <1>1. /\ active # NoJournal /\ active \in Journals /\ active.id \in Changes
        /\ target = base
    BY JournalType DEF Close, IInv, LockInv, JournalInv, TypeOK
  <1>2. system' \in Systems
    <2>1. system \in Systems BY DEF IInv, TypeOK
    <2> QED BY <2>1, SystemEdit DEF Close, Guarded
  <1>3. TypeOK' BY <1>1, <1>2 DEF Close, IInv, TypeOK
  <1>4. JournalInv' BY <1>1 DEF Close, JournalInv
  <1>5. LockInv' BY DEF Close, LockInv
  <1>6. FenceInv' BY <1>1 DEF Close, IInv, TypeOK, FenceInv
  <1> QED BY <1>3, <1>4, <1>5, <1>6 DEF IInv

\* Boot, time and interruptions leave the journal alone.
LEMMA SystemInv == IInv /\ (BootCheck \/ StartAgent \/ Tick \/ Kill \/ PowerLoss) => IInv'
  <1> SUFFICES ASSUME IInv, BootCheck \/ StartAgent \/ Tick \/ Kill \/ PowerLoss PROVE IInv'
    OBVIOUS
  <1>1. /\ UNCHANGED <<target, active, prepared, ended, base, fenced>>
        /\ active # NoJournal => active \in Journals
    BY DEF BootCheck, StartAgent, Tick, Kill, PowerLoss, IInv, TypeOK
  <1>2. FenceInv' BY <1>1 DEF IInv, FenceInv
  <1>3. CASE BootCheck
    <2>1. system' = system \/ system' = Guarded BY <1>3 DEF BootCheck
    <2>2. system'.boot = system.boot /\ ~Up /\ ~Up' /\ system' \in Systems
      <3>1. system \in Systems /\ system.phase = "starting"
        BY <1>3 DEF BootCheck, IInv, TypeOK
      <3>2. CASE system' = system BY <3>1, <3>2 DEF Up
      <3>3. CASE system' = Guarded
        <4>1. system' = [system EXCEPT !.phase = "guarded", !.worker = "running"]
          BY <3>3 DEF Guarded
        <4> QED BY <3>1, <4>1, SystemEdit DEF Up
      <3> QED BY <2>1, <3>2, <3>3
    <2>3. TypeOK' BY <1>3, <2>2 DEF BootCheck, IInv, TypeOK
    <2>4. JournalInv' BY <1>1, <2>2 DEF IInv, JournalInv
    <2>5. LockInv' BY <1>3 DEF BootCheck, LockInv
    <2> QED BY <1>2, <2>3, <2>4, <2>5 DEF IInv
  <1>4. CASE StartAgent
    <2>1. pc = "idle" /\ pc' = "idle" BY <1>4 DEF StartAgent, IInv, LockInv
    <2>2. system'.boot = system.boot /\ Up' /\ system' \in Systems
      <3>1. system \in Systems BY DEF IInv, TypeOK
      <3>2. system' = [system EXCEPT !.phase = "up"] BY <1>4 DEF StartAgent
      <3> QED BY <3>1, <3>2, SystemEdit DEF Up
    <2>3. TypeOK' BY <1>4, <2>2 DEF StartAgent, IInv, TypeOK
    <2>4. JournalInv' BY <1>1, <2>2 DEF IInv, JournalInv
    <2>5. LockInv' BY <2>1, <2>2 DEF LockInv, Up
    <2> QED BY <1>2, <2>3, <2>4, <2>5 DEF IInv
  <1>5. CASE Tick
    <2>1. /\ system'.boot = system.boot /\ system'.phase = system.phase
          /\ system' \in Systems
          /\ UNCHANGED <<running, pc, kills>>
      <3>1. system \in Systems BY DEF IInv, TypeOK
      <3>2. system' = [system EXCEPT !.uptime = @ + 1] /\ UNCHANGED <<running, pc, kills>>
        BY <1>5 DEF Tick
      <3> QED BY <3>1, <3>2, SystemEdit
    <2>2. TypeOK' BY <1>1, <2>1 DEF IInv, TypeOK
    <2>3. JournalInv' BY <1>1, <2>1 DEF IInv, JournalInv, Up
    <2>4. LockInv' BY <1>1, <2>1 DEF IInv, LockInv, Up
    <2> QED BY <1>2, <2>2, <2>3, <2>4 DEF IInv
  <1>6. CASE Kill
    <2>1. TypeOK'
      <3>1. kills \in Nat /\ kills' = kills + 1 BY <1>6 DEF Kill, IInv, TypeOK
      <3>2. kills' \in Nat BY <3>1
      <3> QED BY <1>6, <3>2 DEF Kill, IInv, TypeOK
    <2>2. JournalInv' /\ LockInv' BY <1>6 DEF Kill, IInv, JournalInv, LockInv, Up
    <2> QED BY <1>2, <2>1, <2>2 DEF IInv
  <1>7. CASE PowerLoss
    <2> DEFINE fresh == [phase |-> "starting", boot |-> system.boot + 1, uptime |-> 0,
                         worker |-> "none"]
    <2>0. system \in Systems BY DEF IInv, TypeOK
    <2>1. /\ system'.boot = system.boot + 1 /\ ~Up' /\ pc' = "idle"
          /\ system'.phase = "starting" /\ system' \in Systems
      <3>1. system' = fresh /\ pc' = "idle" BY <1>7 DEF PowerLoss
      <3> QED BY <2>0, <3>1, SystemEdit DEF Up
    <2>2. TypeOK' BY <1>7, <2>1 DEF PowerLoss, IInv, TypeOK
    <2>3. JournalInv'
      <3>1. CASE active = NoJournal BY <1>1, <3>1 DEF IInv, JournalInv
      <3>2. CASE active # NoJournal
        <4>1. active.boot \in Nat /\ system.boot \in Nat
          BY <1>1, <3>2, <2>0, JournalType, SystemType
        <4>2. active.boot <= system.boot /\ active.original = base /\ ended[active.id] = ""
          BY <3>2 DEF IInv, JournalInv
        <4>3. active.boot <= system.boot + 1 /\ active.boot < system.boot + 1
          BY <4>1, <4>2, Later
        <4> QED BY <1>1, <2>1, <3>2, <4>2, <4>3 DEF JournalInv
      <3> QED BY <3>1, <3>2
    <2>4. LockInv' BY <2>1 DEF LockInv
    <2> QED BY <1>2, <2>2, <2>3, <2>4 DEF IInv
  <1> QED BY <1>3, <1>4, <1>5, <1>6, <1>7

\* Every step keeps the invariant.
LEMMA StepInv == IInv /\ [Next]_vars => IInv'
  <1> SUFFICES ASSUME IInv, [Next]_vars PROVE IInv'
    OBVIOUS
  <1>1. CASE UNCHANGED vars
    BY <1>1 DEF vars, IInv, TypeOK, JournalInv, LockInv, FenceInv, Up
  <1>2. CASE Next
    BY <1>2, ArmInv, ActivateInv, LockTakenInv, SwapInv, CommitInv, FencedInv,
       RestoreInv, CloseInv, SystemInv
    DEF Next, Operator, Running
  <1> QED BY <1>1, <1>2

\* The invariant holds in every behaviour of the guard.
THEOREM Invariance == Spec => []IInv
  BY InitInv, StepInv, PTL DEF Spec

\* The guard keeps the types of its files and of its process state.
THEOREM GuardTypeCorrect == Spec => []TypeOK
  <1>1. IInv => TypeOK BY DEF IInv
  <1> QED BY <1>1, Invariance, PTL

\* Wherever arm, apply, confirm, rollback or a restore is killed or loses power,
\* whatever copy or restart fails: the file is the one confirmed last, or `active`
\* holds the one confirmed last (agent-config-guard.sh:24 "Keep the journal active
\* until both the file and service are recovered").
THEOREM AlwaysRecoverable == Spec => []Recoverable
  <1>1. IInv => Recoverable BY DEF IInv, JournalInv, Recoverable
  <1> QED BY <1>1, Invariance, PTL

\* A change whose rollback has expired the deadline is never confirmed, wherever
\* the rollback is interrupted (agent-config-guard.sh:94-98).
THEOREM RollbackIsFinal == Spec => []RollbackFences
  <1>1. IInv => RollbackFences
    <2> SUFFICES ASSUME IInv, NEW i \in fenced PROVE ended[i] # "committed"
      BY DEF RollbackFences
    <2> QED BY DEF IInv, FenceInv, JournalInv
  <1> QED BY <1>1, Invariance, PTL

\* restored-<id> appears, while the system is up, only when the agent runs with
\* the file confirmed last (agent-config-guard.sh:27-32).
THEOREM RestoredMeansRunning == Spec => RestoredRuns
  <1>1. IInv /\ [Next]_vars
          => (\A i \in Changes : ended[i] # "restored" /\ ended'[i] = "restored" /\ Up
                => running' = base /\ target' = base)
    <2> SUFFICES ASSUME IInv, [Next]_vars, NEW i \in Changes,
                        ended[i] # "restored", ended'[i] = "restored", Up
                 PROVE  running' = base /\ target' = base
      OBVIOUS
    <2>1. Close
      <3>1. ended \in [Changes -> {"", "prepared", "committed", "restored"}]
        BY DEF IInv, TypeOK
      <3>2. ended' # ended OBVIOUS
      <3>3. ASSUME NEW k \in Changes, NEW c \in Contents, Arm(k, c) PROVE FALSE
        BY <3>1, <3>3 DEF Arm
      <3>4. ~Activate BY <3>1 DEF Activate
      <3>5. ~Commit BY <3>1 DEF Commit
      <3> QED BY <3>2, <3>3, <3>4, <3>5
          DEF Next, Operator, Running, vars, Apply, Confirm, Rollback, Check, Swap, Restart,
              Fence, PutBack, Again, BootCheck, StartAgent, Tick, Kill, PowerLoss
    <2>2. running = target /\ target = base
      BY <2>1 DEF Close, IInv, LockInv, JournalInv
    <2> QED BY <2>1, <2>2 DEF Close
  <1> QED BY <1>1, Invariance, PTL DEF Spec, RestoredRuns

\* The agent of a new boot starts with the configuration confirmed last: S18 has put
\* it back, whatever the boot before left behind, unless the restore failed and no
\* worker was registered (agent-config-guard.sh:17-18, 35-44;
\* agent-config-guard.init:3-6).  The strengthening is that there is no worker while
\* S18 runs.
THEOREM BootIsSafe == Spec => []BootRunsConfirmed
  <1> DEFINE BootInv == /\ BootRunsConfirmed
                        /\ system.phase = "starting" => system.worker = "none"
  <1>1. Init => BootInv
    <2> SUFFICES ASSUME Init PROVE BootInv
      OBVIOUS
    <2> QED BY DEF Init, BootRunsConfirmed
  <1>2. IInv /\ BootInv /\ [Next]_vars => BootInv'
    <2> SUFFICES ASSUME IInv, BootInv, [Next]_vars PROVE BootInv'
      OBVIOUS
    <2>1. system \in Systems BY DEF IInv, TypeOK
    <2>2. CASE BootCheck
      <3>1. ~Up /\ UNCHANGED <<target, base, active>> /\ system.phase = "starting"
        BY <2>2 DEF BootCheck, Up
      <3>2. CASE system' = system
        BY <3>1, <3>2 DEF BootRunsConfirmed
      <3>3. CASE system' # system
        <4>1. system' = [system EXCEPT !.phase = "guarded", !.worker = "running"]
          BY <2>2, <3>3 DEF BootCheck, Guarded
        <4>2. system'.phase = "guarded" BY <2>1, <4>1, SystemEdit
        <4>3. active = NoJournal \/ ~Expired BY <2>2, <3>3 DEF BootCheck
        <4>4. active # NoJournal => Expired
          <5> SUFFICES ASSUME active # NoJournal PROVE active.boot # system.boot
            BY DEF Expired
          <5>1. active.boot \in Nat /\ system.boot \in Nat
            BY <2>1, JournalType, SystemType DEF IInv, TypeOK
          <5>2. active.boot < system.boot BY <3>1 DEF IInv, JournalInv
          <5> QED BY <5>1, <5>2
        <4>5. target = base BY <4>3, <4>4 DEF IInv, JournalInv
        <4> QED BY <3>1, <4>2, <4>5 DEF BootRunsConfirmed
      <3> QED BY <3>2, <3>3
    <2>3. CASE Close
      <3>1. target' = base' BY <2>3 DEF Close, IInv, LockInv, JournalInv
      <3>2. system' = system \/ system'.phase = "guarded"
        BY <2>1, <2>3, SystemEdit DEF Close, Guarded
      <3> QED BY <3>1, <3>2 DEF BootRunsConfirmed
    <2>4. CASE PutBack
      <3>1. CASE system' = system
        <4>1. system.phase # "guarded" BY <2>4 DEF PutBack, IInv, LockInv
        <4> QED BY <3>1, <4>1 DEF BootRunsConfirmed
      <3>2. CASE system' # system
        <4>1. ~Up /\ system' = [system EXCEPT !.phase = "guarded"]
          BY <2>4, <3>2 DEF PutBack, Failed
        <4>2. system.phase = "starting"
          BY <2>1, <2>4, <4>1 DEF PutBack, IInv, LockInv, Up, Systems
        <4>3. system'.worker = "none" /\ system'.phase = "guarded"
          BY <2>1, <4>1, <4>2, SystemEdit
        <4> QED BY <4>3 DEF BootRunsConfirmed
      <3> QED BY <3>1, <3>2
    <2>5. CASE StartAgent
      <3>1. system' = [system EXCEPT !.phase = "up"] BY <2>5 DEF StartAgent
      <3>2. system'.phase = "up" BY <2>1, <3>1, SystemEdit
      <3> QED BY <3>2 DEF BootRunsConfirmed
    <2>6. CASE Tick
      <3>1. system' = [system EXCEPT !.uptime = @ + 1] /\ UNCHANGED <<target, base>>
        BY <2>6 DEF Tick
      <3>2. system'.phase = system.phase /\ system'.worker = system.worker
        BY <2>1, <3>1, SystemEdit
      <3> QED BY <3>1, <3>2 DEF BootRunsConfirmed
    <2>7. CASE PowerLoss
      <3>1. system'.phase = "starting" /\ system'.worker = "none" BY <2>7 DEF PowerLoss
      <3> QED BY <3>1 DEF BootRunsConfirmed
    <2>8. CASE ~(BootCheck \/ Close \/ PutBack \/ StartAgent \/ Tick \/ PowerLoss)
      <3>1. system' = system
        BY <2>8 DEF Next, Operator, Running, vars, Arm, Apply, Confirm, Rollback, Check,
              Activate, Swap, Restart, Commit, Fence, Again, Kill
      <3>2. system.phase = "guarded" => UNCHANGED <<target, base>>
        <4> SUFFICES ASSUME system.phase = "guarded" PROVE UNCHANGED <<target, base>>
          OBVIOUS
        <4>1. pc = "idle" /\ ~Up BY DEF IInv, LockInv, Up
        <4> QED BY <2>8, <4>1 DEF Next, Operator, Running, vars, Free, Arm, Apply, Confirm,
                   Rollback, Check, Activate, Swap, Restart, Commit, Fence, Again, Kill
      <3> QED BY <3>1, <3>2 DEF BootRunsConfirmed
    <2> QED BY <2>2, <2>3, <2>4, <2>5, <2>6, <2>7, <2>8
  <1>3. BootInv => BootRunsConfirmed OBVIOUS
  <1> HIDE DEF BootInv
  <1> QED BY <1>1, <1>2, <1>3, Invariance, PTL DEF Spec
=============================================================================
