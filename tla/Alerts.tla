-------------------------------- MODULE Alerts --------------------------------
(***************************************************************************)
(* The reactive alert engine: incidents opened by a sweep over silent       *)
(* devices and by telemetry, resolved by telemetry, and the proactive Case  *)
(* that follows each incident.  A report is stored in one goroutine and     *)
(* processed in another, the sweep runs in a third; opening an incident takes three statements and     *)
(* resolving one takes two, so that a sweep may finish what it read of a    *)
(* device that is back already.                                             *)
(***************************************************************************)
EXTENDS Naturals, FiniteSets

CONSTANTS Devices, None,
          Reports,    \* reports being processed at a time (bound)
          Silence,    \* ticks of silence after which a device counts as down
          MaxCrashes  \* restarts in a behaviour (bound)

Kinds == {"NODE_DOWN", "SIGNAL_CRITICAL", "CPU_OVERLOAD"}
Openers == {"sweep"} \cup Reports

VARIABLES
    age,       \* ticks since last_seen_at
    upsert,    \* device whose last_seen_at a report is still to write, or None
    rows,      \* devices the sweep in progress still has to look at
    job,       \* where a goroutine is: None or [d, pc, kind it opens or resolves]
    incident,  \* OPEN rows in incidents
    case,      \* a proactive Case of this incident type is live
    lastCPU,   \* lastCPULoad: there is a previous sample and it was over the limit
    crashes

vars == <<age, upsert, rows, job, incident, case, lastCPU, crashes>>

TypeOK ==
    /\ age \in [Devices -> 0..Silence]
    /\ upsert \in [Reports -> Devices \cup {None}]
    /\ rows \subseteq Devices
    /\ job \in [Openers -> {None} \cup
            [d : Devices, kind : Kinds, pc : {"up", "signal", "cpu", "insert", "case", "resolve"}]]
    /\ incident \in [Devices -> [Kinds -> Nat]]
    /\ case \in [Devices -> [Kinds -> BOOLEAN]]
    /\ lastCPU \in [Devices -> BOOLEAN]
    /\ crashes \in 0..MaxCrashes

Init ==
    /\ age = [d \in Devices |-> 0] /\ rows = {}
    /\ upsert = [r \in Reports |-> None]
    /\ job = [o \in Openers |-> None]
    /\ incident = [d \in Devices |-> [k \in Kinds |-> 0]]
    /\ case = [d \in Devices |-> [k \in Kinds |-> FALSE]]
    /\ lastCPU = [d \in Devices |-> FALSE]
    /\ crashes = 0

At(o, pc) == job[o] # None /\ job[o].pc = pc

-----------------------------------------------------------------------------
(* Opening and resolving *)

\* Where a goroutine goes on after an incident of this kind.
After(o, d, kind) ==
    IF o \in Reports /\ kind = "NODE_DOWN" THEN [d |-> d, kind |-> "SIGNAL_CRITICAL", pc |-> "signal"]
    ELSE IF o \in Reports /\ kind = "SIGNAL_CRITICAL" THEN [d |-> d, kind |-> kind, pc |-> "cpu"]
    ELSE None

\* OpenIncident looks for an OPEN row first ...
Opens(o, d, kind) ==
    job' = [job EXCEPT ![o] = IF incident[d][kind] > 0 THEN After(o, d, kind)
                              ELSE [d |-> d, kind |-> kind, pc |-> "insert"]]

\* ... then inserts one ...
Insert(o) ==
    /\ At(o, "insert")
    /\ incident' = [incident EXCEPT ![job[o].d][job[o].kind] = @ + 1]
    /\ job' = [job EXCEPT ![o].pc = "case"]
    /\ UNCHANGED <<age, upsert, rows, case, lastCPU, crashes>>

\* ... and opens or refreshes the Case.
OpenCase(o) ==
    /\ At(o, "case")
    /\ case' = [case EXCEPT ![job[o].d][job[o].kind] = TRUE]
    /\ job' = [job EXCEPT ![o] = After(o, @.d, @.kind)]
    /\ UNCHANGED <<age, upsert, rows, incident, lastCPU, crashes>>

\* Mutant of ResolveIncident: the Case is resolved only along with an OPEN incident.
ResolveWithIncident(r, d, kind) ==
    /\ incident' = [incident EXCEPT ![d][kind] = 0]
    /\ job' = [job EXCEPT ![r] = IF incident[d][kind] = 0 THEN After(r, d, kind)
                                 ELSE [d |-> d, kind |-> kind, pc |-> "resolve"]]

\* ResolveIncident closes every OPEN row of the type ...
ResolveIncident(r, d, kind) ==
    /\ incident' = [incident EXCEPT ![d][kind] = 0]
    /\ job' = [job EXCEPT ![r] = [d |-> d, kind |-> kind, pc |-> "resolve"]]

\* ... and, whether there was one or not, the live Case.
ResolveCase(r) ==
    /\ At(r, "resolve")
    /\ case' = [case EXCEPT ![job[r].d][job[r].kind] = FALSE]
    /\ job' = [job EXCEPT ![r] = After(r, @.d, @.kind)]
    /\ UNCHANGED <<age, upsert, rows, incident, lastCPU, crashes>>

-----------------------------------------------------------------------------
(* ProcessTelemetry *)

\* The handler starts two goroutines: one writes last_seen_at ...
Report(r, d) ==
    /\ job[r] = None /\ upsert[r] = None
    /\ upsert' = [upsert EXCEPT ![r] = d]
    /\ job' = [job EXCEPT ![r] = [d |-> d, kind |-> "NODE_DOWN", pc |-> "up"]]
    /\ UNCHANGED <<age, rows, incident, case, lastCPU, crashes>>

UpsertDeviceState(r) ==
    /\ upsert[r] # None
    /\ age' = [age EXCEPT ![upsert[r]] = 0]
    /\ upsert' = [upsert EXCEPT ![r] = None]
    /\ UNCHANGED <<rows, job, incident, case, lastCPU, crashes>>

\* ... the other one evaluates the report: the device is up ...
NodeUp(r) ==
    /\ At(r, "up")
    /\ ResolveIncident(r, job[r].d, "NODE_DOWN")
    /\ UNCHANGED <<age, upsert, rows, case, lastCPU, crashes>>

\* ... has a weak signal or not ...
Signal(r) ==
    /\ At(r, "signal")
    /\ \/ Opens(r, job[r].d, "SIGNAL_CRITICAL") /\ UNCHANGED incident
       \/ ResolveIncident(r, job[r].d, "SIGNAL_CRITICAL")
    /\ UNCHANGED <<age, upsert, rows, case, lastCPU, crashes>>

\* cpuMu is held while the incident is opened or resolved.
MuFree == \A r \in Reports : job[r] # None => job[r].kind # "CPU_OVERLOAD"

\* ... and a normal load resolves the overload, the second high one in a row opens it.
Cpu(r, high) ==
    /\ At(r, "cpu") /\ MuFree
    /\ LET d == job[r].d IN
         /\ lastCPU' = [lastCPU EXCEPT ![d] = high]
         /\ \/ /\ high /\ lastCPU[d]
               /\ Opens(r, d, "CPU_OVERLOAD") /\ UNCHANGED incident
            \/ /\ high /\ ~lastCPU[d]
               /\ job' = [job EXCEPT ![r] = None] /\ UNCHANGED incident
            \/ ~high /\ ResolveIncident(r, d, "CPU_OVERLOAD")
    /\ UNCHANGED <<age, upsert, rows, case, crashes>>

\* pruneCPULoads
Prune(d) ==
    /\ lastCPU[d] /\ age[d] = Silence /\ MuFree
    /\ lastCPU' = [lastCPU EXCEPT ![d] = FALSE]
    /\ UNCHANGED <<age, upsert, rows, job, incident, case, crashes>>

-----------------------------------------------------------------------------
(* The ticker of the alert engine *)

\* checkDownNodes reads the silent devices ...
SweepBegin ==
    /\ rows = {} /\ job["sweep"] = None
    /\ rows' = {d \in Devices : age[d] = Silence} /\ rows' # {}
    /\ UNCHANGED <<age, upsert, job, incident, case, lastCPU, crashes>>

\* ... and opens an incident for one after the other.
SweepOne(d) ==
    /\ d \in rows /\ job["sweep"] = None
    /\ rows' = rows \ {d}
    /\ Opens("sweep", d, "NODE_DOWN")
    /\ UNCHANGED <<age, upsert, incident, case, lastCPU, crashes>>

Tick(d) ==
    /\ age[d] < Silence
    /\ age' = [age EXCEPT ![d] = @ + 1]
    /\ UNCHANGED <<upsert, rows, job, incident, case, lastCPU, crashes>>

Crash ==
    /\ crashes < MaxCrashes /\ crashes' = crashes + 1
    /\ job' = [o \in Openers |-> None] /\ upsert' = [r \in Reports |-> None] /\ rows' = {}
    /\ lastCPU' = [d \in Devices |-> FALSE]
    /\ UNCHANGED <<age, incident, case>>

Sweep == SweepBegin \/ \E d \in Devices : SweepOne(d)
Work(o) ==
    \/ Insert(o) \/ OpenCase(o)
    \/ /\ o \in Reports
       /\ NodeUp(o) \/ Signal(o) \/ ResolveCase(o) \/ \E high \in BOOLEAN : Cpu(o, high)
Reported(d) == \E r \in Reports : Report(r, d)

Next ==
    \/ \E o \in Openers : Work(o)
    \/ \E r \in Reports : UpsertDeviceState(r)
    \/ \E d \in Devices : Reported(d) \/ Prune(d) \/ Tick(d)
    \/ Sweep \/ Crash

\* The ticker fires again and again and goroutines run on; a device need not report.
Fairness ==
    /\ WF_vars(Sweep) /\ \A o \in Openers : WF_vars(Work(o))
    /\ \A r \in Reports : WF_vars(UpsertDeviceState(r))

Spec == Init /\ [][Next]_vars /\ Fairness

-----------------------------------------------------------------------------
(* Properties *)

Up(d) == age[d] < Silence

\* A device that is silent for good ends up with an incident that stays open, and
\* one that keeps reporting with neither incident nor Case, even when the sweep or
\* a restart cuts in between the statements that open and resolve them.
AlarmsSettle ==
    \A d \in Devices :
        /\ <>[](~Up(d)) => <>[](incident[d]["NODE_DOWN"] > 0)
        /\ (<>[]Up(d) /\ []<><<Reported(d)>>_vars) =>
              <>[](incident[d]["NODE_DOWN"] = 0 /\ ~case[d]["NODE_DOWN"])

\* "Idempotent: check if OPEN exists": an incident is opened once.
OneIncident == \A d \in Devices, k \in Kinds : incident[d][k] <= 1
=============================================================================
