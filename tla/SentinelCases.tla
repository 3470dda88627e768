---------------------------- MODULE SentinelCases ----------------------------
(***************************************************************************)
(* Sentinel Cases: how triggers open them, how they are investigated by     *)
(* automatic jobs and by operator chat runs, how recovery retries what a    *)
(* restart interrupted, how incidents resolve them and how the retention    *)
(* sweep removes them.                                                      *)
(*                                                                         *)
(* Legacy Cases come from incidents and flow sense (OpenSentinelCase), the  *)
(* others from the log detectors (OpenSentinelCasePreservingEvidence) or    *)
(* from a chat.  A Case id is used for one row.  Time is the age of a job   *)
(* and of a throttle entry, in a unit such that Timeout < Throttle, as      *)
(* three minutes are less than five.                                        *)
(***************************************************************************)
EXTENDS Integers, Sequences, FiniteSets, SequencesExt

CONSTANTS Cases, Runs, Slots, None,
          Throttle, Timeout, LedgerLimit,
          MaxFaults    \* restarts and database errors in a behaviour (bound)

VARIABLES
    legacy,    \* the Cases whose source column is one of the legacy opener's
    case,      \* [status, resolvedAt, ledger] of a Case row
    throttle,  \* sentinelCaseRuns: age of the entry, or None; in memory
    job,       \* automatic investigations in flight; in memory
    run,       \* rows of sentinel_runs
    chat,      \* the goroutine or request of a run; in memory
    faults

vars == <<legacy, case, throttle, job, run, chat, faults>>

Auto == "automation"
Live == {"OPEN", "INVESTIGATING"}
NoCase == [status |-> "none", resolvedAt |-> FALSE, ledger |-> <<>>]

CaseRow == [status : Live \cup {"none", "RESOLVED", "gone"}, resolvedAt : BOOLEAN, ledger : Seq(Runs \cup {Auto})]
JobState == [case : Cases, age : 0..Timeout, legacy : BOOLEAN,
             pc : {"begin", "model", "persist", "finish"}, ev : BOOLEAN]
RunRow == [case : Cases, ev : BOOLEAN, status : {"QUEUED", "RUNNING", "COMPLETED", "FAILED"}]
ChatState == [async : BOOLEAN, pc : {"claim", "model", "persist", "complete", "reopen"}]

TypeOK ==
    /\ legacy \subseteq Cases
    /\ case \in [Cases -> CaseRow]
    /\ throttle \in [Cases -> (0..Throttle) \cup {None}]
    /\ job \in [Slots -> {None} \cup JobState]
    /\ run \in [Runs -> {None} \cup RunRow]
    /\ chat \in [Runs -> {None} \cup ChatState]
    /\ faults \in 0..MaxFaults

Init ==
    /\ legacy \in SUBSET Cases
    /\ case = [c \in Cases |-> NoCase]
    /\ throttle = [c \in Cases |-> None]
    /\ job = [s \in Slots |-> None]
    /\ run = [r \in Runs |-> None] /\ chat = [r \in Runs |-> None]
    /\ faults = 0

Exists(c) == case[c].status \notin {"none", "gone"}
SetStatus(c, st) == IF Exists(c) THEN [case EXCEPT ![c].status = st] ELSE case
Fault == faults < MaxFaults /\ faults' = faults + 1

-----------------------------------------------------------------------------
(* Opening *)

\* The age of an entry matters no more beyond five minutes.
Young(c) == throttle[c] # None /\ throttle[c] < Throttle

\* Mutant of Coalesced: an entry of the map is never looked at again.
CoalescedForever(c) == throttle[c] # None

\* An entry younger than five minutes keeps another investigation from starting.
Coalesced(c) == Young(c)

\* QueueSentinelCaseInvestigation (legacy) and QueueSentinelCaseContextInvestigation.
Queue(c, old) ==
    IF Coalesced(c) THEN UNCHANGED <<throttle, job>>
    ELSE /\ \E s \in Slots : job[s] = None
         /\ throttle' = [throttle EXCEPT ![c] = 0]
         /\ job' = [job EXCEPT ![CHOOSE s \in Slots : job[s] = None] =
                [case |-> c, age |-> 0, legacy |-> old, pc |-> "begin", ev |-> FALSE]]

\* OpenIncident, FlowMonitor: a live Case gets the trigger's evidence in place
\* of its own, else a new row.
OpenSentinelCase(c) ==
    /\ c \in legacy /\ case[c].status \in Live \cup {"none"}
    /\ case' = [case EXCEPT ![c] = IF Exists(c) THEN [@ EXCEPT !.ledger = <<>>]
                                               ELSE [@ EXCEPT !.status = "OPEN"]]
    /\ Queue(c, TRUE)
    /\ UNCHANGED <<legacy, run, chat, faults>>

\* Mutant of OpenSentinelCasePreservingEvidence: a repeated trigger replaces the evidence.
OpenReplacingEvidence(c) ==
    /\ c \notin legacy /\ case[c].status \in Live \cup {"none"}
    /\ case' = [case EXCEPT ![c] = IF Exists(c) THEN [@ EXCEPT !.ledger = <<>>]
                                               ELSE [@ EXCEPT !.status = "OPEN"]]
    /\ Queue(c, FALSE)
    /\ UNCHANGED <<legacy, run, chat, faults>>

\* AnalyzeLogs: a repeated trigger only refreshes severity and summary.
OpenSentinelCasePreservingEvidence(c) ==
    /\ c \notin legacy /\ case[c].status \in Live \cup {"none"}
    /\ case' = IF Exists(c) THEN case ELSE [case EXCEPT ![c].status = "OPEN"]
    /\ Queue(c, FALSE)
    /\ UNCHANGED <<legacy, run, chat, faults>>

\* recoverSentinelCaseContexts, every minute
Recover(c) ==
    /\ case[c].status = "INVESTIGATING" /\ ~Coalesced(c)
    /\ Queue(c, FALSE)
    /\ UNCHANGED <<legacy, case, run, chat, faults>>

-----------------------------------------------------------------------------
(* Automatic investigations *)

Ends(s) == job' = [job EXCEPT ![s] = None]
At(s, pc) == job[s] # None /\ job[s].pc = pc

\* The Case becomes INVESTIGATING whatever it was; a deleted one ends the job.
JobBegin(s) ==
    /\ At(s, "begin")
    /\ LET c == job[s].case IN
         /\ case' = SetStatus(c, "INVESTIGATING")
         /\ IF Exists(c) THEN job' = [job EXCEPT ![s].pc = "model"] ELSE Ends(s)
    /\ UNCHANGED <<legacy, throttle, run, chat, faults>>

\* The investigation (SentinelInvestigation) fails and the Case is OPEN again,
\* or brings an answer with or without evidence.
JobModel(s) ==
    /\ At(s, "model")
    /\ \/ case' = SetStatus(job[s].case, "OPEN") /\ Ends(s)
       \/ \E ev \in BOOLEAN :
            job' = [job EXCEPT ![s].pc = "persist", ![s].ev = ev] /\ UNCHANGED case
    /\ UNCHANGED <<legacy, throttle, run, chat, faults>>

\* PersistSentinelCaseEvidence: under FOR UPDATE the run is appended to the
\* ledger, of which the newest LedgerLimit runs are kept.
Newest(ledger) == IF Len(ledger) > LedgerLimit THEN Tail(ledger) ELSE ledger
Persist(c, r, ev) ==
    IF ev THEN [case EXCEPT ![c].ledger = Newest(Append(@, r))] ELSE case

\* InvestigateSentinelCase writes its own evidence over the Case's;
\* InvestigateSentinelCaseContext appends, and when that fails it stops with the
\* Case still INVESTIGATING.
JobPersist(s) ==
    /\ At(s, "persist")
    /\ LET c == job[s].case IN
         \/ /\ job[s].legacy
            /\ case' = IF Exists(c) THEN [case EXCEPT ![c].status = "OPEN", ![c].ledger = <<>>] ELSE case
            /\ Ends(s) /\ UNCHANGED faults
         \/ /\ ~job[s].legacy /\ (Exists(c) \/ ~job[s].ev)
            /\ case' = Persist(c, Auto, job[s].ev)
            /\ job' = [job EXCEPT ![s].pc = "finish"] /\ UNCHANGED faults
         \/ ~job[s].legacy /\ job[s].ev /\ ~Exists(c) /\ Ends(s) /\ UNCHANGED <<case, faults>>
         \/ ~job[s].legacy /\ job[s].ev /\ Fault /\ Ends(s) /\ UNCHANGED case
    /\ UNCHANGED <<legacy, throttle, run, chat>>

\* The Case is OPEN again, whatever happened to it meanwhile.
JobFinish(s) ==
    /\ At(s, "finish")
    /\ case' = SetStatus(job[s].case, "OPEN") /\ Ends(s)
    /\ UNCHANGED <<legacy, throttle, run, chat, faults>>

-----------------------------------------------------------------------------
(* Operator chat *)

\* QueueSentinelCaseMessageForSite on a Case the operator names or the
\* conversation already has, or on a new one.
Post(r, c, async) ==
    /\ run[r] = None /\ case[c].status # "gone"
    /\ case' = IF Exists(c) THEN case ELSE [case EXCEPT ![c].status = "OPEN"]
    /\ Exists(c) \/ c \notin legacy
    /\ run' = [run EXCEPT ![r] = [case |-> c, ev |-> FALSE, status |-> "QUEUED"]]
    /\ chat' = [chat EXCEPT ![r] = [async |-> async, pc |-> "claim"]]
    /\ UNCHANGED <<legacy, throttle, job, faults>>

ChatAt(r, pc) == chat[r] # None /\ chat[r].pc = pc

\* RunSentinelCaseMessage marks the run FAILED; the synchronous handler only
\* answers the request.
ChatFails(r) ==
    /\ chat' = [chat EXCEPT ![r] = None]
    /\ run' = IF chat[r].async THEN [run EXCEPT ![r].status = "FAILED"] ELSE run
    /\ UNCHANGED case

ChatClaim(r) ==
    /\ ChatAt(r, "claim")
    /\ run' = [run EXCEPT ![r].status = "RUNNING"]
    /\ chat' = [chat EXCEPT ![r].pc = "model"]
    /\ UNCHANGED <<legacy, case, throttle, job, faults>>

ChatModel(r) ==
    /\ ChatAt(r, "model")
    /\ \/ ChatFails(r)
       \/ /\ Exists(run[r].case)
          /\ \E ev \in BOOLEAN : run' = [run EXCEPT ![r].ev = ev]
          /\ chat' = [chat EXCEPT ![r].pc = "persist"] /\ UNCHANGED case
    /\ UNCHANGED <<legacy, throttle, job, faults>>

ChatPersist(r) ==
    /\ ChatAt(r, "persist")
    /\ LET c == run[r].case IN
         \/ /\ Exists(c) \/ ~run[r].ev
            /\ case' = Persist(c, r, run[r].ev)
            /\ chat' = [chat EXCEPT ![r].pc = "complete"] /\ UNCHANGED <<run, faults>>
         \/ run[r].ev /\ ~Exists(c) /\ ChatFails(r) /\ UNCHANGED faults
         \/ run[r].ev /\ Fault /\ ChatFails(r)
    /\ UNCHANGED <<legacy, throttle, job>>

\* Message, proposal and the run's row; any of them may fail.
ChatComplete(r) ==
    /\ ChatAt(r, "complete")
    /\ \/ /\ run' = [run EXCEPT ![r].status = "COMPLETED"]
          /\ chat' = [chat EXCEPT ![r].pc = "reopen"] /\ UNCHANGED <<case, faults>>
       \/ Fault /\ ChatFails(r)
    /\ UNCHANGED <<legacy, throttle, job>>

ChatReopen(r) ==
    /\ ChatAt(r, "reopen")
    /\ case' = SetStatus(run[r].case, "OPEN")
    /\ chat' = [chat EXCEPT ![r] = None]
    /\ UNCHANGED <<legacy, run, throttle, job, faults>>

-----------------------------------------------------------------------------
(* Resolution, retention, time and restarts *)

\* ResolveIncident; the investigation in flight is not told.
ResolveIncident(c) ==
    /\ c \in legacy /\ case[c].status \in Live
    /\ case' = [case EXCEPT ![c].status = "RESOLVED", ![c].resolvedAt = TRUE]
    /\ UNCHANGED <<legacy, throttle, job, run, chat, faults>>

\* SweepSentinelHistory looks at resolved_at only.
Swept(c) == Exists(c) /\ case[c].resolvedAt
Sweep(c) ==
    /\ Swept(c)
    /\ case' = [case EXCEPT ![c] = [NoCase EXCEPT !.status = "gone"]]
    /\ UNCHANGED <<legacy, throttle, job, run, chat, faults>>

\* A job spends at most Timeout in its investigation, and the statements around
\* it take no time on this scale.
Tick ==
    /\ \A s \in Slots : job[s] # None => job[s].pc = "model" /\ job[s].age < Timeout
    /\ (\E s \in Slots : job[s] # None) \/ (\E c \in Cases : Young(c))
    /\ job' = [s \in Slots |-> IF job[s] = None THEN None ELSE [job[s] EXCEPT !.age = @ + 1]]
    /\ throttle' = [c \in Cases |-> IF Young(c) THEN throttle[c] + 1 ELSE throttle[c]]
    /\ UNCHANGED <<legacy, case, run, chat, faults>>

Crash ==
    /\ Fault
    /\ throttle' = [c \in Cases |-> None]
    /\ job' = [s \in Slots |-> None]
    /\ chat' = [r \in Runs |-> None]
    /\ UNCHANGED <<legacy, case, run>>

Job(s) == JobBegin(s) \/ JobModel(s) \/ JobPersist(s) \/ JobFinish(s)
Chat(r) == ChatClaim(r) \/ ChatModel(r) \/ ChatPersist(r) \/ ChatComplete(r) \/ ChatReopen(r)

Next ==
    \/ \E c \in Cases : \/ OpenSentinelCase(c) \/ OpenSentinelCasePreservingEvidence(c)
                        \/ Recover(c) \/ ResolveIncident(c) \/ Sweep(c)
    \/ \E r \in Runs : Chat(r) \/ \E c \in Cases, async \in BOOLEAN : Post(r, c, async)
    \/ \E s \in Slots : Job(s)
    \/ Tick \/ Crash

\* Goroutines run on, the clock goes on and the recovery ticker fires; nothing
\* makes triggers, operators or faults happen.
Fairness ==
    /\ WF_vars(Tick)
    /\ \A c \in Cases : WF_vars(Recover(c))
    /\ \A s \in Slots : WF_vars(Job(s))
    /\ \A r \in Runs : WF_vars(Chat(r))

Spec == Init /\ [][Next]_vars /\ Fairness

-----------------------------------------------------------------------------
(* Properties *)

\* However triggers, recovery and restarts fall, one Case is never under two
\* automatic investigations at once: the throttle outlives the investigation's
\* timeout, and the map and the goroutines are lost together.
OneInvestigation ==
    \A s, t \in Slots : (s # t /\ job[s] # None /\ job[t] # None) => job[s].case # job[t].case

\* The evidence an answer to an operator rests on stays in its Case's ledger:
\* only newer runs push it out.  (Cases of the legacy opener lose it.)
AnswersBacked ==
    \A r \in Runs :
        (/\ run[r] # None /\ run[r].status = "COMPLETED" /\ run[r].ev
         /\ run[r].case \notin legacy /\ Exists(run[r].case))
        => LET ledger == case[run[r].case].ledger
           IN  r \in Range(ledger) \/ Len(ledger) = LedgerLimit

\* A Case does not stay INVESTIGATING: a lost, failed or interrupted
\* investigation is retried until it ends, is resolved or is swept.
InvestigatingEnds ==
    \A c \in Cases : case[c].status = "INVESTIGATING" ~> case[c].status # "INVESTIGATING"

\* "preserving unresolved cases": the sweep removes resolved Cases only.
UnresolvedKept ==
    [][\A c \in Cases : case[c].status \in Live => case'[c].status # "gone"]_vars
=============================================================================
