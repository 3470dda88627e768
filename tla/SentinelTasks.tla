---------------------------- MODULE SentinelTasks ----------------------------
(***************************************************************************)
(* Optional model work of one Case: the sentinel_model_tasks queue, the one *)
(* worker that claims its rows, and the curation that leaves memory         *)
(* candidates behind.  A try that fails half way is repeated from the       *)
(* start, so that its candidates are written again; one that is cut off, or *)
(* whose requeue fails, stays RUNNING, which nothing claims.                *)
(***************************************************************************)
EXTENDS Integers, FiniteSets, FiniteSetsExt

CONSTANTS Tasks, Classes, Statements, None,
          MaxFailures    \* tries that fail or are cut off in a behaviour (bound)

VARIABLES
    task,      \* row: [class, status], or None
    due,       \* queued tasks whose not_before has passed
    worker,    \* what the worker does: None or [task, pc, drafts]
    memory,    \* active candidates per statement
    lost,      \* tasks whose try ended without a write of their row (history)
    failures

vars == <<task, due, worker, memory, lost, failures>>

Ready == {"QUEUED", "RUNNING"}

TypeOK ==
    /\ task \in [Tasks -> {None} \cup [class : Classes, status : Ready \cup {"COMPLETED"}]]
    /\ due \subseteq Tasks /\ lost \subseteq Tasks
    /\ worker \in {None} \cup [task : Tasks, pc : {"model", "import", "complete"},
                               drafts : SUBSET Statements]
    /\ memory \in [Statements -> Nat]
    /\ failures \in 0..MaxFailures

Init ==
    /\ task = [k \in Tasks |-> None] /\ due = {} /\ worker = None /\ lost = {}
    /\ memory = [s \in Statements |-> 0] /\ failures = 0

ActiveOf(class) == {k \in Tasks : task[k] # None /\ task[k].class = class /\ task[k].status \in Ready}

\* QueueSentinelModelTask: the partial unique index lets one active task of a
\* class exist; a second request is answered with that one.
QueueSentinelModelTask(k, class) ==
    /\ task[k] = None /\ ActiveOf(class) = {}
    /\ task' = [task EXCEPT ![k] = [class |-> class, status |-> "QUEUED"]]
    /\ due' = due \cup {k}
    /\ UNCHANGED <<worker, memory, lost, failures>>

\* ClaimSentinelModelTask
Claim(k) ==
    /\ worker = None /\ k \in due
    /\ task' = [task EXCEPT ![k].status = "RUNNING"]
    /\ due' = due \ {k}
    /\ worker' = [task |-> k, pc |-> "model", drafts |-> {}]
    /\ UNCHANGED <<memory, lost, failures>>

\* executeSentinelOptionalModelTask: context, model and evidence; a curation
\* goes on with whatever statements the model drafted.
Model ==
    /\ worker # None /\ worker.pc = "model"
    /\ \E drafts \in SUBSET Statements :
         /\ task[worker.task].class # "curation" => drafts = {}
         /\ worker' = [worker EXCEPT !.pc = "import", !.drafts = drafts]
    /\ UNCHANGED <<task, due, memory, lost, failures>>

\* CreateSentinelLearnedMemoryCandidate reuses an equal active candidate.
Known(s) == memory[s] > 0

\* importSentinelCurationCandidates, draft by draft.
Import ==
    /\ worker # None /\ worker.pc = "import"
    /\ \/ \E s \in worker.drafts :
            /\ memory' = IF Known(s) THEN memory ELSE [memory EXCEPT ![s] = @ + 1]
            /\ worker' = [worker EXCEPT !.drafts = @ \ {s}]
       \/ /\ worker.drafts = {} /\ worker' = [worker EXCEPT !.pc = "complete"]
          /\ UNCHANGED memory
    /\ UNCHANGED <<task, due, lost, failures>>

\* Mutant of Requeued: the row stays RUNNING.
RequeuedNever(k) == task

\* RequeueSentinelModelTask, with a delay of its own.
Requeued(k) == [task EXCEPT ![k].status = "QUEUED"]

\* Any step may fail.
Fails ==
    /\ worker # None /\ failures < MaxFailures /\ failures' = failures + 1
    /\ task' = Requeued(worker.task)
    /\ worker' = None
    /\ UNCHANGED <<due, memory, lost>>

\* The try ends and its row stays RUNNING: the controller stops, and the worker of
\* the next one claims QUEUED rows only, or the requeue fails, which is logged.
CutOff ==
    /\ worker # None /\ failures < MaxFailures /\ failures' = failures + 1
    /\ lost' = lost \cup {worker.task}
    /\ worker' = None
    /\ UNCHANGED <<task, due, memory>>

Due(k) ==
    /\ task[k] # None /\ task[k].status = "QUEUED" /\ k \notin due
    /\ due' = due \cup {k}
    /\ UNCHANGED <<task, worker, memory, lost, failures>>

CompleteSentinelModelTask ==
    /\ worker # None /\ worker.pc = "complete"
    /\ task' = [task EXCEPT ![worker.task].status = "COMPLETED"]
    /\ worker' = None
    /\ UNCHANGED <<due, memory, lost, failures>>

Work == Model \/ Import \/ CompleteSentinelModelTask \/ Fails

Next ==
    \/ \E k \in Tasks : Claim(k) \/ Due(k) \/ \E c \in Classes : QueueSentinelModelTask(k, c)
    \/ Work \/ CutOff

\* The worker's ticker claims the oldest due task first, so none is passed over
\* for ever; the clock reaches every not_before.
Fairness ==
    /\ WF_vars(Work)
    /\ \A k \in Tasks : SF_vars(Claim(k)) /\ WF_vars(Due(k))

Spec == Init /\ [][Next]_vars /\ Fairness

-----------------------------------------------------------------------------
(* Properties *)

Completed(k) == task[k] # None /\ task[k].status = "COMPLETED"

\* Retried or not, every task the queue accepts completes once its tries stop
\* failing, and so never keeps later work of its class out -- but for those whose
\* worker was cut off or could not requeue them.
TasksComplete == \A k \in Tasks : task[k] # None ~> Completed(k) \/ k \in lost

\* "the optional task is retried later": of every task.  One that was RUNNING when
\* the controller stopped is claimed by nobody.
TasksRetried == \A k \in Tasks : task[k] # None ~> Completed(k)

\* A curation repeated after it had stored some of its drafts, or another task
\* of the Case, does not multiply candidates.
CandidatesOnce == \A s \in Statements : memory[s] <= 1
=============================================================================
