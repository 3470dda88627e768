--------------------------- MODULE SentinelMemories ---------------------------
(***************************************************************************)
(* Learned memories: candidates, validation, counter-evidence, supersession *)
(* and expiry.  Every request reads the row, decides, and writes with a     *)
(* statement of its own, so that two requests overlap.  Statements and      *)
(* confidence are left out.  Evidence is named by the Case it comes from;   *)
(* a request with bad evidence changes nothing.                             *)
(***************************************************************************)
EXTENDS FiniteSets

CONSTANTS Memories, Requests, None,
          Cases,       \* whose ledgers hold the evidence
          CaseScope    \* [site, device] of a Case, None where the column is empty

VARIABLES
    memory,    \* row of sentinel_learned_memories, or None
    past,      \* memories whose expires_at has passed
    request    \* a handler between its read and its write

vars == <<memory, past, request>>

Active == {"CANDIDATE", "VALIDATED"}
Final == {"REJECTED", "SUPERSEDED", "EXPIRED"}

Row == [state : Active \cup Final, source : Cases, evidence : Cases,
        counter : SUBSET Cases, by : Memories \cup {None}]

Asks == [kind : {"validate"}, m : Memories]
        \cup [kind : {"counter"}, m : Memories, refs : SUBSET Cases]
        \cup [kind : {"supersede"}, m : Memories, new : Memories]

TypeOK ==
    /\ memory \in [Memories -> {None} \cup Row]
    /\ past \subseteq Memories
    /\ request \in [Requests -> {None} \cup Asks]

Init ==
    /\ memory = [m \in Memories |-> None]
    /\ past = {}
    /\ request = [q \in Requests |-> None]

In(m, states) == memory[m] # None /\ memory[m].state \in states
Accept(q, r) == request[q] = None /\ request' = [request EXCEPT ![q] = r]
Answer(q) == request' = [request EXCEPT ![q] = None]

\* Mutant of Moved: the update does not look at the state it comes from.
MovedBlindly(m, from, to) ==
    IF memory[m] # None THEN [memory EXCEPT ![m].state = to] ELSE memory

\* updateSentinelMemoryState: UPDATE ... WHERE validation_state = from
Moved(m, from, to) ==
    IF In(m, {from}) THEN [memory EXCEPT ![m].state = to] ELSE memory

\* normalizeSentinelLearningScope: the scope of the source Case, never another.
Scope(m) == CaseScope[memory[m].source]

\* validateSentinelLearningEvidenceRefs: evidence of a scoped memory comes from
\* Cases of its site, and of its device if they have one.
Fits(scope, c) ==
    /\ scope.site # None => CaseScope[c].site = scope.site
    /\ (scope.device # None /\ CaseScope[c].device # None) => CaseScope[c].device = scope.device

\* CreateSentinelLearnedMemoryCandidate; an equal active one is reused.
Create(m) ==
    /\ memory[m] = None
    /\ \E source, evidence \in Cases, counter \in SUBSET Cases :
         /\ \A c \in {evidence} \cup counter : Fits(CaseScope[source], c)
         /\ memory' = [memory EXCEPT ![m] =
                [state |-> "CANDIDATE", source |-> source, evidence |-> evidence,
                 counter |-> counter, by |-> None]]
    /\ UNCHANGED <<past, request>>

\* ValidateSentinelLearnedMemory reads a candidate without counter-evidence; one
\* past its time expires here.
ValidateRead(q, m) ==
    /\ In(m, {"CANDIDATE"})
    /\ \/ /\ m \in past /\ request[q] = None
          /\ memory' = Moved(m, "CANDIDATE", "EXPIRED") /\ UNCHANGED request
       \/ /\ m \notin past /\ memory[m].counter = {}
          /\ Accept(q, [kind |-> "validate", m |-> m]) /\ UNCHANGED memory
    /\ UNCHANGED past

ValidateWrite(q) ==
    /\ request[q] # None /\ request[q].kind = "validate" /\ Answer(q)
    /\ memory' = Moved(request[q].m, "CANDIDATE", "VALIDATED")
    /\ UNCHANGED past

RejectSentinelLearnedMemory(m) ==
    /\ In(m, {"CANDIDATE"})
    /\ memory' = Moved(m, "CANDIDATE", "REJECTED")
    /\ UNCHANGED <<past, request>>

\* RecordSentinelMemoryCounterEvidence adds the references to those it read and
\* writes the whole list; a validated memory becomes a candidate again.
CounterRead(q, m) ==
    /\ In(m, Active)
    /\ \E r \in Cases :
         /\ Fits(Scope(m), r)
         /\ Accept(q, [kind |-> "counter", m |-> m, refs |-> memory[m].counter \cup {r}])
    /\ UNCHANGED <<memory, past>>

CounterWrite(q) ==
    /\ request[q] # None /\ request[q].kind = "counter" /\ Answer(q)
    /\ memory' = [memory EXCEPT ![request[q].m].counter = request[q].refs,
                                ![request[q].m].state = IF @ = "VALIDATED" THEN "CANDIDATE" ELSE @]
    /\ UNCHANGED past

\* SupersedeSentinelLearnedMemory: both are read, one is written.
SupersedeRead(q, m, new) ==
    /\ m # new /\ In(m, {"VALIDATED"}) /\ In(new, {"VALIDATED"}) /\ Scope(m) = Scope(new)
    /\ Accept(q, [kind |-> "supersede", m |-> m, new |-> new])
    /\ UNCHANGED <<memory, past>>

SupersedeWrite(q) ==
    /\ request[q] # None /\ request[q].kind = "supersede" /\ Answer(q)
    /\ LET m == request[q].m IN
         memory' = IF In(m, {"VALIDATED"}) /\ memory[m].by = None
                   THEN [memory EXCEPT ![m].state = "SUPERSEDED", ![m].by = request[q].new]
                   ELSE memory
    /\ UNCHANGED past

Time(m) ==
    /\ memory[m] # None /\ m \notin past
    /\ past' = past \cup {m}
    /\ UNCHANGED <<memory, request>>

\* expireSentinelLearnedMemories, hourly
ExpireSweep ==
    /\ \E m \in past : In(m, Active)
    /\ memory' = [m \in Memories |-> IF m \in past /\ In(m, Active)
                                     THEN [memory[m] EXCEPT !.state = "EXPIRED"] ELSE memory[m]]
    /\ UNCHANGED <<past, request>>

Next ==
    \/ \E m \in Memories : Create(m) \/ RejectSentinelLearnedMemory(m) \/ Time(m)
    \/ \E q \in Requests, m \in Memories :
          ValidateRead(q, m) \/ CounterRead(q, m) \/ \E n \in Memories : SupersedeRead(q, m, n)
    \/ \E q \in Requests : ValidateWrite(q) \/ CounterWrite(q) \/ SupersedeWrite(q)
    \/ ExpireSweep

Spec == Init /\ [][Next]_vars

-----------------------------------------------------------------------------
(* Properties *)

\* listActiveSentinelMemoriesForCase: what an investigation of a Case is shown.
Shown(m) == In(m, {"VALIDATED"}) /\ m \notin past /\ memory[m].by = None
ShownTo(m, c) ==
    /\ Shown(m)
    /\ Scope(m).site \in {None, CaseScope[c].site}
    /\ Scope(m).device \in {None, CaseScope[c].device}

\* A memory that was rejected, superseded or expired is never shown to an
\* investigation again, whichever requests were under way when it was.
FinalStays ==
    [][\A m \in Memories : In(m, Final) => (In(m, Final))' /\ ~Shown(m)']_vars

\* What one site taught is not shown to another: a memory in the context of a
\* Case rests on evidence of the Case's own site, or was learned tenant-wide.
KnowledgeInScope ==
    \A m \in Memories, c \in Cases : ShownTo(m, c) =>
        \/ CaseScope[memory[m].evidence].site = CaseScope[c].site
        \/ Scope(m).site = None

\* "Contradiction immediately removes a validated memory from trusted model
\* context": no memory with counter-evidence is shown.
ContradictedNotShown == \A m \in Memories : Shown(m) => memory[m].counter = {}
=============================================================================
