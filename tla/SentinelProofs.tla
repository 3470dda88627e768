---------------------------- MODULE SentinelProofs ----------------------------
(***************************************************************************)
(* Sentinel's safety, for every value of the constants: the approval gate,  *)
(* the routing of requests to models, learned memories and skills, the      *)
(* Cases and the investigations.  Each part has its own inductive           *)
(* invariant, and says why the property alone is not one.                   *)
(***************************************************************************)
EXTENDS SentinelParts, TLAPS, FiniteSetTheorems, SequenceTheorems

-----------------------------------------------------------------------------
(* The approval gate.  For any number of proposals and of concurrent         *)
(* approval requests: an approved proposal is queued once and no other is.   *)
(* QueuedOnce alone is not inductive, for it says nothing of the requests    *)
(* between two statements: the invariant adds that a proposal has one        *)
(* request at most, that its row is then APPROVING, and what the request     *)
(* has done so far.                                                          *)

\* The request of an approver is about a proposal, and how far it has come.
On(a, p) == approver[a] # None /\ approver[a].p = p

\* The rows a request may hold, and the count its next statement relies on.
Approvals ==
    \A a \in Approvers, p \in Proposals : On(a, p) =>
        /\ Has(p, "APPROVING")
        /\ approver[a].pc = "claimed" => queued[p] = 0
        /\ approver[a].pc = "queued" => queued[p] = 1

OneRequest == \A a, b \in Approvers, p \in Proposals : On(a, p) /\ On(b, p) => a = b

\* What is queued for a row that no request holds.
Counts ==
    \A p \in Proposals :
        /\ queued[p] \in {0, 1}
        /\ queued[p] = 1 => Has(p, "APPROVING") \/ Has(p, "APPROVED")
        /\ Has(p, "APPROVED") => queued[p] = 1

IInv == TypeOK /\ Approvals /\ OneRequest /\ Counts

\* The approval of ApproveSentinelProposal and everything that may come between its
\* statements keep the invariant.
LEMMA ProposalStep == ASSUME IInv, [Next]_vars PROVE IInv'
<1> USE NoneAssumption DEF IInv
<1>1. ASSUME NEW p \in Proposals, CreateSentinelProposal(p) PROVE IInv'
  <2>1. TypeOK'
    BY <1>1 DEF CreateSentinelProposal, TypeOK, Row, StatusOf, Statuses
  <2>2. queued[p] = 0 /\ \A a \in Approvers : ~On(a, p)
    BY <1>1 DEF CreateSentinelProposal, Counts, Approvals, Has
  <2>3. /\ proposal'[p] \in Row /\ proposal'[p].status \in {"PENDING", "BLOCKED"}
        /\ \A q \in Proposals : q # p => proposal'[q] = proposal[q]
    BY <1>1 DEF CreateSentinelProposal, TypeOK, Row, StatusOf, Statuses
  <2>4. Approvals' /\ OneRequest'
    BY <1>1, <2>2, <2>3 DEF CreateSentinelProposal, Approvals, OneRequest, On, Has
  <2>5. Counts'
    BY <1>1, <2>2, <2>3 DEF CreateSentinelProposal, Counts, Has
  <2> QED BY <2>1, <2>4, <2>5
<1>2. ASSUME NEW p \in Proposals, RejectSentinelProposal(p) PROVE IInv'
  <2>1. TypeOK'
    BY <1>2 DEF RejectSentinelProposal, TypeOK, Row, Statuses
  <2>2. queued[p] = 0 /\ \A a \in Approvers : ~On(a, p)
    BY <1>2 DEF RejectSentinelProposal, Counts, Approvals, Has
  <2>3. /\ proposal'[p].status = "REJECTED"
        /\ \A q \in Proposals : q # p => proposal'[q] = proposal[q]
    BY <1>2 DEF RejectSentinelProposal, TypeOK
  <2>4. Approvals' /\ OneRequest'
    BY <1>2, <2>2, <2>3 DEF RejectSentinelProposal, Approvals, OneRequest, On, Has
  <2>5. Counts'
    BY <1>2, <2>2, <2>3 DEF RejectSentinelProposal, Counts, Has
  <2> QED BY <2>1, <2>4, <2>5
<1>3. ASSUME NEW p \in Proposals, Expire(p) PROVE IInv'
  BY <1>3 DEF Expire, TypeOK, Approvals, OneRequest, Counts, On, Has
<1>4. ASSUME NEW p \in Proposals, Sweep(p) PROVE IInv'
  <2>1. TypeOK'
    BY <1>4 DEF Sweep, TypeOK
  <2>2. Approvals' /\ OneRequest'
    BY <1>4 DEF Sweep, TypeOK, Approvals, OneRequest, On, Has
  <2>3. Counts'
    BY <1>4 DEF Sweep, TypeOK, Counts, Has
  <2> QED BY <2>1, <2>2, <2>3
<1>5. ASSUME NEW p \in Proposals, NEW a \in Approvers, ApproveClaim(a, p) PROVE IInv'
  <2>1. /\ proposal'[p] \in Row /\ proposal'[p].status = "APPROVING"
        /\ \A q \in Proposals : q # p => proposal'[q] = proposal[q]
    BY <1>5 DEF ApproveClaim, Claimable, Has, TypeOK, Row, Statuses
  <2>2. TypeOK'
    BY <1>5, <2>1 DEF ApproveClaim, Claimable, Has, TypeOK, Row, Statuses
  <2>3. queued[p] = 0 /\ \A b \in Approvers : ~On(b, p)
    BY <1>5 DEF ApproveClaim, Claimable, Counts, Approvals, Has
  <2>4. approver' = [approver EXCEPT ![a] = [p |-> p, pc |-> "claimed"]] /\ queued' = queued
    BY <1>5 DEF ApproveClaim
  <2>5. Approvals'
    BY <2>1, <2>3, <2>4 DEF Approvals, On, Has, TypeOK
  <2>6. OneRequest'
    BY <2>3, <2>4 DEF OneRequest, On, TypeOK
  <2>7. Counts'
    BY <2>1, <2>3, <2>4 DEF Counts, Has
  <2> QED BY <2>2, <2>5, <2>6, <2>7
<1>6. ASSUME NEW a \in Approvers, ApproveQueue(a) PROVE IInv'
  <2> DEFINE p == approver[a].p
  <2>1. p \in Proposals /\ On(a, p) /\ Has(p, "APPROVING") /\ queued[p] = 0
    BY <1>6 DEF ApproveQueue, TypeOK, Approvals, On
  <2>2. \A b \in Approvers : On(b, p) => b = a
    BY <2>1 DEF OneRequest
  <2> HIDE DEF p
  <2>3. CASE /\ queued' = [queued EXCEPT ![p] = @ + 1]
             /\ approver' = [approver EXCEPT ![a].pc = "queued"]
             /\ UNCHANGED <<proposal, expired>>
    <3>1. TypeOK'
      BY <2>1, <2>3, <1>6 DEF TypeOK, ApproveQueue
    <3>2. approver'[a].p = p /\ approver'[a].pc = "queued" /\ queued'[p] = 1
      BY <2>1, <2>3, <1>6 DEF TypeOK, ApproveQueue, On
    <3>3. Approvals'
      BY <2>1, <2>2, <2>3, <3>2 DEF Approvals, On, Has, TypeOK
    <3>4. OneRequest'
      BY <2>1, <2>2, <2>3, <3>2 DEF OneRequest, On, TypeOK
    <3>5. Counts'
      BY <2>1, <2>3, <3>2 DEF Counts, Has, TypeOK
    <3> QED BY <3>1, <3>3, <3>4, <3>5
  <2>4. CASE /\ proposal' = [proposal EXCEPT ![p] =
                   IF @ = None THEN None ELSE [status |-> "FAILED", reason |-> TRUE]]
             /\ approver' = [approver EXCEPT ![a] = None]
             /\ UNCHANGED <<queued, expired>>
    <3>1. TypeOK'
      BY <2>1, <2>4 DEF TypeOK, Row, Statuses
    <3>2. Approvals'
      BY <2>1, <2>2, <2>4 DEF Approvals, On, Has, TypeOK
    <3>3. OneRequest'
      BY <2>4 DEF OneRequest, On, TypeOK
    <3>4. Counts'
      BY <2>1, <2>4 DEF Counts, Has, TypeOK
    <3> QED BY <3>1, <3>2, <3>3, <3>4
  <2> QED BY <1>6, <2>3, <2>4 DEF ApproveQueue, p
<1>7. ASSUME NEW a \in Approvers, ApproveFinish(a) PROVE IInv'
  <2> DEFINE p == approver[a].p
  <2>1. p \in Proposals /\ On(a, p) /\ Has(p, "APPROVING") /\ queued[p] = 1
    BY <1>7 DEF ApproveFinish, TypeOK, Approvals, On
  <2>2. \A b \in Approvers : On(b, p) => b = a
    BY <2>1 DEF OneRequest
  <2>3. approver' = [approver EXCEPT ![a] = None] /\ queued' = queued /\ expired' = expired
    BY <1>7 DEF ApproveFinish
  <2>4. \/ proposal' = proposal
        \/ proposal' = [proposal EXCEPT ![p] =
               IF @ = None THEN None ELSE [@ EXCEPT !.status = "APPROVED"]]
    BY <1>7 DEF ApproveFinish
  <2> HIDE DEF p
  <2>5. /\ proposal'[p] \in Row /\ proposal'[p].status \in {"APPROVING", "APPROVED"}
        /\ \A q \in Proposals : q # p => proposal'[q] = proposal[q]
        /\ proposal' \in [Proposals -> Row \cup {None}]
    BY <2>1, <2>4 DEF TypeOK, Row, Statuses, Has
  <2>6. TypeOK'
    BY <2>3, <2>5 DEF TypeOK
  <2>7. Approvals' /\ OneRequest'
    BY <2>2, <2>3, <2>5 DEF Approvals, OneRequest, On, Has, TypeOK
  <2>8. Counts'
    BY <2>1, <2>3, <2>5 DEF Counts, Has
  <2> QED BY <2>6, <2>7, <2>8
<1>8. CASE Crash
  BY <1>8 DEF Crash, TypeOK, Approvals, OneRequest, Counts, On, Has
<1>9. CASE UNCHANGED vars
  BY <1>9 DEF vars, TypeOK, Approvals, OneRequest, Counts, On, Has
<1> QED BY <1>1, <1>2, <1>3, <1>4, <1>5, <1>6, <1>7, <1>8, <1>9 DEF Next

\* Whatever two operators, an expiry, a sweep and a restart do between the three
\* statements of ApproveSentinelProposal, an approved proposal is queued once and
\* none that is rejected, blocked, failed or undecided has been queued.
THEOREM ApprovedIsQueuedOnce == Spec => []QueuedOnce
<1>1. Init => IInv
  BY DEF Init, IInv, TypeOK, Approvals, OneRequest, Counts, On, Has
<1>2. IInv /\ [Next]_vars => IInv'
  BY ProposalStep
<1>3. IInv => QueuedOnce
  BY DEF IInv, Counts, QueuedOnce
<1> QED BY <1>1, <1>2, <1>3, PTL DEF Spec

-----------------------------------------------------------------------------
(* Model routing.  A request is judged by the class that was asked for and   *)
(* sent with the route of a class of its chain, so the invariant adds that   *)
(* routine work and deep analysis never fall back to an optional class.      *)

FallsBackLocally ==
    /\ chain \in {<<>>, <<class>>, <<R!Routine>>, <<R!DeepRCA, R!Routine>>}
    /\ chain # <<>> => \/ Head(chain) = class
                       \/ {Head(chain), class} \subseteq {R!Routine, R!DeepRCA}
    /\ chain = <<R!DeepRCA, R!Routine>> => class = R!DeepRCA

RoutingInv == FallsBackLocally /\ R!RoutesKept

\* Nothing is left of a chain of one class.
LEMMA TailOfOne == \A a : Tail(<<a>>) = <<>>
  OBVIOUS

\* What is left of a chain of two classes is the second.
LEMMA TailOfTwo == \A a, b : Tail(<<a, b>>) = <<b>>
  OBVIOUS

\* completeSentinelReasoningContext and completeAIContext keep the invariant.
LEMMA RoutingStep == ASSUME RoutingInv, [R!Next]_R!vars PROVE RoutingInv'
<1> USE AbsentAssumption DEF RoutingInv, R!Routine, R!DeepRCA, R!Optional, R!Classes, R!Investigation
<1> DEFINE rest == Tail(chain)
<1>a. ASSUME chain # <<>>
      PROVE  \/ rest = <<>>
             \/ rest = <<R!Routine>> /\ class = R!DeepRCA
  <2>1. CASE chain = <<class>>
    BY <2>1, TailOfOne
  <2>2. CASE chain = <<R!Routine>>
    BY <2>2, TailOfOne
  <2>3. CASE chain = <<R!DeepRCA, R!Routine>>
    BY <2>3, TailOfTwo DEF FallsBackLocally
  <2> QED BY <1>a, <2>1, <2>2, <2>3 DEF FallsBackLocally
<1>b. ASSUME chain # <<>>, chain' \in {<<>>, rest}, class' = class PROVE FallsBackLocally'
  <2>1. CASE chain' = <<>>
    BY <2>1 DEF FallsBackLocally
  <2>2. CASE chain' = <<R!Routine>> /\ class = R!DeepRCA
    <3>1. Head(chain') = R!Routine /\ chain' # <<R!DeepRCA, R!Routine>>
      BY <2>2
    <3> QED BY <1>b, <2>2, <3>1 DEF FallsBackLocally
  <2> QED BY <1>a, <1>b, <2>1, <2>2
<1> HIDE DEF rest
<1>1. CASE R!Skip
  <2>1. FallsBackLocally'
    BY <1>1, <1>b DEF R!Skip, rest
  <2> QED BY <1>1, <2>1 DEF R!Skip, R!RoutesKept
<1>2. CASE R!Request
  <2>1. FallsBackLocally'
    BY <1>2, <1>b DEF R!Request, rest
  <2> DEFINE c == Head(chain)
             s == [class |-> class, base |-> IF env[c].base # None THEN "override" ELSE "platform",
                   url |-> R!Url(c), local |-> R!IsLocal(c), key |-> R!Key(c)]
  <2>2. sent' = sent \cup {s} /\ R!Resolves(c)
    BY <1>2 DEF R!Request
  <2>3. class \in {R!Routine, R!DeepRCA} => c \in {R!Routine, R!DeepRCA}
    BY <1>2 DEF R!Request, FallsBackLocally
  <2>4. s.class \in {R!Routine, R!DeepRCA} => s.local
    BY <2>2, <2>3 DEF R!Resolves
  <2>5. s.key = None => s.local
    BY <2>2 DEF R!Resolves
  <2>6. s.key = "platform" => s.base # "override"
    BY DEF R!Key
  <2> HIDE DEF s
  <2> QED BY <2>1, <2>2, <2>4, <2>5, <2>6 DEF R!RoutesKept
<1>3. CASE R!LegacyRequest
  <2>1. FallsBackLocally'
    BY <1>3, <1>b DEF R!LegacyRequest
  <2> DEFINE s == [class |-> R!Investigation, base |-> IF platform.base = None THEN "default" ELSE "platform",
                   url |-> R!LegacyUrl, local |-> R!LegacyUrl = "local",
                   key |-> IF platform.key THEN "platform" ELSE None]
  <2>2. sent' = {} \/ (sent' = {s} /\ (platform.key \/ R!LegacyUrl = "local"))
    BY <1>3 DEF R!LegacyRequest
  <2>3. s.class = "investigation" /\ s.base # "override"
    OBVIOUS
  <2>4. s.local = (R!LegacyUrl = "local") /\ s.key = IF platform.key THEN "platform" ELSE None
    OBVIOUS
  <2>5. platform.key \/ R!LegacyUrl = "local" => (s.key = None => s.local)
    BY <2>4
  <2> HIDE DEF s
  <2>6. R!RoutesKept'
    BY <2>2, <2>3, <2>5 DEF R!RoutesKept
  <2> QED BY <2>1, <2>6
<1>4. CASE UNCHANGED R!vars
  BY <1>4 DEF R!vars, FallsBackLocally, R!RoutesKept
<1> QED BY <1>1, <1>2, <1>3, <1>4 DEF R!Next

\* However the platform and the classes are configured, and whichever endpoints fail:
\* routine work and deep analysis are sent to local endpoints only, nothing leaves
\* the site without a key, and the platform's key is not given to a class's endpoint.
THEOREM RoutesAreKept == R!Spec => []RoutesKept
<1>1. R!Init => RoutingInv
  BY DEF R!Init, RoutingInv, FallsBackLocally, R!RoutesKept, R!Chain, R!Routine, R!DeepRCA
<1>2. RoutingInv /\ [R!Next]_R!vars => RoutingInv'
  BY RoutingStep
<1>3. RoutingInv => RoutesKept
  BY DEF RoutingInv, RoutesKept
<1> QED BY <1>1, <1>2, <1>3, PTL DEF R!Spec

-----------------------------------------------------------------------------
(* Learned memories.  A request writes what it read some time ago, so the    *)
(* invariant keeps the row it will write to in existence, and the evidence   *)
(* of every row within the scope of the Case it was learned from.            *)

RequestsHaveRows == \A q \in Requests : learning[q] # None => memory[learning[q].m] # None

EvidenceFits ==
    \A m \in Memories : memory[m] # None => M!Fits(CaseScope[memory[m].source], memory[m].evidence)

MemoryInv == M!TypeOK /\ RequestsHaveRows /\ EvidenceFits

\* What a write to one row changes: it stays a row with the evidence it had, and
\* a final state is not left.
Rewrites(m) ==
    \E r \in M!Row :
        /\ memory' = [memory EXCEPT ![m] = r]
        /\ memory[m] # None /\ r.source = memory[m].source /\ r.evidence = memory[m].evidence
        /\ memory[m].state \in M!Final => r.state \in M!Final

\* A memory that is not shown any more is not shown after the step either.
FinalKept == \A m \in Memories : M!In(m, M!Final) => (M!In(m, M!Final))' /\ ~M!Shown(m)'

\* A write to one row keeps the invariant and the final states.
LEMMA RewriteStep ==
    ASSUME MemoryInv, NEW m \in Memories, Rewrites(m), past' = past,
           learning' = learning \/ \E q \in Requests : learning' = [learning EXCEPT ![q] = None]
    PROVE  MemoryInv' /\ FinalKept
<1> USE AbsentAssumption DEF MemoryInv
<1>1. PICK r \in M!Row :
         /\ memory' = [memory EXCEPT ![m] = r]
         /\ memory[m] # None /\ r.source = memory[m].source /\ r.evidence = memory[m].evidence
         /\ memory[m].state \in M!Final => r.state \in M!Final
  BY DEF Rewrites
<1>2. memory'[m] = r /\ r # None /\ \A n \in Memories : n # m => memory'[n] = memory[n]
  BY <1>1 DEF M!TypeOK
<1>3. M!TypeOK'
  BY <1>1 DEF M!TypeOK
<1>4. \A q \in Requests : learning'[q] # None => learning[q] # None /\ learning'[q] = learning[q]
  BY DEF M!TypeOK
<1>5. RequestsHaveRows'
  BY <1>1, <1>2, <1>4 DEF RequestsHaveRows, M!TypeOK
<1>6. EvidenceFits'
  BY <1>1, <1>2 DEF EvidenceFits, M!Fits
<1>7. FinalKept
  BY <1>1, <1>2 DEF FinalKept, M!In, M!Shown, M!Final
<1> QED BY <1>3, <1>5, <1>6, <1>7

\* A step that leaves the rows alone, with requests about rows that exist.
LEMMA ReadStep ==
    ASSUME MemoryInv, memory' = memory, past' \subseteq Memories,
           \/ learning' = learning
           \/ \E q \in Requests : learning' = [learning EXCEPT ![q] = None]
           \/ \E q \in Requests, r \in M!Asks :
                 learning' = [learning EXCEPT ![q] = r] /\ memory[r.m] # None
    PROVE  MemoryInv' /\ FinalKept
<1> USE DEF MemoryInv
<1>1. M!TypeOK'
  BY DEF M!TypeOK
<1>2. RequestsHaveRows'
  BY DEF RequestsHaveRows, M!TypeOK
<1>3. EvidenceFits' /\ FinalKept
  BY DEF EvidenceFits, M!Fits, FinalKept, M!In, M!Shown, M!Final
<1> QED BY <1>1, <1>2, <1>3

\* The update of one row from a state to another, or no update.
LEMMA MovedRewrites ==
    ASSUME MemoryInv, NEW m \in Memories, NEW from \in M!Active, NEW to \in M!Active \cup M!Final,
           memory' = M!Moved(m, from, to)
    PROVE  memory' = memory \/ Rewrites(m)
<1> USE DEF MemoryInv
<1>1. CASE M!In(m, {from})
  <2> DEFINE r == [memory[m] EXCEPT !.state = to]
  <2>1. memory[m] \in M!Row /\ memory[m] # None /\ memory[m].state = from
    BY <1>1 DEF M!In, M!TypeOK
  <2>2. memory' = [memory EXCEPT ![m] = r]
    BY <1>1 DEF M!Moved, M!TypeOK
  <2>3. r \in M!Row /\ r.source = memory[m].source /\ r.evidence = memory[m].evidence
    BY <2>1 DEF M!Row
  <2>4. memory[m].state \notin M!Final
    BY <2>1 DEF M!Active, M!Final
  <2> HIDE DEF r
  <2> QED BY <2>1, <2>2, <2>3, <2>4 DEF Rewrites
<1>2. CASE ~M!In(m, {from})
  BY <1>2 DEF M!Moved
<1> QED BY <1>1, <1>2

\* Every handler of the memories, the clock and the hourly expiry keep the invariant
\* and leave what is final so.
LEMMA MemoryStep == ASSUME MemoryInv, [M!Next]_M!vars PROVE MemoryInv' /\ (FinalKept \/ UNCHANGED M!vars)
<1> USE AbsentAssumption DEF MemoryInv
<1>1. ASSUME NEW m \in Memories, M!Create(m) PROVE MemoryInv' /\ FinalKept
  <2>1. PICK source \in PastCases, evidence \in PastCases, counter \in SUBSET PastCases :
           /\ M!Fits(CaseScope[source], evidence)
           /\ memory' = [memory EXCEPT ![m] =
                [state |-> "CANDIDATE", source |-> source, evidence |-> evidence,
                 counter |-> counter, by |-> None]]
    BY <1>1 DEF M!Create
  <2>2. UNCHANGED <<past, learning>> /\ memory[m] = None
    BY <1>1 DEF M!Create
  <2>3. memory'[m] \in M!Row /\ memory'[m].source = source /\ memory'[m].evidence = evidence
    BY <2>1 DEF M!TypeOK, M!Row, M!Active
  <2>4. \A n \in Memories : n # m => memory'[n] = memory[n]
    BY <2>1 DEF M!TypeOK
  <2>5. M!TypeOK'
    BY <2>1, <2>2, <2>3, <2>4 DEF M!TypeOK
  <2>6. RequestsHaveRows'
    BY <2>2, <2>3, <2>4 DEF RequestsHaveRows, M!TypeOK, M!Asks
  <2>7. EvidenceFits'
    BY <2>1, <2>3, <2>4 DEF EvidenceFits, M!Fits
  <2>8. FinalKept
    BY <2>2, <2>4 DEF FinalKept, M!In, M!Shown, M!Final
  <2> QED BY <2>5, <2>6, <2>7, <2>8
<1>2. ASSUME NEW m \in Memories, M!RejectSentinelLearnedMemory(m) PROVE MemoryInv' /\ FinalKept
  <2>1. memory' = M!Moved(m, "CANDIDATE", "REJECTED") /\ UNCHANGED <<past, learning>>
    BY <1>2 DEF M!RejectSentinelLearnedMemory
  <2>2. memory' = memory \/ Rewrites(m)
    BY <2>1, MovedRewrites DEF M!Active, M!Final
  <2> QED BY <2>1, <2>2, RewriteStep, ReadStep DEF M!TypeOK
<1>3. ASSUME NEW m \in Memories, M!Time(m) PROVE MemoryInv' /\ FinalKept
  BY <1>3, ReadStep DEF M!Time, M!TypeOK
<1>4. ASSUME NEW q \in Requests, NEW m \in Memories, M!ValidateRead(q, m) PROVE MemoryInv' /\ FinalKept
  <2>1. CASE memory' = M!Moved(m, "CANDIDATE", "EXPIRED") /\ learning' = learning
    <3>1. memory' = memory \/ Rewrites(m)
      BY <2>1, MovedRewrites DEF M!Active, M!Final
    <3> QED BY <1>4, <2>1, <3>1, RewriteStep, ReadStep DEF M!ValidateRead, M!TypeOK
  <2>2. CASE M!Accept(q, [kind |-> "validate", m |-> m]) /\ memory' = memory
    <3> DEFINE r == [kind |-> "validate", m |-> m]
    <3>1. r \in M!Asks /\ r.m = m /\ memory[m] # None
      BY <1>4 DEF M!Asks, M!ValidateRead, M!In
    <3>2. learning' = [learning EXCEPT ![q] = r]
      BY <2>2 DEF M!Accept
    <3> HIDE DEF r
    <3> QED BY <1>4, <2>2, <3>1, <3>2, ReadStep DEF M!ValidateRead, M!TypeOK
  <2> QED BY <1>4, <2>1, <2>2 DEF M!ValidateRead
<1>5. ASSUME NEW q \in Requests, NEW m \in Memories, M!CounterRead(q, m) PROVE MemoryInv' /\ FinalKept
  <2>1. PICK c \in PastCases :
           M!Accept(q, [kind |-> "counter", m |-> m, refs |-> memory[m].counter \cup {c}])
    BY <1>5 DEF M!CounterRead
  <2> DEFINE r == [kind |-> "counter", m |-> m, refs |-> memory[m].counter \cup {c}]
  <2>2. memory[m] # None /\ memory[m] \in M!Row
    BY <1>5 DEF M!CounterRead, M!In, M!TypeOK
  <2>3. r \in M!Asks /\ r.m = m
    BY <2>2 DEF M!Asks, M!Row
  <2>4. learning' = [learning EXCEPT ![q] = r]
    BY <2>1 DEF M!Accept
  <2> HIDE DEF r
  <2> QED BY <1>5, <2>2, <2>3, <2>4, ReadStep DEF M!CounterRead, M!TypeOK
<1>6. ASSUME NEW q \in Requests, NEW m \in Memories, NEW n \in Memories, M!SupersedeRead(q, m, n)
      PROVE  MemoryInv' /\ FinalKept
  <2> DEFINE r == [kind |-> "supersede", m |-> m, new |-> n]
  <2>1. r \in M!Asks /\ r.m = m /\ memory[m] # None
    BY <1>6 DEF M!Asks, M!SupersedeRead, M!In
  <2>2. learning' = [learning EXCEPT ![q] = r]
    BY <1>6 DEF M!SupersedeRead, M!Accept
  <2> HIDE DEF r
  <2> QED BY <1>6, <2>1, <2>2, ReadStep DEF M!SupersedeRead, M!TypeOK
<1>7. ASSUME NEW q \in Requests, M!ValidateWrite(q) PROVE MemoryInv' /\ FinalKept
  <2>1. learning[q].m \in Memories
    BY <1>7 DEF M!ValidateWrite, M!TypeOK, M!Asks
  <2>2. memory' = memory \/ Rewrites(learning[q].m)
    BY <1>7, <2>1, MovedRewrites DEF M!ValidateWrite, M!Active
  <2>3. learning' = [learning EXCEPT ![q] = None] /\ past' = past
    BY <1>7 DEF M!ValidateWrite, M!Answer
  <2> QED BY <2>1, <2>2, <2>3, RewriteStep, ReadStep DEF M!TypeOK
<1>8. ASSUME NEW q \in Requests, M!CounterWrite(q) PROVE MemoryInv' /\ FinalKept
  <2> DEFINE m == learning[q].m
             r == [memory[m] EXCEPT !.counter = learning[q].refs,
                                    !.state = IF @ = "VALIDATED" THEN "CANDIDATE" ELSE @]
  <2>1. m \in Memories /\ learning[q].refs \in SUBSET PastCases /\ memory[m] \in M!Row /\ memory[m] # None
    BY <1>8 DEF M!CounterWrite, M!TypeOK, M!Asks, RequestsHaveRows
  <2>2. memory' = [memory EXCEPT ![m] = r]
    BY <1>8, <2>1 DEF M!CounterWrite, M!TypeOK
  <2>3. /\ r \in M!Row /\ r.source = memory[m].source /\ r.evidence = memory[m].evidence
        /\ memory[m].state \in M!Final => r.state \in M!Final
    BY <2>1 DEF M!Row, M!Active, M!Final
  <2>4. learning' = [learning EXCEPT ![q] = None] /\ past' = past
    BY <1>8 DEF M!CounterWrite, M!Answer
  <2> HIDE DEF m, r
  <2>5. Rewrites(m)
    BY <2>1, <2>2, <2>3 DEF Rewrites
  <2> QED BY <2>1, <2>4, <2>5, RewriteStep
<1>9. ASSUME NEW q \in Requests, M!SupersedeWrite(q) PROVE MemoryInv' /\ FinalKept
  <2> DEFINE m == learning[q].m
             r == [memory[m] EXCEPT !.state = "SUPERSEDED", !.by = learning[q].new]
  <2>1. m \in Memories /\ learning[q].new \in Memories /\ memory[m] \in M!Row /\ memory[m] # None
    BY <1>9 DEF M!SupersedeWrite, M!TypeOK, M!Asks, RequestsHaveRows
  <2>2. memory' = memory \/ memory' = [memory EXCEPT ![m] = r]
    BY <1>9, <2>1 DEF M!SupersedeWrite, M!TypeOK
  <2>3. r \in M!Row /\ r.source = memory[m].source /\ r.evidence = memory[m].evidence /\ r.state \in M!Final
    BY <2>1 DEF M!Row, M!Active, M!Final
  <2>4. learning' = [learning EXCEPT ![q] = None] /\ past' = past
    BY <1>9 DEF M!SupersedeWrite, M!Answer
  <2> HIDE DEF m, r
  <2>5. memory' = memory \/ Rewrites(m)
    BY <2>1, <2>2, <2>3 DEF Rewrites
  <2> QED BY <2>1, <2>4, <2>5, RewriteStep, ReadStep DEF M!TypeOK
<1>10. CASE M!ExpireSweep
  <2>1. UNCHANGED <<past, learning>>
    BY <1>10 DEF M!ExpireSweep
  <2>2. ASSUME NEW m \in Memories
        PROVE  \/ memory'[m] = memory[m]
               \/ /\ memory[m] # None /\ memory'[m] \in M!Row
                  /\ memory'[m].source = memory[m].source /\ memory'[m].evidence = memory[m].evidence
                  /\ memory'[m].state \in M!Final
    BY <1>10 DEF M!ExpireSweep, M!In, M!TypeOK, M!Row, M!Active, M!Final
  <2>3. M!TypeOK'
    <3>1. memory' \in [Memories -> {None} \cup M!Row]
      BY <1>10, <2>2 DEF M!ExpireSweep, M!TypeOK
    <3> QED BY <2>1, <3>1 DEF M!TypeOK
  <2>4. RequestsHaveRows'
    BY <2>1, <2>2 DEF RequestsHaveRows, M!TypeOK, M!Asks
  <2>5. EvidenceFits'
    BY <2>2 DEF EvidenceFits, M!Fits
  <2>6. FinalKept
    BY <2>2 DEF FinalKept, M!In, M!Shown, M!Final
  <2> QED BY <2>3, <2>4, <2>5, <2>6
<1>11. CASE UNCHANGED M!vars
  BY <1>11, ReadStep DEF M!vars, M!TypeOK
<1> QED BY <1>1, <1>2, <1>3, <1>4, <1>5, <1>6, <1>7, <1>8, <1>9, <1>10, <1>11 DEF M!Next

\* However validations, counter-evidence, supersessions and expiry overlap: what one
\* site taught is not shown to a Case of another, and a memory that was rejected,
\* superseded or has expired is never shown again.
THEOREM MemoriesAreTrusted == M!Spec => MemoriesTrusted
<1>1. M!Init => MemoryInv
  BY DEF M!Init, MemoryInv, M!TypeOK, RequestsHaveRows, EvidenceFits
<1>2. MemoryInv /\ [M!Next]_M!vars => MemoryInv' /\ [FinalKept]_M!vars
  BY MemoryStep
<1>3. MemoryInv => M!KnowledgeInScope
  BY DEF MemoryInv, EvidenceFits, M!KnowledgeInScope, M!ShownTo, M!Shown, M!In, M!Scope, M!Fits
<1>4. [FinalKept]_M!vars => [\A m \in Memories : M!In(m, M!Final) => (M!In(m, M!Final))' /\ ~M!Shown(m)']_M!vars
  BY DEF FinalKept
<1> QED BY <1>1, <1>2, <1>3, <1>4, PTL DEF M!Spec, MemoriesTrusted, M!FinalStays

-----------------------------------------------------------------------------
(* Learned skills.  A promotion writes on the strength of statistics it read *)
(* before, and a Case may be deleted with its evaluations in between.  The   *)
(* invariant says of a pending promotion what TrustEarned says of a trusted  *)
(* skill: what was counted has been judged, and that is never undone.        *)

Earned(s) ==
    /\ K!ValidSpec(skill[s].tools)
    /\ Cardinality(ever[s]["REPLAY"]) >= MinReplay
    /\ Cardinality(ever[s]["SHADOW"]) >= MinShadow

Judgements == \A s \in Skills, m \in K!Modes, c \in PastCases : eval[s][m][c] # "none" => c \in ever[s][m]

Promotions ==
    \A q \in Requests : request[q] # None =>
        /\ request[q].from \in {"VALIDATED", "SHADOW"} /\ skill[request[q].s].state # "none"
        /\ request[q].to = "TRUSTED" => Earned(request[q].s)
        /\ request[q].to \in {"SHADOW", "TRUSTED"}

SkillInv == K!TypeOK /\ Judgements /\ Promotions /\ K!TrustEarned

\* SentinelSkills counts with the same operator.
LEMMA SameCount == \A S : K!Cardinality(S) = Cardinality(S)
  BY Zenon DEF K!Cardinality, Cardinality

\* The Cases a skill was ever judged on are counted, and only grow in number.
LEMMA JudgedCount ==
    ASSUME NEW S \in SUBSET PastCases, NEW B \in SUBSET PastCases, S \subseteq B
    PROVE  Cardinality(S) \in Nat /\ Cardinality(B) \in Nat /\ Cardinality(S) <= Cardinality(B)
<1>1. IsFiniteSet(PastCases)
  BY PromotionLimits
<1>2. IsFiniteSet(B)
  BY <1>1, FS_Subset
<1>3. IsFiniteSet(S) /\ Cardinality(S) <= Cardinality(B)
  BY <1>2, FS_Subset
<1> QED BY <1>2, <1>3, FS_CardinalityType

\* sentinelSkillPromotionStats counts no Case that the skill was not judged on.
LEMMA EnoughWereJudged ==
    ASSUME K!TypeOK, Judgements, NEW s \in Skills, NEW m \in K!Modes, NEW min \in Nat, K!Enough(s, m, min)
    PROVE  Cardinality(ever[s][m]) >= min
<1> DEFINE Of(r) == {c \in PastCases : eval[s][m][c] = r}
<1>1. ever[s][m] \in SUBSET PastCases
  BY DEF K!TypeOK
<1>2. Of("hit") \cup Of("miss") \in SUBSET PastCases /\ Of("hit") \cup Of("miss") \subseteq ever[s][m]
  BY <1>1 DEF Judgements
<1>3. IsFiniteSet(Of("hit")) /\ IsFiniteSet(Of("miss"))
  BY PromotionLimits, FS_Subset
<1>4. Of("hit") \cap Of("miss") = {}
  OBVIOUS
<1>5. Cardinality(Of("hit") \cap Of("miss")) = 0
  BY <1>4, FS_EmptySet
<1>6. Cardinality(Of("hit")) \in Nat /\ Cardinality(Of("miss")) \in Nat
  BY <1>3, FS_CardinalityType
<1>7. Cardinality(Of("hit") \cup Of("miss")) = Cardinality(Of("hit")) + Cardinality(Of("miss"))
  <2>1. Cardinality(Of("hit") \cup Of("miss"))
          = Cardinality(Of("hit")) + Cardinality(Of("miss")) - Cardinality(Of("hit") \cap Of("miss"))
    BY <1>3, FS_Union
  <2> HIDE DEF Of
  <2> QED BY <2>1, <1>5, <1>6
<1>8. Cardinality(Of("hit") \cup Of("miss")) <= Cardinality(ever[s][m]) /\ Cardinality(ever[s][m]) \in Nat
  BY <1>1, <1>2, JudgedCount
<1>9. Cardinality(Of("hit")) + Cardinality(Of("miss")) >= min
  BY SameCount DEF K!Enough, K!Count
<1> HIDE DEF Of
<1> QED BY <1>6, <1>7, <1>8, <1>9

\* What a skill has earned it keeps, while its spec stays and judgements are added.
LEMMA EarnedStays ==
    ASSUME K!TypeOK, K!TypeOK', NEW s \in Skills, Earned(s), skill'[s].tools = skill[s].tools,
           \A m \in K!Modes : ever[s][m] \subseteq ever'[s][m]
    PROVE  Earned(s)'
<1>1. \A m \in K!Modes : ever[s][m] \in SUBSET PastCases /\ ever'[s][m] \in SUBSET PastCases
  BY DEF K!TypeOK
<1>2. /\ ever[s]["REPLAY"] \subseteq ever'[s]["REPLAY"] /\ ever[s]["SHADOW"] \subseteq ever'[s]["SHADOW"]
      /\ ever[s]["REPLAY"] \in SUBSET PastCases /\ ever'[s]["REPLAY"] \in SUBSET PastCases
      /\ ever[s]["SHADOW"] \in SUBSET PastCases /\ ever'[s]["SHADOW"] \in SUBSET PastCases
  BY <1>1 DEF K!Modes
<1>3. /\ Cardinality(ever[s]["REPLAY"]) \in Nat /\ Cardinality(ever'[s]["REPLAY"]) \in Nat
      /\ Cardinality(ever[s]["REPLAY"]) <= Cardinality(ever'[s]["REPLAY"])
  BY <1>2, JudgedCount
<1>4. /\ Cardinality(ever[s]["SHADOW"]) \in Nat /\ Cardinality(ever'[s]["SHADOW"]) \in Nat
      /\ Cardinality(ever[s]["SHADOW"]) <= Cardinality(ever'[s]["SHADOW"])
  BY <1>2, JudgedCount
<1>5. MinReplay \in Nat /\ MinShadow \in Nat
  BY PromotionLimits
<1>6. K!ValidSpec(skill'[s].tools)
  BY DEF Earned
<1> QED BY <1>3, <1>4, <1>5, <1>6 DEF Earned

\* A trusted skill has been revoked or stays trusted; a revoked one stays so.
RevokedKept == \A s \in Skills : skill[s].state = "REVOKED" => skill'[s].state = "REVOKED"

\* A step that changes the state of one skill only: what it has earned it keeps.
LEMMA StateStep ==
    ASSUME SkillInv, NEW s \in Skills, NEW st \in K!States \ {"none"}, skill[s].state # "none",
           skill' = [skill EXCEPT ![s].state = st], UNCHANGED <<eval, ever>>,
           request' = request \/ \E q \in Requests : request' = [request EXCEPT ![q] = None],
           st = "TRUSTED" => Earned(s), skill[s].state = "REVOKED" => st = "REVOKED"
    PROVE  SkillInv' /\ RevokedKept
<1> USE DEF SkillInv
<1>1. K!TypeOK'
  BY DEF K!TypeOK
<1>2. /\ skill'[s].state = st
      /\ \A t \in Skills : skill'[t].tools = skill[t].tools /\ (t # s => skill'[t] = skill[t])
  BY DEF K!TypeOK
<1>3. \A t \in Skills : Earned(t) => Earned(t)'
  BY <1>1, <1>2, EarnedStays
<1>4. Judgements' /\ RevokedKept
  BY <1>2 DEF Judgements, RevokedKept
<1>5. \A q \in Requests : request'[q] # None =>
          request[q] # None /\ request'[q] = request[q] /\ request[q].s \in Skills
  BY DEF K!TypeOK
<1>6. Promotions'
  BY <1>2, <1>3, <1>5 DEF Promotions
<1>7. \A t \in Skills : skill'[t].state = "TRUSTED" => Earned(t)
  BY <1>2, SameCount DEF K!TrustEarned, Earned
<1>8. K!TrustEarned'
  BY <1>3, <1>7, SameCount DEF K!TrustEarned, Earned
<1> QED BY <1>1, <1>4, <1>6, <1>8

\* recordSentinelSkillEvaluation adds a judgement.
LEMMA RecordStep ==
    ASSUME SkillInv, NEW s \in Skills, NEW m \in K!Modes, NEW c \in PastCases, NEW r \in {"hit", "miss"},
           K!Record(s, m, c, r)
    PROVE  SkillInv' /\ RevokedKept
<1> USE DEF SkillInv
<1>1. /\ eval' = [eval EXCEPT ![s][m][c] = r]
      /\ ever' = [ever EXCEPT ![s][m] = @ \cup {c}]
      /\ UNCHANGED <<skill, request>>
  BY DEF K!Record
<1>2. K!TypeOK'
  <2>1. ever' \in [Skills -> [K!Modes -> SUBSET PastCases]]
    BY <1>1 DEF K!TypeOK
  <2>2. eval' \in [Skills -> [K!Modes -> [PastCases -> {"none", "hit", "miss"}]]]
    BY <1>1 DEF K!TypeOK
  <2> QED BY <1>1, <2>1, <2>2 DEF K!TypeOK
<1>3. \A t \in Skills, n \in K!Modes : ever[t][n] \subseteq ever'[t][n]
  BY <1>1 DEF K!TypeOK
<1>4. \A t \in Skills : Earned(t) => Earned(t)'
  BY <1>1, <1>2, <1>3, EarnedStays
<1>5. Judgements'
  <2> SUFFICES ASSUME NEW t \in Skills, NEW n \in K!Modes, NEW d \in PastCases, eval'[t][n][d] # "none"
               PROVE  d \in ever'[t][n]
    BY DEF Judgements
  <2>1. CASE t = s /\ n = m /\ d = c
    BY <1>1, <2>1 DEF K!TypeOK
  <2>2. CASE ~(t = s /\ n = m /\ d = c)
    <3>1. eval'[t][n][d] = eval[t][n][d]
      BY <1>1, <2>2 DEF K!TypeOK
    <3> QED BY <1>3, <3>1 DEF Judgements
  <2> QED BY <2>1, <2>2
<1>6. Promotions' /\ RevokedKept
  BY <1>1, <1>4 DEF Promotions, RevokedKept, K!TypeOK
<1>7. K!TrustEarned'
  BY <1>1, <1>4, SameCount DEF K!TrustEarned, Earned
<1> QED BY <1>2, <1>5, <1>6, <1>7

\* StartSentinelSkillShadow and PromoteSentinelSkill read what the skill has earned.
LEMMA AskStep ==
    ASSUME SkillInv, NEW q \in Requests, NEW s \in Skills, NEW from \in {"VALIDATED", "SHADOW"},
           NEW to \in {"SHADOW", "TRUSTED"}, K!Ask(q, s, from, to), to = "TRUSTED" => Earned(s)
    PROVE  SkillInv' /\ RevokedKept
<1> USE DEF SkillInv
<1> DEFINE t == [s |-> s, from |-> from, to |-> to]
<1>1. request' = [request EXCEPT ![q] = t] /\ UNCHANGED <<skill, eval, ever>> /\ skill[s].state = from
  BY DEF K!Ask
<1>2. t \in [s : Skills, from : K!States, to : K!States]
  BY DEF K!States
<1>3. t.s = s /\ t.from = from /\ t.to = to
  OBVIOUS
<1> HIDE DEF t
<1>4. K!TypeOK'
  BY <1>1, <1>2 DEF K!TypeOK
<1>5. Promotions'
  BY <1>1, <1>3 DEF Promotions, K!TypeOK, Earned
<1>6. Judgements' /\ K!TrustEarned' /\ RevokedKept
  BY <1>1 DEF Judgements, K!TrustEarned, RevokedKept
<1> QED BY <1>4, <1>5, <1>6

\* Every operation on skills keeps the invariant and leaves a revoked skill revoked.
LEMMA SkillStep == ASSUME SkillInv, [K!Next]_K!vars PROVE SkillInv' /\ (RevokedKept \/ UNCHANGED K!vars)
<1> USE DEF SkillInv
<1>1. ASSUME NEW s \in Skills, K!Draft(s) PROVE SkillInv' /\ RevokedKept
  <2>1. PICK tools \in K!Specs : skill' = [skill EXCEPT ![s] = [state |-> "DRAFT", tools |-> tools]]
    BY <1>1 DEF K!Draft
  <2>2. UNCHANGED <<eval, request, ever>> /\ skill[s].state = "none"
    BY <1>1 DEF K!Draft
  <2>3. skill'[s].state = "DRAFT" /\ \A t \in Skills : t # s => skill'[t] = skill[t]
    BY <2>1 DEF K!TypeOK
  <2>4. K!TypeOK'
    BY <2>1, <2>2 DEF K!TypeOK, K!States
  <2>5. \A q \in Requests : request[q] # None => request[q].s \in Skills /\ request[q].s # s
    BY <2>2 DEF Promotions, K!TypeOK
  <2>6. Promotions'
    BY <2>2, <2>3, <2>5 DEF Promotions, Earned
  <2>7. Judgements' /\ K!TrustEarned' /\ RevokedKept
    BY <2>2, <2>3 DEF Judgements, K!TrustEarned, RevokedKept
  <2> QED BY <2>4, <2>6, <2>7
<1>2. ASSUME NEW s \in Skills, K!Validate(s) PROVE SkillInv' /\ RevokedKept
  <2>1. /\ skill' = [skill EXCEPT ![s].state = "VALIDATED"] /\ UNCHANGED <<eval, request, ever>>
        /\ skill[s].state # "none" /\ (skill[s].state = "REVOKED" => "VALIDATED" = "REVOKED")
    BY <1>2 DEF K!Validate
  <2>2. "VALIDATED" \in K!States \ {"none"} /\ "VALIDATED" # "TRUSTED"
    BY DEF K!States
  <2> QED BY <2>1, <2>2, StateStep
<1>3. ASSUME NEW s \in Skills, K!DeprecateSentinelSkill(s) PROVE SkillInv' /\ RevokedKept
  <2>1. /\ skill' = [skill EXCEPT ![s].state = "DEPRECATED"] /\ UNCHANGED <<eval, request, ever>>
        /\ skill[s].state # "none" /\ (skill[s].state = "REVOKED" => "DEPRECATED" = "REVOKED")
    BY <1>3 DEF K!DeprecateSentinelSkill
  <2>2. "DEPRECATED" \in K!States \ {"none"} /\ "DEPRECATED" # "TRUSTED"
    BY DEF K!States
  <2> QED BY <2>1, <2>2, StateStep
<1>4. ASSUME NEW s \in Skills, K!Revoke(s) PROVE SkillInv' /\ RevokedKept
  <2>1. /\ skill' = [skill EXCEPT ![s].state = "REVOKED"] /\ UNCHANGED <<eval, request, ever>>
        /\ skill[s].state # "none" /\ (skill[s].state = "REVOKED" => "REVOKED" = "REVOKED")
    BY <1>4 DEF K!Revoke
  <2>2. "REVOKED" \in K!States \ {"none"} /\ "REVOKED" # "TRUSTED"
    BY DEF K!States
  <2> QED BY <2>1, <2>2, StateStep
<1>5. ASSUME NEW s \in Skills, NEW c \in PastCases, K!Replay(s, c) \/ K!Shadow(s, c) PROVE SkillInv' /\ RevokedKept
  BY <1>5, RecordStep DEF K!Replay, K!Shadow, K!Modes
<1>6. ASSUME NEW q \in Requests, NEW s \in Skills, K!StartShadow(q, s) PROVE SkillInv' /\ RevokedKept
  BY <1>6, AskStep DEF K!StartShadow
<1>7. ASSUME NEW q \in Requests, NEW s \in Skills, K!Promote(q, s) PROVE SkillInv' /\ RevokedKept
  <2>1. Cardinality(ever[s]["REPLAY"]) >= MinReplay
    BY <1>7, EnoughWereJudged, PromotionLimits DEF K!Promote, K!CanPromote, K!CanEnterShadow, K!Modes
  <2>2. Cardinality(ever[s]["SHADOW"]) >= MinShadow
    BY <1>7, EnoughWereJudged, PromotionLimits DEF K!Promote, K!CanPromote, K!Modes
  <2>3. Earned(s)
    BY <1>7, <2>1, <2>2 DEF K!Promote, Earned
  <2> QED BY <1>7, <2>3, AskStep DEF K!Promote
<1>8. ASSUME NEW q \in Requests, K!Transition(q) PROVE SkillInv' /\ RevokedKept
  <2> DEFINE t == request[q]
  <2>1. t # None /\ t.s \in Skills /\ t.to \in K!States \ {"none"} /\ skill[t.s].state # "none"
    BY <1>8 DEF K!Transition, Promotions, K!TypeOK, K!States
  <2>2. request' = [request EXCEPT ![q] = None] /\ UNCHANGED <<eval, ever>>
    BY <1>8 DEF K!Transition
  <2>3. CASE K!StillIn(t)
    <3>1. skill' = [skill EXCEPT ![t.s].state = t.to]
      BY <1>8, <2>3 DEF K!Transition
    <3>2. (t.to = "TRUSTED" => Earned(t.s)) /\ skill[t.s].state # "REVOKED"
      BY <2>1, <2>3 DEF Promotions, K!StillIn
    <3> QED BY <2>1, <2>2, <3>1, <3>2, StateStep
  <2>4. CASE ~K!StillIn(t)
    <3>1. skill' = skill
      BY <1>8, <2>4 DEF K!Transition
    <3>2. K!TypeOK'
      BY <2>2, <3>1 DEF K!TypeOK
    <3>3. Promotions'
      BY <2>2, <3>1 DEF Promotions, K!TypeOK, Earned
    <3> QED BY <2>2, <3>1, <3>2, <3>3 DEF Judgements, K!TrustEarned, RevokedKept
  <2> QED BY <2>3, <2>4
<1>9. ASSUME NEW c \in PastCases, K!DeleteCase(c) PROVE SkillInv' /\ RevokedKept
  <2>1. /\ eval' = [s \in Skills |-> [m \in K!Modes |-> [eval[s][m] EXCEPT ![c] = "none"]]]
        /\ UNCHANGED <<skill, request, ever>>
    BY <1>9 DEF K!DeleteCase
  <2>2. K!TypeOK'
    BY <2>1 DEF K!TypeOK
  <2>3. \A s \in Skills, m \in K!Modes, d \in PastCases :
            eval'[s][m][d] # "none" => eval'[s][m][d] = eval[s][m][d]
    BY <2>1 DEF K!TypeOK
  <2>4. Judgements'
    BY <2>1, <2>3 DEF Judgements
  <2> QED BY <2>1, <2>2, <2>4 DEF Promotions, Earned, K!TrustEarned, RevokedKept
<1>10. CASE UNCHANGED K!vars
  BY <1>10 DEF K!vars, K!TypeOK, Judgements, Promotions, Earned, K!TrustEarned
<1> QED BY <1>1, <1>2, <1>3, <1>4, <1>5, <1>6, <1>7, <1>8, <1>9, <1>10 DEF K!Next

\* Whatever evaluations, repetitions, deletions, promotions and revocations overlap:
\* a trusted skill names registered tools and was judged on enough Cases in both
\* modes, and a promotion under way does not undo a revocation.
THEOREM SkillsAreTrusted == K!Spec => SkillsTrusted
<1>1. K!Init => SkillInv
  BY DEF K!Init, SkillInv, K!TypeOK, K!States, K!Specs, Judgements, Promotions, K!TrustEarned
<1>2. SkillInv /\ [K!Next]_K!vars => SkillInv' /\ [RevokedKept]_K!vars
  BY SkillStep
<1>3. SkillInv => K!TrustEarned
  BY DEF SkillInv
<1>4. [RevokedKept]_K!vars => [\A s \in Skills : skill[s].state = "REVOKED" => skill'[s].state = "REVOKED"]_K!vars
  BY DEF RevokedKept
<1> QED BY <1>1, <1>2, <1>3, <1>4, PTL DEF K!Spec, SkillsTrusted, K!RevokedStays

-----------------------------------------------------------------------------
(* Cases.  That one Case is under one investigation rests on time: the entry *)
(* of an investigation in the throttle map is never older than the           *)
(* investigation, which ends before the entry stops counting.  That answers  *)
(* keep their evidence rests on the order of the chat's statements: the      *)
(* evidence is in the ledger before the run is completed.                    *)

JobOK(s) ==
    job[s] # None =>
        /\ throttle[job[s].case] # None /\ throttle[job[s].case] <= job[s].age
        /\ job[s].legacy => job[s].case \in legacy

JobInv == (\A s \in Slots : JobOK(s)) /\ C!OneInvestigation

\* The run's evidence is in the ledger, or was pushed out by newer runs.
InLedger(c, r) == r \in C!Range(case[c].ledger) \/ Len(case[c].ledger) = LedgerLimit

Ledgers == \A c \in Cases : Len(case[c].ledger) <= LedgerLimit

Answered(r) == run[r].status = "COMPLETED" \/ C!ChatAt(r, "complete")

RunOK(r) ==
    /\ chat[r] # None =>
           run[r] # None /\ (chat[r].pc \in {"claim", "model", "persist"} => run[r].status # "COMPLETED")
    /\ run[r] # None => case[run[r].case].status # "none"
    /\ (run[r] # None /\ run[r].ev /\ Answered(r) /\ run[r].case \notin legacy /\ C!Exists(run[r].case))
           => InLedger(run[r].case, r)

RunInv == \A r \in Runs : RunOK(r)

CaseInv == C!TypeOK /\ Ledgers /\ JobInv /\ RunInv

\* What a step may do to a Case: a row is not made again, and its ledger keeps
\* what answers rest on, unless it is one of the legacy opener's.
CaseKept(c) ==
    /\ case[c].status # "none" => case'[c].status # "none"
    /\ case[c].status = "gone" => case'[c].status = "gone"
    /\ (c \notin legacy /\ C!Exists(c) /\ C!Exists(c)') => \A r \in Runs : InLedger(c, r) => InLedger(c, r)'

CasesKept == C!TypeOK' /\ Ledgers' /\ \A c \in Cases : CaseKept(c)

\* PersistSentinelCaseEvidence: the newest run is in the ledger, which stays within
\* its limit, and a run it no longer holds was pushed out of a full one.
LEMMA NewestKept ==
    ASSUME NEW S, NEW l \in Seq(S), NEW x \in S, Len(l) <= LedgerLimit
    PROVE  /\ C!Newest(Append(l, x)) \in Seq(S)
           /\ Len(C!Newest(Append(l, x))) <= LedgerLimit
           /\ x \in C!Range(C!Newest(Append(l, x))) \/ Len(C!Newest(Append(l, x))) = LedgerLimit
           /\ \A r : (r \in C!Range(l) \/ Len(l) = LedgerLimit) =>
                         r \in C!Range(C!Newest(Append(l, x))) \/ Len(C!Newest(Append(l, x))) = LedgerLimit
<1> DEFINE a == Append(l, x)
<1>1. LedgerLimit \in Nat
  BY CaseTimes
<1>2. a \in Seq(S) /\ Len(a) = Len(l) + 1 /\ Len(l) \in Nat /\ a[Len(l) + 1] = x
      /\ \A i \in 1..Len(l) : a[i] = l[i]
  OBVIOUS
<1>3. CASE Len(a) > LedgerLimit
  <2>1. C!Newest(a) = Tail(a)
    BY <1>3 DEF C!Newest
  <2>2. a # <<>> /\ Tail(a) \in Seq(S) /\ Len(Tail(a)) = Len(a) - 1
    BY <1>2
  <2>3. Len(Tail(a)) = LedgerLimit
    BY <1>1, <1>2, <1>3, <2>2
  <2> HIDE DEF a
  <2> QED BY <2>1, <2>2, <2>3, <1>1 DEF a
<1>4. CASE ~(Len(a) > LedgerLimit)
  <2>1. C!Newest(a) = a
    BY <1>4 DEF C!Newest
  <2>2. DOMAIN a = 1..(Len(l) + 1) /\ DOMAIN l = 1..Len(l)
    BY <1>2
  <2>3. Len(a) <= LedgerLimit /\ Len(l) # LedgerLimit
    BY <1>1, <1>2, <1>4
  <2>4. x \in C!Range(a)
    BY <1>2, <2>2 DEF C!Range
  <2>5. \A r : r \in C!Range(l) => r \in C!Range(a)
    BY <1>2, <2>2 DEF C!Range
  <2> HIDE DEF a
  <2> QED BY <1>2, <2>1, <2>3, <2>4, <2>5 DEF a
<1> QED BY <1>3, <1>4

\* An empty ledger is one.
LEMMA EmptyLedger == <<>> \in Seq(Runs \cup {C!Auto}) /\ Len(<<>>) = 0
  BY EmptySeq

\* A run whose row and goroutine a step leaves alone stays answered for.
LEMMA RunKept ==
    ASSUME CaseInv, CasesKept, legacy' = legacy, NEW r \in Runs, run'[r] = run[r],
           chat'[r] = chat[r] \/ chat'[r] = None
    PROVE  RunOK(r)'
<1> USE DEF CaseInv
<1>1. RunOK(r)
  BY DEF RunInv
<1>2. CASE run[r] = None
  BY <1>1, <1>2 DEF RunOK
<1>3. CASE run[r] # None
  <2> DEFINE c == run[r].case
  <2>1. c \in Cases
    BY <1>3 DEF C!TypeOK, C!RunRow
  <2>2. case[c].status # "none" /\ case'[c].status # "none" /\ CaseKept(c)
    BY <1>1, <1>3, <2>1 DEF RunOK, CasesKept, CaseKept
  <2>3. C!Exists(c)' => C!Exists(c)
    BY <2>2 DEF CaseKept, C!Exists
  <2>4. Answered(r)' => Answered(r)
    BY DEF Answered, C!ChatAt
  <2>5. (run[r].ev /\ Answered(r)' /\ c \notin legacy /\ C!Exists(c)') => InLedger(c, r)'
    BY <1>1, <1>3, <2>2, <2>3, <2>4 DEF RunOK, CaseKept
  <2>6. (chat'[r] # None /\ chat'[r].pc \in {"claim", "model", "persist"}) => run'[r].status # "COMPLETED"
    BY <1>1 DEF RunOK
  <2> QED BY <1>3, <2>2, <2>5, <2>6 DEF RunOK
<1> QED BY <1>2, <1>3

\* A row that changes its status only, to one that is not of a row that is missing.
LEMMA StatusKept ==
    ASSUME C!TypeOK, NEW c \in Cases, NEW new, new.ledger = case[c].ledger,
           case' = [case EXCEPT ![c] = new],
           new.status # "none", case[c].status = "gone" => new.status = "gone"
    PROVE  \A d \in Cases : CaseKept(d)
  BY DEF C!TypeOK, CaseKept, C!Exists, InLedger

\* SetStatus does not make a deleted Case again.
LEMMA SetStatusKept ==
    ASSUME CaseInv, NEW c \in Cases, NEW st \in C!Live, case' = C!SetStatus(c, st)
    PROVE  /\ case' \in [Cases -> C!CaseRow]
           /\ Ledgers' /\ \A d \in Cases : CaseKept(d)
<1> USE DEF CaseInv
<1>1. CASE C!Exists(c)
  <2> DEFINE new == [case[c] EXCEPT !.status = st]
  <2>1. case' = [case EXCEPT ![c] = new]
    BY <1>1 DEF C!SetStatus, C!TypeOK
  <2>0. case[c] \in C!CaseRow
    BY DEF C!TypeOK
  <2>2. new \in C!CaseRow /\ new.ledger = case[c].ledger /\ new.status = st
    BY <2>0 DEF C!CaseRow
  <2>3. st # "none" /\ case[c].status # "gone"
    BY <1>1 DEF C!Live, C!Exists
  <2> HIDE DEF new
  <2>4. \A d \in Cases : CaseKept(d)
    BY <2>1, <2>2, <2>3, StatusKept
  <2> QED BY <2>1, <2>2, <2>4 DEF C!TypeOK, Ledgers
<1>2. CASE ~C!Exists(c)
  <2>1. case' = case
    BY <1>2 DEF C!SetStatus
  <2> QED BY <2>1 DEF C!TypeOK, Ledgers, CaseKept, InLedger, C!Exists
<1> QED BY <1>1, <1>2

\* A step that leaves the rows of Cases alone.
LEMMA SameCases == ASSUME CaseInv, case' = case PROVE Ledgers' /\ \A d \in Cases : CaseKept(d)
  BY DEF CaseInv, Ledgers, CaseKept, InLedger, C!Exists

\* Appending to the ledger of a Case that exists.
LEMMA PersistKept ==
    ASSUME CaseInv, NEW c \in Cases, NEW x \in Runs \cup {C!Auto}, NEW ev \in BOOLEAN,
           C!Exists(c) \/ ~ev, case' = C!Persist(c, x, ev)
    PROVE  /\ case' \in [Cases -> C!CaseRow]
           /\ Ledgers' /\ \A d \in Cases : CaseKept(d)
           /\ case'[c].status = case[c].status
           /\ ev => InLedger(c, x)'
<1> USE DEF CaseInv
<1>1. CASE ~ev
  <2>1. case' = case
    BY <1>1 DEF C!Persist
  <2> QED BY <1>1, <2>1, SameCases DEF C!TypeOK
<1>2. CASE ev
  <2> DEFINE l == case[c].ledger
             new == [case[c] EXCEPT !.ledger = C!Newest(Append(l, x))]
  <2>0. case[c] \in C!CaseRow
    BY DEF C!TypeOK
  <2>1. l \in Seq(Runs \cup {C!Auto}) /\ Len(l) <= LedgerLimit
    BY <2>0 DEF C!CaseRow, Ledgers
  <2>2. case' = [case EXCEPT ![c] = new]
    BY <1>2 DEF C!Persist, C!TypeOK
  <2>3. new.ledger = C!Newest(Append(l, x)) /\ new.status = case[c].status
    BY <2>0 DEF C!CaseRow
  <2>4. /\ new.ledger \in Seq(Runs \cup {C!Auto}) /\ Len(new.ledger) <= LedgerLimit
        /\ x \in C!Range(new.ledger) \/ Len(new.ledger) = LedgerLimit
        /\ \A r : (r \in C!Range(l) \/ Len(l) = LedgerLimit) =>
                      r \in C!Range(new.ledger) \/ Len(new.ledger) = LedgerLimit
    BY <2>1, <2>3, NewestKept
  <2>5. new \in C!CaseRow
    BY <2>0, <2>3, <2>4 DEF C!CaseRow
  <2> HIDE DEF l, new
  <2>6. case'[c] = new /\ \A d \in Cases : d # c => case'[d] = case[d]
    BY <2>2 DEF C!TypeOK
  <2>7. Ledgers'
    BY <2>4, <2>6 DEF Ledgers
  <2>8. InLedger(c, x)'
    BY <2>4, <2>6 DEF InLedger
  <2>9. CaseKept(c)
    BY <2>3, <2>4, <2>6 DEF CaseKept, InLedger, C!Exists, l
  <2>10. \A d \in Cases : d # c => CaseKept(d)
    BY <2>6 DEF CaseKept, InLedger, C!Exists
  <2> QED BY <2>2, <2>3, <2>5, <2>6, <2>7, <2>8, <2>9, <2>10 DEF C!TypeOK
<1> QED BY <1>1, <1>2

\* A job that goes on or ends, with the throttle as it is.
LEMMA JobsKept ==
    ASSUME CaseInv, UNCHANGED <<legacy, throttle>>,
           \A s \in Slots : job'[s] # None =>
               /\ job[s] # None /\ job'[s].case = job[s].case
               /\ job'[s].age = job[s].age /\ job'[s].legacy = job[s].legacy
    PROVE  JobInv'
  BY DEF CaseInv, JobInv, JobOK, C!OneInvestigation

\* QueueSentinelCaseInvestigation: an entry that still counts keeps a second job out,
\* and every job in flight has one.
LEMMA QueueKept ==
    ASSUME CaseInv, legacy' = legacy, NEW c \in Cases, NEW old \in BOOLEAN, C!Queue(c, old), old => c \in legacy
    PROVE  /\ throttle' \in [Cases -> (0..Throttle) \cup {None}]
           /\ job' \in [Slots -> {None} \cup C!JobState]
           /\ JobInv'
<1> USE DEF CaseInv
<1>0. Throttle \in Nat /\ Timeout \in Nat /\ Timeout < Throttle
  BY CaseTimes
<1>1. CASE C!Coalesced(c)
  <2>1. UNCHANGED <<throttle, job>>
    BY <1>1 DEF C!Queue
  <2> QED BY <2>1, JobsKept DEF C!TypeOK
<1>2. CASE ~C!Coalesced(c)
  <2> DEFINE s == CHOOSE t \in Slots : job[t] = None
             new == [case |-> c, age |-> 0, legacy |-> old, pc |-> "begin", ev |-> FALSE]
  <2>1. s \in Slots /\ job[s] = None
    BY <1>2 DEF C!Queue
  <2>2. throttle' = [throttle EXCEPT ![c] = 0] /\ job' = [job EXCEPT ![s] = new]
    BY <1>2 DEF C!Queue
  <2>3. new \in C!JobState
    BY <1>0 DEF C!JobState
  <2>4. new.case = c /\ new.age = 0 /\ new.legacy = old
    OBVIOUS
  <2> HIDE DEF s, new
  <2>5. throttle' \in [Cases -> (0..Throttle) \cup {None}] /\ throttle'[c] = 0 /\ throttle'[c] # None
    BY <1>0, <2>2, AbsentAssumption DEF C!TypeOK
  <2>6. job' \in [Slots -> {None} \cup C!JobState]
    BY <2>1, <2>2, <2>3 DEF C!TypeOK
  <2>7. job'[s] = new /\ \A t \in Slots : t # s => job'[t] = job[t]
    BY <2>1, <2>2 DEF C!TypeOK
  <2>8. ASSUME NEW t \in Slots, job[t] # None PROVE job[t].case \in Cases /\ job[t].case # c
    <3>1. job[t].case \in Cases /\ job[t].age \in 0..Timeout
      BY <2>8 DEF C!TypeOK, C!JobState
    <3>2. throttle[job[t].case] # None /\ throttle[job[t].case] <= job[t].age
      BY <2>8 DEF JobInv, JobOK
    <3>3. throttle[job[t].case] \in 0..Throttle
      BY <3>1, <3>2 DEF C!TypeOK
    <3>4. throttle[job[t].case] < Throttle
      BY <1>0, <3>1, <3>2, <3>3
    <3> QED BY <1>2, <3>1, <3>2, <3>4 DEF C!Coalesced, C!Young
  <2>9. \A t \in Slots : JobOK(t)'
    <3> SUFFICES ASSUME NEW t \in Slots, job'[t] # None PROVE JobOK(t)'
      BY DEF JobOK
    <3>1. CASE t = s
      BY <2>4, <2>5, <2>7, <3>1 DEF JobOK
    <3>2. CASE t # s
      <4>1. job'[t] = job[t] /\ throttle'[job[t].case] = throttle[job[t].case]
        BY <2>2, <2>7, <2>8, <3>2 DEF C!TypeOK
      <4> QED BY <4>1 DEF JobInv, JobOK
    <3> QED BY <3>1, <3>2
  <2>10. C!OneInvestigation'
    BY <2>4, <2>7, <2>8 DEF JobInv, C!OneInvestigation
  <2> QED BY <2>5, <2>6, <2>9, <2>10 DEF JobInv
<1> QED BY <1>1, <1>2

\* A step of the triggers, the recovery or a job: no run changes.
LEMMA WithoutRuns ==
    ASSUME CaseInv, CasesKept, legacy' = legacy, run' = run, JobInv',
           \A r \in Runs : chat'[r] = chat[r] \/ chat'[r] = None
    PROVE  CaseInv'
<1>1. \A r \in Runs : RunOK(r)'
  BY RunKept
<1> QED BY <1>1 DEF CaseInv, CasesKept, RunInv

\* A step of one run: no job changes.
LEMMA OfOneRun ==
    ASSUME CaseInv, CasesKept, UNCHANGED <<legacy, throttle, job>>, NEW r \in Runs, RunOK(r)',
           \A q \in Runs \ {r} : run'[q] = run[q] /\ chat'[q] = chat[q]
    PROVE  CaseInv'
<1>1. \A q \in Runs \ {r} : RunOK(q)'
  BY RunKept
<1>2. JobInv'
  BY JobsKept
<1> QED BY <1>1, <1>2 DEF CaseInv, CasesKept, RunInv

\* The triggers: OpenSentinelCase and OpenSentinelCasePreservingEvidence.
LEMMA OpenStep ==
    ASSUME CaseInv, NEW c \in Cases, C!OpenSentinelCase(c) \/ C!OpenSentinelCasePreservingEvidence(c)
    PROVE  CaseInv'
<1> USE DEF CaseInv
<1>0. case[c] \in C!CaseRow
  BY DEF C!TypeOK
<1>1. CASE C!OpenSentinelCase(c)
  <2> DEFINE new == IF C!Exists(c) THEN [case[c] EXCEPT !.ledger = <<>>] ELSE [case[c] EXCEPT !.status = "OPEN"]
  <2>1. /\ c \in legacy /\ case[c].status \in C!Live \cup {"none"} /\ C!Queue(c, TRUE)
        /\ UNCHANGED <<legacy, run, chat, faults>>
        /\ case' = [case EXCEPT ![c] = new]
    BY <1>1 DEF C!OpenSentinelCase, C!TypeOK
  <2>2. /\ new \in C!CaseRow /\ new.status \in C!Live /\ case[c].status # "gone"
        /\ new.ledger = <<>> \/ new.ledger = case[c].ledger
    <3>1. CASE C!Exists(c)
      BY <1>0, <2>1, <3>1, EmptyLedger DEF C!CaseRow, C!Live, C!Exists
    <3>2. CASE ~C!Exists(c)
      BY <1>0, <2>1, <3>2 DEF C!CaseRow, C!Live, C!Exists
    <3> QED BY <3>1, <3>2
  <2>3. Len(new.ledger) <= LedgerLimit
    BY <2>2, CaseTimes DEF Ledgers
  <2> HIDE DEF new
  <2>4. case'[c] = new /\ \A d \in Cases : d # c => case'[d] = case[d]
    BY <2>1 DEF C!TypeOK
  <2>5. Ledgers' /\ \A d \in Cases : CaseKept(d)
    BY <2>1, <2>2, <2>3, <2>4 DEF Ledgers, CaseKept, C!Live, C!Exists, InLedger
  <2>6. CasesKept /\ JobInv'
    BY <2>1, <2>2, <2>5, QueueKept DEF CasesKept, C!TypeOK
  <2> QED BY <2>1, <2>6, WithoutRuns
<1>2. CASE C!OpenSentinelCasePreservingEvidence(c)
  <2>1. /\ case[c].status \in C!Live \cup {"none"} /\ C!Queue(c, FALSE)
        /\ UNCHANGED <<legacy, run, chat, faults>>
    BY <1>2 DEF C!OpenSentinelCasePreservingEvidence
  <2>2. case' \in [Cases -> C!CaseRow] /\ Ledgers' /\ \A d \in Cases : CaseKept(d)
    <3>1. CASE C!Exists(c)
      <4>1. case' = case
        BY <1>2, <3>1 DEF C!OpenSentinelCasePreservingEvidence
      <4> QED BY <4>1, SameCases DEF C!TypeOK
    <3>2. CASE ~C!Exists(c)
      <4> DEFINE new == [case[c] EXCEPT !.status = "OPEN"]
      <4>1. case' = [case EXCEPT ![c] = new]
        BY <1>2, <3>2 DEF C!OpenSentinelCasePreservingEvidence, C!TypeOK
      <4>2. new \in C!CaseRow /\ new.ledger = case[c].ledger /\ new.status = "OPEN" /\ case[c].status # "gone"
        BY <1>0, <2>1 DEF C!CaseRow, C!Live
      <4> HIDE DEF new
      <4>3. \A d \in Cases : CaseKept(d)
        BY <4>1, <4>2, StatusKept
      <4> QED BY <4>1, <4>2, <4>3 DEF C!TypeOK, Ledgers
    <3> QED BY <3>1, <3>2
  <2>3. CasesKept /\ JobInv'
    BY <2>1, <2>2, QueueKept DEF CasesKept, C!TypeOK
  <2> QED BY <2>1, <2>3, WithoutRuns
<1> QED BY <1>1, <1>2

\* The recovery ticker, ResolveIncident and the retention sweep.
LEMMA RowStep ==
    ASSUME CaseInv, NEW c \in Cases, C!Recover(c) \/ C!ResolveIncident(c) \/ C!Sweep(c)
    PROVE  CaseInv'
<1> USE DEF CaseInv
<1>0. case[c] \in C!CaseRow
  BY DEF C!TypeOK
<1>1. CASE C!Recover(c)
  <2>1. C!Queue(c, FALSE) /\ UNCHANGED <<legacy, case, run, chat, faults>>
    BY <1>1 DEF C!Recover
  <2>2. CasesKept /\ JobInv'
    BY <2>1, QueueKept, SameCases DEF CasesKept, C!TypeOK
  <2> QED BY <2>1, <2>2, WithoutRuns
<1>2. CASE C!ResolveIncident(c)
  <2> DEFINE new == [case[c] EXCEPT !.status = "RESOLVED", !.resolvedAt = TRUE]
  <2>1. /\ UNCHANGED <<legacy, throttle, job, run, chat, faults>> /\ case[c].status \in C!Live
        /\ case' = [case EXCEPT ![c] = new]
    BY <1>2 DEF C!ResolveIncident, C!TypeOK
  <2>2. new \in C!CaseRow /\ new.ledger = case[c].ledger /\ new.status = "RESOLVED" /\ case[c].status # "gone"
    BY <1>0, <2>1 DEF C!CaseRow, C!Live
  <2> HIDE DEF new
  <2>3. \A d \in Cases : CaseKept(d)
    BY <2>1, <2>2, StatusKept
  <2>4. CasesKept
    BY <2>1, <2>2, <2>3 DEF CasesKept, C!TypeOK, Ledgers
  <2>5. JobInv'
    BY <2>1, JobsKept
  <2> QED BY <2>1, <2>4, <2>5, WithoutRuns
<1>3. CASE C!Sweep(c)
  <2> DEFINE new == [C!NoCase EXCEPT !.status = "gone"]
  <2>1. UNCHANGED <<legacy, throttle, job, run, chat, faults>> /\ case' = [case EXCEPT ![c] = new]
    BY <1>3 DEF C!Sweep
  <2>2. new \in C!CaseRow /\ new.ledger = <<>> /\ new.status = "gone"
    BY EmptyLedger DEF C!CaseRow, C!NoCase
  <2> HIDE DEF new
  <2>3. case'[c] = new /\ \A d \in Cases : d # c => case'[d] = case[d]
    BY <2>1 DEF C!TypeOK
  <2>4. Ledgers' /\ \A d \in Cases : CaseKept(d)
    BY <2>2, <2>3, CaseTimes DEF Ledgers, CaseKept, C!Exists, InLedger
  <2>5. CasesKept
    BY <2>1, <2>2, <2>4 DEF CasesKept, C!TypeOK
  <2>6. JobInv'
    BY <2>1, JobsKept
  <2> QED BY <2>1, <2>5, <2>6, WithoutRuns
<1> QED BY <1>1, <1>2, <1>3

\* The automatic investigations.
LEMMA JobStep == ASSUME CaseInv, NEW s \in Slots, C!Job(s) PROVE CaseInv'
<1> USE DEF CaseInv
<1> DEFINE c == job[s].case
<1>0. job[s] # None /\ job[s] \in C!JobState /\ c \in Cases /\ job[s].ev \in BOOLEAN
  BY DEF C!Job, C!JobBegin, C!JobModel, C!JobPersist, C!JobFinish, C!At, C!TypeOK, C!JobState
<1>1. UNCHANGED <<legacy, throttle, run, chat>>
  BY DEF C!Job, C!JobBegin, C!JobModel, C!JobPersist, C!JobFinish
<1>2. ASSUME NEW new \in C!JobState, job' = [job EXCEPT ![s] = new],
             new.case = c, new.age = job[s].age, new.legacy = job[s].legacy
      PROVE  job' \in [Slots -> {None} \cup C!JobState] /\ JobInv'
  <2>1. job' \in [Slots -> {None} \cup C!JobState]
    BY <1>2 DEF C!TypeOK
  <2>2. JobInv'
    BY <1>0, <1>1, <1>2, JobsKept DEF C!TypeOK
  <2> QED BY <2>1, <2>2
<1>3. ASSUME C!Ends(s) PROVE job' \in [Slots -> {None} \cup C!JobState] /\ JobInv'
  <2>1. job' \in [Slots -> {None} \cup C!JobState]
    BY <1>3 DEF C!TypeOK, C!Ends
  <2>2. JobInv'
    BY <1>1, <1>3, JobsKept DEF C!TypeOK, C!Ends
  <2> QED BY <2>1, <2>2
<1>4. ASSUME NEW pc0 \in {"model", "persist", "finish"}, NEW e \in BOOLEAN,
             job' = [job EXCEPT ![s].pc = pc0] \/ job' = [job EXCEPT ![s].pc = pc0, ![s].ev = e]
      PROVE  job' \in [Slots -> {None} \cup C!JobState] /\ JobInv'
  <2>1. CASE job' = [job EXCEPT ![s].pc = pc0]
    <3> DEFINE new == [job[s] EXCEPT !.pc = pc0]
    <3>1. job' = [job EXCEPT ![s] = new]
      BY <2>1 DEF C!TypeOK
    <3>2. new \in C!JobState /\ new.case = c /\ new.age = job[s].age /\ new.legacy = job[s].legacy
      BY <1>0 DEF C!JobState
    <3> HIDE DEF new, c
    <3> QED BY <1>2, <3>1, <3>2
  <2>2. CASE job' = [job EXCEPT ![s].pc = pc0, ![s].ev = e]
    <3> DEFINE new == [job[s] EXCEPT !.pc = pc0, !.ev = e]
    <3>1. job' = [job EXCEPT ![s] = new]
      BY <2>2 DEF C!TypeOK
    <3>2. new \in C!JobState /\ new.case = c /\ new.age = job[s].age /\ new.legacy = job[s].legacy
      BY <1>0 DEF C!JobState
    <3> HIDE DEF new, c
    <3> QED BY <1>2, <3>1, <3>2
  <2> QED BY <1>4, <2>1, <2>2
<1>5. ASSUME NEW st \in C!Live, case' = C!SetStatus(c, st) \/ case' = case
      PROVE  case' \in [Cases -> C!CaseRow] /\ Ledgers' /\ \A d \in Cases : CaseKept(d)
  BY <1>0, <1>5, SetStatusKept, SameCases DEF C!TypeOK
<1>6. ASSUME case' \in [Cases -> C!CaseRow], Ledgers', \A d \in Cases : CaseKept(d),
             job' \in [Slots -> {None} \cup C!JobState], JobInv', faults' \in 0..MaxFaults
      PROVE  CaseInv'
  <2>1. CasesKept
    BY <1>1, <1>6 DEF CasesKept, C!TypeOK
  <2> QED BY <1>1, <1>6, <2>1, WithoutRuns
<1> HIDE DEF c
<1>7. "OPEN" \in C!Live /\ "INVESTIGATING" \in C!Live
  BY DEF C!Live
<1>8. faults \in 0..MaxFaults /\ (C!Fault => faults' \in 0..MaxFaults)
  BY CaseTimes DEF C!TypeOK, C!Fault
<1>9. CASE C!JobBegin(s)
  <2>1. case' = C!SetStatus(c, "INVESTIGATING") /\ faults' = faults
    BY <1>9 DEF C!JobBegin, c
  <2>2. C!Ends(s) \/ job' = [job EXCEPT ![s].pc = "model"]
    BY <1>9 DEF C!JobBegin, c
  <2> QED BY <1>3, <1>4, <1>5, <1>6, <1>7, <1>8, <2>1, <2>2
<1>10. CASE C!JobModel(s)
  <2>1. case' = C!SetStatus(c, "OPEN") \/ case' = case
    BY <1>10 DEF C!JobModel, c
  <2>2. C!Ends(s) \/ \E e \in BOOLEAN : job' = [job EXCEPT ![s].pc = "persist", ![s].ev = e]
    BY <1>10 DEF C!JobModel
  <2>3. faults' = faults
    BY <1>10 DEF C!JobModel
  <2> QED BY <1>3, <1>4, <1>5, <1>6, <1>7, <1>8, <2>1, <2>2, <2>3
<1>11. CASE C!JobPersist(s)
  <2>1. CASE /\ job[s].legacy /\ C!Ends(s) /\ UNCHANGED faults
             /\ case' = IF C!Exists(c) THEN [case EXCEPT ![c].status = "OPEN", ![c].ledger = <<>>] ELSE case
    <3>1. CASE C!Exists(c)
      <4> DEFINE new == [case[c] EXCEPT !.status = "OPEN", !.ledger = <<>>]
      <4>1. case' = [case EXCEPT ![c] = new]
        BY <1>0, <2>1, <3>1 DEF C!TypeOK, c
      <4>2. case[c] \in C!CaseRow
        BY <1>0 DEF C!TypeOK, c
      <4>3. new \in C!CaseRow /\ new.ledger = <<>> /\ new.status = "OPEN"
        BY <4>2, EmptyLedger DEF C!CaseRow, C!Live
      <4> HIDE DEF new
      <4>4. case'[c] = new /\ \A d \in Cases : d # c => case'[d] = case[d]
        BY <1>0, <4>1 DEF C!TypeOK, c
      <4>5. c \in legacy /\ case[c].status # "gone"
        BY <1>0, <2>1, <3>1 DEF JobInv, JobOK, c, C!Exists
      <4>6. Ledgers' /\ \A d \in Cases : CaseKept(d)
        BY <4>3, <4>4, <4>5, CaseTimes DEF Ledgers, CaseKept, C!Exists, InLedger
      <4>7. case' \in [Cases -> C!CaseRow]
        BY <4>1, <4>3 DEF C!TypeOK
      <4> QED BY <1>3, <1>6, <1>8, <2>1, <4>6, <4>7
    <3>2. CASE ~C!Exists(c)
      <4>1. case' = case
        BY <2>1, <3>2
      <4> QED BY <1>3, <1>5, <1>6, <1>7, <1>8, <2>1, <4>1
    <3> QED BY <3>1, <3>2
  <2>2. CASE /\ C!Exists(c) \/ ~job[s].ev
             /\ case' = C!Persist(c, C!Auto, job[s].ev)
             /\ job' = [job EXCEPT ![s].pc = "finish"] /\ UNCHANGED faults
    <3>1. case' \in [Cases -> C!CaseRow] /\ Ledgers' /\ \A d \in Cases : CaseKept(d)
      BY <1>0, <2>2, PersistKept DEF c
    <3> QED BY <1>4, <1>6, <1>8, <2>2, <3>1
  <2>3. CASE C!Ends(s) /\ case' = case /\ (UNCHANGED faults \/ C!Fault)
    BY <1>3, <1>5, <1>6, <1>7, <1>8, <2>3
  <2> QED BY <1>11, <2>1, <2>2, <2>3 DEF C!JobPersist, c
<1>12. CASE C!JobFinish(s)
  <2>1. case' = C!SetStatus(c, "OPEN") /\ C!Ends(s) /\ faults' = faults
    BY <1>12 DEF C!JobFinish, c
  <2> QED BY <1>3, <1>5, <1>6, <1>7, <1>8, <2>1
<1> QED BY <1>9, <1>10, <1>11, <1>12 DEF C!Job

\* QueueSentinelCaseMessageForSite makes a run about a Case that exists.
LEMMA PostStep ==
    ASSUME CaseInv, NEW r \in Runs, NEW c \in Cases, NEW async \in BOOLEAN, C!Post(r, c, async)
    PROVE  CaseInv'
<1> USE DEF CaseInv
<1> DEFINE row == [case |-> c, ev |-> FALSE, status |-> "QUEUED"]
           call == [async |-> async, pc |-> "claim"]
<1>1. /\ run' = [run EXCEPT ![r] = row] /\ chat' = [chat EXCEPT ![r] = call]
      /\ UNCHANGED <<legacy, throttle, job, faults>> /\ case[c].status # "gone"
  BY DEF C!Post
<1>2. row \in C!RunRow /\ call \in C!ChatState
  BY DEF C!RunRow, C!ChatState
<1>3. row.case = c /\ row.ev = FALSE /\ row.status # "COMPLETED"
  OBVIOUS
<1> HIDE DEF row, call
<1>4. /\ run'[r] = row /\ chat'[r] = call
      /\ \A q \in Runs \ {r} : run'[q] = run[q] /\ chat'[q] = chat[q]
  BY <1>1 DEF C!TypeOK
<1>5. /\ case' \in [Cases -> C!CaseRow] /\ Ledgers' /\ \A d \in Cases : CaseKept(d)
      /\ case'[c].status # "none"
  <2>1. CASE C!Exists(c)
    <3>1. case' = case
      BY <2>1 DEF C!Post
    <3> QED BY <2>1, <3>1, SameCases DEF C!TypeOK, C!Exists
  <2>2. CASE ~C!Exists(c)
    <3> DEFINE new == [case[c] EXCEPT !.status = "OPEN"]
    <3>1. case' = [case EXCEPT ![c] = new]
      BY <2>2 DEF C!Post, C!TypeOK
    <3>2. case[c] \in C!CaseRow
      BY DEF C!TypeOK
    <3>3. new \in C!CaseRow /\ new.ledger = case[c].ledger /\ new.status = "OPEN"
      BY <3>2 DEF C!CaseRow, C!Live
    <3> HIDE DEF new
    <3>4. \A d \in Cases : CaseKept(d)
      BY <1>1, <3>1, <3>3, StatusKept
    <3> QED BY <3>1, <3>3, <3>4 DEF C!TypeOK, Ledgers
  <2> QED BY <2>1, <2>2
<1>6. CasesKept
  BY <1>1, <1>2, <1>5 DEF CasesKept, C!TypeOK
<1>7. RunOK(r)'
  <2>1. run'[r] # None
    BY <1>2, <1>4, AbsentAssumption
  <2> QED BY <1>3, <1>4, <1>5, <2>1 DEF RunOK
<1> QED BY <1>1, <1>4, <1>6, <1>7, OfOneRun

\* The goroutine or request of a run: claim, model, evidence, completion.
LEMMA ChatStep == ASSUME CaseInv, NEW r \in Runs, C!Chat(r) PROVE CaseInv'
<1> USE DEF CaseInv
<1>0. /\ chat[r] # None /\ chat[r] \in C!ChatState
      /\ UNCHANGED <<legacy, throttle, job>>
  BY DEF C!Chat, C!ChatClaim, C!ChatModel, C!ChatPersist, C!ChatComplete, C!ChatReopen, C!ChatAt, C!TypeOK
<1>1. RunOK(r) /\ run[r] # None
  BY <1>0 DEF RunInv, RunOK
<1>2. run[r] \in C!RunRow /\ run[r].case \in Cases /\ run[r].ev \in BOOLEAN
  BY <1>1 DEF C!TypeOK, C!RunRow
<1>c. PICK c \in Cases : c = run[r].case
  BY <1>2
<1>3. ASSUME NEW row \in C!RunRow, NEW call \in C!ChatState \cup {None}, row.case = c,
             run' = [run EXCEPT ![r] = row], chat' = [chat EXCEPT ![r] = call], faults' \in 0..MaxFaults,
             case' \in [Cases -> C!CaseRow], Ledgers', \A d \in Cases : CaseKept(d),
             (call # None /\ call.pc \in {"claim", "model", "persist"}) => row.status # "COMPLETED",
             (/\ row.ev /\ c \notin legacy /\ C!Exists(c)'
              /\ row.status = "COMPLETED" \/ (call # None /\ call.pc = "complete")) => InLedger(c, r)'
      PROVE  CaseInv'
  <2>1. CasesKept
    BY <1>0, <1>3 DEF CasesKept, C!TypeOK
  <2>2. /\ run'[r] = row /\ chat'[r] = call
        /\ \A q \in Runs \ {r} : run'[q] = run[q] /\ chat'[q] = chat[q]
    BY <1>3 DEF C!TypeOK
  <2>3. case'[c].status # "none"
    BY <1>1, <1>2, <1>3, <1>c DEF RunOK, CaseKept
  <2>4. row # None
    BY AbsentAssumption
  <2>5. RunOK(r)'
    BY <1>0, <1>3, <2>2, <2>3, <2>4 DEF RunOK, Answered, C!ChatAt
  <2> QED BY <1>0, <2>1, <2>2, <2>5, OfOneRun
<1>4. faults \in 0..MaxFaults /\ (C!Fault => faults' \in 0..MaxFaults)
  BY CaseTimes DEF C!TypeOK, C!Fault
<1>5. /\ case' = case => case' \in [Cases -> C!CaseRow] /\ Ledgers' /\ \A d \in Cases : CaseKept(d)
      /\ case' = case => (C!Exists(c)' => C!Exists(c)) /\ (InLedger(c, r) => InLedger(c, r)')
  BY SameCases DEF C!TypeOK, C!Exists, InLedger
<1>6. (run[r].ev /\ c \notin legacy /\ C!Exists(c) /\ Answered(r)) => InLedger(c, r)
  BY <1>1, <1>c DEF RunOK
<1>7. ASSUME C!ChatFails(r), faults' \in 0..MaxFaults PROVE CaseInv'
  <2>1. chat' = [chat EXCEPT ![r] = None] /\ case' = case
    BY <1>7 DEF C!ChatFails
  <2>2. CASE chat[r].async
    <3> DEFINE row == [run[r] EXCEPT !.status = "FAILED"]
    <3>1. run' = [run EXCEPT ![r] = row]
      BY <1>7, <2>2 DEF C!ChatFails, C!TypeOK
    <3>2. row \in C!RunRow /\ row.case = c /\ row.status # "COMPLETED"
      BY <1>2, <1>c DEF C!RunRow
    <3> HIDE DEF row
    <3> QED BY <1>3, <1>5, <1>7, <2>1, <3>1, <3>2
  <2>3. CASE ~chat[r].async
    <3>1. run' = [run EXCEPT ![r] = run[r]]
      BY <1>7, <2>3 DEF C!ChatFails, C!TypeOK
    <3>2. run[r].status = "COMPLETED" => Answered(r)
      BY DEF Answered
    <3> QED BY <1>2, <1>3, <1>5, <1>6, <1>7, <2>1, <3>1, <3>2, <1>c
  <2> QED BY <2>2, <2>3
<1>8. CASE C!ChatClaim(r)
  <2> DEFINE row == [run[r] EXCEPT !.status = "RUNNING"]
             call == [chat[r] EXCEPT !.pc = "model"]
  <2>1. run' = [run EXCEPT ![r] = row] /\ chat' = [chat EXCEPT ![r] = call] /\ UNCHANGED <<case, faults>>
    BY <1>8 DEF C!ChatClaim, C!TypeOK
  <2>2. row \in C!RunRow /\ row.case = c /\ row.status # "COMPLETED"
    BY <1>2, <1>c DEF C!RunRow
  <2>3. call \in C!ChatState /\ call.pc = "model"
    BY <1>0 DEF C!ChatState
  <2> HIDE DEF row, call
  <2> QED BY <1>3, <1>4, <1>5, <2>1, <2>2, <2>3
<1>9. CASE C!ChatModel(r)
  <2>1. CASE C!ChatFails(r) /\ faults' = faults
    BY <1>4, <1>7, <2>1
  <2>2. CASE \E ev \in BOOLEAN : /\ run' = [run EXCEPT ![r].ev = ev]
                                 /\ chat' = [chat EXCEPT ![r].pc = "persist"] /\ UNCHANGED <<case, faults>>
    <3>1. PICK ev \in BOOLEAN : /\ run' = [run EXCEPT ![r].ev = ev]
                                /\ chat' = [chat EXCEPT ![r].pc = "persist"] /\ UNCHANGED <<case, faults>>
      BY <2>2
    <3> DEFINE row == [run[r] EXCEPT !.ev = ev]
               call == [chat[r] EXCEPT !.pc = "persist"]
    <3>2. run' = [run EXCEPT ![r] = row] /\ chat' = [chat EXCEPT ![r] = call]
      BY <3>1 DEF C!TypeOK
    <3>3. row \in C!RunRow /\ row.case = c /\ row.status = run[r].status
      BY <1>2, <1>c DEF C!RunRow
    <3>4. call \in C!ChatState /\ call.pc = "persist"
      BY <1>0 DEF C!ChatState
    <3>5. run[r].status # "COMPLETED"
      BY <1>0, <1>1, <1>9 DEF RunOK, C!ChatModel, C!ChatAt
    <3> HIDE DEF row, call
    <3> QED BY <1>3, <1>4, <1>5, <3>1, <3>2, <3>3, <3>4, <3>5
  <2> QED BY <1>9, <2>1, <2>2 DEF C!ChatModel
<1>10. CASE C!ChatPersist(r)
  <2>1. CASE C!ChatFails(r) /\ (faults' = faults \/ C!Fault)
    BY <1>4, <1>7, <2>1
  <2>2. CASE /\ C!Exists(c) \/ ~run[r].ev
             /\ case' = C!Persist(c, r, run[r].ev)
             /\ chat' = [chat EXCEPT ![r].pc = "complete"] /\ UNCHANGED <<run, faults>>
    <3> DEFINE call == [chat[r] EXCEPT !.pc = "complete"]
    <3>1. run' = [run EXCEPT ![r] = run[r]] /\ chat' = [chat EXCEPT ![r] = call]
      BY <2>2 DEF C!TypeOK
    <3>2. call \in C!ChatState /\ call.pc = "complete"
      BY <1>0 DEF C!ChatState
    <3>3. /\ case' \in [Cases -> C!CaseRow] /\ Ledgers' /\ \A d \in Cases : CaseKept(d)
          /\ run[r].ev => InLedger(c, r)'
      BY <1>2, <2>2, <1>c, PersistKept
    <3> HIDE DEF call
    <3> QED BY <1>2, <1>3, <1>4, <2>2, <3>1, <3>2, <3>3, <1>c
  <2> QED BY <1>10, <2>1, <2>2, <1>c DEF C!ChatPersist
<1>11. CASE C!ChatComplete(r)
  <2>1. CASE C!ChatFails(r) /\ C!Fault
    BY <1>4, <1>7, <2>1
  <2>2. CASE /\ run' = [run EXCEPT ![r].status = "COMPLETED"]
             /\ chat' = [chat EXCEPT ![r].pc = "reopen"] /\ UNCHANGED <<case, faults>>
    <3> DEFINE row == [run[r] EXCEPT !.status = "COMPLETED"]
               call == [chat[r] EXCEPT !.pc = "reopen"]
    <3>1. run' = [run EXCEPT ![r] = row] /\ chat' = [chat EXCEPT ![r] = call]
      BY <2>2 DEF C!TypeOK
    <3>2. row \in C!RunRow /\ row.case = c /\ row.ev = run[r].ev
      BY <1>2, <1>c DEF C!RunRow
    <3>3. call \in C!ChatState /\ call.pc = "reopen"
      BY <1>0 DEF C!ChatState
    <3>4. Answered(r)
      BY <1>11 DEF C!ChatComplete, Answered
    <3> HIDE DEF row, call
    <3> QED BY <1>3, <1>4, <1>5, <1>6, <2>2, <3>1, <3>2, <3>3, <3>4
  <2> QED BY <1>11, <2>1, <2>2 DEF C!ChatComplete
<1>12. CASE C!ChatReopen(r)
  <2>1. /\ case' = C!SetStatus(c, "OPEN") /\ chat' = [chat EXCEPT ![r] = None]
        /\ run' = run /\ faults' = faults
    BY <1>12, <1>c DEF C!ChatReopen
  <2>2. case' \in [Cases -> C!CaseRow] /\ Ledgers' /\ \A d \in Cases : CaseKept(d)
    BY <1>2, <2>1, SetStatusKept DEF C!Live
  <2>3. CasesKept
    BY <1>0, <1>4, <2>1, <2>2 DEF CasesKept, C!TypeOK
  <2>4. JobInv'
    BY <1>0, JobsKept
  <2>5. \A q \in Runs : chat'[q] = chat[q] \/ chat'[q] = None
    BY <2>1 DEF C!TypeOK
  <2> QED BY <1>0, <2>1, <2>3, <2>4, <2>5, WithoutRuns
<1> QED BY <1>8, <1>9, <1>10, <1>11, <1>12 DEF C!Chat

\* The clock: an entry of the throttle map ages no faster than its job.
LEMMA TickStep == ASSUME CaseInv, C!Tick PROVE CaseInv'
<1> USE DEF CaseInv
<1>0. Throttle \in Nat /\ Timeout \in Nat /\ Timeout < Throttle
  BY CaseTimes
<1>1. /\ UNCHANGED <<legacy, case, run, chat, faults>>
      /\ \A s \in Slots : job[s] # None => job[s].age < Timeout
      /\ job' = [s \in Slots |-> IF job[s] = None THEN None ELSE [job[s] EXCEPT !.age = @ + 1]]
      /\ throttle' = [c \in Cases |-> IF C!Young(c) THEN throttle[c] + 1 ELSE throttle[c]]
  BY DEF C!Tick
<1>2. throttle' \in [Cases -> (0..Throttle) \cup {None}]
  BY <1>0, <1>1 DEF C!TypeOK, C!Young
<1>3. ASSUME NEW s \in Slots, job[s] # None
      PROVE  /\ job'[s] \in C!JobState /\ job'[s].case = job[s].case /\ job[s].case \in Cases
             /\ job'[s].age = job[s].age + 1 /\ job'[s].legacy = job[s].legacy
             /\ job[s].age \in 0..Timeout
  <2>1. job[s] \in C!JobState /\ job'[s] = [job[s] EXCEPT !.age = @ + 1]
    BY <1>1, <1>3 DEF C!TypeOK
  <2> QED BY <1>0, <1>1, <1>3, <2>1 DEF C!JobState
<1>4. \A s \in Slots : job[s] = None => job'[s] = None
  BY <1>1
<1>5. job' \in [Slots -> {None} \cup C!JobState]
  <2>1. \A s \in Slots : job'[s] \in {None} \cup C!JobState
    BY <1>3, <1>4
  <2> QED BY <1>1, <2>1
<1>6. CasesKept
  BY <1>1, <1>2, <1>5, SameCases DEF CasesKept, C!TypeOK
<1>7. ASSUME NEW s \in Slots, job'[s] # None PROVE JobOK(s)'
  <2> DEFINE c == job[s].case
  <2>1. job[s] # None /\ c \in Cases /\ job[s].age \in 0..Timeout /\ job[s].age < Timeout
    BY <1>1, <1>3, <1>4, <1>7
  <2>2. throttle[c] # None /\ throttle[c] <= job[s].age /\ throttle[c] \in 0..Throttle
    BY <2>1 DEF JobInv, JobOK, C!TypeOK
  <2>3. C!Young(c)
    BY <1>0, <2>1, <2>2 DEF C!Young
  <2>4. throttle'[c] = throttle[c] + 1
    BY <1>1, <2>1, <2>3
  <2>5. throttle'[c] # None /\ throttle'[c] <= job[s].age + 1
    BY <2>1, <2>2, <2>4, AbsentAssumption
  <2>6. job[s].legacy => c \in legacy
    BY <2>1 DEF JobInv, JobOK
  <2>7. /\ job'[s].case = c /\ job'[s].age = job[s].age + 1
        /\ job'[s].legacy = job[s].legacy /\ legacy' = legacy
    BY <1>1, <1>3, <2>1
  <2>8. /\ throttle'[job'[s].case] # None /\ throttle'[job'[s].case] <= job'[s].age
        /\ job'[s].legacy => job'[s].case \in legacy'
    BY <2>5, <2>6, <2>7
  <2> QED BY <2>8 DEF JobOK
<1>8. C!OneInvestigation'
  BY <1>3, <1>4 DEF JobInv, C!OneInvestigation
<1>9. JobInv'
  BY <1>7, <1>8 DEF JobInv, JobOK
<1> QED BY <1>1, <1>6, <1>9, WithoutRuns

\* A restart loses the map and the goroutines together.
LEMMA CaseCrashStep == ASSUME CaseInv, C!Crash PROVE CaseInv'
<1> USE DEF CaseInv
<1>1. /\ throttle' = [c \in Cases |-> None] /\ job' = [s \in Slots |-> None]
      /\ chat' = [r \in Runs |-> None] /\ UNCHANGED <<legacy, case, run>> /\ faults' \in 0..MaxFaults
  BY CaseTimes DEF C!Crash, C!Fault, C!TypeOK
<1>2. CasesKept
  BY <1>1, SameCases DEF CasesKept, C!TypeOK
<1>3. JobInv'
  BY <1>1 DEF JobInv, JobOK, C!OneInvestigation
<1> QED BY <1>1, <1>2, <1>3, WithoutRuns

\* However triggers, recovery, operators, resolutions, sweeps, faults and restarts
\* fall: no Case is under two automatic investigations at once, and the evidence of
\* an answer stays in its Case's ledger until newer runs push it out.
THEOREM AnswersAreBacked == C!Spec => []AnswersBacked
<1>1. C!Init => CaseInv
  <2> SUFFICES ASSUME C!Init PROVE CaseInv
    OBVIOUS
  <2>1. C!NoCase \in C!CaseRow /\ C!NoCase.ledger = <<>>
    BY EmptyLedger DEF C!NoCase, C!CaseRow
  <2>2. C!TypeOK
    BY <2>1, CaseTimes DEF C!Init, C!TypeOK
  <2>3. Ledgers
    BY <2>1, EmptyLedger, CaseTimes DEF C!Init, Ledgers
  <2>4. JobInv /\ RunInv
    BY DEF C!Init, JobInv, JobOK, C!OneInvestigation, RunInv, RunOK
  <2> QED BY <2>2, <2>3, <2>4 DEF CaseInv
<1>2. CaseInv /\ [C!Next]_C!vars => CaseInv'
  <2>1. CASE UNCHANGED C!vars
    BY <2>1 DEF C!vars, CaseInv, C!TypeOK, Ledgers, JobInv, JobOK, C!OneInvestigation, RunInv, RunOK,
                InLedger, Answered, C!ChatAt, C!Exists
  <2>2. CASE C!Next
    BY <2>2, OpenStep, RowStep, PostStep, ChatStep, JobStep, TickStep, CaseCrashStep DEF C!Next
  <2> QED BY <2>1, <2>2
<1>3. CaseInv => AnswersBacked
  BY DEF CaseInv, JobInv, RunInv, RunOK, Answered, InLedger, AnswersBacked, C!AnswersBacked
<1> QED BY <1>1, <1>2, <1>3, PTL DEF C!Spec

-----------------------------------------------------------------------------
(* Investigations.  The Case loop counts the calls of the model, and the     *)
(* limit it tests is on those alone: that all calls stay within the global   *)
(* limit needs the invariant that the prefetch spent no more than the plan   *)
(* allowed, and that what is still planned is within the same allowance.     *)

Planned == IF pc = "compile" THEN Cardinality(plan) ELSE 0

Counters ==
    /\ {round, calls, modelCalls, pending} \subseteq Nat
    /\ counts \in [Tools -> Nat]
    /\ plan \subseteq Tools \cup {Unknown}
    /\ mode \in {"case", "site"} /\ scope \in I!Scope
    /\ pc = "calls" => pending > 0
    /\ pc \in {"compile", "hardware"} => round = 0 /\ modelCalls = 0
    /\ pc = "compile" => mode = "case"
    /\ pc = "hardware" => mode = "site" /\ calls = 0

WithinLimits ==
    /\ round <= MaxRounds
    /\ \A t \in Tools : counts[t] <= MaxCalls[t]
    /\ mode = "case" => /\ calls + Planned <= PlanLimit + modelCalls
                        /\ modelCalls <= MaxToolCalls - ToolReserve
    /\ mode = "site" => calls <= MaxToolCalls

InvestigationInv == Counters /\ WithinLimits /\ I!EvidenceInScope

\* SentinelInvestigation counts with the same operator.
LEMMA SamePlanCount == \A S : I!Cardinality(S) = Cardinality(S)
  BY Zenon DEF I!Cardinality, Cardinality

\* The limits of the code, one by one.
LEMMA Limits ==
    /\ MaxRounds \in Nat /\ MaxToolCalls \in Nat /\ PlanLimit \in Nat /\ ToolReserve \in Nat /\ Batch \in Nat
    /\ PlanLimit <= ToolReserve /\ ToolReserve <= MaxToolCalls /\ 1 <= MaxToolCalls
    /\ MaxCalls \in [Tools -> Nat \ {0}] /\ SiteOf \in [Devices -> Sites]
    /\ None \notin Sites /\ None \notin Devices
    /\ Tools \subseteq DOMAIN I!Registry
  BY InvestigationLimits DEF I!InvestigationAssumption

\* The registry has seven tools.
LEMMA ToolsFinite == IsFiniteSet(Tools \cup {Unknown})
<1> DEFINE Names == {"search_logs", "get_device_status", "get_site_clients", "get_incidents",
                     "get_topology", "get_notes", "get_recent_changes"}
<1>1. DOMAIN I!Registry = Names
  BY DEF I!Registry
<1>2. IsFiniteSet(Names)
  <2>1. IsFiniteSet({})
    BY FS_EmptySet
  <2>2. IsFiniteSet({} \cup {"search_logs"})
    BY <2>1, FS_AddElement
  <2>3. IsFiniteSet({} \cup {"search_logs"} \cup {"get_device_status"})
    BY <2>2, FS_AddElement
  <2>4. IsFiniteSet({} \cup {"search_logs"} \cup {"get_device_status"} \cup {"get_site_clients"})
    BY <2>3, FS_AddElement
  <2>5. IsFiniteSet({} \cup {"search_logs"} \cup {"get_device_status"} \cup {"get_site_clients"}
                       \cup {"get_incidents"})
    BY <2>4, FS_AddElement
  <2>6. IsFiniteSet({} \cup {"search_logs"} \cup {"get_device_status"} \cup {"get_site_clients"}
                       \cup {"get_incidents"} \cup {"get_topology"})
    BY <2>5, FS_AddElement
  <2>7. IsFiniteSet({} \cup {"search_logs"} \cup {"get_device_status"} \cup {"get_site_clients"}
                       \cup {"get_incidents"} \cup {"get_topology"} \cup {"get_notes"})
    BY <2>6, FS_AddElement
  <2>8. IsFiniteSet({} \cup {"search_logs"} \cup {"get_device_status"} \cup {"get_site_clients"}
                       \cup {"get_incidents"} \cup {"get_topology"} \cup {"get_notes"} \cup {"get_recent_changes"})
    BY <2>7, FS_AddElement
  <2>9. Names = {} \cup {"search_logs"} \cup {"get_device_status"} \cup {"get_site_clients"}
                   \cup {"get_incidents"} \cup {"get_topology"} \cup {"get_notes"} \cup {"get_recent_changes"}
    OBVIOUS
  <2> QED BY <2>8, <2>9
<1>3. IsFiniteSet(Tools)
  BY <1>1, <1>2, Limits, FS_Subset
<1> QED BY <1>3, FS_AddElement

\* A tool taken off the plan leaves one less, and the plan's length is a number.
LEMMA PlanCount ==
    ASSUME plan \subseteq Tools \cup {Unknown}
    PROVE  Cardinality(plan) \in Nat /\ \A t \in plan : Cardinality(plan \ {t}) = Cardinality(plan) - 1
<1>1. IsFiniteSet(plan)
  BY ToolsFinite, FS_Subset
<1> QED BY <1>1, FS_CardinalityType, FS_RemoveElement

\* SentinelToolBudget.Reserve stays within the tool's rate limit.
LEMMA ReserveKept ==
    ASSUME Counters, WithinLimits, NEW t \in Tools, I!CanReserve(t), I!Reserve(t)
    PROVE  counts' \in [Tools -> Nat] /\ \A u \in Tools : counts'[u] <= MaxCalls[u]
<1>1. counts' = [counts EXCEPT ![t] = @ + 1] /\ counts[t] < MaxCalls[t]
  BY DEF I!CanReserve, I!Reserve
<1>2. counts' \in [Tools -> Nat]
  BY <1>1 DEF Counters
<1>3. counts[t] \in Nat /\ MaxCalls[t] \in Nat
  BY Limits DEF Counters
<1>4. counts'[t] <= MaxCalls[t]
  BY <1>1, <1>3 DEF Counters
<1>5. \A u \in Tools : u # t => counts'[u] = counts[u]
  BY <1>1 DEF Counters
<1> QED BY <1>2, <1>4, <1>5 DEF WithinLimits

\* What a tool returns when the controller gives it the Case's site and device.
LEMMA RowsInScope ==
    ASSUME NEW t \in Tools, NEW s, NEW d, scope.site # None => s = scope.site,
           (scope.device # None /\ I!Registry[t].takesDevice) => d = scope.device
    PROVE  \A r \in I!Rows(t, s, d) :
               /\ scope.site # None => r.site = scope.site
               /\ scope.device # None => r.device \in {scope.device, None}
<1>1. t \in {"search_logs", "get_device_status", "get_incidents", "get_notes", "get_recent_changes"}
      \/ t \in {"get_site_clients", "get_topology"}
  BY Limits DEF I!Registry
<1>2. ASSUME t \in {"search_logs", "get_device_status", "get_incidents", "get_notes", "get_recent_changes"}
      PROVE  I!Registry[t].takesDevice /\ \E S : I!Rows(t, s, d) = I!Where(S, s, d)
  <2>1. I!Registry[t].takesDevice
    BY <1>2 DEF I!Registry, I!Tool
  <2>2. I!Rows(t, s, d) \in {I!Where(I!Inventory, s, d), I!Where(Notes, s, d)}
    BY <1>2 DEF I!Rows, I!SearchLogs, I!GetDeviceStatus, I!GetIncidents, I!GetNotes, I!GetRecentChanges
  <2> QED BY <2>1, <2>2
<1>3. ASSUME t \in {"get_site_clients", "get_topology"}
      PROVE  I!Rows(t, s, d) = {[site |-> s, device |-> None]}
  BY <1>3 DEF I!Rows, I!GetSiteClients, I!GetTopology
<1>4. CASE t \in {"search_logs", "get_device_status", "get_incidents", "get_notes", "get_recent_changes"}
  BY <1>2, <1>4 DEF I!Where
<1>5. CASE t \in {"get_site_clients", "get_topology"}
  BY <1>3, <1>5
<1> QED BY <1>1, <1>4, <1>5

\* The loops, the context compiler's prefetch and whatever the model answers keep
\* the invariant.
LEMMA InvestigationStep == ASSUME InvestigationInv, [I!Next]_I!vars PROVE InvestigationInv'
<1> USE DEF InvestigationInv
<1>a. /\ MaxRounds \in Nat /\ MaxToolCalls \in Nat /\ PlanLimit \in Nat /\ ToolReserve \in Nat /\ Batch \in Nat
      /\ PlanLimit <= ToolReserve /\ ToolReserve <= MaxToolCalls /\ 1 <= MaxToolCalls
  BY Limits
<1>b. Cardinality(plan) \in Nat /\ \A t \in plan : Cardinality(plan \ {t}) = Cardinality(plan) - 1
  BY PlanCount DEF Counters
<1>1. CASE I!Prefetch
  <2>1. /\ pc = "compile" /\ pc' = pc /\ mode = "case"
        /\ UNCHANGED <<mode, scope, round, modelCalls, pending>>
    BY <1>1 DEF I!Prefetch, Counters
  <2>2. PICK t \in plan :
           /\ plan' = plan \ {t}
           /\ \/ UNCHANGED <<counts, calls, seen>>
              \/ I!CanReserve(t) /\ I!Reserve(t) /\ UNCHANGED <<calls, seen>>
              \/ /\ I!CanReserve(t) /\ I!Reserve(t) /\ calls' = calls + 1
                 /\ seen' = seen \cup I!Rows(t, scope.site, scope.device)
    BY <1>1 DEF I!Prefetch
  <2>3. counts' \in [Tools -> Nat] /\ \A u \in Tools : counts'[u] <= MaxCalls[u]
    <3>1. CASE counts' = counts
      BY <3>1 DEF Counters, WithinLimits
    <3>2. CASE I!CanReserve(t) /\ I!Reserve(t)
      BY <3>2, ReserveKept DEF I!CanReserve
    <3> QED BY <2>2, <3>1, <3>2
  <2>4. calls' \in Nat /\ calls' <= calls + 1 /\ plan' \subseteq Tools \cup {Unknown}
    BY <2>2 DEF Counters
  <2>5. Counters'
    BY <2>1, <2>3, <2>4 DEF Counters
  <2>6. Cardinality(plan') = Cardinality(plan) - 1
    BY <1>b, <2>2
  <2>7. WithinLimits'
    BY <1>a, <1>b, <2>1, <2>3, <2>4, <2>6 DEF WithinLimits, Planned, Counters
  <2>8. I!EvidenceInScope'
    <3>1. CASE seen' = seen
      BY <2>1, <3>1 DEF I!EvidenceInScope
    <3>2. CASE t \in Tools /\ seen' = seen \cup I!Rows(t, scope.site, scope.device)
      <4>1. \A r \in I!Rows(t, scope.site, scope.device) :
                /\ scope.site # None => r.site = scope.site
                /\ scope.device # None => r.device \in {scope.device, None}
        BY <3>2, RowsInScope
      <4> QED BY <2>1, <3>2, <4>1 DEF I!EvidenceInScope
    <3> QED BY <2>2, <3>1, <3>2 DEF I!CanReserve
  <2> QED BY <2>5, <2>7, <2>8
<1>2. CASE I!Compiled
  <2>1. /\ pc = "compile" /\ mode = "case" /\ pc' \in {"round", "failed"}
        /\ UNCHANGED <<mode, scope, plan, round, calls, modelCalls, pending, counts, seen>>
    BY <1>2 DEF I!Compiled, Counters
  <2>2. Counters' /\ I!EvidenceInScope'
    BY <2>1 DEF Counters, I!EvidenceInScope
  <2>3. WithinLimits'
    BY <1>a, <1>b, <2>1 DEF WithinLimits, Planned, Counters
  <2> QED BY <2>2, <2>3
<1>3. CASE I!HardwareFirst
  <2>1. /\ pc = "hardware" /\ pc' = "round" /\ mode = "site" /\ calls = 0
        /\ UNCHANGED <<mode, scope, plan, round, modelCalls, pending>>
    BY <1>3 DEF I!HardwareFirst, Counters
  <2>2. \/ UNCHANGED <<calls, counts>>
        \/ /\ I!CanReserve("get_device_status") /\ I!Reserve("get_device_status") /\ calls' = calls + 1
    BY <1>3 DEF I!HardwareFirst
  <2>3. counts' \in [Tools -> Nat] /\ \A u \in Tools : counts'[u] <= MaxCalls[u]
    <3>1. CASE counts' = counts
      BY <3>1 DEF Counters, WithinLimits
    <3>2. CASE I!CanReserve("get_device_status") /\ I!Reserve("get_device_status")
      BY <3>2, ReserveKept DEF I!CanReserve
    <3> QED BY <2>2, <3>1, <3>2
  <2>4. calls' \in {0, 1}
    BY <2>1, <2>2
  <2>5. Counters'
    BY <2>1, <2>3, <2>4 DEF Counters
  <2>6. WithinLimits'
    BY <1>a, <2>1, <2>3, <2>4 DEF WithinLimits
  <2>7. I!EvidenceInScope'
    BY <2>1 DEF I!EvidenceInScope
  <2> QED BY <2>5, <2>6, <2>7
<1>4. CASE I!Round
  <2>1. /\ pc = "round" /\ round < MaxRounds /\ round' = round + 1
        /\ UNCHANGED <<mode, scope, plan, calls, modelCalls, counts, seen>>
    BY <1>4 DEF I!Round
  <2>2. \/ pc' \in {"failed", "done"} /\ pending' = pending
        \/ pending' \in 0..Batch /\ pc' = IF pending' = 0 THEN "done" ELSE "calls"
    BY <1>4 DEF I!Round
  <2>3. pending' \in Nat /\ pc' \in {"failed", "done", "calls"} /\ (pc' = "calls" => pending' > 0)
    BY <1>a, <2>2 DEF Counters
  <2>4. Counters'
    BY <2>1, <2>3 DEF Counters
  <2>5. WithinLimits'
    BY <1>a, <2>1, <2>3 DEF WithinLimits, Planned, Counters
  <2>6. I!EvidenceInScope'
    BY <2>1 DEF I!EvidenceInScope
  <2> QED BY <2>4, <2>5, <2>6
<1>5. CASE I!RoundLimit
  <2>1. /\ pc = "round" /\ pc' = "done"
        /\ UNCHANGED <<mode, scope, plan, round, calls, modelCalls, pending, counts, seen>>
    BY <1>5 DEF I!RoundLimit
  <2> QED BY <2>1 DEF Counters, WithinLimits, Planned, I!EvidenceInScope
<1>6. CASE I!ToolLimit
  <2>1. /\ pc = "calls" /\ pc' = "round" /\ pending' = 0
        /\ UNCHANGED <<mode, scope, plan, round, calls, modelCalls, counts, seen>>
    BY <1>6 DEF I!ToolLimit
  <2> QED BY <2>1 DEF Counters, WithinLimits, Planned, I!EvidenceInScope
<1>7. CASE I!ToolCall
  <2>1. /\ pc = "calls" /\ ~I!LimitReached /\ calls' = calls + 1
        /\ modelCalls' = IF mode = "case" THEN modelCalls + 1 ELSE modelCalls
        /\ pending' = pending - 1 /\ pc' = IF pending = 1 THEN "round" ELSE "calls"
        /\ UNCHANGED <<mode, scope, plan, round>>
    BY <1>7 DEF I!ToolCall
  <2>2. PICK c \in I!Calls :
           \/ UNCHANGED <<counts, seen>>
           \/ I!ValidCall(c) /\ I!CanReserve(c.tool) /\ I!Reserve(c.tool) /\ UNCHANGED seen
           \/ /\ I!ValidCall(c) /\ I!CanReserve(c.tool) /\ I!Reserve(c.tool)
              /\ seen' = seen \cup I!Rows(c.tool, IF mode = "case" THEN I!CaseSite(c) ELSE I!DefaultSite(c),
                                          IF mode = "case" THEN I!CaseDevice(c) ELSE c.device)
    BY <1>7 DEF I!ToolCall
  <2>3. counts' \in [Tools -> Nat] /\ \A u \in Tools : counts'[u] <= MaxCalls[u]
    <3>1. CASE counts' = counts
      BY <3>1 DEF Counters, WithinLimits
    <3>2. CASE I!CanReserve(c.tool) /\ I!Reserve(c.tool)
      BY <3>2, ReserveKept DEF I!CanReserve
    <3> QED BY <2>2, <3>1, <3>2
  <2>4. /\ pending' \in Nat /\ modelCalls' \in Nat /\ calls' \in Nat
        /\ pc' \in {"round", "calls"} /\ (pc' = "calls" => pending' > 0)
    BY <2>1 DEF Counters
  <2>5. Counters'
    BY <2>1, <2>3, <2>4 DEF Counters
  <2>6. WithinLimits'
    <3>1. CASE mode = "case"
      <4>1. modelCalls < MaxToolCalls - ToolReserve
        BY <1>a, <2>1, <3>1 DEF I!LimitReached, Counters
      <4> QED BY <1>a, <2>1, <2>3, <2>4, <3>1, <4>1 DEF WithinLimits, Planned, Counters
    <3>2. CASE mode = "site"
      <4>1. calls < MaxToolCalls
        BY <1>a, <2>1, <3>2 DEF I!LimitReached, Counters
      <4> QED BY <1>a, <2>1, <2>3, <2>4, <3>2, <4>1 DEF WithinLimits, Counters
    <3> QED BY <3>1, <3>2 DEF Counters
  <2>7. I!EvidenceInScope'
    <3>1. CASE seen' = seen \/ mode # "case"
      BY <2>1, <3>1 DEF I!EvidenceInScope
    <3>2. CASE /\ mode = "case" /\ c.tool \in Tools
               /\ seen' = seen \cup I!Rows(c.tool, I!CaseSite(c), I!CaseDevice(c))
      <4>1. scope.site # None => I!CaseSite(c) = scope.site
        BY DEF I!CaseSite
      <4>2. (scope.device # None /\ I!Registry[c.tool].takesDevice) => I!CaseDevice(c) = scope.device
        BY DEF I!CaseDevice
      <4>3. \A r \in I!Rows(c.tool, I!CaseSite(c), I!CaseDevice(c)) :
                /\ scope.site # None => r.site = scope.site
                /\ scope.device # None => r.device \in {scope.device, None}
        BY <3>2, <4>1, <4>2, RowsInScope
      <4> QED BY <2>1, <3>2, <4>3 DEF I!EvidenceInScope
    <3> QED BY <2>2, <3>1, <3>2 DEF I!CanReserve
  <2> QED BY <2>5, <2>6, <2>7
<1>8. CASE UNCHANGED I!vars
  BY <1>8 DEF I!vars, Counters, WithinLimits, Planned, I!EvidenceInScope
<1> QED BY <1>1, <1>2, <1>3, <1>4, <1>5, <1>6, <1>7, <1>8 DEF I!Next

\* Whatever the model asks for and whatever fails: an investigation stays within the
\* limits of rounds, of all tool calls and of each tool, and the evidence of a Case is
\* about its own site and device.
THEOREM InvestigationIsConfined == I!Spec => []InvestigationConfined
<1>a. /\ MaxRounds \in Nat /\ MaxToolCalls \in Nat /\ PlanLimit \in Nat /\ ToolReserve \in Nat
      /\ PlanLimit <= ToolReserve /\ ToolReserve <= MaxToolCalls /\ 1 <= MaxToolCalls
  BY Limits
<1>1. I!Init => InvestigationInv
  <2> SUFFICES ASSUME NEW m \in {"case", "site"}, NEW s \in I!Scope, NEW p \in I!Plans, I!Start(m, s, p),
                      m = "site" => p = {}
               PROVE  InvestigationInv
    <3>1. {} \in I!Plans
      BY SamePlanCount, FS_EmptySet, <1>a DEF I!Plans
    <3> QED BY <3>1 DEF I!Init
  <2>1. /\ mode = m /\ scope = s /\ plan = p /\ pc = (IF m = "case" THEN "compile" ELSE "hardware")
        /\ round = 0 /\ calls = 0 /\ modelCalls = 0 /\ pending = 0
        /\ counts = [t \in Tools |-> 0] /\ seen = {}
    BY DEF I!Start
  <2>2. Counters /\ I!EvidenceInScope
    BY <2>1 DEF Counters, I!EvidenceInScope, I!Plans
  <2>3. Cardinality(plan) <= PlanLimit /\ Cardinality(plan) \in Nat
    BY <2>1, <2>2, SamePlanCount, PlanCount DEF I!Plans, Counters
  <2>4. \A t \in Tools : counts[t] <= MaxCalls[t]
    BY <2>1, Limits
  <2>5. WithinLimits
    BY <1>a, <2>1, <2>3, <2>4 DEF WithinLimits, Planned
  <2> QED BY <2>2, <2>5 DEF InvestigationInv
<1>2. InvestigationInv /\ [I!Next]_I!vars => InvestigationInv'
  BY InvestigationStep
<1>3. InvestigationInv => InvestigationConfined
  <2> SUFFICES ASSUME InvestigationInv PROVE I!BoundedWork /\ I!EvidenceInScope
    BY DEF InvestigationConfined
  <2>1. Planned \in Nat
    BY PlanCount DEF InvestigationInv, Counters, Planned
  <2>2. calls <= MaxToolCalls
    BY <1>a, <2>1 DEF InvestigationInv, Counters, WithinLimits
  <2> QED BY <2>2 DEF InvestigationInv, WithinLimits, I!BoundedWork
<1> QED BY <1>1, <1>2, <1>3, PTL DEF I!Spec
=============================================================================
