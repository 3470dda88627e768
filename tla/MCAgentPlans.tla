---------------------------- MODULE MCAgentPlans ----------------------------
(* AgentJournal with three change sets and an operation between them on one    *)
(* namespace, in one run: commands may fail (`plan' is "fails"), or they work  *)
(* (`plan' is "ends").  Two instances of one module on the same variables.     *)
(* Fairness is a premise of what must end.                                     *)
EXTENDS AgentJournal

VARIABLE plan

E == INSTANCE AgentJournal WITH Failures <- FALSE

OneOperation == [i \in Items |-> IF i = 2 THEN "operation" ELSE "single"]

OnOne == [i \in Items |-> {1}]

InOrder == [i \in Items |-> i]

PlanInit == /\ plan \in {"fails", "ends"}
            /\ Init

PlanNext == /\ UNCHANGED plan
            /\ \/ plan = "fails" /\ Next
               \/ plan = "ends" /\ E!Next

PlanSpec == PlanInit /\ [][PlanNext]_<<plan, vars>>

-----------------------------------------------------------------------------
(* Properties: ChangeSetsTruthful and FailedRecoveryFences of AgentJournal, and *)
(* what must end.                                                              *)

\* As long as commands and restarts work, every transaction that has started ends,
\* and every change set is answered, whichever write a crash hits.
JournalEnds == plan = "ends" /\ E!Fairness => E!StartedEnds /\ E!EveryChangeSetAnswered
=============================================================================
