--------------------------- MODULE MCAgentJournal ---------------------------
(* AgentJournal with two or three items of chosen kinds, on two namespaces.  *)
EXTENDS AgentJournal

Multis == [i \in Items |-> "multi"]

Operations == [i \in Items |-> "operation"]

EveryKind == <<"operation", "multi", "single">>

OnFirst == [i \in Items |-> {1}]

Overlapping == <<{1}, {1, 2}, {2}>>

\* Ids in the order of the items, and not.
InOrder == [i \in Items |-> i]

Backwards == [i \in Items |-> NumItems - i]

OnBoth == [i \in Items |-> {1, 2}]

=============================================================================
