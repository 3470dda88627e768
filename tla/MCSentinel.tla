------------------------------ MODULE MCSentinel ------------------------------
(* Sentinel's models on small instances, in one run.                           *)
EXTENDS SentinelParts, TLC

CONSTANTS d1, d2, s1, s2, c1, c2

ThreeTools == {"get_device_status", "get_topology", "get_notes"}

TwoEach == [t \in Tools |-> 2]

\* Two sites with a device each, and a note filed under each of the columns.
SiteOfEach == (d1 :> s1) @@ (d2 :> s2)

NoteOfEach == {[site |-> s1, device |-> d2], [site |-> None, device |-> d1]}

\* Two Cases of two sites.
ScopeOfEach == (c1 :> [site |-> s1, device |-> None]) @@ (c2 :> [site |-> s2, device |-> None])

OptionalClasses == {"curation", "frontier_escalation"}
=============================================================================
