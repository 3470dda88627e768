---------------------------- MODULE MCDeviceQueue ----------------------------
(* DeviceQueue with two operations, two change sets and two plans.           *)
EXTENDS DeviceQueue, TLC

\* Ids of a kind, and plans, are only ever compared for equality.
Symmetry == Permutations(OpIds) \cup Permutations(CsIds)
              \cup Permutations(Hashes) \cup Permutations(Rollouts)
=============================================================================
