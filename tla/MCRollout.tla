------------------------------ MODULE MCRollout ------------------------------
(* Rollout on small sites: the target sets and process symmetry.             *)
EXTENDS Rollout, TLC

AllDevices == {Devices}

\* All of the site, or one device of it (target_device_id of a preview).
SomeDevices == AllDevices \cup {{d} : d \in Devices}

ProcessSymmetry == Permutations(Workers) \cup Permutations(Handlers)
=============================================================================
