---------------------------- MODULE MCRolloutPlans ----------------------------
(* Rollout on a site of two devices, in one run: rollouts over SSH by two      *)
(* requests at a time, beside an operation of the queue (`plan' is "ssh"), or  *)
(* rollouts of both kinds with a worker and one request at a time and without  *)
(* operations (`plan' is "mixed").  The rest of Rollout is as it stands.       *)
EXTENDS Rollout, TLC

VARIABLE plan

AllDevices == {Devices}

PlanInit == /\ Init
            /\ plan \in {"ssh", "mixed"}
            /\ \A d \in Devices : rows[d].capable = (plan = "mixed")

Planned == IF plan = "ssh"
           THEN \A r \in RunIds : runs[r].kind = "ssh"
           ELSE /\ \E h \in Handlers : \A g \in Handlers \ {h} : handlers[g].pc = "idle"
                /\ \A d \in Devices : rows[d].pendingOp = NoWork

PlanNext == Next /\ UNCHANGED plan /\ Planned'

PlanSpec == PlanInit /\ [][PlanNext]_<<vars, plan>>

ProcessSymmetry == Permutations(Handlers)
=============================================================================
