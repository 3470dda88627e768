------------------------------- MODULE MCAccess -------------------------------
(* The models of AccessParts on small instances, in one run.                    *)
EXTENDS AccessParts, TLC

CONSTANTS d1, d2, t1, t2

\* Two tenants with a device each.
HomeOf == (d1 :> t1) @@ (d2 :> t2)

\* As the tenants are alike, t1 is the oldest.
MCInit == PartInit /\ tenant[t1].row

MCSpec == MCInit /\ [][PartNext]_allVars
=============================================================================
