-------------------------- MODULE SentinelProposals --------------------------
(***************************************************************************)
(* The approval gate between what Sentinel proposes and what a device runs: *)
(* CreateSentinelProposal, ApproveSentinelProposal, RejectSentinelProposal, *)
(* the 30 minute expiry and the retention sweep.  An approval is three      *)
(* statements, so that two operators, an expiry or a restart can come       *)
(* between them.                                                            *)
(***************************************************************************)
EXTENDS Integers, FiniteSets

CONSTANTS Proposals, Approvers,   \* rows; concurrent approval requests
          None

VARIABLES
    proposal,   \* row of sentinel_proposals, or None
    expired,    \* proposals whose expires_at has passed
    approver,   \* what an approval request is doing
    queued      \* history: operations queued on a device for a proposal

vars == <<proposal, expired, approver, queued>>

Statuses == {"PENDING", "BLOCKED", "APPROVING", "APPROVED", "FAILED", "REJECTED"}
Row == [status : Statuses, reason : BOOLEAN]   \* reason: blocked_reason is set

\* An absent row is none of the rows.
ASSUME NoneAssumption == None \notin Row

TypeOK ==
    /\ proposal \in [Proposals -> Row \cup {None}]
    /\ expired \subseteq Proposals
    /\ approver \in [Approvers -> {None} \cup [p : Proposals, pc : {"claimed", "queued"}]]
    /\ queued \in [Proposals -> Nat]

Init ==
    /\ proposal = [p \in Proposals |-> None]
    /\ expired = {}
    /\ approver = [a \in Approvers |-> None]
    /\ queued = [p \in Proposals |-> 0]

Has(p, status) == proposal[p] # None /\ proposal[p].status = status

\* A draft that is no valid operation is BLOCKED.  One the investigation itself
\* found to be out of scope keeps the reason it was given and is PENDING.
StatusOf(valid) == IF valid THEN "PENDING" ELSE "BLOCKED"

CreateSentinelProposal(p) ==
    /\ proposal[p] = None
    /\ \E valid, outOfScope \in BOOLEAN :
         proposal' = [proposal EXCEPT ![p] =
             [status |-> StatusOf(valid), reason |-> outOfScope \/ ~valid]]
    /\ UNCHANGED <<expired, approver, queued>>

\* Mutant of Claimable: the row is read and not claimed.
ClaimableTwice(p) == (Has(p, "PENDING") \/ Has(p, "APPROVING")) /\ p \notin expired

\* UPDATE ... SET status = 'APPROVING' WHERE status = 'PENDING' AND expires_at > now
Claimable(p) == Has(p, "PENDING") /\ p \notin expired

ApproveClaim(a, p) ==
    /\ approver[a] = None /\ Claimable(p)
    /\ proposal' = [proposal EXCEPT ![p].status = "APPROVING"]
    /\ approver' = [approver EXCEPT ![a] = [p |-> p, pc |-> "claimed"]]
    /\ UNCHANGED <<expired, queued>>

\* QueueDeviceOperation succeeds, or it refuses (the device has other work) or
\* the plan does not decode, and the proposal FAILs.
ApproveQueue(a) ==
    /\ approver[a] # None /\ approver[a].pc = "claimed"
    /\ LET p == approver[a].p IN
         \/ /\ queued' = [queued EXCEPT ![p] = @ + 1]
            /\ approver' = [approver EXCEPT ![a].pc = "queued"]
            /\ UNCHANGED proposal
         \/ /\ proposal' = [proposal EXCEPT ![p] =
                   IF @ = None THEN None ELSE [status |-> "FAILED", reason |-> TRUE]]
            /\ approver' = [approver EXCEPT ![a] = None]
            /\ UNCHANGED queued
    /\ UNCHANGED expired

\* The last statement marks the row, or fails and leaves it APPROVING.
ApproveFinish(a) ==
    /\ approver[a] # None /\ approver[a].pc = "queued"
    /\ LET p == approver[a].p IN
         proposal' \in {proposal, [proposal EXCEPT ![p] =
                           IF @ = None THEN None ELSE [@ EXCEPT !.status = "APPROVED"]]}
    /\ approver' = [approver EXCEPT ![a] = None]
    /\ UNCHANGED <<expired, queued>>

RejectSentinelProposal(p) ==
    /\ Has(p, "PENDING")
    /\ proposal' = [proposal EXCEPT ![p] = [status |-> "REJECTED", reason |-> TRUE]]
    /\ UNCHANGED <<expired, approver, queued>>

Expire(p) ==
    /\ proposal[p] # None /\ p \notin expired
    /\ expired' = expired \cup {p}
    /\ UNCHANGED <<proposal, approver, queued>>

\* SweepSentinelHistory after 90 days: every row that is not PENDING goes,
\* APPROVING ones too.  No approval request lives that long.
Sweep(p) ==
    /\ proposal[p] # None /\ ~Has(p, "PENDING") /\ p \in expired
    /\ \A a \in Approvers : approver[a] # None => approver[a].p # p
    /\ proposal' = [proposal EXCEPT ![p] = None]
    /\ expired' = expired \ {p}
    /\ queued' = [queued EXCEPT ![p] = 0]
    /\ UNCHANGED approver

\* The controller restarts: nobody continues an approval.
Crash ==
    /\ \E a \in Approvers : approver[a] # None
    /\ approver' = [a \in Approvers |-> None]
    /\ UNCHANGED <<proposal, expired, queued>>

Next ==
    \/ \E p \in Proposals : \/ CreateSentinelProposal(p) \/ RejectSentinelProposal(p)
                            \/ Expire(p) \/ Sweep(p)
                            \/ \E a \in Approvers : ApproveClaim(a, p)
    \/ \E a \in Approvers : ApproveQueue(a) \/ ApproveFinish(a)
    \/ Crash

Spec == Init /\ [][Next]_vars

-----------------------------------------------------------------------------
(* Properties *)

\* An approved proposal reaches its device once: whatever two operators, an
\* expiry and a restart do between the three statements of an approval, no
\* proposal is queued twice, and none that was rejected, blocked, failed or is
\* still to be decided has been queued.
QueuedOnce ==
    \A p \in Proposals :
        /\ queued[p] <= 1
        /\ queued[p] = 1 => Has(p, "APPROVING") \/ Has(p, "APPROVED")
        /\ Has(p, "APPROVED") => queued[p] = 1

\* A proposal the controller marked with a blocked reason is not carried out.
BlockedNeverQueued ==
    \A p \in Proposals : proposal[p] # None /\ proposal[p].reason => queued[p] = 0
=============================================================================
