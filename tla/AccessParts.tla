------------------------------ MODULE AccessParts ------------------------------
(***************************************************************************)
(* How devices, users and phones get in, side by side: enrollment, users    *)
(* with their tickets and tenants, survey tokens and samples, WireGuard     *)
(* tunnels.  The models share no state.  `part' says which of them runs in  *)
(* a behaviour; the others stay in an initial state.  The fairness of a     *)
(* model is a premise of its liveness property.  Access is extended, the    *)
(* others are instances.                                                    *)
(***************************************************************************)
EXTENDS Access

CONSTANTS
    \* Enrollment
    Routers, Sites, Nonces, MaxTokens, MaxFlashes,
    \* Surveys
    Surveys, Samples, Stale,
    \* Tunnels
    Peers, Gateways, Requests, Endpoints, Limit, MaxChanges, MaxFaults

VARIABLES
    part,
    legacy, site, device, nonces, agent, requests, upserts, pulls, drawn, handed, flashed,
    survey, allow, lockdown, tokens, known, deleting, buffer, pending, sample, points,
    row, wgSite, keys, request, waits, got, wg, hash, last, changes, faults

E == INSTANCE Enrollment WITH Devices <- Routers, issued <- handed

S == INSTANCE Surveys WITH drawn <- tokens

W == INSTANCE Tunnels WITH Devices <- Peers, site <- wgSite, drawn <- keys

\* A row, a token or a router that is absent is none of those that are present.
ASSUME EnrollmentAssumption ==
    /\ MaxTokens \in Nat /\ MaxFlashes \in Nat
    /\ None \notin Nat /\ None \notin Routers /\ None \notin E!Site /\ None \notin E!Device

enrollmentVars == <<legacy, site, device, nonces, agent, requests, upserts, pulls, drawn, handed, flashed>>
surveysVars == <<survey, allow, lockdown, tokens, known, deleting, buffer, pending, sample, points>>
tunnelsVars == <<row, wgSite, keys, request, waits, got, wg, hash, last, changes, faults>>
allVars == <<part, enrollmentVars, vars, surveysVars, tunnelsVars>>

\* A model that has several initial states and does not run stays in a fixed one.
PartInit ==
    /\ part \in {"enrollment", "access", "surveys", "tunnels"}
    /\ E!Init /\ (part # "enrollment" => ~legacy /\ \A d \in Routers : device[d] = None)
    /\ Init /\ (part # "access" => \A u \in Users : user[u].tenant = None)
    /\ S!Init /\ (part # "surveys" => ~allow /\ ~lockdown)
    /\ W!Init

PartNext ==
    /\ UNCHANGED part
    /\ IF part = "enrollment" THEN E!Next ELSE UNCHANGED enrollmentVars
    /\ IF part = "access" THEN Next ELSE UNCHANGED vars
    /\ IF part = "surveys" THEN S!Next ELSE UNCHANGED surveysVars
    /\ IF part = "tunnels" THEN W!Next ELSE UNCHANGED tunnelsVars

-----------------------------------------------------------------------------
(* Properties: those of the models.  ShellsBound is that of Access. *)

\* A router whose enrollment was committed and whose answer was lost gets the
\* same answer when it asks again, and no device joins a site with a token that
\* was rotated or revoked in between (Enrollment).
EnrollmentKept == []E!RetryAnswered /\ E!EnrollmentFenced

\* A tenant gets its schema or loses its row, unless its migrations failed and the
\* row stayed (Access).
TenantsProvisioned == part = "access" /\ Fairness => Provisioned

\* No sample stays in the worker for good (Surveys).
SamplesSettle == part = "surveys" /\ S!Fairness => S!SamplesSettle

\* Gateways end up with the tunnel the controller has stored (Tunnels).
TunnelsSettle == part = "tunnels" /\ W!Fairness => W!TunnelsSettle
=============================================================================
