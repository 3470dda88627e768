---------------------------- MODULE SentinelSkills ----------------------------
(***************************************************************************)
(* Learned skills: DRAFT, VALIDATED, SHADOW, TRUSTED, DEPRECATED, REVOKED.  *)
(* Promotion reads the statistics of the skill's evaluations and then       *)
(* writes with a compare-and-set on the state, so that evaluations, other   *)
(* promotions and a revocation overlap.  A score is 0 or 1.                 *)
(***************************************************************************)
EXTENDS Integers, FiniteSets, FiniteSetsExt

CONSTANTS Skills, Cases, Requests, None, MinReplay, MinShadow

VARIABLES
    skill,     \* [state, tools] of a skill: the tools its spec names
    eval,      \* latest evaluation per mode and Case: "none", "hit", "miss"
    request,   \* a promotion between reading the statistics and its update
    ever       \* history: the Cases a skill was ever evaluated on, per mode

vars == <<skill, eval, request, ever>>

Modes == {"REPLAY", "SHADOW"}
States == {"none", "DRAFT", "VALIDATED", "SHADOW", "TRUSTED", "DEPRECATED", "REVOKED"}

\* A spec names tools of the registry or others, or none at all.
Specs == SUBSET {"registered", "other"}

\* ValidateSentinelSkillSpec: some tools, each registered and read-only.
ValidSpec(tools) == tools # {} /\ tools \subseteq {"registered"}

TypeOK ==
    /\ skill \in [Skills -> [state : States, tools : Specs]]
    /\ eval \in [Skills -> [Modes -> [Cases -> {"none", "hit", "miss"}]]]
    /\ request \in [Requests -> {None} \cup [s : Skills, from : States, to : States]]
    /\ ever \in [Skills -> [Modes -> SUBSET Cases]]

Init ==
    /\ skill = [s \in Skills |-> [state |-> "none", tools |-> {}]]
    /\ eval = [s \in Skills |-> [m \in Modes |-> [c \in Cases |-> "none"]]]
    /\ request = [q \in Requests |-> None]
    /\ ever = [s \in Skills |-> [m \in Modes |-> {}]]

\* CreateSentinelSkillDraft: any spec a model or an operator writes.
Draft(s) ==
    /\ skill[s].state = "none"
    /\ \E tools \in Specs : skill' = [skill EXCEPT ![s] = [state |-> "DRAFT", tools |-> tools]]
    /\ UNCHANGED <<eval, request, ever>>

\* ValidateSentinelSkill
Validate(s) ==
    /\ skill[s].state = "DRAFT" /\ ValidSpec(skill[s].tools)
    /\ skill' = [skill EXCEPT ![s].state = "VALIDATED"]
    /\ UNCHANGED <<eval, request, ever>>

\* recordSentinelSkillEvaluation of a skill that matches the Case
Record(s, mode, c, r) ==
    /\ eval' = [eval EXCEPT ![s][mode][c] = r]
    /\ ever' = [ever EXCEPT ![s][mode] = @ \cup {c}]
    /\ UNCHANGED <<skill, request>>

\* ReplaySentinelSkill on a past Case; the same question again finds the row it
\* left, another as_of may judge the Case anew.
Replay(s, c) ==
    /\ skill[s].state \in {"VALIDATED", "SHADOW"}
    /\ \E r \in {"hit", "miss"} : Record(s, "REPLAY", c, r)

\* EvaluateSentinelShadowSkills after an investigation of the Case
Shadow(s, c) ==
    /\ skill[s].state = "SHADOW"
    /\ \E r \in {"hit", "miss"} : Record(s, "SHADOW", c, r)

Count(s, mode, r) == Cardinality({c \in Cases : eval[s][mode][c] = r})

\* sentinelSkillPromotionStats: distinct Cases, and four of five must be hits.
Enough(s, mode, min) ==
    LET hits == Count(s, mode, "hit")
        all == hits + Count(s, mode, "miss")
    IN  all >= min /\ 10 * hits >= 8 * all

CanEnterShadow(s) == Enough(s, "REPLAY", MinReplay)

CanPromote(s) == CanEnterShadow(s) /\ Enough(s, "SHADOW", MinShadow)

Ask(q, s, from, to) ==
    /\ request[q] = None /\ skill[s].state = from
    /\ request' = [request EXCEPT ![q] = [s |-> s, from |-> from, to |-> to]]
    /\ UNCHANGED <<skill, eval, ever>>

\* StartSentinelSkillShadow
StartShadow(q, s) == CanEnterShadow(s) /\ Ask(q, s, "VALIDATED", "SHADOW")

\* PromoteSentinelSkill validates the spec again.
Promote(q, s) == ValidSpec(skill[s].tools) /\ CanPromote(s) /\ Ask(q, s, "SHADOW", "TRUSTED")

\* Mutant of StillIn: the update does not look at the state.
InAnyState(t) == TRUE

\* transitionSentinelSkillState: UPDATE ... WHERE state = from
StillIn(t) == skill[t.s].state = t.from

Transition(q) ==
    /\ request[q] # None
    /\ LET t == request[q] IN
         skill' = IF StillIn(t) THEN [skill EXCEPT ![t.s].state = t.to] ELSE skill
    /\ request' = [request EXCEPT ![q] = None]
    /\ UNCHANGED <<eval, ever>>

DeprecateSentinelSkill(s) ==
    /\ skill[s].state = "TRUSTED"
    /\ skill' = [skill EXCEPT ![s].state = "DEPRECATED"]
    /\ UNCHANGED <<eval, request, ever>>

\* RevokeSentinelSkill, from every state
Revoke(s) ==
    /\ skill[s].state \notin {"none", "REVOKED"}
    /\ skill' = [skill EXCEPT ![s].state = "REVOKED"]
    /\ UNCHANGED <<eval, request, ever>>

\* A Case other than the skill's own is swept with its evaluations.
DeleteCase(c) ==
    /\ \E s \in Skills, m \in Modes : eval[s][m][c] # "none"
    /\ eval' = [s \in Skills |-> [m \in Modes |-> [eval[s][m] EXCEPT ![c] = "none"]]]
    /\ UNCHANGED <<skill, request, ever>>

Next ==
    \/ \E s \in Skills : Draft(s) \/ Validate(s) \/ DeprecateSentinelSkill(s) \/ Revoke(s)
    \/ \E s \in Skills, c \in Cases : Replay(s, c) \/ Shadow(s, c)
    \/ \E q \in Requests, s \in Skills : StartShadow(q, s) \/ Promote(q, s)
    \/ \E q \in Requests : Transition(q)
    \/ \E c \in Cases : DeleteCase(c)

Spec == Init /\ [][Next]_vars

-----------------------------------------------------------------------------
(* Properties *)

\* A skill that shapes investigations names registered tools only, and was
\* judged on enough different Cases both in replay and in shadow: no order of
\* requests, repetitions or deletions trusts one that was not.
TrustEarned ==
    \A s \in Skills : skill[s].state = "TRUSTED" =>
        /\ ValidSpec(skill[s].tools)
        /\ Cardinality(ever[s]["REPLAY"]) >= MinReplay
        /\ Cardinality(ever[s]["SHADOW"]) >= MinShadow

\* Revocation is final: a promotion that was under way does not undo it.
RevokedStays ==
    [][\A s \in Skills : skill[s].state = "REVOKED" => skill'[s].state = "REVOKED"]_vars
=============================================================================
