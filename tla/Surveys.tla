------------------------------- MODULE Surveys -------------------------------
(***************************************************************************)
(* Wi-Fi surveys: the life of a survey and of its token, the samples a      *)
(* phone posts, and the worker that pairs samples with the signal the       *)
(* access points report.  The worker swaps its buffer for an empty one and  *)
(* works on the old one without the lock, while surveys are deleted and     *)
(* samples arrive; a sample without a signal goes back to the buffer.       *)
(***************************************************************************)
EXTENDS Naturals, FiniteSets

CONSTANTS Surveys, Samples, None,
          MaxTokens,  \* tokens generated in a behaviour (bound)
          Stale       \* ticks after which a sample is dropped (15 seconds)

VARIABLES
    survey,    \* rows of wifi_surveys
    allow,     \* site_configs.allow_public_surveys
    lockdown,  \* platform_settings.global_surveys_public_lockdown
    drawn,     \* tokens generated so far
    known,     \* keys of workerSchemaCache
    deleting,  \* deletes that have not been committed
    buffer,    \* samples the worker holds
    pending,   \* samples of the flush in progress
    sample,    \* the survey and the age of a sample
    points     \* rows of wifi_survey_points

vars == <<survey, allow, lockdown, drawn, known, deleting, buffer, pending, sample, points>>

Token == 1..MaxTokens
Survey == [status : {"pending", "active", "completed"}, public : BOOLEAN,
           token : Token \cup {None}, revoked : BOOLEAN]

TypeOK ==
    /\ survey \in [Surveys -> Survey \cup {None}]
    /\ allow \in BOOLEAN /\ lockdown \in BOOLEAN /\ drawn \in 0..MaxTokens
    /\ known \subseteq Surveys /\ deleting \subseteq Surveys
    /\ buffer \subseteq Samples /\ pending \subseteq Samples
    /\ sample \in [Samples -> {None} \cup [of : Surveys, age : 0..Stale]]
    /\ points \subseteq Samples \X Surveys

Init ==
    /\ survey = [s \in Surveys |-> None]
    /\ allow \in BOOLEAN /\ lockdown \in BOOLEAN /\ drawn = 0
    /\ known = {} /\ deleting = {}
    /\ buffer = {} /\ pending = {} /\ points = {}
    /\ sample = [x \in Samples |-> None]

Exists(s) == survey[s] # None

-----------------------------------------------------------------------------
(* Handlers *)

\* A public survey needs both switches and gets a token.
CreateSurvey(s, public) ==
    /\ ~Exists(s) /\ s \notin deleting
    /\ public => allow /\ ~lockdown /\ drawn < MaxTokens
    /\ drawn' = IF public THEN drawn + 1 ELSE drawn
    /\ survey' = [survey EXCEPT ![s] = [status |-> "pending", public |-> public,
                    token |-> IF public THEN drawn + 1 ELSE None, revoked |-> FALSE]]
    /\ UNCHANGED <<allow, lockdown, known, deleting, buffer, pending, sample, points>>

\* A survey can be started again after it was stopped, and two at a time.
StartSurvey(s) ==
    /\ Exists(s)
    /\ survey' = [survey EXCEPT ![s].status = "active"]
    /\ known' = known \cup {s}
    /\ UNCHANGED <<allow, lockdown, drawn, deleting, buffer, pending, sample, points>>

\* UnregisterSchema: the entry and what the worker holds of the survey
UnregisterSchema(s) ==
    /\ known' = known \ {s}
    /\ buffer' = {x \in buffer : sample[x].of # s}

StopSurvey(s) ==
    /\ Exists(s)
    /\ survey' = [survey EXCEPT ![s].status = "completed"]
    /\ UnregisterSchema(s)
    /\ UNCHANGED <<allow, lockdown, drawn, deleting, pending, sample, points>>

\* The worker forgets the survey before the transaction is committed ...
DeleteSurvey(s) ==
    /\ Exists(s) /\ s \notin deleting
    /\ deleting' = deleting \cup {s}
    /\ UnregisterSchema(s)
    /\ UNCHANGED <<survey, allow, lockdown, drawn, pending, sample, points>>

\* ... which takes the points along.
CommitDelete(s) ==
    /\ s \in deleting
    /\ deleting' = deleting \ {s}
    /\ survey' = [survey EXCEPT ![s] = None]
    /\ points' = {p \in points : p[2] # s}
    /\ UNCHANGED <<allow, lockdown, drawn, known, buffer, pending, sample>>

RotateToken(s) ==
    /\ Exists(s) /\ survey[s].public /\ drawn < MaxTokens
    /\ drawn' = drawn + 1
    /\ survey' = [survey EXCEPT ![s].token = drawn + 1]
    /\ UNCHANGED <<allow, lockdown, known, deleting, buffer, pending, sample, points>>

\* A rotation does not take the revocation back.
RevokeToken(s) ==
    /\ Exists(s)
    /\ survey' = [survey EXCEPT ![s].revoked = TRUE]
    /\ UNCHANGED <<allow, lockdown, drawn, known, deleting, buffer, pending, sample, points>>

SetSwitches ==
    /\ allow' \in BOOLEAN /\ lockdown' \in BOOLEAN
    /\ UNCHANGED <<survey, drawn, known, deleting, buffer, pending, sample, points>>

\* GetSurvey: the columns it reads do not include survey_token_hash.
Loaded(s) == [survey[s] EXCEPT !.token = None]

\* PostSurveySampleHandler up to the body of the request
Accepts(s, t) ==
    /\ Exists(s) /\ Loaded(s).public
    /\ Loaded(s).token # None /\ Loaded(s).token = t
    /\ ~Loaded(s).revoked /\ Loaded(s).status # "completed"
    /\ allow /\ ~lockdown

-----------------------------------------------------------------------------
(* The worker *)

\* EnqueueGPS and RegisterSchema.  Accepts stands before the only call of them,
\* so the worker is modelled for any caller, as its tests use it.  A sample's age
\* counts from the time its sender wrote on it (one ahead of the controller's clock
\* only waits longer and is left out).
EnqueueGPS(x, s) ==
    /\ sample[x] = None /\ Exists(s)
    /\ \E age \in 0 .. Stale : sample' = [sample EXCEPT ![x] = [of |-> s, age |-> age]]
    /\ buffer' = buffer \cup {x} /\ known' = known \cup {s}
    /\ UNCHANGED <<survey, allow, lockdown, drawn, deleting, pending, points>>

Tick(x) ==
    /\ sample[x] # None /\ sample[x].age < Stale
    /\ sample' = [sample EXCEPT ![x].age = @ + 1]
    /\ UNCHANGED <<survey, allow, lockdown, drawn, known, deleting, buffer, pending, points>>

\* flush takes the whole buffer under the lock ...
Swap ==
    /\ pending = {} /\ buffer # {}
    /\ pending' = buffer /\ buffer' = {}
    /\ UNCHANGED <<survey, allow, lockdown, drawn, known, deleting, sample, points>>

\* resolveSurvey: by the worker's own map, then the row
Resolved(s) == s \in known /\ Exists(s)

\* Mutant of Dropped: old samples are tried again like any other.
DroppedNever(x) == ~Resolved(sample[x].of)

Dropped(x) == ~Resolved(sample[x].of) \/ sample[x].age >= Stale

\* ... and goes through it without: a sample is dropped, stored, lost with a
\* failing insert (the survey may be gone by now), or waits for a signal.
Correlate(x) ==
    /\ x \in pending /\ pending' = pending \ {x}
    /\ \/ Dropped(x) /\ UNCHANGED <<buffer, points>>
       \/ /\ ~Dropped(x) /\ UNCHANGED points
          /\ buffer' \in {buffer, buffer \cup {x}}
       \/ /\ ~Dropped(x) /\ UNCHANGED buffer
          /\ points' = points \cup {<<x, sample[x].of>>}
    /\ UNCHANGED <<survey, allow, lockdown, drawn, known, deleting, sample>>

Next ==
    \/ \E s \in Surveys : \/ StartSurvey(s) \/ StopSurvey(s) \/ DeleteSurvey(s) \/ CommitDelete(s)
                          \/ RotateToken(s) \/ RevokeToken(s)
                          \/ \E public \in BOOLEAN : CreateSurvey(s, public)
                          \/ \E x \in Samples : EnqueueGPS(x, s)
    \/ \E x \in Samples : Tick(x) \/ Correlate(x)
    \/ SetSwitches \/ Swap

\* The worker's ticker and the clock go on.
Fairness == WF_vars(Swap) /\ \A x \in Samples : WF_vars(Correlate(x)) /\ WF_vars(Tick(x))

Spec == Init /\ [][Next]_vars /\ Fairness

-----------------------------------------------------------------------------
(* Properties *)

\* No sample stays in the worker for good: with or without a signal, and however
\* its survey is stopped or deleted while a flush holds it, it is stored or
\* dropped; and a sample that is stored is gone from the worker.
SamplesSettle ==
    /\ \A x \in Samples : (x \in buffer \cup pending) ~> [](x \notin buffer \cup pending)
    /\ [](\A p \in points : p[1] \notin buffer \cup pending)

\* "Records first_seen IP+UA, forwards to survey worker for correlation": a phone
\* with the current token of an active public survey gets its samples in.
SamplesAccepted ==
    \A s \in Surveys :
        (/\ Exists(s) /\ survey[s].public /\ survey[s].status = "active" /\ ~survey[s].revoked
         /\ allow /\ ~lockdown)
        => Accepts(s, survey[s].token)
=============================================================================
