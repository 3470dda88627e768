----------------------------- MODULE ModelRouting -----------------------------
(***************************************************************************)
(* Which endpoint a piece of Sentinel reasoning is sent to, and with which  *)
(* key.  The platform's settings and the environment of each reasoning      *)
(* class are arbitrary; a request walks its chain of classes until an       *)
(* endpoint answers.  An endpoint is "local" or "remote" by its URL; names  *)
(* of models are left out, only whether one is configured is kept.          *)
(***************************************************************************)
EXTENDS Integers, Sequences, SequencesExt

CONSTANTS None    \* a variable or column that is not set

Routine == "routine"
DeepRCA == "deep_rca"
Optional == {"curation", "frontier_escalation"}
Investigation == "investigation"    \* the platform-wide engine, no class of its own

Urls == {"local", "remote"}
Env == [base : Urls \cup {None}, model : BOOLEAN, key : BOOLEAN, local : {None, TRUE, FALSE}]
Unset == [base |-> None, model |-> FALSE, key |-> FALSE, local |-> None]

VARIABLES
    platform,  \* AIEngineBaseURL, AIEngineModel, AIEngineAPIKey
    env,       \* SENTINEL_<CLASS>_BASE_URL, _MODEL, _API_KEY, _LOCAL
    chain,     \* classes still to be tried
    class,     \* the class that was asked for
    sent       \* requests made: [class, owner of the endpoint, url, declared, owner of the key]

vars == <<platform, env, chain, class, sent>>

Classes == {Routine, DeepRCA} \cup Optional
Send == [class : Classes \cup {Investigation}, base : {"platform", "override", "default"}, url : Urls,
         local : BOOLEAN, key : {None, "platform", "override"}]

TypeOK ==
    /\ platform \in [base : Urls \cup {None}, model : BOOLEAN, key : BOOLEAN]
    /\ env \in [Classes -> Env]
    /\ class \in Classes \cup {Investigation}
    /\ chain \in Seq(Classes \cup {Investigation}) /\ sent \subseteq Send

\* sentinelReasoningRouteChain: deep analysis falls back to the routine class.
Chain(c) == IF c = DeepRCA THEN <<DeepRCA, Routine>> ELSE <<c>>

\* ClassifySentinelReasoning gives operators and automation one of the first two;
\* only the queue of optional tasks asks for the others.
Init ==
    /\ platform \in [base : Urls \cup {None}, model : BOOLEAN, key : BOOLEAN]
    /\ class \in Classes \cup {Investigation}
    /\ chain = Chain(class)
    /\ \E f \in [Range(Chain(class)) \cap Classes -> Env] :
         env = [c \in Classes |-> IF c \in DOMAIN f THEN f[c] ELSE Unset]
    /\ sent = {}

\* resolveSentinelModelRouteWithEnv, in its order
Url(c) == IF env[c].base # None THEN env[c].base ELSE platform.base

\* Mutant of Key: the platform key fills in wherever a class has none.
KeyAnywhere(c) == IF env[c].key THEN "override" ELSE IF platform.key THEN "platform" ELSE None

Key(c) == IF env[c].key THEN "override"
          ELSE IF env[c].base = None /\ platform.key THEN "platform" ELSE None

HasModel(c) == \/ env[c].model
               \/ c = Routine /\ platform.model
               \/ c = DeepRCA /\ (env[Routine].model \/ platform.model)

\* sentinelURLIsLocal, unless the operator declares the route local or not.
IsLocal(c) == IF env[c].local # None THEN env[c].local ELSE Url(c) = "local"

Resolves(c) ==
    /\ HasModel(c) /\ Url(c) # None
    /\ c \in {Routine, DeepRCA} => IsLocal(c)
    /\ ~IsLocal(c) => Key(c) # None

\* completeSentinelReasoningContext: a class that does not resolve, or whose
\* endpoint fails, passes to the next of its chain.
Skip ==
    /\ chain # <<>> /\ Head(chain) \in Classes /\ ~Resolves(Head(chain))
    /\ chain' = Tail(chain)
    /\ UNCHANGED <<platform, env, class, sent>>

Request ==
    /\ chain # <<>> /\ Head(chain) \in Classes /\ Resolves(Head(chain))
    /\ LET c == Head(chain) IN
         sent' = sent \cup {[class |-> class, base |-> IF env[c].base # None THEN "override" ELSE "platform",
                             url |-> Url(c), local |-> IsLocal(c), key |-> Key(c)]}
    /\ chain' \in {<<>>, Tail(chain)}
    /\ UNCHANGED <<platform, env, class>>

\* completeAIContext, which the investigations of incident and flow Cases use:
\* the platform's endpoint, or the vendor's when none is set.
LegacyUrl == IF platform.base = None THEN "remote" ELSE platform.base
LegacyRequest ==
    /\ chain = <<Investigation>> /\ chain' = <<>>
    /\ sent' = IF platform.key \/ LegacyUrl = "local"
               THEN {[class |-> Investigation, base |-> IF platform.base = None THEN "default" ELSE "platform",
                      url |-> LegacyUrl, local |-> LegacyUrl = "local",
                      key |-> IF platform.key THEN "platform" ELSE None]}
               ELSE {}
    /\ UNCHANGED <<platform, env, class>>

Next == Skip \/ Request \/ LegacyRequest

Spec == Init /\ [][Next]_vars

-----------------------------------------------------------------------------
(* Properties *)

\* Through every fallback and however the routes are configured: routine work
\* and deep analysis only reach an endpoint that is local or was declared so,
\* nothing leaves the site without a key, and the platform's key is never given
\* to an endpoint of a class's own.
RoutesKept ==
    \A s \in sent :
        /\ s.class \in {Routine, DeepRCA} => s.local
        /\ s.key = None => s.local
        /\ s.key = "platform" => s.base # "override"

\* "Sentinel investigations use completeSentinelReasoningContext": no
\* investigation is sent to an endpoint that is not local.
InvestigationsStayLocal ==
    \A s \in sent : s.class \in {Routine, DeepRCA, Investigation} => s.local
=============================================================================
