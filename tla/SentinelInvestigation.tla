------------------------ MODULE SentinelInvestigation ------------------------
(***************************************************************************)
(* One investigation of the Sentinel agent: a model, which may answer       *)
(* anything, asks the controller for read-only tools.  Two loops are        *)
(* modelled, runSentinelInvestigationForCase (mode "case", with the context *)
(* compiler's prefetch) and runSentinelInvestigationForSite (mode "site").  *)
(*                                                                         *)
(* What the model says is an arbitrary choice.  Prompts, answers and the    *)
(* rows' contents are left out; a row is the site and device it is about.   *)
(***************************************************************************)
EXTENDS Integers, FiniteSets

CONSTANTS
    Tools,          \* the registry's tools that plans and models ask for
    Unknown,        \* a name the registry does not know
    MaxCalls,       \* rate limit of a tool per investigation
    Devices, Sites, \* inventory
    SiteOf,         \* the site of a device
    Notes,          \* operator notes: the site and the device they are filed under
    None,           \* the empty string: no site, no device, no proposal
    MaxRounds, MaxToolCalls, PlanLimit, ToolReserve,
    Batch           \* most calls in one answer of the model (bound)

\* sentinelToolRegistry: required_scope = site, and device_id in the input schema.
Tool(site, device) == [siteScoped |-> site, takesDevice |-> device]
Registry == [search_logs        |-> Tool(FALSE, TRUE),
             get_device_status  |-> Tool(FALSE, TRUE),
             get_site_clients   |-> Tool(TRUE, FALSE),
             get_incidents      |-> Tool(FALSE, TRUE),
             get_topology       |-> Tool(TRUE, FALSE),
             get_notes          |-> Tool(FALSE, TRUE),
             get_recent_changes |-> Tool(FALSE, TRUE)]

Row == [site : Sites \cup {None}, device : Devices \cup {None}]

\* What the registry and the limits of the code satisfy.
InvestigationAssumption ==
    /\ Tools \subseteq DOMAIN Registry /\ Unknown \notin DOMAIN Registry
    /\ Notes \subseteq Row
    /\ MaxCalls \in [Tools -> Nat \ {0}]
    /\ SiteOf \in [Devices -> Sites]
    /\ None \notin Sites /\ None \notin Devices
    /\ {MaxRounds, MaxToolCalls, PlanLimit, ToolReserve, Batch} \subseteq Nat
    /\ PlanLimit <= ToolReserve /\ ToolReserve <= MaxToolCalls
    /\ 1 <= MaxToolCalls

VARIABLES
    mode,      \* "case" or "site"
    scope,     \* site and device of the Case (mode "case"), site of the request (mode "site")
    pc,        \* where the loop is
    plan,      \* tools the context compiler still wants to inspect
    round,     \* rounds begun
    calls,     \* result.ToolCalls
    modelCalls,\* modelToolCalls of the Case loop
    pending,   \* calls of the model's last answer not yet looked at
    counts,    \* SentinelToolBudget.counts
    seen,      \* what the collected evidence is about
    proposal   \* result.Proposal: None or [device, blocked]

vars == <<mode, scope, pc, plan, round, calls, modelCalls, pending, counts, seen, proposal>>

Draft == [device : Devices, blocked : BOOLEAN]
Scope == [site : Sites \cup {None}, device : Devices \cup {None}]

TypeOK ==
    /\ mode \in {"case", "site"} /\ scope \in Scope
    /\ pc \in {"compile", "hardware", "round", "calls", "done", "failed"}
    /\ plan \subseteq Tools \cup {Unknown}
    /\ round \in Nat /\ calls \in Nat /\ modelCalls \in Nat /\ pending \in Nat
    /\ counts \in [Tools -> Nat]
    /\ seen \subseteq Row
    /\ proposal \in Draft \cup {None}

-----------------------------------------------------------------------------
(* The registry *)

\* SentinelToolBudget.Reserve
CanReserve(t) == t \in Tools /\ counts[t] < MaxCalls[t]
Reserve(t) == counts' = [counts EXCEPT ![t] = @ + 1]

\* ValidateModelCall: the name is registered and the arguments fit the tool's
\* closed schema, so a tool without device_id is refused one.
ValidCall(c) == /\ c.tool \in Tools /\ c.wellFormed
                /\ c.device # None => Registry[c.tool].takesDevice

\* Execute refuses a site-scoped tool without a site.
Executable(t, site) == Registry[t].siteScoped => site # None

\* WHERE site_id = ... AND device_id = ..., each only when the argument is given.
Where(rows, site, device) ==
    {r \in rows : (site # None => r.site = site) /\ (device # None => r.device = device)}
Inventory == {[site |-> SiteOf[d], device |-> d] : d \in Devices}

\* The handlers of the registry.  Logs take their site from the device they are
\* joined with; incidents were filed under their device's site; clients and
\* topology are summaries of one site; notes have a site and a device of their own.
SearchLogs(site, device) == Where(Inventory, site, device)
GetDeviceStatus(site, device) == Where(Inventory, site, device)
GetSiteClients(site) == {[site |-> site, device |-> None]}
GetIncidents(site, device) == Where(Inventory, site, device)
GetTopology(site) == {[site |-> site, device |-> None]}
GetNotes(site, device) == Where(Notes, site, device)
GetRecentChanges(site, device) == Where(Inventory, site, device)

Rows(t, site, device) ==
    CASE t = "search_logs"        -> SearchLogs(site, device)
      [] t = "get_device_status"  -> GetDeviceStatus(site, device)
      [] t = "get_site_clients"   -> GetSiteClients(site)
      [] t = "get_incidents"      -> GetIncidents(site, device)
      [] t = "get_topology"       -> GetTopology(site)
      [] t = "get_notes"          -> GetNotes(site, device)
      [] t = "get_recent_changes" -> GetRecentChanges(site, device)

\* Mutant of CaseSite: the Case's site is a default only.
CaseSiteDefault(c) == IF c.site = None THEN scope.site ELSE c.site

\* sentinelToolArgumentsForCaseCall: the Case's site and device replace the
\* model's wherever the tool takes them.
CaseSite(c) == IF scope.site # None THEN scope.site ELSE c.site
CaseDevice(c) ==
    IF scope.device # None /\ Registry[c.tool].takesDevice THEN scope.device ELSE c.device

\* SentinelToolArgumentsWithSite: the request's site is a default only.
DefaultSite(c) == IF c.site = None THEN scope.site ELSE c.site

\* What the model may ask for.
Calls == [tool : Tools \cup {Unknown}, site : Sites \cup {None},
          device : Devices \cup {None}, wellFormed : BOOLEAN]

-----------------------------------------------------------------------------
(* The loops *)

\* sentinelContextToolPlan picks tools by keywords of the query and the Case,
\* and CompileSentinelCaseContext adds those of trusted skills up to the same
\* limit: any few tools.
Plans == {p \in SUBSET (Tools \cup {Unknown}) : Cardinality(p) <= PlanLimit}

Start(m, s, p) ==
    /\ mode = m /\ scope = s /\ plan = p
    /\ pc = IF m = "case" THEN "compile" ELSE "hardware"
    /\ round = 0 /\ calls = 0 /\ modelCalls = 0 /\ pending = 0
    /\ counts = [t \in Tools |-> 0]
    /\ seen = {} /\ proposal = None

\* A Case with a device knows the device's site or none (the columns are set
\* together when the Case is opened); a request has a site at most.
Init ==
    \/ \E s \in Scope, p \in Plans :
          /\ s.device # None => s.site \in {None, SiteOf[s.device]}
          /\ Start("case", s, p)
    \/ \E s \in Scope : s.device = None /\ Start("site", s, {})

\* CompileSentinelCaseContext inspects one tool of the plan: unregistered or
\* over its rate limit, failed, or read with the Case's scope.
Prefetch ==
    /\ pc = "compile" /\ plan # {}
    /\ \E t \in plan :
         /\ plan' = plan \ {t}
         /\ \/ ~CanReserve(t) /\ UNCHANGED <<counts, calls, seen>>
            \/ CanReserve(t) /\ Reserve(t) /\ UNCHANGED <<calls, seen>>
            \/ /\ CanReserve(t) /\ Reserve(t) /\ Executable(t, scope.site)
               /\ calls' = calls + 1
               /\ seen' = seen \cup Rows(t, scope.site, scope.device)
    /\ UNCHANGED <<mode, scope, pc, round, modelCalls, pending, proposal>>

\* The context is compiled; loading the Case, or its site having changed, ends
\* the investigation here.
Compiled ==
    /\ pc = "compile"
    /\ \/ plan = {} /\ pc' = "round"
       \/ pc' = "failed"
    /\ UNCHANGED <<mode, scope, plan, round, calls, modelCalls, pending, counts, seen, proposal>>

\* A question about hardware reads the site's devices before the first round.
HardwareFirst ==
    /\ pc = "hardware" /\ pc' = "round"
    /\ \/ UNCHANGED <<calls, counts, seen>>
       \/ /\ scope.site # None
          /\ calls' = calls + 1
          /\ CanReserve("get_device_status") /\ Reserve("get_device_status")
          /\ seen' \in {seen, seen \cup GetDeviceStatus(scope.site, None)}
    /\ UNCHANGED <<mode, scope, plan, round, modelCalls, pending, proposal>>

\* sentinelCaseAllowsProposal
InCaseScope(d) == /\ scope.device # None => d = scope.device
                  /\ scope.site # None => SiteOf[d] = scope.site

\* A draft gets a blocked reason when it is no valid operation or, in the Case
\* loop, when it targets a device outside the Case.
Judged(d, valid) ==
    [device |-> d, blocked |-> ~valid \/ (mode = "case" /\ ~InCaseScope(d))]

\* Mutant of Round: a round that brings nothing new is not counted.
RoundUncounted ==
    /\ pc = "round" /\ round < MaxRounds
    /\ \E n \in 0..Batch :
         /\ round' = IF n = Batch THEN round ELSE round + 1
         /\ pending' = n /\ proposal' = proposal
         /\ pc' = IF n = 0 THEN "done" ELSE "calls"
    /\ UNCHANGED <<mode, scope, plan, calls, modelCalls, counts, seen>>

\* One answer of the model: a timeout or error, unreadable text, or an envelope
\* with or without a proposal and with any number of tool calls.
Round ==
    /\ pc = "round" /\ round < MaxRounds
    /\ round' = round + 1
    /\ \/ pc' = "failed" /\ UNCHANGED <<pending, proposal>>
       \/ pc' = "done" /\ UNCHANGED <<pending, proposal>>
       \/ /\ proposal' \in {proposal} \cup {Judged(d, v) : d \in Devices, v \in BOOLEAN}
          /\ pending' \in 0..Batch
          /\ pc' = IF pending' = 0 THEN "done" ELSE "calls"
    /\ UNCHANGED <<mode, scope, plan, calls, modelCalls, counts, seen>>

\* The round limit ends the loop with the evidence collected so far.
RoundLimit ==
    /\ pc = "round" /\ round = MaxRounds /\ pc' = "done"
    /\ UNCHANGED <<mode, scope, plan, round, calls, modelCalls, pending, counts, seen, proposal>>

\* The Case loop keeps room for the prefetch in the global limit.
LimitReached == IF mode = "case" THEN modelCalls >= MaxToolCalls - ToolReserve
                                 ELSE calls >= MaxToolCalls

\* The tool limit breaks off the calls of this answer.
ToolLimit ==
    /\ pc = "calls" /\ LimitReached
    /\ pc' = "round" /\ pending' = 0
    /\ UNCHANGED <<mode, scope, plan, round, calls, modelCalls, counts, seen, proposal>>

\* One requested call: refused by the schema, refused by the budget, failed, or
\* executed with the arguments the controller injects.
ToolCall ==
    /\ pc = "calls" /\ ~LimitReached
    /\ calls' = calls + 1
    /\ modelCalls' = IF mode = "case" THEN modelCalls + 1 ELSE modelCalls
    /\ pending' = pending - 1
    /\ pc' = IF pending = 1 THEN "round" ELSE "calls"
    /\ \E c \in Calls :
         LET site == IF mode = "case" THEN CaseSite(c) ELSE DefaultSite(c)
             device == IF mode = "case" THEN CaseDevice(c) ELSE c.device
         IN  \/ (~ValidCall(c) \/ ~CanReserve(c.tool)) /\ UNCHANGED <<counts, seen>>
             \/ ValidCall(c) /\ CanReserve(c.tool) /\ Reserve(c.tool) /\ UNCHANGED seen
             \/ /\ ValidCall(c) /\ CanReserve(c.tool) /\ Reserve(c.tool)
                /\ Executable(c.tool, site)
                /\ seen' = seen \cup Rows(c.tool, site, device)
    /\ UNCHANGED <<mode, scope, plan, round, proposal>>

Next == Prefetch \/ Compiled \/ HardwareFirst \/ Round \/ RoundLimit \/ ToolLimit \/ ToolCall

\* The loop runs in a goroutine or a request of its own, nothing blocks it for
\* longer than its three minutes.
Fairness == WF_vars(Next)

Spec == Init /\ [][Next]_vars /\ Fairness

-----------------------------------------------------------------------------
(* Properties *)

\* Whatever the model asks for, the whole investigation stays within the global
\* limits of rounds and tools, prefetch and refused calls included, and every
\* tool within its own rate limit.
BoundedWork ==
    /\ round <= MaxRounds /\ calls <= MaxToolCalls
    /\ \A t \in Tools : counts[t] <= MaxCalls[t]

\* The evidence of a Case never shows anything of another site, nor of another
\* device, whichever site or device the model names in its calls.
EvidenceInScope ==
    mode = "case" => \A r \in seen :
        /\ scope.site # None => r.site = scope.site
        /\ scope.device # None => r.device \in {scope.device, None}

\* Every investigation ends, with a result or with an error.
InvestigationEnds == <>(pc \in {"done", "failed"})
=============================================================================
