-------------------------- MODULE SiteConfiguration --------------------------
(* One site with one gateway: the desired-state template and the WLAN rows   *)
(* operators edit, the preview that turns the template into a filtered plan, *)
(* the fleet sync that runs the plan over SSH, the typed operation queued for *)
(* the agent, and the import that reads a device back into the template.     *)
(* Each handler is one request in one database transaction.                  *)
EXTENDS UciPlan

CONSTANTS Templates,   \* templates the site form sends
          Leases,      \* reservation lists an Omada export yields
          Boards,      \* what a local administrator leaves: [uci, wireless]
          Edits,       \* command lists typed into the central editor
          Rows,        \* WLAN forms: [ssid, security, password, mode, assigned]
          Wlans,       \* ids of WLAN rows
          MaxChanges,  \* bound: edits by operators and local administrators
          None

VARIABLES site,      \* the row of site_configs, or None
          wlans,     \* [Wlans -> row or None]
          role,      \* devices.device_role
          live,      \* the device's committed configuration, without its wireless interfaces
          wireless,  \* those: a sequence of [ssid, enc, key]
          wifi,      \* the agent's wireless hash: the networks it applied last, or None
          draft,     \* the newest rollout draft, or None
          queued,    \* devices.pending_operation: a command list, or None
          wg,        \* WireGuard identity stored for the device
          last,      \* what the last configuration event was (history)
          changes    \* edits so far (bounds the model)

vars == <<site, wlans, role, live, wireless, wifi, draft, queued, wg, last, changes>>

\* A row of wlans.
Wlan == [ssid : STRING, security : STRING, password : STRING, mode : {"all", "custom"},
         assigned : BOOLEAN]

Nothing == [event |-> "none", want |-> <<>>, configs |-> {}]

Init == /\ site = None
        /\ wlans = [w \in Wlans |-> None]
        /\ role \in {"AP", "Gateway"}
        /\ \E b \in Boards : live = b.uci /\ wireless = b.wireless
        /\ wifi = None
        /\ draft = None
        /\ queued = None
        /\ wg = None
        /\ last = Nothing
        /\ changes = 0

\* Somebody edits something: bounded, and the last rollout is no longer the news.
Edit == changes < MaxChanges /\ changes' = changes + 1

-----------------------------------------------------------------------------
(* WLAN rows                                                                 *)

\* The rows of the site that carry a network name.
RowsOf(ssid) == {w \in Wlans : wlans[w] # None /\ wlans[w].ssid = ssid}

CreateWLAN(w, row) ==
    /\ wlans[w] = None
    /\ wlans' = [wlans EXCEPT ![w] = row]
    /\ Edit
    /\ last' = Nothing
    /\ UNCHANGED <<site, role, live, draft, queued, wg, wifi, wireless>>

\* A form without a password keeps the stored one.
UpdateWLAN(w, row) ==
    /\ wlans[w] # None
    /\ wlans' = [wlans EXCEPT ![w] =
                    [row EXCEPT !.password = IF @ = "" THEN wlans[w].password ELSE @]]
    /\ Edit
    /\ last' = Nothing
    /\ UNCHANGED <<site, role, live, draft, queued, wg, wifi, wireless>>

DeleteWLAN(w) ==
    /\ wlans[w] # None
    /\ wlans' = [wlans EXCEPT ![w] = None]
    /\ Edit
    /\ last' = Nothing
    /\ UNCHANGED <<site, role, live, draft, queued, wg, wifi, wireless>>

\* ResolveCanonicalWLAN reports the legacy site fields that contradict a row.
Conflicts(t, row) ==
    /\ t.ssid # "" /\ t.ssid = row.ssid
    /\ \/ t.enc # "" /\ t.enc # row.security
       \/ t.key # "" /\ t.key # row.password

\* siteWLANPolicyConflicts over the rows with the template's network name.
PolicyConflicts(t) == \E w \in RowsOf(t.ssid) : Conflicts(t, wlans[w])

\* WLANAppliesToDevice: a custom network reaches the devices assigned to it, any
\* other one every device while the site's global switch is on.
AppliesToDevice(row) == IF row.mode = "custom" THEN row.assigned
                        ELSE site = None \/ site.enabled

\* The networks of a configuration pull; the row's credentials are the ones sent.
ProvisionedWlans ==
    LET sent == SetToSeq({w \in Wlans : wlans[w] # None /\ AppliesToDevice(wlans[w])})
    IN [i \in 1 .. Len(sent) |-> [ssid |-> wlans[sent[i]].ssid, enc |-> wlans[sent[i]].security,
                                   key |-> wlans[sent[i]].password]]

\* The agent pulls its configuration and rewrites its wireless interfaces when the
\* networks differ from the ones it applied last, whatever the device shows.
PullConfig ==
    /\ wifi # ProvisionedWlans
    /\ wifi' = ProvisionedWlans
    /\ wireless' = ProvisionedWlans
    /\ last' = Nothing
    /\ UNCHANGED <<site, wlans, role, live, draft, queued, wg, changes>>

-----------------------------------------------------------------------------
(* The template                                                              *)

\* A queue discipline needs positive rates.
ValidateSQM(t) == t.sqm => t.rate > 0

\* Every column of the row is written.
UpsertSiteConfig(t) == ValidateSQM(t) /\ site' = t

\* The form's decoder knows no uplinks and no guest portal: both are reset.
SaveSite(t) ==
    /\ t.enabled /\ t.ssid # "" => ~PolicyConflicts(t)
    /\ UpsertSiteConfig([t EXCEPT !.wans = <<>>, !.guest = FALSE])
    /\ Edit
    /\ last' = Nothing
    /\ UNCHANGED <<wlans, role, live, draft, queued, wg, wifi, wireless>>

\* The leases of an Omada export replace the site's; port forwards are emptied.
CommitOmadaMigration(leases) ==
    /\ leases # <<>>
    /\ UpsertSiteConfig([IF site = None THEN EmptyTemplate ELSE site
                         EXCEPT !.leases = leases, !.forwards = <<>>])
    /\ Edit
    /\ last' = Nothing
    /\ UNCHANGED <<wlans, role, live, draft, queued, wg, wifi, wireless>>

PutDeviceRole(r) ==
    /\ role' = r
    /\ Edit
    /\ last' = Nothing
    /\ UNCHANGED <<site, wlans, live, draft, queued, wg, wifi, wireless>>

-----------------------------------------------------------------------------
(* ImportDeviceConfigHandler                                                 *)

\* Interfaces with one network name are one WLAN: the first key, and the first
\* encryption that is not the default.
ImportedWlan(ssid, ifaces) ==
    LET mine == SelectSeq(ifaces, LAMBDA f : f.ssid = ssid)
        keys == SelectSeq(mine, LAMBDA f : f.key # "")
        encs == SelectSeq(mine, LAMBDA f : f.enc # "psk2")
    IN [ssid |-> ssid, mode |-> "all", assigned |-> FALSE,
        security |-> IF encs = <<>> THEN "psk2" ELSE Head(encs).enc,
        password |-> IF keys = <<>> THEN "" ELSE Head(keys).key]

ImportedNames(ifaces) == {ifaces[i].ssid : i \in DOMAIN ifaces}

\* The first WireGuard interface with a private key.
ImportedVpn(vpns) == IF vpns # <<>> /\ Head(vpns) # "" THEN Head(vpns) ELSE wg

\* A host with a hardware address keeps the first one it has.
ImportedLeases(hosts) ==
    LET known == SelectSeq(hosts, LAMBDA h : h.macs # <<>>)
    IN [i \in 1 .. Len(known) |-> [known[i] EXCEPT !.macs = <<Head(@)>>]]

ImportedForwards(redirects) == redirects

\* The renderer writes on and off; the import takes 1 and true for on.
ImportedPasswordAuth(seen) == seen = <<>> \/ seen \in {<<"1">>, <<"true">>}

Scalar(seen, default) == IF Len(seen) = 1 THEN Head(seen) ELSE default

\* The upsert: the resolvers are constants, a device without a LAN address stands
\* for the address it last reported from, and columns the import does not name
\* keep their value.
LastIP == "last_ip"

ImportedTemplate(d, ifaces) ==
    LET base  == IF site = None THEN [EmptyTemplate EXCEPT !.enabled = TRUE] ELSE site
        first == IF ifaces = <<>> THEN [ssid |-> "", security |-> "psk2", password |-> ""]
                 ELSE ImportedWlan(Head(ifaces).ssid, ifaces)
    IN [base EXCEPT !.ssid = first.ssid, !.enc = first.security, !.key = first.password,
            !.timezone = Scalar(d.opts[Timezone], "UTC"),
            !.lan = Scalar(d.opts[LanAddress], LastIP),
            !.dns = <<"9.9.9.9", "1.1.1.1">>,
            !.synFlood = d.opts[SynFlood] \in {<<>>, <<"1">>, <<"true">>},
            !.leases = ImportedLeases(d.hosts),
            !.forwards = ImportedForwards(d.redirects),
            !.passwordAuth = ImportedPasswordAuth(d.opts[PasswordAuth])]

\* Mutant: an import inserts missing rows and leaves the existing ones alone.
ImportedRowsOnce(ifaces) ==
    LET fresh == {n \in ImportedNames(ifaces) : RowsOf(n) = {}}
        new   == CHOOSE f \in [fresh -> Wlans] :
                    IsInjective(f) /\ \A n \in fresh : wlans[f[n]] = None
    IN [w \in Wlans |-> IF \E n \in fresh : new[n] = w
                        THEN ImportedWlan(CHOOSE n \in fresh : new[n] = w, ifaces)
                        ELSE wlans[w]]

\* Rows with an imported name take its credentials, missing ones are inserted
\* (the new row of a name is its only one); targeting stays as it was.
ImportedRows(ifaces) ==
    LET names == ImportedNames(ifaces)
        fresh == {n \in names : RowsOf(n) = {}}
        new   == CHOOSE f \in [fresh -> Wlans] :
                    IsInjective(f) /\ \A n \in fresh : wlans[f[n]] = None
    IN [w \in Wlans |->
          IF wlans[w] # None /\ wlans[w].ssid \in names
          THEN LET row == ImportedWlan(wlans[w].ssid, ifaces)
               IN [wlans[w] EXCEPT !.security = row.security, !.password = row.password]
          ELSE IF \E n \in fresh : new[n] = w
          THEN ImportedWlan(CHOOSE n \in fresh : new[n] = w, ifaces)
          ELSE wlans[w]]

ImportDeviceConfig ==
    \* Bound: enough free row ids for the names that have no row yet.
    /\ Cardinality({n \in ImportedNames(wireless) : RowsOf(n) = {}})
         <= Cardinality({w \in Wlans : wlans[w] = None})
    /\ site' = ImportedTemplate(live, wireless)
    /\ wlans' = ImportedRows(wireless)
    /\ wg' = ImportedVpn(live.vpns)
    /\ Edit
    /\ last' = [Nothing EXCEPT !.event = "imported"]
    /\ UNCHANGED <<role, live, draft, queued, wifi, wireless>>

-----------------------------------------------------------------------------
(* Preview and sync                                                          *)

\* rejectUnsafeNetworkMutations.
TouchesNetwork(plan) == \E i \in DOMAIN plan : plan[i].config = "network"

\* The namespaces that get a script, in the order they run.
ConfigsOf(plan) == SelectSeq(ConfigNames, LAMBDA c : Group(plan, c) # <<>>)

\* buildRolloutDraft builds one guarded script per namespace, or no draft at all.
Buildable(plan) == \A i \in DOMAIN ConfigsOf(plan) :
    ValidBatch(ConfigsOf(plan)[i], Group(plan, ConfigsOf(plan)[i]))

PreviewSync(namespaces) ==
    LET want == InNamespaces(RenderSiteConfig(site, role), namespaces)
        plan == Preflight(want, live)
    IN /\ site # None
       /\ ValidateSQM(site)
       /\ namespaces # {} => plan # <<>>
       /\ ~TouchesNetwork(plan)
       /\ Buildable(plan)
       /\ draft' = [plan |-> plan, want |-> want, basis |-> live]
       /\ last' = Nothing
       /\ UNCHANGED <<site, wlans, role, live, queued, wg, changes, wifi, wireless>>

\* Mutant: the script is run without its observed-state guard.
FreshAlways(config) == TRUE

\* The guard of a script: its namespace still reads as it did at the preview.
Fresh(config) == StateOf(config, live) = StateOf(config, draft.basis)

\* The scripts run in order up to the first one that fails; a failed or stale
\* script leaves its own namespace as it found it, earlier ones stay applied.
SyncFleet ==
    /\ draft # None
    /\ LET configs == ConfigsOf(draft.plan)
       IN \E n \in 0 .. Len(configs) :
            LET done == {configs[i] : i \in 1 .. n}
            IN /\ \A i \in 1 .. n : Fresh(configs[i])
               /\ live' = AppliedAll(SelectSeq(draft.plan, LAMBDA c : c.config \in done), live)
               /\ last' = [event   |-> IF n = Len(configs) THEN "applied" ELSE "failed",
                           want    |-> draft.want, configs |-> done]
    /\ draft' = None
    /\ UNCHANGED <<site, wlans, role, queued, wg, changes, wifi, wireless>>

-----------------------------------------------------------------------------
(* Typed operations, and the device's own administrator                      *)

\* Both central-editor handlers validate the batch, take a vault backup and
\* queue the operation; without confirmation they only show the commands.
PutCentralConfig(commands) ==
    /\ commands # <<>>
    /\ ValidBatch(commands[1].config, commands)
    /\ queued = None
    /\ queued' = commands
    /\ Edit
    /\ last' = Nothing
    /\ UNCHANGED <<site, wlans, role, live, draft, wg, wifi, wireless>>

\* External: the agent applies the whole operation or restores what it changed.
AgentEnds ==
    /\ queued # None
    /\ \/ live' = AppliedAll(queued, live)
       \/ live' = live
    /\ queued' = None
    /\ last' = Nothing
    /\ UNCHANGED <<site, wlans, role, draft, wg, changes, wifi, wireless>>

\* External: someone edits the device in LuCI.
LocalEdit(board) ==
    /\ live' = board.uci
    /\ wireless' = board.wireless
    /\ Edit
    /\ last' = Nothing
    /\ UNCHANGED <<site, wlans, role, draft, queued, wg, wifi>>

Next == \/ \E t \in Templates : SaveSite(t)
        \/ \E l \in Leases : CommitOmadaMigration(l)
        \/ \E w \in Wlans, r \in Rows : CreateWLAN(w, r)
        \/ \E w \in Wlans, r \in Rows : UpdateWLAN(w, r)
        \/ \E w \in Wlans : DeleteWLAN(w)
        \/ \E r \in {"Gateway", "AP"} : PutDeviceRole(r)
        \/ PullConfig
        \/ ImportDeviceConfig
        \/ \E n \in {{}, {"dhcp"}} : PreviewSync(n)
        \/ SyncFleet
        \/ \E e \in Edits : PutCentralConfig(e)
        \/ AgentEnds
        \/ \E b \in Boards : LocalEdit(b)

Spec == Init /\ [][Next]_vars

-----------------------------------------------------------------------------
\* Reservations that do not contend for an address.
Distinct(leases) ==
    \A i, j \in DOMAIN leases : i # j =>
        /\ leases[i].ip # leases[j].ip
        /\ Range(leases[i].macs) \cap Range(leases[j].macs) = {}

WantedLeases(want) ==
    LET hosts == SelectSeq(want, LAMBDA c : c.action = "ensure_host")
    IN [i \in 1 .. Len(hosts) |-> hosts[i].value]

(* After a rollout that ended well the device shows every option the         *)
(* template sets and every reservation it names, in each namespace a script  *)
(* ran for -- although the preflight dropped the commands that were already  *)
(* satisfied, the scripts look leases up by hardware address or by IP, and   *)
(* the device, the template and the role may have changed since the preview. *)
AppliedMatches ==
    last.event = "applied" =>
        \A i \in DOMAIN last.want :
            LET c == last.want[i]
            IN /\ c.config \in last.configs
               /\ \/ c.action = "set" /\ c.option # ""
                  \/ c.action = "ensure_host" /\ Distinct(WantedLeases(last.want))
               => CommandMatches(c, live)

(* An import writes the device's wireless credentials to the template and to *)
(* the WLAN rows in one transaction: the legacy site fields never contradict *)
(* a row after it, whatever rows and templates operators had saved before.   *)
ImportAgrees ==
    last.event = "imported" =>
        \A w \in Wlans : wlans[w] # None => ~Conflicts(site, wlans[w])

(* After a rollout that ended well the drift report of the namespaces it     *)
(* changed is MATCH: a delete followed by add_list means the final list.     *)
(* The preflight drops an add_list whose value the old list contains and     *)
(* keeps the delete, so the device loses that value.                         *)
SyncedMatches ==
    last.event = "applied" /\ Distinct(WantedLeases(last.want)) =>
        Missing(SelectSeq(last.want, LAMBDA c : c.config \in last.configs), live) = {}
=============================================================================
