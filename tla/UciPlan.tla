------------------------------ MODULE UciPlan ------------------------------
(* The typed UCI commands of the controller as pure functions: what the site *)
(* template renders for a device, which of the rendered commands the         *)
(* preflight thinks are already satisfied, and what `uci` makes of a batch.  *)
(*                                                                           *)
(* An option is <<config, option>>; its value is a sequence: <<>> is an      *)
(* absent option, <<v>> a plain one, a longer sequence a list.  Sections are *)
(* folded into the option's name, except the two kinds the plans address by  *)
(* content or position: DHCP hosts and firewall redirects.  A device is      *)
(*   [opts, hosts, redirects, vpns].                                         *)
EXTENDS Naturals, FiniteSets, SequencesExt

Timezone     == <<"system", "timezone">>
LanAddress   == <<"network", "ipaddr">>
DnsServers   == <<"dhcp", "server">>
SynFlood     == <<"firewall", "syn_flood">>
LegacyDpi    == <<"firewall", "dpi_enabled">>
RedirectName == <<"firewall", "@redirect[-1].name">>
Queue        == <<"sqm", "enabled">>
Portal       == <<"opennds", "enabled">>
Members      == <<"mwan3", "use_member">>
Uplink       == <<"network", "proto">>
PasswordAuth == <<"dropbear", "PasswordAuth">>

OptionOrder == <<DnsServers, PasswordAuth, SynFlood, LegacyDpi, Members, LanAddress, Uplink,
                 Portal, Queue, Timezone>>
Options == Range(OptionOrder)

\* A site template with nothing filled in.
EmptyTemplate ==
    [enabled |-> FALSE, ssid |-> "", enc |-> "", key |-> "", timezone |-> "", lan |-> "",
     dns |-> <<"", "">>, synFlood |-> FALSE, dpi |-> FALSE, leases |-> <<>>,
     forwards |-> <<>>, sqm |-> FALSE, rate |-> 0, guest |-> FALSE, wans |-> <<>>, passwordAuth |-> FALSE]

\* sortedConfigNames: the order in which the namespaces of a plan are handled.
ConfigNames == <<"dhcp", "dropbear", "firewall", "mwan3", "network", "opennds", "sqm", "system">>

Command(action, option, value) ==
    [action |-> action, config |-> option[1], option |-> option[2], value |-> value]
Set(option, value) == Command("set", option, value)
Flag(b) == IF b THEN "1" ELSE "0"

-----------------------------------------------------------------------------
(* RenderSiteConfig, section by section.  A site template `t` is a record of *)
(* the columns of site_configs that reach a device.                          *)

RenderSystem(t) == <<Set(Timezone, t.timezone)>>

RenderLan(t) == <<Set(LanAddress, t.lan),
                  Command("delete", DnsServers, ""),
                  Command("add_list", DnsServers, t.dns[1]),
                  Command("add_list", DnsServers, t.dns[2])>>

RenderFirewall(t) == <<Set(SynFlood, Flag(t.synFlood))>>
                     \o (IF t.dpi THEN <<>> ELSE <<Command("delete", LegacyDpi, "")>>)

\* One command per reservation; its value is the whole lease.
RenderLeases(t) ==
    [i \in 1 .. Len(t.leases) |-> Command("ensure_host", <<"dhcp", "mac">>, t.leases[i])]

\* A port forward adds a section and fills it in.  The add carries the type in
\* Section, not in Value where translateCommand looks for it.
RenderForwards(t) ==
    FlattenSeq([i \in 1 .. Len(t.forwards) |->
        <<Command("add", <<"firewall", "">>, ""), Set(RedirectName, t.forwards[i])>>])

RenderServices(t) == (IF t.sqm THEN <<Set(Queue, "1")>> ELSE <<>>)
                     \o (IF t.guest THEN <<Set(Portal, "1")>> ELSE <<>>)

\* Every uplink is a network interface, types its sections and joins the failover
\* policy; members of an earlier template are not deleted first.
RenderMwan3(t) ==
    IF Len(t.wans) < 2 THEN <<>>
    ELSE [i \in 1 .. Len(t.wans) |-> Set(Uplink, "dhcp")]
         \o [i \in 1 .. Len(t.wans) |-> Command("set", <<"mwan3", "">>, "interface")]
         \o [i \in 1 .. Len(t.wans) |-> Command("add_list", Members, t.wans[i])]

RenderDropbear(t) == <<Set(PasswordAuth, IF t.passwordAuth THEN "on" ELSE "off")>>

RenderSiteConfig(t, role) ==
    RenderSystem(t)
    \o (IF role = "Gateway"
        THEN RenderLan(t) \o RenderFirewall(t) \o RenderLeases(t) \o RenderForwards(t)
             \o RenderServices(t) \o RenderMwan3(t)
        ELSE <<>>)
    \o RenderDropbear(t)

-----------------------------------------------------------------------------
(* Is a command already satisfied by what `uci show` printed?                *)

\* External: `uci show` prints an option as one line with its values, or as a
\* line per value.
ShowLines(d) == LET present == SelectSeq(OptionOrder, LAMBDA o : d.opts[o] # <<>>)
                IN [i \in 1 .. Len(present) |->
                        [option |-> present[i], values |-> d.opts[present[i]]]]

\* parseUciShow collects the values of all lines with one key, in order.
ParsedOptions(lines) == [o \in Options |->
    FlattenSeq([i \in 1 .. Len(lines) |-> IF lines[i].option = o THEN lines[i].values ELSE <<>>])]
ParseUciShow(d) == [d EXCEPT !.opts = ParsedOptions(ShowLines(d))]

\* uciSectionMatchesReference for @redirect[-1] picks the last redirect.
Observed(c, d) ==
    IF <<c.config, c.option>> = RedirectName
    THEN IF d.redirects = <<>> THEN <<>> ELSE <<Last(d.redirects)>>
    ELSE IF <<c.config, c.option>> \in Options THEN d.opts[<<c.config, c.option>>] ELSE <<>>

\* uciListEquals and uciMACListsEqual compare element by element.
HostMatches(lease, hosts) == lease.macs # <<>> /\ lease \in Range(hosts)

ValueMatches(c, seen) ==
    \/ c.action = "add_list" /\ c.value \in Range(seen)
    \/ c.action = "del_list" /\ seen # <<>> /\ c.value \notin Range(seen)
    \/ c.action = "set" /\ seen = <<c.value>>

CommandMatches(c, d) ==
    \/ c.action = "ensure_host" /\ HostMatches(c.value, d.hosts)
    \/ c.action = "delete" /\ Observed(c, d) = <<>>
    \/ c.action \in {"add_list", "del_list", "set"} /\ ValueMatches(c, Observed(c, d))

\* The list that the commands after a delete build, empty when they do not.
PlannedListAfterDelete(i, plan) ==
    LET later == SelectSeq(SubSeq(plan, i + 1, Len(plan)),
                           LAMBDA c : c.config = plan[i].config /\ c.option = plan[i].option)
    IN IF \E j \in DOMAIN later : later[j].action \in {"delete", "set", "del_list"}
       THEN <<>>
       ELSE [j \in 1 .. Len(later) |-> later[j].value]

MatchesInPlan(i, plan, d) ==
    IF plan[i].action = "delete" /\ PlannedListAfterDelete(i, plan) # <<>>
    THEN Observed(plan[i], d) = PlannedListAfterDelete(i, plan)
    ELSE CommandMatches(plan[i], d)

\* An omitted `disabled` is an enabled radio.
DefaultDifference(c) ==
    c.config = "wireless" /\ c.option = "disabled" /\ c.value = "0"

\* filterUCICommandsByObservedState: drop what matches, command by command.
Filtered(plan, d) ==
    LET kept == {i \in DOMAIN plan :
                    \/ plan[i].option = ""
                    \/ ~MatchesInPlan(i, plan, d) /\ ~DefaultDifference(plan[i])}
        order == SetToSortSeq(kept, <)
    IN [j \in 1 .. Len(order) |-> plan[order[j]]]

\* groupCommandsByConfig.
Group(plan, config) == SelectSeq(plan, LAMBDA c : c.config = config)

\* filterRolloutResultsByNamespace; the empty selection keeps everything.
InNamespaces(plan, namespaces) ==
    IF namespaces = {} THEN plan ELSE SelectSeq(plan, LAMBDA c : c.config \in namespaces)

\* preflightRenderedResultsWithState: each namespace is read and filtered on its own.
Preflight(plan, d) ==
    LET seen == ParseUciShow(d)
    IN FlattenSeq([k \in 1 .. Len(ConfigNames) |-> Filtered(Group(plan, ConfigNames[k]), seen)])

\* GetDeviceDriftHandler: the commands whose effect the device does not show.
Missing(plan, d) == LET seen == ParseUciShow(d) IN {i \in DOMAIN plan :
    plan[i].option # "" /\ ~MatchesInPlan(i, plan, seen) /\ ~DefaultDifference(plan[i])}

-----------------------------------------------------------------------------
(* From commands to a device.                                                *)

\* translateCommand: a command without a shell form rejects its whole batch.
Translatable(c) ==
    /\ c.action = "add" => c.value # ""
    /\ c.action = "ensure_host" => c.value.macs # <<>>

\* BuildBatchScript and BuildDryRunScript reject foreign namespaces too.
ValidBatch(config, plan) == \A i \in DOMAIN plan : plan[i].config = config /\ Translatable(plan[i])

\* ensureDHCPHost finds the section by the first of its MACs that any section
\* has, then by address, and otherwise adds one.
HostRef(lease, hosts) ==
    LET withMac(j) == {i \in DOMAIN hosts : lease.macs[j] \in Range(hosts[i].macs)}
        known      == {j \in DOMAIN lease.macs : withMac(j) # {}}
        withIp     == {i \in DOMAIN hosts : hosts[i].ip = lease.ip}
    IN CASE known # {}  -> Min(withMac(Min(known)))
         [] known = {} /\ withIp # {} -> Min(withIp)
         [] OTHER -> Len(hosts) + 1

EnsureHost(lease, hosts) ==
    LET ref == HostRef(lease, hosts)
    IN [i \in 1 .. Len(hosts) + (IF ref > Len(hosts) THEN 1 ELSE 0) |->
            IF i = ref THEN lease ELSE hosts[i]]

\* What uci does with the options; commands on a whole section leave them alone.
NewValue(c, old) ==
    CASE c.action = "set"      -> <<c.value>>
      [] c.action = "delete"   -> <<>>
      [] c.action = "add_list" -> Append(old, c.value)
      [] c.action = "del_list" -> SelectSeq(old, LAMBDA v : v # c.value)
      [] OTHER -> old

Applied(c, d) ==
    LET option == <<c.config, c.option>>
    IN CASE c.action = "ensure_host" -> [d EXCEPT !.hosts = EnsureHost(c.value, @)]
         [] c.action = "add" /\ c.config = "firewall" -> [d EXCEPT !.redirects = Append(@, "")]
         [] option = RedirectName -> [d EXCEPT !.redirects = ReplaceAt(@, Len(@), c.value)]
         [] option \in Options -> [d EXCEPT !.opts[option] = NewValue(c, @)]
         [] OTHER -> d

AppliedAll(plan, d) == FoldLeft(LAMBDA acc, c : Applied(c, acc), d, plan)

\* What the observed-state hash of a namespace speaks of.
StateOf(config, d) ==
    [opts      |-> [o \in {p \in Options : p[1] = config} |-> d.opts[o]],
     hosts     |-> IF config = "dhcp" THEN d.hosts ELSE <<>>,
     redirects |-> IF config = "firewall" THEN d.redirects ELSE <<>>]
=============================================================================
