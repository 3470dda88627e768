--------------------------- MODULE MCConfiguration ---------------------------
(* The models of ConfigurationParts on small instances, in one run.            *)
EXTENDS ConfigurationParts, UciPlan

CONSTANTS a1, a2, c1, s1, n1, n2

-----------------------------------------------------------------------------
(* The site's configuration: two templates that differ in a list, in leases, *)
(* in a port forward and in switches; boards as a local administrator leaves *)
(* them, with a lease under another hardware address and two access points   *)
(* of one name; a WLAN row that follows the site and one that does not.      *)

T1 == [EmptyTemplate EXCEPT !.enabled = TRUE, !.ssid = "home", !.enc = "sae", !.key = "k1",
        !.timezone = "UTC", !.lan = "ip1", !.dns = <<"a", "b">>,
        !.leases = <<[name |-> "n1", macs |-> <<"m1">>, ip |-> "i1"],
                     [name |-> "n2", macs |-> <<"m2">>, ip |-> "i2"]>>,
        !.sqm = TRUE, !.rate = 1, !.guest = TRUE, !.wans = <<"w1", "w2">>, !.passwordAuth = TRUE]
T2 == [T1 EXCEPT !.dns = <<"a", "c">>, !.timezone = "CET", !.leases = <<>>, !.forwards = <<"f1">>, !.sqm = FALSE, !.enabled = FALSE]
MCTemplates == {T1, T2}
MCLeases == {<<[name |-> "n1", macs |-> <<"m2", "m1">>, ip |-> "i2"]>>}
B0 == [opts |-> [o \in Options |-> IF o = LanAddress THEN <<"ip1">> ELSE IF o = PasswordAuth THEN <<"on">> ELSE <<>>],
       hosts |-> <<>>, redirects |-> <<>>, vpns |-> <<>>]
B1 == [B0 EXCEPT !.opts[DnsServers] = <<"a">>, !.opts[LegacyDpi] = <<"1">>,
        !.hosts = <<[name |-> "x", macs |-> <<"m1", "m2">>, ip |-> "i2"], [name |-> "n1", macs |-> <<"m3">>, ip |-> "i1"]>>,
        !.vpns = <<"p1">>]
B2 == [B0 EXCEPT !.redirects = <<"f1">>, !.opts[LanAddress] = <<"ip2">>]
Home == <<[ssid |-> "home", enc |-> "psk2", key |-> "k2"], [ssid |-> "home", enc |-> "sae", key |-> "k1"]>>
MCBoards == {[uci |-> B0, wireless |-> <<>>], [uci |-> B1, wireless |-> Home], [uci |-> B2, wireless |-> <<>>]}
MCEdits == {<<Set(Timezone, "CET")>>}
MCRows == {[ssid |-> "home", security |-> "sae", password |-> "k1", mode |-> "custom", assigned |-> TRUE],
           [ssid |-> "home", security |-> "psk2", password |-> "", mode |-> "all", assigned |-> FALSE]}

-----------------------------------------------------------------------------
(* Two devices of a site that see each other and the same client, with other *)
(* names and addresses for it.                                               *)

Entry(m, ip, host) == [mac |-> m, ip |-> ip, host |-> host]
Nothing == [name |-> None, site |-> s1, stations |-> {}, radios |-> {}, arp |-> {},
            bridge |-> {}, leases |-> {}]
MCReports == [d \in {a1, a2} |->
    IF d = a1
    THEN [Nothing EXCEPT !.name = n1, !.stations = {Entry(c1, None, n2), Entry(a2, None, None)},
            !.arp = {Entry(c1, "ip1", None)}, !.bridge = {Entry(a2, None, None)},
            !.leases = {Entry(c1, "ip1", n1)}]
    ELSE [Nothing EXCEPT !.stations = {Entry(c1, None, None)}, !.radios = {Entry(c1, "ip2", None)},
            !.leases = {Entry(a1, "ip2", n2)}]]

-----------------------------------------------------------------------------
\* A model of the site that does not run has one board.
MCInit == PartInit /\ (part # "site" => live = B0)

MCSpec == MCInit /\ [][PartNext]_allVars
=============================================================================
