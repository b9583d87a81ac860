---------------------------- MODULE IpRouteOptions ---------------------------
(***************************************************************************)
(* The options of the ip commands about routes, rules, addresses,          *)
(* neighbours and what is kept about them, and of bridge and genl          *)
(* (iproute2/ip/ip*.c, tcp_metrics.c, bridge/*.c, genl/ctrl.c).  Realms,   *)
(* scopes, tables and protocols are numbers.                               *)
(***************************************************************************)
EXTENDS OptionTable

All(conv)    == Or(conv, "all", "0")
TosField     == Val({X("tos"), M("dsfield")}, "tos")
Device       == Conv({X("dev"), X("oif")}, "oif", Dev)
Lookup(kw, f) == Conv(kw, f, Dev)                 \* a device that must exist

(***************************************************************************)
(* ip route.  The first address settles the family.  A metric may be       *)
(* locked; the lock stays when the metric is given again.                  *)
(***************************************************************************)
Metric(kw, w) == With(kw, <<Maybe(Arg({"lock_" \o w}, "lock" :> "1")), Arg({w}, Num)>>)

\* via, dev, weight, onlink and realms of one next hop
parse_one_nh ==
  Part(<<With({X("via")}, <<[FixFamily({"nh_via"}) EXCEPT !.how = "append"]>>), Lookup({X("dev")}, "nh_dev"),
         Conv({X("weight")}, "nh_weight", Pos), Flag({X("onlink")}, "nh_onlink"), Val({M("realms")}, "nh_realms")>>)

parse_nexthops == Parser(<<CallOn({X("nexthop")}, "parse_one_nh")>>)

\* the branches up to the metrics
RouteRows ==
  <<With({X("src")}, <<FixFamily({"prefsrc"})>>), With({X("via")}, <<FixFamily({"via"})>>),
    With({X("from")}, <<Prefix(FixFamily({"from"}))>>), TosField,
    Val({M("metric"), M("priority"), M("preference")}, "priority"), Val({X("scope")}, "scope")>>

\* the metrics
MetricRows ==
  <<Metric({X("mtu")}, "mtu"), Metric({X("hoplimit")}, "hoplimit"), Metric({X("advmss")}, "advmss"),
    Metric({M("reordering")}, "reordering"), Metric({X("rtt")}, "rtt"), Val({X("rto_min")}, "rto_min"),
    Metric({M("window")}, "window"), Metric({M("cwnd")}, "cwnd"), Metric({M("initcwnd")}, "initcwnd"),
    Metric({M("initrwnd")}, "initrwnd"), Metric({M("rttvar")}, "rttvar"), Metric({M("ssthresh")}, "ssthresh")>>

\* A large number of a table goes into an attribute, which a small one given later leaves there.
table_id ==
  Must(<<[Row({X("1000")}) EXCEPT !.set = ("rtm_table" :> "0") @@ ("RTA_TABLE" :> "1000")],
         Else({}, <<Arg({"rtm_table"}, Num)>>)>>)

\* the rest: next hops end the loop, and whatever is no keyword is the destination
iproute_modify ==
  [Parser(RouteRows \o MetricRows
            \o <<Val({M("realms")}, "realms"), Flag({X("onlink")}, "onlink"), Kind("nexthop", "parse_nexthops"),
                 Val({M("protocol")}, "protocol"), CallOn({M("table")}, "table_id"), Device, MHelp,
                 Single(Else({X("to")}, <<Maybe(Arg({"type"}, OneOf({"local", "unicast"}))),
                                          Prefix(FixFamily({"dst"}))>>), "dst_ok")>>)
     EXCEPT !.fails = TRUE]

\* root, match or exact; the family was settled before the loop
route_prefix(r, m) ==
  Must(<<With({M("root")}, <<Prefix(InFamily({r}))>>), With({M("match")}, <<Prefix(InFamily({m}))>>),
         Else({M("exact")}, <<Prefix(InFamily({r, m}))>>)>>)

route_src == route_prefix("rsrc", "msrc")
route_dst == route_prefix("rdst", "mdst")

RouteFilter ==
  <<CallOn({M("table")}, "route_table"), Flag({M("cached"), M("cloned")}, "cloned"), TosField,
    Conv({M("protocol")}, "protocol", All(Num)), Conv({M("scope")}, "scope", All(Num)), Val({M("type")}, "type"),
    Device, Lookup({X("iif")}, "iif"), Conv({X("mark")}, "mark", Num @@ ("*" :> "keep")),
    With({X("via")}, <<Prefix(InFamily({"rvia"}))>>), With({X("src")}, <<Prefix(InFamily({"rprefsrc"}))>>),
    Val({M("realms")}, "realm"), CallOn({M("from")}, "route_src"),
    [Else({M("to")}, <<>>) EXCEPT !.then = "route_dst", !.more = TRUE]>>

\* cache is not a table but a flag
route_table == Must(<<Flag({X("cache")}, "cloned"), Else({}, <<Arg({"table"}, All(Num))>>)>>)

\* Flushing needs a word.
iproute_list_flush_or_save(flush) ==
  [Parser(RouteFilter) EXCEPT !.fails = TRUE, !.some = flush]

iproute_get ==
  [Checked(<<TosField, With({M("from")}, <<Prefix(FixFamily({"from"}))>>), Lookup({M("iif")}, "iif"),
             Conv({M("mark")}, "mark", Num @@ ("*" :> "keep")), Lookup({M("oif"), X("dev")}, "oif"),
             Flag({M("notify")}, "notify"), Flag({M("connected")}, "connected"), MHelp,
             Else({X("to")}, <<Prefix(FixFamily({"dst"}))>>)>>,
           Required({"dst"}))
     EXCEPT !.fails = TRUE]

\* ip rule: the action is goto, nop or a type of route
rule_action ==
  Must(<<MHelp, [Val({M("goto")}, "target") EXCEPT !.set = "action" :> "goto"],
         Set({M("nop")}, "action", "nop"), Else({}, <<Arg({"action"}, OneOf({"unicast", "blackhole"}))>>)>>)

\* a mark, or a mark and a mask in one word
rule_mark ==
  Must(<<[Row({X("1/2")}) EXCEPT !.set = ("fwmark" :> "1") @@ ("fwmask" :> "2")], Else({}, <<Arg({"fwmark"}, Num)>>)>>)

iprule_modify ==
  [Parser(<<Flag({X("not")}, "invert"), With({X("from")}, <<Prefix(InFamily({"src"}))>>),
            With({X("to")}, <<Prefix(InFamily({"dst"}))>>),
            Val({M("preference"), M("order"), M("priority")}, "priority"), TosField,
            CallOn({X("fwmark")}, "rule_mark"), Val({M("realms")}, "realm"),
            CallOn({M("table"), X("lookup")}, "table_id"), Conv({X("dev"), X("iif")}, "iif", AnyWord),
            Conv({X("oif")}, "oif", AnyWord),
            [Conv({X("nat"), M("map-to")}, "gateway", OneOf({"v4", "w4"})) EXCEPT !.set = "action" :> "nat"],
            [Else({X("type")}, <<>>) EXCEPT !.then = "rule_action", !.more = TRUE]>>)
     EXCEPT !.fails = TRUE]

(***************************************************************************)
(* ip address.  A lifetime that was not given is infinite (3).  A          *)
(* broadcast address that is to be computed (+ or -) needs IPv4, unless    *)
(* the address is deleted.                                                 *)
(***************************************************************************)
OneDevice == <<MHelp, Once(Else({X("dev")}, <<Arg({"dev"}, Dev)>>))>>

addr_broadcast ==
  Must(<<Flag({X("+")}, "brd_auto"), Flag({X("-")}, "brd_auto"), Else({}, <<FixFamily({"brd"})>>)>>)

Lifetime(w) == Single(Conv({M(w)}, w, Or(Num, "forever", "3")), w \o "_given")

AddrChecks(del) ==
  {IfAll({}, {"dev"}), Extends("label", "dev"), IfAll({}, {"valid_lft"}), NotAbove("preferred_lft", "valid_lft")}
    \cup (IF del THEN {} ELSE {InetOnly("brd_auto")})

ipaddr_modify(del) ==
  [Checked(<<Once(With({X("peer"), X("remote")}, <<FixFamily({"peer"})>>)),
             Unless(CallOn({M("broadcast"), X("brd")}, "addr_broadcast"), {"brd", "brd_auto"}),
             Once(With({X("anycast")}, <<FixFamily({"anycast"})>>)), Val({X("scope")}, "scope"),
             Conv({X("dev")}, "dev", Dev), Conv({X("label")}, "label", OneOf({"eth0:0", "eth1:0"})),
             Lifetime("valid_lft"), Lifetime("preferred_lft"), Flag({X("home")}, "home"),
             Flag({X("nodad")}, "nodad"), MHelp,
             Once(Else({X("local")}, <<FixFamily({"local"})>>))>>,
           AddrChecks(del))
     EXCEPT !.fails = TRUE, !.init = ("valid_lft" :> "3") @@ ("preferred_lft" :> "3")]

ipaddr_list_flush_or_save(flush) ==
  [Parser(<<With({X("to")}, <<Prefix(FixFamily({"pfx"}))>>), Conv({X("scope")}, "scope", All(Num)),
            Flag({X("up")}, "up"), Set({X("dynamic")}, "permanent", "0"), Flag({X("permanent")}, "permanent"),
            Flag({X("secondary"), X("temporary")}, "secondary"), Set({X("primary")}, "secondary", "0")>>
            \o XFlags(<<"tentative", "deprecated", "home", "nodad", "dadfailed">>)
            \o <<Conv({X("label")}, "label", AnyWord), Val({X("group")}, "group")>> \o OneDevice)
     EXCEPT !.some = flush, !.fails = TRUE]

\* Unknown words are passed over.
ipaddrlabel_modify ==
  [Checked(<<With({X("prefix")}, <<Prefix(InFamily({"prefix"}))>>), Lookup({X("dev")}, "dev"),
             Val({X("label")}, "label")>>, {})
     EXCEPT !.rows[1].raise = {"p"}, !.rows[3].raise = {"l"}, !.checks = Required({"p", "l"}),
            !.other = "skip", !.fails = TRUE]

(***************************************************************************)
(* Multicast addresses and routes, monitors.                               *)
(***************************************************************************)
multiaddr_list == Parser(<<MHelp, Once(Else({X("dev")}, <<Arg({"dev"}, AnyWord)>>))>>)

multiaddr_modify ==
  [Checked(<<Once(Conv({X("dev")}, "dev", AnyWord)), MHelp, Once(Else({M("address")}, <<Arg({"address"}, Pos)>>))>>,
           Required({"dev"}))
     EXCEPT !.fails = TRUE]

\* Each of them subscribes to its own groups instead of all.
Subject(w) == [Flag({M(w)}, w) EXCEPT !.set = @ @@ ("groups" :> "0")]
Everything == [Flag({X("all")}, "groups") EXCEPT !.set = @ @@ ("banner" :> "1")]
MonitorFile == Conv({M("file")}, "file", AnyWord)

do_ipmonitor ==
  [Parser(<<MonitorFile, Subject("link"), Subject("address"), Subject("route"), Subject("mroute"),
            Subject("prefix"), Subject("neigh"), Subject("netconf"), Everything, MHelp>>)
     EXCEPT !.fails = TRUE, !.init = "groups" :> "1"]

mroute_list ==
  [Parser(<<Conv({M("table")}, "table", All(Num)), Lookup({X("iif")}, "iif"),
            With({M("from")}, <<Prefix(InFamily({"msrc"}))>>), MHelp,
            Else({X("to")}, <<Prefix(InFamily({"mdst"}))>>)>>)
     EXCEPT !.init = "family" :> "inet", !.fails = TRUE]

(***************************************************************************)
(* Neighbours and their tables.                                            *)
(***************************************************************************)
\* help takes the next word for the address
ipneigh_modify ==
  [Checked(<<Single(Conv({M("lladdr")}, "lladdr", AnyWord), "lladdr_ok"), Val({X("nud")}, "nud"),
             [Single(With({M("proxy")}, <<InFamily({"dst"})>>), "dst_ok") EXCEPT !.set = "proxy" :> "1"],
             Lookup({X("dev")}, "dev"),
             Single(Else({X("to")}, <<Word("help"), InFamily({"dst"})>>), "dst_ok")>>,
           Required({"dev", "dst"}))
     EXCEPT !.fails = TRUE]

\* The states given are added up; all of them but the ones that cannot be flushed is 3.
do_show_or_flush(flush) ==
  [Parser(<<Once(Lookup({X("dev")}, "dev")), Flag({X("unused")}, "unused"),
            With({X("nud")}, <<[Bits({"nud"}) EXCEPT !.conv = Or(Num, "all", "3")]>>), Flag({X("proxy")}, "proxy"),
            MHelp, Else({X("to")}, <<Prefix(FixFamily({"pfx"}))>>)>>)
     EXCEPT !.some = flush, !.fails = TRUE]

NtableLimits == Raise("change", XVals(<<"thresh1", "thresh2", "thresh3", "gc_int">>))

NtableParms ==
  Raise("change", XVals(<<"base_reachable", "retrans", "gc_stale", "delay_probe", "queue", "app_probes",
                          "ucast_probes", "mcast_probes", "anycast_delay", "proxy_delay", "proxy_queue",
                          "locktime">>))

\* a device alone is no change
ipntable_modify ==
  [Checked(<<Once(Conv({X("name")}, "name", AnyWord))>> \o NtableLimits \o <<Lookup({X("dev")}, "dev")>>
             \o NtableParms,
           Required({"name", "change"}))
     EXCEPT !.fails = TRUE]

ipntable_show ==
  [Parser(<<Conv({X("dev")}, "dev", Or(Dev, "none", "none")), Conv({X("name")}, "name", AnyWord)>>)
     EXCEPT !.fails = TRUE]

(***************************************************************************)
(* tcp_metrics, whose loop steps over the word behind the address, and     *)
(* netconf, which passes over unknown words.                               *)
(***************************************************************************)
tcpm_do_cmd(del) ==
  [Checked(<<MHelp, Single(Else({X("addr"), X("address")}, <<InFamily({"addr"}), Maybe(Arg({}, AnyWord))>>), "given")>>,
           IF del THEN Required({"addr"}) ELSE {})
     EXCEPT !.fails = TRUE]

ipnetconf_do_show == [Parser(<<Lookup({X("dev")}, "dev")>>) EXCEPT !.other = "skip", !.fails = TRUE]

(***************************************************************************)
(* bridge and genl.                                                        *)
(***************************************************************************)
fdb_modify ==
  [Checked(<<Lookup({X("dev")}, "dev"), Single(With({X("dst")}, <<InFamily({"dst"})>>), "dst_ok"),
             Flag({X("self")}, "self"), Flag({M("master")}, "master"),
             Flag({M("local"), M("permanent")}, "permanent"), Flag({M("temp")}, "temp"), MHelp,
             Once(Else({X("to")}, <<Arg({"addr"}, Pos)>>))>>,
           Required({"dev", "addr"}))
     EXCEPT !.fails = TRUE]

\* Unknown words are passed over.
mdb_modify(new) ==
  [Checked(<<Lookup({X("dev")}, "dev"), Conv({X("grp")}, "grp", Addr), Lookup({X("port")}, "port"),
             IF new THEN Flag({X("permanent")}, "permanent") ELSE Row({X("permanent")}), Row({X("temp")}), MHelp>>,
           Required({"dev", "grp", "port"}))
     EXCEPT !.other = "skip", !.fails = TRUE]

\* fdb and mdb
fdb_show == [Parser(<<Unless(Conv({X("dev")}, "filter_index", Dev), {"filter_dev"})>>)
               EXCEPT !.rows[1].raise = {"filter_dev"}, !.other = "skip", !.fails = TRUE]

mdb_show == fdb_show

bridge_do_monitor ==
  [Parser(<<MonitorFile, Subject("link"), Subject("fdb"), Subject("mdb"), Everything, MHelp>>)
     EXCEPT !.fails = TRUE, !.init = "groups" :> "1"]

\* exactly one of them
ctrl_list == [Must(<<Conv({M("name")}, "name", AnyWord), Val({M("id")}, "id")>>) EXCEPT !.some = TRUE, !.fails = TRUE]

=============================================================================
