---------------------------- MODULE ToolCommands -----------------------------
(***************************************************************************)
(* How ip, tc, bridge and genl find the command: the options of the        *)
(* program (main), then the object (do_cmd), then what is to be done with  *)
(* it (do_qdisc, do_ipaddr, ...).  Without a word for it, the objects are  *)
(* listed.  The words are compared in the order of the rows, and any       *)
(* beginning of a word will do, so that the order decides what an          *)
(* abbreviation means.  An option that is counted is a flag here.          *)
(***************************************************************************)
EXTENDS OptionTable

\* One of the words of a command, and the parser that reads the rest of the line.
Do(w, p)        == [Command(w, p) EXCEPT !.set = "do" :> w]
DoAny(kw, w, p) == [Return(kw, p) EXCEPT !.set = "do" :> w]
Show(p)         == DoAny({M("list"), M("show"), M("lst")}, "show", p)
Change(p)       == DoAny({M("change"), X("chg")}, "change", p)
Object(w, p)    == [Command(w, p) EXCEPT !.set = "object" :> p]

NoWords == Parser(<<>>)                     \* takes no words
Words   == [Parser(<<>>) EXCEPT !.other = "skip"]    \* does not look at them

(***************************************************************************)
(* tc                                                                      *)
(***************************************************************************)
do_qdisc ==
  Parser(<<Do("add", "tc_qdisc_modify"), Do("change", "tc_qdisc_modify"), Do("replace", "tc_qdisc_modify"),
           Do("link", "tc_qdisc_modify"), Do("delete", "tc_qdisc_modify"), Show("tc_qdisc_list"), MHelp>>)

\* do_class and do_filter
do_tc_object(modify, list) ==
  Parser(<<Do("add", modify), Do("change", modify), Do("replace", modify), Do("delete", modify), Show(list), MHelp>>)

do_class  == do_tc_object("tc_class_modify", "tc_class_list")
do_filter == do_tc_object("tc_filter_modify", "tc_filter_list")

tc_do_cmd ==
  Parser(<<Object("qdisc", "do_qdisc"), Object("class", "do_class"), Object("filter", "do_filter"),
           Object("actions", "do_action"), Object("monitor", "do_tcmonitor"), MHelp>>)

(***************************************************************************)
(* The options of a program.  A word that begins with - and is none of     *)
(* them is refused, any other one is the object.  A batch file takes the   *)
(* place of the command.                                                   *)
(***************************************************************************)
Opt(w)      == {M("-" \o w)}
Opts(w)     == {M("-" \o w), M("--" \o w)}
Version(kw) == Return(kw, "Words")
Rest(p)     == [Phase(p) EXCEPT !.ret = TRUE]
BatchFile   == Only(Rest("Words"), {"batch"})

tc_main ==
  Checked(<<Flag(Opt("stats") \cup Opt("statistics"), "show_stats"), Flag(Opt("details"), "show_details"),
            Flag(Opt("raw"), "show_raw"), Flag(Opt("pretty"), "show_pretty"), Version(Opt("Version")),
            Flag(Opt("iec"), "use_iec"), Reject(Opt("help")), Flag(Opt("force"), "force"),
            [With(Opt("batch"), <<Maybe(Arg({"file"}, AnyWord))>>) EXCEPT !.set = "batch" :> "1"],
            Reject({W("-")}), BatchFile, Rest("tc_do_cmd")>>,
          {IfAll({}, {"batch"})})

\* The families: six and odd tell ip tunnel which of them is in force.
InForce(kw, family, six, odd) ==
  [Row(kw) EXCEPT !.set = ("family" :> family) @@ ("six" :> six) @@ ("odd" :> odd)]

Inet(kw)  == InForce(kw, "inet", "0", "0")
Inet6(kw) == InForce(kw, "inet6", "1", "0")
Other(kw, family) == InForce(kw, family, "0", "1")

ip_family ==
  Must(<<Inet({X("inet")}), Inet6({X("inet6")}), Other({X("dnet")}, "dnet"), Other({X("link")}, "link"),
         Other({X("ipx")}, "ipx"), Other({X("bridge")}, "bridge")>>)

ip_main ==
  Checked(<<Return({X("--")}, "ip_command"), Conv(Opts("loops"), "max_flush_loops", Num @@ ("*" :> "0")),
            CallOn(Opts("family"), "ip_family"), Inet({X("-4")}), Inet6({X("-6")}), Other({X("-0")}, "link"),
            Other({X("-I")}, "ipx"), Other({X("-D")}, "dnet"), Other({X("-B")}, "bridge"),
            Flag(Opts("stats") \cup Opts("statistics"), "show_stats"), Flag(Opts("details"), "show_details"),
            Flag(Opts("resolve"), "resolve_hosts"), Flag(Opts("oneline"), "oneline"),
            Flag(Opts("timestamp"), "timestamp"), Version(Opts("Version")), Flag(Opts("force"), "force"),
            [Conv(Opts("batch"), "file", AnyWord) EXCEPT !.set = "batch" :> "1"], Val(Opts("rcvbuf"), "rcvbuf"),
            Reject(Opts("help")), Reject({W("-")}), BatchFile, Rest("ip_do_cmd")>>,
          {IfAll({}, {"batch"})})

ip_command == Checked(<<BatchFile, Rest("ip_do_cmd")>>, {IfAll({}, {"batch"})})

\* rtmon writes what happens to a file; its loop starts behind the name of the program.
rtmon_family ==
  Must(<<Inet({X("inet")}), Inet6({X("inet6")}), Inet6({X("link")})>>)

rtmon_main ==
  LET Subject(w) == [Flag({M(w)}, w) EXCEPT !.set = @ @@ ("groups" :> "0")]
  IN  [Checked(<<CallOn(Opt("family"), "rtmon_family"), Inet({X("-4")}), Inet6({X("-6")}), Other({X("-0")}, "link"),
                 Version(Opt("Version")), Conv({M("file")}, "file", AnyWord), Subject("link"), Subject("address"),
                 Subject("route"), Flag({X("all")}, "groups"), MHelp>>,
               Required({"file"}))
         EXCEPT !.init = "groups" :> "1", !.fails = TRUE]

bridge_family == Must(<<Inet({X("inet")}), Inet6({X("inet6")})>>)

bridge_main ==
  Checked(<<Return({X("--")}, "bridge_do_cmd"), Reject(Opts("help")), Version(Opts("Version")),
            Flag(Opts("stats") \cup Opts("statistics"), "show_stats"), Flag(Opts("details"), "show_details"),
            Flag(Opts("timestamp"), "timestamp"), CallOn(Opts("family"), "bridge_family"), Inet({X("-4")}),
            Inet6({X("-6")}), Reject({W("-")}), Rest("bridge_do_cmd")>>,
          {IfAll({}, {})})

genl_main ==
  Checked(<<Flag(Opt("stats") \cup Opt("statistics"), "show_stats"), Flag(Opt("details"), "show_details"),
            Flag(Opt("raw"), "show_raw"), Version(Opt("Version")), Reject(Opt("help")), Reject({W("-")}),
            Rest("genl_kind")>>,
          {IfAll({}, {})})

genl_kind == Parser(<<Return({X("ctrl")}, "parse_ctrl")>>)

parse_ctrl ==
  Checked(<<Do("monitor", "ctrl_listen"), Do("get", "ctrl_list"), Show("ctrl_dump"), MHelp>>, {IfAll({}, {})})

(***************************************************************************)
(* ip                                                                      *)
(***************************************************************************)
ip_do_cmd ==
  Parser(<<Object("address", "do_ipaddr"), Object("addrlabel", "do_ipaddrlabel"),
           Object("maddress", "do_multiaddr"), Object("route", "do_iproute"), Object("rule", "do_iprule"),
           Object("neighbor", "do_ipneigh"), Object("neighbour", "do_ipneigh"), Object("ntable", "do_ipntable"),
           Object("ntbl", "do_ipntable"), Object("link", "do_iplink"), Object("l2tp", "do_ipl2tp"),
           Object("tunnel", "do_iptunnel"), Object("tunl", "do_iptunnel"), Object("tuntap", "do_iptuntap"),
           Object("tap", "do_iptuntap"), Object("tcpmetrics", "do_tcp_metrics"),
           Object("tcp_metrics", "do_tcp_metrics"), Object("monitor", "do_ipmonitor"), Object("xfrm", "do_xfrm"),
           Object("mroute", "do_multiroute"), Object("mrule", "do_multirule"), Object("netns", "do_netns"),
           Object("netconf", "do_ipnetconf"), MHelp>>)

do_ipaddr ==
  Parser(<<Do("add", "ipaddr_modify"), Change("ipaddr_modify"), Do("replace", "ipaddr_modify"),
           Do("delete", "ipaddr_delete"), Show("ipaddr_list"), Do("flush", "ipaddr_flush"),
           Do("save", "ipaddr_list"), Do("showdump", "Words"), Do("restore", "Words"), MHelp>>)

do_ipaddrlabel ==
  Parser(<<DoAny({M("list"), M("show")}, "show", "NoWords"), Do("add", "ipaddrlabel_modify"),
           Do("delete", "ipaddrlabel_modify"), Do("flush", "NoWords"), MHelp>>)

do_ipl2tp ==
  Checked(<<Do("add", "ipl2tp_do_add"), Do("delete", "ipl2tp_do_del"), Show("ipl2tp_do_show"), MHelp>>,
          {IfAll({}, {})})

do_multiaddr ==
  Parser(<<Do("add", "multiaddr_modify"), Do("delete", "multiaddr_modify"), Show("multiaddr_list"), MHelp>>)

do_multiroute == Parser(<<Show("mroute_list"), MHelp>>)

do_ipneigh ==
  Parser(<<Do("add", "ipneigh_modify"), Change("ipneigh_modify"), Do("replace", "ipneigh_modify"),
           Do("delete", "ipneigh_modify"), Reject({M("get")}), Show("ipneigh_show"), Do("flush", "ipneigh_flush"),
           MHelp>>)

do_ipnetconf == Parser(<<Show("ipnetconf_do_show"), MHelp>>)

\* The name of a name space; a command to run in it
netns_name == [Must(<<Else({}, <<Arg({"name"}, AnyWord)>>)>>) EXCEPT !.some = TRUE, !.fails = TRUE]
netns_first == [netns_name EXCEPT !.rows[1].then = "Words", !.rows[1].ret = TRUE]
netns_exec == [Must(<<Else({}, <<Arg({"name"}, AnyWord), Arg({"cmd"}, AnyWord)>>)>>)
                 EXCEPT !.some = TRUE, !.fails = TRUE, !.rows[1].then = "Words", !.rows[1].ret = TRUE]

do_netns ==
  Parser(<<Show("Words"), MHelp, Do("add", "netns_first"), Do("delete", "netns_first"),
           Do("identify", "netns_name"), Do("pids", "netns_name"), Do("exec", "netns_exec"), Do("monitor", "Words")>>)

do_ipntable ==
  Parser(<<DoAny({M("change"), M("chg")}, "change", "ipntable_modify"), Show("ipntable_show"), MHelp>>)

do_iproute ==
  Parser(<<Do("add", "iproute_modify"), Change("iproute_modify"), Do("replace", "iproute_modify"),
           Do("prepend", "iproute_modify"), Do("append", "iproute_modify"), Do("test", "iproute_modify"),
           Do("delete", "iproute_modify"), Show("iproute_list"), Do("get", "iproute_get"),
           Do("flush", "iproute_flush"), Do("save", "iproute_list"), Do("restore", "Words"),
           Do("showdump", "Words"), MHelp>>)

do_iprule ==
  Parser(<<Show("NoWords"), Do("add", "iprule_modify"), Do("delete", "iprule_modify"), Do("flush", "NoWords"), MHelp>>)

Refused(flag) == Only([Phase("") EXCEPT !.then = "refuse"], {flag})

\* The family is one of its own, of which no address is.
do_multirule ==
  Parser(<<Refused("odd"), [Rest("do_iprule") EXCEPT !.set = "family" :> "ipmr"]>>)

\* IPv4 unless IPv6 was asked for
do_iptunnel ==
  [Parser(<<Only(Rest("do_ip6tunnel"), {"six"}), Refused("odd"),
            Do("add", "iptunnel_do_add"), Do("change", "iptunnel_do_change"), Do("delete", "iptunnel_do_del"),
            Show("iptunnel_do_del"), Do("prl", "do_prl"), Do("6rd", "do_6rd"), MHelp>>)
     EXCEPT !.init = "family" :> "inet"]

do_ip6tunnel ==
  Parser(<<Do("add", "ip6tunnel_do_add"), Do("change", "ip6tunnel_do_change"), Do("delete", "ip6tunnel_do_add"),
           Show("ip6tunnel_do_add"), MHelp>>)

do_iptuntap ==
  Parser(<<Do("add", "iptuntap_do_add"), Do("delete", "iptuntap_do_del"), Show("Words"), MHelp>>)

do_xfrm ==
  Checked(<<DoAny({M("state"), M("sa")}, "state", "do_xfrm_state"), Do("policy", "do_xfrm_policy"),
            Do("monitor", "do_xfrm_monitor"), MHelp>>,
          {IfAll({}, {})})

do_xfrm_state ==
  Parser(<<Do("add", "xfrm_state_modify"), Do("update", "xfrm_state_modify"), Do("allocspi", "xfrm_state_allocspi"),
           Do("delete", "xfrm_state_get_or_delete"),
           DoAny({M("deleteall"), M("delall")}, "deleteall", "xfrm_state_list_or_deleteall"),
           Show("xfrm_state_list_or_deleteall"), Do("get", "xfrm_state_get_or_delete"),
           Do("flush", "xfrm_state_flush"), Do("count", "Words"), MHelp>>)

do_xfrm_policy ==
  Parser(<<Do("add", "xfrm_policy_modify"), Do("update", "xfrm_policy_modify"),
           Do("delete", "xfrm_policy_get_or_delete"),
           DoAny({M("deleteall"), M("delall")}, "deleteall", "xfrm_policy_list_or_deleteall"),
           Show("xfrm_policy_list_or_deleteall"), Do("get", "xfrm_policy_get_or_delete"),
           Do("flush", "xfrm_policy_flush"), Do("count", "Words"), MHelp>>)

do_tcp_metrics ==
  Parser(<<Show("tcpm_list"), DoAny({M("delete"), M("remove")}, "delete", "tcpm_del"), Do("flush", "tcpm_list"),
           MHelp>>)

do_iplink ==
  Parser(<<Do("add", "iplink_add"), DoAny({M("set"), M("change")}, "change", "iplink_set"),
           Do("replace", "iplink_add"), Do("delete", "iplink_set"),
           [Show("ipaddr_list_link") EXCEPT !.set = @ @@ ("family" :> "link")], MHelp>>)

(***************************************************************************)
(* bridge                                                                  *)
(***************************************************************************)
bridge_do_cmd ==
  Checked(<<Object("fdb", "do_fdb"), Object("mdb", "do_mdb"), Object("monitor", "bridge_do_monitor"), MHelp>>,
          {IfAll({}, {})})

do_fdb == Parser(<<Do("add", "fdb_modify"), Do("delete", "fdb_modify"), Show("fdb_show"), MHelp>>)
do_mdb == Parser(<<Do("add", "mdb_add"), Do("delete", "mdb_delete"), Show("mdb_show"), MHelp>>)

=============================================================================
