---------------------------- MODULE IpLinkOptions ----------------------------
(***************************************************************************)
(* The options of ip link, of the link kinds it knows, and of the tunnel   *)
(* commands (iproute2/ip/iplink*.c, link_*.c, iptunnel.c, ip6tunnel.c,     *)
(* iptuntap.c, ipl2tp.c).  Addresses of the link layer are numbers.        *)
(***************************************************************************)
EXTENDS OptionTable

V4 == OneOf({"v4", "w4"})

\* dev NAME, where the keyword may be left out
Named(kw, f) == <<MHelp, Once(Else(kw, <<Arg({f}, AnyWord)>>))>>

(***************************************************************************)
(* ip link.  A queue length, an mtu or a group of 0 counts as given.       *)
(***************************************************************************)
vf_qos == Either(<<Val({M("qos")}, "qos")>>)

iplink_parse_vf ==
  [Part(<<Val({M("mac")}, "mac"),
          [Val({M("vlan")}, "vlan") EXCEPT !.then = "vf_qos", !.set = "qos" :> "0"],
          Val({M("rate")}, "vf_rate"), Conv({M("spoofchk")}, "spoofchk", OnOff)>>)
     EXCEPT !.some = TRUE]

Updown == <<Flag({X("up")}, "up"), Set({X("down")}, "up", "0")>>
Qlen   == Single(Val({M("txqueuelen"), X("qlen"), M("txqlen")}, "qlen"), "qlen_given")
Mtu    == Single(Val({X("mtu")}, "mtu"), "mtu_given")
Addresses == <<Val({M("address")}, "address"), Val({M("broadcast"), X("brd")}, "broadcast")>>

\* the first branches
IplinkRows ==
  Updown \o <<Conv({X("name")}, "name", AnyWord), Conv({M("link")}, "link", AnyWord)>> \o Addresses
    \o <<Qlen, Mtu, Single(Conv({X("netns")}, "netns", AnyWord), "netns_given")>>
    \o XOnOff(<<"multicast", "allmulticast", "promisc", "trailers", "arp">>)
    \o <<[Val({X("vf")}, "vf") EXCEPT !.then = "iplink_parse_vf", !.more = TRUE]>>

\* The rest.  The words after a type are for the parser of that type; those after an alias
\* are looked at by nobody.
iplink_parse ==
  IplinkRows
    \o <<Conv({M("master")}, "master", Dev), Set({M("nomaster")}, "master", "0")>>
    \o MOnOff(<<"dynamic">>)
    \o <<CallOn({M("type")}, "get_link_kind"),
         [Conv({M("alias")}, "alias", AnyWord) EXCEPT !.then = "ignore_rest", !.raise = {"left"}],
         Single(Val({X("group")}, "group"), "group_given"), Val({X("mode")}, "mode"),
         Val({X("state")}, "state"), Single(Val({M("numtxqueues")}, "numtxqueues"), "ntx_given"),
         Single(Val({M("numrxqueues")}, "numrxqueues"), "nrx_given")>>
    \o Named({X("dev")}, "dev")

ignore_rest == [Parser(<<>>) EXCEPT !.other = "skip"]

(***************************************************************************)
(* iplink_modify.  A new device needs a type.  For another, dev is needed, *)
(* or a group: then every device of the group is meant and no words may be *)
(* left for the type.  A kind without options of its own takes no words;   *)
(* the parser of the others is only called if there are some.              *)
(***************************************************************************)
get_link_kind(kinds) ==
  Must([i \in DOMAIN kinds |-> [Set({X(kinds[i][1])}, "type", kinds[i][1]) EXCEPT !.then = kinds[i][2]]]
         \o <<Else({}, <<Arg({"type"}, AnyWord)>>)>>)

\* Called only with words to read; left: there were some.
type_options(p) == Sequential(<<[Phase(p) EXCEPT !.raise = {"left"}]>>)

iplink_modify(create) ==
  [Checked(iplink_parse,
           IF create THEN {IfAll({}, {"type"}), IfAll({"group_given"}, {"dev"})}
           ELSE {IfAll({}, {"dev", "group_given"}), IfAll({"group_given", "left"}, {"dev"})})
     EXCEPT !.fails = TRUE]

\* ip link set with ioctls: the same words less what the ioctls cannot do
do_set ==
  [Checked(Updown \o <<Conv({X("name")}, "name", AnyWord)>> \o Addresses \o <<Qlen, Mtu>>
             \o XOnOff(<<"multicast", "allmulticast", "promisc", "trailers", "arp">>) \o MOnOff(<<"dynamic">>)
             \o Named({X("dev")}, "dev"),
           Required({"dev"}))
     EXCEPT !.fails = TRUE]

(***************************************************************************)
(* The kinds of links.                                                     *)
(***************************************************************************)
\* Without a bit rate or a time quantum nothing of the bit timing is sent.
can_parse_opt ==
  LET Timing == <<"sample-point", "prop-seg", "phase-seg1", "phase-seg2", "sjw">>
  IN  [Parser(<<Val({M("bitrate")}, "bitrate"), Val({M("sample-point")}, "sample-point"), Val({M("tq")}, "tq")>>
                \o MVals(Tail(Timing))
                \o MOnOff(<<"loopback", "listen-only", "triple-sampling", "one-shot", "berr-reporting">>)
                \o <<Flag({M("restart")}, "restart"), Val({M("restart-ms")}, "restart-ms"), MHelp>>)
         EXCEPT !.drops = {SentIf(ToSet(Timing), {"bitrate", "tq"})}]

ipoib_parse_opt ==
  Parser(<<Val({M("pkey")}, "pkey"), Conv({M("mode")}, "ipoib_mode", OneOf({"datagram", "connected"})),
           Val({M("umcast")}, "umcast"), MHelp>>)

macvlan_parse_opt ==
  Parser(<<Conv({M("mode")}, "macvlan_mode", OneOf({"private", "vepa", "bridge", "passthru"})), MHelp>>)

macvtap_parse_opt == macvlan_parse_opt

\* A map is read up to the first word that is no mapping, and replaces an earlier one.
vlan_parse_qos_map(w) == Part(<<Flag({X("1:1")}, w \o "1"), Flag({X("2:2")}, w \o "2")>>)

QosMap(w) == [CallOn({M(w)}, w) EXCEPT !.set = ((w \o "1") :> "0") @@ ((w \o "2") :> "0")]

vlan_parse_opt ==
  Parser(<<Val({M("id")}, "id")>> \o MOnOff(<<"reorder_hdr", "gvrp", "loose_binding">>)
           \o <<QosMap("ingress-qos-map"), QosMap("egress-qos-map"), MHelp>>)

Switch(w) == <<Set({M("no" \o w)}, w, "0"), Flag({M(w)}, w)>>

\* Once there was an "ageing none" no other ageing time is sent.
vxlan_ageing == Must(<<Flag({X("none")}, "noage"), Else({}, <<Arg({"age"}, Num)>>)>>)

vxlan_parse_opt ==
  Checked(<<[Val({M("id"), M("vni")}, "vni") EXCEPT !.raise = {"vni_set"}],
             Conv({M("group")}, "gaddr", OneOf({"w4"})), Conv({M("local")}, "saddr", Or(V4, "any", "keep")),
             Conv({M("dev")}, "vxlan_link", Dev), Conv({M("ttl"), M("hoplimit")}, "ttl", Or(Num, "inherit", "keep")),
             Conv({M("tos"), M("dsfield")}, "tos", Or(Num, "inherit", "1")), CallOn({M("ageing")}, "vxlan_ageing"),
             Conv({M("maxaddress")}, "maxaddr", Or(Num, "unlimited", "0")),
             With({M("port")}, <<Arg({"port_low"}, Num), Arg({"port_high"}, Num)>>)>>
             \o Switch("learning") \o Switch("proxy") \o Switch("rsc") \o Switch("l2miss") \o Switch("l3miss")
             \o <<MHelp>>,
           Required({"vni_set"}))

(***************************************************************************)
(* The tunnels as links.  When an existing one is changed its parameters   *)
(* are read first, so that an option that is not given keeps its value.    *)
(***************************************************************************)
Existing(create, S) == IF create THEN <<>> ELSE [f \in S |-> "old"]

Ttl(kw)  == Conv(kw, "ttl", Or(Num, "inherit", "keep"))
Tos(kw)  == Conv(kw, "tos", Or(Num, "inherit", "1"))
EndPoint(cmp, w, any) == Conv({<<cmp, w>>}, w, Or(V4, "any", any))

GreKeys(cmp) ==
  Raise("gre_key", <<With({<<cmp, "key">>}, <<Arg({"ikey", "okey"}, Num)>>), Val({<<cmp, "ikey">>}, "ikey"),
                     Val({<<cmp, "okey">>}, "okey")>>)

GreFlags(cmp) ==
  LET Pair(w) == <<[Row({<<cmp, w>>}) EXCEPT !.set = (("i" \o w) :> "1") @@ (("o" \o w) :> "1")],
                   Flag({<<cmp, "i" \o w>>}, "i" \o w), Flag({<<cmp, "o" \o w>>}, "o" \o w)>>
  IN  Pair("seq") \o Pair("csum")

PmtuDisc(cmp) == <<Set({<<cmp, "nopmtudisc">>}, "pmtudisc", "0"), Flag({<<cmp, "pmtudisc">>}, "pmtudisc")>>

GreRows ==
  GreKeys("matches") \o GreFlags("matches") \o PmtuDisc("matches")
    \o <<EndPoint("matches", "remote", "keep"), EndPoint("matches", "local", "keep"), Conv({M("dev")}, "link_dev", Dev),
         Ttl({M("ttl"), M("hoplimit")}), Tos({M("tos"), M("tclass"), M("dsfield")})>>

\* what is read first, and the check at the end
gre_parse_opt(create) ==
  [Checked(GreRows, {Multicast("remote", "local")})
     EXCEPT !.fails = ~create,
            !.init = Existing(create, {"ikey", "okey", "iseq", "oseq", "icsum", "ocsum", "remote", "local",
                                       "link_dev", "ttl", "tos"}) @@ ("pmtudisc" :> "1")]

vti_parse_opt(create) ==
  [Parser(GreKeys("matches") \o <<Conv({M("remote")}, "remote", V4), Conv({M("local")}, "local", V4),
                          Conv({M("dev")}, "link_dev", Dev)>>)
     EXCEPT !.fails = ~create, !.init = Existing(create, {"ikey", "okey", "remote", "local", "link_dev"})]

SixrdRows ==
  <<Conv({X("6rd-prefix")}, "6rd-prefix", OneOf({"v6"})), Conv({X("6rd-relay_prefix")}, "6rd-relay", V4),
    [Row({X("6rd-reset")}) EXCEPT !.set = ("6rd-prefix" :> "2002") @@ ("6rd-relay" :> "0")]>>

\* ipip and sit; 6rd is only sent for sit
iptunnel_parse_opt(create, sit) ==
  [Checked(<<EndPoint("strcmp", "remote", "0"), EndPoint("strcmp", "local", "0"), Conv({M("dev")}, "link_dev", Dev),
             Conv({X("ttl"), X("hoplimit")}, "ttl", Or(Num, "inherit", "0")),
             Tos({X("tos"), X("tclass"), M("dsfield")})>>
             \o PmtuDisc("strcmp") \o (IF sit THEN <<Flag({X("isatap")}, "isatap")>> ELSE <<>>) \o SixrdRows,
           {IfAll({"ttl"}, {"pmtudisc"})})
     EXCEPT !.fails = ~create,
            !.init = Existing(create, {"remote", "local", "link_dev", "ttl", "tos", "isatap", "6rd-prefix", "6rd-relay"})
                       @@ ("pmtudisc" :> "1"),
            !.drops = IF sit THEN {} ELSE {SentIf({"6rd-prefix", "6rd-relay"}, {})}]

\* The modes and fields of a tunnel in IPv6.  The limit's conversion never fails: after a word
\* that is no number the value is whatever was on the stack.
Ip6Mode == ("ip6ip6" :> "ipv6") @@ ("ipv6/ipv6" :> "ipv6") @@ ("ip/ipv6" :> "ipip") @@ ("ipv4/ipv6" :> "ipip")
             @@ ("ipip6" :> "ipip") @@ ("ip4ip6" :> "ipip") @@ ("any/ipv6" :> "0") @@ ("any" :> "0")
Inherit(w)  == Conv({X(w)}, w, OneOf({"inherit"}))
EncapLimit(kw) == Conv(kw, "encaplimit", Or(Num, "none", "none") @@ ("*" :> "junk"))
HexOrInherit == Or(Num, "inherit", "inherit")

Ip6Fields == {"mode", "remote", "local", "link_dev", "hoplimit", "encaplimit", "tclass", "flowlabel", "dscp"}

Ip6Rows(cmp, limit) ==
  <<Conv({<<cmp, "mode">>}, "mode", Ip6Mode), With({X("remote")}, <<InFamily({"remote"})>>),
    With({X("local")}, <<InFamily({"local"})>>), Conv({<<cmp, "dev">>}, "link_dev", Dev)>>
    \o limit
    \o <<Conv({X("tclass"), X("tc"), X("tos"), M("dsfield")}, "tclass", HexOrInherit),
         Conv({X("flowlabel"), X("fl")}, "flowlabel", HexOrInherit), Inherit("dscp")>>

HopLimit == Val({X("hoplimit"), X("ttl"), X("hlim")}, "hoplimit")

ip6tunnel_parse_opt(create) ==
  [Parser(Ip6Rows("matches", <<HopLimit, EncapLimit({M("encaplimit")})>>) \o <<Inherit("fwmark")>>)
     EXCEPT !.fails = ~create, !.init = Existing(create, Ip6Fields \cup {"fwmark"})]

(***************************************************************************)
(* ip tunnel, over IPv4 and over IPv6.  change reads the parameters of the *)
(* tunnel when its name is the first thing given, and only then: they      *)
(* replace everything, and the options that follow are laid over them.     *)
(***************************************************************************)
iptunnel_mode ==
  LET Protos == {"proto_ipip", "proto_gre", "proto_ipv6"}
      Mode(ws, f) == Unless(Flag({X(w) : w \in ws}, f), Protos \ {f})
      And(row, f) == [row EXCEPT !.set = @ @@ (f :> "1")]
  IN  Must(<<Mode({"ipip", "ip/ip"}, "proto_ipip"), Mode({"gre", "gre/ip"}, "proto_gre"),
             Mode({"sit", "ipv6/ip"}, "proto_ipv6"), And(Mode({"isatap"}, "proto_ipv6"), "isatap"),
             And(Mode({"vti"}, "proto_ipip"), "vti")>>)

\* the branches but the last
IptunnelRows ==
  <<CallOn({X("mode")}, "iptunnel_mode")>> \o GreKeys("strcmp") \o GreFlags("strcmp") \o PmtuDisc("strcmp")
    \o <<EndPoint("strcmp", "remote", "keep"), EndPoint("strcmp", "local", "keep"), Conv({X("dev")}, "link_dev", Dev),
         Ttl({X("ttl"), X("hoplimit")}), Tos({X("tos"), X("tclass"), M("dsfield")})>>

\* The last branch: the name, and the old parameters with it.
TunnelName(change, old) ==
  LET Name == Once(Else({X("name")}, <<Arg({"name"}, AnyWord)>>))
  IN  <<MHelp>> \o (IF change THEN <<Only(Name, {"count"}), [Name EXCEPT !.set = old]>> ELSE <<Name>>)

\* keys for tunnels that have none, and a multicast endpoint
TunnelChecks ==
  {IfAll({"gre_key", f}, {}) : f \in {"proto_ipip", "proto_ipv6"}} \cup {Multicast("remote", "local")}

iptunnel_parse_args(change) ==
  LET old == [f \in {"proto_gre", "ikey", "okey", "iseq", "oseq", "icsum", "ocsum", "remote", "local",
                     "link_dev", "ttl", "tos", "pmtudisc"} |-> "old"]
  IN  [Checked(Raise("count", IptunnelRows \o TunnelName(change, old)), TunnelChecks)
         EXCEPT !.fails = change, !.init = "pmtudisc" :> "1"]

\* add and change; del and show do without the checks
iptunnel_do_add(change) ==
  [iptunnel_parse_args(change) EXCEPT
     !.checks = @ \cup {IfAll({"ttl"}, {"pmtudisc"}), IfAll({}, {"proto_ipip", "proto_gre", "proto_ipv6"})}]

do_prl ==
  LET Prl(w, cmd, dflt) == [Single(Conv({X(w)}, "prl_addr", V4), "count") EXCEPT
                              !.set = ("prl_cmd" :> cmd) @@ ("prl_default" :> dflt)]
  IN  [Checked(<<Prl("prl-default", "add", "1"), Prl("prl-nodefault", "add", "0"), Prl("prl-delete", "del", "0"),
                 Conv({X("dev")}, "dev", AnyWord)>>,
               Required({"dev"}))
         EXCEPT !.fails = TRUE]

do_6rd ==
  LET Does(row, cmd) == [row EXCEPT !.set = ("6rd_cmd" :> cmd)]
  IN  [Checked(<<Does(SixrdRows[1], "add"), Does(SixrdRows[2], "add"), Set({X("6rd-reset")}, "6rd_cmd", "del"),
                 Conv({X("dev")}, "dev", AnyWord)>>,
               Required({"dev"}))
         EXCEPT !.fails = TRUE]

ip6tunnel_parse_args(change) ==
  [Parser(Raise("count", Ip6Rows("strcmp", <<EncapLimit({X("encaplimit")}), HopLimit>>)
                           \o TunnelName(change, [f \in Ip6Fields |-> "old"])))
     EXCEPT !.fails = TRUE]

(***************************************************************************)
(* ip tuntap and ip l2tp.                                                  *)
(***************************************************************************)
tuntap_mode == Must(<<Unless(Flag({M("tun")}, "tun"), {"tap"}), Unless(Flag({M("tap")}, "tap"), {"tun"})>>)

\* owners: the command takes a user and a group
iptuntap_parse_args(owners) ==
  <<CallOn({M("mode")}, "tuntap_mode")>> \o (IF owners THEN MVals(<<"user", "group">>) ELSE <<>>)
    \o MFlags(<<"pi", "one_queue", "vnet_hdr">>) \o <<Conv({M("dev")}, "name", AnyWord)>>
    \o Named({M("name")}, "name")

iptuntap_do_add == [Checked(iptuntap_parse_args(TRUE), {IfAll({}, {"tun", "tap"})}) EXCEPT !.fails = TRUE]
iptuntap_do_del == [Parser(iptuntap_parse_args(FALSE)) EXCEPT !.fails = TRUE]

ipl2tp_parse_args ==
  LET Id(w, abbr) == Val({X(w), X(abbr)}, w)
  IN  <<Conv({X("encap")}, "udp", ("ip" :> "0") @@ ("udp" :> "1")), Conv({X("name")}, "name", AnyWord),
        Conv({X("remote")}, "remote", Addr), Conv({X("local")}, "local", Addr),
        Id("tunnel_id", "tid"), Id("peer_tunnel_id", "ptid"), Id("session_id", "sid"), Id("peer_session_id", "psid")>>
        \o XVals(<<"udp_sport", "udp_dport", "offset", "peer_offset", "cookie", "peer_cookie">>)
        \o XFlags(<<"tunnel", "session">>) \o <<MHelp>>

L2tp(checks) == [Checked(ipl2tp_parse_args, {IfAll({}, {"tunnel", "session"})} \cup checks) EXCEPT
                   !.some = TRUE, !.fails = TRUE]

ipl2tp_do_add ==
  L2tp({IfAll({}, {"tunnel_id"}), IfAll({"session"}, {"peer_session_id"}), IfAll({"session"}, {"session_id"})}
         \cup {IfAll({"tunnel"}, {f}) : f \in {"peer_tunnel_id", "local", "remote"}}
         \cup {IfAll({"tunnel", "udp"}, {f}) : f \in {"udp_sport", "udp_dport"}})

ipl2tp_do_del  == L2tp({IfAll({"tunnel"}, {"tunnel_id"}), IfAll({"session"}, {"session_id"})})
ipl2tp_do_show == L2tp({})

=============================================================================
