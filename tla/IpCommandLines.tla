--------------------------- MODULE IpCommandLines ----------------------------
(***************************************************************************)
(* The commands of ip, bridge and genl, with the words that make up an     *)
(* acceptable line.                                                        *)
(***************************************************************************)
EXTENDS IpLinkOptions, IpRouteOptions, XfrmOptions, ToolCommands

LinkKinds ==
  [can |-> can_parse_opt, ipoib |-> ipoib_parse_opt, macvlan |-> macvlan_parse_opt,
   macvtap |-> macvtap_parse_opt, vlan |-> vlan_parse_opt,
   vxlan |-> vxlan_parse_opt, gre |-> gre_parse_opt(TRUE), gre_change |-> gre_parse_opt(FALSE),
   vti |-> vti_parse_opt(TRUE), vti_change |-> vti_parse_opt(FALSE), ipip |-> iptunnel_parse_opt(TRUE, FALSE),
   sit |-> iptunnel_parse_opt(TRUE, TRUE), sit_change |-> iptunnel_parse_opt(FALSE, TRUE),
   ip6tnl |-> ip6tunnel_parse_opt(TRUE), ip6tnl_change |-> ip6tunnel_parse_opt(FALSE)]

LinkCommands ==
  [iplink_add |-> iplink_modify(TRUE), iplink_set |-> iplink_modify(FALSE), do_set |-> do_set,
   iptunnel_do_add |-> iptunnel_do_add(FALSE), iptunnel_do_change |-> iptunnel_do_add(TRUE),
   iptunnel_do_del |-> iptunnel_parse_args(FALSE), do_prl |-> do_prl, do_6rd |-> do_6rd,
   ip6tunnel_do_add |-> ip6tunnel_parse_args(FALSE), ip6tunnel_do_change |-> ip6tunnel_parse_args(TRUE),
   iptuntap_do_add |-> iptuntap_do_add, iptuntap_do_del |-> iptuntap_do_del,
   ipl2tp_do_add |-> ipl2tp_do_add, ipl2tp_do_del |-> ipl2tp_do_del, ipl2tp_do_show |-> ipl2tp_do_show]

RouteCommands ==
  [iproute_modify |-> iproute_modify, iproute_list |-> iproute_list_flush_or_save(FALSE),
   iproute_flush |-> iproute_list_flush_or_save(TRUE), iproute_get |-> iproute_get,
   iprule_modify |-> iprule_modify, ipaddr_modify |-> ipaddr_modify(FALSE), ipaddr_delete |-> ipaddr_modify(TRUE),
   ipaddr_list |-> ipaddr_list_flush_or_save(FALSE), ipaddr_flush |-> ipaddr_list_flush_or_save(TRUE),
   ipaddr_list_link |-> ipaddr_list_flush_or_save(FALSE),
   ipaddrlabel_modify |-> ipaddrlabel_modify, multiaddr_list |-> multiaddr_list,
   multiaddr_modify |-> multiaddr_modify, do_ipmonitor |-> do_ipmonitor, mroute_list |-> mroute_list,
   ipneigh_modify |-> ipneigh_modify, ipneigh_show |-> do_show_or_flush(FALSE),
   ipneigh_flush |-> do_show_or_flush(TRUE), ipntable_modify |-> ipntable_modify, ipntable_show |-> ipntable_show,
   tcpm_list |-> tcpm_do_cmd(FALSE), tcpm_del |-> tcpm_do_cmd(TRUE), ipnetconf_do_show |-> ipnetconf_do_show,
   fdb_modify |-> fdb_modify, mdb_add |-> mdb_modify(TRUE), mdb_delete |-> mdb_modify(FALSE),
   fdb_show |-> fdb_show, mdb_show |-> mdb_show, bridge_do_monitor |-> bridge_do_monitor, ctrl_list |-> ctrl_list]

XfrmCommands ==
  [xfrm_policy_modify |-> xfrm_policy_modify, xfrm_policy_get_or_delete |-> xfrm_policy_get_or_delete,
   xfrm_policy_list_or_deleteall |-> xfrm_policy_list_or_deleteall, xfrm_policy_flush |-> xfrm_policy_flush,
   xfrm_state_modify |-> xfrm_state_modify, xfrm_state_allocspi |-> xfrm_state_allocspi,
   xfrm_state_get_or_delete |-> xfrm_state_get_or_delete,
   xfrm_state_list_or_deleteall |-> xfrm_state_list_or_deleteall, xfrm_state_flush |-> xfrm_state_flush,
   do_xfrm_monitor |-> do_xfrm_monitor]

Dispatchers ==
  [ip_main |-> ip_main, ip_do_cmd |-> ip_do_cmd, bridge_main |-> bridge_main, bridge_do_cmd |-> bridge_do_cmd,
   rtmon_main |-> rtmon_main,
   genl_main |-> genl_main, genl_kind |-> genl_kind, parse_ctrl |-> parse_ctrl, do_ipaddr |-> do_ipaddr,
   do_ipaddrlabel |-> do_ipaddrlabel, do_ipl2tp |-> do_ipl2tp, do_multiaddr |-> do_multiaddr,
   do_multiroute |-> do_multiroute, do_ipneigh |-> do_ipneigh, do_ipnetconf |-> do_ipnetconf,
   do_netns |-> do_netns, do_ipntable |-> do_ipntable, do_iproute |-> do_iproute, do_iprule |-> do_iprule,
   do_multirule |-> do_multirule, do_iptunnel |-> do_iptunnel, do_ip6tunnel |-> do_ip6tunnel,
   do_iptuntap |-> do_iptuntap, do_xfrm |-> do_xfrm, do_xfrm_state |-> do_xfrm_state,
   do_xfrm_policy |-> do_xfrm_policy, do_tcp_metrics |-> do_tcp_metrics, do_iplink |-> do_iplink,
   do_fdb |-> do_fdb, do_mdb |-> do_mdb]

Kinds == <<<<"can", "can_options">>, <<"vlan", "vlan_options">>, <<"gre", "gre_options">>>>

SubParsers ==
  [vf_qos |-> vf_qos, iplink_parse_vf |-> iplink_parse_vf, get_link_kind |-> get_link_kind(Kinds),
   can_options |-> type_options("can"), vlan_options |-> type_options("vlan"), gre_options |-> type_options("gre"),
   ignore_rest |-> ignore_rest, vxlan_ageing |-> vxlan_ageing, iptunnel_mode |-> iptunnel_mode,
   tuntap_mode |-> tuntap_mode, parse_one_nh |-> parse_one_nh, parse_nexthops |-> parse_nexthops,
   route_src |-> route_src, route_dst |-> route_dst, route_table |-> route_table, table_id |-> table_id,
   rule_mark |-> rule_mark, rule_action |-> rule_action,
   addr_broadcast |-> addr_broadcast, mark_mask |-> mark_mask, upspec_proto |-> upspec_proto,
   xfrm_mode_parse |-> xfrm_mode_parse, xfrmproto |-> xfrm_xfrmproto_getbyname(""),
   tmpl_xfrmproto |-> xfrm_xfrmproto_getbyname("tmpl_"), id |-> xfrm_id_parse("", "check", FALSE, TRUE),
   id_kept |-> xfrm_id_parse("", "check", FALSE, FALSE), id_loose |-> xfrm_id_parse("", "check", TRUE, TRUE),
   xfrm_selector_upspec_parse |-> xfrm_selector_upspec_parse, selector |-> xfrm_selector_parse(TRUE),
   sel |-> xfrm_selector_parse(FALSE), xfrm_lifetime_cfg_parse |-> xfrm_lifetime_cfg_parse,
   xfrm_policy_flag_parse |-> xfrm_policy_flag_parse, policy_flag_names |-> flag_names(PolicyFlags),
   xfrm_state_flag_parse |-> xfrm_state_flag_parse, state_flag_names |-> flag_names(StateFlags),
   xfrm_tmpl_parse |-> xfrm_tmpl_parse, tmpl_id |-> tmpl_id, ip_family |-> ip_family, ip_command |-> ip_command,
   bridge_family |-> bridge_family, rtmon_family |-> rtmon_family, netns_name |-> netns_name, netns_first |-> netns_first,
   netns_exec |-> netns_exec, NoWords |-> NoWords, Words |-> Words, ctrl_listen |-> Words, ctrl_dump |-> Words]
  @@ ("ingress-qos-map" :> vlan_parse_qos_map("ingress-qos-map"))
  @@ ("egress-qos-map" :> vlan_parse_qos_map("egress-qos-map"))

AllParsers == LinkKinds @@ LinkCommands @@ RouteCommands @@ XfrmCommands @@ Dispatchers @@ SubParsers

-----------------------------------------------------------------------------
Tunnel == <<<<"mode", "gre">>>>
L2tpIds == <<<<"tunnel">>, <<"tunnel_id", "1">>, <<"peer_tunnel_id", "1">>, <<"local", "v4">>, <<"remote", "v4">>>>
Policy == <<<<"dir", "out">>>>
Sa     == <<<<"enc", "w1", "w1">>, <<"proto", "esp">>>>

BaseLines ==
  [vxlan |-> <<<<"vni", "1">>>>, iplink_add |-> <<<<"dev", "w1">>, <<"type", "w1">>>>, iplink_set |-> <<<<"dev", "w1">>>>,
   do_set |-> <<<<"dev", "w1">>>>, iplink_parse_vf |-> <<<<"mac", "1">>>>, get_link_kind |-> <<<<"vlan">>>>,
   vxlan_ageing |-> <<<<"1">>>>, iptunnel_mode |-> <<<<"gre">>>>, tuntap_mode |-> <<<<"tun">>>>,
   iptunnel_do_add |-> Tunnel, iptunnel_do_change |-> Tunnel, do_prl |-> <<<<"dev", "w1">>>>,
   do_6rd |-> <<<<"dev", "w1">>>>, iptuntap_do_add |-> <<<<"mode", "tap">>>>, ipl2tp_do_add |-> L2tpIds,
   ipl2tp_do_del |-> <<<<"tunnel">>, <<"tunnel_id", "1">>>>, ipl2tp_do_show |-> <<<<"tunnel">>>>,
   parse_one_nh |-> <<<<"dev", "eth0">>>>, parse_nexthops |-> <<<<"nexthop", "dev", "eth0">>>>,
   route_src |-> <<<<"root", "v4">>>>, route_dst |-> <<<<"match", "v4">>>>, route_table |-> <<<<"cache">>>>,
   table_id |-> <<<<"1000">>>>, rule_mark |-> <<<<"1/2">>>>, rule_action |-> <<<<"nop">>>>, iproute_get |-> <<<<"to", "v4">>>>, addr_broadcast |-> <<<<"v4">>>>,
   ipaddr_modify |-> <<<<"dev", "eth0">>, <<"valid_lft", "2">>, <<"preferred_lft", "1">>>>,
   ipaddr_delete |-> <<<<"dev", "eth0">>>>,
   ipaddrlabel_modify |-> <<<<"prefix", "v6">>, <<"label", "1">>>>, multiaddr_modify |-> <<<<"dev", "w1">>>>,
   ipneigh_modify |-> <<<<"dev", "eth0">>, <<"to", "v4">>>>, ipntable_modify |-> <<<<"name", "w1">>, <<"thresh1", "1">>>>,
   tcpm_del |-> <<<<"address", "v4">>>>, fdb_modify |-> <<<<"dev", "eth0">>, <<"to", "1">>>>,
   mdb_add |-> <<<<"dev", "eth0">>, <<"grp", "w4">>, <<"port", "eth0">>>>,
   mdb_delete |-> <<<<"dev", "eth0">>, <<"grp", "w4">>, <<"port", "eth0">>>>, ctrl_list |-> <<<<"id", "1">>>>,
   xfrm_mode_parse |-> <<<<"tunnel">>>>, xfrmproto |-> <<<<"esp">>>>, id |-> <<<<"proto", "esp">>>>,
   id_kept |-> <<<<"proto", "esp">>>>, id_loose |-> <<<<"spi", "1">>>>, selector |-> <<<<"src", "v4">>>>,
   sel |-> <<<<"dst", "v4">>>>, xfrm_lifetime_cfg_parse |-> <<<<"byte-soft", "1">>>>,
   xfrm_policy_flag_parse |-> <<<<"localok">>>>, xfrm_state_flag_parse |-> <<<<"noecn">>>>,
   xfrm_tmpl_parse |-> <<<<"src", "v4">>, <<"proto", "esp">>, <<"mode", "tunnel">>>>,
   xfrm_policy_modify |-> Policy, xfrm_policy_get_or_delete |-> Policy \o <<<<"index", "1">>>>,
   xfrm_state_modify |-> Sa, xfrm_state_allocspi |-> <<<<"proto", "esp">>>>,
   ip_family |-> <<<<"inet6">>>>, bridge_family |-> <<<<"inet6">>>>, rtmon_family |-> <<<<"inet6">>>>, rtmon_main |-> <<<<"file", "w1">>>>, ip_main |-> <<<<"link">>>>,
   ip_command |-> <<<<"route">>>>, ip_do_cmd |-> <<<<"tunnel">>>>, do_ipl2tp |-> <<<<"show", "tunnel">>>>,
   bridge_main |-> <<<<"fdb">>>>, bridge_do_cmd |-> <<<<"fdb">>>>, genl_main |-> <<<<"ctrl", "show">>>>,
   genl_kind |-> <<<<"ctrl", "show">>>>, parse_ctrl |-> <<<<"show">>>>, do_xfrm |-> <<<<"state">>>>,
   netns_name |-> <<<<"w1">>>>, netns_first |-> <<<<"w1">>>>, netns_exec |-> <<<<"w1", "w1">>>>]
  @@ [p \in {"ingress-qos-map", "egress-qos-map"} |-> <<<<"1:1">>>>]
  @@ [p \in DOMAIN AllParsers |-> <<>>]

\* Some share their options with another one and check less.
CommandNames ==
  (DOMAIN LinkKinds \cup DOMAIN LinkCommands \cup DOMAIN RouteCommands \cup DOMAIN XfrmCommands
     \cup DOMAIN Dispatchers)
  \ {"gre", "vti", "ipip", "sit", "ip6tnl_change", "iptunnel_do_add", "iptunnel_do_del", "ip6tunnel_do_add",
     "ipl2tp_do_del", "ipl2tp_do_show", "ipaddr_list_link", "iproute_list", "ipaddr_list", "ipaddr_delete"}
=============================================================================
