--------------------------- MODULE TcCommandLines ----------------------------
(***************************************************************************)
(* The commands of tc, with the words that make up an acceptable line.     *)
(***************************************************************************)
EXTENDS TcQdiscOptions, TcActionOptions, TcFilterOptions, ToolCommands

HfscSub(w, C) ==
  (("hfsc_get_sc_" \o w) :> hfsc_get_sc(C, "hfsc_get_sc1_" \o w))
  @@ (("hfsc_get_sc1_" \o w) :> hfsc_get_sc1(C, "hfsc_get_sc2_" \o w))
  @@ (("hfsc_get_sc2_" \o w) :> hfsc_get_sc2(C))

HfscSubs ==
  HfscSub("rt", {"rsc"}) @@ HfscSub("ls", {"fsc"}) @@ HfscSub("sc", {"rsc", "fsc"}) @@ HfscSub("ul", {"usc"})

QdiscParsers ==
  [fifo |-> fifo_parse_opt, codel |-> codel_parse_opt, fq_codel |-> fq_codel_parse_opt,
   choke |-> choke_parse_opt, red |-> red_parse_opt, sfb |-> sfb_parse_opt, sfq |-> sfq_parse_opt,
   gred |-> gred_parse_opt, prio |-> prio_parse_opt, rr |-> rr_parse_opt,
   mqprio |-> mqprio_parse_opt, multiq |-> multiq_parse_opt, ingress_parse_opt |-> ingress_parse_opt,
   dsmark |-> dsmark_parse_opt, tbf |-> tbf_parse_opt, htb |-> htb_parse_opt, hfsc |-> hfsc_parse_opt,
   cbq |-> cbq_parse_opt, netem |-> netem_parse_opt]

ClassParsers ==
  [drr_class |-> drr_parse_class_opt, qfq_class |-> qfq_parse_class_opt,
   dsmark_class |-> dsmark_parse_class_opt, htb_class |-> htb_parse_class_opt,
   hfsc_class |-> hfsc_parse_class_opt, cbq_class |-> cbq_parse_class_opt(FALSE),
   cbq_class_add |-> cbq_parse_class_opt(TRUE), atm_class |-> atm_parse_class_opt]

FilterParsers ==
  [basic |-> basic_parse_opt, cgroup |-> cgroup_parse_opt, fw |-> fw_parse_opt, route |-> route_parse_opt,
   tcindex |-> tcindex_parse_opt, flow |-> flow_parse_opt, rsvp |-> rsvp_parse_opt, u32 |-> u32_parse_opt,
   cmp_loop |-> cmp_loop, nbyte_loop |-> nbyte_loop, cmp_parse_eopt |-> cmp_parse_eopt,
   nbyte_parse_eopt |-> nbyte_parse_eopt, u32_parse_eopt |-> u32_parse_eopt]

ActionParsers ==
  [act_parse_police |-> act_parse_police, parse_gact |-> parse_gact, parse_mirred |-> parse_mirred,
   parse_nat |-> parse_nat, parse_skbedit |-> parse_skbedit, parse_csum |-> parse_csum,
   parse_pedit |-> parse_pedit, parse_ipt |-> parse_ipt, ipt_parse_ipt |-> ipt_parse_ipt,
   xt_old_parse_ipt |-> xt_old_parse_ipt, parse_action |-> parse_action]

Same(ws) == [i \in DOMAIN ws |-> <<ws[i], ws[i]>>]

QdiscKinds ==
  <<<<"pfifo", "fifo">>, <<"bfifo", "fifo">>>>
    \o Same(<<"codel", "fq_codel", "choke", "red", "sfb", "sfq", "gred", "prio", "rr", "mqprio", "multiq",
              "dsmark", "tbf", "htb", "hfsc", "cbq", "netem">>)

ClassKinds == [i \in 1 .. 7 |-> LET w == <<"drr", "qfq", "dsmark", "htb", "hfsc", "cbq", "atm">>[i]
                                IN  <<w, w \o "_class">>]

TcCommands ==
  [tc_qdisc_modify |-> tc_qdisc_modify(QdiscKinds), tc_class_modify |-> tc_class_modify(ClassKinds),
   tc_filter_modify |-> tc_filter_modify(Same(<<"basic", "cgroup", "fw", "route", "tcindex", "flow",
                                                "rsvp", "u32">>)),
   tc_qdisc_list |-> tc_qdisc_list, tc_class_list |-> tc_class_list, tc_filter_list |-> tc_filter_list,
   do_tcmonitor |-> do_tcmonitor, do_action |-> do_action]

Dispatchers ==
  [tc_main |-> tc_main, tc_do_cmd |-> tc_do_cmd, do_qdisc |-> do_qdisc, do_class |-> do_class,
   do_filter |-> do_filter]

U32Sub(f) ==
  ((f \o "_selector") :> parse_selector(f)) @@ ((f \o "_at") :> parse_at(f)) @@ ((f \o "_u32") :> parse_u32(f))
  @@ ((f \o "_ip_addr") :> parse_ip_addr(f)) @@ ((f \o "_ip6_addr") :> parse_ip6_addr(f))
  @@ ((f \o "_ip6_class") :> parse_ip6_class(f)) @@ ((f \o "_ether_addr") :> parse_ether_addr(f))
  @@ ((f \o "_ip") :> parse_ip(f)) @@ ((f \o "_ip6") :> parse_ip6(f)) @@ ((f \o "_ether") :> parse_ether(f))
  @@ ((f \o "_udp") :> parse_udp(f)) @@ ((f \o "_icmp") :> parse_icmp(f))

SubParsers ==
  [init_gred |-> init_gred, NetemLoss |-> NetemLoss,
   rsvp_dst |-> get_addr_and_pi("dpi", "inet"), rsvp_src |-> get_addr_and_pi("spi", "inet"),
   dpi_key |-> RsvpKey("dpi"), spi_key |-> RsvpKey("spi"), parse_mark |-> parse_mark,
   em_align |-> em_align, u32_offset |-> u32_offset, nexthdr_offset |-> nexthdr_offset,
   parse_offset |-> parse_offset, parse_hashkey |-> parse_hashkey, u32_sample |-> u32_sample,
   parse_size_table |-> parse_size_table,
   police_action |-> police_action, act_control |-> act_control, act_control_more |-> act_control_more,
   get_act |-> get_act, gact_random |-> gact_random, egress_loop |-> egress_loop,
   parse_egress |-> parse_egress, mirred_direction |-> mirred_direction, parse_nat_args |-> parse_nat_args,
   nat_loop |-> nat_loop, skbedit_loop |-> skbedit_loop, parse_csum_args |-> parse_csum_args,
   csum_loop |-> csum_loop, pedit_value |-> pedit_value, parse_cmd |-> parse_cmd, pedit_at |-> pedit_at,
   pedit_offset |-> pedit_offset, p_ip_parse_ip |-> p_ip_parse_ip, parse_munge |-> parse_munge,
   pedit_loop |-> pedit_loop, ipt_getopt |-> ipt_getopt, tc_action_gd |-> tc_action_gd,
   tc_action_modify |-> tc_action_modify, tc_act_list_or_flush |-> tc_act_list_or_flush,
   ignore_rest |-> ignore_rest, Words |-> Words]
  @@ HfscSubs @@ U32Sub("match") @@ U32Sub("sample")

AllParsers ==
  QdiscParsers @@ ClassParsers @@ FilterParsers @@ ActionParsers @@ TcCommands @@ Dispatchers @@ SubParsers

-----------------------------------------------------------------------------
Red      == <<<<"limit", "2">>, <<"min", "1">>, <<"max", "2">>, <<"avpkt", "1">>>>
CbqClass == <<<<"rate", "1">>, <<"bandwidth", "1">>, <<"avpkt", "1">>, <<"allot", "1">>>>

BaseLines ==
  [red |-> Red, gred |-> Red, choke |-> <<<<"limit", "2">>, <<"bandwidth", "1">>>>,
   sfq |-> <<<<"redflowlimit", "2">>>>, init_gred |-> <<<<"DPs", "2">>, <<"default", "1">>>>,
   dsmark |-> <<<<"indices", "2">>>>,
   tbf |-> <<<<"rate", "1">>, <<"burst", "1">>, <<"limit", "1">>, <<"mtu", "1">>>>,
   htb_class |-> <<<<"rate", "1">>>>, hfsc_class |-> <<<<"ls", "m2", "1">>>>,
   cbq |-> <<<<"rate", "1">>, <<"avpkt", "1">>>>,
   cbq_class |-> CbqClass, cbq_class_add |-> CbqClass,
   netem |-> <<<<"latency", "1", "1">>, <<"reorder", "1">>, <<"loss", "1">>>>,
   NetemLoss |-> <<<<"1">>>>,
   flow |-> <<<<"hash">>>>, rsvp_dst |-> <<<<"v4">>>>, rsvp_src |-> <<<<"v4">>>>,
   act_parse_police |-> <<<<"rate", "1">>, <<"burst", "1">>, <<"mtu", "1">>>>,
   parse_action |-> <<<<"drop">>>>, tc_action_modify |-> <<<<"drop">>>>,
   parse_skbedit |-> <<<<"skbedit">>, <<"mark", "1">>>>, parse_munge |-> <<<<"offset", "1", "u8", "clear">>>>,
   parse_nat_args |-> <<<<"egress", "v4", "v4">>>>, parse_csum_args |-> <<<<"tcp">>>>,
   parse_cmd |-> <<<<"clear">>>>, parse_size_table |-> <<<<"mtu", "1">>>>,
   match_selector |-> <<<<"u32", "1", "1">>>>, u32_sample |-> <<<<"u32", "1", "1">>>>,
   parse_offset |-> <<<<"plus", "1">>>>, parse_hashkey |-> <<<<"mask", "1">>>>,
   tc_act_list_or_flush |-> <<<<"gact">>>>, tc_filter_modify |-> <<<<"fw">>>>,
   cmp_loop |-> <<<<"at", "1">>, <<"eq", "1">>>>, nbyte_loop |-> <<<<"at", "1">>>>, em_align |-> <<<<"u8">>>>,
   u32_offset |-> <<<<"nexthdr+", "1">>>>, u32_parse_eopt |-> <<<<"u8">>, <<"1", "1">>, <<"at", "1">>>>,
   tc_main |-> <<<<"qdisc">>>>, tc_do_cmd |-> <<<<"qdisc">>>>]
  @@ [p \in {"hfsc_get_sc_rt", "hfsc_get_sc_ls", "hfsc_get_sc_sc", "hfsc_get_sc_ul"} |-> <<<<"m2", "1">>>>]
  @@ [p \in DOMAIN AllParsers |-> <<>>]

CommandNames ==
  DOMAIN QdiscParsers \cup DOMAIN ClassParsers \cup DOMAIN FilterParsers \cup DOMAIN ActionParsers
    \cup DOMAIN TcCommands \cup DOMAIN Dispatchers
=============================================================================
