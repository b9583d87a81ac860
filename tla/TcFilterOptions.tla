--------------------------- MODULE TcFilterOptions ---------------------------
(***************************************************************************)
(* The options of tc's filters (iproute2/tc/f_*.c), and of the commands    *)
(* that create qdiscs, classes and filters (tc_qdisc.c, tc_class.c,        *)
(* tc_filter.c).  An expression of extended matches is read by a generated *)
(* parser and is one word here; what stands between the parentheses of a   *)
(* match is read by its module (em_*.c).  A handle or a class is a number. *)
(***************************************************************************)
EXTENDS OptionTable

ClassId == Val({M("classid"), X("flowid")}, "classid")
Action  == CallOn({M("action")}, "parse_action")
Police  == CallOn({M("police")}, "act_parse_police")
Ematch  == Conv({M("match")}, "ematch", AnyWord)
Indev   == Conv({X("indev")}, "indev", AnyWord)

basic_parse_opt  == Parser(<<Ematch, ClassId, Action, Police, XHelp>>)
cgroup_parse_opt == Parser(<<Ematch, Action, Police, XHelp>>)
fw_parse_opt     == Parser(<<Val({M("classid"), M("flowid")}, "classid"), Police, Action, Indev, XHelp>>)

\* route: from and fromif share bits of the handle, and so do to and order.
route_parse_opt ==
  Parser(<<Val({M("to")}, "to"), With({M("from")}, <<Arg({"from", "handle_hi"}, Num)>>),
           With({M("fromif")}, <<Arg({"iif", "handle_hi"}, Dev)>>), ClassId, Police,
           Val({M("order")}, "order"), XHelp>>)

tcindex_parse_opt ==
  Parser(<<Conv({X("hash")}, "hash", Pos), Val({X("mask")}, "mask"), Val({X("shift")}, "shift"),
           Flag({X("fall_through")}, "fall_through"), Set({X("pass_on")}, "fall_through", "0"),
           Val({X("classid")}, "classid"), CallOn({X("police")}, "act_parse_police")>>)

(***************************************************************************)
(* flow: more than one key (the value 2) needs the hashing mode.  An       *)
(* address is only taken as an addend once the keys were given.  The bit   *)
(* operations are composed in their order.                                 *)
(***************************************************************************)
flow_parse_keys == Conv({M("keys")}, "keys", Pos)
get_addend(conv) == Conv({M("addend")}, "addend", conv)
transfer_bitop(w) == With({M(w)}, <<Key({"bitops"})>>)

flow_parse_opt ==
  [Checked(<<Set({M("map")}, "mode", "1"), Set({M("hash")}, "mode", "2"), flow_parse_keys,
             transfer_bitop("and"), transfer_bitop("or"), transfer_bitop("xor"), Val({M("rshift")}, "rshift"),
             Only(get_addend(Num @@ Addr), {"keys"}), get_addend(Num)>>
             \o MVals(<<"divisor", "baseclass", "perturb">>) \o <<Police, Action, Ematch, MHelp>>,
           {NotAbove("keys", "mode")})
     EXCEPT !.init = "mode" :> "1"]

(***************************************************************************)
(* rsvp.  dir is dpi or spi; the number after u32, u16 or u8 is compared   *)
(* with what follows it, so something must.                                *)
(***************************************************************************)
RsvpKey(dir) ==
  Sequential(<<Step([Else({}, <<Arg({dir \o "_key"}, Num)>>) EXCEPT !.set = (dir \o "_mask") :> "1"]),
               Step(Val({X("mask")}, dir \o "_mask")), Val({X("at")}, dir \o "_offset")>>)

get_addr_and_pi(dir, family) ==
  LET Spi(kw)   == [Unless(Val(kw, dir \o "_key"), {dir \o "_mask"}) EXCEPT !.set = (dir \o "_mask") :> "1"]
      Esp(kw, proto) == [Spi(kw) EXCEPT !.set = ("protocol" :> proto) @@ @]
      Rest == <<Only(Spi({X("spi/ah"), X("gpi/ah")}), {"protocol"}), Esp({X("spi/ah"), X("gpi/ah")}, "ah"),
                Only(Spi({X("spi/esp"), X("gpi/esp")}), {"protocol"}), Esp({X("spi/esp"), X("gpi/esp")}, "esp")>>
              \o (IF family = "inet6" THEN <<Spi({X("flowlabel")})>> ELSE <<Reject({X("flowlabel")})>>)
              \o <<Unless(CallOn({X("u32"), X("u16"), X("u8")}, dir \o "_key"), {dir \o "_mask"})>>
      Address == {w \in {"v4", "w4", "v6"} : Family(w) = family}
  IN  Sequential(<<Else({}, <<Arg({dir \o "_addr"}, OneOf(Address))>>)>>
                   \o [i \in DOMAIN Rest |-> IF Rest[i].then = "loop" THEN Stop(Rest[i]) ELSE Rest[i]])

rsvp_parse_opt ==
  Parser(<<CallOn({M("session")}, "rsvp_dst"), CallOn({M("sender"), M("flowspec")}, "rsvp_src"),
           Val({W("ipproto")}, "protocol"), ClassId, Val({X("tunnelid")}, "tunnelid"),
           With({X("tunnel")}, <<Arg({"classid"}, Num), Word("skip"), Arg({"tunnelhdr"}, Num)>>),
           Police, XHelp>>)

(***************************************************************************)
(* u32: every match appends a key; f is where: the selector of the filter, *)
(* or that of a sample, of which one key becomes a bucket number.          *)
(***************************************************************************)
Nexthdr(f) == [Key(f) EXCEPT !.conv = [w \in {"0", "1", "2"} |-> "n" \o w]]

parse_at(f) == Must(<<With({M("nexthdr+")}, <<Nexthdr({f})>>), Else({}, <<Key({f})>>)>>)

At(f) == CallOn({X("at")}, f \o "_at")

\* parse_u32, parse_u16 and parse_u8
parse_u32(f) == Sequential(<<Else({}, <<Key({f}), Key({f})>>), At(f)>>)

parse_ip_addr(f)   == Sequential(<<Else({}, <<[Key({f}) EXCEPT !.conv = OneOf({"v4", "w4"})]>>), At(f)>>)
parse_ip6_addr(f)  == Sequential(<<Else({}, <<[Key({f}) EXCEPT !.conv = OneOf({"v6"})]>>), At(f)>>)
parse_ip6_class(f) == Must(<<Else({}, <<Key({f}), Key({f})>>)>>)
parse_ether_addr(f) == parse_u32(f)

Fields(f, ws, p) == [i \in DOMAIN ws |-> [CallOn({X(ws[i])}, f \o p) EXCEPT !.ret = TRUE]]

parse_ip(f) ==
  LET Frag(ws) == [i \in DOMAIN ws |-> Step(Stop(Row({X(ws[i])})))]     \* a word must follow
      U8(kw)   == [CallOn(kw, f \o "_u32") EXCEPT !.ret = TRUE]
  IN  Parser(Fields(f, <<"src", "dst">>, "_ip_addr") \o <<U8({X("tos"), M("dsfield")})>>
               \o Fields(f, <<"ihl", "protocol">>, "_u32") \o <<U8({M("precedence")})>>
               \o Frag(<<"nofrag", "firstfrag", "df", "mf">>)
               \o Fields(f, <<"dport", "sport", "icmp_type", "icmp_code">>, "_u32"))

parse_ip6(f) ==
  Parser(Fields(f, <<"src", "dst">>, "_ip6_addr") \o Fields(f, <<"priority">>, "_ip6_class")
           \o Fields(f, <<"protocol", "flowlabel", "dport", "sport", "icmp_type", "icmp_code">>, "_u32"))

parse_ether(f) == Parser(Fields(f, <<"src", "dst">>, "_ether_addr"))
parse_udp(f)   == Parser(Fields(f, <<"src", "dst">>, "_u32"))     \* and parse_tcp
parse_icmp(f)  == Parser(Fields(f, <<"type", "code">>, "_u32"))

parse_mark ==
  Must(<<Check(Step(Else({}, <<Arg({"mark"}, Num), Arg({"mark_mask"}, Num)>>)), NotAbove("mark", "mark_mask"))>>)

parse_selector(f) ==
  LET To(w, p) == [CallOn({M(w)}, p) EXCEPT !.ret = TRUE]
  IN  Parser(<<To("u32", f \o "_u32"), To("u16", f \o "_u32"), To("u8", f \o "_u32"), To("ip", f \o "_ip"),
               To("ip6", f \o "_ip6"), To("udp", f \o "_udp"), To("tcp", f \o "_udp"), To("icmp", f \o "_icmp"),
               To("mark", "parse_mark"), To("ether", f \o "_ether")>>)

parse_offset ==
  Part(MVals(<<"plus">>) \o <<Conv({M("at")}, "offoff", OneOf({"0", "2"}))>> \o MVals(<<"mask", "shift">>)
         \o MFlags(<<"eat">>))

parse_hashkey == Part(<<Val({M("mask")}, "hmask"), Conv({M("at")}, "hoff", OneOf({"0", "4"}))>>)

\* The bucket: after the divisor a further word must be there.
u32_sample == [Sequential(<<Phase("sample_selector"), Step(Conv({X("divisor")}, "sample_divisor", Pos))>>)
                 EXCEPT !.checks = Required({"sample"})]

\* The offset and the hash key are parts of the selector, which is sent if something is matched.
U32Rows ==
  <<[CallOn({M("match")}, "match_selector") EXCEPT !.raise = {"sel_ok"}],
    CallOn({M("offset")}, "parse_offset"), CallOn({M("hashkey")}, "parse_hashkey"), ClassId,
    Conv({M("divisor")}, "divisor", Pos), Val({M("order")}, "order"), Val({X("link")}, "link"),
    Val({X("ht")}, "ht"), CallOn({X("sample")}, "u32_sample"), Indev, Action, Police, XHelp>>

u32_parse_opt ==
  [Parser(U32Rows) EXCEPT !.drops = {SentIf({"plus", "offoff", "mask", "shift", "eat", "hmask", "hoff"}, {"sel_ok"})}]

(***************************************************************************)
(* What stands in front of the options of a qdisc, a class or a filter.    *)
(* The words after its kind are read by the parser of the kind.            *)
(***************************************************************************)
parse_estimator ==
  [With({M("estimator")}, <<Arg({"est_time"}, Num), Arg({"est_log"}, Pos)>>) EXCEPT !.once = {"est_log"}]

parse_size_table ==
  [Part([i \in 1 .. 4 |-> Once(MVals(<<"mtu", "mpu", "overhead", "tsize">>)[i])]
          \o <<Once(Conv({M("linklayer")}, "linklayer", OneOf({"ethernet", "atm"})))>>)
     EXCEPT !.checks = {IfAll({}, {"mtu", "mpu", "overhead", "tsize", "linklayer"})}]

\* A kind that is not known is left to the kernel, if it has no options.
KindRows(kinds) ==
  [i \in DOMAIN kinds |-> [Call({X(kinds[i][1])}, kinds[i][2]) EXCEPT !.raise = {"kind"}]]
    \o <<Stop(Else({}, <<Arg({"kind"}, AnyWord)>>))>>

Place(w, v)    == [Row({X(w)}) EXCEPT !.set = "parent" :> v, !.once = {"parent"}]
Parent         == Once(Conv({X("parent")}, "parent", Pos))
OnceAny(kw, f) == Once(Conv(kw, f, AnyWord))

\* Nothing is said of the device unless one is named; one that does not exist is an error.
TcCommand(rows)  == [Parser(rows) EXCEPT !.fails = TRUE]

tc_qdisc_modify(kinds) ==
  TcCommand(<<OnceAny({X("dev")}, "dev"), Once(Val({X("handle")}, "handle")), Place("root", "root"),
            [Place("ingress", "ingress") EXCEPT !.set = ("handle" :> "ffff") @@ @,
                                                !.then = "ingress_parse_opt"],
            Parent, parse_estimator, CallOn({M("stab")}, "parse_size_table"), MHelp>> \o KindRows(kinds))

tc_class_modify(kinds) ==
  TcCommand(<<OnceAny({X("dev")}, "dev"), Once(Val({X("classid")}, "classid")), Reject({X("handle")}),
            Place("root", "root"), Parent, parse_estimator, MHelp>> \o KindRows(kinds))

tc_filter_modify(kinds) ==
  [TcCommand(<<OnceAny({X("dev")}, "dev"), Place("root", "root"), Parent, OnceAny({X("handle")}, "handle"),
             Once(Val({M("preference"), M("priority")}, "prio")),
             [Val({M("protocol")}, "protocol") EXCEPT !.once = {"protocol_set"}, !.raise = {"protocol_set"}],
             parse_estimator, MHelp>> \o KindRows(kinds))
     EXCEPT !.checks = {IfAll({"handle"}, {"kind"})}]

(***************************************************************************)
(* Extended matches: the alignment or the pattern comes first.  A number   *)
(* that is 0 counts as given.                                              *)
(***************************************************************************)
em_align == Must(XFlags(<<"u8", "u16", "u32">>))
em_layer ==
  Conv({X("layer")}, "layer", Num @@ ("link" :> "0") @@ ("network" :> "1") @@ ("transport" :> "2"))
em_offset == [Val({X("at")}, "offset") EXCEPT !.raise = {"offset_present"}]

cmp_loop ==
  LET Operand(w) == [Val({X(w)}, "value") EXCEPT !.set = "opnd" :> w, !.raise = {"value_present"}]
  IN  [Checked(<<em_offset, em_layer, Val({X("mask")}, "mask"), Flag({X("trans")}, "trans"), Operand("eq"),
                 Operand("gt"), Operand("lt")>>,
               Required({"offset_present", "value_present"}))
         EXCEPT !.init = "layer" :> "1"]

cmp_parse_eopt == [Sequential(<<Phase("em_align"), Phase("cmp_loop")>>) EXCEPT !.checks = cmp_loop.checks]

nbyte_loop ==
  [Checked(<<em_offset, em_layer>>, Required({"offset_present"})) EXCEPT !.init = "layer" :> "1"]

nbyte_parse_eopt ==
  [Sequential(<<Else({}, <<Arg({"needle"}, AnyWord)>>), Phase("nbyte_loop")>>)
     EXCEPT !.checks = nbyte_loop.checks]

\* The offset may follow nexthdr+ in the same word, or, without effect on the mask, as the next
\* word.  In the first case the copy that is converted is not terminated: the number is any.
nexthdr_offset == [Part(<<>>) EXCEPT !.fails = TRUE]

u32_offset ==
  Must(<<[Call({X("nexthdr+1")}, "nexthdr_offset") EXCEPT !.set = [f \in {"any_offset", "offmask"} |-> "1"]],
         Val({X("nexthdr+")}, "offset"), Else({}, <<Arg({"offset"}, Num)>>)>>)

\* Words need an offset that is a multiple of 4; the other two are shifted into place.
u32_parse_eopt ==
  [Sequential(<<Phase("em_align"), Else({}, <<Arg({"key"}, Num), Arg({"mask"}, Num)>>),
                [CallOn({X("at")}, "u32_offset") EXCEPT !.raise = {"offset_present"}]>>)
     EXCEPT !.checks = Required({"offset_present"}) \cup {IfAll({"u32", "offset"}, {})}]

(***************************************************************************)
(* The lists.                                                              *)
(***************************************************************************)
Device == With({X("dev")}, <<Arg({"dev", "filter_ifindex"}, AnyWord)>>)

tc_qdisc_list == TcCommand(<<Device, Unless(Flag({X("ingress")}, "parent"), {"parent"}), MHelp>>)

tc_class_list ==
  TcCommand(<<Unless(Device, {"dev"}), Once(Conv({X("qdisc")}, "filter_qdisc", Pos)),
           Once(Conv({X("classid")}, "filter_classid", Pos)), Place("root", "root"), Parent, MHelp>>)

tc_filter_list ==
  LET Also(kw, f) == Unless(With(kw, <<Arg({f, "filter_" \o f}, Num)>>), {f})
  IN  TcCommand(<<Unless(Device, {"dev"}),
               Unless([Row({X("root")}) EXCEPT !.set = [f \in {"parent", "filter_parent"} |-> "root"]],
                      {"parent"}),
               Also({X("parent")}, "parent"), OnceAny({X("handle")}, "handle"),
               Also({M("preference"), M("priority")}, "prio"), Also({M("protocol")}, "protocol"), MHelp>>)

\* The program ends with the monitor.
do_tcmonitor == Parser(<<Conv({M("file")}, "file", AnyWord), MHelp>>)

=============================================================================
