--------------------------- MODULE TcActionOptions ---------------------------
(***************************************************************************)
(* The options of tc's actions (iproute2/tc/m_*.c, p_ip.c) and of the      *)
(* commands on them (m_action.c).  A word that is an argument, not a       *)
(* keyword, is written in full here even where the code would accept the   *)
(* beginning of it.                                                        *)
(***************************************************************************)
EXTENDS OptionTable

(***************************************************************************)
(* police, as an action and inside a filter.  One field holds what is done *)
(* with a packet over the rate, so the last of these words counts.         *)
(***************************************************************************)
Acts == {"reclassify", "drop", "continue", "pass", "pipe"}

Act(kw, v) == Set(kw, "action", v)
Exceed(kw, v) == Set(kw, "exceed", v)

PoliceRows ==
  MVals(<<"index">>)
    \o <<Once(Val({M("burst"), X("buffer"), X("maxburst")}, "buffer")),
         Once(Val({X("mtu"), X("minburst")}, "mtu"))>>
    \o XOnce(<<"mpu", "rate", "avrate">>) \o <<Once(Val({M("peakrate")}, "peakrate")),
         Exceed({M("reclassify")}, "reclassify"), Exceed({M("drop"), M("shot")}, "drop"),
         Exceed({M("continue")}, "continue"), Exceed({M("pass")}, "pass"), Exceed({M("pipe")}, "pipe"),
         Conv({X("action"), X("conform-exceed")}, "exceed", OneOf(Acts))>>
    \o MVals(<<"overhead">>)
    \o <<Conv({M("linklayer")}, "linklayer", OneOf({"ethernet", "atm"})), XHelp>>

act_parse_police ==
  [Part(PoliceRows) EXCEPT
     !.some = TRUE, !.fails = TRUE,
     !.checks = {IfAll({"rate"}, {"buffer"}), IfAll({"peakrate"}, {"rate"}), IfAll({"peakrate"}, {"mtu"})}]

\* As an action of its own it first steps over its name.
SkipWord == Step(Else({}, <<Arg({}, AnyWord)>>))
police_action == Sequential(<<SkipWord, Phase("act_parse_police")>>)

(***************************************************************************)
(* The word after the options of most actions; in mirred, skbedit and      *)
(* pedit yet another word must follow it.                                  *)
(***************************************************************************)
ControlWords ==
  <<Act({M("reclassify")}, "reclassify"), Act({M("pipe")}, "pipe"), Act({M("drop"), M("shot")}, "drop"),
    Act({M("continue")}, "continue"), Act({M("pass")}, "pass")>>

act_control      == Either(ControlWords)
act_control_more == Either([i \in DOMAIN ControlWords |-> Step(ControlWords[i])])
Index            == Val({M("index")}, "index")

\* gact may be named, or left out in front of what it does.
get_act ==
  Must(<<Row({M("gact")}), Act({M("reclassify")}, "reclassify"), Act({M("drop"), M("shot")}, "drop"),
         Act({M("continue")}, "continue"), Act({M("pipe")}, "pipe"), Act({M("pass"), M("ok")}, "pass")>>)

gact_random ==
  LET Random(w) == [With({M(w)}, <<Arg({"paction"}, OneOf(Acts)), Arg({"pval"}, Num)>>)
                      EXCEPT !.set = "ptype" :> w]
  IN  Must(<<Random("netrand"), Random("determ")>>)

parse_gact == Sequential(<<Phase("get_act"), CallOn({M("random")}, "gact_random"), MHelp, Index, MHelp>>)

(***************************************************************************)
(* mirred: the loop ends with the device; a word it does not know is       *)
(* passed over.  "mirred index 1" names an action that exists.             *)
(***************************************************************************)
egress_loop ==
  [Parser(<<Yield({M("action")}), Step(Flag({M("egress")}, "ok")),
            Only(Step([Index EXCEPT !.raise = {"iok"}]), {"ok"}),
            Stop([Index EXCEPT !.raise = {"iok"}]),
            Step(Unless(Flag({M("mirror")}, "mirror"), {"redirect"})),
            Step(Unless(Flag({M("redirect")}, "redirect"), {"mirror"})),
            Only(Stop(Conv({M("dev")}, "dev", AnyWord)), {"mirror", "redirect"})>>)
     EXCEPT !.other = "pass"]

parse_egress ==
  [Sequential(<<Phase("egress_loop"), Only(Phase("act_control_more"), {"mirror"}), Unless(Index, {"iok"})>>)
     EXCEPT !.fails = TRUE]

mirred_direction == Must(<<Yield({M("egress"), M("index")}), Reject({M("ingress")}), MHelp>>)

parse_mirred == Sequential(<<Step(Row({M("mirred")})), Phase("mirred_direction"), Phase("parse_egress")>>)

\* nat: the direction is a bit that only egress sets.
parse_nat_args ==
  LET To(kw) == With(kw, <<Arg({"old_addr"}, OneOf({"v4", "w4"})), Arg({"new_addr"}, OneOf({"v4", "w4"}))>>)
  IN  Must(<<[To({M("egress")}) EXCEPT !.set = "egress" :> "1"], To({M("ingress")})>>)

nat_loop  == [Part(<<CallOn({M("nat")}, "parse_nat_args"), MHelp>>) EXCEPT !.some = TRUE]
parse_nat == Sequential(<<Phase("nat_loop"), Phase("act_control"), Index>>)

skbedit_loop == Part(Raise("ok", MVals(<<"queue_mapping", "priority", "mark">>)) \o <<MHelp>>)

parse_skbedit ==
  [Sequential(<<Step(Row({M("skbedit")})), Phase("skbedit_loop"), Phase("act_control_more"),
                [Index EXCEPT !.raise = {"ok"}]>>)
     EXCEPT !.checks = Required({"ok"})]

parse_csum_args ==
  Part(<<Flag({M("iph"), M("ip4h"), M("ipv4h")}, "iph")>>
         \o MFlags(<<"icmp", "igmp", "tcp", "udp", "udplite">>)
         \o <<Row({M("and"), M("or"), M("+")})>>)

csum_loop ==
  [Part(<<CallOn({M("csum")}, "parse_csum_args"), MHelp>>) EXCEPT
     !.some = TRUE, !.checks = {IfAll({}, {"iph", "icmp", "igmp", "tcp", "udp", "udplite"})}]

parse_csum == Sequential(<<Phase("csum_loop"), Phase("act_control"), Index>>)

(***************************************************************************)
(* pedit: each munge appends a key.  The kind of a layered munge is looked *)
(* up but not stepped over: its parser sees its own name first.            *)
(***************************************************************************)
pedit_value == Must(<<Row({M("invert")}), With({M("set")}, <<Key({"keys"})>>), Row({M("preserve")}), Row({M("clear")})>>)

parse_cmd == [Sequential(<<Phase("pedit_value"), With({M("retain")}, <<Key({"keys"})>>)>>) EXCEPT !.some = TRUE]

pedit_at == Either(<<Step(With({M("at")}, <<Key({"keys"}), Key({"keys"}), Key({"keys"})>>))>>)

pedit_offset ==
  Sequential(<<Step(Else({}, <<Key({"keys"}), Arg({}, OneOf({"u32", "u16", "u8"}))>>)),
               Phase("pedit_at"), Phase("parse_cmd")>>)

p_ip_parse_ip ==
  LET Field(kw) == CallOn(kw, "parse_cmd")
      Name(ws)  == [i \in DOMAIN ws |-> Field({X(ws[i])})]
  IN  Parser(Name(<<"src", "dst">>) \o <<Field({X("tos"), M("dsfield")})>> \o Name(<<"ihl", "protocol">>)
               \o <<Field({M("precedence")})>>
               \o Name(<<"nofrag", "firstfrag", "ce", "df", "mf", "dport", "sport", "icmp_type", "icmp_code">>))

parse_munge ==
  Must(<<[CallOn({M("offset")}, "pedit_offset") EXCEPT !.ret = TRUE],
         [Kind("ip", "p_ip_parse_ip") EXCEPT !.ret = TRUE]>>)

pedit_loop ==
  [Part(<<Step(Flag({M("pedit")}, "pedit")), MHelp, Needs(CallOn({M("munge")}, "parse_munge"), "pedit")>>)
     EXCEPT !.some = TRUE]

parse_pedit == Sequential(<<Phase("pedit_loop"), Phase("act_control_more"), Index>>)

\* xt and ipt: getopt reads the target; its own options are iptables'.
ipt_getopt == Part(<<Conv({X("-j")}, "target", AnyWord)>>)

parse_ipt ==
  [Sequential(<<SkipWord, Phase("ipt_getopt"), [Index EXCEPT !.raise = {"iok"}]>>)
     EXCEPT !.checks = {IfAll({}, {"target", "iok"})}]

\* The two older ones clear the target at the end whether or not there is one:
\* a line of an index alone ends the program before the request is sent.
ipt_parse_ipt == [parse_ipt EXCEPT !.checks = Required({"target"})]

xt_old_parse_ipt == ipt_parse_ipt

(***************************************************************************)
(* A list of actions, ended by a word that begins another command.         *)
(***************************************************************************)
new_cmd == Yield({M("change"), M("replace"), M("delete"), M("add")})

ActionKinds == <<<<"gact", "parse_gact">>, <<"mirred", "parse_mirred">>, <<"nat", "parse_nat">>,
                 <<"skbedit", "parse_skbedit">>, <<"csum", "parse_csum">>, <<"pedit", "parse_pedit">>,
                 <<"police", "police_action">>, <<"xt", "parse_ipt">>, <<"ipt", "ipt_parse_ipt">>, <<"drop", "parse_gact">>>>

parse_action ==
  Checked(<<Flag({X("action")}, "eap"), XHelp, new_cmd>>
            \o [i \in DOMAIN ActionKinds |-> [Kind(ActionKinds[i][1], ActionKinds[i][2])
                                                EXCEPT !.set = "eap" :> "0"]],
          {IfAll({"eap"}, {})})

\* Words like reclassify only become known as actions once "action" was read.
KindNames == {ActionKinds[i][1] : i \in DOMAIN ActionKinds} \ {"drop"}

tc_action_gd ==
  [Parser(<<Row({X("action")}), XHelp,
            Else({}, <<[Arg({"kind"}, OneOf(KindNames)) EXCEPT !.how = "append"],
                       Arg({}, OneOf({"index"})), Key({"index"})>>)>>)
     EXCEPT !.fails = TRUE]

tc_action_modify     == [Sequential(<<Phase("parse_action")>>) EXCEPT !.fails = TRUE]
tc_act_list_or_flush == Must(<<Return({X(k) : k \in KindNames}, "ignore_rest")>>)
ignore_rest          == [Parser(<<>>) EXCEPT !.other = "skip"]

do_action ==
  LET GetOrDelete(w)  == [With({M(w)}, <<Maybe(Arg({}, AnyWord))>>) EXCEPT !.then = "tc_action_gd"]
      ListOrFlush(kw) == [With(kw, <<Arg({}, AnyWord)>>) EXCEPT
                            !.then = "tc_act_list_or_flush", !.more = TRUE, !.ret = TRUE]
  IN  Parser(<<CallOn({M("add")}, "tc_action_modify"), CallOn({M("change"), M("replace")}, "tc_action_modify"),
               GetOrDelete("delete"), GetOrDelete("get"),
               ListOrFlush({M("list"), M("show"), M("lst")}), ListOrFlush({M("flush")}), MHelp>>)

=============================================================================
