--------------------------- MODULE TcQdiscOptions ----------------------------
(***************************************************************************)
(* The options of the queueing disciplines and their classes               *)
(* (iproute2/tc/q_*.c).  One definition for each parse_qopt and parse_copt *)
(* function; the longest are cut in two.  The options of pfabric are in    *)
(* module TcPfabric, with the request they make.                           *)
(***************************************************************************)
EXTENDS OptionTable

fifo_parse_opt == Parser(XVals(<<"limit">>) \o <<XHelp>>)

Ecn == <<Flag({X("ecn")}, "ecn"), Set({X("noecn")}, "ecn", "0"), XHelp>>

codel_parse_opt    == Parser(XVals(<<"limit", "target", "interval">>) \o Ecn)
fq_codel_parse_opt == Parser(XVals(<<"limit", "flows", "quantum", "target", "interval">>) \o Ecn)

(***************************************************************************)
(* The RED family.  A threshold that is left out is computed from the      *)
(* others, and so are three logarithms: each computation may fail.         *)
(***************************************************************************)
RedChecks ==
  {NotAbove("max", "limit"), When({"min", "max"}, Below("min", "max"))}

choke_parse_opt ==
  [Checked(XVals(<<"limit", "bandwidth">>) \o XFlags(<<"ecn">>)
             \o XVals(<<"min", "max", "burst", "avpkt", "probability">>) \o <<XHelp>>,
           Required({"bandwidth", "limit"}) \cup RedChecks)
     EXCEPT !.fails = TRUE]

red_parse_opt ==
  [Checked(XVals(<<"limit", "min", "max", "burst", "avpkt", "probability", "bandwidth">>)
             \o XFlags(<<"ecn", "harddrop">>)
             \o <<Flag({X("adaptative")}, "adaptive"), Flag({X("adaptive")}, "adaptive"), XHelp>>,
           Required({"limit", "avpkt"}))
     EXCEPT !.fails = TRUE]

sfb_parse_opt ==
  Parser(XVals(<<"rehash", "db", "limit", "max", "target", "increment", "decrement",
                 "penalty_rate", "penalty_burst">>))

SfqRows ==
  XVals(<<"quantum", "perturb">>) \o <<Conv({X("limit")}, "limit", OneOf({"2"}))>>
    \o XVals(<<"divisor", "flows", "depth">>) \o XFlags(<<"headdrop">>)
    \o Raise("red", XVals(<<"redflowlimit", "min", "max", "burst", "avpkt", "probability">>)
                      \o XFlags(<<"ecn", "harddrop">>))
    \o <<XHelp>>

sfq_parse_opt ==
  [Checked(SfqRows,
           {IfAll({"red"}, {"redflowlimit"}), When({"red"}, NotAbove("max", "redflowlimit")),
            When({"red", "min", "max"}, Below("min", "max"))})
     EXCEPT !.fails = TRUE]

(***************************************************************************)
(* gred: the virtual queues are set up by a line of its own, on which the  *)
(* default queue must follow their number.                                 *)
(***************************************************************************)
init_gred ==
  Checked(<<Val({X("DPs")}, "DPs"),
            Check(Needs(Raise("given", <<Val({X("default")}, "default")>>)[1], "DPs"),
                  NotAbove("default", "DPs")),
            Flag({X("grio")}, "grio"), XHelp>>,
          Required({"DPs", "given"}))

gred_parse_opt ==
  [Checked(Raise("ok", XVals(<<"limit">>))
             \o <<Unless(Return({X("setup")}, "init_gred"), {"ok"})>>
             \o Raise("ok", XVals(<<"min", "max", "DP", "burst", "avpkt", "probability",
                                    "prio", "bandwidth">>))
             \o <<XHelp>>,
           Required({"min", "max", "limit", "avpkt"}))
     EXCEPT !.fails = TRUE]

(***************************************************************************)
(* prio and rr: after "priomap" every word that is no keyword is the band  *)
(* of the next priority.  rr lets a band be equal to the number of bands.  *)
(***************************************************************************)
Band(check) ==
  Check(Needs(Else({}, <<Arg({"band"}, Num)>>), "priomap"), check)

prio_parse_opt ==
  [Parser(<<Val({X("bands")}, "bands"), Once(Flag({X("priomap")}, "priomap")),
            Flag({X("multiqueue")}, "mq"), XHelp, Band(Below("band", "bands"))>>)
     EXCEPT !.init = "bands" :> "3"]

rr_parse_opt ==
  [Parser(<<Val({X("bands")}, "bands"), Once(Flag({X("priomap")}, "priomap")),
            XHelp, Flag({X("multiqueue")}, "mq"), Band(NotAbove("band", "bands"))>>)
     EXCEPT !.init = "bands" :> "3"]

\* map and queues take as many numbers as there are.
mqprio_parse_opt ==
  Parser(<<Val({X("num_tc")}, "num_tc"),
           [With({X("map")}, <<IfNumber({"map1"}), IfNumber({"map2"})>>)
              EXCEPT !.raise = {"map"}],
           [With({X("queues")}, <<IfNumber({"queue1"}), IfNumber({"queue2"})>>)
              EXCEPT !.raise = {"queues"}],
           Val({X("hw")}, "hw"), XHelp>>)

multiq_parse_opt  == Parser(<<XHelp>>)
ingress_parse_opt == Parser(<<Conv({X("handle")}, "handle", AnyWord)>>)

drr_parse_class_opt == Parser(XVals(<<"quantum">>) \o <<XHelp>>)
qfq_parse_class_opt == Parser(MVals(<<"weight", "maxpkt">>) \o <<XHelp>>)

dsmark_parse_opt ==
  Checked(XVals(<<"indices">>)
            \o <<Val({X("default_index"), X("default")}, "default_index"),
                 Flag({X("set_tc_index")}, "set_tc_index")>>,
          Required({"indices"}))

dsmark_parse_class_opt == Parser(XVals(<<"mask", "value">>))

(***************************************************************************)
(* tbf: limit and latency exclude each other, most options may be given    *)
(* once, and the rate tables are computed at the end.                      *)
(***************************************************************************)
LinkLayer == Conv({M("linklayer")}, "linklayer", OneOf({"ethernet", "atm"}))
Burst     == Val({M("burst"), X("buffer"), X("maxburst")}, "buffer")
Mtu       == Val({X("mtu"), X("minburst")}, "mtu")

TbfRows ==
  <<Unless(Val({M("limit")}, "limit"), {"limit", "latency"}),
    Unless(Val({M("latency")}, "latency"), {"limit", "latency"}), Once(Burst), Once(Mtu)>>
    \o XOnce(<<"mpu", "rate">>)
    \o <<Once(Val({M("peakrate")}, "peakrate")), Once(Val({M("overhead")}, "overhead")), LinkLayer, XHelp>>

tbf_parse_opt ==
  [Checked(TbfRows,
           Required({"rate", "buffer"}) \cup {IfAll({"peakrate"}, {"mtu"}), IfAll({}, {"limit", "latency"})})
     EXCEPT !.fails = TRUE]

\* htb adds up the digits of several debug options.
htb_parse_opt ==
  Parser(MVals(<<"r2q", "default">>) \o <<With({M("debug")}, <<Bits({"debug"})>>)>>)

htb_parse_class_opt ==
  [Checked(MVals(<<"prio", "mtu", "mpu", "overhead">>) \o <<LinkLayer>> \o MVals(<<"quantum">>)
             \o <<Burst, Val({M("cburst"), X("cbuffer"), X("cmaxburst")}, "cbuffer")>>
             \o XOnce(<<"ceil", "rate">>) \o <<XHelp>>,
           Required({"rate"}))
     EXCEPT !.fails = TRUE]

(***************************************************************************)
(* hfsc: a service curve is written "m1 d m2" or, if that does not fit,    *)
(* "umax dmax rate"; the last of each is required and the curve may not be *)
(* zero.  C is the set of curves being set: sc sets two of them.           *)
(***************************************************************************)
hfsc_parse_opt == Parser(<<Once(Val({M("default")}, "default")), MHelp>>)

Slope(C, s) == {c \o s : c \in C}

hfsc_get_sc1(C, alt) ==
  [Sequential(<<Step(With({M("m1")}, <<Arg(Slope(C, "_m1"), Num)>>)),
                Step(With({M("d")}, <<Arg(Slope(C, "_d"), Num)>>)),
                Stop(With({M("m2")}, <<Arg(Slope(C, "_m2"), Num)>>))>>)
     EXCEPT !.other = "refuse", !.alt = alt]

hfsc_get_sc2(C) ==
  [Sequential(<<Step(With({M("umax")}, <<Arg(Slope(C, "_m1"), Num)>>)),
                Step(With({M("dmax")}, <<Arg(Slope(C, "_d"), Num)>>)),
                Stop(With({M("rate")}, <<Arg(Slope(C, "_m2"), Num)>>))>>)
     EXCEPT !.other = "refuse",
            !.checks = {IfAll({c \o "_m1"}, {c \o "_d"}) : c \in C}]

hfsc_get_sc(C, sc1) ==
  [Sequential(<<Call({}, sc1)>>) EXCEPT !.rows[1].pos = TRUE,
     !.checks = {IfAll({}, {c \o "_m1", c \o "_m2"}) : c \in C}]

Curve(w, C, oks) ==
  [CallOn({M(w)}, "hfsc_get_sc_" \o w) EXCEPT
     !.set = [f \in UNION {Slope(C, s) : s \in {"_m1", "_d", "_m2"}} |-> "0"],
     !.raise = oks]

hfsc_parse_class_opt ==
  Checked(<<Curve("rt", {"rsc"}, {"rsc_ok"}), Curve("ls", {"fsc"}, {"fsc_ok"}),
            Curve("sc", {"rsc", "fsc"}, {"rsc_ok", "fsc_ok"}), Curve("ul", {"usc"}, {"usc_ok"}),
            MHelp>>,
          {IfAll({}, {"rsc_ok", "fsc_ok", "usc_ok"}), IfAll({"usc_ok"}, {"fsc_ok"})})

(***************************************************************************)
(* cbq.  A class sends its parts separately: the link sharing part if one  *)
(* of its options was given, the round robin part if priority or weight    *)
(* was, and the rate table if the rate was.                                *)
(***************************************************************************)
Cell == Conv({M("cell")}, "cell", Pos)    \* a power of two

cbq_parse_opt ==
  [Checked(<<Val({M("bandwidth"), M("rate")}, "rate")>> \o MVals(<<"ewma">>) \o <<Cell>>
             \o MVals(<<"avpkt", "mpu", "allot", "overhead">>) \o <<LinkLayer, MHelp>>,
           Required({"rate", "avpkt"}))
     EXCEPT !.fails = TRUE]

\* lines up to the end of the loop
CbqClassRows ==
  MVals(<<"rate", "bandwidth", "minidle">>)
    \o Raise("bursts", MVals(<<"minburst", "maxburst">>))
    \o <<Flag({M("bounded")}, "bounded"), Set({M("borrow")}, "bounded", "0"),
         Flag({M("isolated")}, "isolated"), Set({M("sharing")}, "isolated", "0")>>
    \o MVals(<<"ewma">>) \o <<Cell>> \o Raise("wrr_ok", MVals(<<"prio">>))
    \o MVals(<<"allot", "avpkt", "mpu">>) \o Raise("wrr_ok", MVals(<<"weight">>))
    \o MVals(<<"split", "defmap", "overhead">>) \o <<LinkLayer, MHelp>>

\* the rest; excl: the class is being added, and gets a priority if none was given
cbq_parse_class_opt(excl) ==
  LET Allot == IF excl THEN {IfAll({"prio"}, {"allot", "rate"}), IfAll({}, {"allot", "avpkt"})}
               ELSE {IfAll({"wrr_ok"}, {"allot", "rate"}), IfAll({"wrr_ok"}, {"allot", "avpkt"})}
  IN  [Checked(CbqClassRows,
               {IfAll({"bursts"}, {f}) : f \in {"avpkt", "bandwidth", "rate"}} \cup Allot)
         EXCEPT !.fails = TRUE,
                !.drops = {SentIf({"mpu", "cell", "overhead", "linklayer"}, {"rate"}),
                           SentIf({"bandwidth"}, {"bursts"})}
                            \cup IF excl THEN {} ELSE {SentIf({"allot"}, {"wrr_ok"})}]

\* atm: an SAP only makes sense with an SVC, which must come first.
atm_parse_class_opt ==
  [Parser(<<[Conv({X("pvc")}, "addr", Pos) EXCEPT !.set = "svc" :> "0"],
            [Conv({X("svc")}, "addr", Pos) EXCEPT !.set = "svc" :> "1"],
            Val({X("qos")}, "qos"), Val({X("sndbuf")}, "sndbuf"),
            Needs(Val({X("sap")}, "sap"), "svc"), Val({X("hdr")}, "hdr"),
            Conv({X("excess")}, "excess", Or(Pos, "clp", "0")), Flag({X("clip")}, "clip")>>)
     EXCEPT !.fails = TRUE]

(***************************************************************************)
(* netem.  Percentages and times may be followed by a correlation.         *)
(***************************************************************************)
NetemLoss ==
  [Sequential(<<Stop(With({X("random")}, <<Arg({"loss"}, Num), IfNumber({"loss_corr"})>>)),
                Stop([With({X("state")}, <<Arg({"p13"}, Num), IfNumber({"p31"}), IfNumber({"p32"}),
                                           IfNumber({"p23"})>>) EXCEPT !.raise = {"loss_type"}]),
                Stop([With({X("gemodel")}, <<Arg({"p"}, Num), IfNumber({"r"}), IfNumber({"h"}),
                                             IfNumber({"k1"})>>) EXCEPT !.raise = {"loss_type"}]),
                Stop(Else({}, <<Arg({"loss"}, Num), IfNumber({"loss_corr"})>>))>>)
     EXCEPT !.other = "refuse"]

NetemDelayRows ==
  <<Val({M("limit")}, "limit"),
    With({M("latency"), M("delay")}, <<Arg({"latency"}, Num), IfNumber({"jitter"}), IfNumber({"delay_corr"})>>),
    Unless(CallOn({M("loss"), M("drop")}, "NetemLoss"), {"loss", "loss_type"}),
    Flag({M("ecn")}, "ecn")>>

NetemRows ==
  <<With({M("reorder")}, <<Arg({"reorder"}, Num), IfNumber({"reorder_corr"})>>),
    With({M("corrupt")}, <<Arg({"corrupt"}, Num), IfNumber({"corrupt_corr"})>>),
    Val({M("gap")}, "gap"),
    With({M("duplicate")}, <<Arg({"duplicate"}, Num), IfNumber({"dup_corr"})>>),
    Conv({M("distribution")}, "distribution", Pos),
    With({M("rate")}, <<Arg({"rate"}, Num), IfNumber({"packet_overhead"}), IfNumber({"cell_size"}),
                        IfNumber({"cell_overhead"})>>),
    XHelp>>

\* the checks, and what is sent: the correlations only if one raised the flag
netem_parse_opt ==
  [Checked(NetemDelayRows \o NetemRows,
           {IfAll({"reorder"}, {"latency"}), IfAll({"gap"}, {"reorder"}),
            IfAll({"ecn"}, {"loss", "loss_type"}),
            IfAll({"distribution"}, {"latency"}), IfAll({"distribution"}, {"jitter"})})
     EXCEPT !.drops = {SentIf({"dup_corr"}, {"delay_corr", "loss_corr", "reorder_corr", "corrupt_corr"})}]

=============================================================================
