----------------------------- MODULE XfrmOptions -----------------------------
(***************************************************************************)
(* The options of ip xfrm (iproute2/ip/ipxfrm.c, xfrm_state.c,             *)
(* xfrm_policy.c, xfrm_monitor.c).  The parsers of an id, of a selector    *)
(* and of a template take as many words as they know and step back to the  *)
(* first one they do not; the caller then sees that word again and, having *)
(* called the parser once, refuses it.  So a parser that finds no word at  *)
(* all is not refused by itself.  A mask is all bits (3) or none; the      *)
(* words default, any and all, which get_prefix only takes once the family *)
(* is known, are left out.                                                 *)
(***************************************************************************)
EXTENDS OptionTable

\* The last resort of a loop: the parser called for any other word, once.
Otherwise(p, flag) == Single(Phase(p), flag)

\* As Otherwise, but the second such word ends the loop.  The caller raises the flag.
Remaining(p, flag) == Only([Phase(p) EXCEPT !.set = flag :> "0"], {flag})

\* mark VALUE [ mask MASK ]
xfrm_parse_mark ==
  [With({X("mark")}, <<Arg({"mark_v"}, Num)>>) EXCEPT !.set = "mark_m" :> "3", !.then = "mark_mask"]

mark_mask == Either(<<Conv({X("mask")}, "mark_m", [w \in {"0", "3"} |-> w])>>)
\* What is not sent: a mark without effect, and the local variables.
NotSent  == {SentIf({"mark_v", "mark_m"}, {"mark_v"}), SentIf({"mark_v", "mark_m"}, {"mark_m"}),
              SentIf({"upspec_left", "tmpl_id_left"}, {})}

(***************************************************************************)
(* The protocols and modes: those of IPsec and those of route optimisation *)
(* go together.  A mode that is not given is transport.                    *)
(***************************************************************************)
xfrm_xfrmproto_getbyname(k) ==
  LET Proto(w, ipsec, ro) == [Row({X(w)}) EXCEPT !.set = ((k \o "proto") :> w) @@ ((k \o "ipsec") :> ipsec)
                                                          @@ ((k \o "ro") :> ro)]
  IN  Must(<<Proto("esp", "1", "0"), Proto("ah", "1", "0"), Proto("comp", "1", "0"), Proto("route2", "0", "1"),
             Proto("hao", "0", "1")>>)

xfrm_mode_parse ==
  LET Mode(w, ipsec, ro) == [Row({M(w)}) EXCEPT !.set = ("mode" :> w) @@ ("mode_ipsec" :> ipsec) @@ ("mode_ro" :> ro)]
  IN  Must(<<Mode("transport", "1", "0"), Mode("tunnel", "1", "0"), Mode("ro", "0", "1"),
             Mode("in_trigger", "0", "1"), Mode("beet", "0", "0")>>)

ModeRow == CallOn({X("mode")}, "xfrm_mode_parse")

\* src, dst, proto and spi; loose: the protocol need not be given
xfrm_id_parse(k, fam, loose, adopt) ==
  LET Address(w) == With({X(w)}, <<[Arg({k \o w}, Addr) EXCEPT !.fam = fam]>>)
  IN  [Part(<<Address("src"), Address("dst"), CallOn({X("proto")}, k \o "xfrmproto"), Val({X("spi")}, k \o "spi")>>)
         EXCEPT !.checks = {SameFamily(k \o "src", k \o "dst")} \cup (IF loose THEN {} ELSE Required({k \o "proto"})),
                !.adopt = IF adopt THEN {k \o "dst", k \o "src"} ELSE {}]

(***************************************************************************)
(* A selector.  Ports belong to tcp and its like, type and code to icmp,   *)
(* the key to gre; they are kept in the same two fields.                   *)
(***************************************************************************)
upspec_proto ==
  LET Proto(w, v) == [Row({X(w)}) EXCEPT !.set =
                         ("upspec" :> v) @@ [f \in {"ports", "icmps", "keys"} |-> IF f = v THEN "1" ELSE "0"]]
  IN  Must(<<Proto("any", "0"), Proto("tcp", "ports"), Proto("icmp", "icmps"), Proto("gre", "keys")>>)

\* the loop
UpspecRows ==
  <<CallOn({X("proto")}, "upspec_proto"), Val({X("sport")}, "sport"), Val({X("dport")}, "dport"),
    Val({X("type")}, "sport"), Val({X("code")}, "dport"), With({X("key")}, <<Arg({"sport", "dport"}, Num)>>)>>

\* what was given, whatever its value, and the check that follows
xfrm_selector_upspec_parse ==
  LET Given(flags) == [i \in DOMAIN UpspecRows |->
                         IF flags[i] = "" THEN UpspecRows[i] ELSE [UpspecRows[i] EXCEPT !.raise = {flags[i]}]]
  IN  [Part(Given(<<"", "portp", "portp", "typep", "typep", "grekey">>))
         EXCEPT !.checks = {IfAll({"portp"}, {"ports"}), IfAll({"typep"}, {"icmps"}), IfAll({"grekey"}, {"keys"})}]

xfrm_selector_parse(adopt) ==
  [Part(<<With({X("src")}, <<InFamily({"sel_src"})>>), With({X("dst")}, <<InFamily({"sel_dst"})>>),
          Conv({X("dev")}, "sel_dev", Or(Dev, "none", "0")), Remaining("xfrm_selector_upspec_parse", "upspec_left")>>)
     EXCEPT !.checks = {SameFamily("sel_src", "sel_dst")},
            !.adopt = IF adopt THEN {"sel_dst", "sel_src"} ELSE {}]

Selector(row) == [row EXCEPT !.set = "upspec_left" :> "1"]

xfrm_lifetime_cfg_parse ==
  Must(XVals(<<"time-soft", "time-hard", "time-use-soft", "time-use-hard", "byte-soft", "byte-hard",
               "packet-soft", "packet-hard">>))

LimitRow == CallOn({X("limit")}, "xfrm_lifetime_cfg_parse")

(***************************************************************************)
(* Flags: a number in place of them all, or any of their names.            *)
(***************************************************************************)
PolicyFlags == <<"localok", "icmp">>
StateFlags  == <<"noecn", "decap-dscp", "nopmtudisc", "wildrecv", "icmp", "af-unspec", "align4">>

xfrm_flag_parse(ws, names) ==
  Sequential(<<Stop([Row({X("0x0")}) EXCEPT !.set = [f \in {ws[i] : i \in DOMAIN ws} |-> "0"]]), Phase(names)>>)

flag_names(ws) == Part(XFlags(ws))

xfrm_policy_flag_parse == xfrm_flag_parse(PolicyFlags, "policy_flag_names")
xfrm_state_flag_parse  == xfrm_flag_parse(StateFlags, "state_flag_names")
PolicyFlag == CallOn({X("flag")}, "xfrm_policy_flag_parse")
StateFlag  == CallOn({X("flag")}, "xfrm_state_flag_parse")

(***************************************************************************)
(* ip xfrm policy.  Of several templates the last one is recorded; its     *)
(* family is the one in force afterwards.                                  *)
(***************************************************************************)
xfrm_tmpl_parse ==
  Part(<<Conv({X("mode")}, "tmpl_mode", OneOf({"transport", "tunnel"})), Val({X("reqid")}, "tmpl_reqid"),
         Conv({X("level")}, "tmpl_optional", ("required" :> "0") @@ ("use" :> "1")),
         Remaining("tmpl_id", "tmpl_id_left")>>)

tmpl_id == xfrm_id_parse("tmpl_", "set", FALSE, FALSE)

TmplRow ==
  [CallOn({X("tmpl")}, "xfrm_tmpl_parse") EXCEPT !.set =
     [f \in {"tmpl_src", "tmpl_dst", "tmpl_proto", "tmpl_ipsec", "tmpl_ro", "tmpl_spi", "tmpl_mode", "tmpl_reqid",
             "tmpl_optional"} |-> "-"] @@ ("tmpl_id_left" :> "1")]

DirRow    == Conv({X("dir")}, "dir", [w \in {"in", "out", "fwd"} |-> w])
PtypeRow  == Conv({X("ptype")}, "ptype", [w \in {"main", "sub"} |-> w])
ActionRow == Conv({X("action")}, "action", ("allow" :> "0") @@ ("block" :> "1"))
CtxRow    == Once(Conv({X("ctx")}, "ctx", AnyWord))
SelectorRest == Selector(Otherwise("selector", "selp"))

\* the branches, and what follows them
PolicyRows ==
  <<Once(DirRow), CtxRow, xfrm_parse_mark, Val({X("index")}, "index"), Once(PtypeRow), ActionRow,
    Val({X("priority")}, "priority"), PolicyFlag, LimitRow, TmplRow, SelectorRest>>

xfrm_policy_modify ==
  [Checked(PolicyRows, Required({"dir"})) EXCEPT !.fails = TRUE, !.drops = NotSent]

xfrm_policy_get_or_delete ==
  [Checked(<<Once(DirRow), CtxRow, xfrm_parse_mark, Single(Val({X("index")}, "index"), "indexp"), Once(PtypeRow),
             SelectorRest>>,
           Required({"dir"}) \cup {IfAll({}, {"selp", "indexp"}), IfAll({"selp", "indexp"}, {})})
     EXCEPT !.fails = TRUE, !.drops = NotSent]

xfrm_policy_list_or_deleteall ==
  [Parser(<<DirRow, Val({X("index")}, "index"), PtypeRow, ActionRow, Val({X("priority")}, "priority"), PolicyFlag,
            SelectorRest>>)
     EXCEPT !.fails = TRUE, !.drops = NotSent]

xfrm_policy_flush == [Parser(<<Once(PtypeRow)>>) EXCEPT !.fails = TRUE]

(***************************************************************************)
(* ip xfrm state.                                                          *)
(***************************************************************************)
\* the branches up to the algorithms
StateRows ==
  <<ModeRow, xfrm_parse_mark, Val({X("reqid")}, "reqid"), Val({X("seq")}, "seq"),
    Val({X("replay-window")}, "replay-window"), Val({X("replay-seq")}, "replay-seq"),
    Val({X("replay-oseq")}, "replay-oseq"), StateFlag, Selector(CallOn({X("sel")}, "sel")), LimitRow,
    With({X("encap")}, <<Arg({"encap_type"}, OneOf({"espinudp", "espinudp-nonike"})), Arg({"encap_sport"}, Num),
                         Arg({"encap_dport"}, Num), Arg({"encap_oa"}, Addr)>>),
    Once(With({X("coa")}, <<InFamily({"coa"})>>)), CtxRow>>

\* the algorithms: a name and a key each, and a length for some; at most one of a kind
AlgoRows ==
  LET Algo(w, kind, len) ==
        Once(With({X(w)}, <<Arg({kind}, AnyWord), Arg({kind \o "_key"}, AnyWord)>> \o len))
      Length(f) == <<Arg({f}, Num)>>
  IN  <<Algo("aead", "aead", Length("icv_len")), Algo("enc", "enc", <<>>), Algo("auth", "auth", <<>>),
        Unless(Algo("auth-trunc", "auth", Length("trunc_len")), {"auth"}), Algo("comp", "comp", <<>>)>>

Algos == {"aead", "enc", "auth", "comp"}

\* what follows the loop: mode, protocol, algorithms and care-of address must agree
xfrm_state_modify ==
  [Checked(StateRows \o AlgoRows \o <<Otherwise("id", "idp")>>,
           Required({"idp"})
             \cup {IfAll({"mode_ipsec"}, {"ipsec"}), IfAll({"mode_ro"}, {"ro"}), IfAll({"mode_ro", "spi"}, {}),
                   IfAll({"ipsec"}, Algos), IfAll({"ro"}, {"coa"}), IfAll({"coa"}, {"ro"})}
             \cup {IfAll({a}, {"ipsec"}) : a \in Algos})
     EXCEPT !.init = "mode_ipsec" :> "1", !.fails = TRUE,
            !.drops = NotSent \cup {SentIf({"replay-seq", "replay-oseq"}, {"replay-seq", "replay-oseq"})}]

\* a range needs both ends; the default one does not depend on the order
xfrm_state_allocspi ==
  [Checked(<<ModeRow, xfrm_parse_mark, Val({X("reqid")}, "reqid"), Val({X("seq")}, "seq"),
             Single(Val({X("min")}, "min"), "minp"), Single(Val({X("max")}, "max"), "maxp"),
             Otherwise("id", "idp")>>,
           Required({"idp"}) \cup {IfAll({"spi"}, {}), IfAll({"minp"}, {"maxp"}), IfAll({"maxp"}, {"minp"}),
                                   NotAbove("min", "max")})
     EXCEPT !.fails = TRUE, !.drops = NotSent]

xfrm_state_get_or_delete ==
  [Parser(<<xfrm_parse_mark, Otherwise("id_kept", "idp")>>) EXCEPT !.fails = TRUE, !.drops = NotSent]

xfrm_state_list_or_deleteall ==
  [Parser(<<ModeRow, Val({X("reqid")}, "reqid"), StateFlag, Otherwise("id_loose", "idp")>>)
     EXCEPT !.fails = TRUE, !.drops = NotSent]

xfrm_state_flush == [Parser(<<Single(CallOn({X("proto")}, "xfrmproto"), "protop")>>) EXCEPT !.fails = TRUE]

do_xfrm_monitor ==
  LET Subject(w) == [Flag({M(w)}, w) EXCEPT !.set = @ @@ ("groups" :> "0")]
  IN  [Parser(<<Conv({M("file")}, "file", AnyWord), Subject("acquire"), Subject("expire"), Subject("SA"),
                Subject("aevent"), Subject("policy"), Subject("report"), MHelp>>)
         EXCEPT !.fails = TRUE, !.init = "groups" :> "1"]

=============================================================================
