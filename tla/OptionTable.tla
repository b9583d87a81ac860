----------------------------- MODULE OptionTable -----------------------------
(***************************************************************************)
(* The vocabulary in which the option loops of iproute2 are written down.  *)
(* Nearly every command of tc, ip, bridge and genl reads its words with a  *)
(* loop of the form                                                        *)
(*                                                                         *)
(*    while (argc > 0) {                                                   *)
(*        if (strcmp(argv[0], "limit") == 0) { NEXT_ARG(); ... }           *)
(*        else if (matches(argv[0], "ecn") == 0) { ... }                   *)
(*        else { explain(); return -1; }                                   *)
(*        argc--; argv++;                                                  *)
(*    }                                                                    *)
(*                                                                         *)
(* followed by checks on what was given.  A parser is the record of such a *)
(* loop: its branches in the order in which they are tried, and its        *)
(* checks.  Module ArgParser says how the loop runs.                       *)
(*                                                                         *)
(* A word is a string.  "0", "1" and "2" stand for the values that a       *)
(* number, a time, a rate or a size may have; "v4", "w4" and "v6" for      *)
(* addresses of the two families, "w4" being a multicast address.  A field *)
(* of the request that was never assigned has the value "-".               *)
(***************************************************************************)
EXTENDS Integers, Sequences, SequencesExt, FiniteSets, TLC

(***************************************************************************)
(* What a conversion makes of a word: a function from the words it accepts *)
(* to the value it stores.  A word outside the domain is refused; "*" in   *)
(* the domain stands for any other word, and as a value for the word       *)
(* itself.  The value "keep" is of a word that the code accepts without an *)
(* assignment.                                                             *)
(***************************************************************************)
Num     == [w \in {"0", "1", "2"} |-> w]
Pos     == [w \in {"1", "2"} |-> w]
AnyWord == "*" :> "*"
Addr    == [w \in {"v4", "w4", "v6"} |-> w]
Dev     == [w \in {"eth0", "eth1"} |-> w]
OnOff   == ("on" :> "1") @@ ("off" :> "0")
OneOf(S)      == [w \in S |-> w]
Or(conv, w, v) == conv @@ (w :> v)

Family(w) == CASE w \in {"v4", "w4"} -> "inet" [] w = "v6" -> "inet6" [] OTHER -> "-"

\* How a branch recognises its keyword: strcmp, matches (an abbreviation will do), or
\* matches with its arguments swapped (any word that begins with the keyword).
X(w) == <<"strcmp", w>>
M(w) == <<"matches", w>>
W(w) == <<"swapped", w>>

(***************************************************************************)
(* An argument of a branch: the fields it is stored in, its conversion,    *)
(* whether it may be missing, whether its value replaces the one that is   *)
(* there or is added to it (bits set, a key appended), and what is done    *)
(* about its address family: nothing, a check against the family in force, *)
(* a check that also settles the family when none is in force, or no check *)
(* and the family is in force from now on.  An attribute that is put into  *)
(* the message twice counts as replaced: the kernel reads the last one.    *)
(***************************************************************************)
Arg(f, conv) == [f |-> f, conv |-> conv, opt |-> FALSE, how |-> "replace", fam |-> "none"]
Bits(f)      == [Arg(f, Num) EXCEPT !.how = "or"]
Key(f)       == [Arg(f, Num) EXCEPT !.how = "append"]
Maybe(arg)   == [arg EXCEPT !.opt = TRUE]
IfNumber(f)  == Maybe(Arg(f, Num))
Word(w)      == Maybe(Arg({}, OneOf({w})))        \* an optional word without meaning
InFamily(f)  == [Arg(f, Addr) EXCEPT !.fam = "check"]
FixFamily(f) == [Arg(f, Addr) EXCEPT !.fam = "learn"]
SetFamily(f) == [Arg(f, Addr) EXCEPT !.fam = "set"]
Prefix(arg)  == [arg EXCEPT !.conv = Addr @@ ("default" :> "0")]      \* get_prefix

(***************************************************************************)
(* A branch.  kw: its keywords; pos: the else branch, where the keyword    *)
(* may be left out; stay: the keyword is left for the parser called;       *)
(* only: fields one of which must be true for the branch to be considered; *)
(* args; set: what it assigns besides; raise: the flags it shares with     *)
(* other branches (ok++); once: the fields that must be false in C's sense *)
(* (duparg); need: those that must be true; checks: on what was just       *)
(* stored; then: what follows ("loop", "break", "refuse", or the parser    *)
(* that is called); more: it steps on to a word that must be there; ret:   *)
(* what the called parser returns is returned.                             *)
(***************************************************************************)
Row(kw) ==
  [kw |-> kw, pos |-> FALSE, stay |-> FALSE, only |-> {}, args |-> <<>>, set |-> <<>>,
   raise |-> {}, once |-> {}, need |-> {}, checks |-> {}, then |-> "loop", more |-> FALSE,
   ret |-> FALSE]

With(kw, args)   == [Row(kw) EXCEPT !.args = args]
Val(kw, f)       == With(kw, <<Arg({f}, Num)>>)
Conv(kw, f, c)   == With(kw, <<Arg({f}, c)>>)
Set(kw, f, v)    == [Row(kw) EXCEPT !.set = f :> v]
Flag(kw, f)      == Set(kw, f, "1")
Call(kw, p)      == [Row(kw) EXCEPT !.then = p]
CallOn(kw, p)    == [Row(kw) EXCEPT !.then = p, !.more = TRUE]
Return(kw, p)    == [Row(kw) EXCEPT !.then = p, !.ret = TRUE]
Reject(kw)       == [Row(kw) EXCEPT !.then = "refuse"]
Yield(kw)        == [Row(kw) EXCEPT !.then = "break", !.stay = TRUE]
Kind(w, p)       == [Row({X(w)}) EXCEPT !.then = p, !.stay = TRUE]
Phase(p)         == [Row({}) EXCEPT !.then = p, !.pos = TRUE]
Only(row, S)     == [row EXCEPT !.only = S]
Else(kw, args)   == [With(kw, args) EXCEPT !.pos = TRUE]
Raise(f, rows)   == [i \in DOMAIN rows |-> [rows[i] EXCEPT !.raise = @ \cup {f}]]
Stop(row)        == [row EXCEPT !.then = "break"]
Step(row)        == [row EXCEPT !.more = TRUE]
Needs(row, f)    == [row EXCEPT !.need = {f}]
Check(row, c)    == [row EXCEPT !.checks = {c}]

FieldsOf(row) == DOMAIN row.set \cup UNION {row.args[i].f : i \in DOMAIN row.args}

Unless(row, S) == [row EXCEPT !.once = S]
Once(row)      == Unless(row, FieldsOf(row))
Single(row, f) == [row EXCEPT !.once = {f}, !.raise = {f}]      \* even if it was given as 0

\* Branches that only differ in their word: each stores a number in the field of its name.
XVals(ws)  == [i \in DOMAIN ws |-> Val({X(ws[i])}, ws[i])]
MVals(ws)  == [i \in DOMAIN ws |-> Val({M(ws[i])}, ws[i])]
XFlags(ws) == [i \in DOMAIN ws |-> Flag({X(ws[i])}, ws[i])]
MFlags(ws) == [i \in DOMAIN ws |-> Flag({M(ws[i])}, ws[i])]
MOnOff(ws) == [i \in DOMAIN ws |-> Conv({M(ws[i])}, ws[i], OnOff)]
XOnOff(ws) == [i \in DOMAIN ws |-> Conv({X(ws[i])}, ws[i], OnOff)]
XOnce(ws)  == [i \in DOMAIN ws |-> Once(Val({X(ws[i])}, ws[i]))]
XHelp == Reject({X("help")})
MHelp == Reject({M("help")})

(***************************************************************************)
(* A check that follows the loop.                                          *)
(***************************************************************************)
IfAll(S, T)    == [op |-> "needs", if |-> S, some |-> T]    \* all of S given: some of T as well
Required(S)    == {IfAll({}, {f}) : f \in S}
Exclusive(S)   == {IfAll({f, g}, {}) : <<f, g>> \in {p \in S \X S : p[1] # p[2]}}
NotAbove(f, g) == [op |-> "le", if |-> {}, some |-> {}, f |-> f, g |-> g]
Below(f, g)    == [op |-> "lt", if |-> {}, some |-> {}, f |-> f, g |-> g]
When(S, check) == [check EXCEPT !.if = S]
SameFamily(f, g) == [op |-> "family", if |-> {f, g}, some |-> {}, f |-> f, g |-> g]
InetOnly(f)      == [op |-> "inet", if |-> {f}, some |-> {}, f |-> f, g |-> f]
Extends(f, g)    == [op |-> "extends", if |-> {f}, some |-> {}, f |-> f, g |-> g]    \* f begins with g
Multicast(f, g)  == [op |-> "multicast", if |-> {}, some |-> {}, f |-> f, g |-> g]   \* f is: g as well

(***************************************************************************)
(* A parser.  init: values its fields start with; other: what a word does  *)
(* that no branch knows ("refuse", "break", "skip", or "pass": skipped if  *)
(* another follows); checks; fails: the arithmetic or the system calls     *)
(* after the loop may fail; drops: the fields that are only sent if one of *)
(* some others is true; seq: the branches are tried once each, in their    *)
(* order; some: at least a word must be taken; alt: the parser tried on    *)
(* the same words if this one fails; adopt: the addresses whose family     *)
(* becomes the family in force.                                            *)
(***************************************************************************)
Parser(rows) ==
  [rows |-> rows, init |-> <<>>, other |-> "refuse", checks |-> {}, fails |-> FALSE, drops |-> {},
   seq |-> FALSE, some |-> FALSE, alt |-> "", adopt |-> {}]

Checked(rows, checks) == [Parser(rows) EXCEPT !.checks = checks]
Part(rows)            == [Parser(rows) EXCEPT !.other = "break"]
Sequential(rows)      == [Part(rows) EXCEPT !.seq = TRUE]
Either(rows)          == Sequential([i \in DOMAIN rows |-> Stop(rows[i])])   \* one of them or none
Must(rows)            == [Either(rows) EXCEPT !.other = "refuse"]
Command(w, p)         == Return({M(w)}, p)
SentIf(S, T)          == [field |-> S, with |-> T]

=============================================================================
