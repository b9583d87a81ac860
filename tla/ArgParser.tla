------------------------------ MODULE ArgParser ------------------------------
(***************************************************************************)
(* How the option loops of iproute2 run: one step is one turn of a loop,   *)
(* or its end and the checks that follow it.  Two processes read related   *)
(* command lines side by side, so that what a program makes of one line    *)
(* can be compared with what it makes of the other:                        *)
(*                                                                         *)
(*   both     the options i1 and i2, in this order                         *)
(*   swapped  the same two in the other order                              *)
(*                                                                         *)
(* Each line ends with the options its command requires (Base).            *)
(***************************************************************************)
EXTENDS OptionTable, Functions

CONSTANTS Parsers,   \* the parsers, by name
          Base,      \* for each parser, options that make up an acceptable line
          Commands   \* the parsers that read command lines

VARIABLES exp,       \* the parser under test, the two options, and whether the arithmetic
                     \* and the system calls succeed
          proc       \* the processes

argVars == <<exp, proc>>

Truth(env, f) == f \in DOMAIN env /\ env[f] \notin {"-", "0"}
Get(env, f)   == IF f \in DOMAIN env THEN env[f] ELSE "-"
BitOr(u, v)   == IF u \in {"-", "0", v} THEN v ELSE IF v = "0" THEN u ELSE "3"
Amount(v)     == CASE v = "1" -> 1 [] v = "2" -> 2 [] v = "3" -> 3 [] OTHER -> 0

(***************************************************************************)
(* matches: the word is the beginning of the keyword.                      *)
(***************************************************************************)
\* Fault: any word that begins with the keyword will do as well.
MatchesEither(cmd, pattern) ==
  LET n == IF Len(cmd) < Len(pattern) THEN Len(cmd) ELSE Len(pattern)
  IN  SubSeq(pattern, 1, n) = SubSeq(cmd, 1, n)

matches(cmd, pattern) ==
  Len(cmd) <= Len(pattern) /\ SubSeq(pattern, 1, Len(cmd)) = cmd

Spelled(row, w) ==
  \E k \in row.kw : CASE k[1] = "strcmp"  -> w = k[2]
                     [] k[1] = "matches" -> matches(w, k[2])
                     [] k[1] = "swapped" -> matches(k[2], w)

Recognises(row, w) == row.pos \/ Spelled(row, w)

\* The branch taken for a word, counting from the given place; 0 if there is none.
Branch(rows, w, from, env) ==
  SelectInSubSeq(rows, from, Len(rows),
                 LAMBDA row : Recognises(row, w) /\ (row.only = {} \/ \E f \in row.only : Truth(env, f)))

(***************************************************************************)
(* A loop in progress: its parser, the branch it took last, the argument   *)
(* of that branch it has come to (0 between two branches), and where it    *)
(* began, for the parser that is tried next.                               *)
(***************************************************************************)
Frame(p, argv, env) == [parser |-> p, at |-> 0, arg |-> 0, argv0 |-> argv, env0 |-> env]

Begin(T, p, argv) ==
  [stack |-> <<Frame(p, argv, T[p].init)>>, argv |-> argv, env |-> T[p].init, st |-> "parse"]

Top(q)       == q.stack[Len(q.stack)]
ParserOf(T, q) == T[Top(q).parser]
BranchOf(T, q) == ParserOf(T, q).rows[Top(q).at]

\* Giving up for good: a word is missing.
incomplete_command(q) == [q EXCEPT !.st = "refuse"]

\* Giving up: invarg, duparg, usage and explain.  The other parser is tried if there is one.
Refuse(T, q) ==
  IF ParserOf(T, q).alt = "" THEN [q EXCEPT !.st = "refuse"]
  ELSE [q EXCEPT !.stack[Len(q.stack)] = Frame(ParserOf(T, q).alt, Top(q).argv0, Top(q).env0),
                 !.argv = Top(q).argv0, !.env = Top(q).env0]

(***************************************************************************)
(* The end of a loop: its checks, and back to the caller or, at the        *)
(* bottom, the request is sent.  Words left over are garbage.              *)
(***************************************************************************)
Holds(c, env) ==
  (\A f \in c.if : Truth(env, f)) =>
     CASE c.op = "needs"  -> \E f \in c.some : Truth(env, f)
       [] c.op = "le"     -> Amount(Get(env, c.f)) <= Amount(Get(env, c.g))
       [] c.op = "lt"     -> Amount(Get(env, c.f)) < Amount(Get(env, c.g))
       [] c.op = "family" -> Family(Get(env, c.f)) = Family(Get(env, c.g))
       [] c.op = "inet"   -> Get(env, "family") = "inet"
       [] c.op = "extends" -> matches(Get(env, c.g), Get(env, c.f))
       [] c.op = "multicast" -> Get(env, c.f) = "w4" => Truth(env, c.g)

Adopt(env, S) ==
  IF Get(env, "family") = "-" /\ \E f \in S : Truth(env, f)
  THEN ("family" :> Family(env[CHOOSE f \in S : Truth(env, f)])) @@ env
  ELSE env

Sound(q, P) ==
  /\ \A c \in P.checks : Holds(c, q.env)
  /\ P.fails => exp.luck
  /\ P.some => q.argv # Top(q).argv0
  /\ Len(q.stack) = 1 => q.argv = <<>>

Leave(T, q) ==
  IF Sound(q, ParserOf(T, q))
  THEN [q EXCEPT !.stack = Front(@), !.env = Adopt(@, ParserOf(T, q).adopt),
                 !.st = IF Len(q.stack) = 1 THEN "accept" ELSE @]
  ELSE Refuse(T, q)

(***************************************************************************)
(* The end of a branch: back to the loop, out of it, or into the parser it *)
(* calls.                                                                  *)
(***************************************************************************)
Enter(T, q, p, ret) ==
  LET env == q.env @@ T[p].init
  IN  [q EXCEPT !.stack = Append(IF ret THEN Front(@) ELSE @, Frame(p, q.argv, env)),
                !.env = env]

Finish(T, q, row) ==
  IF \E c \in row.checks : ~Holds(c, q.env) THEN Refuse(T, q)
  ELSE IF row.more /\ q.argv = <<>> THEN incomplete_command(q)
  ELSE CASE row.then = "loop"  -> q
         [] row.then = "break" -> Leave(T, q)
         [] OTHER              -> Enter(T, q, row.then, row.ret)

Assign(q, row) ==
  [q EXCEPT !.stack[Len(q.stack)].arg = 0,
            !.env = row.set @@ [f \in row.raise |-> "1"] @@ @]

\* Once the last argument is taken the branch ends.
Go(T, q, row) ==
  IF Top(q).arg > Len(row.args) THEN Finish(T, Assign(q, row), row) ELSE q

(***************************************************************************)
(* Between two branches: the next word chooses one.                        *)
(***************************************************************************)
Choose(T, q, row, i) ==
  IF \/ row.then = "refuse"
     \/ \E f \in row.once : Truth(q.env, f)
     \/ \E f \in row.need : ~Truth(q.env, f)
  THEN Refuse(T, q)
  ELSE Go(T, [q EXCEPT !.stack[Len(q.stack)].at = i, !.stack[Len(q.stack)].arg = 1,
                       !.argv = IF row.stay \/ ~Spelled(row, Head(@)) THEN @ ELSE Tail(@)],
          row)

NoBranch(T, q, other) ==
  CASE other = "refuse" -> Refuse(T, q)
    [] other = "break"  -> Leave(T, q)
    [] other = "skip" \/ (other = "pass" /\ Len(q.argv) > 1) -> [q EXCEPT !.argv = Tail(@)]
    [] other = "pass" /\ Len(q.argv) = 1 -> incomplete_command(q)

Turn(T, q, P) ==
  LET i == Branch(P.rows, Head(q.argv), IF P.seq THEN Top(q).at + 1 ELSE 1, q.env)
  IN  IF q.argv = <<>> THEN Leave(T, q)
      ELSE IF i = 0 THEN NoBranch(T, q, P.other)
      ELSE Choose(T, q, P.rows[i], i)

(***************************************************************************)
(* One argument: NEXT_ARG gives up if there is no further word, then the   *)
(* word is converted and stored.                                           *)
(***************************************************************************)
Store(env, f, v) ==
  IF v = "keep" THEN env ELSE [g \in f |-> v] @@ env

Accepts(a, env, w) ==
  /\ w \in DOMAIN a.conv \/ "*" \in DOMAIN a.conv
  /\ a.fam \in {"check", "learn"} => Get(env, "family") = "-" \/ Family(w) \in {"-", Get(env, "family")}

Convert(a, env, w) ==
  LET v   == IF w \in DOMAIN a.conv THEN a.conv[w] ELSE IF a.conv["*"] = "*" THEN w ELSE a.conv["*"]
      old == Get(env, CHOOSE f \in a.f : TRUE)
  IN  CASE a.how = "replace" -> v
        [] a.how = "or"      -> BitOr(old, v)
        [] a.how = "append"  -> IF old = "-" THEN v ELSE old \o v

Learn(env, a, w) ==
  IF a.fam \in {"learn", "set"} /\ Family(w) # "-" THEN ("family" :> Family(w)) @@ env ELSE env

\* Fault: an argument that may be missing is missing at the end of the line only.
TakeUnlessLast(T, q, row, a) ==
  IF q.argv = <<>>
  THEN IF a.opt THEN Go(T, [q EXCEPT !.stack[Len(q.stack)].arg = @ + 1], row) ELSE incomplete_command(q)
  ELSE IF Accepts(a, q.env, Head(q.argv))
  THEN Go(T, [q EXCEPT !.stack[Len(q.stack)].arg = @ + 1, !.argv = Tail(@),
                       !.env = Store(Learn(@, a, Head(q.argv)), a.f, Convert(a, @, Head(q.argv)))],
          row)
  ELSE Refuse(T, q)

Take(T, q, row, a) ==
  IF q.argv # <<>> /\ Accepts(a, q.env, Head(q.argv))
  THEN Go(T, [q EXCEPT !.stack[Len(q.stack)].arg = @ + 1, !.argv = Tail(@),
                       !.env = Store(Learn(@, a, Head(q.argv)), a.f, Convert(a, @, Head(q.argv)))],
          row)
  ELSE IF a.opt THEN Go(T, [q EXCEPT !.stack[Len(q.stack)].arg = @ + 1], row)
  ELSE IF q.argv = <<>> THEN incomplete_command(q)
  ELSE Refuse(T, q)

Advance(T, q) ==
  CASE q.st # "parse"   -> q
    [] Top(q).arg = 0   -> Turn(T, q, ParserOf(T, q))
    [] OTHER            -> Take(T, q, BranchOf(T, q), BranchOf(T, q).args[Top(q).arg])

Done == proc # <<>> /\ \A n \in DOMAIN proc : proc[n].st # "parse"

(***************************************************************************)
(* The experiments: every parser with every two of its options.            *)
(***************************************************************************)
Words1 == {"2", "w4", "v6", "eth1"}   \* not used by the first option
Words2 == {"1", "v4", "eth0"}         \* not used by the second

WordsOf(a, k) ==
  LET all  == (DOMAIN a.conv \ {"*"}) \cup (IF "*" \in DOMAIN a.conv THEN {"w1", "w2"} ELSE {})
      some == all \ (IF k = 1 THEN Words1 \cup {"w2"} ELSE Words2 \cup {"w1"})
      words == IF some = {} THEN all ELSE IF a.opt THEN some \ {"0"} ELSE some
  IN  IF k = 1 /\ words # {} THEN {CHOOSE w \in words : TRUE} ELSE words

\* The words of a branch; an optional one may be missing anywhere.
ArgLists(row, k) ==
  LET S == [i \in DOMAIN row.args |-> WordsOf(row.args[i], k) \cup (IF row.args[i].opt THEN {""} ELSE {})]
  IN  {SelectSeq(s, LAMBDA w : w # "") :
          s \in {t \in [DOMAIN S -> UNION Range(S)] : \A i \in DOMAIN S : t[i] \in S[i]}}

Called(row) == IF row.then \in {"loop", "break", "refuse"} THEN {} ELSE {row.then}

\* The words the called parser needs.
SubLine(B, row) == FlattenSeq([i \in 1 .. Cardinality(Called(row)) |-> FlattenSeq(B[row.then])])

\* One spelling of the first option, every spelling of the second.
Keywords(row, k) ==
  LET all == {kw[2] : kw \in row.kw}
  IN  IF all = {} THEN {""} ELSE IF k = 1 THEN {CHOOSE w \in all : TRUE} ELSE all

Written(o) == (IF o.kw = "" THEN <<>> ELSE <<o.kw>>) \o o.rest

\* The fields a branch may assign, and the parsers it calls.
RECURSIVE Touches(_, _)
Touches(T, row) ==
  FieldsOf(row) \cup UNION {UNION {Touches(T, r) : r \in Range(T[p].rows)} : p \in Called(row)}

\* An option: its branch, how it is written, and the fields it may assign.
Options(T, B, p, k) ==
  UNION {{[row |-> i, kw |-> w, rest |-> s \o SubLine(B, T[p].rows[i]),
           all |-> Touches(T, T[p].rows[i])] :
             w \in Keywords(T[p].rows[i], k), s \in ArgLists(T[p].rows[i], k)} :
         i \in {j \in DOMAIN T[p].rows : T[p].rows[j].then # "refuse"}}

\* The options of the base line, alike.
BaseOptions(T, B, p) ==
  LET RowOf(words) == SelectInSeq(T[p].rows, LAMBDA row : Recognises(row, Head(words)))
  IN  [i \in DOMAIN B[p] |-> [row |-> RowOf(B[p][i]), words |-> B[p][i],
                              all |-> Touches(T, T[p].rows[RowOf(B[p][i])])]]

AllOptions(T, B) ==
  [p \in Commands |-> [first |-> Options(T, B, p, 1), second |-> Options(T, B, p, 2), base |-> BaseOptions(T, B, p)]]

Experiments == AllOptions(Parsers, Base)

\* The words of those that have no branch and no field in common with the given ones.
Others(line, S, used) ==
  LET free == SelectSeq(line, LAMBDA o : o.row \notin S /\ o.all \cap used = {})
  IN  FlattenSeq([i \in DOMAIN free |-> free[i].words])

Lines(base, i1, i2) ==
  LET rest == Others(base, {i1.row, i2.row}, i1.all \cup i2.all)
  IN  [both    |-> Written(i1) \o Written(i2) \o rest,
       swapped |-> Written(i2) \o Written(i1) \o rest]

ArgInit ==
  /\ \E p \in Commands : \E i1 \in Experiments[p].first :
       exp = [parser |-> p, i1 |-> i1, i2 |-> i1, luck |-> TRUE]
  /\ proc = <<>>

\* The second option is chosen and the processes start.  That the arithmetic or a system call
\* fails is tried with every option, given twice.
Begins(T, p, options) ==
  \E i2 \in options.second, luck \in BOOLEAN :
     LET lines == Lines(options.base, exp.i1, i2)
     IN  /\ luck \/ (T[p].fails /\ i2.row = exp.i1.row)
         /\ exp' = [exp EXCEPT !.i2 = i2, !.luck = luck]
         /\ proc' = [n \in DOMAIN lines |-> Begin(T, p, lines[n])]

Start ==
  /\ proc = <<>>
  /\ Begins(Parsers, exp.parser, Experiments[exp.parser])

Read ==
  /\ proc # <<>> /\ ~Done
  /\ proc' = [n \in DOMAIN proc |-> Advance(Parsers, proc[n])]
  /\ exp' = exp

ArgNext == Start \/ Read

ArgSpec == ArgInit /\ [][ArgNext]_argVars /\ WF_argVars(ArgNext)

-----------------------------------------------------------------------------
Accepted(n) == proc[n].st = "accept"

\* The fields that make it into the request, of those that were assigned.
Sent(P, env) ==
  {f \in DOMAIN env : \A d \in P.drops : f \in d.field => \E g \in d.with : Truth(env, g)}

\* What a line amounts to: the request, if there is one.
Outcome(P, n) ==
  [ok |-> Accepted(n), request |-> IF Accepted(n) THEN Restrict(proc[n].env, Sent(P, proc[n].env)) ELSE <<>>]

SameOutcome(P, m, n) == Outcome(P, m) = Outcome(P, n)

(***************************************************************************)
(* A keyword that is written in full is never taken for another one: no    *)
(* branch that is tried earlier accepts it as an abbreviation of its own   *)
(* keyword (the order of the matches() calls in every loop).               *)
(***************************************************************************)
TakenAsWritten(P, i) ==
  \A w \in {k[2] : k \in P.rows[i].kw} :
     LET Takes(r) == Spelled(r, w) \/ (r.pos /\ r.only = {})
     IN  \E k \in P.rows[SelectInSeq(P.rows, Takes)].kw : k[2] = w

KeywordTaken(P) == P.seq \/ TakenAsWritten(P, exp.i1.row)

OwnKeyword == proc = <<>> => KeywordTaken(Parsers[exp.parser])

\* A parser that the branch calls would read the keyword as well.
RECURSIVE ReadsOn(_, _, _)
ReadsOn(T, row, w) ==
  \E p \in Called(row) :
     \/ T[p].other # "break" /\ ~T[p].seq
     \/ \E r \in Range(T[p].rows) : Recognises(r, w) \/ ReadsOn(T, r, w)

Swallows(T, P, o, other) == ReadsOn(T, P.rows[o.row], other.kw)

\* Whether the branch of option o is considered depends on a field of the other one.
Conditional(P, o, other) ==
  \E row \in Range(P.rows) :
     Recognises(row, o.kw) /\ row.only \cap (other.all \cup P.rows[other.row].raise) # {}

\* The branch of option o looks at a field of the other one, or ends the loop.
Refers(P, o, other) ==
  LET row == P.rows[o.row]
      compared == UNION {{c.f, c.g} : c \in {d \in row.checks : d.op # "needs"}}
  IN  \/ (other.all \cup P.rows[other.row].raise) \cap (row.once \cup row.need \cup compared) # {}
      \/ Conditional(P, o, other)
      \/ row.then = "break"

Unrelated(T, P) ==
  /\ exp.i1.all \cap exp.i2.all = {} /\ ~P.seq
  /\ ~Refers(P, exp.i1, exp.i2) /\ ~Swallows(T, P, exp.i1, exp.i2)
  /\ ~Refers(P, exp.i2, exp.i1) /\ ~Swallows(T, P, exp.i2, exp.i1)

(***************************************************************************)
(* Two options that assign different fields may be given in either order:  *)
(* the line is accepted or refused alike and makes the same request.       *)
(***************************************************************************)
SameInBothOrders(T) ==
  LET P == T[exp.parser] IN Unrelated(T, P) => SameOutcome(P, "both", "swapped")

OrderIrrelevant == Done => SameInBothOrders(Parsers)
=============================================================================
