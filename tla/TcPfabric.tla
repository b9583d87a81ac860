------------------------------ MODULE TcPfabric ------------------------------
(***************************************************************************)
(* The pfabric options of the tc command (iproute2/tc/q_pfabric.c): the    *)
(* loop of pfabric_parse_opt over the words that follow "pfabric", up to   *)
(* the message that tc sends to the kernel.                                *)
(*                                                                         *)
(* A word is known by what the parser can find out about it: the keyword   *)
(* that matches() finds it to be or to abbreviate, and the unsigned number *)
(* that get_size makes of it.  No word is both.  The options always fit    *)
(* the message, so addattr_l does not fail.                                *)
(***************************************************************************)
EXTENDS Integers, Sequences, FiniteSetsExt

CONSTANTS DEFAULT_PACKET_BUFFER_LIMIT,
          Sizes,     \* the sizes the user may write
          MaxWords,  \* bound on the length of the command line
          NoSize     \* what get_size fails on

ASSUME TcAssumption ==
  /\ DEFAULT_PACKET_BUFFER_LIMIT \in Nat
  /\ Sizes \subseteq Nat
  /\ NoSize \notin Sizes
  /\ MaxWords \in Nat

Keyword(k) == [keyword |-> k, size |-> NoSize]
Number(n)  == [keyword |-> "none", size |-> n]
OtherWord  == [keyword |-> "none", size |-> NoSize]

Keywords == {"limit", "disable_dequeue", "enable_dequeue"}

Words == {Keyword(k) : k \in Keywords} \cup {Number(n) : n \in Sizes} \cup {OtherWord}

Lines == UNION {[1 .. n -> Words] : n \in 0 .. MaxWords}

VARIABLES line,    \* the words after "pfabric"
          argv,    \* the place in line that argv points to
          opt,     \* the tc_pfabric_qopt under construction
          status   \* "parsing", "sent" (to the kernel) or an error

tcVars == <<line, argv, opt, status>>

Errors == {"incomplete", "illegal", "unknown"}

TcInit ==
  /\ line \in Lines
  /\ argv = 1
  /\ opt = [limit |-> DEFAULT_PACKET_BUFFER_LIMIT, disable_dequeue |-> FALSE]
  /\ status = "parsing"

argc == Len(line) + 1 - argv

At(k) == status = "parsing" /\ argc > 0 /\ line[argv].keyword = k

(***************************************************************************)
(* NEXT_ARG moves on to the next word or, if there is none, exits.  The    *)
(* loop then moves on once more.                                           *)
(***************************************************************************)
NextArg(result) ==
  IF argc = 1 THEN "incomplete" ELSE result

\* Fault: the step of the loop is missing.
AdvanceNot == UNCHANGED argv

\* Fault: the pointer moves past the end before the command is given up.
AdvanceAlways == argv' = argv + 2

Advance ==
  argv' = IF status' = "parsing" THEN argv + 2 ELSE argv

ParseLimit ==
  /\ At("limit")
  /\ status' = NextArg(IF line[argv + 1].size = NoSize THEN "illegal" ELSE "parsing")
  /\ opt' = IF status' = "parsing" THEN [opt EXCEPT !.limit = line[argv + 1].size] ELSE opt
  /\ Advance
  /\ UNCHANGED line

ParseFlag(k, flag) ==
  /\ At(k)
  /\ status' = NextArg("parsing")
  /\ opt' = IF status' = "parsing" THEN [opt EXCEPT !.disable_dequeue = flag] ELSE opt
  /\ Advance
  /\ UNCHANGED line

Unknown ==
  /\ At("none")
  /\ status' = "unknown"
  /\ UNCHANGED <<line, argv, opt>>

\* Fault: the loop stops at the last word, as if it had been read.
SendEarly ==
  /\ status = "parsing"
  /\ argc <= 1
  /\ status' = "sent"
  /\ UNCHANGED <<line, argv, opt>>

Send ==
  /\ status = "parsing"
  /\ argc <= 0
  /\ status' = "sent"
  /\ UNCHANGED <<line, argv, opt>>

pfabric_parse_opt ==
  \/ ParseLimit
  \/ ParseFlag("disable_dequeue", TRUE)
  \/ ParseFlag("enable_dequeue", FALSE)
  \/ Unknown
  \/ Send

TcSpec == TcInit /\ [][pfabric_parse_opt]_tcVars /\ WF_tcVars(pfabric_parse_opt)
-----------------------------------------------------------------------------
(***************************************************************************)
(* The lines that the usage text of explain() shows, and what they say:    *)
(* limit with a number of packets, and the two flags, which stand alone;   *)
(* each of them at most once, in any order.                                *)
(***************************************************************************)
Mentions(k) == {i \in 1 .. Len(line) : line[i].keyword = k}

Documented ==
  /\ \A i \in Mentions("limit") : i < Len(line) /\ line[i + 1].size # NoSize
  /\ \A i \in Mentions("none") : i - 1 \in Mentions("limit")
  /\ \A k \in Keywords : \A i, j \in Mentions(k) : i = j

Says(o) ==
  /\ o.limit = IF Mentions("limit") = {} THEN DEFAULT_PACKET_BUFFER_LIMIT
               ELSE line[Max(Mentions("limit")) + 1].size
  /\ o.disable_dequeue <=>
       \E i \in Mentions("disable_dequeue") : \A j \in Mentions("enable_dequeue") : j < i

(***************************************************************************)
(* What a line means to this parser: pairs of a keyword and a word, where  *)
(* the word after a flag is not looked at, and the last mention wins.      *)
(***************************************************************************)
Places(k, n) == {i \in 1 .. n : i % 2 = 1 /\ line[i].keyword = k}

Flags(n) == Places("disable_dequeue", n) \cup Places("enable_dequeue", n)

WellFormed ==
  /\ Len(line) % 2 = 0
  /\ \A i \in 1 .. Len(line) : i % 2 = 1 =>
       /\ line[i].keyword \in Keywords
       /\ line[i].keyword = "limit" => line[i + 1].size # NoSize

Means(o, n) ==
  /\ o.limit = IF Places("limit", n) = {} THEN DEFAULT_PACKET_BUFFER_LIMIT
               ELSE line[Max(Places("limit", n)) + 1].size
  /\ o.disable_dequeue <=>
       Flags(n) # {} /\ line[Max(Flags(n))].keyword = "disable_dequeue"

(***************************************************************************)
(* argv never points more than one place past the last word, and the       *)
(* limit is the default or a number that get_size has read.                *)
(***************************************************************************)
TcTypeOK ==
  /\ line \in Seq(Words)
  /\ argv \in 1 .. Len(line) + 1
  /\ opt \in [limit : {DEFAULT_PACKET_BUFFER_LIMIT} \cup Sizes, disable_dequeue : BOOLEAN]
  /\ status \in {"parsing", "sent"} \cup Errors

(***************************************************************************)
(* pfabric_parse_opt sends options to the kernel for the lines that are    *)
(* well formed to it only, and they are the ones the line means to it: in  *)
(* particular a limit is never the default once one was given, and no word *)
(* is taken for the argument of a keyword it does not follow.  This is not *)
(* the usage text, for it wants a word after each flag; but a line of the  *)
(* usage text without a flag is read as it says.                           *)
(***************************************************************************)
ParseCorrect ==
  /\ status = "sent" => WellFormed /\ Means(opt, Len(line))
  /\ status \in Errors => ~ WellFormed
  /\ Documented /\ Mentions("disable_dequeue") \cup Mentions("enable_dequeue") = {} =>
       status \notin Errors /\ (status = "sent" => Says(opt))

(***************************************************************************)
(* The usage text of q_pfabric.c holds: a line that it shows is sent, with *)
(* the options that it says.  pfabric_parse_opt breaks this, for it takes  *)
(* one more word after disable_dequeue and enable_dequeue.                 *)
(***************************************************************************)
UsageHolds ==
  Documented /\ status # "parsing" => status = "sent" /\ Says(opt)

(***************************************************************************)
(* The loop ends for every line.                                           *)
(***************************************************************************)
ParseEnds == <>(status # "parsing")
=============================================================================
