----------------------------- MODULE PrioBuffer -----------------------------
(***************************************************************************)
(* What the pFabric qdisc promises its users, without bitmap, counters,    *)
(* limit or locking: a buffer of packets in priority classes, class 0 the  *)
(* most urgent.  A packet enters at most once; what leaves for the wire is *)
(* the oldest packet of the most urgent class that has one; and a packet   *)
(* is lost only if it has no class, if it is the oldest of the least       *)
(* urgent class when another one is taken in, if all that is buffered is   *)
(* at least as urgent, or if the buffer is flushed.                        *)
(*                                                                         *)
(* The specification leaves open when packets are lost and promises no     *)
(* delivery: the code keeps neither its limit nor its progress in every    *)
(* behaviour (see the README).                                             *)
(***************************************************************************)
EXTENDS Integers, Sequences

CONSTANTS Classes,  \* the priority classes
          Packets   \* records with at least the field priority

VARIABLES buf,      \* the packets of each class, oldest first
          sent,     \* packets handed to the wire
          lost      \* packets dropped

pbVars == <<buf, sent, lost>>

Empty == [c \in Classes |-> <<>>]

Holds(b) == UNION {{b[c][i] : i \in DOMAIN b[c]} : c \in Classes}

Fresh(p) == p \notin Holds(buf) \cup sent \cup lost

Put(p) == [buf EXCEPT ![p.priority] = Append(@, p)]

PBInit == buf = Empty /\ sent = {} /\ lost = {}

Refuse(p) ==
  /\ UNCHANGED <<buf, sent>>
  /\ lost' = lost \cup {p}
  /\ Fresh(p)
  /\ p.priority \in Classes => \A q \in Holds(buf) : q.priority <= p.priority

Accept(p) ==
  /\ UNCHANGED <<sent, lost>>
  /\ p.priority \in Classes
  /\ buf' = Put(p)
  /\ Fresh(p)

AcceptEvict(p) ==
  /\ UNCHANGED sent
  /\ p.priority \in Classes
  /\ Fresh(p)
  /\ \E c \in Classes :
       /\ Put(p)[c] # <<>>
       /\ \A d \in Classes : Put(p)[d] # <<>> => d <= c
       /\ buf' = [Put(p) EXCEPT ![c] = Tail(@)]
       /\ lost' = lost \cup {Head(Put(p)[c])}

Deliver ==
  /\ \E c \in Classes :
       /\ buf[c] # <<>>
       /\ \A d \in Classes : buf[d] # <<>> => c <= d
       /\ buf' = [buf EXCEPT ![c] = Tail(@)]
       /\ sent' = sent \cup {Head(buf[c])}
  /\ UNCHANGED lost

Flush ==
  /\ buf' = Empty
  /\ lost' = lost \cup Holds(buf)
  /\ UNCHANGED sent

\* A packet that arrives is buffered or lost afterwards.
Arrival ==
  /\ UNCHANGED sent
  /\ buf' # buf \/ lost' # lost
  /\ \E p \in (Holds(buf') \cup lost') \cap Packets : Refuse(p) \/ Accept(p) \/ AcceptEvict(p)

PBNext == Arrival \/ Deliver \/ Flush

PBSpec == PBInit /\ [][PBNext]_pbVars
=============================================================================
