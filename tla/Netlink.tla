------------------------------- MODULE Netlink -------------------------------
(***************************************************************************)
(* The netlink socket of iproute2 (src/iproute2/lib/libnetlink.c) and, as  *)
(* external code, the kernel's end of it: a table of addresses, neighbours *)
(* or routes that can be dumped and from which entries can be deleted.     *)
(*                                                                         *)
(* The kernel carries out a request while it is sent.  A dump is produced  *)
(* datagram by datagram: the first one at the request, each further one    *)
(* when the program has received the one before.  The kernel remembers how *)
(* many entries it has dumped, so a deletion in between shifts the others, *)
(* and some are passed over.                                               *)
(***************************************************************************)
EXTENDS Naturals, Sequences, FiniteSets, FiniteSetsExt

CONSTANTS Subnet,    \* for each entry, its subnet; the first address of a subnet is primary
          DumpSize,  \* how many entries the kernel puts into a datagram
          SeqLimit     \* sequence numbers are counted modulo this

VARIABLES table,     \* the kernel's entries, in the order in which they are dumped
          promote,   \* the sysctl promote_secondaries
          pos,       \* how many entries the dump in progress has passed
          queue,     \* the datagrams that wait in the socket
          overrun,   \* a datagram did not fit: the next recv returns ENOBUFS
          rth        \* the handle: the last sequence number, and that of the last dump

ASSUME NetlinkAssumption ==
  DumpSize \in Nat \ {0} /\ SeqLimit \in Nat \ {0}

sockVars == <<table, promote, pos, queue, overrun, rth>>

Entries == DOMAIN Subnet

Entry(id, secondary) == [id |-> id, secondary |-> secondary]

EntryType == [id : Entries, secondary : BOOLEAN]

\* No entry occurs twice, and the primary ones come first: the list that the kernel keeps for
\* one device.  Entries of other devices, whose lists a dump shows before or after it, are
\* skipped by the filter and stand in it as primary ones.
Before(x, y) == x.id # y.id /\ (x.secondary => y.secondary)

IsTable(t) ==
  /\ t \in Seq(EntryType)
  /\ \A i, j \in DOMAIN t : i < j => Before(t[i], t[j])

Positions(t, id) == {i \in DOMAIN t : t[i].id = id}

\* What a sequence has at the given positions, in order.
Kept(t, positions) ==
  LET upto[i \in 0 .. Len(t)] ==
        IF i = 0 THEN <<>>
        ELSE IF i \in positions THEN Append(upto[i - 1], t[i])
        ELSE upto[i - 1]
  IN  upto[Len(t)]

Primaries(t)   == Kept(t, {i \in DOMAIN t : ~t[i].secondary})
Secondaries(t) == Kept(t, {i \in DOMAIN t : t[i].secondary})

(***************************************************************************)
(* The kernel deletes an address.  With a primary one its secondaries go   *)
(* too, or the first of them takes its place, behind the other primaries.  *)
(***************************************************************************)
Remaining(t, id, prom) ==
  LET rest  == DOMAIN t \ Positions(t, id)
      heirs == {i \in rest : t[i].secondary /\ Subnet[t[i].id] = Subnet[id]}
      primaries == {i \in rest : ~t[i].secondary}
  IN  IF heirs = {} \/ \E i \in Positions(t, id) : t[i].secondary THEN Kept(t, rest)
      ELSE IF ~prom THEN Kept(t, rest \ heirs)
      ELSE Kept(t, primaries) \o <<Entry(t[Min(heirs)].id, FALSE)>> \o Kept(t, rest \ (primaries \cup {Min(heirs)}))

\* The requests of one buffer, in order.  One for an entry that is not there is answered by an error.
Delete(state, request) ==
  IF Positions(state.table, request.id) = {}
  THEN [state EXCEPT !.errors = Append(@, [type |-> "ERROR", seq |-> request.seq, msgs |-> <<>>])]
  ELSE [state EXCEPT !.table = Remaining(@, request.id, promote)]

DumpDatagram(t, p, s) ==
  IF p >= Len(t) THEN [type |-> "DONE", seq |-> s, msgs |-> <<>>]
  ELSE [type |-> "NEW", seq |-> s, msgs |-> SubSeq(t, p + 1, IF p + DumpSize < Len(t) THEN p + DumpSize ELSE Len(t))]

-----------------------------------------------------------------------------
NextSeq(s) == (s + 1) % SeqLimit

(***************************************************************************)
(* A dump is requested; the kernel may refuse it.                          *)
(***************************************************************************)
rtnl_wilddump_request(granted) ==
  LET s == NextSeq(rth.seq)
  IN  /\ rth' = [seq |-> s, dump |-> s]
      /\ pos' = 0
      /\ queue' = Append(queue, IF granted THEN DumpDatagram(table, 0, s)
                                ELSE [type |-> "ERROR", seq |-> s, msgs |-> <<>>])
      /\ UNCHANGED <<table, promote, overrun>>

(***************************************************************************)
(* recvmsg: the datagram at the head.  When it is part of a dump, the      *)
(* kernel produces the next one, if there is room for it.                  *)
(***************************************************************************)
recvmsg(fits) ==
  LET d == Head(queue)
      next == pos + Len(d.msgs)
  IN  /\ queue # <<>> /\ ~overrun
      /\ fits \/ d.type = "NEW"
      /\ pos' = next
      /\ queue' = IF d.type = "NEW" /\ fits THEN Append(Tail(queue), DumpDatagram(table, next, d.seq))
                  ELSE Tail(queue)
      /\ overrun' = ~fits
      /\ UNCHANGED <<table, promote, rth>>

\* recvmsg returns ENOBUFS once.
recvmsg_fails == overrun /\ overrun' = FALSE /\ UNCHANGED <<table, promote, pos, queue, rth>>

\* The messages of a datagram that rtnl_dump_filter_l passes on: those of its own dump.
Own(d) == IF d.seq = rth.dump THEN d.msgs ELSE <<>>

Ends(d, type) == d.seq = rth.dump /\ d.type = type

(***************************************************************************)
(* rtnl_send_check: the requests are sent, and an error that waits at the  *)
(* head of the socket by then is taken for theirs.  An answer is lost when *)
(* there is no room for it.                                                *)
(***************************************************************************)
Sent(requests) ==
  LET after[n \in 0 .. Len(requests)] ==
        IF n = 0 THEN [table |-> table, errors |-> <<>>]
        ELSE Delete(after[n - 1], requests[n])
  IN  after[Len(requests)]

rtnl_send_check(requests, fits) ==
  /\ fits \/ Sent(requests).errors # <<>>
  /\ table' = Sent(requests).table
  /\ queue' = IF fits THEN queue \o Sent(requests).errors ELSE queue
  /\ overrun' = FALSE
  /\ UNCHANGED <<promote, pos>>

SendFails(requests, fits) ==
  LET q == queue \o Sent(requests).errors
  IN  overrun \/ ~fits \/ (q # <<>> /\ Head(q).type = "ERROR")

(***************************************************************************)
(* rtnl_talk: a request of its own, which the kernel carries out or        *)
(* refuses, and the wait for the answer that has its sequence number.      *)
(***************************************************************************)
rtnl_talk_send(type, fits) ==
  /\ rth' = [rth EXCEPT !.seq = NextSeq(@)]
  /\ queue' = IF fits THEN Append(queue, [type |-> type, seq |-> rth'.seq, msgs |-> <<>>]) ELSE queue
  /\ overrun' = ~fits
  /\ UNCHANGED <<table, promote, pos>>

\* Fault: whatever answer comes first is taken.
AnswersAny(d) == d.type \in {"ACK", "ERROR"}

Answers(d) == d.seq = rth.seq /\ d.type \in {"ACK", "ERROR"}

=============================================================================
