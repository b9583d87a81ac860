-------------------------- MODULE FlushCover_proofs --------------------------
(***************************************************************************)
(* What a flush of ip does to the kernel's table: one of primary addresses *)
(* asks for no promoted one (PromotedKept), and what a complete one leaves *)
(* (FlushComplete).                                                        *)
(***************************************************************************)
EXTENDS Flush_proofs

\* A leaf is tried with SMT, then with Zenon, then with SMT and more time.
USE SMT, Zenon, SMTT(30)

(***************************************************************************)
(* The dump of a flush of primary addresses, as long as nothing has        *)
(* changed the table: it shows the table as it was at the beginning.       *)
(***************************************************************************)
Asked == {hist.asked[i].entry : i \in DOMAIN hist.asked}

Pristine == cmd.select = "primary" /\ ~hist.early /\ hist.deleted = 0 /\ hist.added = {}

Shows(q, w, t) == (\A i \in DOMAIN q : Range(q[i].msgs) \subseteq Range(t)) /\ Range(w) \subseteq Range(t)

PromotedInv ==
  Pristine =>
     /\ InFlush => table = hist.start
     /\ pc = "dump" => Shows(queue, work, hist.start)
     /\ \A e \in Asked : e \in Range(hist.start) /\ ~e.secondary

LEMMA PromotedInit ==
  ASSUME FlushInit
  PROVE  PromotedInv
<1>1. hist.start = table /\ hist.asked = <<>> /\ pc = "request"
  BY DEF FlushInit, HistInit
<1>2. Asked = {}
  BY <1>1 DEF Asked
<1> QED BY <1>1, <1>2 DEF PromotedInv

LEMMA AskedNext ==
  ASSUME FlushTypeOK, NEW e, hist'.asked = Recorded(e)
  PROVE  Asked' = Asked \cup {e}
<1> DEFINE r == [entry |-> e, from |-> hist.datagrams]
<1>0. hist.asked \in Seq([entry : EntryType, from : Nat])
  BY DEF FlushTypeOK, HistType
<1>1. hist'.asked = Append(hist.asked, r) /\ r.entry = e
  BY DEF Recorded
<1> HIDE DEF r
<1>2. /\ Len(hist.asked) \in Nat /\ DOMAIN hist.asked = 1 .. Len(hist.asked)
      /\ DOMAIN hist'.asked = 1 .. Len(hist.asked) + 1
      /\ \A i \in 1 .. Len(hist.asked) : hist'.asked[i] = hist.asked[i]
      /\ hist'.asked[Len(hist.asked) + 1] = r
  BY <1>0, <1>1
<1>3. \A i \in DOMAIN hist'.asked : i \in DOMAIN hist.asked \/ i = Len(hist.asked) + 1
  BY <1>2
<1>4. \A i \in DOMAIN hist.asked : i \in DOMAIN hist'.asked
  BY <1>2
<1>5. Len(hist.asked) + 1 \in DOMAIN hist'.asked
  BY <1>2
<1> QED BY <1>1, <1>2, <1>3, <1>4, <1>5 DEF Asked

(***************************************************************************)
(* What a step of the dump loop receives: the next datagram of the dump,   *)
(* with only errors behind it; the end of the dump; or an error, which is  *)
(* passed over unless it ends the command.                                 *)
(***************************************************************************)
NoDump(q) == \A i \in DOMAIN q : ~IsDump(q[i])

ReceivesNew(d) ==
  /\ d.type = "NEW" /\ pc' = "dump" /\ NoDump(Tail(queue)) /\ Range(work') = Range(Own(d))
  /\ queue' \in {Tail(queue), Append(Tail(queue), DumpDatagram(table, pos + Len(d.msgs), d.seq))}

ReceivesOther(d) ==
  /\ d.type # "NEW" /\ d.msgs = <<>> /\ queue' = Tail(queue) /\ work' = <<>> /\ pos' = pos
  /\ \/ pc' = "dump" /\ ~Ends(d, "DONE")
     \/ pc' = "update" /\ Ends(d, "DONE")

LEMMA ReceiveShape ==
  ASSUME FlushTypeOK, AnswerInv, NEW ok \in BOOLEAN, Receive(ok), pc' # "exited"
  PROVE  \E d \in DatagramType : /\ queue # <<>> /\ d = Head(queue) /\ pos' = pos + Len(d.msgs)
                                 /\ ReceivesNew(d) \/ ReceivesOther(d)
<1> DEFINE d == Head(queue)
<1>t. SockTypeOK /\ queue \in Seq(DatagramType)
  BY DEF FlushTypeOK, SockTypeOK
<1>0. /\ pc = "dump" /\ work = <<>> /\ Len(work) = 0 /\ recvmsg(ok) /\ work' = Filtered(Own(d))
      /\ \/ ~Ends(d, "DONE") /\ ~Ends(d, "ERROR") /\ pc' = pc
         \/ Ends(d, "DONE") /\ pc' = "update"
  BY DEF Receive, exits
<1>1. /\ d \in DatagramType /\ queue # <<>>
      /\ queue' \in {Tail(queue), Append(Tail(queue), DumpDatagram(table, pos + Len(d.msgs), d.seq))}
      /\ d.type # "NEW" => queue' = Tail(queue)
  BY <1>t, <1>0, RecvSock
<1>2. pos' = pos + Len(d.msgs) /\ pos \in Nat
  BY <1>t, <1>0 DEF recvmsg, SockTypeOK
<1>3. IsDump(d) => NoDump(Tail(queue))
  <2>1. Waiting(queue, rth.seq, Far(Len(work)), Near(Len(work)))
    BY <1>0 DEF AnswerInv
  <2>2. IsDump(d) => Errors(Tail(queue), rth.seq, Near(Len(work)))
    BY <1>t, <1>1, <2>1, WaitingTail
  <2> QED BY <2>2 DEF Errors, IsError, NoDump, IsDump
<1>4. Own(d) \in Seq(EntryType) /\ (d.type # "NEW" => d.msgs = <<>> /\ Own(d) = <<>>)
  BY <1>1 DEF Own, DatagramType
<1>5. work' \in Seq(EntryType) /\ Range(work') = Range(Own(d))
  <2> HIDE DEF d
  <2> QED BY <1>0, <1>4, FilteredShape
<1>6. Own(d) = <<>> => work' = <<>>
  BY <1>4, <1>5, MemberType
<1>7. CASE d.type = "NEW"
  <2>1. pc' = "dump" /\ NoDump(Tail(queue))
    BY <1>0, <1>3, <1>7 DEF Ends, IsDump
  <2> QED BY <1>1, <1>2, <1>5, <1>7, <2>1 DEF ReceivesNew
<1>8. CASE d.type # "NEW"
  <2>1. d.msgs = <<>> /\ work' = <<>> /\ queue' = Tail(queue) /\ pos' = pos
    BY <1>1, <1>2, <1>4, <1>6, <1>8
  <2> QED BY <1>0, <1>1, <1>2, <1>8, <2>1 DEF ReceivesOther
<1> QED BY <1>7, <1>8

LEMMA PromotedNext ==
  ASSUME FlushTypeOK, AnswerInv, PromotedInv, [FlushNext]_flushVars
  PROVE  PromotedInv'
<1> SUFFICES ASSUME Pristine'
             PROVE  /\ InFlush' => table' = hist'.start
                    /\ (pc' = "dump") => Shows(queue', work', hist'.start)
                    /\ \A e \in Asked' : e \in Range(hist'.start) /\ ~e.secondary
  BY DEF PromotedInv
<1>h. cmd' = cmd /\ hist'.start = hist.start
  BY HistNext
<1>t. /\ hist \in HistType /\ table \in Seq(EntryType) /\ queue \in Seq(DatagramType) /\ work \in Seq(EntryType)
      /\ pos \in Nat
  BY DEF FlushTypeOK, SockTypeOK
<1>k. cmd.select = "primary" /\ cmd.kind = "address"
  BY <1>h DEF Pristine, FlushTypeOK
<1>p. ASSUME hist'.early = hist.early, hist'.deleted = hist.deleted, hist'.added = hist.added
      PROVE  /\ InFlush => table = hist.start
             /\ pc = "dump" => Shows(queue, work, hist.start)
             /\ \A e \in Asked : e \in Range(hist.start) /\ ~e.secondary
  BY <1>h, <1>p DEF Pristine, PromotedInv
<1>a. ASSUME hist'.asked = hist.asked PROVE Asked' = Asked
  BY <1>a DEF Asked
<1>1. ASSUME NEW ok \in BOOLEAN, Request(ok)
      PROVE  /\ table' = hist'.start /\ Shows(queue', work', hist'.start)
             /\ \A e \in Asked' : e \in Range(hist'.start) /\ ~e.secondary
  <2> DEFINE s == NextSeq(rth.seq)
             d == IF ok THEN DumpDatagram(table, 0, s) ELSE [type |-> "ERROR", seq |-> s, msgs |-> <<>>]
  <2>1. /\ pc = "request" /\ queue' = Append(queue, d) /\ work' = work /\ table' = table
        /\ hist' = [hist EXCEPT !.asked = <<>>, !.datagrams = 0, !.shifted = FALSE, !.lost = @ \/ ~ok]
    BY <1>1 DEF Request, rtnl_wilddump_request
  <2>2. queue = <<>> /\ work = <<>> /\ InFlush
    BY <2>1 DEF AnswerInv, InFlush
  <2>3. hist'.early = hist.early /\ hist'.deleted = hist.deleted /\ hist'.added = hist.added /\ hist'.asked = <<>>
    BY <1>t, <2>1 DEF HistType
  <2>4. table = hist.start
    BY <1>p, <2>2, <2>3
  <2>5. Range(d.msgs) \subseteq Range(table)
    <3>1. Range(DumpDatagram(table, 0, s).msgs) \subseteq Range(table)
      BY <1>t, DumpShape, Zenon
    <3>2. Range(<<>>) = {}
      BY DEF Range
    <3> QED BY <3>1, <3>2
  <2> HIDE DEF d
  <2>6. DOMAIN queue' = {1} /\ queue'[1] = d /\ Range(work') = {} /\ Asked' = {}
    BY <2>1, <2>2, <2>3 DEF Range, Asked
  <2> QED BY <1>h, <2>1, <2>4, <2>5, <2>6 DEF Shows
<1>2. ASSUME NEW ok \in BOOLEAN, Receive(ok)
      PROVE  /\ table' = hist'.start /\ (pc' = "dump" => Shows(queue', work', hist'.start))
             /\ \A e \in Asked' : e \in Range(hist'.start) /\ ~e.secondary
  <2>1. /\ pc = "dump" /\ table' = table
        /\ hist'.early = hist.early /\ hist'.deleted = hist.deleted /\ hist'.added = hist.added
        /\ hist'.asked = hist.asked
    BY <1>t, <1>2, Zenon DEF Receive, recvmsg, recvmsg_fails, HistType
  <2>2. /\ table = hist.start /\ Asked' = Asked /\ Shows(queue, work, hist.start)
        /\ \A e \in Asked : e \in Range(hist.start) /\ ~e.secondary
    BY <1>p, <1>a, <2>1 DEF InFlush
  <2>3. ASSUME pc' = "dump" PROVE Shows(queue', work', table)
    <3>1. PICK d \in DatagramType : /\ queue # <<>> /\ d = Head(queue)
                                    /\ ReceivesNew(d) \/ ReceivesOther(d)
      BY <1>2, <2>3, ReceiveShape
    <3>2. /\ \A i \in DOMAIN Tail(queue) : i + 1 \in DOMAIN queue /\ Tail(queue)[i] = queue[i + 1]
          /\ 1 \in DOMAIN queue /\ d = queue[1]
          /\ Tail(queue) \in Seq(DatagramType)
      BY <1>t, <3>1
    <3>3. /\ Range(d.msgs) \subseteq Range(table)
          /\ \A i \in DOMAIN Tail(queue) : Range(Tail(queue)[i].msgs) \subseteq Range(table)
      BY <2>2, <3>2 DEF Shows
    <3>4. Range(<<>>) = {}
      BY DEF Range
    <3>5. Range(Own(d)) \subseteq Range(table)
      BY <3>3, <3>4 DEF Own
    <3>6. CASE queue' = Tail(queue) /\ Range(work') \subseteq Range(table)
      BY <3>3, <3>6 DEF Shows
    <3>7. CASE /\ queue' = Append(Tail(queue), DumpDatagram(table, pos + Len(d.msgs), d.seq))
               /\ Range(work') \subseteq Range(table)
      <4> DEFINE e == DumpDatagram(table, pos + Len(d.msgs), d.seq)
      <4>1. pos + Len(d.msgs) \in Nat
        BY <1>t DEF DatagramType
      <4>2. Range(e.msgs) \subseteq Range(table)
        BY <1>t, <4>1, DumpShape
      <4> HIDE DEF e
      <4>3. queue' = Append(Tail(queue), e)
        BY <3>7 DEF e
      <4>4. \A i \in DOMAIN queue' : queue'[i] = e \/ (i \in DOMAIN Tail(queue) /\ queue'[i] = Tail(queue)[i])
        BY <3>2, <4>3
      <4> QED BY <3>3, <3>7, <4>2, <4>4 DEF Shows
    <3> QED BY <3>1, <3>4, <3>5, <3>6, <3>7 DEF ReceivesNew, ReceivesOther
  <2> QED BY <1>h, <2>1, <2>2, <2>3
<1>3. ASSUME NEW ok \in BOOLEAN, FilterFull(ok) PROVE FALSE
  <2>1. hist'.early = TRUE
    BY <1>t, <1>3, Zenon DEF FilterFull, HistType
  <2> QED BY <2>1 DEF Pristine
<1>4. ASSUME NEW ok \in BOOLEAN, Update(ok)
      PROVE  pc' \in {"talk", "exited"} /\ \A e \in Asked' : e \in Range(hist'.start) /\ ~e.secondary
  <2>1. /\ hist'.early = hist.early /\ hist'.deleted = hist.deleted /\ hist'.added = hist.added
        /\ hist'.asked = hist.asked
    BY <1>t, <1>4 DEF Update, HistType
  <2>2. pc' = "talk"
    BY <1>k, <1>4 DEF Update, ipaddr_flush, SingleRound, returns
  <2> QED BY <1>h, <1>p, <1>a, <2>1, <2>2
<1>5. CASE FilterSkip
  <2>1. /\ pc = "dump" /\ pc' = pc /\ work # <<>> /\ work' = Tail(work)
        /\ queue' = queue /\ table' = table /\ hist' = hist
    BY <1>5 DEF FilterSkip, sockVars
  <2>2. Range(work') \subseteq Range(work)
    BY <1>t, <2>1, TailSet
  <2> QED BY <1>a, <1>p, <2>1, <2>2 DEF InFlush, Shows
<1>6. CASE FilterStore
  <2>1. /\ pc = "dump" /\ pc' = pc /\ work # <<>> /\ Put(Head(work)) /\ queue' = queue /\ table' = table
        /\ hist' = [hist EXCEPT !.asked = Recorded(Head(work))] /\ Selected(Head(work))
    BY <1>6 DEF FilterStore, Recorded
  <2>2. /\ hist'.early = hist.early /\ hist'.deleted = hist.deleted /\ hist'.added = hist.added
        /\ hist'.asked = Recorded(Head(work))
    BY <1>t, <2>1 DEF HistType
  <2>3. PICK e : e = Head(work)
    OBVIOUS
  <2>4. Asked' = Asked \cup {e}
    BY <2>2, <2>3, AskedNext
  <2>5. Range(work) = {e} \cup Range(work')
    BY <1>t, <2>1, <2>3, TailSet DEF Put
  <2>6. ~e.secondary
    BY <1>k, <2>1, <2>3 DEF Selected, print_addrinfo
  <2>7. InFlush
    BY <2>1 DEF InFlush
  <2> QED BY <1>h, <1>p, <2>1, <2>2, <2>4, <2>5, <2>6, <2>7 DEF Shows
<1>7. ASSUME NEW id \in Volatile, OtherAdds(id) PROVE FALSE
  <2>1. id \in hist'.added
    BY <1>t, <1>7 DEF OtherAdds, HistType
  <2> QED BY <2>1 DEF Pristine
<1>8. ASSUME NEW i \in DOMAIN table, OtherDeletes(i) PROVE FALSE
  <2>1. hist'.deleted = hist.deleted + 1 /\ hist.deleted \in Nat
    BY <1>t, <1>8 DEF OtherDeletes, HistType
  <2>2. hist'.deleted # 0
    BY <2>1
  <2> QED BY <2>2 DEF Pristine
<1>9. CASE hist' = hist /\ UNCHANGED <<table, queue, work, pc>>
  <2>1. InFlush' = InFlush
    BY <1>9 DEF InFlush
  <2> QED BY <1>9, <1>p, <1>a, <2>1
<1>10. CASE hist' = hist /\ pc' \in {"talk", "answer", "exited"}
  <2>1. ~InFlush' /\ pc' # "dump"
    BY <1>10 DEF InFlush
  <2> QED BY <1>10, <1>p, <1>a, <2>1
<1>11. ASSUME Tick \/ UNCHANGED flushVars PROVE hist' = hist /\ UNCHANGED <<table, queue, work, pc>>
  BY <1>11 DEF Tick, flushVars, sockVars
<1>12. ASSUME Complete \/ TalkReceive PROVE hist' = hist /\ pc' \in {"talk", "answer", "exited"}
  BY <1>12, Zenon DEF Complete, returns, TalkReceive, exits
<1>13. ASSUME NEW type \in {"ACK", "ERROR"}, NEW ok \in BOOLEAN, Talk(type, ok)
       PROVE  hist' = hist /\ pc' = "answer"
  BY <1>13 DEF Talk
<1>14. InFlush' <=> pc' \in {"request", "dump", "update"}
  BY DEF InFlush
<1> QED BY <1>1, <1>2, <1>3, <1>4, <1>5, <1>6, <1>7, <1>8, <1>9, <1>10, <1>11, <1>12, <1>13, <1>14
        DEF FlushNext, ClientStep

(***************************************************************************)
(* PromotedKept, for every table: a flush of primary addresses asks to     *)
(* delete none that was secondary when it began, although the kernel may   *)
(* promote some while its one buffer is carried out, because the loop of   *)
(* ipaddr_flush is left after the first round.                             *)
(***************************************************************************)
THEOREM Promoted == FlushSpec => []PromotedKept
<1> DEFINE Inv == FlushTypeOK /\ AnswerInv /\ PromotedInv
<1>1. FlushInit => Inv
  BY FlushTypeInit, AnswerInit, PromotedInit
<1>2. Inv /\ [FlushNext]_flushVars => Inv'
  BY FlushTypeNext, AnswerNext, PromotedNext
<1>3. Inv => PromotedKept
  <2> SUFFICES ASSUME Inv, Pristine, NEW n \in DOMAIN hist.asked PROVE ~WasSecondary(hist.asked[n].entry.id)
    BY DEF PromotedKept, Pristine
  <2> DEFINE e == hist.asked[n].entry
  <2>1. e \in Range(hist.start) /\ ~e.secondary
    BY DEF PromotedInv, Asked
  <2>2. IsTable(hist.start)
    BY DEF FlushTypeOK, HistType
  <2> HIDE DEF e
  <2>3. PICK j \in DOMAIN hist.start : e = hist.start[j]
    BY <2>1 DEF Range
  <2>4. ASSUME NEW i \in DOMAIN hist.start, hist.start[i] = Entry(e.id, TRUE) PROVE FALSE
    <3>1. hist.start[i].id = e.id /\ hist.start[i].secondary
      BY <2>4 DEF Entry
    <3>2. i # j
      BY <2>1, <2>3, <3>1
    <3> QED BY <2>2, <2>3, <3>1, <3>2, TableDistinct
  <2> QED BY <2>4, Zenon DEF WasSecondary, e
<1> QED BY <1>1, <1>2, <1>3, PTL DEF FlushSpec

-----------------------------------------------------------------------------
(***************************************************************************)
(* A secondary address was one at the beginning, or was added: deletions   *)
(* only ever promote.                                                      *)
(***************************************************************************)
SecondInv == \A e \in Range(table) : e.secondary => e.id \in hist.added \/ WasSecondary(e.id)

LEMMA SecondInit ==
  ASSUME FlushInit
  PROVE  IsTable(table) /\ SecondInv
<1>1. IsTable(table) /\ hist.start = table
  BY FlushAssumption DEF FlushInit, HistInit
<1>2. ASSUME NEW i \in DOMAIN table, table[i].secondary PROVE table[i] = Entry(table[i].id, TRUE)
  <2>1. table[i] \in EntryType
    BY <1>1 DEF IsTable
  <2> QED BY <1>2, <2>1 DEF Entry, EntryType
<1> QED BY <1>1, <1>2, Zenon DEF SecondInv, WasSecondary, Range

LEMMA SecondNext ==
  ASSUME FlushTypeOK, IsTable(table), SecondInv, [FlushNext]_flushVars
  PROVE  IsTable(table)' /\ SecondInv'
<1>1. IsTable(table') /\ \A e \in Range(table') : Survives(e, table) \/ e.id \in hist'.added
  BY TableNext
<1>2. hist'.start = hist.start /\ hist.added \subseteq hist'.added
  BY HistNext
<1>3. ASSUME NEW e \in Range(table'), e.secondary PROVE e.id \in hist'.added \/ WasSecondary(e.id)'
  <2>1. CASE e \in Range(table)
    BY <1>2, <1>3, <2>1, Zenon DEF SecondInv, WasSecondary
  <2>2. CASE e = Entry(e.id, FALSE)
    <3>1. e.secondary = FALSE
      BY <2>2 DEF Entry
    <3> QED BY <1>3, <3>1
  <2> QED BY <1>1, <2>1, <2>2, Zenon DEF Survives
<1> QED BY <1>1, <1>3 DEF SecondInv

(***************************************************************************)
(* What was asked for in this round is in the buffer, unless a buffer was  *)
(* sent early; and the datagram of a dump that waits is of this round's.   *)
(***************************************************************************)
Buffered(b) == \A e \in Asked : \E j \in DOMAIN b : b[j].id = e.id

Current(q, s) == \A k \in DOMAIN q : IsDump(q[k]) => q[k].seq = s

RoundInv ==
  /\ pc \in {"dump", "update"} /\ ~flushed => hist.asked = <<>>
  /\ pc \in {"dump", "update"} /\ ~hist.early => Buffered(flushb)
  /\ pc = "dump" => Current(queue, rth.dump)

LEMMA RoundInit ==
  ASSUME FlushInit
  PROVE  RoundInv
  BY DEF FlushInit, RoundInv

LEMMA RoundNext ==
  ASSUME FlushTypeOK, AnswerInv, RoundInv, [FlushNext]_flushVars
  PROVE  RoundInv'
<1>t. /\ hist \in HistType /\ table \in Seq(EntryType) /\ queue \in Seq(DatagramType) /\ work \in Seq(EntryType)
      /\ pos \in Nat /\ flushb \in Seq(RequestType) /\ rth \in [seq : SeqNumbers, dump : SeqNumbers]
  BY DEF FlushTypeOK, SockTypeOK
<1>a. ASSUME hist'.asked = hist.asked PROVE Asked' = Asked
  BY <1>a DEF Asked
<1>1. ASSUME NEW ok \in BOOLEAN, Request(ok) PROVE RoundInv'
  <2> DEFINE s == NextSeq(rth.seq)
             d == IF ok THEN DumpDatagram(table, 0, s) ELSE [type |-> "ERROR", seq |-> s, msgs |-> <<>>]
  <2>1. /\ pc = "request" /\ queue' = Append(queue, d) /\ rth' = [seq |-> s, dump |-> s] /\ pc' = "dump"
        /\ hist' = [hist EXCEPT !.asked = <<>>, !.datagrams = 0, !.shifted = FALSE, !.lost = @ \/ ~ok]
    BY <1>1 DEF Request, rtnl_wilddump_request
  <2>2. queue = <<>>
    BY <2>1 DEF AnswerInv
  <2>3. hist'.asked = <<>> /\ rth'.dump = s
    BY <1>t, <2>1 DEF HistType
  <2>4. d.seq = s
    <3>1. DumpDatagram(table, 0, s).seq = s
      BY DEF DumpDatagram
    <3> QED BY <3>1
  <2> HIDE DEF d, s
  <2>5. DOMAIN queue' = {1} /\ queue'[1] = d /\ Asked' = {}
    BY <2>1, <2>2, <2>3 DEF Asked
  <2>6. Current(queue', rth'.dump) /\ Buffered(flushb)'
    BY <2>3, <2>4, <2>5 DEF Current, Buffered
  <2> QED BY <2>3, <2>6 DEF RoundInv
<1>2. ASSUME NEW ok \in BOOLEAN, Receive(ok) PROVE RoundInv'
  <2>1. /\ pc = "dump" /\ rth' = rth /\ flushb' = flushb /\ flushed' = flushed
        /\ hist'.early = hist.early /\ hist'.asked = hist.asked
    BY <1>t, <1>2, Zenon DEF Receive, recvmsg, recvmsg_fails, HistType
  <2>2. (~flushed' => hist'.asked = <<>>) /\ (~hist'.early => Buffered(flushb)')
    BY <1>a, <2>1 DEF RoundInv, Buffered
  <2>3. ASSUME pc' = "dump" PROVE Current(queue', rth'.dump)
    <3>1. PICK d \in DatagramType : /\ queue # <<>> /\ d = Head(queue)
                                    /\ ReceivesNew(d) \/ ReceivesOther(d)
      BY <1>2, <2>3, ReceiveShape
    <3>2. /\ \A i \in DOMAIN Tail(queue) : i + 1 \in DOMAIN queue /\ Tail(queue)[i] = queue[i + 1]
          /\ 1 \in DOMAIN queue /\ d = queue[1]
          /\ Tail(queue) \in Seq(DatagramType)
      BY <1>t, <3>1
    <3>3. (IsDump(d) => d.seq = rth.dump) /\ Current(Tail(queue), rth.dump)
      BY <2>1, <3>2 DEF RoundInv, Current
    <3>4. CASE queue' = Tail(queue)
      BY <2>1, <3>3, <3>4
    <3>5. CASE d.type = "NEW" /\ queue' = Append(Tail(queue), DumpDatagram(table, pos + Len(d.msgs), d.seq))
      <4> DEFINE e == DumpDatagram(table, pos + Len(d.msgs), d.seq)
      <4>1. pos + Len(d.msgs) \in Nat
        BY <1>t DEF DatagramType
      <4>2. e.seq = d.seq
        BY <1>t, <4>1, DumpShape
      <4>3. d.seq = rth.dump
        BY <3>3, <3>5 DEF IsDump
      <4> HIDE DEF e
      <4>4. queue' = Append(Tail(queue), e)
        BY <3>5 DEF e
      <4>5. \A i \in DOMAIN queue' : queue'[i] = e \/ (i \in DOMAIN Tail(queue) /\ queue'[i] = Tail(queue)[i])
        BY <3>2, <4>4
      <4> QED BY <2>1, <3>3, <4>2, <4>3, <4>5 DEF Current
    <3> QED BY <3>1, <3>4, <3>5 DEF ReceivesNew, ReceivesOther
  <2> QED BY <2>2, <2>3 DEF RoundInv
<1>3. ASSUME NEW ok \in BOOLEAN, FilterFull(ok) PROVE RoundInv'
  <2>1. pc = "dump" /\ work # <<>> /\ rtnl_send_check(flushb, ok) /\ hist'.early = TRUE
    BY <1>t, <1>3, Zenon DEF FilterFull, HistType
  <2>2. CASE pc' = "exited"
    BY <2>2 DEF RoundInv
  <2>3. CASE Put(Head(work))
    <3> DEFINE e == Sent(flushb).errors
    <3>1. /\ e \in Seq(DatagramType) /\ \A i \in DOMAIN e : e[i].type = "ERROR"
          /\ queue' \in {queue, queue \o e}
      BY <1>t, <2>1, SendSock DEF FlushTypeOK
    <3>2. flushed' = TRUE /\ rth'.dump = rth.dump
      BY <1>t, <2>3 DEF Put
    <3>3. Current(queue, rth.dump)
      BY <2>1 DEF RoundInv
    <3> HIDE DEF e
    <3>4. Current(queue \o e, rth.dump)
      <4>1. \A i \in DOMAIN (queue \o e) : \/ i \in DOMAIN queue /\ (queue \o e)[i] = queue[i]
                                           \/ \E j \in DOMAIN e : (queue \o e)[i] = e[j]
        <5> SUFFICES ASSUME NEW i \in DOMAIN (queue \o e)
                     PROVE  \/ i \in DOMAIN queue /\ (queue \o e)[i] = queue[i]
                            \/ \E j \in DOMAIN e : (queue \o e)[i] = e[j]
          OBVIOUS
        <5>1. CASE i <= Len(queue)
          BY <1>t, <3>1, <5>1
        <5>2. CASE ~(i <= Len(queue))
          <6>1. i - Len(queue) \in DOMAIN e /\ (queue \o e)[i] = e[i - Len(queue)]
            BY <1>t, <3>1, <5>2
          <6> QED BY <6>1
        <5> QED BY <5>1, <5>2
      <4> QED BY <3>1, <3>3, <4>1 DEF Current, IsDump
    <3> QED BY <2>1, <3>1, <3>2, <3>3, <3>4, Zenon DEF RoundInv
  <2> QED BY <1>3, <2>2, <2>3 DEF FilterFull, exits
<1>4. ASSUME NEW ok \in BOOLEAN, Update(ok) PROVE pc' \notin {"dump", "update"}
  BY <1>4 DEF Update, ipaddr_flush, do_show_or_flush, iproute_list_flush_or_save, returns, exits, again
<1>5. CASE FilterStore
  <2>1. /\ pc = "dump" /\ work # <<>> /\ Put(Head(work)) /\ queue' = queue /\ Len(flushb) < FlushSize
        /\ hist' = [hist EXCEPT !.asked = Recorded(Head(work))]
    BY <1>5 DEF FilterStore, Recorded
  <2>2. hist'.early = hist.early /\ hist'.asked = Recorded(Head(work))
    BY <1>t, <2>1 DEF HistType
  <2>3. PICK e : e = Head(work)
    OBVIOUS
  <2>4. Asked' = Asked \cup {e}
    BY <2>2, <2>3, AskedNext
  <2>5. flushed' = TRUE /\ rth'.dump = rth.dump
    BY <1>t, <2>1 DEF Put
  <2>6. /\ \A j \in DOMAIN flushb : j \in DOMAIN flushb' /\ flushb'[j] = flushb[j]
        /\ \E j \in DOMAIN flushb' : flushb'[j].id = e.id
    <3> DEFINE x == [id |-> e.id, seq |-> NextSeq(rth.seq)]
    <3>1. Len(flushb) # FlushSize
      BY <1>t, <2>1, FlushAssumption
    <3>2. flushb' = Append(flushb, x) /\ x.id = e.id
      BY <2>1, <2>3, <3>1 DEF Put
    <3> HIDE DEF x
    <3>3. Len(flushb) + 1 \in DOMAIN flushb' /\ flushb'[Len(flushb) + 1] = x
      BY <1>t, <3>2
    <3>4. \A j \in DOMAIN flushb : j \in DOMAIN flushb' /\ flushb'[j] = flushb[j]
      BY <1>t, <3>2
    <3> QED BY <3>2, <3>3, <3>4
  <2>7. ~hist.early => Buffered(flushb)'
    BY <2>1, <2>4, <2>6 DEF RoundInv, Buffered
  <2> QED BY <2>1, <2>2, <2>5, <2>7 DEF RoundInv
<1>6. CASE /\ hist'.asked = hist.asked /\ hist'.early = hist.early
           /\ UNCHANGED <<queue, rth, pc, flushb, flushed>>
  BY <1>a, <1>6 DEF RoundInv, Buffered
<1>7. CASE pc' \notin {"dump", "update"}
  BY <1>7 DEF RoundInv
<1>8. ASSUME FilterSkip \/ Tick \/ UNCHANGED flushVars
      PROVE  hist' = hist /\ UNCHANGED <<queue, rth, pc, flushb, flushed>>
  BY <1>8 DEF FilterSkip, Tick, flushVars, sockVars
<1>9. ASSUME NEW id \in Volatile, OtherAdds(id)
      PROVE  hist'.asked = hist.asked /\ hist'.early = hist.early /\ UNCHANGED <<queue, rth, pc, flushb, flushed>>
  BY <1>t, <1>9 DEF OtherAdds, HistType
<1>10. ASSUME NEW i \in DOMAIN table, OtherDeletes(i)
       PROVE  hist'.asked = hist.asked /\ hist'.early = hist.early /\ UNCHANGED <<queue, rth, pc, flushb, flushed>>
  BY <1>t, <1>10 DEF OtherDeletes, HistType
<1>11. ASSUME NEW type \in {"ACK", "ERROR"}, NEW ok \in BOOLEAN, Talk(type, ok) PROVE pc' = "answer"
  BY <1>11 DEF Talk
<1>12. ASSUME Complete \/ TalkReceive PROVE pc' \in {"talk", "answer", "exited"}
  BY <1>12, Zenon DEF Complete, returns, TalkReceive, exits
<1> QED BY <1>1, <1>2, <1>3, <1>4, <1>5, <1>6, <1>7, <1>8, <1>9, <1>10, <1>11, <1>12 DEF FlushNext, ClientStep

(***************************************************************************)
(* A dump during which nothing is deleted comes across every entry that it *)
(* selects, although others may be added before it.                        *)
(***************************************************************************)
Whole == ~hist.shifted /\ (IF cmd.select = "primary" THEN ~hist.early ELSE ~flushed)

Excused(e) == e.id \in hist.added \/ (cmd.select = "primary" /\ WasSecondary(e.id))

Dealt(e) == Excused(e) \/ ~Selected(e) \/ e \in Asked

\* The entry x at place i has been dealt with, or will come with what has been read or is to come.
Passed(x, i, d) ==
  \/ Dealt(x) \/ x \in Range(work) \/ x \in Range(d.msgs)
  \/ d.type = "NEW" /\ i > pos + Len(d.msgs)

CoverInv ==
  /\ pc = "dump" /\ Whole =>
       \A d \in Range(queue), i \in DOMAIN table, x \in Range(table) :
          IsDump(d) /\ x = table[i] => Passed(x, i, d)
  /\ pc = "update" /\ Whole => \A e \in Range(table) : Dealt(e)
  /\ pc = "talk" /\ status = "complete" /\ ~hist.shifted /\ (cmd.select = "primary" => ~hist.early) =>
       \A e \in Range(table) : Excused(e) \/ ~Selected(e)

LEMMA CoverInit ==
  ASSUME FlushInit
  PROVE  CoverInv
  BY DEF FlushInit, CoverInv

\* Nothing undoes that an entry has been dealt with in a round.
LEMMA DealtNext ==
  ASSUME cmd' = cmd, hist'.start = hist.start, hist.added \subseteq hist'.added, Asked \subseteq Asked', NEW e
  PROVE  /\ Excused(e) => Excused(e)'
         /\ Selected(e)' <=> Selected(e)
         /\ Dealt(e) => Dealt(e)'
<1>1. WasSecondary(e.id)' <=> WasSecondary(e.id)
  BY DEF WasSecondary
<1>2. Excused(e) => Excused(e)'
  BY <1>1 DEF Excused
<1>3. Selected(e)' <=> Selected(e)
  BY DEF Selected, print_addrinfo, print_neigh, filter_nlmsg
<1> QED BY <1>2, <1>3 DEF Dealt

\* A flush that selects a promoted address has selected it before.
LEMMA SelectedBefore ==
  ASSUME NEW id, cmd.select # "primary", Selected(Entry(id, FALSE))
  PROVE  Selected(Entry(id, TRUE))
  BY DEF Selected, print_addrinfo, print_neigh, filter_nlmsg, Entry

LEMMA CoverDump ==
  ASSUME FlushTypeOK, AnswerInv, RoundInv, CoverInv, NEW ok \in BOOLEAN, Receive(ok), FlushNext
  PROVE  CoverInv'
<1>t. /\ hist \in HistType /\ table \in Seq(EntryType) /\ queue \in Seq(DatagramType) /\ work \in Seq(EntryType)
      /\ pos \in Nat
  BY DEF FlushTypeOK, SockTypeOK
<1>0. /\ pc = "dump" /\ work = <<>> /\ table' = table /\ flushed' = flushed /\ cmd' = cmd
      /\ hist'.early = hist.early /\ hist'.asked = hist.asked /\ hist'.shifted = hist.shifted
      /\ hist'.start = hist.start /\ hist'.added = hist.added
  BY <1>t, Zenon DEF Receive, recvmsg, recvmsg_fails, HistType
<1>1. Asked' = Asked /\ Whole' = Whole
  BY <1>0 DEF Asked, Whole
<1>2. \A e : Dealt(e) => Dealt(e)'
  BY <1>0, <1>1, DealtNext
<1>3. CASE pc' = "exited"
  BY <1>3 DEF CoverInv
<1>4. CASE pc' # "exited"
  <2>1. PICK d \in DatagramType : /\ queue # <<>> /\ d = Head(queue) /\ pos' = pos + Len(d.msgs)
                                  /\ ReceivesNew(d) \/ ReceivesOther(d)
    BY <1>4, ReceiveShape
  <2>2. /\ \A i \in DOMAIN Tail(queue) : i + 1 \in DOMAIN queue /\ Tail(queue)[i] = queue[i + 1]
        /\ 1 \in DOMAIN queue /\ d = queue[1] /\ Tail(queue) \in Seq(DatagramType)
    BY <1>t, <2>1
  <2>3. Len(d.msgs) \in Nat /\ pos' \in Nat
    BY <1>t, <2>1 DEF DatagramType
  <2>4. IsDump(d) => d.seq = rth.dump
    BY <1>0, <2>2 DEF RoundInv, Current
  <2>5. Range(work) = {}
    BY <1>0 DEF Range
  <2>6. ASSUME Whole, IsDump(d), NEW i \in DOMAIN table
        PROVE  Dealt(table[i]) \/ table[i] \in Range(d.msgs) \/ (d.type = "NEW" /\ i > pos')
    <3>1. Passed(table[i], i, d)
      BY <1>0, <2>2, <2>6 DEF CoverInv, Range
    <3> QED BY <2>1, <2>5, <3>1 DEF Passed
  <2>7. CASE ReceivesNew(d)
    <3>1. d.type = "NEW" /\ IsDump(d) /\ pc' = "dump" /\ NoDump(Tail(queue)) /\ Range(work') = Range(d.msgs)
      BY <2>4, <2>7 DEF ReceivesNew, IsDump, Own
    <3> SUFFICES ASSUME Whole', NEW c \in Range(queue'), IsDump(c), NEW i \in DOMAIN table,
                        NEW x \in Range(table), x = table[i]
                 PROVE  Passed(x, i, c)'
      BY <1>0, <3>1 DEF CoverInv
    <3> DEFINE e == DumpDatagram(table, pos + Len(d.msgs), d.seq)
    <3>2. queue' = Append(Tail(queue), e)
      BY <2>7, <3>1, Zenon DEF ReceivesNew, NoDump, Range
    <3>3. /\ e.type \in {"NEW", "DONE"} /\ e.msgs \in Seq(EntryType) /\ Len(e.msgs) \in Nat
          /\ \A n \in DOMAIN table : pos' < n /\ n <= pos' + Len(e.msgs) => table[n] \in Range(e.msgs)
          /\ e.type = "DONE" => Len(table) <= pos'
      BY <1>t, <2>1, <2>3, DumpShape
    <3> HIDE DEF e
    <3>4. \A k \in DOMAIN queue' : queue'[k] = e \/ (k \in DOMAIN Tail(queue) /\ queue'[k] = Tail(queue)[k])
      BY <2>2, <3>2
    <3>5. c = e
      BY <3>1, <3>4 DEF NoDump, Range
    <3>6. Dealt(x) \/ x \in Range(work') \/ i > pos'
      BY <1>1, <2>6, <3>1
    <3>7. i > pos' => x \in Range(e.msgs) \/ (e.type = "NEW" /\ i > pos' + Len(e.msgs))
      BY <1>t, <2>3, <3>3
    <3> QED BY <1>2, <3>5, <3>6, <3>7 DEF Passed
  <2>8. CASE ReceivesOther(d)
    <3>1. /\ d.type # "NEW" /\ d.msgs = <<>> /\ queue' = Tail(queue) /\ work' = <<>> /\ pos' = pos
          /\ \/ pc' = "dump" /\ ~Ends(d, "DONE")
             \/ pc' = "update" /\ Ends(d, "DONE")
      BY <2>8 DEF ReceivesOther
    <3>2. CASE pc' = "dump"
      <4> SUFFICES ASSUME Whole', NEW c \in Range(queue'), IsDump(c), NEW i \in DOMAIN table,
                          NEW x \in Range(table), x = table[i]
                   PROVE  Passed(x, i, c)'
        BY <1>0, <3>2 DEF CoverInv
      <4>1. c \in Range(queue)
        BY <2>2, <3>1 DEF Range
      <4>2. Passed(x, i, c)
        BY <1>0, <1>1, <4>1 DEF CoverInv
      <4> QED BY <1>0, <1>2, <3>1, <4>2 DEF Passed
    <3>3. CASE pc' = "update" /\ Ends(d, "DONE")
      <4>1. IsDump(d) /\ Range(d.msgs) = {}
        BY <3>1, <3>3 DEF Ends, IsDump, Range
      <4>2. ASSUME Whole', NEW x \in Range(table') PROVE Dealt(x)'
        <5>1. PICK i \in DOMAIN table : x = table[i]
          BY <1>0 DEF Range
        <5>2. Dealt(x)
          BY <1>1, <2>6, <3>1, <4>1, <4>2, <5>1
        <5> QED BY <1>2, <5>2
      <4> QED BY <3>3, <4>2 DEF CoverInv
    <3> QED BY <3>1, <3>2, <3>3
  <2> QED BY <2>1, <2>7, <2>8
<1> QED BY <1>3, <1>4

LEMMA CoverNext ==
  ASSUME FlushTypeOK, IsTable(table), AnswerInv, SecondInv, RoundInv, CoverInv, [FlushNext]_flushVars
  PROVE  CoverInv'
<1>t. /\ hist \in HistType /\ table \in Seq(EntryType) /\ queue \in Seq(DatagramType) /\ work \in Seq(EntryType)
      /\ pos \in Nat /\ flushb \in Seq(RequestType)
  BY DEF FlushTypeOK, SockTypeOK
<1>h. cmd' = cmd /\ hist'.start = hist.start /\ hist.added \subseteq hist'.added
  BY HistNext
<1>a. ASSUME hist'.asked = hist.asked PROVE Asked' = Asked
  BY <1>a DEF Asked
<1>d. ASSUME Asked \subseteq Asked', NEW e PROVE /\ Dealt(e) => Dealt(e)'
                                                 /\ Excused(e) => Excused(e)'
                                                 /\ Selected(e)' <=> Selected(e)
  BY <1>h, <1>d, DealtNext
<1>x. \A e : e.id \in hist'.added => Excused(e)'
  BY DEF Excused
<1>1. ASSUME NEW ok \in BOOLEAN, Request(ok) PROVE CoverInv'
  <2> DEFINE s == NextSeq(rth.seq)
             d == IF ok THEN DumpDatagram(table, 0, s) ELSE [type |-> "ERROR", seq |-> s, msgs |-> <<>>]
  <2>1. pc = "request" /\ queue' = Append(queue, d) /\ pc' = "dump" /\ pos' = 0 /\ table' = table
    BY <1>1 DEF Request, rtnl_wilddump_request
  <2>2. queue = <<>>
    BY <2>1 DEF AnswerInv
  <2> SUFFICES ASSUME NEW c \in Range(queue'), IsDump(c), NEW i \in DOMAIN table,
                      NEW x \in Range(table), x = table[i]
               PROVE  Passed(x, i, c)'
    BY <2>1 DEF CoverInv
  <2>3. DOMAIN queue' = {1} /\ queue'[1] = d
    <3> HIDE DEF d
    <3> QED BY <2>1, <2>2
  <2>4. c = d
    BY <2>3 DEF Range
  <2>5. ok
    BY <2>4 DEF IsDump
  <2>6. c = DumpDatagram(table, 0, s)
    BY <2>4, <2>5, Zenon
  <2>7. /\ c.type \in {"NEW", "DONE"} /\ c.msgs \in Seq(EntryType)
        /\ \A n \in DOMAIN table : 0 < n /\ n <= 0 + Len(c.msgs) => table[n] \in Range(c.msgs)
        /\ c.type = "DONE" => Len(table) <= 0
    <3>1. table \in Seq(EntryType) /\ 0 \in Nat
      BY <1>t
    <3> HIDE DEF s
    <3> QED BY <2>6, <3>1, DumpShape
  <2>8. i \in Nat /\ 0 < i /\ i <= Len(table) /\ Len(table) \in Nat /\ Len(c.msgs) \in Nat
    BY <1>t, <2>7
  <2>9. x \in Range(c.msgs) \/ (c.type = "NEW" /\ i > 0 + Len(c.msgs))
    <3>1. c.type = "NEW"
      BY <2>7, <2>8
    <3>2. i <= 0 + Len(c.msgs) => x \in Range(c.msgs)
      BY <2>7, <2>8
    <3> QED BY <2>8, <3>1, <3>2
  <2> QED BY <2>1, <2>9 DEF Passed
<1>2. ASSUME NEW ok \in BOOLEAN, Receive(ok) PROVE CoverInv'
  <2>1. FlushNext
    BY <1>2 DEF FlushNext, ClientStep
  <2> QED BY <1>2, <2>1, CoverDump
<1>3. ASSUME NEW ok \in BOOLEAN, FilterFull(ok) PROVE CoverInv'
  <2>1. CASE pc' = "exited"
    BY <2>1 DEF CoverInv
  <2>2. CASE pc' = pc /\ Put(Head(work)) /\ hist'.early = TRUE
    <3>1. pc' = "dump" /\ ~Whole'
      BY <1>3, <2>2 DEF FilterFull, Put, Whole
    <3> QED BY <3>1 DEF CoverInv
  <2> QED BY <1>3, <1>t, <2>1, <2>2, Zenon DEF FilterFull, exits, HistType
<1>4. ASSUME NEW ok \in BOOLEAN, Update(ok) PROVE CoverInv'
  <2>1. CASE pc' = "talk" /\ status' = "complete" /\ ~hist'.shifted /\ (cmd'.select = "primary" => ~hist'.early)
    <3>1. /\ pc = "update" /\ SingleRound /\ table' = Sent(flushb).table
          /\ hist'.asked = hist.asked /\ hist'.early = hist.early /\ hist'.shifted = hist.shifted
      <4>1. pc = "update" /\ table' = Sent(flushb).table /\ hist' = [hist EXCEPT !.lost = @ \/ ~ok]
        BY <1>4 DEF Update, rtnl_send_check
      <4>2. SingleRound
        BY <1>4, <2>1 DEF Update, ipaddr_flush, do_show_or_flush, iproute_list_flush_or_save, returns,
           exits, again
      <4> QED BY <1>t, <4>1, <4>2 DEF HistType
    <3>2. cmd.select = "primary" /\ Whole /\ ~hist.early
      BY <1>h, <2>1, <3>1 DEF SingleRound, Whole
    <3>3. Asked' = Asked
      BY <1>a, <3>1
    <3>4. ASSUME NEW e \in Range(table') PROVE Excused(e)' \/ ~Selected(e)'
      <4>1. Survives(e, table) /\ \A j \in DOMAIN flushb : e.id # flushb[j].id
        BY <1>t, <3>1, SentShape
      <4>2. CASE e \in Range(table)
        <5>1. Dealt(e)
          BY <3>1, <3>2, <4>2 DEF CoverInv
        <5>2. e \notin Asked
          BY <3>1, <3>2, <4>1 DEF RoundInv, Buffered
        <5>3. Excused(e) \/ ~Selected(e)
          BY <5>1, <5>2 DEF Dealt
        <5> QED BY <1>d, <3>3, <5>3
      <4>3. CASE Entry(e.id, TRUE) \in Range(table)
        <5>1. Entry(e.id, TRUE).id = e.id /\ Entry(e.id, TRUE).secondary
          BY DEF Entry
        <5>2. e.id \in hist.added \/ WasSecondary(e.id)
          BY <4>3, <5>1, Zenon DEF SecondInv
        <5>3. Excused(e)
          BY <3>2, <5>2 DEF Excused
        <5> QED BY <1>d, <3>3, <5>3
      <4> QED BY <4>1, <4>2, <4>3, Zenon DEF Survives
    <3> QED BY <2>1, <3>4 DEF CoverInv
  <2>2. pc' \in {"talk", "exited", "request"}
    BY <1>4 DEF Update, ipaddr_flush, do_show_or_flush, iproute_list_flush_or_save, returns, exits, again
  <2> QED BY <2>1, <2>2 DEF CoverInv
<1>5. CASE FilterSkip
  <2>1. /\ pc = "dump" /\ pc' = pc /\ work # <<>> /\ work' = Tail(work)
        /\ queue' = queue /\ table' = table
        /\ hist' = hist /\ pos' = pos /\ flushed' = flushed /\ ~Selected(Head(work))
    BY <1>5 DEF FilterSkip, sockVars
  <2>2. Range(work) = {Head(work)} \cup Range(work')
    BY <1>t, <2>1, TailSet
  <2>3. Whole' = Whole /\ Asked' = Asked
    BY <1>a, <1>h, <2>1 DEF Whole
  <2> SUFFICES ASSUME Whole, NEW c \in Range(queue), IsDump(c), NEW i \in DOMAIN table,
                      NEW x \in Range(table), x = table[i]
               PROVE  Passed(x, i, c)'
    BY <2>1, <2>3 DEF CoverInv
  <2>4. Passed(x, i, c)
    BY <2>1 DEF CoverInv
  <2>5. x = Head(work) => Dealt(x)
    BY <2>1 DEF Dealt
  <2> QED BY <1>d, <2>1, <2>2, <2>3, <2>4, <2>5 DEF Passed
<1>6. CASE FilterStore
  <2>1. /\ pc = "dump" /\ pc' = pc /\ work # <<>> /\ Put(Head(work)) /\ queue' = queue /\ table' = table /\ pos' = pos
        /\ hist' = [hist EXCEPT !.asked = Recorded(Head(work))]
    BY <1>6 DEF FilterStore, Recorded
  <2>2. hist'.early = hist.early /\ hist'.shifted = hist.shifted /\ hist'.asked = Recorded(Head(work))
    BY <1>t, <2>1 DEF HistType
  <2>3. PICK e : e = Head(work)
    OBVIOUS
  <2>4. Asked' = Asked \cup {e}
    BY <2>2, <2>3, AskedNext
  <2>5. work' = Tail(work) /\ flushed' = TRUE
    BY <2>1 DEF Put
  <2>6. Range(work) = {e} \cup Range(work')
    BY <1>t, <2>1, <2>3, <2>5, TailSet
  <2>7. Whole' => Whole
    BY <1>h, <2>2, <2>5 DEF Whole
  <2>8. Dealt(e)'
    BY <2>4 DEF Dealt
  <2> SUFFICES ASSUME Whole, NEW c \in Range(queue), IsDump(c), NEW i \in DOMAIN table,
                      NEW x \in Range(table), x = table[i]
               PROVE  Passed(x, i, c)'
    BY <2>1, <2>7 DEF CoverInv
  <2>9. Passed(x, i, c)
    BY <2>1 DEF CoverInv
  <2> QED BY <1>d, <2>1, <2>4, <2>6, <2>8, <2>9 DEF Passed
<1>7. CASE Complete
  <2>1. /\ pc = "update" /\ ~flushed /\ pc' = "talk" /\ table' = table /\ hist' = hist
    BY <1>7 DEF Complete, returns, sockVars
  <2>2. Asked = {} /\ Asked' = Asked
    BY <1>a, <2>1 DEF RoundInv, Asked
  <2>3. ASSUME ~hist'.shifted, cmd'.select = "primary" => ~hist'.early, NEW e \in Range(table')
        PROVE  Excused(e)' \/ ~Selected(e)'
    <3>1. Whole
      BY <1>h, <2>1, <2>3 DEF Whole
    <3>2. Dealt(e)
      BY <2>1, <2>3, <3>1 DEF CoverInv
    <3>3. Excused(e) \/ ~Selected(e)
      BY <2>2, <3>2 DEF Dealt
    <3> QED BY <1>d, <2>2, <3>3
  <2> QED BY <2>1, <2>3 DEF CoverInv
<1>8. ASSUME NEW id \in Volatile, OtherAdds(id) PROVE CoverInv'
  <2>1. /\ pc' = pc /\ pc # "talk" /\ UNCHANGED <<queue, pos, work, flushed>>
        /\ hist'.asked = hist.asked /\ hist'.early = hist.early /\ hist'.shifted = hist.shifted
    BY <1>t, <1>8 DEF OtherAdds, HistType
  <2>2. PICK e \in EntryType : /\ e.id = id /\ Positions(table, e.id) = {}
                               /\ table' = Inserted(table, e)
                               /\ e.id \in hist'.added
    BY <1>8, AddsShape
  <2>3. Whole' = Whole /\ Asked' = Asked
    BY <1>a, <1>h, <2>1 DEF Whole
  <2>4. Dealt(e)'
    BY <1>x, <2>2 DEF Dealt
  <2>5. CASE pc = "dump"
    <3> SUFFICES ASSUME Whole, NEW c \in Range(queue), IsDump(c), NEW i \in DOMAIN table',
                        NEW x \in Range(table'), x = table'[i]
                 PROVE  Passed(x, i, c)'
      BY <2>1, <2>3, <2>5, Zenon DEF CoverInv
    <3>1. CASE x = e
      BY <2>4, <3>1 DEF Passed
    <3>2. CASE x # e
      <4>1. PICK j \in DOMAIN table : j <= i /\ x = table[j]
        BY <2>2, <3>2, InsertShape
      <4>2. Passed(x, j, c)
        BY <2>5, <4>1 DEF CoverInv, Range
      <4>3. c \in DatagramType
        BY <1>t DEF Range
      <4>4. Len(c.msgs) \in Nat
        BY <4>3 DEF DatagramType
      <4>5. i \in Nat /\ j \in Nat
        <5>1. table' \in Seq(EntryType)
          BY TableNext DEF IsTable
        <5> QED BY <1>t, <5>1
      <4>6. j > pos + Len(c.msgs) => i > pos + Len(c.msgs)
        BY <1>t, <4>1, <4>4, <4>5
      <4> QED BY <1>d, <2>1, <2>3, <4>2, <4>6, Zenon DEF Passed
    <3> QED BY <3>1, <3>2
  <2>6. CASE pc = "update"
    <3>1. Range(table') \subseteq Range(table) \cup {e}
      BY <2>2, InsertTable
    <3>2. ASSUME Whole', NEW x \in Range(table') PROVE Dealt(x)'
      BY <1>d, <2>3, <2>4, <2>6, <3>1, <3>2 DEF CoverInv
    <3> QED BY <2>1, <2>6, <3>2, Zenon DEF CoverInv
  <2>7. CASE pc \notin {"dump", "update"}
    BY <2>1, <2>7, Zenon DEF CoverInv
  <2> QED BY <2>5, <2>6, <2>7
<1>9. ASSUME NEW n \in DOMAIN table, OtherDeletes(n) PROVE CoverInv'
  <2>1. /\ pc' = pc /\ pc # "talk" /\ flushed' = flushed /\ table' = Remaining(table, table[n].id, promote)
        /\ hist'.asked = hist.asked /\ hist'.early = hist.early
        /\ pc = "dump" => hist'.shifted = TRUE
        /\ pc # "dump" => hist'.shifted = hist.shifted
    BY <1>t, <1>9, Zenon DEF OtherDeletes, HistType
  <2>2. CASE pc = "dump"
    BY <2>1, <2>2, Zenon DEF CoverInv, Whole
  <2>3. CASE pc = "update"
    <3>1. Whole' = Whole /\ Asked' = Asked
      BY <1>a, <1>h, <2>1, <2>3 DEF Whole
    <3>2. ASSUME Whole', NEW e \in Range(table') PROVE Dealt(e)'
      <4>1. Survives(e, table)
        BY <1>t, <2>1, RemainingShape
      <4>2. CASE e \in Range(table)
        BY <1>d, <2>3, <3>1, <3>2, <4>2 DEF CoverInv
      <4>3. CASE e = Entry(e.id, FALSE) /\ Entry(e.id, TRUE) \in Range(table)
        <5>1. Entry(e.id, TRUE).id = e.id /\ Entry(e.id, TRUE).secondary
          BY DEF Entry
        <5>2. CASE cmd.select = "primary"
          <6>1. e.id \in hist.added \/ WasSecondary(e.id)
            BY <4>3, <5>1, Zenon DEF SecondInv
          <6>2. Dealt(e)
            BY <5>2, <6>1 DEF Excused, Dealt
          <6> QED BY <1>d, <3>1, <6>2
        <5>3. CASE cmd.select # "primary"
          <6>1. Asked = {}
            BY <2>3, <3>1, <3>2, <5>3 DEF Whole, RoundInv, Asked
          <6>2. Dealt(Entry(e.id, TRUE))
            BY <2>3, <3>1, <3>2, <4>3, Zenon DEF CoverInv
          <6>3. e.id \in hist.added \/ ~Selected(Entry(e.id, TRUE))
            BY <5>1, <5>3, <6>1, <6>2, Zenon DEF Dealt, Excused
          <6>4. ~Selected(Entry(e.id, TRUE)) => ~Selected(e)
            BY <4>3, <5>3, SelectedBefore, Zenon
          <6>5. Dealt(e)
            BY <6>3, <6>4, Zenon DEF Dealt, Excused
          <6> QED BY <1>d, <3>1, <6>5
        <5> QED BY <5>2, <5>3
      <4> QED BY <4>1, <4>2, <4>3, Zenon DEF Survives
    <3> QED BY <2>1, <2>3, <3>2, Zenon DEF CoverInv
  <2>4. CASE pc \notin {"dump", "update"}
    BY <2>1, <2>4, Zenon DEF CoverInv
  <2> QED BY <2>2, <2>3, <2>4
<1>10. CASE hist' = hist /\ UNCHANGED <<table, queue, pos, work, flushed, pc, status>>
  <2>1. Whole' = Whole /\ Asked' = Asked
    BY <1>a, <1>h, <1>10 DEF Whole
  <2>2. \A x, i, c : Passed(x, i, c) => Passed(x, i, c)'
    BY <1>d, <1>10, <2>1 DEF Passed
  <2>3. CASE pc = "dump"
    BY <1>10, <2>1, <2>2, <2>3 DEF CoverInv
  <2>4. CASE pc = "update"
    BY <1>10, <1>d, <2>1, <2>4 DEF CoverInv
  <2>5. CASE pc = "talk"
    BY <1>10, <1>h, <1>d, <2>1, <2>5, Zenon DEF CoverInv
  <2>6. CASE pc \notin {"dump", "update", "talk"}
    BY <1>10, <2>6 DEF CoverInv
  <2> QED BY <2>3, <2>4, <2>5, <2>6
<1>11. ASSUME Tick \/ UNCHANGED flushVars
       PROVE  hist' = hist /\ UNCHANGED <<table, queue, pos, work, flushed, pc, status>>
  BY <1>11 DEF Tick, flushVars, sockVars
<1>12. CASE pc' \in {"answer", "exited"}
  BY <1>12 DEF CoverInv
<1>13. ASSUME NEW type \in {"ACK", "ERROR"}, NEW ok \in BOOLEAN, Talk(type, ok) PROVE pc' = "answer"
  BY <1>13 DEF Talk
<1>14. ASSUME TalkReceive PROVE pc' \in {"answer", "exited"}
  BY <1>14, Zenon DEF TalkReceive, exits
<1> QED BY <1>1, <1>2, <1>3, <1>4, <1>5, <1>6, <1>7, <1>8, <1>9, <1>10, <1>11, <1>12, <1>13, <1>14
        DEF FlushNext, ClientStep

(***************************************************************************)
(* FlushComplete, for every table, buffer and datagram size: a flush that  *)
(* reports completion leaves nothing that it selects, except what another  *)
(* process added and, for primary addresses, promoted ones, although the   *)
(* deletions of earlier buffers make a dump pass over entries.             *)
(***************************************************************************)
THEOREM Flushed == FlushSpec => []FlushComplete
<1> DEFINE Inv == FlushTypeOK /\ IsTable(table) /\ AnswerInv /\ SecondInv /\ RoundInv /\ CoverInv
<1>1. FlushInit => Inv
  BY FlushTypeInit, AnswerInit, SecondInit, RoundInit, CoverInit
<1>2. Inv /\ [FlushNext]_flushVars => Inv'
  BY FlushTypeNext, AnswerNext, SecondNext, RoundNext, CoverNext
<1>3. Inv => FlushComplete
  <2> SUFFICES ASSUME Inv, status = "complete", pc = "talk", ~hist.shifted, cmd.select = "primary" => ~hist.early,
                      NEW j \in DOMAIN table, Selected(table[j])
               PROVE  table[j].id \in hist.added \/ (cmd.select = "primary" /\ WasSecondary(table[j].id))
    BY DEF FlushComplete, SelectedLeft
  <2>1. table[j] \in Range(table)
    BY DEF Range
  <2>2. Excused(table[j])
    BY <2>1 DEF CoverInv
  <2> QED BY <2>2 DEF Excused
<1> QED BY <1>1, <1>2, <1>3, PTL DEF FlushSpec
=============================================================================
