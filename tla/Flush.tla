-------------------------------- MODULE Flush --------------------------------
(***************************************************************************)
(* `ip address flush', `ip neighbour flush' and `ip route flush'           *)
(* (src/iproute2/ip/ipaddress.c, ipneigh.c, iproute.c): the table is       *)
(* dumped, a request to delete each selected entry is put into a buffer,   *)
(* and the buffer is sent when it is full and at the end of the dump.      *)
(* This is repeated until a dump selects nothing.  The command that        *)
(* follows in a batch uses the same socket.                                *)
(***************************************************************************)
EXTENDS Netlink

CONSTANTS FlushSize,    \* how many requests the buffer of 4096-512 bytes holds
          MAX_ROUNDS,   \* of ip neighbour flush
          Loops,        \* values of max_flush_loops (option -loops); 0 is no limit
          Tables,       \* the tables to start from
          Deselected,   \* entries of another device
          Volatile,     \* entries that another process may add again at any time
          MaxDeleted    \* how many entries another process deletes

\* Answers that wait in the socket are to fewer requests than there are sequence numbers.
ASSUME FlushAssumption ==
  /\ FlushSize \in Nat \ {0}
  /\ FlushSize + 2 * DumpSize < SeqLimit
  /\ \A t \in Tables : IsTable(t)

VARIABLES cmd,      \* the command: which one, the addresses it selects, max_flush_loops
          pc,
          work,     \* the messages of the datagram that are still to be filtered
          flushb,   \* the buffer of requests
          flushed,  \* whether this round has put any into it (filter.flushed)
          round,
          late,     \* more than 30 seconds have passed
          status,   \* what the command returned
          truth,    \* what the kernel made of the command after the flush
          hist      \* history of the run: see HistInit

flushVars == <<sockVars, cmd, pc, work, flushb, flushed, round, late, status, truth, hist>>

HistInit ==
  [start |-> table,     \* the table at the beginning
   asked |-> <<>>,      \* the entries this round has put into the buffer, with their datagrams
   datagrams |-> 0,     \* how many datagrams it has received
   early |-> FALSE,     \* a buffer was sent before its dump was over
   deleted |-> 0,       \* how many entries another process has deleted
   shifted |-> FALSE,   \* one of them during this round's dump
   added |-> {},        \* the entries another process has added
   lost |-> FALSE]      \* an answer was lost, or a dump refused

FlushInit ==
  /\ \E kind \in {"address", "neighbour", "route"}, select \in {"all", "primary", "secondary"}, loops \in Loops :
        /\ kind # "address" => select = "all" /\ loops = 0
        /\ cmd = [kind |-> kind, select |-> select, loops |-> loops]
  /\ table \in Tables
  /\ cmd.kind # "address" => Secondaries(table) = <<>>
  /\ promote \in BOOLEAN
  /\ pos = 0 /\ queue = <<>> /\ overrun = FALSE /\ rth = [seq |-> 0, dump |-> 0]
  /\ pc = "request" /\ work = <<>> /\ flushb = <<>> /\ flushed = FALSE /\ round = 0
  /\ late = FALSE /\ status = "-" /\ truth = "-"
  /\ hist = HistInit

(***************************************************************************)
(* A round begins.                                                         *)
(***************************************************************************)
Request(granted) ==
  /\ pc = "request"
  /\ rtnl_wilddump_request(granted)
  /\ flushed' = FALSE
  /\ pc' = "dump"
  /\ hist' = [hist EXCEPT !.asked = <<>>, !.datagrams = 0, !.shifted = FALSE, !.lost = @ \/ ~granted]
  /\ UNCHANGED <<cmd, work, flushb, round, late, status, truth>>

(***************************************************************************)
(* rtnl_dump_filter_l: a datagram is passed through each filter in turn.   *)
(* For addresses these are print_addrinfo_secondary and                    *)
(* print_addrinfo_primary, so that an address is deleted before the        *)
(* primary it depends on.                                                  *)
(***************************************************************************)
\* Fault: the primary addresses come first.
PrimariesFirst(msgs) == Primaries(msgs) \o Secondaries(msgs)

Filtered(msgs) == Secondaries(msgs) \o Primaries(msgs)

exits(s) == pc' = "exited" /\ status' = s

Receive(fits) ==
  /\ pc = "dump" /\ work = <<>>
  /\ \/ /\ recvmsg(fits)
        /\ work' = Filtered(Own(Head(queue)))
        /\ hist' = [hist EXCEPT !.datagrams = @ + 1, !.lost = @ \/ ~fits]
        /\ \/ ~Ends(Head(queue), "DONE") /\ ~Ends(Head(queue), "ERROR") /\ UNCHANGED <<pc, status>>
           \/ Ends(Head(queue), "DONE") /\ pc' = "update" /\ UNCHANGED status
           \/ Ends(Head(queue), "ERROR") /\ exits("terminated")
     \/ fits /\ recvmsg_fails /\ exits("terminated") /\ UNCHANGED <<work, hist>>
  /\ UNCHANGED <<cmd, flushb, flushed, round, late, truth>>

(***************************************************************************)
(* print_addrinfo, print_neigh and print_route: the entry is selected or   *)
(* not; the buffer is sent if it is full; the request is put into it.      *)
(***************************************************************************)
print_addrinfo(e) ==
  /\ e.id \notin Deselected
  /\ cmd.select = "primary" => ~e.secondary
  /\ cmd.select = "secondary" => e.secondary

print_neigh(e) == e.id \notin Deselected

filter_nlmsg(e) == e.id \notin Deselected

Selected(e) ==
  \/ cmd.kind = "address" /\ print_addrinfo(e)
  \/ cmd.kind = "neighbour" /\ print_neigh(e)
  \/ cmd.kind = "route" /\ filter_nlmsg(e)

FilterSkip ==
  /\ pc = "dump" /\ work # <<>> /\ ~Selected(Head(work))
  /\ work' = Tail(work)
  /\ UNCHANGED <<sockVars, cmd, pc, flushb, flushed, round, late, status, truth, hist>>

Put(e) ==
  LET s == NextSeq(rth.seq)
  IN  /\ rth' = [rth EXCEPT !.seq = s]
      /\ flushb' = Append(IF Len(flushb) = FlushSize THEN <<>> ELSE flushb, [id |-> e.id, seq |-> s])
      /\ flushed' = TRUE
      /\ work' = Tail(work)

FilterStore ==
  /\ pc = "dump" /\ work # <<>> /\ Selected(Head(work)) /\ Len(flushb) < FlushSize
  /\ Put(Head(work))
  /\ hist' = [hist EXCEPT !.asked = Append(@, [entry |-> Head(work), from |-> hist.datagrams])]
  /\ UNCHANGED <<table, promote, pos, queue, overrun, cmd, pc, round, late, status, truth>>

FilterFull(fits) ==
  /\ pc = "dump" /\ work # <<>> /\ Selected(Head(work)) /\ Len(flushb) = FlushSize
  /\ rtnl_send_check(flushb, fits)
  /\ \/ /\ ~SendFails(flushb, fits)
        /\ Put(Head(work))
        /\ hist' = [hist EXCEPT !.asked = Append(@, [entry |-> Head(work), from |-> hist.datagrams]),
                                !.early = TRUE]
        /\ UNCHANGED <<pc, status>>
     \/ /\ SendFails(flushb, fits)
        /\ exits("terminated")
        /\ hist' = [hist EXCEPT !.early = TRUE, !.lost = @ \/ ~fits]
        /\ UNCHANGED <<rth, flushb, flushed, work>>
  /\ UNCHANGED <<cmd, round, late, truth>>

(***************************************************************************)
(* The end of a dump.                                                      *)
(***************************************************************************)
returns(s) == pc' = "talk" /\ status' = s

Complete ==
  /\ pc = "update" /\ ~flushed
  /\ returns("complete")
  /\ UNCHANGED <<sockVars, cmd, work, flushb, flushed, round, late, truth, hist>>

\* Fault: every flush is over after one round.
SingleRoundAlways == TRUE

\* Fault: a flush of primary addresses is repeated like the others.
SingleRoundNever == FALSE

SingleRound == cmd.select = "primary"

\* Fault: the rounds are not counted.
NextRoundUncounted == round

\* Where no limit is looked at, the number of rounds only shows that one is over.
NextRound == IF cmd.kind = "route" \/ (cmd.kind = "address" /\ cmd.loops = 0) THEN 1 ELSE round + 1

again == pc' = "request" /\ UNCHANGED status

(***************************************************************************)
(* The rest of a round of the three loops, once the buffer was sent or     *)
(* could not be.                                                           *)
(***************************************************************************)
ipaddr_flush(sent) ==
  \/ ~sent /\ returns("failed")
  \/ sent /\ SingleRound /\ returns("complete")
  \/ sent /\ ~SingleRound /\ cmd.loops # 0 /\ round' >= cmd.loops /\ returns("incomplete")
  \/ sent /\ ~SingleRound /\ (cmd.loops = 0 \/ round' < cmd.loops) /\ again

do_show_or_flush(sent) ==
  \/ ~sent /\ exits("failed")
  \/ sent /\ round' >= MAX_ROUNDS /\ returns("incomplete")
  \/ sent /\ round' < MAX_ROUNDS /\ again

iproute_list_flush_or_save(sent) ==
  \/ ~sent /\ exits("failed")
  \/ sent /\ late /\ exits("incomplete")
  \/ sent /\ ~late /\ again

Update(fits) ==
  LET sent == ~SendFails(flushb, fits)
  IN  /\ pc = "update" /\ flushed
      /\ rtnl_send_check(flushb, fits) /\ rth' = rth
      /\ round' = NextRound
      /\ flushb' = IF sent THEN <<>> ELSE flushb
      /\ hist' = [hist EXCEPT !.lost = @ \/ ~fits]
      /\ \/ cmd.kind = "address" /\ ipaddr_flush(sent)
         \/ cmd.kind = "neighbour" /\ do_show_or_flush(sent)
         \/ cmd.kind = "route" /\ iproute_list_flush_or_save(sent)
      /\ UNCHANGED <<cmd, work, flushed, late, truth>>

(***************************************************************************)
(* The next command of a batch (with -force also after a failure): one     *)
(* request, which the kernel carries out or refuses.                       *)
(***************************************************************************)
Talk(type, fits) ==
  /\ pc = "talk"
  /\ rtnl_talk_send(type, fits)
  /\ truth' = type
  /\ pc' = "answer"
  /\ UNCHANGED <<cmd, work, flushb, flushed, round, late, status, hist>>

TalkReceive ==
  /\ pc = "answer"
  /\ \/ recvmsg(TRUE) /\ Answers(Head(queue)) /\ exits(Head(queue).type)
     \/ recvmsg(TRUE) /\ ~Answers(Head(queue)) /\ UNCHANGED <<pc, status>>
     \/ recvmsg_fails /\ exits("terminated")
  /\ UNCHANGED <<cmd, work, flushb, flushed, round, late, truth, hist>>

(***************************************************************************)
(* The environment: other processes, and the clock.                        *)
(***************************************************************************)
OtherAdds(id) ==
  /\ pc \in {"request", "dump", "update"}
  /\ Positions(table, id) = {} /\ Positions(hist.start, id) # {}
  /\ LET e == Entry(id, \E i \in DOMAIN table : Subnet[table[i].id] = Subnet[id])
     IN  table' = IF e.secondary THEN Append(table, e) ELSE Primaries(table) \o <<e>> \o Secondaries(table)
  /\ hist' = [hist EXCEPT !.added = @ \cup {id}]
  /\ UNCHANGED <<promote, pos, queue, overrun, rth, cmd, pc, work, flushb, flushed, round, late, status, truth>>

OtherDeletes(i) ==
  /\ hist.deleted < MaxDeleted /\ pc \in {"request", "dump", "update"}
  /\ table' = Remaining(table, table[i].id, promote)
  /\ hist' = [hist EXCEPT !.deleted = @ + 1, !.shifted = @ \/ pc = "dump"]
  /\ UNCHANGED <<promote, pos, queue, overrun, rth, cmd, pc, work, flushb, flushed, round, late, status, truth>>

Tick ==
  /\ cmd.kind = "route" /\ ~late
  /\ late' = TRUE
  /\ UNCHANGED <<sockVars, cmd, pc, work, flushb, flushed, round, status, truth, hist>>

ClientStep ==
  \/ \E ok \in BOOLEAN : Request(ok) \/ Receive(ok) \/ FilterFull(ok) \/ Update(ok)
  \/ FilterSkip \/ FilterStore \/ Complete
  \/ \E type \in {"ACK", "ERROR"}, ok \in BOOLEAN : Talk(type, ok)
  \/ TalkReceive

FlushNext ==
  \/ ClientStep
  \/ \E id \in Volatile : OtherAdds(id)
  \/ \E i \in DOMAIN table : OtherDeletes(i)
  \/ Tick

(***************************************************************************)
(* Fairness: the program goes on, and time passes.                         *)
(***************************************************************************)
FlushSpec ==
  FlushInit /\ [][FlushNext]_flushVars /\ WF_flushVars(ClientStep) /\ WF_flushVars(Tick)

-----------------------------------------------------------------------------
SelectedLeft == {table[i].id : i \in {j \in DOMAIN table : Selected(table[j])}}

WasSecondary(id) == \E i \in DOMAIN hist.start : hist.start[i] = Entry(id, TRUE)

(***************************************************************************)
(* A flush that reports completion has left nothing that it selects,       *)
(* except what another process added, although a buffer that is sent       *)
(* during the dump makes the dump pass over entries.  It can miss some     *)
(* only if another process deleted entries during the last dump, or if it  *)
(* is limited to one round and the buffer had to be sent during the dump.  *)
(* What a flush of primary addresses leaves are promoted ones.             *)
(***************************************************************************)
FlushComplete ==
  (status = "complete" /\ pc = "talk" /\ ~hist.shifted /\ (cmd.select = "primary" => ~hist.early)) =>
     \A id \in SelectedLeft : id \in hist.added \/ (cmd.select = "primary" /\ WasSecondary(id))

(***************************************************************************)
(* A flush of primary addresses never asks to delete one that was          *)
(* secondary when it began, as the comment on the single round intends,    *)
(* unless the buffer had to be sent during the dump, or another process    *)
(* changed the table.                                                      *)
(***************************************************************************)
PromotedKept ==
  (cmd.select = "primary" /\ ~hist.early /\ hist.deleted = 0 /\ hist.added = {}) =>
     \A i \in DOMAIN hist.asked : ~WasSecondary(hist.asked[i].entry.id)

(***************************************************************************)
(* A flush fails only if an answer was lost, another process interfered,   *)
(* or two datagrams of one dump held the same entry twice, or a primary    *)
(* address and then a secondary one of its subnet: the order of the two    *)
(* filters rules the latter out within a datagram.                         *)
(***************************************************************************)
AskedTooLate ==
  \E i, j \in DOMAIN hist.asked :
     LET x == hist.asked[i].entry
         y == hist.asked[j].entry
     IN  /\ hist.asked[i].from < hist.asked[j].from
         /\ x.id = y.id \/ (~x.secondary /\ y.secondary /\ Subnet[x.id] = Subnet[y.id])

FlushFails ==
  (status \in {"failed", "terminated"} /\ truth = "-") =>
     hist.lost \/ hist.deleted > 0 \/ hist.added # {} \/ AskedTooLate

(***************************************************************************)
(* The command after the flush reports what became of its own request,     *)
(* although answers to the flush may still wait in the socket.             *)
(***************************************************************************)
TalkTruthful ==
  status \in {"ACK", "ERROR"} => status = truth

(***************************************************************************)
(* A flush ends, even if another process keeps adding entries, unless the  *)
(* user asked for an unlimited number of rounds.                           *)
(***************************************************************************)
FlushEnds ==
  (cmd.kind = "address" => cmd.loops # 0) ~> (pc \in {"talk", "answer", "exited"})

=============================================================================
