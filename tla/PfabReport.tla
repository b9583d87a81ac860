----------------------------- MODULE PfabReport -----------------------------
(***************************************************************************)
(* Reading the statistics while they change.  pfab_stats is one struct for *)
(* all pFabric qdiscs of the machine.  Each qdisc updates it under its own *)
(* root lock, so two qdiscs may do so at once, and a counter++ is a load   *)
(* and a store.  The /proc files are written by seq_printf calls that take *)
(* no lock at all.                                                         *)
(*                                                                         *)
(* An enqueue is reduced to the counters it increments, in the order of    *)
(* the code: the band's counter, then packets if the frame is queued, then *)
(* drops if that makes pfab_drop run.  The other fields are not related to *)
(* one another by the code and are left out.                               *)
(***************************************************************************)
EXTENDS Totals, Sequences, FiniteSets

CONSTANTS Qdiscs,
          Bands,      \* the counters per_band_packet_counter[i]
          U32,        \* 2^32: the counters are of type u32
          MaxFrames,  \* bound on the number of frames
          None        \* no value loaded

Header == {"packets", "drops"}

Counters == Header \cup Bands

ASSUME ReportAssumption ==
  /\ IsFiniteSet(Qdiscs) /\ IsFiniteSet(Bands)
  /\ Bands \cap Header = {}
  /\ U32 \in Nat \ {0}
  /\ MaxFrames \in Nat
  /\ None \notin Nat

VARIABLES
  pfab_stats,  \* the shared counters
  pc,          \* the counters each qdisc's pfab_enqueue has still to increment
  reg,         \* the value it has loaded of the first of them
  wiping,      \* the counters each qdisc's memset has still to set to zero
  frames,      \* frames that have arrived
  todo,        \* the counters the reader has still to print
  report,      \* the values it has printed
  counted,     \* history: increments since the last clearing began
  raced,       \* history: those made while another qdisc had loaded the counter
  spoilt,      \* history: that clearing and an enqueue overlapped
  cleared      \* history: a clearing and this report overlapped

stats   == <<pfab_stats, pc, reg, wiping, frames, counted, raced, spoilt>>
reader  == <<todo, report, cleared>>
reportVars == <<stats, reader>>

Zero == [c \in Counters |-> 0]

Enqueuing == {q \in Qdiscs : pc[q] # <<>>}
Wiping    == {q \in Qdiscs : wiping[q] # {}}

ReportInit ==
  /\ pfab_stats = Zero
  /\ pc = [q \in Qdiscs |-> <<>>]
  /\ reg = [q \in Qdiscs |-> None]
  /\ wiping = [q \in Qdiscs |-> {}]
  /\ frames = 0
  /\ todo = Counters
  /\ report = Zero
  /\ counted = Zero
  /\ raced = Zero
  /\ spoilt = FALSE
  /\ cleared = FALSE

(***************************************************************************)
(* The increments of pfab_enqueue for a frame of band b that is refused,   *)
(* queued, or queued at the price of a drop.                               *)
(***************************************************************************)
pfab_enqueue(b) == {<<b>>, <<b, "packets">>, <<b, "packets", "drops">>}

Arrive(q) ==
  /\ q \notin Enqueuing \cup Wiping
  /\ frames < MaxFrames
  /\ \E b \in Bands : \E increments \in pfab_enqueue(b) : pc' = [pc EXCEPT ![q] = increments]
  /\ frames' = frames + 1
  /\ spoilt' = (spoilt \/ Wiping # {})
  /\ UNCHANGED <<pfab_stats, reg, wiping, counted, raced, reader>>

Load(q) ==
  /\ pc[q] # <<>>
  /\ reg[q] = None
  /\ reg' = [reg EXCEPT ![q] = pfab_stats[Head(pc[q])]]
  /\ UNCHANGED <<pfab_stats, pc, wiping, frames, counted, raced, spoilt, reader>>

\* Another qdisc is between the load and the store of an increment of c.
Contended(q, c) == \E r \in Qdiscs \ {q} : reg[r] # None /\ Head(pc[r]) = c

\* Fault: a frame that is dropped for another one is counted twice.
StoreTwice(q) ==
  LET c == Head(pc[q])
  IN  /\ reg[q] # None
      /\ pfab_stats' = [pfab_stats EXCEPT ![c] = (reg[q] + IF c = "drops" THEN 2 ELSE 1) % U32]
      /\ counted' = [counted EXCEPT ![c] = @ + 1]
      /\ raced' = IF Contended(q, c) THEN [raced EXCEPT ![c] = @ + 1] ELSE raced
      /\ pc' = [pc EXCEPT ![q] = Tail(@)]
      /\ reg' = [reg EXCEPT ![q] = None]
      /\ UNCHANGED <<wiping, frames, spoilt, reader>>

Store(q) ==
  LET c == Head(pc[q])
  IN  /\ reg[q] # None
      /\ pfab_stats' = [pfab_stats EXCEPT ![c] = (reg[q] + 1) % U32]
      /\ counted' = [counted EXCEPT ![c] = @ + 1]
      /\ raced' = IF Contended(q, c) THEN [raced EXCEPT ![c] = @ + 1] ELSE raced
      /\ pc' = [pc EXCEPT ![q] = Tail(@)]
      /\ reg' = [reg EXCEPT ![q] = None]
      /\ UNCHANGED <<wiping, frames, spoilt, reader>>

\* Fault: the counters of the bands are forgotten.
ClearHeader(q) ==
  /\ q \notin Enqueuing /\ Wiping = {}
  /\ wiping' = [wiping EXCEPT ![q] = Header]
  /\ counted' = Zero
  /\ raced' = Zero
  /\ spoilt' = (Enqueuing # {})
  /\ cleared' = TRUE
  /\ UNCHANGED <<pfab_stats, pc, reg, frames, todo, report>>

(***************************************************************************)
(* pfab_init or pfab_reset of qdisc q clears the counters of all qdiscs.   *)
(* q itself is not inside pfab_enqueue meanwhile, its root lock being held *)
(* or its device not using it yet; others may be, or may enter it.  The    *)
(* memset zeroes one counter after another, in an order that C leaves      *)
(* open, and a value that an enqueue has loaded survives it.  The kernel   *)
(* calls both under the RTNL mutex, so one clearing runs at a time.        *)
(***************************************************************************)
Clear(q) ==
  /\ q \notin Enqueuing /\ Wiping = {}
  /\ wiping' = [wiping EXCEPT ![q] = Counters]
  /\ counted' = Zero
  /\ raced' = Zero
  /\ spoilt' = (Enqueuing # {})
  /\ cleared' = TRUE
  /\ UNCHANGED <<pfab_stats, pc, reg, frames, todo, report>>

Wipe(q) ==
  /\ \E c \in wiping[q] :
       /\ pfab_stats' = [pfab_stats EXCEPT ![c] = 0]
       /\ wiping' = [wiping EXCEPT ![q] = @ \ {c}]
  /\ UNCHANGED <<pc, reg, frames, counted, raced, spoilt, reader>>

\* Fault: the bands are printed before the totals.
BandsFirst == IF todo \cap Bands = {} THEN todo ELSE todo \cap Bands

(***************************************************************************)
(* pfab_stats_proc_seq_show.  The arguments of the first seq_printf are    *)
(* evaluated in an order that C leaves open; the bands follow, each in a   *)
(* call of its own.                                                        *)
(***************************************************************************)
pfab_stats_proc_seq_show == IF todo \cap Header = {} THEN todo ELSE todo \cap Header

PrintCounter ==
  /\ \E c \in pfab_stats_proc_seq_show :
       /\ report' = [report EXCEPT ![c] = pfab_stats[c]]
       /\ todo' = todo \ {c}
  /\ UNCHANGED <<stats, cleared>>

(***************************************************************************)
(* The show callback is called again for the next reader, whose first read *)
(* finds *pos = 0, or in the middle of a report when the text outgrows the *)
(* buffer of the seq_file and seq_read starts over with a larger one.      *)
(***************************************************************************)
pfab_stats_proc_seq_start ==
  /\ todo # Counters
  /\ todo' = Counters
  /\ report' = Zero
  /\ cleared' = (Wiping # {})
  /\ UNCHANGED stats

ReportNext ==
  \/ \E q \in Qdiscs : Arrive(q) \/ Load(q) \/ Store(q) \/ Clear(q) \/ Wipe(q)
  \/ PrintCounter
  \/ pfab_stats_proc_seq_start

ReportSpec == ReportInit /\ [][ReportNext]_reportVars
-----------------------------------------------------------------------------
(***************************************************************************)
(* How far a shared counter can be off.  Nothing is counted twice, and an  *)
(* increment is only ever lost to one of another qdisc that had loaded the *)
(* same counter before and stores it later: those that met no such rival   *)
(* are all in the counter, however the enqueues of the qdiscs interleave.  *)
(* This is since a clearing that overlapped no enqueue (another one leaves *)
(* counters that are zeroed or not, and old values that come back), and    *)
(* for less than 2^32 increments.                                          *)
(***************************************************************************)
CountersBounded ==
  Wiping = {} /\ ~ spoilt =>
    \A c \in Counters : counted[c] < U32 =>
      counted[c] - raced[c] <= pfab_stats[c] /\ pfab_stats[c] <= counted[c]

(***************************************************************************)
(* A report adds up although it is put together while the counters change: *)
(* it never shows more packets or drops than arrivals in the bands, up to  *)
(* the increments of the bands that were exposed to another qdisc's.  This *)
(* rests on pfab_stats_proc_seq_show printing the bands after the totals,  *)
(* in the opposite order to that in which pfab_enqueue counts.  It is said *)
(* of a report that no clearing overlaps, under the same conditions.       *)
(***************************************************************************)
ReportAddsUp ==
  todo = {} /\ ~ cleared /\ ~ spoilt /\ (\A c \in Counters : counted[c] < U32) =>
    \A c \in Header : report[c] <= Total(report, Bands) + Total(raced, Bands)
=============================================================================
