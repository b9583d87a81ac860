------------------------------ MODULE PfabQdisc ------------------------------
(***************************************************************************)
(* The pFabric queueing discipline of sch_pfab.c: one qdisc, its priority  *)
(* bands, its occupancy bitmap and the statistics it publishes in /proc.   *)
(*                                                                         *)
(* The caller is left open here: any legal interleaving of the qdisc       *)
(* operations is allowed.  PfabRoot closes the module with the kernel's    *)
(* transmit loop.                                                          *)
(*                                                                         *)
(* Locking.  enqueue, dequeue and reset run under the root qdisc lock, so  *)
(* they exclude one another.  change and reset run under RTNL, but         *)
(* pfab_change does not take the qdisc lock, so it may run while another   *)
(* CPU is inside pfab_enqueue.  That function reads pfab_data->limit       *)
(* twice, before and after it queues the packet; the model therefore       *)
(* splits it there, and `pending' holds the packet between the two reads.  *)
(* The dequeue and drop paths read what change writes at most once, so     *)
(* each of them is a single step.                                          *)
(***************************************************************************)
EXTENDS PfabBitmap, Totals, Sequences

CONSTANTS DEFAULT_LIMIT,    \* packet buffer size without options (150)
          ETH_HEADER_LEN, IP_HEADER_LEN,
          U32,              \* the modulus of the code's u32 arithmetic
          Frames,           \* the frames the stack may hand to the device
          Opts,             \* the tc_pfabric_qopt the user may set
          MaxArrivals,      \* bound on the number of frames
          NoSkb             \* no packet

Word32 == 0 .. U32 - 1

Inc32(n) == IF n = U32 - 1 THEN 0 ELSE n + 1
\* Fault: the decrement does not wrap.
Dec32NoWrap(n) == n - 1
Dec32(n) == IF n = 0 THEN U32 - 1 ELSE n - 1
Add32(n, k) == (n + k) % U32
Sub32(n, k) == (n - k) % U32

(***************************************************************************)
(* A frame: whether it carries an IPv4 header, its length, and the byte at *)
(* the place where an IPv4 header has its TOS.  Other protocols have some  *)
(* other byte there.  An skb is a queued frame; id is its place in the     *)
(* order of arrival and exists only in the model.                          *)
(***************************************************************************)
FrameType == [ip : BOOLEAN, len : Nat, tos : Nat]

Skb == [id : 1 .. MaxArrivals, ip : {f.ip : f \in Frames}, len : {f.len : f \in Frames},
        priority : {0} \cup {f.tos : f \in Frames}]

DefaultOpt == [limit |-> DEFAULT_LIMIT, disable_dequeue |-> FALSE]

ASSUME QdiscAssumption ==
  /\ U32 \in Nat /\ U32 > 1
  /\ ETH_HEADER_LEN \in Nat /\ IP_HEADER_LEN \in Nat
  /\ MaxArrivals \in Nat /\ MaxArrivals < U32
  /\ Frames \subseteq FrameType
  /\ \A f \in Frames : f.ip => f.len >= ETH_HEADER_LEN + IP_HEADER_LEN
  /\ DEFAULT_LIMIT \in Word32
  /\ Opts \subseteq [limit : Word32, disable_dequeue : BOOLEAN]
  /\ \A o \in Opts, p \in Opts \cup {DefaultOpt} :
        [limit |-> o.limit, disable_dequeue |-> p.disable_dequeue] \in Opts
  /\ NoSkb \notin Skb

VARIABLES
  queues,           \* pfab_data->queues: the list of each band, head first
  bitmap,           \* pfab_data->bitmap
  limit,            \* pfab_data->limit
  disable_dequeue,  \* pfab_data->disable_dequeue
  qlen,             \* sch->q.qlen, the length every caller looks at
  backlog,          \* sch->qstats.backlog, in bytes
  drops,            \* sch->qstats.drops
  pfab_stats,       \* the global struct behind /proc/pfabric_stats_<dev>
  pending,          \* the skb inside pfab_enqueue, or NoSkb
  ret,              \* what the last completed pfab_enqueue returned
  arrived,          \* frames handed to pfab_enqueue so far
  sent,             \* history: skbs returned by pfab_dequeue
  freed,            \* history: skbs the qdisc has freed
  phantom           \* history: drops from an empty list since the last reset

data  == <<queues, bitmap, limit, disable_dequeue>>
sch   == <<qlen, backlog, drops>>
hist  == <<arrived, sent, freed, phantom>>
vars  == <<data, sch, pfab_stats, pending, ret, hist>>

Codes == {"none", "NET_XMIT_SUCCESS", "NET_XMIT_CN", "NET_XMIT_DROP"}

StatsType ==
  [limit : Word32, disable_dequeue : BOOLEAN, bitmap : Bitmap,
   drops : Word32, packets : Word32, bytes : Nat,
   per_band_packet_counter : [Bands -> Word32],
   non_ip_packet_counter : Word32, illegal_prio_occurance : Word32]

(***************************************************************************)
(* What an array of lists holds: its slots, and the packets in them.       *)
(***************************************************************************)
SlotsOf(q) == UNION {{b} \X DOMAIN q[b] : b \in Bands}

PacketsIn(q) == UNION {Range(q[b]) : b \in Bands}

(***************************************************************************)
(* memset(&pfab_stats, 0, ...) and the two assignments that follow it in   *)
(* pfab_init and in pfab_reset.                                            *)
(***************************************************************************)
ClearedStats ==
  [limit |-> DEFAULT_LIMIT, disable_dequeue |-> FALSE, bitmap |-> ZeroBitmap,
   drops |-> 0, packets |-> 0, bytes |-> 0,
   per_band_packet_counter |-> [b \in Bands |-> 0],
   non_ip_packet_counter |-> 0, illegal_prio_occurance |-> 0]

\* Fault: the word is not copied.
CopyNothing(stats, bm, band) == stats

(***************************************************************************)
(* The assignment at the end of bitmap_add_band and bitmap_remove_band:    *)
(* the word that holds band is copied to the statistics.                   *)
(***************************************************************************)
CopyWord(stats, bm, band) ==
  [stats EXCEPT !.bitmap[BandBMap(band)] = bm[BandBMap(band)]]

(***************************************************************************)
(* get_skb_priority tells IP from other frames by their length alone.      *)
(***************************************************************************)
get_skb_priority(f) ==
  IF f.len < ETH_HEADER_LEN + IP_HEADER_LEN THEN -1 ELSE f.tos

TooShort(f) == get_skb_priority(f) < 0

NewSkb(f) ==
  [id |-> arrived + 1, ip |-> f.ip, len |-> f.len,
   priority |-> IF TooShort(f) THEN 0 ELSE get_skb_priority(f)]

CountNonIp(f) ==
  [pfab_stats EXCEPT !.non_ip_packet_counter = IF TooShort(f) THEN Inc32(@) ELSE @]

CountBand(f) ==
  [CountNonIp(f) EXCEPT !.per_band_packet_counter[NewSkb(f).priority] = Inc32(@)]

(***************************************************************************)
(* The state after pfab_init, without options or with the given ones.      *)
(***************************************************************************)
pfab_init(opt) ==
  /\ queues = [b \in Bands |-> <<>>]
  /\ bitmap = ZeroBitmap
  /\ limit = opt.limit
  /\ disable_dequeue = opt.disable_dequeue
  /\ qlen = 0 /\ backlog = 0 /\ drops = 0
  /\ pfab_stats = [ClearedStats EXCEPT !.limit = opt.limit,
                                       !.disable_dequeue = opt.disable_dequeue]

Init ==
  /\ \E opt \in Opts \cup {DefaultOpt} : pfab_init(opt)
  /\ pending = NoSkb
  /\ ret = "none"
  /\ arrived = 0 /\ sent = {} /\ freed = {} /\ phantom = 0

-----------------------------------------------------------------------------
(***************************************************************************)
(* pfab_enqueue, up to its first read of the limit.                        *)
(***************************************************************************)
Arrives(f) ==
  /\ pending = NoSkb
  /\ arrived < MaxArrivals
  /\ arrived' = arrived + 1

qdisc_drop(skb) ==
  /\ freed' = freed \cup {skb}
  /\ drops' = Inc32(drops)
  /\ ret' = "NET_XMIT_DROP"

LegalPriority(skb) == skb.priority < NUM_BANDS

EnqueueIllegal(f) ==
  /\ Arrives(f)
  /\ ~ LegalPriority(NewSkb(f))
  /\ pfab_stats' = [CountNonIp(f) EXCEPT !.illegal_prio_occurance = Inc32(@)]
  /\ qdisc_drop(NewSkb(f))
  /\ UNCHANGED <<data, qlen, backlog, pending, sent, phantom>>

(***************************************************************************)
(* The test at lines 171-174: the buffer is full and the lowest priority   *)
(* band that the bitmap shows is no less urgent than the new packet.       *)
(***************************************************************************)
\* Fault: a full buffer refuses every packet, also the most urgent one.
RefusedWhenFull(skb) == qlen >= limit /\ bitmap_low_prio(bitmap) >= 0

Refused(skb) ==
  /\ qlen >= limit
  /\ bitmap_low_prio(bitmap) \in 0 .. skb.priority

EnqueueRefuse(f) ==
  /\ Arrives(f)
  /\ LegalPriority(NewSkb(f))
  /\ Refused(NewSkb(f))
  /\ pfab_stats' = CountBand(f)
  /\ qdisc_drop(NewSkb(f))
  /\ UNCHANGED <<data, qlen, backlog, pending, sent, phantom>>

EnqueueAdmit(f) ==
  /\ Arrives(f)
  /\ LegalPriority(NewSkb(f))
  /\ ~ Refused(NewSkb(f))
  /\ pfab_stats' = CountBand(f)
  /\ pending' = NewSkb(f)
  /\ ret' = "none"
  /\ UNCHANGED <<data, sch, sent, freed, phantom>>

(***************************************************************************)
(* pfab_enqueue from line 183: queue the packet, read the limit again and, *)
(* if it is exceeded, drop one packet.                                     *)
(***************************************************************************)
QueuedBitmap == bitmap_add_band(bitmap, pending.priority)

\* Fault: __skb_queue_head in place of __skb_queue_tail.
QueuedAtHead == [queues EXCEPT ![pending.priority] = <<pending>> \o @]

QueuedLists  == [queues EXCEPT ![pending.priority] = Append(@, pending)]

QueuedStats  ==
  [CopyWord(pfab_stats, QueuedBitmap, pending.priority)
     EXCEPT !.bytes = @ + pending.len, !.packets = Inc32(@)]

\* Fault: the limit is compared with the length before the increment.
EnqueueFitsOneMore ==
  /\ pending # NoSkb
  /\ qlen <= limit
  /\ bitmap' = QueuedBitmap
  /\ queues' = QueuedLists
  /\ qlen' = Inc32(qlen)
  /\ backlog' = Add32(backlog, pending.len)
  /\ pfab_stats' = QueuedStats
  /\ pending' = NoSkb
  /\ ret' = "NET_XMIT_SUCCESS"
  /\ UNCHANGED <<limit, disable_dequeue, drops, hist>>

\* Fault: sch->q.qlen++ is missing.
EnqueueFitsUncounted ==
  /\ pending # NoSkb
  /\ Inc32(qlen) <= limit
  /\ bitmap' = QueuedBitmap
  /\ queues' = QueuedLists
  /\ qlen' = qlen
  /\ backlog' = Add32(backlog, pending.len)
  /\ pfab_stats' = QueuedStats
  /\ pending' = NoSkb
  /\ ret' = "NET_XMIT_SUCCESS"
  /\ UNCHANGED <<limit, disable_dequeue, drops, hist>>

EnqueueFits ==
  /\ pending # NoSkb
  /\ Inc32(qlen) <= limit
  /\ bitmap' = QueuedBitmap
  /\ queues' = QueuedLists
  /\ qlen' = Inc32(qlen)
  /\ backlog' = Add32(backlog, pending.len)
  /\ pfab_stats' = QueuedStats
  /\ pending' = NoSkb
  /\ ret' = "NET_XMIT_SUCCESS"
  /\ UNCHANGED <<limit, disable_dequeue, drops, hist>>

(***************************************************************************)
(* pfab_drop, called once the new packet is queued.  __qdisc_queue_drop_   *)
(* head frees the head of the list, if there is one; the length and both   *)
(* drop counters change in any case, and the bitmap in none.  Its -1 path  *)
(* cannot be taken here: the bit of the new packet has just been set.      *)
(***************************************************************************)
DropBand == bitmap_low_prio(QueuedBitmap)
DropList == QueuedLists[DropBand]

\* Fault: sch->q.qlen-- is missing.
DropUncounted ==
  /\ bitmap' = QueuedBitmap
  /\ qlen' = Inc32(qlen)
  /\ drops' = Inc32(drops)
  /\ pfab_stats' = [QueuedStats EXCEPT !.drops = Inc32(@)]

\* Fault: pfab_stats.tc_stats.drops++ is missing.
DropUnpublished ==
  /\ bitmap' = QueuedBitmap
  /\ qlen' = qlen
  /\ drops' = Inc32(drops)
  /\ pfab_stats' = QueuedStats

pfab_drop ==
  /\ bitmap' = QueuedBitmap
  /\ qlen' = qlen
  /\ drops' = Inc32(drops)
  /\ pfab_stats' = [QueuedStats EXCEPT !.drops = Inc32(@)]

\* Fault: the head is freed but stays in the list.
DropHeadLinked ==
  /\ DropList # <<>>
  /\ queues' = QueuedLists
  /\ backlog' = Sub32(Add32(backlog, pending.len), Head(DropList).len)
  /\ freed' = freed \cup {Head(DropList)}
  /\ UNCHANGED phantom

\* Fault: the backlog loses the length of the new packet, not of the head.
DropHeadWrongLength ==
  /\ DropList # <<>>
  /\ queues' = [QueuedLists EXCEPT ![DropBand] = Tail(@)]
  /\ backlog' = backlog
  /\ freed' = freed \cup {Head(DropList)}
  /\ UNCHANGED phantom

DropHead ==
  /\ DropList # <<>>
  /\ queues' = [QueuedLists EXCEPT ![DropBand] = Tail(@)]
  /\ backlog' = Sub32(Add32(backlog, pending.len), Head(DropList).len)
  /\ freed' = freed \cup {Head(DropList)}
  /\ UNCHANGED phantom

DropNothing ==
  /\ DropList = <<>>
  /\ queues' = QueuedLists
  /\ backlog' = Add32(backlog, pending.len)
  /\ phantom' = phantom + 1
  /\ UNCHANGED freed

EnqueueOverflow ==
  /\ pending # NoSkb
  /\ Inc32(qlen) > limit
  /\ pfab_drop
  /\ DropHead \/ DropNothing
  /\ pending' = NoSkb
  /\ ret' = "NET_XMIT_CN"
  /\ UNCHANGED <<limit, disable_dequeue, arrived, sent>>
-----------------------------------------------------------------------------
(***************************************************************************)
(* pfab_dequeue and pfab_peek.  NoSkb stands for NULL.                     *)
(***************************************************************************)
HighList == queues[bitmap_high_prio(bitmap)]

pfab_peek ==
  IF bitmap_high_prio(bitmap) < 0 \/ HighList = <<>> THEN NoSkb ELSE Head(HighList)

CanDequeue ==
  /\ ~ disable_dequeue
  /\ bitmap_high_prio(bitmap) >= 0
  /\ HighList # <<>>

Dequeue ==
  LET band == bitmap_high_prio(bitmap)
  IN  /\ pending = NoSkb
      /\ CanDequeue
      /\ queues' = [queues EXCEPT ![band] = Tail(@)]
      /\ qlen' = Dec32(qlen)
      /\ backlog' = Sub32(backlog, Head(HighList).len)
      /\ \/ /\ Tail(HighList) = <<>>
            /\ bitmap' = bitmap_remove_band(bitmap, band)
            /\ pfab_stats' = CopyWord(pfab_stats, bitmap', band)
         \/ /\ Tail(HighList) # <<>>
            /\ UNCHANGED <<bitmap, pfab_stats>>
      /\ sent' = sent \cup {Head(HighList)}
      /\ ret' = "none"
      /\ UNCHANGED <<limit, disable_dequeue, drops, pending, arrived, freed, phantom>>

(***************************************************************************)
(* NULL is returned when dequeuing is disabled, when no bit is set, and    *)
(* when the highest bit that is set belongs to an empty list.              *)
(***************************************************************************)
DequeueNull ==
  /\ pending = NoSkb
  /\ ~ CanDequeue
  /\ ret' = "none"
  /\ UNCHANGED <<data, sch, pfab_stats, pending, hist>>

(***************************************************************************)
(* pfab_change.  Its two assignments are one step: a reader of the state   *)
(* between them sees the new limit with the old flag, which is the state   *)
(* after another member of Opts (QdiscAssumption).  A missing or short     *)
(* attribute is refused with -EINVAL and changes nothing.                  *)
(***************************************************************************)
Change(opt) ==
  /\ limit' = opt.limit
  /\ disable_dequeue' = opt.disable_dequeue
  /\ pfab_stats' = [pfab_stats EXCEPT !.limit = opt.limit,
                                      !.disable_dequeue = opt.disable_dequeue]
  /\ UNCHANGED <<queues, bitmap, sch, pending, ret, hist>>

(***************************************************************************)
(* pfab_reset, called when the device is deactivated.  The lists, the      *)
(* length and the statistics are cleared; the bitmap, the limit and the    *)
(* dequeue flag of the qdisc are not.                                      *)
(***************************************************************************)
Contents == PacketsIn(queues)

Reset ==
  /\ pending = NoSkb
  /\ queues' = [b \in Bands |-> <<>>]
  /\ backlog' = 0
  /\ qlen' = 0
  /\ pfab_stats' = ClearedStats
  /\ freed' = freed \cup Contents
  /\ phantom' = 0
  /\ ret' = "none"
  /\ UNCHANGED <<bitmap, limit, disable_dequeue, drops, pending, arrived, sent>>

Enqueue ==
  \/ \E f \in Frames : EnqueueIllegal(f) \/ EnqueueRefuse(f) \/ EnqueueAdmit(f)
  \/ EnqueueFits
  \/ EnqueueOverflow

Next ==
  \/ Enqueue
  \/ Dequeue
  \/ DequeueNull
  \/ \E opt \in Opts : Change(opt)
  \/ Reset

Spec == Init /\ [][Next]_vars
-----------------------------------------------------------------------------
(***************************************************************************)
(* Every variable keeps its type; in particular the u32 counters stay in   *)
(* range through every increment and decrement.                            *)
(***************************************************************************)
TypeOK ==
  /\ queues \in [Bands -> Seq(Skb)]
  /\ bitmap \in Bitmap
  /\ limit \in Word32
  /\ disable_dequeue \in BOOLEAN
  /\ qlen \in Word32
  /\ backlog \in Word32
  /\ drops \in Word32
  /\ pfab_stats \in StatsType
  /\ pending \in Skb \cup {NoSkb}
  /\ ret \in Codes
  /\ arrived \in 0 .. MaxArrivals
  /\ sent \in SUBSET Skb
  /\ freed \in SUBSET Skb
  /\ phantom \in Nat

Occupancy == Cardinality(SlotsOf(queues))

(***************************************************************************)
(* A band that holds a packet has its bit set, so neither scan of the      *)
(* bitmap can overlook a queued packet.  pfab_dequeue clears a bit only    *)
(* when it has taken the last packet of the band, and pfab_reset, which    *)
(* leaves the bits alone, leaves no packet either.                         *)
(***************************************************************************)
BitmapCoversQueues ==
  \A b \in Bands : queues[b] # <<>> => b \in SetBands(bitmap)

Ids(S) == {s.id : s \in S}

InFlight == {pending} \ {NoSkb}

(***************************************************************************)
(* An skb is owned exactly once: each frame that arrived is inside         *)
(* pfab_enqueue, in one slot of the list of its own priority, returned by  *)
(* pfab_dequeue, or freed, and in no two of these.  Nothing is leaked,     *)
(* freed twice or transmitted after it was freed, on any of the drop,      *)
(* evict, dequeue and purge paths.                                         *)
(***************************************************************************)
OwnedOnce ==
  /\ Ids(InFlight) \cup Ids(Contents) \cup Ids(sent) \cup Ids(freed) = 1 .. arrived
  /\ Ids(InFlight) \cap (Ids(Contents) \cup Ids(sent) \cup Ids(freed)) = {}
  /\ Ids(Contents) \cap (Ids(sent) \cup Ids(freed)) = {}
  /\ Ids(sent) \cap Ids(freed) = {}
  /\ \A b, c \in Bands : \A i \in DOMAIN queues[b], j \in DOMAIN queues[c] :
       queues[b][i].id = queues[c][j].id => b = c /\ i = j
  /\ \A b \in Bands : \A i \in DOMAIN queues[b] : queues[b][i].priority = b

(***************************************************************************)
(* sch->q.qlen counts the queued packets, less one for every time          *)
(* pfab_drop decremented it without finding a packet to free, in u32       *)
(* arithmetic.  The increment, the decrements and the reset have no other  *)
(* way of getting out of step.                                             *)
(***************************************************************************)
QlenAccounting == qlen = (Occupancy - phantom) % U32

(***************************************************************************)
(* sch->qstats.backlog is the number of queued bytes whatever happens to   *)
(* the length: __qdisc_queue_drop_head subtracts the length of the packet  *)
(* it really freed.                                                        *)
(***************************************************************************)
BacklogExact == backlog = Total([s \in Contents |-> s.len], Contents) % U32

(***************************************************************************)
(* Within a band packets leave in the order of arrival: each list is       *)
(* sorted by arrival, and whatever pfab_dequeue has returned from a band   *)
(* arrived before all that is still queued there.                          *)
(***************************************************************************)
FifoPerBand ==
  \A b \in Bands : \A j \in DOMAIN queues[b] :
    /\ \A i \in 1 .. j - 1 : queues[b][i].id < queues[b][j].id
    /\ \A s \in sent : s.priority = b => s.id < queues[b][j].id

(***************************************************************************)
(* The buffer outgrows the largest limit that can be set by at most one    *)
(* packet for each drop that found an empty list: nothing else lets        *)
(* pfab_enqueue keep a packet too many, not even a pfab_change between its *)
(* two reads of the limit.                                                 *)
(***************************************************************************)
LimitUpToPhantom ==
  \E opt \in Opts \cup {DefaultOpt} : Occupancy <= opt.limit + phantom

(***************************************************************************)
(* What /proc shows: the options are those of the qdisc or, since a        *)
(* pfab_reset that no pfab_change followed, the defaults; and the copy of  *)
(* the bitmap agrees with the bitmap in every word that has a band with a  *)
(* packet, although pfab_reset clears the copy and not the bitmap, and     *)
(* only one word is copied at a time.                                      *)
(***************************************************************************)
StatsReflectQdisc ==
  /\ \/ pfab_stats.limit = limit /\ pfab_stats.disable_dequeue = disable_dequeue
     \/ pfab_stats.limit = DEFAULT_LIMIT /\ ~ pfab_stats.disable_dequeue
  /\ \A b \in Bands : queues[b] # <<>> =>
       pfab_stats.bitmap[BandBMap(b)] = bitmap[BandBMap(b)]

(***************************************************************************)
(* The two sets of counters agree: sch->qstats.drops grows by exactly the  *)
(* frames that pfab_stats shows as illegal, as counted in a band but not   *)
(* queued (refused), or as dropped.  Only clearing pfab_stats, which       *)
(* leaves sch->qstats alone, changes the difference.                       *)
(***************************************************************************)
RefusedInStats ==
  Total(pfab_stats.per_band_packet_counter, Bands)
    - pfab_stats.packets - Cardinality(InFlight)

Unbalanced ==
  (drops - pfab_stats.drops - pfab_stats.illegal_prio_occurance - RefusedInStats) % U32

CountersBalance == [][Unbalanced' = Unbalanced \/ pfab_stats' = ClearedStats]_vars

(***************************************************************************)
(* What pfab_dequeue returns is the oldest of the most urgent packets that *)
(* are really queued, however many stale bits the bitmap has, and it is    *)
(* the packet that pfab_peek showed before.                                *)
(***************************************************************************)
MostUrgentFirst ==
  [][\A s \in sent' \ sent :
       /\ s = pfab_peek
       /\ \A c \in Contents :
            s.priority < c.priority \/ (s.priority = c.priority /\ s.id <= c.id)]_vars

(***************************************************************************)
(* pFabric's loss rule: when a packet with a legal priority is lost, by    *)
(* being refused, evicted or purged, every packet that stays in the buffer *)
(* is at least as urgent.                                                  *)
(***************************************************************************)
LeastUrgentLost ==
  [][\A s \in freed' \ freed : LegalPriority(s) =>
       \A c \in Contents' : c.priority <= s.priority]_vars

(***************************************************************************)
(* The qdisc implements PrioBuffer: its lists are the buffer, and each     *)
(* step of the code is one step of the abstract buffer or leaves it alone. *)
(* The packet inside pfab_enqueue enters the buffer when it is queued.     *)
(***************************************************************************)
PB == INSTANCE PrioBuffer
        WITH Classes <- Bands, Packets <- Skb, buf <- queues, lost <- freed

ImplementsPrioBuffer == PB!PBSpec

(***************************************************************************)
(* "If there are queued packets, dequeue" (sch_pfab.c:237): pfab_dequeue   *)
(* returns a packet whenever one is queued and dequeuing is not disabled.  *)
(***************************************************************************)
DequeueFindsPacket == Contents # {} /\ ~ disable_dequeue => CanDequeue
=============================================================================
