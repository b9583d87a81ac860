-------------------------- MODULE PfabBuffer_proofs --------------------------
(***************************************************************************)
(* The qdisc as a buffer: the backlog is exact, bands are FIFO, the length *)
(* accounts for every packet, the limit holds up to phantom drops, the     *)
(* most urgent packet leaves first and the least urgent is lost.           *)
(*                                                                         *)
(* It implements PrioBuffer: each kind of step of PfabQdisc_proofs is one  *)
(* step of the abstract buffer, or leaves it alone.  And as the root of a  *)
(* device (PfabRoot) it is never left idle with a packet it would give.    *)
(***************************************************************************)
EXTENDS PfabQdisc_proofs, PfabRoot

\* A leaf is tried with SMT, then with Zenon, then with SMT and more time.
USE SMT, Zenon, SMTT(30)

(***************************************************************************)
(* The lists once pfab_enqueue has queued the packet it holds.             *)
(***************************************************************************)
LEMMA Queued ==
  ASSUME SafeInv, pending # NoSkb
  PROVE  /\ queues \in Lists /\ QueuedLists \in Lists
         /\ pending \in Skb /\ pending.priority \in Bands
         /\ QueuedLists = Appended(queues, pending.priority, pending)
         /\ Placed(queues) /\ Distinct(QueuedLists) /\ Placed(QueuedLists)
         /\ \A n \in QueuedIds(queues) \cup Ids(sent) : n < pending.id
         /\ pending.id \notin QueuedIds(queues) \cup Ids(sent) \cup Ids(freed)
<1>1. /\ pending \in Skb /\ pending.priority \in Bands /\ pending.id = arrived
      /\ queues \in Lists /\ QueuedLists \in Lists /\ arrived \in Nat
      /\ QueuedLists = Appended(queues, pending.priority, pending)
      /\ Ids(InFlight) = {arrived}
  BY QueuedListsAppended, InFlightIds DEF SafeInv, TypeInv, TypeOK, PendingOK
<1>2. /\ QueuedIds(queues) \cup Ids(sent) \subseteq 1 .. arrived
      /\ arrived \notin QueuedIds(queues) \cup Ids(sent) \cup Ids(freed)
      /\ Distinct(queues) /\ Placed(queues)
  BY <1>1 DEF SafeInv, OwnedOnce, QueuedIds, Contents, Distinct, Placed
<1>3. \A n \in QueuedIds(queues) \cup Ids(sent) : n < pending.id
  <2> SUFFICES ASSUME NEW n \in QueuedIds(queues) \cup Ids(sent) PROVE n < arrived
    BY <1>1
  <2>1. n \in 1 .. arrived /\ n # arrived
    BY <1>2
  <2> QED BY <1>1, <2>1
<1>4. Distinct(QueuedLists) /\ Placed(QueuedLists)
  BY <1>1, <1>2, AppendOwned
<1> QED BY <1>1, <1>2, <1>3, <1>4

(***************************************************************************)
(* The backlog.  The inductive invariant adds that finitely many packets   *)
(* are queued, without which there is no total of their lengths; that a    *)
(* packet is counted once and not twice rests on OwnedOnce.                *)
(***************************************************************************)
Lengths == [s \in Skb |-> s.len]

BytesInv == IsFiniteSet(Contents) /\ BacklogExact

\* Adding to a remainder is adding to the number.
LEMMA ModAdd ==
  ASSUME NEW n \in Int, NEW k \in Int
  PROVE  ((n % U32) + k) % U32 = (n + k) % U32
<1> DEFINE r == n % U32
           q == n \div U32
           s == (r + k) % U32
           p == (r + k) \div U32
<1>1. U32 \in Nat \ {0}
  BY QdiscAssumption
<1>2. r \in 0 .. U32 - 1 /\ q \in Int /\ n = q * U32 + r
  BY <1>1, ModSplit
<1>3. s \in 0 .. U32 - 1 /\ p \in Int /\ r + k = p * U32 + s
  <2>1. r + k \in Int
    BY <1>1, <1>2
  <2> HIDE DEF r
  <2> QED BY <1>1, <2>1, ModSplit, Zenon
<1> HIDE DEF r, q, s, p
<1>4. n + k = (q + p) * U32 + s
  BY <1>1, <1>2, <1>3
<1>5. (n + k) % U32 = s
  <2>1. q + p \in Int
    BY <1>2, <1>3
  <2>2. ((q + p) * U32 + s) % U32 = s
    BY <1>1, <1>3, <2>1, ModUnique
  <2> QED BY <1>4, <2>2
<1> QED BY <1>5 DEF s, r

\* The queued bytes, with the lengths of all skbs.
LEMMA BytesTotal ==
  ASSUME NEW C, C \subseteq Skb, IsFiniteSet(C)
  PROVE  Total([s \in C |-> s.len], C) = Total(Lengths, C) /\ Total(Lengths, C) \in Int
<1> DEFINE f == [s \in C |-> s.len]
<1>1. \A s \in C : f[s] = Lengths[s] /\ f[s] \in Int
  BY SkbType DEF Lengths
<1> HIDE DEF f
<1>2. Total(f, C) = Total(Lengths, C) /\ Total(f, C) \in Int
  BY <1>1, TotalAgree
<1> QED BY <1>2 DEF f

\* The packets of lists of skbs are skbs.
LEMMA PacketsAreSkbs ==
  ASSUME NEW q \in Lists
  PROVE  PacketsIn(q) \subseteq Skb
  BY PacketsInMember, ListShape

\* Appending a new packet adds its length.
LEMMA AppendBytes ==
  ASSUME NEW q \in Lists, NEW b \in Bands, NEW x \in Skb, x.id \notin QueuedIds(q),
         IsFiniteSet(PacketsIn(q))
  PROVE  /\ IsFiniteSet(PacketsIn(Appended(q, b, x)))
         /\ Total(Lengths, PacketsIn(Appended(q, b, x))) = Total(Lengths, PacketsIn(q)) + x.len
<1> DEFINE C == PacketsIn(q)
<1>1. PacketsIn(Appended(q, b, x)) = C \cup {x}
  BY AppendPackets
<1>2. x \notin C
  BY DEF QueuedIds, Ids
<1>3. C \subseteq Skb
  BY PacketsAreSkbs
<1> HIDE DEF C
<1>4. IsFiniteSet(C) /\ IsFiniteSet(C \cup {x})
  BY FS_AddElement DEF C
<1>5. \A y \in C \cup {x} : Lengths[y] \in Int
  BY <1>3, SkbType DEF Lengths
<1>6. Total(Lengths, C \cup {x}) = Lengths[x] + Total(Lengths, C)
  BY <1>2, <1>4, <1>5, TotalAdd, Zenon
<1>7. Lengths[x] = x.len /\ x.len \in Int /\ Total(Lengths, C) \in Int
  <2>1. Lengths[x] = x.len /\ x.len \in Int
    BY SkbType DEF Lengths
  <2>2. Total(Lengths, C) \in Int
    BY <1>3, <1>4, BytesTotal, Zenon
  <2> QED BY <2>1, <2>2
<1>8. Total(Lengths, C \cup {x}) = Total(Lengths, C) + x.len
  BY <1>6, <1>7
<1> QED BY <1>1, <1>4, <1>8 DEF C

\* Taking the head of a list takes its length off.
LEMMA TailBytes ==
  ASSUME NEW q \in Lists, NEW b \in Bands, q[b] # <<>>, Distinct(q), Placed(q),
         IsFiniteSet(PacketsIn(q))
  PROVE  /\ IsFiniteSet(PacketsIn(Tailed(q, b)))
         /\ Total(Lengths, PacketsIn(Tailed(q, b))) = Total(Lengths, PacketsIn(q)) - Head(q[b]).len
         /\ Head(q[b]) \in Skb
<1> DEFINE C == PacketsIn(q)
           D == PacketsIn(Tailed(q, b))
           h == Head(q[b])
<1>1. C = D \cup {h}
  BY TailPackets
<1>2. h.id \notin QueuedIds(Tailed(q, b))
  BY TailOwned
<1>3. h \notin D
  BY <1>2 DEF QueuedIds, Ids
<1>4. C \subseteq Skb
  BY PacketsAreSkbs
<1>5. IsFiniteSet(C)
  OBVIOUS
<1> HIDE DEF C, D, h
<1>6. IsFiniteSet(D) /\ D \subseteq Skb /\ h \in Skb
  BY <1>1, <1>4, <1>5, FS_Subset
<1>7. \A y \in D \cup {h} : Lengths[y] \in Int
  BY <1>6, SkbType DEF Lengths
<1>8. Total(Lengths, D \cup {h}) = Lengths[h] + Total(Lengths, D)
  BY <1>3, <1>6, <1>7, TotalAdd, Zenon
<1>9. Lengths[h] = h.len /\ h.len \in Int /\ Total(Lengths, D) \in Int
  <2>1. Lengths[h] = h.len /\ h.len \in Int
    BY <1>6, SkbType DEF Lengths
  <2>2. Total(Lengths, D) \in Int
    BY <1>6, BytesTotal, Zenon
  <2> QED BY <2>1, <2>2
<1>10. Total(Lengths, D) = Total(Lengths, C) - h.len
  BY <1>1, <1>8, <1>9
<1> QED BY <1>6, <1>10 DEF C, D, h

\* What each handler does with the backlog and the lists.
LEMMA BacklogKinds ==
  ASSUME TypeInv, [Next]_vars
  PROVE  \/ UNCHANGED <<queues, backlog>>
         \/ PutOne /\ backlog' = Add32(backlog, pending.len)
         \/ PutEvict /\ backlog' = Sub32(Add32(backlog, pending.len), Head(DropList).len)
         \/ TakeOne /\ backlog' = Sub32(backlog, Head(queues[bitmap_high_prio(bitmap)]).len)
         \/ Purge /\ backlog' = 0
<1>1. ASSUME NEW f \in Frames, EnqueueIllegal(f) \/ EnqueueRefuse(f) \/ EnqueueAdmit(f)
      PROVE  UNCHANGED <<queues, backlog>>
  BY <1>1 DEF EnqueueIllegal, EnqueueRefuse, EnqueueAdmit, data, sch
<1>2. ASSUME EnqueueFits PROVE PutOne /\ backlog' = Add32(backlog, pending.len)
  BY <1>2 DEF EnqueueFits, PutOne, hist
<1>3. ASSUME EnqueueOverflow, DropHead
      PROVE  PutEvict /\ backlog' = Sub32(Add32(backlog, pending.len), Head(DropList).len)
  BY <1>3 DEF EnqueueOverflow, pfab_drop, DropHead, DropList, PutEvict, Tailed
<1>4. ASSUME EnqueueOverflow, DropNothing PROVE PutOne /\ backlog' = Add32(backlog, pending.len)
  BY <1>4 DEF EnqueueOverflow, pfab_drop, DropNothing, PutOne
<1>5. ASSUME Dequeue
      PROVE  TakeOne /\ backlog' = Sub32(backlog, Head(queues[bitmap_high_prio(bitmap)]).len)
  <2>1. bitmap_high_prio(bitmap) \in Bands
    BY <1>5, HighBand DEF Dequeue, CanDequeue
  <2> QED BY <1>5, <2>1 DEF Dequeue, CanDequeue, HighList, TakeOne, Tailed
<1>6. ASSUME DequeueNull \/ (\E opt \in Opts : Change(opt)) \/ UNCHANGED vars
      PROVE  UNCHANGED <<queues, backlog>>
  BY <1>6, Zenon DEF DequeueNull, Change, vars, data, sch
<1>7. ASSUME Reset PROVE Purge /\ backlog' = 0
  BY <1>7 DEF Reset, Purge
<1> QED BY <1>1, <1>2, <1>3, <1>4, <1>5, <1>6, <1>7 DEF Next, Enqueue, EnqueueOverflow

\* Every operation keeps the backlog equal to the queued bytes.
LEMMA BytesNext ==
  ASSUME SafeInv, BytesInv, [Next]_vars
  PROVE  BytesInv'
<1> DEFINE total(q) == Total(Lengths, PacketsIn(q))
<1>1. /\ TypeInv /\ queues \in Lists /\ Distinct(queues) /\ Placed(queues)
      /\ IsFiniteSet(PacketsIn(queues))
  BY DEF SafeInv, TypeInv, TypeOK, Lists, OwnedOnce, Distinct, Placed, BytesInv, Contents
<1>2. backlog = total(queues) % U32 /\ total(queues) \in Int
  BY <1>1, PacketsAreSkbs, BytesTotal DEF BytesInv, BacklogExact, Contents
<1>3. ASSUME queues' \in Lists, IsFiniteSet(PacketsIn(queues')), backlog' = total(queues') % U32
      PROVE  BytesInv'
  BY <1>3, PacketsAreSkbs, BytesTotal DEF BytesInv, BacklogExact, Contents
<1>4. ASSUME pending # NoSkb
      PROVE  /\ QueuedLists \in Lists /\ IsFiniteSet(PacketsIn(QueuedLists))
             /\ total(QueuedLists) = total(queues) + pending.len
             /\ pending.len \in Nat
             /\ Distinct(QueuedLists) /\ Placed(QueuedLists)
  <2>1. /\ QueuedLists \in Lists /\ pending \in Skb /\ pending.priority \in Bands
        /\ QueuedLists = Appended(queues, pending.priority, pending)
        /\ pending.id \notin QueuedIds(queues)
        /\ Distinct(QueuedLists) /\ Placed(QueuedLists)
    BY <1>4, Queued
  <2>2. /\ IsFiniteSet(PacketsIn(QueuedLists))
        /\ total(QueuedLists) = total(queues) + pending.len
    BY <1>1, <2>1, AppendBytes
  <2> QED BY <2>1, <2>2, SkbType
<1>5. ASSUME pending # NoSkb
      PROVE  Add32(backlog, pending.len) = total(QueuedLists) % U32
  <2> HIDE DEF total
  <2>1. total(queues) \in Int /\ pending.len \in Int
    BY <1>2, <1>4, <1>5
  <2>2. ((total(queues) % U32) + pending.len) % U32 = (total(queues) + pending.len) % U32
    BY <2>1, ModAdd
  <2> QED BY <1>2, <1>4, <1>5, <2>2 DEF Add32
<1>6. ASSUME NEW n \in Int, NEW k \in Nat PROVE Sub32(n % U32, k) = (n - k) % U32
  <2>1. n % U32 \in Int
    BY QdiscAssumption
  <2>2. ((n % U32) + (0 - k)) % U32 = (n + (0 - k)) % U32
    BY <1>6, ModAdd
  <2>3. (n % U32) + (0 - k) = (n % U32) - k /\ n + (0 - k) = n - k
    BY <2>1
  <2> QED BY <2>2, <2>3 DEF Sub32
<1>7. CASE UNCHANGED <<queues, backlog>>
  BY <1>1, <1>2, <1>3, <1>7
<1>8. CASE PutOne /\ backlog' = Add32(backlog, pending.len)
  BY <1>3, <1>4, <1>5, <1>8 DEF PutOne
<1>9. CASE PutEvict /\ backlog' = Sub32(Add32(backlog, pending.len), Head(DropList).len)
  <2>1. /\ DropBand \in Bands /\ QueuedLists[DropBand] # <<>> /\ pending # NoSkb
        /\ queues' = Tailed(QueuedLists, DropBand)
    BY <1>1, <1>9, DropFindsBand DEF PutEvict
  <2>2. /\ IsFiniteSet(PacketsIn(queues')) /\ Head(DropList) \in Skb
        /\ total(queues') = total(QueuedLists) - Head(DropList).len
    BY <1>4, <2>1, TailBytes DEF DropList
  <2>3. queues' \in Lists
    BY <1>4, <2>1, TailShape
  <2>4. total(QueuedLists) \in Int
    BY <1>4, <2>1, PacketsAreSkbs, BytesTotal, Zenon
  <2>5. Head(DropList).len \in Nat
    BY <2>2, SkbType
  <2>6. backlog' = total(queues') % U32
    <3> HIDE DEF total
    <3> QED BY <1>5, <1>6, <1>9, <2>1, <2>2, <2>4, <2>5
  <2> QED BY <1>3, <2>2, <2>3, <2>6
<1>10. CASE TakeOne /\ backlog' = Sub32(backlog, Head(queues[bitmap_high_prio(bitmap)]).len)
  <2> DEFINE band == bitmap_high_prio(bitmap)
  <2>1. band \in Bands /\ queues[band] # <<>> /\ queues' = Tailed(queues, band)
    BY <1>10 DEF TakeOne
  <2>0. backlog' = Sub32(backlog, Head(queues[band]).len)
    BY <1>10
  <2> HIDE DEF band
  <2>2. /\ IsFiniteSet(PacketsIn(queues')) /\ Head(queues[band]) \in Skb
        /\ total(queues') = total(queues) - Head(queues[band]).len
    BY <1>1, <2>1, TailBytes
  <2>3. queues' \in Lists
    BY <1>1, <2>1, TailShape
  <2>4. Head(queues[band]).len \in Nat
    BY <2>2, SkbType
  <2>5. backlog' = total(queues') % U32
    <3> HIDE DEF total
    <3> QED BY <1>2, <1>6, <2>0, <2>2, <2>4
  <2> QED BY <1>3, <2>2, <2>3, <2>5
<1>11. CASE Purge /\ backlog' = 0
  <2>1. \A b \in Bands : DOMAIN queues'[b] = {}
    BY <1>11 DEF Purge
  <2>2. PacketsIn(queues') = {}
    BY <2>1, PacketsInMember
  <2>3. queues' \in Lists
    BY <1>11 DEF Purge, Lists
  <2>4. IsFiniteSet(PacketsIn(queues')) /\ total(queues') = 0
    BY <2>2, FS_EmptySet, TotalEmpty
  <2>5. 0 % U32 = 0
    BY QdiscAssumption
  <2> QED BY <1>3, <1>11, <2>3, <2>4, <2>5
<1> QED BY <1>1, <1>7, <1>8, <1>9, <1>10, <1>11, BacklogKinds

\* pfab_init establishes the invariant.
LEMMA BytesInit == Init => BytesInv
<1> SUFFICES ASSUME Init PROVE BytesInv
  OBVIOUS
<1>1. backlog = 0 /\ \A b \in Bands : DOMAIN queues[b] = {}
  BY DEF Init, pfab_init
<1>2. PacketsIn(queues) = {}
  BY <1>1, PacketsInMember
<1>3. 0 % U32 = 0
  BY QdiscAssumption
<1> QED BY <1>1, <1>2, <1>3, FS_EmptySet, TotalEmpty DEF BytesInv, BacklogExact, Contents

(***************************************************************************)
(* sch->qstats.backlog is always the number of queued bytes, whatever      *)
(* pfab_drop has done to the length.                                       *)
(***************************************************************************)
THEOREM Backlog == Spec => []BacklogExact
<1>1. SafeInv /\ BytesInv /\ [Next]_vars => BytesInv'
  BY BytesNext
<1>2. BytesInv => BacklogExact
  BY DEF BytesInv
<1> QED BY <1>1, <1>2, BytesInit, Safe, PTL DEF Spec
-----------------------------------------------------------------------------
(***************************************************************************)
(* FIFO order, for any array of lists.                                     *)
(***************************************************************************)
Sorted(q) == \A b \in Bands : \A j \in DOMAIN q[b] :
               \A i \in 1 .. j - 1 : q[b][i].id < q[b][j].id

Before(S, q) == \A b \in Bands : \A j \in DOMAIN q[b] :
                  \A s \in S : s.priority = b => s.id < q[b][j].id

\* Appending a packet younger than all others keeps the order.
LEMMA AppendSorted ==
  ASSUME NEW q \in Lists, NEW b \in Bands, NEW x \in Skb, NEW S, Sorted(q), Before(S, q),
         \A n \in QueuedIds(q) \cup Ids(S) : n < x.id
  PROVE  Sorted(Appended(q, b, x)) /\ Before(S, Appended(q, b, x))
<1> DEFINE r == Appended(q, b, x)
<1>0. /\ \A c \in Bands : c # b => r[c] = q[c]
      /\ DOMAIN q[b] = 1 .. Len(q[b]) /\ Len(q[b]) \in Nat
      /\ DOMAIN r[b] = 1 .. Len(q[b]) + 1
      /\ \A i \in DOMAIN q[b] : r[b][i] = q[b][i]
      /\ r[b][Len(q[b]) + 1] = x
  BY AppendShape, ListShape
<1>1. \A i \in DOMAIN q[b] : q[b][i].id < x.id
  BY QueuedIdsMember
<1>2. \A s \in S : s.id < x.id
  BY DEF Ids
<1> HIDE DEF r
<1>3. ASSUME NEW c \in Bands, NEW j \in DOMAIN r[c]
      PROVE  /\ \A i \in 1 .. j - 1 : r[c][i].id < r[c][j].id
             /\ \A s \in S : s.priority = c => s.id < r[c][j].id
  <2>1. CASE c # b
    BY <1>0, <2>1 DEF Sorted, Before
  <2>2. CASE c = b /\ j = Len(q[b]) + 1
    BY <1>0, <1>1, <1>2, <2>2
  <2>3. CASE c = b /\ j # Len(q[b]) + 1
    <3>1. j \in DOMAIN q[b] /\ \A i \in 1 .. j - 1 : i \in DOMAIN q[b]
      BY <1>0, <2>3
    <3> QED BY <1>0, <2>3, <3>1, Zenon DEF Sorted, Before
  <2> QED BY <2>1, <2>2, <2>3
<1> QED BY <1>3 DEF Sorted, Before, r

\* Taking the head keeps the order, also if the head counts as sent.
LEMMA TailSorted ==
  ASSUME NEW q \in Lists, NEW b \in Bands, q[b] # <<>>, NEW S,
         Sorted(q), Before(S, q), Placed(q)
  PROVE  /\ Sorted(Tailed(q, b)) /\ Before(S, Tailed(q, b))
         /\ Before(S \cup {Head(q[b])}, Tailed(q, b))
<1> DEFINE r == Tailed(q, b)
<1>0. /\ \A c \in Bands : c # b => r[c] = q[c]
      /\ DOMAIN q[b] = 1 .. Len(q[b]) /\ Len(q[b]) \in Nat \ {0}
      /\ DOMAIN r[b] = 1 .. Len(q[b]) - 1
      /\ \A i \in DOMAIN r[b] : r[b][i] = q[b][i + 1]
      /\ Head(q[b]) = q[b][1]
  BY TailShape, ListShape
<1>1. Head(q[b]).priority = b
  <2>1. 1 \in DOMAIN q[b]
    BY <1>0
  <2> QED BY <1>0, <2>1 DEF Placed
<1> HIDE DEF r
<1>2. ASSUME NEW c \in Bands, NEW j \in DOMAIN r[c]
      PROVE  /\ \A i \in 1 .. j - 1 : r[c][i].id < r[c][j].id
             /\ \A s \in S : s.priority = c => s.id < r[c][j].id
             /\ c = b => Head(q[b]).id < r[c][j].id
  <2>1. CASE c # b
    BY <1>0, <2>1 DEF Sorted, Before
  <2>2. CASE c = b
    <3>1. j \in Nat \ {0} /\ j + 1 \in DOMAIN q[b] /\ r[c][j] = q[b][j + 1]
      BY <1>0, <2>2
    <3>2. \A i \in 1 .. (j + 1) - 1 : q[b][i].id < q[b][j + 1].id
      BY <3>1 DEF Sorted
    <3>3. ASSUME NEW i \in 1 .. j - 1 PROVE r[c][i].id < r[c][j].id
      <4>1. i + 1 \in 1 .. (j + 1) - 1 /\ i \in DOMAIN r[b]
        BY <1>0, <2>2, <3>1
      <4> QED BY <1>0, <2>2, <3>1, <3>2, <4>1, Zenon
    <3>4. Head(q[b]).id < r[c][j].id
      <4>1. 1 \in 1 .. (j + 1) - 1
        BY <3>1
      <4> QED BY <1>0, <3>1, <3>2, <4>1
    <3> QED BY <2>2, <3>1, <3>3, <3>4 DEF Before
  <2> QED BY <2>1, <2>2
<1> QED BY <1>1, <1>2 DEF Sorted, Before, r

\* Every kind of step keeps the bands in order.
LEMMA FifoNext ==
  ASSUME SafeInv, FifoPerBand, [Next]_vars
  PROVE  FifoPerBand'
<1>1. Sorted(queues) /\ Before(sent, queues)
  BY DEF FifoPerBand, Sorted, Before
<1>2. ASSUME Sorted(queues'), Before(sent', queues') PROVE FifoPerBand'
  BY <1>2 DEF FifoPerBand, Sorted, Before
<1>3. TypeInv /\ queues \in Lists /\ Placed(queues)
  BY DEF SafeInv, TypeInv, TypeOK, Lists, OwnedOnce, Placed
<1>4. CASE UNCHANGED <<queues, sent>>
  BY <1>1, <1>2, <1>4
<1>5. ASSUME pending # NoSkb PROVE Sorted(QueuedLists) /\ Before(sent, QueuedLists)
  BY <1>1, <1>5, Queued, AppendSorted
<1>6. CASE PutOne
  BY <1>2, <1>5, <1>6 DEF PutOne
<1>7. CASE PutEvict
  <2>1. DropBand \in Bands
    BY <1>3, <1>7, DropFindsBand DEF PutEvict
  <2>2. QueuedLists \in Lists /\ Placed(QueuedLists)
    BY <1>7, Queued DEF PutEvict
  <2>3. /\ QueuedLists[DropBand] # <<>> /\ queues' = Tailed(QueuedLists, DropBand)
        /\ sent' = sent /\ pending # NoSkb
    BY <1>7 DEF PutEvict
  <2> QED BY <1>2, <1>5, <2>1, <2>2, <2>3, TailSorted, Zenon
<1>8. CASE TakeOne
  <2> DEFINE band == bitmap_high_prio(bitmap)
  <2>1. /\ band \in Bands /\ queues[band] # <<>> /\ queues' = Tailed(queues, band)
        /\ sent' = sent \cup {Head(queues[band])}
    BY <1>8 DEF TakeOne
  <2> HIDE DEF band
  <2> QED BY <1>1, <1>2, <1>3, <2>1, TailSorted, Zenon
<1>9. CASE Purge
  <2>1. \A b \in Bands : DOMAIN queues'[b] = {}
    BY <1>9 DEF Purge
  <2> QED BY <1>2, <2>1 DEF Sorted, Before
<1> QED BY <1>3, <1>4, <1>6, <1>7, <1>8, <1>9, StepKinds DEF LoseNew, Admit, Retune, qstate

(***************************************************************************)
(* Each band is a FIFO queue: what pfab_dequeue returns from it, in any    *)
(* order of enqueues, evictions and resets, comes in order of arrival.     *)
(***************************************************************************)
THEOREM Fifo == Spec => []FifoPerBand
<1>1. Init => FifoPerBand
  BY DEF Init, pfab_init, FifoPerBand
<1>2. SafeInv /\ FifoPerBand /\ [Next]_vars => FifoPerBand'
  BY FifoNext
<1> QED BY <1>1, <1>2, Safe, PTL DEF Spec
-----------------------------------------------------------------------------
(***************************************************************************)
(* A queued packet is in the list of its own priority, whose bit is set.   *)
(***************************************************************************)
LEMMA ContentsShape ==
  ASSUME SafeInv, NEW c \in Contents
  PROVE  /\ c.priority \in Bands /\ c.priority \in SetBands(bitmap)
         /\ \E j \in DOMAIN queues[c.priority] : c = queues[c.priority][j]
<1>1. PICK b \in Bands : \E j \in DOMAIN queues[b] : c = queues[b][j]
  BY PacketsInMember DEF Contents
<1>2. PICK j \in DOMAIN queues[b] : c = queues[b][j]
  BY <1>1
<1>3. c.priority = b
  BY <1>2 DEF SafeInv, OwnedOnce
<1>4. queues[b] # <<>>
  <2>1. DOMAIN <<>> = {}
    OBVIOUS
  <2> QED BY <1>2, <2>1
<1> QED BY <1>2, <1>3, <1>4 DEF SafeInv, BitmapCoversQueues

MostUrgentStep ==
  \A s \in sent' \ sent :
    /\ s = pfab_peek
    /\ \A c \in Contents :
         s.priority < c.priority \/ (s.priority = c.priority /\ s.id <= c.id)

(***************************************************************************)
(* pfab_dequeue serves the oldest of the most urgent packets that are      *)
(* queued, although the bitmap it scans may have stale bits.               *)
(***************************************************************************)
THEOREM UrgentFirst == Spec => MostUrgentFirst
<1>1. ASSUME SafeInv, FifoPerBand, [Next]_vars PROVE MostUrgentStep
  <2>1. CASE sent' = sent
    BY <2>1 DEF MostUrgentStep
  <2>2. CASE TakeOne
    <3> DEFINE band == bitmap_high_prio(bitmap)
               h == Head(queues[band])
    <3>1. band \in Bands /\ queues[band] # <<>> /\ sent' = sent \cup {h}
      BY <2>2 DEF TakeOne
    <3>2. queues \in Lists /\ Placed(queues) /\ TypeInv
      BY <1>1 DEF SafeInv, TypeInv, TypeOK, Lists, OwnedOnce, Placed
    <3>3. band >= 0 /\ band \in Int
      BY <3>1, BandsAssumption DEF Bands
    <3>4. \A b \in SetBands(bitmap) : band <= b
      BY <3>2, <3>3, HighBand
    <3>8. h = pfab_peek
      BY <3>1, <3>3 DEF pfab_peek, HighList
    <3> HIDE DEF band
    <3>5. /\ h = queues[band][1] /\ DOMAIN queues[band] = 1 .. Len(queues[band])
          /\ Len(queues[band]) \in Nat \ {0} /\ h \in Skb
      BY <3>1, <3>2, TailShape, ListShape
    <3>6. h.priority = band
      BY <3>1, <3>2, TailOwned, <1>1 DEF SafeInv, OwnedOnce, Distinct, Placed
    <3>7. ASSUME NEW c \in Contents
          PROVE  h.priority < c.priority \/ (h.priority = c.priority /\ h.id <= c.id)
      <4>1. c.priority \in Bands /\ band <= c.priority
        BY <1>1, <3>4, ContentsShape
      <4>2. CASE c.priority # band
        BY <3>3, <3>6, <4>1, <4>2, BandsAssumption DEF Bands
      <4>3. CASE c.priority = band
        <5>1. PICK j \in DOMAIN queues[band] : c = queues[band][j]
          BY <1>1, <4>3, ContentsShape
        <5>2. CASE j = 1
          BY <3>5, <3>6, <4>3, <5>1, <5>2, SkbType
        <5>3. CASE j # 1
          <6>1. 1 \in 1 .. j - 1
            BY <3>5, <5>1, <5>3
          <6>2. queues[band][1].id < queues[band][j].id
            BY <1>1, <3>1, <5>1, <6>1 DEF FifoPerBand
          <6>3. c \in Skb
            BY <3>1, <3>2, <5>1, ListShape
          <6> QED BY <3>5, <3>6, <4>3, <5>1, <6>2, <6>3, SkbType
        <5> QED BY <5>2, <5>3
      <4> QED BY <4>2, <4>3
    <3> QED BY <3>1, <3>7, <3>8 DEF MostUrgentStep
  <2> QED BY <1>1, <2>1, <2>2, StepKinds
          DEF SafeInv, LoseNew, Admit, PutOne, PutEvict, Purge, Retune, qstate
<1>2. SafeInv /\ FifoPerBand /\ [Next]_vars => [MostUrgentStep]_vars
  BY <1>1
<1> QED BY <1>2, Safe, Fifo, PTL DEF Spec, MostUrgentFirst, MostUrgentStep

ContentsCovered == \A c \in Contents : c.priority \in SetBands(bitmap)

LeastUrgentStep ==
  \A s \in freed' \ freed : LegalPriority(s) =>
    \A c \in Contents' : c.priority <= s.priority

(***************************************************************************)
(* pFabric's loss rule, for every legal packet that pfab_enqueue refuses,  *)
(* pfab_drop evicts or pfab_reset purges.                                  *)
(***************************************************************************)
THEOREM LeastUrgent == Spec => LeastUrgentLost
<1>1. ASSUME SafeInv, ContentsCovered', [Next]_vars PROVE LeastUrgentStep
  <2>1. CASE freed' = freed
    BY <2>1 DEF LeastUrgentStep
  <2>2. TypeInv /\ bitmap \in Bitmap
    BY <1>1 DEF SafeInv, TypeInv, TypeOK
  <2>3. CASE LoseNew
    <3>1. PICK f \in Frames : /\ freed' = freed \cup {NewSkb(f)}
                              /\ LegalPriority(NewSkb(f)) => Refused(NewSkb(f))
      BY <2>3 DEF LoseNew
    <3>2. Contents' = Contents
      BY <2>3 DEF LoseNew, Contents
    <3> DEFINE p == NewSkb(f).priority
               low == bitmap_low_prio(bitmap)
    <3> SUFFICES ASSUME LegalPriority(NewSkb(f)), NEW c \in Contents
                 PROVE  c.priority <= p
      BY <3>1, <3>2 DEF LeastUrgentStep
    <3>3. p \in Bands
      BY <2>2, <2>3, NewSkbType DEF LoseNew, TypeInv, TypeOK
    <3>4. low \in 0 .. p
      BY <3>1 DEF Refused
    <3>5. c.priority \in Bands /\ c.priority \in SetBands(bitmap)
      BY <1>1, ContentsShape
    <3>6. \A b \in SetBands(bitmap) : b <= low
      BY <2>2, <3>5, LowPrioCorrect
    <3> HIDE DEF p, low
    <3>7. c.priority <= low
      BY <3>5, <3>6
    <3> QED BY <3>3, <3>4, <3>5, <3>7, BandsAssumption DEF Bands
  <2>4. CASE PutEvict
    <3> DEFINE h == Head(QueuedLists[DropBand])
    <3>1. /\ DropBand \in Bands /\ QueuedLists[DropBand] # <<>>
          /\ QueuedLists \in Lists /\ Placed(QueuedLists) /\ Distinct(QueuedLists)
          /\ freed' = freed \cup {h} /\ bitmap' = QueuedBitmap
          /\ \A b \in SetBands(QueuedBitmap) : b <= DropBand
      BY <1>1, <2>2, <2>4, Queued, DropFindsBand DEF PutEvict
    <3>2. h.priority = DropBand
      BY <3>1, TailOwned
    <3>3. ASSUME NEW c \in Contents' PROVE c.priority \in SetBands(bitmap')
      BY <1>1 DEF ContentsCovered
    <3> HIDE DEF h
    <3> QED BY <3>1, <3>2, <3>3 DEF LeastUrgentStep
  <2>5. CASE Purge
    <3>1. \A b \in Bands : DOMAIN queues'[b] = {}
      BY <2>5 DEF Purge
    <3>2. Contents' = {}
      BY <3>1, PacketsInMember DEF Contents
    <3> QED BY <3>2 DEF LeastUrgentStep
  <2> QED BY <1>1, <2>1, <2>3, <2>4, <2>5, StepKinds
          DEF SafeInv, Admit, PutOne, TakeOne, Retune, qstate
<1>2. SafeInv /\ ContentsCovered' /\ [Next]_vars => [LeastUrgentStep]_vars
  BY <1>1
<1>3. SafeInv => ContentsCovered
  BY ContentsShape DEF ContentsCovered
<1> QED BY <1>2, <1>3, Safe, PTL DEF Spec, LeastUrgentLost, LeastUrgentStep
-----------------------------------------------------------------------------
(***************************************************************************)
(* Counting.  Occupancy and phantom drops determine the length, and the    *)
(* number of arrivals bounds the occupancy, so that qlen wraps only        *)
(* through phantom drops.                                                  *)
(***************************************************************************)
LimitIsSet == \E opt \in Opts \cup {DefaultOpt} : limit = opt.limit

CountInv ==
  /\ IsFiniteSet(SlotsOf(queues))
  /\ Occupancy + (IF pending = NoSkb THEN 0 ELSE 1) <= arrived
  /\ LimitIsSet
  /\ QlenAccounting
  /\ LimitUpToPhantom

\* Appending adds one slot, taking the head removes one.
LEMMA SlotCount ==
  ASSUME NEW q \in Lists, NEW b \in Bands, IsFiniteSet(SlotsOf(q))
  PROVE  /\ Cardinality(SlotsOf(q)) \in Nat
         /\ \A x \in Skb :
              /\ IsFiniteSet(SlotsOf(Appended(q, b, x)))
              /\ Cardinality(SlotsOf(Appended(q, b, x))) = Cardinality(SlotsOf(q)) + 1
         /\ q[b] # <<>> =>
              /\ IsFiniteSet(SlotsOf(Tailed(q, b)))
              /\ Cardinality(SlotsOf(Tailed(q, b))) = Cardinality(SlotsOf(q)) - 1
<1>1. Cardinality(SlotsOf(q)) \in Nat
  BY FS_CardinalityType
<1>2. ASSUME NEW x \in Skb
      PROVE  /\ IsFiniteSet(SlotsOf(Appended(q, b, x)))
             /\ Cardinality(SlotsOf(Appended(q, b, x))) = Cardinality(SlotsOf(q)) + 1
  <2>1. /\ SlotsOf(Appended(q, b, x)) = SlotsOf(q) \cup {<<b, Len(q[b]) + 1>>}
        /\ <<b, Len(q[b]) + 1>> \notin SlotsOf(q)
    BY AppendSlots
  <2> QED BY <2>1, FS_AddElement, Zenon
<1>3. ASSUME q[b] # <<>>
      PROVE  /\ IsFiniteSet(SlotsOf(Tailed(q, b)))
             /\ Cardinality(SlotsOf(Tailed(q, b))) = Cardinality(SlotsOf(q)) - 1
  <2>1. /\ SlotsOf(Tailed(q, b)) = SlotsOf(q) \ {<<b, Len(q[b])>>}
        /\ <<b, Len(q[b])>> \in SlotsOf(q)
    BY <1>3, TailSlots
  <2> QED BY <2>1, FS_RemoveElement, Zenon
<1> QED BY <1>1, <1>2, <1>3

\* Empty lists have no slots.
LEMMA NoSlots ==
  ASSUME NEW q, \A b \in Bands : q[b] = <<>>
  PROVE  IsFiniteSet(SlotsOf(q)) /\ Cardinality(SlotsOf(q)) = 0
<1>1. \A b \in Bands : DOMAIN q[b] = {}
  OBVIOUS
<1>2. SlotsOf(q) = {}
  BY <1>1, SlotsOfMember
<1> QED BY <1>2, FS_EmptySet

\* A limit that can be set is a u32.
LEMMA OptLimits ==
  ASSUME NEW opt \in Opts \cup {DefaultOpt}
  PROVE  opt.limit \in Nat /\ opt.limit < U32
  BY QdiscAssumption DEF DefaultOpt, Word32

\* The counts are right after pfab_init.
LEMMA CountInit == Init => CountInv
<1> SUFFICES ASSUME Init PROVE CountInv
  OBVIOUS
<1>1. /\ \A b \in Bands : queues[b] = <<>>
      /\ qlen = 0 /\ phantom = 0 /\ arrived = 0 /\ pending = NoSkb
  BY DEF Init, pfab_init
<1>2. IsFiniteSet(SlotsOf(queues)) /\ Occupancy = 0
  BY <1>1, NoSlots DEF Occupancy
<1>3. PICK opt \in Opts \cup {DefaultOpt} : limit = opt.limit
  BY DEF Init, pfab_init
<1>4. QlenAccounting
  BY <1>1, <1>2, QdiscAssumption DEF QlenAccounting
<1>5. LimitUpToPhantom
  BY <1>1, <1>2, <1>3, OptLimits DEF LimitUpToPhantom
<1> QED BY <1>1, <1>2, <1>3, <1>4, <1>5 DEF CountInv, LimitIsSet

\* Below the modulus, reduction never makes a number smaller.
LEMMA SmallMod ==
  ASSUME NEW n \in Int, n < U32
  PROVE  n <= n % U32
<1>1. U32 \in Nat \ {0}
  BY QdiscAssumption
<1>2. CASE n < 0
  BY <1>1, <1>2, ModSplit
<1>3. CASE n >= 0
  <2>1. n \in 0 .. U32 - 1 /\ 0 \in Int
    BY <1>1, <1>3
  <2>2. (0 * U32 + n) % U32 = n
    BY <1>1, <2>1, ModUnique
  <2> QED BY <1>1, <2>2
<1> QED BY <1>2, <1>3

\* Moving a term across an inequality.
LEMMA Shift ==
  ASSUME NEW a \in Int, NEW b \in Int, NEW q \in Int, NEW l \in Int, a - b <= q, q <= l
  PROVE  a <= l + b
  OBVIOUS

\* Every kind of step keeps the counts right.
LEMMA CountNext ==
  ASSUME SafeInv, CountInv, [Next]_vars
  PROVE  CountInv'
<1> DEFINE occ == Cardinality(SlotsOf(queues))
<1>1. /\ TypeInv /\ queues \in Lists /\ phantom \in Nat /\ arrived \in 0 .. MaxArrivals
      /\ MaxArrivals \in Nat /\ MaxArrivals < U32 /\ U32 \in Nat
  BY QdiscAssumption DEF SafeInv, TypeInv, TypeOK, Lists
<1>2. occ \in Nat
  BY FS_CardinalityType DEF CountInv
<1>3. PICK opt \in Opts \cup {DefaultOpt} : occ <= opt.limit + phantom
  BY DEF CountInv, LimitUpToPhantom, Occupancy
<1>4. opt.limit \in Nat
  BY OptLimits
<1>5. qlen = (occ - phantom) % U32 /\ occ + (IF pending = NoSkb THEN 0 ELSE 1) <= arrived
  BY DEF CountInv, QlenAccounting, Occupancy
<1>6. ASSUME /\ IsFiniteSet(SlotsOf(queues')) /\ LimitIsSet'
             /\ occ' + (IF pending' = NoSkb THEN 0 ELSE 1) <= arrived'
             /\ qlen' = (occ' - phantom') % U32
             /\ \E o \in Opts \cup {DefaultOpt} : occ' <= o.limit + phantom'
      PROVE  CountInv'
  BY <1>6 DEF CountInv, QlenAccounting, LimitUpToPhantom, Occupancy
<1>7. limit' = limit => LimitIsSet'
  BY DEF CountInv, LimitIsSet
<1>8. IsFiniteSet(SlotsOf(queues))
  BY DEF CountInv
<1>9. CASE LoseNew \/ Admit
  <2>1. /\ queues' = queues /\ qlen' = qlen /\ limit' = limit /\ phantom' = phantom
        /\ pending = NoSkb /\ arrived' = arrived + 1
    BY <1>9 DEF LoseNew, Admit
  <2>2. occ' = occ
    BY <2>1
  <2> HIDE DEF occ
  <2> QED BY <1>1, <1>2, <1>3, <1>5, <1>6, <1>7, <1>8, <2>1, <2>2
<1>10. ASSUME pending # NoSkb
       PROVE  /\ IsFiniteSet(SlotsOf(QueuedLists)) /\ QueuedLists \in Lists
              /\ Cardinality(SlotsOf(QueuedLists)) = occ + 1
  BY <1>8, <1>10, Queued, SlotCount, Zenon
<1>11. CASE PutOne
  <2>1. /\ pending # NoSkb /\ pending' = NoSkb /\ queues' = QueuedLists /\ limit' = limit
        /\ arrived' = arrived
        /\ \/ qlen' = Inc32(qlen) /\ qlen' <= limit /\ phantom' = phantom
           \/ qlen' = qlen /\ phantom' = phantom + 1
    BY <1>11 DEF PutOne
  <2>2. occ' = occ + 1 /\ IsFiniteSet(SlotsOf(queues'))
    BY <1>10, <2>1
  <2> HIDE DEF occ
  <2>3. CASE qlen' = qlen /\ phantom' = phantom + 1
    <3>1. occ' - phantom' = occ - phantom
      BY <1>1, <1>2, <2>2, <2>3
    <3>2. occ' <= opt.limit + phantom'
      BY <1>1, <1>2, <1>3, <1>4, <2>2, <2>3
    <3> QED BY <1>1, <1>2, <1>5, <1>6, <1>7, <2>1, <2>2, <2>3, <3>1, <3>2
  <2>4. CASE qlen' = Inc32(qlen) /\ qlen' <= limit /\ phantom' = phantom
    <3>1. occ' - phantom' = (occ - phantom) + 1 /\ occ - phantom \in Int
      BY <1>1, <1>2, <2>2, <2>4
    <3>2. qlen' = (occ' - phantom') % U32
      BY <1>5, <2>4, <3>1, ModStep
    <3>3. PICK o \in Opts \cup {DefaultOpt} : limit = o.limit
      BY DEF CountInv, LimitIsSet
    <3>4. occ' - phantom' \in Int /\ occ' - phantom' < U32
      BY <1>1, <1>2, <1>5, <2>1, <2>2, <2>4
    <3>5. occ' - phantom' <= qlen'
      BY <3>2, <3>4, SmallMod
    <3>6. occ' <= o.limit + phantom'
      <4>1. o.limit \in Int /\ qlen' <= o.limit
        BY <2>4, <3>3, OptLimits
      <4>2. qlen' \in Int
        BY <3>2, <3>4, ModStep, QdiscAssumption DEF Word32
      <4>3. occ' \in Int /\ phantom' \in Int
        BY <1>1, <1>2, <2>2, <2>4
      <4> QED BY <3>5, <4>1, <4>2, <4>3, Shift, Zenon
    <3> QED BY <1>1, <1>2, <1>5, <1>6, <1>7, <2>1, <2>2, <3>2, <3>6
  <2> QED BY <2>1, <2>3, <2>4
<1>12. CASE PutEvict
  <2>1. /\ pending # NoSkb /\ pending' = NoSkb /\ limit' = limit /\ arrived' = arrived
        /\ qlen' = qlen /\ phantom' = phantom
        /\ QueuedLists[DropBand] # <<>> /\ queues' = Tailed(QueuedLists, DropBand)
    BY <1>12 DEF PutEvict
  <2>2. DropBand \in Bands
    BY <1>1, <2>1, DropFindsBand
  <2>3. /\ IsFiniteSet(SlotsOf(queues'))
        /\ occ' = Cardinality(SlotsOf(QueuedLists)) - 1
    BY <1>10, <2>1, <2>2, SlotCount
  <2>4. occ' = occ
    BY <1>2, <1>10, <2>1, <2>3
  <2> HIDE DEF occ
  <2>5. occ' + 0 <= arrived'
    BY <1>1, <1>2, <1>5, <2>1, <2>4
  <2> QED BY <1>3, <1>5, <1>6, <1>7, <2>1, <2>3, <2>4, <2>5
<1>13. CASE TakeOne
  <2> DEFINE band == bitmap_high_prio(bitmap)
  <2>1. /\ band \in Bands /\ queues[band] # <<>> /\ queues' = Tailed(queues, band)
        /\ qlen' = Dec32(qlen) /\ phantom' = phantom /\ limit' = limit
        /\ pending = NoSkb /\ pending' = NoSkb /\ arrived' = arrived
    BY <1>13 DEF TakeOne
  <2> HIDE DEF band
  <2>2. IsFiniteSet(SlotsOf(queues')) /\ occ' = occ - 1
    BY <1>1, <1>8, <2>1, SlotCount
  <2> HIDE DEF occ
  <2>3. occ' - phantom' = (occ - phantom) - 1 /\ occ - phantom \in Int
    BY <1>1, <1>2, <2>1, <2>2
  <2>4. qlen' = (occ' - phantom') % U32
    BY <1>5, <2>1, <2>3, ModStep
  <2>5. occ' <= opt.limit + phantom' /\ occ' + 0 <= arrived'
    BY <1>1, <1>2, <1>3, <1>4, <1>5, <2>1, <2>2
  <2> QED BY <1>6, <1>7, <2>1, <2>2, <2>4, <2>5
<1>14. CASE Purge
  <2>1. /\ \A b \in Bands : queues'[b] = <<>>
        /\ qlen' = 0 /\ phantom' = 0 /\ limit' = limit /\ arrived' = arrived
        /\ pending' = NoSkb
    BY <1>14 DEF Purge
  <2>2. IsFiniteSet(SlotsOf(queues')) /\ occ' = 0
    BY <2>1, NoSlots
  <2> HIDE DEF occ
  <2>3. (occ' - phantom') % U32 = 0
    BY <2>1, <2>2, QdiscAssumption
  <2> QED BY <1>1, <1>4, <1>6, <1>7, <2>1, <2>2, <2>3
<1>15. CASE Retune
  <2>1. /\ queues' = queues /\ qlen' = qlen /\ phantom' = phantom
        /\ pending' = pending /\ arrived' = arrived
        /\ limit' = limit \/ \E o \in Opts : limit' = o.limit
    BY <1>15 DEF Retune, qstate
  <2>2. LimitIsSet'
    BY <1>7, <2>1 DEF LimitIsSet
  <2>3. occ' = occ
    BY <2>1
  <2> HIDE DEF occ
  <2> QED BY <1>3, <1>5, <1>6, <1>8, <2>1, <2>2, <2>3
<1> QED BY <1>1, <1>9, <1>11, <1>12, <1>13, <1>14, <1>15, StepKinds

\* The counts are right in every reachable state.
LEMMA Counting == Spec => []CountInv
  BY CountInit, CountNext, Safe, PTL DEF Spec

(***************************************************************************)
(* sch->q.qlen is the occupancy less the drops from an empty list, modulo  *)
(* 2^32.                                                                   *)
(***************************************************************************)
THEOREM Qlen == Spec => []QlenAccounting
<1>1. CountInv => QlenAccounting
  BY DEF CountInv
<1> QED BY <1>1, Counting, PTL

(***************************************************************************)
(* The buffer exceeds the largest limit set by no more than the number of  *)
(* drops from an empty list, whatever pfab_change does meanwhile.          *)
(***************************************************************************)
THEOREM Limit == Spec => []LimitUpToPhantom
<1>1. CountInv => LimitUpToPhantom
  BY DEF CountInv
<1> QED BY <1>1, Counting, PTL
-----------------------------------------------------------------------------
\* The abstract buffer holds what the lists hold.
LEMMA HoldsPackets ==
  ASSUME NEW q
  PROVE  PB!Holds(q) = PacketsIn(q)
  BY DEF PB!Holds, PacketsIn, Range

LEMMA HoldsContents == PB!Holds(queues) = Contents
  BY HoldsPackets DEF Contents

(***************************************************************************)
(* A packet with an id of its own is fresh for the abstract buffer.        *)
(***************************************************************************)
LEMMA FreshId ==
  ASSUME NEW p, p.id \notin QueuedIds(queues) \cup Ids(sent) \cup Ids(freed)
  PROVE  PB!Fresh(p)
<1>1. p \notin Contents
  BY DEF QueuedIds, Contents, Ids
<1>2. p \notin sent /\ p \notin freed
  BY DEF Ids
<1> QED BY <1>1, <1>2, HoldsContents DEF PB!Fresh

(***************************************************************************)
(* A refused packet is no more urgent than anything buffered.              *)
(***************************************************************************)
LEMMA RefusedLeast ==
  ASSUME SafeInv, NEW p \in Nat, bitmap_low_prio(bitmap) \in 0 .. p, NEW c \in Contents
  PROVE  c.priority <= p
<1> DEFINE low == bitmap_low_prio(bitmap)
<1>1. c.priority \in Bands /\ c.priority \in SetBands(bitmap)
  BY ContentsShape
<1>2. bitmap \in Bitmap
  BY DEF SafeInv, TypeInv, TypeOK
<1>3. \A b \in SetBands(bitmap) : b <= low
  BY <1>1, <1>2, LowPrioCorrect
<1>4. c.priority <= low /\ low \in 0 .. p
  BY <1>1, <1>3
<1> HIDE DEF low
<1> QED BY <1>1, <1>4, BandsAssumption DEF Bands

\* A packet that is new to the buffer arrives.
LEMMA NewPacket ==
  ASSUME NEW p \in Skb, PB!Fresh(p), p \in PB!Holds(queues') \cup freed', sent' = sent,
         PB!Refuse(p) \/ PB!Accept(p) \/ PB!AcceptEvict(p)
  PROVE  PB!PBNext
<1>1. queues' # queues \/ freed' # freed
  BY DEF PB!Fresh
<1> QED BY <1>1 DEF PB!PBNext, PB!Arrival

\* Each step of the qdisc is an abstract step or a stutter.
LEMMA RefineNext ==
  ASSUME SafeInv, [Next]_vars
  PROVE  [PB!PBNext]_PB!pbVars
<1>1. TypeInv /\ queues \in Lists /\ arrived \in 0 .. MaxArrivals /\ bitmap \in Bitmap
  BY DEF SafeInv, TypeInv, TypeOK, Lists
<1>2. CASE UNCHANGED <<queues, sent, freed>>
  BY <1>2 DEF PB!pbVars
<1>3. CASE LoseNew
  <2>1. PICK f \in Frames : /\ freed' = freed \cup {NewSkb(f)}
                            /\ LegalPriority(NewSkb(f)) => Refused(NewSkb(f))
    BY <1>3 DEF LoseNew
  <2> DEFINE p == NewSkb(f)
  <2>2. /\ p \in Skb /\ p.id = arrived + 1 /\ p.priority \in Nat
        /\ p.priority \in Bands => LegalPriority(p)
    <3>1. p \in Skb /\ p.id = arrived + 1
      BY <1>1, <1>3, NewSkbType DEF LoseNew
    <3>2. p.priority \in Nat
      BY <3>1, SkbType
    <3> HIDE DEF p
    <3> QED BY <3>1, <3>2, BandsAssumption DEF LegalPriority, Bands
  <2>3. QueuedIds(queues) \cup Ids(sent) \cup Ids(freed) \subseteq 1 .. arrived
    BY DEF SafeInv, OwnedOnce, QueuedIds, Contents
  <2>4. arrived + 1 \notin 1 .. arrived
    BY <1>1
  <2>5. PB!Fresh(p)
    BY <2>2, <2>3, <2>4, FreshId
  <2>6. p.priority \in Bands => \A c \in Contents : c.priority <= p.priority
    BY <2>1, <2>2, RefusedLeast DEF Refused
  <2> HIDE DEF p
  <2>7. freed' = freed \cup {p} /\ UNCHANGED <<queues, sent>>
    BY <1>3, <2>1 DEF LoseNew, p
  <2>8. PB!Refuse(p)
    BY <2>5, <2>6, <2>7, HoldsContents DEF PB!Refuse
  <2> QED BY <2>2, <2>5, <2>7, <2>8, NewPacket
<1>4. ASSUME pending # NoSkb
      PROVE  /\ PB!Fresh(pending) /\ pending.priority \in Bands /\ pending \in Skb
             /\ PB!Put(pending) = QueuedLists
  BY <1>4, Queued, FreshId DEF PB!Put, QueuedLists
<1>9. ASSUME pending # NoSkb
      PROVE  QueuedLists \in Lists /\ pending \in PB!Holds(QueuedLists)
  BY <1>9, Queued, AppendPackets, HoldsPackets
<1>5. CASE PutOne
  <2>1. PB!Accept(pending)
    BY <1>4, <1>5 DEF PutOne, PB!Accept
  <2>2. pending \in PB!Holds(queues')
    BY <1>5, <1>9 DEF PutOne
  <2> QED BY <1>4, <1>5, <2>1, <2>2, NewPacket DEF PutOne
<1>6. CASE PutEvict
  <2>1. /\ pending # NoSkb /\ QueuedLists[DropBand] # <<>>
        /\ queues' = Tailed(QueuedLists, DropBand)
        /\ freed' = freed \cup {Head(QueuedLists[DropBand])} /\ sent' = sent
    BY <1>6 DEF PutEvict
  <2>2. /\ DropBand \in Bands
        /\ SetBands(QueuedBitmap) = SetBands(bitmap) \cup {pending.priority}
        /\ \A b \in SetBands(QueuedBitmap) : b <= DropBand
    BY <1>1, <2>1, DropFindsBand
  <2>3. \A d \in Bands : d # pending.priority => QueuedLists[d] = queues[d]
    BY <2>1, Queued, AppendShape
  <2>4. \A d \in Bands : QueuedLists[d] # <<>> => d <= DropBand
    BY <2>2, <2>3 DEF SafeInv, BitmapCoversQueues
  <2>5. PB!AcceptEvict(pending)
    BY <1>4, <2>1, <2>2, <2>4, Zenon DEF PB!AcceptEvict, Tailed
  <2>6. pending \in PB!Holds(queues') \cup freed'
    BY <1>9, <2>1, <2>2, TailPackets, HoldsPackets
  <2> QED BY <1>4, <2>1, <2>5, <2>6, NewPacket
<1>7. CASE TakeOne
  <2> DEFINE band == bitmap_high_prio(bitmap)
  <2>1. /\ band \in Bands /\ queues[band] # <<>> /\ queues' = Tailed(queues, band)
        /\ sent' = sent \cup {Head(queues[band])} /\ freed' = freed
    BY <1>7 DEF TakeOne
  <2>2. band >= 0
    BY <2>1, BandsAssumption DEF Bands
  <2>3. \A b \in SetBands(bitmap) : band <= b
    BY <1>1, <2>2, HighBand
  <2> HIDE DEF band
  <2>4. \A d \in Bands : queues[d] # <<>> => band <= d
    BY <2>3 DEF SafeInv, BitmapCoversQueues
  <2>5. PB!Deliver
    BY <2>1, <2>4, Zenon DEF PB!Deliver, Tailed
  <2> QED BY <2>5 DEF PB!PBNext
<1>8. CASE Purge
  <2>1. PB!Flush
    BY <1>8, HoldsContents DEF Purge, PB!Flush, PB!Empty
  <2> QED BY <2>1 DEF PB!PBNext
<1> QED BY <1>1, <1>2, <1>3, <1>5, <1>6, <1>7, <1>8, StepKinds DEF Admit, Retune, qstate

(***************************************************************************)
(* Every behaviour of the qdisc, seen through its lists and through what   *)
(* it sends and frees, is a behaviour of the abstract priority buffer.     *)
(***************************************************************************)
THEOREM Refinement == Spec => ImplementsPrioBuffer
<1>1. Init => PB!PBInit
  BY DEF Init, pfab_init, PB!PBInit, PB!Empty
<1> QED BY <1>1, RefineNext, Safe, PTL DEF Spec, PB!PBSpec, ImplementsPrioBuffer
-----------------------------------------------------------------------------
(***************************************************************************)
(* The transmit path only ever takes the qdisc's own steps, so what holds  *)
(* of the qdisc under any caller holds of it at the root of a device.      *)
(***************************************************************************)
LEMMA RootSteps == [RootNext]_rootVars => [Next]_vars
  BY DEF RootNext, rootVars, RootEnqueue, qdisc_restart, sch_direct_xmit, RootChange,
         RootReset, Next, Enqueue

LEMMA RootInvariants == RootSpec => [](SafeInv /\ CountInv)
<1>1. RootInit => Init
  BY DEF RootInit
<1> QED BY <1>1, RootSteps, SafeInvInit, SafeInvNext, CountInit, CountNext, PTL DEF RootSpec

\* pfab_dequeue finds nothing in empty lists, whatever bits are set.
LEMMA EmptyGivesNothing ==
  ASSUME TypeInv, \A b \in Bands : queues[b] = <<>>
  PROVE  ~ CanDequeue
  BY HighBand DEF CanDequeue, HighList

\* A length of zero that no phantom drop has corrupted means empty lists.
LEMMA ZeroLengthEmpty ==
  ASSUME SafeInv, CountInv, qlen = 0, phantom = 0
  PROVE  \A b \in Bands : queues[b] = <<>>
<1>1. /\ queues \in Lists /\ arrived \in 0 .. MaxArrivals
      /\ MaxArrivals \in Nat /\ MaxArrivals < U32 /\ U32 \in Nat
  BY QdiscAssumption DEF SafeInv, TypeInv, TypeOK, Lists
<1>2. Occupancy \in Nat /\ Occupancy <= arrived
  BY <1>1, FS_CardinalityType DEF CountInv, Occupancy
<1>3. Occupancy % U32 = 0
  BY <1>2 DEF CountInv, QlenAccounting
<1>4. Occupancy = 0
  BY <1>1, <1>2, <1>3
<1>5. SlotsOf(queues) = {}
  BY <1>4, FS_EmptySet DEF CountInv, Occupancy
<1>6. ASSUME NEW b \in Bands, queues[b] # <<>> PROVE FALSE
  <2>1. queues[b] \in Seq(Skb)
    BY <1>1 DEF Lists
  <2>2. 1 \in DOMAIN queues[b]
    BY <1>6, <2>1
  <2> QED BY <1>5, <2>2, SlotsOfMember, Zenon
<1> QED BY <1>6

(***************************************************************************)
(* Every step of the transmit path, of pfab_change and of pfab_reset keeps *)
(* the promise.  The qdisc goes idle only when pfab_dequeue returned NULL  *)
(* or when the length is zero; an idle qdisc becomes able to give a packet *)
(* only through an enqueue, which runs it, or through pfab_change, which   *)
(* does not.                                                               *)
(***************************************************************************)
LEMMA IdleNext ==
  ASSUME SafeInv, SafeInv', CountInv, IdleOnlyWhenDone, [RootNext]_rootVars
  PROVE  IdleOnlyWhenDone'
<1> SUFFICES ASSUME run' = "idle", pending' = NoSkb, CanDequeue'
             PROVE  phantom' > 0 \/ kick'
  BY DEF IdleOnlyWhenDone
<1>0. TypeInv /\ TypeInv' /\ phantom \in Nat
  BY DEF SafeInv, TypeInv, TypeOK
<1>1. ASSUME qdisc_run PROVE FALSE
  BY <1>1 DEF qdisc_run
<1>2. ASSUME NEW f \in Frames, EnqueueAdmit(f) PROVE FALSE
  <2>1. pending' \in Skb
    BY <1>0, <1>2, NewSkbType DEF EnqueueAdmit, Arrives, TypeInv, TypeOK
  <2> QED BY <2>1, QdiscAssumption
<1>3. ASSUME qdisc_restart PROVE FALSE
  <2>1. DequeueNull
    BY <1>3 DEF qdisc_restart
  <2>2. ~ CanDequeue /\ UNCHANGED <<queues, bitmap, disable_dequeue>>
    BY <2>1 DEF DequeueNull, data
  <2> QED BY <2>2 DEF CanDequeue, HighList
<1>4. CASE sch_direct_xmit
  <2>1. qlen = 0 /\ UNCHANGED <<queues, bitmap, disable_dequeue, phantom>>
    BY <1>4 DEF sch_direct_xmit, vars, data, hist
  <2>2. CanDequeue
    BY <2>1 DEF CanDequeue, HighList
  <2>3. phantom # 0
    BY <1>0, <2>1, <2>2, ZeroLengthEmpty, EmptyGivesNothing
  <2> QED BY <1>0, <2>1, <2>3
<1>5. CASE RootChange
  <2>1. /\ UNCHANGED <<queues, bitmap, pending, phantom>>
        /\ run = "idle"
        /\ kick' = (kick \/ (run = "idle" /\ disable_dequeue /\ ~ disable_dequeue'))
    BY <1>5 DEF RootChange, Change, hist
  <2>2. ~ disable_dequeue'
    BY DEF CanDequeue
  <2>3. CASE disable_dequeue
    BY <2>1, <2>2, <2>3, Zenon
  <2>4. CASE ~ disable_dequeue
    <3>1. CanDequeue
      BY <2>1, <2>4 DEF CanDequeue, HighList
    <3> QED BY <2>1, <3>1, Zenon DEF IdleOnlyWhenDone
  <2> QED BY <2>3, <2>4
<1>6. ASSUME RootReset PROVE FALSE
  <2>1. \A b \in Bands : queues'[b] = <<>>
    BY <1>6 DEF RootReset, Reset
  <2>2. bitmap_high_prio(bitmap') \in Bands
    <3>1. bitmap' = bitmap /\ bitmap_high_prio(bitmap') >= 0
      BY <1>6 DEF RootReset, Reset, CanDequeue
    <3> QED BY <1>0, <3>1, HighBand
  <2> QED BY <2>1, <2>2 DEF CanDequeue, HighList
<1>7. CASE UNCHANGED rootVars
  BY <1>7 DEF rootVars, vars, data, hist, IdleOnlyWhenDone, CanDequeue, HighList
<1> QED BY <1>1, <1>2, <1>3, <1>4, <1>5, <1>6, <1>7 DEF RootNext, RootEnqueue

(***************************************************************************)
(* No run of the qdisc is missed: left idle, it gives no packet unless a   *)
(* drop that freed nothing has corrupted the length, or pfab_change has    *)
(* enabled dequeuing and no frame has arrived since.                       *)
(***************************************************************************)
THEOREM NoRunMissed == RootSpec => []IdleOnlyWhenDone
<1>1. RootInit => IdleOnlyWhenDone
  <2> SUFFICES ASSUME RootInit PROVE ~ CanDequeue
    BY DEF IdleOnlyWhenDone
  <2>1. Init /\ \A b \in Bands : queues[b] = <<>>
    BY Zenon DEF RootInit, Init, pfab_init
  <2> QED BY <2>1, SafeInvInit, EmptyGivesNothing DEF SafeInv
<1> QED BY <1>1, IdleNext, RootInvariants, PTL DEF RootSpec
=============================================================================
