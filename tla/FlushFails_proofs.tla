-------------------------- MODULE FlushFails_proofs --------------------------
(***************************************************************************)
(* Why a flush fails (FlushFails).  An entry that was read from the table  *)
(* is still there when its deletion is requested, unless an entry that     *)
(* this round asked for earlier has taken it away; and within a datagram,  *)
(* none can take away one that comes later.                                *)
(***************************************************************************)
EXTENDS Flush_proofs

\* A leaf is tried with SMT, then with Zenon, then with SMT and more time.
USE SMT, Zenon, SMTT(30)

\* No answer was lost, no dump refused, and no other process has changed the table.
Undisturbed == ~hist.lost /\ hist.deleted = 0 /\ hist.added = {}

\* A deletion of x can take y away.
Kills(x, y) == x.id = y.id \/ (~x.secondary /\ y.secondary /\ Subnet[x.id] = Subnet[y.id])

Here(y, t) == \E z \in Range(t) : z.id = y.id

Same(y, t, prom) == \A z \in Range(t) : z.id = y.id => prom \/ z.secondary = y.secondary

\* The entry y is still there, or one of the first n that were asked for has taken it away.
Spared(y, t, a, n, prom) == Same(y, t, prom) /\ (Here(y, t) \/ \E i \in 1 .. n : Kills(a[i].entry, y))

\* The buffer holds the requests for all that was asked but the first n.
Linked(b, a, n) == Len(a) = n + Len(b) /\ \A k \in DOMAIN b : b[k].id = a[n + k].entry.id

Ordered(a) == \A i, j \in DOMAIN a : i < j /\ Kills(a[i].entry, a[j].entry) => a[i].from < a[j].from

Backed(b, a, t, n, prom) ==
  Linked(b, a, n) /\ Ordered(a) /\ \A k \in DOMAIN b : Spared(a[n + k].entry, t, a, n, prom)

Awaits(w, q, t, a, n, prom) ==
  /\ \A y \in Range(w) : Spared(y, t, a, n, prom)
  /\ \A d \in Range(q) : \A y \in Range(d.msgs) : Spared(y, t, a, n, prom)

\* What is read of a datagram: no entry can take away one that comes later.
Harmless(s) == \A i, j \in DOMAIN s : i < j => ~Kills(s[i], s[j])

Earlier(a, w, k) ==
  \A i \in DOMAIN a : a[i].from <= k /\ (a[i].from = k => \A y \in Range(w) : ~Kills(a[i].entry, y))

Orderly(w, q, a, k) == Earlier(a, w, k) /\ Harmless(w) /\ \A d \in Range(q) : IsTable(d.msgs)

Sound ==
  /\ ~overrun /\ \A d \in Range(queue) : d.type = "ERROR" => AskedTooLate
  /\ \E n \in 0 .. Len(hist.asked) :
        /\ Backed(flushb, hist.asked, table, n, promote)
        /\ pc = "dump" => Awaits(work, queue, table, hist.asked, n, promote)
  /\ pc = "dump" => Orderly(work, queue, hist.asked, hist.datagrams)

FailInv ==
  /\ FlushFails
  /\ InFlush => status = "-"
  /\ pc = "answer" => truth # "-"
  /\ InFlush /\ Undisturbed => Sound

(***************************************************************************)
(* What a deletion leaves: the entries that were there, perhaps promoted;  *)
(* all but the one deleted and, where none is promoted, its secondaries.   *)
(***************************************************************************)
Loses(t, id, prom, z) ==
  ~prom /\ z.secondary /\ Subnet[z.id] = Subnet[id] /\ \A v \in Range(t) : v.id = id => ~v.secondary

LEMMA RemainingSpares ==
  ASSUME NEW t, IsTable(t), NEW id, NEW prom
  PROVE  /\ \A z \in Range(Remaining(t, id, prom)) : z \in Range(t) \/ (prom /\ Here(z, t))
         /\ \A z \in Range(t) : z.id # id => Here(z, Remaining(t, id, prom)) \/ Loses(t, id, prom, z)
<1> DEFINE u     == Remaining(t, id, prom)
           rest  == DOMAIN t \ Positions(t, id)
           heirs == {i \in rest : t[i].secondary /\ Subnet[t[i].id] = Subnet[id]}
           primaries == {i \in rest : ~t[i].secondary}
           h == Min(heirs)
           other == rest \ (primaries \cup {h})
           plain == heirs = {} \/ \E i \in Positions(t, id) : t[i].secondary
<1>0. t \in Seq(EntryType)
  BY DEF IsTable
<1>1. ASSUME NEW z \in Range(t), z.id # id PROVE \E i \in rest : z = t[i]
  BY <1>1 DEF Range, Positions
<1>2. rest \subseteq DOMAIN t /\ heirs \subseteq DOMAIN t /\ primaries \subseteq DOMAIN t /\ other \subseteq DOMAIN t
  OBVIOUS
<1>3. heirs # {} => h \in heirs
  <2>1. heirs \subseteq Nat
    BY <1>0, <1>2
  <2> HIDE DEF heirs
  <2>2. ASSUME heirs # {} PROVE h \in heirs
    <3>1. \E x \in heirs : \A y \in heirs : x <= y
      BY <2>1, <2>2, LeastNat, Zenon
    <3> QED BY <3>1 DEF Min
  <2> QED BY <2>2
<1>4. /\ plain => u = Kept(t, rest)
      /\ ~plain /\ ~prom => u = Kept(t, rest \ heirs)
      /\ ~plain /\ prom => u = Kept(t, primaries) \o <<Entry(t[h].id, FALSE)>> \o Kept(t, other)
  BY Zenon DEF Remaining
<1>5. ASSUME NEW I, I \subseteq DOMAIN t
      PROVE  /\ Kept(t, I) \in Seq(EntryType) /\ Range(Kept(t, I)) = {t[j] : j \in I}
             /\ Range(Kept(t, I)) \subseteq Range(t)
  <2>1. Kept(t, I) \in Seq(EntryType) /\ Range(Kept(t, I)) = {t[j] : j \in DOMAIN t \cap I}
    BY <1>0, KeptType, KeptSet
  <2>2. DOMAIN t \cap I = I
    BY <1>5
  <2> QED BY <2>1, <2>2, <1>5, Zenon DEF Range
<1>6. CASE plain
  <2> HIDE DEF rest, plain
  <2>1. u = Kept(t, rest) /\ Range(u) = {t[j] : j \in rest} /\ Range(u) \subseteq Range(t)
    BY <1>2, <1>4, <1>5, <1>6
  <2> HIDE DEF u
  <2> QED BY <1>1, <2>1 DEF Here, u
<1>7. CASE ~plain /\ ~prom
  <2>1. \A v \in Range(t) : v.id = id => ~v.secondary
    BY <1>7 DEF Range, Positions
  <2>2. \A i \in rest : i \in heirs \/ i \in rest \ heirs
    OBVIOUS
  <2>3. \A i \in heirs : t[i].secondary /\ Subnet[t[i].id] = Subnet[id]
    OBVIOUS
  <2>4. rest \ heirs \subseteq DOMAIN t
    OBVIOUS
  <2> HIDE DEF rest, heirs, plain
  <2>5. Range(u) = {t[j] : j \in rest \ heirs} /\ Range(u) \subseteq Range(t)
    BY <1>4, <1>5, <1>7, <2>4
  <2> HIDE DEF u
  <2>6. ASSUME NEW z \in Range(t), z.id # id PROVE Here(z, u) \/ Loses(t, id, prom, z)
    <3>1. PICK i \in rest : z = t[i]
      BY <1>1, <2>6
    <3>2. CASE i \in heirs
      BY <1>7, <2>1, <2>3, <3>1, <3>2 DEF Loses
    <3>3. CASE i \in rest \ heirs
      BY <2>5, <3>1, <3>3 DEF Here
    <3> QED BY <2>2, <3>2, <3>3
  <2> QED BY <2>5, <2>6 DEF u
<1>8. CASE ~plain /\ prom
  <2> DEFINE a == Kept(t, primaries)
             x == Entry(t[h].id, FALSE)
             m == <<x>>
             b == Kept(t, other)
  <2>1. h \in heirs /\ h \in rest
    BY <1>3, <1>8
  <2>2. \A i \in rest : i = h \/ i \in primaries \/ i \in other
    <3> HIDE DEF rest, primaries, h
    <3> QED OBVIOUS
  <2>3. u = a \o m \o b
    BY <1>4, <1>8, Zenon
  <2>4. x \in EntryType /\ x.id = t[h].id /\ t[h] \in Range(t)
    <3>1. h \in DOMAIN t
      BY <2>1
    <3> HIDE DEF h
    <3>2. t[h] \in EntryType /\ t[h] \in Range(t)
      BY <1>0, <3>1 DEF Range
    <3> QED BY <3>2 DEF EntryType, Entry
  <2> HIDE DEF rest, heirs, primaries, h, other, plain, u, x
  <2>5. /\ a \in Seq(EntryType) /\ Range(a) = {t[j] : j \in primaries} /\ Range(a) \subseteq Range(t)
        /\ b \in Seq(EntryType) /\ Range(b) = {t[j] : j \in other} /\ Range(b) \subseteq Range(t)
    BY <1>2, <1>5
  <2>6. m \in Seq(EntryType) /\ Range(m) = {x}
    BY <2>4, SingleSet
  <2> HIDE DEF a, m, b
  <2>7. a \o m \in Seq(EntryType) /\ Range(a \o m) = Range(a) \cup Range(m)
    BY <2>5, <2>6, ConcatSet
  <2> DEFINE c == a \o m
  <2>8. c \o b \in Seq(EntryType) /\ Range(c \o b) = Range(c) \cup Range(b)
    <3>1. c \in Seq(EntryType)
      BY <2>7
    <3> HIDE DEF c
    <3> QED BY <2>5, <3>1, ConcatSet
  <2>9. Range(u) = Range(a) \cup {x} \cup Range(b)
    BY <2>3, <2>6, <2>7, <2>8
  <2>10. \A z \in Range(u) : z \in Range(t) \/ (prom /\ Here(z, t))
    BY <1>8, <2>4, <2>5, <2>9 DEF Here
  <2>11. ASSUME NEW z \in Range(t), z.id # id PROVE Here(z, u)
    <3>1. PICK i \in rest : z = t[i]
      BY <1>1, <2>11
    <3>2. CASE i = h
      BY <2>4, <2>9, <3>1, <3>2 DEF Here
    <3>3. CASE i \in primaries \/ i \in other
      BY <2>5, <2>9, <3>1, <3>3 DEF Here
    <3> QED BY <2>2, <3>2, <3>3
  <2> QED BY <2>10, <2>11 DEF u
<1> QED BY <1>6, <1>7, <1>8, Zenon

LEMMA DeleteSpares ==
  ASSUME NEW t, IsTable(t), NEW x \in EntryType, Same(x, t, promote), Here(x, t),
         NEW y \in EntryType, Same(y, t, promote)
  PROVE  /\ Same(y, Remaining(t, x.id, promote), promote)
         /\ Here(y, t) => Here(y, Remaining(t, x.id, promote)) \/ Kills(x, y)
<1> DEFINE u == Remaining(t, x.id, promote)
<1>1. /\ \A z \in Range(u) : z \in Range(t) \/ (promote /\ Here(z, t))
      /\ \A z \in Range(t) : z.id # x.id => Here(z, u) \/ Loses(t, x.id, promote, z)
  BY RemainingSpares
<1> HIDE DEF u
<1>2. Same(y, u, promote)
  BY <1>1 DEF Same
<1>3. ASSUME NEW z \in Range(t), z.id = y.id PROVE Here(y, u) \/ Kills(x, y)
  <2>1. CASE z.id = x.id
    BY <1>3, <2>1 DEF Kills
  <2>2. CASE Here(z, u)
    BY <1>3, <2>2 DEF Here
  <2>3. CASE Loses(t, x.id, promote, z)
    <3>1. ~x.secondary
      <4>1. PICK v \in Range(t) : v.id = x.id
        BY DEF Here
      <4> QED BY <2>3, <4>1 DEF Loses, Same
    <3>2. y.secondary
      BY <1>3, <2>3 DEF Loses, Same
    <3> QED BY <1>3, <2>3, <3>1, <3>2 DEF Loses, Kills
  <2> QED BY <1>1, <2>1, <2>2, <2>3
<1>4. Here(y, t) => Here(y, u) \/ Kills(x, y)
  BY <1>3 DEF Here
<1> QED BY <1>2, <1>4 DEF u

(***************************************************************************)
(* The requests of a buffer, one after the other: an error shows that an   *)
(* entry was asked for after another one whose deletion took it away.      *)
(***************************************************************************)
AskedType == [entry : EntryType, from : Nat]

Conflict(a) == \E i, j \in DOMAIN a : i < j /\ Kills(a[i].entry, a[j].entry)

Explained(k, a, m, Y) ==
  IsTable(k.table) /\ (\A y \in Y : Spared(y, k.table, a, m, promote)) /\ (k.errors # <<>> => Conflict(a))

LEMMA DeleteExplained ==
  ASSUME NEW S, NEW k \in KernelState(S), NEW r, NEW a \in Seq(AskedType), NEW m \in Nat,
         m + 1 <= Len(a), r.id = a[m + 1].entry.id, NEW Y, Y \subseteq EntryType, a[m + 1].entry \in Y,
         Explained(k, a, m, Y)
  PROVE  Explained(Delete(k, r), a, m + 1, Y)
<1> DEFINE x == a[m + 1].entry
<1>0. k = [table |-> k.table, errors |-> k.errors] /\ IsTable(k.table) /\ x \in EntryType /\ x \in Y
  BY DEF KernelState, Explained
<1>1. m + 1 \in DOMAIN a /\ 1 .. m \subseteq DOMAIN a /\ 1 .. m \subseteq 1 .. m + 1 /\ \A i \in 1 .. m : i < m + 1
  OBVIOUS
<1>2. \A y \in Y : Spared(y, k.table, a, m, promote)
  BY DEF Explained
<1>3. \A y \in Y : Spared(y, k.table, a, m + 1, promote)
  BY <1>1, <1>2 DEF Spared
<1>4. CASE Positions(k.table, r.id) = {}
  <2>1. Delete(k, r).table = k.table
    BY <1>0, <1>4 DEF Delete
  <2>2. ~Here(x, k.table)
    BY <1>4 DEF Here, Positions, Range
  <2>3. PICK i \in 1 .. m : Kills(a[i].entry, x)
    BY <1>0, <1>2, <2>2 DEF Spared
  <2>4. Conflict(a)
    BY <1>1, <2>3 DEF Conflict
  <2> QED BY <1>0, <1>3, <2>1, <2>4 DEF Explained
<1>5. CASE Positions(k.table, r.id) # {}
  <2> DEFINE u == Remaining(k.table, x.id, promote)
  <2>1. Delete(k, r).table = u /\ Delete(k, r).errors = k.errors
    BY <1>0, <1>5 DEF Delete
  <2>2. Here(x, k.table)
    BY <1>5 DEF Here, Positions, Range
  <2>3. IsTable(u)
    BY <1>0, RemainingTable
  <2>4. ASSUME NEW y \in Y PROVE Spared(y, u, a, m + 1, promote)
    <3>1. Same(x, k.table, promote) /\ Same(y, k.table, promote) /\ y \in EntryType
      BY <1>0, <1>2, <2>4 DEF Spared
    <3>2. Same(y, u, promote) /\ (Here(y, k.table) => Here(y, u) \/ Kills(x, y))
      <4> HIDE DEF x
      <4> QED BY <1>0, <2>2, <3>1, DeleteSpares
    <3>3. Here(y, k.table) \/ \E i \in 1 .. m + 1 : Kills(a[i].entry, y)
      BY <1>3, <2>4 DEF Spared
    <3>4. m + 1 \in 1 .. m + 1
      OBVIOUS
    <3> HIDE DEF u
    <3> QED BY <3>2, <3>3, <3>4 DEF Spared
  <2>5. k.errors # <<>> => Conflict(a)
    BY DEF Explained
  <2> HIDE DEF u
  <2> QED BY <2>1, <2>3, <2>4, <2>5 DEF Explained
<1> QED BY <1>4, <1>5

LEMMA SentExplained ==
  ASSUME IsTable(table), NEW b \in Seq(RequestType), NEW a \in Seq(AskedType), NEW n \in Nat, Linked(b, a, n),
         NEW Y, Y \subseteq EntryType, \A k \in DOMAIN b : a[n + k].entry \in Y,
         \A y \in Y : Spared(y, table, a, n, promote)
  PROVE  Explained(Sent(b), a, Len(a), Y)
<1> DEFINE l == Len(b)
<1>0. l \in Nat /\ table \in Seq(EntryType) /\ Len(a) = n + l
  BY DEF IsTable, Linked
<1>1. PICK f : Handles(f, b)
  BY <1>0, AfterExists
<1>2. \A i \in 0 .. l : f[i] \in KernelState(SeqsOf(b))
  BY <1>1, Zenon DEF Handles
<1> DEFINE P == {i \in Nat : i <= l => Explained(f[i], a, n + i, Y)}
<1>3. 0 \in P
  <2>1. f[0].table = table /\ f[0].errors = <<>>
    BY <1>1 DEF Handles, Fresh
  <2>2. n + 0 = n
    OBVIOUS
  <2> QED BY <2>1, <2>2 DEF Explained
<1>4. ASSUME NEW i \in Nat, i \in P PROVE i + 1 \in P
  <2> SUFFICES ASSUME i + 1 <= l PROVE Explained(f[i + 1], a, n + (i + 1), Y)
    OBVIOUS
  <2> DEFINE k == f[i]
             r == b[i + 1]
             m == n + i
  <2>1. /\ Explained(k, a, m, Y) /\ f[i + 1] = Delete(k, r) /\ k \in KernelState(SeqsOf(b))
        /\ i + 1 \in DOMAIN b /\ m \in Nat /\ m + 1 = n + (i + 1) /\ m + 1 <= Len(a)
    <3>1. i \in 0 .. l /\ i + 1 \in 1 .. l /\ (i + 1) - 1 = i /\ i <= l
      BY <1>0
    <3> QED BY <1>0, <1>1, <1>2, <1>4, <3>1 DEF Handles
  <2>2. r.id = a[m + 1].entry.id /\ a[m + 1].entry \in Y
    BY <2>1 DEF Linked
  <2>3. Explained(Delete(k, r), a, m + 1, Y)
    <3> HIDE DEF k, r, m
    <3> QED BY <2>1, <2>2, DeleteExplained
  <2> QED BY <2>1, <2>3
<1>5. l \in P
  <2> HIDE DEF P
  <2> QED BY <1>0, <1>3, <1>4, NatInduct
<1> QED BY <1>0, <1>1, <1>5 DEF Handles

-----------------------------------------------------------------------------
\* A datagram of a dump is a part of the table, and the filters bring its secondaries to the front.
LEMMA DumpTable ==
  ASSUME NEW t, IsTable(t), NEW p \in Nat, NEW s
  PROVE  IsTable(DumpDatagram(t, p, s).msgs)
<1> DEFINE d == DumpDatagram(t, p, s)
           l == IF p + DumpSize < Len(t) THEN p + DumpSize ELSE Len(t)
<1>0. t \in Seq(EntryType) /\ DumpSize \in Nat \ {0}
  BY NetlinkAssumption DEF IsTable
<1>1. CASE p >= Len(t)
  <2>1. d.msgs = <<>>
    BY <1>1 DEF DumpDatagram
  <2> QED BY <2>1 DEF IsTable
<1>2. CASE ~(p >= Len(t))
  <2>1. d.msgs = SubSeq(t, p + 1, l)
    BY <1>2, Zenon DEF DumpDatagram
  <2>2. p \in Nat /\ l \in Nat /\ p < l /\ l <= Len(t)
    BY <1>0, <1>2
  <2> HIDE DEF d, l
  <2>3. d.msgs \in Seq(EntryType) /\ Len(d.msgs) = l - p
    BY <1>0, <2>1, <2>2
  <2>4. \A k \in DOMAIN d.msgs : p + k \in DOMAIN t /\ d.msgs[k] = t[p + k]
    BY <1>0, <2>1, <2>2, <2>3
  <2>5. ASSUME NEW i \in DOMAIN d.msgs, NEW j \in DOMAIN d.msgs, i < j PROVE Before(d.msgs[i], d.msgs[j])
    <3>1. p + i < p + j
      BY <2>2, <2>3, <2>5
    <3> QED BY <2>4, <3>1 DEF IsTable
  <2> QED BY <2>3, <2>5 DEF IsTable, d
<1> QED BY <1>1, <1>2

LEMMA FilteredHarmless ==
  ASSUME NEW m, IsTable(m)
  PROVE  Harmless(Filtered(m))
<1> DEFINE s == Secondaries(m)
           p == Primaries(m)
<1>0. m \in Seq(EntryType)
  BY DEF IsTable
<1>1. IsTable(s) /\ IsTable(p)
  BY KeptTable DEF Secondaries, Primaries
<1>2. Range(s) = {m[j] : j \in DOMAIN m \cap {i \in DOMAIN m : m[i].secondary}}
  BY <1>0, KeptSet DEF Secondaries
<1>3. Range(p) = {m[j] : j \in DOMAIN m \cap {i \in DOMAIN m : ~m[i].secondary}}
  BY <1>0, KeptSet DEF Primaries
<1>4. ASSUME NEW x \in Range(s), NEW y \in Range(p) PROVE x.secondary /\ ~y.secondary /\ x.id # y.id
  <2>1. PICK i \in DOMAIN m : x = m[i] /\ m[i].secondary
    BY <1>2
  <2>2. PICK j \in DOMAIN m : y = m[j] /\ ~m[j].secondary
    BY <1>3
  <2>3. i # j
    BY <2>1, <2>2
  <2> QED BY <2>1, <2>2, <2>3, TableDistinct
<1>5. \A x \in Range(s) : x.secondary
  BY <1>2
<1>6. \A y \in Range(p) : ~y.secondary
  BY <1>3
<1> HIDE DEF s, p
<1>7. s \in Seq(EntryType) /\ p \in Seq(EntryType)
  BY <1>1 DEF IsTable
<1>8. ASSUME NEW i \in DOMAIN (s \o p), NEW j \in DOMAIN (s \o p), i < j
      PROVE  ~Kills((s \o p)[i], (s \o p)[j])
  <2>1. CASE j <= Len(s)
    <3>1. i \in DOMAIN s /\ j \in DOMAIN s /\ (s \o p)[i] = s[i] /\ (s \o p)[j] = s[j]
      BY <1>7, <1>8, <2>1
    <3>2. s[i] \in Range(s) /\ s[i].id # s[j].id
      BY <1>1, <1>8, <3>1 DEF IsTable, Before, Range
    <3> QED BY <1>5, <3>1, <3>2 DEF Kills
  <2>2. CASE Len(s) < i
    <3>1. /\ i - Len(s) \in DOMAIN p /\ j - Len(s) \in DOMAIN p /\ i - Len(s) < j - Len(s)
          /\ (s \o p)[i] = p[i - Len(s)] /\ (s \o p)[j] = p[j - Len(s)]
      BY <1>7, <1>8, <2>2
    <3>2. p[j - Len(s)] \in Range(p) /\ p[i - Len(s)].id # p[j - Len(s)].id
      BY <1>1, <3>1 DEF IsTable, Before, Range
    <3> QED BY <1>6, <3>1, <3>2 DEF Kills
  <2>3. CASE i <= Len(s) /\ Len(s) < j
    <3>1. /\ i \in DOMAIN s /\ (s \o p)[i] = s[i]
          /\ j - Len(s) \in DOMAIN p /\ (s \o p)[j] = p[j - Len(s)]
      BY <1>7, <1>8, <2>3
    <3>2. s[i] \in Range(s) /\ p[j - Len(s)] \in Range(p)
      BY <3>1 DEF Range
    <3> QED BY <1>4, <3>1, <3>2 DEF Kills
  <2>4. i \in Nat /\ j \in Nat /\ Len(s) \in Nat
    BY <1>7, <1>8
  <2> QED BY <1>8, <2>1, <2>2, <2>3, <2>4
<1> QED BY <1>8 DEF Harmless, Filtered, s, p

\* What the table shows is there.
LEMMA SparedShown ==
  ASSUME NEW t, IsTable(t), NEW y \in Range(t), NEW a, NEW n, NEW prom
  PROVE  Spared(y, t, a, n, prom)
<1>1. PICK i \in DOMAIN t : y = t[i]
  BY DEF Range
<1>2. \A z \in Range(t) : z.id = y.id => z = y
  BY <1>1, TableDistinct DEF Range
<1> QED BY <1>2 DEF Spared, Same, Here

-----------------------------------------------------------------------------
LEMMA FailInit ==
  ASSUME FlushInit
  PROVE  FailInv
<1>1. queue = <<>> /\ flushb = <<>> /\ overrun = FALSE /\ pc = "request" /\ status = "-" /\ truth = "-"
      /\ hist.asked = <<>>
  BY DEF FlushInit, HistInit
<1>2. Range(queue) = {}
  BY <1>1 DEF Range
<1>3. 0 \in 0 .. Len(hist.asked) /\ Backed(flushb, hist.asked, table, 0, promote)
  BY <1>1 DEF Backed, Linked, Ordered
<1> QED BY <1>1, <1>2, <1>3 DEF FailInv, FlushFails, Sound

\* What was asked for too late, told from the order in the round.
LEMMA ConflictTooLate ==
  ASSUME Ordered(hist.asked), Conflict(hist.asked)
  PROVE  AskedTooLate
BY Zenon DEF Ordered, Conflict, AskedTooLate, Kills

(***************************************************************************)
(* The buffer is sent: an error shows that something was asked for too     *)
(* late, and what is still to come is there or was taken away.             *)
(***************************************************************************)
LEMMA SendSound ==
  ASSUME FlushTypeOK, IsTable(table), Sound
  PROVE  /\ \A d \in Range(queue \o Sent(flushb).errors) : d.type = "ERROR" => AskedTooLate
         /\ pc = "dump" => Awaits(work, queue, Sent(flushb).table, hist.asked, Len(hist.asked), promote)
<1> DEFINE a == hist.asked
<1>0. /\ a \in Seq(AskedType) /\ flushb \in Seq(RequestType) /\ work \in Seq(EntryType)
      /\ queue \in Seq(DatagramType) /\ table \in Seq(EntryType)
  BY DEF FlushTypeOK, SockTypeOK, HistType, AskedType
<1>1. PICK n \in 0 .. Len(a) :
         /\ Backed(flushb, a, table, n, promote)
         /\ pc = "dump" => Awaits(work, queue, table, a, n, promote)
  BY DEF Sound
<1> DEFINE Y == {y \in EntryType : Spared(y, table, a, n, promote)}
<1>2. n \in Nat /\ Linked(flushb, a, n) /\ Ordered(a)
  BY <1>0, <1>1 DEF Backed
<1>3. \A k \in DOMAIN flushb : a[n + k].entry \in Y
  <2>1. ASSUME NEW k \in DOMAIN flushb PROVE n + k \in DOMAIN a
    BY <1>0, <1>2, <2>1 DEF Linked
  <2>2. \A i \in DOMAIN a : a[i].entry \in EntryType
    <3> HIDE DEF a
    <3>1. \A i \in DOMAIN a : a[i] \in AskedType
      BY <1>0
    <3> QED BY <3>1 DEF AskedType
  <2> QED BY <1>1, <2>1, <2>2 DEF Backed
<1>4. Explained(Sent(flushb), a, Len(a), Y)
  <2>1. Y \subseteq EntryType /\ \A y \in Y : Spared(y, table, a, n, promote)
    OBVIOUS
  <2> HIDE DEF Y, a
  <2> QED BY <1>0, <1>2, <1>3, <2>1, SentExplained
<1>5. ASSUME NEW d \in Range(queue \o Sent(flushb).errors), d.type = "ERROR" PROVE AskedTooLate
  <2>1. Sent(flushb).errors \in Seq(ErrorType(SeqsOf(flushb)))
    BY <1>0, SentShape
  <2>2. CASE Sent(flushb).errors = <<>>
    <3>1. queue \o Sent(flushb).errors = queue
      BY <1>0, <2>2
    <3> QED BY <1>5, <3>1 DEF Sound
  <2>3. CASE Sent(flushb).errors # <<>>
    BY <1>2, <1>4, <2>3, ConflictTooLate DEF Explained
  <2> QED BY <2>2, <2>3
<1>6. ASSUME pc = "dump" PROVE Awaits(work, queue, Sent(flushb).table, a, Len(a), promote)
  <2>1. Range(work) \subseteq EntryType /\ \A d \in Range(queue) : Range(d.msgs) \subseteq EntryType
    <3>1. \A d \in Range(queue) : d.msgs \in Seq(EntryType)
      BY <1>0, MemberType DEF DatagramType
    <3> QED BY <1>0, <3>1, MemberType
  <2>2. \A y \in Y : Spared(y, Sent(flushb).table, a, Len(a), promote)
    BY <1>4 DEF Explained
  <2> HIDE DEF a
  <2> QED BY <1>1, <1>6, <2>1, <2>2 DEF Awaits
<1> QED BY <1>5, <1>6

LEMMA SendFailsSound ==
  ASSUME FlushTypeOK, IsTable(table), Sound, NEW ok, ok, SendFails(flushb, ok)
  PROVE  AskedTooLate
<1> DEFINE q == queue \o Sent(flushb).errors
<1>1. ~overrun
  BY DEF Sound
<1>2. q # <<>> /\ Head(q).type = "ERROR"
  BY <1>1 DEF SendFails
<1>3. Head(q) \in Range(q)
  <2>1. table \in Seq(EntryType) /\ flushb \in Seq(RequestType) /\ queue \in Seq(DatagramType)
    BY DEF FlushTypeOK, SockTypeOK
  <2>2. Sent(flushb).errors \in Seq(ErrorType(SeqsOf(flushb)))
    BY <2>1, SentShape
  <2> DEFINE e == Sent(flushb).errors
             T == DatagramType \cup ErrorType(SeqsOf(flushb))
  <2>3. queue \in Seq(T) /\ e \in Seq(T)
    BY <2>1, <2>2
  <2> HIDE DEF e, T
  <2>4. queue \o e \in Seq(T)
    BY <2>3, ConcatSet
  <2>5. queue \o e # <<>>
    BY <1>2 DEF e
  <2>6. Head(queue \o e) \in Range(queue \o e)
    BY <2>4, <2>5, TailSet, Zenon
  <2> QED BY <2>6, Zenon DEF e
<1> QED BY <1>2, <1>3, SendSound

(***************************************************************************)
(* Reading the table, and what a step adds to what was asked for.          *)
(***************************************************************************)
LEMMA SparedMore ==
  ASSUME NEW y, NEW t, NEW a \in Seq(AskedType), NEW x \in AskedType, NEW n \in 0 .. Len(a), NEW prom,
         Spared(y, t, a, n, prom)
  PROVE  Spared(y, t, Append(a, x), n, prom)
<1>1. \A i \in 1 .. n : Append(a, x)[i] = a[i]
  OBVIOUS
<1> QED BY <1>1 DEF Spared

LEMMA TooLateMore ==
  ASSUME FlushTypeOK, NEW e, e \in EntryType, AskedTooLate, hist'.asked = Recorded(e)
  PROVE  AskedTooLate'
<1>1. hist.asked \in Seq(AskedType) /\ [entry |-> e, from |-> hist.datagrams] \in AskedType
  BY DEF FlushTypeOK, HistType, AskedType
<1> DEFINE a == hist.asked
           b == hist'.asked
<1>2. DOMAIN a \subseteq DOMAIN b /\ \A i \in DOMAIN a : b[i] = a[i]
  <2> DEFINE x == [entry |-> e, from |-> hist.datagrams]
  <2>1. b = Append(a, x)
    BY DEF Recorded
  <2> HIDE DEF a, b, x
  <2> QED BY <1>1, <2>1 DEF a, x
<1> QED BY <1>2 DEF AskedTooLate

\* An entry of the datagram that is being read is asked for.
LEMMA OrderedMore ==
  ASSUME NEW a \in Seq(AskedType), NEW w \in Seq(EntryType), w # <<>>, NEW k \in Nat, NEW e, e = Head(w),
         NEW q, Ordered(a), Orderly(w, q, a, k)
  PROVE  LET b == Append(a, [entry |-> e, from |-> k])
         IN  Ordered(b) /\ Orderly(Tail(w), q, b, k)
<1> DEFINE x == [entry |-> e, from |-> k]
           b == Append(a, x)
<1>0. e \in EntryType /\ x \in AskedType /\ x.entry = e /\ x.from = k
  BY DEF AskedType
<1> HIDE DEF x
<1>1. /\ b \in Seq(AskedType) /\ Len(b) = Len(a) + 1 /\ b[Len(a) + 1] = x
      /\ DOMAIN b = DOMAIN a \cup {Len(a) + 1} /\ \A i \in DOMAIN a : b[i] = a[i] /\ i < Len(a) + 1
  BY <1>0
<1>2. Len(a) \in Nat /\ Len(a) + 1 \notin DOMAIN a
  OBVIOUS
<1>3. e \in Range(w) /\ Range(Tail(w)) \subseteq Range(w)
  BY TailSet
<1> HIDE DEF b
<1>4. Earlier(a, w, k) /\ Harmless(w)
  BY DEF Orderly
<1>5. ASSUME NEW i \in DOMAIN b, NEW j \in DOMAIN b, i < j, Kills(b[i].entry, b[j].entry)
      PROVE  b[i].from < b[j].from
  <2>1. CASE j \in DOMAIN a
    <3>1. i \in DOMAIN a
      BY <1>1, <1>2, <1>5, <2>1
    <3> QED BY <1>1, <1>5, <2>1, <3>1 DEF Ordered
  <2>2. CASE j = Len(a) + 1
    <3>1. i \in DOMAIN a /\ b[i] = a[i] /\ b[j] = x
      BY <1>1, <1>2, <1>5, <2>2
    <3>2. a[i].from <= k /\ a[i].from # k /\ a[i].from \in Nat
      <4>1. a[i].from <= k /\ (a[i].from = k => ~Kills(a[i].entry, e))
        BY <1>3, <1>4, <3>1 DEF Earlier
      <4>2. a[i] \in AskedType
        BY <3>1
      <4> QED BY <1>0, <1>5, <3>1, <4>1, <4>2 DEF AskedType
    <3> QED BY <1>0, <3>1, <3>2
  <2> QED BY <1>1, <2>1, <2>2
<1>6. /\ Len(w) \in Nat \ {0} /\ Len(Tail(w)) = Len(w) - 1
      /\ \A i \in DOMAIN Tail(w) : i + 1 \in DOMAIN w /\ Tail(w)[i] = w[i + 1]
  OBVIOUS
<1>7. \A y \in Range(Tail(w)) : ~Kills(e, y)
  <2> SUFFICES ASSUME NEW i \in DOMAIN Tail(w) PROVE ~Kills(e, Tail(w)[i])
    BY DEF Range
  <2>1. 1 \in DOMAIN w /\ 1 < i + 1 /\ w[1] = e
    BY <1>6
  <2> QED BY <1>4, <1>6, <2>1 DEF Harmless
<1>8. Earlier(b, Tail(w), k)
  <2> SUFFICES ASSUME NEW i \in DOMAIN b
               PROVE  b[i].from <= k /\ (b[i].from = k => \A y \in Range(Tail(w)) : ~Kills(b[i].entry, y))
    BY DEF Earlier
  <2>1. CASE i \in DOMAIN a
    BY <1>1, <1>3, <1>4, <2>1 DEF Earlier
  <2>2. CASE i = Len(a) + 1
    BY <1>0, <1>1, <1>7, <2>2
  <2> QED BY <1>1, <2>1, <2>2
<1>9. Harmless(Tail(w))
  <2> SUFFICES ASSUME NEW i \in DOMAIN Tail(w), NEW j \in DOMAIN Tail(w), i < j
               PROVE  ~Kills(Tail(w)[i], Tail(w)[j])
    BY DEF Harmless
  <2>1. i + 1 < j + 1
    BY <1>6
  <2> QED BY <1>4, <1>6, <2>1 DEF Harmless
<1>10. Ordered(b)
  BY <1>5 DEF Ordered
<1> QED BY <1>8, <1>9, <1>10 DEF Orderly, b, x

LEMMA OrderlyTail ==
  ASSUME NEW w \in Seq(EntryType), w # <<>>, NEW a, NEW k, NEW q, Orderly(w, q, a, k)
  PROVE  Orderly(Tail(w), q, a, k)
<1>1. Range(Tail(w)) \subseteq Range(w)
  BY TailSet
<1>2. /\ Len(w) \in Nat \ {0} /\ Len(Tail(w)) = Len(w) - 1
      /\ \A i \in DOMAIN Tail(w) : i + 1 \in DOMAIN w /\ Tail(w)[i] = w[i + 1]
  OBVIOUS
<1>3. Harmless(Tail(w))
  <2> SUFFICES ASSUME NEW i \in DOMAIN Tail(w), NEW j \in DOMAIN Tail(w), i < j
               PROVE  ~Kills(Tail(w)[i], Tail(w)[j])
    BY DEF Harmless
  <2>1. i + 1 < j + 1
    BY <1>2
  <2> QED BY <1>2, <2>1 DEF Harmless, Orderly
<1>4. Earlier(a, Tail(w), k)
  BY <1>1 DEF Earlier, Orderly
<1> QED BY <1>3, <1>4 DEF Orderly

LEMMA BackedMore ==
  ASSUME NEW a \in Seq(AskedType), NEW b \in Seq(RequestType), NEW n \in 0 .. Len(a), NEW t, NEW prom,
         Backed(b, a, t, n, prom), NEW x \in AskedType, NEW r \in RequestType, r.id = x.entry.id,
         Spared(x.entry, t, a, n, prom), Ordered(Append(a, x))
  PROVE  Backed(Append(b, r), Append(a, x), t, n, prom) /\ n \in 0 .. Len(Append(a, x))
<1> DEFINE aa == Append(a, x)
           bb == Append(b, r)
<1>1. /\ Len(a) \in Nat /\ Len(b) \in Nat /\ n \in Nat /\ Len(aa) = Len(a) + 1 /\ Len(bb) = Len(b) + 1
      /\ DOMAIN bb = DOMAIN b \cup {Len(b) + 1} /\ bb[Len(b) + 1] = r /\ aa[Len(a) + 1] = x
      /\ \A k \in DOMAIN b : bb[k] = b[k]
      /\ \A i \in 1 .. Len(a) : aa[i] = a[i]
  OBVIOUS
<1>2. Len(a) = n + Len(b) /\ \A k \in DOMAIN b : b[k].id = a[n + k].entry.id /\ n + k \in 1 .. Len(a)
  BY DEF Backed, Linked
<1>3. \A y : Spared(y, t, a, n, prom) => Spared(y, t, aa, n, prom)
  BY SparedMore
<1>4. \A k \in DOMAIN b : Spared(a[n + k].entry, t, a, n, prom)
  BY DEF Backed
<1>5. Len(a) + 1 = n + (Len(b) + 1)
  BY <1>1, <1>2
<1> HIDE DEF aa, bb
<1>6. Linked(bb, aa, n)
  BY <1>1, <1>2, <1>5 DEF Linked
<1>7. \A k \in DOMAIN bb : Spared(aa[n + k].entry, t, aa, n, prom)
  BY <1>1, <1>2, <1>3, <1>4, <1>5
<1>8. n \in 0 .. Len(aa)
  BY <1>1
<1> QED BY <1>6, <1>7, <1>8, Zenon DEF Backed, aa, bb

\* An error has no messages.
LEMMA NoMessages == Range(<<>>) = {} /\ IsTable(<<>>)
BY DEF Range, IsTable

\* A request is put into the buffer.
LEMMA PutSound ==
  ASSUME FlushTypeOK, pc = "dump", work # <<>>, NEW e, e = Head(work), Put(e),
         hist'.asked = Recorded(e), hist'.datagrams = hist.datagrams, promote' = promote, ~overrun',
         NEW n \in 0 .. Len(hist.asked),
         Backed(IF Len(flushb) = FlushSize THEN <<>> ELSE flushb, hist.asked, table', n, promote),
         Awaits(work, queue, table', hist.asked, n, promote),
         Orderly(work, queue, hist.asked, hist.datagrams),
         \A d \in Range(queue') : d.type = "ERROR" => AskedTooLate,
         \A d \in Range(queue') : d \in Range(queue) \/ d.msgs = <<>>
  PROVE  Sound'
<1> DEFINE a == hist.asked
           k == hist.datagrams
           x == [entry |-> e, from |-> k]
           t == table'
<1>0. a \in Seq(AskedType) /\ k \in Nat /\ work \in Seq(EntryType)
  BY Zenon DEF FlushTypeOK, HistType, AskedType
<1>1. PICK b \in {<<>>, flushb} :
         /\ b = IF Len(flushb) = FlushSize THEN <<>> ELSE flushb
         /\ flushb' = Append(b, [id |-> e.id, seq |-> rth'.seq])
         /\ b \in Seq(RequestType)
         /\ [id |-> e.id, seq |-> rth'.seq] \in RequestType
  BY PutShape, Zenon
<1>2. e \in EntryType /\ work' = Tail(work)
  BY PutShape, Zenon
<1>3. x \in AskedType /\ x.entry = e /\ hist'.asked = Append(a, x)
  BY <1>0, <1>2 DEF AskedType, Recorded
<1>4. e \in Range(work) /\ Range(Tail(work)) \subseteq Range(work)
  BY <1>0, TailSet
<1>5. Backed(b, a, t, n, promote)
  BY <1>1
<1>6. Ordered(Append(a, x)) /\ Orderly(Tail(work), queue, Append(a, x), k)
  <2>1. Ordered(a)
    BY <1>5 DEF Backed
  <2> QED BY <1>0, <2>1, OrderedMore
<1> HIDE DEF x
<1>7. Backed(flushb', hist'.asked, t, n, promote) /\ n \in 0 .. Len(hist'.asked)
  <2> DEFINE r == [id |-> e.id, seq |-> rth'.seq]
  <2>1. r \in RequestType /\ r.id = x.entry.id /\ flushb' = Append(b, r)
    BY <1>1, <1>3, Zenon
  <2>2. Spared(x.entry, t, a, n, promote)
    BY <1>3, <1>4, Zenon DEF Awaits
  <2> HIDE DEF r, a, t
  <2> QED BY <1>0, <1>1, <1>3, <1>5, <1>6, <2>1, <2>2, BackedMore, Zenon DEF a
<1>8. Awaits(work', queue', t, hist'.asked, n, promote)
  <2>1. \A y : Spared(y, t, a, n, promote) => Spared(y, t, Append(a, x), n, promote)
    BY <1>0, <1>3, SparedMore, Zenon
  <2> HIDE DEF a, t
  <2> QED BY <1>2, <1>3, <1>4, <2>1, NoMessages, Zenon DEF Awaits, a, t
<1>9. Orderly(work', queue', hist'.asked, hist'.datagrams)
  BY <1>2, <1>3, <1>6, NoMessages, Zenon DEF Orderly
<1>10. \A d \in Range(queue') : d.type = "ERROR" => AskedTooLate'
  BY <1>2, TooLateMore
<1> QED BY <1>7, <1>8, <1>9, <1>10 DEF Sound

\* The next datagram of the dump is read.
LEMMA ReceiveSound ==
  ASSUME FlushTypeOK, IsTable(table), Sound, NEW ok \in BOOLEAN, Receive(ok), Undisturbed', pc' # "exited"
  PROVE  Sound'
<1> DEFINE d == Head(queue)
           next == DumpDatagram(table, pos + Len(d.msgs), d.seq)
           a == hist.asked
<1>0. /\ a \in Seq(AskedType) /\ hist.datagrams \in Nat /\ queue \in Seq(DatagramType) /\ hist \in HistType
      /\ SockTypeOK
  BY DEF FlushTypeOK, SockTypeOK, HistType, AskedType
<1>1. /\ recvmsg(ok) /\ work' = Filtered(Own(d)) /\ UNCHANGED flushb /\ pc = "dump"
      /\ hist' = [hist EXCEPT !.datagrams = @ + 1, !.lost = @ \/ ~ok]
  BY DEF Receive, exits
<1>2. ok /\ overrun' = FALSE /\ table' = table /\ promote' = promote
  <2>1. CASE ok
    BY <1>1, <2>1, Zenon DEF recvmsg
  <2>2. CASE ~ok
    <3>1. hist'.lost = TRUE
      BY <1>0, <1>1, <2>2, Zenon DEF HistType
    <3> QED BY <3>1 DEF Undisturbed
  <2> QED BY <2>1, <2>2, Zenon
<1>3. hist'.asked = a /\ hist'.datagrams = hist.datagrams + 1 /\ flushb' = flushb
  BY <1>0, <1>1 DEF HistType
<1>4. /\ d \in DatagramType /\ queue # <<>> /\ d \in Range(queue)
      /\ queue' \in {Tail(queue), Append(Tail(queue), next)}
      /\ Tail(queue) \in Seq(DatagramType) /\ Range(Tail(queue)) \subseteq Range(queue)
  <2>1. d \in DatagramType /\ queue # <<>> /\ queue' \in {Tail(queue), Append(Tail(queue), next)}
    BY <1>0, <1>1, RecvSock
  <2> QED BY <1>0, <2>1, TailSet
<1>5. next \in DatagramType /\ next.type # "ERROR" /\ Range(next.msgs) \subseteq Range(table) /\ IsTable(next.msgs)
  <2>1. table \in Seq(EntryType) /\ pos + Len(d.msgs) \in Nat /\ d.seq \in SeqNumbers
    <3>1. d.msgs \in Seq(EntryType) /\ d.seq \in SeqNumbers
      BY <1>4 DEF DatagramType
    <3> QED BY <1>0, <3>1 DEF SockTypeOK
  <2> HIDE DEF d
  <2> QED BY <2>1, DumpType, DumpShape, DumpTable
<1>6. Range(queue') \subseteq Range(queue) \cup {next}
  <2> DEFINE c == Tail(queue)
  <2>1. c \in Seq(DatagramType) /\ next \in DatagramType
    BY <1>4, <1>5
  <2> HIDE DEF next, c
  <2>2. Range(Append(c, next)) = Range(c) \cup {next}
    BY <2>1, AppendSet
  <2> QED BY <1>4, <2>2, Zenon DEF c
<1>7. PICK n \in 0 .. Len(a) :
         Backed(flushb, a, table, n, promote) /\ Awaits(work, queue, table, a, n, promote)
  BY <1>1 DEF Sound
<1>8. Own(d) \in {d.msgs, <<>>} /\ IsTable(d.msgs) /\ IsTable(Own(d))
  <2>1. Own(d) \in {d.msgs, <<>>}
    BY DEF Own
  <2>2. IsTable(d.msgs) /\ IsTable(<<>>)
    BY <1>1, <1>4 DEF Sound, Orderly, IsTable
  <2> QED BY <2>1, <2>2
<1>9. Range(work') \subseteq Range(d.msgs) /\ Harmless(work')
  <2>1. Range(work') = Range(Own(d))
    BY <1>1, <1>8, FilteredShape DEF IsTable
  <2>2. Range(<<>>) = {}
    BY DEF Range
  <2> HIDE DEF d
  <2> QED BY <1>1, <1>8, <2>1, <2>2, FilteredHarmless
<1> HIDE DEF next, d
<1>10. Awaits(work', queue', table', a, n, promote')
  <2>1. \A y \in Range(table) : Spared(y, table, a, n, promote)
    BY SparedShown
  <2> QED BY <1>2, <1>4, <1>5, <1>6, <1>7, <1>9, <2>1 DEF Awaits
<1>11. Orderly(work', queue', a, hist.datagrams + 1)
  <2>1. Earlier(a, work, hist.datagrams) /\ \A c \in Range(queue) : IsTable(c.msgs)
    BY <1>1 DEF Sound, Orderly
  <2>2. \A i \in DOMAIN a : a[i].from \in Nat
    <3> HIDE DEF a
    <3>1. \A i \in DOMAIN a : a[i] \in AskedType
      BY <1>0
    <3> QED BY <3>1 DEF AskedType
  <2>3. Earlier(a, work', hist.datagrams + 1)
    <3> HIDE DEF a
    <3> QED BY <1>0, <2>1, <2>2 DEF Earlier
  <2> QED BY <1>5, <1>6, <1>9, <2>1, <2>3 DEF Orderly
<1>12. \A c \in Range(queue') : c.type = "ERROR" => AskedTooLate'
  <2>1. AskedTooLate' <=> AskedTooLate
    BY <1>3 DEF AskedTooLate
  <2> QED BY <1>5, <1>6, <2>1 DEF Sound
<1> QED BY <1>2, <1>3, <1>7, <1>10, <1>11, <1>12 DEF Sound

LEMMA FailNext ==
  ASSUME FlushTypeOK, IsTable(table), AnswerInv, FailInv, [FlushNext]_flushVars
  PROVE  FailInv'
<1>t. /\ hist \in HistType /\ table \in Seq(EntryType) /\ queue \in Seq(DatagramType) /\ work \in Seq(EntryType)
      /\ flushb \in Seq(RequestType) /\ hist.asked \in Seq(AskedType) /\ hist.datagrams \in Nat
      /\ hist.deleted \in Nat /\ rth \in [seq : SeqNumbers, dump : SeqNumbers]
  BY DEF FlushTypeOK, SockTypeOK, HistType, AskedType
<1>a. ASSUME hist'.asked = hist.asked PROVE AskedTooLate' <=> AskedTooLate
  BY <1>a DEF AskedTooLate
<1>b. ASSUME InFlush, status' = status, truth' = truth, pc' # "answer", InFlush' /\ Undisturbed' => Sound'
      PROVE  FailInv'
  BY <1>b DEF FailInv, FlushFails
<1>c. ASSUME pc' \in {"talk", "exited"}, FlushFails' PROVE FailInv'
  BY <1>c DEF FailInv, InFlush
<1>1. ASSUME NEW ok \in BOOLEAN, Request(ok) PROVE FailInv'
  <2> DEFINE s == NextSeq(rth.seq)
             d == DumpDatagram(table, 0, s)
  <2>1. /\ pc = "request" /\ pc' = "dump" /\ status' = status /\ truth' = truth /\ work' = work /\ flushb' = flushb
        /\ table' = table /\ promote' = promote /\ overrun' = overrun
        /\ hist' = [hist EXCEPT !.asked = <<>>, !.datagrams = 0, !.shifted = FALSE, !.lost = @ \/ ~ok]
        /\ ok => queue' = Append(queue, d)
    BY <1>1 DEF Request, rtnl_wilddump_request
  <2>2. queue = <<>> /\ flushb = <<>> /\ work = <<>>
    BY <2>1 DEF AnswerInv, InFlush
  <2>3. ASSUME Undisturbed' PROVE Sound'
    <3>1. hist'.asked = <<>> /\ hist'.deleted = hist.deleted /\ hist'.added = hist.added
      BY <1>t, <2>1 DEF HistType
    <3>2. ok /\ ~hist.lost
      <4>1. CASE ~ok
        <5>1. hist'.lost = TRUE
          BY <1>t, <2>1, <4>1, Zenon DEF HistType
        <5> QED BY <2>3, <5>1 DEF Undisturbed
      <4>2. CASE ok
        <5>1. hist'.lost = hist.lost
          BY <1>t, <2>1, <4>2 DEF HistType
        <5> QED BY <2>3, <4>2, <5>1 DEF Undisturbed
      <4> QED BY <4>1, <4>2
    <3>3. ~overrun'
      BY <2>1, <2>3, <3>1, <3>2 DEF FailInv, Sound, InFlush, Undisturbed
    <3>4. d.type # "ERROR" /\ Range(d.msgs) \subseteq Range(table) /\ IsTable(d.msgs)
      <4>1. 0 \in Nat
        OBVIOUS
      <4> HIDE DEF s
      <4> QED BY <1>t, <4>1, DumpShape, DumpTable, Zenon
    <3> HIDE DEF d
    <3>5. Range(queue') = {d} /\ Range(work') = {}
      BY <2>1, <2>2, <3>2 DEF Range
    <3>6. \A y \in Range(table) : Spared(y, table, <<>>, 0, promote)
      BY SparedShown
    <3>7. Backed(<<>>, <<>>, table, 0, promote) /\ Harmless(<<>>) /\ 0 \in 0 .. Len(<<>>)
      BY DEF Backed, Linked, Ordered, Harmless
    <3>8. Awaits(work', queue', table, <<>>, 0, promote)
      BY <3>4, <3>5, <3>6 DEF Awaits
    <3>9. Orderly(work', queue', <<>>, hist'.datagrams)
      BY <2>1, <2>2, <3>4, <3>5, <3>7 DEF Orderly, Earlier
    <3> QED BY <2>1, <2>2, <3>1, <3>3, <3>4, <3>5, <3>7, <3>8, <3>9 DEF Sound
  <2> QED BY <1>b, <2>1, <2>3 DEF InFlush
<1>2. ASSUME NEW ok \in BOOLEAN, Receive(ok) PROVE FailInv'
  <2>1. pc = "dump" /\ truth' = truth /\ InFlush
    BY <1>2 DEF Receive, InFlush
  <2>2. CASE pc' = "exited"
    <3>1. /\ hist'.asked = hist.asked /\ hist'.deleted = hist.deleted /\ hist'.added = hist.added
          /\ hist.lost => hist'.lost
      BY <1>t, <1>2, Zenon DEF Receive, HistType
    <3>2. ASSUME Undisturbed PROVE AskedTooLate
      <4>1. Sound
        BY <2>1, <3>2 DEF FailInv
      <4>2. queue # <<>> /\ Head(queue).type = "ERROR"
        <5>1. (recvmsg(ok) /\ Ends(Head(queue), "ERROR")) \/ overrun
          BY <1>2, <2>1, <2>2 DEF Receive, recvmsg_fails
        <5>2. ~overrun
          BY <4>1 DEF Sound
        <5> QED BY <5>1, <5>2 DEF Ends, recvmsg
      <4>3. Head(queue) \in Range(queue)
        BY <1>t, <4>2, TailSet
      <4> QED BY <4>1, <4>2, <4>3 DEF Sound
    <3>3. FlushFails'
      BY <1>a, <1>t, <3>1, <3>2 DEF FlushFails, Undisturbed, HistType
    <3> QED BY <1>c, <2>2, <3>3
  <2>3. CASE pc' # "exited"
    <3>1. status' = status /\ pc' \in {"dump", "update"}
      BY <1>2, <2>1, <2>3 DEF Receive, exits
    <3>2. ASSUME Undisturbed' PROVE Sound'
      <4>1. hist'.deleted = hist.deleted /\ hist'.added = hist.added /\ (hist.lost => hist'.lost)
        BY <1>t, <1>2, Zenon DEF Receive, HistType
      <4>2. Sound
        BY <2>1, <3>2, <4>1 DEF FailInv, Undisturbed
      <4> QED BY <1>2, <2>3, <3>2, <4>2, ReceiveSound
    <3> QED BY <1>b, <2>1, <3>1, <3>2 DEF InFlush
  <2> QED BY <2>2, <2>3
<1>3. ASSUME NEW ok \in BOOLEAN, FilterFull(ok) PROVE FailInv'
  <2>1. /\ pc = "dump" /\ InFlush /\ truth' = truth /\ work # <<>> /\ Len(flushb) = FlushSize
        /\ rtnl_send_check(flushb, ok) /\ promote' = promote
        /\ table' = Sent(flushb).table /\ overrun' = FALSE
        /\ queue' = IF ok THEN queue \o Sent(flushb).errors ELSE queue
    BY <1>3 DEF FilterFull, InFlush, rtnl_send_check
  <2>2. CASE SendFails(flushb, ok)
    <3>1. /\ pc' = "exited"
          /\ hist' = [hist EXCEPT !.early = TRUE, !.lost = @ \/ ~ok]
      BY <1>3, <2>2 DEF FilterFull, exits
    <3>2. hist'.asked = hist.asked /\ hist'.deleted = hist.deleted /\ hist'.added = hist.added
      BY <1>t, <3>1 DEF HistType
    <3>3. CASE ~ok
      <4>1. hist'.lost = TRUE
        BY <1>t, <3>1, <3>3, Zenon DEF HistType
      <4> QED BY <1>c, <3>1, <4>1 DEF FlushFails
    <3>4. CASE ok
      <4>1. hist'.lost = hist.lost
        BY <1>t, <3>1, <3>4 DEF HistType
      <4>2. ASSUME Undisturbed PROVE AskedTooLate
        <5>1. Sound
          BY <2>1, <4>2 DEF FailInv
        <5> QED BY <2>2, <3>4, <5>1, SendFailsSound, Zenon
      <4>3. FlushFails'
        BY <1>a, <1>t, <3>2, <4>1, <4>2 DEF FlushFails, Undisturbed
      <4> QED BY <1>c, <3>1, <4>3
    <3> QED BY <3>3, <3>4
  <2>3. CASE ~SendFails(flushb, ok)
    <3>1. /\ Put(Head(work)) /\ pc' = pc /\ status' = status
          /\ hist' = [hist EXCEPT !.asked = Append(@, [entry |-> Head(work), from |-> hist.datagrams]),
                                  !.early = TRUE]
      BY <1>3, <2>3 DEF FilterFull
    <3>2. /\ hist'.asked = Recorded(Head(work)) /\ hist'.datagrams = hist.datagrams /\ hist'.lost = hist.lost
          /\ hist'.deleted = hist.deleted /\ hist'.added = hist.added
      BY <1>t, <3>1 DEF HistType, Recorded
    <3>3. ASSUME Undisturbed' PROVE Sound'
      <4>1. Sound
        BY <2>1, <3>2, <3>3, Zenon DEF FailInv, Undisturbed
      <4> DEFINE a == hist.asked
                 n == Len(a)
                 c == Sent(flushb).errors
                 e == Head(work)
      <4>2. /\ \A d \in Range(queue \o c) : d.type = "ERROR" => AskedTooLate
            /\ Awaits(work, queue, table', a, n, promote)
        BY <2>1, <4>1, SendSound
      <4>3. Orderly(work, queue, a, hist.datagrams) /\ Ordered(a)
        BY <2>1, <4>1, Zenon DEF Sound, Backed
      <4>4. n \in 0 .. Len(a) /\ Backed(<<>>, a, table', n, promote)
        BY <1>t, <4>3 DEF Backed, Linked
      <4>5. c \in Seq(DatagramType) /\ \A i \in DOMAIN c : c[i].type = "ERROR"
        BY <1>t, <2>1, SendSock DEF FlushTypeOK
      <4>6. \A d \in Range(c) : d.msgs = <<>>
        BY <4>5 DEF Range, DatagramType
      <4> HIDE DEF c
      <4>7. Range(queue \o c) = Range(queue) \cup Range(c)
        BY <1>t, <4>5, ConcatSet
      <4>8. queue' \in {queue, queue \o c}
        BY <2>1 DEF c
      <4>9. \A d \in Range(queue') : /\ d.type = "ERROR" => AskedTooLate
                                     /\ d \in Range(queue) \/ d.msgs = <<>>
        BY <4>2, <4>6, <4>7, <4>8, Zenon
      <4>10. Backed(IF Len(flushb) = FlushSize THEN <<>> ELSE flushb, a, table', n, promote)
        BY <2>1, <4>4
      <4>11. e = Head(work) /\ Put(e) /\ hist'.asked = Recorded(e) /\ hist'.datagrams = hist.datagrams /\ ~overrun'
        BY <2>1, <3>1, <3>2
      <4> HIDE DEF a, n, e
      <4>12. n \in 0 .. Len(hist.asked)
        BY <4>4 DEF a
      <4> QED BY <2>1, <4>2, <4>3, <4>9, <4>10, <4>11, <4>12, PutSound, Zenon DEF a
    <3> QED BY <1>b, <2>1, <3>1, <3>3
  <2> QED BY <2>2, <2>3
<1>4. ASSUME NEW ok \in BOOLEAN, Update(ok) PROVE FailInv'
  <2>1. /\ pc = "update" /\ InFlush /\ truth' = truth /\ hist' = [hist EXCEPT !.lost = @ \/ ~ok]
        /\ rtnl_send_check(flushb, ok)
        /\ flushb' = IF ~SendFails(flushb, ok) THEN <<>> ELSE flushb
    BY <1>4 DEF Update, InFlush
  <2>2. hist'.asked = hist.asked /\ hist'.deleted = hist.deleted /\ hist'.added = hist.added
    BY <1>t, <2>1 DEF HistType
  <2>3. CASE ~ok
    <3>1. hist'.lost = TRUE
      BY <1>t, <2>1, <2>3, Zenon DEF HistType
    <3>2. FlushFails' /\ ~Undisturbed'
      BY <3>1 DEF FlushFails, Undisturbed
    <3>3. CASE status' = status /\ pc' = "request"
      BY <1>b, <2>1, <3>2, <3>3
    <3>4. CASE pc' \in {"talk", "exited"}
      BY <1>c, <3>2, <3>4
    <3> QED BY <1>4, <3>3, <3>4
            DEF Update, ipaddr_flush, do_show_or_flush, iproute_list_flush_or_save, returns, exits, again
  <2>4. CASE ok
    <3>1. hist'.lost = hist.lost
      BY <1>t, <2>1, <2>4 DEF HistType
    <3>2. CASE SendFails(flushb, ok)
      <4>1. pc' \in {"talk", "exited"}
        BY <1>4, <3>2
            DEF Update, ipaddr_flush, do_show_or_flush, iproute_list_flush_or_save, returns, exits
      <4>2. ASSUME Undisturbed PROVE AskedTooLate
        <5>1. Sound
          BY <2>1, <4>2 DEF FailInv
        <5> QED BY <2>4, <3>2, <5>1, SendFailsSound, Zenon
      <4>3. FlushFails'
        BY <1>a, <1>t, <2>2, <3>1, <4>2 DEF FlushFails, Undisturbed
      <4> QED BY <1>c, <4>1, <4>3
    <3>3. CASE ~SendFails(flushb, ok)
      <4>1. \/ pc' \in {"talk", "exited"} /\ status' \in {"complete", "incomplete"}
            \/ pc' = "request" /\ status' = status
        BY <1>4, <3>3
            DEF Update, ipaddr_flush, do_show_or_flush, iproute_list_flush_or_save, returns, exits, again
      <4>2. CASE pc' \in {"talk", "exited"} /\ status' \in {"complete", "incomplete"}
        BY <1>c, <4>2 DEF FlushFails
      <4>3. CASE pc' = "request" /\ status' = status
        <5>1. ASSUME Undisturbed' PROVE Sound'
          <6>1. Sound
            BY <2>1, <2>2, <3>1, <5>1 DEF FailInv, Undisturbed
          <6>2. queue' = <<>> /\ flushb' = <<>>
            BY <4>3, AnswerNext, Zenon DEF AnswerInv
          <6>3. Range(queue') = {} /\ ~overrun'
            BY <2>1, <6>2 DEF Range, rtnl_send_check
          <6>4. Ordered(hist.asked)
            BY <6>1, Zenon DEF Sound, Backed
          <6>5. Len(hist.asked) \in 0 .. Len(hist.asked)
                /\ Backed(<<>>, hist.asked, table', Len(hist.asked), promote')
            BY <1>t, <6>4 DEF Backed, Linked
          <6> QED BY <2>2, <4>3, <6>2, <6>3, <6>5 DEF Sound
        <5> QED BY <1>b, <2>1, <4>3, <5>1
      <4> QED BY <4>1, <4>2, <4>3
    <3> QED BY <3>2, <3>3
  <2> QED BY <2>3, <2>4
<1>5. ASSUME FilterSkip PROVE FailInv'
  <2>1. /\ pc = "dump" /\ InFlush /\ work # <<>> /\ work' = Tail(work)
        /\ UNCHANGED <<sockVars, pc, flushb, status, truth, hist>>
    BY <1>5 DEF FilterSkip, InFlush
  <2>2. ASSUME Undisturbed' PROVE Sound'
    <3>1. Sound
      BY <2>1, <2>2 DEF FailInv, Undisturbed
    <3>2. Range(Tail(work)) \subseteq Range(work)
      BY <1>t, <2>1, TailSet
    <3>3. Orderly(work', queue, hist.asked, hist.datagrams)
      BY <1>t, <2>1, <3>1, OrderlyTail DEF Sound
    <3>4. \A n : Awaits(work, queue, table, hist.asked, n, promote)
                   => Awaits(work', queue, table, hist.asked, n, promote)
      BY <2>1, <3>2 DEF Awaits
    <3>5. AskedTooLate' <=> AskedTooLate
      BY <1>a, <2>1
    <3> QED BY <2>1, <3>1, <3>3, <3>4, <3>5 DEF Sound, sockVars
  <2> QED BY <1>b, <2>1, <2>2
<1>6. ASSUME FilterStore PROVE FailInv'
  <2>1. /\ pc = "dump" /\ InFlush /\ work # <<>> /\ Put(Head(work)) /\ Len(flushb) # FlushSize
        /\ hist' = [hist EXCEPT !.asked = Append(@, [entry |-> Head(work), from |-> hist.datagrams])]
        /\ UNCHANGED <<table, promote, queue, overrun, pc, status, truth>>
    BY <1>6, <1>t, FlushAssumption DEF FilterStore, InFlush
  <2>2. /\ hist'.asked = Recorded(Head(work)) /\ hist'.datagrams = hist.datagrams /\ hist'.lost = hist.lost
        /\ hist'.deleted = hist.deleted /\ hist'.added = hist.added
    BY <1>t, <2>1 DEF HistType, Recorded
  <2>3. ASSUME Undisturbed' PROVE Sound'
    <3>1. Sound
      BY <2>1, <2>2, <2>3 DEF FailInv, Undisturbed
    <3> DEFINE a == hist.asked
               e == Head(work)
    <3>2. PICK n \in 0 .. Len(a) : Backed(flushb, a, table, n, promote) /\ Awaits(work, queue, table, a, n, promote)
      BY <2>1, <3>1 DEF Sound
    <3>3. /\ Backed(IF Len(flushb) = FlushSize THEN <<>> ELSE flushb, a, table', n, promote)
          /\ Awaits(work, queue, table', a, n, promote)
      BY <2>1, <3>2
    <3>4. Orderly(work, queue, a, hist.datagrams)
      BY <2>1, <3>1 DEF Sound
    <3>5. \A d \in Range(queue') : d.type = "ERROR" => AskedTooLate
      BY <2>1, <3>1 DEF Sound
    <3>6. \A d \in Range(queue') : d \in Range(queue) \/ d.msgs = <<>>
      BY <2>1
    <3>7. ~overrun' /\ promote' = promote
      BY <2>1, <3>1 DEF Sound
    <3>8. e = Head(work) /\ Put(e) /\ hist'.asked = Recorded(e) /\ hist'.datagrams = hist.datagrams
      BY <2>1, <2>2
    <3> HIDE DEF e
    <3> QED BY <2>1, <3>2, <3>3, <3>4, <3>5, <3>6, <3>7, <3>8, PutSound
  <2> QED BY <1>b, <2>1, <2>3
<1>7. CASE Complete
  BY <1>c, <1>7 DEF Complete, returns, FlushFails
<1>8. ASSUME NEW type \in {"ACK", "ERROR"}, NEW ok \in BOOLEAN, Talk(type, ok) PROVE FailInv'
  BY <1>8 DEF Talk, FailInv, FlushFails, InFlush
<1>9. CASE TalkReceive
  <2>1. truth' # "-" /\ pc' \in {"answer", "exited"}
    BY <1>9, Zenon DEF TalkReceive, exits, FailInv
  <2> QED BY <2>1 DEF FailInv, FlushFails, InFlush
<1>10. ASSUME NEW id \in Volatile, OtherAdds(id) PROVE FailInv'
  <2>1. InFlush /\ pc' = pc /\ status' = status /\ truth' = truth /\ hist' = [hist EXCEPT !.added = @ \cup {id}]
    BY <1>10 DEF OtherAdds, InFlush
  <2>2. ~Undisturbed'
    BY <1>t, <2>1 DEF Undisturbed, HistType
  <2> QED BY <1>b, <2>1, <2>2 DEF InFlush
<1>11. ASSUME NEW i \in DOMAIN table, OtherDeletes(i) PROVE FailInv'
  <2>1. /\ InFlush /\ pc' = pc /\ status' = status /\ truth' = truth
        /\ hist' = [hist EXCEPT !.deleted = @ + 1, !.shifted = @ \/ pc = "dump"]
    BY <1>11 DEF OtherDeletes, InFlush
  <2>2. ~Undisturbed'
    <3>1. hist'.deleted = hist.deleted + 1
      BY <1>t, <2>1 DEF HistType
    <3> QED BY <1>t, <3>1 DEF Undisturbed
  <2> QED BY <1>b, <2>1, <2>2 DEF InFlush
<1>12. CASE UNCHANGED <<sockVars, pc, work, flushb, status, truth, hist>>
  BY <1>12, Zenon DEF FailInv, FlushFails, AskedTooLate, InFlush, Undisturbed, Sound, sockVars
<1>13. CASE Tick
  BY <1>12, <1>13 DEF Tick
<1>14. CASE UNCHANGED flushVars
  BY <1>12, <1>14 DEF flushVars
<1> QED
  BY <1>1, <1>2, <1>3, <1>4, <1>5, <1>6, <1>7, <1>8, <1>9, <1>10, <1>11, <1>13, <1>14 DEF FlushNext,
     ClientStep

(***************************************************************************)
(* FlushFails, for every size of the buffer and of a datagram, and every   *)
(* table: rtnl_send_check and rtnl_dump_filter_l report a failure to the   *)
(* flush only if an answer was lost or a dump refused, another process     *)
(* interfered, or the flush asked for an entry in a later datagram of the  *)
(* dump than the one whose deletion had taken it away.                     *)
(***************************************************************************)
THEOREM Failures == FlushSpec => []FlushFails
<1> DEFINE Inv == FlushTypeOK /\ IsTable(table) /\ AnswerInv /\ FailInv
<1>0. FlushInit => IsTable(table)
  BY FlushAssumption DEF FlushInit, HistInit
<1>1. FlushInit => Inv
  BY <1>0, FlushTypeInit, AnswerInit, FailInit
<1>2. Inv /\ [FlushNext]_flushVars => Inv'
  BY FlushTypeNext, AnswerNext, TableNext, FailNext
<1>3. Inv => FlushFails
  BY DEF FailInv
<1> QED BY <1>1, <1>2, <1>3, PTL DEF FlushSpec
=============================================================================
