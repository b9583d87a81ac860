------------------------ MODULE PfabInterface_proofs ------------------------
(***************************************************************************)
(* Proofs about what the pFabric module and its users share: the           *)
(* statistics that the /proc files report, the life cycle of these files,  *)
(* and the options that tc sends.                                          *)
(***************************************************************************)
EXTENDS PfabReport, PfabProc, TcPfabric, Totals_proofs

\* A leaf is tried with SMT, then with Zenon, then with SMT and more time.
USE SMT, Zenon, SMTT(30)

USE ReportAssumption

(***************************************************************************)
(* What pfab_enqueue may still have to do.  Once the band's counter is     *)
(* incremented the totals remain.                                          *)
(***************************************************************************)
AfterBand == {<<"packets">>, <<"packets", "drops">>, <<"drops">>}

Increments == UNION {pfab_enqueue(b) : b \in Bands}

ReportTypeOK ==
  /\ pfab_stats \in [Counters -> Nat]
  /\ pc \in [Qdiscs -> {<<>>} \cup AfterBand \cup Increments]
  /\ reg \in [Qdiscs -> Nat \cup {None}]
  /\ \A q \in Qdiscs : reg[q] # None => pc[q] # <<>>
  /\ wiping \in [Qdiscs -> SUBSET Counters]
  /\ todo \in SUBSET Counters
  /\ report \in [Counters -> Nat]
  /\ counted \in [Counters -> Nat]
  /\ raced \in [Counters -> Nat]
  /\ spoilt \in BOOLEAN
  /\ cleared \in BOOLEAN

(***************************************************************************)
(* A clearing that meets no enqueue: nothing is counted meanwhile, and a   *)
(* counter that is not zero yet is still to be zeroed.                     *)
(***************************************************************************)
QuietClearing ==
  Wiping # {} /\ ~ spoilt =>
    /\ Enqueuing = {}
    /\ counted = Zero /\ raced = Zero
    /\ \A c \in Counters : pfab_stats[c] = 0 \/ \E q \in Qdiscs : c \in wiping[q]

(***************************************************************************)
(* Between the number of increments and the number of those that met no    *)
(* rival.                                                                  *)
(***************************************************************************)
Within(v, c) == counted[c] - raced[c] <= v /\ v <= counted[c]

\* A value that was loaded is as good as the counter.
LoadedBounded ==
  Wiping = {} /\ ~ spoilt =>
    \A q \in Qdiscs : (reg[q] # None /\ counted[Head(pc[q])] < U32) => Within(reg[q], Head(pc[q]))

(***************************************************************************)
(* The qdiscs that have counted their frame in its band and have still to  *)
(* count it in c.                                                          *)
(***************************************************************************)
Owes(c) ==
  IF c = "packets" THEN {<<"packets">>, <<"packets", "drops">>}
  ELSE {<<"packets", "drops">>, <<"drops">>}

Owing(c) == {q \in Qdiscs : pc[q] \in Owes(c)}

(***************************************************************************)
(* The order of the increments in pfab_enqueue, as a relation between      *)
(* them: what is owed to a total has been counted in a band already.       *)
(***************************************************************************)
BandsLead ==
  ~ spoilt => \A c \in Header : counted[c] + Cardinality(Owing(c)) <= Total(counted, Bands)

(***************************************************************************)
(* What the report allows for if it were completed now: the arrivals of a  *)
(* band that is not printed yet; else what was printed, and the increments *)
(* that may have been lost.                                                *)
(***************************************************************************)
Completed == [b \in Bands |-> IF b \in todo THEN counted[b] ELSE report[b] + raced[b]]

NoWrap == \A c \in Counters : counted[c] < U32

ReportLead ==
  /\ Bands \subseteq todo \/ todo \cap Header = {}
  /\ ~ cleared => Wiping = {}
  /\ ~ spoilt /\ ~ cleared /\ NoWrap =>
       \A c \in Header \ todo : report[c] <= Total(Completed, Bands)

ReportInv ==
  /\ ReportTypeOK
  /\ QuietClearing
  /\ CountersBounded
  /\ LoadedBounded
  /\ BandsLead
  /\ ReportLead

-----------------------------------------------------------------------------
(***************************************************************************)
(* The increments in the order of pfab_enqueue: the first one, those after *)
(* it, and the totals to which they are owed.                              *)
(***************************************************************************)
LEMMA IncrementShape ==
  ASSUME NEW s \in AfterBand \cup Increments
  PROVE  /\ s # <<>> /\ Head(s) \in Counters /\ Tail(s) \in {<<>>} \cup AfterBand
         /\ s \in AfterBand =>
              /\ Head(s) \in Header /\ s \in Owes(Head(s)) /\ Tail(s) \notin Owes(Head(s))
              /\ \A c \in Header \ {Head(s)} : s \in Owes(c) <=> Tail(s) \in Owes(c)
         /\ s \in Increments => Head(s) \in Bands /\ \A c : s \notin Owes(c)
<1>1. CASE s \in AfterBand
  <2>1. s = <<"packets">> \/ s = <<"packets", "drops">> \/ s = <<"drops">>
    BY <1>1 DEF AfterBand
  <2>2. ASSUME s \in Increments PROVE FALSE
    <3>1. PICK b \in Bands : s = <<b>> \/ s = <<b, "packets">> \/ s = <<b, "packets", "drops">>
      BY <2>2 DEF Increments, pfab_enqueue
    <3>2. b # "packets" /\ b # "drops"
      BY DEF Header
    <3>3. s[1] = b /\ (s[1] = "packets" \/ s[1] = "drops")
      BY <2>1, <3>1
    <3> QED BY <3>2, <3>3
  <2>3. \/ s = <<"packets">> /\ Head(s) = "packets" /\ Tail(s) = <<>>
        \/ s = <<"packets", "drops">> /\ Head(s) = "packets" /\ Tail(s) = <<"drops">>
        \/ s = <<"drops">> /\ Head(s) = "drops" /\ Tail(s) = <<>>
    <3>1. /\ Head(<<"packets">>) = "packets" /\ Tail(<<"packets">>) = <<>>
          /\ Head(<<"packets", "drops">>) = "packets" /\ Tail(<<"packets", "drops">>) = <<"drops">>
          /\ Head(<<"drops">>) = "drops" /\ Tail(<<"drops">>) = <<>>
      OBVIOUS
    <3> QED BY <2>1, <3>1, Zenon
  <2>4. /\ s # <<>> /\ Head(s) \in Header /\ Tail(s) \in {<<>>} \cup AfterBand
        /\ s \in Owes(Head(s)) /\ Tail(s) \notin Owes(Head(s))
        /\ \A c \in Header \ {Head(s)} : s \in Owes(c) <=> Tail(s) \in Owes(c)
    BY <2>3 DEF Header, Owes, AfterBand
  <2> QED BY <2>2, <2>4 DEF Counters
<1>2. CASE s \in Increments
  <2>1. PICK b \in Bands : s = <<b>> \/ s = <<b, "packets">> \/ s = <<b, "packets", "drops">>
    BY <1>2 DEF Increments, pfab_enqueue
  <2>2. b # "packets" /\ b # "drops"
    BY DEF Header
  <2>3. s # <<>> /\ Head(s) = b /\ s[1] = b
    BY <2>1
  <2>4. Tail(s) = <<>> \/ Tail(s) = <<"packets">> \/ Tail(s) = <<"packets", "drops">>
    <3>1. /\ Tail(<<b>>) = <<>> /\ Tail(<<b, "packets">>) = <<"packets">>
          /\ Tail(<<b, "packets", "drops">>) = <<"packets", "drops">>
      OBVIOUS
    <3> QED BY <2>1, <3>1, Zenon
  <2>5. \A c : \A t \in Owes(c) : t[1] = "packets" \/ t[1] = "drops"
    BY DEF Owes
  <2>6. \A t \in AfterBand : t[1] = "packets" \/ t[1] = "drops"
    BY DEF AfterBand
  <2> QED BY <2>2, <2>3, <2>4, <2>5, <2>6 DEF Counters, AfterBand
<1> QED BY <1>1, <1>2

(***************************************************************************)
(* Nothing is counted, owed or printed at the beginning.                   *)
(***************************************************************************)
LEMMA ReportInitInv == ReportInit => ReportInv
<1> SUFFICES ASSUME ReportInit PROVE ReportInv
  OBVIOUS
<1>1. Zero \in [Counters -> Nat] /\ \A c \in Counters : Zero[c] = 0
  BY DEF Zero
<1>2. ReportTypeOK
  BY <1>1, Zenon DEF ReportInit, ReportTypeOK
<1>3. Wiping = {} /\ Enqueuing = {}
  BY DEF ReportInit, Wiping, Enqueuing
<1>4. QuietClearing
  BY <1>3 DEF QuietClearing
<1>5. CountersBounded
  <2>1. \A c \in Counters : counted[c] = 0 /\ raced[c] = 0 /\ pfab_stats[c] = 0
    BY <1>1 DEF ReportInit
  <2> QED BY <2>1 DEF CountersBounded
<1>6. LoadedBounded
  <2>1. \A q \in Qdiscs : reg[q] = None
    BY DEF ReportInit
  <2> QED BY <2>1 DEF LoadedBounded
<1>7. BandsLead
  <2>1. Total(counted, Bands) = 0
    BY <1>1, TotalZero DEF ReportInit, Counters
  <2>2. \A c \in Header : Owing(c) = {}
    BY Zenon DEF ReportInit, Owing, Owes
  <2>3. \A c \in Header : counted[c] = 0
    BY <1>1 DEF ReportInit, Counters
  <2>4. \A c \in Header : Cardinality(Owing(c)) = 0
    BY <2>2, FS_EmptySet
  <2> QED BY <2>1, <2>3, <2>4 DEF ReportInit, BandsLead
<1>8. ReportLead
  BY <1>3 DEF ReportInit, ReportLead, Counters
<1> QED BY <1>2, <1>4, <1>5, <1>6, <1>7, <1>8 DEF ReportInv

\* A number below the modulus is its own remainder.
LEMMA ModSmall ==
  ASSUME NEW n \in Nat
  PROVE  n % U32 \in Nat /\ (n < U32 => n % U32 = n)
<1>1. ASSUME NEW m \in Nat \ {0} PROVE n % m \in Nat /\ (n < m => n % m = n)
  OBVIOUS
<1> QED BY <1>1

(***************************************************************************)
(* An increment: its counter, what it stores, and what history records.    *)
(***************************************************************************)
LEMMA StoreEffect ==
  ASSUME ReportTypeOK, NEW q \in Qdiscs, Store(q)
  PROVE  /\ pc[q] \in AfterBand \cup Increments /\ Head(pc[q]) \in Counters /\ reg[q] \in Nat
         /\ \A c \in Counters : counted[c] \in Nat /\ raced[c] \in Nat
         /\ \A c \in Counters \ {Head(pc[q])} :
              pfab_stats'[c] = pfab_stats[c] /\ counted'[c] = counted[c] /\ raced'[c] = raced[c]
         /\ pfab_stats'[Head(pc[q])] = (reg[q] + 1) % U32
         /\ counted'[Head(pc[q])] = counted[Head(pc[q])] + 1
         /\ raced'[Head(pc[q])] = IF Contended(q, Head(pc[q])) THEN raced[Head(pc[q])] + 1
                                  ELSE raced[Head(pc[q])]
         /\ \A p \in Qdiscs : /\ pc'[p] = IF p = q THEN Tail(pc[q]) ELSE pc[p]
                              /\ reg'[p] = IF p = q THEN None ELSE reg[p]
         /\ UNCHANGED <<wiping, frames, spoilt, todo, report, cleared>>
<1>1. pc[q] \in AfterBand \cup Increments /\ reg[q] \in Nat
  BY DEF Store, ReportTypeOK
<1>2. Head(pc[q]) \in Counters
  BY <1>1, IncrementShape
<1>3. /\ \A c \in Counters : counted[c] \in Nat /\ raced[c] \in Nat
      /\ \A c \in Counters : counted'[c] = IF c = Head(pc[q]) THEN counted[c] + 1 ELSE counted[c]
      /\ \A c \in Counters : pfab_stats'[c] = IF c = Head(pc[q]) THEN (reg[q] + 1) % U32 ELSE pfab_stats[c]
  BY <1>2 DEF Store, ReportTypeOK
<1>4. \A c \in Counters : raced'[c] = IF c = Head(pc[q]) /\ Contended(q, Head(pc[q]))
                                      THEN raced[c] + 1 ELSE raced[c]
  BY <1>2 DEF Store, ReportTypeOK
<1>5. \A p \in Qdiscs : /\ pc'[p] = IF p = q THEN Tail(pc[q]) ELSE pc[p]
                        /\ reg'[p] = IF p = q THEN None ELSE reg[p]
  BY DEF Store, ReportTypeOK
<1>6. UNCHANGED <<wiping, frames, spoilt, todo, report, cleared>>
  BY DEF Store, reader
<1> QED BY <1>1, <1>2, <1>3, <1>4, <1>5, <1>6

(***************************************************************************)
(* The types, for every step.                                              *)
(***************************************************************************)
LEMMA ReportTypeNext == ReportTypeOK /\ [ReportNext]_reportVars => ReportTypeOK'
<1> SUFFICES ASSUME ReportTypeOK, [ReportNext]_reportVars PROVE ReportTypeOK'
  OBVIOUS
<1> USE DEF ReportTypeOK
<1>1. ASSUME NEW q \in Qdiscs, Arrive(q) PROVE ReportTypeOK'
  <2>1. PICK b \in Bands : \E s \in pfab_enqueue(b) : pc' = [pc EXCEPT ![q] = s]
    BY <1>1, Zenon DEF Arrive
  <2>2. PICK s \in pfab_enqueue(b) : pc' = [pc EXCEPT ![q] = s]
    BY <2>1, Zenon
  <2>3. s \in Increments
    BY DEF Increments
  <2>4. s # <<>>
    BY <2>3, IncrementShape
  <2>5. spoilt' \in BOOLEAN
    BY <1>1 DEF Arrive
  <2> QED BY <1>1, <2>2, <2>3, <2>4, <2>5 DEF Arrive, reader
<1>2. ASSUME NEW q \in Qdiscs, Load(q) PROVE ReportTypeOK'
  <2>1. Head(pc[q]) \in Counters
    BY <1>2, IncrementShape DEF Load
  <2> QED BY <1>2, <2>1 DEF Load, reader
<1>3. ASSUME NEW q \in Qdiscs, Store(q) PROVE ReportTypeOK'
  <2>1. pc[q] \in AfterBand \cup Increments /\ Head(pc[q]) \in Counters /\ reg[q] \in Nat
    BY <1>3, StoreEffect
  <2>2. Tail(pc[q]) \in {<<>>} \cup AfterBand
    BY <2>1, IncrementShape
  <2>3. (reg[q] + 1) % U32 \in Nat
    BY <2>1, ModSmall
  <2>4. /\ pfab_stats' \in [Counters -> Nat] /\ counted' \in [Counters -> Nat]
        /\ raced' \in [Counters -> Nat]
    BY <1>3, <2>1, <2>3 DEF Store
  <2> QED BY <1>3, <2>2, <2>4 DEF Store, reader
<1>4. ASSUME NEW q \in Qdiscs, Clear(q) PROVE ReportTypeOK'
  <2>1. spoilt' \in BOOLEAN /\ wiping' \in [Qdiscs -> SUBSET Counters]
    BY <1>4 DEF Clear
  <2> QED BY <1>4, <2>1, Zenon DEF Clear, Zero
<1>5. ASSUME NEW q \in Qdiscs, Wipe(q) PROVE ReportTypeOK'
  BY <1>5 DEF Wipe, reader
<1>6. ASSUME PrintCounter PROVE ReportTypeOK'
  <2>1. pfab_stats_proc_seq_show \subseteq Counters
    BY DEF pfab_stats_proc_seq_show
  <2> QED BY <1>6, <2>1 DEF PrintCounter, stats
<1>7. ASSUME pfab_stats_proc_seq_start PROVE ReportTypeOK'
  <2>1. cleared' \in BOOLEAN
    BY <1>7 DEF pfab_stats_proc_seq_start
  <2> QED BY <1>7, <2>1, Zenon DEF pfab_stats_proc_seq_start, stats, Zero
<1>8. ASSUME UNCHANGED reportVars PROVE ReportTypeOK'
  BY <1>8 DEF reportVars, stats, reader
<1> QED BY <1>1, <1>2, <1>3, <1>4, <1>5, <1>6, <1>7, <1>8 DEF ReportNext

(***************************************************************************)
(* While a clearing meets no enqueue nothing is counted.                   *)
(***************************************************************************)
LEMMA QuietNext ==
  ASSUME ReportTypeOK, QuietClearing, [ReportNext]_reportVars
  PROVE  QuietClearing'
<1>1. CASE UNCHANGED <<pfab_stats, pc, wiping, counted, raced, spoilt>>
  BY <1>1 DEF QuietClearing, Wiping, Enqueuing
<1>2. ASSUME NEW q \in Qdiscs, Arrive(q) PROVE QuietClearing'
  <2>1. spoilt' \/ Wiping' = {}
    BY <1>2 DEF Arrive, Wiping
  <2> QED BY <2>1 DEF QuietClearing
<1>3. ASSUME NEW q \in Qdiscs, Store(q) PROVE QuietClearing'
  <2>1. Enqueuing # {}
    BY <1>3 DEF Store, Enqueuing, ReportTypeOK
  <2>2. Wiping' = Wiping /\ spoilt' = spoilt
    BY <1>3, StoreEffect DEF Wiping
  <2> QED BY <2>1, <2>2 DEF QuietClearing
<1>4. ASSUME NEW q \in Qdiscs, Clear(q) PROVE QuietClearing'
  <2>1. Enqueuing' = Enqueuing /\ spoilt' = (Enqueuing # {}) /\ counted' = Zero /\ raced' = Zero
    BY <1>4 DEF Clear, Enqueuing
  <2>2. wiping'[q] = Counters
    BY <1>4 DEF Clear, ReportTypeOK
  <2> QED BY <2>1, <2>2 DEF QuietClearing, Zero
<1>5. ASSUME NEW q \in Qdiscs, Wipe(q) PROVE QuietClearing'
  <2>1. PICK d \in wiping[q] : /\ pfab_stats' = [pfab_stats EXCEPT ![d] = 0]
                               /\ wiping' = [wiping EXCEPT ![q] = @ \ {d}]
    BY <1>5, Zenon DEF Wipe
  <2>2. Wiping # {} /\ Enqueuing' = Enqueuing /\ UNCHANGED <<counted, raced, spoilt>>
    BY <1>5 DEF Wipe, Wiping, Enqueuing
  <2>3. ASSUME NEW c \in Counters, pfab_stats[c] = 0 \/ \E p \in Qdiscs : c \in wiping[p]
        PROVE  pfab_stats'[c] = 0 \/ \E p \in Qdiscs : c \in wiping'[p]
    BY <2>1, <2>3 DEF ReportTypeOK
  <2> QED BY <2>2, <2>3 DEF QuietClearing, Zero
<1> QED BY <1>1, <1>2, <1>3, <1>4, <1>5
        DEF ReportNext, Load, PrintCounter, pfab_stats_proc_seq_start, reportVars, stats

(***************************************************************************)
(* A counter stays within its bounds, and so does a value that was loaded  *)
(* of it: an increment by another qdisc before it is stored again is one   *)
(* that may be lost.                                                       *)
(***************************************************************************)
LEMMA BoundedNext ==
  ASSUME ReportTypeOK, QuietClearing, CountersBounded, LoadedBounded, [ReportNext]_reportVars
  PROVE  CountersBounded' /\ LoadedBounded'
<1>1. CASE UNCHANGED <<pfab_stats, pc, reg, wiping, counted, raced, spoilt>>
  BY <1>1 DEF CountersBounded, LoadedBounded, Wiping, Within
<1>2. ASSUME NEW q \in Qdiscs, Arrive(q) PROVE CountersBounded' /\ LoadedBounded'
  <2>1. UNCHANGED <<pfab_stats, reg, wiping, counted, raced>> /\ Wiping' = Wiping /\ (~ spoilt' => ~ spoilt)
    BY <1>2 DEF Arrive, Wiping, ReportTypeOK
  <2>2. \A p \in Qdiscs : reg[p] # None => pc'[p] = pc[p]
    BY <1>2 DEF Arrive, Enqueuing, ReportTypeOK
  <2> QED BY <2>1, <2>2 DEF CountersBounded, LoadedBounded, Within
<1>3. ASSUME NEW q \in Qdiscs, Load(q) PROVE CountersBounded' /\ LoadedBounded'
  <2>1. UNCHANGED <<pfab_stats, pc, wiping, counted, raced, spoilt>> /\ Wiping' = Wiping
    BY <1>3 DEF Load, Wiping
  <2>2. Head(pc[q]) \in Counters
    BY <1>3, IncrementShape DEF Load, ReportTypeOK
  <2>3. \A p \in Qdiscs : reg'[p] = IF p = q THEN pfab_stats[Head(pc[q])] ELSE reg[p]
    BY <1>3 DEF Load, ReportTypeOK
  <2>4. CountersBounded'
    BY <2>1 DEF CountersBounded
  <2>5. LoadedBounded'
    <3> SUFFICES ASSUME Wiping = {}, ~ spoilt, NEW p \in Qdiscs, reg'[p] # None, counted[Head(pc[p])] < U32
                 PROVE  Within(reg'[p], Head(pc[p]))
      BY <2>1 DEF LoadedBounded, Within
    <3>1. CASE p = q
      BY <2>2, <2>3, <3>1 DEF CountersBounded, Within
    <3>2. CASE p # q
      BY <2>3, <3>2 DEF LoadedBounded
    <3> QED BY <3>1, <3>2
  <2> QED BY <2>4, <2>5
<1>4. ASSUME NEW q \in Qdiscs, Store(q) PROVE CountersBounded' /\ LoadedBounded'
  <2> DEFINE i == Head(pc[q])
  <2>1. /\ i \in Counters /\ reg[q] \in Nat
        /\ \A c \in Counters : counted[c] \in Nat /\ raced[c] \in Nat
        /\ \A c \in Counters \ {i} :
             pfab_stats'[c] = pfab_stats[c] /\ counted'[c] = counted[c] /\ raced'[c] = raced[c]
        /\ pfab_stats'[i] = (reg[q] + 1) % U32
        /\ counted'[i] = counted[i] + 1
        /\ raced'[i] = IF Contended(q, i) THEN raced[i] + 1 ELSE raced[i]
    BY <1>4, StoreEffect
  <2>2. \A p \in Qdiscs : /\ pc'[p] = IF p = q THEN Tail(pc[q]) ELSE pc[p]
                          /\ reg'[p] = IF p = q THEN None ELSE reg[p]
    BY <1>4, StoreEffect
  <2>3. Wiping' = Wiping /\ spoilt' = spoilt
    BY <1>4, StoreEffect DEF Wiping
  <2>4. reg[q] # None
    BY <1>4 DEF Store
  <2>5. ASSUME Wiping = {}, ~ spoilt, counted'[i] < U32
        PROVE  counted'[i] - raced'[i] <= pfab_stats'[i] /\ pfab_stats'[i] <= counted'[i]
    <3>1. counted[i] < U32
      BY <2>1, <2>5
    <3>2. Within(reg[q], i)
      BY <2>4, <2>5, <3>1 DEF LoadedBounded
    <3>3. reg[q] <= counted[i] /\ counted[i] - raced[i] <= reg[q]
      BY <3>2 DEF Within
    <3> HIDE DEF i
    <3>4. reg[q] + 1 \in Nat /\ reg[q] + 1 < U32
      BY <2>1, <2>5, <3>3
    <3>5. pfab_stats'[i] = reg[q] + 1
      BY <2>1, <3>4, ModSmall
    <3>6. counted[i] \in Nat /\ raced[i] \in Nat /\ raced'[i] \in {raced[i], raced[i] + 1}
      BY <2>1
    <3> QED BY <2>1, <3>3, <3>5, <3>6
  <2>6. CountersBounded'
    BY <2>1, <2>3, <2>5 DEF CountersBounded
  <2>7. LoadedBounded'
    <3> SUFFICES ASSUME Wiping = {}, ~ spoilt, NEW p \in Qdiscs, reg'[p] # None, counted'[Head(pc'[p])] < U32
                 PROVE  /\ counted'[Head(pc'[p])] - raced'[Head(pc'[p])] <= reg'[p]
                        /\ reg'[p] <= counted'[Head(pc'[p])]
      BY <2>3 DEF LoadedBounded, Within
    <3> DEFINE j == Head(pc[p])
    <3>1. p # q /\ pc'[p] = pc[p] /\ reg'[p] = reg[p] /\ reg[p] \in Nat /\ Head(pc'[p]) = j
      BY <2>2 DEF ReportTypeOK
    <3>2. j \in Counters
      BY <3>1, IncrementShape DEF ReportTypeOK
    <3>3. j = i => Contended(q, i)
      BY <3>1 DEF Contended
    <3>4. counted[j] < U32 => counted[j] - raced[j] <= reg[p] /\ reg[p] <= counted[j]
      BY <3>1 DEF LoadedBounded, Within
    <3> HIDE DEF i, j
    <3>5. counted'[j] < U32
      BY <3>1
    <3>6. counted[j] - raced[j] <= reg[p] /\ reg[p] <= counted[j]
      BY <2>1, <3>2, <3>4, <3>5
    <3>7. counted'[j] - raced'[j] <= reg[p] /\ reg[p] <= counted'[j]
      <4>1. CASE j = i
        BY <2>1, <3>1, <3>3, <3>6, <4>1
      <4>2. CASE j # i
        BY <2>1, <3>2, <3>6, <4>2
      <4> QED BY <4>1, <4>2
    <3> QED BY <3>1, <3>7
  <2> QED BY <2>6, <2>7
<1>5. ASSUME NEW q \in Qdiscs, Clear(q) PROVE CountersBounded' /\ LoadedBounded'
  <2>1. Wiping' # {}
    <3>1. wiping'[q] = Counters /\ "packets" \in Counters
      BY <1>5 DEF Clear, ReportTypeOK, Counters, Header
    <3> QED BY <3>1 DEF Wiping
  <2> QED BY <2>1 DEF CountersBounded, LoadedBounded
<1>6. ASSUME NEW q \in Qdiscs, Wipe(q) PROVE CountersBounded' /\ LoadedBounded'
  <2> SUFFICES ASSUME Wiping' = {}, ~ spoilt' PROVE CountersBounded' /\ LoadedBounded'
    BY DEF CountersBounded, LoadedBounded
  <2>1. PICK d \in wiping[q] : /\ pfab_stats' = [pfab_stats EXCEPT ![d] = 0]
                               /\ wiping' = [wiping EXCEPT ![q] = @ \ {d}]
    BY <1>6, Zenon DEF Wipe
  <2>2. Wiping # {} /\ UNCHANGED <<pc, reg, counted, raced, spoilt>>
    BY <1>6 DEF Wipe, Wiping
  <2>3. /\ Enqueuing = {} /\ counted = Zero /\ raced = Zero
        /\ \A c \in Counters : pfab_stats[c] = 0 \/ \E p \in Qdiscs : c \in wiping[p]
    BY <2>2 DEF QuietClearing
  <2>4. \A p \in Qdiscs : wiping'[p] = {}
    BY DEF Wiping
  <2>5. \A c \in Counters : pfab_stats'[c] = 0
    <3> SUFFICES ASSUME NEW c \in Counters PROVE pfab_stats'[c] = 0
      OBVIOUS
    <3>1. CASE c = d
      BY <2>1, <3>1 DEF ReportTypeOK
    <3>2. CASE c # d
      <4>1. \A p \in Qdiscs : c \notin wiping[p]
        BY <2>1, <2>4, <3>2 DEF ReportTypeOK
      <4> QED BY <2>1, <2>3, <3>2, <4>1 DEF ReportTypeOK
    <3> QED BY <3>1, <3>2
  <2>6. \A c \in Counters : counted'[c] = 0 /\ raced'[c] = 0
    BY <2>2, <2>3 DEF Zero
  <2>7. \A p \in Qdiscs : reg'[p] = None
    BY <2>2, <2>3 DEF Enqueuing, ReportTypeOK
  <2> QED BY <2>5, <2>6, <2>7 DEF CountersBounded, LoadedBounded
<1> QED BY <1>1, <1>2, <1>3, <1>4, <1>5, <1>6
        DEF ReportNext, PrintCounter, pfab_stats_proc_seq_start, reportVars, stats

(***************************************************************************)
(* The totals never lead the bands: an increment of a total pays off what  *)
(* was owed to it, and one of a band makes room for what is owed from then *)
(* on.                                                                     *)
(***************************************************************************)
LEMMA BandsLeadNext ==
  ASSUME ReportTypeOK, BandsLead, [ReportNext]_reportVars
  PROVE  BandsLead'
<1>0. \A c \in Header : IsFiniteSet(Owing(c)) /\ Cardinality(Owing(c)) \in Nat
  BY FS_Subset, FS_CardinalityType DEF Owing
<1>1. CASE UNCHANGED <<pc, counted, spoilt>>
  BY <1>1 DEF BandsLead, Owing
<1>2. ASSUME NEW q \in Qdiscs, Arrive(q) PROVE BandsLead'
  <2>1. PICK b \in Bands : \E s \in pfab_enqueue(b) : pc' = [pc EXCEPT ![q] = s]
    BY <1>2, Zenon DEF Arrive
  <2>2. PICK s \in pfab_enqueue(b) : pc' = [pc EXCEPT ![q] = s]
    BY <2>1, Zenon
  <2>3. s \in Increments
    BY DEF Increments
  <2>4. \A c \in Header : s \notin Owes(c) /\ pc[q] \notin Owes(c)
    <3>1. \A c : s \notin Owes(c)
      BY <2>3, IncrementShape
    <3>2. \A c : pc[q] \notin Owes(c)
      <4>1. pc[q] = <<>>
        BY <1>2 DEF Arrive, Enqueuing
      <4>2. \A c : <<>> \notin Owes(c)
        BY DEF Owes
      <4> QED BY <4>1, <4>2
    <3> QED BY <3>1, <3>2
  <2>5. \A c \in Header : Owing(c)' = Owing(c)
    BY <2>2, <2>4 DEF Owing, ReportTypeOK
  <2>6. counted' = counted /\ (~ spoilt' => ~ spoilt)
    BY <1>2 DEF Arrive, ReportTypeOK
  <2> QED BY <2>5, <2>6 DEF BandsLead
<1>3. ASSUME NEW q \in Qdiscs, Store(q) PROVE BandsLead'
  <2>0. UNCHANGED spoilt
    BY <1>3, StoreEffect
  <2> SUFFICES ASSUME ~ spoilt, NEW h \in Header
               PROVE  counted'[h] + Cardinality(Owing(h)') <= Total(counted', Bands)
    BY <2>0 DEF BandsLead
  <2> DEFINE c == Head(pc[q])
  <2>1. /\ pc[q] \in AfterBand \cup Increments /\ c \in Counters
        /\ \A d \in Counters : counted[d] \in Nat
        /\ \A d \in Counters \ {c} : counted'[d] = counted[d]
        /\ counted'[c] = counted[c] + 1
    BY <1>3, StoreEffect
  <2>2. /\ \A b \in Bands : b \in Counters /\ counted[b] \in Int /\ counted'[b] \in Int
        /\ h \in Counters /\ h \notin Bands /\ counted[h] \in Nat
    BY <2>1 DEF Counters
  <2>3. counted[h] + Cardinality(Owing(h)) <= Total(counted, Bands)
    BY <2>1 DEF BandsLead
  <2>4. \A p \in Qdiscs : pc'[p] = IF p = q THEN Tail(pc[q]) ELSE pc[p]
    BY <1>3, StoreEffect
  <2>5. Total(counted, Bands) \in Int /\ Cardinality(Owing(h)) \in Nat
    BY <1>0, <2>2, TotalAgree
  <2>6. CASE pc[q] \in AfterBand
    <3>1. /\ c \in Header /\ pc[q] \in Owes(c) /\ Tail(pc[q]) \notin Owes(c)
          /\ h # c => (pc[q] \in Owes(h) <=> Tail(pc[q]) \in Owes(h))
      BY <2>6, IncrementShape
    <3>2. Total(counted', Bands) = Total(counted, Bands)
      <4>1. \A b \in Bands : counted[b] = counted'[b]
        BY <2>1, <2>2, <3>1
      <4> HIDE DEF c
      <4> QED BY <2>2, <4>1, TotalAgree
    <3>3. CASE h = c
      <4>1. Owing(h)' = Owing(h) \ {q} /\ q \in Owing(h)
        BY <2>4, <3>1, <3>3 DEF Owing
      <4>2. Cardinality(Owing(h)') = Cardinality(Owing(h)) - 1
        BY <1>0, <4>1, FS_RemoveElement, Zenon
      <4> HIDE DEF c
      <4> QED BY <2>1, <2>2, <2>3, <2>5, <3>2, <3>3, <4>2
    <3>4. CASE h # c
      <4>1. Owing(h)' = Owing(h)
        BY <2>4, <3>1, <3>4 DEF Owing
      <4> QED BY <2>1, <2>2, <2>3, <3>2, <3>4, <4>1
    <3> QED BY <3>3, <3>4
  <2>7. CASE pc[q] \in Increments
    <3>1. c \in Bands /\ pc[q] \notin Owes(h)
      BY <2>7, IncrementShape
    <3>2. Total(counted', Bands) = Total(counted, Bands) + 1
      <4>1. c \in Bands /\ \A b \in Bands \ {c} : counted[b] = counted'[b]
        BY <2>1, <2>2, <3>1
      <4>2. counted[c] \in Nat
        BY <2>1
      <4> HIDE DEF c
      <4>3. Total(counted', Bands) = Total(counted, Bands) + (counted'[c] - counted[c])
        BY <2>2, <4>1, TotalUpdate
      <4> QED BY <2>1, <2>5, <4>2, <4>3
    <3>3. Owing(h)' \subseteq Owing(h) \cup {q} /\ q \notin Owing(h)
      BY <2>4, <3>1 DEF Owing
    <3>4. Cardinality(Owing(h)') <= Cardinality(Owing(h)) + 1 /\ Cardinality(Owing(h)') \in Nat
      <4>1. IsFiniteSet(Owing(h) \cup {q}) /\ Cardinality(Owing(h) \cup {q}) = Cardinality(Owing(h)) + 1
        BY <1>0, <3>3, FS_AddElement
      <4> QED BY <3>3, <4>1, FS_Subset, FS_CardinalityType
    <3>5. counted'[h] = counted[h]
      BY <2>1, <2>2, <3>1
    <3> HIDE DEF c
    <3> QED BY <2>2, <2>3, <2>5, <3>2, <3>4, <3>5
  <2> QED BY <2>1, <2>6, <2>7
<1>4. ASSUME NEW q \in Qdiscs, Clear(q) PROVE BandsLead'
  <2> SUFFICES ASSUME ~ spoilt' PROVE BandsLead'
    BY DEF BandsLead
  <2>1. \A c \in Counters : counted'[c] = 0
    BY <1>4 DEF Clear, Zero
  <2>2. Total(counted', Bands) = 0
    BY <2>1, TotalZero DEF Counters
  <2>3. \A c \in Header : Owing(c)' = {}
    <3>1. \A p \in Qdiscs : pc'[p] = <<>>
      BY <1>4 DEF Clear, Enqueuing
    <3>2. \A c : <<>> \notin Owes(c)
      BY DEF Owes
    <3> QED BY <3>1, <3>2 DEF Owing
  <2>4. \A c \in Header : counted'[c] = 0 /\ Cardinality(Owing(c)') = 0
    BY <2>1, <2>3, FS_EmptySet DEF Counters
  <2> QED BY <2>2, <2>4 DEF BandsLead
<1> QED BY <1>1, <1>2, <1>3, <1>4
        DEF ReportNext, Load, Wipe, PrintCounter, pfab_stats_proc_seq_start, reportVars, stats

(***************************************************************************)
(* A report in progress: the totals are printed while all bands are still  *)
(* to be printed, and a band that is printed shows all of its arrivals but *)
(* those that may have been lost.                                          *)
(***************************************************************************)
LEMMA ReportLeadNext ==
  ASSUME ReportTypeOK, CountersBounded, BandsLead, ReportLead, [ReportNext]_reportVars
  PROVE  ReportLead'
<1>0. /\ \A b \in Bands : b \in Counters /\ b \notin Header
      /\ \A b \in Bands : counted[b] \in Nat /\ raced[b] \in Nat /\ Completed[b] \in Nat
      /\ Total(counted, Bands) \in Int /\ Total(Completed, Bands) \in Int
  <2>1. \A b \in Bands : b \in Counters /\ b \notin Header
    BY DEF Counters
  <2>2. \A b \in Bands : counted[b] \in Nat /\ raced[b] \in Nat /\ Completed[b] \in Nat
    BY <2>1 DEF ReportTypeOK, Completed
  <2>3. Total(counted, Bands) \in Int
    BY <2>2, TotalAgree
  <2>4. Total(Completed, Bands) \in Int
    BY <2>2, TotalAgree
  <2> QED BY <2>1, <2>2, <2>3, <2>4
<1>1. ASSUME UNCHANGED <<counted, raced, wiping, reader>>, ~ spoilt' => ~ spoilt PROVE ReportLead'
  BY <1>1 DEF ReportLead, Completed, reader, Wiping, NoWrap
<1>2. ASSUME NEW q \in Qdiscs, Store(q) PROVE ReportLead'
  <2> DEFINE i == Head(pc[q])
  <2>1. /\ UNCHANGED <<todo, report, cleared, spoilt, wiping>> /\ i \in Counters
        /\ \A d \in Counters : counted[d] \in Nat /\ raced[d] \in Nat
        /\ \A d \in Counters \ {i} : counted'[d] = counted[d] /\ raced'[d] = raced[d]
        /\ counted'[i] = counted[i] + 1
        /\ raced'[i] \in {raced[i], raced[i] + 1}
    BY <1>2, StoreEffect
  <2>2. \A d \in Counters : /\ counted[d] \in Nat /\ counted'[d] \in Nat /\ counted[d] <= counted'[d]
                            /\ raced[d] \in Nat /\ raced'[d] \in Nat /\ raced[d] <= raced'[d]
    <3> HIDE DEF i
    <3> QED BY <2>1
  <2>3. Wiping' = Wiping /\ (NoWrap' => NoWrap)
    <3>1. Wiping' = Wiping
      BY <2>1 DEF Wiping
    <3>2. NoWrap' => NoWrap
      BY <2>2 DEF NoWrap
    <3> QED BY <3>1, <3>2
  <2> SUFFICES ASSUME ~ spoilt, ~ cleared, NoWrap', NEW c \in Header \ todo
               PROVE  report[c] <= Total(Completed', Bands)
    BY <2>1, <2>3 DEF ReportLead
  <2>4. report[c] <= Total(Completed, Bands)
    BY <2>3 DEF ReportLead
  <2>5. \A b \in Bands : Completed[b] \in Int /\ Completed'[b] \in Int /\ Completed[b] <= Completed'[b]
    <3>1. ASSUME NEW b \in Bands
          PROVE  Completed[b] \in Int /\ Completed'[b] \in Int /\ Completed[b] <= Completed'[b]
      <4>1. /\ Completed[b] = IF b \in todo THEN counted[b] ELSE report[b] + raced[b]
            /\ Completed'[b] = IF b \in todo THEN counted'[b] ELSE report[b] + raced'[b]
        BY <2>1 DEF Completed
      <4>2. b \in Counters /\ report[b] \in Nat
        BY <1>0 DEF ReportTypeOK
      <4> HIDE DEF i
      <4> QED BY <2>2, <4>1, <4>2
    <3> QED BY <3>1
  <2>6. Total(Completed, Bands) <= Total(Completed', Bands) /\ Total(Completed', Bands) \in Int
    BY <2>5, TotalMonotone, TotalAgree
  <2>7. report[c] \in Nat
    BY DEF ReportTypeOK, Counters
  <2> QED BY <1>0, <2>4, <2>6, <2>7
<1>3. ASSUME NEW q \in Qdiscs, Clear(q) PROVE ReportLead'
  BY <1>3 DEF Clear, ReportLead
<1>4. ASSUME NEW q \in Qdiscs, Wipe(q) PROVE ReportLead'
  <2>1. Wiping # {} /\ UNCHANGED <<todo, report, cleared>>
    BY <1>4 DEF Wipe, Wiping, reader
  <2>2. cleared'
    BY <2>1 DEF ReportLead, ReportTypeOK
  <2> QED BY <2>1, <2>2 DEF ReportLead
<1>5. ASSUME PrintCounter PROVE ReportLead'
  <2>1. PICK c \in pfab_stats_proc_seq_show :
             report' = [report EXCEPT ![c] = pfab_stats[c]] /\ todo' = todo \ {c}
    BY <1>5, Zenon DEF PrintCounter
  <2>2. UNCHANGED <<pfab_stats, counted, raced, wiping, spoilt, cleared>> /\ Wiping' = Wiping /\ NoWrap' = NoWrap
    BY <1>5 DEF PrintCounter, stats, Wiping, NoWrap
  <2>3. c \in todo /\ c \in Counters
    BY DEF pfab_stats_proc_seq_show, ReportTypeOK
  <2>4. ASSUME ~ spoilt, ~ cleared, NoWrap, NEW d \in Counters
        PROVE  /\ pfab_stats[d] \in Nat /\ counted[d] \in Nat /\ raced[d] \in Nat
               /\ counted[d] <= pfab_stats[d] + raced[d] /\ pfab_stats[d] <= counted[d]
    <3>1. pfab_stats[d] \in Nat /\ counted[d] \in Nat /\ raced[d] \in Nat
      BY DEF ReportTypeOK
    <3>2. Wiping = {} /\ counted[d] < U32
      BY <2>4 DEF ReportLead, NoWrap
    <3>3. counted[d] - raced[d] <= pfab_stats[d] /\ pfab_stats[d] <= counted[d]
      BY <2>4, <3>2 DEF CountersBounded
    <3> QED BY <3>1, <3>3
  <2>5. CASE c \in Header
    <3>1. Bands \subseteq todo /\ Bands \subseteq todo'
      BY <1>0, <2>1, <2>3, <2>5 DEF ReportLead
    <3>2. \A b \in Bands : Completed[b] = counted[b] /\ Completed'[b] = counted[b]
      BY <2>2, <3>1 DEF Completed
    <3>3. Total(Completed', Bands) = Total(counted, Bands) /\ Total(Completed, Bands) = Total(counted, Bands)
      BY <1>0, <3>2, TotalAgree
    <3> SUFFICES ASSUME ~ spoilt, ~ cleared, NoWrap, NEW h \in Header \ todo'
                 PROVE  report'[h] <= Total(counted, Bands)
      BY <2>2, <3>1, <3>3 DEF ReportLead
    <3>4. CASE h = c
      <4>1. report'[h] = pfab_stats[h] /\ pfab_stats[h] \in Nat /\ counted[h] \in Nat
        BY <2>1, <2>3, <3>4 DEF ReportTypeOK
      <4>2. counted[h] + Cardinality(Owing(h)) <= Total(counted, Bands)
        BY DEF BandsLead
      <4>3. Cardinality(Owing(h)) \in Nat
        BY FS_Subset, FS_CardinalityType DEF Owing
      <4>4. pfab_stats[h] <= counted[h]
        BY <2>3, <2>4, <3>4
      <4> QED BY <1>0, <4>1, <4>2, <4>3, <4>4
    <3>5. CASE h # c
      <4>1. h \in Header \ todo /\ report'[h] = report[h]
        BY <2>1, <3>5 DEF ReportTypeOK, Counters
      <4> QED BY <3>3, <4>1 DEF ReportLead
    <3> QED BY <3>4, <3>5
  <2>6. CASE c \notin Header
    <3>1. todo \cap Header = {} /\ todo' \cap Header = {}
      BY <2>1, <2>6 DEF pfab_stats_proc_seq_show
    <3>2. \A h \in Header : report'[h] = report[h] /\ (h \in todo' <=> h \in todo)
      BY <2>1, <2>6 DEF ReportTypeOK, Counters
    <3> SUFFICES ASSUME ~ spoilt, ~ cleared, NoWrap, NEW h \in Header \ todo
                 PROVE  report[h] <= Total(Completed', Bands)
      BY <2>2, <3>1, <3>2 DEF ReportLead
    <3>3. ASSUME NEW b \in Bands
          PROVE  Completed[b] \in Int /\ Completed'[b] \in Int /\ Completed[b] <= Completed'[b]
      <4>1. /\ Completed[b] = IF b \in todo THEN counted[b] ELSE report[b] + raced[b]
            /\ Completed'[b] = IF b \in todo' THEN counted[b] ELSE report'[b] + raced[b]
        BY <2>2 DEF Completed
      <4>2. b \in Counters /\ report[b] \in Nat /\ raced[b] \in Nat /\ counted[b] \in Nat
        BY <1>0 DEF ReportTypeOK
      <4>3. CASE b = c
        <5>1. report'[b] = pfab_stats[b] /\ b \notin todo' /\ b \in todo
          BY <2>1, <2>3, <4>3 DEF ReportTypeOK
        <5>2. pfab_stats[b] \in Nat /\ counted[b] <= pfab_stats[b] + raced[b]
          BY <2>4, <4>2
        <5> QED BY <4>1, <4>2, <5>1, <5>2
      <4>4. CASE b # c
        <5>1. report'[b] = report[b] /\ (b \in todo' <=> b \in todo)
          BY <1>0, <2>1, <4>4 DEF ReportTypeOK
        <5> QED BY <4>1, <4>2, <5>1
      <4> QED BY <4>3, <4>4
    <3>4. Total(Completed, Bands) <= Total(Completed', Bands) /\ Total(Completed', Bands) \in Int
      BY <3>3, TotalMonotone, TotalAgree
    <3>5. report[h] <= Total(Completed, Bands) /\ report[h] \in Nat
      BY DEF ReportLead, ReportTypeOK, Counters
    <3> QED BY <1>0, <3>4, <3>5
  <2> QED BY <2>5, <2>6
<1>6. ASSUME pfab_stats_proc_seq_start PROVE ReportLead'
  <2>1. todo' = Counters /\ Wiping' = Wiping /\ cleared' = (Wiping # {})
    BY <1>6 DEF pfab_stats_proc_seq_start, stats, Wiping
  <2> QED BY <2>1 DEF ReportLead, Counters
<1>7. ASSUME NEW q \in Qdiscs, Arrive(q) PROVE ReportLead'
  <2>1. UNCHANGED <<counted, raced, wiping, reader>> /\ (~ spoilt' => ~ spoilt)
    BY <1>7 DEF Arrive, ReportTypeOK
  <2> QED BY <1>1, <2>1
<1>8. ASSUME NEW q \in Qdiscs, Load(q) PROVE ReportLead'
  BY <1>1, <1>8 DEF Load
<1>9. ASSUME UNCHANGED reportVars PROVE ReportLead'
  BY <1>1, <1>9 DEF reportVars, stats
<1> QED BY <1>2, <1>3, <1>4, <1>5, <1>6, <1>7, <1>8, <1>9 DEF ReportNext

\* The parts of the invariant, in every state.
LEMMA ReportInvariant == ReportSpec => []ReportInv
<1>1. ReportInv /\ [ReportNext]_reportVars => ReportInv'
  BY ReportTypeNext, QuietNext, BoundedNext, BandsLeadNext, ReportLeadNext DEF ReportInv
<1> QED BY <1>1, ReportInitInv, PTL DEF ReportSpec

(***************************************************************************)
(* Between clearings that meet an enqueue, a counter of pfab_stats is at   *)
(* most the number of increments by all qdiscs, and at least the number of *)
(* those that met no rival: for any number of qdiscs, bands and frames.    *)
(***************************************************************************)
THEOREM CountersOff == ReportSpec => []CountersBounded
<1>1. ReportInv => CountersBounded
  BY DEF ReportInv
<1> QED BY <1>1, ReportInvariant, PTL

(***************************************************************************)
(* What pfab_stats_proc_seq_show prints adds up, up to the increments of   *)
(* the bands that may have been lost, although it is read counter by       *)
(* counter without a lock.                                                 *)
(***************************************************************************)
THEOREM ReportsAddUp == ReportSpec => []ReportAddsUp
<1>1. ASSUME ReportInv PROVE ReportAddsUp
  <2> SUFFICES ASSUME todo = {}, ~ cleared, ~ spoilt, NoWrap, NEW c \in Header
               PROVE  report[c] <= Total(report, Bands) + Total(raced, Bands)
    BY DEF ReportAddsUp, NoWrap
  <2>1. report[c] <= Total(Completed, Bands)
    BY <1>1 DEF ReportInv, ReportLead
  <2>2. \A b \in Bands : Completed[b] = report[b] + raced[b] /\ report[b] \in Int /\ raced[b] \in Int
    BY <1>1 DEF ReportInv, ReportTypeOK, Completed, Counters
  <2>3. Total(Completed, Bands) = Total(report, Bands) + Total(raced, Bands)
    BY <2>2, TotalSum
  <2> QED BY <2>1, <2>3
<1> QED BY <1>1, ReportInvariant, PTL

-----------------------------------------------------------------------------
HIDE ReportAssumption
USE ProcAssumption

(***************************************************************************)
(* The module is loaded empty.                                             *)
(***************************************************************************)
LEMMA ProcTypeInit == ProcInit => ProcTypeOK
<1> SUFFICES ASSUME ProcInit PROVE ProcTypeOK
  OBVIOUS
<1>1. InUse = {}
  BY DEF ProcInit, InUse
<1>2. entries \in [Files -> [Names -> Nat]]
  BY DEF ProcInit, NoEntries
<1> QED
  BY <1>1, <1>2, Zenon DEF ProcInit, ProcTypeOK

(***************************************************************************)
(* Creating and removing a /proc entry keep the counts natural numbers.    *)
(***************************************************************************)
LEMMA EntryTypes ==
  ASSUME NEW e \in [Files -> [Names -> Nat]], NEW f \in Files, NEW n \in Names
  PROVE  /\ create_proc_entry(e, f, n) \in [Files -> [Names -> Nat]]
         /\ remove_proc_entry(e, f, n) \in [Files -> [Names -> Nat]]
BY DEF create_proc_entry, remove_proc_entry

(***************************************************************************)
(* What the three pairs of calls in pfab_stats_init and pfab_stats_exit do *)
(* to the counts of a name.                                                *)
(***************************************************************************)
Less1(k) == IF k = 0 THEN 0 ELSE k - 1

\* From e to f, name m has come to s and c files; n is that name or has kept its files.
Moves(e, f, m, n, s, c) ==
  /\ f["stats"][n] = IF m = n THEN s ELSE e["stats"][n]
  /\ f["csv"][n] = IF m = n THEN c ELSE e["csv"][n]

LEMMA PairCounts ==
  ASSUME NEW e \in [Files -> [Names -> Nat]], NEW m \in Names, NEW n \in Names
  PROVE  /\ Moves(e, create_proc_entry(create_proc_entry(e, "stats", m), "csv", m), m, n,
                  e["stats"][n] + 1, e["csv"][n] + 1)
         /\ Moves(e, remove_proc_entry(create_proc_entry(e, "stats", m), "csv", m), m, n,
                  e["stats"][n] + 1, Less1(e["csv"][n]))
         /\ Moves(e, remove_proc_entry(remove_proc_entry(e, "stats", m), "csv", m), m, n,
                  Less1(e["stats"][n]), Less1(e["csv"][n]))
<1>1. "stats" \in Files /\ "csv" \in Files /\ "stats" # "csv"
  BY DEF Files
<1>2. CASE m = n
  BY <1>1, <1>2 DEF Moves, create_proc_entry, remove_proc_entry, Less1
<1>3. CASE m # n
  BY <1>1, <1>3 DEF Moves, create_proc_entry, remove_proc_entry
<1> QED
  BY <1>2, <1>3

(***************************************************************************)
(* Each step keeps the types, and pfab_module_exit waits for the qdiscs.   *)
(***************************************************************************)
LEMMA ProcTypeNext == ProcTypeOK /\ [ProcNext]_procVars => ProcTypeOK'
<1> SUFFICES ASSUME ProcTypeOK, [ProcNext]_procVars PROVE ProcTypeOK'
  OBVIOUS
<1> USE DEF ProcTypeOK
<1>0. "stats" \in Files /\ "csv" \in Files
  BY DEF Files
<1>1. CASE pfab_module_init
  BY <1>1 DEF pfab_module_init, InUse, events
<1>2. CASE pfab_module_exit
  BY <1>2, Zenon DEF pfab_module_exit, InUse, events
<1>3. ASSUME NEW q \in Handles, NEW d \in Devices, InitSucceeds(q, d) PROVE ProcTypeOK'
  <2>1. name[d] \in Names
    OBVIOUS
  <2>3. born' \in [Handles -> Names \cup {NoDevice}] /\ \A x \in InUse' : born'[x] \in Names
    BY <1>3, <2>1 DEF InitSucceeds, InUse
  <2>2. entries' \in [Files -> [Names -> Nat]]
    BY <1>0, <1>3, <2>1, EntryTypes, Zenon DEF InitSucceeds
  <2> QED
    BY <1>3, <2>2, <2>3 DEF InitSucceeds, NewQdisc, InUse, events
<1>4. ASSUME NEW q \in Handles, NEW d \in Devices, InitWithoutCsv(q, d) PROVE ProcTypeOK'
  <2>1. name[d] \in Names
    OBVIOUS
  <2>2. entries' \in [Files -> [Names -> Nat]]
    BY <1>0, <1>4, <2>1, EntryTypes, Zenon DEF InitWithoutCsv
  <2>3. leaks' \in [Names -> Nat]
    BY <1>4, <2>1 DEF InitWithoutCsv
  <2> QED
    BY <1>4, <2>2, <2>3 DEF InitWithoutCsv, NewQdisc, InUse
<1>5. ASSUME NEW q \in Handles, pfab_destroy(q) PROVE ProcTypeOK'
  <2>1. name[device[q]] \in Names
    BY <1>5 DEF pfab_destroy, InUse
  <2>2. entries' \in [Files -> [Names -> Nat]]
    BY <1>0, <1>5, <2>1, EntryTypes, Zenon DEF pfab_destroy, pfab_stats_exit
  <2>3. device' \in [Handles -> Devices \cup {NoDevice}]
    BY <1>5 DEF pfab_destroy
  <2>4. loaded'
    BY <1>5 DEF pfab_destroy
  <2>5. born' \in [Handles -> Names \cup {NoDevice}] /\ \A x \in InUse' : born'[x] \in Names
    BY <1>5 DEF pfab_destroy, InUse
  <2>6. orphans' \in [Names -> Nat] /\ robbed' \in [Names -> Nat]
    <3>1. born[q] \in Names
      BY <1>5 DEF pfab_destroy
    <3> QED
      BY <1>5, <2>1, <3>1 DEF pfab_destroy
  <2> QED
    BY <1>5, <2>2, <2>3, <2>4, <2>5, <2>6 DEF pfab_destroy
<1>6. ASSUME NEW d \in Devices, NEW n \in Names, dev_change_name(d, n) PROVE ProcTypeOK'
  BY <1>6 DEF dev_change_name, InUse, events
<1>7. CASE UNCHANGED procVars
  BY <1>7 DEF procVars, InUse, events
<1> QED
  BY <1>1, <1>2, <1>3, <1>4, <1>5, <1>6, <1>7 DEF ProcNext, InitRefused

(***************************************************************************)
(* No qdisc outlives the module whose code it runs.                        *)
(***************************************************************************)
THEOREM ProcTypeCorrect == ProcSpec => []ProcTypeOK
BY ProcTypeInit, ProcTypeNext, PTL DEF ProcSpec

(***************************************************************************)
(* The qdiscs of a device name are a finite set.                           *)
(***************************************************************************)
LEMMA AttachedFinite ==
  \A n \in Names : IsFiniteSet(Attached(n)) /\ Cardinality(Attached(n)) \in Nat
<1> SUFFICES ASSUME NEW n \in Names
             PROVE  IsFiniteSet(Attached(n)) /\ Cardinality(Attached(n)) \in Nat
  OBVIOUS
<1>1. Attached(n) \subseteq Handles
  BY DEF Attached, InUse
<1> QED
  BY <1>1, FS_Subset, FS_CardinalityType

(***************************************************************************)
(* The account of a name with s statistics files, c CSV files and k        *)
(* qdiscs, after l leaks, o orphaned and r robbed pairs.                   *)
(***************************************************************************)
InAccount(s, c, k, l, o, r) ==
  /\ k + o + l - r <= s /\ s <= k + o + l
  /\ k + o - l - r <= c /\ c <= k + o

Accounts ==
  \A n \in Names : InAccount(entries["stats"][n], entries["csv"][n],
                             Cardinality(Attached(n)), leaks[n], orphans[n], robbed[n])

(***************************************************************************)
(* If the account of every name is in order, so are the files.             *)
(***************************************************************************)
LEMMA AccountMeaning == ProcTypeOK /\ Accounts => EntriesAccounted
<1> SUFFICES ASSUME ProcTypeOK, Accounts PROVE EntriesAccounted
  OBVIOUS
<1>1. "stats" \in Files /\ "csv" \in Files
  BY DEF Files
<1>2. ASSUME NEW n \in Names
      PROVE  /\ entries["stats"][n] \in Nat /\ entries["csv"][n] \in Nat
             /\ leaks[n] \in Nat /\ orphans[n] \in Nat /\ robbed[n] \in Nat
             /\ Cardinality(Attached(n)) \in Nat
  BY <1>1, AttachedFinite DEF ProcTypeOK
<1> QED
  BY <1>2 DEF EntriesAccounted, Accounts, InAccount

(***************************************************************************)
(* The files are accounted for when the module is first loaded.            *)
(***************************************************************************)
LEMMA AccountsInit == ProcInit => Accounts
<1> SUFFICES ASSUME ProcInit, NEW n \in Names
             PROVE  InAccount(entries["stats"][n], entries["csv"][n],
                              Cardinality(Attached(n)), leaks[n], orphans[n], robbed[n])
  BY DEF Accounts
<1>1. Attached(n) = {}
  BY DEF ProcInit, Attached, InUse
<1>2. Cardinality(Attached(n)) = 0
  BY <1>1, FS_EmptySet
<1>3. entries["stats"][n] = 0 /\ entries["csv"][n] = 0
  BY DEF ProcInit, NoEntries, Files
<1>4. leaks[n] = 0 /\ orphans[n] = 0 /\ robbed[n] = 0
  BY DEF ProcInit
<1> QED
  BY <1>2, <1>3, <1>4 DEF InAccount

(***************************************************************************)
(* Each step keeps the account.  pfab_init and a pfab_destroy that finds   *)
(* the name of its files change the qdiscs of one name and its files by    *)
(* one; the other steps that change files are counted.                     *)
(***************************************************************************)
LEMMA AccountsNext == ProcTypeOK /\ Accounts /\ [ProcNext]_procVars => Accounts'
<1> SUFFICES ASSUME ProcTypeOK, Accounts, [ProcNext]_procVars, NEW n \in Names
             PROVE  InAccount(entries'["stats"][n], entries'["csv"][n], Cardinality(Attached(n)'),
                              leaks'[n], orphans'[n], robbed'[n])
  BY Zenon DEF Accounts
<1>0. "stats" \in Files /\ "csv" \in Files /\ "stats" # "csv"
  BY DEF Files
<1> DEFINE card == Cardinality(Attached(n))
           file == entries["stats"][n]
           csv == entries["csv"][n]
           l == leaks[n]
           o == orphans[n]
           r == robbed[n]
           Kept == InAccount(entries'["stats"][n], entries'["csv"][n], Cardinality(Attached(n)'),
                             leaks'[n], orphans'[n], robbed'[n])
<1>t. /\ entries \in [Files -> [Names -> Nat]]
      /\ card \in Nat /\ IsFiniteSet(Attached(n))
      /\ file \in Nat /\ csv \in Nat /\ l \in Nat /\ o \in Nat /\ r \in Nat
  BY <1>0, AttachedFinite DEF ProcTypeOK
<1>a. InAccount(file, csv, card, l, o, r)
  BY DEF Accounts
<1>s. ASSUME Attached(n)' = Attached(n), entries' = entries, UNCHANGED events
      PROVE  Kept
  BY <1>s, <1>a DEF events
<1>1. CASE pfab_module_init \/ pfab_module_exit \/ UNCHANGED procVars
  BY <1>1, <1>s, Zenon DEF pfab_module_init, pfab_module_exit, procVars, Attached, InUse
<1>3. ASSUME NEW q \in Handles, NEW d \in Devices, InitSucceeds(q, d)
      PROVE  Kept
  <2>0. /\ name[d] \in Names /\ q \notin InUse
        /\ device' = [device EXCEPT ![q] = d] /\ born' = [born EXCEPT ![q] = name[d]]
        /\ device \in [Handles -> Devices \cup {NoDevice}]
        /\ born \in [Handles -> Names \cup {NoDevice}]
        /\ leaks'[n] = l /\ orphans'[n] = o /\ robbed'[n] = r
    BY <1>3 DEF InitSucceeds, NewQdisc, ProcTypeOK, events
  <2>1. /\ entries'["stats"][n] = IF name[d] = n THEN file + 1 ELSE file
        /\ entries'["csv"][n] = IF name[d] = n THEN csv + 1 ELSE csv
    <3>1. entries' = create_proc_entry(create_proc_entry(entries, "stats", name[d]), "csv", name[d])
      BY <1>3 DEF InitSucceeds
    <3>2. Moves(entries, entries', name[d], n, file + 1, csv + 1)
      BY <1>t, <2>0, <3>1, PairCounts, Zenon
    <3> QED BY <3>2 DEF Moves
  <2>2. CASE name[d] = n
    <3>1. Attached(n)' = Attached(n) \cup {q} /\ q \notin Attached(n)
      BY <2>0, <2>2, Zenon DEF Attached, InUse
    <3>2. Cardinality(Attached(n)') = card + 1
      BY <3>1, <1>t, FS_AddElement, Zenon
    <3> HIDE DEF card, file, csv, l, o, r
    <3>3. InAccount(file + 1, csv + 1, card + 1, l, o, r)
      BY <1>a, <1>t DEF InAccount
    <3> QED
      BY <2>0, <2>1, <2>2, <3>2, <3>3
  <2>3. CASE name[d] # n
    <3>1. Attached(n)' = Attached(n)
      BY <2>0, <2>3, Zenon DEF Attached, InUse
    <3> QED
      BY <2>0, <2>1, <2>3, <3>1, <1>a, Zenon
  <2> QED
    BY <2>2, <2>3, Zenon
<1>4. ASSUME NEW q \in Handles, NEW d \in Devices, InitWithoutCsv(q, d)
      PROVE  Kept
  <2>0. /\ name[d] \in Names /\ leaks' = [leaks EXCEPT ![name[d]] = @ + 1]
        /\ leaks \in [Names -> Nat]
        /\ orphans'[n] = o /\ robbed'[n] = r
        /\ Attached(n)' = Attached(n)
    BY <1>4 DEF InitWithoutCsv, ProcTypeOK, Attached, InUse
  <2>1. /\ entries'["stats"][n] = IF name[d] = n THEN file + 1 ELSE file
        /\ entries'["csv"][n] = IF name[d] = n THEN Less1(csv) ELSE csv
    <3>1. entries' = remove_proc_entry(create_proc_entry(entries, "stats", name[d]), "csv", name[d])
      BY <1>4 DEF InitWithoutCsv
    <3>2. Moves(entries, entries', name[d], n, file + 1, Less1(csv))
      BY <1>t, <2>0, <3>1, PairCounts, Zenon
    <3> QED BY <3>2, Zenon DEF Moves
  <2>2. leaks'[n] = (IF name[d] = n THEN l + 1 ELSE l)
    BY <2>0, Zenon
  <2>3. Cardinality(Attached(n)') = card
    BY <2>0, Zenon
  <2> HIDE DEF card, file, csv, l, o, r
  <2>4. InAccount(file + 1, Less1(csv), card, l + 1, o, r)
    BY <1>a, <1>t DEF InAccount, Less1
  <2> QED
    BY <2>0, <2>1, <2>2, <2>3, <2>4, <1>a, Zenon
<1>5. ASSUME NEW q \in Handles, pfab_destroy(q)
      PROVE  Kept
  <2> DEFINE m == name[device[q]]
  <2>0. /\ m \in Names /\ q \in InUse /\ born[q] \in Names
        /\ device' = [device EXCEPT ![q] = NoDevice] /\ born' = [born EXCEPT ![q] = NoDevice]
        /\ device \in [Handles -> Devices \cup {NoDevice}]
        /\ born \in [Handles -> Names \cup {NoDevice}]
        /\ leaks'[n] = l
    BY <1>5 DEF pfab_destroy, InUse, ProcTypeOK
  <2>1. /\ entries'["stats"][n] = IF m = n THEN Less1(file) ELSE file
        /\ entries'["csv"][n] = IF m = n THEN Less1(csv) ELSE csv
    <3>1. entries' = remove_proc_entry(remove_proc_entry(entries, "stats", m), "csv", m)
      BY <1>5 DEF pfab_destroy, pfab_stats_exit
    <3>2. Moves(entries, entries', m, n, Less1(file), Less1(csv))
      BY <1>t, <2>0, <3>1, PairCounts, Zenon
    <3> QED BY <3>2, Zenon DEF Moves
  <2>2. /\ orphans'[n] = IF m # born[q] /\ born[q] = n THEN o + 1 ELSE o
        /\ robbed'[n] = IF m # born[q] /\ m = n THEN r + 1 ELSE r
    BY <1>5, <2>0 DEF pfab_destroy, ProcTypeOK
  <2>3. CASE born[q] = n
    <3>1. Attached(n)' = Attached(n) \ {q} /\ q \in Attached(n)
      BY <2>0, <2>3, Zenon DEF Attached, InUse
    <3>2. Cardinality(Attached(n)') = card - 1
      BY <3>1, <1>t, FS_RemoveElement, Zenon
    <3>3. card - 1 \in Nat
      <4>1. IsFiniteSet(Attached(n)')
        BY <3>1, <1>t, FS_Subset
      <4> QED
        BY <4>1, <3>2, FS_CardinalityType
    <3> HIDE DEF card, file, csv, l, o, r
    <3>4. /\ InAccount(Less1(file), Less1(csv), card - 1, l, o, r)
          /\ InAccount(file, csv, card - 1, l, o + 1, r)
      BY <1>a, <1>t, <3>3 DEF InAccount, Less1
    <3> QED
      BY <2>0, <2>1, <2>2, <2>3, <3>2, <3>4, Zenon
  <2>4. CASE born[q] # n
    <3>1. Attached(n)' = Attached(n)
      BY <2>0, <2>4, Zenon DEF Attached, InUse
    <3>2. Cardinality(Attached(n)') = card
      BY <3>1
    <3> HIDE DEF card, file, csv, l, o, r
    <3>3. InAccount(Less1(file), Less1(csv), card, l, o, r + 1)
      BY <1>a, <1>t DEF InAccount, Less1
    <3> QED
      BY <2>0, <2>1, <2>2, <2>4, <3>2, <3>3, <1>a, Zenon
  <2> QED
    BY <2>3, <2>4, Zenon
<1>6. ASSUME NEW d \in Devices, NEW x \in Names, dev_change_name(d, x)
      PROVE  Kept
  BY <1>6, <1>s, Zenon DEF dev_change_name, Attached, InUse
<1> QED
  BY <1>1, <1>3, <1>4, <1>5, <1>6, Zenon DEF ProcNext, InitRefused

(***************************************************************************)
(* pfab_stats_init and pfab_stats_exit keep the files in step with the     *)
(* qdiscs, up to failures to create the CSV file and qdiscs destroyed      *)
(* under another name than they were created with.                         *)
(***************************************************************************)
THEOREM Entries == ProcSpec => []EntriesAccounted
BY AccountsInit, AccountsNext, AccountMeaning, ProcTypeCorrect, PTL DEF ProcSpec

-----------------------------------------------------------------------------
HIDE ProcAssumption
USE TcAssumption

(***************************************************************************)
(* The greatest element of a set, once it is known, is what Max returns.   *)
(***************************************************************************)
LEMMA MaxIs ==
  ASSUME NEW S \in SUBSET Int, NEW m \in S, \A x \in S : x <= m
  PROVE  Max(S) = m
<1>1. \E x \in S : \A y \in S : x >= y
  OBVIOUS
<1>2. Max(S) \in S /\ \A y \in S : Max(S) >= y
  BY <1>1, Zenon DEF Max
<1>3. Max(S) \in Int /\ m \in Int /\ Max(S) >= m /\ Max(S) <= m
  BY <1>2, Zenon
<1> HIDE DEF Max
<1> QED
  BY <1>3

(***************************************************************************)
(* A command line is a sequence of words.                                  *)
(***************************************************************************)
LEMMA LinesAreSeqs == \A l \in Lines : l \in Seq(Words)
<1> SUFFICES ASSUME NEW n \in 0 .. MaxWords, NEW l \in [1 .. n -> Words]
             PROVE  l \in Seq(Words)
  BY DEF Lines
<1> QED OBVIOUS

(***************************************************************************)
(* A word is either a keyword without a size or no keyword.                *)
(***************************************************************************)
LEMMA WordShape ==
  \A w \in Words : /\ w.keyword \in Keywords \cup {"none"}
                   /\ w.size \in Sizes \cup {NoSize}
BY DEF Words, Keyword, Number, OtherWord

(***************************************************************************)
(* The first n words are pairs that the loop accepts.                      *)
(***************************************************************************)
PairsUpTo(n) ==
  \A i \in 1 .. n : i % 2 = 1 =>
    /\ line[i].keyword \in Keywords
    /\ line[i].keyword = "limit" => line[i + 1].size # NoSize

(***************************************************************************)
(* The inductive invariant: argv is at a keyword's place, all before it    *)
(* was well formed and opt is what it means.                               *)
(***************************************************************************)
TcInv ==
  /\ TcTypeOK
  /\ argv % 2 = 1
  /\ PairsUpTo(argv - 1)
  /\ Means(opt, argv - 1)
  /\ status = "sent" => argv = Len(line) + 1
  /\ status \in Errors => ~ WellFormed

(***************************************************************************)
(* Nothing was read yet, and the defaults mean an empty line.              *)
(***************************************************************************)
LEMMA TcInitInv == TcInit => TcInv
<1> SUFFICES ASSUME TcInit PROVE TcInv
  OBVIOUS
<1>1. TcTypeOK
  BY LinesAreSeqs DEF TcInit, TcTypeOK
<1>2. Places("limit", 0) = {} /\ Flags(0) = {}
  BY DEF Places, Flags
<1>3. Means(opt, argv - 1) /\ PairsUpTo(argv - 1)
  BY <1>2 DEF TcInit, Means, PairsUpTo
<1> QED
  BY <1>1, <1>3 DEF TcInit, TcInv, Errors

(***************************************************************************)
(* The places of a keyword among two more words: the first of the two is   *)
(* added if it is the keyword.                                             *)
(***************************************************************************)
LEMMA PlacesGrow ==
  ASSUME TcTypeOK, argv % 2 = 1, NEW k
  PROVE  Places(k, argv + 1) =
           Places(k, argv - 1) \cup (IF line[argv].keyword = k THEN {argv} ELSE {})
<1>1. argv \in Nat \ {0}
  BY DEF TcTypeOK
<1>2. \A i \in 1 .. argv + 1 : i % 2 = 1 => i \in 1 .. argv - 1 \/ i = argv
  BY <1>1
<1>3. \A i \in 1 .. argv - 1 : i \in 1 .. argv + 1
  BY <1>1
<1>4. argv \in 1 .. argv + 1
  BY <1>1
<1> QED
  BY <1>2, <1>3, <1>4 DEF Places

(***************************************************************************)
(* All places read so far are before argv.                                 *)
(***************************************************************************)
LEMMA PlacesBefore ==
  ASSUME argv \in Nat, NEW k
  PROVE  /\ Places(k, argv - 1) \in SUBSET Int
         /\ \A i \in Places(k, argv - 1) : i <= argv
BY DEF Places

(***************************************************************************)
(* A word at an odd place that is no keyword, or is the last one, or is a  *)
(* limit without a number, makes a line ill formed.                        *)
(***************************************************************************)
LEMMA IllFormed ==
  ASSUME TcTypeOK, argv % 2 = 1, argc > 0,
         \/ line[argv].keyword \notin Keywords
         \/ argc = 1
         \/ line[argv].keyword = "limit" /\ line[argv + 1].size = NoSize
  PROVE  ~ WellFormed
<1>1. argv \in 1 .. Len(line) /\ Len(line) \in Nat
  BY DEF argc, TcTypeOK
<1>2. CASE argc = 1
  <2>1. Len(line) = argv
    BY <1>1, <1>2 DEF argc
  <2> QED
    BY <2>1 DEF WellFormed
<1>3. CASE argc # 1
  BY <1>1, <1>3 DEF WellFormed
<1> QED
  BY <1>2, <1>3

\* As long as argc is positive, argv is at a word.
LEMMA AtWord ==
  ASSUME line \in Seq(Words), argv \in 1 .. Len(line) + 1, argc > 0
  PROVE  argc \in Nat \ {0} /\ line[argv] \in Words
<1>1. argv \in 1 .. Len(line) /\ Len(line) \in Nat /\ argc = Len(line) - argv + 1
  BY DEF argc
<1>2. argc \in Nat \ {0}
  BY <1>1
<1> QED
  BY <1>1, <1>2

(***************************************************************************)
(* Each step of pfabric_parse_opt preserves the invariant.                 *)
(***************************************************************************)
LEMMA TcNextInv == TcInv /\ [pfabric_parse_opt]_tcVars => TcInv'
<1> SUFFICES ASSUME TcInv, [pfabric_parse_opt]_tcVars PROVE TcInv'
  OBVIOUS
<1>t. /\ TcTypeOK /\ argv % 2 = 1 /\ argv \in Nat \ {0} /\ Len(line) \in Nat
      /\ argv \in 1 .. Len(line) + 1 /\ line \in Seq(Words)
  BY DEF TcInv, TcTypeOK
<1>e. ASSUME NEW r, status' = r, r \in Errors, ~ WellFormed, UNCHANGED <<line, argv, opt>>
      PROVE  TcInv'
  <2>1. TcTypeOK'
    BY <1>e, <1>t DEF TcTypeOK
  <2>2. PairsUpTo(argv - 1)' /\ Means(opt, argv - 1)'
    BY <1>e, Zenon DEF TcInv, PairsUpTo, Means, Places, Flags
  <2>3. ~ WellFormed' /\ status' # "sent"
    BY <1>e DEF WellFormed, Errors
  <2> QED
    BY <1>e, <1>t, <2>1, <2>2, <2>3 DEF TcInv
<1>a. ASSUME argc > 1, status' = "parsing", argv' = argv + 2, UNCHANGED line,
             line[argv].keyword \in Keywords,
             line[argv].keyword = "limit" => line[argv + 1].size # NoSize,
             opt' \in [limit : {DEFAULT_PACKET_BUFFER_LIMIT} \cup Sizes,
                       disable_dequeue : BOOLEAN],
             Means(opt', argv + 1)
      PROVE  TcInv'
  <2>1. argv + 2 \in 1 .. Len(line) + 1 /\ (argv + 2) % 2 = 1
    BY <1>a, <1>t DEF argc
  <2>2. TcTypeOK'
    BY <1>a, <1>t, <2>1 DEF TcTypeOK
  <2>3. PairsUpTo(argv + 1)
    <3> SUFFICES ASSUME NEW i \in 1 .. argv + 1, i % 2 = 1
                 PROVE  /\ line[i].keyword \in Keywords
                        /\ line[i].keyword = "limit" => line[i + 1].size # NoSize
      BY DEF PairsUpTo
    <3>1. i \in 1 .. argv - 1 \/ i = argv
      BY <1>t
    <3> QED
      BY <3>1, <1>a DEF PairsUpTo, TcInv
  <2>4. (argv - 1)' = argv + 1
    BY <1>a, <1>t
  <2>5. PairsUpTo(argv - 1)'
    BY <1>a, <2>3, <2>4 DEF PairsUpTo
  <2>6. Means(opt, argv - 1)'
    BY <1>a, <2>4, Zenon DEF Means, Places, Flags
  <2> QED
    BY <1>a, <2>1, <2>2, <2>5, <2>6 DEF TcInv, Errors
<1>1. CASE ParseLimit
  <2> USE <1>1 DEF ParseLimit, At, NextArg, Advance
  <2>0. argc \in Nat \ {0} /\ line[argv] \in Words
    BY <1>t, AtWord
  <2>1. CASE argc = 1
    <3>1. ~ WellFormed
      BY <1>t, <2>1, IllFormed
    <3> QED
      BY <3>1, <2>1, <1>e DEF Errors
  <2>2. CASE argc # 1 /\ line[argv + 1].size = NoSize
    <3>1. ~ WellFormed
      BY <1>t, <2>2, IllFormed
    <3> QED
      BY <3>1, <2>2, <1>e DEF Errors
  <2>3. CASE argc # 1 /\ line[argv + 1].size # NoSize
    <3>0. argc > 1
      BY <2>0, <2>3
    <3>1. line[argv + 1] \in Words
      BY <1>t, <3>0 DEF argc
    <3>2. line[argv + 1].size \in Sizes
      BY <3>1, <2>3, WordShape
    <3>3. opt' = [opt EXCEPT !.limit = line[argv + 1].size]
      BY <2>3
    <3>4. opt' \in [limit : {DEFAULT_PACKET_BUFFER_LIMIT} \cup Sizes,
                    disable_dequeue : BOOLEAN]
      BY <3>2, <3>3, <1>t, Zenon DEF TcTypeOK
    <3>5. /\ Places("limit", argv + 1) = Places("limit", argv - 1) \cup {argv}
          /\ Flags(argv + 1) = Flags(argv - 1)
      BY <1>t, PlacesGrow DEF Flags
    <3>6. Max(Places("limit", argv + 1)) = argv
      <4>1. /\ Places("limit", argv + 1) \in SUBSET Int
            /\ argv \in Places("limit", argv + 1)
            /\ \A i \in Places("limit", argv + 1) : i <= argv
        BY <1>t, <3>5, PlacesBefore
      <4> QED
        BY <4>1, MaxIs
    <3>7. opt'.limit = line[argv + 1].size /\ opt'.disable_dequeue = opt.disable_dequeue
      BY <3>3, <1>t DEF TcTypeOK
    <3>8. Means(opt', argv + 1)
      BY <3>5, <3>6, <3>7 DEF Means, TcInv
    <3> QED
      BY <2>3, <3>0, <3>4, <3>8, <1>a DEF Keywords
  <2> QED
    BY <2>1, <2>2, <2>3
<1>2. ASSUME NEW k \in {"disable_dequeue", "enable_dequeue"}, NEW f \in BOOLEAN,
             f <=> (k = "disable_dequeue"), ParseFlag(k, f)
      PROVE  TcInv'
  <2>0. argc \in Nat \ {0}
    BY <1>2, <1>t DEF argc, ParseFlag, At
  <2> USE <1>2 DEF ParseFlag, At, NextArg, Advance
  <2>1. CASE argc = 1
    <3>1. ~ WellFormed
      BY <1>t, <2>1, IllFormed
    <3> QED
      BY <3>1, <2>1, <1>e DEF Errors
  <2>3. CASE argc # 1
    <3>0. argc > 1
      BY <2>0, <2>3
    <3>3. opt' = [opt EXCEPT !.disable_dequeue = f]
      BY <2>3
    <3>4. opt' \in [limit : {DEFAULT_PACKET_BUFFER_LIMIT} \cup Sizes,
                    disable_dequeue : BOOLEAN]
      BY <3>3, <1>t DEF TcTypeOK
    <3>5. /\ Places("limit", argv + 1) = Places("limit", argv - 1)
          /\ Flags(argv + 1) = Flags(argv - 1) \cup {argv}
      BY <1>t, PlacesGrow, ZenonT(40) DEF Flags
    <3>6. Max(Flags(argv + 1)) = argv
      <4>1. /\ Flags(argv - 1) \in SUBSET Int
            /\ \A i \in Flags(argv - 1) : i <= argv
        BY <1>t, PlacesBefore DEF Flags
      <4>2. /\ Flags(argv + 1) \in SUBSET Int
            /\ argv \in Flags(argv + 1)
            /\ \A i \in Flags(argv + 1) : i <= argv
        BY <1>t, <3>5, <4>1
      <4> QED
        BY <4>2, MaxIs
    <3>7. opt'.limit = opt.limit /\ opt'.disable_dequeue = f
      BY <3>3, <1>t DEF TcTypeOK
    <3>8. Means(opt', argv + 1)
      BY <3>5, <3>6, <3>7 DEF Means, TcInv
    <3> QED
      BY <2>3, <3>0, <3>4, <3>8, <1>a DEF Keywords
  <2> QED
    BY <2>1, <2>3
<1>3. CASE Unknown
  <2>1. ~ WellFormed
    BY <1>3, <1>t, IllFormed DEF Unknown, At, Keywords
  <2> QED
    BY <1>3, <2>1, <1>e DEF Unknown, Errors
<1>4. CASE Send
  <2>1. argv = Len(line) + 1
    BY <1>4, <1>t DEF Send, argc
  <2>2. TcTypeOK'
    BY <1>4, <1>t DEF Send, TcTypeOK
  <2>3. PairsUpTo(argv - 1)' /\ Means(opt, argv - 1)'
    BY <1>4 DEF Send, TcInv, PairsUpTo, Means, Places, Flags
  <2> QED
    BY <1>4, <1>t, <2>1, <2>2, <2>3 DEF Send, TcInv, Errors
<1>5. CASE UNCHANGED tcVars
  <2>1. TcTypeOK' /\ WellFormed' = WellFormed
    BY <1>5, <1>t DEF tcVars, TcTypeOK, WellFormed
  <2>2. PairsUpTo(argv - 1)' /\ Means(opt, argv - 1)'
    BY <1>5 DEF tcVars, TcInv, PairsUpTo, Means, Places, Flags
  <2> QED
    BY <1>5, <2>1, <2>2 DEF tcVars, TcInv
<1> QED
  BY <1>1, <1>2, <1>3, <1>4, <1>5, Zenon DEF pfabric_parse_opt

(***************************************************************************)
(* The invariant holds in every state of the parser.                       *)
(***************************************************************************)
THEOREM TcInvariant == TcSpec => []TcInv
BY TcInitInv, TcNextInv, PTL DEF TcSpec

(***************************************************************************)
(* pfabric_parse_opt keeps its types: in particular argv never points more *)
(* than one place past the last word.                                      *)
(***************************************************************************)
THEOREM TcTypeCorrect == TcSpec => []TcTypeOK
<1>1. TcInv => TcTypeOK
  BY DEF TcInv
<1> QED
  BY <1>1, TcInvariant, PTL

(***************************************************************************)
(* A line of the usage text that has no flag is empty or a single limit,   *)
(* and it means to the parser what it says.                                *)
(***************************************************************************)
LEMMA LimitOnly ==
  ASSUME TcTypeOK, Documented, Mentions("disable_dequeue") \cup Mentions("enable_dequeue") = {}
  PROVE  WellFormed /\ (Means(opt, Len(line)) => Says(opt))
<1> DEFINE n == Len(line)
<1>1. n \in Nat /\ \A i \in 1 .. n : line[i] \in Words
  BY DEF TcTypeOK
<1>2. \A i \in 1 .. n : line[i].keyword \in {"limit", "none"}
  <2> SUFFICES ASSUME NEW i \in 1 .. n PROVE line[i].keyword \in {"limit", "none"}
    OBVIOUS
  <2>1. line[i].keyword \in Keywords \cup {"none"}
    BY <1>1, WordShape
  <2>2. line[i].keyword # "disable_dequeue" /\ line[i].keyword # "enable_dequeue"
    BY DEF Mentions
  <2> QED BY <2>1, <2>2 DEF Keywords
<1>3. CASE n = 0
  <2>1. Mentions("limit") = {} /\ Mentions("disable_dequeue") = {}
    BY <1>3 DEF Mentions
  <2>2. Places("limit", n) = {} /\ Flags(n) = {}
    BY <1>3 DEF Places, Flags
  <2>3. WellFormed
    BY <1>3 DEF WellFormed
  <2> QED BY <2>1, <2>2, <2>3 DEF Means, Says
<1>4. CASE n # 0
  <2>1. line[1].keyword = "limit"
    <3>1. 1 \in 1 .. n /\ 0 \notin Mentions("limit")
      BY <1>1, <1>4 DEF Mentions
    <3>2. 1 \notin Mentions("none")
      BY <3>1 DEF Documented
    <3> QED BY <1>2, <3>1, <3>2 DEF Mentions
  <2>2. 1 \in Mentions("limit") /\ n >= 2 /\ line[2].size # NoSize
    BY <1>1, <1>4, <2>1 DEF Mentions, Documented
  <2>3. line[2].keyword = "none"
    <3>1. 2 \in 1 .. n /\ line[2].keyword \in {"limit", "none"}
      BY <1>1, <1>2, <2>2
    <3>2. 2 \notin Mentions("limit")
      BY <2>2 DEF Documented, Keywords
    <3> QED BY <3>1, <3>2 DEF Mentions
  <2>4. n = 2
    <3> SUFFICES ASSUME n # 2 PROVE FALSE
      OBVIOUS
    <3>1. 3 \in 1 .. n /\ line[3].keyword \in {"limit", "none"}
      <4>1. n >= 3
        <5> HIDE DEF n
        <5> QED BY <1>1, <2>2
      <4>2. 3 \in 1 .. n
        <5> HIDE DEF n
        <5> QED BY <1>1, <4>1
      <4> QED BY <1>2, <4>2
    <3>2. 3 \notin Mentions("limit")
      BY <2>2 DEF Documented, Keywords
    <3>3. 3 \notin Mentions("none")
      BY <2>3 DEF Documented, Mentions
    <3> QED BY <3>1, <3>2, <3>3 DEF Mentions
  <2>5. Mentions("limit") = {1} /\ Mentions("disable_dequeue") = {} /\ Places("limit", n) = {1}
    <3>1. Mentions("limit") = {1}
      <4>1. \A i \in Mentions("limit") : i = 1
        BY <2>2 DEF Documented, Keywords
      <4> QED BY <2>2, <4>1
    <3>2. Places("limit", n) = {1}
      BY <2>1, <2>4 DEF Places
    <3> QED BY <3>1, <3>2
  <2>6. Flags(n) = {}
    BY <2>1, <2>4 DEF Flags, Places
  <2>7. WellFormed
    BY <2>1, <2>2, <2>4 DEF WellFormed, Keywords
  <2> QED BY <2>5, <2>6, <2>7 DEF Means, Says
<1> QED BY <1>3, <1>4

(***************************************************************************)
(* For every command line, pfabric_parse_opt sends the options that the    *)
(* line means to it, or refuses the line because it is not well formed;    *)
(* and it reads a line of the usage text that has no flag as it says.      *)
(***************************************************************************)
THEOREM TcParses == TcSpec => []ParseCorrect
<1>1. ASSUME TcInv PROVE ParseCorrect
  <2>1. TcTypeOK /\ (status \in Errors => ~ WellFormed)
    BY <1>1 DEF TcInv
  <2>2. ASSUME status = "sent" PROVE WellFormed /\ Means(opt, Len(line))
    <3>1. argv - 1 = Len(line) /\ Len(line) \in Nat /\ Len(line) % 2 = 0
      BY <1>1, <2>2 DEF TcInv, TcTypeOK
    <3> QED BY <1>1, <3>1 DEF TcInv, PairsUpTo, WellFormed
  <2> QED BY <2>1, <2>2, LimitOnly DEF ParseCorrect
<1> QED BY <1>1, TcInvariant, PTL

=============================================================================
