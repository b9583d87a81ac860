-------------------------- MODULE PfabQdisc_proofs --------------------------
(***************************************************************************)
(* The operations of the qdisc, for every number of bands, word size,      *)
(* option set, frame set and bound: the updates and the scans of the       *)
(* bitmap are correct, every variable keeps its type, the counters of the  *)
(* qdisc and of pfab_stats balance, the bitmap covers the queues, every    *)
(* skb is owned exactly once, and /proc shows the options and the bitmap   *)
(* of the qdisc.                                                           *)
(***************************************************************************)
EXTENDS PfabQdisc, Totals_proofs

\* A leaf is tried with SMT, then with Zenon, then with SMT and more time.
USE SMT, Zenon, SMTT(30)

\* A nonempty set of naturals has a least element.
LEMMA MinExists ==
  ASSUME NEW S \in SUBSET Nat, S # {}
  PROVE  /\ Min(S) \in S
         /\ \A y \in S : Min(S) <= y
BY LeastNat, Zenon DEF Min

\* A nonempty set of naturals that is bounded has a greatest element.
LEMMA MaxExists ==
  ASSUME NEW n \in Nat, NEW S \in SUBSET (0 .. n), S # {}
  PROVE  /\ Max(S) \in S
         /\ \A y \in S : Max(S) >= y
<1> DEFINE T == {n - x : x \in S}
<1>1. T \in SUBSET Nat
  OBVIOUS
<1>2. T # {}
  BY Zenon
<1>3. PICK t \in T : \A y \in T : t <= y
  <2> HIDE DEF T
  <2> QED BY <1>1, <1>2, MinExists, Zenon
<1>4. \E x \in S : \A y \in S : x >= y
  BY <1>3
<1>5. QED
  BY <1>4, Zenon DEF Max

\* Word i and bit j are recovered from the band i * W + j.
LEMMA SplitBand ==
  ASSUME NEW W \in Nat \ {0}, NEW i \in Nat, NEW j \in 0 .. W - 1
  PROVE  /\ (i * W + j) \div W = i
         /\ (i * W + j) % W = j
  OBVIOUS

\* Every band is its word times the word size plus its bit.
LEMMA JoinBand ==
  ASSUME NEW W \in Nat \ {0}, NEW b \in Nat
  PROVE  /\ b = (b \div W) * W + (b % W)
         /\ b \div W \in Nat
         /\ b % W \in 0 .. W - 1
  OBVIOUS

\* A band in a lower word is a lower band, whatever its bit.
LEMMA WordOrder ==
  ASSUME NEW W \in Nat \ {0}, NEW i \in Nat, NEW k \in Nat, i < k
  PROVE  (i + 1) * W <= k * W
  OBVIOUS
(***************************************************************************)
(* The bitmap operations, seen through SetBands.                           *)
(***************************************************************************)
LEMMA BandPlace ==
  ASSUME NEW b \in Bands
  PROVE  /\ BandBMap(b) \in Words
         /\ BandBit(b) \in Bits
         /\ b = BandBMap(b) * BANDS_IN_BITMAP + BandBit(b)
<1> DEFINE W == BANDS_IN_BITMAP
<1>0. W \in Nat \ {0} /\ NUM_BANDS \in Nat /\ BITMAP_SIZE * W = NUM_BANDS /\ BITMAP_SIZE \in Nat
  <2>1. BITMAP_SIZE \in Nat
    BY BandsAssumption, JoinBand DEF BITMAP_SIZE
  <2> QED BY <2>1, BandsAssumption
<1>1. b \in Nat /\ b < NUM_BANDS
  BY <1>0 DEF Bands
<1>2. /\ b = BandBMap(b) * W + BandBit(b)
      /\ BandBMap(b) \in Nat
      /\ BandBit(b) \in 0 .. W - 1
  BY <1>0, <1>1, JoinBand, Zenon DEF BandBMap, BandBit
<1>3. BandBMap(b) < BITMAP_SIZE
  <2> SUFFICES ASSUME BITMAP_SIZE <= BandBMap(b) PROVE FALSE
    BY <1>0, <1>2
  <2>1. BITMAP_SIZE * W <= BandBMap(b) * W
    BY <1>0, <1>2
  <2> QED BY <2>1, <1>0, <1>1, <1>2
<1> QED BY <1>0, <1>2, <1>3 DEF Words, Bits

\* Every place in the array is the place of a band.
LEMMA PlaceBand ==
  ASSUME NEW i \in Words, NEW j \in Bits
  PROVE  /\ i * BANDS_IN_BITMAP + j \in Bands
         /\ BandBMap(i * BANDS_IN_BITMAP + j) = i
         /\ BandBit(i * BANDS_IN_BITMAP + j) = j
<1> DEFINE W == BANDS_IN_BITMAP
<1>0. W \in Nat \ {0} /\ NUM_BANDS \in Nat /\ BITMAP_SIZE * W = NUM_BANDS /\ BITMAP_SIZE \in Nat
  <2>1. BITMAP_SIZE \in Nat
    BY BandsAssumption, JoinBand DEF BITMAP_SIZE
  <2> QED BY <2>1, BandsAssumption
<1>1. i \in Nat /\ i < BITMAP_SIZE /\ j \in 0 .. W - 1
  BY <1>0 DEF Words, Bits
<1>2. (i + 1) * W <= NUM_BANDS
  BY <1>0, <1>1, WordOrder
<1>3. i * W + j \in Bands
  BY <1>0, <1>1, <1>2 DEF Bands
<1> QED BY <1>0, <1>1, <1>3, SplitBand, Zenon DEF BandBMap, BandBit

\* Bands, words and bits are naturals.
LEMMA BandsAreNat ==
  /\ Bands \subseteq Nat
  /\ \A b \in Bands : b <= NUM_BANDS - 1
  /\ BITMAP_SIZE \in Nat
  /\ Words \subseteq Nat
  /\ Bits \subseteq Nat
<1>1. BITMAP_SIZE \in Nat
  BY BandsAssumption, JoinBand DEF BITMAP_SIZE
<1> QED BY <1>1, BandsAssumption DEF Bands, Words, Bits

(***************************************************************************)
(* Setting a band's bit adds that band and no other, whichever word holds  *)
(* it (sch_pfab.c bitmap_add_band).                                        *)
(***************************************************************************)
THEOREM AddBandEffect ==
  ASSUME NEW bm \in Bitmap, NEW band \in Bands
  PROVE  /\ bitmap_add_band(bm, band) \in Bitmap
         /\ SetBands(bitmap_add_band(bm, band)) = SetBands(bm) \cup {band}
<1>1. bitmap_add_band(bm, band) \in Bitmap
  BY BandPlace DEF bitmap_add_band, Bitmap
<1>2. ASSUME NEW b \in Bands
      PROVE  b \in SetBands(bitmap_add_band(bm, band)) <=> b \in SetBands(bm) \/ b = band
  <2>1. CASE BandBMap(b) # BandBMap(band)
    BY <2>1, BandPlace DEF bitmap_add_band, Bitmap, SetBands
  <2>2. CASE BandBMap(b) = BandBMap(band)
    <3>1. BandBit(b) = BandBit(band) => b = band
      BY <2>2, BandPlace
    <3> QED BY <3>1, <2>2, BandPlace DEF bitmap_add_band, Bitmap, SetBands
  <2> QED BY <2>1, <2>2
<1> QED BY <1>1, <1>2 DEF SetBands

(***************************************************************************)
(* Clearing a band's bit removes that band and no other (sch_pfab.c        *)
(* bitmap_remove_band).                                                    *)
(***************************************************************************)
THEOREM RemoveBandEffect ==
  ASSUME NEW bm \in Bitmap, NEW band \in Bands
  PROVE  /\ bitmap_remove_band(bm, band) \in Bitmap
         /\ SetBands(bitmap_remove_band(bm, band)) = SetBands(bm) \ {band}
<1>1. bitmap_remove_band(bm, band) \in Bitmap
  BY BandPlace DEF bitmap_remove_band, Bitmap
<1>2. ASSUME NEW b \in Bands
      PROVE  b \in SetBands(bitmap_remove_band(bm, band)) <=> b \in SetBands(bm) /\ b # band
  <2>1. CASE BandBMap(b) # BandBMap(band)
    BY <2>1, BandPlace DEF bitmap_remove_band, Bitmap, SetBands
  <2>2. CASE BandBMap(b) = BandBMap(band)
    <3>1. BandBit(b) = BandBit(band) => b = band
      BY <2>2, BandPlace
    <3> QED BY <3>1, <2>2, BandPlace DEF bitmap_remove_band, Bitmap, SetBands
  <2> QED BY <2>1, <2>2
<1> QED BY <1>1, <1>2 DEF SetBands

\* The scans find a word exactly when some band is set.
LEMMA NonzeroWordsAreSet ==
  ASSUME NEW bm \in Bitmap
  PROVE  /\ \A b \in SetBands(bm) : BandBMap(b) \in NonzeroWords(bm)
         /\ \A i \in NonzeroWords(bm) : \A j \in bm[i] :
               i * BANDS_IN_BITMAP + j \in SetBands(bm)
  BY BandPlace, PlaceBand DEF SetBands, NonzeroWords, Bitmap

(***************************************************************************)
(* bitmap_high_prio returns -1 when no bit is set and otherwise the        *)
(* smallest band whose bit is set: scanning word by word loses nothing     *)
(* (sch_pfab.c:45 "Returns the highest priority band that is not empty",   *)
(* for a bitmap that is exact).                                            *)
(***************************************************************************)
THEOREM HighPrioCorrect ==
  ASSUME NEW bm \in Bitmap
  PROVE  /\ SetBands(bm) = {} => bitmap_high_prio(bm) = -1
         /\ SetBands(bm) # {} =>
               /\ bitmap_high_prio(bm) \in SetBands(bm)
               /\ \A b \in SetBands(bm) : bitmap_high_prio(bm) <= b
<1> DEFINE W == BANDS_IN_BITMAP
           NZ == NonzeroWords(bm)
           i == Min(NZ)
           j == Min(bm[i])
<1>0. W \in Nat \ {0}
  BY BandsAssumption
<1>1. CASE NZ = {}
  BY <1>1, NonzeroWordsAreSet DEF bitmap_high_prio
<1>2. CASE NZ # {}
  <2>1. i \in NZ /\ \A k \in NZ : i <= k
    BY <1>2, MinExists, BandsAreNat DEF NonzeroWords
  <2>2. i \in Words /\ bm[i] \in SUBSET Bits /\ bm[i] # {}
    BY <2>1, Zenon DEF NonzeroWords, Bitmap
  <2>3. j \in bm[i] /\ \A k \in bm[i] : j <= k
    BY <2>2, MinExists, BandsAreNat, Zenon
  <2>4. bitmap_high_prio(bm) = i * W + j
    BY <1>2 DEF bitmap_high_prio
  <2>5. i * W + j \in SetBands(bm)
    BY <2>1, <2>3, NonzeroWordsAreSet
  <2>6. ASSUME NEW b \in SetBands(bm) PROVE i * W + j <= b
    <3>1. b \in Bands /\ BandBit(b) \in bm[BandBMap(b)] /\ BandBMap(b) \in NZ
      BY NonzeroWordsAreSet DEF SetBands
    <3>2. b = BandBMap(b) * W + BandBit(b) /\ BandBMap(b) \in Nat /\ BandBit(b) \in Nat
      BY <3>1, BandPlace, BandsAreNat, Zenon
    <3>3. i \in Nat /\ j \in 0 .. W - 1
      BY <2>2, <2>3, BandsAreNat, Zenon DEF Bits
    <3>4. CASE BandBMap(b) = i
      BY <3>1, <3>2, <3>4, <2>3, <3>3, <1>0
    <3>5. CASE i < BandBMap(b)
      <4>1. (i + 1) * W <= BandBMap(b) * W
        BY <3>2, <3>3, <3>5, <1>0, WordOrder
      <4> QED BY <4>1, <3>2, <3>3, <1>0
    <3> QED BY <3>1, <3>2, <3>3, <3>4, <3>5, <2>1
  <2> QED BY <2>4, <2>5, <2>6
<1> QED BY <1>1, <1>2

(***************************************************************************)
(* bitmap_low_prio returns -1 when no bit is set and otherwise the largest *)
(* band whose bit is set (sch_pfab.c:72 "Returns the lowest priority band  *)
(* that is not empty", for a bitmap that is exact).                        *)
(***************************************************************************)
THEOREM LowPrioCorrect ==
  ASSUME NEW bm \in Bitmap
  PROVE  /\ SetBands(bm) = {} => bitmap_low_prio(bm) = -1
         /\ SetBands(bm) # {} =>
               /\ bitmap_low_prio(bm) \in SetBands(bm)
               /\ \A b \in SetBands(bm) : b <= bitmap_low_prio(bm)
<1> DEFINE W == BANDS_IN_BITMAP
           NZ == NonzeroWords(bm)
           i == Max(NZ)
           j == Max(bm[i])
<1>0. W \in Nat \ {0}
  BY BandsAssumption
<1>1. CASE NZ = {}
  BY <1>1, NonzeroWordsAreSet DEF bitmap_low_prio
<1>2. CASE NZ # {}
  <2>1. i \in NZ /\ \A k \in NZ : i >= k
    <3>1. NZ \in SUBSET (0 .. BITMAP_SIZE)
      BY BandsAreNat DEF NonzeroWords, Words
    <3> QED BY <3>1, <1>2, MaxExists, BandsAreNat, Zenon
  <2>2. i \in Words /\ bm[i] \in SUBSET Bits /\ bm[i] # {}
    BY <2>1, Zenon DEF NonzeroWords, Bitmap
  <2>3. j \in bm[i] /\ \A k \in bm[i] : j >= k
    <3>1. bm[i] \in SUBSET (0 .. W)
      BY <2>2, <1>0 DEF Bits
    <3> QED BY <3>1, <2>2, MaxExists, <1>0, Zenon
  <2>4. bitmap_low_prio(bm) = i * W + j
    BY <1>2 DEF bitmap_low_prio
  <2>5. i * W + j \in SetBands(bm)
    BY <2>1, <2>3, NonzeroWordsAreSet
  <2>6. ASSUME NEW b \in SetBands(bm) PROVE b <= i * W + j
    <3>1. b \in Bands /\ BandBit(b) \in bm[BandBMap(b)] /\ BandBMap(b) \in NZ
      BY NonzeroWordsAreSet DEF SetBands
    <3>2. /\ b = BandBMap(b) * W + BandBit(b)
          /\ BandBMap(b) \in Nat
          /\ BandBit(b) \in 0 .. W - 1
      BY <3>1, BandPlace, BandsAreNat, Zenon DEF Bits
    <3>3. i \in Nat /\ j \in Nat
      BY <2>2, <2>3, BandsAreNat, Zenon
    <3>4. CASE BandBMap(b) = i
      BY <3>1, <3>2, <3>4, <2>3, <3>3, <1>0
    <3>5. CASE BandBMap(b) < i
      <4>1. (BandBMap(b) + 1) * W <= i * W
        BY <3>2, <3>3, <3>5, <1>0, WordOrder
      <4> QED BY <4>1, <3>2, <3>3, <1>0
    <3> QED BY <3>1, <3>2, <3>3, <3>4, <3>5, <2>1
  <2> QED BY <2>4, <2>5, <2>6
<1> QED BY <1>1, <1>2
-----------------------------------------------------------------------------
(***************************************************************************)
(* u32 arithmetic.                                                         *)
(***************************************************************************)
LEMMA Arith32 ==
  ASSUME NEW n \in Word32, NEW k \in Nat
  PROVE  /\ Inc32(n) \in Word32 /\ Dec32(n) \in Word32
         /\ Add32(n, k) \in Word32 /\ Sub32(n, k) \in Word32
         /\ 0 \in Word32
  BY QdiscAssumption DEF Word32, Inc32, Dec32, Add32, Sub32

\* A remainder is determined by its range.
LEMMA ModUnique ==
  ASSUME NEW m \in Nat \ {0}, NEW q \in Int, NEW r \in 0 .. m - 1
  PROVE  (q * m + r) % m = r
  OBVIOUS

\* Quotient and remainder of any integer.
LEMMA ModSplit ==
  ASSUME NEW m \in Nat \ {0}, NEW n \in Int
  PROVE  /\ n % m \in 0 .. m - 1
         /\ n \div m \in Int
         /\ n = (n \div m) * m + (n % m)
  OBVIOUS

\* Inc32 and Dec32 are addition and subtraction modulo U32.
LEMMA ModStep ==
  ASSUME NEW n \in Int
  PROVE  /\ n % U32 \in Word32
         /\ (n + 1) % U32 = Inc32(n % U32)
         /\ (n - 1) % U32 = Dec32(n % U32)
<1> DEFINE q == n \div U32
           r == n % U32
<1>1. U32 \in Nat /\ U32 > 1
  BY QdiscAssumption
<1>2. q \in Int /\ r \in 0 .. U32 - 1 /\ n = q * U32 + r
  BY <1>1, ModSplit
<1>3. ASSUME NEW a \in Int, NEW s \in 0 .. U32 - 1, NEW k \in Int, k = a * U32 + s
      PROVE  k % U32 = s
  BY <1>1, <1>3, ModUnique
<1> HIDE DEF q, r
<1>4. (n + 1) % U32 = Inc32(r)
  <2>1. CASE r = U32 - 1
    <3>1. n + 1 = (q + 1) * U32 + 0 /\ 0 \in 0 .. U32 - 1
      BY <1>1, <1>2, <2>1
    <3>2. (n + 1) % U32 = 0
      BY <3>1, <1>2, <1>3
    <3> QED BY <3>2, <2>1 DEF Inc32
  <2>2. CASE r # U32 - 1
    <3>1. n + 1 = q * U32 + (r + 1) /\ r + 1 \in 0 .. U32 - 1
      BY <1>1, <1>2, <2>2
    <3>2. (n + 1) % U32 = r + 1
      BY <3>1, <1>2, <1>3
    <3> QED BY <3>2, <2>2 DEF Inc32
  <2> QED BY <2>1, <2>2
<1>5. (n - 1) % U32 = Dec32(r)
  <2>1. CASE r = 0
    <3>1. n - 1 = (q - 1) * U32 + (U32 - 1) /\ U32 - 1 \in 0 .. U32 - 1
      BY <1>1, <1>2, <2>1
    <3>2. (n - 1) % U32 = U32 - 1
      BY <3>1, <1>2, <1>3
    <3> QED BY <3>2, <2>1 DEF Dec32
  <2>2. CASE r # 0
    <3>1. n - 1 = q * U32 + (r - 1) /\ r - 1 \in 0 .. U32 - 1
      BY <1>1, <1>2, <2>2
    <3>2. (n - 1) % U32 = r - 1
      BY <3>1, <1>2, <1>3
    <3> QED BY <3>2, <2>2 DEF Dec32
  <2> QED BY <2>1, <2>2
<1> QED BY <1>2, <1>4, <1>5 DEF r, Word32

(***************************************************************************)
(* Lists.                                                                  *)
(***************************************************************************)
LEMMA PacketsInMember ==
  ASSUME NEW q, NEW x
  PROVE  x \in PacketsIn(q) <=> \E b \in Bands : \E i \in DOMAIN q[b] : x = q[b][i]
<1>1. x \in PacketsIn(q) <=> \E b \in Bands : x \in Range(q[b])
  BY DEF PacketsIn
<1> QED BY <1>1 DEF Range

\* The members of SlotsOf.
LEMMA SlotsOfMember ==
  ASSUME NEW q, NEW s
  PROVE  s \in SlotsOf(q) <=> \E b \in Bands : \E i \in DOMAIN q[b] : s = <<b, i>>
  BY DEF SlotsOf

\* Membership of a pair in SlotsOf.
LEMMA SlotsOfPair ==
  ASSUME NEW q, NEW b, NEW i
  PROVE  <<b, i>> \in SlotsOf(q) <=> b \in Bands /\ i \in DOMAIN q[b]
  BY SlotsOfMember

Lists == [Bands -> Seq(Skb)]

Appended(q, b, x) == [q EXCEPT ![b] = Append(@, x)]

Tailed(q, b) == [q EXCEPT ![b] = Tail(@)]

\* What a list of an array of lists looks like.
LEMMA ListShape ==
  ASSUME NEW q \in Lists, NEW b \in Bands
  PROVE  /\ q[b] \in Seq(Skb)
         /\ Len(q[b]) \in Nat
         /\ DOMAIN q[b] = 1 .. Len(q[b])
         /\ \A i \in DOMAIN q[b] : q[b][i] \in Skb
         /\ q[b] # <<>> => Len(q[b]) \in Nat \ {0}
<1>1. q[b] \in Seq(Skb)
  BY DEF Lists
<1> QED BY <1>1

\* What appending changes and what it leaves alone.
LEMMA AppendShape ==
  ASSUME NEW q \in Lists, NEW b \in Bands, NEW x \in Skb
  PROVE  /\ Appended(q, b, x) \in Lists
         /\ Appended(q, b, x)[b] # <<>>
         /\ \A c \in Bands : c # b => Appended(q, b, x)[c] = q[c]
         /\ DOMAIN Appended(q, b, x)[b] = 1 .. Len(q[b]) + 1
         /\ \A i \in DOMAIN q[b] : Appended(q, b, x)[b][i] = q[b][i]
         /\ Appended(q, b, x)[b][Len(q[b]) + 1] = x
<1> DEFINE r == Appended(q, b, x)
<1>1. q[b] \in Seq(Skb)
  BY DEF Lists
<1>2. /\ r \in Lists /\ r[b] = Append(q[b], x)
      /\ \A c \in Bands : c # b => r[c] = q[c]
  BY <1>1 DEF Lists, Appended
<1>3. /\ r[b] # <<>>
      /\ \A i \in DOMAIN q[b] : r[b][i] = q[b][i]
      /\ r[b][Len(q[b]) + 1] = x
      /\ DOMAIN r[b] = 1 .. Len(q[b]) + 1
  BY <1>1, <1>2
<1> QED BY <1>2, <1>3

\* Appending adds one packet.
LEMMA AppendPackets ==
  ASSUME NEW q \in Lists, NEW b \in Bands, NEW x \in Skb
  PROVE  \A y : y \in PacketsIn(Appended(q, b, x)) <=> y \in PacketsIn(q) \/ y = x
<1> DEFINE r == Appended(q, b, x)
<1>0. /\ \A c \in Bands : c # b => r[c] = q[c]
      /\ DOMAIN q[b] = 1 .. Len(q[b]) /\ Len(q[b]) \in Nat
      /\ DOMAIN r[b] = 1 .. Len(q[b]) + 1
      /\ \A i \in DOMAIN q[b] : r[b][i] = q[b][i]
      /\ r[b][Len(q[b]) + 1] = x
  BY AppendShape, ListShape
<1> HIDE DEF r
<1>1. ASSUME NEW y, y \in PacketsIn(r) PROVE y \in PacketsIn(q) \/ y = x
  <2>0. PICK c \in Bands : \E i \in DOMAIN r[c] : y = r[c][i]
    BY <1>1, PacketsInMember
  <2>1. PICK i \in DOMAIN r[c] : y = r[c][i]
    BY <2>0
  <2>2. CASE c = b /\ i = Len(q[b]) + 1
    BY <1>0, <2>1, <2>2
  <2>3. CASE ~ (c = b /\ i = Len(q[b]) + 1)
    <3>1. i \in DOMAIN q[c] /\ y = q[c][i]
      BY <1>0, <2>1, <2>3
    <3> QED BY <3>1, PacketsInMember
  <2> QED BY <2>2, <2>3
<1>2. ASSUME NEW y, y \in PacketsIn(q) PROVE y \in PacketsIn(r)
  <2>0. PICK c \in Bands : \E i \in DOMAIN q[c] : y = q[c][i]
    BY <1>2, PacketsInMember
  <2>1. PICK i \in DOMAIN q[c] : y = q[c][i]
    BY <2>0
  <2>2. i \in DOMAIN r[c] /\ y = r[c][i]
    BY <1>0, <2>1
  <2> QED BY <2>2, PacketsInMember
<1>3. x \in PacketsIn(r)
  <2>1. Len(q[b]) + 1 \in DOMAIN r[b] /\ r[b][Len(q[b]) + 1] = x
    BY <1>0
  <2> QED BY <2>1, PacketsInMember
<1> QED BY <1>1, <1>2, <1>3 DEF r

\* Appending adds one slot, at the end of the list.
LEMMA AppendSlots ==
  ASSUME NEW q \in Lists, NEW b \in Bands, NEW x \in Skb
  PROVE  /\ SlotsOf(Appended(q, b, x)) = SlotsOf(q) \cup {<<b, Len(q[b]) + 1>>}
         /\ <<b, Len(q[b]) + 1>> \notin SlotsOf(q)
<1> DEFINE r == Appended(q, b, x)
<1>0. /\ \A c \in Bands : c # b => r[c] = q[c]
      /\ DOMAIN q[b] = 1 .. Len(q[b]) /\ Len(q[b]) \in Nat
      /\ DOMAIN r[b] = 1 .. Len(q[b]) + 1
  BY AppendShape, ListShape
<1> HIDE DEF r
<1>a. DOMAIN r[b] = DOMAIN q[b] \cup {Len(q[b]) + 1}
  BY <1>0
<1>1. \A c, i : <<c, i>> \in SlotsOf(r) <=>
                  <<c, i>> \in SlotsOf(q) \/ <<c, i>> = <<b, Len(q[b]) + 1>>
  <2>1. \A c \in Bands : c # b => r[c] = q[c]
    BY <1>0
  <2> QED BY <1>a, <2>1, SlotsOfPair, Zenon
<1>2. ASSUME NEW s
      PROVE  s \in SlotsOf(r) <=> s \in SlotsOf(q) \cup {<<b, Len(q[b]) + 1>>}
  <2>1. CASE \E c, i : s = <<c, i>>
    BY <2>1, <1>1
  <2>2. CASE ~ \E c, i : s = <<c, i>>
    BY <2>2, SlotsOfMember
  <2> QED BY <2>1, <2>2
<1>3. <<b, Len(q[b]) + 1>> \notin SlotsOf(q)
  BY <1>0, SlotsOfPair
<1> QED BY <1>2, <1>3, Zenon DEF r

\* What taking the head changes and what it leaves alone.
LEMMA TailShape ==
  ASSUME NEW q \in Lists, NEW b \in Bands, q[b] # <<>>
  PROVE  /\ Tailed(q, b) \in Lists
         /\ Head(q[b]) \in Skb
         /\ Head(q[b]) = q[b][1]
         /\ Tailed(q, b)[b] = Tail(q[b])
         /\ \A c \in Bands : c # b => Tailed(q, b)[c] = q[c]
         /\ DOMAIN Tailed(q, b)[b] = 1 .. Len(q[b]) - 1
         /\ \A i \in DOMAIN Tailed(q, b)[b] : Tailed(q, b)[b][i] = q[b][i + 1]
<1> DEFINE r == Tailed(q, b)
<1>1. q[b] \in Seq(Skb)
  BY DEF Lists
<1>2. /\ r \in Lists /\ r[b] = Tail(q[b])
      /\ \A c \in Bands : c # b => r[c] = q[c]
      /\ Head(q[b]) \in Skb
  BY <1>1 DEF Lists, Tailed
<1>3. /\ DOMAIN r[b] = 1 .. Len(q[b]) - 1
      /\ \A i \in DOMAIN r[b] : r[b][i] = q[b][i + 1]
      /\ Head(q[b]) = q[b][1]
  BY <1>1, <1>2
<1> QED BY <1>2, <1>3

\* Taking the head removes no packet but the head.
LEMMA TailPackets ==
  ASSUME NEW q \in Lists, NEW b \in Bands, q[b] # <<>>
  PROVE  \A y : y \in PacketsIn(q) <=> y \in PacketsIn(Tailed(q, b)) \/ y = Head(q[b])
<1> DEFINE r == Tailed(q, b)
<1>0. /\ \A c \in Bands : c # b => r[c] = q[c]
      /\ DOMAIN q[b] = 1 .. Len(q[b]) /\ Len(q[b]) \in Nat \ {0}
      /\ DOMAIN r[b] = 1 .. Len(q[b]) - 1
      /\ \A i \in DOMAIN r[b] : r[b][i] = q[b][i + 1]
      /\ Head(q[b]) = q[b][1]
  BY TailShape, ListShape
<1> HIDE DEF r
<1>1. ASSUME NEW y, y \in PacketsIn(r) PROVE y \in PacketsIn(q)
  <2>0. PICK c \in Bands : \E i \in DOMAIN r[c] : y = r[c][i]
    BY <1>1, PacketsInMember
  <2>1. PICK i \in DOMAIN r[c] : y = r[c][i]
    BY <2>0
  <2>2. \E j \in DOMAIN q[c] : y = q[c][j]
    <3>1. CASE c = b
      <4>1. i + 1 \in DOMAIN q[b] /\ y = q[b][i + 1]
        BY <1>0, <2>1, <3>1
      <4> QED BY <3>1, <4>1
    <3>2. CASE c # b
      BY <1>0, <2>1, <3>2
    <3> QED BY <3>1, <3>2
  <2> QED BY <2>2, PacketsInMember
<1>2. ASSUME NEW y, y \in PacketsIn(q) PROVE y \in PacketsIn(r) \/ y = Head(q[b])
  <2>0. PICK c \in Bands : \E i \in DOMAIN q[c] : y = q[c][i]
    BY <1>2, PacketsInMember
  <2>1. PICK i \in DOMAIN q[c] : y = q[c][i]
    BY <2>0
  <2>2. CASE c = b /\ i = 1
    BY <1>0, <2>1, <2>2
  <2>3. CASE c = b /\ i # 1
    <3>1. i - 1 \in DOMAIN r[b] /\ y = r[b][i - 1]
      BY <1>0, <2>1, <2>3
    <3> QED BY <3>1, PacketsInMember
  <2>4. CASE c # b
    <3>1. i \in DOMAIN r[c] /\ y = r[c][i]
      BY <1>0, <2>1, <2>4
    <3> QED BY <3>1, PacketsInMember
  <2> QED BY <2>2, <2>3, <2>4
<1>3. Head(q[b]) \in PacketsIn(q)
  <2>1. 1 \in DOMAIN q[b] /\ Head(q[b]) = q[b][1]
    BY <1>0
  <2> QED BY <2>1, PacketsInMember
<1> QED BY <1>1, <1>2, <1>3 DEF r

\* Taking the head removes one slot, the last of the list.
LEMMA TailSlots ==
  ASSUME NEW q \in Lists, NEW b \in Bands, q[b] # <<>>
  PROVE  /\ SlotsOf(Tailed(q, b)) = SlotsOf(q) \ {<<b, Len(q[b])>>}
         /\ <<b, Len(q[b])>> \in SlotsOf(q)
<1> DEFINE r == Tailed(q, b)
<1>0. /\ \A c \in Bands : c # b => r[c] = q[c]
      /\ DOMAIN q[b] = 1 .. Len(q[b]) /\ Len(q[b]) \in Nat \ {0}
      /\ DOMAIN r[b] = 1 .. Len(q[b]) - 1
  BY TailShape, ListShape
<1> HIDE DEF r
<1>a. DOMAIN r[b] = DOMAIN q[b] \ {Len(q[b])}
  BY <1>0
<1>1. \A c, i : <<c, i>> \in SlotsOf(r) <=>
                  <<c, i>> \in SlotsOf(q) /\ <<c, i>> # <<b, Len(q[b])>>
  <2>1. \A c \in Bands : c # b => r[c] = q[c]
    BY <1>0
  <2> QED BY <1>a, <2>1, SlotsOfPair, Zenon
<1>2. ASSUME NEW s
      PROVE  s \in SlotsOf(r) <=> s \in SlotsOf(q) \ {<<b, Len(q[b])>>}
  <2>1. CASE \E c, i : s = <<c, i>>
    BY <2>1, <1>1
  <2>2. CASE ~ \E c, i : s = <<c, i>>
    BY <2>2, SlotsOfMember
  <2> QED BY <2>1, <2>2
<1>3. <<b, Len(q[b])>> \in SlotsOf(q)
  BY <1>0, SlotsOfPair
<1> QED BY <1>2, <1>3, Zenon DEF r

(***************************************************************************)
(* Types of the helpers.                                                   *)
(***************************************************************************)
LEMMA SkbType ==
  ASSUME NEW s \in Skb
  PROVE  /\ s.id \in 1 .. MaxArrivals /\ s.len \in Nat /\ s.priority \in Nat
         /\ s # NoSkb
  BY QdiscAssumption DEF Skb, FrameType

\* pfab_enqueue makes a proper skb of any frame.
LEMMA NewSkbType ==
  ASSUME NEW f \in Frames, arrived \in 0 .. MaxArrivals, arrived < MaxArrivals
  PROVE  /\ NewSkb(f) \in Skb
         /\ NewSkb(f).id = arrived + 1
         /\ LegalPriority(NewSkb(f)) => NewSkb(f).priority \in Bands
<1>1. f.len \in Nat /\ f.tos \in Nat /\ f.ip \in BOOLEAN
  BY QdiscAssumption DEF FrameType
<1>2. NewSkb(f).priority \in {0} \cup {g.tos : g \in Frames}
  BY DEF NewSkb, get_skb_priority, TooShort
<1>3. NewSkb(f).priority \in Nat
  BY <1>1 DEF NewSkb, get_skb_priority, TooShort
<1>4. arrived + 1 \in 1 .. MaxArrivals
  BY QdiscAssumption
<1>5. NewSkb(f) \in Skb
  BY <1>2, <1>4 DEF NewSkb, Skb
<1>6. LegalPriority(NewSkb(f)) => NewSkb(f).priority \in Bands
  BY <1>3, BandsAssumption DEF LegalPriority, Bands
<1>7. NewSkb(f).id = arrived + 1
  BY DEF NewSkb
<1> QED BY <1>5, <1>6, <1>7

\* Each update of pfab_stats keeps its type.
LEMMA StatsTypes ==
  ASSUME pfab_stats \in StatsType
  PROVE  /\ ClearedStats \in StatsType
         /\ \A f \in Frames : CountNonIp(f) \in StatsType
         /\ \A f \in Frames : NewSkb(f).priority \in Bands => CountBand(f) \in StatsType
         /\ \A stats \in StatsType, bm \in Bitmap, band \in Bands :
               CopyWord(stats, bm, band) \in StatsType
<1>1. ClearedStats \in StatsType
  BY QdiscAssumption, Arith32 DEF ClearedStats, StatsType, ZeroBitmap, Bitmap
<1>2. ASSUME NEW f \in Frames PROVE CountNonIp(f) \in StatsType
  BY Arith32 DEF CountNonIp, StatsType
<1>3. ASSUME NEW f \in Frames, NewSkb(f).priority \in Bands PROVE CountBand(f) \in StatsType
  BY <1>2, <1>3, Arith32 DEF CountBand, StatsType
<1>4. ASSUME NEW stats \in StatsType, NEW bm \in Bitmap, NEW band \in Bands
      PROVE  CopyWord(stats, bm, band) \in StatsType
  BY <1>4, BandPlace DEF CopyWord, StatsType, Bitmap
<1> QED BY <1>1, <1>2, <1>3, <1>4

-----------------------------------------------------------------------------
(***************************************************************************)
(* Type correctness.  It is not inductive on its own: queueing the packet  *)
(* inside pfab_enqueue indexes the lists and the bitmap by its priority,   *)
(* which the test at line 158 has checked.                                 *)
(***************************************************************************)
PendingOK ==
  pending # NoSkb => pending.priority \in Bands /\ pending.id = arrived

TypeInv == TypeOK /\ PendingOK

(***************************************************************************)
(* What pfab_enqueue has done by the time it reads the limit again, and    *)
(* the band that pfab_drop then picks.  pfab_drop always finds one, so the *)
(* alerts at lines 199 and 286 are never printed.                          *)
(***************************************************************************)
THEOREM DropFindsBand ==
  ASSUME TypeInv, pending # NoSkb
  PROVE  /\ QueuedBitmap \in Bitmap
         /\ SetBands(QueuedBitmap) = SetBands(bitmap) \cup {pending.priority}
         /\ DropBand \in Bands /\ DropBand \in SetBands(QueuedBitmap)
         /\ \A b \in SetBands(QueuedBitmap) : b <= DropBand
<1>1. pending.priority \in Bands /\ bitmap \in Bitmap
  BY DEF TypeInv, TypeOK, PendingOK
<1>2. /\ QueuedBitmap \in Bitmap
      /\ SetBands(QueuedBitmap) = SetBands(bitmap) \cup {pending.priority}
  BY <1>1, AddBandEffect DEF QueuedBitmap
<1>3. SetBands(QueuedBitmap) # {}
  BY <1>2
<1>4. DropBand \in SetBands(QueuedBitmap) /\ \A b \in SetBands(QueuedBitmap) : b <= DropBand
  BY <1>2, <1>3, LowPrioCorrect DEF DropBand
<1> QED BY <1>2, <1>4 DEF SetBands

\* What bitmap_high_prio returns when it is not -1.
LEMMA HighBand ==
  ASSUME TypeInv, bitmap_high_prio(bitmap) >= 0
  PROVE  /\ bitmap_high_prio(bitmap) \in Bands
         /\ bitmap_high_prio(bitmap) \in SetBands(bitmap)
         /\ \A b \in SetBands(bitmap) : bitmap_high_prio(bitmap) <= b
<1>1. bitmap \in Bitmap
  BY DEF TypeInv, TypeOK
<1>2. SetBands(bitmap) # {}
  BY <1>1, HighPrioCorrect
<1> QED BY <1>1, <1>2, HighPrioCorrect DEF SetBands

(***************************************************************************)
(* The list operations of the handlers.                                    *)
(***************************************************************************)
LEMMA QueuedListsAppended ==
  ASSUME TypeInv, pending # NoSkb
  PROVE  /\ queues \in Lists /\ pending.priority \in Bands /\ pending \in Skb
         /\ QueuedLists = Appended(queues, pending.priority, pending)
         /\ QueuedLists \in Lists
<1>1. queues \in Lists /\ pending.priority \in Bands /\ pending \in Skb
  BY DEF TypeInv, TypeOK, PendingOK, Lists
<1>2. QueuedLists = Appended(queues, pending.priority, pending)
  BY DEF QueuedLists, Appended
<1> QED BY <1>1, <1>2, AppendShape

\* pfab_init establishes the type invariant.
THEOREM TypeInvInit == Init => TypeInv
<1> SUFFICES ASSUME Init PROVE TypeInv
  OBVIOUS
<1>1. PICK opt \in Opts \cup {DefaultOpt} : pfab_init(opt)
  BY DEF Init
<1>2. opt.limit \in Word32 /\ opt.disable_dequeue \in BOOLEAN
  <2>1. CASE opt \in Opts
    BY <2>1, QdiscAssumption
  <2>2. CASE opt = DefaultOpt
    BY <2>2, QdiscAssumption DEF DefaultOpt
  <2> QED BY <2>1, <2>2
<1>3. 0 \in Word32 /\ 0 \in 0 .. MaxArrivals
  BY QdiscAssumption DEF Word32
<1>4. ClearedStats \in StatsType
  BY <1>3, QdiscAssumption DEF ClearedStats, StatsType, ZeroBitmap, Bitmap
<1>5. pfab_stats \in StatsType
  BY <1>1, <1>2, <1>4, Zenon DEF pfab_init, StatsType
<1>6. queues \in [Bands -> Seq(Skb)]
  BY <1>1 DEF pfab_init
<1>7. bitmap \in Bitmap
  BY <1>1 DEF pfab_init, ZeroBitmap, Bitmap
<1> QED BY <1>1, <1>2, <1>3, <1>5, <1>6, <1>7
        DEF Init, pfab_init, TypeInv, TypeOK, PendingOK, Codes

\* Queuing a packet keeps the type of the statistics.
LEMMA QueuedStatsType ==
  ASSUME TypeInv, pending # NoSkb
  PROVE  QueuedStats \in StatsType
<1> DEFINE copied == CopyWord(pfab_stats, QueuedBitmap, pending.priority)
<1>1. copied \in StatsType
  BY DropFindsBand, StatsTypes DEF TypeInv, TypeOK, PendingOK
<1>2. pending.len \in Nat
  BY SkbType DEF TypeInv, TypeOK
<1>3. QueuedStats = [copied EXCEPT !.bytes = @ + pending.len, !.packets = Inc32(@)]
  BY DEF QueuedStats
<1> HIDE DEF copied
<1>4. copied.packets \in Word32 /\ copied.bytes \in Nat
  BY <1>1 DEF StatsType
<1>5. Inc32(copied.packets) \in Word32 /\ copied.bytes + pending.len \in Nat
  BY <1>2, <1>4, Arith32
<1> QED BY <1>1, <1>3, <1>5, Zenon DEF StatsType

\* Every operation of the qdisc keeps the type invariant.
THEOREM TypeInvNext == TypeInv /\ [Next]_vars => TypeInv'
<1> SUFFICES ASSUME TypeInv, [Next]_vars PROVE TypeInv'
  OBVIOUS
<1> USE DEF TypeInv
<1>0. pfab_stats \in StatsType /\ queues \in [Bands -> Seq(Skb)] /\ bitmap \in Bitmap
  BY DEF TypeOK
<1>1. ASSUME NEW f \in Frames, Arrives(f),
             EnqueueIllegal(f) \/ EnqueueRefuse(f)
      PROVE  TypeInv'
  <2>1. NewSkb(f) \in Skb /\ arrived' \in 0 .. MaxArrivals
    BY <1>1, NewSkbType, QdiscAssumption DEF Arrives, TypeOK
  <2>2. pfab_stats' \in StatsType
    <3>1. CASE EnqueueIllegal(f)
      BY <1>0, <3>1, StatsTypes, Arith32, Zenon DEF EnqueueIllegal, StatsType
    <3>2. CASE EnqueueRefuse(f)
      <4>1. NewSkb(f).priority \in Bands
        BY <1>1, <3>2, NewSkbType DEF EnqueueRefuse, Arrives, TypeOK
      <4> QED BY <1>0, <3>2, <4>1, StatsTypes DEF EnqueueRefuse
    <3> QED BY <1>1, <3>1, <3>2
  <2>3. drops' \in Word32 /\ freed' \in SUBSET Skb /\ ret' \in Codes
    BY <1>1, <2>1, Arith32 DEF EnqueueIllegal, EnqueueRefuse, qdisc_drop, TypeOK, Codes
  <2>4. UNCHANGED <<data, qlen, backlog, pending, sent, phantom>> /\ pending = NoSkb
    BY <1>1 DEF EnqueueIllegal, EnqueueRefuse, Arrives
  <2> QED BY <2>1, <2>2, <2>3, <2>4 DEF TypeOK, PendingOK, data
<1>2. ASSUME NEW f \in Frames, EnqueueAdmit(f) PROVE TypeInv'
  <2>1. /\ NewSkb(f) \in Skb /\ arrived' \in 0 .. MaxArrivals
        /\ NewSkb(f).priority \in Bands /\ NewSkb(f).id = arrived'
    BY <1>2, NewSkbType, QdiscAssumption DEF EnqueueAdmit, Arrives, TypeOK
  <2>2. pfab_stats' \in StatsType
    BY <1>0, <1>2, <2>1, StatsTypes DEF EnqueueAdmit
  <2>3. pending' = NewSkb(f) /\ ret' \in Codes
    BY <1>2 DEF EnqueueAdmit, Codes
  <2>4. UNCHANGED <<data, sch, sent, freed, phantom>>
    BY <1>2 DEF EnqueueAdmit
  <2> QED BY <2>1, <2>2, <2>3, <2>4 DEF TypeOK, PendingOK, data, sch
<1>3. ASSUME pending # NoSkb PROVE QueuedStats \in StatsType
  BY <1>3, QueuedStatsType
<1>4. CASE EnqueueFits
  <2>1. queues' \in [Bands -> Seq(Skb)] /\ bitmap' \in Bitmap /\ pfab_stats' \in StatsType
    BY <1>3, <1>4, DropFindsBand, QueuedListsAppended DEF EnqueueFits, Lists
  <2>2. pending.len \in Nat
    BY <1>4, SkbType DEF EnqueueFits, TypeOK
  <2>3. qlen' \in Word32 /\ backlog' \in Word32
    BY <1>4, <2>2, Arith32, Zenon DEF EnqueueFits, TypeOK
  <2>4. UNCHANGED <<limit, disable_dequeue, drops, hist>> /\ pending' = NoSkb /\ ret' \in Codes
    BY <1>4 DEF EnqueueFits, Codes
  <2> QED BY <2>1, <2>3, <2>4 DEF TypeOK, PendingOK, hist
<1>5. CASE EnqueueOverflow
  <2>1. pending # NoSkb /\ DropBand \in Bands /\ QueuedLists \in [Bands -> Seq(Skb)]
    BY <1>5, DropFindsBand, QueuedListsAppended DEF EnqueueOverflow, Lists
  <2>2. bitmap' \in Bitmap /\ qlen' \in Word32 /\ drops' \in Word32
    BY <1>5, <2>1, DropFindsBand, Arith32 DEF EnqueueOverflow, pfab_drop, TypeOK
  <2>3. pfab_stats' \in StatsType
    BY <1>3, <1>5, <2>1, Arith32, Zenon DEF EnqueueOverflow, pfab_drop, StatsType
  <2>4. pending.len \in Nat
    BY <2>1, SkbType DEF TypeOK
  <2>5. /\ queues' \in [Bands -> Seq(Skb)] /\ backlog' \in Word32
        /\ freed' \in SUBSET Skb /\ phantom' \in Nat
    <3>1. CASE DropHead
      <4>1. DropList \in Seq(Skb) /\ DropList # <<>>
        BY <2>1, <3>1 DEF DropHead, DropList
      <4>2. Head(DropList) \in Skb /\ Tail(DropList) \in Seq(Skb)
        BY <4>1
      <4>3. Head(DropList).len \in Nat
        BY <4>2, SkbType
      <4>4. queues' \in [Bands -> Seq(Skb)]
        BY <2>1, <3>1, <4>2 DEF DropHead, DropList
      <4>5. backlog' \in Word32
        BY <2>4, <3>1, <4>3, Arith32, Zenon DEF DropHead, TypeOK
      <4> QED BY <3>1, <4>2, <4>4, <4>5 DEF DropHead, TypeOK
    <3>2. CASE DropNothing
      <4>1. backlog' \in Word32
        BY <2>4, <3>2, Arith32, Zenon DEF DropNothing, TypeOK
      <4> QED BY <2>1, <3>2, <4>1 DEF DropNothing, TypeOK
    <3> QED BY <1>5, <3>1, <3>2 DEF EnqueueOverflow
  <2>6. /\ UNCHANGED <<limit, disable_dequeue, arrived, sent>>
        /\ pending' = NoSkb /\ ret' \in Codes
    BY <1>5 DEF EnqueueOverflow, Codes
  <2> QED BY <2>2, <2>3, <2>5, <2>6 DEF TypeOK, PendingOK
<1>6. CASE Dequeue
  <2> DEFINE band == bitmap_high_prio(bitmap)
  <2>1. band \in Bands /\ HighList \in Seq(Skb) /\ HighList # <<>>
    BY <1>0, <1>6, HighBand DEF Dequeue, CanDequeue, HighList
  <2>2. /\ Head(HighList) \in Skb /\ Tail(HighList) \in Seq(Skb)
        /\ Head(HighList).len \in Nat
    BY <2>1, SkbType
  <2>3. queues' \in [Bands -> Seq(Skb)]
    BY <1>0, <1>6, <2>1, <2>2 DEF Dequeue, HighList
  <2>4. qlen' \in Word32 /\ backlog' \in Word32
    BY <1>6, <2>2, Arith32, Zenon DEF Dequeue, TypeOK
  <2>5. bitmap' \in Bitmap /\ pfab_stats' \in StatsType
    BY <1>0, <1>6, <2>1, RemoveBandEffect, StatsTypes DEF Dequeue
  <2>6. /\ sent' \in SUBSET Skb /\ ret' \in Codes
        /\ UNCHANGED <<limit, disable_dequeue, drops, pending, arrived, freed, phantom>>
    BY <1>6, <2>2 DEF Dequeue, Codes, TypeOK
  <2> QED BY <2>3, <2>4, <2>5, <2>6 DEF TypeOK, PendingOK
<1>7. CASE DequeueNull
  BY <1>7 DEF DequeueNull, TypeOK, PendingOK, Codes, data, sch, hist
<1>8. ASSUME NEW opt \in Opts, Change(opt) PROVE TypeInv'
  <2>1. opt.limit \in Word32 /\ opt.disable_dequeue \in BOOLEAN
    BY QdiscAssumption
  <2>2. pfab_stats' \in StatsType
    BY <1>0, <1>8, <2>1, Zenon DEF Change, StatsType
  <2> QED BY <1>8, <2>1, <2>2 DEF Change, TypeOK, PendingOK, sch, hist
<1>9. CASE Reset
  <2>1. queues' \in [Bands -> Seq(Skb)]
    BY <1>9 DEF Reset
  <2>2. Contents \in SUBSET Skb
    <3>1. \A b \in Bands : \A i \in DOMAIN queues[b] : queues[b][i] \in Skb
      BY <1>0
    <3> QED BY <3>1, PacketsInMember DEF Contents
  <2>3. freed' \in SUBSET Skb
    BY <1>9, <2>2 DEF Reset, TypeOK
  <2>4. qlen' \in Word32 /\ backlog' \in Word32 /\ phantom' \in Nat /\ ret' \in Codes
    BY <1>9, Arith32 DEF Reset, Codes, TypeOK
  <2>5. pfab_stats' \in StatsType
    BY <1>0, <1>9, StatsTypes DEF Reset
  <2> QED BY <1>9, <2>1, <2>3, <2>4, <2>5 DEF Reset, TypeOK, PendingOK
<1>10. CASE UNCHANGED vars
  BY <1>10 DEF vars, data, sch, hist, TypeOK, PendingOK
<1> QED BY <1>1, <1>2, <1>4, <1>5, <1>6, <1>7, <1>8, <1>9, <1>10
        DEF Next, Enqueue, EnqueueIllegal, EnqueueRefuse

(***************************************************************************)
(* Every handler keeps every variable in its type, for all constants.      *)
(***************************************************************************)
THEOREM TypeCorrect == Spec => []TypeOK
<1>1. Spec => []TypeInv
  BY TypeInvInit, TypeInvNext, PTL DEF Spec
<1>2. TypeInv => TypeOK
  BY DEF TypeInv
<1> QED BY <1>1, <1>2, PTL
-----------------------------------------------------------------------------
(***************************************************************************)
(* The counters.  Every counter is a u32 on its own, so their balance is   *)
(* an equation modulo U32: each increment is one more, up to a multiple of *)
(* the modulus.                                                            *)
(***************************************************************************)
LEMMA IncWraps ==
  ASSUME NEW n \in Word32
  PROVE  \E w \in Int : Inc32(n) = n + 1 + w * U32
<1>1. U32 \in Nat /\ n \in Nat
  BY QdiscAssumption DEF Word32
<1>2. CASE n = U32 - 1
  <2>1. Inc32(n) = n + 1 + (-1) * U32
    BY <1>1, <1>2 DEF Inc32
  <2>2. -1 \in Int
    OBVIOUS
  <2> QED BY <2>1, <2>2
<1>3. CASE n # U32 - 1
  <2>1. Inc32(n) = n + 1 + 0 * U32
    BY <1>1, <1>3 DEF Inc32
  <2> QED BY <2>1
<1> QED BY <1>2, <1>3

\* A multiple of the modulus does not matter.
LEMMA ModMultiple ==
  ASSUME NEW n \in Int, NEW w \in Int
  PROVE  (n + w * U32) % U32 = n % U32
<1> DEFINE q == n \div U32
           r == n % U32
<1>1. U32 \in Nat \ {0}
  BY QdiscAssumption
<1>2. q \in Int /\ r \in 0 .. U32 - 1 /\ n = q * U32 + r
  BY <1>1, ModSplit
<1> HIDE DEF q, r
<1>3. n + w * U32 = (q + w) * U32 + r /\ q + w \in Int
  BY <1>1, <1>2
<1>4. ((q + w) * U32 + r) % U32 = r
  BY <1>1, <1>2, <1>3, ModUnique
<1> QED BY <1>3, <1>4 DEF r

\* The counters that the balance is about.
SameCounts(s, t) ==
  /\ s.drops = t.drops /\ s.packets = t.packets
  /\ s.per_band_packet_counter = t.per_band_packet_counter
  /\ s.illegal_prio_occurance = t.illegal_prio_occurance

\* What pfab_enqueue counts before it has queued the packet.
LEMMA ArrivalCounts ==
  ASSUME pfab_stats \in StatsType, NEW f \in Frames
  PROVE  /\ LET s == [CountNonIp(f) EXCEPT !.illegal_prio_occurance = Inc32(@)]
            IN  /\ s.drops = pfab_stats.drops /\ s.packets = pfab_stats.packets
                /\ s.per_band_packet_counter = pfab_stats.per_band_packet_counter
                /\ s.illegal_prio_occurance = Inc32(pfab_stats.illegal_prio_occurance)
         /\ LET s == CountBand(f)
            IN  /\ s.drops = pfab_stats.drops /\ s.packets = pfab_stats.packets
                /\ s.illegal_prio_occurance = pfab_stats.illegal_prio_occurance
                /\ s.per_band_packet_counter =
                     [pfab_stats.per_band_packet_counter EXCEPT
                        ![NewSkb(f).priority] = Inc32(@)]
<1> DEFINE n == CountNonIp(f)
<1>1. n \in StatsType
  BY StatsTypes
<1>2. SameCounts(n, pfab_stats)
  BY DEF CountNonIp, StatsType, SameCounts
<1>3. CountBand(f) = [n EXCEPT !.per_band_packet_counter[NewSkb(f).priority] = Inc32(@)]
  BY DEF CountBand
<1> HIDE DEF n
<1>4. LET s == [n EXCEPT !.illegal_prio_occurance = Inc32(@)]
      IN  /\ s.drops = n.drops /\ s.packets = n.packets
          /\ s.per_band_packet_counter = n.per_band_packet_counter
          /\ s.illegal_prio_occurance = Inc32(n.illegal_prio_occurance)
  BY <1>1 DEF StatsType
<1>5. LET s == [n EXCEPT !.per_band_packet_counter[NewSkb(f).priority] = Inc32(@)]
      IN  /\ s.drops = n.drops /\ s.packets = n.packets
          /\ s.illegal_prio_occurance = n.illegal_prio_occurance
          /\ s.per_band_packet_counter =
               [n.per_band_packet_counter EXCEPT ![NewSkb(f).priority] = Inc32(@)]
  BY <1>1 DEF StatsType
<1> QED BY <1>2, <1>3, <1>4, <1>5 DEF SameCounts, n

\* What it counts once the packet is queued, without and with a drop.
LEMMA QueuedCounts ==
  ASSUME TypeInv, pending # NoSkb
  PROVE  /\ QueuedStats.drops = pfab_stats.drops
         /\ QueuedStats.packets = Inc32(pfab_stats.packets)
         /\ QueuedStats.per_band_packet_counter = pfab_stats.per_band_packet_counter
         /\ QueuedStats.illegal_prio_occurance = pfab_stats.illegal_prio_occurance
         /\ LET s == [QueuedStats EXCEPT !.drops = Inc32(@)]
            IN  /\ s.drops = Inc32(pfab_stats.drops)
                /\ s.packets = QueuedStats.packets
                /\ s.per_band_packet_counter = pfab_stats.per_band_packet_counter
                /\ s.illegal_prio_occurance = pfab_stats.illegal_prio_occurance
<1> DEFINE c == CopyWord(pfab_stats, QueuedBitmap, pending.priority)
<1>1. pfab_stats \in StatsType
  BY DEF TypeInv, TypeOK
<1>2. c \in StatsType
  BY <1>1, DropFindsBand, StatsTypes DEF TypeInv, PendingOK
<1>3. SameCounts(c, pfab_stats)
  BY <1>1 DEF CopyWord, StatsType, SameCounts
<1>4. QueuedStats = [c EXCEPT !.bytes = @ + pending.len, !.packets = Inc32(@)]
  BY DEF QueuedStats
<1> HIDE DEF c
<1>5. /\ QueuedStats.drops = pfab_stats.drops
      /\ QueuedStats.packets = Inc32(pfab_stats.packets)
      /\ QueuedStats.per_band_packet_counter = pfab_stats.per_band_packet_counter
      /\ QueuedStats.illegal_prio_occurance = pfab_stats.illegal_prio_occurance
  BY <1>2, <1>3, <1>4 DEF SameCounts, StatsType
<1>6. QueuedStats \in StatsType
  BY QueuedStatsType
<1>7. LET s == [QueuedStats EXCEPT !.drops = Inc32(@)]
      IN  /\ s.drops = Inc32(QueuedStats.drops)
          /\ s.packets = QueuedStats.packets
          /\ s.per_band_packet_counter = QueuedStats.per_band_packet_counter
          /\ s.illegal_prio_occurance = QueuedStats.illegal_prio_occurance
  BY <1>6 DEF StatsType
<1> QED BY <1>5, <1>7

\* Counting a packet in its band adds one to the total over the bands.
LEMMA BandCounted ==
  ASSUME NEW t \in [Bands -> Word32], NEW b \in Bands
  PROVE  /\ Total(t, Bands) \in Int
         /\ \E w \in Int : Total([t EXCEPT ![b] = Inc32(@)], Bands) = Total(t, Bands) + 1 + w * U32
<1> DEFINE u == [t EXCEPT ![b] = Inc32(@)]
<1>1. IsFiniteSet(Bands)
  BY BandsAssumption, FS_Interval DEF Bands
<1>2. \A c \in Bands : t[c] \in Word32
  OBVIOUS
<1>3. /\ u[b] = Inc32(t[b]) /\ Inc32(t[b]) \in Word32
      /\ \A c \in Bands \ {b} : t[c] = u[c]
  BY <1>2, Arith32
<1> HIDE DEF u
<1>4. \A c \in Bands : t[c] \in Int /\ u[c] \in Int
  BY <1>2, <1>3, QdiscAssumption DEF Word32
<1>5. Total(u, Bands) = Total(t, Bands) + (u[b] - t[b])
  BY <1>1, <1>3, <1>4, TotalUpdate
<1>6. Total(t, Bands) \in Int
  BY <1>1, <1>4, TotalAgree
<1>7. PICK w \in Int : Inc32(t[b]) = t[b] + 1 + w * U32
  BY <1>2, IncWraps
<1>8. Total(u, Bands) = Total(t, Bands) + 1 + w * U32
  BY <1>3, <1>4, <1>5, <1>6, <1>7, QdiscAssumption
<1> QED BY <1>6, <1>8 DEF u

\* How many packets are inside pfab_enqueue.
LEMMA InFlightCount ==
  /\ Cardinality(InFlight) = IF pending = NoSkb THEN 0 ELSE 1
  /\ Cardinality(InFlight') = IF pending' = NoSkb THEN 0 ELSE 1
<1>1. InFlight = (IF pending = NoSkb THEN {} ELSE {pending})
  BY DEF InFlight
<1>2. InFlight' = (IF pending' = NoSkb THEN {} ELSE {pending'})
  BY DEF InFlight
<1> QED BY <1>1, <1>2, FS_EmptySet, FS_Singleton

\* The balance as a function of the counters.
Balance(d, a, i, t, p, c) == d - a - i - (t - p - c)

\* Every operation but pfab_reset keeps the balance.
LEMMA BalanceNext ==
  ASSUME TypeInv, TypeInv', [Next]_vars
  PROVE  Unbalanced' = Unbalanced \/ pfab_stats' = ClearedStats
<1> DEFINE d == drops
           a == pfab_stats.drops
           i == pfab_stats.illegal_prio_occurance
           t == Total(pfab_stats.per_band_packet_counter, Bands)
           p == pfab_stats.packets
           c == Cardinality(InFlight)
<1>1. /\ Unbalanced = Balance(d, a, i, t, p, c) % U32
      /\ Unbalanced' = Balance(d', a', i', t', p', c') % U32
  BY DEF Unbalanced, RefusedInStats, Balance
<1>2. /\ pfab_stats \in StatsType /\ d \in Word32 /\ a \in Word32 /\ i \in Word32
      /\ p \in Word32 /\ pfab_stats.per_band_packet_counter \in [Bands -> Word32]
  BY DEF TypeInv, TypeOK, StatsType
<1>3. d \in Int /\ a \in Int /\ i \in Int /\ p \in Int /\ U32 \in Int
  BY <1>2, QdiscAssumption DEF Word32
<1>4. t \in Int
  <2>1. 0 \in Bands
    BY BandsAssumption DEF Bands
  <2> QED BY <1>2, <2>1, BandCounted, Zenon
<1>5. c = (IF pending = NoSkb THEN 0 ELSE 1) /\ c' = (IF pending' = NoSkb THEN 0 ELSE 1)
  BY InFlightCount
<1>6. c \in Int /\ c' \in Int
  BY <1>5
<1>7. ASSUME NEW w \in Int, Balance(d', a', i', t', p', c') = Balance(d, a, i, t, p, c) + w * U32
      PROVE  Unbalanced' = Unbalanced
  <2>1. Balance(d, a, i, t, p, c) \in Int
    BY <1>3, <1>4, <1>6 DEF Balance
  <2> HIDE DEF d, a, i, t, p, c
  <2> QED BY <1>1, <1>7, <2>1, ModMultiple
<1>8. ASSUME d' = d, a' = a, i' = i, t' = t, p' = p, c' = c PROVE Unbalanced' = Unbalanced
  BY <1>1, <1>8
<1>9. /\ \E w \in Int : Inc32(d) = d + 1 + w * U32
      /\ \E w \in Int : Inc32(a) = a + 1 + w * U32
      /\ \E w \in Int : Inc32(i) = i + 1 + w * U32
      /\ \E w \in Int : Inc32(p) = p + 1 + w * U32
  BY <1>2, IncWraps
<1>10. ASSUME NEW f \in Frames, EnqueueIllegal(f) PROVE Unbalanced' = Unbalanced
  <2>1. d' = Inc32(d) /\ c' = c
    BY <1>5, <1>10 DEF EnqueueIllegal, qdisc_drop
  <2>2. a' = a /\ i' = Inc32(i) /\ t' = t /\ p' = p
    BY <1>2, <1>10, ArrivalCounts, Zenon DEF EnqueueIllegal
  <2> HIDE DEF d, a, i, t, p, c
  <2>3. PICK w \in Int : Inc32(d) = d + 1 + w * U32
    BY <1>9
  <2>4. PICK v \in Int : Inc32(i) = i + 1 + v * U32
    BY <1>9
  <2>5. Balance(d', a', i', t', p', c') = Balance(d, a, i, t, p, c) + (w - v) * U32
    BY <1>3, <1>4, <1>6, <2>1, <2>2, <2>3, <2>4 DEF Balance
  <2> QED BY <1>7, <2>5
<1>11. ASSUME NEW f \in Frames, EnqueueRefuse(f) \/ EnqueueAdmit(f)
       PROVE  a' = a /\ i' = i /\ p' = p /\ \E w \in Int : t' = t + 1 + w * U32
  <2>1. NewSkb(f).priority \in Bands /\ pfab_stats' = CountBand(f)
    BY <1>11, NewSkbType DEF EnqueueRefuse, EnqueueAdmit, Arrives, TypeInv, TypeOK
  <2>2. /\ a' = a /\ i' = i /\ p' = p
        /\ pfab_stats'.per_band_packet_counter =
             [pfab_stats.per_band_packet_counter EXCEPT ![NewSkb(f).priority] = Inc32(@)]
    BY <1>2, <2>1, ArrivalCounts
  <2> QED BY <1>2, <2>1, <2>2, BandCounted
<1>12. ASSUME NEW f \in Frames, EnqueueRefuse(f) PROVE Unbalanced' = Unbalanced
  <2>1. d' = Inc32(d) /\ c' = c
    BY <1>5, <1>12 DEF EnqueueRefuse, qdisc_drop
  <2>2. PICK v \in Int : t' = t + 1 + v * U32
    BY <1>11, <1>12
  <2>3. a' = a /\ i' = i /\ p' = p
    BY <1>11, <1>12
  <2> HIDE DEF d, a, i, t, p, c
  <2>4. PICK w \in Int : Inc32(d) = d + 1 + w * U32
    BY <1>9
  <2>5. Balance(d', a', i', t', p', c') = Balance(d, a, i, t, p, c) + (w - v) * U32
    BY <1>3, <1>4, <1>6, <2>1, <2>2, <2>3, <2>4 DEF Balance
  <2> QED BY <1>7, <2>5
<1>13. ASSUME NEW f \in Frames, EnqueueAdmit(f) PROVE Unbalanced' = Unbalanced
  <2>1. pending' # NoSkb /\ pending = NoSkb /\ d' = d
    BY <1>13, NewSkbType, SkbType DEF EnqueueAdmit, Arrives, sch, TypeInv, TypeOK
  <2>2. c = 0 /\ c' = 1
    BY <1>5, <2>1
  <2>3. PICK v \in Int : t' = t + 1 + v * U32
    BY <1>11, <1>13
  <2>4. a' = a /\ i' = i /\ p' = p /\ d' = d
    BY <1>11, <1>13, <2>1
  <2> HIDE DEF d, a, i, t, p, c
  <2>5. Balance(d', a', i', t', p', c') = Balance(d, a, i, t, p, c) + (0 - v) * U32
    BY <1>3, <1>4, <2>2, <2>3, <2>4 DEF Balance
  <2> QED BY <1>7, <2>5
<1>14. ASSUME EnqueueFits PROVE Unbalanced' = Unbalanced
  <2>1. pending # NoSkb /\ pending' = NoSkb /\ pfab_stats' = QueuedStats /\ d' = d
    BY <1>14 DEF EnqueueFits
  <2>2. c = 1 /\ c' = 0
    BY <1>5, <2>1
  <2>3. a' = a /\ i' = i /\ t' = t /\ p' = Inc32(p) /\ d' = d
    BY <2>1, QueuedCounts
  <2> HIDE DEF d, a, i, t, p, c
  <2>4. PICK w \in Int : Inc32(p) = p + 1 + w * U32
    BY <1>9
  <2>5. Balance(d', a', i', t', p', c') = Balance(d, a, i, t, p, c) + w * U32
    BY <1>3, <1>4, <2>2, <2>3, <2>4 DEF Balance
  <2> QED BY <1>7, <2>5
<1>15. ASSUME EnqueueOverflow PROVE Unbalanced' = Unbalanced
  <2>1. /\ pending # NoSkb /\ pending' = NoSkb /\ d' = Inc32(d)
        /\ pfab_stats' = [QueuedStats EXCEPT !.drops = Inc32(@)]
    BY <1>15 DEF EnqueueOverflow, pfab_drop
  <2>2. c = 1 /\ c' = 0
    BY <1>5, <2>1
  <2>3. a' = Inc32(a) /\ i' = i /\ t' = t /\ p' = Inc32(p) /\ d' = Inc32(d)
    BY <2>1, QueuedCounts
  <2> HIDE DEF d, a, i, t, p, c
  <2>4. PICK u \in Int : Inc32(d) = d + 1 + u * U32
    BY <1>9
  <2>5. PICK v \in Int : Inc32(a) = a + 1 + v * U32
    BY <1>9
  <2>6. PICK w \in Int : Inc32(p) = p + 1 + w * U32
    BY <1>9
  <2>7. Balance(d', a', i', t', p', c') = Balance(d, a, i, t, p, c) + (u - v + w) * U32
    BY <1>3, <1>4, <2>2, <2>3, <2>4, <2>5, <2>6 DEF Balance
  <2> QED BY <1>7, <2>7
<1>16. ASSUME Dequeue PROVE Unbalanced' = Unbalanced
  <2>1. d' = d /\ c' = c
    BY <1>5, <1>16 DEF Dequeue
  <2>2. SameCounts(pfab_stats', pfab_stats)
    BY <1>2, <1>16 DEF Dequeue, CopyWord, StatsType, SameCounts
  <2> QED BY <1>8, <2>1, <2>2 DEF SameCounts
<1>17. ASSUME NEW opt \in Opts, Change(opt) PROVE Unbalanced' = Unbalanced
  <2>1. d' = d /\ c' = c
    BY <1>5, <1>17 DEF Change, sch
  <2>2. SameCounts(pfab_stats', pfab_stats)
    BY <1>2, <1>17 DEF Change, StatsType, SameCounts
  <2> QED BY <1>8, <2>1, <2>2 DEF SameCounts
<1>18. ASSUME DequeueNull \/ UNCHANGED vars PROVE Unbalanced' = Unbalanced
  <2>1. d' = d /\ c' = c /\ pfab_stats' = pfab_stats
    BY <1>5, <1>18 DEF DequeueNull, vars, sch
  <2> QED BY <1>8, <2>1
<1>19. ASSUME Reset PROVE pfab_stats' = ClearedStats
  BY <1>19 DEF Reset
<1> HIDE DEF d, a, i, t, p, c
<1> QED BY <1>10, <1>12, <1>13, <1>14, <1>15, <1>16, <1>17, <1>18, <1>19 DEF Next, Enqueue

(***************************************************************************)
(* Through every wrap of every counter, sch->qstats.drops and pfab_stats   *)
(* stay in balance: only the memset of pfab_reset changes the difference.  *)
(***************************************************************************)
THEOREM Balanced == Spec => CountersBalance
<1>1. TypeInv /\ TypeInv' /\ [Next]_vars
        => [Unbalanced' = Unbalanced \/ pfab_stats' = ClearedStats]_vars
  BY BalanceNext
<1> QED BY <1>1, TypeInvInit, TypeInvNext, PTL DEF Spec, CountersBalance
-----------------------------------------------------------------------------
(***************************************************************************)
(* The seven kinds of step below are all that most of the proofs that      *)
(* follow need to know of the handlers.                                    *)
(***************************************************************************)
qstate == <<queues, bitmap, qlen, pending, arrived, sent, freed, phantom>>

LoseNew ==
  /\ pending = NoSkb /\ arrived < MaxArrivals
  /\ \E f \in Frames :
       /\ freed' = freed \cup {NewSkb(f)}
       /\ LegalPriority(NewSkb(f)) => Refused(NewSkb(f))
  /\ arrived' = arrived + 1
  /\ UNCHANGED <<queues, bitmap, limit, qlen, pending, sent, phantom>>

Admit ==
  /\ pending = NoSkb /\ arrived < MaxArrivals
  /\ \E f \in Frames : pending' = NewSkb(f) /\ LegalPriority(NewSkb(f))
  /\ arrived' = arrived + 1
  /\ UNCHANGED <<queues, bitmap, limit, qlen, sent, freed, phantom>>

PutOne ==
  /\ pending # NoSkb /\ pending' = NoSkb
  /\ queues' = QueuedLists /\ bitmap' = QueuedBitmap
  /\ \/ qlen' = Inc32(qlen) /\ qlen' <= limit /\ phantom' = phantom
     \/ qlen' = qlen /\ phantom' = phantom + 1
  /\ UNCHANGED <<limit, arrived, sent, freed>>

PutEvict ==
  /\ pending # NoSkb /\ pending' = NoSkb
  /\ QueuedLists[DropBand] # <<>>
  /\ queues' = Tailed(QueuedLists, DropBand) /\ bitmap' = QueuedBitmap
  /\ freed' = freed \cup {Head(QueuedLists[DropBand])}
  /\ UNCHANGED <<limit, qlen, arrived, sent, phantom>>

TakeOne ==
  LET band == bitmap_high_prio(bitmap)
  IN  /\ pending = NoSkb
      /\ band \in Bands /\ queues[band] # <<>>
      /\ queues' = Tailed(queues, band)
      /\ bitmap' = IF Tail(queues[band]) = <<>> THEN bitmap_remove_band(bitmap, band) ELSE bitmap
      /\ qlen' = Dec32(qlen)
      /\ sent' = sent \cup {Head(queues[band])}
      /\ UNCHANGED <<limit, pending, arrived, freed, phantom>>

Purge ==
  /\ pending = NoSkb
  /\ queues' = [b \in Bands |-> <<>>]
  /\ qlen' = 0 /\ phantom' = 0
  /\ freed' = freed \cup Contents
  /\ UNCHANGED <<bitmap, limit, pending, arrived, sent>>

Retune ==
  /\ limit' = limit \/ \E opt \in Opts : limit' = opt.limit
  /\ UNCHANGED qstate

\* Every step of the qdisc is of one of the seven kinds.
LEMMA StepKinds ==
  ASSUME TypeInv, [Next]_vars
  PROVE  LoseNew \/ Admit \/ PutOne \/ PutEvict \/ TakeOne \/ Purge \/ Retune
<1>1. ASSUME NEW f \in Frames, EnqueueIllegal(f) PROVE LoseNew
  BY <1>1 DEF EnqueueIllegal, Arrives, qdisc_drop, LoseNew, data
<1>2. ASSUME NEW f \in Frames, EnqueueRefuse(f) PROVE LoseNew
  BY <1>2 DEF EnqueueRefuse, Arrives, qdisc_drop, LoseNew, data
<1>3. ASSUME NEW f \in Frames, EnqueueAdmit(f) PROVE Admit
  BY <1>3 DEF EnqueueAdmit, Arrives, Admit, data, sch
<1>4. ASSUME EnqueueFits PROVE PutOne
  BY <1>4 DEF EnqueueFits, PutOne, hist
<1>5. ASSUME EnqueueOverflow, DropHead PROVE PutEvict
  BY <1>5 DEF EnqueueOverflow, pfab_drop, DropHead, DropList, PutEvict, Tailed
<1>6. ASSUME EnqueueOverflow, DropNothing PROVE PutOne
  BY <1>6 DEF EnqueueOverflow, pfab_drop, DropNothing, PutOne
<1>7. ASSUME Dequeue PROVE TakeOne
  <2>1. bitmap_high_prio(bitmap) \in Bands
    BY <1>7, HighBand DEF Dequeue, CanDequeue
  <2> QED BY <1>7, <2>1 DEF Dequeue, CanDequeue, HighList, TakeOne, Tailed
<1>8. ASSUME DequeueNull PROVE Retune
  BY <1>8 DEF DequeueNull, Retune, qstate, data, sch, hist
<1>9. ASSUME NEW opt \in Opts, Change(opt) PROVE Retune
  BY <1>9 DEF Change, Retune, qstate, sch, hist
<1>10. ASSUME Reset PROVE Purge
  BY <1>10 DEF Reset, Purge
<1>11. ASSUME UNCHANGED vars PROVE Retune
  BY <1>11 DEF vars, Retune, qstate, data, sch, hist
<1> QED BY <1>1, <1>2, <1>3, <1>4, <1>5, <1>6, <1>7, <1>8, <1>9, <1>10, <1>11
        DEF Next, Enqueue, EnqueueOverflow

(***************************************************************************)
(* A band that holds a packet keeps its bit through every handler, so no   *)
(* scan of the bitmap overlooks a packet.                                  *)
(***************************************************************************)
LEMMA CoversNext ==
  ASSUME TypeInv, BitmapCoversQueues, [Next]_vars
  PROVE  BitmapCoversQueues'
<1>0. queues \in Lists /\ bitmap \in Bitmap
  BY DEF TypeInv, TypeOK, Lists
<1>1. CASE UNCHANGED <<queues, bitmap>>
  BY <1>1 DEF BitmapCoversQueues
<1>2. CASE PutOne
  <2>1. \A c \in Bands : c # pending.priority => queues'[c] = queues[c]
    BY <1>2, QueuedListsAppended, AppendShape DEF PutOne
  <2>2. SetBands(bitmap') = SetBands(bitmap) \cup {pending.priority}
    BY <1>2, DropFindsBand DEF PutOne
  <2> QED BY <2>1, <2>2 DEF BitmapCoversQueues
<1>3. CASE PutEvict
  <2>1. \A c \in Bands : c # pending.priority => QueuedLists[c] = queues[c]
    BY <1>3, QueuedListsAppended, AppendShape DEF PutEvict
  <2>2. \A c \in Bands : c # DropBand => queues'[c] = QueuedLists[c]
    BY <1>3, QueuedListsAppended, DropFindsBand, TailShape DEF PutEvict
  <2>3. /\ SetBands(bitmap') = SetBands(bitmap) \cup {pending.priority}
        /\ DropBand \in SetBands(bitmap')
    BY <1>3, DropFindsBand DEF PutEvict
  <2> QED BY <2>1, <2>2, <2>3 DEF BitmapCoversQueues
<1>4. CASE TakeOne
  <2> DEFINE band == bitmap_high_prio(bitmap)
  <2>1. /\ \A c \in Bands : c # band => queues'[c] = queues[c]
        /\ queues'[band] = Tail(queues[band])
    BY <1>0, <1>4, TailShape, Zenon DEF TakeOne
  <2>2. /\ \A c \in Bands : c # band /\ c \in SetBands(bitmap) => c \in SetBands(bitmap')
        /\ Tail(queues[band]) # <<>> => bitmap' = bitmap
    BY <1>0, <1>4, RemoveBandEffect DEF TakeOne
  <2>3. band \in Bands /\ queues[band] # <<>>
    BY <1>4 DEF TakeOne
  <2> HIDE DEF band
  <2> QED BY <2>1, <2>2, <2>3, Zenon DEF BitmapCoversQueues
<1>5. CASE Purge
  BY <1>5 DEF Purge, BitmapCoversQueues
<1> QED BY <1>1, <1>2, <1>3, <1>4, <1>5, StepKinds DEF LoseNew, Admit, Retune, qstate

-----------------------------------------------------------------------------
(***************************************************************************)
(* Ownership.  Distinct and Placed are the last two conjuncts of           *)
(* OwnedOnce, for any array of lists.                                      *)
(***************************************************************************)
Distinct(q) ==
  \A b, c \in Bands : \A i \in DOMAIN q[b], j \in DOMAIN q[c] :
    q[b][i].id = q[c][j].id => b = c /\ i = j

Placed(q) == \A b \in Bands : \A i \in DOMAIN q[b] : q[b][i].priority = b

QueuedIds(q) == Ids(PacketsIn(q))

\* The members of QueuedIds.
LEMMA QueuedIdsMember ==
  ASSUME NEW q, NEW n
  PROVE  n \in QueuedIds(q) <=> \E b \in Bands : \E i \in DOMAIN q[b] : n = q[b][i].id
<1>1. n \in QueuedIds(q) <=> \E y \in PacketsIn(q) : n = y.id
  BY DEF QueuedIds, Ids
<1>2. ASSUME n \in QueuedIds(q) PROVE \E b \in Bands : \E i \in DOMAIN q[b] : n = q[b][i].id
  <2>1. PICK y \in PacketsIn(q) : n = y.id
    BY <1>1, <1>2
  <2>2. \E b \in Bands : \E i \in DOMAIN q[b] : y = q[b][i]
    BY <2>1, PacketsInMember
  <2> QED BY <2>1, <2>2
<1>3. ASSUME NEW b \in Bands, NEW i \in DOMAIN q[b], n = q[b][i].id PROVE n \in QueuedIds(q)
  <2>1. q[b][i] \in PacketsIn(q)
    BY PacketsInMember
  <2> QED BY <1>1, <1>3, <2>1
<1> QED BY <1>2, <1>3

\* Appending a packet with a new id keeps ids distinct.
LEMMA AppendOwned ==
  ASSUME NEW q \in Lists, NEW b \in Bands, NEW x \in Skb, x.priority = b,
         Distinct(q), Placed(q), x.id \notin QueuedIds(q)
  PROVE  /\ Distinct(Appended(q, b, x)) /\ Placed(Appended(q, b, x))
         /\ \A n : n \in QueuedIds(Appended(q, b, x)) <=> n \in QueuedIds(q) \/ n = x.id
<1> DEFINE r == Appended(q, b, x)
<1>0. /\ \A c \in Bands : c # b => r[c] = q[c]
      /\ DOMAIN q[b] = 1 .. Len(q[b]) /\ Len(q[b]) \in Nat
      /\ DOMAIN r[b] = 1 .. Len(q[b]) + 1
      /\ \A i \in DOMAIN q[b] : r[b][i] = q[b][i]
      /\ r[b][Len(q[b]) + 1] = x
  BY AppendShape, ListShape
<1>1. \A n : n \in QueuedIds(r) <=> n \in QueuedIds(q) \/ n = x.id
  BY AppendPackets DEF QueuedIds, Ids
<1> HIDE DEF r
<1>2. ASSUME NEW c \in Bands, NEW i \in DOMAIN r[c], ~ (c = b /\ i = Len(q[b]) + 1)
      PROVE  i \in DOMAIN q[c] /\ r[c][i] = q[c][i]
  BY <1>0, <1>2
<1>3. Placed(r)
  BY <1>0, <1>2 DEF Placed
<1>4. ASSUME NEW c \in Bands, NEW i \in DOMAIN r[c], r[c][i].id = x.id
      PROVE  c = b /\ i = Len(q[b]) + 1
  BY <1>2, <1>4, QueuedIdsMember
<1>5. Distinct(r)
  <2> SUFFICES ASSUME NEW c \in Bands, NEW d \in Bands,
                      NEW i \in DOMAIN r[c], NEW j \in DOMAIN r[d],
                      r[c][i].id = r[d][j].id
               PROVE  c = d /\ i = j
    BY DEF Distinct
  <2>1. CASE c = b /\ i = Len(q[b]) + 1
    BY <1>0, <1>4, <2>1
  <2>2. CASE d = b /\ j = Len(q[b]) + 1
    BY <1>0, <1>4, <2>2
  <2>3. CASE ~ (c = b /\ i = Len(q[b]) + 1) /\ ~ (d = b /\ j = Len(q[b]) + 1)
    BY <1>2, <2>3 DEF Distinct
  <2> QED BY <2>1, <2>2, <2>3
<1> QED BY <1>1, <1>3, <1>5 DEF r

\* Taking the head removes its id and keeps the others distinct.
LEMMA TailOwned ==
  ASSUME NEW q \in Lists, NEW b \in Bands, q[b] # <<>>, Distinct(q), Placed(q)
  PROVE  /\ Distinct(Tailed(q, b)) /\ Placed(Tailed(q, b))
         /\ Head(q[b]).priority = b
         /\ Head(q[b]).id \notin QueuedIds(Tailed(q, b))
         /\ \A n : n \in QueuedIds(q) <=> n \in QueuedIds(Tailed(q, b)) \/ n = Head(q[b]).id
<1> DEFINE r == Tailed(q, b)
           up(c, i) == IF c = b THEN i + 1 ELSE i
<1>0. /\ \A c \in Bands : c # b => r[c] = q[c]
      /\ DOMAIN q[b] = 1 .. Len(q[b]) /\ Len(q[b]) \in Nat \ {0}
      /\ DOMAIN r[b] = 1 .. Len(q[b]) - 1
      /\ \A i \in DOMAIN r[b] : r[b][i] = q[b][i + 1]
      /\ Head(q[b]) = q[b][1]
  BY TailShape, ListShape
<1>1. \A n : n \in QueuedIds(q) <=> n \in QueuedIds(r) \/ n = Head(q[b]).id
  BY TailPackets DEF QueuedIds, Ids
<1> HIDE DEF r
<1>2. ASSUME NEW c \in Bands, NEW i \in DOMAIN r[c]
      PROVE  up(c, i) \in DOMAIN q[c] /\ r[c][i] = q[c][up(c, i)] /\ (c = b => i \in Nat \ {0})
  BY <1>0, <1>2
<1>3. Placed(r) /\ Head(q[b]).priority = b
  <2>1. 1 \in DOMAIN q[b]
    BY <1>0
  <2>2. Head(q[b]).priority = b
    BY <1>0, <2>1 DEF Placed
  <2>3. Placed(r)
    BY <1>2 DEF Placed
  <2> QED BY <2>2, <2>3
<1>4. Distinct(r)
  <2> SUFFICES ASSUME NEW c \in Bands, NEW d \in Bands,
                      NEW i \in DOMAIN r[c], NEW j \in DOMAIN r[d],
                      r[c][i].id = r[d][j].id
               PROVE  c = d /\ i = j
    BY DEF Distinct
  <2>1. c = d /\ up(c, i) = up(d, j)
    BY <1>2 DEF Distinct
  <2> QED BY <1>2, <2>1
<1>5. ASSUME Head(q[b]).id \in QueuedIds(r) PROVE FALSE
  <2>1. PICK c \in Bands : \E i \in DOMAIN r[c] : Head(q[b]).id = r[c][i].id
    BY <1>5, QueuedIdsMember
  <2>2. PICK i \in DOMAIN r[c] : Head(q[b]).id = r[c][i].id
    BY <2>1
  <2>3. 1 \in DOMAIN q[b] /\ q[b][1].id = q[c][up(c, i)].id
    BY <1>0, <1>2, <2>2
  <2>4. c = b /\ up(c, i) = 1
    BY <1>2, <2>3 DEF Distinct
  <2> QED BY <1>2, <2>4
<1> QED BY <1>1, <1>3, <1>4, <1>5 DEF r

\* The packet inside pfab_enqueue is the last that arrived.
LEMMA InFlightIds ==
  ASSUME TypeInv
  PROVE  /\ pending = NoSkb => Ids(InFlight) = {}
         /\ pending # NoSkb => Ids(InFlight) = {arrived}
  BY DEF TypeInv, PendingOK, Ids, InFlight

\* The ids of a set with one more packet.
LEMMA IdsAdd ==
  ASSUME NEW A, NEW x
  PROVE  Ids(A \cup {x}) = Ids(A) \cup {x.id}
  BY DEF Ids

\* The ids of a union.
LEMMA IdsUnion ==
  ASSUME NEW A, NEW B
  PROVE  Ids(A \cup B) = Ids(A) \cup Ids(B)
  BY DEF Ids

\* Every kind of step passes each skb from one owner to one owner.
LEMMA OwnedNext ==
  ASSUME TypeInv, TypeInv', OwnedOnce, [Next]_vars
  PROVE  OwnedOnce'
<1> DEFINE P == Ids(InFlight)
           C == QueuedIds(queues)
           S == Ids(sent)
           F == Ids(freed)
<1>1. /\ P \cup C \cup S \cup F = 1 .. arrived
      /\ P \cap (C \cup S \cup F) = {} /\ C \cap (S \cup F) = {} /\ S \cap F = {}
      /\ Distinct(queues) /\ Placed(queues)
  BY DEF OwnedOnce, QueuedIds, Contents, Distinct, Placed
<1>2. ASSUME /\ P' \cup C' \cup S' \cup F' = 1 .. arrived'
             /\ P' \cap (C' \cup S' \cup F') = {}
             /\ C' \cap (S' \cup F') = {} /\ S' \cap F' = {}
             /\ Distinct(queues') /\ Placed(queues')
      PROVE  OwnedOnce'
  BY <1>2 DEF OwnedOnce, QueuedIds, Contents, Distinct, Placed
<1>3. queues \in Lists /\ arrived \in Nat
  BY DEF TypeInv, TypeOK, Lists
<1>4. /\ P = IF pending = NoSkb THEN {} ELSE {arrived}
      /\ P' = IF pending' = NoSkb THEN {} ELSE {arrived'}
  BY InFlightIds DEF TypeInv, PendingOK, Ids, InFlight
<1> HIDE DEF P
<1>5. CASE LoseNew
  <2>1. C' = C /\ S' = S /\ F' = F \cup {arrived + 1} /\ arrived' = arrived + 1
    <3>1. PICK f \in Frames : freed' = freed \cup {NewSkb(f)}
      BY <1>5 DEF LoseNew
    <3>2. NewSkb(f).id = arrived + 1
      BY DEF NewSkb
    <3> QED BY <1>5, <3>1, <3>2, IdsAdd DEF LoseNew
  <2>2. P = {} /\ P' = {} /\ Distinct(queues') /\ Placed(queues')
    BY <1>1, <1>4, <1>5 DEF LoseNew
  <2> HIDE DEF C, S, F
  <2>3. 1 .. arrived + 1 = (1 .. arrived) \cup {arrived + 1} /\ arrived + 1 \notin 1 .. arrived
    BY <1>3
  <2>4. /\ P' \cup C' \cup S' \cup F' = 1 .. arrived'
        /\ P' \cap (C' \cup S' \cup F') = {}
        /\ C' \cap (S' \cup F') = {} /\ S' \cap F' = {}
    BY <1>1, <2>1, <2>2, <2>3
  <2> QED BY <1>2, <2>2, <2>4 DEF C, S, F
<1>6. CASE Admit
  <2>1. C' = C /\ S' = S /\ F' = F /\ arrived' = arrived + 1 /\ pending' # NoSkb
    <3>1. pending' # NoSkb
      BY <1>6, NewSkbType, SkbType DEF Admit, TypeInv, TypeOK
    <3> QED BY <1>6, <3>1 DEF Admit
  <2>2. P = {} /\ P' = {arrived + 1} /\ Distinct(queues') /\ Placed(queues')
    BY <1>1, <1>4, <1>6, <2>1, Zenon DEF Admit
  <2> HIDE DEF C, S, F
  <2>3. 1 .. arrived + 1 = (1 .. arrived) \cup {arrived + 1} /\ arrived + 1 \notin 1 .. arrived
    BY <1>3
  <2>4. /\ P' \cup C' \cup S' \cup F' = 1 .. arrived'
        /\ P' \cap (C' \cup S' \cup F') = {}
        /\ C' \cap (S' \cup F') = {} /\ S' \cap F' = {}
    BY <1>1, <2>1, <2>2, <2>3
  <2> QED BY <1>2, <2>2, <2>4 DEF C, S, F
<1>7. ASSUME pending # NoSkb
      PROVE  /\ Distinct(QueuedLists) /\ Placed(QueuedLists)
             /\ QueuedIds(QueuedLists) = C \cup {arrived}
             /\ P = {arrived} /\ QueuedLists \in Lists
  <2>1. /\ pending.priority \in Bands /\ pending \in Skb
        /\ QueuedLists = Appended(queues, pending.priority, pending)
        /\ QueuedLists \in Lists /\ pending.id = arrived
    BY <1>7, QueuedListsAppended DEF TypeInv, PendingOK
  <2>2. P = {arrived}
    BY <1>4, <1>7
  <2>3. pending.id \notin QueuedIds(queues)
    BY <1>1, <2>1, <2>2
  <2>4. /\ Distinct(QueuedLists) /\ Placed(QueuedLists)
        /\ \A n : n \in QueuedIds(QueuedLists) <=> n \in QueuedIds(queues) \/ n = pending.id
    BY <1>1, <1>3, <2>1, <2>3, AppendOwned, Zenon
  <2>5. QueuedIds(QueuedLists) = C \cup {arrived}
    BY <2>1, <2>4
  <2> QED BY <2>1, <2>2, <2>4, <2>5
<1>8. CASE PutOne
  <2>1. /\ C' = C \cup {arrived} /\ S' = S /\ F' = F /\ arrived' = arrived
        /\ P = {arrived} /\ P' = {} /\ Distinct(queues') /\ Placed(queues')
    BY <1>4, <1>7, <1>8 DEF PutOne
  <2> HIDE DEF C, S, F
  <2>2. /\ P' \cup C' \cup S' \cup F' = 1 .. arrived'
        /\ P' \cap (C' \cup S' \cup F') = {}
        /\ C' \cap (S' \cup F') = {} /\ S' \cap F' = {}
    BY <1>1, <2>1
  <2> QED BY <1>2, <2>1, <2>2, Zenon DEF C, S, F
<1>9. CASE PutEvict
  <2> DEFINE h == Head(QueuedLists[DropBand])
  <2>1. DropBand \in Bands /\ QueuedLists[DropBand] # <<>> /\ queues' = Tailed(QueuedLists, DropBand)
    BY <1>9, DropFindsBand DEF PutEvict
  <2>2. /\ Distinct(queues') /\ Placed(queues')
        /\ h.id \notin C'
        /\ \A n : n \in QueuedIds(QueuedLists) <=> n \in C' \/ n = h.id
    BY <1>7, <1>9, <2>1, TailOwned DEF PutEvict
  <2>3. S' = S /\ F' = F \cup {h.id} /\ arrived' = arrived /\ P' = {}
    BY <1>4, <1>9, IdsAdd, Zenon DEF PutEvict
  <2>4. C \cup {arrived} = C' \cup {h.id} /\ P = {arrived}
    BY <1>7, <1>9, <2>2 DEF PutEvict
  <2> HIDE DEF C, S, F, h
  <2>5. /\ P' \cup C' \cup S' \cup F' = 1 .. arrived'
        /\ P' \cap (C' \cup S' \cup F') = {}
        /\ C' \cap (S' \cup F') = {} /\ S' \cap F' = {}
    BY <1>1, <2>2, <2>3, <2>4
  <2> QED BY <1>2, <2>2, <2>5 DEF C, S, F
<1>10. CASE TakeOne
  <2> DEFINE band == bitmap_high_prio(bitmap)
             h == Head(queues[band])
  <2>1. band \in Bands /\ queues[band] # <<>> /\ queues' = Tailed(queues, band)
    BY <1>10 DEF TakeOne
  <2>2. /\ Distinct(queues') /\ Placed(queues')
        /\ h.id \notin C'
        /\ \A n : n \in C <=> n \in C' \/ n = h.id
    BY <1>1, <1>3, <2>1, TailOwned
  <2>3. S' = S \cup {h.id} /\ F' = F /\ arrived' = arrived /\ P = {} /\ P' = {}
    BY <1>4, <1>10, IdsAdd, Zenon DEF TakeOne
  <2> HIDE DEF C, S, F, h
  <2>4. C = C' \cup {h.id}
    BY <2>2
  <2>5. /\ P' \cup C' \cup S' \cup F' = 1 .. arrived'
        /\ P' \cap (C' \cup S' \cup F') = {}
        /\ C' \cap (S' \cup F') = {} /\ S' \cap F' = {}
    BY <1>1, <2>2, <2>3, <2>4
  <2> QED BY <1>2, <2>2, <2>5 DEF C, S, F
<1>11. CASE Purge
  <2>1. S' = S /\ F' = F \cup C /\ arrived' = arrived /\ P = {} /\ P' = {}
    BY <1>4, <1>11, IdsUnion DEF Purge, QueuedIds, Contents
  <2>2. \A b \in Bands : DOMAIN queues'[b] = {}
    BY <1>11 DEF Purge
  <2>3. C' = {} /\ Distinct(queues') /\ Placed(queues')
    BY <2>2, QueuedIdsMember DEF Distinct, Placed
  <2> HIDE DEF C, S, F
  <2>4. /\ P' \cup C' \cup S' \cup F' = 1 .. arrived'
        /\ P' \cap (C' \cup S' \cup F') = {}
        /\ C' \cap (S' \cup F') = {} /\ S' \cap F' = {}
    BY <1>1, <2>1, <2>3
  <2> QED BY <1>2, <2>3, <2>4 DEF C, S, F
<1>12. CASE Retune
  <2>1. queues' = queues /\ pending' = pending /\ arrived' = arrived /\ S' = S /\ F' = F
    BY <1>12 DEF Retune, qstate
  <2>2. P' = P /\ C' = C /\ Distinct(queues') /\ Placed(queues')
    BY <1>1, <1>4, <2>1
  <2> HIDE DEF C, S, F
  <2> QED BY <1>1, <1>2, <2>1, <2>2
<1> QED BY <1>5, <1>6, <1>8, <1>9, <1>10, <1>11, <1>12, StepKinds

(***************************************************************************)
(* The inductive invariant the remaining proofs start from.                *)
(***************************************************************************)
SafeInv == TypeInv /\ BitmapCoversQueues /\ OwnedOnce

\* pfab_init establishes the invariant.
LEMMA SafeInvInit == Init => SafeInv
<1> SUFFICES ASSUME Init PROVE SafeInv
  OBVIOUS
<1>1. /\ queues = [b \in Bands |-> <<>>] /\ pending = NoSkb
      /\ arrived = 0 /\ sent = {} /\ freed = {}
  BY DEF Init, pfab_init
<1>2. \A b \in Bands : DOMAIN queues[b] = {}
  BY <1>1
<1>3. Contents = {}
  BY <1>2, PacketsInMember DEF Contents
<1>4. OwnedOnce
  BY <1>1, <1>2, <1>3 DEF OwnedOnce, Ids, InFlight
<1>5. BitmapCoversQueues
  BY <1>1 DEF BitmapCoversQueues
<1> QED BY <1>4, <1>5, TypeInvInit DEF SafeInv

\* Every operation of the qdisc keeps the invariant.
LEMMA SafeInvNext == SafeInv /\ [Next]_vars => SafeInv'
  BY TypeInvNext, CoversNext, OwnedNext DEF SafeInv

\* The invariant holds in every reachable state.
LEMMA Safe == Spec => []SafeInv
  BY SafeInvInit, SafeInvNext, PTL DEF Spec

(***************************************************************************)
(* No scan of the bitmap overlooks a queued packet.                        *)
(***************************************************************************)
THEOREM BitmapCovers == Spec => []BitmapCoversQueues
<1>1. SafeInv => BitmapCoversQueues
  BY DEF SafeInv
<1> QED BY <1>1, Safe, PTL

(***************************************************************************)
(* pfab_enqueue, pfab_dequeue, pfab_drop and pfab_reset neither leak an    *)
(* skb nor free or send one twice.                                         *)
(***************************************************************************)
THEOREM Ownership == Spec => []OwnedOnce
<1>1. SafeInv => OwnedOnce
  BY DEF SafeInv
<1> QED BY <1>1, Safe, PTL
-----------------------------------------------------------------------------
(***************************************************************************)
(* What the counting parts of pfab_enqueue leave alone in pfab_stats, and  *)
(* what queuing a packet writes there.                                     *)
(***************************************************************************)
SameShown(s, t) ==
  s.limit = t.limit /\ s.disable_dequeue = t.disable_dequeue /\ s.bitmap = t.bitmap

LEMMA CountsShowSame ==
  ASSUME pfab_stats \in StatsType, NEW f \in Frames
  PROVE  /\ SameShown(CountNonIp(f), pfab_stats)
         /\ SameShown([CountNonIp(f) EXCEPT !.illegal_prio_occurance = Inc32(@)], pfab_stats)
         /\ SameShown(CountBand(f), pfab_stats)
<1>1. /\ SameShown(CountNonIp(f), pfab_stats)
      /\ DOMAIN CountNonIp(f) = DOMAIN pfab_stats
  BY DEF SameShown, CountNonIp, StatsType
<1> QED BY <1>1 DEF SameShown, CountBand, StatsType

\* CopyWord changes one word of the published bitmap and nothing else.
LEMMA CopyWordShows ==
  ASSUME NEW s \in StatsType, NEW bm \in Bitmap, NEW band \in Bands
  PROVE  LET c == CopyWord(s, bm, band)
         IN  /\ c.limit = s.limit /\ c.disable_dequeue = s.disable_dequeue
             /\ c.bitmap = [s.bitmap EXCEPT ![BandBMap(band)] = bm[BandBMap(band)]]
  BY DEF CopyWord, StatsType

\* The words of bands are words of the bitmap.
LEMMA BandWords == \A b \in Bands : BandBMap(b) \in Words
  BY BandPlace

(***************************************************************************)
(* Copying the word of one band keeps the published bitmap right for every *)
(* band that has a packet.                                                 *)
(***************************************************************************)
LEMMA CopyKeepsWords ==
  ASSUME NEW old \in Bitmap, NEW new \in Bitmap, NEW shown \in Bitmap, NEW band \in Bands,
         \A w \in Words : w # BandBMap(band) => new[w] = old[w],
         NEW b \in Bands, b = band \/ shown[BandBMap(b)] = old[BandBMap(b)]
  PROVE  [shown EXCEPT ![BandBMap(band)] = new[BandBMap(band)]][BandBMap(b)] = new[BandBMap(b)]
<1>1. BandBMap(b) \in Words /\ BandBMap(band) \in Words
  BY BandWords
<1> QED BY <1>1 DEF Bitmap

\* Every operation keeps what /proc shows in step with the qdisc.
LEMMA ReflectNext ==
  ASSUME TypeInv, StatsReflectQdisc, [Next]_vars
  PROVE  StatsReflectQdisc'
<1>0. /\ queues \in Lists /\ bitmap \in Bitmap /\ pfab_stats \in StatsType
      /\ pfab_stats.bitmap \in Bitmap
  BY DEF TypeInv, TypeOK, Lists, StatsType
<1>s. ASSUME SameShown(pfab_stats', pfab_stats), UNCHANGED <<queues, bitmap, limit, disable_dequeue>>
      PROVE  StatsReflectQdisc'
  BY <1>s DEF SameShown, StatsReflectQdisc
<1>c. ASSUME NEW band \in Bands, bitmap' \in Bitmap,
             pfab_stats'.limit = pfab_stats.limit,
             pfab_stats'.disable_dequeue = pfab_stats.disable_dequeue,
             pfab_stats'.bitmap =
               [pfab_stats.bitmap EXCEPT ![BandBMap(band)] = bitmap'[BandBMap(band)]],
             \A w \in Words : w # BandBMap(band) => bitmap'[w] = bitmap[w],
             \A b \in Bands : b # band /\ queues'[b] # <<>> => queues[b] # <<>>,
             UNCHANGED <<limit, disable_dequeue>>
      PROVE  StatsReflectQdisc'
  <2>1. ASSUME NEW b \in Bands, queues'[b] # <<>>
        PROVE  pfab_stats'.bitmap[BandBMap(b)] = bitmap'[BandBMap(b)]
    <3>1. b = band \/ pfab_stats.bitmap[BandBMap(b)] = bitmap[BandBMap(b)]
      BY <1>c, <2>1 DEF StatsReflectQdisc
    <3> QED BY <1>0, <1>c, <3>1, CopyKeepsWords
  <2> QED BY <1>c, <2>1 DEF StatsReflectQdisc
<1>1. ASSUME NEW f \in Frames, EnqueueIllegal(f) \/ EnqueueRefuse(f) \/ EnqueueAdmit(f)
      PROVE  StatsReflectQdisc'
  <2>1. UNCHANGED <<queues, bitmap, limit, disable_dequeue>>
    BY <1>1 DEF EnqueueIllegal, EnqueueRefuse, EnqueueAdmit, data
  <2>2. \/ pfab_stats' = [CountNonIp(f) EXCEPT !.illegal_prio_occurance = Inc32(@)]
        \/ pfab_stats' = CountBand(f)
    BY <1>1 DEF EnqueueIllegal, EnqueueRefuse, EnqueueAdmit
  <2>3. /\ SameShown([CountNonIp(f) EXCEPT !.illegal_prio_occurance = Inc32(@)], pfab_stats)
        /\ SameShown(CountBand(f), pfab_stats)
    BY <1>0, CountsShowSame
  <2>4. SameShown(pfab_stats', pfab_stats)
    BY <2>2, <2>3, Zenon
  <2> QED BY <1>s, <2>1, <2>4
<1>2. ASSUME pending # NoSkb, bitmap' = QueuedBitmap, UNCHANGED <<limit, disable_dequeue>>,
             SameShown(pfab_stats', QueuedStats),
             \A b \in Bands : b # pending.priority /\ queues'[b] # <<>> => queues[b] # <<>>
      PROVE  StatsReflectQdisc'
  <2>1. pending.priority \in Bands /\ QueuedBitmap \in Bitmap
    BY <1>2, QueuedListsAppended, DropFindsBand
  <2>2. \A w \in Words : w # BandBMap(pending.priority) => QueuedBitmap[w] = bitmap[w]
    BY <1>0 DEF QueuedBitmap, bitmap_add_band, Bitmap
  <2> DEFINE c == CopyWord(pfab_stats, QueuedBitmap, pending.priority)
  <2>3. c \in StatsType
    BY <1>0, <2>1, StatsTypes
  <2>4. SameShown(QueuedStats, c)
    <3> HIDE DEF c
    <3>1. QueuedStats = [c EXCEPT !.bytes = @ + pending.len, !.packets = Inc32(@)]
      BY DEF QueuedStats, c
    <3> QED BY <2>3, <3>1 DEF SameShown, StatsType
  <2>5. /\ c.limit = pfab_stats.limit /\ c.disable_dequeue = pfab_stats.disable_dequeue
        /\ c.bitmap = [pfab_stats.bitmap EXCEPT ![BandBMap(pending.priority)] =
                          QueuedBitmap[BandBMap(pending.priority)]]
    BY <1>0, <2>1, CopyWordShows
  <2> HIDE DEF c
  <2> QED BY <1>2, <1>c, <2>1, <2>2, <2>4, <2>5 DEF SameShown
<1>3. ASSUME EnqueueFits PROVE StatsReflectQdisc'
  <2>1. \A b \in Bands : b # pending.priority => queues'[b] = queues[b]
    BY <1>3, QueuedListsAppended, AppendShape DEF EnqueueFits
  <2> QED BY <1>2, <1>3, <2>1 DEF EnqueueFits, SameShown
<1>4. ASSUME EnqueueOverflow PROVE StatsReflectQdisc'
  <2>1. \A b \in Bands : b # pending.priority => QueuedLists[b] = queues[b]
    BY <1>4, QueuedListsAppended, AppendShape DEF EnqueueOverflow
  <2>2. \A b \in Bands : queues'[b] # <<>> => QueuedLists[b] # <<>>
    <3>1. CASE DropNothing
      BY <3>1 DEF DropNothing
    <3>2. CASE DropHead
      <4>1. DropList # <<>> /\ queues' = Tailed(QueuedLists, DropBand)
        BY <3>2 DEF DropHead, Tailed
      <4>2. \A b \in Bands : b # DropBand => queues'[b] = QueuedLists[b]
        BY <1>4, <4>1, QueuedListsAppended, DropFindsBand, TailShape DEF EnqueueOverflow, DropList
      <4> QED BY <4>1, <4>2 DEF DropList
    <3> QED BY <1>4, <3>1, <3>2 DEF EnqueueOverflow
  <2>3. SameShown(pfab_stats', QueuedStats)
    <3>1. QueuedStats \in StatsType
      BY <1>4, QueuedStatsType DEF EnqueueOverflow
    <3> QED BY <1>4, <3>1 DEF EnqueueOverflow, pfab_drop, SameShown, StatsType
  <2> QED BY <1>2, <1>4, <2>1, <2>2, <2>3 DEF EnqueueOverflow, pfab_drop
<1>5. ASSUME Dequeue PROVE StatsReflectQdisc'
  <2> DEFINE band == bitmap_high_prio(bitmap)
  <2>1. band \in Bands
    BY <1>5, HighBand DEF Dequeue, CanDequeue
  <2>2. queues' = Tailed(queues, band) /\ queues[band] # <<>>
    BY <1>5 DEF Dequeue, CanDequeue, HighList, Tailed
  <2>3. \A b \in Bands : b # band => queues'[b] = queues[b]
    BY <1>0, <2>1, <2>2, TailShape
  <2>4. CASE UNCHANGED <<bitmap, pfab_stats>>
    <3>1. \A b \in Bands : queues'[b] # <<>> => queues[b] # <<>>
      BY <2>2, <2>3
    <3> QED BY <1>5, <2>4, <3>1 DEF Dequeue, StatsReflectQdisc
  <2>5. CASE /\ bitmap' = bitmap_remove_band(bitmap, band)
             /\ pfab_stats' = CopyWord(pfab_stats, bitmap', band)
    <3>1. bitmap' \in Bitmap
      BY TypeInvNext DEF TypeInv, TypeOK
    <3>2. \A w \in Words : w # BandBMap(band) => bitmap'[w] = bitmap[w]
      BY <1>0, <2>5 DEF bitmap_remove_band, Bitmap
    <3>3. limit' = limit /\ disable_dequeue' = disable_dequeue
      BY <1>5 DEF Dequeue
    <3>4. /\ pfab_stats'.limit = pfab_stats.limit
          /\ pfab_stats'.disable_dequeue = pfab_stats.disable_dequeue
          /\ pfab_stats'.bitmap =
               [pfab_stats.bitmap EXCEPT ![BandBMap(band)] = bitmap'[BandBMap(band)]]
      <4> HIDE DEF band
      <4> QED BY <1>0, <2>1, <2>5, <3>1, CopyWordShows
    <3> HIDE DEF band
    <3> QED BY <1>c, <2>1, <2>3, <3>1, <3>2, <3>3, <3>4, Zenon
  <2> QED BY <1>5, <2>4, <2>5 DEF Dequeue
<1>6. ASSUME NEW opt \in Opts, Change(opt) PROVE StatsReflectQdisc'
  BY <1>0, <1>6 DEF Change, StatsReflectQdisc, StatsType
<1>7. ASSUME Reset PROVE StatsReflectQdisc'
  BY <1>7, Zenon DEF Reset, ClearedStats, StatsReflectQdisc
<1>8. ASSUME DequeueNull \/ UNCHANGED vars PROVE StatsReflectQdisc'
  BY <1>8, <1>s DEF DequeueNull, vars, data, SameShown
<1> QED BY <1>1, <1>3, <1>4, <1>5, <1>6, <1>7, <1>8 DEF Next, Enqueue

(***************************************************************************)
(* pfab_stats shows the options and the words of the bitmap as they are,   *)
(* up to the defaults that pfab_reset publishes.                           *)
(***************************************************************************)
THEOREM StatsReflect == Spec => []StatsReflectQdisc
<1>1. Init => StatsReflectQdisc
  <2> SUFFICES ASSUME NEW opt, pfab_init(opt) PROVE StatsReflectQdisc
    BY DEF Init
  <2> QED BY DEF pfab_init, ClearedStats, StatsReflectQdisc
<1>2. SafeInv /\ StatsReflectQdisc /\ [Next]_vars => StatsReflectQdisc'
  BY ReflectNext DEF SafeInv
<1> QED BY <1>1, <1>2, Safe, PTL DEF Spec
=============================================================================
