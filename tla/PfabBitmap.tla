----------------------------- MODULE PfabBitmap -----------------------------
(***************************************************************************)
(* The occupancy bitmap of the pFabric queueing discipline (sch_pfab.c).   *)
(*                                                                         *)
(* The code keeps one bit per priority band in an array of u32 words.  A   *)
(* word is modelled as the set of its 1 bits, so `word == 0' is word = {}, *)
(* `word |= 1 << bit' adds bit and `word & (mask << j)' asks j \in word.   *)
(* The array is indexed from 0.  Band 0 has the highest priority.          *)
(*                                                                         *)
(* A definition marked "Fault" is a faulty variant of the one that follows *)
(* it.  Nothing uses it; PROJECT.json names the property that fails when   *)
(* it takes the place of the correct one.                                  *)
(***************************************************************************)
EXTENDS Integers, FiniteSetsExt

CONSTANTS NUM_BANDS,        \* number of priority bands (32 in the build)
          BANDS_IN_BITMAP   \* bits in a word of the bitmap (32: a u32)

BITMAP_SIZE == NUM_BANDS \div BANDS_IN_BITMAP

(***************************************************************************)
(* The code divides without a remainder: a NUM_BANDS that is no multiple   *)
(* of the word size would leave its last bands without a word.             *)
(***************************************************************************)
ASSUME BandsAssumption ==
  /\ NUM_BANDS \in Nat \ {0}
  /\ BANDS_IN_BITMAP \in Nat \ {0}
  /\ BITMAP_SIZE * BANDS_IN_BITMAP = NUM_BANDS

Bands == 0 .. NUM_BANDS - 1
Words == 0 .. BITMAP_SIZE - 1
Bits  == 0 .. BANDS_IN_BITMAP - 1

Bitmap == [Words -> SUBSET Bits]

ZeroBitmap == [w \in Words |-> {}]

(***************************************************************************)
(* BAND_TO_BIT_AND_BMAP: the bit of a band and the word that holds it.     *)
(***************************************************************************)
BandBit(band)  == band % BANDS_IN_BITMAP
BandBMap(band) == band \div BANDS_IN_BITMAP

bitmap_add_band(bitmap, band) ==
  [bitmap EXCEPT ![BandBMap(band)] = @ \cup {BandBit(band)}]

\* Fault: the mask is not inverted bit by bit, so the whole word is cleared.
RemoveBandClearsWord(bitmap, band) ==
  [bitmap EXCEPT ![BandBMap(band)] = {}]

bitmap_remove_band(bitmap, band) ==
  [bitmap EXCEPT ![BandBMap(band)] = @ \ {BandBit(band)}]

(***************************************************************************)
(* The two scans.  bitmap_high_prio goes up through the words, skips the   *)
(* zero ones and then goes up through the bits of the first other one;     *)
(* bitmap_low_prio does the same downwards.  Both return -1 if all words   *)
(* are zero.                                                               *)
(***************************************************************************)
NonzeroWords(bitmap) == {w \in Words : bitmap[w] # {}}

\* Fault: the outer loop of bitmap_high_prio runs downwards.
HighPrioFromLastWord(bitmap) ==
  IF NonzeroWords(bitmap) = {}
  THEN -1
  ELSE LET i == Max(NonzeroWords(bitmap))
       IN  i * BANDS_IN_BITMAP + Min(bitmap[i])

bitmap_high_prio(bitmap) ==
  IF NonzeroWords(bitmap) = {}
  THEN -1
  ELSE LET i == Min(NonzeroWords(bitmap))
       IN  i * BANDS_IN_BITMAP + Min(bitmap[i])

\* Fault: the inner loop of bitmap_low_prio runs upwards.
LowPrioFromFirstBit(bitmap) ==
  IF NonzeroWords(bitmap) = {}
  THEN -1
  ELSE LET i == Max(NonzeroWords(bitmap))
       IN  i * BANDS_IN_BITMAP + Min(bitmap[i])

bitmap_low_prio(bitmap) ==
  IF NonzeroWords(bitmap) = {}
  THEN -1
  ELSE LET i == Max(NonzeroWords(bitmap))
       IN  i * BANDS_IN_BITMAP + Max(bitmap[i])

(***************************************************************************)
(* What the array stands for: the set of bands whose bit is set.           *)
(***************************************************************************)
SetBands(bitmap) == {b \in Bands : BandBit(b) \in bitmap[BandBMap(b)]}
=============================================================================
