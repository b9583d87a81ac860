---------------------------- MODULE Flush_proofs ----------------------------
(***************************************************************************)
(* Proofs about the flush commands of ip and the command that follows.     *)
(* First what they need to know of the socket and the kernel's table:      *)
(* which entries a deletion and a buffer of requests leave, what a         *)
(* datagram of a dump holds, and how long the answer to a request can be   *)
(* told from the answers to later ones; then the types, and the answers a  *)
(* command reads (TalkTruthful).                                           *)
(***************************************************************************)
EXTENDS Flush, WellFoundedInduction, TLAPS

\* A leaf is tried with SMT, then with Zenon, then with SMT and more time.
USE SMT, Zenon, SMTT(30)

(***************************************************************************)
(* Every nonempty set of natural numbers has a least member.               *)
(***************************************************************************)
LEMMA LeastNat ==
  ASSUME NEW T, T \subseteq Nat, T # {}
  PROVE  \E n \in T : \A m \in T : n <= m
<1> DEFINE R == OpToRel(<, Nat)
<1>1. IsWellFoundedOn(R, Nat)
  BY NatLessThanWellFounded, Zenon
<1>2. \A m, n \in Nat : m < n => <<m, n>> \in R
  BY DEF OpToRel
<1> HIDE DEF R
<1>3. PICK n \in T : \A m \in T : <<m, n>> \notin R
  BY <1>1, WFMin, Zenon
<1>4. ASSUME NEW m \in T, m < n PROVE FALSE
  <2>1. m \in Nat /\ n \in Nat
    OBVIOUS
  <2>2. <<m, n>> \in R
    BY <1>2, <1>4, <2>1
  <2> QED BY <1>3, <2>2
<1>5. \A m \in T : ~(m < n)
  BY <1>4
<1> QED BY <1>5

(***************************************************************************)
(* Induction over the natural numbers, for a set in place of a predicate.  *)
(***************************************************************************)
LEMMA NatInduct ==
  ASSUME NEW P, 0 \in P, \A n \in Nat : n \in P => n + 1 \in P
  PROVE  Nat \subseteq P
<1> SUFFICES ASSUME Nat \ P # {} PROVE FALSE
  OBVIOUS
<1>1. PICK n \in Nat \ P : \A m \in Nat \ P : n <= m
  BY LeastNat, Zenon
<1>2. n # 0 /\ n - 1 \in Nat
  BY <1>1
<1>3. n - 1 \in P
  BY <1>1, <1>2
<1> QED BY <1>1, <1>2, <1>3

(***************************************************************************)
(* A value that is computed in n steps, each of them a function on Y.      *)
(***************************************************************************)
Steps(st, n, Y) == \A i \in 1 .. n : st[i] \in [Y -> Y]

Computes(f, b, st, n, Y) ==
  f \in [0 .. n -> Y] /\ f[0] = b /\ \A i \in 1 .. n : f[i] = st[i][f[i - 1]]

LEMMA Recursion ==
  ASSUME NEW Y, NEW b \in Y, NEW n \in Nat, NEW st, Steps(st, n, Y)
  PROVE  \E f : Computes(f, b, st, n, Y)
<1> DEFINE Upto(f, m) == f[0] = b /\ \A i \in 1 .. m : f[i] = st[i][f[i - 1]]
           P == {m \in Nat : m <= n => \E f \in [0 .. n -> Y] : Upto(f, m)}
<1>1. 0 \in P
  <2>1. [i \in 0 .. n |-> b] \in [0 .. n -> Y] /\ Upto([i \in 0 .. n |-> b], 0)
    OBVIOUS
  <2> QED BY <2>1, Zenon
<1>2. ASSUME NEW m \in Nat, m \in P PROVE m + 1 \in P
  <2> SUFFICES ASSUME m + 1 <= n PROVE \E f \in [0 .. n -> Y] : Upto(f, m + 1)
    OBVIOUS
  <2>1. PICK f \in [0 .. n -> Y] : Upto(f, m)
    BY <1>2
  <2> DEFINE g == [f EXCEPT ![m + 1] = st[m + 1][f[m]]]
  <2>2. st[m + 1][f[m]] \in Y
    <3>1. m + 1 \in 1 .. n /\ m \in 0 .. n
      OBVIOUS
    <3> QED BY <3>1, <2>1 DEF Steps
  <2>3. g \in [0 .. n -> Y]
    BY <2>2
  <2>4. Upto(g, m + 1)
    <3>1. g[0] = b
      BY <2>1
    <3>2. ASSUME NEW i \in 1 .. m + 1 PROVE g[i] = st[i][g[i - 1]]
      <4>1. i \in 0 .. n /\ i - 1 \in 0 .. n /\ i - 1 # m + 1
        OBVIOUS
      <4>2. g[i - 1] = f[i - 1]
        BY <4>1
      <4>3. CASE i = m + 1
        BY <4>1, <4>2, <4>3
      <4>4. CASE i \in 1 .. m
        <5>1. g[i] = f[i] /\ f[i] = st[i][f[i - 1]]
          BY <4>1, <4>4, <2>1
        <5> QED BY <5>1, <4>2
      <4> QED BY <4>3, <4>4
    <3> QED BY <3>1, <3>2
  <2> QED BY <2>3, <2>4, Zenon
<1>3. n \in P
  <2> HIDE DEF P
  <2> QED BY <1>1, <1>2, NatInduct
<1> QED BY <1>3 DEF Computes

(***************************************************************************)
(* The recursive function in Kept.                                         *)
(***************************************************************************)
IsUpto(f, t, I) ==
  f = [i \in 0 .. Len(t) |-> IF i = 0 THEN <<>>
                             ELSE IF i \in I THEN Append(f[i - 1], t[i])
                             ELSE f[i - 1]]

LEMMA KeptUpto ==
  ASSUME NEW t, NEW I
  PROVE  Kept(t, I) = (CHOOSE f : IsUpto(f, t, I))[Len(t)]
  BY DEF Kept, IsUpto

Selects(f, t, I, T) ==
  /\ f \in [0 .. Len(t) -> Seq(T)]
  /\ f[0] = <<>>
  /\ \A i \in 1 .. Len(t) : f[i] = IF i \in I THEN Append(f[i - 1], t[i]) ELSE f[i - 1]
  /\ Kept(t, I) = f[Len(t)]

\* There is one, and its values are sequences of what t has.
LEMMA UptoExists ==
  ASSUME NEW T, NEW t \in Seq(T), NEW I
  PROVE  \E f : Selects(f, t, I, T)
<1> DEFINE n == Len(t)
           st == [i \in 1 .. n |-> [s \in Seq(T) |-> IF i \in I THEN Append(s, t[i]) ELSE s]]
<1>1. n \in Nat /\ \A i \in 1 .. n : t[i] \in T
  OBVIOUS
<1>2. Steps(st, n, Seq(T))
  BY <1>1 DEF Steps
<1>3. <<>> \in Seq(T)
  OBVIOUS
<1>4. \E f : Computes(f, <<>>, st, n, Seq(T))
  <2> HIDE DEF st, n
  <2> QED BY <1>1, <1>2, <1>3, Recursion, Zenon
<1>5. PICK f \in [0 .. n -> Seq(T)] : f[0] = <<>> /\ \A i \in 1 .. n : f[i] = st[i][f[i - 1]]
  BY <1>4 DEF Computes
<1>6. ASSUME NEW i \in 1 .. n
      PROVE  f[i] = IF i \in I THEN Append(f[i - 1], t[i]) ELSE f[i - 1]
  <2>1. f[i - 1] \in Seq(T)
    BY <1>1
  <2> QED BY <1>5, <2>1, Zenon
<1>7. IsUpto(f, t, I)
  <2>1. ASSUME NEW i \in 0 .. n
        PROVE  f[i] = IF i = 0 THEN <<>> ELSE IF i \in I THEN Append(f[i - 1], t[i]) ELSE f[i - 1]
    <3>1. CASE i = 0
      BY <3>1, <1>5
    <3>2. CASE i # 0
      <4>1. i \in 1 .. n
        BY <3>2, <1>1
      <4> QED BY <3>2, <4>1, <1>6, Zenon
    <3> QED BY <3>1, <3>2
  <2>2. f = [i \in 0 .. n |-> f[i]]
    OBVIOUS
  <2> QED BY <2>1, <2>2 DEF IsUpto
<1>8. PICK g : IsUpto(g, t, I) /\ Kept(t, I) = g[n]
  <2>1. IsUpto(CHOOSE h : IsUpto(h, t, I), t, I)
    BY <1>7
  <2> QED BY <2>1, KeptUpto
<1>9. \A i \in 0 .. n : g[i] = IF i = 0 THEN <<>> ELSE IF i \in I THEN Append(g[i - 1], t[i]) ELSE g[i - 1]
  BY <1>8, Zenon DEF IsUpto
<1>10. g[n] = f[n]
  <2> DEFINE Q == {i \in Nat : i <= n => g[i] = f[i]}
  <2>1. 0 \in Q
    BY <1>1, <1>5, <1>9
  <2>2. ASSUME NEW i \in Nat, i \in Q PROVE i + 1 \in Q
    <3> SUFFICES ASSUME i + 1 <= n PROVE g[i + 1] = f[i + 1]
      OBVIOUS
    <3>1. i + 1 \in 1 .. n /\ i + 1 \in 0 .. n /\ i + 1 # 0 /\ (i + 1) - 1 = i /\ g[i] = f[i]
      BY <2>2, <1>1
    <3> QED BY <3>1, <1>6, <1>9
  <2>3. n \in Q
    <3> HIDE DEF Q
    <3> QED BY <1>1, <2>1, <2>2, NatInduct
  <2> QED BY <2>3, <1>1
<1> QED BY <1>5, <1>6, <1>8, <1>10 DEF Selects

\* It selects from the given positions, and no two parts of t are longer than t.
LEMMA KeptType ==
  ASSUME NEW T, NEW t \in Seq(T), NEW I
  PROVE  Kept(t, I) \in Seq(T)
<1>1. Len(t) \in Nat
  OBVIOUS
<1>2. PICK f : Selects(f, t, I, T)
  BY UptoExists, Zenon
<1> QED BY <1>1, <1>2 DEF Selects

LEMMA KeptLen ==
  ASSUME NEW T, NEW t \in Seq(T), NEW I, NEW J, I \cap J = {}
  PROVE  Len(Kept(t, I)) + Len(Kept(t, J)) <= Len(t)
<1> DEFINE n == Len(t)
<1>0. n \in Nat
  OBVIOUS
<1>1. PICK f \in [0 .. n -> Seq(T)] :
         /\ f[0] = <<>>
         /\ \A i \in 1 .. n : f[i] = IF i \in I THEN Append(f[i - 1], t[i]) ELSE f[i - 1]
         /\ Kept(t, I) = f[n]
  <2>1. PICK h : Selects(h, t, I, T)
    BY UptoExists
  <2> QED BY <2>1 DEF Selects
<1>2. PICK g \in [0 .. n -> Seq(T)] :
         /\ g[0] = <<>>
         /\ \A i \in 1 .. n : g[i] = IF i \in J THEN Append(g[i - 1], t[i]) ELSE g[i - 1]
         /\ Kept(t, J) = g[n]
  <2>1. PICK h : Selects(h, t, J, T)
    BY UptoExists
  <2> QED BY <2>1 DEF Selects
<1> DEFINE P == {i \in Nat : i <= n => Len(f[i]) + Len(g[i]) <= i}
<1>3. 0 \in P
  BY <1>1, <1>2
<1>4. ASSUME NEW i \in Nat, i \in P PROVE i + 1 \in P
  <2> SUFFICES ASSUME i + 1 <= n PROVE Len(f[i + 1]) + Len(g[i + 1]) <= i + 1
    OBVIOUS
  <2>1. i + 1 \in 1 .. n /\ i \in 0 .. n /\ (i + 1) - 1 = i /\ t[i + 1] \in T
    BY <1>0
  <2>2. f[i] \in Seq(T) /\ g[i] \in Seq(T) /\ Len(f[i]) + Len(g[i]) <= i
    BY <1>4, <2>1
  <2>3. /\ f[i + 1] = IF i + 1 \in I THEN Append(f[i], t[i + 1]) ELSE f[i]
        /\ g[i + 1] = IF i + 1 \in J THEN Append(g[i], t[i + 1]) ELSE g[i]
    BY <1>1, <1>2, <2>1
  <2>4. CASE i + 1 \in I
    <3>1. f[i + 1] = Append(f[i], t[i + 1]) /\ g[i + 1] = g[i]
      BY <2>3, <2>4
    <3>2. Len(f[i + 1]) = Len(f[i]) + 1 /\ Len(g[i + 1]) = Len(g[i])
      BY <2>1, <2>2, <3>1
    <3> QED BY <2>2, <3>2
  <2>5. CASE i + 1 \notin I
    <3>1. f[i + 1] = f[i] /\ g[i + 1] \in {g[i], Append(g[i], t[i + 1])}
      BY <2>3, <2>5
    <3>2. /\ Len(f[i]) \in Nat /\ Len(g[i]) \in Nat /\ Len(f[i + 1]) = Len(f[i])
          /\ Len(g[i + 1]) = Len(g[i]) \/ Len(g[i + 1]) = Len(g[i]) + 1
      BY <2>1, <2>2, <3>1
    <3>3. Len(f[i]) + Len(g[i]) <= i
      BY <2>2
    <3> HIDE DEF n, P
    <3>4. CASE Len(g[i + 1]) = Len(g[i])
      BY <3>2, <3>3, <3>4
    <3>5. CASE Len(g[i + 1]) = Len(g[i]) + 1
      BY <3>2, <3>3, <3>5
    <3> QED BY <3>2, <3>4, <3>5, Zenon
  <2> QED BY <2>4, <2>5
<1>5. n \in P
  <2> HIDE DEF P
  <2> QED BY <1>0, <1>3, <1>4, NatInduct
<1> QED BY <1>0, <1>1, <1>2, <1>5

\* It has what t has at those positions, and nothing else.
LEMMA KeptRange ==
  ASSUME NEW T, NEW t \in Seq(T), NEW I
  PROVE  /\ \A k \in DOMAIN Kept(t, I) : \E j \in DOMAIN t : j \in I /\ Kept(t, I)[k] = t[j]
         /\ \A j \in DOMAIN t : j \in I => \E k \in DOMAIN Kept(t, I) : Kept(t, I)[k] = t[j]
<1> DEFINE n == Len(t)
<1>0. n \in Nat /\ DOMAIN t = 1 .. n
  OBVIOUS
<1>1. PICK f \in [0 .. n -> Seq(T)] :
         /\ f[0] = <<>>
         /\ \A i \in 1 .. n : f[i] = IF i \in I THEN Append(f[i - 1], t[i]) ELSE f[i - 1]
         /\ Kept(t, I) = f[n]
  <2>1. PICK h : Selects(h, t, I, T)
    BY UptoExists, Zenon
  <2> QED BY <2>1 DEF Selects
<1> DEFINE From(i) == \A k \in DOMAIN f[i] : \E j \in 1 .. i : j \in I /\ f[i][k] = t[j]
           All(i)  == \A j \in 1 .. i : j \in I => \E k \in DOMAIN f[i] : f[i][k] = t[j]
           P == {i \in Nat : i <= n => From(i) /\ All(i)}
<1>2. 0 \in P
  BY <1>1
<1>3. ASSUME NEW i \in Nat, i \in P PROVE i + 1 \in P
  <2> SUFFICES ASSUME i + 1 <= n PROVE From(i + 1) /\ All(i + 1)
    OBVIOUS
  <2>1. i + 1 \in 1 .. n /\ i \in 0 .. n /\ (i + 1) - 1 = i /\ t[i + 1] \in T
    BY <1>0
  <2>2. f[i] \in Seq(T) /\ From(i) /\ All(i)
    BY <1>3, <2>1
  <2>3. f[i + 1] = IF i + 1 \in I THEN Append(f[i], t[i + 1]) ELSE f[i]
    BY <1>1, <2>1
  <2>4. \A j \in 1 .. i + 1 : j = i + 1 \/ j \in 1 .. i
    OBVIOUS
  <2>5. \A j \in 1 .. i : j \in 1 .. i + 1
    OBVIOUS
  <2>6. CASE i + 1 \in I
    <3>1. /\ Len(f[i]) \in Nat /\ DOMAIN f[i] = 1 .. Len(f[i])
          /\ DOMAIN f[i + 1] = 1 .. Len(f[i]) + 1
          /\ \A k \in DOMAIN f[i] : k \in DOMAIN f[i + 1] /\ f[i + 1][k] = f[i][k]
          /\ Len(f[i]) + 1 \in DOMAIN f[i + 1] /\ f[i + 1][Len(f[i]) + 1] = t[i + 1]
          /\ \A k \in DOMAIN f[i + 1] : k \in DOMAIN f[i] \/ k = Len(f[i]) + 1
      BY <2>1, <2>2, <2>3, <2>6
    <3>2. ASSUME NEW k \in DOMAIN f[i + 1]
          PROVE  \E j \in 1 .. i + 1 : j \in I /\ f[i + 1][k] = t[j]
      <4>1. CASE k \in DOMAIN f[i]
        <5>1. PICK j \in 1 .. i : j \in I /\ f[i][k] = t[j]
          BY <2>2, <4>1, Zenon
        <5> QED BY <5>1, <4>1, <3>1, <2>5
      <4>2. CASE k = Len(f[i]) + 1
        <5>1. i + 1 \in 1 .. i + 1
          OBVIOUS
        <5> QED BY <5>1, <4>2, <3>1, <2>6
      <4> QED BY <4>1, <4>2, <3>1
    <3>3. All(i + 1)
      BY <2>2, <2>4, <3>1, Zenon
    <3> QED BY <3>2, <3>3
  <2>7. CASE i + 1 \notin I
    <3>1. f[i + 1] = f[i]
      BY <2>3, <2>7
    <3>2. From(i + 1)
      BY <2>2, <2>5, <3>1
    <3>3. All(i + 1)
      BY <2>2, <2>4, <2>7, <3>1
    <3> QED BY <3>2, <3>3, Zenon
  <2> QED BY <2>6, <2>7
<1>4. n \in P
  <2> HIDE DEF P
  <2> QED BY <1>0, <1>2, <1>3, NatInduct
<1>5. From(n) /\ All(n)
  <2>1. n <= n
    BY <1>0
  <2> HIDE DEF n
  <2> QED BY <2>1, <1>4, Zenon
<1>6. 1 .. n = DOMAIN t /\ Kept(t, I) = f[n]
  BY <1>0, <1>1
<1> HIDE DEF n
<1>7. ASSUME NEW k \in DOMAIN Kept(t, I)
      PROVE  \E j \in DOMAIN t : j \in I /\ Kept(t, I)[k] = t[j]
  <2>1. k \in DOMAIN f[n]
    BY <1>6
  <2>2. PICK j \in 1 .. n : j \in I /\ f[n][k] = t[j]
    BY <1>5, <2>1
  <2> QED BY <1>6, <2>2, Zenon
<1>8. ASSUME NEW j \in DOMAIN t, j \in I
      PROVE  \E k \in DOMAIN Kept(t, I) : Kept(t, I)[k] = t[j]
  <2>1. j \in 1 .. n
    BY <1>6, Zenon
  <2>2. PICK k \in DOMAIN f[n] : f[n][k] = t[j]
    BY <1>5, <1>8, <2>1
  <2> QED BY <1>6, <2>2
<1> QED BY <1>7, <1>8

\* The same as a set.
LEMMA KeptSet ==
  ASSUME NEW T, NEW t \in Seq(T), NEW I
  PROVE  Range(Kept(t, I)) = {t[j] : j \in DOMAIN t \cap I}
<1>1. ASSUME NEW x \in Range(Kept(t, I)) PROVE x \in {t[j] : j \in DOMAIN t \cap I}
  <2>1. PICK k \in DOMAIN Kept(t, I) : x = Kept(t, I)[k]
    BY DEF Range
  <2>2. PICK j \in DOMAIN t : j \in I /\ Kept(t, I)[k] = t[j]
    BY <2>1, KeptRange
  <2> QED BY <2>1, <2>2
<1>2. ASSUME NEW j \in DOMAIN t \cap I PROVE t[j] \in Range(Kept(t, I))
  <2>1. PICK k \in DOMAIN Kept(t, I) : Kept(t, I)[k] = t[j]
    BY KeptRange
  <2> QED BY <2>1 DEF Range
<1> QED BY <1>1, <1>2

\* It has them in the same order.
LEMMA KeptOrder ==
  ASSUME NEW T, NEW t \in Seq(T), NEW I
  PROVE  \A k, m \in DOMAIN Kept(t, I) : k < m =>
            \E i, j \in DOMAIN t \cap I : i < j /\ Kept(t, I)[k] = t[i] /\ Kept(t, I)[m] = t[j]
<1> DEFINE n == Len(t)
<1>0. n \in Nat /\ DOMAIN t = 1 .. n
  OBVIOUS
<1>1. PICK f \in [0 .. n -> Seq(T)] :
         /\ f[0] = <<>>
         /\ \A i \in 1 .. n : f[i] = IF i \in I THEN Append(f[i - 1], t[i]) ELSE f[i - 1]
         /\ Kept(t, I) = f[n]
  <2>1. PICK h : Selects(h, t, I, T)
    BY UptoExists, Zenon
  <2> QED BY <2>1 DEF Selects
<1> DEFINE Upto(i) == (1 .. i) \cap I
           From(i) == \A k \in DOMAIN f[i] : \E j \in Upto(i) : f[i][k] = t[j]
           Order(i) == \A k, m \in DOMAIN f[i] : k < m =>
                          \E a, b \in Upto(i) : a < b /\ f[i][k] = t[a] /\ f[i][m] = t[b]
           P == {i \in Nat : i <= n => From(i) /\ Order(i)}
<1>2. 0 \in P
  BY <1>1
<1>3. ASSUME NEW i \in Nat, i \in P PROVE i + 1 \in P
  <2> HIDE DEF From, Order
  <2> SUFFICES ASSUME i + 1 <= n PROVE From(i + 1) /\ Order(i + 1)
    OBVIOUS
  <2>1. i + 1 \in 1 .. n /\ i \in 0 .. n /\ (i + 1) - 1 = i /\ t[i + 1] \in T
    BY <1>0
  <2>2. f[i] \in Seq(T) /\ From(i) /\ Order(i)
    <3>1. f[i] \in Seq(T)
      BY <2>1
    <3>2. i <= n
      BY <1>0, <2>1
    <3> QED BY <1>3, <3>1, <3>2
  <2> USE DEF From, Order
  <2>3. f[i + 1] = IF i + 1 \in I THEN Append(f[i], t[i + 1]) ELSE f[i]
    BY <1>1, <2>1
  <2>4. Upto(i) \subseteq Upto(i + 1) /\ \A j \in Upto(i) : j < i + 1
    <3>1. \A j \in 1 .. i : j \in 1 .. i + 1 /\ j < i + 1
      OBVIOUS
    <3> QED BY <3>1
  <2>5. CASE i + 1 \in I
    <3> DEFINE l == Len(f[i]) + 1
    <3>1. /\ \A k \in DOMAIN f[i] : f[i + 1][k] = f[i][k]
          /\ f[i + 1][l] = t[i + 1]
          /\ \A k \in DOMAIN f[i + 1] : k \in DOMAIN f[i] \/ k = l
          /\ \A k, m \in DOMAIN f[i + 1] : k < m => k \in DOMAIN f[i]
      BY <2>1, <2>2, <2>3, <2>5
    <3>2. i + 1 \in Upto(i + 1)
      BY <2>5
    <3> HIDE DEF l, Upto
    <3>3. From(i + 1)
      BY <2>2, <2>4, <3>1, <3>2
    <3>4. ASSUME NEW k \in DOMAIN f[i + 1], NEW m \in DOMAIN f[i + 1], k < m
          PROVE  \E a, b \in Upto(i + 1) : a < b /\ f[i + 1][k] = t[a] /\ f[i + 1][m] = t[b]
      <4>1. k \in DOMAIN f[i] /\ f[i + 1][k] = f[i][k]
        BY <3>1, <3>4
      <4>2. CASE m \in DOMAIN f[i]
        <5>1. PICK a \in Upto(i), b \in Upto(i) : a < b /\ f[i][k] = t[a] /\ f[i][m] = t[b]
          BY <2>2, <3>4, <4>1, <4>2
        <5> QED BY <2>4, <3>1, <4>1, <4>2, <5>1
      <4>3. CASE m = l
        <5>1. PICK a \in Upto(i) : f[i][k] = t[a]
          BY <2>2, <4>1
        <5>2. a < i + 1 /\ a \in Upto(i + 1) /\ f[i + 1][k] = t[a] /\ f[i + 1][m] = t[i + 1]
          BY <2>4, <3>1, <4>1, <4>3, <5>1
        <5> QED BY <3>2, <5>2
      <4> QED BY <3>1, <4>2, <4>3
    <3> QED BY <3>3, <3>4
  <2>6. CASE i + 1 \notin I
    <3>1. f[i + 1] = f[i]
      BY <2>3, <2>6
    <3> HIDE DEF Upto
    <3>2. From(i + 1)
      BY <2>2, <2>4, <3>1
    <3>3. Order(i + 1)
      BY <2>2, <2>4, <3>1
    <3> QED BY <3>2, <3>3
  <2> QED BY <2>5, <2>6
<1>4. n \in P
  <2> HIDE DEF P
  <2> QED BY <1>0, <1>2, <1>3, NatInduct
<1>5. Order(n)
  <2>1. n <= n
    BY <1>0
  <2> HIDE DEF n, Order, From
  <2> QED BY <2>1, <1>4
<1>6. Upto(n) = DOMAIN t \cap I /\ Kept(t, I) = f[n]
  BY <1>0, <1>1
<1> HIDE DEF n, Upto
<1> QED BY <1>5, <1>6

\* At the positions of a block it has the block.
Between(I, t, p, q) == \A i \in DOMAIN t : i \in I <=> (p < i /\ i <= q)

IsBlock(s, t, p, q) == Len(s) = q - p /\ \A k \in 1 .. q - p : s[k] = t[p + k]

LEMMA KeptBlock ==
  ASSUME NEW T, NEW t \in Seq(T), NEW p \in Nat, NEW q \in Nat, p <= q, q <= Len(t), NEW I, Between(I, t, p, q)
  PROVE  Kept(t, I) \in Seq(T) /\ IsBlock(Kept(t, I), t, p, q)
<1> DEFINE n == Len(t)
<1>0. n \in Nat /\ DOMAIN t = 1 .. n /\ \A i \in DOMAIN t : i \in I <=> (p < i /\ i <= q)
  BY DEF Between
<1>1. PICK f \in [0 .. n -> Seq(T)] :
         /\ f[0] = <<>>
         /\ \A i \in 1 .. n : f[i] = IF i \in I THEN Append(f[i - 1], t[i]) ELSE f[i - 1]
         /\ Kept(t, I) = f[n]
  <2>1. PICK h : Selects(h, t, I, T)
    BY UptoExists, Zenon
  <2> QED BY <2>1 DEF Selects
<1> DEFINE c(i) == IF i <= p THEN 0 ELSE IF i <= q THEN i - p ELSE q - p
           Block(i) == Len(f[i]) = c(i) /\ \A k \in 1 .. c(i) : f[i][k] = t[p + k]
           P == {i \in Nat : i <= n => Block(i)}
<1>2. 0 \in P
  BY <1>1
<1>3. ASSUME NEW i \in Nat, i \in P PROVE i + 1 \in P
  <2> SUFFICES ASSUME i + 1 <= n PROVE Block(i + 1)
    OBVIOUS
  <2>1. i + 1 \in 1 .. n /\ i \in 0 .. n /\ (i + 1) - 1 = i /\ t[i + 1] \in T
    BY <1>0
  <2>2. f[i] \in Seq(T) /\ Len(f[i]) = c(i) /\ \A k \in 1 .. c(i) : f[i][k] = t[p + k]
    BY <1>3, <2>1
  <2>3. f[i + 1] = IF i + 1 \in I THEN Append(f[i], t[i + 1]) ELSE f[i]
    BY <1>1, <2>1
  <2>4. CASE i + 1 \in I
    <3>1. p < i + 1 /\ i + 1 <= q
      BY <1>0, <2>1, <2>4
    <3>2. c(i + 1) = c(i) + 1 /\ p + (c(i) + 1) = i + 1 /\ c(i) \in Nat
      BY <3>1
    <3> HIDE DEF c
    <3>3. Len(f[i + 1]) = c(i) + 1 /\ f[i + 1][c(i) + 1] = t[i + 1] /\ \A k \in 1 .. c(i) : f[i + 1][k] = f[i][k]
      BY <2>1, <2>2, <2>3, <2>4, <3>2
    <3>4. \A k \in 1 .. c(i) + 1 : k = c(i) + 1 \/ k \in 1 .. c(i)
      BY <3>2
    <3>5. \A k \in 1 .. c(i) + 1 : f[i + 1][k] = t[p + k]
      BY <2>2, <3>2, <3>3, <3>4, Zenon
    <3> QED BY <3>2, <3>3, <3>5
  <2>5. CASE i + 1 \notin I
    <3>1. ~(p < i + 1 /\ i + 1 <= q)
      BY <1>0, <2>1, <2>5
    <3>2. c(i + 1) = c(i)
      BY <3>1
    <3> HIDE DEF c
    <3>3. f[i + 1] = f[i]
      BY <2>3, <2>5
    <3> QED BY <2>2, <3>2, <3>3
  <2> QED BY <2>4, <2>5
<1>4. n \in P
  <2> HIDE DEF P
  <2> QED BY <1>0, <1>2, <1>3, NatInduct
<1> HIDE DEF n
<1>5. n <= n /\ n \in 0 .. n /\ q <= n
  BY <1>0 DEF n
<1>6. c(n) = q - p
  BY <1>0, <1>5
<1>7. Block(n)
  <2> HIDE DEF Block
  <2> QED BY <1>4, <1>5
<1>8. Kept(t, I) = f[n] /\ f[n] \in Seq(T)
  BY <1>1, <1>5
<1> HIDE DEF c
<1> QED BY <1>6, <1>7, <1>8 DEF IsBlock

(***************************************************************************)
(* What the operations on sequences do to the set of members.              *)
(***************************************************************************)
LEMMA ConcatSet ==
  ASSUME NEW T, NEW s \in Seq(T), NEW r \in Seq(T)
  PROVE  s \o r \in Seq(T) /\ Len(s \o r) = Len(s) + Len(r) /\ Range(s \o r) = Range(s) \cup Range(r)
<1>1. s \o r \in Seq(T) /\ Len(s \o r) = Len(s) + Len(r)
  OBVIOUS
<1>2. /\ Len(s) \in Nat /\ Len(r) \in Nat
      /\ DOMAIN s = 1 .. Len(s) /\ DOMAIN r = 1 .. Len(r) /\ DOMAIN (s \o r) = 1 .. Len(s) + Len(r)
      /\ \A k \in 1 .. Len(s) + Len(r) : (s \o r)[k] = IF k <= Len(s) THEN s[k] ELSE r[k - Len(s)]
  OBVIOUS
<1> DEFINE q == s \o r
<1>3. /\ DOMAIN q = 1 .. Len(s) + Len(r)
      /\ \A k \in 1 .. Len(s) + Len(r) : q[k] = IF k <= Len(s) THEN s[k] ELSE r[k - Len(s)]
  BY <1>2
<1> HIDE DEF q
<1>4. ASSUME NEW k \in DOMAIN q PROVE q[k] \in Range(s) \cup Range(r)
  <2>1. CASE k <= Len(s)
    <3>1. k \in DOMAIN s /\ q[k] = s[k]
      BY <1>2, <1>3, <2>1
    <3> QED BY <3>1 DEF Range
  <2>2. CASE ~(k <= Len(s))
    <3>1. k - Len(s) \in DOMAIN r /\ q[k] = r[k - Len(s)]
      BY <1>2, <1>3, <2>2
    <3> QED BY <3>1 DEF Range
  <2> QED BY <2>1, <2>2
<1>5. ASSUME NEW k \in DOMAIN s PROVE s[k] \in Range(q)
  <2>1. k \in DOMAIN q /\ q[k] = s[k]
    BY <1>2, <1>3
  <2> QED BY <2>1 DEF Range
<1>6. ASSUME NEW k \in DOMAIN r PROVE r[k] \in Range(q)
  <2>1. Len(s) + k \in DOMAIN q /\ q[Len(s) + k] = r[k]
    BY <1>2, <1>3
  <2> QED BY <2>1 DEF Range
<1>7. Range(q) = Range(s) \cup Range(r)
  BY <1>4, <1>5, <1>6 DEF Range
<1> QED BY <1>1, <1>7 DEF q

LEMMA SingleSet ==
  ASSUME NEW T, NEW x \in T
  PROVE  <<x>> \in Seq(T) /\ Len(<<x>>) = 1 /\ Range(<<x>>) = {x}
  BY DEF Range

LEMMA AppendSet ==
  ASSUME NEW T, NEW s \in Seq(T), NEW x \in T
  PROVE  /\ Append(s, x) \in Seq(T) /\ Len(Append(s, x)) = Len(s) + 1
         /\ Range(Append(s, x)) = Range(s) \cup {x}
<1> DEFINE r == <<x>>
<1>1. r \in Seq(T) /\ Append(s, x) = s \o r /\ Len(r) = 1 /\ Range(r) = {x}
  BY DEF Range
<1> HIDE DEF r
<1>2. s \o r \in Seq(T) /\ Len(s \o r) = Len(s) + Len(r) /\ Range(s \o r) = Range(s) \cup Range(r)
  BY <1>1, ConcatSet
<1> QED BY <1>1, <1>2

LEMMA TailSet ==
  ASSUME NEW T, NEW s \in Seq(T), s # <<>>
  PROVE  /\ Tail(s) \in Seq(T) /\ Head(s) \in T /\ Len(Tail(s)) = Len(s) - 1 /\ Len(s) \in Nat \ {0}
         /\ Range(s) = {Head(s)} \cup Range(Tail(s))
<1>1. Tail(s) \in Seq(T) /\ Head(s) \in T /\ Len(Tail(s)) = Len(s) - 1 /\ Len(s) \in Nat \ {0}
  OBVIOUS
<1> DEFINE h == <<Head(s)>>
           r == Tail(s)
<1>2. h \in Seq(T) /\ r \in Seq(T) /\ s = h \o r /\ Range(h) = {Head(s)}
  BY <1>1 DEF Range
<1>3. Range(s) = {Head(s)} \cup Range(r)
  <2> HIDE DEF h, r
  <2>1. Range(h \o r) = Range(h) \cup Range(r)
    BY <1>2, ConcatSet
  <2> QED BY <1>2, <2>1
<1> QED BY <1>1, <1>3

LEMMA MemberType ==
  ASSUME NEW T, NEW s \in Seq(T)
  PROVE  Range(s) \subseteq T /\ (s = <<>> <=> Range(s) = {}) /\ Len(s) \in Nat
<1>1. Range(s) \subseteq T /\ Len(s) \in Nat
  BY DEF Range
<1>2. ASSUME s # <<>> PROVE Range(s) # {}
  <2>1. 1 \in DOMAIN s
    BY <1>2
  <2> QED BY <2>1 DEF Range
<1>3. ASSUME s = <<>> PROVE Range(s) = {}
  <2>1. DOMAIN s = {}
    BY <1>3
  <2> QED BY <2>1 DEF Range
<1> QED BY <1>1, <1>2, <1>3

-----------------------------------------------------------------------------
(***************************************************************************)
(* A datagram of a dump has the entries behind the position, DumpSize at   *)
(* most, and is the last one if there are none.                            *)
(***************************************************************************)
LEMMA DumpShape ==
  ASSUME NEW t \in Seq(EntryType), NEW p \in Nat, NEW s
  PROVE  LET d == DumpDatagram(t, p, s)
         IN  /\ d.type \in {"NEW", "DONE"} /\ d.seq = s
             /\ d = [type |-> d.type, seq |-> s, msgs |-> d.msgs]
             /\ d.msgs \in Seq(EntryType) /\ Len(d.msgs) <= DumpSize
             /\ \A i \in DOMAIN t : p < i /\ i <= p + Len(d.msgs) => t[i] \in Range(d.msgs)
             /\ Range(d.msgs) \subseteq Range(t)
             /\ d.type = "DONE" => d.msgs = <<>> /\ Len(t) <= p
<1>0. Len(t) \in Nat /\ DumpSize \in Nat \ {0}
  BY NetlinkAssumption
<1>1. CASE p >= Len(t)
  <2> DEFINE m == <<>>
  <2>1. DumpDatagram(t, p, s) = [type |-> "DONE", seq |-> s, msgs |-> <<>>]
    BY <1>1 DEF DumpDatagram
  <2>2. <<>> \in Seq(EntryType) /\ Len(<<>>) = 0 /\ Range(<<>>) = {}
    BY DEF Range
  <2> QED BY <1>0, <1>1, <2>1, <2>2
<1>2. CASE ~(p >= Len(t))
  <2> DEFINE q == IF p + DumpSize < Len(t) THEN p + DumpSize ELSE Len(t)
             m == SubSeq(t, p + 1, q)
  <2>1. DumpDatagram(t, p, s) = [type |-> "NEW", seq |-> s, msgs |-> m]
    BY <1>2 DEF DumpDatagram
  <2>2. q \in Nat /\ p < q /\ q <= Len(t) /\ q <= p + DumpSize
    BY <1>0, <1>2
  <2> HIDE DEF q
  <2>3. m \in Seq(EntryType) /\ Len(m) = q - p /\ DOMAIN m = 1 .. q - p /\ \A k \in 1 .. q - p : m[k] = t[p + k]
    BY <1>0, <2>2
  <2> HIDE DEF m
  <2>4. ASSUME NEW i \in DOMAIN t, p < i, i <= p + Len(m) PROVE t[i] \in Range(m)
    <3>1. i \in Nat /\ i - p \in 1 .. q - p /\ p + (i - p) = i
      BY <1>0, <2>2, <2>3, <2>4
    <3>2. i - p \in DOMAIN m /\ m[i - p] = t[i]
      BY <2>3, <3>1
    <3> QED BY <3>2 DEF Range
  <2>5. Range(m) \subseteq Range(t)
    <3>1. \A k \in DOMAIN m : p + k \in DOMAIN t /\ m[k] = t[p + k]
      BY <1>0, <2>2, <2>3
    <3> QED BY <3>1 DEF Range
  <2> QED BY <1>0, <2>1, <2>2, <2>3, <2>4, <2>5
<1> QED BY <1>1, <1>2

(***************************************************************************)
(* A deletion leaves other entries only, as they were or promoted.         *)
(***************************************************************************)
Survives(e, t) == e \in Range(t) \/ (e = Entry(e.id, FALSE) /\ Entry(e.id, TRUE) \in Range(t))

LEMMA KeptSurvive ==
  ASSUME NEW t \in Seq(EntryType), NEW id, NEW I, \A i \in I \cap DOMAIN t : t[i].id # id
  PROVE  Kept(t, I) \in Seq(EntryType) /\ \A e \in Range(Kept(t, I)) : e.id # id /\ e \in Range(t)
<1>1. Kept(t, I) \in Seq(EntryType)
  BY KeptType
<1>2. ASSUME NEW e \in Range(Kept(t, I)) PROVE e.id # id /\ e \in Range(t)
  <2>1. PICK j \in DOMAIN t \cap I : e = t[j]
    BY KeptSet
  <2> QED BY <2>1 DEF Range
<1> QED BY <1>1, <1>2

LEMMA RemainingShape ==
  ASSUME NEW t \in Seq(EntryType), NEW id, NEW prom
  PROVE  /\ Remaining(t, id, prom) \in Seq(EntryType)
         /\ \A e \in Range(Remaining(t, id, prom)) : e.id # id /\ Survives(e, t)
<1> DEFINE rest  == DOMAIN t \ Positions(t, id)
           heirs == {i \in rest : t[i].secondary /\ Subnet[t[i].id] = Subnet[id]}
           primaries == {i \in rest : ~t[i].secondary}
           h == Min(heirs)
           other == rest \ (primaries \cup {h})
<1>0. \A i \in DOMAIN t : t[i] \in EntryType
  OBVIOUS
<1>1. \A i \in rest : i \in DOMAIN t /\ t[i].id # id
  BY DEF Positions
<1>2. heirs \subseteq rest /\ primaries \subseteq rest /\ other \subseteq rest
  OBVIOUS
<1>3. heirs # {} => h \in heirs
  <2>1. heirs \subseteq Nat
    BY <1>1
  <2> HIDE DEF heirs
  <2>2. ASSUME heirs # {} PROVE h \in heirs
    <3>1. \E x \in heirs : \A y \in heirs : x <= y
      BY <2>1, <2>2, LeastNat, Zenon
    <3> QED BY <3>1 DEF Min
  <2> QED BY <2>2
<1>4. \/ Remaining(t, id, prom) = Kept(t, rest)
      \/ Remaining(t, id, prom) = Kept(t, rest \ heirs)
      \/ /\ heirs # {}
         /\ Remaining(t, id, prom) = Kept(t, primaries) \o <<Entry(t[h].id, FALSE)>> \o Kept(t, other)
  BY Zenon DEF Remaining
<1> HIDE DEF primaries, other
<1>5. ASSUME NEW I, I \subseteq rest
      PROVE  Kept(t, I) \in Seq(EntryType) /\ \A e \in Range(Kept(t, I)) : e.id # id /\ Survives(e, t)
  <2>1. \A i \in I \cap DOMAIN t : t[i].id # id
    BY <1>1, <1>5
  <2> HIDE DEF rest
  <2> QED BY <2>1, KeptSurvive, Zenon DEF Survives
<1>6. CASE Remaining(t, id, prom) = Kept(t, rest)
  BY <1>5, <1>6
<1>7. CASE Remaining(t, id, prom) = Kept(t, rest \ heirs)
  <2>1. rest \ heirs \subseteq rest
    OBVIOUS
  <2> HIDE DEF rest, heirs
  <2> QED BY <1>5, <1>7, <2>1
<1>8. CASE /\ heirs # {}
           /\ Remaining(t, id, prom) = Kept(t, primaries) \o <<Entry(t[h].id, FALSE)>> \o Kept(t, other)
  <2> DEFINE a == Kept(t, primaries)
             m == <<Entry(t[h].id, FALSE)>>
             b == Kept(t, other)
  <2>1. /\ a \in Seq(EntryType) /\ \A e \in Range(a) : e.id # id /\ Survives(e, t)
        /\ b \in Seq(EntryType) /\ \A e \in Range(b) : e.id # id /\ Survives(e, t)
    <3> HIDE DEF rest
    <3> QED BY <1>2, <1>5
  <2>2. h \in rest /\ h \in DOMAIN t /\ t[h] \in EntryType /\ t[h].id # id /\ t[h].secondary
    BY <1>0, <1>1, <1>3, <1>8, Zenon
  <2> HIDE DEF h
  <2>3. t[h].id \in Entries /\ t[h] = Entry(t[h].id, TRUE)
    BY <2>2 DEF EntryType, Entry
  <2>4. /\ m \in Seq(EntryType) /\ Range(m) = {Entry(t[h].id, FALSE)}
    <3>1. Entry(t[h].id, FALSE) \in EntryType
      BY <2>3 DEF EntryType, Entry
    <3> QED BY <3>1, SingleSet, Zenon
  <2>5. \A e \in Range(m) : e.id # id /\ Survives(e, t)
    <3>1. Entry(t[h].id, TRUE) \in Range(t)
      BY <2>2, <2>3, Zenon DEF Range
    <3>2. Entry(t[h].id, FALSE).id = t[h].id
      BY DEF Entry
    <3> QED BY <2>2, <2>4, <3>1, <3>2, Zenon DEF Survives
  <2> HIDE DEF a, m, b
  <2>t. a \in Seq(EntryType) /\ m \in Seq(EntryType) /\ b \in Seq(EntryType)
    BY <2>1, <2>4
  <2>6. a \o m \in Seq(EntryType) /\ Range(a \o m) = Range(a) \cup Range(m)
    BY <2>t, ConcatSet
  <2> DEFINE c == a \o m
  <2>7. c \o b \in Seq(EntryType) /\ Range(c \o b) = Range(c) \cup Range(b)
    <3>1. c \in Seq(EntryType)
      BY <2>6
    <3> HIDE DEF c
    <3> QED BY <2>t, <3>1, ConcatSet
  <2>8. Remaining(t, id, prom) = c \o b
    BY <1>8 DEF a, m, b
  <2> QED BY <2>1, <2>5, <2>6, <2>7, <2>8
<1> QED BY <1>4, <1>6, <1>7, <1>8, Zenon

\* What survives two deletions survives both.
LEMMA SurvivesTwice ==
  ASSUME NEW t, NEW u, NEW e, Survives(e, u), \A x \in Range(u) : Survives(x, t)
  PROVE  Survives(e, t)
<1>1. CASE e \in Range(u)
  BY <1>1
<1>2. CASE e = Entry(e.id, FALSE) /\ Entry(e.id, TRUE) \in Range(u)
  <2>1. Survives(Entry(e.id, TRUE), t) /\ Entry(e.id, TRUE).id = e.id
    BY <1>2 DEF Entry
  <2>2. Entry(e.id, TRUE) # Entry(e.id, FALSE)
    BY DEF Entry
  <2>3. Entry(e.id, TRUE) \in Range(t)
    BY <2>1, <2>2, Zenon DEF Survives
  <2> QED BY <1>2, <2>3, Zenon DEF Survives
<1> QED BY <1>1, <1>2, Zenon DEF Survives

(***************************************************************************)
(* The table stays one: each entry once, the primary ones first.           *)
(***************************************************************************)
LEMMA KeptTable ==
  ASSUME NEW t, IsTable(t), NEW I
  PROVE  IsTable(Kept(t, I))
<1>0. t \in Seq(EntryType)
  BY DEF IsTable
<1> DEFINE u == Kept(t, I)
<1>1. u \in Seq(EntryType)
  BY <1>0, KeptType
<1>2. ASSUME NEW k \in DOMAIN u, NEW m \in DOMAIN u, k < m PROVE Before(u[k], u[m])
  <2>1. PICK i \in DOMAIN t \cap I, j \in DOMAIN t \cap I : i < j /\ u[k] = t[i] /\ u[m] = t[j]
    BY <1>0, <1>2, KeptOrder
  <2>2. Before(t[i], t[j])
    BY <2>1 DEF IsTable
  <2> QED BY <2>1, <2>2
<1> HIDE DEF u
<1>3. IsTable(u)
  BY <1>1, <1>2 DEF IsTable
<1> QED BY <1>3 DEF u

LEMMA ConcatTable ==
  ASSUME NEW a, NEW b, IsTable(a), IsTable(b), \A x \in Range(a), y \in Range(b) : Before(x, y)
  PROVE  IsTable(a \o b)
<1> DEFINE c == a \o b
<1>0. a \in Seq(EntryType) /\ b \in Seq(EntryType)
  BY DEF IsTable
<1>1. /\ c \in Seq(EntryType)
      /\ DOMAIN c = 1 .. Len(a) + Len(b) /\ DOMAIN a = 1 .. Len(a) /\ Len(a) \in Nat
      /\ DOMAIN b = 1 .. Len(b) /\ Len(b) \in Nat
      /\ \A i \in 1 .. Len(a) + Len(b) : c[i] = IF i <= Len(a) THEN a[i] ELSE b[i - Len(a)]
  BY <1>0
<1> HIDE DEF c
<1>2. ASSUME NEW i \in DOMAIN c, NEW j \in DOMAIN c, i < j PROVE Before(c[i], c[j])
  <2>1. CASE j <= Len(a)
    <3>1. i \in DOMAIN a /\ j \in DOMAIN a /\ c[i] = a[i] /\ c[j] = a[j]
      BY <1>1, <1>2, <2>1
    <3> QED BY <1>2, <3>1 DEF IsTable
  <2>2. CASE ~(i <= Len(a))
    <3> DEFINE k == i - Len(a)
               m == j - Len(a)
    <3>1. k \in DOMAIN b /\ m \in DOMAIN b /\ k < m /\ c[i] = b[k] /\ c[j] = b[m]
      BY <1>1, <1>2, <2>2
    <3> HIDE DEF k, m
    <3> QED BY <3>1 DEF IsTable
  <2>3. CASE i <= Len(a) /\ ~(j <= Len(a))
    <3>1. i \in DOMAIN a /\ j - Len(a) \in DOMAIN b /\ c[i] = a[i] /\ c[j] = b[j - Len(a)]
      BY <1>1, <1>2, <2>3
    <3>2. c[i] \in Range(a) /\ c[j] \in Range(b)
      BY <3>1 DEF Range
    <3> QED BY <3>2
  <2>4. i <= Len(a) \/ ~(j <= Len(a))
    BY <1>1, <1>2
  <2> QED BY <2>1, <2>2, <2>3, <2>4
<1> QED BY <1>1, <1>2 DEF IsTable, c

LEMMA SingleTable ==
  ASSUME NEW e \in EntryType
  PROVE  IsTable(<<e>>) /\ Range(<<e>>) = {e}
<1> DEFINE s == <<e>>
<1>1. s \in Seq(EntryType) /\ DOMAIN s = {1} /\ Range(s) = {e}
  BY DEF Range
<1>2. \A i, j \in {1} : ~(i < j)
  OBVIOUS
<1> HIDE DEF s
<1>3. IsTable(s)
  BY <1>1, <1>2 DEF IsTable
<1> QED BY <1>1, <1>3 DEF s

\* Entries at different places have different names.
LEMMA TableDistinct ==
  ASSUME NEW t, IsTable(t), NEW i \in DOMAIN t, NEW j \in DOMAIN t, i # j
  PROVE  t[i].id # t[j].id
<1>1. i \in Nat /\ j \in Nat
  BY DEF IsTable
<1>2. i < j \/ j < i
  BY <1>1
<1> QED BY <1>2, Zenon DEF IsTable, Before

LEMMA RemainingTable ==
  ASSUME NEW t, IsTable(t), NEW id, NEW prom
  PROVE  IsTable(Remaining(t, id, prom))
<1> DEFINE rest  == DOMAIN t \ Positions(t, id)
           heirs == {i \in rest : t[i].secondary /\ Subnet[t[i].id] = Subnet[id]}
           primaries == {i \in rest : ~t[i].secondary}
           h == Min(heirs)
           other == rest \ (primaries \cup {h})
<1>0. t \in Seq(EntryType) /\ \A i \in DOMAIN t : t[i] \in EntryType /\ i \in Nat
  BY DEF IsTable
<1>1. \/ Remaining(t, id, prom) = Kept(t, rest)
      \/ Remaining(t, id, prom) = Kept(t, rest \ heirs)
      \/ /\ heirs # {}
         /\ Remaining(t, id, prom) = Kept(t, primaries) \o <<Entry(t[h].id, FALSE)>> \o Kept(t, other)
  BY Zenon DEF Remaining
<1>2. CASE heirs # {} /\ Remaining(t, id, prom) = Kept(t, primaries) \o <<Entry(t[h].id, FALSE)>> \o Kept(t, other)
  <2> DEFINE a == Kept(t, primaries)
             x == Entry(t[h].id, FALSE)
             m == <<x>>
             b == Kept(t, other)
  <2>1. h \in heirs
    <3>1. heirs \subseteq Nat
      BY <1>0
    <3> HIDE DEF heirs
    <3>2. \E y \in heirs : \A z \in heirs : y <= z
      BY <1>2, <3>1, LeastNat, Zenon
    <3> QED BY <3>2 DEF Min
  <2>2. h \in DOMAIN t /\ t[h].secondary /\ h \notin primaries /\ h \notin other /\ t[h] \in EntryType
    BY <1>0, <2>1, Zenon
  <2>3. x \in EntryType /\ x.id = t[h].id /\ ~x.secondary
    BY <2>2, Zenon DEF EntryType, Entry
  <2>4. \A i \in primaries : i \in DOMAIN t /\ ~t[i].secondary /\ i \notin other /\ i # h
    BY <2>2
  <2>5. \A i \in other : i \in DOMAIN t /\ i # h
    OBVIOUS
  <2> HIDE DEF h, heirs, primaries, other, rest
  <2>6. Range(a) = {t[i] : i \in DOMAIN t \cap primaries} /\ Range(b) = {t[i] : i \in DOMAIN t \cap other}
    BY <1>0, KeptSet
  <2>7. IsTable(a) /\ IsTable(b) /\ IsTable(m) /\ Range(m) = {x}
    BY <2>3, KeptTable, SingleTable, Zenon
  <2> HIDE DEF a, x, m, b
  <2>8. \A y \in Range(a), z \in Range(m) : Before(y, z)
    <3> SUFFICES ASSUME NEW y \in Range(a) PROVE Before(y, x)
      BY <2>7
    <3>1. PICK i \in primaries : y = t[i]
      BY <2>6
    <3>2. t[i].id # t[h].id /\ ~t[i].secondary
      BY <2>2, <2>4, TableDistinct
    <3> QED BY <2>3, <3>1, <3>2 DEF Before
  <2>9. \A y \in Range(m), z \in Range(b) : Before(y, z)
    <3> SUFFICES ASSUME NEW z \in Range(b) PROVE Before(x, z)
      BY <2>7
    <3>1. PICK i \in other : z = t[i]
      BY <2>6
    <3>2. t[h].id # t[i].id
      BY <2>2, <2>5, TableDistinct
    <3> QED BY <2>3, <3>1, <3>2 DEF Before
  <2>10. \A y \in Range(a), z \in Range(b) : Before(y, z)
    <3> SUFFICES ASSUME NEW y \in Range(a), NEW z \in Range(b) PROVE Before(y, z)
      OBVIOUS
    <3>1. PICK i \in primaries : y = t[i]
      BY <2>6
    <3>2. PICK j \in other : z = t[j]
      BY <2>6
    <3>3. t[i].id # t[j].id /\ ~t[i].secondary
      BY <2>4, <2>5, TableDistinct
    <3> QED BY <3>1, <3>2, <3>3 DEF Before
  <2> DEFINE c == a \o m
  <2>11. IsTable(c) /\ Range(c) = Range(a) \cup Range(m)
    <3>1. IsTable(a \o m)
      BY <2>7, <2>8, ConcatTable
    <3>2. Range(a \o m) = Range(a) \cup Range(m)
      BY <2>7, ConcatSet DEF IsTable
    <3> QED BY <3>1, <3>2
  <2> HIDE DEF c
  <2>12. IsTable(c \o b)
    BY <2>7, <2>9, <2>10, <2>11, ConcatTable
  <2> QED BY <1>2, <2>12 DEF a, x, m, b, c
<1> HIDE DEF rest, heirs
<1> QED BY <1>1, <1>2, KeptTable, Zenon

(***************************************************************************)
(* An entry is added behind those of its kind: the others move by at most  *)
(* one place, and towards the end.                                         *)
(***************************************************************************)
Inserted(t, e) == IF e.secondary THEN Append(t, e) ELSE Primaries(t) \o <<e>> \o Secondaries(t)

LEMMA InsertShape ==
  ASSUME NEW t, IsTable(t), NEW e \in EntryType
  PROVE  \A i \in DOMAIN Inserted(t, e) :
            Inserted(t, e)[i] = e \/ \E j \in DOMAIN t : j <= i /\ Inserted(t, e)[i] = t[j]
<1> DEFINE n == Len(t)
           u == Inserted(t, e)
<1>0. t \in Seq(EntryType) /\ n \in Nat /\ DOMAIN t = 1 .. n /\ \A i \in DOMAIN t : t[i].secondary \in BOOLEAN
  <2>1. t \in Seq(EntryType) /\ n \in Nat /\ DOMAIN t = 1 .. n
    BY DEF IsTable
  <2>2. \A i \in DOMAIN t : t[i] \in EntryType
    BY <2>1
  <2> QED BY <2>1, <2>2 DEF EntryType
<1>1. CASE e.secondary
  <2>1. u = Append(t, e)
    BY <1>1 DEF Inserted
  <2>2. \A i \in DOMAIN Append(t, e) : Append(t, e)[i] = e \/ (i \in DOMAIN t /\ i <= i /\ Append(t, e)[i] = t[i])
    BY <1>0
  <2> HIDE DEF u
  <2>3. \A i \in DOMAIN u : u[i] = e \/ \E j \in DOMAIN t : j <= i /\ u[i] = t[j]
    BY <2>1, <2>2
  <2> QED BY <2>3 DEF u
<1>2. CASE ~e.secondary
  <2> DEFINE I == {i \in DOMAIN t : ~t[i].secondary}
             J == {i \in DOMAIN t : t[i].secondary}
             T == {m \in 0 .. n : \A i \in DOMAIN t : m < i => t[i].secondary}
             a == Kept(t, I)
             b == Kept(t, J)
             c == a \o <<e>>
  <2>1. T \subseteq Nat /\ n \in T
    BY <1>0
  <2>2. PICK p \in T : \A m \in T : p <= m
    <3> HIDE DEF T
    <3> QED BY <2>1, LeastNat, Zenon
  <2>3. p \in Nat /\ p <= n /\ \A i \in DOMAIN t : p < i => t[i].secondary
    BY <1>0, <2>2
  <2>4. ASSUME NEW i \in DOMAIN t, i <= p, t[i].secondary PROVE FALSE
    <3>1. i \in Nat /\ 1 <= i /\ i <= n
      BY <1>0
    <3>2. ASSUME NEW k \in DOMAIN t, i - 1 < k PROVE t[k].secondary
      <4>1. k = i \/ i < k
        BY <1>0, <3>1, <3>2
      <4> QED BY <2>4, <4>1 DEF IsTable, Before
    <3>3. i - 1 \in T
      BY <1>0, <3>1, <3>2
    <3> HIDE DEF T
    <3>4. p <= i - 1
      BY <2>2, <3>3
    <3> QED BY <2>3, <2>4, <3>1, <3>4
  <2>5. \A i \in DOMAIN t : (i \in I <=> (0 < i /\ i <= p)) /\ (i \in J <=> (p < i /\ i <= n))
    <3> SUFFICES ASSUME NEW i \in DOMAIN t
                 PROVE  (i \in I <=> (0 < i /\ i <= p)) /\ (i \in J <=> (p < i /\ i <= n))
      OBVIOUS
    <3>1. i \in Nat /\ 0 < i /\ i <= n /\ (i \in I <=> ~t[i].secondary) /\ (i \in J <=> t[i].secondary)
      BY <1>0
    <3>2. p < i => t[i].secondary
      BY <2>3
    <3>3. i <= p => ~t[i].secondary
      BY <2>4
    <3> HIDE DEF I, J
    <3> QED BY <2>3, <3>1, <3>2, <3>3
  <2>6. u = c \o b
    BY <1>2, Zenon DEF Inserted, Primaries, Secondaries
  <2> HIDE DEF I, J, T, u
  <2>7. /\ a \in Seq(EntryType) /\ Len(a) = p
        /\ \A k \in 1 .. p : a[k] = t[k]
    <3>1. 0 \in Nat /\ 0 <= p /\ p <= Len(t) /\ Between(I, t, 0, p)
      BY <2>3, <2>5 DEF Between
    <3>2. a \in Seq(EntryType) /\ IsBlock(a, t, 0, p)
      BY <1>0, <2>3, <3>1, KeptBlock
    <3> HIDE DEF a
    <3>3. p - 0 = p /\ \A k \in 1 .. p : 0 + k = k
      BY <2>3
    <3> QED BY <3>2, <3>3 DEF IsBlock
  <2>8. /\ b \in Seq(EntryType) /\ Len(b) = n - p
        /\ \A k \in 1 .. n - p : b[k] = t[p + k]
    <3>1. n <= Len(t) /\ Between(J, t, p, n)
      BY <1>0, <2>5 DEF Between
    <3>2. b \in Seq(EntryType) /\ IsBlock(b, t, p, n)
      BY <1>0, <2>3, <3>1, KeptBlock
    <3> HIDE DEF b
    <3> QED BY <3>2 DEF IsBlock
  <2> HIDE DEF a, b
  <2>9. /\ c \in Seq(EntryType) /\ Len(c) = p + 1
        /\ \A i \in 1 .. p + 1 : c[i] = IF i <= p THEN a[i] ELSE e
    BY <2>3, <2>7
  <2> HIDE DEF c
  <2>10. /\ DOMAIN u = 1 .. n + 1
         /\ \A i \in 1 .. n + 1 : u[i] = IF i <= p + 1 THEN c[i] ELSE b[i - (p + 1)]
    BY <1>0, <2>3, <2>6, <2>8, <2>9
  <2> HIDE DEF n
  <2>11. ASSUME NEW i \in DOMAIN u PROVE u[i] = e \/ \E j \in DOMAIN t : j <= i /\ u[i] = t[j]
    <3>0. i \in Nat /\ 1 <= i /\ i <= n + 1 /\ i \in 1 .. n + 1
      BY <1>0, <2>10
    <3>1. CASE i <= p
      <4>1. i <= p + 1 /\ i \in 1 .. p + 1 /\ i \in 1 .. p
        BY <2>3, <3>0, <3>1
      <4>2. u[i] = t[i] /\ i \in DOMAIN t /\ i <= i
        BY <1>0, <2>3, <2>7, <2>9, <2>10, <3>0, <3>1, <4>1
      <4> QED BY <4>2
    <3>2. CASE i = p + 1
      <4>1. i <= p + 1 /\ i \in 1 .. p + 1 /\ ~(i <= p)
        BY <2>3, <3>0, <3>2
      <4> QED BY <2>9, <2>10, <3>0, <4>1
    <3>3. CASE p + 1 < i
      <4> DEFINE k == i - (p + 1)
      <4>0. n \in Nat /\ p \in Nat
        BY <1>0, <2>3 DEF n
      <4>1. k \in 1 .. n - p /\ ~(i <= p + 1) /\ p + k = i - 1
        BY <2>3, <3>0, <3>3, <4>0
      <4>2. u[i] = b[k]
        BY <2>10, <3>0, <4>1
      <4> HIDE DEF k
      <4>3. u[i] = t[i - 1]
        BY <2>8, <4>1, <4>2
      <4>4. i - 1 \in DOMAIN t /\ i - 1 <= i
        BY <1>0, <2>3, <3>0, <3>3
      <4> QED BY <4>3, <4>4
    <3> QED BY <2>3, <3>0, <3>1, <3>2, <3>3
  <2> QED BY <2>11 DEF u
<1> QED BY <1>1, <1>2

LEMMA InsertTable ==
  ASSUME NEW t, IsTable(t), NEW e \in EntryType, Positions(t, e.id) = {}
  PROVE  IsTable(Inserted(t, e)) /\ Range(Inserted(t, e)) \subseteq Range(t) \cup {e}
<1> DEFINE I == {i \in DOMAIN t : ~t[i].secondary}
           J == {i \in DOMAIN t : t[i].secondary}
           a == Kept(t, I)
           m == <<e>>
           b == Kept(t, J)
<1>0. t \in Seq(EntryType) /\ \A i \in DOMAIN t : t[i].id # e.id
  BY DEF IsTable, Positions
<1>1. IsTable(m) /\ Range(m) = {e} /\ m \in Seq(EntryType)
  BY SingleTable DEF IsTable
<1>2. CASE e.secondary
  <2>1. Inserted(t, e) = t \o m
    BY <1>0, <1>2 DEF Inserted
  <2>2. \A x \in Range(t) : Before(x, e)
    BY <1>0, <1>2 DEF Before, Range
  <2> HIDE DEF m
  <2>3. IsTable(t \o m) /\ Range(t \o m) = Range(t) \cup Range(m)
    BY <1>0, <1>1, <2>2, ConcatTable, ConcatSet
  <2> QED BY <1>1, <2>1, <2>3
<1>3. CASE ~e.secondary
  <2>1. Inserted(t, e) = (a \o m) \o b
    BY <1>3, Zenon DEF Inserted, Primaries, Secondaries
  <2>2. \A i \in I : i \in DOMAIN t /\ ~t[i].secondary
    OBVIOUS
  <2>3. \A i \in J : i \in DOMAIN t /\ t[i].secondary
    OBVIOUS
  <2> HIDE DEF I, J
  <2>4. Range(a) = {t[i] : i \in DOMAIN t \cap I} /\ Range(b) = {t[i] : i \in DOMAIN t \cap J}
    BY <1>0, KeptSet
  <2>5. IsTable(a) /\ IsTable(b)
    BY KeptTable
  <2> HIDE DEF a, b, m
  <2>6. \A x \in Range(a), y \in Range(m) : Before(x, y)
    BY <1>0, <1>1, <2>2, <2>4 DEF Before
  <2>7. \A y \in Range(m), z \in Range(b) : Before(y, z)
    BY <1>0, <1>1, <1>3, <2>3, <2>4 DEF Before
  <2>8. ASSUME NEW x \in Range(a), NEW z \in Range(b) PROVE Before(x, z)
    <3>1. PICK i \in DOMAIN t \cap I : x = t[i]
      BY <2>4
    <3>2. PICK j \in DOMAIN t \cap J : z = t[j]
      BY <2>4
    <3>3. i # j /\ ~t[i].secondary
      BY <2>2, <2>3
    <3>4. t[i].id # t[j].id
      BY <3>3, TableDistinct
    <3> QED BY <3>1, <3>2, <3>3, <3>4 DEF Before
  <2> DEFINE c == a \o m
  <2>9. IsTable(c) /\ Range(c) = Range(a) \cup Range(m) /\ c \in Seq(EntryType) /\ b \in Seq(EntryType)
    <3>1. IsTable(a \o m)
      BY <1>1, <2>5, <2>6, ConcatTable
    <3>2. Range(a \o m) = Range(a) \cup Range(m)
      BY <1>1, <2>5, ConcatSet DEF IsTable
    <3> QED BY <2>5, <3>1, <3>2 DEF IsTable
  <2> HIDE DEF c
  <2>10. IsTable(c \o b) /\ Range(c \o b) = Range(c) \cup Range(b)
    BY <2>5, <2>7, <2>8, <2>9, ConcatTable, ConcatSet
  <2>11. Range(a) \subseteq Range(t) /\ Range(b) \subseteq Range(t)
    BY <2>4 DEF Range
  <2>12. Inserted(t, e) = c \o b
    BY <2>1 DEF c
  <2> QED BY <1>1, <2>9, <2>10, <2>11, <2>12
<1> QED BY <1>2, <1>3

(***************************************************************************)
(* One request, and a buffer of them: what is asked for is gone, the other *)
(* entries stay or are promoted or gone with a primary, and each error has *)
(* the sequence number of a request.                                       *)
(***************************************************************************)
RequestType == [id : Entries, seq : 0 .. SeqLimit - 1]

Error(s) == [type |-> "ERROR", seq |-> s, msgs |-> <<>>]

ErrorType(S) == {Error(s) : s \in S}

KernelState(S) == [table : Seq(EntryType), errors : Seq(ErrorType(S))]

LEMMA DeleteShape ==
  ASSUME NEW S, NEW k \in KernelState(S), NEW r, r.seq \in S
  PROVE  /\ Delete(k, r) \in KernelState(S)
         /\ \A e \in Range(Delete(k, r).table) : e.id # r.id /\ Survives(e, k.table)
<1>0. k.table \in Seq(EntryType) /\ k.errors \in Seq(ErrorType(S)) /\ k = [table |-> k.table, errors |-> k.errors]
  BY DEF KernelState
<1>1. CASE Positions(k.table, r.id) = {}
  <2>1. Delete(k, r) = [table |-> k.table, errors |-> Append(k.errors, Error(r.seq))]
    BY <1>0, <1>1, Zenon DEF Delete, Error
  <2>2. Error(r.seq) \in ErrorType(S)
    BY DEF ErrorType
  <2>3. Append(k.errors, Error(r.seq)) \in Seq(ErrorType(S))
    BY <1>0, <2>2, AppendSet
  <2>4. \A e \in Range(k.table) : e.id # r.id /\ Survives(e, k.table)
    BY <1>1, Zenon DEF Positions, Range, Survives
  <2> QED BY <1>0, <2>1, <2>3, <2>4 DEF KernelState
<1>2. CASE Positions(k.table, r.id) # {}
  <2>1. Delete(k, r) = [table |-> Remaining(k.table, r.id, promote), errors |-> k.errors]
    BY <1>0, <1>2 DEF Delete
  <2>2. /\ Remaining(k.table, r.id, promote) \in Seq(EntryType)
        /\ \A e \in Range(Remaining(k.table, r.id, promote)) : e.id # r.id /\ Survives(e, k.table)
    BY <1>0, RemainingShape
  <2> QED BY <1>0, <2>1, <2>2 DEF KernelState
<1> QED BY <1>1, <1>2

Fresh == [table |-> table, errors |-> <<>>]

IsAfter(f, q) ==
  f = [n \in 0 .. Len(q) |-> IF n = 0 THEN Fresh ELSE Delete(f[n - 1], q[n])]

SeqsOf(q) == {q[i].seq : i \in DOMAIN q}

\* The states of the kernel between the requests.
Handles(f, q) ==
  /\ f \in [0 .. Len(q) -> KernelState(SeqsOf(q))]
  /\ f[0] = Fresh
  /\ \A n \in 1 .. Len(q) : f[n] = Delete(f[n - 1], q[n])
  /\ Sent(q) = f[Len(q)]

LEMMA SentAfter ==
  ASSUME NEW q
  PROVE  Sent(q) = (CHOOSE f : IsAfter(f, q))[Len(q)]
  BY DEF Sent, IsAfter, Fresh

LEMMA AfterExists ==
  ASSUME table \in Seq(EntryType), NEW q \in Seq(RequestType)
  PROVE  \E f : Handles(f, q)
<1> DEFINE n == Len(q)
           Y == KernelState(SeqsOf(q))
           st == [i \in 1 .. n |-> [k \in Y |-> Delete(k, q[i])]]
<1>0. n \in Nat /\ \A i \in 1 .. n : q[i].seq \in SeqsOf(q)
  BY DEF SeqsOf
<1>1. \A i \in 1 .. n : \A k \in Y : Delete(k, q[i]) \in Y
  <2> SUFFICES ASSUME NEW i \in 1 .. n, NEW k \in Y PROVE Delete(k, q[i]) \in Y
    OBVIOUS
  <2> DEFINE r == q[i]
  <2>1. r.seq \in SeqsOf(q)
    BY <1>0
  <2> HIDE DEF r, n
  <2>2. Delete(k, r) \in Y
    BY <2>1, DeleteShape
  <2> QED BY <2>2 DEF r
<1>2. Fresh \in Y
  <2>1. <<>> \in Seq(ErrorType(SeqsOf(q)))
    OBVIOUS
  <2> QED BY <2>1 DEF Fresh, KernelState
<1> HIDE DEF Y
<1>3. Steps(st, n, Y)
  BY <1>1 DEF Steps
<1>4. \E f : Computes(f, Fresh, st, n, Y)
  <2> HIDE DEF st, n
  <2> QED BY <1>0, <1>2, <1>3, Recursion
<1>5. PICK f \in [0 .. n -> Y] : f[0] = Fresh /\ \A i \in 1 .. n : f[i] = st[i][f[i - 1]]
  BY <1>4, Zenon DEF Computes
<1>6. \A i \in 1 .. n : f[i - 1] \in Y /\ f[i] = Delete(f[i - 1], q[i])
  <2> SUFFICES ASSUME NEW i \in 1 .. n PROVE f[i - 1] \in Y /\ f[i] = Delete(f[i - 1], q[i])
    OBVIOUS
  <2>1. f[i - 1] \in Y
    BY <1>0
  <2> QED BY <1>5, <2>1, Zenon
<1>7. IsAfter(f, q)
  <2>1. ASSUME NEW i \in 0 .. n PROVE f[i] = IF i = 0 THEN Fresh ELSE Delete(f[i - 1], q[i])
    <3>1. CASE i = 0
      BY <3>1, <1>5
    <3>2. CASE i # 0
      <4>1. i \in 1 .. n
        BY <3>2, <1>0
      <4> QED BY <3>2, <4>1, <1>6
    <3> QED BY <3>1, <3>2
  <2>2. f = [i \in 0 .. n |-> f[i]]
    OBVIOUS
  <2> QED BY <2>1, <2>2 DEF IsAfter
<1>8. PICK g : IsAfter(g, q) /\ Sent(q) = g[n]
  <2>1. IsAfter(CHOOSE h : IsAfter(h, q), q)
    BY <1>7
  <2> QED BY <2>1, SentAfter
<1>9. \A i \in 0 .. n : g[i] = IF i = 0 THEN Fresh ELSE Delete(g[i - 1], q[i])
  BY <1>8 DEF IsAfter
<1>10. g[n] = f[n]
  <2> DEFINE Q == {i \in Nat : i <= n => g[i] = f[i]}
  <2>1. 0 \in Q
    BY <1>0, <1>5, <1>9
  <2>2. ASSUME NEW i \in Nat, i \in Q PROVE i + 1 \in Q
    <3> SUFFICES ASSUME i + 1 <= n PROVE g[i + 1] = f[i + 1]
      OBVIOUS
    <3>1. i + 1 \in 1 .. n /\ i + 1 \in 0 .. n /\ i + 1 # 0 /\ (i + 1) - 1 = i /\ g[i] = f[i]
      BY <2>2, <1>0
    <3> QED BY <3>1, <1>6, <1>9
  <2>3. n \in Q
    <3> HIDE DEF Q
    <3> QED BY <1>0, <2>1, <2>2, NatInduct
  <2> QED BY <2>3, <1>0
<1> QED BY <1>5, <1>6, <1>8, <1>10 DEF Handles, Y

LEMMA SentShape ==
  ASSUME table \in Seq(EntryType), NEW q \in Seq(RequestType)
  PROVE  /\ Sent(q).table \in Seq(EntryType)
         /\ Sent(q).errors \in Seq(ErrorType(SeqsOf(q)))
         /\ \A e \in Range(Sent(q).table) : Survives(e, table) /\ \A i \in DOMAIN q : e.id # q[i].id
<1> DEFINE n == Len(q)
<1>0. n \in Nat /\ DOMAIN q = 1 .. n /\ \A i \in 1 .. n : q[i].seq \in SeqsOf(q)
  BY DEF SeqsOf
<1>1. PICK f : Handles(f, q)
  BY AfterExists
<1>2. \A i \in 0 .. n : f[i] \in KernelState(SeqsOf(q))
  BY <1>1, Zenon DEF Handles
<1> DEFINE Ok(i) == \A e \in Range(f[i].table) : Survives(e, table) /\ \A j \in 1 .. i : e.id # q[j].id
           P == {i \in Nat : i <= n => Ok(i)}
<1>3. 0 \in P
  <2>1. f[0].table = table
    BY <1>1 DEF Handles, Fresh
  <2>2. \A e \in Range(f[0].table) : Survives(e, table)
    BY <2>1, Zenon DEF Survives
  <2>3. \A j \in 1 .. 0 : FALSE
    OBVIOUS
  <2>4. Ok(0)
    BY <2>2, <2>3
  <2> QED BY <2>4
<1>4. ASSUME NEW i \in Nat, i \in P PROVE i + 1 \in P
  <2> SUFFICES ASSUME i + 1 <= n PROVE Ok(i + 1)
    OBVIOUS
  <2>1. i \in 0 .. n /\ i + 1 \in 1 .. n /\ (i + 1) - 1 = i /\ Ok(i)
    BY <1>0, <1>4
  <2>2. f[i + 1] = Delete(f[i], q[i + 1]) /\ f[i] \in KernelState(SeqsOf(q)) /\ q[i + 1].seq \in SeqsOf(q)
    BY <1>0, <1>1, <1>2, <2>1 DEF Handles
  <2>3. \A e \in Range(f[i + 1].table) : e.id # q[i + 1].id /\ Survives(e, f[i].table)
    <3> DEFINE r == q[i + 1]
               k == f[i]
    <3>1. k \in KernelState(SeqsOf(q)) /\ r.seq \in SeqsOf(q)
      BY <2>2
    <3> HIDE DEF r, k
    <3>2. \A e \in Range(Delete(k, r).table) : e.id # r.id /\ Survives(e, k.table)
      BY <3>1, DeleteShape, Zenon
    <3> QED BY <2>2, <3>2 DEF r, k
  <2>4. ASSUME NEW e \in Range(f[i + 1].table)
        PROVE  Survives(e, table) /\ \A j \in 1 .. i + 1 : e.id # q[j].id
    <3>1. Survives(e, f[i].table) /\ e.id # q[i + 1].id
      BY <2>3
    <3>2. Survives(e, table)
      BY <2>1, <3>1, SurvivesTwice
    <3>3. \A j \in 1 .. i : e.id # q[j].id
      <4>1. PICK x \in Range(f[i].table) : x.id = e.id
        BY <3>1 DEF Survives, Entry
      <4> QED BY <2>1, <4>1
    <3>4. \A j \in 1 .. i + 1 : j = i + 1 \/ j \in 1 .. i
      OBVIOUS
    <3> QED BY <3>1, <3>2, <3>3, <3>4
  <2> QED BY <2>4
<1>5. n \in P
  <2> HIDE DEF P
  <2> QED BY <1>0, <1>3, <1>4, NatInduct
<1>6. Ok(n) /\ Sent(q) = f[n] /\ f[n] \in KernelState(SeqsOf(q))
  BY <1>0, <1>1, <1>2, <1>5 DEF Handles
<1> HIDE DEF n
<1> QED BY <1>0, <1>6 DEF KernelState

LEMMA SentTable ==
  ASSUME IsTable(table), NEW q \in Seq(RequestType)
  PROVE  IsTable(Sent(q).table)
<1> DEFINE n == Len(q)
<1>0. n \in Nat /\ table \in Seq(EntryType)
  BY DEF IsTable
<1>1. PICK f : Handles(f, q)
  BY <1>0, AfterExists
<1>2. \A i \in 0 .. n : f[i] \in KernelState(SeqsOf(q))
  BY <1>1, Zenon DEF Handles
<1> DEFINE P == {i \in Nat : i <= n => IsTable(f[i].table)}
<1>3. 0 \in P
  <2>1. f[0].table = table
    BY <1>1 DEF Handles, Fresh
  <2> QED BY <2>1
<1>4. ASSUME NEW i \in Nat, i \in P PROVE i + 1 \in P
  <2> SUFFICES ASSUME i + 1 <= n PROVE IsTable(f[i + 1].table)
    OBVIOUS
  <2> DEFINE k == f[i]
             r == q[i + 1]
  <2>1. IsTable(k.table) /\ f[i + 1] = Delete(k, r) /\ k \in KernelState(SeqsOf(q))
    <3>1. i \in 0 .. n /\ i + 1 \in 1 .. n /\ (i + 1) - 1 = i /\ i <= n
      BY <1>0
    <3> QED BY <1>1, <1>2, <1>4, <3>1 DEF Handles
  <2> HIDE DEF k, r
  <2>2. Delete(k, r).table \in {k.table, Remaining(k.table, r.id, promote)}
    BY <2>1 DEF Delete, KernelState
  <2> QED BY <2>1, <2>2, RemainingTable
<1>5. n \in P
  <2> HIDE DEF P
  <2> QED BY <1>0, <1>3, <1>4, NatInduct
<1>6. IsTable(f[n].table) /\ Sent(q) = f[n]
  BY <1>0, <1>1, <1>5 DEF Handles
<1> QED BY <1>6

-----------------------------------------------------------------------------
SeqNumbers == 0 .. SeqLimit - 1

DatagramType ==
  {d \in [type : {"NEW", "DONE", "ERROR", "ACK"}, seq : SeqNumbers, msgs : Seq(EntryType)] :
      Len(d.msgs) <= DumpSize /\ (d.type # "NEW" => d.msgs = <<>>)}

SockTypeOK ==
  /\ table \in Seq(EntryType)
  /\ pos \in Nat
  /\ queue \in Seq(DatagramType)
  /\ overrun \in BOOLEAN
  /\ rth \in [seq : SeqNumbers, dump : SeqNumbers]

(***************************************************************************)
(* Sequence numbers: the next one, and how many were given out since.      *)
(***************************************************************************)
Age(r, s) == IF s <= r THEN r - s ELSE r + SeqLimit - s

LEMMA NextSeqType ==
  ASSUME NEW r \in SeqNumbers
  PROVE  NextSeq(r) \in SeqNumbers /\ NextSeq(r) = IF r + 1 = SeqLimit THEN 0 ELSE r + 1
<1>1. SeqLimit \in Nat \ {0} /\ r \in Nat /\ r < SeqLimit
  BY NetlinkAssumption DEF SeqNumbers
<1>2. CASE r + 1 = SeqLimit
  <2>1. (r + 1) % SeqLimit = 0
    BY <1>1, <1>2
  <2> QED BY <1>1, <1>2, <2>1 DEF NextSeq, SeqNumbers
<1>3. CASE r + 1 # SeqLimit
  <2>1. (r + 1) % SeqLimit = r + 1
    BY <1>1, <1>3
  <2> QED BY <1>1, <1>3, <2>1 DEF NextSeq, SeqNumbers
<1> QED BY <1>2, <1>3

LEMMA AgeNext ==
  ASSUME NEW r \in SeqNumbers, NEW s \in SeqNumbers
  PROVE  /\ Age(r, s) \in Nat /\ Age(r, r) = 0
         /\ Age(r, s) = 0 => s = r
         /\ Age(r, s) + 1 < SeqLimit => Age(NextSeq(r), s) = Age(r, s) + 1
<1>1. SeqLimit \in Nat \ {0} /\ r \in Nat /\ r < SeqLimit /\ s \in Nat /\ s < SeqLimit
  BY NetlinkAssumption DEF SeqNumbers
<1>2. NextSeq(r) = IF r + 1 = SeqLimit THEN 0 ELSE r + 1
  BY NextSeqType
<1> QED BY <1>1, <1>2 DEF Age

(***************************************************************************)
(* The operations of the socket preserve its types.                        *)
(***************************************************************************)
LEMMA DumpType ==
  ASSUME NEW t \in Seq(EntryType), NEW p \in Nat, NEW s \in SeqNumbers
  PROVE  DumpDatagram(t, p, s) \in DatagramType
  BY DumpShape DEF DatagramType

LEMMA ErrorDatagram ==
  ASSUME NEW type \in {"ERROR", "ACK"}, NEW s \in SeqNumbers
  PROVE  [type |-> type, seq |-> s, msgs |-> <<>>] \in DatagramType
<1>1. <<>> \in Seq(EntryType) /\ Len(<<>>) = 0 /\ DumpSize \in Nat
  BY NetlinkAssumption
<1> QED BY <1>1 DEF DatagramType

LEMMA RequestSock ==
  ASSUME SockTypeOK, NEW granted \in BOOLEAN, rtnl_wilddump_request(granted)
  PROVE  SockTypeOK'
<1> DEFINE s == NextSeq(rth.seq)
           d == IF granted THEN DumpDatagram(table, 0, s) ELSE [type |-> "ERROR", seq |-> s, msgs |-> <<>>]
<1>1. s \in SeqNumbers
  BY NextSeqType DEF SockTypeOK
<1>2. d \in DatagramType
  <2> HIDE DEF s
  <2> QED BY <1>1, DumpType, ErrorDatagram DEF SockTypeOK
<1>3. queue' = Append(queue, d) /\ rth' = [seq |-> s, dump |-> s] /\ pos' = 0 /\ table' = table /\ overrun' = overrun
  BY DEF rtnl_wilddump_request
<1> HIDE DEF s, d
<1>4. queue' \in Seq(DatagramType)
  BY <1>2, <1>3, AppendSet DEF SockTypeOK
<1> QED BY <1>1, <1>3, <1>4 DEF SockTypeOK

LEMMA RecvSock ==
  ASSUME SockTypeOK, NEW fits \in BOOLEAN, recvmsg(fits)
  PROVE  /\ SockTypeOK' /\ Head(queue) \in DatagramType /\ queue # <<>>
         /\ \/ queue' = Tail(queue)
            \/ /\ Head(queue).type = "NEW"
               /\ queue' = Append(Tail(queue), DumpDatagram(table, pos + Len(Head(queue).msgs), Head(queue).seq))
         /\ Head(queue).type # "NEW" => queue' = Tail(queue)
<1> DEFINE d == Head(queue)
           p == pos + Len(d.msgs)
<1>1. queue # <<>> /\ queue \in Seq(DatagramType)
  BY DEF recvmsg, SockTypeOK
<1>2. d \in DatagramType /\ Tail(queue) \in Seq(DatagramType)
  BY <1>1, TailSet
<1>3. pos' = p /\ overrun' = ~fits /\ table' = table /\ rth' = rth
      /\ queue' = IF d.type = "NEW" /\ fits THEN Append(Tail(queue), DumpDatagram(table, p, d.seq)) ELSE Tail(queue)
  BY DEF recvmsg
<1> HIDE DEF d
<1>4. p \in Nat /\ d.seq \in SeqNumbers
  BY <1>2 DEF SockTypeOK, DatagramType
<1> HIDE DEF p
<1>5. DumpDatagram(table, p, d.seq) \in DatagramType
  BY <1>4, DumpType DEF SockTypeOK
<1>6. Append(Tail(queue), DumpDatagram(table, p, d.seq)) \in Seq(DatagramType)
  BY <1>2, <1>5, AppendSet
<1>7. SockTypeOK'
  BY <1>2, <1>3, <1>4, <1>6 DEF SockTypeOK
<1> QED BY <1>1, <1>2, <1>3, <1>7 DEF p, d

LEMMA SendSock ==
  ASSUME SockTypeOK, NEW fits \in BOOLEAN, NEW q \in Seq(RequestType), rtnl_send_check(q, fits)
  PROVE  /\ table' \in Seq(EntryType) /\ pos' = pos /\ overrun' \in BOOLEAN
         /\ queue' \in Seq(DatagramType)
         /\ queue' = IF fits THEN queue \o Sent(q).errors ELSE queue
         /\ Sent(q).errors \in Seq(DatagramType)
         /\ \A i \in DOMAIN Sent(q).errors :
               Sent(q).errors[i].type = "ERROR" /\ \E j \in DOMAIN q : Sent(q).errors[i].seq = q[j].seq
<1>1. /\ Sent(q).table \in Seq(EntryType)
      /\ Sent(q).errors \in Seq(ErrorType(SeqsOf(q)))
  BY SentShape DEF SockTypeOK
<1>2. ErrorType(SeqsOf(q)) \subseteq DatagramType
  <2>0. \A j \in DOMAIN q : q[j] \in RequestType
    OBVIOUS
  <2>1. \A j \in DOMAIN q : q[j].seq \in SeqNumbers
    BY <2>0 DEF RequestType, SeqNumbers
  <2> QED BY <2>1, ErrorDatagram DEF ErrorType, Error, SeqsOf
<1>3. Sent(q).errors \in Seq(DatagramType)
  BY <1>1, <1>2
<1>4. ASSUME NEW i \in DOMAIN Sent(q).errors
      PROVE  Sent(q).errors[i].type = "ERROR" /\ \E j \in DOMAIN q : Sent(q).errors[i].seq = q[j].seq
  <2>1. Sent(q).errors[i] \in ErrorType(SeqsOf(q))
    BY <1>1
  <2> QED BY <2>1 DEF ErrorType, Error, SeqsOf
<1>5. /\ table' = Sent(q).table /\ pos' = pos /\ overrun' = FALSE
      /\ queue' = IF fits THEN queue \o Sent(q).errors ELSE queue
  BY DEF rtnl_send_check
<1>6. queue \o Sent(q).errors \in Seq(DatagramType)
  BY <1>3, ConcatSet DEF SockTypeOK
<1> QED BY <1>1, <1>3, <1>4, <1>5, <1>6, Zenon DEF SockTypeOK

LEMMA TalkSock ==
  ASSUME SockTypeOK, NEW fits \in BOOLEAN, NEW type \in {"ACK", "ERROR"}, rtnl_talk_send(type, fits)
  PROVE  /\ SockTypeOK' /\ rth'.seq = NextSeq(rth.seq)
         /\ queue' \in {queue, Append(queue, [type |-> type, seq |-> rth'.seq, msgs |-> <<>>])}
<1>1. rth' = [rth EXCEPT !.seq = NextSeq(@)] /\ NextSeq(rth.seq) \in SeqNumbers
  BY NextSeqType DEF rtnl_talk_send, SockTypeOK
<1>2. rth' \in [seq : SeqNumbers, dump : SeqNumbers] /\ rth'.seq = NextSeq(rth.seq)
  BY <1>1 DEF SockTypeOK
<1> DEFINE d == [type |-> type, seq |-> rth'.seq, msgs |-> <<>>]
<1>3. d \in DatagramType
  BY <1>1, <1>2, ErrorDatagram
<1>4. queue' \in {queue, Append(queue, d)}
  BY DEF rtnl_talk_send
<1> HIDE DEF d
<1>5. queue' \in Seq(DatagramType)
  BY <1>3, <1>4, AppendSet DEF SockTypeOK
<1>6. SockTypeOK'
  BY <1>2, <1>5 DEF SockTypeOK, rtnl_talk_send
<1> QED BY <1>2, <1>4, <1>6 DEF d

-----------------------------------------------------------------------------
(***************************************************************************)
(* The datagrams that wait in the socket.  At most one is of the dump in   *)
(* progress; the others are errors, those behind it younger.               *)
(***************************************************************************)
IsDump(d) == d.type \in {"NEW", "DONE"}

IsError(d, r, age) == d.type = "ERROR" /\ Age(r, d.seq) <= age

Errors(q, r, age) == \A i \in DOMAIN q : IsError(q[i], r, age)

Waiting(q, r, far, near) ==
  /\ \A i \in DOMAIN q : IsDump(q[i]) \/ IsError(q[i], r, far)
  /\ \A i, j \in DOMAIN q : i < j /\ IsDump(q[i]) => IsError(q[j], r, near)

LEMMA ErrorNext ==
  ASSUME NEW r \in SeqNumbers, NEW d \in DatagramType, NEW age \in Int, IsError(d, r, age),
         age + 1 < SeqLimit
  PROVE  IsError(d, NextSeq(r), age + 1) /\ d.seq # NextSeq(r)
<1>1. d.seq \in SeqNumbers /\ SeqLimit \in Nat \ {0}
  BY NetlinkAssumption DEF DatagramType
<1>2. Age(r, d.seq) \in Nat /\ Age(r, d.seq) <= age /\ Age(r, d.seq) + 1 < SeqLimit
  BY <1>1, AgeNext DEF IsError
<1>3. Age(NextSeq(r), d.seq) = Age(r, d.seq) + 1
  BY <1>1, <1>2, AgeNext
<1>4. NextSeq(r) \in SeqNumbers /\ Age(NextSeq(r), NextSeq(r)) = 0
  BY NextSeqType, AgeNext
<1>5. d.seq # NextSeq(r)
  BY <1>2, <1>3, <1>4
<1>6. Age(NextSeq(r), d.seq) <= age + 1
  BY <1>2, <1>3
<1> QED BY <1>5, <1>6 DEF IsError

LEMMA ErrorWeaken ==
  ASSUME NEW r \in SeqNumbers, NEW d \in DatagramType, NEW a \in Int, NEW b \in Int, a <= b, IsError(d, r, a)
  PROVE  IsError(d, r, b)
<1>1. Age(r, d.seq) \in Nat
  BY AgeNext DEF DatagramType
<1> QED BY <1>1 DEF IsError

(***************************************************************************)
(* What happens to a queue of such answers.                                *)
(***************************************************************************)
LEMMA WaitingWeaken ==
  ASSUME NEW q \in Seq(DatagramType), NEW r \in SeqNumbers,
         NEW f \in Int, NEW n \in Int, NEW ff \in Int, NEW nn \in Int, f <= ff, n <= nn,
         Waiting(q, r, f, n)
  PROVE  Waiting(q, r, ff, nn)
<1>0. \A i \in DOMAIN q : q[i] \in DatagramType
  OBVIOUS
<1> QED BY <1>0, ErrorWeaken DEF Waiting

LEMMA ErrorsWeaken ==
  ASSUME NEW q \in Seq(DatagramType), NEW r \in SeqNumbers, NEW a \in Int, NEW b \in Int, a <= b,
         Errors(q, r, a)
  PROVE  Errors(q, r, b)
<1>0. \A i \in DOMAIN q : q[i] \in DatagramType
  OBVIOUS
<1> QED BY <1>0, ErrorWeaken DEF Errors

LEMMA WaitingNext ==
  ASSUME NEW q \in Seq(DatagramType), NEW r \in SeqNumbers,
         NEW f \in Int, NEW n \in Int, n <= f, f + 1 < SeqLimit, Waiting(q, r, f, n)
  PROVE  Waiting(q, NextSeq(r), f + 1, n + 1)
<1>0. \A i \in DOMAIN q : q[i] \in DatagramType
  OBVIOUS
<1>1. n + 1 < SeqLimit
  BY NetlinkAssumption
<1> QED BY <1>0, <1>1, ErrorNext DEF Waiting

LEMMA WaitingTail ==
  ASSUME NEW q \in Seq(DatagramType), q # <<>>, NEW r, NEW f, NEW n, Waiting(q, r, f, n)
  PROVE  /\ Waiting(Tail(q), r, f, n)
         /\ IsDump(Head(q)) => Errors(Tail(q), r, n)
         /\ IsDump(Head(q)) \/ Head(q).type = "ERROR"
<1>1. /\ \A i \in DOMAIN Tail(q) : i \in Nat /\ i + 1 \in DOMAIN q /\ Tail(q)[i] = q[i + 1] /\ 1 < i + 1
      /\ 1 \in DOMAIN q /\ Head(q) = q[1]
  OBVIOUS
<1>2. \A i, j \in DOMAIN Tail(q) : i < j => i + 1 < j + 1
  BY <1>1
<1> DEFINE t == Tail(q)
<1> HIDE DEF t
<1>3. Waiting(t, r, f, n)
  BY <1>1, <1>2 DEF Waiting, t
<1>4. ASSUME IsDump(Head(q)) PROVE Errors(t, r, n)
  BY <1>1, <1>4 DEF Waiting, Errors, t
<1>5. IsDump(Head(q)) \/ Head(q).type = "ERROR"
  BY <1>1 DEF Waiting, IsError
<1> QED BY <1>3, <1>4, <1>5 DEF t

LEMMA WaitingAppend ==
  ASSUME NEW q \in Seq(DatagramType), NEW d \in DatagramType, IsDump(d), NEW r, NEW f, NEW n,
         Errors(q, r, f)
  PROVE  Waiting(Append(q, d), r, f, n)
<1> DEFINE c == Append(q, d)
<1>1. /\ DOMAIN c = 1 .. Len(q) + 1 /\ DOMAIN q = 1 .. Len(q) /\ Len(q) \in Nat
      /\ \A i \in 1 .. Len(q) : c[i] = q[i]
      /\ c[Len(q) + 1] = d
  OBVIOUS
<1> HIDE DEF c
<1>2. \A i \in DOMAIN c : (i \in DOMAIN q /\ c[i] = q[i]) \/ (i = Len(q) + 1 /\ c[i] = d)
  BY <1>1
<1>3. \A i, j \in DOMAIN c : i < j => i \in DOMAIN q
  BY <1>1
<1>4. \A i \in DOMAIN q : IsError(q[i], r, f) /\ ~IsDump(q[i])
  BY DEF Errors, IsError, IsDump
<1>5. \A i \in DOMAIN c : IsDump(c[i]) \/ IsError(c[i], r, f)
  BY <1>2, <1>4
<1>6. \A i, j \in DOMAIN c : i < j /\ IsDump(c[i]) => IsError(c[j], r, n)
  BY <1>2, <1>3, <1>4, <1>1
<1> QED BY <1>5, <1>6 DEF Waiting, c

LEMMA WaitingConcat ==
  ASSUME NEW q \in Seq(DatagramType), NEW e \in Seq(DatagramType), NEW r, NEW f, NEW n,
         Waiting(q, r, f, n), Errors(e, r, n), Errors(e, r, f)
  PROVE  Waiting(q \o e, r, f, n)
<1> DEFINE c == q \o e
<1>1. /\ DOMAIN c = 1 .. Len(q) + Len(e) /\ DOMAIN q = 1 .. Len(q) /\ Len(q) \in Nat
      /\ DOMAIN e = 1 .. Len(e) /\ Len(e) \in Nat
      /\ \A i \in 1 .. Len(q) + Len(e) : c[i] = IF i <= Len(q) THEN q[i] ELSE e[i - Len(q)]
  OBVIOUS
<1> HIDE DEF c
<1>2. \A i \in DOMAIN c : (i \in DOMAIN q /\ c[i] = q[i]) \/ (i > Len(q) /\ \E k \in DOMAIN e : c[i] = e[k])
  <2> SUFFICES ASSUME NEW i \in DOMAIN c, ~(i \in DOMAIN q /\ c[i] = q[i])
               PROVE  i > Len(q) /\ \E k \in DOMAIN e : c[i] = e[k]
    OBVIOUS
  <2>1. i > Len(q) /\ i - Len(q) \in DOMAIN e /\ c[i] = e[i - Len(q)]
    BY <1>1
  <2> QED BY <2>1
<1>3. \A i, j \in DOMAIN c : i < j /\ j \in DOMAIN q => i \in DOMAIN q
  BY <1>1
<1>4. \A k \in DOMAIN e : IsError(e[k], r, n) /\ IsError(e[k], r, f) /\ ~IsDump(e[k])
  BY DEF Errors, IsError, IsDump
<1>5. \A i \in DOMAIN c : IsDump(c[i]) \/ IsError(c[i], r, f)
  BY <1>2, <1>4 DEF Waiting
<1>6. \A i, j \in DOMAIN c : i < j /\ IsDump(c[i]) => IsError(c[j], r, n)
  <2> SUFFICES ASSUME NEW i \in DOMAIN c, NEW j \in DOMAIN c, i < j, IsDump(c[i]) PROVE IsError(c[j], r, n)
    OBVIOUS
  <2>1. i \in DOMAIN q /\ c[i] = q[i]
    BY <1>2, <1>4
  <2>2. CASE j \in DOMAIN q /\ c[j] = q[j]
    BY <2>1, <2>2 DEF Waiting
  <2> QED BY <1>2, <1>4, <2>2
<1> QED BY <1>5, <1>6 DEF Waiting, c

LEMMA ErrorsConcat ==
  ASSUME NEW q \in Seq(DatagramType), NEW e \in Seq(DatagramType), NEW r, NEW f,
         Errors(q, r, f), Errors(e, r, f)
  PROVE  Errors(q \o e, r, f)
<1> DEFINE c == q \o e
<1>1. /\ DOMAIN c = 1 .. Len(q) + Len(e) /\ DOMAIN q = 1 .. Len(q) /\ Len(q) \in Nat
      /\ DOMAIN e = 1 .. Len(e) /\ Len(e) \in Nat
      /\ \A i \in 1 .. Len(q) + Len(e) : c[i] = IF i <= Len(q) THEN q[i] ELSE e[i - Len(q)]
  OBVIOUS
<1> HIDE DEF c
<1>2. \A i \in DOMAIN c : (i \in DOMAIN q /\ c[i] = q[i]) \/ (i - Len(q) \in DOMAIN e /\ c[i] = e[i - Len(q)])
  BY <1>1
<1>3. \A i \in DOMAIN c : IsError(c[i], r, f)
  BY <1>2 DEF Errors
<1> QED BY <1>3 DEF Errors, c

-----------------------------------------------------------------------------
(***************************************************************************)
(* A datagram passes both filters whole: each of its messages once.        *)
(***************************************************************************)
LEMMA FilteredShape ==
  ASSUME NEW m \in Seq(EntryType)
  PROVE  Filtered(m) \in Seq(EntryType) /\ Len(Filtered(m)) <= Len(m) /\ Range(Filtered(m)) = Range(m)
<1> DEFINE I == {i \in DOMAIN m : m[i].secondary}
           J == {i \in DOMAIN m : ~m[i].secondary}
           a == Kept(m, I)
           b == Kept(m, J)
<1>1. Filtered(m) = a \o b
  BY DEF Filtered, Primaries, Secondaries
<1>2. I \cap J = {} /\ \A j \in DOMAIN m : j \in I \/ j \in J
  <2>0. \A j \in DOMAIN m : m[j] \in EntryType
    OBVIOUS
  <2>1. \A j \in DOMAIN m : m[j].secondary \in BOOLEAN
    BY <2>0 DEF EntryType
  <2>2. \A j \in I : j \notin J
    OBVIOUS
  <2>3. \A j \in DOMAIN m : j \in I \/ j \in J
    BY <2>1
  <2> QED BY <2>2, <2>3
<1>3. a \in Seq(EntryType) /\ b \in Seq(EntryType) /\ Len(a) + Len(b) <= Len(m)
  <2> HIDE DEF I, J
  <2> QED BY <1>2, KeptType, KeptLen
<1>4. Range(a) = {m[j] : j \in DOMAIN m \cap I} /\ Range(b) = {m[j] : j \in DOMAIN m \cap J}
  <2> HIDE DEF I, J
  <2> QED BY KeptSet
<1>5. Range(a) \cup Range(b) = Range(m)
  <2> HIDE DEF a, b, I, J
  <2>1. ASSUME NEW x \in Range(a) \cup Range(b) PROVE x \in Range(m)
    <3>1. \E j \in DOMAIN m : x = m[j]
      BY <1>4
    <3> QED BY <3>1 DEF Range
  <2>2. ASSUME NEW j \in DOMAIN m PROVE m[j] \in Range(a) \cup Range(b)
    <3>1. CASE j \in I
      BY <1>4, <3>1
    <3>2. CASE j \in J
      BY <1>4, <3>2
    <3> QED BY <1>2, <3>1, <3>2
  <2>3. ASSUME NEW x \in Range(m) PROVE x \in Range(a) \cup Range(b)
    <3>1. \E j \in DOMAIN m : x = m[j]
      BY DEF Range
    <3> QED BY <2>2, <3>1
  <2> QED BY <2>1, <2>3
<1>6. a \o b \in Seq(EntryType) /\ Len(a \o b) = Len(a) + Len(b) /\ Range(a \o b) = Range(a) \cup Range(b)
  <2> HIDE DEF a, b
  <2> QED BY <1>3, ConcatSet
<1> HIDE DEF a, b
<1> QED BY <1>1, <1>3, <1>5, <1>6

-----------------------------------------------------------------------------
HistType ==
  [start : {t \in Seq(EntryType) : IsTable(t)}, asked : Seq([entry : EntryType, from : Nat]),
   datagrams : Nat, early : BOOLEAN, deleted : Nat, shifted : BOOLEAN,
   added : SUBSET Volatile, lost : BOOLEAN]

FlushTypeOK ==
  /\ SockTypeOK
  /\ cmd.select = "primary" => cmd.kind = "address"
  /\ pc \in {"request", "dump", "update", "talk", "answer", "exited"}
  /\ work \in Seq(EntryType) /\ Len(work) <= DumpSize
  /\ flushb \in Seq(RequestType) /\ Len(flushb) <= FlushSize
  /\ flushed \in BOOLEAN
  /\ hist \in HistType

(***************************************************************************)
(* What is put into the buffer, and what is recorded of it.                *)
(***************************************************************************)
Recorded(e) == Append(hist.asked, [entry |-> e, from |-> hist.datagrams])

LEMMA PutShape ==
  ASSUME FlushTypeOK, work # <<>>, NEW e, e = Head(work), Put(e)
  PROVE  /\ e \in EntryType
         /\ rth' \in [seq : SeqNumbers, dump : SeqNumbers] /\ rth'.seq = NextSeq(rth.seq)
         /\ work' = Tail(work) /\ work' \in Seq(EntryType) /\ Len(work') = Len(work) - 1
         /\ Len(work) \in Nat \ {0} /\ flushed' = TRUE
         /\ \E b \in {<<>>, flushb} :
               /\ b = IF Len(flushb) = FlushSize THEN <<>> ELSE flushb
               /\ flushb' = Append(b, [id |-> e.id, seq |-> rth'.seq])
               /\ b \in Seq(RequestType) /\ Len(b) < FlushSize
               /\ [id |-> e.id, seq |-> rth'.seq] \in RequestType
         /\ flushb' \in Seq(RequestType) /\ Len(flushb') <= FlushSize
         /\ Recorded(e) \in Seq([entry : EntryType, from : Nat])
<1>1. e \in EntryType /\ Tail(work) \in Seq(EntryType) /\ Len(Tail(work)) = Len(work) - 1 /\ Len(work) \in Nat \ {0}
  BY TailSet DEF FlushTypeOK
<1>2. rth.seq \in SeqNumbers /\ rth \in [seq : SeqNumbers, dump : SeqNumbers] /\ NextSeq(rth.seq) \in SeqNumbers
  BY NextSeqType DEF FlushTypeOK, SockTypeOK
<1>3. /\ rth' \in [seq : SeqNumbers, dump : SeqNumbers] /\ rth'.seq = NextSeq(rth.seq)
      /\ work' = Tail(work) /\ flushed' = TRUE
  BY <1>2 DEF Put
<1> DEFINE b == IF Len(flushb) = FlushSize THEN <<>> ELSE flushb
           r == [id |-> e.id, seq |-> rth'.seq]
<1>4. flushb' = Append(b, r)
  BY <1>3 DEF Put
<1>5. r \in RequestType
  BY <1>1, <1>2, <1>3 DEF EntryType, RequestType, SeqNumbers
<1>6. b \in {<<>>, flushb} /\ b \in Seq(RequestType) /\ Len(b) \in Nat /\ Len(b) < FlushSize /\ FlushSize \in Nat
  BY FlushAssumption DEF FlushTypeOK
<1> HIDE DEF b, r
<1>7. flushb' \in Seq(RequestType) /\ Len(flushb') <= FlushSize
  BY <1>4, <1>5, <1>6, AppendSet
<1>8. Recorded(e) \in Seq([entry : EntryType, from : Nat])
  <2>1. hist.asked \in Seq([entry : EntryType, from : Nat]) /\ hist.datagrams \in Nat
    BY DEF FlushTypeOK, HistType
  <2>2. [entry |-> e, from |-> hist.datagrams] \in [entry : EntryType, from : Nat]
    BY <1>1, <2>1
  <2> QED BY <2>1, <2>2, AppendSet DEF Recorded
<1> QED BY <1>1, <1>3, <1>4, <1>5, <1>6, <1>7, <1>8, Zenon DEF b, r

LEMMA FlushTypeInit ==
  ASSUME FlushInit
  PROVE  FlushTypeOK
<1>1. IsTable(table) /\ table \in Seq(EntryType)
  BY FlushAssumption DEF FlushInit, IsTable
<1>2. SockTypeOK
  <2>1. 0 \in SeqNumbers
    BY NetlinkAssumption DEF SeqNumbers
  <2>0. overrun \in BOOLEAN
    BY Zenon DEF FlushInit
  <2>2. queue \in Seq(DatagramType) /\ pos \in Nat
    BY DEF FlushInit
  <2>3. rth \in [seq : SeqNumbers, dump : SeqNumbers]
    BY <2>1 DEF FlushInit
  <2> QED BY <1>1, <2>0, <2>2, <2>3 DEF SockTypeOK
<1>3. hist \in HistType
  BY <1>1 DEF FlushInit, HistInit, HistType
<1>4. /\ work \in Seq(EntryType) /\ Len(work) <= DumpSize
      /\ flushb \in Seq(RequestType) /\ Len(flushb) <= FlushSize
  BY NetlinkAssumption, FlushAssumption DEF FlushInit
<1>5. cmd.select = "primary" => cmd.kind = "address"
  BY DEF FlushInit
<1>6. pc \in {"request", "dump", "update", "talk", "answer", "exited"} /\ flushed \in BOOLEAN
  BY Zenon DEF FlushInit
<1> QED BY <1>2, <1>3, <1>4, <1>5, <1>6 DEF FlushTypeOK

LEMMA FlushTypeNext ==
  ASSUME FlushTypeOK, [FlushNext]_flushVars
  PROVE  FlushTypeOK'
<1>0. /\ SockTypeOK /\ hist \in HistType /\ work \in Seq(EntryType) /\ flushb \in Seq(RequestType)
      /\ Len(work) <= DumpSize /\ Len(flushb) <= FlushSize
      /\ DumpSize \in Nat \ {0} /\ FlushSize \in Nat \ {0}
      /\ <<>> \in Seq(RequestType) /\ Len(<<>>) = 0
  BY NetlinkAssumption, FlushAssumption DEF FlushTypeOK
<1>1. ASSUME NEW ok \in BOOLEAN, Request(ok) PROVE FlushTypeOK'
  <2>1. SockTypeOK'
    BY <1>0, <1>1, RequestSock DEF Request
  <2>2. hist' \in HistType
    <3>1. hist' = [hist EXCEPT !.asked = <<>>, !.datagrams = 0, !.shifted = FALSE, !.lost = @ \/ ~ok]
      BY <1>1 DEF Request
    <3> DEFINE l == hist.lost \/ ~ok
    <3>2. l \in BOOLEAN /\ hist' = [hist EXCEPT !.asked = <<>>, !.datagrams = 0, !.shifted = FALSE, !.lost = l]
      BY <1>0, <3>1 DEF HistType
    <3>3. <<>> \in Seq([entry : EntryType, from : Nat])
      OBVIOUS
    <3> HIDE DEF l
    <3> QED BY <1>0, <3>2, <3>3, Zenon DEF HistType
  <2> QED BY <1>1, <2>1, <2>2, Zenon DEF FlushTypeOK, Request
<1>2. ASSUME NEW ok \in BOOLEAN, Receive(ok) PROVE FlushTypeOK'
  <2>1. CASE recvmsg(ok) /\ work' = Filtered(Own(Head(queue)))
             /\ hist' = [hist EXCEPT !.datagrams = @ + 1, !.lost = @ \/ ~ok] /\ pc' \in {pc, "update", "exited"}
    <3>1. SockTypeOK' /\ Head(queue) \in DatagramType
      BY <1>0, <2>1, RecvSock
    <3> DEFINE m == Own(Head(queue))
    <3>2. m \in Seq(EntryType) /\ Len(m) <= DumpSize /\ Len(m) \in Nat
      BY <1>0, <3>1 DEF Own, DatagramType
    <3> HIDE DEF m
    <3>3. Filtered(m) \in Seq(EntryType) /\ Len(Filtered(m)) <= Len(m)
      BY <3>2, FilteredShape
    <3>4. work' \in Seq(EntryType) /\ Len(work') \in Nat /\ Len(work') <= Len(m)
      BY <2>1, <3>3 DEF m
    <3>5. Len(work') <= DumpSize
      BY <1>0, <3>2, <3>4
    <3>6. hist' \in HistType
      <4> DEFINE l == hist.lost \/ ~ok
                 n == hist.datagrams + 1
      <4>1. l \in BOOLEAN /\ hist' = [hist EXCEPT !.datagrams = n, !.lost = l]
        BY <1>0, <2>1 DEF HistType
      <4>2. n \in Nat
        BY <1>0 DEF HistType
      <4> HIDE DEF l, n
      <4> QED BY <1>0, <4>1, <4>2, Zenon DEF HistType
    <3> QED BY <1>2, <2>1, <3>1, <3>4, <3>5, <3>6 DEF FlushTypeOK, Receive
  <2>2. CASE recvmsg_fails /\ pc' = "exited" /\ UNCHANGED <<work, hist>>
    BY <1>0, <1>2, <2>2, Zenon DEF FlushTypeOK, SockTypeOK, Receive, recvmsg_fails
  <2> QED BY <1>2, <2>1, <2>2 DEF Receive, exits
<1>3. ASSUME NEW ok \in BOOLEAN, FilterFull(ok) PROVE FlushTypeOK'
  <2>1. rtnl_send_check(flushb, ok) /\ work # <<>>
    BY <1>3 DEF FilterFull
  <2>2. table' \in Seq(EntryType) /\ pos' = pos /\ overrun' \in BOOLEAN /\ queue' \in Seq(DatagramType)
    BY <1>0, <2>1, SendSock
  <2>3. CASE Put(Head(work)) /\ UNCHANGED pc
             /\ hist' = [hist EXCEPT !.asked = Append(@, [entry |-> Head(work), from |-> hist.datagrams]),
                                     !.early = TRUE]
    <3>1. /\ rth' \in [seq : SeqNumbers, dump : SeqNumbers]
          /\ work' \in Seq(EntryType) /\ Len(work') = Len(work) - 1 /\ Len(work) \in Nat
          /\ flushed' = TRUE /\ flushb' \in Seq(RequestType) /\ Len(flushb') <= FlushSize
          /\ Recorded(Head(work)) \in Seq([entry : EntryType, from : Nat])
      BY <2>1, <2>3, PutShape, Zenon
    <3>2. hist' = [hist EXCEPT !.asked = Recorded(Head(work)), !.early = TRUE]
      BY <2>3 DEF Recorded
    <3>3. hist' \in HistType
      BY <1>0, <3>1, <3>2, Zenon DEF HistType
    <3>4. Len(work') <= DumpSize
      BY <1>0, <3>1
    <3> QED BY <1>0, <1>3, <2>2, <2>3, <3>1, <3>3, <3>4 DEF FlushTypeOK, SockTypeOK, FilterFull
  <2>4. CASE /\ exits("terminated") /\ hist' = [hist EXCEPT !.early = TRUE, !.lost = @ \/ ~ok]
             /\ UNCHANGED <<rth, flushb, flushed, work>>
    <3>1. hist' \in HistType
      BY <1>0, <2>4, Zenon DEF HistType
    <3> QED BY <1>0, <1>3, <2>2, <2>4, <3>1 DEF FlushTypeOK, SockTypeOK, FilterFull, exits
  <2> QED BY <1>3, <2>3, <2>4 DEF FilterFull
<1>4. ASSUME NEW ok \in BOOLEAN, Update(ok) PROVE FlushTypeOK'
  <2>1. rtnl_send_check(flushb, ok) /\ rth' = rth /\ flushb' \in {<<>>, flushb}
        /\ hist' = [hist EXCEPT !.lost = @ \/ ~ok]
    BY <1>4 DEF Update
  <2>2. table' \in Seq(EntryType) /\ pos' = pos /\ overrun' \in BOOLEAN /\ queue' \in Seq(DatagramType)
    BY <1>0, <2>1, SendSock
  <2>3. hist' \in HistType
    BY <1>0, <2>1, Zenon DEF HistType
  <2>4. pc' \in {"talk", "exited", "request"}
    BY <1>4 DEF Update, ipaddr_flush, do_show_or_flush, iproute_list_flush_or_save, returns, exits, again
  <2> QED BY <1>0, <1>4, <2>1, <2>2, <2>3, <2>4 DEF FlushTypeOK, SockTypeOK, Update
<1>5. CASE FilterSkip
  <2>1. Tail(work) \in Seq(EntryType) /\ Len(Tail(work)) = Len(work) - 1 /\ Len(work) \in Nat \ {0}
    BY <1>0, <1>5, TailSet DEF FilterSkip
  <2>2. Len(work') <= DumpSize
    BY <1>0, <1>5, <2>1 DEF FilterSkip
  <2> QED BY <1>0, <1>5, <2>1, <2>2 DEF FlushTypeOK, SockTypeOK, FilterSkip, sockVars
<1>6. CASE FilterStore
  <2>1. Put(Head(work)) /\ work # <<>>
        /\ hist' = [hist EXCEPT !.asked = Recorded(Head(work))]
    BY <1>6 DEF FilterStore, Recorded
  <2>2. /\ rth' \in [seq : SeqNumbers, dump : SeqNumbers]
        /\ work' \in Seq(EntryType) /\ Len(work') = Len(work) - 1 /\ Len(work) \in Nat
        /\ flushed' = TRUE /\ flushb' \in Seq(RequestType) /\ Len(flushb') <= FlushSize
        /\ Recorded(Head(work)) \in Seq([entry : EntryType, from : Nat])
    BY <2>1, PutShape, Zenon
  <2>3. hist' \in HistType
    BY <1>0, <2>1, <2>2, Zenon DEF HistType
  <2>4. Len(work') <= DumpSize
    BY <1>0, <2>2
  <2> QED BY <1>0, <1>6, <2>2, <2>3, <2>4 DEF FlushTypeOK, SockTypeOK, FilterStore
<1>7. CASE Complete
  BY <1>7 DEF FlushTypeOK, SockTypeOK, Complete, returns, sockVars
<1>8. ASSUME NEW type \in {"ACK", "ERROR"}, NEW ok \in BOOLEAN, Talk(type, ok) PROVE FlushTypeOK'
  <2>1. SockTypeOK'
    BY <1>0, <1>8, TalkSock DEF Talk
  <2> QED BY <1>8, <2>1 DEF FlushTypeOK, Talk
<1>9. CASE TalkReceive
  <2>1. SockTypeOK'
    <3>1. CASE recvmsg(TRUE)
      BY <1>0, <3>1, RecvSock, Zenon
    <3>2. CASE recvmsg_fails
      BY <1>0, <3>2, Zenon DEF SockTypeOK, recvmsg_fails
    <3> QED BY <1>9, <3>1, <3>2, Zenon DEF TalkReceive
  <2> QED BY <1>9, <2>1, Zenon DEF FlushTypeOK, TalkReceive, exits
<1>10. ASSUME NEW id \in Volatile, OtherAdds(id) PROVE FlushTypeOK'
  <2> DEFINE e == Entry(id, \E i \in DOMAIN table : Subnet[table[i].id] = Subnet[id])
  <2>1. e \in EntryType
    <3>1. PICK i \in DOMAIN hist.start : hist.start[i].id = id
      BY <1>10 DEF OtherAdds, Positions
    <3>2. hist.start \in Seq(EntryType)
      BY <1>0 DEF HistType
    <3>3. hist.start[i] \in EntryType
      BY <3>1, <3>2
    <3> QED BY <3>1, <3>3 DEF Entry, EntryType
  <2>2. table' = IF e.secondary THEN Append(table, e) ELSE Primaries(table) \o <<e>> \o Secondaries(table)
    BY <1>10 DEF OtherAdds
  <2> HIDE DEF e
  <2>3. table' \in Seq(EntryType)
    <3> DEFINE a == Primaries(table)
               m == <<e>>
               b == Secondaries(table)
    <3>1. a \in Seq(EntryType) /\ b \in Seq(EntryType) /\ table \in Seq(EntryType)
      BY <1>0, KeptType DEF Primaries, Secondaries, SockTypeOK
    <3>2. m \in Seq(EntryType)
      BY <2>1
    <3> HIDE DEF a, m, b
    <3>3. (a \o m) \o b \in Seq(EntryType) /\ Append(table, e) \in Seq(EntryType)
      BY <2>1, <3>1, <3>2
    <3> QED BY <2>2, <3>3 DEF a, m, b
  <2>4. hist' \in HistType
    <3>1. hist' = [hist EXCEPT !.added = @ \cup {id}]
      BY <1>10 DEF OtherAdds
    <3> QED BY <1>0, <3>1, Zenon DEF HistType
  <2> QED BY <1>0, <1>10, <2>3, <2>4, Zenon DEF FlushTypeOK, SockTypeOK, OtherAdds
<1>11. ASSUME NEW i \in DOMAIN table, OtherDeletes(i) PROVE FlushTypeOK'
  <2>1. table' \in Seq(EntryType)
    BY <1>0, <1>11, RemainingShape DEF OtherDeletes, SockTypeOK
  <2>2. hist' \in HistType
    <3>1. hist' = [hist EXCEPT !.deleted = @ + 1, !.shifted = @ \/ pc = "dump"]
      BY <1>11 DEF OtherDeletes
    <3> DEFINE l == hist.shifted \/ pc = "dump"
               n == hist.deleted + 1
    <3>2. l \in BOOLEAN /\ hist' = [hist EXCEPT !.deleted = n, !.shifted = l]
      BY <1>0, <3>1 DEF HistType
    <3>3. n \in Nat
      BY <1>0 DEF HistType
    <3> HIDE DEF l, n
    <3> QED BY <1>0, <3>2, <3>3, Zenon DEF HistType
  <2> QED BY <1>0, <1>11, <2>1, <2>2 DEF FlushTypeOK, SockTypeOK, OtherDeletes
<1>12. CASE Tick
  BY <1>12 DEF FlushTypeOK, SockTypeOK, Tick, sockVars
<1>13. CASE UNCHANGED flushVars
  BY <1>13 DEF FlushTypeOK, SockTypeOK, flushVars, sockVars
<1> QED BY <1>1, <1>2, <1>3, <1>4, <1>5, <1>6, <1>7, <1>8, <1>9, <1>10, <1>11, <1>12, <1>13
        DEF FlushNext, ClientStep

-----------------------------------------------------------------------------
(***************************************************************************)
(* Answers that wait in the socket.  While a datagram is filtered, errors  *)
(* may gather behind the datagram of the dump that waits, and they are     *)
(* received before the next one after it.  So fewer sequence numbers were  *)
(* given out since than there are, and none of these errors can be taken   *)
(* for the answer to a new request.                                        *)
(***************************************************************************)
InFlush == pc \in {"request", "dump", "update"}

Far(n)  == FlushSize + 2 * DumpSize - (n + 1)
Near(n) == FlushSize + DumpSize - (n + 1)

\* The requests in the buffer have the last sequence numbers that were given out.
Young(b, r) == \A i \in DOMAIN b : Age(r, b[i].seq) <= Len(b) - i

Answered(q, r, type) == \A i \in DOMAIN q : ~IsDump(q[i]) /\ (q[i].seq = r => q[i].type = type)

AnswerInv ==
  /\ InFlush => Young(flushb, rth.seq)
  /\ pc = "request" => queue = <<>> /\ flushb = <<>>
  /\ pc # "dump" /\ InFlush => work = <<>>
  /\ pc = "dump" => Waiting(queue, rth.seq, Far(Len(work)), Near(Len(work)))
  /\ pc \in {"update", "talk"} => Errors(queue, rth.seq, Far(0))
  /\ pc = "answer" => Answered(queue, rth.seq, truth)
  /\ status \in {"ACK", "ERROR"} => status = truth /\ pc = "exited"

LEMMA AnswerInit ==
  ASSUME FlushInit
  PROVE  AnswerInv
<1>1. queue = <<>> /\ flushb = <<>> /\ work = <<>> /\ pc = "request" /\ status = "-"
  BY DEF FlushInit
<1>2. Young(flushb, rth.seq)
  BY <1>1 DEF Young
<1> QED BY <1>1, <1>2 DEF AnswerInv

LEMMA PutYoung ==
  ASSUME NEW b \in Seq(RequestType), Len(b) < FlushSize, NEW r \in SeqNumbers, Young(b, r),
         NEW x \in RequestType, x.seq = NextSeq(r)
  PROVE  Young(Append(b, x), NextSeq(r))
<1> DEFINE c == Append(b, x)
<1>0. /\ Len(b) \in Nat /\ DOMAIN b = 1 .. Len(b) /\ FlushSize \in Nat \ {0} /\ DumpSize \in Nat \ {0}
      /\ SeqLimit \in Nat \ {0} /\ FlushSize < SeqLimit
  BY NetlinkAssumption, FlushAssumption
<1>1. /\ DOMAIN c = 1 .. Len(b) + 1 /\ Len(c) = Len(b) + 1
      /\ \A i \in 1 .. Len(b) : c[i] = b[i]
      /\ c[Len(b) + 1] = x
  OBVIOUS
<1> HIDE DEF c
<1>2. ASSUME NEW i \in 1 .. Len(b) PROVE Age(NextSeq(r), c[i].seq) <= Len(c) - i
  <2>1. b[i] \in RequestType
    BY <1>0
  <2>2. b[i].seq \in SeqNumbers
    BY <2>1 DEF RequestType, SeqNumbers
  <2>3. Age(r, b[i].seq) \in Nat /\ Age(r, b[i].seq) <= Len(b) - i
    BY <1>0, <2>2, AgeNext DEF Young
  <2>4. Age(r, b[i].seq) + 1 < SeqLimit
    BY <1>0, <2>3
  <2>5. Age(NextSeq(r), b[i].seq) = Age(r, b[i].seq) + 1
    BY <2>2, <2>4, AgeNext
  <2>6. Age(NextSeq(r), b[i].seq) <= Len(b) + 1 - i
    BY <1>0, <2>3, <2>5
  <2> QED BY <1>1, <2>6
<1>3. Age(NextSeq(r), c[Len(b) + 1].seq) <= Len(c) - (Len(b) + 1)
  <2>1. Age(NextSeq(r), NextSeq(r)) = 0
    BY NextSeqType, AgeNext
  <2> QED BY <1>0, <1>1, <2>1
<1>4. \A i \in DOMAIN c : i \in 1 .. Len(b) \/ i = Len(b) + 1
  BY <1>0, <1>1
<1>5. \A i \in DOMAIN c : Age(NextSeq(r), c[i].seq) <= Len(c) - i
  BY <1>2, <1>3, <1>4
<1> QED BY <1>5 DEF Young, c

\* The errors that answer a buffer are as old as the requests in it.
LEMMA SentYoung ==
  ASSUME NEW q \in Seq(RequestType), Len(q) <= FlushSize, NEW r \in SeqNumbers, Young(q, r),
         NEW e \in Seq(DatagramType),
         \A i \in DOMAIN e : e[i].type = "ERROR" /\ \E j \in DOMAIN q : e[i].seq = q[j].seq
  PROVE  Errors(e, r, FlushSize - 1)
<1>0. Len(q) \in Nat /\ DOMAIN q = 1 .. Len(q) /\ FlushSize \in Nat \ {0}
  BY FlushAssumption
<1> SUFFICES ASSUME NEW i \in DOMAIN e PROVE IsError(e[i], r, FlushSize - 1)
  BY DEF Errors
<1>1. PICK j \in DOMAIN q : e[i].seq = q[j].seq
  OBVIOUS
<1>2. q[j] \in RequestType
  OBVIOUS
<1>3. q[j].seq \in SeqNumbers
  BY <1>2 DEF RequestType, SeqNumbers
<1>4. Age(r, q[j].seq) \in Nat /\ Age(r, q[j].seq) <= Len(q) - j
  BY <1>3, AgeNext DEF Young
<1>5. Age(r, e[i].seq) <= FlushSize - 1
  BY <1>0, <1>1, <1>4
<1> QED BY <1>5 DEF IsError

LEMMA AnswerNext ==
  ASSUME FlushTypeOK, AnswerInv, [FlushNext]_flushVars
  PROVE  AnswerInv'
<1>0. /\ DumpSize \in Nat \ {0} /\ FlushSize \in Nat \ {0} /\ SeqLimit \in Nat \ {0}
      /\ FlushSize + 2 * DumpSize < SeqLimit
  BY NetlinkAssumption, FlushAssumption
<1>t. SockTypeOK
  BY DEF FlushTypeOK
<1>q. queue \in Seq(DatagramType) /\ rth.seq \in SeqNumbers
  BY DEF FlushTypeOK, SockTypeOK
<1>w. work \in Seq(EntryType) /\ Len(work) \in Nat /\ Len(work) <= DumpSize
  BY DEF FlushTypeOK
<1>f. flushb \in Seq(RequestType) /\ Len(flushb) \in Nat /\ Len(flushb) <= FlushSize
  BY DEF FlushTypeOK
<1>y. InFlush => Young(flushb, rth.seq)
  BY DEF AnswerInv
<1>z. /\ (pc = "dump" => Waiting(queue, rth.seq, Far(Len(work)), Near(Len(work))))
      /\ (pc \in {"update", "talk"} => Errors(queue, rth.seq, Far(0)))
  BY DEF AnswerInv
<1>s. pc # "exited" => status \notin {"ACK", "ERROR"}
  BY DEF AnswerInv
<1>1. ASSUME NEW ok \in BOOLEAN, Request(ok) PROVE AnswerInv'
  <2> DEFINE s == NextSeq(rth.seq)
             d == IF ok THEN DumpDatagram(table, 0, s) ELSE [type |-> "ERROR", seq |-> s, msgs |-> <<>>]
  <2>1. /\ pc = "request" /\ queue = <<>> /\ flushb = <<>> /\ work = <<>> /\ pc' = "dump" /\ status' = status
        /\ work' = <<>> /\ flushb' = <<>> /\ rth' = [seq |-> s, dump |-> s] /\ queue' = Append(<<>>, d)
    BY <1>1 DEF AnswerInv, InFlush, Request, rtnl_wilddump_request
  <2>2. s \in SeqNumbers /\ Age(s, s) = 0
    BY <1>q, NextSeqType, AgeNext
  <2>3. IsDump(d) \/ IsError(d, s, Far(0))
    <3>1. CASE ok
      <4>1. DumpDatagram(table, 0, s).type \in {"NEW", "DONE"}
        BY <1>t, DumpShape, Zenon DEF SockTypeOK
      <4> QED BY <3>1, <4>1 DEF IsDump
    <3>2. CASE ~ok
      <4>1. 0 <= Far(0)
        BY <1>0 DEF Far
      <4> QED BY <2>2, <3>2, <4>1 DEF IsError
    <3> QED BY <3>1, <3>2
  <2> HIDE DEF s, d
  <2>4. DOMAIN queue' = {1} /\ queue'[1] = d
    BY <2>1
  <2>5. Waiting(queue', s, Far(0), Near(0))
    <3>1. \A i, j \in {1} : ~(i < j)
      OBVIOUS
    <3> QED BY <2>3, <2>4, <3>1 DEF Waiting
  <2>6. rth'.seq = s /\ Len(work') = 0 /\ Young(flushb', rth'.seq)
    BY <2>1 DEF Young
  <2>7. Waiting(queue', rth'.seq, Far(Len(work')), Near(Len(work')))
    BY <2>5, <2>6
  <2> QED BY <1>s, <2>1, <2>6, <2>7 DEF AnswerInv, InFlush
<1>2. ASSUME NEW ok \in BOOLEAN, Receive(ok) PROVE AnswerInv'
  <2>0. /\ pc = "dump" /\ work = <<>> /\ Len(work) = 0 /\ flushb' = flushb /\ rth' = rth /\ truth' = truth
        /\ Waiting(queue, rth.seq, Far(0), Near(0))
    <3>1. pc = "dump" /\ work = <<>> /\ flushb' = flushb /\ rth' = rth /\ truth' = truth
      BY <1>2 DEF Receive, recvmsg, recvmsg_fails
    <3> QED BY <1>z, <3>1
  <2>a. Far(0) \in Int /\ Near(0) \in Int /\ Near(0) <= Far(0)
    BY <1>0 DEF Far, Near
  <2>1. CASE recvmsg(ok) /\ work' = Filtered(Own(Head(queue)))
    <3> DEFINE d == Head(queue)
               m == Own(d)
    <3>1. /\ SockTypeOK' /\ d \in DatagramType /\ queue # <<>>
          /\ \/ queue' = Tail(queue)
             \/ d.type = "NEW" /\ queue' = Append(Tail(queue), DumpDatagram(table, pos + Len(d.msgs), d.seq))
          /\ d.type # "NEW" => queue' = Tail(queue)
      BY <1>t, <2>1, RecvSock
    <3>2. /\ Waiting(Tail(queue), rth.seq, Far(0), Near(0))
          /\ IsDump(d) => Errors(Tail(queue), rth.seq, Near(0))
          /\ IsDump(d) \/ d.type = "ERROR"
      BY <1>q, <2>0, <3>1, WaitingTail
    <3>3. m \in Seq(EntryType) /\ Len(m) <= DumpSize /\ Len(m) \in Nat /\ (d.type # "NEW" => m = <<>>)
      BY <1>0, <3>1 DEF Own, DatagramType
    <3>4. Filtered(m) \in Seq(EntryType) /\ Len(Filtered(m)) <= Len(m) /\ Len(Filtered(m)) \in Nat
      <4> HIDE DEF m
      <4> QED BY <3>3, FilteredShape
    <3>5. work' \in Seq(EntryType) /\ Len(work') \in Nat /\ Len(work') <= DumpSize /\ (d.type # "NEW" => work' = <<>>)
      <4>1. work' = Filtered(m)
        BY <2>1
      <4> HIDE DEF m
      <4>2. m = <<>> => Len(work') = 0
        BY <3>4, <4>1
      <4>3. Len(work') = 0 => work' = <<>>
        BY <3>4, <4>1
      <4> QED BY <1>0, <3>3, <3>4, <4>1, <4>2, <4>3
    <3>6. Tail(queue) \in Seq(DatagramType)
      BY <1>q, <3>1, TailSet
    <3>7. CASE d.type = "NEW"
      <4>1. Errors(Tail(queue), rth.seq, Near(0)) /\ IsDump(d)
        BY <3>2, <3>7 DEF IsDump
      <4>2. Far(Len(work')) \in Int /\ Near(Len(work')) \in Int /\ Near(0) <= Far(Len(work'))
        BY <1>0, <3>5 DEF Far, Near
      <4>3. Errors(Tail(queue), rth.seq, Far(Len(work')))
        BY <1>q, <2>a, <3>6, <4>1, <4>2, ErrorsWeaken, Zenon
      <4>4. Waiting(queue', rth.seq, Far(Len(work')), Near(Len(work')))
        <5>1. CASE queue' = Tail(queue)
          <6>1. \A i \in DOMAIN queue' : ~IsDump(queue'[i])
            BY <4>3, <5>1 DEF Errors, IsError, IsDump
          <6> QED BY <4>3, <5>1, <6>1 DEF Waiting, Errors
        <5>2. CASE queue' = Append(Tail(queue), DumpDatagram(table, pos + Len(d.msgs), d.seq))
          <6> DEFINE e == DumpDatagram(table, pos + Len(d.msgs), d.seq)
          <6>1. pos + Len(d.msgs) \in Nat /\ d.seq \in SeqNumbers /\ table \in Seq(EntryType)
            BY <1>t, <3>1 DEF SockTypeOK, DatagramType
          <6>2. e \in DatagramType /\ IsDump(e)
            BY <6>1, DumpType, DumpShape DEF IsDump
          <6> HIDE DEF e
          <6>3. Waiting(Append(Tail(queue), e), rth.seq, Far(Len(work')), Near(Len(work')))
            BY <3>6, <4>3, <6>2, WaitingAppend, Zenon
          <6> QED BY <5>2, <6>3 DEF e
        <5> QED BY <3>1, <5>1, <5>2
      <4>5. pc' = "dump" /\ status' = status
        BY <1>2, <2>0, <2>1, <3>1, <3>7 DEF Receive, Ends, recvmsg_fails, recvmsg
      <4> QED BY <1>s, <1>y, <2>0, <4>4, <4>5 DEF AnswerInv, InFlush
    <3>8. CASE d.type # "NEW"
      <4>1. queue' = Tail(queue) /\ work' = <<>> /\ Len(work') = 0
        BY <3>1, <3>5, <3>8
      <4>2. Waiting(queue', rth'.seq, Far(Len(work')), Near(Len(work')))
        BY <2>0, <3>2, <4>1
      <4>3. CASE pc' = "dump" /\ status' = status
        BY <1>s, <1>y, <2>0, <4>2, <4>3 DEF AnswerInv, InFlush
      <4>4. CASE pc' = "update" /\ status' = status /\ d.type = "DONE"
        <5>1. Errors(Tail(queue), rth.seq, Near(0))
          BY <3>2, <4>4 DEF IsDump
        <5>2. Errors(Tail(queue), rth.seq, Far(0))
          BY <1>q, <2>a, <3>6, <5>1, ErrorsWeaken, Zenon
        <5>3. Errors(queue', rth'.seq, Far(0))
          BY <2>0, <4>1, <5>2
        <5> QED BY <1>s, <1>y, <2>0, <4>1, <4>4, <5>3 DEF AnswerInv, InFlush
      <4>5. CASE pc' = "exited" /\ status' = "terminated"
        BY <4>5 DEF AnswerInv, InFlush
      <4> QED BY <1>2, <2>0, <2>1, <4>3, <4>4, <4>5 DEF Receive, Ends, recvmsg_fails, recvmsg, exits
    <3> QED BY <3>7, <3>8
  <2>2. CASE recvmsg_fails /\ pc' = "exited" /\ status' = "terminated"
    BY <2>2 DEF AnswerInv, InFlush
  <2> QED BY <1>2, <2>1, <2>2 DEF Receive, exits
<1>b. pc = "dump" => InFlush
  BY DEF InFlush
<1>3. ASSUME NEW ok \in BOOLEAN, FilterFull(ok) PROVE AnswerInv'
  <2>1. pc = "dump" /\ work # <<>> /\ Len(flushb) = FlushSize /\ rtnl_send_check(flushb, ok) /\ truth' = truth
    BY <1>3 DEF FilterFull
  <2>2. CASE ~SendFails(flushb, ok) /\ Put(Head(work)) /\ UNCHANGED <<pc, status>>
    <3> DEFINE e == Sent(flushb).errors
               n == Len(work)
    <3>1. ok /\ queue' = queue \o e
      BY <2>1, <2>2 DEF SendFails, rtnl_send_check
    <3>2. /\ e \in Seq(DatagramType)
          /\ \A i \in DOMAIN e : e[i].type = "ERROR" /\ \E j \in DOMAIN flushb : e[i].seq = flushb[j].seq
      BY <1>t, <1>f, <2>1, SendSock, Zenon
    <3> HIDE DEF e
    <3>3. Errors(e, rth.seq, FlushSize - 1)
      BY <1>f, <1>q, <1>b, <1>y, <2>1, <3>2, SentYoung
    <3>4. /\ rth'.seq = NextSeq(rth.seq) /\ Len(work') = Len(work) - 1 /\ Len(work) \in Nat \ {0}
          /\ \E b \in {<<>>, flushb} :
               /\ b = IF Len(flushb) = FlushSize THEN <<>> ELSE flushb
               /\ flushb' = Append(b, [id |-> Head(work).id, seq |-> rth'.seq])
               /\ b \in Seq(RequestType) /\ Len(b) < FlushSize
               /\ [id |-> Head(work).id, seq |-> rth'.seq] \in RequestType
      BY <2>1, <2>2, PutShape, Zenon
    <3> HIDE DEF n
    <3>5. /\ n \in Nat /\ 1 <= n /\ n <= DumpSize /\ Far(n) \in Int /\ Near(n) \in Int /\ Near(n) <= Far(n)
          /\ FlushSize - 1 <= Near(n) /\ FlushSize - 1 <= Far(n) /\ FlushSize - 1 \in Int
          /\ Far(n) + 1 < SeqLimit /\ Far(n) + 1 = Far(n - 1) /\ Near(n) + 1 = Near(n - 1)
      BY <1>0, <1>w, <3>4 DEF Far, Near, n
    <3>6. Errors(e, rth.seq, Near(n)) /\ Errors(e, rth.seq, Far(n))
      BY <1>q, <3>2, <3>3, <3>5, ErrorsWeaken
    <3>7. Waiting(queue, rth.seq, Far(n), Near(n))
      BY <1>z, <2>1 DEF n
    <3>8. Waiting(queue \o e, rth.seq, Far(n), Near(n)) /\ queue \o e \in Seq(DatagramType)
      BY <1>q, <3>2, <3>6, <3>7, WaitingConcat
    <3>9. Waiting(queue \o e, NextSeq(rth.seq), Far(n) + 1, Near(n) + 1)
      <4> DEFINE q == queue \o e
      <4> HIDE DEF q
      <4> QED BY <1>q, <3>5, <3>8, WaitingNext, Zenon DEF q
    <3>10. Waiting(queue', rth'.seq, Far(Len(work')), Near(Len(work')))
      BY <3>1, <3>4, <3>5, <3>9 DEF n
    <3>11. Young(flushb', rth'.seq)
      <4>1. Young(<<>>, rth.seq)
        BY DEF Young
      <4>2. PICK x \in RequestType : flushb' = Append(<<>>, x) /\ x.seq = NextSeq(rth.seq)
        BY <2>1, <3>4
      <4>3. <<>> \in Seq(RequestType) /\ Len(<<>>) < FlushSize
        BY <1>0
      <4> QED BY <1>q, <3>4, <4>1, <4>2, <4>3, PutYoung, Zenon
    <3> QED BY <1>s, <2>1, <2>2, <3>10, <3>11, Zenon DEF AnswerInv, InFlush
  <2>3. CASE pc' = "exited" /\ status' = "terminated"
    BY <2>3 DEF AnswerInv, InFlush
  <2> QED BY <1>3, <2>2, <2>3 DEF FilterFull, exits
<1>4. ASSUME NEW ok \in BOOLEAN, Update(ok) PROVE AnswerInv'
  <2> DEFINE e == Sent(flushb).errors
  <2>1. pc = "update" /\ work = <<>> /\ rtnl_send_check(flushb, ok) /\ rth' = rth /\ truth' = truth /\ work' = <<>>
        /\ InFlush /\ Errors(queue, rth.seq, Far(0))
    BY <1>4, <1>z DEF Update, AnswerInv, InFlush
  <2>2. /\ e \in Seq(DatagramType)
        /\ \A i \in DOMAIN e : e[i].type = "ERROR" /\ \E j \in DOMAIN flushb : e[i].seq = flushb[j].seq
        /\ queue' = IF ok THEN queue \o e ELSE queue
    BY <1>t, <1>f, <2>1, SendSock
  <2>3. SendFails(flushb, ok) <=> (overrun \/ ~ok \/ (queue \o e # <<>> /\ Head(queue \o e).type = "ERROR"))
    BY DEF SendFails
  <2> HIDE DEF e
  <2>4. Errors(e, rth.seq, FlushSize - 1)
    BY <1>f, <1>q, <1>y, <2>1, <2>2, SentYoung, Zenon
  <2>5. FlushSize - 1 \in Int /\ Far(0) \in Int /\ FlushSize - 1 <= Far(0)
    BY <1>0 DEF Far
  <2>6. Errors(e, rth.seq, Far(0))
    BY <1>q, <2>2, <2>4, <2>5, ErrorsWeaken
  <2>7. Errors(queue \o e, rth.seq, Far(0)) /\ queue \o e \in Seq(DatagramType)
    BY <1>q, <2>1, <2>2, <2>6, ErrorsConcat
  <2>8. Errors(queue', rth'.seq, Far(0))
    BY <2>1, <2>2, <2>7
  <2>9. CASE pc' = "request" /\ ~SendFails(flushb, ok) /\ status' = status
    <3> DEFINE q == queue \o e
    <3>1. ok /\ (q = <<>> \/ Head(q).type # "ERROR") /\ queue' = q
      BY <2>2, <2>3, <2>9
    <3> HIDE DEF q
    <3>2. q # <<>> => 1 \in DOMAIN q /\ Head(q) = q[1]
      BY <2>7 DEF q
    <3>3. q = <<>>
      BY <2>7, <3>1, <3>2 DEF Errors, IsError, q
    <3>4. flushb' = <<>>
      BY <1>4, <2>9 DEF Update
    <3>5. Young(flushb', rth'.seq)
      BY <3>4 DEF Young
    <3> QED BY <1>s, <2>1, <2>9, <3>1, <3>3, <3>4, <3>5 DEF AnswerInv, InFlush
  <2>10. CASE pc' = "talk" /\ status' \in {"failed", "complete", "incomplete"}
    BY <2>8, <2>10, Zenon DEF AnswerInv, InFlush
  <2>11. CASE pc' = "exited" /\ status' \in {"failed", "incomplete"}
    BY <2>11 DEF AnswerInv, InFlush
  <2> QED BY <1>4, <2>9, <2>10, <2>11 DEF Update, ipaddr_flush, do_show_or_flush,
             iproute_list_flush_or_save, returns, exits, again
<1>5. CASE FilterSkip
  <2> DEFINE n == Len(work)
  <2>1. /\ pc = "dump" /\ pc' = pc /\ work # <<>> /\ work' = Tail(work)
        /\ queue' = queue /\ rth' = rth /\ flushb' = flushb /\ status' = status /\ truth' = truth
    BY <1>5 DEF FilterSkip, sockVars
  <2>2. Len(work') = n - 1 /\ n \in Nat \ {0}
    BY <1>w, <2>1, TailSet
  <2> HIDE DEF n
  <2>3. /\ Far(n) \in Int /\ Near(n) \in Int /\ Far(n - 1) \in Int /\ Near(n - 1) \in Int
        /\ Far(n) <= Far(n - 1) /\ Near(n) <= Near(n - 1)
    BY <1>0, <2>2 DEF Far, Near
  <2>4. Waiting(queue, rth.seq, Far(n - 1), Near(n - 1))
    <3>1. Waiting(queue, rth.seq, Far(n), Near(n))
      BY <1>z, <2>1 DEF n
    <3> QED BY <1>q, <2>3, <3>1, WaitingWeaken
  <2>5. Waiting(queue', rth'.seq, Far(Len(work')), Near(Len(work')))
    BY <2>1, <2>2, <2>4
  <2> QED BY <1>b, <1>s, <1>y, <2>1, <2>5 DEF AnswerInv, InFlush
<1>6. CASE FilterStore
  <2> DEFINE n == Len(work)
  <2>1. /\ pc = "dump" /\ pc' = pc /\ work # <<>> /\ Put(Head(work)) /\ Len(flushb) < FlushSize
        /\ queue' = queue /\ status' = status /\ truth' = truth
    BY <1>6 DEF FilterStore
  <2>2. /\ rth'.seq = NextSeq(rth.seq) /\ Len(work') = Len(work) - 1 /\ Len(work) \in Nat \ {0}
        /\ \E b \in {<<>>, flushb} :
               /\ b = IF Len(flushb) = FlushSize THEN <<>> ELSE flushb
               /\ flushb' = Append(b, [id |-> Head(work).id, seq |-> rth'.seq])
               /\ b \in Seq(RequestType) /\ Len(b) < FlushSize
               /\ [id |-> Head(work).id, seq |-> rth'.seq] \in RequestType
    BY <2>1, PutShape, Zenon
  <2> HIDE DEF n
  <2>3. /\ Far(n) \in Int /\ Near(n) \in Int /\ Near(n) <= Far(n)
        /\ Far(n) + 1 < SeqLimit /\ Far(n) + 1 = Far(n - 1) /\ Near(n) + 1 = Near(n - 1)
    BY <1>0, <1>w, <2>2 DEF Far, Near, n
  <2>4. Waiting(queue, rth.seq, Far(n), Near(n))
    BY <1>z, <2>1 DEF n
  <2>5. Waiting(queue, NextSeq(rth.seq), Far(n) + 1, Near(n) + 1)
    BY <1>q, <2>3, <2>4, WaitingNext
  <2>6. Waiting(queue', rth'.seq, Far(Len(work')), Near(Len(work')))
    BY <2>1, <2>2, <2>3, <2>5 DEF n
  <2>7. Young(flushb', rth'.seq)
    <3>1. Len(flushb) # FlushSize
      BY <1>f, <1>0, <2>1
    <3>2. PICK x \in RequestType : flushb' = Append(flushb, x) /\ x.seq = NextSeq(rth.seq)
      BY <2>2, <3>1
    <3> QED BY <1>q, <1>f, <1>b, <1>y, <2>1, <2>2, <3>2, PutYoung
  <2> QED BY <1>s, <2>1, <2>6, <2>7, Zenon DEF AnswerInv, InFlush
<1>7. CASE Complete
  <2>1. /\ pc = "update" /\ pc' = "talk" /\ status' = "complete" /\ queue' = queue /\ rth' = rth
    BY <1>7 DEF Complete, returns, sockVars
  <2> QED BY <1>z, <2>1 DEF AnswerInv, InFlush
<1>8. ASSUME NEW type \in {"ACK", "ERROR"}, NEW ok \in BOOLEAN, Talk(type, ok) PROVE AnswerInv'
  <2>1. /\ pc = "talk" /\ pc' = "answer" /\ truth' = type /\ status' = status /\ rtnl_talk_send(type, ok)
        /\ Errors(queue, rth.seq, Far(0))
    BY <1>8, <1>z DEF Talk
  <2> DEFINE d == [type |-> type, seq |-> rth'.seq, msgs |-> <<>>]
  <2>2. rth'.seq = NextSeq(rth.seq) /\ queue' \in {queue, Append(queue, d)}
    BY <1>t, <2>1, TalkSock
  <2>3. \A i \in DOMAIN queue : ~IsDump(queue[i]) /\ queue[i].seq # rth'.seq
    <3> SUFFICES ASSUME NEW i \in DOMAIN queue PROVE ~IsDump(queue[i]) /\ queue[i].seq # rth'.seq
      OBVIOUS
    <3>1. queue[i] \in DatagramType
      BY <1>q
    <3>2. Far(0) \in Int /\ Far(0) + 1 < SeqLimit
      BY <1>0 DEF Far
    <3>3. IsError(queue[i], rth.seq, Far(0))
      BY <2>1 DEF Errors
    <3>4. queue[i].seq # NextSeq(rth.seq)
      BY <1>q, <3>1, <3>2, <3>3, ErrorNext
    <3> QED BY <2>2, <3>3, <3>4 DEF IsError, IsDump
  <2>4. d.type = type /\ ~IsDump(d)
    BY DEF IsDump
  <2> HIDE DEF d
  <2>5. \A i \in DOMAIN queue' : queue'[i] = d \/ (i \in DOMAIN queue /\ queue'[i] = queue[i])
    <3>1. CASE queue' = queue
      BY <3>1
    <3>2. CASE queue' = Append(queue, d)
      BY <1>q, <3>2
    <3> QED BY <2>2, <3>1, <3>2
  <2>6. Answered(queue', rth'.seq, truth')
    BY <2>1, <2>3, <2>4, <2>5 DEF Answered
  <2> QED BY <1>s, <2>1, <2>6, Zenon DEF AnswerInv, InFlush
<1>9. CASE TalkReceive
  <2>1. pc = "answer" /\ truth' = truth /\ rth' = rth
    BY <1>9 DEF TalkReceive, recvmsg, recvmsg_fails
  <2>2. \A i \in DOMAIN queue : ~IsDump(queue[i]) /\ (queue[i].seq = rth.seq => queue[i].type = truth)
    BY <2>1 DEF AnswerInv, Answered
  <2>3. ASSUME recvmsg(TRUE)
        PROVE  queue' = Tail(queue) /\ queue # <<>> /\ Head(queue) = queue[1] /\ 1 \in DOMAIN queue
    <3>1. queue # <<>>
      BY <2>3 DEF recvmsg
    <3>2. Head(queue) = queue[1] /\ 1 \in DOMAIN queue
      BY <1>q, <3>1
    <3>3. Head(queue).type # "NEW"
      BY <2>2, <3>2 DEF IsDump
    <3> QED BY <2>3, <3>1, <3>2, <3>3 DEF recvmsg
  <2>4. CASE recvmsg(TRUE) /\ Answers(Head(queue)) /\ exits(Head(queue).type)
    <3>1. status' = truth'
      BY <2>1, <2>2, <2>3, <2>4 DEF Answers, exits
    <3> QED BY <2>4, <3>1, Zenon DEF AnswerInv, InFlush, exits
  <2>5. CASE recvmsg(TRUE) /\ UNCHANGED <<pc, status>>
    <3>1. \A i \in DOMAIN Tail(queue) : i + 1 \in DOMAIN queue /\ Tail(queue)[i] = queue[i + 1]
      BY <1>q, <2>3, <2>5
    <3>2. Answered(queue', rth'.seq, truth')
      BY <2>1, <2>2, <2>3, <2>5, <3>1 DEF Answered
    <3> QED BY <1>s, <2>1, <2>5, <3>2 DEF AnswerInv, InFlush
  <2>6. CASE recvmsg_fails /\ exits("terminated")
    BY <2>6, Zenon DEF AnswerInv, InFlush, exits
  <2> QED BY <1>9, <2>4, <2>5, <2>6, Zenon DEF TalkReceive
<1>10. CASE UNCHANGED <<queue, rth, pc, work, flushb, status, truth>>
  <2>1. UNCHANGED InFlush
    BY <1>10 DEF InFlush
  <2> QED BY <1>10, <2>1 DEF AnswerInv, Far, Near
<1>11. ASSUME NEW id \in Volatile, OtherAdds(id)
       PROVE  UNCHANGED <<queue, rth, pc, work, flushb, status, truth>>
  BY <1>11 DEF OtherAdds
<1>12. ASSUME NEW i \in DOMAIN table, OtherDeletes(i)
       PROVE  UNCHANGED <<queue, rth, pc, work, flushb, status, truth>>
  BY <1>12 DEF OtherDeletes
<1>13. ASSUME Tick \/ UNCHANGED flushVars PROVE UNCHANGED <<queue, rth, pc, work, flushb, status, truth>>
  BY <1>13 DEF Tick, flushVars, sockVars
<1> QED
  BY <1>1, <1>2, <1>3, <1>4, <1>5, <1>6, <1>7, <1>8, <1>9, <1>10, <1>11, <1>12, <1>13 DEF FlushNext,
     ClientStep

(***************************************************************************)
(* TalkTruthful, for every size of the buffer and of a datagram: the       *)
(* command that follows a flush in a batch reports what the kernel made of *)
(* its own request, although rtnl_talk finds errors of the flush in the    *)
(* socket, as long as sequence numbers do not come around in between.      *)
(***************************************************************************)
THEOREM Truthful == FlushSpec => []TalkTruthful
<1>1. FlushInit => FlushTypeOK /\ AnswerInv
  BY FlushTypeInit, AnswerInit
<1>2. FlushTypeOK /\ AnswerInv /\ [FlushNext]_flushVars => (FlushTypeOK /\ AnswerInv)'
  BY FlushTypeNext, AnswerNext
<1>3. AnswerInv => TalkTruthful
  BY DEF AnswerInv, TalkTruthful
<1> QED BY <1>1, <1>2, <1>3, PTL DEF FlushSpec

(***************************************************************************)
(* What no step changes, and what the kernel's table can become: an entry  *)
(* was there before, perhaps as a secondary one, or another process has    *)
(* added it.                                                               *)
(***************************************************************************)
LEMMA HistNext ==
  ASSUME FlushTypeOK, [FlushNext]_flushVars
  PROVE  cmd' = cmd /\ hist'.start = hist.start /\ hist.added \subseteq hist'.added
<1>0. hist \in HistType
  BY DEF FlushTypeOK
<1>1. CASE hist' = hist /\ cmd' = cmd
  BY <1>1
<1>2. ASSUME NEW ok \in BOOLEAN, Request(ok) \/ Receive(ok) \/ FilterFull(ok) \/ Update(ok)
      PROVE  cmd' = cmd /\ hist'.start = hist.start /\ hist'.added = hist.added
  <2>1. CASE Request(ok)
    BY <1>0, <2>1 DEF Request, HistType
  <2>2. CASE Receive(ok)
    BY <1>0, <2>2, Zenon DEF Receive, HistType
  <2>3. CASE FilterFull(ok)
    BY <1>0, <2>3, Zenon DEF FilterFull, HistType
  <2>4. CASE Update(ok)
    BY <1>0, <2>4 DEF Update, HistType
  <2> QED BY <1>2, <2>1, <2>2, <2>3, <2>4
<1>3. CASE FilterStore
  BY <1>0, <1>3 DEF FilterStore, HistType
<1>4. ASSUME NEW id \in Volatile, OtherAdds(id)
      PROVE  cmd' = cmd /\ hist'.start = hist.start /\ hist.added \subseteq hist'.added
  BY <1>0, <1>4 DEF OtherAdds, HistType
<1>5. ASSUME NEW i \in DOMAIN table, OtherDeletes(i)
      PROVE  cmd' = cmd /\ hist'.start = hist.start /\ hist'.added = hist.added
  BY <1>0, <1>5 DEF OtherDeletes, HistType
<1>6. ASSUME FilterSkip \/ Complete \/ TalkReceive \/ Tick \/ UNCHANGED flushVars
      PROVE  hist' = hist /\ cmd' = cmd
  BY <1>6, Zenon DEF FilterSkip, Complete, TalkReceive, Tick, flushVars
<1>7. ASSUME NEW type \in {"ACK", "ERROR"}, NEW ok \in BOOLEAN, Talk(type, ok)
      PROVE  hist' = hist /\ cmd' = cmd
  BY <1>7 DEF Talk
<1> QED BY <1>1, <1>2, <1>3, <1>4, <1>5, <1>6, <1>7, Zenon DEF FlushNext, ClientStep

LEMMA AddsShape ==
  ASSUME FlushTypeOK, NEW id, OtherAdds(id)
  PROVE  \E e \in EntryType : /\ e.id = id /\ Positions(table, e.id) = {}
                              /\ table' = Inserted(table, e)
                              /\ e.id \in hist'.added
<1> DEFINE e == Entry(id, \E i \in DOMAIN table : Subnet[table[i].id] = Subnet[id])
<1>1. PICK i \in DOMAIN hist.start : hist.start[i].id = id
  BY DEF OtherAdds, Positions
<1>2. hist \in HistType /\ hist.start \in Seq(EntryType)
  BY DEF FlushTypeOK, HistType
<1>3. hist.start[i] \in EntryType
  BY <1>1, <1>2
<1>4. e \in EntryType /\ e.id = id
  BY <1>1, <1>3 DEF Entry, EntryType
<1>5. Positions(table, id) = {} /\ table' = Inserted(table, e)
  BY Zenon DEF OtherAdds, Inserted
<1>6. id \in hist'.added
  BY <1>2 DEF OtherAdds, HistType
<1> HIDE DEF e
<1> QED BY <1>4, <1>5, <1>6

LEMMA TableNext ==
  ASSUME FlushTypeOK, IsTable(table), [FlushNext]_flushVars
  PROVE  IsTable(table') /\ \A e \in Range(table') : Survives(e, table) \/ e.id \in hist'.added
<1>0. table \in Seq(EntryType) /\ flushb \in Seq(RequestType)
  BY DEF FlushTypeOK, SockTypeOK
<1>1. CASE table' = table
  BY <1>1, Zenon DEF Survives
<1>2. CASE table' = Sent(flushb).table
  BY <1>0, <1>2, SentShape, SentTable, Zenon
<1>3. ASSUME NEW id \in Volatile, OtherAdds(id)
      PROVE  IsTable(table') /\ \A e \in Range(table') : Survives(e, table) \/ e.id \in hist'.added
  <2>1. PICK e \in EntryType : /\ e.id = id /\ Positions(table, e.id) = {}
                               /\ table' = Inserted(table, e)
                               /\ e.id \in hist'.added
    BY <1>3, AddsShape
  <2>2. IsTable(Inserted(table, e)) /\ Range(Inserted(table, e)) \subseteq Range(table) \cup {e}
    BY <2>1, InsertTable
  <2> QED BY <2>1, <2>2, Zenon DEF Survives
<1>4. ASSUME NEW i \in DOMAIN table, OtherDeletes(i)
      PROVE  IsTable(table') /\ \A e \in Range(table') : Survives(e, table)
  <2>1. table' = Remaining(table, table[i].id, promote)
    BY <1>4 DEF OtherDeletes
  <2> QED BY <1>0, <2>1, RemainingShape, RemainingTable, Zenon
<1>5. ASSUME NEW ok \in BOOLEAN, Request(ok) \/ Receive(ok) \/ FilterFull(ok) \/ Update(ok)
      PROVE  table' \in {table, Sent(flushb).table}
  BY <1>5 DEF Request, rtnl_wilddump_request, Receive, recvmsg, recvmsg_fails, FilterFull, Update,
     rtnl_send_check
<1>6. ASSUME FilterSkip \/ FilterStore \/ Complete \/ TalkReceive \/ Tick \/ UNCHANGED flushVars
      PROVE  table' = table
  BY <1>6 DEF FilterSkip, FilterStore, Complete, TalkReceive, recvmsg, recvmsg_fails, Tick, flushVars,
     sockVars
<1>7. ASSUME NEW type \in {"ACK", "ERROR"}, NEW ok \in BOOLEAN, Talk(type, ok) PROVE table' = table
  BY <1>7 DEF Talk, rtnl_talk_send
<1> QED BY <1>1, <1>2, <1>3, <1>4, <1>5, <1>6, <1>7, Zenon DEF FlushNext, ClientStep
=============================================================================
