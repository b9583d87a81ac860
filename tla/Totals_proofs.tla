--------------------------- MODULE Totals_proofs ---------------------------
(***************************************************************************)
(* What the other proofs need to know of totals over finite sets.  The     *)
(* induction theorems of the library take an operator as their parameter;  *)
(* those below take a set instead and come from the well-foundedness of    *)
(* the natural numbers.                                                    *)
(***************************************************************************)
EXTENDS Totals, FiniteSets, FiniteSetTheorems, WellFoundedInduction, TLAPS

\* A leaf is tried with SMT, then with Zenon, then with SMT and more time.
USE SMT, Zenon, SMTT(30)

(***************************************************************************)
(* Every nonempty set of natural numbers has a least member.               *)
(***************************************************************************)
LEMMA LeastNat ==
  ASSUME NEW T, T \subseteq Nat, T # {}
  PROVE  \E n \in T : \A m \in T : n <= m
<1> DEFINE R == OpToRel(<, Nat)
<1>1. IsWellFoundedOn(R, Nat)
  BY NatLessThanWellFounded, Zenon
<1>2. \A m, n \in Nat : m < n => <<m, n>> \in R
  BY DEF OpToRel
<1> HIDE DEF R
<1>3. PICK n \in T : \A m \in T : <<m, n>> \notin R
  BY <1>1, WFMin, Zenon
<1>4. ASSUME NEW m \in T, m < n PROVE FALSE
  <2>1. m \in Nat /\ n \in Nat
    OBVIOUS
  <2>2. <<m, n>> \in R
    BY <1>2, <1>4, <2>1
  <2> QED BY <1>3, <2>2
<1>5. \A m \in T : ~(m < n)
  BY <1>4
<1> QED BY <1>5

(***************************************************************************)
(* Induction over the natural numbers, for a set in place of a predicate.  *)
(***************************************************************************)
LEMMA NatInduct ==
  ASSUME NEW P, 0 \in P, \A n \in Nat : n \in P => n + 1 \in P
  PROVE  Nat \subseteq P
<1> SUFFICES ASSUME Nat \ P # {} PROVE FALSE
  OBVIOUS
<1>1. PICK n \in Nat \ P : \A m \in Nat \ P : n <= m
  BY LeastNat, Zenon
<1>2. n # 0 /\ n - 1 \in Nat
  BY <1>1
<1>3. n - 1 \in P
  BY <1>1, <1>2
<1> QED BY <1>1, <1>2, <1>3

(***************************************************************************)
(* A set of n + 1 members has one, and n when it is taken out.             *)
(***************************************************************************)
LEMMA OneLess ==
  ASSUME NEW T, IsFiniteSet(T), NEW n \in Nat, Cardinality(T) = n + 1
  PROVE  T # {} /\ \A x \in T : Cardinality(T \ {x}) = n
<1>1. T # {}
  BY FS_EmptySet
<1>2. ASSUME NEW x \in T PROVE Cardinality(T \ {x}) = n
  BY FS_RemoveElement
<1> QED BY <1>1, <1>2

(***************************************************************************)
(* Induction over the subsets of a finite set, one more member at a time.  *)
(***************************************************************************)
LEMMA SubsetInduct ==
  ASSUME NEW S, IsFiniteSet(S), NEW P, {} \in P,
         \A T \in SUBSET S : \A x \in S \ T : T \in P => T \cup {x} \in P
  PROVE  S \in P
<1> DEFINE Q == {n \in Nat : \A T \in SUBSET S : Cardinality(T) = n => T \in P}
<1>0. \A T \in SUBSET S : IsFiniteSet(T) /\ Cardinality(T) \in Nat
  BY FS_Subset, FS_CardinalityType
<1>1. 0 \in Q
  BY <1>0, FS_EmptySet
<1>2. ASSUME NEW n \in Nat, n \in Q PROVE n + 1 \in Q
  <2> SUFFICES ASSUME NEW T \in SUBSET S, Cardinality(T) = n + 1 PROVE T \in P
    OBVIOUS
  <2>1. T # {} /\ \A x \in T : Cardinality(T \ {x}) = n
    BY <1>0, OneLess
  <2>2. PICK x : x \in T
    BY <2>1
  <2>3. Cardinality(T \ {x}) = n
    BY <2>1, <2>2
  <2>4. T \ {x} \in P
    BY <1>2, <2>3
  <2>5. (T \ {x}) \cup {x} = T /\ x \in S \ (T \ {x}) /\ T \ {x} \in SUBSET S
    BY <2>2
  <2> QED BY <2>4, <2>5
<1>3. Cardinality(S) \in Q
  <2> HIDE DEF Q
  <2> QED BY <1>0, <1>1, <1>2, NatInduct
<1> QED BY <1>3

(***************************************************************************)
(* The fold that Total is built on takes the members of a set in the order *)
(* of Pick, with a function of the subsets that satisfies IsIter.          *)
(***************************************************************************)
Pick(s) == CHOOSE x \in s : TRUE

IsIter(g, f, S) ==
  g = [s \in SUBSET S |-> IF s = {} THEN 0 ELSE f[Pick(s)] + g[s \ {Pick(s)}]]

(***************************************************************************)
(* Total is that function at the whole set.                                *)
(***************************************************************************)
LEMMA TotalIter ==
  ASSUME NEW f, NEW S
  PROVE  Total(f, S) = (CHOOSE g : IsIter(g, f, S))[S]
  BY DEF Total, MapThenSumSet, MapThenFoldSet, IsIter, Pick

(***************************************************************************)
(* A nonempty set contains its Pick.                                       *)
(***************************************************************************)
LEMMA PickIn ==
  ASSUME NEW s, s # {}
  PROVE  Pick(s) \in s
  BY DEF Pick

(***************************************************************************)
(* The function exists for a finite set: one that satisfies the equation   *)
(* for all subsets of at most n members gives one for n + 1 members.       *)
(***************************************************************************)
LEMMA IterExists ==
  ASSUME NEW S, IsFiniteSet(S), NEW f, \A x \in S : f[x] \in Int
  PROVE  \E g \in [SUBSET S -> Int] : IsIter(g, f, S)
<1> DEFINE Small(n) == {s \in SUBSET S : Cardinality(s) <= n}
           Def(g, s) == IF s = {} THEN 0 ELSE f[Pick(s)] + g[s \ {Pick(s)}]
           P == {n \in Nat : \E g \in [SUBSET S -> Int] : \A s \in Small(n) : g[s] = Def(g, s)}
<1>0. \A s \in SUBSET S : IsFiniteSet(s) /\ Cardinality(s) \in Nat
  BY FS_Subset, FS_CardinalityType
<1>1. 0 \in P
  <2>1. \A s \in Small(0) : s = {}
    BY <1>0, FS_EmptySet
  <2>2. [s \in SUBSET S |-> 0] \in [SUBSET S -> Int]
    OBVIOUS
  <2> QED BY <2>1, <2>2, Zenon
<1>2. ASSUME NEW n \in Nat, n \in P PROVE n + 1 \in P
  <2>1. PICK g \in [SUBSET S -> Int] : \A s \in Small(n) : g[s] = Def(g, s)
    BY <1>2, Zenon
  <2> DEFINE h == [s \in SUBSET S |-> Def(g, s)]
  <2>2. \A s \in SUBSET S : s # {} => Pick(s) \in s
    BY PickIn
  <2>3. \A s \in SUBSET S : Def(g, s) \in Int
    BY <2>2
  <2>4. h \in [SUBSET S -> Int]
    BY <2>3
  <2>5. ASSUME NEW s \in Small(n + 1) PROVE h[s] = Def(h, s)
    <3>1. CASE s = {}
      BY <3>1
    <3>2. CASE s # {}
      <4>1. Cardinality(s \ {Pick(s)}) = Cardinality(s) - 1
        BY <1>0, <2>2, <3>2, FS_RemoveElement
      <4>2. s \ {Pick(s)} \in Small(n)
        BY <1>0, <4>1
      <4>3. h[s \ {Pick(s)}] = g[s \ {Pick(s)}]
        BY <2>1, <4>2, Zenon
      <4> QED BY <4>3
    <3> QED BY <3>1, <3>2
  <2> HIDE DEF h, Def
  <2>6. \E x \in [SUBSET S -> Int] : \A s \in Small(n + 1) : x[s] = Def(x, s)
    BY <2>4, <2>5
  <2> QED BY <2>6
<1>3. Cardinality(S) \in P
  <2>1. Nat \subseteq P
    <3> HIDE DEF P
    <3> QED BY <1>1, <1>2, NatInduct
  <2> QED BY <1>0, <2>1, Zenon
<1>4. PICK g \in [SUBSET S -> Int] : \A s \in Small(Cardinality(S)) : g[s] = Def(g, s)
  BY <1>3, Zenon
<1>5. \A s \in SUBSET S : s \in Small(Cardinality(S))
  BY <1>0, FS_Subset
<1>6. g = [s \in SUBSET S |-> Def(g, s)]
  BY <1>4, <1>5
<1> QED BY <1>6, Zenon DEF IsIter

(***************************************************************************)
(* Two such functions have the same value at a set on which the summands   *)
(* agree, whichever sets they were made for.                               *)
(***************************************************************************)
LEMMA IterUnique ==
  ASSUME NEW S, NEW R, NEW f, NEW e, NEW g, NEW h, IsIter(g, f, S), IsIter(h, e, R),
         NEW s, IsFiniteSet(s), s \subseteq S, s \subseteq R, \A x \in s : f[x] = e[x]
  PROVE  g[s] = h[s]
<1> DEFINE P == {n \in Nat : \A t \in SUBSET s : Cardinality(t) = n => g[t] = h[t]}
<1>0. \A t \in SUBSET s : IsFiniteSet(t) /\ Cardinality(t) \in Nat
  BY FS_Subset, FS_CardinalityType
<1>1. \A t \in SUBSET s :
        /\ g[t] = IF t = {} THEN 0 ELSE f[Pick(t)] + g[t \ {Pick(t)}]
        /\ h[t] = IF t = {} THEN 0 ELSE e[Pick(t)] + h[t \ {Pick(t)}]
  BY Zenon DEF IsIter
<1>2. 0 \in P
  <2>1. \A t \in SUBSET s : Cardinality(t) = 0 => t = {}
    BY <1>0, FS_EmptySet
  <2> QED BY <1>1, <2>1, Zenon
<1>3. ASSUME NEW n \in Nat, n \in P PROVE n + 1 \in P
  <2> SUFFICES ASSUME NEW t \in SUBSET s, Cardinality(t) = n + 1 PROVE g[t] = h[t]
    OBVIOUS
  <2>1. t # {} /\ \A x \in t : Cardinality(t \ {x}) = n
    BY <1>0, OneLess
  <2>2. Pick(t) \in t
    BY <2>1, PickIn
  <2>3. Cardinality(t \ {Pick(t)}) = n
    BY <2>1, <2>2
  <2>4. g[t \ {Pick(t)}] = h[t \ {Pick(t)}]
    BY <1>3, <2>3
  <2>5. f[Pick(t)] = e[Pick(t)]
    BY <2>2
  <2> QED BY <1>1, <2>1, <2>4, <2>5
<1>4. Cardinality(s) \in P
  <2> HIDE DEF P
  <2> QED BY <1>0, <1>2, <1>3, NatInduct
<1> QED BY <1>4

(***************************************************************************)
(* A total depends on the summands of the set only, and is an integer.     *)
(***************************************************************************)
LEMMA TotalAgree ==
  ASSUME NEW S, IsFiniteSet(S), NEW f, NEW e, \A x \in S : f[x] = e[x] /\ f[x] \in Int
  PROVE  Total(f, S) = Total(e, S) /\ Total(f, S) \in Int
<1> DEFINE g == CHOOSE i : IsIter(i, f, S)
           h == CHOOSE i : IsIter(i, e, S)
<1>1. /\ \E i \in [SUBSET S -> Int] : IsIter(i, f, S)
      /\ \E i \in [SUBSET S -> Int] : IsIter(i, e, S)
  BY IterExists, Zenon
<1>2. IsIter(g, f, S) /\ IsIter(h, e, S)
  BY <1>1
<1>3. PICK i \in [SUBSET S -> Int] : IsIter(i, f, S)
  BY <1>1
<1> HIDE DEF g, h
<1>4. g[S] = h[S] /\ g[S] = i[S]
  BY <1>2, <1>3, IterUnique
<1>5. Total(f, S) = g[S] /\ Total(e, S) = h[S]
  BY TotalIter DEF g, h
<1> QED BY <1>3, <1>4, <1>5, Zenon

(***************************************************************************)
(* The total over the empty set is 0.                                      *)
(***************************************************************************)
LEMMA TotalEmpty ==
  ASSUME NEW f
  PROVE  Total(f, {}) = 0
<1> DEFINE g == CHOOSE i : IsIter(i, f, {})
<1>1. \E i \in [SUBSET {} -> Int] : IsIter(i, f, {})
  BY IterExists, FS_EmptySet, Zenon
<1>2. IsIter(g, f, {})
  BY <1>1
<1>3. Total(f, {}) = g[{}]
  BY TotalIter
<1> HIDE DEF g
<1> QED BY <1>2, <1>3 DEF IsIter

(***************************************************************************)
(* The first step of the fold.                                             *)
(***************************************************************************)
LEMMA TotalPick ==
  ASSUME NEW S, IsFiniteSet(S), S # {}, NEW f, \A x \in S : f[x] \in Int
  PROVE  Total(f, S) = f[Pick(S)] + Total(f, S \ {Pick(S)})
<1> DEFINE R == S \ {Pick(S)}
           g == CHOOSE i : IsIter(i, f, S)
           h == CHOOSE i : IsIter(i, f, R)
<1>0. IsFiniteSet(R)
  BY FS_Subset
<1>1. /\ \E i \in [SUBSET S -> Int] : IsIter(i, f, S)
      /\ \E i \in [SUBSET R -> Int] : IsIter(i, f, R)
  BY <1>0, IterExists, Zenon
<1>2. IsIter(g, f, S) /\ IsIter(h, f, R)
  BY <1>1, Zenon
<1>3. Total(f, S) = g[S] /\ Total(f, R) = h[R]
  BY TotalIter
<1> HIDE DEF g, h
<1>4. g[R] = h[R]
  BY <1>0, <1>2, IterUnique
<1>5. g[S] = f[Pick(S)] + g[R]
  BY <1>2, Zenon DEF IsIter
<1> QED BY <1>3, <1>4, <1>5

(***************************************************************************)
(* A further member adds its summand, wherever it comes in the order of    *)
(* the fold.                                                               *)
(***************************************************************************)
LEMMA TotalAdd ==
  ASSUME NEW S, IsFiniteSet(S), NEW x, x \notin S, NEW f, \A y \in S \cup {x} : f[y] \in Int
  PROVE  Total(f, S \cup {x}) = f[x] + Total(f, S)
<1> DEFINE P == {n \in Nat : \A T \in SUBSET (S \cup {x}) : \A y \in S \cup {x} :
                   Cardinality(T) = n /\ y \notin T => Total(f, T \cup {y}) = f[y] + Total(f, T)}
<1>0. \A T \in SUBSET (S \cup {x}) : IsFiniteSet(T) /\ Cardinality(T) \in Nat /\ Total(f, T) \in Int
  <2>1. IsFiniteSet(S \cup {x})
    BY FS_AddElement
  <2> QED BY <2>1, FS_Subset, FS_CardinalityType, TotalAgree
<1>1. 0 \in P
  <2> SUFFICES ASSUME NEW T \in SUBSET (S \cup {x}), NEW y \in S \cup {x}, Cardinality(T) = 0
               PROVE  Total(f, T \cup {y}) = f[y] + Total(f, T)
    BY Zenon
  <2>1. T = {}
    BY <1>0, FS_EmptySet
  <2>2. Pick({y}) = y
    BY PickIn
  <2>3. IsFiniteSet({y}) /\ {y} \ {y} = {}
    BY FS_Singleton, Zenon
  <2>4. Total(f, {y}) = f[y] + Total(f, {})
    BY <2>2, <2>3, TotalPick, Zenon
  <2> QED BY <2>1, <2>4
<1>2. ASSUME NEW n \in Nat, n \in P PROVE n + 1 \in P
  <2> SUFFICES ASSUME NEW T \in SUBSET (S \cup {x}), NEW y \in S \cup {x},
                      Cardinality(T) = n + 1, y \notin T
               PROVE  Total(f, T \cup {y}) = f[y] + Total(f, T)
    OBVIOUS
  <2> DEFINE U == T \cup {y}
             z == Pick(U)
  <2>1. z \in U /\ IsFiniteSet(U)
    BY <1>0, PickIn
  <2>2. Total(f, U) = f[z] + Total(f, U \ {z})
    BY <2>1, TotalPick
  <2> HIDE DEF z
  <2>3. CASE z = y
    <3>1. U \ {z} = T
      BY <2>3
    <3> QED BY <2>2, <2>3, <3>1
  <2>4. CASE z # y
    <3>1. z \in T
      BY <2>1, <2>4
    <3>2. Cardinality(T \ {z}) = n
      BY <1>0, <3>1, OneLess
    <3>3. Total(f, (T \ {z}) \cup {z}) = f[z] + Total(f, T \ {z})
      BY <1>2, <3>1, <3>2
    <3>4. Total(f, (T \ {z}) \cup {y}) = f[y] + Total(f, T \ {z})
      BY <1>2, <3>2
    <3>5. (T \ {z}) \cup {z} = T /\ (T \ {z}) \cup {y} = U \ {z}
      BY <2>4, <3>1
    <3>6. f[y] \in Int /\ f[z] \in Int /\ Total(f, T \ {z}) \in Int
      BY <1>0, <3>1
    <3>7. Total(f, T) = f[z] + Total(f, T \ {z}) /\ Total(f, U \ {z}) = f[y] + Total(f, T \ {z})
      BY <3>3, <3>4, <3>5
    <3> HIDE DEF U, P
    <3>8. Total(f, U) = f[y] + Total(f, T)
      BY <2>2, <3>6, <3>7
    <3> QED BY <3>8 DEF U
  <2> QED BY <2>3, <2>4
<1>3. Cardinality(S) \in P
  <2> HIDE DEF P
  <2> QED BY <1>0, <1>1, <1>2, NatInduct
<1> QED BY <1>3

(***************************************************************************)
(* The same, for a member that is taken out.                               *)
(***************************************************************************)
LEMMA TotalRemove ==
  ASSUME NEW S, IsFiniteSet(S), NEW x \in S, NEW f, \A y \in S : f[y] \in Int
  PROVE  Total(f, S) = f[x] + Total(f, S \ {x})
<1>1. IsFiniteSet(S \ {x}) /\ (S \ {x}) \cup {x} = S
  BY FS_Subset
<1> QED BY <1>1, TotalAdd

(***************************************************************************)
(* When one summand changes the total changes by the same amount.          *)
(***************************************************************************)
LEMMA TotalUpdate ==
  ASSUME NEW S, IsFiniteSet(S), NEW x \in S, NEW f, NEW e,
         \A y \in S : f[y] \in Int /\ e[y] \in Int, \A y \in S \ {x} : f[y] = e[y]
  PROVE  Total(e, S) = Total(f, S) + (e[x] - f[x])
<1>1. Total(f, S) = f[x] + Total(f, S \ {x}) /\ Total(e, S) = e[x] + Total(e, S \ {x})
  BY TotalRemove
<1>2. Total(f, S \ {x}) = Total(e, S \ {x}) /\ Total(f, S \ {x}) \in Int
  BY TotalAgree, FS_Subset
<1> QED BY <1>1, <1>2

(***************************************************************************)
(* Larger summands have a larger total.                                    *)
(***************************************************************************)
LEMMA TotalMonotone ==
  ASSUME NEW S, IsFiniteSet(S), NEW f, NEW e,
         \A y \in S : f[y] \in Int /\ e[y] \in Int /\ f[y] <= e[y]
  PROVE  Total(f, S) <= Total(e, S)
<1> DEFINE P == {T \in SUBSET S : Total(f, T) <= Total(e, T)}
<1>1. {} \in P
  BY TotalEmpty
<1>2. ASSUME NEW T \in SUBSET S, NEW x \in S \ T, T \in P PROVE T \cup {x} \in P
  <2>1. IsFiniteSet(T) /\ Total(f, T) \in Int /\ Total(e, T) \in Int
    BY FS_Subset, TotalAgree
  <2>2. Total(f, T \cup {x}) = f[x] + Total(f, T) /\ Total(e, T \cup {x}) = e[x] + Total(e, T)
    BY <2>1, TotalAdd, Zenon
  <2>3. Total(f, T) <= Total(e, T) /\ f[x] \in Int /\ e[x] \in Int /\ f[x] <= e[x]
    BY <1>2
  <2>4. Total(f, T \cup {x}) <= Total(e, T \cup {x})
    BY <2>1, <2>2, <2>3
  <2> QED BY <2>4
<1>3. S \in P
  <2> HIDE DEF P
  <2> QED BY <1>1, <1>2, SubsetInduct, Zenon
<1> QED BY <1>3

(***************************************************************************)
(* A total of zeros is 0.                                                  *)
(***************************************************************************)
LEMMA TotalZero ==
  ASSUME NEW S, IsFiniteSet(S), NEW f, \A y \in S : f[y] = 0
  PROVE  Total(f, S) = 0
<1> DEFINE P == {T \in SUBSET S : Total(f, T) = 0}
<1>1. {} \in P
  BY TotalEmpty
<1>2. ASSUME NEW T \in SUBSET S, NEW x \in S \ T, T \in P PROVE T \cup {x} \in P
  <2>0. IsFiniteSet(T) /\ \A y \in T \cup {x} : f[y] \in Int
    BY FS_Subset
  <2>1. Total(f, T \cup {x}) = f[x] + Total(f, T)
    BY <2>0, TotalAdd, Zenon
  <2> QED BY <1>2, <2>1
<1>3. S \in P
  <2> HIDE DEF P
  <2> QED BY <1>1, <1>2, SubsetInduct, Zenon
<1> QED BY <1>3

(***************************************************************************)
(* The total of natural numbers is one, and no summand exceeds it.         *)
(***************************************************************************)
LEMMA TotalNat ==
  ASSUME NEW S, IsFiniteSet(S), NEW f, \A y \in S : f[y] \in Nat
  PROVE  Total(f, S) \in Nat /\ \A x \in S : f[x] <= Total(f, S)
<1> DEFINE z == [y \in S |-> 0]
<1>1. \A T \in SUBSET S : IsFiniteSet(T) /\ Total(f, T) \in Int
  BY FS_Subset, TotalAgree
<1>2. ASSUME NEW T \in SUBSET S PROVE Total(f, T) \in Nat
  <2>1. Total(z, T) = 0
    BY <1>1, TotalZero
  <2>2. Total(z, T) <= Total(f, T)
    BY <1>1, TotalMonotone
  <2> QED BY <1>1, <2>1, <2>2
<1>3. ASSUME NEW x \in S PROVE f[x] <= Total(f, S)
  <2>1. Total(f, S) = f[x] + Total(f, S \ {x})
    BY TotalRemove
  <2>2. Total(f, S \ {x}) \in Nat /\ f[x] \in Nat
    BY <1>2
  <2> QED BY <2>1, <2>2
<1> QED BY <1>2, <1>3

(***************************************************************************)
(* The total of sums is the sum of the totals.                             *)
(***************************************************************************)
LEMMA TotalSum ==
  ASSUME NEW S, IsFiniteSet(S), NEW f, NEW g, NEW h,
         \A y \in S : f[y] = g[y] + h[y] /\ g[y] \in Int /\ h[y] \in Int
  PROVE  Total(f, S) = Total(g, S) + Total(h, S)
<1> DEFINE P == {T \in SUBSET S : Total(f, T) = Total(g, T) + Total(h, T)}
<1>1. {} \in P
  BY TotalEmpty
<1>2. ASSUME NEW T \in SUBSET S, NEW x \in S \ T, T \in P PROVE T \cup {x} \in P
  <2>0. IsFiniteSet(T) /\ \A y \in T \cup {x} : f[y] \in Int /\ g[y] \in Int /\ h[y] \in Int
    BY FS_Subset
  <2>1. Total(f, T \cup {x}) = f[x] + Total(f, T)
    BY <2>0, TotalAdd
  <2>2. Total(g, T \cup {x}) = g[x] + Total(g, T)
    BY <2>0, TotalAdd
  <2>3. Total(h, T \cup {x}) = h[x] + Total(h, T)
    BY <2>0, TotalAdd
  <2>4. Total(g, T) \in Int /\ Total(h, T) \in Int
    BY <2>0, TotalAgree
  <2>5. f[x] = g[x] + h[x] /\ g[x] \in Int /\ h[x] \in Int
    OBVIOUS
  <2>6. Total(f, T) = Total(g, T) + Total(h, T)
    BY <1>2
  <2>7. Total(f, T \cup {x}) = Total(g, T \cup {x}) + Total(h, T \cup {x})
    <3> HIDE DEF P
    <3> QED BY <2>1, <2>2, <2>3, <2>4, <2>5, <2>6
  <2> QED BY <2>7
<1>3. S \in P
  <2> HIDE DEF P
  <2> QED BY <1>1, <1>2, SubsetInduct, Zenon
<1> QED BY <1>3

(***************************************************************************)
(* Members whose summand is zero may be left out.                          *)
(***************************************************************************)
LEMMA TotalWithin ==
  ASSUME NEW R, IsFiniteSet(R), NEW S, S \subseteq R, NEW f,
         \A y \in R : f[y] \in Int, \A y \in R \ S : f[y] = 0
  PROVE  Total(f, R) = Total(f, S)
<1> DEFINE P == {T \in SUBSET (R \ S) : Total(f, S \cup T) = Total(f, S)}
<1>1. {} \in P
  <2>1. S \cup {} = S
    OBVIOUS
  <2> QED BY <2>1
<1>2. ASSUME NEW T \in SUBSET (R \ S), NEW x \in (R \ S) \ T, T \in P PROVE T \cup {x} \in P
  <2> DEFINE U == S \cup T
  <2>1. U \subseteq R /\ x \notin U /\ x \in R /\ f[x] = 0 /\ S \cup (T \cup {x}) = U \cup {x}
    OBVIOUS
  <2>2. Total(f, U) = Total(f, S)
    BY <1>2
  <2> HIDE DEF U, P
  <2>3. IsFiniteSet(U) /\ \A y \in U \cup {x} : f[y] \in Int
    BY <2>1, FS_Subset
  <2>4. Total(f, U \cup {x}) = f[x] + Total(f, U)
    BY <2>1, <2>3, TotalAdd
  <2>5. Total(f, U) \in Int
    BY <2>3, TotalAgree
  <2>6. Total(f, S \cup (T \cup {x})) = Total(f, S)
    <3>1. Total(f, U \cup {x}) = Total(f, U)
      BY <2>1, <2>4, <2>5
    <3>2. S \cup (T \cup {x}) = U \cup {x}
      BY <2>1
    <3> QED BY <2>2, <3>1, <3>2
  <2> QED BY <1>2, <2>6 DEF P
<1>3. IsFiniteSet(R \ S)
  BY FS_Subset
<1> HIDE DEF P
<1>4. R \ S \in P
  <2> DEFINE Z == R \ S
  <2>1. \A T \in SUBSET Z : \A x \in Z \ T : T \in P => T \cup {x} \in P
    BY <1>2
  <2>2. IsFiniteSet(Z)
    BY <1>3
  <2> HIDE DEF Z
  <2>3. Z \in P
    BY <1>1, <2>1, <2>2, SubsetInduct, Zenon
  <2> QED BY <2>3 DEF Z
<1>5. S \cup (R \ S) = R
  OBVIOUS
<1> QED BY <1>4, <1>5 DEF P
=============================================================================
