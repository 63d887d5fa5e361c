------------------------- MODULE SubsequencesProofs -------------------------
(***************************************************************************)
(* What Subsequences promises: every number up to the size of a finite set *)
(* is the rank of one of its members, so a sublist is a sequence of the    *)
(* list's own items; its positions rise; and it is determined by them.     *)
(***************************************************************************)
EXTENDS Subsequences, FiniteSetTheorems, TLAPS

-----------------------------------------------------------------------------
(* Ranks in a finite set under a strict total order R, a set of pairs *)

Below(I, R, i) == {j \in I : <<j, i>> \in R}

(* Whoever is below another has less below. *)
LEMMA LessBelow ==
  ASSUME NEW I, IsFiniteSet(I), NEW R, NEW i \in I, NEW j \in I, <<i, j>> \in R,
         \A x, y, z \in I : <<x, y>> \in R /\ <<y, z>> \in R => <<x, z>> \in R,
         \A x \in I : <<x, x>> \notin R
  PROVE  Cardinality(Below(I, R, i)) < Cardinality(Below(I, R, j))
<1>1. IsFiniteSet(Below(I, R, j))
  BY FS_Subset DEF Below
<1>2. Below(I, R, i) \subseteq Below(I, R, j)
  BY DEF Below
<1>3. i \in Below(I, R, j) /\ i \notin Below(I, R, i)
  BY DEF Below
<1>. QED
  BY <1>1, <1>2, <1>3, FS_Subset, FS_CardinalityType

(* Every rank below the size of the set is taken, by one member only. *)
LEMMA RanksTaken ==
  ASSUME NEW I, IsFiniteSet(I), NEW R,
         \A x, y, z \in I : <<x, y>> \in R /\ <<y, z>> \in R => <<x, z>> \in R,
         \A x \in I : <<x, x>> \notin R,
         \A x, y \in I : x = y \/ <<x, y>> \in R \/ <<y, x>> \in R
  PROVE  /\ \A n \in 1..Cardinality(I) :
              \E i \in I : Cardinality(Below(I, R, i)) = n - 1
         /\ \A i, j \in I :
              Cardinality(Below(I, R, i)) = Cardinality(Below(I, R, j)) => i = j
<1>. DEFINE size == Cardinality(I)
            Rank(i) == Cardinality(Below(I, R, i))
            T == 0..size - 1
            f == [i \in I |-> Rank(i)]
<1>1. size \in Nat
  BY FS_CardinalityType
<1>2. \A i \in I : Rank(i) \in T
  <2>. SUFFICES ASSUME NEW i \in I PROVE Rank(i) \in T
    OBVIOUS
  <2>1. Below(I, R, i) \subseteq I /\ i \in I /\ i \notin Below(I, R, i)
    BY DEF Below
  <2>2. Rank(i) \in Nat /\ Rank(i) < size
    BY <2>1, FS_Subset, FS_CardinalityType
  <2>. QED
    BY <1>1, <2>2
<1>3. \A i, j \in I : Rank(i) = Rank(j) => i = j
  <2>. SUFFICES ASSUME NEW i \in I, NEW j \in I, i # j PROVE Rank(i) # Rank(j)
    OBVIOUS
  <2>0. Rank(i) \in Nat /\ Rank(j) \in Nat
    BY <1>1, <1>2
  <2>1. CASE <<i, j>> \in R
    <3>1. Cardinality(Below(I, R, i)) < Cardinality(Below(I, R, j))
      BY <2>1, LessBelow
    <3>. QED
      BY <2>0, <3>1
  <2>2. CASE <<j, i>> \in R
    <3>1. Cardinality(Below(I, R, j)) < Cardinality(Below(I, R, i))
      BY <2>2, LessBelow
    <3>. QED
      BY <2>0, <3>1
  <2>. QED
    BY <2>1, <2>2
<1>4. IsFiniteSet(T) /\ Cardinality(T) = size
  <2>1. 0 \in Int /\ size - 1 \in Int
    BY <1>1
  <2>. QED
    BY <1>1, <2>1, FS_Interval
<1>5. f \in Injection(I, T)
  BY <1>2, <1>3 DEF Injection, IsInjective
<1>6. f \in Surjection(I, T)
  BY <1>4, <1>5, FS_Injection
<1>7. \A t \in T : \E i \in I : Rank(i) = t
  BY <1>6 DEF Surjection
<1>. QED
  BY <1>1, <1>3, <1>7

-----------------------------------------------------------------------------
(* Sublists *)

(* The positions kept, in their order: each of them is the n-th for one n. *)
LEMMA NthKept ==
  ASSUME NEW kept \in SUBSET Nat, IsFiniteSet(kept)
  PROVE  /\ Cardinality(kept) \in Nat
         /\ \A n \in 1..Cardinality(kept) :
              /\ Nth(kept, n) \in kept
              /\ Cardinality(Earlier(kept, Nth(kept, n))) = n - 1
         /\ \A m, n \in 1..Cardinality(kept) : m < n => Nth(kept, m) < Nth(kept, n)
         /\ \A i \in kept : \E n \in 1..Cardinality(kept) : Nth(kept, n) = i
<1>. DEFINE R == {p \in kept \X kept : p[1] < p[2]}
            size == Cardinality(kept)
<1>0. size \in Nat
  BY FS_CardinalityType
<1>1. \A i \in kept : Below(kept, R, i) = Earlier(kept, i)
  BY DEF Below, Earlier
<1>2. /\ \A x, y, z \in kept : <<x, y>> \in R /\ <<y, z>> \in R => <<x, z>> \in R
      /\ \A x \in kept : <<x, x>> \notin R
      /\ \A x, y \in kept : x = y \/ <<x, y>> \in R \/ <<y, x>> \in R
  OBVIOUS
<1>3. \A i \in kept : \A j \in kept : <<i, j>> \in R <=> i < j
  OBVIOUS
<1>. HIDE DEF R
<1>4. /\ \A n \in 1..size : \E i \in kept : Cardinality(Below(kept, R, i)) = n - 1
      /\ \A i, j \in kept :
           Cardinality(Below(kept, R, i)) = Cardinality(Below(kept, R, j)) => i = j
  BY <1>2, RanksTaken
<1>5. \A n \in 1..size :
        /\ Nth(kept, n) \in kept
        /\ Cardinality(Earlier(kept, Nth(kept, n))) = n - 1
  BY <1>1, <1>4 DEF Nth
<1>6. \A i, j \in kept :
        i < j => Cardinality(Earlier(kept, i)) < Cardinality(Earlier(kept, j))
  BY <1>1, <1>2, <1>3, LessBelow
<1>7. \A m, n \in 1..size : m < n => Nth(kept, m) < Nth(kept, n)
  <2>. SUFFICES ASSUME NEW m \in 1..size, NEW n \in 1..size, m < n,
                       ~(Nth(kept, m) < Nth(kept, n))
                PROVE  FALSE
    OBVIOUS
  <2>1. Nth(kept, m) \in Nat /\ Nth(kept, n) \in Nat
    BY <1>5
  <2>2. CASE Nth(kept, m) = Nth(kept, n)
    BY <1>0, <1>5, <2>2
  <2>3. CASE Nth(kept, n) < Nth(kept, m)
    <3>1. Cardinality(Earlier(kept, Nth(kept, n))) < Cardinality(Earlier(kept, Nth(kept, m)))
      BY <1>5, <1>6, <2>3
    <3>2. n - 1 < m - 1
      BY <1>5, <3>1
    <3>. QED
      BY <1>0, <3>2
  <2>. QED
    BY <2>1, <2>2, <2>3
<1>8. \A i \in kept : \E n \in 1..size : Nth(kept, n) = i
  <2>. SUFFICES ASSUME NEW i \in kept PROVE \E n \in 1..size : Nth(kept, n) = i
    OBVIOUS
  <2>1. Earlier(kept, i) \subseteq kept /\ i \notin Earlier(kept, i)
    BY DEF Earlier
  <2>2. PICK n \in 1..size : Cardinality(Earlier(kept, i)) = n - 1
    <3>1. Cardinality(Earlier(kept, i)) \in Nat /\ Cardinality(Earlier(kept, i)) < size
      BY <1>0, <2>1, FS_Subset, FS_CardinalityType
    <3>2. Cardinality(Earlier(kept, i)) + 1 \in 1..size
      BY <1>0, <3>1
    <3>. QED
      BY <3>1, <3>2
  <2>3. Cardinality(Below(kept, R, Nth(kept, n))) = Cardinality(Below(kept, R, i))
    <3>2. Cardinality(Earlier(kept, Nth(kept, n))) = n - 1
      BY <1>5, <2>2
    <3>. QED
      BY <1>1, <1>5, <2>2, <3>2
  <2>. QED
    BY <1>4, <1>5, <2>2, <2>3
<1>. QED
  BY <1>0, <1>5, <1>7, <1>8

(* A sublist of a sequence is a sequence of items at the positions kept. *)
LEMMA SublistItems ==
  ASSUME NEW S, NEW list \in Seq(S), NEW kept \in SUBSET DOMAIN list
  PROVE  /\ Sublist(list, kept) \in Seq(S)
         /\ Len(Sublist(list, kept)) = Cardinality(kept)
         /\ \A n \in DOMAIN Sublist(list, kept) :
              \E i \in kept : Sublist(list, kept)[n] = list[i]
<1>1. IsFiniteSet(kept) /\ kept \in SUBSET Nat
  BY FS_Interval, FS_Subset
<1>2. /\ Cardinality(kept) \in Nat
      /\ \A n \in 1..Cardinality(kept) : Nth(kept, n) \in kept
  BY <1>1, NthKept
<1>3. \A n \in 1..Cardinality(kept) :
        Sublist(list, kept)[n] = list[Nth(kept, n)] /\ list[Nth(kept, n)] \in S
  BY <1>2 DEF Sublist
<1>4. Sublist(list, kept) \in [1..Cardinality(kept) -> S]
  BY <1>2, <1>3 DEF Sublist
<1>5. Sublist(list, kept) \in Seq(S) /\ Len(Sublist(list, kept)) = Cardinality(kept)
  BY <1>2, <1>4
<1>. QED
  BY <1>2, <1>3, <1>5

(* What lies between two positions of a sequence. *)
LEMMA PartItems ==
  ASSUME NEW S, NEW list \in Seq(S), NEW m \in 1..Len(list) + 1, NEW n \in m - 1..Len(list)
  PROVE  /\ SubSeq(list, m, n) \in Seq(S) /\ Len(SubSeq(list, m, n)) = n - m + 1
         /\ \A i \in DOMAIN SubSeq(list, m, n) :
              \E j \in DOMAIN list : SubSeq(list, m, n)[i] = list[j]
<1>1. Len(list) \in Nat /\ m \in Nat /\ n \in Int
  OBVIOUS
<1>2. SubSeq(list, m, n) = [i \in 1..n - m + 1 |-> list[i + m - 1]]
  BY <1>1
<1>3. \A i \in 1..n - m + 1 : i + m - 1 \in DOMAIN list /\ list[i + m - 1] \in S
  BY <1>1
<1>4. n - m + 1 \in Nat
  BY <1>1
<1>. QED
  BY <1>2, <1>3, <1>4

(* The values of a function up to a number: as many, if it rises. *)
Values(f, l) == {f[n] : n \in 1..l}

LEMMA RisingValues ==
  ASSUME NEW k \in Nat, NEW f \in [1..k -> Nat],
         \A m, n \in 1..k : m < n => f[m] < f[n], NEW l \in 0..k
  PROVE  IsFiniteSet(Values(f, l)) /\ Cardinality(Values(f, l)) = l
<1>. DEFINE T == Values(f, l)
            g == [n \in 1..l |-> f[n]]
<1>1. IsFiniteSet(1..l) /\ Cardinality(1..l) = l
  BY FS_Interval
<1>2. g \in Surjection(1..l, T)
  BY DEF Surjection, Values
<1>3. \A m, n \in 1..l : g[m] = g[n] => m = n
  <2>. SUFFICES ASSUME NEW m \in 1..l, NEW n \in 1..l, f[m] = f[n], m # n PROVE FALSE
    OBVIOUS
  <2>1. m \in 1..k /\ n \in 1..k /\ f[m] \in Nat /\ f[n] \in Nat
    OBVIOUS
  <2>2. m < n \/ n < m
    OBVIOUS
  <2>3. f[m] < f[n] \/ f[n] < f[m]
    BY <2>1, <2>2
  <2>. QED
    BY <2>1, <2>3
<1>4. g \in Injection(1..l, T)
  BY <1>2, <1>3 DEF Injection, IsInjective, Surjection
<1>. QED
  BY <1>1, <1>2, <1>4, FS_Surjection

(* Items picked at rising positions are a sublist: that of those positions. *)
LEMMA RisingSublist ==
  ASSUME NEW S, NEW list \in Seq(S), NEW k \in Nat, NEW f \in [1..k -> DOMAIN list],
         \A m, n \in 1..k : m < n => f[m] < f[n]
  PROVE  Sublist(list, Values(f, k)) = [n \in 1..k |-> list[f[n]]]
<1>. DEFINE kept == Values(f, k)
<1>1. f \in [1..k -> Nat]
  OBVIOUS
<1>2. IsFiniteSet(kept) /\ Cardinality(kept) = k /\ kept \in SUBSET Nat
  <2>1. k \in 0..k
    OBVIOUS
  <2>2. IsFiniteSet(kept) /\ Cardinality(kept) = k
    BY <1>1, <2>1, RisingValues
  <2>. QED
    BY <1>1, <2>2 DEF Values
<1>3. \A n \in 1..k : Cardinality(Earlier(kept, f[n])) = n - 1
  <2>. SUFFICES ASSUME NEW n \in 1..k PROVE Cardinality(Earlier(kept, f[n])) = n - 1
    OBVIOUS
  <2>1. \A m \in 1..k : f[m] < f[n] <=> m < n
    <3>. SUFFICES ASSUME NEW m \in 1..k PROVE f[m] < f[n] <=> m < n
      OBVIOUS
    <3>1. f[m] \in Nat /\ f[n] \in Nat
      BY <1>1
    <3>2. m < n \/ m = n \/ n < m
      OBVIOUS
    <3>3. m < n => f[m] < f[n]
      OBVIOUS
    <3>4. n < m => f[n] < f[m]
      OBVIOUS
    <3>. QED
      BY <3>1, <3>2, <3>3, <3>4
  <2>2. Earlier(kept, f[n]) = Values(f, n - 1)
    BY <2>1 DEF Earlier, Values
  <2>3. n - 1 \in 0..k
    OBVIOUS
  <2>. QED
    BY <1>1, <2>2, <2>3, RisingValues
<1>4. \A n \in 1..k : Nth(kept, n) = f[n]
  <2>. SUFFICES ASSUME NEW n \in 1..k PROVE Nth(kept, n) = f[n]
    OBVIOUS
  <2>1. PICK m \in 1..k : Nth(kept, m) = f[n]
    <3>1. f[n] \in kept
      BY DEF Values
    <3>. QED
      BY <1>2, <3>1, NthKept
  <2>2. Cardinality(Earlier(kept, Nth(kept, m))) = m - 1
    BY <1>2, NthKept
  <2>3. m = n
    BY <1>3, <2>1, <2>2
  <2>. QED
    BY <2>1, <2>3
<1>. HIDE DEF kept
<1>5. Sublist(list, kept) = [n \in 1..k |-> list[f[n]]]
  BY <1>2, <1>4 DEF Sublist
<1>. QED
  BY <1>5 DEF kept

(* Each of the items kept is in the sublist. *)
LEMMA SublistKeeps ==
  ASSUME NEW S, NEW list \in Seq(S), NEW kept \in SUBSET DOMAIN list, NEW i \in kept
  PROVE  \E n \in DOMAIN Sublist(list, kept) : Sublist(list, kept)[n] = list[i]
<1>1. IsFiniteSet(kept) /\ kept \in SUBSET Nat
  BY FS_Interval, FS_Subset
<1>2. PICK n \in 1..Cardinality(kept) : Nth(kept, n) = i
  BY <1>1, NthKept
<1>. QED
  BY <1>2 DEF Sublist

(* A finite set of numbers, in its order. *)
LEMMA InOrder ==
  ASSUME NEW I \in SUBSET Nat, IsFiniteSet(I), I # {}
  PROVE  \E size \in Nat \ {0} : \E f \in [1..size -> I] :
           /\ \A m, n \in 1..size : m < n => f[m] < f[n]
           /\ \A i \in I : \E n \in 1..size : f[n] = i
<1>. DEFINE size == Cardinality(I)
            f == [n \in 1..size |-> Nth(I, n)]
<1>1. size \in Nat \ {0}
  BY FS_CardinalityType, FS_EmptySet
<1>2. /\ \A n \in 1..size : Nth(I, n) \in I
      /\ \A m, n \in 1..size : m < n => Nth(I, m) < Nth(I, n)
      /\ \A i \in I : \E n \in 1..size : Nth(I, n) = i
  BY NthKept
<1>. HIDE DEF size
<1>3. f \in [1..size -> I] /\ \A n \in 1..size : f[n] = Nth(I, n)
  BY <1>2
<1>. HIDE DEF f
<1>4. /\ \A m, n \in 1..size : m < n => f[m] < f[n]
      /\ \A i \in I : \E n \in 1..size : f[n] = i
  BY <1>2, <1>3
<1>. QED
  BY <1>1, <1>3, <1>4

(* It has a least and a greatest member. *)
LEMMA LeastMember ==
  ASSUME NEW I \in SUBSET Nat, IsFiniteSet(I), I # {}
  PROVE  \E least \in I : \A i \in I : least <= i
<1>0. PICK size \in Nat \ {0} : \E f \in [1..size -> I] :
        /\ \A m, n \in 1..size : m < n => f[m] < f[n]
        /\ \A i \in I : \E n \in 1..size : f[n] = i
  BY InOrder
<1>1. PICK f \in [1..size -> I] :
        /\ \A m, n \in 1..size : m < n => f[m] < f[n]
        /\ \A i \in I : \E n \in 1..size : f[n] = i
  BY <1>0
<1>2. 1 \in 1..size /\ f[1] \in I
  OBVIOUS
<1>3. \A n \in 1..size : f[n] \in I
  OBVIOUS
<1>4. ASSUME NEW n \in 1..size PROVE f[n] \in Nat
  BY <1>3
<1>5. ASSUME NEW i \in I PROVE f[1] <= i
  <2>1. PICK n \in 1..size : f[n] = i
    BY <1>1
  <2>2. n = 1 \/ f[1] < f[n]
    BY <1>1, <1>2
  <2>3. f[n] \in Nat /\ f[1] \in Nat
    BY <1>2, <1>4
  <2>. QED
    BY <2>1, <2>2, <2>3
<1>. QED
  BY <1>2, <1>5

LEMMA GreatestMember ==
  ASSUME NEW I \in SUBSET Nat, IsFiniteSet(I), I # {}
  PROVE  \E greatest \in I : \A i \in I : greatest >= i
<1>0. PICK size \in Nat \ {0} : \E f \in [1..size -> I] :
        /\ \A m, n \in 1..size : m < n => f[m] < f[n]
        /\ \A i \in I : \E n \in 1..size : f[n] = i
  BY InOrder
<1>1. PICK f \in [1..size -> I] :
        /\ \A m, n \in 1..size : m < n => f[m] < f[n]
        /\ \A i \in I : \E n \in 1..size : f[n] = i
  BY <1>0
<1>2. size \in 1..size /\ f[size] \in I
  OBVIOUS
<1>3. \A n \in 1..size : f[n] \in I
  OBVIOUS
<1>4. ASSUME NEW n \in 1..size PROVE f[n] \in Nat
  BY <1>3
<1>5. ASSUME NEW i \in I PROVE f[size] >= i
  <2>1. PICK n \in 1..size : f[n] = i
    BY <1>1
  <2>2. n = size \/ f[n] < f[size]
    BY <1>1, <1>2
  <2>3. f[n] \in Nat /\ f[size] \in Nat
    BY <1>2, <1>4
  <2>. QED
    BY <2>1, <2>2, <2>3
<1>. QED
  BY <1>2, <1>5

(* What never differs from the value before it does not differ at all. *)
LEMMA SameThroughout ==
  ASSUME NEW m \in Nat, NEW n \in Nat, NEW f, \A i \in m + 1..n : f[i - 1] = f[i]
  PROVE  \A i \in m..n : f[i] = f[m]
<1>. DEFINE I == {i \in m..n : f[i] # f[m]}
<1>. SUFFICES ASSUME I # {} PROVE FALSE
  OBVIOUS
<1>1. IsFiniteSet(I) /\ I \in SUBSET Nat
  <2>1. m \in Int /\ n \in Int /\ I \subseteq m..n /\ I \in SUBSET Nat
    OBVIOUS
  <2>. QED
    BY <2>1, FS_Interval, FS_Subset
<1>2. PICK least \in I : \A i \in I : least <= i
  BY <1>1, LeastMember
<1>3. least \in m + 1..n
  BY <1>2
<1>4. least - 1 \in m..n /\ least - 1 \notin I
  BY <1>1, <1>2, <1>3
<1>. QED
  BY <1>2, <1>3, <1>4

-----------------------------------------------------------------------------
(* Sorting *)

(* A list of numbers is sorted by moving its items. *)
LEMMA SortedItems ==
  ASSUME NEW S \in SUBSET Nat, NEW list \in Seq(S)
  PROVE  /\ Sorted(list) \in Seq(S) /\ Len(Sorted(list)) = Len(list)
         /\ {Sorted(list)[n] : n \in DOMAIN list} = {list[i] : i \in DOMAIN list}
<1>. DEFINE D == DOMAIN list
            R == {p \in D \X D : \/ list[p[1]] < list[p[2]]
                                 \/ list[p[1]] = list[p[2]] /\ p[1] < p[2]}
<1>1. Len(list) \in Nat /\ D = 1..Len(list) /\ \A i \in D : list[i] \in S /\ list[i] \in Nat
  <2>1. Len(list) \in Nat /\ D = 1..Len(list)
    OBVIOUS
  <2>2. \A i \in 1..Len(list) : list[i] \in S
    OBVIOUS
  <2>. HIDE DEF D
  <2>. QED
    BY <2>1, <2>2
<1>2. IsFiniteSet(D) /\ Cardinality(D) = Len(list) /\ D \in SUBSET Nat
  BY <1>1, FS_Interval
<1>3. \A i, j \in D :
        <<i, j>> \in R <=> list[i] < list[j] \/ (list[i] = list[j] /\ i < j)
  OBVIOUS
<1>. HIDE DEF D, R
<1>4. /\ \A x, y, z \in D : <<x, y>> \in R /\ <<y, z>> \in R => <<x, z>> \in R
      /\ \A x \in D : <<x, x>> \notin R
      /\ \A x, y \in D : x = y \/ <<x, y>> \in R \/ <<y, x>> \in R
  BY <1>1, <1>2, <1>3
<1>5. /\ \A n \in 1..Cardinality(D) : \E i \in D : Cardinality(Below(D, R, i)) = n - 1
      /\ \A i, j \in D :
           Cardinality(Below(D, R, i)) = Cardinality(Below(D, R, j)) => i = j
  BY <1>2, <1>4, RanksTaken
<1>6. \A i \in D : Below(D, R, i) = Sooner(list, i)
  BY <1>3 DEF Below, Sooner, D
<1>7. \A n \in D : Placed(list, n) \in D /\ Cardinality(Sooner(list, Placed(list, n))) = n - 1
  <2>. SUFFICES ASSUME NEW n \in D
                PROVE  \E i \in D : Cardinality(Sooner(list, i)) = n - 1
    BY DEF Placed, D
  <2>. QED
    BY <1>1, <1>2, <1>5, <1>6
<1>8. \A i \in D : \E n \in D : Placed(list, n) = i
  <2>. DEFINE f == [n \in D |-> Placed(list, n)]
  <2>1. f \in [D -> D] /\ \A n \in D : f[n] = Placed(list, n)
    BY <1>7
  <2>. HIDE DEF f
  <2>2. \A m, n \in D : f[m] = f[n] => m = n
    <3>. SUFFICES ASSUME NEW m \in D, NEW n \in D, f[m] = f[n] PROVE m = n
      OBVIOUS
    <3>1. m - 1 = n - 1
      BY <1>7, <2>1
    <3>. QED
      BY <1>2, <3>1
  <2>3. f \in Injection(D, D)
    BY <2>1, <2>2 DEF Injection, IsInjective
  <2>4. f \in Surjection(D, D)
    BY <1>2, <2>3, FS_Injection
  <2>. QED
    BY <2>1, <2>4 DEF Surjection
<1>9. Sorted(list) = [n \in 1..Len(list) |-> list[Placed(list, n)]]
  BY <1>1 DEF Sorted, D
<1>10. \A n \in 1..Len(list) :
         Sorted(list)[n] = list[Placed(list, n)] /\ list[Placed(list, n)] \in S
  BY <1>1, <1>7, <1>9
<1>11. Sorted(list) \in [1..Len(list) -> S]
  BY <1>9, <1>10
<1>12. Sorted(list) \in Seq(S) /\ Len(Sorted(list)) = Len(list)
  BY <1>1, <1>11
<1>13. {Sorted(list)[n] : n \in D} = {list[i] : i \in D}
  <2>1. \A n \in D : Sorted(list)[n] = list[Placed(list, n)]
    BY <1>1, <1>10
  <2>2. ASSUME NEW n \in D PROVE \E i \in D : Sorted(list)[n] = list[i]
    BY <1>7, <2>1
  <2>3. ASSUME NEW i \in D PROVE \E n \in D : Sorted(list)[n] = list[i]
    <3>1. PICK n \in D : Placed(list, n) = i
      BY <1>8
    <3>. QED
      BY <2>1, <3>1
  <2>. QED
    BY <2>2, <2>3
<1>. QED
  BY <1>12, <1>13 DEF D

-----------------------------------------------------------------------------
(* Sequences and their items. *)

LEMMA FiniteDomain ==
  ASSUME NEW S, NEW list \in Seq(S)
  PROVE  IsFiniteSet(DOMAIN list) /\ Cardinality(DOMAIN list) = Len(list)
<1>. DEFINE D == DOMAIN list
<1>1. Len(list) \in Nat /\ D = 1..Len(list)
  OBVIOUS
<1>2. IsFiniteSet(1..Len(list)) /\ Cardinality(1..Len(list)) = Len(list)
  BY <1>1, FS_Interval
<1>. HIDE DEF D
<1>3. Cardinality(D) = Cardinality(1..Len(list))
  BY <1>1, Zenon
<1>4. IsFiniteSet(D)
  BY <1>1, <1>2, Zenon
<1>. QED
  BY <1>2, <1>3, <1>4 DEF D

LEMMA WiderSeq ==
  ASSUME NEW S, NEW T, S \subseteq T, NEW list \in Seq(S)
  PROVE  list \in Seq(T)
<1>1. list = [i \in 1..Len(list) |-> list[i]] /\ Len(list) \in Nat
  OBVIOUS
<1>2. \A i \in 1..Len(list) : list[i] \in T
  OBVIOUS
<1>. QED
  BY <1>1, <1>2

LEMMA ItemChanged ==
  ASSUME NEW S, NEW list \in Seq(S), NEW k, NEW a, k \in DOMAIN list => a \in S,
         NEW then, then = [list EXCEPT ![k] = a]
  PROVE  /\ then \in Seq(S) /\ Len(then) = Len(list) /\ Len(list) \in Nat
         /\ \A i \in 1..Len(list) : then[i] = IF i = k THEN a ELSE list[i]
<1>1. Len(list) \in Nat /\ DOMAIN list = 1..Len(list)
  OBVIOUS
<1>2. \A i \in 1..Len(list) : list[i] \in S
  OBVIOUS
<1>3. \A i \in 1..Len(list) : then[i] = IF i = k THEN a ELSE list[i]
  BY <1>1
<1>4. then = [i \in 1..Len(list) |-> then[i]]
  BY <1>1
<1>5. \A i \in 1..Len(list) : then[i] \in S
  BY <1>1, <1>2, <1>3
<1>6. then \in [1..Len(list) -> S]
  BY <1>4, <1>5
<1>. QED
  BY <1>1, <1>3, <1>6

LEMMA ItemAppended ==
  ASSUME NEW S, NEW list \in Seq(S), NEW a \in S, NEW then, then = Append(list, a)
  PROVE  /\ then \in Seq(S) /\ Len(then) = Len(list) + 1 /\ Len(list) \in Nat
         /\ \A i \in 1..Len(list) : then[i] = list[i]
         /\ then[Len(list) + 1] = a
  OBVIOUS

LEMMA ListOf ==
  ASSUME NEW S, NEW n \in Nat, NEW f, f = [k \in 1..n |-> f[k]], \A k \in 1..n : f[k] \in S
  PROVE  f \in Seq(S) /\ Len(f) = n /\ DOMAIN f = 1..n
<1>1. f \in [1..n -> S]
  OBVIOUS
<1>. QED
  BY <1>1

LEMMA NothingKept ==
  ASSUME NEW list, NEW kept, Cardinality(kept) = 0
  PROVE  Sublist(list, kept) = <<>>
<1>1. 1..Cardinality(kept) = {}
  OBVIOUS
<1>. QED
  BY <1>1 DEF Sublist

\* The first item of a part is the first one that was kept.
LEMMA FirstKept ==
  ASSUME NEW S, NEW list \in Seq(S), NEW kept \in SUBSET DOMAIN list, kept # {}
  PROVE  /\ Sublist(list, kept) # <<>>
         /\ \E k \in kept : Sublist(list, kept)[1] = list[k] /\ \A i \in kept : k <= i
<1>1. kept \in SUBSET Nat /\ IsFiniteSet(kept)
  <2>1. DOMAIN list = 1..Len(list) /\ Len(list) \in Nat
    OBVIOUS
  <2>2. IsFiniteSet(1..Len(list))
    BY <2>1, FS_Interval
  <2>3. kept \in SUBSET (1..Len(list))
    BY <2>1
  <2>. QED
    BY <2>2, <2>3, FS_Subset
<1>2. /\ Cardinality(kept) \in Nat
      /\ \A n \in 1..Cardinality(kept) : Nth(kept, n) \in kept
      /\ \A m, n \in 1..Cardinality(kept) : m < n => Nth(kept, m) < Nth(kept, n)
      /\ \A i \in kept : \E n \in 1..Cardinality(kept) : Nth(kept, n) = i
  BY <1>1, NthKept
<1>3. 1 \in 1..Cardinality(kept)
  BY <1>2
<1>4. \A i \in kept : Nth(kept, 1) <= i
  <2>. SUFFICES ASSUME NEW i \in kept PROVE Nth(kept, 1) <= i
    OBVIOUS
  <2>1. PICK n \in 1..Cardinality(kept) : Nth(kept, n) = i
    BY <1>2
  <2>2. n = 1 \/ Nth(kept, 1) < i
    BY <1>2, <1>3, <2>1
  <2>3. Nth(kept, 1) \in Nat /\ i \in Nat
    BY <1>1, <1>2, <1>3
  <2>. QED
    BY <2>1, <2>2, <2>3
<1>5. /\ Sublist(list, kept)[1] = list[Nth(kept, 1)]
      /\ Sublist(list, kept) # <<>>
  BY <1>2, <1>3 DEF Sublist
<1>. QED
  BY <1>2, <1>3, <1>4, <1>5
=============================================================================
