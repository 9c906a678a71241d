-------------------------- MODULE IndexListProofs ---------------------------
(***************************************************************************)
(* Facts about lists without repetition and about what IndexLists picks    *)
(* from them, for the proofs about Hermite and about the loops over lists. *)
(***************************************************************************)
EXTENDS IndexLists, FiniteSetTheorems, WellFoundedInduction, TLAPS

-----------------------------------------------------------------------------
(* Numbers and finite sets *)

\* A set of numbers has a least one.
LEMMA LeastNat ==
    ASSUME NEW S, S \subseteq Nat, S # {}
    PROVE  \E m \in S : \A x \in S : m <= x
<1>1. PICK m \in S : \A y \in S : ~(<<y, m>> \in OpToRel(<, Nat))
  <2> DEFINE R == OpToRel(<, Nat)
  <2>1. IsWellFoundedOn(R, Nat)
    BY NatLessThanWellFounded
  <2> HIDE DEF R
  <2>2. \E x \in S : \A y \in S : ~(<<y, x>> \in R)
    BY <2>1, WFMin
  <2> QED
    BY <2>2 DEF R
<1>2. \A y \in S : ~ (y < m)
  <2> SUFFICES ASSUME NEW y \in S, y < m PROVE FALSE
    OBVIOUS
  <2>1. <<y, m>> \in OpToRel(<, Nat)
    BY DEF OpToRel
  <2> QED
    BY <1>1, <2>1
<1> QED
    BY <1>2

\* The least element of a set of numbers
LEMMA MinOf ==
    ASSUME NEW S, S \subseteq Nat, S # {}
    PROVE  Min(S) \in S /\ \A x \in S : Min(S) <= x
BY LeastNat DEF Min

\* In a finite order the number of elements up to one is its place.
LEMMA Ranks ==
    ASSUME NEW D, IsFiniteSet(D), NEW B \in [D -> SUBSET D],
           \A x \in D : x \in B[x],
           \A x, y \in D : x \in B[y] \/ y \in B[x],
           \A x, y \in D : x \in B[y] /\ x # y => B[x] \subseteq B[y] /\ y \notin B[x]
    PROVE  /\ Cardinality(D) \in Nat
           /\ \A x \in D : Cardinality(B[x]) \in 1..Cardinality(D)
           /\ \A x, y \in D : x \in B[y] /\ x # y => Cardinality(B[x]) < Cardinality(B[y])
           /\ \A r \in 1..Cardinality(D) : \E x \in D : Cardinality(B[x]) = r
<1> DEFINE n == Cardinality(D)
           f == [x \in D |-> Cardinality(B[x])]
<1>1. n \in Nat
    BY FS_CardinalityType
<1>2. \A x \in D : IsFiniteSet(B[x]) /\ Cardinality(B[x]) \in 1..n
  <2> SUFFICES ASSUME NEW x \in D PROVE IsFiniteSet(B[x]) /\ Cardinality(B[x]) \in 1..n
    OBVIOUS
  <2>1. IsFiniteSet(B[x]) /\ Cardinality(B[x]) <= n
    BY FS_Subset
  <2>2. Cardinality(B[x]) \in Nat /\ Cardinality(B[x]) # 0
    BY <2>1, FS_CardinalityType, FS_EmptySet
  <2> QED
    BY <1>1, <2>1, <2>2
<1>3. \A x, y \in D : x \in B[y] /\ x # y => Cardinality(B[x]) < Cardinality(B[y])
  <2> SUFFICES ASSUME NEW x \in D, NEW y \in D, x \in B[y], x # y
               PROVE  Cardinality(B[x]) < Cardinality(B[y])
    OBVIOUS
  <2>1. B[x] \subseteq B[y] /\ y \notin B[x] /\ y \in B[y]
    OBVIOUS
  <2>2. IsFiniteSet(B[y]) /\ Cardinality(B[x]) \in Nat /\ Cardinality(B[y]) \in Nat
    BY <1>1, <1>2
  <2>3. /\ Cardinality(B[x]) <= Cardinality(B[y])
        /\ Cardinality(B[y]) = Cardinality(B[x]) => B[y] = B[x]
    BY <2>1, <2>2, FS_Subset
  <2> QED
    BY <2>1, <2>2, <2>3
<1>4. f \in Injection(D, 1..n)
  <2>1. f \in [D -> 1..n]
    BY <1>2
  <2>2. \A x, y \in D : f[x] = f[y] => x = y
    <3> SUFFICES ASSUME NEW x \in D, NEW y \in D, x # y PROVE f[x] # f[y]
      OBVIOUS
    <3>1. f[x] \in Nat /\ f[y] \in Nat /\ (f[x] < f[y] \/ f[y] < f[x])
      BY <1>1, <1>2, <1>3
    <3> QED
      BY <3>1
  <2> QED
    BY <2>1, <2>2 DEF Injection, IsInjective
<1>5. IsFiniteSet(1..n) /\ Cardinality(1..n) = n
    BY <1>1, FS_Interval
<1>6. f \in Surjection(D, 1..n)
    BY <1>4, <1>5, FS_Injection
<1>7. \A r \in 1..n : \E x \in D : f[x] = r
    BY <1>6 DEF Surjection
<1> QED
    BY <1>1, <1>2, <1>3, <1>7

-----------------------------------------------------------------------------
(* Sequences without repetition, and what is picked from them *)

\* The places of the elements that stay, in order: the r-th of them is place f[r].
LEMMA PickedPlaces ==
    ASSUME NEW S, NEW list \in Seq(S), NEW K \in SUBSET DOMAIN list
    PROVE  /\ Cardinality(K) \in Nat /\ Picked(list, K) \in Seq(S)
           /\ Len(Picked(list, K)) = Cardinality(K)
           /\ \E f \in [1..Cardinality(K) -> K] :
                 /\ \A r \in 1..Cardinality(K) : /\ Picked(list, K)[r] = list[f[r]]
                                                 /\ Rank(K, f[r]) = r
                 /\ \A q, r \in 1..Cardinality(K) : q < r => f[q] < f[r]
                 /\ \A i \in K : \E r \in 1..Cardinality(K) : f[r] = i
<1> DEFINE n == Cardinality(K)
           B == [i \in K |-> {j \in K : j <= i}]
<1>1. IsFiniteSet(K) /\ K \subseteq Nat
  <2>1. IsFiniteSet(1..Len(list)) /\ K \in SUBSET (1..Len(list))
    BY FS_Interval
  <2> QED
    BY <2>1, FS_Subset
<1>2. \A i \in K : B[i] = {j \in K : j <= i}
    OBVIOUS
<1>3. \A i \in K : Rank(K, i) = Cardinality(B[i])
    BY <1>2 DEF Rank
<1>4. /\ n \in Nat
      /\ \A x \in K : Cardinality(B[x]) \in 1..n
      /\ \A x, y \in K : x \in B[y] /\ x # y => Cardinality(B[x]) < Cardinality(B[y])
      /\ \A r \in 1..n : \E x \in K : Cardinality(B[x]) = r
  <2>1. B \in [K -> SUBSET K]
    OBVIOUS
  <2>2. \A x, y \in K : x \in B[y] <=> x <= y
    OBVIOUS
  <2> HIDE DEF B
  <2>3. /\ \A x \in K : x \in B[x]
        /\ \A x, y \in K : x \in B[y] \/ y \in B[x]
        /\ \A x, y \in K : x \in B[y] /\ x # y => y \notin B[x]
    BY <1>1, <2>2
  <2>4. \A x, y \in K : x \in B[y] => B[x] \subseteq B[y]
    BY <1>1, <2>1, <2>2
  <2> QED
    BY <1>1, <2>1, <2>3, <2>4, Ranks
<1>5. /\ \A i, j \in K : i < j => Rank(K, i) < Rank(K, j)
      /\ \A i \in K : Rank(K, i) \in 1..n
      /\ \A r \in 1..n : \E i \in K : Rank(K, i) = r
  <2>1. \A i, j \in K : i < j => i \in B[j] /\ i # j
    BY <1>1
  <2> HIDE DEF B, n
  <2>2. \A i, j \in K : i < j => Rank(K, i) < Rank(K, j)
    BY <1>3, <1>4, <2>1
  <2>3. \A i \in K : Rank(K, i) \in 1..n
    BY <1>3, <1>4
  <2>4. \A r \in 1..n : \E i \in K : Rank(K, i) = r
    BY <1>3, <1>4
  <2> QED
    BY <2>2, <2>3, <2>4
<1> DEFINE f == [r \in 1..n |-> CHOOSE i \in K : Rank(K, i) = r]
<1>6. \A r \in 1..n : f[r] \in K /\ Rank(K, f[r]) = r
    BY <1>5
<1>7. \A q, r \in 1..n : q < r => f[q] < f[r]
  <2> SUFFICES ASSUME NEW q \in 1..n, NEW r \in 1..n, q < r PROVE f[q] < f[r]
    OBVIOUS
  <2>1. /\ f[q] \in K /\ f[r] \in K /\ f[q] \in Nat /\ f[r] \in Nat
        /\ Rank(K, f[q]) = q /\ Rank(K, f[r]) = r
    BY <1>1, <1>6
  <2> HIDE DEF f
  <2> QED
    BY <1>4, <1>5, <2>1
<1>8. \A i \in K : f[Rank(K, i)] = i
  <2> SUFFICES ASSUME NEW i \in K PROVE f[Rank(K, i)] = i
    OBVIOUS
  <2> DEFINE r == Rank(K, i)
  <2>1. /\ r \in 1..n /\ f[r] \in K /\ Rank(K, f[r]) = r /\ f[r] \in Nat /\ i \in Nat
    BY <1>1, <1>5, <1>6
  <2> HIDE DEF f
  <2> QED
    BY <1>4, <1>5, <2>1
<1>9. Picked(list, K) = [r \in 1..n |-> list[f[r]]]
    BY DEF Picked
<1>10. \A r \in 1..n : list[f[r]] \in S
    BY <1>6
<1> HIDE DEF f
<1>11. Picked(list, K) \in Seq(S) /\ Len(Picked(list, K)) = n
    BY <1>4, <1>9, <1>10
<1>12. f \in [1..n -> K]
    BY <1>6 DEF f
<1> QED
    BY <1>4, <1>5, <1>6, <1>7, <1>8, <1>9, <1>11, <1>12

\* What is picked from a list without repetition has none, in the order of the list.
LEMMA PickedProps ==
    ASSUME NEW S, NEW list \in Seq(S), NEW K \in SUBSET DOMAIN list
    PROVE  /\ Picked(list, K) \in Seq(S) /\ Len(Picked(list, K)) = Cardinality(K)
           /\ Cardinality(K) \in Nat
           /\ ToSet(Picked(list, K)) = {list[i] : i \in K}
           /\ IsInjective(list) => IsInjective(Picked(list, K))
<1> DEFINE s == Picked(list, K)
           n == Cardinality(K)
<1>1. n \in Nat /\ s \in Seq(S) /\ Len(s) = n
    BY PickedPlaces
<1>2. PICK f \in [1..n -> K] :
          /\ \A r \in 1..n : s[r] = list[f[r]]
          /\ \A q, r \in 1..n : q < r => f[q] < f[r]
          /\ \A i \in K : \E r \in 1..n : f[r] = i
    BY SMTT(20), PickedPlaces
<1> HIDE DEF s, n
<1>3. DOMAIN s = 1..n
    BY <1>1
<1>4. ToSet(s) = {list[i] : i \in K}
    BY <1>2, <1>3 DEF ToSet
<1>5. ASSUME IsInjective(list) PROVE IsInjective(s)
  <2> SUFFICES ASSUME NEW q \in 1..n, NEW r \in 1..n, s[q] = s[r] PROVE q = r
    BY <1>3 DEF IsInjective
  <2>1. f[q] = f[r] /\ f[q] \in Nat
    BY <1>2, <1>5 DEF IsInjective
  <2> QED
    BY <1>1, <1>2, <2>1
<1> QED
    BY <1>1, <1>4, <1>5 DEF s, n

\* A list without what is in a mask
LEMMA RemovedProps ==
    ASSUME NEW S, NEW list \in Seq(S), NEW T
    PROVE  /\ Removed(list, T) \in Seq(S) /\ ToSet(Removed(list, T)) = ToSet(list) \ T
           /\ IsInjective(list) => IsInjective(Removed(list, T))
<1> DEFINE K == {i \in DOMAIN list : list[i] \notin T}
<1>1. Removed(list, T) = Picked(list, K) /\ K \in SUBSET DOMAIN list
    BY DEF Removed
<1>2. {list[i] : i \in K} = ToSet(list) \ T
    BY DEF ToSet
<1> HIDE DEF K
<1> QED
    BY <1>1, <1>2, PickedProps

\* What is in a set, in the order of a list
LEMMA SelectedProps ==
    ASSUME NEW S, NEW list \in Seq(S), NEW T
    PROVE  /\ Selected(list, T) \in Seq(S) /\ ToSet(Selected(list, T)) = ToSet(list) \cap T
           /\ IsInjective(list) => IsInjective(Selected(list, T))
<1> DEFINE K == {i \in DOMAIN list : list[i] \in T}
<1>1. Selected(list, T) = Picked(list, K) /\ K \in SUBSET DOMAIN list
    BY DEF Selected
<1>2. {list[i] : i \in K} = ToSet(list) \cap T
    BY DEF ToSet
<1> HIDE DEF K
<1> QED
    BY <1>1, <1>2, PickedProps

\* What is left of a prefix is a prefix of what is left.
LEMMA RemainingProps ==
    ASSUME NEW S, NEW list \in Seq(S), NEW T, NEW n \in 0..Len(list)
    PROVE  /\ Remaining(list, n, T) \in 0..Len(Removed(list, T))
           /\ \A m \in 0..n : Remaining(list, m, T) <= Remaining(list, n, T)
           /\ \E f \in [DOMAIN Removed(list, T) -> {i \in DOMAIN list : list[i] \notin T}] :
                 /\ \A r \in DOMAIN Removed(list, T) :
                       /\ Removed(list, T)[r] = list[f[r]]
                       /\ r <= Remaining(list, n, T) <=> f[r] <= n
                 /\ \A q, r \in DOMAIN Removed(list, T) : q < r => f[q] < f[r]
                 /\ \A i \in {j \in DOMAIN list : list[j] \notin T} :
                       \E r \in DOMAIN Removed(list, T) : f[r] = i
<1> DEFINE K == {i \in DOMAIN list : list[i] \notin T}
           Kn == {i \in 1..n : list[i] \notin T}
           s == Removed(list, T)
           c == Cardinality(K)
<1>1. s = Picked(list, K) /\ K \in SUBSET DOMAIN list
    BY DEF Removed
<1>2. c \in Nat /\ s \in Seq(S) /\ Len(s) = c
  <2> HIDE DEF s, K
  <2> QED
    BY <1>1, PickedPlaces
<1>3. PICK f \in [1..c -> K] :
          /\ \A r \in 1..c : s[r] = list[f[r]] /\ Rank(K, f[r]) = r
          /\ \A q, r \in 1..c : q < r => f[q] < f[r]
          /\ \A i \in K : \E r \in 1..c : f[r] = i
  <2> HIDE DEF s, K
  <2> QED
    BY SMTT(20), <1>1, PickedPlaces
<1>4. DOMAIN s = 1..c
  <2> HIDE DEF s, c
  <2> QED
    BY <1>2
<1>5. /\ Remaining(list, n, T) = Cardinality(Kn) /\ Kn = {j \in K : j <= n}
      /\ Kn \subseteq K /\ K \subseteq Nat
    BY DEF Remaining
<1>6. IsFiniteSet(K)
  <2>1. IsFiniteSet(1..Len(list)) /\ K \in SUBSET (1..Len(list))
    BY FS_Interval
  <2> QED
    BY <2>1, FS_Subset
<1>7. IsFiniteSet(Kn) /\ Cardinality(Kn) \in Nat /\ Cardinality(Kn) <= c
  <2> HIDE DEF K, Kn
  <2> QED
    BY <1>5, <1>6, FS_Subset, FS_CardinalityType
<1>8. \A r \in 1..c : r <= Cardinality(Kn) <=> f[r] <= n
  <2> SUFFICES ASSUME NEW r \in 1..c PROVE r <= Cardinality(Kn) <=> f[r] <= n
    OBVIOUS
  <2> DEFINE Kr == {j \in K : j <= f[r]}
  <2>1. f[r] \in K /\ Cardinality(Kr) = r /\ f[r] \in Nat
    BY <1>3, <1>5 DEF Rank
  <2>2. IsFiniteSet(Kr) /\ Kr \subseteq K
    BY <1>6, FS_Subset
  <2>3. CASE f[r] <= n
    <3>1. Kr \subseteq Kn
      BY <1>5, <2>1, <2>3
    <3> HIDE DEF Kr, Kn
    <3> QED
      BY <1>7, <2>1, <2>3, <3>1, FS_Subset
  <2>4. CASE ~(f[r] <= n)
    <3>1. Kn \subseteq Kr /\ f[r] \in Kr /\ f[r] \notin Kn
      BY <1>5, <2>1, <2>4
    <3> HIDE DEF Kr, Kn
    <3>2. Cardinality(Kn) <= Cardinality(Kr) /\ (Cardinality(Kr) = Cardinality(Kn) => Kr = Kn)
      BY <2>2, <3>1, FS_Subset
    <3> QED
      BY <1>7, <2>1, <2>4, <3>1, <3>2
  <2> QED
    BY <2>3, <2>4
<1>9. \A m \in 0..n : Remaining(list, m, T) <= Cardinality(Kn)
  <2> SUFFICES ASSUME NEW m \in 0..n PROVE Remaining(list, m, T) <= Cardinality(Kn)
    OBVIOUS
  <2>1. Remaining(list, m, T) = Cardinality({i \in 1..m : list[i] \notin T})
    BY DEF Remaining
  <2>2. {i \in 1..m : list[i] \notin T} \subseteq Kn
    OBVIOUS
  <2> HIDE DEF Kn
  <2> QED
    BY <1>7, <2>1, <2>2, FS_Subset
<1> HIDE DEF s, c, Kn, K
<1>10. /\ f \in [DOMAIN s -> K]
       /\ \A r \in DOMAIN s : s[r] = list[f[r]] /\ (r <= Remaining(list, n, T) <=> f[r] <= n)
       /\ \A q, r \in DOMAIN s : q < r => f[q] < f[r]
       /\ \A i \in K : \E r \in DOMAIN s : f[r] = i
    BY <1>3, <1>4, <1>5, <1>8
<1>11. /\ Remaining(list, n, T) \in 0..Len(s)
       /\ \A m \in 0..n : Remaining(list, m, T) <= Remaining(list, n, T)
    BY <1>2, <1>5, <1>7, <1>9
<1> QED
    BY <1>10, <1>11 DEF s, K

\* Sets without repetition as sequences
LEMMA SeqLen ==
    ASSUME NEW S, IsFiniteSet(S), NEW s \in Seq(S), IsInjective(s)
    PROVE  Len(s) <= Cardinality(S) /\ Cardinality(ToSet(s)) = Len(s)
<1> DEFINE n == Len(s)
<1>1. n \in Nat /\ DOMAIN s = 1..n /\ \A i \in 1..n : s[i] \in S
    OBVIOUS
<1>2. IsFiniteSet(1..n) /\ Cardinality(1..n) = n
  <2> HIDE DEF n
  <2> QED
    BY <1>1, FS_Interval
<1>3. s \in Injection(1..n, S)
  <2>1. s \in [1..n -> S]
    OBVIOUS
  <2> QED
    BY <1>1, <2>1 DEF Injection
<1>4. n <= Cardinality(S)
    BY <1>2, <1>3, FS_Injection
<1>5. s \in Injection(1..n, ToSet(s)) /\ s \in Surjection(1..n, ToSet(s))
  <2>1. s \in [1..n -> ToSet(s)]
    BY DEF ToSet
  <2> QED
    BY <1>1, <2>1 DEF Injection, Surjection, ToSet
<1>6. Cardinality(ToSet(s)) = n
    BY <1>2, <1>5, FS_Surjection
<1> QED
    BY <1>4, <1>6

\* Two lists one after the other
LEMMA Joined ==
    ASSUME NEW S, NEW s \in Seq(S), NEW t \in Seq(S)
    PROVE  /\ s \o t \in Seq(S) /\ Len(s \o t) = Len(s) + Len(t)
           /\ ToSet(s \o t) = ToSet(s) \cup ToSet(t)
           /\ \A i \in 1..Len(s) : (s \o t)[i] = s[i]
           /\ \A i \in Len(s) + 1..Len(s) + Len(t) : (s \o t)[i] = t[i - Len(s)]
           /\ IsInjective(s) /\ IsInjective(t) /\ ToSet(s) \cap ToSet(t) = {} => IsInjective(s \o t)
<1>1. /\ s \o t \in Seq(S) /\ Len(s \o t) = Len(s) + Len(t)
      /\ \A i \in 1..Len(s) : (s \o t)[i] = s[i]
      /\ \A i \in Len(s) + 1..Len(s) + Len(t) : (s \o t)[i] = t[i - Len(s)]
      /\ Len(s) \in Nat /\ Len(t) \in Nat
    OBVIOUS
<1> DEFINE u == s \o t
<1>2. DOMAIN u = 1..Len(s) + Len(t) /\ DOMAIN s = 1..Len(s) /\ DOMAIN t = 1..Len(t)
    BY <1>1
<1>3. \A i \in 1..Len(t) : u[i + Len(s)] = t[i] /\ i + Len(s) \in DOMAIN u
    BY <1>1, <1>2
<1>4. \A i \in DOMAIN u : \/ i \in DOMAIN s /\ u[i] = s[i]
                          \/ i - Len(s) \in DOMAIN t /\ u[i] = t[i - Len(s)]
    BY <1>1, <1>2
<1>5. \A i \in DOMAIN s : i \in DOMAIN u /\ u[i] = s[i]
    BY <1>1, <1>2
<1> HIDE DEF u
<1>6. ToSet(u) = ToSet(s) \cup ToSet(t)
    BY <1>2, <1>3, <1>4, <1>5 DEF ToSet
<1>7. ASSUME IsInjective(s), IsInjective(t), ToSet(s) \cap ToSet(t) = {}
      PROVE  IsInjective(u)
  <2> SUFFICES ASSUME NEW i \in DOMAIN u, NEW j \in DOMAIN u, u[i] = u[j] PROVE i = j
    BY DEF IsInjective
  <2>1. \A k \in DOMAIN s, l \in DOMAIN t : s[k] # t[l]
    BY <1>7 DEF ToSet
  <2>2. i \in Int /\ j \in Int /\ Len(s) \in Nat
    BY <1>1, <1>2
  <2> QED
    BY <1>4, <1>7, <2>1, <2>2 DEF IsInjective
<1> QED
    BY <1>1, <1>6, <1>7 DEF u

\* A list backwards
LEMMA Reversed ==
    ASSUME NEW S, NEW s \in Seq(S)
    PROVE  /\ Reverse(s) \in Seq(S) /\ Len(Reverse(s)) = Len(s) /\ ToSet(Reverse(s)) = ToSet(s)
           /\ IsInjective(s) => IsInjective(Reverse(s))
<1> DEFINE n == Len(s)
           u == Reverse(s)
<1>1. u = [i \in 1..n |-> s[(n - i) + 1]] /\ n \in Nat /\ DOMAIN s = 1..n
    BY DEF Reverse
<1>2. \A i \in 1..n : (n - i) + 1 \in 1..n /\ s[(n - i) + 1] \in S /\ u[i] = s[(n - i) + 1]
    BY <1>1
<1>3. u \in Seq(S) /\ Len(u) = n /\ DOMAIN u = 1..n
    BY <1>1, <1>2
<1> HIDE DEF u
<1>4. \A i \in 1..n : s[i] = u[(n - i) + 1]
  <2> SUFFICES ASSUME NEW i \in 1..n PROVE s[i] = u[(n - i) + 1]
    OBVIOUS
  <2>1. (n - i) + 1 \in 1..n /\ (n - ((n - i) + 1)) + 1 = i
    BY <1>1
  <2> QED
    BY <1>2, <2>1
<1>5. ToSet(u) = ToSet(s)
  <2>1. \A i \in 1..n : (n - i) + 1 \in 1..n
    BY <1>1
  <2>2. \A i \in 1..n : \E j \in 1..n : u[i] = s[j]
    BY <1>2, <2>1
  <2>3. \A i \in 1..n : \E j \in 1..n : s[i] = u[j]
    BY <1>4, <2>1
  <2>4. DOMAIN s = 1..n /\ DOMAIN u = 1..n
    BY <1>1, <1>3
  <2> HIDE DEF n
  <2>5. \A x : x \in ToSet(u) <=> \E i \in 1..n : x = u[i]
    BY <2>4 DEF ToSet
  <2>6. \A x : x \in ToSet(s) <=> \E i \in 1..n : x = s[i]
    BY <2>4 DEF ToSet
  <2> QED
    BY <2>2, <2>3, <2>5, <2>6
<1>6. IsInjective(s) => IsInjective(u)
  <2> SUFFICES ASSUME IsInjective(s), NEW i \in 1..n, NEW j \in 1..n, u[i] = u[j] PROVE i = j
    BY <1>3 DEF IsInjective
  <2>1. (n - i) + 1 = (n - j) + 1
    BY <1>1, <1>2 DEF IsInjective
  <2> QED
    BY <1>1, <2>1
<1> QED
    BY <1>3, <1>5, <1>6 DEF u

\* A list with one more element
LEMMA Extended ==
    ASSUME NEW S, NEW s \in Seq(S), NEW x \in S
    PROVE  /\ Append(s, x) \in Seq(S) /\ Len(Append(s, x)) = Len(s) + 1
           /\ ToSet(Append(s, x)) = ToSet(s) \cup {x}
           /\ \A i \in 1..Len(s) : Append(s, x)[i] = s[i]
           /\ Append(s, x)[Len(s) + 1] = x
           /\ IsInjective(s) /\ x \notin ToSet(s) => IsInjective(Append(s, x))
<1> DEFINE u == Append(s, x)
<1>1. /\ u \in Seq(S) /\ Len(u) = Len(s) + 1 /\ Len(s) \in Nat
      /\ \A i \in 1..Len(s) : u[i] = s[i]
      /\ u[Len(s) + 1] = x
    OBVIOUS
<1>2. DOMAIN u = 1..Len(s) + 1 /\ DOMAIN s = 1..Len(s)
    BY <1>1
<1> HIDE DEF u
<1>3. \A i \in DOMAIN u : i \in DOMAIN s \/ i = Len(s) + 1
    BY <1>1, <1>2
<1>4. Len(s) + 1 \in DOMAIN u /\ DOMAIN s \subseteq DOMAIN u
    BY <1>1, <1>2
<1>5. ToSet(u) = ToSet(s) \cup {x}
    BY <1>1, <1>2, <1>3, <1>4 DEF ToSet
<1>6. IsInjective(s) /\ x \notin ToSet(s) => IsInjective(u)
    BY <1>1, <1>2, <1>3 DEF ToSet, IsInjective
<1> QED
    BY <1>1, <1>5, <1>6 DEF u

\* The entries of a prefix
LEMMA Prefix ==
    ASSUME NEW S, NEW s \in Seq(S), NEW n \in 0..Len(s)
    PROVE  /\ ToSet(SubSeq(s, 1, n)) = {s[i] : i \in 1..n} /\ ToSet(SubSeq(s, 1, n)) \subseteq S
           /\ IsInjective(s) =>
                 \A i \in 1..Len(s) : s[i] \in ToSet(SubSeq(s, 1, n)) <=> i <= n
<1> DEFINE u == SubSeq(s, 1, n)
<1>1. Len(u) = n /\ DOMAIN u = 1..n /\ \A i \in 1..n : u[i] = s[i] /\ s[i] \in S
    OBVIOUS
<1> HIDE DEF u
<1>2. ToSet(u) = {s[i] : i \in 1..n}
    BY <1>1 DEF ToSet
<1>3. ASSUME IsInjective(s), NEW i \in 1..Len(s) PROVE s[i] \in ToSet(u) <=> i <= n
  <2>1. DOMAIN s = 1..Len(s) /\ \A j \in 1..n : j \in 1..Len(s) /\ j <= n
    OBVIOUS
  <2>2. \A j \in 1..n : s[j] = s[i] => j = i
    BY <1>3, <2>1 DEF IsInjective
  <2>3. i <= n => i \in 1..n
    OBVIOUS
  <2> QED
    BY <1>2, <2>1, <2>2, <2>3
<1>4. ToSet(u) \subseteq S
    BY <1>1, <1>2
<1> QED
    BY <1>2, <1>3, <1>4 DEF u

\* A set as a sequence
LEMMA SequenceOf ==
    ASSUME NEW S, IsFiniteSet(S)
    PROVE  /\ SetToSeq(S) \in Seq(S) /\ IsInjective(SetToSeq(S)) /\ ToSet(SetToSeq(S)) = S
           /\ Len(SetToSeq(S)) = Cardinality(S)
<1> DEFINE n == Cardinality(S)
           s == SetToSeq(S)
<1>1. n \in Nat /\ \E f \in [1..n -> S] : IsInjective(f)
    BY FS_CardinalityType DEF ExistsBijection, Bijection, Injection
<1>2. s \in [1..n -> S] /\ IsInjective(s)
    BY <1>1 DEF SetToSeq
<1> HIDE DEF s, n
<1>3. s \in Seq(S) /\ Len(s) = n /\ DOMAIN s = 1..n
    BY <1>1, <1>2
<1>4. IsFiniteSet(1..n) /\ Cardinality(1..n) = n
    BY <1>1, FS_Interval
<1>5. s \in Surjection(1..n, S)
    BY <1>2, <1>4, FS_Injection DEF Injection, n
<1>6. ToSet(s) = S
    BY <1>2, <1>3, <1>5 DEF Surjection, ToSet
<1> QED
    BY <1>2, <1>3, <1>6 DEF s, n

\* Two members for each of n groups that share none
LEMMA TwoEach ==
    ASSUME NEW P, IsFiniteSet(P), NEW n \in Nat, NEW m \in [1..n -> SUBSET P],
           \A k \in 1..n : Cardinality(m[k]) > 1,
           \A k, l \in 1..n : k # l => m[k] \cap m[l] = {}
    PROVE  2 * n <= Cardinality(P)
<1>1. \A k \in 1..n : \E a, b \in m[k] : a # b
  <2> SUFFICES ASSUME NEW k \in 1..n, \A a, b \in m[k] : a = b PROVE FALSE
    OBVIOUS
  <2>1. IsFiniteSet(m[k]) /\ Cardinality(m[k]) \in Nat
    BY FS_Subset, FS_CardinalityType
  <2>2. m[k] # {}
    BY <2>1, FS_EmptySet
  <2>3. PICK a \in m[k] : TRUE
    BY <2>2
  <2>4. m[k] = {a}
    BY <2>3
  <2>5. Cardinality(m[k]) = 1 /\ Cardinality(m[k]) > 1
    BY <2>4, FS_Singleton
  <2> QED
    BY <2>5
<1> DEFINE one == [k \in 1..n |-> CHOOSE a \in m[k] : \E b \in m[k] : a # b]
           two == [k \in 1..n |-> CHOOSE b \in m[k] : one[k] # b]
           f == [x \in (1..n) \X (1..2) |-> IF x[2] = 1 THEN one[x[1]] ELSE two[x[1]]]
<1>2. \A k \in 1..n : one[k] \in m[k]
    BY <1>1
<1>3. \A k \in 1..n : two[k] \in m[k] /\ one[k] # two[k]
  <2> SUFFICES ASSUME NEW k \in 1..n PROVE two[k] \in m[k] /\ one[k] # two[k]
    OBVIOUS
  <2>1. \E b \in m[k] : one[k] # b
    BY <1>1
  <2>2. two[k] = CHOOSE b \in m[k] : one[k] # b
    OBVIOUS
  <2> HIDE DEF one, two
  <2> QED
    BY <2>1, <2>2
<1> HIDE DEF one, two
<1>4. f \in Injection((1..n) \X (1..2), P)
  <2>1. f \in [(1..n) \X (1..2) -> P]
    BY <1>2, <1>3
  <2>2. \A x, y \in (1..n) \X (1..2) : f[x] = f[y] => x = y
    <3> SUFFICES ASSUME NEW x \in (1..n) \X (1..2), NEW y \in (1..n) \X (1..2), f[x] = f[y]
                 PROVE  x = y
      OBVIOUS
    <3>1. /\ x[1] \in 1..n /\ y[1] \in 1..n /\ x[2] \in {1, 2} /\ y[2] \in {1, 2}
          /\ x = <<x[1], x[2]>> /\ y = <<y[1], y[2]>>
      OBVIOUS
    <3>2. f[x] \in m[x[1]] /\ f[y] \in m[y[1]]
      BY <1>2, <1>3, <3>1
    <3>3. x[1] = y[1]
      BY <3>1, <3>2
    <3>4. x[2] = y[2]
      BY <1>3, <3>1, <3>3
    <3> QED
      BY <3>1, <3>3, <3>4
  <2> QED
    BY <2>1, <2>2 DEF Injection, IsInjective
<1>5. /\ IsFiniteSet(1..n) /\ Cardinality(1..n) = n /\ IsFiniteSet(1..2) /\ Cardinality(1..2) = 2
  <2>1. 1 \in Int /\ 2 \in Int /\ n \in Int
    OBVIOUS
  <2>2. IsFiniteSet(1..n) /\ Cardinality(1..n) = IF 1 > n THEN 0 ELSE n - 1 + 1
    BY <2>1, FS_Interval
  <2>3. IsFiniteSet(1..2) /\ Cardinality(1..2) = IF 1 > 2 THEN 0 ELSE 2 - 1 + 1
    BY <2>1, FS_Interval
  <2> QED
    BY <2>2, <2>3
<1>6. Cardinality((1..n) \X (1..2)) = n * 2
  <2> DEFINE A == 1..n
             B == 1..2
  <2> HIDE DEF A, B
  <2>1. IsFiniteSet(A) /\ IsFiniteSet(B) /\ Cardinality(A) = n /\ Cardinality(B) = 2
    BY <1>5 DEF A, B
  <2>2. Cardinality(A \X B) = Cardinality(A) * Cardinality(B)
    BY <2>1, FS_Product
  <2> QED
    BY <2>1, <2>2 DEF A, B
<1>7. Cardinality((1..n) \X (1..2)) <= Cardinality(P)
    BY <1>4, FS_Injection
<1> QED
    BY <1>6, <1>7

\* A list and disjoint sets beside it
LEMMA TakenFit ==
    ASSUME NEW P, IsFiniteSet(P), NEW s \in Seq(P), IsInjective(s), NEW N \in Seq(SUBSET P),
           \A g, h \in DOMAIN N : g # h => N[g] \cap N[h] = {},
           ToSet(s) \cap UNION ToSet(N) = {}
    PROVE  Len(s) + Cardinality(UNION {{g} \X N[g] : g \in DOMAIN N}) <= Cardinality(P)
<1> DEFINE U == UNION {{g} \X N[g] : g \in DOMAIN N}
           Q == P \ ToSet(s)
           f == [x \in U |-> x[2]]
<1>1. \A x \in U : /\ x[1] \in DOMAIN N /\ x[2] \in N[x[1]] /\ x = <<x[1], x[2]>>
                   /\ N[x[1]] \subseteq P /\ N[x[1]] \in ToSet(N)
    BY DEF ToSet
<1>2. \A x \in U : x[2] \in Q
    BY <1>1
<1> HIDE DEF U
<1>3. f \in [U -> Q] /\ \A x, y \in U : f[x] = f[y] => x = y
  <2>1. f \in [U -> Q]
    BY <1>2
  <2> SUFFICES ASSUME NEW x \in U, NEW y \in U, x[2] = y[2] PROVE x = y
    BY <2>1
  <2>2. x[1] = y[1]
    BY <1>1
  <2> QED
    BY <1>1, <2>2
<1>4. IsFiniteSet(Q) /\ Cardinality(Q) = Cardinality(P) - Len(s)
  <2>1. ToSet(s) \subseteq P /\ P \cap ToSet(s) = ToSet(s)
    BY DEF ToSet
  <2>2. Cardinality(ToSet(s)) = Len(s)
    BY SeqLen
  <2>3. IsFiniteSet(P \ ToSet(s))
        /\ Cardinality(P \ ToSet(s)) = Cardinality(P) - Cardinality(P \cap ToSet(s))
    BY FS_Difference
  <2> QED
    BY <2>1, <2>2, <2>3
<1> HIDE DEF Q
<1>5. Cardinality(U) <= Cardinality(Q)
  <2>1. f \in Injection(U, Q)
    BY <1>3 DEF Injection, IsInjective
  <2> HIDE DEF f
  <2> QED
    BY <1>4, <2>1, FS_Injection
<1>6. Cardinality(U) \in Nat /\ Cardinality(P) \in Nat /\ Len(s) \in Nat
  <2>1. f \in Injection(U, Q)
    BY <1>3 DEF Injection, IsInjective
  <2> HIDE DEF f
  <2>2. IsFiniteSet(U)
    BY <1>4, <2>1, FS_Injection
  <2> QED
    BY <2>2, FS_CardinalityType
<1> QED
    BY <1>4, <1>5, <1>6 DEF U

-----------------------------------------------------------------------------
(* Ranks of places *)

\* One place more
LEMMA RankStep ==
    ASSUME NEW N \in Nat, NEW A, A \subseteq 1..N
    PROVE  /\ Rank(A, 0) = 0 /\ Rank(A, N) = Cardinality(A) /\ IsFiniteSet(A)
           /\ \A q \in Nat : Rank(A, q) \in Nat
           /\ \A q \in Nat : Rank(A, q + 1) = Rank(A, q) + (IF q + 1 \in A THEN 1 ELSE 0)
<1>0. \A j \in A : j \in 1..N /\ j \in Nat /\ 1 <= j /\ j <= N
    OBVIOUS
<1>10. IsFiniteSet(A)
  <2>1. IsFiniteSet(1..N) /\ A \in SUBSET (1..N)
    BY FS_Interval
  <2> QED
    BY <2>1, FS_Subset
<1>1. \A q \in Nat : IsFiniteSet({j \in A : j <= q})
  <2> SUFFICES ASSUME NEW q \in Nat PROVE IsFiniteSet({j \in A : j <= q})
    OBVIOUS
  <2>1. {j \in A : j <= q} \in SUBSET A
    OBVIOUS
  <2> QED
    BY <1>10, <2>1, FS_Subset
<1>2. \A q \in Nat : Rank(A, q) \in Nat
    BY <1>1, FS_CardinalityType DEF Rank
<1>3. Rank(A, 0) = 0
  <2>0. \A j \in A : ~(j <= 0)
    BY <1>0
  <2>1. {j \in A : j <= 0} = {}
    BY <2>0, Zenon
  <2> QED
    BY <2>1, FS_EmptySet DEF Rank
<1>4. Rank(A, N) = Cardinality(A) /\ IsFiniteSet(A)
  <2>1. {j \in A : j <= N} = A
    BY <1>0, Zenon
  <2> QED
    BY <1>1, <2>1 DEF Rank
<1>5. ASSUME NEW q \in Nat
      PROVE  Rank(A, q + 1) = Rank(A, q) + (IF q + 1 \in A THEN 1 ELSE 0)
  <2> DEFINE S == {j \in A : j <= q}
             T == {j \in A : j <= q + 1}
  <2>1. IsFiniteSet(S) /\ Cardinality(S) \in Nat
    BY <1>1, FS_CardinalityType
  <2>2. Rank(A, q) = Cardinality(S) /\ Rank(A, q + 1) = Cardinality(T)
    BY DEF Rank
  <2>5. \A j \in A : (j <= q + 1 <=> j <= q \/ j = q + 1) /\ ~(q + 1 <= q)
    BY <1>0
  <2>3. CASE q + 1 \in A
    <3>1. T = S \cup {q + 1} /\ q + 1 \notin S
      BY <2>3, <2>5, Zenon
    <3> HIDE DEF S, T
    <3>2. Cardinality(T) = Cardinality(S) + 1
      BY <2>1, <3>1, FS_AddElement
    <3> QED
      BY <2>1, <2>2, <2>3, <3>2
  <2>4. CASE q + 1 \notin A
    <3>1. T = S
      BY <2>4, <2>5, Zenon
    <3> HIDE DEF S, T
    <3> QED
      BY <2>1, <2>2, <2>4, <3>1
  <2> QED
    BY <2>3, <2>4
<1> QED
    BY <1>2, <1>3, <1>4, <1>5

\* The ranks of a place among some places and among the others add up.
LEMMA RankSplit ==
    ASSUME NEW N \in Nat, NEW A, A \subseteq 1..N, NEW q \in 0..N
    PROVE  Rank(A, q) + Rank((1..N) \ A, q) = q
<1> DEFINE S == {j \in A : j <= q}
           T == {j \in (1..N) \ A : j <= q}
<1>0. /\ \A j \in A : j \in 1..N /\ j \in Nat /\ 1 <= j
      /\ \A j \in 1..q : j \in 1..N /\ j <= q
    OBVIOUS
<1>8. \A j : j \in 1..q <=> j \in 1..N /\ j <= q
    OBVIOUS
<1>1. S \cup T = 1..q /\ S \cap T = {}
    BY <1>0, <1>8, Zenon
<1>2. IsFiniteSet(1..q) /\ Cardinality(1..q) = q
    BY FS_Interval
<1>3. IsFiniteSet(S) /\ IsFiniteSet(T)
  <2> HIDE DEF S, T
  <2> QED
    BY <1>1, <1>2, FS_Subset
<1>4. Rank(A, q) = Cardinality(S) /\ Rank((1..N) \ A, q) = Cardinality(T)
    BY DEF Rank
<1> HIDE DEF S, T
<1>5. Cardinality(S \cup T) = Cardinality(S) + Cardinality(T) - Cardinality({})
    BY <1>1, <1>3, FS_Union
<1>6. Cardinality(S) \in Nat /\ Cardinality(T) \in Nat /\ Cardinality({}) = 0
  <2>1. Cardinality({}) = 0
    BY FS_EmptySet
  <2> QED
    BY <1>3, <2>1, FS_CardinalityType
<1>7. q = Cardinality(S) + Cardinality(T)
  <2>1. Cardinality(S \cup T) = q
    BY <1>1, <1>2
  <2> QED
    BY <1>5, <1>6, <2>1
<1> QED
    BY <1>4, <1>7

\* Ranks grow with the place, by one at most.
LEMMA RankGrows ==
    ASSUME NEW N \in Nat, NEW A, A \subseteq 1..N, NEW p \in 0..N, NEW q \in 0..N, p <= q
    PROVE  /\ Rank(A, p) \in Nat /\ Rank(A, q) \in Nat
           /\ Rank(A, p) <= Rank(A, q) /\ Rank(A, q) <= Rank(A, p) + (q - p)
           /\ p < q /\ q \in A => Rank(A, p) < Rank(A, q)
<1>1. ASSUME NEW B, B \subseteq 1..N
      PROVE  /\ Rank(B, p) \in Nat /\ Rank(B, q) \in Nat
             /\ Rank(B, p) <= Rank(B, q)
             /\ p < q /\ q \in B => Rank(B, p) < Rank(B, q)
  <2> DEFINE S == {j \in B : j <= p}
             T == {j \in B : j <= q}
  <2>0. \A j \in B : j \in 1..N /\ (j <= p => j <= q)
    BY <1>1
  <2>1. S \subseteq T
    BY <2>0, Zenon
  <2>2. IsFiniteSet(T)
    <3>1. IsFiniteSet(1..N) /\ T \in SUBSET (1..N)
      BY <2>0, FS_Interval
    <3> QED
      BY <3>1, FS_Subset
  <2>3. Rank(B, p) = Cardinality(S) /\ Rank(B, q) = Cardinality(T)
    BY DEF Rank
  <2>4. p < q /\ q \in B => q \in T /\ q \notin S
    OBVIOUS
  <2> HIDE DEF S, T
  <2>5. /\ IsFiniteSet(S) /\ Cardinality(S) \in Nat /\ Cardinality(T) \in Nat
        /\ Cardinality(S) <= Cardinality(T)
        /\ Cardinality(T) = Cardinality(S) => T = S
    BY <2>1, <2>2, FS_Subset, FS_CardinalityType
  <2> QED
    BY <2>3, <2>4, <2>5
<1> DEFINE B == (1..N) \ A
<1>2. Rank(B, p) \in Nat /\ Rank(B, q) \in Nat /\ Rank(B, p) <= Rank(B, q)
    BY <1>1
<1>3. Rank(A, p) + Rank(B, p) = p /\ Rank(A, q) + Rank(B, q) = q
    BY RankSplit
<1>4. /\ Rank(A, p) \in Nat /\ Rank(A, q) \in Nat /\ Rank(A, p) <= Rank(A, q)
      /\ p < q /\ q \in A => Rank(A, p) < Rank(A, q)
    BY <1>1
<1> QED
    BY <1>2, <1>3, <1>4

\* What is picked stands at its rank, and nothing else is picked.
LEMMA PickedAt ==
    ASSUME NEW S, NEW list \in Seq(S), NEW K \in SUBSET DOMAIN list
    PROVE  /\ \A p \in K : /\ Rank(K, p) \in 1..Cardinality(K)
                           /\ Picked(list, K)[Rank(K, p)] = list[p]
           /\ \A r \in 1..Cardinality(K) : \E p \in K : Rank(K, p) = r
<1> DEFINE n == Cardinality(K)
           s == Picked(list, K)
<1>1. PICK f \in [1..n -> K] :
          /\ \A r \in 1..n : s[r] = list[f[r]] /\ Rank(K, f[r]) = r
          /\ \A i \in K : \E r \in 1..n : f[r] = i
    BY SMTT(20), PickedPlaces
<1> HIDE DEF n, s
<1>2. \A p \in K : Rank(K, p) \in 1..n /\ s[Rank(K, p)] = list[p]
    BY <1>1
<1>3. \A r \in 1..n : \E p \in K : Rank(K, p) = r
    BY <1>1
<1> QED
    BY <1>2, <1>3 DEF n, s

\* A list that has each place of K at its rank is what is picked.
LEMMA PickedIs ==
    ASSUME NEW S, NEW list \in Seq(S), NEW K \in SUBSET DOMAIN list,
           NEW t \in Seq(S), Len(t) = Cardinality(K),
           \A p \in K : t[Rank(K, p)] = list[p]
    PROVE  t = Picked(list, K)
<1> DEFINE n == Cardinality(K)
           s == Picked(list, K)
<1>1. n \in Nat /\ s \in Seq(S) /\ Len(s) = n
    BY PickedProps
<1>2. /\ \A p \in K : s[Rank(K, p)] = list[p]
      /\ \A r \in 1..n : \E p \in K : Rank(K, p) = r
    BY PickedAt
<1> HIDE DEF s
<1>3. \A r \in 1..n : t[r] = s[r]
    BY <1>2
<1>4. Len(t) = n
    OBVIOUS
<1> HIDE DEF n
<1>5. t = [r \in 1..n |-> t[r]] /\ s = [r \in 1..n |-> s[r]]
    BY <1>1, <1>4
<1> QED
    BY <1>3, <1>5 DEF s
=============================================================================
