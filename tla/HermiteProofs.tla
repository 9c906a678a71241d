--------------------------- MODULE HermiteProofs ----------------------------
(***************************************************************************)
(* Theorems about Hermite: for any particles, steps and stellar events,    *)
(* the lists, masks and groups of the integrator agree, and so do their    *)
(* times.                                                                  *)
(***************************************************************************)
EXTENDS HermiteRefines, IndexListProofs

-----------------------------------------------------------------------------
(* The routines that edit the lists *)

\* The slots of new groups are the last free ones, then new ones.
LEMMA SlotsOfNew ==
    ASSUME NEW n \in Nat, Len(groups) \in Nat, freeSlots \in Seq(1..Len(groups)),
           IsInjective(freeSlots)
    PROVE  LET slot == NewSlots(n)
               rest == SubSeq(freeSlots, 1, Len(freeSlots) - n)
               m == IF n > Len(freeSlots) THEN Len(groups) + (n - Len(freeSlots)) ELSE Len(groups)
           IN  /\ slot \in Seq(1..m) /\ Len(slot) = n /\ IsInjective(slot)
               /\ rest \in Seq(1..Len(groups)) /\ IsInjective(rest)
               /\ n >= Len(freeSlots) => ToSet(rest) = {}
               /\ ToSet(rest) \subseteq ToSet(freeSlots) \ ToSet(slot)
               /\ ToSet(slot) \subseteq ToSet(freeSlots) \cup (Len(groups) + 1..m)
               /\ (1..Len(groups)) \cup ToSet(slot) = 1..m
               /\ ToSet(freeSlots) \subseteq ToSet(rest) \cup ToSet(slot)
<1> DEFINE slot == NewSlots(n)
           L == Len(freeSlots)
           G == Len(groups)
           rest == SubSeq(freeSlots, 1, L - n)
           m == IF n > L THEN G + (n - L) ELSE G
<1>1. L \in Nat /\ DOMAIN freeSlots = 1..L /\ \A i \in 1..L : freeSlots[i] \in 1..G
    OBVIOUS
<1>2. \A i, j \in 1..L : freeSlots[i] = freeSlots[j] => i = j
    BY <1>1 DEF IsInjective
<1>3. /\ \A i \in 1..n : i <= L => slot[i] = freeSlots[(L + 1) - i] /\ (L + 1) - i \in 1..L
      /\ \A i \in 1..n : ~(i <= L) => slot[i] = (G + i) - L /\ slot[i] \in G + 1..m
      /\ slot = [i \in 1..n |-> slot[i]]
    BY <1>1 DEF NewSlots
<1>4. m \in Nat /\ G <= m
    BY <1>1
<1> HIDE DEF slot
<1>5. \A i \in 1..n : slot[i] \in 1..m
  <2> SUFFICES ASSUME NEW i \in 1..n PROVE slot[i] \in 1..m
    OBVIOUS
  <2>1. (1..G) \subseteq 1..m /\ G + 1..m \subseteq 1..m
    BY <1>4
  <2> HIDE DEF m
  <2>2. CASE i <= L
    BY <1>1, <1>3, <2>1, <2>2
  <2>3. CASE ~(i <= L)
    BY <1>3, <2>1, <2>3
  <2> QED
    BY <2>2, <2>3
<1>6. slot \in Seq(1..m) /\ Len(slot) = n /\ DOMAIN slot = 1..n
  <2> HIDE DEF m
  <2>1. slot = [i \in 1..n |-> slot[i]]
    BY <1>3
  <2> DEFINE M == 1..m
  <2>2. \A i \in 1..n : slot[i] \in M
    BY <1>5
  <2> HIDE DEF M
  <2>21. slot \in Seq(M)
    BY <2>1, <2>2
  <2>3. Len(slot) = n
    BY <2>1
  <2> QED
    BY <2>1, <2>21, <2>3 DEF M
<1>7. IsInjective(slot)
  <2> SUFFICES ASSUME NEW i \in 1..n, NEW j \in 1..n, slot[i] = slot[j] PROVE i = j
    BY <1>6 DEF IsInjective
  <2>1. CASE i <= L /\ j <= L
    <3>1. (L + 1) - i = (L + 1) - j
      BY SMTT(20), <1>2, <1>3, <2>1
    <3> QED
      BY <1>1, <3>1
  <2>2. CASE ~(i <= L) /\ ~(j <= L)
    BY <1>1, <1>3, <2>2
  <2>3. ASSUME NEW k \in 1..n, NEW l \in 1..n, k <= L, ~(l <= L) PROVE slot[k] # slot[l]
    <3>1. slot[k] \in 1..G /\ slot[l] \in G + 1..m
      BY <1>1, <1>3, <2>3
    <3> QED
      BY <1>4, <3>1
  <2> QED
    BY <2>1, <2>2, <2>3
<1>8. /\ rest \in Seq(1..G)
      /\ Len(rest) = (IF 1 <= L - n THEN L - n ELSE 0)
      /\ \A i \in 1..Len(rest) : rest[i] = freeSlots[i]
    BY <1>1
<1>9. /\ DOMAIN rest = {i \in 1..L : i <= L - n}
      /\ \A i \in DOMAIN rest : rest[i] = freeSlots[i]
    BY <1>1, <1>8
<1> HIDE DEF rest
<1>10. IsInjective(rest)
    BY <1>2, <1>9 DEF IsInjective
<1>11. n >= L => ToSet(rest) = {}
    BY <1>1, <1>9 DEF ToSet
<1>12. ToSet(rest) \subseteq ToSet(freeSlots) \ ToSet(slot)
  <2> SUFFICES ASSUME NEW i \in DOMAIN rest, NEW j \in 1..n PROVE rest[i] # slot[j]
    BY <1>1, <1>6, <1>9 DEF ToSet
  <2>1. CASE j <= L
    BY <1>1, <1>2, <1>3, <1>9, <2>1
  <2>2. CASE ~(j <= L)
    BY <1>1, <1>3, <1>9, <2>2
  <2> QED
    BY <2>1, <2>2
<1>13. ToSet(slot) \subseteq ToSet(freeSlots) \cup (G + 1..m)
    BY <1>1, <1>3, <1>6 DEF ToSet
<1>14. (1..G) \cup ToSet(slot) = 1..m
  <2>1. ASSUME NEW k \in G + 1..m PROVE k \in ToSet(slot)
    <3>1. (k - G) + L \in 1..n /\ ~((k - G) + L <= L)
      BY <1>1, <2>1
    <3>2. slot[(k - G) + L] = k
      BY <1>1, <1>3, <2>1, <3>1
    <3> QED
      BY <1>6, <3>1, <3>2 DEF ToSet
  <2>2. \A k \in ToSet(slot) : k \in 1..m
    BY <1>5, <1>6 DEF ToSet
  <2>3. \A k \in 1..m : k \in 1..G \/ k \in G + 1..m
    BY <1>4
  <2> HIDE DEF m
  <2> QED
    BY <1>4, <2>1, <2>2, <2>3
<1>15. ToSet(freeSlots) \subseteq ToSet(rest) \cup ToSet(slot)
  <2> SUFFICES ASSUME NEW i \in 1..L PROVE freeSlots[i] \in ToSet(rest) \cup ToSet(slot)
    BY <1>1 DEF ToSet
  <2>1. CASE i <= L - n
    BY <1>9, <2>1 DEF ToSet
  <2>2. CASE ~(i <= L - n)
    <3>1. (L + 1) - i \in 1..n /\ (L + 1) - i <= L /\ (L + 1) - ((L + 1) - i) = i
      BY <1>1, <2>2
    <3>2. slot[(L + 1) - i] = freeSlots[i]
      BY <1>3, <3>1
    <3> QED
      BY <1>6, <3>1, <3>2 DEF ToSet
  <2> QED
    BY <2>1, <2>2
<1> QED
    BY <1>6, <1>7, <1>8, <1>10, <1>11, <1>12, <1>13, <1>14, <1>15 DEF slot, rest

\* From place k + 1 on, s has entries of list from place n + 1 on, in order.
Follows(s, k, list, n) ==
    \E f \in [k + 1..Len(list) -> n + 1..Len(list)] :
       /\ \A r \in k + 1..Len(list) : s[r] = list[f[r]]
       /\ \A q, r \in k + 1..Len(list) : q < r => f[q] < f[r]

\* The interrupted groups come before the active ones, the others keep their order.
LEMMA MovedProps ==
    ASSUME NEW S, IsFiniteSet(S), NEW list \in Seq(S), IsInjective(list),
           NEW moved \in SUBSET ToSet(list), NEW n \in 0..Len(list),
           \A i \in 1..n : list[i] \notin moved,
           NEW s, s = MovedToFront(list, moved),
           NEW k, k = Min({n + Cardinality(moved), Len(list)})
    PROVE  /\ s \in Seq(S) /\ IsInjective(s) /\ ToSet(s) = ToSet(list) /\ Len(s) = Len(list)
           /\ k \in 0..Len(list) /\ n <= k
           /\ \A r \in 1..k : s[r] \in moved \/ \E i \in 1..n : s[r] = list[i]
           /\ \A r \in k + 1..Len(list) : s[r] \notin moved
           /\ Follows(s, k, list, n)
<1> DEFINE front == Reverse(Selected(list, moved))
           back == Removed(list, moved)
           L == Len(list)
           c == Cardinality(moved)
<1>1. /\ front \in Seq(S) /\ ToSet(front) = moved /\ IsInjective(front)
      /\ back \in Seq(S) /\ ToSet(back) = ToSet(list) \ moved /\ IsInjective(back)
  <2> DEFINE u == Selected(list, moved)
  <2>1. u \in Seq(S) /\ ToSet(u) = ToSet(list) \cap moved /\ IsInjective(u)
    BY SelectedProps
  <2>2. ToSet(list) \cap moved = moved
    OBVIOUS
  <2> HIDE DEF u
  <2>3. Reverse(u) \in Seq(S) /\ ToSet(Reverse(u)) = ToSet(u) /\ IsInjective(Reverse(u))
    BY <2>1, Reversed
  <2>4. back \in Seq(S) /\ ToSet(back) = ToSet(list) \ moved /\ IsInjective(back)
    BY RemovedProps
  <2> QED
    BY <2>1, <2>2, <2>3, <2>4 DEF u
<1>2. s = front \o back
    BY DEF MovedToFront
<1> HIDE DEF front, back
<1>3. /\ s \in Seq(S) /\ Len(s) = Len(front) + Len(back)
      /\ ToSet(s) = moved \cup (ToSet(list) \ moved) /\ IsInjective(s)
      /\ \A i \in 1..Len(front) : s[i] = front[i]
      /\ \A i \in Len(front) + 1..Len(front) + Len(back) : s[i] = back[i - Len(front)]
  <2>1. ToSet(front) \cap ToSet(back) = {}
    BY <1>1
  <2> QED
    BY <1>1, <1>2, <2>1, Joined
<1>4. ToSet(s) = ToSet(list)
    BY <1>3
<1>5. Len(s) = L /\ Len(front) = c /\ L \in Nat /\ c \in Nat
  <2>1. Cardinality(ToSet(s)) = Len(s) /\ Cardinality(ToSet(list)) = Len(list)
    BY <1>3, SeqLen
  <2>2. Cardinality(ToSet(front)) = Len(front)
    BY <1>1, SeqLen
  <2> QED
    BY <1>1, <1>4, <2>1, <2>2
<1>6. Len(back) = L - c /\ Len(back) \in Nat
    BY <1>1, <1>3, <1>5
<1>7. Remaining(list, n, moved) = n
  <2>1. {i \in 1..n : list[i] \notin moved} = 1..n /\ n \in Nat
    OBVIOUS
  <2>2. Cardinality(1..n) = n
    BY <2>1, FS_Interval
  <2> QED
    BY <2>1, <2>2 DEF Remaining
<1>8. PICK f \in [DOMAIN back -> {i \in DOMAIN list : list[i] \notin moved}] :
          /\ \A r \in DOMAIN back : back[r] = list[f[r]] /\ (r <= n <=> f[r] <= n)
          /\ \A q, r \in DOMAIN back : q < r => f[q] < f[r]
    BY <1>7, RemainingProps DEF back
<1>9. n <= L - c /\ k = n + c
  <2>1. n \in 0..Len(back)
    BY <1>7, RemainingProps DEF back
  <2>2. n <= L - c
    BY <1>5, <1>6, <2>1
  <2>3. {n + c, L} \subseteq Nat /\ n + c <= L
    BY <1>5, <2>2
  <2> DEFINE w == Min({n + c, L})
  <2>4. w \in {n + c, L} /\ w <= n + c /\ w <= L
    BY <2>3, MinOf
  <2> HIDE DEF w
  <2>5. w = n + c
    BY <1>5, <2>3, <2>4
  <2> QED
    BY <2>2, <2>5 DEF w
<1>10. /\ DOMAIN back = 1..L - c /\ DOMAIN list = 1..L /\ DOMAIN front = 1..c
    BY <1>1, <1>5, <1>6
<1> HIDE DEF L, c
<1>11. \A r \in 1..k : s[r] \in moved \/ \E i \in 1..n : s[r] = list[i]
  <2> SUFFICES ASSUME NEW r \in 1..k PROVE s[r] \in moved \/ \E i \in 1..n : s[r] = list[i]
    OBVIOUS
  <2>1. CASE r <= c
    <3>1. s[r] = front[r] /\ r \in DOMAIN front
      BY <1>3, <1>5, <1>10, <2>1
    <3> QED
      BY <1>1, <3>1 DEF ToSet
  <2>2. CASE ~(r <= c)
    <3>1. s[r] = back[r - c] /\ r - c \in DOMAIN back /\ r - c <= n
      BY <1>3, <1>5, <1>6, <1>9, <1>10, <2>2
    <3>2. f[r - c] \in 1..n /\ s[r] = list[f[r - c]]
      BY <1>8, <1>10, <3>1
    <3> QED
      BY <3>2
  <2> QED
    BY <2>1, <2>2
<1> DEFINE h == [r \in k + 1..L |-> f[r - c]]
<1>12. \A r \in k + 1..L : r - c \in DOMAIN back /\ ~(r - c <= n) /\ s[r] = back[r - c]
    BY <1>3, <1>5, <1>6, <1>9, <1>10
<1>13. \A r \in k + 1..L : /\ s[r] = list[h[r]] /\ s[r] \notin moved
                           /\ h[r] \in n + 1..L
  <2> SUFFICES ASSUME NEW r \in k + 1..L
               PROVE  s[r] = list[h[r]] /\ s[r] \notin moved /\ h[r] \in n + 1..L
    OBVIOUS
  <2>1. h[r] = f[r - c]
    OBVIOUS
  <2> HIDE DEF h
  <2>2. /\ f[r - c] \in 1..L /\ list[f[r - c]] \notin moved /\ ~(f[r - c] <= n)
        /\ s[r] = list[f[r - c]]
    BY <1>8, <1>10, <1>12
  <2>3. h[r] \in n + 1..L
    BY <1>5, <2>1, <2>2
  <2> QED
    BY <2>1, <2>2, <2>3
<1>14. \A q, r \in k + 1..L : q < r => h[q] < h[r]
  <2> SUFFICES ASSUME NEW q \in k + 1..L, NEW r \in k + 1..L, q < r PROVE f[q - c] < f[r - c]
    OBVIOUS
  <2>1. q - c < r - c
    BY <1>5, <1>9
  <2> QED
    BY <1>8, <1>12, <2>1
<1>15. h \in [k + 1..L -> n + 1..L]
    BY <1>13
<1>16. k \in 0..L /\ n <= k
    BY <1>5, <1>9
<1> HIDE DEF h
<1> QED
    BY <1>3, <1>4, <1>5, <1>11, <1>13, <1>14, <1>15, <1>16 DEF Follows, L, c

\* The prefix is permuted into the order of the next times.
LEMMA SortedProps ==
    ASSUME NEW S, NEW list \in Seq(S), NEW n \in 0..Len(list),
           \A i \in 1..n : Entry(list[i]).next \in Nat
    PROVE  LET s == SortedPrefix(list, n)
           IN  /\ s \in Seq(S) /\ Len(s) = Len(list)
               /\ \A r \in n + 1..Len(list) : s[r] = list[r]
               /\ \A q, r \in 1..n : q < r => Entry(s[q]).next <= Entry(s[r]).next
               /\ \E f \in [1..Len(list) -> 1..Len(list)] :
                     /\ \A r \in 1..Len(list) : s[r] = list[f[r]] /\ (r <= n <=> f[r] <= n)
                     /\ \A q, r \in 1..Len(list) : f[q] = f[r] => q = r
                     /\ \A i \in 1..Len(list) : \E r \in 1..Len(list) : f[r] = i
<1> DEFINE s == SortedPrefix(list, n)
           L == Len(list)
           B == [j \in 1..n |-> {i \in 1..n : Before(list, i, j)}]
           place(j) == SortedPlace(list, n, j)
<1>1. L \in Nat /\ DOMAIN list = 1..L /\ n \in Nat /\ n <= L
    OBVIOUS
<1>2. \A j \in 1..n : place(j) = Cardinality(B[j])
    BY DEF SortedPlace
<1>3. /\ \A i, j \in 1..n : i \in B[j] <=> Before(list, i, j)
      /\ B \in [1..n -> SUBSET (1..n)]
    OBVIOUS
<1>4. IsFiniteSet(1..n) /\ Cardinality(1..n) = n
    BY <1>1, FS_Interval
<1> HIDE DEF B
<1>5. /\ \A x \in 1..n : x \in B[x]
      /\ \A x, y \in 1..n : x \in B[y] \/ y \in B[x]
      /\ \A x, y \in 1..n : x \in B[y] /\ x # y => y \notin B[x]
    BY <1>3 DEF Before
<1>6. \A x, y \in 1..n : x \in B[y] => B[x] \subseteq B[y]
  <2> SUFFICES ASSUME NEW x \in 1..n, NEW y \in 1..n, x \in B[y], NEW z \in 1..n, z \in B[x]
               PROVE  z \in B[y]
    BY <1>3
  <2> QED
    BY <1>3 DEF Before
<1>7. /\ \A x \in 1..n : Cardinality(B[x]) \in 1..n
      /\ \A x, y \in 1..n : x \in B[y] /\ x # y => Cardinality(B[x]) < Cardinality(B[y])
      /\ \A r \in 1..n : \E x \in 1..n : Cardinality(B[x]) = r
  <2> DEFINE D == 1..n
  <2> HIDE DEF D
  <2>1. /\ \A x \in D : Cardinality(B[x]) \in 1..Cardinality(D)
        /\ \A x, y \in D : x \in B[y] /\ x # y => Cardinality(B[x]) < Cardinality(B[y])
        /\ \A r \in 1..Cardinality(D) : \E x \in D : Cardinality(B[x]) = r
    <3>1. /\ IsFiniteSet(D) /\ B \in [D -> SUBSET D]
          /\ \A x \in D : x \in B[x]
          /\ \A x, y \in D : x \in B[y] \/ y \in B[x]
          /\ \A x, y \in D : x \in B[y] /\ x # y => y \notin B[x]
      BY <1>3, <1>4, <1>5 DEF D
    <3>2. \A x, y \in D : x \in B[y] => B[x] \subseteq B[y]
      BY <1>6 DEF D
    <3> QED
      BY <3>1, <3>2, Ranks
  <2> QED
    BY <1>4, <2>1 DEF D
<1> DEFINE g == [r \in 1..n |-> CHOOSE j \in 1..n : place(j) = r]
           f == [r \in 1..L |-> IF r <= n THEN g[r] ELSE r]
<1>8. \A r \in 1..n : g[r] \in 1..n /\ place(g[r]) = r
    BY <1>2, <1>7
<1>9. \A j \in 1..n : g[place(j)] = j /\ place(j) \in 1..n
  <2> SUFFICES ASSUME NEW j \in 1..n PROVE g[place(j)] = j /\ place(j) \in 1..n
    OBVIOUS
  <2>1. place(j) \in 1..n
    BY <1>2, <1>7
  <2>2. g[place(j)] \in 1..n /\ place(g[place(j)]) = place(j)
    BY <1>8, <2>1
  <2> DEFINE h == g[place(j)]
  <2>3. h \in 1..n
    BY <2>2
  <2> HIDE DEF h
  <2>31. place(h) = Cardinality(B[h]) /\ place(j) = Cardinality(B[j])
    BY <1>2, <2>3
  <2>32. place(h) = place(j)
    BY <2>2 DEF h
  <2>33. Cardinality(B[j]) \in Int
    BY <1>7
  <2> HIDE DEF g, place, h
  <2>4. h # j => Cardinality(B[h]) < Cardinality(B[j]) \/ Cardinality(B[j]) < Cardinality(B[h])
    BY <1>5, <1>7, <2>3
  <2>5. h = j
    BY <2>31, <2>32, <2>33, <2>4
  <2> QED
    BY <2>1, <2>5 DEF h
<1>10. s = [r \in 1..L |-> IF r <= n THEN list[g[r]] ELSE list[r]]
  <2>1. \A r \in 1..L : r <= n => r \in 1..n
    BY <1>1
  <2> QED
    BY <2>1 DEF SortedPrefix
<1> HIDE DEF g
<1>11. \A r \in 1..L : /\ f[r] \in 1..L /\ s[r] = list[f[r]]
                       /\ r <= n => f[r] = g[r] /\ f[r] \in 1..n
                       /\ ~(r <= n) => f[r] = r
    BY <1>1, <1>8, <1>10
<1>12. \A r \in 1..L : list[r] \in S
    BY <1>1
<1>13. s \in Seq(S) /\ Len(s) = L
  <2>1. s = [r \in 1..L |-> s[r]] /\ \A r \in 1..L : s[r] \in S
    BY <1>10, <1>11, <1>12
  <2> HIDE DEF s
  <2> QED
    BY <1>1, <2>1
<1> HIDE DEF s, f
<1>14. \A r \in 1..L : r <= n <=> f[r] <= n
    BY <1>1, <1>11
<1>15. \A q, r \in 1..L : f[q] = f[r] => q = r
  <2> SUFFICES ASSUME NEW q \in 1..L, NEW r \in 1..L, f[q] = f[r] PROVE q = r
    OBVIOUS
  <2>1. CASE q <= n
    <3>1. r <= n /\ q \in 1..n /\ r \in 1..n
      BY <1>1, <1>14, <2>1
    <3>2. g[q] = g[r] /\ place(g[q]) = q /\ place(g[r]) = r
      BY <1>8, <1>11, <3>1
    <3> HIDE DEF place
    <3> QED
      BY <3>2
  <2>2. CASE ~(q <= n)
    BY <1>11, <1>14, <2>2
  <2> QED
    BY <2>1, <2>2
<1>16. \A i \in 1..L : \E r \in 1..L : f[r] = i
  <2> SUFFICES ASSUME NEW i \in 1..L PROVE \E r \in 1..L : f[r] = i
    OBVIOUS
  <2>1. CASE i <= n
    <3>1. i \in 1..n /\ place(i) \in 1..n /\ g[place(i)] = i
      BY <1>1, <1>9, <2>1
    <3> HIDE DEF place
    <3>2. place(i) \in 1..L /\ place(i) <= n
      BY <1>1, <3>1
    <3> QED
      BY <1>11, <3>1, <3>2
  <2>2. CASE ~(i <= n)
    BY <1>11, <2>2
  <2> QED
    BY <2>1, <2>2
<1>17. \A q, r \in 1..n : q < r => Entry(s[q]).next <= Entry(s[r]).next
  <2> SUFFICES ASSUME NEW q \in 1..n, NEW r \in 1..n, q < r
               PROVE  Entry(s[q]).next <= Entry(s[r]).next
    OBVIOUS
  <2>1. q \in 1..L /\ r \in 1..L /\ q <= n /\ r <= n
    BY <1>1
  <2>2. s[q] = list[g[q]] /\ s[r] = list[g[r]] /\ g[q] \in 1..n /\ g[r] \in 1..n
    BY <1>8, <1>11, <2>1
  <2>3. Cardinality(B[g[q]]) = q /\ Cardinality(B[g[r]]) = r
    BY <1>2, <1>8
  <2>4. PICK x \in 1..n : x = g[q]
    BY <2>2
  <2>5. PICK y \in 1..n : y = g[r]
    BY <2>2
  <2>6. Cardinality(B[x]) = q /\ Cardinality(B[y]) = r /\ q \in Int /\ r \in Int
    BY <2>3, <2>4, <2>5
  <2>61. x # y
    BY <2>6
  <2>62. y \in B[x] => Cardinality(B[y]) < Cardinality(B[x])
    BY <1>7, <2>61
  <2>7. ~(y \in B[x])
    BY <2>6, <2>62
  <2>8. x \in B[y]
    BY <1>5, <2>7
  <2>9. Before(list, x, y)
    BY <1>3, <2>8
  <2>10. Entry(list[x]).next <= Entry(list[y]).next
    BY <2>9 DEF Before
  <2> QED
    BY <2>2, <2>4, <2>5, <2>10
<1>18. \A r \in n + 1..L : s[r] = list[r]
  <2> SUFFICES ASSUME NEW r \in n + 1..L PROVE s[r] = list[r]
    OBVIOUS
  <2>1. r \in 1..L /\ ~(r <= n)
    BY <1>1
  <2> QED
    BY <1>11, <2>1
<1>19. f \in [1..L -> 1..L]
    BY <1>11 DEF f
<1> HIDE DEF L
<1> QED
    BY <1>11, <1>13, <1>14, <1>15, <1>16, <1>17, <1>18, <1>19 DEF s, L

-----------------------------------------------------------------------------
(* The inductive invariant                                                 *)

\* Groups in use, their members; what adjustGroups breaks, joins and forms
Busy == ToSet(groupList) \ groupMask
Grouped == UNION {groups[k].member : k \in Busy}
Broken == ToSet(adj.brk)
NotAdded == ToSet(adj.noAdd)
Taken == UNION ToSet(adj.newGroup)

Adjusting == pc \in {"checkNewGroup", "breakGroups", "addGroups"}
Turning == pc \in {"integrateGroupsOneStep", "integrateSingles", "nothingActive"}

\* Lists name nothing twice; a slot is listed, or free and masked (or both,
\* from its dissolution on until ReleaseSingles takes it out of the list).
ListsOK ==
    /\ IsInjective(singles) /\ IsInjective(groupList) /\ IsInjective(freeSlots)
    /\ IsInjective(merger) /\ ToSet(merger) \subseteq ToSet(groupList)
    /\ pc \notin {"integrateSingles", "checkBreak"} => merger = <<>>
    /\ groupMask = ToSet(freeSlots) /\ Slots = ToSet(groupList) \cup groupMask
    /\ pc # "breakGroups" => ToSet(groupList) \cap groupMask = {}
    /\ pc = "breakGroups" => ToSet(groupList) \cap groupMask \subseteq Broken
    /\ pc \notin {"addInitialGroups", "addGroups", "initialIntegration"} => nInitS = 0 /\ nInitG = 0

\* Free slots are empty, groups in use share no member, and two of a group's
\* members have mass unless it is to be broken; members are masked.
MembersOK ==
    /\ \A k \in groupMask : groups[k].member = {}
    /\ \A k \in Busy : /\ Cardinality(groups[k].member) > 1 /\ groups[k].member \subseteq singleMask
                       /\ k \notin ToSet(merger) \cup Broken =>
                              Cardinality(groups[k].member \cap massive) > 1
    /\ \A k, l \in Busy : k # l => groups[k].member \cap groups[l].member = {}
    /\ ToSet(singles) \cap singleMask = {}
    /\ 2 * Len(groups) <= Cardinality(Particle)

AdjShape ==
    [brk : Seq(Slots), noAdd : Seq(Slots), newGroup : Seq(SUBSET Particle),
     newSingle : Seq(Particle), used : [Particle \cup Slots -> Int], cursor : Nat \ {0}]

\* The sets of members that are to become groups
Formed(a) ==
    /\ \A g, h \in DOMAIN a.newGroup : g # h => a.newGroup[g] \cap a.newGroup[h] = {}
    /\ \A g \in DOMAIN a.newGroup : Cardinality(a.newGroup[g] \cap massive) > 1

\* What has joined new group g
Joiners(a, g) == {x \in Particle \cup Slots : a.used[x] = g - 1}

\* The search for new groups: used_mask tells the joiners of each.
Search(a) ==
    /\ a.newSingle = <<>>
    /\ \A x \in Particle \cup Slots :
          /\ a.used[x] \in -2..Len(a.newGroup) - 1
          /\ a.used[x] = -2 <=> x \in singleMask \cup groupMask \cup ToSet(a.brk)
          /\ a.used[x] >= 0 => x \in Listed /\ (x \in Particle => x \in massive)
    /\ \A g \in DOMAIN a.newGroup : a.newGroup[g] = UNION {Members(x) : x \in Joiners(a, g)}
    /\ IsInjective(a.noAdd) /\ ToSet(a.noAdd) = {k \in Slots : a.used[k] >= 0}
Found(a) == Search(a) /\ \A g \in DOMAIN a.newGroup : \E x, y \in Joiners(a, g) : x # y

\* Groups are being dissolved one by one.
DissolvingOK ==
    /\ adj.cursor <= Len(adj.brk) + 1
    /\ \A i \in DOMAIN adj.brk : adj.brk[i] \in groupMask <=> i < adj.cursor
    /\ ToSet(adj.newSingle) \subseteq massive
    /\ ToSet(adj.newSingle) \cap (ToSet(singles) \cup singleMask) = {}
    /\ \A k \in Busy \ NotAdded : groups[k].member \cap Taken = {}
    /\ \A k \in NotAdded : \E g \in DOMAIN adj.newGroup : groups[k].member \subseteq adj.newGroup[g]
    /\ massive \subseteq ToSet(singles) \cup Grouped \cup ToSet(adj.newSingle) \cup Taken

\* Dissolved groups are out of the list, new ones not yet in.
AddingOK ==
    /\ Broken \subseteq groupMask
    /\ Grouped \cap Taken = {}
    /\ massive \subseteq ToSet(singles) \cup Grouped \cup Taken

AdjOK ==
    /\ ~Adjusting => adj = NoAdjust
    /\ pc = "addInitialGroups" => massive = Particle /\ groups = <<>>
    /\ TablesSettled => massive \subseteq ToSet(singles) \cup Grouped
    /\ Adjusting =>
          /\ adj \in AdjShape /\ Formed(adj)
          /\ IsInjective(adj.brk) /\ IsInjective(adj.noAdd) /\ Broken \cap NotAdded = {}
          /\ pc # "addGroups" => Broken \cup NotAdded \subseteq ToSet(groupList)
          /\ IsInjective(adj.newSingle) /\ ToSet(adj.newSingle) \cap Taken = {}
    /\ pc = "checkNewGroup" => Found(adj)
    /\ pc = "breakGroups" => DissolvingOK
    /\ pc = "addGroups" => AddingOK

\* dt_min_
Least == CHOOSE m \in Steps : \A d \in Steps : m <= d

OnGrid(e) == e.dt \in Steps /\ e.next = e.time + e.dt /\ Divides(e.dt, e.time)

\* What is about to leave the lists, its times do not matter any more.
Leaving == groupMask \cup (IF pc = "breakGroups" THEN Broken ELSE {})
           \cup (IF pc \in {"breakGroups", "addGroups"} THEN Taken ELSE {})

\* Entries from + 1 .. n of a list have just been given a step at the clock.
Started(list, n, from) ==
    \A i \in from + 1..n : list[i] \notin Leaving =>
        OnGrid(Entry(list[i])) /\ Entry(list[i]).time = time
\* The entries behind the first n are under way, sorted by next time and step.
Waiting(list, n) ==
    /\ \A i \in n + 1..Len(list) : list[i] \notin Leaving =>
          /\ OnGrid(Entry(list[i]))
          /\ Entry(list[i]).time < timeNextMin /\ timeNextMin < Entry(list[i]).next
    /\ \A i, j \in n + 1..Len(list) :
          i < j /\ list[i] \notin Leaving /\ list[j] \notin Leaving =>
             /\ Entry(list[i]).next <= Entry(list[j]).next
             /\ Entry(list[i]).dt <= Entry(list[j]).dt

\* The next time has been chosen, and not been reached.
Chosen == /\ time < timeNextMin /\ Divides(Least, timeNextMin)
          /\ time < TimeEnd => timeNextMin <= TimeEnd

TimeInv ==
    /\ Divides(Least, time) /\ time <= TimeEnd
    /\ pc = "integrateGroupsOneStep" =>
          /\ Chosen /\ \A x \in Listed : OnGrid(Entry(x)) /\ Entry(x).time <= time
          /\ SortedLists
    /\ pc = "integrateSingles" =>
          /\ Chosen /\ time < TimeEnd
          /\ \A x \in ActiveS \cup ActiveG : Entry(x).time + Entry(x).dt = timeNextMin
          /\ Waiting(singles, nActS) /\ Waiting(groupList, nActG)
    /\ ~Turning =>
          /\ timeNextMin = time
          /\ Waiting(singles, nActS) /\ Waiting(groupList, nActG)
          /\ Started(singles, nActS, nInitS) /\ Started(groupList, nActG, nInitG)
    /\ BrokenAtNow

Inv == TypeOK /\ ListsOK /\ MembersOK /\ AdjOK /\ TimeInv

-----------------------------------------------------------------------------
(* Steps and entries                                                       *)

Grid == INSTANCE BlockScheduleProofs
            WITH Item <- Particle \cup 1..(Cardinality(Particle) \div 2)

\* Steps are positive and no longer than the tree step.
LEMMA StepsPositive == Steps \subseteq Nat \ {0} /\ \A d \in Steps : d <= TimeEnd
<1>1. TimeEnd \in Nat \ {0} /\ \A d \in Steps : Divides(d, TimeEnd)
  BY HermiteAssumption
<1>2. ASSUME NEW d \in Steps PROVE d <= TimeEnd
  <2>1. d \in Nat /\ Divides(d, 0)
    BY StepsAssumption DEF Divides
  <2>2. 0 + d <= TimeEnd
    BY <1>1, <2>1, StepsAssumption, HermiteAssumption, Grid!GridApart DEF Divides, Grid!Divides
  <2> QED
    BY <2>1, <2>2
<1> QED
  BY <1>2, StepsAssumption

\* Some steps have a smallest and a largest one.
LEMMA Extremes ==
    ASSUME NEW S \in SUBSET Steps, S # {}
    PROVE  /\ \E d \in S : \A e \in S : d <= e
           /\ \E d \in S : \A e \in S : e <= d
<1>1. S \subseteq Nat /\ TimeEnd \in Nat /\ \A d \in S : d <= TimeEnd
  BY StepsPositive, HermiteAssumption
<1>2. \E d \in S : \A e \in S : d <= e
  BY <1>1, LeastNat
<1> DEFINE T == {TimeEnd - d : d \in S}
<1>3. T \subseteq Nat /\ T # {}
  <2>1. \A d \in S : TimeEnd - d \in Nat
    <3> SUFFICES ASSUME NEW d \in S PROVE TimeEnd - d \in Nat
      OBVIOUS
    <3>1. d \in Nat /\ d <= TimeEnd
      BY <1>1
    <3> QED
      BY <1>1, <3>1
  <2> QED
    BY <2>1
<1>4. PICK m \in T : \A x \in T : m <= x
  BY <1>3, LeastNat
<1>5. PICK d \in S : m = TimeEnd - d
  BY <1>4
<1>6. \A e \in S : e <= d
  BY <1>1, <1>4, <1>5
<1> QED
  BY <1>2, <1>6

\* dt_min_ is a step, and the smallest one.
LEMMA LeastStep == Least \in Steps /\ \A d \in Steps : Least <= d
BY Extremes, StepsAssumption DEF Least

\* So is dt_max_ the largest one.
LEMMA LargestStep == DtMax \in Steps /\ \A d \in Steps : d <= DtMax
BY Extremes, StepsAssumption DEF DtMax

\* Times on the grids
LEMMA OnFinerGrid ==
    ASSUME NEW t \in Nat, NEW d \in Steps, Divides(d, t)
    PROVE  \A e \in Steps : e <= d => Divides(e, t)
BY ZenonT(40), StepsAssumption, HermiteAssumption, Grid!FinerGrid DEF Divides, Grid!Divides

\* A step from a time on its grid ends on the grid.
LEMMA NextOnGrid ==
    ASSUME NEW t \in Nat, NEW d \in Steps, Divides(d, t)
    PROVE  t + d \in Nat /\ Divides(d, t + d)
BY StepsAssumption, HermiteAssumption, Grid!NextOnGrid DEF Divides, Grid!Divides

\* Times on a grid are a step apart.
LEMMA GridApart ==
    ASSUME NEW s \in Nat, NEW t \in Nat, NEW d \in Steps, Divides(d, s), Divides(d, t), s < t
    PROVE  s + d <= t
BY StepsAssumption, HermiteAssumption, Grid!GridApart DEF Divides, Grid!Divides

\* What starts inside a step and ends there has a smaller one.
LEMMA InsideIsFiner ==
    ASSUME NEW s \in Nat, NEW t \in Nat, NEW d \in Steps, NEW e \in Steps,
           Divides(e, s), Divides(d, t), s < t, t < s + e
    PROVE  d < e
BY StepsAssumption, HermiteAssumption, Grid!InsideIsFiner DEF Divides, Grid!Divides

\* The steps that initialIntegration and the corrector may choose keep an
\* entry on its grid.
LEMMA ChosenSteps ==
    ASSUME NEW t \in Nat, Divides(Least, t)
    PROVE  /\ CalcNextDtLimit(t) \in Steps
           /\ \A d \in CalcBlockDt(CalcNextDtLimit(t)) : d \in Steps /\ Divides(d, t)
<1>1. StepsAt(t) \in SUBSET Steps /\ StepsAt(t) # {}
  BY LeastStep DEF StepsAt
<1>2. PICK m \in StepsAt(t) : \A e \in StepsAt(t) : e <= m
  BY <1>1, Extremes
<1>3. CalcNextDtLimit(t) \in StepsAt(t)
  BY <1>2 DEF CalcNextDtLimit
<1>4. CalcNextDtLimit(t) \in Steps /\ Divides(CalcNextDtLimit(t), t)
  BY <1>3 DEF StepsAt
<1> QED
  BY <1>4, OnFinerGrid DEF CalcBlockDt

ParticleEntry == [time : Nat, dt : Nat, next : Nat]
GroupEntry == [member : SUBSET Particle, time : Nat, dt : Nat, next : Nat]

\* updateTimeNextList
LEMMA RestartParticle ==
    ASSUME NEW e \in ParticleEntry, NEW t \in Nat, NEW d \in Nat
    PROVE  Restart(e, t, d) = [time |-> t, dt |-> d, next |-> t + d]
<1> USE DEF ParticleEntry
<1>1. Restart(e, t, d) = [[[e EXCEPT !.time = t] EXCEPT !.dt = d] EXCEPT !.next = t + d]
  BY DEF Restart
<1>2. [e EXCEPT !.time = t] = [time |-> t, dt |-> e.dt, next |-> e.next]
  OBVIOUS
<1>3. [[time |-> t, dt |-> e.dt, next |-> e.next] EXCEPT !.dt = d]
         = [time |-> t, dt |-> d, next |-> e.next]
  OBVIOUS
<1>4. [[time |-> t, dt |-> d, next |-> e.next] EXCEPT !.next = t + d]
         = [time |-> t, dt |-> d, next |-> t + d]
  OBVIOUS
<1> QED
  BY <1>1, <1>2, <1>3, <1>4

\* The same for a group, which keeps its members
LEMMA RestartGroup ==
    ASSUME NEW e \in GroupEntry, NEW t \in Nat, NEW d \in Nat
    PROVE  Restart(e, t, d) = [member |-> e.member, time |-> t, dt |-> d, next |-> t + d]
<1> USE DEF GroupEntry
<1>1. Restart(e, t, d) = [[[e EXCEPT !.time = t] EXCEPT !.dt = d] EXCEPT !.next = t + d]
  BY DEF Restart
<1>2. [e EXCEPT !.time = t] = [member |-> e.member, time |-> t, dt |-> e.dt, next |-> e.next]
  OBVIOUS
<1>3. [[member |-> e.member, time |-> t, dt |-> e.dt, next |-> e.next] EXCEPT !.dt = d]
         = [member |-> e.member, time |-> t, dt |-> d, next |-> e.next]
  OBVIOUS
<1>4. [[member |-> e.member, time |-> t, dt |-> d, next |-> e.next] EXCEPT !.next = t + d]
         = [member |-> e.member, time |-> t, dt |-> d, next |-> t + d]
  OBVIOUS
<1> QED
  BY <1>1, <1>2, <1>3, <1>4

\* Slots are numbers, particles are not.
LEMMA Kinds ==
    ASSUME TypeOK
    PROVE  /\ Len(groups) \in Nat /\ Slots = 1..Len(groups)
           /\ \A k \in Slots : k \notin Particle /\ Entry(k) = groups[k] /\ groups[k] \in GroupEntry
                               /\ Members(k) = groups[k].member
           /\ \A p \in Particle : p \notin Slots /\ Entry(p) = ptcl[p] /\ ptcl[p] \in ParticleEntry
                                  /\ Members(p) = {p}
<1>1. Len(groups) \in Nat /\ Slots = 1..Len(groups) /\ groups \in Seq(GroupEntry)
  BY DEF TypeOK, GroupEntry, Slots
<1>2. \A k \in Slots : groups[k] \in GroupEntry
  BY <1>1
<1>3. \A k \in Slots : k \in Nat
  BY <1>1
<1>4. \A p \in Particle : p \notin Nat
  BY HermiteAssumption
<1>5. \A p \in Particle : ptcl[p] \in ParticleEntry
  BY DEF TypeOK, ParticleEntry
<1> QED
  BY <1>1, <1>2, <1>3, <1>4, <1>5 DEF Entry, Members

-----------------------------------------------------------------------------
(* Calls that leave the groups as they are                                 *)

\* The lists and the members of groups, by a call that leaves both as sets
LEMMA SameStructure ==
    ASSUME Inv, pc # "breakGroups", pc' # "breakGroups",
           DOMAIN groups' = DOMAIN groups, Len(groups') = Len(groups),
           \A k \in Slots : groups'[k].member = groups[k].member,
           ToSet(singles') = ToSet(singles), IsInjective(singles'),
           ToSet(groupList') = ToSet(groupList), IsInjective(groupList'),
           IsInjective(merger'), ToSet(merger') \subseteq ToSet(groupList),
           pc' \notin {"integrateSingles", "checkBreak"} => merger' = <<>>,
           pc' \notin {"addInitialGroups", "addGroups", "initialIntegration"} =>
               nInitS' = 0 /\ nInitG' = 0,
           UNCHANGED tables,
           \A k \in Busy : k \notin ToSet(merger') \cup ToSet(adj'.brk) =>
               Cardinality(groups[k].member \cap massive') > 1
    PROVE  ListsOK' /\ MembersOK'
<1>1. /\ singleMask' = singleMask /\ groupMask' = groupMask /\ freeSlots' = freeSlots
      /\ Busy' = Busy /\ Slots' = Slots
  BY DEF tables, Busy, Slots
<1>2. ListsOK
  BY DEF Inv
<1>3. ListsOK'
  BY <1>1, <1>2 DEF ListsOK
<1>4. Busy \subseteq Slots /\ groupMask \subseteq Slots
  BY <1>2 DEF ListsOK, Busy
<1>5. MembersOK
  BY DEF Inv
<1>6. /\ \A k \in groupMask : groups'[k].member = {}
      /\ \A k \in Busy : Cardinality(groups'[k].member) > 1 /\ groups'[k].member \subseteq singleMask
      /\ \A k, l \in Busy : k # l => groups'[k].member \cap groups'[l].member = {}
      /\ ToSet(singles) \cap singleMask = {}
      /\ 2 * Len(groups) <= Cardinality(Particle)
  BY <1>4, <1>5 DEF MembersOK
<1>7. \A k \in Busy : k \notin ToSet(merger') \cup ToSet(adj'.brk) =>
          Cardinality(groups'[k].member \cap massive') > 1
  BY <1>4
<1>8. MembersOK'
  BY <1>1, <1>6, <1>7 DEF MembersOK, Broken
<1> QED
  BY <1>3, <1>8

\* Outside adjustGroups
LEMMA SameAdj ==
    ASSUME Inv, ~Adjusting, ~Adjusting', pc' # "addInitialGroups", adj' = adj,
           \A k \in Slots : groups'[k].member = groups[k].member,
           ToSet(singles') = ToSet(singles), ToSet(groupList') = ToSet(groupList),
           UNCHANGED tables, massive' \subseteq massive
    PROVE  AdjOK'
<1>1. adj = NoAdjust /\ TablesSettled /\ massive \subseteq ToSet(singles) \cup Grouped
  BY DEF Inv, AdjOK, Adjusting, TablesSettled
<1>2. Busy' = Busy /\ Busy \subseteq Slots
  BY DEF tables, Busy, Inv, ListsOK
<1>3. Grouped' = Grouped
  BY <1>2 DEF Grouped
<1>4. massive' \subseteq ToSet(singles') \cup Grouped'
  BY <1>1, <1>3
<1> QED
  BY <1>1, <1>4 DEF AdjOK, Adjusting

\* Lists that stay as they are, with entries that are neither changed nor dropped.
LEMMA ListsKept ==
    ASSUME TypeOK, Waiting(singles, nActS), Waiting(groupList, nActG),
           Started(singles, nActS, nInitS), Started(groupList, nActG, nInitG),
           UNCHANGED <<time, timeNextMin, lists>>,
           \A p \in ToSet(singles) : p \notin Leaving' => p \notin Leaving /\ ptcl'[p] = ptcl[p],
           \A k \in ToSet(groupList) : k \notin Leaving' => k \notin Leaving /\ groups'[k] = groups[k]
    PROVE  /\ Waiting(singles, nActS)' /\ Waiting(groupList, nActG)'
           /\ Started(singles, nActS, nInitS)' /\ Started(groupList, nActG, nInitG)'
<1>1. /\ singles' = singles /\ groupList' = groupList /\ nActS' = nActS /\ nActG' = nActG
      /\ nInitS' = nInitS /\ nInitG' = nInitG
  BY DEF lists
<1>2. /\ singles \in Seq(Particle) /\ nActS \in 0..Len(singles) /\ nInitS \in 0..nActS
      /\ groupList \in Seq(Slots) /\ nActG \in 0..Len(groupList) /\ nInitG \in 0..nActG
  BY DEF TypeOK
<1>3. /\ \A i \in nInitS + 1..nActS : i \in 1..Len(singles)
      /\ \A i \in nActS + 1..Len(singles) : i \in 1..Len(singles)
      /\ \A i \in nInitG + 1..nActG : i \in 1..Len(groupList)
      /\ \A i \in nActG + 1..Len(groupList) : i \in 1..Len(groupList)
  BY <1>2
<1>4. \A i \in 1..Len(singles) : singles[i] \in Particle /\ singles[i] \in ToSet(singles)
  BY <1>2 DEF ToSet
<1>5. \A i \in 1..Len(groupList) : /\ groupList[i] \in ToSet(groupList)
                                   /\ groupList[i] \notin Particle
  <2>1. \A k \in Slots : k \notin Particle
    BY Kinds
  <2>2. \A i \in 1..Len(groupList) : groupList[i] \in Slots /\ groupList[i] \in ToSet(groupList)
    BY <1>2 DEF ToSet
  <2> QED
    BY <2>1, <2>2
<1>6. \A i \in 1..Len(singles) : singles[i] \notin Leaving' =>
          /\ singles[i] \notin Leaving
          /\ IF singles[i] \in Particle THEN ptcl'[singles[i]] = Entry(singles[i])
             ELSE groups'[singles[i]] = Entry(singles[i])
  BY <1>4 DEF Entry
<1>7. \A i \in 1..Len(groupList) : groupList[i] \notin Leaving' =>
          /\ groupList[i] \notin Leaving
          /\ IF groupList[i] \in Particle THEN ptcl'[groupList[i]] = Entry(groupList[i])
             ELSE groups'[groupList[i]] = Entry(groupList[i])
  BY <1>5 DEF Entry
<1>8. Waiting(singles, nActS)'
  BY <1>1, <1>3, <1>6 DEF Waiting, OnGrid, Entry
<1>9. Waiting(groupList, nActG)'
  BY <1>1, <1>3, <1>7 DEF Waiting, OnGrid, Entry
<1>10. Started(singles, nActS, nInitS)'
  BY <1>1, <1>3, <1>6 DEF Started, OnGrid, Entry
<1>11. Started(groupList, nActG, nInitG)'
  BY <1>1, <1>3, <1>7 DEF Started, OnGrid, Entry
<1> QED
  BY <1>8, <1>9, <1>10, <1>11

\* modifySingleParticles changes no type.
LEMMA ModifyType ==
    ASSUME Inv, ModifySingleParticles
    PROVE  TypeOK'
<1>1. TypeOK
  BY DEF Inv
<1>2. PICK lost \in SUBSET Particle :
          /\ massive' = massive \ lost
          /\ ptcl' = [p \in Particle |->
                        IF p \in lost THEN Restart(ptcl[p], ptcl[p].time, ptcl[p].dt) ELSE ptcl[p]]
  BY <1>1 DEF ModifySingleParticles, TypeOK
<1>3. \A p \in Particle : Restart(ptcl[p], ptcl[p].time, ptcl[p].dt) \in ParticleEntry
  <2> SUFFICES ASSUME NEW p \in Particle
               PROVE  Restart(ptcl[p], ptcl[p].time, ptcl[p].dt) \in ParticleEntry
    OBVIOUS
  <2>1. ptcl[p] \in ParticleEntry /\ ptcl[p].time \in Nat /\ ptcl[p].dt \in Nat
    BY <1>1 DEF TypeOK, ParticleEntry
  <2>2. ptcl[p].time + ptcl[p].dt \in Nat
    BY <2>1
  <2>3. Restart(ptcl[p], ptcl[p].time, ptcl[p].dt)
           = [time |-> ptcl[p].time, dt |-> ptcl[p].dt, next |-> ptcl[p].time + ptcl[p].dt]
    BY <2>1, RestartParticle
  <2> QED
    BY <2>1, <2>2, <2>3 DEF ParticleEntry
<1>4. ptcl' \in [Particle -> ParticleEntry]
  BY <1>1, <1>2, <1>3 DEF TypeOK, ParticleEntry
<1>5. massive' \subseteq Particle /\ pc' \in Calls
  BY <1>1, <1>2 DEF TypeOK, Calls, ModifySingleParticles
<1>6. UNCHANGED <<stage, clock, groups, lists, tables, merger, adj>>
  BY DEF ModifySingleParticles
<1> QED
  BY <1>1, <1>4, <1>5, <1>6 DEF TypeOK, ParticleEntry, Slots, clock, lists, tables

\* modifySingleParticles: a single without mass stays listed as it was.
LEMMA ModifyInv ==
    ASSUME Inv, ModifySingleParticles
    PROVE  Inv'
<1>1. TypeOK /\ ListsOK /\ MembersOK /\ AdjOK /\ TimeInv
  BY DEF Inv
<1>2. /\ pc = "modifySingles" /\ pc' = "sort"
      /\ UNCHANGED <<stage, clock, groups, lists, tables, merger, adj>>
  BY DEF ModifySingleParticles
<1>3. PICK lost \in SUBSET ActiveS :
          /\ massive' = massive \ lost
          /\ ptcl' = [p \in Particle |->
                        IF p \in lost THEN Restart(ptcl[p], ptcl[p].time, ptcl[p].dt) ELSE ptcl[p]]
  BY DEF ModifySingleParticles
<1>4. ActiveS \subseteq ToSet(singles) /\ singles \in Seq(Particle) /\ nActS \in 0..Len(singles)
  BY SMTT(20), <1>1 DEF ActiveS, ToSet, TypeOK
<1>5. \A k \in Busy : groups[k].member \cap massive' = groups[k].member \cap massive
  BY <1>1, <1>3, <1>4 DEF MembersOK
<1>6. ListsOK' /\ MembersOK'
  BY <1>1, <1>2, <1>5, SameStructure DEF lists, ListsOK, MembersOK, Broken
<1>7. AdjOK'
  BY <1>2, <1>3, SameAdj DEF lists, Adjusting
<1>8. /\ Waiting(singles, nActS) /\ Waiting(groupList, nActG)
      /\ Started(singles, nActS, nInitS) /\ Started(groupList, nActG, nInitG)
      /\ timeNextMin = time /\ Divides(Least, time) /\ time <= TimeEnd
  BY <1>1, <1>2 DEF TimeInv, Turning
<1>9. Leaving = groupMask /\ Leaving' = groupMask /\ nInitS = 0
  BY <1>1, <1>2 DEF Leaving, tables, ListsOK
\* An active particle has just been started.
<1>10. \A p \in ActiveS : OnGrid(ptcl[p])
  <2> SUFFICES ASSUME NEW i \in 1..nActS PROVE OnGrid(ptcl[singles[i]])
    BY <1>4 DEF ActiveS, ToSet
  <2>1. singles[i] \in Particle
    BY <1>4
  <2>2. singles[i] \notin Leaving /\ Entry(singles[i]) = ptcl[singles[i]]
    BY <1>1, <1>9, <2>1, Kinds DEF TypeOK
  <2> QED
    BY <1>4, <1>8, <1>9, <2>2 DEF Started
<1>11. \A p \in Particle : ptcl'[p] = ptcl[p]
  <2> SUFFICES ASSUME NEW p \in lost
               PROVE  Restart(ptcl[p], ptcl[p].time, ptcl[p].dt) = ptcl[p]
    BY <1>3
  <2>1. ptcl[p] \in ParticleEntry /\ OnGrid(ptcl[p])
    BY <1>1, <1>4, <1>10, Kinds DEF ToSet
  <2>2. Restart(ptcl[p], ptcl[p].time, ptcl[p].dt)
           = [time |-> ptcl[p].time, dt |-> ptcl[p].dt, next |-> ptcl[p].time + ptcl[p].dt]
    BY <2>1, RestartParticle DEF ParticleEntry
  <2> QED
    BY <2>1, <2>2 DEF OnGrid, ParticleEntry
<1>12. TimeInv'
  <2>1. \A p \in ToSet(singles) : p \in Particle
    BY <1>4 DEF ToSet
  <2>2. /\ Waiting(singles, nActS)' /\ Waiting(groupList, nActG)'
        /\ Started(singles, nActS, nInitS)' /\ Started(groupList, nActG, nInitG)'
    BY <1>1, <1>2, <1>8, <1>9, <1>11, <2>1, ListsKept DEF clock
  <2>3. timeNextMin' = time' /\ Divides(Least, time)' /\ time' <= TimeEnd
    BY <1>2, <1>8 DEF clock
  <2> QED
    BY <1>2, <2>2, <2>3 DEF TimeInv, Turning, BrokenAtNow
<1> QED
  BY <1>6, <1>7, <1>12, ModifyType DEF Inv

\* What initialIntegration does to the entries
LEMMA InitialSteps ==
    ASSUME Inv, InitialIntegration
    PROVE  /\ dtLimit' \in Steps \cup {0}
           /\ \E dt : /\ \A x \in FreshS \cup FreshG : dt[x] \in Steps /\ Divides(dt[x], time)
                      /\ ptcl' = [p \in Particle |->
                                    IF p \in FreshS THEN [time |-> time, dt |-> dt[p],
                                                          next |-> time + dt[p]]
                                    ELSE ptcl[p]]
                      /\ groups' = [k \in Slots |->
                                      IF k \in FreshG THEN [member |-> groups[k].member,
                                                            time |-> time, dt |-> dt[k],
                                                            next |-> time + dt[k]]
                                      ELSE groups[k]]
<1>1. TypeOK /\ TimeInv /\ pc = "initialIntegration"
  BY DEF Inv, InitialIntegration
<1>2. time \in Nat /\ Divides(Least, time)
  BY <1>1 DEF TypeOK, TimeInv
<1>3. dtLimit' = IF nInitS = 0 /\ nInitG = 0 THEN dtLimit ELSE CalcNextDtLimit(time)
  BY DEF InitialIntegration
<1>4. dtLimit' \in Steps \cup {0}
  BY <1>1, <1>2, <1>3, ChosenSteps DEF TypeOK
<1>5. PICK dt \in [FreshS \cup FreshG -> CalcBlockDt(dtLimit')] :
          /\ ptcl' = [p \in Particle |-> IF p \in FreshS
                                         THEN Restart(ptcl[p], time, dt[p]) ELSE ptcl[p]]
          /\ groups' = [k \in Slots |-> IF k \in FreshG
                                        THEN Restart(groups[k], time, dt[k]) ELSE groups[k]]
  BY DEF InitialIntegration
<1>6. nInitS = 0 /\ nInitG = 0 => FreshS \cup FreshG = {}
  BY <1>1 DEF FreshS, FreshG, ToSet, TypeOK
<1>7. \A x \in FreshS \cup FreshG : dt[x] \in Steps /\ Divides(dt[x], time)
  BY <1>2, <1>3, <1>5, <1>6, ChosenSteps
<1>8. \A p \in Particle : p \in FreshS =>
          Restart(ptcl[p], time, dt[p]) = [time |-> time, dt |-> dt[p], next |-> time + dt[p]]
  <2> SUFFICES ASSUME NEW p \in Particle, p \in FreshS
               PROVE  Restart(ptcl[p], time, dt[p]) = [time |-> time, dt |-> dt[p], next |-> time + dt[p]]
    OBVIOUS
  <2>1. ptcl[p] \in ParticleEntry /\ dt[p] \in Nat
    BY <1>1, <1>7, Kinds, StepsPositive
  <2> QED
    BY <1>2, <2>1, RestartParticle
<1>9. \A k \in Slots : k \in FreshG =>
          Restart(groups[k], time, dt[k]) = [member |-> groups[k].member, time |-> time,
                                             dt |-> dt[k], next |-> time + dt[k]]
  <2> SUFFICES ASSUME NEW k \in Slots, k \in FreshG
               PROVE  Restart(groups[k], time, dt[k]) = [member |-> groups[k].member, time |-> time,
                                                         dt |-> dt[k], next |-> time + dt[k]]
    OBVIOUS
  <2>1. groups[k] \in GroupEntry /\ dt[k] \in Nat
    BY <1>1, <1>7, Kinds, StepsPositive
  <2> QED
    BY <1>2, <2>1, RestartGroup
<1> QED
  BY <1>4, <1>5, <1>7, <1>8, <1>9

\* initialIntegration: what is new starts at the clock.
LEMMA InitialInv ==
    ASSUME Inv, InitialIntegration
    PROVE  Inv'
<1>1. TypeOK /\ ListsOK /\ MembersOK /\ AdjOK /\ TimeInv
  BY DEF Inv
<1>2. /\ pc = "initialIntegration" /\ pc' \in {"checkBreak", "sort", "modifySingles"}
      /\ nInitS' = 0 /\ nInitG' = 0
      /\ UNCHANGED <<stage, time, timeNextMin, massive, singles, groupList, nActS, nActG,
                     tables, merger, adj>>
  BY <1>1 DEF InitialIntegration, TypeOK
<1>3. PICK dt :
          /\ \A x \in FreshS \cup FreshG : dt[x] \in Steps /\ Divides(dt[x], time)
          /\ ptcl' = [p \in Particle |->
                        IF p \in FreshS THEN [time |-> time, dt |-> dt[p], next |-> time + dt[p]]
                        ELSE ptcl[p]]
          /\ groups' = [k \in Slots |->
                          IF k \in FreshG THEN [member |-> groups[k].member, time |-> time,
                                                dt |-> dt[k], next |-> time + dt[k]]
                          ELSE groups[k]]
  BY InitialSteps
<1>4. /\ time \in Nat /\ Len(groups) \in Nat /\ Slots = 1..Len(groups)
      /\ \A k \in Slots : groups[k] \in GroupEntry
      /\ \A p \in Particle : ptcl[p] \in ParticleEntry
      /\ \A d \in Steps : d \in Nat /\ time + d \in Nat
  <2>1. time \in Nat /\ \A d \in Steps : d \in Nat
    BY <1>1, StepsPositive DEF TypeOK
  <2> QED
    BY <1>1, <2>1, Kinds
<1>5. ptcl' \in [Particle -> ParticleEntry]
  BY <1>3, <1>4 DEF ParticleEntry
<1>6. /\ groups' \in Seq(GroupEntry) /\ Len(groups') = Len(groups) /\ DOMAIN groups' = Slots
      /\ \A k \in Slots : groups'[k].member = groups[k].member
  <2>1. \A k \in Slots : groups'[k] \in GroupEntry /\ groups'[k].member = groups[k].member
    BY <1>3, <1>4 DEF GroupEntry
  <2>2. groups' = [k \in 1..Len(groups) |-> groups'[k]]
    BY <1>3, <1>4
  <2> QED
    BY <1>4, <2>1, <2>2
<1>7. TypeOK'
  <2>1. pc' \in Calls /\ dtLimit' \in Steps \cup {0}
    BY <1>2, InitialSteps DEF Calls
  <2>2. Slots' = Slots
    BY <1>6 DEF Slots
  <2> QED
    BY <1>1, <1>2, <1>5, <1>6, <2>1, <2>2 DEF TypeOK, ParticleEntry, GroupEntry, tables
<1>8. ListsOK' /\ MembersOK'
  BY <1>1, <1>2, <1>6, SameStructure DEF ListsOK, MembersOK, Broken, Slots
<1>9. AdjOK'
  BY <1>2, <1>6, SameAdj DEF Adjusting
<1>10. /\ Waiting(singles, nActS) /\ Waiting(groupList, nActG)
       /\ Started(singles, nActS, nInitS) /\ Started(groupList, nActG, nInitG)
       /\ timeNextMin = time /\ Divides(Least, time) /\ time <= TimeEnd
  BY <1>1, <1>2 DEF TimeInv, Turning
<1>11. Leaving = groupMask /\ Leaving' = groupMask
  BY <1>2 DEF Leaving, tables
<1>12. /\ singles \in Seq(Particle) /\ nActS \in 0..Len(singles) /\ nInitS \in 0..nActS
       /\ groupList \in Seq(Slots) /\ nActG \in 0..Len(groupList) /\ nInitG \in 0..nActG
       /\ IsInjective(singles) /\ IsInjective(groupList)
  BY <1>1 DEF TypeOK, ListsOK
\* The singles: the fresh ones are started, the others are as they were.
<1>13. \A i \in 1..Len(singles) :
          /\ i <= nInitS => /\ OnGrid(ptcl'[singles[i]]) /\ ptcl'[singles[i]].time = time
          /\ i > nInitS => ptcl'[singles[i]] = Entry(singles[i])
          /\ singles[i] \in Particle
  <2> SUFFICES ASSUME NEW i \in 1..Len(singles)
               PROVE  /\ i <= nInitS => /\ OnGrid(ptcl'[singles[i]]) /\ ptcl'[singles[i]].time = time
                      /\ i > nInitS => ptcl'[singles[i]] = Entry(singles[i])
                      /\ singles[i] \in Particle
    OBVIOUS
  <2>1. singles[i] \in Particle
    BY <1>12
  <2>2. singles[i] \in FreshS <=> i <= nInitS
    <3> DEFINE n == nInitS
    <3>1. n \in 0..Len(singles) /\ FreshS = ToSet(SubSeq(singles, 1, n))
      BY <1>12 DEF FreshS
    <3> HIDE DEF n
    <3> QED
      BY <1>12, <3>1, Prefix DEF n
  <2>3. PICK p \in Particle : p = singles[i]
    BY <2>1
  <2>4. ASSUME i <= nInitS PROVE OnGrid(ptcl'[p]) /\ ptcl'[p].time = time
    <3>1. PICK d \in Steps : d = dt[p] /\ Divides(d, time)
      BY <1>3, <2>2, <2>3, <2>4
    <3>2. ptcl'[p] = [time |-> time, dt |-> d, next |-> time + d]
      BY <1>3, <2>2, <2>3, <2>4, <3>1
    <3> QED
      BY <3>1, <3>2 DEF OnGrid
  <2>5. i > nInitS => ptcl'[p] = ptcl[p]
    BY <1>3, <1>12, <2>2, <2>3
  <2> QED
    BY <2>3, <2>4, <2>5 DEF Entry
<1>14. \A i \in 1..Len(groupList) :
          /\ i <= nInitG => /\ OnGrid(groups'[groupList[i]]) /\ groups'[groupList[i]].time = time
          /\ i > nInitG => groups'[groupList[i]] = Entry(groupList[i])
          /\ groupList[i] \notin Particle
  <2> SUFFICES ASSUME NEW i \in 1..Len(groupList)
               PROVE  /\ i <= nInitG => /\ OnGrid(groups'[groupList[i]])
                                        /\ groups'[groupList[i]].time = time
                      /\ i > nInitG => groups'[groupList[i]] = Entry(groupList[i])
                      /\ groupList[i] \notin Particle
    OBVIOUS
  <2>1. groupList[i] \in Slots /\ groupList[i] \notin Particle
    BY <1>1, <1>12, Kinds
  <2>2. groupList[i] \in FreshG <=> i <= nInitG
    <3> DEFINE n == nInitG
    <3>1. n \in 0..Len(groupList) /\ FreshG = ToSet(SubSeq(groupList, 1, n))
      BY <1>12 DEF FreshG
    <3> HIDE DEF n
    <3> QED
      BY <1>12, <3>1, Prefix DEF n
  <2>3. PICK k \in Slots : k = groupList[i]
    BY <2>1
  <2>4. ASSUME i <= nInitG PROVE OnGrid(groups'[k]) /\ groups'[k].time = time
    <3>1. PICK d \in Steps : d = dt[k] /\ Divides(d, time)
      BY <1>3, <2>2, <2>3, <2>4
    <3>2. groups'[k] = [member |-> groups[k].member, time |-> time, dt |-> d, next |-> time + d]
      BY <1>3, <2>2, <2>3, <2>4, <3>1
    <3> QED
      BY <3>1, <3>2 DEF OnGrid
  <2>5. i > nInitG => groups'[k] = groups[k]
    BY <1>3, <1>12, <2>2, <2>3
  <2> QED
    BY <2>1, <2>3, <2>4, <2>5 DEF Entry
<1>15. TimeInv'
  <2>1. /\ singles' = singles /\ groupList' = groupList /\ nActS' = nActS /\ nActG' = nActG
        /\ time' = time /\ timeNextMin' = timeNextMin
    BY <1>2
  <2>2. /\ \A i \in nActS + 1..Len(singles) : i \in 1..Len(singles) /\ i > nInitS
        /\ \A i \in nActG + 1..Len(groupList) : i \in 1..Len(groupList) /\ i > nInitG
        /\ \A i \in 1..nActS : i \in 1..Len(singles) /\ (i <= nInitS \/ i \in nInitS + 1..nActS)
        /\ \A i \in 1..nActG : i \in 1..Len(groupList) /\ (i <= nInitG \/ i \in nInitG + 1..nActG)
        /\ \A i \in nInitS + 1..nActS : i > nInitS
        /\ \A i \in nInitG + 1..nActG : i > nInitG
    BY <1>12
  <2>5. \A i \in nActS + 1..Len(singles) : Entry(singles[i])' = Entry(singles[i])
    BY <1>13, <2>1, <2>2 DEF Entry
  <2>6. \A i \in nActG + 1..Len(groupList) : Entry(groupList[i])' = Entry(groupList[i])
    BY <1>14, <2>1, <2>2 DEF Entry
  <2>7. Waiting(singles, nActS)'
    BY <1>10, <1>11, <2>1, <2>5 DEF Waiting, OnGrid
  <2>3. Waiting(singles, nActS)' /\ Waiting(groupList, nActG)'
    BY <1>10, <1>11, <2>1, <2>6, <2>7 DEF Waiting, OnGrid
  <2>4. Started(singles, nActS, nInitS)' /\ Started(groupList, nActG, nInitG)'
    BY <1>2, <1>10, <1>11, <1>13, <1>14, <2>1, <2>2 DEF Started, OnGrid, Entry
  <2> QED
    BY <1>2, <1>10, <2>1, <2>3, <2>4 DEF TimeInv, Turning, BrokenAtNow
<1> QED
  BY <1>7, <1>8, <1>9, <1>15 DEF Inv

\* What the corrector does to the active entries
LEMMA CorrectedSteps ==
    ASSUME Inv, IntegrateSingleOneStepAct
    PROVE  /\ dtLimit' \in Steps \cup {0}
           /\ \E dt : /\ \A x \in ActiveS \cup ActiveG : dt[x] \in Steps /\ Divides(dt[x], timeNextMin)
                      /\ ptcl' = [p \in Particle |->
                                    IF p \in ActiveS THEN [time |-> timeNextMin, dt |-> dt[p],
                                                           next |-> timeNextMin + dt[p]]
                                    ELSE ptcl[p]]
                      /\ groups' = [k \in Slots |->
                                      IF k \in ActiveG THEN [member |-> groups[k].member,
                                                             time |-> timeNextMin, dt |-> dt[k],
                                                             next |-> timeNextMin + dt[k]]
                                      ELSE groups[k]]
<1>1. TypeOK /\ TimeInv /\ pc = "integrateSingles"
  BY DEF Inv, IntegrateSingleOneStepAct
<1>2. /\ timeNextMin \in Nat /\ Divides(Least, timeNextMin)
      /\ \A x \in ActiveS \cup ActiveG : Entry(x).time + Entry(x).dt = timeNextMin
  BY <1>1 DEF TypeOK, TimeInv, Chosen
<1>3. dtLimit' = CalcNextDtLimit(timeNextMin)
  BY DEF IntegrateSingleOneStepAct
<1>4. PICK dt \in [ActiveS \cup ActiveG -> CalcBlockDt(dtLimit')] :
          /\ ptcl' = [p \in Particle |->
                        IF p \in ActiveS
                        THEN Restart(Entry(p), Entry(p).time + Entry(p).dt, dt[p]) ELSE ptcl[p]]
          /\ groups' = [k \in Slots |->
                          IF k \in ActiveG
                          THEN Restart(Entry(k), Entry(k).time + Entry(k).dt, dt[k]) ELSE groups[k]]
  BY DEF IntegrateSingleOneStepAct
<1>5. /\ dtLimit' \in Steps \cup {0}
      /\ \A x \in ActiveS \cup ActiveG : dt[x] \in Steps /\ Divides(dt[x], timeNextMin)
  BY <1>2, <1>3, <1>4, ChosenSteps
<1>6. \A p \in Particle : p \in ActiveS =>
          Restart(Entry(p), Entry(p).time + Entry(p).dt, dt[p])
             = [time |-> timeNextMin, dt |-> dt[p], next |-> timeNextMin + dt[p]]
  <2> SUFFICES ASSUME NEW p \in Particle, p \in ActiveS
               PROVE  Restart(Entry(p), timeNextMin, dt[p])
                         = [time |-> timeNextMin, dt |-> dt[p], next |-> timeNextMin + dt[p]]
    BY <1>2
  <2>1. Entry(p) \in ParticleEntry /\ dt[p] \in Nat
    BY <1>1, <1>5, Kinds, StepsPositive
  <2> QED
    BY <1>2, <2>1, RestartParticle
<1>7. \A k \in Slots : k \in ActiveG =>
          Restart(Entry(k), Entry(k).time + Entry(k).dt, dt[k])
             = [member |-> groups[k].member, time |-> timeNextMin, dt |-> dt[k],
                next |-> timeNextMin + dt[k]]
  <2> SUFFICES ASSUME NEW k \in Slots, k \in ActiveG
               PROVE  Restart(Entry(k), timeNextMin, dt[k])
                         = [member |-> groups[k].member, time |-> timeNextMin, dt |-> dt[k],
                            next |-> timeNextMin + dt[k]]
    BY <1>2
  <2>1. Entry(k) = groups[k] /\ Entry(k) \in GroupEntry /\ dt[k] \in Nat
    BY <1>1, <1>5, Kinds, StepsPositive
  <2> QED
    BY <1>2, <2>1, RestartGroup
<1> QED
  BY <1>4, <1>5, <1>6, <1>7

\* integrateSingleOneStepAct: the active entries have arrived at the next time,
\* which becomes the clock, and start from there.
LEMMA CorrectedInv ==
    ASSUME Inv, IntegrateSingleOneStepAct
    PROVE  Inv'
<1>1. TypeOK /\ ListsOK /\ MembersOK /\ AdjOK /\ TimeInv
  BY DEF Inv
<1>2. /\ pc = "integrateSingles" /\ pc' = "checkBreak" /\ time' = timeNextMin
      /\ UNCHANGED <<stage, timeNextMin, massive, lists, tables, merger, adj>>
  BY DEF IntegrateSingleOneStepAct
<1>3. PICK dt :
          /\ \A x \in ActiveS \cup ActiveG : dt[x] \in Steps /\ Divides(dt[x], timeNextMin)
          /\ ptcl' = [p \in Particle |->
                        IF p \in ActiveS THEN [time |-> timeNextMin, dt |-> dt[p],
                                               next |-> timeNextMin + dt[p]]
                        ELSE ptcl[p]]
          /\ groups' = [k \in Slots |->
                          IF k \in ActiveG THEN [member |-> groups[k].member,
                                                 time |-> timeNextMin, dt |-> dt[k],
                                                 next |-> timeNextMin + dt[k]]
                          ELSE groups[k]]
  BY CorrectedSteps
<1>4. /\ timeNextMin \in Nat /\ Len(groups) \in Nat /\ Slots = 1..Len(groups)
      /\ \A k \in Slots : groups[k] \in GroupEntry
      /\ \A p \in Particle : ptcl[p] \in ParticleEntry
      /\ \A d \in Steps : d \in Nat /\ timeNextMin + d \in Nat
  <2>1. timeNextMin \in Nat /\ \A d \in Steps : d \in Nat
    BY <1>1, StepsPositive DEF TypeOK
  <2> QED
    BY <1>1, <2>1, Kinds
<1>5. ptcl' \in [Particle -> ParticleEntry]
  BY <1>3, <1>4 DEF ParticleEntry
<1>6. /\ groups' \in Seq(GroupEntry) /\ Len(groups') = Len(groups) /\ DOMAIN groups' = Slots
      /\ \A k \in Slots : groups'[k].member = groups[k].member
  <2>1. \A k \in Slots : groups'[k] \in GroupEntry /\ groups'[k].member = groups[k].member
    BY <1>3, <1>4 DEF GroupEntry
  <2>2. groups' = [k \in 1..Len(groups) |-> groups'[k]]
    BY <1>3, <1>4
  <2> QED
    BY <1>4, <2>1, <2>2
<1>7. TypeOK'
  <2>1. pc' \in Calls /\ dtLimit' \in Steps \cup {0}
    BY <1>2, CorrectedSteps DEF Calls
  <2>2. Slots' = Slots
    BY <1>6 DEF Slots
  <2> QED
    BY <1>1, <1>2, <1>4, <1>5, <1>6, <2>1, <2>2
    DEF TypeOK, ParticleEntry, GroupEntry, lists, tables
<1>8. ListsOK' /\ MembersOK'
  BY <1>1, <1>2, <1>6, SameStructure DEF ListsOK, MembersOK, Broken, Slots, lists
<1>9. AdjOK'
  BY <1>2, <1>6, SameAdj DEF Adjusting, lists
<1>10. /\ Waiting(singles, nActS) /\ Waiting(groupList, nActG)
       /\ Chosen /\ time < TimeEnd /\ Divides(Least, timeNextMin) /\ timeNextMin <= TimeEnd
  BY <1>1, <1>2 DEF TimeInv, Chosen
<1>11. Leaving = groupMask /\ Leaving' = groupMask
  BY <1>2 DEF Leaving, tables
<1>12. /\ singles \in Seq(Particle) /\ nActS \in 0..Len(singles)
       /\ groupList \in Seq(Slots) /\ nActG \in 0..Len(groupList)
       /\ IsInjective(singles) /\ IsInjective(groupList) /\ nInitS = 0 /\ nInitG = 0
  BY <1>1, <1>2 DEF TypeOK, ListsOK
\* The active entries are started, the others are as they were.
<1>13. \A i \in 1..Len(singles) :
          /\ i <= nActS => /\ OnGrid(ptcl'[singles[i]]) /\ ptcl'[singles[i]].time = timeNextMin
          /\ i > nActS => ptcl'[singles[i]] = Entry(singles[i])
          /\ singles[i] \in Particle
  <2> SUFFICES ASSUME NEW i \in 1..Len(singles)
               PROVE  /\ i <= nActS => /\ OnGrid(ptcl'[singles[i]])
                                       /\ ptcl'[singles[i]].time = timeNextMin
                      /\ i > nActS => ptcl'[singles[i]] = Entry(singles[i])
                      /\ singles[i] \in Particle
    OBVIOUS
  <2>1. singles[i] \in Particle
    BY <1>12
  <2>2. singles[i] \in ActiveS <=> i <= nActS
    BY <1>12, Prefix DEF ActiveS
  <2>3. PICK p \in Particle : p = singles[i]
    BY <2>1
  <2>4. ASSUME i <= nActS PROVE OnGrid(ptcl'[p]) /\ ptcl'[p].time = timeNextMin
    <3>1. PICK d \in Steps : d = dt[p] /\ Divides(d, timeNextMin)
      BY <1>3, <2>2, <2>3, <2>4
    <3>2. ptcl'[p] = [time |-> timeNextMin, dt |-> d, next |-> timeNextMin + d]
      BY <1>3, <2>2, <2>3, <2>4, <3>1
    <3> QED
      BY <3>1, <3>2 DEF OnGrid
  <2>5. i > nActS => ptcl'[p] = ptcl[p]
    BY <1>3, <1>12, <2>2, <2>3
  <2> QED
    BY <2>3, <2>4, <2>5 DEF Entry
<1>14. \A i \in 1..Len(groupList) :
          /\ i <= nActG => /\ OnGrid(groups'[groupList[i]])
                           /\ groups'[groupList[i]].time = timeNextMin
          /\ i > nActG => groups'[groupList[i]] = Entry(groupList[i])
          /\ groupList[i] \notin Particle
  <2> SUFFICES ASSUME NEW i \in 1..Len(groupList)
               PROVE  /\ i <= nActG => /\ OnGrid(groups'[groupList[i]])
                                       /\ groups'[groupList[i]].time = timeNextMin
                      /\ i > nActG => groups'[groupList[i]] = Entry(groupList[i])
                      /\ groupList[i] \notin Particle
    OBVIOUS
  <2>1. groupList[i] \in Slots /\ groupList[i] \notin Particle
    BY <1>1, <1>12, Kinds
  <2>2. groupList[i] \in ActiveG <=> i <= nActG
    BY <1>12, Prefix DEF ActiveG
  <2>3. PICK k \in Slots : k = groupList[i]
    BY <2>1
  <2>4. ASSUME i <= nActG PROVE OnGrid(groups'[k]) /\ groups'[k].time = timeNextMin
    <3>1. PICK d \in Steps : d = dt[k] /\ Divides(d, timeNextMin)
      BY <1>3, <2>2, <2>3, <2>4
    <3>2. groups'[k] = [member |-> groups[k].member, time |-> timeNextMin, dt |-> d,
                        next |-> timeNextMin + d]
      BY <1>3, <2>2, <2>3, <2>4, <3>1
    <3> QED
      BY <3>1, <3>2 DEF OnGrid
  <2>5. i > nActG => groups'[k] = groups[k]
    BY <1>3, <1>12, <2>2, <2>3
  <2> QED
    BY <2>1, <2>3, <2>4, <2>5 DEF Entry
<1>15. TimeInv'
  <2>1. /\ singles' = singles /\ groupList' = groupList /\ nActS' = nActS /\ nActG' = nActG
        /\ nInitS' = 0 /\ nInitG' = 0 /\ timeNextMin' = timeNextMin
    BY <1>2, <1>12 DEF lists
  <2>2. /\ \A i \in nActS + 1..Len(singles) : i \in 1..Len(singles) /\ i > nActS
        /\ \A i \in nActG + 1..Len(groupList) : i \in 1..Len(groupList) /\ i > nActG
        /\ \A i \in 1..nActS : i \in 1..Len(singles) /\ i <= nActS
        /\ \A i \in 1..nActG : i \in 1..Len(groupList) /\ i <= nActG
    BY <1>12
  <2>3. Waiting(singles, nActS)'
    BY <1>10, <1>11, <1>13, <2>1, <2>2 DEF Waiting, OnGrid, Entry
  <2>5. Waiting(groupList, nActG)'
    BY <1>10, <1>11, <1>14, <2>1, <2>2 DEF Waiting, OnGrid, Entry
  <2>4. Started(singles, nActS, nInitS)' /\ Started(groupList, nActG, nInitG)'
    BY <1>2, <1>11, <1>13, <1>14, <2>1, <2>2 DEF Started, OnGrid, Entry
  <2> QED
    BY <1>2, <1>10, <2>1, <2>3, <2>5, <2>4 DEF TimeInv, Turning, BrokenAtNow
<1> QED
  BY <1>7, <1>8, <1>9, <1>15 DEF Inv

\* The order of the lists at the top of the loop
SortedDue(list, n) ==
    /\ \A i, j \in DOMAIN list : i < j => /\ Entry(list[i]).next <= Entry(list[j]).next
                                          /\ Entry(list[i]).dt <= Entry(list[j]).dt
    /\ \A i \in DOMAIN list : IF i <= n THEN Entry(list[i]).next = timeNextMin
                              ELSE Entry(list[i]).next > timeNextMin

\* What SortedLists says of a list when the next time has been chosen
LEMMA SortedTop ==
    ASSUME TypeOK, AtTop
    PROVE  SortedLists <=> SortedDue(singles, nActS) /\ SortedDue(groupList, nActG)
<1>1. singles = groupList => DOMAIN groupList = {}
  <2> SUFFICES ASSUME singles = groupList, NEW i \in DOMAIN groupList PROVE FALSE
    OBVIOUS
  <2>1. groupList[i] \in Slots /\ singles[i] \in Particle
    BY DEF TypeOK
  <2> QED
    BY <2>1, Kinds
<1>2. CASE singles = groupList
  <2>1. DOMAIN singles = {} /\ DOMAIN groupList = {}
    BY <1>1, <1>2
  <2> QED
    BY <2>1 DEF SortedLists, SortedDue
<1>3. CASE singles # groupList
  BY <1>3 DEF SortedLists, SortedDue, AtTop
<1> QED
  BY <1>2, <1>3

\* What AR leaves of a group that did not merge: at least two members with mass
LEMMA GroupsLeft ==
    ASSUME Inv, pc = "integrateGroupsOneStep",
           NEW r, \A k \in ToSet(groupList) : r[k] \in GroupEvents(k),
           NEW k \in ToSet(groupList), r[k].event \notin {"merge", "destroy"}
    PROVE  Cardinality(groups[k].member \cap (massive \ UNION {r[l].lost : l \in ToSet(groupList)})) > 1
<1> DEFINE m == groups[k].member \cap massive
           lost == UNION {r[l].lost : l \in ToSet(groupList)}
<1>1. /\ TypeOK /\ MembersOK /\ Busy = ToSet(groupList) /\ ToSet(merger) \cup Broken = {}
  BY DEF Inv, ListsOK, AdjOK, Adjusting, NoAdjust, Busy, Broken, ToSet
<1>2. /\ Cardinality(m) > 1
      /\ \A l \in ToSet(groupList) : l # k => groups[k].member \cap groups[l].member = {}
  BY <1>1 DEF MembersOK
<1>3. \A l \in ToSet(groupList) : r[l].lost \subseteq groups[l].member
  BY DEF GroupEvents
<1>4. groups[k].member \cap (massive \ lost) = m \ r[k].lost
  BY <1>2, <1>3
<1>5. r[k].lost = {} \/ Cardinality(m \ r[k].lost) > 1
  <2>1. r[k] \in GroupEvents(k)
    OBVIOUS
  <2> QED
    BY <2>1 DEF GroupEvents
<1>6. CASE r[k].lost = {}
  BY <1>2, <1>4, <1>6
<1>7. CASE Cardinality(m \ r[k].lost) > 1
  BY <1>4, <1>7
<1> QED
  BY <1>5, <1>6, <1>7

\* What the step of the groups does, with the results r of AR: what was cut
\* is moved into the active prefix.
GroupsStepped(r, moved, s, n) ==
    /\ \A k \in ToSet(groupList) : r[k] \in GroupEvents(k)
    /\ moved = {k \in ToSet(groupList) :
                  r[k].event = "change" /\ groups[k].time + groups[k].dt > timeNextMin}
    /\ merger' = Selected(groupList, {k \in ToSet(groupList) : r[k].event \in {"merge", "destroy"}})
    /\ massive' = massive \ UNION {r[k].lost : k \in ToSet(groupList)}
    /\ groups' = [k \in Slots |->
                    IF k \in moved
                    THEN [member |-> groups[k].member, time |-> groups[k].time,
                          dt |-> timeNextMin - groups[k].time, next |-> timeNextMin]
                    ELSE groups[k]]
    /\ s = groupList' /\ n = nActG'
    /\ s \in Seq(Slots) /\ IsInjective(s) /\ ToSet(s) = ToSet(groupList)
    /\ Len(s) = Len(groupList) /\ n \in 0..Len(s)
    /\ \A q \in 1..n : s[q] \in moved \/ \E i \in 1..nActG : s[q] = groupList[i]
    /\ \A q \in n + 1..Len(s) : s[q] \notin moved
    /\ Follows(s, n, groupList, nActG)

\* What integrateGroupsOneStep does: a cut group is due at the next time.
LEMMA GroupStep ==
    ASSUME Inv, IntegrateGroupsOneStep
    PROVE  \E r, moved, s, n : GroupsStepped(r, moved, s, n)
<1>1. TypeOK /\ ListsOK /\ TimeInv /\ AtTop /\ merger = <<>>
  BY DEF Inv, IntegrateGroupsOneStep, AtTop, ListsOK
<1>2. PICK r :
          /\ \A k \in ToSet(groupList) : r[k] \in GroupEvents(k)
          /\ LET merged == {k \in ToSet(groupList) : r[k].event \in {"merge", "destroy"}}
                 cut(k) == /\ r[k].event = "change"
                           /\ groups[k].time + groups[k].dt > timeNextMin
                 moved == {k \in ToSet(groupList) : cut(k)}
             IN  /\ merger' = merger \o Selected(groupList, merged)
                 /\ massive' = massive \ UNION {r[k].lost : k \in ToSet(groupList)}
                 /\ groups' = [k \in Slots |->
                                 IF k \in moved
                                 THEN Restart(groups[k], groups[k].time, timeNextMin - groups[k].time)
                                 ELSE groups[k]]
                 /\ groupList' = MovedToFront(groupList, moved)
                 /\ nActG' = Min({nActG + Cardinality(moved), Len(groupList)})
  BY DEF IntegrateGroupsOneStep
<1>3. PICK moved : moved = {k \in ToSet(groupList) :
                              r[k].event = "change" /\ groups[k].time + groups[k].dt > timeNextMin}
  OBVIOUS
<1>4. PICK merged : merged = {k \in ToSet(groupList) : r[k].event \in {"merge", "destroy"}}
  OBVIOUS
<1>5. /\ merger' = merger \o Selected(groupList, merged)
      /\ massive' = massive \ UNION {r[k].lost : k \in ToSet(groupList)}
      /\ groups' = [k \in Slots |->
                      IF k \in moved
                      THEN Restart(groups[k], groups[k].time, timeNextMin - groups[k].time)
                      ELSE groups[k]]
      /\ groupList' = MovedToFront(groupList, moved)
      /\ nActG' = Min({nActG + Cardinality(moved), Len(groupList)})
  BY <1>2, <1>3, <1>4
<1>6. /\ groupList \in Seq(Slots) /\ IsInjective(groupList) /\ ToSet(groupList) \subseteq Slots
      /\ nActG \in 0..Len(groupList) /\ IsFiniteSet(Slots)
      /\ SortedDue(groupList, nActG) /\ timeNextMin \in Nat /\ time < timeNextMin
      /\ \A k \in ToSet(groupList) : OnGrid(Entry(k)) /\ Entry(k).time <= time
  <2>1. IsFiniteSet(Slots)
    <3> DEFINE n == Len(groups)
    <3>1. n \in Nat /\ Slots = 1..n
      BY <1>1, Kinds
    <3> HIDE DEF n
    <3> QED
      BY <3>1, FS_Interval
  <2>2. SortedDue(groupList, nActG)
    BY <1>1, SortedTop DEF TimeInv, AtTop
  <2> QED
    BY <1>1, <2>1, <2>2 DEF TypeOK, ListsOK, TimeInv, Chosen, AtTop, Listed, ToSet
<1>7. merger' = Selected(groupList, merged)
  <2>1. Selected(groupList, merged) \in Seq(Slots)
    BY <1>6, SelectedProps
  <2> QED
    BY <1>1, <1>5, <2>1
<1>8. \A k \in Slots : k \in moved =>
          Restart(groups[k], groups[k].time, timeNextMin - groups[k].time)
             = [member |-> groups[k].member, time |-> groups[k].time,
                dt |-> timeNextMin - groups[k].time, next |-> timeNextMin]
  <2> SUFFICES ASSUME NEW k \in Slots, k \in moved
               PROVE  Restart(groups[k], groups[k].time, timeNextMin - groups[k].time)
                         = [member |-> groups[k].member, time |-> groups[k].time,
                            dt |-> timeNextMin - groups[k].time, next |-> timeNextMin]
    OBVIOUS
  <2>1. groups[k] \in GroupEntry /\ groups[k].time \in Nat /\ groups[k].time <= time /\ time \in Nat
    BY <1>1, <1>3, <1>6, Kinds DEF TypeOK, GroupEntry
  <2>2. timeNextMin - groups[k].time \in Nat
        /\ groups[k].time + (timeNextMin - groups[k].time) = timeNextMin
    BY <1>6, <2>1
  <2> QED
    BY <2>1, <2>2, RestartGroup
\* What is due is not cut.
<1>9. \A i \in 1..nActG : groupList[i] \notin moved
  <2> SUFFICES ASSUME NEW i \in 1..nActG PROVE ~(groups[groupList[i]].time + groups[groupList[i]].dt > timeNextMin)
    BY <1>3
  <2>1. i \in DOMAIN groupList /\ i <= nActG
    BY <1>6
  <2>2. Entry(groupList[i]).next = timeNextMin
    BY <1>6, <2>1 DEF SortedDue
  <2>3. groupList[i] \in Slots /\ groupList[i] \in ToSet(groupList)
    BY <1>6, <2>1 DEF ToSet
  <2>4. Entry(groupList[i]) = groups[groupList[i]]
    BY <1>1, <2>3, Kinds
  <2>5. groups[groupList[i]].next = groups[groupList[i]].time + groups[groupList[i]].dt
    BY <1>6, <2>3, <2>4 DEF OnGrid
  <2> QED
    BY <1>6, <2>2, <2>4, <2>5
<1>10. PICK s, n : s = MovedToFront(groupList, moved)
                   /\ n = Min({nActG + Cardinality(moved), Len(groupList)})
  OBVIOUS
<1>11. moved \in SUBSET ToSet(groupList)
  BY <1>3
<1>12. /\ s \in Seq(Slots) /\ IsInjective(s) /\ ToSet(s) = ToSet(groupList) /\ Len(s) = Len(groupList)
       /\ n \in 0..Len(groupList)
       /\ \A q \in 1..n : s[q] \in moved \/ \E i \in 1..nActG : s[q] = groupList[i]
       /\ \A q \in n + 1..Len(groupList) : s[q] \notin moved
       /\ Follows(s, n, groupList, nActG)
  BY SMTT(20), <1>6, <1>9, <1>10, <1>11, MovedProps
<1>13. s = groupList' /\ n = nActG'
  BY <1>5, <1>10
<1>14. groups' = [k \in Slots |->
                    IF k \in moved
                    THEN [member |-> groups[k].member, time |-> groups[k].time,
                          dt |-> timeNextMin - groups[k].time, next |-> timeNextMin]
                    ELSE groups[k]]
  BY <1>5, <1>8
<1>15. /\ s = groupList' /\ n = nActG'
       /\ s \in Seq(Slots) /\ IsInjective(s) /\ ToSet(s) = ToSet(groupList)
       /\ Len(s) = Len(groupList) /\ n \in 0..Len(s)
       /\ \A q \in 1..n : s[q] \in moved \/ \E i \in 1..nActG : s[q] = groupList[i]
       /\ \A q \in n + 1..Len(s) : s[q] \notin moved
       /\ Follows(s, n, groupList, nActG)
  BY <1>12, <1>13
<1>16. merger' = Selected(groupList, {k \in ToSet(groupList) : r[k].event \in {"merge", "destroy"}})
  BY <1>4, <1>7
<1>17. \A k \in ToSet(groupList) : r[k] \in GroupEvents(k)
  BY <1>2
<1>18. GroupsStepped(r, moved, s, n)
  BY <1>3, <1>5, <1>14, <1>15, <1>16, <1>17 DEF GroupsStepped
<1> QED
  BY <1>18

\* integrateGroupsOneStep: groups that report a change inside their step become
\* active, those that merged wait for checkBreak.
LEMMA GroupsInv ==
    ASSUME Inv, IntegrateGroupsOneStep
    PROVE  Inv'
<1>1. TypeOK /\ ListsOK /\ MembersOK /\ AdjOK /\ TimeInv
  BY DEF Inv
<1>2. /\ pc = "integrateGroupsOneStep" /\ pc' = "integrateSingles" /\ time < TimeEnd
      /\ UNCHANGED <<stage, clock, ptcl, singles, nActS, nInitS, nInitG, tables, adj>>
  BY DEF IntegrateGroupsOneStep
<1>3. PICK r, moved, s, n : GroupsStepped(r, moved, s, n)
  BY GroupStep
<1>4. /\ \A k \in ToSet(groupList) : r[k] \in GroupEvents(k)
      /\ moved = {k \in ToSet(groupList) :
                    r[k].event = "change" /\ groups[k].time + groups[k].dt > timeNextMin}
      /\ merger' = Selected(groupList, {k \in ToSet(groupList) : r[k].event \in {"merge", "destroy"}})
      /\ massive' = massive \ UNION {r[k].lost : k \in ToSet(groupList)}
      /\ groups' = [k \in Slots |->
                      IF k \in moved
                      THEN [member |-> groups[k].member, time |-> groups[k].time,
                            dt |-> timeNextMin - groups[k].time, next |-> timeNextMin]
                      ELSE groups[k]]
      /\ s = groupList' /\ n = nActG'
      /\ s \in Seq(Slots) /\ IsInjective(s) /\ ToSet(s) = ToSet(groupList)
      /\ Len(s) = Len(groupList) /\ n \in 0..Len(s)
      /\ \A q \in 1..n : s[q] \in moved \/ \E i \in 1..nActG : s[q] = groupList[i]
      /\ \A q \in n + 1..Len(s) : s[q] \notin moved
      /\ Follows(s, n, groupList, nActG)
  BY <1>3 DEF GroupsStepped
<1>5. /\ Len(groups) \in Nat /\ Slots = 1..Len(groups) /\ \A k \in Slots : groups[k] \in GroupEntry
      /\ time \in Nat /\ timeNextMin \in Nat /\ time < timeNextMin /\ nInitS = 0 /\ nInitG = 0
      /\ \A x \in Listed : OnGrid(Entry(x)) /\ Entry(x).time <= time
      /\ Busy = ToSet(groupList) /\ ToSet(groupList) \subseteq Slots /\ Chosen
      /\ groupList \in Seq(Slots) /\ singles \in Seq(Particle) /\ IsInjective(groupList)
      /\ adj = NoAdjust
  BY <1>1, <1>2, Kinds DEF TypeOK, TimeInv, Chosen, ListsOK, Busy, AdjOK, Adjusting
<1>6. \A k \in moved : groups[k].time <= time /\ k \in Slots /\ groups[k].time \in Nat
  <2> SUFFICES ASSUME NEW k \in moved
               PROVE  groups[k].time <= time /\ k \in Slots /\ groups[k].time \in Nat
    OBVIOUS
  <2>1. k \in Slots /\ k \in Listed
    BY <1>4, <1>5 DEF Listed
  <2> QED
    BY <1>1, <1>5, <2>1, Kinds DEF GroupEntry
<1>7. /\ groups' \in Seq(GroupEntry) /\ Len(groups') = Len(groups) /\ DOMAIN groups' = Slots
      /\ \A k \in Slots : groups'[k].member = groups[k].member
  <2>1. ASSUME NEW k \in Slots
        PROVE  groups'[k] \in GroupEntry /\ groups'[k].member = groups[k].member
    <3>1. CASE k \in moved
      <4>1. timeNextMin - groups[k].time \in Nat
        BY <1>5, <1>6, <3>1
      <4> QED
        BY <1>4, <1>5, <1>6, <3>1, <4>1 DEF GroupEntry
    <3>2. CASE k \notin moved
      BY <1>4, <1>5, <3>2
    <3> QED
      BY <3>1, <3>2
  <2>2. groups' = [k \in 1..Len(groups) |-> groups'[k]]
    BY <1>4, <1>5
  <2> QED
    BY <1>4, <1>5, <2>1, <2>2
<1>8. merger' \in Seq(Slots) /\ IsInjective(merger')
      /\ ToSet(merger') = {k \in ToSet(groupList) : r[k].event \in {"merge", "destroy"}}
  <2> DEFINE T == {k \in ToSet(groupList) : r[k].event \in {"merge", "destroy"}}
  <2>1. T \subseteq ToSet(groupList) /\ merger' = Selected(groupList, T)
    BY <1>4
  <2> HIDE DEF T
  <2>2. merger' \in Seq(Slots) /\ IsInjective(merger') /\ ToSet(merger') = ToSet(groupList) \cap T
    BY <1>5, <2>1, SelectedProps
  <2> QED
    BY <2>1, <2>2 DEF T
<1>9. TypeOK'
  <2>1. pc' \in Calls /\ Slots' = Slots
    BY <1>2, <1>7 DEF Calls, Slots
  <2>2. nInitG' \in 0..nActG' /\ nActG' \in 0..Len(groupList') /\ groupList' \in Seq(Slots)
    BY <1>2, <1>4, <1>5
  <2>3. massive' \subseteq Particle
    BY <1>1, <1>4 DEF TypeOK
  <2>4. groups' \in Seq([member : SUBSET Particle, time : Nat, dt : Nat, next : Nat])
    BY <1>7 DEF GroupEntry
  <2> QED
    BY <1>1, <1>2, <1>8, <2>1, <2>2, <2>3, <2>4 DEF TypeOK, tables, clock
<1>10. \A k \in Busy : k \notin ToSet(merger') =>
           Cardinality(groups[k].member \cap massive') > 1
  <2> SUFFICES ASSUME NEW k \in Busy, k \notin ToSet(merger')
               PROVE  Cardinality(groups[k].member \cap massive') > 1
    OBVIOUS
  <2>1. k \in ToSet(groupList) /\ r[k].event \notin {"merge", "destroy"}
    BY <1>5, <1>8
  <2>2. Cardinality(groups[k].member \cap (massive \ UNION {r[l].lost : l \in ToSet(groupList)})) > 1
    BY <1>2, <1>4, <2>1, GroupsLeft
  <2> QED
    BY <1>4, <2>2
<1>11. ListsOK' /\ MembersOK'
  <2>1. ToSet(groupList') = ToSet(groupList) /\ IsInjective(groupList')
    BY <1>4
  <2>2. ToSet(singles') = ToSet(singles) /\ IsInjective(singles') /\ nInitS' = 0 /\ nInitG' = 0
    BY <1>1, <1>2, <1>5 DEF ListsOK
  <2>3. ToSet(merger') \subseteq ToSet(groupList)
    BY <1>8
  <2>4. DOMAIN groups' = DOMAIN groups
    BY <1>7 DEF Slots
  <2> QED
    BY <1>2, <1>7, <1>8, <1>10, <2>1, <2>2, <2>3, <2>4, SameStructure
<1>12. AdjOK'
  <2>1. massive' \subseteq massive /\ ToSet(groupList') = ToSet(groupList)
    BY <1>4
  <2> QED
    BY <1>2, <1>7, <2>1, SameAdj DEF Adjusting
<1>13. SortedDue(singles, nActS) /\ SortedDue(groupList, nActG)
  BY <1>1, <1>2, SortedTop DEF AtTop, TimeInv
<1>14. Leaving' = groupMask /\ nActS \in 0..Len(singles) /\ nActG \in 0..Len(groupList)
  BY <1>1, <1>2 DEF Leaving, tables, TypeOK
<1>15. \A x \in ToSet(singles') : x \in Particle /\ x \in Listed /\ Entry(x) = ptcl'[x]
  BY <1>1, <1>2, <1>5, Kinds DEF ToSet, Listed
<1>16. \A x \in ActiveS' : ptcl'[x].time + ptcl'[x].dt = timeNextMin /\ x \in Particle
  <2> SUFFICES ASSUME NEW x \in ActiveS'
               PROVE  ptcl'[x].time + ptcl'[x].dt = timeNextMin /\ x \in Particle
    OBVIOUS
  <2>1. PICK i \in 1..nActS : x = singles[i]
    <3>1. x \in ToSet(SubSeq(singles, 1, nActS))
      BY <1>2 DEF ActiveS
    <3>2. ToSet(SubSeq(singles, 1, nActS)) = {singles[i] : i \in 1..nActS}
      BY <1>5, <1>14, Prefix
    <3> QED
      BY <3>1, <3>2
  <2>2. i \in DOMAIN singles /\ x \in ToSet(singles') /\ i <= nActS
    BY <1>2, <1>5, <1>14, <2>1 DEF ToSet
  <2> QED
    BY <1>5, <1>13, <1>15, <2>1, <2>2 DEF SortedDue, OnGrid
<1>17. \A x \in ActiveG' : groups'[x].time + groups'[x].dt = timeNextMin /\ x \notin Particle
  <2> SUFFICES ASSUME NEW x \in ActiveG'
               PROVE  groups'[x].time + groups'[x].dt = timeNextMin /\ x \notin Particle
    OBVIOUS
  <2>1. PICK q \in 1..n : x = s[q]
    <3>1. x \in ToSet(SubSeq(s, 1, n))
      BY <1>4 DEF ActiveG
    <3>2. ToSet(SubSeq(s, 1, n)) = {s[q] : q \in 1..n}
      BY <1>4, Prefix
    <3> QED
      BY <3>1, <3>2
  <2>2. x \in ToSet(groupList)
    <3>1. q \in DOMAIN s
      BY <1>4, <2>1
    <3>2. x \in ToSet(s)
      BY <2>1, <3>1 DEF ToSet
    <3> QED
      BY <1>4, <3>2
  <2>3. x \in Slots /\ x \in Listed /\ x \notin Particle /\ Entry(x) = groups[x]
    BY <1>1, <1>5, <2>2, Kinds DEF Listed
  <2>4. CASE x \in moved
    BY <1>4, <1>5, <1>6, <2>3, <2>4
  <2>5. CASE x \notin moved
    <3>1. PICK i \in 1..nActG : x = groupList[i]
      BY <1>4, <2>1, <2>5
    <3>2. i \in DOMAIN groupList /\ i <= nActG
      BY <1>5, <1>14
    <3>3. groups[x].next = timeNextMin
      BY <1>13, <2>3, <3>1, <3>2 DEF SortedDue
    <3>4. groups'[x] = groups[x] /\ groups[x].next = groups[x].time + groups[x].dt
      BY <1>4, <1>5, <2>3, <2>5 DEF OnGrid
    <3> QED
      BY <2>3, <3>3, <3>4
  <2> QED
    BY <2>4, <2>5
\* What is not due is under way.
<1>18. Waiting(singles, nActS)'
  <2>1. \A i \in 1..Len(singles) :
           /\ singles[i] \in Particle /\ ptcl'[singles[i]] = Entry(singles[i])
           /\ OnGrid(Entry(singles[i])) /\ Entry(singles[i]).time < timeNextMin
    <3> SUFFICES ASSUME NEW i \in 1..Len(singles)
                 PROVE  /\ singles[i] \in Particle /\ ptcl'[singles[i]] = Entry(singles[i])
                        /\ OnGrid(Entry(singles[i])) /\ Entry(singles[i]).time < timeNextMin
      OBVIOUS
    <3>1. PICK p \in Particle : p = singles[i]
      BY <1>5
    <3>2. p \in ToSet(singles') /\ p \in Listed
      BY <1>2, <1>5, <3>1 DEF ToSet, Listed
    <3>3. ptcl'[p] = Entry(p) /\ OnGrid(Entry(p)) /\ Entry(p).time <= time /\ Entry(p).time \in Nat
      BY <1>1, <1>5, <1>15, <3>2, Kinds DEF ParticleEntry
    <3> QED
      BY <1>5, <3>1, <3>3
  <2>2. \A i \in nActS + 1..Len(singles) : i \in DOMAIN singles /\ ~(i <= nActS)
    BY <1>5, <1>14
  <2>3. singles' = singles /\ nActS' = nActS /\ timeNextMin' = timeNextMin /\ time' = time
    BY <1>2 DEF clock
  <2>4. \A i \in nActS + 1..Len(singles) : timeNextMin < Entry(singles[i]).next
    BY <1>13, <2>2 DEF SortedDue
  <2>5. \A i, j \in nActS + 1..Len(singles) : i < j =>
            /\ Entry(singles[i]).next <= Entry(singles[j]).next
            /\ Entry(singles[i]).dt <= Entry(singles[j]).dt
    BY <1>13, <2>2 DEF SortedDue
  <2> QED
    BY <2>1, <2>2, <2>3, <2>4, <2>5 DEF Waiting, OnGrid, Entry
<1>19. Waiting(groupList, nActG)'
  <2>1. PICK f \in [n + 1..Len(s) -> nActG + 1..Len(s)] :
           /\ \A q \in n + 1..Len(s) : s[q] = groupList[f[q]]
           /\ \A p, q \in n + 1..Len(s) : p < q => f[p] < f[q]
    BY SMTT(20), <1>4 DEF Follows
  <2>2. \A q \in n + 1..Len(s) :
           /\ s[q] \notin Particle /\ groups'[s[q]] = Entry(groupList[f[q]])
           /\ OnGrid(Entry(groupList[f[q]])) /\ Entry(groupList[f[q]]).time < timeNextMin
           /\ f[q] \in DOMAIN groupList /\ ~(f[q] <= nActG)
    <3> SUFFICES ASSUME NEW q \in n + 1..Len(s)
                 PROVE  /\ s[q] \notin Particle /\ groups'[s[q]] = Entry(groupList[f[q]])
                        /\ OnGrid(Entry(groupList[f[q]])) /\ Entry(groupList[f[q]]).time < timeNextMin
                        /\ f[q] \in DOMAIN groupList /\ ~(f[q] <= nActG)
      OBVIOUS
    <3>1. f[q] \in DOMAIN groupList /\ ~(f[q] <= nActG)
      BY SMTT(20), <1>4, <1>5, <1>14, <2>1
    <3>2. PICK k \in Slots : k = groupList[f[q]] /\ k = s[q] /\ k \in Listed
      BY <1>5, <2>1, <3>1 DEF ToSet, Listed
    <3>3. k \notin Particle /\ Entry(k) = groups[k] /\ Entry(k).time \in Nat
      BY <1>1, Kinds DEF GroupEntry
    <3>4. groups'[k] = groups[k]
      BY <1>4, <3>2
    <3>5. OnGrid(Entry(k)) /\ Entry(k).time < timeNextMin
      BY <1>5, <3>2, <3>3
    <3> QED
      BY <3>1, <3>2, <3>3, <3>4, <3>5
  <2>3. groupList' = s /\ nActG' = n /\ timeNextMin' = timeNextMin /\ time' = time
    BY <1>2, <1>4 DEF clock
  <2>4. \A q \in n + 1..Len(s) : timeNextMin < Entry(groupList[f[q]]).next
    BY <1>13, <2>2 DEF SortedDue
  <2>5. \A p, q \in n + 1..Len(s) : p < q =>
            /\ Entry(groupList[f[p]]).next <= Entry(groupList[f[q]]).next
            /\ Entry(groupList[f[p]]).dt <= Entry(groupList[f[q]]).dt
    BY <1>13, <2>1, <2>2 DEF SortedDue
  <2> QED
    BY <2>2, <2>3, <2>4, <2>5 DEF Waiting, OnGrid, Entry
<1>20. TimeInv'
  <2>1. \A x \in ActiveS' \cup ActiveG' : Entry(x)'.time + Entry(x)'.dt = timeNextMin'
    BY <1>2, <1>16, <1>17 DEF Entry, clock
  <2>2. Chosen' /\ time' < TimeEnd /\ Divides(Least, time)' /\ time' <= TimeEnd
    BY <1>1, <1>2, <1>5 DEF Chosen, TimeInv, clock
  <2> QED
    BY <1>2, <1>18, <1>19, <2>1, <2>2 DEF TimeInv, Turning, BrokenAtNow
<1> QED
  BY <1>9, <1>11, <1>12, <1>20 DEF Inv

\* An entry that is under way or just started, seen from the sort
InStep(e) ==
    /\ OnGrid(e) /\ e.time <= time /\ time < e.next /\ e.next < FloatMax
    /\ Divides(Least, e.next) /\ (time < TimeEnd => e.next <= TimeEnd)

\* An entry on its grid, with the clock inside its step
LEMMA InStepOf ==
    ASSUME NEW e, e.time \in Nat, e.dt \in Nat, OnGrid(e), e.time <= time, time < e.next,
           time \in Nat, time <= TimeEnd
    PROVE  InStep(e)
<1>1. PICK t \in Nat, d \in Steps : t = e.time /\ d = e.dt /\ Divides(d, t) /\ e.next = t + d
  BY DEF OnGrid
<1>2. d \in Nat /\ DtMax \in Nat /\ d <= DtMax /\ TimeEnd \in Nat /\ DtMax # 0
  BY LargestStep, StepsPositive, HermiteAssumption
<1>3. t + d \in Nat /\ Divides(d, t + d)
  BY <1>1, NextOnGrid
<1>4. Divides(Least, t + d)
  BY <1>3, LeastStep, OnFinerGrid
<1>5. FloatMax = TimeEnd + 2 * DtMax /\ t + d < FloatMax
  BY <1>1, <1>2 DEF FloatMax
<1>6. time < TimeEnd => t + d <= TimeEnd
  <2> SUFFICES ASSUME time < TimeEnd PROVE t + d <= TimeEnd
    OBVIOUS
  <2>1. t < TimeEnd /\ Divides(d, TimeEnd)
    BY <1>1, <1>2, HermiteAssumption
  <2> QED
    BY <1>1, <1>2, <2>1, GridApart
<1> QED
  BY <1>1, <1>4, <1>5, <1>6 DEF InStep

\* What has just been started is due before what is under way, with a
\* smaller step.
LEMMA StartedFirst ==
    ASSUME NEW e, NEW f, OnGrid(e), OnGrid(f), e.time \in Nat, f.time \in Nat,
           e.time = time, f.time < time, time < f.next
    PROVE  e.next <= f.next /\ e.dt <= f.dt
<1>1. PICK t \in Nat, d \in Steps : t = e.time /\ d = e.dt /\ Divides(d, t) /\ e.next = t + d
  BY DEF OnGrid
<1>2. PICK s \in Nat, c \in Steps : s = f.time /\ c = f.dt /\ Divides(c, s) /\ f.next = s + c
  BY DEF OnGrid
<1>3. s < t /\ t < s + c /\ d \in Nat /\ c \in Nat
  BY <1>1, <1>2, StepsPositive
<1>4. d < c
  BY <1>1, <1>2, <1>3, InsideIsFiner
<1>5. s + c \in Nat /\ Divides(d, s + c)
  BY <1>2, <1>3, <1>4, NextOnGrid, OnFinerGrid
<1>6. t + d <= s + c
  BY <1>1, <1>3, <1>5, GridApart
<1> QED
  BY <1>1, <1>2, <1>3, <1>4, <1>6

\* Sorting the prefix sorts the list.
LEMMA SortedOrder ==
    ASSUME NEW S, NEW list \in Seq(S), NEW n \in 0..Len(list), IsInjective(list),
           \A x \in S : Entry(x).time \in Nat /\ Entry(x).dt \in Nat /\ Entry(x).next \in Nat,
           time \in Nat, time <= TimeEnd, timeNextMin = time,
           \A i \in 1..Len(list) : list[i] \notin Leaving,
           Started(list, n, 0), Waiting(list, n),
           NEW s, s = SortedPrefix(list, n)
    PROVE  /\ s \in Seq(S) /\ Len(s) = Len(list) /\ ToSet(s) = ToSet(list) /\ IsInjective(s)
           /\ \A q, r \in DOMAIN s : q < r => /\ Entry(s[q]).next <= Entry(s[r]).next
                                              /\ Entry(s[q]).dt <= Entry(s[r]).dt
           /\ \A r \in DOMAIN s : InStep(Entry(s[r])) /\ Entry(s[r]).next \in Nat
<1> DEFINE L == Len(list)
<1>1. L \in Nat /\ DOMAIN list = 1..L /\ n \in 0..L /\ \A i \in 1..L : list[i] \in S
  OBVIOUS
<1>2. \A i \in 1..n : Entry(list[i]).next \in Nat
  BY <1>1
<1>3. /\ s \in Seq(S) /\ Len(s) = L
      /\ \A r \in n + 1..L : s[r] = list[r]
      /\ \A q, r \in 1..n : q < r => Entry(s[q]).next <= Entry(s[r]).next
  BY <1>2, SortedProps
<1>4. PICK f \in [1..L -> 1..L] :
         /\ \A r \in 1..L : s[r] = list[f[r]] /\ (r <= n <=> f[r] <= n)
         /\ \A q, r \in 1..L : f[q] = f[r] => q = r
         /\ \A i \in 1..L : \E r \in 1..L : f[r] = i
  BY <1>2, SortedProps
<1> HIDE DEF L
<1>5. DOMAIN s = 1..L
  BY <1>1, <1>3
<1>6. ToSet(s) = ToSet(list)
  BY <1>1, <1>4, <1>5 DEF ToSet
<1>7. IsInjective(s)
  BY <1>1, <1>4, <1>5 DEF IsInjective
<1>8. \A i \in 1..n : OnGrid(Entry(list[i])) /\ Entry(list[i]).time = time
  BY <1>1 DEF Started, L
<1>9. \A i \in n + 1..L : OnGrid(Entry(list[i])) /\ Entry(list[i]).time < time
                          /\ time < Entry(list[i]).next
  BY <1>1 DEF Waiting, L
<1>10. \A r \in 1..n : OnGrid(Entry(s[r])) /\ Entry(s[r]).time = time
  BY <1>1, <1>4, <1>8
<1>11. \A r \in n + 1..L : OnGrid(Entry(s[r])) /\ Entry(s[r]).time < time
                           /\ time < Entry(s[r]).next
  BY <1>3, <1>9
<1>12. \A r \in 1..L : /\ Entry(s[r]).time \in Nat /\ Entry(s[r]).dt \in Nat
                       /\ Entry(s[r]).next \in Nat
                       /\ r \in 1..n \/ r \in n + 1..L
  <2>1. \A r \in 1..L : s[r] \in S
    BY <1>1, <1>4
  <2>2. \A r \in 1..L : r \in 1..n \/ r \in n + 1..L
    BY <1>1
  <2> QED
    BY <2>1, <2>2
<1>13. \A r \in 1..L : InStep(Entry(s[r]))
  <2> SUFFICES ASSUME NEW r \in 1..L PROVE InStep(Entry(s[r]))
    OBVIOUS
  <2>1. PICK e : e = Entry(s[r])
    OBVIOUS
  <2>2. e.time \in Nat /\ e.dt \in Nat /\ OnGrid(e) /\ e.time <= time
    BY <1>10, <1>11, <1>12, <2>1
  <2>3. time < e.next
    <3>1. CASE r \in 1..n
      <4>1. e.dt \in Nat \ {0} /\ e.next = e.time + e.dt /\ e.time = time
        BY <1>10, <2>1, <2>2, <3>1, StepsPositive DEF OnGrid
      <4> QED
        BY <4>1
    <3>2. CASE r \in n + 1..L
      BY <1>11, <2>1, <3>2
    <3> QED
      BY <1>12, <3>1, <3>2
  <2> QED
    BY <2>1, <2>2, <2>3, InStepOf
<1>14. ASSUME NEW q \in 1..L, NEW r \in 1..L, q < r
       PROVE  /\ Entry(s[q]).next <= Entry(s[r]).next
              /\ Entry(s[q]).dt <= Entry(s[r]).dt
  <2>1. CASE r \in 1..n
    <3>1. q \in 1..n
      BY <1>1, <1>14, <2>1
    <3>2. Entry(s[q]).next <= Entry(s[r]).next
      BY <1>3, <1>14, <2>1, <3>1
    <3>3. PICK d \in Nat, e \in Nat : d = Entry(s[q]).dt /\ e = Entry(s[r]).dt
      BY <1>12
    <3>4. Entry(s[q]).next = time + d /\ Entry(s[r]).next = time + e
      BY <1>10, <2>1, <3>1, <3>3 DEF OnGrid
    <3> QED
      BY <3>2, <3>3, <3>4
  <2>2. CASE q \in n + 1..L
    <3>1. r \in n + 1..L
      BY <1>1, <1>14, <2>2
    <3>2. s[q] = list[q] /\ s[r] = list[r] /\ list[q] \notin Leaving /\ list[r] \notin Leaving
      BY <1>3, <2>2, <3>1 DEF L
    <3> QED
      BY <1>14, <2>2, <3>1, <3>2 DEF Waiting, L
  <2>3. CASE q \in 1..n /\ r \in n + 1..L
    <3>1. PICK e, g : e = Entry(s[q]) /\ g = Entry(s[r])
      OBVIOUS
    <3>2. OnGrid(e) /\ OnGrid(g) /\ e.time \in Nat /\ g.time \in Nat /\ e.time = time
          /\ g.time < time /\ time < g.next
      BY <1>10, <1>11, <1>12, <2>3, <3>1
    <3> QED
      BY <3>1, <3>2, StartedFirst
  <2> QED
    BY <1>12, <2>1, <2>2, <2>3
<1> QED
  BY <1>3, <1>5, <1>6, <1>7, <1>12, <1>13, <1>14 DEF L

\* The entries due at the next time are a prefix.
LEMMA DuePrefix ==
    ASSUME NEW S, NEW s \in Seq(S), \A x \in S : Entry(x).next \in Nat,
           \A q, r \in DOMAIN s : q < r => Entry(s[q]).next <= Entry(s[r]).next,
           NEW min \in Nat, \A r \in DOMAIN s : min <= Entry(s[r]).next,
           NEW later, later = {i \in DOMAIN s : min < Entry(s[i]).next}
    PROVE  LET d == IF later = {} THEN Len(s) ELSE Min(later) - 1
           IN  /\ d \in 0..Len(s)
               /\ \A i \in DOMAIN s : IF i <= d THEN Entry(s[i]).next = min
                                      ELSE Entry(s[i]).next > min
<1>1. DOMAIN s = 1..Len(s) /\ Len(s) \in Nat /\ \A i \in DOMAIN s : Entry(s[i]).next \in Nat
  OBVIOUS
<1>2. CASE later = {}
  <2>1. \A i \in DOMAIN s : ~(min < Entry(s[i]).next)
    BY <1>2
  <2>2. \A i \in DOMAIN s : Entry(s[i]).next = min /\ i <= Len(s)
    BY <1>1, <2>1
  <2> QED
    BY <1>1, <1>2, <2>2
<1>3. CASE later # {}
  <2>1. PICK m : m = Min(later)
    OBVIOUS
  <2>2. later \subseteq Nat
    BY <1>1
  <2>3. m \in later /\ \A i \in later : m <= i
    BY <1>3, <2>1, <2>2, MinOf
  <2>4. m \in 1..Len(s) /\ min < Entry(s[m]).next /\ m - 1 \in 0..Len(s)
    BY <1>1, <2>3
  <2>5. ASSUME NEW i \in DOMAIN s
        PROVE  IF i <= m - 1 THEN Entry(s[i]).next = min ELSE Entry(s[i]).next > min
    <3>1. CASE i <= m - 1
      <4>1. i \notin later
        BY <1>1, <2>3, <2>4, <3>1
      <4> QED
        BY <1>1, <3>1, <4>1
    <3>2. CASE ~(i <= m - 1)
      <4>1. i = m \/ m < i
        BY <1>1, <2>4, <3>2
      <4>2. Entry(s[m]).next <= Entry(s[i]).next
        BY <1>1, <2>4, <4>1
      <4> QED
        BY <1>1, <2>4, <3>2, <4>2
    <3> QED
      BY <3>1, <3>2
  <2> QED
    BY <1>3, <2>1, <2>4, <2>5
<1> QED
  BY <1>2, <1>3

\* The lists are sorted, the next time is the earliest that an entry is due.
SortedNow(list, n, s, d) ==
    /\ ToSet(s) = ToSet(list) /\ IsInjective(s) /\ d \in 0..Len(s)
    /\ \A q, r \in DOMAIN s : q < r => /\ Entry(s[q]).next <= Entry(s[r]).next
                                       /\ Entry(s[q]).dt <= Entry(s[r]).dt
    /\ \A r \in DOMAIN s : InStep(Entry(s[r])) /\ Entry(s[r]).next \in Nat

\* Something is due at the next time.
SomeDue(s, g, min) ==
    s # <<>> \/ g # <<>> => \E x \in ToSet(s) \cup ToSet(g) : Entry(x).next = min

\* What sortDtAndSelectActParticle does
LEMMA SortStep ==
    ASSUME Inv, SortDtAndSelectActParticle
    PROVE  \E s, g, min, dS, dG :
              /\ singles' = s /\ groupList' = g /\ timeNextMin' = min /\ nActS' = dS /\ nActG' = dG
              /\ s \in Seq(Particle) /\ g \in Seq(Slots) /\ min \in Nat
              /\ SortedNow(singles, nActS, s, dS) /\ SortedNow(groupList, nActG, g, dG)
              /\ \A i \in DOMAIN s : IF i <= dS THEN Entry(s[i]).next = min
                                     ELSE Entry(s[i]).next > min
              /\ \A i \in DOMAIN g : IF i <= dG THEN Entry(g[i]).next = min
                                     ELSE Entry(g[i]).next > min
              /\ pc' = IF s = <<>> /\ g = <<>> THEN "nothingActive" ELSE "integrateGroupsOneStep"
              /\ s # <<>> \/ g # <<>> =>
                    time < min /\ Divides(Least, min) /\ (time < TimeEnd => min <= TimeEnd)
              /\ SomeDue(s, g, min)
<1>1. TypeOK /\ ListsOK /\ TimeInv /\ pc = "sort"
  BY DEF Inv, SortDtAndSelectActParticle
<1>2. PICK s, g : s = SortedPrefix(singles, nActS) /\ g = SortedPrefix(groupList, nActG)
  OBVIOUS
<1>3. PICK heads : heads = {Entry(l[1]).next : l \in {s, g} \ {<<>>}}
  OBVIOUS
<1>4. PICK min : min = Min(heads \cup {FloatMax})
  OBVIOUS
<1>5. PICK laterS, laterG : /\ laterS = {i \in DOMAIN s : min < Entry(s[i]).next}
                            /\ laterG = {i \in DOMAIN g : min < Entry(g[i]).next}
  OBVIOUS
<1>6. PICK dS, dG : /\ dS = IF laterS = {} THEN Len(s) ELSE Min(laterS) - 1
                    /\ dG = IF laterG = {} THEN Len(g) ELSE Min(laterG) - 1
  OBVIOUS
<1>7. /\ singles' = s /\ groupList' = g /\ timeNextMin' = min /\ nActS' = dS /\ nActG' = dG
      /\ pc' = IF heads = {} THEN "nothingActive" ELSE "integrateGroupsOneStep"
  BY <1>2, <1>3, <1>4, <1>5, <1>6 DEF SortDtAndSelectActParticle
<1>8. /\ time \in Nat /\ time <= TimeEnd /\ timeNextMin = time /\ nInitS = 0 /\ nInitG = 0
      /\ Started(singles, nActS, 0) /\ Started(groupList, nActG, 0)
      /\ Waiting(singles, nActS) /\ Waiting(groupList, nActG) /\ Leaving = groupMask
      /\ singles \in Seq(Particle) /\ groupList \in Seq(Slots)
      /\ nActS \in 0..Len(singles) /\ nActG \in 0..Len(groupList)
      /\ IsInjective(singles) /\ IsInjective(groupList)
      /\ ToSet(groupList) \cap groupMask = {} /\ groupMask \subseteq Slots
  <2>1. nInitS = 0 /\ nInitG = 0
    BY <1>1 DEF ListsOK
  <2>2. /\ Started(singles, nActS, 0) /\ Started(groupList, nActG, 0)
        /\ Waiting(singles, nActS) /\ Waiting(groupList, nActG)
        /\ timeNextMin = time /\ time <= TimeEnd
    BY <1>1, <2>1 DEF TimeInv, Turning
  <2> QED
    BY <1>1, <2>1, <2>2 DEF TypeOK, ListsOK, Leaving
<1>9. /\ \A x \in Particle : /\ Entry(x).time \in Nat /\ Entry(x).dt \in Nat /\ Entry(x).next \in Nat
                             /\ x \notin Slots
      /\ \A x \in Slots : Entry(x).time \in Nat /\ Entry(x).dt \in Nat /\ Entry(x).next \in Nat
  BY <1>1, Kinds DEF ParticleEntry, GroupEntry
<1>10. /\ \A i \in 1..Len(singles) : singles[i] \notin Leaving
       /\ \A i \in 1..Len(groupList) : groupList[i] \notin Leaving
  BY <1>8, <1>9 DEF ToSet
<1>11. /\ s \in Seq(Particle) /\ ToSet(s) = ToSet(singles) /\ IsInjective(s)
       /\ \A q, r \in DOMAIN s : q < r => /\ Entry(s[q]).next <= Entry(s[r]).next
                                          /\ Entry(s[q]).dt <= Entry(s[r]).dt
       /\ \A r \in DOMAIN s : InStep(Entry(s[r])) /\ Entry(s[r]).next \in Nat
  BY <1>2, <1>8, <1>9, <1>10, SortedOrder
<1>12. /\ g \in Seq(Slots) /\ ToSet(g) = ToSet(groupList) /\ IsInjective(g)
       /\ \A q, r \in DOMAIN g : q < r => /\ Entry(g[q]).next <= Entry(g[r]).next
                                          /\ Entry(g[q]).dt <= Entry(g[r]).dt
       /\ \A r \in DOMAIN g : InStep(Entry(g[r])) /\ Entry(g[r]).next \in Nat
  BY <1>2, <1>8, <1>9, <1>10, SortedOrder
<1>13. /\ s # <<>> => 1 \in DOMAIN s /\ Entry(s[1]).next \in heads
       /\ g # <<>> => 1 \in DOMAIN g /\ Entry(g[1]).next \in heads
       /\ \A x \in heads : \/ 1 \in DOMAIN s /\ x = Entry(s[1]).next
                           \/ 1 \in DOMAIN g /\ x = Entry(g[1]).next
       /\ s = <<>> /\ g = <<>> => heads = {}
  <2>1. (s # <<>> => 1 \in DOMAIN s) /\ (g # <<>> => 1 \in DOMAIN g)
    BY <1>11, <1>12
  <2>2. s # <<>> => Entry(s[1]).next \in heads
    BY <1>3
  <2>3. g # <<>> => Entry(g[1]).next \in heads
    BY <1>3
  <2>4. \A x \in heads : (s # <<>> /\ x = Entry(s[1]).next) \/ (g # <<>> /\ x = Entry(g[1]).next)
    BY <1>3
  <2> QED
    BY <2>1, <2>2, <2>3, <2>4
<1>14. \A x \in heads : /\ x \in Nat /\ time < x /\ x < FloatMax /\ Divides(Least, x)
                        /\ time < TimeEnd => x <= TimeEnd
  BY <1>11, <1>12, <1>13 DEF InStep
<1>15. FloatMax \in Nat
  BY LargestStep, StepsPositive, HermiteAssumption DEF FloatMax
<1>16. min \in heads \cup {FloatMax} /\ min \in Nat /\ \A x \in heads : min <= x
  <2>1. heads \cup {FloatMax} \subseteq Nat /\ heads \cup {FloatMax} # {}
    BY <1>14, <1>15
  <2> QED
    BY <1>4, <2>1, MinOf
<1>17. heads # {} => min \in heads
  <2> SUFFICES ASSUME NEW x \in heads, min = FloatMax PROVE FALSE
    BY <1>16
  <2> QED
    BY <1>14, <1>15, <1>16
\* The head of a sorted list comes first.
<1>18. \A r \in DOMAIN s : min <= Entry(s[r]).next
  <2> SUFFICES ASSUME NEW r \in DOMAIN s PROVE min <= Entry(s[r]).next
    OBVIOUS
  <2>1. s # <<>> /\ (r = 1 \/ 1 < r)
    BY <1>11
  <2>2. 1 \in DOMAIN s /\ min <= Entry(s[1]).next /\ Entry(s[1]).next \in Nat
    BY <1>11, <1>13, <1>16, <2>1
  <2>3. Entry(s[1]).next <= Entry(s[r]).next /\ Entry(s[r]).next \in Nat
    BY <1>11, <2>1, <2>2
  <2> QED
    BY <1>16, <2>2, <2>3
<1>19. \A r \in DOMAIN g : min <= Entry(g[r]).next
  <2> SUFFICES ASSUME NEW r \in DOMAIN g PROVE min <= Entry(g[r]).next
    OBVIOUS
  <2>1. g # <<>> /\ (r = 1 \/ 1 < r)
    BY <1>12
  <2>2. 1 \in DOMAIN g /\ min <= Entry(g[1]).next /\ Entry(g[1]).next \in Nat
    BY <1>12, <1>13, <1>16, <2>1
  <2>3. Entry(g[1]).next <= Entry(g[r]).next /\ Entry(g[r]).next \in Nat
    BY <1>12, <2>1, <2>2
  <2> QED
    BY <1>16, <2>2, <2>3
<1>20. /\ dS \in 0..Len(s)
       /\ \A i \in DOMAIN s : IF i <= dS THEN Entry(s[i]).next = min ELSE Entry(s[i]).next > min
  BY <1>5, <1>6, <1>9, <1>11, <1>16, <1>18, DuePrefix
<1>21. /\ dG \in 0..Len(g)
       /\ \A i \in DOMAIN g : IF i <= dG THEN Entry(g[i]).next = min ELSE Entry(g[i]).next > min
  BY <1>5, <1>6, <1>9, <1>12, <1>16, <1>19, DuePrefix
<1>22. SortedNow(singles, nActS, s, dS) /\ SortedNow(groupList, nActG, g, dG)
  BY <1>11, <1>12, <1>20, <1>21 DEF SortedNow
<1>23. /\ pc' = IF s = <<>> /\ g = <<>> THEN "nothingActive" ELSE "integrateGroupsOneStep"
       /\ s # <<>> \/ g # <<>> =>
             time < min /\ Divides(Least, min) /\ (time < TimeEnd => min <= TimeEnd)
  BY <1>7, <1>13, <1>14, <1>17
<1>24. SomeDue(s, g, min)
  <2> SUFFICES ASSUME s # <<>> \/ g # <<>>
               PROVE  \E x \in ToSet(s) \cup ToSet(g) : Entry(x).next = min
    BY DEF SomeDue
  <2>1. min \in heads
    BY <1>13, <1>17
  <2>2. CASE 1 \in DOMAIN s /\ min = Entry(s[1]).next
    BY <2>2 DEF ToSet
  <2>3. CASE 1 \in DOMAIN g /\ min = Entry(g[1]).next
    BY <2>3 DEF ToSet
  <2> QED
    BY <1>13, <2>1, <2>2, <2>3
<1> QED
  BY <1>7, <1>11, <1>12, <1>16, <1>20, <1>21, <1>22, <1>23, <1>24

\* sortDtAndSelectActParticle: the lists are sorted and the next time is chosen.
LEMMA SortInv ==
    ASSUME Inv, SortDtAndSelectActParticle
    PROVE  Inv'
<1>1. TypeOK /\ ListsOK /\ MembersOK /\ AdjOK /\ TimeInv
  BY DEF Inv
<1>2. /\ pc = "sort" /\ stage' = "loop"
      /\ UNCHANGED <<time, dtLimit, massive, ptcl, groups, nInitS, nInitG, tables, merger, adj>>
  BY DEF SortDtAndSelectActParticle
<1>3. PICK s, g, min, dS, dG :
         /\ singles' = s /\ groupList' = g /\ timeNextMin' = min /\ nActS' = dS /\ nActG' = dG
         /\ s \in Seq(Particle) /\ g \in Seq(Slots) /\ min \in Nat
         /\ SortedNow(singles, nActS, s, dS) /\ SortedNow(groupList, nActG, g, dG)
         /\ \A i \in DOMAIN s : IF i <= dS THEN Entry(s[i]).next = min
                                ELSE Entry(s[i]).next > min
         /\ \A i \in DOMAIN g : IF i <= dG THEN Entry(g[i]).next = min
                                ELSE Entry(g[i]).next > min
         /\ pc' = IF s = <<>> /\ g = <<>> THEN "nothingActive" ELSE "integrateGroupsOneStep"
         /\ s # <<>> \/ g # <<>> =>
               time < min /\ Divides(Least, min) /\ (time < TimeEnd => min <= TimeEnd)
         /\ SomeDue(s, g, min)
  BY SortStep
<1>4. /\ ToSet(s) = ToSet(singles) /\ IsInjective(s) /\ dS \in 0..Len(s)
      /\ ToSet(g) = ToSet(groupList) /\ IsInjective(g) /\ dG \in 0..Len(g)
      /\ \A r \in DOMAIN s : InStep(Entry(s[r]))
      /\ \A r \in DOMAIN g : InStep(Entry(g[r]))
      /\ \A q, r \in DOMAIN s : q < r => /\ Entry(s[q]).next <= Entry(s[r]).next
                                         /\ Entry(s[q]).dt <= Entry(s[r]).dt
      /\ \A q, r \in DOMAIN g : q < r => /\ Entry(g[q]).next <= Entry(g[r]).next
                                         /\ Entry(g[q]).dt <= Entry(g[r]).dt
  BY <1>3 DEF SortedNow
<1>5. nInitS = 0 /\ nInitG = 0 /\ merger = <<>> /\ pc' \in {"nothingActive", "integrateGroupsOneStep"}
  BY <1>1, <1>2, <1>3 DEF ListsOK
<1>6. TypeOK'
  <2>1. Slots' = Slots /\ pc' \in Calls
    BY <1>2, <1>5 DEF Slots, Calls
  <2>2. nActS' \in 0..Len(singles') /\ nActG' \in 0..Len(groupList')
    BY <1>3, <1>4
  <2>3. nInitS' \in 0..nActS' /\ nInitG' \in 0..nActG'
    BY <1>2, <1>3, <1>4, <1>5
  <2> QED
    BY <1>1, <1>2, <1>3, <2>1, <2>2, <2>3 DEF TypeOK, tables
<1>7. ListsOK' /\ MembersOK'
  <2>1. /\ ToSet(singles') = ToSet(singles) /\ IsInjective(singles')
        /\ ToSet(groupList') = ToSet(groupList) /\ IsInjective(groupList')
    BY <1>3, <1>4
  <2>2. /\ merger' = <<>> /\ IsInjective(merger') /\ ToSet(merger') \subseteq ToSet(groupList)
        /\ ToSet(merger) = ToSet(merger') /\ adj' = adj
    BY <1>1, <1>2, <1>5 DEF ListsOK
  <2>3. \A k \in Busy : k \notin ToSet(merger') \cup ToSet(adj'.brk) =>
               Cardinality(groups[k].member \cap massive') > 1
    BY <1>1, <1>2, <2>2 DEF MembersOK, Broken
  <2> QED
    BY <1>2, <1>5, <2>1, <2>2, <2>3, SameStructure
<1>8. AdjOK'
  BY <1>2, <1>3, <1>4, <1>5, SameAdj DEF Adjusting
<1>9. Divides(Least, time) /\ time <= TimeEnd
  BY <1>1 DEF TimeInv
<1>10. CASE pc' = "nothingActive"
  <2>1. TimeInv'
    BY <1>2, <1>9, <1>10 DEF TimeInv, Turning, BrokenAtNow
  <2> QED
    BY <1>6, <1>7, <1>8, <2>1 DEF Inv
<1>11. CASE pc' = "integrateGroupsOneStep"
  <2>1. Chosen'
    <3>1. s # <<>> \/ g # <<>>
      BY <1>3, <1>11
    <3> QED
      BY <1>2, <1>3, <3>1 DEF Chosen
  <2>2. \A x \in Listed : OnGrid(Entry(x)) /\ Entry(x).time <= time
    BY <1>4 DEF Listed, ToSet, InStep
  <2>3. Listed' = Listed
    BY <1>3, <1>4 DEF Listed
  <2>4. \A x \in Listed' : OnGrid(Entry(x))' /\ Entry(x)'.time <= time'
    BY <1>2, <2>2, <2>3 DEF OnGrid, Entry
  <2>5. AtTop'
    BY <1>11 DEF AtTop
  <2>6. SortedDue(singles, nActS)'
    BY <1>2, <1>3, <1>4 DEF SortedDue, Entry
  <2>7. SortedDue(groupList, nActG)'
    BY <1>2, <1>3, <1>4 DEF SortedDue, Entry
  <2>8. SortedLists'
    <3>1. TypeOK' /\ AtTop' =>
             (SortedLists' <=> SortedDue(singles, nActS)' /\ SortedDue(groupList, nActG)')
      BY SortedTop, PTL
    <3> QED
      BY <1>6, <2>5, <2>6, <2>7, <3>1
  <2>9. TimeInv'
    BY <1>2, <1>9, <1>11, <2>1, <2>4, <2>8 DEF TimeInv, Turning, BrokenAtNow
  <2> QED
    BY <1>6, <1>7, <1>8, <2>9 DEF Inv
<1> QED
  BY <1>5, <1>10, <1>11

-----------------------------------------------------------------------------
(* adjustGroups: what is to be broken, and the search for new groups       *)

\* checkBreak halves no step: the next time is the clock already.
LEMMA CheckBreakStep ==
    ASSUME Inv, CheckBreak
    PROVE  /\ UNCHANGED <<groups, groupList, timeNextMin, nActG>>
           /\ \E brk, a : /\ brk \in Seq(Slots) /\ IsInjective(brk) /\ a = adj'
                          /\ ToSet(merger) \subseteq ToSet(brk) /\ ToSet(brk) \subseteq ToSet(groupList)
                          /\ a = [brk |-> brk, noAdd |-> <<>>, newGroup |-> <<>>, newSingle |-> <<>>,
                                  used |-> [x \in Particle \cup Slots |->
                                              IF x \in singleMask \cup groupMask \cup ToSet(brk)
                                              THEN -2 ELSE -1],
                                  cursor |-> 1]
<1>1. TypeOK /\ ListsOK /\ TimeInv /\ pc = "checkBreak"
  BY DEF Inv, CheckBreak
<1>2. PICK escape \in SUBSET (ToSet(groupList) \ ToSet(merger)) :
         \E marginal \in SUBSET (ToSet(groupList) \ (ToSet(merger) \cup escape)) :
            LET brk == merger \o Selected(groupList, escape)
                h == Halved(marginal)
                barred == singleMask \cup groupMask \cup ToSet(brk)
            IN  /\ groups' = h.groups
                /\ groupList' = h.list
                /\ timeNextMin' = h.nextMin
                /\ nActG' = h.nAct
                /\ adj' = [NoAdjust EXCEPT
                             !.brk = brk,
                             !.used = [x \in Particle \cup Slots |-> IF x \in barred THEN -2 ELSE -1]]
  BY DEF CheckBreak
<1>21. PICK marginal \in SUBSET (ToSet(groupList) \ (ToSet(merger) \cup escape)) :
         LET brk == merger \o Selected(groupList, escape)
             h == Halved(marginal)
             barred == singleMask \cup groupMask \cup ToSet(brk)
         IN  /\ groups' = h.groups
             /\ groupList' = h.list
             /\ timeNextMin' = h.nextMin
             /\ nActG' = h.nAct
             /\ adj' = [NoAdjust EXCEPT
                          !.brk = brk,
                          !.used = [x \in Particle \cup Slots |-> IF x \in barred THEN -2 ELSE -1]]
  BY <1>2
<1> DEFINE brk == merger \o Selected(groupList, escape)
           h == Halved(marginal)
           used == [x \in Particle \cup Slots |->
                      IF x \in singleMask \cup groupMask \cup ToSet(brk) THEN -2 ELSE -1]
<1>3. /\ marginal \subseteq ToSet(groupList)
      /\ brk = merger \o Selected(groupList, escape)
      /\ used = [x \in Particle \cup Slots |->
                   IF x \in singleMask \cup groupMask \cup ToSet(brk) THEN -2 ELSE -1]
      /\ h = Halved(marginal)
      /\ groups' = h.groups /\ groupList' = h.list /\ timeNextMin' = h.nextMin /\ nActG' = h.nAct
      /\ adj' = [NoAdjust EXCEPT !.brk = brk, !.used = used]
  BY <1>21
<1> HIDE DEF brk, h, used
\* The clock has reached the next time: nothing is late enough to be halved.
<1>4. h = Unreduced
  <2>1. timeNextMin = time /\ time \in Nat
    BY <1>1 DEF TimeInv, Turning, TypeOK
  <2>2. ASSUME NEW k \in marginal PROVE timeNextMin <= time + groups[k].dt
    <3>1. k \in Slots
      BY <1>1, <1>3, <2>2 DEF TypeOK, ToSet
    <3>2. groups[k].dt \in Nat
      BY <1>1, <3>1, Kinds DEF GroupEntry
    <3> QED
      BY <2>1, <3>2
  <2> QED
    BY <1>3, <2>2 DEF Halved
<1>5. UNCHANGED <<groups, groupList, timeNextMin, nActG>>
  BY <1>3, <1>4 DEF Unreduced
<1>6. /\ brk \in Seq(Slots) /\ IsInjective(brk)
      /\ ToSet(brk) = ToSet(merger) \cup (ToSet(groupList) \cap escape)
  <2> DEFINE e == Selected(groupList, escape)
  <2>1. /\ groupList \in Seq(Slots) /\ IsInjective(groupList) /\ merger \in Seq(Slots)
        /\ IsInjective(merger)
    BY <1>1 DEF TypeOK, ListsOK
  <2>2. e \in Seq(Slots) /\ IsInjective(e) /\ ToSet(e) = ToSet(groupList) \cap escape
    BY <2>1, SelectedProps
  <2>3. ToSet(merger) \cap ToSet(e) = {} /\ brk = merger \o e
    BY <1>2, <1>3, <2>2
  <2> HIDE DEF e
  <2> QED
    BY <2>1, <2>2, <2>3, Joined
<1>7. ToSet(brk) \subseteq ToSet(groupList)
  BY <1>1, <1>6 DEF ListsOK
<1>8. adj' = [brk |-> brk, noAdd |-> <<>>, newGroup |-> <<>>, newSingle |-> <<>>,
              used |-> used, cursor |-> 1]
  <2>1. adj' = [[NoAdjust EXCEPT !.brk = brk] EXCEPT !.used = used]
    BY <1>3
  <2>2. [NoAdjust EXCEPT !.brk = brk] = [brk |-> brk, noAdd |-> <<>>, newGroup |-> <<>>,
                                         newSingle |-> <<>>, used |-> <<>>, cursor |-> 1]
    BY DEF NoAdjust
  <2>3. [[brk |-> brk, noAdd |-> <<>>, newGroup |-> <<>>, newSingle |-> <<>>, used |-> <<>>,
          cursor |-> 1] EXCEPT !.used = used]
           = [brk |-> brk, noAdd |-> <<>>, newGroup |-> <<>>, newSingle |-> <<>>, used |-> used,
              cursor |-> 1]
    OBVIOUS
  <2> QED
    BY <2>1, <2>2, <2>3
<1>9. PICK a : a = adj'
  OBVIOUS
<1>10. a = [brk |-> brk, noAdd |-> <<>>, newGroup |-> <<>>, newSingle |-> <<>>,
            used |-> [x \in Particle \cup Slots |->
                        IF x \in singleMask \cup groupMask \cup ToSet(brk) THEN -2 ELSE -1],
            cursor |-> 1]
  BY <1>3, <1>8, <1>9
<1> QED
  BY <1>5, <1>6, <1>7, <1>9, <1>10

\* checkBreak: the groups to break are listed, each once.
LEMMA CheckBreakInv ==
    ASSUME Inv, CheckBreak
    PROVE  Inv'
<1>1. TypeOK /\ ListsOK /\ MembersOK /\ AdjOK /\ TimeInv
  BY DEF Inv
<1>2. /\ pc = "checkBreak" /\ pc' = "checkNewGroup" /\ merger' = <<>>
      /\ UNCHANGED <<stage, time, dtLimit, massive, ptcl, singles, nActS, nInitS, nInitG, tables>>
      /\ UNCHANGED <<groups, groupList, timeNextMin, nActG>>
  BY CheckBreakStep DEF CheckBreak
<1>3. PICK brk, a :
         /\ brk \in Seq(Slots) /\ IsInjective(brk) /\ a = adj'
         /\ ToSet(merger) \subseteq ToSet(brk) /\ ToSet(brk) \subseteq ToSet(groupList)
         /\ a = [brk |-> brk, noAdd |-> <<>>, newGroup |-> <<>>, newSingle |-> <<>>,
                 used |-> [x \in Particle \cup Slots |->
                             IF x \in singleMask \cup groupMask \cup ToSet(brk) THEN -2 ELSE -1],
                 cursor |-> 1]
  BY CheckBreakStep
<1>4. /\ a.brk = brk /\ a.noAdd = <<>> /\ a.newGroup = <<>> /\ a.newSingle = <<>> /\ a.cursor = 1
      /\ \A x \in Particle \cup Slots :
            a.used[x] = IF x \in singleMask \cup groupMask \cup ToSet(brk) THEN -2 ELSE -1
      /\ a \in AdjShape
  <2>1. a.brk = brk /\ a.noAdd = <<>> /\ a.newGroup = <<>> /\ a.newSingle = <<>> /\ a.cursor = 1
    BY <1>3
  <2>2. a.used = [x \in Particle \cup Slots |->
                    IF x \in singleMask \cup groupMask \cup ToSet(brk) THEN -2 ELSE -1]
    BY <1>3
  <2>3. a.used \in [Particle \cup Slots -> Int]
    BY <2>2
  <2>4. <<>> \in Seq(Slots)
    OBVIOUS
  <2>5. <<>> \in Seq(SUBSET Particle)
    OBVIOUS
  <2>6. <<>> \in Seq(Particle)
    OBVIOUS
  <2>7. a = [brk |-> brk, noAdd |-> <<>>, newGroup |-> <<>>, newSingle |-> <<>>, used |-> a.used,
             cursor |-> 1]
    BY <1>3, <2>2
  <2>8. a \in AdjShape
    BY <1>3, <2>3, <2>4, <2>5, <2>6, <2>7 DEF AdjShape
  <2> QED
    BY <2>1, <2>2, <2>8
<1>5. TypeOK'
  <2>1. <<>> \in Seq(Slots)
    OBVIOUS
  <2>2. Slots' = Slots /\ pc' \in Calls
    BY <1>2 DEF Slots, Calls
  <2> QED
    BY <1>1, <1>2, <2>1, <2>2 DEF TypeOK, tables
<1>6. adj = NoAdjust /\ Broken = {} /\ massive \subseteq ToSet(singles) \cup Grouped
  BY <1>1, <1>2 DEF AdjOK, Adjusting, TablesSettled, NoAdjust, Broken, ToSet
<1>7. ListsOK' /\ MembersOK'
  <2>1. IsInjective(merger') /\ ToSet(merger') = {}
    BY <1>2 DEF IsInjective, ToSet
  <2>2. \A k \in Busy : k \notin ToSet(merger') \cup ToSet(adj'.brk) =>
               Cardinality(groups[k].member \cap massive') > 1
    BY <1>1, <1>2, <1>3, <1>4, <1>6 DEF MembersOK
  <2>3. nInitS' = 0 /\ nInitG' = 0 /\ IsInjective(singles) /\ IsInjective(groupList)
    BY <1>1, <1>2 DEF ListsOK
  <2> QED
    BY <1>2, <2>1, <2>2, <2>3, SameStructure
<1>8. Found(a)
  <2>1. DOMAIN a.newGroup = {} /\ Len(a.newGroup) = 0 /\ ToSet(a.noAdd) = {} /\ IsInjective(a.noAdd)
    BY <1>4 DEF ToSet, IsInjective
  <2>2. \A x \in Particle \cup Slots : /\ a.used[x] \in -2..Len(a.newGroup) - 1 /\ ~(a.used[x] >= 0)
                                       /\ a.used[x] = -2 <=> x \in singleMask \cup groupMask \cup ToSet(brk)
    BY <1>4, <2>1
  <2> QED
    BY <1>4, <2>1, <2>2 DEF Found, Search
<1>9. Found(a)'
  BY <1>2, <1>8 DEF Found, Search, Joiners, Members, Listed, Slots, tables
<1>10. AdjOK'
  <2>1. a.newGroup = <<>> /\ Formed(a)'
    BY <1>4 DEF Formed
  <2>2. Busy' = Busy /\ Grouped' = Grouped
    BY <1>2 DEF Busy, Grouped, tables
  <2>3. TablesSettled' => massive' \subseteq ToSet(singles') \cup Grouped'
    BY <1>2, <1>6, <2>2
  <2>4. a \in AdjShape'
    BY <1>2, <1>4 DEF AdjShape, Slots
  <2>5. /\ IsInjective(a.brk) /\ IsInjective(a.noAdd) /\ ToSet(a.brk) \cap ToSet(a.noAdd) = {}
        /\ ToSet(a.brk) \cup ToSet(a.noAdd) \subseteq ToSet(groupList')
        /\ IsInjective(a.newSingle) /\ ToSet(a.newSingle) \cap UNION ToSet(a.newGroup) = {}
    BY <1>2, <1>3, <1>4 DEF ToSet, IsInjective
  <2>6. /\ Broken' = ToSet(a.brk) /\ NotAdded' = ToSet(a.noAdd) /\ Taken' = UNION ToSet(a.newGroup)
    BY <1>3 DEF Broken, NotAdded, Taken
  <2> QED
    BY <1>2, <1>3, <1>9, <2>1, <2>3, <2>4, <2>5, <2>6 DEF AdjOK, Adjusting
<1>11. TimeInv'
  <2>1. Leaving = groupMask /\ Leaving' = groupMask
    BY <1>2 DEF Leaving, tables
  <2>2. /\ Waiting(singles, nActS) /\ Waiting(groupList, nActG)
        /\ Started(singles, nActS, nInitS) /\ Started(groupList, nActG, nInitG)
        /\ timeNextMin = time /\ Divides(Least, time) /\ time <= TimeEnd
    BY <1>1, <1>2 DEF TimeInv, Turning
  <2>3. /\ Waiting(singles, nActS)' /\ Waiting(groupList, nActG)'
        /\ Started(singles, nActS, nInitS)' /\ Started(groupList, nActG, nInitG)'
    BY <1>1, <1>2, <2>1, <2>2, ListsKept DEF lists
  <2> QED
    BY <1>2, <2>2, <2>3 DEF TimeInv, Turning, BrokenAtNow
<1> QED
  BY <1>5, <1>7, <1>10, <1>11 DEF Inv

-----------------------------------------------------------------------------
(* adjustGroups: candidates join                                           *)

\* A set with two elements
LEMMA Several ==
    ASSUME NEW S, IsFiniteSet(S), NEW x \in S, NEW y \in S, x # y
    PROVE  Cardinality(S) > 1
<1>1. Cardinality(S) \in Nat
  BY FS_CardinalityType
<1>2. Cardinality(S) # 0
  BY FS_EmptySet
<1>3. Cardinality(S) # 1
  <2> SUFFICES ASSUME Cardinality(S) = 1 PROVE FALSE
    OBVIOUS
  <2>1. PICK z : S = {z}
    BY FS_Singleton
  <2> QED
    BY <2>1
<1> QED
  BY <1>1, <1>2, <1>3

\* Sets of particles are finite.
LEMMA FiniteParts ==
    ASSUME NEW S \in SUBSET Particle
    PROVE  IsFiniteSet(S) /\ Cardinality(S) \in Nat
BY HermiteAssumption, FS_Subset, FS_CardinalityType

\* A set that holds another one has at least as many elements.
LEMMA MoreIn ==
    ASSUME NEW S \in SUBSET Particle, NEW T \in SUBSET S
    PROVE  Cardinality(T) <= Cardinality(S)
BY FiniteParts, FS_Subset

\* What is listed and not masked shares no member.
LEMMA Apart ==
    ASSUME TypeOK, MembersOK, NEW x \in Listed, NEW y \in Listed, x # y,
           x \notin singleMask \cup groupMask, y \notin singleMask \cup groupMask
    PROVE  Members(x) \cap Members(y) = {}
<1>1. /\ \A k \in Slots : k \notin Particle /\ Members(k) = groups[k].member
      /\ \A p \in Particle : p \notin Slots /\ Members(p) = {p}
  BY Kinds
<1>2. ToSet(singles) \subseteq Particle /\ ToSet(groupList) \subseteq Slots
  BY DEF TypeOK, ToSet
<1>21. \A k \in Slots : k \in Listed /\ k \notin groupMask => k \in Busy
  BY <1>1, <1>2 DEF Listed, Busy
<1>22. \A k \in Busy : groups[k].member \subseteq singleMask
  BY DEF MembersOK
<1>3. x \in Slots => x \in Busy /\ Members(x) \subseteq singleMask
  BY <1>1, <1>21, <1>22
<1>4. y \in Slots => y \in Busy /\ Members(y) \subseteq singleMask
  BY <1>1, <1>21, <1>22
<1>5. (x \in Slots \/ x \in Particle) /\ (y \in Slots \/ y \in Particle)
  BY <1>2 DEF Listed
<1>6. CASE x \in Slots /\ y \in Slots
  BY <1>1, <1>3, <1>4, <1>6 DEF MembersOK
<1>7. CASE x \in Particle \/ y \in Particle
  BY <1>1, <1>3, <1>4, <1>5, <1>7
<1> QED
  BY <1>5, <1>6, <1>7

\* A sequence with one element replaced
LEMMA Replaced ==
    ASSUME NEW S, NEW s \in Seq(S), NEW i \in DOMAIN s, NEW v \in S
    PROVE  /\ [s EXCEPT ![i] = v] \in Seq(S) /\ Len([s EXCEPT ![i] = v]) = Len(s)
           /\ DOMAIN [s EXCEPT ![i] = v] = DOMAIN s
           /\ \A j \in DOMAIN s : [s EXCEPT ![i] = v][j] = IF j = i THEN v ELSE s[j]
<1> DEFINE n == Len(s)
           u == [j \in 1..n |-> IF j = i THEN v ELSE s[j]]
<1>1. n \in Nat /\ DOMAIN s = 1..n /\ \A j \in 1..n : s[j] \in S
  OBVIOUS
<1>2. [s EXCEPT ![i] = v] = u
  OBVIOUS
<1> HIDE DEF n
<1>3. u \in Seq(S) /\ Len(u) = n /\ DOMAIN u = 1..n
  BY <1>1
<1> QED
  BY <1>1, <1>2, <1>3 DEF n

\* One more joins new group g.
LEMMA JoinIs ==
    ASSUME NEW a \in AdjShape, NEW g \in Int, NEW x
    PROVE  Join(a, g, x) = [brk |-> a.brk,
                            noAdd |-> IF x \in Slots THEN Append(a.noAdd, x) ELSE a.noAdd,
                            newGroup |-> [a.newGroup EXCEPT ![g + 1] = @ \cup Members(x)],
                            newSingle |-> a.newSingle,
                            used |-> [a.used EXCEPT ![x] = g],
                            cursor |-> a.cursor]
<1> DEFINE n == [a.newGroup EXCEPT ![g + 1] = @ \cup Members(x)]
           u == [a.used EXCEPT ![x] = g]
           v == IF x \in Slots THEN Append(a.noAdd, x) ELSE a.noAdd
<1>1. a = [brk |-> a.brk, noAdd |-> a.noAdd, newGroup |-> a.newGroup, newSingle |-> a.newSingle,
           used |-> a.used, cursor |-> a.cursor]
  BY DEF AdjShape
<1>2. Join(a, g, x) = [[[a EXCEPT !.newGroup = n] EXCEPT !.used = u] EXCEPT !.noAdd = v]
  BY <1>1 DEF Join
<1> HIDE DEF n, u, v
<1>3. [a EXCEPT !.newGroup = n]
         = [brk |-> a.brk, noAdd |-> a.noAdd, newGroup |-> n, newSingle |-> a.newSingle,
            used |-> a.used, cursor |-> a.cursor]
  BY <1>1
<1>4. [[brk |-> a.brk, noAdd |-> a.noAdd, newGroup |-> n, newSingle |-> a.newSingle,
        used |-> a.used, cursor |-> a.cursor] EXCEPT !.used = u]
         = [brk |-> a.brk, noAdd |-> a.noAdd, newGroup |-> n, newSingle |-> a.newSingle,
            used |-> u, cursor |-> a.cursor]
  OBVIOUS
<1>5. [[brk |-> a.brk, noAdd |-> a.noAdd, newGroup |-> n, newSingle |-> a.newSingle,
        used |-> u, cursor |-> a.cursor] EXCEPT !.noAdd = v]
         = [brk |-> a.brk, noAdd |-> v, newGroup |-> n, newSingle |-> a.newSingle,
            used |-> u, cursor |-> a.cursor]
  OBVIOUS
<1>6. Join(a, g, x) = [brk |-> a.brk, noAdd |-> v, newGroup |-> n, newSingle |-> a.newSingle,
                       used |-> u, cursor |-> a.cursor]
  BY <1>2, <1>3, <1>4, <1>5
<1> QED
  BY <1>6 DEF n, u, v

\* One more joins a new group (the assignment in insertParticleIndexToGroup).
LEMMA Joining ==
    ASSUME TypeOK, NEW a \in AdjShape, Search(a), NEW g \in Int, g + 1 \in DOMAIN a.newGroup,
           NEW x \in Listed, a.used[x] = -1, x \in Particle => x \in massive
    PROVE  LET b == Join(a, g, x)
           IN  /\ b \in AdjShape /\ Search(b) /\ b.brk = a.brk /\ b.cursor = a.cursor
               /\ DOMAIN b.newGroup = DOMAIN a.newGroup
               /\ \A y \in Particle \cup Slots : b.used[y] = IF y = x THEN g ELSE a.used[y]
<1> DEFINE b == Join(a, g, x)
<1>1. /\ \A k \in Slots : k \notin Particle /\ Members(k) = groups[k].member /\ Members(k) \subseteq Particle
      /\ \A p \in Particle : p \notin Slots /\ Members(p) = {p}
  BY Kinds DEF GroupEntry
<1>2. x \in Particle \cup Slots /\ Members(x) \subseteq Particle
  BY <1>1 DEF TypeOK, Listed, ToSet
<1>3. /\ a.newGroup \in Seq(SUBSET Particle) /\ a.used \in [Particle \cup Slots -> Int]
      /\ a.noAdd \in Seq(Slots) /\ a.cursor \in Nat \ {0} /\ a.brk \in Seq(Slots)
      /\ a.newSingle \in Seq(Particle)
      /\ DOMAIN a.newGroup = 1..Len(a.newGroup) /\ Len(a.newGroup) \in Nat
  BY DEF AdjShape
<1>4. b = [brk |-> a.brk, noAdd |-> IF x \in Slots THEN Append(a.noAdd, x) ELSE a.noAdd,
           newGroup |-> [a.newGroup EXCEPT ![g + 1] = @ \cup Members(x)],
           newSingle |-> a.newSingle, used |-> [a.used EXCEPT ![x] = g], cursor |-> a.cursor]
  BY JoinIs
<1>5. /\ b.brk = a.brk /\ b.noAdd = (IF x \in Slots THEN Append(a.noAdd, x) ELSE a.noAdd)
      /\ b.newGroup = [a.newGroup EXCEPT ![g + 1] = @ \cup Members(x)]
      /\ b.newSingle = a.newSingle /\ b.used = [a.used EXCEPT ![x] = g] /\ b.cursor = a.cursor
      /\ b = [brk |-> b.brk, noAdd |-> b.noAdd, newGroup |-> b.newGroup, newSingle |-> b.newSingle,
              used |-> b.used, cursor |-> b.cursor]
  BY <1>4
<1> HIDE DEF b
<1>6. /\ \A y \in Particle \cup Slots : b.used[y] = IF y = x THEN g ELSE a.used[y]
      /\ b.used \in [Particle \cup Slots -> Int]
  BY <1>2, <1>3, <1>5
<1>7. /\ b.newGroup \in Seq(SUBSET Particle) /\ Len(b.newGroup) = Len(a.newGroup)
      /\ DOMAIN b.newGroup = DOMAIN a.newGroup
      /\ \A h \in DOMAIN a.newGroup :
            b.newGroup[h] = IF h = g + 1 THEN a.newGroup[h] \cup Members(x) ELSE a.newGroup[h]
  <2> DEFINE v == a.newGroup[g + 1] \cup Members(x)
             i == g + 1
  <2>1. v \in SUBSET Particle /\ i \in DOMAIN a.newGroup
    BY <1>2, <1>3
  <2>2. b.newGroup = [a.newGroup EXCEPT ![i] = v]
    BY <1>5
  <2> HIDE DEF v, i
  <2>3. /\ b.newGroup \in Seq(SUBSET Particle) /\ Len(b.newGroup) = Len(a.newGroup)
        /\ DOMAIN b.newGroup = DOMAIN a.newGroup
        /\ \A h \in DOMAIN a.newGroup : b.newGroup[h] = IF h = i THEN v ELSE a.newGroup[h]
    BY <1>3, <2>1, <2>2, Replaced
  <2> QED
    BY <2>3 DEF v, i
<1>8. /\ \A y \in Particle \cup Slots : y # x => (a.used[y] >= 0 <=> b.used[y] >= 0)
      /\ ~ (a.used[x] >= 0) /\ b.used[x] >= 0
  BY <1>2, <1>3, <1>6
<1>9. IsInjective(b.noAdd) /\ b.noAdd \in Seq(Slots) /\ ToSet(b.noAdd) = {k \in Slots : b.used[k] >= 0}
  <2>1. IsInjective(a.noAdd) /\ ToSet(a.noAdd) = {k \in Slots : a.used[k] >= 0}
    BY DEF Search
  <2>2. CASE x \in Slots
    <3>1. x \notin ToSet(a.noAdd)
      BY <1>8, <2>1
    <3>2. b.noAdd \in Seq(Slots) /\ IsInjective(b.noAdd) /\ ToSet(b.noAdd) = ToSet(a.noAdd) \cup {x}
      BY <1>3, <1>5, <2>1, <2>2, <3>1, Extended
    <3>3. ToSet(b.noAdd) = {k \in Slots : b.used[k] >= 0}
      BY <1>8, <2>1, <2>2, <3>2
    <3> QED
      BY <3>2, <3>3
  <2>3. CASE x \notin Slots
    <3>1. b.noAdd = a.noAdd
      BY <1>5, <2>3
    <3> QED
      BY <1>3, <1>8, <2>1, <2>3, <3>1
  <2> QED
    BY <2>2, <2>3
<1>10. b \in AdjShape
  BY <1>3, <1>5, <1>6, <1>7, <1>9 DEF AdjShape
<1>11. \A h \in DOMAIN a.newGroup :
          Joiners(b, h) = IF h = g + 1 THEN Joiners(a, h) \cup {x} ELSE Joiners(a, h)
  <2> SUFFICES ASSUME NEW h \in DOMAIN a.newGroup, NEW y \in Particle \cup Slots
               PROVE  b.used[y] = h - 1 <=> (a.used[y] = h - 1 \/ (h = g + 1 /\ y = x))
    BY <1>2 DEF Joiners
  <2>1. h \in Nat /\ h > 0 /\ (h = g + 1 <=> h - 1 = g)
    BY <1>3
  <2>2. CASE y = x
    BY <1>6, <2>1, <2>2
  <2>3. CASE y # x
    BY <1>6, <2>1, <2>3
  <2> QED
    BY <2>2, <2>3
<1>12. \A h \in DOMAIN b.newGroup : b.newGroup[h] = UNION {Members(y) : y \in Joiners(b, h)}
  <2> SUFFICES ASSUME NEW h \in DOMAIN a.newGroup
               PROVE  b.newGroup[h] = UNION {Members(y) : y \in Joiners(b, h)}
    BY <1>7
  <2>1. a.newGroup[h] = UNION {Members(y) : y \in Joiners(a, h)}
    BY DEF Search
  <2>2. UNION {Members(y) : y \in Joiners(a, h) \cup {x}}
           = (UNION {Members(y) : y \in Joiners(a, h)}) \cup Members(x)
    <3> DEFINE J == Joiners(a, h)
    <3> HIDE DEF J
    <3>1. UNION {Members(y) : y \in J \cup {x}} = (UNION {Members(y) : y \in J}) \cup Members(x)
      OBVIOUS
    <3> QED
      BY <3>1 DEF J
  <2> QED
    BY <1>7, <1>11, <2>1, <2>2
<1>13. \A y \in Particle \cup Slots :
          /\ b.used[y] \in -2..Len(b.newGroup) - 1
          /\ b.used[y] = -2 <=> y \in singleMask \cup groupMask \cup ToSet(b.brk)
          /\ b.used[y] >= 0 => y \in Listed /\ (y \in Particle => y \in massive)
  <2> SUFFICES ASSUME NEW y \in Particle \cup Slots
               PROVE /\ b.used[y] \in -2..Len(b.newGroup) - 1
                     /\ b.used[y] = -2 <=> y \in singleMask \cup groupMask \cup ToSet(b.brk)
                     /\ b.used[y] >= 0 => y \in Listed /\ (y \in Particle => y \in massive)
    OBVIOUS
  <2>1. /\ a.used[y] \in -2..Len(a.newGroup) - 1
        /\ a.used[y] = -2 <=> y \in singleMask \cup groupMask \cup ToSet(a.brk)
        /\ a.used[y] >= 0 => y \in Listed /\ (y \in Particle => y \in massive)
    BY DEF Search
  <2>2. g \in 0..Len(a.newGroup) - 1
    BY <1>3
  <2>3. CASE y = x
    <3>1. b.used[y] = g
      BY <1>6, <2>3
    <3>2. y \notin singleMask \cup groupMask \cup ToSet(b.brk)
      BY <1>5, <2>1, <2>3
    <3>3. g \in -2..Len(b.newGroup) - 1 /\ g # -2
      BY <1>7, <1>3, <2>2
    <3> QED
      BY <2>3, <3>1, <3>2, <3>3
  <2>4. CASE y # x
    BY <1>5, <1>6, <1>7, <2>1, <2>4
  <2> QED
    BY <2>3, <2>4
<1>14. Search(b)
  BY <1>5, <1>9, <1>12, <1>13 DEF Search
<1> QED
  BY <1>5, <1>6, <1>10, <1>7, <1>14 DEF b

\* A new group, still empty, is added.
LEMMA Starting ==
    ASSUME NEW a \in AdjShape, Search(a)
    PROVE  LET b == [a EXCEPT !.newGroup = Append(@, {})]
           IN  /\ b \in AdjShape /\ Search(b) /\ b.brk = a.brk /\ b.cursor = a.cursor /\ b.used = a.used
               /\ DOMAIN b.newGroup = 1..Len(a.newGroup) + 1
<1> DEFINE b == [a EXCEPT !.newGroup = Append(@, {})]
           n == Len(a.newGroup)
<1>1. /\ a.newGroup \in Seq(SUBSET Particle) /\ n \in Nat /\ {} \in SUBSET Particle
      /\ a.used \in [Particle \cup Slots -> Int] /\ DOMAIN a.newGroup = 1..n
      /\ a = [brk |-> a.brk, noAdd |-> a.noAdd, newGroup |-> a.newGroup, newSingle |-> a.newSingle,
              used |-> a.used, cursor |-> a.cursor]
  BY DEF AdjShape
<1>2. b = [brk |-> a.brk, noAdd |-> a.noAdd, newGroup |-> Append(a.newGroup, {}),
           newSingle |-> a.newSingle, used |-> a.used, cursor |-> a.cursor]
  <2> DEFINE v == Append(a.newGroup, {})
  <2>1. b = [a EXCEPT !.newGroup = v]
    BY <1>1
  <2> HIDE DEF v
  <2>2. [a EXCEPT !.newGroup = v]
           = [brk |-> a.brk, noAdd |-> a.noAdd, newGroup |-> v, newSingle |-> a.newSingle,
              used |-> a.used, cursor |-> a.cursor]
    BY <1>1
  <2> QED
    BY <2>1, <2>2 DEF v
<1>3. /\ b.brk = a.brk /\ b.noAdd = a.noAdd /\ b.newGroup = Append(a.newGroup, {})
      /\ b.newSingle = a.newSingle /\ b.used = a.used /\ b.cursor = a.cursor
  BY <1>2
<1> HIDE DEF b, n
<1>4. /\ b.newGroup \in Seq(SUBSET Particle) /\ Len(b.newGroup) = n + 1 /\ DOMAIN b.newGroup = 1..n + 1
      /\ \A h \in 1..n : b.newGroup[h] = a.newGroup[h]
      /\ b.newGroup[n + 1] = {}
  BY <1>1, <1>3 DEF n
<1>5. b \in AdjShape
  BY <1>2, <1>4, <1>3 DEF AdjShape
<1>6. \A y \in Particle \cup Slots :
          /\ b.used[y] \in -2..n
          /\ b.used[y] # n
          /\ b.used[y] = -2 <=> y \in singleMask \cup groupMask \cup ToSet(b.brk)
          /\ b.used[y] >= 0 => y \in Listed /\ (y \in Particle => y \in massive)
  <2>1. \A y \in Particle \cup Slots :
          /\ a.used[y] \in -2..n - 1
          /\ a.used[y] = -2 <=> y \in singleMask \cup groupMask \cup ToSet(a.brk)
          /\ a.used[y] >= 0 => y \in Listed /\ (y \in Particle => y \in massive)
    BY DEF Search, n
  <2>2. \A z \in -2..n - 1 : z \in -2..n /\ z # n
    BY <1>1
  <2> QED
    BY <1>3, <2>1, <2>2
<1>7. \A h \in 1..n : Joiners(b, h) = Joiners(a, h)
  BY <1>3 DEF Joiners
<1>8. Joiners(b, n + 1) = {}
  BY <1>1, <1>6 DEF Joiners
<1>9. \A h \in DOMAIN b.newGroup : b.newGroup[h] = UNION {Members(y) : y \in Joiners(b, h)}
  <2>1. \A h \in 1..n : b.newGroup[h] = UNION {Members(y) : y \in Joiners(b, h)}
    BY <1>1, <1>4, <1>7 DEF Search
  <2>2. b.newGroup[n + 1] = UNION {Members(y) : y \in Joiners(b, n + 1)}
    BY <1>4, <1>8
  <2>3. \A h \in 1..n + 1 : h \in 1..n \/ h = n + 1
    BY <1>1
  <2> QED
    BY <1>4, <2>1, <2>2, <2>3
<1>10. Search(b)
  <2>1. Len(b.newGroup) - 1 = n
    BY <1>1, <1>4
  <2> QED
    BY <1>3, <1>6, <1>9, <2>1 DEF Search
<1> QED
  BY <1>3, <1>4, <1>5, <1>10 DEF b, n

\* insertParticleIndexToGroup leaves two candidates in each new group.
LEMMA Inserting ==
    ASSUME TypeOK, NEW a \in AdjShape, Found(a), NEW i \in Listed, NEW j \in Listed, i # j,
           a.used[i] # -2, a.used[j] # -2, a.used[i] < 0 \/ a.used[j] < 0,
           i \in Particle => i \in massive, j \in Particle => j \in massive
    PROVE  LET b == InsertParticleIndexToGroup(a, i, j)
           IN  b \in AdjShape /\ Found(b) /\ b.brk = a.brk /\ b.cursor = a.cursor
<1> DEFINE b == InsertParticleIndexToGroup(a, i, j)
           n == Len(a.newGroup)
<1>1. Search(a) /\ \A g \in DOMAIN a.newGroup : \E x, y \in Joiners(a, g) : x # y
  BY DEF Found
<1>2. /\ i \in Particle \cup Slots /\ j \in Particle \cup Slots
  BY DEF TypeOK, Listed, ToSet
<1>3. /\ a.used[i] \in -2..n - 1 /\ a.used[j] \in -2..n - 1 /\ n \in Nat
      /\ DOMAIN a.newGroup = 1..n
  BY <1>1, <1>2 DEF Search, AdjShape
\* A candidate joins the group of another one.
<1>5. ASSUME NEW x \in Listed, NEW g, g = a.used[x], g >= 0, NEW y \in Listed, a.used[y] = -1,
             y \in Particle => y \in massive, b = Join(a, g, y)
      PROVE  b \in AdjShape /\ Found(b) /\ b.brk = a.brk /\ b.cursor = a.cursor
  <2>1. x \in Particle \cup Slots
    BY <1>5 DEF TypeOK, Listed, ToSet
  <2>2. g \in Int /\ g + 1 \in DOMAIN a.newGroup
    BY <1>1, <1>3, <1>5, <2>1 DEF Search
  <2>3. /\ b \in AdjShape /\ Search(b) /\ b.brk = a.brk /\ b.cursor = a.cursor
        /\ DOMAIN b.newGroup = DOMAIN a.newGroup
        /\ \A z \in Particle \cup Slots : b.used[z] = IF z = y THEN g ELSE a.used[z]
    BY <1>1, <1>5, <2>2, Joining
  <2>4. \A h \in DOMAIN a.newGroup : Joiners(a, h) \subseteq Joiners(b, h)
    <3> SUFFICES ASSUME NEW h \in DOMAIN a.newGroup, NEW z \in Particle \cup Slots, a.used[z] = h - 1
                 PROVE  b.used[z] = h - 1
      BY DEF Joiners
    <3>1. a.used[z] # -1
      BY <1>3
    <3> QED
      BY <1>5, <2>3, <3>1
  <2>5. \A h \in DOMAIN b.newGroup : \E u, v \in Joiners(b, h) : u # v
    BY <1>1, <2>3, <2>4
  <2> QED
    BY <2>3, <2>5 DEF Found
<1>6. CASE a.used[i] >= 0
  <2>1. b = Join(a, a.used[i], j) /\ a.used[j] = -1
    BY <1>3, <1>6 DEF InsertParticleIndexToGroup
  <2> QED
    BY <1>5, <1>6, <2>1
<1>7. CASE ~(a.used[i] >= 0) /\ a.used[j] >= 0
  <2>1. b = Join(a, a.used[j], i) /\ a.used[i] = -1
    BY <1>3, <1>7 DEF InsertParticleIndexToGroup
  <2> QED
    BY <1>5, <1>7, <2>1
<1>8. CASE ~(a.used[i] >= 0) /\ ~(a.used[j] >= 0)
  <2>1. a.used[i] = -1 /\ a.used[j] = -1
    BY <1>3, <1>8
  <2> DEFINE c == [a EXCEPT !.newGroup = Append(@, {})]
             d == Join(c, n, i)
  <2>2. b = Join(d, n, j)
    BY <1>8 DEF InsertParticleIndexToGroup
  <2>3. /\ c \in AdjShape /\ Search(c) /\ c.brk = a.brk /\ c.cursor = a.cursor /\ c.used = a.used
        /\ DOMAIN c.newGroup = 1..n + 1
    BY <1>1, Starting
  <2> HIDE DEF b, c, n
  <2>4. n \in Int /\ n + 1 \in DOMAIN c.newGroup
    BY <1>3, <2>3
  <2>5. /\ d \in AdjShape /\ Search(d) /\ d.brk = c.brk /\ d.cursor = c.cursor
        /\ DOMAIN d.newGroup = DOMAIN c.newGroup
        /\ \A z \in Particle \cup Slots : d.used[z] = IF z = i THEN n ELSE c.used[z]
    BY <2>1, <2>3, <2>4, Joining
  <2> HIDE DEF d
  <2>6. d.used[j] = -1 /\ n + 1 \in DOMAIN d.newGroup
    BY <1>2, <2>1, <2>3, <2>4, <2>5
  <2>7. /\ b \in AdjShape /\ Search(b) /\ b.brk = d.brk /\ b.cursor = d.cursor
        /\ DOMAIN b.newGroup = DOMAIN d.newGroup
        /\ \A z \in Particle \cup Slots : b.used[z] = IF z = j THEN n ELSE d.used[z]
    BY <2>2, <2>4, <2>5, <2>6, Joining
  <2>8. \A h \in 1..n : Joiners(a, h) \subseteq Joiners(b, h)
    <3> SUFFICES ASSUME NEW h \in 1..n, NEW z \in Particle \cup Slots, a.used[z] = h - 1
                 PROVE  b.used[z] = h - 1
      BY DEF Joiners
    <3>1. a.used[z] # -1
      BY <1>3
    <3> QED
      BY <2>1, <2>3, <2>5, <2>7, <3>1
  <2>9. i \in Joiners(b, n + 1) /\ j \in Joiners(b, n + 1)
    <3>1. b.used[i] = n /\ b.used[j] = n /\ (n + 1) - 1 = n
      BY <1>2, <1>3, <2>5, <2>7
    <3> QED
      BY <1>2, <3>1 DEF Joiners
  <2>10. \A h \in DOMAIN b.newGroup : \E u, v \in Joiners(b, h) : u # v
    <3> SUFFICES ASSUME NEW h \in 1..n + 1 PROVE \E u, v \in Joiners(b, h) : u # v
      BY <2>3, <2>5, <2>7
    <3>1. CASE h \in 1..n
      BY <1>1, <1>3, <2>8, <3>1
    <3>2. CASE h = n + 1
      BY <2>9, <3>2
    <3> QED
      BY <1>3, <3>1, <3>2
  <2>11. b \in AdjShape /\ Found(b) /\ b.brk = a.brk /\ b.cursor = a.cursor
    BY <2>3, <2>5, <2>7, <2>10 DEF Found
  <2> QED
    BY <2>11 DEF b
<1> QED
  BY <1>6, <1>7, <1>8

\* New groups with two candidates each share no member and have two with mass.
LEMMA FoundFormed ==
    ASSUME TypeOK, MembersOK, merger = <<>>, NEW a \in AdjShape, Found(a), a.brk = adj.brk
    PROVE  /\ Formed(a) /\ ToSet(a.brk) \cap ToSet(a.noAdd) = {}
           /\ ToSet(a.noAdd) \subseteq ToSet(groupList)
           /\ \A g \in DOMAIN a.newGroup : \A x \in Particle \cup Slots :
                 a.used[x] = g - 1 => Members(x) \subseteq a.newGroup[g]
<1>1. Search(a) /\ \A g \in DOMAIN a.newGroup : \E x, y \in Joiners(a, g) : x # y
  BY DEF Found
<1>2. /\ \A k \in Slots : k \notin Particle /\ Members(k) = groups[k].member /\ Members(k) \subseteq Particle
      /\ \A p \in Particle : p \notin Slots /\ Members(p) = {p}
  BY Kinds DEF GroupEntry
<1>3. ToSet(singles) \subseteq Particle /\ ToSet(groupList) \subseteq Slots
  BY DEF TypeOK, ToSet
<1>4. DOMAIN a.newGroup \subseteq Nat \ {0} /\ a.newGroup \in [DOMAIN a.newGroup -> SUBSET Particle]
  BY DEF AdjShape
<1>5. \A g \in DOMAIN a.newGroup : \A x \in Joiners(a, g) :
          /\ x \in Listed /\ x \notin singleMask \cup groupMask \cup ToSet(a.brk)
          /\ x \in Particle => x \in massive
          /\ Members(x) \subseteq a.newGroup[g]
  <2> SUFFICES ASSUME NEW g \in DOMAIN a.newGroup, NEW x \in Particle \cup Slots, a.used[x] = g - 1
               PROVE  /\ x \in Listed /\ x \notin singleMask \cup groupMask \cup ToSet(a.brk)
                      /\ x \in Particle => x \in massive
                      /\ Members(x) \subseteq a.newGroup[g]
    BY DEF Joiners
  <2>1. a.used[x] >= 0 /\ a.used[x] # -2
    BY <1>4
  <2>2. x \in Joiners(a, g)
    BY DEF Joiners
  <2>3. Members(x) \subseteq a.newGroup[g]
    BY <1>1, <2>2 DEF Search
  <2> QED
    BY <1>1, <2>1, <2>3 DEF Search
<1>6. ASSUME NEW g \in DOMAIN a.newGroup, NEW h \in DOMAIN a.newGroup, g # h
      PROVE  a.newGroup[g] \cap a.newGroup[h] = {}
  <2> SUFFICES ASSUME NEW x \in Joiners(a, g), NEW y \in Joiners(a, h)
               PROVE  Members(x) \cap Members(y) = {}
    BY <1>1 DEF Search
  <2>1. x # y
    BY <1>4, <1>6 DEF Joiners
  <2> QED
    BY <1>5, <2>1, Apart
<1>7. ASSUME NEW g \in DOMAIN a.newGroup
      PROVE  Cardinality(a.newGroup[g] \cap massive) > 1
  <2> DEFINE S == a.newGroup[g] \cap massive
  <2>1. S \in SUBSET Particle
    BY <1>4
  <2>2. PICK x \in Joiners(a, g) : \E y \in Joiners(a, g) : x # y
    BY <1>1
  <2>3. PICK y \in Joiners(a, g) : x # y
    BY <2>2
  <2>4. ASSUME NEW k \in Joiners(a, g), k \in Slots PROVE Cardinality(S) > 1
    <3>1. k \in Busy /\ k \notin ToSet(merger) \cup Broken
      BY <1>2, <1>3, <1>5, <2>4 DEF Listed, Busy, Broken, ToSet
    <3>2. Cardinality(groups[k].member \cap massive) > 1
      BY <3>1 DEF MembersOK
    <3>3. groups[k].member \cap massive \subseteq S
      BY <1>2, <1>5, <2>4
    <3>4. Cardinality(groups[k].member \cap massive) <= Cardinality(S)
      BY <2>1, <3>3, MoreIn
    <3>5. Cardinality(groups[k].member \cap massive) \in Nat /\ Cardinality(S) \in Nat
      BY <2>1, <3>3, FiniteParts
    <3> QED
      BY <3>2, <3>4, <3>5
  <2>5. CASE x \in Slots \/ y \in Slots
    BY <2>4, <2>5
  <2>6. CASE ~(x \in Slots \/ y \in Slots)
    <3>1. x \in Particle /\ y \in Particle
      BY <2>6 DEF Joiners
    <3>2. x \in S /\ y \in S
      BY <1>2, <1>5, <3>1
    <3> QED
      BY <2>1, <2>3, <3>2, FiniteParts, Several
  <2> QED
    BY <2>5, <2>6
<1>8. ToSet(a.brk) \cap ToSet(a.noAdd) = {} /\ ToSet(a.noAdd) \subseteq ToSet(groupList)
  <2> SUFFICES ASSUME NEW k \in Slots, a.used[k] >= 0
               PROVE  k \notin ToSet(a.brk) /\ k \in ToSet(groupList)
    BY <1>1 DEF Search
  <2>1. a.used[k] # -2
    BY DEF AdjShape
  <2>2. k \in Listed /\ k \notin ToSet(a.brk)
    BY <1>1, <2>1 DEF Search
  <2> QED
    BY <1>2, <1>3, <2>2 DEF Listed
<1> QED
  BY <1>5, <1>6, <1>7, <1>8 DEF Formed, Joiners

\* checkNewGroup for one candidate keeps the search consistent.
LEMMA NewGroupStep ==
    ASSUME Inv, CheckNewGroup
    PROVE  \E a : a = adj' /\ a \in AdjShape /\ Found(a) /\ a.brk = adj.brk
<1>1. TypeOK /\ adj \in AdjShape /\ Found(adj) /\ pc = "checkNewGroup"
  BY DEF Inv, AdjOK, Adjusting, CheckNewGroup
<1>2. /\ nActS \in 0..Len(singles) /\ nActG \in 0..Len(groupList) /\ adj.cursor \in Nat \ {0}
      /\ adj.cursor <= nActS + nActG
      /\ DOMAIN singles = 1..Len(singles) /\ DOMAIN groupList = 1..Len(groupList)
      /\ Len(singles) \in Nat /\ Len(groupList) \in Nat
  <2>1. /\ nActS \in 0..Len(singles) /\ nActG \in 0..Len(groupList)
        /\ singles \in Seq(Particle) /\ groupList \in Seq(Slots)
    BY <1>1 DEF TypeOK
  <2>2. adj.cursor \in Nat \ {0}
    BY <1>1 DEF AdjShape
  <2>3. adj.cursor <= nActS + nActG
    BY DEF CheckNewGroup
  <2> QED
    BY <2>1, <2>2, <2>3
<1> DEFINE i == IF adj.cursor <= nActS THEN singles[adj.cursor] ELSE groupList[adj.cursor - nActS]
<1>3. i \in Listed
  <2>1. CASE adj.cursor <= nActS
    <3>1. adj.cursor \in DOMAIN singles
      BY <1>2, <2>1
    <3> QED
      BY <2>1, <3>1 DEF Listed, ToSet
  <2>2. CASE ~(adj.cursor <= nActS)
    <3>1. adj.cursor - nActS \in DOMAIN groupList
      BY <1>2, <2>2
    <3> QED
      BY <2>2, <3>1 DEF Listed, ToSet
  <2> QED
    BY <2>1, <2>2
<1>4. PICK a \in {adj} \cup
                 (IF i \in Particle \ massive \/ adj.used[i] = -2 THEN {}
                  ELSE {InsertParticleIndexToGroup(adj, i, j) :
                           j \in {l \in Listed \ {i} : /\ l \in Particle => l \in massive
                                                       /\ adj.used[l] # -2
                                                       /\ adj.used[i] < 0 \/ adj.used[l] < 0}}) :
             adj' = [a EXCEPT !.cursor = @ + 1]
  BY DEF CheckNewGroup
<1> HIDE DEF i
<1>5. a \in AdjShape /\ Found(a) /\ a.brk = adj.brk
  <2>1. CASE a = adj
    BY <1>1, <2>1
  <2>2. CASE a # adj
    <3>1. /\ ~(i \in Particle \ massive) /\ adj.used[i] # -2
          /\ \E j \in {l \in Listed \ {i} : /\ l \in Particle => l \in massive
                                            /\ adj.used[l] # -2
                                            /\ adj.used[i] < 0 \/ adj.used[l] < 0} :
                a = InsertParticleIndexToGroup(adj, i, j)
      BY <1>4, <2>2
    <3>2. PICK j \in Listed \ {i} : /\ j \in Particle => j \in massive
                                    /\ adj.used[j] # -2
                                    /\ adj.used[i] < 0 \/ adj.used[j] < 0
                                    /\ a = InsertParticleIndexToGroup(adj, i, j)
      BY <3>1
    <3>3. PICK b : b = adj
      OBVIOUS
    <3> QED
      BY <1>1, <1>3, <3>1, <3>2, <3>3, Inserting
  <2> QED
    BY <2>1, <2>2
<1>6. PICK b : b = [a EXCEPT !.cursor = @ + 1]
  OBVIOUS
<1>7. /\ b.brk = a.brk /\ b.noAdd = a.noAdd /\ b.newGroup = a.newGroup
      /\ b.newSingle = a.newSingle /\ b.used = a.used /\ b \in AdjShape
  <2>1. /\ a = [brk |-> a.brk, noAdd |-> a.noAdd, newGroup |-> a.newGroup,
                newSingle |-> a.newSingle, used |-> a.used, cursor |-> a.cursor]
        /\ a.cursor + 1 \in Nat \ {0}
    BY <1>5 DEF AdjShape
  <2>2. b = [brk |-> a.brk, noAdd |-> a.noAdd, newGroup |-> a.newGroup,
             newSingle |-> a.newSingle, used |-> a.used, cursor |-> a.cursor + 1]
    BY <1>6, <2>1
  <2> QED
    BY <1>5, <2>1, <2>2 DEF AdjShape
<1>8. Found(b)
  BY <1>5, <1>7 DEF Found, Search, Joiners
<1> QED
  BY <1>4, <1>5, <1>6, <1>7, <1>8

\* checkNewGroup: nothing else changes.
LEMMA CheckNewGroupInv ==
    ASSUME Inv, CheckNewGroup
    PROVE  Inv'
<1>1. TypeOK /\ ListsOK /\ MembersOK /\ AdjOK /\ TimeInv
  BY DEF Inv
<1>2. /\ pc = "checkNewGroup" /\ pc' = "checkNewGroup"
      /\ UNCHANGED <<stage, clock, massive, ptcl, groups, lists, tables, merger>>
  BY DEF CheckNewGroup
<1>3. PICK a : a = adj' /\ a \in AdjShape /\ Found(a) /\ a.brk = adj.brk
  BY NewGroupStep
<1>4. TypeOK'
  BY <1>1, <1>2 DEF TypeOK, Slots, clock, lists, tables
<1>5. ListsOK' /\ MembersOK'
  <2>1. ListsOK'
    BY <1>1, <1>2 DEF ListsOK, lists, tables, Slots, Broken
  <2>2. Broken' = Broken
    BY <1>3 DEF Broken
  <2> QED
    BY <1>1, <1>2, <2>1, <2>2 DEF MembersOK, Busy, lists, tables
<1>6. AdjOK'
  <2>1. merger = <<>>
    BY <1>1, <1>2 DEF ListsOK
  <2>2. /\ Formed(a) /\ ToSet(a.brk) \cap ToSet(a.noAdd) = {}
        /\ ToSet(a.noAdd) \subseteq ToSet(groupList)
    BY <1>1, <1>3, <2>1, FoundFormed
  <2>3. Formed(a)'
    BY <1>2, <2>2 DEF Formed
  <2>4. Found(a)'
    BY <1>2, <1>3 DEF Found, Search, Joiners, Members, Listed, Slots, tables, lists
  <2>5. /\ IsInjective(a.brk) /\ ToSet(a.brk) \subseteq ToSet(groupList) /\ IsInjective(a.noAdd)
        /\ a.newSingle = <<>>
    BY <1>1, <1>2, <1>3 DEF AdjOK, Adjusting, Broken, Found, Search
  <2>6. IsInjective(a.newSingle) /\ ToSet(a.newSingle) \cap (UNION ToSet(a.newGroup)) = {}
    BY <2>5 DEF IsInjective, ToSet
  <2>7. Grouped' = Grouped /\ (massive \subseteq ToSet(singles) \cup Grouped)
    BY <1>1, <1>2 DEF AdjOK, TablesSettled, Grouped, Busy, lists, tables
  <2>8. a \in AdjShape'
    BY <1>2, <1>3 DEF AdjShape, Slots
  <2>9. /\ Broken' = ToSet(a.brk) /\ NotAdded' = ToSet(a.noAdd) /\ Taken' = UNION ToSet(a.newGroup)
        /\ groupList' = groupList /\ singles' = singles /\ massive' = massive
    BY <1>2, <1>3 DEF Broken, NotAdded, Taken, lists
  <2> QED
    BY <1>2, <1>3, <2>2, <2>3, <2>4, <2>5, <2>6, <2>7, <2>8, <2>9 DEF AdjOK, Adjusting, TablesSettled
<1>7. TimeInv'
  <2>1. Leaving = groupMask /\ Leaving' = groupMask
    BY <1>2 DEF Leaving, tables
  <2>2. /\ Waiting(singles, nActS) /\ Waiting(groupList, nActG)
        /\ Started(singles, nActS, nInitS) /\ Started(groupList, nActG, nInitG)
        /\ timeNextMin = time /\ Divides(Least, time) /\ time <= TimeEnd
    BY <1>1, <1>2 DEF TimeInv, Turning
  <2>3. /\ Waiting(singles, nActS)' /\ Waiting(groupList, nActG)'
        /\ Started(singles, nActS, nInitS)' /\ Started(groupList, nActG, nInitG)'
    BY <1>1, <1>2, <2>1, <2>2, ListsKept DEF clock
  <2> QED
    BY <1>2, <2>2, <2>3 DEF TimeInv, Turning, BrokenAtNow, clock
<1> QED
  BY <1>4, <1>5, <1>6, <1>7 DEF Inv

-----------------------------------------------------------------------------
(* adjustGroups: what changes is brought to the clock                      *)

\* What the two calls of integrateToTimeList do
LEMMA ToTimeStep ==
    ASSUME Inv, IntegrateToTimeList
    PROVE  /\ pc = "checkNewGroup" /\ pc' = "breakGroups"
           /\ UNCHANGED <<stage, clock, massive, lists, tables, merger>>
           /\ ptcl' \in [Particle -> ParticleEntry]
           /\ \A p \in Particle : p \notin Taken => ptcl'[p] = ptcl[p]
           /\ groups' \in Seq(GroupEntry) /\ Slots' = Slots /\ Len(groups') = Len(groups)
           /\ \A k \in Slots :
                 /\ k \notin Broken => groups'[k] = groups[k]
                 /\ groups'[k].member = groups[k].member
                 /\ k \in Broken \ groupMask =>
                       groups'[k].time = IF groups[k].time < time THEN time ELSE groups[k].time
           /\ \E b : /\ b = adj' /\ b \in AdjShape /\ b.cursor = 1 /\ b.brk = adj.brk
                     /\ b.noAdd = adj.noAdd /\ b.newGroup = adj.newGroup
                     /\ b.newSingle = adj.newSingle
<1>1. TypeOK /\ adj \in AdjShape /\ pc = "checkNewGroup"
  BY DEF Inv, AdjOK, Adjusting, IntegrateToTimeList
<1>2. pc' = "breakGroups" /\ UNCHANGED <<stage, clock, massive, lists, tables, merger>>
  BY DEF IntegrateToTimeList
<1>3. time \in Nat /\ dtLimit \in Nat /\ time + dtLimit \in Nat
  <2>1. time \in Nat /\ dtLimit \in Nat
    BY <1>1, StepsPositive DEF TypeOK
  <2> QED
    BY <2>1
<1>4. /\ Len(groups) \in Nat /\ Slots = 1..Len(groups)
      /\ \A k \in Slots : k \notin Particle /\ Entry(k) = groups[k] /\ groups[k] \in GroupEntry
      /\ \A p \in Particle : Entry(p) = ptcl[p] /\ ptcl[p] \in ParticleEntry
  BY <1>1, Kinds
<1> DEFINE S == Behind(Taken \ singleMask)
           G == Behind(Broken \ groupMask)
<1>5. /\ ptcl' = [p \in Particle |-> IF p \in S THEN Restart(ptcl[p], time, dtLimit) ELSE ptcl[p]]
      /\ groups' = [k \in Slots |-> IF k \in G THEN Restart(groups[k], time, dtLimit) ELSE groups[k]]
  BY DEF IntegrateToTimeList, Taken, Broken
<1>6. S \subseteq Taken /\ G = {k \in Broken \ groupMask : Entry(k).time < time}
  BY DEF Behind
<1> HIDE DEF S, G
<1>7. /\ \A p \in Particle : Restart(ptcl[p], time, dtLimit) \in ParticleEntry
  <2> SUFFICES ASSUME NEW p \in Particle
               PROVE  Restart(ptcl[p], time, dtLimit) \in ParticleEntry
    OBVIOUS
  <2>1. Restart(ptcl[p], time, dtLimit) = [time |-> time, dt |-> dtLimit, next |-> time + dtLimit]
    BY <1>3, <1>4, RestartParticle
  <2> QED
    BY <1>3, <2>1 DEF ParticleEntry
<1>8. \A k \in Slots : /\ Restart(groups[k], time, dtLimit) \in GroupEntry
                       /\ Restart(groups[k], time, dtLimit).member = groups[k].member
                       /\ Restart(groups[k], time, dtLimit).time = time
  <2> SUFFICES ASSUME NEW k \in Slots
               PROVE  /\ Restart(groups[k], time, dtLimit) \in GroupEntry
                      /\ Restart(groups[k], time, dtLimit).member = groups[k].member
                      /\ Restart(groups[k], time, dtLimit).time = time
    OBVIOUS
  <2>1. groups[k] \in GroupEntry
    BY <1>4
  <2>2. Restart(groups[k], time, dtLimit)
           = [member |-> groups[k].member, time |-> time, dt |-> dtLimit, next |-> time + dtLimit]
    BY <1>3, <2>1, RestartGroup
  <2>3. groups[k].member \in SUBSET Particle
    BY <2>1 DEF GroupEntry
  <2> QED
    BY <1>3, <2>2, <2>3 DEF GroupEntry
<1>9. ptcl' \in [Particle -> ParticleEntry] /\ \A p \in Particle : p \notin Taken => ptcl'[p] = ptcl[p]
  BY <1>4, <1>5, <1>6, <1>7
<1>10. \A k \in Slots :
          /\ groups'[k] \in GroupEntry
          /\ k \notin Broken => groups'[k] = groups[k]
          /\ groups'[k].member = groups[k].member
          /\ k \in Broken \ groupMask =>
                groups'[k].time = IF groups[k].time < time THEN time ELSE groups[k].time
  BY <1>4, <1>5, <1>6, <1>8
<1>11. groups' \in Seq(GroupEntry) /\ Slots' = Slots /\ Len(groups') = Len(groups)
  <2>1. groups' \in [1..Len(groups) -> GroupEntry]
    BY <1>4, <1>5, <1>10
  <2>2. DOMAIN groups' = 1..Len(groups)
    BY <1>4, <1>5
  <2>3. groups' \in Seq(GroupEntry) /\ Len(groups') = Len(groups)
    BY <1>4, <2>1
  <2> QED
    BY <1>4, <2>2, <2>3 DEF Slots
<1>12. PICK a : a = adj
  OBVIOUS
<1>13. PICK b : b = [a EXCEPT !.cursor = 1]
  OBVIOUS
<1>14. /\ b = adj' /\ b \in AdjShape /\ b.cursor = 1 /\ b.brk = adj.brk /\ b.noAdd = adj.noAdd
       /\ b.newGroup = adj.newGroup /\ b.newSingle = adj.newSingle
  <2>1. a = [brk |-> a.brk, noAdd |-> a.noAdd, newGroup |-> a.newGroup,
             newSingle |-> a.newSingle, used |-> a.used, cursor |-> a.cursor]
    BY <1>1, <1>12 DEF AdjShape
  <2>2. b = [brk |-> a.brk, noAdd |-> a.noAdd, newGroup |-> a.newGroup,
             newSingle |-> a.newSingle, used |-> a.used, cursor |-> 1]
    BY <1>13, <2>1
  <2>3. b = adj'
    BY <1>12, <1>13 DEF IntegrateToTimeList
  <2>4. b \in AdjShape
    BY <1>1, <1>12, <2>1, <2>2 DEF AdjShape
  <2> QED
    BY <1>12, <2>2, <2>3, <2>4
<1> QED
  BY <1>1, <1>2, <1>9, <1>10, <1>11, <1>14

\* integrateToTimeList: only what is about to leave the lists is touched.
LEMMA ToTimeInv ==
    ASSUME Inv, IntegrateToTimeList
    PROVE  Inv'
<1>1. TypeOK /\ ListsOK /\ MembersOK /\ AdjOK /\ TimeInv
  BY DEF Inv
<1>2. /\ pc = "checkNewGroup" /\ pc' = "breakGroups"
      /\ UNCHANGED <<stage, clock, massive, lists, tables, merger>>
      /\ ptcl' \in [Particle -> ParticleEntry]
      /\ \A p \in Particle : p \notin Taken => ptcl'[p] = ptcl[p]
      /\ groups' \in Seq(GroupEntry) /\ Slots' = Slots /\ Len(groups') = Len(groups)
      /\ \A k \in Slots :
            /\ k \notin Broken => groups'[k] = groups[k]
            /\ groups'[k].member = groups[k].member
            /\ k \in Broken \ groupMask =>
                  groups'[k].time = IF groups[k].time < time THEN time ELSE groups[k].time
  BY ToTimeStep
<1>3. PICK b : /\ b = adj' /\ b \in AdjShape /\ b.cursor = 1 /\ b.brk = adj.brk
               /\ b.noAdd = adj.noAdd /\ b.newGroup = adj.newGroup /\ b.newSingle = adj.newSingle
  BY ToTimeStep
<1>4. Broken' = Broken /\ NotAdded' = NotAdded /\ Taken' = Taken /\ Busy' = Busy
  BY <1>2, <1>3 DEF Broken, NotAdded, Taken, Busy, lists, tables
<1>5. TypeOK'
  BY <1>1, <1>2 DEF TypeOK, Calls, clock, lists, tables, ParticleEntry, GroupEntry
<1>6. ToSet(groupList) \subseteq Slots /\ ToSet(singles) \subseteq Particle /\ groupMask \subseteq Slots
      /\ singleMask \subseteq Particle /\ Busy \subseteq Slots
  BY <1>1 DEF TypeOK, ToSet, Busy
<1>7. ListsOK'
  <2>1. ListsOK /\ pc = "checkNewGroup"
    BY <1>1, <1>2
  <2> QED
    BY <1>2, <2>1 DEF ListsOK, lists, tables
<1>8. MembersOK'
  <2>1. \A k \in groupMask : groups'[k].member = {}
    BY <1>1, <1>2, <1>6 DEF MembersOK
  <2>2. \A k \in Busy : /\ Cardinality(groups'[k].member) > 1 /\ groups'[k].member \subseteq singleMask
                        /\ k \notin ToSet(merger) \cup Broken =>
                               Cardinality(groups'[k].member \cap massive) > 1
    BY <1>1, <1>2, <1>6 DEF MembersOK
  <2>3. \A k, l \in Busy : k # l => groups'[k].member \cap groups'[l].member = {}
    BY <1>1, <1>2, <1>6 DEF MembersOK
  <2>4. ToSet(singles) \cap singleMask = {} /\ 2 * Len(groups) <= Cardinality(Particle)
    BY <1>1 DEF MembersOK
  <2> QED
    BY <1>2, <1>4, <2>1, <2>2, <2>3, <2>4 DEF MembersOK, lists, tables
<1>9. /\ adj \in AdjShape /\ Formed(adj) /\ Found(adj) /\ merger = <<>>
      /\ Broken \cup NotAdded \subseteq ToSet(groupList) /\ Broken \cap NotAdded = {}
      /\ IsInjective(adj.brk) /\ IsInjective(adj.noAdd)
      /\ massive \subseteq ToSet(singles) \cup Grouped /\ ToSet(groupList) \cap groupMask = {}
  BY <1>1, <1>2 DEF AdjOK, ListsOK, Adjusting, TablesSettled
\* What is not to be joined shares no member with the new groups.
<1>10. \A k \in Busy \ NotAdded : groups[k].member \cap Taken = {}
  <2> SUFFICES ASSUME NEW k \in Busy \ NotAdded, NEW g \in DOMAIN adj.newGroup
               PROVE  groups[k].member \cap adj.newGroup[g] = {}
    BY DEF Taken, ToSet
  <2>1. adj.newGroup[g] = UNION {Members(x) : x \in Joiners(adj, g)}
    BY <1>9 DEF Found, Search
  <2> SUFFICES ASSUME NEW x \in Joiners(adj, g) PROVE groups[k].member \cap Members(x) = {}
    BY <2>1
  <2>2. x \in Particle \cup Slots /\ adj.used[x] \in Int /\ adj.used[x] >= 0
    BY <1>9 DEF AdjShape, Joiners
  <2>3. x \in Listed /\ x \notin singleMask \cup groupMask
    BY <1>9, <2>2 DEF Found, Search
  <2>4. k \in Slots /\ k \in Listed /\ k \notin groupMask
    BY <1>6 DEF Busy, Listed
  <2>5. k \notin singleMask /\ Members(k) = groups[k].member
    BY <1>1, <1>6, <2>4, Kinds
  <2>6. x # k
    BY <1>9, <2>2, <2>4 DEF Found, Search, NotAdded
  <2> QED
    BY <1>1, <2>3, <2>4, <2>5, <2>6, Apart
<1>11. \A k \in NotAdded : \E g \in DOMAIN adj.newGroup : groups[k].member \subseteq adj.newGroup[g]
  <2> SUFFICES ASSUME NEW k \in Slots, adj.used[k] >= 0
               PROVE  \E g \in DOMAIN adj.newGroup : groups[k].member \subseteq adj.newGroup[g]
    BY <1>9 DEF Found, Search, NotAdded
  <2> DEFINE u == adj.used[k]
             a == adj
  <2>1. u \in 0..Len(adj.newGroup) - 1
    BY <1>9 DEF Found, Search
  <2>2. u + 1 \in DOMAIN adj.newGroup /\ u = (u + 1) - 1
    BY <1>9, <2>1 DEF AdjShape
  <2>3. \A g \in DOMAIN adj.newGroup : \A x \in Particle \cup Slots :
            adj.used[x] = g - 1 => Members(x) \subseteq adj.newGroup[g]
    BY <1>1, <1>9, FoundFormed
  <2>4. Members(k) \subseteq adj.newGroup[u + 1]
    BY <2>2, <2>3
  <2>5. Members(k) = groups[k].member
    BY <1>1, Kinds
  <2> QED
    BY <2>2, <2>4, <2>5
<1>12. Grouped' = Grouped
  <2>1. \A k \in Busy : groups'[k].member = groups[k].member
    BY <1>2, <1>6
  <2> QED
    BY <1>4, <2>1 DEF Grouped
<1>13. DissolvingOK'
  <2>1. b.newSingle = <<>> /\ ToSet(b.newSingle) = {}
    BY <1>3, <1>9 DEF Found, Search, ToSet
  <2>2. b.cursor <= Len(b.brk) + 1
    BY <1>3 DEF AdjShape
  <2>3. \A i \in DOMAIN b.brk : b.brk[i] \in groupMask <=> i < b.cursor
    <3> SUFFICES ASSUME NEW i \in DOMAIN adj.brk PROVE adj.brk[i] \notin groupMask /\ ~(i < 1)
      BY <1>3
    <3>1. adj.brk[i] \in Broken
      BY DEF Broken, ToSet
    <3>2. i \in 1..Len(adj.brk)
      BY <1>9 DEF AdjShape
    <3> QED
      BY <1>9, <3>1, <3>2
  <2>4. \A k \in Busy \ NotAdded : groups'[k].member \cap Taken = {}
    BY <1>2, <1>6, <1>10
  <2>5. \A k \in NotAdded : \E g \in DOMAIN b.newGroup : groups'[k].member \subseteq b.newGroup[g]
    BY <1>2, <1>3, <1>6, <1>9, <1>11
  <2> QED
    BY <1>2, <1>3, <1>4, <1>9, <1>12, <2>1, <2>2, <2>3, <2>4, <2>5 DEF DissolvingOK, lists, tables
<1>14. AdjOK'
  <2>1. Formed(b)'
    BY <1>2, <1>3, <1>9 DEF Formed
  <2>2. b \in AdjShape'
    BY <1>2, <1>3 DEF AdjShape
  <2>3. /\ IsInjective(b.brk) /\ IsInjective(b.noAdd) /\ IsInjective(b.newSingle)
        /\ ToSet(b.newSingle) \cap Taken = {}
    BY <1>3, <1>9 DEF Found, Search, ToSet, IsInjective
  <2> QED
    BY <1>2, <1>3, <1>4, <1>9, <1>13, <2>1, <2>2, <2>3 DEF AdjOK, Adjusting, TablesSettled, lists
<1>15. Leaving = groupMask /\ Leaving' = groupMask \cup Broken \cup Taken
  BY <1>2, <1>4 DEF Leaving, tables
<1>16. /\ Waiting(singles, nActS) /\ Waiting(groupList, nActG)
       /\ Started(singles, nActS, nInitS) /\ Started(groupList, nActG, nInitG)
       /\ timeNextMin = time /\ Divides(Least, time) /\ time <= TimeEnd /\ nInitG = 0
  BY <1>1, <1>2 DEF TimeInv, Turning, ListsOK
<1>17. /\ Waiting(singles, nActS)' /\ Waiting(groupList, nActG)'
       /\ Started(singles, nActS, nInitS)' /\ Started(groupList, nActG, nInitG)'
  <2>1. \A p \in ToSet(singles) : p \notin Leaving' => p \notin Leaving /\ ptcl'[p] = ptcl[p]
    BY <1>2, <1>6, <1>15
  <2>2. \A k \in ToSet(groupList) : k \notin Leaving' => k \notin Leaving /\ groups'[k] = groups[k]
    BY <1>2, <1>6, <1>15
  <2> QED
    BY <1>1, <1>2, <1>16, <2>1, <2>2, ListsKept DEF clock
\* No listed group is ahead of the clock.
<1>18. \A k \in ToSet(groupList) : groups[k].time <= time
  <2> SUFFICES ASSUME NEW i \in DOMAIN groupList PROVE groups[groupList[i]].time <= time
    BY DEF ToSet
  <2>1. /\ groupList \in Seq(Slots) /\ nActG \in 0..Len(groupList) /\ i \in 1..Len(groupList)
        /\ time \in Nat
    BY <1>1 DEF TypeOK
  <2>2. groupList[i] \in Slots /\ groupList[i] \notin Leaving
    BY <1>9, <1>15, <2>1 DEF ToSet
  <2>3. Entry(groupList[i]) = groups[groupList[i]] /\ groups[groupList[i]].time \in Nat
    BY <1>1, <2>2, Kinds DEF GroupEntry
  <2>4. CASE i <= nActG
    BY <1>16, <2>1, <2>2, <2>3, <2>4 DEF Started
  <2>5. CASE ~(i <= nActG)
    BY <1>16, <2>1, <2>2, <2>3, <2>5 DEF Waiting
  <2> QED
    BY <2>4, <2>5
<1>19. BrokenAtNow'
  <2> SUFFICES ASSUME NEW i \in 1..Len(b.brk) PROVE groups'[b.brk[i]].time = time
    BY <1>2, <1>3 DEF BrokenAtNow, clock
  <2>1. b.brk[i] \in Broken
    BY <1>3 DEF AdjShape, Broken, ToSet
  <2>2. b.brk[i] \in ToSet(groupList) /\ b.brk[i] \in Slots /\ b.brk[i] \notin groupMask
    BY <1>6, <1>9, <2>1
  <2>3. /\ groups[b.brk[i]].time <= time /\ groups[b.brk[i]].time \in Nat /\ time \in Nat
    BY <1>1, <1>18, <2>2, Kinds DEF GroupEntry, TypeOK
  <2> QED
    BY <1>2, <2>1, <2>2, <2>3
<1>20. TimeInv'
  BY <1>2, <1>16, <1>17, <1>19 DEF TimeInv, Turning, clock
<1> QED
  BY <1>5, <1>7, <1>8, <1>14, <1>20 DEF Inv

-----------------------------------------------------------------------------
(* adjustGroups: a group is dissolved                                      *)

\* New groups share no member, and two of each group's members have mass.
GroupsApart(N) ==
    /\ \A g, h \in DOMAIN N : g # h => N[g] \cap N[h] = {}
    /\ \A g \in DOMAIN N : Cardinality(N[g] \cap massive) > 1

\* What becomes of a branch
LEMMA Branch ==
    ASSUME NEW b \in SUBSET Particle
    PROVE  /\ Single(b) \subseteq b \cap massive /\ Single(b) \subseteq Unmasked(b)
           /\ Unmasked(b) \subseteq b
           /\ \/ Regroup(b) = <<b>> /\ Cardinality(b \cap massive) > 1
              \/ Regroup(b) = <<>>
           /\ Regroup(b) \in Seq(SUBSET Particle) /\ UNION ToSet(Regroup(b)) \subseteq b
           /\ Single(b) \cap (UNION ToSet(Regroup(b))) = {}
           /\ b \cap massive \subseteq Single(b) \cup (UNION ToSet(Regroup(b)))
<1> DEFINE c == Cardinality(b)
           v == Cardinality(b \cap massive)
<1>1. c \in Nat /\ v \in Nat /\ v <= c
  BY FiniteParts, MoreIn
<1>2. v = 0 => b \cap massive = {}
  BY FiniteParts, FS_EmptySet
<1>3. /\ Single(b) = IF c = 1 \/ v = 1 THEN b \cap massive ELSE {}
      /\ Unmasked(b) = IF c = 1 \/ v > 1 THEN b ELSE Single(b)
      /\ Regroup(b) = IF v > 1 THEN <<b>> ELSE <<>>
  BY DEF Single, Unmasked, Regroup
<1> HIDE DEF c, v
<1>4. /\ Single(b) \subseteq b \cap massive /\ Single(b) \subseteq Unmasked(b)
      /\ Unmasked(b) \subseteq b
  BY <1>1, <1>3
<1>5. <<b>> \in Seq(SUBSET Particle) /\ ToSet(<<b>>) = {b}
  BY DEF ToSet
<1>6. <<>> \in Seq(SUBSET Particle)
  OBVIOUS
<1>7. ToSet(<<>>) = {}
  BY DEF ToSet
<1>8. CASE v > 1
  <2>1. Regroup(b) = <<b>> /\ Single(b) = {}
    BY <1>1, <1>3, <1>8
  <2> QED
    BY <1>4, <1>5, <1>8, <2>1 DEF v
<1>9. CASE ~(v > 1)
  <2>1. Regroup(b) = <<>>
    BY <1>3, <1>9
  <2>2. b \cap massive \subseteq Single(b)
    BY <1>1, <1>2, <1>3, <1>9
  <2> QED
    BY <1>4, <1>6, <1>7, <2>1, <2>2
<1> QED
  BY <1>8, <1>9

\* A branch may become one more group.
LEMMA OneMore ==
    ASSUME NEW N \in Seq(SUBSET Particle), GroupsApart(N), NEW b \in SUBSET Particle,
           b \cap (UNION ToSet(N)) = {}, NEW M, M = N \o Regroup(b)
    PROVE  /\ M \in Seq(SUBSET Particle) /\ GroupsApart(M)
           /\ UNION ToSet(M) = (UNION ToSet(N)) \cup (UNION ToSet(Regroup(b)))
           /\ \A g \in DOMAIN N : g \in DOMAIN M /\ M[g] = N[g]
<1> DEFINE s == Regroup(b)
<1>1. s \in Seq(SUBSET Particle)
  BY Branch
<1>2. /\ M \in Seq(SUBSET Particle) /\ Len(M) = Len(N) + Len(s)
      /\ ToSet(M) = ToSet(N) \cup ToSet(s)
      /\ \A i \in 1..Len(N) : M[i] = N[i]
      /\ \A i \in Len(N) + 1..Len(N) + Len(s) : M[i] = s[i - Len(N)]
  BY <1>1, Joined
<1>3. Len(N) \in Nat /\ Len(s) \in Nat /\ DOMAIN N = 1..Len(N) /\ DOMAIN M = 1..Len(N) + Len(s)
  BY <1>1, <1>2
<1>4. \A g \in DOMAIN N : g \in DOMAIN M /\ M[g] = N[g]
  BY <1>2, <1>3
<1>5. \A g \in DOMAIN N : N[g] \cap b = {}
  BY DEF ToSet
<1>6. \/ Len(s) = 1 /\ s[1] = b /\ Cardinality(b \cap massive) > 1
      \/ Len(s) = 0
  <2>1. \/ s = <<b>> /\ Cardinality(b \cap massive) > 1
        \/ s = <<>>
    BY Branch
  <2> QED
    BY <2>1
<1>7. \A g \in DOMAIN M : \/ g \in DOMAIN N
                          \/ g = Len(N) + 1 /\ M[g] = b /\ Cardinality(b \cap massive) > 1
  <2> SUFFICES ASSUME NEW g \in DOMAIN M, g \notin DOMAIN N
               PROVE  g = Len(N) + 1 /\ M[g] = b /\ Cardinality(b \cap massive) > 1
    OBVIOUS
  <2>1. g \in Len(N) + 1..Len(N) + Len(s)
    BY <1>3
  <2>2. Len(s) = 1 /\ s[1] = b /\ Cardinality(b \cap massive) > 1
    BY <1>3, <1>6, <2>1
  <2>3. g = Len(N) + 1 /\ g - Len(N) = 1
    BY <1>3, <2>1, <2>2
  <2> QED
    BY <1>2, <2>1, <2>2, <2>3
<1> HIDE DEF s
<1>8. GroupsApart(M)
  BY <1>4, <1>5, <1>7 DEF GroupsApart
<1> QED
  BY <1>2, <1>4, <1>8 DEF s

\* A cleared slot
LEMMA EmptyGroup == NewGroup({}) \in GroupEntry /\ NewGroup({}).member = {}
BY DEF NewGroup, GroupEntry

\* What breakGroups does with one group
LEMMA BreakStep ==
    ASSUME Inv, BreakGroup
    PROVE  \E k, left, right, b :
              /\ k \in Slots /\ k = adj.brk[adj.cursor] /\ adj.cursor \in DOMAIN adj.brk
              /\ left \in SUBSET Particle /\ right \in SUBSET Particle
              /\ groups[k].member = left \cup right /\ left \cap right = {}
              /\ groups' = [groups EXCEPT ![k] = NewGroup({})]
              /\ groupMask' = groupMask \cup {k} /\ freeSlots' = Append(freeSlots, k)
              /\ singleMask' = singleMask \ (Unmasked(left) \cup Unmasked(right))
              /\ b = adj'
              /\ b = [brk |-> adj.brk, noAdd |-> adj.noAdd,
                      newGroup |-> (adj.newGroup \o Regroup(left)) \o Regroup(right),
                      newSingle |-> (adj.newSingle \o SetToSeq(Single(left))) \o SetToSeq(Single(right)),
                      used |-> adj.used, cursor |-> adj.cursor + 1]
<1>1. TypeOK /\ adj \in AdjShape /\ pc = "breakGroups" /\ adj.cursor <= Len(adj.brk)
  BY DEF Inv, AdjOK, Adjusting, BreakGroup
<1>2. PICK k : k = adj.brk[adj.cursor]
  OBVIOUS
<1>3. adj.cursor \in DOMAIN adj.brk /\ k \in Slots
  <2>1. adj.cursor \in Nat \ {0} /\ adj.brk \in Seq(Slots)
    BY <1>1 DEF AdjShape
  <2> QED
    BY <1>1, <1>2, <2>1
<1>4. PICK m : m = groups[k].member
  OBVIOUS
<1>5. m \in SUBSET Particle
  BY <1>1, <1>3, <1>4, Kinds DEF GroupEntry
<1>6. PICK left \in LeftBranches(m) :
          /\ adj' = [adj EXCEPT
                       !.cursor = @ + 1,
                       !.newSingle = @ \o SetToSeq(Single(left)) \o SetToSeq(Single(m \ left)),
                       !.newGroup = @ \o Regroup(left) \o Regroup(m \ left)]
          /\ singleMask' = singleMask \ (Unmasked(left) \cup Unmasked(m \ left))
  BY <1>2, <1>4 DEF BreakGroup
<1>7. left \subseteq m
  BY <1>6 DEF LeftBranches
<1>8. PICK right : right = m \ left
  OBVIOUS
<1>9. /\ left \in SUBSET Particle /\ right \in SUBSET Particle
      /\ groups[k].member = left \cup right /\ left \cap right = {}
  BY <1>4, <1>5, <1>7, <1>8
<1>10. PICK a : a = adj
  OBVIOUS
<1>11. PICK ng, ns, c :
          /\ ng = (adj.newGroup \o Regroup(left)) \o Regroup(right)
          /\ ns = (adj.newSingle \o SetToSeq(Single(left))) \o SetToSeq(Single(right))
          /\ c = adj.cursor + 1
  OBVIOUS
<1>12. adj' = [brk |-> a.brk, noAdd |-> a.noAdd, newGroup |-> ng, newSingle |-> ns,
               used |-> a.used, cursor |-> c]
  <2>1. a = [brk |-> a.brk, noAdd |-> a.noAdd, newGroup |-> a.newGroup,
             newSingle |-> a.newSingle, used |-> a.used, cursor |-> a.cursor]
    BY <1>1, <1>10 DEF AdjShape
  <2>2. adj' = [[[a EXCEPT !.cursor = c] EXCEPT !.newSingle = ns] EXCEPT !.newGroup = ng]
    BY <1>6, <1>8, <1>10, <1>11, <2>1
  <2>3. [a EXCEPT !.cursor = c]
           = [brk |-> a.brk, noAdd |-> a.noAdd, newGroup |-> a.newGroup,
              newSingle |-> a.newSingle, used |-> a.used, cursor |-> c]
    BY <2>1
  <2>4. [[brk |-> a.brk, noAdd |-> a.noAdd, newGroup |-> a.newGroup,
          newSingle |-> a.newSingle, used |-> a.used, cursor |-> c] EXCEPT !.newSingle = ns]
           = [brk |-> a.brk, noAdd |-> a.noAdd, newGroup |-> a.newGroup,
              newSingle |-> ns, used |-> a.used, cursor |-> c]
    OBVIOUS
  <2>5. [[brk |-> a.brk, noAdd |-> a.noAdd, newGroup |-> a.newGroup,
          newSingle |-> ns, used |-> a.used, cursor |-> c] EXCEPT !.newGroup = ng]
           = [brk |-> a.brk, noAdd |-> a.noAdd, newGroup |-> ng,
              newSingle |-> ns, used |-> a.used, cursor |-> c]
    OBVIOUS
  <2> QED
    BY <2>2, <2>3, <2>4, <2>5
<1>13. /\ groups' = [groups EXCEPT ![k] = NewGroup({})]
       /\ groupMask' = groupMask \cup {k} /\ freeSlots' = Append(freeSlots, k)
  BY <1>2 DEF BreakGroup
<1>14. PICK b : b = adj'
  OBVIOUS
<1>15. /\ b = [brk |-> adj.brk, noAdd |-> adj.noAdd,
               newGroup |-> (adj.newGroup \o Regroup(left)) \o Regroup(right),
               newSingle |-> (adj.newSingle \o SetToSeq(Single(left))) \o SetToSeq(Single(right)),
               used |-> adj.used, cursor |-> adj.cursor + 1]
  BY <1>10, <1>11, <1>12, <1>14
<1> QED
  BY <1>2, <1>3, <1>6, <1>8, <1>9, <1>13, <1>14, <1>15

\* What two branches add to the new groups N, now M, and to the singles s, now t
Parted(N, s, left, right, M, t) ==
    /\ M \in Seq(SUBSET Particle) /\ GroupsApart(M)
    /\ \A g \in DOMAIN N : g \in DOMAIN M /\ M[g] = N[g]
    /\ UNION ToSet(N) \subseteq UNION ToSet(M)
    /\ UNION ToSet(M) \subseteq (UNION ToSet(N)) \cup (left \cup right)
    /\ t \in Seq(Particle) /\ IsInjective(t)
    /\ ToSet(t) = ToSet(s) \cup Single(left) \cup Single(right)
    /\ ToSet(t) \cap (UNION ToSet(M)) = {}
    /\ (left \cup right) \cap massive \subseteq ToSet(t) \cup (UNION ToSet(M))

\* The two branches of a group, and what the group leaves behind
LEMMA Parting ==
    ASSUME NEW N \in Seq(SUBSET Particle), GroupsApart(N),
           NEW s \in Seq(Particle), IsInjective(s), ToSet(s) \cap (UNION ToSet(N)) = {},
           NEW left \in SUBSET Particle, NEW right \in SUBSET Particle, left \cap right = {},
           (left \cup right) \cap (UNION ToSet(N)) = {}, (left \cup right) \cap ToSet(s) = {},
           NEW M, M = (N \o Regroup(left)) \o Regroup(right),
           NEW t, t = (s \o SetToSeq(Single(left))) \o SetToSeq(Single(right))
    PROVE  Parted(N, s, left, right, M, t)
<1> DEFINE R(b) == UNION ToSet(Regroup(b))
           T == UNION ToSet(N)
           s1 == s \o SetToSeq(Single(left))
<1>1. /\ Single(left) \subseteq left \cap massive /\ R(left) \subseteq left
      /\ Single(left) \cap R(left) = {} /\ left \cap massive \subseteq Single(left) \cup R(left)
  BY Branch
<1>2. /\ Single(right) \subseteq right \cap massive /\ R(right) \subseteq right
      /\ Single(right) \cap R(right) = {} /\ right \cap massive \subseteq Single(right) \cup R(right)
  BY Branch
<1>31. PICK N1 : N1 = N \o Regroup(left)
  OBVIOUS
<1>32. left \cap (UNION ToSet(N)) = {}
  OBVIOUS
<1>3. /\ N1 \in Seq(SUBSET Particle) /\ GroupsApart(N1)
      /\ UNION ToSet(N1) = T \cup R(left)
      /\ \A g \in DOMAIN N : g \in DOMAIN N1 /\ N1[g] = N[g]
  BY <1>31, <1>32, OneMore
<1>16. M = N1 \o Regroup(right)
  BY <1>31
<1>4. /\ M \in Seq(SUBSET Particle) /\ GroupsApart(M)
      /\ UNION ToSet(M) = (UNION ToSet(N1)) \cup R(right)
      /\ \A g \in DOMAIN N1 : g \in DOMAIN M /\ M[g] = N1[g]
  <2>1. right \cap (UNION ToSet(N1)) = {}
    BY <1>1, <1>3
  <2> QED
    BY <1>3, <1>16, <2>1, OneMore
<1>5. /\ SetToSeq(Single(left)) \in Seq(Particle) /\ IsInjective(SetToSeq(Single(left)))
      /\ ToSet(SetToSeq(Single(left))) = Single(left)
  <2>1. Single(left) \in SUBSET Particle
    BY <1>1
  <2>2. IsFiniteSet(Single(left))
    BY <2>1, FiniteParts
  <2>3. /\ SetToSeq(Single(left)) \in Seq(Single(left)) /\ IsInjective(SetToSeq(Single(left)))
        /\ ToSet(SetToSeq(Single(left))) = Single(left)
    BY <2>2, SequenceOf
  <2> QED
    BY <2>1, <2>3
<1>6. /\ SetToSeq(Single(right)) \in Seq(Particle) /\ IsInjective(SetToSeq(Single(right)))
      /\ ToSet(SetToSeq(Single(right))) = Single(right)
  <2>1. Single(right) \in SUBSET Particle
    BY <1>2
  <2>2. IsFiniteSet(Single(right))
    BY <2>1, FiniteParts
  <2>3. /\ SetToSeq(Single(right)) \in Seq(Single(right)) /\ IsInjective(SetToSeq(Single(right)))
        /\ ToSet(SetToSeq(Single(right))) = Single(right)
    BY <2>2, SequenceOf
  <2> QED
    BY <2>1, <2>3
<1>7. s1 \in Seq(Particle) /\ IsInjective(s1) /\ ToSet(s1) = ToSet(s) \cup Single(left)
  <2>1. ToSet(s) \cap Single(left) = {}
    BY <1>1
  <2> QED
    BY <1>5, <2>1, Joined
<1>17. t = s1 \o SetToSeq(Single(right))
  OBVIOUS
<1> HIDE DEF s1
<1>8. t \in Seq(Particle) /\ IsInjective(t) /\ ToSet(t) = ToSet(s1) \cup Single(right)
  <2>1. ToSet(s1) \cap Single(right) = {}
    BY <1>1, <1>2, <1>7
  <2> QED
    BY <1>6, <1>7, <1>17, <2>1, Joined
<1>9. ToSet(t) = ToSet(s) \cup Single(left) \cup Single(right)
  BY <1>7, <1>8
<1>10. UNION ToSet(M) = (T \cup R(left)) \cup R(right)
  BY <1>3, <1>4
<1> HIDE DEF R
<1>11. ToSet(t) \cap ((T \cup R(left)) \cup R(right)) = {}
  BY <1>1, <1>2, <1>9
<1>12. (left \cup right) \cap massive \subseteq ToSet(t) \cup ((T \cup R(left)) \cup R(right))
  BY <1>1, <1>2, <1>9
<1>13. UNION ToSet(M) \subseteq T \cup (left \cup right) /\ T \subseteq UNION ToSet(M)
  BY <1>1, <1>2, <1>10
<1>14. \A g \in DOMAIN N : g \in DOMAIN M /\ M[g] = N[g]
  BY <1>3, <1>4
<1>15. /\ ToSet(t) \cap (UNION ToSet(M)) = {}
       /\ (left \cup right) \cap massive \subseteq ToSet(t) \cup (UNION ToSet(M))
  BY <1>10, <1>11, <1>12
<1> QED
  BY <1>4, <1>8, <1>9, <1>13, <1>14, <1>15 DEF Parted

\* breakGroups, one group: no particle with mass is forgotten.
LEMMA BreakGroupInv ==
    ASSUME Inv, BreakGroup
    PROVE  Inv'
<1>1. TypeOK /\ ListsOK /\ MembersOK /\ AdjOK /\ TimeInv
  BY DEF Inv
<1>2. /\ pc = "breakGroups" /\ pc' = "breakGroups"
      /\ UNCHANGED <<stage, clock, massive, ptcl, lists, merger>>
  BY DEF BreakGroup
<1>3. PICK k, left, right, b :
         /\ k \in Slots /\ k = adj.brk[adj.cursor] /\ adj.cursor \in DOMAIN adj.brk
         /\ left \in SUBSET Particle /\ right \in SUBSET Particle
         /\ groups[k].member = left \cup right /\ left \cap right = {}
         /\ groups' = [groups EXCEPT ![k] = NewGroup({})]
         /\ groupMask' = groupMask \cup {k} /\ freeSlots' = Append(freeSlots, k)
         /\ singleMask' = singleMask \ (Unmasked(left) \cup Unmasked(right))
         /\ b = adj'
         /\ b = [brk |-> adj.brk, noAdd |-> adj.noAdd,
                 newGroup |-> (adj.newGroup \o Regroup(left)) \o Regroup(right),
                 newSingle |-> (adj.newSingle \o SetToSeq(Single(left))) \o SetToSeq(Single(right)),
                 used |-> adj.used, cursor |-> adj.cursor + 1]
  BY BreakStep
<1>4. /\ adj \in AdjShape /\ Formed(adj) /\ DissolvingOK
      /\ IsInjective(adj.brk) /\ IsInjective(adj.noAdd) /\ Broken \cap NotAdded = {}
      /\ Broken \cup NotAdded \subseteq ToSet(groupList)
      /\ IsInjective(adj.newSingle) /\ ToSet(adj.newSingle) \cap Taken = {}
  BY <1>1, <1>2 DEF AdjOK, Adjusting
<1>5. /\ b.brk = adj.brk /\ b.noAdd = adj.noAdd /\ b.used = adj.used /\ b.cursor = adj.cursor + 1
      /\ b.newGroup = (adj.newGroup \o Regroup(left)) \o Regroup(right)
      /\ b.newSingle = (adj.newSingle \o SetToSeq(Single(left))) \o SetToSeq(Single(right))
      /\ b = [brk |-> b.brk, noAdd |-> b.noAdd, newGroup |-> b.newGroup, newSingle |-> b.newSingle,
              used |-> b.used, cursor |-> b.cursor]
  BY <1>3
<1>6. /\ adj.brk \in Seq(Slots) /\ adj.noAdd \in Seq(Slots) /\ adj.newGroup \in Seq(SUBSET Particle)
      /\ adj.newSingle \in Seq(Particle) /\ adj.cursor \in Nat \ {0}
      /\ adj.used \in [Particle \cup Slots -> Int]
  BY <1>4 DEF AdjShape
<1> DEFINE m == left \cup right
\* The group is in use, and what it shares with others is nothing.
<1>7. /\ k \in Broken /\ k \notin groupMask /\ k \in Busy /\ k \notin NotAdded
      /\ m \subseteq singleMask /\ m \cap Taken = {} /\ m \cap ToSet(adj.newSingle) = {}
      /\ m \cap ToSet(singles) = {}
  <2>1. k \in Broken
    BY <1>3 DEF Broken, ToSet
  <2>2. k \notin groupMask
    BY <1>3, <1>4, <1>6 DEF DissolvingOK
  <2>3. k \in Busy /\ k \notin NotAdded
    BY <1>4, <2>1, <2>2 DEF Busy
  <2>4. m \subseteq singleMask /\ m \cap Taken = {}
    BY <1>1, <1>3, <1>4, <2>3 DEF MembersOK, DissolvingOK
  <2>5. m \cap ToSet(adj.newSingle) = {}
    BY <1>4, <2>4 DEF DissolvingOK
  <2>6. m \cap ToSet(singles) = {}
    BY <1>1, <2>4 DEF MembersOK
  <2> QED
    BY <2>1, <2>2, <2>3, <2>4, <2>5, <2>6
<1>8. /\ b.newGroup \in Seq(SUBSET Particle) /\ GroupsApart(b.newGroup)
      /\ \A g \in DOMAIN adj.newGroup : g \in DOMAIN b.newGroup /\ b.newGroup[g] = adj.newGroup[g]
      /\ Taken \subseteq UNION ToSet(b.newGroup)
      /\ UNION ToSet(b.newGroup) \subseteq Taken \cup m
      /\ b.newSingle \in Seq(Particle) /\ IsInjective(b.newSingle)
      /\ ToSet(b.newSingle) = ToSet(adj.newSingle) \cup Single(left) \cup Single(right)
      /\ ToSet(b.newSingle) \cap (UNION ToSet(b.newGroup)) = {}
      /\ m \cap massive \subseteq ToSet(b.newSingle) \cup (UNION ToSet(b.newGroup))
  <2>1. PICK N, s : N = adj.newGroup /\ s = adj.newSingle
    OBVIOUS
  <2>2. GroupsApart(N) /\ N \in Seq(SUBSET Particle) /\ Taken = UNION ToSet(N)
    BY <1>4, <1>6, <2>1 DEF Formed, GroupsApart, Taken
  <2>3. s \in Seq(Particle) /\ IsInjective(s) /\ ToSet(s) \cap (UNION ToSet(N)) = {}
    BY <1>4, <1>6, <2>1, <2>2
  <2>4. /\ (left \cup right) \cap (UNION ToSet(N)) = {} /\ (left \cup right) \cap ToSet(s) = {}
        /\ left \in SUBSET Particle /\ right \in SUBSET Particle /\ left \cap right = {}
    BY <1>3, <1>7, <2>1, <2>2
  <2>5. PICK M, t : /\ M = (N \o Regroup(left)) \o Regroup(right)
                    /\ t = (s \o SetToSeq(Single(left))) \o SetToSeq(Single(right))
    OBVIOUS
  <2>6. Parted(N, s, left, right, M, t)
    BY <2>2, <2>3, <2>4, <2>5, Parting
  <2>7. b.newGroup = M /\ b.newSingle = t
    BY <1>5, <2>1, <2>5
  <2> QED
    BY <2>1, <2>2, <2>6, <2>7 DEF Parted
<1>9. /\ Single(left) \subseteq m \cap massive /\ Single(right) \subseteq m \cap massive
      /\ Single(left) \subseteq Unmasked(left) /\ Single(right) \subseteq Unmasked(right)
      /\ Unmasked(left) \cup Unmasked(right) \subseteq m
  BY <1>3, Branch
<1>10. /\ groups \in Seq(GroupEntry) /\ groups' \in Seq(GroupEntry) /\ Len(groups') = Len(groups)
       /\ Slots' = Slots
       /\ \A l \in Slots : groups'[l] = IF l = k THEN NewGroup({}) ELSE groups[l]
  <2>1. groups \in Seq(GroupEntry) /\ k \in DOMAIN groups /\ NewGroup({}) \in GroupEntry
    BY <1>1, <1>3, EmptyGroup DEF TypeOK, GroupEntry, Slots
  <2> QED
    BY <1>3, <2>1, Replaced DEF Slots
<1>11. /\ freeSlots' \in Seq(Slots) /\ IsInjective(freeSlots') /\ ToSet(freeSlots') = ToSet(freeSlots) \cup {k}
  <2>1. freeSlots \in Seq(Slots) /\ IsInjective(freeSlots) /\ k \notin ToSet(freeSlots)
    BY <1>1, <1>7 DEF TypeOK, ListsOK
  <2> QED
    BY <1>3, <2>1, Extended
<1>12. /\ Broken' = Broken /\ NotAdded' = NotAdded /\ Taken' = UNION ToSet(b.newGroup)
       /\ Busy' = Busy \ {k} /\ Busy \subseteq Slots
  BY <1>1, <1>2, <1>3, <1>5 DEF Broken, NotAdded, Taken, Busy, lists, TypeOK, ToSet
<1> HIDE DEF m
<1>13. TypeOK'
  <2>1. singleMask' \subseteq Particle /\ groupMask' \subseteq Slots
    BY <1>1, <1>3 DEF TypeOK
  <2> QED
    BY <1>1, <1>2, <1>10, <1>11, <2>1 DEF TypeOK, Calls, clock, lists, GroupEntry
<1>14. ListsOK'
  <2>1. groupMask' = ToSet(freeSlots') /\ Slots = ToSet(groupList) \cup groupMask'
    BY <1>1, <1>3, <1>11 DEF ListsOK
  <2>2. ToSet(groupList) \cap groupMask' \subseteq Broken
    BY <1>1, <1>2, <1>3, <1>7 DEF ListsOK
  <2>3. ListsOK /\ pc = "breakGroups"
    BY <1>1, <1>2
  <2> QED
    BY <1>2, <1>10, <1>11, <1>12, <2>1, <2>2, <2>3 DEF ListsOK, lists
<1>15. MembersOK'
  <2>1. \A l \in groupMask' : groups'[l].member = {}
    <3> SUFFICES ASSUME NEW l \in groupMask' PROVE groups'[l].member = {}
      OBVIOUS
    <3>1. l \in Slots
      BY <1>1, <1>3 DEF TypeOK
    <3> QED
      BY <1>1, <1>3, <1>10, <3>1, EmptyGroup DEF MembersOK
  <2>2. \A l \in Busy \ {k} : l \in Busy /\ l \in Slots /\ groups'[l] = groups[l]
    BY <1>10, <1>12
  <2>3. \A l \in Busy \ {k} : groups[l].member \cap m = {}
    BY <1>1, <1>3, <1>7 DEF MembersOK, m
  <2>4. \A l \in Busy \ {k} : /\ Cardinality(groups'[l].member) > 1 /\ groups'[l].member \subseteq singleMask'
                              /\ l \notin ToSet(merger) \cup Broken =>
                                     Cardinality(groups'[l].member \cap massive) > 1
    BY <1>1, <1>3, <1>9, <2>2, <2>3 DEF MembersOK
  <2>5. \A l, h \in Busy \ {k} : l # h => groups'[l].member \cap groups'[h].member = {}
    BY <1>1, <2>2 DEF MembersOK
  <2>6. ToSet(singles) \cap singleMask' = {} /\ 2 * Len(groups') <= Cardinality(Particle)
    BY <1>1, <1>3, <1>10 DEF MembersOK
  <2> QED
    BY <1>2, <1>12, <2>1, <2>4, <2>5, <2>6 DEF MembersOK, lists
<1>16. Grouped \subseteq Grouped' \cup m
  <2>1. \A l \in Busy \ {k} : groups'[l].member = groups[l].member
    BY <1>10, <1>12
  <2>2. groups[k].member = m
    BY <1>3 DEF m
  <2>3. \A l \in Busy : groups[l].member \subseteq m \/ (l \in Busy' /\ groups[l].member = groups'[l].member)
    BY <1>12, <2>1, <2>2
  <2> QED
    BY <2>3 DEF Grouped
<1>17. DissolvingOK'
  <2>1. b.cursor <= Len(b.brk) + 1
    BY <1>3, <1>5, <1>6
  <2>2. \A i \in DOMAIN b.brk : b.brk[i] \in groupMask' <=> i < b.cursor
    <3> SUFFICES ASSUME NEW i \in DOMAIN adj.brk
                 PROVE  adj.brk[i] \in groupMask \cup {k} <=> i < adj.cursor + 1
      BY <1>3, <1>5
    <3>1. adj.brk[i] \in groupMask <=> i < adj.cursor
      BY <1>4 DEF DissolvingOK
    <3>2. adj.brk[i] = k <=> i = adj.cursor
      BY <1>3, <1>4 DEF IsInjective
    <3>3. i \in Nat /\ adj.cursor \in Nat
      BY <1>6
    <3> QED
      BY <3>1, <3>2, <3>3
  <2>3. /\ ToSet(b.newSingle) \subseteq massive
        /\ ToSet(b.newSingle) \cap (ToSet(singles) \cup singleMask') = {}
    BY <1>3, <1>4, <1>7, <1>8, <1>9 DEF DissolvingOK
  <2>4. \A l \in Busy' \ NotAdded : groups'[l].member \cap Taken' = {}
    <3> SUFFICES ASSUME NEW l \in Busy \ NotAdded, l # k PROVE groups'[l].member \cap Taken' = {}
      BY <1>12
    <3>1. groups'[l].member = groups[l].member
      BY <1>10, <1>12
    <3>2. groups[l].member \cap m = {}
      BY <1>1, <1>3, <1>7 DEF MembersOK, m
    <3>3. groups[l].member \cap Taken = {}
      BY <1>4 DEF DissolvingOK
    <3> QED
      BY <1>8, <1>12, <3>1, <3>2, <3>3
  <2>5. \A l \in NotAdded : \E g \in DOMAIN b.newGroup : groups'[l].member \subseteq b.newGroup[g]
    <3> SUFFICES ASSUME NEW l \in NotAdded
                 PROVE  \E g \in DOMAIN b.newGroup : groups'[l].member \subseteq b.newGroup[g]
      OBVIOUS
    <3>1. l \in Slots /\ l # k
      BY <1>6, <1>7 DEF NotAdded, ToSet
    <3>2. groups'[l].member = groups[l].member
      BY <1>10, <3>1
    <3>3. PICK g \in DOMAIN adj.newGroup : groups[l].member \subseteq adj.newGroup[g]
      BY <1>4 DEF DissolvingOK
    <3> QED
      BY <1>8, <3>2, <3>3
  <2>6. massive \subseteq ToSet(singles) \cup Grouped' \cup ToSet(b.newSingle) \cup Taken'
    <3>1. massive \subseteq ToSet(singles) \cup Grouped \cup ToSet(adj.newSingle) \cup Taken
      BY <1>4 DEF DissolvingOK
    <3>2. ToSet(adj.newSingle) \subseteq ToSet(b.newSingle)
      BY <1>8
    <3>3. m \cap massive \subseteq ToSet(b.newSingle) \cup Taken'
      BY <1>8, <1>12
    <3> QED
      BY <1>8, <1>12, <1>16, <3>1, <3>2, <3>3
  <2> QED
    BY <1>2, <1>3, <1>12, <2>1, <2>2, <2>3, <2>4, <2>5, <2>6 DEF DissolvingOK, lists
<1>18. AdjOK'
  <2>1. Formed(b)'
    BY <1>2, <1>8 DEF Formed, GroupsApart
  <2>2. b \in AdjShape'
    <3>1. adj.cursor + 1 \in Nat \ {0}
      BY <1>6
    <3> QED
      BY <1>5, <1>6, <1>8, <1>10, <3>1 DEF AdjShape
  <2>3. IsInjective(b.brk) /\ IsInjective(b.noAdd)
    BY <1>4, <1>5
  <2> QED
    BY <1>2, <1>3, <1>4, <1>8, <1>12, <1>17, <2>1, <2>2, <2>3
       DEF AdjOK, Adjusting, TablesSettled, lists
<1>19. TimeInv'
  <2>1. Leaving = groupMask \cup Broken \cup Taken /\ Leaving' = groupMask' \cup Broken \cup Taken'
    BY <1>2, <1>12 DEF Leaving
  <2>2. Leaving \subseteq Leaving' /\ k \in Leaving'
    BY <1>3, <1>8, <1>12, <2>1
  <2>3. /\ Waiting(singles, nActS) /\ Waiting(groupList, nActG)
        /\ Started(singles, nActS, nInitS) /\ Started(groupList, nActG, nInitG)
        /\ timeNextMin = time /\ Divides(Least, time) /\ time <= TimeEnd
    BY <1>1, <1>2 DEF TimeInv, Turning
  <2>4. ToSet(groupList) \subseteq Slots
    BY <1>1 DEF TypeOK, ToSet
  <2>5. /\ Waiting(singles, nActS)' /\ Waiting(groupList, nActG)'
        /\ Started(singles, nActS, nInitS)' /\ Started(groupList, nActG, nInitG)'
    BY <1>1, <1>2, <1>10, <2>2, <2>3, <2>4, ListsKept DEF clock
  <2>6. BrokenAtNow'
    <3> SUFFICES ASSUME NEW i \in adj.cursor + 1..Len(adj.brk) PROVE groups'[adj.brk[i]].time = time
      BY <1>2, <1>3, <1>5 DEF BrokenAtNow, clock
    <3>1. i \in adj.cursor..Len(adj.brk) /\ i # adj.cursor /\ i \in DOMAIN adj.brk
      BY <1>6
    <3>2. adj.brk[i] # k /\ adj.brk[i] \in Slots
      BY <1>3, <1>4, <1>6, <3>1 DEF IsInjective
    <3>3. groups[adj.brk[i]].time = time
      BY <1>1, <1>2, <3>1 DEF TimeInv, BrokenAtNow
    <3> QED
      BY <1>10, <3>2, <3>3
  <2> QED
    BY <1>2, <2>3, <2>5, <2>6 DEF TimeInv, Turning, clock
<1> QED
  BY <1>13, <1>14, <1>15, <1>18, <1>19 DEF Inv

-----------------------------------------------------------------------------
(* adjustGroups: the released singles, and the slots that were joined      *)

\* The next list u keeps what it keeps of a list in order, and its entries as
\* they are.
LEMMA ListsCarried ==
    ASSUME NEW s, NEW n, NEW c, Waiting(s, n), Started(s, n, c), UNCHANGED <<time, timeNextMin>>,
           NEW u, NEW m, NEW d, NEW f,
           \A i \in d + 1..m : u[i] \notin Leaving' =>
               /\ f[i] \in c + 1..n /\ s[f[i]] = u[i] /\ u[i] \notin Leaving
               /\ Entry(u[i])' = Entry(u[i]),
           \A i \in m + 1..Len(u) : u[i] \notin Leaving' =>
               /\ f[i] \in n + 1..Len(s) /\ s[f[i]] = u[i] /\ u[i] \notin Leaving
               /\ Entry(u[i])' = Entry(u[i]),
           \A i, j \in m + 1..Len(u) : i < j => f[i] < f[j]
    PROVE  Waiting(u, m)' /\ Started(u, m, d)'
<1>1. \A i \in d + 1..m : u[i] \notin Leaving' =>
          OnGrid(Entry(u[i])') /\ Entry(u[i])'.time = time
  BY DEF Started
<1>2. \A i \in m + 1..Len(u) : u[i] \notin Leaving' =>
          /\ OnGrid(Entry(u[i])')
          /\ Entry(u[i])'.time < timeNextMin /\ timeNextMin < Entry(u[i])'.next
  BY DEF Waiting
<1>3. \A i, j \in m + 1..Len(u) : i < j /\ u[i] \notin Leaving' /\ u[j] \notin Leaving' =>
          /\ Entry(u[i])'.next <= Entry(u[j])'.next
          /\ Entry(u[i])'.dt <= Entry(u[j])'.dt
  <2> SUFFICES ASSUME NEW i \in m + 1..Len(u), NEW j \in m + 1..Len(u), i < j,
                      u[i] \notin Leaving', u[j] \notin Leaving'
               PROVE  /\ Entry(u[i])'.next <= Entry(u[j])'.next
                      /\ Entry(u[i])'.dt <= Entry(u[j])'.dt
    OBVIOUS
  <2>1. /\ f[i] \in n + 1..Len(s) /\ f[j] \in n + 1..Len(s) /\ f[i] < f[j]
        /\ s[f[i]] = u[i] /\ s[f[j]] = u[j] /\ u[i] \notin Leaving /\ u[j] \notin Leaving
        /\ Entry(u[i])' = Entry(u[i]) /\ Entry(u[j])' = Entry(u[j])
    OBVIOUS
  <2> QED
    BY <2>1 DEF Waiting
<1>4. Waiting(u, m)'
  BY <1>2, <1>3 DEF Waiting, OnGrid
<1>5. Started(u, m, d)'
  BY <1>1 DEF Started, OnGrid
<1> QED
  BY <1>4, <1>5

\* Types after the release
LEMMA ReleaseType ==
    ASSUME Inv, ReleaseSingles
    PROVE  /\ TypeOK' /\ groups' \in Seq(GroupEntry) /\ Len(groups') = Len(groups) /\ Slots' = Slots
           /\ \A k \in Slots : groups'[k] = IF k \in NotAdded THEN NewGroup({}) ELSE groups[k]
<1>1. TypeOK /\ ListsOK /\ adj \in AdjShape /\ pc = "breakGroups" /\ pc' = "addGroups"
      /\ UNCHANGED <<stage, clock, massive, ptcl, merger, adj>>
  BY DEF Inv, AdjOK, Adjusting, ReleaseSingles
<1>2. /\ nInitS \in 0..nActS /\ nActS \in 0..Len(singles) /\ singles \in Seq(Particle)
      /\ nInitG \in 0..nActG /\ nActG \in 0..Len(groupList) /\ groupList \in Seq(Slots)
      /\ adj.newSingle \in Seq(Particle) /\ adj.noAdd \in Seq(Slots) /\ freeSlots \in Seq(Slots)
  BY <1>1 DEF TypeOK, AdjShape
<1> DEFINE mask == groupMask \cup NotAdded
<1>3. /\ singles' = adj.newSingle \o singles
      /\ nInitS' = nInitS + Len(adj.newSingle)
      /\ nActS' = nActS + Len(adj.newSingle)
      /\ singleMask' = singleMask \ UNION {groups[k].member : k \in NotAdded}
      /\ groups' = [k \in Slots |-> IF k \in NotAdded THEN NewGroup({}) ELSE groups[k]]
      /\ groupMask' = mask
      /\ freeSlots' = freeSlots \o adj.noAdd
      /\ groupList' = Removed(groupList, mask)
      /\ nActG' = Remaining(groupList, nActG, mask)
      /\ nInitG' = Remaining(groupList, nInitG, mask)
  BY DEF ReleaseSingles, NotAdded
<1> HIDE DEF mask
<1>4. /\ singles' \in Seq(Particle) /\ nInitS' \in 0..nActS' /\ nActS' \in 0..Len(singles')
  <2>1. singles' \in Seq(Particle) /\ Len(singles') = Len(adj.newSingle) + Len(singles)
    BY <1>2, <1>3, Joined
  <2>2. Len(adj.newSingle) \in Nat /\ Len(singles) \in Nat
    BY <1>2
  <2> QED
    BY <1>2, <1>3, <2>1, <2>2
<1>5. freeSlots' \in Seq(Slots)
  BY <1>2, <1>3, Joined
<1>6. groupList' \in Seq(Slots) /\ nInitG' \in 0..nActG' /\ nActG' \in 0..Len(groupList')
  <2>1. groupList' \in Seq(Slots)
    BY <1>2, <1>3, RemovedProps
  <2>2. /\ Remaining(groupList, nActG, mask) \in 0..Len(Removed(groupList, mask))
        /\ Remaining(groupList, nInitG, mask) <= Remaining(groupList, nActG, mask)
    BY <1>2, RemainingProps
  <2>3. nInitG \in 0..Len(groupList)
    BY <1>2
  <2>4. Remaining(groupList, nInitG, mask) \in 0..Len(Removed(groupList, mask))
    BY <1>2, <2>3, RemainingProps
  <2> QED
    BY <1>3, <2>1, <2>2, <2>4
<1>7. /\ groups' \in Seq(GroupEntry) /\ Len(groups') = Len(groups) /\ Slots' = Slots
  <2>1. Len(groups) \in Nat /\ Slots = 1..Len(groups) /\ \A k \in Slots : groups[k] \in GroupEntry
    BY <1>1, Kinds
  <2>2. groups' \in [1..Len(groups) -> GroupEntry]
    BY <1>3, <2>1, EmptyGroup
  <2>3. groups' \in Seq(GroupEntry) /\ Len(groups') = Len(groups)
    BY <2>1, <2>2
  <2> QED
    BY <2>1, <2>2, <2>3 DEF Slots
<1>8. singleMask' \subseteq Particle /\ groupMask' \subseteq Slots
  <2>1. NotAdded \subseteq Slots
    BY <1>2 DEF NotAdded, ToSet
  <2> QED
    BY <1>1, <1>3, <2>1 DEF TypeOK, mask
<1>9. TypeOK'
  BY <1>1, <1>4, <1>5, <1>6, <1>7, <1>8 DEF TypeOK, Calls, clock, GroupEntry
<1> QED
  BY <1>3, <1>7, <1>9

\* breakGroups, the rest: the slots of the list are those in use again.
LEMMA ReleaseInv ==
    ASSUME Inv, ReleaseSingles
    PROVE  Inv'
<1>1. TypeOK /\ ListsOK /\ MembersOK /\ AdjOK /\ TimeInv
  BY DEF Inv
<1>2. /\ pc = "breakGroups" /\ pc' = "addGroups" /\ adj.cursor > Len(adj.brk)
      /\ UNCHANGED <<stage, clock, massive, ptcl, merger, adj>>
  BY DEF ReleaseSingles
<1> DEFINE mask == groupMask \cup NotAdded
<1>3. /\ singles' = adj.newSingle \o singles
      /\ nInitS' = nInitS + Len(adj.newSingle)
      /\ nActS' = nActS + Len(adj.newSingle)
      /\ singleMask' = singleMask \ UNION {groups[k].member : k \in NotAdded}
      /\ groupMask' = mask
      /\ freeSlots' = freeSlots \o adj.noAdd
      /\ groupList' = Removed(groupList, mask)
      /\ nActG' = Remaining(groupList, nActG, mask)
      /\ nInitG' = Remaining(groupList, nInitG, mask)
  BY DEF ReleaseSingles, NotAdded
<1> HIDE DEF mask
<1>4. /\ TypeOK' /\ groups' \in Seq(GroupEntry) /\ Len(groups') = Len(groups) /\ Slots' = Slots
      /\ \A k \in Slots : groups'[k] = IF k \in NotAdded THEN NewGroup({}) ELSE groups[k]
  BY ReleaseType
<1>5. /\ adj \in AdjShape /\ Formed(adj) /\ DissolvingOK
      /\ IsInjective(adj.brk) /\ IsInjective(adj.noAdd) /\ Broken \cap NotAdded = {}
      /\ Broken \cup NotAdded \subseteq ToSet(groupList)
      /\ IsInjective(adj.newSingle) /\ ToSet(adj.newSingle) \cap Taken = {}
  BY <1>1, <1>2 DEF AdjOK, Adjusting
<1>6. /\ singles \in Seq(Particle) /\ nInitS = 0 /\ nActS \in 0..Len(singles)
      /\ groupList \in Seq(Slots) /\ nInitG = 0 /\ nActG \in 0..Len(groupList)
      /\ freeSlots \in Seq(Slots) /\ groupMask \subseteq Slots /\ singleMask \subseteq Particle
      /\ ToSet(groupList) \subseteq Slots
  BY <1>1, <1>2 DEF TypeOK, ListsOK, ToSet
<1>7. /\ adj.newSingle \in Seq(Particle) /\ adj.noAdd \in Seq(Slots) /\ adj.brk \in Seq(Slots)
      /\ adj.cursor \in Nat
  BY <1>5 DEF AdjShape
<1>8. Broken \subseteq groupMask
  <2> SUFFICES ASSUME NEW i \in DOMAIN adj.brk PROVE adj.brk[i] \in groupMask
    BY DEF Broken, ToSet
  <2>1. i < adj.cursor
    BY <1>2, <1>7
  <2> QED
    BY <1>5, <2>1 DEF DissolvingOK
<1>9. NotAdded \cap groupMask = {} /\ NotAdded \subseteq Busy
  BY <1>1, <1>2, <1>5 DEF ListsOK, Busy
<1>10. /\ ToSet(groupList') = ToSet(groupList) \ mask /\ IsInjective(groupList')
       /\ Busy' = Busy \ NotAdded /\ Busy \subseteq Slots
  <2>1. ToSet(groupList') = ToSet(groupList) \ mask /\ IsInjective(groupList')
    BY <1>1, <1>3, <1>6, RemovedProps DEF ListsOK
  <2> QED
    BY <1>3, <1>6, <2>1 DEF Busy, mask
<1>11. ToSet(singles') = ToSet(adj.newSingle) \cup ToSet(singles) /\ IsInjective(singles')
  <2>1. ToSet(adj.newSingle) \cap ToSet(singles) = {} /\ IsInjective(singles)
    BY <1>1, <1>5 DEF DissolvingOK, ListsOK
  <2> QED
    BY <1>3, <1>5, <1>6, <1>7, <2>1, Joined
<1>12. ToSet(freeSlots') = mask /\ IsInjective(freeSlots')
  <2>1. ToSet(freeSlots) = groupMask /\ IsInjective(freeSlots) /\ ToSet(adj.noAdd) = NotAdded
    BY <1>1 DEF ListsOK, NotAdded
  <2> QED
    BY <1>3, <1>5, <1>6, <1>7, <1>9, <2>1, Joined DEF mask
<1>13. Broken' = Broken /\ NotAdded' = NotAdded /\ Taken' = Taken
  BY <1>2 DEF Broken, NotAdded, Taken
<1>14. ListsOK'
  <2>1. Slots' = ToSet(groupList') \cup groupMask' /\ ToSet(groupList') \cap groupMask' = {}
    BY <1>1, <1>3, <1>4, <1>5, <1>10 DEF ListsOK, mask
  <2>2. merger = <<>>
    BY <1>1, <1>2 DEF ListsOK
  <2>3. IsInjective(merger') /\ ToSet(merger') = {} /\ merger' = <<>>
    BY <1>2, <2>2 DEF ToSet, IsInjective
  <2>4. groupMask' = ToSet(freeSlots')
    BY <1>3, <1>12
  <2> QED
    BY <1>2, <1>10, <1>11, <1>12, <2>1, <2>3, <2>4 DEF ListsOK
<1>15. \A k \in Busy \ NotAdded : k \in Busy /\ k \in Slots /\ groups'[k] = groups[k]
  BY <1>4, <1>10
<1>16. MembersOK'
  <2>1. \A k \in groupMask' : groups'[k].member = {}
    <3> SUFFICES ASSUME NEW k \in groupMask' PROVE groups'[k].member = {}
      OBVIOUS
    <3>1. k \in Slots /\ (k \in groupMask \/ k \in NotAdded)
      BY <1>3, <1>6, <1>5 DEF mask
    <3> QED
      BY <1>1, <1>4, <3>1, EmptyGroup DEF MembersOK
  <2>2. \A k \in Busy \ NotAdded : \A l \in NotAdded : groups[k].member \cap groups[l].member = {}
    BY <1>1, <1>9 DEF MembersOK
  <2>3. \A k \in Busy \ NotAdded :
            groups[k].member \cap (UNION {groups[l].member : l \in NotAdded}) = {}
    BY <2>2
  <2>4. \A k \in Busy \ NotAdded :
            /\ Cardinality(groups'[k].member) > 1 /\ groups'[k].member \subseteq singleMask'
            /\ k \notin ToSet(merger) \cup Broken => Cardinality(groups'[k].member \cap massive) > 1
    BY <1>1, <1>3, <1>15, <2>3 DEF MembersOK
  <2>5. \A k, l \in Busy \ NotAdded : k # l => groups'[k].member \cap groups'[l].member = {}
    BY <1>1, <1>15 DEF MembersOK
  <2>6. ToSet(singles') \cap singleMask' = {}
    BY <1>1, <1>3, <1>5, <1>11 DEF MembersOK, DissolvingOK
  <2>7. 2 * Len(groups') <= Cardinality(Particle)
    BY <1>1, <1>4 DEF MembersOK
  <2> QED
    BY <1>2, <1>10, <1>13, <2>1, <2>4, <2>5, <2>6, <2>7 DEF MembersOK
<1>17. AddingOK'
  <2>1. Broken \subseteq groupMask'
    BY <1>3, <1>8 DEF mask
  <2>2. \A k \in Busy \ NotAdded : groups'[k].member \cap Taken = {}
    BY <1>5, <1>15 DEF DissolvingOK
  <2>3. Grouped' \cap Taken = {}
    BY <1>10, <2>2 DEF Grouped
  <2>4. \A k \in NotAdded : groups[k].member \subseteq Taken
    BY <1>5 DEF DissolvingOK, Taken, ToSet
  <2>5. Grouped \subseteq Grouped' \cup Taken
    <3>1. \A k \in Busy : \/ groups[k].member \subseteq Taken
                          \/ k \in Busy' /\ groups[k].member = groups'[k].member
      BY <1>10, <1>15, <2>4
    <3> QED
      BY <3>1 DEF Grouped
  <2>6. massive \subseteq ToSet(singles') \cup Grouped' \cup Taken
    BY <1>5, <1>11, <2>5 DEF DissolvingOK
  <2> QED
    BY <1>2, <1>13, <2>1, <2>3, <2>6 DEF AddingOK
<1>18. AdjOK'
  <2>1. adj \in AdjShape'
    BY <1>4, <1>5 DEF AdjShape
  <2>2. Formed(adj)'
    BY <1>2, <1>5 DEF Formed
  <2> QED
    BY <1>2, <1>5, <1>13, <1>17, <2>1, <2>2 DEF AdjOK, Adjusting, TablesSettled
<1>19. Leaving = groupMask \cup Broken \cup Taken /\ Leaving' = mask \cup Taken
  BY <1>2, <1>3, <1>13 DEF Leaving
<1>20. /\ Waiting(singles, nActS) /\ Waiting(groupList, nActG)
       /\ Started(singles, nActS, nInitS) /\ Started(groupList, nActG, nInitG)
       /\ timeNextMin = time /\ Divides(Least, time) /\ time <= TimeEnd
  BY <1>1, <1>2 DEF TimeInv, Turning
<1>21. UNCHANGED <<time, timeNextMin>>
  BY <1>2 DEF clock
<1>22. Waiting(singles, nActS)' /\ Started(singles, nActS, nInitS)'
  <2>1. PICK u, m, d, e : /\ u = singles' /\ m = nActS' /\ d = nInitS' /\ e = Len(adj.newSingle)
    OBVIOUS
  <2>2. PICK s, n : s = singles /\ n = nActS
    OBVIOUS
  <2>3. /\ e \in Nat /\ n \in 0..Len(s) /\ Len(s) \in Nat /\ Len(u) = e + Len(s)
        /\ m = n + e /\ d = e /\ \A i \in e + 1..e + Len(s) : u[i] = s[i - e]
    BY SMTT(20), <1>3, <1>6, <1>7, <2>1, <2>2, Joined
  <2> DEFINE f == [i \in e + 1..e + Len(s) |-> i - e]
  <2>4. \A i \in e + 1..e + Len(s) : u[i] \in Particle /\ Entry(u[i])' = Entry(u[i])
    BY SMTT(20), <1>2, <1>6, <2>2, <2>3 DEF Entry
  <2>5. \A i \in e + 1..e + Len(s) : u[i] \notin Leaving' => u[i] \notin Leaving
    BY <1>8, <1>19 DEF mask
  <2>6. /\ \A i \in d + 1..m : i \in e + 1..e + Len(s) /\ f[i] = i - e /\ f[i] \in 0 + 1..n
        /\ \A i \in m + 1..Len(u) : i \in e + 1..e + Len(s) /\ f[i] = i - e /\ f[i] \in n + 1..Len(s)
        /\ \A i, j \in m + 1..Len(u) : i < j => f[i] < f[j]
    BY <2>3
  <2> HIDE DEF f
  <2>7. Waiting(s, n) /\ Started(s, n, 0)
    BY <1>6, <1>20, <2>2
  <2>81. \A i \in d + 1..m : u[i] \notin Leaving' =>
            /\ f[i] \in 0 + 1..n /\ s[f[i]] = u[i] /\ u[i] \notin Leaving
            /\ Entry(u[i])' = Entry(u[i])
    BY <2>3, <2>4, <2>5, <2>6
  <2>82. \A i \in m + 1..Len(u) : u[i] \notin Leaving' =>
            /\ f[i] \in n + 1..Len(s) /\ s[f[i]] = u[i] /\ u[i] \notin Leaving
            /\ Entry(u[i])' = Entry(u[i])
    BY <2>3, <2>4, <2>5, <2>6
  <2>83. \A i, j \in m + 1..Len(u) : i < j => f[i] < f[j]
    BY <2>6
  <2>8. Waiting(u, m)' /\ Started(u, m, d)'
    BY <1>21, <2>7, <2>81, <2>82, <2>83, ListsCarried
  <2> QED
    BY <2>1, <2>8 DEF Waiting, Started
<1>23. Waiting(groupList, nActG)' /\ Started(groupList, nActG, nInitG)'
  <2>1. PICK u, m, d : u = groupList' /\ m = nActG' /\ d = nInitG'
    OBVIOUS
  <2>2. PICK s, n : s = groupList /\ n = nActG
    OBVIOUS
  <2>3. PICK f \in [DOMAIN Removed(s, mask) -> {i \in DOMAIN s : s[i] \notin mask}] :
           /\ \A r \in DOMAIN Removed(s, mask) :
                 /\ Removed(s, mask)[r] = s[f[r]]
                 /\ r <= Remaining(s, n, mask) <=> f[r] <= n
           /\ \A q, r \in DOMAIN Removed(s, mask) : q < r => f[q] < f[r]
    <3>1. s \in Seq(Slots) /\ n \in 0..Len(s)
      BY <1>6, <2>2
    <3> QED
      BY <3>1, RemainingProps
  <2>4. u = Removed(s, mask) /\ m = Remaining(s, n, mask)
    BY <1>3, <2>1, <2>2
  <2>5. /\ u \in Seq(Slots) /\ m \in 0..Len(u) /\ d \in Nat /\ s \in Seq(Slots) /\ n \in 0..Len(s)
    <3>1. /\ groupList' \in Seq(Slots) /\ nActG' \in 0..Len(groupList') /\ nInitG' \in 0..nActG'
      BY <1>4 DEF TypeOK
    <3> QED
      BY <1>6, <2>1, <2>2, <3>1
  <2>6. /\ DOMAIN u = 1..Len(u) /\ DOMAIN s = 1..Len(s) /\ Len(u) \in Nat /\ Len(s) \in Nat
    BY <2>5
  <2>7. \A i \in 1..Len(u) : /\ f[i] \in 1..Len(s) /\ s[f[i]] = u[i] /\ u[i] \notin mask
                             /\ i <= m <=> f[i] <= n
    BY <2>3, <2>4, <2>6
  <2>8. \A i \in 1..Len(u) : /\ u[i] \in Slots /\ (u[i] \notin Leaving' => u[i] \notin Leaving)
                             /\ Entry(u[i])' = Entry(u[i])
    <3> SUFFICES ASSUME NEW i \in 1..Len(u)
                 PROVE  /\ u[i] \in Slots /\ (u[i] \notin Leaving' => u[i] \notin Leaving)
                        /\ Entry(u[i])' = Entry(u[i])
      OBVIOUS
    <3>1. u[i] \in Slots /\ u[i] \notin mask
      BY <2>5, <2>6, <2>7
    <3>2. u[i] \notin Particle /\ groups'[u[i]] = groups[u[i]]
      BY <1>1, <1>4, <3>1, Kinds DEF mask
    <3> QED
      BY <1>8, <1>19, <3>1, <3>2 DEF Entry, mask
  <2>9. /\ \A i \in d + 1..m : i \in 1..Len(u) /\ f[i] \in 0 + 1..n
        /\ \A i \in m + 1..Len(u) : i \in 1..Len(u) /\ f[i] \in n + 1..Len(s)
        /\ \A i, j \in m + 1..Len(u) : i < j => f[i] < f[j]
    <3>1. \A i \in d + 1..m : i \in 1..Len(u) /\ i <= m
      BY <2>5, <2>6
    <3>2. \A i \in m + 1..Len(u) : i \in 1..Len(u) /\ ~(i <= m)
      BY <2>5, <2>6
    <3>3. n \in Nat
      BY <2>5
    <3>4. \A i \in d + 1..m : f[i] \in 0 + 1..n
      BY <2>6, <2>7, <3>1, <3>3
    <3>5. \A i \in m + 1..Len(u) : f[i] \in n + 1..Len(s)
      BY <2>6, <2>7, <3>2, <3>3
    <3>6. \A i, j \in m + 1..Len(u) : i < j => f[i] < f[j]
      BY <2>3, <2>4, <2>6, <3>2
    <3> QED
      BY <3>1, <3>2, <3>4, <3>5, <3>6
  <2>10. Waiting(s, n) /\ Started(s, n, 0)
    BY <1>6, <1>20, <2>2
  <2>12. \A i \in d + 1..m : u[i] \notin Leaving' =>
            /\ f[i] \in 0 + 1..n /\ s[f[i]] = u[i] /\ u[i] \notin Leaving
            /\ Entry(u[i])' = Entry(u[i])
    BY <2>7, <2>8, <2>9
  <2>13. \A i \in m + 1..Len(u) : u[i] \notin Leaving' =>
            /\ f[i] \in n + 1..Len(s) /\ s[f[i]] = u[i] /\ u[i] \notin Leaving
            /\ Entry(u[i])' = Entry(u[i])
    BY <2>7, <2>8, <2>9
  <2>14. \A i, j \in m + 1..Len(u) : i < j => f[i] < f[j]
    BY <2>9
  <2>11. Waiting(u, m)' /\ Started(u, m, d)'
    BY SMTT(20), <1>21, <2>10, <2>12, <2>13, <2>14, ListsCarried
  <2> QED
    BY <2>1, <2>11 DEF Waiting, Started
<1>24. TimeInv'
  BY <1>2, <1>20, <1>21, <1>22, <1>23 DEF TimeInv, Turning, BrokenAtNow
<1> QED
  BY <1>4, <1>14, <1>16, <1>18, <1>24 DEF Inv

-----------------------------------------------------------------------------
(* addGroups                                                               *)

\* What addGroups does to the slots: slot[i] is given to new group i.
SlotsGiven(new, slot, m) ==
    /\ m \in Nat /\ Len(groups) <= m
    /\ slot \in Seq(1..m) /\ Len(slot) = Len(new) /\ IsInjective(slot)
    /\ Slots' = 1..m /\ groups' \in Seq(GroupEntry) /\ Len(groups') = m
    /\ \A i \in 1..Len(new) : groups'[slot[i]] = NewGroup(new[i])
    /\ \A k \in Slots \ ToSet(slot) : groups'[k] = groups[k]
    /\ groupMask' = groupMask \ ToSet(slot) /\ groupMask' = ToSet(freeSlots')
    /\ freeSlots' \in Seq(1..m) /\ IsInjective(freeSlots')
    /\ groupList' = slot \o groupList /\ groupList' \in Seq(1..m) /\ IsInjective(groupList')
    /\ ToSet(groupList') = ToSet(slot) \cup ToSet(groupList)
    /\ ToSet(slot) \cap ToSet(groupList) = {}
    /\ 1..m = ToSet(groupList') \cup groupMask' /\ ToSet(groupList') \cap groupMask' = {}
    /\ m = Len(groups) \/ groupMask' = {}

\* A sequence over a larger set
LEMMA WiderSeq ==
    ASSUME NEW A, NEW B, A \subseteq B, NEW s \in Seq(A)
    PROVE  s \in Seq(B)
OBVIOUS

\* addGroups gives every new group a slot of its own that was not in use.
LEMMA GivenSlots ==
    ASSUME TypeOK, ListsOK, ToSet(groupList) \cap groupMask = {},
           NEW new \in Seq(SUBSET Particle), new # <<>>, AddGroups(new)
    PROVE  \E slot, m : SlotsGiven(new, slot, m)
<1> DEFINE n == Len(new)
           G == Len(groups)
           F == Len(freeSlots)
<1>1. /\ G \in Nat /\ Slots = 1..G /\ \A k \in Slots : groups[k] \in GroupEntry
  BY Kinds
<1>2. /\ freeSlots \in Seq(1..G) /\ IsInjective(freeSlots) /\ groupMask = ToSet(freeSlots)
      /\ groupList \in Seq(1..G) /\ IsInjective(groupList)
      /\ 1..G = ToSet(groupList) \cup groupMask
  BY <1>1 DEF TypeOK, ListsOK
<1>3. n \in Nat /\ n > 0 /\ DOMAIN new = 1..n /\ \A i \in 1..n : new[i] \in SUBSET Particle
  OBVIOUS
<1>4. PICK slot : slot = NewSlots(n)
  OBVIOUS
<1>5. PICK rest : rest = SubSeq(freeSlots, 1, F - n)
  OBVIOUS
<1>6. PICK m : m = IF n > F THEN G + (n - F) ELSE G
  OBVIOUS
<1>7. /\ slot \in Seq(1..m) /\ Len(slot) = n /\ IsInjective(slot)
      /\ rest \in Seq(1..G) /\ IsInjective(rest)
      /\ n >= F => ToSet(rest) = {}
      /\ ToSet(rest) \subseteq ToSet(freeSlots) \ ToSet(slot)
      /\ ToSet(slot) \subseteq ToSet(freeSlots) \cup (G + 1..m)
      /\ (1..G) \cup ToSet(slot) = 1..m
      /\ ToSet(freeSlots) \subseteq ToSet(rest) \cup ToSet(slot)
  BY <1>1, <1>2, <1>3, <1>4, <1>5, <1>6, SlotsOfNew
<1>8. F \in Nat /\ m \in Nat /\ G <= m /\ (m = G \/ n >= F)
  <2>1. F \in Nat
    BY <1>2
  <2> QED
    BY <1>1, <1>3, <1>6, <2>1
<1>9. /\ groups' = [k \in Slots \cup ToSet(slot) |->
                      IF \E i \in 1..n : slot[i] = k
                      THEN NewGroup(new[CHOOSE i \in 1..n : slot[i] = k])
                      ELSE groups[k]]
      /\ freeSlots' = rest /\ groupMask' = groupMask \ ToSet(slot)
      /\ groupList' = slot \o groupList
  <2>1. LET c == NewSlots(n)
        IN  /\ groups' = [k \in Slots \cup ToSet(c) |->
                            IF \E i \in 1..n : c[i] = k
                            THEN NewGroup(new[CHOOSE i \in 1..n : c[i] = k])
                            ELSE groups[k]]
            /\ freeSlots' = SubSeq(freeSlots, 1, F - n) /\ groupMask' = groupMask \ ToSet(c)
            /\ groupList' = c \o groupList
    BY DEF AddGroups
  <2> QED
    BY <1>4, <1>5, <2>1
<1> HIDE DEF n, G, F
<1>10. DOMAIN slot = 1..n /\ \A i \in 1..n : slot[i] \in ToSet(slot)
  BY <1>3, <1>7 DEF ToSet
<1>11. \A i \in 1..n : groups'[slot[i]] = NewGroup(new[i])
  <2> SUFFICES ASSUME NEW i \in 1..n PROVE groups'[slot[i]] = NewGroup(new[i])
    OBVIOUS
  <2> DEFINE j == CHOOSE h \in 1..n : slot[h] = slot[i]
  <2>1. j \in 1..n /\ slot[j] = slot[i]
    OBVIOUS
  <2>2. j = i
    BY <1>7, <1>10, <2>1 DEF IsInjective
  <2>3. groups'[slot[i]] = NewGroup(new[j])
    BY <1>9, <1>10
  <2> QED
    BY <2>2, <2>3
<1>12. \A k \in Slots \ ToSet(slot) : groups'[k] = groups[k]
  BY <1>9, <1>10
<1>13. \A k \in 1..m : groups'[k] \in GroupEntry
  <2> SUFFICES ASSUME NEW k \in 1..m PROVE groups'[k] \in GroupEntry
    OBVIOUS
  <2>1. CASE k \in ToSet(slot)
    <3>1. PICK i \in 1..n : slot[i] = k
      BY <1>10, <2>1 DEF ToSet
    <3>2. groups'[k] = NewGroup(new[i]) /\ new[i] \in SUBSET Particle
      BY <1>3, <1>11, <3>1
    <3> QED
      BY <3>2 DEF NewGroup, GroupEntry
  <2>2. CASE k \notin ToSet(slot)
    BY <1>1, <1>7, <1>12, <2>2
  <2> QED
    BY <2>1, <2>2
<1>14. groups' \in Seq(GroupEntry) /\ Len(groups') = m /\ Slots' = 1..m
  <2>1. DOMAIN groups' = 1..m
    BY <1>1, <1>7, <1>9
  <2>2. groups' = [k \in 1..m |-> groups'[k]]
    BY <1>1, <1>7, <1>9
  <2>3. groups' \in [1..m -> GroupEntry]
    BY <1>13, <2>2
  <2> QED
    BY <1>8, <2>1, <2>3 DEF Slots
<1>15. ToSet(slot) \cap ToSet(groupList) = {}
  <2>1. \A k \in ToSet(groupList) : k \in 1..G
    BY <1>2 DEF ToSet
  <2>2. \A k \in G + 1..m : k \notin 1..G
    BY <1>1, <1>8
  <2> QED
    BY <1>2, <1>7, <2>1, <2>2
<1>16. /\ groupList' \in Seq(1..m) /\ IsInjective(groupList')
       /\ ToSet(groupList') = ToSet(slot) \cup ToSet(groupList)
  <2>1. 1..G \subseteq 1..m
    BY <1>1, <1>8
  <2>2. groupList \in Seq(1..m)
    BY <1>2, <2>1, WiderSeq
  <2> QED
    BY <1>2, <1>7, <1>9, <1>15, <2>2, Joined
<1>17. freeSlots' \in Seq(1..m) /\ IsInjective(freeSlots') /\ groupMask' = ToSet(freeSlots')
  <2>1. 1..G \subseteq 1..m
    BY <1>1, <1>8
  <2>2. rest \in Seq(1..m)
    BY <1>7, <2>1, WiderSeq
  <2> QED
    BY <1>2, <1>7, <1>9, <2>2
<1>18. 1..m = ToSet(groupList') \cup groupMask' /\ ToSet(groupList') \cap groupMask' = {}
  BY <1>2, <1>7, <1>9, <1>16
<1>19. m = G \/ groupMask' = {}
  BY <1>7, <1>8, <1>9, <1>17
<1>20. SlotsGiven(new, slot, m)
  BY <1>7, <1>8, <1>9, <1>11, <1>12, <1>14, <1>15, <1>16, <1>17, <1>18, <1>19 DEF SlotsGiven, n, G
<1> QED
  BY <1>20

\* What addGroups does to the particles: members leave the list of singles.
LEMMA GivenSingles ==
    ASSUME TypeOK, ListsOK, NEW new \in Seq(SUBSET Particle), new # <<>>, AddGroups(new)
    PROVE  LET mask == singleMask \cup UNION ToSet(new)
           IN  /\ singleMask' = mask /\ mask \subseteq Particle
               /\ ptcl' \in [Particle -> ParticleEntry]
               /\ \A p \in Particle \ mask : ptcl'[p] = ptcl[p]
               /\ singles' = Removed(singles, mask) /\ singles' \in Seq(Particle)
               /\ ToSet(singles') = ToSet(singles) \ mask /\ IsInjective(singles')
               /\ nActS' = Remaining(singles, nActS, mask) /\ nActS' \in 0..Len(singles')
               /\ nInitS' = Remaining(singles, nInitS, mask) /\ nInitS' \in 0..nActS'
               /\ nActG' = nActG + Len(new) /\ nInitG' = nInitG + Len(new)
<1>1. PICK mask : mask = singleMask \cup UNION ToSet(new)
  OBVIOUS
<1>2. /\ singleMask' = mask /\ singles' = Removed(singles, mask)
      /\ nActS' = Remaining(singles, nActS, mask) /\ nInitS' = Remaining(singles, nInitS, mask)
      /\ nActG' = nActG + Len(new) /\ nInitG' = nInitG + Len(new)
      /\ ptcl' = [p \in Particle |-> IF p \in mask \ singleMask THEN NoTime ELSE ptcl[p]]
  BY <1>1 DEF AddGroups
<1>3. mask \subseteq Particle
  BY <1>1 DEF TypeOK, ToSet
<1>4. /\ singles \in Seq(Particle) /\ nActS \in 0..Len(singles) /\ nInitS \in 0..nActS
      /\ nInitS \in 0..Len(singles) /\ IsInjective(singles)
  <2>1. singles \in Seq(Particle) /\ nActS \in 0..Len(singles) /\ nInitS \in 0..nActS
    BY DEF TypeOK
  <2> QED
    BY <2>1 DEF ListsOK
<1>5. singles' \in Seq(Particle) /\ ToSet(singles') = ToSet(singles) \ mask /\ IsInjective(singles')
  BY <1>2, <1>4, RemovedProps
<1>6. nActS' \in 0..Len(singles') /\ nInitS' \in 0..nActS'
  <2>1. /\ Remaining(singles, nActS, mask) \in 0..Len(Removed(singles, mask))
        /\ Remaining(singles, nInitS, mask) <= Remaining(singles, nActS, mask)
    BY <1>4, RemainingProps
  <2>2. Remaining(singles, nInitS, mask) \in 0..Len(Removed(singles, mask))
    BY <1>4, RemainingProps
  <2> QED
    BY <1>2, <2>1, <2>2
<1>7. ptcl' \in [Particle -> ParticleEntry]
  <2>1. NoTime \in ParticleEntry
    BY DEF NoTime, ParticleEntry
  <2>2. \A p \in Particle : ptcl[p] \in ParticleEntry
    BY Kinds
  <2> QED
    BY <1>2, <2>1, <2>2
<1>8. \A p \in Particle \ mask : ptcl'[p] = ptcl[p]
  BY <1>2
<1> QED
  BY <1>1, <1>2, <1>3, <1>5, <1>6, <1>7, <1>8

\* The entries that stay keep their order and their times.
LEMMA GivenTimes ==
    ASSUME TypeOK, ListsOK, ToSet(groupList) \cap groupMask = {},
           NEW new \in Seq(SUBSET Particle), new # <<>>, AddGroups(new),
           Leaving \subseteq groupMask \cup UNION ToSet(new), Leaving' = groupMask',
           UNCHANGED <<time, timeNextMin>>,
           Waiting(singles, nActS), Waiting(groupList, nActG),
           Started(singles, nActS, nInitS), Started(groupList, nActG, nInitG)
    PROVE  /\ Waiting(singles, nActS)' /\ Waiting(groupList, nActG)'
           /\ Started(singles, nActS, nInitS)' /\ Started(groupList, nActG, nInitG)'
<1>1. PICK slot, M : SlotsGiven(new, slot, M)
  BY GivenSlots
<1>2. PICK mask : mask = singleMask \cup UNION ToSet(new)
  OBVIOUS
<1>3. /\ \A p \in Particle \ mask : ptcl'[p] = ptcl[p]
      /\ singles' = Removed(singles, mask)
      /\ ToSet(singles') = ToSet(singles) \ mask /\ IsInjective(singles')
      /\ nActS' = Remaining(singles, nActS, mask) /\ nActS' \in 0..Len(singles')
      /\ nInitS' = Remaining(singles, nInitS, mask) /\ nInitS' \in 0..nActS'
      /\ nActG' = nActG + Len(new) /\ nInitG' = nInitG + Len(new)
  BY <1>2, GivenSingles
<1>4. /\ singles \in Seq(Particle) /\ nActS \in 0..Len(singles) /\ nInitS \in 0..nActS
      /\ groupList \in Seq(Slots) /\ nActG \in 0..Len(groupList) /\ nInitG \in 0..nActG
      /\ IsInjective(singles)
  BY DEF TypeOK, ListsOK
<1>5. /\ \A k \in Slots : k \notin Particle
      /\ groupMask \subseteq Slots /\ UNION ToSet(new) \subseteq Particle
  <2>1. UNION ToSet(new) \subseteq Particle
    BY DEF ToSet
  <2> QED
    BY <2>1, Kinds DEF TypeOK
<1>61. UNCHANGED <<time, timeNextMin>>
  OBVIOUS
<1>6. Waiting(singles, nActS)' /\ Started(singles, nActS, nInitS)'
  <2>1. PICK u, m, d : u = singles' /\ m = nActS' /\ d = nInitS'
    OBVIOUS
  <2>2. PICK s, n, c : s = singles /\ n = nActS /\ c = nInitS
    OBVIOUS
  <2>3. s \in Seq(Particle) /\ n \in 0..Len(s) /\ c \in 0..Len(s) /\ c <= n /\ IsInjective(s)
    BY <1>4, <2>2
  <2>4. /\ u = Removed(s, mask) /\ m = Remaining(s, n, mask) /\ d = Remaining(s, c, mask)
        /\ m \in 0..Len(u) /\ d \in 0..m /\ u \in Seq(Particle)
    <3>1. u = Removed(s, mask) /\ m = Remaining(s, n, mask) /\ d = Remaining(s, c, mask)
      BY <1>3, <2>1, <2>2
    <3>2. u \in Seq(Particle)
      BY <2>3, <3>1, RemovedProps
    <3> QED
      BY <1>3, <2>1, <3>1, <3>2
  <2>161. Waiting(s, n) /\ Started(s, n, c)
    BY <2>2
  <2>162. ASSUME NEW h,
                 \A i \in d + 1..m : u[i] \notin Leaving' =>
                     /\ h[i] \in c + 1..n /\ s[h[i]] = u[i] /\ u[i] \notin Leaving
                     /\ Entry(u[i])' = Entry(u[i]),
                 \A i \in m + 1..Len(u) : u[i] \notin Leaving' =>
                     /\ h[i] \in n + 1..Len(s) /\ s[h[i]] = u[i] /\ u[i] \notin Leaving
                     /\ Entry(u[i])' = Entry(u[i]),
                 \A i, j \in m + 1..Len(u) : i < j => h[i] < h[j]
          PROVE  Waiting(u, m)' /\ Started(u, m, d)'
    BY SMTT(20), <1>61, <2>161, <2>162, ListsCarried
  <2>5. PICK f \in [DOMAIN Removed(s, mask) -> {i \in DOMAIN s : s[i] \notin mask}] :
           /\ \A r \in DOMAIN Removed(s, mask) :
                 /\ Removed(s, mask)[r] = s[f[r]]
                 /\ r <= Remaining(s, n, mask) <=> f[r] <= n
           /\ \A q, r \in DOMAIN Removed(s, mask) : q < r => f[q] < f[r]
    BY <2>3, RemainingProps
  <2>6. PICK g \in [DOMAIN Removed(s, mask) -> {i \in DOMAIN s : s[i] \notin mask}] :
           /\ \A r \in DOMAIN Removed(s, mask) :
                 /\ Removed(s, mask)[r] = s[g[r]]
                 /\ r <= Remaining(s, c, mask) <=> g[r] <= c
    BY <2>3, RemainingProps
  <2>7. DOMAIN u = 1..Len(u) /\ DOMAIN s = 1..Len(s) /\ Len(u) \in Nat /\ Len(s) \in Nat
        /\ n \in Nat /\ c \in Nat /\ m \in Nat /\ d \in Nat
    BY <2>3, <2>4
  <2>8. \A i \in 1..Len(u) : f[i] = g[i]
    BY <2>3, <2>4, <2>5, <2>6, <2>7 DEF IsInjective
  <2>9. \A i \in 1..Len(u) : /\ f[i] \in 1..Len(s) /\ s[f[i]] = u[i] /\ u[i] \notin mask
                             /\ (i <= m <=> f[i] <= n) /\ (i <= d <=> f[i] <= c)
    BY <2>4, <2>5, <2>6, <2>7, <2>8
  <2>10. \A i \in 1..Len(u) : /\ u[i] \in Particle /\ u[i] \notin Leaving
                              /\ Entry(u[i])' = Entry(u[i])
    <3> SUFFICES ASSUME NEW i \in 1..Len(u)
                 PROVE  /\ u[i] \in Particle /\ u[i] \notin Leaving
                        /\ Entry(u[i])' = Entry(u[i])
      OBVIOUS
    <3>1. u[i] \in Particle /\ u[i] \notin mask
      BY <2>4, <2>7, <2>9
    <3>2. u[i] \notin groupMask /\ u[i] \notin UNION ToSet(new)
      BY <1>2, <1>5, <3>1
    <3>3. ptcl'[u[i]] = ptcl[u[i]]
      BY <1>3, <3>1
    <3> QED
      BY <3>1, <3>2, <3>3 DEF Entry
  <2>11. \A i \in d + 1..m : i \in 1..Len(u) /\ ~(i <= d) /\ i <= m
    BY <2>4, <2>7
  <2>12. \A i \in m + 1..Len(u) : i \in 1..Len(u) /\ ~(i <= m)
    BY <2>4, <2>7
  <2>13. \A i \in d + 1..m : u[i] \notin Leaving' =>
            /\ f[i] \in c + 1..n /\ s[f[i]] = u[i] /\ u[i] \notin Leaving
            /\ Entry(u[i])' = Entry(u[i])
    <3>1. \A i \in d + 1..m : f[i] \in 1..Len(s) /\ ~(f[i] <= c) /\ f[i] <= n
      BY <2>9, <2>11
    <3>2. \A i \in d + 1..m : f[i] \in c + 1..n
      BY <2>7, <3>1
    <3> QED
      BY <2>9, <2>10, <2>11, <3>2
  <2>14. \A i \in m + 1..Len(u) : u[i] \notin Leaving' =>
            /\ f[i] \in n + 1..Len(s) /\ s[f[i]] = u[i] /\ u[i] \notin Leaving
            /\ Entry(u[i])' = Entry(u[i])
    <3>1. \A i \in m + 1..Len(u) : f[i] \in 1..Len(s) /\ ~(f[i] <= n)
      BY <2>9, <2>12
    <3>2. \A i \in m + 1..Len(u) : f[i] \in n + 1..Len(s)
      BY <2>7, <3>1
    <3> QED
      BY <2>9, <2>10, <2>12, <3>2
  <2>15. \A i, j \in m + 1..Len(u) : i < j => f[i] < f[j]
    BY <2>4, <2>5, <2>7, <2>12
  <2>21. Waiting(u, m)' /\ Started(u, m, d)'
    BY <2>13, <2>14, <2>15, <2>162
  <2> QED
    BY <2>1, <2>21 DEF Waiting, Started
<1>7. Waiting(groupList, nActG)' /\ Started(groupList, nActG, nInitG)'
  <2>1. PICK u, m, d, e : u = groupList' /\ m = nActG' /\ d = nInitG' /\ e = Len(new)
    OBVIOUS
  <2>2. PICK s, n, c : s = groupList /\ n = nActG /\ c = nInitG
    OBVIOUS
  <2>3. /\ s \in Seq(Slots) /\ n \in 0..Len(s) /\ c \in 0..n /\ Len(s) \in Nat
        /\ e \in Nat /\ m = n + e /\ d = c + e
    <3>1. s \in Seq(Slots) /\ n \in 0..Len(s) /\ c \in 0..n
      BY <1>4, <2>2
    <3> QED
      BY <1>3, <2>1, <2>2, <3>1
  <2>4. /\ Len(u) = e + Len(s) /\ \A i \in e + 1..e + Len(s) : u[i] = s[i - e]
    <3>1. slot \in Seq(1..M) /\ groupList' = slot \o groupList /\ Len(slot) = e
      BY <1>1, <2>1 DEF SlotsGiven
    <3>2. M \in Nat /\ Len(groups) <= M /\ Len(groups) \in Nat /\ Slots = 1..Len(groups)
      BY <1>1, Kinds DEF SlotsGiven
    <3>3. Slots \subseteq 1..M
      BY <3>2
    <3>4. s \in Seq(1..M)
      BY <2>3, <3>3, WiderSeq
    <3>5. u = slot \o s
      BY <2>1, <2>2, <3>1
    <3>6. PICK A : A = 1..M
      OBVIOUS
    <3>7. slot \in Seq(A) /\ s \in Seq(A)
      BY <3>1, <3>4, <3>6
    <3>8. /\ Len(slot \o s) = Len(slot) + Len(s)
          /\ \A i \in Len(slot) + 1..Len(slot) + Len(s) : (slot \o s)[i] = s[i - Len(slot)]
      BY <3>7, Joined
    <3> QED
      BY <2>3, <3>1, <3>5, <3>8
  <2> DEFINE f == [i \in e + 1..e + Len(s) |-> i - e]
  <2>5. /\ \A i \in d + 1..m : i \in e + 1..e + Len(s) /\ f[i] = i - e /\ f[i] \in c + 1..n
        /\ \A i \in m + 1..Len(u) : i \in e + 1..e + Len(s) /\ f[i] = i - e /\ f[i] \in n + 1..Len(s)
        /\ \A i, j \in m + 1..Len(u) : i < j => f[i] < f[j]
    BY SMTT(20), <2>3, <2>4
  <2> HIDE DEF f
  <2>6. \A i \in e + 1..e + Len(s) : u[i] = s[i - e] /\ u[i] \in ToSet(s) /\ u[i] \in Slots
    BY <2>3, <2>4 DEF ToSet
  <2>7. \A i \in e + 1..e + Len(s) : u[i] \notin Leaving /\ Entry(u[i])' = Entry(u[i])
    <3> SUFFICES ASSUME NEW i \in e + 1..e + Len(s)
                 PROVE  u[i] \notin Leaving /\ Entry(u[i])' = Entry(u[i])
      OBVIOUS
    <3>1. u[i] \in ToSet(groupList) /\ u[i] \in Slots
      BY <2>2, <2>6
    <3>2. u[i] \notin groupMask /\ u[i] \notin Particle /\ u[i] \notin UNION ToSet(new)
      BY <1>5, <3>1
    <3>3. groups'[u[i]] = groups[u[i]]
      BY <1>1, <3>1 DEF SlotsGiven
    <3> QED
      BY <3>2, <3>3 DEF Entry
  <2>8. \A i \in d + 1..m : u[i] \notin Leaving' =>
            /\ f[i] \in c + 1..n /\ s[f[i]] = u[i] /\ u[i] \notin Leaving
            /\ Entry(u[i])' = Entry(u[i])
    BY <2>5, <2>6, <2>7
  <2>9. \A i \in m + 1..Len(u) : u[i] \notin Leaving' =>
            /\ f[i] \in n + 1..Len(s) /\ s[f[i]] = u[i] /\ u[i] \notin Leaving
            /\ Entry(u[i])' = Entry(u[i])
    BY <2>5, <2>6, <2>7
  <2>10. \A i, j \in m + 1..Len(u) : i < j => f[i] < f[j]
    BY <2>5
  <2>11. Waiting(s, n) /\ Started(s, n, c)
    BY <2>2
  <2>12. Waiting(u, m)' /\ Started(u, m, d)'
    BY SMTT(20), <1>61, <2>8, <2>9, <2>10, <2>11, ListsCarried
  <2> QED
    BY <2>1, <2>12 DEF Waiting, Started
<1> QED
  BY <1>6, <1>7

\* addGroups on groups that share no member with each other or a group in
\* use, and between them hold every particle with mass that is not listed.
LEMMA Adding ==
    ASSUME Inv, pc \in {"addInitialGroups", "addGroups"}, pc' = "initialIntegration",
           adj' = NoAdjust, stage' \in {"first", "second", "loop"},
           UNCHANGED <<clock, massive, merger>>,
           NEW new \in Seq(SUBSET Particle), GroupsApart(new),
           Grouped \cap (UNION ToSet(new)) = {},
           massive \subseteq ToSet(singles) \cup Grouped \cup (UNION ToSet(new)),
           Leaving \subseteq groupMask \cup (UNION ToSet(new)), Broken \subseteq groupMask,
           AddGroups(new)
    PROVE  Inv'
<1>1. TypeOK /\ ListsOK /\ MembersOK /\ AdjOK /\ TimeInv
  BY DEF Inv
<1>2. /\ merger = <<>> /\ ToSet(groupList) \cap groupMask = {} /\ Busy = ToSet(groupList)
      /\ groupMask \subseteq Leaving
  BY <1>1 DEF ListsOK, Busy, Leaving
<1>3. /\ \A k \in Busy : /\ Cardinality(groups[k].member) > 1
                         /\ groups[k].member \subseteq singleMask
                         /\ Cardinality(groups[k].member \cap massive) > 1
      /\ \A k, l \in Busy : k # l => groups[k].member \cap groups[l].member = {}
      /\ ToSet(singles) \cap singleMask = {}
      /\ 2 * Len(groups) <= Cardinality(Particle)
      /\ \A k \in groupMask : groups[k].member = {}
  <2>1. ToSet(merger) = {}
    BY <1>2 DEF ToSet
  <2> QED
    BY <1>1, <1>2, <2>1 DEF MembersOK
<1>4. /\ timeNextMin = time /\ Divides(Least, time) /\ time <= TimeEnd
      /\ Waiting(singles, nActS) /\ Waiting(groupList, nActG)
      /\ Started(singles, nActS, nInitS) /\ Started(groupList, nActG, nInitG)
  BY <1>1 DEF TimeInv, Turning
<1>5. UNCHANGED <<time, timeNextMin, dtLimit, massive, merger>>
  BY DEF clock
<1>6. Leaving' = groupMask'
  BY DEF Leaving
<1>7. ASSUME massive' \subseteq ToSet(singles') \cup Grouped' PROVE AdjOK'
  BY <1>7 DEF AdjOK, Adjusting, TablesSettled
<1>8. ASSUME /\ Waiting(singles, nActS)' /\ Waiting(groupList, nActG)'
             /\ Started(singles, nActS, nInitS)' /\ Started(groupList, nActG, nInitG)'
      PROVE  TimeInv'
  <2>1. timeNextMin' = time' /\ Divides(Least, time') /\ time' <= TimeEnd
    BY <1>4, <1>5
  <2>2. ~Turning' /\ BrokenAtNow'
    BY DEF Turning, BrokenAtNow
  <2>3. Divides(Least, time)'
    BY <2>1 DEF Least
  <2> QED
    BY <1>8, <2>1, <2>2, <2>3 DEF TimeInv
<1>9. CASE new = <<>>
  <2>1. UNCHANGED <<ptcl, groups, singles, groupList, nActS, nActG, nInitS, nInitG,
                    singleMask, groupMask, freeSlots>>
    BY <1>9 DEF AddGroups, lists, tables
  <2>2. UNION ToSet(new) = {}
    BY <1>9 DEF ToSet
  <2>3. Slots' = Slots /\ Busy' = Busy /\ Grouped' = Grouped
    BY <2>1 DEF Slots, Busy, Grouped
  <2>4. TypeOK'
    BY <1>1, <1>5, <2>1, <2>3 DEF TypeOK, Calls
  <2>5. ListsOK'
    BY <1>1, <1>2, <1>5, <2>1, <2>3 DEF ListsOK
  <2>6. MembersOK'
    BY <1>3, <1>5, <2>1, <2>3 DEF MembersOK
  <2>7. AdjOK'
    BY <1>5, <1>7, <2>1, <2>2, <2>3
  <2>8. Leaving' = Leaving
    BY <1>2, <1>6, <2>1, <2>2
  <2>9. \A x : Entry(x)' = Entry(x)
    BY <2>1 DEF Entry
  <2>10. Waiting(singles, nActS)' /\ Started(singles, nActS, nInitS)'
    BY <1>4, <1>5, <2>1, <2>8, <2>9 DEF Waiting, Started, OnGrid
  <2>11. Waiting(groupList, nActG)' /\ Started(groupList, nActG, nInitG)'
    BY <1>4, <1>5, <2>1, <2>8, <2>9 DEF Waiting, Started, OnGrid
  <2> QED
    BY <1>8, <2>4, <2>5, <2>6, <2>7, <2>10, <2>11 DEF Inv
<1>10. CASE new # <<>>
  <2>1. PICK slot, M : SlotsGiven(new, slot, M)
    BY <1>1, <1>2, <1>10, GivenSlots
  <2>2. PICK mask : mask = singleMask \cup UNION ToSet(new)
    OBVIOUS
  <2>3. /\ singleMask' = mask /\ mask \subseteq Particle
        /\ ptcl' \in [Particle -> ParticleEntry]
        /\ singles' \in Seq(Particle)
        /\ ToSet(singles') = ToSet(singles) \ mask /\ IsInjective(singles')
        /\ nActS' \in 0..Len(singles') /\ nInitS' \in 0..nActS'
        /\ nActG' = nActG + Len(new) /\ nInitG' = nInitG + Len(new)
    BY <1>1, <1>10, <2>2, GivenSingles
  <2>4. /\ M \in Nat /\ Len(groups) <= M
        /\ slot \in Seq(1..M) /\ Len(slot) = Len(new) /\ IsInjective(slot)
        /\ Slots' = 1..M /\ groups' \in Seq(GroupEntry) /\ Len(groups') = M
        /\ \A i \in 1..Len(new) : groups'[slot[i]] = NewGroup(new[i])
        /\ \A k \in Slots \ ToSet(slot) : groups'[k] = groups[k]
        /\ groupMask' = groupMask \ ToSet(slot) /\ groupMask' = ToSet(freeSlots')
        /\ freeSlots' \in Seq(1..M) /\ IsInjective(freeSlots')
        /\ groupList' \in Seq(1..M) /\ IsInjective(groupList')
        /\ ToSet(groupList') = ToSet(slot) \cup ToSet(groupList)
        /\ ToSet(slot) \cap ToSet(groupList) = {}
        /\ 1..M = ToSet(groupList') \cup groupMask' /\ ToSet(groupList') \cap groupMask' = {}
        /\ M = Len(groups) \/ groupMask' = {}
    BY <2>1 DEF SlotsGiven
  <2>5. Len(groupList') = Len(new) + Len(groupList)
    <3>1. slot \in Seq(1..M) /\ groupList' = slot \o groupList /\ Len(slot) = Len(new)
      BY <2>1 DEF SlotsGiven
    <3>2. groupList \in Seq(Slots) /\ Len(groups) \in Nat /\ Slots = 1..Len(groups)
      BY <1>1, Kinds DEF TypeOK
    <3>7. M \in Nat /\ Len(groups) <= M
      BY <2>4
    <3>8. Slots \subseteq 1..M
      BY <3>2, <3>7
    <3>3. groupList \in Seq(1..M)
      BY <3>2, <3>8, WiderSeq
    <3>4. PICK A : A = 1..M
      OBVIOUS
    <3>5. slot \in Seq(A) /\ groupList \in Seq(A)
      BY <3>1, <3>3, <3>4
    <3>6. Len(slot \o groupList) = Len(slot) + Len(groupList)
      BY <3>5, Joined
    <3> QED
      BY <3>1, <3>6
  <2>6. TypeOK'
    <3>1. pc' \in Calls /\ time' \in Nat /\ timeNextMin' \in Nat /\ dtLimit' \in Steps \cup {0}
          /\ massive' \subseteq Particle /\ merger' = <<>>
      BY <1>1, <1>2, <1>5 DEF TypeOK, Calls
    <3>2. merger' \in Seq(Slots')
      <4>1. \A S : <<>> \in Seq(S)
        OBVIOUS
      <4> QED
        BY <3>1, <4>1
    <3>3. nInitG' \in 0..nActG' /\ nActG' \in 0..Len(groupList')
      <4>1. nInitG \in 0..nActG /\ nActG \in 0..Len(groupList) /\ Len(groupList) \in Nat
        BY <1>1 DEF TypeOK
      <4>2. Len(new) \in Nat
        OBVIOUS
      <4> QED
        BY <2>3, <2>5, <4>1, <4>2
    <3>4. groupMask' \subseteq Slots'
      BY <2>4
    <3> QED
      BY <2>3, <2>4, <3>1, <3>2, <3>3, <3>4 DEF TypeOK, ParticleEntry, GroupEntry
  <2>7. ListsOK'
    <3>1. merger' = <<>> /\ IsInjective(merger') /\ ToSet(merger') \subseteq ToSet(groupList')
      BY <1>2, <1>5 DEF IsInjective, ToSet
    <3>2. Slots' = ToSet(groupList') \cup groupMask' /\ ToSet(groupList') \cap groupMask' = {}
      BY <2>4
    <3>3. /\ IsInjective(singles') /\ IsInjective(groupList') /\ IsInjective(freeSlots')
          /\ groupMask' = ToSet(freeSlots')
      BY <2>3, <2>4
    <3>4. /\ IsInjective(singles)' /\ IsInjective(groupList)' /\ IsInjective(freeSlots)'
          /\ IsInjective(merger)'
      BY <3>1, <3>3 DEF IsInjective
    <3>5. (ToSet(merger) \subseteq ToSet(groupList))' /\ (merger = <<>>)'
      BY <3>1 DEF ToSet
    <3>6. (groupMask = ToSet(freeSlots))' /\ (Slots = ToSet(groupList) \cup groupMask)'
          /\ (ToSet(groupList) \cap groupMask = {})'
      BY <3>2, <3>3 DEF ToSet
    <3> QED
      BY <3>4, <3>5, <3>6 DEF ListsOK
  <2>8. /\ Busy' = ToSet(slot) \cup Busy /\ Busy \subseteq Slots /\ ToSet(slot) \cap Busy = {}
    <3>1. Busy' = ToSet(groupList') \ groupMask'
      BY DEF Busy, ToSet
    <3>2. groupList \in Seq(Slots)
      BY <1>1 DEF TypeOK
    <3>3. ToSet(groupList) \subseteq Slots
      BY <3>2 DEF ToSet
    <3> QED
      BY <1>2, <2>4, <3>1, <3>3
  <2>9. /\ DOMAIN new = 1..Len(new) /\ Len(new) \in Nat
        /\ \A i \in 1..Len(new) : slot[i] \in ToSet(slot) /\ new[i] \in SUBSET Particle
                                  /\ new[i] \subseteq UNION ToSet(new)
                                  /\ groups'[slot[i]].member = new[i]
        /\ \A k \in ToSet(slot) : \E i \in 1..Len(new) : slot[i] = k
    <3>1. DOMAIN new = 1..Len(new) /\ Len(new) \in Nat /\ DOMAIN slot = 1..Len(new)
      BY <2>4
    <3>2. \A i \in 1..Len(new) : new[i] \in SUBSET Particle /\ new[i] \in ToSet(new)
      BY <3>1 DEF ToSet
    <3>3. \A i \in 1..Len(new) : groups'[slot[i]].member = new[i]
      <4>1. \A x : NewGroup(x).member = x
        BY DEF NewGroup
      <4> QED
        BY <2>4, <4>1
    <3> QED
      BY <3>1, <3>2, <3>3 DEF ToSet
  <2>10. \A k \in Busy : groups'[k].member = groups[k].member
    BY <2>4, <2>8
  <2>11. \A k \in Busy' : /\ Cardinality(groups'[k].member) > 1
                          /\ groups'[k].member \subseteq singleMask'
                          /\ Cardinality(groups'[k].member \cap massive') > 1
    <3> SUFFICES ASSUME NEW k \in Busy'
                 PROVE  /\ Cardinality(groups'[k].member) > 1
                        /\ groups'[k].member \subseteq singleMask'
                        /\ Cardinality(groups'[k].member \cap massive) > 1
      BY <1>5
    <3>1. CASE k \in Busy
      BY <1>3, <2>2, <2>3, <2>10, <3>1
    <3>2. CASE k \in ToSet(slot)
      <4>1. PICK i \in 1..Len(new) : slot[i] = k
        BY <2>9, <3>2
      <4>2. groups'[k].member = new[i] /\ new[i] \in SUBSET Particle /\ new[i] \subseteq mask
        BY <2>2, <2>9, <4>1
      <4>3. Cardinality(new[i] \cap massive) > 1
        BY <2>9, <4>1 DEF GroupsApart
      <4>4. Cardinality(new[i] \cap massive) <= Cardinality(new[i])
            /\ Cardinality(new[i] \cap massive) \in Nat /\ Cardinality(new[i]) \in Nat
        BY <4>2, MoreIn, FiniteParts
      <4>5. Cardinality(new[i]) > 1
        BY <4>3, <4>4
      <4> QED
        BY <2>3, <4>2, <4>3, <4>5
    <3> QED
      BY <2>8, <3>1, <3>2
  <2>12. \A k, l \in Busy' : k # l => groups'[k].member \cap groups'[l].member = {}
    <3>1. \A k \in Busy, i \in 1..Len(new) : groups'[k].member \cap new[i] = {}
      <4> SUFFICES ASSUME NEW k \in Busy, NEW i \in 1..Len(new)
                   PROVE  groups'[k].member \cap new[i] = {}
        OBVIOUS
      <4>1. groups'[k].member \subseteq Grouped
        BY <2>10 DEF Grouped
      <4>2. new[i] \subseteq UNION ToSet(new)
        BY <2>9
      <4> QED
        BY <4>1, <4>2
    <3>2. \A i, j \in 1..Len(new) : i # j => new[i] \cap new[j] = {}
      BY <2>9 DEF GroupsApart
    <3>3. \A k, l \in Busy : k # l => groups'[k].member \cap groups'[l].member = {}
      BY <1>3, <2>10
    <3>4. ASSUME NEW k \in ToSet(slot), NEW l \in Busy', k # l
          PROVE  groups'[k].member \cap groups'[l].member = {}
      <4>1. PICK i \in 1..Len(new) : slot[i] = k /\ groups'[k].member = new[i]
        BY <2>9
      <4>2. CASE l \in Busy
        BY <3>1, <4>1, <4>2
      <4>3. CASE l \in ToSet(slot)
        <5>1. PICK j \in 1..Len(new) : slot[j] = l /\ groups'[l].member = new[j]
          BY <2>9, <4>3
        <5>2. i # j
          BY <3>4, <4>1, <5>1
        <5> QED
          BY <3>2, <4>1, <5>1, <5>2
      <4> QED
        BY <2>8, <4>2, <4>3
    <3>5. ASSUME NEW k \in Busy, NEW l \in ToSet(slot), k # l
          PROVE  groups'[k].member \cap groups'[l].member = {}
      <4>1. k \in Busy' /\ l # k
        BY <2>8, <3>5
      <4>2. groups'[l].member \cap groups'[k].member = {}
        BY <3>4, <4>1
      <4> QED
        BY <4>2
    <3> QED
      BY <2>8, <3>3, <3>4, <3>5
  <2>13. 2 * Len(groups') <= Cardinality(Particle)
    <3>1. CASE M = Len(groups)
      BY <1>3, <2>4, <3>1
    <3>2. CASE groupMask' = {}
      <4>1. Busy' = 1..M
        BY <2>4, <3>2 DEF Busy
      <4> DEFINE m == [k \in 1..M |-> groups'[k].member]
      <4>2. \A k \in 1..M : groups'[k] \in GroupEntry
        BY <2>4
      <4>3. m \in [1..M -> SUBSET Particle]
        BY <4>2 DEF GroupEntry
      <4>4. \A k \in 1..M : Cardinality(m[k]) > 1
        BY <2>11, <4>1
      <4>5. \A k, l \in 1..M : k # l => m[k] \cap m[l] = {}
        BY <2>12, <4>1
      <4> HIDE DEF m
      <4>6. 2 * M <= Cardinality(Particle)
        BY <2>4, <4>3, <4>4, <4>5, TwoEach, HermiteAssumption
      <4> QED
        BY <2>4, <4>6
    <3> QED
      BY <2>4, <3>1, <3>2
  <2>14. MembersOK'
    <3>1. \A k \in groupMask' : groups'[k].member = {}
      <4> SUFFICES ASSUME NEW k \in groupMask' PROVE groups'[k].member = {}
        OBVIOUS
      <4>1. k \in groupMask /\ k \notin ToSet(slot) /\ k \in Slots
        BY <1>1, <2>4 DEF TypeOK
      <4> QED
        BY <1>3, <2>4, <4>1
    <3>2. ToSet(singles') \cap singleMask' = {}
      BY <2>3
    <3> QED
      BY <2>11, <2>12, <2>13, <3>1, <3>2 DEF MembersOK
  <2>15. AdjOK'
    <3>1. Grouped \subseteq Grouped'
      BY <2>8, <2>10 DEF Grouped
    <3>2. UNION ToSet(new) \subseteq Grouped'
      <4> SUFFICES ASSUME NEW p \in UNION ToSet(new) PROVE p \in Grouped'
        OBVIOUS
      <4>1. PICK i \in 1..Len(new) : p \in new[i]
        BY <2>9 DEF ToSet
      <4>2. slot[i] \in Busy' /\ p \in groups'[slot[i]].member
        BY <2>8, <2>9, <4>1
      <4> QED
        BY <4>2 DEF Grouped
    <3>3. singleMask \cap ToSet(singles) = {}
      BY <1>3
    <3>4. massive' \subseteq ToSet(singles') \cup Grouped'
      BY <1>5, <2>2, <2>3, <3>1, <3>2, <3>3
    <3> QED
      BY <1>7, <3>4
  <2>16. /\ Waiting(singles, nActS)' /\ Waiting(groupList, nActG)'
         /\ Started(singles, nActS, nInitS)' /\ Started(groupList, nActG, nInitG)'
    BY <1>1, <1>2, <1>4, <1>5, <1>6, <1>10, GivenTimes
  <2>17. TimeInv'
    BY <1>8, <2>16
  <2> QED
    BY <2>6, <2>7, <2>14, <2>15, <2>17 DEF Inv
<1> QED
  BY <1>9, <1>10

\* adjustGroups ends with the groups that were found or left over.
LEMMA AddNewInv ==
    ASSUME Inv, AddNewGroups
    PROVE  Inv'
<1>1. /\ pc = "addGroups" /\ pc' = "initialIntegration" /\ adj' = NoAdjust
      /\ stage' = IF stage = "first" THEN "second" ELSE stage
      /\ UNCHANGED <<clock, massive, merger>>
  BY DEF AddNewGroups
<1>2. stage' \in {"first", "second", "loop"}
  BY <1>1 DEF Inv, TypeOK
<1>3. adj \in AdjShape /\ Formed(adj) /\ AddingOK
  BY <1>1 DEF Inv, AdjOK, Adjusting
<1>4. PICK N : N = adj.newGroup
  OBVIOUS
<1>5. N \in Seq(SUBSET Particle) /\ GroupsApart(N) /\ Taken = UNION ToSet(N) /\ AddGroups(N)
  BY <1>3, <1>4 DEF AdjShape, Formed, GroupsApart, Taken, AddNewGroups
<1>6. /\ Broken \subseteq groupMask /\ Grouped \cap (UNION ToSet(N)) = {}
      /\ massive \subseteq ToSet(singles) \cup Grouped \cup (UNION ToSet(N))
  BY <1>3, <1>5 DEF AddingOK
<1>7. Leaving \subseteq groupMask \cup (UNION ToSet(N))
  BY <1>1, <1>5 DEF Leaving
<1> QED
  BY <1>1, <1>2, <1>5, <1>6, <1>7, Adding

\* The groups known when the integration starts.
LEMMA AddInitialInv ==
    ASSUME Inv, AddInitialGroups
    PROVE  Inv'
<1>1. /\ pc = "addInitialGroups" /\ pc' = "initialIntegration"
      /\ UNCHANGED <<clock, massive, merger>> /\ stage' = stage /\ adj' = adj
  BY DEF AddInitialGroups
<1>2. stage' \in {"first", "second", "loop"}
  BY <1>1 DEF Inv, TypeOK
<1>3. /\ adj = NoAdjust /\ massive = Particle /\ groups = <<>>
      /\ massive \subseteq ToSet(singles) \cup Grouped
  BY <1>1 DEF Inv, AdjOK, Adjusting, TablesSettled
<1>4. PICK N \in InitialGroups : AddGroups(N)
  BY DEF AddInitialGroups
<1>5. PICK n \in 0..(Cardinality(Particle) \div 2) : N \in [1..n -> SUBSET Particle]
  BY DEF InitialGroups
<1>6. n \in Nat /\ DOMAIN N = 1..n /\ N \in Seq(SUBSET Particle)
  BY <1>5
<1>7. GroupsApart(N)
  <2>1. /\ \A i \in DOMAIN N : Cardinality(N[i]) > 1
        /\ \A i, j \in DOMAIN N : i # j => N[i] \cap N[j] = {}
    BY DEF InitialGroups
  <2>2. \A i \in DOMAIN N : N[i] \cap massive = N[i]
    BY <1>3, <1>5, <1>6
  <2> QED
    BY <2>1, <2>2 DEF GroupsApart
<1>8. Grouped = {} /\ Broken = {}
  <2>1. Slots = {}
    BY <1>3 DEF Slots
  <2>2. groupList \in Seq(Slots)
    BY DEF Inv, TypeOK
  <2>3. Busy = {}
    BY <2>1, <2>2 DEF Busy, ToSet
  <2>4. Broken = {}
    BY <1>3 DEF Broken, NoAdjust, ToSet
  <2> QED
    BY <2>3, <2>4 DEF Grouped
<1>9. Leaving \subseteq groupMask \cup (UNION ToSet(N))
  BY <1>1 DEF Leaving
<1>10. /\ Broken \subseteq groupMask /\ Grouped \cap (UNION ToSet(N)) = {}
       /\ massive \subseteq ToSet(singles) \cup Grouped \cup (UNION ToSet(N))
  BY <1>3, <1>8
<1>11. adj' = NoAdjust
  BY <1>1, <1>3
<1> QED
  BY <1>1, <1>2, <1>4, <1>6, <1>7, <1>9, <1>10, <1>11, Adding

-----------------------------------------------------------------------------
(* The invariant and what it says                                          *)

\* The first state
LEMMA InitInv ==
    ASSUME Init
    PROVE  Inv
<1> DEFINE n == Cardinality(Particle)
<1>1. n \in Nat /\ IsFiniteSet(Particle) /\ n > 1
  BY HermiteAssumption, FS_CardinalityType
<1>2. /\ pc = "addInitialGroups" /\ stage = "first" /\ time = 0 /\ timeNextMin = 0
      /\ dtLimit = 0 /\ massive = Particle /\ ptcl = [p \in Particle |-> NoTime]
      /\ groups = <<>> /\ groupList = <<>> /\ nActS = n /\ nInitS = n /\ nActG = 0 /\ nInitG = 0
      /\ singleMask = {} /\ groupMask = {} /\ freeSlots = <<>> /\ merger = <<>> /\ adj = NoAdjust
  BY DEF Init
<1>3. singles \in [1..n -> Particle] /\ \A i, j \in 1..n : i # j => singles[i] # singles[j]
  BY DEF Init, SetToSeqs
<1> HIDE DEF n
<1>4. singles \in Seq(Particle) /\ Len(singles) = n /\ DOMAIN singles = 1..n /\ IsInjective(singles)
  BY <1>1, <1>3 DEF IsInjective
<1>5. ToSet(singles) = Particle
  <2>1. IsFiniteSet(1..n) /\ Cardinality(1..n) = n
    BY <1>1, FS_Interval
  <2>2. singles \in Injection(1..n, Particle)
    BY <1>3, <1>4 DEF Injection
  <2>3. singles \in Surjection(1..n, Particle)
    BY <1>1, <2>1, <2>2, FS_Injection DEF n
  <2> QED
    BY <1>4, <2>3 DEF Surjection, ToSet
<1>6. Slots = {} /\ ToSet(groupList) = {} /\ ToSet(freeSlots) = {} /\ ToSet(merger) = {}
      /\ Len(groups) = 0 /\ Len(groupList) = 0
  BY <1>2 DEF Slots, ToSet
<1>7. \A S : <<>> \in Seq(S)
  OBVIOUS
<1>8. TypeOK
  <2>1. NoTime \in [time : Nat, dt : Nat, next : Nat]
    BY DEF NoTime
  <2> QED
    BY <1>1, <1>2, <1>4, <1>6, <1>7, <2>1 DEF TypeOK, Calls
<1>9. IsInjective(<<>>)
  BY DEF IsInjective
<1>10. ListsOK
  BY <1>2, <1>4, <1>6, <1>9 DEF ListsOK
<1>11. Busy = {} /\ Grouped = {}
  BY <1>6 DEF Busy, Grouped
<1>12. MembersOK
  BY <1>1, <1>2, <1>6, <1>11 DEF MembersOK, n
<1>13. AdjOK
  BY <1>2, <1>5 DEF AdjOK, Adjusting
<1>14. TimeInv
  <2>1. Divides(Least, 0) /\ 0 <= TimeEnd
    <3>1. Least \in Nat /\ TimeEnd \in Nat
      BY LeastStep, StepsAssumption, HermiteAssumption
    <3> QED
      BY <3>1 DEF Divides
  <2>2. Waiting(singles, nActS) /\ Started(singles, nActS, nInitS)
    <3>1. n + 1..n = {}
      BY <1>1
    <3> QED
      BY <1>2, <1>4, <3>1 DEF Waiting, Started
  <2>3. Waiting(groupList, nActG) /\ Started(groupList, nActG, nInitG)
    <3>1. 0 + 1..0 = {}
      OBVIOUS
    <3> QED
      BY <1>2, <1>6, <3>1 DEF Waiting, Started
  <2> QED
    BY <1>2, <2>1, <2>2, <2>3 DEF TimeInv, Turning, BrokenAtNow
<1> QED
  BY <1>8, <1>10, <1>12, <1>13, <1>14 DEF Inv

\* Nothing happens
LEMMA StutterInv ==
    ASSUME Inv, UNCHANGED vars
    PROVE  Inv'
<1>1. UNCHANGED <<pc, stage, time, timeNextMin, dtLimit, massive, ptcl, groups, singles, groupList,
                  nActS, nActG, nInitS, nInitG, singleMask, groupMask, freeSlots, merger, adj>>
  BY DEF vars, clock, lists, tables
<1>2. /\ Slots' = Slots /\ Busy' = Busy /\ Grouped' = Grouped /\ Broken' = Broken
      /\ NotAdded' = NotAdded /\ Taken' = Taken /\ Listed' = Listed
      /\ ActiveS' = ActiveS /\ ActiveG' = ActiveG
      /\ Adjusting' = Adjusting /\ Turning' = Turning /\ TablesSettled' = TablesSettled
      /\ Leaving' = Leaving
  BY <1>1 DEF Slots, Busy, Grouped, Broken, NotAdded, Taken, Listed, ActiveS, ActiveG, Adjusting,
              Turning, TablesSettled, Leaving
<1>3. \A x : Entry(x)' = Entry(x) /\ Members(x)' = Members(x)
  BY <1>1 DEF Entry, Members
<1>4. TypeOK'
  BY <1>1, <1>2 DEF Inv, TypeOK
<1>5. ListsOK'
  BY <1>1, <1>2 DEF Inv, ListsOK
<1>6. MembersOK'
  BY <1>1, <1>2 DEF Inv, MembersOK
<1>7. AdjOK'
  <2>1. AdjShape' = AdjShape
    BY <1>1, <1>2 DEF AdjShape
  <2>2. Formed(adj)' = Formed(adj)
    BY <1>1 DEF Formed
  <2>3. Found(adj)' = Found(adj)
    BY <1>1, <1>2, <1>3 DEF Found, Search, Joiners
  <2>4. DissolvingOK' = DissolvingOK /\ AddingOK' = AddingOK
    BY <1>1, <1>2 DEF DissolvingOK, AddingOK
  <2> QED
    BY <1>1, <1>2, <2>1, <2>2, <2>3, <2>4 DEF Inv, AdjOK
<1>8. TimeInv'
  <2>1. /\ Waiting(singles, nActS)' = Waiting(singles, nActS)
        /\ Waiting(groupList, nActG)' = Waiting(groupList, nActG)
        /\ Started(singles, nActS, nInitS)' = Started(singles, nActS, nInitS)
        /\ Started(groupList, nActG, nInitG)' = Started(groupList, nActG, nInitG)
    BY <1>1, <1>2, <1>3 DEF Waiting, Started
  <2>2. SortedLists' = SortedLists
    BY <1>1, <1>3 DEF SortedLists, AtTop
  <2>3. BrokenAtNow' = BrokenAtNow /\ Chosen' = Chosen
    BY <1>1 DEF BrokenAtNow, Chosen
  <2> QED
    BY <1>1, <1>2, <1>3, <2>1, <2>2, <2>3 DEF Inv, TimeInv
<1> QED
  BY <1>4, <1>5, <1>6, <1>7, <1>8 DEF Inv

\* Every call keeps the invariant.
LEMMA NextInv ==
    ASSUME Inv, [Next]_vars
    PROVE  Inv'
<1>1. CASE AddInitialGroups
  BY <1>1, AddInitialInv
<1>2. CASE InitialIntegration
  BY <1>2, InitialInv
<1>3. CASE IntegrateGroupsOneStep
  BY <1>3, GroupsInv
<1>4. CASE IntegrateSingleOneStepAct
  BY <1>4, CorrectedInv
<1>5. CASE CheckBreak
  BY <1>5, CheckBreakInv
<1>6. CASE CheckNewGroup
  BY <1>6, CheckNewGroupInv
<1>7. CASE IntegrateToTimeList
  BY <1>7, ToTimeInv
<1>8. CASE BreakGroup
  BY <1>8, BreakGroupInv
<1>9. CASE ReleaseSingles
  BY <1>9, ReleaseInv
<1>10. CASE AddNewGroups
  BY <1>10, AddNewInv
<1>11. CASE ModifySingleParticles
  BY <1>11, ModifyInv
<1>12. CASE SortDtAndSelectActParticle
  BY <1>12, SortInv
<1>13. CASE Stop \/ UNCHANGED vars
  BY <1>13, StutterInv DEF Stop
<1> QED
  BY <1>1, <1>2, <1>3, <1>4, <1>5, <1>6, <1>7, <1>8, <1>9, <1>10, <1>11, <1>12, <1>13 DEF Next

\* The inductive invariant holds in every run of the integrator.
THEOREM InvHolds == Spec => []Inv
<1>1. Init => Inv
  BY InitInv
<1>2. Inv /\ [Next]_vars => Inv'
  BY NextInv
<1> QED
  BY <1>1, <1>2, PTL DEF Spec

\* How often a list that names nothing twice names x
LEMMA CountedOnce ==
    ASSUME NEW S, NEW s \in Seq(S), IsInjective(s), NEW x
    PROVE  Count(s, x) = IF x \in ToSet(s) THEN 1 ELSE 0
<1> DEFINE places == {i \in DOMAIN s : s[i] = x}
<1>1. CASE x \in ToSet(s)
  <2>1. PICK i \in DOMAIN s : s[i] = x
    BY <1>1 DEF ToSet
  <2>2. places = {i}
    BY <2>1 DEF IsInjective
  <2> QED
    BY <1>1, <2>2, FS_Singleton DEF Count
<1>2. CASE x \notin ToSet(s)
  <2>1. places = {}
    BY <1>2 DEF ToSet
  <2> QED
    BY <1>2, <2>1, FS_EmptySet DEF Count
<1> QED
  BY <1>1, <1>2

\* Outside breakGroups every particle is where it belongs, and so is its mask.
LEMMA InvKeepsParticles ==
    ASSUME Inv
    PROVE  ParticlesKept
<1> SUFFICES ASSUME TablesSettled, NEW p \in Particle
             PROVE  LET alone == Count(singles, p)
                        grouped == Cardinality({k \in ToSet(groupList) : p \in groups[k].member})
                    IN  /\ alone + grouped <= 1
                        /\ p \in massive => alone + grouped = 1
                        /\ alone = 1 => p \notin singleMask
                        /\ grouped = 1 => p \in singleMask
  BY DEF ParticlesKept
<1> DEFINE in == {k \in ToSet(groupList) : p \in groups[k].member}
           alone == Count(singles, p)
           grouped == Cardinality(in)
<1>1. TypeOK /\ ListsOK /\ MembersOK /\ AdjOK
  BY DEF Inv
<1>2. Busy = ToSet(groupList)
  BY <1>1 DEF ListsOK, Busy, TablesSettled
<1>3. alone = IF p \in ToSet(singles) THEN 1 ELSE 0
  BY <1>1, CountedOnce DEF TypeOK, ListsOK
<1>4. p \in ToSet(singles) => p \notin singleMask
  BY <1>1 DEF MembersOK
<1>5. p \in Grouped => p \in singleMask
  BY <1>1 DEF MembersOK, Grouped
<1>6. p \in massive => p \in ToSet(singles) \cup Grouped
  BY <1>1 DEF AdjOK
<1>7. grouped = IF p \in Grouped THEN 1 ELSE 0
  <2>1. CASE p \in Grouped
    <3>1. PICK k \in Busy : p \in groups[k].member
      BY <2>1 DEF Grouped
    <3>2. \A l \in Busy : l # k => p \notin groups[l].member
      BY <1>1, <3>1 DEF MembersOK
    <3>3. in = {k}
      BY <1>2, <3>1, <3>2
    <3> QED
      BY <2>1, <3>3, FS_Singleton
  <2>2. CASE p \notin Grouped
    <3>1. in = {}
      BY <1>2, <2>2 DEF Grouped
    <3> QED
      BY <2>2, <3>1, FS_EmptySet
  <2> QED
    BY <2>1, <2>2
<1> HIDE DEF in, alone, grouped
<1>8. /\ alone + grouped <= 1
      /\ p \in massive => alone + grouped = 1
      /\ alone = 1 => p \notin singleMask
      /\ grouped = 1 => p \in singleMask
  BY <1>3, <1>4, <1>5, <1>6, <1>7
<1> QED
  BY <1>8 DEF in, alone, grouped

\* Outside breakGroups a slot is in use or free, and a group in use has two
\* members with mass.
LEMMA InvKeepsSlots ==
    ASSUME Inv
    PROVE  SlotsKept /\ GroupsViable
<1>1. TypeOK /\ ListsOK /\ MembersOK
  BY DEF Inv
<1>2. ASSUME TablesSettled
      PROVE  /\ Busy = ToSet(groupList) /\ ToSet(groupList) \cap groupMask = {}
             /\ Slots = ToSet(groupList) \cup groupMask /\ groupMask = ToSet(freeSlots)
  BY <1>1, <1>2 DEF ListsOK, Busy, TablesSettled
<1>3. SlotsKept
  <2> SUFFICES ASSUME TablesSettled, NEW k \in Slots
               PROVE  /\ Count(groupList, k) + Count(freeSlots, k) = 1
                      /\ (k \in groupMask) = (k \in ToSet(freeSlots))
                      /\ (k \in groupMask) = (groups[k].member = {})
    BY DEF SlotsKept
  <2>1. /\ Count(groupList, k) = IF k \in ToSet(groupList) THEN 1 ELSE 0
        /\ Count(freeSlots, k) = IF k \in ToSet(freeSlots) THEN 1 ELSE 0
    BY <1>1, CountedOnce DEF TypeOK, ListsOK
  <2>2. Count(groupList, k) + Count(freeSlots, k) = 1
    BY <1>2, <2>1
  <2>3. k \in groupMask => groups[k].member = {}
    BY <1>1 DEF MembersOK
  <2>4. k \notin groupMask => groups[k].member # {}
    <3> SUFFICES ASSUME k \notin groupMask, groups[k].member = {} PROVE FALSE
      OBVIOUS
    <3>1. k \in Busy
      BY <1>2
    <3>2. Cardinality(groups[k].member) > 1 /\ Cardinality({}) = 0
      BY <1>1, <3>1, FS_EmptySet DEF MembersOK
    <3> QED
      BY <3>2
  <2> QED
    BY <1>2, <2>2, <2>3, <2>4
<1>4. GroupsViable
  <2> SUFFICES ASSUME TablesSettled
               PROVE  /\ \A k \in ToSet(groupList) \ ToSet(merger) :
                            k \in ToSet(adj.brk) \/ Cardinality(groups[k].member \cap massive) > 1
                      /\ 2 * Len(groups) <= Cardinality(Particle)
    BY DEF GroupsViable
  <2> QED
    BY <1>1, <1>2 DEF MembersOK, Broken
<1> QED
  BY <1>3, <1>4

\* What joins new groups is disjoint from them and from what is broken.
LEMMA InvKeepsNewGroups ==
    ASSUME Inv
    PROVE  NewGroupsDisjoint
<1> SUFFICES ASSUME pc = "checkNewGroup"
             PROVE  /\ \A g, h \in DOMAIN adj.newGroup :
                          g # h => adj.newGroup[g] \cap adj.newGroup[h] = {}
                    /\ \A g \in DOMAIN adj.newGroup :
                          adj.newGroup[g] =
                              UNION {Members(x) : x \in {y \in DOMAIN adj.used : adj.used[y] = g - 1}}
                    /\ \A k \in ToSet(adj.brk) : \A g \in DOMAIN adj.newGroup :
                          groups[k].member \cap adj.newGroup[g] = {}
  BY DEF NewGroupsDisjoint
<1>1. TypeOK /\ ListsOK /\ MembersOK
  BY DEF Inv
<1>2. adj \in AdjShape /\ Formed(adj) /\ Search(adj) /\ Broken \subseteq ToSet(groupList)
  BY DEF Inv, AdjOK, Adjusting, Found
<1>3. DOMAIN adj.used = Particle \cup Slots /\ DOMAIN adj.newGroup \subseteq Nat \ {0}
  BY <1>2 DEF AdjShape
<1>4. \A g, h \in DOMAIN adj.newGroup : g # h => adj.newGroup[g] \cap adj.newGroup[h] = {}
  BY <1>2 DEF Formed
<1>5. \A g \in DOMAIN adj.newGroup : adj.newGroup[g] = UNION {Members(x) : x \in Joiners(adj, g)}
  BY <1>2 DEF Search
<1>6. \A g : Joiners(adj, g) = {y \in DOMAIN adj.used : adj.used[y] = g - 1}
  BY <1>3 DEF Joiners
<1>7. ASSUME NEW k \in ToSet(adj.brk), NEW g \in DOMAIN adj.newGroup
      PROVE  groups[k].member \cap adj.newGroup[g] = {}
  <2>1. k \in Listed /\ k \in Busy /\ k \in Slots
    BY <1>1, <1>2 DEF Broken, Listed, Busy, ListsOK
  <2>2. ASSUME NEW x \in Joiners(adj, g) PROVE groups[k].member \cap Members(x) = {}
    <3>1. x \in Particle \cup Slots /\ adj.used[x] = g - 1 /\ g \in Nat \ {0}
      BY <1>3 DEF Joiners
    <3>2. adj.used[x] >= 0 /\ adj.used[x] # -2
      BY <3>1
    <3>3. x \in Listed /\ x \notin singleMask \cup groupMask \cup ToSet(adj.brk)
      BY <1>2, <3>1, <3>2 DEF Search
    <3>4. x # k
      BY <3>3
    <3>5. CASE x \in Particle
      <4>1. groups[k].member \subseteq singleMask /\ Members(x) = {x}
        BY <1>1, <2>1, <3>5, Kinds DEF MembersOK
      <4> QED
        BY <3>3, <4>1
    <3>6. CASE x \in Slots
      <4>1. x \in Busy /\ Members(x) = groups[x].member
        BY <1>1, <3>3, <3>6, Kinds DEF ListsOK, Busy
      <4> QED
        BY <1>1, <2>1, <3>4, <4>1 DEF MembersOK
    <3> QED
      BY <3>1, <3>5, <3>6
  <2> QED
    BY <1>5, <2>2
<1> QED
  BY <1>4, <1>5, <1>6, <1>7

\* Lists without repetition, over slots and over particles, are bounded.
LEMMA InvFitsBuffers ==
    ASSUME Inv
    PROVE  BuffersFit
<1> SUFFICES ASSUME Adjusting
             PROVE  /\ Len(adj.brk) + Len(adj.noAdd) <= Len(groups)
                    /\ Len(adj.newSingle)
                          + Cardinality(UNION {{g} \X adj.newGroup[g] : g \in DOMAIN adj.newGroup})
                          <= Cardinality(Particle)
  BY DEF BuffersFit, Adjusting
<1>1. /\ adj \in AdjShape /\ Formed(adj)
      /\ IsInjective(adj.brk) /\ IsInjective(adj.noAdd) /\ Broken \cap NotAdded = {}
      /\ IsInjective(adj.newSingle) /\ ToSet(adj.newSingle) \cap Taken = {}
  BY DEF Inv, AdjOK
<1>2. Len(adj.brk) + Len(adj.noAdd) <= Len(groups)
  <2>1. Len(groups) \in Nat /\ Slots = 1..Len(groups)
    BY Kinds DEF Inv
  <2>2. IsFiniteSet(Slots) /\ Cardinality(Slots) = Len(groups)
    <3>1. PICK m \in Nat : m = Len(groups)
      BY <2>1
    <3>2. IsFiniteSet(1..m) /\ Cardinality(1..m) = m
      BY FS_Interval
    <3> QED
      BY <2>1, <3>1, <3>2
  <2>3. PICK b, n : b = adj.brk /\ n = adj.noAdd
    OBVIOUS
  <2>4. b \in Seq(Slots) /\ n \in Seq(Slots)
    BY <1>1, <2>3 DEF AdjShape
  <2>5. IsInjective(b) /\ IsInjective(n) /\ ToSet(b) \cap ToSet(n) = {}
    BY <1>1, <2>3 DEF Broken, NotAdded
  <2>6. b \o n \in Seq(Slots) /\ IsInjective(b \o n) /\ Len(b \o n) = Len(b) + Len(n)
    BY <2>4, <2>5, Joined
  <2>7. Len(b \o n) <= Cardinality(Slots)
    BY <2>2, <2>6, SeqLen
  <2> QED
    BY <2>2, <2>3, <2>6, <2>7
<1>3. Len(adj.newSingle) + Cardinality(UNION {{g} \X adj.newGroup[g] : g \in DOMAIN adj.newGroup})
          <= Cardinality(Particle)
  <2>1. PICK s, N : s = adj.newSingle /\ N = adj.newGroup
    OBVIOUS
  <2>2. s \in Seq(Particle) /\ IsInjective(s) /\ N \in Seq(SUBSET Particle)
    BY <1>1, <2>1 DEF AdjShape
  <2>3. \A g, h \in DOMAIN N : g # h => N[g] \cap N[h] = {}
    BY <1>1, <2>1 DEF Formed
  <2>4. ToSet(s) \cap UNION ToSet(N) = {}
    BY <1>1, <2>1 DEF Taken
  <2>5. Len(s) + Cardinality(UNION {{g} \X N[g] : g \in DOMAIN N}) <= Cardinality(Particle)
    BY <2>2, <2>3, <2>4, TakenFit, HermiteAssumption
  <2> QED
    BY <2>1, <2>5
<1> QED
  BY <1>2, <1>3

\* Every call finds the variables as its predecessor must leave them: the
\* indices in the lists name particles and slots, the active and the new
\* entries are prefixes of their lists.
THEOREM TypesHold == Spec => []TypeOK
<1>1. Inv => TypeOK
  BY DEF Inv
<1> QED
  BY <1>1, InvHolds, PTL

\* No particle with mass is lost or integrated twice (addGroups, breakGroups).
THEOREM NothingLost == Spec => []ParticlesKept
BY InvKeepsParticles, InvHolds, PTL

\* Slots are in use or free, groups are worth their orbit, new groups share
\* no member with what there is, and the arrays of adjustGroups hold all that
\* is put there.
THEOREM GroupsStaySound == Spec => []GroupsSound
<1>1. Inv => GroupsSound
  BY InvKeepsSlots, InvKeepsNewGroups, InvFitsBuffers DEF GroupsSound
<1> QED
  BY <1>1, InvHolds, PTL

\* Sorting the active prefixes alone leaves both lists sorted, with exactly
\* the entries due next in front (sortDtAndSelectActParticle).
THEOREM ListsAreSorted == Spec => []SortedLists
<1>1. Inv => SortedLists
  BY DEF Inv, TimeInv, SortedLists, AtTop
<1> QED
  BY <1>1, InvHolds, PTL

\* Whatever checkBreak dissolves has been brought to the clock before.
THEOREM DissolvedAtTheClock == Spec => []BrokenAtNow
<1>1. Inv => BrokenAtNow
  BY DEF Inv, TimeInv
<1> QED
  BY <1>1, InvHolds, PTL

\* The halved step that checkBreak holds ready for a pair that is about to
\* part is never taken: its guard compares the next time with a clock that has
\* already reached it (reduceGroupCMStepByHalfAndSortDtIndex is not called).
THEOREM NeverHalved == Spec => [][CheckBreak => UNCHANGED <<groups, groupList, timeNextMin>>]_vars
<1>1. Inv /\ [Next]_vars => [CheckBreak => UNCHANGED <<groups, groupList, timeNextMin>>]_vars
  BY CheckBreakStep
<1> QED
  BY <1>1, InvHolds, PTL DEF Spec

-----------------------------------------------------------------------------
(* Hermite implements BlockSchedule                                        *)

\* What is under way: behind the active prefix, and not about to leave.
BehindFirst(list, n) == {list[i] : i \in n + 1..Len(list)}
UnderWay == (BehindFirst(singles, nActS) \cup BehindFirst(groupList, nActG)) \ Leaving

\* The schedule has x as it is.
Recorded(x) == x \in DOMAIN sched /\ sched[x] = [time |-> Entry(x).time, dt |-> Entry(x).dt]

\* The next time is the earliest that anything recorded is due.
FirstDue == \E first \in DOMAIN sched :
               /\ sched[first].time + sched[first].dt = timeNextMin
               /\ \A x \in DOMAIN sched : timeNextMin <= sched[x].time + sched[x].dt

\* The record of the last sort: what is under way is in it, unchanged.
Recording ==
    /\ stage \in {"first", "second"} =>
          now = 0 /\ time = 0 /\ sched = <<>> /\ ~Turning
    /\ stage = "loop" /\ pc # "nothingActive" =>
          FirstDue /\ (pc # "integrateGroupsOneStep" => now < TimeEnd)
    /\ pc = "integrateGroupsOneStep" =>
          now = time /\ DOMAIN sched = Listed /\ \A x \in Listed : Recorded(x)
    /\ \A x \in UnderWay : Recorded(x)

\* A call leaves alone what stays under way.
Untouched ==
    /\ \A p \in BehindFirst(singles, nActS)' \ Leaving' :
          p \in BehindFirst(singles, nActS) \ Leaving /\ ptcl'[p] = ptcl[p]
    /\ \A k \in BehindFirst(groupList, nActG)' \ Leaving' :
          k \in BehindFirst(groupList, nActG) \ Leaving /\ groups'[k] = groups[k]

\* What is behind the active prefix is in the list, and not active.
LEMMA BehindActive ==
    ASSUME NEW S, NEW list \in Seq(S), NEW n \in 0..Len(list)
    PROVE  /\ BehindFirst(list, n) \subseteq ToSet(list) /\ BehindFirst(list, n) \subseteq S
           /\ ToSet(list) = {list[i] : i \in 1..n} \cup BehindFirst(list, n)
           /\ IsInjective(list) =>
                 BehindFirst(list, n) \cap ToSet(SubSeq(list, 1, n)) = {}
<1>1. /\ Len(list) \in Nat /\ n \in Nat /\ DOMAIN list = 1..Len(list)
      /\ 1..Len(list) = (1..n) \cup (n + 1..Len(list))
  OBVIOUS
<1>2. BehindFirst(list, n) \subseteq ToSet(list) /\ BehindFirst(list, n) \subseteq S
  BY <1>1 DEF BehindFirst, ToSet
<1>3. ToSet(list) = {list[i] : i \in 1..n} \cup BehindFirst(list, n)
  BY <1>1 DEF BehindFirst, ToSet
<1>4. ASSUME IsInjective(list), NEW x \in BehindFirst(list, n) PROVE x \notin ToSet(SubSeq(list, 1, n))
  <2>1. PICK i \in n + 1..Len(list) : x = list[i]
    BY DEF BehindFirst
  <2>2. i \in 1..Len(list) /\ ~(i <= n)
    BY <1>1, <2>1
  <2>3. list[i] \in ToSet(SubSeq(list, 1, n)) <=> i <= n
    BY <1>4, <2>2, Prefix
  <2> QED
    BY <2>1, <2>2, <2>3
<1> QED
  BY <1>2, <1>3, <1>4

\* Something in front of a list, and as much more active, leaves the rest behind.
LEMMA BehindLonger ==
    ASSUME NEW S, NEW list \in Seq(S), NEW n \in 0..Len(list), NEW s \in Seq(S),
           NEW u, u = s \o list
    PROVE  BehindFirst(u, n + Len(s)) \subseteq BehindFirst(list, n)
<1> SUFFICES ASSUME NEW i \in n + Len(s) + 1..Len(u) PROVE u[i] \in BehindFirst(list, n)
  BY DEF BehindFirst
<1>1. Len(s) \in Nat /\ Len(list) \in Nat /\ n \in Nat /\ Len(u) = Len(s) + Len(list)
  BY Joined
<1>2. i - Len(s) \in n + 1..Len(list) /\ i \in Len(s) + 1..Len(s) + Len(list)
  BY <1>1
<1>3. u[i] = list[i - Len(s)]
  BY <1>2, Joined
<1> QED
  BY <1>2, <1>3 DEF BehindFirst

\* Removing from a list leaves behind what was behind and is not removed.
LEMMA BehindShorter ==
    ASSUME NEW S, NEW list \in Seq(S), NEW n \in 0..Len(list), NEW T,
           NEW u, u = Removed(list, T), NEW m, m = Remaining(list, n, T)
    PROVE  BehindFirst(u, m) \subseteq BehindFirst(list, n) \ T
<1>1. u \in Seq(S) /\ m \in 0..Len(u)
  BY RemovedProps, RemainingProps
<1>2. PICK f \in [DOMAIN u -> {i \in DOMAIN list : list[i] \notin T}] :
          \A r \in DOMAIN u : u[r] = list[f[r]] /\ (r <= m <=> f[r] <= n)
  BY SMTT(20), RemainingProps
<1> SUFFICES ASSUME NEW r \in m + 1..Len(u) PROVE u[r] \in BehindFirst(list, n) \ T
  BY DEF BehindFirst
<1>3. r \in DOMAIN u /\ ~(r <= m)
  BY <1>1
<1>4. f[r] \in DOMAIN list /\ list[f[r]] \notin T /\ ~(f[r] <= n) /\ u[r] = list[f[r]]
  BY <1>2, <1>3
<1>5. f[r] \in n + 1..Len(list)
  BY <1>4
<1> QED
  BY <1>4, <1>5 DEF BehindFirst

\* The lists as they are, and nothing comes back from leaving.
LEMMA UntouchedLists ==
    ASSUME UNCHANGED <<singles, groupList, nActS, nActG>>,
           \A p \in BehindFirst(singles, nActS) \ Leaving' : p \notin Leaving /\ ptcl'[p] = ptcl[p],
           \A k \in BehindFirst(groupList, nActG) \ Leaving' : k \notin Leaving /\ groups'[k] = groups[k]
    PROVE  Untouched
BY DEF Untouched, BehindFirst

\* initialIntegration starts active entries only.
LEMMA InitialUntouched ==
    ASSUME Inv, InitialIntegration
    PROVE  Untouched
<1>1. /\ TypeOK /\ ListsOK /\ pc = "initialIntegration"
      /\ UNCHANGED <<singles, groupList, nActS, nActG, tables>>
      /\ pc' \in {"checkBreak", "sort", "modifySingles"}
  BY DEF Inv, InitialIntegration, TypeOK
<1>2. Leaving = groupMask /\ Leaving' = groupMask
  BY <1>1 DEF Leaving, tables
<1>3. /\ singles \in Seq(Particle) /\ nActS \in 0..Len(singles) /\ nInitS \in 0..nActS
      /\ groupList \in Seq(Slots) /\ nActG \in 0..Len(groupList) /\ nInitG \in 0..nActG
      /\ IsInjective(singles) /\ IsInjective(groupList)
  BY <1>1 DEF TypeOK, ListsOK
<1>4. PICK dt :
          /\ ptcl' = [p \in Particle |->
                        IF p \in FreshS THEN [time |-> time, dt |-> dt[p], next |-> time + dt[p]]
                        ELSE ptcl[p]]
          /\ groups' = [k \in Slots |->
                          IF k \in FreshG THEN [member |-> groups[k].member,
                                                time |-> time, dt |-> dt[k],
                                                next |-> time + dt[k]]
                          ELSE groups[k]]
  BY InitialSteps
<1>5. nInitS \in 0..Len(singles) /\ nInitG \in 0..Len(groupList)
  BY <1>3
<1>6. /\ \A p \in BehindFirst(singles, nActS) : p \in Particle /\ p \notin FreshS
      /\ \A k \in BehindFirst(groupList, nActG) : k \in Slots /\ k \notin FreshG
  <2>1. BehindFirst(singles, nActS) \subseteq BehindFirst(singles, nInitS)
        /\ BehindFirst(groupList, nActG) \subseteq BehindFirst(groupList, nInitG)
    BY <1>3, <1>5 DEF BehindFirst
  <2>2. BehindFirst(singles, nInitS) \cap FreshS = {} /\ BehindFirst(singles, nInitS) \subseteq Particle
    BY <1>3, <1>5, BehindActive DEF FreshS
  <2>3. BehindFirst(groupList, nInitG) \cap FreshG = {} /\ BehindFirst(groupList, nInitG) \subseteq Slots
    BY <1>3, <1>5, BehindActive DEF FreshG
  <2> QED
    BY <2>1, <2>2, <2>3
<1>7. \A p \in BehindFirst(singles, nActS) : ptcl'[p] = ptcl[p]
  BY <1>4, <1>6
<1>8. \A k \in BehindFirst(groupList, nActG) : groups'[k] = groups[k]
  BY <1>4, <1>6
<1> QED
  BY <1>1, <1>2, <1>7, <1>8, UntouchedLists

\* An interrupted group becomes active; the others are where they were.
LEMMA GroupsUntouched ==
    ASSUME Inv, IntegrateGroupsOneStep
    PROVE  Untouched
<1>1. /\ TypeOK /\ ListsOK /\ pc = "integrateGroupsOneStep" /\ pc' = "integrateSingles"
      /\ UNCHANGED <<ptcl, singles, nActS, tables>>
  BY DEF Inv, IntegrateGroupsOneStep
<1>2. Leaving = groupMask /\ Leaving' = groupMask
  BY <1>1 DEF Leaving, tables
<1>3. PICK r, moved, s, n : GroupsStepped(r, moved, s, n)
  BY GroupStep
<1>4. /\ groups' = [k \in Slots |->
                      IF k \in moved
                      THEN [member |-> groups[k].member, time |-> groups[k].time,
                            dt |-> timeNextMin - groups[k].time, next |-> timeNextMin]
                      ELSE groups[k]]
      /\ s = groupList' /\ n = nActG'
  BY <1>3 DEF GroupsStepped
<1>5. /\ groupList \in Seq(Slots) /\ s \in Seq(Slots) /\ Len(s) = Len(groupList)
      /\ n \in 0..Len(groupList) /\ nActG \in 0..Len(groupList)
      /\ Follows(s, n, groupList, nActG) /\ \A i \in n + 1..Len(groupList) : s[i] \notin moved
  BY <1>1, <1>3 DEF GroupsStepped, TypeOK
<1>6. BehindFirst(groupList, nActG)' = BehindFirst(s, n)
  BY <1>4 DEF BehindFirst
<1>7. \A k \in BehindFirst(s, n) : k \in BehindFirst(groupList, nActG) /\ k \notin moved
  <2> SUFFICES ASSUME NEW i \in n + 1..Len(s)
               PROVE  s[i] \in BehindFirst(groupList, nActG) /\ s[i] \notin moved
    BY DEF BehindFirst
  <2>1. PICK f \in [n + 1..Len(groupList) -> nActG + 1..Len(groupList)] :
            \A q \in n + 1..Len(groupList) : s[q] = groupList[f[q]]
    BY <1>5 DEF Follows
  <2> QED
    BY <1>5, <2>1 DEF BehindFirst
<1>8. \A k \in BehindFirst(groupList, nActG) : k \in Slots
  BY <1>5, BehindActive
<1>9. \A k \in BehindFirst(s, n) : groups'[k] = groups[k]
  BY <1>4, <1>7, <1>8
<1>10. BehindFirst(singles, nActS)' = BehindFirst(singles, nActS) /\ ptcl' = ptcl
  BY <1>1 DEF BehindFirst
<1> QED
  BY <1>2, <1>6, <1>7, <1>9, <1>10 DEF Untouched

\* integrateSingleOneStepAct corrects active entries only.
LEMMA CorrectedUntouched ==
    ASSUME Inv, IntegrateSingleOneStepAct
    PROVE  Untouched
<1>1. /\ TypeOK /\ ListsOK /\ pc = "integrateSingles" /\ pc' = "checkBreak"
      /\ UNCHANGED <<singles, groupList, nActS, nActG, tables>>
  BY DEF Inv, IntegrateSingleOneStepAct, lists
<1>2. Leaving = groupMask /\ Leaving' = groupMask
  BY <1>1 DEF Leaving, tables
<1>3. PICK dt :
          /\ ptcl' = [p \in Particle |->
                        IF p \in ActiveS THEN [time |-> timeNextMin, dt |-> dt[p],
                                               next |-> timeNextMin + dt[p]]
                        ELSE ptcl[p]]
          /\ groups' = [k \in Slots |->
                          IF k \in ActiveG THEN [member |-> groups[k].member,
                                                 time |-> timeNextMin, dt |-> dt[k],
                                                 next |-> timeNextMin + dt[k]]
                          ELSE groups[k]]
  BY CorrectedSteps
<1>4. /\ singles \in Seq(Particle) /\ nActS \in 0..Len(singles) /\ IsInjective(singles)
      /\ groupList \in Seq(Slots) /\ nActG \in 0..Len(groupList) /\ IsInjective(groupList)
  BY <1>1 DEF TypeOK, ListsOK
<1>5. BehindFirst(singles, nActS) \cap ActiveS = {} /\ BehindFirst(singles, nActS) \subseteq Particle
  BY <1>4, BehindActive DEF ActiveS
<1>6. BehindFirst(groupList, nActG) \cap ActiveG = {} /\ BehindFirst(groupList, nActG) \subseteq Slots
  BY <1>4, BehindActive DEF ActiveG
<1>7. \A p \in BehindFirst(singles, nActS) : ptcl'[p] = ptcl[p]
  BY <1>3, <1>5
<1>8. \A k \in BehindFirst(groupList, nActG) : groups'[k] = groups[k]
  BY <1>3, <1>6
<1> QED
  BY <1>1, <1>2, <1>7, <1>8, UntouchedLists

\* checkBreak and checkNewGroup only look.
LEMMA ChecksUntouched ==
    ASSUME Inv, CheckBreak \/ CheckNewGroup
    PROVE  Untouched /\ timeNextMin' = timeNextMin
<1>1. CASE CheckBreak
  <2>1. UNCHANGED <<groups, groupList, timeNextMin, nActG>>
    BY <1>1, CheckBreakStep
  <2>2. /\ pc = "checkBreak" /\ pc' = "checkNewGroup"
        /\ UNCHANGED <<singles, nActS, ptcl, tables>>
    BY <1>1 DEF CheckBreak
  <2>3. Leaving = groupMask /\ Leaving' = groupMask
    BY <2>2 DEF Leaving, tables
  <2> QED
    BY <2>1, <2>2, <2>3, UntouchedLists
<1>2. CASE CheckNewGroup
  <2>1. /\ pc = "checkNewGroup"
        /\ UNCHANGED <<pc, clock, ptcl, groups, lists, tables>>
    BY <1>2 DEF CheckNewGroup
  <2>2. Leaving = groupMask /\ Leaving' = groupMask
    BY <2>1 DEF Leaving, tables
  <2>3. UNCHANGED <<singles, groupList, nActS, nActG, timeNextMin>>
    BY <2>1 DEF lists, clock
  <2> QED
    BY <2>1, <2>2, <2>3, UntouchedLists
<1> QED
  BY <1>1, <1>2

\* What is brought to the clock, or dissolved, is about to leave the lists.
LEMMA AdjustUntouched ==
    ASSUME Inv, IntegrateToTimeList \/ BreakGroup
    PROVE  Untouched
<1>1. /\ TypeOK /\ adj \in AdjShape
      /\ \A p \in Particle : p \notin Slots
      /\ singles \in Seq(Particle) /\ nActS \in 0..Len(singles)
      /\ groupList \in Seq(Slots) /\ nActG \in 0..Len(groupList)
  BY Kinds DEF Inv, AdjOK, Adjusting, IntegrateToTimeList, BreakGroup, TypeOK
<1>2. BehindFirst(singles, nActS) \subseteq Particle /\ BehindFirst(groupList, nActG) \subseteq Slots
  BY <1>1, BehindActive
<1>3. CASE IntegrateToTimeList
  <2>1. /\ pc = "checkNewGroup" /\ pc' = "breakGroups" /\ UNCHANGED <<lists, tables>>
        /\ \A p \in Particle : p \notin Taken => ptcl'[p] = ptcl[p]
        /\ \A k \in Slots : k \notin Broken => groups'[k] = groups[k]
    BY <1>3, ToTimeStep
  <2>2. Broken' = Broken /\ Taken' = Taken
    BY <1>3, ToTimeStep DEF Broken, Taken
  <2>3. Leaving = groupMask /\ Leaving' = groupMask \cup Broken \cup Taken
    BY <2>1, <2>2 DEF Leaving, tables
  <2>4. UNCHANGED <<singles, groupList, nActS, nActG>>
    BY <2>1 DEF lists
  <2> QED
    BY <1>2, <2>1, <2>3, <2>4, UntouchedLists
<1>4. CASE BreakGroup
  <2>1. PICK k, left, right, b :
           /\ k \in Slots /\ k = adj.brk[adj.cursor] /\ adj.cursor \in DOMAIN adj.brk
           /\ left \in SUBSET Particle /\ right \in SUBSET Particle
           /\ groups[k].member = left \cup right /\ left \cap right = {}
           /\ groups' = [groups EXCEPT ![k] = NewGroup({})]
           /\ groupMask' = groupMask \cup {k} /\ freeSlots' = Append(freeSlots, k)
           /\ singleMask' = singleMask \ (Unmasked(left) \cup Unmasked(right))
           /\ b = adj'
           /\ b = [brk |-> adj.brk, noAdd |-> adj.noAdd,
                   newGroup |-> (adj.newGroup \o Regroup(left)) \o Regroup(right),
                   newSingle |-> (adj.newSingle \o SetToSeq(Single(left))) \o SetToSeq(Single(right)),
                   used |-> adj.used, cursor |-> adj.cursor + 1]
    BY <1>4, BreakStep
  <2>2. pc = "breakGroups" /\ pc' = "breakGroups" /\ UNCHANGED <<ptcl, lists>>
    BY <1>4 DEF BreakGroup
  <2>3. Broken' = Broken /\ k \in Broken
    BY <2>1 DEF Broken, ToSet
  <2>4. Taken \subseteq Taken'
    <3>1. PICK N, M : N = adj.newGroup /\ M = (N \o Regroup(left)) \o Regroup(right)
      OBVIOUS
    <3>2. N \in Seq(SUBSET Particle)
      BY <1>1, <3>1 DEF AdjShape
    <3>3. Regroup(left) \in Seq(SUBSET Particle) /\ Regroup(right) \in Seq(SUBSET Particle)
      BY <2>1, Branch
    <3>4. PICK L, R, K : L = Regroup(left) /\ R = Regroup(right) /\ K = N \o L
      OBVIOUS
    <3>5. ToSet(K) = ToSet(N) \cup ToSet(L) /\ K \in Seq(SUBSET Particle)
      BY <3>2, <3>3, <3>4, Joined
    <3>6. R \in Seq(SUBSET Particle)
      BY <3>3, <3>4
    <3>7. ToSet(K \o R) = ToSet(K) \cup ToSet(R)
      BY <3>5, <3>6, Joined
    <3>8. Taken = UNION ToSet(N) /\ Taken' = UNION ToSet(M) /\ M = K \o R
      BY <2>1, <3>1, <3>4 DEF Taken
    <3> QED
      BY <3>5, <3>7, <3>8
  <2>5. /\ Leaving = groupMask \cup Broken \cup Taken
        /\ Leaving' = groupMask' \cup Broken' \cup Taken'
    BY <2>2 DEF Leaving
  <2>6. \A l \in Slots : l # k => groups'[l] = groups[l]
    BY <2>1 DEF Slots
  <2>7. UNCHANGED <<singles, groupList, nActS, nActG>>
    BY <2>2 DEF lists
  <2> QED
    BY <1>2, <2>1, <2>2, <2>3, <2>4, <2>5, <2>6, <2>7, UntouchedLists
<1> QED
  BY <1>3, <1>4

\* The released singles are active, what joined a new group is out of the list.
LEMMA ReleaseUntouched ==
    ASSUME Inv, ReleaseSingles
    PROVE  Untouched
<1>1. /\ TypeOK /\ adj \in AdjShape /\ DissolvingOK /\ ListsOK
      /\ pc = "breakGroups" /\ pc' = "addGroups" /\ adj.cursor > Len(adj.brk)
      /\ UNCHANGED <<ptcl, adj>>
  BY DEF Inv, AdjOK, Adjusting, ReleaseSingles
<1> DEFINE mask == groupMask \cup NotAdded
<1>2. /\ singles' = adj.newSingle \o singles
      /\ nActS' = nActS + Len(adj.newSingle)
      /\ groupMask' = mask
      /\ groupList' = Removed(groupList, mask)
      /\ nActG' = Remaining(groupList, nActG, mask)
  BY DEF ReleaseSingles, NotAdded
<1>3. \A k \in Slots : k \notin NotAdded => groups'[k] = groups[k]
  BY ReleaseType
<1>4. Broken \subseteq groupMask
  <2> SUFFICES ASSUME NEW i \in DOMAIN adj.brk PROVE adj.brk[i] \in groupMask
    BY DEF Broken, ToSet
  <2>1. i \in 1..Len(adj.brk) /\ Len(adj.brk) \in Nat /\ adj.cursor \in Nat
    BY <1>1 DEF AdjShape
  <2>2. i < adj.cursor
    BY <1>1, <2>1
  <2> QED
    BY <1>1, <2>2 DEF DissolvingOK
<1>5. Leaving = groupMask \cup Broken \cup Taken /\ Leaving' = mask \cup Taken
  BY <1>1, <1>2 DEF Leaving, Taken
<1> HIDE DEF mask
<1>6. /\ singles \in Seq(Particle) /\ nActS \in 0..Len(singles)
      /\ groupList \in Seq(Slots) /\ nActG \in 0..Len(groupList)
      /\ adj.newSingle \in Seq(Particle)
  BY <1>1 DEF TypeOK, AdjShape
<1>7. BehindFirst(singles, nActS)' \subseteq BehindFirst(singles, nActS)
  <2>1. BehindFirst(singles', nActS + Len(adj.newSingle)) \subseteq BehindFirst(singles, nActS)
    BY <1>2, <1>6, BehindLonger
  <2> QED
    BY <1>2, <2>1 DEF BehindFirst
<1>8. BehindFirst(groupList, nActG)' \subseteq BehindFirst(groupList, nActG) \ mask
  <2>1. BehindFirst(groupList', nActG') \subseteq BehindFirst(groupList, nActG) \ mask
    BY <1>2, <1>6, BehindShorter
  <2> QED
    BY <2>1 DEF BehindFirst
<1>9. BehindFirst(groupList, nActG) \subseteq Slots
  BY <1>6, BehindActive
<1>10. groupMask \subseteq mask /\ NotAdded \subseteq mask
  BY DEF mask
<1> QED
  BY <1>1, <1>3, <1>4, <1>5, <1>7, <1>8, <1>9, <1>10 DEF Untouched

\* Members leave the list of singles, the new groups are active.
LEMMA AddUntouched ==
    ASSUME Inv, pc \in {"addInitialGroups", "addGroups"}, pc' = "initialIntegration",
           NEW new \in Seq(SUBSET Particle), AddGroups(new),
           Leaving \subseteq groupMask \cup (UNION ToSet(new))
    PROVE  Untouched
<1>1. TypeOK /\ ListsOK /\ ToSet(groupList) \cap groupMask = {} /\ Leaving' = groupMask'
  BY DEF Inv, ListsOK, Leaving
<1>2. /\ singles \in Seq(Particle) /\ nActS \in 0..Len(singles)
      /\ groupList \in Seq(Slots) /\ nActG \in 0..Len(groupList)
      /\ \A p \in Particle : p \notin Slots
  BY <1>1, Kinds DEF TypeOK
<1>3. /\ BehindFirst(singles, nActS) \subseteq Particle
      /\ BehindFirst(groupList, nActG) \subseteq ToSet(groupList) /\ ToSet(groupList) \subseteq Slots
  BY <1>2, BehindActive DEF ToSet
<1>4. groupMask \subseteq Slots /\ UNION ToSet(new) \subseteq Particle
  BY <1>1 DEF TypeOK, ToSet
<1>5. CASE new = <<>>
  <2>1. UNCHANGED <<ptcl, groups, singles, groupList, nActS, nActG, groupMask>>
    BY <1>5 DEF AddGroups, lists, tables
  <2>2. ToSet(new) = {}
    BY <1>5 DEF ToSet
  <2>3. UNION ToSet(new) = {}
    BY <2>2
  <2>4. Leaving \subseteq Leaving'
    BY <1>1, <2>1, <2>3
  <2> QED
    BY <2>1, <2>4, UntouchedLists
<1>6. CASE new # <<>>
  <2> DEFINE mask == singleMask \cup UNION ToSet(new)
  <2>1. PICK slot, m : SlotsGiven(new, slot, m)
    BY <1>1, <1>6, GivenSlots
  <2>2. /\ \A k \in Slots \ ToSet(slot) : groups'[k] = groups[k]
        /\ groupMask' = groupMask \ ToSet(slot) /\ groupList' = slot \o groupList
        /\ ToSet(slot) \cap ToSet(groupList) = {} /\ Len(slot) = Len(new)
        /\ m \in Nat /\ Len(groups) <= m /\ slot \in Seq(1..m)
    BY <2>1 DEF SlotsGiven
  <2>3. /\ \A p \in Particle \ mask : ptcl'[p] = ptcl[p]
        /\ singles' = Removed(singles, mask) /\ nActS' = Remaining(singles, nActS, mask)
        /\ nActG' = nActG + Len(new)
    BY <1>1, <1>6, GivenSingles
  <2>4. UNION ToSet(new) \subseteq mask
    OBVIOUS
  <2> HIDE DEF mask
  <2>5. BehindFirst(singles, nActS)' \subseteq BehindFirst(singles, nActS) \ mask
    <3>1. BehindFirst(singles', nActS') \subseteq BehindFirst(singles, nActS) \ mask
      BY <1>2, <2>3, BehindShorter
    <3> QED
      BY <3>1 DEF BehindFirst
  <2>6. BehindFirst(groupList, nActG)' \subseteq BehindFirst(groupList, nActG)
    <3>1. Len(groups) \in Nat /\ Slots = 1..Len(groups)
      BY <1>1, Kinds
    <3>2. Slots \subseteq 1..m
      BY <2>2, <3>1
    <3>3. groupList \in Seq(1..m)
      BY <1>2, <3>2, WiderSeq
    <3>4. BehindFirst(groupList', nActG + Len(slot)) \subseteq BehindFirst(groupList, nActG)
      BY <1>2, <2>2, <3>3, BehindLonger
    <3>5. nActG' = nActG + Len(slot)
      BY <2>2, <2>3
    <3> QED
      BY <3>4, <3>5 DEF BehindFirst
  <2>7. \A p \in BehindFirst(singles, nActS)' : /\ p \in BehindFirst(singles, nActS) \ Leaving
                                                /\ ptcl'[p] = ptcl[p]
    <3> SUFFICES ASSUME NEW p \in BehindFirst(singles, nActS)'
                 PROVE  p \in BehindFirst(singles, nActS) \ Leaving /\ ptcl'[p] = ptcl[p]
      OBVIOUS
    <3>1. p \in BehindFirst(singles, nActS) /\ p \notin mask
      BY <2>5
    <3>2. p \in Particle /\ p \notin groupMask
      BY <1>2, <1>3, <1>4, <3>1
    <3> QED
      BY <2>3, <2>4, <3>1, <3>2
  <2>8. \A k \in BehindFirst(groupList, nActG)' : /\ k \in BehindFirst(groupList, nActG) \ Leaving
                                                  /\ groups'[k] = groups[k]
    <3> SUFFICES ASSUME NEW k \in BehindFirst(groupList, nActG)'
                 PROVE  k \in BehindFirst(groupList, nActG) \ Leaving /\ groups'[k] = groups[k]
      OBVIOUS
    <3>1. k \in BehindFirst(groupList, nActG) /\ k \in ToSet(groupList) /\ k \in Slots
      BY <1>3, <2>6
    <3>2. k \notin groupMask /\ k \notin UNION ToSet(new) /\ k \notin ToSet(slot)
      BY <1>1, <1>2, <1>4, <2>2, <3>1
    <3> QED
      BY <2>2, <3>1, <3>2
  <2> QED
    BY <2>7, <2>8 DEF Untouched
<1> QED
  BY <1>5, <1>6

\* addGroups, before the integration and in adjustGroups
LEMMA AddingUntouched ==
    ASSUME Inv, AddInitialGroups \/ AddNewGroups
    PROVE  Untouched
<1>1. CASE AddInitialGroups
  <2>1. pc = "addInitialGroups" /\ pc' = "initialIntegration"
    BY <1>1 DEF AddInitialGroups
  <2>2. PICK N \in InitialGroups : AddGroups(N)
    BY <1>1 DEF AddInitialGroups
  <2>3. PICK n \in 0..(Cardinality(Particle) \div 2) : N \in [1..n -> SUBSET Particle]
    BY DEF InitialGroups
  <2>4. n \in Nat /\ N \in Seq(SUBSET Particle)
    BY <2>3
  <2>5. Leaving \subseteq groupMask \cup (UNION ToSet(N))
    BY <2>1 DEF Leaving
  <2> QED
    BY <2>1, <2>2, <2>4, <2>5, AddUntouched
<1>2. CASE AddNewGroups
  <2>1. pc = "addGroups" /\ pc' = "initialIntegration"
    BY <1>2 DEF AddNewGroups
  <2>2. PICK N : N = adj.newGroup
    OBVIOUS
  <2>3. N \in Seq(SUBSET Particle) /\ Taken = UNION ToSet(N) /\ AddGroups(N)
    BY <1>2, <2>1, <2>2 DEF Inv, AdjOK, Adjusting, AdjShape, Taken, AddNewGroups
  <2>4. Leaving \subseteq groupMask \cup (UNION ToSet(N))
    BY <2>1, <2>3 DEF Leaving
  <2> QED
    BY <2>1, <2>3, <2>4, AddUntouched
<1> QED
  BY <1>1, <1>2

\* modifySingleParticles changes active particles only.
LEMMA ModifyUntouched ==
    ASSUME Inv, ModifySingleParticles
    PROVE  Untouched
<1>1. /\ TypeOK /\ ListsOK /\ pc = "modifySingles" /\ pc' = "sort"
      /\ UNCHANGED <<groups, lists, tables>>
  BY DEF Inv, ModifySingleParticles
<1>2. Leaving = groupMask /\ Leaving' = groupMask
  BY <1>1 DEF Leaving, tables
<1>3. PICK lost : /\ lost \in SUBSET IF "vanish" \in Events THEN ActiveS \cap massive ELSE {}
                  /\ ptcl' = [p \in Particle |->
                                IF p \in lost THEN Restart(ptcl[p], ptcl[p].time, ptcl[p].dt)
                                ELSE ptcl[p]]
  BY DEF ModifySingleParticles
<1>4. lost \subseteq ActiveS
  BY <1>3
<1>5. /\ singles \in Seq(Particle) /\ nActS \in 0..Len(singles) /\ IsInjective(singles)
  BY <1>1 DEF TypeOK, ListsOK
<1>6. BehindFirst(singles, nActS) \cap ActiveS = {} /\ BehindFirst(singles, nActS) \subseteq Particle
  BY <1>5, BehindActive DEF ActiveS
<1>7. \A p \in BehindFirst(singles, nActS) : ptcl'[p] = ptcl[p]
  BY <1>3, <1>4, <1>6
<1>8. UNCHANGED <<singles, groupList, nActS, nActG>>
  BY <1>1 DEF lists
<1> QED
  BY <1>1, <1>2, <1>7, <1>8, UntouchedLists

\* A call between two sorts
Between ==
    /\ Untouched /\ timeNextMin' = timeNextMin
    /\ pc # "nothingActive" /\ pc' \notin {"integrateGroupsOneStep", "nothingActive"}
    /\ pc = "integrateGroupsOneStep" => time < TimeEnd
    /\ ~Turning => ~Turning' /\ time' = time
    /\ stage' = "loop" <=> stage = "loop"

\* Every call but the sort leaves the next time, and what is under way.
LEMMA CallsBetween ==
    ASSUME Inv, Next, ~SortDtAndSelectActParticle, ~Stop
    PROVE  Between
<1>1. stage \in {"first", "second", "loop"}
  BY DEF Inv, TypeOK
<1>2. CASE AddInitialGroups
  <2>1. Untouched
    BY <1>2, AddingUntouched
  <2> QED
    BY <1>2, <2>1 DEF AddInitialGroups, Between, Turning, clock
<1>3. CASE InitialIntegration
  <2>1. Untouched
    BY <1>3, InitialUntouched
  <2>2. pc' \in {"checkBreak", "sort", "modifySingles"}
    BY <1>1, <1>3 DEF InitialIntegration
  <2>3. pc = "initialIntegration" /\ UNCHANGED <<stage, time, timeNextMin>>
    BY <1>3 DEF InitialIntegration
  <2> QED
    BY <2>1, <2>2, <2>3 DEF Between, Turning
<1>4. CASE IntegrateGroupsOneStep
  <2>1. Untouched
    BY <1>4, GroupsUntouched
  <2>2. /\ pc = "integrateGroupsOneStep" /\ time < TimeEnd /\ pc' = "integrateSingles"
        /\ UNCHANGED <<stage, clock>>
    BY <1>4 DEF IntegrateGroupsOneStep
  <2> QED
    BY <2>1, <2>2 DEF Between, Turning, clock
<1>5. CASE IntegrateSingleOneStepAct
  <2>1. Untouched
    BY <1>5, CorrectedUntouched
  <2>2. pc = "integrateSingles" /\ pc' = "checkBreak" /\ UNCHANGED <<stage, timeNextMin>>
    BY <1>5 DEF IntegrateSingleOneStepAct
  <2> QED
    BY <2>1, <2>2 DEF Between, Turning
<1>6. CASE CheckBreak
  <2>1. Untouched /\ timeNextMin' = timeNextMin
    BY <1>6, ChecksUntouched
  <2>2. pc = "checkBreak" /\ pc' = "checkNewGroup" /\ UNCHANGED <<stage, time>>
    BY <1>6 DEF CheckBreak
  <2> QED
    BY <2>1, <2>2 DEF Between, Turning
<1>7. CASE CheckNewGroup
  <2>1. Untouched /\ timeNextMin' = timeNextMin
    BY <1>7, ChecksUntouched
  <2>2. pc = "checkNewGroup" /\ UNCHANGED <<pc, stage, clock>>
    BY <1>7 DEF CheckNewGroup
  <2> QED
    BY <2>1, <2>2 DEF Between, Turning, clock
<1>8. CASE IntegrateToTimeList
  <2>1. Untouched
    BY <1>8, AdjustUntouched
  <2>2. pc = "checkNewGroup" /\ pc' = "breakGroups" /\ UNCHANGED <<stage, clock>>
    BY <1>8 DEF IntegrateToTimeList
  <2> QED
    BY <2>1, <2>2 DEF Between, Turning, clock
<1>9. CASE BreakGroup
  <2>1. Untouched
    BY <1>9, AdjustUntouched
  <2>2. pc = "breakGroups" /\ UNCHANGED <<pc, stage, clock>>
    BY <1>9 DEF BreakGroup
  <2> QED
    BY <2>1, <2>2 DEF Between, Turning, clock
<1>10. CASE ReleaseSingles
  <2>1. Untouched
    BY <1>10, ReleaseUntouched
  <2>2. pc = "breakGroups" /\ pc' = "addGroups" /\ UNCHANGED <<stage, clock>>
    BY <1>10 DEF ReleaseSingles
  <2> QED
    BY <2>1, <2>2 DEF Between, Turning, clock
<1>11. CASE AddNewGroups
  <2>1. Untouched
    BY <1>11, AddingUntouched
  <2>2. /\ pc = "addGroups" /\ pc' = "initialIntegration" /\ UNCHANGED clock
        /\ stage' = IF stage = "first" THEN "second" ELSE stage
    BY <1>11 DEF AddNewGroups
  <2> QED
    BY <2>1, <2>2 DEF Between, Turning, clock
<1>12. CASE ModifySingleParticles
  <2>1. Untouched
    BY <1>12, ModifyUntouched
  <2>2. pc = "modifySingles" /\ pc' = "sort" /\ UNCHANGED <<stage, clock>>
    BY <1>12 DEF ModifySingleParticles
  <2> QED
    BY <2>1, <2>2 DEF Between, Turning, clock
<1> QED
  BY <1>2, <1>3, <1>4, <1>5, <1>6, <1>7, <1>8, <1>9, <1>10, <1>11, <1>12 DEF Next

\* What is under way is listed.
LEMMA UnderWayListed ==
    ASSUME TypeOK
    PROVE  /\ BehindFirst(singles, nActS) \subseteq Particle
           /\ BehindFirst(groupList, nActG) \subseteq Slots
           /\ UnderWay \subseteq Listed
<1>1. /\ singles \in Seq(Particle) /\ nActS \in 0..Len(singles)
      /\ groupList \in Seq(Slots) /\ nActG \in 0..Len(groupList)
  BY DEF TypeOK
<1>2. /\ BehindFirst(singles, nActS) \subseteq ToSet(singles)
      /\ BehindFirst(singles, nActS) \subseteq Particle
  BY <1>1, BehindActive
<1>3. /\ BehindFirst(groupList, nActG) \subseteq ToSet(groupList)
      /\ BehindFirst(groupList, nActG) \subseteq Slots
  BY <1>1, BehindActive
<1> QED
  BY <1>2, <1>3 DEF UnderWay, Listed

\* Between two sorts the record stays right.
LEMMA RecordingBetween ==
    ASSUME Inv, Recording, Between, UNCHANGED <<now, sched>>
    PROVE  Recording'
<1>1. TypeOK /\ stage \in {"first", "second", "loop"}
  BY DEF Inv, TypeOK
<1>2. ASSUME NEW x \in UnderWay' PROVE Recorded(x)'
  <2>1. CASE x \in BehindFirst(singles, nActS)'
    <3>1. x \in BehindFirst(singles, nActS) /\ x \in UnderWay /\ ptcl'[x] = ptcl[x]
      BY <2>1 DEF Between, Untouched, UnderWay
    <3>2. x \in Particle
      BY <1>1, <3>1, UnderWayListed
    <3>3. Entry(x)' = Entry(x)
      BY <3>1, <3>2 DEF Entry
    <3>4. Recorded(x)
      BY <3>1 DEF Recording
    <3> QED
      BY <3>3, <3>4 DEF Recorded
  <2>2. CASE x \in BehindFirst(groupList, nActG)'
    <3>1. x \in BehindFirst(groupList, nActG) /\ x \in UnderWay /\ groups'[x] = groups[x]
      BY <2>2 DEF Between, Untouched, UnderWay
    <3>2. x \notin Particle
      BY <1>1, <3>1, UnderWayListed, Kinds
    <3>3. Entry(x)' = Entry(x)
      BY <3>1, <3>2 DEF Entry
    <3>4. Recorded(x)
      BY <3>1 DEF Recording
    <3> QED
      BY <3>3, <3>4 DEF Recorded
  <2> QED
    BY <2>1, <2>2 DEF UnderWay
<1>3. stage' \in {"first", "second"} => now' = 0 /\ time' = 0 /\ sched' = <<>> /\ ~Turning'
  BY <1>1 DEF Recording, Between
<1>4. stage' = "loop" => FirstDue' /\ now' < TimeEnd
  <2> SUFFICES ASSUME stage' = "loop" PROVE FirstDue' /\ now' < TimeEnd
    OBVIOUS
  <2>1. FirstDue /\ now < TimeEnd
    BY DEF Recording, Between
  <2> QED
    BY <2>1 DEF FirstDue, Between
<1> QED
  BY <1>2, <1>3, <1>4 DEF Recording, Between

\* The sort records what is listed.
SortRecorded == now' = time /\ sched' = [x \in Listed |-> [time |-> Entry(x).time, dt |-> Entry(x).dt]]

\* After the sort all that is listed has just been recorded.
LEMMA RecordingSorted ==
    ASSUME Inv, SortDtAndSelectActParticle, SortRecorded
    PROVE  Recording'
<1>1. /\ stage' = "loop" /\ UNCHANGED <<time, ptcl, groups>>
  BY DEF SortDtAndSelectActParticle
<1>2. PICK s, g, min, dS, dG :
         /\ singles' = s /\ groupList' = g /\ timeNextMin' = min /\ nActS' = dS /\ nActG' = dG
         /\ s \in Seq(Particle) /\ g \in Seq(Slots) /\ min \in Nat
         /\ SortedNow(singles, nActS, s, dS) /\ SortedNow(groupList, nActG, g, dG)
         /\ \A i \in DOMAIN s : IF i <= dS THEN Entry(s[i]).next = min
                                ELSE Entry(s[i]).next > min
         /\ \A i \in DOMAIN g : IF i <= dG THEN Entry(g[i]).next = min
                                ELSE Entry(g[i]).next > min
         /\ pc' = IF s = <<>> /\ g = <<>> THEN "nothingActive" ELSE "integrateGroupsOneStep"
         /\ s # <<>> \/ g # <<>> =>
               time < min /\ Divides(Least, min) /\ (time < TimeEnd => min <= TimeEnd)
         /\ SomeDue(s, g, min)
  BY SortStep
<1>3. /\ ToSet(s) = ToSet(singles) /\ ToSet(g) = ToSet(groupList)
      /\ \A r \in DOMAIN s : InStep(Entry(s[r])) /\ Entry(s[r]).next \in Nat
      /\ \A r \in DOMAIN g : InStep(Entry(g[r])) /\ Entry(g[r]).next \in Nat
  BY <1>2 DEF SortedNow
<1>4. Listed' = Listed /\ Listed = ToSet(s) \cup ToSet(g)
  BY <1>2, <1>3 DEF Listed
<1>5. \A x : Entry(x)' = Entry(x)
  BY <1>1 DEF Entry
<1>6. \A x \in Listed : Entry(x).next = Entry(x).time + Entry(x).dt /\ min <= Entry(x).next
  <2>1. \A i \in DOMAIN s : Entry(s[i]).next = Entry(s[i]).time + Entry(s[i]).dt
                            /\ min <= Entry(s[i]).next
    BY <1>2, <1>3 DEF InStep, OnGrid
  <2>2. \A i \in DOMAIN g : Entry(g[i]).next = Entry(g[i]).time + Entry(g[i]).dt
                            /\ min <= Entry(g[i]).next
    BY <1>2, <1>3 DEF InStep, OnGrid
  <2> QED
    BY <1>4, <2>1, <2>2 DEF ToSet
<1>7. DOMAIN sched' = Listed /\ \A x \in Listed : sched'[x] = [time |-> Entry(x).time, dt |-> Entry(x).dt]
  BY DEF SortRecorded
<1>8. \A x \in Listed' : Recorded(x)'
  BY <1>4, <1>5, <1>7 DEF Recorded
<1>9. pc' # "nothingActive" => FirstDue'
  <2> SUFFICES ASSUME pc' # "nothingActive" PROVE FirstDue'
    OBVIOUS
  <2>1. PICK first \in Listed : Entry(first).next = min
    BY <1>2, <1>4 DEF SomeDue
  <2>2. sched'[first].time + sched'[first].dt = min
    BY <1>6, <1>7, <2>1
  <2>3. \A x \in DOMAIN sched' : min <= sched'[x].time + sched'[x].dt
    BY <1>6, <1>7
  <2> QED
    BY <1>2, <1>7, <2>1, <2>2, <2>3 DEF FirstDue
<1>10. \A x \in UnderWay' : Recorded(x)'
  <2>1. TypeOK'
    BY SortInv DEF Inv
  <2>2. TypeOK' => (UnderWay \subseteq Listed)'
    BY UnderWayListed, PTL
  <2> QED
    BY <1>8, <2>1, <2>2
<1>11. now' = time' /\ pc' \in {"nothingActive", "integrateGroupsOneStep"}
  BY <1>1, <1>2 DEF SortRecorded
<1> QED
  BY <1>1, <1>4, <1>7, <1>8, <1>9, <1>10, <1>11 DEF Recording

\* What can be scheduled
Things == Particle \cup 1..(Cardinality(Particle) \div 2)

\* What is listed has a place in the schedule.
LEMMA ListedThings ==
    ASSUME Inv
    PROVE  Listed \subseteq Things
<1>1. TypeOK /\ 2 * Len(groups) <= Cardinality(Particle)
  BY DEF Inv, MembersOK
<1>2. Len(groups) \in Nat /\ Slots = 1..Len(groups) /\ Cardinality(Particle) \in Nat
  BY <1>1, Kinds, FS_CardinalityType, HermiteAssumption
<1>3. Slots \subseteq 1..(Cardinality(Particle) \div 2)
  BY <1>1, <1>2
<1>4. Listed \subseteq Particle \cup Slots
  BY <1>1 DEF TypeOK, Listed, ToSet
<1> QED
  BY <1>3, <1>4 DEF Things

\* When the lists are sorted, an entry is under way, or starts at the clock.
LEMMA SortChoice ==
    ASSUME Inv, pc = "sort"
    PROVE  /\ \A x \in UnderWay : Entry(x).time + Entry(x).dt > time
           /\ \A x \in Listed \ UnderWay :
                 Entry(x).time = time /\ Entry(x).dt \in Steps /\ Divides(Entry(x).dt, time)
<1>1. /\ TypeOK /\ Leaving = groupMask /\ ToSet(groupList) \cap groupMask = {}
      /\ groupMask \subseteq Slots /\ nInitS = 0 /\ nInitG = 0
  BY DEF Inv, ListsOK, TypeOK, Leaving
<1>2. /\ singles \in Seq(Particle) /\ nActS \in 0..Len(singles)
      /\ groupList \in Seq(Slots) /\ nActG \in 0..Len(groupList)
      /\ \A p \in Particle : p \notin Slots
      /\ timeNextMin = time /\ time \in Nat
      /\ Waiting(singles, nActS) /\ Waiting(groupList, nActG)
      /\ Started(singles, nActS, 0) /\ Started(groupList, nActG, 0)
  <2>1. /\ timeNextMin = time /\ Waiting(singles, nActS) /\ Waiting(groupList, nActG)
        /\ Started(singles, nActS, 0) /\ Started(groupList, nActG, 0)
    BY <1>1 DEF Inv, TimeInv, Turning
  <2> QED
    BY <1>1, <2>1, Kinds DEF TypeOK
<1>3. /\ \A i \in 1..Len(singles) : singles[i] \notin Leaving
      /\ \A i \in 1..Len(groupList) : groupList[i] \notin Leaving
  BY <1>1, <1>2 DEF ToSet
<1>4. /\ ToSet(singles) = {singles[i] : i \in 1..nActS} \cup BehindFirst(singles, nActS)
      /\ BehindFirst(singles, nActS) \subseteq ToSet(singles)
  BY <1>2, BehindActive
<1>5. /\ ToSet(groupList) = {groupList[i] : i \in 1..nActG} \cup BehindFirst(groupList, nActG)
      /\ BehindFirst(groupList, nActG) \subseteq ToSet(groupList)
  BY <1>2, BehindActive
<1>6. UnderWay = BehindFirst(singles, nActS) \cup BehindFirst(groupList, nActG)
  <2>1. ToSet(singles) \cap groupMask = {}
    BY <1>1, <1>2 DEF ToSet
  <2> QED
    BY <1>1, <1>4, <1>5, <2>1 DEF UnderWay
<1>7. ASSUME NEW x \in UnderWay PROVE Entry(x).time + Entry(x).dt > time
  <2>1. CASE x \in BehindFirst(singles, nActS)
    <3>1. PICK i \in nActS + 1..Len(singles) : x = singles[i]
      BY <2>1 DEF BehindFirst
    <3>2. OnGrid(Entry(x)) /\ timeNextMin < Entry(x).next
      BY <1>2, <1>3, <3>1 DEF Waiting
    <3> QED
      BY <1>2, <3>2 DEF OnGrid
  <2>2. CASE x \in BehindFirst(groupList, nActG)
    <3>1. PICK i \in nActG + 1..Len(groupList) : x = groupList[i]
      BY <2>2 DEF BehindFirst
    <3>2. OnGrid(Entry(x)) /\ timeNextMin < Entry(x).next
      BY <1>2, <1>3, <3>1 DEF Waiting
    <3> QED
      BY <1>2, <3>2 DEF OnGrid
  <2> QED
    BY <1>6, <2>1, <2>2
<1>8. ASSUME NEW x \in Listed \ UnderWay
      PROVE  Entry(x).time = time /\ Entry(x).dt \in Steps /\ Divides(Entry(x).dt, time)
  <2>1. CASE x \in ToSet(singles)
    <3>1. PICK i \in 1..nActS : x = singles[i]
      BY <1>4, <1>6, <2>1
    <3>2. OnGrid(Entry(x)) /\ Entry(x).time = time
      BY <1>2, <1>3, <3>1 DEF Started
    <3> QED
      BY <3>2 DEF OnGrid
  <2>2. CASE x \in ToSet(groupList)
    <3>1. PICK i \in 1..nActG : x = groupList[i]
      BY <1>5, <1>6, <2>2
    <3>2. OnGrid(Entry(x)) /\ Entry(x).time = time
      BY <1>2, <1>3, <3>1 DEF Started
    <3> QED
      BY <3>2 DEF OnGrid
  <2> QED
    BY <2>1, <2>2 DEF Listed
<1> QED
  BY <1>7, <1>8

\* The record of the sort is a new schedule: what is under way as it was, the
\* rest started at the clock.
LEMMA SortReschedules ==
    ASSUME Inv, Recording, pc = "sort", SortRecorded
    PROVE  Abstract!Reschedule(UnderWay, Listed \ UnderWay, time)
<1> DEFINE fresh == Listed \ UnderWay
           d == [x \in fresh |-> Entry(x).dt]
<1>1. \A x \in fresh : Entry(x).time = time /\ Entry(x).dt \in Abstract!StepsAt(time)
  BY SortChoice DEF Abstract!StepsAt, Abstract!Divides, Divides
<1>2. d \in [fresh -> Abstract!StepsAt(time)]
  BY <1>1
<1>3. Listed = UnderWay \cup fresh
  BY UnderWayListed DEF Inv
<1>4. \A x \in UnderWay : sched[x] = [time |-> Entry(x).time, dt |-> Entry(x).dt]
  BY DEF Recording, Recorded
<1> HIDE DEF fresh
<1>5. sched' = [x \in UnderWay \cup fresh |->
                  IF x \in fresh THEN [time |-> time, dt |-> d[x]] ELSE sched[x]]
  BY <1>1, <1>3, <1>4 DEF SortRecorded
<1> QED
  BY <1>2, <1>5 DEF Abstract!Reschedule, fresh

\* The first sort begins the schedule, every other one advances it.
LEMMA SortAdvances ==
    ASSUME Inv, Recording, pc = "sort", SortRecorded
    PROVE  Abstract!Begin \/ Abstract!Advance
<1>1. stage \in {"first", "second", "loop"} /\ Listed \subseteq Things
  BY ListedThings DEF Inv, TypeOK
<1>2. Abstract!Reschedule(UnderWay, Listed \ UnderWay, time)
  BY SortReschedules
<1>3. now' = time
  BY DEF SortRecorded
<1>4. CASE stage \in {"first", "second"}
  <2>1. now = 0 /\ time = 0 /\ sched = <<>>
    BY <1>4 DEF Recording
  <2>2. DOMAIN sched = {}
    BY <2>1
  <2>3. UnderWay = {}
    BY <2>2 DEF Recording, Recorded
  <2>4. Listed \ UnderWay = Listed /\ Listed \in SUBSET Things
    BY <1>1, <2>3
  <2>5. Abstract!Reschedule({}, Listed, 0)
    BY <1>2, <2>1, <2>3, <2>4
  <2>6. Abstract!Begin
    BY <1>3, <2>1, <2>2, <2>4, <2>5 DEF Abstract!Begin, Things
  <2> QED
    BY <2>6
<1>5. CASE stage = "loop"
  <2>1. now < TimeEnd /\ timeNextMin = time
    BY <1>5 DEF Recording, Inv, TimeInv, Turning
  <2>2. PICK first \in DOMAIN sched :
            /\ sched[first].time + sched[first].dt = time
            /\ \A x \in DOMAIN sched : time <= sched[x].time + sched[x].dt
    BY <1>5, <2>1 DEF Recording, FirstDue
  <2>3. \A x : Abstract!Due(x) = sched[x].time + sched[x].dt
    BY DEF Abstract!Due
  <2>4. \A x \in UnderWay : x \in DOMAIN sched /\ Abstract!Due(x) > Abstract!Due(first)
    <3> SUFFICES ASSUME NEW x \in UnderWay
                 PROVE  x \in DOMAIN sched /\ Abstract!Due(x) > Abstract!Due(first)
      OBVIOUS
    <3>1. x \in DOMAIN sched /\ sched[x] = [time |-> Entry(x).time, dt |-> Entry(x).dt]
      BY DEF Recording, Recorded
    <3>2. Entry(x).time + Entry(x).dt > time
      BY SortChoice
    <3>3. Abstract!Due(x) = Entry(x).time + Entry(x).dt /\ Abstract!Due(first) = time
      BY <2>2, <2>3, <3>1
    <3> QED
      BY <3>1, <3>2, <3>3
  <2>5. UnderWay \in SUBSET {x \in DOMAIN sched : Abstract!Due(x) > Abstract!Due(first)}
    BY <2>4
  <2>6. Listed \ UnderWay \in SUBSET (Things \ UnderWay)
    BY <1>1
  <2>7. /\ \A x \in DOMAIN sched : Abstract!Due(first) <= Abstract!Due(x)
        /\ now' = Abstract!Due(first) /\ Abstract!Due(first) = time
    BY <1>3, <2>2, <2>3
  <2>8. Abstract!Reschedule(UnderWay, Listed \ UnderWay, Abstract!Due(first))
    BY <1>2, <2>7
  <2> HIDE DEF UnderWay
  <2>9. Abstract!Advance
    BY <2>1, <2>5, <2>6, <2>7, <2>8 DEF Abstract!Advance, Things
  <2> QED
    BY <2>9
<1> QED
  BY <1>1, <1>4, <1>5

\* The record is right from the start.
LEMMA RecordingInit ==
    ASSUME HInit
    PROVE  Inv /\ Recording
<1>1. Inv
  BY InitInv DEF HInit
<1>2. /\ pc = "addInitialGroups" /\ stage = "first" /\ time = 0 /\ now = 0 /\ sched = <<>>
      /\ nActS = Cardinality(Particle) /\ nActG = 0 /\ groupList = <<>>
      /\ singles \in SetToSeqs(Particle)
  BY DEF HInit, Init
<1>3. Len(singles) = Cardinality(Particle) /\ Cardinality(Particle) \in Nat
  <2>1. Cardinality(Particle) \in Nat
    BY FS_CardinalityType, HermiteAssumption
  <2>2. singles \in [1..Cardinality(Particle) -> Particle]
    BY <1>2 DEF SetToSeqs
  <2> QED
    BY <2>1, <2>2
<1>4. BehindFirst(singles, nActS) = {} /\ BehindFirst(groupList, nActG) = {}
  BY <1>2, <1>3 DEF BehindFirst
<1>5. UnderWay = {}
  BY <1>4 DEF UnderWay
<1> QED
  BY <1>1, <1>2, <1>5 DEF Recording, Turning

\* Every step keeps the record, and is a step of the schedule.
LEMMA RecordingNext ==
    ASSUME Inv, Recording, [HNext]_<<vars, now, sched>>
    PROVE  Inv' /\ Recording' /\ [Abstract!Next]_<<now, sched>>
<1>1. CASE HNext /\ SortDtAndSelectActParticle
  <2>1. pc = "sort" /\ SortRecorded
    BY <1>1 DEF HNext, SortDtAndSelectActParticle, SortRecorded
  <2>2. Inv'
    BY <1>1, SortInv
  <2>3. Recording'
    BY <1>1, <2>1, RecordingSorted
  <2>4. Abstract!Begin \/ Abstract!Advance
    BY <2>1, SortAdvances
  <2> QED
    BY <2>2, <2>3, <2>4 DEF Abstract!Next
<1>2. CASE HNext /\ ~SortDtAndSelectActParticle /\ ~Stop
  <2>1. Next
    BY <1>2 DEF HNext
  <2>2. Inv'
    BY <2>1, NextInv
  <2>3. Between
    BY <1>2, <2>1, CallsBetween
  <2>4. UNCHANGED <<now, sched>>
    <3>1. pc # "sort"
      BY <1>2, <2>1
      DEF Next, AddInitialGroups, InitialIntegration, IntegrateGroupsOneStep,
          IntegrateSingleOneStepAct, CheckBreak, CheckNewGroup, IntegrateToTimeList, BreakGroup,
          ReleaseSingles, AddNewGroups, ModifySingleParticles
    <3> QED
      BY <1>2, <3>1 DEF HNext
  <2>5. Recording'
    BY <2>3, <2>4, RecordingBetween
  <2> QED
    BY <2>2, <2>4, <2>5
<1>3. CASE (HNext /\ Stop) \/ UNCHANGED <<vars, now, sched>>
  <2>1. UNCHANGED vars /\ UNCHANGED <<now, sched>>
    BY <1>3 DEF HNext, Stop
  <2>2. Inv'
    BY <2>1, StutterInv
  <2>3. Recording'
    BY <2>1
    DEF vars, clock, lists, tables, Recording, Recorded, Entry, UnderWay, BehindFirst, Leaving,
        Broken, Taken, Turning, FirstDue, Listed
  <2> QED
    BY <2>1, <2>2, <2>3
<1> QED
  BY <1>1, <1>2, <1>3

\* The state at a sort is the state of a schedule.
LEMMA ScheduleInit ==
    ASSUME HInit
    PROVE  Abstract!Init
BY DEF HInit, Abstract!Init

\* What is recorded at the sorts is a block schedule: what is due first is
\* integrated, what is under way keeps its time and step or is dropped, and
\* everything else restarts at the clock on a step of the clock's block, in
\* whatever way groups are formed, interrupted and dissolved in between.
THEOREM ImplementsSchedule == HSpec => RefinesSchedule
<1>1. HInit => Inv /\ Recording /\ Abstract!Init
  BY RecordingInit, ScheduleInit
<1>2. Inv /\ Recording /\ [HNext]_<<vars, now, sched>> =>
          Inv' /\ Recording' /\ [Abstract!Next]_<<now, sched>>
  BY RecordingNext
<1>3. Abstract!Spec <=> Abstract!Init /\ [][Abstract!Next]_<<now, sched>>
  BY DEF Abstract!Spec, Abstract!vars
<1> QED
  BY <1>1, <1>2, <1>3, PTL DEF HSpec, RefinesSchedule

\* The steps of the two instances of the schedule are the same.
LEMMA SameSchedule ==
    /\ Abstract!Init => Grid!Init
    /\ [Abstract!Next]_<<now, sched>> => [Grid!Next]_<<now, sched>>
    /\ Grid!OnGrid => Abstract!OnGrid
    /\ Grid!NeverOvertakes => Abstract!NeverOvertakes
    /\ Grid!EndsTogether => Abstract!EndsTogether
<1>1. Abstract!Init => Grid!Init
  BY DEF Abstract!Init, Grid!Init
<1>2. \A d, t : Abstract!Divides(d, t) <=> Grid!Divides(d, t)
  BY DEF Abstract!Divides, Grid!Divides
<1>3. \A t : Abstract!StepsAt(t) = Grid!StepsAt(t)
  BY <1>2 DEF Abstract!StepsAt, Grid!StepsAt
<1>4. \A i : Abstract!Due(i) = Grid!Due(i)
  BY DEF Abstract!Due, Grid!Due
<1>5. \A keep, fresh, t : Abstract!Reschedule(keep, fresh, t) <=> Grid!Reschedule(keep, fresh, t)
  BY <1>3 DEF Abstract!Reschedule, Grid!Reschedule
<1>6. Abstract!Begin => Grid!Begin
  BY <1>5 DEF Abstract!Begin, Grid!Begin
<1>7. Abstract!Advance => Grid!Advance
  BY <1>4, <1>5 DEF Abstract!Advance, Grid!Advance
<1>8. Abstract!Stop => UNCHANGED <<now, sched>>
  BY DEF Abstract!Stop, Abstract!vars
<1>9. [Abstract!Next]_<<now, sched>> => [Grid!Next]_<<now, sched>>
  BY <1>6, <1>7, <1>8 DEF Abstract!Next, Grid!Next
<1>10. Grid!OnGrid => Abstract!OnGrid
  BY <1>2, <1>4 DEF Abstract!OnGrid, Grid!OnGrid
<1>11. Grid!NeverOvertakes => Abstract!NeverOvertakes
  BY <1>3, <1>4 DEF Abstract!NeverOvertakes, Grid!NeverOvertakes
<1>12. Grid!EndsTogether => Abstract!EndsTogether
  BY DEF Abstract!EndsTogether, Grid!EndsTogether
<1> QED
  BY <1>1, <1>9, <1>10, <1>11, <1>12

\* What is proved of every schedule, for the things of Hermite
LEMMA GridFacts ==
    /\ Grid!Init => Grid!Inv
    /\ Grid!Inv /\ [Grid!Next]_<<now, sched>> => Grid!Inv'
    /\ Grid!Inv => Grid!OnGrid /\ Grid!NeverOvertakes /\ Grid!EndsTogether
<1>1. /\ TimeEnd \in Nat /\ \A d \in Steps : Grid!Divides(d, TimeEnd)
      /\ Steps \subseteq Nat \ {0} /\ Steps # {}
      /\ \A d, e \in Steps : d <= e => \E q \in 1..e : e = q * d
  BY StepsAssumption, HermiteAssumption DEF Divides, Grid!Divides
<1>2. Grid!Init => Grid!Inv
  BY <1>1, Grid!InitInv
<1>3. Grid!Inv /\ [Grid!Next]_<<now, sched>> => Grid!Inv'
  BY <1>1, Grid!NextInv DEF Grid!vars
<1>4. Grid!Inv => Grid!NeverOvertakes
  BY <1>1, Grid!InvNeverOvertakes
<1>5. Grid!Inv => Grid!EndsTogether
  BY <1>1, Grid!InvEndsTogether
<1>6. Grid!Inv => Grid!OnGrid
  BY DEF Grid!Inv
<1> QED
  BY <1>2, <1>3, <1>4, <1>5, <1>6

\* So the record has what every block schedule has: all that is scheduled is
\* on the grid of its own step, no step taken from the clock passes what is
\* under way, and the integration ends with everything at the end of the tree
\* step.
THEOREM ScheduledInTime ==
    HSpec => [](Abstract!OnGrid /\ Abstract!NeverOvertakes /\ Abstract!EndsTogether)
<1>1. HInit => Inv /\ Recording /\ Abstract!Init
  BY RecordingInit, ScheduleInit
<1>2. Inv /\ Recording /\ [HNext]_<<vars, now, sched>> =>
          Inv' /\ Recording' /\ [Abstract!Next]_<<now, sched>>
  BY RecordingNext
<1> QED
  BY <1>1, <1>2, SameSchedule, GridFacts, PTL DEF HSpec
=============================================================================
