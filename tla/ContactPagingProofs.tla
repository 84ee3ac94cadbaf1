------------------------- MODULE ContactPagingProofs -------------------------
(***************************************************************************)
(* Theorems about ContactPaging.  For every set of contacts, habits, searches*)
(* and requests, every length of a page and every buffer: the types hold    *)
(* (PagingTypeCorrect) and the cache has every frequent contact, for any key*)
(* (CacheServesEveryKey).  With the asynchronous library the pages of an    *)
(* undisturbed walk are consecutive pieces of the whole answer              *)
(* (PagesAreConsecutive), hasMore tells its end (HasMoreTellsEnd), and a room*)
(* that is joined hides no other from the pages that follow (JoinsHideNobody).*)
(***************************************************************************)
EXTENDS ContactPaging, ListProofs

-----------------------------------------------------------------------------
(* Entries of a list at some of its places                                 *)

\* Places of a list are finitely many.
LEMMA PlacesAreFinite ==
  ASSUME NEW n \in Nat, NEW P, P \subseteq 1..n
  PROVE  /\ IsFiniteSet(P) /\ Cardinality(P) \in Nat
         /\ \A i \in P : i \in Nat /\ 1 <= i /\ i <= n
<1>1. IsFiniteSet(1..n)
  BY FS_Interval
<1>2. IsFiniteSet(P)
  BY <1>1, FS_Subset
<1>3. \A i \in P : i \in 1..n
  OBVIOUS
<1>4. QED
  BY <1>2, <1>3, FS_CardinalityType

\* Some place of a finite set is the n-th of it, counted from the least, and only one is.
LEMMA NthPlace ==
  ASSUME NEW n \in Nat, NEW P, P \subseteq 1..n, NEW k \in 1..Cardinality(P)
  PROVE  \E i \in P : Cardinality({j \in P : j <= i}) = k
<1> DEFINE Below(m) == {j \in P : j <= m}
           S == {m \in Nat : Cardinality(Below(m)) >= k}
<1>0. /\ IsFiniteSet(P) /\ Cardinality(P) \in Nat
      /\ \A i \in P : i \in Nat /\ 1 <= i /\ i <= n
  BY PlacesAreFinite
<1>1. \A m \in Nat : IsFiniteSet(Below(m)) /\ Cardinality(Below(m)) \in Nat
  BY <1>0, FS_Subset, FS_CardinalityType
<1>2. n \in S
  <2>1. Below(n) = P
    BY <1>0
  <2>2. QED
    BY <2>1, <1>0
<1>3. PICK m \in S : \A l \in S : m <= l
  BY <1>2, LeastNat
<1>4. m # 0
  <2>1. \A j \in P : ~(j <= 0)
    BY <1>0
  <2>2. Below(0) = {}
    BY <2>1
  <2>3. QED
    BY <1>3, <2>2, FS_EmptySet
<1>5. m - 1 \in Nat /\ m - 1 \notin S
  <2>1. m \in Nat /\ m - 1 \in Nat /\ ~(m <= m - 1)
    BY <1>4
  <2>2. QED
    BY <2>1, <1>3
<1>6. Below(m) = IF m \in P THEN Below(m - 1) \cup {m} ELSE Below(m - 1)
  <2>1. \A j \in P : j <= m <=> j <= m - 1 \/ j = m
    BY <1>0, <1>5
  <2>2. m \in P => m <= m
    BY <1>0
  <2>3. QED
    BY <2>1, <2>2
<1>7. PICK above \in Nat : above = Cardinality(Below(m))
  BY <1>1
<1>8. PICK below \in Nat : below = Cardinality(Below(m - 1))
  BY <1>1, <1>5
<1>9. m \notin Below(m - 1)
  BY <1>5
<1>10. below < k /\ above >= k
  BY <1>5, <1>7, <1>8
<1> HIDE DEF Below
<1>11. m \in P /\ above = below + 1
  <2>1. CASE m \in P
    <3>1. Cardinality(Below(m - 1) \cup {m}) = Cardinality(Below(m - 1)) + 1
      BY <1>1, <1>5, <1>9, FS_AddElement
    <3>2. QED
      BY <2>1, <3>1, <1>6, <1>7, <1>8
  <2>2. CASE m \notin P
    BY <2>2, <1>6, <1>7, <1>8, <1>10
  <2>3. QED
    BY <2>1, <2>2
<1>12. above = k
  BY <1>10, <1>11
<1>13. QED
  BY <1>7, <1>11, <1>12 DEF Below

\* What At lists: the k-th of the places is Nth(P, k).
Nth(places, k) == CHOOSE i \in places : Cardinality({j \in places : j <= i}) = k

\* The n-th place is one.
LEMMA NthIs ==
  ASSUME NEW n \in Nat, NEW P, P \subseteq 1..n, NEW k \in 1..Cardinality(P)
  PROVE  Nth(P, k) \in P /\ Cardinality({j \in P : j <= Nth(P, k)}) = k
<1>1. \E i \in P : Cardinality({j \in P : j <= i}) = k
  BY NthPlace
<1>2. QED
  BY <1>1 DEF Nth

\* Every place is the k-th of some k.
LEMMA PlaceIsNth ==
  ASSUME NEW n \in Nat, NEW P, P \subseteq 1..n, NEW i \in P
  PROVE  \E k \in 1..Cardinality(P) : Nth(P, k) = i
<1> DEFINE Below(m) == {j \in P : j <= m}
<1>0. /\ IsFiniteSet(P) /\ Cardinality(P) \in Nat
      /\ \A j \in P : j \in Nat /\ 1 <= j /\ j <= n
  BY PlacesAreFinite
<1>1. \A m \in P : IsFiniteSet(Below(m)) /\ Cardinality(Below(m)) \in Nat
                    /\ Cardinality(Below(m)) <= Cardinality(P)
  BY <1>0, FS_Subset, FS_CardinalityType
<1>2. \A m, l \in P : m < l => Cardinality(Below(m)) # Cardinality(Below(l))
  <2> SUFFICES ASSUME NEW m \in P, NEW l \in P, m < l, Cardinality(Below(m)) = Cardinality(Below(l))
               PROVE  FALSE
    OBVIOUS
  <2>1. Below(m) \in SUBSET Below(l)
    <3>1. \A j \in P : j <= m => j <= l
      BY <1>0
    <3>2. QED
      BY <3>1
  <2>2. Below(m) = Below(l)
    BY <1>1, <2>1, FS_Subset
  <2>3. l \in Below(l) /\ l \notin Below(m)
    BY <1>0
  <2>4. QED
    BY <2>2, <2>3
<1>3. \A m, l \in P : Cardinality(Below(m)) = Cardinality(Below(l)) => m = l
  <2> SUFFICES ASSUME NEW m \in P, NEW l \in P, Cardinality(Below(m)) = Cardinality(Below(l)), m # l
               PROVE  FALSE
    OBVIOUS
  <2>1. m < l \/ l < m
    BY <1>0
  <2>2. QED
    BY <2>1, <1>2
<1>4. PICK k \in Nat : k = Cardinality(Below(i))
  BY <1>1
<1>5. k # 0
  <2>1. i \in Below(i)
    OBVIOUS
  <2>2. QED
    BY <2>1, <1>1, <1>4, FS_EmptySet
<1>6. k \in 1..Cardinality(P)
  BY <1>0, <1>1, <1>4, <1>5
<1>7. Nth(P, k) \in P /\ Cardinality(Below(Nth(P, k))) = k
  BY <1>6, NthIs
<1>8. QED
  BY <1>3, <1>4, <1>6, <1>7

\* A list taken at some places has one entry for each, in their order.
LEMMA AtProperties ==
  ASSUME NEW S, NEW list \in Seq(S), NEW P, P \subseteq 1..Len(list)
  PROVE  /\ At(list, P) \in Seq(S)
         /\ Cardinality(P) \in Nat
         /\ Len(At(list, P)) = Cardinality(P)
         /\ \A k \in 1..Cardinality(P) : Nth(P, k) \in P /\ At(list, P)[k] = list[Nth(P, k)]
<1>0. PICK n \in Nat : n = Len(list)
  OBVIOUS
<1>1. /\ Cardinality(P) \in Nat
      /\ \A i \in P : i \in 1..Len(list)
  BY <1>0, PlacesAreFinite
<1>2. At(list, P) = [k \in 1..Cardinality(P) |-> list[Nth(P, k)]]
  BY DEF At, Nth
<1>3. \A k \in 1..Cardinality(P) : Nth(P, k) \in P
  BY <1>0, NthIs
<1>4. \A k \in 1..Cardinality(P) : list[Nth(P, k)] \in S
  <2> SUFFICES ASSUME NEW k \in 1..Cardinality(P) PROVE list[Nth(P, k)] \in S
    OBVIOUS
  <2>1. Nth(P, k) \in 1..Len(list)
    BY <1>1, <1>3
  <2>2. QED
    BY <2>1, ElementOfSeq
<1>5. QED
  BY <1>1, <1>2, <1>3, <1>4

\* It holds what the list holds at those places,
LEMMA AtHolds ==
  ASSUME NEW S, NEW list \in Seq(S), NEW P, P \subseteq 1..Len(list)
  PROVE  ToSet(At(list, P)) = {list[i] : i \in P}
<1>0. PICK n \in Nat : n = Len(list)
  OBVIOUS
<1>1. DOMAIN At(list, P) = 1..Cardinality(P)
  <2>1. /\ At(list, P) \in Seq(S)
        /\ Len(At(list, P)) = Cardinality(P)
    BY AtProperties
  <2>2. QED
    BY <2>1, LenProperties
<1>2. \A k \in 1..Cardinality(P) : Nth(P, k) \in P /\ At(list, P)[k] = list[Nth(P, k)]
  BY AtProperties
<1>3. \A i \in P : \E k \in 1..Cardinality(P) : Nth(P, k) = i
  BY <1>0, PlaceIsNth
<1>4. QED
  BY <1>1, <1>2, <1>3 DEF ToSet

\* repeats nothing when those places do not,
LEMMA AtInjective ==
  ASSUME NEW S, NEW list \in Seq(S), NEW P, P \subseteq 1..Len(list),
         \A i, j \in P : list[i] = list[j] => i = j
  PROVE  IsInjective(At(list, P))
<1>0. PICK n \in Nat : n = Len(list)
  OBVIOUS
<1>1. DOMAIN At(list, P) = 1..Cardinality(P)
  <2>1. /\ At(list, P) \in Seq(S)
        /\ Len(At(list, P)) = Cardinality(P)
    BY AtProperties
  <2>2. QED
    BY <2>1, LenProperties
<1>2. ASSUME NEW k \in 1..Cardinality(P), NEW l \in 1..Cardinality(P),
             At(list, P)[k] = At(list, P)[l]
      PROVE  k = l
  <2>1. /\ Nth(P, k) \in P /\ At(list, P)[k] = list[Nth(P, k)]
        /\ Nth(P, l) \in P /\ At(list, P)[l] = list[Nth(P, l)]
    BY AtProperties
  <2>2. Nth(P, k) = Nth(P, l)
    BY <1>2, <2>1
  <2>3. /\ Cardinality({j \in P : j <= Nth(P, k)}) = k
        /\ Cardinality({j \in P : j <= Nth(P, l)}) = l
    BY <1>0, NthIs
  <2>4. QED
    BY <2>2, <2>3
<1>3. QED
  BY <1>1, <1>2 DEF IsInjective

\* and is the list itself when all places are taken.
LEMMA AtAll ==
  ASSUME NEW S, NEW list \in Seq(S)
  PROVE  At(list, 1..Len(list)) = list
<1> DEFINE P == 1..Len(list)
<1>0. PICK n \in Nat : n = Len(list)
  OBVIOUS
<1>1. Cardinality(P) = n
  <2>1. Cardinality(1..n) = IF 1 > n THEN 0 ELSE n - 1 + 1
    BY FS_Interval
  <2>2. QED
    BY <1>0, <2>1
<1>2. ASSUME NEW k \in P PROVE Nth(P, k) = k
  <2>1. Nth(P, k) \in P /\ Cardinality({j \in P : j <= Nth(P, k)}) = k
    BY <1>0, <1>1, NthIs
  <2>2. {j \in P : j <= Nth(P, k)} = 1..Nth(P, k)
    BY <2>1
  <2>3. Cardinality(1..Nth(P, k)) = Nth(P, k)
    <3>1. PICK i \in 1..n : i = Nth(P, k)
      BY <1>0, <2>1
    <3>2. Cardinality(1..i) = IF 1 > i THEN 0 ELSE i - 1 + 1
      BY FS_Interval
    <3>3. QED
      BY <3>1, <3>2
  <2>4. QED
    BY <2>1, <2>2, <2>3
<1> HIDE DEF P
<1>3. P \subseteq 1..Len(list)
  BY DEF P
<1>4. /\ At(list, P) \in Seq(S) /\ Len(At(list, P)) = Len(list)
      /\ \A k \in 1..Len(list) : At(list, P)[k] = list[k]
  <2>1. \A k \in 1..Len(list) : At(list, P)[k] = list[Nth(P, k)]
    <3>1. \A k \in 1..Cardinality(P) : At(list, P)[k] = list[Nth(P, k)]
      BY <1>3, AtProperties
    <3>2. QED
      BY <1>0, <1>1, <3>1
  <2>2. /\ At(list, P) \in Seq(S) /\ Len(At(list, P)) = Len(list)
    BY <1>0, <1>1, <1>3, AtProperties
  <2>3. QED
    BY <1>2, <2>1, <2>2 DEF P
<1>5. QED
  BY <1>4, SeqEqual DEF P

\* The entries of a list that are in a set.
LEMMA ThoseProperties ==
  ASSUME NEW S, NEW list \in Seq(S), NEW set
  PROVE  /\ Those(list, set) \in Seq(S)
         /\ ToSet(Those(list, set)) = ToSet(list) \cap set
         /\ IsInjective(list) => IsInjective(Those(list, set))
<1> DEFINE P == {i \in 1..Len(list) : list[i] \in set}
<1>1. P \subseteq 1..Len(list)
  OBVIOUS
<1>2. DOMAIN list = 1..Len(list)
  BY LenProperties
<1>3. Those(list, set) = At(list, P)
  BY <1>2 DEF Those
<1>4. {list[i] : i \in P} = ToSet(list) \cap set
  BY <1>2 DEF ToSet
<1>5. IsInjective(list) => \A i, j \in P : list[i] = list[j] => i = j
  BY <1>2 DEF IsInjective
<1> HIDE DEF P
<1>6. At(list, P) \in Seq(S)
  BY <1>1, AtProperties
<1>7. ToSet(At(list, P)) = ToSet(list) \cap set
  BY <1>1, <1>4, AtHolds
<1>8. IsInjective(list) => IsInjective(At(list, P))
  BY <1>1, <1>5, AtInjective
<1>9. QED
  BY <1>3, <1>6, <1>7, <1>8

\* merge_list_of_dict leaves everybody once,
LEMMA MergeProperties ==
  ASSUME NEW S, NEW list \in Seq(S)
  PROVE  Merge(list) \in Seq(S) /\ IsInjective(Merge(list))
<1> DEFINE P == {i \in 1..Len(list) : \A j \in 1..(i - 1) : list[j] # list[i]}
<1>1. P \subseteq 1..Len(list)
  OBVIOUS
<1>2. DOMAIN list = 1..Len(list)
  BY LenProperties
<1>3. Merge(list) = At(list, P)
  BY <1>2 DEF Merge
<1>4. ASSUME NEW i \in P, NEW j \in P, list[i] = list[j] PROVE i = j
  <2>1. i \in Nat /\ j \in Nat /\ 1 <= i /\ 1 <= j
    OBVIOUS
  <2>2. ~(i < j) /\ ~(j < i)
    BY <1>4, <2>1
  <2>3. QED
    BY <2>1, <2>2
<1> HIDE DEF P
<1>5. At(list, P) \in Seq(S)
  BY <1>1, AtProperties
<1>6. IsInjective(At(list, P))
  BY <1>1, <1>4, AtInjective
<1>7. QED
  BY <1>3, <1>5, <1>6

\* and leaves a list alone that repeats nobody.
LEMMA MergeOfInjective ==
  ASSUME NEW S, NEW list \in Seq(S), IsInjective(list)
  PROVE  Merge(list) = list
<1>1. DOMAIN list = 1..Len(list)
  BY LenProperties
<1>2. {i \in 1..Len(list) : \A j \in 1..(i - 1) : list[j] # list[i]} = 1..Len(list)
  <2>1. ASSUME NEW i \in 1..Len(list), NEW j \in 1..(i - 1) PROVE list[j] # list[i]
    <3>1. j \in 1..Len(list) /\ j # i
      OBVIOUS
    <3>2. QED
      BY <1>1, <3>1 DEF IsInjective
  <2>2. QED
    BY <2>1
<1>3. Merge(list) = At(list, 1..Len(list))
  BY <1>1, <1>2 DEF Merge
<1>4. QED
  BY <1>3, AtAll

\* A list of lists put one after another is a list of their entries.
LEMMA FlattenType ==
  ASSUME NEW S, NEW lists \in Seq(Seq(S))
  PROVE  FlattenSeq(lists) \in Seq(S)
<1> DEFINE Step(f, i) == IF i = 1 THEN lists[i] ELSE f[i - 1] \o lists[i]
           Upto(f, n) == f = [i \in 1..n |-> Step(f, i)]
           Bad == {n \in Nat : n <= Len(lists) /\ \A f \in [1..n -> Seq(S)] : ~Upto(f, n)}
<1>1. ASSUME Bad # {} PROVE FALSE
  <2>1. PICK n \in Bad : \A m \in Bad : n <= m
    BY <1>1, LeastNat
  <2>2. n # 0
    <3>1. <<>> \in [1..0 -> Seq(S)] /\ Upto(<<>>, 0)
      OBVIOUS
    <3>2. QED
      BY <3>1
  <2>3. n - 1 \in Nat /\ n - 1 <= Len(lists) /\ n \in 1..Len(lists) /\ n - 1 \notin Bad
    <3>1. n \in Nat /\ n <= Len(lists) /\ Len(lists) \in Nat
      OBVIOUS
    <3>2. n - 1 \in Nat /\ ~(n <= n - 1) /\ n - 1 <= Len(lists) /\ n \in 1..Len(lists)
      BY <2>2, <3>1
    <3>3. QED
      BY <2>1, <3>2
  <2>4. PICK f \in [1..(n - 1) -> Seq(S)] : Upto(f, n - 1)
    BY <2>3
  <2> DEFINE g == [i \in 1..n |-> IF i = n THEN Step(f, n) ELSE f[i]]
  <2>5. \A i \in 1..(n - 1) : f[i] = Step(f, i)
    BY <2>4
  <2>6. Step(f, n) \in Seq(S)
    <3>1. lists[n] \in Seq(S)
      BY <2>3, ElementOfSeq
    <3>2. n # 1 => f[n - 1] \in Seq(S)
      BY <2>3
    <3>3. QED
      BY <3>1, <3>2, ConcatProperties
  <2>7. ASSUME NEW i \in 1..n PROVE g[i] \in Seq(S) /\ g[i] = Step(g, i)
    <3>1. CASE i = n
      <4>1. n # 1 => g[n - 1] = f[n - 1]
        BY <2>3
      <4>2. Step(g, n) = Step(f, n)
        BY <4>1
      <4>3. QED
        BY <2>6, <3>1, <4>2
    <3>2. CASE i # n
      <4>1. i \in 1..(n - 1)
        BY <2>3, <3>2
      <4>2. i # 1 => g[i - 1] = f[i - 1]
        BY <2>3, <4>1
      <4>3. g[i] = f[i] /\ f[i] \in Seq(S)
        BY <3>2, <4>1
      <4>4. QED
        BY <2>5, <4>1, <4>2, <4>3
    <3>3. QED
      BY <3>1, <3>2
  <2> HIDE DEF Step
  <2>8. g \in [1..n -> Seq(S)] /\ g = [i \in 1..n |-> Step(g, i)]
    <3>1. \A i \in 1..n : g[i] \in Seq(S) /\ g[i] = Step(g, i)
      BY <2>7
    <3>2. g \in [1..n -> Seq(S)]
      BY <3>1
    <3> HIDE DEF g
    <3>3. QED
      BY <3>1, <3>2
  <2>9. QED
    BY <2>1, <2>8
<1>2. CASE Len(lists) = 0
  <2>1. lists = <<>>
    BY <1>2, EmptySeq
  <2>2. QED
    BY <1>2, <2>1, EmptySeq DEF FlattenSeq
<1>3. CASE Len(lists) # 0
  <2> DEFINE h == CHOOSE f : f = [i \in 1..Len(lists) |-> Step(f, i)]
  <2>1. PICK n \in Nat \ {0} : n = Len(lists)
    BY <1>3
  <2>2. \E f \in [1..n -> Seq(S)] : Upto(f, n)
    <3>1. n \notin Bad
      BY <1>1
    <3>2. n \in Nat /\ n <= Len(lists)
      BY <2>1
    <3>3. QED
      BY <3>1, <3>2
  <2>3. h = [i \in 1..n |-> Step(h, i)]
    BY <2>1, <2>2
  <2>4. FlattenSeq(lists) = h[n]
    BY <1>3, <2>1 DEF FlattenSeq
  <2> HIDE DEF h
  <2>5. \A i \in 1..n : h[i] \in Seq(S)
    <3> DEFINE Out == {i \in 1..n : h[i] \notin Seq(S)}
    <3>1. ASSUME Out # {} PROVE FALSE
      <4>1. Out \subseteq Nat
        OBVIOUS
      <4>2. PICK i \in Out : \A j \in Out : i <= j
        BY <3>1, <4>1, LeastNat
      <4>3. i \in 1..n /\ h[i] = Step(h, i) /\ lists[i] \in Seq(S)
        BY <2>1, <2>3, <4>2, ElementOfSeq
      <4>4. CASE i = 1
        BY <4>2, <4>3, <4>4
      <4>5. CASE i # 1
        <5>1. i - 1 \in 1..n /\ ~(i <= i - 1)
          BY <4>3, <4>5
        <5>2. h[i - 1] \in Seq(S)
          BY <4>2, <5>1
        <5>3. h[i] = h[i - 1] \o lists[i]
          BY <4>3, <4>5
        <5>4. h[i] \in Seq(S)
          BY <4>3, <5>2, <5>3, ConcatProperties
        <5>5. QED
          BY <4>2, <5>4
      <4>6. QED
        BY <4>4, <4>5
    <3>2. QED
      BY <3>1
  <2>6. QED
    BY <2>1, <2>4, <2>5
<1>4. QED
  BY <1>2, <1>3

-----------------------------------------------------------------------------
(* A page                                                                  *)

\* When the statement leaves out the habits, the page made of the habits that
\* were not shown and the rows that were asked for is a slice of the whole
\* answer, and asks for one row more to tell whether there are more.
LEMMA FillPageIs ==
  ASSUME NEW S, NEW h \in Seq(S), IsInjective(h), NEW rows \in Seq(S), IsInjective(rows),
         ToSet(rows) \cap ToSet(h) = {}, NEW offset \in Nat
  PROVE  FillPage(RowsOfPage(rows, Missing(h, offset), offset, h), h, offset) =
           [more |-> Len(h \o rows) > offset + Limit, info |-> Slice(h \o rows, offset, Limit)]
<1> DEFINE W == h \o rows
<1>1. PICK l \in Nat \ {0} : l = Limit
  BY PageAssumption
<1>2. PICK nh \in Nat : nh = Len(h)
  OBVIOUS
<1>3. PICK nr \in Nat : nr = Len(rows)
  OBVIOUS
<1>4. /\ W \in Seq(S) /\ Len(W) = nh + nr
      /\ \A i \in 1..(nh + nr) : W[i] = IF i <= nh THEN h[i] ELSE rows[i - nh]
  BY <1>2, <1>3, ConcatProperties
<1>5. ASSUME NEW i \in 1..(nh + nr), NEW j \in 1..(nh + nr), W[i] = W[j] PROVE i = j
  <2>1. \A a, b \in 1..nh : h[a] = h[b] => a = b
    BY <1>2, LenProperties DEF IsInjective
  <2>2. \A a, b \in 1..nr : rows[a] = rows[b] => a = b
    BY <1>3, LenProperties DEF IsInjective
  <2>3. \A a \in 1..nh, b \in 1..nr : h[a] # rows[b]
    <3>1. \A a \in 1..nh : h[a] \in ToSet(h)
      BY <1>2, LenProperties DEF ToSet
    <3>2. \A b \in 1..nr : rows[b] \in ToSet(rows)
      BY <1>3, LenProperties DEF ToSet
    <3>3. QED
      BY <3>1, <3>2
  <2>4. CASE i <= nh /\ j <= nh
    BY <1>4, <1>5, <2>1, <2>4
  <2>5. CASE ~(i <= nh) /\ ~(j <= nh)
    <3>1. i - nh \in 1..nr /\ j - nh \in 1..nr
      BY <2>5
    <3>2. rows[i - nh] = rows[j - nh]
      BY <1>4, <1>5, <2>5
    <3>3. i - nh = j - nh
      BY <2>2, <3>1, <3>2
    <3>4. QED
      BY <3>3
  <2>6. CASE i <= nh /\ ~(j <= nh)
    <3>1. i \in 1..nh /\ j - nh \in 1..nr
      BY <2>6
    <3>2. QED
      BY <1>4, <1>5, <2>3, <2>6, <3>1
  <2>7. CASE ~(i <= nh) /\ j <= nh
    <3>1. j \in 1..nh /\ i - nh \in 1..nr
      BY <2>7
    <3>2. QED
      BY <1>4, <1>5, <2>3, <2>7, <3>1
  <2>8. QED
    BY <2>4, <2>5, <2>6, <2>7
<1>6. Missing(h, offset) = l + 1 + offset - nh
  BY <1>1, <1>2 DEF Missing
<1> HIDE DEF W
<1>7. PICK p : p = Slice(W, offset, l)
  OBVIOUS
<1>8. /\ p \in Seq(S)
      /\ Len(p) = IF offset + l <= nh + nr THEN l ELSE IF offset <= nh + nr THEN nh + nr - offset ELSE 0
      /\ \A i \in 1..Len(p) : p[i] = W[offset + i]
  <2>1. /\ p \in Seq(S)
        /\ Len(p) = IF offset + l <= Len(W) THEN l ELSE IF offset <= Len(W) THEN Len(W) - offset ELSE 0
        /\ \A i \in 1..Len(p) : p[i] = W[offset + i]
    <3>1. IsSlice(S, p, W, offset, l)
      BY <1>4, <1>7, SliceProperties
    <3>2. QED
      BY <3>1 DEF IsSlice
  <2>2. QED
    BY <1>4, <2>1
<1>9. CASE Missing(h, offset) <= 0
  <2>1. nh >= l + 1 + offset
    BY <1>6, <1>9
  <2>2. FillPage(RowsOfPage(rows, Missing(h, offset), offset, h), h, offset) =
          [more |-> TRUE, info |-> Slice(h, offset, l)]
    BY <1>1, <1>9 DEF FillPage
  <2>3. /\ Slice(h, offset, l) \in Seq(S)
        /\ Len(Slice(h, offset, l)) = l
        /\ \A i \in 1..l : Slice(h, offset, l)[i] = h[offset + i]
    <3>1. /\ Slice(h, offset, l) \in Seq(S)
          /\ Len(Slice(h, offset, l)) =
               IF offset + l <= Len(h) THEN l ELSE IF offset <= Len(h) THEN Len(h) - offset ELSE 0
          /\ \A i \in 1..Len(Slice(h, offset, l)) : Slice(h, offset, l)[i] = h[offset + i]
      <4>1. IsSlice(S, Slice(h, offset, l), h, offset, l)
        BY SliceProperties
      <4>2. QED
        BY <4>1 DEF IsSlice
    <3>2. QED
      BY <1>2, <2>1, <3>1
  <2>4. Len(p) = l
    BY <1>8, <2>1
  <2>5. ASSUME NEW i \in 1..l PROVE p[i] = Slice(h, offset, l)[i]
    <3>1. offset + i \in 1..(nh + nr) /\ offset + i <= nh
      BY <2>1
    <3>2. QED
      BY <1>4, <1>8, <2>3, <2>4, <3>1
  <2>6. p = Slice(h, offset, l)
    BY <1>8, <2>3, <2>4, <2>5, SeqEqual
  <2>7. nh + nr > offset + l
    BY <2>1
  <2>8. QED
    BY <1>1, <1>4, <1>7, <2>2, <2>6, <2>7 DEF W
<1>10. CASE ~(Missing(h, offset) <= 0)
  <2>1. PICK miss \in Nat \ {0} : miss = Missing(h, offset) /\ miss = l + 1 + offset - nh
    BY <1>6, <1>10
  <2>2. PICK s \in Nat : s = IF offset > nh THEN offset - nh ELSE 0
    <3>1. offset > nh => offset - nh \in Nat
      OBVIOUS
    <3>2. QED
      BY <3>1
  <2>3. RowsOfPage(rows, Missing(h, offset), offset, h) = Slice(rows, s, miss)
    <3>1. Max({0, offset - nh}) = s
      BY <2>2, MaxOfTwo
    <3>2. QED
      BY <1>2, <2>1, <3>1 DEF RowsOfPage
  <2>4. PICK found \in Seq(S) :
          /\ found = Slice(rows, s, miss)
          /\ Len(found) = IF s + miss <= nr THEN miss ELSE IF s <= nr THEN nr - s ELSE 0
          /\ \A i \in 1..Len(found) : found[i] = rows[s + i]
    <3>1. PICK found : found = Slice(rows, s, miss)
      OBVIOUS
    <3>2. /\ found \in Seq(S)
          /\ Len(found) = IF s + miss <= Len(rows) THEN miss ELSE IF s <= Len(rows) THEN Len(rows) - s ELSE 0
          /\ \A i \in 1..Len(found) : found[i] = rows[s + i]
      <4>1. IsSlice(S, found, rows, s, miss)
        BY <3>1, SliceProperties
      <4>2. QED
        BY <4>1 DEF IsSlice
    <3>3. QED
      BY <1>3, <3>1, <3>2
  <2>5. PICK left \in Seq(S) :
          /\ left = SubSeq(h, offset + 1, nh)
          /\ Len(left) = IF offset < nh THEN nh - offset ELSE 0
          /\ \A i \in 1..Len(left) : left[i] = h[offset + i]
    <3>1. \A i \in (offset + 1)..nh : h[i] \in S
      BY <1>2, ElementOfSeq
    <3>2. /\ SubSeq(h, offset + 1, nh) \in Seq(S)
          /\ Len(SubSeq(h, offset + 1, nh)) = IF offset + 1 <= nh THEN nh - (offset + 1) + 1 ELSE 0
          /\ \A i \in 1..(nh - (offset + 1) + 1) :
               SubSeq(h, offset + 1, nh)[i] = h[(offset + 1) + i - 1]
      BY <3>1, SubSeqProperties
    <3>3. \A i \in 1..(nh - (offset + 1) + 1) : (offset + 1) + i - 1 = offset + i
      OBVIOUS
    <3>4. PICK left : left = SubSeq(h, offset + 1, nh)
      OBVIOUS
    <3>5. /\ left \in Seq(S)
          /\ Len(left) = IF offset < nh THEN nh - offset ELSE 0
      BY <3>2, <3>4
    <3>6. \A i \in 1..Len(left) : left[i] = h[offset + i]
      <4> SUFFICES ASSUME NEW i \in 1..Len(left) PROVE left[i] = h[offset + i]
        OBVIOUS
      <4>1. i \in 1..(nh - (offset + 1) + 1)
        BY <3>5
      <4>2. QED
        BY <3>2, <3>3, <3>4, <4>1
    <3>7. QED
      BY <3>4, <3>5, <3>6
  <2>6. PICK nl \in Nat : nl = Len(left)
    OBVIOUS
  <2>7. PICK nf \in Nat : nf = Len(found)
    OBVIOUS
  <2>8. PICK L \in Seq(S) :
          /\ L = left \o found
          /\ Len(L) = nl + nf
          /\ \A i \in 1..(nl + nf) : L[i] = IF i <= nl THEN left[i] ELSE found[i - nl]
    <3>1. /\ left \o found \in Seq(S)
          /\ Len(left \o found) = Len(left) + Len(found)
          /\ \A i \in 1..(Len(left) + Len(found)) :
               (left \o found)[i] = IF i <= Len(left) THEN left[i] ELSE found[i - Len(left)]
      BY ConcatProperties
    <3>2. QED
      BY <2>6, <2>7, <3>1
  <2>9. /\ nl = IF offset < nh THEN nh - offset ELSE 0
        /\ nf = IF s + miss <= nr THEN miss ELSE IF s <= nr THEN nr - s ELSE 0
    BY <2>4, <2>5, <2>6, <2>7
  <2>10. ASSUME NEW i \in 1..(nl + nf)
         PROVE  offset + i \in 1..(nh + nr) /\ L[i] = W[offset + i]
    <3>1. CASE i <= nl
      <4>1. offset + i \in 1..(nh + nr) /\ offset + i <= nh /\ i \in 1..nl
        BY <2>9, <3>1
      <4>2. QED
        BY <1>4, <2>5, <2>6, <2>8, <3>1, <4>1
    <3>2. CASE ~(i <= nl)
      <4>1. /\ offset + i \in 1..(nh + nr) /\ ~(offset + i <= nh) /\ i - nl \in 1..nf
            /\ (offset + i) - nh = s + (i - nl)
        BY <2>2, <2>9, <3>2
      <4>2. L[i] = rows[s + (i - nl)]
        BY <2>4, <2>7, <2>8, <3>2, <4>1
      <4>3. QED
        BY <1>4, <4>1, <4>2
    <3>3. QED
      BY <3>1, <3>2
  <2>11. IsInjective(L)
    <3>1. DOMAIN L = 1..(nl + nf)
      BY <2>8, LenProperties
    <3>2. ASSUME NEW i \in 1..(nl + nf), NEW j \in 1..(nl + nf), L[i] = L[j] PROVE i = j
      <4>1. offset + i = offset + j
        BY <1>5, <2>10, <3>2
      <4>2. QED
        BY <4>1
    <3>3. QED
      BY <3>1, <3>2 DEF IsInjective
  <2>12. FillPage(RowsOfPage(rows, Missing(h, offset), offset, h), h, offset) = GetHasMore(L)
    <3>1. Merge(L) = L
      BY <2>11, MergeOfInjective
    <3>2. h = <<>> => left = <<>>
      BY <1>2, <2>5, EmptySeq
    <3>3. h = <<>> => L = found
      BY <2>8, <3>2, ConcatEmptySeq
    <3>4. FillPage(found, h, offset) =
            GetHasMore(IF h = <<>> THEN found ELSE Merge(left \o found))
      BY <1>2, <1>10, <2>5 DEF FillPage
    <3>5. QED
      BY <2>3, <2>4, <2>8, <3>1, <3>3, <3>4
  <2>13. GetHasMore(L) = [more |-> nl + nf > l, info |-> Slice(L, 0, l)]
    BY <1>1, <2>8 DEF GetHasMore
  <2>14. (nl + nf > l) = (nh + nr > offset + l)
    BY <2>1, <2>2, <2>9
  <2>15. PICK q : q = Slice(L, 0, l)
    OBVIOUS
  <2>16. /\ q \in Seq(S)
         /\ Len(q) = IF 0 + l <= nl + nf THEN l ELSE IF 0 <= nl + nf THEN nl + nf - 0 ELSE 0
         /\ \A i \in 1..Len(q) : q[i] = L[0 + i]
    <3>1. /\ q \in Seq(S)
          /\ Len(q) = IF 0 + l <= Len(L) THEN l ELSE IF 0 <= Len(L) THEN Len(L) - 0 ELSE 0
          /\ \A i \in 1..Len(q) : q[i] = L[0 + i]
      <4>1. IsSlice(S, q, L, 0, l)
        BY <2>15, SliceProperties
      <4>2. QED
        BY <4>1 DEF IsSlice
    <3>2. QED
      BY <2>8, <3>1
  <2>17. Len(q) = Len(p) /\ Len(q) <= nl + nf
    BY <1>8, <2>1, <2>2, <2>9, <2>16
  <2>18. ASSUME NEW i \in 1..Len(q) PROVE q[i] = p[i]
    <3>1. i \in 1..(nl + nf) /\ 0 + i = i
      BY <2>16, <2>17
    <3>2. QED
      BY <1>8, <2>10, <2>16, <2>17, <3>1
  <2>19. q = p
    BY <1>8, <2>16, <2>17, <2>18, SeqEqual
  <2>20. QED
    BY <1>1, <1>4, <1>7, <2>12, <2>13, <2>14, <2>15, <2>19 DEF W
<1>11. QED
  BY <1>9, <1>10

-----------------------------------------------------------------------------
(* What the statements list                                                *)

\* No two rooms count from the same time.
TimesDiffer ==
  /\ joined \in [Contact -> Nat]
  /\ \A q, r \in Contact :
       q # r /\ joined[q] # 0 => joined[q] # joined[r] /\ joined[q] # MemberSince[r]

\* The times those rooms count from.
Counted(found) == [r \in found |-> CountsFrom(r)]

\* The statements list finitely many.
LEMMA ContactIsFinite == IsFiniteSet(Contact)
<1>1. ByUserId \in Seq(Contact) /\ ToSet(ByUserId) = Contact
  BY ContactAssumption
<1>2. PICK n \in Nat : n = Len(ByUserId)
  BY <1>1
<1>3. ByUserId \in [1..n -> Contact] /\ \A c \in Contact : \E i \in 1..n : ByUserId[i] = c
  BY <1>1, <1>2, LenProperties DEF ToSet
<1>4. ByUserId \in Surjection(1..n, Contact)
  BY <1>3 DEF Surjection
<1>5. IsFiniteSet(1..n)
  BY FS_Interval
<1>6. QED
  BY <1>4, <1>5, FS_Surjection

\* A room that is found counts from one of its two times.
LEMMA CountsFromIs ==
  ASSUME TimesDiffer, NEW r \in Contact, r \in search.names \cup search.members
  PROVE  CountsFrom(r) \in Nat /\ CountsFrom(r) \in {joined[r], MemberSince[r]}
<1>1. joined[r] \in Nat /\ MemberSince[r] \in Nat
  BY ContactAssumption DEF TimesDiffer
<1> DEFINE Byname == {joined[r] : n \in search.names \cap {r}}
           Bymember == {MemberSince[r] : n \in search.members \cap {r}}
<1>2. CASE r \in search.names /\ r \in search.members
  <2>1. Byname \cup Bymember = {joined[r], MemberSince[r]}
    BY <1>2
  <2>2. QED
    BY <1>1, <2>1, MaxOfTwo DEF CountsFrom
<1>3. CASE r \in search.names /\ r \notin search.members
  <2>1. Byname \cup Bymember = {joined[r], joined[r]}
    BY <1>3
  <2>2. QED
    BY <1>1, <2>1, MaxOfTwo DEF CountsFrom
<1>4. CASE r \notin search.names /\ r \in search.members
  <2>1. Byname \cup Bymember = {MemberSince[r], MemberSince[r]}
    BY <1>4
  <2>2. QED
    BY <1>1, <2>1, MaxOfTwo DEF CountsFrom
<1>5. QED
  BY <1>2, <1>3, <1>4

\* The times of the rooms that are found differ.
LEMMA CountedProperties ==
  ASSUME TimesDiffer, NEW found, found \subseteq Rooms,
         found \subseteq search.names \cup search.members
  PROVE  IsFiniteSet(found) /\ Counted(found) \in [found -> Nat] /\ NoTies(found, Counted(found))
<1>1. \A r \in found : r \in Contact /\ joined[r] # 0
  BY DEF Rooms
<1>2. IsFiniteSet(found)
  <2>1. found \in SUBSET Contact
    BY <1>1
  <2>2. QED
    BY <2>1, ContactIsFinite, FS_Subset
<1>3. \A r \in found : CountsFrom(r) \in Nat /\ CountsFrom(r) \in {joined[r], MemberSince[r]}
  BY <1>1, CountsFromIs
<1>4. ASSUME NEW q \in found, NEW r \in found, q # r PROVE CountsFrom(q) # CountsFrom(r)
  <2>1. MemberSince[q] # MemberSince[r]
    BY <1>1, <1>4, TimesAssumption
  <2>2. joined[q] # joined[r] /\ joined[q] # MemberSince[r] /\ joined[r] # MemberSince[q]
    BY <1>1, <1>4 DEF TimesDiffer
  <2>3. QED
    BY <1>3, <2>1, <2>2
<1>5. QED
  BY <1>2, <1>3, <1>4 DEF Counted, NoTies

\* The statement lists the rooms it finds by those times.
LEMMA NewestFirstIs ==
  ASSUME NEW found
  PROVE  NewestFirst(found) = Ranked(found, Counted(found))
BY DEF NewestFirst, Counted

\* It lists every room it finds, once.
LEMMA NewestFirstProperties ==
  ASSUME TimesDiffer, NEW found, found \subseteq Rooms,
         found \subseteq search.names \cup search.members
  PROVE  /\ NewestFirst(found) \in Seq(Contact)
         /\ IsInjective(NewestFirst(found))
         /\ ToSet(NewestFirst(found)) = found
<1>1. IsFiniteSet(found) /\ Counted(found) \in [found -> Nat] /\ NoTies(found, Counted(found))
  BY CountedProperties
<1>2. Ranked(found, Counted(found)) \in Seq(found)
  BY <1>1, RankedProperties
<1>3. found \subseteq Contact
  BY DEF Rooms
<1>4. Ranked(found, Counted(found)) \in Seq(Contact)
  BY <1>2, <1>3, SeqMonotonic
<1>5. QED
  BY <1>1, <1>4, NewestFirstIs, RankedInjective

\* The statement that searches members leaves out what it is told to.
LEMMA RoomRowsProperties ==
  ASSUME TimesDiffer, NEW origin \in BOOLEAN, NEW common \in BOOLEAN, NEW excluded
  PROVE  /\ RoomRows(origin, common, excluded) \in Seq(Contact)
         /\ common \/ ~origin =>
              /\ IsInjective(RoomRows(origin, common, excluded))
              /\ ToSet(RoomRows(origin, common, excluded)) \cap excluded = {}
<1>1. CASE common
  <2>1. PICK found : found = (Rooms \ excluded) \cap IF origin THEN search.names \cup search.members
                                                      ELSE search.members
    OBVIOUS
  <2>2. found \subseteq Rooms /\ found \subseteq search.names \cup search.members /\ found \cap excluded = {}
    BY <2>1
  <2>3. RoomRows(origin, common, excluded) = NewestFirst(found)
    BY <1>1, <2>1 DEF RoomRows
  <2>4. QED
    BY <2>2, <2>3, NewestFirstProperties
<1>2. CASE ~common /\ ~origin
  <2>1. RoomRows(origin, common, excluded) = <<>>
    BY <1>2 DEF RoomRows
  <2>2. QED
    BY <2>1, EmptySeq DEF IsInjective, ToSet
<1>3. CASE ~common /\ origin
  <2>1. RoomRows(origin, common, excluded) = Those(ByUpdate, search.names \cap Rooms)
    BY <1>3 DEF RoomRows
  <2>2. ByUpdate \in Seq(Contact)
    BY ContactAssumption
  <2>3. Those(ByUpdate, search.names \cap Rooms) \in Seq(Contact)
    BY <2>2, ThoseProperties
  <2>4. QED
    BY <1>3, <2>1, <2>3
<1>4. QED
  BY <1>1, <1>2, <1>3

\* So does the statement that searches users.
LEMMA UserRowsProperties ==
  ASSUME NEW excluded
  PROVE  /\ UserRows(excluded) \in Seq(Contact)
         /\ IsInjective(UserRows(excluded))
         /\ ToSet(UserRows(excluded)) \cap excluded = {}
<1>1. ByUserId \in Seq(Contact) /\ IsInjective(ByUserId)
  BY ContactAssumption
<1>2. /\ UserRows(excluded) \in Seq(Contact)
      /\ ToSet(UserRows(excluded)) = ToSet(ByUserId) \cap (search.names \ excluded)
      /\ IsInjective(UserRows(excluded))
  BY <1>1, ThoseProperties DEF UserRows
<1>3. QED
  BY <1>2

\* What an answer lists beside the habits.
LEMMA RowsProperties ==
  ASSUME TimesDiffer, search \in SearchType, Exact, NEW excluded
  PROVE  /\ Rows(excluded) \in Seq(Contact)
         /\ IsInjective(Rows(excluded))
         /\ ToSet(Rows(excluded)) \cap excluded = {}
<1>1. search.origin \in BOOLEAN /\ (search.common /\ search.words) \in BOOLEAN
  BY DEF SearchType
<1>2. CASE search.form = "user"
  BY <1>2, UserRowsProperties DEF Rows
<1>3. CASE search.form # "user"
  <2>1. (search.common /\ search.words) \/ ~search.origin
    BY <1>3 DEF Exact
  <2>2. Rows(excluded) = RoomRows(search.origin, search.common /\ search.words, excluded)
    BY <1>3 DEF Rows
  <2>3. QED
    BY <1>1, <2>1, <2>2, RoomRowsProperties
<1>4. QED
  BY <1>2, <1>3

\* The habits that match the key, nobody twice.
LEMMA MatchesProperties ==
  ASSUME search \in SearchType, NEW data \in Seq(Contact)
  PROVE  Matches(data) \in Seq(Contact) /\ IsInjective(Matches(data))
<1> DEFINE n == Len(search.matching)
           lists == [i \in 1..n |-> Those(data, search.matching[i])]
<1>1. search.matching \in Seq(SUBSET Contact)
  BY DEF SearchType
<1>2. n \in Nat /\ DOMAIN search.matching = 1..n
  BY <1>1, LenProperties
<1>3. \A i \in 1..n : Those(data, search.matching[i]) \in Seq(Contact)
  BY ThoseProperties
<1>4. lists \in Seq(Seq(Contact))
  BY <1>2, <1>3
<1>5. Matches(data) = Merge(FlattenSeq(lists))
  BY <1>2 DEF Matches
<1> HIDE DEF lists
<1>6. QED
  BY <1>4, <1>5, FlattenType, MergeProperties

\* The whole answer, for the habits that match.
WholeOf(habits) == habits \o Rows(ToSet(habits))

\* With the asynchronous library a page is a slice of the whole answer.
LEMMA PageIs ==
  ASSUME IfAsync, TimesDiffer, search \in SearchType, Exact,
         NEW habits \in Seq(Contact), IsInjective(habits), NEW offset \in Nat
  PROVE  Page(habits, offset) =
           [more |-> Len(WholeOf(habits)) > offset + Limit,
            info |-> Slice(WholeOf(habits), offset, Limit)]
<1> DEFINE rows == Rows(ToSet(habits))
<1>1. rows \in Seq(Contact) /\ IsInjective(rows) /\ ToSet(rows) \cap ToSet(habits) = {}
  BY RowsProperties
<1>2. Page(habits, offset) =
        FillPage(RowsOfPage(rows, Missing(habits, offset), offset, habits), habits, offset)
  BY DEF Page, Rows, SearchUserPage, SearchGroupPage, SearchUser, SearchGroup,
         SearchUserAsync, SearchGroupAsync
<1> HIDE DEF rows
<1>3. Page(habits, offset) =
        [more |-> Len(habits \o rows) > offset + Limit, info |-> Slice(habits \o rows, offset, Limit)]
  BY <1>1, <1>2, FillPageIs
<1>4. QED
  BY <1>3 DEF WholeOf, rows

\* A page is a list of at most the length that was asked for,
LEMMA FillPageType ==
  ASSUME NEW habits \in Seq(Contact), NEW offset \in Nat, NEW found,
         Missing(habits, offset) > 0 => found \in Seq(Contact)
  PROVE  /\ FillPage(found, habits, offset).more \in BOOLEAN
         /\ FillPage(found, habits, offset).info \in Seq(Contact)
         /\ Len(FillPage(found, habits, offset).info) <= Limit
<1>0. PICK l \in Nat : l = Limit
  BY PageAssumption
<1>1. ASSUME NEW list \in Seq(Contact), NEW start \in Nat
      PROVE  Slice(list, start, Limit) \in Seq(Contact) /\ Len(Slice(list, start, Limit)) <= Limit
  <2>1. IsSlice(Contact, Slice(list, start, l), list, start, l)
    BY SliceProperties
  <2>2. PICK n \in Nat : n = Len(list)
    OBVIOUS
  <2>3. QED
    BY <1>0, <2>1, <2>2 DEF IsSlice
<1>2. CASE Missing(habits, offset) <= 0
  <2>1. FillPage(found, habits, offset) = [more |-> TRUE, info |-> Slice(habits, offset, Limit)]
    BY <1>2 DEF FillPage
  <2>2. QED
    BY <1>1, <2>1
<1>3. CASE ~(Missing(habits, offset) <= 0)
  <2>1. found \in Seq(Contact)
    BY <1>0, <1>3 DEF Missing
  <2>2. SubSeq(habits, offset + 1, Len(habits)) \in Seq(Contact)
    BY ElementOfSeq, SubSeqProperties
  <2>3. PICK list \in Seq(Contact) :
          list = IF habits = <<>> THEN found
                 ELSE Merge(SubSeq(habits, offset + 1, Len(habits)) \o found)
    BY <2>1, <2>2, ConcatProperties, MergeProperties
  <2>4. FillPage(found, habits, offset) = [more |-> Len(list) > Limit, info |-> Slice(list, 0, Limit)]
    BY <1>3, <2>3 DEF FillPage, GetHasMore
  <2>5. QED
    BY <1>1, <2>4
<1>4. QED
  BY <1>2, <1>3

\* the rows it is made of are a list,
LEMMA RowsOfPageType ==
  ASSUME NEW rows \in Seq(Contact), NEW limit \in Int, limit > 0, NEW offset \in Nat,
         NEW exclude \in Seq(Contact)
  PROVE  RowsOfPage(rows, limit, offset, exclude) \in Seq(Contact)
<1>1. PICK start \in Nat : start = Max({0, offset - Len(exclude)})
  BY MaxOfTwo
<1>2. limit \in Nat
  OBVIOUS
<1>3. IsSlice(Contact, Slice(rows, start, limit), rows, start, limit)
  BY <1>2, SliceProperties
<1>4. QED
  BY <1>1, <1>3 DEF IsSlice, RowsOfPage

\* and so for either library.
LEMMA PageType ==
  ASSUME TimesDiffer, search \in SearchType, NEW habits \in Seq(Contact), NEW offset \in Nat
  PROVE  /\ Page(habits, offset).more \in BOOLEAN
         /\ Page(habits, offset).info \in Seq(Contact)
         /\ Len(Page(habits, offset).info) <= Limit
<1> DEFINE missing == Missing(habits, offset)
<1>1. missing \in Int
  BY PageAssumption DEF Missing
<1>2. /\ search.origin \in BOOLEAN /\ (search.common /\ search.words) \in BOOLEAN
      /\ TRUE \in BOOLEAN /\ <<>> \in Seq(Contact)
  BY EmptySeq DEF SearchType
<1>3. ASSUME missing > 0
      PROVE  /\ SearchUser(missing, offset, habits) \in Seq(Contact)
             /\ SearchGroup(missing, offset, habits) \in Seq(Contact)
  <2> HIDE DEF missing
  <2>1. /\ UserRows(ToSet(habits)) \in Seq(Contact) /\ UserRows({}) \in Seq(Contact)
    BY UserRowsProperties
  <2>2. /\ RoomRows(search.origin, search.common /\ search.words, ToSet(habits)) \in Seq(Contact)
        /\ RoomRows(TRUE, TRUE, {}) \in Seq(Contact)
    BY <1>2, RoomRowsProperties
  <2>3. SearchUser(missing, offset, habits) \in Seq(Contact)
    BY <1>1, <1>2, <1>3, <2>1, RowsOfPageType DEF SearchUser, SearchUserAsync, SearchUserSync
  <2>4. SearchGroup(missing, offset, habits) \in Seq(Contact)
    BY <1>1, <1>2, <1>3, <2>2, RowsOfPageType DEF SearchGroup, SearchGroupAsync, SearchGroupSync
  <2>5. QED
    BY <2>3, <2>4
<1>4. QED
  BY <1>3, FillPageType DEF Page, SearchUserPage, SearchGroupPage

-----------------------------------------------------------------------------
(* The invariant of the types                                              *)

\* The consumer rewrites the recent list without repeating a contact.
Rewriting ==
  /\ IsInjective(recent)
  /\ writer.step = "lrange" => Len(recent) <= MaxBuffer
  /\ IsInjective(writer.held) /\ Len(writer.held) <= MaxBuffer + 1

\* A room that was joined again counts from later than any time known before.
JoinedLater ==
  \A r \in Contact :
    \/ joined[r] \in {0, Joined[r]}
    \/ joined[r] > LastJoin /\ joined[r] <= LastJoin + events

\* What every step keeps.
IInv == TypeOK /\ Rewriting /\ TimesDiffer /\ JoinedLater

\* No time known at the start is later than LastJoin.
LEMMA LastJoinIs ==
  ASSUME NEW r \in Contact
  PROVE  LastJoin \in Nat /\ Joined[r] <= LastJoin /\ MemberSince[r] <= LastJoin
<1> DEFINE S == {Joined[q] : q \in Contact} \cup {MemberSince[q] : q \in Contact}
<1>1. Joined \in [Contact -> Nat] /\ MemberSince \in [Contact -> Nat]
  BY ContactAssumption
<1>2. PICK b \in Nat : \A q \in Contact : Joined[q] <= b
  BY <1>1, ContactIsFinite, FiniteBound
<1>3. PICK d \in Nat : \A q \in Contact : MemberSince[q] <= d
  BY <1>1, ContactIsFinite, FiniteBound
<1>4. S \subseteq Nat /\ Joined[r] \in S /\ MemberSince[r] \in S
  BY <1>1
<1>5. PICK e \in Nat : \A x \in Nat : (x <= b => x <= e) /\ (x <= d => x <= e)
  <2>1. b + d \in Nat /\ \A x \in Nat : (x <= b => x <= b + d) /\ (x <= d => x <= b + d)
    OBVIOUS
  <2>2. QED
    BY <2>1
<1>6. \A x \in S : x <= e
  BY <1>1, <1>2, <1>3, <1>5
<1> HIDE DEF S
<1> DEFINE Up == {x \in Nat : \A y \in S : y <= x}
<1>7. Up # {}
  BY <1>6
<1>8. PICK m \in Up : \A x \in Up : m <= x
  <2>1. Up \subseteq Nat
    OBVIOUS
  <2>2. QED
    BY <1>7, <2>1, LeastNat
<1>9. m \in S
  <2> SUFFICES ASSUME m \notin S PROVE FALSE
    OBVIOUS
  <2>1. \A y \in S : y \in Nat /\ y <= m /\ y # m
    BY <1>4, <1>8
  <2>2. m - 1 \in Nat
    <3>1. PICK y \in S : y \in Nat /\ y <= m /\ y # m
      BY <1>4, <2>1
    <3>2. QED
      BY <3>1
  <2>3. m - 1 \in Up
    BY <2>1, <2>2
  <2>4. QED
    BY <1>8, <2>2, <2>3
<1>10. \A y \in S : m >= y
  BY <1>4, <1>8
<1>11. Max(S) \in S /\ \A y \in S : Max(S) >= y
  BY <1>9, <1>10 DEF Max
<1>12. LastJoin = Max(S)
  BY DEF LastJoin, S
<1>13. PICK j \in Nat : j = LastJoin /\ \A y \in S : j >= y
  BY <1>4, <1>11, <1>12
<1>14. Joined[r] \in Nat /\ MemberSince[r] \in Nat
  BY <1>1
<1>15. QED
  BY <1>4, <1>13, <1>14

\* Rooms that are joined and left keep their times apart.
LEMMA JoinTimes ==
  ASSUME IInv, [Next]_vars
  PROVE  (joined' \in [Contact -> Nat]) /\ TimesDiffer' /\ JoinedLater'
<1>1. /\ joined \in [Contact -> Nat] /\ TimesDiffer /\ JoinedLater /\ events \in Nat
      /\ Joined \in [Contact -> Nat] /\ MemberSince \in [Contact -> Nat]
  BY ContactAssumption DEF IInv, TypeOK
<1>2. events' \in Nat /\ events <= events'
  BY <1>1 DEF Next, vars, Talk, Join, Leave, Happens, Lpush, Ltrim, Expire, CacheBecomes, Start,
              Serve, GetCache, SetCache, Answer
<1>3. CASE joined' = joined
  <2>1. TimesDiffer'
    BY <1>1, <1>3 DEF TimesDiffer
  <2>2. ASSUME NEW r \in Contact
        PROVE  joined[r] \in {0, Joined[r]} \/ (joined[r] > LastJoin /\ joined[r] <= LastJoin + events')
    <3>1. PICK j \in Nat : j = LastJoin
      BY LastJoinIs
    <3>2. PICK t \in Nat : t = joined[r]
      BY <1>1
    <3>3. t \in {0, Joined[r]} \/ (t > j /\ t <= j + events)
      BY <1>1, <3>1, <3>2 DEF JoinedLater
    <3>4. QED
      BY <1>1, <1>2, <3>1, <3>2, <3>3
  <2>3. QED
    BY <1>1, <1>3, <2>1, <2>2 DEF JoinedLater
<1>4. ASSUME NEW r \in Contact, Join(r)
      PROVE  (joined' \in [Contact -> Nat]) /\ TimesDiffer' /\ JoinedLater'
  <2>1. PICK j \in Nat : j = LastJoin /\ \A q \in Contact : MemberSince[q] <= j /\ Joined[q] <= j
    BY LastJoinIs
  <2>2. events' = events + 1 /\ joined' = [joined EXCEPT ![r] = j + events']
    BY <1>4, <2>1 DEF Join, Happens
  <2>3. PICK n \in Nat : n = j + events' /\ n > j + events
    BY <1>1, <2>2
  <2>4. /\ joined' \in [Contact -> Nat] /\ joined'[r] = n
        /\ \A q \in Contact : q # r => joined'[q] = joined[q]
    BY <1>1, <2>2, <2>3
  <2>5. ASSUME NEW q \in Contact PROVE joined[q] < n /\ MemberSince[q] < n
    <3>1. PICK t \in Nat : t = joined[q]
      BY <1>1
    <3>2. PICK u \in Nat : u = MemberSince[q]
      BY <1>1
    <3>3. PICK v \in Nat : v = Joined[q]
      BY <1>1
    <3>4. t \in {0, v} \/ (t > j /\ t <= j + events)
      BY <1>1, <2>1, <3>1, <3>3 DEF JoinedLater
    <3>5. u <= j /\ v <= j
      BY <2>1, <3>2, <3>3
    <3>6. t < n /\ u < n
      BY <1>1, <2>3, <3>4, <3>5
    <3>7. QED
      BY <3>1, <3>2, <3>6
  <2>6. ASSUME NEW p \in Contact, NEW q \in Contact, p # q, joined'[p] # 0
        PROVE  joined'[p] # joined'[q] /\ joined'[p] # MemberSince[q]
    <3>1. \A s \in Contact : joined[s] # n /\ MemberSince[s] # n
      <4> SUFFICES ASSUME NEW s \in Contact PROVE joined[s] # n /\ MemberSince[s] # n
        OBVIOUS
      <4>1. joined[s] < n /\ MemberSince[s] < n
        BY <2>5
      <4>2. QED
        BY <1>1, <4>1
    <3>2. CASE p = r
      BY <2>4, <2>6, <3>1, <3>2
    <3>3. CASE p # r /\ q = r
      <4>1. joined'[p] = joined[p] /\ joined'[q] = n
        BY <2>4, <3>3
      <4>2. joined[p] # MemberSince[q]
        BY <1>1, <2>6, <4>1 DEF TimesDiffer
      <4>3. QED
        BY <3>1, <4>1, <4>2
    <3>4. CASE p # r /\ q # r
      <4>1. joined'[p] = joined[p] /\ joined'[q] = joined[q]
        BY <2>4, <3>4
      <4>2. QED
        BY <1>1, <2>6, <4>1 DEF TimesDiffer
    <3>5. QED
      BY <3>2, <3>3, <3>4
  <2>7. TimesDiffer'
    BY <2>4, <2>6 DEF TimesDiffer
  <2>8. ASSUME NEW q \in Contact
        PROVE  joined'[q] \in {0, Joined[q]} \/ (joined'[q] > LastJoin /\ joined'[q] <= LastJoin + events')
    <3>1. CASE q = r
      BY <2>1, <2>3, <2>4, <3>1, <1>1
    <3>2. CASE q # r
      <4>1. PICK t \in Nat : t = joined[q] /\ t = joined'[q]
        BY <1>1, <2>4, <3>2
      <4>2. t \in {0, Joined[q]} \/ (t > j /\ t <= j + events)
        BY <1>1, <2>1, <4>1 DEF JoinedLater
      <4>3. QED
        BY <1>1, <1>2, <2>1, <4>1, <4>2
    <3>3. QED
      BY <3>1, <3>2
  <2>9. JoinedLater'
    BY <2>8 DEF JoinedLater
  <2>10. QED
    BY <2>4, <2>7, <2>9
<1>5. ASSUME NEW r \in Contact, Leave(r)
      PROVE  (joined' \in [Contact -> Nat]) /\ TimesDiffer' /\ JoinedLater'
  <2>1. joined' = [joined EXCEPT ![r] = 0]
    BY <1>5 DEF Leave
  <2>2. /\ joined' \in [Contact -> Nat] /\ joined'[r] = 0
        /\ \A q \in Contact : q # r => joined'[q] = joined[q]
    BY <1>1, <2>1
  <2>3. ASSUME NEW p \in Contact, NEW q \in Contact, p # q, joined'[p] # 0
        PROVE  joined'[p] # joined'[q] /\ joined'[p] # MemberSince[q]
    BY <1>1, <2>2, <2>3 DEF TimesDiffer
  <2>4. TimesDiffer'
    BY <2>2, <2>3 DEF TimesDiffer
  <2>5. ASSUME NEW q \in Contact
        PROVE  joined'[q] \in {0, Joined[q]} \/ (joined'[q] > LastJoin /\ joined'[q] <= LastJoin + events')
    <3>1. CASE q = r
      BY <2>2, <3>1
    <3>2. CASE q # r
      <4>0. PICK j \in Nat : j = LastJoin
        BY LastJoinIs
      <4>1. PICK t \in Nat : t = joined[q] /\ t = joined'[q]
        BY <1>1, <2>2, <3>2
      <4>2. t \in {0, Joined[q]} \/ (t > j /\ t <= j + events)
        BY <1>1, <4>0, <4>1 DEF JoinedLater
      <4>3. QED
        BY <1>1, <1>2, <4>0, <4>1, <4>2
    <3>3. QED
      BY <3>1, <3>2
  <2>6. JoinedLater'
    BY <2>5 DEF JoinedLater
  <2>7. QED
    BY <2>2, <2>4, <2>6
<1>6. joined' = joined \/ \E r \in Contact : Join(r) \/ Leave(r)
  BY DEF Next, vars, Talk, Lpush, Ltrim, Expire, Start, Serve, GetCache, SetCache, Answer, roomVars
<1>7. QED
  BY <1>3, <1>4, <1>5, <1>6

\* The searched sets are what clients may search for.
LEMMA SearchIsTyped == IInv => search \in SearchType
BY ContactAssumption DEF IInv, TypeOK

\* What get_user_habit returns has every frequent contact in it.
LEMMA ReadHabitType ==
  ASSUME recent \in Seq(Contact)
  PROVE  /\ ReadHabit \in Seq(Contact)
         /\ ToSet(Frequent) \subseteq ToSet(ReadHabit)
<1> DEFINE rest == Those(Frequent, Contact \ ToSet(recent))
<1>1. Frequent \in Seq(Contact)
  BY ContactAssumption
<1>2. /\ rest \in Seq(Contact)
      /\ ToSet(rest) = ToSet(Frequent) \cap (Contact \ ToSet(recent))
  BY <1>1, ThoseProperties
<1> HIDE DEF rest
<1>3. /\ recent \o rest \in Seq(Contact)
      /\ Len(recent \o rest) = Len(recent) + Len(rest)
      /\ \A i \in 1..(Len(recent) + Len(rest)) :
           (recent \o rest)[i] = IF i <= Len(recent) THEN recent[i] ELSE rest[i - Len(recent)]
  BY <1>2, ConcatProperties
<1>4. ASSUME NEW c \in ToSet(Frequent) PROVE c \in ToSet(recent \o rest)
  <2>0. DOMAIN (recent \o rest) = 1..(Len(recent) + Len(rest))
    BY <1>3, LenProperties
  <2>1. CASE c \in ToSet(recent)
    <3>1. PICK i \in 1..Len(recent) : recent[i] = c
      BY <2>1, LenProperties DEF ToSet
    <3>2. i \in 1..(Len(recent) + Len(rest)) /\ (recent \o rest)[i] = c
      BY <1>2, <1>3, <3>1
    <3>3. QED
      BY <2>0, <3>2 DEF ToSet
  <2>2. CASE c \notin ToSet(recent)
    <3>0. c \in Contact
      BY <1>1, LenProperties, ElementOfSeq DEF ToSet
    <3>1. c \in ToSet(rest)
      BY <1>2, <2>2, <3>0
    <3>2. PICK i \in 1..Len(rest) : rest[i] = c
      BY <1>2, <3>1, LenProperties DEF ToSet
    <3>3. PICK m \in Nat : m = Len(recent)
      OBVIOUS
    <3>4. PICK n \in Nat : n = Len(rest)
      BY <1>2
    <3>5. m + i \in 1..(m + n) /\ ~(m + i <= m) /\ (m + i) - m = i
      BY <3>2, <3>4
    <3>6. (recent \o rest)[m + i] = c
      BY <1>3, <3>2, <3>3, <3>4, <3>5
    <3>7. QED
      BY <2>0, <3>3, <3>4, <3>5, <3>6 DEF ToSet
  <2>3. QED
    BY <2>1, <2>2
<1>5. QED
  BY <1>1, <1>3, <1>4 DEF ReadHabit, rest

\* What the habits are turned into.
LEMMA HabitDataType ==
  ASSUME NEW habit \in Seq(Contact)
  PROVE  /\ HabitData(habit) \in Seq(Contact)
         /\ ToSet(HabitData(habit)) = ToSet(habit) \cap IF search.form = "user" THEN Known ELSE Rooms
BY ThoseProperties DEF HabitData

\* Records of requests and of walks.
Requests == [step : {"idle", "get", "set", "answer"}, page : BOOLEAN,
             habit : Seq(Contact), data : Seq(Contact)]
Walks == [offset : Nat, shown : Seq(Contact), more : BOOLEAN, kept : BOOLEAN,
          fresh : SUBSET Contact, left : BOOLEAN, data : Seq(Contact)]

\* The invariant holds at first.
LEMMA InitInv == Init => IInv
<1> SUFFICES ASSUME Init PROVE IInv
  OBVIOUS
<1> USE DEF Init
<1>1. <<>> \in Seq(Contact) /\ Len(<<>>) = 0 /\ IsInjective(<<>>)
  BY EmptySeq DEF IsInjective
<1>2. 0 \in 0..MaxEvents /\ MaxBuffer \in Nat /\ 0 <= MaxBuffer
  BY PageAssumption
<1>3. walk \in Walks /\ Len(walk.shown) <= walk.offset
  <2>1. NotWalking \in Walks
    BY <1>1 DEF NotWalking, StartedWalk, Walks
  <2>2. NotWalking.shown = <<>> /\ NotWalking.offset = 0
    BY DEF NotWalking, StartedWalk
  <2>3. QED
    BY <1>1, <2>1, <2>2
<1>4. request \in [Request -> Requests]
  BY <1>1 DEF Idle, Requests
<1>5. TypeOK
  BY <1>1, <1>2, <1>3, <1>4, ContactAssumption DEF TypeOK, Walks, Requests
<1>6. Rewriting
  BY <1>1, <1>2 DEF Rewriting
<1>7. TimesDiffer
  BY ContactAssumption, TimesAssumption DEF TimesDiffer
<1>8. JoinedLater
  BY DEF JoinedLater
<1>9. QED
  BY <1>5, <1>6, <1>7, <1>8 DEF IInv

\* A change of the cache leaves the pages shown alone.
LEMMA WalkAfterCache ==
  ASSUME IInv, NEW value, CacheBecomes(value)
  PROVE  walk' \in Walks /\ Len(walk'.shown) <= walk'.offset
<1>1. walk \in Walks /\ Len(walk.shown) <= walk.offset
  BY DEF IInv, TypeOK, Walks
<1>2. PICK k \in BOOLEAN : walk' = [walk EXCEPT !.kept = k]
  <2>1. (walk.kept /\ value = cache) \in BOOLEAN
    OBVIOUS
  <2>2. QED
    BY <2>1 DEF CacheBecomes
<1>3. QED
  BY <1>1, <1>2 DEF Walks

\* What a step of a request does to its own record.
LEMMA ServeTypes ==
  ASSUME IInv, NEW r \in Request, Serve(r)
  PROVE  /\ cache' \in Seq(Contact) \cup {None}
         /\ request' \in [Request -> Requests]
         /\ walk' \in Walks /\ Len(walk'.shown) <= walk'.offset
<1>1. /\ request \in [Request -> Requests] /\ walk \in Walks /\ Len(walk.shown) <= walk.offset
      /\ cache \in Seq(Contact) \cup {None} /\ <<>> \in Seq(Contact)
  BY EmptySeq DEF IInv, TypeOK, Requests, Walks
<1>2. request[r].habit \in Seq(Contact) /\ request[r].data \in Seq(Contact)
  BY <1>1 DEF Requests
<1>3. ASSUME NEW step \in {"set", "answer"}, NEW data \in Seq(Contact), Proceed(r, step, data)
      PROVE  request' \in [Request -> Requests]
  <2>1. [request[r] EXCEPT !.step = step, !.habit = <<>>, !.data = data] \in Requests
    BY <1>1 DEF Requests
  <2>2. request' = [request EXCEPT
          ![r] = [request[r] EXCEPT !.step = step, !.habit = <<>>, !.data = data]]
    BY <1>3 DEF Proceed
  <2>3. QED
    BY <1>1, <2>1, <2>2
<1>4. CASE GetCache(r)
  <2>1. UNCHANGED <<cache, walk>>
    BY <1>4 DEF GetCache
  <2>2. HabitData(request[r].habit) \in Seq(Contact)
    BY <1>2, HabitDataType
  <2>3. PICK step \in {"set", "answer"}, data \in Seq(Contact) : Proceed(r, step, data)
    BY <1>1, <1>4, <2>2 DEF GetCache
  <2>4. QED
    BY <1>1, <1>3, <2>1, <2>3
<1>5. CASE SetCache(r)
  <2>1. CacheBecomes(request[r].data) /\ Proceed(r, "answer", request[r].data)
    BY <1>5 DEF SetCache
  <2>2. cache' \in Seq(Contact)
    BY <1>2, <2>1 DEF CacheBecomes
  <2>3. QED
    BY <1>2, <1>3, <2>1, <2>2, WalkAfterCache
<1>6. CASE Answer(r)
  <2>1. cache' = cache /\ request' = [request EXCEPT ![r] = Idle]
    BY <1>6 DEF Answer
  <2>2. Idle \in Requests
    BY <1>1 DEF Idle, Requests
  <2>3. CASE ~request[r].page
    BY <1>1, <1>6, <2>1, <2>2, <2>3 DEF Answer
  <2>4. CASE request[r].page
    <3> DEFINE page == Page(Matches(request[r].data), walk.offset)
               data == request[r].data
    <3>1. Show(page, data)
      BY <1>6, <2>4 DEF Answer
    <3>2. Matches(data) \in Seq(Contact) /\ walk.offset \in Nat
      BY <1>1, <1>2, SearchIsTyped, MatchesProperties DEF Walks
    <3>3. page.more \in BOOLEAN /\ page.info \in Seq(Contact) /\ Len(page.info) <= Limit
      BY <3>2, SearchIsTyped, PageType DEF IInv
    <3> HIDE DEF page
    <3>5. PICK base \in Walks :
            /\ Len(base.shown) <= base.offset
            /\ walk' = [base EXCEPT !.offset = @ + Limit, !.shown = @ \o page.info, !.more = page.more]
      <4>1. CASE walk.offset = 0
        <5> DEFINE base == [StartedWalk(data) EXCEPT !.kept = data = IF cache = None THEN <<>> ELSE cache]
        <5>1. base \in Walks
          <6>1. (data = IF cache = None THEN <<>> ELSE cache) \in BOOLEAN
            OBVIOUS
          <6>2. QED
            BY <1>1, <1>2, <6>1 DEF StartedWalk, Walks
        <5>2. base.shown = <<>> /\ base.offset = 0
          BY DEF StartedWalk
        <5>3. walk' = [base EXCEPT !.offset = @ + Limit, !.shown = @ \o page.info, !.more = page.more]
          BY <3>1, <4>1 DEF Show
        <5> HIDE DEF base
        <5>4. Len(base.shown) <= base.offset
          BY <5>2, EmptySeq
        <5>5. QED
          BY <5>1, <5>3, <5>4
      <4>2. CASE walk.offset # 0
        BY <1>1, <3>1, <4>2 DEF Show
      <4>3. QED
        BY <4>1, <4>2
    <3>6. base.shown \in Seq(Contact) /\ base.offset \in Nat /\ Limit \in Nat
      BY PageAssumption DEF Walks
    <3>7. /\ base.shown \o page.info \in Seq(Contact)
          /\ Len(base.shown \o page.info) = Len(base.shown) + Len(page.info)
      BY <3>3, <3>6, ConcatProperties
    <3>8. /\ walk' \in Walks /\ walk'.shown = base.shown \o page.info
          /\ walk'.offset = base.offset + Limit
      <4>1. base.offset + Limit \in Nat
        BY <3>6
      <4>2. PICK shown \in Seq(Contact) : shown = base.shown \o page.info
        BY <3>7
      <4>3. PICK more \in BOOLEAN : more = page.more
        BY <3>3
      <4>4. walk' = [base EXCEPT !.offset = base.offset + Limit, !.shown = shown, !.more = more]
        BY <3>5, <4>2, <4>3
      <4>5. QED
        BY <4>1, <4>2, <4>3, <4>4 DEF Walks
    <3>9. Len(walk'.shown) <= walk'.offset
      <4>1. PICK m \in Nat : m = Len(base.shown)
        BY <3>6
      <4>2. PICK n \in Nat : n = Len(page.info)
        BY <3>3
      <4>3. PICK o \in Nat : o = base.offset
        BY <3>6
      <4>4. PICK l \in Nat : l = Limit
        BY <3>6
      <4>5. m <= o /\ n <= l
        BY <3>3, <3>5, <4>1, <4>2, <4>3, <4>4
      <4>6. Len(walk'.shown) = m + n /\ walk'.offset = o + l
        BY <3>7, <3>8, <4>1, <4>2, <4>3, <4>4
      <4>7. QED
        BY <4>5, <4>6
    <3>10. QED
      BY <1>1, <2>1, <2>2, <3>8, <3>9
  <2>5. QED
    BY <2>3, <2>4
<1>7. QED
  BY <1>4, <1>5, <1>6 DEF Serve

\* The recent list and the consumer's hold on it.
Buffers ==
  /\ recent \in Seq(Contact) /\ Len(recent) <= MaxBuffer + 1
  /\ writer \in [step : {"lrange", "lpush", "ltrim"}, held : Seq(Contact)]
  /\ Rewriting

\* The consumer's rewrite of the recent list keeps it free of duplicates
\* and within one more than its buffer.
LEMMA RewritingStep == IInv /\ Next => Buffers'
<1> SUFFICES ASSUME IInv, Next PROVE Buffers'
  OBVIOUS
<1>0. /\ recent \in Seq(Contact) /\ Len(recent) <= MaxBuffer + 1
      /\ writer \in [step : {"lrange", "lpush", "ltrim"}, held : Seq(Contact)]
      /\ Rewriting
  BY DEF IInv, TypeOK
<1>a. PICK max \in Nat \ {0} : max = MaxBuffer
  BY PageAssumption
<1>b. <<>> \in Seq(Contact) /\ Len(<<>>) = 0 /\ IsInjective(<<>>)
  BY EmptySeq DEF IsInjective
<1>1. CASE UNCHANGED consumerVars
  BY <1>0, <1>1 DEF Rewriting, Buffers, consumerVars
<1>2. ASSUME NEW c \in Contact, Talk(c) PROVE Buffers'
  <2>1. /\ writer.step = "lrange" /\ recent' = <<>>
        /\ writer' = [step |-> "lpush", held |-> MoveToFront(recent, c)]
    BY <1>2 DEF Talk
  <2>2. /\ MoveToFront(recent, c) \in Seq(Contact) /\ IsInjective(MoveToFront(recent, c))
        /\ Len(MoveToFront(recent, c)) <= Len(recent) + 1
    BY <1>0, MoveToFrontProperties DEF Rewriting
  <2>3. PICK list \in Seq(Contact) : list = MoveToFront(recent, c)
    BY <2>2
  <2>4. IsInjective(list) /\ Len(list) <= MaxBuffer + 1
    <3>1. PICK n \in Nat : n = Len(recent)
      BY <1>0
    <3>2. PICK m \in Nat : m = Len(list)
      OBVIOUS
    <3>3. n <= max /\ m <= n + 1
      BY <1>0, <1>a, <2>1, <2>2, <2>3, <3>1, <3>2 DEF Rewriting
    <3>4. QED
      BY <1>a, <2>2, <2>3, <3>2, <3>3
  <2>5. writer' = [step |-> "lpush", held |-> list]
    BY <2>1, <2>3
  <2>6. QED
    BY <1>a, <1>b, <2>1, <2>4, <2>5 DEF Rewriting, Buffers
<1>3. CASE Lpush
  <2>1. /\ writer.step = "lpush" /\ recent' = writer.held
        /\ writer' = [step |-> "ltrim", held |-> <<>>]
    BY <1>3 DEF Lpush
  <2>2. PICK list \in Seq(Contact) : list = writer.held /\ IsInjective(list) /\ Len(list) <= MaxBuffer + 1
    BY <1>0 DEF Rewriting
  <2>3. QED
    BY <1>a, <1>b, <2>1, <2>2 DEF Rewriting, Buffers
<1>4. CASE Ltrim
  <2>1. recent' = LTrim(recent, MaxBuffer) /\ writer' = [step |-> "lrange", held |-> <<>>]
    BY <1>4 DEF Ltrim
  <2>2. /\ LTrim(recent, MaxBuffer) \in Seq(Contact)
        /\ Len(LTrim(recent, MaxBuffer)) = IF Len(recent) < MaxBuffer THEN Len(recent) ELSE MaxBuffer
        /\ IsInjective(LTrim(recent, MaxBuffer))
    <3>1. MaxBuffer \in Nat /\ IsInjective(recent)
      BY <1>0, <1>a DEF Rewriting
    <3>2. QED
      BY <1>0, <3>1, LTrimProperties
  <2>3. PICK list \in Seq(Contact) : list = LTrim(recent, MaxBuffer)
    BY <2>2
  <2>4. IsInjective(list) /\ Len(list) <= max
    <3>1. PICK n \in Nat : n = Len(recent)
      BY <1>0
    <3>2. Len(list) = IF n < max THEN n ELSE max
      BY <1>a, <2>2, <2>3, <3>1
    <3>3. QED
      BY <2>2, <2>3, <3>2
  <2>5. QED
    BY <1>a, <1>b, <2>1, <2>3, <2>4 DEF Rewriting, Buffers
<1>5. UNCHANGED consumerVars \/ (\E c \in Contact : Talk(c)) \/ Lpush \/ Ltrim
  BY DEF Next, Join, Leave, Expire, Start, Serve, GetCache, SetCache, Answer
<1>6. QED
  BY <1>1, <1>2, <1>3, <1>4, <1>5

\* Every step keeps the types,
LEMMA TypeStep == IInv /\ [Next]_vars => TypeOK'
<1> SUFFICES ASSUME IInv, [Next]_vars PROVE TypeOK'
  OBVIOUS
<1>0. /\ request \in [Request -> Requests] /\ walk \in Walks /\ Len(walk.shown) <= walk.offset
      /\ cache \in Seq(Contact) \cup {None} /\ search \in Searches
      /\ events \in 0..MaxEvents /\ MaxEvents \in Nat
  BY PageAssumption DEF IInv, TypeOK, Requests, Walks
<1>1. Buffers'
  <2>1. CASE Next
    BY <2>1, RewritingStep
  <2>2. CASE UNCHANGED vars
    BY <2>2 DEF IInv, TypeOK, Buffers, Rewriting, vars, consumerVars
  <2>3. QED
    BY <2>1, <2>2
<1>2. joined' \in [Contact -> Nat]
  BY JoinTimes
<1>3. search' \in Searches
  BY <1>0 DEF Next, vars, roomVars, Talk, Join, Leave, Lpush, Ltrim, Expire, Start, Serve, GetCache,
              SetCache, Answer
<1>4. events' \in 0..MaxEvents
  BY <1>0 DEF Next, vars, Happens, Talk, Join, Leave, Lpush, Ltrim, Expire, Start, Serve, GetCache,
              SetCache, Answer
<1> DEFINE Goal == /\ cache' \in Seq(Contact) \cup {None}
                   /\ request' \in [Request -> Requests]
                   /\ walk' \in Walks /\ Len(walk'.shown) <= walk'.offset
<1>5. ASSUME UNCHANGED <<cache, request, walk>> PROVE Goal
  BY <1>0, <1>5
<1>6. ASSUME NEW r \in Contact, Join(r) \/ Leave(r) PROVE Goal
  <2>1. UNCHANGED <<cache, request>>
    BY <1>6 DEF Join, Leave
  <2>2. walk' = [walk EXCEPT !.fresh = walk.fresh \cup {r}] \/ walk' = [walk EXCEPT !.left = TRUE]
    BY <1>6 DEF Join, Leave
  <2>3. walk' \in Walks /\ Len(walk'.shown) <= walk'.offset
    BY <1>0, <2>2 DEF Walks
  <2>4. QED
    BY <1>0, <2>1, <2>3
<1>7. ASSUME Expire PROVE Goal
  <2>1. CacheBecomes(None) /\ request' = request /\ cache' = None
    BY <1>7 DEF Expire, CacheBecomes
  <2>2. QED
    BY <1>0, <2>1, WalkAfterCache
<1>8. ASSUME NEW r \in Request, NEW page \in BOOLEAN, Start(r, page) PROVE Goal
  <2>1. ReadHabit \in Seq(Contact) /\ <<>> \in Seq(Contact)
    BY ReadHabitType, EmptySeq DEF IInv, TypeOK
  <2>2. [step |-> "get", page |-> page, habit |-> ReadHabit, data |-> <<>>] \in Requests
    BY <2>1 DEF Requests
  <2>3. request' = [request EXCEPT ![r] = [step |-> "get", page |-> page, habit |-> ReadHabit, data |-> <<>>]]
        /\ UNCHANGED <<cache, walk>>
    BY <1>8 DEF Start
  <2>4. QED
    BY <1>0, <2>2, <2>3
<1>9. ASSUME NEW r \in Request, Serve(r) PROVE Goal
  BY <1>9, ServeTypes
<1>10. Goal
  <2>1. \/ UNCHANGED <<cache, request, walk>>
        \/ \E r \in Contact : Join(r) \/ Leave(r)
        \/ Expire
        \/ \E r \in Request : Start(r, TRUE) \/ Start(r, FALSE) \/ Serve(r)
    BY DEF Next, vars, Talk, Lpush, Ltrim
  <2>2. QED
    BY <1>5, <1>6, <1>7, <1>8, <1>9, <2>1
<1>11. QED
  BY <1>1, <1>2, <1>3, <1>4, <1>10 DEF TypeOK, Buffers, Requests, Walks

\* and the invariant.
LEMMA InvStep == IInv /\ [Next]_vars => IInv'
<1> SUFFICES ASSUME IInv, [Next]_vars PROVE IInv'
  OBVIOUS
<1>1. Rewriting'
  <2>1. CASE Next
    BY <2>1, RewritingStep DEF Buffers
  <2>2. CASE UNCHANGED vars
    BY <2>2 DEF IInv, Rewriting, vars, consumerVars
  <2>3. QED
    BY <2>1, <2>2
<1>2. QED
  BY <1>1, TypeStep, JoinTimes DEF IInv

\* The state of the paging keeps its types for all contacts, searches, buffers and limits.
THEOREM PagingTypeCorrect == Spec => []TypeOK
<1>1. IInv => TypeOK
  BY DEF IInv
<1>2. QED
  BY <1>1, InitInv, InvStep, PTL DEF Spec

-----------------------------------------------------------------------------
(* The cached list                                                         *)

\* The frequent contacts that could be found all along.
Lasting == IF search.form = "user" THEN Known ELSE {r \in Rooms : joined[r] = Joined[r]}
Covers(list) == ToSet(Frequent) \cap Lasting \subseteq ToSet(list)

\* What is cached, and what a request is about to look up or to cache, has them.
HabitsCover ==
  /\ cache # None => Covers(cache)
  /\ \A r \in Request :
       /\ request[r].step = "get" => ToSet(Frequent) \subseteq ToSet(request[r].habit)
       /\ request[r].step = "set" => Covers(request[r].data)

\* Nobody who left is counted among them again: a room that is joined later
\* counts from a later time.
LEMMA LastingShrinks ==
  ASSUME IInv, [Next]_vars
  PROVE  search' = search /\ Lasting' \subseteq Lasting
<1>1. search' = search
  BY DEF Next, vars, roomVars, Talk, Join, Leave, Lpush, Ltrim, Expire, Start, Serve, GetCache,
         SetCache, Answer
<1>2. CASE joined' = joined
  BY <1>1, <1>2 DEF Lasting, Rooms
<1>3. ASSUME NEW c \in Contact, Join(c) \/ Leave(c) PROVE Lasting' \subseteq Lasting
  <2>0. joined \in [Contact -> Nat] /\ events \in Nat /\ Joined \in [Contact -> Nat]
    BY ContactAssumption DEF IInv, TypeOK
  <2>1. \A r \in Contact : r # c => joined'[r] = joined[r]
    BY <1>3, <2>0 DEF Join, Leave
  <2>2. joined'[c] # 0 => joined'[c] # Joined[c]
    <3>1. CASE Leave(c)
      BY <2>0, <3>1 DEF Leave
    <3>2. CASE Join(c)
      <4>1. PICK j \in Nat : j = LastJoin /\ Joined[c] <= j
        BY LastJoinIs
      <4>2. joined'[c] = j + events' /\ events' = events + 1
        BY <2>0, <3>2, <4>1 DEF Join, Happens
      <4>3. PICK t \in Nat : t = Joined[c]
        BY <2>0
      <4>4. PICK e \in Nat : e = events
        BY <2>0
      <4>5. t # j + (e + 1)
        BY <4>1, <4>3
      <4>6. QED
        BY <4>2, <4>3, <4>4, <4>5
    <3>3. QED
      BY <1>3, <3>1, <3>2
  <2>3. QED
    BY <1>1, <2>1, <2>2 DEF Lasting, Rooms
<1>4. joined' = joined \/ \E c \in Contact : Join(c) \/ Leave(c)
  BY DEF Next, vars, Talk, Lpush, Ltrim, Expire, Start, Serve, GetCache, SetCache, Answer, roomVars
<1>5. QED
  BY <1>1, <1>2, <1>3, <1>4

\* A request that proceeds changes nothing but its own record.
LEMMA ProceedIs ==
  ASSUME request \in [Request -> Requests], NEW q \in Request, NEW step, NEW data, Proceed(q, step, data)
  PROVE  /\ \A r \in Request : r # q => request'[r] = request[r]
         /\ request'[q].step = step /\ request'[q].data = data /\ request'[q].page = request[q].page
<1>1. request' = [request EXCEPT
        ![q] = [request[q] EXCEPT !.step = step, !.habit = <<>>, !.data = data]]
  BY DEF Proceed
<1>2. /\ \A r \in Request : r # q => request'[r] = request[r]
      /\ request'[q] = [request[q] EXCEPT !.step = step, !.habit = <<>>, !.data = data]
  BY <1>1
<1>3. request[q] \in Requests
  OBVIOUS
<1>4. QED
  BY <1>2, <1>3 DEF Requests

\* No request has read anything at first.
LEMMA InitCover == Init => HabitsCover
BY DEF Init, HabitsCover, Idle

\* Whoever reads the habits reads every frequent contact, and keeps it on the
\* way to the cache.
LEMMA CoverStep == IInv /\ HabitsCover /\ [Next]_vars => HabitsCover'
<1> SUFFICES ASSUME IInv, HabitsCover, [Next]_vars PROVE HabitsCover'
  OBVIOUS
<1>0. search' = search /\ Lasting' \subseteq Lasting
  BY LastingShrinks
<1>1. ASSUME NEW list, Covers(list) PROVE ToSet(Frequent) \cap Lasting' \subseteq ToSet(list)
  BY <1>0, <1>1 DEF Covers
<1>2. request \in [Request -> Requests]
  BY DEF IInv, TypeOK, Requests
<1>3. ASSUME cache' = cache \/ cache' = None, request' = request PROVE HabitsCover'
  BY <1>1, <1>3 DEF HabitsCover, Covers
<1>4. ASSUME NEW q \in Request, NEW page \in BOOLEAN, Start(q, page) PROVE HabitsCover'
  <2>1. /\ request' = [request EXCEPT ![q] = [step |-> "get", page |-> page, habit |-> ReadHabit, data |-> <<>>]]
        /\ cache' = cache
    BY <1>4 DEF Start
  <2>2. ToSet(Frequent) \subseteq ToSet(ReadHabit)
    BY ReadHabitType DEF IInv, TypeOK
  <2>3. cache' # None => Covers(cache)'
    BY <1>1, <2>1 DEF HabitsCover, Covers
  <2>4. ASSUME NEW r \in Request
        PROVE  /\ request'[r].step = "get" => ToSet(Frequent) \subseteq ToSet(request'[r].habit)
               /\ request'[r].step = "set" => Covers(request[r].data)'
    <3>1. CASE r = q
      <4>1. request'[r] = [step |-> "get", page |-> page, habit |-> ReadHabit, data |-> <<>>]
        BY <1>2, <2>1, <3>1
      <4>2. QED
        BY <2>2, <4>1
    <3>2. CASE r # q
      <4>1. request'[r] = request[r]
        BY <1>2, <2>1, <3>2
      <4>2. QED
        BY <1>1, <4>1 DEF HabitsCover, Covers
    <3>3. QED
      BY <3>1, <3>2
  <2>5. QED
    BY <2>3, <2>4 DEF HabitsCover
<1>5. ASSUME NEW q \in Request, GetCache(q) PROVE HabitsCover'
  <2>1. cache' = cache /\ request[q].step = "get"
    BY <1>5 DEF GetCache
  <2>2. request[q].habit \in Seq(Contact)
    BY <1>2 DEF Requests
  <2>3. Covers(HabitData(request[q].habit))
    <3>1. ToSet(Frequent) \subseteq ToSet(request[q].habit)
      BY <2>1 DEF HabitsCover
    <3>2. QED
      BY <2>2, <3>1, HabitDataType DEF Covers, Lasting
  <2>4. /\ \A r \in Request : r # q => request'[r] = request[r]
        /\ request'[q].step \in {"answer", "set"}
        /\ request'[q].step = "set" => request'[q].data = HabitData(request[q].habit)
    <3>1. \E step \in {"answer", "set"} : \E data :
            /\ Proceed(q, step, data)
            /\ step = "set" => data = HabitData(request[q].habit)
      BY <1>5 DEF GetCache
    <3>2. QED
      BY <1>2, <3>1, ProceedIs
  <2>5. cache' # None => Covers(cache)'
    BY <1>1, <2>1 DEF HabitsCover, Covers
  <2>6. ASSUME NEW r \in Request
        PROVE  /\ request'[r].step = "get" => ToSet(Frequent) \subseteq ToSet(request'[r].habit)
               /\ request'[r].step = "set" => Covers(request[r].data)'
    <3>1. CASE r = q
      BY <1>1, <2>3, <2>4, <3>1 DEF Covers
    <3>2. CASE r # q
      BY <1>1, <2>4, <3>2 DEF HabitsCover, Covers
    <3>3. QED
      BY <3>1, <3>2
  <2>7. QED
    BY <2>5, <2>6 DEF HabitsCover
<1>6. ASSUME NEW q \in Request, SetCache(q) PROVE HabitsCover'
  <2>1. cache' = request[q].data /\ request[q].step = "set" /\ Covers(request[q].data)
    BY <1>6 DEF SetCache, CacheBecomes, HabitsCover
  <2>2. /\ \A r \in Request : r # q => request'[r] = request[r]
        /\ request'[q].step = "answer"
    BY <1>2, <1>6, ProceedIs DEF SetCache
  <2>3. Covers(cache)'
    BY <1>1, <2>1 DEF Covers
  <2>4. ASSUME NEW r \in Request
        PROVE  /\ request'[r].step = "get" => ToSet(Frequent) \subseteq ToSet(request'[r].habit)
               /\ request'[r].step = "set" => Covers(request[r].data)'
    <3>1. CASE r = q
      BY <2>2, <3>1
    <3>2. CASE r # q
      BY <1>1, <2>2, <3>2 DEF HabitsCover, Covers
    <3>3. QED
      BY <3>1, <3>2
  <2>5. QED
    BY <2>3, <2>4 DEF HabitsCover
<1>7. ASSUME NEW q \in Request, Answer(q) PROVE HabitsCover'
  <2>1. cache' = cache /\ request' = [request EXCEPT ![q] = Idle]
    BY <1>7 DEF Answer
  <2>2. /\ \A r \in Request : r # q => request'[r] = request[r]
        /\ request'[q].step = "idle"
    BY <1>2, <2>1 DEF Idle
  <2>3. cache' # None => Covers(cache)'
    BY <1>1, <2>1 DEF HabitsCover, Covers
  <2>4. ASSUME NEW r \in Request
        PROVE  /\ request'[r].step = "get" => ToSet(Frequent) \subseteq ToSet(request'[r].habit)
               /\ request'[r].step = "set" => Covers(request[r].data)'
    <3>1. CASE r = q
      BY <2>2, <3>1
    <3>2. CASE r # q
      BY <1>1, <2>2, <3>2 DEF HabitsCover, Covers
    <3>3. QED
      BY <3>1, <3>2
  <2>5. QED
    BY <2>3, <2>4 DEF HabitsCover
<1>8. \/ (cache' = cache \/ cache' = None) /\ request' = request
      \/ \E q \in Request : Start(q, TRUE) \/ Start(q, FALSE) \/ Serve(q)
  BY DEF Next, vars, Talk, Join, Leave, Lpush, Ltrim, Expire, CacheBecomes
<1>9. QED
  BY <1>3, <1>4, <1>5, <1>6, <1>7, <1>8 DEF Serve

\* Whatever moment a request reads the habits at, the list it caches has every
\* frequent contact that could be found all along.
THEOREM CacheServesEveryKey == Spec => []CacheCoversFrequent
<1>1. IInv /\ HabitsCover => CacheCoversFrequent
  <2> SUFFICES ASSUME IInv, HabitsCover, cache # None,
                      NEW c \in ToSet(Frequent) \cap Lasting
               PROVE  Contains(cache, c)
    BY DEF CacheCoversFrequent, Lasting
  <2>1. cache \in Seq(Contact)
    BY DEF IInv, TypeOK
  <2>2. c \in ToSet(cache)
    BY DEF HabitsCover, Covers
  <2>3. QED
    BY <2>1, <2>2, LenProperties DEF ToSet, Contains
<1>2. Init => HabitsCover
  BY InitCover
<1>3. QED
  BY <1>1, <1>2, InitInv, InvStep, CoverStep, PTL DEF Spec

-----------------------------------------------------------------------------
(* The walk                                                                *)

\* The habits that are cached.
Cached == IF cache = None THEN <<>> ELSE cache

\* The walk counts as undisturbed only while the habits its first page showed
\* are the cached ones, and the page under way has them too.
Followed ==
  /\ walk.kept => walk.offset > 0 /\ walk.data = Cached
  /\ \A r \in Request : request[r].page =>
       /\ walk.more
       /\ walk.kept /\ request[r].step = "answer" => request[r].data = walk.data
  /\ \A q, r \in Request : request[q].page /\ request[r].page => q = r

\* No page is under way at first.
LEMMA InitFollowed == Init => Followed
BY DEF Init, Followed, Idle, NotWalking, StartedWalk

\* What a page that is shown does to the walk.
LEMMA ShowIs ==
  ASSUME IInv, NEW page, NEW data \in Seq(Contact), Show(page, data)
  PROVE  /\ walk'.offset = walk.offset + Limit
         /\ walk'.more = page.more
         /\ walk'.shown = (IF walk.offset = 0 THEN <<>> ELSE walk.shown) \o page.info
         /\ walk.offset = 0 => /\ walk'.kept = (data = Cached) /\ walk'.data = data
                               /\ walk'.fresh = {} /\ walk'.left = FALSE
         /\ walk.offset # 0 => /\ walk'.kept = walk.kept /\ walk'.data = walk.data
                               /\ walk'.fresh = walk.fresh /\ walk'.left = walk.left
<1>1. walk \in Walks
  BY DEF IInv, TypeOK, Walks
<1>2. CASE walk.offset = 0
  <2>1. walk' = [[StartedWalk(data) EXCEPT !.kept = data = IF cache = None THEN <<>> ELSE cache]
                   EXCEPT !.offset = @ + Limit, !.shown = @ \o page.info, !.more = page.more]
    BY <1>2 DEF Show
  <2>2. QED
    BY <1>2, <2>1 DEF StartedWalk, Cached
<1>3. CASE walk.offset # 0
  <2>1. walk' = [walk EXCEPT !.offset = @ + Limit, !.shown = @ \o page.info, !.more = page.more]
    BY <1>3 DEF Show
  <2>2. QED
    BY <1>1, <1>3, <2>1 DEF Walks
<1>4. QED
  BY <1>2, <1>3

\* What a change of the cache does to the walk.
LEMMA CacheBecomesIs ==
  ASSUME IInv, NEW value, CacheBecomes(value)
  PROVE  /\ cache' = value
         /\ walk'.kept <=> walk.kept /\ value = cache
         /\ walk'.offset = walk.offset /\ walk'.shown = walk.shown /\ walk'.more = walk.more
         /\ walk'.fresh = walk.fresh /\ walk'.left = walk.left /\ walk'.data = walk.data
<1>1. walk \in Walks
  BY DEF IInv, TypeOK, Walks
<1>2. walk' = [walk EXCEPT !.kept = walk.kept /\ value = cache]
  BY DEF CacheBecomes
<1>3. QED
  BY <1>1, <1>2 DEF CacheBecomes, Walks

\* Every step keeps the walk on its cached list, or ends that.
LEMMA FollowedStep == IInv /\ Followed /\ [Next]_vars => Followed'
<1> SUFFICES ASSUME IInv, Followed, [Next]_vars PROVE Followed'
  OBVIOUS
<1>0. /\ request \in [Request -> Requests] /\ walk \in Walks
      /\ cache \in Seq(Contact) \cup {None} /\ None \notin Seq(Contact) /\ <<>> \in Seq(Contact)
  BY NoneAssumption, EmptySeq DEF IInv, TypeOK, Requests, Walks
<1>1. ASSUME cache' = cache, request' = request, walk'.kept = walk.kept, walk'.offset = walk.offset,
             walk'.more = walk.more, walk'.data = walk.data
      PROVE  Followed'
  BY <1>1 DEF Followed, Cached
<1>2. ASSUME NEW r \in Contact, Join(r) \/ Leave(r) PROVE Followed'
  <2>1. walk' = [walk EXCEPT !.fresh = walk.fresh \cup {r}] \/ walk' = [walk EXCEPT !.left = TRUE]
    BY <1>2 DEF Join, Leave
  <2>2. UNCHANGED <<cache, request>>
    BY <1>2 DEF Join, Leave
  <2>3. QED
    BY <1>0, <1>1, <2>1, <2>2 DEF Walks
<1>3. ASSUME Expire PROVE Followed'
  <2>1. CacheBecomes(None) /\ cache # None /\ request' = request
    BY <1>3 DEF Expire
  <2>2. ~walk'.kept /\ walk'.more = walk.more
    BY <2>1, CacheBecomesIs
  <2>3. QED
    BY <2>1, <2>2 DEF Followed
<1>4. ASSUME NEW q \in Request, NEW page \in BOOLEAN, Start(q, page) PROVE Followed'
  <2>1. /\ page => walk.more /\ \A r \in Request : ~request[r].page
        /\ request' = [request EXCEPT ![q] = [step |-> "get", page |-> page, habit |-> ReadHabit, data |-> <<>>]]
        /\ UNCHANGED <<cache, walk>>
    BY <1>4 DEF Start
  <2>2. /\ \A r \in Request : r # q => request'[r] = request[r]
        /\ request'[q].step = "get" /\ request'[q].page = page
    BY <1>0, <2>1
  <2>3. QED
    BY <2>1, <2>2 DEF Followed, Cached
<1>5. ASSUME NEW q \in Request, GetCache(q) PROVE Followed'
  <2>0. /\ UNCHANGED <<cache, walk>> /\ request[q].step = "get" /\ request[q].habit \in Seq(Contact)
    BY <1>0, <1>5 DEF GetCache, Requests
  <2>1. \E step : \E data :
          /\ Proceed(q, step, data)
          /\ step = "answer" => data = Cached
    <3>1. CASE cache # None
      BY <1>5, <3>1 DEF GetCache, Cached
    <3>2. CASE cache = None /\ request[q].habit # <<>>
      BY <1>5, <3>2 DEF GetCache
    <3>3. CASE cache = None /\ request[q].habit = <<>>
      <4>1. HabitData(<<>>) \in Seq(Contact) /\ ToSet(HabitData(<<>>)) = {}
        <5>1. ToSet(<<>>) = {}
          BY <1>0, EmptySeq, LenProperties DEF ToSet
        <5>2. QED
          BY <1>0, <5>1, HabitDataType
      <4>2. HabitData(<<>>) = <<>>
        <5>1. \A i \in 1..Len(HabitData(<<>>)) : HabitData(<<>>)[i] \in ToSet(HabitData(<<>>))
          BY <4>1, LenProperties DEF ToSet
        <5>2. Len(HabitData(<<>>)) = 0
          <6>1. PICK n \in Nat : n = Len(HabitData(<<>>))
            BY <4>1
          <6>2. n > 0 => 1 \in 1..n
            OBVIOUS
          <6>3. QED
            BY <4>1, <5>1, <6>1, <6>2
        <5>3. QED
          BY <4>1, <5>2, EmptySeq
      <4>3. Proceed(q, "answer", HabitData(<<>>))
        BY <1>5, <3>3 DEF GetCache
      <4>4. QED
        BY <3>3, <4>2, <4>3 DEF Cached
    <3>4. QED
      BY <3>1, <3>2, <3>3
  <2>2. PICK step, data : Proceed(q, step, data) /\ (step = "answer" => data = Cached)
    BY <2>1
  <2>3. /\ \A r \in Request : r # q => request'[r] = request[r]
        /\ request'[q].step = step /\ request'[q].data = data /\ request'[q].page = request[q].page
    BY <1>0, <2>2, ProceedIs
  <2>4. \A r \in Request : request'[r].page <=> request[r].page
    BY <2>3
  <2>5. ASSUME NEW r \in Request, request'[r].page, walk.kept, request'[r].step = "answer"
        PROVE  request'[r].data = walk.data
    <3>1. walk.data = Cached
      BY <2>5 DEF Followed
    <3>2. CASE r = q
      BY <2>2, <2>3, <2>5, <3>1, <3>2
    <3>3. CASE r # q
      BY <2>3, <2>5, <3>3 DEF Followed
    <3>4. QED
      BY <3>2, <3>3
  <2>6. QED
    BY <2>0, <2>4, <2>5 DEF Followed, Cached
<1>6. ASSUME NEW q \in Request, SetCache(q) PROVE Followed'
  <2>1. CacheBecomes(request[q].data) /\ Proceed(q, "answer", request[q].data)
    BY <1>6 DEF SetCache
  <2>2. request[q].data \in Seq(Contact)
    BY <1>0 DEF Requests
  <2>3. /\ cache' = request[q].data /\ (walk'.kept <=> walk.kept /\ request[q].data = cache)
        /\ walk'.offset = walk.offset /\ walk'.more = walk.more /\ walk'.data = walk.data
    BY <2>1, CacheBecomesIs
  <2>4. /\ \A r \in Request : r # q => request'[r] = request[r]
        /\ request'[q].step = "answer" /\ request'[q].data = request[q].data
        /\ request'[q].page = request[q].page
    BY <1>0, <2>1, ProceedIs
  <2>5. walk'.kept => walk.kept /\ cache' = cache /\ cache # None /\ walk.data = cache
    BY <1>0, <2>2, <2>3 DEF Followed, Cached
  <2>6. \A r \in Request : request'[r].page <=> request[r].page
    BY <2>4
  <2>7. ASSUME NEW r \in Request, request'[r].page, walk'.kept, request'[r].step = "answer"
        PROVE  request'[r].data = walk.data
    <3>1. CASE r = q
      BY <2>3, <2>4, <2>5, <2>7, <3>1
    <3>2. CASE r # q
      BY <2>4, <2>5, <2>7, <3>2 DEF Followed
    <3>3. QED
      BY <3>1, <3>2
  <2>8. walk'.kept => walk'.offset > 0 /\ walk'.data = Cached'
    BY <2>3, <2>5 DEF Followed, Cached
  <2>9. QED
    BY <2>3, <2>6, <2>7, <2>8 DEF Followed
<1>7. ASSUME NEW q \in Request, Answer(q) PROVE Followed'
  <2>1. cache' = cache /\ request' = [request EXCEPT ![q] = Idle]
    BY <1>7 DEF Answer
  <2>2. /\ \A r \in Request : r # q => request'[r] = request[r]
        /\ ~request'[q].page
    BY <1>0, <2>1 DEF Idle
  <2>3. CASE ~request[q].page
    <3>1. walk' = walk
      BY <1>7, <2>3 DEF Answer
    <3>2. QED
      BY <2>1, <2>2, <3>1 DEF Followed, Cached
  <2>4. CASE request[q].page
    <3>1. PICK page : Show(page, request[q].data)
      BY <1>7, <2>4 DEF Answer
    <3>2. \A r \in Request : ~request'[r].page
      BY <2>2, <2>4 DEF Followed
    <3>3. walk'.kept => walk'.data = Cached
      BY <1>0, <3>1, ShowIs DEF Followed, Requests
    <3>4. walk'.offset > 0
      <4>1. walk'.offset = walk.offset + Limit
        BY <1>0, <3>1, ShowIs DEF Requests
      <4>2. walk.offset \in Nat
        BY <1>0 DEF Walks
      <4>3. QED
        BY <4>1, <4>2, PageAssumption
    <3>5. QED
      BY <2>1, <3>2, <3>3, <3>4 DEF Followed, Cached
  <2>5. QED
    BY <2>3, <2>4
<1>8. \/ UNCHANGED <<cache, request, walk>>
      \/ (\E r \in Contact : Join(r) \/ Leave(r))
      \/ Expire
      \/ \E q \in Request : Start(q, TRUE) \/ Start(q, FALSE) \/ Serve(q)
  BY DEF Next, vars, Talk, Lpush, Ltrim
<1>9. QED
  BY <1>1, <1>2, <1>3, <1>4, <1>5, <1>6, <1>7, <1>8 DEF Serve

-----------------------------------------------------------------------------
(* The pages are pieces of the whole answer                                *)

\* The pages so far are the whole answer up to their offset, or all of it.
Tiled ==
  Undisturbed =>
    IF walk.more THEN walk.offset < Len(Whole) /\ walk.shown = Slice(Whole, 0, walk.offset)
    ELSE walk.shown = Whole

\* The whole answer is a list.
LEMMA WholeIs ==
  ASSUME TimesDiffer, search \in SearchType, Exact, NEW data \in Seq(Contact)
  PROVE  /\ Matches(data) \in Seq(Contact) /\ IsInjective(Matches(data))
         /\ WholeOf(Matches(data)) \in Seq(Contact)
<1>1. Matches(data) \in Seq(Contact) /\ IsInjective(Matches(data))
  BY MatchesProperties
<1>2. Rows(ToSet(Matches(data))) \in Seq(Contact)
  BY RowsProperties
<1>3. QED
  BY <1>1, <1>2, ConcatProperties DEF WholeOf

\* Nothing but a page that is answered and a room that is joined or left
\* changes the whole answer or what was shown of it.
Still ==
  /\ search' = search /\ joined' = joined
  /\ walk'.offset = walk.offset /\ walk'.shown = walk.shown /\ walk'.more = walk.more
  /\ walk'.data = walk.data /\ walk'.fresh = walk.fresh /\ walk'.left = walk.left
  /\ walk'.kept => walk.kept

\* A step does nothing to the walk, or is one of these three.
LEMMA StillOr ==
  ASSUME IInv, [Next]_vars
  PROVE  \/ Still
         \/ \E c \in Contact : Join(c) \/ Leave(c)
         \/ \E r \in Request : Answer(r) /\ request[r].page
<1>1. ASSUME UNCHANGED <<search, joined, walk>> PROVE Still
  BY <1>1 DEF Still
<1>2. ASSUME NEW value, CacheBecomes(value), UNCHANGED <<search, joined>> PROVE Still
  BY <1>2, CacheBecomesIs DEF Still
<1>3. CASE Expire
  BY <1>2, <1>3 DEF Expire, roomVars
<1>4. ASSUME NEW r \in Request, SetCache(r) PROVE Still
  BY <1>2, <1>4 DEF SetCache, roomVars
<1>5. ASSUME NEW r \in Request, Answer(r), ~request[r].page PROVE Still
  BY <1>1, <1>5 DEF Answer, roomVars
<1>6. \/ UNCHANGED <<search, joined, walk>>
      \/ (\E c \in Contact : Join(c) \/ Leave(c))
      \/ Expire
      \/ \E r \in Request : SetCache(r) \/ Answer(r)
  BY DEF Next, vars, Talk, Lpush, Ltrim, Start, Serve, GetCache, roomVars
<1>7. QED
  BY <1>1, <1>3, <1>4, <1>5, <1>6

\* The whole answer depends on the key, the rooms joined and the habits alone.
LEMMA WholeKept ==
  ASSUME search' = search, joined' = joined
  PROVE  /\ Exact' <=> Exact
         /\ \A data : WholeOf(Matches(data))' = WholeOf(Matches(data))
         /\ walk'.data = walk.data => Whole' = Whole
<1>1. Exact' <=> Exact
  BY DEF Exact
<1>2. \A data : WholeOf(Matches(data))' = WholeOf(Matches(data))
  BY DEF WholeOf, Matches, Rows, UserRows, RoomRows, NewestFirst, CountsFrom, Rooms
<1>3. walk'.data = walk.data => Whole' = Whole
  BY DEF Whole, Matches, Rows, UserRows, RoomRows, NewestFirst, CountsFrom, Rooms
<1>4. QED
  BY <1>1, <1>2, <1>3

\* The answer to the next page, when it is a piece of the whole answer.
LEMMA AnswerIs ==
  ASSUME IfAsync, IInv, Followed, NEW r \in Request, Answer(r), request[r].page
  PROVE  /\ search' = search /\ joined' = joined
         /\ walk.more
         /\ walk'.offset = walk.offset + Limit
         /\ walk.offset = 0 => walk'.fresh = {} /\ ~walk'.left
         /\ walk.offset # 0 => /\ walk'.kept = walk.kept /\ walk'.data = walk.data
                               /\ walk'.fresh = walk.fresh /\ walk'.left = walk.left
         /\ walk'.kept /\ Exact =>
              /\ Whole \in Seq(Contact) \/ walk.offset = 0
              /\ Whole' \in Seq(Contact)
              /\ walk.offset # 0 => Whole' = Whole
              /\ walk'.more = (Len(Whole') > walk.offset + Limit)
              /\ walk'.shown = (IF walk.offset = 0 THEN <<>> ELSE walk.shown)
                                 \o Slice(Whole', walk.offset, Limit)
<1>a. PICK data : data = request[r].data
  OBVIOUS
<1> DEFINE page == Page(Matches(data), walk.offset)
<1>0. /\ request \in [Request -> Requests] /\ walk \in Walks /\ search \in SearchType /\ TimesDiffer
  BY SearchIsTyped DEF IInv, TypeOK, Requests, Walks
<1>1. data \in Seq(Contact) /\ walk.offset \in Nat /\ request[r].step = "answer"
  BY <1>0, <1>a DEF Requests, Walks, Answer
<1>2. UNCHANGED <<search, joined>> /\ Show(page, data)
  BY <1>a DEF Answer, roomVars
<1>3. walk.more
  BY DEF Followed
<1> HIDE DEF page
<1>4. /\ walk'.offset = walk.offset + Limit
      /\ walk'.more = page.more
      /\ walk'.shown = (IF walk.offset = 0 THEN <<>> ELSE walk.shown) \o page.info
      /\ walk.offset = 0 => /\ walk'.kept = (data = Cached) /\ walk'.data = data
                            /\ walk'.fresh = {} /\ walk'.left = FALSE
      /\ walk.offset # 0 => /\ walk'.kept = walk.kept /\ walk'.data = walk.data
                            /\ walk'.fresh = walk.fresh /\ walk'.left = walk.left
  BY <1>1, <1>2, ShowIs
<1>5. ASSUME walk'.kept, Exact
      PROVE  /\ Whole \in Seq(Contact) \/ walk.offset = 0
             /\ Whole' \in Seq(Contact)
             /\ walk.offset # 0 => Whole' = Whole
             /\ page.more = (Len(Whole') > walk.offset + Limit)
             /\ page.info = Slice(Whole', walk.offset, Limit)
  <2>1. walk'.data = data
    BY <1>a, <1>1, <1>4, <1>5 DEF Followed
  <2>2. Whole' = WholeOf(Matches(data))
    <3>1. Whole' = WholeOf(Matches(data))'
      BY <1>2, <2>1 DEF Whole, WholeOf, Matches, Rows, UserRows, RoomRows, NewestFirst, CountsFrom, Rooms
    <3>2. QED
      BY <1>2, <3>1, WholeKept
  <2>3. Matches(data) \in Seq(Contact) /\ IsInjective(Matches(data)) /\ WholeOf(Matches(data)) \in Seq(Contact)
    BY <1>0, <1>1, <1>5, WholeIs
  <2>4. page = [more |-> Len(WholeOf(Matches(data))) > walk.offset + Limit,
                info |-> Slice(WholeOf(Matches(data)), walk.offset, Limit)]
    BY <1>0, <1>1, <1>5, <2>3, PageIs DEF page
  <2>5. walk.offset # 0 => Whole' = Whole
    BY <1>2, <1>4, WholeKept
  <2>6. QED
    BY <2>2, <2>3, <2>4, <2>5
<1>6. QED
  BY <1>2, <1>3, <1>4, <1>5

\* Nothing was shown at first.
LEMMA InitTiled == Init => Tiled
BY DEF Init, Tiled, Undisturbed, NotWalking, StartedWalk

\* Every page continues the pages before it.
LEMMA TiledStep == IfAsync /\ IInv /\ Followed /\ Tiled /\ [Next]_vars => Tiled'
<1> SUFFICES ASSUME IfAsync, IInv, Followed, Tiled, [Next]_vars PROVE Tiled'
  OBVIOUS
<1>1. CASE Still
  <2>1. Undisturbed' => Undisturbed
    BY <1>1, WholeKept DEF Still, Undisturbed
  <2>2. Whole' = Whole
    BY <1>1, WholeKept DEF Still
  <2>3. QED
    BY <1>1, <2>1, <2>2 DEF Still, Tiled
<1>2. ASSUME NEW c \in Contact, Join(c) \/ Leave(c) PROVE Tiled'
  <2>1. walk' = [walk EXCEPT !.fresh = walk.fresh \cup {c}] \/ walk' = [walk EXCEPT !.left = TRUE]
    BY <1>2 DEF Join, Leave
  <2>2. walk \in Walks
    BY DEF IInv, TypeOK, Walks
  <2>3. c \in walk'.fresh \/ walk'.left
    BY <2>1, <2>2 DEF Walks
  <2>4. QED
    BY <2>3 DEF Tiled, Undisturbed
<1>3. ASSUME NEW r \in Request, Answer(r), request[r].page PROVE Tiled'
  <2> SUFFICES ASSUME Undisturbed'
               PROVE  IF walk'.more
                      THEN walk'.offset < Len(Whole') /\ walk'.shown = Slice(Whole', 0, walk'.offset)
                      ELSE walk'.shown = Whole'
    BY DEF Tiled
  <2>1. /\ search' = search /\ joined' = joined /\ walk.more /\ walk'.offset = walk.offset + Limit
        /\ walk.offset # 0 => /\ walk'.kept = walk.kept /\ walk'.data = walk.data
                              /\ walk'.fresh = walk.fresh /\ walk'.left = walk.left
    BY <1>3, AnswerIs
  <2>2. walk'.kept /\ Exact
    BY <2>1, WholeKept DEF Undisturbed
  <2>3. /\ Whole' \in Seq(Contact)
        /\ walk.offset # 0 => Whole' = Whole
        /\ walk'.more = (Len(Whole') > walk.offset + Limit)
        /\ walk'.shown = (IF walk.offset = 0 THEN <<>> ELSE walk.shown) \o Slice(Whole', walk.offset, Limit)
    BY <1>3, <2>2, AnswerIs
  <2>4. PICK w \in Seq(Contact) : w = Whole'
    BY <2>3
  <2>5. PICK o \in Nat : o = walk.offset
    BY DEF IInv, TypeOK
  <2>6. PICK l \in Nat : l = Limit
    BY PageAssumption
  <2>7. o <= Len(w) /\ (IF o = 0 THEN <<>> ELSE walk.shown) = Slice(w, 0, o)
    <3>1. CASE o = 0
      BY <3>1, SliceNothing
    <3>2. CASE o # 0
      <4>1. Undisturbed
        BY <2>1, <2>2, <2>5, <3>2 DEF Undisturbed
      <4>2. walk.offset < Len(Whole) /\ walk.shown = Slice(Whole, 0, walk.offset)
        BY <2>1, <4>1 DEF Tiled
      <4>3. QED
        BY <2>3, <2>4, <2>5, <3>2, <4>2
    <3>3. QED
      BY <3>1, <3>2
  <2>8. walk'.shown = Slice(w, 0, o + l)
    <3>1. Slice(w, 0, o) \o Slice(w, o, l) = Slice(w, 0, o + l)
      BY <2>7, SliceTiles
    <3>2. QED
      BY <2>3, <2>4, <2>5, <2>6, <2>7, <3>1
  <2>9. walk'.more = (Len(w) > o + l) /\ walk'.offset = o + l
    BY <2>1, <2>3, <2>4, <2>5, <2>6
  <2>10. ~(Len(w) > o + l) => Slice(w, 0, o + l) = w
    <3>1. o + l \in Nat
      OBVIOUS
    <3>2. QED
      BY <3>1, SliceAll
  <2>11. QED
    BY <2>4, <2>8, <2>9, <2>10
<1>4. QED
  BY <1>1, <1>2, <1>3, StillOr

\* What an inductive step keeps, together.
LEMMA WalkInvariant ==
  ASSUME IfAsync
  PROVE  Spec => [](IInv /\ Followed /\ Tiled)
<1>1. Init => IInv /\ Followed /\ Tiled
  BY InitInv, InitFollowed, InitTiled
<1>2. IInv /\ Followed /\ Tiled /\ [Next]_vars => IInv' /\ Followed' /\ Tiled'
  BY InvStep, FollowedStep, TiledStep
<1>3. QED
  BY <1>1, <1>2, PTL DEF Spec

\* The whole answer to the walk is a list.
LEMMA WholeType == IInv /\ Exact => Whole \in Seq(Contact)
<1> SUFFICES ASSUME IInv, Exact PROVE Whole \in Seq(Contact)
  OBVIOUS
<1>1. walk.data \in Seq(Contact) /\ search \in SearchType /\ TimesDiffer
  BY SearchIsTyped DEF IInv, TypeOK
<1>2. WholeOf(Matches(walk.data)) \in Seq(Contact)
  BY <1>1, WholeIs
<1>3. QED
  BY <1>2 DEF Whole, WholeOf

\* With the asynchronous library the pages of an undisturbed walk are
\* consecutive pieces of the whole answer (search_user, make_common_sql).
THEOREM PagesAreConsecutive ==
  ASSUME IfAsync
  PROVE  Spec => []PagesTile
<1>1. IInv /\ Tiled => PagesTile
  <2> SUFFICES ASSUME IInv, Tiled, Undisturbed PROVE IsPrefix(walk.shown, Whole)
    BY DEF PagesTile
  <2>1. PICK w \in Seq(Contact) : w = Whole
    BY WholeType DEF Undisturbed
  <2>2. PICK o \in Nat : o = walk.offset
    BY DEF IInv, TypeOK
  <2>3. CASE walk.more
    <3>1. o < Len(w) /\ walk.shown = Slice(w, 0, o)
      BY <2>1, <2>2, <2>3 DEF Tiled
    <3>2. IsSlice(Contact, Slice(w, 0, o), w, 0, o)
      BY SliceProperties
    <3>3. PICK s \in Seq(Contact) : s = walk.shown /\ Len(s) = o /\ \A i \in 1..o : s[i] = w[i]
      BY <3>1, <3>2 DEF IsSlice
    <3>4. SubSeq(s, 1, o) = SubSeq(w, 1, o)
      BY <3>1, <3>3
    <3>5. QED
      BY <2>1, <3>1, <3>3, <3>4 DEF IsPrefix
  <2>4. CASE ~walk.more
    <3>1. walk.shown = w
      BY <2>1, <2>4 DEF Tiled
    <3>2. QED
      BY <2>1, <3>1 DEF IsPrefix
  <2>5. QED
    BY <2>3, <2>4
<1>2. QED
  BY <1>1, WalkInvariant, PTL

\* With the asynchronous library hasMore of an undisturbed walk is right: every
\* page but the last is full, and the last one ends the whole answer.
THEOREM HasMoreTellsEnd ==
  ASSUME IfAsync
  PROVE  Spec => []HasMoreIsRight
<1>1. IInv /\ Tiled => HasMoreIsRight
  <2> SUFFICES ASSUME IInv, Tiled, Undisturbed
               PROVE  IF walk.more
                      THEN Len(walk.shown) = walk.offset /\ Len(walk.shown) < Len(Whole)
                      ELSE Len(walk.shown) = Len(Whole)
    BY DEF HasMoreIsRight
  <2>1. PICK w \in Seq(Contact) : w = Whole
    BY WholeType DEF Undisturbed
  <2>2. PICK o \in Nat : o = walk.offset
    BY DEF IInv, TypeOK
  <2>3. CASE walk.more
    <3>1. o < Len(w) /\ walk.shown = Slice(w, 0, o)
      BY <2>1, <2>2, <2>3 DEF Tiled
    <3>2. IsSlice(Contact, Slice(w, 0, o), w, 0, o)
      BY SliceProperties
    <3>3. Len(walk.shown) = o
      BY <3>1, <3>2 DEF IsSlice
    <3>4. QED
      BY <2>1, <2>2, <2>3, <3>1, <3>3
  <2>4. CASE ~walk.more
    BY <2>4 DEF Tiled
  <2>5. QED
    BY <2>3, <2>4
<1>2. QED
  BY <1>1, WalkInvariant, PTL

-----------------------------------------------------------------------------
(* Rooms joined during a walk                                              *)

\* A room r that is joined moves others back and nobody forward.
LEMMA RankedMovesBack ==
  ASSUME NEW F, NEW T \in [F -> Nat], IsFiniteSet(F), NoTies(F, T),
         NEW G, NEW U \in [G -> Nat], IsFiniteSet(G), NoTies(G, U),
         NEW r, r \notin F, F \subseteq G, G \subseteq F \cup {r},
         \A q \in F : U[q] = T[q],
         NEW n \in 1..Cardinality(G), Ranked(G, U)[n] # r
  PROVE  \E m \in 1..Cardinality(F) : m <= n /\ Ranked(F, T)[m] = Ranked(G, U)[n]
<1>1. PICK v \in G : v = Ranked(G, U)[n] /\ Cardinality(Later(G, U, v)) = n - 1
  BY RankedProperties
<1>2. v \in F
  BY <1>1
<1>3. Later(F, T, v) \in SUBSET Later(G, U, v)
  BY <1>2 DEF Later
<1>4. IsFiniteSet(Later(G, U, v))
  BY LaterIsFinite
<1>5. Cardinality(Later(F, T, v)) <= Cardinality(Later(G, U, v))
  BY <1>3, <1>4, FS_Subset
<1>6. PICK k \in Nat : k = Cardinality(Later(F, T, v))
  BY <1>2, LaterIsFinite
<1>7. k + 1 \in 1..Cardinality(F) /\ Ranked(F, T)[k + 1] = v
  BY <1>2, <1>6, RankedPlace
<1>8. k + 1 <= n
  BY <1>1, <1>5, <1>6
<1>9. QED
  BY <1>1, <1>7, <1>8

\* Rooms that are listed newest first stand in the order of their times.
Orderly ==
  \A found \in SUBSET Contact :
    found \subseteq Rooms /\ found \subseteq search.names \cup search.members =>
      /\ IsFiniteSet(found) /\ Counted(found) \in [found -> Nat] /\ NoTies(found, Counted(found))
      /\ NewestFirst(found) = Ranked(found, Counted(found))

\* The rooms an answer lists do.
LEMMA TimesOrder == TimesDiffer => Orderly
BY CountedProperties, NewestFirstIs DEF Orderly

\* What a room that is joined leaves of the other rooms' times.
LEMMA JoinIs ==
  ASSUME IInv, NEW c \in Contact, Join(c)
  PROVE  /\ search' = search /\ search.form # "user"
         /\ c \notin Rooms /\ Rooms' = Rooms \cup {c}
         /\ \A q \in Rooms : CountsFrom(q)' = CountsFrom(q)
         /\ walk'.fresh = walk.fresh \cup {c}
         /\ walk'.offset = walk.offset /\ walk'.shown = walk.shown /\ walk'.more = walk.more
         /\ walk'.data = walk.data /\ walk'.left = walk.left /\ walk'.kept = walk.kept
<1>1. joined \in [Contact -> Nat] /\ walk \in Walks
  BY DEF IInv, TypeOK, Walks
<1>2. PICK n : n = LastJoin + events'
  OBVIOUS
<1>3. /\ search' = search /\ search.form = "muc" /\ joined[c] = 0
      /\ joined' = [joined EXCEPT ![c] = n]
      /\ walk' = [walk EXCEPT !.fresh = walk.fresh \cup {c}]
  BY <1>2 DEF Join
<1>4. n # 0
  <2>1. LastJoin \in Nat /\ events \in Nat /\ events' = events + 1
    BY LastJoinIs DEF Join, Happens, IInv, TypeOK
  <2>2. PICK j \in Nat : j = LastJoin
    BY <2>1
  <2>3. QED
    BY <1>2, <2>1, <2>2
<1>5. joined'[c] = n /\ \A q \in Contact : q # c => joined'[q] = joined[q]
  BY <1>1, <1>3
<1>6. c \notin Rooms /\ Rooms' = Rooms \cup {c}
  BY <1>3, <1>4, <1>5 DEF Rooms
<1>7. ASSUME NEW q \in Rooms PROVE CountsFrom(q)' = CountsFrom(q)
  <2>1. joined'[q] = joined[q]
    BY <1>5, <1>6 DEF Rooms
  <2>2. QED
    BY <1>3, <2>1 DEF CountsFrom
<1>8. QED
  BY <1>1, <1>3, <1>6, <1>7 DEF Walks

\* Among the rows of an answer, others move back behind a room that is joined.
LEMMA RowsMoveBack ==
  ASSUME IInv, [Next]_vars, Exact, NEW c \in Contact, Join(c), NEW excluded
  PROVE  /\ Rows(excluded)' \in Seq(Contact)
         /\ \A n \in 1..Len(Rows(excluded)') : Rows(excluded)'[n] # c =>
              \E m \in 1..Len(Rows(excluded)) : m <= n /\ Rows(excluded)[m] = Rows(excluded)'[n]
<1>1. /\ search' = search /\ search.form # "user"
      /\ c \notin Rooms /\ Rooms' = Rooms \cup {c}
      /\ \A q \in Rooms : CountsFrom(q)' = CountsFrom(q)
  BY JoinIs
<1>2. CASE ~(search.common /\ search.words)
  <2>1. ~search.origin
    BY <1>1, <1>2 DEF Exact
  <2>2. Rows(excluded)' = <<>>
    BY <1>1, <1>2, <2>1 DEF Rows, RoomRows
  <2>3. QED
    BY <2>2, EmptySeq
<1>3. CASE search.common /\ search.words
  <2>1. PICK found : found = IF search.origin THEN search.names \cup search.members ELSE search.members
    OBVIOUS
  <2>2. PICK F : F = (Rooms \ excluded) \cap found
    OBVIOUS
  <2>3. PICK G : G = ((Rooms \cup {c}) \ excluded) \cap found
    OBVIOUS
  <2>4. Rows(excluded) = NewestFirst(F)
    BY <1>1, <1>3, <2>1, <2>2 DEF Rows, RoomRows
  <2>5. Rows(excluded)' = NewestFirst(G)'
    <3>1. G = (Rooms' \ excluded) \cap IF search'.origin THEN search'.names \cup search'.members ELSE search'.members
      BY <1>1, <2>1, <2>3
    <3>2. QED
      BY <1>1, <1>3, <3>1 DEF Rows, RoomRows
  <2>6. Orderly
    BY TimesOrder DEF IInv
  <2>7. Orderly'
    <3>1. TimesDiffer'
      BY JoinTimes
    <3>2. TimesDiffer' => Orderly'
      BY TimesOrder, PTL
    <3>3. QED
      BY <3>1, <3>2
  <2>8. F \in SUBSET Contact /\ G \in SUBSET Contact
    BY <2>2, <2>3 DEF Rooms
  <2>9. PICK T : T = Counted(F)
    OBVIOUS
  <2>10. PICK U : U = Counted(G)'
    OBVIOUS
  <2>11. IsFiniteSet(F) /\ T \in [F -> Nat] /\ NoTies(F, T) /\ Rows(excluded) = Ranked(F, T)
    <3>1. F \subseteq Rooms /\ F \subseteq search.names \cup search.members
      BY <2>1, <2>2
    <3>2. QED
      BY <2>4, <2>6, <2>8, <2>9, <3>1 DEF Orderly
  <2>12. IsFiniteSet(G) /\ U \in [G -> Nat] /\ NoTies(G, U) /\ Rows(excluded)' = Ranked(G, U)
    <3>1. G \subseteq Rooms' /\ G \subseteq search'.names \cup search'.members
      BY <1>1, <2>1, <2>3
    <3>2. QED
      BY <2>5, <2>7, <2>8, <2>10, <3>1 DEF Orderly
  <2>13. c \notin F /\ F \subseteq G /\ G \subseteq F \cup {c}
    BY <1>1, <2>2, <2>3
  <2>14. \A q \in F : U[q] = T[q]
    BY <1>1, <2>2, <2>9, <2>10, <2>13 DEF Counted
  <2>15. /\ Len(Ranked(G, U)) = Cardinality(G) /\ Len(Ranked(F, T)) = Cardinality(F)
         /\ Ranked(G, U) \in Seq(Contact)
    BY <2>8, <2>11, <2>12, RankedProperties, SeqMonotonic
  <2>16. ASSUME NEW n \in 1..Cardinality(G), Ranked(G, U)[n] # c
         PROVE  \E m \in 1..Cardinality(F) : m <= n /\ Ranked(F, T)[m] = Ranked(G, U)[n]
    BY <2>11, <2>12, <2>13, <2>14, <2>16, RankedMovesBack
  <2>17. QED
    BY <2>11, <2>12, <2>15, <2>16
<1>4. QED
  BY <1>2, <1>3

\* So it is in the whole answer, of which the habits stay where they are.
LEMMA WholeMovesBack ==
  ASSUME IInv, [Next]_vars, Exact, NEW c \in Contact, Join(c),
         NEW i \in 1..Len(Whole'), Whole'[i] # c
  PROVE  \E j \in 1..Len(Whole) : j <= i /\ Whole[j] = Whole'[i]
<1>1. PICK h : h = Matches(walk.data)
  OBVIOUS
<1>2. search' = search /\ walk'.data = walk.data
  BY JoinIs
<1>3. h = Matches(walk.data)'
  BY <1>1, <1>2 DEF Matches
<1>4. PICK excluded : excluded = ToSet(h)
  OBVIOUS
<1>5. PICK rows : rows = Rows(excluded)
  OBVIOUS
<1>6. PICK then : then = Rows(excluded)'
  OBVIOUS
<1>7. h \in Seq(Contact)
  BY <1>1, SearchIsTyped, MatchesProperties DEF IInv, TypeOK
<1>8. rows \in Seq(Contact)
  BY <1>5, SearchIsTyped, RowsProperties DEF IInv
<1>9. /\ then \in Seq(Contact)
      /\ \A n \in 1..Len(then) : then[n] # c => \E m \in 1..Len(rows) : m <= n /\ rows[m] = then[n]
  BY <1>5, <1>6, RowsMoveBack
<1>10. Whole = h \o rows
  BY <1>1, <1>4, <1>5 DEF Whole
<1>11. Whole' = h \o then
  BY <1>3, <1>4, <1>6 DEF Whole
<1>12. PICK nh \in Nat : nh = Len(h)
  BY <1>7
<1>13. PICK nr \in Nat : nr = Len(rows)
  BY <1>8
<1>14. PICK nt \in Nat : nt = Len(then)
  BY <1>9
<1>15. /\ Len(Whole) = nh + nr
       /\ \A j \in 1..(nh + nr) : Whole[j] = IF j <= nh THEN h[j] ELSE rows[j - nh]
  BY <1>7, <1>8, <1>10, <1>12, <1>13, ConcatProperties
<1>16. /\ Len(Whole') = nh + nt
       /\ \A j \in 1..(nh + nt) : Whole'[j] = IF j <= nh THEN h[j] ELSE then[j - nh]
  BY <1>7, <1>9, <1>11, <1>12, <1>14, ConcatProperties
<1>17. i \in 1..(nh + nt)
  BY <1>16
<1>18. CASE i <= nh
  <2>1. i \in 1..(nh + nr) /\ i <= i
    BY <1>17, <1>18
  <2>2. QED
    BY <1>15, <1>16, <1>17, <1>18, <2>1
<1>19. CASE ~(i <= nh)
  <2>1. i - nh \in 1..nt
    BY <1>17, <1>19
  <2>2. Whole'[i] = then[i - nh]
    BY <1>16, <1>17, <1>19
  <2>3. PICK m \in 1..nr : m <= i - nh /\ rows[m] = then[i - nh]
    BY <1>9, <1>13, <1>14, <2>1, <2>2
  <2>4. nh + m \in 1..(nh + nr) /\ nh + m <= i /\ ~(nh + m <= nh) /\ (nh + m) - nh = m
    BY <1>17, <2>3
  <2>5. QED
    BY <1>15, <2>2, <2>3, <2>4
<1>20. QED
  BY <1>18, <1>19

\* Two lists put together hold what either holds.
LEMMA ConcatHolds ==
  ASSUME NEW S, NEW s \in Seq(S), NEW t \in Seq(S)
  PROVE  ToSet(s \o t) = ToSet(s) \cup ToSet(t)
<1>1. PICK m \in Nat : m = Len(s)
  OBVIOUS
<1>2. PICK n \in Nat : n = Len(t)
  OBVIOUS
<1>3. PICK u \in Seq(S) :
        /\ u = s \o t /\ Len(u) = m + n
        /\ \A i \in 1..(m + n) : u[i] = IF i <= m THEN s[i] ELSE t[i - m]
  <2>1. /\ s \o t \in Seq(S) /\ Len(s \o t) = Len(s) + Len(t)
        /\ \A i \in 1..(Len(s) + Len(t)) :
             (s \o t)[i] = IF i <= Len(s) THEN s[i] ELSE t[i - Len(s)]
    BY ConcatProperties
  <2>2. QED
    BY <1>1, <1>2, <2>1
<1>4. /\ ToSet(u) = {u[i] : i \in 1..(m + n)}
      /\ ToSet(s) = {s[i] : i \in 1..m} /\ ToSet(t) = {t[i] : i \in 1..n}
  BY <1>1, <1>2, <1>3, LenProperties DEF ToSet
<1>5. \A i \in 1..m : i \in 1..(m + n) /\ u[i] = s[i]
  BY <1>3
<1>6. \A i \in 1..n : m + i \in 1..(m + n) /\ u[m + i] = t[i]
  <2> SUFFICES ASSUME NEW i \in 1..n PROVE m + i \in 1..(m + n) /\ u[m + i] = t[i]
    OBVIOUS
  <2>1. m + i \in 1..(m + n) /\ ~(m + i <= m) /\ (m + i) - m = i
    OBVIOUS
  <2>2. QED
    BY <1>3, <2>1
<1>7. \A i \in 1..(m + n) : u[i] \in {s[j] : j \in 1..m} \cup {t[j] : j \in 1..n}
  <2> SUFFICES ASSUME NEW i \in 1..(m + n)
               PROVE  u[i] \in {s[j] : j \in 1..m} \cup {t[j] : j \in 1..n}
    OBVIOUS
  <2>1. CASE i <= m
    BY <1>3, <2>1
  <2>2. CASE ~(i <= m)
    <3>1. i - m \in 1..n
      BY <2>2
    <3>2. QED
      BY <1>3, <2>2, <3>1
  <2>3. QED
    BY <2>1, <2>2
<1>8. QED
  BY <1>3, <1>4, <1>5, <1>6, <1>7

\* The pages have shown what stands before their offset in the answer of now.
Passed ==
  walk.kept /\ ~walk.left /\ Exact =>
    \A i \in 1..Len(Whole) :
      (walk.more => i <= walk.offset) => Whole[i] \in ToSet(walk.shown) \cup walk.fresh

\* No walk is followed at first.
LEMMA InitPassed == Init => Passed
BY DEF Init, Passed, NotWalking, StartedWalk

\* A page shows what it passes, and a room that is joined takes nobody past it.
LEMMA PassedStep == IfAsync /\ IInv /\ Followed /\ Passed /\ [Next]_vars => Passed'
<1> SUFFICES ASSUME IfAsync, IInv, Followed, Passed, [Next]_vars PROVE Passed'
  OBVIOUS
<1>0. walk \in Walks
  BY DEF IInv, TypeOK, Walks
<1>1. CASE Still
  <2>1. Whole' = Whole /\ (Exact' <=> Exact)
    BY <1>1, WholeKept DEF Still
  <2>2. QED
    BY <1>1, <2>1 DEF Still, Passed
<1>2. ASSUME NEW c \in Contact, Leave(c) PROVE Passed'
  <2>1. walk' = [walk EXCEPT !.left = TRUE]
    BY <1>2 DEF Leave
  <2>2. walk'.left
    BY <1>0, <2>1 DEF Walks
  <2>3. QED
    BY <2>2 DEF Passed
<1>3. ASSUME NEW c \in Contact, Join(c) PROVE Passed'
  <2> SUFFICES ASSUME walk'.kept, ~walk'.left, Exact', NEW i \in 1..Len(Whole'),
                      walk'.more => i <= walk'.offset
               PROVE  Whole'[i] \in ToSet(walk'.shown) \cup walk'.fresh
    BY DEF Passed
  <2>1. /\ search' = search
        /\ walk'.fresh = walk.fresh \cup {c}
        /\ walk'.offset = walk.offset /\ walk'.shown = walk.shown /\ walk'.more = walk.more
        /\ walk'.left = walk.left /\ walk'.kept = walk.kept
    BY <1>3, JoinIs
  <2>2. Exact
    BY <2>1 DEF Exact
  <2>3. ASSUME Whole'[i] # c
        PROVE  Whole'[i] \in ToSet(walk.shown) \cup walk.fresh
    <3>1. PICK j \in 1..Len(Whole) : j <= i /\ Whole[j] = Whole'[i]
      BY <1>3, <2>2, <2>3, WholeMovesBack
    <3>2. PICK o \in Nat : o = walk.offset
      BY <1>0 DEF Walks
    <3>3. walk.more => j <= o
      <4>1. j \in Int /\ i \in Int
        OBVIOUS
      <4>2. QED
        BY <2>1, <3>1, <3>2, <4>1
    <3>4. QED
      BY <2>1, <2>2, <3>1, <3>2, <3>3 DEF Passed
  <2>4. QED
    BY <2>1, <2>3
<1>4. ASSUME NEW r \in Request, Answer(r), request[r].page PROVE Passed'
  <2> SUFFICES ASSUME walk'.kept, ~walk'.left, Exact', NEW i \in 1..Len(Whole'),
                      walk'.more => i <= walk'.offset
               PROVE  Whole'[i] \in ToSet(walk'.shown) \cup walk'.fresh
    BY DEF Passed
  <2>1. /\ search' = search /\ joined' = joined /\ walk.more /\ walk'.offset = walk.offset + Limit
        /\ walk.offset # 0 => /\ walk'.kept = walk.kept /\ walk'.data = walk.data
                              /\ walk'.fresh = walk.fresh /\ walk'.left = walk.left
    BY <1>4, AnswerIs
  <2>2. Exact
    BY <2>1, WholeKept
  <2>3. /\ Whole' \in Seq(Contact)
        /\ walk.offset # 0 => Whole' = Whole
        /\ walk'.more = (Len(Whole') > walk.offset + Limit)
        /\ walk'.shown = (IF walk.offset = 0 THEN <<>> ELSE walk.shown) \o Slice(Whole', walk.offset, Limit)
    BY <1>4, <2>2, AnswerIs
  <2>4. PICK w \in Seq(Contact) : w = Whole'
    BY <2>3
  <2>5. PICK o \in Nat : o = walk.offset
    BY <1>0 DEF Walks
  <2>6. PICK l \in Nat : l = Limit
    BY PageAssumption
  <2>7. PICK n \in Nat : n = Len(w)
    BY <2>4
  <2>8. PICK s \in Seq(Contact) : s = IF o = 0 THEN <<>> ELSE walk.shown
    BY <1>0, EmptySeq DEF Walks
  <2>9. PICK p \in Seq(Contact) : p = Slice(w, o, l)
    <3>1. IsSlice(Contact, Slice(w, o, l), w, o, l)
      BY SliceProperties
    <3>2. QED
      BY <3>1 DEF IsSlice
  <2>10. walk'.shown = s \o p /\ walk'.more = (n > o + l)
    BY <2>3, <2>4, <2>5, <2>6, <2>7, <2>8, <2>9
  <2>11. ToSet(s \o p) = ToSet(s) \cup ToSet(p)
    BY ConcatHolds
  <2>12. i \in 1..n /\ i <= o + l
    <3>1. i \in 1..n
      BY <2>4, <2>7
    <3>2. walk'.more => i <= o + l
      BY <2>1, <2>5, <2>6
    <3>3. CASE walk'.more
      BY <3>1, <3>2, <3>3
    <3>4. CASE ~walk'.more
      <4>1. ~(n > o + l)
        BY <2>10, <3>4
      <4>2. QED
        BY <3>1, <4>1
    <3>5. QED
      BY <3>3, <3>4
  <2>13. CASE i > o
    <3>1. w[i] \in ToSet(p)
      BY <2>7, <2>9, <2>12, <2>13, SliceHolds
    <3>2. QED
      BY <2>4, <2>10, <2>11, <3>1
  <2>14. CASE ~(i > o)
    <3>1. i <= o /\ o # 0
      BY <2>12, <2>14
    <3>2. w[i] \in ToSet(walk.shown) \cup walk.fresh
      BY <2>1, <2>2, <2>3, <2>4, <2>5, <2>7, <2>12, <3>1 DEF Passed
    <3>3. QED
      BY <2>1, <2>4, <2>5, <2>8, <2>10, <2>11, <3>1, <3>2
  <2>15. QED
    BY <2>13, <2>14
<1>5. QED
  BY <1>1, <1>2, <1>3, <1>4, StillOr

\* With the asynchronous library a room that is joined hides no other room from
\* the pages that follow (make_common_sql, search_group_async).
THEOREM JoinsHideNobody ==
  ASSUME IfAsync
  PROVE  Spec => []JoinsSkipNobody
<1>1. Init => IInv /\ Followed /\ Passed
  BY InitInv, InitFollowed, InitPassed
<1>2. IInv /\ Followed /\ Passed /\ [Next]_vars => IInv' /\ Followed' /\ Passed'
  BY InvStep, FollowedStep, PassedStep
<1>3. IInv /\ Passed => JoinsSkipNobody
  <2> SUFFICES ASSUME IInv, Passed, walk.kept, ~walk.left, Exact,
                      NEW v \in ToSet(IF walk.more THEN Slice(Whole, 0, walk.offset) ELSE Whole)
               PROVE  v \in ToSet(walk.shown) \cup walk.fresh
    BY DEF JoinsSkipNobody
  <2>1. PICK w \in Seq(Contact) : w = Whole
    BY WholeType
  <2>2. PICK o \in Nat : o = walk.offset
    BY DEF IInv, TypeOK
  <2>3. PICK i \in 1..Len(w) : w[i] = v /\ (walk.more => i <= o)
    <3>1. CASE walk.more
      <4>1. v \in ToSet(Slice(w, 0, o))
        BY <2>1, <2>2, <3>1
      <4>2. PICK i \in 1..Len(w) : 0 < i /\ i <= 0 + o /\ w[i] = v
        BY <4>1, SliceHolds
      <4>3. i <= o
        BY <4>2
      <4>4. QED
        BY <4>2, <4>3
    <3>2. CASE ~walk.more
      BY <2>1, <3>2, LenProperties DEF ToSet
    <3>3. QED
      BY <3>1, <3>2
  <2>4. QED
    BY <2>1, <2>2, <2>3 DEF Passed
<1>4. QED
  BY <1>1, <1>2, <1>3, PTL DEF Spec
=============================================================================
