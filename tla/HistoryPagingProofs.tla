------------------------- MODULE HistoryPagingProofs -------------------------
(***************************************************************************)
(* Theorems about HistoryPaging: SearchTypeCorrect, CountsNeverExceed,     *)
(* PagesOfOneSideTile and FirstPageCountsAll, with what they rest on: the  *)
(* order of entries, the rows of the statements, how two directions are    *)
(* merged, one page, and the pages one after another.                      *)
(***************************************************************************)
EXTENDS HistoryPaging, ListProofs

-----------------------------------------------------------------------------
(* Entries in the order of their times                                     *)

\* Finitely many entries of different times.
Timed(hits) ==
  /\ IsFiniteSet(hits)
  /\ \A h \in hits : h.time \in Nat
  /\ \A g, h \in hits : g.time = h.time => g = h

\* The later entry stands first.
Falling(list) ==
  \A i, j \in DOMAIN list : i < j => list[i].time > list[j].time

\* The times of some entries.
Times(hits) == [h \in hits |-> h.time]

\* They can be ranked.
LEMMA TimedIs ==
  ASSUME NEW hits, Timed(hits)
  PROVE  /\ IsFiniteSet(hits) /\ Times(hits) \in [hits -> Nat] /\ NoTies(hits, Times(hits))
         /\ Newest(hits) = Ranked(hits, Times(hits))
<1>1. /\ IsFiniteSet(hits) /\ \A h \in hits : h.time \in Nat
      /\ \A g, h \in hits : g.time = h.time => g = h
  BY DEF Timed
<1>2. Times(hits) \in [hits -> Nat]
  BY <1>1 DEF Times
<1>3. NoTies(hits, Times(hits))
  BY <1>1 DEF Times, NoTies
<1>4. Newest(hits) = Ranked(hits, Times(hits))
  BY DEF Newest, Times
<1>5. QED
  BY <1>1, <1>2, <1>3, <1>4

\* Some of them can be ranked as well.
LEMMA SomeTimed ==
  ASSUME NEW hits, Timed(hits), NEW some, some \subseteq hits
  PROVE  Timed(some)
<1>1. some \in SUBSET hits
  OBVIOUS
<1>2. IsFiniteSet(some)
  BY <1>1, FS_Subset DEF Timed
<1>3. QED
  BY <1>2 DEF Timed

\* Newest lists every entry once, and the later one first.
LEMMA NewestProperties ==
  ASSUME NEW hits, Timed(hits)
  PROVE  /\ Newest(hits) \in Seq(hits)
         /\ Len(Newest(hits)) = Cardinality(hits)
         /\ ToSet(Newest(hits)) = hits
         /\ IsInjective(Newest(hits))
         /\ Falling(Newest(hits))
<1> DEFINE T == Times(hits)
           N == Newest(hits)
<1>1. IsFiniteSet(hits) /\ T \in [hits -> Nat] /\ NoTies(hits, T) /\ N = Ranked(hits, T)
  BY TimedIs
<1> HIDE DEF N, T
<1>2. /\ N \in Seq(hits) /\ Cardinality(hits) \in Nat /\ Len(N) = Cardinality(hits)
      /\ \A n \in 1..Cardinality(hits) :
           N[n] \in hits /\ Cardinality(Later(hits, T, N[n])) = n - 1
  BY <1>1, RankedProperties
<1>3. ToSet(N) = hits /\ IsInjective(N)
  BY <1>1, RankedInjective
<1>4. PICK c \in Nat : c = Cardinality(hits)
  BY <1>2
<1>5. ASSUME NEW i \in 1..c, NEW j \in 1..c, i < j PROVE N[i].time > N[j].time
  <2>1. PICK g \in hits : g = N[i] /\ Cardinality(Later(hits, T, g)) = i - 1
    BY <1>2, <1>4
  <2>2. PICK h \in hits : h = N[j] /\ Cardinality(Later(hits, T, h)) = j - 1
    BY <1>2, <1>4
  <2>3. ASSUME ~(T[g] > T[h]) PROVE FALSE
    <3>1. T[g] <= T[h]
      BY <1>1, <2>3
    <3>2. \A q \in hits : T[q] > T[h] => T[q] > T[g]
      BY <1>1, <3>1
    <3>3. Later(hits, T, h) \in SUBSET Later(hits, T, g)
      BY <3>2 DEF Later
    <3>4. IsFiniteSet(Later(hits, T, g))
      BY <1>1, LaterIsFinite
    <3>5. Cardinality(Later(hits, T, h)) <= Cardinality(Later(hits, T, g))
      BY <3>3, <3>4, FS_Subset
    <3>6. QED
      BY <2>1, <2>2, <3>5, <1>5
  <2>4. T[g] = g.time /\ T[h] = h.time
    BY DEF T, Times
  <2>5. QED
    BY <2>1, <2>2, <2>3, <2>4
<1>6. DOMAIN N = 1..c
  BY <1>2, <1>4, LenProperties
<1>7. Falling(N)
  BY <1>5, <1>6 DEF Falling
<1>8. QED
  BY <1>2, <1>3, <1>7 DEF N

\* A list without duplicates has as many entries as its set has members.
LEMMA InjectiveLength ==
  ASSUME NEW S, NEW list \in Seq(S), IsInjective(list)
  PROVE  IsFiniteSet(ToSet(list)) /\ Cardinality(ToSet(list)) = Len(list)
<1>1. PICK n \in Nat : n = Len(list)
  OBVIOUS
<1>2. DOMAIN list = 1..n /\ list = [i \in 1..n |-> list[i]]
  BY <1>1, LenProperties
<1>3. list \in Bijection(1..n, ToSet(list))
  <2>1. list \in [1..n -> ToSet(list)]
    BY <1>2 DEF ToSet
  <2>2. \A a, b \in 1..n : list[a] = list[b] => a = b
    BY <1>2 DEF IsInjective
  <2>3. \A e \in ToSet(list) : \E a \in 1..n : list[a] = e
    BY <1>2 DEF ToSet
  <2>4. QED
    BY <2>1, <2>2, <2>3 DEF Bijection, Injection, Surjection, IsInjective
<1>4. ExistsBijection(1..n, ToSet(list))
  BY <1>3 DEF ExistsBijection
<1>5. IsFiniteSet(1..n) /\ Cardinality(1..n) = n
  <2>1. IsFiniteSet(1..n) /\ Cardinality(1..n) = IF 1 > n THEN 0 ELSE n - 1 + 1
    BY FS_Interval
  <2>2. QED
    BY <2>1
<1>6. QED
  BY <1>1, <1>4, <1>5, FS_Bijection

\* A list that has the later entry first is Newest of its entries.
LEMMA FallingIsNewest ==
  ASSUME NEW hits, Timed(hits), NEW list \in Seq(hits), Falling(list)
  PROVE  Newest(ToSet(list)) = list /\ IsInjective(list)
<1> DEFINE E == ToSet(list)
           T == Times(E)
           N == Newest(E)
<1>1. PICK n \in Nat : n = Len(list)
  OBVIOUS
<1>2. DOMAIN list = 1..n /\ \A i \in 1..n : list[i] \in hits
  BY <1>1, LenProperties
<1>3. E \subseteq hits /\ \A i \in 1..n : list[i] \in E
  BY <1>2 DEF ToSet
<1>4. Timed(E)
  BY <1>3, SomeTimed
<1>5. \A i, j \in 1..n : i < j => list[i].time > list[j].time
  BY <1>2 DEF Falling
<1>6. \A i \in 1..n : list[i].time \in Nat
  BY <1>2 DEF Timed
<1>7. ASSUME NEW i \in 1..n, NEW j \in 1..n, list[i] = list[j] PROVE i = j
  <2>1. ~(i < j) /\ ~(j < i)
    BY <1>5, <1>6, <1>7
  <2>2. QED
    BY <2>1
<1>8. IsInjective(list)
  BY <1>2, <1>7 DEF IsInjective
<1>9. Cardinality(E) = n
  BY <1>1, <1>8, InjectiveLength
<1>10. IsFiniteSet(E) /\ T \in [E -> Nat] /\ NoTies(E, T) /\ N = Ranked(E, T)
  BY <1>4, TimedIs
<1>11. ASSUME NEW i \in 1..n PROVE Cardinality(Later(E, T, list[i])) = i - 1
  <2> DEFINE before == SubSeq(list, 1, i - 1)
  <2>1. i - 1 \in Nat /\ i - 1 <= n /\ \A j \in 1..(i - 1) : j \in 1..n
    BY <1>1
  <2>2. /\ before \in Seq(hits) /\ Len(before) = i - 1
        /\ \A j \in 1..(i - 1) : before[j] = list[j]
    <3>1. \A j \in 1..(i - 1) : list[j] \in hits
      BY <1>2, <2>1
    <3>2. /\ before \in Seq(hits) /\ Len(before) = IF 1 <= i - 1 THEN i - 1 - 1 + 1 ELSE 0
          /\ \A j \in 1..(i - 1 - 1 + 1) : before[j] = list[1 + j - 1]
      BY <2>1, <3>1, SubSeqProperties
    <3>3. QED
      BY <2>1, <3>2
  <2> HIDE DEF before
  <2>3. DOMAIN before = 1..(i - 1)
    BY <2>2, LenProperties
  <2>4. IsInjective(before)
    BY <1>7, <2>1, <2>2, <2>3 DEF IsInjective
  <2>5. Cardinality(ToSet(before)) = i - 1
    BY <2>2, <2>4, InjectiveLength
  <2>6. ToSet(before) = {list[j] : j \in 1..(i - 1)}
    BY <2>2, <2>3 DEF ToSet
  <2>7. Later(E, T, list[i]) = {list[j] : j \in 1..(i - 1)}
    <3>1. \A q \in E : T[q] = q.time
      BY DEF T, Times
    <3>2. \A q \in E : \E j \in 1..n : q = list[j]
      BY <1>2 DEF ToSet
    <3>3. \A j \in 1..n : list[j].time > list[i].time <=> j < i
      <4> SUFFICES ASSUME NEW j \in 1..n
                   PROVE  list[j].time > list[i].time <=> j < i
        OBVIOUS
      <4>1. j < i \/ j = i \/ i < j
        OBVIOUS
      <4>2. QED
        BY <4>1, <1>5, <1>6
    <3>4. \A j \in 1..n : j < i <=> j \in 1..(i - 1)
      OBVIOUS
    <3>5. \A j \in 1..(i - 1) : list[j] \in E
      BY <1>3, <2>1
    <3>6. Later(E, T, list[i]) = {q \in E : q.time > list[i].time}
      BY <1>3, <3>1 DEF Later
    <3> HIDE DEF E, T
    <3>7. QED
      BY <2>1, <3>2, <3>3, <3>4, <3>5, <3>6
  <2>8. QED
    BY <2>5, <2>6, <2>7
<1>12. /\ N \in Seq(E) /\ Len(N) = n
       /\ \A i \in 1..n : N[i] \in E /\ Cardinality(Later(E, T, N[i])) = i - 1
  <2> HIDE DEF E, T, N
  <2>1. QED
    BY <1>9, <1>10, RankedProperties
<1>13. ASSUME NEW i \in 1..n PROVE N[i] = list[i]
  <2>1. PICK g \in E : g = N[i] /\ Cardinality(Later(E, T, g)) = i - 1
    BY <1>12
  <2>2. PICK h \in E : h = list[i] /\ Cardinality(Later(E, T, h)) = i - 1
    BY <1>3, <1>11
  <2> HIDE DEF E, T
  <2>3. QED
    BY <1>10, <2>1, <2>2, LaterDiffers
<1>14. N \in Seq(hits)
  BY <1>3, <1>12, SeqMonotonic
<1> HIDE DEF N
<1>15. N = list
  BY <1>1, <1>12, <1>13, <1>14, SeqEqual
<1>16. QED
  BY <1>8, <1>15 DEF N

\* Reverse turns a list round.
LEMMA ReverseProperties ==
  ASSUME NEW S, NEW list \in Seq(S)
  PROVE  /\ Reverse(list) \in Seq(S) /\ Len(Reverse(list)) = Len(list)
         /\ ToSet(Reverse(list)) = ToSet(list)
         /\ IsInjective(list) => IsInjective(Reverse(list))
<1> DEFINE R == Reverse(list)
<1>1. PICK n \in Nat : n = Len(list)
  OBVIOUS
<1>2. R = [i \in 1..n |-> list[(n - i) + 1]]
  BY <1>1 DEF Reverse
<1>3. \A i \in 1..n : (n - i) + 1 \in 1..n
  OBVIOUS
<1>4. \A i \in 1..n : list[(n - i) + 1] \in S
  BY <1>1, <1>3, ElementOfSeq
<1> HIDE DEF R
<1>5. R \in [1..n -> S]
  BY <1>2, <1>4
<1>6. R \in Seq(S) /\ Len(R) = n /\ DOMAIN R = 1..n
  BY <1>5
<1>7. DOMAIN list = 1..n
  BY <1>1, LenProperties
<1>8. ToSet(R) = ToSet(list)
  <2>1. ASSUME NEW i \in 1..n PROVE R[i] \in ToSet(list)
    <3>1. R[i] = list[(n - i) + 1]
      BY <1>2
    <3>2. QED
      BY <1>3, <1>7, <3>1 DEF ToSet
  <2>2. ASSUME NEW i \in 1..n PROVE list[i] \in ToSet(R)
    <3>1. (n - i) + 1 \in 1..n /\ (n - ((n - i) + 1)) + 1 = i
      OBVIOUS
    <3>2. R[(n - i) + 1] = list[i]
      BY <1>2, <3>1
    <3>3. QED
      BY <1>6, <3>1, <3>2 DEF ToSet
  <2>3. QED
    BY <1>6, <1>7, <2>1, <2>2 DEF ToSet
<1>9. ASSUME IsInjective(list), NEW i \in 1..n, NEW j \in 1..n, R[i] = R[j] PROVE i = j
  <2>1. list[(n - i) + 1] = list[(n - j) + 1]
    BY <1>2, <1>9
  <2>2. (n - i) + 1 = (n - j) + 1
    BY <1>3, <1>7, <1>9, <2>1 DEF IsInjective
  <2>3. QED
    BY <2>2
<1>10. IsInjective(list) => IsInjective(R)
  BY <1>6, <1>9 DEF IsInjective
<1>11. QED
  BY <1>1, <1>6, <1>8, <1>10 DEF R

\* Oldest lists every entry once.
LEMMA OldestProperties ==
  ASSUME NEW hits, Timed(hits)
  PROVE  /\ Oldest(hits) \in Seq(hits)
         /\ Len(Oldest(hits)) = Cardinality(hits)
         /\ ToSet(Oldest(hits)) = hits
         /\ IsInjective(Oldest(hits))
BY NewestProperties, ReverseProperties DEF Oldest

-----------------------------------------------------------------------------
(* The sum of the counts of some rows                                      *)

\* The matches of one row.
LEMMA CountOf ==
  ASSUME NEW a, a.count \in Nat
  PROVE  IsFiniteSet({a} \X (1..a.count)) /\ Cardinality({a} \X (1..a.count)) = a.count
<1>1. PICK n \in Nat : n = a.count
  OBVIOUS
<1>2. IsFiniteSet(1..n) /\ Cardinality(1..n) = n
  <2>1. IsFiniteSet(1..n) /\ Cardinality(1..n) = IF 1 > n THEN 0 ELSE n - 1 + 1
    BY FS_Interval
  <2>2. QED
    BY <2>1
<1>3. IsFiniteSet({a}) /\ Cardinality({a}) = 1
  BY FS_Singleton
<1>4. IsFiniteSet({a} \X (1..n)) /\ Cardinality({a} \X (1..n)) = 1 * n
  BY <1>2, <1>3, FS_Product
<1>5. QED
  BY <1>1, <1>4

\* A row alone has its matches.
LEMMA SumOfOne ==
  ASSUME NEW a, a.count \in Nat
  PROVE  SumOf({a}) = a.count
<1>1. UNION {{g} \X (1..g.count) : g \in {a}} = {a} \X (1..a.count)
  OBVIOUS
<1>2. QED
  BY <1>1, CountOf DEF SumOf

\* Two rows have theirs together.
LEMMA SumOfTwo ==
  ASSUME NEW a, NEW b, a # b, a.count \in Nat, b.count \in Nat
  PROVE  SumOf({a, b}) = a.count + b.count
<1> DEFINE A == {a} \X (1..a.count)
           B == {b} \X (1..b.count)
<1>1. UNION {{g} \X (1..g.count) : g \in {a, b}} = A \cup B
  OBVIOUS
<1>2. A \cap B = {}
  OBVIOUS
<1>3. /\ IsFiniteSet(A) /\ Cardinality(A) = a.count
      /\ IsFiniteSet(B) /\ Cardinality(B) = b.count
  BY CountOf
<1> HIDE DEF A, B
<1>4. Cardinality(A \cup B) = Cardinality(A) + Cardinality(B) - Cardinality(A \cap B)
  BY <1>3, FS_Union
<1>5. Cardinality(A \cap B) = 0
  BY <1>2, FS_EmptySet
<1>6. SumOf({a, b}) = Cardinality(A \cup B)
  BY <1>1 DEF SumOf
<1>7. QED
  BY <1>3, <1>4, <1>5, <1>6

\* Finitely many rows have a number of matches.
LEMMA SumIsNat ==
  ASSUME NEW rows, IsFiniteSet(rows), NEW n \in Nat,
         \A g \in rows : g.count \in Nat /\ g.count <= n
  PROVE  SumOf(rows) \in Nat
<1> DEFINE all == UNION {{g} \X (1..g.count) : g \in rows}
<1>1. all \in SUBSET (rows \X (1..n))
  <2>1. \A g \in rows : {g} \X (1..g.count) \subseteq rows \X (1..n)
    <3> SUFFICES ASSUME NEW g \in rows PROVE {g} \X (1..g.count) \subseteq rows \X (1..n)
      OBVIOUS
    <3>1. 1..g.count \subseteq 1..n
      OBVIOUS
    <3>2. QED
      BY <3>1
  <2>2. QED
    BY <2>1
<1>2. IsFiniteSet(1..n)
  BY FS_Interval
<1>3. IsFiniteSet(rows \X (1..n))
  BY <1>2, FS_Product
<1>4. Cardinality(all) \in Nat
  BY <1>1, <1>3, FS_Subset, FS_CardinalityType
<1>5. QED
  BY <1>4 DEF SumOf

-----------------------------------------------------------------------------
(* Slices                                                                  *)

\* Cutting off the row that was fetched beside those asked for.
LEMMA SliceOfSlice ==
  ASSUME NEW S, NEW w \in Seq(S), NEW o \in Nat, NEW l \in Nat
  PROVE  Slice(Slice(w, o, l + 1), 0, l) = Slice(w, o, l)
<1>1. PICK n \in Nat : n = Len(w)
  OBVIOUS
<1>2. PICK p : p = Slice(w, o, l + 1)
  OBVIOUS
<1>3. PICK q : q = Slice(p, 0, l)
  OBVIOUS
<1>4. PICK r : r = Slice(w, o, l)
  OBVIOUS
<1>5. IsSlice(S, p, w, o, l + 1) /\ IsSlice(S, r, w, o, l)
  <2>1. l + 1 \in Nat
    OBVIOUS
  <2>2. QED
    BY <1>2, <1>4, <2>1, SliceProperties
<1>6. p \in Seq(S)
  BY <1>5 DEF IsSlice
<1>7. IsSlice(S, q, p, 0, l)
  BY <1>3, <1>6, SliceProperties
<1>8. PICK k \in Nat : k = IF o + (l + 1) <= n THEN l + 1 ELSE IF o <= n THEN n - o ELSE 0
  <2>1. (o <= n => n - o \in Nat) /\ l + 1 \in Nat /\ 0 \in Nat
    OBVIOUS
  <2>2. (IF o + (l + 1) <= n THEN l + 1 ELSE IF o <= n THEN n - o ELSE 0) \in Nat
    BY <2>1
  <2>3. QED
    BY <2>2
<1>9. Len(p) = k /\ \A i \in 1..k : p[i] = w[o + i]
  BY <1>1, <1>5, <1>8 DEF IsSlice
<1>10. PICK m \in Nat : m = IF o + l <= n THEN l ELSE IF o <= n THEN n - o ELSE 0
  <2>1. o <= n => n - o \in Nat
    OBVIOUS
  <2>2. QED
    BY <2>1
<1>11. r \in Seq(S) /\ Len(r) = m /\ \A i \in 1..m : r[i] = w[o + i]
  BY <1>1, <1>5, <1>10 DEF IsSlice
<1>12. m = (IF 0 + l <= k THEN l ELSE IF 0 <= k THEN k - 0 ELSE 0) /\ m <= k
  BY <1>8, <1>10
<1>13. q \in Seq(S) /\ Len(q) = m /\ \A i \in 1..m : q[i] = p[0 + i]
  BY <1>7, <1>9, <1>12 DEF IsSlice
<1>14. ASSUME NEW i \in 1..m PROVE q[i] = r[i]
  <2>1. 0 + i = i /\ i \in 1..k
    BY <1>12
  <2>2. QED
    BY <1>9, <1>11, <1>13, <2>1
<1>15. q = r
  BY <1>11, <1>13, <1>14, SeqEqual
<1>16. QED
  BY <1>2, <1>3, <1>4, <1>15

\* A slice has entries of the list, not more than asked for, and keeps the order.
LEMMA SliceKeeps ==
  ASSUME NEW S, NEW w \in Seq(S), NEW o \in Nat, NEW l \in Nat
  PROVE  /\ Slice(w, o, l) \in Seq(S)
         /\ Len(Slice(w, o, l)) <= l
         /\ ToSet(Slice(w, o, l)) \subseteq ToSet(w)
         /\ IsInjective(w) => IsInjective(Slice(w, o, l))
         /\ Falling(w) => Falling(Slice(w, o, l))
<1>1. PICK n \in Nat : n = Len(w)
  OBVIOUS
<1>2. PICK p : p = Slice(w, o, l)
  OBVIOUS
<1>3. IsSlice(S, p, w, o, l)
  BY <1>2, SliceProperties
<1>4. PICK m \in Nat : m = IF o + l <= n THEN l ELSE IF o <= n THEN n - o ELSE 0
  <2>1. o <= n => n - o \in Nat
    OBVIOUS
  <2>2. QED
    BY <2>1
<1>5. p \in Seq(S) /\ Len(p) = m /\ \A i \in 1..m : p[i] = w[o + i]
  BY <1>1, <1>3, <1>4 DEF IsSlice
<1>6. DOMAIN p = 1..m /\ DOMAIN w = 1..n
  BY <1>1, <1>5, LenProperties
<1>7. \A i \in 1..m : o + i \in 1..n
  BY <1>4
<1>8. m <= l
  BY <1>4
<1>9. ToSet(p) \subseteq ToSet(w)
  BY <1>5, <1>6, <1>7 DEF ToSet
<1>10. ASSUME IsInjective(w) PROVE IsInjective(p)
  <2>1. \A a, b \in 1..n : w[a] = w[b] => a = b
    BY <1>6, <1>10 DEF IsInjective
  <2>2. ASSUME NEW i \in 1..m, NEW j \in 1..m, p[i] = p[j] PROVE i = j
    <3>1. o + i = o + j
      BY <1>5, <1>7, <2>1, <2>2
    <3>2. QED
      BY <3>1
  <2>3. QED
    BY <1>6, <2>2 DEF IsInjective
<1>11. ASSUME Falling(w) PROVE Falling(p)
  <2>1. \A a, b \in 1..n : a < b => w[a].time > w[b].time
    BY <1>6, <1>11 DEF Falling
  <2>2. ASSUME NEW i \in 1..m, NEW j \in 1..m, i < j PROVE p[i].time > p[j].time
    <3>1. o + i < o + j
      BY <2>2
    <3>2. QED
      BY <1>5, <1>7, <2>1, <3>1
  <2>3. QED
    BY <1>6, <2>2 DEF Falling
<1>12. QED
  BY <1>2, <1>5, <1>8, <1>9, <1>10, <1>11

\* make_result tells whether a row was fetched beside those asked for.
LEMMA ResultOfSlice ==
  ASSUME NEW S, NEW w \in Seq(S), NEW o \in Nat
  PROVE  /\ MakeResult(Slice(w, o, Limit + 1)).more <=> o + Limit < Len(w)
         /\ MakeResult(Slice(w, o, Limit + 1)).info = Slice(w, o, Limit)
<1>1. PICK l \in Nat \ {0} : l = Limit
  BY BoundAssumption
<1>2. PICK p : p = Slice(w, o, l + 1)
  OBVIOUS
<1>3. PICK n \in Nat : n = Len(w)
  OBVIOUS
<1>4. MakeResult(p) = [more |-> Len(p) > l, info |-> Slice(p, 0, l)]
  BY <1>1 DEF MakeResult
<1>5. Slice(p, 0, l) = Slice(w, o, l)
  BY <1>2, SliceOfSlice
<1>6. IsSlice(S, p, w, o, l + 1)
  <2>1. l + 1 \in Nat
    OBVIOUS
  <2>2. QED
    BY <1>2, <2>1, SliceProperties
<1>7. Len(p) = IF o + (l + 1) <= n THEN l + 1 ELSE IF o <= n THEN n - o ELSE 0
  BY <1>3, <1>6 DEF IsSlice
<1>8. Len(p) > l <=> o + l < n
  BY <1>7
<1>9. p = Slice(w, o, Limit + 1) /\ Slice(p, 0, l) = Slice(w, o, Limit)
  BY <1>1, <1>2, <1>5
<1>10. MakeResult(p).more = (Len(p) > l) /\ MakeResult(p).info = Slice(p, 0, l)
  BY <1>4
<1>11. QED
  BY <1>1, <1>3, <1>8, <1>9, <1>10

-----------------------------------------------------------------------------
(* What the messages are                                                   *)

\* The greatest of some numbers up to a bound.
LEMMA MaxIs ==
  ASSUME NEW n \in Nat, NEW S, S \subseteq 1..n, S # {}
  PROVE  Max(S) \in S /\ \A i \in S : i <= Max(S)
<1> DEFINE Bounds == {b \in Nat : \A i \in S : i <= b}
<1>1. n \in Bounds
  OBVIOUS
<1>2. PICK m \in Bounds : \A b \in Bounds : m <= b
  BY <1>1, LeastNat
<1>3. m \in S
  <2> SUFFICES ASSUME m \notin S PROVE FALSE
    OBVIOUS
  <2>1. \A i \in S : i \in Nat /\ 1 <= i /\ i <= m /\ i # m
    BY <1>2
  <2>2. PICK j \in S : TRUE
    OBVIOUS
  <2>3. m - 1 \in Bounds /\ ~(m <= m - 1)
    BY <2>1, <2>2
  <2>4. QED
    BY <1>2, <2>3
<1>4. \A i \in S : m >= i
  BY <1>2
<1>5. Max(S) \in S /\ \A i \in S : Max(S) >= i
  BY <1>3, <1>4 DEF Max
<1>6. QED
  BY <1>5

\* A message is of one user or of one room, and rooms' messages are received.
LEMMA MessageIs ==
  ASSUME log \in Seq(Message), NEW t \in DOMAIN log
  PROVE  /\ t \in 1..Len(log)
         /\ \/ /\ log[t].side = "single" /\ log[t].with \in Peer
               /\ log[t].way \in {"sent", "received"}
            \/ /\ log[t].side = "muc" /\ log[t].with \in Room
               /\ log[t].way = "received"
         /\ log[t].with # Anyone
<1>1. DOMAIN log = 1..Len(log)
  BY LenProperties
<1>2. log[t] \in MessageType
  BY <1>1, ElementOfSeq, AskedAssumption
<1>3. \/ /\ log[t].side = "single" /\ log[t].with \in Peer
         /\ log[t].way \in {"sent", "received"}
      \/ /\ log[t].side = "muc" /\ log[t].with \in Room
         /\ log[t].way = "received"
  BY <1>2 DEF MessageType
<1>4. QED
  BY <1>1, <1>3, NamesAssumption

\* The matches of a side.
LEMMA HitsAre ==
  ASSUME log \in Seq(Message), NEW side
  PROVE  /\ Len(log) \in Nat /\ DOMAIN log = 1..Len(log)
         /\ Hits(side) \subseteq 1..Len(log) /\ IsFiniteSet(Hits(side))
         /\ \A t \in Hits(side) : log[t].side = side
<1>1. Len(log) \in Nat /\ DOMAIN log = 1..Len(log)
  BY LenProperties
<1>2. Hits(side) \in SUBSET (1..Len(log)) /\ \A t \in Hits(side) : log[t].side = side
  BY <1>1 DEF Hits
<1>3. IsFiniteSet(1..Len(log))
  BY <1>1, FS_Interval
<1>4. QED
  BY <1>1, <1>2, <1>3, FS_Subset

\* The matches in the conversation or the room of one, in its direction.
Class(side, t) == {s \in Hits(side) : log[s].with = log[t].with /\ log[s].way = log[t].way}

\* The messages of one direction of a conversation, and the newest of them.
LEMMA ClassIs ==
  ASSUME log \in Seq(Message), NEW side, NEW t \in Hits(side)
  PROVE  /\ t \in Class(side, t) /\ IsFiniteSet(Class(side, t))
         /\ Cardinality(Class(side, t)) \in Nat
         /\ Max(Class(side, t)) \in Class(side, t)
         /\ \A s \in Class(side, t) : s <= Max(Class(side, t))
         /\ \A s \in Class(side, t) : Class(side, s) = Class(side, t)
         /\ side \in {"single", "muc"} => Class(side, t) \subseteq Said(log[t].with)
<1>1. t \in Class(side, t) /\ Class(side, t) \in SUBSET Hits(side)
  BY DEF Class
<1>2. IsFiniteSet(Class(side, t)) /\ Cardinality(Class(side, t)) \in Nat
  BY <1>1, HitsAre, FS_Subset, FS_CardinalityType
<1>3. Len(log) \in Nat /\ Class(side, t) \subseteq 1..Len(log)
  BY <1>1, HitsAre
<1>4. Max(Class(side, t)) \in Class(side, t) /\ \A s \in Class(side, t) : s <= Max(Class(side, t))
  BY <1>1, <1>3, MaxIs
<1>5. \A s \in Class(side, t) : Class(side, s) = Class(side, t)
  BY DEF Class
<1>6. side \in {"single", "muc"} => Class(side, t) \subseteq Said(log[t].with)
  BY DEF Class, Said
<1>7. QED
  BY <1>1, <1>2, <1>4, <1>5, <1>6

\* The matches of a user or of a room.
LEMMA SaidIs ==
  ASSUME log \in Seq(Message), NEW who
  PROVE  /\ IsFiniteSet(Said(who)) /\ Cardinality(Said(who)) \in Nat
         /\ Said(who) \subseteq 1..Len(log)
         /\ who \in Peer => Said(who) = {t \in Hits("single") : log[t].with = who}
         /\ who \in Room => Said(who) = {t \in Hits("muc") : log[t].with = who}
<1>1. Said(who) \in SUBSET (1..Len(log))
  BY HitsAre DEF Said
<1>2. IsFiniteSet(1..Len(log))
  BY HitsAre, FS_Interval
<1>3. IsFiniteSet(Said(who)) /\ Cardinality(Said(who)) \in Nat
  BY <1>1, <1>2, FS_Subset, FS_CardinalityType
<1>4. \A t \in Hits("single") : log[t].side = "single" /\ log[t].with \in Peer
  <2> SUFFICES ASSUME NEW t \in Hits("single")
               PROVE  log[t].side = "single" /\ log[t].with \in Peer
    OBVIOUS
  <2>1. t \in DOMAIN log /\ log[t].side = "single"
    BY HitsAre
  <2>2. QED
    BY <2>1, MessageIs
<1>5. \A t \in Hits("muc") : log[t].side = "muc" /\ log[t].with \in Room
  <2> SUFFICES ASSUME NEW t \in Hits("muc")
               PROVE  log[t].side = "muc" /\ log[t].with \in Room
    OBVIOUS
  <2>1. t \in DOMAIN log /\ log[t].side = "muc"
    BY HitsAre
  <2>2. QED
    BY <2>1, MessageIs
<1>6. who \in Peer => Said(who) = {t \in Hits("single") : log[t].with = who}
  BY <1>4, <1>5, NamesAssumption DEF Said
<1>7. who \in Room => Said(who) = {t \in Hits("muc") : log[t].with = who}
  BY <1>4, <1>5, NamesAssumption DEF Said
<1>8. QED
  BY <1>1, <1>3, <1>6, <1>7

-----------------------------------------------------------------------------
(* The rows of the statements                                              *)

\* An entry names a message of its conversation or room,
Sound(e) ==
  /\ e \in Entry /\ e.time \in 1..Len(log)
  /\ log[e.time].side = e.side /\ log[e.time].with = e.with

\* and claims no match that is not there, unless a '_' in an id is in the way.
Honest(e) == Unsplit(e.with) => e.count <= Cardinality(Said(e.with))

\* A row of a message names it.
LEMMA RowIs ==
  ASSUME log \in Seq(Message), NEW t \in DOMAIN log, NEW c \in Nat
  PROVE  /\ Row(t, c).side = log[t].side /\ Row(t, c).with = log[t].with
         /\ Row(t, c).time = t /\ Row(t, c).count = c
         /\ Sound(Row(t, c))
<1>1. /\ Row(t, c).side = log[t].side /\ Row(t, c).with = log[t].with
      /\ Row(t, c).time = t /\ Row(t, c).count = c
  BY DEF Row
<1>2. /\ t \in 1..Len(log) /\ log[t].side \in {"single", "muc"}
      /\ log[t].with \in Peer \cup Room
  BY MessageIs
<1>3. t \in Nat
  <2>1. Len(log) \in Nat
    OBVIOUS
  <2>2. QED
    BY <1>2, <2>1
<1>4. Row(t, c) \in Entry
  BY <1>2, <1>3 DEF Row, Entry
<1>5. QED
  BY <1>1, <1>2, <1>4 DEF Sound

\* Entries that name different messages are finitely many.
LEMMA SoundTimed ==
  ASSUME log \in Seq(Message), NEW hits, \A e \in hits : Sound(e),
         \A e, f \in hits : e.time = f.time => e = f
  PROVE  Timed(hits)
<1> DEFINE g == [e \in hits |-> e.time]
<1>1. g \in Injection(hits, 1..Len(log))
  <2>1. g \in [hits -> 1..Len(log)]
    BY DEF Sound
  <2>2. \A e, f \in hits : g[e] = g[f] => e = f
    OBVIOUS
  <2>3. QED
    BY <2>1, <2>2 DEF Injection, IsInjective
<1>2. Len(log) \in Nat
  OBVIOUS
<1>3. IsFiniteSet(1..Len(log))
  BY <1>2, FS_Interval
<1>4. IsFiniteSet(hits)
  BY <1>1, <1>3, FS_Injection
<1>5. \A e \in hits : e.time \in Nat
  BY <1>2 DEF Sound
<1>6. QED
  BY <1>4, <1>5 DEF Timed

\* A group has the newest message of a conversation and direction, or of a
\* room, and counts its matches.
LEMMA GroupsAre ==
  ASSUME log \in Seq(Message), NEW side \in {"single", "muc"}
  PROVE  /\ \A r \in Groups(side) :
              /\ Sound(r) /\ Honest(r) /\ r.side = side /\ r.time \in Hits(side)
              /\ r.count = Cardinality(Class(side, r.time))
              /\ \A s \in Class(side, r.time) : s <= r.time
         /\ \A t \in Hits(side) : \E r \in Groups(side) : r.time \in Class(side, t)
         /\ Timed(Groups(side))
<1>1. Groups(side) =
        {Row(Max(Class(side, t)), Cardinality(Class(side, t))) : t \in Hits(side)}
  BY DEF Groups, Class
<1>2. ASSUME NEW t \in Hits(side), NEW r, r = Row(Max(Class(side, t)), Cardinality(Class(side, t)))
      PROVE  /\ Sound(r) /\ Honest(r) /\ r.side = side /\ r.time \in Hits(side)
             /\ r.time = Max(Class(side, t)) /\ r.time \in Class(side, t)
             /\ Class(side, r.time) = Class(side, t)
             /\ r = Row(r.time, Cardinality(Class(side, r.time)))
             /\ r.count = Cardinality(Class(side, r.time))
             /\ \A s \in Class(side, r.time) : s <= r.time
    <2>1. PICK m : m = Max(Class(side, t))
      OBVIOUS
    <2>2. PICK c \in Nat : c = Cardinality(Class(side, t))
      BY ClassIs
    <2>3. /\ m \in Class(side, t) /\ \A s \in Class(side, t) : s <= m
          /\ Class(side, m) = Class(side, t)
      BY <2>1, ClassIs
    <2>4. m \in Hits(side) /\ log[m].with = log[t].with
      BY <2>3 DEF Class
    <2>5. m \in DOMAIN log /\ log[m].side = side
      BY <2>4, HitsAre
    <2>6. /\ r = Row(m, c) /\ r.side = side /\ r.with = log[m].with /\ r.time = m
          /\ r.count = c /\ Sound(r)
      BY <1>2, <2>1, <2>2, <2>5, RowIs
    <2>7. Honest(r)
      <3>1. Class(side, m) \in SUBSET Said(r.with)
        BY <2>4, <2>6, ClassIs
      <3>2. IsFiniteSet(Said(r.with))
        BY SaidIs
      <3>3. Cardinality(Class(side, m)) <= Cardinality(Said(r.with))
        BY <3>1, <3>2, FS_Subset
      <3>4. QED
        BY <2>2, <2>3, <2>6, <3>3 DEF Honest
    <2>8. QED
      BY <2>1, <2>2, <2>3, <2>4, <2>6, <2>7
<1>3. ASSUME NEW r \in Groups(side)
      PROVE  /\ Sound(r) /\ Honest(r) /\ r.side = side /\ r.time \in Hits(side)
             /\ r = Row(r.time, Cardinality(Class(side, r.time)))
             /\ r.count = Cardinality(Class(side, r.time))
             /\ \A s \in Class(side, r.time) : s <= r.time
  <2>1. PICK t \in Hits(side) : r = Row(Max(Class(side, t)), Cardinality(Class(side, t)))
    BY <1>1
  <2>2. QED
    BY <1>2, <2>1
<1>4. ASSUME NEW t \in Hits(side) PROVE \E r \in Groups(side) : r.time \in Class(side, t)
  <2>1. PICK r \in Groups(side) : r = Row(Max(Class(side, t)), Cardinality(Class(side, t)))
    BY <1>1
  <2>2. QED
    BY <1>2, <2>1
<1>5. \A q, r \in Groups(side) : q.time = r.time => q = r
  <2> SUFFICES ASSUME NEW q \in Groups(side), NEW r \in Groups(side), q.time = r.time
               PROVE  q = r
    OBVIOUS
  <2>1. /\ q = Row(q.time, Cardinality(Class(side, q.time)))
        /\ r = Row(r.time, Cardinality(Class(side, r.time)))
    BY <1>3
  <2>2. QED
    BY <2>1
<1>6. Timed(Groups(side))
  <2>1. \A r \in Groups(side) : Sound(r)
    BY <1>3
  <2>2. QED
    BY <1>5, <2>1, SoundTimed
<1>7. QED
  BY <1>3, <1>4, <1>6

\* A room has one group, with its newest match and all of them counted.
LEMMA RoomGroups ==
  ASSUME log \in Seq(Message)
  PROVE  /\ \A r \in Groups("muc") :
              /\ r.with \in Room /\ r.time = Max(Said(r.with))
              /\ r.count = Cardinality(Said(r.with))
         /\ \A q, r \in Groups("muc") : q.with = r.with => q = r
<1>1. ASSUME NEW r \in Groups("muc")
      PROVE  r.with \in Room /\ r.time = Max(Said(r.with)) /\ r.count = Cardinality(Said(r.with))
  <2>1. /\ Sound(r) /\ r.side = "muc" /\ r.time \in Hits("muc")
        /\ r.count = Cardinality(Class("muc", r.time))
        /\ \A s \in Class("muc", r.time) : s <= r.time
    BY <1>1, GroupsAre
  <2>2. /\ r.time \in DOMAIN log /\ log[r.time].side = "muc" /\ log[r.time].with = r.with
    BY <2>1, HitsAre DEF Sound
  <2>3. r.with \in Room
    BY <2>2, MessageIs
  <2>4. Said(r.with) = {t \in Hits("muc") : log[t].with = r.with}
    BY <2>3, SaidIs
  <2>5. \A t \in Hits("muc") : log[t].way = "received"
    <3> SUFFICES ASSUME NEW t \in Hits("muc") PROVE log[t].way = "received"
      OBVIOUS
    <3>1. t \in DOMAIN log /\ log[t].side = "muc"
      BY HitsAre
    <3>2. QED
      BY <3>1, MessageIs
  <2>6. Class("muc", r.time) = Said(r.with)
    BY <2>1, <2>2, <2>4, <2>5 DEF Class
  <2>7. /\ Max(Class("muc", r.time)) \in Class("muc", r.time)
        /\ \A s \in Class("muc", r.time) : s <= Max(Class("muc", r.time))
        /\ r.time \in Class("muc", r.time)
    BY <2>1, ClassIs
  <2>8. PICK n \in Nat : n = Len(log)
    BY HitsAre
  <2>9. Class("muc", r.time) \subseteq 1..n
    BY <2>8, HitsAre DEF Class
  <2>10. PICK m \in 1..n : m = Max(Class("muc", r.time))
    BY <2>7, <2>9
  <2>11. PICK t \in 1..n : t = r.time
    BY <2>7, <2>9
  <2>12. m <= t /\ t <= m
    BY <2>1, <2>7, <2>10, <2>11
  <2>13. r.time = Max(Class("muc", r.time))
    BY <2>10, <2>11, <2>12
  <2>14. QED
    BY <2>1, <2>3, <2>6, <2>13
<1>2. ASSUME NEW q \in Groups("muc"), NEW r \in Groups("muc"), q.with = r.with PROVE q = r
  <2>1. q.time = r.time
    BY <1>1, <1>2
  <2>2. QED
    BY <2>1, GroupsAre DEF Timed
<1>3. QED
  BY <1>1, <1>2

\* The matches in one conversation or one room.
LEMMA InsideAre ==
  ASSUME log \in Seq(Message), NEW side \in {"single", "muc"}, NEW with
  PROVE  /\ \A r \in Inside(side, with) : Sound(r) /\ Honest(r) /\ r.side = side
         /\ Timed(Inside(side, with))
<1>1. ASSUME NEW r \in Inside(side, with)
      PROVE  Sound(r) /\ Honest(r) /\ r.side = side /\ r = Row(r.time, 1)
  <2>1. PICK t \in Hits(side) : r = Row(t, 1)
    BY DEF Inside
  <2>2. t \in DOMAIN log /\ log[t].side = side
    BY HitsAre
  <2>3. r.side = side /\ r.with = log[t].with /\ r.time = t /\ r.count = 1 /\ Sound(r)
    BY <2>1, <2>2, RowIs
  <2>4. t \in Said(r.with)
    BY <2>3 DEF Said
  <2>5. IsFiniteSet(Said(r.with)) /\ Cardinality(Said(r.with)) \in Nat
    BY SaidIs
  <2>6. Cardinality(Said(r.with)) # 0
    BY <2>4, <2>5, FS_EmptySet
  <2>7. Honest(r)
    BY <2>3, <2>5, <2>6 DEF Honest
  <2>8. QED
    BY <2>1, <2>3, <2>7
<1>2. \A q, r \in Inside(side, with) : q.time = r.time => q = r
  <2> SUFFICES ASSUME NEW q \in Inside(side, with), NEW r \in Inside(side, with), q.time = r.time
               PROVE  q = r
    OBVIOUS
  <2>1. q = Row(q.time, 1) /\ r = Row(r.time, 1)
    BY <1>1
  <2>2. QED
    BY <2>1
<1>3. Timed(Inside(side, with))
  BY <1>1, <1>2, SoundTimed
<1>4. QED
  BY <1>1, <1>3

\* The files.
LEMMA FilesAre ==
  ASSUME log \in Seq(Message)
  PROVE  (\A r \in Files : Sound(r)) /\ Timed(Files)
<1>1. ASSUME NEW r \in Files PROVE Sound(r) /\ r = Row(r.time, 1)
  <2>1. PICK t \in DOMAIN log : r = Row(t, 1)
    BY DEF Files
  <2>2. r.time = t /\ Sound(r)
    BY <2>1, RowIs
  <2>3. QED
    BY <2>1, <2>2
<1>2. \A q, r \in Files : q.time = r.time => q = r
  <2> SUFFICES ASSUME NEW q \in Files, NEW r \in Files, q.time = r.time PROVE q = r
    OBVIOUS
  <2>1. q = Row(q.time, 1) /\ r = Row(r.time, 1)
    BY <1>1
  <2>2. QED
    BY <2>1
<1>3. QED
  BY <1>1, <1>2, SoundTimed

-----------------------------------------------------------------------------
(* The two directions of a conversation merged                             *)

\* A conversation has one group for each direction.
LEMMA OneGroup ==
  ASSUME log \in Seq(Message), NEW g \in Groups("single"), NEW h \in Groups("single"),
         g.with = h.with, log[g.time].way = log[h.time].way
  PROVE  g = h
<1>1. /\ g.time \in Hits("single") /\ h.time \in Hits("single")
      /\ g.time \in 1..Len(log) /\ h.time \in 1..Len(log) /\ Len(log) \in Nat
      /\ log[g.time].with = g.with /\ log[h.time].with = h.with
      /\ \A s \in Class("single", g.time) : s <= g.time
      /\ \A s \in Class("single", h.time) : s <= h.time
  BY GroupsAre DEF Sound
<1>2. h.time \in Class("single", g.time) /\ g.time \in Class("single", h.time)
  BY <1>1 DEF Class
<1>3. g.time <= h.time /\ h.time <= g.time
  BY <1>1, <1>2
<1>4. g.time = h.time
  BY <1>1, <1>3
<1>5. QED
  BY <1>4, GroupsAre DEF Timed

\* A group of a conversation and its matches.
LEMMA GroupOf ==
  ASSUME log \in Seq(Message), NEW g \in Groups("single")
  PROVE  /\ g.with \in Peer /\ g.count \in Nat
         /\ g.count = Cardinality(Class("single", g.time))
         /\ IsFiniteSet(Class("single", g.time))
         /\ Class("single", g.time) \subseteq Said(g.with)
         /\ log[g.time].way \in {"sent", "received"}
         /\ \A s \in Class("single", g.time) : log[s].way = log[g.time].way
<1>1. /\ Sound(g) /\ g.time \in Hits("single") /\ g.side = "single"
      /\ g.count = Cardinality(Class("single", g.time))
  BY GroupsAre
<1>2. g.time \in DOMAIN log /\ log[g.time].side = "single" /\ log[g.time].with = g.with
  BY <1>1, HitsAre DEF Sound
<1>3. g.with \in Peer /\ log[g.time].way \in {"sent", "received"}
  BY <1>2, MessageIs
<1>4. /\ IsFiniteSet(Class("single", g.time)) /\ Cardinality(Class("single", g.time)) \in Nat
      /\ Class("single", g.time) \subseteq Said(g.with)
  BY <1>1, <1>2, ClassIs
<1>5. \A s \in Class("single", g.time) : log[s].way = log[g.time].way
  BY DEF Class
<1>6. QED
  BY <1>1, <1>3, <1>4, <1>5

\* The counts of a conversation's groups are those of different messages.
LEMMA SumCounts ==
  ASSUME log \in Seq(Message), NEW rows, rows \subseteq Groups("single"), rows # {},
         NEW who, \A g \in rows : g.with = who
  PROVE  \E all : /\ all \subseteq Said(who) /\ IsFiniteSet(all)
                  /\ SumOf(rows) = Cardinality(all)
                  /\ \A g \in rows : Class("single", g.time) \subseteq all
<1>1. PICK g \in rows : TRUE
  OBVIOUS
<1>2. /\ g.count \in Nat /\ g.count = Cardinality(Class("single", g.time))
      /\ IsFiniteSet(Class("single", g.time)) /\ Class("single", g.time) \subseteq Said(who)
      /\ log[g.time].way \in {"sent", "received"}
      /\ \A s \in Class("single", g.time) : log[s].way = log[g.time].way
  BY GroupOf
<1>3. CASE rows = {g}
  <2>1. SumOf(rows) = g.count
    BY <1>2, <1>3, SumOfOne
  <2>2. QED
    BY <1>2, <1>3, <2>1
<1>4. CASE rows # {g}
  <2>1. PICK h \in rows : h # g
    BY <1>4
  <2>2. /\ h.count \in Nat /\ h.count = Cardinality(Class("single", h.time))
        /\ IsFiniteSet(Class("single", h.time)) /\ Class("single", h.time) \subseteq Said(who)
        /\ log[h.time].way \in {"sent", "received"}
        /\ \A s \in Class("single", h.time) : log[s].way = log[h.time].way
    BY GroupOf
  <2>3. log[h.time].way # log[g.time].way
    BY <2>1, OneGroup
  <2>4. rows = {g, h}
    <3> SUFFICES ASSUME NEW k \in rows, k # g, k # h PROVE FALSE
      BY <1>1, <2>1
    <3>1. log[k.time].way \in {"sent", "received"}
      BY GroupOf
    <3>2. log[k.time].way # log[g.time].way
      BY OneGroup
    <3>3. log[k.time].way # log[h.time].way
      BY OneGroup
    <3>4. QED
      BY <1>2, <2>2, <2>3, <3>1, <3>2, <3>3
  <2>5. SumOf(rows) = g.count + h.count
    BY <1>2, <2>1, <2>2, <2>4, SumOfTwo
  <2> DEFINE all == Class("single", g.time) \cup Class("single", h.time)
  <2>6. Class("single", g.time) \cap Class("single", h.time) = {}
    BY <1>2, <2>2, <2>3
  <2>7. IsFiniteSet(all) /\ Cardinality(all) = g.count + h.count
    <3>1. /\ IsFiniteSet(all)
          /\ Cardinality(all) = Cardinality(Class("single", g.time))
               + Cardinality(Class("single", h.time))
               - Cardinality(Class("single", g.time) \cap Class("single", h.time))
      BY <1>2, <2>2, FS_Union
    <3>2. Cardinality(Class("single", g.time) \cap Class("single", h.time)) = 0
      BY <2>6, FS_EmptySet
    <3>3. QED
      BY <1>2, <2>2, <3>1, <3>2
  <2>8. QED
    BY <1>2, <2>2, <2>4, <2>5, <2>7
<1>5. QED
  BY <1>3, <1>4

\* Where the searcher's id has no '_', the first piece of the other's is in the
\* pair, and without a '_' in that either, the pair is the two users.
LEMMA FirstPiece ==
  ASSUME log \in Seq(Message), NEW g \in Groups("single"), Len(Parts[Searcher]) = 1
  PROVE  /\ Parts[g.with][1] \in Pair(g)
         /\ Len(Parts[g.with]) = 1 => Pair(g) = {Parts[g.with][1], Parts[Searcher][1]}
<1>1. /\ g.with \in Peer /\ log[g.time].way \in {"sent", "received"} /\ log[g.time].with = g.with
  BY GroupOf, GroupsAre DEF Sound
<1>2. PICK P \in Seq(Part) : P = Parts[g.with] /\ P # <<>>
  BY <1>1, PartsAssumption
<1>3. PICK S \in Seq(Part) : S = Parts[Searcher] /\ Len(S) = 1
  BY PartsAssumption
<1>4. Len(P) \in Nat \ {0}
  BY <1>2, EmptySeq
<1>5. CASE log[g.time].way = "sent"
  <2>1. Conversation(g) = S \o P
    BY <1>1, <1>2, <1>3, <1>5 DEF Conversation
  <2>2. (S \o P)[1] = S[1] /\ (S \o P)[2] = P[1]
    <3>1. PICK n \in Nat \ {0} : n = Len(P)
      BY <1>4
    <3>2. 1 \in 1..(Len(S) + Len(P)) /\ 2 \in 1..(Len(S) + Len(P))
      BY <1>3, <3>1
    <3>3. \A i \in 1..(Len(S) + Len(P)) :
            (S \o P)[i] = IF i <= Len(S) THEN S[i] ELSE P[i - Len(S)]
      BY ConcatProperties
    <3>4. (S \o P)[1] = S[1]
      BY <1>3, <3>2, <3>3
    <3>5. (S \o P)[2] = P[2 - Len(S)]
      BY <1>3, <3>2, <3>3
    <3>6. 2 - Len(S) = 1
      <4>1. PICK k \in Nat : k = Len(S) /\ k = 1
        BY <1>3
      <4>2. 2 - k = 1
        BY <4>1
      <4>3. QED
        BY <4>1, <4>2
    <3>7. QED
      BY <3>4, <3>5, <3>6
  <2>3. Pair(g) = {S[1], P[1]}
    BY <2>1, <2>2 DEF Pair
  <2>4. QED
    BY <1>2, <1>3, <2>3
<1>6. CASE log[g.time].way = "received"
  <2>1. Conversation(g) = P \o S
    BY <1>1, <1>2, <1>3, <1>6 DEF Conversation
  <2>2. (P \o S)[1] = P[1] /\ (Len(P) = 1 => (P \o S)[2] = S[1])
    BY <1>3, <1>4
  <2>3. P[1] \in Pair(g) /\ (Len(P) = 1 => Pair(g) = {P[1], S[1]})
    BY <2>1, <2>2 DEF Pair
  <2>4. QED
    BY <1>2, <1>3, <2>3
<1>7. QED
  BY <1>1, <1>5, <1>6

\* Then a row has the pair of its conversation, and no other row has.
LEMMA PairIs ==
  ASSUME log \in Seq(Message), NEW g \in Groups("single"), NEW h \in Groups("single"),
         Unsplit(h.with)
  PROVE  Pair(g) = Pair(h) <=> g.with = h.with
<1>1. g.with \in Peer /\ h.with \in Peer /\ Searcher \notin Peer
  BY GroupOf, PartsAssumption
<1>2. Len(Parts[h.with]) = 1 /\ Len(Parts[Searcher]) = 1
  BY <1>1 DEF Unsplit
<1>3. PICK P \in Seq(Part) : P = Parts[g.with] /\ P # <<>>
  BY <1>1, PartsAssumption
<1>4. PICK Q \in Seq(Part) : Q = Parts[h.with] /\ Len(Q) = 1
  BY <1>1, <1>2, PartsAssumption
<1>5. PICK S \in Seq(Part) : S = Parts[Searcher] /\ Len(S) = 1
  BY <1>2, PartsAssumption
<1>6. Len(P) \in Nat \ {0}
  BY <1>3, EmptySeq
<1>7. Pair(h) = {Q[1], S[1]} /\ P[1] \in Pair(g) /\ (Len(P) = 1 => Pair(g) = {P[1], S[1]})
  BY <1>2, <1>3, <1>4, <1>5, FirstPiece
<1>8. \A u, v \in Peer \cup {Searcher} : Parts[u] = Parts[v] => u = v
  BY PartsAssumption DEF IsInjective
<1>9. ASSUME NEW R \in Seq(Part), NEW T \in Seq(Part), Len(R) = 1, Len(T) = 1, R[1] = T[1]
      PROVE  R = T
  BY <1>9, SeqEqual
<1>10. Q[1] # S[1]
  <2>1. Q = S => h.with = Searcher
    BY <1>1, <1>4, <1>5, <1>8
  <2>2. Q # S
    BY <1>1, <2>1
  <2>3. QED
    BY <1>4, <1>5, <1>9, <2>2
<1>11. ASSUME g.with = h.with PROVE Pair(g) = Pair(h)
  BY <1>3, <1>4, <1>7, <1>11
<1>12. ASSUME Pair(g) = Pair(h) PROVE g.with = h.with
  <2>1. CASE Len(P) = 1
    <3>1. P[1] # S[1]
      <4>1. P # S
        BY <1>1, <1>3, <1>5, <1>8
      <4>2. QED
        BY <1>5, <1>9, <2>1, <4>1
    <3>2. P[1] = Q[1]
      BY <1>7, <1>12, <2>1, <3>1
    <3>3. P = Q
      BY <1>4, <1>9, <2>1, <3>2
    <3>4. QED
      BY <1>1, <1>3, <1>4, <1>8, <3>3
  <2>2. CASE Len(P) # 1
    <3>1. 1 \in 1..(Len(P) - 1)
      <4>1. PICK n \in Nat \ {0} : n = Len(P)
        BY <1>6
      <4>2. QED
        BY <2>2, <4>1
    <3>2. P[1] # Q[Len(Q)] /\ P[1] # S[Len(S)]
      BY <1>1, <1>3, <1>4, <1>5, <3>1, PartsAssumption
    <3>3. QED
      BY <1>4, <1>5, <1>7, <1>12, <3>2
  <2>3. QED
    BY <2>1, <2>2
<1>13. QED
  BY <1>11, <1>12

\* What handle_sql_result makes of some groups, before it sorts the entries.
Merged(rows) == {[h EXCEPT !.count = SumOf(SamePair(rows, h))] : h \in Newer(rows)}

\* That is what handle_sql_result returns.
LEMMA MergeIs ==
  ASSUME NEW rows
  PROVE  MergeDirections(rows) = Oldest(Merged(rows))
BY DEF MergeDirections, Merged

\* The rows merged into one are of one conversation, as far as no '_' is in the way.
LEMMA SamePairIs ==
  ASSUME log \in Seq(Message), NEW rows, rows \subseteq Groups("single"), NEW h \in Newer(rows)
  PROVE  /\ h \in rows /\ h \in SamePair(rows, h) /\ SamePair(rows, h) \subseteq Groups("single")
         /\ SumOf(SamePair(rows, h)) \in Nat
         /\ Unsplit(h.with) => SamePair(rows, h) = {g \in rows : g.with = h.with}
         /\ Unsplit(h.with) => \A g \in rows : g.with = h.with => g.time <= h.time
<1>1. /\ h \in rows /\ h \in SamePair(rows, h) /\ SamePair(rows, h) \subseteq Groups("single")
      /\ \A g \in SamePair(rows, h) : g.time <= h.time
  BY DEF Newer, SamePair
<1>2. ASSUME Unsplit(h.with) PROVE SamePair(rows, h) = {g \in rows : g.with = h.with}
  BY <1>1, <1>2, PairIs DEF SamePair
<1>3. SumOf(SamePair(rows, h)) \in Nat
  <2>1. PICK n \in Nat : n = Len(log)
    BY HitsAre
  <2>2. IsFiniteSet(Groups("single"))
    BY GroupsAre DEF Timed
  <2>3. SamePair(rows, h) \in SUBSET Groups("single")
    BY <1>1
  <2>4. IsFiniteSet(SamePair(rows, h))
    BY <2>2, <2>3, FS_Subset
  <2>5. ASSUME NEW g \in SamePair(rows, h) PROVE g.count \in Nat /\ g.count <= n
    <3>1. g.count \in Nat /\ g.count = Cardinality(Class("single", g.time))
      BY <1>1, GroupOf
    <3>2. Class("single", g.time) \in SUBSET (1..n)
      BY <2>1, HitsAre DEF Class
    <3>3. IsFiniteSet(1..n) /\ Cardinality(1..n) = IF 1 > n THEN 0 ELSE n - 1 + 1
      BY FS_Interval
    <3>4. Cardinality(Class("single", g.time)) <= Cardinality(1..n)
      BY <3>2, <3>3, FS_Subset
    <3>5. QED
      BY <3>1, <3>3, <3>4
  <2>6. QED
    BY <2>1, <2>4, <2>5, SumIsNat
<1>4. QED
  BY <1>1, <1>2, <1>3

\* Each conversation has one entry, with matches of its own, as far as no '_' is
\* in the way.
LEMMA MergedAre ==
  ASSUME log \in Seq(Message), NEW rows, rows \subseteq Groups("single")
  PROVE  /\ \A e \in Merged(rows) : Sound(e) /\ Honest(e) /\ e.side = "single"
         /\ Timed(Merged(rows))
         /\ \A e, f \in Merged(rows) : e.with = f.with /\ Unsplit(e.with) => e = f
<1>1. ASSUME NEW h \in Newer(rows), NEW e, e = [h EXCEPT !.count = SumOf(SamePair(rows, h))]
      PROVE  /\ Sound(e) /\ Honest(e) /\ e.side = "single"
             /\ e.with = h.with /\ e.time = h.time
  <2>1. /\ h \in rows /\ h \in Groups("single") /\ SamePair(rows, h) \subseteq Groups("single")
        /\ h \in SamePair(rows, h) /\ SumOf(SamePair(rows, h)) \in Nat
        /\ Unsplit(h.with) => \A g \in SamePair(rows, h) : g.with = h.with
    BY SamePairIs
  <2>2. Sound(h) /\ h.side = "single"
    BY <2>1, GroupsAre
  <2>3. h \in Entry
    BY <2>2 DEF Sound
  <2>4. /\ e.side = h.side /\ e.with = h.with /\ e.time = h.time
        /\ e.count = SumOf(SamePair(rows, h))
        /\ e.count \in Nat => e \in Entry
    BY <1>1, <2>3 DEF Entry
  <2>5. Sound(e)
    BY <2>1, <2>2, <2>4 DEF Sound
  <2>6. Honest(e)
    <3> SUFFICES ASSUME Unsplit(h.with)
                 PROVE  SumOf(SamePair(rows, h)) <= Cardinality(Said(h.with))
      BY <2>4 DEF Honest
    <3>1. SamePair(rows, h) # {} /\ \A g \in SamePair(rows, h) : g.with = h.with
      BY <2>1
    <3>2. PICK all : /\ all \subseteq Said(h.with) /\ IsFiniteSet(all)
                     /\ SumOf(SamePair(rows, h)) = Cardinality(all)
      BY <2>1, <3>1, SumCounts
    <3>3. all \in SUBSET Said(h.with) /\ IsFiniteSet(Said(h.with))
      BY <3>2, SaidIs
    <3>4. Cardinality(all) <= Cardinality(Said(h.with))
      BY <3>2, <3>3, FS_Subset
    <3>5. QED
      BY <3>2, <3>4
  <2>7. QED
    BY <2>2, <2>4, <2>5, <2>6
<1>2. ASSUME NEW e \in Merged(rows)
      PROVE  \E h \in Newer(rows) : e = [h EXCEPT !.count = SumOf(SamePair(rows, h))]
  BY DEF Merged
<1>3. \A e \in Merged(rows) : Sound(e) /\ Honest(e) /\ e.side = "single"
  BY <1>1, <1>2
<1>4. \A g, h \in Newer(rows) : g.time = h.time => g = h
  <2>1. Newer(rows) \subseteq Groups("single")
    BY DEF Newer
  <2>2. QED
    BY <2>1, GroupsAre DEF Timed
<1>5. \A g, h \in Newer(rows) : g.with = h.with /\ Unsplit(g.with) => g = h
  <2> SUFFICES ASSUME NEW g \in Newer(rows), NEW h \in Newer(rows), g.with = h.with,
                      Unsplit(g.with)
               PROVE  g = h
    OBVIOUS
  <2>1. g \in Groups("single") /\ h \in Groups("single") /\ g.time <= h.time /\ h.time <= g.time
    BY SamePairIs
  <2>2. g.time \in Nat /\ h.time \in Nat
    BY <2>1, GroupsAre DEF Timed
  <2>3. QED
    BY <1>4, <2>1, <2>2
<1>6. ASSUME NEW e \in Merged(rows), NEW f \in Merged(rows)
      PROVE  (e.time = f.time => e = f) /\ (e.with = f.with /\ Unsplit(e.with) => e = f)
  <2>1. PICK g \in Newer(rows) : e = [g EXCEPT !.count = SumOf(SamePair(rows, g))]
    BY <1>2
  <2>2. PICK h \in Newer(rows) : f = [h EXCEPT !.count = SumOf(SamePair(rows, h))]
    BY <1>2
  <2>3. e.time = g.time /\ e.with = g.with
    BY <1>1, <2>1
  <2>4. f.time = h.time /\ f.with = h.with
    BY <1>1, <2>2
  <2>5. QED
    BY <1>4, <1>5, <2>1, <2>2, <2>3, <2>4
<1>7. Timed(Merged(rows))
  BY <1>3, <1>6, SoundTimed
<1>8. QED
  BY <1>3, <1>6, <1>7

\* When the statement returned every group, the entry of a conversation has its
\* newest match, whoever wrote it, and counts all.
LEMMA MergedWhole ==
  ASSUME log \in Seq(Message), NEW e \in Merged(Groups("single"))
  PROVE  /\ e.with \in Peer
         /\ Unsplit(e.with) => /\ e.time = Max(Said(e.with))
                               /\ e.count = Cardinality(Said(e.with))
<1> DEFINE rows == Groups("single")
<1>1. PICK h \in Newer(rows) : e = [h EXCEPT !.count = SumOf(SamePair(rows, h))]
  BY DEF Merged
<1>2. h \in rows
  BY DEF Newer
<1>3. h \in Entry /\ h.time \in 1..Len(log) /\ h.time \in Hits("single") /\ log[h.time].with = h.with
  BY <1>2, GroupsAre DEF Sound
<1>4. e.with = h.with /\ e.time = h.time /\ e.count = SumOf(SamePair(rows, h))
  BY <1>1, <1>3 DEF Entry
<1>5. h.with \in Peer
  BY <1>2, GroupOf
<1> SUFFICES ASSUME Unsplit(h.with)
             PROVE  h.time = Max(Said(h.with)) /\ SumOf(SamePair(rows, h)) = Cardinality(Said(h.with))
  BY <1>4, <1>5
<1>6. Said(h.with) = {t \in Hits("single") : log[t].with = h.with}
  BY <1>5, SaidIs
<1>7. /\ SamePair(rows, h) \subseteq rows /\ SamePair(rows, h) # {}
      /\ SamePair(rows, h) = {g \in rows : g.with = h.with}
      /\ \A g \in rows : g.with = h.with => g.time <= h.time
  BY SamePairIs
<1>8. PICK all : /\ all \subseteq Said(h.with) /\ IsFiniteSet(all)
                 /\ SumOf(SamePair(rows, h)) = Cardinality(all)
                 /\ \A g \in SamePair(rows, h) : Class("single", g.time) \subseteq all
  BY <1>7, SumCounts
<1>9. ASSUME NEW t \in Said(h.with)
      PROVE  t \in all /\ t <= h.time
  <2>1. t \in Hits("single") /\ log[t].with = h.with
    BY <1>6
  <2>2. PICK g \in rows : g.time \in Class("single", t)
    BY <2>1, GroupsAre
  <2>3. Class("single", g.time) = Class("single", t) /\ t \in Class("single", t)
    BY <2>1, <2>2, ClassIs
  <2>4. log[g.time].with = h.with
    BY <2>1, <2>2 DEF Class
  <2>5. g.with = h.with /\ \A s \in Class("single", g.time) : s <= g.time
    BY <2>4, GroupsAre DEF Sound
  <2>6. t \in all
    BY <1>7, <1>8, <2>3, <2>5
  <2>7. t <= g.time /\ g.time <= h.time
    BY <1>7, <2>3, <2>5
  <2>8. t \in Nat /\ g.time \in Nat /\ h.time \in Nat
    <3>1. Len(log) \in Nat
      OBVIOUS
    <3>2. t \in 1..Len(log)
      BY SaidIs
    <3>3. g.time \in Nat
      BY GroupsAre DEF Timed
    <3>4. QED
      BY <1>3, <3>1, <3>2, <3>3
  <2>9. QED
    BY <2>6, <2>7, <2>8
<1>10. all = Said(h.with)
  BY <1>8, <1>9
<1>11. h.time = Max(Said(h.with))
  <2>1. h.time \in Said(h.with)
    BY <1>3, <1>6
  <2>2. PICK n \in Nat : n = Len(log)
    BY HitsAre
  <2>3. Said(h.with) \subseteq 1..n
    BY <2>2, SaidIs
  <2>4. PICK m \in 1..n : m = Max(Said(h.with)) /\ m \in Said(h.with) /\ \A t \in Said(h.with) : t <= m
    BY <2>1, <2>3, MaxIs
  <2>5. PICK t \in 1..n : t = h.time
    BY <2>1, <2>3
  <2>6. m <= t /\ t <= m
    BY <1>9, <2>1, <2>4, <2>5
  <2>7. QED
    BY <2>4, <2>5, <2>6
<1>12. QED
  BY <1>8, <1>10, <1>11

-----------------------------------------------------------------------------
(* One answer                                                              *)

\* The entries of a side's answer are among these.
OfSide(hits, side) ==
  /\ Timed(hits)
  /\ \A e \in hits : Sound(e) /\ (side # "file" => e.side = side /\ Honest(e))

\* The rows of every statement are such entries.
LEMMA OfSideIs ==
  ASSUME log \in Seq(Message)
  PROVE  /\ \A side \in {"single", "muc"} : \A with :
              OfSide(Groups(side), side) /\ OfSide(Inside(side, with), side)
         /\ OfSide(Files, "file")
         /\ \A rows : rows \subseteq Groups("single") => OfSide(Merged(rows), "single")
<1>1. \A side \in {"single", "muc"} : OfSide(Groups(side), side)
  BY GroupsAre DEF OfSide
<1>2. \A side \in {"single", "muc"} : \A with : OfSide(Inside(side, with), side)
  BY InsideAre DEF OfSide
<1>3. OfSide(Files, "file")
  BY FilesAre DEF OfSide
<1>4. \A rows : rows \subseteq Groups("single") => OfSide(Merged(rows), "single")
  BY MergedAre DEF OfSide
<1>5. QED
  BY <1>1, <1>2, <1>3, <1>4

\* A side answers with a list of such entries, cut to the length asked for.
Answers(r, side) ==
  \E hits : OfSide(hits, side) /\ \E list \in Seq(hits) : r = MakeResult(list)

\* A statement returns groups of its side.
LEMMA RowsAre ==
  ASSUME log \in Seq(Message), NEW side \in {"single", "muc"}, NEW o \in Nat, NEW l \in Nat
  PROVE  Rows(side, o, l) \in Seq(Groups(side)) /\ ToSet(Rows(side, o, l)) \subseteq Groups(side)
<1>1. /\ Newest(Groups(side)) \in Seq(Groups(side))
      /\ ToSet(Newest(Groups(side))) = Groups(side)
  BY GroupsAre, NewestProperties
<1>2. QED
  BY <1>1, SliceKeeps DEF Rows

\* Every side answers with entries of its own.
LEMMA SidesAnswer ==
  ASSUME log \in Seq(Message), NEW with, NEW o \in Nat
  PROVE  /\ Answers(HistoryUser(with, o), "single")
         /\ Answers(HistoryMuc(with, o), "muc")
         /\ Answers(HistoryFile(o), "file")
<1>1. PICK l \in Nat : l = Limit + 1
  BY BoundAssumption
<1>2. ASSUME NEW hits, NEW side, OfSide(hits, side)
      PROVE  /\ Slice(Newest(hits), o, l) \in Seq(hits) /\ Slice(Oldest(hits), o, l) \in Seq(hits)
  <2>1. Timed(hits)
    BY <1>2 DEF OfSide
  <2>2. Newest(hits) \in Seq(hits) /\ Oldest(hits) \in Seq(hits)
    BY <2>1, NewestProperties, OldestProperties
  <2>3. QED
    BY <2>2, SliceKeeps
<1>3. Answers(HistoryUser(with, o), "single")
  <2>1. CASE with = Anyone
    <3>1. PICK rows : rows = ToSet(Rows("single", o, l))
      OBVIOUS
    <3>2. rows \subseteq Groups("single")
      BY <3>1, RowsAre
    <3>3. OfSide(Merged(rows), "single")
      BY <3>2, OfSideIs
    <3>4. Oldest(Merged(rows)) \in Seq(Merged(rows))
      BY <3>3, OldestProperties DEF OfSide
    <3>5. HistoryUser(with, o) = MakeResult(Oldest(Merged(rows)))
      BY <1>1, <2>1, <3>1, MergeIs DEF HistoryUser
    <3>6. QED
      BY <3>3, <3>4, <3>5 DEF Answers
  <2>2. CASE with # Anyone
    <3>1. OfSide(Inside("single", with), "single")
      BY OfSideIs
    <3>2. HistoryUser(with, o) = MakeResult(Slice(Newest(Inside("single", with)), o, l))
      BY <1>1, <2>2 DEF HistoryUser
    <3>3. QED
      BY <1>2, <3>1, <3>2 DEF Answers
  <2>3. QED
    BY <2>1, <2>2
<1>4. Answers(HistoryMuc(with, o), "muc")
  <2>1. CASE with = Anyone
    <3>1. OfSide(Groups("muc"), "muc")
      BY OfSideIs
    <3>2. HistoryMuc(with, o) = MakeResult(Slice(Newest(Groups("muc")), o, l))
      BY <1>1, <2>1 DEF HistoryMuc, Rows
    <3>3. QED
      BY <1>2, <3>1, <3>2 DEF Answers
  <2>2. CASE with # Anyone
    <3>1. OfSide(Inside("muc", with), "muc")
      BY OfSideIs
    <3>2. HistoryMuc(with, o) = MakeResult(Slice(Oldest(Inside("muc", with)), o, l))
      BY <1>1, <2>2 DEF HistoryMuc
    <3>3. QED
      BY <1>2, <3>1, <3>2 DEF Answers
  <2>3. QED
    BY <2>1, <2>2
<1>5. Answers(HistoryFile(o), "file")
  <2>1. OfSide(Files, "file")
    BY OfSideIs
  <2>2. HistoryFile(o) = MakeResult(Slice(Newest(Files), o, l))
    BY <1>1 DEF HistoryFile
  <2>3. QED
    BY <1>2, <2>1, <2>2 DEF Answers
<1>6. QED
  BY <1>3, <1>4, <1>5

\* What such an answer holds.
LEMMA AnswerHolds ==
  ASSUME NEW r, NEW side, Answers(r, side)
  PROVE  /\ r.more \in BOOLEAN
         /\ \A e \in ToSet(r.info) : Sound(e) /\ (side # "file" => e.side = side /\ Honest(e))
         /\ \A e, f \in ToSet(r.info) : e.time = f.time => e = f
<1>1. PICK hits : OfSide(hits, side) /\ \E list \in Seq(hits) : r = MakeResult(list)
  BY DEF Answers
<1>2. PICK list \in Seq(hits) : r = MakeResult(list)
  BY <1>1
<1>3. Limit \in Nat /\ 0 \in Nat
  BY BoundAssumption
<1>4. r.more = (Len(list) > Limit) /\ r.info = Slice(list, 0, Limit)
  BY <1>2 DEF MakeResult
<1>5. Slice(list, 0, Limit) \in Seq(hits)
  BY <1>3, SliceKeeps
<1>6. ToSet(r.info) \subseteq hits
  BY <1>4, <1>5, LenProperties DEF ToSet
<1>7. QED
  BY <1>1, <1>4, <1>6 DEF OfSide, Timed

\* Either conversations and rooms are searched, or files.
SidesTogether(sides) == sides \subseteq {"single", "muc"} \/ sides \subseteq {"file"}

\* Every result is that of one of the sides.
LEMMA ResultsAre ==
  ASSUME log \in Seq(Message), NEW sides, NEW with, NEW o \in Nat, NEW r \in Results(sides, with, o)
  PROVE  \E side \in sides : Answers(r, side) /\ r = IF side = "single" THEN HistoryUser(with, o)
                                             ELSE IF side = "muc" THEN HistoryMuc(with, o)
                                             ELSE HistoryFile(o)
<1>1. \/ "single" \in sides /\ r = HistoryUser(with, o)
      \/ "muc" \in sides /\ r = HistoryMuc(with, o)
      \/ "file" \in sides /\ r = HistoryFile(o)
  BY DEF Results
<1>2. QED
  BY <1>1, SidesAnswer

\* The entries of all sides.
Entries(sides, with, o) == UNION {ToSet(r.info) : r \in Results(sides, with, o)}

\* They are true of the messages, and no two have the same time.
LEMMA EntriesAre ==
  ASSUME log \in Seq(Message), NEW sides, SidesTogether(sides), NEW with, NEW o \in Nat
  PROVE  /\ \A e \in Entries(sides, with, o) : Sound(e) /\ ("file" \notin sides => Honest(e))
         /\ Timed(Entries(sides, with, o))
<1> DEFINE E == Entries(sides, with, o)
<1>1. ASSUME NEW e \in E
      PROVE  \E side \in sides : \E r : Answers(r, side) /\ e \in ToSet(r.info)
                /\ r = IF side = "single" THEN HistoryUser(with, o)
                       ELSE IF side = "muc" THEN HistoryMuc(with, o)
                       ELSE HistoryFile(o)
  <2>1. PICK r \in Results(sides, with, o) : e \in ToSet(r.info)
    BY DEF Entries
  <2>2. QED
    BY <2>1, ResultsAre
<1> HIDE DEF E
<1>2. ASSUME NEW e \in E PROVE Sound(e) /\ ("file" \notin sides => Honest(e))
  <2>1. PICK side \in sides : \E r : Answers(r, side) /\ e \in ToSet(r.info)
    BY <1>1
  <2>2. PICK r : Answers(r, side) /\ e \in ToSet(r.info)
    BY <2>1
  <2>3. Sound(e) /\ (side # "file" => Honest(e))
    BY <2>2, AnswerHolds
  <2>4. QED
    BY <2>3
<1>3. ASSUME NEW e \in E, NEW f \in E, e.time = f.time PROVE e = f
  <2>1. PICK side \in sides : \E r : Answers(r, side) /\ e \in ToSet(r.info)
                /\ r = IF side = "single" THEN HistoryUser(with, o)
                       ELSE IF side = "muc" THEN HistoryMuc(with, o)
                       ELSE HistoryFile(o)
    BY <1>1
  <2>2. PICK r : Answers(r, side) /\ e \in ToSet(r.info)
                /\ r = IF side = "single" THEN HistoryUser(with, o)
                       ELSE IF side = "muc" THEN HistoryMuc(with, o)
                       ELSE HistoryFile(o)
    BY <2>1
  <2>3. PICK other \in sides : \E q : Answers(q, other) /\ f \in ToSet(q.info)
                /\ q = IF other = "single" THEN HistoryUser(with, o)
                       ELSE IF other = "muc" THEN HistoryMuc(with, o)
                       ELSE HistoryFile(o)
    BY <1>1
  <2>4. PICK q : Answers(q, other) /\ f \in ToSet(q.info)
                /\ q = IF other = "single" THEN HistoryUser(with, o)
                       ELSE IF other = "muc" THEN HistoryMuc(with, o)
                       ELSE HistoryFile(o)
    BY <2>3
  <2>5. CASE side = other
    <3>1. q = r
      BY <2>2, <2>4, <2>5
    <3>2. QED
      BY <1>3, <2>2, <2>4, <3>1, AnswerHolds
  <2>6. CASE side # other
    <3>1. side # "file" /\ other # "file"
      BY <2>6 DEF SidesTogether
    <3>2. e.side = side /\ f.side = other
      BY <2>2, <2>4, <3>1, AnswerHolds
    <3>3. e.side = f.side
      BY <1>2, <1>3 DEF Sound
    <3>4. QED
      BY <2>6, <3>2, <3>3
  <2>7. QED
    BY <2>5, <2>6
<1>4. Timed(E)
  BY <1>2, <1>3, SoundTimed
<1>5. QED
  BY <1>2, <1>4 DEF E

\* A page holds some of the entries of its sides.
LEMMA PageIs ==
  ASSUME log \in Seq(Message), NEW sides, SidesTogether(sides), NEW with, NEW o \in Nat
  PROVE  LET page == Page(sides, with, o)
         IN /\ page.more \in BOOLEAN
            /\ page.more <=> \E r \in Results(sides, with, o) : r.more
            /\ page.info = Slice(Newest(Entries(sides, with, o)), 0, Limit)
            /\ page.info \in Seq(Entry) /\ Len(page.info) <= Limit
            /\ IsInjective(page.info)
            /\ ToSet(page.info) \subseteq Entries(sides, with, o)
            /\ \A e \in ToSet(page.info) : Sound(e) /\ ("file" \notin sides => Honest(e))
<1> DEFINE page == Page(sides, with, o)
           E == Entries(sides, with, o)
<1>1. /\ page.more = \E r \in Results(sides, with, o) : r.more
      /\ page.info = Slice(Newest(E), 0, Limit)
  BY DEF Page, Entries
<1>2. /\ \A e \in E : Sound(e) /\ ("file" \notin sides => Honest(e))
      /\ Timed(E)
  BY EntriesAre
<1> HIDE DEF page, E
<1>3. Newest(E) \in Seq(E) /\ ToSet(Newest(E)) = E /\ IsInjective(Newest(E))
  BY <1>2, NewestProperties
<1>4. Limit \in Nat /\ 0 \in Nat
  BY BoundAssumption
<1>5. /\ page.info \in Seq(E) /\ Len(page.info) <= Limit
      /\ ToSet(page.info) \subseteq E /\ IsInjective(page.info)
  BY <1>1, <1>3, <1>4, SliceKeeps
<1>6. E \subseteq Entry
  BY <1>2 DEF Sound
<1>7. page.info \in Seq(Entry)
  BY <1>5, <1>6, SeqMonotonic
<1>8. QED
  BY <1>1, <1>2, <1>5, <1>7 DEF page, E

-----------------------------------------------------------------------------
(* The invariant of the types and the entries                              *)

Walks ==
  [asked : Asked \cup {NoRequest}, offset : Nat, shown : Seq(Entry), more : BOOLEAN,
   kept : BOOLEAN]

Typed ==
  /\ log \in Seq(Message) /\ Len(log) <= MaxMessages
  /\ walk \in Walks /\ Len(walk.shown) <= walk.offset

\* A walk that was not asked for has not begun.
Begun ==
  IF walk.asked = NoRequest THEN walk = NotStarted
  ELSE walk.asked \in Asked /\ walk.offset >= Limit

\* What has been shown is there, whatever came in since.
ShownSound ==
  \A e \in ToSet(walk.shown) : Sound(e) /\ (walk.asked.sides # {"file"} => Honest(e))

IInv == Typed /\ Begun /\ ShownSound

\* What a client may ask for.
LEMMA AskedIs ==
  ASSUME NEW asked \in Asked
  PROVE  /\ asked # NoRequest /\ SidesTogether(asked.sides)
         /\ "file" \in asked.sides => asked.sides = {"file"} /\ asked.with = Anyone
         /\ \/ asked.with = Anyone
            \/ asked.with \in Peer /\ asked.sides = {"single"}
            \/ asked.with \in Room /\ asked.sides = {"muc"}
<1>1. asked \in RequestType
  BY AskedAssumption
<1>2. \/ asked \in [sides : (SUBSET {"single", "muc"}) \ {{}}, with : {Anyone}]
      \/ asked \in [sides : {{"single"}}, with : Peer]
      \/ asked \in [sides : {{"muc"}}, with : Room]
      \/ asked \in [sides : {{"file"}}, with : {Anyone}]
  BY <1>1 DEF RequestType
<1>3. /\ SidesTogether(asked.sides) /\ asked.sides # {}
      /\ "file" \in asked.sides => asked.sides = {"file"} /\ asked.with = Anyone
      /\ \/ asked.with = Anyone
         \/ asked.with \in Peer /\ asked.sides = {"single"}
         \/ asked.with \in Room /\ asked.sides = {"muc"}
  <2>1. CASE asked \in [sides : (SUBSET {"single", "muc"}) \ {{}}, with : {Anyone}]
    BY <2>1 DEF SidesTogether
  <2>2. CASE asked \in [sides : {{"single"}}, with : Peer]
    BY <2>2 DEF SidesTogether
  <2>3. CASE asked \in [sides : {{"muc"}}, with : Room]
    BY <2>3 DEF SidesTogether
  <2>4. CASE asked \in [sides : {{"file"}}, with : {Anyone}]
    BY <2>4 DEF SidesTogether
  <2>5. QED
    BY <1>2, <2>1, <2>2, <2>3, <2>4
<1>4. asked # NoRequest
  BY <1>3 DEF NoRequest
<1>5. QED
  BY <1>3, <1>4

\* A step shows a page, receives a message, or changes nothing.
LEMMA StepIs ==
  ASSUME Begun, [Next]_vars
  PROVE  \/ UNCHANGED vars
         \/ \E asked \in Asked : \E answered \in SUBSET asked.sides :
              Show(asked, answered) /\ walk.asked \in {NoRequest, asked}
         \/ \E m \in Message : Receive(m)
<1>1. CASE Search
  <2>1. PICK asked \in IF walk.asked = NoRequest THEN Asked ELSE {walk.asked} :
          \E answered \in SUBSET asked.sides : Show(asked, answered)
    BY <1>1 DEF Search
  <2>2. asked \in Asked /\ walk.asked \in {NoRequest, asked}
    BY <2>1 DEF Begun
  <2>3. QED
    BY <2>1, <2>2
<1>2. QED
  BY <1>1 DEF Next

\* What a page does to the walk.
LEMMA ShowIs ==
  ASSUME Typed, NEW asked \in Asked, NEW answered \in SUBSET asked.sides,
         Show(asked, answered)
  PROVE  /\ log' = log /\ walk.more
         /\ walk'.asked = asked /\ walk'.offset = walk.offset + Limit
         /\ walk'.shown = walk.shown \o Page(answered, asked.with, walk.offset).info
         /\ walk'.more = Page(answered, asked.with, walk.offset).more
         /\ walk'.kept = (walk.kept /\ answered = asked.sides)
         /\ walk' \in Walks /\ Len(walk'.shown) <= walk'.offset
         /\ SidesTogether(answered)
<1> DEFINE page == Page(answered, asked.with, walk.offset)
<1>1. walk \in Walks /\ Len(walk.shown) <= walk.offset /\ log \in Seq(Message)
  BY DEF Typed
<1>2. /\ log' = log /\ walk.more
      /\ walk' = [walk EXCEPT !.asked = asked, !.offset = walk.offset + Limit,
                              !.shown = walk.shown \o page.info, !.more = page.more,
                              !.kept = walk.kept /\ answered = asked.sides]
  BY DEF Show
<1>3. SidesTogether(answered)
  <2>1. SidesTogether(asked.sides)
    BY AskedIs
  <2>2. QED
    BY <2>1 DEF SidesTogether
<1>4. walk.offset \in Nat /\ walk.shown \in Seq(Entry) /\ walk.kept \in BOOLEAN
  BY <1>1 DEF Walks
<1>5. page.more \in BOOLEAN /\ page.info \in Seq(Entry) /\ Len(page.info) <= Limit
  BY <1>1, <1>3, <1>4, PageIs
<1> HIDE DEF page
<1>6. /\ walk.shown \o page.info \in Seq(Entry)
      /\ Len(walk.shown \o page.info) = Len(walk.shown) + Len(page.info)
  BY <1>4, <1>5, ConcatProperties
<1>7. Limit \in Nat /\ walk.offset + Limit \in Nat
  BY <1>4, BoundAssumption
<1>8. PICK k : k = (walk.kept /\ answered = asked.sides)
  OBVIOUS
<1>9. k \in BOOLEAN
  BY <1>8
<1>10. walk' = [walk EXCEPT !.asked = asked, !.offset = walk.offset + Limit,
                            !.shown = walk.shown \o page.info, !.more = page.more, !.kept = k]
  BY <1>2, <1>8
<1>11. /\ walk'.asked = asked /\ walk'.offset = walk.offset + Limit
       /\ walk'.shown = walk.shown \o page.info /\ walk'.more = page.more /\ walk'.kept = k
       /\ walk' \in Walks
  BY <1>1, <1>5, <1>6, <1>7, <1>9, <1>10 DEF Walks
<1>12. Len(walk'.shown) <= walk'.offset
  <2>1. PICK n \in Nat : n = Len(walk.shown)
    BY <1>4
  <2>2. PICK m \in Nat : m = Len(page.info)
    BY <1>5
  <2>3. PICK o \in Nat : o = walk.offset
    BY <1>4
  <2>4. n <= o /\ m <= Limit
    BY <1>1, <1>5, <2>1, <2>2, <2>3
  <2>5. Len(walk'.shown) = n + m /\ walk'.offset = o + Limit
    BY <1>6, <1>11, <2>1, <2>2, <2>3
  <2>6. n + m <= o + Limit
    BY <1>7, <2>4
  <2>7. QED
    BY <2>5, <2>6
<1>13. QED
  BY <1>2, <1>3, <1>8, <1>11, <1>12 DEF page

\* A message that arrives goes behind the others.
LEMMA ReceiveIs ==
  ASSUME Typed, NEW m \in Message, Receive(m)
  PROVE  /\ log' \in Seq(Message) /\ Len(log) \in Nat
         /\ Len(log') = Len(log) + 1 /\ Len(log') <= MaxMessages
         /\ \A t \in 1..Len(log) : log'[t] = log[t]
         /\ walk' = [walk EXCEPT !.kept = (walk = NotStarted)]
<1>1. log \in Seq(Message) /\ Len(log) \in Nat
  BY DEF Typed
<1>2. Len(log) < MaxMessages /\ log' = Append(log, m)
  BY DEF Receive
<1>3. /\ log' \in Seq(Message) /\ Len(log') = Len(log) + 1
      /\ \A t \in 1..Len(log) : log'[t] = log[t]
  BY <1>1, <1>2
<1>4. Len(log) + 1 <= MaxMessages
  BY <1>1, <1>2, BoundAssumption
<1>5. QED
  BY <1>1, <1>3, <1>4 DEF Receive

\* An entry stays true.
LEMMA StaysSound ==
  ASSUME Typed, [Next]_vars, Begun, NEW e
  PROVE  (Sound(e) => Sound(e)') /\ (Sound(e) /\ Honest(e) => Honest(e)')
<1>1. log \in Seq(Message) /\ Len(log) \in Nat
  BY DEF Typed
<1>2. CASE log' = log
  BY <1>2 DEF Sound, Honest, Said, Hits
<1>3. ASSUME NEW m \in Message, Receive(m)
      PROVE  (Sound(e) => Sound(e)') /\ (Sound(e) /\ Honest(e) => Honest(e)')
  <2>1. /\ log' \in Seq(Message) /\ Len(log') = Len(log) + 1
        /\ \A t \in 1..Len(log) : log'[t] = log[t]
    BY <1>3, ReceiveIs
  <2>2. 1..Len(log) \subseteq 1..Len(log') /\ Len(log') \in Nat
    BY <1>1, <2>1
  <2>3. Sound(e) => Sound(e)'
    BY <2>1, <2>2 DEF Sound
  <2>4. DOMAIN log = 1..Len(log) /\ DOMAIN log' = 1..Len(log')
    BY <1>1, <2>1, LenProperties
  <2>5. Said(e.with) \in SUBSET (Said(e.with)')
    BY <2>1, <2>2, <2>4 DEF Said, Hits
  <2>6. IsFiniteSet(Said(e.with)') /\ Said(e.with)' \in SUBSET (1..Len(log'))
    <3>1. Said(e.with)' \in SUBSET (1..Len(log'))
      BY <2>4 DEF Said, Hits
    <3>2. IsFiniteSet(1..Len(log'))
      BY <2>2, FS_Interval
    <3>3. QED
      BY <3>1, <3>2, FS_Subset
  <2>7. /\ Cardinality(Said(e.with)) <= Cardinality(Said(e.with)')
        /\ Cardinality(Said(e.with)') \in Nat /\ Cardinality(Said(e.with)) \in Nat
    BY <2>5, <2>6, FS_Subset, FS_CardinalityType
  <2>8. Sound(e) => e.count \in Nat
    BY DEF Sound, Entry
  <2>9. Sound(e) /\ Honest(e) => Honest(e)'
    <3>1. PICK a \in Nat : a = Cardinality(Said(e.with))
      BY <2>7
    <3>2. PICK b \in Nat : b = Cardinality(Said(e.with)')
      BY <2>7
    <3>3. a <= b
      BY <2>7, <3>1, <3>2
    <3>4. Honest(e) <=> (Unsplit(e.with) => e.count <= a)
      BY <3>1 DEF Honest
    <3>5. Honest(e)' <=> (Unsplit(e.with) => e.count <= b)
      BY <3>2 DEF Honest, Unsplit
    <3>6. QED
      BY <2>8, <3>3, <3>4, <3>5
  <2>10. QED
    BY <2>3, <2>9
<1>4. QED
  BY <1>2, <1>3, StepIs DEF vars, Show

\* Nothing is shown at first.
LEMMA InitInv == Init => IInv
<1> SUFFICES ASSUME Init PROVE IInv
  OBVIOUS
<1>1. log = <<>> /\ walk = NotStarted
  BY DEF Init
<1>2. <<>> \in Seq(Message) /\ Len(<<>>) = 0 /\ <<>> \in Seq(Entry)
  BY EmptySeq
<1>3. log \in Seq(Message) /\ Len(log) <= MaxMessages
  BY <1>1, <1>2, BoundAssumption
<1>4. walk \in Walks /\ Len(walk.shown) <= walk.offset
  BY <1>1, <1>2 DEF NotStarted, Walks
<1>5. ToSet(walk.shown) = {}
  BY <1>1 DEF NotStarted, ToSet
<1>6. Begun
  BY <1>1 DEF Begun, NotStarted
<1>7. QED
  BY <1>3, <1>4, <1>5, <1>6 DEF IInv, Typed, ShownSound

\* The set of one list after another.
LEMMA ConcatHolds ==
  ASSUME NEW S, NEW s \in Seq(S), NEW t \in Seq(S)
  PROVE  ToSet(s \o t) = ToSet(s) \cup ToSet(t)
<1>1. PICK m \in Nat : m = Len(s)
  OBVIOUS
<1>2. PICK n \in Nat : n = Len(t)
  OBVIOUS
<1>3. /\ s \o t \in Seq(S) /\ Len(s \o t) = m + n
      /\ \A i \in 1..(m + n) : (s \o t)[i] = IF i <= m THEN s[i] ELSE t[i - m]
  BY <1>1, <1>2, ConcatProperties
<1>4. DOMAIN s = 1..m /\ DOMAIN t = 1..n /\ DOMAIN (s \o t) = 1..(m + n)
  BY <1>1, <1>2, <1>3, LenProperties
<1>5. ASSUME NEW i \in 1..(m + n) PROVE (s \o t)[i] \in ToSet(s) \cup ToSet(t)
  <2>1. CASE i <= m
    BY <1>3, <1>4, <2>1 DEF ToSet
  <2>2. CASE ~(i <= m)
    <3>1. i - m \in 1..n
      BY <2>2
    <3>2. QED
      BY <1>3, <1>4, <2>2, <3>1 DEF ToSet
  <2>3. QED
    BY <2>1, <2>2
<1>6. ASSUME NEW i \in 1..m PROVE s[i] \in ToSet(s \o t)
  <2>1. i \in 1..(m + n) /\ i <= m
    OBVIOUS
  <2>2. QED
    BY <1>3, <1>4, <2>1 DEF ToSet
<1>7. ASSUME NEW i \in 1..n PROVE t[i] \in ToSet(s \o t)
  <2>1. i + m \in 1..(m + n) /\ ~(i + m <= m) /\ (i + m) - m = i
    OBVIOUS
  <2>2. QED
    BY <1>3, <1>4, <2>1 DEF ToSet
<1>8. QED
  BY <1>4, <1>5, <1>6, <1>7 DEF ToSet

\* Every step keeps it.
LEMMA InvStep == IInv /\ [Next]_vars => IInv'
<1> SUFFICES ASSUME IInv, [Next]_vars PROVE IInv'
  OBVIOUS
<1>0. Typed /\ Begun /\ ShownSound
  BY DEF IInv
<1>1. CASE UNCHANGED vars
  <2>1. log' = log /\ walk' = walk
    BY <1>1 DEF vars
  <2>2. Typed' /\ Begun'
    BY <1>0, <2>1 DEF Typed, Begun
  <2>3. ShownSound'
    BY <1>0, <2>1, StaysSound DEF ShownSound
  <2>4. QED
    BY <2>2, <2>3 DEF IInv
<1>2. ASSUME NEW asked \in Asked, NEW answered \in SUBSET asked.sides,
             Show(asked, answered), walk.asked \in {NoRequest, asked}
      PROVE  IInv'
  <2> DEFINE page == Page(answered, asked.with, walk.offset)
  <2>1. /\ log' = log /\ walk'.asked = asked /\ walk'.offset = walk.offset + Limit
        /\ walk'.shown = walk.shown \o page.info
        /\ walk' \in Walks /\ Len(walk'.shown) <= walk'.offset
        /\ SidesTogether(answered)
    BY <1>0, <1>2, ShowIs
  <2>2. Typed'
    BY <1>0, <2>1 DEF Typed
  <2>3. walk.offset \in Nat /\ walk.shown \in Seq(Entry) /\ log \in Seq(Message)
    BY <1>0 DEF Typed, Walks
  <2>4. Begun'
    <3>1. asked # NoRequest
      BY AskedIs
    <3>2. walk.offset + Limit >= Limit
      BY <2>3, BoundAssumption
    <3>3. QED
      BY <2>1, <3>1, <3>2 DEF Begun
  <2>5. /\ page.info \in Seq(Entry)
        /\ \A e \in ToSet(page.info) : Sound(e) /\ ("file" \notin answered => Honest(e))
    BY <2>1, <2>3, PageIs
  <2> HIDE DEF page
  <2>6. ToSet(walk'.shown) = ToSet(walk.shown) \cup ToSet(page.info)
    BY <2>1, <2>3, <2>5, ConcatHolds
  <2>7. ASSUME NEW e \in ToSet(walk'.shown)
        PROVE  Sound(e) /\ (asked.sides # {"file"} => Honest(e))
    <3>1. CASE e \in ToSet(page.info)
      <4>1. asked.sides # {"file"} => "file" \notin answered
        BY AskedIs
      <4>2. QED
        BY <2>5, <3>1, <4>1
    <3>2. CASE e \in ToSet(walk.shown)
      <4>1. walk.asked # NoRequest
        <5>1. walk.asked = NoRequest => ToSet(walk.shown) = {}
          BY <1>0 DEF Begun, NotStarted, ToSet
        <5>2. QED
          BY <3>2, <5>1
      <4>2. walk.asked = asked
        BY <1>2, <4>1
      <4>3. QED
        BY <1>0, <3>2, <4>2 DEF ShownSound
    <3>3. QED
      BY <2>6, <3>1, <3>2
  <2>8. ASSUME NEW e \in ToSet(walk.shown)'
        PROVE  Sound(e)' /\ (walk'.asked.sides # {"file"} => Honest(e)')
    <3>1. e \in ToSet(walk'.shown)
      BY DEF ToSet
    <3>2. QED
      BY <1>0, <2>1, <2>7, <3>1, StaysSound
  <2>9. ShownSound'
    BY <2>8 DEF ShownSound
  <2>10. QED
    BY <2>2, <2>4, <2>9 DEF IInv
<1>3. ASSUME NEW m \in Message, Receive(m)
      PROVE  IInv'
  <2>1. /\ log' \in Seq(Message) /\ Len(log') <= MaxMessages
        /\ walk' = [walk EXCEPT !.kept = (walk = NotStarted)]
    BY <1>0, <1>3, ReceiveIs
  <2>2. PICK k \in BOOLEAN : k = (walk = NotStarted)
    OBVIOUS
  <2>3. walk' = [walk EXCEPT !.kept = k] /\ walk \in Walks
    BY <1>0, <2>1, <2>2 DEF Typed
  <2>4. /\ walk' \in Walks /\ walk'.asked = walk.asked /\ walk'.offset = walk.offset
        /\ walk'.shown = walk.shown
    BY <2>3 DEF Walks
  <2>5. Typed'
    BY <1>0, <2>1, <2>4 DEF Typed
  <2>6. Begun'
    <3>1. CASE walk.asked = NoRequest
      <4>1. walk = NotStarted
        BY <1>0, <3>1 DEF Begun
      <4>2. walk' = [walk EXCEPT !.kept = TRUE]
        BY <2>2, <2>3, <4>1
      <4>3. walk' = NotStarted
        BY <4>1, <4>2 DEF NotStarted
      <4>4. QED
        BY <2>4, <3>1, <4>3 DEF Begun
    <3>2. CASE walk.asked # NoRequest
      BY <1>0, <2>4, <3>2 DEF Begun
    <3>3. QED
      BY <3>1, <3>2
  <2>7. ShownSound'
    BY <1>0, <2>4, StaysSound DEF ShownSound
  <2>8. QED
    BY <2>5, <2>6, <2>7 DEF IInv
<1>4. QED
  BY <1>0, <1>1, <1>2, <1>3, StepIs

\* The search keeps its types, however messages arrive and answers are late.
THEOREM SearchTypeCorrect == Spec => []TypeOK
<1>1. IInv => TypeOK
  BY DEF IInv, Typed, Walks, TypeOK
<1>2. Spec => []IInv
  BY InitInv, InvStep, PTL DEF Spec
<1>3. QED
  BY <1>1, <1>2, PTL

\* Wherever the pages are cut, whatever arrives or is late meanwhile, an entry
\* names a message of its conversation and claims no match that is not there;
\* with a '_' in an id it may claim those of other conversations.
THEOREM CountsNeverExceed == Spec => []CountsAreBounded
<1>1. IInv => CountsAreBounded
  <2> SUFFICES ASSUME IInv, NEW i \in DOMAIN walk.shown
               PROVE  LET e == walk.shown[i]
                      IN /\ log[e.time].side = e.side /\ log[e.time].with = e.with
                         /\ walk.asked.sides # {"file"} /\ Unsplit(e.with)
                              => e.count <= Cardinality(Said(e.with))
    BY DEF CountsAreBounded
  <2>1. walk.shown[i] \in ToSet(walk.shown)
    BY DEF ToSet
  <2>2. QED
    BY <2>1 DEF IInv, ShownSound, Sound, Honest
<1>2. Spec => []IInv
  BY InitInv, InvStep, PTL DEF Spec
<1>3. QED
  BY <1>1, <1>2, PTL

-----------------------------------------------------------------------------
(* What a search of one side has to show                                   *)

\* The searches whose pages are pieces of one list.
Tilable(asked) == asked.sides \in {{"muc"}, {"file"}} \/ asked.with \in Peer

\* What they are, what they have to show, and whose results they show.
LEMMA TilableIs ==
  ASSUME NEW asked \in Asked, Tilable(asked)
  PROVE  \/ /\ asked.sides = {"file"} /\ asked.with \notin Room
            /\ Whole(asked) = Newest(Files)
         \/ /\ asked.sides = {"single"} /\ asked.with \in Peer
            /\ asked.with \notin Room /\ asked.with # Anyone
            /\ Whole(asked) = Newest(Inside("single", asked.with))
         \/ /\ asked.sides = {"muc"} /\ asked.with \in Room /\ asked.with # Anyone
            /\ Whole(asked) = Oldest(Inside("muc", asked.with))
         \/ /\ asked.sides = {"muc"} /\ asked.with = Anyone /\ asked.with \notin Room
            /\ Whole(asked) = Newest(Groups("muc"))
<1>1. /\ "file" \in asked.sides => asked.sides = {"file"} /\ asked.with = Anyone
      /\ \/ asked.with = Anyone
         \/ asked.with \in Peer /\ asked.sides = {"single"}
         \/ asked.with \in Room /\ asked.sides = {"muc"}
  BY AskedIs
<1>2. {"file"} # {"single"} /\ {"file"} # {"muc"} /\ {"single"} # {"muc"}
  OBVIOUS
<1>3. \/ asked.sides = {"file"} /\ asked.with = Anyone
      \/ asked.sides = {"single"} /\ asked.with \in Peer
      \/ asked.sides = {"muc"} /\ asked.with \in Room
      \/ asked.sides = {"muc"} /\ asked.with = Anyone
  BY <1>1, <1>2, NamesAssumption DEF Tilable
<1>4. QED
  BY <1>2, <1>3, NamesAssumption DEF Whole

\* It is a list of different entries, in the order of their times but inside a
\* room.
LEMMA WholeIs ==
  ASSUME log \in Seq(Message), NEW asked \in Asked, Tilable(asked)
  PROVE  \E hits : /\ Timed(hits) /\ Whole(asked) \in Seq(hits)
                   /\ IsInjective(Whole(asked))
                   /\ asked.with \notin Room => Falling(Whole(asked))
<1>1. Timed(Files) /\ Timed(Groups("muc"))
  BY FilesAre, GroupsAre
<1>2. Timed(Inside("single", asked.with)) /\ Timed(Inside("muc", asked.with))
  BY InsideAre
<1>3. \/ \E hits : Timed(hits) /\ Whole(asked) = Newest(hits)
      \/ asked.with \in Room /\ \E hits : Timed(hits) /\ Whole(asked) = Oldest(hits)
  BY <1>1, <1>2, TilableIs
<1>4. QED
  BY <1>3, NewestProperties, OldestProperties

\* There is one result, with a piece of it.
LEMMA OneResult ==
  ASSUME NEW asked \in Asked, Tilable(asked), NEW o \in Nat
  PROVE  Results(asked.sides, asked.with, o) = {MakeResult(Slice(Whole(asked), o, Limit + 1))}
<1> DEFINE with == asked.with
           result == MakeResult(Slice(Whole(asked), o, Limit + 1))
<1>1. /\ Results({"file"}, with, o) = {HistoryFile(o)}
      /\ Results({"single"}, with, o) = {HistoryUser(with, o)}
      /\ Results({"muc"}, with, o) = {HistoryMuc(with, o)}
  BY DEF Results
<1>2. \/ asked.sides = {"file"} /\ HistoryFile(o) = result
      \/ asked.sides = {"single"} /\ HistoryUser(with, o) = result
      \/ asked.sides = {"muc"} /\ HistoryMuc(with, o) = result
  BY TilableIs DEF HistoryFile, HistoryUser, HistoryMuc, Rows
<1>3. QED
  BY <1>1, <1>2

\* A page shows a piece of it, and says whether it goes on.
LEMMA PageOfWhole ==
  ASSUME log \in Seq(Message), NEW asked \in Asked, Tilable(asked), NEW o \in Nat
  PROVE  LET page == Page(asked.sides, asked.with, o)
             part == Slice(Whole(asked), o, Limit)
         IN /\ page.more <=> o + Limit < Len(Whole(asked))
            /\ Len(page.info) = Len(part) /\ ToSet(page.info) = ToSet(part)
            /\ asked.with \notin Room => page.info = part
<1> DEFINE sides == asked.sides
           with == asked.with
           page == Page(sides, with, o)
<1>1. PICK whole : whole = Whole(asked)
  OBVIOUS
<1>2. PICK part : part = Slice(whole, o, Limit)
  OBVIOUS
<1>3. PICK hits : /\ Timed(hits) /\ whole \in Seq(hits) /\ IsInjective(whole)
                  /\ with \notin Room => Falling(whole)
  BY <1>1, WholeIs
<1>4. PICK result : result = MakeResult(Slice(whole, o, Limit + 1))
  OBVIOUS
<1>5. Results(sides, with, o) = {result}
  BY <1>1, <1>4, OneResult
<1>6. (result.more <=> o + Limit < Len(whole)) /\ result.info = part
  BY <1>2, <1>3, <1>4, ResultOfSlice
<1>7. /\ page.more <=> result.more
      /\ page.info = Slice(Newest(ToSet(part)), 0, Limit)
  <2>1. /\ page.more <=> \E r \in Results(sides, with, o) : r.more
        /\ page.info = Slice(Newest(UNION {ToSet(r.info) : r \in Results(sides, with, o)}), 0, Limit)
    BY DEF Page
  <2>2. UNION {ToSet(r.info) : r \in Results(sides, with, o)} = ToSet(part)
    BY <1>5, <1>6
  <2>3. QED
    BY <1>5, <2>1, <2>2
<1>8. Limit \in Nat
  BY BoundAssumption
<1>9. /\ part \in Seq(hits) /\ Len(part) <= Limit /\ IsInjective(part)
      /\ with \notin Room => Falling(part)
  BY <1>2, <1>3, <1>8, SliceKeeps
<1>10. ToSet(part) \subseteq hits
  BY <1>9, LenProperties DEF ToSet
<1>11. PICK sorted : sorted = Newest(ToSet(part))
  OBVIOUS
<1>12. /\ sorted \in Seq(ToSet(part)) /\ Len(sorted) = Len(part)
       /\ ToSet(sorted) = ToSet(part)
  <2>1. Timed(ToSet(part))
    BY <1>3, <1>10, SomeTimed
  <2>2. Cardinality(ToSet(part)) = Len(part)
    BY <1>9, InjectiveLength
  <2>3. QED
    BY <1>11, <2>1, <2>2, NewestProperties
<1>13. page.info = sorted
  <2>1. Len(sorted) <= Limit
    BY <1>9, <1>12
  <2>2. Slice(sorted, 0, Limit) = sorted
    BY <1>8, <1>12, <2>1, SliceAll
  <2>3. QED
    BY <1>7, <1>11, <2>2
<1>14. with \notin Room => sorted = part
  BY <1>3, <1>9, <1>11, FallingIsNewest
<1>15. QED
  BY <1>1, <1>2, <1>6, <1>7, <1>12, <1>13, <1>14

-----------------------------------------------------------------------------
(* The pages one after another                                             *)

\* What has been shown is what stands before the offset, and `more` says whether
\* something stands behind it.
Before(whole, with, offset, shown) ==
  LET part == Slice(whole, 0, offset)
  IN /\ Len(shown) = Len(part) /\ ToSet(shown) = ToSet(part)
     /\ with \notin Room => shown = part
Tiled ==
  walk.kept /\ walk.asked # NoRequest /\ Tilable(walk.asked) =>
    /\ Before(Whole(walk.asked), walk.asked.with, walk.offset, walk.shown)
    /\ walk.more <=> walk.offset < Len(Whole(walk.asked))

\* The next page adds the next piece.
LEMMA PageTiles ==
  ASSUME log \in Seq(Message), NEW asked \in Asked, Tilable(asked), NEW o \in Nat,
         NEW shown \in Seq(Entry), o <= Len(Whole(asked)),
         Before(Whole(asked), asked.with, o, shown)
  PROVE  LET page == Page(asked.sides, asked.with, o)
         IN /\ Before(Whole(asked), asked.with, o + Limit, shown \o page.info)
            /\ page.more <=> o + Limit < Len(Whole(asked))
<1> DEFINE with == asked.with
<1>1. PICK whole : whole = Whole(asked)
  OBVIOUS
<1>2. PICK hits : whole \in Seq(hits)
  BY <1>1, WholeIs
<1>3. PICK page : page = Page(asked.sides, asked.with, o)
  OBVIOUS
<1>4. PICK part : part = Slice(whole, o, Limit)
  OBVIOUS
<1>5. PICK before : before = Slice(whole, 0, o)
  OBVIOUS
<1>6. PICK after : after = Slice(whole, 0, o + Limit)
  OBVIOUS
<1>7. /\ page.more <=> o + Limit < Len(whole)
      /\ Len(page.info) = Len(part) /\ ToSet(page.info) = ToSet(part)
      /\ with \notin Room => page.info = part
  BY <1>1, <1>3, <1>4, PageOfWhole
<1>8. /\ Len(shown) = Len(before) /\ ToSet(shown) = ToSet(before)
      /\ with \notin Room => shown = before
  BY <1>1, <1>5 DEF Before
<1>9. Limit \in Nat /\ o + Limit \in Nat
  BY BoundAssumption
<1>10. before \o part = after
  BY <1>1, <1>2, <1>4, <1>5, <1>6, <1>9, SliceTiles
<1>11. before \in Seq(hits) /\ part \in Seq(hits)
  BY <1>2, <1>4, <1>5, <1>9, SliceKeeps
<1>12. page.info \in Seq(Entry)
  <2>1. SidesTogether(asked.sides)
    BY AskedIs
  <2>2. QED
    BY <1>3, <2>1, PageIs
<1>13. Len(shown \o page.info) = Len(after)
  <2>1. Len(shown \o page.info) = Len(shown) + Len(page.info)
    BY <1>12, ConcatProperties
  <2>2. Len(before \o part) = Len(before) + Len(part)
    BY <1>11, ConcatProperties
  <2>3. QED
    BY <1>7, <1>8, <1>10, <2>1, <2>2
<1>14. ToSet(shown \o page.info) = ToSet(after)
  <2>1. ToSet(shown \o page.info) = ToSet(shown) \cup ToSet(page.info)
    BY <1>12, ConcatHolds
  <2>2. ToSet(before \o part) = ToSet(before) \cup ToSet(part)
    BY <1>11, ConcatHolds
  <2>3. QED
    BY <1>7, <1>8, <1>10, <2>1, <2>2
<1>15. with \notin Room => shown \o page.info = after
  BY <1>7, <1>8, <1>10
<1>16. Before(whole, with, o + Limit, shown \o page.info)
  BY <1>6, <1>13, <1>14, <1>15 DEF Before
<1>17. QED
  BY <1>1, <1>3, <1>7, <1>16

\* What there is to show depends on the messages only.
LEMMA SameMessages ==
  ASSUME log' = log
  PROVE  /\ \A who : Said(who)' = Said(who)
         /\ Groups("single")' = Groups("single")
         /\ Whole(walk.asked)' = Whole(walk'.asked)
<1>1. \A side : Hits(side)' = Hits(side)
  BY DEF Hits
<1>2. \A t, c : Row(t, c)' = Row(t, c)
  BY DEF Row
<1>3. \A side : Groups(side)' = Groups(side)
  BY <1>1, <1>2 DEF Groups
<1>4. \A side : Inside(side, walk.asked.with)' = Inside(side, walk'.asked.with)
  BY <1>1, <1>2 DEF Inside
<1>5. Files' = Files
  BY <1>2 DEF Files
<1>6. \A who : Said(who)' = Said(who)
  BY <1>1 DEF Said
<1>7. Whole(walk.asked)' = Whole(walk'.asked)
  BY <1>3, <1>4, <1>5 DEF Whole
<1>8. QED
  BY <1>3, <1>6, <1>7

\* It holds before any page.
LEMMA TiledInit == Init => Tiled
BY DEF Init, NotStarted, Tiled

\* Every step keeps it.
LEMMA TiledStep == IInv /\ Tiled /\ [Next]_vars => Tiled'
<1> SUFFICES ASSUME IInv, Tiled, [Next]_vars PROVE Tiled'
  OBVIOUS
<1>0. Typed /\ Begun
  BY DEF IInv
<1>1. CASE UNCHANGED vars
  <2>1. log' = log /\ walk' = walk
    BY <1>1 DEF vars
  <2>2. Whole(walk.asked)' = Whole(walk.asked)
    BY <2>1, SameMessages
  <2>3. QED
    BY <2>1, <2>2 DEF Tiled
<1>2. ASSUME NEW asked \in Asked, NEW answered \in SUBSET asked.sides,
             Show(asked, answered), walk.asked \in {NoRequest, asked}
      PROVE  Tiled'
  <2>1. /\ log' = log /\ walk.more
        /\ walk'.asked = asked /\ walk'.offset = walk.offset + Limit
        /\ walk'.shown = walk.shown \o Page(answered, asked.with, walk.offset).info
        /\ walk'.more = Page(answered, asked.with, walk.offset).more
        /\ walk'.kept = (walk.kept /\ answered = asked.sides)
    BY <1>0, <1>2, ShowIs
  <2>2. walk.offset \in Nat /\ walk.shown \in Seq(Entry) /\ log \in Seq(Message)
    BY <1>0 DEF Typed, Walks
  <2> SUFFICES ASSUME walk'.kept, Tilable(asked)
               PROVE  /\ Before(Whole(asked), asked.with, walk'.offset, walk'.shown)
                      /\ walk'.more <=> walk'.offset < Len(Whole(asked))
    <3>1. Whole(walk.asked)' = Whole(asked)
      BY <2>1, SameMessages
    <3>2. QED
      BY <2>1, <3>1 DEF Tiled, Tilable
  <2>3. walk.kept /\ answered = asked.sides
    BY <2>1
  <2>4. PICK whole : whole = Whole(asked)
    OBVIOUS
  <2>5. PICK hits : whole \in Seq(hits)
    BY <2>2, <2>4, WholeIs
  <2>6. walk.offset <= Len(whole) /\ Before(whole, asked.with, walk.offset, walk.shown)
    <3>1. CASE walk.asked = NoRequest
      <4>1. walk.offset = 0 /\ walk.shown = <<>>
        BY <1>0, <3>1 DEF Begun, NotStarted
      <4>2. Slice(whole, 0, 0) = <<>>
        BY <2>5, SliceNothing
      <4>3. QED
        BY <2>5, <4>1, <4>2 DEF Before
    <3>2. CASE walk.asked # NoRequest
      <4>1. walk.asked = asked
        BY <1>2, <3>2
      <4>2. /\ Before(whole, asked.with, walk.offset, walk.shown)
            /\ walk.offset < Len(whole)
        BY <2>1, <2>3, <2>4, <3>2, <4>1 DEF Tiled
      <4>3. PICK n \in Nat : n = Len(whole)
        BY <2>5
      <4>4. QED
        BY <2>2, <4>2, <4>3
    <3>3. QED
      BY <3>1, <3>2
  <2>7. QED
    BY <2>1, <2>2, <2>3, <2>4, <2>6, PageTiles
<1>3. ASSUME NEW m \in Message, Receive(m)
      PROVE  Tiled'
  <2>1. PICK k \in BOOLEAN : k = (walk = NotStarted)
    OBVIOUS
  <2>2. walk' = [walk EXCEPT !.kept = k] /\ walk \in Walks
    BY <1>0, <1>3, <2>1, ReceiveIs DEF Typed
  <2>3. walk'.kept = k /\ walk'.asked = walk.asked
    BY <2>2 DEF Walks
  <2>4. walk = NotStarted => walk.asked = NoRequest
    BY DEF NotStarted
  <2>5. QED
    BY <2>1, <2>3, <2>4 DEF Tiled
<1>4. QED
  BY <1>0, <1>1, <1>2, <1>3, StepIs

\* The pages of a search of rooms, of files, and inside a conversation or a room
\* are consecutive pieces of all there is to show, and hasMore says whether it
\* goes on.
THEOREM PagesOfOneSideTile == Spec => []PagesTile
<1>1. IInv /\ Tiled => PagesTile
  <2> SUFFICES ASSUME IInv, Tiled, walk.kept, Tilable(walk.asked)
               PROVE  LET whole == Whole(walk.asked)
                          shown == walk.shown
                      IN /\ Len(shown) <= Len(whole)
                         /\ ToSet(shown) = ToSet(SubSeq(whole, 1, Len(shown)))
                         /\ walk.asked.with \notin Room => IsPrefix(shown, whole)
                         /\ walk.more <=> Len(shown) < Len(whole)
    BY DEF PagesTile, Tilable
  <2>1. /\ log \in Seq(Message) /\ walk.offset \in Nat /\ walk.shown \in Seq(Entry)
        /\ Begun
    BY DEF IInv, Typed, Walks
  <2>2. walk.asked # NoRequest
    BY NamesAssumption DEF Tilable, NoRequest
  <2>3. walk.asked \in Asked
    BY <2>1, <2>2 DEF Begun
  <2>4. PICK whole : whole = Whole(walk.asked)
    OBVIOUS
  <2>5. PICK hits : whole \in Seq(hits)
    BY <2>1, <2>3, <2>4, WholeIs
  <2>6. PICK n \in Nat : n = Len(whole)
    BY <2>5
  <2>7. PICK o \in Nat : o = walk.offset
    BY <2>1
  <2>8. PICK shown \in Seq(Entry) : shown = walk.shown
    BY <2>1
  <2>9. PICK part : part = Slice(whole, 0, o)
    OBVIOUS
  <2>10. /\ Len(shown) = Len(part) /\ ToSet(shown) = ToSet(part)
         /\ walk.asked.with \notin Room => shown = part
         /\ walk.more <=> o < n
    BY <2>2, <2>4, <2>6, <2>7, <2>8, <2>9 DEF Tiled, Before
  <2>11. PICK m \in Nat : m = IF o <= n THEN o ELSE n
    OBVIOUS
  <2>12. Len(part) = m
    <3>1. IsSlice(hits, part, whole, 0, o)
      BY <2>5, <2>9, SliceProperties
    <3>2. QED
      BY <2>6, <2>11, <3>1 DEF IsSlice
  <2>13. part = SubSeq(whole, 1, m)
    <3>1. Min({0 + o, n}) = m
      BY <2>11, MinOfTwo
    <3>2. part = SubSeq(whole, 0 + 1, Min({0 + o, Len(whole)}))
      BY <2>9 DEF Slice
    <3>3. 0 + 1 = 1
      OBVIOUS
    <3>4. QED
      BY <2>6, <3>1, <3>2, <3>3
  <2>14. /\ m <= n
         /\ walk.more <=> m < n
    BY <2>10, <2>11
  <2>15. Len(shown) = m
    BY <2>10, <2>12
  <2>16. walk.asked.with \notin Room => IsPrefix(shown, whole)
    <3>1. SubSeq(shown, 1, Len(shown)) = shown
      BY <2>8, SubSeqFull
    <3>2. QED
      BY <2>6, <2>10, <2>13, <2>14, <2>15, <3>1 DEF IsPrefix
  <2>17. QED
    BY <2>4, <2>6, <2>8, <2>10, <2>13, <2>14, <2>15, <2>16
<1>2. Spec => [](IInv /\ Tiled)
  BY InitInv, InvStep, TiledInit, TiledStep, PTL DEF Spec
<1>3. QED
  BY <1>1, <1>2, PTL

-----------------------------------------------------------------------------
(* The counts of a first page                                              *)

\* Of the rows of every direction of every conversation, all are merged.
LEMMA FirstUser ==
  ASSUME log \in Seq(Message), Cardinality(Groups("single")) <= Limit + 1
  PROVE  ToSet(HistoryUser(Anyone, 0).info) \subseteq Merged(Groups("single"))
<1> DEFINE groups == Groups("single")
<1>1. Timed(groups)
  BY GroupsAre
<1>2. PICK l \in Nat : l = Limit /\ l + 1 \in Nat
  BY BoundAssumption
<1>3. PICK rows : rows = Newest(groups)
  OBVIOUS
<1>4. rows \in Seq(groups) /\ Len(rows) <= l + 1 /\ ToSet(rows) = groups
  BY <1>1, <1>2, <1>3, NewestProperties
<1>5. Rows("single", 0, l + 1) = rows
  BY <1>2, <1>3, <1>4, SliceAll DEF Rows
<1>6. HistoryUser(Anyone, 0) = MakeResult(Oldest(Merged(groups)))
  <2>1. HistoryUser(Anyone, 0) = MakeResult(MergeDirections(ToSet(Rows("single", 0, Limit + 1))))
    BY DEF HistoryUser
  <2>2. QED
    BY <1>2, <1>4, <1>5, <2>1, MergeIs
<1>7. Timed(Merged(groups))
  BY MergedAre
<1>8. PICK list : list = Oldest(Merged(groups))
  OBVIOUS
<1>9. list \in Seq(Merged(groups)) /\ ToSet(list) = Merged(groups)
  BY <1>7, <1>8, OldestProperties
<1>10. HistoryUser(Anyone, 0).info = Slice(list, 0, l)
  BY <1>2, <1>6, <1>8 DEF MakeResult
<1>11. QED
  BY <1>9, <1>10, SliceKeeps

\* The rooms are those of the statement.
LEMMA FirstMuc ==
  ASSUME log \in Seq(Message)
  PROVE  ToSet(HistoryMuc(Anyone, 0).info) \subseteq Groups("muc")
<1>1. PICK l \in Nat : l = Limit /\ l + 1 \in Nat
  BY BoundAssumption
<1>2. PICK rows : rows = Rows("muc", 0, l + 1)
  OBVIOUS
<1>3. rows \in Seq(Groups("muc")) /\ ToSet(rows) \subseteq Groups("muc")
  BY <1>1, <1>2, RowsAre
<1>4. HistoryMuc(Anyone, 0).info = Slice(rows, 0, l)
  BY <1>1, <1>2 DEF HistoryMuc, MakeResult
<1>5. QED
  BY <1>3, <1>4, SliceKeeps

\* What a first page shows of a conversation or a room, if no '_' is in the way.
Counted(e) ==
  Unsplit(e.with) => e.time = Max(Said(e.with)) /\ e.count = Cardinality(Said(e.with))

\* Every entry is counted, and no conversation stands twice.
LEMMA FirstCounts ==
  ASSUME log \in Seq(Message), NEW sides \in SUBSET {"single", "muc"},
         Cardinality(Groups("single")) <= Limit + 1
  PROVE  LET page == Page(sides, Anyone, 0)
         IN /\ \A e \in ToSet(page.info) : Counted(e)
            /\ \A i, j \in DOMAIN page.info :
                 page.info[i].with = page.info[j].with /\ Unsplit(page.info[i].with) => i = j
<1>1. PICK page : page = Page(sides, Anyone, 0)
  OBVIOUS
<1>2. /\ IsInjective(page.info) /\ ToSet(page.info) \subseteq Entries(sides, Anyone, 0)
  <2>1. SidesTogether(sides) /\ 0 \in Nat
    BY DEF SidesTogether
  <2>2. QED
    BY <1>1, <2>1, PageIs
<1>3. ASSUME NEW e \in ToSet(page.info)
      PROVE  e \in Merged(Groups("single")) \/ e \in Groups("muc")
  <2>1. PICK r \in Results(sides, Anyone, 0) : e \in ToSet(r.info)
    BY <1>2 DEF Entries
  <2>2. r = HistoryUser(Anyone, 0) \/ r = HistoryMuc(Anyone, 0)
    BY DEF Results
  <2>3. QED
    BY <2>1, <2>2, FirstUser, FirstMuc
<1>4. \A e \in ToSet(page.info) : Counted(e)
  BY <1>3, MergedWhole, RoomGroups DEF Counted
<1>5. ASSUME NEW e \in ToSet(page.info), NEW f \in ToSet(page.info), e.with = f.with,
             Unsplit(e.with)
      PROVE  e = f
  <2>1. /\ \A g \in Merged(Groups("single")) : g.with \in Peer
        /\ \A g \in Groups("muc") : g.with \in Room
    BY MergedWhole, RoomGroups
  <2>2. \/ e \in Merged(Groups("single")) /\ f \in Merged(Groups("single"))
        \/ e \in Groups("muc") /\ f \in Groups("muc")
    BY <1>3, <1>5, <2>1, NamesAssumption
  <2>3. QED
    BY <1>5, <2>2, MergedAre, RoomGroups
<1>6. ASSUME NEW i \in DOMAIN page.info, NEW j \in DOMAIN page.info,
             page.info[i].with = page.info[j].with, Unsplit(page.info[i].with)
      PROVE  i = j
  <2>1. page.info[i] \in ToSet(page.info) /\ page.info[j] \in ToSet(page.info)
    BY DEF ToSet
  <2>2. page.info[i] = page.info[j]
    BY <1>5, <1>6, <2>1
  <2>3. QED
    BY <1>2, <2>2 DEF IsInjective
<1>7. QED
  BY <1>1, <1>4, <1>6

\* Every step keeps them.
LEMMA CountsStep == IInv /\ WholeAnswerCountsAll /\ [Next]_vars => WholeAnswerCountsAll'
<1> SUFFICES ASSUME IInv, WholeAnswerCountsAll, [Next]_vars PROVE WholeAnswerCountsAll'
  OBVIOUS
<1>0. Typed /\ Begun
  BY DEF IInv
<1>1. CASE UNCHANGED vars
  <2>1. log' = log /\ walk' = walk
    BY <1>1 DEF vars
  <2>2. Groups("single")' = Groups("single") /\ \A who : Said(who)' = Said(who)
    BY <2>1, SameMessages
  <2>3. ASSUME NEW i \in DOMAIN walk.shown
        PROVE  Said(walk.shown[i].with)' = Said(walk.shown[i].with)
    BY <2>1 DEF Said, Hits
  <2>4. QED
    BY <2>1, <2>2, <2>3 DEF WholeAnswerCountsAll
<1>2. ASSUME NEW asked \in Asked, NEW answered \in SUBSET asked.sides,
             Show(asked, answered), walk.asked \in {NoRequest, asked}
      PROVE  WholeAnswerCountsAll'
  <2>1. /\ log' = log
        /\ walk'.asked = asked /\ walk'.offset = walk.offset + Limit
        /\ walk'.shown = walk.shown \o Page(answered, asked.with, walk.offset).info
        /\ walk'.kept = (walk.kept /\ answered = asked.sides)
    BY <1>0, <1>2, ShowIs
  <2>2. walk.offset \in Nat /\ log \in Seq(Message)
    BY <1>0 DEF Typed, Walks
  <2>3. Groups("single")' = Groups("single") /\ \A who : Said(who)' = Said(who)
    BY <2>1, SameMessages
  <2> SUFFICES ASSUME walk'.kept, walk'.offset = Limit, asked.with = Anyone,
                      asked.sides # {"file"}, Cardinality(Groups("single")) <= Limit + 1
               PROVE  /\ \A i, j \in DOMAIN walk'.shown :
                           walk'.shown[i].with = walk'.shown[j].with
                           /\ Unsplit(walk'.shown[i].with) => i = j
                      /\ \A i \in DOMAIN walk'.shown : Counted(walk'.shown[i])
    <3>1. ASSUME NEW i PROVE Said(walk.shown[i].with)' = Said(walk'.shown[i].with)
      BY <2>1 DEF Said, Hits
    <3>2. QED
      BY <2>1, <2>3, <3>1 DEF WholeAnswerCountsAll, Counted
  <2>4. walk.offset = 0 /\ walk.shown = <<>>
    <3>1. walk.offset = 0 /\ ~(walk.offset >= Limit)
      BY <2>1, <2>2, BoundAssumption
    <3>2. QED
      BY <1>0, <3>1 DEF Begun, NotStarted
  <2>5. answered = asked.sides
    BY <2>1
  <2>6. PICK page : page = Page(asked.sides, Anyone, 0)
    OBVIOUS
  <2>7. walk'.shown = page.info
    <3>1. page.info \in Seq(Entry)
      <4>1. SidesTogether(asked.sides)
        BY AskedIs
      <4>2. QED
        BY <2>2, <2>4, <2>6, <4>1, PageIs
    <3>2. <<>> \o page.info = page.info
      BY <3>1, ConcatEmptySeq
    <3>3. QED
      BY <2>1, <2>4, <2>5, <2>6, <3>2
  <2>8. asked.sides \in SUBSET {"single", "muc"}
    <3>1. asked.sides \subseteq {"single", "muc"} \/ asked.sides \subseteq {"file"}
      BY AskedIs DEF SidesTogether
    <3>2. QED
      BY <3>1
  <2>9. /\ \A e \in ToSet(page.info) : Counted(e)
        /\ \A i, j \in DOMAIN page.info :
             page.info[i].with = page.info[j].with /\ Unsplit(page.info[i].with) => i = j
    BY <2>2, <2>6, <2>8, FirstCounts
  <2>10. \A i \in DOMAIN page.info : page.info[i] \in ToSet(page.info)
    BY DEF ToSet
  <2>11. QED
    BY <2>7, <2>9, <2>10
<1>3. ASSUME NEW m \in Message, Receive(m)
      PROVE  WholeAnswerCountsAll'
  <2>1. PICK k \in BOOLEAN : k = (walk = NotStarted)
    OBVIOUS
  <2>2. walk' = [walk EXCEPT !.kept = k] /\ walk \in Walks
    BY <1>0, <1>3, <2>1, ReceiveIs DEF Typed
  <2>3. walk'.kept = k /\ walk'.offset = walk.offset
    BY <2>2 DEF Walks
  <2>4. walk = NotStarted => walk.offset = 0 /\ 0 # Limit
    BY BoundAssumption DEF NotStarted
  <2>5. QED
    BY <2>1, <2>3, <2>4 DEF WholeAnswerCountsAll
<1>4. QED
  BY <1>0, <1>1, <1>2, <1>3, StepIs

\* On a first page whose statement returned every conversation in every
\* direction, a conversation stands once, with its newest message, whichever side
\* wrote it, and with all its matches counted, if no '_' in an id is in the way.
THEOREM FirstPageCountsAll == Spec => []WholeAnswerCountsAll
<1>1. Init => WholeAnswerCountsAll
  BY BoundAssumption DEF Init, NotStarted, WholeAnswerCountsAll
<1>2. QED
  BY <1>1, InitInv, InvStep, CountsStep, PTL DEF Spec
=============================================================================
