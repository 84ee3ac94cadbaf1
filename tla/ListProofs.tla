------------------------------ MODULE ListProofs ------------------------------
(***************************************************************************)
(* Lemmas about the Redis list commands of RedisList, on lists without      *)
(* duplicates, and about the slices and rankings of AnswerList.             *)
(***************************************************************************)
EXTENDS RedisList, AnswerList, SequenceTheorems, FiniteSetTheorems, WellFoundedInduction, TLAPS

-----------------------------------------------------------------------------
(* Redis lists                                                             *)

\* list.remove takes the first occurrence of an element out of a list; in one
\* without duplicates the others keep their order.
LEMMA RemoveFirstAt ==
  ASSUME NEW S, NEW s \in Seq(S), IsInjective(s), NEW i \in 1..Len(s)
  PROVE  /\ RemoveFirst(s, s[i]) \in Seq(S)
         /\ Len(RemoveFirst(s, s[i])) = Len(s) - 1
         /\ \A j \in 1..(Len(s) - 1) :
              RemoveFirst(s, s[i])[j] = IF j < i THEN s[j] ELSE s[j + 1]
<1> DEFINE r == RemoveFirst(s, s[i])
           before == SubSeq(s, 1, i - 1)
           after == SubSeq(s, i + 1, Len(s))
<1>1. {j \in 1..Len(s) : s[j] = s[i]} = {i}
  BY DEF IsInjective
<1>2. SelectInSeq(s, LAMBDA v : v = s[i]) = i
  BY <1>1 DEF SelectInSeq, Min
<1>3. r = before \o after
  BY <1>2 DEF RemoveFirst, RemoveAt
<1>4. /\ before \in Seq(S)
      /\ Len(before) = i - 1
      /\ \A j \in 1..(i - 1) : before[j] = s[j]
  BY SubSeqProperties
<1>5. /\ after \in Seq(S)
      /\ Len(after) = Len(s) - i
      /\ \A j \in 1..(Len(s) - i) : after[j] = s[i + j]
  BY SubSeqProperties
<1> HIDE DEF before, after, r
<1>6. /\ r \in Seq(S)
      /\ Len(r) = Len(before) + Len(after)
      /\ \A j \in 1..(Len(before) + Len(after)) :
           r[j] = IF j <= Len(before) THEN before[j] ELSE after[j - Len(before)]
  BY <1>3, <1>4, <1>5, ConcatProperties
<1>7. Len(r) = Len(s) - 1
  BY <1>6, <1>4, <1>5
<1>8. ASSUME NEW j \in 1..(Len(s) - 1)
      PROVE  r[j] = IF j < i THEN s[j] ELSE s[j + 1]
  <2>1. CASE j < i
    BY <2>1, <1>4, <1>6, <1>7
  <2>2. CASE ~(j < i)
    <3>1. j - (i - 1) \in 1..(Len(s) - i) /\ i + (j - (i - 1)) = j + 1
      BY <2>2
    <3>2. r[j] = after[j - (i - 1)]
      BY <2>2, <1>4, <1>5, <1>6, <1>7
    <3>3. QED
      BY <2>2, <3>1, <3>2, <1>5
  <2>3. QED
    BY <2>1, <2>2
<1>9. QED
  BY <1>6, <1>7, <1>8 DEF r

\* list.remove takes the only occurrence of an element out of a list without
\* duplicates and keeps the order of the others (cache.py:70-71).
LEMMA RemoveFirstProperties ==
  ASSUME NEW S, NEW s \in Seq(S), IsInjective(s), NEW e
  PROVE  /\ RemoveFirst(s, e) \in Seq(S)
         /\ IsInjective(RemoveFirst(s, e))
         /\ Len(RemoveFirst(s, e)) <= Len(s)
         /\ \A i \in 1..Len(RemoveFirst(s, e)) : RemoveFirst(s, e)[i] # e
<1>1. CASE \A i \in 1..Len(s) : s[i] # e
  <2>1. RemoveFirst(s, e) = s
    BY <1>1 DEF RemoveFirst
  <2>2. QED
    BY <1>1, <2>1
<1>2. CASE \E i \in 1..Len(s) : s[i] = e
  <2> DEFINE r == RemoveFirst(s, e)
  <2>1. PICK i \in 1..Len(s) : s[i] = e
    BY <1>2
  <2>2. /\ r \in Seq(S)
        /\ Len(r) = Len(s) - 1
        /\ \A j \in 1..(Len(s) - 1) : r[j] = IF j < i THEN s[j] ELSE s[j + 1]
    BY <2>1, RemoveFirstAt
  <2> HIDE DEF r
  <2>3. \A j, k \in 1..Len(s) : s[j] = s[k] => j = k
    BY DEF IsInjective
  \* r[j] is the element of s at position Old(j).
  <2> DEFINE Old(j) == IF j < i THEN j ELSE j + 1
  <2>a. \A j \in 1..Len(r) : Old(j) \in 1..Len(s) /\ Old(j) # i /\ r[j] = s[Old(j)]
    BY <2>2
  <2>b. \A j, k \in 1..Len(r) : Old(j) = Old(k) => j = k
    BY <2>2
  <2>c. DOMAIN r = 1..Len(r)
    BY <2>2
  <2> HIDE DEF Old
  <2>d. ASSUME NEW j \in 1..Len(r) PROVE r[j] # e
    BY <2>1, <2>3, <2>a
  <2>e. ASSUME NEW j \in 1..Len(r), NEW k \in 1..Len(r), r[j] = r[k] PROVE j = k
    BY <2>3, <2>a, <2>b, <2>e
  <2>4. IsInjective(r) /\ \A j \in 1..Len(r) : r[j] # e
    BY <2>c, <2>d, <2>e DEF IsInjective
  <2>5. QED
    BY <2>2, <2>4 DEF r
<1>3. QED
  BY <1>1, <1>2

\* Reading a list, removing value and pushing everything back in reverse with
\* value last puts value at the head and keeps the others in order.
LEMMA PushBackProperties ==
  ASSUME NEW S, NEW r \in Seq(S), NEW v \in S
  PROVE  LPush(<<>>, Append(Reverse(r), v)) = <<v>> \o r
<1> DEFINE q == Reverse(r)
           p == Append(q, v)
<1>1. /\ q \in Seq(S)
      /\ Len(q) = Len(r)
      /\ \A i \in 1..Len(r) : q[i] = r[Len(r) - i + 1]
  BY DEF Reverse
<1> HIDE DEF q
<1>2. /\ p \in Seq(S)
      /\ Len(p) = Len(r) + 1
      /\ \A i \in 1..Len(r) : p[i] = r[Len(r) - i + 1]
      /\ p[Len(r) + 1] = v
  BY <1>1
<1> HIDE DEF p
<1>3. /\ Reverse(p) \in Seq(S)
      /\ Len(Reverse(p)) = Len(r) + 1
      /\ \A i \in 1..(Len(r) + 1) : Reverse(p)[i] = p[Len(r) - i + 2]
  BY <1>2 DEF Reverse
<1>4. Reverse(p) \o <<>> = Reverse(p)
  BY <1>3
<1>5. /\ <<v>> \o r \in Seq(S)
      /\ Len(<<v>> \o r) = Len(r) + 1
      /\ \A i \in 1..(Len(r) + 1) : (<<v>> \o r)[i] = IF i = 1 THEN v ELSE r[i - 1]
  OBVIOUS
<1>6. \A i \in 1..(Len(r) + 1) : Reverse(p)[i] = (<<v>> \o r)[i]
  <2> SUFFICES ASSUME NEW i \in 1..(Len(r) + 1)
               PROVE  Reverse(p)[i] = (<<v>> \o r)[i]
    OBVIOUS
  <2>1. Reverse(p)[i] = p[Len(r) - i + 2]
    BY <1>3
  <2>2. CASE i = 1
    BY <2>1, <2>2, <1>2, <1>5
  <2>3. CASE i # 1
    <3>1. Len(r) - i + 2 \in 1..Len(r) /\ Len(r) - (Len(r) - i + 2) + 1 = i - 1
      BY <2>3
    <3>2. p[Len(r) - i + 2] = r[i - 1]
      BY <3>1, <1>2
    <3>3. QED
      BY <2>1, <2>3, <3>2, <1>5
  <2>4. QED
    BY <2>2, <2>3
<1>7. Reverse(p) = <<v>> \o r
  BY <1>3, <1>5, <1>6, SeqEqual
<1>8. QED
  BY <1>4, <1>7 DEF LPush, p, q

\* The list one LPUSH leaves has no duplicates and is longer by at most one.
LEMMA MoveToFrontProperties ==
  ASSUME NEW S, NEW s \in Seq(S), IsInjective(s), NEW v \in S
  PROVE  /\ MoveToFront(s, v) \in Seq(S)
         /\ IsInjective(MoveToFront(s, v))
         /\ Len(MoveToFront(s, v)) <= Len(s) + 1
<1> DEFINE r == RemoveFirst(s, v)
<1>1. /\ r \in Seq(S)
      /\ IsInjective(r)
      /\ Len(r) <= Len(s)
      /\ \A i \in 1..Len(r) : r[i] # v
  BY RemoveFirstProperties
<1> HIDE DEF r
<1>2. MoveToFront(s, v) = <<v>> \o r
  BY <1>1, PushBackProperties DEF MoveToFront, r
<1>3. QED
  BY <1>1, <1>2 DEF IsInjective

\* LTRIM keeps a prefix, of at most size elements.
LEMMA LTrimProperties ==
  ASSUME NEW S, NEW s \in Seq(S), NEW size \in Nat
  PROVE  /\ LTrim(s, size) \in Seq(S)
         /\ Len(LTrim(s, size)) = IF Len(s) < size THEN Len(s) ELSE size
         /\ \A i \in 1..Len(LTrim(s, size)) : LTrim(s, size)[i] = s[i]
         /\ IsInjective(s) => IsInjective(LTrim(s, size))
<1>1. /\ LTrim(s, size) \in Seq(S)
      /\ Len(LTrim(s, size)) = IF Len(s) < size THEN Len(s) ELSE size
      /\ \A i \in 1..Len(LTrim(s, size)) : LTrim(s, size)[i] = s[i]
  BY DEF LTrim
<1>2. QED
  BY <1>1 DEF IsInjective

\* Moving to the front is removing, then putting at the head.
LEMMA MoveToFrontIs ==
  ASSUME NEW S, NEW s \in Seq(S), IsInjective(s), NEW v \in S
  PROVE  MoveToFront(s, v) = <<v>> \o RemoveFirst(s, v)
<1>1. RemoveFirst(s, v) \in Seq(S)
  BY RemoveFirstProperties
<1>2. QED
  BY <1>1, PushBackProperties DEF MoveToFront

\* b is s with v moved or added to its head, element by element.
IsMoved(b, s, v) ==
  /\ b[1] = v
  /\ (\A i \in 1..Len(s) : s[i] # v) =>
       /\ Len(b) = Len(s) + 1
       /\ \A j \in 1..Len(s) : b[j + 1] = s[j]
  /\ \A i \in 1..Len(s) : s[i] = v =>
       /\ Len(b) = Len(s)
       /\ \A j \in 1..(Len(s) - 1) : b[j + 1] = IF j < i THEN s[j] ELSE s[j + 1]

LEMMA MovedElements ==
  ASSUME NEW S, NEW s \in Seq(S), IsInjective(s), NEW v \in S
  PROVE  MoveToFront(s, v) \in Seq(S) /\ IsMoved(MoveToFront(s, v), s, v)
<1> DEFINE r == RemoveFirst(s, v)
<1>1. r \in Seq(S)
  BY RemoveFirstProperties
<1>2. (\A i \in 1..Len(s) : s[i] # v) => r = s
  BY DEF RemoveFirst
<1>3. \A i \in 1..Len(s) : s[i] = v =>
        Len(r) = Len(s) - 1 /\ \A j \in 1..(Len(s) - 1) : r[j] = IF j < i THEN s[j] ELSE s[j + 1]
  BY RemoveFirstAt
<1>4. MoveToFront(s, v) = <<v>> \o r
  BY MoveToFrontIs
<1> HIDE DEF r
<1>5. /\ <<v>> \o r \in Seq(S)
      /\ Len(<<v>> \o r) = Len(r) + 1
      /\ (<<v>> \o r)[1] = v
      /\ \A j \in 1..Len(r) : (<<v>> \o r)[j + 1] = r[j]
  BY <1>1
<1>6. IsMoved(<<v>> \o r, s, v)
  BY <1>2, <1>3, <1>5 DEF IsMoved
<1>7. QED
  BY <1>4, <1>5, <1>6

\* Trimming before a contact is moved to the front changes nothing of what is
\* left after trimming again: what falls off the end could not come back.
LEMMA TrimBeforeMove ==
  ASSUME NEW S, NEW s \in Seq(S), IsInjective(s), NEW v \in S, NEW n \in Nat \ {0}
  PROVE  LTrim(MoveToFront(LTrim(s, n), v), n) = LTrim(MoveToFront(s, v), n)
<1> DEFINE t == LTrim(s, n)
           a == MoveToFront(t, v)
           b == MoveToFront(s, v)
<1>1. /\ t \in Seq(S) /\ IsInjective(t)
      /\ Len(t) = IF Len(s) < n THEN Len(s) ELSE n
      /\ \A i \in 1..Len(t) : t[i] = s[i]
  BY LTrimProperties
<1> HIDE DEF t
<1>2. \A i, j \in 1..Len(s) : s[i] = s[j] => i = j
  BY DEF IsInjective
<1>3. b \in Seq(S) /\ IsMoved(b, s, v)
  BY MovedElements
<1>4. a \in Seq(S) /\ IsMoved(a, t, v)
  BY <1>1, MovedElements
<1> HIDE DEF a, b
<1> DEFINE m == IF Len(b) < n THEN Len(b) ELSE n
<1>5. /\ (IF Len(a) < n THEN Len(a) ELSE n) = m
      /\ \A k \in 1..m : a[k] = b[k]
  <2>0. Len(s) \in Nat /\ Len(t) \in Nat /\ n >= 1
    OBVIOUS
  <2>1. CASE \A i \in 1..Len(s) : s[i] # v
    <3>1. \A i \in 1..Len(t) : t[i] # v
      BY <1>1, <2>0, <2>1
    <3>a. Len(b) = Len(s) + 1 /\ \A j \in 1..Len(s) : b[j + 1] = s[j]
      BY <1>3, <2>1 DEF IsMoved
    <3>b. Len(a) = Len(t) + 1 /\ \A j \in 1..Len(t) : a[j + 1] = t[j]
      BY <1>4, <3>1 DEF IsMoved
    <3>2. /\ Len(b) = Len(s) + 1 /\ Len(a) = Len(t) + 1
          /\ \A j \in 1..Len(t) : a[j + 1] = b[j + 1]
      BY <1>1, <2>0, <3>a, <3>b
    <3>3. ASSUME NEW k \in 1..m PROVE a[k] = b[k]
      <4>1. CASE k = 1
        BY <1>3, <1>4, <4>1 DEF IsMoved
      <4>2. CASE k # 1
        <5>1. k - 1 \in 1..Len(t) /\ (k - 1) + 1 = k
          BY <1>1, <2>0, <3>2, <4>2
        <5>2. QED
          BY <3>2, <5>1
      <4>3. QED
        BY <4>1, <4>2
    <3>4. QED
      BY <1>1, <2>0, <3>2, <3>3
  <2>2. ASSUME NEW i \in 1..Len(s), s[i] = v, i <= n PROVE <1>5!1 /\ <1>5!2
    <3>1. i \in 1..Len(t) /\ t[i] = v
      BY <1>1, <2>0, <2>2
    <3>2. /\ Len(b) = Len(s) /\ Len(a) = Len(t)
          /\ \A j \in 1..(Len(s) - 1) : b[j + 1] = IF j < i THEN s[j] ELSE s[j + 1]
          /\ \A j \in 1..(Len(t) - 1) : a[j + 1] = IF j < i THEN t[j] ELSE t[j + 1]
      BY <1>3, <1>4, <2>2, <3>1 DEF IsMoved
    <3>3. \A j \in 1..(Len(t) - 1) : a[j + 1] = b[j + 1]
      BY <1>1, <2>0, <3>2
    <3>4. ASSUME NEW k \in 1..m PROVE a[k] = b[k]
      <4>1. CASE k = 1
        BY <1>3, <1>4, <4>1 DEF IsMoved
      <4>2. CASE k # 1
        <5>1. k - 1 \in 1..(Len(t) - 1) /\ (k - 1) + 1 = k
          BY <1>1, <2>0, <3>2, <4>2
        <5>2. QED
          BY <3>3, <5>1
      <4>3. QED
        BY <4>1, <4>2
    <3>5. QED
      BY <1>1, <2>0, <3>2, <3>4
  <2>3. ASSUME NEW i \in 1..Len(s), s[i] = v, ~(i <= n) PROVE <1>5!1 /\ <1>5!2
    <3>1. \A j \in 1..Len(t) : t[j] # v
      BY <1>1, <1>2, <2>0, <2>3
    <3>2. /\ Len(t) = n /\ Len(b) = Len(s) /\ Len(a) = n + 1 /\ n < Len(s)
          /\ \A j \in 1..(Len(s) - 1) : b[j + 1] = IF j < i THEN s[j] ELSE s[j + 1]
          /\ \A j \in 1..n : a[j + 1] = t[j]
      BY <1>1, <1>3, <1>4, <2>0, <2>3, <3>1 DEF IsMoved
    <3>3. \A j \in 1..(n - 1) : a[j + 1] = b[j + 1]
      BY <1>1, <2>0, <2>3, <3>2
    <3>4. ASSUME NEW k \in 1..m PROVE a[k] = b[k]
      <4>1. CASE k = 1
        BY <1>3, <1>4, <4>1 DEF IsMoved
      <4>2. CASE k # 1
        <5>1. k - 1 \in 1..(n - 1) /\ (k - 1) + 1 = k
          BY <2>0, <3>2, <4>2
        <5>2. QED
          BY <3>3, <5>1
      <4>3. QED
        BY <4>1, <4>2
    <3>5. QED
      BY <2>0, <3>2, <3>4
  <2>4. QED
    BY <2>1, <2>2, <2>3
<1>6. /\ LTrim(a, n) \in Seq(S) /\ Len(LTrim(a, n)) = m
      /\ \A k \in 1..m : LTrim(a, n)[k] = a[k]
  <2>1. /\ LTrim(a, n) \in Seq(S)
        /\ Len(LTrim(a, n)) = IF Len(a) < n THEN Len(a) ELSE n
        /\ \A k \in 1..Len(LTrim(a, n)) : LTrim(a, n)[k] = a[k]
    BY <1>4, LTrimProperties
  <2>2. QED
    BY <1>5, <2>1
<1>6a. /\ LTrim(b, n) \in Seq(S) /\ Len(LTrim(b, n)) = m
       /\ \A k \in 1..m : LTrim(b, n)[k] = b[k]
  <2>1. /\ LTrim(b, n) \in Seq(S)
        /\ Len(LTrim(b, n)) = IF Len(b) < n THEN Len(b) ELSE n
        /\ \A k \in 1..Len(LTrim(b, n)) : LTrim(b, n)[k] = b[k]
    BY <1>3, LTrimProperties
  <2>2. QED
    BY <2>1
<1>7. LTrim(a, n) = LTrim(b, n)
  BY <1>5, <1>6, <1>6a, SeqEqual
<1>8. QED
  BY <1>7 DEF a, b, t

\* A second LTRIM changes nothing.
LEMMA TrimTwice ==
  ASSUME NEW S, NEW s \in Seq(S), NEW n \in Nat
  PROVE  LTrim(LTrim(s, n), n) = LTrim(s, n)
<1> DEFINE t == LTrim(s, n)
<1>1. t \in Seq(S) /\ Len(t) = IF Len(s) < n THEN Len(s) ELSE n
  BY LTrimProperties
<1> HIDE DEF t
<1>2. /\ LTrim(t, n) \in Seq(S) /\ Len(LTrim(t, n)) = Len(t)
      /\ \A i \in 1..Len(t) : LTrim(t, n)[i] = t[i]
  BY <1>1, LTrimProperties
<1>3. LTrim(t, n) = t
  BY <1>1, <1>2, SeqEqual
<1>4. QED
  BY <1>3 DEF t

-----------------------------------------------------------------------------
(* Numbers                                                                 *)

\* A set of numbers that is not empty has a least one.
LEMMA LeastNat ==
  ASSUME NEW S, S \subseteq Nat, S # {}
  PROVE  \E m \in S : \A i \in S : m <= i
<1>1. PICK m \in S : \A y \in S : ~(<<y, m>> \in OpToRel(<, Nat))
  BY WFMin, NatLessThanWellFounded
<1>2. \A y \in S : ~(y < m)
  BY <1>1 DEF OpToRel
<1>3. QED
  BY <1>2

\* The least of two numbers.
LEMMA MinOfTwo ==
  ASSUME NEW i \in Int, NEW j \in Int
  PROVE  Min({i, j}) = IF i <= j THEN i ELSE j
<1>1. \A x \in {i, j} : (\A y \in {i, j} : x =< y) => x = IF i <= j THEN i ELSE j
  OBVIOUS
<1>2. \E x \in {i, j} : \A y \in {i, j} : x =< y
  OBVIOUS
<1>3. QED
  BY <1>1, <1>2 DEF Min

\* The greatest of two numbers.
LEMMA MaxOfTwo ==
  ASSUME NEW i \in Int, NEW j \in Int
  PROVE  Max({i, j}) = IF i >= j THEN i ELSE j
<1>1. \A x \in {i, j} : (\A y \in {i, j} : x >= y) => x = IF i >= j THEN i ELSE j
  OBVIOUS
<1>2. \E x \in {i, j} : \A y \in {i, j} : x >= y
  OBVIOUS
<1>3. QED
  BY <1>1, <1>2 DEF Max

-----------------------------------------------------------------------------
(* Slices                                                                  *)

\* p is what Slice(list, start, count) is.
IsSlice(S, p, list, start, count) ==
  /\ p \in Seq(S)
  /\ Len(p) = IF start + count <= Len(list) THEN count
              ELSE IF start <= Len(list) THEN Len(list) - start ELSE 0
  /\ \A i \in 1..Len(p) : p[i] = list[start + i]

\* LIMIT and OFFSET cut a slice.
LEMMA SliceProperties ==
  ASSUME NEW S, NEW list \in Seq(S), NEW start \in Nat, NEW count \in Nat
  PROVE  IsSlice(S, Slice(list, start, count), list, start, count)
<1>1. PICK n \in Nat : n = Len(list)
  OBVIOUS
<1>2. PICK m \in Nat : m = IF start + count <= n THEN start + count ELSE n
  OBVIOUS
<1>3. Slice(list, start, count) = SubSeq(list, start + 1, m)
  BY <1>1, <1>2, MinOfTwo DEF Slice
<1>4. \A i \in (start + 1)..m : list[i] \in S
  BY <1>1, <1>2, ElementOfSeq
<1>5. /\ SubSeq(list, start + 1, m) \in Seq(S)
      /\ Len(SubSeq(list, start + 1, m)) = IF start + 1 <= m THEN m - (start + 1) + 1 ELSE 0
      /\ \A i \in 1..(m - (start + 1) + 1) : SubSeq(list, start + 1, m)[i] = list[(start + 1) + i - 1]
  BY <1>4, SubSeqProperties
<1>6. Len(SubSeq(list, start + 1, m)) = IF start + count <= n THEN count
                                         ELSE IF start <= n THEN n - start ELSE 0
  BY <1>2, <1>5
<1>7. \A i \in 1..Len(SubSeq(list, start + 1, m)) : SubSeq(list, start + 1, m)[i] = list[start + i]
  <2> SUFFICES ASSUME NEW i \in 1..Len(SubSeq(list, start + 1, m))
               PROVE  SubSeq(list, start + 1, m)[i] = list[start + i]
    OBVIOUS
  <2>1. i \in 1..(m - (start + 1) + 1) /\ (start + 1) + i - 1 = start + i
    BY <1>5
  <2>2. QED
    BY <1>5, <2>1
<1>8. QED
  BY <1>1, <1>3, <1>5, <1>6, <1>7 DEF IsSlice

\* Two consecutive slices make one.
LEMMA SliceTiles ==
  ASSUME NEW S, NEW w \in Seq(S), NEW o \in Nat, NEW l \in Nat, o <= Len(w)
  PROVE  Slice(w, 0, o) \o Slice(w, o, l) = Slice(w, 0, o + l)
<1>1. PICK n \in Nat : n = Len(w)
  OBVIOUS
<1>2. PICK p : p = Slice(w, 0, o)
  OBVIOUS
<1>3. PICK q : q = Slice(w, o, l)
  OBVIOUS
<1>4. PICK t : t = Slice(w, 0, o + l)
  OBVIOUS
<1>5. IsSlice(S, p, w, 0, o) /\ IsSlice(S, q, w, o, l) /\ IsSlice(S, t, w, 0, o + l)
  <2>1. o + l \in Nat /\ 0 \in Nat
    OBVIOUS
  <2>2. QED
    BY <1>2, <1>3, <1>4, <2>1, SliceProperties
<1>6. p \in Seq(S) /\ Len(p) = o /\ \A i \in 1..o : p[i] = w[i]
  BY <1>1, <1>5 DEF IsSlice
<1>7. PICK m \in Nat : m = IF o + l <= n THEN l ELSE n - o
  <2>1. n - o \in Nat
    BY <1>1
  <2>2. QED
    BY <2>1
<1>8. q \in Seq(S) /\ Len(q) = m /\ \A i \in 1..m : q[i] = w[o + i]
  BY <1>1, <1>5, <1>7 DEF IsSlice
<1>9. t \in Seq(S) /\ Len(t) = o + m /\ \A i \in 1..(o + m) : t[i] = w[i]
  BY <1>1, <1>5, <1>7 DEF IsSlice
<1>10. /\ p \o q \in Seq(S) /\ Len(p \o q) = o + m
       /\ \A i \in 1..(o + m) : (p \o q)[i] = IF i <= o THEN p[i] ELSE q[i - o]
  BY <1>6, <1>8, ConcatProperties
<1>11. ASSUME NEW i \in 1..(o + m) PROVE (p \o q)[i] = t[i]
  <2>1. CASE i <= o
    BY <1>6, <1>9, <1>10, <2>1
  <2>2. CASE ~(i <= o)
    <3>1. i - o \in 1..m /\ o + (i - o) = i
      BY <2>2
    <3>2. q[i - o] = w[i]
      BY <1>8, <3>1
    <3>3. QED
      BY <1>9, <1>10, <2>2, <3>2
  <2>3. QED
    BY <2>1, <2>2
<1>12. p \o q = t
  BY <1>9, <1>10, <1>11, SeqEqual
<1>13. QED
  BY <1>2, <1>3, <1>4, <1>12

\* A slice that reaches the end is the whole list.
LEMMA SliceAll ==
  ASSUME NEW S, NEW w \in Seq(S), NEW n \in Nat, Len(w) <= n
  PROVE  Slice(w, 0, n) = w
<1>1. PICK p : p = Slice(w, 0, n)
  OBVIOUS
<1>2. IsSlice(S, p, w, 0, n)
  BY <1>1, SliceProperties
<1>3. p \in Seq(S) /\ Len(p) = Len(w) /\ \A i \in 1..Len(w) : p[i] = w[i]
  BY <1>2 DEF IsSlice
<1>4. QED
  BY <1>1, <1>3, SeqEqual

\* A slice of no length is empty.
LEMMA SliceNothing ==
  ASSUME NEW S, NEW w \in Seq(S)
  PROVE  Slice(w, 0, 0) = <<>>
<1>1. IsSlice(S, Slice(w, 0, 0), w, 0, 0)
  BY SliceProperties
<1>2. QED
  BY <1>1, EmptySeq DEF IsSlice

\* The entries of a slice are those at its places.
LEMMA SliceHolds ==
  ASSUME NEW S, NEW w \in Seq(S), NEW o \in Nat, NEW l \in Nat, NEW v
  PROVE  v \in ToSet(Slice(w, o, l)) <=> \E i \in 1..Len(w) : o < i /\ i <= o + l /\ w[i] = v
<1>1. PICK p : p = Slice(w, o, l)
  OBVIOUS
<1>2. PICK n \in Nat : n = Len(w)
  OBVIOUS
<1>3. IsSlice(S, p, w, o, l)
  BY <1>1, SliceProperties
<1>4. PICK m \in Nat : m = Len(p) /\ m = IF o + l <= n THEN l ELSE IF o <= n THEN n - o ELSE 0
  <2>1. PICK m : m = Len(p)
    OBVIOUS
  <2>2. m \in Nat /\ m = IF o + l <= n THEN l ELSE IF o <= n THEN n - o ELSE 0
    BY <1>2, <1>3, <2>1 DEF IsSlice
  <2>3. QED
    BY <2>1, <2>2
<1>5. p \in Seq(S) /\ \A i \in 1..m : p[i] = w[o + i]
  BY <1>3, <1>4 DEF IsSlice
<1>6. v \in ToSet(p) <=> \E i \in 1..m : p[i] = v
  BY <1>4, <1>5, LenProperties DEF ToSet
<1>7. ASSUME NEW i \in 1..m, p[i] = v
      PROVE  \E j \in 1..n : o < j /\ j <= o + l /\ w[j] = v
  <2>1. o + i \in 1..n /\ o < o + i /\ o + i <= o + l
    BY <1>4
  <2>2. QED
    BY <1>5, <1>7, <2>1
<1>8. ASSUME NEW j \in 1..n, o < j, j <= o + l, w[j] = v
      PROVE  \E i \in 1..m : p[i] = v
  <2>1. j - o \in 1..m /\ o + (j - o) = j
    BY <1>4, <1>8
  <2>2. QED
    BY <1>5, <1>8, <2>1
<1>9. QED
  BY <1>1, <1>2, <1>6, <1>7, <1>8

-----------------------------------------------------------------------------
(* Ranked by distinct times                                                *)

\* No two of them have the same number.
NoTies(F, Times) == \A q, r \in F : Times[q] = Times[r] => q = r

\* Finitely many numbers have a bound.
LEMMA FiniteBound ==
  ASSUME NEW F, IsFiniteSet(F), NEW Times \in [F -> Nat]
  PROVE  \E b \in Nat : \A r \in F : Times[r] <= b
<1>1. PICK n \in Nat : n = Cardinality(F)
  BY FS_CardinalityType
<1>2. PICK f \in Bijection(1..n, F) : TRUE
  BY <1>1, FS_CardinalityType DEF ExistsBijection
<1>3. f \in [1..n -> F] /\ \A r \in F : \E i \in 1..n : f[i] = r
  BY <1>2 DEF Bijection, Surjection
<1> DEFINE Bounds(m, b) == \A i \in 1..n : i <= m => Times[f[i]] <= b
           Bad == {m \in Nat : \A b \in Nat : ~Bounds(m, b)}
<1>4. ASSUME Bad # {} PROVE FALSE
  <2>1. PICK m \in Bad : \A l \in Bad : m <= l
    BY <1>4, LeastNat
  <2>2. m # 0
    <3>1. Bounds(0, 0)
      OBVIOUS
    <3>2. QED
      BY <3>1
  <2>3. m - 1 \in Nat /\ ~(m <= m - 1)
    BY <2>2
  <2>4. PICK b \in Nat : Bounds(m - 1, b)
    BY <2>1, <2>3
  <2>5. PICK c \in Nat : m \in 1..n => c = Times[f[m]]
    BY <1>3
  <2>6. PICK d \in Nat : c <= d /\ \A t \in Nat : t <= b => t <= d
    <3>1. b + c \in Nat /\ c <= b + c /\ \A t \in Nat : t <= b => t <= b + c
      OBVIOUS
    <3>2. QED
      BY <3>1
  <2>7. ASSUME NEW i \in 1..n, i <= m PROVE Times[f[i]] <= d
    <3>1. CASE i = m
      BY <2>5, <2>6, <3>1
    <3>2. CASE i # m
      <4>1. i <= m - 1
        BY <2>3, <2>7, <3>2
      <4>2. PICK t \in Nat : t = Times[f[i]] /\ t <= b
        BY <1>3, <2>4, <4>1
      <4>3. t <= d
        BY <2>6, <4>2
      <4>4. QED
        BY <4>2, <4>3
    <3>3. QED
      BY <3>1, <3>2
  <2>8. Bounds(m, d)
    BY <2>7
  <2>9. QED
    BY <2>1, <2>6, <2>8
<1>5. n \notin Bad
  BY <1>4
<1>6. PICK b \in Nat : Bounds(n, b)
  BY <1>5
<1>7. QED
  BY <1>3, <1>6

\* Fewer than all are later than one of them.
LEMMA LaterIsFinite ==
  ASSUME NEW F, IsFiniteSet(F), NEW Times \in [F -> Nat], NEW r \in F
  PROVE  /\ IsFiniteSet(Later(F, Times, r))
         /\ Cardinality(Later(F, Times, r)) \in Nat
         /\ Cardinality(F) \in Nat
         /\ Cardinality(Later(F, Times, r)) < Cardinality(F)
<1>1. Later(F, Times, r) \in SUBSET F /\ r \notin Later(F, Times, r)
  BY DEF Later
<1>2. IsFiniteSet(Later(F, Times, r)) /\ Cardinality(Later(F, Times, r)) <= Cardinality(F)
  BY <1>1, FS_Subset
<1>3. Cardinality(Later(F, Times, r)) # Cardinality(F)
  BY <1>1, FS_Subset
<1>4. Cardinality(Later(F, Times, r)) \in Nat /\ Cardinality(F) \in Nat
  BY <1>2, FS_CardinalityType
<1>5. QED
  BY <1>2, <1>3, <1>4

\* No two have equally many later ones.
LEMMA LaterDiffers ==
  ASSUME NEW F, IsFiniteSet(F), NEW Times \in [F -> Nat], NoTies(F, Times),
         NEW q \in F, NEW r \in F,
         Cardinality(Later(F, Times, q)) = Cardinality(Later(F, Times, r))
  PROVE  q = r
<1>1. ASSUME NEW s \in F, NEW t \in F, Times[s] > Times[t]
      PROVE  Cardinality(Later(F, Times, s)) # Cardinality(Later(F, Times, t))
  <2>1. \A p \in F : Times[p] > Times[s] => Times[p] > Times[t]
    BY <1>1
  <2>2. Later(F, Times, s) \in SUBSET Later(F, Times, t)
    BY <2>1 DEF Later
  <2>3. s \in Later(F, Times, t) /\ s \notin Later(F, Times, s)
    BY <1>1 DEF Later
  <2>4. IsFiniteSet(Later(F, Times, t))
    BY LaterIsFinite
  <2>5. Later(F, Times, s) # Later(F, Times, t)
    BY <2>3
  <2>6. QED
    BY <2>2, <2>4, <2>5, FS_Subset
<1>2. ~(Times[q] > Times[r]) /\ ~(Times[r] > Times[q])
  BY <1>1
<1>3. Times[q] = Times[r]
  BY <1>2
<1>4. QED
  BY <1>3 DEF NoTies

\* For every rank someone has it.
LEMMA SomebodyIsNth ==
  ASSUME NEW F, IsFiniteSet(F), NEW Times \in [F -> Nat], NoTies(F, Times),
         NEW n \in 1..Cardinality(F)
  PROVE  \E r \in F : Cardinality(Later(F, Times, r)) = n - 1
<1> DEFINE From(m) == {q \in F : Times[q] >= m}
           S == {m \in Nat : Cardinality(From(m)) < n}
<1>1. \A m \in Nat : IsFiniteSet(From(m)) /\ Cardinality(From(m)) \in Nat
  BY FS_Subset, FS_CardinalityType
<1>2. S # {}
  <2>1. PICK b \in Nat : \A r \in F : Times[r] <= b
    BY FiniteBound
  <2>2. From(b + 1) = {}
    <3>1. \A r \in F : ~(Times[r] >= b + 1)
      BY <2>1
    <3>2. QED
      BY <3>1
  <2>3. Cardinality(From(b + 1)) < n
    BY <2>2, FS_EmptySet
  <2>4. QED
    BY <2>3
<1>3. PICK m \in S : \A l \in S : m <= l
  BY <1>2, LeastNat
<1>4. m # 0
  <2>1. From(0) = F
    BY DEF Later
  <2>2. Cardinality(F) \in Nat
    BY FS_CardinalityType
  <2>3. QED
    BY <1>3, <2>1, <2>2
<1>5. m - 1 \in Nat /\ m - 1 \notin S
  <2>1. m - 1 \in Nat /\ ~(m <= m - 1)
    BY <1>4
  <2>2. QED
    BY <1>3, <2>1
<1>6. PICK above \in Nat : above = Cardinality(From(m))
  BY <1>1
<1>7. PICK below \in Nat : below = Cardinality(From(m - 1))
  BY <1>1, <1>5
<1>8. above < n /\ below >= n
  BY <1>3, <1>5, <1>6, <1>7
<1>9. PICK r \in F : Times[r] = m - 1
  <2> SUFFICES ASSUME \A r \in F : Times[r] # m - 1 PROVE FALSE
    OBVIOUS
  <2>1. \A r \in F : Times[r] >= m - 1 <=> Times[r] >= m
    BY <1>5
  <2>2. From(m - 1) = From(m)
    BY <2>1
  <2>3. below = above
    <3> HIDE DEF From
    <3>1. QED
      BY <1>6, <1>7, <2>2
  <2>4. QED
    BY <1>8, <2>3
<1>10. Later(F, Times, r) = From(m)
  <2>1. \A q \in F : Times[q] > Times[r] <=> Times[q] >= m
    BY <1>5, <1>9
  <2>2. QED
    BY <2>1 DEF Later
<1>11. From(m - 1) = From(m) \cup {r} /\ r \notin From(m)
  <2>1. \A q \in F : Times[q] >= m - 1 <=> Times[q] >= m \/ Times[q] = m - 1
    BY <1>5
  <2>2. \A q \in F : Times[q] = m - 1 <=> q = r
    BY <1>9 DEF NoTies
  <2>3. ~(Times[r] >= m)
    BY <1>5, <1>9
  <2>4. QED
    BY <2>1, <2>2, <2>3
<1> HIDE DEF From
<1>12. below = above + 1
  BY <1>1, <1>6, <1>7, <1>11, FS_AddElement
<1>13. above = n - 1
  BY <1>8, <1>12
<1>14. QED
  BY <1>6, <1>10, <1>13

\* In the ranking the n-th has n - 1 later ones.
LEMMA RankedProperties ==
  ASSUME NEW F, IsFiniteSet(F), NEW Times \in [F -> Nat], NoTies(F, Times)
  PROVE  /\ Ranked(F, Times) \in Seq(F)
         /\ Cardinality(F) \in Nat /\ Len(Ranked(F, Times)) = Cardinality(F)
         /\ \A n \in 1..Cardinality(F) : 
              Ranked(F, Times)[n] \in F /\ Cardinality(Later(F, Times, Ranked(F, Times)[n])) = n - 1
<1>1. Cardinality(F) \in Nat
  BY FS_CardinalityType
<1>2. ASSUME NEW n \in 1..Cardinality(F)
      PROVE  /\ Ranked(F, Times)[n] \in F
             /\ Cardinality(Later(F, Times, Ranked(F, Times)[n])) = n - 1
  <2>1. \E r \in F : Cardinality(Later(F, Times, r)) = n - 1
    BY SomebodyIsNth
  <2>2. Ranked(F, Times)[n] = CHOOSE r \in F : Cardinality(Later(F, Times, r)) = n - 1
    BY DEF Ranked
  <2>3. QED
    BY <2>1, <2>2
<1>3. Ranked(F, Times) \in [1..Cardinality(F) -> F]
  <2>1. Ranked(F, Times) = [n \in 1..Cardinality(F) |-> Ranked(F, Times)[n]]
    BY DEF Ranked
  <2>2. QED
    BY <1>2, <2>1
<1>4. QED
  BY <1>1, <1>2, <1>3

\* Everybody stands at the place after those who come later.
LEMMA RankedPlace ==
  ASSUME NEW F, IsFiniteSet(F), NEW Times \in [F -> Nat], NoTies(F, Times), NEW r \in F
  PROVE  /\ Cardinality(Later(F, Times, r)) + 1 \in 1..Cardinality(F)
         /\ Ranked(F, Times)[Cardinality(Later(F, Times, r)) + 1] = r
<1>1. PICK n \in Nat : n = Cardinality(Later(F, Times, r))
  BY LaterIsFinite
<1>2. n + 1 \in 1..Cardinality(F)
  BY <1>1, LaterIsFinite
<1>3. PICK q \in F : q = Ranked(F, Times)[n + 1] /\ Cardinality(Later(F, Times, q)) = (n + 1) - 1
  BY <1>2, RankedProperties
<1>4. q = r
  BY <1>1, <1>3, LaterDiffers
<1>5. QED
  BY <1>1, <1>2, <1>3, <1>4

\* Everybody stands in the ranking once.
LEMMA RankedInjective ==
  ASSUME NEW F, IsFiniteSet(F), NEW Times \in [F -> Nat], NoTies(F, Times)
  PROVE  IsInjective(Ranked(F, Times)) /\ ToSet(Ranked(F, Times)) = F
<1>1. DOMAIN Ranked(F, Times) = 1..Cardinality(F)
  BY DEF Ranked
<1>2. \A n \in 1..Cardinality(F) :
        Ranked(F, Times)[n] \in F /\ Cardinality(Later(F, Times, Ranked(F, Times)[n])) = n - 1
  BY RankedProperties
<1>3. ASSUME NEW m \in 1..Cardinality(F), NEW n \in 1..Cardinality(F),
             Ranked(F, Times)[m] = Ranked(F, Times)[n]
      PROVE  m = n
  <2>1. m - 1 = n - 1
    BY <1>2, <1>3
  <2>2. QED
    BY <2>1, FS_CardinalityType
<1>4. \A r \in F : \E n \in 1..Cardinality(F) : Ranked(F, Times)[n] = r
  BY RankedPlace
<1>5. QED
  BY <1>1, <1>2, <1>3, <1>4 DEF IsInjective, ToSet

=============================================================================
