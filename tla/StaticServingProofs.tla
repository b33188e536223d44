------------------------- MODULE StaticServingProofs -------------------------
(***************************************************************************)
(* The cache and the chain of buffers, for any connections, requests,      *)
(* files, limits and portions the socket takes.                            *)
(***************************************************************************)
EXTENDS StaticServing, SequenceTheorems, FiniteSetTheorems, WellFoundedInduction, TLAPS
-------------------------------------------------------------------------------
(* Sums: the cells of rows of numbers. *)

Rows(S, lo, hi) == UNION {{m} \X (lo[m] .. hi[m]) : m \in S}

LEMMA OneRow ==
  ASSUME NEW m, NEW a \in Int, NEW b \in Int
  PROVE  /\ IsFiniteSet({m} \X (a .. b))
         /\ Cardinality({m} \X (a .. b)) = IF a > b THEN 0 ELSE b - a + 1
<1>1. /\ IsFiniteSet(a .. b)
      /\ Cardinality(a .. b) = IF a > b THEN 0 ELSE b - a + 1
  BY FS_Interval
<1>2. IsFiniteSet({m}) /\ Cardinality({m}) = 1
  BY FS_Singleton
<1>3. /\ IsFiniteSet({m} \X (a .. b))
      /\ Cardinality({m} \X (a .. b)) = 1 * Cardinality(a .. b)
  BY <1>1, <1>2, FS_Product
<1> QED
  BY <1>1, <1>3

LEMMA RowsFinite ==
  ASSUME NEW S, IsFiniteSet(S), NEW lo, NEW hi,
         \A m \in S : lo[m] \in Int /\ hi[m] \in Int
  PROVE  IsFiniteSet(Rows(S, lo, hi)) /\ Cardinality(Rows(S, lo, hi)) \in Nat
<1> DEFINE T == {{m} \X (lo[m] .. hi[m]) : m \in S}
           f == [m \in S |-> {m} \X (lo[m] .. hi[m])]
<1>1. f \in Surjection(S, T)
  BY DEF Surjection
<1>2. IsFiniteSet(T)
  BY <1>1, FS_Surjection
<1>3. \A R \in T : IsFiniteSet(R)
  <2>1. ASSUME NEW m \in S PROVE IsFiniteSet({m} \X (lo[m] .. hi[m]))
    BY OneRow, lo[m] \in Int, hi[m] \in Int
  <2> QED
    BY <2>1
<1>4. IsFiniteSet(UNION T)
  BY <1>2, <1>3, FS_UNION
<1> QED
  BY <1>4, FS_CardinalityType DEF Rows

LEMMA RowsTogether ==
  ASSUME NEW S, NEW T, IsFiniteSet(S), IsFiniteSet(T), S \cap T = {}, NEW lo, NEW hi,
         \A m \in S \cup T : lo[m] \in Int /\ hi[m] \in Int
  PROVE  Cardinality(Rows(S \cup T, lo, hi)) =
           Cardinality(Rows(S, lo, hi)) + Cardinality(Rows(T, lo, hi))
<1>1. IsFiniteSet(Rows(S, lo, hi)) /\ IsFiniteSet(Rows(T, lo, hi))
  BY RowsFinite
<1>2. Rows(S \cup T, lo, hi) = Rows(S, lo, hi) \cup Rows(T, lo, hi)
  BY DEF Rows
<1>3. Rows(S, lo, hi) \cap Rows(T, lo, hi) = {}
  <2> SUFFICES ASSUME NEW x \in Rows(S, lo, hi), x \in Rows(T, lo, hi)
               PROVE  FALSE
    OBVIOUS
  <2>1. PICK m \in S : x \in {m} \X (lo[m] .. hi[m])
    BY DEF Rows
  <2>2. PICK n \in T : x \in {n} \X (lo[n] .. hi[n])
    BY DEF Rows
  <2>3. x[1] = m /\ x[1] = n
    BY <2>1, <2>2
  <2> QED
    BY <2>3
<1>4. Cardinality(Rows(S, lo, hi) \cap Rows(T, lo, hi)) = 0
  BY <1>3, FS_EmptySet
<1>5. Cardinality(Rows(S, lo, hi) \cup Rows(T, lo, hi)) =
        Cardinality(Rows(S, lo, hi)) + Cardinality(Rows(T, lo, hi))
          - Cardinality(Rows(S, lo, hi) \cap Rows(T, lo, hi))
  BY <1>1, FS_Union
<1>6. Cardinality(Rows(S, lo, hi)) \in Nat /\ Cardinality(Rows(T, lo, hi)) \in Nat
  BY <1>1, FS_CardinalityType
<1>7. \A a, b \in Nat : a + b - 0 = a + b
  OBVIOUS
<1> QED
  BY <1>2, <1>4, <1>5, <1>6, <1>7

LEMMA RowsOfOne ==
  ASSUME NEW m, NEW lo, NEW hi, lo[m] \in Int, hi[m] \in Int
  PROVE  Cardinality(Rows({m}, lo, hi)) = IF lo[m] > hi[m] THEN 0 ELSE hi[m] - lo[m] + 1
<1>1. Rows({m}, lo, hi) = {m} \X (lo[m] .. hi[m])
  BY DEF Rows
<1>2. Cardinality({m} \X (lo[m] .. hi[m])) = IF lo[m] > hi[m] THEN 0 ELSE hi[m] - lo[m] + 1
  BY OneRow
<1> QED
  BY <1>1, <1>2
-------------------------------------------------------------------------------
(* The sums of the model. *)

\* SizeSum, of the resources res.
Held(res, ids) == Cardinality(UNION {{r} \X (1 .. res[r].size) : r \in ids})

LEMMA HeldRows ==
  ASSUME NEW res, NEW ids, NEW all, ids \subseteq all
  PROVE  Held(res, ids) = Cardinality(Rows(ids, [r \in all |-> 1], [r \in all |-> res[r].size]))
<1> DEFINE lo == [r \in all |-> 1]
           hi == [r \in all |-> res[r].size]
<1>1. \A r \in ids : lo[r] = 1 /\ hi[r] = res[r].size
  OBVIOUS
<1>2. UNION {{r} \X (1 .. res[r].size) : r \in ids} = UNION {{r} \X (lo[r] .. hi[r]) : r \in ids}
  BY <1>1
<1> QED
  BY <1>2 DEF Held, Rows

LEMMA HeldSums ==
  ASSUME NEW res, NEW S, NEW T, IsFiniteSet(S), IsFiniteSet(T), S \cap T = {},
         \A r \in S \cup T : res[r].size \in Nat
  PROVE  /\ Held(res, S) \in Nat /\ Held(res, T) \in Nat
         /\ Held(res, S \cup T) = Held(res, S) + Held(res, T)
<1> DEFINE lo == [r \in S \cup T |-> 1]
           hi == [r \in S \cup T |-> res[r].size]
<1>1. \A r \in S \cup T : lo[r] \in Int /\ hi[r] \in Int
  OBVIOUS
<1>2. /\ Held(res, S) = Cardinality(Rows(S, lo, hi))
      /\ Held(res, T) = Cardinality(Rows(T, lo, hi))
      /\ Held(res, S \cup T) = Cardinality(Rows(S \cup T, lo, hi))
  BY HeldRows
<1> HIDE DEF lo, hi
<1>3. Cardinality(Rows(S, lo, hi)) \in Nat /\ Cardinality(Rows(T, lo, hi)) \in Nat
  BY <1>1, RowsFinite
<1>4. Cardinality(Rows(S \cup T, lo, hi)) =
        Cardinality(Rows(S, lo, hi)) + Cardinality(Rows(T, lo, hi))
  BY <1>1, RowsTogether
<1> QED
  BY <1>2, <1>3, <1>4

LEMMA HeldByOne ==
  ASSUME NEW res, NEW r, res[r].size \in Nat
  PROVE  Held(res, {r}) = res[r].size
<1> DEFINE lo == [x \in {r} |-> 1]
           hi == [x \in {r} |-> res[x].size]
<1>1. Held(res, {r}) = Cardinality(Rows({r}, lo, hi))
  BY HeldRows
<1>2. lo[r] = 1 /\ hi[r] = res[r].size
  OBVIOUS
<1> HIDE DEF lo, hi
<1>3. Cardinality(Rows({r}, lo, hi)) = IF lo[r] > hi[r] THEN 0 ELSE hi[r] - lo[r] + 1
  <2>1. lo[r] \in Int /\ hi[r] \in Int
    BY <1>2
  <2> QED
    BY <2>1, RowsOfOne
<1>4. \A n \in Nat : (IF 1 > n THEN 0 ELSE n - 1 + 1) = n
  OBVIOUS
<1> QED
  BY <1>1, <1>2, <1>3, <1>4

LEMMA HeldByNone == ASSUME NEW res PROVE Held(res, {}) = 0
<1>1. UNION {{s} \X (1 .. res[s].size) : s \in {}} = {}
  OBVIOUS
<1> QED
  BY <1>1, FS_EmptySet DEF Held

LEMMA HeldAlike ==
  ASSUME NEW res, NEW more, NEW S, \A r \in S : res[r] = more[r]
  PROVE  Held(res, S) = Held(more, S)
<1>1. UNION {{r} \X (1 .. res[r].size) : r \in S} = UNION {{r} \X (1 .. more[r].size) : r \in S}
  OBVIOUS
<1> QED
  BY <1>1 DEF Held
-------------------------------------------------------------------------------
(* Lists *)

LEMMA Joined ==
  ASSUME NEW S, NEW s \in Seq(S), NEW u \in Seq(S)
  PROVE  /\ s \o u \in Seq(S)
         /\ Len(s) \in Nat /\ Len(u) \in Nat /\ Len(s \o u) = Len(s) + Len(u)
         /\ \A i \in 1 .. Len(s) : (s \o u)[i] = s[i]
         /\ \A i \in 1 .. Len(u) : (s \o u)[Len(s) + i] = u[i]
<1>1. Len(s) \in Nat /\ Len(u) \in Nat
  BY LenProperties
<1>2. /\ s \o u \in Seq(S)
      /\ Len(s \o u) = Len(s) + Len(u)
      /\ \A i \in 1 .. Len(s) + Len(u) : (s \o u)[i] = IF i <= Len(s) THEN s[i] ELSE u[i - Len(s)]
  BY ConcatProperties
<1>3. ASSUME NEW i \in 1 .. Len(s) PROVE (s \o u)[i] = s[i]
  <2>1. i \in 1 .. Len(s) + Len(u) /\ i <= Len(s)
    BY <1>1
  <2> QED
    BY <1>2, <2>1
<1>4. ASSUME NEW i \in 1 .. Len(u) PROVE (s \o u)[Len(s) + i] = u[i]
  <2>1. Len(s) + i \in 1 .. Len(s) + Len(u) /\ ~(Len(s) + i <= Len(s)) /\ Len(s) + i - Len(s) = i
    BY <1>1
  <2> QED
    BY <1>2, <2>1
<1> QED
  BY <1>1, <1>2, <1>3, <1>4

\* A part of a list.
LEMMA Part ==
  ASSUME NEW S, NEW list \in Seq(S), NEW lo \in 1 .. Len(list) + 1, NEW hi \in lo - 1 .. Len(list)
  PROVE  /\ SubSeq(list, lo, hi) \in Seq(S)
         /\ Len(SubSeq(list, lo, hi)) = hi - lo + 1
         /\ \A i \in 1 .. hi - lo + 1 : SubSeq(list, lo, hi)[i] = list[lo - 1 + i]
<1> DEFINE a == SubSeq(list, lo, hi)
<1>1. /\ Len(list) \in Nat /\ lo \in Int /\ hi \in Int /\ hi - lo + 1 \in Nat
      /\ \A i \in lo .. hi : list[i] \in S
  <2>1. Len(list) \in Nat
    BY LenProperties
  <2>2. lo \in Int /\ hi \in Int /\ hi - lo + 1 \in Nat /\ lo .. hi \subseteq 1 .. Len(list)
    BY <2>1
  <2>3. \A i \in 1 .. Len(list) : list[i] \in S
    BY ElementOfSeq
  <2> QED
    BY <2>1, <2>2, <2>3
<1>2. /\ a \in Seq(S) /\ Len(a) = IF lo <= hi THEN hi - lo + 1 ELSE 0
      /\ \A i \in 1 .. hi - lo + 1 : a[i] = list[lo + i - 1]
  BY <1>1, SubSeqProperties
<1> HIDE DEF a
<1>3. ASSUME NEW i \in 1 .. hi - lo + 1 PROVE a[i] = list[lo - 1 + i]
  <2>1. lo + i - 1 = lo - 1 + i
    BY <1>1
  <2> QED
    BY <1>2, <2>1
<1>4. Len(a) = hi - lo + 1
  BY <1>1, <1>2
<1> QED
  BY <1>2, <1>3, <1>4 DEF a
-------------------------------------------------------------------------------
(* StaticResourceManager *)

Resource == [path : Paths, size : Nat]

Distinct(list) == \A i, j \in 1 .. Len(list) : list[i] = list[j] => i = j

\* What CacheConsistent says of the list and the map, for the resources res.
Books(res, list, map, size) ==
  /\ DOMAIN map = {res[i].path : i \in Range(list)}
  /\ \A n \in 1 .. Len(list) : map[res[list[n]].path] = list[n]
  /\ Distinct(list)
  /\ size = Held(res, Range(list))
  /\ size > max_cache_size_ => Len(list) = 1

LEMMA MapHolds ==
  ASSUME NEW S, NEW res, NEW list \in Seq(S), NEW map, NEW size, Books(res, list, map, size),
         NEW p \in DOMAIN map
  PROVE  \E n \in 1 .. Len(list) : map[p] = list[n] /\ res[list[n]].path = p
<1>1. Range(list) = {list[i] : i \in 1 .. Len(list)}
  BY RangeEquality
<1>2. PICK n \in 1 .. Len(list) : p = res[list[n]].path
  BY <1>1 DEF Books
<1>3. map[res[list[n]].path] = list[n]
  BY DEF Books
<1> QED
  BY <1>2, <1>3

\* A hit goes to the front of the list.
ToFront(list, n) == <<list[n]>> \o RemoveAt(list, n)

LEMMA MoveToFront ==
  ASSUME NEW S, NEW list \in Seq(S), NEW n \in 1 .. Len(list), Distinct(list)
  PROVE  /\ ToFront(list, n) \in Seq(S)
         /\ Len(ToFront(list, n)) = Len(list)
         /\ Range(ToFront(list, n)) = Range(list)
         /\ Distinct(ToFront(list, n))
<1> DEFINE front == ToFront(list, n)
           L == Len(list)
           a == SubSeq(list, 1, n - 1)
           b == SubSeq(list, n + 1, L)
           one == <<list[n]>>
           ab == a \o b
           at == [i \in 1 .. L |-> IF i = 1 THEN n ELSE IF i <= n THEN i - 1 ELSE i]
<1>1. L \in Nat /\ n \in 1 .. L /\ \A i \in 1 .. L : list[i] \in S
  BY LenProperties, ElementOfSeq
<1>2. a \in Seq(S) /\ Len(a) = n - 1 /\ \A i \in 1 .. n - 1 : a[i] = list[i]
  <2>1. 1 \in 1 .. Len(list) + 1 /\ n - 1 \in 1 - 1 .. Len(list)
        /\ n - 1 - 1 + 1 = n - 1 /\ \A i \in 1 .. n - 1 : 1 - 1 + i = i
    BY <1>1
  <2>2. /\ a \in Seq(S) /\ Len(a) = n - 1 - 1 + 1
        /\ \A i \in 1 .. n - 1 - 1 + 1 : a[i] = list[1 - 1 + i]
    BY <2>1, Part
  <2> HIDE DEF a
  <2> QED
    BY <2>1, <2>2
<1>3. b \in Seq(S) /\ Len(b) = L - n /\ \A i \in 1 .. L - n : b[i] = list[n + i]
  <2>1. n + 1 \in 1 .. Len(list) + 1 /\ L \in n + 1 - 1 .. Len(list)
        /\ L - (n + 1) + 1 = L - n /\ n + 1 - 1 = n
    BY <1>1
  <2>2. /\ b \in Seq(S) /\ Len(b) = L - (n + 1) + 1
        /\ \A i \in 1 .. L - (n + 1) + 1 : b[i] = list[n + 1 - 1 + i]
    BY <2>1, Part
  <2> HIDE DEF b
  <2> QED
    BY <2>1, <2>2
<1>4. one \in Seq(S) /\ Len(one) = 1 /\ one[1] = list[n]
  BY <1>1
<1>5. front = one \o ab
  BY DEF RemoveAt, ToFront
<1>6. /\ ab \in Seq(S) /\ Len(ab) = L - 1
      /\ \A i \in 1 .. n - 1 : ab[i] = list[i]
      /\ \A i \in 1 .. L - n : ab[n - 1 + i] = list[n + i]
  <2> HIDE DEF a, b
  <2>1. /\ ab \in Seq(S) /\ Len(ab) = Len(a) + Len(b)
        /\ \A i \in 1 .. Len(a) : ab[i] = a[i]
        /\ \A i \in 1 .. Len(b) : ab[Len(a) + i] = b[i]
    <3>1. a \in Seq(S) /\ b \in Seq(S)
      BY <1>2, <1>3
    <3> QED
      BY <3>1, Joined
  <2> HIDE DEF ab
  <2>2. Len(ab) = L - 1
    BY <1>1, <1>2, <1>3, <2>1
  <2>3. \A i \in 1 .. n - 1 : ab[i] = list[i]
    BY <1>2, <2>1
  <2>4. \A i \in 1 .. L - n : ab[n - 1 + i] = list[n + i]
    BY <1>2, <1>3, <2>1
  <2> QED
    BY <2>1, <2>2, <2>3, <2>4
<1> HIDE DEF a, b, ab, one, front
<1>7. /\ front \in Seq(S) /\ Len(front) = L
      /\ front[1] = list[n]
      /\ \A i \in 1 .. L - 1 : front[1 + i] = ab[i]
  <2>1. /\ front \in Seq(S) /\ Len(front) = Len(one) + Len(ab)
        /\ \A i \in 1 .. Len(one) : front[i] = one[i]
        /\ \A i \in 1 .. Len(ab) : front[Len(one) + i] = ab[i]
    <3>1. one \in Seq(S) /\ ab \in Seq(S)
      BY <1>4, <1>6
    <3> QED
      BY <1>5, <3>1, Joined
  <2> QED
    BY <1>1, <1>4, <1>6, <2>1
<1>8. \A i, j \in 1 .. L : list[i] = list[j] => i = j
  BY DEF Distinct
<1>9. /\ \A i \in 1 .. L : at[i] \in 1 .. L
      /\ at[1] = n
      /\ \A i \in 1 .. L : i # 1 /\ i <= n => at[i] = i - 1
      /\ \A i \in 1 .. L : i > n => at[i] = i
      /\ \A i, j \in 1 .. L : at[i] = at[j] => i = j
  BY <1>1
<1> HIDE DEF at, L
<1>10. ASSUME NEW i \in 1 .. L PROVE front[i] = list[at[i]]
  <2>1. CASE i = 1
    BY <1>7, <1>9, <2>1
  <2>2. CASE i # 1 /\ i <= n
    <3>1. i - 1 \in 1 .. n - 1 /\ i - 1 \in 1 .. L - 1 /\ 1 + (i - 1) = i
      BY <1>1, <2>2
    <3>2. front[1 + (i - 1)] = ab[i - 1] /\ ab[i - 1] = list[i - 1]
      BY <1>6, <1>7, <3>1
    <3> QED
      BY <1>9, <2>2, <3>1, <3>2
  <2>3. CASE i > n
    <3>1. i - n \in 1 .. L - n /\ n + (i - n) = i /\ n - 1 + (i - n) \in 1 .. L - 1
          /\ 1 + (n - 1 + (i - n)) = i
      BY <1>1, <2>3
    <3>2. front[1 + (n - 1 + (i - n))] = ab[n - 1 + (i - n)]
      BY <1>7, <3>1
    <3>3. ab[n - 1 + (i - n)] = list[n + (i - n)]
      BY <1>6, <3>1
    <3>4. at[i] = i
      BY <1>9, <2>3
    <3> QED
      BY <3>1, <3>2, <3>3, <3>4
  <2>4. i = 1 \/ (i # 1 /\ i <= n) \/ i > n
    BY <1>1
  <2> QED
    BY <2>1, <2>2, <2>3, <2>4
<1>11. ASSUME NEW j \in 1 .. L PROVE \E i \in 1 .. L : at[i] = j
  <2>1. CASE j = n
    BY <1>1, <1>9, <2>1, 1 \in 1 .. L
  <2>2. CASE j < n
    <3>1. j + 1 \in 1 .. L /\ j + 1 # 1 /\ j + 1 <= n /\ j + 1 - 1 = j
      BY <1>1, <2>2
    <3> QED
      BY <1>9, <3>1
  <2>3. CASE j > n
    BY <1>9, <2>3
  <2> QED
    BY <1>1, <2>1, <2>2, <2>3
<1>12. Range(front) = {front[i] : i \in 1 .. L} /\ Range(list) = {list[i] : i \in 1 .. L}
  <2>1. Range(front) = {front[i] : i \in 1 .. Len(front)}
    <3>1. front \in Seq(S)
      BY <1>7
    <3> QED
      BY <3>1, RangeEquality
  <2>2. Range(list) = {list[i] : i \in 1 .. L}
    BY RangeEquality DEF L
  <2> QED
    BY <1>7, <2>1, <2>2
<1>13. {front[i] : i \in 1 .. L} = {list[i] : i \in 1 .. L}
  <2>1. ASSUME NEW i \in 1 .. L PROVE front[i] \in {list[j] : j \in 1 .. L}
    BY <1>9, <1>10
  <2>2. ASSUME NEW j \in 1 .. L PROVE list[j] \in {front[i] : i \in 1 .. L}
    <3>1. PICK i \in 1 .. L : at[i] = j
      BY <1>11
    <3>2. front[i] = list[j]
      BY <1>10, <3>1
    <3> QED
      BY <3>2
  <2> QED
    BY <2>1, <2>2
<1>14. ASSUME NEW i \in 1 .. L, NEW j \in 1 .. L, front[i] = front[j]
       PROVE  i = j
  <2>1. list[at[i]] = list[at[j]]
    BY <1>10, <1>14
  <2>2. at[i] = at[j]
    BY <1>8, <1>9, <2>1
  <2> QED
    BY <1>9, <2>2
<1>15. Distinct(front)
  BY <1>7, <1>14 DEF Distinct
<1> QED
  BY <1>7, <1>12, <1>13, <1>15 DEF L, front

\* A hit keeps the books.
LEMMA HitBooks ==
  ASSUME NEW S, NEW res, NEW list \in Seq(S), NEW map, NEW size, Books(res, list, map, size),
         NEW n \in 1 .. Len(list)
  PROVE  Books(res, ToFront(list, n), map, size) /\ ToFront(list, n) \in Seq(S)
<1> DEFINE front == ToFront(list, n)
<1>1. /\ DOMAIN map = {res[i].path : i \in Range(list)}
      /\ \A i \in 1 .. Len(list) : map[res[list[i]].path] = list[i]
      /\ Distinct(list)
      /\ size = Held(res, Range(list))
      /\ size > max_cache_size_ => Len(list) = 1
  BY DEF Books
<1>2. /\ front \in Seq(S)
      /\ Len(front) = Len(list)
      /\ Range(front) = Range(list)
      /\ Distinct(front)
  BY <1>1, MoveToFront
<1> HIDE DEF front
<1>3. /\ Range(list) = {list[i] : i \in 1 .. Len(list)}
      /\ Range(front) = {front[i] : i \in 1 .. Len(front)}
  <2>1. Range(list) = {list[i] : i \in 1 .. Len(list)}
    BY RangeEquality
  <2>2. front \in Seq(S)
    BY <1>2
  <2> QED
    BY <2>1, <2>2, RangeEquality
<1>4. \A i \in Range(list) : map[res[i].path] = i
  BY <1>1, <1>3
<1>5. \A i \in 1 .. Len(front) : map[res[front[i]].path] = front[i]
  BY <1>2, <1>3, <1>4
<1> QED
  BY <1>1, <1>2, <1>5 DEF Books, front

\* A new resource enters the list, the map and the table of the resources, and
\* the last k of the list leave it and the map.
Entered(list, k, r) == <<r>> \o SubSeq(list, 1, Len(list) - k)
Dropped(list, k) == Range(SubSeq(list, Len(list) - k + 1, Len(list)))
Staying(map, res, old) == DOMAIN map \ {res[i].path : i \in old}
Remapped(map, left, p, r) == [q \in left \cup {p} |-> IF q = p THEN r ELSE map[q]]

\* after is r followed by the first n of the list.
Follows(after, list, n, r, D) ==
  /\ after \in Seq(D \cup {r})
  /\ Len(after) = n + 1
  /\ after[1] = r
  /\ \A i \in 1 .. n : after[1 + i] = list[i]

Picked(list, lo, hi) == {list[i] : i \in lo .. hi}

\* The map leads to every resource of S by its path, and nowhere else.
LeadsTo(map, res, S) ==
  /\ DOMAIN map = {res[i].path : i \in S}
  /\ \A i \in S : map[res[i].path] = i

LEMMA DroppedPicked ==
  ASSUME NEW S, NEW list \in Seq(S), NEW k \in 0 .. Len(list)
  PROVE  Dropped(list, k) = Picked(list, Len(list) - k + 1, Len(list))
<1> DEFINE n == Len(list)
           m == n - k + 1
           b == SubSeq(list, m, n)
<1>1. n \in Nat /\ k \in Nat /\ m \in 1 .. n + 1 /\ n \in m - 1 .. n /\ n - m + 1 = k
  BY LenProperties
<1>2. b \in Seq(S) /\ Len(b) = n - m + 1 /\ \A i \in 1 .. n - m + 1 : b[i] = list[m - 1 + i]
  BY <1>1, Part
<1> HIDE DEF b
<1>3. Range(b) = {b[i] : i \in 1 .. Len(b)}
  BY <1>2, RangeEquality
<1> HIDE DEF m, n
<1>4. ASSUME NEW i \in 1 .. k PROVE b[i] \in {list[j] : j \in m .. n}
  <2>1. b[i] = list[m - 1 + i] /\ m - 1 + i \in m .. n
    BY <1>1, <1>2
  <2> QED
    BY <2>1
<1>5. ASSUME NEW j \in m .. n PROVE list[j] \in {b[i] : i \in 1 .. k}
  <2>1. j - m + 1 \in 1 .. k /\ m - 1 + (j - m + 1) = j
    BY <1>1
  <2>2. b[j - m + 1] = list[m - 1 + (j - m + 1)]
    BY <1>1, <1>2, <2>1
  <2> QED
    BY <2>1, <2>2
<1>6. {b[i] : i \in 1 .. k} = {list[j] : j \in m .. n}
  BY <1>4, <1>5
<1> QED
  BY <1>1, <1>2, <1>3, <1>6 DEF b, m, n, Dropped, Picked

LEMMA EnteredList ==
  ASSUME NEW D, NEW list \in Seq(D), NEW k \in 0 .. Len(list), NEW r
  PROVE  Follows(Entered(list, k, r), list, Len(list) - k, r, D)
<1> DEFINE n == Len(list) - k
           a == SubSeq(list, 1, n)
           one == <<r>>
           after == Entered(list, k, r)
<1>1. a \in Seq(D) /\ Len(a) = n /\ \A i \in 1 .. n : a[i] = list[i]
  <2>1. /\ 1 \in 1 .. Len(list) + 1 /\ n \in 1 - 1 .. Len(list)
        /\ n - 1 + 1 = n /\ \A i \in 1 .. n : 1 - 1 + i = i
    BY LenProperties
  <2>2. a \in Seq(D) /\ Len(a) = n - 1 + 1 /\ \A i \in 1 .. n - 1 + 1 : a[i] = list[1 - 1 + i]
    BY <2>1, Part
  <2> HIDE DEF a, n
  <2> QED
    BY <2>1, <2>2
<1>2. one \in Seq(D \cup {r}) /\ Len(one) = 1 /\ one[1] = r
  OBVIOUS
<1>3. after = one \o a
  BY DEF Entered
<1> HIDE DEF a, one, after
<1>4. a \in Seq(D \cup {r})
  BY <1>1, SeqMonotonic
<1>5. /\ one \o a \in Seq(D \cup {r})
      /\ Len(one \o a) = Len(one) + Len(a)
      /\ \A i \in 1 .. Len(one) : (one \o a)[i] = one[i]
      /\ \A i \in 1 .. Len(a) : (one \o a)[Len(one) + i] = a[i]
  <2>1. one \in Seq(D \cup {r}) /\ a \in Seq(D \cup {r})
    BY <1>2, <1>4
  <2> QED
    BY <2>1, Joined
<1>6. n \in Nat
  BY LenProperties
<1> HIDE DEF n
<1>7. Len(after) = n + 1
  BY <1>1, <1>2, <1>3, <1>5, <1>6
<1>8. after[1] = r
  BY <1>2, <1>3, <1>5
<1>9. \A i \in 1 .. n : after[1 + i] = list[i]
  BY <1>1, <1>2, <1>3, <1>5
<1> QED
  BY <1>3, <1>5, <1>7, <1>8, <1>9 DEF after, n, Follows

LEMMA EnteredResources ==
  ASSUME NEW R, NEW res \in Seq(R), NEW new \in R
  PROVE  /\ Append(res, new) \in Seq(R)
         /\ Len(res) \in Nat /\ DOMAIN res = 1 .. Len(res)
         /\ Len(Append(res, new)) = Len(res) + 1
         /\ DOMAIN Append(res, new) = DOMAIN res \cup {Len(res) + 1}
         /\ Len(res) + 1 \notin DOMAIN res
         /\ \A i \in DOMAIN res : Append(res, new)[i] = res[i]
         /\ Append(res, new)[Len(res) + 1] = new
<1> DEFINE more == Append(res, new)
<1>1. Len(res) \in Nat /\ DOMAIN res = 1 .. Len(res)
  BY LenProperties
<1>2. /\ more \in Seq(R)
      /\ Len(more) = Len(res) + 1
      /\ \A i \in 1 .. Len(res) : more[i] = res[i]
      /\ more[Len(res) + 1] = new
  BY AppendProperties
<1> HIDE DEF more
<1>3. DOMAIN more = 1 .. Len(res) + 1
  BY <1>2, LenProperties
<1>4. 1 .. Len(res) + 1 = (1 .. Len(res)) \cup {Len(res) + 1} /\ Len(res) + 1 \notin 1 .. Len(res)
  BY <1>1
<1> QED
  BY <1>1, <1>2, <1>3, <1>4 DEF more

LEMMA EnteredRange ==
  ASSUME NEW D, NEW r, r \notin D, NEW list \in Seq(D), NEW n \in Nat, n <= Len(list),
         Distinct(list), NEW after, Follows(after, list, n, r, D)
  PROVE  /\ Range(after) = Picked(list, 1, n) \cup {r}
         /\ Distinct(after)
         /\ Range(list) = Picked(list, 1, n) \cup Picked(list, n + 1, Len(list))
         /\ Picked(list, 1, n) \cap Picked(list, n + 1, Len(list)) = {}
<1> DEFINE L == Len(list)
<1>1. L \in Nat /\ n <= L /\ \A i \in 1 .. L : list[i] \in D
  BY LenProperties, ElementOfSeq
<1>2. /\ after \in Seq(D \cup {r}) /\ Len(after) = n + 1 /\ after[1] = r
      /\ \A i \in 1 .. n : after[1 + i] = list[i]
  BY DEF Follows
<1>3. Range(list) = {list[i] : i \in 1 .. L}
  BY RangeEquality
<1>4. Range(after) = {after[i] : i \in 1 .. n + 1}
  <2>1. after \in Seq(D \cup {r}) /\ Len(after) = n + 1
    BY <1>2
  <2>2. Range(after) = {after[i] : i \in 1 .. Len(after)}
    BY <2>1, RangeEquality
  <2> QED
    BY <2>1, <2>2
<1>5. \A i, j \in 1 .. L : list[i] = list[j] => i = j
  BY DEF Distinct
<1> HIDE DEF L
<1>6. \A m \in 1 .. n + 1 : m = 1 \/ \E h \in 1 .. n : m = 1 + h
  <2>1. ASSUME NEW m \in 1 .. n + 1, m # 1 PROVE m - 1 \in 1 .. n /\ m = 1 + (m - 1)
    BY <2>1
  <2> QED
    BY <2>1
<1>7. \A h \in 1 .. n : h \in 1 .. L /\ 1 + h \in 1 .. n + 1
  BY <1>1
<1>8. \A h \in 1 .. n : after[1 + h] = list[h] /\ list[h] # r
  BY <1>1, <1>2, <1>7
<1>9. Range(after) = {list[i] : i \in 1 .. n} \cup {r}
  <2>1. ASSUME NEW m \in 1 .. n + 1 PROVE after[m] \in {list[i] : i \in 1 .. n} \cup {r}
    <3>1. CASE m = 1
      BY <1>2, <3>1
    <3>2. CASE m # 1
      <4>1. PICK h \in 1 .. n : m = 1 + h
        BY <1>6, <3>2
      <4>2. after[m] = list[h]
        BY <1>8, <4>1
      <4> QED
        BY <4>2
    <3> QED
      BY <3>1, <3>2
  <2>2. ASSUME NEW h \in 1 .. n PROVE list[h] \in {after[m] : m \in 1 .. n + 1}
    BY <1>7, <1>8
  <2>3. 1 \in 1 .. n + 1
    OBVIOUS
  <2> QED
    <3>1. r \in {after[m] : m \in 1 .. n + 1}
      BY <1>2, <2>3
    <3> QED
      BY <1>4, <2>1, <2>2, <3>1
<1>10. ASSUME NEW i \in 1 .. n + 1, NEW j \in 1 .. n + 1, after[i] = after[j]
       PROVE  i = j
  <2>1. \A m \in 1 .. n + 1 : after[m] = r => m = 1
    <3> SUFFICES ASSUME NEW m \in 1 .. n + 1, after[m] = r, m # 1 PROVE FALSE
      OBVIOUS
    <3>1. PICK h \in 1 .. n : m = 1 + h
      BY <1>6
    <3>2. after[m] = list[h] /\ list[h] # r
      BY <1>8, <3>1
    <3> QED
      BY <3>2
  <2>2. CASE i = 1 \/ j = 1
    <3>1. after[i] = r /\ after[j] = r
      BY <1>2, <1>10, <2>2
    <3> QED
      BY <2>1, <3>1
  <2>3. CASE i # 1 /\ j # 1
    <3>1. PICK g \in 1 .. n : i = 1 + g
      BY <1>6, <2>3
    <3>2. PICK h \in 1 .. n : j = 1 + h
      BY <1>6, <2>3
    <3>3. list[g] = list[h] /\ g \in 1 .. L /\ h \in 1 .. L
      BY <1>7, <1>8, <1>10, <3>1, <3>2
    <3> QED
      BY <1>5, <3>1, <3>2, <3>3
  <2> QED
    BY <2>2, <2>3
<1>11. Distinct(after)
  BY <1>2, <1>10 DEF Distinct
<1>12. /\ \A i \in 1 .. L : i \in 1 .. n \/ i \in n + 1 .. L
       /\ 1 .. n \subseteq 1 .. L /\ n + 1 .. L \subseteq 1 .. L
       /\ (1 .. n) \cap (n + 1 .. L) = {}
  BY <1>1
<1>13. Range(list) = {list[i] : i \in 1 .. n} \cup {list[i] : i \in n + 1 .. L}
  BY <1>3, <1>12
<1>14. {list[i] : i \in 1 .. n} \cap {list[i] : i \in n + 1 .. L} = {}
  BY <1>5, <1>12
<1> QED
  BY <1>9, <1>11, <1>13, <1>14 DEF L, Picked

LEMMA EnteredMap ==
  ASSUME NEW kept, NEW old, kept \cap old = {}, NEW r, r \notin kept,
         NEW res, NEW more, NEW map, NEW p, p \notin DOMAIN map,
         LeadsTo(map, res, kept \cup old),
         \A i \in kept : more[i] = res[i],
         more[r].path = p
  PROVE  LeadsTo(Remapped(map, Staying(map, res, old), p, r), more, kept \cup {r})
<1> DEFINE left == Staying(map, res, old)
<1>0. /\ DOMAIN map = {res[i].path : i \in kept \cup old}
      /\ \A i \in kept \cup old : map[res[i].path] = i
  BY DEF LeadsTo
<1>1. \A i, j \in kept \cup old : res[i].path = res[j].path => i = j
  BY <1>0
<1>2. left = {res[i].path : i \in kept}
  BY <1>0, <1>1 DEF Staying
<1> HIDE DEF left
<1>3. \A i \in kept : /\ more[i].path = res[i].path /\ map[res[i].path] = i
                      /\ res[i].path \in left /\ res[i].path # p
  BY <1>0, <1>2
<1>4. DOMAIN Remapped(map, left, p, r) = left \cup {p}
  BY DEF Remapped
<1>5. \A q \in left \cup {p} : Remapped(map, left, p, r)[q] = IF q = p THEN r ELSE map[q]
  BY DEF Remapped
<1>6. {more[i].path : i \in kept \cup {r}} = left \cup {p}
  BY <1>2, <1>3
<1>7. Remapped(map, left, p, r)[more[r].path] = r
  BY <1>5
<1>8. \A i \in kept : Remapped(map, left, p, r)[more[i].path] = i
  BY <1>3, <1>5
<1> QED
  BY <1>4, <1>6, <1>7, <1>8 DEF LeadsTo, left

\* Evict_ of k and the insertion that follows keep the books.
LEMMA InsertBooks ==
  ASSUME NEW res \in Seq(Resource), NEW list \in Seq(DOMAIN res), NEW map, NEW size \in Nat,
         Books(res, list, map, size),
         NEW new \in Resource, new.path \notin DOMAIN map,
         NEW k \in 0 .. Len(list), NEW r, r = Len(res) + 1,
         NEW left, left = Staying(map, res, Dropped(list, k)),
         NEW total, total = size - Held(res, Dropped(list, k)) + new.size,
         total <= max_cache_size_ \/ k = Len(list)
  PROVE  /\ Books(Append(res, new), Entered(list, k, r), Remapped(map, left, new.path, r), total)
         /\ Append(res, new) \in Seq(Resource)
         /\ Entered(list, k, r) \in Seq(DOMAIN Append(res, new))
         /\ r \in DOMAIN Append(res, new)
         /\ total \in Nat
<1> DEFINE D == DOMAIN res
           L == Len(list)
           n == L - k
           more == Append(res, new)
           after == Entered(list, k, r)
           kept == Picked(list, 1, n)
           old == Dropped(list, k)
           map2 == Remapped(map, left, new.path, r)
<1>1. L \in Nat /\ n \in Nat /\ n <= L /\ n + k = L /\ k \in Nat
  BY LenProperties
<1>2. /\ more \in Seq(Resource) /\ Len(res) \in Nat
      /\ D = 1 .. Len(res) /\ DOMAIN more = D \cup {r} /\ r \notin D
      /\ \A i \in D : more[i] = res[i]
      /\ more[r] = new
  BY EnteredResources
<1>3. Follows(after, list, n, r, D)
  BY EnteredList
<1>4. old = Picked(list, n + 1, L)
  BY DroppedPicked
<1>5. /\ DOMAIN map = {res[i].path : i \in Range(list)}
      /\ \A i \in 1 .. L : map[res[list[i]].path] = list[i]
      /\ Distinct(list)
      /\ size = Held(res, Range(list))
  BY DEF Books
<1>6. left = Staying(map, res, old) /\ total = size - Held(res, old) + new.size
  OBVIOUS
<1>7. \A i \in D : res[i].size \in Nat
  <2>1. \A i \in D : res[i] \in Resource
    BY <1>2, ElementOfSeq
  <2> QED
    BY <2>1 DEF Resource
<1>8. new.size \in Nat
  BY DEF Resource
<1>9. list \in Seq(D)
  OBVIOUS
<1>10. Range(list) = {list[i] : i \in 1 .. L} /\ \A i \in 1 .. L : list[i] \in D
  BY RangeEquality, ElementOfSeq
<1>11. k = L \/ total <= max_cache_size_
  OBVIOUS
<1> HIDE DEF D, n, more, after, old, kept, map2
<1>12. /\ Range(after) = kept \cup {r}
       /\ Distinct(after)
       /\ Range(list) = kept \cup old
       /\ kept \cap old = {}
  <2>1. r \notin D /\ n \in Nat /\ n <= Len(list) /\ Distinct(list)
    BY <1>1, <1>2, <1>5
  <2>2. /\ Range(after) = Picked(list, 1, n) \cup {r}
        /\ Distinct(after)
        /\ Range(list) = Picked(list, 1, n) \cup Picked(list, n + 1, Len(list))
        /\ Picked(list, 1, n) \cap Picked(list, n + 1, Len(list)) = {}
    <3> HIDE DEF L
    <3> QED
      BY <1>3, <1>9, <2>1, EnteredRange
  <2> QED
    BY <1>4, <2>2 DEF kept
<1> HIDE DEF L
<1>13. kept \subseteq D /\ old \subseteq D /\ r \notin kept
  <2>1. \A i \in Range(list) : i \in D
    BY <1>10
  <2>2. \A i \in kept \cup old : i \in D
    BY <1>12, <2>1
  <2> QED
    BY <1>2, <2>2
<1>14. LeadsTo(map2, more, kept \cup {r})
  <2>1. LeadsTo(map, res, kept \cup old)
    <3>1. \A i \in Range(list) : map[res[i].path] = i
      BY <1>5, <1>10
    <3> QED
      BY <1>5, <1>12, <3>1 DEF LeadsTo
  <2>2. \A i \in kept : more[i] = res[i]
    BY <1>2, <1>13
  <2>3. more[r].path = new.path /\ new.path \notin DOMAIN map
    BY <1>2
  <2>4. kept \cap old = {} /\ r \notin kept
    BY <1>12, <1>13
  <2>5. LeadsTo(Remapped(map, Staying(map, res, old), new.path, r), more, kept \cup {r})
    BY <2>1, <2>2, <2>3, <2>4, EnteredMap
  <2> QED
    BY <1>6, <2>5 DEF map2
<1>15. IsFiniteSet(kept) /\ IsFiniteSet(old)
  <2>1. IsFiniteSet(D)
    BY <1>2, FS_Interval
  <2> QED
    BY <1>13, <2>1, FS_Subset
<1>16. /\ Held(res, kept) \in Nat /\ Held(res, old) \in Nat
       /\ size = Held(res, kept) + Held(res, old)
  <2>1. \A i \in kept \cup old : res[i].size \in Nat
    BY <1>7, <1>13
  <2>2. kept \cap old = {}
    BY <1>12
  <2>3. /\ Held(res, kept) \in Nat /\ Held(res, old) \in Nat
        /\ Held(res, kept \cup old) = Held(res, kept) + Held(res, old)
    BY <1>15, <2>1, <2>2, HeldSums
  <2> QED
    BY <1>5, <1>12, <2>3
<1>17. Held(more, kept \cup {r}) = Held(res, kept) + new.size
  <2>1. IsFiniteSet({r}) /\ kept \cap {r} = {}
    BY <1>13, FS_Singleton
  <2>2. \A i \in kept \cup {r} : more[i].size \in Nat
    BY <1>2, <1>7, <1>8, <1>13
  <2>3. Held(more, kept \cup {r}) = Held(more, kept) + Held(more, {r})
    BY <1>15, <2>1, <2>2, HeldSums
  <2>4. Held(more, {r}) = new.size
    <3>1. more[r].size \in Nat /\ more[r].size = new.size
      BY <1>2, <1>8
    <3> QED
      BY <3>1, HeldByOne
  <2>5. Held(more, kept) = Held(res, kept)
    <3>1. \A i \in kept : res[i] = more[i]
      BY <1>2, <1>13
    <3> QED
      BY <3>1, HeldAlike
  <2> QED
    BY <2>3, <2>4, <2>5
<1>18. total = Held(more, Range(after)) /\ total \in Nat
  <2>1. \A a, b, c, s \in Nat : c = a + b => c - b + s = a + s /\ a + s \in Nat
    OBVIOUS
  <2> QED
    BY <1>6, <1>8, <1>12, <1>16, <1>17, <2>1
<1>19. total > max_cache_size_ => Len(after) = 1
  <2>1. max_cache_size_ \in Nat /\ Len(after) = n + 1
    BY <1>3, StaticAssumption DEF Follows
  <2> QED
    BY <1>1, <1>11, <1>18, <2>1
<1>20. after \in Seq(D \cup {r})
  BY <1>3 DEF Follows
<1>21. Books(more, after, map2, total)
  <2>1. DOMAIN map2 = {more[i].path : i \in Range(after)}
    BY <1>12, <1>14 DEF LeadsTo
  <2>2. \A i \in 1 .. Len(after) : map2[more[after[i]].path] = after[i]
    <3>1. Range(after) = {after[i] : i \in 1 .. Len(after)}
      BY <1>20, RangeEquality
    <3>2. \A i \in Range(after) : map2[more[i].path] = i
      BY <1>12, <1>14 DEF LeadsTo
    <3>3. \A i \in 1 .. Len(after) : after[i] \in Range(after)
      BY <3>1
    <3> QED
      BY <3>2, <3>3
  <2> QED
    BY <1>12, <1>18, <1>19, <2>1, <2>2 DEF Books
<1> QED
  BY <1>2, <1>18, <1>20, <1>21 DEF more, after, map2, D

\* Every set of natural numbers has a least member, and a bounded one a greatest.
LEMMA Smallest ==
  ASSUME NEW T, T \subseteq Nat, T # {}
  PROVE  \E x \in T : \A y \in T : x <= y
<1> DEFINE R == {ss \in Nat \X Nat : ss[1] < ss[2]}
<1>1. OpToRel(<, Nat) = R
  BY DEF OpToRel
<1>2. IsWellFoundedOn(R, Nat)
  BY <1>1, NatLessThanWellFounded
<1>3. PICK x \in T : \A y \in T : ~(<<y, x>> \in R)
  <2> HIDE DEF R
  <2> QED
    BY <1>2, WFMin
<1>4. ASSUME NEW y \in T PROVE x <= y
  <2>1. x \in Nat /\ y \in Nat /\ ~(<<y, x>> \in R)
    BY <1>3
  <2>2. ~(y < x)
    BY <2>1
  <2> QED
    BY <2>1, <2>2
<1> QED
  BY <1>4

\* Evict_ stops, and has made room or emptied the list.
LEMMA EvictionsMakeRoom ==
  ASSUME NEW size \in Nat, lru_list_ \in Seq(DOMAIN resources)
  PROVE  /\ Evictions(size) \in 0 .. Len(lru_list_)
         /\ \/ current_cache_size_ - Held(resources, Dropped(lru_list_, Evictions(size))) + size
                 <= max_cache_size_
            \/ Evictions(size) = Len(lru_list_)
<1> DEFINE Enough(k) ==
             \/ current_cache_size_ - SizeSum(Range(Oldest(k))) + size <= max_cache_size_
             \/ k = Len(lru_list_)
           T == {k \in 0 .. Len(lru_list_) : Enough(k)}
<1>1. Len(lru_list_) \in Nat
  BY LenProperties
<1>2. Len(lru_list_) \in T
  BY <1>1
<1>3. T \subseteq 0 .. Len(lru_list_)
  OBVIOUS
<1>4. T \subseteq Nat
  BY <1>1, <1>3
<1> HIDE DEF T
<1>5. \E x \in T : \A y \in T : x <= y
  BY <1>2, <1>4, Smallest
<1>6. Evictions(size) \in T
  <2>1. Evictions(size) = Min(T)
    BY DEF Evictions, T
  <2>2. Min(T) \in T
    BY <1>5 DEF Min
  <2> QED
    BY <2>1, <2>2
<1>7. Enough(Evictions(size)) /\ Evictions(size) \in 0 .. Len(lru_list_)
  BY <1>6 DEF T
<1>8. SizeSum(Range(Oldest(Evictions(size)))) = Held(resources, Dropped(lru_list_, Evictions(size)))
  BY DEF SizeSum, Held, Oldest, Dropped
<1> QED
  BY <1>7, <1>8
-------------------------------------------------------------------------------
(* BufferChain *)

Nodes == [data : Seq(Bytes), offset : Nat]

\* A node in the chain is not used up.
Begun(q) == q \in Seq(Nodes) /\ \A m \in 1 .. Len(q) : q[m].offset < Len(q[m].data)

LEMMA LeftRows ==
  ASSUME NEW q, NEW k \in Nat, NEW n \in Nat, k <= n
  PROVE  LeftIn(q, k) = Cardinality(Rows(1 .. k, [m \in 1 .. n |-> q[m].offset + 1],
                                                 [m \in 1 .. n |-> Len(q[m].data)]))
<1> DEFINE lo == [m \in 1 .. n |-> q[m].offset + 1]
           hi == [m \in 1 .. n |-> Len(q[m].data)]
<1>1. \A m \in 1 .. k : lo[m] = q[m].offset + 1 /\ hi[m] = Len(q[m].data)
  OBVIOUS
<1>2. UNION {{m} \X Unsent(q[m]) : m \in 1 .. k} = UNION {{m} \X (lo[m] .. hi[m]) : m \in 1 .. k}
  BY <1>1 DEF Unsent
<1> QED
  BY <1>2 DEF LeftIn, Rows

LEMMA NodeNumbers ==
  ASSUME NEW q, Begun(q)
  PROVE  /\ Len(q) \in Nat
         /\ \A m \in 1 .. Len(q) : /\ q[m] \in Nodes
                                   /\ q[m].offset \in Nat /\ Len(q[m].data) \in Nat
                                   /\ q[m].offset < Len(q[m].data)
<1>1. q \in Seq(Nodes) /\ Len(q) \in Nat
  BY LenProperties DEF Begun
<1>2. ASSUME NEW m \in 1 .. Len(q)
      PROVE  /\ q[m] \in Nodes
             /\ q[m].offset \in Nat /\ Len(q[m].data) \in Nat
             /\ q[m].offset < Len(q[m].data)
  <2>1. q[m] \in Nodes
    BY <1>1, ElementOfSeq
  <2>2. q[m].offset \in Nat /\ q[m].data \in Seq(Bytes)
    BY <2>1 DEF Nodes
  <2>3. Len(q[m].data) \in Nat
    BY <2>2, LenProperties
  <2> QED
    BY <2>1, <2>2, <2>3 DEF Begun
<1> QED
  BY <1>1, <1>2

LEMMA LeftSums ==
  ASSUME NEW q, Begun(q)
  PROVE  /\ LeftIn(q, 0) = 0
         /\ \A k \in 0 .. Len(q) : LeftIn(q, k) \in Nat
         /\ \A k \in 0 .. Len(q) - 1 :
              LeftIn(q, k + 1) = LeftIn(q, k) + Len(q[k + 1].data) - q[k + 1].offset
         /\ \A j, k \in 0 .. Len(q) : j <= k => LeftIn(q, j) <= LeftIn(q, k)
<1> DEFINE n == Len(q)
           lo == [m \in 1 .. n |-> q[m].offset + 1]
           hi == [m \in 1 .. n |-> Len(q[m].data)]
<1>1. n \in Nat
  BY NodeNumbers
<1>2. \A m \in 1 .. n : /\ lo[m] \in Int /\ hi[m] \in Int /\ lo[m] <= hi[m]
                        /\ hi[m] - lo[m] + 1 = Len(q[m].data) - q[m].offset
                        /\ Len(q[m].data) \in Nat /\ q[m].offset \in Nat
  BY NodeNumbers
<1>3. \A k \in 0 .. n : LeftIn(q, k) = Cardinality(Rows(1 .. k, lo, hi))
  <2> SUFFICES ASSUME NEW k \in 0 .. n PROVE LeftIn(q, k) = Cardinality(Rows(1 .. k, lo, hi))
    OBVIOUS
  <2>1. k \in Nat /\ k <= n
    BY <1>1
  <2> QED
    BY <1>1, <2>1, LeftRows
<1> HIDE DEF lo, hi, n
<1>4. \A k \in 0 .. n : /\ IsFiniteSet(1 .. k) /\ 1 .. k \subseteq 1 .. n
                        /\ IsFiniteSet(Rows(1 .. k, lo, hi))
                        /\ Cardinality(Rows(1 .. k, lo, hi)) \in Nat
  <2> SUFFICES ASSUME NEW k \in 0 .. n
               PROVE  /\ IsFiniteSet(1 .. k) /\ 1 .. k \subseteq 1 .. n
                      /\ IsFiniteSet(Rows(1 .. k, lo, hi))
                      /\ Cardinality(Rows(1 .. k, lo, hi)) \in Nat
    OBVIOUS
  <2>1. 1 .. k \subseteq 1 .. n /\ k \in Int /\ 1 \in Int
    BY <1>1
  <2>2. IsFiniteSet(1 .. k)
    BY <2>1, FS_Interval
  <2>3. \A m \in 1 .. k : lo[m] \in Int /\ hi[m] \in Int
    BY <1>2, <2>1
  <2> QED
    BY <2>1, <2>2, <2>3, RowsFinite
<1>5. LeftIn(q, 0) = 0
  <2>1. Rows({}, lo, hi) = {}
    BY DEF Rows
  <2>2. 1 .. 0 = {} /\ 0 \in 0 .. n
    BY <1>1
  <2> QED
    BY <1>3, <2>1, <2>2, FS_EmptySet
<1>6. ASSUME NEW k \in 0 .. n - 1
      PROVE  LeftIn(q, k + 1) = LeftIn(q, k) + Len(q[k + 1].data) - q[k + 1].offset
  <2>1. /\ k \in 0 .. n /\ k + 1 \in 0 .. n /\ k + 1 \in 1 .. n
        /\ 1 .. k + 1 = (1 .. k) \cup {k + 1} /\ (1 .. k) \cap {k + 1} = {}
    BY <1>1
  <2>2. IsFiniteSet(1 .. k) /\ IsFiniteSet({k + 1})
    BY <1>4, <2>1, FS_Singleton
  <2>3. \A m \in (1 .. k) \cup {k + 1} : lo[m] \in Int /\ hi[m] \in Int
    <3>1. (1 .. k) \cup {k + 1} \subseteq 1 .. n
      BY <1>4, <2>1
    <3> QED
      BY <1>2, <3>1
  <2>4. Cardinality(Rows((1 .. k) \cup {k + 1}, lo, hi)) =
          Cardinality(Rows(1 .. k, lo, hi)) + Cardinality(Rows({k + 1}, lo, hi))
    BY <2>1, <2>2, <2>3, RowsTogether
  <2>5. Cardinality(Rows({k + 1}, lo, hi)) =
          IF lo[k + 1] > hi[k + 1] THEN 0 ELSE hi[k + 1] - lo[k + 1] + 1
    <3>1. lo[k + 1] \in Int /\ hi[k + 1] \in Int
      BY <1>2, <2>1
    <3> QED
      BY <3>1, RowsOfOne
  <2>6. Cardinality(Rows({k + 1}, lo, hi)) = Len(q[k + 1].data) - q[k + 1].offset
    BY <1>2, <2>1, <2>5
  <2>7. LeftIn(q, k + 1) = LeftIn(q, k) + (Len(q[k + 1].data) - q[k + 1].offset)
    BY <1>3, <2>1, <2>4, <2>6
  <2>8. LeftIn(q, k) \in Nat /\ Len(q[k + 1].data) \in Nat /\ q[k + 1].offset \in Nat
    BY <1>2, <1>3, <1>4, <2>1
  <2>9. \A a, b, c \in Nat : a + (b - c) = a + b - c
    OBVIOUS
  <2> QED
    BY <2>7, <2>8, <2>9
<1>7. ASSUME NEW j \in 0 .. n, NEW k \in 0 .. n, j <= k
      PROVE  LeftIn(q, j) <= LeftIn(q, k)
  <2>1. 1 .. j \subseteq 1 .. k
    BY <1>7
  <2>2. Rows(1 .. j, lo, hi) \in SUBSET Rows(1 .. k, lo, hi)
    BY <2>1 DEF Rows
  <2>3. Cardinality(Rows(1 .. j, lo, hi)) <= Cardinality(Rows(1 .. k, lo, hi))
    BY <1>4, <2>2, FS_Subset
  <2> QED
    BY <1>3, <2>3
<1>8. \A k \in 0 .. n : LeftIn(q, k) \in Nat
  BY <1>3, <1>4
<1> QED
  BY <1>5, <1>6, <1>7, <1>8 DEF n

LEMMA LeftAlike ==
  ASSUME NEW p, NEW q, NEW k \in Nat, \A m \in 1 .. k : p[m] = q[m]
  PROVE  LeftIn(p, k) = LeftIn(q, k)
<1>1. UNION {{m} \X Unsent(p[m]) : m \in 1 .. k} = UNION {{m} \X Unsent(q[m]) : m \in 1 .. k}
  OBVIOUS
<1> QED
  BY <1>1 DEF LeftIn

LEMMA Largest ==
  ASSUME NEW n \in Nat, NEW T, T \subseteq 0 .. n, T # {}
  PROVE  \E x \in T : \A y \in T : x >= y
<1> DEFINE U == {n - x : x \in T}
<1>1. U \subseteq Nat /\ U # {}
  <2>1. \A x \in 0 .. n : n - x \in Nat
    OBVIOUS
  <2>2. U \subseteq Nat
    BY <2>1
  <2>3. PICK x \in T : TRUE
    OBVIOUS
  <2>4. n - x \in U
    OBVIOUS
  <2> QED
    BY <2>2, <2>4
<1>2. PICK u \in U : \A v \in U : u <= v
  <2> HIDE DEF U
  <2> QED
    BY <1>1, Smallest
<1>3. PICK x \in T : u = n - x
  OBVIOUS
<1>4. ASSUME NEW y \in T PROVE x >= y
  <2>1. n - x <= n - y
    BY <1>2, <1>3
  <2>2. x \in 0 .. n /\ y \in 0 .. n
    OBVIOUS
  <2> HIDE DEF U
  <2> QED
    BY <2>1, <2>2
<1> QED
  BY <1>4

\* How far n bytes reach.
LEMMA UsedUpBy ==
  ASSUME NEW q, Begun(q), NEW n \in Nat
  PROVE  /\ UsedUp(q, n) \in 0 .. Len(q)
         /\ LeftIn(q, UsedUp(q, n)) <= n
         /\ UsedUp(q, n) < Len(q) => n < LeftIn(q, UsedUp(q, n) + 1)
<1> DEFINE L == Len(q)
           T == {k \in 0 .. L : LeftIn(q, k) <= n}
           u == UsedUp(q, n)
<1>1. L \in Nat
  BY NodeNumbers
<1>2. \A k \in 0 .. L : LeftIn(q, k) \in Nat
  BY LeftSums
<1>3. T \subseteq 0 .. L /\ T # {}
  <2>1. 0 \in 0 .. L /\ LeftIn(q, 0) <= n
    BY <1>1, LeftSums
  <2> QED
    BY <2>1
<1>4. u = Max(T)
  BY DEF UsedUp
<1>5. Max(T) \in T /\ \A k \in T : Max(T) >= k
  <2> HIDE DEF T, L
  <2>1. \E x \in T : \A y \in T : x >= y
    BY <1>1, <1>3, Largest
  <2> QED
    BY <2>1 DEF Max
<1> HIDE DEF u
<1>6. u \in 0 .. L /\ LeftIn(q, u) <= n
  BY <1>4, <1>5
<1>7. ASSUME u < L PROVE n < LeftIn(q, u + 1)
  <2>1. u + 1 \in 0 .. L /\ ~(u >= u + 1)
    BY <1>1, <1>6, <1>7
  <2>2. u + 1 \notin T
    BY <1>4, <1>5, <2>1
  <2>3. ~(LeftIn(q, u + 1) <= n)
    BY <2>1, <2>2
  <2> QED
    BY <1>2, <2>1, <2>3
<1> QED
  BY <1>6, <1>7 DEF u

LEMMA Rest ==
  ASSUME NEW S, NEW list \in Seq(S), NEW k \in 0 .. Len(list)
  PROVE  /\ SubSeq(list, k + 1, Len(list)) \in Seq(S)
         /\ Len(SubSeq(list, k + 1, Len(list))) = Len(list) - k
         /\ \A i \in 1 .. Len(list) - k : SubSeq(list, k + 1, Len(list))[i] = list[k + i]
<1> DEFINE lo == k + 1
           hi == Len(list)
           rest == SubSeq(list, lo, hi)
<1>1. /\ lo \in 1 .. Len(list) + 1 /\ hi \in lo - 1 .. Len(list)
      /\ hi - lo + 1 = Len(list) - k /\ \A i \in 1 .. Len(list) - k : lo - 1 + i = k + i
  BY LenProperties
<1> HIDE DEF lo, hi
<1>2. /\ rest \in Seq(S) /\ Len(rest) = hi - lo + 1
      /\ \A i \in 1 .. hi - lo + 1 : rest[i] = list[lo - 1 + i]
  BY <1>1, Part
<1> HIDE DEF rest
<1>3. \A i \in 1 .. Len(list) - k : rest[i] = list[k + i]
  BY <1>1, <1>2
<1>4. Len(rest) = Len(list) - k
  BY <1>1, <1>2
<1> QED
  BY <1>2, <1>3, <1>4 DEF lo, hi, rest

\* Advance takes k nodes and a part of the next.
Advanced(p, q, n, k) ==
  /\ k \in 0 .. Len(q)
  /\ Begun(p)
  /\ Len(p) = Len(q) - k
  /\ k < Len(q) => /\ p[1].data = q[k + 1].data
                   /\ p[1].offset = q[k + 1].offset + n - LeftIn(q, k)
                   /\ n - LeftIn(q, k) \in Nat
  /\ \A j \in 2 .. Len(q) - k : p[j] = q[k + j]

LEMMA AdvanceResult ==
  ASSUME NEW q, Begun(q), NEW n \in Nat
  PROVE  Advanced(Advance(q, n), q, n, UsedUp(q, n))
<1> DEFINE k == UsedUp(q, n)
           L == Len(q)
           rest == SubSeq(q, k + 1, L)
           p == Advance(q, n)
           s == LeftIn(q, k)
<1>1. /\ L \in Nat /\ k \in 0 .. L /\ L - k \in Nat /\ s \in Nat /\ s <= n /\ n - s \in Nat
      /\ k < L => n < LeftIn(q, k + 1)
  <2>1. L \in Nat /\ k \in 0 .. L /\ s <= n /\ (k < L => n < LeftIn(q, k + 1))
    BY NodeNumbers, UsedUpBy
  <2>2. s \in Nat
    BY <2>1, LeftSums
  <2> QED
    BY <2>1, <2>2
<1>2. p = IF rest = <<>> THEN <<>> ELSE [rest EXCEPT ![1].offset = @ + n - s]
  BY DEF Advance
<1>3. q \in Seq(Nodes)
  BY DEF Begun
<1>4. rest \in Seq(Nodes) /\ Len(rest) = L - k /\ \A i \in 1 .. L - k : rest[i] = q[k + i]
  <2> HIDE DEF k, s, p
  <2>1. k \in 0 .. Len(q)
    BY <1>1
  <2> QED
    BY <1>3, <2>1, Rest
<1>5. \A m \in 1 .. L : q[m] \in Nodes /\ q[m].offset \in Nat /\ Len(q[m].data) \in Nat
                        /\ q[m].offset < Len(q[m].data)
  BY NodeNumbers
<1>6. k < L => LeftIn(q, k + 1) = s + Len(q[k + 1].data) - q[k + 1].offset
  <2>1. k < L => k \in 0 .. L - 1
    BY <1>1
  <2>2. \A i \in 0 .. L - 1 : LeftIn(q, i + 1) = LeftIn(q, i) + Len(q[i + 1].data) - q[i + 1].offset
    BY LeftSums
  <2> HIDE DEF k, L
  <2> QED
    BY <2>1, <2>2
<1> HIDE DEF rest, p, s, k, L
<1>7. CASE rest = <<>>
  <2>1. p = <<>> /\ L - k = 0
    BY <1>2, <1>4, <1>7
  <2>2. Begun(<<>>)
    BY DEF Begun
  <2>3. Len(p) = L - k /\ ~(k < L) /\ 2 .. L - k = {}
    BY <1>1, <2>1
  <2>4. Advanced(p, q, n, k)
    BY <1>1, <2>1, <2>2, <2>3 DEF Advanced, L
  <2> QED
    BY <2>4 DEF p, k
<1>8. CASE rest # <<>>
  <2> DEFINE x == q[k + 1]
             y == [x EXCEPT !.offset = x.offset + n - s]
  <2>1. L - k # 0
    BY <1>4, <1>8, EmptySeq
  <2>2. k < L /\ 1 \in 1 .. L - k /\ 1 \in 1 .. Len(rest) /\ k + 1 \in 1 .. L
    BY <1>1, <1>4, <2>1
  <2>3. rest[1] = x
    BY <1>4, <2>2
  <2>4. x \in Nodes /\ x.offset \in Nat /\ Len(x.data) \in Nat
    BY <1>5, <2>2
  <2>5. y \in Nodes /\ y.data = x.data /\ y.offset = x.offset + n - s
    <3>1. x.offset + n - s \in Nat
      BY <1>1, <2>4
    <3> QED
      BY <2>4, <3>1 DEF Nodes
  <2>6. y.offset < Len(y.data)
    <3>1. n < s + Len(x.data) - x.offset
      BY <1>1, <1>6, <2>2
    <3> QED
      BY <1>1, <2>4, <2>5, <3>1
  <2>7. p = [rest EXCEPT ![1] = y]
    BY <1>2, <1>8, <2>3
  <2> HIDE DEF x, y
  <2>8. /\ p \in Seq(Nodes) /\ Len(p) = L - k /\ p[1] = y
        /\ \A i \in 1 .. L - k : i # 1 => p[i] = q[k + i]
    <3>1. DOMAIN rest = 1 .. L - k
      BY <1>4, LenProperties
    <3>2. p \in Seq(Nodes) /\ Len(p) = Len(rest)
      BY <1>4, <2>2, <2>5, <2>7, ExceptSeq
    <3>3. p[1] = y /\ \A i \in 1 .. L - k : i # 1 => p[i] = rest[i]
      BY <2>2, <2>7, <3>1
    <3> QED
      BY <1>4, <3>2, <3>3
  <2>9. Begun(p)
    <3> SUFFICES ASSUME NEW m \in 1 .. L - k PROVE p[m].offset < Len(p[m].data)
      BY <2>8 DEF Begun
    <3>1. CASE m = 1
      BY <2>6, <2>8, <3>1
    <3>2. CASE m # 1
      <4>1. k + m \in 1 .. L
        BY <1>1
      <4> QED
        BY <1>5, <2>8, <3>2, <4>1
    <3> QED
      BY <3>1, <3>2
  <2>10. p[1].data = q[k + 1].data /\ p[1].offset = q[k + 1].offset + n - s
    BY <2>5, <2>8 DEF x
  <2>11. \A j \in 2 .. L - k : p[j] = q[k + j]
    <3>1. \A j \in 2 .. L - k : j \in 1 .. L - k /\ j # 1
      BY <1>1
    <3> QED
      BY <2>8, <3>1
  <2>12. Advanced(p, q, n, k)
    BY <1>1, <2>8, <2>9, <2>10, <2>11 DEF Advanced, L, s
  <2> QED
    BY <2>12 DEF p, k
<1> QED
  BY <1>7, <1>8

LEMMA AdvanceLeft ==
  ASSUME NEW q, Begun(q), NEW n \in Nat, NEW k, k = UsedUp(q, n), n <= LeftIn(q, Len(q))
  PROVE  /\ \A j \in 1 .. Len(q) - k : LeftIn(Advance(q, n), j) = LeftIn(q, k + j) - n
         /\ LeftIn(Advance(q, n), Len(q) - k) = LeftIn(q, Len(q)) - n
<1> DEFINE L == Len(q)
           p == Advance(q, n)
           s == LeftIn(q, k)
           T == {j \in 1 .. L - k : LeftIn(p, j) # LeftIn(q, k + j) - n}
<1>1. Advanced(p, q, n, k)
  BY AdvanceResult
<1>2. /\ L \in Nat /\ k \in 0 .. L /\ s \in Nat /\ s <= n /\ LeftIn(q, L) \in Nat
  <2>1. L \in Nat /\ k \in 0 .. L /\ s <= n
    BY NodeNumbers, UsedUpBy
  <2>2. L \in 0 .. L
    BY <2>1
  <2> QED
    BY <2>1, <2>2, LeftSums
<1>3. n <= LeftIn(q, L)
  OBVIOUS
<1> HIDE DEF p
<1>4. Begun(p) /\ Len(p) = L - k
  BY <1>1 DEF Advanced
<1>5. /\ LeftIn(p, 0) = 0
      /\ \A j \in 0 .. L - k : LeftIn(p, j) \in Nat
      /\ \A j \in 0 .. L - k - 1 :
           LeftIn(p, j + 1) = LeftIn(p, j) + Len(p[j + 1].data) - p[j + 1].offset
  BY <1>4, LeftSums
<1>6. /\ \A j \in 0 .. L : LeftIn(q, j) \in Nat
      /\ \A j \in 0 .. L - 1 :
           LeftIn(q, j + 1) = LeftIn(q, j) + Len(q[j + 1].data) - q[j + 1].offset
  BY LeftSums
<1>7. \A m \in 1 .. L : q[m].offset \in Nat /\ Len(q[m].data) \in Nat
  BY NodeNumbers
<1>8. /\ k < L => /\ p[1].data = q[k + 1].data
                  /\ p[1].offset = q[k + 1].offset + n - s
      /\ \A j \in 2 .. L - k : p[j] = q[k + j]
  BY <1>1 DEF Advanced
<1> HIDE DEF L, s
<1>9. T = {}
  <2> SUFFICES ASSUME T # {} PROVE FALSE
    OBVIOUS
  <2>1. T \subseteq Nat
    BY <1>2
  <2>2. PICK j \in T : \A i \in T : j <= i
    <3> HIDE DEF T
    <3> QED
      BY <2>1, Smallest
  <2>3. j \in 1 .. L - k /\ LeftIn(p, j) # LeftIn(q, k + j) - n
    OBVIOUS
  <2>4. CASE j = 1
    <3>1. k < L /\ 0 \in 0 .. L - k - 1 /\ k \in 0 .. L - 1 /\ k + 1 \in 1 .. L /\ 0 + 1 = 1
      BY <1>2, <2>3, <2>4
    <3>2. LeftIn(p, 1) = 0 + Len(p[1].data) - p[1].offset
      BY <1>5, <3>1
    <3>3. LeftIn(q, k + 1) = s + Len(q[k + 1].data) - q[k + 1].offset
      BY <1>6, <3>1 DEF s
    <3>4. Len(p[1].data) = Len(q[k + 1].data) /\ p[1].offset = q[k + 1].offset + n - s
      BY <1>8, <3>1
    <3>5. q[k + 1].offset \in Nat /\ Len(q[k + 1].data) \in Nat
      BY <1>7, <3>1
    <3>6. \A a, b, c, d \in Nat : 0 + a - (b + c - d) = d + a - b - c
      OBVIOUS
    <3>7. LeftIn(p, 1) = LeftIn(q, k + 1) - n
      <4> DEFINE a == Len(q[k + 1].data)
                 b == q[k + 1].offset
      <4>1. a \in Nat /\ b \in Nat /\ n \in Nat /\ s \in Nat
        BY <1>2, <3>5
      <4>2. LeftIn(p, 1) = 0 + a - (b + n - s)
        BY <3>2, <3>4
      <4>3. LeftIn(q, k + 1) = s + a - b
        BY <3>3
      <4> HIDE DEF a, b, T
      <4>4. 0 + a - (b + n - s) = s + a - b - n
        BY <4>1, <3>6
      <4>5. (s + a - b) - n = s + a - b - n
        BY <4>1
      <4> QED
        BY <4>2, <4>3, <4>4, <4>5
    <3>8. k + j = k + 1 /\ LeftIn(p, j) = LeftIn(p, 1)
      BY <2>4
    <3> QED
      BY <2>3, <3>7, <3>8
  <2>5. CASE j # 1
    <3>1. PICK i : i = j - 1
      OBVIOUS
    <3>2. /\ i \in 1 .. L - k /\ i \in 0 .. L - k - 1 /\ k + i \in 0 .. L - 1 /\ i + 1 = j
          /\ k + i + 1 = k + j /\ k + j \in 1 .. L /\ j \in 2 .. L - k /\ ~(j <= i) /\ k + i \in 0 .. L
          /\ i \in 0 .. L - k
      <4>1. L \in Nat /\ k \in Nat /\ j \in Nat /\ k <= L /\ 2 <= j /\ j <= L - k
        BY <1>2, <2>3, <2>5
      <4> HIDE DEF T
      <4>2. i \in Nat /\ 1 <= i /\ i + 1 = j /\ i + 1 <= L - k
        BY <3>1, <4>1
      <4>3. i \in 1 .. L - k /\ i \in 0 .. L - k - 1 /\ i \in 0 .. L - k /\ j \in 2 .. L - k /\ ~(j <= i)
        BY <4>1, <4>2
      <4>4. k + i \in 0 .. L - 1 /\ k + i \in 0 .. L /\ k + i + 1 = k + j /\ k + j \in 1 .. L
        BY <4>1, <4>2
      <4> QED
        BY <4>2, <4>3, <4>4
    <3>3. i \notin T
      BY <2>2, <3>2
    <3>4. LeftIn(p, i) = LeftIn(q, k + i) - n
      BY <3>2, <3>3
    <3>5. LeftIn(p, j) = LeftIn(p, i) + Len(p[j].data) - p[j].offset
      BY <1>5, <3>2
    <3>6. LeftIn(q, k + j) = LeftIn(q, k + i) + Len(q[k + j].data) - q[k + j].offset
      BY <1>6, <3>2
    <3>7. p[j] = q[k + j]
      BY <1>8, <3>2
    <3>8. q[k + j].offset \in Nat /\ Len(q[k + j].data) \in Nat /\ LeftIn(q, k + i) \in Nat
      BY <1>6, <1>7, <3>2
    <3>9. \A a, b, c, d \in Nat : a - d + b - c = a + b - c - d
      OBVIOUS
    <3> QED
      BY <2>3, <3>4, <3>5, <3>6, <3>7, <3>8, <3>9
  <2> QED
    BY <2>4, <2>5
<1>10. \A j \in 1 .. L - k : LeftIn(p, j) = LeftIn(q, k + j) - n
  BY <1>9
<1>11. LeftIn(p, L - k) = LeftIn(q, L) - n
  <2>1. CASE k = L
    <3>1. s = LeftIn(q, L) /\ L - k = 0
      BY <1>2, <2>1 DEF s
    <3>2. s = n
      BY <1>2, <1>3, <3>1
    <3> QED
      BY <1>2, <1>5, <3>1, <3>2
  <2>2. CASE k # L
    <3>1. L - k \in 1 .. L - k /\ k + (L - k) = L
      BY <1>2, <2>2
    <3> QED
      BY <1>10, <3>1
  <2> QED
    BY <2>1, <2>2
<1> QED
  BY <1>10, <1>11 DEF L, p

\* What StreamIntact says of a chain q of t bytes after w bytes of st.
Chain(q, t, w, st) ==
  /\ Begun(q)
  /\ t = LeftIn(q, Len(q))
  /\ w + LeftIn(q, Len(q)) = Len(st)
  /\ \A m \in 1 .. Len(q) : \A i \in Unsent(q[m]) :
       q[m].data[i] = st[w + LeftIn(q, m - 1) + i - q[m].offset]

\* Advance moves along the stream.
LEMMA ChainAdvance ==
  ASSUME NEW q, NEW t \in Nat, NEW w \in Nat, NEW st \in Seq(Bytes), NEW n \in Nat,
         Chain(q, t, w, st), n <= LeftIn(q, Len(q))
  PROVE  Chain(Advance(q, n), t - n, w + n, st) /\ t - n \in Nat
<1> DEFINE L == Len(q)
           p == Advance(q, n)
<1>1. PICK k : k = UsedUp(q, n)
  OBVIOUS
<1>2. Begun(q) /\ t = LeftIn(q, L) /\ w + LeftIn(q, L) = Len(st) /\ n <= t
  BY DEF Chain
<1>3. \A m \in 1 .. L : \A i \in Unsent(q[m]) :
        q[m].data[i] = st[w + LeftIn(q, m - 1) + i - q[m].offset]
  BY DEF Chain
<1>4. Advanced(p, q, n, k)
  BY <1>1, <1>2, AdvanceResult
<1>5. /\ \A j \in 1 .. L - k : LeftIn(p, j) = LeftIn(q, k + j) - n
      /\ LeftIn(p, L - k) = LeftIn(q, L) - n
  BY <1>1, <1>2, AdvanceLeft
<1> HIDE DEF p
<1>6. /\ k \in 0 .. L /\ Begun(p) /\ Len(p) = L - k
      /\ k < L => /\ p[1].data = q[k + 1].data
                  /\ p[1].offset = q[k + 1].offset + n - LeftIn(q, k)
                  /\ n - LeftIn(q, k) \in Nat
      /\ \A j \in 2 .. L - k : p[j] = q[k + j]
  BY <1>4 DEF Advanced
<1>7. L \in Nat /\ \A m \in 1 .. L : q[m].offset \in Nat /\ Len(q[m].data) \in Nat
  BY <1>2, NodeNumbers
<1>8. LeftIn(p, 0) = 0 /\ \A j \in 0 .. L : LeftIn(q, j) \in Nat
  BY <1>2, <1>6, LeftSums
<1> HIDE DEF L
<1>9. t - n = LeftIn(p, L - k) /\ t - n \in Nat /\ w + n + LeftIn(p, L - k) = Len(st)
  BY <1>2, <1>5
<1>10. ASSUME NEW m \in 1 .. L - k, NEW i \in Unsent(p[m])
       PROVE  p[m].data[i] = st[w + n + LeftIn(p, m - 1) + i - p[m].offset]
  <2>1. CASE m = 1
    <3> DEFINE x == q[k + 1]
               s == LeftIn(q, k)
    <3>1. k < L /\ k + 1 \in 1 .. L /\ k + 1 - 1 = k /\ k \in 0 .. L /\ m - 1 = 0
      BY <1>6, <1>7, <2>1
    <3>2. x.offset \in Nat /\ Len(x.data) \in Nat /\ s \in Nat /\ n - s \in Nat
          /\ p[m].data = x.data /\ p[m].offset = x.offset + n - s
      BY <1>6, <1>7, <1>8, <2>1, <3>1
    <3>3. i \in p[m].offset + 1 .. Len(p[m].data)
      BY DEF Unsent
    <3> HIDE DEF x, s
    <3>4. i \in x.offset + 1 .. Len(x.data)
      <4> DEFINE a == x.offset
                 b == Len(x.data)
      <4>1. a \in Nat /\ b \in Nat /\ n - s \in Nat /\ s \in Nat
        BY <3>2
      <4>2. i \in a + n - s + 1 .. b
        BY <3>2, <3>3
      <4> HIDE DEF a, b
      <4>3. i \in a + 1 .. b
        BY <4>1, <4>2
      <4> QED
        BY <4>3 DEF a, b
    <3>5. x.data[i] = st[w + s + i - x.offset]
      <4>1. i \in Unsent(q[k + 1])
        BY <3>4 DEF Unsent, x
      <4> QED
        BY <1>3, <3>1, <4>1 DEF x, s
    <3>6. w + n + 0 + i - (x.offset + n - s) = w + s + i - x.offset
      <4> DEFINE a == x.offset
                 b == Len(x.data)
      <4>1. a \in Nat /\ s \in Nat
        BY <3>2
      <4>2. i \in a + 1 .. b /\ b \in Nat
        BY <3>2, <3>4
      <4> HIDE DEF a, b
      <4>3. w + n + 0 + i - (a + n - s) = w + s + i - a
        BY <4>1, <4>2
      <4> QED
        BY <4>3 DEF a
    <3> QED
      BY <1>8, <3>1, <3>2, <3>5, <3>6
  <2>2. CASE m # 1
    <3>1. PICK r : r = k + m
      OBVIOUS
    <3>2. r \in 1 .. L /\ m - 1 \in 1 .. L - k /\ k + (m - 1) = r - 1 /\ m \in 2 .. L - k
          /\ r - 1 \in 0 .. L
      BY <1>6, <1>7, <2>2, <3>1
    <3>3. p[m] = q[r]
      BY <1>6, <3>1, <3>2
    <3>4. q[r].data[i] = st[w + LeftIn(q, r - 1) + i - q[r].offset]
      BY <1>3, <3>2, <3>3
    <3>5. LeftIn(p, m - 1) = LeftIn(q, r - 1) - n /\ LeftIn(q, r - 1) \in Nat
      BY <1>5, <1>8, <3>2
    <3>6. i \in Int /\ q[r].offset \in Nat
      BY <1>7, <3>2, <3>3 DEF Unsent
    <3>7. w + n + LeftIn(p, m - 1) + i - p[m].offset = w + LeftIn(q, r - 1) + i - q[r].offset
      BY <3>3, <3>5, <3>6
    <3> QED
      BY <3>3, <3>4, <3>7
  <2> QED
    BY <2>1, <2>2
<1> QED
  BY <1>6, <1>9, <1>10 DEF Chain, p

\* A chain ends with one more node.
Longer(p, q, node) ==
  /\ p \in Seq(Nodes)
  /\ Len(p) = Len(q) + 1
  /\ \A m \in 1 .. Len(q) : p[m] = q[m]
  /\ p[Len(q) + 1] = node

LEMMA LongerLeft ==
  ASSUME NEW q, Begun(q), NEW d \in Seq(Bytes), d # <<>>, NEW p, Longer(p, q, [data |-> d, offset |-> 0])
  PROVE  /\ Begun(p)
         /\ \A m \in 0 .. Len(q) : LeftIn(p, m) = LeftIn(q, m)
         /\ LeftIn(p, Len(p)) = LeftIn(q, Len(q)) + Len(d)
<1> DEFINE L == Len(q)
<1>1. /\ L \in Nat /\ Len(d) \in Nat /\ Len(d) > 0
      /\ \A m \in 1 .. L : q[m].offset < Len(q[m].data)
  <2>1. Len(d) \in Nat /\ Len(d) # 0
    BY LenProperties, EmptySeq
  <2>2. L \in Nat
    BY NodeNumbers
  <2> QED
    BY <2>1, <2>2 DEF Begun
<1>2. /\ p \in Seq(Nodes) /\ Len(p) = L + 1 /\ \A m \in 1 .. L : p[m] = q[m]
      /\ p[L + 1].data = d /\ p[L + 1].offset = 0
  BY DEF Longer
<1> HIDE DEF L
<1>3. Begun(p)
  <2> SUFFICES ASSUME NEW m \in 1 .. L + 1 PROVE p[m].offset < Len(p[m].data)
    BY <1>2 DEF Begun
  <2>1. CASE m = L + 1
    BY <1>1, <1>2, <2>1
  <2>2. CASE m # L + 1
    <3>1. m \in 1 .. L
      BY <1>1, <2>2
    <3> QED
      BY <1>1, <1>2, <3>1
  <2> QED
    BY <2>1, <2>2
<1>4. ASSUME NEW m \in 0 .. L PROVE LeftIn(p, m) = LeftIn(q, m)
  <2>1. m \in Nat /\ \A i \in 1 .. m : i \in 1 .. L
    BY <1>1
  <2>2. \A i \in 1 .. m : p[i] = q[i]
    BY <1>2, <2>1
  <2> QED
    BY <2>1, <2>2, LeftAlike
<1>5. LeftIn(p, L + 1) = LeftIn(q, L) + Len(d)
  <2>1. L \in 0 .. Len(p) - 1 /\ L \in 0 .. L /\ L \in 0 .. Len(p)
    BY <1>1, <1>2
  <2>2. LeftIn(p, L + 1) = LeftIn(p, L) + Len(p[L + 1].data) - p[L + 1].offset
    BY <1>3, <2>1, LeftSums
  <2>3. LeftIn(p, L) \in Nat
    BY <1>3, <2>1, LeftSums
  <2>4. LeftIn(p, L) = LeftIn(q, L)
    BY <1>4, <2>1
  <2> QED
    BY <1>1, <1>2, <2>2, <2>3, <2>4
<1> QED
  BY <1>2, <1>3, <1>4, <1>5 DEF L

\* A node at the end goes with its bytes at the end of the stream.
LEMMA ChainLonger ==
  ASSUME NEW q, NEW t \in Nat, NEW w \in Nat, NEW st \in Seq(Bytes), Chain(q, t, w, st),
         NEW d \in Seq(Bytes), d # <<>>, NEW p, Longer(p, q, [data |-> d, offset |-> 0])
  PROVE  Chain(p, t + Len(d), w, st \o d)
<1> DEFINE L == Len(q)
           u == st \o d
<1>1. Begun(q) /\ t = LeftIn(q, L) /\ w + LeftIn(q, L) = Len(st)
  BY DEF Chain
<1>2. \A m \in 1 .. L : \A i \in Unsent(q[m]) :
        q[m].data[i] = st[w + LeftIn(q, m - 1) + i - q[m].offset]
  BY DEF Chain
<1>3. /\ Len(st) \in Nat /\ Len(d) \in Nat /\ Len(u) = Len(st) + Len(d)
      /\ \A i \in 1 .. Len(st) : u[i] = st[i]
      /\ \A i \in 1 .. Len(d) : u[Len(st) + i] = d[i]
  BY Joined
<1>4. /\ Begun(p)
      /\ \A m \in 0 .. L : LeftIn(p, m) = LeftIn(q, m)
      /\ LeftIn(p, Len(p)) = LeftIn(q, L) + Len(d)
  BY <1>1, LongerLeft
<1>5. /\ Len(p) = L + 1 /\ \A m \in 1 .. L : p[m] = q[m]
      /\ p[L + 1].data = d /\ p[L + 1].offset = 0
  BY DEF Longer
<1>6. L \in Nat /\ \A m \in 1 .. L : q[m].offset \in Nat /\ Len(q[m].data) \in Nat
  BY <1>1, NodeNumbers
<1>7. /\ \A m \in 0 .. L : LeftIn(q, m) \in Nat
      /\ \A m \in 0 .. L - 1 : LeftIn(q, m + 1) = LeftIn(q, m) + Len(q[m + 1].data) - q[m + 1].offset
      /\ \A j, k \in 0 .. L : j <= k => LeftIn(q, j) <= LeftIn(q, k)
  BY <1>1, LeftSums
<1> HIDE DEF L, u
<1>8. t + Len(d) = LeftIn(p, Len(p)) /\ w + LeftIn(p, Len(p)) = Len(u)
  <2>1. t + Len(d) = LeftIn(p, Len(p))
    BY <1>1, <1>4
  <2>2. w + t = Len(st)
    BY <1>1
  <2>3. Len(u) = w + t + Len(d)
    BY <1>3, <2>2
  <2>4. \A a, b, c \in Nat : a + (b + c) = a + b + c
    OBVIOUS
  <2>5. w + (t + Len(d)) = w + t + Len(d)
    BY <1>3, <2>4
  <2> QED
    BY <2>1, <2>3, <2>5
<1>9. ASSUME NEW m \in 1 .. L + 1, NEW i \in Unsent(p[m])
      PROVE  p[m].data[i] = u[w + LeftIn(p, m - 1) + i - p[m].offset]
  <2>1. CASE m = L + 1
    <3>1. i \in 1 .. Len(d)
      BY <1>5, <2>1 DEF Unsent
    <3>2. m - 1 \in 0 .. L /\ m - 1 = L
      BY <1>6, <2>1
    <3>3. LeftIn(p, m - 1) = LeftIn(q, L)
      BY <1>4, <3>2
    <3>4. w + LeftIn(p, m - 1) + i - p[m].offset = Len(st) + i
      <4>1. w + LeftIn(p, m - 1) = Len(st)
        BY <1>1, <3>3
      <4>2. p[m].offset = 0
        BY <1>5, <2>1
      <4>3. Len(st) + i - 0 = Len(st) + i
        BY <1>3, <3>1
      <4> QED
        BY <4>1, <4>2, <4>3
    <3> QED
      BY <1>3, <1>5, <2>1, <3>1, <3>4
  <2>2. CASE m # L + 1
    <3>1. m \in 1 .. L /\ m - 1 \in 0 .. L - 1 /\ m - 1 \in 0 .. L /\ m - 1 + 1 = m /\ m \in 0 .. L
          /\ L \in 0 .. L /\ m <= L
      BY <1>6, <2>2
    <3>2. p[m] = q[m] /\ LeftIn(p, m - 1) = LeftIn(q, m - 1)
      BY <1>4, <1>5, <3>1
    <3> DEFINE before == LeftIn(q, m - 1)
               off == q[m].offset
               size == Len(q[m].data)
    <3>3. before \in Nat /\ off \in Nat /\ size \in Nat
      BY <1>6, <1>7, <3>1
    <3>4. i \in off + 1 .. size
      BY <3>2 DEF Unsent
    <3>5. LeftIn(q, m) = before + size - off /\ LeftIn(q, m) <= LeftIn(q, L)
      BY <1>7, <3>1
    <3>6. LeftIn(q, L) \in Nat
      BY <1>7, <3>1
    <3>7. q[m].data[i] = st[w + before + i - off]
      BY <1>2, <3>1, <3>2
    <3> HIDE DEF before, off, size
    <3>8. w + before + i - off \in 1 .. Len(st)
      BY <1>1, <1>3, <3>3, <3>4, <3>5, <3>6
    <3>9. p[m].data[i] = u[w + before + i - off]
      BY <1>3, <3>2, <3>7, <3>8
    <3> QED
      BY <3>2, <3>9 DEF before, off
  <2> QED
    BY <2>1, <2>2
<1>10. Chain(p, t + Len(d), w, u)
  BY <1>4, <1>5, <1>8, <1>9 DEF Chain
<1> QED
  BY <1>10 DEF u

\* Append keeps the chain, with an empty string or another one.
LEMMA ChainAppend ==
  ASSUME NEW q, NEW t \in Nat, NEW w \in Nat, NEW st \in Seq(Bytes), Chain(q, t, w, st),
         NEW d \in Seq(Bytes)
  PROVE  Chain(q \o Node(d), t + Len(d), w, st \o d) /\ t + Len(d) \in Nat
<1>1. q \in Seq(Nodes)
  BY DEF Chain, Begun
<1>2. Len(d) \in Nat /\ t + Len(d) \in Nat
  <2>1. Len(d) \in Nat
    BY LenProperties
  <2> QED
    BY <2>1
<1>3. CASE d = <<>>
  <2>1. Len(d) = 0 /\ t + 0 = t
    BY <1>3
  <2>2. q \o Node(d) = q
    BY <1>1, <1>3, ConcatEmptySeq DEF Node
  <2>3. st \o d = st
    BY <1>3, ConcatEmptySeq
  <2> QED
    BY <1>2, <2>1, <2>2, <2>3
<1>4. CASE d # <<>>
  <2> DEFINE node == [data |-> d, offset |-> 0]
             p == q \o <<node>>
  <2>1. node \in Nodes
    BY DEF Nodes
  <2>2. <<node>> \in Seq(Nodes) /\ Len(<<node>>) = 1 /\ <<node>>[1] = node
    BY <2>1
  <2> HIDE DEF node
  <2>3. /\ p \in Seq(Nodes) /\ Len(p) = Len(q) + 1
        /\ \A m \in 1 .. Len(q) : p[m] = q[m]
        /\ \A m \in 1 .. 1 : p[Len(q) + m] = <<node>>[m]
    BY <1>1, <2>2, Joined
  <2> HIDE DEF p
  <2>4. p[Len(q) + 1] = node
    <3>1. 1 \in 1 .. 1
      OBVIOUS
    <3> QED
      BY <2>2, <2>3, <3>1
  <2>5. Longer(p, q, node)
    BY <2>3, <2>4 DEF Longer
  <2>6. Chain(p, t + Len(d), w, st \o d)
    BY <1>4, <2>5, ChainLonger DEF node
  <2>7. p = q \o Node(d)
    BY <1>4 DEF p, node, Node
  <2> QED
    BY <1>2, <2>6, <2>7
<1> QED
  BY <1>3, <1>4
-------------------------------------------------------------------------------
(* The invariant *)

Wheres == {"idle", "init", "exists", "find", "load", "send", "closing"}

\* What is settled about a response before its thread goes on.
SettledFor(where, r, code, body, res) ==
  /\ where \notin {"idle", "closing"} => r \in Requests
  /\ where \in {"init", "exists"} => code # 200 /\ (code = -1 => Target(r) \in Paths)
  /\ where \in {"find", "load"} => Target(r) \in Paths
  /\ where = "send" /\ code = 200 => body \in DOMAIN res /\ res[body].path = Target(r)

\* A 200 carries a whole resource of its path.
WholeFile(a, res) ==
  a.code = 200 => \E r \in DOMAIN res : /\ res[r].path = a.path
                                        /\ a.body = [k \in 1 .. res[r].size |-> <<r, k, 0>>]

Answers == [code : Int, path : Targets, body : Seq(Bytes)]

DiskKept == disk \in [Paths -> Files \cup {None}]

CacheKept ==
  /\ resources \in Seq(Resource) /\ Len(resources) <= MaxResources
  /\ lru_list_ \in Seq(DOMAIN resources)
  /\ current_cache_size_ \in Nat
  /\ Books(resources, lru_list_, cache_map_, current_cache_size_)

ThreadsSettled ==
  /\ pc \in [Conns -> Wheres]
  /\ request \in [Conns -> Requests \cup {None}]
  /\ code_ \in [Conns -> Int]
  /\ file_body_ \in [Conns -> DOMAIN resources \cup {None}]
  /\ \A c \in Conns : SettledFor(pc[c], request[c], code_[c], file_body_[c], resources)

ChainsKept ==
  /\ buffer_queue_ \in [Conns -> Seq(Nodes)]
  /\ total_bytes_ \in [Conns -> Nat]
  /\ stream \in [Conns -> Seq(Bytes)]
  /\ written \in [Conns -> Nat]
  /\ \A c \in Conns : Chain(buffer_queue_[c], total_bytes_[c], written[c], stream[c])

AnswersWhole ==
  /\ responses \in [Conns -> Seq(Answers)]
  /\ \A c \in Conns : \A n \in 1 .. Len(responses[c]) : WholeFile(responses[c][n], resources)

\* The inductive invariant: beside the books and the chains, what each thread
\* has settled at the place where it stands.
StaticInv == DiskKept /\ CacheKept /\ ThreadsSettled /\ ChainsKept /\ AnswersWhole

LEMMA StaticInvShows == StaticInv => CacheConsistent /\ StreamIntact
<1> SUFFICES ASSUME StaticInv PROVE CacheConsistent /\ StreamIntact
  OBVIOUS
<1> USE DEF StaticInv
<1>1. StaticTypeOK
  BY DEF StaticTypeOK, DiskKept, CacheKept, ThreadsSettled, ChainsKept, AnswersWhole, Wheres,
         Resource, Nodes, Answers
<1>2. CacheConsistent
  <2>1. /\ DOMAIN cache_map_ = {resources[i].path : i \in Range(lru_list_)}
        /\ \A n \in 1 .. Len(lru_list_) : cache_map_[resources[lru_list_[n]].path] = lru_list_[n]
        /\ \A m, n \in 1 .. Len(lru_list_) : lru_list_[m] = lru_list_[n] => m = n
        /\ current_cache_size_ > max_cache_size_ => Len(lru_list_) = 1
    BY DEF CacheKept, Books, Distinct
  <2>2. current_cache_size_ = SizeSum(Range(lru_list_))
    BY DEF CacheKept, Books, Held, SizeSum
  <2> QED
    BY <1>1, <2>1, <2>2 DEF CacheConsistent
<1>3. StreamIntact
  <2> SUFFICES ASSUME NEW c \in Conns
               PROVE  LET q == buffer_queue_[c]
                      IN /\ total_bytes_[c] = LeftIn(q, Len(q))
                         /\ written[c] + LeftIn(q, Len(q)) = Len(stream[c])
                         /\ \A m \in 1 .. Len(q) : \A i \in Unsent(q[m]) :
                              q[m].data[i] = stream[c][written[c] + LeftIn(q, m - 1) + i - q[m].offset]
                         /\ \A n \in 1 .. Len(responses[c]) :
                              LET a == responses[c][n]
                              IN  a.code = 200 => \E r \in DOMAIN resources :
                                    /\ resources[r].path = a.path
                                    /\ a.body = [k \in 1 .. resources[r].size |-> <<r, k, 0>>]
    BY DEF StreamIntact
  <2>1. Chain(buffer_queue_[c], total_bytes_[c], written[c], stream[c])
    BY DEF ChainsKept
  <2>2. \A n \in 1 .. Len(responses[c]) : WholeFile(responses[c][n], resources)
    BY DEF AnswersWhole
  <2> QED
    BY <2>1, <2>2 DEF Chain, WholeFile
<1> QED
  BY <1>2, <1>3

\* At first the cache, the chains and the lists of responses are empty.
LEMMA StaticInitial == StaticInit => StaticInv
<1> SUFFICES ASSUME StaticInit PROVE StaticInv
  OBVIOUS
<1>e. \A S : <<>> \in Seq(S) /\ Len(<<>>) = 0
  OBVIOUS
<1>1. DiskKept
  BY DEF StaticInit, DiskKept
<1>2. CacheKept
  <2>1. resources = <<>> /\ lru_list_ = <<>> /\ cache_map_ = <<>> /\ current_cache_size_ = 0
    BY DEF StaticInit
  <2>2. Range(lru_list_) = {}
    BY <2>1 DEF Range
  <2>3. Held(resources, {}) = 0
    BY HeldByNone
  <2>4. DOMAIN cache_map_ = {} /\ 1 .. Len(lru_list_) = {}
    BY <2>1
  <2>5. {resources[i].path : i \in Range(lru_list_)} = {}
    BY <2>2
  <2>6. ~(0 > max_cache_size_)
    BY StaticAssumption
  <2>7. Books(resources, lru_list_, cache_map_, current_cache_size_)
    <3>1. Distinct(lru_list_)
      BY <2>4 DEF Distinct
    <3> QED
      BY <2>1, <2>2, <2>3, <2>4, <2>5, <2>6, <3>1 DEF Books
  <2>8. Len(resources) <= MaxResources
    BY <1>e, <2>1, StaticAssumption
  <2> QED
    BY <1>e, <2>1, <2>7, <2>8 DEF CacheKept
<1>3. ThreadsSettled
  <2>1. /\ pc = [c \in Conns |-> "idle"]
        /\ request = [c \in Conns |-> None]
        /\ code_ = [c \in Conns |-> -1]
        /\ file_body_ = [c \in Conns |-> None]
    BY DEF StaticInit
  <2>2. ASSUME NEW c \in Conns
        PROVE  SettledFor(pc[c], request[c], code_[c], file_body_[c], resources)
    BY <2>1 DEF SettledFor
  <2>3. /\ pc \in [Conns -> Wheres] /\ request \in [Conns -> Requests \cup {None}]
        /\ code_ \in [Conns -> Int] /\ file_body_ \in [Conns -> DOMAIN resources \cup {None}]
    BY <2>1 DEF Wheres
  <2> QED
    BY <2>2, <2>3 DEF ThreadsSettled
<1>4. ChainsKept
  <2>1. /\ buffer_queue_ = [c \in Conns |-> <<>>]
        /\ total_bytes_ = [c \in Conns |-> 0]
        /\ stream = [c \in Conns |-> <<>>]
        /\ written = [c \in Conns |-> 0]
    BY DEF StaticInit
  <2>2. Begun(<<>>)
    BY <1>e DEF Begun
  <2>3. LeftIn(<<>>, 0) = 0
    BY <2>2, LeftSums
  <2>4. Chain(<<>>, 0, 0, <<>>)
    BY <1>e, <2>2, <2>3 DEF Chain
  <2>5. /\ buffer_queue_ \in [Conns -> Seq(Nodes)] /\ total_bytes_ \in [Conns -> Nat]
        /\ stream \in [Conns -> Seq(Bytes)] /\ written \in [Conns -> Nat]
    BY <1>e, <2>1
  <2>6. ASSUME NEW c \in Conns
        PROVE  Chain(buffer_queue_[c], total_bytes_[c], written[c], stream[c])
    BY <2>1, <2>4
  <2> QED
    BY <2>5, <2>6 DEF ChainsKept
<1>5. AnswersWhole
  BY <1>e DEF StaticInit, AnswersWhole
<1> QED
  BY <1>1, <1>2, <1>3, <1>4, <1>5 DEF StaticInv
-------------------------------------------------------------------------------
(* The steps *)

\* Resources are only added.
Grown == /\ DOMAIN resources \subseteq DOMAIN resources'
         /\ \A i \in DOMAIN resources : resources'[i] = resources[i]

\* A thread goes from one place to the next, and leaves the others alone.
LEMMA OneThread ==
  ASSUME ThreadsSettled, Grown, NEW c \in Conns,
         NEW w \in Wheres, NEW r \in Requests \cup {None}, NEW k \in Int,
         NEW b \in DOMAIN resources' \cup {None},
         pc' = [pc EXCEPT ![c] = w], request' = [request EXCEPT ![c] = r],
         code_' = [code_ EXCEPT ![c] = k], file_body_' = [file_body_ EXCEPT ![c] = b],
         SettledFor(w, r, k, b, resources')
  PROVE  ThreadsSettled'
<1>1. /\ pc \in [Conns -> Wheres] /\ request \in [Conns -> Requests \cup {None}]
      /\ code_ \in [Conns -> Int] /\ file_body_ \in [Conns -> DOMAIN resources \cup {None}]
  BY DEF ThreadsSettled
<1>2. /\ pc' \in [Conns -> Wheres] /\ request' \in [Conns -> Requests \cup {None}]
      /\ code_' \in [Conns -> Int]
  BY <1>1
<1>3. file_body_' \in [Conns -> DOMAIN resources' \cup {None}]
  BY <1>1 DEF Grown
<1>4. ASSUME NEW d \in Conns
      PROVE  SettledFor(pc'[d], request'[d], code_'[d], file_body_'[d], resources')
  <2>1. CASE d = c
    <3>1. pc'[d] = w /\ request'[d] = r /\ code_'[d] = k /\ file_body_'[d] = b
      BY <1>1, <2>1
    <3> QED
      BY <3>1
  <2>2. CASE d # c
    <3>1. pc'[d] = pc[d] /\ request'[d] = request[d] /\ code_'[d] = code_[d]
          /\ file_body_'[d] = file_body_[d]
      BY <1>1, <2>2
    <3>2. SettledFor(pc[d], request[d], code_[d], file_body_[d], resources)
      BY DEF ThreadsSettled
    <3>3. SettledFor(pc[d], request[d], code_[d], file_body_[d], resources')
      BY <3>2 DEF SettledFor, Grown
    <3> QED
      BY <3>1, <3>3
  <2> QED
    BY <2>1, <2>2
<1> QED
  BY <1>2, <1>3, <1>4 DEF ThreadsSettled

\* What stays the same.
LEMMA Unassigned ==
  ASSUME NEW S, NEW T, NEW f \in [S -> T], NEW c \in S
  PROVE  f = [f EXCEPT ![c] = f[c]]
OBVIOUS

LEMMA CacheStays ==
  ASSUME CacheKept, UNCHANGED cacheVars
  PROVE  CacheKept' /\ Grown
BY DEF CacheKept, Grown, cacheVars

LEMMA ChainsStay ==
  ASSUME ChainsKept, UNCHANGED <<chainVars, stream, written>>
  PROVE  ChainsKept'
BY DEF ChainsKept, chainVars

LEMMA AnswersStay ==
  ASSUME AnswersWhole, Grown, UNCHANGED responses
  PROVE  AnswersWhole'
<1>1. /\ responses' = responses
      /\ responses \in [Conns -> Seq(Answers)]
      /\ \A c \in Conns : \A n \in 1 .. Len(responses[c]) : WholeFile(responses[c][n], resources)
  BY DEF AnswersWhole
<1>2. ASSUME NEW a, WholeFile(a, resources) PROVE WholeFile(a, resources')
  <2> SUFFICES ASSUME a.code = 200
               PROVE  \E r \in DOMAIN resources' :
                        /\ resources'[r].path = a.path
                        /\ a.body = [k \in 1 .. resources'[r].size |-> <<r, k, 0>>]
    BY DEF WholeFile
  <2>1. PICK r \in DOMAIN resources : /\ resources[r].path = a.path
                                     /\ a.body = [k \in 1 .. resources[r].size |-> <<r, k, 0>>]
    BY <1>2 DEF WholeFile
  <2>2. r \in DOMAIN resources' /\ resources'[r] = resources[r]
    BY DEF Grown
  <2> QED
    BY <2>1, <2>2
<1>3. \A c \in Conns : \A n \in 1 .. Len(responses[c]) : WholeFile(responses[c][n], resources')
  BY <1>1, <1>2
<1> QED
  BY <1>1, <1>3 DEF AnswersWhole

LEMMA DiskStays ==
  ASSUME DiskKept, UNCHANGED diskVars
  PROVE  DiskKept'
BY DEF DiskKept, diskVars

\* The numbers of the resources are not None.
LEMMA ResourceNumbers ==
  ASSUME CacheKept
  PROVE  DOMAIN resources \subseteq Nat /\ None \notin DOMAIN resources
<1>1. DOMAIN resources = 1 .. Len(resources) /\ Len(resources) \in Nat
  BY LenProperties DEF CacheKept
<1>2. \A r \in DOMAIN resources : r \in Ids
  BY <1>1, StaticAssumption DEF CacheKept, Ids
<1> QED
  BY <1>1, <1>2, StaticAssumption

\* A step of a thread that leaves the chains and the cache alone.
LEMMA OnlyThreads ==
  ASSUME StaticInv, UNCHANGED <<diskVars, cacheVars, chainVars, historyVars>>, ThreadsSettled'
  PROVE  StaticInv'
<1>1. CacheKept' /\ Grown
  BY CacheStays DEF StaticInv
<1>2. DiskKept'
  BY DiskStays DEF StaticInv
<1>3. ChainsKept'
  BY ChainsStay DEF StaticInv, historyVars
<1>4. AnswersWhole'
  BY <1>1, AnswersStay DEF StaticInv, historyVars
<1> QED
  BY <1>1, <1>2, <1>3, <1>4 DEF StaticInv

LEMMA ValidateRequestResult ==
  ASSUME NEW r \in Requests
  PROVE  /\ ValidateRequest(Root, r) \in Int /\ ValidateRequest(Root, r) # 200
         /\ ValidateRequest(Root, r) = -1 => Target(r) \in Paths
<1> DEFINE v == ValidateRequest(Root, r)
<1>1. CASE r.method \notin AllowedMethods
  BY <1>1 DEF ValidateRequest
<1>2. CASE r.method \in AllowedMethods /\ ~ValidatePath(Root, ParsePath(r.path))
  BY <1>2 DEF ValidateRequest
<1>3. CASE r.method \in AllowedMethods /\ ValidatePath(Root, ParsePath(r.path))
  <2>1. v \in {413, -1}
    BY <1>3 DEF ValidateRequest
  <2>2. Target(r) # NoPath
    BY <1>3 DEF ValidatePath, Target
  <2>3. Target(r) \in Paths
    BY <2>2 DEF Paths, Targets
  <2> QED
    BY <2>1, <2>3
<1> QED
  BY <1>1, <1>2, <1>3

\* What a thread has, when it stands somewhere.
LEMMA Thread ==
  ASSUME StaticInv, NEW c \in Conns
  PROVE  /\ pc \in [Conns -> Wheres] /\ request \in [Conns -> Requests \cup {None}]
         /\ code_ \in [Conns -> Int] /\ file_body_ \in [Conns -> DOMAIN resources \cup {None}]
         /\ request[c] \in Requests \cup {None} /\ code_[c] \in Int
         /\ file_body_[c] \in DOMAIN resources \cup {None}
         /\ SettledFor(pc[c], request[c], code_[c], file_body_[c], resources)
         /\ pc = [pc EXCEPT ![c] = pc[c]] /\ request = [request EXCEPT ![c] = request[c]]
         /\ code_ = [code_ EXCEPT ![c] = code_[c]]
         /\ file_body_ = [file_body_ EXCEPT ![c] = file_body_[c]]
<1>1. /\ pc \in [Conns -> Wheres] /\ request \in [Conns -> Requests \cup {None}]
      /\ code_ \in [Conns -> Int] /\ file_body_ \in [Conns -> DOMAIN resources \cup {None}]
      /\ SettledFor(pc[c], request[c], code_[c], file_body_[c], resources)
  BY DEF StaticInv, ThreadsSettled
<1> QED
  BY <1>1, Unassigned

LEMMA ReceiveStep ==
  ASSUME StaticInv, NEW c \in Conns, NEW r \in Requests, Receive(c, r)
  PROVE  StaticInv'
<1> DEFINE v == ValidateRequest(Root, r)
<1>1. /\ pc' = [pc EXCEPT ![c] = "init"] /\ request' = [request EXCEPT ![c] = r]
      /\ code_' = [code_ EXCEPT ![c] = v] /\ file_body_' = [file_body_ EXCEPT ![c] = None]
      /\ UNCHANGED <<diskVars, cacheVars, chainVars, historyVars>>
  BY DEF Receive, Goto
<1>2. v \in Int /\ v # 200 /\ (v = -1 => Target(r) \in Paths)
  BY ValidateRequestResult
<1> HIDE DEF v
<1>3. SettledFor("init", r, v, None, resources')
  BY <1>2 DEF SettledFor
<1>4. Grown
  BY <1>1, CacheStays DEF StaticInv
<1>5. ThreadsSettled /\ "init" \in Wheres /\ r \in Requests \cup {None}
      /\ None \in DOMAIN resources' \cup {None}
  BY DEF StaticInv, Wheres
<1>6. ThreadsSettled'
  BY <1>1, <1>2, <1>3, <1>4, <1>5, OneThread
<1> QED
  BY <1>1, <1>6, OnlyThreads

LEMMA CheckConditionsStep ==
  ASSUME StaticInv, NEW c \in Conns, CheckConditions(c)
  PROVE  StaticInv'
<1>1. PICK k : k = IF /\ code_[c] = -1
                      /\ disk[PathOf(c)] # None
                      /\ ShouldReturn304(request[c], disk[PathOf(c)])
                   THEN 304 ELSE code_[c]
  OBVIOUS
<1>2. /\ pc[c] = "init" /\ pc' = [pc EXCEPT ![c] = "exists"] /\ code_' = [code_ EXCEPT ![c] = k]
      /\ UNCHANGED <<diskVars, cacheVars, chainVars, request, file_body_, historyVars>>
  BY <1>1 DEF CheckConditions, Goto
<1>3. request' = [request EXCEPT ![c] = request[c]]
      /\ file_body_' = [file_body_ EXCEPT ![c] = file_body_[c]]
      /\ request[c] \in Requests \cup {None} /\ code_[c] \in Int
      /\ file_body_[c] \in DOMAIN resources \cup {None}
      /\ SettledFor(pc[c], request[c], code_[c], file_body_[c], resources)
  BY <1>2, Thread
<1>4. k = 304 \/ k = code_[c]
  BY <1>1
<1>5. k \in Int
  BY <1>3, <1>4
<1>6. Grown /\ ThreadsSettled /\ "exists" \in Wheres
  BY <1>2, CacheStays DEF StaticInv, Wheres
<1>7. SettledFor("exists", request[c], k, file_body_[c], resources')
  <2>1. request[c] \in Requests /\ code_[c] # 200 /\ (code_[c] = -1 => Target(request[c]) \in Paths)
    BY <1>2, <1>3 DEF SettledFor
  <2>2. k # 200 /\ (k = -1 => Target(request[c]) \in Paths)
    BY <1>4, <2>1
  <2> QED
    BY <2>1, <2>2 DEF SettledFor
<1>8. file_body_[c] \in DOMAIN resources' \cup {None}
  BY <1>3, <1>6 DEF Grown
<1>9. ThreadsSettled'
  BY <1>2, <1>3, <1>5, <1>6, <1>7, <1>8, OneThread
<1> QED
  BY <1>2, <1>9, OnlyThreads

LEMMA CheckExistsStep ==
  ASSUME StaticInv, NEW c \in Conns, CheckExists(c)
  PROVE  StaticInv'
<1>1. PICK k : k = IF code_[c] # -1 THEN code_[c] ELSE IF disk[PathOf(c)] # None THEN 200 ELSE 404
  OBVIOUS
<1>2. PICK w : w = IF k = 200 THEN "find" ELSE "send"
  OBVIOUS
<1>3. /\ pc[c] = "exists" /\ pc' = [pc EXCEPT ![c] = w] /\ code_' = [code_ EXCEPT ![c] = k]
      /\ UNCHANGED <<diskVars, cacheVars, chainVars, request, file_body_, historyVars>>
  BY <1>1, <1>2 DEF CheckExists, Goto
<1>4. request' = [request EXCEPT ![c] = request[c]]
      /\ file_body_' = [file_body_ EXCEPT ![c] = file_body_[c]]
      /\ request[c] \in Requests \cup {None} /\ code_[c] \in Int
      /\ file_body_[c] \in DOMAIN resources \cup {None}
      /\ SettledFor(pc[c], request[c], code_[c], file_body_[c], resources)
  BY <1>3, Thread
<1>5. k \in Int
  BY <1>1, <1>4
<1>6. Grown /\ ThreadsSettled /\ w \in Wheres
  BY <1>2, <1>3, CacheStays DEF StaticInv, Wheres
<1>7. SettledFor(w, request[c], k, file_body_[c], resources')
  <2>1. request[c] \in Requests /\ code_[c] # 200 /\ (code_[c] = -1 => Target(request[c]) \in Paths)
    BY <1>3, <1>4 DEF SettledFor
  <2>2. k = 200 => Target(request[c]) \in Paths
    BY <1>1, <2>1
  <2> QED
    BY <1>2, <2>1, <2>2 DEF SettledFor
<1>8. file_body_[c] \in DOMAIN resources' \cup {None}
  BY <1>4, <1>6 DEF Grown
<1>9. ThreadsSettled'
  BY <1>3, <1>4, <1>5, <1>6, <1>7, <1>8, OneThread
<1> QED
  BY <1>3, <1>9, OnlyThreads

\* A cached resource is one of the list, made for its path.
LEMMA CachedResource ==
  ASSUME CacheKept, NEW p \in DOMAIN cache_map_
  PROVE  /\ cache_map_[p] \in DOMAIN resources /\ resources[cache_map_[p]].path = p
         /\ PlaceOf(cache_map_[p]) \in 1 .. Len(lru_list_)
         /\ lru_list_[PlaceOf(cache_map_[p])] = cache_map_[p]
<1>1. /\ lru_list_ \in Seq(DOMAIN resources)
      /\ Books(resources, lru_list_, cache_map_, current_cache_size_)
  BY DEF CacheKept
<1>2. PICK n \in 1 .. Len(lru_list_) :
        cache_map_[p] = lru_list_[n] /\ resources[lru_list_[n]].path = p
  BY <1>1, MapHolds
<1>3. lru_list_[n] \in DOMAIN resources
  BY <1>1, <1>2, ElementOfSeq
<1>4. /\ PlaceOf(cache_map_[p]) \in 1 .. Len(lru_list_)
      /\ lru_list_[PlaceOf(cache_map_[p])] = cache_map_[p]
  BY <1>2 DEF PlaceOf
<1> QED
  BY <1>2, <1>3, <1>4

LEMMA FindCachedStep ==
  ASSUME StaticInv, NEW c \in Conns, FindCached(c)
  PROVE  StaticInv'
<1>1. PICK p : p = PathOf(c)
  OBVIOUS
<1>2. /\ pc[c] = "find" /\ request' = request /\ code_' = code_
      /\ UNCHANGED <<diskVars, chainVars, resources, cache_map_, current_cache_size_, historyVars>>
  BY DEF FindCached, Goto
<1>3. /\ request' = [request EXCEPT ![c] = request[c]] /\ code_' = [code_ EXCEPT ![c] = code_[c]]
      /\ request[c] \in Requests \cup {None} /\ code_[c] \in Int
      /\ file_body_[c] \in DOMAIN resources \cup {None}
      /\ file_body_ = [file_body_ EXCEPT ![c] = file_body_[c]]
      /\ SettledFor(pc[c], request[c], code_[c], file_body_[c], resources)
  BY <1>2, Thread
<1>4. request[c] \in Requests /\ p \in Paths /\ p = Target(request[c])
  BY <1>1, <1>2, <1>3 DEF SettledFor, PathOf
<1>5. Grown /\ CacheKept /\ ThreadsSettled /\ "send" \in Wheres /\ "load" \in Wheres
  BY <1>2 DEF Grown, StaticInv, Wheres
<1>6. CASE p \in DOMAIN cache_map_
  <2> DEFINE hit == cache_map_[p]
             n == PlaceOf(hit)
  <2>1. /\ pc' = [pc EXCEPT ![c] = "send"] /\ file_body_' = [file_body_ EXCEPT ![c] = hit]
        /\ lru_list_' = <<hit>> \o RemoveAt(lru_list_, n)
    BY <1>1, <1>6 DEF FindCached, Goto
  <2>2. /\ hit \in DOMAIN resources /\ resources[hit].path = p
        /\ n \in 1 .. Len(lru_list_) /\ lru_list_[n] = hit
    BY <1>5, <1>6, CachedResource
  <2> HIDE DEF hit, n
  <2>3. lru_list_' = ToFront(lru_list_, n)
    BY <2>1, <2>2 DEF ToFront
  <2>4. /\ lru_list_ \in Seq(DOMAIN resources)
        /\ Books(resources, lru_list_, cache_map_, current_cache_size_)
    BY <1>5 DEF CacheKept
  <2>5. /\ Books(resources, lru_list_', cache_map_, current_cache_size_)
        /\ lru_list_' \in Seq(DOMAIN resources)
    BY <2>2, <2>3, <2>4, HitBooks
  <2>6. CacheKept'
    BY <1>2, <1>5, <2>5 DEF CacheKept
  <2>7. SettledFor("send", request[c], code_[c], hit, resources')
    BY <1>2, <1>4, <2>2 DEF SettledFor
  <2>8. hit \in DOMAIN resources' \cup {None}
    BY <1>2, <2>2
  <2>9. ThreadsSettled'
    BY <1>3, <1>5, <2>1, <2>7, <2>8, OneThread
  <2>10. DiskKept' /\ ChainsKept' /\ AnswersWhole'
    BY <1>2, <1>5, DiskStays, ChainsStay, AnswersStay DEF StaticInv, historyVars
  <2> QED
    BY <2>6, <2>9, <2>10 DEF StaticInv
<1>7. CASE p \notin DOMAIN cache_map_
  <2>1. /\ pc' = [pc EXCEPT ![c] = "load"] /\ UNCHANGED <<lru_list_, file_body_>>
    BY <1>1, <1>7 DEF FindCached, Goto
  <2>2. SettledFor("load", request[c], code_[c], file_body_[c], resources')
    BY <1>4 DEF SettledFor
  <2>3. file_body_' = [file_body_ EXCEPT ![c] = file_body_[c]]
        /\ file_body_[c] \in DOMAIN resources' \cup {None}
    BY <1>2, <1>3, <2>1
  <2>4. ThreadsSettled'
    BY <1>3, <1>5, <2>1, <2>2, <2>3, OneThread
  <2>5. UNCHANGED <<diskVars, cacheVars, chainVars, historyVars>>
    BY <1>2, <2>1 DEF cacheVars
  <2> QED
    BY <2>4, <2>5, OnlyThreads
<1> QED
  BY <1>6, <1>7

\* A resource is mapped and takes the place of the oldest ones.
LEMMA InsertStep ==
  ASSUME StaticInv, NEW c \in Conns, NEW size \in Nat, Insert(c, size), PathOf(c) \in Paths,
         PathOf(c) \notin DOMAIN cache_map_
  PROVE  /\ CacheKept' /\ Grown
         /\ Len(resources) + 1 \in DOMAIN resources' /\ resources'[Len(resources) + 1].path = PathOf(c)
         /\ file_body_' = [file_body_ EXCEPT ![c] = Len(resources) + 1]
<1> DEFINE p == PathOf(c)
           r == Len(resources) + 1
           k == Evictions(size)
           new == [path |-> p, size |-> size]
           left == DOMAIN cache_map_ \ {resources[i].path : i \in Range(Oldest(k))}
           total == current_cache_size_ - SizeSum(Range(Oldest(k))) + size
<1>1. /\ r \in Ids
      /\ resources' = Append(resources, new)
      /\ lru_list_' = <<r>> \o SubSeq(lru_list_, 1, Len(lru_list_) - k)
      /\ cache_map_' = [q \in left \cup {p} |-> IF q = p THEN r ELSE cache_map_[q]]
      /\ current_cache_size_' = total
      /\ file_body_' = [file_body_ EXCEPT ![c] = r]
  BY DEF Insert
<1>2. new \in Resource /\ new.path = p /\ new.size = size
  BY DEF Resource
<1>3. /\ resources \in Seq(Resource) /\ lru_list_ \in Seq(DOMAIN resources)
      /\ current_cache_size_ \in Nat
      /\ Books(resources, lru_list_, cache_map_, current_cache_size_)
  BY DEF StaticInv, CacheKept
<1>4. /\ k \in 0 .. Len(lru_list_)
      /\ \/ current_cache_size_ - Held(resources, Dropped(lru_list_, k)) + size <= max_cache_size_
         \/ k = Len(lru_list_)
  BY <1>3, EvictionsMakeRoom
<1>5. Range(Oldest(k)) = Dropped(lru_list_, k)
  BY DEF Oldest, Dropped
<1>6. left = Staying(cache_map_, resources, Dropped(lru_list_, k))
  BY <1>5 DEF Staying
<1>7. total = current_cache_size_ - Held(resources, Dropped(lru_list_, k)) + size
  BY <1>5 DEF SizeSum, Held
<1>8. /\ lru_list_' = Entered(lru_list_, k, r)
      /\ cache_map_' = Remapped(cache_map_, left, p, r)
  BY <1>1 DEF Entered, Remapped
<1>9. r = Len(resources) + 1 /\ p \notin DOMAIN cache_map_
  OBVIOUS
<1> HIDE DEF k, left, total, new, r, p
<1>10. total <= max_cache_size_ \/ k = Len(lru_list_)
  BY <1>4, <1>7
<1>11. /\ Books(Append(resources, new), Entered(lru_list_, k, r), Remapped(cache_map_, left, new.path, r), total)
       /\ Append(resources, new) \in Seq(Resource)
       /\ Entered(lru_list_, k, r) \in Seq(DOMAIN Append(resources, new))
       /\ r \in DOMAIN Append(resources, new)
       /\ total \in Nat
  BY <1>2, <1>3, <1>4, <1>6, <1>7, <1>9, <1>10, InsertBooks
<1>12. /\ Len(Append(resources, new)) = Len(resources) + 1
       /\ DOMAIN Append(resources, new) = DOMAIN resources \cup {Len(resources) + 1}
       /\ \A i \in DOMAIN resources : Append(resources, new)[i] = resources[i]
       /\ Append(resources, new)[Len(resources) + 1] = new
  BY <1>2, <1>3, EnteredResources
<1>13. Grown
  BY <1>1, <1>12 DEF Grown
<1>14. Len(resources') <= MaxResources
  <2>1. r \in 1 .. MaxResources
    BY <1>1 DEF Ids
  <2> QED
    BY <1>1, <1>9, <1>12, <2>1, StaticAssumption
<1>15. CacheKept'
  BY <1>1, <1>2, <1>8, <1>11, <1>14 DEF CacheKept
<1>16. r \in DOMAIN resources' /\ resources'[r].path = p
  BY <1>1, <1>2, <1>9, <1>11, <1>12
<1> QED
  BY <1>1, <1>9, <1>13, <1>15, <1>16 DEF p

LEMMA LoadResourceStep ==
  ASSUME StaticInv, NEW c \in Conns, LoadResource(c)
  PROVE  StaticInv'
<1>1. PICK p : p = PathOf(c)
  OBVIOUS
<1>2. /\ pc[c] = "load" /\ pc' = [pc EXCEPT ![c] = "send"] /\ request' = request
      /\ UNCHANGED <<diskVars, chainVars, historyVars>>
  BY DEF LoadResource, Goto
<1>3. /\ request' = [request EXCEPT ![c] = request[c]]
      /\ request[c] \in Requests \cup {None} /\ code_[c] \in Int
      /\ file_body_[c] \in DOMAIN resources \cup {None}
      /\ file_body_ = [file_body_ EXCEPT ![c] = file_body_[c]]
      /\ code_ = [code_ EXCEPT ![c] = code_[c]]
      /\ SettledFor(pc[c], request[c], code_[c], file_body_[c], resources)
  BY <1>2, Thread
<1>4. request[c] \in Requests /\ p \in Paths /\ p = Target(request[c])
  BY <1>1, <1>2, <1>3 DEF SettledFor, PathOf
<1>5. CacheKept /\ ThreadsSettled /\ "send" \in Wheres
  BY DEF StaticInv, Wheres
<1>6. DiskKept' /\ ChainsKept' /\ UNCHANGED responses
  BY <1>2, DiskStays, ChainsStay DEF StaticInv, historyVars
\* Whatever the branch, it remains to show what the thread has settled.
<1>7. ASSUME CacheKept', Grown, NEW k \in Int, NEW b \in DOMAIN resources' \cup {None},
             code_' = [code_ EXCEPT ![c] = k], file_body_' = [file_body_ EXCEPT ![c] = b],
             k = 200 => b \in DOMAIN resources' /\ resources'[b].path = p
      PROVE  StaticInv'
  <2>1. SettledFor("send", request[c], k, b, resources')
    BY <1>4, <1>7 DEF SettledFor
  <2>2. ThreadsSettled'
    BY <1>2, <1>3, <1>5, <1>7, <2>1, OneThread
  <2>3. AnswersWhole'
    BY <1>6, <1>7, AnswersStay DEF StaticInv
  <2> QED
    BY <1>6, <1>7, <2>2, <2>3 DEF StaticInv
<1>8. CASE /\ p \in DOMAIN cache_map_
           /\ file_body_' = [file_body_ EXCEPT ![c] = cache_map_[p]]
           /\ UNCHANGED <<cacheVars, code_>>
  <2>1. CacheKept' /\ Grown
    BY <1>5, <1>8, CacheStays
  <2>2. cache_map_[p] \in DOMAIN resources /\ resources[cache_map_[p]].path = p
    BY <1>5, <1>8, CachedResource
  <2>3. cache_map_[p] \in DOMAIN resources' /\ resources'[cache_map_[p]].path = p
    BY <2>1, <2>2 DEF Grown
  <2>4. code_' = [code_ EXCEPT ![c] = code_[c]]
    BY <1>3, <1>8
  <2>5. cache_map_[p] \in DOMAIN resources' \cup {None}
    BY <2>3
  <2> QED
    BY <1>3, <1>7, <1>8, <2>1, <2>3, <2>4, <2>5
<1>9. CASE /\ code_' = [code_ EXCEPT ![c] = 404]
           /\ UNCHANGED <<cacheVars, file_body_>>
  <2>1. CacheKept' /\ Grown
    BY <1>5, <1>9, CacheStays
  <2>2. file_body_' = [file_body_ EXCEPT ![c] = file_body_[c]]
        /\ file_body_[c] \in DOMAIN resources' \cup {None}
    BY <1>3, <1>9, <2>1 DEF Grown
  <2>3. 404 \in Int /\ code_' = [code_ EXCEPT ![c] = 404]
    BY <1>9
  <2>4. 404 = 200 => /\ file_body_[c] \in DOMAIN resources'
                     /\ resources'[file_body_[c]].path = p
    OBVIOUS
  <2> QED
    BY <1>7, <2>1, <2>2, <2>3, <2>4, ZenonT(60)
<1>10. CASE /\ p \notin DOMAIN cache_map_ /\ Loadable(p) /\ Insert(c, disk[p].size)
            /\ UNCHANGED code_
  <2>1. disk[p].size \in Nat
    <3>1. disk[p] \in Files
      BY <1>4, <1>10 DEF Loadable, StaticInv, DiskKept
    <3> QED
      BY <3>1, StaticAssumption
  <2>2. /\ CacheKept' /\ Grown
        /\ Len(resources) + 1 \in DOMAIN resources' /\ resources'[Len(resources) + 1].path = p
        /\ file_body_' = [file_body_ EXCEPT ![c] = Len(resources) + 1]
    BY <1>1, <1>4, <1>10, <2>1, InsertStep
  <2>3. code_' = [code_ EXCEPT ![c] = code_[c]]
    BY <1>3, <1>10
  <2>4. Len(resources) + 1 \in DOMAIN resources' \cup {None}
    BY <2>2
  <2> QED
    BY <1>3, <1>7, <2>2, <2>3, <2>4
<1> QED
  BY <1>1, <1>8, <1>9, <1>10 DEF LoadResource

\* GetBodyLen is the length of what follows.
LEMMA BodyLength ==
  ASSUME StaticInv, NEW c \in Conns
  PROVE  /\ Body(c) \in Seq(Bytes) /\ Len(Body(c)) = GetBodyLen(c) /\ GetBodyLen(c) \in Nat
         /\ code_[c] \in Int
         /\ file_body_[c] \in DOMAIN resources =>
              Body(c) = [n \in 1 .. resources[file_body_[c]].size |-> <<file_body_[c], n, 0>>]
<1>1. code_[c] \in Int /\ file_body_[c] \in DOMAIN resources \cup {None}
  BY Thread
<1>2. DOMAIN resources \subseteq Nat /\ None \notin DOMAIN resources
  BY ResourceNumbers DEF StaticInv
<1>3. CASE file_body_[c] # None
  <2> DEFINE b == file_body_[c]
             size == resources[b].size
             text == [n \in 1 .. size |-> <<b, n, 0>>]
  <2>1. Body(c) = text /\ GetBodyLen(c) = size
    BY <1>3 DEF Body, GetBodyLen
  <2>2. b \in DOMAIN resources /\ b \in Nat
    BY <1>1, <1>2, <1>3
  <2>3. size \in Nat
    <3>1. resources \in Seq(Resource)
      BY DEF StaticInv, CacheKept
    <3>2. resources[b] \in Resource
      BY <2>2, <3>1
    <3> QED
      BY <3>2 DEF Resource
  <2> HIDE DEF b, size
  <2>4. \A n \in 1 .. size : <<b, n, 0>> \in Bytes
    BY <2>2, <2>3 DEF Bytes
  <2>5. text \in [1 .. size -> Bytes]
    BY <2>4
  <2>6. text \in Seq(Bytes) /\ Len(text) = size
    BY <2>3, <2>5
  <2>7. Body(c) \in Seq(Bytes) /\ Len(Body(c)) = GetBodyLen(c) /\ GetBodyLen(c) \in Nat
    BY <2>1, <2>3, <2>6
  <2> QED
    BY <1>1, <2>1, <2>7 DEF b, size
<1>4. CASE file_body_[c] = None /\ code_[c] = 304
  <2>1. Body(c) = <<>> /\ GetBodyLen(c) = 0
    BY <1>4 DEF Body, GetBodyLen
  <2> QED
    BY <1>1, <1>2, <1>4, <2>1
<1>5. CASE file_body_[c] = None /\ code_[c] # 304
  <2>1. Body(c) = << <<-1, code_[c], 0>> >> /\ GetBodyLen(c) = 1
    BY <1>5 DEF Body, GetBodyLen
  <2>2. <<-1, code_[c], 0>> \in Bytes
    BY <1>1 DEF Bytes
  <2>3. Body(c) \in Seq(Bytes) /\ Len(Body(c)) = 1
    BY <2>1, <2>2
  <2> QED
    BY <1>1, <1>2, <1>5, <2>1, <2>3
<1> QED
  BY <1>3, <1>4, <1>5

\* A connection writes to its own chain, and leaves the others alone.
LEMMA OneChain ==
  ASSUME ChainsKept, NEW c \in Conns, NEW q, NEW t \in Nat, NEW w \in Nat, NEW st \in Seq(Bytes),
         buffer_queue_' = [buffer_queue_ EXCEPT ![c] = q],
         total_bytes_' = [total_bytes_ EXCEPT ![c] = t],
         written' = [written EXCEPT ![c] = w], stream' = [stream EXCEPT ![c] = st],
         Chain(q, t, w, st)
  PROVE  ChainsKept'
<1>1. /\ buffer_queue_ \in [Conns -> Seq(Nodes)] /\ total_bytes_ \in [Conns -> Nat]
      /\ stream \in [Conns -> Seq(Bytes)] /\ written \in [Conns -> Nat]
  BY DEF ChainsKept
<1>2. q \in Seq(Nodes)
  BY DEF Chain, Begun
<1>3. buffer_queue_' \in [Conns -> Seq(Nodes)]
  BY <1>1, <1>2
<1>4. /\ total_bytes_' \in [Conns -> Nat] /\ written' \in [Conns -> Nat]
      /\ stream' \in [Conns -> Seq(Bytes)]
  BY <1>1
<1>5. ASSUME NEW d \in Conns
      PROVE  Chain(buffer_queue_'[d], total_bytes_'[d], written'[d], stream'[d])
  <2>1. CASE d = c
    BY <1>1, <2>1
  <2>2. CASE d # c
    <3>1. /\ buffer_queue_'[d] = buffer_queue_[d] /\ total_bytes_'[d] = total_bytes_[d]
          /\ written'[d] = written[d] /\ stream'[d] = stream[d]
      BY <1>1, <2>2
    <3>2. Chain(buffer_queue_[d], total_bytes_[d], written[d], stream[d])
      BY DEF ChainsKept
    <3> QED
      BY <3>1, <3>2
  <2> QED
    BY <2>1, <2>2
<1> QED
  BY <1>3, <1>4, <1>5 DEF ChainsKept

LEMMA SendResponseStep ==
  ASSUME StaticInv, NEW c \in Conns, SendResponse(c)
  PROVE  StaticInv'
<1> DEFINE body == Body(c)
           length == GetBodyLen(c)
           header == << <<0, code_[c], length>> >>
           q == buffer_queue_[c]
           t == total_bytes_[c]
           st == stream[c]
           answer == [code |-> code_[c], path |-> PathOf(c), body |-> body]
<1>1. PICK w : w = IF code_[c] >= 400 THEN "closing" ELSE "idle"
  OBVIOUS
<1>2. /\ pc[c] = "send" /\ pc' = [pc EXCEPT ![c] = w]
      /\ buffer_queue_' = [buffer_queue_ EXCEPT ![c] = q \o Node(header) \o Node(body)]
      /\ total_bytes_' = [total_bytes_ EXCEPT ![c] = t + Len(header) + Len(body)]
      /\ responses' = [responses EXCEPT ![c] = Append(responses[c], answer)]
      /\ stream' = [stream EXCEPT ![c] = st \o << <<0, code_[c], Len(body)>> >> \o body]
      /\ request' = [request EXCEPT ![c] = None]
      /\ code_' = [code_ EXCEPT ![c] = -1]
      /\ file_body_' = [file_body_ EXCEPT ![c] = None]
      /\ UNCHANGED <<diskVars, cacheVars, written>>
  BY <1>1 DEF SendResponse, Goto
<1>3. /\ body \in Seq(Bytes) /\ Len(body) = length /\ length \in Nat /\ code_[c] \in Int
      /\ file_body_[c] \in DOMAIN resources =>
           body = [n \in 1 .. resources[file_body_[c]].size |-> <<file_body_[c], n, 0>>]
  BY BodyLength
<1> HIDE DEF body, length
<1>4. header \in Seq(Bytes) /\ header = << <<0, code_[c], Len(body)>> >>
  <2>1. <<0, code_[c], length>> \in Bytes
    BY <1>3 DEF Bytes
  <2> QED
    BY <1>3, <2>1
<1> HIDE DEF header
<1>5. request[c] \in Requests /\ SettledFor("send", request[c], code_[c], file_body_[c], resources)
  <2>1. SettledFor("send", request[c], code_[c], file_body_[c], resources)
    BY <1>2, Thread
  <2> QED
    BY <2>1 DEF SettledFor
<1>6. CacheKept' /\ Grown /\ DiskKept'
  BY <1>2, CacheStays, DiskStays DEF StaticInv
<1>7. ThreadsSettled'
  <2>1. ThreadsSettled /\ w \in Wheres /\ -1 \in Int /\ None \in DOMAIN resources' \cup {None}
        /\ None \in Requests \cup {None}
    BY <1>1 DEF StaticInv, Wheres
  <2>2. SettledFor(w, None, -1, None, resources')
    BY <1>1 DEF SettledFor
  <2> QED
    BY <1>2, <1>6, <2>1, <2>2, OneThread
<1>8. ChainsKept'
  <2>1. /\ t \in Nat /\ written[c] \in Nat /\ st \in Seq(Bytes) /\ Chain(q, t, written[c], st)
        /\ written \in [Conns -> Nat] /\ ChainsKept
    BY DEF StaticInv, ChainsKept
  <2> HIDE DEF q, t, st
  <2>2. /\ Chain(q \o Node(header), t + Len(header), written[c], st \o header)
        /\ t + Len(header) \in Nat
    BY <1>4, <2>1, ChainAppend
  <2>3. st \o header \in Seq(Bytes)
    BY <1>4, <2>1, Joined
  <2>4. /\ Chain(q \o Node(header) \o Node(body), t + Len(header) + Len(body), written[c],
                 st \o header \o body)
        /\ t + Len(header) + Len(body) \in Nat
    BY <1>3, <2>1, <2>2, <2>3, ChainAppend
  <2>5. st \o header \o body \in Seq(Bytes)
    BY <1>3, <2>3, Joined
  <2>6. written' = [written EXCEPT ![c] = written[c]]
    BY <1>2, <2>1
  <2>7. stream' = [stream EXCEPT ![c] = st \o header \o body]
    BY <1>2, <1>4
  <2>8. /\ buffer_queue_' = [buffer_queue_ EXCEPT ![c] = q \o Node(header) \o Node(body)]
        /\ total_bytes_' = [total_bytes_ EXCEPT ![c] = t + Len(header) + Len(body)]
    BY <1>2
  <2> QED
    BY <2>1, <2>4, <2>5, <2>6, <2>7, <2>8, OneChain
<1>9. answer \in Answers /\ WholeFile(answer, resources)
  <2>1. PathOf(c) = Target(request[c]) /\ PathOf(c) \in Targets
    BY <1>5 DEF PathOf, Targets
  <2>2. answer \in Answers
    BY <1>3, <2>1 DEF Answers
  <2>3. ASSUME code_[c] = 200
        PROVE  \E r \in DOMAIN resources :
                 /\ resources[r].path = answer.path
                 /\ answer.body = [k \in 1 .. resources[r].size |-> <<r, k, 0>>]
    <3>1. file_body_[c] \in DOMAIN resources /\ resources[file_body_[c]].path = PathOf(c)
      BY <1>5, <2>1, <2>3 DEF SettledFor
    <3>2. answer.path = PathOf(c) /\ answer.body = body
      OBVIOUS
    <3> HIDE DEF answer
    <3> QED
      BY <1>3, <3>1, <3>2
  <2> QED
    BY <2>2, <2>3 DEF WholeFile
<1>10. AnswersWhole'
  <2>1. /\ responses \in [Conns -> Seq(Answers)]
        /\ \A d \in Conns : \A n \in 1 .. Len(responses[d]) : WholeFile(responses[d][n], resources)
    BY DEF StaticInv, AnswersWhole
  <2> HIDE DEF answer
  <2> DEFINE old == responses[c]
             more == Append(old, answer)
  <2>2. old \in Seq(Answers)
    BY <2>1
  <2>3. /\ more \in Seq(Answers) /\ Len(more) = Len(old) + 1 /\ Len(old) \in Nat
        /\ \A i \in 1 .. Len(old) : more[i] = old[i]
        /\ more[Len(old) + 1] = answer
    BY <1>9, <2>2, AppendProperties, LenProperties
  <2> HIDE DEF more
  <2>4. responses' = [responses EXCEPT ![c] = more]
    BY <1>2 DEF more
  <2>5. responses' \in [Conns -> Seq(Answers)]
    BY <2>1, <2>3, <2>4
  <2>6. resources' = resources
    BY <1>2 DEF cacheVars
  <2>7. ASSUME NEW n \in 1 .. Len(more) PROVE WholeFile(more[n], resources)
    <3>1. CASE n = Len(old) + 1
      BY <1>9, <2>3, <3>1
    <3>2. CASE n # Len(old) + 1
      <4>1. n \in 1 .. Len(old)
        BY <2>3, <3>2
      <4> QED
        BY <2>1, <2>3, <4>1
    <3> QED
      BY <3>1, <3>2
  <2>8. ASSUME NEW d \in Conns, NEW n \in 1 .. Len(responses'[d])
        PROVE  WholeFile(responses'[d][n], resources')
    <3>1. CASE d = c
      <4>1. responses'[d] = more
        BY <2>1, <2>4, <3>1
      <4> QED
        BY <2>6, <2>7, <4>1
    <3>2. CASE d # c
      <4>1. responses'[d] = responses[d]
        BY <2>1, <2>4, <3>2
      <4> QED
        BY <2>1, <2>6, <4>1
    <3> QED
      BY <3>1, <3>2
  <2> QED
    BY <2>5, <2>8 DEF AnswersWhole
<1> QED
  BY <1>6, <1>7, <1>8, <1>10 DEF StaticInv

LEMMA HandleWriteStep ==
  ASSUME StaticInv, NEW c \in Conns, NEW n, HandleWrite(c, n)
  PROVE  StaticInv'
<1> DEFINE q == buffer_queue_[c]
           t == total_bytes_[c]
           w == written[c]
           st == stream[c]
<1>1. /\ n \in 1 .. IovSize(q)
      /\ buffer_queue_' = [buffer_queue_ EXCEPT ![c] = Advance(q, n)]
      /\ total_bytes_' = [total_bytes_ EXCEPT ![c] = t - n]
      /\ written' = [written EXCEPT ![c] = w + n]
      /\ UNCHANGED <<diskVars, cacheVars, pc, request, code_, file_body_, responses, stream>>
  BY DEF HandleWrite
<1>2. /\ t \in Nat /\ w \in Nat /\ st \in Seq(Bytes) /\ Chain(q, t, w, st)
      /\ stream \in [Conns -> Seq(Bytes)] /\ ChainsKept
  BY DEF StaticInv, ChainsKept
<1> HIDE DEF q, t, w, st
<1>3. n \in Nat /\ n <= LeftIn(q, Len(q))
  <2>1. Begun(q)
    BY <1>2 DEF Chain
  <2>2. Len(q) \in Nat
    BY <2>1, NodeNumbers
  <2>3. PICK m : m = Min({MaxIov, Len(q)})
    OBVIOUS
  <2>4. m \in 0 .. Len(q) /\ m <= Len(q) /\ Len(q) \in 0 .. Len(q)
    <3>1. MaxIov \in Nat
      BY StaticAssumption
    <3>2. \E x \in {MaxIov, Len(q)} : \A y \in {MaxIov, Len(q)} : x <= y
      BY <2>2, <3>1
    <3>3. m \in {MaxIov, Len(q)} /\ \A y \in {MaxIov, Len(q)} : m <= y
      BY <2>3, <3>2 DEF Min
    <3> QED
      BY <2>2, <3>1, <3>3
  <2>5. IovSize(q) = LeftIn(q, m)
    BY <2>3 DEF IovSize
  <2>6. LeftIn(q, m) \in Nat /\ LeftIn(q, Len(q)) \in Nat /\ LeftIn(q, m) <= LeftIn(q, Len(q))
    BY <2>1, <2>4, LeftSums
  <2> QED
    BY <1>1, <2>5, <2>6
<1>4. Chain(Advance(q, n), t - n, w + n, st) /\ t - n \in Nat /\ w + n \in Nat
  BY <1>2, <1>3, ChainAdvance
<1>5. stream' = [stream EXCEPT ![c] = st]
  BY <1>1, <1>2 DEF st
<1>6. ChainsKept'
  BY <1>1, <1>2, <1>4, <1>5, OneChain
<1>7. CacheKept' /\ Grown /\ DiskKept'
  BY <1>1, CacheStays, DiskStays DEF StaticInv
<1>8. AnswersWhole'
  BY <1>1, <1>7, AnswersStay DEF StaticInv
<1>9. ThreadsSettled'
  BY <1>1 DEF StaticInv, ThreadsSettled, cacheVars
<1> QED
  BY <1>6, <1>7, <1>8, <1>9 DEF StaticInv

LEMMA ChangeFileStep ==
  ASSUME StaticInv, NEW p \in Paths, NEW f \in Files \cup {None}, ChangeFile(p, f)
  PROVE  StaticInv'
<1>1. /\ disk' = [disk EXCEPT ![p] = f]
      /\ UNCHANGED <<cacheVars, chainVars, pc, request, code_, file_body_, historyVars>>
  BY DEF ChangeFile
<1>2. DiskKept'
  BY <1>1 DEF StaticInv, DiskKept
<1>3. CacheKept' /\ Grown
  BY <1>1, CacheStays DEF StaticInv
<1>4. ThreadsSettled'
  BY <1>1 DEF StaticInv, ThreadsSettled, cacheVars
<1>5. ChainsKept' /\ AnswersWhole'
  BY <1>1, <1>3, ChainsStay, AnswersStay DEF StaticInv, historyVars
<1> QED
  BY <1>2, <1>3, <1>4, <1>5 DEF StaticInv

LEMMA StaticStep == StaticInv /\ [StaticNext]_staticVars => StaticInv'
<1> SUFFICES ASSUME StaticInv, [StaticNext]_staticVars PROVE StaticInv'
  OBVIOUS
<1>1. ASSUME NEW c \in Conns, NEW r \in Requests, Receive(c, r) PROVE StaticInv'
  BY <1>1, ReceiveStep
<1>2. ASSUME NEW c \in Conns, CheckConditions(c) PROVE StaticInv'
  BY <1>2, CheckConditionsStep
<1>3. ASSUME NEW c \in Conns, CheckExists(c) PROVE StaticInv'
  BY <1>3, CheckExistsStep
<1>4. ASSUME NEW c \in Conns, FindCached(c) PROVE StaticInv'
  BY <1>4, FindCachedStep
<1>5. ASSUME NEW c \in Conns, LoadResource(c) PROVE StaticInv'
  BY <1>5, LoadResourceStep
<1>6. ASSUME NEW c \in Conns, SendResponse(c) PROVE StaticInv'
  BY <1>6, SendResponseStep
<1>7. ASSUME NEW c \in Conns, NEW n \in 1 .. IovSize(buffer_queue_[c]), HandleWrite(c, n)
      PROVE  StaticInv'
  BY <1>7, HandleWriteStep
<1>8. ASSUME NEW p \in Paths, NEW f \in Files \cup {None}, ChangeFile(p, f) PROVE StaticInv'
  BY <1>8, ChangeFileStep
<1>9. CASE UNCHANGED staticVars
  <2>1. UNCHANGED <<diskVars, cacheVars, chainVars, historyVars>>
        /\ UNCHANGED <<pc, request, code_, file_body_>>
    BY <1>9 DEF staticVars
  <2>2. ThreadsSettled'
    BY <2>1 DEF StaticInv, ThreadsSettled, cacheVars
  <2> QED
    BY <2>1, <2>2, OnlyThreads
<1> QED
  BY <1>1, <1>2, <1>3, <1>4, <1>5, <1>6, <1>7, <1>8, <1>9 DEF StaticNext

LEMMA StaticAlways == StaticSpec => []StaticInv
<1>1. StaticInit => StaticInv
  BY StaticInitial
<1>2. StaticInv /\ [StaticNext]_staticVars => StaticInv'
  BY StaticStep
<1> QED
  BY <1>1, <1>2, PTL DEF StaticSpec

\* The map, the list and the size of the cache agree, whoever misses the same
\* path at once and however much Evict_ has to drop.
THEOREM StaticCacheConsistent == StaticSpec => []CacheConsistent
<1>1. StaticInv => CacheConsistent
  BY StaticInvShows
<1> QED
  BY <1>1, StaticAlways, PTL

\* A client reads its responses, each with the whole of its body, in whatever
\* portions writev takes them and whatever is loaded and evicted meanwhile.
THEOREM StaticStreamIntact == StaticSpec => []StreamIntact
<1>1. StaticInv => StreamIntact
  BY StaticInvShows
<1> QED
  BY <1>1, StaticAlways, PTL
===============================================================================
