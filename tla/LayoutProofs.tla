---------------------------- MODULE LayoutProofs ----------------------------
(***************************************************************************)
(* The road from the firmware's memory map to the table of objects to move *)
(* (Layout): for maps of any length, any number of objects, and tables of  *)
(* any size, whatever the order in which memory is found.                  *)
(***************************************************************************)
EXTENDS Layout, AllocTableProofs, FiniteSetTheorems, SequenceTheorems, TLAPS

-----------------------------------------------------------------------------
(* Steps from 0 on, and the bounds of sets of numbers.                      *)

LEMMA Climbing ==
  ASSUME NEW N \in Nat, NEW S, 0 \in S,
         \A n \in 0 .. N - 1 : n \in S => n + 1 \in S
  PROVE  0 .. N \subseteq S
<1>. DEFINE Missing == {n \in 0 .. N : n \notin S}
<1>1. SUFFICES ASSUME Missing # {} PROVE FALSE
  OBVIOUS
<1>2. Missing \subseteq Nat
  OBVIOUS
<1>3. PICK n \in Missing : \A k \in Missing : n <= k
  <2>. HIDE DEF Missing
  <2>. QED
    BY <1>1, <1>2, LeastIsLeast DEF IsLeast
<1>4. n # 0 /\ n \in 1 .. N /\ n \notin S
  BY <1>3
<1>5. n - 1 \in 0 .. N - 1 /\ n - 1 \in 0 .. N /\ ~(n <= n - 1)
  BY <1>4
<1>6. n - 1 \in S
  BY <1>3, <1>5
<1>7. n - 1 + 1 = n
  BY <1>4
<1>. QED
  BY <1>4, <1>5, <1>6, <1>7

LEMMA Lowest ==
  ASSUME NEW S, S \subseteq Nat, S # {}
  PROVE  Min(S) \in S /\ \A y \in S : Min(S) <= y
<1>1. IsLeast(Least(S), S)
  BY LeastIsLeast
<1>. QED
  BY <1>1 DEF IsLeast, Min

LEMMA Highest ==
  ASSUME NEW b \in Nat, NEW S, S \subseteq 0 .. b, S # {}
  PROVE  Max(S) \in S /\ \A y \in S : y <= Max(S)
<1>. DEFINE Down == {b - y : y \in S}
<1>1. Down \subseteq Nat /\ Down # {}
  <2>1. \A y \in S : b - y \in Nat
    OBVIOUS
  <2>. QED
    BY <2>1
<1>2. PICK d \in Down : \A k \in Down : d <= k
  <2>. HIDE DEF Down
  <2>. QED
    BY <1>1, LeastIsLeast DEF IsLeast
<1>3. PICK x \in S : d = b - x
  BY <1>2
<1>4. ASSUME NEW y \in S PROVE x >= y
  <2>1. b - y \in Down
    OBVIOUS
  <2>2. d <= b - y
    BY <1>2, <2>1
  <2>3. x \in 0 .. b /\ y \in 0 .. b
    OBVIOUS
  <2>. QED
    BY <1>3, <2>2, <2>3
<1>5. Max(S) \in S /\ \A y \in S : Max(S) >= y
  BY <1>4 DEF Max
<1>6. \A y \in S : y \in Nat
  OBVIOUS
<1>. QED
  BY <1>5, <1>6

-----------------------------------------------------------------------------
(* bubble_sort: every index once, in the order of the keys.                 *)

LEMMA Ranking ==
  ASSUME NEW key, IsFiniteSet(DOMAIN key), DOMAIN key \subseteq Nat,
         \A i \in DOMAIN key : key[i] \in Nat,
         NEW order, order = bubble_sort(key)
  PROVE  /\ Cardinality(DOMAIN key) \in Nat
         /\ order \in [1 .. Cardinality(DOMAIN key) -> DOMAIN key]
         /\ \A a, b \in 1 .. Cardinality(DOMAIN key) :
              a < b => Before(key, order[a], order[b]) /\ order[a] # order[b]
         /\ \A i \in DOMAIN key :
              \E a \in 1 .. Cardinality(DOMAIN key) : order[a] = i
<1>. DEFINE D == DOMAIN key
            N == Cardinality(D)
            Lesser(i) == {j \in D : Before(key, j, i)}
            Rank(i) == Cardinality(Lesser(i))
<1>1. N \in Nat
  BY FS_CardinalityType
<1>2. ASSUME NEW i \in D
      PROVE  IsFiniteSet(Lesser(i)) /\ Rank(i) \in 0 .. N - 1
  <2>1. Lesser(i) \in SUBSET D
    OBVIOUS
  <2>2. ~Before(key, i, i)
    BY DEF Before
  <2>3. Lesser(i) # D
    BY <2>2
  <2>4. IsFiniteSet(Lesser(i)) /\ Rank(i) <= N /\ Rank(i) # N
    <3>. HIDE DEF Lesser
    <3>. QED
      BY <2>1, <2>3, FS_Subset
  <2>5. Rank(i) \in Nat
    <3>. HIDE DEF Lesser
    <3>. QED
      BY <2>4, FS_CardinalityType
  <2>. HIDE DEF N, Rank, Lesser
  <2>. QED
    BY <1>1, <2>4, <2>5
<1>3. ASSUME NEW i \in D, NEW j \in D, Before(key, i, j)
      PROVE  Rank(i) < Rank(j)
  <2>1. /\ key[i] \in Nat /\ key[j] \in Nat /\ i \in Nat /\ j \in Nat
        /\ \A k \in D : key[k] \in Nat /\ k \in Nat
    OBVIOUS
  <2>2. Lesser(i) \in SUBSET Lesser(j)
    BY <1>3, <2>1 DEF Before
  <2>3. i \in Lesser(j) /\ i \notin Lesser(i)
    BY <1>3, <2>1 DEF Before
  <2>4. Lesser(i) # Lesser(j)
    BY <2>3
  <2>5. IsFiniteSet(Lesser(j)) /\ Rank(i) \in Nat /\ Rank(j) \in Nat
    <3>. HIDE DEF Rank, Lesser, N
    <3>. QED
      BY <1>1, <1>2
  <2>6. Rank(i) <= Rank(j) /\ Rank(i) # Rank(j)
    <3>. HIDE DEF Lesser
    <3>. QED
      BY <2>2, <2>4, <2>5, FS_Subset
  <2>. HIDE DEF Rank
  <2>. QED
    BY <2>5, <2>6
<1>4. ASSUME NEW i \in D, NEW j \in D, i # j
      PROVE  Before(key, i, j) \/ Before(key, j, i)
  <2>1. key[i] \in Nat /\ key[j] \in Nat /\ i \in Nat /\ j \in Nat
    OBVIOUS
  <2>. QED
    BY <1>4, <2>1 DEF Before
<1>5. ASSUME NEW i \in D, NEW j \in D, Rank(i) = Rank(j) PROVE i = j
  <2>1. SUFFICES ASSUME i # j PROVE FALSE
    OBVIOUS
  <2>2. Rank(i) < Rank(j) \/ Rank(j) < Rank(i)
    <3>. HIDE DEF Rank
    <3>. QED
      BY <1>3, <1>4, <2>1
  <2>3. Rank(i) \in Nat /\ Rank(j) \in Nat
    <3>. HIDE DEF Rank, Lesser, N
    <3>. QED
      BY <1>1, <1>2
  <2>. HIDE DEF Rank
  <2>. QED
    BY <1>5, <2>2, <2>3
<1>6. ASSUME NEW m \in 0 .. N - 1 PROVE \E i \in D : Rank(i) = m
  <2>1. SUFFICES ASSUME \A i \in D : Rank(i) # m PROVE FALSE
    OBVIOUS
  <2>. DEFINE T == 0 .. N - 1
              f == [i \in D |-> Rank(i)]
  <2>2. IsFiniteSet(T) /\ Cardinality(T) = N
    <3>1. 0 \in Int /\ N - 1 \in Int
      BY <1>1
    <3>2. IsFiniteSet(T) /\ Cardinality(T) = IF 0 > N - 1 THEN 0 ELSE N - 1 - 0 + 1
      <4>. HIDE DEF N
      <4>. QED
        BY <3>1, FS_Interval
    <3>. HIDE DEF N
    <3>. QED
      BY <1>1, <3>2
  <2>3. IsFiniteSet(T \ {m}) /\ Cardinality(T \ {m}) = N - 1
    <3>1. m \in T
      OBVIOUS
    <3>. HIDE DEF T, N
    <3>. QED
      BY <2>2, <3>1, FS_RemoveElement
  <2>4. f \in [D -> T \ {m}]
    <3>1. \A i \in D : Rank(i) \in T \ {m}
      BY <1>2, <2>1
    <3>. HIDE DEF Rank, T, D
    <3>. QED
      BY <3>1
  <2>5. N - 1 < N
    BY <1>1
  <2>6. \E x, y \in D : x # y /\ f[x] = f[y]
    <3>. HIDE DEF f, T
    <3>. QED
      BY <2>3, <2>4, <2>5, FS_PigeonHole
  <2>. HIDE DEF Rank, D
  <2>. QED
    BY <1>5, <2>6
<1>7. ASSUME NEW n \in 1 .. N PROVE order[n] \in D /\ Rank(order[n]) = n - 1
  <2>1. n - 1 \in 0 .. N - 1
    <3>. HIDE DEF N
    <3>. QED
      BY <1>1
  <2>2. \E i \in D : Rank(i) = n - 1
    BY <1>6, <2>1
  <2>3. order[n] = CHOOSE i \in D : Rank(i) = n - 1
    BY DEF bubble_sort
  <2>. HIDE DEF Rank, D
  <2>. QED
    BY <2>2, <2>3
<1>8. order \in [1 .. N -> D]
  <2>. DEFINE Nth(n) == CHOOSE i \in D : Rank(i) = n - 1
  <2>1. order = [n \in 1 .. N |-> Nth(n)]
    BY DEF bubble_sort
  <2>. HIDE DEF N, D, Nth
  <2>2. \A n \in 1 .. N : Nth(n) \in D
    BY <1>7, <2>1
  <2>. QED
    BY <2>1, <2>2
<1>9. ASSUME NEW a \in 1 .. N, NEW b \in 1 .. N, a < b
      PROVE  Before(key, order[a], order[b]) /\ order[a] # order[b]
  <2>1. /\ order[a] \in D /\ order[b] \in D
        /\ Rank(order[a]) = a - 1 /\ Rank(order[b]) = b - 1
    BY <1>7
  <2>2. Rank(order[a]) < Rank(order[b]) /\ ~(Rank(order[b]) < Rank(order[a]))
    <3>. HIDE DEF Rank, N
    <3>. QED
      BY <1>1, <1>9, <2>1
  <2>3. order[a] # order[b]
    BY <2>2
  <2>. HIDE DEF Rank, D
  <2>. QED
    BY <1>3, <1>4, <2>1, <2>2, <2>3
<1>10. ASSUME NEW i \in D PROVE \E a \in 1 .. N : order[a] = i
  <2>1. Rank(i) \in 0 .. N - 1
    BY <1>2
  <2>2. PICK n \in 1 .. N : n - 1 = Rank(i)
    <3>1. ASSUME NEW r \in 0 .. N - 1 PROVE \E n \in 1 .. N : n - 1 = r
      <4>1. r + 1 \in 1 .. N /\ r + 1 - 1 = r
        <5>. HIDE DEF N
        <5>. QED
          BY <1>1
      <4>. QED
        BY <4>1
    <3>. HIDE DEF Rank, N
    <3>. QED
      BY <2>1, <3>1
  <2>3. order[n] \in D /\ Rank(order[n]) = n - 1
    BY <1>7, <2>2
  <2>. HIDE DEF Rank, N, D
  <2>. QED
    BY <1>5, <2>2, <2>3
<1>. QED
  BY <1>1, <1>8, <1>9, <1>10

-----------------------------------------------------------------------------
(* Ranges and the bytes they stand for.                                     *)

\* A range that holds something and stays inside the address space, whatever
\* else is known of it.
Lies(r) == r.base \in Addr /\ r.len \in Addr \ {0} /\ Top(r) <= AddrLimit

LEMMA Disjoint ==
  ASSUME NEW r, NEW s, Lies(r), Lies(s), Bytes(r) \cap Bytes(s) = {}
  PROVE  ApartFrom(r, s)
<1>1. /\ r.base \in Nat /\ r.len \in Nat \ {0} /\ r.base + r.len <= AddrLimit
      /\ s.base \in Nat /\ s.len \in Nat \ {0} /\ s.base + s.len <= AddrLimit
      /\ AddrLimit \in Nat
      /\ r.base \in Addr /\ s.base \in Addr
  BY AddressSpace DEF Lies, Addr, Top
<1>2. SUFFICES ASSUME ~ApartFrom(r, s) PROVE FALSE
  OBVIOUS
<1>3. s.base < r.base + r.len /\ r.base < s.base + s.len
  BY <1>1, <1>2 DEF ApartFrom, Top
<1>4. CASE r.base <= s.base
  <2>1. s.base \in Bytes(r) /\ s.base \in Bytes(s)
    BY <1>1, <1>3, <1>4 DEF Bytes
  <2>. QED
    BY <2>1
<1>5. CASE s.base < r.base
  <2>1. r.base \in Bytes(r) /\ r.base \in Bytes(s)
    BY <1>1, <1>3, <1>5 DEF Bytes
  <2>. QED
    BY <2>1
<1>. QED
  BY <1>1, <1>4, <1>5

\* Ranges apart share no byte.
LEMMA SharedByte ==
  ASSUME NEW r, NEW s, Lies(r), Lies(s), ApartFrom(r, s), NEW a, a \in Bytes(r)
  PROVE  a \notin Bytes(s)
<1>1. /\ r.base \in Nat /\ r.len \in Nat /\ s.base \in Nat /\ s.len \in Nat
      /\ Bytes(r) \subseteq Nat
  BY AddressSpace DEF Lies, Addr, Bytes
<1>. QED
  BY <1>1 DEF ApartFrom, Top, Bytes

\* What a table holds of one piece, one entry holds: entries do not touch.
LEMMA Contained ==
  ASSUME NEW t, GoodTable(t), NEW r, Lies(r), Bytes(r) \subseteq TableBytes(t)
  PROVE  \E i \in 1 .. Len(t) : Within(r, t[i])
<1>1. /\ r.base \in Nat /\ r.len \in Nat \ {0} /\ r.base + r.len <= AddrLimit
      /\ AddrLimit \in Nat /\ r.base \in Addr /\ Addr = 0 .. AddrLimit - 1
  BY AddressSpace DEF Lies, Addr, Top
<1>2. \A a \in TableBytes(t) : \E i \in 1 .. Len(t) : a \in Bytes(t[i])
  BY DEF TableBytes
<1>3. \A i \in 1 .. Len(t) :
        /\ t[i].base \in Nat /\ Top(t[i]) \in Nat
        /\ \A a \in Bytes(t[i]) : t[i].base <= a /\ a < Top(t[i])
  BY GoodEntries DEF Bytes, Top
<1>4. r.base \in Bytes(r)
  BY <1>1 DEF Bytes
<1>5. PICK i \in 1 .. Len(t) : r.base \in Bytes(t[i])
  BY <1>2, <1>4
<1>6. t[i].base <= r.base /\ r.base < Top(t[i])
  BY <1>3, <1>5
<1>7. SUFFICES ASSUME ~(r.base + r.len <= Top(t[i])) PROVE FALSE
  BY <1>6 DEF Within, Top
<1>8. Top(t[i]) \in Bytes(r)
  <2>1. /\ Top(t[i]) \in Nat /\ r.base <= Top(t[i])
        /\ Top(t[i]) < r.base + r.len /\ Top(t[i]) < AddrLimit
    BY <1>1, <1>3, <1>6, <1>7
  <2>. QED
    BY <1>1, <2>1 DEF Bytes
<1>9. PICK j \in 1 .. Len(t) : Top(t[i]) \in Bytes(t[j])
  BY <1>2, <1>8
<1>10. t[j].base <= Top(t[i]) /\ Top(t[i]) < Top(t[j])
  BY <1>3, <1>9
<1>11. i # j /\ i \in Nat /\ j \in Nat
  BY <1>10, <1>3
<1>12. CASE i < j
  <2>1. Top(t[i]) < t[j].base
    BY <1>12, GoodEntries
  <2>. QED
    BY <1>3, <1>10, <2>1
<1>13. CASE j < i
  <2>1. Top(t[j]) < t[i].base /\ t[i].base < Top(t[i])
    BY <1>13, GoodEntries
  <2>. QED
    BY <1>3, <1>10, <2>1
<1>. QED
  BY <1>11, <1>12, <1>13

-----------------------------------------------------------------------------
(* Calls that enter a range in the table.                                   *)

\* A range that leaves nothing free shows as the one entry [0, 0].
LEMMA Covering ==
  ASSUME NEW t, NEW r, GoodTable(t), Good(r), Len(t) <= MaxAllocs,
         TableBytes(t) \cup Bytes(r) = Addr, Commit(t, r).status = "SUCCESS"
  PROVE  Covered(Commit(t, r))
<1>. DEFINE idx   == InsertionPoint(t, r)
            limit == MergeLimit(t, r, idx)
<1>1. /\ idx \in 1 .. Len(t) + 1 /\ limit \in idx .. Len(t) + 1
      /\ \A n \in 1 .. idx - 1 : Top(t[n]) < r.base
      /\ \A n \in limit .. Len(t) : Top(r) < t[n].base
      /\ \A n \in idx .. limit - 1 : r.base <= Top(t[n]) /\ t[n].base <= Top(r)
  BY Placement
<1>. HIDE DEF idx, limit
<1>2. /\ AddrLimit \in Nat \ {0, 1} /\ Addr = 0 .. AddrLimit - 1 /\ Len(t) \in Nat
      /\ r.base \in 0 .. AddrLimit - 1 /\ r.len \in 1 .. AddrLimit - 1
      /\ Top(r) = r.base + r.len /\ Top(r) \in 1 .. AddrLimit
      /\ \A a \in Bytes(r) : r.base <= a /\ a < Top(r)
  BY AddressSpace, GoodEntries DEF Good, AddrRange, Addr, Top, Bytes
<1>3. \A n \in 1 .. Len(t) :
        /\ t[n].base \in 0 .. AddrLimit - 1 /\ Top(t[n]) \in 1 .. AddrLimit
        /\ t[n].base < Top(t[n]) /\ Good(t[n])
        /\ \A a \in Bytes(t[n]) : t[n].base <= a /\ a < Top(t[n])
  BY GoodEntries DEF Bytes, Top
<1>4. \A a \in Addr : a \in Bytes(r) \/ \E n \in 1 .. Len(t) : a \in Bytes(t[n])
  BY DEF TableBytes
<1>5. idx = 1
  <2>1. SUFFICES ASSUME idx # 1 PROVE FALSE
    OBVIOUS
  <2>2. idx - 1 \in 1 .. Len(t) /\ idx - 1 \in 1 .. idx - 1
    BY <1>1, <1>2, <2>1
  <2>3. PICK k \in 1 .. Len(t) : k = idx - 1
    BY <2>2
  <2>4. Top(t[k]) < r.base
    BY <1>1, <2>2, <2>3
  <2>5. Top(t[k]) \in Addr /\ Top(t[k]) \notin Bytes(r)
    BY <1>2, <1>3, <2>4
  <2>6. PICK n \in 1 .. Len(t) : Top(t[k]) \in Bytes(t[n])
    BY <1>4, <2>5
  <2>7. t[n].base <= Top(t[k]) /\ Top(t[k]) < Top(t[n])
    BY <1>3, <2>6
  <2>8. n < k => Top(t[n]) < t[k].base
    BY GoodEntries
  <2>9. k < n => Top(t[k]) < t[n].base
    BY GoodEntries
  <2>10. n # k /\ ~(k < n) /\ ~(n < k)
    BY <1>3, <2>7, <2>8, <2>9
  <2>. QED
    BY <2>10
<1>6. limit = Len(t) + 1
  <2>1. SUFFICES ASSUME limit # Len(t) + 1 PROVE FALSE
    OBVIOUS
  <2>2. limit \in 1 .. Len(t) /\ limit \in limit .. Len(t)
    BY <1>1, <1>2, <2>1
  <2>3. Top(r) < t[limit].base
    BY <1>1, <2>2
  <2>4. Top(r) \in Addr /\ Top(r) \notin Bytes(r)
    BY <1>2, <1>3, <2>2, <2>3
  <2>5. PICK n \in 1 .. Len(t) : Top(r) \in Bytes(t[n])
    BY <1>4, <2>4
  <2>6. t[n].base <= Top(r) /\ Top(r) < Top(t[n])
    BY <1>3, <2>5
  <2>7. n \in 1 .. limit - 1 \/ n \in limit .. Len(t)
    BY <1>2, <2>2
  <2>8. n < limit => Top(t[n]) < t[limit].base
    BY <2>2, GoodEntries
  <2>9. CASE n \in 1 .. limit - 1
    <3>1. r.base <= Top(t[n]) /\ t[n].base <= Top(r)
      BY <1>1, <1>5, <2>9
    <3>2. Top(t[n]) < t[limit].base /\ n < limit
      BY <1>2, <2>2, <2>8, <2>9
    <3>3. Top(t[n]) \in Addr
      BY <1>2, <1>3, <2>2, <3>2
    <3>4. Top(t[n]) \notin Bytes(r)
      BY <1>2, <1>3, <2>6
    <3>5. PICK m \in 1 .. Len(t) : Top(t[n]) \in Bytes(t[m])
      BY <1>4, <3>3, <3>4
    <3>6. t[m].base <= Top(t[n]) /\ Top(t[n]) < Top(t[m])
      BY <1>3, <3>5
    <3>7. m < n => Top(t[m]) < t[n].base
      BY GoodEntries
    <3>8. n < m => Top(t[n]) < t[m].base
      BY GoodEntries
    <3>9. m # n /\ ~(m < n) /\ ~(n < m)
      BY <1>3, <3>6, <3>7, <3>8
    <3>. QED
      BY <3>9
  <2>10. CASE n \in limit .. Len(t)
    <3>1. Top(r) < t[n].base
      BY <1>1, <2>10
    <3>. QED
      BY <1>2, <1>3, <2>6, <3>1
  <2>. QED
    BY <2>7, <2>9, <2>10
<1>7. Len(t) # 0
  <2>1. SUFFICES ASSUME Len(t) = 0 PROVE FALSE
    OBVIOUS
  <2>2. 0 \in Addr /\ AddrLimit - 1 \in Addr
    BY <1>2
  <2>3. 0 \in Bytes(r) /\ AddrLimit - 1 \in Bytes(r)
    BY <1>4, <2>1, <2>2
  <2>. QED
    BY <1>2, <2>3
<1>8. limit - idx = Len(t) /\ 1 \in 1 .. Len(t) /\ Len(t) \in 1 .. Len(t)
  BY <1>2, <1>5, <1>6, <1>7
<1>. DEFINE m == MergedRange(t, r, 1, Len(t))
<1>9. \A n \in 1 .. Len(t) : t[1].base <= t[n].base /\ Top(t[n]) <= Top(t[Len(t)])
  <2>. SUFFICES ASSUME NEW n \in 1 .. Len(t)
                PROVE  t[1].base <= t[n].base /\ Top(t[n]) <= Top(t[Len(t)])
    OBVIOUS
  <2>1. 1 < n => Top(t[1]) < t[n].base
    BY <1>8, GoodEntries
  <2>2. n < Len(t) => Top(t[n]) < t[Len(t)].base
    BY <1>8, GoodEntries
  <2>3. /\ 1 = n \/ 1 < n
        /\ n = Len(t) \/ n < Len(t)
    BY <1>2
  <2>4. t[1].base <= t[n].base
    BY <1>3, <1>8, <2>1, <2>3
  <2>5. Top(t[n]) <= Top(t[Len(t)])
    BY <1>3, <1>8, <2>2, <2>3
  <2>. QED
    BY <2>4, <2>5
<1>10. r.base = 0 \/ t[1].base = 0
  <2>1. 0 \in Addr
    BY <1>2
  <2>2. CASE 0 \in Bytes(r)
    BY <1>2, <2>2
  <2>3. CASE \E n \in 1 .. Len(t) : 0 \in Bytes(t[n])
    <3>1. PICK n \in 1 .. Len(t) : 0 \in Bytes(t[n])
      BY <2>3
    <3>2. t[n].base <= 0 /\ t[n].base \in 0 .. AddrLimit - 1
      BY <1>3, <3>1
    <3>3. t[1].base <= t[n].base /\ t[1].base \in 0 .. AddrLimit - 1
      BY <1>3, <1>8, <1>9
    <3>. QED
      BY <1>2, <3>2, <3>3
  <2>. QED
    BY <1>4, <2>1, <2>2, <2>3
<1>11. Top(r) = AddrLimit \/ Top(t[Len(t)]) = AddrLimit
  <2>1. AddrLimit - 1 \in Addr
    BY <1>2
  <2>2. CASE AddrLimit - 1 \in Bytes(r)
    BY <1>2, <2>2
  <2>3. CASE \E n \in 1 .. Len(t) : AddrLimit - 1 \in Bytes(t[n])
    <3>1. PICK n \in 1 .. Len(t) : AddrLimit - 1 \in Bytes(t[n])
      BY <2>3
    <3>2. Top(t[n]) = AddrLimit
      <4>1. AddrLimit - 1 < Top(t[n]) /\ Top(t[n]) \in 1 .. AddrLimit
        BY <1>3, <3>1
      <4>. QED
        BY <1>2, <4>1
    <3>. QED
      BY <1>2, <1>3, <1>8, <1>9, <3>2
  <2>. QED
    BY <1>4, <2>1, <2>2, <2>3
<1>12. m = Request(0, 0)
  <2>1. Overflows(r) \/ Overflows(t[Len(t)])
    BY <1>3, <1>8, <1>11, Ends
  <2>2. (IF r.base <= t[1].base THEN r.base ELSE t[1].base) = 0
    BY <1>2, <1>3, <1>8, <1>10
  <2>3. Wrap(0 - 0) = 0
    BY <1>2, WrapSmall
  <2>. QED
    BY <2>1, <2>2, <2>3 DEF MergedRange, Request
<1>13. Splice(t, 1, Len(t) + 1, m) = <<m>>
  <2>1. Len(t) - (Len(t) + 1 - 1) + 1 = 1
    BY <1>2
  <2>. HIDE DEF m
  <2>2. Splice(t, 1, Len(t) + 1, m) = [n \in 1 .. 1 |-> m]
    BY <1>2, <2>1 DEF Splice
  <2>. QED
    BY <2>2
<1>14. alloc_add(t, r) = [status |-> "SUCCESS", table |-> <<m>>]
  <2>1. limit - 1 = Len(t)
    BY <1>2, <1>6
  <2>2. limit - idx # 0
    BY <1>7, <1>8
  <2>. HIDE DEF m
  <2>3. MergedRange(t, r, idx, limit - 1) = m
    BY <1>5, <2>1 DEF m
  <2>4. Splice(t, idx, limit, m) = <<m>>
    BY <1>5, <1>6, <1>13
  <2>. QED
    BY <2>2, <2>3, <2>4 DEF alloc_add, idx, limit
<1>. QED
  <2>. HIDE DEF m
  <2>. QED
    BY <1>12, <1>14 DEF Commit, Covered

-----------------------------------------------------------------------------
(* blacklist_runtime_mem, once and for a list of ranges.                    *)

Tidy(t) == GoodTable(t) /\ Len(t) <= MaxAllocs

\* The outcome of a call that gives nothing back.
Adds(result, t) ==
  /\ result.status \in {"SUCCESS", "OUT_OF_RESOURCES"}
  /\ Tidy(result.table) /\ TableBytes(t) \subseteq TableBytes(result.table)

LEMMA Entering ==
  ASSUME NEW t, NEW r, Tidy(t), Good(r), NEW x, x = Commit(t, r)
  PROVE  \/ Covered(x) /\ x.status = "SUCCESS"
         \/ Takes(x, t, r)
         \/ Refuses(x, t)
<1>1. CASE x.status = "SUCCESS" /\ TableBytes(t) \cup Bytes(r) = Addr
  BY <1>1, Covering DEF Tidy
<1>2. CASE x.status = "SUCCESS" => TableBytes(t) \cup Bytes(r) # Addr
  BY <1>2, Committing DEF Tidy
<1>. QED
  BY <1>1, <1>2

\* A request of which rounding out to pages makes a range.
Pageable(r) ==
  /\ r \in AddrRange
  /\ r.len > 0 => Top(r) <= AddrLimit /\ PageRange(r.base, r.len).len > 0

\* What rounding out to pages makes of a range: all that shares a page with it.
Touched(r) == {a \in Addr : \E b \in Bytes(r) : PAGE_ADDR(a) = PAGE_ADDR(b)}

LEMMA PagesTouched ==
  ASSUME NEW r, Pageable(r), r.len > 0
  PROVE  Bytes(PageRange(r.base, r.len)) \subseteq Touched(r)
<1>. PICK pages : pages = PageRange(r.base, r.len)
  OBVIOUS
<1>1. r.base \in Addr /\ r.len \in Addr /\ r.base + r.len <= AddrLimit /\ pages.len > 0
  BY DEF Pageable, AddrRange, Top
<1>2. /\ Good(pages) /\ Top(pages) \in Nat /\ Top(pages) % PageSize = 0
      /\ Top(pages) < r.base + r.len + PageSize
  BY <1>1, Paging
<1>3. /\ Addr = 0 .. AddrLimit - 1 /\ AddrLimit \in Nat /\ PageSize \in Nat \ {0}
      /\ r.base \in Nat /\ r.len \in Nat \ {0} /\ pages.base = PAGE_ADDR(r.base)
      /\ Top(pages) = pages.base + pages.len
  BY <1>1, AddressSpace DEF Addr, PageRange, Top
<1>. SUFFICES ASSUME NEW a \in Addr, pages.base <= a, a < Top(pages)
              PROVE  \E b \in Bytes(r) : PAGE_ADDR(a) = PAGE_ADDR(b)
  BY <1>3 DEF Bytes, Touched
<1>4. a \in Nat
  BY <1>3
<1>. PICK p : p = PAGE_ADDR(a)
  OBVIOUS
<1>. PICK q : q = PAGE_ADDR(r.base)
  OBVIOUS
<1>5. p \in Nat /\ p % PageSize = 0 /\ p <= a /\ a < p + PageSize
  BY <1>4, PageOf
<1>6. q \in Nat /\ q % PageSize = 0 /\ q <= r.base /\ r.base < q + PageSize
  BY <1>3, PageOf
<1>7. CASE p = q
  <2>1. r.base \in Bytes(r)
    BY <1>1, <1>3 DEF Bytes
  <2>. QED
    BY <1>7, <2>1
<1>8. CASE p # q
  <2>1. q <= a
    BY <1>3
  <2>2. q < p
    <3>1. SUFFICES ASSUME p < q PROVE FALSE
      BY <1>5, <1>6, <1>8
    <3>2. p + PageSize <= q
      BY <1>5, <1>6, <3>1, PagesStep
    <3>. QED
      BY <1>3, <1>4, <1>5, <1>6, <2>1, <3>2
  <2>3. q + PageSize <= p
    BY <1>5, <1>6, <2>2, PagesStep
  <2>4. p + PageSize <= Top(pages)
    <3>1. p < Top(pages)
      BY <1>2, <1>4, <1>5
    <3>. QED
      BY <1>2, <1>5, <3>1, PagesStep
  <2>5. r.base <= p /\ p < r.base + r.len
    BY <1>2, <1>3, <1>5, <1>6, <2>3, <2>4
  <2>6. p \in Bytes(r)
    BY <1>1, <1>3, <1>5, <2>5 DEF Bytes
  <2>7. PAGE_ADDR(p) = p
    BY <1>3, <1>5, PageOf
  <2>. QED
    BY <2>6, <2>7
<1>. QED
  BY <1>7, <1>8

\* Everything the table holds now, it held, or the first n requests are for.
OnlyAdds(x, t, rs, n) ==
  \A a \in TableBytes(x.table) :
    a \in TableBytes(t) \/ \E i \in 1 .. n : a \in Touched(rs[i])

LEMMA BlacklistingOne ==
  ASSUME NEW t, NEW r, Tidy(t), Pageable(r), r.len > 0,
         NEW x, x = blacklist_runtime_mem(t, r.base, r.len)
  PROVE  \/ Covered(x) /\ x.status = "SUCCESS"
         \/ /\ Adds(x, t)
            /\ x.status = "SUCCESS" => Bytes(r) \subseteq TableBytes(x.table)
            /\ TableBytes(x.table) \subseteq TableBytes(t) \cup Touched(r)
<1>. DEFINE pages == PageRange(r.base, r.len)
<1>1. r.base \in Addr /\ r.len \in Addr /\ r.base + r.len <= AddrLimit /\ pages.len > 0
  BY DEF Pageable, AddrRange, Top
<1>2. Good(pages) /\ pages.base <= r.base /\ r.base + r.len <= Top(pages)
  <2>. HIDE DEF pages
  <2>1. pages = PageRange(r.base, r.len)
    BY DEF pages
  <2>. QED
    BY <1>1, <2>1, Paging
<1>3. x = Commit(t, [base |-> pages.base, len |-> pages.len])
  BY <1>1 DEF blacklist_runtime_mem, alloc
<1>4. pages = [base |-> pages.base, len |-> pages.len]
  BY DEF PageRange
<1>5. Bytes(r) \subseteq Bytes(pages)
  <2>1. /\ pages.base \in Nat /\ pages.base + pages.len \in Nat
        /\ r.base \in Nat /\ r.base + r.len \in Nat /\ Addr \subseteq Nat
    <3>. HIDE DEF pages
    <3>. QED
      BY <1>1, <1>2, AddressSpace DEF Good, AddrRange, Addr
  <2>2. r.base + r.len <= pages.base + pages.len
    BY <1>2 DEF Top
  <2>. HIDE DEF pages
  <2>3. ASSUME NEW a \in Addr, r.base <= a, a < r.base + r.len
        PROVE  pages.base <= a /\ a < pages.base + pages.len
    <3>1. a \in Nat
      BY <2>1
    <3>. QED
      BY <1>2, <2>1, <2>2, <2>3, <3>1
  <2>. QED
    BY <2>3 DEF Bytes
<1>10. Bytes(pages) \subseteq Touched(r)
  BY PagesTouched
<1>. HIDE DEF pages
<1>6. \/ Covered(x) /\ x.status = "SUCCESS"
      \/ Takes(x, t, pages)
      \/ Refuses(x, t)
  BY <1>2, <1>3, <1>4, Entering
<1>7. CASE Takes(x, t, pages)
  BY <1>5, <1>7, <1>10 DEF Takes, Adds, Tidy
<1>8. CASE Refuses(x, t)
  BY <1>8 DEF Refuses, Adds
<1>. QED
  BY <1>6, <1>7, <1>8

\* The outcome of a list of them: what the table holds once all are done.
LEMMA Blacklisting ==
  ASSUME NEW t, Tidy(t) \/ t = <<Request(0, 0)>>, NEW rs, Len(rs) \in Nat,
         \A i \in 1 .. Len(rs) : Pageable(rs[i]),
         NEW x, x = BlacklistAll(t, rs)
  PROVE  \/ Covered(x)
         \/ /\ Tidy(t) /\ Adds(x, t)
            /\ x.status = "SUCCESS" =>
                 \A i \in 1 .. Len(rs) : Bytes(rs[i]) \subseteq TableBytes(x.table)
            /\ OnlyAdds(x, t, rs, Len(rs))
<1>. DEFINE N == Len(rs)
            start == [status |-> "SUCCESS", addr |-> 0, table |-> t]
            Upto(f, k) ==
              /\ f = [n \in 0 .. k |-> f[n]]
              /\ \A n \in 0 .. k :
                   f[n] = IF n = 0 THEN start ELSE AlsoBlacklist(f[n - 1], rs[n])
            Begun == {k \in 0 .. N : \E f : Upto(f, k)}
<1>1. 0 .. N \subseteq Begun
  <2>1. 0 \in Begun
    <3>. DEFINE f == [n \in 0 .. 0 |-> start]
    <3>1. Upto(f, 0)
      OBVIOUS
    <3>2. 0 \in 0 .. N
      OBVIOUS
    <3>. HIDE DEF f, Upto, N
    <3>. QED
      BY <3>1, <3>2
  <2>2. ASSUME NEW k \in 0 .. N - 1, k \in Begun PROVE k + 1 \in Begun
    <3>1. PICK f : Upto(f, k)
      BY <2>2
    <3>. DEFINE g == [n \in 0 .. k + 1 |->
                        IF n = k + 1 THEN AlsoBlacklist(f[k], rs[k + 1]) ELSE f[n]]
    <3>2. Upto(g, k + 1)
      <4>1. g = [n \in 0 .. k + 1 |-> g[n]]
        OBVIOUS
      <4>2. ASSUME NEW n \in 0 .. k + 1
            PROVE  g[n] = IF n = 0 THEN start ELSE AlsoBlacklist(g[n - 1], rs[n])
        <5>1. CASE n = k + 1
          <6>1. k \in 0 .. k + 1 /\ k # k + 1 /\ n # 0 /\ n - 1 = k
            BY <5>1
          <6>2. g[k] = f[k] /\ g[n] = AlsoBlacklist(f[k], rs[k + 1])
            BY <5>1, <6>1
          <6>. QED
            BY <5>1, <6>1, <6>2
        <5>2. CASE n # k + 1
          <6>1. n \in 0 .. k /\ (n # 0 => n - 1 \in 0 .. k + 1 /\ n - 1 # k + 1)
            BY <5>2
          <6>. QED
            BY <3>1, <5>2, <6>1
        <5>. QED
          BY <5>1, <5>2
      <4>. HIDE DEF g, start
      <4>. QED
        BY <4>1, <4>2
    <3>3. k + 1 \in 0 .. N
      BY <2>2
    <3>. HIDE DEF g, Upto
    <3>. QED
      BY <3>2, <3>3
  <2>. HIDE DEF Begun
  <2>. QED
    BY <2>1, <2>2, Climbing
<1>. DEFINE Rec(f) == f = [n \in 0 .. N |->
                             IF n = 0 THEN start ELSE AlsoBlacklist(f[n - 1], rs[n])]
<1>2. PICK f : Rec(f)
  <2>1. N \in Begun
    <3>1. N \in 0 .. N
      OBVIOUS
    <3>. HIDE DEF Begun, N
    <3>. QED
      BY <1>1, <3>1
  <2>2. PICK h : Upto(h, N)
    BY <2>1
  <2>3. Rec(h)
    <3>. HIDE DEF start, N
    <3>. QED
      BY <2>2
  <2>. HIDE DEF Rec
  <2>. QED
    BY <2>3
<1>. DEFINE after == CHOOSE h : Rec(h)
<1>3. Rec(after)
  <2>. HIDE DEF Rec
  <2>. QED
    BY <1>2
<1>4. x = after[N]
  BY DEF BlacklistAll
<1>5. /\ after[0] = start
      /\ \A n \in 1 .. N : after[n] = AlsoBlacklist(after[n - 1], rs[n])
  <2>. HIDE DEF after, start
  <2>. QED
    BY <1>3
<1>. HIDE DEF after, start
<1>. DEFINE Done(n) ==
              \/ Covered(after[n])
              \/ /\ Tidy(t) /\ Adds(after[n], t)
                 /\ after[n].status = "SUCCESS" =>
                      \A i \in 1 .. n : Bytes(rs[i]) \subseteq TableBytes(after[n].table)
                 /\ OnlyAdds(after[n], t, rs, n)
            S == {n \in 0 .. N : Done(n)}
<1>6. 0 .. N \subseteq S
  <2>1. 0 \in S
    <3>1. CASE Tidy(t)
      <4>1. Adds(start, t)
        BY <3>1 DEF Adds, start
      <4>2. OnlyAdds(start, t, rs, 0)
        BY DEF OnlyAdds, start
      <4>. QED
        BY <1>5, <3>1, <4>1, <4>2
    <3>2. CASE t = <<Request(0, 0)>>
      BY <1>5, <3>2 DEF Covered, start
    <3>. QED
      BY <3>1, <3>2
  <2>2. ASSUME NEW n \in 0 .. N - 1, n \in S PROVE n + 1 \in S
    <3>. DEFINE y == after[n]
                z == after[n + 1]
    <3>1. n + 1 \in 1 .. N /\ n + 1 - 1 = n /\ n + 1 \in 0 .. N
      BY <2>2
    <3>2. z = AlsoBlacklist(y, rs[n + 1])
      BY <1>5, <3>1
    <3>3. Done(n)
      BY <2>2
    <3>. HIDE DEF y, z
    <3>4. Done(n + 1)
      <4>1. CASE Covered(y)
        <5>1. z = y
          BY <3>2, <4>1 DEF AlsoBlacklist
        <5>. QED
          BY <4>1, <5>1 DEF y, z
      <4>2. CASE ~Covered(y)
        <5>1. /\ Tidy(t) /\ Adds(y, t)
              /\ y.status = "SUCCESS" =>
                   \A i \in 1 .. n : Bytes(rs[i]) \subseteq TableBytes(y.table)
              /\ OnlyAdds(y, t, rs, n)
          BY <3>3, <4>2 DEF y
        <5>4. 1 .. n \subseteq 1 .. n + 1 /\ n + 1 \in 1 .. n + 1
          BY <3>1
        <5>5. OnlyAdds(y, t, rs, n + 1)
          BY <5>1, <5>4 DEF OnlyAdds
        <5>2. CASE y.status # "SUCCESS"
          <6>1. z = y
            BY <3>2, <5>2 DEF AlsoBlacklist
          <6>. QED
            BY <5>1, <5>2, <5>5, <6>1 DEF y, z
        <5>3. CASE y.status = "SUCCESS" /\ rs[n + 1].len = 0
          <6>1. z = y
            BY <3>2, <5>3 DEF AlsoBlacklist
          <6>2. Bytes(rs[n + 1]) = {}
            <7>1. PICK r : r = rs[n + 1]
              OBVIOUS
            <7>2. r.base \in Nat /\ Addr \subseteq Nat /\ r.len = 0
              BY <3>1, <5>3, <7>1, AddressSpace DEF Pageable, AddrRange, Addr
            <7>3. \A a \in Nat : ~(r.base <= a /\ a < r.base + r.len)
              BY <7>2
            <7>. QED
              BY <7>1, <7>2, <7>3 DEF Bytes
          <6>3. \A i \in 1 .. n + 1 : i \in 1 .. n \/ i = n + 1
            BY <3>1
          <6>4. \A i \in 1 .. n + 1 : Bytes(rs[i]) \subseteq TableBytes(z.table)
            BY <5>1, <5>3, <6>1, <6>2, <6>3
          <6>. QED
            BY <5>1, <5>5, <6>1, <6>4 DEF z
        <5>6. CASE y.status = "SUCCESS" /\ rs[n + 1].len # 0
          <6>. DEFINE r == rs[n + 1]
          <6>1. z = blacklist_runtime_mem(y.table, r.base, r.len)
            BY <3>2, <4>2, <5>6 DEF AlsoBlacklist
          <6>2. Pageable(r) /\ r.len > 0
            <7>1. Pageable(r)
              BY <3>1
            <7>2. r.len \in Nat
              <8>. HIDE DEF r
              <8>. QED
                BY <7>1, AddressSpace DEF Pageable, AddrRange, Addr
            <7>. QED
              BY <5>6, <7>1, <7>2
          <6>. HIDE DEF r
          <6>3. Tidy(y.table)
            BY <5>1 DEF Adds
          <6>4. \/ Covered(z)
                \/ /\ Adds(z, y.table)
                   /\ z.status = "SUCCESS" => Bytes(r) \subseteq TableBytes(z.table)
                   /\ TableBytes(z.table) \subseteq TableBytes(y.table) \cup Touched(r)
            BY <6>1, <6>2, <6>3, BlacklistingOne
          <6>5. CASE Covered(z)
            BY <6>5 DEF z
          <6>6. CASE /\ Adds(z, y.table)
                     /\ z.status = "SUCCESS" => Bytes(r) \subseteq TableBytes(z.table)
                     /\ TableBytes(z.table) \subseteq TableBytes(y.table) \cup Touched(r)
            <7>1. Adds(z, t)
              BY <5>1, <6>6 DEF Adds
            <7>2. \A i \in 1 .. n + 1 : i \in 1 .. n \/ i = n + 1
              BY <3>1
            <7>3. ASSUME z.status = "SUCCESS", NEW i \in 1 .. n + 1
                  PROVE  Bytes(rs[i]) \subseteq TableBytes(z.table)
              <8>1. TableBytes(y.table) \subseteq TableBytes(z.table)
                BY <6>6 DEF Adds
              <8>2. CASE i = n + 1
                BY <6>6, <7>3, <8>2 DEF r
              <8>3. CASE i \in 1 .. n
                BY <5>1, <5>6, <8>1, <8>3
              <8>. QED
                BY <7>2, <8>2, <8>3
            <7>4. OnlyAdds(z, t, rs, n + 1)
              BY <5>4, <5>5, <6>6 DEF OnlyAdds, r
            <7>. QED
              BY <5>1, <7>1, <7>3, <7>4 DEF z
          <6>. QED
            BY <6>4, <6>5, <6>6
        <5>. QED
          BY <5>2, <5>3, <5>6
      <4>. QED
        BY <4>1, <4>2
    <3>. HIDE DEF Done
    <3>. QED
      BY <3>1, <3>4
  <2>. HIDE DEF S
  <2>. QED
    BY <2>1, <2>2, Climbing
<1>7. Done(N)
  <2>1. N \in 0 .. N
    OBVIOUS
  <2>2. N \in S
    <3>. HIDE DEF S, N
    <3>. QED
      BY <1>6, <2>1
  <2>. QED
    BY <2>2
<1>. QED
  BY <1>4, <1>7

-----------------------------------------------------------------------------
(* Rounding out to pages, short of the whole address space.                 *)

LEMMA PagesBelow ==
  ASSUME NEW addr \in Addr, NEW size \in Addr \ {0},
         size + (addr % PageSize) <= AddrLimit - PageSize
  PROVE  PageRange(addr, size).len > 0
<1>. DEFINE off == addr % PageSize
            d   == size + off
            w   == d + PageSize - 1
<1>1. /\ AddrLimit \in Nat \ {0, 1} /\ PageSize \in Nat \ {0} /\ Addr = 0 .. AddrLimit - 1
      /\ addr \in Nat /\ size \in 1 .. AddrLimit - 1
  BY AddressSpace DEF Addr
<1>2. off \in 0 .. PageSize - 1 /\ addr - (addr - off) = off
  BY <1>1, Division
<1>. HIDE DEF off
<1>3. d \in 1 .. AddrLimit - 1 /\ w \in PageSize .. AddrLimit - 1
  BY <1>1, <1>2 DEF off
<1>. HIDE DEF d
<1>4. Wrap(d) = d /\ Wrap(w) = w
  <2>1. d \in 0 .. AddrLimit - 1 /\ w \in 0 .. AddrLimit - 1
    BY <1>1, <1>3
  <2>. QED
    BY <2>1, WrapSmall
<1>5. PageRange(addr, size).len = PAGE_ALIGN_UP(Wrap(d))
  BY <1>2 DEF PageRange, PAGE_ADDR, off, d
<1>6. PAGE_ALIGN_UP(Wrap(d)) = w - (w % PageSize)
  BY <1>4 DEF PAGE_ALIGN_UP, PAGE_ADDR
<1>7. w % PageSize \in 0 .. PageSize - 1
  <2>1. w \in Nat
    BY <1>1, <1>3
  <2>. HIDE DEF w
  <2>. QED
    BY <1>1, <2>1, Division
<1>. HIDE DEF w
<1>. QED
  BY <1>1, <1>3, <1>5, <1>6, <1>7

LEMMA LowPageable ==
  ASSUME NEW r, r \in AddrRange, Top(r) <= AddrLimit - PageSize
  PROVE  Pageable(r)
<1>1. SUFFICES ASSUME r.len > 0 PROVE Top(r) <= AddrLimit /\ PageRange(r.base, r.len).len > 0
  BY DEF Pageable
<1>2. /\ AddrLimit \in Nat \ {0, 1} /\ PageSize \in Nat \ {0}
      /\ r.base \in Addr /\ r.len \in Addr \ {0} /\ r.base \in Nat /\ r.len \in Nat
  BY <1>1, AddressSpace DEF AddrRange, Addr
<1>3. r.base % PageSize \in Nat /\ r.base % PageSize <= r.base
  <2>1. /\ r.base = (r.base \div PageSize) * PageSize + (r.base % PageSize)
        /\ r.base % PageSize \in 0 .. PageSize - 1 /\ r.base \div PageSize \in Nat
    BY <1>2, Division
  <2>2. (r.base \div PageSize) * PageSize \in Nat
    BY <1>2, <2>1
  <2>. QED
    BY <1>2, <2>1, <2>2
<1>4. r.len + (r.base % PageSize) <= AddrLimit - PageSize
  BY <1>2, <1>3 DEF Top
<1>. QED
  BY <1>2, <1>4, PagesBelow DEF Top

\* What is above an address that is not in the first page.
LEMMA AbovePageable ==
  ASSUME NEW top \in PageSize .. AddrLimit - PageSize
  PROVE  Pageable(Request(top, AddrLimit - top))
<1>1. /\ AddrLimit \in Nat \ {0, 1} /\ PageSize \in Nat \ {0} /\ top \in Nat
      /\ top \in Addr /\ AddrLimit - top \in Addr \ {0}
  BY AddressSpace DEF Addr
<1>2. top - (top % PageSize) >= PageSize /\ top % PageSize \in Nat
  <2>1. /\ top = (top \div PageSize) * PageSize + (top % PageSize)
        /\ top % PageSize \in 0 .. PageSize - 1 /\ top \div PageSize \in Nat
    BY <1>1, Division
  <2>2. top \div PageSize # 0
    <3>1. SUFFICES ASSUME top \div PageSize = 0 PROVE FALSE
      OBVIOUS
    <3>2. 0 * PageSize = 0
      BY <1>1
    <3>3. top = 0 * PageSize + (top % PageSize)
      BY <2>1, <3>1
    <3>. QED
      BY <1>1, <2>1, <3>2, <3>3
  <2>3. PICK q \in Nat \ {0} : q = top \div PageSize
    BY <2>1, <2>2
  <2>4. q * PageSize >= PageSize /\ q * PageSize \in Nat
    BY <1>1
  <2>. QED
    BY <1>1, <2>1, <2>3, <2>4
<1>3. AddrLimit - top + (top % PageSize) <= AddrLimit - PageSize
  BY <1>1, <1>2
<1>. QED
  BY <1>1, <1>3, PagesBelow DEF Pageable, Request, AddrRange, Top

-----------------------------------------------------------------------------
(* e820_mmap_merge.                                                         *)

LEMMA MapEntries ==
  ASSUME NEW m, m \in Seq(MapEntry),
         \A i \in DOMAIN m : Top(m[i]) <= AddrLimit - PageSize
  PROVE  /\ Len(m) \in Nat /\ DOMAIN m = 1 .. Len(m)
         /\ \A i \in 1 .. Len(m) :
              /\ m[i] \in MapEntry /\ m[i].base \in Addr /\ m[i].len \in Addr \ {0}
              /\ m[i].base \in Nat /\ m[i].len \in Nat \ {0} /\ m[i].type \in Types
              /\ Top(m[i]) = m[i].base + m[i].len /\ Top(m[i]) \in Nat
              /\ m[i].base < Top(m[i]) /\ Top(m[i]) < AddrLimit
              /\ Top(m[i]) <= AddrLimit - PageSize
              /\ End(m[i]) = Top(m[i]) /\ ~Overflows(m[i])
<1>1. /\ AddrLimit \in Nat \ {0, 1} /\ PageSize \in Nat \ {0} /\ Addr = 0 .. AddrLimit - 1
      /\ Len(m) \in Nat /\ DOMAIN m = 1 .. Len(m)
  BY AddressSpace DEF Addr
<1>2. ASSUME NEW i \in 1 .. Len(m)
      PROVE  /\ m[i] \in MapEntry /\ m[i].base \in Addr /\ m[i].len \in Addr \ {0}
             /\ m[i].type \in Types /\ Top(m[i]) <= AddrLimit - PageSize
  <2>1. m[i] \in MapEntry /\ Top(m[i]) <= AddrLimit - PageSize
    BY <1>1
  <2>. QED
    BY <2>1 DEF MapEntry
<1>3. ASSUME NEW i \in 1 .. Len(m)
      PROVE  /\ m[i].base \in Nat /\ m[i].len \in Nat \ {0}
             /\ Top(m[i]) = m[i].base + m[i].len /\ Top(m[i]) \in Nat
             /\ m[i].base < Top(m[i]) /\ Top(m[i]) < AddrLimit
  BY <1>1, <1>2 DEF Top
<1>4. ASSUME NEW i \in 1 .. Len(m) PROVE End(m[i]) = Top(m[i]) /\ ~Overflows(m[i])
  <2>1. m[i].base + m[i].len \in 0 .. AddrLimit - 1
    BY <1>1, <1>3
  <2>2. End(m[i]) = m[i].base + m[i].len
    BY <2>1, WrapSmall DEF End
  <2>. QED
    BY <1>3, <2>2 DEF Overflows
<1>. QED
  BY <1>1, <1>2, <1>3, <1>4

\* The same entries, each of them once, in order.
InOrder(s, m) ==
  /\ s \in Seq(MapEntry)
  /\ \A i \in 1 .. Len(s) : \E j \in DOMAIN m : s[i] = m[j]
  /\ \A j \in DOMAIN m : \E i \in 1 .. Len(s) : s[i] = m[j]
  /\ \A i, j \in 1 .. Len(s) : i < j => s[i].base <= s[j].base
  /\ \A i, j \in 1 .. Len(s) :
       i < j => \E p, q \in DOMAIN m : p # q /\ s[i] = m[p] /\ s[j] = m[q]

LEMMA MapSorting ==
  ASSUME NEW m, FirmwareMap(m), NEW s, s = SortedByBase(m)
  PROVE  InOrder(s, m)
<1>. DEFINE key   == [i \in DOMAIN m |-> m[i].base]
            order == bubble_sort(key)
            N     == Len(m)
<1>1. /\ N \in Nat /\ DOMAIN m = 1 .. N
      /\ \A i \in 1 .. N : m[i] \in MapEntry /\ m[i].base \in Nat
  BY MapEntries DEF FirmwareMap
<1>2. /\ DOMAIN key = 1 .. N /\ \A i \in 1 .. N : key[i] = m[i].base
  BY <1>1
<1>3. IsFiniteSet(1 .. N) /\ Cardinality(1 .. N) = N
  <2>1. 1 \in Int /\ N \in Int
    BY <1>1
  <2>2. IsFiniteSet(1 .. N) /\ Cardinality(1 .. N) = IF 1 > N THEN 0 ELSE N - 1 + 1
    <3>. HIDE DEF N
    <3>. QED
      BY <2>1, FS_Interval
  <2>. HIDE DEF N
  <2>. QED
    BY <1>1, <2>2
<1>4. /\ order \in [1 .. N -> 1 .. N]
      /\ \A a, b \in 1 .. N :
           a < b => Before(key, order[a], order[b]) /\ order[a] # order[b]
      /\ \A i \in 1 .. N : \E a \in 1 .. N : order[a] = i
  <2>1. /\ IsFiniteSet(DOMAIN key) /\ DOMAIN key \subseteq Nat
        /\ \A i \in DOMAIN key : key[i] \in Nat
    <3>1. 1 .. N \subseteq Nat
      OBVIOUS
    <3>. HIDE DEF N, key
    <3>. QED
      BY <1>1, <1>2, <1>3, <3>1
  <2>. HIDE DEF N, key
  <2>2. order = bubble_sort(key)
    BY DEF order
  <2>. HIDE DEF order
  <2>3. /\ order \in [1 .. Cardinality(DOMAIN key) -> DOMAIN key]
        /\ \A a, b \in 1 .. Cardinality(DOMAIN key) :
             a < b => Before(key, order[a], order[b]) /\ order[a] # order[b]
        /\ \A i \in DOMAIN key :
             \E a \in 1 .. Cardinality(DOMAIN key) : order[a] = i
    BY <2>1, <2>2, Ranking
  <2>4. DOMAIN key = 1 .. N /\ Cardinality(DOMAIN key) = N
    BY <1>2, <1>3
  <2>. QED
    BY <2>3, <2>4
<1>5. s = [n \in 1 .. N |-> m[order[n]]]
  <2>1. DOMAIN order = 1 .. N
    <3>. HIDE DEF order, N
    <3>. QED
      BY <1>4
  <2>. QED
    BY <2>1 DEF SortedByBase, Entries
<1>. HIDE DEF order, key
<1>6. s \in Seq(MapEntry) /\ Len(s) = N /\ DOMAIN s = 1 .. N
  <2>1. \A n \in 1 .. N : m[order[n]] \in MapEntry
    BY <1>1, <1>4
  <2>. HIDE DEF N
  <2>2. s \in [1 .. N -> MapEntry]
    BY <1>5, <2>1
  <2>. QED
    BY <1>1, <2>2
<1>7. ASSUME NEW i \in 1 .. N, NEW j \in 1 .. N, i < j PROVE s[i].base <= s[j].base
  <2>1. Before(key, order[i], order[j]) /\ order[i] \in 1 .. N /\ order[j] \in 1 .. N
    BY <1>4, <1>7
  <2>2. s[i].base = key[order[i]] /\ s[j].base = key[order[j]]
    BY <1>2, <1>5, <2>1
  <2>3. key[order[i]] \in Nat /\ key[order[j]] \in Nat
    BY <1>1, <1>2, <2>1
  <2>. QED
    BY <2>1, <2>2, <2>3 DEF Before
<1>. HIDE DEF N
<1>8. \A i \in 1 .. N : \E j \in 1 .. N : s[i] = m[j]
  BY <1>4, <1>5
<1>9. \A j \in 1 .. N : \E i \in 1 .. N : s[i] = m[j]
  BY <1>4, <1>5, SMTT(30)
<1>10. \A i, j \in 1 .. N :
         i < j => \E p, q \in 1 .. N : p # q /\ s[i] = m[p] /\ s[j] = m[q]
  <2>. SUFFICES ASSUME NEW i \in 1 .. N, NEW j \in 1 .. N, i < j
                PROVE  \E p, q \in 1 .. N : p # q /\ s[i] = m[p] /\ s[j] = m[q]
    OBVIOUS
  <2>1. order[i] \in 1 .. N /\ order[j] \in 1 .. N /\ order[i] # order[j]
    BY <1>4
  <2>2. s[i] = m[order[i]] /\ s[j] = m[order[j]]
    BY <1>5
  <2>. QED
    BY <2>1, <2>2
<1>11. DOMAIN m = 1 .. N /\ Len(s) = N /\ s \in Seq(MapEntry)
  BY <1>1, <1>6
<1>12. /\ \A i \in 1 .. Len(s) : \E j \in DOMAIN m : s[i] = m[j]
       /\ \A j \in DOMAIN m : \E i \in 1 .. Len(s) : s[i] = m[j]
       /\ \A i, j \in 1 .. Len(s) : i < j => s[i].base <= s[j].base
  BY <1>1, <1>6, <1>7, <1>8, <1>9 DEF N
<1>13. \A i, j \in 1 .. Len(s) :
         i < j => \E p, q \in DOMAIN m : p # q /\ s[i] = m[p] /\ s[j] = m[q]
  <2>. SUFFICES ASSUME NEW i \in 1 .. Len(s), NEW j \in 1 .. Len(s), i < j
                PROVE  \E p, q \in DOMAIN m : p # q /\ s[i] = m[p] /\ s[j] = m[q]
    OBVIOUS
  <2>1. i \in 1 .. N /\ j \in 1 .. N
    BY <1>11
  <2>2. PICK p \in 1 .. N, q \in 1 .. N : p # q /\ s[i] = m[p] /\ s[j] = m[q]
    BY <1>10, <2>1
  <2>3. p \in DOMAIN m /\ q \in DOMAIN m
    BY <1>11
  <2>. QED
    BY <2>2, <2>3
<1>. QED
  BY <1>11, <1>12, <1>13, Zenon DEF InOrder

\* A map in order, with its entries as the firmware had them.
SortedMap(s) ==
  /\ s \in Seq(MapEntry) /\ s # << >>
  /\ \A i \in DOMAIN s : Top(s[i]) <= AddrLimit - PageSize
  /\ \A i, j \in DOMAIN s : i < j => s[i].base <= s[j].base
  /\ \A i, j \in DOMAIN s : s[i].type # s[j].type => ApartFrom(s[i], s[j])

\* Two neighbours merge when they are of one type and leave no gap; otherwise
\* the second begins after the first.
LEMMA Neighbours ==
  ASSUME NEW s, SortedMap(s), NEW i \in 1 .. Len(s) - 1
  PROVE  /\ i \in 1 .. Len(s) /\ i + 1 \in 1 .. Len(s)
         /\ Joins(s, i + 1) =>
              s[i + 1].type = s[i].type /\ s[i + 1].base <= Top(s[i])
         /\ ~Joins(s, i + 1) => Top(s[i]) <= s[i + 1].base
<1>1. /\ i \in 1 .. Len(s) /\ i + 1 \in 1 .. Len(s) /\ i + 1 > 1 /\ i + 1 - 1 = i
      /\ i < i + 1 /\ Len(s) \in Nat
  BY MapEntries DEF SortedMap
<1>2. PICK r, q : r = s[i] /\ q = s[i + 1]
  OBVIOUS
<1>3. /\ r.base \in Nat /\ Top(r) \in Nat /\ q.base \in Nat /\ Top(q) \in Nat
      /\ r.base < Top(r) /\ q.base < Top(q) /\ End(r) = Top(r) /\ ~Overflows(r)
  BY <1>1, <1>2, MapEntries DEF SortedMap
<1>4. r.base <= q.base
  BY <1>1, <1>2, MapEntries DEF SortedMap
<1>5. is_mergeable(r, q) <=> q.base <= Top(r)
  BY <1>3, <1>4 DEF is_mergeable, Lower, Higher
<1>6. Joins(s, i + 1) <=> r.type = q.type /\ q.base <= Top(r)
  BY <1>1, <1>2, <1>5 DEF Joins, IS_E820_MERGEABLE
<1>7. r.type # q.type => Top(r) <= q.base
  <2>1. r.type # q.type => ApartFrom(r, q)
    BY <1>1, <1>2, MapEntries DEF SortedMap
  <2>. QED
    BY <1>3, <1>4, <2>1 DEF ApartFrom
<1>. QED
  BY <1>1, <1>2, <1>3, <1>6, <1>7

\* The run that begins at i: where it ends, and what it makes one entry of.
RunOf(s, i, last, r) ==
  /\ last \in i .. Len(s) /\ (last < Len(s) => ~Joins(s, last + 1))
  /\ \A j \in i .. last - 1 : Joins(s, j + 1)
  /\ r \in MapEntry /\ r.base = s[i].base /\ Top(r) = Top(s[last])
  /\ \A a \in Bytes(r) :
       \E j \in 1 .. Len(s) : s[j].type = r.type /\ a \in Bytes(s[j])

LEMMA Running ==
  ASSUME NEW s, SortedMap(s), NEW i \in 1 .. Len(s),
         NEW last, last = LastJoined(s, i), NEW r, r = MergedEntry(s, i)
  PROVE  RunOf(s, i, last, r)
<1>. DEFINE Stop == {j \in i .. Len(s) : j = Len(s) \/ ~Joins(s, j + 1)}
<1>1. Len(s) \in Nat /\ i \in Nat
  BY MapEntries DEF SortedMap
<1>2. last = Least(Stop) /\ Stop \subseteq Nat /\ Stop # {}
  BY <1>1 DEF LastJoined
<1>3. last \in Stop /\ \A j \in Stop : last <= j
  <2>. HIDE DEF Stop
  <2>. QED
    BY <1>2, LeastIsLeast DEF IsLeast
<1>4. /\ last \in i .. Len(s) /\ last \in 1 .. Len(s)
      /\ last < Len(s) => ~Joins(s, last + 1)
  BY <1>1, <1>3
<1>5. ASSUME NEW j \in i .. last - 1 PROVE Joins(s, j + 1)
  <2>1. j \in i .. Len(s) /\ ~(last <= j)
    BY <1>1, <1>4
  <2>. QED
    BY <1>3, <2>1
<1>. HIDE DEF Stop
<1>6. \A n \in 1 .. Len(s) :
        /\ s[n] \in MapEntry /\ s[n].base \in Nat /\ Top(s[n]) \in Nat
        /\ s[n].base < Top(s[n]) /\ Top(s[n]) < AddrLimit /\ End(s[n]) = Top(s[n])
        /\ s[n].base \in Addr
  BY MapEntries DEF SortedMap
<1>7. \A n \in 0 .. last - i - 1 :
        /\ i + n \in 1 .. Len(s) - 1 /\ i + n \in i .. last - 1
        /\ i + (n + 1) = i + n + 1
  BY <1>1, <1>4
<1>8. ASSUME NEW n \in 0 .. last - i - 1
      PROVE  /\ s[i + (n + 1)].type = s[i + n].type
             /\ s[i + (n + 1)].base <= Top(s[i + n])
  <2>1. i + n \in 1 .. Len(s) - 1 /\ Joins(s, i + n + 1)
    BY <1>5, <1>7
  <2>2. s[i + n + 1].type = s[i + n].type /\ s[i + n + 1].base <= Top(s[i + n])
    BY <2>1, Neighbours
  <2>. QED
    BY <1>7, <2>2
<1>9. last - i \in Nat
  BY <1>1, <1>4
<1>10. ASSUME NEW n \in 0 .. last - i PROVE s[i + n].type = s[i].type
  <2>. DEFINE Same == {k \in 0 .. last - i : s[i + k].type = s[i].type}
  <2>1. 0 \in Same
    BY <1>1, <1>9
  <2>2. \A k \in 0 .. last - i - 1 : k \in Same => k + 1 \in Same
    BY <1>8, <1>9
  <2>3. 0 .. last - i \subseteq Same
    <3>. HIDE DEF Same
    <3>. QED
      BY <1>9, <2>1, <2>2, Climbing
  <2>. QED
    BY <2>3
<1>11. /\ r \in MapEntry /\ r.base = s[i].base /\ r.type = s[i].type
       /\ Top(r) = Top(s[last])
  <2>1. CASE last = i
    <3>1. r = s[i]
      BY <2>1 DEF MergedEntry
    <3>. QED
      BY <1>6, <2>1, <3>1
  <2>2. CASE last # i
    <3>. DEFINE len == Top(s[last]) - s[i].base
    <3>1. s[i].base <= s[last].base
      <4>1. i < last
        BY <1>1, <1>4, <2>2
      <4>2. \A k, j \in 1 .. Len(s) : k < j => s[k].base <= s[j].base
        BY MapEntries DEF SortedMap
      <4>. QED
        BY <1>4, <4>1, <4>2
    <3>2. len \in 1 .. AddrLimit - 1 /\ len \in 0 .. AddrLimit - 1 /\ len \in Addr \ {0}
      <4>1. AddrLimit \in Nat
        BY AddressSpace
      <4>. QED
        BY <1>4, <1>6, <3>1, <4>1, SMTT(30) DEF Addr
    <3>3. Wrap(End(s[last]) - s[i].base) = len
      BY <1>4, <1>6, <3>2, WrapSmall
    <3>. HIDE DEF len
    <3>4. r = [s[i] EXCEPT !.len = len]
      BY <2>2, <3>3 DEF MergedEntry
    <3>5. s[i] \in MapEntry
      BY <1>6
    <3>6. r \in MapEntry /\ r.base = s[i].base /\ r.type = s[i].type /\ r.len = len
      BY <3>2, <3>4, <3>5 DEF MapEntry
    <3>. QED
      BY <1>4, <1>6, <3>6 DEF Top, len
  <2>. QED
    BY <2>1, <2>2
<1>12. ASSUME NEW a \in Bytes(r)
       PROVE  \E j \in 1 .. Len(s) : s[j].type = r.type /\ a \in Bytes(s[j])
  <2>1. a \in Nat /\ a \in Addr /\ s[i].base <= a /\ a < Top(s[last])
    BY <1>11, AddressSpace DEF Bytes, Top, Addr
  <2>. DEFINE Past == {n \in 0 .. last - i : a < Top(s[i + n])}
  <2>2. last - i \in Past
    <3>1. i + (last - i) = last /\ last - i \in 0 .. last - i
      BY <1>1, <1>4, <1>9
    <3>. QED
      BY <2>1, <3>1
  <2>3. PICK n \in Past : \A k \in Past : n <= k
    <3>1. Past \subseteq Nat /\ Past # {}
      BY <1>9, <2>2
    <3>. HIDE DEF Past
    <3>. QED
      BY <3>1, LeastIsLeast DEF IsLeast
  <2>4. n \in 0 .. last - i /\ a < Top(s[i + n]) /\ i + n \in 1 .. Len(s)
    BY <1>1, <1>4, <1>9, <2>3
  <2>5. s[i + n].base <= a
    <3>1. CASE n = 0
      BY <1>1, <2>1, <3>1
    <3>2. CASE n # 0
      <4>1. PICK k \in 0 .. last - i - 1 : n = k + 1
        <5>1. n - 1 \in 0 .. last - i - 1 /\ n = n - 1 + 1
          BY <1>9, <2>4, <3>2
        <5>. QED
          BY <5>1
      <4>2. k \in 0 .. last - i /\ ~(n <= k)
        BY <1>9, <4>1
      <4>3. ~(a < Top(s[i + k]))
        BY <2>3, <4>2
      <4>4. i + k \in 1 .. Len(s)
        BY <1>1, <1>4, <1>9, <4>1
      <4>5. s[i + n].base <= Top(s[i + k])
        BY <1>8, <4>1
      <4>. QED
        BY <1>6, <2>1, <2>4, <4>3, <4>4, <4>5
    <3>. QED
      BY <3>1, <3>2
  <2>6. s[i + n].type = r.type
    BY <1>10, <1>11, <2>4
  <2>7. a \in Bytes(s[i + n])
    BY <2>1, <2>4, <2>5 DEF Bytes, Top
  <2>. QED
    BY <2>4, <2>6, <2>7
<1>. QED
  BY <1>4, <1>5, <1>11, <1>12 DEF RunOf

\* What e820_mmap_merge makes of the firmware's map: a map in order and without
\* overlaps, of memory that the firmware reports to be of that type.
MergedMap(big, m) ==
  /\ big \in Seq(MapEntry) /\ big # << >>
  /\ \A i \in DOMAIN big : Top(big[i]) <= AddrLimit - PageSize
  /\ \A i, j \in DOMAIN big : i < j => Top(big[i]) <= big[j].base
  /\ Top(big[Len(big)]) >= PageSize
  /\ \A i \in DOMAIN big : \A a \in Bytes(big[i]) :
       \E j \in DOMAIN m : m[j].type = big[i].type /\ a \in Bytes(m[j])

LEMMA MapSorted ==
  ASSUME NEW m, FirmwareMap(m), NEW s, s = SortedByBase(m)
  PROVE  /\ SortedMap(s)
         /\ \E i \in 1 .. Len(s) : s[i].base >= PageSize
         /\ \A i \in 1 .. Len(s) : \E j \in DOMAIN m : s[i] = m[j]
         /\ \A j \in DOMAIN m : \E i \in 1 .. Len(s) : s[i] = m[j]
         /\ RangesApart(m) => RangesApart(s)
<1>1. /\ s \in Seq(MapEntry) /\ Len(s) \in Nat /\ DOMAIN s = 1 .. Len(s)
      /\ \A i \in DOMAIN s : \E j \in DOMAIN m : s[i] = m[j]
      /\ \A j \in DOMAIN m : \E i \in DOMAIN s : s[i] = m[j]
      /\ \A i, j \in DOMAIN s : i < j => s[i].base <= s[j].base
      /\ \A i, j \in DOMAIN s :
           i < j => \E p, q \in DOMAIN m : p # q /\ s[i] = m[p] /\ s[j] = m[q]
  <2>1. InOrder(s, m)
    BY MapSorting
  <2>2. Len(s) \in Nat /\ DOMAIN s = 1 .. Len(s)
    BY <2>1 DEF InOrder
  <2>3. \A i, j \in DOMAIN s :
          i < j => \E p, q \in DOMAIN m : p # q /\ s[i] = m[p] /\ s[j] = m[q]
    <3>. SUFFICES ASSUME NEW i \in DOMAIN s, NEW j \in DOMAIN s, i < j
                  PROVE  \E p, q \in DOMAIN m : p # q /\ s[i] = m[p] /\ s[j] = m[q]
      OBVIOUS
    <3>1. i \in 1 .. Len(s) /\ j \in 1 .. Len(s)
      BY <2>2
    <3>. QED
      BY <2>1, <3>1, Zenon DEF InOrder
  <2>4. /\ s \in Seq(MapEntry)
        /\ \A i \in 1 .. Len(s) : \E j \in DOMAIN m : s[i] = m[j]
        /\ \A j \in DOMAIN m : \E i \in 1 .. Len(s) : s[i] = m[j]
        /\ \A i, j \in 1 .. Len(s) : i < j => s[i].base <= s[j].base
    BY <2>1 DEF InOrder
  <2>5. /\ \A i \in DOMAIN s : \E j \in DOMAIN m : s[i] = m[j]
        /\ \A j \in DOMAIN m : \E i \in DOMAIN s : s[i] = m[j]
        /\ \A i, j \in DOMAIN s : i < j => s[i].base <= s[j].base
    BY <2>2, <2>4
  <2>. QED
    BY <2>2, <2>3, <2>4, <2>5
<1>2. \E i \in 1 .. Len(s) : s[i].base >= PageSize
  <2>1. PICK j \in DOMAIN m : m[j].base >= PageSize
    BY DEF FirmwareMap
  <2>2. PICK i \in DOMAIN s : s[i] = m[j]
    BY <1>1
  <2>. QED
    BY <1>1, <2>1, <2>2
<1>3. s # << >>
  BY <1>1, <1>2
<1>4. \A i \in DOMAIN s : Top(s[i]) <= AddrLimit - PageSize
  <2>. SUFFICES ASSUME NEW i \in DOMAIN s PROVE Top(s[i]) <= AddrLimit - PageSize
    OBVIOUS
  <2>1. PICK j \in DOMAIN m : s[i] = m[j]
    BY <1>1
  <2>. QED
    BY <2>1 DEF FirmwareMap
<1>5. \A i, j \in DOMAIN s : s[i].type # s[j].type => ApartFrom(s[i], s[j])
  <2>. SUFFICES ASSUME NEW i \in DOMAIN s, NEW j \in DOMAIN s, s[i].type # s[j].type
                PROVE  ApartFrom(s[i], s[j])
    OBVIOUS
  <2>1. PICK k \in DOMAIN m : s[i] = m[k]
    BY <1>1
  <2>2. PICK l \in DOMAIN m : s[j] = m[l]
    BY <1>1
  <2>. QED
    BY <2>1, <2>2 DEF FirmwareMap
<1>6. ASSUME RangesApart(m) PROVE RangesApart(s)
  <2>1. ASSUME NEW i \in DOMAIN s, NEW j \in DOMAIN s, i < j
        PROVE  ApartFrom(s[i], s[j]) /\ ApartFrom(s[j], s[i])
    <3>1. PICK p \in DOMAIN m, q \in DOMAIN m : p # q /\ s[i] = m[p] /\ s[j] = m[q]
      BY <1>1, <2>1
    <3>. QED
      BY <1>6, <3>1 DEF RangesApart
  <2>2. \A i, j \in DOMAIN s : i # j => i < j \/ j < i
    BY <1>1
  <2>. QED
    BY <2>1, <2>2 DEF RangesApart
<1>7. SortedMap(s)
  <2>1. \A i, j \in DOMAIN s : i < j => s[i].base <= s[j].base
    BY <1>1
  <2>2. s \in Seq(MapEntry)
    BY <1>1
  <2>. QED
    BY <1>3, <1>4, <1>5, <2>1, <2>2 DEF SortedMap
<1>8. /\ \A i \in 1 .. Len(s) : \E j \in DOMAIN m : s[i] = m[j]
      /\ \A j \in DOMAIN m : \E i \in 1 .. Len(s) : s[i] = m[j]
  <2>1. /\ DOMAIN s = 1 .. Len(s)
        /\ \A i \in DOMAIN s : \E j \in DOMAIN m : s[i] = m[j]
        /\ \A j \in DOMAIN m : \E i \in DOMAIN s : s[i] = m[j]
    BY <1>1
  <2>. QED
    BY <2>1
<1>. QED
  BY <1>2, <1>6, <1>7, <1>8

\* The heads of the runs, in order.
LEMMA RunHeads ==
  ASSUME NEW s, SortedMap(s), NEW heads, heads = Heads(s)
  PROVE  \E n \in Nat \ {0} :
           /\ heads \in [1 .. n -> 1 .. Len(s)]
           /\ \A a \in 1 .. n : ~Joins(s, heads[a])
           /\ \A a, b \in 1 .. n : a < b => heads[a] < heads[b]
           /\ \A i \in 1 .. Len(s) : ~Joins(s, i) => \E a \in 1 .. n : heads[a] = i
<1>. DEFINE H   == {i \in DOMAIN s : ~Joins(s, i)}
            key == [i \in H |-> i]
            n   == Cardinality(H)
<1>1. Len(s) \in Nat /\ DOMAIN s = 1 .. Len(s) /\ s # << >>
  BY MapEntries DEF SortedMap
<1>2. H \in SUBSET (1 .. Len(s)) /\ H \subseteq Nat
  BY <1>1
<1>3. 1 \in H
  BY <1>1 DEF Joins
<1>4. /\ DOMAIN key = H /\ \A i \in H : key[i] = i
  OBVIOUS
<1>5. heads = bubble_sort(key)
  BY DEF Heads
<1>6. IsFiniteSet(H)
  <2>1. 1 \in Int /\ Len(s) \in Int
    BY <1>1
  <2>2. IsFiniteSet(1 .. Len(s))
    BY <2>1, FS_Interval
  <2>. HIDE DEF H
  <2>. QED
    BY <1>2, <2>2, FS_Subset
<1>. HIDE DEF key
<1>7. /\ n \in Nat
      /\ heads \in [1 .. n -> H]
      /\ \A a, b \in 1 .. n : a < b => Before(key, heads[a], heads[b])
      /\ \A i \in H : \E a \in 1 .. n : heads[a] = i
  <2>. HIDE DEF H
  <2>1. /\ IsFiniteSet(DOMAIN key) /\ DOMAIN key \subseteq Nat
        /\ \A i \in DOMAIN key : key[i] \in Nat
    BY <1>2, <1>4, <1>6
  <2>2. /\ Cardinality(DOMAIN key) \in Nat
        /\ heads \in [1 .. Cardinality(DOMAIN key) -> DOMAIN key]
        /\ \A a, b \in 1 .. Cardinality(DOMAIN key) :
             a < b => Before(key, heads[a], heads[b]) /\ heads[a] # heads[b]
        /\ \A i \in DOMAIN key :
             \E a \in 1 .. Cardinality(DOMAIN key) : heads[a] = i
    BY <1>5, <2>1, Ranking
  <2>. QED
    BY <1>4, <2>2
<1>8. n # 0
  <2>1. \E a \in 1 .. n : heads[a] = 1
    BY <1>3, <1>7
  <2>. HIDE DEF n
  <2>. QED
    BY <1>7, <2>1
<1>9. ASSUME NEW a \in 1 .. n, NEW b \in 1 .. n, a < b PROVE heads[a] < heads[b]
  <2>1. /\ Before(key, heads[a], heads[b]) /\ heads[a] \in H /\ heads[b] \in H
    BY <1>7, <1>9
  <2>. HIDE DEF H, n
  <2>. QED
    BY <1>2, <1>4, <2>1 DEF Before
<1>10. heads \in [1 .. n -> 1 .. Len(s)]
  <2>. HIDE DEF H, n
  <2>. QED
    BY <1>2, <1>7
<1>11. \A a \in 1 .. n : ~Joins(s, heads[a])
  <2>. HIDE DEF n
  <2>. QED
    BY <1>7
<1>12. \A i \in 1 .. Len(s) : ~Joins(s, i) => \E a \in 1 .. n : heads[a] = i
  <2>1. \A i \in 1 .. Len(s) : ~Joins(s, i) => i \in H
    BY <1>1
  <2>. HIDE DEF n, H
  <2>. QED
    BY <1>7, <2>1
<1>. HIDE DEF n
<1>. QED
  BY <1>7, <1>8, <1>9, <1>10, <1>11, <1>12

LEMMA MapMerging ==
  ASSUME NEW m, FirmwareMap(m)
  PROVE  MergedMap(e820_mmap_merge(m), m)
<1>. PICK s : s = SortedByBase(m)
  OBVIOUS
<1>. PICK heads : heads = Heads(s)
  OBVIOUS
<1>. PICK big : big = e820_mmap_merge(m)
  OBVIOUS
<1>. DEFINE L(i) == LastJoined(s, i)
<1>1. /\ SortedMap(s)
      /\ \E i \in 1 .. Len(s) : s[i].base >= PageSize
      /\ \A i \in 1 .. Len(s) : \E j \in DOMAIN m : s[i] = m[j]
  BY MapSorted, SMTT(30)
<1>2. Len(s) \in Nat /\ DOMAIN s = 1 .. Len(s)
  BY <1>1, MapEntries, SMTT(30) DEF SortedMap
<1>. PICK N \in Nat : N = Len(s)
  BY <1>2
<1>3. \A i \in 1 .. Len(s) :
        s[i].base \in Nat /\ Top(s[i]) \in Nat /\ s[i].base < Top(s[i])
        /\ Top(s[i]) <= AddrLimit - PageSize
  BY <1>1, MapEntries DEF SortedMap
<1>4. PICK n \in Nat \ {0} :
        /\ heads \in [1 .. n -> 1 .. Len(s)]
        /\ \A a \in 1 .. n : ~Joins(s, heads[a])
        /\ \A a, b \in 1 .. n : a < b => heads[a] < heads[b]
        /\ \A i \in 1 .. Len(s) : ~Joins(s, i) => \E a \in 1 .. n : heads[a] = i
  BY <1>1, RunHeads
<1>5. big = [a \in 1 .. n |-> MergedEntry(s, heads[a])]
  <2>1. DOMAIN heads = 1 .. n
    BY <1>4
  <2>. QED
    BY <2>1 DEF e820_mmap_merge
<1>6. ASSUME NEW a \in 1 .. n
      PROVE  /\ heads[a] \in 1 .. Len(s)
             /\ L(heads[a]) \in heads[a] .. Len(s) /\ L(heads[a]) \in 1 .. Len(s)
             /\ L(heads[a]) < Len(s) => ~Joins(s, L(heads[a]) + 1)
             /\ \A j \in heads[a] .. L(heads[a]) - 1 : Joins(s, j + 1)
             /\ big[a] \in MapEntry /\ big[a].base = s[heads[a]].base
             /\ Top(big[a]) = Top(s[L(heads[a])])
             /\ \A x \in Bytes(big[a]) :
                  \E j \in 1 .. Len(s) : s[j].type = big[a].type /\ x \in Bytes(s[j])
  <2>1. PICK i \in 1 .. Len(s) : i = heads[a]
    BY <1>4
  <2>2. big[a] = MergedEntry(s, i)
    BY <1>5, <2>1
  <2>3. /\ L(i) \in i .. Len(s) /\ (L(i) < Len(s) => ~Joins(s, L(i) + 1))
        /\ \A j \in i .. L(i) - 1 : Joins(s, j + 1)
        /\ big[a] \in MapEntry /\ big[a].base = s[i].base /\ Top(big[a]) = Top(s[L(i)])
        /\ \A x \in Bytes(big[a]) :
              \E j \in 1 .. Len(s) : s[j].type = big[a].type /\ x \in Bytes(s[j])
    <3>. HIDE DEF L
    <3>1. RunOf(s, i, L(i), big[a])
      BY <1>1, <2>2, Running DEF L
    <3>. QED
      BY <3>1 DEF RunOf
  <2>4. L(i) \in 1 .. Len(s)
    <3>. HIDE DEF L
    <3>. QED
      BY <1>2, <2>3
  <2>. HIDE DEF L
  <2>. QED
    BY <2>1, <2>3, <2>4
<1>7. big \in Seq(MapEntry) /\ Len(big) = n /\ DOMAIN big = 1 .. n /\ big # << >>
  <2>1. \A a \in 1 .. n : MergedEntry(s, heads[a]) \in MapEntry
    BY <1>5, <1>6
  <2>2. big \in [1 .. n -> MapEntry]
    BY <1>5, <2>1
  <2>. QED
    BY <2>2
<1>8. ASSUME NEW a \in 1 .. n, NEW b \in 1 .. n, a < b
      PROVE  Top(big[a]) <= big[b].base
  <2>1. heads[a] < heads[b] /\ ~Joins(s, heads[b])
    BY <1>4, <1>8
  <2>2. PICK last \in 1 .. Len(s) : last = L(heads[a])
    BY <1>6
  <2>3. PICK h \in 1 .. Len(s) : h = heads[b]
    BY <1>4
  <2>4. last < h
    <3>1. SUFFICES ASSUME h <= last PROVE FALSE
      BY <1>2
    <3>2. PICK k \in 1 .. Len(s) : k = heads[a]
      BY <1>4
    <3>3. h - 1 \in k .. last - 1 /\ h - 1 + 1 = h
      BY <1>2, <2>1, <2>3, <3>1, <3>2
    <3>4. Joins(s, h - 1 + 1)
      BY <1>6, <2>2, <3>2, <3>3
    <3>. QED
      BY <2>1, <2>3, <3>3, <3>4
  <2>5. last \in 1 .. Len(s) - 1 /\ last + 1 \in 1 .. Len(s) /\ last + 1 <= h
    BY <1>2, <2>4
  <2>6. ~Joins(s, last + 1)
    BY <1>6, <2>2, <2>5
  <2>7. Top(s[last]) <= s[last + 1].base
    BY <1>1, <2>5, <2>6, Neighbours
  <2>8. s[last + 1].base <= s[h].base
    <3>1. last + 1 = h \/ last + 1 < h
      BY <2>5
    <3>2. last + 1 < h => s[last + 1].base <= s[h].base
      BY <1>1, <1>2, <2>5 DEF SortedMap
    <3>. QED
      BY <1>3, <3>1, <3>2
  <2>9. Top(big[a]) = Top(s[last]) /\ big[b].base = s[h].base
    BY <1>6, <2>2, <2>3
  <2>. QED
    BY <1>3, <2>5, <2>7, <2>8, <2>9
<1>9. Top(big[n]) >= PageSize
  <2>1. n \in 1 .. n
    OBVIOUS
  <2>2. PICK last \in 1 .. Len(s) : last = L(heads[n])
    BY <1>6, <2>1
  <2>3. last = Len(s)
    <3>1. SUFFICES ASSUME last # Len(s) PROVE FALSE
      OBVIOUS
    <3>2. last < Len(s) /\ last + 1 \in 1 .. Len(s)
      BY <3>1
    <3>3. ~Joins(s, last + 1)
      BY <1>6, <2>1, <2>2, <3>2
    <3>4. PICK b \in 1 .. n : heads[b] = last + 1
      BY <1>4, <3>2, <3>3
    <3>5. heads[n] <= last /\ heads[n] \in Nat
      BY <1>2, <1>6, <2>1, <2>2
    <3>6. b # n /\ b < n
      BY <3>4, <3>5
    <3>7. heads[b] < heads[n]
      BY <1>4, <2>1, <3>6
    <3>. QED
      BY <3>4, <3>5, <3>7
  <2>4. PICK i \in 1 .. Len(s) : s[i].base >= PageSize
    BY <1>1
  <2>5. s[i].base <= s[last].base
    <3>1. i = last \/ i < last
      BY <2>3
    <3>2. i < last => s[i].base <= s[last].base
      BY <1>1, <1>2 DEF SortedMap
    <3>. QED
      BY <1>3, <3>1, <3>2
  <2>6. PageSize \in Nat
    BY AddressSpace
  <2>7. Top(big[n]) = Top(s[last])
    BY <1>6, <2>1, <2>2
  <2>. QED
    BY <1>3, <2>4, <2>5, <2>6, <2>7
<1>10. ASSUME NEW a \in 1 .. n, NEW x \in Bytes(big[a])
       PROVE  \E j \in DOMAIN m : m[j].type = big[a].type /\ x \in Bytes(m[j])
  <2>1. PICK i \in 1 .. Len(s) : s[i].type = big[a].type /\ x \in Bytes(s[i])
    BY <1>6, <1>10
  <2>2. PICK j \in DOMAIN m : s[i] = m[j]
    BY <1>1
  <2>. QED
    BY <2>1, <2>2
<1>11. \A a \in 1 .. n : Top(big[a]) <= AddrLimit - PageSize
  BY <1>3, <1>6
<1>. QED
  BY <1>7, <1>8, <1>9, <1>10, <1>11 DEF MergedMap

\* In a map without overlaps, a run makes one entry of all that is in it.
LEMMA RunCovers ==
  ASSUME NEW s, SortedMap(s), RangesApart(s), NEW i \in 1 .. Len(s),
         NEW last, last = LastJoined(s, i), NEW r, r = MergedEntry(s, i),
         NEW j \in i .. last
  PROVE  s[j].type = r.type /\ Bytes(s[j]) \subseteq Bytes(r)
<1>1. /\ last \in i .. Len(s) /\ r \in MapEntry
      /\ r.base = s[i].base /\ Top(r) = Top(s[last])
      /\ \A a \in Bytes(r) : \E k \in 1 .. Len(s) : s[k].type = r.type /\ a \in Bytes(s[k])
  BY Running, SMTT(30) DEF RunOf
<1>2. /\ Len(s) \in Nat /\ DOMAIN s = 1 .. Len(s)
      /\ \A k \in 1 .. Len(s) :
           /\ s[k].base \in Nat /\ Top(s[k]) \in Nat /\ s[k].base < Top(s[k])
           /\ s[k].base \in Addr /\ Lies(s[k])
           /\ Top(s[k]) = s[k].base + s[k].len
  <2>1. \A k \in 1 .. Len(s) : s[k].len \in Addr \ {0} /\ Top(s[k]) < AddrLimit
    BY MapEntries DEF SortedMap
  <2>2. \A k \in 1 .. Len(s) : Top(s[k]) \in Nat
    BY MapEntries DEF SortedMap
  <2>. QED
    BY <2>1, <2>2, AddressSpace, MapEntries DEF SortedMap, Lies
<1>3. j \in 1 .. Len(s) /\ last \in 1 .. Len(s)
  BY <1>1, <1>2
<1>4. s[i].base <= s[j].base
  <2>1. i < j => s[i].base <= s[j].base
    BY <1>2, <1>3 DEF SortedMap
  <2>. QED
    BY <1>2, <1>3, <2>1
<1>5. Top(s[j]) <= Top(s[last])
  <2>1. CASE j = last
    BY <1>2, <1>3, <2>1
  <2>2. CASE j # last
    <3>1. s[j].base <= s[last].base
      BY <1>1, <1>2, <1>3, <2>2 DEF SortedMap
    <3>2. ApartFrom(s[j], s[last])
      BY <1>2, <1>3, <2>2 DEF RangesApart
    <3>. QED
      BY <1>2, <1>3, <3>1, <3>2 DEF ApartFrom
  <2>. QED
    BY <2>1, <2>2
<1>6. Bytes(s[j]) \subseteq Bytes(r)
  <2>1. r.base <= s[j].base /\ Top(s[j]) <= Top(r)
    BY <1>1, <1>4, <1>5
  <2>2. \A a \in Addr : a \in Nat
    BY AddressSpace DEF Addr
  <2>3. Top(r) \in Nat /\ r.base \in Nat
    BY <1>1, <1>2, <1>3
  <2>4. Top(r) = r.base + r.len
    BY DEF Top
  <2>. QED
    BY <1>2, <1>3, <2>1, <2>2, <2>3, <2>4 DEF Bytes
<1>7. s[j].type = r.type
  <2>1. s[j].base \in Bytes(s[j])
    BY <1>2, <1>3 DEF Bytes
  <2>2. PICK k \in 1 .. Len(s) : s[k].type = r.type /\ s[j].base \in Bytes(s[k])
    BY <1>1, <1>6, <2>1
  <2>3. s[k].type # s[j].type => ApartFrom(s[j], s[k])
    BY <1>2, <1>3 DEF SortedMap
  <2>4. ~ApartFrom(s[j], s[k])
    BY <1>2, <1>3, <2>1, <2>2, SharedByte
  <2>. QED
    BY <2>2, <2>3, <2>4
<1>. QED
  BY <1>6, <1>7

\* Merging a map without overlaps loses nothing of it.
LEMMA MergingKeeps ==
  ASSUME NEW m, FirmwareMap(m), RangesApart(m), NEW j \in DOMAIN m
  PROVE  \E a \in DOMAIN e820_mmap_merge(m) :
           /\ e820_mmap_merge(m)[a].type = m[j].type
           /\ Bytes(m[j]) \subseteq Bytes(e820_mmap_merge(m)[a])
<1>. PICK s : s = SortedByBase(m)
  OBVIOUS
<1>. PICK heads : heads = Heads(s)
  OBVIOUS
<1>. PICK big : big = e820_mmap_merge(m)
  OBVIOUS
<1>1. SortedMap(s) /\ RangesApart(s) /\ \A k \in DOMAIN m : \E i \in 1 .. Len(s) : s[i] = m[k]
  BY MapSorted
<1>2. Len(s) \in Nat /\ DOMAIN s = 1 .. Len(s)
  BY <1>1, MapEntries, SMTT(30) DEF SortedMap
<1>3. PICK n \in Nat \ {0} :
        /\ heads \in [1 .. n -> 1 .. Len(s)]
        /\ \A i \in 1 .. Len(s) : ~Joins(s, i) => \E a \in 1 .. n : heads[a] = i
  BY <1>1, RunHeads
<1>4. big = [a \in 1 .. n |-> MergedEntry(s, heads[a])]
  <2>1. DOMAIN heads = 1 .. n
    BY <1>3
  <2>. QED
    BY <2>1 DEF e820_mmap_merge
<1>5. PICK i \in 1 .. Len(s) : s[i] = m[j]
  BY <1>1
<1>. DEFINE Starts == {k \in 1 .. i : ~Joins(s, k)}
            h      == Max(Starts)
<1>6. h \in Starts /\ \A k \in Starts : k <= h
  <2>1. 1 \in Starts
    BY <1>2 DEF Joins
  <2>2. i \in Nat /\ Starts \subseteq 0 .. i
    BY <1>2
  <2>. HIDE DEF Starts
  <2>. QED
    BY <2>1, <2>2, Highest
<1>. HIDE DEF h
<1>7. h \in 1 .. Len(s) /\ h <= i /\ ~Joins(s, h)
  BY <1>2, <1>6
<1>. PICK last : last = LastJoined(s, h)
  OBVIOUS
<1>8. last \in h .. Len(s) /\ (last < Len(s) => ~Joins(s, last + 1))
  <2>1. RunOf(s, h, last, MergedEntry(s, h))
    BY <1>1, <1>7, Running
  <2>. QED
    BY <2>1 DEF RunOf
<1>9. i \in h .. last
  <2>1. SUFFICES ASSUME last < i PROVE FALSE
    BY <1>2, <1>7, <1>8
  <2>2. last + 1 \in 1 .. i /\ ~Joins(s, last + 1)
    BY <1>2, <1>7, <1>8, <2>1
  <2>3. last + 1 \in Starts
    BY <2>2
  <2>. QED
    BY <1>2, <1>6, <1>7, <1>8, <2>3
<1>10. PICK a \in 1 .. n : heads[a] = h
  BY <1>3, <1>7
<1>11. big[a] = MergedEntry(s, h) /\ a \in DOMAIN big
  BY <1>4, <1>10
<1>12. s[i].type = big[a].type /\ Bytes(s[i]) \subseteq Bytes(big[a])
  BY <1>1, <1>7, <1>9, <1>11, RunCovers
<1>. QED
  BY <1>5, <1>11, <1>12

-----------------------------------------------------------------------------
(* system_blacklist_memory: what is left for the kernel.                    *)

\* The memory the firmware reports as usable, but for the low megabyte.
Ram(m) ==
  {a \in Addr : /\ a >= LowMegabyte
                /\ \E j \in DOMAIN m : m[j].type \in Usable /\ a \in Bytes(m[j])}

\* The first and the last address are never to be had.
Guarded(t) == Tidy(t) /\ 0 \in TableBytes(t) /\ AddrLimit - 1 \in TableBytes(t)

\* The requests e820_to_blacklist makes, for the merged map.
RequestsFor(rs, big) ==
  /\ Len(rs) = 2 * Len(big) + 1
  /\ \A k \in 1 .. Len(rs) : Pageable(rs[k])
  /\ rs[1] = Request(Top(big[Len(big)]), AddrLimit - Top(big[Len(big)]))
  /\ \A i \in 1 .. Len(big) :
       LET low == IF i = 1 THEN 0 ELSE Top(big[i - 1])
       IN  /\ 2 * i \in 1 .. Len(rs) /\ 2 * i + 1 \in 1 .. Len(rs)
           /\ rs[2 * i] = Request(low, big[i].base - low)
           /\ rs[2 * i + 1] = When(big[i].type \notin Usable, big[i])

LEMMA MapRequests ==
  ASSUME NEW m, NEW big, MergedMap(big, m), NEW rs, rs = E820Requests(big)
  PROVE  RequestsFor(rs, big)
<1>. PICK N : N = Len(big)
  OBVIOUS
<1>1. /\ N \in Nat \ {0} /\ DOMAIN big = 1 .. N
      /\ \A i \in 1 .. N :
           /\ big[i].base \in Nat /\ big[i].base \in Addr /\ big[i].len \in Addr \ {0}
           /\ big[i].len \in Nat /\ Top(big[i]) = big[i].base + big[i].len
           /\ Top(big[i]) \in Nat /\ big[i].base < Top(big[i])
           /\ Top(big[i]) <= AddrLimit - PageSize /\ End(big[i]) = Top(big[i])
  <2>1. Len(big) # 0
    BY DEF MergedMap
  <2>. QED
    BY <2>1, MapEntries DEF MergedMap
<1>2. /\ AddrLimit \in Nat \ {0, 1} /\ PageSize \in Nat \ {0} /\ Addr = 0 .. AddrLimit - 1
  BY AddressSpace DEF Addr
<1>3. Looked(big) = N
  <2>1. {i \in DOMAIN big : big[i].len = 0} = {}
    BY <1>1
  <2>2. Looked(big) = Least({N + 1}) - 1
    BY <2>1 DEF Looked
  <2>3. Least({N + 1}) = N + 1
    <3>1. {N + 1} \subseteq Nat /\ {N + 1} # {}
      BY <1>1
    <3>. QED
      BY <3>1, LeastIsLeast DEF IsLeast
  <2>. QED
    BY <1>1, <2>2, <2>3
<1>4. rs = [k \in 1 .. 2 * N + 1 |->
              CASE k = 1              -> AboveLast(big)
                [] k > 1 /\ k % 2 = 0 -> GapBefore(big, k \div 2)
                [] k > 1 /\ k % 2 = 1 -> KeptFromKernel(big, k \div 2)]
  BY <1>3 DEF E820Requests
<1>5. 2 * N + 1 \in Nat /\ Len(rs) = 2 * N + 1
  BY <1>1, <1>4
<1>6. rs[1] = Request(Top(big[N]), AddrLimit - Top(big[N])) /\ Pageable(rs[1])
  <2>1. N \in 1 .. N /\ 1 \in 1 .. 2 * N + 1
    BY <1>1
  <2>2. Top(big[N]) \in PageSize .. AddrLimit - PageSize
    BY <1>1, <1>2, <2>1 DEF MergedMap
  <2>3. Wrap(AddrLimit - Top(big[N])) = AddrLimit - Top(big[N])
    <3>1. AddrLimit - Top(big[N]) \in 0 .. AddrLimit - 1
      BY <1>2, <2>2
    <3>. QED
      BY <3>1, WrapSmall
  <2>4. AboveLast(big) = Request(Top(big[N]), AddrLimit - Top(big[N]))
    BY <1>1, <2>1, <2>3 DEF AboveLast
  <2>5. rs[1] = AboveLast(big)
    BY <1>4, <2>1
  <2>. QED
    BY <2>2, <2>4, <2>5, AbovePageable
<1>7. ASSUME NEW i \in 1 .. N, NEW low, low = IF i = 1 THEN 0 ELSE Top(big[i - 1])
      PROVE  /\ GapBefore(big, i) = Request(low, big[i].base - low)
             /\ Pageable(GapBefore(big, i))
             /\ KeptFromKernel(big, i) = When(big[i].type \notin Usable, big[i])
             /\ Pageable(KeptFromKernel(big, i))
  <2>1. /\ low \in Nat /\ low <= big[i].base
        /\ low = IF i = 1 THEN 0 ELSE End(big[i - 1])
    <3>1. CASE i = 1
      BY <1>1, <1>7, <3>1
    <3>2. CASE i # 1
      <4>1. i - 1 \in 1 .. N /\ i - 1 < i
        BY <1>1, <3>2
      <4>2. Top(big[i - 1]) <= big[i].base
        BY <1>1, <4>1 DEF MergedMap
      <4>. QED
        BY <1>1, <1>7, <3>2, <4>1, <4>2
    <3>. QED
      BY <3>1, <3>2
  <2>2. big[i].base - low \in 0 .. AddrLimit - 1 /\ low \in Addr
    BY <1>1, <1>2, <2>1
  <2>3. GapBefore(big, i) = Request(low, big[i].base - low)
    BY <2>1, <2>2, WrapSmall DEF GapBefore
  <2>4. Pageable(GapBefore(big, i))
    <3>1. Request(low, big[i].base - low) \in AddrRange
      BY <1>2, <2>2 DEF Request, AddrRange
    <3>2. Top(Request(low, big[i].base - low)) <= AddrLimit - PageSize
      BY <1>1, <1>2, <2>1 DEF Request, Top
    <3>. QED
      BY <2>3, <3>1, <3>2, LowPageable
  <2>5. Pageable(KeptFromKernel(big, i))
    <3>. DEFINE r == KeptFromKernel(big, i)
    <3>1. /\ r = Request(big[i].base, r.len) /\ r.base = big[i].base
          /\ r.len = big[i].len \/ r.len = 0
      BY DEF KeptFromKernel, When, Request
    <3>2. r.len \in Addr /\ r.len \in Nat /\ r.len <= big[i].len
      <4>. HIDE DEF r
      <4>. QED
        BY <1>1, <1>2, <3>1
    <3>. HIDE DEF r
    <3>3. r \in AddrRange
      BY <1>1, <3>1, <3>2 DEF Request, AddrRange
    <3>4. Top(r) <= AddrLimit - PageSize
      BY <1>1, <1>2, <3>1, <3>2 DEF Top
    <3>. QED
      BY <3>3, <3>4, LowPageable DEF r
  <2>. QED
    BY <2>3, <2>4, <2>5 DEF KeptFromKernel
<1>8. ASSUME NEW i \in 1 .. N
      PROVE  /\ 2 * i \in 1 .. 2 * N + 1 /\ 2 * i + 1 \in 1 .. 2 * N + 1
             /\ rs[2 * i] = GapBefore(big, i)
             /\ rs[2 * i + 1] = KeptFromKernel(big, i)
  <2>1. /\ 2 * i \in 1 .. 2 * N + 1 /\ 2 * i + 1 \in 1 .. 2 * N + 1
        /\ 2 * i > 1 /\ (2 * i) % 2 = 0 /\ (2 * i) \div 2 = i
        /\ 2 * i + 1 > 1 /\ (2 * i + 1) % 2 = 1 /\ (2 * i + 1) \div 2 = i
    BY <1>1
  <2>. QED
    BY <1>4, <2>1
<1>9. ASSUME NEW k \in 1 .. 2 * N + 1 PROVE Pageable(rs[k])
  <2>1. CASE k = 1
    BY <1>6, <2>1
  <2>2. CASE k # 1
    <3>1. PICK i \in 1 .. N : k = 2 * i \/ k = 2 * i + 1
      <4>1. k \div 2 \in 1 .. N /\ (k = 2 * (k \div 2) \/ k = 2 * (k \div 2) + 1)
        BY <1>1, <2>2
      <4>. QED
        BY <4>1
    <3>2. Pageable(GapBefore(big, i)) /\ Pageable(KeptFromKernel(big, i))
      BY <1>7
    <3>. QED
      BY <1>8, <3>1, <3>2
  <2>. QED
    BY <2>1, <2>2
<1>. QED
  BY <1>5, <1>6, <1>7, <1>8, <1>9 DEF RequestsFor

\* What none of the requests is for lies in usable memory.
LEMMA Unrequested ==
  ASSUME NEW m, NEW big, MergedMap(big, m), NEW rs, rs = E820Requests(big),
         NEW a \in Addr, \A k \in 1 .. Len(rs) : a \notin Bytes(rs[k])
  PROVE  \E i \in DOMAIN big : big[i].type \in Usable /\ a \in Bytes(big[i])
<1>. PICK N : N = Len(big)
  OBVIOUS
<1>1. /\ N \in Nat \ {0} /\ DOMAIN big = 1 .. N
      /\ \A i \in 1 .. N :
           /\ big[i].base \in Nat /\ big[i].len \in Nat
           /\ Top(big[i]) = big[i].base + big[i].len
           /\ Top(big[i]) \in Nat /\ big[i].base < Top(big[i])
  <2>1. Len(big) # 0
    BY DEF MergedMap
  <2>. QED
    BY <2>1, MapEntries DEF MergedMap
<1>2. AddrLimit \in Nat /\ a \in Nat /\ a < AddrLimit
  BY AddressSpace DEF Addr
<1>3. /\ Len(rs) = 2 * N + 1
      /\ rs[1] = Request(Top(big[N]), AddrLimit - Top(big[N]))
      /\ \A i \in 1 .. N :
           LET low == IF i = 1 THEN 0 ELSE Top(big[i - 1])
           IN  /\ 2 * i \in 1 .. Len(rs) /\ 2 * i + 1 \in 1 .. Len(rs)
               /\ rs[2 * i] = Request(low, big[i].base - low)
               /\ rs[2 * i + 1] = When(big[i].type \notin Usable, big[i])
  <2>1. RequestsFor(rs, big)
    BY MapRequests
  <2>. QED
    BY <2>1 DEF RequestsFor
<1>4. a < Top(big[N])
  <2>1. a \notin Bytes(rs[1])
    BY <1>1, <1>3
  <2>2. N \in 1 .. N
    BY <1>1
  <2>3. ~(Top(big[N]) <= a /\ a < Top(big[N]) + (AddrLimit - Top(big[N])))
    BY <1>3, <2>1 DEF Bytes, Request
  <2>. QED
    BY <1>1, <1>2, <2>2, <2>3
<1>. DEFINE Past == {i \in 1 .. N : a < Top(big[i])}
<1>5. PICK i \in Past : \A k \in Past : i <= k
  <2>1. Past \subseteq Nat /\ N \in Past
    BY <1>1, <1>4
  <2>. HIDE DEF Past
  <2>. QED
    BY <2>1, LeastIsLeast DEF IsLeast
<1>6. i \in 1 .. N /\ a < Top(big[i])
  BY <1>5
<1>7. big[i].base <= a
  <2>. PICK low : low = IF i = 1 THEN 0 ELSE Top(big[i - 1])
    OBVIOUS
  <2>1. low \in Nat /\ low <= a
    <3>1. CASE i = 1
      BY <1>2, <3>1
    <3>2. CASE i # 1
      <4>1. i - 1 \in 1 .. N /\ ~(i <= i - 1)
        BY <1>6, <3>2
      <4>2. ~(a < Top(big[i - 1]))
        BY <1>5, <4>1
      <4>. QED
        BY <1>1, <1>2, <3>2, <4>1, <4>2
    <3>. QED
      BY <3>1, <3>2
  <2>2. 2 * i \in 1 .. Len(rs) /\ rs[2 * i] = Request(low, big[i].base - low)
    BY <1>3, <1>6
  <2>3. a \notin Bytes(Request(low, big[i].base - low))
    BY <2>2
  <2>4. ~(low <= a /\ a < low + (big[i].base - low))
    BY <2>3 DEF Bytes, Request
  <2>. QED
    BY <1>1, <1>2, <1>6, <2>1, <2>4
<1>8. a \in Bytes(big[i])
  BY <1>1, <1>6, <1>7 DEF Bytes
<1>9. big[i].type \in Usable
  <2>1. SUFFICES ASSUME big[i].type \notin Usable PROVE FALSE
    OBVIOUS
  <2>2. 2 * i + 1 \in 1 .. Len(rs) /\ rs[2 * i + 1] = When(big[i].type \notin Usable, big[i])
    BY <1>3, <1>6
  <2>3. rs[2 * i + 1] = Request(big[i].base, big[i].len)
    BY <2>1, <2>2 DEF When
  <2>4. a \notin Bytes(Request(big[i].base, big[i].len))
    BY <2>2, <2>3
  <2>. QED
    BY <1>8, <2>4 DEF Bytes, Request
<1>. QED
  BY <1>1, <1>6, <1>8, <1>9

\* The architecture's range and the firmware's tables.
LEMMA FixedRequests ==
  ASSUME NEW tables, tables \in Seq(AddrRange),
         \A i \in DOMAIN tables : InMemory(tables[i]),
         NEW rs, rs = <<Request(0, LowMegabyte)>> \o tables
  PROVE  /\ Len(rs) \in Nat /\ 1 \in 1 .. Len(rs) /\ rs[1] = Request(0, LowMegabyte)
         /\ \A k \in 1 .. Len(rs) : Pageable(rs[k])
<1>1. /\ AddrLimit \in Nat \ {0, 1} /\ PageSize \in Nat \ {0} /\ Addr = 0 .. AddrLimit - 1
      /\ LowMegabyte \in Nat /\ LowMegabyte < AddrLimit /\ LowMegabyte % PageSize = 0
      /\ AddrLimit % PageSize = 0
  BY AddressSpace, LowMemory DEF Addr
<1>2. LowMegabyte <= AddrLimit - PageSize
  <2>1. /\ LowMegabyte = (LowMegabyte \div PageSize) * PageSize + 0
        /\ LowMegabyte \div PageSize \in Nat
        /\ AddrLimit = (AddrLimit \div PageSize) * PageSize + 0
        /\ AddrLimit \div PageSize \in Nat
    BY <1>1, Division
  <2>2. PICK q \in Nat, k \in Nat :
          q = LowMegabyte \div PageSize /\ k = AddrLimit \div PageSize
    BY <2>1
  <2>3. /\ q * PageSize \in Nat /\ k * PageSize \in Nat
        /\ LowMegabyte = q * PageSize /\ AddrLimit = k * PageSize
    BY <1>1, <2>1, <2>2
  <2>4. q < k
    BY <1>1, <2>3
  <2>5. (q + 1) * PageSize <= k * PageSize
    BY <1>1, <2>4
  <2>6. (q + 1) * PageSize = q * PageSize + PageSize
    BY <1>1
  <2>. QED
    BY <1>1, <2>3, <2>5, <2>6
<1>. PICK n \in Nat : n = Len(tables)
  OBVIOUS
<1>3. /\ DOMAIN tables = 1 .. n /\ Len(rs) = n + 1 /\ rs[1] = Request(0, LowMegabyte)
      /\ \A k \in 1 .. n + 1 : k # 1 => k - 1 \in 1 .. n /\ rs[k] = tables[k - 1]
  OBVIOUS
<1>4. Pageable(rs[1])
  <2>1. Request(0, LowMegabyte) \in AddrRange
    BY <1>1 DEF Request, AddrRange
  <2>2. Top(Request(0, LowMegabyte)) <= AddrLimit - PageSize
    BY <1>1, <1>2 DEF Request, Top
  <2>. QED
    BY <1>3, <2>1, <2>2, LowPageable
<1>5. ASSUME NEW k \in 1 .. n + 1 PROVE Pageable(rs[k])
  <2>1. CASE k = 1
    BY <1>4, <2>1
  <2>2. CASE k # 1
    <3>1. PICK i \in 1 .. n : rs[k] = tables[i]
      BY <1>3, <2>2
    <3>2. InMemory(tables[i])
      BY <1>3
    <3>. QED
      BY <3>1, <3>2, LowPageable DEF InMemory
  <2>. QED
    BY <2>1, <2>2
<1>. QED
  BY <1>3, <1>5

\* The table once the boot services are gone.
LEMMA ShuttingDown ==
  ASSUME NEW m, FirmwareMap(m), NEW tables, tables \in Seq(AddrRange),
         \A i \in DOMAIN tables : InMemory(tables[i]),
         NEW big, big = e820_mmap_merge(m),
         NEW x, x = system_blacklist_memory(<< >>, big, tables)
  PROVE  \/ Covered(x)
         \/ /\ x.status \in {"SUCCESS", "OUT_OF_RESOURCES", "INVALID_PARAMETER"}
            /\ Tidy(x.table)
            /\ x.status = "SUCCESS" =>
                 Guarded(x.table) /\ \A a \in Addr \ TableBytes(x.table) : a \in Ram(big)
<1>. PICK fixed : fixed = <<Request(0, LowMegabyte)>> \o tables
  OBVIOUS
<1>. PICK arch : arch = BlacklistAll(<< >>, fixed)
  OBVIOUS
<1>. PICK rs : rs = E820Requests(big)
  OBVIOUS
<1>1. /\ AddrLimit \in Nat \ {0, 1} /\ PageSize \in Nat \ {0} /\ Addr = 0 .. AddrLimit - 1
      /\ LowMegabyte \in Nat /\ MaxAllocs \in Nat
  BY AddressSpace, LowMemory DEF Addr
<1>2. MergedMap(big, m)
  BY MapMerging
<1>3. /\ Len(fixed) \in Nat /\ 1 \in 1 .. Len(fixed) /\ fixed[1] = Request(0, LowMegabyte)
      /\ \A k \in 1 .. Len(fixed) : Pageable(fixed[k])
  BY FixedRequests
<1>4. Len(rs) \in Nat /\ \A k \in 1 .. Len(rs) : Pageable(rs[k])
  <2>1. Len(big) \in Nat
    BY <1>2 DEF MergedMap
  <2>. QED
    BY <1>2, <2>1, MapRequests DEF RequestsFor
<1>5. Tidy(<< >>)
  BY <1>1 DEF Tidy, GoodTable, Sane
<1>6. \/ Covered(arch)
      \/ /\ Adds(arch, << >>)
         /\ arch.status = "SUCCESS" =>
              \A i \in 1 .. Len(fixed) : Bytes(fixed[i]) \subseteq TableBytes(arch.table)
  BY <1>3, <1>5, Blacklisting
<1>7. x = e820_to_blacklist(arch, big)
  BY DEF system_blacklist_memory
<1>8. CASE arch.status # "SUCCESS"
  <2>1. x = arch
    BY <1>7, <1>8 DEF e820_to_blacklist
  <2>. QED
    BY <1>6, <1>8, <2>1 DEF Adds
<1>9. CASE arch.status = "SUCCESS" /\ ~e820_sanity_check(big)
  <2>1. x = [status |-> "INVALID_PARAMETER", addr |-> 0, table |-> arch.table]
    BY <1>7, <1>9 DEF e820_to_blacklist
  <2>2. x.status = "INVALID_PARAMETER" /\ x.table = arch.table
    BY <2>1
  <2>3. CASE Covered(arch)
    BY <2>2, <2>3 DEF Covered
  <2>4. CASE ~Covered(arch)
    <3>1. arch.status \in {"SUCCESS", "OUT_OF_RESOURCES"} /\ Tidy(arch.table)
      BY <1>6, <2>4 DEF Adds
    <3>. QED
      BY <2>2, <3>1
  <2>. QED
    BY <2>3, <2>4
<1>10. CASE arch.status = "SUCCESS" /\ e820_sanity_check(big)
  <2>1. x = BlacklistAll(arch.table, rs)
    BY <1>7, <1>10 DEF e820_to_blacklist
  <2>2. Tidy(arch.table) \/ arch.table = <<Request(0, 0)>>
    BY <1>6 DEF Covered, Adds
  <2>3. \/ Covered(x)
        \/ /\ Tidy(arch.table) /\ Adds(x, arch.table)
           /\ x.status = "SUCCESS" =>
                \A i \in 1 .. Len(rs) : Bytes(rs[i]) \subseteq TableBytes(x.table)
    BY <1>4, <2>1, <2>2, Blacklisting
  <2>4. SUFFICES ASSUME ~Covered(x)
                 PROVE  /\ x.status \in {"SUCCESS", "OUT_OF_RESOURCES"} /\ Tidy(x.table)
                        /\ x.status = "SUCCESS" =>
                             /\ Guarded(x.table)
                             /\ \A a \in Addr \ TableBytes(x.table) : a \in Ram(big)
    OBVIOUS
  <2>5. x.status \in {"SUCCESS", "OUT_OF_RESOURCES"} /\ Tidy(x.table)
    BY <2>3, <2>4 DEF Adds
  <2>6. SUFFICES ASSUME x.status = "SUCCESS"
                 PROVE  /\ Guarded(x.table)
                        /\ \A a \in Addr \ TableBytes(x.table) : a \in Ram(big)
    BY <2>5
  <2>7. \A i \in 1 .. Len(rs) : Bytes(rs[i]) \subseteq TableBytes(x.table)
    BY <2>3, <2>4, <2>6
  <2>8. Tidy(arch.table) /\ Adds(x, arch.table)
    BY <2>3, <2>4
  <2>9. ~Covered(arch)
    <3>1. ~Tidy(<<Request(0, 0)>>)
      BY DEF Tidy, GoodTable, Sane, Request
    <3>. QED
      BY <2>8, <3>1 DEF Covered
  <2>10. ASSUME NEW a \in Addr, a \notin TableBytes(x.table)
         PROVE  a \in Ram(big) /\ a # 0 /\ a # AddrLimit - 1
    <3>1. \A k \in 1 .. Len(rs) : a \notin Bytes(rs[k])
      BY <2>7, <2>10
    <3>2. PICK i \in DOMAIN big : big[i].type \in Usable /\ a \in Bytes(big[i])
      BY <1>2, <3>1, Unrequested
    <3>3. PICK j \in DOMAIN m : m[j].type = big[i].type /\ a \in Bytes(m[j])
      BY <1>2, <3>2 DEF MergedMap
    <3>4. a >= LowMegabyte
      <4>1. Bytes(fixed[1]) \subseteq TableBytes(arch.table)
        BY <1>3, <1>6, <1>10, <2>9
      <4>2. Bytes(Request(0, LowMegabyte)) \subseteq TableBytes(x.table)
        BY <1>3, <2>8, <4>1 DEF Adds
      <4>3. ~(0 <= a /\ a < 0 + LowMegabyte)
        BY <2>10, <4>2 DEF Bytes, Request
      <4>. QED
        BY <1>1, <4>3
    <3>5. a \in Ram(big)
      BY <3>2, <3>4 DEF Ram
    <3>6. /\ m[j].base \in Nat /\ m[j].len \in Nat
          /\ Top(m[j]) = m[j].base + m[j].len /\ Top(m[j]) <= AddrLimit - PageSize
      BY MapEntries DEF FirmwareMap
    <3>7. m[j].base <= a /\ a < m[j].base + m[j].len
      BY <3>3 DEF Bytes
    <3>8. a # AddrLimit - 1
      BY <1>1, <3>6, <3>7
    <3>9. a # 0
      <4>1. m[j].type \in Usable
        BY <3>2, <3>3
      <4>2. LowMegabyte > 0 \/ m[j].base > 0
        BY <4>1 DEF FirmwareMap
      <4>. QED
        BY <1>1, <3>4, <3>6, <3>7, <4>2
    <3>. QED
      BY <3>5, <3>8, <3>9
  <2>11. 0 \in Addr /\ AddrLimit - 1 \in Addr
    BY <1>1
  <2>. QED
    BY <2>5, <2>10, <2>11 DEF Guarded
<1>. QED
  BY <1>8, <1>9, <1>10

\* No request is for usable memory of the merged map.
LEMMA Requested ==
  ASSUME NEW m, NEW big, MergedMap(big, m), NEW rs, rs = E820Requests(big),
         NEW k \in 1 .. Len(rs), NEW a \in Bytes(rs[k]), NEW i \in DOMAIN big,
         big[i].type \in Usable
  PROVE  a \notin Bytes(big[i])
<1>. PICK N : N = Len(big)
  OBVIOUS
<1>1. /\ N \in Nat \ {0} /\ DOMAIN big = 1 .. N
      /\ \A n \in 1 .. N :
           /\ big[n].base \in Nat /\ big[n].len \in Nat
           /\ Top(big[n]) = big[n].base + big[n].len
           /\ Top(big[n]) \in Nat /\ big[n].base < Top(big[n])
  <2>1. Len(big) # 0
    BY DEF MergedMap
  <2>. QED
    BY <2>1, MapEntries DEF MergedMap
<1>2. AddrLimit \in Nat /\ a \in Nat /\ a < AddrLimit
  BY AddressSpace DEF Addr, Bytes
<1>3. /\ Len(rs) = 2 * N + 1
      /\ rs[1] = Request(Top(big[N]), AddrLimit - Top(big[N]))
      /\ \A n \in 1 .. N :
           LET low == IF n = 1 THEN 0 ELSE Top(big[n - 1])
           IN  /\ rs[2 * n] = Request(low, big[n].base - low)
               /\ rs[2 * n + 1] = When(big[n].type \notin Usable, big[n])
  <2>1. RequestsFor(rs, big)
    BY MapRequests
  <2>. QED
    BY <2>1 DEF RequestsFor
<1>4. \A n, p \in 1 .. N : n < p => Top(big[n]) <= big[p].base
  BY <1>1 DEF MergedMap
<1>. SUFFICES ASSUME a \in Bytes(big[i]) PROVE FALSE
  OBVIOUS
<1>5. i \in 1 .. N /\ big[i].base <= a /\ a < Top(big[i])
  BY <1>1 DEF Bytes
<1>6. CASE k = 1
  <2>1. Top(big[N]) <= a
    BY <1>3, <1>6 DEF Bytes, Request
  <2>2. i < N => Top(big[i]) <= big[N].base
    BY <1>1, <1>4, <1>5
  <2>3. N \in 1 .. N
    BY <1>1
  <2>. QED
    BY <1>1, <1>2, <1>5, <2>1, <2>2, <2>3
<1>7. CASE k # 1
  <2>1. PICK n \in 1 .. N : k = 2 * n \/ k = 2 * n + 1
    <3>1. k \div 2 \in 1 .. N /\ (k = 2 * (k \div 2) \/ k = 2 * (k \div 2) + 1)
      BY <1>1, <1>3, <1>7
    <3>. QED
      BY <3>1
  <2>2. CASE k = 2 * n
    <3>. PICK low : low = IF n = 1 THEN 0 ELSE Top(big[n - 1])
      OBVIOUS
    <3>1. a \in Bytes(Request(low, big[n].base - low))
      BY <1>3, <2>1, <2>2
    <3>2. low \in Nat
      BY <1>1, <2>1
    <3>3. low <= a /\ a < big[n].base
      <4>1. low <= a /\ a < low + (big[n].base - low)
        BY <3>1 DEF Bytes, Request
      <4>. QED
        BY <1>1, <1>2, <2>1, <3>2, <4>1
    <3>4. i < n => Top(big[i]) <= low
      <4>1. SUFFICES ASSUME i < n PROVE Top(big[i]) <= low
        OBVIOUS
      <4>2. n - 1 \in 1 .. N /\ low = Top(big[n - 1]) /\ (i < n - 1 \/ i = n - 1)
        BY <1>1, <1>5, <2>1, <4>1
      <4>3. i < n - 1 => Top(big[i]) <= big[n - 1].base
        BY <1>4, <1>5, <4>2
      <4>. QED
        BY <1>1, <1>5, <4>2, <4>3
    <3>5. n < i => Top(big[n]) <= big[i].base
      BY <1>4, <1>5, <2>1
    <3>. QED
      BY <1>1, <1>2, <1>5, <2>1, <3>2, <3>3, <3>4, <3>5
  <2>3. CASE k = 2 * n + 1
    <3>1. a \in Bytes(When(big[n].type \notin Usable, big[n]))
      BY <1>3, <2>1, <2>3
    <3>2. big[n].type \notin Usable
      <4>1. SUFFICES ASSUME big[n].type \in Usable PROVE FALSE
        OBVIOUS
      <4>2. a \in Bytes(Request(big[n].base, 0))
        BY <3>1, <4>1 DEF When
      <4>3. big[n].base <= a /\ a < big[n].base + 0
        BY <4>2 DEF Bytes, Request
      <4>. QED
        BY <1>1, <1>2, <2>1, <4>3
    <3>3. big[n].base <= a /\ a < Top(big[n])
      BY <3>1, <3>2, <1>1, <2>1 DEF When, Bytes, Request
    <3>4. i # n
      BY <3>2
    <3>5. (n < i => Top(big[n]) <= big[i].base) /\ (i < n => Top(big[i]) <= big[n].base)
      BY <1>4, <1>5, <2>1
    <3>. QED
      BY <1>1, <1>2, <1>5, <2>1, <3>3, <3>4, <3>5
  <2>. QED
    BY <2>1, <2>2, <2>3
<1>. QED
  BY <1>6, <1>7

\* What may not be given out: the low megabyte, the firmware's tables, and what
\* the merged map has no usable memory at.
Withheld(b, tables, big) ==
  \/ b < LowMegabyte
  \/ \E i \in DOMAIN tables : b \in Bytes(tables[i])
  \/ \A i \in DOMAIN big : big[i].type \in Usable => b \notin Bytes(big[i])

\* All of that is in the table once the boot services are gone, and every page in
\* the table has some of it.
LEMMA Accounted ==
  ASSUME NEW m, FirmwareMap(m), NEW tables, tables \in Seq(AddrRange),
         \A i \in DOMAIN tables : InMemory(tables[i]),
         NEW big, big = e820_mmap_merge(m),
         NEW x, x = system_blacklist_memory(<< >>, big, tables),
         ~Covered(x), x.status = "SUCCESS"
  PROVE  /\ \A b \in Addr : Withheld(b, tables, big) => b \in TableBytes(x.table)
         /\ \A a \in TableBytes(x.table) :
              \E b \in Addr : PAGE_ADDR(a) = PAGE_ADDR(b) /\ Withheld(b, tables, big)
<1>. PICK fixed : fixed = <<Request(0, LowMegabyte)>> \o tables
  OBVIOUS
<1>. PICK arch : arch = BlacklistAll(<< >>, fixed)
  OBVIOUS
<1>. PICK rs : rs = E820Requests(big)
  OBVIOUS
<1>1. /\ AddrLimit \in Nat \ {0, 1} /\ Addr = 0 .. AddrLimit - 1
      /\ LowMegabyte \in Nat /\ MaxAllocs \in Nat
  BY AddressSpace, LowMemory DEF Addr
<1>2. MergedMap(big, m)
  BY MapMerging
<1>3. /\ Len(fixed) \in Nat /\ 1 \in 1 .. Len(fixed) /\ fixed[1] = Request(0, LowMegabyte)
      /\ \A k \in 1 .. Len(fixed) : Pageable(fixed[k])
  BY FixedRequests
<1>4. /\ \A k \in 1 .. Len(fixed) : k # 1 => \E i \in DOMAIN tables : fixed[k] = tables[i]
      /\ \A i \in DOMAIN tables : \E k \in 1 .. Len(fixed) : fixed[k] = tables[i]
  <2>1. PICK n \in Nat : n = Len(tables)
    OBVIOUS
  <2>2. /\ DOMAIN tables = 1 .. n /\ Len(fixed) = n + 1
        /\ \A k \in 1 .. n + 1 : k # 1 => k - 1 \in 1 .. n /\ fixed[k] = tables[k - 1]
    BY <2>1
  <2>3. ASSUME NEW i \in DOMAIN tables PROVE \E k \in 1 .. Len(fixed) : fixed[k] = tables[i]
    <3>1. i \in 1 .. n
      BY <2>2
    <3>2. i + 1 \in 1 .. n + 1 /\ i + 1 # 1 /\ i + 1 - 1 = i
      BY <3>1
    <3>3. fixed[i + 1] = tables[i]
      BY <2>2, <3>2
    <3>. QED
      BY <2>2, <3>2, <3>3
  <2>4. ASSUME NEW k \in 1 .. Len(fixed), k # 1
        PROVE  \E i \in DOMAIN tables : fixed[k] = tables[i]
    BY <2>2, <2>4
  <2>. QED
    BY <2>3, <2>4
<1>5. Len(rs) \in Nat /\ \A k \in 1 .. Len(rs) : Pageable(rs[k])
  <2>1. Len(big) \in Nat
    BY <1>2 DEF MergedMap
  <2>. QED
    BY <1>2, <2>1, MapRequests DEF RequestsFor
<1>6. Tidy(<< >>) /\ TableBytes(<< >>) = {}
  BY <1>1 DEF Tidy, GoodTable, Sane, TableBytes
<1>7. \/ Covered(arch)
      \/ /\ Adds(arch, << >>)
         /\ arch.status = "SUCCESS" =>
              \A i \in 1 .. Len(fixed) : Bytes(fixed[i]) \subseteq TableBytes(arch.table)
         /\ OnlyAdds(arch, << >>, fixed, Len(fixed))
  BY <1>3, <1>6, Blacklisting
<1>8. x = e820_to_blacklist(arch, big)
  BY DEF system_blacklist_memory
<1>9. arch.status = "SUCCESS" /\ e820_sanity_check(big)
  <2>1. CASE arch.status # "SUCCESS"
    BY <1>8, <2>1 DEF e820_to_blacklist
  <2>2. CASE arch.status = "SUCCESS" /\ ~e820_sanity_check(big)
    BY <1>8, <2>2 DEF e820_to_blacklist
  <2>. QED
    BY <2>1, <2>2
<1>10. x = BlacklistAll(arch.table, rs)
  BY <1>8, <1>9 DEF e820_to_blacklist
<1>11. Tidy(arch.table) \/ arch.table = <<Request(0, 0)>>
  BY <1>7 DEF Covered, Adds
<1>12. /\ Tidy(arch.table) /\ Adds(x, arch.table)
       /\ \A i \in 1 .. Len(rs) : Bytes(rs[i]) \subseteq TableBytes(x.table)
       /\ OnlyAdds(x, arch.table, rs, Len(rs))
  BY <1>5, <1>10, <1>11, Blacklisting
<1>13. ~Covered(arch)
  <2>1. ~Tidy(<<Request(0, 0)>>)
    BY DEF Tidy, GoodTable, Sane, Request
  <2>. QED
    BY <1>12, <2>1 DEF Covered
<1>14. /\ \A i \in 1 .. Len(fixed) : Bytes(fixed[i]) \subseteq TableBytes(x.table)
       /\ OnlyAdds(arch, << >>, fixed, Len(fixed))
  BY <1>7, <1>9, <1>12, <1>13 DEF Adds
<1>15. ASSUME NEW b \in Addr, Withheld(b, tables, big) PROVE b \in TableBytes(x.table)
  <2>1. CASE b < LowMegabyte
    <3>1. b \in Bytes(fixed[1])
      BY <1>1, <1>3, <2>1 DEF Bytes, Request
    <3>. QED
      BY <1>3, <1>14, <3>1
  <2>2. CASE \E i \in DOMAIN tables : b \in Bytes(tables[i])
    BY <1>4, <1>14, <2>2
  <2>3. CASE \A i \in DOMAIN big : big[i].type \in Usable => b \notin Bytes(big[i])
    <3>1. PICK k \in 1 .. Len(rs) : b \in Bytes(rs[k])
      BY <1>2, <2>3, Unrequested
    <3>. QED
      BY <1>12, <3>1
  <2>. QED
    BY <1>15, <2>1, <2>2, <2>3 DEF Withheld
<1>16. ASSUME NEW a \in TableBytes(x.table)
       PROVE  \E b \in Addr : PAGE_ADDR(a) = PAGE_ADDR(b) /\ Withheld(b, tables, big)
  <2>1. CASE \E k \in 1 .. Len(rs) : a \in Touched(rs[k])
    <3>1. PICK k \in 1 .. Len(rs) : a \in Touched(rs[k])
      BY <2>1
    <3>2. PICK b \in Bytes(rs[k]) : PAGE_ADDR(a) = PAGE_ADDR(b)
      BY <3>1 DEF Touched
    <3>3. b \in Addr
      BY DEF Bytes
    <3>4. \A i \in DOMAIN big : big[i].type \in Usable => b \notin Bytes(big[i])
      BY <1>2, Requested
    <3>. QED
      BY <3>2, <3>3, <3>4 DEF Withheld
  <2>2. CASE a \in TableBytes(arch.table)
    <3>1. PICK k \in 1 .. Len(fixed) : a \in Touched(fixed[k])
      BY <1>6, <1>14, <2>2 DEF OnlyAdds
    <3>2. PICK b \in Bytes(fixed[k]) : PAGE_ADDR(a) = PAGE_ADDR(b)
      BY <3>1 DEF Touched
    <3>3. b \in Addr
      BY DEF Bytes
    <3>4. CASE k = 1
      <4>1. b < LowMegabyte
        BY <1>1, <1>3, <3>4 DEF Bytes, Request
      <4>. QED
        BY <3>2, <3>3, <4>1 DEF Withheld
    <3>5. CASE k # 1
      <4>1. \E i \in DOMAIN tables : b \in Bytes(tables[i])
        BY <1>4, <3>5
      <4>. QED
        BY <3>2, <3>3, <4>1 DEF Withheld
    <3>. QED
      BY <3>4, <3>5
  <2>. QED
    BY <1>12, <2>1, <2>2 DEF OnlyAdds
<1>. QED
  BY <1>15, <1>16

\* A page of RAM, as the property has it.
RamPage(p, m, tables) ==
  LET page == Request(p, PageSize)
  IN  /\ \A a \in page.base .. Top(page) - 1 :
           \E i \in DOMAIN m : m[i].base <= a /\ a < Top(m[i])
      /\ \A i \in DOMAIN m : m[i].type \notin Usable => ApartFrom(page, m[i])
      /\ p >= LowMegabyte
      /\ \A i \in DOMAIN tables : ApartFrom(page, tables[i])

\* A page that has nothing withheld is a page of RAM, and the reverse.
LEMMA PagesOfRam ==
  ASSUME NEW m, FirmwareMap(m), RangesApart(m),
         NEW tables, tables \in Seq(AddrRange),
         \A i \in DOMAIN tables : InMemory(tables[i]) /\ tables[i].len > 0,
         NEW p \in Addr, p % PageSize = 0
  PROVE  /\ Lies(Request(p, PageSize))
         /\ RamPage(p, m, tables)
              <=> \A b \in Bytes(Request(p, PageSize)) :
                    ~Withheld(b, tables, e820_mmap_merge(m))
<1>. PICK big : big = e820_mmap_merge(m)
  OBVIOUS
<1>. PICK page : page = Request(p, PageSize)
  OBVIOUS
<1>1. /\ AddrLimit \in Nat \ {0, 1} /\ PageSize \in Nat \ {0} /\ Addr = 0 .. AddrLimit - 1
      /\ AddrLimit % PageSize = 0 /\ PageSize < AddrLimit /\ p \in Nat /\ p < AddrLimit
      /\ LowMegabyte \in Nat
  BY AddressSpace, LowMemory, Trampoline DEF Addr
<1>2. /\ page.base = p /\ page.len = PageSize /\ Top(page) = p + PageSize
  BY DEF Request, Top
<1>3. p + PageSize <= AddrLimit
  BY <1>1, PagesStep
<1>4. Lies(page)
  BY <1>1, <1>2, <1>3 DEF Lies
<1>5. /\ \A b : b \in Bytes(page) <=> b \in p .. p + PageSize - 1
      /\ p \in Bytes(page)
  BY <1>1, <1>2, <1>3 DEF Bytes
<1>6. /\ DOMAIN m = 1 .. Len(m)
      /\ \A i \in DOMAIN m : Lies(m[i]) /\ Top(m[i]) = m[i].base + m[i].len
  <2>1. /\ DOMAIN m = 1 .. Len(m)
        /\ \A i \in 1 .. Len(m) : /\ m[i].base \in Addr /\ m[i].len \in Addr \ {0}
                                  /\ Top(m[i]) \in Nat /\ Top(m[i]) < AddrLimit
    BY MapEntries DEF FirmwareMap
  <2>2. \A i \in 1 .. Len(m) : Top(m[i]) <= AddrLimit
    BY <1>1, <2>1
  <2>. QED
    BY <2>1, <2>2 DEF Lies, Top
<1>7. \A i \in DOMAIN tables : Lies(tables[i])
  <2>. SUFFICES ASSUME NEW i \in DOMAIN tables PROVE Lies(tables[i])
    OBVIOUS
  <2>1. tables[i] \in AddrRange /\ Top(tables[i]) <= AddrLimit - PageSize /\ tables[i].len > 0
    BY DEF InMemory
  <2>2. tables[i].base \in Nat /\ tables[i].len \in Nat
    BY <1>1, <2>1 DEF AddrRange
  <2>. QED
    BY <1>1, <2>1, <2>2 DEF Lies, AddrRange, Top
<1>8. MergedMap(big, m)
  BY MapMerging
<1>9. RamPage(p, m, tables)
        <=> /\ \A a \in page.base .. Top(page) - 1 :
                 \E i \in DOMAIN m : m[i].base <= a /\ a < Top(m[i])
            /\ \A i \in DOMAIN m : m[i].type \notin Usable => ApartFrom(page, m[i])
            /\ p >= LowMegabyte
            /\ \A i \in DOMAIN tables : ApartFrom(page, tables[i])
  BY Zenon DEF RamPage
<1>10. page.base .. Top(page) - 1 = p .. p + PageSize - 1
  BY <1>1, <1>2
<1>11. ASSUME \A b \in Bytes(page) : ~Withheld(b, tables, big)
       PROVE  RamPage(p, m, tables)
  <2>1. ASSUME NEW b \in Bytes(page)
        PROVE  \E j \in DOMAIN m : m[j].type \in Usable /\ b \in Bytes(m[j])
    <3>1. PICK i \in DOMAIN big : big[i].type \in Usable /\ b \in Bytes(big[i])
      BY <1>11 DEF Withheld
    <3>2. PICK j \in DOMAIN m : m[j].type = big[i].type /\ b \in Bytes(m[j])
      BY <1>8, <3>1 DEF MergedMap
    <3>. QED
      BY <3>1, <3>2
  <2>2. \A a \in p .. p + PageSize - 1 :
          \E i \in DOMAIN m : m[i].base <= a /\ a < Top(m[i])
    BY <1>5, <1>6, <2>1 DEF Bytes
  <2>3. ASSUME NEW i \in DOMAIN m, m[i].type \notin Usable PROVE ApartFrom(page, m[i])
    <3>1. ASSUME NEW b \in Bytes(page), b \in Bytes(m[i]) PROVE FALSE
      <4>1. PICK j \in DOMAIN m : m[j].type \in Usable /\ b \in Bytes(m[j])
        BY <2>1
      <4>2. ApartFrom(m[i], m[j])
        BY <2>3, <4>1 DEF FirmwareMap
      <4>. QED
        BY <1>6, <3>1, <4>1, <4>2, SharedByte
    <3>. QED
      BY <1>4, <1>6, <3>1, Disjoint
  <2>4. p >= LowMegabyte
    <3>1. ~Withheld(p, tables, big)
      BY <1>5, <1>11
    <3>. QED
      BY <1>1, <3>1 DEF Withheld
  <2>5. ASSUME NEW i \in DOMAIN tables PROVE ApartFrom(page, tables[i])
    <3>1. ASSUME NEW b \in Bytes(page), b \in Bytes(tables[i]) PROVE FALSE
      BY <1>11, <3>1 DEF Withheld
    <3>. QED
      BY <1>4, <1>7, <3>1, Disjoint
  <2>. QED
    BY <1>9, <1>10, <2>2, <2>3, <2>4, <2>5
<1>12. ASSUME RamPage(p, m, tables), NEW b \in Bytes(page)
       PROVE  ~Withheld(b, tables, big)
  <2>1. /\ \A a \in p .. p + PageSize - 1 :
              \E i \in DOMAIN m : m[i].base <= a /\ a < Top(m[i])
        /\ \A i \in DOMAIN m : m[i].type \notin Usable => ApartFrom(page, m[i])
        /\ p >= LowMegabyte
        /\ \A i \in DOMAIN tables : ApartFrom(page, tables[i])
    BY <1>9, <1>10, <1>12
  <2>2. ~(b < LowMegabyte)
    BY <1>1, <1>5, <2>1
  <2>3. \A i \in DOMAIN tables : b \notin Bytes(tables[i])
    BY <1>4, <1>7, <2>1, SharedByte
  <2>4. PICK i \in DOMAIN m : m[i].base <= b /\ b < Top(m[i])
    BY <1>5, <2>1
  <2>5. b \in Bytes(m[i])
    <3>1. b \in Addr
      BY DEF Bytes
    <3>. QED
      BY <1>6, <2>4, <3>1 DEF Bytes
  <2>6. m[i].type \in Usable
    BY <1>4, <1>6, <2>1, <2>5, SharedByte
  <2>7. PICK a \in DOMAIN big : big[a].type = m[i].type /\ Bytes(m[i]) \subseteq Bytes(big[a])
    BY MergingKeeps
  <2>. QED
    BY <2>2, <2>3, <2>5, <2>6, <2>7 DEF Withheld
<1>. QED
  BY <1>4, <1>11, <1>12

\* When the boot services are gone, the pages that no entry of the table touches
\* are the pages of RAM.
LEMMA NoPageLost ==
  ASSUME NEW m, FirmwareMap(m), RangesApart(m),
         NEW tables, tables \in Seq(AddrRange),
         \A i \in DOMAIN tables : InMemory(tables[i]) /\ tables[i].len > 0,
         NEW x, x = system_blacklist_memory(<< >>, e820_mmap_merge(m), tables),
         ~Covered(x), x.status = "SUCCESS",
         NEW p \in Addr, p % PageSize = 0
  PROVE  (\A i \in DOMAIN x.table : ApartFrom(Request(p, PageSize), x.table[i]))
           <=> RamPage(p, m, tables)
<1>. PICK big : big = e820_mmap_merge(m)
  OBVIOUS
<1>. PICK page : page = Request(p, PageSize)
  OBVIOUS
<1>. PICK t : t = x.table
  OBVIOUS
<1>1. GoodTable(t)
  BY ShuttingDown DEF Tidy
<1>2. /\ DOMAIN t = 1 .. Len(t) /\ \A i \in DOMAIN t : Lies(t[i])
  <2>1. t \in Seq(AddrRange) /\ DOMAIN t = 1 .. Len(t)
    BY <1>1 DEF GoodTable
  <2>2. \A i \in 1 .. Len(t) : Good(t[i])
    BY <1>1, GoodEntries
  <2>3. \A r : Good(r) => Lies(r)
    BY AddressSpace DEF Good, Lies, AddrRange, Addr
  <2>. QED
    BY <2>1, <2>2, <2>3
<1>3. /\ Lies(page)
      /\ RamPage(p, m, tables) <=> \A b \in Bytes(page) : ~Withheld(b, tables, big)
  BY PagesOfRam
<1>4. /\ \A b \in Addr : Withheld(b, tables, big) => b \in TableBytes(t)
      /\ \A a \in TableBytes(t) :
           \E b \in Addr : PAGE_ADDR(a) = PAGE_ADDR(b) /\ Withheld(b, tables, big)
  BY Accounted
<1>5. (\A i \in DOMAIN t : ApartFrom(page, t[i])) <=> Bytes(page) \cap TableBytes(t) = {}
  <2>1. ASSUME \A i \in DOMAIN t : ApartFrom(page, t[i]), NEW b \in Bytes(page)
        PROVE  b \notin TableBytes(t)
    BY <1>2, <1>3, <2>1, SharedByte DEF TableBytes
  <2>2. ASSUME Bytes(page) \cap TableBytes(t) = {}, NEW i \in DOMAIN t
        PROVE  ApartFrom(page, t[i])
    <3>1. Bytes(t[i]) \subseteq TableBytes(t)
      BY <1>2 DEF TableBytes
    <3>2. Bytes(page) \cap Bytes(t[i]) = {}
      BY <2>2, <3>1
    <3>. QED
      BY <1>2, <1>3, <3>2, Disjoint
  <2>. QED
    BY <2>1, <2>2
<1>6. \A b \in Addr : PAGE_ADDR(b) = p <=> b \in Bytes(page)
  <2>. SUFFICES ASSUME NEW b \in Addr PROVE PAGE_ADDR(b) = p <=> b \in Bytes(page)
    OBVIOUS
  <2>1. b \in Nat /\ p \in Nat /\ PageSize \in Nat
    BY AddressSpace DEF Addr
  <2>2. /\ PAGE_ADDR(b) <= b /\ b < PAGE_ADDR(b) + PageSize
        /\ p <= b /\ b < p + PageSize => PAGE_ADDR(b) = p
    BY <2>1, PageOf
  <2>3. b \in Bytes(page) <=> p <= b /\ b < p + PageSize
    BY DEF Bytes, Request
  <2>. QED
    BY <2>2, <2>3
<1>7. (\A b \in Bytes(page) : ~Withheld(b, tables, big))
        <=> Bytes(page) \cap TableBytes(t) = {}
  <2>1. Bytes(page) \subseteq Addr /\ TableBytes(t) \subseteq Addr
    BY DEF Bytes, TableBytes
  <2>2. ASSUME \A b \in Bytes(page) : ~Withheld(b, tables, big), NEW a \in Bytes(page)
        PROVE  a \notin TableBytes(t)
    <3>1. SUFFICES ASSUME a \in TableBytes(t) PROVE FALSE
      OBVIOUS
    <3>2. PICK b \in Addr : PAGE_ADDR(a) = PAGE_ADDR(b) /\ Withheld(b, tables, big)
      BY <1>4, <3>1
    <3>3. b \in Bytes(page)
      BY <1>6, <2>1, <3>2
    <3>. QED
      BY <2>2, <3>2, <3>3
  <2>. QED
    BY <1>4, <2>1, <2>2
<1>. QED
  BY <1>3, <1>5, <1>7

-----------------------------------------------------------------------------
(* alloc, when the first and the last address are taken.                    *)

\* A call that gives memory gives what nobody has.
Gives(x, t, size) ==
  LET r == Request(x.addr, size)
  IN  /\ Takes(x, t, r)
      /\ x.addr \in Addr /\ x.addr # 0 /\ x.addr + size < AddrLimit
      /\ Bytes(r) \cap TableBytes(t) = {}

\* The outcomes of a call.
Answers(x, t, size) ==
  \/ Covered(x) /\ x.status = "SUCCESS" /\ x.addr # 0
  \/ Gives(x, t, size)
  \/ Refuses(x, t)

LEMMA GuardedGrows ==
  ASSUME NEW t, Guarded(t), NEW x
  PROVE  /\ t # << >> /\ GoodTable(t) /\ Len(t) <= MaxAllocs
         /\ Refuses(x, t) => x.table = t /\ Adds(x, t) /\ x.status = "OUT_OF_RESOURCES"
         /\ \A size : Gives(x, t, size) =>
              /\ Adds(x, t) /\ x.status = "SUCCESS"
              /\ Bytes(Request(x.addr, size)) \subseteq TableBytes(x.table)
         /\ Adds(x, t) => Guarded(x.table)
<1>1. t # << >>
  <2>1. TableBytes(<< >>) = {}
    BY DEF TableBytes
  <2>. QED
    BY <2>1 DEF Guarded
<1>. QED
  BY <1>1 DEF Guarded, Tidy, Refuses, Adds, Gives, Takes

\* A range that overlaps no entry does not wrap, and does not begin at 0.
LEMMA FreeInside ==
  ASSUME NEW t, Guarded(t), NEW r, r \in AddrRange, r.len > 0, is_free_mem(t, r)
  PROVE  /\ Good(r) /\ r.base # 0 /\ Top(r) < AddrLimit
         /\ Bytes(r) \cap TableBytes(t) = {}
<1>1. /\ AddrLimit \in Nat \ {0, 1} /\ Addr = 0 .. AddrLimit - 1
      /\ r.base \in 0 .. AddrLimit - 1 /\ r.len \in 1 .. AddrLimit - 1
      /\ Top(r) = r.base + r.len
  BY AddressSpace DEF AddrRange, Addr, Top
<1>2. GoodTable(t) /\ \A i \in 1 .. Len(t) :
        /\ t[i].base \in 0 .. AddrLimit - 1 /\ Top(t[i]) \in 1 .. AddrLimit
        /\ t[i].base < Top(t[i]) /\ Good(t[i]) /\ ~is_overlap(r, t[i])
        /\ \A a \in Bytes(t[i]) : t[i].base <= a /\ a < Top(t[i])
  <2>1. GoodTable(t)
    BY DEF Guarded, Tidy
  <2>. QED
    BY <2>1, GoodEntries DEF is_free_mem, Bytes, Top
<1>3. PICK i \in 1 .. Len(t) : AddrLimit - 1 \in Bytes(t[i])
  BY DEF Guarded, TableBytes
<1>4. Top(t[i]) = AddrLimit
  <2>1. AddrLimit - 1 < Top(t[i]) /\ Top(t[i]) \in 1 .. AddrLimit
    BY <1>2, <1>3
  <2>. QED
    BY <1>1, <2>1
<1>5. Overflows(t[i])
  BY <1>2, <1>4, Ends
<1>6. ~(t[i].base < r.base) /\ ~Overflows(r)
  BY <1>2, <1>5 DEF is_overlap, Lower
<1>7. Top(r) <= AddrLimit
  <2>1. SUFFICES ASSUME Top(r) > AddrLimit PROVE FALSE
    BY <1>1
  <2>2. Top(r) \in AddrLimit .. 2 * AddrLimit - 1
    BY <1>1, <2>1
  <2>3. End(r) = Top(r) - AddrLimit
    BY <2>2, WrapOver DEF End, Top
  <2>. QED
    BY <1>1, <1>6, <2>3 DEF Overflows
<1>8. Good(r)
  BY <1>7 DEF Good
<1>9. Bytes(r) \cap TableBytes(t) = {}
  BY <1>2, <1>8, FreeIsFree
<1>10. Top(r) # AddrLimit
  BY <1>6, <1>8, Ends
<1>11. r.base # 0
  <2>1. SUFFICES ASSUME r.base = 0 PROVE FALSE
    OBVIOUS
  <2>2. 0 \in Bytes(r)
    BY <1>1, <2>1 DEF Bytes
  <2>. QED
    BY <1>9, <2>2 DEF Guarded
<1>. QED
  BY <1>1, <1>7, <1>8, <1>9, <1>10, <1>11

LEMMA AllocatingFixed ==
  ASSUME NEW t, Guarded(t), NEW addr \in Addr, NEW size \in Addr \ {0}, NEW align,
         NEW x, x = alloc(t, addr, size, align, "FIXED")
  PROVE  Answers(x, t, size) /\ (Gives(x, t, size) => x.addr = addr)
<1>. DEFINE r == [base |-> addr, len |-> size]
<1>1. r \in AddrRange /\ r.len > 0 /\ r.base = addr /\ r.len = size /\ size > 0
  BY AddressSpace DEF AddrRange, Addr
<1>2. t # << >> /\ GoodTable(t) /\ Tidy(t)
  BY GuardedGrows DEF Guarded
<1>3. x = IF is_free_mem(t, r) THEN Commit(t, r) ELSE Failure(t)
  BY <1>1 DEF alloc
<1>4. CASE ~is_free_mem(t, r)
  <2>1. Refuses(x, t)
    BY <1>2, <1>3, <1>4, SanityHolds DEF Failure, Refuses
  <2>. QED
    BY <2>1 DEF Answers, Refuses, Gives, Takes
<1>5. CASE is_free_mem(t, r)
  <2>1. /\ Good(r) /\ r.base # 0 /\ Top(r) < AddrLimit
        /\ Bytes(r) \cap TableBytes(t) = {}
    BY <1>1, <1>5, FreeInside
  <2>2. x = Commit(t, r)
    BY <1>3, <1>5
  <2>3. \/ Covered(x) /\ x.status = "SUCCESS"
        \/ Takes(x, t, r)
        \/ Refuses(x, t)
    BY <1>2, <2>1, <2>2, Entering
  <2>4. x.status = "SUCCESS" => x.addr = addr
    <3>1. alloc_add(t, r).status # "SUCCESS" => x.status # "SUCCESS"
      BY <2>2 DEF Commit, Failure
    <3>2. alloc_add(t, r).status = "SUCCESS" => x.addr = addr
      BY <2>2 DEF Commit
    <3>. QED
      BY <3>1, <3>2
  <2>5. Takes(x, t, r) => Gives(x, t, size)
    <3>1. SUFFICES ASSUME Takes(x, t, r) PROVE Gives(x, t, size)
      OBVIOUS
    <3>2. x.addr = addr
      BY <2>4, <3>1 DEF Takes
    <3>3. Request(x.addr, size) = r
      BY <3>2 DEF Request
    <3>. QED
      BY <2>1, <3>1, <3>2, <3>3 DEF Gives, Top
  <2>6. Gives(x, t, size) => x.addr = addr
    BY <2>4 DEF Gives, Takes
  <2>. QED
    BY <1>1, <2>1, <2>3, <2>4, <2>5, <2>6 DEF Answers
<1>. QED
  BY <1>4, <1>5

LEMMA AllocatingAny ==
  ASSUME NEW t, Guarded(t), NEW addr, NEW size \in Addr \ {0},
         NEW align \in 1 .. AddrLimit - 1, NEW option \in {"ANY", "32BIT"},
         NEW x, x = alloc(t, addr, size, align, option)
  PROVE  /\ Answers(x, t, size)
         /\ (Gives(x, t, size) => x.addr % align = 0)
         /\ (Gives(x, t, size) /\ option = "32BIT" => x.addr + size <= MaxAddr32)
<1>1. /\ AddrLimit \in Nat \ {0, 1} /\ Addr = 0 .. AddrLimit - 1
      /\ size > 0 /\ align \in 1 .. AddrLimit - 1
  BY AddressSpace DEF Addr
<1>2. t # << >> /\ GoodTable(t) /\ Tidy(t)
  BY GuardedGrows DEF Guarded
<1>. PICK found : found = find_free_mem(t, size, align, option)
  OBVIOUS
<1>. DEFINE r == [base |-> found.addr, len |-> size]
<1>3. x = IF found.status = "SUCCESS" THEN Commit(t, r) ELSE Failure(t)
  BY <1>1 DEF alloc
<1>4. CASE found.status # "SUCCESS"
  <2>1. Refuses(x, t)
    BY <1>2, <1>3, <1>4, SanityHolds DEF Failure, Refuses
  <2>. QED
    BY <2>1 DEF Answers, Refuses, Gives, Takes
<1>5. CASE found.status = "SUCCESS"
  <2>1. /\ found.addr \in Addr /\ found.addr + size <= AddrLimit
        /\ found.addr % align = 0 /\ Bytes(r) \cap TableBytes(t) = {}
        /\ option = "32BIT" => found.addr + size <= MaxAddr32
    BY <1>1, <1>2, <1>5, FoundIsFree
  <2>2. r.base = found.addr /\ r.len = size
    OBVIOUS
  <2>3. Good(r)
    BY <1>1, <2>1 DEF Good, AddrRange, Top
  <2>4. found.addr # 0
    <3>1. SUFFICES ASSUME found.addr = 0 PROVE FALSE
      OBVIOUS
    <3>2. 0 \in Bytes(r)
      BY <1>1, <2>1, <3>1 DEF Bytes
    <3>. QED
      BY <2>1, <3>2 DEF Guarded
  <2>5. found.addr + size < AddrLimit
    <3>1. SUFFICES ASSUME found.addr + size = AddrLimit PROVE FALSE
      BY <1>1, <2>1
    <3>2. AddrLimit - 1 \in Bytes(r)
      BY <1>1, <2>1, <3>1 DEF Bytes
    <3>. QED
      BY <2>1, <3>2 DEF Guarded
  <2>6. x = Commit(t, r)
    BY <1>3, <1>5
  <2>. HIDE DEF r
  <2>7. \/ Covered(x) /\ x.status = "SUCCESS"
        \/ Takes(x, t, r)
        \/ Refuses(x, t)
    BY <1>2, <2>3, <2>6, Entering
  <2>8. x.status = "SUCCESS" => x.addr = found.addr
    <3>1. alloc_add(t, r).status # "SUCCESS" => x.status # "SUCCESS"
      BY <2>6 DEF Commit, Failure
    <3>2. alloc_add(t, r).status = "SUCCESS" => x.addr = r.base
      BY <2>6 DEF Commit
    <3>. QED
      BY <2>2, <3>1, <3>2
  <2>9. Takes(x, t, r) => Gives(x, t, size)
    <3>1. SUFFICES ASSUME Takes(x, t, r) PROVE Gives(x, t, size)
      OBVIOUS
    <3>2. x.addr = found.addr
      BY <2>8, <3>1 DEF Takes
    <3>3. Request(x.addr, size) = r
      BY <3>2 DEF Request, r
    <3>. QED
      BY <2>1, <2>4, <2>5, <3>1, <3>2, <3>3 DEF Gives
  <2>10. Gives(x, t, size) => x.addr % align = 0
    BY <2>1, <2>8 DEF Gives, Takes
  <2>11. Gives(x, t, size) /\ option = "32BIT" => x.addr + size <= MaxAddr32
    BY <2>1, <2>8 DEF Gives, Takes
  <2>. QED
    BY <2>4, <2>7, <2>8, <2>9, <2>10, <2>11 DEF Answers
<1>. QED
  BY <1>4, <1>5

-----------------------------------------------------------------------------
(* Rounding up, and the multiples of an alignment.                          *)

LEMMA MultiplesApart ==
  ASSUME NEW u \in Nat \ {0}, NEW p \in Int, NEW q \in Int, NEW w \in Int,
         w <= p * u, p * u < w + u, w <= q * u, q * u < w + u
  PROVE  p = q
<1>1. CASE p < q
  <2>1. q >= p + 1 /\ u \in Nat
    BY <1>1
  <2>2. (q - (p + 1)) * u >= 0
    BY <2>1
  <2>3. (q - (p + 1)) * u = q * u - p * u - u
    OBVIOUS
  <2>. QED
    BY <2>2, <2>3
<1>2. CASE q < p
  <2>1. p >= q + 1 /\ u \in Nat
    BY <1>2
  <2>2. (p - (q + 1)) * u >= 0
    BY <2>1
  <2>3. (p - (q + 1)) * u = p * u - q * u - u
    OBVIOUS
  <2>. QED
    BY <2>2, <2>3
<1>. QED
  BY <1>1, <1>2

\* What the rounded number is before it wraps.
LEMMA RoundingExact ==
  ASSUME NEW n \in Nat, NEW u \in Nat \ {0}
  PROVE  \E q \in Nat :
           /\ roundup64(n, u) = Wrap(q * u)
           /\ n <= q * u /\ q * u < n + u
<1>1. /\ n = (n \div u) * u + (n % u)
      /\ n % u \in 0 .. u - 1 /\ n \div u \in Nat
  BY Division
<1>. PICK d : d = n \div u
  OBVIOUS
<1>2. (d + 1) * u = d * u + u /\ (d + 0) * u = d * u /\ d * u \in Nat /\ (d + 1) * u \in Nat
  BY <1>1
<1>3. CASE n % u > 0
  <2>1. roundup64(n, u) = Wrap((d + 1) * u)
    BY <1>3 DEF roundup64
  <2>2. n <= (d + 1) * u /\ (d + 1) * u < n + u
    BY <1>1, <1>2, <1>3
  <2>3. d + 1 \in Nat
    BY <1>1
  <2>. QED
    BY <2>1, <2>2, <2>3
<1>4. CASE ~(n % u > 0)
  <2>1. roundup64(n, u) = Wrap((d + 0) * u)
    BY <1>4 DEF roundup64
  <2>2. n <= d * u /\ d * u < n + u
    BY <1>1, <1>2, <1>4
  <2>. QED
    BY <1>1, <1>2, <2>1, <2>2
<1>. QED
  BY <1>3, <1>4

LEMMA RoundUp ==
  ASSUME NEW n \in Nat, NEW u \in 1 .. AddrLimit - 1, n + u - 1 < AddrLimit,
         NEW y, y = roundup64(n, u)
  PROVE  y \in Nat /\ n <= y /\ y <= n + u - 1 /\ y % u = 0
<1>1. AddrLimit \in Nat /\ u \in Nat \ {0}
  BY AddressSpace
<1>2. PICK q \in Nat : y = Wrap(q * u) /\ n <= q * u /\ q * u < n + u
  BY <1>1, RoundingExact
<1>3. q * u \in Nat
  BY <1>1
<1>4. (q * u) % u = 0
  BY <1>1, Multiple
<1>. PICK z : z = q * u
  OBVIOUS
<1>5. z \in 0 .. AddrLimit - 1
  BY <1>1, <1>2, <1>3
<1>6. y = z
  BY <1>2, <1>5, WrapSmall
<1>. QED
  BY <1>1, <1>2, <1>4, <1>5, <1>6

\* Rounding moves with an aligned start.
LEMMA RoundShifted ==
  ASSUME NEW n \in Nat, NEW u \in 1 .. AddrLimit - 1, n + u - 1 < AddrLimit,
         NEW start \in Nat, start % u = 0,
         NEW y, y = roundup64(n, u), start + y < AddrLimit
  PROVE  roundup64(start + n, u) = start + y
<1>1. AddrLimit \in Nat /\ u \in Nat \ {0} /\ start + n \in Nat
  BY AddressSpace
<1>2. y \in Nat /\ n <= y /\ y <= n + u - 1 /\ y % u = 0
  BY RoundUp
<1>3. PICK q \in Nat : /\ roundup64(start + n, u) = Wrap(q * u)
                       /\ start + n <= q * u /\ q * u < start + n + u
  BY <1>1, RoundingExact
<1>4. start = (start \div u) * u + 0 /\ start \div u \in Nat
  BY <1>1, Division
<1>5. y = (y \div u) * u + 0 /\ y \div u \in Nat
  BY <1>1, <1>2, Division, ZenonT(60)
<1>. PICK a, b : a = start \div u /\ b = y \div u
  OBVIOUS
<1>11. a \in Nat /\ b \in Nat
  BY <1>4, <1>5
<1>6. (a + b) * u = a * u + b * u
  BY <1>1, <1>11
<1>7. start + y = (a + b) * u
  BY <1>4, <1>5, <1>6
<1>8. start + n <= (a + b) * u /\ (a + b) * u < start + n + u
  BY <1>1, <1>2, <1>7
<1>9. q = a + b
  <2>1. q \in Int /\ a + b \in Int /\ start + n \in Int
    BY <1>1, <1>11
  <2>. QED
    BY <1>1, <1>3, <1>8, <2>1, MultiplesApart
<1>10. roundup64(start + n, u) = Wrap(start + y)
  BY <1>3, <1>7, <1>9
<1>. QED
  BY <1>1, <1>2, <1>10, WrapSmall

\* When it wraps, it wraps to a multiple of the alignment.
LEMMA RoundWrapped ==
  ASSUME NEW n \in Addr, NEW u, Alignment(u), NEW y, y = roundup64(n, u)
  PROVE  y \in Addr /\ y % u = 0
<1>1. /\ AddrLimit \in Nat \ {0, 1} /\ u \in Nat \ {0} /\ n \in Nat /\ n < AddrLimit
      /\ u < AddrLimit /\ AddrLimit % u = 0
  BY AddressSpace DEF Alignment, Addr
<1>2. PICK q \in Nat : y = Wrap(q * u) /\ n <= q * u /\ q * u < n + u
  BY <1>1, RoundingExact
<1>3. AddrLimit = (AddrLimit \div u) * u + 0 /\ AddrLimit \div u \in Nat
  BY <1>1, Division
<1>. PICK k : k = AddrLimit \div u
  OBVIOUS
<1>7. k \in Nat
  BY <1>3
<1>4. (q - k) * u = q * u - k * u /\ q * u \in Nat /\ (q * u) % u = 0
  <2>1. (q * u) % u = 0
    BY <1>1, Multiple
  <2>. QED
    BY <1>1, <1>7, <2>1
<1>. PICK z : z = q * u
  OBVIOUS
<1>5. CASE q * u < AddrLimit
  <2>1. z \in 0 .. AddrLimit - 1 /\ z % u = 0
    BY <1>1, <1>4, <1>5
  <2>2. y = z
    BY <1>2, <2>1, WrapSmall
  <2>. QED
    BY <2>1, <2>2 DEF Addr
<1>6. CASE ~(q * u < AddrLimit)
  <2>1. y = q * u - AddrLimit
    <3>1. z \in AddrLimit .. 2 * AddrLimit - 1
      BY <1>1, <1>2, <1>4, <1>6
    <3>. QED
      BY <1>2, <3>1, WrapOver
  <2>2. y = (q - k) * u
    <3>1. AddrLimit = k * u
      BY <1>1, <1>3, <1>7
    <3>. QED
      BY <1>4, <2>1, <3>1
  <2>3. q - k \in Nat
    <3>1. SUFFICES ASSUME q < k PROVE FALSE
      BY <1>3
    <3>4. k - q \in Nat \ {0}
      BY <1>7, <3>1
    <3>2. (k - q) * u > 0
      BY <1>1, <3>4
    <3>3. (k - q) * u = k * u - q * u
      BY <1>1, <1>7
    <3>5. AddrLimit = k * u
      BY <1>1, <1>3, <1>7
    <3>. QED
      BY <1>1, <1>4, <1>6, <3>2, <3>3, <3>5
  <2>4. y % u = 0
    BY <1>1, <2>2, <2>3, Multiple
  <2>5. y \in Addr
    <3>1. y \in Int
      BY <1>1, <1>4, <2>1
    <3>2. y = Wrap(q * u)
      BY <1>2
    <3>. QED
      BY <1>4, <3>2, WrapType
  <2>. QED
    BY <2>4, <2>5
<1>. QED
  BY <1>5, <1>6

LEMMA MultiplesOfMultiples ==
  ASSUME NEW n \in Nat, NEW u \in Nat \ {0}, NEW v \in Nat \ {0},
         n % u = 0, u % v = 0
  PROVE  n % v = 0
<1>1. n = (n \div u) * u + 0 /\ n \div u \in Nat
  BY Division
<1>2. u = (u \div v) * v + 0 /\ u \div v \in Nat
  BY Division
<1>. PICK a, b : a = n \div u /\ b = u \div v
  OBVIOUS
<1>3. n = (a * b) * v /\ a * b \in Nat
  BY <1>1, <1>2
<1>. QED
  BY <1>3, Multiple

-----------------------------------------------------------------------------
(* set_runtime_addr: one piece.                                             *)

Obj == [type : {"k", "m", "s", "t"}, src : Addr, size : Addr \ {0},
        dest : Addr, align : Addr \ {0}]

\* Objects of one type that fit, with their padding, in one piece.
Layable(objs, type) ==
  /\ objs \in Seq(Obj) /\ Len(objs) <= MaxRelocs - 2
  /\ \A n \in Group(objs, type) :
       Alignment(objs[n].align) /\ Small(objs[n].size, objs[n].align)
  /\ Nesting({objs[n].align : n \in Group(objs, type)})

LEMMA LayableObjects ==
  ASSUME NEW objs, NEW type, Layable(objs, type)
  PROVE  /\ Len(objs) \in Nat /\ DOMAIN objs = 1 .. Len(objs)
         /\ MaxRelocs - 2 \in Nat \ {0} /\ Len(objs) <= MaxRelocs - 2
         /\ Group(objs, type) = {n \in 1 .. Len(objs) : objs[n].type = type}
         /\ \A n \in 1 .. Len(objs) :
              /\ objs[n] \in Obj /\ objs[n].dest \in Addr /\ objs[n].src \in Addr
              /\ objs[n].size \in Addr \ {0} /\ objs[n].size \in Nat \ {0}
              /\ objs[n].size < AddrLimit
              /\ objs[n].align \in Nat \ {0} /\ objs[n].align < AddrLimit
<1>1. AddrLimit \in Nat /\ MaxRelocs \in Nat /\ MaxRelocs >= 4 /\ Addr = 0 .. AddrLimit - 1
  BY AddressSpace, Trampoline DEF Addr
<1>2. objs \in Seq(Obj) /\ Len(objs) <= MaxRelocs - 2
  BY DEF Layable
<1>3. Len(objs) \in Nat /\ DOMAIN objs = 1 .. Len(objs)
  BY <1>2
<1>4. ASSUME NEW n \in 1 .. Len(objs)
      PROVE  /\ objs[n] \in Obj /\ objs[n].dest \in Addr /\ objs[n].src \in Addr
             /\ objs[n].size \in Addr \ {0} /\ objs[n].size \in Nat \ {0}
             /\ objs[n].size < AddrLimit
             /\ objs[n].align \in Nat \ {0} /\ objs[n].align < AddrLimit
  <2>1. objs[n] \in Obj
    BY <1>2, <1>3, <1>4
  <2>2. /\ objs[n].size \in Addr \ {0} /\ objs[n].align \in Addr \ {0}
        /\ objs[n].dest \in Addr /\ objs[n].src \in Addr
    BY <2>1 DEF Obj
  <2>. QED
    BY <1>1, <2>1, <2>2
<1>. QED
  BY <1>1, <1>2, <1>3, <1>4 DEF Group

\* EndAfter, one object at a time.
LEMMA EndingAfter ==
  ASSUME NEW objs, Len(objs) \in Nat, NEW type, NEW start,
         NEW e, e = EndAfter(objs, type, start)
  PROVE  /\ e[0] = start
         /\ \A n \in 1 .. Len(objs) :
              e[n] = IF objs[n].type = type
                       THEN Wrap(roundup64(e[n - 1], objs[n].align) + objs[n].size)
                       ELSE e[n - 1]
<1>. DEFINE N == Len(objs)
            next(n, v) == CASE n = 0 -> start
                            [] n > 0 /\ objs[n].type = type ->
                                 Wrap(roundup64(v, objs[n].align) + objs[n].size)
                            [] n > 0 /\ objs[n].type # type -> v
            Upto(f, k) ==
              /\ f = [n \in 0 .. k |-> f[n]]
              /\ \A n \in 0 .. k : f[n] = next(n, f[n - 1])
            Begun == {k \in 0 .. N : \E f : Upto(f, k)}
<1>1. 0 .. N \subseteq Begun
  <2>1. 0 \in Begun
    <3>. DEFINE f == [n \in 0 .. 0 |-> start]
    <3>1. Upto(f, 0)
      OBVIOUS
    <3>2. 0 \in 0 .. N
      OBVIOUS
    <3>. HIDE DEF f, Upto, N
    <3>. QED
      BY <3>1, <3>2
  <2>2. ASSUME NEW k \in 0 .. N - 1, k \in Begun PROVE k + 1 \in Begun
    <3>1. PICK f : Upto(f, k)
      BY <2>2
    <3>. DEFINE g == [n \in 0 .. k + 1 |->
                        IF n = k + 1 THEN next(k + 1, f[k]) ELSE f[n]]
    <3>2. Upto(g, k + 1)
      <4>. HIDE DEF next
      <4>1. g = [n \in 0 .. k + 1 |-> g[n]]
        OBVIOUS
      <4>2. ASSUME NEW n \in 0 .. k + 1
            PROVE  g[n] = next(n, g[n - 1])
        <5>1. CASE n = k + 1
          <6>1. k \in 0 .. k + 1 /\ k # k + 1 /\ n # 0 /\ n - 1 = k
            BY <5>1
          <6>2. g[k] = f[k] /\ g[n] = next(k + 1, f[k])
            BY <5>1, <6>1
          <6>. QED
            BY <5>1, <6>1, <6>2
        <5>2. CASE n # k + 1 /\ n # 0
          <6>1. n \in 0 .. k /\ n - 1 \in 0 .. k + 1 /\ n - 1 # k + 1
            BY <5>2
          <6>. QED
            BY <3>1, <5>2, <6>1
        <5>3. CASE n = 0
          <6>1. 0 \in 0 .. k /\ 0 \in 0 .. k + 1 /\ 0 # k + 1
            OBVIOUS
          <6>2. g[0] = f[0] /\ f[0] = next(0, f[0 - 1])
            BY <3>1, <6>1
          <6>3. \A v : next(0, v) = start
            BY DEF next
          <6>. QED
            BY <5>3, <6>2, <6>3
        <5>. QED
          BY <5>1, <5>2, <5>3
      <4>. HIDE DEF g
      <4>. QED
        BY <4>1, <4>2
    <3>3. k + 1 \in 0 .. N
      BY <2>2
    <3>. HIDE DEF g, Upto
    <3>. QED
      BY <3>2, <3>3
  <2>. HIDE DEF Begun
  <2>. QED
    BY <2>1, <2>2, Climbing
<1>. DEFINE Rec(f) == f = [n \in 0 .. N |-> next(n, f[n - 1])]
<1>2. PICK f : Rec(f)
  <2>1. N \in Begun
    <3>1. N \in 0 .. N
      OBVIOUS
    <3>. HIDE DEF Begun, N
    <3>. QED
      BY <1>1, <3>1
  <2>2. PICK h : Upto(h, N)
    BY <2>1
  <2>3. Rec(h)
    <3>. HIDE DEF next, N
    <3>. QED
      BY <2>2
  <2>. HIDE DEF Rec
  <2>. QED
    BY <2>3
<1>. DEFINE after == CHOOSE h : Rec(h)
<1>3. Rec(after)
  <2>. HIDE DEF Rec
  <2>. QED
    BY <1>2
<1>4. e = after
  BY SMTT(30) DEF EndAfter
<1>5. \A n \in 0 .. N : e[n] = next(n, e[n - 1])
  <2>. HIDE DEF next, after
  <2>. QED
    BY <1>3, <1>4
<1>. HIDE DEF after
<1>6. e[0] = start
  BY <1>5
<1>7. ASSUME NEW n \in 1 .. N
      PROVE  e[n] = IF objs[n].type = type
                      THEN Wrap(roundup64(e[n - 1], objs[n].align) + objs[n].size)
                      ELSE e[n - 1]
  <2>1. n \in 0 .. N /\ n > 0 /\ n # 0
    BY <1>7
  <2>2. e[n] = next(n, e[n - 1])
    <3>. HIDE DEF next
    <3>. QED
      BY <1>5, <2>1
  <2>. QED
    BY <2>1, <2>2
<1>. QED
  BY <1>6, <1>7

LEMMA SumOfMultiples ==
  ASSUME NEW n \in Nat, NEW m \in Nat, NEW u \in Nat \ {0}, n % u = 0, m % u = 0
  PROVE  (n + m) % u = 0
<1>1. n = (n \div u) * u + 0 /\ n \div u \in Nat
  BY Division
<1>2. m = (m \div u) * u + 0 /\ m \div u \in Nat
  BY Division
<1>. PICK a, b : a = n \div u /\ b = m \div u
  OBVIOUS
<1>3. a \in Nat /\ b \in Nat /\ a + b \in Nat
  BY <1>1, <1>2
<1>4. (a + b) * u = a * u + b * u
  BY <1>3
<1>5. n + m = (a + b) * u
  BY <1>1, <1>2, <1>4
<1>. QED
  BY <1>3, <1>5, Multiple

\* Where objects stacked from 0 on end: nothing wraps.
Stack(e, objs, type) ==
  /\ e[0] = 0
  /\ \A n \in 0 .. Len(objs) : e[n] \in Nat /\ e[n] < AddrLimit
  /\ \A n \in 1 .. Len(objs) :
       /\ e[n - 1] <= e[n]
       /\ objs[n].type # type => e[n] = e[n - 1]
       /\ objs[n].type = type =>
            /\ e[n - 1] + objs[n].align - 1 < AddrLimit
            /\ roundup64(e[n - 1], objs[n].align) \in Nat
            /\ e[n - 1] <= roundup64(e[n - 1], objs[n].align)
            /\ e[n] = roundup64(e[n - 1], objs[n].align) + objs[n].size

LEMMA Stacking ==
  ASSUME NEW objs, NEW type, Layable(objs, type), NEW e, e = EndAfter(objs, type, 0)
  PROVE  Stack(e, objs, type)
<1>. DEFINE N == Len(objs)
            M == MaxRelocs - 2
            K == (AddrLimit - 1) \div M
<1>1. /\ N \in Nat /\ M \in Nat \ {0} /\ N <= M /\ AddrLimit \in Nat \ {0, 1}
      /\ \A n \in 1 .. N :
           /\ objs[n].size \in Nat \ {0} /\ objs[n].size < AddrLimit
           /\ objs[n].align \in Nat \ {0} /\ objs[n].align < AddrLimit
           /\ objs[n].type = type => objs[n].size + objs[n].align - 1 <= K
  <2>1. \A n \in 1 .. N : objs[n].type = type => objs[n].size + objs[n].align - 1 <= K
    BY LayableObjects DEF Layable, Small
  <2>. QED
    BY <2>1, LayableObjects, AddressSpace
<1>2. /\ e[0] = 0
      /\ \A n \in 1 .. N :
           e[n] = IF objs[n].type = type
                    THEN Wrap(roundup64(e[n - 1], objs[n].align) + objs[n].size)
                    ELSE e[n - 1]
  BY <1>1, EndingAfter
<1>3. K \in Nat /\ M * K <= AddrLimit - 1
  <2>1. AddrLimit - 1 \in Nat /\ M \in Nat \ {0}
    BY <1>1
  <2>2. AddrLimit - 1 = K * M + ((AddrLimit - 1) % M) /\ K \in Nat
        /\ (AddrLimit - 1) % M \in 0 .. M - 1
    <3>. HIDE DEF M
    <3>. QED
      BY <2>1, Division
  <2>. HIDE DEF K, M
  <2>3. M * K = K * M /\ K * M \in Nat
    BY <2>1, <2>2
  <2>. QED
    BY <2>1, <2>2, <2>3
<1>. HIDE DEF K, M, N
<1>4. \A n \in 0 .. N : n * K \in Nat /\ n * K <= AddrLimit - 1
  <2>1. SUFFICES ASSUME NEW n \in 0 .. N PROVE n * K \in Nat /\ n * K <= AddrLimit - 1
    OBVIOUS
  <2>2. n \in Nat /\ M - n \in Nat
    BY <1>1
  <2>3. (M - n) * K >= 0 /\ (M - n) * K = M * K - n * K
    BY <1>1, <1>3, <2>2
  <2>4. n * K \in Nat /\ M * K \in Nat
    BY <1>1, <1>3, <2>2
  <2>. QED
    BY <1>1, <1>3, <2>3, <2>4
<1>. DEFINE Below(n) == e[n] \in Nat /\ e[n] <= n * K
            S == {n \in 0 .. N : Below(n)}
<1>5. ASSUME NEW n \in 1 .. N, Below(n - 1)
      PROVE  /\ e[n - 1] <= e[n]
             /\ objs[n].type # type => e[n] = e[n - 1]
             /\ objs[n].type = type =>
                  /\ e[n - 1] + objs[n].align - 1 < AddrLimit
                  /\ roundup64(e[n - 1], objs[n].align) \in Nat
                  /\ e[n - 1] <= roundup64(e[n - 1], objs[n].align)
                  /\ e[n] = roundup64(e[n - 1], objs[n].align) + objs[n].size
             /\ Below(n)
  <2>1. n \in 0 .. N /\ n - 1 \in 0 .. N /\ n \in Nat
    BY <1>1
  <2>. PICK x, y, z : x = e[n - 1] /\ y = (n - 1) * K /\ z = n * K
    OBVIOUS
  <2>2. z = y + K /\ y \in Nat /\ z \in Nat /\ z <= AddrLimit - 1 /\ x \in Nat /\ x <= y
    <3>1. n * K = (n - 1) * K + K
      BY <1>3, <2>1
    <3>. QED
      BY <1>4, <1>5, <2>1, <3>1
  <2>3. CASE objs[n].type # type
    BY <1>2, <1>3, <2>2, <2>3
  <2>4. CASE objs[n].type = type
    <3>. PICK u, l : u = objs[n].align /\ l = objs[n].size
      OBVIOUS
    <3>1. u \in Nat \ {0} /\ l \in Nat \ {0} /\ u < AddrLimit /\ l + u - 1 <= K
      BY <1>1, <2>4
    <3>2. x + u - 1 < AddrLimit /\ u \in 1 .. AddrLimit - 1
      BY <1>1, <1>3, <2>2, <3>1
    <3>. PICK w : w = roundup64(x, u)
      OBVIOUS
    <3>3. w \in Nat /\ x <= w /\ w <= x + u - 1
      BY <2>2, <3>2, RoundUp
    <3>4. w + l <= z /\ w + l \in 0 .. AddrLimit - 1
      BY <1>1, <1>3, <2>2, <3>1, <3>3
    <3>5. e[n] = w + l
      BY <1>2, <2>4, <3>4, WrapSmall
    <3>. QED
      BY <2>2, <2>4, <3>1, <3>2, <3>3, <3>4, <3>5
  <2>. QED
    BY <2>3, <2>4
<1>6. 0 .. N \subseteq S
  <2>1. 0 \in S
    BY <1>1, <1>2, <1>3
  <2>2. ASSUME NEW n \in 0 .. N - 1, n \in S PROVE n + 1 \in S
    <3>1. n + 1 \in 1 .. N /\ n + 1 - 1 = n /\ n + 1 \in 0 .. N
      BY <1>1
    <3>2. Below(n)
      BY <2>2
    <3>3. Below(n + 1 - 1)
      <4>. HIDE DEF Below
      <4>. QED
        BY <3>1, <3>2
    <3>4. Below(n + 1)
      <4>. HIDE DEF Below
      <4>. QED
        BY <1>5, <3>1, <3>3
    <3>. QED
      BY <3>1, <3>4
  <2>. HIDE DEF S
  <2>. QED
    BY <1>1, <2>1, <2>2, Climbing
<1>7. \A n \in 0 .. N : Below(n)
  BY <1>6
<1>8. \A n \in 0 .. N : e[n] \in Nat /\ e[n] < AddrLimit
  <2>1. SUFFICES ASSUME NEW n \in 0 .. N PROVE e[n] \in Nat /\ e[n] < AddrLimit
    OBVIOUS
  <2>2. e[n] \in Nat /\ e[n] <= n * K /\ n * K \in Nat /\ n * K <= AddrLimit - 1
    BY <1>4, <1>7
  <2>. QED
    BY <1>1, <2>2
<1>9. \A n \in 1 .. N : Below(n - 1)
  <2>1. \A n \in 1 .. N : n - 1 \in 0 .. N
    BY <1>1
  <2>. HIDE DEF Below
  <2>. QED
    BY <1>7, <2>1
<1>. HIDE DEF Below
<1>. QED
  BY <1>2, <1>5, <1>8, <1>9 DEF Stack, N

\* The stack grows: what ends later lies higher.
LEMMA StackGrows ==
  ASSUME NEW objs, Len(objs) \in Nat, NEW type, NEW e, Stack(e, objs, type)
  PROVE  \A p, n \in 0 .. Len(objs) : p <= n => e[p] <= e[n]
<1>. DEFINE N == Len(objs)
            S == {n \in 0 .. N : \A p \in 0 .. N : p <= n => e[p] <= e[n]}
<1>1. N \in Nat /\ \A n \in 0 .. N : e[n] \in Nat
  BY DEF Stack
<1>2. \A n \in 1 .. N : e[n - 1] <= e[n]
  BY DEF Stack
<1>. HIDE DEF N
<1>3. 0 \in S
  BY <1>1
<1>4. ASSUME NEW n \in 0 .. N - 1, n \in S PROVE n + 1 \in S
  <2>1. n + 1 \in 1 .. N /\ n + 1 - 1 = n /\ n + 1 \in 0 .. N /\ n \in 0 .. N
    BY <1>1
  <2>2. e[n] <= e[n + 1]
    BY <1>2, <2>1
  <2>3. ASSUME NEW p \in 0 .. N, p <= n + 1 PROVE e[p] <= e[n + 1]
    <3>1. CASE p = n + 1
      BY <1>1, <3>1
    <3>2. CASE p # n + 1
      <4>1. p <= n
        BY <1>1, <2>3, <3>2
      <4>2. e[p] <= e[n]
        BY <1>4, <4>1
      <4>. QED
        BY <1>1, <2>1, <2>2, <4>2
    <3>. QED
      BY <3>1, <3>2
  <2>. QED
    BY <2>1, <2>3
<1>5. 0 .. N \subseteq S
  <2>. HIDE DEF S
  <2>. QED
    BY <1>1, <1>3, <1>4, Climbing
<1>. QED
  BY <1>5 DEF N

\* Stacked from an aligned address on, they end there as much higher.
LEMMA StackShifted ==
  ASSUME NEW objs, NEW type, Layable(objs, type),
         NEW e, e = EndAfter(objs, type, 0), NEW start \in Nat,
         start + e[Len(objs)] < AddrLimit,
         \A n \in Group(objs, type) : start % objs[n].align = 0,
         NEW f, f = EndAfter(objs, type, start)
  PROVE  \A n \in 1 .. Len(objs) : objs[n].type = type =>
           roundup64(f[n - 1], objs[n].align)
             = start + roundup64(e[n - 1], objs[n].align)
<1>. DEFINE N == Len(objs)
            S == {n \in 0 .. N : f[n] = start + e[n]}
<1>1. /\ N \in Nat /\ AddrLimit \in Nat
      /\ \A n \in 1 .. N :
           /\ objs[n].size \in Nat \ {0}
           /\ objs[n].align \in Nat \ {0} /\ objs[n].align < AddrLimit
           /\ objs[n].type = type => start % objs[n].align = 0
  BY LayableObjects, AddressSpace
<1>2. Stack(e, objs, type)
  BY Stacking
<1>3. \A n \in 0 .. N : e[n] \in Nat /\ start + e[n] < AddrLimit
  <2>1. \A n \in 0 .. N : e[n] \in Nat /\ n <= N /\ N \in 0 .. N
    BY <1>1, <1>2 DEF Stack
  <2>2. \A n \in 0 .. N : e[n] <= e[N]
    BY <1>1, <1>2, <2>1, StackGrows
  <2>. QED
    BY <1>1, <2>1, <2>2
<1>4. /\ f[0] = start
      /\ \A n \in 1 .. N :
           f[n] = IF objs[n].type = type
                    THEN Wrap(roundup64(f[n - 1], objs[n].align) + objs[n].size)
                    ELSE f[n - 1]
  BY <1>1, EndingAfter
<1>5. ASSUME NEW n \in 1 .. N, f[n - 1] = start + e[n - 1]
      PROVE  /\ f[n] = start + e[n]
             /\ objs[n].type = type =>
                  roundup64(f[n - 1], objs[n].align)
                    = start + roundup64(e[n - 1], objs[n].align)
  <2>1. n \in 0 .. N /\ n - 1 \in 0 .. N
    BY <1>1
  <2>2. CASE objs[n].type # type
    BY <1>2, <1>4, <1>5, <2>2 DEF Stack
  <2>3. CASE objs[n].type = type
    <3>. PICK u, l, w : /\ u = objs[n].align /\ l = objs[n].size
                        /\ w = roundup64(e[n - 1], objs[n].align)
      OBVIOUS
    <3>1. /\ e[n - 1] + u - 1 < AddrLimit /\ w \in Nat /\ e[n] = w + l
          /\ e[n - 1] \in Nat
      BY <1>2, <1>3, <2>1, <2>3 DEF Stack
    <3>2. u \in 1 .. AddrLimit - 1 /\ l \in Nat \ {0} /\ start % u = 0
      BY <1>1, <2>3
    <3>8. start + e[n] < AddrLimit
      BY <1>3, <2>1
    <3>3. start + w + l < AddrLimit /\ start + w < AddrLimit
      <4>. PICK v : v = e[n]
        OBVIOUS
      <4>1. v = w + l /\ w \in Nat /\ l \in Nat \ {0} /\ start + v < AddrLimit
        BY <3>1, <3>2, <3>8
      <4>2. AddrLimit \in Nat
        BY <1>1
      <4>. QED
        BY <4>1, <4>2, SMTT(30)
    <3>4. roundup64(start + e[n - 1], u) = start + w
      <4>. PICK v : v = e[n - 1]
        OBVIOUS
      <4>1. v \in Nat /\ v + u - 1 < AddrLimit /\ w = roundup64(v, u)
        BY <3>1
      <4>2. roundup64(start + v, u) = start + w
        BY <3>2, <3>3, <4>1, RoundShifted
      <4>. QED
        BY <4>2
    <3>5. f[n] = Wrap(start + w + l)
      BY <1>4, <1>5, <2>3, <3>4
    <3>6. start + w + l \in 0 .. AddrLimit - 1
      <4>1. w \in Nat /\ l \in Nat /\ AddrLimit \in Nat
        BY <1>1, <3>1, <3>2
      <4>. QED
        BY <3>3, <4>1
    <3>7. f[n] = start + w + l
      BY <3>5, <3>6, WrapSmall
    <3>. QED
      BY <1>5, <3>1, <3>2, <3>4, <3>7
  <2>. QED
    BY <2>2, <2>3
<1>. HIDE DEF N
<1>6. 0 .. N \subseteq S
  <2>1. 0 \in S
    BY <1>1, <1>2, <1>4 DEF Stack
  <2>2. ASSUME NEW n \in 0 .. N - 1, n \in S PROVE n + 1 \in S
    <3>1. n + 1 \in 1 .. N /\ n + 1 - 1 = n /\ n + 1 \in 0 .. N
      BY <1>1
    <3>2. f[n + 1] = start + e[n + 1]
      BY <1>5, <2>2, <3>1
    <3>. QED
      BY <3>1, <3>2
  <2>. HIDE DEF S
  <2>. QED
    BY <1>1, <2>1, <2>2, Climbing
<1>7. \A n \in 1 .. N : n - 1 \in 0 .. N
  BY <1>1
<1>. QED
  BY <1>5, <1>6, <1>7 DEF N

\* The objects at the indices in G have got destinations, the others are as they
\* were.
Relaid(new, objs, G) ==
  /\ new \in Seq(Obj) /\ Len(new) = Len(objs)
  /\ \A n \in 1 .. Len(objs) :
       /\ n \notin G => new[n] = objs[n]
       /\ n \in G =>
            /\ new[n] = [objs[n] EXCEPT !.dest = new[n].dest]
            /\ new[n].dest # 0 /\ new[n].dest % objs[n].align = 0
            /\ new[n].dest + objs[n].size < AddrLimit

\* No two of these destinations meet.
Spread(new, G) ==
  \A n, q \in G : n # q => Bytes(Dest(new[n])) \cap Bytes(Dest(new[q])) = {}

LEMMA PlacingInOnePiece ==
  ASSUME NEW objs, NEW type, Layable(objs, type),
         NEW e, e = EndAfter(objs, type, 0), NEW start \in Nat \ {0},
         start + e[Len(objs)] < AddrLimit,
         \A n \in Group(objs, type) : start % objs[n].align = 0,
         NEW new, new = InOnePiece(objs, type, start)
  PROVE  /\ Relaid(new, objs, Group(objs, type)) /\ Spread(new, Group(objs, type))
         /\ \A n \in Group(objs, type) :
              Bytes(Dest(new[n])) \subseteq Bytes(Request(start, e[Len(objs)]))
<1>. DEFINE N == Len(objs)
            d(n) == start + roundup64(e[n - 1], objs[n].align)
<1>1. /\ N \in Nat /\ DOMAIN objs = 1 .. N /\ AddrLimit \in Nat /\ Addr = 0 .. AddrLimit - 1
      /\ \A n \in 1 .. N :
           /\ objs[n] \in Obj /\ objs[n].size \in Nat \ {0}
           /\ objs[n].align \in Nat \ {0} /\ objs[n].align < AddrLimit
           /\ objs[n].type = type => start % objs[n].align = 0
  BY LayableObjects, AddressSpace, ZenonT(90) DEF Addr
<1>. PICK f : f = EndAfter(objs, type, start)
  OBVIOUS
<1>2. Stack(e, objs, type)
  BY Stacking
<1>3. \A n \in 1 .. N : objs[n].type = type =>
        roundup64(f[n - 1], objs[n].align) = d(n)
  BY StackShifted
<1>4. DOMAIN new = 1 .. N /\ \A n \in 1 .. N :
        new[n] = IF objs[n].type = type
                   THEN [objs[n] EXCEPT !.dest = roundup64(f[n - 1], objs[n].align)]
                   ELSE objs[n]
  BY <1>1 DEF InOnePiece
<1>5. \A n \in 0 .. N : e[n] \in Nat /\ start + e[n] < AddrLimit /\ e[n] <= e[N]
  <2>1. \A n \in 0 .. N : e[n] \in Nat /\ n <= N /\ N \in 0 .. N
    BY <1>1, <1>2 DEF Stack
  <2>2. \A n \in 0 .. N : e[n] <= e[N]
    BY <1>1, <1>2, <2>1, StackGrows
  <2>. QED
    BY <1>1, <2>1, <2>2
<1>6. ASSUME NEW n \in 1 .. N, objs[n].type = type
      PROVE  /\ d(n) \in Nat /\ start + e[n - 1] <= d(n)
             /\ d(n) + objs[n].size = start + e[n]
             /\ d(n) % objs[n].align = 0
  <2>1. n \in 0 .. N /\ n - 1 \in 0 .. N
    BY <1>1
  <2>. PICK u, l, w, x : /\ u = objs[n].align /\ l = objs[n].size /\ x = e[n - 1]
                         /\ w = roundup64(e[n - 1], objs[n].align)
    OBVIOUS
  <2>2. /\ x + u - 1 < AddrLimit /\ w \in Nat /\ e[n] = w + l /\ x <= w
        /\ x \in Nat
    BY <1>2, <1>5, <1>6, <2>1 DEF Stack
  <2>3. u \in Nat \ {0} /\ u < AddrLimit /\ l \in Nat \ {0} /\ start % u = 0
    BY <1>1, <1>6
  <2>4. w % u = 0
    <3>1. u \in 1 .. AddrLimit - 1
      BY <1>1, <2>3
    <3>2. w = roundup64(x, u)
      OBVIOUS
    <3>. QED
      BY <2>2, <3>1, <3>2, RoundUp
  <2>5. (start + w) % u = 0
    <3>1. u \in Nat \ {0}
      BY <2>3
    <3>2. start \in Nat /\ w \in Nat /\ start % u = 0 /\ w % u = 0
      BY <2>2, <2>3, <2>4
    <3>3. \A n1, n2 \in Nat : n1 % u = 0 /\ n2 % u = 0 => (n1 + n2) % u = 0
      BY <3>1, SumOfMultiples, Zenon
    <3>. QED
      BY <3>2, <3>3, Zenon
  <2>6. d(n) = start + w
    OBVIOUS
  <2>. HIDE DEF d
  <2>7. /\ d(n) \in Nat /\ start + x <= d(n) /\ d(n) % u = 0
        /\ d(n) + l = start + e[n]
    <3>1. d(n) \in Nat /\ start + x <= d(n) /\ d(n) + l = start + e[n]
      <4>1. start \in Nat /\ w \in Nat /\ l \in Nat /\ x \in Nat /\ x <= w
        BY <2>2, <2>3
      <4>2. start + w \in Nat /\ start + x <= start + w /\ (start + w) + l = start + (w + l)
        BY <4>1
      <4>3. e[n] = w + l
        BY <2>2
      <4>. QED
        BY <2>6, <4>2, <4>3, Zenon
    <3>. QED
      BY <2>5, <2>6, <3>1, Zenon
  <2>. QED
    BY <2>7
<1>7. \A n \in 1 .. N : n - 1 \in 0 .. N /\ n \in 0 .. N
  BY <1>1
<1>8. ASSUME NEW n \in 1 .. N, objs[n].type = type
      PROVE  /\ new[n] = [objs[n] EXCEPT !.dest = d(n)]
             /\ d(n) \in Addr \ {0} /\ d(n) + objs[n].size < AddrLimit
             /\ d(n) % objs[n].align = 0
             /\ new[n] \in Obj /\ new[n].dest = d(n) /\ new[n].size = objs[n].size
             /\ new[n].type = type
  <2>1. new[n] = [objs[n] EXCEPT !.dest = d(n)]
    BY <1>3, <1>4, <1>8
  <2>. HIDE DEF d
  <2>2. /\ d(n) \in Nat /\ start + e[n - 1] <= d(n)
        /\ d(n) + objs[n].size = start + e[n] /\ d(n) % objs[n].align = 0
    BY <1>6, <1>8
  <2>3. d(n) + objs[n].size < AddrLimit
    BY <1>5, <1>7, <2>2
  <2>4. d(n) \in Addr \ {0}
    <3>1. e[n - 1] \in Nat /\ objs[n].size \in Nat \ {0}
      BY <1>1, <1>5, <1>7
    <3>. QED
      BY <1>1, <2>2, <2>3, <3>1
  <2>5. objs[n] \in Obj
    BY <1>1
  <2>. QED
    BY <1>8, <2>1, <2>2, <2>3, <2>4, <2>5 DEF Obj
<1>9. \A n \in 1 .. N : objs[n].type # type => new[n] = objs[n]
  BY <1>4
<1>10. new \in Seq(Obj) /\ Len(new) = N
  <2>1. \A n \in 1 .. N : new[n] \in Obj
    BY <1>1, <1>8, <1>9
  <2>2. new = [n \in 1 .. N |-> new[n]]
    BY <1>1 DEF InOnePiece
  <2>. HIDE DEF N
  <2>. QED
    BY <1>1, <2>1, <2>2
<1>15. Group(objs, type) = {n \in 1 .. N : objs[n].type = type}
  BY LayableObjects
<1>11. Relaid(new, objs, Group(objs, type))
  <2>. HIDE DEF d
  <2>. QED
    BY <1>8, <1>9, <1>10, <1>15 DEF Relaid
<1>12. ASSUME NEW n \in 1 .. N, NEW q \in 1 .. N, n < q,
              objs[n].type = type, objs[q].type = type
       PROVE  d(n) + objs[n].size <= d(q)
  <2>1. n \in 0 .. N /\ q - 1 \in 0 .. N /\ n <= q - 1
    BY <1>1, <1>12
  <2>2. e[n] <= e[q - 1] /\ e[n] \in Nat /\ e[q - 1] \in Nat
    BY <1>1, <1>2, <1>5, <2>1, StackGrows
  <2>3. d(n) + objs[n].size = start + e[n] /\ start + e[q - 1] <= d(q) /\ d(q) \in Nat
    BY <1>6, <1>12
  <2>. HIDE DEF d
  <2>4. start + e[n] <= start + e[q - 1]
    BY <2>2
  <2>. QED
    BY <2>2, <2>3, <2>4
<1>13. Spread(new, Group(objs, type))
  <2>1. SUFFICES ASSUME NEW n \in 1 .. N, NEW q \in 1 .. N, n # q,
                        objs[n].type = type, objs[q].type = type
                 PROVE  Bytes(Dest(new[n])) \cap Bytes(Dest(new[q])) = {}
    BY <1>15 DEF Spread
  <2>2. objs[n].type = type /\ objs[q].type = type
    BY <2>1
  <2>3. /\ Dest(new[n]) = Request(d(n), objs[n].size)
        /\ Dest(new[q]) = Request(d(q), objs[q].size)
    <3>. HIDE DEF d
    <3>. QED
      BY <1>8, <2>2 DEF Dest
  <2>4. /\ d(n) \in Nat /\ d(q) \in Nat /\ objs[n].size \in Nat /\ objs[q].size \in Nat
        /\ d(n) + objs[n].size <= d(q) \/ d(q) + objs[q].size <= d(n)
    <3>1. n < q \/ q < n
      BY <1>1, <2>1
    <3>2. d(n) \in Nat /\ d(q) \in Nat
      BY <1>6, <2>2
    <3>3. d(n) + objs[n].size <= d(q) \/ d(q) + objs[q].size <= d(n)
      <4>. HIDE DEF d
      <4>. QED
        BY <1>12, <2>2, <3>1
    <3>. QED
      BY <1>1, <3>2, <3>3
  <2>. HIDE DEF d
  <2>. SUFFICES ASSUME NEW a \in Addr, a \in Bytes(Dest(new[n])), a \in Bytes(Dest(new[q]))
                PROVE  FALSE
    BY DEF Bytes
  <2>5. /\ d(n) <= a /\ a < d(n) + objs[n].size
        /\ d(q) <= a /\ a < d(q) + objs[q].size
    BY <2>3 DEF Bytes, Request
  <2>. QED
    BY <1>1, <2>4, <2>5, SMTT(30)
<1>14. ASSUME NEW n \in 1 .. N, objs[n].type = type
       PROVE  Bytes(Dest(new[n])) \subseteq Bytes(Request(start, e[N]))
  <2>1. Dest(new[n]) = Request(d(n), objs[n].size)
    <3>. HIDE DEF d
    <3>. QED
      BY <1>8, <1>14 DEF Dest
  <2>2. /\ d(n) \in Nat /\ start <= d(n) /\ d(n) + objs[n].size <= start + e[N]
        /\ objs[n].size \in Nat /\ e[N] \in Nat
    <3>1. /\ d(n) \in Nat /\ start + e[n - 1] <= d(n)
          /\ d(n) + objs[n].size = start + e[n]
      BY <1>6, <1>14
    <3>. HIDE DEF d
    <3>2. e[n] \in Nat /\ e[n - 1] \in Nat /\ e[n] <= e[N] /\ N \in 0 .. N
      BY <1>1, <1>5, <1>7
    <3>3. e[N] \in Nat /\ objs[n].size \in Nat
      BY <1>1, <1>5, <3>2
    <3>. QED
      BY <3>1, <3>2, <3>3, SMTT(30)
  <2>. HIDE DEF d
  <2>3. ASSUME NEW a \in Addr, a \in Bytes(Request(d(n), objs[n].size))
        PROVE  a \in Bytes(Request(start, e[N]))
    <3>1. d(n) <= a /\ a < d(n) + objs[n].size /\ a \in Nat
      BY <1>1, <2>3 DEF Bytes, Request
    <3>2. start <= a /\ a < start + e[N]
      BY <2>2, <3>1
    <3>. QED
      BY <3>2 DEF Bytes, Request
  <2>4. Bytes(Request(d(n), objs[n].size)) \subseteq Addr
    BY DEF Bytes
  <2>. QED
    BY <2>1, <2>3, <2>4
<1>. QED
  BY <1>11, <1>13, <1>14, <1>15

-----------------------------------------------------------------------------
(* set_runtime_addr: piece by piece, and all of it.                         *)

\* What the call promises: no memory but the table's is lost, and on success
\* every object of the group has a place of its own that nobody else had.
Lays(x, t, objs, G) ==
  /\ Adds(x, t)
  /\ x.status = "SUCCESS" =>
       /\ Relaid(x.objs, objs, G) /\ Spread(x.objs, G)
       /\ \A n \in G :
            /\ Bytes(Dest(x.objs[n])) \cap TableBytes(t) = {}
            /\ Bytes(Dest(x.objs[n])) \subseteq TableBytes(x.table)

\* In memory that 32-bit addresses reach.
Below4GB(r) == Bytes(r) \subseteq 0 .. MaxAddr32

\* What the call promises of the objects at the indices in G if it is to place them
\* there.
KeptLow(x, G, option) ==
  option = "32BIT" /\ x.status = "SUCCESS" => \A n \in G : Below4GB(Dest(x.objs[n]))

LaysLow(x, t, objs, G, option) == Lays(x, t, objs, G) /\ KeptLow(x, G, option)

LEMMA EndsBelow ==
  ASSUME NEW a \in Nat, NEW size \in Nat, a + size <= MaxAddr32
  PROVE  Below4GB(Request(a, size))
BY AddressSpace DEF Below4GB, Bytes, Request, Addr

\* What begins below, and does not hold the last address, ends below.
LEMMA StaysBelow ==
  ASSUME NEW a \in Nat, NEW size \in Nat, a <= MaxAddr32,
         MaxAddr32 \notin Bytes(Request(a, size))
  PROVE  Below4GB(Request(a, size))
<1>1. MaxAddr32 \in Nat /\ MaxAddr32 \in Addr /\ Addr = 0 .. AddrLimit - 1 /\ AddrLimit \in Nat
  BY AddressSpace DEF Addr
<1>2. ~(MaxAddr32 < a + size)
  BY <1>1 DEF Bytes, Request
<1>. QED
  BY <1>1, <1>2 DEF Below4GB, Bytes, Request

\* The last page below 4GB is taken, the preferred address is below it, and no
\* alignment leads across it.
BelowGap(t, objs, type, preferred) ==
  /\ MaxAddr32 \in TableBytes(t) /\ preferred + PageSize <= MaxAddr32 + 1
  /\ \A n \in Group(objs, type) : objs[n].align <= PageSize

\* Separately, one object at a time.
OneAfterOther(y, objs, type, t, option) ==
  /\ y[0] = [status |-> "SUCCESS", table |-> t, objs |-> objs]
  /\ \A n \in 1 .. Len(objs) : y[n] = AlsoPlace(y[n - 1], n, type, option)

LEMMA OneByOne ==
  ASSUME NEW objs, Len(objs) \in Nat, NEW type, NEW t, NEW option,
         NEW x, x = Separately(t, objs, type, option)
  PROVE  \E y : OneAfterOther(y, objs, type, t, option) /\ x = y[Len(objs)]
<1>. DEFINE N == Len(objs)
            start == [status |-> "SUCCESS", table |-> t, objs |-> objs]
            next(n, v) == IF n = 0 THEN start ELSE AlsoPlace(v, n, type, option)
            Upto(f, k) ==
              /\ f = [n \in 0 .. k |-> f[n]]
              /\ \A n \in 0 .. k : f[n] = next(n, f[n - 1])
            Begun == {k \in 0 .. N : \E f : Upto(f, k)}
<1>1. 0 .. N \subseteq Begun
  <2>1. 0 \in Begun
    <3>. DEFINE f == [n \in 0 .. 0 |-> start]
    <3>1. Upto(f, 0)
      <4>1. f = [n \in 0 .. 0 |-> f[n]]
        OBVIOUS
      <4>2. \A n \in 0 .. 0 : n = 0 /\ f[n] = start
        OBVIOUS
      <4>3. \A v : next(0, v) = start
        OBVIOUS
      <4>. HIDE DEF f, start, next
      <4>. QED
        BY <4>1, <4>2, <4>3
    <3>2. 0 \in 0 .. N
      OBVIOUS
    <3>. HIDE DEF f, Upto, N
    <3>. QED
      BY <3>1, <3>2
  <2>2. ASSUME NEW k \in 0 .. N - 1, k \in Begun PROVE k + 1 \in Begun
    <3>1. PICK f : Upto(f, k)
      BY <2>2
    <3>. DEFINE g == [n \in 0 .. k + 1 |->
                        IF n = k + 1 THEN next(k + 1, f[k]) ELSE f[n]]
    <3>2. Upto(g, k + 1)
      <4>. HIDE DEF next
      <4>1. g = [n \in 0 .. k + 1 |-> g[n]]
        OBVIOUS
      <4>2. ASSUME NEW n \in 0 .. k + 1
            PROVE  g[n] = next(n, g[n - 1])
        <5>1. CASE n = k + 1
          <6>1. k \in 0 .. k + 1 /\ k # k + 1 /\ n # 0 /\ n - 1 = k
            BY <5>1
          <6>2. g[k] = f[k] /\ g[n] = next(k + 1, f[k])
            BY <5>1, <6>1
          <6>. QED
            BY <5>1, <6>1, <6>2
        <5>2. CASE n # k + 1 /\ n # 0
          <6>1. n \in 0 .. k /\ n - 1 \in 0 .. k + 1 /\ n - 1 # k + 1
            BY <5>2
          <6>. QED
            BY <3>1, <5>2, <6>1
        <5>3. CASE n = 0
          <6>1. 0 \in 0 .. k /\ 0 \in 0 .. k + 1 /\ 0 # k + 1
            OBVIOUS
          <6>2. g[0] = f[0] /\ f[0] = next(0, f[0 - 1])
            BY <3>1, <6>1
          <6>3. \A v : next(0, v) = start
            BY DEF next
          <6>. QED
            BY <5>3, <6>2, <6>3
        <5>. QED
          BY <5>1, <5>2, <5>3
      <4>. HIDE DEF g
      <4>. QED
        BY <4>1, <4>2
    <3>3. k + 1 \in 0 .. N
      BY <2>2
    <3>. HIDE DEF g, Upto
    <3>. QED
      BY <3>2, <3>3
  <2>. HIDE DEF Begun
  <2>. QED
    BY <2>1, <2>2, Climbing
<1>. DEFINE Rec(f) == f = [n \in 0 .. N |-> next(n, f[n - 1])]
<1>2. PICK f : Rec(f)
  <2>1. N \in Begun
    <3>1. N \in 0 .. N
      OBVIOUS
    <3>. HIDE DEF Begun, N
    <3>. QED
      BY <1>1, <3>1
  <2>2. PICK h : Upto(h, N)
    BY <2>1
  <2>3. Rec(h)
    <3>. HIDE DEF next, N
    <3>. QED
      BY <2>2
  <2>. HIDE DEF Rec
  <2>. QED
    BY <2>3
<1>. DEFINE after == CHOOSE h : Rec(h)
<1>3. Rec(after)
  <2>. HIDE DEF Rec
  <2>. QED
    BY <1>2
<1>4. x = after[N]
  BY DEF Separately
<1>5. \A n \in 0 .. N : after[n] = next(n, after[n - 1])
  <2>. HIDE DEF next, after
  <2>. QED
    BY <1>3
<1>. HIDE DEF after
<1>6. after[0] = start
  <2>1. 0 \in 0 .. N /\ \A v : next(0, v) = start
    OBVIOUS
  <2>. HIDE DEF next, start
  <2>. QED
    BY <1>5, <2>1
<1>7. ASSUME NEW n \in 1 .. N
      PROVE  after[n] = AlsoPlace(after[n - 1], n, type, option)
  <2>1. n \in 0 .. N /\ n # 0
    BY <1>7
  <2>2. after[n] = next(n, after[n - 1])
    <3>. HIDE DEF next
    <3>. QED
      BY <1>5, <2>1
  <2>. QED
    BY <2>1, <2>2
<1>. HIDE DEF N, start
<1>. QED
  BY <1>4, <1>6, <1>7 DEF N, start, OneAfterOther

\* One more object, when those before it in the group have their places.
LEMMA PlacingOne ==
  ASSUME NEW objs, NEW type, Layable(objs, type), NEW t, Guarded(t),
         NEW option \in {"ANY", "32BIT"}, NEW n \in 1 .. Len(objs),
         NEW y, ~Covered(y), y.status = "SUCCESS",
         NEW H, H \subseteq Group(objs, type), n \notin H,
         LaysLow(y, t, objs, H, option), objs[n].type = type,
         NEW z, z = AlsoPlace(y, n, type, option)
  PROVE  Covered(z) \/ LaysLow(z, t, objs, H \cup {n}, option)
<1>. PICK o : o = objs[n]
  OBVIOUS
<1>1. /\ Len(objs) \in Nat /\ DOMAIN objs = 1 .. Len(objs) /\ o \in Obj /\ o.type = type
      /\ o.size \in Addr \ {0} /\ o.align \in 1 .. AddrLimit - 1
      /\ H \subseteq 1 .. Len(objs)
      /\ \A q \in 1 .. Len(objs) : objs[q] \in Obj
  BY LayableObjects, AddressSpace
<1>2. /\ Adds(y, t) /\ Relaid(y.objs, objs, H) /\ Spread(y.objs, H)
      /\ \A q \in H : /\ Bytes(Dest(y.objs[q])) \cap TableBytes(t) = {}
                      /\ Bytes(Dest(y.objs[q])) \subseteq TableBytes(y.table)
      /\ KeptLow(y, H, option)
  BY DEF LaysLow, Lays
<1>3. y.objs[n] = o /\ y.objs \in Seq(Obj) /\ Len(y.objs) = Len(objs)
  BY <1>2 DEF Relaid
<1>4. Guarded(y.table)
  BY <1>2 DEF Guarded, Adds
<1>. PICK a : a = alloc(y.table, 0, o.size, o.align, option)
  OBVIOUS
<1>5. /\ Answers(a, y.table, o.size)
      /\ Gives(a, y.table, o.size) => a.addr % o.align = 0
      /\ Gives(a, y.table, o.size) /\ option = "32BIT" => a.addr + o.size <= MaxAddr32
  BY <1>1, <1>4, AllocatingAny
<1>6. /\ z.status = a.status /\ z.table = a.table
      /\ z.objs = [y.objs EXCEPT ![n].dest = a.addr]
  BY <1>1, <1>3 DEF AlsoPlace
<1>7. CASE Covered(a)
  BY <1>6, <1>7 DEF Covered
<1>8. CASE Refuses(a, y.table)
  <2>1. z.status = "OUT_OF_RESOURCES" /\ z.table = y.table
    BY <1>6, <1>8 DEF Refuses
  <2>. QED
    BY <1>2, <2>1 DEF LaysLow, Lays, Adds, KeptLow
<1>9. CASE Gives(a, y.table, o.size)
  <2>. PICK r : r = Request(a.addr, o.size)
    OBVIOUS
  <2>1. /\ a.addr \in Addr /\ a.addr # 0 /\ a.addr + o.size < AddrLimit
        /\ a.addr % o.align = 0 /\ Bytes(r) \cap TableBytes(y.table) = {}
        /\ Adds(a, y.table) /\ a.status = "SUCCESS"
        /\ Bytes(r) \subseteq TableBytes(a.table)
    <3>1. /\ Adds(a, y.table) /\ a.status = "SUCCESS"
          /\ Bytes(r) \subseteq TableBytes(a.table)
      BY <1>4, <1>9, GuardedGrows
    <3>. QED
      BY <1>5, <1>9, <3>1 DEF Gives
  <2>2. Adds(z, t)
    BY <1>2, <1>6, <2>1 DEF Adds
  <2>3. DOMAIN y.objs = 1 .. Len(objs)
    BY <1>3
  <2>4. /\ z.objs[n] = [o EXCEPT !.dest = a.addr]
        /\ \A q \in 1 .. Len(objs) : q # n => z.objs[q] = y.objs[q]
        /\ DOMAIN z.objs = 1 .. Len(objs)
    BY <1>3, <1>6, <2>3
  <2>5. /\ z.objs[n].dest = a.addr /\ z.objs[n].size = o.size /\ z.objs[n] \in Obj
    BY <1>1, <2>1, <2>4 DEF Obj
  <2>6. Dest(z.objs[n]) = r
    BY <2>5 DEF Dest
  <2>7. z.objs \in Seq(Obj) /\ Len(z.objs) = Len(objs)
    <3>1. \A q \in 1 .. Len(objs) : z.objs[q] \in Obj
      <4>1. \A q \in 1 .. Len(objs) : y.objs[q] \in Obj
        BY <1>3, <2>3
      <4>. QED
        BY <2>4, <2>5, <4>1
    <3>2. z.objs = [q \in 1 .. Len(objs) |-> z.objs[q]]
      BY <1>6, <2>3
    <3>. QED
      BY <1>1, <3>1, <3>2
  <2>8. Relaid(z.objs, objs, H \cup {n})
    <3>1. ASSUME NEW q \in 1 .. Len(objs)
          PROVE  /\ q \notin H \cup {n} => z.objs[q] = objs[q]
                 /\ q \in H \cup {n} =>
                      /\ z.objs[q] = [objs[q] EXCEPT !.dest = z.objs[q].dest]
                      /\ z.objs[q].dest # 0 /\ z.objs[q].dest % objs[q].align = 0
                      /\ z.objs[q].dest + objs[q].size < AddrLimit
      <4>1. CASE q = n
        BY <2>1, <2>4, <2>5, <4>1
      <4>2. CASE q # n
        <5>1. z.objs[q] = y.objs[q]
          BY <2>4, <4>2
        <5>. QED
          BY <1>2, <4>2, <5>1 DEF Relaid
      <4>. QED
        BY <4>1, <4>2
    <3>. QED
      BY <2>7, <3>1 DEF Relaid
  <2>9. \A q \in H : q # n /\ z.objs[q] = y.objs[q]
    BY <1>1, <2>4
  <2>10. \A q \in H : Bytes(Dest(z.objs[q])) \cap Bytes(r) = {}
    BY <1>2, <2>1, <2>9
  <2>11. Spread(z.objs, H \cup {n})
    BY <1>2, <2>6, <2>9, <2>10 DEF Spread
  <2>12. ASSUME NEW q \in H \cup {n}
         PROVE  /\ Bytes(Dest(z.objs[q])) \cap TableBytes(t) = {}
                /\ Bytes(Dest(z.objs[q])) \subseteq TableBytes(z.table)
    <3>1. TableBytes(t) \subseteq TableBytes(y.table)
      BY <1>2 DEF Adds
    <3>2. TableBytes(y.table) \subseteq TableBytes(z.table)
      BY <1>6, <2>1 DEF Adds
    <3>3. CASE q = n
      BY <1>6, <2>1, <2>6, <3>1, <3>3
    <3>4. CASE q # n
      <4>1. q \in H
        BY <3>4
      <4>. QED
        BY <1>2, <2>9, <3>2, <4>1
    <3>. QED
      BY <3>3, <3>4
  <2>13. KeptLow(z, H \cup {n}, option)
    <3>. SUFFICES ASSUME option = "32BIT", NEW q \in H \cup {n}
                  PROVE  Below4GB(Dest(z.objs[q]))
      BY DEF KeptLow
    <3>1. CASE q = n
      <4>1. a.addr \in Nat /\ o.size \in Nat
        BY <1>1, <2>1, AddressSpace DEF Addr
      <4>2. Below4GB(r)
        BY <1>5, <1>9, <4>1, EndsBelow
      <4>. QED
        BY <2>6, <3>1, <4>2
    <3>2. CASE q # n
      BY <1>2, <2>9, <3>2 DEF KeptLow
    <3>. QED
      BY <3>1, <3>2
  <2>. QED
    BY <2>2, <2>8, <2>11, <2>12, <2>13 DEF LaysLow, Lays
<1>. QED
  BY <1>5, <1>7, <1>8, <1>9 DEF Answers

LEMMA PlacingApart ==
  ASSUME NEW objs, NEW type, Layable(objs, type), NEW t, Guarded(t),
         NEW option \in {"ANY", "32BIT"}, NEW x, x = Separately(t, objs, type, option)
  PROVE  Covered(x) \/ LaysLow(x, t, objs, Group(objs, type), option)
<1>. DEFINE N == Len(objs)
            G == Group(objs, type)
<1>1. /\ N \in Nat /\ G = {n \in 1 .. N : objs[n].type = type}
      /\ objs \in Seq(Obj) /\ DOMAIN objs = 1 .. N
      /\ \A n \in 1 .. N : objs[n] \in Obj
  BY LayableObjects DEF Layable
<1>9. PICK y : OneAfterOther(y, objs, type, t, option) /\ x = y[N]
  BY <1>1, OneByOne
<1>2. /\ y[0] = [status |-> "SUCCESS", table |-> t, objs |-> objs]
      /\ \A n \in 1 .. N : y[n] = AlsoPlace(y[n - 1], n, type, option)
      /\ x = y[N]
  BY <1>9 DEF OneAfterOther
<1>. DEFINE Done(k) == Covered(y[k]) \/ LaysLow(y[k], t, objs, G \cap 1 .. k, option)
            S == {k \in 0 .. N : Done(k)}
<1>. HIDE DEF N, G
<1>3. Done(0)
  <2>1. y[0].status = "SUCCESS" /\ y[0].table = t /\ y[0].objs = objs
    BY <1>2
  <2>2. G \cap 1 .. 0 = {}
    OBVIOUS
  <2>3. Adds(y[0], t)
    BY <2>1 DEF Adds, Guarded
  <2>4. Relaid(objs, objs, {}) /\ Spread(objs, {})
    BY <1>1 DEF Relaid, Spread
  <2>5. LaysLow(y[0], t, objs, {}, option)
    BY <2>1, <2>3, <2>4 DEF LaysLow, Lays, KeptLow
  <2>. QED
    BY <2>2, <2>5
<1>4. ASSUME NEW k \in 0 .. N - 1, Done(k) PROVE Done(k + 1)
  <2>. PICK u, v : u = y[k] /\ v = y[k + 1]
    OBVIOUS
  <2>1. k + 1 \in 1 .. N /\ k + 1 - 1 = k
    BY <1>1
  <2>2. v = AlsoPlace(u, k + 1, type, option)
    BY <1>2, <2>1
  <2>. DEFINE H == G \cap 1 .. k
  <2>3. Covered(u) \/ LaysLow(u, t, objs, H, option)
    BY <1>4
  <2>4. /\ H \subseteq G /\ k + 1 \notin H
        /\ k + 1 \in G => G \cap 1 .. k + 1 = H \cup {k + 1}
        /\ k + 1 \notin G => G \cap 1 .. k + 1 = H
    <3>1. \A q : q \in 1 .. k + 1 <=> q \in 1 .. k \/ q = k + 1
      BY <1>1
    <3>2. k + 1 \notin 1 .. k
      BY <1>1
    <3>. QED
      BY <3>1, <3>2
  <2>. HIDE DEF H
  <2>5. CASE Covered(u) \/ u.status # "SUCCESS"
    <3>1. v = u
      BY <2>2, <2>5 DEF AlsoPlace
    <3>2. \A J : u.status # "SUCCESS" /\ Adds(u, t) => LaysLow(u, t, objs, J, option)
      BY DEF LaysLow, Lays, KeptLow
    <3>3. Covered(v) \/ LaysLow(v, t, objs, G \cap 1 .. k + 1, option)
      BY <2>3, <2>5, <3>1, <3>2 DEF LaysLow, Lays
    <3>. QED
      BY <3>3
  <2>6. CASE ~Covered(u) /\ u.status = "SUCCESS"
    <3>1. LaysLow(u, t, objs, H, option)
      BY <2>3, <2>6
    <3>2. u.objs[k + 1] = objs[k + 1]
      BY <2>1, <2>4, <2>6, <3>1 DEF LaysLow, Lays, Relaid, N
    <3>3. k + 1 \in G <=> objs[k + 1].type = type
      BY <1>1, <2>1
    <3>4. CASE k + 1 \notin G
      <4>1. v = u
        BY <2>2, <3>2, <3>3, <3>4 DEF AlsoPlace
      <4>. QED
        BY <2>4, <3>1, <3>4, <4>1
    <3>5. CASE k + 1 \in G
      <4>1. objs[k + 1].type = type
        BY <3>3, <3>5
      <4>2. Covered(v) \/ LaysLow(v, t, objs, H \cup {k + 1}, option)
        <5>. PICK n : n = k + 1
          OBVIOUS
        <5>1. /\ n \in 1 .. Len(objs) /\ objs[n].type = type /\ n \notin H
              /\ H \subseteq Group(objs, type) /\ v = AlsoPlace(u, n, type, option)
          BY <2>1, <2>2, <2>4, <4>1 DEF N, G
        <5>2. Covered(v) \/ LaysLow(v, t, objs, H \cup {n}, option)
          BY <2>6, <3>1, <5>1, PlacingOne
        <5>. QED
          BY <5>2
      <4>. QED
        BY <2>4, <3>5, <4>2
    <3>. QED
      BY <3>4, <3>5
  <2>. QED
    BY <2>5, <2>6
<1>5. 0 .. N \subseteq S
  <2>. HIDE DEF Done
  <2>1. 0 \in S
    BY <1>1, <1>3
  <2>2. ASSUME NEW k \in 0 .. N - 1, k \in S PROVE k + 1 \in S
    <3>1. k + 1 \in 0 .. N
      BY <1>1
    <3>. QED
      BY <1>4, <2>2, <3>1
  <2>. HIDE DEF S
  <2>. QED
    BY <1>1, <2>1, <2>2, Climbing
<1>6. N \in 0 .. N
  BY <1>1
<1>7. Done(N)
  <2>. HIDE DEF Done
  <2>. QED
    BY <1>5, <1>6
<1>8. G \cap 1 .. N = G
  BY <1>1
<1>. QED
  BY <1>2, <1>7, <1>8 DEF G, N

\* The largest alignment of a group is a multiple of all of them.
LEMMA MaxAligned ==
  ASSUME NEW objs, NEW type, Layable(objs, type), Group(objs, type) # {},
         NEW u, u = MaxAlign(objs, type)
  PROVE  /\ Alignment(u) /\ \A n \in Group(objs, type) : u % objs[n].align = 0
         /\ \E n \in Group(objs, type) : u = objs[n].align
<1>. DEFINE as == {objs[n].align : n \in Group(objs, type)}
<1>1. /\ AddrLimit \in Nat \ {0, 1}
      /\ \A n \in Group(objs, type) :
           objs[n].align \in Nat \ {0} /\ objs[n].align < AddrLimit
  BY LayableObjects, AddressSpace
<1>2. as # {} /\ \A a \in as : a \in Nat \ {0} /\ a < AddrLimit
  BY <1>1
<1>3. Nesting(as) /\ \A a \in as : Alignment(a)
  BY DEF Layable
<1>4. u = Max({1} \cup as)
  BY DEF MaxAlign
<1>. HIDE DEF as
<1>5. {1} \cup as \subseteq 0 .. AddrLimit /\ {1} \cup as # {}
  <2>1. AddrLimit \in Nat \ {0, 1}
    BY <1>1
  <2>2. ASSUME NEW a \in {1} \cup as PROVE a \in 0 .. AddrLimit
    <3>1. CASE a = 1
      BY <2>1, <3>1
    <3>2. CASE a \in as
      <4>1. a \in Nat /\ a < AddrLimit
        BY <1>2, <3>2
      <4>. QED
        BY <2>1, <4>1
    <3>. QED
      BY <2>2, <3>1, <3>2
  <2>. QED
    BY <2>2
<1>6. u \in {1} \cup as /\ \A a \in {1} \cup as : a <= u
  BY <1>1, <1>4, <1>5, Highest
<1>7. u \in as
  <2>1. CASE u = 1
    <3>1. PICK a : a \in as
      BY <1>2
    <3>2. a <= 1 /\ a \in Nat \ {0}
      BY <1>2, <1>6, <2>1, <3>1
    <3>3. a = 1
      BY <3>2
    <3>. QED
      BY <2>1, <3>1, <3>3
  <2>. QED
    BY <1>6, <2>1
<1>8. \A a \in as : u % a = 0
  BY <1>3, <1>6, <1>7 DEF Nesting
<1>. QED
  BY <1>3, <1>7, <1>8 DEF as

\* The length of a group in one piece.
LEMMA PieceLength ==
  ASSUME NEW objs, NEW type, Layable(objs, type), Group(objs, type) # {},
         NEW size, size = EndAfter(objs, type, 0)[Len(objs)]
  PROVE  size \in Addr \ {0}
<1>. PICK e : e = EndAfter(objs, type, 0)
  OBVIOUS
<1>1. /\ Len(objs) \in Nat /\ AddrLimit \in Nat /\ Addr = 0 .. AddrLimit - 1
      /\ Group(objs, type) = {n \in 1 .. Len(objs) : objs[n].type = type}
      /\ \A n \in 1 .. Len(objs) : objs[n].size \in Nat \ {0}
  BY LayableObjects, AddressSpace DEF Addr
<1>2. Stack(e, objs, type)
  BY Stacking
<1>3. PICK n \in 1 .. Len(objs) : objs[n].type = type
  BY <1>1
<1>4. n \in 0 .. Len(objs) /\ Len(objs) \in 0 .. Len(objs) /\ n <= Len(objs)
  BY <1>1, <1>3
<1>5. e[n] <= e[Len(objs)] /\ e[n] \in Nat /\ e[Len(objs)] \in Nat
      /\ e[Len(objs)] < AddrLimit
  <2>1. e[n] <= e[Len(objs)]
    BY <1>1, <1>2, <1>4, StackGrows
  <2>. QED
    BY <1>2, <1>4, <2>1 DEF Stack
<1>6. e[n] > 0
  <2>1. /\ roundup64(e[n - 1], objs[n].align) \in Nat
        /\ e[n] = roundup64(e[n - 1], objs[n].align) + objs[n].size
    BY <1>2, <1>3 DEF Stack
  <2>2. objs[n].size \in Nat \ {0}
    BY <1>1
  <2>. QED
    BY <2>1, <2>2
<1>. QED
  BY <1>1, <1>5, <1>6

LEMMA SettingAddresses ==
  ASSUME NEW objs, NEW type, Layable(objs, type), NEW t, Guarded(t),
         NEW preferred \in Addr, NEW option \in {"ANY", "32BIT"},
         NEW x, x = set_runtime_addr(t, objs, type, preferred, option)
  PROVE  \/ Covered(x)
         \/ /\ Lays(x, t, objs, Group(objs, type))
            /\ BelowGap(t, objs, type, preferred) => KeptLow(x, Group(objs, type), option)
<1>. DEFINE G == Group(objs, type)
<1>. PICK near \in BOOLEAN : near <=> BelowGap(t, objs, type, preferred)
  OBVIOUS
<1>1. CASE G = {}
  <2>1. x.status = "SUCCESS" /\ x.table = t /\ x.objs = objs
    BY <1>1 DEF set_runtime_addr
  <2>2. Adds(x, t)
    BY <2>1 DEF Adds, Guarded
  <2>3. Relaid(objs, objs, {}) /\ Spread(objs, {})
    <3>1. objs \in Seq(Obj)
      BY DEF Layable
    <3>. QED
      BY <3>1 DEF Relaid, Spread
  <2>. QED
    BY <1>1, <2>1, <2>2, <2>3 DEF Lays, KeptLow
<1>2. CASE G # {}
  <2>. PICK size, u : size = EndAfter(objs, type, 0)[Len(objs)] /\ u = MaxAlign(objs, type)
    OBVIOUS
  <2>. PICK fixed : fixed = AtPreferred(t, objs, type, preferred, size)
    OBVIOUS
  <2>. PICK any : any = OrAnywhere(fixed, objs, type, size, option)
    OBVIOUS
  <2>1. x = OrSeparately(any, objs, type, option)
    BY <1>2 DEF set_runtime_addr
  <2>2. size \in Addr \ {0} /\ Alignment(u) /\ u \in 1 .. AddrLimit - 1
    BY <1>2, PieceLength, MaxAligned DEF Alignment
  <2>3. /\ Answers(fixed, t, size)
        /\ Gives(fixed, t, size) => fixed.addr % u = 0
        /\ Gives(fixed, t, size) /\ near => fixed.addr <= MaxAddr32
    <3>1. CASE preferred > 0
      <4>. PICK at : at = roundup64(preferred, u)
        OBVIOUS
      <4>1. at \in Addr /\ at % u = 0
        BY <2>2, RoundWrapped
      <4>2. fixed = alloc(t, at, size, 1, "FIXED")
        BY <3>1 DEF AtPreferred
      <4>3. Answers(fixed, t, size) /\ (Gives(fixed, t, size) => fixed.addr = at)
        BY <2>2, <4>1, <4>2, AllocatingFixed
      <4>4. ASSUME near PROVE at <= MaxAddr32
        <5>1. /\ AddrLimit \in Nat /\ PageSize \in Nat /\ MaxAddr32 \in 0 .. AddrLimit - 1
              /\ preferred \in Nat
          BY AddressSpace DEF Addr
        <5>2. preferred + PageSize <= MaxAddr32 + 1
          BY <4>4 DEF BelowGap
        <5>3. u <= PageSize
          BY <1>2, <4>4, MaxAligned DEF BelowGap
        <5>4. preferred + u - 1 <= MaxAddr32 /\ preferred + u - 1 < AddrLimit
          BY <2>2, <5>1, <5>2, <5>3
        <5>5. at \in Nat /\ at <= preferred + u - 1
          BY <2>2, <5>1, <5>4, RoundUp
        <5>. QED
          BY <2>2, <5>1, <5>4, <5>5
      <4>. QED
        BY <4>1, <4>3, <4>4
    <3>2. CASE ~(preferred > 0)
      <4>1. fixed.status = "OUT_OF_RESOURCES" /\ fixed.table = t
        BY <3>2 DEF AtPreferred
      <4>2. Refuses(fixed, t)
        BY <4>1 DEF Refuses
      <4>3. ~Gives(fixed, t, size)
        BY <4>1 DEF Gives, Takes
      <4>. QED
        BY <4>2, <4>3 DEF Answers
    <3>. QED
      BY <3>1, <3>2
  <2>4. /\ Answers(any, t, size)
        /\ Gives(any, t, size) => any.addr % u = 0
        /\ Gives(any, t, size) /\ near /\ option = "32BIT" => any.addr <= MaxAddr32
    <3>1. CASE Refuses(fixed, t)
      <4>1. ~Found(fixed) /\ fixed.status # "HANG" /\ fixed.table = t
        BY <3>1 DEF Refuses, Found
      <4>2. any = alloc(t, 0, size, u, option)
        BY <4>1 DEF OrAnywhere
      <4>3. /\ Answers(any, t, size)
            /\ Gives(any, t, size) => any.addr % u = 0
            /\ Gives(any, t, size) /\ option = "32BIT" => any.addr + size <= MaxAddr32
        BY <2>2, <4>2, AllocatingAny
      <4>4. Gives(any, t, size) /\ any.addr + size <= MaxAddr32 => any.addr <= MaxAddr32
        BY <2>2, AddressSpace DEF Gives, Addr
      <4>. QED
        BY <4>3, <4>4
    <3>2. CASE ~Refuses(fixed, t)
      <4>1. Found(fixed)
        BY <2>3, <3>2 DEF Answers, Gives, Takes, Found
      <4>2. any = fixed
        BY <4>1 DEF OrAnywhere
      <4>. QED
        BY <2>3, <4>2
    <3>. QED
      BY <3>1, <3>2
  <2>5. CASE Refuses(any, t)
    <3>1. ~Found(any) /\ any.status # "HANG" /\ any.table = t
      BY <2>5 DEF Refuses, Found
    <3>2. x = Separately(t, objs, type, option)
      BY <2>1, <3>1 DEF OrSeparately
    <3>. QED
      BY <3>2, PlacingApart DEF LaysLow
  <2>6. CASE ~Refuses(any, t)
    <3>1. Found(any) /\ any.status # "HANG"
      BY <2>4, <2>6 DEF Answers, Gives, Takes, Found
    <3>2. /\ x.status = "SUCCESS" /\ x.table = any.table
          /\ x.objs = InOnePiece(objs, type, any.addr)
      BY <2>1, <3>1 DEF OrSeparately
    <3>3. CASE Covered(any)
      BY <3>2, <3>3 DEF Covered
    <3>4. CASE Gives(any, t, size)
      <4>. PICK r : r = Request(any.addr, size)
        OBVIOUS
      <4>1. /\ any.addr \in Addr /\ any.addr # 0 /\ any.addr + size < AddrLimit
            /\ Bytes(r) \cap TableBytes(t) = {} /\ any.addr % u = 0
        BY <2>4, <3>4 DEF Gives
      <4>2. Adds(any, t) /\ Bytes(r) \subseteq TableBytes(any.table)
        BY <3>4, GuardedGrows
      <4>3. any.addr \in Nat \ {0}
        BY <4>1, AddressSpace DEF Addr
      <4>4. \A n \in G : any.addr % objs[n].align = 0
        <5>1. \A n \in G : u % objs[n].align = 0 /\ objs[n].align \in Nat \ {0}
          BY <1>2, MaxAligned, LayableObjects
        <5>2. u \in Nat \ {0}
          BY <2>2
        <5>. QED
          BY <4>1, <4>3, <5>1, <5>2, MultiplesOfMultiples
      <4>5. /\ Relaid(x.objs, objs, G) /\ Spread(x.objs, G)
            /\ \A n \in G : Bytes(Dest(x.objs[n])) \subseteq Bytes(r)
        <5>. PICK start : start = any.addr
          OBVIOUS
        <5>. PICK e : e = EndAfter(objs, type, 0)
          OBVIOUS
        <5>1. start \in Nat \ {0} /\ start + e[Len(objs)] < AddrLimit
          BY <4>1, <4>3
        <5>2. \A n \in Group(objs, type) : start % objs[n].align = 0
          BY <4>4
        <5>3. /\ x.objs = InOnePiece(objs, type, start)
              /\ r = Request(start, e[Len(objs)])
          BY <3>2
        <5>. HIDE DEF G
        <5>4. /\ Relaid(x.objs, objs, Group(objs, type)) /\ Spread(x.objs, Group(objs, type))
              /\ \A n \in Group(objs, type) :
                   Bytes(Dest(x.objs[n])) \subseteq Bytes(Request(start, e[Len(objs)]))
          BY <5>1, <5>2, <5>3, PlacingInOnePiece, ZenonT(60)
        <5>. QED
          BY <5>3, <5>4 DEF G
      <4>6. Adds(x, t)
        BY <3>2, <4>2 DEF Adds
      <4>7. \A n \in G : /\ Bytes(Dest(x.objs[n])) \cap TableBytes(t) = {}
                         /\ Bytes(Dest(x.objs[n])) \subseteq TableBytes(x.table)
        BY <3>2, <4>1, <4>2, <4>5
      <4>8. ASSUME near, option = "32BIT" PROVE Below4GB(r)
        <5>1. any.addr <= MaxAddr32 /\ MaxAddr32 \notin Bytes(r)
          BY <2>4, <3>4, <4>1, <4>8 DEF BelowGap
        <5>2. size \in Nat
          BY <2>2, AddressSpace DEF Addr
        <5>. QED
          BY <4>3, <5>1, <5>2, StaysBelow
      <4>9. near => KeptLow(x, G, option)
        BY <4>5, <4>8 DEF KeptLow, Below4GB
      <4>. QED
        BY <4>5, <4>6, <4>7, <4>9 DEF Lays
    <3>. QED
      BY <2>4, <2>6, <3>3, <3>4 DEF Answers
  <2>. QED
    BY <2>5, <2>6
<1>. QED
  BY <1>1, <1>2

-----------------------------------------------------------------------------
(* What holds from one call to the next.                                    *)

\* The memory the firmware reports as available to anybody.
Available(m) ==
  {a \in Addr : \E j \in DOMAIN m : m[j].type = "available" /\ a \in Bytes(m[j])}

\* What is known of an object by its type.
Origin(o, l) ==
  /\ o.type = "k" => o.align = 1
  /\ o.type \in {"m", "s"} =>
       \E i \in DOMAIN l.objects :
         /\ o.type = l.objects[i].type
         /\ o.align = l.objects[i].align /\ o.size = l.objects[i].size
  /\ o.type = "t" => X86 /\ o.align = AlignFunc /\ o.size = LowSize
  /\ o.src + o.size < AddrLimit

\* A destination is aligned, and in usable memory.
Settled(o, m) ==
  /\ o.dest + o.size < AddrLimit /\ o.dest % o.align = 0
  /\ Bytes(Dest(o)) \subseteq Ram(m)

Objects(objs, l, m) ==
  /\ objs \in Seq(Obj) /\ Len(objs) <= MaxRelocs - 2
  /\ \A n \in DOMAIN objs :
       Origin(objs[n], l) /\ (objs[n].dest # 0 => Settled(objs[n], m))

\* Safe memory is nobody's: it is available, and no destination.
SafeRanges(rs, objs, m) ==
  /\ rs \in Seq(AddrRange)
  /\ \A i \in DOMAIN rs :
       /\ rs[i].len > 0 /\ Top(rs[i]) < AddrLimit
       /\ Bytes(rs[i]) \subseteq Ram(m) \cap Available(m)
       /\ \A n \in DOMAIN objs : Bytes(rs[i]) \cap Bytes(Dest(objs[n])) = {}
       /\ \A j \in DOMAIN rs : i # j => Bytes(rs[i]) \cap Bytes(rs[j]) = {}

\* However the road ends.
Anyhow(m, l, big, t, objs, rs) ==
  /\ m \in Maps /\ l \in Loads(m) /\ big \in Seq(MapEntry) /\ Tidy(t)
  /\ Objects(objs, l, m) /\ SafeRanges(rs, objs, m)

\* The types of the objects that have a destination.
PlacedTypes(p) ==
  CASE p \in {"boot_register", "compute_relocations", "place_info"} -> {"k"}
    [] p = "place_low" -> {"k", "s"}
    [] p = "place_modules" -> {"k", "s", "t"}
    [] OTHER -> {"k", "m", "s", "t"}

\* The table holds every destination, and no two of them meet.
PlacedApart(objs, types, t) ==
  /\ \A n \in DOMAIN objs : objs[n].dest # 0 <=> objs[n].type \in types
  /\ \A n \in DOMAIN objs :
       objs[n].dest # 0 => Bytes(Dest(objs[n])) \subseteq TableBytes(t)
  /\ \A p, q \in DOMAIN objs :
       p # q /\ objs[p].dest # 0 /\ objs[q].dest # 0 =>
         Bytes(Dest(objs[p])) \cap Bytes(Dest(objs[q])) = {}

\* From blacklist_bootloader_mem on, the table also holds every source, all of
\* the boot loader's memory, and the safe memory handed out.
AllHeld(objs, t, rs, m) ==
  /\ \A n \in DOMAIN objs :
       objs[n].src # Null => Bytes(Source(objs[n])) \subseteq TableBytes(t)
  /\ Addr \ TableBytes(t) \subseteq Available(m)
  /\ \A i \in DOMAIN rs : Bytes(rs[i]) \subseteq TableBytes(t)

\* Before that, sources are still where they were loaded.
NotYet(objs, rs) ==
  /\ \A n \in DOMAIN objs :
       objs[n].src # Null => objs[n].src + objs[n].size <= AddrLimit - PageSize
  /\ rs = << >>

SafePhase == {"relocate_runtime_services", "reloc_resolve", "install_trampoline",
              "relocate_page_tables2", "handoff"}

\* The table of objects, as far as it is filled in.
Registered(objs, p) ==
  /\ p = "boot_register" <=> objs = << >>
  /\ p = "place_low" => Len(objs) >= 2
  /\ p = "place_info" /\ X86 => Len(objs) >= 2
  /\ p \in {"relocate_page_tables2", "handoff"} => Len(objs) + 4 <= MaxRelocs

OnTheWay(p, m, big, t, objs, rs) ==
  /\ Guarded(t) /\ MergedMap(big, m) /\ Addr \ TableBytes(t) \subseteq Ram(big)
  /\ Registered(objs, p) /\ PlacedApart(objs, PlacedTypes(p), t)
  /\ IF p \in SafePhase THEN AllHeld(objs, t, rs, m) ELSE NotYet(objs, rs)

\* All of it, when the code is at p.
Holds(p, m, l, big, t, objs, rs) ==
  /\ p \in Steps \cup {"handoff", "panic"}
  /\ Anyhow(m, l, big, t, objs, rs)
  /\ p = "firmware_shutdown" =>
       big = m /\ t = << >> /\ objs = << >> /\ rs = << >>
  /\ p \notin {"firmware_shutdown", "panic"} => OnTheWay(p, m, big, t, objs, rs)

IInv == Holds(pc, firmware, load, mmap, allocs, relocs, safe)

\* Every machine the program may find itself on.
Machine == \A m \in Maps : FirmwareMap(m)

-----------------------------------------------------------------------------
(* The table of objects, while destinations are given out.                  *)

\* One object, as PlacedApart, Objects and NotYet have it.
Sound(o, types, l, m, t) ==
  /\ o \in Obj /\ Origin(o, l) /\ (o.dest # 0 <=> o.type \in types)
  /\ o.dest # 0 => Settled(o, m) /\ Bytes(Dest(o)) \subseteq TableBytes(t)
  /\ o.src # Null => o.src + o.size <= AddrLimit - PageSize

Clear(o, p) == o.dest # 0 /\ p.dest # 0 => Bytes(Dest(o)) \cap Bytes(Dest(p)) = {}

InPlace(objs, types, l, m, t) ==
  Objects(objs, l, m) /\ PlacedApart(objs, types, t) /\ NotYet(objs, << >>)

LEMMA InPlaceParts ==
  ASSUME NEW objs, NEW types, NEW l, NEW m, NEW t
  PROVE  InPlace(objs, types, l, m, t) <=>
           /\ objs \in Seq(Obj) /\ Len(objs) <= MaxRelocs - 2
           /\ \A n \in 1 .. Len(objs) : Sound(objs[n], types, l, m, t)
           /\ \A p, q \in 1 .. Len(objs) : p # q => Clear(objs[p], objs[q])
<1>1. CASE objs \notin Seq(Obj)
  BY <1>1 DEF InPlace, Objects
<1>2. CASE objs \in Seq(Obj)
  <2>1. DOMAIN objs = 1 .. Len(objs) /\ \A n \in 1 .. Len(objs) : objs[n] \in Obj
    BY <1>2
  <2>. QED
    BY <1>2, <2>1 DEF InPlace, Objects, PlacedApart, NotYet, Sound, Clear
<1>. QED
  BY <1>1, <1>2

\* Some of the objects, each at most once.
Drawn(new, objs, f) ==
  /\ \A n \in 1 .. Len(new) : f[n] \in DOMAIN objs /\ new[n] = objs[f[n]]
  /\ \A p, q \in 1 .. Len(new) : p # q => f[p] # f[q]

LEMMA Drawing ==
  ASSUME NEW objs, NEW new, Len(new) \in Nat, DOMAIN new = 1 .. Len(new),
         new = [n \in 1 .. Len(new) |-> new[n]], Len(new) <= MaxRelocs - 2,
         NEW f, Drawn(new, objs, f),
         NEW types, NEW l, NEW m, NEW t,
         \A n \in 1 .. Len(new) : Sound(objs[f[n]], types, l, m, t),
         \A p, q \in DOMAIN objs :
           p # q /\ objs[p].size > 0 /\ objs[q].size > 0 => Clear(objs[p], objs[q])
  PROVE  InPlace(new, types, l, m, t)
<1>1. \A n \in 1 .. Len(new) : Sound(new[n], types, l, m, t)
  BY DEF Drawn
<1>2. \A n \in 1 .. Len(new) : new[n] \in Obj
  BY <1>1 DEF Sound
<1>3. new \in Seq(Obj)
  BY <1>2
<1>4. ASSUME NEW p \in 1 .. Len(new), NEW q \in 1 .. Len(new), p # q
      PROVE  Clear(new[p], new[q])
  <2>1. /\ f[p] \in DOMAIN objs /\ f[q] \in DOMAIN objs /\ f[p] # f[q]
        /\ new[p] = objs[f[p]] /\ new[q] = objs[f[q]]
    BY <1>4 DEF Drawn
  <2>2. \A o : o \in Obj => o.size > 0
    <3>. SUFFICES ASSUME NEW o, o \in Obj PROVE o.size > 0
      OBVIOUS
    <3>1. o.size \in Addr \ {0}
      BY DEF Obj
    <3>. QED
      BY <3>1, AddressSpace DEF Addr
  <2>. QED
    BY <1>2, <2>1, <2>2
<1>. QED
  BY <1>1, <1>3, <1>4, InPlaceParts

\* ByType puts the same objects in another order.
LEMMA Reordering ==
  ASSUME NEW objs, NEW types, NEW l, NEW m, NEW t, InPlace(objs, types, l, m, t),
         NEW new, new = ByType(objs)
  PROVE  InPlace(new, types, l, m, t) /\ Len(new) = Len(objs)
<1>. DEFINE key == [n \in DOMAIN objs |-> Ordinal[objs[n].type]]
<1>1. /\ objs \in Seq(Obj) /\ Len(objs) <= MaxRelocs - 2
      /\ \A n \in 1 .. Len(objs) : Sound(objs[n], types, l, m, t)
      /\ \A p, q \in 1 .. Len(objs) : p # q => Clear(objs[p], objs[q])
  BY InPlaceParts
<1>2. Len(objs) \in Nat /\ DOMAIN objs = 1 .. Len(objs)
      /\ \A n \in 1 .. Len(objs) : objs[n] \in Obj
  BY <1>1
<1>3. DOMAIN key = 1 .. Len(objs) /\ \A n \in DOMAIN key : key[n] \in Nat
  <2>1. DOMAIN key = 1 .. Len(objs)
    BY <1>2
  <2>2. ASSUME NEW n \in 1 .. Len(objs) PROVE key[n] \in Nat
    <3>1. objs[n].type \in {"k", "m", "s", "t"}
      BY <1>2 DEF Obj
    <3>2. key[n] = Ordinal[objs[n].type]
      BY <1>2
    <3>. QED
      BY <3>1, <3>2 DEF Ordinal
  <2>. QED
    BY <2>1, <2>2
<1>4. IsFiniteSet(DOMAIN key) /\ Cardinality(DOMAIN key) = Len(objs)
  <2>1. IsFiniteSet(1 .. Len(objs)) /\ Cardinality(1 .. Len(objs)) = Len(objs)
    BY <1>2, FS_Interval, SMTT(30)
  <2>. QED
    BY <1>3, <2>1
<1>. PICK order : order = bubble_sort(key)
  OBVIOUS
<1>5. new = Entries(objs, order)
  BY DEF ByType
<1>. HIDE DEF key
<1>6. /\ order \in [1 .. Len(objs) -> DOMAIN key]
      /\ \A a, b \in 1 .. Len(objs) : a < b => order[a] # order[b]
  <2>1. DOMAIN key \subseteq Nat
    BY <1>2, <1>3
  <2>. QED
    BY <1>3, <1>4, <2>1, Ranking, SMTT(30)
<1>7. new = [n \in 1 .. Len(objs) |-> objs[order[n]]]
  BY <1>5, <1>6 DEF Entries
<1>8. Len(new) = Len(objs) /\ DOMAIN new = 1 .. Len(new)
  BY <1>2, <1>7
<1>9. Drawn(new, objs, order)
  <2>1. \A n \in 1 .. Len(new) : order[n] \in DOMAIN objs /\ new[n] = objs[order[n]]
    BY <1>2, <1>3, <1>6, <1>7, <1>8
  <2>2. \A a, b \in 1 .. Len(new) : a # b => order[a] # order[b]
    <3>1. \A a, b \in 1 .. Len(new) : a # b => a < b \/ b < a
      BY <1>2, <1>8
    <3>. QED
      BY <1>6, <1>8, <3>1
  <2>. QED
    BY <2>1, <2>2 DEF Drawn
<1>10. \A n \in 1 .. Len(new) : Sound(objs[order[n]], types, l, m, t)
  BY <1>1, <1>2, <1>9 DEF Drawn
<1>11. new = [n \in 1 .. Len(new) |-> new[n]] /\ Len(new) <= MaxRelocs - 2 /\ Len(new) \in Nat
  BY <1>1, <1>2, <1>7, <1>8
<1>12. \A p, q \in DOMAIN objs : p # q => Clear(objs[p], objs[q])
  BY <1>1, <1>2
<1>13. InPlace(new, types, l, m, t)
  BY <1>8, <1>9, <1>10, <1>11, <1>12, Drawing
<1>. QED
  BY <1>8, <1>13

-----------------------------------------------------------------------------
(* boot_register: the kernel's memory, and its segments in the table.       *)

LEMMA Segments ==
  ASSUME Loadable(load)
  PROVE  /\ Len(load.segments) \in Nat \ {0}
         /\ DOMAIN load.segments = 1 .. Len(load.segments)
         /\ \A i \in 1 .. Len(load.segments) :
              LET s == load.segments[i]
              IN  /\ s.paddr \in Nat /\ s.memsz \in Nat \ {0}
                  /\ s.src \in Nat \ {0} /\ s.filesz \in Nat /\ s.filesz <= s.memsz
                  /\ s.paddr + s.memsz <= AddrLimit - PageSize
                  /\ s.src + s.filesz <= AddrLimit - PageSize
         /\ \A i, j \in 1 .. Len(load.segments) :
              i # j => \/ load.segments[i].paddr + load.segments[i].memsz
                            <= load.segments[j].paddr
                       \/ load.segments[j].paddr + load.segments[j].memsz
                            <= load.segments[i].paddr
<1>. DEFINE T == [paddr : Addr, memsz : Addr \ {0}, src : Addr \ {Null}, filesz : Addr]
<1>1. load.segments \in Seq(T) /\ load.segments # << >>
  BY DEF Loadable
<1>2. Len(load.segments) \in Nat \ {0} /\ DOMAIN load.segments = 1 .. Len(load.segments)
      /\ \A i \in 1 .. Len(load.segments) : load.segments[i] \in T
  <2>. HIDE DEF T
  <2>. QED
    BY <1>1
<1>3. Addr \subseteq Nat /\ 0 \in Addr
  BY AddressSpace DEF Addr
<1>4. ASSUME NEW i \in 1 .. Len(load.segments)
      PROVE  LET s == load.segments[i]
             IN  /\ s.paddr \in Nat /\ s.memsz \in Nat \ {0}
                 /\ s.src \in Nat \ {0} /\ s.filesz \in Nat /\ s.filesz <= s.memsz
                 /\ s.paddr + s.memsz <= AddrLimit - PageSize
                 /\ s.src + s.filesz <= AddrLimit - PageSize
  <2>. PICK s : s = load.segments[i]
    OBVIOUS
  <2>1. /\ s.paddr \in Nat /\ s.memsz \in Nat \ {0}
        /\ s.src \in Nat \ {0} /\ s.filesz \in Nat
    BY <1>2, <1>3 DEF Null
  <2>2. s.filesz <= s.memsz /\ InMemory(Image(s)) /\ InMemory(Request(s.src, s.filesz))
    BY <1>2 DEF Loadable
  <2>3. /\ s.paddr + s.memsz <= AddrLimit - PageSize
        /\ s.src + s.filesz <= AddrLimit - PageSize
    BY <2>2 DEF InMemory, Image, Request, Top
  <2>. QED
    BY <2>1, <2>2, <2>3
<1>5. ASSUME NEW i \in 1 .. Len(load.segments), NEW j \in 1 .. Len(load.segments), i # j
      PROVE  \/ load.segments[i].paddr + load.segments[i].memsz <= load.segments[j].paddr
             \/ load.segments[j].paddr + load.segments[j].memsz <= load.segments[i].paddr
  <2>1. \/ Top(Image(load.segments[i])) <= load.segments[j].paddr
        \/ Top(Image(load.segments[j])) <= load.segments[i].paddr
    BY <1>2, <1>5 DEF Loadable
  <2>. QED
    BY <2>1 DEF Image, Request, Top
<1>. QED
  BY <1>2, <1>4, <1>5

LEMMA ImageBounds ==
  ASSUME Loadable(load)
  PROVE  /\ ImageBase \in Nat /\ ImageEnd \in Nat /\ ImageBase < ImageEnd
         /\ ImageEnd <= AddrLimit - PageSize
         /\ \A i \in 1 .. Len(load.segments) :
              /\ ImageBase <= load.segments[i].paddr
              /\ load.segments[i].paddr + load.segments[i].memsz <= ImageEnd
<1>. DEFINE N == Len(load.segments)
            lows == {load.segments[i].paddr : i \in DOMAIN load.segments}
            highs == {load.segments[i].paddr + load.segments[i].memsz :
                        i \in DOMAIN load.segments}
<1>1. /\ N \in Nat \ {0} /\ DOMAIN load.segments = 1 .. N
      /\ \A i \in 1 .. N :
           /\ load.segments[i].paddr \in Nat /\ load.segments[i].memsz \in Nat \ {0}
           /\ load.segments[i].paddr + load.segments[i].memsz <= AddrLimit - PageSize
  BY Segments
<1>2. AddrLimit - PageSize \in Nat
  BY <1>1, Trampoline, AddressSpace
<1>3. 1 \in 1 .. N
  BY <1>1
<1>4. lows \subseteq Nat /\ lows # {}
  BY <1>1, <1>3
<1>5. highs \subseteq 0 .. AddrLimit - PageSize /\ highs # {}
  <2>1. ASSUME NEW i \in 1 .. N
        PROVE  load.segments[i].paddr + load.segments[i].memsz \in 0 .. AddrLimit - PageSize
    <3>. PICK a, b : a = load.segments[i].paddr /\ b = load.segments[i].memsz
      OBVIOUS
    <3>1. a \in Nat /\ b \in Nat \ {0} /\ a + b <= AddrLimit - PageSize
      BY <1>1
    <3>. QED
      BY <1>2, <3>1
  <2>. QED
    BY <1>1, <1>3, <2>1
<1>6. Min(lows) \in lows /\ \A y \in lows : Min(lows) <= y
  <2>. HIDE DEF lows
  <2>. QED
    BY <1>4, Lowest
<1>7. Max(highs) \in highs /\ \A y \in highs : y <= Max(highs)
  <2>. HIDE DEF highs
  <2>. QED
    BY <1>2, <1>5, Highest
<1>8. ImageBase = Min(lows) /\ ImageEnd = Max(highs)
  BY DEF ImageBase, ImageEnd
<1>9. \A i \in 1 .. N : /\ load.segments[i].paddr \in lows
                        /\ load.segments[i].paddr + load.segments[i].memsz \in highs
  BY <1>1
<1>10. ImageBase \in Nat /\ ImageEnd \in Nat /\ ImageEnd <= AddrLimit - PageSize
  BY <1>2, <1>4, <1>5, <1>6, <1>7, <1>8
<1>11. \A i \in 1 .. N : /\ ImageBase <= load.segments[i].paddr
                         /\ load.segments[i].paddr + load.segments[i].memsz <= ImageEnd
  <2>. HIDE DEF lows, highs
  <2>. QED
    BY <1>6, <1>7, <1>8, <1>9
<1>12. ImageBase < ImageEnd
  <2>. PICK a, b : a = load.segments[1].paddr /\ b = load.segments[1].memsz
    OBVIOUS
  <2>1. a \in Nat /\ b \in Nat \ {0} /\ ImageBase <= a /\ a + b <= ImageEnd
    BY <1>1, <1>3, <1>11
  <2>. QED
    BY <1>10, <2>1
<1>. QED
  BY <1>10, <1>11, <1>12

\* A part of a segment, in the image that is addend higher than it was linked for.
PartOf(o, s, addend) ==
  /\ o.type = "k" /\ o.align = 1 /\ o.src \in Nat /\ o.size \in Nat /\ o.dest \in Int
  /\ s.paddr + addend <= o.dest /\ o.dest + o.size <= s.paddr + s.memsz + addend
  /\ o.src # Null => o.src + o.size <= AddrLimit - PageSize
  /\ o.src = Null => o.size <= s.memsz

Parts(S, addend) ==
  /\ DOMAIN S = 1 .. 2 * Len(load.segments) /\ Len(S) = 2 * Len(load.segments)
  /\ S = [k \in 1 .. 2 * Len(load.segments) |-> S[k]]
  /\ \A k \in DOMAIN S :
       /\ \E i \in 1 .. Len(load.segments) : PartOf(S[k], load.segments[i], addend)
       /\ S[k] = Object("k", S[k].src, S[k].size, S[k].dest, 1)
  /\ \A k, q \in DOMAIN S : k # q =>
       S[k].dest + S[k].size <= S[q].dest \/ S[q].dest + S[q].size <= S[k].dest
  /\ \E k \in DOMAIN S : S[k].size > 0

LEMMA SegmentParts ==
  ASSUME Loadable(load), NEW addend \in Int, NEW S, S = elf_register_segments(addend)
  PROVE  Parts(S, addend)
<1>. DEFINE N == Len(load.segments)
            seg(k) == (k + 1) \div 2
<1>1. /\ N \in Nat \ {0}
      /\ \A i \in 1 .. N :
           /\ load.segments[i].paddr \in Nat /\ load.segments[i].memsz \in Nat \ {0}
           /\ load.segments[i].src \in Nat \ {0} /\ load.segments[i].filesz \in Nat
           /\ load.segments[i].filesz <= load.segments[i].memsz
           /\ load.segments[i].src + load.segments[i].filesz <= AddrLimit - PageSize
      /\ \A i, j \in 1 .. N :
              i # j => \/ load.segments[i].paddr + load.segments[i].memsz
                            <= load.segments[j].paddr
                       \/ load.segments[j].paddr + load.segments[j].memsz
                            <= load.segments[i].paddr
  BY Segments
<1>. HIDE DEF N
<1>2. S = [k \in 1 .. 2 * N |->
             IF k % 2 = 1 THEN FilePart(load.segments[seg(k)], addend)
                          ELSE ZeroPart(load.segments[k \div 2], addend)]
  BY DEF elf_register_segments, N
<1>3. DOMAIN S = 1 .. 2 * N /\ 2 * N \in Nat
  BY <1>1, <1>2
<1>4. Len(S) = 2 * N
  BY <1>2, <1>3
<1>5. ASSUME NEW k \in 1 .. 2 * N
      PROVE  /\ seg(k) \in 1 .. N
             /\ k % 2 = 1 => k = 2 * seg(k) - 1
             /\ k % 2 # 1 => k = 2 * seg(k) /\ k \div 2 = seg(k)
  BY <1>1
<1>6. ASSUME NEW k \in 1 .. 2 * N
      PROVE  S[k] = IF k % 2 = 1 THEN FilePart(load.segments[seg(k)], addend)
                                 ELSE ZeroPart(load.segments[seg(k)], addend)
  BY <1>2, <1>5
<1>. HIDE DEF seg
<1>7. ASSUME NEW k \in 1 .. 2 * N
      PROVE  /\ PartOf(S[k], load.segments[seg(k)], addend)
             /\ S[k] = Object("k", S[k].src, S[k].size, S[k].dest, 1)
             /\ k % 2 = 1 =>
                  /\ S[k].dest = load.segments[seg(k)].paddr + addend
                  /\ S[k].size = load.segments[seg(k)].filesz
             /\ k % 2 # 1 =>
                  /\ S[k].dest = load.segments[seg(k)].paddr + addend
                                   + load.segments[seg(k)].filesz
                  /\ S[k].size = load.segments[seg(k)].memsz
                                   - load.segments[seg(k)].filesz
  <2>. PICK s : s = load.segments[seg(k)]
    OBVIOUS
  <2>1. seg(k) \in 1 .. N
    BY <1>5
  <2>2. /\ s.paddr \in Nat /\ s.memsz \in Nat \ {0} /\ s.src \in Nat \ {0}
        /\ s.filesz \in Nat /\ s.filesz <= s.memsz
        /\ s.src + s.filesz <= AddrLimit - PageSize
    BY <1>1, <2>1
  <2>3. CASE k % 2 = 1
    <3>1. S[k] = Object("k", s.src, s.filesz, s.paddr + addend, 1)
      BY <1>6, <2>3 DEF FilePart
    <3>2. /\ S[k].type = "k" /\ S[k].src = s.src /\ S[k].size = s.filesz
          /\ S[k].dest = s.paddr + addend /\ S[k].align = 1
      BY <3>1 DEF Object
    <3>3. PartOf(S[k], s, addend)
      BY <2>2, <3>2 DEF PartOf, Null
    <3>. QED
      BY <2>3, <3>1, <3>2, <3>3
  <2>4. CASE k % 2 # 1
    <3>1. S[k] = Object("k", Null, s.memsz - s.filesz, s.paddr + addend + s.filesz, 1)
      BY <1>6, <2>4 DEF ZeroPart
    <3>2. /\ S[k].type = "k" /\ S[k].src = Null /\ S[k].size = s.memsz - s.filesz
          /\ S[k].dest = s.paddr + addend + s.filesz /\ S[k].align = 1
      BY <3>1 DEF Object
    <3>3. PartOf(S[k], s, addend)
      BY <2>2, <3>2 DEF PartOf, Null
    <3>. QED
      BY <2>4, <3>1, <3>2, <3>3
  <2>. QED
    BY <2>3, <2>4
<1>8. ASSUME NEW k \in 1 .. 2 * N, NEW q \in 1 .. 2 * N, k # q
      PROVE  S[k].dest + S[k].size <= S[q].dest \/ S[q].dest + S[q].size <= S[k].dest
  <2>. PICK i, j : i = seg(k) /\ j = seg(q)
    OBVIOUS
  <2>. PICK r, s : r = load.segments[i] /\ s = load.segments[j]
    OBVIOUS
  <2>1. i \in 1 .. N /\ j \in 1 .. N
    BY <1>5
  <2>2. /\ r.paddr \in Nat /\ r.memsz \in Nat \ {0} /\ r.filesz \in Nat /\ r.filesz <= r.memsz
        /\ s.paddr \in Nat /\ s.memsz \in Nat \ {0}
    BY <1>1, <2>1
  <2>3. PartOf(S[k], r, addend) /\ PartOf(S[q], s, addend)
    BY <1>7
  <2>4. CASE i # j
    <3>1. r.paddr + r.memsz <= s.paddr \/ s.paddr + s.memsz <= r.paddr
      BY <1>1, <2>1, <2>4
    <3>. QED
      BY <2>2, <2>3, <3>1 DEF PartOf
  <2>5. CASE i = j
    <3>1. (k % 2 = 1 /\ q % 2 # 1) \/ (k % 2 # 1 /\ q % 2 = 1)
      <4>1. /\ k % 2 = 1 => k = 2 * i - 1
            /\ k % 2 # 1 => k = 2 * i
            /\ q % 2 = 1 => q = 2 * i - 1
            /\ q % 2 # 1 => q = 2 * i
        BY <1>5, <2>5
      <4>. QED
        BY <1>8, <4>1
    <3>2. CASE k % 2 = 1 /\ q % 2 # 1
      <4>1. /\ S[k].dest = r.paddr + addend /\ S[k].size = r.filesz
            /\ S[q].dest = r.paddr + addend + r.filesz
        BY <1>7, <2>5, <3>2
      <4>. QED
        BY <2>2, <4>1
    <3>3. CASE k % 2 # 1 /\ q % 2 = 1
      <4>1. /\ S[q].dest = r.paddr + addend /\ S[q].size = r.filesz
            /\ S[k].dest = r.paddr + addend + r.filesz
        BY <1>7, <2>5, <3>3
      <4>. QED
        BY <2>2, <4>1
    <3>. QED
      BY <3>1, <3>2, <3>3
  <2>. QED
    BY <2>4, <2>5
<1>9. \E k \in 1 .. 2 * N : S[k].size > 0
  <2>. PICK s : s = load.segments[1]
    OBVIOUS
  <2>1. 1 \in 1 .. 2 * N /\ 2 \in 1 .. 2 * N /\ 1 % 2 = 1 /\ 2 % 2 # 1 /\ 1 \in 1 .. N
    BY <1>1
  <2>2. seg(1) = 1 /\ seg(2) = 1
    BY DEF seg
  <2>3. S[1].size = s.filesz /\ S[2].size = s.memsz - s.filesz
    BY <1>7, <2>1, <2>2
  <2>4. s.filesz \in Nat /\ s.memsz \in Nat \ {0}
    BY <1>1, <2>1
  <2>. QED
    BY <2>1, <2>3, <2>4
<1>10. S = [k \in 1 .. 2 * N |-> S[k]]
  BY <1>2, <1>3
<1>. QED
  BY <1>3, <1>4, <1>5, <1>7, <1>8, <1>9, <1>10 DEF N, Parts

\* NonEmpty keeps what has a size, and leaves it in its order.
Filtered(new, raw, f) ==
  /\ Len(new) \in Nat /\ DOMAIN new = 1 .. Len(new)
  /\ new = [n \in 1 .. Len(new) |-> new[n]]
  /\ Drawn(new, raw, f) /\ \A n \in 1 .. Len(new) : raw[f[n]].size > 0
  /\ \A i \in DOMAIN raw : raw[i].size > 0 => \E n \in 1 .. Len(new) : f[n] = i

LEMMA Filtering ==
  ASSUME NEW raw, Len(raw) \in Nat, DOMAIN raw = 1 .. Len(raw),
         NEW new, new = NonEmpty(raw)
  PROVE  \E f : Filtered(new, raw, f)
<1>. DEFINE D == {n \in DOMAIN raw : raw[n].size > 0}
            key == [n \in D |-> n]
<1>1. D \subseteq 1 .. Len(raw) /\ D \subseteq Nat
  OBVIOUS
<1>2. IsFiniteSet(D)
  <2>1. IsFiniteSet(1 .. Len(raw))
    BY FS_Interval
  <2>. HIDE DEF D
  <2>. QED
    BY <1>1, <2>1, FS_Subset
<1>3. DOMAIN key = D /\ \A n \in DOMAIN key : key[n] \in Nat
  <2>. HIDE DEF D
  <2>. QED
    BY <1>1
<1>. PICK order : order = bubble_sort(key)
  OBVIOUS
<1>4. new = Entries(raw, order)
  BY DEF NonEmpty
<1>. DEFINE C == Cardinality(D)
<1>5. /\ C \in Nat /\ order \in [1 .. C -> D]
      /\ \A a, b \in 1 .. C : a < b => order[a] # order[b]
      /\ \A i \in D : \E a \in 1 .. C : order[a] = i
  <2>. HIDE DEF D, key
  <2>1. IsFiniteSet(DOMAIN key) /\ DOMAIN key \subseteq Nat
    BY <1>1, <1>2, <1>3
  <2>2. /\ Cardinality(DOMAIN key) \in Nat
        /\ order \in [1 .. Cardinality(DOMAIN key) -> DOMAIN key]
        /\ \A a, b \in 1 .. Cardinality(DOMAIN key) : a < b => order[a] # order[b]
        /\ \A i \in DOMAIN key : \E a \in 1 .. Cardinality(DOMAIN key) : order[a] = i
    BY <1>3, <2>1, Ranking
  <2>. QED
    BY <1>3, <2>2
<1>. HIDE DEF C, key
<1>6. new = [n \in 1 .. C |-> raw[order[n]]]
  BY <1>4, <1>5 DEF Entries
<1>7. Len(new) = C /\ DOMAIN new = 1 .. C
  BY <1>5, <1>6
<1>8. Drawn(new, raw, order)
  <2>1. \A n \in 1 .. Len(new) : order[n] \in DOMAIN raw /\ new[n] = raw[order[n]]
    BY <1>5, <1>6, <1>7
  <2>2. \A a, b \in 1 .. Len(new) : a # b => order[a] # order[b]
    <3>1. \A a, b \in 1 .. C : a # b => a < b \/ b < a
      BY <1>5
    <3>. QED
      BY <1>5, <1>7, <3>1
  <2>. QED
    BY <2>1, <2>2 DEF Drawn
<1>9. \A n \in 1 .. Len(new) : raw[order[n]].size > 0
  BY <1>5, <1>7
<1>10. ASSUME NEW i \in DOMAIN raw, raw[i].size > 0
       PROVE  \E n \in 1 .. Len(new) : order[n] = i
  <2>1. i \in D
    BY <1>10
  <2>. HIDE DEF D
  <2>2. PICK a \in 1 .. C : order[a] = i
    BY <1>5, <2>1
  <2>. QED
    BY <1>7, <2>2
<1>11. Len(new) \in Nat /\ new = [n \in 1 .. Len(new) |-> new[n]]
  BY <1>5, <1>6, <1>7
<1>12. \A i \in DOMAIN raw : raw[i].size > 0 => \E n \in 1 .. Len(new) : order[n] = i
  BY <1>10
<1>. HIDE DEF D
<1>13. Filtered(new, raw, order)
  BY <1>7, <1>8, <1>9, <1>11, <1>12, Zenon DEF Filtered
<1>. QED
  BY <1>13

\* What there is to register: the parts of the kernel in its image, then the
\* other objects.
RawSound(raw, l, m, t) ==
  /\ Len(raw) \in Nat /\ DOMAIN raw = 1 .. Len(raw)
  /\ \A n \in DOMAIN raw : raw[n].size > 0 => Sound(raw[n], {"k"}, l, m, t)
  /\ \A p, q \in DOMAIN raw :
       p # q /\ raw[p].size > 0 /\ raw[q].size > 0 => Clear(raw[p], raw[q])
  /\ \E n \in DOMAIN raw : raw[n].size > 0

LEMMA LoadedObject ==
  ASSUME Loadable(load), NEW j \in 1 .. Len(load.objects), load.objects[j].size > 0,
         NEW m, NEW t
  PROVE  load.objects[j].dest = 0 /\ Sound(load.objects[j], {"k"}, load, m, t)
<1>. DEFINE T == [type : {"m", "s"}, src : Addr \ {Null}, size : Addr,
                  dest : {0}, align : Addr \ {0}]
<1>. PICK o : o = load.objects[j]
  OBVIOUS
<1>1. load.objects \in Seq(T)
  BY DEF Loadable
<1>2. j \in DOMAIN load.objects /\ o \in T
  <2>. HIDE DEF T
  <2>. QED
    BY <1>1
<1>3. /\ o.type \in {"m", "s"} /\ o.src \in Addr \ {Null} /\ o.size \in Addr
      /\ o.dest = 0 /\ o.align \in Addr \ {0}
  BY <1>2
<1>4. o \in Obj
  <2>1. o.size # 0 /\ 0 \in Addr
    BY AddressSpace DEF Addr
  <2>2. o = [type |-> o.type, src |-> o.src, size |-> o.size, dest |-> o.dest,
             align |-> o.align]
    BY <1>2
  <2>. QED
    BY <1>3, <2>1, <2>2 DEF Obj
<1>5. o.src + o.size <= AddrLimit - PageSize
  <2>1. InMemory(Request(o.src, o.size))
    BY <1>2 DEF Loadable
  <2>. QED
    BY <2>1 DEF InMemory, Request, Top
<1>6. o.src + o.size < AddrLimit
  BY <1>3, <1>5, AddressSpace DEF Addr
<1>7. Origin(o, load)
  BY <1>2, <1>3, <1>6 DEF Origin
<1>. QED
  BY <1>3, <1>4, <1>5, <1>7 DEF Sound

\* What lies between b and e is carried along when b goes to a.
Carry(a, b, e, p, z, d, n) ==
  /\ b <= p /\ p + z <= e
  /\ p + (a - b) <= d /\ d + n <= p + z + (a - b)
  => a <= d /\ d + n <= a + (e - b)

LEMMA Carried ==
  \A a, b, e, p, z, n \in Nat, d \in Int : Carry(a, b, e, p, z, d, n)
BY DEF Carry

LEMMA ImagePart ==
  ASSUME Loadable(load), NEW m, NEW t, NEW a \in Addr \ {0},
         a + (ImageEnd - ImageBase) < AddrLimit,
         Bytes(Request(a, ImageEnd - ImageBase)) \subseteq Ram(m),
         Bytes(Request(a, ImageEnd - ImageBase)) \subseteq TableBytes(t),
         NEW i \in 1 .. Len(load.segments),
         NEW o, PartOf(o, load.segments[i], a - ImageBase), o.size > 0,
         o = Object("k", o.src, o.size, o.dest, 1)
  PROVE  Sound(o, {"k"}, load, m, t)
<1>1. /\ AddrLimit \in Nat \ {0, 1} /\ PageSize \in Nat \ {0} /\ Addr = 0 .. AddrLimit - 1
      /\ a \in Nat \ {0}
  BY AddressSpace DEF Addr
<1>2. ImageBase \in Nat /\ ImageEnd \in Nat /\ ImageBase < ImageEnd
      /\ ImageEnd <= AddrLimit - PageSize
  BY ImageBounds
<1>. PICK s, b, e : s = load.segments[i] /\ b = ImageBase /\ e = ImageEnd
  OBVIOUS
<1>3. /\ s.paddr \in Nat /\ s.memsz \in Nat \ {0} /\ b <= s.paddr
      /\ s.paddr + s.memsz <= e
  BY Segments, ImageBounds
<1>4. /\ o.type = "k" /\ o.align = 1 /\ o.src \in Nat /\ o.size \in Nat /\ o.dest \in Int
      /\ s.paddr + (a - b) <= o.dest /\ o.dest + o.size <= s.paddr + s.memsz + (a - b)
      /\ o.src # Null => o.src + o.size <= AddrLimit - PageSize
      /\ o.src = Null => o.size <= s.memsz
  BY DEF PartOf
<1>12. b \in Nat /\ e \in Nat /\ b < e /\ e <= AddrLimit - PageSize
  BY <1>2
<1>5. a <= o.dest /\ o.dest + o.size <= a + (e - b) /\ a + (e - b) < AddrLimit
  <2>. PICK p, z, d, n : p = s.paddr /\ z = s.memsz /\ d = o.dest /\ n = o.size
    OBVIOUS
  <2>1. /\ p \in Nat /\ z \in Nat /\ d \in Int /\ n \in Nat /\ b <= p /\ p + z <= e
        /\ p + (a - b) <= d /\ d + n <= p + z + (a - b)
    BY <1>3, <1>4
  <2>2. a <= d /\ d + n <= a + (e - b)
    <3>1. a \in Nat /\ b \in Nat /\ e \in Nat
      BY <1>1, <1>12
    <3>2. \A p1, z1, n1 \in Nat, d1 \in Int : Carry(a, b, e, p1, z1, d1, n1)
      BY <3>1, Carried, Zenon
    <3>3. Carry(a, b, e, p, z, d, n)
      BY <2>1, <3>2, Zenon
    <3>. QED
      BY <2>1, <3>3, Zenon DEF Carry
  <2>. QED
    BY <2>2
<1>6. o.dest \in Addr \ {0} /\ o.size \in Addr \ {0}
  BY <1>1, <1>2, <1>4, <1>5, SMTT(30)
<1>7. o.src \in Addr /\ o.src + o.size < AddrLimit
  <2>1. CASE o.src = Null
    BY <1>1, <1>4, <1>6, <2>1 DEF Null
  <2>2. CASE o.src # Null
    BY <1>1, <1>4, <2>2
  <2>. QED
    BY <2>1, <2>2
<1>8. o \in Obj
  BY <1>1, <1>6, <1>7 DEF Object, Obj
<1>9. Origin(o, load)
  BY <1>4, <1>7 DEF Origin
<1>10. Bytes(Dest(o)) \subseteq Bytes(Request(a, e - b))
  <2>1. ASSUME NEW x \in Addr, o.dest <= x, x < o.dest + o.size
        PROVE  a <= x /\ x < a + (e - b)
    <3>. PICK d, n : d = o.dest /\ n = o.size
      OBVIOUS
    <3>1. /\ d \in Int /\ n \in Nat /\ a <= d /\ d + n <= a + (e - b)
          /\ d <= x /\ x < d + n /\ x \in Nat
      BY <1>1, <1>4, <1>5, <2>1
    <3>. QED
      BY <1>1, <1>12, <3>1, SMTT(30)
  <2>. QED
    BY <2>1 DEF Bytes, Dest, Request
<1>11. Settled(o, m)
  <2>1. o.dest % o.align = 0
    BY <1>1, <1>4, <1>6
  <2>2. o.dest + o.size < AddrLimit
    BY <1>1, <1>2, <1>4, <1>5
  <2>. QED
    BY <1>10, <2>1, <2>2 DEF Settled
<1>. QED
  BY <1>4, <1>6, <1>8, <1>9, <1>10, <1>11 DEF Sound

LEMMA ObjParts ==
  ASSUME NEW o \in Obj
  PROVE  /\ o.type \in {"k", "m", "s", "t"} /\ o.src \in Nat /\ o.size \in Nat \ {0}
         /\ o.dest \in Nat /\ o.align \in Nat \ {0}
         /\ o.src \in Addr /\ o.size \in Addr /\ o.dest \in Addr /\ o.align \in Addr
<1>1. /\ o.type \in {"k", "m", "s", "t"} /\ o.src \in Addr /\ o.size \in Addr \ {0}
      /\ o.dest \in Addr /\ o.align \in Addr \ {0}
  BY DEF Obj
<1>2. Addr \subseteq Nat
  BY AddressSpace DEF Addr
<1>. QED
  BY <1>1, <1>2

LEMMA BytesApart ==
  ASSUME NEW a \in Int, NEW n \in Int, NEW b \in Int, NEW k \in Int,
         a + n <= b \/ b + k <= a
  PROVE  Bytes(Request(a, n)) \cap Bytes(Request(b, k)) = {}
<1>1. ASSUME NEW x \in Addr, a <= x, x < a + n, b <= x, x < b + k PROVE FALSE
  <2>1. x \in Int
    BY AddressSpace DEF Addr
  <2>. QED
    BY <1>1, <2>1
<1>. QED
  BY <1>1 DEF Bytes, Request

LEMMA ClearApart ==
  ASSUME NEW o \in Obj, NEW r \in Obj,
         o.dest + o.size <= r.dest \/ r.dest + r.size <= o.dest
  PROVE  Clear(o, r)
<1>. PICK a, n, b, k : a = o.dest /\ n = o.size /\ b = r.dest /\ k = r.size
  OBVIOUS
<1>1. a \in Int /\ n \in Int /\ b \in Int /\ k \in Int
  BY ObjParts
<1>2. a + n <= b \/ b + k <= a
  OBVIOUS
<1>3. Bytes(Request(a, n)) \cap Bytes(Request(b, k)) = {}
  BY <1>1, <1>2, BytesApart
<1>. QED
  BY <1>3 DEF Clear, Dest

\* A sequence of N elements.
Listed(s, N) ==
  Len(s) = N /\ N \in Nat /\ DOMAIN s = 1 .. N /\ s = [n \in 1 .. N |-> s[n]]

LEMMA ListingOf ==
  ASSUME NEW U, NEW s \in Seq(U)
  PROVE  Listed(s, Len(s)) /\ \A n \in 1 .. Len(s) : s[n] \in U
BY DEF Listed

LEMMA SeqOf ==
  ASSUME NEW U, NEW s, NEW N, Listed(s, N), \A n \in 1 .. N : s[n] \in U
  PROVE  s \in Seq(U)
BY DEF Listed

\* One sequence after the other.
Joined(x, s, r) ==
  /\ Len(x) = Len(s) + Len(r) /\ DOMAIN x = 1 .. Len(x) /\ Len(x) \in Nat
  /\ x = [n \in 1 .. Len(x) |-> x[n]]
  /\ \A n \in DOMAIN x : \/ n \in 1 .. Len(s) /\ x[n] = s[n]
                         \/ /\ n - Len(s) \in 1 .. Len(r) /\ n \notin 1 .. Len(s)
                            /\ x[n] = r[n - Len(s)]
  /\ \A n \in 1 .. Len(s) : n \in DOMAIN x /\ x[n] = s[n]
  /\ \A n \in 1 .. Len(r) : n + Len(s) \in DOMAIN x /\ x[n + Len(s)] = r[n]

LEMMA Joining ==
  ASSUME NEW s, NEW r, NEW N, NEW M, Listed(s, N), Listed(r, M)
  PROVE  Joined(s \o r, s, r)
<1>. PICK x : x = s \o r
  OBVIOUS
<1>20. /\ N \in Nat /\ M \in Nat /\ Len(s) = N /\ Len(r) = M
       /\ s = [n \in 1 .. N |-> s[n]] /\ r = [n \in 1 .. M |-> r[n]]
  BY DEF Listed
<1>. DEFINE U == {s[n] : n \in 1 .. N} \cup {r[n] : n \in 1 .. M}
<1>1. (\A n \in 1 .. N : s[n] \in U) /\ (\A n \in 1 .. M : r[n] \in U)
  OBVIOUS
<1>. HIDE DEF U
<1>2. s \in Seq(U) /\ r \in Seq(U)
  <2>1. s \in Seq(U)
    BY <1>1, SeqOf, Zenon
  <2>2. r \in Seq(U)
    BY <1>1, SeqOf, Zenon
  <2>. QED
    BY <2>1, <2>2
<1>3. /\ x \in Seq(U) /\ Len(x) = N + M
      /\ \A n \in 1 .. N + M : x[n] = IF n <= N THEN s[n] ELSE r[n - N]
  <2>1. /\ s \o r \in Seq(U)
        /\ Len(s \o r) = Len(s) + Len(r)
        /\ \A i \in 1 .. Len(s) + Len(r) :
             (s \o r)[i] = IF i <= Len(s) THEN s[i] ELSE r[i - Len(s)]
    BY <1>2, ConcatProperties, Zenon
  <2>. QED
    BY <1>20, <2>1, Zenon
<1>4. N + M \in Nat /\ DOMAIN x = 1 .. N + M /\ x = [n \in 1 .. N + M |-> x[n]]
  <2>1. N + M \in Nat
    BY <1>20
  <2>2. Listed(x, Len(x))
    BY <1>3, ListingOf, Zenon
  <2>. QED
    BY <1>3, <2>1, <2>2, Zenon DEF Listed
<1>5. \A n \in 1 .. N + M :
        \/ n \in 1 .. N /\ n <= N
        \/ n - N \in 1 .. M /\ n \notin 1 .. N /\ ~(n <= N)
  BY <1>20
<1>6. \A n \in 1 .. N : n \in 1 .. N + M /\ n <= N
  BY <1>20
<1>7. \A n \in 1 .. M : n + N \in 1 .. N + M /\ ~(n + N <= N) /\ (n + N) - N = n
  BY <1>20
<1>8. \A n \in 1 .. M : x[n + N] = r[n]
  <2>. TAKE n \in 1 .. M
  <2>. PICK k : k = n + N
    OBVIOUS
  <2>1. k \in 1 .. N + M /\ ~(k <= N) /\ k - N = n
    BY <1>7
  <2>. QED
    BY <1>3, <2>1, Zenon
<1>9. \A n \in 1 .. N + M : \/ n \in 1 .. N /\ x[n] = s[n]
                            \/ n - N \in 1 .. M /\ n \notin 1 .. N /\ x[n] = r[n - N]
  BY <1>3, <1>5, Zenon
<1>10. \A n \in 1 .. N : x[n] = s[n]
  BY <1>3, <1>6, Zenon
<1>11. Len(s) = N /\ Len(r) = M /\ Len(x) = N + M /\ DOMAIN x = 1 .. N + M
  BY <1>3, <1>4, <1>20
<1>. QED
  BY <1>4, <1>6, <1>7, <1>8, <1>9, <1>10, <1>11, Zenon DEF Joined

LEMMA Beginning ==
  ASSUME NEW s, NEW N, Listed(s, N), NEW K \in 0 .. N
  PROVE  /\ Listed(SubSeq(s, 1, K), K) /\ (K = N => SubSeq(s, 1, K) = s)
         /\ \A n \in 1 .. K : SubSeq(s, 1, K)[n] = s[n]
<1>. PICK x : x = SubSeq(s, 1, K)
  OBVIOUS
<1>20. /\ N \in Nat /\ Len(s) = N /\ s = [n \in 1 .. N |-> s[n]]
  BY DEF Listed
<1>. DEFINE U == {s[n] : n \in 1 .. N}
<1>1. \A n \in 1 .. K : s[n] \in U
  BY <1>20
<1>. HIDE DEF U
<1>2. /\ x \in Seq(U) /\ Len(x) = (IF 1 <= K THEN K - 1 + 1 ELSE 0)
      /\ \A i \in 1 .. K - 1 + 1 : x[i] = s[1 + i - 1]
  BY <1>1, SubSeqProperties
<1>3. Len(x) = K /\ \A i \in 1 .. K : x[i] = s[i]
  <2>1. K - 1 + 1 = K /\ (~(1 <= K) => K = 0) /\ \A i \in 1 .. K : 1 + i - 1 = i
    BY <1>20
  <2>. QED
    BY <1>2, <2>1
<1>4. DOMAIN x = 1 .. K /\ x = [i \in 1 .. K |-> x[i]]
  BY <1>2, <1>3
<1>5. K = N => x = s
  BY <1>3, <1>4, <1>20
<1>6. K \in Nat
  BY <1>20
<1>7. Listed(x, K)
  BY <1>3, <1>4, <1>6, Zenon DEF Listed
<1>. QED
  BY <1>3, <1>5, <1>7

LEMMA RawTable ==
  ASSUME Loadable(load), NEW m, NEW t, NEW a \in Addr \ {0},
         a + (ImageEnd - ImageBase) < AddrLimit,
         Bytes(Request(a, ImageEnd - ImageBase)) \subseteq Ram(m),
         Bytes(Request(a, ImageEnd - ImageBase)) \subseteq TableBytes(t),
         NEW raw, raw = elf_register_segments(a - ImageBase) \o load.objects
  PROVE  RawSound(raw, load, m, t)
<1>. PICK S : S = elf_register_segments(a - ImageBase)
  OBVIOUS
<1>. DEFINE N == 2 * Len(load.segments)
            M == Len(load.objects)
<1>1. a - ImageBase \in Int /\ Len(load.segments) \in Nat
  BY ImageBounds, Segments, AddressSpace DEF Addr
<1>2. /\ DOMAIN S = 1 .. N /\ Len(S) = N /\ S = [k \in 1 .. N |-> S[k]]
      /\ \A k \in 1 .. N :
           /\ \E i \in 1 .. Len(load.segments) :
                PartOf(S[k], load.segments[i], a - ImageBase)
           /\ S[k] = Object("k", S[k].src, S[k].size, S[k].dest, 1)
      /\ \A k, q \in 1 .. N : k # q =>
           S[k].dest + S[k].size <= S[q].dest \/ S[q].dest + S[q].size <= S[k].dest
      /\ \E k \in 1 .. N : S[k].size > 0
  <2>1. Parts(S, a - ImageBase)
    BY <1>1, SegmentParts
  <2>. QED
    BY <2>1 DEF Parts
<1>3. N \in Nat
  BY <1>1
<1>4. M \in Nat /\ load.objects = [n \in 1 .. M |-> load.objects[n]]
  <2>1. PICK T : load.objects \in Seq(T)
    BY DEF Loadable
  <2>. QED
    BY <2>1
<1>. HIDE DEF N
<1>5. Joined(raw, S, load.objects)
  <2>1. Listed(S, N)
    BY <1>2, <1>3, Zenon DEF Listed
  <2>2. Listed(load.objects, M)
    BY <1>4 DEF Listed
  <2>3. raw = S \o load.objects
    OBVIOUS
  <2>. HIDE DEF M
  <2>. QED
    BY <2>1, <2>2, <2>3, Joining, Zenon
<1>20. /\ Len(S) = N /\ Len(raw) \in Nat /\ DOMAIN raw = 1 .. Len(raw)
       /\ \A n \in DOMAIN raw :
            \/ n \in 1 .. N /\ raw[n] = S[n]
            \/ n \notin 1 .. N /\ n - N \in 1 .. M /\ raw[n] = load.objects[n - N]
       /\ \A n \in 1 .. N : n \in DOMAIN raw /\ raw[n] = S[n]
  BY <1>2, <1>5 DEF Joined
<1>. HIDE DEF M
<1>6. ASSUME NEW n \in DOMAIN raw, raw[n].size > 0
      PROVE  Sound(raw[n], {"k"}, load, m, t) /\ (n \notin 1 .. N => raw[n].dest = 0)
  <2>. PICK o : o = raw[n]
    OBVIOUS
  <2>1. CASE n \in 1 .. N
    <3>1. o = S[n] /\ o.size > 0
      BY <1>6, <1>20, <2>1, Zenon
    <3>2. PICK i \in 1 .. Len(load.segments) :
            PartOf(o, load.segments[i], a - ImageBase)
      BY <1>2, <2>1, <3>1, ZenonT(60)
    <3>3. o = Object("k", o.src, o.size, o.dest, 1)
      BY <1>2, <2>1, <3>1, Zenon
    <3>4. Sound(o, {"k"}, load, m, t)
      BY <3>1, <3>2, <3>3, ImagePart
    <3>. QED
      BY <2>1, <3>4, Zenon
  <2>2. CASE n \notin 1 .. N
    <3>. PICK j : j = n - N
      OBVIOUS
    <3>1. j \in 1 .. M /\ o = load.objects[j]
      BY <1>6, <1>20, <2>2, Zenon
    <3>2. j \in 1 .. Len(load.objects) /\ load.objects[j].size > 0
      BY <1>6, <3>1, Zenon DEF M
    <3>3. load.objects[j].dest = 0 /\ Sound(load.objects[j], {"k"}, load, m, t)
      BY <3>2, LoadedObject
    <3>. QED
      BY <3>1, <3>3, Zenon
  <2>. QED
    BY <2>1, <2>2
<1>7. ASSUME NEW p \in DOMAIN raw, NEW q \in DOMAIN raw, p # q,
             raw[p].size > 0, raw[q].size > 0
      PROVE  Clear(raw[p], raw[q])
  <2>1. CASE p \notin 1 .. N \/ q \notin 1 .. N
    BY <1>6, <1>7, <2>1, Zenon DEF Clear
  <2>2. CASE p \in 1 .. N /\ q \in 1 .. N
    <3>1. raw[p] = S[p] /\ raw[q] = S[q]
      BY <1>7, <1>20, <2>2, Zenon
    <3>. PICK o, r : o = raw[p] /\ r = raw[q]
      OBVIOUS
    <3>2. o.dest + o.size <= r.dest \/ r.dest + r.size <= o.dest
      BY <1>2, <1>7, <2>2, <3>1, Zenon
    <3>3. o \in Obj /\ r \in Obj
      BY <1>6, <1>7, Zenon DEF Sound
    <3>4. Clear(o, r)
      BY <3>2, <3>3, ClearApart
    <3>. QED
      BY <3>4
  <2>. QED
    BY <2>1, <2>2
<1>8. \E n \in DOMAIN raw : raw[n].size > 0
  <2>1. PICK k \in 1 .. N : S[k].size > 0
    BY <1>2, Zenon
  <2>. QED
    BY <1>20, <2>1, Zenon
<1>. QED
  BY <1>6, <1>7, <1>8, <1>20 DEF RawSound

\* As many as there is room for.
LEMMA FillingTheTable ==
  ASSUME NEW raw, NEW l, NEW m, NEW t, RawSound(raw, l, m, t),
         NEW objects, objects = NonEmpty(raw),
         NEW new, new = SubSeq(objects, 1, Min({Len(objects), MaxRelocs - 2}))
  PROVE  /\ InPlace(new, {"k"}, l, m, t) /\ new # << >>
         /\ RoomFor(0, Len(objects)) => new = objects
<1>1. PICK f : Filtered(objects, raw, f)
  BY Filtering DEF RawSound
<1>. DEFINE N == Len(objects)
            K == Min({N, MaxRelocs - 2})
<1>20. N \in Nat /\ \E n \in 1 .. N : TRUE
  <2>1. PICK i \in DOMAIN raw : raw[i].size > 0
    BY DEF RawSound
  <2>. QED
    BY <1>1, <2>1, Zenon DEF Filtered
<1>2. /\ N \in Nat /\ N >= 1 /\ DOMAIN objects = 1 .. N
      /\ objects = [n \in 1 .. N |-> objects[n]]
      /\ \A n \in 1 .. N : f[n] \in DOMAIN raw /\ objects[n] = raw[f[n]]
                             /\ raw[f[n]].size > 0
      /\ \A p, q \in 1 .. N : p # q => f[p] # f[q]
  BY <1>1, <1>20 DEF Filtered, Drawn, RawSound
<1>3. MaxRelocs - 2 \in Nat /\ MaxRelocs - 2 >= 1
  BY Trampoline
<1>4. K \in 1 .. N /\ K <= MaxRelocs - 2 /\ (N <= MaxRelocs - 2 => K = N)
  <2>. DEFINE Q == {N, MaxRelocs - 2}
  <2>1. Q \subseteq Nat /\ Q # {} /\ N \in Q /\ MaxRelocs - 2 \in Q
    BY <1>2, <1>3
  <2>2. K = Min(Q) /\ \A y \in Q : y = N \/ y = MaxRelocs - 2
    OBVIOUS
  <2>. HIDE DEF Q, K
  <2>3. K \in Q /\ \A y \in Q : K <= y
    BY <2>1, <2>2, Lowest
  <2>. QED
    BY <1>2, <1>3, <2>1, <2>2, <2>3
<1>. HIDE DEF N, K
<1>5. Listed(new, K) /\ (K = N => new = objects) /\ \A n \in 1 .. K : new[n] = objects[n]
  <2>1. new = SubSeq(objects, 1, K)
    BY DEF K, N
  <2>2. K \in 0 .. N
    BY <1>2, <1>4
  <2>3. Listed(objects, N)
    BY <1>2, Zenon DEF Listed, N
  <2>. QED
    BY <2>1, <2>2, <2>3, Beginning, ZenonT(60)
<1>6. Len(new) = K /\ DOMAIN new = 1 .. K /\ K \in Nat /\ new = [n \in 1 .. K |-> new[n]]
  BY <1>5, Zenon DEF Listed
<1>7. \A n \in 1 .. K : n \in 1 .. N
  BY <1>2, <1>4
<1>8. Drawn(new, raw, f)
  <2>1. \A n \in 1 .. Len(new) : f[n] \in DOMAIN raw /\ new[n] = raw[f[n]]
    <3>. SUFFICES ASSUME NEW n \in 1 .. K PROVE f[n] \in DOMAIN raw /\ new[n] = raw[f[n]]
      BY <1>6, Zenon
    <3>1. n \in 1 .. N
      BY <1>7
    <3>. QED
      BY <1>2, <1>5, <3>1, Zenon
  <2>2. \A p, q \in 1 .. Len(new) : p # q => f[p] # f[q]
    BY <1>2, <1>6, <1>7, Zenon
  <2>. QED
    BY <2>1, <2>2, Zenon DEF Drawn
<1>9. \A n \in 1 .. Len(new) : Sound(raw[f[n]], {"k"}, l, m, t)
  BY <1>2, <1>6, <1>7 DEF RawSound
<1>10. /\ Len(new) \in Nat /\ DOMAIN new = 1 .. Len(new) /\ Len(new) <= MaxRelocs - 2
       /\ new = [n \in 1 .. Len(new) |-> new[n]]
  BY <1>4, <1>5, <1>6
<1>11. \A p, q \in DOMAIN raw :
         p # q /\ raw[p].size > 0 /\ raw[q].size > 0 => Clear(raw[p], raw[q])
  BY DEF RawSound
<1>12. InPlace(new, {"k"}, l, m, t)
  BY <1>8, <1>9, <1>10, <1>11, Drawing
<1>13. new # << >>
  <2>1. K # 0
    BY <1>2, <1>4
  <2>2. Len(<< >>) = 0
    OBVIOUS
  <2>. QED
    BY <1>6, <2>1, <2>2, Zenon
<1>14. RoomFor(0, Len(objects)) => new = objects
  BY <1>2, <1>4, <1>5 DEF RoomFor, N
<1>. QED
  BY <1>12, <1>13, <1>14

-----------------------------------------------------------------------------
(* What the calls leave as it was.                                          *)

LEMMA MergedRam ==
  ASSUME NEW big, NEW m, MergedMap(big, m)
  PROVE  Ram(big) \subseteq Ram(m)
<1>1. ASSUME NEW a \in Addr, a >= LowMegabyte,
             NEW i \in DOMAIN big, big[i].type \in Usable, a \in Bytes(big[i])
      PROVE  a \in Ram(m)
  <2>1. \E j \in DOMAIN m : m[j].type = big[i].type /\ a \in Bytes(m[j])
    BY <1>1 DEF MergedMap
  <2>. QED
    BY <1>1, <2>1 DEF Ram
<1>. QED
  BY <1>1 DEF Ram

LEMMA InPlaceGrows ==
  ASSUME NEW objs, NEW types, NEW l, NEW m, NEW t, InPlace(objs, types, l, m, t),
         NEW s, TableBytes(t) \subseteq TableBytes(s)
  PROVE  InPlace(objs, types, l, m, s)
BY DEF InPlace, PlacedApart

LEMMA Nothing ==
  ASSUME NEW l, NEW m
  PROVE  /\ \A t, types : InPlace(<< >>, types, l, m, t)
         /\ \A objs : SafeRanges(<< >>, objs, m)
<1>1. << >> \in Seq(Obj) /\ Len(<< >>) = 0 /\ DOMAIN << >> = {} /\ << >> \in Seq(AddrRange)
  OBVIOUS
<1>2. 0 <= MaxRelocs - 2
  BY Trampoline
<1>3. Objects(<< >>, l, m)
  BY <1>1, <1>2 DEF Objects
<1>. QED
  BY <1>1, <1>3 DEF InPlace, PlacedApart, NotYet, SafeRanges

\* The road ends in PANIC.
LEMMA Ending ==
  ASSUME NEW m, NEW l, NEW big, NEW t, NEW objs, NEW rs, Anyhow(m, l, big, t, objs, rs)
  PROVE  Holds("panic", m, l, big, t, objs, rs)
BY DEF Holds

LEMMA Starting ==
  ASSUME Machine, Init
  PROVE  IInv
<1>1. Loadable(load) /\ FirmwareMap(firmware) /\ firmware \in Maps /\ load \in Loads(firmware)
  BY WhatIsLoaded DEF Init, Machine
<1>2. firmware \in Seq(MapEntry)
  BY <1>1 DEF FirmwareMap
<1>3. Tidy(<< >>)
  <2>1. << >> \in Seq(AddrRange) /\ Len(<< >>) = 0 /\ Len(<< >>) <= MaxAllocs
    BY AddressSpace
  <2>2. Sane(<< >>)
    BY DEF Sane
  <2>. QED
    BY <2>1, <2>2 DEF Tidy, GoodTable
<1>4. Objects(<< >>, load, firmware) /\ SafeRanges(<< >>, << >>, firmware)
  <2>1. InPlace(<< >>, {}, load, firmware, << >>)
    BY Nothing
  <2>. QED
    BY <2>1, Nothing DEF InPlace
<1>5. Anyhow(firmware, load, firmware, << >>, << >>, << >>)
  BY <1>1, <1>2, <1>3, <1>4 DEF Anyhow
<1>. QED
  BY <1>5 DEF Init, IInv, Holds, Steps

\* Where GoOn leads when nothing hangs.
LEMMA Going ==
  ASSUME NEW status, NEW next, GoOn(status, next), status # "HANG"
  PROVE  pc' = IF status = "SUCCESS" THEN next ELSE "panic"
BY DEF GoOn

LEMMA ShutdownStep ==
  ASSUME Machine, IInv, firmware_shutdown
  PROVE  IInv'
<1>1. /\ Anyhow(firmware, load, mmap, allocs, relocs, safe)
      /\ mmap = firmware /\ allocs = << >> /\ relocs = << >> /\ safe = << >>
  BY DEF IInv, Holds, firmware_shutdown
<1>2. Loadable(load) /\ FirmwareMap(firmware) /\ firmware \in Maps /\ load \in Loads(firmware)
  BY <1>1, WhatIsLoaded DEF Anyhow, Machine
<1>. PICK big : big = e820_mmap_merge(firmware)
  OBVIOUS
<1>. PICK tables : tables = load.firmware_tables
  OBVIOUS
<1>. PICK x : x = system_blacklist_memory(<< >>, big, tables)
  OBVIOUS
<1>3. /\ mmap' = big /\ ~Covered(x) /\ allocs' = x.table /\ GoOn(x.status, "boot_register")
      /\ firmware' = firmware /\ load' = load /\ relocs' = << >> /\ safe' = << >>
  BY <1>1 DEF firmware_shutdown, Keep
<1>4. /\ x.status \in {"SUCCESS", "OUT_OF_RESOURCES", "INVALID_PARAMETER"}
      /\ Tidy(x.table)
      /\ x.status = "SUCCESS" =>
           Guarded(x.table) /\ \A a \in Addr \ TableBytes(x.table) : a \in Ram(big)
  <2>1. tables \in Seq(AddrRange) /\ \A i \in DOMAIN tables : InMemory(tables[i])
    BY <1>2 DEF Loadable
  <2>. QED
    BY <1>2, <1>3, <2>1, ShuttingDown
<1>5. MergedMap(big, firmware)
  BY <1>2, MapMerging
<1>6. InPlace(<< >>, PlacedTypes("boot_register"), load, firmware, x.table)
      /\ SafeRanges(<< >>, << >>, firmware)
  BY Nothing
<1>7. Anyhow(firmware, load, big, x.table, << >>, << >>)
  <2>1. big \in Seq(MapEntry)
    BY <1>5 DEF MergedMap
  <2>. QED
    BY <1>2, <1>4, <1>6, <2>1 DEF Anyhow, InPlace
<1>8. x.status = "SUCCESS" => OnTheWay("boot_register", firmware, big, x.table, << >>, << >>)
  <2>. SUFFICES ASSUME x.status = "SUCCESS"
                PROVE  OnTheWay("boot_register", firmware, big, x.table, << >>, << >>)
    OBVIOUS
  <2>1. Registered(<< >>, "boot_register")
    BY DEF Registered
  <2>2. "boot_register" \notin SafePhase
    BY DEF SafePhase
  <2>. QED
    BY <1>4, <1>5, <1>6, <2>1, <2>2 DEF OnTheWay, InPlace
<1>9. pc' = IF x.status = "SUCCESS" THEN "boot_register" ELSE "panic"
  BY <1>3, <1>4, Going
<1>10. Holds(pc', firmware, load, big, x.table, << >>, << >>)
  BY <1>7, <1>8, <1>9 DEF Holds, Steps
<1>. QED
  BY <1>3, <1>10 DEF IInv

-----------------------------------------------------------------------------
(* boot_register, and the order of the table.                               *)

LEMMA KernelAlloc ==
  ASSUME Loadable(load), NEW t, Guarded(t), NEW x, x = elf_alloc(t)
  PROVE  /\ Answers(x, t, ImageEnd - ImageBase)
         /\ Gives(x, t, ImageEnd - ImageBase) =>
              \/ load.kernel_load_align = 0 /\ x.addr = ImageBase
              \/ ~X86 \/ x.addr + (ImageEnd - ImageBase) <= MaxAddr32
<1>1. /\ ImageBase \in Nat /\ ImageEnd \in Nat /\ ImageBase < ImageEnd
      /\ ImageEnd <= AddrLimit - PageSize
  BY ImageBounds
<1>2. AddrLimit \in Nat \ {0, 1} /\ PageSize \in Nat \ {0} /\ Addr = 0 .. AddrLimit - 1
  BY AddressSpace DEF Addr
<1>. PICK b, e : b = ImageBase /\ e = ImageEnd
  OBVIOUS
<1>3. b \in Addr /\ e - b \in Addr \ {0} /\ 0 \in Addr
  <2>1. b \in Nat /\ e \in Nat /\ b < e /\ e <= AddrLimit - PageSize
    BY <1>1
  <2>. QED
    BY <1>2, <2>1
<1>4. CASE load.kernel_load_align = 0
  <2>1. x = alloc(t, b, e - b, 1, "FIXED")
    BY <1>4 DEF elf_alloc
  <2>. QED
    BY <1>3, <1>4, <2>1, AllocatingFixed
<1>5. CASE load.kernel_load_align # 0
  <2>. PICK a : a = load.kernel_load_align
    OBVIOUS
  <2>1. a \in 1 .. AddrLimit - 1
    <3>1. a \in 0 .. AddrLimit - 1
      BY DEF Loadable
    <3>. QED
      BY <1>2, <1>5, <3>1
  <2>. PICK option : option = IF X86 THEN "32BIT" ELSE "ANY"
    OBVIOUS
  <2>2. option \in {"ANY", "32BIT"} /\ x = alloc(t, 0, e - b, a, option)
    BY <1>5 DEF elf_alloc
  <2>. QED
    BY <1>3, <2>1, <2>2, AllocatingAny
<1>. QED
  BY <1>4, <1>5

\* What is free lies in usable memory, and so does what alloc gives.
LEMMA GivenRam ==
  ASSUME NEW t, NEW m, NEW big, MergedMap(big, m), Addr \ TableBytes(t) \subseteq Ram(big),
         NEW x, NEW size, Gives(x, t, size)
  PROVE  Bytes(Request(x.addr, size)) \subseteq Ram(m)
<1>1. Ram(big) \subseteq Ram(m)
  BY MergedRam
<1>2. Bytes(Request(x.addr, size)) \subseteq Addr
  BY DEF Bytes
<1>. QED
  BY <1>1, <1>2 DEF Gives

\* Ranges in memory can be blacklisted.
LEMMA BlacklistingTables ==
  ASSUME NEW t, Guarded(t), NEW rs, rs \in Seq(AddrRange),
         \A i \in DOMAIN rs : InMemory(rs[i]),
         NEW x, x = BlacklistAll(t, rs)
  PROVE  Covered(x) \/ (Adds(x, t) /\ Guarded(x.table))
<1>1. Len(rs) \in Nat /\ DOMAIN rs = 1 .. Len(rs)
  OBVIOUS
<1>2. \A i \in 1 .. Len(rs) : Pageable(rs[i])
  BY <1>1, LowPageable DEF InMemory
<1>3. Covered(x) \/ Adds(x, t)
  BY <1>1, <1>2, Blacklisting DEF Guarded
<1>. QED
  BY <1>3, GuardedGrows

LEMMA RegisterStep ==
  ASSUME Machine, IInv, boot_register
  PROVE  IInv'
<1>. PICK m, l, big, t : m = firmware /\ l = load /\ big = mmap /\ t = allocs
  OBVIOUS
<1>1. Anyhow(m, l, big, t, relocs, safe) /\ OnTheWay("boot_register", m, big, t, relocs, safe)
  BY DEF IInv, Holds, boot_register
<1>2. m \in Maps /\ l \in Loads(m) /\ Loadable(l) /\ big \in Seq(MapEntry) /\ Tidy(t)
  BY <1>1, WhatIsLoaded DEF Anyhow
<1>3. /\ Guarded(t) /\ MergedMap(big, m) /\ Addr \ TableBytes(t) \subseteq Ram(big)
      /\ relocs = << >> /\ safe = << >>
  <2>1. "boot_register" \notin SafePhase
    BY DEF SafePhase
  <2>. QED
    BY <1>1, <2>1 DEF OnTheWay, Registered, NotYet
<1>. PICK x : x = elf_alloc(t)
  OBVIOUS
<1>. PICK raw : raw = elf_register_segments(x.addr - ImageBase) \o l.objects
  OBVIOUS
<1>. PICK objects : objects = NonEmpty(raw)
  OBVIOUS
<1>. PICK new : new = SubSeq(objects, 1, Min({Len(objects), MaxRelocs - 2}))
  OBVIOUS
<1>. PICK y : y = BlacklistAll(x.table, l.systab)
  OBVIOUS
<1>4. /\ firmware' = m /\ load' = l /\ mmap' = big /\ safe' = << >>
      /\ Register(x, objects)
  BY <1>3 DEF boot_register, RegisterImage
<1>5. Answers(x, t, ImageEnd - ImageBase)
  BY <1>2, <1>3, KernelAlloc
<1>6. CASE x.status # "SUCCESS" \/ Covered(x)
  <2>1. ~Covered(x) /\ allocs' = x.table /\ GoOn(x.status, "") /\ relocs' = relocs
    BY <1>4, <1>6 DEF Register, Keep
  <2>2. Refuses(x, t)
    BY <1>5, <1>6, <2>1 DEF Answers, Gives, Takes
  <2>3. pc' = "panic" /\ allocs' = t
    BY <2>1, <2>2, Going DEF Refuses
  <2>4. Holds("panic", m, l, big, t, relocs, safe)
    BY <1>1, Ending
  <2>. QED
    BY <1>3, <1>4, <2>1, <2>3, <2>4 DEF IInv
<1>7. CASE x.status = "SUCCESS" /\ ~Covered(x)
  <2>1. Gives(x, t, ImageEnd - ImageBase)
    BY <1>5, <1>7 DEF Answers, Refuses
  <2>2. /\ x.addr \in Addr \ {0} /\ x.addr + (ImageEnd - ImageBase) < AddrLimit
        /\ TableBytes(x.table) = TableBytes(t) \cup Bytes(Request(x.addr, ImageEnd - ImageBase))
    BY <2>1 DEF Gives, Takes
  <2>3. Bytes(Request(x.addr, ImageEnd - ImageBase)) \subseteq Ram(m)
    BY <1>3, <2>1, GivenRam
  <2>4. Guarded(x.table) /\ Adds(x, t)
    BY <1>3, <2>1, GuardedGrows
  <2>5. RawSound(raw, l, m, x.table)
    BY <1>2, <2>2, <2>3, RawTable
  <2>6. InPlace(new, {"k"}, l, m, x.table) /\ new # << >>
    BY <2>5, FillingTheTable, ZenonT(90)
  <2>7. /\ relocs' = new
        /\ IF RoomFor(0, Len(objects))
             THEN Keep(y, "compute_relocations")
             ELSE Keep([status |-> "OUT_OF_RESOURCES", table |-> x.table], "")
    BY <1>4, <1>7 DEF Register
  <2>8. SafeRanges(<< >>, new, m)
    BY Nothing
  <2>9. CASE ~RoomFor(0, Len(objects))
    <3>1. allocs' = x.table /\ pc' = "panic"
      BY <2>7, <2>9 DEF Keep, GoOn
    <3>2. Anyhow(m, l, big, x.table, new, << >>)
      BY <1>2, <2>4, <2>6, <2>8 DEF Anyhow, InPlace, Guarded
    <3>. QED
      BY <1>4, <2>7, <3>1, <3>2, Ending DEF IInv
  <2>10. CASE RoomFor(0, Len(objects))
    <3>1. ~Covered(y) /\ allocs' = y.table /\ GoOn(y.status, "compute_relocations")
      BY <2>7, <2>10 DEF Keep
    <3>2. Adds(y, x.table) /\ Guarded(y.table)
      <4>1. l.systab \in Seq(AddrRange) /\ \A i \in DOMAIN l.systab : InMemory(l.systab[i])
        BY <1>2 DEF Loadable
      <4>. QED
        BY <2>4, <3>1, <4>1, BlacklistingTables
    <3>3. TableBytes(t) \subseteq TableBytes(y.table)
          /\ TableBytes(x.table) \subseteq TableBytes(y.table)
      BY <2>4, <3>2 DEF Adds
    <3>4. InPlace(new, {"k"}, l, m, y.table)
      BY <2>6, <3>3, InPlaceGrows
    <3>5. Anyhow(m, l, big, y.table, new, << >>)
      BY <1>2, <2>8, <3>2, <3>4 DEF Anyhow, InPlace, Guarded
    <3>6. pc' = IF y.status = "SUCCESS" THEN "compute_relocations" ELSE "panic"
      BY <3>1, <3>2, Going DEF Adds
    <3>7. OnTheWay("compute_relocations", m, big, y.table, new, << >>)
      <4>1. Registered(new, "compute_relocations")
        BY <2>6 DEF Registered
      <4>2. "compute_relocations" \notin SafePhase /\ PlacedTypes("compute_relocations") = {"k"}
        BY DEF SafePhase, PlacedTypes
      <4>. QED
        BY <1>3, <3>2, <3>3, <3>4, <4>1, <4>2 DEF OnTheWay, InPlace
    <3>8. Holds(pc', m, l, big, y.table, new, << >>)
      BY <3>5, <3>6, <3>7 DEF Holds, Steps
    <3>. QED
      BY <1>4, <2>7, <3>1, <3>8 DEF IInv
  <2>. QED
    BY <2>9, <2>10
<1>. QED
  BY <1>6, <1>7

\* The trampoline's region is one more object, without a destination.
LEMMA OneMore ==
  ASSUME NEW objs, NEW l, NEW m, NEW t, InPlace(objs, {"k"}, l, m, t),
         X86, Len(objs) + 1 <= MaxRelocs - 2,
         NEW o, o = Object("t", Null, LowSize, 0, AlignFunc)
  PROVE  InPlace(Append(objs, o), {"k"}, l, m, t) /\ Len(Append(objs, o)) = Len(objs) + 1
<1>1. /\ objs \in Seq(Obj)
      /\ \A n \in 1 .. Len(objs) : Sound(objs[n], {"k"}, l, m, t)
      /\ \A p, q \in 1 .. Len(objs) : p # q => Clear(objs[p], objs[q])
  BY InPlaceParts
<1>2. /\ o.type = "t" /\ o.src = 0 /\ o.size = LowSize /\ o.dest = 0 /\ o.align = AlignFunc
      /\ o = [type |-> "t", src |-> 0, size |-> LowSize, dest |-> 0, align |-> AlignFunc]
  BY DEF Object, Null
<1>3. LowSize \in Addr \ {0} /\ AlignFunc \in Addr \ {0} /\ 0 \in Addr
  BY Trampoline, AddressSpace DEF Alignment, Addr
<1>4. o \in Obj
  BY <1>2, <1>3 DEF Obj
<1>5. Sound(o, {"k"}, l, m, t)
  <2>1. 0 + LowSize < AddrLimit
    BY <1>3, AddressSpace DEF Addr
  <2>2. Origin(o, l)
    BY <1>2, <2>1 DEF Origin
  <2>. QED
    BY <1>2, <1>4, <2>2 DEF Sound, Null
<1>. PICK new : new = Append(objs, o)
  OBVIOUS
<1>6. /\ new \in Seq(Obj) /\ Len(new) = Len(objs) + 1 /\ Len(objs) \in Nat
      /\ \A n \in 1 .. Len(objs) : new[n] = objs[n]
      /\ new[Len(objs) + 1] = o
  BY <1>1, <1>4
<1>7. \A n \in 1 .. Len(new) : n \in 1 .. Len(objs) \/ n = Len(objs) + 1
  BY <1>6
<1>8. \A n \in 1 .. Len(new) : Sound(new[n], {"k"}, l, m, t)
  BY <1>1, <1>5, <1>6, <1>7, Zenon
<1>9. ASSUME NEW p \in 1 .. Len(new), NEW q \in 1 .. Len(new), p # q
      PROVE  Clear(new[p], new[q])
  <2>1. CASE p \in 1 .. Len(objs) /\ q \in 1 .. Len(objs)
    BY <1>1, <1>6, <1>9, <2>1, Zenon
  <2>2. CASE p = Len(objs) + 1
    BY <1>2, <1>6, <2>2, Zenon DEF Clear
  <2>3. CASE q = Len(objs) + 1
    BY <1>2, <1>6, <2>3, Zenon DEF Clear
  <2>. QED
    BY <1>7, <2>1, <2>2, <2>3
<1>10. Len(new) <= MaxRelocs - 2
  BY <1>6
<1>11. InPlace(new, {"k"}, l, m, t)
  BY <1>6, <1>8, <1>9, <1>10, InPlaceParts, Zenon
<1>. QED
  BY <1>6, <1>11

LEMMA AddLowStep ==
  ASSUME Machine, IInv, AddLow
  PROVE  IInv'
<1>. PICK m, l, big, t, objs :
       m = firmware /\ l = load /\ big = mmap /\ t = allocs /\ objs = relocs
  OBVIOUS
<1>1. /\ Anyhow(m, l, big, t, objs, safe)
      /\ OnTheWay("compute_relocations", m, big, t, objs, safe)
  BY DEF IInv, Holds, AddLow
<1>2. m \in Maps /\ l \in Loads(m) /\ Loadable(l) /\ big \in Seq(MapEntry) /\ Tidy(t)
  BY <1>1, WhatIsLoaded DEF Anyhow
<1>3. /\ Guarded(t) /\ MergedMap(big, m) /\ Addr \ TableBytes(t) \subseteq Ram(big)
      /\ objs # << >> /\ safe = << >> /\ InPlace(objs, {"k"}, l, m, t)
  <2>1. "compute_relocations" \notin SafePhase /\ PlacedTypes("compute_relocations") = {"k"}
    BY DEF SafePhase, PlacedTypes
  <2>. QED
    BY <1>1, <2>1 DEF Anyhow, OnTheWay, Registered, NotYet, InPlace
<1>4. objs \in Seq(Obj) /\ Len(objs) \in Nat /\ Len(objs) >= 1
  <2>1. objs \in Seq(Obj)
    BY <1>3, InPlaceParts
  <2>. QED
    BY <1>3, <2>1
<1>. PICK low : low = Object("t", Null, LowSize, 0, AlignFunc)
  OBVIOUS
<1>. PICK more : more = IF X86 /\ RoomFor(Len(objs), 1) THEN Append(objs, low) ELSE objs
  OBVIOUS
<1>. PICK new : new = ByType(more)
  OBVIOUS
<1>5. /\ firmware' = m /\ load' = l /\ mmap' = big /\ allocs' = t /\ safe' = << >>
      /\ relocs' = new
  BY <1>3 DEF AddLow
<1>6. /\ pc' \in {"place_info", "panic"}
      /\ pc' = "place_info" /\ X86 => RoomFor(Len(objs), 1)
  BY DEF AddLow, GoOn
<1>7. /\ InPlace(more, {"k"}, l, m, t) /\ Len(more) \in Nat /\ Len(more) >= 1
      /\ X86 /\ RoomFor(Len(objs), 1) => Len(more) >= 2
  <2>1. CASE X86 /\ RoomFor(Len(objs), 1)
    <3>1. InPlace(more, {"k"}, l, m, t) /\ Len(more) = Len(objs) + 1
      BY <1>3, <2>1, OneMore DEF RoomFor
    <3>. QED
      BY <1>4, <3>1
  <2>2. CASE ~(X86 /\ RoomFor(Len(objs), 1))
    BY <1>3, <1>4, <2>2
  <2>. QED
    BY <2>1, <2>2
<1>8. InPlace(new, {"k"}, l, m, t) /\ Len(new) = Len(more)
  BY <1>7, Reordering, ZenonT(60)
<1>9. Anyhow(m, l, big, t, new, << >>)
  BY <1>2, <1>8, Nothing DEF Anyhow, InPlace
<1>10. pc' = "place_info" => OnTheWay("place_info", m, big, t, new, << >>)
  <2>. SUFFICES ASSUME pc' = "place_info" PROVE OnTheWay("place_info", m, big, t, new, << >>)
    OBVIOUS
  <2>1. new # << >>
    <3>1. Len(<< >>) = 0
      OBVIOUS
    <3>. QED
      BY <1>7, <1>8, <3>1
  <2>2. Registered(new, "place_info")
    BY <1>6, <1>7, <1>8, <2>1 DEF Registered
  <2>3. "place_info" \notin SafePhase /\ PlacedTypes("place_info") = {"k"}
    BY DEF SafePhase, PlacedTypes
  <2>. QED
    BY <1>3, <1>8, <2>2, <2>3 DEF OnTheWay, InPlace
<1>11. Holds(pc', m, l, big, t, new, << >>)
  BY <1>6, <1>9, <1>10 DEF Holds, Steps
<1>. QED
  BY <1>5, <1>11 DEF IInv

-----------------------------------------------------------------------------
(* Place: destinations for the objects of one type.                         *)

LEMMA LayableTable ==
  ASSUME NEW objs, NEW l, NEW m, Loadable(l), Objects(objs, l, m),
         NEW type \in {"m", "s", "t"}
  PROVE  Layable(objs, type)
<1>1. objs \in Seq(Obj) /\ Len(objs) <= MaxRelocs - 2
      /\ \A n \in DOMAIN objs : Origin(objs[n], l)
  BY DEF Objects
<1>2. CASE type = "t"
  <2>1. \A n \in Group(objs, type) : objs[n].align = AlignFunc /\ objs[n].size = LowSize
    BY <1>1, <1>2 DEF Group, Origin
  <2>2. Alignment(AlignFunc) /\ Small(LowSize, AlignFunc)
    BY Trampoline
  <2>3. AlignFunc % AlignFunc = 0
    <3>1. AlignFunc \in Nat \ {0}
      BY <2>2, AddressSpace DEF Alignment
    <3>. QED
      BY <3>1
  <2>4. Nesting({objs[n].align : n \in Group(objs, type)})
    BY <2>1, <2>3 DEF Nesting
  <2>. QED
    BY <1>1, <2>1, <2>2, <2>4 DEF Layable
<1>3. CASE type \in {"m", "s"}
  <2>1. \A n \in Group(objs, type) :
          \E i \in DOMAIN l.objects :
            objs[n].align = l.objects[i].align /\ objs[n].size = l.objects[i].size
    BY <1>1, <1>3 DEF Group, Origin
  <2>2. \A i \in DOMAIN l.objects :
          /\ Alignment(l.objects[i].align)
          /\ Small(l.objects[i].size, l.objects[i].align)
    BY DEF Loadable
  <2>3. Nesting({l.objects[i].align : i \in DOMAIN l.objects})
    BY DEF Loadable
  <2>4. Nesting({objs[n].align : n \in Group(objs, type)})
    <3>1. {objs[n].align : n \in Group(objs, type)}
            \subseteq {l.objects[i].align : i \in DOMAIN l.objects}
      BY <2>1
    <3>. QED
      BY <2>3, <3>1 DEF Nesting
  <2>. QED
    BY <1>1, <2>1, <2>2, <2>4 DEF Layable
<1>. QED
  BY <1>2, <1>3

\* Some objects have their places, and what is free is usable memory.
Ready(objs, types, l, m, big, t) ==
  /\ InPlace(objs, types, l, m, t) /\ MergedMap(big, m)
  /\ Addr \ TableBytes(t) \subseteq Ram(big)

\* The objects of one more type have places of their own.
Done(x, objs, types, l, m) ==
  InPlace(x.objs, types, l, m, x.table) /\ Len(x.objs) = Len(objs)

LEMMA Laying ==
  ASSUME NEW objs, NEW types, NEW l, NEW m, NEW big, NEW t,
         Ready(objs, types, l, m, big, t),
         NEW type, type \notin types, NEW x, Lays(x, t, objs, Group(objs, type)),
         x.status = "SUCCESS"
  PROVE  Done(x, objs, types \cup {type}, l, m)
<1>20. /\ InPlace(objs, types, l, m, t) /\ MergedMap(big, m)
       /\ Addr \ TableBytes(t) \subseteq Ram(big)
  BY DEF Ready
<1>. PICK new, s, G : new = x.objs /\ s = x.table /\ G = Group(objs, type)
  OBVIOUS
<1>1. /\ objs \in Seq(Obj) /\ Len(objs) <= MaxRelocs - 2
      /\ \A n \in 1 .. Len(objs) : Sound(objs[n], types, l, m, t)
      /\ \A p, q \in 1 .. Len(objs) : p # q => Clear(objs[p], objs[q])
  BY <1>20, InPlaceParts
<1>2. /\ TableBytes(t) \subseteq TableBytes(s) /\ Relaid(new, objs, G) /\ Spread(new, G)
      /\ \A n \in G : /\ Bytes(Dest(new[n])) \cap TableBytes(t) = {}
                      /\ Bytes(Dest(new[n])) \subseteq TableBytes(s)
  BY DEF Lays, Adds
<1>3. new \in Seq(Obj) /\ Len(new) = Len(objs) /\ DOMAIN objs = 1 .. Len(objs)
      /\ \A n \in 1 .. Len(objs) : new[n] \in Obj /\ objs[n] \in Obj
  <2>1. new \in Seq(Obj) /\ Len(new) = Len(objs)
    BY <1>2 DEF Relaid
  <2>. QED
    BY <1>1, <2>1
<1>4. \A n \in 1 .. Len(objs) : n \in G <=> objs[n].type = type
  BY <1>3 DEF Group
<1>5. ASSUME NEW n \in 1 .. Len(objs), n \in G
      PROVE  /\ Sound(new[n], types \cup {type}, l, m, s)
             /\ Bytes(Dest(new[n])) \cap TableBytes(t) = {}
  <2>. PICK o, r : o = objs[n] /\ r = new[n]
    OBVIOUS
  <2>1. /\ r = [o EXCEPT !.dest = r.dest] /\ r.dest # 0 /\ r.dest % o.align = 0
        /\ r.dest + o.size < AddrLimit
    BY <1>2, <1>5 DEF Relaid
  <2>2. o \in Obj /\ r \in Obj
    BY <1>3
  <2>3. /\ r.type = o.type /\ r.src = o.src /\ r.size = o.size /\ r.align = o.align
    <3>1. DOMAIN o = {"type", "src", "size", "dest", "align"}
      BY <2>2 DEF Obj
    <3>. QED
      BY <2>1, <3>1
  <2>4. o.type = type /\ Sound(o, types, l, m, t)
    BY <1>1, <1>4, <1>5
  <2>5. Bytes(Dest(r)) \cap TableBytes(t) = {} /\ Bytes(Dest(r)) \subseteq TableBytes(s)
    BY <1>2, <1>5
  <2>6. Bytes(Dest(r)) \subseteq Ram(m)
    <3>1. Ram(big) \subseteq Ram(m)
      BY <1>20, MergedRam
    <3>2. Bytes(Dest(r)) \subseteq Addr
      BY DEF Bytes
    <3>. QED
      BY <1>20, <2>5, <3>1, <3>2
  <2>7. Origin(r, l)
    BY <2>3, <2>4 DEF Sound, Origin
  <2>8. Settled(r, m)
    BY <2>1, <2>3, <2>6 DEF Settled
  <2>9. r.src # Null => r.src + r.size <= AddrLimit - PageSize
    BY <2>3, <2>4 DEF Sound
  <2>. QED
    BY <2>1, <2>2, <2>3, <2>4, <2>5, <2>7, <2>8, <2>9 DEF Sound
<1>6. ASSUME NEW n \in 1 .. Len(objs), n \notin G
      PROVE  Sound(new[n], types \cup {type}, l, m, s) /\ new[n] = objs[n]
  <2>1. new[n] = objs[n] /\ objs[n].type # type /\ Sound(objs[n], types, l, m, t)
    BY <1>1, <1>2, <1>4, <1>6 DEF Relaid
  <2>. QED
    BY <1>2, <2>1 DEF Sound
<1>7. ASSUME NEW p \in 1 .. Len(objs), NEW q \in 1 .. Len(objs), p # q
      PROVE  Clear(new[p], new[q])
  <2>1. CASE p \in G /\ q \in G
    BY <1>2, <1>7, <2>1 DEF Spread, Clear
  <2>2. CASE p \in G /\ q \notin G
    <3>1. new[q] = objs[q] /\ Sound(objs[q], types, l, m, t)
      BY <1>1, <1>6, <2>2
    <3>. QED
      BY <1>5, <2>2, <3>1 DEF Sound, Clear
  <2>3. CASE p \notin G /\ q \in G
    <3>1. new[p] = objs[p] /\ Sound(objs[p], types, l, m, t)
      BY <1>1, <1>6, <2>3
    <3>. QED
      BY <1>5, <2>3, <3>1 DEF Sound, Clear
  <2>4. CASE p \notin G /\ q \notin G
    BY <1>1, <1>6, <1>7, <2>4
  <2>. QED
    BY <2>1, <2>2, <2>3, <2>4
<1>8. \A n \in 1 .. Len(new) : Sound(new[n], types \cup {type}, l, m, s)
  BY <1>3, <1>5, <1>6
<1>9. \A p, q \in 1 .. Len(new) : p # q => Clear(new[p], new[q])
  BY <1>3, <1>7
<1>10. InPlace(new, types \cup {type}, l, m, s)
  BY <1>1, <1>3, <1>8, <1>9, InPlaceParts
<1>. QED
  BY <1>3, <1>10 DEF Done

\* Only x86 has objects of type "t" in the table.
LEMMA NoneLow ==
  ASSUME NEW objs, NEW types, NEW l, NEW m, NEW t, InPlace(objs, types, l, m, t), ~X86
  PROVE  InPlace(objs, types \cup {"t"}, l, m, t)
<1>1. \A n \in DOMAIN objs : objs[n].type # "t"
  BY DEF InPlace, Objects, Origin
<1>. QED
  BY <1>1 DEF InPlace, PlacedApart

LEMMA PlacingStep ==
  ASSUME Machine, IInv, pc \in {"place_info", "place_low", "place_modules"},
         NEW type \in {"m", "s", "t"}, type \notin PlacedTypes(pc),
         NEW preferred \in Addr, NEW option \in {"ANY", "32BIT"},
         NEW next \in {"place_low", "place_modules", "blacklist_bootloader_mem"},
         \/ PlacedTypes(next) = PlacedTypes(pc) \cup {type}
         \/ /\ ~X86
            /\ PlacedTypes(next) = (PlacedTypes(pc) \cup {type}) \cup {"t"},
         next = "place_low" => X86 /\ pc = "place_info",
         Place(type, preferred, option, next)
  PROVE  IInv'
<1>. PICK m, l, big, t, objs, types :
       /\ m = firmware /\ l = load /\ big = mmap /\ t = allocs /\ objs = relocs
       /\ types = PlacedTypes(pc)
  OBVIOUS
<1>1. Anyhow(m, l, big, t, objs, safe) /\ OnTheWay(pc, m, big, t, objs, safe)
  BY DEF IInv, Holds
<1>2. m \in Maps /\ l \in Loads(m) /\ Loadable(l) /\ big \in Seq(MapEntry) /\ Tidy(t)
  BY <1>1, WhatIsLoaded DEF Anyhow
<1>3. /\ Guarded(t) /\ MergedMap(big, m) /\ Addr \ TableBytes(t) \subseteq Ram(big)
      /\ objs # << >> /\ safe = << >> /\ InPlace(objs, types, l, m, t)
      /\ Objects(objs, l, m)
      /\ pc = "place_info" /\ X86 => Len(objs) >= 2
  <2>1. pc \notin SafePhase
    BY DEF SafePhase
  <2>. QED
    BY <1>1, <2>1 DEF Anyhow, OnTheWay, Registered, NotYet, InPlace
<1>. PICK x : x = set_runtime_addr(t, objs, type, preferred, option)
  OBVIOUS
<1>4. /\ firmware' = m /\ load' = l /\ mmap' = big /\ safe' = << >>
      /\ ~Covered(x) /\ allocs' = x.table /\ GoOn(x.status, next)
      /\ relocs' = IF x.status = "SUCCESS" THEN x.objs ELSE objs
  BY <1>3 DEF Place, Settle, Keep
<1>5. Lays(x, t, objs, Group(objs, type))
  <2>1. Layable(objs, type)
    BY <1>2, <1>3, LayableTable
  <2>. QED
    BY <1>3, <1>4, <2>1, SettingAddresses
<1>6. Adds(x, t) /\ Guarded(x.table) /\ TableBytes(t) \subseteq TableBytes(x.table)
      /\ Tidy(x.table)
  BY <1>3, <1>5, GuardedGrows DEF Lays, Adds
<1>7. pc' = IF x.status = "SUCCESS" THEN next ELSE "panic"
  BY <1>4, <1>6, Going DEF Adds
<1>8. CASE x.status # "SUCCESS"
  <2>1. InPlace(objs, types, l, m, x.table)
    BY <1>3, <1>6, InPlaceGrows
  <2>2. Anyhow(m, l, big, x.table, objs, << >>)
    BY <1>2, <1>6, <2>1, Nothing DEF Anyhow, InPlace
  <2>. QED
    BY <1>4, <1>7, <1>8, <2>2, Ending DEF IInv
<1>9. CASE x.status = "SUCCESS"
  <2>. PICK new : new = x.objs
    OBVIOUS
  <2>1. InPlace(new, types \cup {type}, l, m, x.table) /\ Len(new) = Len(objs)
    <3>1. type \notin types
      OBVIOUS
    <3>2. InPlace(x.objs, types \cup {type}, l, m, x.table) /\ Len(x.objs) = Len(objs)
      <4>1. Ready(objs, types, l, m, big, t)
        BY <1>3, Zenon DEF Ready
      <4>2. Done(x, objs, types \cup {type}, l, m)
        BY <1>5, <1>9, <3>1, <4>1, Laying, Zenon
      <4>. QED
        BY <4>2, Zenon DEF Done
    <3>. QED
      BY <3>2
  <2>2. InPlace(new, PlacedTypes(next), l, m, x.table)
    <3>1. CASE PlacedTypes(next) = types \cup {type}
      BY <2>1, <3>1, Zenon
    <3>2. CASE ~X86 /\ PlacedTypes(next) = (types \cup {type}) \cup {"t"}
      <4>1. InPlace(new, (types \cup {type}) \cup {"t"}, l, m, x.table)
        BY <2>1, <3>2, NoneLow, Zenon
      <4>. QED
        BY <3>2, <4>1, Zenon
    <3>. QED
      BY <3>1, <3>2
  <2>3. Anyhow(m, l, big, x.table, new, << >>)
    BY <1>2, <1>6, <2>2, Nothing DEF Anyhow, InPlace
  <2>4. Registered(new, next)
    <3>1. new # << >>
      <4>1. new \in Seq(Obj) /\ objs \in Seq(Obj)
        BY <1>3, <2>1, InPlaceParts
      <4>2. Len(objs) # 0
        BY <1>3, <4>1
      <4>3. Len(<< >>) = 0
        OBVIOUS
      <4>. QED
        BY <2>1, <4>2, <4>3, Zenon
    <3>2. next = "place_low" => Len(new) >= 2
      BY <1>3, <2>1
    <3>. QED
      BY <3>1, <3>2 DEF Registered
  <2>5. OnTheWay(next, m, big, x.table, new, << >>)
    <3>1. next \notin SafePhase
      BY DEF SafePhase
    <3>. QED
      BY <1>3, <1>6, <2>2, <2>4, <3>1 DEF OnTheWay, InPlace
  <2>6. Holds(next, m, l, big, x.table, new, << >>)
    BY <2>3, <2>5 DEF Holds, Steps
  <2>. QED
    BY <1>4, <1>7, <1>9, <2>6 DEF IInv
<1>. QED
  BY <1>8, <1>9

LEMMA PlaceInfoStep ==
  ASSUME Machine, IInv, PlaceInfo
  PROVE  IInv'
<1>1. AddrLimit \in Nat \ {0, 1} /\ Addr = 0 .. AddrLimit - 1
  BY AddressSpace DEF Addr
<1>2. Objects(relocs, load, firmware) /\ pc = "place_info"
  BY DEF IInv, Holds, Anyhow, PlaceInfo
<1>3. KernelEnd \in Addr
  <2>. DEFINE S == {0} \cup {EndOf(relocs[n]) : n \in Group(relocs, "k")}
  <2>1. ASSUME NEW n \in Group(relocs, "k") PROVE EndOf(relocs[n]) \in Addr
    <3>1. relocs \in Seq(Obj) /\ n \in DOMAIN relocs
      BY <1>2 DEF Objects, Group
    <3>2. relocs[n] \in Obj
      BY <3>1
    <3>. PICK d, z : d = relocs[n].dest /\ z = relocs[n].size
      OBVIOUS
    <3>3. d \in Nat /\ z \in Nat
      BY <3>2, ObjParts
    <3>4. d + z \in Int
      BY <3>3
    <3>. QED
      BY <3>4, WrapType DEF EndOf
  <2>2. 0 \in Addr /\ AddrLimit - 1 \in Nat
    BY <1>1
  <2>3. S \subseteq 0 .. AddrLimit - 1 /\ S # {}
    BY <1>1, <2>1, <2>2
  <2>4. KernelEnd = Max(S)
    BY DEF KernelEnd
  <2>. HIDE DEF S
  <2>5. Max(S) \in S
    BY <2>2, <2>3, Highest
  <2>. QED
    BY <1>1, <2>3, <2>4, <2>5
<1>. PICK next : next = IF X86 THEN "place_low" ELSE "place_modules"
  OBVIOUS
<1>4. Place("s", KernelEnd, LowOption, next)
  BY DEF PlaceInfo
<1>5. LowOption \in {"ANY", "32BIT"}
  BY DEF LowOption
<1>6. /\ next \in {"place_low", "place_modules", "blacklist_bootloader_mem"}
      /\ next = "place_low" => X86
  OBVIOUS
<1>7. /\ "s" \notin PlacedTypes(pc)
      /\ \/ PlacedTypes(next) = PlacedTypes(pc) \cup {"s"}
         \/ /\ ~X86
            /\ PlacedTypes(next) = (PlacedTypes(pc) \cup {"s"}) \cup {"t"}
  <2>1. PlacedTypes(pc) = {"k"}
    BY <1>2 DEF PlacedTypes
  <2>2. PlacedTypes("place_low") = {"k", "s"} /\ PlacedTypes("place_modules") = {"k", "s", "t"}
    BY DEF PlacedTypes
  <2>. QED
    BY <2>1, <2>2
<1>. QED
  BY <1>2, <1>3, <1>4, <1>5, <1>6, <1>7, PlacingStep

LEMMA PlaceLowStep ==
  ASSUME Machine, IInv, PlaceLow
  PROVE  IInv'
<1>1. /\ Objects(relocs, load, firmware) /\ pc = "place_low" /\ Len(relocs) >= 2
  BY DEF IInv, Holds, Anyhow, PlaceLow, OnTheWay, Registered
<1>. PICK end : end = EndOf(relocs[Len(relocs) - 1])
  OBVIOUS
<1>2. end \in Addr
  <2>1. relocs \in Seq(Obj) /\ Len(relocs) \in Nat
    BY <1>1 DEF Objects
  <2>2. Len(relocs) - 1 \in 1 .. Len(relocs)
    BY <1>1, <2>1
  <2>3. relocs[Len(relocs) - 1] \in Obj
    BY <2>1, <2>2
  <2>. PICK d, z : d = relocs[Len(relocs) - 1].dest /\ z = relocs[Len(relocs) - 1].size
    OBVIOUS
  <2>4. d \in Nat /\ z \in Nat
    BY <2>3, ObjParts
  <2>5. d + z \in Int
    BY <2>4
  <2>. QED
    BY <2>5, WrapType DEF EndOf
<1>3. Place("t", end, LowOption, "place_modules")
  BY DEF PlaceLow
<1>4. LowOption \in {"ANY", "32BIT"}
  BY DEF LowOption
<1>5. /\ "t" \notin PlacedTypes(pc)
      /\ PlacedTypes("place_modules") = PlacedTypes(pc) \cup {"t"}
  BY <1>1 DEF PlacedTypes
<1>. QED
  BY <1>1, <1>2, <1>3, <1>4, <1>5, PlacingStep

LEMMA PlaceModulesStep ==
  ASSUME Machine, IInv, PlaceModules
  PROVE  IInv'
<1>1. pc = "place_modules"
  BY DEF PlaceModules
<1>. PICK option : option = IF load.esxbootinfo THEN "ANY" ELSE "32BIT"
  OBVIOUS
<1>2. option \in {"ANY", "32BIT"} /\ Place("m", 0, option, "blacklist_bootloader_mem")
  BY DEF PlaceModules
<1>3. 0 \in Addr
  BY AddressSpace DEF Addr
<1>4. /\ "m" \notin PlacedTypes(pc)
      /\ PlacedTypes("blacklist_bootloader_mem") = PlacedTypes(pc) \cup {"m"}
  BY <1>1 DEF PlacedTypes
<1>. QED
  BY <1>1, <1>2, <1>3, <1>4, PlacingStep

-----------------------------------------------------------------------------
(* blacklist_bootloader_mem: what is free from here on is nobody's.         *)

\* Its requests, those of the map before those for the sources.
LEMMA BootloaderRequests ==
  ASSUME NEW m, MergedMap(mmap, m), relocs \in Seq(Obj), NotYet(relocs, << >>),
         NEW rs, rs = BootloaderRanges \o Sources
  PROVE  /\ Listed(rs, Len(rs)) /\ \A i \in 1 .. Len(rs) : Pageable(rs[i])
         /\ \A j \in DOMAIN mmap : mmap[j].type = "bootloader" =>
              \E i \in 1 .. Len(rs) : Bytes(mmap[j]) \subseteq Bytes(rs[i])
         /\ \A n \in DOMAIN relocs : relocs[n].src # Null =>
              \E i \in 1 .. Len(rs) : Bytes(Source(relocs[n])) \subseteq Bytes(rs[i])
<1>1. AddrLimit \in Nat \ {0, 1} /\ PageSize \in Nat \ {0} /\ Addr = 0 .. AddrLimit - 1
      /\ 0 \in Addr /\ AddrLimit - PageSize \in Nat
  BY AddressSpace, Trampoline DEF Addr
<1>. DEFINE N == Len(mmap)
            M == Len(relocs)
<1>2. /\ mmap \in Seq(MapEntry) /\ \A j \in DOMAIN mmap : Top(mmap[j]) <= AddrLimit - PageSize
  BY DEF MergedMap
<1>3. N \in Nat /\ DOMAIN mmap = 1 .. N /\ M \in Nat /\ DOMAIN relocs = 1 .. M
  BY <1>2
<1>. HIDE DEF N, M
<1>. PICK A, B : A = BootloaderRanges /\ B = Sources
  OBVIOUS
<1>4. A = [n \in 1 .. N |-> When(mmap[n].type = "bootloader", mmap[n])]
      /\ B = [n \in 1 .. M |-> When(relocs[n].src # Null, Source(relocs[n]))]
  BY <1>3 DEF BootloaderRanges, Sources
<1>5. Listed(A, N) /\ Listed(B, M)
  <2>1. DOMAIN A = 1 .. N /\ DOMAIN B = 1 .. M
    BY <1>4
  <2>2. Len(A) = N /\ Len(B) = M
    BY <1>3, <1>4, <2>1
  <2>3. A = [n \in 1 .. N |-> A[n]] /\ B = [n \in 1 .. M |-> B[n]]
    BY <1>4
  <2>. QED
    BY <1>3, <2>1, <2>2, <2>3 DEF Listed
<1>6. ASSUME NEW n \in 1 .. N
      PROVE  /\ Pageable(A[n])
             /\ mmap[n].type = "bootloader" => Bytes(mmap[n]) \subseteq Bytes(A[n])
  <2>. PICK e : e = mmap[n]
    OBVIOUS
  <2>1. e.base \in Addr /\ e.len \in Addr /\ Top(e) <= AddrLimit - PageSize
    BY <1>2, <1>3, MapEntries
  <2>2. A[n] = Request(e.base, IF e.type = "bootloader" THEN e.len ELSE 0)
    BY <1>4 DEF When
  <2>3. CASE e.type = "bootloader"
    <3>1. A[n] = [base |-> e.base, len |-> e.len]
      BY <2>2, <2>3 DEF Request
    <3>2. A[n] \in AddrRange /\ Top(A[n]) <= AddrLimit - PageSize
      BY <2>1, <3>1 DEF AddrRange, Top
    <3>3. Pageable(A[n])
      BY <3>2, LowPageable
    <3>4. Bytes(A[n]) = Bytes(e)
      BY <3>1 DEF Bytes
    <3>. QED
      BY <3>3, <3>4
  <2>4. CASE e.type # "bootloader"
    <3>1. A[n] = [base |-> e.base, len |-> 0]
      BY <2>2, <2>4 DEF Request
    <3>2. A[n] \in AddrRange /\ ~(A[n].len > 0)
      BY <1>1, <2>1, <3>1 DEF AddrRange
    <3>. QED
      BY <2>4, <3>2 DEF Pageable
  <2>. QED
    BY <2>3, <2>4
<1>7. ASSUME NEW n \in 1 .. M
      PROVE  /\ Pageable(B[n])
             /\ relocs[n].src # Null => Bytes(Source(relocs[n])) \subseteq Bytes(B[n])
  <2>. PICK o : o = relocs[n]
    OBVIOUS
  <2>1. o \in Obj /\ (o.src # Null => o.src + o.size <= AddrLimit - PageSize)
    <3>1. n \in DOMAIN relocs
      BY <1>3
    <3>2. o \in Obj
      BY <3>1
    <3>3. o.src # Null => o.src + o.size <= AddrLimit - PageSize
      BY <3>1 DEF NotYet
    <3>. QED
      BY <3>2, <3>3
  <2>2. o.src \in Addr /\ o.size \in Addr
    BY <2>1, ObjParts
  <2>3. B[n] = When(o.src # Null, Request(o.src, o.size))
    BY <1>4 DEF Source
  <2>4. CASE o.src # Null
    <3>1. B[n] = [base |-> o.src, len |-> o.size] /\ Source(o) = B[n]
      BY <2>3, <2>4 DEF When, Request, Source
    <3>2. B[n] \in AddrRange /\ Top(B[n]) <= AddrLimit - PageSize
      BY <2>1, <2>2, <2>4, <3>1 DEF AddrRange, Top
    <3>3. Pageable(B[n])
      BY <3>2, LowPageable
    <3>. QED
      BY <3>1, <3>3
  <2>5. CASE o.src = Null
    <3>1. B[n] = [base |-> o.src, len |-> 0]
      BY <2>3, <2>5 DEF When, Request
    <3>2. B[n] \in AddrRange /\ ~(B[n].len > 0)
      BY <1>1, <2>2, <3>1 DEF AddrRange
    <3>. QED
      BY <2>5, <3>2 DEF Pageable
  <2>. QED
    BY <2>4, <2>5
<1>8. Joined(rs, A, B)
  <2>1. rs = A \o B
    OBVIOUS
  <2>. QED
    BY <1>5, <2>1, Joining, Zenon
<1>9. /\ Len(rs) \in Nat /\ DOMAIN rs = 1 .. Len(rs)
      /\ \A i \in DOMAIN rs : \/ i \in 1 .. N /\ rs[i] = A[i]
                              \/ i - N \in 1 .. M /\ rs[i] = B[i - N]
      /\ \A n \in 1 .. N : n \in DOMAIN rs /\ rs[n] = A[n]
      /\ \A n \in 1 .. M : n + N \in DOMAIN rs /\ rs[n + N] = B[n]
  <2>1. Len(A) = N /\ Len(B) = M
    BY <1>5, Zenon DEF Listed
  <2>. QED
    BY <1>8, <2>1, Zenon DEF Joined
<1>10. \A i \in 1 .. Len(rs) : Pageable(rs[i])
  BY <1>6, <1>7, <1>9, Zenon
<1>11. ASSUME NEW j \in DOMAIN mmap, mmap[j].type = "bootloader"
       PROVE  \E i \in 1 .. Len(rs) : Bytes(mmap[j]) \subseteq Bytes(rs[i])
  BY <1>3, <1>6, <1>9, <1>11, Zenon
<1>12. ASSUME NEW n \in DOMAIN relocs, relocs[n].src # Null
       PROVE  \E i \in 1 .. Len(rs) : Bytes(Source(relocs[n])) \subseteq Bytes(rs[i])
  <2>. PICK i : i = n + N
    OBVIOUS
  <2>1. n \in 1 .. M
    BY <1>3, <1>12
  <2>2. i \in 1 .. Len(rs) /\ rs[i] = B[n]
    BY <1>9, <2>1
  <2>3. Bytes(Source(relocs[n])) \subseteq Bytes(B[n])
    BY <1>7, <1>12, <2>1
  <2>. QED
    BY <2>2, <2>3
<1>13. Listed(rs, Len(rs))
  BY <1>8, Zenon DEF Joined, Listed
<1>. QED
  BY <1>10, <1>11, <1>12, <1>13

\* The glyphs of the font come after them.
LEMMA FontRequests ==
  ASSUME NEW fs \in Seq(AddrRange), \A i \in DOMAIN fs : InMemory(fs[i]),
         NEW ps, Listed(ps, Len(ps)),
         \A i \in 1 .. Len(ps) : Pageable(ps[i]),
         NEW rs, rs = ps \o fs
  PROVE  /\ Len(rs) \in Nat /\ \A i \in 1 .. Len(rs) : Pageable(rs[i])
         /\ \A i \in 1 .. Len(ps) : i \in 1 .. Len(rs) /\ rs[i] = ps[i]
<1>2. Listed(fs, Len(fs))
  BY ListingOf
<1>3. \A i \in 1 .. Len(fs) : Pageable(fs[i])
  <2>1. SUFFICES ASSUME NEW i \in 1 .. Len(fs) PROVE Pageable(fs[i])
    OBVIOUS
  <2>2. i \in DOMAIN fs
    BY <1>2, <2>1 DEF Listed
  <2>3. fs[i] \in AddrRange /\ Top(fs[i]) <= AddrLimit - PageSize
    BY <2>2 DEF InMemory
  <2>. QED
    BY <2>3, LowPageable
<1>4. Joined(rs, ps, fs)
  <2>1. rs = ps \o fs
    OBVIOUS
  <2>. QED
    BY <1>2, <2>1, Joining, Zenon
<1>5. \A i \in 1 .. Len(rs) : Pageable(rs[i])
  BY <1>3, <1>4, Zenon DEF Joined
<1>. QED
  BY <1>4, <1>5, Zenon DEF Joined

LEMMA BlacklistStep ==
  ASSUME Machine, IInv, blacklist_bootloader_mem
  PROVE  IInv'
<1>. PICK m, l, big, t, objs :
       m = firmware /\ l = load /\ big = mmap /\ t = allocs /\ objs = relocs
  OBVIOUS
<1>1. /\ Anyhow(m, l, big, t, objs, safe)
      /\ OnTheWay("blacklist_bootloader_mem", m, big, t, objs, safe)
  BY DEF IInv, Holds, blacklist_bootloader_mem
<1>2. m \in Maps /\ l \in Loads(m) /\ Loadable(l) /\ big \in Seq(MapEntry) /\ Tidy(t)
  BY <1>1, WhatIsLoaded DEF Anyhow
<1>. DEFINE types == {"k", "m", "s", "t"}
<1>3. /\ Guarded(t) /\ MergedMap(big, m) /\ Addr \ TableBytes(t) \subseteq Ram(big)
      /\ objs # << >> /\ safe = << >> /\ InPlace(objs, types, l, m, t)
      /\ objs \in Seq(Obj) /\ NotYet(objs, << >>)
  <2>1. "blacklist_bootloader_mem" \notin SafePhase
        /\ PlacedTypes("blacklist_bootloader_mem") = types
    BY DEF SafePhase, PlacedTypes
  <2>. QED
    BY <1>1, <2>1 DEF Anyhow, OnTheWay, Registered, NotYet, InPlace, Objects
<1>. HIDE DEF types
<1>. PICK ps : ps = BootloaderRanges \o Sources
  OBVIOUS
<1>. PICK rs : rs = ps \o l.font
  OBVIOUS
<1>. PICK x : x = BlacklistAll(t, rs)
  OBVIOUS
<1>4. /\ firmware' = m /\ load' = l /\ mmap' = big /\ relocs' = objs /\ safe' = << >>
      /\ ~Covered(x) /\ allocs' = x.table /\ GoOn(x.status, "relocate_runtime_services")
  BY <1>3 DEF blacklist_bootloader_mem, Keep
<1>5. /\ Len(rs) \in Nat /\ \A i \in 1 .. Len(rs) : Pageable(rs[i])
      /\ \A j \in DOMAIN big : big[j].type = "bootloader" =>
           \E i \in 1 .. Len(rs) : Bytes(big[j]) \subseteq Bytes(rs[i])
      /\ \A n \in DOMAIN objs : objs[n].src # Null =>
           \E i \in 1 .. Len(rs) : Bytes(Source(objs[n])) \subseteq Bytes(rs[i])
  <2>1. /\ Listed(ps, Len(ps)) /\ \A i \in 1 .. Len(ps) : Pageable(ps[i])
        /\ \A j \in DOMAIN big : big[j].type = "bootloader" =>
             \E i \in 1 .. Len(ps) : Bytes(big[j]) \subseteq Bytes(ps[i])
        /\ \A n \in DOMAIN objs : objs[n].src # Null =>
             \E i \in 1 .. Len(ps) : Bytes(Source(objs[n])) \subseteq Bytes(ps[i])
    BY <1>3, BootloaderRequests
  <2>2. /\ Len(rs) \in Nat /\ \A i \in 1 .. Len(rs) : Pageable(rs[i])
        /\ \A i \in 1 .. Len(ps) : i \in 1 .. Len(rs) /\ rs[i] = ps[i]
    <3>. PICK fs : fs = l.font
      OBVIOUS
    <3>1. fs \in Seq(AddrRange) /\ \A i \in DOMAIN fs : InMemory(fs[i])
      BY <1>2 DEF Loadable
    <3>2. Listed(ps, Len(ps)) /\ \A i \in 1 .. Len(ps) : Pageable(ps[i])
      BY <2>1
    <3>3. rs = ps \o fs
      OBVIOUS
    <3>. QED
      BY <3>1, <3>2, <3>3, FontRequests
  <2>3. ASSUME NEW j \in DOMAIN big, big[j].type = "bootloader"
        PROVE  \E i \in 1 .. Len(rs) : Bytes(big[j]) \subseteq Bytes(rs[i])
    <3>1. PICK i \in 1 .. Len(ps) : Bytes(big[j]) \subseteq Bytes(ps[i])
      BY <2>1, <2>3, Zenon
    <3>. QED
      BY <2>2, <3>1, Zenon
  <2>4. ASSUME NEW n \in DOMAIN objs, objs[n].src # Null
        PROVE  \E i \in 1 .. Len(rs) : Bytes(Source(objs[n])) \subseteq Bytes(rs[i])
    <3>1. PICK i \in 1 .. Len(ps) : Bytes(Source(objs[n])) \subseteq Bytes(ps[i])
      BY <2>1, <2>4, Zenon
    <3>. QED
      BY <2>2, <3>1, Zenon
  <2>. QED
    BY <2>2, <2>3, <2>4
<1>6. /\ Adds(x, t)
      /\ x.status = "SUCCESS" =>
           \A i \in 1 .. Len(rs) : Bytes(rs[i]) \subseteq TableBytes(x.table)
  BY <1>2, <1>4, <1>5, Blacklisting
<1>7. /\ Guarded(x.table) /\ Tidy(x.table) /\ TableBytes(t) \subseteq TableBytes(x.table)
  BY <1>3, <1>6, GuardedGrows DEF Adds
<1>8. InPlace(objs, types, l, m, x.table)
  BY <1>3, <1>7, InPlaceGrows
<1>9. Anyhow(m, l, big, x.table, objs, << >>)
  BY <1>2, <1>7, <1>8, Nothing DEF Anyhow, InPlace
<1>10. pc' = IF x.status = "SUCCESS" THEN "relocate_runtime_services" ELSE "panic"
  BY <1>4, <1>6, Going DEF Adds
<1>11. x.status = "SUCCESS" =>
         OnTheWay("relocate_runtime_services", m, big, x.table, objs, << >>)
  <2>. SUFFICES ASSUME x.status = "SUCCESS"
                PROVE  OnTheWay("relocate_runtime_services", m, big, x.table, objs, << >>)
    OBVIOUS
  <2>1. \A n \in DOMAIN objs :
          objs[n].src # Null => Bytes(Source(objs[n])) \subseteq TableBytes(x.table)
    BY <1>5, <1>6
  <2>2. ASSUME NEW a \in Addr \ TableBytes(x.table) PROVE a \in Available(m)
    <3>1. a \in Ram(big)
      BY <1>3, <1>7
    <3>2. PICK j \in DOMAIN big : big[j].type \in Usable /\ a \in Bytes(big[j])
      BY <3>1 DEF Ram
    <3>3. big[j].type # "bootloader"
      BY <1>5, <1>6, <3>2
    <3>4. big[j].type = "available"
      BY <3>2, <3>3 DEF Usable
    <3>5. \E i \in DOMAIN m : m[i].type = big[j].type /\ a \in Bytes(m[i])
      BY <1>3, <3>2 DEF MergedMap
    <3>. QED
      BY <3>4, <3>5 DEF Available
  <2>3. AllHeld(objs, x.table, << >>, m)
    <3>1. DOMAIN << >> = {}
      OBVIOUS
    <3>. QED
      BY <2>1, <2>2, <3>1 DEF AllHeld
  <2>4. Registered(objs, "relocate_runtime_services")
    BY <1>3 DEF Registered
  <2>5. "relocate_runtime_services" \in SafePhase
        /\ PlacedTypes("relocate_runtime_services") = types
    BY DEF SafePhase, PlacedTypes, types
  <2>6. Addr \ TableBytes(x.table) \subseteq Ram(big)
    BY <1>3, <1>7
  <2>. QED
    BY <1>3, <1>7, <1>8, <2>3, <2>4, <2>5, <2>6 DEF OnTheWay, InPlace
<1>12. Holds(pc', m, l, big, x.table, objs, << >>)
  BY <1>9, <1>10, <1>11 DEF Holds, Steps
<1>. QED
  BY <1>4, <1>12 DEF IInv

-----------------------------------------------------------------------------
(* Safe memory, once all that is free is nobody's.                          *)

\* Ranges that a call has just taken from what was free.
Fresh(more, t, s) ==
  /\ Listed(more, Len(more)) /\ TableBytes(t) \subseteq TableBytes(s)
  /\ \A i \in 1 .. Len(more) :
       /\ more[i] \in AddrRange /\ more[i].len > 0 /\ Top(more[i]) < AddrLimit
       /\ Bytes(more[i]) \cap TableBytes(t) = {}
       /\ Bytes(more[i]) \subseteq TableBytes(s)
  /\ \A i, j \in 1 .. Len(more) : i # j => Bytes(more[i]) \cap Bytes(more[j]) = {}

\* What is free is nobody's, and the table holds the rest.
Vacant(objs, t, rs, m) ==
  /\ SafeRanges(rs, objs, m) /\ AllHeld(objs, t, rs, m)
  /\ Addr \ TableBytes(t) \subseteq Ram(m)
  /\ \A n \in DOMAIN objs : Bytes(Dest(objs[n])) \subseteq TableBytes(t)

LEMMA MoreSafe ==
  ASSUME NEW objs, NEW t, NEW rs, NEW m, Vacant(objs, t, rs, m),
         NEW more, NEW s, Fresh(more, t, s)
  PROVE  SafeRanges(rs \o more, objs, m) /\ AllHeld(objs, s, rs \o more, m)
<1>1. /\ rs \in Seq(AddrRange)
      /\ Addr \ TableBytes(t) \subseteq Ram(m) \cap Available(m)
      /\ TableBytes(t) \subseteq TableBytes(s)
  BY DEF Vacant, SafeRanges, AllHeld, Fresh
<1>2. Listed(rs, Len(rs)) /\ Listed(more, Len(more))
      /\ \A i \in 1 .. Len(rs) : rs[i] \in AddrRange
  BY <1>1, ListingOf DEF Fresh
<1>. PICK x : x = rs \o more
  OBVIOUS
<1>3. Joined(x, rs, more)
  BY <1>2, Joining, Zenon
<1>. PICK N, M : N = Len(rs) /\ M = Len(more)
  OBVIOUS
<1>4. /\ Len(x) \in Nat /\ DOMAIN x = 1 .. Len(x) /\ x = [i \in 1 .. Len(x) |-> x[i]]
      /\ DOMAIN rs = 1 .. N
      /\ \A i \in DOMAIN x : \/ i \in 1 .. N /\ x[i] = rs[i]
                             \/ i - N \in 1 .. M /\ i \notin 1 .. N /\ x[i] = more[i - N]
  BY <1>2, <1>3, Zenon DEF Joined, Listed
<1>5. ASSUME NEW i \in 1 .. N
      PROVE  /\ rs[i] \in AddrRange /\ rs[i].len > 0 /\ Top(rs[i]) < AddrLimit
             /\ Bytes(rs[i]) \subseteq Ram(m) \cap Available(m)
             /\ Bytes(rs[i]) \subseteq TableBytes(t)
             /\ \A n \in DOMAIN objs : Bytes(rs[i]) \cap Bytes(Dest(objs[n])) = {}
             /\ \A j \in 1 .. N : i # j => Bytes(rs[i]) \cap Bytes(rs[j]) = {}
  BY <1>2, <1>4 DEF Vacant, SafeRanges, AllHeld
<1>6. ASSUME NEW i \in 1 .. M
      PROVE  /\ more[i] \in AddrRange /\ more[i].len > 0 /\ Top(more[i]) < AddrLimit
             /\ Bytes(more[i]) \subseteq Ram(m) \cap Available(m)
             /\ Bytes(more[i]) \subseteq TableBytes(s)
             /\ Bytes(more[i]) \cap TableBytes(t) = {}
             /\ \A n \in DOMAIN objs : Bytes(more[i]) \cap Bytes(Dest(objs[n])) = {}
             /\ \A j \in 1 .. M : i # j => Bytes(more[i]) \cap Bytes(more[j]) = {}
  <2>1. /\ more[i] \in AddrRange /\ more[i].len > 0 /\ Top(more[i]) < AddrLimit
        /\ Bytes(more[i]) \cap TableBytes(t) = {}
        /\ Bytes(more[i]) \subseteq TableBytes(s)
        /\ \A j \in 1 .. M : i # j => Bytes(more[i]) \cap Bytes(more[j]) = {}
    BY DEF Fresh
  <2>2. Bytes(more[i]) \subseteq Addr
    BY DEF Bytes
  <2>3. \A n \in DOMAIN objs : Bytes(Dest(objs[n])) \subseteq TableBytes(t)
    BY DEF Vacant
  <2>. QED
    BY <1>1, <2>1, <2>2, <2>3
<1>7. ASSUME NEW i \in DOMAIN x
      PROVE  /\ x[i] \in AddrRange /\ x[i].len > 0 /\ Top(x[i]) < AddrLimit
             /\ Bytes(x[i]) \subseteq Ram(m) \cap Available(m)
             /\ Bytes(x[i]) \subseteq TableBytes(s)
             /\ \A n \in DOMAIN objs : Bytes(x[i]) \cap Bytes(Dest(objs[n])) = {}
  <2>1. CASE i \in 1 .. N /\ x[i] = rs[i]
    BY <1>1, <1>5, <2>1
  <2>2. CASE i - N \in 1 .. M /\ x[i] = more[i - N]
    <3>. PICK k : k = i - N
      OBVIOUS
    <3>. QED
      BY <1>6, <2>2
  <2>. QED
    BY <1>4, <2>1, <2>2, Zenon
<1>8. ASSUME NEW i \in DOMAIN x, NEW j \in DOMAIN x, i # j
      PROVE  Bytes(x[i]) \cap Bytes(x[j]) = {}
  <2>1. CASE i \in 1 .. N /\ j \in 1 .. N
    BY <1>4, <1>5, <1>8, <2>1
  <2>2. CASE i \in 1 .. N /\ j \notin 1 .. N
    <3>. PICK k : k = j - N
      OBVIOUS
    <3>1. x[i] = rs[i] /\ k \in 1 .. M /\ x[j] = more[k]
      BY <1>4, <2>2, Zenon
    <3>2. Bytes(rs[i]) \subseteq TableBytes(t)
      BY <1>5, <2>2
    <3>3. Bytes(more[k]) \cap TableBytes(t) = {}
      BY <1>6, <3>1
    <3>. QED
      BY <3>1, <3>2, <3>3
  <2>3. CASE i \notin 1 .. N /\ j \in 1 .. N
    <3>. PICK k : k = i - N
      OBVIOUS
    <3>1. x[j] = rs[j] /\ k \in 1 .. M /\ x[i] = more[k]
      BY <1>4, <2>3, Zenon
    <3>2. Bytes(rs[j]) \subseteq TableBytes(t)
      BY <1>5, <2>3
    <3>3. Bytes(more[k]) \cap TableBytes(t) = {}
      BY <1>6, <3>1
    <3>. QED
      BY <3>1, <3>2, <3>3
  <2>4. CASE i \notin 1 .. N /\ j \notin 1 .. N
    <3>. PICK k, q : k = i - N /\ q = j - N
      OBVIOUS
    <3>1. k \in 1 .. M /\ q \in 1 .. M /\ x[i] = more[k] /\ x[j] = more[q]
      BY <1>4, <2>4, Zenon
    <3>2. k # q
      <4>1. i \in Int /\ j \in Int /\ N \in Int
        BY <1>2, <1>4 DEF Listed
      <4>. QED
        BY <1>8, <4>1
    <3>. QED
      BY <1>6, <3>1, <3>2
  <2>. QED
    BY <2>1, <2>2, <2>3, <2>4
<1>9. x \in Seq(AddrRange)
  <2>1. Listed(x, Len(x))
    BY <1>4, Zenon DEF Listed
  <2>. QED
    BY <1>4, <1>7, <2>1, SeqOf, Zenon
<1>10. SafeRanges(x, objs, m)
  BY <1>7, <1>8, <1>9 DEF SafeRanges
<1>11. AllHeld(objs, s, x, m)
  BY <1>1, <1>7 DEF Vacant, AllHeld
<1>. QED
  BY <1>10, <1>11

\* A call that takes memory from what is free, and hands it out.
LEMMA UseStep ==
  ASSUME Machine, IInv, pc \in SafePhase \ {"handoff"},
         NEW x, Adds(x, allocs), NEW ranges,
         x.status = "SUCCESS" => Fresh(ranges, allocs, x.table),
         NEW next \in SafePhase, Use(x, ranges, next),
         next \in {"relocate_page_tables2", "handoff"} => Len(relocs) + 4 <= MaxRelocs
  PROVE  /\ Holds(pc', firmware, load, mmap, allocs', relocs, safe')
         /\ firmware' = firmware /\ load' = load /\ mmap' = mmap
<1>. PICK m, l, big, t, objs, rs :
       /\ m = firmware /\ l = load /\ big = mmap /\ t = allocs /\ objs = relocs
       /\ rs = safe
  OBVIOUS
<1>1. Anyhow(m, l, big, t, objs, rs) /\ OnTheWay(pc, m, big, t, objs, rs)
  BY DEF IInv, Holds, SafePhase
<1>. DEFINE types == {"k", "m", "s", "t"}
<1>2. PlacedTypes(pc) = types /\ PlacedTypes(next) = types
  BY DEF PlacedTypes, SafePhase
<1>3. /\ Guarded(t) /\ MergedMap(big, m) /\ Addr \ TableBytes(t) \subseteq Ram(big)
      /\ objs # << >> /\ PlacedApart(objs, types, t) /\ AllHeld(objs, t, rs, m)
      /\ SafeRanges(rs, objs, m) /\ Objects(objs, l, m)
  BY <1>1, <1>2 DEF Anyhow, OnTheWay, Registered, SafePhase
<1>4. Vacant(objs, t, rs, m)
  <2>1. Addr \ TableBytes(t) \subseteq Ram(m)
    BY <1>3, MergedRam
  <2>2. ASSUME NEW n \in DOMAIN objs PROVE Bytes(Dest(objs[n])) \subseteq TableBytes(t)
    <3>1. objs[n] \in Obj
      BY <1>3 DEF Objects
    <3>2. objs[n].type \in types
      BY <3>1, ObjParts
    <3>. QED
      BY <1>3, <3>2 DEF PlacedApart
  <2>. QED
    BY <1>3, <2>1, <2>2 DEF Vacant
<1>. HIDE DEF types
<1>5. /\ firmware' = m /\ load' = l /\ mmap' = big
      /\ allocs' = x.table /\ GoOn(x.status, next)
      /\ safe' = IF x.status = "SUCCESS" THEN rs \o ranges ELSE rs
  BY DEF Use, Keep
<1>6. /\ Guarded(x.table) /\ Tidy(x.table) /\ TableBytes(t) \subseteq TableBytes(x.table)
      /\ x.status # "HANG"
  BY <1>3, GuardedGrows DEF Adds
<1>7. pc' = IF x.status = "SUCCESS" THEN next ELSE "panic"
  BY <1>5, <1>6, Going
<1>8. CASE x.status # "SUCCESS"
  <2>1. Anyhow(m, l, big, x.table, objs, rs)
    BY <1>1, <1>6 DEF Anyhow
  <2>. QED
    BY <1>5, <1>7, <1>8, <2>1, Ending
<1>9. CASE x.status = "SUCCESS"
  <2>. PICK new : new = rs \o ranges
    OBVIOUS
  <2>1. SafeRanges(new, objs, m) /\ AllHeld(objs, x.table, new, m)
    BY <1>4, <1>9, MoreSafe
  <2>2. Anyhow(m, l, big, x.table, objs, new)
    BY <1>1, <1>6, <2>1 DEF Anyhow
  <2>3. Registered(objs, next)
    BY <1>3 DEF Registered, SafePhase
  <2>4. PlacedApart(objs, types, x.table)
    BY <1>3, <1>6 DEF PlacedApart
  <2>5. Addr \ TableBytes(x.table) \subseteq Ram(big)
    BY <1>3, <1>6
  <2>6. OnTheWay(next, m, big, x.table, objs, new)
    BY <1>2, <1>3, <1>6, <2>1, <2>3, <2>4, <2>5 DEF OnTheWay
  <2>7. Holds(next, m, l, big, x.table, objs, new)
    BY <2>2, <2>6 DEF Holds, SafePhase, Steps
  <2>. QED
    BY <1>5, <1>7, <1>9, <2>7
<1>. QED
  BY <1>8, <1>9

\* One allocation.
LEMMA TakeStep ==
  ASSUME Machine, IInv, pc \in SafePhase \ {"handoff"},
         NEW size \in Addr \ {0}, NEW align \in 1 .. AddrLimit - 1,
         NEW next \in SafePhase, Take(size, align, next),
         next \in {"relocate_page_tables2", "handoff"} => Len(relocs) + 4 <= MaxRelocs
  PROVE  /\ Holds(pc', firmware, load, mmap, allocs', relocs, safe')
         /\ firmware' = firmware /\ load' = load /\ mmap' = mmap
         /\ pc' \in {next, "panic"}
         /\ pc' # "panic" => \E r \in AddrRange :
              /\ safe' = safe \o <<r>> /\ r.len = size /\ Top(r) < AddrLimit
              /\ Bytes(r) \subseteq TableBytes(allocs')
<1>1. Guarded(allocs)
  BY DEF IInv, Holds, OnTheWay, SafePhase
<1>. PICK x : x = alloc(allocs, 0, size, align, "ANY")
  OBVIOUS
<1>. PICK r : r = Request(x.addr, size)
  OBVIOUS
<1>2. Use(x, <<r>>, next)
  BY DEF Take, UseAlone
<1>3. ~Covered(x) /\ allocs' = x.table /\ GoOn(x.status, next)
      /\ safe' = IF x.status = "SUCCESS" THEN safe \o <<r>> ELSE safe
  BY <1>2 DEF Use, Keep
<1>4. Gives(x, allocs, size) \/ Refuses(x, allocs)
  BY <1>1, <1>3, AllocatingAny DEF Answers
<1>5. Adds(x, allocs)
  BY <1>1, <1>4, GuardedGrows
<1>6. CASE x.status = "SUCCESS"
  <2>1. Gives(x, allocs, size)
    BY <1>4, <1>6 DEF Refuses
  <2>2. /\ r \in AddrRange /\ r.len = size /\ Top(r) < AddrLimit
        /\ Bytes(r) \cap TableBytes(allocs) = {}
        /\ Bytes(r) \subseteq TableBytes(x.table)
        /\ TableBytes(allocs) \subseteq TableBytes(x.table)
    BY <2>1 DEF Gives, Takes, Request, AddrRange, Top
  <2>3. size > 0
    BY AddressSpace DEF Addr
  <2>4. Fresh(<<r>>, allocs, x.table)
    <3>1. Listed(<<r>>, 1) /\ Len(<<r>>) = 1 /\ <<r>>[1] = r
      BY DEF Listed
    <3>2. \A i \in 1 .. Len(<<r>>) : <<r>>[i] = r /\ i = 1
      BY <3>1
    <3>. QED
      BY <2>2, <2>3, <3>1, <3>2, Zenon DEF Fresh
  <2>5. /\ Holds(pc', firmware, load, mmap, allocs', relocs, safe')
        /\ firmware' = firmware /\ load' = load /\ mmap' = mmap
    BY <1>2, <1>5, <2>4, UseStep
  <2>6. pc' = next
    BY <1>3, <1>6, Going
  <2>. QED
    BY <1>3, <1>6, <2>2, <2>5, <2>6
<1>7. CASE x.status # "SUCCESS"
  <2>1. /\ Holds(pc', firmware, load, mmap, allocs', relocs, safe')
        /\ firmware' = firmware /\ load' = load /\ mmap' = mmap
    BY <1>2, <1>5, <1>7, UseStep
  <2>2. pc' = "panic"
    BY <1>3, <1>5, <1>7, Going DEF Adds
  <2>. QED
    BY <2>1, <2>2
<1>. QED
  BY <1>6, <1>7

LEMMA RuntimeStep ==
  ASSUME Machine, IInv, relocate_runtime_services
  PROVE  IInv'
<1>1. pc = "relocate_runtime_services" /\ relocs' = relocs
  BY DEF relocate_runtime_services
<1>2. "relocate_runtime_services" \in SafePhase \ {"handoff"} /\ "reloc_resolve" \in SafePhase
      /\ "reloc_resolve" \notin {"relocate_page_tables2", "handoff"}
  BY DEF SafePhase
<1>3. CASE load.runtime_services
  <2>1. VmapSize \in Addr \ {0} /\ AlignPtr \in 1 .. AddrLimit - 1
    BY Trampoline DEF Alignment
  <2>2. Take(VmapSize, AlignPtr, "reloc_resolve")
    BY <1>3 DEF relocate_runtime_services
  <2>3. /\ Holds(pc', firmware, load, mmap, allocs', relocs, safe')
        /\ firmware' = firmware /\ load' = load /\ mmap' = mmap
    BY <1>1, <1>2, <2>1, <2>2, TakeStep
  <2>. QED
    BY <1>1, <2>3 DEF IInv
<1>4. CASE ~load.runtime_services
  <2>1. /\ pc' = "reloc_resolve" /\ firmware' = firmware /\ load' = load /\ mmap' = mmap
        /\ allocs' = allocs /\ safe' = safe
    BY <1>4 DEF relocate_runtime_services
  <2>2. Anyhow(firmware, load, mmap, allocs, relocs, safe)
        /\ OnTheWay("relocate_runtime_services", firmware, mmap, allocs, relocs, safe)
    BY <1>1 DEF IInv, Holds
  <2>3. OnTheWay("reloc_resolve", firmware, mmap, allocs, relocs, safe)
    BY <2>2 DEF OnTheWay, Registered, PlacedTypes, SafePhase
  <2>4. Holds("reloc_resolve", firmware, load, mmap, allocs, relocs, safe)
    BY <2>2, <2>3 DEF Holds, Steps
  <2>. QED
    BY <1>1, <2>1, <2>4 DEF IInv
<1>. QED
  BY <1>3, <1>4

LEMMA PageTablesStep ==
  ASSUME Machine, IInv, relocate_page_tables2
  PROVE  IInv'
<1>1. pc = "relocate_page_tables2" /\ relocs' = relocs /\ Take(TablesSize, PageSize, "handoff")
  BY DEF relocate_page_tables2
<1>2. "relocate_page_tables2" \in SafePhase \ {"handoff"} /\ "handoff" \in SafePhase
  BY DEF SafePhase
<1>3. TablesSize \in Addr \ {0} /\ PageSize \in 1 .. AddrLimit - 1
  BY Trampoline, AddressSpace
<1>4. Len(relocs) + 4 <= MaxRelocs
  BY <1>1 DEF IInv, Holds, OnTheWay, Registered
<1>5. /\ Holds(pc', firmware, load, mmap, allocs', relocs, safe')
      /\ firmware' = firmware /\ load' = load /\ mmap' = mmap
  BY <1>1, <1>2, <1>3, <1>4, TakeStep
<1>. QED
  BY <1>1, <1>5 DEF IInv

\* An object whose source is from now on in safe memory.
LEMMA Moved ==
  ASSUME NEW m, NEW l, NEW big, NEW t, NEW objs, NEW rs,
         Holds("reloc_resolve", m, l, big, t, objs, rs),
         NEW n \in DOMAIN objs, NEW r \in AddrRange,
         r.len = objs[n].size, Top(r) < AddrLimit, Bytes(r) \subseteq TableBytes(t),
         NEW new, new = [objs EXCEPT ![n].src = r.base]
  PROVE  Holds("reloc_resolve", m, l, big, t, new, rs)
<1>1. Anyhow(m, l, big, t, objs, rs) /\ OnTheWay("reloc_resolve", m, big, t, objs, rs)
  BY DEF Holds
<1>. DEFINE types == {"k", "m", "s", "t"}
<1>2. PlacedTypes("reloc_resolve") = types /\ "reloc_resolve" \in SafePhase
  BY DEF PlacedTypes, SafePhase
<1>3. /\ objs # << >> /\ PlacedApart(objs, types, t) /\ AllHeld(objs, t, rs, m)
      /\ SafeRanges(rs, objs, m) /\ Objects(objs, l, m)
  BY <1>1, <1>2 DEF Anyhow, OnTheWay, Registered
<1>. HIDE DEF types
<1>4. objs \in Seq(Obj) /\ Len(objs) \in Nat /\ DOMAIN objs = 1 .. Len(objs)
      /\ \A q \in DOMAIN objs : objs[q] \in Obj
  <2>1. objs \in Seq(Obj)
    BY <1>3 DEF Objects
  <2>. QED
    BY <2>1
<1>5. r.base \in Addr /\ r = Request(r.base, r.len)
  BY DEF AddrRange, Request
<1>6. /\ DOMAIN new = DOMAIN objs /\ new[n] = [objs[n] EXCEPT !.src = r.base]
      /\ \A q \in DOMAIN objs \ {n} : new[q] = objs[q]
  OBVIOUS
<1>7. /\ new[n].type = objs[n].type /\ new[n].size = objs[n].size
      /\ new[n].dest = objs[n].dest /\ new[n].align = objs[n].align
      /\ new[n].src = r.base /\ new[n] \in Obj
  <2>. PICK o, y : o = objs[n] /\ y = new[n]
    OBVIOUS
  <2>1. y = [o EXCEPT !.src = r.base] /\ o \in Obj
    BY <1>4, <1>6
  <2>. QED
    BY <1>5, <2>1 DEF Obj
<1>8. \A q \in DOMAIN objs :
        /\ new[q] \in Obj /\ new[q].type = objs[q].type /\ new[q].size = objs[q].size
        /\ new[q].dest = objs[q].dest /\ new[q].align = objs[q].align
  BY <1>4, <1>6, <1>7
<1>9. \A q \in DOMAIN objs : Dest(new[q]) = Dest(objs[q])
  BY <1>8 DEF Dest
<1>10. new \in Seq(Obj) /\ Len(new) = Len(objs)
  <2>1. Listed(new, Len(objs))
    <3>1. new = [q \in DOMAIN objs |-> new[q]]
      OBVIOUS
    <3>2. Len(new) = Len(objs)
      BY <1>4, <1>6
    <3>. QED
      BY <1>4, <1>6, <3>1, <3>2 DEF Listed
  <2>2. \A q \in 1 .. Len(objs) : new[q] \in Obj
    BY <1>4, <1>8
  <2>3. new \in Seq(Obj)
    BY <2>1, <2>2, SeqOf, Zenon
  <2>. QED
    BY <2>1, <2>3, Zenon DEF Listed
<1>11. ASSUME NEW q \in DOMAIN objs
       PROVE  Origin(new[q], l) /\ (new[q].dest # 0 => Settled(new[q], m))
  <2>1. Origin(objs[q], l) /\ (objs[q].dest # 0 => Settled(objs[q], m))
    BY <1>3 DEF Objects
  <2>2. new[q].src + new[q].size < AddrLimit
    <3>1. CASE q = n
      BY <1>7, <3>1 DEF Top
    <3>2. CASE q # n
      BY <1>6, <2>1, <3>2 DEF Origin
    <3>. QED
      BY <3>1, <3>2
  <2>3. Origin(new[q], l)
    BY <1>8, <2>1, <2>2 DEF Origin
  <2>4. new[q].dest # 0 => Settled(new[q], m)
    BY <1>8, <1>9, <2>1 DEF Settled
  <2>. QED
    BY <2>3, <2>4
<1>12. Objects(new, l, m)
  BY <1>3, <1>6, <1>10, <1>11 DEF Objects
<1>13. PlacedApart(new, types, t)
  BY <1>3, <1>6, <1>8, <1>9 DEF PlacedApart
<1>14. SafeRanges(rs, new, m)
  BY <1>3, <1>6, <1>9 DEF SafeRanges
<1>15. AllHeld(new, t, rs, m)
  <2>1. ASSUME NEW q \in DOMAIN objs, new[q].src # Null
        PROVE  Bytes(Source(new[q])) \subseteq TableBytes(t)
    <3>1. CASE q = n
      <4>1. Source(new[q]) = r
        BY <1>5, <1>7, <3>1 DEF Source
      <4>. QED
        BY <4>1
    <3>2. CASE q # n
      BY <1>3, <1>6, <2>1, <3>2 DEF AllHeld
    <3>. QED
      BY <3>1, <3>2
  <2>. QED
    BY <1>3, <1>6, <2>1 DEF AllHeld
<1>16. Registered(new, "reloc_resolve")
  <2>1. new # << >>
    BY <1>3, <1>4, <1>6
  <2>. QED
    BY <2>1 DEF Registered
<1>17. Anyhow(m, l, big, t, new, rs)
  BY <1>1, <1>12, <1>14 DEF Anyhow
<1>18. OnTheWay("reloc_resolve", m, big, t, new, rs)
  BY <1>1, <1>2, <1>13, <1>15, <1>16 DEF OnTheWay
<1>. QED
  BY <1>17, <1>18 DEF Holds, Steps

LEMMA MoveStep ==
  ASSUME Machine, IInv, NEW n \in DOMAIN relocs, Move(n)
  PROVE  IInv'
<1>1. /\ pc = "reloc_resolve" /\ Take(relocs[n].size, 1, "reloc_resolve")
      /\ relocs' = IF pc' = "reloc_resolve"
                     THEN [relocs EXCEPT ![n].src = safe'[Len(safe')].base] ELSE relocs
  BY DEF Move
<1>2. "reloc_resolve" \in SafePhase \ {"handoff"}
      /\ "reloc_resolve" \notin {"relocate_page_tables2", "handoff"}
  BY DEF SafePhase
<1>. PICK size : size = relocs[n].size
  OBVIOUS
<1>3. size \in Addr \ {0} /\ 1 \in 1 .. AddrLimit - 1
  <2>1. relocs \in Seq(Obj)
    BY DEF IInv, Holds, Anyhow, Objects
  <2>2. relocs[n] \in Obj
    BY <2>1
  <2>. QED
    BY <2>2, AddressSpace DEF Obj
<1>4. /\ Holds(pc', firmware, load, mmap, allocs', relocs, safe')
      /\ firmware' = firmware /\ load' = load /\ mmap' = mmap
      /\ pc' \in {"reloc_resolve", "panic"}
      /\ pc' # "panic" => \E r \in AddrRange :
           /\ safe' = safe \o <<r>> /\ r.len = size /\ Top(r) < AddrLimit
           /\ Bytes(r) \subseteq TableBytes(allocs')
  BY <1>1, <1>2, <1>3, TakeStep
<1>5. CASE pc' = "panic"
  BY <1>1, <1>4, <1>5 DEF IInv
<1>6. CASE pc' = "reloc_resolve"
  <2>1. PICK r \in AddrRange :
          /\ safe' = safe \o <<r>> /\ r.len = size /\ Top(r) < AddrLimit
          /\ Bytes(r) \subseteq TableBytes(allocs')
    BY <1>4, <1>6
  <2>2. safe'[Len(safe')] = r
    <3>. PICK rs : rs = safe
      OBVIOUS
    <3>1. rs \in Seq(AddrRange)
      BY DEF IInv, Holds, Anyhow, SafeRanges
    <3>2. Len(rs) \in Nat /\ rs \o <<r>> = Append(rs, r)
      BY <3>1
    <3>3. Len(Append(rs, r)) = Len(rs) + 1 /\ Append(rs, r)[Len(rs) + 1] = r
      BY <3>1
    <3>. QED
      BY <2>1, <3>2, <3>3
  <2>3. relocs' = [relocs EXCEPT ![n].src = r.base]
    BY <1>1, <1>6, <2>2
  <2>. PICK s, rs : s = allocs' /\ rs = safe'
    OBVIOUS
  <2>4. Holds("reloc_resolve", firmware, load, mmap, s, relocs, rs)
    BY <1>4, <1>6
  <2>5. r.len = relocs[n].size /\ Top(r) < AddrLimit /\ Bytes(r) \subseteq TableBytes(s)
    BY <2>1
  <2>6. Holds("reloc_resolve", firmware, load, mmap, s, relocs', rs)
    BY <2>3, <2>4, <2>5, Moved
  <2>. QED
    BY <1>4, <1>6, <2>6 DEF IInv
<1>. QED
  BY <1>4, <1>5, <1>6

\* Neither of the two sanity checks ever finds anything.
LEMMA Checked ==
  ASSUME IInv, pc = "reloc_resolve"
  PROVE  reloc_sanity_check
<1>. DEFINE types == {"k", "m", "s", "t"}
<1>1. /\ Guarded(allocs) /\ relocs # << >> /\ PlacedApart(relocs, types, allocs)
      /\ Objects(relocs, load, firmware)
  <2>1. PlacedTypes("reloc_resolve") = types
    BY DEF PlacedTypes
  <2>. QED
    BY <2>1 DEF IInv, Holds, Anyhow, OnTheWay, Registered
<1>2. alloc_sanity_check(allocs)
  <2>1. allocs # << >> /\ GoodTable(allocs)
    BY <1>1, GuardedGrows
  <2>. QED
    BY <2>1, SanityHolds
<1>3. ASSUME NEW n \in DOMAIN relocs
      PROVE  LET o == relocs[n]
             IN  /\ o.size > 0
                 /\ o.type = "k" => o.align = 1
                 /\ X86 /\ o.type = "k" => o.dest # 0
                 /\ Wrap(o.dest + o.size) > o.dest
                 /\ Wrap(o.src + o.size) > o.src
  <2>. PICK o : o = relocs[n]
    OBVIOUS
  <2>1. relocs \in Seq(Obj) /\ Origin(o, load) /\ (o.dest # 0 => Settled(o, firmware))
    BY <1>1 DEF Objects
  <2>2. o \in Obj
    BY <2>1
  <2>3. o.dest # 0
    <3>1. o.type \in types
      BY <2>2, ObjParts
    <3>. QED
      BY <1>1, <3>1 DEF PlacedApart
  <2>. PICK a, b, z : a = o.dest /\ b = o.src /\ z = o.size
    OBVIOUS
  <2>4. a \in Nat /\ b \in Nat /\ z \in Nat \ {0} /\ a + z < AddrLimit /\ b + z < AddrLimit
    BY <2>1, <2>2, <2>3, ObjParts DEF Origin, Settled
  <2>5. Wrap(a + z) = a + z /\ Wrap(b + z) = b + z
    <3>1. a + z \in 0 .. AddrLimit - 1 /\ b + z \in 0 .. AddrLimit - 1
      BY <2>4, AddressSpace
    <3>. QED
      BY <3>1, WrapSmall
  <2>6. z > 0 /\ a + z > a /\ b + z > b
    BY <2>4
  <2>7. o.type = "k" => o.align = 1
    BY <2>1 DEF Origin
  <2>. QED
    BY <2>3, <2>5, <2>6, <2>7
<1>. QED
  BY <1>1, <1>2, <1>3 DEF reloc_sanity_check

LEMMA ResolvedStep ==
  ASSUME Machine, IInv, Resolved
  PROVE  IInv'
<1>1. pc = "reloc_resolve"
  BY DEF Resolved
<1>2. /\ pc' = "install_trampoline" /\ firmware' = firmware /\ load' = load /\ mmap' = mmap
      /\ allocs' = allocs /\ safe' = safe /\ relocs' = relocs
  BY <1>1, Checked DEF Resolved
<1>3. Anyhow(firmware, load, mmap, allocs, relocs, safe)
      /\ OnTheWay("reloc_resolve", firmware, mmap, allocs, relocs, safe)
  BY <1>1 DEF IInv, Holds
<1>4. OnTheWay("install_trampoline", firmware, mmap, allocs, relocs, safe)
  BY <1>3 DEF OnTheWay, Registered, PlacedTypes, SafePhase
<1>5. Holds("install_trampoline", firmware, load, mmap, allocs, relocs, safe)
  BY <1>3, <1>4 DEF Holds, Steps
<1>. QED
  BY <1>2, <1>5 DEF IInv

-----------------------------------------------------------------------------
(* install_trampoline, and one step of the program.                         *)

\* The trampoline's data and its code, as objects.
Installing(objs) ==
  /\ objs = <<Object("t", Null, DataSize, 0, AlignPtr),
              Object("t", Null, CodeSize, 0, AlignFunc)>>
  /\ objs \in Seq(Obj) /\ Len(objs) = 2 /\ DOMAIN objs = 1 .. 2
  /\ Group(objs, "t") = 1 .. 2

LEMMA TrampolineObjects ==
  ASSUME NEW objs,
         objs = <<Object("t", Null, DataSize, 0, AlignPtr),
                  Object("t", Null, CodeSize, 0, AlignFunc)>>
  PROVE  Installing(objs) /\ Layable(objs, "t")
<1>1. /\ DataSize \in Addr \ {0} /\ CodeSize \in Addr \ {0}
      /\ AlignPtr \in 1 .. AddrLimit - 1 /\ AlignFunc \in 1 .. AddrLimit - 1
      /\ Alignment(AlignPtr) /\ Alignment(AlignFunc)
      /\ Small(DataSize, AlignPtr) /\ Small(CodeSize, AlignFunc)
      /\ Nesting({AlignPtr, AlignFunc}) /\ MaxRelocs \in Nat /\ MaxRelocs >= 4
  BY Trampoline DEF Alignment
<1>2. 0 \in Addr /\ AlignPtr \in Addr \ {0} /\ AlignFunc \in Addr \ {0}
  BY <1>1, AddressSpace DEF Addr
<1>. PICK p, q : /\ p = Object("t", Null, DataSize, 0, AlignPtr)
                 /\ q = Object("t", Null, CodeSize, 0, AlignFunc)
  OBVIOUS
<1>3. /\ p \in Obj /\ p.type = "t" /\ p.size = DataSize /\ p.align = AlignPtr
      /\ q \in Obj /\ q.type = "t" /\ q.size = CodeSize /\ q.align = AlignFunc
  BY <1>1, <1>2 DEF Object, Obj, Null
<1>4. /\ objs = <<p, q>> /\ objs \in Seq(Obj) /\ Len(objs) = 2 /\ DOMAIN objs = 1 .. 2
      /\ objs[1] = p /\ objs[2] = q
  BY <1>3
<1>5. Group(objs, "t") = 1 .. 2
  <2>1. \A n \in 1 .. 2 : n = 1 \/ n = 2
    OBVIOUS
  <2>. QED
    BY <1>3, <1>4, <2>1 DEF Group
<1>6. \A n \in Group(objs, "t") : objs[n] = p \/ objs[n] = q
  <2>1. \A n \in 1 .. 2 : n = 1 \/ n = 2
    OBVIOUS
  <2>. QED
    BY <1>4, <1>5, <2>1
<1>7. {objs[n].align : n \in Group(objs, "t")} \subseteq {AlignPtr, AlignFunc}
  BY <1>3, <1>6
<1>8. Nesting({objs[n].align : n \in Group(objs, "t")})
  BY <1>1, <1>7 DEF Nesting
<1>9. Layable(objs, "t")
  <2>1. 2 <= MaxRelocs - 2
    BY <1>1
  <2>. QED
    BY <1>1, <1>3, <1>4, <1>6, <1>8, <2>1 DEF Layable
<1>. QED
  BY <1>4, <1>5, <1>9 DEF Installing

\* Where they are put is fresh memory.
LEMMA TrampolineFresh ==
  ASSUME NEW objs, Installing(objs), NEW t, NEW x, Lays(x, t, objs, Group(objs, "t")),
         x.status = "SUCCESS", NEW ranges,
         ranges = [n \in DOMAIN x.objs |-> Dest(x.objs[n])]
  PROVE  Fresh(ranges, t, x.table)
<1>1. /\ Group(objs, "t") = 1 .. 2 /\ Len(objs) = 2 /\ objs \in Seq(Obj)
      /\ \A n \in 1 .. 2 : objs[n] \in Obj
  BY DEF Installing
<1>2. /\ x.objs \in Seq(Obj) /\ Len(x.objs) = 2 /\ DOMAIN x.objs = 1 .. 2
      /\ \A n \in 1 .. 2 :
           /\ x.objs[n] = [objs[n] EXCEPT !.dest = x.objs[n].dest]
           /\ x.objs[n].dest + objs[n].size < AddrLimit
           /\ Bytes(Dest(x.objs[n])) \cap TableBytes(t) = {}
           /\ Bytes(Dest(x.objs[n])) \subseteq TableBytes(x.table)
      /\ \A n, q \in 1 .. 2 : n # q =>
           Bytes(Dest(x.objs[n])) \cap Bytes(Dest(x.objs[q])) = {}
  <2>1. Relaid(x.objs, objs, 1 .. 2) /\ Spread(x.objs, 1 .. 2)
    BY <1>1 DEF Lays
  <2>2. x.objs \in Seq(Obj) /\ Len(x.objs) = 2
    BY <1>1, <2>1 DEF Relaid
  <2>3. DOMAIN x.objs = 1 .. 2
    BY <2>2
  <2>. QED
    BY <1>1, <2>1, <2>2, <2>3 DEF Lays, Relaid, Spread
<1>3. /\ DOMAIN ranges = 1 .. 2 /\ Len(ranges) = 2 /\ ranges = [n \in 1 .. 2 |-> ranges[n]]
      /\ \A n \in 1 .. 2 : ranges[n] = Dest(x.objs[n])
  BY <1>2
<1>4. ASSUME NEW n \in 1 .. 2
      PROVE  ranges[n] \in AddrRange /\ ranges[n].len > 0 /\ Top(ranges[n]) < AddrLimit
  <2>1. /\ objs[n] \in Obj /\ x.objs[n] \in Obj
        /\ x.objs[n] = [objs[n] EXCEPT !.dest = x.objs[n].dest]
        /\ x.objs[n].dest + objs[n].size < AddrLimit
    BY <1>1, <1>2, SMTT(30)
  <2>2. x.objs[n].size = objs[n].size
    BY <2>1 DEF Obj
  <2>3. x.objs[n].dest \in Addr /\ x.objs[n].size \in Addr \ {0}
    BY <2>1 DEF Obj
  <2>4. x.objs[n].size > 0
    BY <2>3, AddressSpace DEF Addr
  <2>. QED
    BY <1>3, <2>1, <2>2, <2>3, <2>4 DEF Dest, Request, AddrRange, Top
<1>5. TableBytes(t) \subseteq TableBytes(x.table)
  BY DEF Lays, Adds
<1>6. Listed(ranges, 2)
  BY <1>3 DEF Listed
<1>. QED
  BY <1>2, <1>3, <1>4, <1>5, <1>6 DEF Fresh

LEMMA InstallStep ==
  ASSUME Machine, IInv, install_trampoline
  PROVE  IInv'
<1>1. pc = "install_trampoline" /\ relocs' = relocs
  BY DEF install_trampoline
<1>2. "install_trampoline" \in SafePhase \ {"handoff"}
      /\ "relocate_page_tables2" \in SafePhase
  BY DEF SafePhase
<1>3. Guarded(allocs) /\ Anyhow(firmware, load, mmap, allocs, relocs, safe)
  BY <1>1 DEF IInv, Holds, OnTheWay
<1>4. CASE ~RoomFor(Len(relocs) + 1, 2)
  <2>1. /\ pc' = "panic" /\ firmware' = firmware /\ load' = load /\ mmap' = mmap
        /\ allocs' = allocs /\ safe' = safe
    BY <1>4 DEF install_trampoline
  <2>2. Holds("panic", firmware, load, mmap, allocs, relocs, safe)
    BY <1>3, Ending
  <2>. QED
    BY <1>1, <2>1, <2>2 DEF IInv
<1>5. CASE RoomFor(Len(relocs) + 1, 2)
  <2>1. PICK objs : objs = <<Object("t", Null, DataSize, 0, AlignPtr),
                             Object("t", Null, CodeSize, 0, AlignFunc)>>
    OBVIOUS
  <2>2. PICK x : x = set_runtime_addr(allocs, objs, "t", 0, "ANY")
    OBVIOUS
  <2>3. PICK ranges : ranges = [n \in DOMAIN x.objs |-> Dest(x.objs[n])]
    OBVIOUS
  <2>4. Use(x, ranges, "relocate_page_tables2")
    BY <1>5, <2>1, <2>2, <2>3 DEF install_trampoline
  <2>5. Installing(objs) /\ Layable(objs, "t")
    BY <2>1, TrampolineObjects
  <2>6. ~Covered(x)
    BY <2>4 DEF Use, Keep
  <2>7. Lays(x, allocs, objs, Group(objs, "t"))
    <3>1. 0 \in Addr
      BY AddressSpace DEF Addr
    <3>. QED
      BY <1>3, <2>2, <2>5, <2>6, <3>1, SettingAddresses
  <2>8. Adds(x, allocs)
    BY <2>7 DEF Lays
  <2>9. x.status = "SUCCESS" => Fresh(ranges, allocs, x.table)
    BY <2>3, <2>5, <2>7, TrampolineFresh
  <2>10. Len(relocs) + 4 <= MaxRelocs
    <3>1. relocs \in Seq(Obj)
      BY <1>3 DEF Anyhow, Objects
    <3>2. Len(relocs) \in Nat
      BY <3>1
    <3>. QED
      BY <1>5, <3>2, Trampoline DEF RoomFor
  <2>11. /\ Holds(pc', firmware, load, mmap, allocs', relocs, safe')
         /\ firmware' = firmware /\ load' = load /\ mmap' = mmap
    BY <1>1, <1>2, <2>4, <2>8, <2>9, <2>10, UseStep
  <2>. QED
    BY <1>1, <2>11 DEF IInv
<1>. QED
  BY <1>4, <1>5

\* Every step of the program keeps it.
LEMMA Stepping ==
  ASSUME Machine, IInv, [Next]_vars
  PROVE  IInv'
<1>1. CASE firmware_shutdown
  BY <1>1, ShutdownStep
<1>2. CASE boot_register
  BY <1>2, RegisterStep
<1>3. CASE AddLow
  BY <1>3, AddLowStep
<1>4. CASE PlaceInfo
  BY <1>4, PlaceInfoStep
<1>5. CASE PlaceLow
  BY <1>5, PlaceLowStep
<1>6. CASE PlaceModules
  BY <1>6, PlaceModulesStep
<1>7. CASE blacklist_bootloader_mem
  BY <1>7, BlacklistStep
<1>8. CASE relocate_runtime_services
  BY <1>8, RuntimeStep
<1>9. CASE \E n \in DOMAIN relocs : Move(n)
  BY <1>9, MoveStep
<1>10. CASE Resolved
  BY <1>10, ResolvedStep
<1>11. CASE install_trampoline
  BY <1>11, InstallStep
<1>12. CASE relocate_page_tables2
  BY <1>12, PageTablesStep
<1>13. CASE UNCHANGED vars
  BY <1>13 DEF vars, IInv
<1>. QED
  BY <1>1, <1>2, <1>3, <1>4, <1>5, <1>6, <1>7, <1>8, <1>9, <1>10, <1>11, <1>12, <1>13
     DEF Next

\* On every machine the invariant always holds.
LEMMA Always ==
  ASSUME Machine
  PROVE  Spec => []IInv
<1>1. Init => IInv
  BY Starting
<1>2. IInv /\ [Next]_vars => IInv'
  BY Stepping
<1>. QED
  BY <1>1, <1>2, PTL DEF Spec

-----------------------------------------------------------------------------
(* What the invariant says of every state.                                  *)

LEMMA MapLies ==
  ASSUME NEW m, FirmwareMap(m)
  PROVE  \A i \in DOMAIN m : m[i] \in MapEntry /\ Lies(m[i])
<1>1. m \in Seq(MapEntry) /\ \A i \in DOMAIN m : Top(m[i]) <= AddrLimit - PageSize
  BY DEF FirmwareMap
<1>2. AddrLimit \in Nat /\ PageSize \in Nat \ {0}
  BY AddressSpace
<1>. SUFFICES ASSUME NEW i \in DOMAIN m PROVE m[i] \in MapEntry /\ Lies(m[i])
  OBVIOUS
<1>3. m[i] \in MapEntry
  BY <1>1
<1>4. Top(m[i]) \in Nat
  BY <1>3, AddressSpace DEF MapEntry, Addr, Top
<1>. QED
  BY <1>1, <1>2, <1>3, <1>4 DEF MapEntry, Lies

\* A range of the firmware's RAM is nothing else.
LEMMA RamIsRam ==
  ASSUME FirmwareMap(firmware), NEW r, Lies(r), Bytes(r) \subseteq Ram(firmware)
  PROVE  InRam(r) /\ r.base >= LowMegabyte
<1>1. /\ r.base \in Nat /\ r.len \in Nat \ {0} /\ r.base + r.len <= AddrLimit
      /\ r.base \in Addr /\ Addr = 0 .. AddrLimit - 1 /\ AddrLimit \in Nat
  BY AddressSpace DEF Lies, Addr, Top
<1>2. \A a \in r.base .. Top(r) - 1 : a \in Addr /\ a \in Bytes(r)
  BY <1>1 DEF Bytes, Top
<1>3. \A i \in DOMAIN firmware : firmware[i] \in MapEntry /\ Lies(firmware[i])
  BY MapLies
<1>4. ASSUME NEW a \in r.base .. Top(r) - 1
      PROVE  \E i \in DOMAIN firmware : firmware[i].base <= a /\ a < Top(firmware[i])
  <2>1. PICK i \in DOMAIN firmware : a \in Bytes(firmware[i])
    BY <1>2 DEF Ram
  <2>. QED
    BY <2>1 DEF Bytes, Top
<1>5. ASSUME NEW i \in DOMAIN firmware, firmware[i].type \notin Usable
      PROVE  ApartFrom(r, firmware[i])
  <2>1. ASSUME NEW a \in Bytes(r), a \in Bytes(firmware[i]) PROVE FALSE
    <3>1. PICK j \in DOMAIN firmware :
            firmware[j].type \in Usable /\ a \in Bytes(firmware[j])
      BY DEF Ram
    <3>2. ApartFrom(firmware[i], firmware[j])
      BY <1>5, <3>1 DEF FirmwareMap
    <3>. QED
      BY <1>3, <2>1, <3>1, <3>2, SharedByte
  <2>. QED
    BY <1>3, <2>1, Disjoint
<1>6. r.base \in Ram(firmware)
  <2>1. r.base \in r.base .. Top(r) - 1
    BY <1>1 DEF Top
  <2>. QED
    BY <1>2, <2>1
<1>7. r.base >= LowMegabyte
  BY <1>6 DEF Ram
<1>. QED
  BY <1>4, <1>5, <1>7 DEF InRam

\* The destination of an object, its source, and safe memory are ranges.
LEMMA PlacesLie ==
  ASSUME IInv
  PROVE  /\ \A n \in Placed : Lies(Dest(relocs[n]))
         /\ \A n \in DOMAIN relocs : relocs[n].src # Null => Lies(Source(relocs[n]))
         /\ \A i \in DOMAIN safe : Lies(safe[i])
<1>1. Objects(relocs, load, firmware) /\ SafeRanges(safe, relocs, firmware)
  BY DEF IInv, Holds, Anyhow
<1>2. ASSUME NEW n \in DOMAIN relocs
      PROVE  /\ relocs[n].dest # 0 => Lies(Dest(relocs[n]))
             /\ relocs[n].src # Null => Lies(Source(relocs[n]))
  <2>1. relocs \in Seq(Obj) /\ Origin(relocs[n], load)
        /\ (relocs[n].dest # 0 => Settled(relocs[n], firmware))
    BY <1>1 DEF Objects
  <2>2. relocs[n] \in Obj
    BY <2>1
  <2>. PICK a, b, z : a = relocs[n].dest /\ b = relocs[n].src /\ z = relocs[n].size
    OBVIOUS
  <2>3. /\ a \in Addr /\ b \in Addr /\ z \in Addr \ {0}
        /\ b + z < AddrLimit /\ (a # 0 => a + z < AddrLimit)
    BY <2>1, <2>2 DEF Obj, Origin, Settled
  <2>4. b + z <= AddrLimit /\ (a # 0 => a + z <= AddrLimit)
    BY <2>3, AddressSpace DEF Addr
  <2>. QED
    BY <2>3, <2>4 DEF Lies, Dest, Source, Request, Top
<1>3. ASSUME NEW i \in DOMAIN safe PROVE Lies(safe[i])
  <2>1. safe \in Seq(AddrRange) /\ safe[i].len > 0 /\ Top(safe[i]) < AddrLimit
    BY <1>1 DEF SafeRanges
  <2>2. safe[i] \in AddrRange
    BY <2>1
  <2>. QED
    BY <2>1, <2>2, AddressSpace DEF AddrRange, Addr, Top, Lies
<1>. QED
  BY <1>2, <1>3 DEF Placed

LEMMA TypesHold ==
  ASSUME IInv
  PROVE  TypeOK
<1>1. /\ pc \in Steps \cup {"handoff", "panic"} /\ mmap \in Seq(MapEntry)
      /\ Tidy(allocs) /\ safe \in Seq(AddrRange) /\ relocs \in Seq(Obj)
  BY DEF IInv, Holds, Anyhow, Objects, SafeRanges
<1>2. allocs \in Seq(AddrRange)
  BY <1>1 DEF Tidy, GoodTable
<1>3. \A i \in DOMAIN mmap :
        mmap[i].base \in Addr /\ mmap[i].len \in Addr /\ mmap[i].type \in Types
  <2>1. \A i \in DOMAIN mmap : mmap[i] \in MapEntry
    BY <1>1
  <2>. QED
    BY <2>1 DEF MapEntry
<1>4. ASSUME NEW n \in DOMAIN relocs
      PROVE  LET o == relocs[n]
             IN  /\ o.type \in {"k", "m", "s", "t"}
                 /\ {o.src, o.dest, o.size} \subseteq Addr
                 /\ o.size > 0 /\ o.align > 0
  <2>1. relocs[n] \in Obj
    BY <1>1
  <2>2. /\ relocs[n].type \in {"k", "m", "s", "t"} /\ relocs[n].src \in Addr
        /\ relocs[n].dest \in Addr /\ relocs[n].size \in Addr \ {0}
        /\ relocs[n].align \in Addr \ {0}
    BY <2>1 DEF Obj
  <2>3. relocs[n].size > 0 /\ relocs[n].align > 0
    BY <2>2, AddressSpace DEF Addr
  <2>. QED
    BY <2>2, <2>3
<1>. QED
  BY <1>1, <1>2, <1>3, <1>4 DEF TypeOK

LEMMA SafeDestinations ==
  ASSUME Machine, IInv
  PROVE  DestinationsSafe /\ DestinationsAligned
<1>1. FirmwareMap(firmware) /\ Objects(relocs, load, firmware)
  BY DEF Machine, IInv, Holds, Anyhow
<1>2. ASSUME NEW n \in Placed
      PROVE  /\ InRam(Dest(relocs[n])) /\ relocs[n].dest >= LowMegabyte
             /\ relocs[n].dest % relocs[n].align = 0
  <2>1. Settled(relocs[n], firmware)
    BY <1>1 DEF Objects, Placed
  <2>2. Lies(Dest(relocs[n]))
    BY PlacesLie
  <2>3. Dest(relocs[n]).base = relocs[n].dest
    BY DEF Dest, Request
  <2>4. relocs[n].dest % relocs[n].align = 0 /\ Bytes(Dest(relocs[n])) \subseteq Ram(firmware)
    BY <2>1 DEF Settled
  <2>. QED
    BY <1>1, <2>2, <2>3, <2>4, RamIsRam
<1>. QED
  BY <1>2 DEF DestinationsSafe, DestinationsAligned

LEMMA LayoutHandedOver ==
  ASSUME IInv
  PROVE  HandsOverLayout
<1>. SUFFICES ASSUME pc = "reloc_resolve"
              PROVE  /\ Placed = DOMAIN relocs
                     /\ \A p, q \in Placed :
                          p # q => ApartFrom(Dest(relocs[p]), Dest(relocs[q]))
                     /\ \A p \in Placed :
                          /\ InTable(Dest(relocs[p]))
                          /\ relocs[p].src # Null => InTable(Source(relocs[p]))
  BY DEF HandsOverLayout
<1>. DEFINE types == {"k", "m", "s", "t"}
<1>1. /\ Guarded(allocs) /\ PlacedApart(relocs, types, allocs)
      /\ AllHeld(relocs, allocs, safe, firmware) /\ relocs \in Seq(Obj)
  <2>1. PlacedTypes("reloc_resolve") = types /\ "reloc_resolve" \in SafePhase
    BY DEF PlacedTypes, SafePhase
  <2>. QED
    BY <2>1 DEF IInv, Holds, Anyhow, OnTheWay, Objects
<1>2. GoodTable(allocs) /\ DOMAIN allocs = 1 .. Len(allocs)
  BY <1>1 DEF Guarded, Tidy, GoodTable
<1>3. Placed = DOMAIN relocs
  <2>1. \A n \in DOMAIN relocs : relocs[n].type \in types
    <3>1. \A n \in DOMAIN relocs : relocs[n] \in Obj
      BY <1>1
    <3>. QED
      BY <3>1, ObjParts
  <2>. QED
    BY <1>1, <2>1 DEF Placed, PlacedApart
<1>4. ASSUME NEW p \in Placed, NEW q \in Placed, p # q
      PROVE  ApartFrom(Dest(relocs[p]), Dest(relocs[q]))
  <2>1. Bytes(Dest(relocs[p])) \cap Bytes(Dest(relocs[q])) = {}
    BY <1>1, <1>4 DEF Placed, PlacedApart
  <2>. QED
    BY <2>1, PlacesLie, Disjoint
<1>5. ASSUME NEW p \in Placed
      PROVE  /\ InTable(Dest(relocs[p]))
             /\ relocs[p].src # Null => InTable(Source(relocs[p]))
  <2>1. /\ Bytes(Dest(relocs[p])) \subseteq TableBytes(allocs)
        /\ relocs[p].src # Null => Bytes(Source(relocs[p])) \subseteq TableBytes(allocs)
    BY <1>1 DEF Placed, PlacedApart, AllHeld
  <2>2. Lies(Dest(relocs[p])) /\ (relocs[p].src # Null => Lies(Source(relocs[p])))
    BY PlacesLie DEF Placed
  <2>. QED
    BY <1>2, <2>1, <2>2, Contained DEF InTable
<1>. QED
  BY <1>3, <1>4, <1>5

LEMMA SafeIsSafe ==
  ASSUME Machine, IInv
  PROVE  SafeStaysSafe
<1>1. FirmwareMap(firmware) /\ SafeRanges(safe, relocs, firmware)
      /\ Objects(relocs, load, firmware)
  BY DEF Machine, IInv, Holds, Anyhow
<1>2. ASSUME NEW i \in DOMAIN safe PROVE InRam(safe[i])
  <2>1. Bytes(safe[i]) \subseteq Ram(firmware)
    BY <1>1 DEF SafeRanges
  <2>. QED
    BY <1>1, <2>1, PlacesLie, RamIsRam
<1>3. ASSUME NEW i \in DOMAIN safe, NEW k \in DOMAIN firmware,
             firmware[k].type = "bootloader"
      PROVE  ApartFrom(safe[i], firmware[k])
  <2>1. Lies(firmware[k])
    BY <1>1, MapLies
  <2>2. ASSUME NEW a \in Bytes(safe[i]), a \in Bytes(firmware[k]) PROVE FALSE
    <3>1. a \in Available(firmware)
      BY <1>1 DEF SafeRanges
    <3>2. PICK j \in DOMAIN firmware :
            firmware[j].type = "available" /\ a \in Bytes(firmware[j])
      BY <3>1 DEF Available
    <3>3. ApartFrom(firmware[k], firmware[j]) /\ Lies(firmware[j])
      BY <1>1, <1>3, <3>2, MapLies DEF FirmwareMap
    <3>. QED
      BY <2>1, <2>2, <3>2, <3>3, SharedByte
  <2>. QED
    BY <2>1, <2>2, PlacesLie, Disjoint
<1>4. ASSUME NEW i \in DOMAIN safe, NEW j \in DOMAIN safe, i # j
      PROVE  ApartFrom(safe[i], safe[j])
  <2>1. Bytes(safe[i]) \cap Bytes(safe[j]) = {}
    BY <1>1, <1>4 DEF SafeRanges
  <2>. QED
    BY <2>1, PlacesLie, Disjoint
<1>5. ASSUME NEW i \in DOMAIN safe, NEW n \in DOMAIN relocs
      PROVE  ApartFrom(safe[i], Dest(relocs[n]))
  <2>1. Bytes(safe[i]) \cap Bytes(Dest(relocs[n])) = {}
    BY <1>1 DEF SafeRanges
  <2>2. CASE relocs[n].dest # 0
    BY <2>1, <2>2, PlacesLie, Disjoint DEF Placed
  <2>3. CASE relocs[n].dest = 0
    <3>1. relocs \in Seq(Obj)
      BY <1>1 DEF Objects
    <3>2. relocs[n] \in Obj
      BY <3>1
    <3>3. relocs[n].size \in Addr \ {0} /\ relocs[n].dest \in Addr
      BY <3>2 DEF Obj
    <3>4. Lies(Dest(relocs[n]))
      BY <2>3, <3>3, AddressSpace DEF Lies, Dest, Request, Top, Addr
    <3>. QED
      BY <2>1, <3>4, PlacesLie, Disjoint
  <2>. QED
    BY <2>2, <2>3
<1>. QED
  BY <1>2, <1>3, <1>4, <1>5 DEF SafeStaysSafe

LEMMA TableFits ==
  ASSUME IInv
  PROVE  TableNotOverrun
<1>1. /\ Len(relocs) \in Nat /\ Len(relocs) <= MaxRelocs - 2 /\ MaxRelocs \in Nat
      /\ pc \in {"relocate_page_tables2", "handoff"} => Len(relocs) + 4 <= MaxRelocs
  <2>1. relocs \in Seq(Obj) /\ Len(relocs) <= MaxRelocs - 2
    BY DEF IInv, Holds, Anyhow, Objects
  <2>2. pc \in {"relocate_page_tables2", "handoff"} => Registered(relocs, pc)
    BY DEF IInv, Holds, OnTheWay
  <2>. QED
    BY <2>1, <2>2, Trampoline DEF Registered
<1>. QED
  BY <1>1 DEF TableNotOverrun, Slots

-----------------------------------------------------------------------------
(* The memory that can be allocated when the boot services are gone.        *)

\* What the shutdown of the boot services leaves: the table that a page of RAM
\* does not meet.
LEMMA NothingLost ==
  ASSUME Machine, IInv, firmware_shutdown
  PROVE  MemoryNotLost'
<1>1. /\ Anyhow(firmware, load, mmap, allocs, relocs, safe)
      /\ mmap = firmware /\ allocs = << >>
  BY DEF IInv, Holds, firmware_shutdown
<1>2. Loadable(load) /\ FirmwareMap(firmware)
  BY <1>1, WhatIsLoaded DEF Anyhow, Machine
<1>. PICK m : m = firmware
  OBVIOUS
<1>. PICK tables : tables = load.firmware_tables
  OBVIOUS
<1>. PICK x : x = system_blacklist_memory(<< >>, e820_mmap_merge(m), tables)
  OBVIOUS
<1>3. /\ ~Covered(x) /\ allocs' = x.table /\ GoOn(x.status, "boot_register")
      /\ firmware' = m /\ load' = load
  BY <1>1 DEF firmware_shutdown, Keep
<1>4. /\ tables \in Seq(AddrRange)
      /\ \A i \in DOMAIN tables : InMemory(tables[i]) /\ tables[i].len > 0
  BY <1>2 DEF Loadable
<1>. SUFFICES ASSUME pc' = "boot_register", RangesApart(m)
              PROVE  {p \in {a \in Addr : a % PageSize = 0} :
                        \A i \in DOMAIN x.table :
                          ApartFrom(Request(p, PageSize), x.table[i])}
                       = {p \in {a \in Addr : a % PageSize = 0} : RamPage(p, m, tables)}
  <2>1. Allocatable' = {p \in {a \in Addr : a % PageSize = 0} : RamPage(p, m, tables)}
    BY <1>3, Zenon DEF Allocatable, InRam, RamPage
  <2>. QED
    BY <1>3, <2>1, Zenon DEF MemoryNotLost
<1>5. x.status = "SUCCESS"
  BY <1>3 DEF GoOn
<1>6. \A p \in {a \in Addr : a % PageSize = 0} :
        (\A i \in DOMAIN x.table : ApartFrom(Request(p, PageSize), x.table[i]))
          <=> RamPage(p, m, tables)
  BY <1>2, <1>3, <1>4, <1>5, NoPageLost
<1>. QED
  BY <1>6

\* It is the only step after which the kernel's memory is to be allocated.
LEMMA OnlyOnShutdown ==
  ASSUME IInv, Next, ~firmware_shutdown
  PROVE  pc' # "boot_register"
<1>1. ASSUME NEW status, NEW next, next # "boot_register", GoOn(status, next)
      PROVE  pc' # "boot_register"
  BY <1>1 DEF GoOn
<1>2. ASSUME NEW result, NEW next, next # "boot_register", Keep(result, next)
      PROVE  pc' # "boot_register"
  BY <1>1, <1>2 DEF Keep
<1>3. ASSUME NEW size, NEW align, NEW next, next # "boot_register", Take(size, align, next)
      PROVE  pc' # "boot_register"
  BY <1>2, <1>3 DEF Take, UseAlone, Use
<1>4. CASE boot_register
  BY <1>2, <1>4 DEF boot_register, RegisterImage, Register
<1>5. CASE AddLow
  BY <1>1, <1>5 DEF AddLow
<1>6. CASE PlaceInfo \/ PlaceLow \/ PlaceModules
  <2>1. CASE PlaceInfo
    BY <1>2, <2>1 DEF PlaceInfo, Place, Settle
  <2>2. CASE PlaceLow
    BY <1>2, <2>2 DEF PlaceLow, Place, Settle
  <2>3. CASE PlaceModules
    BY <1>2, <2>3 DEF PlaceModules, Place, Settle
  <2>. QED
    BY <1>6, <2>1, <2>2, <2>3
<1>7. CASE blacklist_bootloader_mem
  BY <1>2, <1>7 DEF blacklist_bootloader_mem
<1>8. CASE relocate_runtime_services
  BY <1>3, <1>8 DEF relocate_runtime_services
<1>9. CASE \E n \in DOMAIN relocs : Move(n)
  BY <1>3, <1>9 DEF Move
<1>10. CASE Resolved
  BY <1>10 DEF Resolved
<1>11. CASE install_trampoline
  BY <1>2, <1>11 DEF install_trampoline, Use
<1>12. CASE relocate_page_tables2
  BY <1>3, <1>12 DEF relocate_page_tables2
<1>. QED
  BY <1>4, <1>5, <1>6, <1>7, <1>8, <1>9, <1>10, <1>11, <1>12 DEF Next

-----------------------------------------------------------------------------
(* Below 4GB, on x86.                                                       *)

\* The last page below 4GB, where an x86 finds its first instruction.
StartPage == Request(MaxAddr32 + 1 - PageSize, PageSize)

\* A kernel that begins below 4GB, when it has no choice, and system information
\* that is aligned to no more than a page.
LowLoad(l) ==
  /\ l.kernel_load_align = 0 => \E i \in DOMAIN l.segments : l.segments[i].paddr <= MaxAddr32
  /\ \E i \in DOMAIN l.objects : l.objects[i].type = "s" /\ l.objects[i].size > 0
  /\ \A i \in DOMAIN l.objects : l.objects[i].type = "s" => l.objects[i].align <= PageSize

\* A machine with its firmware's code where an x86 has it, and what it loads.
LowMachine ==
  /\ Machine
  /\ PageSize <= MaxAddr32 + 1 /\ AlignFunc <= PageSize
  /\ \A m \in Maps :
       /\ \A i \in DOMAIN m : m[i].type \in Usable => ApartFrom(m[i], StartPage)
       /\ \A l \in Loads(m) : LowLoad(l)

\* The kernel, the information for it, and the trampoline's region.
LowObjects(objs) ==
  \A n \in DOMAIN objs :
    objs[n].type \in {"k", "s", "t"} /\ objs[n].dest # 0 => Below4GB(Dest(objs[n]))

\* There is information for the kernel, and no region for the trampoline.
ToInform(objs) ==
  /\ \A n \in DOMAIN objs : objs[n].type # "t"
  /\ \E n \in DOMAIN objs : objs[n].type = "s"

\* In the sorted table that information is what the trampoline's region follows.
Arranged(p, objs) ==
  /\ p = "compute_relocations" => ToInform(objs)
  /\ p \in {"place_info", "place_low"} => objs[Len(objs) - 1].type = "s"

\* The N objects in the order of their types.
InTypeOrder(new, objs, N, order) ==
  /\ Len(new) = N /\ DOMAIN new = 1 .. N
  /\ \A n \in 1 .. N : order[n] \in 1 .. N /\ new[n] = objs[order[n]]
  /\ \A i \in 1 .. N : \E n \in 1 .. N : order[n] = i
  /\ \A p, q \in 1 .. N : p < q => Ordinal[new[p].type] <= Ordinal[new[q].type]
  /\ \A p, q \in 1 .. N : p # q => order[p] # order[q]

LEMMA Counted ==
  ASSUME NEW N \in Nat
  PROVE  IsFiniteSet(1 .. N) /\ Cardinality(1 .. N) = N
<1>1. 1 \in Int /\ N \in Int
  OBVIOUS
<1>2. IsFiniteSet(1 .. N) /\ Cardinality(1 .. N) = IF 1 > N THEN 0 ELSE N - 1 + 1
  BY <1>1, FS_Interval
<1>. QED
  BY <1>2

LEMMA TypeOrder ==
  ASSUME NEW objs, objs \in Seq(Obj), NEW new, new = ByType(objs)
  PROVE  \E order : InTypeOrder(new, objs, Len(objs), order)
<1>. DEFINE key == [n \in DOMAIN objs |-> Ordinal[objs[n].type]]
<1>. PICK N : N = Len(objs)
  OBVIOUS
<1>1. N \in Nat /\ DOMAIN objs = 1 .. N /\ \A n \in 1 .. N : objs[n] \in Obj
  OBVIOUS
<1>2. DOMAIN key = 1 .. N /\ \A n \in 1 .. N : key[n] = Ordinal[objs[n].type] /\ key[n] \in Nat
  <2>1. DOMAIN key = 1 .. N
    BY <1>1
  <2>2. ASSUME NEW n \in 1 .. N PROVE key[n] = Ordinal[objs[n].type] /\ key[n] \in Nat
    <3>1. objs[n].type \in {"k", "m", "s", "t"}
      BY <1>1 DEF Obj
    <3>2. key[n] = Ordinal[objs[n].type]
      BY <1>1
    <3>. QED
      BY <3>1, <3>2 DEF Ordinal
  <2>. QED
    BY <2>1, <2>2
<1>3. IsFiniteSet(1 .. N) /\ Cardinality(1 .. N) = N
  BY <1>1, Counted
<1>. PICK order : order = bubble_sort(key)
  OBVIOUS
<1>4. new = Entries(objs, order)
  BY DEF ByType
<1>. HIDE DEF key
<1>5. /\ order \in [1 .. N -> 1 .. N]
      /\ \A a, b \in 1 .. N : a < b => Before(key, order[a], order[b]) /\ order[a] # order[b]
      /\ \A i \in 1 .. N : \E a \in 1 .. N : order[a] = i
  <2>1. /\ IsFiniteSet(DOMAIN key) /\ DOMAIN key \subseteq Nat /\ Cardinality(DOMAIN key) = N
        /\ \A i \in DOMAIN key : key[i] \in Nat
    BY <1>1, <1>2, <1>3
  <2>2. /\ order \in [1 .. N -> DOMAIN key]
        /\ \A a, b \in 1 .. N : a < b => Before(key, order[a], order[b]) /\ order[a] # order[b]
        /\ \A i \in DOMAIN key : \E a \in 1 .. N : order[a] = i
    BY <2>1, Ranking
  <2>. QED
    BY <1>2, <2>2
<1>6. new = [n \in 1 .. N |-> objs[order[n]]]
  BY <1>4, <1>5 DEF Entries
<1>7. /\ Len(new) = N /\ DOMAIN new = 1 .. N
      /\ \A n \in 1 .. N : order[n] \in 1 .. N /\ new[n] = objs[order[n]]
  BY <1>1, <1>5, <1>6, SMTT(30)
<1>8. ASSUME NEW p \in 1 .. N, NEW q \in 1 .. N, p < q
      PROVE  Ordinal[new[p].type] <= Ordinal[new[q].type] /\ order[p] # order[q]
  <2>1. Before(key, order[p], order[q]) /\ order[p] # order[q]
    BY <1>5, <1>8
  <2>2. key[order[p]] <= key[order[q]]
    BY <1>2, <1>7, <2>1 DEF Before
  <2>. QED
    BY <1>2, <1>7, <2>1, <2>2
<1>. QED
  <2>1. \A p, q \in 1 .. N : p # q => order[p] # order[q]
    <3>1. \A p, q \in 1 .. N : p # q => p < q \/ q < p
      BY <1>1
    <3>. QED
      BY <1>8, <3>1
  <2>2. InTypeOrder(new, objs, N, order)
    BY <1>5, <1>7, <1>8, <2>1, Zenon DEF InTypeOrder
  <2>. QED
    BY <2>2

\* The only object of the last type goes last, and one of the type before it
\* comes before it.
LEMMA LastButOne ==
  ASSUME NEW objs, objs \in Seq(Obj), Len(objs) >= 1,
         objs[Len(objs)].type = "t",
         \A n \in 1 .. Len(objs) - 1 : objs[n].type # "t",
         \E n \in 1 .. Len(objs) - 1 : objs[n].type = "s",
         NEW new, new = ByType(objs)
  PROVE  new[Len(new) - 1].type = "s"
<1>. PICK N : N = Len(objs)
  OBVIOUS
<1>. PICK order : InTypeOrder(new, objs, N, order)
  BY TypeOrder
<1>1. /\ N \in Nat /\ DOMAIN objs = 1 .. N /\ \A n \in 1 .. N : objs[n] \in Obj
      /\ N \in 1 .. N
  OBVIOUS
<1>2. /\ Len(new) = N
      /\ \A n \in 1 .. N : order[n] \in 1 .. N /\ new[n] = objs[order[n]]
      /\ \A i \in 1 .. N : \E n \in 1 .. N : order[n] = i
      /\ \A p, q \in 1 .. N : p < q => Ordinal[new[p].type] <= Ordinal[new[q].type]
      /\ \A p, q \in 1 .. N : p # q => order[p] # order[q]
  BY DEF InTypeOrder
<1>3. \A n \in 1 .. N : new[n].type \in {"k", "m", "s", "t"}
  <2>. SUFFICES ASSUME NEW n \in 1 .. N PROVE new[n].type \in {"k", "m", "s", "t"}
    OBVIOUS
  <2>1. new[n] \in Obj
    BY <1>1, <1>2
  <2>. QED
    BY <2>1 DEF Obj
<1>4. Ordinal["k"] = 1 /\ Ordinal["m"] = 2 /\ Ordinal["s"] = 3 /\ Ordinal["t"] = 4
  BY DEF Ordinal
<1>. PICK a \in 1 .. N : order[a] = N
  BY <1>1, <1>2
<1>. PICK i \in 1 .. N - 1 : objs[i].type = "s"
  OBVIOUS
<1>. PICK b \in 1 .. N : order[b] = i
  <2>1. i \in 1 .. N
    BY <1>1
  <2>. QED
    BY <1>2, <2>1
<1>5. \A n \in 1 .. N : new[n].type = "t" <=> n = a
  <2>. SUFFICES ASSUME NEW n \in 1 .. N PROVE new[n].type = "t" <=> n = a
    OBVIOUS
  <2>1. new[a].type = "t"
    <3>1. new[a] = objs[N] /\ objs[N].type = "t"
      BY <1>2, ZenonT(60)
    <3>. QED
      BY <3>1
  <2>2. ASSUME new[n].type = "t", n # a PROVE FALSE
    <3>1. order[n] = N
      <4>1. order[n] \in 1 .. N /\ objs[order[n]].type = "t"
        BY <1>2, <2>2
      <4>. QED
        BY <1>1, <4>1
    <3>. QED
      BY <1>2, <2>2, <3>1, ZenonT(90)
  <2>. QED
    BY <2>1, <2>2
<1>6. a = N
  <2>1. SUFFICES ASSUME a # N PROVE FALSE
    OBVIOUS
  <2>2. a < N
    BY <1>1, <2>1
  <2>3. Ordinal[new[a].type] <= Ordinal[new[N].type] /\ new[a].type = "t" /\ new[N].type # "t"
    BY <1>1, <1>2, <1>5, <2>1, <2>2
  <2>. QED
    BY <1>1, <1>3, <1>4, <2>3, SMTT(45)
<1>7. new[b].type = "s" /\ b # a
  <2>1. new[b].type = "s"
    BY <1>2
  <2>. QED
    BY <1>5, <2>1
<1>8. b <= N - 1 /\ N - 1 \in 1 .. N
  BY <1>1, <1>6, <1>7
<1>9. Ordinal[new[b].type] <= Ordinal[new[N - 1].type]
  <2>1. CASE b = N - 1
    BY <1>4, <1>7, <2>1
  <2>2. CASE b # N - 1
    <3>1. b < N - 1 /\ N - 1 \in 1 .. N
      BY <1>1, <1>8, <2>2
    <3>. QED
      BY <1>2, <3>1
  <2>. QED
    BY <2>1, <2>2
<1>10. new[N - 1].type # "t"
  BY <1>1, <1>5, <1>6, <1>8
<1>11. new[N - 1].type = "s"
  <2>. PICK u : u = new[N - 1].type
    OBVIOUS
  <2>1. u \in {"k", "m", "s", "t"} /\ u # "t"
    BY <1>3, <1>8, <1>10
  <2>2. 3 <= Ordinal[u]
    BY <1>4, <1>7, <1>9
  <2>. QED
    BY <1>4, <2>1, <2>2
<1>. QED
  BY <1>2, <1>11

\* What is registered is the kernel, and the objects that come with it.
LEMMA KindsRegistered ==
  ASSUME Loadable(load), LowLoad(load), NEW a \in Addr,
         NEW raw, raw = elf_register_segments(a - ImageBase) \o load.objects,
         NEW objects, objects = NonEmpty(raw)
  PROVE  ToInform(objects)
<1>. PICK S : S = elf_register_segments(a - ImageBase)
  OBVIOUS
<1>. PICK N, M : N = 2 * Len(load.segments) /\ M = Len(load.objects)
  OBVIOUS
<1>1. a - ImageBase \in Int /\ Len(load.segments) \in Nat
  BY ImageBounds, Segments, AddressSpace DEF Addr
<1>2. /\ DOMAIN S = 1 .. N /\ Len(S) = N /\ S = [k \in 1 .. N |-> S[k]]
      /\ \A k \in 1 .. N : S[k].type = "k"
  <2>1. Parts(S, a - ImageBase)
    BY <1>1, SegmentParts
  <2>. QED
    BY <2>1 DEF Parts, PartOf
<1>3. N \in Nat
  BY <1>1
<1>4. /\ M \in Nat /\ load.objects = [n \in 1 .. M |-> load.objects[n]]
      /\ \A n \in 1 .. M : load.objects[n].type \in {"m", "s"}
      /\ \E n \in 1 .. M : load.objects[n].type = "s" /\ load.objects[n].size > 0
  <2>. DEFINE T == [type : {"m", "s"}, src : Addr \ {Null}, size : Addr,
                    dest : {0}, align : Addr \ {0}]
  <2>1. load.objects \in Seq(T)
    BY DEF Loadable
  <2>2. \A o \in T : o.type \in {"m", "s"}
    OBVIOUS
  <2>. HIDE DEF T
  <2>3. DOMAIN load.objects = 1 .. M /\ M \in Nat
        /\ load.objects = [n \in 1 .. M |-> load.objects[n]]
        /\ \A n \in 1 .. M : load.objects[n] \in T
    BY <2>1
  <2>. QED
    BY <2>2, <2>3 DEF LowLoad
<1>5. Joined(raw, S, load.objects)
  <2>1. Listed(S, N)
    BY <1>2, <1>3, Zenon DEF Listed
  <2>2. Listed(load.objects, M)
    BY <1>4 DEF Listed
  <2>. QED
    BY <2>1, <2>2, Joining, Zenon
<1>6. Len(raw) \in Nat /\ DOMAIN raw = 1 .. Len(raw)
  BY <1>5 DEF Joined
<1>7. PICK f : Filtered(objects, raw, f)
  BY <1>6, Filtering
<1>8. ASSUME NEW n \in DOMAIN raw PROVE raw[n].type # "t"
  <2>1. \/ n \in 1 .. N /\ raw[n] = S[n]
        \/ n - N \in 1 .. M /\ raw[n] = load.objects[n - N]
    BY <1>2, <1>5, Zenon DEF Joined
  <2>. QED
    BY <1>2, <1>4, <2>1, Zenon
<1>9. \A n \in DOMAIN objects : f[n] \in DOMAIN raw /\ objects[n] = raw[f[n]]
  BY <1>7, Zenon DEF Filtered, Drawn
<1>10. \E n \in DOMAIN objects : objects[n].type = "s"
  <2>1. PICK i \in 1 .. M : load.objects[i].type = "s" /\ load.objects[i].size > 0
    BY <1>4
  <2>. PICK j : j = i + N
    OBVIOUS
  <2>2. j \in DOMAIN raw /\ raw[j] = load.objects[i]
    BY <1>2, <1>5, Zenon DEF Joined
  <2>3. PICK n \in DOMAIN objects : f[n] = j
    BY <1>7, <2>1, <2>2, Zenon DEF Filtered
  <2>4. objects[n] = raw[f[n]]
    BY <1>9, Zenon
  <2>5. objects[n] = load.objects[i]
    BY <2>2, <2>3, <2>4, Zenon
  <2>6. objects[n].type = "s"
    BY <2>1, <2>5, Zenon
  <2>. QED
    BY <2>6, Zenon
<1>. QED
  BY <1>8, <1>9, <1>10, ZenonT(60) DEF ToInform

\* All there is below 4GB, as a map.
Low == <<[base |-> 0, len |-> MaxAddr32 + 1, type |-> "available"]>>

LEMMA LowRam ==
  /\ \A r : Bytes(r) \subseteq Ram(Low) => Below4GB(r)
  /\ \A r, m : Below4GB(r) /\ Bytes(r) \subseteq Ram(m) => Bytes(r) \subseteq Ram(Low)
<1>1. MaxAddr32 \in Nat /\ MaxAddr32 < AddrLimit /\ Addr = 0 .. AddrLimit - 1 /\ AddrLimit \in Nat
  BY AddressSpace DEF Addr
<1>2. Ram(Low) = {a \in Addr : a >= LowMegabyte /\ a <= MaxAddr32}
  <2>1. DOMAIN Low = {1} /\ Low[1] = [base |-> 0, len |-> MaxAddr32 + 1, type |-> "available"]
    BY DEF Low
  <2>2. "available" \in Usable
    BY DEF Usable
  <2>3. \A a \in Addr : a \in Bytes(Low[1]) <=> a <= MaxAddr32
    BY <1>1, <2>1 DEF Bytes
  <2>. QED
    BY <2>1, <2>2, <2>3 DEF Ram
<1>3. \A r : Bytes(r) \subseteq Addr
  BY DEF Bytes
<1>4. \A m, a : a \in Ram(m) => a >= LowMegabyte
  BY DEF Ram
<1>. QED
  BY <1>1, <1>2, <1>3, <1>4 DEF Below4GB

\* No memory is used in the last page below 4GB.
LEMMA StartPageFree ==
  ASSUME LowMachine, NEW m \in Maps
  PROVE  \A a \in Ram(m) : a + PageSize <= MaxAddr32 \/ MaxAddr32 < a
<1>1. /\ MaxAddr32 \in Nat /\ PageSize \in Nat \ {0} /\ Addr = 0 .. AddrLimit - 1
      /\ AddrLimit \in Nat
  BY AddressSpace DEF Addr
<1>2. m \in Seq(MapEntry) /\ \A i \in DOMAIN m : m[i].type \in Usable => ApartFrom(m[i], StartPage)
  BY DEF LowMachine, Machine, FirmwareMap
<1>. SUFFICES ASSUME NEW a \in Ram(m) PROVE a + PageSize <= MaxAddr32 \/ MaxAddr32 < a
  OBVIOUS
<1>3. PICK j \in DOMAIN m : m[j].type \in Usable /\ a \in Bytes(m[j]) /\ a \in Addr
  BY DEF Ram
<1>. PICK b, n : b = m[j].base /\ n = m[j].len
  OBVIOUS
<1>4. b \in Addr /\ n \in Addr
  <2>1. m[j] \in MapEntry
    BY <1>2
  <2>. QED
    BY <2>1 DEF MapEntry
<1>5. b + n <= MaxAddr32 + 1 - PageSize \/ (MaxAddr32 + 1 - PageSize) + PageSize <= b
  BY <1>2, <1>3 DEF ApartFrom, StartPage, Request, Top
<1>6. b <= a /\ a < b + n
  BY <1>3 DEF Bytes
<1>. QED
  BY <1>1, <1>3, <1>4, <1>5, <1>6

\* The kernel is below 4GB: it has to begin there, or it was given memory there.
LEMMA KernelBelow ==
  ASSUME LowMachine, X86, NEW m \in Maps, load \in Loads(m),
         NEW t, Guarded(t), NEW x, x = elf_alloc(t),
         Gives(x, t, ImageEnd - ImageBase),
         Bytes(Request(x.addr, ImageEnd - ImageBase)) \subseteq Ram(m)
  PROVE  Below4GB(Request(x.addr, ImageEnd - ImageBase))
<1>. PICK a, size : a = x.addr /\ size = ImageEnd - ImageBase
  OBVIOUS
<1>1. Loadable(load) /\ LowLoad(load)
  BY WhatIsLoaded DEF LowMachine
<1>2. /\ ImageBase \in Nat /\ ImageEnd \in Nat /\ ImageBase < ImageEnd
      /\ \A i \in 1 .. Len(load.segments) : ImageBase <= load.segments[i].paddr
      /\ DOMAIN load.segments = 1 .. Len(load.segments)
      /\ \A i \in DOMAIN load.segments : load.segments[i].paddr \in Nat
  BY <1>1, ImageBounds, Segments
<1>3. a \in Nat /\ size \in Nat /\ MaxAddr32 \in Nat
  BY <1>2, AddressSpace DEF Gives, Addr
<1>4. \/ load.kernel_load_align = 0 /\ a = ImageBase
      \/ a + size <= MaxAddr32
  BY <1>1, KernelAlloc
<1>5. CASE load.kernel_load_align = 0 /\ a = ImageBase
  <2>1. PICK i \in DOMAIN load.segments : load.segments[i].paddr <= MaxAddr32
    BY <1>1, <1>5 DEF LowLoad
  <2>2. a <= MaxAddr32
    BY <1>2, <1>3, <1>5, <2>1
  <2>3. MaxAddr32 \notin Bytes(Request(a, size))
    <3>1. PageSize \in Nat \ {0}
      BY AddressSpace
    <3>. QED
      BY <1>3, <3>1, StartPageFree
  <2>. QED
    BY <1>3, <2>2, <2>3, StaysBelow
<1>6. CASE a + size <= MaxAddr32
  BY <1>3, <1>6, EndsBelow
<1>. QED
  BY <1>4, <1>5, <1>6

LEMMA RegisterLow ==
  ASSUME LowMachine, X86, IInv, boot_register
  PROVE  LowObjects(relocs') /\ Arranged(pc', relocs')
<1>. PICK m, l, big, t : m = firmware /\ l = load /\ big = mmap /\ t = allocs
  OBVIOUS
<1>1. Anyhow(m, l, big, t, relocs, safe) /\ OnTheWay("boot_register", m, big, t, relocs, safe)
  BY DEF IInv, Holds, boot_register
<1>2. m \in Maps /\ l \in Loads(m) /\ Loadable(l) /\ LowLoad(l)
  BY <1>1, WhatIsLoaded DEF Anyhow, LowMachine
<1>3. /\ Guarded(t) /\ MergedMap(big, m) /\ Addr \ TableBytes(t) \subseteq Ram(big)
      /\ relocs = << >>
  BY <1>1 DEF OnTheWay, Registered
<1>. PICK x : x = elf_alloc(t)
  OBVIOUS
<1>. PICK raw : raw = elf_register_segments(x.addr - ImageBase) \o l.objects
  OBVIOUS
<1>. PICK objects : objects = NonEmpty(raw)
  OBVIOUS
<1>. PICK new : new = SubSeq(objects, 1, Min({Len(objects), MaxRelocs - 2}))
  OBVIOUS
<1>4. Register(x, objects)
  BY DEF boot_register, RegisterImage
<1>5. Answers(x, t, ImageEnd - ImageBase)
  BY <1>2, <1>3, KernelAlloc
<1>6. \A status : GoOn(status, "") => pc' \notin {"compute_relocations", "place_info", "place_low"}
  BY DEF GoOn
<1>7. CASE x.status # "SUCCESS" \/ Covered(x)
  <2>1. GoOn(x.status, "") /\ relocs' = << >>
    BY <1>3, <1>4, <1>7 DEF Register, Keep
  <2>. QED
    <3>1. LowObjects(<< >>)
      <4>1. DOMAIN << >> = {}
        OBVIOUS
      <4>. QED
        BY <4>1 DEF LowObjects
    <3>2. pc' \notin {"compute_relocations", "place_info", "place_low"}
      BY <1>6, <2>1
    <3>. QED
      BY <2>1, <3>1, <3>2, Zenon DEF Arranged
<1>8. CASE x.status = "SUCCESS" /\ ~Covered(x)
  <2>1. Gives(x, t, ImageEnd - ImageBase)
    BY <1>5, <1>8 DEF Answers, Refuses
  <2>2. /\ x.addr \in Addr \ {0} /\ x.addr + (ImageEnd - ImageBase) < AddrLimit
        /\ TableBytes(x.table) = TableBytes(t) \cup Bytes(Request(x.addr, ImageEnd - ImageBase))
    BY <2>1 DEF Gives, Takes
  <2>3. Bytes(Request(x.addr, ImageEnd - ImageBase)) \subseteq Ram(m)
    BY <1>3, <2>1, GivenRam
  <2>4. Below4GB(Request(x.addr, ImageEnd - ImageBase))
    BY <1>2, <1>3, <2>1, <2>3, KernelBelow
  <2>5. Bytes(Request(x.addr, ImageEnd - ImageBase)) \subseteq Ram(Low)
    BY <2>3, <2>4, LowRam
  <2>6. RawSound(raw, l, Low, x.table)
    BY <1>2, <2>2, <2>5, RawTable
  <2>7. /\ InPlace(new, {"k"}, l, Low, x.table)
        /\ RoomFor(0, Len(objects)) => new = objects
    BY <2>6, FillingTheTable, ZenonT(120)
  <2>8. LowObjects(new)
    BY <2>7, LowRam DEF InPlace, Objects, Settled, LowObjects
  <2>9. /\ relocs' = new
        /\ ~RoomFor(0, Len(objects)) => GoOn("OUT_OF_RESOURCES", "")
        /\ RoomFor(0, Len(objects)) => \E status : GoOn(status, "compute_relocations")
    BY <1>4, <1>8 DEF Register, Keep
  <2>10. CASE ~RoomFor(0, Len(objects))
    BY <1>6, <2>8, <2>9, <2>10 DEF Arranged
  <2>11. CASE RoomFor(0, Len(objects))
    <3>1. pc' \notin {"place_info", "place_low"}
      BY <2>9, <2>11 DEF GoOn
    <3>2. ToInform(objects)
      <4>. PICK a : a = x.addr
        OBVIOUS
      <4>1. /\ Loadable(load) /\ LowLoad(load) /\ a \in Addr
            /\ raw = elf_register_segments(a - ImageBase) \o load.objects
        BY <1>2, <2>2
      <4>. QED
        BY <4>1, KindsRegistered
    <3>3. ToInform(new)
      BY <2>7, <2>11, <3>2, Zenon
    <3>4. Arranged(pc', new)
      BY <3>1, <3>3, Zenon DEF Arranged
    <3>. QED
      BY <2>8, <2>9, <3>4, Zenon
  <2>. QED
    BY <2>10, <2>11
<1>. QED
  BY <1>7, <1>8

LEMMA AddLowLow ==
  ASSUME LowMachine, X86, IInv, LowObjects(relocs), Arranged(pc, relocs), AddLow
  PROVE  LowObjects(relocs') /\ Arranged(pc', relocs')
<1>. PICK objs : objs = relocs
  OBVIOUS
<1>1. /\ objs \in Seq(Obj) /\ ToInform(objs) /\ LowObjects(objs)
      /\ InPlace(objs, {"k"}, load, firmware, allocs)
  <2>1. "compute_relocations" \notin SafePhase /\ PlacedTypes("compute_relocations") = {"k"}
    BY DEF SafePhase, PlacedTypes
  <2>. QED
    BY <2>1 DEF IInv, Holds, Anyhow, OnTheWay, NotYet, InPlace, Objects, AddLow, Arranged
<1>. PICK low : low = Object("t", Null, LowSize, 0, AlignFunc)
  OBVIOUS
<1>2. low.type = "t" /\ low.dest = 0
  BY DEF Object
<1>. PICK more : more = IF X86 /\ RoomFor(Len(objs), 1) THEN Append(objs, low) ELSE objs
  OBVIOUS
<1>. PICK new : new = ByType(more)
  OBVIOUS
<1>3. relocs' = new
  BY DEF AddLow
<1>4. /\ pc' \notin {"compute_relocations", "place_low"}
      /\ pc' = "place_info" => RoomFor(Len(objs), 1)
  BY DEF AddLow, GoOn
<1>5. more \in Seq(Obj) /\ LowObjects(more)
  <2>1. CASE RoomFor(Len(objs), 1)
    <3>1. more = Append(objs, low) /\ more \in Seq(Obj)
      <4>1. InPlace(Append(objs, low), {"k"}, load, firmware, allocs)
        BY <1>1, <2>1, OneMore DEF RoomFor
      <4>. QED
        BY <2>1, <4>1 DEF InPlace, Objects
    <3>2. /\ DOMAIN objs = 1 .. Len(objs) /\ DOMAIN more = 1 .. Len(objs) + 1
          /\ \A n \in 1 .. Len(objs) : more[n] = objs[n]
          /\ more[Len(objs) + 1] = low /\ Len(objs) \in Nat
      BY <1>1, <3>1
    <3>3. \A n \in DOMAIN more : n \in 1 .. Len(objs) \/ n = Len(objs) + 1
      BY <3>2
    <3>. QED
      BY <1>1, <1>2, <3>1, <3>2, <3>3 DEF LowObjects
  <2>2. CASE ~RoomFor(Len(objs), 1)
    BY <1>1, <2>2
  <2>. QED
    BY <2>1, <2>2
<1>6. LowObjects(new)
  <2>1. PICK order : InTypeOrder(new, more, Len(more), order)
    BY <1>5, TypeOrder
  <2>2. DOMAIN more = 1 .. Len(more)
    BY <1>5
  <2>3. \A n \in DOMAIN new : order[n] \in DOMAIN more /\ new[n] = more[order[n]]
    BY <2>1, <2>2, Zenon DEF InTypeOrder
  <2>. QED
    BY <1>5, <2>3 DEF LowObjects
<1>7. ASSUME RoomFor(Len(objs), 1) PROVE new[Len(new) - 1].type = "s"
  <2>. PICK N : N = Len(objs) + 1
    OBVIOUS
  <2>1. more = Append(objs, low) /\ N \in Nat /\ Len(objs) \in Nat
    BY <1>1, <1>7
  <2>2. /\ Len(more) = N /\ N - 1 = Len(objs) /\ more[N].type = "t"
        /\ DOMAIN objs = 1 .. N - 1 /\ \A n \in 1 .. N - 1 : more[n] = objs[n]
    BY <1>1, <1>2, <2>1
  <2>3. /\ \A n \in 1 .. N - 1 : more[n].type # "t"
        /\ \E n \in 1 .. N - 1 : more[n].type = "s"
    BY <1>1, <2>2, Zenon DEF ToInform
  <2>4. N >= 1
    BY <2>1
  <2>. QED
    <3>1. /\ more \in Seq(Obj) /\ Len(more) >= 1 /\ more[Len(more)].type = "t"
          /\ \A n \in 1 .. Len(more) - 1 : more[n].type # "t"
          /\ \E n \in 1 .. Len(more) - 1 : more[n].type = "s"
      BY <1>5, <2>2, <2>3, <2>4
    <3>. QED
      BY <3>1, LastButOne, ZenonT(60)
<1>8. Arranged(pc', new)
  BY <1>4, <1>7, Zenon DEF Arranged
<1>. QED
  BY <1>3, <1>6, <1>8, Zenon

\* Whatever is in RAM below 4GB ends before the page that is not used.
LEMMA EndLow ==
  ASSUME LowMachine, NEW m \in Maps, NEW o \in Obj, Settled(o, m), Below4GB(Dest(o))
  PROVE  /\ EndOf(o) = o.dest + o.size /\ EndOf(o) \in Nat
         /\ EndOf(o) + PageSize <= MaxAddr32 + 1
<1>. PICK d, z : d = o.dest /\ z = o.size
  OBVIOUS
<1>1. d \in Nat /\ z \in Nat \ {0} /\ d + z < AddrLimit
  BY ObjParts DEF Settled
<1>2. /\ MaxAddr32 \in Nat /\ PageSize \in Nat \ {0} /\ Addr = 0 .. AddrLimit - 1
      /\ AddrLimit \in Nat
  BY AddressSpace DEF Addr
<1>3. EndOf(o) = d + z
  <2>. PICK e : e = d + z
    OBVIOUS
  <2>1. e \in 0 .. AddrLimit - 1
    BY <1>1, <1>2
  <2>. QED
    BY <2>1, WrapSmall DEF EndOf
<1>. PICK a : a = d + z - 1
  OBVIOUS
<1>4. a \in Bytes(Dest(o))
  BY <1>1, <1>2 DEF Bytes, Dest, Request
<1>5. a <= MaxAddr32 /\ a \in Ram(m)
  BY <1>2, <1>4 DEF Below4GB, Settled
<1>6. a + PageSize <= MaxAddr32 \/ MaxAddr32 < a
  BY <1>5, StartPageFree
<1>. QED
  BY <1>1, <1>2, <1>3, <1>5, <1>6, SMTT(30)

\* Objects of a type that are kept low get places below 4GB.
LEMMA PlacingLow ==
  ASSUME LowMachine, X86, IInv, LowObjects(relocs), Arranged(pc, relocs),
         pc \in {"place_info", "place_low", "place_modules"},
         NEW type \in {"m", "s", "t"}, NEW preferred \in Addr,
         NEW option \in {"ANY", "32BIT"},
         type = "m" \/ (option = "32BIT" /\ BelowGap(allocs, relocs, type, preferred)),
         NEW next, next \notin {"compute_relocations", "place_info"},
         next = "place_low" => pc = "place_info",
         Place(type, preferred, option, next)
  PROVE  LowObjects(relocs') /\ Arranged(pc', relocs')
<1>. PICK objs, t : objs = relocs /\ t = allocs
  OBVIOUS
<1>1. /\ Guarded(t) /\ Objects(objs, load, firmware) /\ Loadable(load) /\ objs \in Seq(Obj)
      /\ Len(objs) \in Nat /\ DOMAIN objs = 1 .. Len(objs)
      /\ pc = "place_info" => Len(objs) - 1 \in DOMAIN objs
  <2>1. /\ Guarded(t) /\ Objects(objs, load, firmware) /\ Loadable(load)
        /\ pc = "place_info" => Len(objs) >= 2
    BY WhatIsLoaded DEF IInv, Holds, Anyhow, OnTheWay, Registered
  <2>2. objs \in Seq(Obj) /\ Len(objs) \in Nat /\ DOMAIN objs = 1 .. Len(objs)
    BY <2>1 DEF Objects
  <2>. QED
    BY <2>1, <2>2
<1>. PICK x : x = set_runtime_addr(t, objs, type, preferred, option)
  OBVIOUS
<1>2. /\ ~Covered(x) /\ GoOn(x.status, next)
      /\ relocs' = IF x.status = "SUCCESS" THEN x.objs ELSE objs
  BY DEF Place, Settle, Keep
<1>3. /\ Lays(x, t, objs, Group(objs, type))
      /\ type # "m" => KeptLow(x, Group(objs, type), "32BIT")
  <2>1. Layable(objs, type)
    BY <1>1, LayableTable
  <2>. QED
    BY <1>1, <1>2, <2>1, SettingAddresses
<1>4. CASE x.status # "SUCCESS"
  <2>1. pc' \notin {"compute_relocations", "place_info", "place_low"}
    BY <1>2, <1>4 DEF GoOn
  <2>2. relocs' = objs
    BY <1>2, <1>4
  <2>. QED
    BY <2>1, <2>2 DEF Arranged
<1>5. CASE x.status = "SUCCESS"
  <2>. PICK new, G : new = x.objs /\ G = Group(objs, type)
    OBVIOUS
  <2>1. /\ Relaid(new, objs, G)
        /\ type # "m" => \A n \in G : Below4GB(Dest(new[n]))
    BY <1>3, <1>5 DEF Lays, KeptLow
  <2>2. /\ new \in Seq(Obj) /\ Len(new) = Len(objs) /\ DOMAIN new = DOMAIN objs
        /\ \A n \in DOMAIN objs : n \in G <=> objs[n].type = type
    BY <1>1, <2>1 DEF Relaid, Group
  <2>3. ASSUME NEW n \in DOMAIN objs
        PROVE  /\ new[n].type = objs[n].type
               /\ new[n].type \in {"k", "s", "t"} /\ new[n].dest # 0 => Below4GB(Dest(new[n]))
    <3>1. CASE n \notin G
      <4>1. new[n] = objs[n]
        BY <1>1, <2>1, <3>1 DEF Relaid
      <4>. QED
        BY <4>1 DEF LowObjects
    <3>2. CASE n \in G
      <4>1. new[n] = [objs[n] EXCEPT !.dest = new[n].dest]
        BY <1>1, <2>1, <3>2 DEF Relaid
      <4>2. DOMAIN objs[n] = {"type", "src", "size", "dest", "align"}
        <5>1. objs[n] \in Obj
          BY <1>1
        <5>. QED
          BY <5>1 DEF Obj
      <4>3. new[n].type = objs[n].type
        BY <4>1, <4>2
      <4>. QED
        BY <2>1, <2>2, <3>2, <4>3
    <3>. QED
      BY <3>1, <3>2
  <2>4. LowObjects(new)
    BY <2>2, <2>3 DEF LowObjects
  <2>5. /\ pc' \notin {"compute_relocations", "place_info"}
        /\ pc' = "place_low" => pc = "place_info"
    BY <1>2, <1>5 DEF GoOn
  <2>6. ASSUME pc = "place_info" PROVE new[Len(new) - 1].type = "s"
    <3>1. Len(new) - 1 \in DOMAIN objs
      BY <1>1, <2>2, <2>6
    <3>2. objs[Len(new) - 1].type = "s"
      BY <2>2, <2>6 DEF Arranged
    <3>. QED
      BY <2>3, <3>1, <3>2
  <2>7. Arranged(pc', new)
    BY <2>5, <2>6, Zenon DEF Arranged
  <2>8. relocs' = new
    BY <1>2, <1>5
  <2>. QED
    BY <2>4, <2>7, <2>8, Zenon
<1>. QED
  BY <1>4, <1>5

\* The last address below 4GB is never free.
LEMMA GapTaken ==
  ASSUME LowMachine, NEW m \in Maps, NEW big, MergedMap(big, m),
         NEW t, Addr \ TableBytes(t) \subseteq Ram(big)
  PROVE  MaxAddr32 \in TableBytes(t)
<1>1. MaxAddr32 \in Nat /\ MaxAddr32 \in Addr /\ PageSize \in Nat \ {0}
  BY AddressSpace DEF Addr
<1>2. MaxAddr32 \notin Ram(m)
  <2>1. ~(MaxAddr32 + PageSize <= MaxAddr32) /\ ~(MaxAddr32 < MaxAddr32)
    BY <1>1
  <2>. QED
    BY <2>1, StartPageFree
<1>3. Ram(big) \subseteq Ram(m)
  BY MergedRam
<1>. QED
  BY <1>1, <1>2, <1>3

\* What is known while destinations are given out.
LEMMA Placing ==
  ASSUME LowMachine, X86, IInv, LowObjects(relocs), pc \in {"place_info", "place_low"}
  PROVE  /\ firmware \in Maps /\ LowLoad(load) /\ MaxAddr32 \in TableBytes(allocs)
         /\ relocs \in Seq(Obj) /\ Len(relocs) - 1 \in DOMAIN relocs
         /\ \A n \in DOMAIN relocs :
              /\ relocs[n].type = "s" => relocs[n].align <= PageSize
              /\ relocs[n].type = "t" => relocs[n].align <= PageSize
              /\ relocs[n].type \in PlacedTypes(pc) =>
                   /\ EndOf(relocs[n]) \in Nat
                   /\ EndOf(relocs[n]) + PageSize <= MaxAddr32 + 1
<1>1. /\ firmware \in Maps /\ load \in Loads(firmware)
      /\ MergedMap(mmap, firmware) /\ Addr \ TableBytes(allocs) \subseteq Ram(mmap)
      /\ Objects(relocs, load, firmware) /\ Len(relocs) >= 2
      /\ PlacedApart(relocs, PlacedTypes(pc), allocs)
  BY DEF IInv, Holds, Anyhow, OnTheWay, Registered
<1>2. LowLoad(load) /\ MaxAddr32 \in TableBytes(allocs)
  BY <1>1, GapTaken DEF LowMachine
<1>3. relocs \in Seq(Obj) /\ Len(relocs) - 1 \in DOMAIN relocs
  <2>1. relocs \in Seq(Obj)
    BY <1>1 DEF Objects
  <2>. QED
    BY <1>1, <2>1
<1>4. ASSUME NEW n \in DOMAIN relocs
      PROVE  /\ relocs[n].type = "s" => relocs[n].align <= PageSize
             /\ relocs[n].type = "t" => relocs[n].align <= PageSize
             /\ relocs[n].type \in PlacedTypes(pc) =>
                  /\ EndOf(relocs[n]) \in Nat
                  /\ EndOf(relocs[n]) + PageSize <= MaxAddr32 + 1
  <2>. PICK o : o = relocs[n]
    OBVIOUS
  <2>1. o \in Obj /\ Origin(o, load) /\ (o.dest # 0 => Settled(o, firmware))
    BY <1>1, <1>3 DEF Objects
  <2>2. o.type = "s" => o.align <= PageSize
    <3>1. ASSUME o.type = "s"
          PROVE  \E i \in DOMAIN load.objects :
                   load.objects[i].type = "s" /\ o.align = load.objects[i].align
      BY <2>1, <3>1 DEF Origin
    <3>. QED
      BY <1>2, <3>1 DEF LowLoad
  <2>3. o.type = "t" => o.align <= PageSize
    BY <2>1 DEF Origin, LowMachine
  <2>4. ASSUME o.type \in PlacedTypes(pc)
        PROVE  EndOf(o) \in Nat /\ EndOf(o) + PageSize <= MaxAddr32 + 1
    <3>1. o.dest # 0 /\ o.type \in {"k", "s", "t"}
      <4>1. PlacedTypes(pc) \subseteq {"k", "s"}
        BY DEF PlacedTypes
      <4>. QED
        BY <1>1, <2>4, <4>1 DEF PlacedApart
    <3>2. Below4GB(Dest(o))
      BY <3>1 DEF LowObjects
    <3>. QED
      BY <1>1, <2>1, <3>1, <3>2, EndLow
  <2>. QED
    BY <2>2, <2>3, <2>4
<1>. QED
  BY <1>1, <1>2, <1>3, <1>4

LEMMA PlaceInfoLow ==
  ASSUME LowMachine, X86, IInv, LowObjects(relocs), Arranged(pc, relocs), PlaceInfo
  PROVE  LowObjects(relocs') /\ Arranged(pc', relocs')
<1>1. pc = "place_info" /\ Place("s", KernelEnd, "32BIT", "place_low")
  BY DEF PlaceInfo, LowOption
<1>2. AddrLimit \in Nat /\ Addr = 0 .. AddrLimit - 1 /\ MaxAddr32 \in Nat
      /\ MaxAddr32 < AddrLimit /\ PageSize \in Nat \ {0}
  BY AddressSpace DEF Addr
<1>3. /\ MaxAddr32 \in TableBytes(allocs)
      /\ \A n \in DOMAIN relocs :
           /\ relocs[n].type = "s" => relocs[n].align <= PageSize
           /\ relocs[n].type = "k" =>
                EndOf(relocs[n]) \in Nat /\ EndOf(relocs[n]) + PageSize <= MaxAddr32 + 1
  <2>1. "k" \in PlacedTypes(pc)
    BY <1>1 DEF PlacedTypes
  <2>. QED
    BY <1>1, <2>1, Placing
<1>4. KernelEnd \in Nat /\ KernelEnd + PageSize <= MaxAddr32 + 1
  <2>. DEFINE S == {0} \cup {EndOf(relocs[n]) : n \in Group(relocs, "k")}
  <2>1. \A e \in S : e \in Nat /\ e + PageSize <= MaxAddr32 + 1
    BY <1>2, <1>3 DEF Group, LowMachine
  <2>2. 0 \in S
    OBVIOUS
  <2>3. KernelEnd = Max(S)
    BY DEF KernelEnd
  <2>. HIDE DEF S
  <2>5. S # {} /\ S \subseteq 0 .. MaxAddr32
    BY <1>2, <2>1, <2>2
  <2>4. Max(S) \in S
    BY <1>2, <2>5, Highest
  <2>. QED
    BY <2>1, <2>3, <2>4
<1>5. KernelEnd \in Addr
  BY <1>2, <1>4
<1>6. BelowGap(allocs, relocs, "s", KernelEnd)
  BY <1>3, <1>4 DEF BelowGap, Group
<1>. QED
  BY <1>1, <1>5, <1>6, PlacingLow

LEMMA PlaceLowLow ==
  ASSUME LowMachine, X86, IInv, LowObjects(relocs), Arranged(pc, relocs), PlaceLow
  PROVE  LowObjects(relocs') /\ Arranged(pc', relocs')
<1>. PICK end : end = EndOf(relocs[Len(relocs) - 1])
  OBVIOUS
<1>1. pc = "place_low" /\ Place("t", end, "32BIT", "place_modules")
  BY DEF PlaceLow, LowOption
<1>2. AddrLimit \in Nat /\ Addr = 0 .. AddrLimit - 1 /\ MaxAddr32 \in Nat
      /\ MaxAddr32 < AddrLimit /\ PageSize \in Nat \ {0}
  BY AddressSpace DEF Addr
<1>3. /\ MaxAddr32 \in TableBytes(allocs)
      /\ \A n \in DOMAIN relocs : relocs[n].type = "t" => relocs[n].align <= PageSize
      /\ end \in Nat /\ end + PageSize <= MaxAddr32 + 1
  <2>1. relocs[Len(relocs) - 1].type \in PlacedTypes(pc)
    BY <1>1 DEF PlacedTypes, Arranged
  <2>. QED
    BY <1>1, <2>1, Placing
<1>4. end \in Addr /\ BelowGap(allocs, relocs, "t", end)
  BY <1>2, <1>3 DEF BelowGap, Group
<1>. QED
  BY <1>1, <1>4, PlacingLow

LEMMA PlaceModulesLow ==
  ASSUME LowMachine, X86, IInv, LowObjects(relocs), Arranged(pc, relocs), PlaceModules
  PROVE  LowObjects(relocs') /\ Arranged(pc', relocs')
<1>. PICK option : option = IF load.esxbootinfo THEN "ANY" ELSE "32BIT"
  OBVIOUS
<1>1. pc = "place_modules" /\ Place("m", 0, option, "blacklist_bootloader_mem")
  BY DEF PlaceModules
<1>2. option \in {"ANY", "32BIT"} /\ 0 \in Addr
  BY AddressSpace DEF Addr
<1>. QED
  BY <1>1, <1>2, PlacingLow

\* Later steps change no destination.
LEMMA LaterLow ==
  ASSUME IInv, LowObjects(relocs),
         \/ blacklist_bootloader_mem \/ relocate_runtime_services
         \/ \E n \in DOMAIN relocs : Move(n)
         \/ Resolved \/ install_trampoline \/ relocate_page_tables2
  PROVE  LowObjects(relocs') /\ Arranged(pc', relocs')
<1>. DEFINE Early == {"compute_relocations", "place_info", "place_low"}
<1>1. ASSUME NEW result, NEW next, next \notin Early, Keep(result, next)
      PROVE  pc' \notin Early
  BY <1>1 DEF Keep, GoOn
<1>2. ASSUME NEW size, NEW align, NEW next, next \notin Early, Take(size, align, next)
      PROVE  pc' \notin Early
  BY <1>1, <1>2 DEF Take, UseAlone, Use
<1>3. \A objs : pc' \notin Early => Arranged(pc', objs)
  BY DEF Arranged
<1>4. CASE relocs' = relocs
  <2>1. pc' \notin Early
    <3>1. CASE blacklist_bootloader_mem
      BY <1>1, <3>1 DEF blacklist_bootloader_mem
    <3>2. CASE relocate_runtime_services
      BY <1>2, <3>2 DEF relocate_runtime_services
    <3>3. CASE \E n \in DOMAIN relocs : Move(n)
      BY <1>2, <3>3 DEF Move
    <3>4. CASE Resolved
      BY <3>4 DEF Resolved
    <3>5. CASE install_trampoline
      BY <1>1, <3>5 DEF install_trampoline, Use
    <3>6. CASE relocate_page_tables2
      BY <1>2, <3>6 DEF relocate_page_tables2
    <3>. QED
      BY <3>1, <3>2, <3>3, <3>4, <3>5, <3>6
  <2>. QED
    BY <1>3, <1>4, <2>1
<1>5. CASE \E n \in DOMAIN relocs : Move(n)
  <2>1. PICK n \in DOMAIN relocs : Move(n)
    BY <1>5
  <2>2. pc' \notin Early
    BY <1>2, <2>1 DEF Move
  <2>3. CASE relocs' = relocs
    BY <1>4, <2>3
  <2>4. CASE relocs' # relocs
    <3>1. PICK a : relocs' = [relocs EXCEPT ![n].src = a]
      BY <2>1, <2>4 DEF Move
    <3>2. relocs \in Seq(Obj)
      BY DEF IInv, Holds, Anyhow, Objects
    <3>3. ASSUME NEW q \in DOMAIN relocs
          PROVE  /\ relocs'[q].type = relocs[q].type /\ relocs'[q].dest = relocs[q].dest
                 /\ relocs'[q].size = relocs[q].size
      <4>1. relocs[q] \in Obj
        BY <3>2
      <4>2. DOMAIN relocs[q] = {"type", "src", "size", "dest", "align"}
        BY <4>1 DEF Obj
      <4>3. relocs'[q] = relocs[q] \/ relocs'[q] = [relocs[q] EXCEPT !.src = a]
        BY <3>1, <3>2
      <4>. QED
        BY <4>2, <4>3
    <3>4. DOMAIN relocs' = DOMAIN relocs
      BY <3>1, <3>2
    <3>5. LowObjects(relocs')
      BY <3>3, <3>4 DEF LowObjects, Dest
    <3>. QED
      BY <1>3, <2>2, <3>5
  <2>. QED
    BY <2>3, <2>4
<1>6. relocs' = relocs \/ \E n \in DOMAIN relocs : Move(n)
  BY DEF blacklist_bootloader_mem, relocate_runtime_services, Resolved,
         install_trampoline, relocate_page_tables2
<1>. QED
  BY <1>4, <1>5, <1>6

\* The invariant, with what stays low.
LInv == IInv /\ LowObjects(relocs) /\ Arranged(pc, relocs)

LEMMA LowStep ==
  ASSUME LowMachine, X86, LInv, [Next]_vars
  PROVE  LInv'
<1>1. IInv'
  BY Stepping DEF LInv, LowMachine
<1>2. IInv /\ LowObjects(relocs) /\ Arranged(pc, relocs)
  BY DEF LInv
<1>3. LowObjects(relocs') /\ Arranged(pc', relocs')
  <2>1. CASE firmware_shutdown
    <3>1. relocs' = << >> /\ pc' \notin {"compute_relocations", "place_info", "place_low"}
      BY <1>2, <2>1 DEF firmware_shutdown, Keep, GoOn, IInv, Holds
    <3>2. DOMAIN << >> = {}
      OBVIOUS
    <3>. QED
      BY <3>1, <3>2 DEF LowObjects, Arranged
  <2>2. CASE boot_register
    BY <1>2, <2>2, RegisterLow
  <2>3. CASE AddLow
    BY <1>2, <2>3, AddLowLow
  <2>4. CASE PlaceInfo
    BY <1>2, <2>4, PlaceInfoLow
  <2>5. CASE PlaceLow
    BY <1>2, <2>5, PlaceLowLow
  <2>6. CASE PlaceModules
    BY <1>2, <2>6, PlaceModulesLow
  <2>7. CASE \/ blacklist_bootloader_mem \/ relocate_runtime_services
             \/ \E n \in DOMAIN relocs : Move(n)
             \/ Resolved \/ install_trampoline \/ relocate_page_tables2
    BY <1>2, <2>7, LaterLow
  <2>8. CASE UNCHANGED vars
    BY <1>2, <2>8 DEF vars
  <2>. QED
    BY <2>1, <2>2, <2>3, <2>4, <2>5, <2>6, <2>7, <2>8 DEF Next
<1>. QED
  BY <1>1, <1>3 DEF LInv

\* On such an x86 the information for the kernel is where 32-bit addresses reach.
LEMMA LowAlways ==
  ASSUME LowMachine, X86
  PROVE  Spec => []InfoBelow4GB
<1>1. Init => LInv
  <2>. SUFFICES ASSUME Init PROVE LInv
    OBVIOUS
  <2>1. IInv
    BY Starting DEF LowMachine
  <2>2. relocs = << >> /\ pc = "firmware_shutdown" /\ DOMAIN << >> = {}
    BY DEF Init
  <2>. QED
    BY <2>1, <2>2 DEF LInv, LowObjects, Arranged
<1>2. LInv /\ [Next]_vars => LInv'
  BY LowStep
<1>3. LInv => InfoBelow4GB
  <2>. SUFFICES ASSUME LInv, NEW n \in Placed, relocs[n].type \in {"s", "t"}
                PROVE  Top(Dest(relocs[n])) <= MaxAddr32 + 1
    BY DEF InfoBelow4GB
  <2>1. /\ relocs \in Seq(Obj) /\ n \in DOMAIN relocs /\ relocs[n].dest # 0
        /\ Settled(relocs[n], firmware) /\ firmware \in Maps
    BY DEF LInv, IInv, Holds, Anyhow, Objects, Placed
  <2>2. relocs[n] \in Obj
    BY <2>1
  <2>3. Below4GB(Dest(relocs[n]))
    BY <2>1 DEF LInv, LowObjects
  <2>4. EndOf(relocs[n]) + PageSize <= MaxAddr32 + 1 /\ EndOf(relocs[n]) \in Nat
        /\ EndOf(relocs[n]) = relocs[n].dest + relocs[n].size
    BY <2>1, <2>2, <2>3, EndLow
  <2>. QED
    BY <2>4, AddressSpace DEF Top, Dest, Request
<1>. QED
  BY <1>1, <1>2, <1>3, PTL DEF Spec

-----------------------------------------------------------------------------
(* Theorems of the specification, on every machine.                         *)

\* The program is always at a step it knows, and its tables hold what their types
\* say: no object is empty, and no address or size leaves the address space
\* (add_runtime_object in mboot/reloc.c, merge_range in bootlib/alloc.c).
THEOREM LayoutTypes == Machine => (Spec => []TypeOK)
<1>. SUFFICES ASSUME Machine PROVE Spec => []TypeOK
  OBVIOUS
<1>1. Spec => []IInv
  BY Always
<1>2. IInv => TypeOK
  BY TypesHold
<1>. QED
  BY <1>1, <1>2, PTL

\* Whatever the firmware's map looks like, out of order, split, with holes or with
\* ranges of one type inside each other, an object is only ever sent to memory that
\* the firmware reports as usable, all of it, and above the low megabyte
\* (e820_mmap_merge, system_blacklist_memory, set_runtime_addr).
THEOREM SentToRam == Machine => (Spec => []DestinationsSafe)
<1>. SUFFICES ASSUME Machine PROVE Spec => []DestinationsSafe
  OBVIOUS
<1>1. Spec => []IInv
  BY Always
<1>2. IInv => DestinationsSafe
  BY SafeDestinations
<1>. QED
  BY <1>1, <1>2, PTL

\* Every object goes to an address that is a multiple of its alignment, whether it
\* was placed alone, or somewhere in a group that starts at a rounded address
\* (set_runtime_addr, mboot/reloc.c).
THEOREM SentAligned == Machine => (Spec => []DestinationsAligned)
<1>. SUFFICES ASSUME Machine PROVE Spec => []DestinationsAligned
  OBVIOUS
<1>1. Spec => []IInv
  BY Always
<1>2. IInv => DestinationsAligned
  BY SafeDestinations
<1>. QED
  BY <1>1, <1>2, PTL

\* The table of objects reloc_resolve is given is a layout: every object has a
\* destination, no two destinations meet, and nothing that is allocated later can
\* touch a destination or a source (compute_relocations, blacklist_bootloader_mem).
THEOREM LayoutIsSound == Machine => (Spec => []HandsOverLayout)
<1>. SUFFICES ASSUME Machine PROVE Spec => []HandsOverLayout
  OBVIOUS
<1>1. Spec => []IInv
  BY Always
<1>2. IInv => HandsOverLayout
  BY LayoutHandedOver
<1>. QED
  BY <1>1, <1>2, PTL

\* The memory used while the objects move is RAM, and apart from the boot loader's
\* memory, from every destination and from each other (relocate_runtime_services,
\* the moves of reloc_resolve, install_trampoline, relocate_page_tables2).
THEOREM SafeMemory == Machine => (Spec => []SafeStaysSafe)
<1>. SUFFICES ASSUME Machine PROVE Spec => []SafeStaysSafe
  OBVIOUS
<1>1. Spec => []IInv
  BY Always
<1>2. IInv => SafeStaysSafe
  BY SafeIsSafe
<1>. QED
  BY <1>1, <1>2, PTL

\* relocs[] has room for everything that is written in it, the delimiters that
\* nobody counts included (add_runtime_object, reloc_resolve, install_trampoline).
THEOREM TableHasRoom == Machine => (Spec => []TableNotOverrun)
<1>. SUFFICES ASSUME Machine PROVE Spec => []TableNotOverrun
  OBVIOUS
<1>1. Spec => []IInv
  BY Always
<1>2. IInv => TableNotOverrun
  BY TableFits
<1>. QED
  BY <1>1, <1>2, PTL

\* The sanity checks of the allocator and of reloc_resolve, which loop for ever
\* when they find something, never do (alloc_sanity_check, reloc_sanity_check).
THEOREM NoHang == Machine => (Spec => []NeverHangs)
<1>. SUFFICES ASSUME Machine PROVE Spec => []NeverHangs
  OBVIOUS
<1>1. Spec => []IInv
  BY Always
<1>2. IInv => NeverHangs
  BY DEF IInv, Holds, Steps, NeverHangs
<1>. QED
  BY <1>1, <1>2, PTL

\* When the kernel's memory is about to be allocated, and the firmware reported no
\* byte twice, the pages that the allocator's table leaves free are the pages of
\* RAM, all of them and no other, but for the low megabyte and the firmware's
\* tables: merging the map loses nothing, and blacklisting rounds to pages only
\* what is not a whole page of RAM (e820_mmap_merge, e820_to_blacklist,
\* blacklist_runtime_mem).
THEOREM MemoryKept == Machine => (Spec => []MemoryNotLost)
<1>. SUFFICES ASSUME Machine PROVE Spec => []MemoryNotLost
  OBVIOUS
<1>1. Spec => []IInv
  BY Always
<1>2. Init => MemoryNotLost
  BY DEF Init, MemoryNotLost
<1>3. IInv /\ MemoryNotLost /\ [Next]_vars => MemoryNotLost'
  <2>. SUFFICES ASSUME IInv, MemoryNotLost, [Next]_vars PROVE MemoryNotLost'
    OBVIOUS
  <2>1. CASE firmware_shutdown
    BY <2>1, NothingLost
  <2>2. CASE Next /\ ~firmware_shutdown
    BY <2>2, OnlyOnShutdown DEF MemoryNotLost
  <2>3. CASE UNCHANGED vars
    BY <2>3, Zenon DEF vars, MemoryNotLost, RangesApart, Allocatable, InRam
  <2>. QED
    BY <2>1, <2>2, <2>3
<1>. QED
  BY <1>1, <1>2, <1>3, PTL DEF Spec

\* On an x86 with nothing but its first instructions in the last page below 4GB,
\* the system information and the trampoline's region end below 4GB whenever the
\* kernel begins there (set_runtime_addr tries after the kernel first: the comment
\* at mboot/reloc.c:794, compute_relocations).
THEOREM SystemInfoLow == LowMachine => (Spec => []InfoBelow4GB)
<1>1. CASE ~X86
  <2>1. InfoBelow4GB
    BY <1>1 DEF InfoBelow4GB
  <2>. QED
    BY <2>1, PTL
<1>2. CASE X86
  BY <1>2, LowAlways
<1>. QED
  BY <1>1, <1>2

=============================================================================
