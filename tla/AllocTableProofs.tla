-------------------------- MODULE AllocTableProofs --------------------------
(***************************************************************************)
(* Lemmas about the operators of AllocTable, for an address space, a page  *)
(* and a table of any size: what the range predicates of e820.c say of     *)
(* ranges that do not wrap, and what alloc_add, find_free_mem and          *)
(* alloc_sanity_check do to a well-formed table.                           *)
(***************************************************************************)
EXTENDS AllocTable, LeastProofs

\* A range that holds something and stays inside the address space.
Good(r) == r \in AddrRange /\ r.len > 0 /\ Top(r) <= AddrLimit

GoodTable(t) == t \in Seq(AddrRange) /\ Sane(t)

\* The bytes that some of the entries hold.
Held(t, first, last) == UNION {Bytes(t[n]) : n \in first .. last}

-----------------------------------------------------------------------------
(* Arithmetic modulo the size of the address space.                         *)

LEMMA WrapSmall == \A n \in 0 .. AddrLimit - 1 : Wrap(n) = n
BY AddressSpace DEF Wrap

LEMMA WrapOver == \A n \in AddrLimit .. 2 * AddrLimit - 1 : Wrap(n) = n - AddrLimit
BY AddressSpace DEF Wrap

LEMMA WrapUnder == \A n \in 1 - AddrLimit .. -1 : Wrap(n) = n + AddrLimit
BY AddressSpace DEF Wrap

LEMMA WrapType == \A n \in Int : Wrap(n) \in Addr
BY AddressSpace DEF Wrap, Addr

LEMMA Division ==
  \A n \in Nat, u \in Nat \ {0} :
    /\ n = (n \div u) * u + (n % u)
    /\ n % u \in 0 .. u - 1
    /\ n \div u \in Nat
OBVIOUS

LEMMA Multiple == \A q \in Nat, u \in Nat \ {0} : (q * u) % u = 0
OBVIOUS

-----------------------------------------------------------------------------
(* Pages.                                                                   *)

\* Where one page begins after another has begun, a whole page has passed.
LEMMA PagesStep ==
  ASSUME NEW p \in Nat, NEW q \in Nat,
         p % PageSize = 0, q % PageSize = 0, p < q
  PROVE  p + PageSize <= q
<1>1. PageSize \in Nat \ {0}
  BY AddressSpace
<1>. PICK u \in Nat \ {0} : u = PageSize
  BY <1>1
<1>. DEFINE i == p \div u
            j == q \div u
<1>2. i \in Nat /\ p = i * u + (p % u)
  BY Division
<1>3. j \in Nat /\ q = j * u + (q % u)
  BY Division
<1>. HIDE DEF i, j
<1>4. i * u \in Nat /\ j * u \in Nat /\ p = i * u /\ q = j * u
  BY <1>2, <1>3
<1>5. i < j
  BY <1>2, <1>3, <1>4
<1>6. (j - (i + 1)) * u >= 0
  BY <1>2, <1>3, <1>5
<1>7. (j - (i + 1)) * u = j * u - i * u - u
  BY <1>2, <1>3
<1>. QED
  BY <1>4, <1>6, <1>7

\* The page of an address.
LEMMA PageOf ==
  ASSUME NEW a \in Nat
  PROVE  /\ PAGE_ADDR(a) \in Nat /\ PAGE_ADDR(a) % PageSize = 0
         /\ PAGE_ADDR(a) <= a /\ a < PAGE_ADDR(a) + PageSize
         /\ \A p \in Nat : p % PageSize = 0 /\ p <= a /\ a < p + PageSize
                             => PAGE_ADDR(a) = p
<1>1. PageSize \in Nat \ {0}
  BY AddressSpace
<1>. PICK u \in Nat \ {0} : u = PageSize
  BY <1>1
<1>. DEFINE i == a \div u
<1>2. i \in Nat /\ a = i * u + (a % u) /\ a % u \in 0 .. u - 1
  BY Division
<1>3. PAGE_ADDR(a) = a - (a % u)
  BY DEF PAGE_ADDR
<1>. HIDE DEF i
<1>4. i * u \in Nat /\ PAGE_ADDR(a) = i * u
  BY <1>2, <1>3
<1>5. PAGE_ADDR(a) % u = 0
  BY <1>2, <1>4, Multiple
<1>6. PAGE_ADDR(a) <= a /\ a < PAGE_ADDR(a) + u
  BY <1>2, <1>3
<1>. PICK b \in Nat : b = PAGE_ADDR(a)
  BY <1>4
<1>7. ASSUME NEW p \in Nat, p % u = 0, p <= a, a < p + u PROVE b = p
  <2>1. p < b => p + u <= b
    BY <1>5, <1>7, PagesStep
  <2>2. b < p => b + u <= p
    BY <1>5, <1>7, PagesStep
  <2>. QED
    BY <1>6, <1>7, <2>1, <2>2
<1>. QED
  BY <1>4, <1>5, <1>6, <1>7

-----------------------------------------------------------------------------
(* Ranges.                                                                  *)

\* A range overflows in C if it ends with the address space.
LEMMA Ends ==
  ASSUME NEW r, Good(r)
  PROVE  /\ Overflows(r) <=> Top(r) = AddrLimit
         /\ End(r) = IF Top(r) = AddrLimit THEN 0 ELSE Top(r)
<1>1. r.base \in 0 .. AddrLimit - 1 /\ r.len \in 1 .. AddrLimit - 1 /\ AddrLimit \in Nat
  BY AddressSpace DEF Good, AddrRange, Addr
<1>2. CASE Top(r) = AddrLimit
  <2>1. End(r) = 0
    BY <1>1, <1>2, WrapOver DEF End, Top
  <2>. QED
    BY <1>1, <1>2, <2>1 DEF Overflows, Top
<1>3. CASE Top(r) # AddrLimit
  <2>1. End(r) = Top(r)
    BY <1>1, <1>3, WrapSmall DEF End, Top, Good
  <2>. QED
    BY <1>1, <1>3, <2>1 DEF Overflows, Top
<1>. QED
  BY <1>2, <1>3

\* The predicates of e820.c say what their names promise, in either order of
\* their arguments and at the top of the address space too.
LEMMA RangePredicates ==
  ASSUME NEW r, NEW s, Good(r), Good(s)
  PROVE  /\ is_mergeable(r, s) <=> r.base <= Top(s) /\ s.base <= Top(r)
         /\ is_overlap(r, s) <=> r.base < Top(s) /\ s.base < Top(r)
<1>1. /\ r.base \in 0 .. AddrLimit - 1 /\ r.len \in 1 .. AddrLimit - 1
      /\ s.base \in 0 .. AddrLimit - 1 /\ s.len \in 1 .. AddrLimit - 1
      /\ Top(r) <= AddrLimit /\ Top(s) <= AddrLimit /\ AddrLimit \in Nat
  BY AddressSpace DEF Good, AddrRange, Addr
<1>2. CASE s.base < r.base
  BY <1>1, <1>2, Ends DEF is_mergeable, is_overlap, Lower, Higher, Top
<1>3. CASE ~(s.base < r.base)
  BY <1>1, <1>3, Ends DEF is_mergeable, is_overlap, Lower, Higher, Top
<1>. QED
  BY <1>2, <1>3

LEMMA GoodEntries ==
  ASSUME NEW t, GoodTable(t)
  PROVE  /\ Len(t) \in Nat
         /\ \A i \in 1 .. Len(t) :
              t[i].base \in Nat /\ Top(t[i]) \in Nat /\ t[i].base < Top(t[i])
         /\ \A i \in 1 .. Len(t) :
              /\ Good(t[i])
              /\ t[i].base \in 0 .. AddrLimit - 1
              /\ t[i].len \in 1 .. AddrLimit - 1
              /\ Top(t[i]) \in 1 .. AddrLimit
         /\ \A i, j \in 1 .. Len(t) : i < j => Top(t[i]) < t[j].base
<1>1. t \in Seq(AddrRange) /\ Len(t) \in Nat /\ \A i \in 1 .. Len(t) : t[i] \in AddrRange
  BY DEF GoodTable
<1>2. \A i \in 1 .. Len(t) : t[i].base \in Addr /\ t[i].len \in Addr
  BY <1>1 DEF AddrRange
<1>. QED
  BY <1>1, <1>2, AddressSpace DEF GoodTable, Sane, Good, Top, Addr

-----------------------------------------------------------------------------
(* alloc_add.                                                               *)

\* Where the new range goes: what is before idx ends before it, what is at or
\* after limit begins after it, what is in between merges with it.
LEMMA Placement ==
  ASSUME NEW t, NEW r, GoodTable(t), Good(r),
         NEW idx, idx = InsertionPoint(t, r),
         NEW limit, limit = MergeLimit(t, r, idx)
  PROVE  /\ idx \in 1 .. Len(t) + 1 /\ limit \in idx .. Len(t) + 1
         /\ \A n \in 1 .. idx - 1 : Top(t[n]) < r.base
         /\ \A n \in limit .. Len(t) : Top(r) < t[n].base
         /\ \A n \in idx .. limit - 1 : r.base <= Top(t[n]) /\ t[n].base <= Top(r)
<1>. DEFINE Entering == {n \in 1 .. Len(t) : r.base <= t[n].base \/ is_mergeable(r, t[n])}
                          \cup {Len(t) + 1}
            Leaving  == {n \in idx .. Len(t) : ~is_mergeable(r, t[n])} \cup {Len(t) + 1}
<1>1. Len(t) \in Nat
  BY GoodEntries
<1>2. \A n \in 1 .. Len(t) :
        /\ is_mergeable(r, t[n]) <=> r.base <= Top(t[n]) /\ t[n].base <= Top(r)
        /\ t[n].base \in Nat /\ Top(t[n]) \in Nat /\ t[n].base < Top(t[n])
  BY GoodEntries, RangePredicates DEF Top
<1>3. r.base \in Nat /\ Top(r) \in Nat /\ r.base < Top(r)
  BY AddressSpace DEF Good, AddrRange, Addr, Top
<1>4. IsLeast(idx, Entering)
  <2>1. idx = Least(Entering) /\ Entering \subseteq Nat /\ Entering # {}
    BY <1>1 DEF InsertionPoint
  <2>. HIDE DEF Entering
  <2>. QED
    BY <2>1, LeastIsLeast
<1>5. /\ idx \in 1 .. Len(t) + 1
      /\ \A n \in 1 .. idx - 1 : ~(r.base <= t[n].base) /\ ~is_mergeable(r, t[n])
  BY <1>1, <1>4 DEF IsLeast
<1>6. IsLeast(limit, Leaving)
  <2>1. limit = Least(Leaving) /\ Leaving \subseteq Nat /\ Leaving # {}
    BY <1>1, <1>5 DEF MergeLimit
  <2>. HIDE DEF Leaving
  <2>. QED
    BY <2>1, LeastIsLeast
<1>7. /\ limit \in idx .. Len(t) + 1
      /\ \A n \in idx .. limit - 1 : is_mergeable(r, t[n])
      /\ limit <= Len(t) => ~is_mergeable(r, t[limit])
  BY <1>1, <1>5, <1>6, SMTT(30) DEF IsLeast
<1>8. ASSUME NEW n \in 1 .. idx - 1 PROVE Top(t[n]) < r.base
  <2>1. n \in 1 .. Len(t) /\ ~(r.base <= t[n].base) /\ ~is_mergeable(r, t[n])
    BY <1>1, <1>5
  <2>. QED
    BY <1>2, <1>3, <2>1
<1>9. \A n \in idx .. limit - 1 : r.base <= Top(t[n]) /\ t[n].base <= Top(r)
  BY <1>1, <1>2, <1>5, <1>7
<1>10. ASSUME limit <= Len(t) PROVE Top(r) < t[limit].base
  <2>1. limit \in 1 .. Len(t)
    BY <1>1, <1>5, <1>7, <1>10
  <2>2. CASE limit = idx
    <3>1. r.base <= t[idx].base
      BY <1>4, <1>7, <1>10, <2>1, <2>2 DEF IsLeast
    <3>. QED
      BY <1>2, <1>3, <1>7, <1>10, <2>1, <2>2, <3>1
  <2>3. CASE limit > idx
    <3>1. r.base <= Top(t[idx]) /\ idx \in 1 .. Len(t)
      BY <1>1, <1>5, <1>7, <1>9, <2>3
    <3>2. Top(t[idx]) < t[limit].base
      BY <2>1, <2>3, <3>1, GoodEntries
    <3>. QED
      BY <1>2, <1>3, <1>7, <1>10, <2>1, <3>1, <3>2, SMTT(30)
  <2>. QED
    BY <1>7, <2>2, <2>3, <1>1, <1>5
<1>11. \A n \in limit .. Len(t) : Top(r) < t[n].base
  <2>. SUFFICES ASSUME NEW n \in limit .. Len(t) PROVE Top(r) < t[n].base
    OBVIOUS
  <2>1. limit \in 1 .. Len(t) /\ n \in 1 .. Len(t)
    BY <1>1, <1>5, <1>7
  <2>2. limit < n => Top(t[limit]) < t[n].base
    BY <2>1, GoodEntries
  <2>. QED
    BY <1>2, <1>3, <1>10, <2>1, <2>2
<1>. QED
  BY <1>5, <1>7, <1>8, <1>9, <1>11
-----------------------------------------------------------------------------
\* What merging makes of the new range and the entries it merges with, provided
\* some address stays free: the range that holds exactly their bytes.
LEMMA Merging ==
  ASSUME NEW t, NEW r, GoodTable(t), Good(r),
         NEW idx \in 1 .. Len(t), NEW last \in idx .. Len(t),
         \A n \in idx .. last : r.base <= Top(t[n]) /\ t[n].base <= Top(r),
         TableBytes(t) \cup Bytes(r) # Addr,
         NEW m, m = MergedRange(t, r, idx, last)
  PROVE  /\ Good(m)
         /\ Bytes(m) = Bytes(r) \cup Held(t, idx, last)
         /\ m.base = r.base \/ m.base = t[idx].base
         /\ Top(m) = Top(r) \/ Top(m) = Top(t[last])
<1>. DEFINE low  == IF r.base <= t[idx].base THEN r.base ELSE t[idx].base
            high == IF Top(r) >= Top(t[last]) THEN Top(r) ELSE Top(t[last])
            Cover == {a \in Addr : low <= a /\ a < high}
<1>1. /\ idx \in 1 .. Len(t) /\ last \in 1 .. Len(t) /\ idx <= last
      /\ AddrLimit \in Nat \ {0, 1} /\ Addr = 0 .. AddrLimit - 1
  BY GoodEntries, AddressSpace DEF Addr
<1>2. /\ r.base \in 0 .. AddrLimit - 1 /\ r.len \in 1 .. AddrLimit - 1
      /\ Top(r) = r.base + r.len /\ Top(r) \in 1 .. AddrLimit
  BY <1>1 DEF Good, AddrRange, Top
<1>3. \A n \in 1 .. Len(t) :
        /\ Good(t[n])
        /\ t[n].base \in 0 .. AddrLimit - 1 /\ t[n].len \in 1 .. AddrLimit - 1
        /\ Top(t[n]) = t[n].base + t[n].len /\ Top(t[n]) \in 1 .. AddrLimit
  BY GoodEntries DEF Top
<1>4. /\ low \in 0 .. AddrLimit - 1 /\ high \in 1 .. AddrLimit /\ low < high
      /\ low <= r.base /\ low <= t[idx].base /\ Top(r) <= high /\ Top(t[last]) <= high
  BY <1>1, <1>2, <1>3, SMTT(30)
<1>5. \A n \in idx .. last : t[idx].base <= t[n].base /\ Top(t[n]) <= Top(t[last])
  <2>. SUFFICES ASSUME NEW n \in idx .. last
                PROVE  t[idx].base <= t[n].base /\ Top(t[n]) <= Top(t[last])
    OBVIOUS
  <2>1. n \in 1 .. Len(t)
    BY <1>1
  <2>2. idx < n => Top(t[idx]) < t[n].base
    BY <1>1, <2>1, GoodEntries
  <2>3. n < last => Top(t[n]) < t[last].base
    BY <1>1, <2>1, GoodEntries
  <2>4. \A k \in 1 .. Len(t) :
          t[k].base \in Nat /\ Top(t[k]) \in Nat /\ t[k].base < Top(t[k])
    BY <1>1, <1>3, SMTT(30)
  <2>5. t[idx].base <= t[n].base
    BY <1>1, <2>1, <2>2, <2>4, SMTT(30)
  <2>6. Top(t[n]) <= Top(t[last])
    BY <1>1, <2>1, <2>3, <2>4
  <2>. QED
    BY <2>5, <2>6
<1>6. Cover = Bytes(r) \cup Held(t, idx, last)
  <2>1. ASSUME NEW a \in Cover
        PROVE  a \in Bytes(r) \cup Bytes(t[idx]) \cup Bytes(t[last])
    <3>1. r.base <= Top(t[idx]) /\ t[last].base <= Top(r)
      BY <1>1
    <3>. QED
      BY <1>1, <1>2, <1>3, <2>1, <3>1, SMTT(30) DEF Bytes
  <2>2. idx \in idx .. last /\ last \in idx .. last
    BY <1>1
  <2>3. ASSUME NEW n \in idx .. last PROVE Bytes(t[n]) \subseteq Cover
    <3>1. n \in 1 .. Len(t) /\ t[idx].base <= t[n].base /\ Top(t[n]) <= Top(t[last])
      BY <1>1, <1>5
    <3>. QED
      BY <1>1, <1>3, <1>4, <3>1, SMTT(30) DEF Bytes
  <2>4. Bytes(r) \subseteq Cover
    BY <1>1, <1>2, <1>4, SMTT(30) DEF Bytes
  <2>. HIDE DEF Cover
  <2>. QED
    BY <2>1, <2>2, <2>3, <2>4 DEF Held
<1>7. ~(low = 0 /\ high = AddrLimit)
  <2>1. Held(t, idx, last) \subseteq TableBytes(t)
    BY <1>1 DEF TableBytes, Held
  <2>2. TableBytes(t) \cup Bytes(r) \subseteq Addr
    BY DEF TableBytes, Bytes
  <2>3. Cover # Addr
    BY <1>6, <2>1, <2>2
  <2>. QED
    BY <1>1, <2>3
<1>8. m = [base |-> low, len |-> high - low]
  <2>. DEFINE newend == IF Overflows(r) \/ Overflows(t[last])
                          THEN 0
                          ELSE IF End(r) >= End(t[last]) THEN End(r) ELSE End(t[last])
  <2>1. newend = IF high = AddrLimit THEN 0 ELSE high
    BY <1>1, <1>2, <1>3, Ends
  <2>2. Wrap(newend - low) = high - low
    <3>1. CASE high = AddrLimit
      <4>1. newend - low \in 1 - AddrLimit .. -1 /\ newend - low + AddrLimit = high - low
        BY <1>1, <1>4, <1>7, <2>1, <3>1, SMTT(30)
      <4>. HIDE DEF newend, low, high
      <4>. QED
        BY <4>1, WrapUnder
    <3>2. CASE high # AddrLimit
      <4>1. newend - low \in 0 .. AddrLimit - 1 /\ newend = high
        BY <1>1, <1>4, <2>1, <3>2
      <4>. HIDE DEF newend, low, high
      <4>. QED
        BY <4>1, WrapSmall
    <3>. QED
      BY <3>1, <3>2
  <2>. QED
    BY <2>2 DEF MergedRange
<1>9. m.base = low /\ m.len = high - low /\ Top(m) = high
  <2>. HIDE DEF low, high
  <2>. QED
    BY <1>4, <1>8 DEF Top
<1>10. Good(m)
  <2>. HIDE DEF low, high
  <2>1. high - low \in 1 .. AddrLimit - 1
    BY <1>1, <1>4, <1>7
  <2>. QED
    BY <1>1, <1>4, <1>8, <1>9, <2>1 DEF Good, AddrRange
<1>11. Bytes(m) = Cover
  <2>. HIDE DEF low, high
  <2>. QED
    BY <1>9 DEF Bytes, Top
<1>. QED
  BY <1>6, <1>9, <1>10, <1>11

-----------------------------------------------------------------------------
\* Putting one range in the place of some entries, between those that end
\* before it and those that begin after it, keeps the table well formed.
LEMMA Splicing ==
  ASSUME NEW t, GoodTable(t), NEW m, Good(m),
         NEW first \in 1 .. Len(t) + 1, NEW limit \in first .. Len(t) + 1,
         \A n \in 1 .. first - 1 : Top(t[n]) < m.base,
         \A n \in limit .. Len(t) : Top(m) < t[n].base,
         NEW s, s = Splice(t, first, limit, m)
  PROVE  /\ GoodTable(s)
         /\ Len(s) = Len(t) - (limit - first) + 1
         /\ TableBytes(s) = Held(t, 1, first - 1) \cup Bytes(m) \cup Held(t, limit, Len(t))
<1>. DEFINE size == Len(t) - (limit - first) + 1
            old(n) == IF n < first THEN n ELSE n + (limit - first) - 1
<1>1. /\ Len(t) \in Nat /\ size \in Nat /\ first \in 1 .. size
      /\ \A n \in 1 .. size : n < first => n \in 1 .. first - 1 /\ n \in 1 .. Len(t)
      /\ \A n \in 1 .. size : n > first =>
            n + (limit - first) - 1 \in limit .. Len(t) /\ n + (limit - first) - 1 \in 1 .. Len(t)
  BY GoodEntries
<1>2. /\ s = [n \in 1 .. size |-> IF n = first THEN m ELSE t[old(n)]]
      /\ \A n \in 1 .. size : n # first => s[n] = t[old(n)] /\ old(n) \in 1 .. Len(t)
      /\ s[first] = m
  BY <1>1 DEF Splice
<1>3. \A n \in 1 .. Len(t) :
        Good(t[n]) /\ t[n].base \in Nat /\ Top(t[n]) \in Nat /\ t[n].base < Top(t[n])
  BY GoodEntries DEF Top
<1>4. m.base \in Nat /\ Top(m) \in Nat /\ m.base < Top(m)
  BY AddressSpace DEF Good, AddrRange, Addr, Top
<1>5. \A n \in 1 .. size : Good(s[n])
  BY <1>2, <1>3
<1>6. s \in Seq(AddrRange) /\ Len(s) = size
  <2>1. \A n \in 1 .. size : s[n] \in AddrRange
    BY <1>5 DEF Good
  <2>2. s \in [1 .. size -> AddrRange]
    BY <1>2, <2>1
  <2>. HIDE DEF size
  <2>. QED
    BY <1>1, <2>2
<1>7. ASSUME NEW i \in 1 .. size, NEW j \in 1 .. size, i < j
      PROVE  Top(s[i]) < s[j].base
  <2>1. CASE i = first
    <3>1. j # first /\ old(j) \in limit .. Len(t)
      BY <1>1, <1>7, <2>1
    <3>. HIDE DEF old, size
    <3>. QED
      BY <1>2, <2>1, <3>1
  <2>2. CASE j = first
    <3>1. i # first /\ old(i) \in 1 .. first - 1
      BY <1>1, <1>7, <2>2
    <3>. HIDE DEF old, size
    <3>. QED
      BY <1>2, <2>2, <3>1
  <2>3. CASE i # first /\ j # first
    <3>1. old(i) < old(j)
      BY <1>1, <1>7, <2>3
    <3>2. /\ old(i) \in 1 .. Len(t) /\ old(j) \in 1 .. Len(t)
          /\ s[i] = t[old(i)] /\ s[j] = t[old(j)]
      BY <1>2, <2>3
    <3>. HIDE DEF old, size
    <3>. QED
      BY <3>1, <3>2, GoodEntries
  <2>. QED
    BY <2>1, <2>2, <2>3
<1>8. Sane(s)
  <2>. HIDE DEF size
  <2>. QED
    BY <1>5, <1>6, <1>7 DEF Sane, Good, Top
<1>9. TableBytes(s) = Held(t, 1, first - 1) \cup Bytes(m) \cup Held(t, limit, Len(t))
  <2>1. ASSUME NEW i \in 1 .. size
        PROVE  \/ i = first
               \/ old(i) \in 1 .. first - 1
               \/ old(i) \in limit .. Len(t)
    BY <1>1
  <2>2. ASSUME NEW n \in 1 .. first - 1
        PROVE  n \in 1 .. size /\ n # first /\ old(n) = n
    BY <1>1
  <2>3. ASSUME NEW n \in limit .. Len(t)
        PROVE  LET i == n - (limit - first) + 1
               IN  i \in 1 .. size /\ i # first /\ old(i) = n
    BY <1>1
  <2>. HIDE DEF old, size
  <2>4. ASSUME NEW i \in 1 .. size
        PROVE  Bytes(s[i])
                 \subseteq Held(t, 1, first - 1) \cup Bytes(m) \cup Held(t, limit, Len(t))
    BY <1>2, <2>1 DEF Held
  <2>5. Bytes(m) \subseteq TableBytes(s)
    BY <1>1, <1>2, <1>6 DEF TableBytes
  <2>6. ASSUME NEW n \in 1 .. first - 1 PROVE Bytes(t[n]) \subseteq TableBytes(s)
    <3>1. n \in 1 .. size /\ s[n] = t[n]
      BY <1>2, <2>2
    <3>. QED
      BY <1>6, <3>1, Zenon DEF TableBytes
  <2>7. ASSUME NEW n \in limit .. Len(t) PROVE Bytes(t[n]) \subseteq TableBytes(s)
    <3>1. PICK i \in 1 .. size : i # first /\ old(i) = n
      BY <2>3
    <3>2. s[i] = t[n]
      BY <1>2, <3>1
    <3>. QED
      BY <1>6, <3>2, Zenon DEF TableBytes
  <2>8. TableBytes(s) = UNION {Bytes(s[i]) : i \in 1 .. size}
    BY <1>6 DEF TableBytes
  <2>9. TableBytes(s) \subseteq Held(t, 1, first - 1) \cup Bytes(m) \cup Held(t, limit, Len(t))
    BY <2>4, <2>8, Zenon
  <2>10. Held(t, 1, first - 1) \subseteq TableBytes(s) /\ Held(t, limit, Len(t)) \subseteq TableBytes(s)
    BY <2>6, <2>7, Zenon DEF Held
  <2>. QED
    BY <2>5, <2>9, <2>10, Zenon
<1>. QED
  BY <1>6, <1>8, <1>9 DEF GoodTable

\* alloc_add adds the bytes of the new range to the table, or finds it full.
LEMMA Adding ==
  ASSUME NEW t, NEW r, GoodTable(t), Good(r), TableBytes(t) \cup Bytes(r) # Addr
  PROVE  \/ /\ alloc_add(t, r).status = "OUT_OF_RESOURCES"
            /\ Len(t) >= MaxAllocs
         \/ /\ alloc_add(t, r).status = "SUCCESS"
            /\ GoodTable(alloc_add(t, r).table)
            /\ TableBytes(alloc_add(t, r).table) = TableBytes(t) \cup Bytes(r)
            /\ Len(t) <= MaxAllocs => Len(alloc_add(t, r).table) <= MaxAllocs
<1>. DEFINE idx   == InsertionPoint(t, r)
            limit == MergeLimit(t, r, idx)
            m     == IF limit - idx = 0 THEN r ELSE MergedRange(t, r, idx, limit - 1)
            s     == Splice(t, idx, limit, m)
<1>1. /\ idx \in 1 .. Len(t) + 1 /\ limit \in idx .. Len(t) + 1
      /\ \A n \in 1 .. idx - 1 : Top(t[n]) < r.base
      /\ \A n \in limit .. Len(t) : Top(r) < t[n].base
      /\ \A n \in idx .. limit - 1 : r.base <= Top(t[n]) /\ t[n].base <= Top(r)
  <2>. HIDE DEF idx, limit
  <2>1. idx = InsertionPoint(t, r) /\ limit = MergeLimit(t, r, idx)
    BY DEF idx, limit
  <2>. QED
    BY <2>1, Placement
<1>2. alloc_add(t, r) = IF limit - idx = 0 /\ Full(t)
                          THEN [status |-> "OUT_OF_RESOURCES", table |-> t]
                          ELSE [status |-> "SUCCESS", table |-> s]
  BY DEF alloc_add
<1>3. Len(t) \in Nat /\ MaxAllocs \in Nat
  BY GoodEntries, AddressSpace
<1>4. CASE limit = idx /\ Full(t)
  <2>1. limit - idx = 0
    BY <1>1, <1>3, <1>4
  <2>. QED
    BY <1>2, <1>4, <2>1 DEF Full
<1>5. CASE ~(limit = idx /\ Full(t))
  <2>1. ~(limit - idx = 0 /\ Full(t))
    BY <1>1, <1>3, <1>5
  <2>2. alloc_add(t, r).status = "SUCCESS" /\ alloc_add(t, r).table = s
    <3>. HIDE DEF s, idx, limit
    <3>. QED
      BY <1>2, <2>1
  <2>3. /\ Good(m)
        /\ Bytes(m) = Bytes(r) \cup Held(t, idx, limit - 1)
        /\ \A n \in 1 .. idx - 1 : Top(t[n]) < m.base
        /\ \A n \in limit .. Len(t) : Top(m) < t[n].base
    <3>1. CASE limit = idx
      <4>1. m = r /\ idx .. limit - 1 = {} /\ Held(t, idx, limit - 1) = {}
        BY <1>1, <1>3, <3>1 DEF Held
      <4>. HIDE DEF m, idx, limit
      <4>. QED
        BY <1>1, <4>1
    <3>2. CASE limit # idx
      <4>1. m = MergedRange(t, r, idx, limit - 1)
        BY <1>1, <1>3, <3>2
      <4>. HIDE DEF m, idx, limit
      <4>2. idx \in 1 .. Len(t) /\ limit - 1 \in idx .. Len(t) /\ limit - 1 \in 1 .. Len(t)
        BY <1>1, <1>3, <3>2
      <4>3. /\ Good(m)
            /\ Bytes(m) = Bytes(r) \cup Held(t, idx, limit - 1)
            /\ m.base = r.base \/ m.base = t[idx].base
            /\ Top(m) = Top(r) \/ Top(m) = Top(t[limit - 1])
        BY <1>1, <4>1, <4>2, Merging
      <4>4. ASSUME NEW n \in 1 .. idx - 1 PROVE Top(t[n]) < t[idx].base
        <5>1. n \in 1 .. Len(t) /\ n < idx
          BY <4>2, <1>3
        <5>. QED
          BY <4>2, <5>1, GoodEntries
      <4>5. ASSUME NEW n \in limit .. Len(t) PROVE Top(t[limit - 1]) < t[n].base
        <5>1. n \in 1 .. Len(t) /\ limit - 1 < n
          BY <4>2, <1>1, <1>3
        <5>. QED
          BY <4>2, <5>1, GoodEntries
      <4>. QED
        BY <1>1, <4>3, <4>4, <4>5
    <3>. QED
      BY <3>1, <3>2
  <2>. HIDE DEF m, idx, limit
  <2>4. /\ GoodTable(s)
        /\ Len(s) = Len(t) - (limit - idx) + 1
        /\ TableBytes(s) = Held(t, 1, idx - 1) \cup Bytes(m) \cup Held(t, limit, Len(t))
    BY <1>1, <2>3, Splicing, SMTT(30)
  <2>. HIDE DEF s
  <2>5. TableBytes(s) = TableBytes(t) \cup Bytes(r)
    <3>1. 1 .. Len(t) = (1 .. idx - 1) \cup (idx .. limit - 1) \cup (limit .. Len(t))
      BY <1>1, <1>3
    <3>2. TableBytes(t)
            = Held(t, 1, idx - 1) \cup Held(t, idx, limit - 1) \cup Held(t, limit, Len(t))
      BY <3>1, Zenon DEF TableBytes, Held
    <3>. QED
      BY <2>3, <2>4, <3>2
  <2>6. Len(t) <= MaxAllocs => Len(s) <= MaxAllocs
    BY <1>1, <1>3, <1>5, <2>4 DEF Full
  <2>. QED
    BY <2>2, <2>4, <2>5, <2>6
<1>. QED
  BY <1>4, <1>5

-----------------------------------------------------------------------------
(* alloc_sanity_check, is_free_mem and find_free_mem.                       *)

\* The check that hangs the machine accepts every well-formed table, even one
\* whose last entry ends with the address space.
LEMMA SanityHolds ==
  ASSUME NEW t, GoodTable(t), t # << >>
  PROVE  alloc_sanity_check(t)
<1>1. Len(t) \in Nat
  BY GoodEntries
<1>2. \A i \in 1 .. Len(t) : Limit(t[i]) = Top(t[i]) - 1
  <2>. SUFFICES ASSUME NEW i \in 1 .. Len(t) PROVE Limit(t[i]) = Top(t[i]) - 1
    OBVIOUS
  <2>1. /\ t[i].base \in 0 .. AddrLimit - 1 /\ t[i].len \in 1 .. AddrLimit - 1
        /\ t[i].base + t[i].len <= AddrLimit
    BY GoodEntries, AddressSpace DEF Good, Top
  <2>2. t[i].base + t[i].len - 1 \in 0 .. AddrLimit - 1
    BY <2>1, AddressSpace, SMTT(30)
  <2>3. Wrap(t[i].base + t[i].len - 1) = t[i].base + t[i].len - 1
    BY <2>1, <2>2, AddressSpace, WrapSmall
  <2>. QED
    BY <2>1, <2>3, AddressSpace DEF Limit, Top
<1>3. ASSUME NEW i \in 1 .. Len(t)
      PROVE  /\ t[i].len # 0
             /\ \/ i = Len(t) /\ End(t[i]) = 0
                \/ End(t[i]) > t[i].base
  <2>1. /\ t[i].base \in Nat /\ t[i].len \in Nat /\ t[i].len > 0
        /\ Top(t[i]) = t[i].base + t[i].len
        /\ End(t[i]) = IF Top(t[i]) = AddrLimit THEN 0 ELSE Top(t[i])
    BY GoodEntries, Ends, AddressSpace DEF Top
  <2>2. CASE Top(t[i]) = AddrLimit
    <3>1. ASSUME i # Len(t) PROVE FALSE
      <4>1. Len(t) \in 1 .. Len(t) /\ i < Len(t)
        BY <1>1, <3>1
      <4>2. Top(t[i]) < t[Len(t)].base /\ t[Len(t)].base \in 0 .. AddrLimit - 1
        BY <4>1, GoodEntries
      <4>. QED
        BY <2>2, <4>2, AddressSpace
    <3>. QED
      BY <2>1, <2>2, <3>1
  <2>3. CASE Top(t[i]) # AddrLimit
    BY <2>1, <2>3
  <2>. QED
    BY <2>1, <2>2, <2>3
<1>4. ASSUME NEW i \in 1 .. Len(t), i > 1
      PROVE  Limit(t[i - 1]) < t[i].base /\ Limit(t[i - 1]) <= Limit(t[i])
  <2>1. i - 1 \in 1 .. Len(t) /\ i - 1 < i
    BY <1>1, <1>4
  <2>2. Top(t[i - 1]) < t[i].base
    BY <2>1, GoodEntries
  <2>3. /\ Limit(t[i - 1]) = Top(t[i - 1]) - 1 /\ Limit(t[i]) = Top(t[i]) - 1
        /\ Top(t[i - 1]) \in Nat
    BY <1>2, <2>1, GoodEntries, AddressSpace
  <2>4. t[i].base \in Nat /\ Top(t[i]) \in Nat /\ t[i].base < Top(t[i])
    BY GoodEntries, AddressSpace DEF Top
  <2>. QED
    BY <2>2, <2>3, <2>4
<1>. QED
  BY <1>3, <1>4 DEF alloc_sanity_check

\* A range is free for is_free_mem only if nobody holds a byte of it.
LEMMA FreeIsFree ==
  ASSUME NEW t, NEW r, GoodTable(t), Good(r), is_free_mem(t, r)
  PROVE  Bytes(r) \cap TableBytes(t) = {}
<1>. SUFFICES ASSUME NEW i \in 1 .. Len(t), NEW a \in Bytes(r), a \in Bytes(t[i])
              PROVE  FALSE
  BY Zenon DEF TableBytes
<1>1. ~(r.base < Top(t[i]) /\ t[i].base < Top(r))
  BY GoodEntries, RangePredicates DEF is_free_mem
<1>2. /\ a \in Nat /\ r.base \in Nat /\ Top(r) \in Nat
      /\ t[i].base \in Nat /\ Top(t[i]) \in Nat
  BY GoodEntries, AddressSpace, SMTT(30) DEF Good, AddrRange, Addr, Bytes, Top
<1>3. r.base <= a /\ a < Top(r) /\ t[i].base <= a /\ a < Top(t[i])
  BY DEF Bytes, Top
<1>. QED
  BY <1>1, <1>2, <1>3

\* Rounding up to an alignment; a result past the top of the address space shows
\* as one below the argument.
LEMMA Rounding ==
  ASSUME NEW n \in Addr, NEW unit \in 1 .. AddrLimit - 1, roundup64(n, unit) >= n
  PROVE  /\ roundup64(n, unit) \in Addr
         /\ roundup64(n, unit) % unit = 0
<1>. DEFINE q == n \div unit + (IF n % unit > 0 THEN 1 ELSE 0)
            x == q * unit
<1>1. /\ AddrLimit \in Nat \ {0, 1} /\ n \in 0 .. AddrLimit - 1 /\ unit \in Nat \ {0}
      /\ unit < AddrLimit
  BY AddressSpace DEF Addr
<1>2. /\ n = (n \div unit) * unit + (n % unit)
      /\ n % unit \in 0 .. unit - 1 /\ n \div unit \in Nat
  BY <1>1, Division, SMTT(30)
<1>3. q \in Nat /\ x \in n .. n + unit - 1
  <2>1. CASE n % unit > 0
    <3>1. q = n \div unit + 1
      BY <2>1
    <3>2. x = (n \div unit) * unit + unit
      BY <1>1, <1>2, <3>1
    <3>3. (n \div unit) * unit \in Nat
      BY <1>1, <1>2
    <3>. HIDE DEF x
    <3>. QED
      BY <1>1, <1>2, <2>1, <3>1, <3>2, <3>3
  <2>2. CASE ~(n % unit > 0)
    <3>1. q = n \div unit /\ n % unit = 0
      BY <1>1, <1>2, <2>2
    <3>2. x = (n \div unit) * unit
      BY <3>1
    <3>3. n = (n \div unit) * unit
      BY <1>1, <1>2, <3>1
    <3>4. x = n
      BY <3>2, <3>3
    <3>. HIDE DEF x
    <3>. QED
      BY <1>1, <1>2, <3>1, <3>4
  <2>. QED
    BY <2>1, <2>2
<1>4. roundup64(n, unit) = Wrap(x)
  BY DEF roundup64
<1>. HIDE DEF x
<1>5. x < AddrLimit
  <2>1. SUFFICES ASSUME x >= AddrLimit PROVE FALSE
    BY <1>1, <1>3
  <2>2. x \in AddrLimit .. 2 * AddrLimit - 1
    BY <1>1, <1>3, <2>1
  <2>3. Wrap(x) = x - AddrLimit
    BY <2>2, WrapOver
  <2>. QED
    BY <1>1, <1>3, <1>4, <2>3
<1>6. roundup64(n, unit) = x
  BY <1>1, <1>3, <1>4, <1>5, WrapSmall
<1>7. x % unit = 0
  BY <1>1, <1>3, Multiple DEF x
<1>. QED
  BY <1>1, <1>3, <1>5, <1>6, <1>7 DEF Addr

\* Nothing aligned lies between an address and its rounding: if an aligned address
\* follows, the rounding does not wrap, and does not pass it.
LEMMA RoundsToNext ==
  ASSUME NEW n \in Addr, NEW unit \in 1 .. AddrLimit - 1,
         NEW a \in Addr, n <= a, a % unit = 0
  PROVE  n <= roundup64(n, unit) /\ roundup64(n, unit) <= a
<1>. DEFINE q == n \div unit
            k == a \div unit
            p == q + (IF n % unit > 0 THEN 1 ELSE 0)
<1>1. /\ AddrLimit \in Nat \ {0, 1} /\ n \in 0 .. AddrLimit - 1
      /\ a \in 0 .. AddrLimit - 1 /\ unit \in Nat \ {0}
  BY AddressSpace DEF Addr
<1>2. /\ n = q * unit + (n % unit) /\ n % unit \in 0 .. unit - 1 /\ q \in Nat
      /\ a = k * unit + (a % unit) /\ k \in Nat
  <2>1. n \in Nat /\ a \in Nat
    BY <1>1
  <2>. HIDE DEF p
  <2>2. n = q * unit + (n % unit) /\ n % unit \in 0 .. unit - 1 /\ q \in Nat
    BY <1>1, <2>1, Division
  <2>3. a = k * unit + (a % unit) /\ k \in Nat
    BY <1>1, <2>1, Division
  <2>. QED
    BY <2>2, <2>3
<1>3. roundup64(n, unit) = Wrap(p * unit)
  BY DEF roundup64
<1>. HIDE DEF q, k
<1>4. q * unit \in Nat /\ k * unit \in Nat /\ a = k * unit
  BY <1>1, <1>2
<1>5. p \in Nat /\ n <= p * unit /\ p <= k
  <2>1. CASE n % unit > 0
    <3>1. p = q + 1 /\ p * unit = q * unit + unit
      BY <1>1, <1>2, <2>1
    <3>2. q * unit < k * unit
      BY <1>1, <1>2, <1>4, <2>1
    <3>3. q < k
      BY <1>1, <1>2, <1>4, <3>2
    <3>. HIDE DEF p
    <3>. QED
      BY <1>1, <1>2, <1>4, <3>1, <3>3
  <2>2. CASE ~(n % unit > 0)
    <3>1. p = q /\ n % unit = 0
      BY <1>1, <1>2, <2>2
    <3>2. q * unit <= k * unit
      BY <1>1, <1>2, <1>4, <3>1
    <3>3. q <= k
      BY <1>1, <1>2, <1>4, <3>2
    <3>. HIDE DEF p
    <3>. QED
      BY <1>1, <1>2, <1>4, <3>1, <3>3
  <2>. QED
    BY <2>1, <2>2
<1>. HIDE DEF p
<1>6. p * unit \in Nat /\ p * unit <= k * unit
  BY <1>1, <1>2, <1>5
<1>7. Wrap(p * unit) = p * unit
  BY <1>1, <1>4, <1>6, WrapSmall
<1>. QED
  BY <1>3, <1>4, <1>5, <1>6, <1>7

\* The hole before an entry begins where the entry before ends, so after all that
\* the entries before hold.
LEMMA Holes ==
  ASSUME NEW t, GoodTable(t), NEW i \in 1 .. Len(t)
  PROVE  /\ HoleBase(t, i) \in 0 .. t[i].base /\ HoleBase(t, i) \in Addr
         /\ HoleLen(t, i) = t[i].base - HoleBase(t, i)
         /\ \A n \in 1 .. Len(t) : n < i => Top(t[n]) <= HoleBase(t, i)
         /\ i > 1 => i - 1 \in 1 .. Len(t) /\ HoleBase(t, i) = Top(t[i - 1])
<1>. DEFINE h == HoleBase(t, i)
<1>1. /\ Len(t) \in Nat /\ AddrLimit \in Nat \ {0, 1} /\ Addr = 0 .. AddrLimit - 1
      /\ t[i].base \in 0 .. AddrLimit - 1
  BY GoodEntries, AddressSpace DEF Addr
<1>2. /\ h \in 0 .. t[i].base
      /\ \A n \in 1 .. Len(t) : n < i => Top(t[n]) <= h
      /\ i > 1 => i - 1 \in 1 .. Len(t) /\ h = Top(t[i - 1])
  <2>1. CASE i = 1
    <3>1. h = 0
      BY <2>1 DEF HoleBase
    <3>. HIDE DEF h
    <3>. QED
      BY <1>1, <2>1, <3>1
  <2>2. CASE i # 1
    <3>1. i - 1 \in 1 .. Len(t) /\ i - 1 < i
      BY <1>1, <2>2
    <3>2. Top(t[i - 1]) < t[i].base /\ Good(t[i - 1]) /\ Top(t[i - 1]) \in 1 .. AddrLimit
      BY <3>1, GoodEntries
    <3>3. h = Top(t[i - 1])
      BY <1>1, <2>2, <3>2, Ends DEF HoleBase
    <3>4. ASSUME NEW n \in 1 .. Len(t), n < i PROVE Top(t[n]) <= Top(t[i - 1])
      <4>1. n = i - 1 \/ n < i - 1
        BY <1>1, <3>4
      <4>2. n < i - 1 => Top(t[n]) < t[i - 1].base
        BY <3>1, GoodEntries
      <4>3. /\ t[i - 1].base \in Nat /\ t[i - 1].base < Top(t[i - 1])
            /\ Top(t[n]) \in Nat /\ Top(t[i - 1]) \in Nat
        BY <3>1, GoodEntries
      <4>. QED
        BY <4>1, <4>2, <4>3
    <3>. HIDE DEF h
    <3>. QED
      BY <1>1, <3>1, <3>2, <3>3, <3>4
  <2>. QED
    BY <2>1, <2>2
<1>3. HoleLen(t, i) = t[i].base - h
  <2>1. t[i].base - h \in 0 .. AddrLimit - 1
    <3>. HIDE DEF h
    <3>. QED
      BY <1>1, <1>2
  <2>. QED
    BY <2>1, WrapSmall DEF HoleLen
<1>4. h \in Addr
  <2>. HIDE DEF h
  <2>. QED
    BY <1>1, <1>2
<1>. QED
  BY <1>2, <1>3, <1>4

\* An address that find_free_mem finds is aligned, and nobody holds a byte from
\* there to the end of the request.
LEMMA FoundIsFree ==
  ASSUME NEW t, GoodTable(t), NEW size \in Addr \ {0},
         NEW align \in 1 .. AddrLimit - 1, NEW option,
         NEW found, found = find_free_mem(t, size, align, option),
         found.status = "SUCCESS"
  PROVE  /\ found.addr \in Addr /\ found.addr + size <= AddrLimit
         /\ found.addr % align = 0
         /\ Bytes([base |-> found.addr, len |-> size]) \cap TableBytes(t) = {}
         /\ t # << >> /\ found.addr + size <= t[Len(t)].base
         /\ option = "32BIT" => found.addr + size <= MaxAddr32
<1>. DEFINE stops == Stops(t, size, align, option)
            i     == Least(stops)
            h     == HoleBase(t, i)
            x     == AlignedAddr(t, i, align)
            pad   == Padding(t, i, align)
<1>1. stops # {} /\ Fits(t, i, size, align, option) /\ found.addr = x
  BY DEF find_free_mem
<1>2. i \in 1 .. Len(t)
  <2>1. stops \subseteq 1 .. Len(t) /\ stops \subseteq Nat
    BY DEF Stops
  <2>. HIDE DEF stops
  <2>. QED
    BY <1>1, <2>1, LeastIsLeast DEF IsLeast
<1>. HIDE DEF i, stops
<1>3. /\ Len(t) \in Nat /\ AddrLimit \in Nat \ {0, 1} /\ Addr = 0 .. AddrLimit - 1
      /\ size \in 1 .. AddrLimit - 1 /\ t[i].base \in 0 .. AddrLimit - 1
  BY <1>2, GoodEntries, AddressSpace DEF Addr
<1>4. /\ h \in 0 .. t[i].base
      /\ \A n \in 1 .. Len(t) : n < i => Top(t[n]) <= h
  BY <1>2, Holes
<1>5. HoleLen(t, i) = t[i].base - h
  BY <1>2, Holes
<1>6. /\ ~(x < h) /\ ~(Wrap(size + pad) < size)
      /\ Wrap(pad + size) <= HoleLen(t, i)
  BY <1>1 DEF Fits, GivesUp
<1>7. x \in Addr /\ x >= h /\ x % align = 0
  <2>1. h \in Addr
    <3>. HIDE DEF h
    <3>. QED
      BY <1>3, <1>4
  <2>2. x \in Int
    <3>1. h \in Nat /\ align \in Nat \ {0}
      <4>. HIDE DEF h
      <4>. QED
        BY <1>3, <1>4
    <3>2. x = Wrap((h \div align + (IF h % align > 0 THEN 1 ELSE 0)) * align)
      BY DEF AlignedAddr, roundup64
    <3>3. (h \div align + (IF h % align > 0 THEN 1 ELSE 0)) * align \in Int
      <4>. HIDE DEF h
      <4>. QED
        BY <3>1, Division
    <3>. HIDE DEF h, x
    <3>. QED
      BY <1>3, <3>2, <3>3, WrapType
  <2>3. x = roundup64(h, align)
    BY DEF AlignedAddr
  <2>4. x >= h
    <3>. HIDE DEF x, h
    <3>. QED
      BY <1>3, <1>6, <2>1, <2>2
  <2>. HIDE DEF x, h
  <2>. QED
    BY <2>1, <2>3, <2>4, Rounding
<1>8. pad = x - h /\ pad \in 0 .. AddrLimit - 1
  <2>1. x - h \in 0 .. AddrLimit - 1
    <3>. HIDE DEF x, h
    <3>. QED
      BY <1>3, <1>4, <1>7
  <2>. QED
    BY <2>1, WrapSmall DEF Padding
<1>. HIDE DEF h, x, pad
<1>9. size + pad < AddrLimit
  <2>1. SUFFICES ASSUME size + pad >= AddrLimit PROVE FALSE
    BY <1>3, <1>8
  <2>2. size + pad \in AddrLimit .. 2 * AddrLimit - 1
    BY <1>3, <1>8, <2>1
  <2>3. Wrap(size + pad) = size + pad - AddrLimit
    BY <1>3, <1>8, <2>2, WrapOver
  <2>. QED
    BY <1>3, <1>6, <1>8, <2>3
<1>10. x + size <= t[i].base
  <2>1. pad + size \in 0 .. AddrLimit - 1
    BY <1>3, <1>8, <1>9
  <2>2. Wrap(pad + size) = pad + size
    BY <2>1, WrapSmall
  <2>. QED
    BY <1>3, <1>4, <1>5, <1>6, <1>7, <1>8, <2>2
<1>11. ASSUME NEW n \in 1 .. Len(t), NEW a \in Bytes(t[n]), x <= a, a < x + size
       PROVE  FALSE
  <2>1. /\ t[n].base <= a /\ a < Top(t[n]) /\ a \in Nat
        /\ t[n].base \in Nat /\ Top(t[n]) \in Nat
    <3>1. a \in Addr /\ t[n].base <= a /\ a < Top(t[n])
      BY Zenon DEF Bytes, Top
    <3>2. t[n].base \in Nat /\ Top(t[n]) \in Nat
      BY GoodEntries, Zenon
    <3>3. a \in Nat
      BY <1>3, <3>1
    <3>. QED
      BY <3>1, <3>2, <3>3, Zenon
  <2>2. n < i => Top(t[n]) <= h
    BY <1>4
  <2>3. i < n => t[i].base < t[n].base
    <3>1. i < n => Top(t[i]) < t[n].base
      BY <1>2, GoodEntries
    <3>2. Top(t[i]) \in Nat /\ t[i].base < Top(t[i])
      BY <1>2, <1>3, GoodEntries DEF Top
    <3>. QED
      BY <1>3, <2>1, <3>1, <3>2
  <2>4. n < i \/ n = i \/ i < n
    BY <1>2, <1>3
  <2>. QED
    BY <1>3, <1>4, <1>7, <1>10, <1>11, <2>1, <2>2, <2>3, <2>4, SMTT(30)
<1>12. Bytes([base |-> x, len |-> size]) \cap TableBytes(t) = {}
  <2>1. \A a \in Bytes([base |-> x, len |-> size]) : x <= a /\ a < x + size
    BY DEF Bytes
  <2>. QED
    BY <1>11, <2>1, Zenon DEF TableBytes
<1>13. t # << >> /\ x + size <= t[Len(t)].base
  <2>1. t # << >> /\ Len(t) \in 1 .. Len(t)
    <3>1. t = << >> => Len(t) = 0
      OBVIOUS
    <3>. QED
      BY <1>2, <1>3, <3>1
  <2>2. i < Len(t) => Top(t[i]) < t[Len(t)].base
    BY <1>2, <2>1, GoodEntries
  <2>3. /\ t[Len(t)].base \in Nat /\ Top(t[i]) \in Nat /\ t[i].base < Top(t[i])
        /\ x \in Nat
    BY <1>2, <1>3, <1>7, <2>1, GoodEntries
  <2>. QED
    BY <1>2, <1>3, <1>10, <2>1, <2>2, <2>3
<1>14. ASSUME option = "32BIT" PROVE x + size <= MaxAddr32
  <2>1. ~(Wrap(x + size) > MaxAddr32)
    <3>1. HoleLen(t, i) >= size
      BY <1>1 DEF Fits
    <3>. QED
      BY <1>1, <1>14, <3>1 DEF Fits, GivesUp, x
  <2>2. x + size \in 0 .. AddrLimit - 1
    BY <1>3, <1>7, <1>10
  <2>3. MaxAddr32 \in Nat
    BY AddressSpace
  <2>. QED
    BY <2>1, <2>2, <2>3, WrapSmall
<1>. QED
  BY <1>1, <1>3, <1>7, <1>10, <1>12, <1>13, <1>14

\* What find_free_mem may be asked to find: an aligned address from which size
\* bytes are free in a hole, for 32BIT in a low one.
Fitting(t, a, size, align, option) ==
  /\ a \in Addr /\ a % align = 0
  /\ t # << >> /\ a + size <= t[Len(t)].base
  /\ option = "32BIT" => a + size <= MaxAddr32
  /\ Bytes([base |-> a, len |-> size]) \cap TableBytes(t) = {}

\* A fitting address lies in a hole that the loop of find_free_mem does not break
\* out of, and neither does it in any hole before.
LEMMA FittingHole ==
  ASSUME NEW t, GoodTable(t), NEW size \in Addr \ {0},
         NEW align \in 1 .. AddrLimit - 1, NEW option,
         NEW a, Fitting(t, a, size, align, option)
  PROVE  \E k \in 1 .. Len(t) :
           /\ Fits(t, k, size, align, option)
           /\ HoleBase(t, k) <= a
           /\ \A i \in 1 .. k :
                /\ ~GivesUp(t, i, size, align, option)
                /\ AlignedAddr(t, i, align) <= a
<1>. DEFINE above == {n \in 1 .. Len(t) : a < Top(t[n])}
<1>1. /\ Len(t) \in Nat \ {0} /\ AddrLimit \in Nat \ {0, 1} /\ Addr = 0 .. AddrLimit - 1
      /\ size \in 1 .. AddrLimit - 1 /\ a \in 0 .. AddrLimit - 1 /\ a % align = 0
      /\ MaxAddr32 \in Nat
      /\ a + size <= t[Len(t)].base /\ t[Len(t)].base \in 0 .. AddrLimit - 1
  <2>1. t # << >> /\ Len(t) \in Nat /\ t \in Seq(AddrRange)
    BY GoodEntries DEF Fitting, GoodTable
  <2>2. Len(t) \in 1 .. Len(t)
    BY <2>1
  <2>. QED
    BY <2>1, <2>2, GoodEntries, AddressSpace DEF Addr, Fitting
<1>2. PICK k \in 1 .. Len(t) : a < Top(t[k]) /\ \A n \in 1 .. k - 1 : Top(t[n]) <= a
  <2>1. Len(t) \in above
    <3>1. Len(t) \in 1 .. Len(t)
      BY <1>1
    <3>2. t[Len(t)].base < Top(t[Len(t)]) /\ Top(t[Len(t)]) \in Nat
      BY <3>1, GoodEntries
    <3>. QED
      BY <1>1, <3>1, <3>2
  <2>2. above \subseteq Nat
    OBVIOUS
  <2>3. IsLeast(Least(above), above)
    <3>. HIDE DEF above
    <3>. QED
      BY <2>1, <2>2, LeastIsLeast
  <2>4. \A n \in 1 .. Len(t) : Top(t[n]) \in Nat
    BY GoodEntries
  <2>. DEFINE m == Least(above)
  <2>5. m \in above /\ \A n \in above : m <= n
    BY <2>3 DEF IsLeast
  <2>. HIDE DEF m
  <2>6. m \in 1 .. Len(t) /\ a < Top(t[m])
    BY <2>5
  <2>7. ASSUME NEW n \in 1 .. m - 1 PROVE Top(t[n]) <= a
    <3>1. n \in 1 .. Len(t) /\ ~(m <= n)
      BY <1>1, <2>6
    <3>2. ~(a < Top(t[n]))
      BY <2>5, <3>1
    <3>. QED
      BY <1>1, <2>4, <3>1, <3>2
  <2>. QED
    BY <2>6, <2>7
<1>3. \A n \in 1 .. Len(t) : t[n].base \in Nat /\ Top(t[n]) \in Nat /\ t[n].base < Top(t[n])
  BY GoodEntries
<1>4. \A b \in Addr : a <= b /\ b < a + size => ~(t[k].base <= b /\ b < Top(t[k]))
  <2>1. Bytes([base |-> a, len |-> size]) \cap Bytes(t[k]) = {}
    BY DEF Fitting, TableBytes
  <2>. QED
    BY <2>1 DEF Bytes, Top
<1>5. a + size <= t[k].base
  <2>1. a < t[k].base
    BY <1>1, <1>2, <1>3, <1>4
  <2>2. ASSUME t[k].base < a + size PROVE FALSE
    <3>1. t[k].base \in Addr /\ a <= t[k].base
      BY <1>1, <1>3, <2>1, GoodEntries
    <3>. QED
      BY <1>3, <1>4, <2>2, <3>1
  <2>. QED
    BY <1>1, <1>3, <2>2
<1>6. \A n \in 1 .. Len(t) :
        n < k \/ n = k => t[n].base <= t[k].base
  <2>. SUFFICES ASSUME NEW n \in 1 .. Len(t), n < k PROVE t[n].base <= t[k].base
    BY <1>3
  <2>1. Top(t[n]) < t[k].base
    BY GoodEntries
  <2>. QED
    BY <1>3, <2>1
<1>7. ASSUME NEW i \in 1 .. k
      PROVE  /\ i \in 1 .. Len(t) /\ HoleBase(t, i) <= a
             /\ HoleBase(t, i) \in 0 .. t[i].base /\ HoleBase(t, i) \in Addr
  <2>1. i \in 1 .. Len(t) /\ HoleBase(t, i) \in 0 .. t[i].base /\ HoleBase(t, i) \in Addr
    BY <1>1, Holes
  <2>2. CASE i = 1
    BY <1>1, <2>1, <2>2 DEF HoleBase
  <2>3. CASE i > 1
    <3>1. HoleBase(t, i) = Top(t[i - 1])
      BY <2>1, <2>3, Holes
    <3>2. i - 1 \in 1 .. k - 1
      BY <1>1, <2>3
    <3>. QED
      BY <1>2, <2>1, <3>1, <3>2
  <2>. QED
    BY <1>1, <2>1, <2>2, <2>3
<1>8. ASSUME NEW i \in 1 .. k
      PROVE  LET x   == AlignedAddr(t, i, align)
                 pad == Padding(t, i, align)
             IN  /\ x \in Nat /\ HoleBase(t, i) <= x /\ x <= a
                 /\ pad = x - HoleBase(t, i)
                 /\ Wrap(size + pad) = size + pad /\ Wrap(pad + size) = pad + size
                 /\ Wrap(x + size) = x + size
  <2>. DEFINE h == HoleBase(t, i)
              x == AlignedAddr(t, i, align)
              pad == Padding(t, i, align)
  <2>1. h \in Addr /\ h <= a
    BY <1>7
  <2>2. h <= x /\ x <= a /\ x \in Addr
    <3>1. x = roundup64(h, align)
      BY DEF AlignedAddr
    <3>2. a \in Addr
      BY <1>1
    <3>. HIDE DEF h, x
    <3>3. h <= x /\ x <= a
      BY <1>1, <2>1, <3>1, <3>2, RoundsToNext
    <3>. QED
      BY <2>1, <3>1, <3>3, Rounding
  <2>3. pad = Wrap(x - h)
    BY DEF Padding
  <2>. HIDE DEF h, x, pad
  <2>4. x - h \in 0 .. AddrLimit - 1
    BY <1>1, <2>1, <2>2
  <2>5. pad = x - h
    BY <2>3, <2>4, WrapSmall
  <2>6. size + pad \in 0 .. AddrLimit - 1 /\ pad + size \in 0 .. AddrLimit - 1
    BY <1>1, <2>1, <2>2, <2>5
  <2>7. x + size \in 0 .. AddrLimit - 1
    BY <1>1, <2>2
  <2>8. Wrap(size + pad) = size + pad /\ Wrap(pad + size) = pad + size
    BY <2>6, WrapSmall
  <2>9. Wrap(x + size) = x + size
    BY <2>7, WrapSmall
  <2>. QED
    BY <1>1, <2>2, <2>5, <2>8, <2>9 DEF h, x, pad
<1>9. ASSUME NEW i \in 1 .. k
      PROVE  ~GivesUp(t, i, size, align, option) /\ AlignedAddr(t, i, align) <= a
  <2>. DEFINE h == HoleBase(t, i)
              x == AlignedAddr(t, i, align)
              pad == Padding(t, i, align)
  <2>1. /\ x \in Nat /\ h <= x /\ x <= a /\ pad = x - h /\ h \in Nat
        /\ Wrap(size + pad) = size + pad /\ Wrap(x + size) = x + size
    BY <1>1, <1>7, <1>8, SMTT(30)
  <2>2. option = "32BIT" => a + size <= MaxAddr32
    BY DEF Fitting
  <2>3. ~GivesUp(t, i, size, align, option)
        <=> ~(/\ HoleLen(t, i) >= size
              /\ \/ x < h
                 \/ Wrap(size + pad) < size
                 \/ option = "32BIT" /\ Wrap(x + size) > MaxAddr32)
    BY DEF GivesUp
  <2>. HIDE DEF h, x, pad
  <2>4. /\ ~(x < h) /\ ~(Wrap(size + pad) < size)
        /\ option = "32BIT" => ~(Wrap(x + size) > MaxAddr32)
    BY <1>1, <2>1, <2>2
  <2>5. ~GivesUp(t, i, size, align, option)
    BY <2>3, <2>4
  <2>. QED
    BY <2>1, <2>5 DEF x
<1>10. Fits(t, k, size, align, option)
  <2>. DEFINE h == HoleBase(t, k)
              x == AlignedAddr(t, k, align)
              pad == Padding(t, k, align)
  <2>1. k \in 1 .. k
    BY <1>1
  <2>2. /\ x \in Nat /\ h <= x /\ x <= a /\ pad = x - h /\ h \in Nat
        /\ Wrap(pad + size) = pad + size /\ h <= a
    BY <1>1, <1>7, <1>8, <2>1
  <2>3. HoleLen(t, k) = t[k].base - h
    BY Holes
  <2>4. ~GivesUp(t, k, size, align, option)
    BY <1>9, <2>1
  <2>. HIDE DEF h, x, pad
  <2>5. HoleLen(t, k) >= size /\ Wrap(pad + size) <= HoleLen(t, k)
    BY <1>1, <1>3, <1>5, <2>2, <2>3
  <2>. QED
    BY <2>4, <2>5 DEF Fits, pad
<1>. QED
  BY <1>1, <1>7, <1>9, <1>10

\* find_free_mem finds the lowest fitting address, and fails only if there is
\* none, although it breaks out of its loop at the first hole that overflows or
\* is above 4GB.
LEMMA FoundIsLowest ==
  ASSUME NEW t, GoodTable(t), NEW size \in Addr \ {0},
         NEW align \in 1 .. AddrLimit - 1, NEW option,
         NEW found, found = find_free_mem(t, size, align, option)
  PROVE  /\ found.status = "SUCCESS" => Fitting(t, found.addr, size, align, option)
         /\ \A a \in Addr :
              Fitting(t, a, size, align, option)
                => found.status = "SUCCESS" /\ found.addr <= a
<1>. DEFINE stops == Stops(t, size, align, option)
            i     == Least(stops)
<1>1. ASSUME found.status = "SUCCESS"
      PROVE  Fitting(t, found.addr, size, align, option)
  <2>1. /\ found.addr \in Addr /\ found.addr % align = 0
        /\ found.addr + size <= t[Len(t)].base /\ t # << >>
        /\ option = "32BIT" => found.addr + size <= MaxAddr32
        /\ Bytes([base |-> found.addr, len |-> size]) \cap TableBytes(t) = {}
    BY <1>1, FoundIsFree
  <2>. QED
    BY <2>1 DEF Fitting
<1>2. ASSUME NEW a \in Addr, Fitting(t, a, size, align, option)
      PROVE  found.status = "SUCCESS" /\ found.addr <= a
  <2>1. PICK k \in 1 .. Len(t) :
          /\ Fits(t, k, size, align, option)
          /\ \A n \in 1 .. k :
               /\ ~GivesUp(t, n, size, align, option)
               /\ AlignedAddr(t, n, align) <= a
    BY <1>2, FittingHole
  <2>2. k \in stops /\ stops \subseteq 1 .. Len(t) /\ stops \subseteq Nat
    BY <2>1 DEF Stops
  <2>3. IsLeast(i, stops)
    <3>. HIDE DEF stops
    <3>. QED
      BY <2>2, LeastIsLeast
  <2>4. i \in stops /\ i \in 1 .. k
    <3>. HIDE DEF stops, i
    <3>1. i \in stops /\ i <= k /\ i \in 1 .. Len(t)
      BY <2>2, <2>3 DEF IsLeast
    <3>2. Len(t) \in Nat
      BY GoodEntries
    <3>. QED
      BY <3>1, <3>2
  <2>5. Fits(t, i, size, align, option) /\ AlignedAddr(t, i, align) <= a
    <3>1. /\ GivesUp(t, i, size, align, option) \/ Fits(t, i, size, align, option)
          /\ ~GivesUp(t, i, size, align, option) /\ AlignedAddr(t, i, align) <= a
      <4>1. i \in stops
        BY <2>4
      <4>2. stops \subseteq {n \in 1 .. Len(t) : \/ GivesUp(t, n, size, align, option)
                                                 \/ Fits(t, n, size, align, option)}
        BY DEF Stops
      <4>. HIDE DEF stops, i
      <4>. QED
        BY <2>1, <2>4, <4>1, <4>2
    <3>. QED
      BY <3>1
  <2>6. found = [status |-> "SUCCESS", addr |-> AlignedAddr(t, i, align)]
    <3>1. stops # {}
      BY <2>2
    <3>. QED
      BY <2>5, <3>1 DEF find_free_mem
  <2>. HIDE DEF i
  <2>. QED
    BY <2>5, <2>6
<1>. QED
  BY <1>1, <1>2

-----------------------------------------------------------------------------
(* blacklist_runtime_mem.                                                   *)

LEMMA PageLength ==
  ASSUME NEW addr \in Addr, NEW size \in Addr
  PROVE  PageRange(addr, size).len \in Nat
<1>1. /\ AddrLimit \in Nat /\ Addr = 0 .. AddrLimit - 1
      /\ addr \in Nat /\ size \in Nat /\ PageSize \in Nat \ {0}
  BY AddressSpace DEF Addr
<1>2. \A n \in Nat : PAGE_ADDR(n) \in Nat /\ PAGE_ADDR(n) <= n
  <2>. SUFFICES ASSUME NEW n \in Nat PROVE PAGE_ADDR(n) \in Nat /\ PAGE_ADDR(n) <= n
    OBVIOUS
  <2>1. /\ n = (n \div PageSize) * PageSize + (n % PageSize)
        /\ n % PageSize \in Nat /\ n \div PageSize \in Nat
    BY <1>1, Division
  <2>2. (n \div PageSize) * PageSize \in Nat
    BY <1>1, <2>1
  <2>. QED
    BY <2>1, <2>2 DEF PAGE_ADDR
<1>. DEFINE d == Wrap(size + (addr - PAGE_ADDR(addr)))
<1>3. d \in Nat
  <2>1. size + (addr - PAGE_ADDR(addr)) \in Int
    BY <1>1, <1>2
  <2>. QED
    BY <1>1, <2>1, WrapType
<1>4. PageRange(addr, size).len = PAGE_ADDR(Wrap(d + PageSize - 1))
  BY DEF PageRange, PAGE_ALIGN_UP
<1>. HIDE DEF d
<1>5. Wrap(d + PageSize - 1) \in Nat
  <2>1. d + PageSize - 1 \in Int
    BY <1>1, <1>3
  <2>. QED
    BY <1>1, <2>1, WrapType
<1>. QED
  BY <1>2, <1>4, <1>5

\* Rounding out to pages covers what was asked for, ends within a page of it, and
\* stays inside the address space; it shows as an empty range if it would wrap.
LEMMA Paging ==
  ASSUME NEW addr \in Addr, NEW size \in Addr, addr + size <= AddrLimit,
         NEW pages, pages = PageRange(addr, size), pages.len > 0
  PROVE  /\ Good(pages)
         /\ pages.base <= addr /\ addr + size <= Top(pages)
         /\ Top(pages) \in Nat /\ Top(pages) % PageSize = 0
         /\ Top(pages) < addr + size + PageSize
<1>. DEFINE off   == addr % PageSize
            start == addr - off
            d     == size + off
            w     == Wrap(Wrap(d) + PageSize - 1)
            len   == w - (w % PageSize)
<1>1. /\ AddrLimit \in Nat \ {0, 1} /\ PageSize \in Nat \ {0} /\ Addr = 0 .. AddrLimit - 1
      /\ addr \in Nat /\ size \in Nat /\ addr < AddrLimit /\ size < AddrLimit
      /\ AddrLimit % PageSize = 0
  BY AddressSpace DEF Addr
<1>2. /\ addr = (addr \div PageSize) * PageSize + off /\ off \in 0 .. PageSize - 1
      /\ addr \div PageSize \in Nat
      /\ AddrLimit = (AddrLimit \div PageSize) * PageSize /\ AddrLimit \div PageSize \in Nat
  <2>1. /\ AddrLimit = (AddrLimit \div PageSize) * PageSize + (AddrLimit % PageSize)
        /\ AddrLimit \div PageSize \in Nat
    BY <1>1, Division
  <2>2. (AddrLimit \div PageSize) * PageSize \in Nat
    BY <1>1, <2>1
  <2>3. AddrLimit = (AddrLimit \div PageSize) * PageSize
    BY <1>1, <2>1, <2>2
  <2>. QED
    BY <1>1, <2>1, <2>3, Division
<1>. HIDE DEF off
<1>3. start \in Nat /\ start = (addr \div PageSize) * PageSize /\ addr - start = off
  <2>1. (addr \div PageSize) * PageSize \in Nat
    BY <1>1, <1>2
  <2>. QED
    BY <1>1, <1>2, <2>1
<1>4. pages = [base |-> start, len |-> len]
  BY <1>3 DEF PageRange, PAGE_ALIGN_UP, PAGE_ADDR, off
<1>. HIDE DEF start
<1>5. d \in Nat /\ start + d <= AddrLimit /\ PageSize <= AddrLimit
  <2>1. AddrLimit \div PageSize >= 1
    BY <1>1, <1>2
  <2>2. PageSize <= (AddrLimit \div PageSize) * PageSize
    BY <1>1, <1>2, <2>1
  <2>. QED
    BY <1>1, <1>2, <1>3, <2>2
<1>. HIDE DEF d
<1>6. /\ w \in Nat /\ w = (w \div PageSize) * PageSize + (w % PageSize)
      /\ w % PageSize \in 0 .. PageSize - 1 /\ w \div PageSize \in Nat
  <2>1. w \in Nat
    <3>1. Wrap(d) \in Nat /\ Wrap(d) + PageSize - 1 \in Int
      BY <1>1, <1>5, WrapType
    <3>. QED
      BY <1>1, <3>1, WrapType
  <2>. HIDE DEF w
  <2>. QED
    BY <1>1, <2>1, Division
<1>7. len > 0 /\ len = (w \div PageSize) * PageSize
  <2>1. len > 0
    <3>. HIDE DEF len
    <3>. QED
      BY <1>4
  <2>. HIDE DEF w
  <2>2. (w \div PageSize) * PageSize \in Nat
    BY <1>1, <1>6
  <2>. QED
    BY <1>1, <1>6, <2>1, <2>2
<1>8. d < AddrLimit /\ w = d + PageSize - 1 /\ w < AddrLimit
  <2>1. ASSUME w < PageSize PROVE FALSE
    <3>1. w % PageSize = w
      <4>. HIDE DEF w
      <4>. QED
        BY <1>1, <1>6, <2>1
    <3>. HIDE DEF w
    <3>. QED
      BY <1>6, <1>7, <3>1
  <2>2. d < AddrLimit
    <3>1. SUFFICES ASSUME d = AddrLimit PROVE FALSE
      BY <1>1, <1>3, <1>5
    <3>2. Wrap(d) = 0
      BY <1>1, <3>1, WrapOver
    <3>3. w = PageSize - 1
      BY <1>1, <1>5, <3>2, WrapSmall
    <3>. HIDE DEF w
    <3>. QED
      BY <1>1, <2>1, <3>3
  <2>3. Wrap(d) = d
    BY <1>1, <1>5, <2>2, WrapSmall
  <2>4. d + PageSize - 1 < AddrLimit
    <3>1. SUFFICES ASSUME d + PageSize - 1 >= AddrLimit PROVE FALSE
      BY <1>1, <1>5
    <3>2. d + PageSize - 1 \in AddrLimit .. 2 * AddrLimit - 1
      BY <1>1, <1>5, <2>2, <3>1
    <3>3. w = d + PageSize - 1 - AddrLimit
      BY <1>1, <1>5, <2>3, <3>2, WrapOver
    <3>. HIDE DEF w
    <3>. QED
      BY <1>1, <1>5, <2>1, <2>2, <3>3
  <2>5. w = d + PageSize - 1
    BY <1>1, <1>5, <2>3, <2>4, WrapSmall
  <2>. QED
    BY <2>2, <2>4, <2>5
<1>. HIDE DEF w, len
<1>9. d <= len /\ len < AddrLimit
  BY <1>1, <1>5, <1>6, <1>7, <1>8
<1>10. start + len <= AddrLimit /\ (start + len) % PageSize = 0
  <2>. DEFINE q == addr \div PageSize
              j == w \div PageSize
              k == AddrLimit \div PageSize
  <2>1. q \in Nat /\ j \in Nat /\ k \in Nat
    BY <1>2, <1>6
  <2>2. start = q * PageSize /\ len = j * PageSize /\ AddrLimit = k * PageSize
    BY <1>2, <1>3, <1>7
  <2>. HIDE DEF q, j, k
  <2>3. start + len < AddrLimit + PageSize
    BY <1>1, <1>3, <1>5, <1>6, <1>7, <1>8, <2>1, <2>2, SMTT(30)
  <2>4. (q + j) * PageSize < (k + 1) * PageSize
    BY <1>1, <2>1, <2>2, <2>3
  <2>5. q + j <= k
    BY <1>1, <2>1, <2>4
  <2>6. start + len = (q + j) * PageSize /\ q + j \in Nat
    BY <1>1, <2>1, <2>2
  <2>7. (start + len) % PageSize = 0
    BY <1>1, <2>6, Multiple
  <2>8. start + len <= AddrLimit
    BY <1>1, <2>1, <2>2, <2>5
  <2>. QED
    BY <2>7, <2>8
<1>. QED
  <2>1. start \in Addr /\ len \in Addr
    BY <1>1, <1>2, <1>3, <1>5, <1>7, <1>9, <1>10
  <2>2. Top(pages) = start + len /\ start + len \in Nat
    BY <1>1, <1>3, <1>4, <1>9, <2>1 DEF Top, Addr
  <2>3. start + len < addr + size + PageSize
    BY <1>1, <1>2, <1>3, <1>6, <1>7, <1>8 DEF d
  <2>4. Good(pages)
    BY <1>1, <1>4, <1>7, <1>10, <2>1, <2>2 DEF Good, AddrRange
  <2>5. pages.base <= addr /\ addr + size <= start + len
    <3>1. addr = start + off /\ off \in Nat /\ size + off <= len /\ len \in Nat
      BY <1>1, <1>2, <1>3, <1>9, <2>1 DEF d, Addr
    <3>. QED
      BY <1>1, <1>3, <1>4, <3>1
  <2>. QED
    BY <1>10, <2>2, <2>3, <2>4, <2>5

-----------------------------------------------------------------------------
(* alloc, once it knows where.                                              *)

(* What a call may do: take the bytes of r, or nothing.                     *)
Takes(result, t, r) ==
  /\ result.status = "SUCCESS"
  /\ GoodTable(result.table) /\ Len(result.table) <= MaxAllocs
  /\ TableBytes(result.table) = TableBytes(t) \cup Bytes(r)

Refuses(result, t) ==
  /\ result.status = "OUT_OF_RESOURCES"
  /\ result.table = t

(* Entering a range in the table takes its bytes, if the table is not full. *)
LEMMA Committing ==
  ASSUME NEW t, NEW r, GoodTable(t), Good(r), Len(t) <= MaxAllocs,
         Commit(t, r).status = "SUCCESS" => TableBytes(t) \cup Bytes(r) # Addr
  PROVE  Takes(Commit(t, r), t, r) \/ Refuses(Commit(t, r), t)
<1>1. CASE alloc_add(t, r).status = "SUCCESS"
  <2>1. /\ Commit(t, r).status = "SUCCESS"
        /\ Commit(t, r).table = alloc_add(t, r).table
    BY <1>1 DEF Commit
  <2>. QED
    BY <1>1, <2>1, Adding DEF Takes
<1>2. CASE alloc_add(t, r).status # "SUCCESS"
  <2>1. Full(t)
    BY <1>2 DEF alloc_add
  <2>2. t # << >>
    BY <2>1, AddressSpace DEF Full
  <2>. QED
    BY <1>2, <2>2, SanityHolds DEF Commit, Failure, Refuses
<1>. QED
  BY <1>1, <1>2
=============================================================================
