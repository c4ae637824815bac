----------------------------- MODULE AllocTable -----------------------------
(***************************************************************************)
(* The allocation table of bootlib/alloc.c as pure operators, with the     *)
(* range predicates of bootlib/e820.c it is built on.                      *)
(*                                                                         *)
(* A table is a sequence of ranges [base, len].  All address arithmetic is *)
(* that of uint64_t, i.e. modulo AddrLimit (2^64 in the program): a range  *)
(* that reaches the top of the address space has an End of 0.              *)
(***************************************************************************)
EXTENDS Integers, Sequences, Least

CONSTANTS
  AddrLimit,   \* number of addresses: 2^64 in the program
  MaxAddr32,   \* MAX_32_BIT_ADDR
  MaxAllocs,   \* MAX_ALLOCS_NR, the size of allocs[]
  PageSize     \* PAGE_SIZE

ASSUME AddressSpace ==
  /\ AddrLimit \in Nat \ {0, 1}
  /\ MaxAddr32 \in 0 .. AddrLimit - 1
  /\ MaxAllocs \in Nat \ {0}
  /\ PageSize \in Nat \ {0}
  /\ AddrLimit % PageSize = 0

Addr      == 0 .. AddrLimit - 1
AddrRange == [base : Addr, len : Addr]

Wrap(n) == n % AddrLimit

\* One past the last byte of a range, as the C expression base + len.
End(r) == Wrap(r.base + r.len)

\* The C test (base + len) < base.
Overflows(r) == End(r) < r.base

\* The same without wrapping.
Top(r) == r.base + r.len

\* The bytes a range stands for; a range never wraps past the top.
Bytes(r) == {a \in Addr : r.base <= a /\ a < r.base + r.len}

-----------------------------------------------------------------------------
(* bootlib/e820.c: both predicates first order the two ranges by base.     *)

Lower(r, s)  == IF s.base < r.base THEN s ELSE r
Higher(r, s) == IF s.base < r.base THEN r ELSE s

\* A slip: contiguous ranges are left apart.
is_mergeable_strict(r, s) ==
  \/ Overflows(Lower(r, s))
  \/ Higher(r, s).base < End(Lower(r, s))

is_mergeable(r, s) ==
  \/ Overflows(Lower(r, s))
  \/ Higher(r, s).base <= End(Lower(r, s))

is_overlap(r, s) ==
  \/ Overflows(Lower(r, s))
  \/ Higher(r, s).base < End(Lower(r, s))

roundup64(n, unit) ==
  Wrap((n \div unit + (IF n % unit > 0 THEN 1 ELSE 0)) * unit)

PAGE_ADDR(a)     == a - (a % PageSize)
PAGE_ALIGN_UP(n) == PAGE_ADDR(Wrap(n + PageSize - 1))

-----------------------------------------------------------------------------
(* alloc_add: where a range enters the table, and what it absorbs.         *)

\* idx of alloc_add: the first entry the new range precedes or merges with,
\* or the end of the table.
InsertionPoint(t, r) ==
  Least({n \in 1 .. Len(t) : r.base <= t[n].base \/ is_mergeable(r, t[n])}
          \cup {Len(t) + 1})

\* A slip: merging with one entry only.
MergeOne(t, r, idx) ==
  IF idx <= Len(t) /\ is_mergeable(r, t[idx]) THEN idx + 1 ELSE idx

\* The first entry at or after idx that the new range does not merge with.
MergeLimit(t, r, idx) ==
  Least({n \in idx .. Len(t) : ~is_mergeable(r, t[n])} \cup {Len(t) + 1})

\* The union of the new range and entries idx .. last.
MergedRange(t, r, idx, last) ==
  LET newbase == IF r.base <= t[idx].base THEN r.base ELSE t[idx].base
      newend  == IF Overflows(r) \/ Overflows(t[last])
                   THEN 0
                   ELSE IF End(r) >= End(t[last]) THEN End(r) ELSE End(t[last])
  IN  [base |-> newbase, len |-> Wrap(newend - newbase)]

\* Replace entries first .. limit - 1 of t by the single range r (memmove).
Splice(t, first, limit, r) ==
  [n \in 1 .. Len(t) - (limit - first) + 1 |->
     IF n < first THEN t[n]
     ELSE IF n = first THEN r ELSE t[n + (limit - first) - 1]]

\* A slip: one entry too many.
Overfull(t) == Len(t) > MaxAllocs

Full(t) == Len(t) >= MaxAllocs

alloc_add(t, r) ==
  LET idx    == InsertionPoint(t, r)
      limit  == MergeLimit(t, r, idx)
      merges == limit - idx
  IN  IF merges = 0 /\ Full(t)
        THEN [status |-> "OUT_OF_RESOURCES", table |-> t]
        ELSE [status |-> "SUCCESS",
              table  |-> Splice(t, idx, limit,
                                IF merges = 0
                                  THEN r
                                  ELSE MergedRange(t, r, idx, limit - 1))]

-----------------------------------------------------------------------------
(* is_free_mem and find_free_mem: the search for unallocated memory.       *)

is_free_mem(t, r) == \A i \in 1 .. Len(t) : ~is_overlap(r, t[i])

\* The hole before entry i, and the first aligned address in it.
HoleBase(t, i)         == IF i = 1 THEN 0 ELSE End(t[i - 1])
HoleLen(t, i)          == Wrap(t[i].base - HoleBase(t, i))
AlignedAddr(t, i, align) == roundup64(HoleBase(t, i), align)
Padding(t, i, align)   == Wrap(AlignedAddr(t, i, align) - HoleBase(t, i))

\* A slip: one address short of the 32-bit limit.
GivesUpEarly(t, i, size, align, option) ==
  /\ HoleLen(t, i) >= size
  /\ \/ AlignedAddr(t, i, align) < HoleBase(t, i)
     \/ Wrap(size + Padding(t, i, align)) < size
     \/ /\ option = "32BIT"
        /\ Wrap(AlignedAddr(t, i, align) + size) >= MaxAddr32

\* The tests of the loop body that break out of it.
GivesUp(t, i, size, align, option) ==
  /\ HoleLen(t, i) >= size
  /\ \/ AlignedAddr(t, i, align) < HoleBase(t, i)
     \/ Wrap(size + Padding(t, i, align)) < size
     \/ /\ option = "32BIT"
        /\ Wrap(AlignedAddr(t, i, align) + size) > MaxAddr32

Fits(t, i, size, align, option) ==
  /\ HoleLen(t, i) >= size
  /\ ~GivesUp(t, i, size, align, option)
  /\ Wrap(Padding(t, i, align) + size) <= HoleLen(t, i)

\* The holes whose examination ends the loop, with or without success.
Stops(t, size, align, option) ==
  {i \in 1 .. Len(t) : \/ GivesUp(t, i, size, align, option)
                       \/ Fits(t, i, size, align, option)}

find_free_mem(t, size, align, option) ==
  LET i == Least(Stops(t, size, align, option))
  IN  IF /\ Stops(t, size, align, option) # {}
         /\ Fits(t, i, size, align, option)
        THEN [status |-> "SUCCESS", addr |-> AlignedAddr(t, i, align)]
        ELSE [status |-> "OUT_OF_RESOURCES", addr |-> 0]

-----------------------------------------------------------------------------
(* alloc_sanity_check: entries are non-empty, sorted, and do not touch past *)
(* the top of the address space.  The program loops for ever on a table it  *)
(* rejects, so a failing alloc on such a table never returns: "HANG".       *)

Limit(r) == Wrap(r.base + r.len - 1)

alloc_sanity_check(t) ==
  /\ t # << >>
  /\ \A i \in 1 .. Len(t) :
       /\ t[i].len # 0
       /\ \/ i = Len(t) /\ End(t[i]) = 0
          \/ End(t[i]) > t[i].base
       /\ i > 1 => Limit(t[i - 1]) < t[i].base /\ Limit(t[i - 1]) <= Limit(t[i])

Failure(t) ==
  [status |-> IF alloc_sanity_check(t) THEN "OUT_OF_RESOURCES" ELSE "HANG",
   addr |-> 0, table |-> t]

-----------------------------------------------------------------------------
(* alloc, the entry point, and blacklist_runtime_mem, which rounds to pages *)

\* Enter r in the table once its address is settled.
Commit(t, r) ==
  LET added == alloc_add(t, r)
  IN  IF added.status = "SUCCESS"
        THEN [status |-> "SUCCESS", addr |-> r.base, table |-> added.table]
        ELSE Failure(t)

alloc(t, addr, size, align, option) ==
  LET found == find_free_mem(t, size, align, option)
      at(a) == [base |-> a, len |-> size]
  IN  CASE size = 0 -> [status |-> "SUCCESS", addr |-> 0, table |-> t]
        [] size > 0 /\ option = "FORCE" -> Commit(t, at(addr))
        [] size > 0 /\ option = "FIXED" ->
             IF is_free_mem(t, at(addr)) THEN Commit(t, at(addr)) ELSE Failure(t)
        [] size > 0 /\ option \in {"ANY", "32BIT"} ->
             IF found.status = "SUCCESS"
               THEN Commit(t, at(found.addr))
               ELSE Failure(t)

\* A slip: the bytes between the start of the page and addr are not added.
PageRangeShort(addr, size) ==
  [base |-> PAGE_ADDR(addr), len |-> PAGE_ALIGN_UP(size)]

PageRange(addr, size) ==
  LET start == PAGE_ADDR(addr)
  IN  [base |-> start, len |-> PAGE_ALIGN_UP(Wrap(size + (addr - start)))]

blacklist_runtime_mem(t, addr, size) ==
  LET pages == PageRange(addr, size)
  IN  alloc(t, pages.base, pages.len, 1, "FORCE")

-----------------------------------------------------------------------------
(* What a table means, and when it is well formed.                          *)

\* Every byte the table holds allocated.
TableBytes(t) == UNION {Bytes(t[i]) : i \in 1 .. Len(t)}

\* Entries are non-empty, inside the address space, sorted, and apart.
Sane(t) ==
  /\ \A i \in 1 .. Len(t) : t[i].len > 0 /\ t[i].base + t[i].len <= AddrLimit
  /\ \A i, j \in 1 .. Len(t) : i < j => t[i].base + t[i].len < t[j].base
=============================================================================
