-------------------------------- MODULE E820 --------------------------------
(***************************************************************************)
(* The system memory map of bootlib/e820.c: sorted and merged by           *)
(* e820_mmap_merge, then turned by e820_to_blacklist into requests to the  *)
(* run-time allocator, after those of the architecture and of the firmware *)
(* tables (bootlib/system.c).                                              *)
(***************************************************************************)
EXTENDS AllocTable, FiniteSets

CONSTANT LowMegabyte   \* LOW_IBM_PC_MEGABYTE on x86; 0 on the others

ASSUME LowMemory ==
  LowMegabyte \in 0 .. AddrLimit - 1 /\ LowMegabyte % PageSize = 0

-----------------------------------------------------------------------------
(* bootlib/sort.c: a stable sort, as the indices in their new order.        *)

\* Whether i comes before j: by their keys, and where those are equal as it was.
Before(key, i, j) ==
  \/ key[i] < key[j]
  \/ key[i] = key[j] /\ i < j

bubble_sort(key) ==
  [n \in 1 .. Cardinality(DOMAIN key) |->
     CHOOSE i \in DOMAIN key :
       Cardinality({j \in DOMAIN key : Before(key, j, i)}) = n - 1]

\* The entries of s at the indices order[1], order[2] and so on.
Entries(s, order) == [n \in DOMAIN order |-> s[order[n]]]

-----------------------------------------------------------------------------
(* The memory map.                                                          *)

\* "bootloader" stands for what only the boot loader may use until it is done.
Types == {"available", "bootloader", "reserved"}
Usable == {"available", "bootloader"}

MemoryMaps == Seq([base : Addr, len : Addr, type : Types])

SortedByBase(m) == Entries(m, bubble_sort([i \in DOMAIN m |-> m[i].base]))

IS_E820_MERGEABLE(r, s) == r.type = s.type /\ is_mergeable(r, s)

\* Whether entry i of a sorted map merges with the one before it.
Joins(s, i) == i > 1 /\ IS_E820_MERGEABLE(s[i - 1], s[i])

\* The first entry of every run of entries each of which merges with the next.
Heads(s) == bubble_sort([i \in {i \in DOMAIN s : ~Joins(s, i)} |-> i])

LastJoined(s, i) == Least({j \in i .. Len(s) : j = Len(s) \/ ~Joins(s, j + 1)})

\* The run that begins with entry i.  It ends where the last of them ends.
MergedEntry(s, i) ==
  IF LastJoined(s, i) = i
    THEN s[i]
    ELSE [s[i] EXCEPT !.len = Wrap(End(s[LastJoined(s, i)]) - s[i].base)]

e820_mmap_merge(m) ==
  LET s == SortedByBase(m)
  IN  [n \in DOMAIN Heads(s) |-> MergedEntry(s, Heads(s)[n])]

e820_sanity_check(m) ==
  \A i \in DOMAIN m :
    /\ ~Overflows(m[i]) \/ (i = Len(m) /\ End(m[i]) = 0)
    /\ i > 1 => m[i - 1].base <= m[i].base

-----------------------------------------------------------------------------
(* The requests made of blacklist_runtime_mem, in order.                   *)

Request(base, len) == [base |-> base, len |-> len]

\* A request that is not made is one for nothing.
When(made, r) == Request(r.base, IF made THEN r.len ELSE 0)

\* Everything above the last entry.
AboveLast(m) == LET top == End(m[Len(m)]) IN Request(top, Wrap(AddrLimit - top))

\* A slip: holes in the map are left alone.
NoGapBefore(m, i) == Request(m[i].base, 0)

\* The hole before entry i: an unsigned difference, which wraps when entry i
\* starts below the end of the one before it.
GapBefore(m, i) ==
  LET addr == IF i = 1 THEN 0 ELSE End(m[i - 1])
  IN  Request(addr, Wrap(m[i].base - addr))

\* A slip: the bootloader's memory is blacklisted before the kernel is placed.
ReservedBy(m, i) == When(m[i].type # "available", m[i])

KeptFromKernel(m, i) == When(m[i].type \notin Usable, m[i])

\* The entries the loop looks at: it never gets past an empty one.
Looked(m) == Least({i \in DOMAIN m : m[i].len = 0} \cup {Len(m) + 1}) - 1

\* What is above the map, then for each entry the hole before it and itself.
E820Requests(m) ==
  [k \in 1 .. 2 * Looked(m) + 1 |->
     CASE k = 1              -> AboveLast(m)
       [] k > 1 /\ k % 2 = 0 -> GapBefore(m, k \div 2)
       [] k > 1 /\ k % 2 = 1 -> KeptFromKernel(m, k \div 2)]

\* A table that covers all of the address space has one entry, with a len of 0:
\* 2^64 modulo 2^64.  What is called after that is left out of the model.
Covered(result) == result.table = <<Request(0, 0)>>

AlsoBlacklist(result, r) ==
  IF result.status # "SUCCESS" \/ Covered(result) \/ r.len = 0
    THEN result ELSE blacklist_runtime_mem(result.table, r.base, r.len)

\* Blacklist one range after the other, until one fails.
BlacklistAll(t, requests) ==
  LET after[n \in 0 .. Len(requests)] ==
        IF n = 0 THEN [status |-> "SUCCESS", addr |-> 0, table |-> t]
                 ELSE AlsoBlacklist(after[n - 1], requests[n])
  IN  after[Len(requests)]

\* e820_to_blacklist, once the architecture's ranges are in the table.
e820_to_blacklist(arch, m) ==
  CASE arch.status # "SUCCESS" -> arch
    [] arch.status = "SUCCESS" /\ e820_sanity_check(m) ->
         BlacklistAll(arch.table, E820Requests(m))
    [] arch.status = "SUCCESS" /\ ~e820_sanity_check(m) ->
         [status |-> "INVALID_PARAMETER", addr |-> 0, table |-> arch.table]

\* tables: the firmware tables found, such as the SMBIOS ones.
system_blacklist_memory(t, m, tables) ==
  e820_to_blacklist(BlacklistAll(t, <<Request(0, LowMegabyte)>> \o tables), m)
=============================================================================
