---------------------------- MODULE RelocResolve ----------------------------
(***************************************************************************)
(* Ordering and running the relocations: reloc_resolve of mboot/reloc.c,   *)
(* which install_trampoline calls once every object has a destination and  *)
(* the boot loader's own memory is blacklisted, and do_reloc of            *)
(* mboot/trampoline.c, which then moves the objects one after the other.   *)
(*                                                                         *)
(* The relocation table is a function from 1 .. Count to entries; indices  *)
(* here are positions in the whole table, while the code indexes from      *)
(* &relocs[resolved_count].  An access to memory is one step per byte.     *)
(***************************************************************************)
EXTENDS Integers, Least

CONSTANTS
  Count,     \* reloc_count - 1: the entries before the delimiter
  MemLimit,  \* memory is 0 .. MemLimit - 1
  SafeMem,   \* the addresses alloc may still return: safe memory
  Tables     \* the relocation tables compute_relocations may leave

Addr == 0 .. MemLimit - 1
Null == 0      \* NULL source: the destination is to be zeroed
Zero == -1     \* the content of a zeroed byte

Entry == [src : Addr, dest : Addr, size : Addr \ {0}]

Span(base, size) == base .. base + size - 1

is_overlap(a1, l1, a2, l2) ==
  IF a2 < a1 THEN a1 < a2 + l2 ELSE a2 < a1 + l1

\* What compute_relocations establishes and reloc_sanity_check checks.  Two
\* objects may share source bytes, never destination bytes.
Layout(t) ==
  /\ t \in [1 .. Count -> Entry]
  /\ \A p \in 1 .. Count :
       /\ t[p].src # Null => Span(t[p].src, t[p].size) \subseteq Addr \ SafeMem
       /\ Span(t[p].dest, t[p].size) \subseteq Addr \ (SafeMem \cup {0})
  /\ \A p, q \in 1 .. Count :
       p # q => ~is_overlap(t[p].dest, t[p].size, t[q].dest, t[q].size)

ASSUME RelocInput ==
  /\ Count \in Nat \ {0}
  /\ MemLimit \in Nat
  /\ SafeMem \subseteq Addr \ {0}
  /\ \A t \in Tables : Layout(t)

VARIABLES
  pc,        \* where the code is: a loop, or how it ended
  relocs,    \* the relocation table
  resolved,  \* resolved_count
  n, i,      \* reloc_resolve's n, and its i (from 1)
  visited,   \* break_reloc_deadlock's visit counters, by index
  cur,       \* its i: the entry the walk is at
  smallest,  \* its choice so far
  left,      \* do_reloc: bytes of entry i not yet moved
  safe,      \* safe memory not yet allocated
  mem,       \* memory: what each address holds, named by where it came from
  objects    \* the table as it was when reloc_resolve was called

vars == <<pc, relocs, resolved, n, i, visited, cur, smallest, left, safe, mem,
          objects>>

order   == <<resolved, n, i>>
walk    == <<visited, cur, smallest>>
storage == <<safe, mem>>

Indices == 1 .. Count

\* The entries break_reloc_deadlock and the scan work on.
Unresolved == resolved + 1 .. Count

Init ==
  /\ objects \in Tables
  /\ relocs = objects
  /\ pc = "scan"
  /\ resolved = 0 /\ n = 0 /\ i = 1
  /\ visited = [p \in Indices |-> 0] /\ cur = 1 /\ smallest = 1
  /\ left = 0
  /\ safe = SafeMem
  /\ mem = [a \in Addr |-> a]

-----------------------------------------------------------------------------
(* find_reloc_dependency                                                   *)

\* Moving entry p would overwrite the source of entry q.
Overwrites(p, q) ==
  /\ relocs[q].src # Null
  /\ is_overlap(relocs[p].dest, relocs[p].size, relocs[q].src, relocs[q].size)

Dependencies(p, from) == {q \in from .. Count : q # p /\ Overwrites(p, q)}

\* A slip: looking only at the entries after p.
find_later_dependency(p, from) ==
  LET later == {q \in Dependencies(p, from) : q > p}
  IN  IF later = {} THEN p ELSE Least(later)

\* The first dependency of p at or after from, or p itself.
find_reloc_dependency(p, from) ==
  IF Dependencies(p, from) = {} THEN p ELSE Least(Dependencies(p, from))

-----------------------------------------------------------------------------
(* reloc_resolve: one pass of the outer loop scans the unresolved entries  *)
(* and moves those with no dependency to the front.                        *)

Scanned == resolved + i       \* &unresolved[i]
Front   == resolved + n + 1   \* &unresolved[n]

mem_swap(p, q) == [relocs EXCEPT ![p] = relocs[q], ![q] = relocs[p]]

ScanResolves ==
  /\ pc = "scan" /\ Scanned <= Count
  /\ find_reloc_dependency(Scanned, Front) = Scanned
  /\ relocs' = mem_swap(Scanned, Front)
  /\ n' = n + 1
  /\ i' = i + 1
  /\ UNCHANGED <<pc, resolved, walk, left, storage, objects>>

ScanSkips ==
  /\ pc = "scan" /\ Scanned <= Count
  /\ find_reloc_dependency(Scanned, Front) # Scanned
  /\ i' = i + 1
  /\ UNCHANGED <<pc, relocs, resolved, n, walk, left, storage, objects>>

\* The pass resolved something: start another one, or the table is ordered
\* and the trampoline starts on its first entry.
PassEnds ==
  /\ pc = "scan" /\ Scanned > Count /\ n > 0
  /\ resolved' = resolved + n
  /\ n' = 0
  /\ i' = 1
  /\ IF resolved' < Count
       THEN pc' = "scan" /\ UNCHANGED left
       ELSE pc' = "run" /\ left' = relocs[1].size
  /\ UNCHANGED <<relocs, walk, storage, objects>>

-----------------------------------------------------------------------------
(* break_reloc_deadlock                                                    *)

\* A slip: searching the whole table, not &relocs[resolved_count].
BiggestOfTable ==
  Least({p \in Indices : \A q \in Indices : relocs[q].size <= relocs[p].size})

\* The first of the largest unresolved entries.
Biggest ==
  Least({p \in Unresolved :
           \A q \in Unresolved : relocs[q].size <= relocs[p].size})

\* A slip: the counters of an earlier walk are left as they are.
OldVisits == visited

NoVisits == [p \in Indices |-> 0]

\* The pass resolved nothing: walk the dependencies from the largest entry.
Deadlock ==
  /\ pc = "scan" /\ Scanned > Count /\ n = 0
  /\ pc' = "walk"
  /\ visited' = NoVisits
  /\ cur' = Biggest
  /\ smallest' = Biggest
  /\ UNCHANGED <<relocs, order, left, storage, objects>>

\* A slip: comparing the wrong way round.
PicksBigger(p, visits) ==
  visits = 2 /\ relocs[p].size > relocs[smallest].size

\* The walk goes through the cycle a second time, and picks there.
Picks(p, visits) == visits = 2 /\ relocs[p].size < relocs[smallest].size

Walk ==
  LET next == find_reloc_dependency(cur, resolved + 1)
  IN  /\ pc = "walk"
      /\ visited' = [visited EXCEPT ![cur] = @ + 1]
      /\ smallest' = IF Picks(cur, visited'[cur]) THEN cur ELSE smallest
      /\ cur' = next
      /\ pc' = IF next = cur THEN "internal_error"
               ELSE IF visited'[next] < 2 THEN "walk" ELSE "move"
      /\ UNCHANGED <<relocs, order, left, storage, objects>>

\* Where alloc may put size bytes of safe memory.
SafePlaces(size) == {a \in safe : Span(a, size) \subseteq safe}

\* A slip: what alloc returns is not recorded as allocated.
StillFree(a, size) == safe

SafeAfter(a, size) == safe \ Span(a, size)

\* Copy the source of the chosen entry to safe memory.  A NULL source is
\* copied like any other: the bytes at address 0.
Move ==
  LET size == relocs[smallest].size
      src  == relocs[smallest].src
  IN  /\ pc = "move"
      /\ \E a \in SafePlaces(size) :
           /\ \A b \in SafePlaces(size) : a <= b
           /\ safe' = SafeAfter(a, size)
           /\ mem' = [b \in Addr |-> IF b \in Span(a, size)
                                       THEN mem[src + (b - a)]
                                       ELSE mem[b]]
           /\ relocs' = [relocs EXCEPT ![smallest].src = a]
      /\ pc' = "scan"
      /\ n' = 0
      /\ i' = 1
      /\ UNCHANGED <<resolved, walk, left, objects>>

\* reloc_resolve returns the error of alloc, and main panics.
NoSafeMemory ==
  /\ pc = "move"
  /\ SafePlaces(relocs[smallest].size) = {}
  /\ pc' = "out_of_resources"
  /\ UNCHANGED <<relocs, order, walk, left, storage, objects>>

-----------------------------------------------------------------------------
(* do_reloc: zero, or move, entry i of the ordered table.                  *)

\* A slip: always copying forwards.
OffsetUp(r) == r.size - left

\* The offset of the byte moved next: backwards, so that an object that
\* overlaps its own destination survives, unless it moves down.
Offset(r) == IF r.src = Null \/ r.src < r.dest THEN left - 1 ELSE r.size - left

do_reloc ==
  LET r == relocs[i]
  IN  /\ pc = "run" /\ left > 0
      /\ left' = left - 1
      /\ mem' = IF r.src = r.dest
                  THEN mem
                  ELSE [mem EXCEPT ![r.dest + Offset(r)] =
                          IF r.src = Null THEN Zero ELSE mem[r.src + Offset(r)]]
      /\ UNCHANGED <<pc, relocs, order, walk, safe, objects>>

NextEntry ==
  /\ pc = "run" /\ left = 0
  /\ IF i < Count
       THEN i' = i + 1 /\ left' = relocs[i + 1].size /\ UNCHANGED pc
       ELSE pc' = "done" /\ UNCHANGED <<i, left>>
  /\ UNCHANGED <<relocs, resolved, n, walk, storage, objects>>

Next ==
  \/ ScanResolves \/ ScanSkips \/ PassEnds
  \/ Deadlock \/ Walk \/ Move \/ NoSafeMemory
  \/ do_reloc \/ NextEntry

\* The boot loader is a single sequential program: it keeps running.
Spec == Init /\ [][Next]_vars /\ WF_vars(Next)

-----------------------------------------------------------------------------
(* Properties.                                                             *)

PCs == {"scan", "walk", "move", "run", "done", "internal_error",
        "out_of_resources"}

TypeOK ==
  /\ pc \in PCs
  /\ relocs \in [Indices -> Entry]
  /\ resolved \in 0 .. Count /\ n \in 0 .. Count /\ i \in 1 .. Count + 1
  /\ visited \in [Indices -> 0 .. 2]
  /\ cur \in Indices /\ smallest \in Indices
  /\ left \in 0 .. MemLimit
  /\ safe \subseteq SafeMem
  /\ mem \in [Addr -> Addr \cup {Zero}]
  /\ objects \in Tables

\* Where the variables of each loop stand in it: what the loops keep true.
LoopOK ==
  /\ resolved + n <= Count
  /\ pc = "scan" => n < i /\ Scanned <= Count + 1 /\ resolved < Count
  /\ pc \in {"walk", "move"} =>
       n = 0 /\ {cur, smallest} \subseteq Unresolved
  /\ pc = "walk" => visited[cur] < 2
  /\ pc \in {"run", "done"} =>
       resolved = Count /\ n = 0 /\ i <= Count /\ left <= relocs[i].size

\* No entry's source or destination leaves memory, and no destination is in
\* safe memory, even after entries have been moved there.
SpansOK ==
  \A p \in Indices :
    /\ Span(relocs[p].src, relocs[p].size) \subseteq Addr
    /\ Span(relocs[p].dest, relocs[p].size) \subseteq Addr \ SafeMem

\* The rule reloc_resolve exists for (reloc.c:503): moving an entry already put
\* in order does not overwrite the source of one that is moved after it, however
\* later swaps and moves into safe memory rearrange the rest of the table.
OrderSafe ==
  \A p, q \in Indices :
    p <= resolved + n /\ p < q => ~Overwrites(p, q)

\* When the trampoline is done, every object of the original table is at its
\* destination, byte for byte, and NULL-source objects are zeroed: no cycle,
\* overlap with itself, or temporary move has lost a byte.
Delivered ==
  pc = "done" =>
    \A p \in Indices : \A k \in 0 .. objects[p].size - 1 :
      mem[objects[p].dest + k] =
        IF objects[p].src = Null THEN Zero ELSE objects[p].src + k

\* The walk of break_reloc_deadlock never reaches an entry with no dependency
\* (its "Internal error", reloc.c:466), and gives up only when no safe memory is
\* left for the entry it chose.
NoInternalError == pc # "internal_error"

\* Entry p is part of a cycle of unresolved entries: following dependencies
\* from it leads back to it.
OnCycle(p) ==
  \A S \in SUBSET Unresolved :
    (\A q \in S \cup {p} : Dependencies(q, resolved + 1) \subseteq S) => p \in S

\* The entry moved into safe memory is part of the cycle it is moved to break.
BreaksCycle == pc = "move" => OnCycle(smallest)

\* reloc_resolve terminates, and the trampoline too.
Terminates == <>(pc \in {"done", "out_of_resources", "internal_error"})

\* With no two objects of the same size, and safe memory for all of them, every
\* relocation table can be put in order.
Resolves == <>(pc = "done")
=============================================================================
