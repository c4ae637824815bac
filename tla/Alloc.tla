------------------------------- MODULE Alloc -------------------------------
(***************************************************************************)
(* The run-time memory allocator of bootlib/alloc.c as a state machine.    *)
(* Its clients first blacklist what the kernel must not be relocated into  *)
(* (system_blacklist_memory, e820_to_blacklist), then mix allocations with *)
(* more blacklisting (boot_register, compute_relocations); all that enters *)
(* the table stays in it.                                                  *)
(***************************************************************************)
EXTENDS AllocTable

CONSTANT Aligns   \* the alignments requested

ASSUME Requests == Aligns \subseteq 1 .. AddrLimit - 1

VARIABLES
  allocs,   \* allocs[0 .. alloc_count - 1]
  reply     \* the last call to alloc and its outcome

vars == <<allocs, reply>>

Statuses == {"SUCCESS", "OUT_OF_RESOURCES", "HANG"}

\* A call is a range that does not wrap: e820 ranges, loaded objects.
Calls == {r \in AddrRange : r.base + r.len <= AddrLimit}

Replies ==
  [op : {"none", "blacklist", "fixed", "any"}, base : Addr, size : Addr,
   align : Aligns \cup {1}, option : {"ANY", "32BIT", "FORCE", "FIXED"},
   status : Statuses]

Init ==
  /\ allocs = << >>
  /\ reply = [op |-> "none", base |-> 0, size |-> 0, align |-> 1,
              option |-> "ANY", status |-> "SUCCESS"]

\* A table that covers all of the address space has one entry of len 0, which
\* alloc_sanity_check rejects.  The calls modelled leave some address free: a
\* boot runs out of what it has to load before it runs out of memory.
LeavesSome(r) == TableBytes(allocs) \cup Bytes(r) # Addr

\* Record the outcome of a call.  Nothing is called after one that hangs.
Answer(op, base, size, align, option, result) ==
  /\ reply.status # "HANG"
  /\ allocs' = result.table
  /\ reply' = [op |-> op, base |-> base, size |-> size, align |-> align,
               option |-> option, status |-> result.status]

Blacklist(addr, size) ==
  /\ addr + size <= AddrLimit
  /\ PageRange(addr, size).len > 0 \/ size = 0
  /\ LeavesSome(PageRange(addr, size))
  /\ Answer("blacklist", addr, size, 1, "FORCE",
            blacklist_runtime_mem(allocs, addr, size))

\* runtime_alloc_fixed(&addr, size)
AllocFixed(addr, size) ==
  /\ allocs # << >>
  /\ addr + size <= AddrLimit
  /\ LeavesSome([base |-> addr, len |-> size])
  /\ Answer("fixed", addr, size, 1, "FIXED",
            alloc(allocs, addr, size, 1, "FIXED"))

\* runtime_alloc(&addr, size, align, option): the address is an output.
AllocAny(size, align, option) ==
  LET result == alloc(allocs, 0, size, align, option)
  IN  /\ allocs # << >>
      /\ LeavesSome([base |-> result.addr, len |-> size])
      /\ Answer("any", result.addr, size, align, option, result)

Next ==
  \/ \E r \in Calls : Blacklist(r.base, r.len)
  \/ \E r \in Calls : AllocFixed(r.base, r.len)
  \/ \E size \in Addr, align \in Aligns, option \in {"ANY", "32BIT"} :
       AllocAny(size, align, option)

Spec == Init /\ [][Next]_vars

-----------------------------------------------------------------------------
(* Properties.                                                             *)

TypeOK ==
  /\ allocs \in Seq(AddrRange)
  /\ Len(allocs) <= MaxAllocs
  /\ reply \in Replies

\* The merging of alloc_add keeps the table sorted, free of empty entries, and
\* its entries apart, whatever is blacklisted or allocated over what.
TableSane == Sane(allocs)

\* A call to alloc always returns: a failing one runs alloc_sanity_check
\* (alloc.c:46), which loops for ever if it does not like the table.
NeverHangs == reply.status # "HANG"

\* The table implements the abstract allocator: runtime memory is never granted
\* twice, a blacklisted byte is never granted, nothing is ever given back, and a
\* request that fails changes nothing.
Promise == INSTANCE AllocSpec WITH taken <- TableBytes(allocs)
KeepsPromise == Promise!Spec

\* The places an ANY or 32BIT request may be satisfied from: aligned, free, in a
\* hole below the last entry (find_free_mem never looks above it).  32BIT stops
\* one byte short of the last 32-bit address.
Suits(addr, size, align, option) ==
  /\ addr % align = 0
  /\ allocs # << >> /\ addr + size <= allocs[Len(allocs)].base
  /\ option = "32BIT" => addr + size <= MaxAddr32
  /\ Bytes([base |-> addr, len |-> size]) \cap TableBytes(allocs) = {}

\* find_free_mem takes the lowest suitable address, and gives up only when there
\* is none although it breaks out of its loop at the first hole that overflows
\* or is above 4GB; the only other failure is a full table.
LowestSuitable ==
  [][reply'.op = "any" /\ reply'.size > 0 =>
       LET suitable == {a \in Addr : Suits(a, reply'.size, reply'.align,
                                           reply'.option)}
       IN  IF reply'.status = "SUCCESS"
             THEN /\ reply'.base \in suitable
                  /\ \A a \in suitable : reply'.base <= a
             ELSE suitable = {} \/ Len(allocs) = MaxAllocs]_vars
=============================================================================
