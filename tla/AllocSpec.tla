----------------------------- MODULE AllocSpec -----------------------------
(***************************************************************************)
(* What the run-time memory allocator of bootlib/alloc.c promises its      *)
(* callers, with no table: memory is a set of taken addresses that only    *)
(* grows; a grant hands out addresses nobody holds; a reservation covers   *)
(* what it was asked to cover; a refusal changes nothing.                  *)
(***************************************************************************)
EXTENDS Integers

CONSTANT AddrLimit

VARIABLES
  taken,   \* the addresses that must not be granted any more
  reply    \* the last request and its outcome

vars == <<taken, reply>>

Addr == 0 .. AddrLimit - 1

Span(base, size) == {a \in Addr : base <= a /\ a < base + size}

Init == taken = {} /\ reply.op = "none"

\* blacklist_runtime_mem: cover at least the span; others may hold some of it.
Reserve ==
  /\ reply'.op = "blacklist"
  /\ reply'.status = "SUCCESS"
  /\ Span(reply'.base, reply'.size) \subseteq taken'
  /\ taken \subseteq taken'

\* runtime_alloc and runtime_alloc_fixed: memory nobody holds, exactly as
\* much as was asked for, where it was asked for.
Grant ==
  /\ reply'.op \in {"fixed", "any"}
  /\ reply'.status = "SUCCESS"
  /\ reply'.base + reply'.size <= AddrLimit
  /\ reply'.base % reply'.align = 0
  /\ Span(reply'.base, reply'.size) \cap taken = {}
  /\ taken' = taken \cup Span(reply'.base, reply'.size)

Refuse ==
  /\ reply'.status = "OUT_OF_RESOURCES"
  /\ taken' = taken

Next == Reserve \/ Grant \/ Refuse

Spec == Init /\ [][Next]_vars
=============================================================================
