--------------------------- MODULE RuntimeServices ---------------------------
(***************************************************************************)
(* Handing UEFI's runtime services to the kernel (uefi/efiutils/runtime.c  *)
(* and runtime_*.c): a policy gives each range of the firmware that must   *)
(* survive a place in the region the kernel reserves for them.             *)
(***************************************************************************)
EXTENDS Integers, Sequences, Least

CONSTANTS
  rts_vaddr, rts_size,  \* the kernel's region, in pages
  Near                  \* 4GB, in pages

ASSUME RegionConstants == rts_vaddr \in Nat /\ rts_size \in Nat /\ Near \in Nat

CodeOrData(d) == d.type \in {"code", "data"}

\* The descriptors with EFI_MEMORY_RUNTIME, in the order of the map.
Runtime(mmap) == SelectSeq(mmap, LAMBDA d : d.runtime)

TopOf(d) == d.phys + d.pages

\* What UEFI asks of a map: its ranges have pages, and none in common.
RangesOf(rt) ==
  /\ Len(rt) \in Nat /\ DOMAIN rt = 1 .. Len(rt)
  /\ \A i \in DOMAIN rt : rt[i].phys \in Nat /\ rt[i].pages \in Nat \ {0}
  /\ \A i, j \in DOMAIN rt :
       i # j => TopOf(rt[i]) <= rt[j].phys \/ TopOf(rt[j]) <= rt[i].phys
-----------------------------------------------------------------------------
\* Where each policy puts the ranges rt, relative to the kernel's region.
SimpleAt(rt) == [i \in DOMAIN rt |-> rt[i].phys]

get_smallest_rt_pa(rt) == Least({rt[i].phys : i \in DOMAIN rt})

SparseAt(rt) == [i \in DOMAIN rt |-> rt[i].phys - get_smallest_rt_pa(rt)]

\* A slip: the difference of the addresses is signed.
RelatedSigned(prev, p) ==
  CodeOrData(p) /\ CodeOrData(prev) /\ p.phys - prev.phys < Near

\* Both ranges hold code or data, and the second is less than 4GB above.
Related(prev, p) ==
  CodeOrData(p) /\ CodeOrData(prev) /\ p.phys - prev.phys \in 0 .. Near - 1

Gap(prev, p) == IF Related(prev, p) THEN p.phys - TopOf(prev) ELSE 0

\* Related ranges keep their distance; others follow without a gap.
CompactAt(rt) ==
  LET next_va[i \in DOMAIN rt] ==
        IF i = 1 THEN 0
        ELSE next_va[i - 1] + (rt[i - 1].pages + Gap(rt[i - 1], rt[i]))
  IN next_va

ContigAt(rt) ==
  LET next_va[i \in DOMAIN rt] ==
        IF i = 1 THEN 0 ELSE next_va[i - 1] + rt[i - 1].pages
  IN next_va

LayoutOf(policy, rt) ==
  CASE policy \in {"simple", "simple generic"} -> SimpleAt(rt)
    [] policy = "sparse" -> SparseAt(rt)
    [] policy = "compact" -> CompactAt(rt)
    [] policy = "contiguous" -> ContigAt(rt)

\* The *_supported functions: the layout ends inside the region.
Supported(rt, at) == \A i \in DOMAIN rt : at[i] + rt[i].pages <= rts_size
-----------------------------------------------------------------------------
\* The policies, with the capability each needs and the quirk it cannot stand.
policies == <<
  [name |-> "simple",         cap |-> "RTS_SIMPLE",    incompat |-> "none"],
  [name |-> "simple generic", cap |-> "RTS_SIMPLE_GQ", incompat |-> "none"],
  [name |-> "sparse",         cap |-> "RTS_SPARSE",    incompat |-> "UNKNOWN_MEM"],
  [name |-> "compact",        cap |-> "RTS_COMPACT",   incompat |-> "UNKNOWN_MEM"],
  [name |-> "contiguous",     cap |-> "RTS_CONTIG",    incompat |-> "UNKNOWN_MEM"] >>

\* What the kernels can do: check_esxbootinfo_v1 and v2.
KernelCaps == { {"RTS_SIMPLE"},
                {"RTS_SIMPLE", "RTS_SPARSE", "RTS_COMPACT", "RTS_CONTIG"} }

\* The test of the quirks is the code's: it applies when quirks are disabled.
Allowed(p, no_quirks, quirks, caps) ==
  (~no_quirks \/ p.incompat \notin quirks) /\ p.cap \in caps

\* No runtime services, and the boot goes on.
Declined(no_rts, no_quirks, quirks, old_and_new) ==
  \/ no_rts \/ rts_vaddr = 0
  \/ ~no_quirks /\ "UNSUPPORTED" \in quirks
  \/ ~no_quirks /\ "OLD_AND_NEW" \in quirks /\ ~old_and_new

NoServices == [policy |-> "none", caps |-> {}, map |-> << >>]

\* The map given to SetVirtualAddressMap: that of the first policy that fits.
VirtualMap(rt, no_quirks, quirks, caps) ==
  LET fit == {k \in DOMAIN policies :
                /\ Allowed(policies[k], no_quirks, quirks, caps)
                /\ Supported(rt, LayoutOf(policies[k].name, rt))}
      policy == policies[Least(fit)].name
  IN IF fit = {} THEN NoServices
     ELSE [policy |-> policy, caps |-> caps,
           map |-> [i \in DOMAIN rt |->
             [phys |-> rt[i].phys, pages |-> rt[i].pages, type |-> rt[i].type,
              virt |-> rts_vaddr + LayoutOf(policy, rt)[i]]]]
-----------------------------------------------------------------------------
VirtualRange(d) == d.virt .. d.virt + d.pages - 1

\* A kernel that knows the simple layout only finds each range at its offset;
\* neighbours that code may address relative to each other keep their distance.
RtsUsable(rts) ==
  LET map == rts.map IN
  /\ \A i \in DOMAIN map :
       VirtualRange(map[i]) \subseteq rts_vaddr .. rts_vaddr + rts_size - 1
  /\ \A i, j \in DOMAIN map :
       i # j => VirtualRange(map[i]) \cap VirtualRange(map[j]) = {}
  /\ rts.caps = {"RTS_SIMPLE"} =>
       \A i \in DOMAIN map : map[i].virt = rts_vaddr + map[i].phys
  /\ rts.policy # "contiguous" =>
       \A i \in DOMAIN map : i > 1 /\ Related(map[i - 1], map[i]) =>
         map[i].virt - map[i - 1].virt = map[i].phys - map[i - 1].phys
=============================================================================
