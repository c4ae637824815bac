------------------------- MODULE RelocResolveProofs -------------------------
(***************************************************************************)
(* Proofs about RelocResolve: for every relocation table and every layout  *)
(* of memory that compute_relocations may leave, reloc_resolve never puts  *)
(* an entry before another whose source it overwrites.                     *)
(***************************************************************************)
EXTENDS RelocResolve, LeastProofs

IInv == TypeOK /\ LoopOK /\ SpansOK /\ OrderSafe

-----------------------------------------------------------------------------
(* find_reloc_dependency (reloc.c:375) returns p exactly if there is no     *)
(* dependency to return, and a dependency otherwise.                        *)
LEMMA Dependency ==
  ASSUME NEW p \in Indices, NEW from \in 1 .. Count + 1
  PROVE  /\ Dependencies(p, from) \subseteq (from .. Count) \ {p}
         /\ Dependencies(p, from) = {} => find_reloc_dependency(p, from) = p
         /\ Dependencies(p, from) # {} =>
              find_reloc_dependency(p, from) \in Dependencies(p, from)
<1>1. Dependencies(p, from) \subseteq (from .. Count) \ {p}
  BY DEF Dependencies
<1>2. Dependencies(p, from) \subseteq Nat
  BY <1>1, RelocInput
<1>. QED
  BY <1>1, <1>2, LeastIsLeast DEF find_reloc_dependency, IsLeast

(* The walk of break_reloc_deadlock starts on an unresolved entry.          *)
LEMMA BiggestExists ==
  ASSUME relocs \in [Indices -> Entry], resolved \in Nat, resolved < Count
  PROVE  /\ Biggest \in Unresolved
         /\ \A q \in Unresolved : relocs[q].size <= relocs[Biggest].size
<1>. DEFINE Rest(p) == MemLimit - relocs[p].size
            Rests   == {Rest(p) : p \in Unresolved}
            Maxima  == {p \in Unresolved :
                          \A q \in Unresolved : relocs[q].size <= relocs[p].size}
<1>1. \A p \in Unresolved : relocs[p].size \in Nat /\ Rest(p) \in Nat
  BY RelocInput DEF Unresolved, Indices, Entry, Addr
<1>2. Rests \subseteq Nat /\ Rests # {}
  BY <1>1, RelocInput DEF Unresolved
<1>3. IsLeast(Least(Rests), Rests)
  <2>. HIDE DEF Rests
  <2>. QED
    BY <1>2, LeastIsLeast
<1>4. PICK p \in Unresolved : \A q \in Unresolved : Rest(p) <= Rest(q)
  BY <1>3 DEF IsLeast
<1>5. p \in Maxima
  BY <1>1, <1>4, RelocInput
<1>6. Maxima \subseteq Nat /\ Maxima # {}
  BY <1>5, RelocInput DEF Unresolved
<1>7. Least(Maxima) \in Maxima
  <2>. HIDE DEF Maxima
  <2>. QED
    BY <1>6, LeastIsLeast DEF IsLeast
<1>. QED
  BY <1>7 DEF Biggest

-----------------------------------------------------------------------------
LEMMA InitIInv == Init => IInv
<1>. SUFFICES ASSUME Init PROVE IInv
  OBVIOUS
<1>1. Layout(objects) /\ Count \in Nat \ {0} /\ MemLimit \in Nat
  BY RelocInput DEF Init
<1>2. TypeOK
  BY <1>1, RelocInput DEF Init, TypeOK, PCs, Layout, Indices, Addr
<1>3. LoopOK
  BY <1>1 DEF Init, LoopOK, Scanned
<1>4. SpansOK
  <2>. SUFFICES ASSUME NEW p \in Indices
                PROVE  /\ Span(objects[p].src, objects[p].size) \subseteq Addr
                       /\ Span(objects[p].dest, objects[p].size)
                            \subseteq Addr \ SafeMem
    BY DEF Init, SpansOK
  <2>1. /\ objects[p].dest \in Nat /\ objects[p].size \in Nat \ {0}
        /\ Span(objects[p].dest, objects[p].size) \subseteq Addr \ SafeMem
    BY <1>1 DEF Layout, Entry, Indices, Addr
  <2>2. objects[p].dest + objects[p].size - 1 \in Addr
    BY <2>1 DEF Span
  <2>3. objects[p].src = Null => Span(objects[p].src, objects[p].size) \subseteq Addr
    BY <1>1, <2>1, <2>2 DEF Null, Span, Addr
  <2>. QED
    BY <1>1, <2>1, <2>3 DEF Layout, Indices
<1>5. OrderSafe
  BY <1>1 DEF Init, OrderSafe, Indices
<1>. QED
  BY <1>2, <1>3, <1>4, <1>5 DEF IInv

-----------------------------------------------------------------------------
(* Every step preserves the invariant, action by action.                    *)

\* What the reasoning about any step starts from.
LEMMA Facts ==
  ASSUME IInv
  PROVE  /\ Count \in Nat \ {0} /\ MemLimit \in Nat /\ SafeMem \subseteq Addr
         /\ relocs \in [Indices -> Entry]
         /\ resolved \in Nat /\ n \in Nat /\ i \in Nat \ {0} /\ left \in Nat
         /\ Addr \subseteq Nat /\ Indices \subseteq Nat
BY RelocInput DEF IInv, TypeOK, Addr, Indices

LEMMA ScanResolvesIInv == IInv /\ ScanResolves => IInv'
<1>. SUFFICES ASSUME IInv, ScanResolves PROVE IInv'
  OBVIOUS
<1>. USE Facts
<1>1. /\ Scanned \in Indices /\ Front \in Indices
      /\ Scanned \in Nat /\ Front \in Nat /\ Front <= Scanned
  BY SMTT(30) DEF IInv, LoopOK, ScanResolves, Scanned, Front, Indices
<1>2. relocs' = [relocs EXCEPT ![Scanned] = relocs[Front],
                               ![Front] = relocs[Scanned]]
  BY DEF ScanResolves, mem_swap
<1>3. TypeOK'
  <2>1. relocs' \in [Indices -> Entry]
    BY <1>1, <1>2
  <2>2. n' \in 0 .. Count /\ i' \in 1 .. Count + 1
    BY <1>1, SMTT(30) DEF ScanResolves, Scanned, Front, Indices
  <2>. QED
    BY <2>1, <2>2 DEF IInv, TypeOK, ScanResolves, walk, storage
<1>4. LoopOK'
  BY SMTT(30) DEF IInv, LoopOK, ScanResolves, Scanned, Indices, Unresolved, walk, storage
<1>5. SpansOK'
  BY <1>1, <1>2 DEF IInv, SpansOK
<1>6. OrderSafe'
  <2>. SUFFICES ASSUME NEW p \in Indices, NEW q \in Indices,
                       p <= resolved' + n', p < q
                PROVE  ~Overwrites(p, q)'
    BY DEF OrderSafe
  <2>0. p \in Nat /\ q \in Nat /\ p <= Front
    BY DEF ScanResolves, Front
  <2>1. PICK r \in Indices :
          /\ relocs'[q] = relocs[r]
          /\ p < Front => p < r
          /\ p = Front => Front <= r /\ r # Scanned
    BY <1>1, <1>2, <2>0 DEF IInv, TypeOK
  <2>2. CASE p < Front
    <3>1. relocs'[p] = relocs[p]
      BY <1>1, <1>2, <2>0, <2>2 DEF IInv, TypeOK
    <3>2. ~Overwrites(p, r)
      BY <2>0, <2>1, <2>2 DEF IInv, OrderSafe, Front
    <3>. QED
      BY <2>1, <3>1, <3>2 DEF Overwrites
  <2>3. CASE p = Front
    <3>1. relocs'[p] = relocs[Scanned]
      BY <1>1, <1>2, <2>3 DEF IInv, TypeOK
    <3>2. Dependencies(Scanned, Front) = {}
      BY <1>1, Dependency, SMTT(30) DEF ScanResolves, Indices
    <3>3. r \in Front .. Count /\ r # Scanned
      BY <1>1, <2>1, <2>3 DEF Indices
    <3>4. ~Overwrites(Scanned, r)
      BY <3>2, <3>3 DEF Dependencies
    <3>. QED
      BY <2>1, <3>1, <3>4 DEF Overwrites
  <2>. QED
    BY <1>1, <2>0, <2>2, <2>3
<1>. QED
  BY <1>3, <1>4, <1>5, <1>6 DEF IInv

LEMMA ScanSkipsIInv == IInv /\ ScanSkips => IInv'
<1>. SUFFICES ASSUME IInv, ScanSkips PROVE IInv'
  OBVIOUS
<1>. USE Facts
<1>1. Scanned \in 1 .. Count /\ n < i
  BY DEF IInv, LoopOK, ScanSkips, Scanned
<1>2. TypeOK'
  BY <1>1 DEF IInv, TypeOK, ScanSkips, Scanned, walk, storage
<1>3. LoopOK'
  BY <1>1 DEF IInv, LoopOK, ScanSkips, Scanned, Unresolved, walk, storage
<1>4. SpansOK' /\ OrderSafe'
  BY DEF IInv, SpansOK, OrderSafe, Overwrites, ScanSkips
<1>. QED
  BY <1>2, <1>3, <1>4 DEF IInv

LEMMA PassEndsIInv == IInv /\ PassEnds => IInv'
<1>. SUFFICES ASSUME IInv, PassEnds PROVE IInv'
  OBVIOUS
<1>. USE Facts
<1>1. resolved + n \in 1 .. Count
  BY DEF IInv, LoopOK, PassEnds
<1>2. relocs[1].size \in 0 .. MemLimit
  BY SMTT(30) DEF Indices, Entry, Addr
<1>3. TypeOK'
  BY <1>1, <1>2 DEF IInv, TypeOK, PassEnds, PCs, walk, storage
<1>4. LoopOK'
  BY <1>1, <1>2 DEF IInv, LoopOK, PassEnds, Scanned, Unresolved, walk, storage
<1>5. SpansOK' /\ OrderSafe'
  BY DEF IInv, SpansOK, OrderSafe, Overwrites, PassEnds
<1>. QED
  BY <1>3, <1>4, <1>5 DEF IInv

LEMMA DeadlockIInv == IInv /\ Deadlock => IInv'
<1>. SUFFICES ASSUME IInv, Deadlock PROVE IInv'
  OBVIOUS
<1>. USE Facts
<1>1. resolved < Count /\ Biggest \in Unresolved
  BY BiggestExists DEF IInv, LoopOK, Deadlock
<1>2. Biggest \in Indices
  BY <1>1 DEF Unresolved, Indices
<1>3. TypeOK'
  BY <1>2 DEF IInv, TypeOK, Deadlock, NoVisits, PCs, order, storage
<1>4. LoopOK'
  BY <1>1, <1>2 DEF IInv, LoopOK, Deadlock, NoVisits, Unresolved, order
<1>5. SpansOK' /\ OrderSafe'
  BY DEF IInv, SpansOK, OrderSafe, Overwrites, Deadlock, order
<1>. QED
  BY <1>3, <1>4, <1>5 DEF IInv

LEMMA WalkIInv == IInv /\ Walk => IInv'
<1>. SUFFICES ASSUME IInv, Walk PROVE IInv'
  OBVIOUS
<1>. USE Facts
<1>. DEFINE next == find_reloc_dependency(cur, resolved + 1)
<1>1. cur \in Unresolved /\ smallest \in Unresolved /\ n = 0 /\ visited[cur] < 2
  BY DEF IInv, LoopOK, Walk
<1>2. next \in Unresolved
  <2>1. cur \in Indices /\ resolved + 1 \in 1 .. Count + 1
    BY <1>1 DEF Unresolved, Indices
  <2>. QED
    BY <1>1, <2>1, Dependency DEF Unresolved
<1>3. Unresolved \subseteq Indices
  BY DEF Unresolved, Indices
<1>. HIDE DEF next
<1>4. /\ visited' = [visited EXCEPT ![cur] = @ + 1]
      /\ smallest' \in {cur, smallest}
      /\ cur' = next
      /\ pc' \in {"walk", "move", "internal_error"}
      /\ pc' = "walk" => visited'[next] < 2
      /\ UNCHANGED <<relocs, order, left, storage, objects>>
  BY DEF Walk, next
<1>5. TypeOK'
  <2>1. visited' \in [Indices -> 0 .. 2]
    BY <1>1, <1>3, <1>4 DEF IInv, TypeOK
  <2>. QED
    BY <1>1, <1>2, <1>3, <1>4, <2>1 DEF IInv, TypeOK, PCs, order, storage
<1>6. LoopOK'
  BY <1>1, <1>2, <1>4 DEF IInv, LoopOK, Unresolved, order
<1>7. SpansOK' /\ OrderSafe'
  BY <1>4 DEF IInv, SpansOK, OrderSafe, Overwrites, order
<1>. QED
  BY <1>5, <1>6, <1>7 DEF IInv

(* break_reloc_deadlock moves a source into safe memory, which no           *)
(* destination overlaps: what was in order stays in order.                  *)
LEMMA MoveIInv == IInv /\ Move => IInv'
<1>. SUFFICES ASSUME IInv, Move PROVE IInv'
  OBVIOUS
<1>. USE Facts
<1>. DEFINE size == relocs[smallest].size
            src  == relocs[smallest].src
<1>1. smallest \in Unresolved /\ smallest \in Indices /\ n = 0
  BY DEF IInv, LoopOK, Move, Unresolved, Indices
<1>2. size \in Nat \ {0} /\ Span(src, size) \subseteq Addr
  BY <1>1 DEF IInv, SpansOK, Entry
<1>3. PICK a \in SafePlaces(size) :
        /\ safe' = safe \ Span(a, size)
        /\ mem' = [b \in Addr |-> IF b \in Span(a, size)
                                    THEN mem[src + (b - a)]
                                    ELSE mem[b]]
        /\ relocs' = [relocs EXCEPT ![smallest].src = a]
  BY DEF Move, SafeAfter
<1>4. a \in Addr /\ Span(a, size) \subseteq SafeMem
  BY <1>3 DEF SafePlaces, IInv, TypeOK
<1>5. /\ pc' = "scan" /\ n' = 0 /\ i' = 1
      /\ UNCHANGED <<resolved, walk, left, objects>>
  BY DEF Move
<1>6. TypeOK'
  <2>1. relocs' \in [Indices -> Entry]
    BY <1>1, <1>3, <1>4 DEF Entry
  <2>2. mem' \in [Addr -> Addr \cup {Zero}]
    <3>1. \A b \in Span(a, size) : src + (b - a) \in Addr
      <4>1. src \in Nat /\ a \in Nat
        BY <1>1, <1>4 DEF Entry
      <4>. QED
        BY <4>1, <1>2 DEF Span
    <3>. QED
      BY <3>1, <1>3 DEF IInv, TypeOK
  <2>. QED
    BY <1>3, <1>5, <2>1, <2>2 DEF IInv, TypeOK, PCs, walk
<1>7. LoopOK'
  BY <1>1, <1>5 DEF IInv, LoopOK, Scanned, Unresolved, walk, Move
<1>8. \A p \in Indices :
        /\ relocs'[p].dest = relocs[p].dest
        /\ relocs'[p].size = relocs[p].size
        /\ relocs'[p].src = IF p = smallest THEN a ELSE relocs[p].src
  BY <1>1, <1>3 DEF Entry
<1>9. SpansOK'
  BY <1>4, <1>8 DEF IInv, SpansOK
<1>10. OrderSafe'
  <2>. SUFFICES ASSUME NEW p \in Indices, NEW q \in Indices,
                       p <= resolved, p < q
                PROVE  ~Overwrites(p, q)'
    BY <1>1, <1>5 DEF OrderSafe
  <2>1. CASE q = smallest
    <3>1. /\ relocs[p].dest \in Nat /\ relocs[p].size \in Nat \ {0} /\ a \in Nat
          /\ Span(relocs[p].dest, relocs[p].size) \cap Span(a, size) = {}
      BY <1>4 DEF IInv, SpansOK, Entry
    <3>2. ~is_overlap(relocs[p].dest, relocs[p].size, a, size)
      BY <1>2, <3>1 DEF is_overlap, Span
    <3>. QED
      BY <1>8, <2>1, <3>2 DEF Overwrites
  <2>2. CASE q # smallest
    BY <1>1, <1>8, <2>2 DEF IInv, OrderSafe, Overwrites
  <2>. QED
    BY <2>1, <2>2
<1>. QED
  BY <1>6, <1>7, <1>9, <1>10 DEF IInv

LEMMA NoSafeMemoryIInv == IInv /\ NoSafeMemory => IInv'
BY DEF IInv, TypeOK, LoopOK, SpansOK, OrderSafe, Overwrites, NoSafeMemory,
       PCs, Unresolved, order, walk, storage

(* The trampoline changes memory, not the table.                            *)
LEMMA DoRelocIInv == IInv /\ do_reloc => IInv'
<1>. SUFFICES ASSUME IInv, do_reloc PROVE IInv'
  OBVIOUS
<1>. USE Facts
<1>. DEFINE r == relocs[i]
<1>1. i \in Indices /\ left \in 1 .. r.size /\ n = 0 /\ resolved = Count
  BY DEF IInv, LoopOK, do_reloc, Indices
<1>2. r.src \in Nat /\ r.size \in Nat /\ Span(r.src, r.size) \subseteq Addr
  BY <1>1 DEF IInv, SpansOK, Entry
<1>3. Offset(r) \in 0 .. r.size - 1
  BY <1>1, <1>2 DEF Offset
<1>4. r.src + Offset(r) \in Addr
  BY <1>2, <1>3 DEF Span
<1>5. mem' \in [Addr -> Addr \cup {Zero}]
  BY <1>4 DEF IInv, TypeOK, do_reloc
<1>6. TypeOK'
  BY <1>1, <1>5 DEF IInv, TypeOK, do_reloc, order, walk
<1>7. LoopOK'
  BY <1>1, <1>2 DEF IInv, LoopOK, do_reloc, Unresolved, order, walk
<1>8. SpansOK' /\ OrderSafe'
  BY DEF IInv, SpansOK, OrderSafe, Overwrites, do_reloc, order
<1>. QED
  BY <1>6, <1>7, <1>8 DEF IInv

LEMMA NextEntryIInv == IInv /\ NextEntry => IInv'
<1>. SUFFICES ASSUME IInv, NextEntry PROVE IInv'
  OBVIOUS
<1>. USE Facts
<1>1. i \in 1 .. Count /\ left = 0 /\ n = 0 /\ resolved = Count
  BY DEF IInv, LoopOK, NextEntry
<1>2. i < Count => relocs[i + 1].size \in 0 .. MemLimit
  BY <1>1 DEF Indices, Entry, Addr
<1>3. TypeOK'
  BY <1>1, <1>2 DEF IInv, TypeOK, NextEntry, PCs, walk, storage
<1>4. LoopOK'
  BY <1>1, <1>2 DEF IInv, LoopOK, NextEntry, Unresolved, walk
<1>5. SpansOK' /\ OrderSafe'
  BY DEF IInv, SpansOK, OrderSafe, Overwrites, NextEntry
<1>. QED
  BY <1>3, <1>4, <1>5 DEF IInv

LEMMA NextIInv == IInv /\ [Next]_vars => IInv'
<1>1. IInv /\ UNCHANGED vars => IInv'
  BY DEF IInv, TypeOK, LoopOK, SpansOK, OrderSafe, Overwrites, Scanned,
         Unresolved, vars
<1>. QED
  BY <1>1, ScanResolvesIInv, ScanSkipsIInv, PassEndsIInv, DeadlockIInv,
     WalkIInv, MoveIInv, NoSafeMemoryIInv, DoRelocIInv, NextEntryIInv DEF Next

-----------------------------------------------------------------------------
(* Whatever the layout, the variables keep their types: no loop of          *)
(* reloc_resolve, break_reloc_deadlock or do_reloc leaves its table.        *)
THEOREM TypeCorrect == Spec => []TypeOK
<1>1. IInv => TypeOK
  BY DEF IInv
<1>. QED
  BY <1>1, InitIInv, NextIInv, PTL DEF Spec

(* reloc_resolve (reloc.c:503) orders every table soundly: no entry that is *)
(* in order overwrites the source of an entry moved after it.               *)
THEOREM OrderIsSafe == Spec => []OrderSafe
<1>1. IInv => OrderSafe
  BY DEF IInv
<1>. QED
  BY <1>1, InitIInv, NextIInv, PTL DEF Spec

-----------------------------------------------------------------------------
(* The walk finds a next entry for as long as it lasts, since a pass that   *)
(* resolved nothing has seen a dependency of every unresolved entry.        *)

\* The entries scanned in a pass that has resolved nothing so far; all the
\* unresolved ones during the walk.
Blocked == IF pc = "scan" THEN resolved + 1 .. resolved + i - 1 ELSE Unresolved

WInv ==
  /\ pc # "internal_error"
  /\ pc \in {"scan", "walk", "move"} /\ n = 0 =>
       \A p \in Blocked : Dependencies(p, resolved + 1) # {}

LEMMA InitWInv == Init => WInv
BY DEF Init, WInv, Blocked

LEMMA ScanWInv == IInv /\ WInv /\ (ScanResolves \/ ScanSkips) => WInv'
<1>. USE Facts
<1>1. ASSUME IInv, WInv, ScanResolves PROVE WInv'
  BY <1>1 DEF WInv, ScanResolves
<1>2. ASSUME IInv, WInv, ScanSkips PROVE WInv'
  <2>1. SUFFICES ASSUME n = 0, NEW p \in resolved + 1 .. Scanned
                 PROVE  Dependencies(p, resolved + 1) # {}
    BY <1>2 DEF WInv, ScanSkips, Blocked, Scanned, Dependencies, Overwrites
  <2>2. Scanned \in Indices /\ resolved + 1 \in 1 .. Count + 1
    BY <1>2 DEF ScanSkips, Scanned, Indices
  <2>3. CASE p = Scanned
    BY <1>2, <2>1, <2>2, <2>3, Dependency DEF ScanSkips, Front
  <2>4. CASE p # Scanned
    BY <1>2, <2>1, <2>4 DEF WInv, ScanSkips, Blocked, Scanned
  <2>. QED
    BY <2>3, <2>4
<1>. QED
  BY <1>1, <1>2

LEMMA DeadlockWInv == IInv /\ WInv /\ Deadlock => WInv'
<1>. SUFFICES ASSUME IInv, WInv, Deadlock PROVE WInv'
  OBVIOUS
<1>. USE Facts
<1>1. \A p \in Unresolved : Dependencies(p, resolved + 1) # {}
  BY DEF IInv, LoopOK, WInv, Deadlock, Blocked, Unresolved, Scanned
<1>. QED
  BY <1>1 DEF WInv, Deadlock, Blocked, Unresolved, Dependencies, Overwrites, order

LEMMA WalkWInv == IInv /\ WInv /\ Walk => WInv'
<1>. SUFFICES ASSUME IInv, WInv, Walk PROVE WInv'
  OBVIOUS
<1>. USE Facts
<1>1. \A p \in Unresolved : Dependencies(p, resolved + 1) # {}
  BY DEF IInv, LoopOK, WInv, Walk, Blocked
<1>2. cur \in Unresolved /\ cur \in Indices /\ resolved + 1 \in 1 .. Count + 1
  BY DEF IInv, LoopOK, Walk, Unresolved, Indices
<1>3. find_reloc_dependency(cur, resolved + 1) # cur
  BY <1>1, <1>2, Dependency
<1>. QED
  BY <1>1, <1>3 DEF WInv, Walk, Blocked, Unresolved, Dependencies, Overwrites, order

LEMMA NextWInv == IInv /\ WInv /\ [Next]_vars => WInv'
<1>. USE Facts
<1>1. ASSUME IInv, WInv, PassEnds \/ Move PROVE WInv'
  BY <1>1 DEF WInv, PassEnds, Move, Blocked
<1>2. ASSUME IInv, WInv, NoSafeMemory \/ do_reloc \/ NextEntry PROVE WInv'
  BY <1>2 DEF WInv, NoSafeMemory, do_reloc, NextEntry
<1>3. ASSUME IInv, WInv, UNCHANGED vars PROVE WInv'
  BY <1>3 DEF WInv, Blocked, Unresolved, Dependencies, Overwrites, vars
<1>. QED
  BY <1>1, <1>2, <1>3, ScanWInv, DeadlockWInv, WalkWInv DEF Next

(* The "Internal error while resolving relocations" of break_reloc_deadlock *)
(* (reloc.c:464) cannot happen, for any table.                              *)
THEOREM WalkNeverStops == Spec => []NoInternalError
<1>1. Init => IInv /\ WInv
  BY InitIInv, InitWInv
<1>2. IInv /\ WInv /\ [Next]_vars => (IInv /\ WInv)'
  BY NextIInv, NextWInv
<1>3. WInv => NoInternalError
  BY DEF WInv, NoInternalError
<1>. QED
  BY <1>1, <1>2, <1>3, PTL DEF Spec

-----------------------------------------------------------------------------
(* Every object reaches its destination.  An entry of the table stands for  *)
(* an object of the original table: it goes to the same place, and each     *)
(* byte of it is still at its source, or already where it goes.             *)

\* What byte k of object o is to become.
Wanted(o, k) == IF o.src = Null THEN Zero ELSE o.src + k

\* The offsets of entry q that do_reloc has moved so far.
Moved(q) ==
  {k \in 0 .. relocs[q].size - 1 :
     /\ pc \in {"run", "done"}
     /\ \/ q < i
        \/ q = i /\ IF relocs[q].src = Null \/ relocs[q].src < relocs[q].dest
                      THEN k >= left ELSE k < relocs[q].size - left}

StandsFor(q, o) ==
  /\ relocs[q].dest = o.dest /\ relocs[q].size = o.size
  /\ relocs[q].src = Null <=> o.src = Null
  /\ \A k \in 0 .. o.size - 1 :
       /\ k \in Moved(q) => mem[o.dest + k] = Wanted(o, k)
       /\ k \notin Moved(q) /\ o.src # Null => mem[relocs[q].src + k] = Wanted(o, k)

Faithful ==
  /\ \A p \in Indices : \E q \in Indices : StandsFor(q, objects[p])
  /\ pc = "done" => i = Count /\ left = 0

DestsApart ==
  \A p, q \in Indices :
    p # q => ~is_overlap(relocs[p].dest, relocs[p].size,
                         relocs[q].dest, relocs[q].size)

\* What may still be allocated holds no source.
SourcesKept ==
  \A q \in Indices :
    relocs[q].src # Null => Span(relocs[q].src, relocs[q].size) \cap safe = {}

Kept == DestsApart /\ SourcesKept

\* What the input gives for each object.
LEMMA Originals ==
  ASSUME IInv, NEW p \in Indices
  PROVE  /\ objects[p].src \in Nat /\ objects[p].dest \in Nat \ {0}
         /\ objects[p].size \in Nat \ {0}
         /\ \A k \in 0 .. objects[p].size - 1 :
              objects[p].dest + k \in Addr /\ objects[p].dest + k \in Nat
<1>1. Layout(objects) /\ MemLimit \in Nat
  BY RelocInput DEF IInv, TypeOK
<1>2. objects[p] \in Entry
  BY <1>1 DEF Layout, Indices
<1>3. Span(objects[p].dest, objects[p].size) \subseteq Addr \ {0}
  BY <1>1 DEF Layout, Indices
<1>4. /\ objects[p].src \in Nat /\ objects[p].dest \in Nat
      /\ objects[p].size \in Nat \ {0}
  BY <1>1, <1>2 DEF Entry, Addr
<1>5. \A k \in 0 .. objects[p].size - 1 :
        objects[p].dest + k \in Span(objects[p].dest, objects[p].size)
  BY <1>4 DEF Span
<1>6. objects[p].dest + 0 \in Addr \ {0}
  BY <1>3, <1>4, <1>5
<1>. QED
  BY <1>3, <1>4, <1>5, <1>6

\* Where the bytes of an entry are.
LEMMA Places ==
  ASSUME IInv, NEW q \in Indices
  PROVE  /\ relocs[q].src \in Nat /\ relocs[q].dest \in Nat
         /\ relocs[q].size \in Nat \ {0}
         /\ \A k \in 0 .. relocs[q].size - 1 :
              relocs[q].src + k \in Addr /\ relocs[q].dest + k \in Addr
<1>1. /\ relocs[q].src \in Nat /\ relocs[q].dest \in Nat
      /\ relocs[q].size \in Nat \ {0}
  BY Facts DEF Entry
<1>2. /\ Span(relocs[q].src, relocs[q].size) \subseteq Addr
      /\ Span(relocs[q].dest, relocs[q].size) \subseteq Addr
  BY DEF IInv, SpansOK
<1>. QED
  BY <1>1, <1>2 DEF Span

\* Two ranges that do not overlap have no byte in common.
LEMMA NoCommonByte ==
  ASSUME NEW a1 \in Nat, NEW l1 \in Nat, NEW a2 \in Nat, NEW l2 \in Nat,
         ~is_overlap(a1, l1, a2, l2),
         NEW j \in 0 .. l1 - 1, NEW k \in 0 .. l2 - 1
  PROVE  a1 + j # a2 + k
BY DEF is_overlap

LEMMA InitKept == Init => Kept /\ Faithful
<1>. SUFFICES ASSUME Init PROVE Kept /\ Faithful
  OBVIOUS
<1>1. Layout(objects) /\ relocs = objects /\ pc = "scan" /\ IInv
  BY RelocInput, InitIInv DEF Init
<1>2. DestsApart
  BY <1>1 DEF DestsApart, Layout, Indices
<1>3. SourcesKept
  BY <1>1 DEF SourcesKept, Layout, Indices, Init
<1>4. ASSUME NEW p \in Indices PROVE StandsFor(p, objects[p])
  <2>1. Moved(p) = {}
    BY <1>1 DEF Moved
  <2>2. ASSUME NEW k \in 0 .. objects[p].size - 1
        PROVE  mem[objects[p].src + k] = objects[p].src + k
    BY <1>1, Places DEF Init
  <2>. QED
    BY <1>1, <2>1, <2>2 DEF StandsFor, Wanted
<1>5. Faithful
  BY <1>1, <1>4 DEF Faithful
<1>. QED
  BY <1>2, <1>3, <1>5 DEF Kept

\* What a move into safe memory changes.
LEMMA Moving ==
  ASSUME IInv, Move
  PROVE  /\ smallest \in Indices /\ smallest \in Unresolved /\ n = 0
         /\ \E a \in Addr :
              LET size == relocs[smallest].size
                  src  == relocs[smallest].src
              IN  /\ a # Null /\ Span(a, size) \subseteq safe
                  /\ Span(a, size) \subseteq SafeMem
                  /\ safe' = safe \ Span(a, size)
                  /\ \A b \in Addr :
                       mem'[b] = IF b \in Span(a, size) THEN mem[src + (b - a)]
                                                        ELSE mem[b]
                  /\ relocs' = [relocs EXCEPT ![smallest].src = a]
                  /\ \A q \in Indices :
                       /\ relocs'[q].dest = relocs[q].dest
                       /\ relocs'[q].size = relocs[q].size
                       /\ relocs'[q].src = IF q = smallest THEN a ELSE relocs[q].src
<1>1. smallest \in Unresolved /\ smallest \in Indices /\ n = 0
  BY Facts, SMTT(30) DEF IInv, LoopOK, Move, Unresolved, Indices
<1>. DEFINE size == relocs[smallest].size
            src  == relocs[smallest].src
<1>2. PICK a \in SafePlaces(size) :
        /\ safe' = safe \ Span(a, size)
        /\ mem' = [b \in Addr |-> IF b \in Span(a, size)
                                    THEN mem[src + (b - a)]
                                    ELSE mem[b]]
        /\ relocs' = [relocs EXCEPT ![smallest].src = a]
  BY DEF Move, SafeAfter
<1>3. a \in safe /\ Span(a, size) \subseteq safe /\ safe \subseteq SafeMem
  BY <1>2 DEF SafePlaces, IInv, TypeOK
<1>4. a \in Addr /\ a # Null /\ Span(a, size) \subseteq SafeMem
  BY <1>3, RelocInput DEF Null
<1>5. \A q \in Indices :
        /\ relocs'[q].dest = relocs[q].dest
        /\ relocs'[q].size = relocs[q].size
        /\ relocs'[q].src = IF q = smallest THEN a ELSE relocs[q].src
  BY <1>1, <1>2, Facts DEF Entry
<1>. QED
  BY <1>1, <1>2, <1>3, <1>4, <1>5

\* What a swap changes.
LEMMA Swapping ==
  ASSUME IInv, ScanResolves
  PROVE  /\ Scanned \in Indices /\ Front \in Indices
         /\ \A q \in Indices :
              relocs'[q] = relocs[IF q = Scanned THEN Front
                                  ELSE IF q = Front THEN Scanned ELSE q]
<1>1. Scanned \in Indices /\ Front \in Indices
  BY Facts, SMTT(30) DEF IInv, LoopOK, ScanResolves, Scanned, Front, Indices
<1>2. relocs' = [relocs EXCEPT ![Scanned] = relocs[Front],
                               ![Front] = relocs[Scanned]]
  BY DEF ScanResolves, mem_swap
<1>. QED
  BY <1>1, <1>2, Facts

LEMMA NextKept == IInv /\ Kept /\ [Next]_vars => Kept'
<1>. SUFFICES ASSUME IInv, Kept, [Next]_vars PROVE Kept'
  OBVIOUS
<1>1. CASE ScanResolves
  <2>. DEFINE Other(q) == IF q = Scanned THEN Front
                          ELSE IF q = Front THEN Scanned ELSE q
  <2>1. /\ \A q \in Indices : Other(q) \in Indices /\ relocs'[q] = relocs[Other(q)]
        /\ \A p, q \in Indices : p # q => Other(p) # Other(q)
    BY <1>1, Swapping
  <2>. HIDE DEF Other
  <2>2. safe' = safe
    BY <1>1 DEF ScanResolves, storage
  <2>. QED
    BY <2>1, <2>2 DEF Kept, DestsApart, SourcesKept
<1>2. CASE Move
  <2>1. PICK a \in Addr :
          /\ safe' = safe \ Span(a, relocs[smallest].size)
          /\ \A q \in Indices :
               /\ relocs'[q].dest = relocs[q].dest
               /\ relocs'[q].size = relocs[q].size
               /\ relocs'[q].src = IF q = smallest THEN a ELSE relocs[q].src
    BY <1>2, Moving
  <2>2. DestsApart'
    BY <2>1 DEF Kept, DestsApart
  <2>3. SourcesKept'
    BY <2>1 DEF Kept, SourcesKept
  <2>. QED
    BY <2>2, <2>3 DEF Kept
<1>3. CASE UNCHANGED <<relocs, safe>>
  BY <1>3 DEF Kept, DestsApart, SourcesKept
<1>. QED
  BY <1>1, <1>2, <1>3 DEF Next, ScanSkips, PassEnds, Deadlock, Walk, NoSafeMemory,
     do_reloc, NextEntry, vars, storage

\* While nothing has been moved, steps that leave memory alone, and that only
\* reorder the table, change nothing about what an entry stands for.
LEMMA SameEntry ==
  ASSUME NEW p \in Indices, NEW q \in Indices, NEW s \in Indices,
         StandsFor(q, objects[p]),
         relocs'[s] = relocs[q], UNCHANGED <<mem, objects>>,
         Moved(q) = {}, Moved(s)' = {}
  PROVE  StandsFor(s, objects[p])'
BY DEF StandsFor, Wanted

LEMMA BeforeRunning ==
  ASSUME IInv, Faithful, pc \notin {"run", "done"}, [Next]_vars, ~Move
  PROVE  Faithful'
<1>1. \A q \in Indices : Moved(q) = {}
  BY DEF Moved
<1>2. UNCHANGED <<mem, objects>>
  BY DEF Next, ScanResolves, ScanSkips, PassEnds, Deadlock, Walk, NoSafeMemory,
     do_reloc, NextEntry, vars, storage
<1>3. pc' # "done"
  BY DEF Next, ScanResolves, ScanSkips, PassEnds, Deadlock, Walk, NoSafeMemory,
     do_reloc, NextEntry, vars
<1>4. \A q \in Indices : Moved(q)' = {}
  <2>1. CASE PassEnds
    <3>1. ASSUME NEW q \in Indices, NEW k \in Moved(q)' PROVE FALSE
      <4>1. i' = 1 /\ relocs' = relocs /\ left' = relocs[1].size /\ pc' = "run"
        BY <2>1, <3>1 DEF PassEnds, Moved
      <4>2. k \in 0 .. relocs[q].size - 1 /\ q \in Nat \ {0}
        BY <3>1, <4>1, Facts DEF Moved, Indices
      <4>3. q = 1
        BY <3>1, <4>1, <4>2 DEF Moved
      <4>. QED
        BY <3>1, <4>1, <4>2, <4>3, Places DEF Moved
    <3>. QED
      BY <3>1
  <2>2. CASE pc' # "run"
    BY <1>3, <2>2 DEF Moved
  <2>. QED
    BY <2>1, <2>2 DEF Next, ScanResolves, ScanSkips, Deadlock, Walk, NoSafeMemory,
       do_reloc, NextEntry, vars
<1>5. CASE ScanResolves
  <2>1. ASSUME NEW p \in Indices PROVE \E s \in Indices : StandsFor(s, objects[p])'
    <3>1. PICK q \in Indices : StandsFor(q, objects[p])
      BY DEF Faithful
    <3>2. PICK s \in Indices : relocs'[s] = relocs[q]
      BY <1>5, Swapping
    <3>. QED
      BY <1>1, <1>2, <1>4, <3>1, <3>2, SameEntry
  <2>. QED
    BY <1>3, <2>1 DEF Faithful
<1>6. CASE relocs' = relocs
  <2>1. ASSUME NEW p \in Indices PROVE \E s \in Indices : StandsFor(s, objects[p])'
    <3>1. PICK q \in Indices : StandsFor(q, objects[p])
      BY DEF Faithful
    <3>. QED
      BY <1>1, <1>2, <1>4, <1>6, <3>1, SameEntry
  <2>. QED
    BY <1>3, <2>1 DEF Faithful
<1>. QED
  BY <1>5, <1>6 DEF Next, ScanSkips, PassEnds, Deadlock, Walk, NoSafeMemory,
     do_reloc, NextEntry, vars

\* break_reloc_deadlock moves an object that has a source: the copy takes over.
LEMMA MoveFaithful ==
  ASSUME IInv, Kept, Faithful, Move, relocs[smallest].src # Null
  PROVE  Faithful'
<1>. DEFINE size == relocs[smallest].size
            src  == relocs[smallest].src
<1>1. /\ pc = "move" /\ pc' = "scan" /\ objects' = objects /\ smallest \in Indices
  BY Moving DEF Move
<1>2. PICK a \in Addr :
        /\ a # Null /\ Span(a, size) \subseteq safe
        /\ \A b \in Addr :
             mem'[b] = IF b \in Span(a, size) THEN mem[src + (b - a)] ELSE mem[b]
        /\ \A q \in Indices :
             /\ relocs'[q].dest = relocs[q].dest
             /\ relocs'[q].size = relocs[q].size
             /\ relocs'[q].src = IF q = smallest THEN a ELSE relocs[q].src
  BY Moving
<1>3. ASSUME NEW p \in Indices, NEW q \in Indices, StandsFor(q, objects[p])
      PROVE  StandsFor(q, objects[p])'
  <2>1. /\ relocs[q].size = objects[p].size /\ relocs[q].dest = objects[p].dest
        /\ relocs[q].src = Null <=> objects[p].src = Null
    BY <1>3 DEF StandsFor
  <2>2. Moved(q) = {} /\ Moved(q)' = {}
    BY <1>1 DEF Moved
  <2>3. ASSUME NEW k \in 0 .. objects[p].size - 1, objects[p].src # Null
        PROVE  mem'[relocs'[q].src + k] = Wanted(objects[p], k)
    <3>1. mem[relocs[q].src + k] = Wanted(objects[p], k)
      BY <1>3, <2>2, <2>3 DEF StandsFor
    <3>2. /\ relocs[q].src \in Nat /\ relocs[q].size \in Nat \ {0} /\ a \in Nat
          /\ k \in 0 .. relocs[q].size - 1 /\ relocs[q].src + k \in Addr
      BY <2>1, <2>3, Places, Facts
    <3>3. CASE q = smallest
      <4>1. a + k \in Span(a, size) /\ (a + k) - a = k
        BY <3>2, <3>3 DEF Span
      <4>2. a + k \in Addr
        BY <1>2, <4>1, RelocInput DEF IInv, TypeOK
      <4>3. relocs'[q].src = a
        BY <1>2, <3>3
      <4>4. mem'[a + k] = mem[src + ((a + k) - a)]
        BY <1>2, <4>1, <4>2
      <4>. QED
        BY <3>1, <3>3, <4>1, <4>3, <4>4
    <3>4. CASE q # smallest
      <4>1. relocs[q].src + k \notin Span(a, size)
        <5>1. relocs[q].src + k \in Span(relocs[q].src, relocs[q].size)
          BY <3>2 DEF Span
        <5>. QED
          BY <1>2, <2>1, <2>3, <5>1 DEF Kept, SourcesKept
      <4>2. relocs'[q].src = relocs[q].src
        BY <1>2, <3>4
      <4>. QED
        BY <1>2, <3>1, <3>2, <4>1, <4>2
    <3>. QED
      BY <3>3, <3>4
  <2>4. relocs'[q].src = Null <=> relocs[q].src = Null
    BY <1>2
  <2>. QED
    BY <1>1, <1>2, <2>1, <2>2, <2>3, <2>4 DEF StandsFor, Wanted
<1>. QED
  BY <1>1, <1>3 DEF Faithful

\* do_reloc (trampoline.c) moves one byte: of the rest of this object none is
\* overwritten, and neither are the objects before and after it.
LEMMA DoRelocFaithful ==
  ASSUME IInv, Kept, Faithful, do_reloc
  PROVE  Faithful'
<1>. DEFINE r == relocs[i]
            off == Offset(r)
<1>1. /\ i \in Indices /\ left \in 1 .. r.size /\ n = 0 /\ resolved = Count
      /\ pc = "run" /\ pc' = "run" /\ left' = left - 1
      /\ UNCHANGED <<relocs, i, objects>>
  BY Facts DEF IInv, LoopOK, do_reloc, order, Indices
<1>2. /\ r.src \in Nat /\ r.dest \in Nat /\ r.size \in Nat \ {0}
      /\ \A k \in 0 .. r.size - 1 : r.src + k \in Addr /\ r.dest + k \in Addr
  BY <1>1, Places
<1>3. off \in 0 .. r.size - 1
  BY <1>1, <1>2 DEF Offset
<1>4. \A b \in Addr :
        mem'[b] = IF b = r.dest + off /\ r.src # r.dest
                    THEN IF r.src = Null THEN Zero ELSE mem[r.src + off]
                    ELSE mem[b]
  BY <1>1, <1>2, <1>3 DEF do_reloc, IInv, TypeOK
<1>. HIDE DEF off
<1>5. ASSUME NEW p \in Indices, NEW q \in Indices, StandsFor(q, objects[p]), q # i
      PROVE  StandsFor(q, objects[p])'
  <2>1. /\ relocs[q].size = objects[p].size /\ relocs[q].dest = objects[p].dest
        /\ relocs[q].src = Null <=> objects[p].src = Null
        /\ q \in Nat /\ i \in Nat
    BY <1>1, <1>5, Facts DEF StandsFor
  <2>2. Moved(q)' = Moved(q) /\ Moved(q) = IF q < i THEN 0 .. relocs[q].size - 1 ELSE {}
    BY <1>1, <1>5, <2>1 DEF Moved
  <2>3. ASSUME NEW k \in 0 .. objects[p].size - 1
        PROVE  objects[p].dest + k \in Addr /\ objects[p].dest + k # r.dest + off
    <3>1. ~is_overlap(r.dest, r.size, relocs[q].dest, relocs[q].size)
      BY <1>1, <1>5 DEF Kept, DestsApart
    <3>2. k \in 0 .. relocs[q].size - 1 /\ relocs[q].dest + k \in Addr
      BY <2>1, Places
    <3>3. r.dest + off # relocs[q].dest + k
      <4>1. /\ relocs[q].dest \in Nat /\ relocs[q].size \in Nat /\ r.size \in Nat
        BY <1>2, Places
      <4>. QED
        BY <1>2, <1>3, <3>1, <3>2, <4>1, NoCommonByte
    <3>. QED
      BY <2>1, <3>2, <3>3
  <2>4. ASSUME q > i, objects[p].src # Null, NEW k \in 0 .. objects[p].size - 1
        PROVE  relocs[q].src + k \in Addr /\ relocs[q].src + k # r.dest + off
    <3>1. ~Overwrites(i, q)
      <4>1. i <= resolved + n /\ i < q
        BY <1>1, <2>1, <2>4, RelocInput DEF Indices
      <4>. QED
        BY <1>1, <4>1 DEF IInv, OrderSafe
    <3>2. ~is_overlap(r.dest, r.size, relocs[q].src, relocs[q].size)
      BY <2>1, <2>4, <3>1 DEF Overwrites
    <3>3. k \in 0 .. relocs[q].size - 1 /\ relocs[q].src + k \in Addr
      BY <2>1, Places
    <3>4. r.dest + off # relocs[q].src + k
      <4>1. /\ relocs[q].src \in Nat /\ relocs[q].size \in Nat /\ r.size \in Nat
        BY <1>2, Places
      <4>. QED
        BY <1>2, <1>3, <3>2, <3>3, <4>1, NoCommonByte
    <3>. QED
      BY <3>3, <3>4
  <2>5. ASSUME NEW k \in 0 .. objects[p].size - 1, k \in Moved(q)
        PROVE  mem'[objects[p].dest + k] = Wanted(objects[p], k)
    BY <1>4, <1>5, <2>3, <2>5 DEF StandsFor
  <2>6. ASSUME NEW k \in 0 .. objects[p].size - 1, k \notin Moved(q),
               objects[p].src # Null
        PROVE  mem'[relocs[q].src + k] = Wanted(objects[p], k)
    <3>1. q > i
      BY <1>5, <2>1, <2>2, <2>6
    <3>. QED
      BY <1>4, <1>5, <2>4, <2>6, <3>1 DEF StandsFor
  <2>. QED
    BY <1>1, <2>1, <2>2, <2>5, <2>6 DEF StandsFor, Wanted
<1>6. ASSUME NEW p \in Indices, StandsFor(i, objects[p])
      PROVE  StandsFor(i, objects[p])'
  <2>. DEFINE o == objects[p]
              down == ~(r.src = Null \/ r.src < r.dest)
  <2>1. /\ r.size = o.size /\ r.dest = o.dest /\ (r.src = Null <=> o.src = Null)
        /\ o.dest # 0 /\ i \in Nat
    BY <1>1, <1>6, Originals, Facts DEF StandsFor
  <2>2. /\ \A k \in 0 .. r.size - 1 :
             k \in Moved(i) <=> IF down THEN k < r.size - left ELSE k >= left
        /\ \A k \in 0 .. r.size - 1 :
             k \in Moved(i)' <=> IF down THEN k < r.size - (left - 1) ELSE k >= left - 1
    BY <1>1, <2>1 DEF Moved
  <2>3. off = IF down THEN r.size - left ELSE left - 1
    BY DEF off, Offset
  <2>. HIDE DEF down
  <2>4. \A k \in 0 .. r.size - 1 :
          /\ k \in Moved(i)' <=> k \in Moved(i) \/ k = off
          /\ k = off => k \notin Moved(i)
    BY <1>1, <1>2, <2>2, <2>3
  <2>5. ASSUME NEW k \in 0 .. r.size - 1, k \in Moved(i)
        PROVE  mem'[o.dest + k] = Wanted(o, k)
    <3>1. mem[o.dest + k] = Wanted(o, k)
      BY <1>6, <2>1, <2>5 DEF StandsFor
    <3>2. k # off
      BY <2>4, <2>5
    <3>3. o.dest + k # r.dest + off
      BY <1>2, <1>3, <2>1, <3>2
    <3>. QED
      BY <1>2, <1>4, <2>1, <3>1, <3>3
  <2>6. mem'[o.dest + off] = Wanted(o, off)
    <3>1. CASE o.src = Null
      BY <1>2, <1>3, <1>4, <2>1, <3>1 DEF Wanted, Null
    <3>2. CASE o.src # Null
      <4>1. mem[r.src + off] = Wanted(o, off)
        BY <1>3, <1>6, <2>1, <2>4, <3>2 DEF StandsFor
      <4>. QED
        BY <1>2, <1>3, <1>4, <2>1, <3>2, <4>1
    <3>. QED
      BY <3>1, <3>2
  <2>7. ASSUME NEW k \in 0 .. r.size - 1, k \notin Moved(i)', o.src # Null
        PROVE  mem'[r.src + k] = Wanted(o, k)
    <3>1. mem[r.src + k] = Wanted(o, k)
      BY <1>6, <2>1, <2>4, <2>7 DEF StandsFor
    <3>2. r.src # r.dest => r.src + k # r.dest + off
      <4>1. CASE down
        <5>1. ~(r.src < r.dest)
          BY <4>1 DEF down
        <5>2. ~(k < r.size - (left - 1))
          BY <2>2, <2>7, <4>1
        <5>. QED
          BY <1>1, <1>2, <2>3, <4>1, <5>1, <5>2
      <4>2. CASE ~down
        <5>1. r.src < r.dest /\ k < left - 1
          BY <1>1, <1>2, <2>1, <2>2, <2>7, <4>2 DEF down
        <5>. QED
          BY <1>1, <1>2, <2>3, <4>2, <5>1
      <4>. QED
        BY <4>1, <4>2
    <3>. QED
      BY <1>2, <1>4, <3>1, <3>2
  <2>. QED
    BY <1>1, <2>1, <2>4, <2>5, <2>6, <2>7 DEF StandsFor, Wanted
<1>. QED
  BY <1>1, <1>5, <1>6 DEF Faithful

LEMMA NextEntryFaithful ==
  ASSUME IInv, Faithful, NextEntry
  PROVE  Faithful'
<1>1. /\ pc = "run" /\ left = 0 /\ i \in Nat /\ i <= Count /\ Count \in Nat
      /\ UNCHANGED <<relocs, mem, objects>>
      /\ pc' \in {"run", "done"}
  BY Facts DEF IInv, LoopOK, NextEntry, storage
<1>2. \A q \in Indices : Moved(q)' = Moved(q)
  <2>. SUFFICES ASSUME NEW q \in Indices, NEW k \in 0 .. relocs[q].size - 1
                PROVE  k \in Moved(q)' <=> k \in Moved(q)
    BY <1>1 DEF Moved
  <2>1. q \in Nat /\ relocs[q].size \in Nat \ {0} /\ k \in Nat /\ k < relocs[q].size
    BY Places DEF Indices
  <2>2. k \in Moved(q) <=> q <= i
    BY <1>1, <2>1 DEF Moved
  <2>3. CASE i < Count
    <3>1. i' = i + 1 /\ left' = relocs[i + 1].size
      BY <2>3 DEF NextEntry
    <3>. QED
      BY <1>1, <2>1, <2>2, <3>1 DEF Moved
  <2>4. CASE ~(i < Count)
    <3>1. i' = i /\ left' = left
      BY <2>4 DEF NextEntry
    <3>. QED
      BY <1>1, <2>1, <2>2, <3>1 DEF Moved
  <2>. QED
    BY <2>3, <2>4
<1>3. \A p, q \in Indices : StandsFor(q, objects[p]) => StandsFor(q, objects[p])'
  BY <1>1, <1>2 DEF StandsFor, Wanted
<1>4. pc' = "done" => i' = Count /\ left' = 0
  BY <1>1 DEF NextEntry
<1>. QED
  BY <1>1, <1>3, <1>4 DEF Faithful

-----------------------------------------------------------------------------
(* The walk of break_reloc_deadlock.  It follows Follower from the largest  *)
(* entry until it comes to an entry it has left twice: what it visited once *)
(* leads, in order, to what it visited twice, which is a cycle.             *)

\* Where the walk goes from entry p.
Follower(p) == find_reloc_dependency(p, resolved + 1)

AllBlocked == \A p \in Unresolved : Dependencies(p, resolved + 1) # {}

At(p) == IF p = cur THEN 1 ELSE 0

\* An entry that was come to is the dependency of another one: it has a source.
\* The walk starts at Biggest without that.
CameTo(p) == visited[p] + At(p) >= IF p = Biggest THEN 2 ELSE 1

Ranked ==
  \E r \in [Indices -> Nat], top \in Nat :
    /\ \A p \in Indices : r[p] <= top
    /\ \A p \in Unresolved :
         visited[p] # 0 /\ visited[Follower(p)] = 1 /\ Follower(p) # cur =>
           r[p] < r[Follower(p)]

WalkOK ==
  /\ visited[Biggest] + At(Biggest) >= 1
  /\ \A p \in Unresolved : CameTo(p) => relocs[p].src # Null
  /\ \A p \in Unresolved : visited[p] <= visited[Follower(p)] + At(Follower(p))
  /\ Ranked
  /\ smallest = Biggest \/ visited[smallest] = 2
  /\ \A p \in Unresolved :
       visited[p] = 2 => relocs[smallest].size <= relocs[p].size
  /\ pc = "move" => visited[cur] = 2

WalkInv == pc \in {"walk", "move"} => WalkOK

LEMMA Following ==
  ASSUME IInv, AllBlocked, NEW p \in Unresolved
  PROVE  /\ p \in Indices /\ Follower(p) \in Indices
         /\ Follower(p) \in Dependencies(p, resolved + 1)
         /\ Follower(p) \in Unresolved /\ Follower(p) # p
         /\ relocs[Follower(p)].src # Null
<1>1. p \in Indices /\ resolved + 1 \in 1 .. Count + 1
  BY Facts DEF Unresolved, Indices, IInv, TypeOK
<1>2. Follower(p) \in Dependencies(p, resolved + 1)
  BY <1>1, Dependency DEF AllBlocked, Follower
<1>3. /\ Follower(p) \in Unresolved /\ Follower(p) # p
      /\ relocs[Follower(p)].src # Null
  BY <1>2 DEF Dependencies, Overwrites, Unresolved
<1>. QED
  BY <1>1, <1>2, <1>3, Facts DEF Unresolved, Indices

\* What the graph is made of stays as it is.
LEMMA SameTable ==
  ASSUME UNCHANGED <<relocs, resolved>>
  PROVE  /\ \A p : Follower(p)' = Follower(p)
         /\ Unresolved' = Unresolved
         /\ Biggest' = Biggest
         /\ AllBlocked' = AllBlocked
         /\ \A p : Dependencies(p, resolved + 1)' = Dependencies(p, resolved + 1)
BY DEF Follower, find_reloc_dependency, Dependencies, Overwrites, Unresolved,
       Biggest, AllBlocked

LEMMA DeadlockWalkInv ==
  ASSUME IInv, Deadlock
  PROVE  WalkInv'
<1>1. /\ visited' = [p \in Indices |-> 0] /\ cur' = Biggest /\ smallest' = Biggest
      /\ UNCHANGED <<relocs, resolved>> /\ pc' = "walk"
  BY DEF Deadlock, NoVisits, order
<1>2. Biggest \in Unresolved /\ Unresolved \subseteq Indices
  BY BiggestExists, Facts DEF IInv, LoopOK, Deadlock, Unresolved, Indices
<1>3. /\ Biggest' = Biggest /\ Unresolved' = Unresolved
      /\ \A p : Follower(p)' = Follower(p)
  BY <1>1, SameTable
<1>4. \A p \in Indices : visited'[p] = 0
  BY <1>1
<1>5. \A p : At(p)' \in {0, 1} /\ (At(p)' = 1 <=> p = Biggest)
  BY <1>1 DEF At
<1>6. Ranked'
  <2>. DEFINE r == [p \in Indices |-> 0]
  <2>1. r \in [Indices -> Nat] /\ \A p \in Indices : r[p] <= 0
    OBVIOUS
  <2>2. \A p \in Unresolved' : ~(visited'[p] # 0)
    BY <1>2, <1>3, <1>4
  <2>. HIDE DEF r
  <2>. QED
    BY <2>1, <2>2, Zenon DEF Ranked
<1>7. \A p \in Unresolved : ~CameTo(p)'
  BY <1>2, <1>3, <1>4, <1>5 DEF CameTo
<1>8. \A p \in Unresolved : visited'[p] <= visited'[Follower(p)] + At(Follower(p))'
  <2>. SUFFICES ASSUME NEW p \in Unresolved
                PROVE  visited'[p] <= visited'[Follower(p)] + At(Follower(p))'
    OBVIOUS
  <2>1. p \in Indices /\ resolved + 1 \in 1 .. Count + 1
    BY <1>2, Facts DEF IInv, TypeOK
  <2>2. Follower(p) \in Indices
    BY <2>1, Dependency, Facts DEF Follower, Indices
  <2>. QED
    BY <1>4, <1>5, <2>1, <2>2
<1>9. WalkOK'
  BY <1>1, <1>2, <1>3, <1>4, <1>5, <1>6, <1>7, <1>8 DEF WalkOK
<1>. QED
  BY <1>9 DEF WalkInv

LEMMA WalkWalkInv ==
  ASSUME IInv, AllBlocked, WalkInv, Walk
  PROVE  WalkInv'
<1>0. PICK next : next = Follower(cur)
  OBVIOUS
<1>1. /\ cur \in Unresolved /\ cur \in Indices /\ smallest \in Indices
      /\ smallest \in Unresolved
      /\ visited \in [Indices -> 0 .. 2] /\ visited[cur] < 2
      /\ Unresolved \subseteq Indices
  BY DEF IInv, LoopOK, TypeOK, Walk, Unresolved, Indices
<1>2. /\ visited' = [visited EXCEPT ![cur] = @ + 1]
      /\ smallest' = IF Picks(cur, visited'[cur]) THEN cur ELSE smallest
      /\ cur' = next
      /\ pc' = "move" => ~(visited'[next] < 2)
      /\ UNCHANGED <<relocs, resolved>>
  BY <1>0 DEF Walk, Follower, order
<1>3. /\ next \in Unresolved /\ next \in Indices /\ next # cur
      /\ relocs[next].src # Null
      /\ \A p \in Unresolved : Follower(p) \in Unresolved /\ Follower(p) # p
  BY <1>0, <1>1, Following
<1>4. /\ Biggest' = Biggest /\ Unresolved' = Unresolved
      /\ \A p : Follower(p)' = Follower(p)
  BY <1>2, SameTable
<1>5. /\ \A p \in Indices : visited'[p] = IF p = cur THEN visited[p] + 1 ELSE visited[p]
      /\ \A p \in Indices : visited[p] \in 0 .. 2 /\ visited'[p] \in 0 .. 2
  BY <1>1, <1>2
<1>6. \A p : /\ At(p) = IF p = cur THEN 1 ELSE 0
             /\ At(p)' = IF p = next THEN 1 ELSE 0
  BY <1>2 DEF At
<1>7. WalkOK
  BY DEF WalkInv, Walk
<1>8. \A p \in Indices : relocs[p].size \in Nat
  BY Places
<1>9. visited'[Biggest] + At(Biggest)' >= 1
  <2>1. Biggest \in Indices
    BY <1>1, BiggestExists, Facts DEF IInv, LoopOK, Unresolved, Walk
  <2>. QED
    BY <1>5, <1>6, <1>7, <2>1 DEF WalkOK
<1>10. ASSUME NEW p \in Unresolved, CameTo(p)' PROVE relocs[p].src # Null
  <2>1. p = next \/ CameTo(p)
    BY <1>1, <1>4, <1>5, <1>6, <1>10 DEF CameTo
  <2>. QED
    BY <1>3, <1>7, <2>1 DEF WalkOK
<1>11. ASSUME NEW p \in Unresolved, NEW f, f = Follower(p)
       PROVE  visited'[p] <= visited'[f] + At(f)'
  <2>1. visited[p] <= visited[f] + At(f)
    BY <1>7, <1>11 DEF WalkOK
  <2>2. f \in Indices /\ f # p /\ p \in Indices
    BY <1>1, <1>3, <1>11
  <2>3. /\ At(f) = IF f = cur THEN 1 ELSE 0
        /\ At(f)' = IF f = next THEN 1 ELSE 0
    BY <1>6
  <2>4. p = cur => f = next
    BY <1>0, <1>11
  <2>5. /\ visited'[p] = IF p = cur THEN visited[p] + 1 ELSE visited[p]
        /\ visited'[f] = IF f = cur THEN visited[f] + 1 ELSE visited[f]
        /\ visited[p] \in 0 .. 2 /\ visited[f] \in 0 .. 2
    BY <1>5, <2>2
  <2>. QED
    BY <1>3, <2>1, <2>2, <2>3, <2>4, <2>5
<1>12. Ranked'
  <2>1. PICK r \in [Indices -> Nat], top \in Nat :
          /\ \A p \in Indices : r[p] <= top
          /\ \A p \in Unresolved :
               visited[p] # 0 /\ visited[Follower(p)] = 1 /\ Follower(p) # cur =>
                 r[p] < r[Follower(p)]
    BY <1>7 DEF WalkOK, Ranked
  <2>. DEFINE s == IF visited[cur] = 0 THEN [r EXCEPT ![cur] = top + 1] ELSE r
  <2>2. /\ s \in [Indices -> Nat]
        /\ \A p \in Indices : s[p] = IF p = cur /\ visited[cur] = 0 THEN top + 1
                                                                    ELSE r[p]
    BY <1>1
  <2>. HIDE DEF s
  <2>3. top + 1 \in Nat /\ \A p \in Indices : s[p] <= top + 1
    BY <2>1, <2>2
  <2>4. ASSUME NEW p \in Unresolved, visited'[p] # 0, visited'[Follower(p)] = 1,
               Follower(p) # next
        PROVE  s[p] < s[Follower(p)]
    <3>1. Follower(p) \in Indices /\ Follower(p) # p /\ p \in Indices
      BY <1>1, <1>3
    <3>2. p # cur
      BY <1>0, <2>4
    <3>3. CASE Follower(p) = cur
      <4>1. visited[cur] = 0
        BY <1>1, <1>5, <2>4, <3>3
      <4>. QED
        BY <1>1, <2>1, <2>2, <3>1, <3>2, <3>3, <4>1
    <3>4. CASE Follower(p) # cur
      BY <1>5, <2>1, <2>2, <2>4, <3>1, <3>2, <3>4
    <3>. QED
      BY <3>3, <3>4
  <2>5. \A p \in Unresolved :
          visited'[p] # 0 /\ visited'[Follower(p)] = 1 /\ Follower(p) # next =>
            s[p] < s[Follower(p)]
    BY <2>4
  <2>6. \A p \in Unresolved' :
          visited'[p] # 0 /\ visited'[Follower(p)'] = 1 /\ Follower(p)' # cur' =>
            s[p] < s[Follower(p)']
    BY <1>2, <1>4, <2>5
  <2>. QED
    BY <2>2, <2>3, <2>6, Zenon DEF Ranked
<1>13. smallest' = Biggest \/ visited'[smallest'] = 2
  BY <1>1, <1>2, <1>5, <1>7 DEF WalkOK, Picks
<1>14. ASSUME NEW p \in Unresolved, visited'[p] = 2
       PROVE  relocs[smallest'].size <= relocs[p].size
  <2>1. p \in Indices
    BY <1>1
  <2>2. relocs[smallest'].size <= relocs[smallest].size
    BY <1>1, <1>2, <1>8 DEF Picks
  <2>3. p = cur => relocs[smallest'].size <= relocs[p].size
    BY <1>1, <1>2, <1>8, <1>14 DEF Picks
  <2>4. p # cur => relocs[smallest].size <= relocs[p].size
    BY <1>5, <1>7, <1>14, <2>1 DEF WalkOK
  <2>5. smallest' \in Indices
    BY <1>1, <1>2
  <2>. QED
    BY <1>1, <1>8, <2>1, <2>2, <2>3, <2>4, <2>5
<1>15. pc' = "move" => visited'[cur'] = 2
  BY <1>2, <1>3, <1>5
<1>16. WalkOK'
  <2>1. \A p \in Unresolved' : CameTo(p)' => relocs'[p].src # Null
    BY <1>2, <1>4, <1>10
  <2>2. ASSUME NEW p \in Unresolved'
        PROVE  visited'[p] <= visited'[Follower(p)'] + At(Follower(p))'
    <3>1. PICK f : f = Follower(p)
      OBVIOUS
    <3>2. f = Follower(p)' /\ p \in Unresolved
      BY <1>4, <3>1
    <3>3. visited'[p] <= visited'[f] + At(f)'
      BY <1>11, <3>1, <3>2
    <3>4. At(f)' = At(Follower(p))'
      BY <3>2 DEF At
    <3>. QED
      BY <3>2, <3>3, <3>4
  <2>3. \A p \in Unresolved' :
          visited'[p] = 2 => relocs'[smallest'].size <= relocs'[p].size
    BY <1>2, <1>4, <1>14
  <2>4. visited'[Biggest'] + At(Biggest)' >= 1
    BY <1>4, <1>9
  <2>. QED
    BY <1>4, <1>12, <1>13, <1>15, <2>1, <2>2, <2>3, <2>4 DEF WalkOK
<1>. QED
  BY <1>16 DEF WalkInv

-----------------------------------------------------------------------------
(* An entry with no source has no part in a cycle, but the walk may choose  *)
(* it: the first of several largest ones.  Then nothing is gained, and each *)
(* further walk chooses it again, until there is no safe memory left.       *)

Stuck ==
  \E C, L \in SUBSET Unresolved, r \in [Indices -> Nat] :
    /\ C \cap L = {}
    /\ n = 0 /\ resolved < Count
    /\ pc \in {"scan", "walk", "move", "out_of_resources"}
    /\ AllBlocked
    /\ Biggest \in C \cup L
    /\ Span(relocs[Biggest].src, relocs[Biggest].size) \subseteq SafeMem
    /\ \A p \in C : Follower(p) \in C /\ relocs[Biggest].size <= relocs[p].size
    /\ \A p \in L : /\ Follower(p) \in C \cup L
                    /\ Follower(p) \in L => r[p] < r[Follower(p)]
    /\ pc \in {"walk", "move"} =>
         /\ smallest = Biggest
         /\ cur \in C \cup L
         /\ \A p \in L : visited[p] <= 1
         /\ cur \in L => \A p \in L : visited[p] # 0 => r[p] < r[cur]

\* No destination is in safe memory: whose dependency an entry is does not change
\* when its source is moved there from nowhere, or from there.
LEMMA SameGraph ==
  ASSUME IInv, Move,
         \/ relocs[smallest].src = Null
         \/ Span(relocs[smallest].src, relocs[smallest].size) \subseteq SafeMem
  PROVE  /\ \A p \in Indices : Dependencies(p, resolved + 1)' = Dependencies(p, resolved + 1)
         /\ \A p \in Indices : Follower(p)' = Follower(p)
         /\ Unresolved' = Unresolved /\ Unresolved \subseteq Indices
         /\ Biggest' = Biggest
         /\ AllBlocked' = AllBlocked
         /\ Span(relocs'[smallest].src, relocs'[smallest].size) \subseteq SafeMem
<1>1. resolved' = resolved /\ smallest \in Indices /\ Unresolved \subseteq Indices
  <2>1. resolved' = resolved /\ smallest \in Indices
    BY Moving DEF Move
  <2>2. Unresolved \subseteq Indices
    BY Facts DEF Unresolved, Indices
  <2>. QED
    BY <2>1, <2>2
<1>2. PICK a \in Addr :
        /\ Span(a, relocs[smallest].size) \subseteq SafeMem
        /\ \A q \in Indices :
             /\ relocs'[q].dest = relocs[q].dest
             /\ relocs'[q].size = relocs[q].size
             /\ relocs'[q].src = IF q = smallest THEN a ELSE relocs[q].src
  BY Moving
<1>3. ASSUME NEW p \in Indices, NEW b \in Nat,
             Span(b, relocs[smallest].size) \subseteq SafeMem
      PROVE  ~is_overlap(relocs[p].dest, relocs[p].size, b, relocs[smallest].size)
  <2>1. /\ relocs[p].dest \in Nat /\ relocs[p].size \in Nat \ {0}
        /\ relocs[smallest].size \in Nat \ {0}
    BY <1>1, Places
  <2>2. Span(relocs[p].dest, relocs[p].size)
          \cap Span(b, relocs[smallest].size) = {}
    BY <1>3 DEF IInv, SpansOK
  <2>3. CASE b < relocs[p].dest
    <3>1. relocs[p].dest \in Span(relocs[p].dest, relocs[p].size)
      BY <2>1 DEF Span
    <3>2. ~(relocs[p].dest \in Span(b, relocs[smallest].size))
      BY <2>2, <3>1
    <3>. QED
      BY <2>1, <2>3, <3>2 DEF is_overlap, Span
  <2>4. CASE ~(b < relocs[p].dest)
    <3>1. b \in Span(b, relocs[smallest].size)
      BY <2>1 DEF Span
    <3>2. ~(b \in Span(relocs[p].dest, relocs[p].size))
      BY <2>2, <3>1
    <3>. QED
      BY <2>1, <2>4, <3>2 DEF is_overlap, Span
  <2>. QED
    BY <2>3, <2>4
<1>. PICK s \in Indices : s = smallest
  BY <1>1
<1>4. \A p \in Indices : ~Overwrites(p, s)
  BY <1>1, <1>3, Places DEF Overwrites
<1>5. \A p \in Indices : ~Overwrites(p, s)'
  <2>. SUFFICES ASSUME NEW p \in Indices PROVE ~Overwrites(p, s)'
    OBVIOUS
  <2>1. a \in Nat
    BY Facts
  <2>2. ~is_overlap(relocs[p].dest, relocs[p].size, a, relocs[smallest].size)
    BY <1>2, <1>3, <2>1
  <2>. QED
    BY <1>1, <1>2, <2>1, <2>2 DEF Overwrites
<1>6. \A p, q \in Indices : Overwrites(p, q)' <=> Overwrites(p, q)
  <2>. SUFFICES ASSUME NEW p \in Indices, NEW q \in Indices
                PROVE  Overwrites(p, q)' <=> Overwrites(p, q)
    OBVIOUS
  <2>1. CASE q = s
    BY <1>4, <1>5, <2>1
  <2>2. CASE q # s
    BY <1>2, <2>2 DEF Overwrites
  <2>. QED
    BY <2>1, <2>2
<1>7. resolved + 1 .. Count \subseteq Indices
  BY Facts DEF Indices
<1>8. \A p \in Indices : Dependencies(p, resolved + 1)' = Dependencies(p, resolved + 1)
  BY <1>1, <1>6, <1>7 DEF Dependencies
<1>9. \A p \in Indices : Follower(p)' = Follower(p)
  BY <1>1, <1>8 DEF Follower, find_reloc_dependency
<1>10. Unresolved' = Unresolved
  BY <1>1 DEF Unresolved
<1>11. Biggest' = Biggest
  <2>1. \A p \in Unresolved : relocs'[p].size = relocs[p].size
    BY <1>1, <1>2
  <2>. QED
    BY <1>10, <2>1 DEF Biggest
<1>12. AllBlocked' = AllBlocked
  BY <1>1, <1>8, <1>10 DEF AllBlocked
<1>. QED
  BY <1>1, <1>2, <1>8, <1>9, <1>10, <1>11, <1>12

LEMMA BecomesStuck ==
  ASSUME IInv, AllBlocked, WalkInv, Move, relocs[smallest].src = Null
  PROVE  Stuck'
<1>1. /\ pc = "move" /\ pc' = "scan" /\ n' = 0 /\ resolved' = resolved
      /\ smallest \in Unresolved /\ Unresolved \subseteq Indices
      /\ resolved < Count /\ visited \in [Indices -> 0 .. 2] /\ cur \in Unresolved
  BY Moving, Facts DEF Move, Unresolved, Indices, IInv, LoopOK, TypeOK
<1>2. WalkOK /\ visited[cur] = 2
  BY <1>1 DEF WalkInv, WalkOK
<1>3. smallest = Biggest
  <2>1. \A p \in Unresolved : At(p) \in {0, 1} /\ visited[p] \in 0 .. 2
    BY <1>1 DEF At
  <2>2. visited[smallest] = 2 => CameTo(smallest)
    BY <1>1, <2>1 DEF CameTo
  <2>. QED
    BY <1>1, <1>2, <2>2 DEF WalkOK
<1>4. PICK r \in [Indices -> Nat] :
        \A p \in Unresolved :
          visited[p] # 0 /\ visited[Follower(p)] = 1 /\ Follower(p) # cur =>
            r[p] < r[Follower(p)]
  BY <1>2 DEF WalkOK, Ranked
<1>. DEFINE C == {p \in Unresolved : visited[p] = 2}
            L == {p \in Unresolved : visited[p] = 1}
<1>5. \A p \in Unresolved :
        /\ Follower(p) \in Unresolved /\ p \in Indices /\ Follower(p) \in Indices
        /\ visited[p] <= visited[Follower(p)] + At(Follower(p))
        /\ visited[p] \in 0 .. 2 /\ visited[Follower(p)] \in 0 .. 2
        /\ At(Follower(p)) = IF Follower(p) = cur THEN 1 ELSE 0
  BY <1>1, <1>2, Following DEF WalkOK, At
<1>6. /\ Biggest \in C \cup L
      /\ \A p \in C : Follower(p) \in C /\ relocs[Biggest].size <= relocs[p].size
      /\ \A p \in L : /\ Follower(p) \in C \cup L
                      /\ Follower(p) \in L => r[p] < r[Follower(p)]
  <2>1. Biggest \in C \cup L
    BY <1>1, <1>2, <1>3 DEF WalkOK, At
  <2>2. ASSUME NEW p \in C
        PROVE  Follower(p) \in C /\ relocs[Biggest].size <= relocs[p].size
    BY <1>2, <1>3, <1>5, <2>2 DEF WalkOK
  <2>3. ASSUME NEW p \in L
        PROVE  /\ Follower(p) \in C \cup L
               /\ Follower(p) \in L => r[p] < r[Follower(p)]
    BY <1>2, <1>4, <1>5, <2>3
  <2>. QED
    BY <2>1, <2>2, <2>3
<1>7. C \subseteq Unresolved /\ L \subseteq Unresolved /\ C \cap L = {}
  OBVIOUS
<1>. HIDE DEF C, L
<1>8. /\ Unresolved' = Unresolved /\ Biggest' = Biggest /\ AllBlocked'
      /\ \A p \in Unresolved : Follower(p)' = Follower(p)
      /\ Span(relocs'[Biggest].src, relocs'[Biggest].size) \subseteq SafeMem
      /\ \A p \in Unresolved : relocs'[p].size = relocs[p].size
  <2>1. \A p \in Indices : relocs'[p].size = relocs[p].size
    BY Moving
  <2>. QED
    BY <1>1, <1>3, <2>1, SameGraph
<1>9. \A p \in C : Follower(p)' \in C /\ relocs'[Biggest'].size <= relocs'[p].size
  <2>1. Biggest \in Unresolved
    BY <1>1, <1>3
  <2>. QED
    BY <1>6, <1>7, <1>8, <2>1
<1>10. \A p \in L : /\ Follower(p)' \in C \cup L
                    /\ Follower(p)' \in L => r[p] < r[Follower(p)']
  BY <1>6, <1>7, <1>8
<1>11. C \in SUBSET Unresolved' /\ L \in SUBSET Unresolved'
  BY <1>7, <1>8
<1>. QED
  BY <1>1, <1>6, <1>7, <1>8, <1>9, <1>10, <1>11 DEF Stuck

LEMMA StuckStep ==
  ASSUME IInv, Stuck, [Next]_vars
  PROVE  Stuck'
<1>1. PICK C \in SUBSET Unresolved, L \in SUBSET Unresolved, r \in [Indices -> Nat] :
        /\ C \cap L = {}
        /\ n = 0 /\ resolved < Count
        /\ pc \in {"scan", "walk", "move", "out_of_resources"}
        /\ AllBlocked
        /\ Biggest \in C \cup L
        /\ Span(relocs[Biggest].src, relocs[Biggest].size) \subseteq SafeMem
        /\ \A p \in C : Follower(p) \in C /\ relocs[Biggest].size <= relocs[p].size
        /\ \A p \in L : /\ Follower(p) \in C \cup L
                        /\ Follower(p) \in L => r[p] < r[Follower(p)]
        /\ pc \in {"walk", "move"} =>
             /\ smallest = Biggest
             /\ cur \in C \cup L
             /\ \A p \in L : visited[p] <= 1
             /\ cur \in L => \A p \in L : visited[p] # 0 => r[p] < r[cur]
  BY DEF Stuck
<1>2. Unresolved \subseteq Indices /\ C \subseteq Indices /\ L \subseteq Indices
  BY Facts DEF Unresolved, Indices
\* Nothing is ever resolved: every unresolved entry has a dependency.
<1>3. ~ScanResolves /\ ~PassEnds /\ ~do_reloc /\ ~NextEntry
  <2>1. ASSUME ScanResolves PROVE FALSE
    <3>1. Scanned \in Unresolved /\ Front = resolved + 1
      BY <1>1, <2>1, Facts DEF ScanResolves, Scanned, Front, Unresolved
    <3>. QED
      BY <1>1, <2>1, <3>1, Following DEF ScanResolves, Follower
  <2>2. ~PassEnds /\ ~do_reloc /\ ~NextEntry
    BY <1>1 DEF PassEnds, do_reloc, NextEntry
  <2>. QED
    BY <2>1, <2>2
<1>4. ASSUME UNCHANGED <<relocs, resolved>>, n' = 0,
             pc' \in {"scan", "walk", "move", "out_of_resources"},
             pc' \in {"walk", "move"} =>
               /\ smallest' = Biggest
               /\ cur' \in C \cup L
               /\ \A p \in L : visited'[p] <= 1
               /\ cur' \in L => \A p \in L : visited'[p] # 0 => r[p] < r[cur']
      PROVE  Stuck'
  <2>1. /\ Unresolved' = Unresolved /\ Biggest' = Biggest /\ AllBlocked'
        /\ \A p \in Unresolved : Follower(p)' = Follower(p)
    BY <1>1, <1>4, SameTable
  <2>2. C \in SUBSET Unresolved' /\ L \in SUBSET Unresolved'
    BY <2>1
  <2>3. \A p \in C : Follower(p)' \in C /\ relocs'[Biggest'].size <= relocs'[p].size
    BY <1>1, <1>4, <2>1
  <2>4. \A p \in L : /\ Follower(p)' \in C \cup L
                     /\ Follower(p)' \in L => r[p] < r[Follower(p)']
    BY <1>1, <2>1
  <2>. QED
    BY <1>1, <1>4, <2>1, <2>2, <2>3, <2>4 DEF Stuck
<1>5. CASE ScanSkips
  BY <1>1, <1>4, <1>5 DEF ScanSkips
<1>6. CASE Deadlock
  <2>1. /\ UNCHANGED <<relocs, resolved>> /\ n' = 0 /\ pc' = "walk"
        /\ smallest' = Biggest /\ cur' = Biggest
        /\ \A p \in Indices : visited'[p] = 0
    BY <1>1, <1>6 DEF Deadlock, order, NoVisits
  <2>2. \A p \in L : visited'[p] = 0
    BY <1>2, <2>1
  <2>. QED
    BY <1>1, <1>4, <2>1, <2>2
<1>7. CASE Walk
  <2>0. PICK next : next = Follower(cur)
    OBVIOUS
  <2>1. /\ pc = "walk" /\ pc' \in {"walk", "move", "internal_error"}
        /\ visited' = [visited EXCEPT ![cur] = @ + 1]
        /\ smallest' = IF Picks(cur, visited'[cur]) THEN cur ELSE smallest
        /\ cur' = next
        /\ pc' = "internal_error" => next = cur
        /\ UNCHANGED <<relocs, resolved, n>>
    BY <1>7, <2>0 DEF Walk, Follower, order
  <2>2. /\ cur \in Unresolved /\ visited \in [Indices -> 0 .. 2]
        /\ \A p \in Indices : visited'[p] = IF p = cur THEN visited[p] + 1 ELSE visited[p]
        /\ visited[cur] < 2 /\ cur \in Indices
    BY <1>2, <2>1, Facts DEF IInv, LoopOK, TypeOK
  <2>3. next # cur /\ next \in C \cup L
    BY <1>1, <2>0, <2>1, <2>2, Following
  <2>4. \A p \in L : r[p] \in Nat /\ visited[p] \in 0 .. 2
    BY <1>2, <2>2
  <2>5. cur \in L => visited[cur] = 0
    BY <1>1, <2>1, <2>2, <2>4
  <2>6. smallest' = Biggest
    <3>1. CASE cur \in L
      BY <1>1, <2>1, <2>2, <2>5, <3>1 DEF Picks
    <3>2. CASE cur \in C
      <4>1. Biggest \in Indices /\ relocs[Biggest].size \in Nat /\ relocs[cur].size \in Nat
        BY <1>1, <1>2, <2>2, Places
      <4>2. ~Picks(cur, visited'[cur])
        BY <1>1, <2>1, <3>2, <4>1 DEF Picks
      <4>. QED
        BY <1>1, <2>1, <4>2
    <3>. QED
      BY <1>1, <2>1, <3>1, <3>2
  <2>7. \A p \in L : visited'[p] <= 1
    BY <1>1, <1>2, <2>1, <2>2, <2>4, <2>5
  <2>8. ASSUME next \in L, NEW p \in L, visited'[p] # 0 PROVE r[p] < r[next]
    <3>1. CASE p = cur
      BY <1>1, <2>0, <2>8, <3>1
    <3>2. CASE p # cur
      <4>1. visited[p] # 0
        BY <1>2, <2>2, <2>8, <3>2
      <4>2. CASE cur \in L
        BY <1>1, <2>0, <2>1, <2>4, <2>8, <4>1, <4>2
      <4>3. CASE cur \in C
        <5>1. next \in C
          BY <1>1, <2>0, <4>3
        <5>. QED
          BY <1>1, <2>8, <5>1
      <4>. QED
        BY <1>1, <2>1, <4>2, <4>3
    <3>. QED
      BY <3>1, <3>2
  <2>. QED
    BY <1>1, <1>4, <2>1, <2>3, <2>6, <2>7, <2>8
<1>8. CASE Move
  <2>1. /\ pc' = "scan" /\ n' = 0 /\ resolved' = resolved /\ smallest = Biggest
        /\ smallest \in Indices
    BY <1>1, <1>8, Moving DEF Move
  <2>2. /\ Unresolved' = Unresolved /\ Biggest' = Biggest /\ AllBlocked'
        /\ \A p \in Indices : Follower(p)' = Follower(p)
        /\ Span(relocs'[Biggest].src, relocs'[Biggest].size) \subseteq SafeMem
    BY <1>1, <1>8, <2>1, SameGraph
  <2>3. \A p \in Indices : relocs'[p].size = relocs[p].size
    BY <1>8, Moving
  <2>4. C \in SUBSET Unresolved' /\ L \in SUBSET Unresolved'
    BY <2>2
  <2>5. \A p \in C : Follower(p)' \in C /\ relocs'[Biggest'].size <= relocs'[p].size
    BY <1>1, <1>2, <2>1, <2>2, <2>3
  <2>6. \A p \in L : /\ Follower(p)' \in C \cup L
                     /\ Follower(p)' \in L => r[p] < r[Follower(p)']
    BY <1>1, <1>2, <2>2
  <2>. QED
    BY <1>1, <2>1, <2>2, <2>4, <2>5, <2>6 DEF Stuck
<1>9. CASE NoSafeMemory
  BY <1>1, <1>4, <1>9 DEF NoSafeMemory, order
<1>10. CASE UNCHANGED vars
  BY <1>1, <1>4, <1>10 DEF vars
<1>. QED
  BY <1>3, <1>5, <1>6, <1>7, <1>8, <1>9, <1>10 DEF Next

-----------------------------------------------------------------------------
DInv == IInv /\ WInv /\ Kept /\ ((Faithful /\ WalkInv) \/ Stuck)

LEMMA BlockedWalk ==
  ASSUME IInv, WInv, pc \in {"walk", "move"}
  PROVE  AllBlocked
BY DEF IInv, LoopOK, WInv, Blocked, AllBlocked

LEMMA NextFaithful ==
  ASSUME IInv, WInv, Kept, Faithful, WalkInv, [Next]_vars
  PROVE  (Faithful /\ WalkInv)' \/ Stuck'
<1>1. CASE Move /\ relocs[smallest].src = Null
  BY <1>1, BlockedWalk, BecomesStuck DEF Move
<1>2. CASE Move /\ relocs[smallest].src # Null
  BY <1>2, MoveFaithful DEF WalkInv, Move
<1>3. ASSUME ~Move PROVE (Faithful /\ WalkInv)'
  <2>1. Faithful'
    <3>1. CASE pc \notin {"run", "done"}
      BY <1>3, <3>1, BeforeRunning
    <3>2. CASE pc \in {"run", "done"}
      <4>1. do_reloc \/ NextEntry \/ UNCHANGED vars
        BY <1>3, <3>2 DEF Next, ScanResolves, ScanSkips, PassEnds, Deadlock, Walk,
           NoSafeMemory
      <4>2. ASSUME UNCHANGED vars PROVE Faithful'
        BY <4>2 DEF Faithful, StandsFor, Moved, Wanted, vars
      <4>. QED
        BY <4>1, <4>2, DoRelocFaithful, NextEntryFaithful
    <3>. QED
      BY <3>1, <3>2
  <2>2. WalkInv'
    <3>1. CASE Deadlock
      BY <3>1, DeadlockWalkInv
    <3>2. CASE Walk
      BY <3>2, BlockedWalk, WalkWalkInv DEF Walk
    <3>3. CASE UNCHANGED vars
      <4>1. /\ Biggest' = Biggest /\ Unresolved' = Unresolved
            /\ \A p : Follower(p)' = Follower(p)
        BY <3>3, SameTable DEF vars
      <4>2. \A p : At(p)' = At(p) /\ (CameTo(p)' <=> CameTo(p))
        BY <3>3, <4>1 DEF At, CameTo, vars
      <4>3. Ranked' <=> Ranked
        BY <3>3, <4>1 DEF Ranked, vars
      <4>4. \A p \in Unresolved : At(Follower(p))' = At(Follower(p))
        BY <3>3, <4>1 DEF At, vars
      <4>. QED
        BY <3>3, <4>1, <4>2, <4>3, <4>4 DEF WalkInv, WalkOK, vars
    <3>4. CASE pc' \notin {"walk", "move"}
      BY <3>4 DEF WalkInv
    <3>. QED
      BY <1>3, <3>1, <3>2, <3>3, <3>4 DEF Next, ScanResolves, ScanSkips, PassEnds,
         NoSafeMemory, do_reloc, NextEntry
  <2>. QED
    BY <2>1, <2>2
<1>. QED
  BY <1>1, <1>2, <1>3

LEMMA DInvDelivers ==
  ASSUME DInv
  PROVE  Delivered
<1>. SUFFICES ASSUME pc = "done", NEW p \in Indices, NEW k \in 0 .. objects[p].size - 1
              PROVE  mem[objects[p].dest + k] =
                       IF objects[p].src = Null THEN Zero ELSE objects[p].src + k
  BY DEF Delivered
<1>1. Faithful
  BY DEF DInv, Stuck
<1>2. PICK q \in Indices : StandsFor(q, objects[p])
  BY <1>1 DEF Faithful
<1>3. i = Count /\ left = 0 /\ q <= i /\ q \in Nat /\ Count \in Nat
  BY <1>1, RelocInput DEF Faithful, Indices
<1>4. relocs[q].size = objects[p].size /\ objects[p].size \in Nat
  BY <1>2, Originals DEF DInv, StandsFor
<1>5. k \in Moved(q)
  BY <1>3, <1>4 DEF Moved
<1>. QED
  BY <1>2, <1>5 DEF StandsFor, Wanted

\* Whatever is moved over whatever, in cycles or onto itself: when the trampoline
\* has run (reloc_resolve, do_reloc), every object is where it should be, byte for
\* byte, and what has no source is zeroed.
THEOREM AllDelivered == Spec => []Delivered
<1>1. Init => DInv
  <2>. SUFFICES ASSUME Init PROVE DInv
    OBVIOUS
  <2>1. WalkInv
    BY DEF Init, WalkInv
  <2>. QED
    BY <2>1, InitIInv, InitWInv, InitKept DEF DInv
<1>2. DInv /\ [Next]_vars => DInv'
  <2>. SUFFICES ASSUME DInv, [Next]_vars PROVE DInv'
    OBVIOUS
  <2>. USE DEF DInv
  <2>1. (IInv /\ WInv /\ Kept)'
    BY NextIInv, NextWInv, NextKept
  <2>2. (Faithful /\ WalkInv)' \/ Stuck'
    BY NextFaithful, StuckStep
  <2>. QED
    BY <2>1, <2>2
<1>3. DInv => Delivered
  BY DInvDelivers
<1>. QED
  BY <1>1, <1>2, <1>3, PTL DEF Spec

-----------------------------------------------------------------------------
(* With no two objects of the same size the entry chosen is the smallest of *)
(* a cycle.  S, closed under dependencies, holds what can be reached.       *)

Different(t) == \A p, q \in Indices : p # q => t[p].size # t[q].size

\* Following dependencies from p leads to q, in one step or more.
Reaches(p, q) ==
  \A S \in SUBSET Unresolved :
    (\A x \in S \cup {p} : Dependencies(x, resolved + 1) \subseteq S) => q \in S

\* What was visited leads to where the walk is, and back if visited again.
WalkReaches ==
  pc \in {"walk", "move"} =>
    \A p \in Unresolved : /\ visited[p] # 0 => Reaches(p, cur)
                          /\ visited[p] = 2 => OnCycle(p)

CInv == IInv /\ WInv /\ WalkInv /\ Different(relocs) /\ WalkReaches

LEMMA WalkReachesStep ==
  ASSUME IInv, AllBlocked, WalkReaches, Walk
  PROVE  WalkReaches'
<1>0. PICK next : next = Follower(cur)
  OBVIOUS
<1>1. /\ cur \in Unresolved /\ cur \in Indices /\ Unresolved \subseteq Indices
      /\ visited \in [Indices -> 0 .. 2]
  BY Facts DEF IInv, LoopOK, TypeOK, Walk, Unresolved, Indices
<1>2. /\ \A p \in Indices : visited'[p] = IF p = cur THEN visited[p] + 1 ELSE visited[p]
      /\ cur' = next /\ UNCHANGED <<relocs, resolved>> /\ pc = "walk"
  BY <1>0, <1>1 DEF Walk, Follower, order
<1>3. next \in Dependencies(cur, resolved + 1)
  BY <1>0, <1>1, Following
<1>4. /\ Unresolved' = Unresolved
      /\ \A p : Dependencies(p, resolved + 1)' = Dependencies(p, resolved + 1)
  BY <1>2, SameTable
<1>5. ASSUME NEW p \in Unresolved, visited'[p] # 0 PROVE Reaches(p, next)
  <2>1. p = cur \/ Reaches(p, cur)
    BY <1>1, <1>2, <1>5 DEF WalkReaches
  <2>2. ASSUME NEW S \in SUBSET Unresolved,
               \A x \in S \cup {p} : Dependencies(x, resolved + 1) \subseteq S
        PROVE  next \in S
    <3>1. cur \in S \cup {p}
      BY <2>1, <2>2 DEF Reaches
    <3>. QED
      BY <1>3, <2>2, <3>1
  <2>. QED
    BY <2>2 DEF Reaches
<1>6. ASSUME NEW p \in Unresolved, visited'[p] = 2 PROVE OnCycle(p)
  <2>1. CASE p = cur
    <3>1. visited[p] # 0
      BY <1>1, <1>2, <1>6, <2>1
    <3>2. Reaches(p, p)
      BY <1>2, <2>1, <3>1 DEF WalkReaches
    <3>. QED
      BY <3>2 DEF Reaches, OnCycle
  <2>2. CASE p # cur
    BY <1>1, <1>2, <1>6, <2>2 DEF WalkReaches
  <2>. QED
    BY <2>1, <2>2
<1>7. ASSUME NEW p \in Unresolved' PROVE /\ visited'[p] # 0 => Reaches(p, cur)'
                                         /\ visited'[p] = 2 => OnCycle(p)'
  <2>1. Reaches(p, cur)' <=> Reaches(p, next)
    BY <1>2, <1>4 DEF Reaches
  <2>2. OnCycle(p)' <=> OnCycle(p)
    BY <1>4 DEF OnCycle
  <2>. QED
    BY <1>4, <1>5, <1>6, <1>7, <2>1, <2>2
<1>. QED
  BY <1>7 DEF WalkReaches

LEMMA NextCInv == CInv /\ [Next]_vars => CInv'
<1>. SUFFICES ASSUME CInv, [Next]_vars PROVE CInv'
  OBVIOUS
<1>. USE DEF CInv
<1>1. IInv' /\ WInv'
  BY NextIInv, NextWInv
<1>2. Different(relocs)'
  <2>1. CASE ScanResolves
    <3>. DEFINE Other(q) == IF q = Scanned THEN Front
                            ELSE IF q = Front THEN Scanned ELSE q
    <3>1. /\ \A q \in Indices : Other(q) \in Indices /\ relocs'[q] = relocs[Other(q)]
          /\ \A p, q \in Indices : p # q => Other(p) # Other(q)
      BY <2>1, Swapping
    <3>. HIDE DEF Other
    <3>. QED
      BY <3>1 DEF Different
  <2>2. CASE Move
    <3>1. \A q \in Indices : relocs'[q].size = relocs[q].size
      BY <2>2, Moving
    <3>. QED
      BY <3>1 DEF Different
  <2>3. CASE relocs' = relocs
    BY <2>3 DEF Different
  <2>. QED
    BY <2>1, <2>2, <2>3 DEF Next, ScanSkips, PassEnds, Deadlock, Walk, NoSafeMemory,
       do_reloc, NextEntry, vars
<1>3. WalkInv' /\ WalkReaches'
  <2>1. CASE Deadlock
    <3>1. /\ \A p \in Indices : visited'[p] = 0
          /\ UNCHANGED <<relocs, resolved>>
      BY <2>1 DEF Deadlock, NoVisits, order
    <3>2. \A p \in Unresolved' : p \in Indices
      BY <3>1, Facts DEF Unresolved, Indices
    <3>. QED
      BY <2>1, <3>1, <3>2, DeadlockWalkInv DEF WalkReaches
  <2>2. CASE Walk
    BY <2>2, BlockedWalk, WalkWalkInv, WalkReachesStep DEF Walk
  <2>3. CASE UNCHANGED vars
    <3>1. /\ Biggest' = Biggest /\ Unresolved' = Unresolved
          /\ \A p : Follower(p)' = Follower(p)
          /\ \A p : Dependencies(p, resolved + 1)' = Dependencies(p, resolved + 1)
      BY <2>3, SameTable DEF vars
    <3>2. \A p : At(p)' = At(p) /\ (CameTo(p)' <=> CameTo(p))
      BY <2>3, <3>1 DEF At, CameTo, vars
    <3>3. Ranked' <=> Ranked
      BY <2>3, <3>1 DEF Ranked, vars
    <3>4. \A p \in Unresolved : At(Follower(p))' = At(Follower(p))
      BY <2>3, <3>1 DEF At, vars
    <3>5. WalkInv'
      BY <2>3, <3>1, <3>2, <3>3, <3>4 DEF WalkInv, WalkOK, vars
    <3>6. \A p : (Reaches(p, cur)' <=> Reaches(p, cur)) /\ (OnCycle(p)' <=> OnCycle(p))
      BY <2>3, <3>1 DEF Reaches, OnCycle, vars
    <3>. QED
      BY <2>3, <3>1, <3>5, <3>6 DEF WalkReaches, vars
  <2>4. CASE pc' \notin {"walk", "move"}
    BY <2>4 DEF WalkInv, WalkReaches
  <2>. QED
    BY <2>1, <2>2, <2>3, <2>4 DEF Next, ScanResolves, ScanSkips, PassEnds, Move,
       NoSafeMemory, do_reloc, NextEntry
<1>. QED
  BY <1>1, <1>2, <1>3

LEMMA CInvBreaks ==
  ASSUME CInv
  PROVE  BreaksCycle
<1>. SUFFICES ASSUME pc = "move" PROVE OnCycle(smallest)
  BY DEF BreaksCycle
<1>1. /\ cur \in Unresolved /\ smallest \in Unresolved /\ Unresolved \subseteq Indices
      /\ resolved < Count
  BY Facts DEF CInv, IInv, LoopOK, Unresolved, Indices
<1>2. WalkOK /\ visited[cur] = 2
  BY DEF CInv, WalkInv, WalkOK
<1>3. visited[smallest] = 2
  <2>1. SUFFICES ASSUME smallest = Biggest PROVE visited[smallest] = 2
    BY <1>2 DEF WalkOK
  <2>2. relocs[Biggest].size <= relocs[cur].size
    BY <1>1, <1>2, <2>1 DEF WalkOK
  <2>3. relocs[cur].size <= relocs[Biggest].size
    BY <1>1, BiggestExists, Facts DEF CInv
  <2>4. relocs[cur].size = relocs[Biggest].size
    BY <1>1, <2>1, <2>2, <2>3, Places DEF CInv
  <2>5. cur = Biggest
    BY <1>1, <2>1, <2>4 DEF CInv, Different
  <2>. QED
    BY <1>2, <2>1, <2>5
<1>. QED
  BY <1>1, <1>3 DEF CInv, WalkReaches

\* break_reloc_deadlock (reloc.c:441) moves an entry of the cycle it is to break,
\* if no two objects have the same size.
THEOREM CycleBroken == (\A t \in Tables : Different(t)) => (Spec => []BreaksCycle)
<1>. SUFFICES ASSUME \A t \in Tables : Different(t) PROVE Spec => []BreaksCycle
  OBVIOUS
<1>1. Init => CInv
  <2>. SUFFICES ASSUME Init PROVE CInv
    OBVIOUS
  <2>1. WalkInv /\ WalkReaches /\ Different(relocs)
    BY DEF Init, WalkInv, WalkReaches
  <2>. QED
    BY <2>1, InitIInv, InitWInv DEF CInv
<1>2. CInv /\ [Next]_vars => CInv'
  BY NextCInv
<1>3. CInv => BreaksCycle
  BY CInvBreaks
<1>. QED
  BY <1>1, <1>2, <1>3, PTL DEF Spec
=============================================================================
