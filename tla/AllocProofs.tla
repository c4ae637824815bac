---------------------------- MODULE AllocProofs ----------------------------
(***************************************************************************)
(* Proofs about Alloc: for every address space, page size, table size and  *)
(* set of alignments, the table of bootlib/alloc.c stays well formed, no   *)
(* call hangs, and the allocator implements AllocSpec.                     *)
(***************************************************************************)
EXTENDS Alloc, AllocTableProofs

IInv == TypeOK /\ TableSane /\ NeverHangs

LEMMA Spans == \A r \in AddrRange : Bytes(r) = Promise!Span(r.base, r.len)
BY DEF Bytes, Promise!Span, Addr, Promise!Addr

-----------------------------------------------------------------------------
LEMMA InitSafe == Init => IInv /\ Promise!Init
<1>. SUFFICES ASSUME Init PROVE IInv /\ Promise!Init
  OBVIOUS
<1>1. AddrLimit \in Nat \ {0} /\ MaxAllocs \in Nat
  BY AddressSpace
<1>2. allocs = << >> /\ Len(allocs) = 0 /\ allocs \in Seq(AddrRange)
  BY DEF Init
<1>3. reply \in Replies /\ reply.status # "HANG" /\ reply.op = "none"
  BY <1>1 DEF Init, Replies, Statuses, Addr
<1>4. TableBytes(allocs) = {} /\ TableSane
  BY <1>2 DEF TableBytes, TableSane, Sane
<1>. QED
  BY <1>1, <1>2, <1>3, <1>4 DEF IInv, TypeOK, NeverHangs, Promise!Init

LEMMA BlacklistSafe ==
  ASSUME IInv, NEW addr \in Addr, NEW size \in Addr, Blacklist(addr, size)
  PROVE  IInv' /\ Promise!Next
<1>. DEFINE pages  == PageRange(addr, size)
            result == blacklist_runtime_mem(allocs, addr, size)
<1>1. /\ GoodTable(allocs) /\ Len(allocs) <= MaxAllocs /\ reply.status # "HANG"
      /\ 0 \in Addr /\ AddrLimit \in Nat
  BY AddressSpace DEF IInv, TypeOK, TableSane, NeverHangs, GoodTable, Addr
<1>2. /\ addr + size <= AddrLimit
      /\ pages.len > 0 \/ size = 0
      /\ TableBytes(allocs) \cup Bytes(pages) # Addr
      /\ allocs' = result.table
      /\ reply' = [op |-> "blacklist", base |-> addr, size |-> size, align |-> 1,
                   option |-> "FORCE", status |-> result.status]
  BY DEF Blacklist, LeavesSome, Answer
<1>3. result = alloc(allocs, pages.base, pages.len, 1, "FORCE")
  BY DEF blacklist_runtime_mem
<1>4. result.status \in Statuses => reply' \in Replies
  <2>. HIDE DEF result
  <2>. QED
    BY <1>2 DEF Replies
<1>5. CASE pages.len > 0
  <2>1. Good(pages) /\ pages.base <= addr /\ addr + size <= Top(pages)
    <3>. HIDE DEF pages
    <3>1. pages = PageRange(addr, size)
      BY DEF pages
    <3>. QED
      BY <1>2, <1>5, <3>1, Paging
  <2>2. pages = [base |-> pages.base, len |-> pages.len] /\ pages.len # 0
    BY <1>5 DEF PageRange
  <2>. HIDE DEF pages, result
  <2>3. result = Commit(allocs, pages)
    BY <1>3, <1>5, <2>2 DEF alloc
  <2>4. Takes(result, allocs, pages) \/ Refuses(result, allocs)
    BY <1>1, <1>2, <2>1, <2>3, Committing
  <2>5. CASE Takes(result, allocs, pages)
    <3>1. IInv'
      BY <1>2, <1>4, <2>5
         DEF Takes, IInv, TypeOK, TableSane, NeverHangs, GoodTable, Statuses
    <3>2. Promise!Span(addr, size) \subseteq Bytes(pages)
      <4>1. pages.base \in Nat /\ Top(pages) \in Nat /\ Top(pages) = pages.base + pages.len
        BY <1>1, <2>1 DEF Good, AddrRange, Addr, Top
      <4>. QED
        BY <1>1, <2>1, <4>1 DEF Promise!Span, Promise!Addr, Bytes, Addr
    <3>3. Promise!Reserve
      BY <1>2, <2>5, <3>2 DEF Takes, Promise!Reserve
    <3>. QED
      BY <3>1, <3>3 DEF Promise!Next
  <2>6. CASE Refuses(result, allocs)
    <3>1. IInv'
      BY <1>1, <1>2, <1>4, <2>6
         DEF Refuses, IInv, TypeOK, TableSane, NeverHangs, Statuses
    <3>2. Promise!Refuse
      BY <1>2, <2>6 DEF Refuses, Promise!Refuse
    <3>. QED
      BY <3>1, <3>2 DEF Promise!Next
  <2>. QED
    BY <2>4, <2>5, <2>6
<1>6. CASE ~(pages.len > 0)
  <2>1. pages.len = 0
    <3>1. pages.len \in Nat
      BY PageLength
    <3>. HIDE DEF pages
    <3>. QED
      BY <1>6, <3>1
  <2>2. result.status = "SUCCESS" /\ result.table = allocs
    <3>. HIDE DEF pages, result
    <3>. QED
      BY <1>3, <2>1 DEF alloc
  <2>3. size = 0
    <3>. HIDE DEF pages
    <3>. QED
      BY <1>2, <1>6
  <2>. HIDE DEF pages, result
  <2>4. IInv'
    BY <1>1, <1>2, <1>4, <2>2
       DEF IInv, TypeOK, TableSane, NeverHangs, Statuses
  <2>5. Promise!Span(addr, size) = {}
    BY <1>1, <2>3 DEF Promise!Span, Promise!Addr, Addr
  <2>6. Promise!Reserve
    BY <1>2, <2>2, <2>5 DEF Promise!Reserve
  <2>. QED
    BY <2>4, <2>6 DEF Promise!Next
<1>. QED
  BY <1>5, <1>6

(* A request that takes exactly the free bytes it names is a grant, and one *)
(* that takes nothing a refusal; both keep the invariant.                   *)
LEMMA Granting ==
  ASSUME IInv, NEW op \in {"fixed", "any"}, NEW base \in Addr, NEW size \in Addr,
         NEW align \in Aligns \cup {1}, NEW option \in {"ANY", "32BIT", "FIXED"},
         NEW result, Answer(op, base, size, align, option, result)
  PROVE  /\ (/\ Takes(result, allocs, [base |-> base, len |-> size])
             /\ base + size <= AddrLimit /\ base % align = 0
             /\ Bytes([base |-> base, len |-> size]) \cap TableBytes(allocs) = {})
            => IInv' /\ Promise!Next
         /\ Refuses(result, allocs) => IInv' /\ Promise!Next
<1>. DEFINE r == [base |-> base, len |-> size]
<1>1. /\ reply' = [op |-> op, base |-> base, size |-> size, align |-> align,
                   option |-> option, status |-> result.status]
      /\ allocs' = result.table
  BY DEF Answer
<1>2. result.status \in Statuses => reply' \in Replies
  BY <1>1 DEF Replies
<1>3. ASSUME Takes(result, allocs, r), base + size <= AddrLimit, base % align = 0,
             Bytes(r) \cap TableBytes(allocs) = {}
      PROVE  IInv' /\ Promise!Next
  <2>1. IInv'
    BY <1>1, <1>2, <1>3
       DEF Takes, IInv, TypeOK, TableSane, NeverHangs, GoodTable, Statuses
  <2>2. Promise!Span(base, size) = Bytes(r)
    BY Spans DEF AddrRange
  <2>3. Promise!Grant
    BY <1>1, <1>3, <2>2 DEF Takes, Promise!Grant
  <2>. QED
    BY <2>1, <2>3 DEF Promise!Next
<1>4. ASSUME Refuses(result, allocs) PROVE IInv' /\ Promise!Next
  <2>1. IInv'
    BY <1>1, <1>2, <1>4 DEF Refuses, IInv, TypeOK, TableSane, NeverHangs, Statuses
  <2>2. Promise!Refuse
    BY <1>1, <1>4 DEF Refuses, Promise!Refuse
  <2>. QED
    BY <2>1, <2>2 DEF Promise!Next
<1>. QED
  BY <1>3, <1>4

(* A request for nothing takes nothing.                                     *)
LEMMA Nothing ==
  ASSUME IInv, NEW addr \in Addr, NEW a, NEW align, NEW option
  PROVE  /\ alloc(allocs, a, 0, align, option).addr = 0
         /\ Takes(alloc(allocs, a, 0, align, option), allocs,
                  [base |-> addr, len |-> 0])
         /\ Bytes([base |-> addr, len |-> 0]) = {}
<1>1. alloc(allocs, a, 0, align, option)
        = [status |-> "SUCCESS", addr |-> 0, table |-> allocs]
  BY DEF alloc
<1>2. Bytes([base |-> addr, len |-> 0]) = {}
  BY AddressSpace DEF Bytes, Addr
<1>. QED
  BY <1>1, <1>2 DEF Takes, IInv, TypeOK, TableSane, GoodTable

(* What the requests work on.                                               *)
LEMMA Usable ==
  ASSUME IInv
  PROVE  /\ GoodTable(allocs) /\ Len(allocs) <= MaxAllocs
         /\ AddrLimit \in Nat \ {0, 1} /\ Addr = 0 .. AddrLimit - 1 /\ 0 \in Addr
         /\ \A base, len \in Addr :
              len # 0 /\ base + len <= AddrLimit => Good([base |-> base, len |-> len])
<1>1. AddrLimit \in Nat \ {0, 1} /\ Addr = 0 .. AddrLimit - 1
  BY AddressSpace DEF Addr
<1>. QED
  BY <1>1 DEF IInv, TypeOK, TableSane, GoodTable, Good, Top, AddrRange

LEMMA AllocFixedSafe ==
  ASSUME IInv, NEW addr \in Addr, NEW size \in Addr, AllocFixed(addr, size)
  PROVE  IInv' /\ Promise!Next
<1>. DEFINE r      == [base |-> addr, len |-> size]
            result == alloc(allocs, addr, size, 1, "FIXED")
<1>1. /\ allocs # << >> /\ addr + size <= AddrLimit
      /\ TableBytes(allocs) \cup Bytes(r) # Addr
      /\ Answer("fixed", addr, size, 1, "FIXED", result)
  BY DEF AllocFixed, LeavesSome
<1>2. addr % 1 = 0
  BY Usable
<1>3. CASE size = 0
  <2>1. Takes(result, allocs, r) /\ Bytes(r) = {}
    BY <1>3, Nothing
  <2>. HIDE DEF r, result
  <2>2. Bytes(r) \cap TableBytes(allocs) = {}
    BY <2>1
  <2>. QED
    BY <1>1, <1>2, <2>1, <2>2, Granting DEF r
<1>4. CASE size # 0
  <2>1. Good(r) /\ size > 0
    BY <1>1, <1>4, Usable
  <2>2. CASE is_free_mem(allocs, r)
    <3>1. result = Commit(allocs, r)
      BY <2>1, <2>2 DEF alloc
    <3>2. Bytes(r) \cap TableBytes(allocs) = {}
      BY <2>1, <2>2, Usable, FreeIsFree
    <3>3. Takes(result, allocs, r) \/ Refuses(result, allocs)
      BY <1>1, <2>1, <3>1, Usable, Committing
    <3>. HIDE DEF result
    <3>. QED
      BY <1>1, <1>2, <3>2, <3>3, Granting
  <2>3. CASE ~is_free_mem(allocs, r)
    <3>1. result = Failure(allocs)
      BY <2>1, <2>3 DEF alloc
    <3>2. Refuses(result, allocs)
      BY <1>1, <3>1, Usable, SanityHolds DEF Failure, Refuses
    <3>. HIDE DEF result
    <3>. QED
      BY <1>1, <3>2, Granting
  <2>. QED
    BY <2>2, <2>3
<1>. QED
  BY <1>3, <1>4

LEMMA AllocAnySafe ==
  ASSUME IInv, NEW size \in Addr, NEW align \in Aligns,
         NEW option \in {"ANY", "32BIT"}, AllocAny(size, align, option)
  PROVE  IInv' /\ Promise!Next
<1>. DEFINE result == alloc(allocs, 0, size, align, option)
            found  == find_free_mem(allocs, size, align, option)
            r      == [base |-> found.addr, len |-> size]
<1>1. /\ allocs # << >>
      /\ TableBytes(allocs) \cup Bytes([base |-> result.addr, len |-> size]) # Addr
      /\ Answer("any", result.addr, size, align, option, result)
  BY DEF AllocAny, LeavesSome
<1>2. align \in 1 .. AddrLimit - 1 /\ 0 % align = 0
  BY Requests, Usable
<1>3. CASE size = 0
  <2>1. /\ result.addr = 0 /\ Bytes([base |-> 0, len |-> 0]) = {}
        /\ Takes(result, allocs, [base |-> 0, len |-> 0])
    BY <1>3, Nothing, Usable
  <2>. HIDE DEF result
  <2>2. Answer("any", 0, 0, align, option, result)
    BY <1>1, <1>3, <2>1
  <2>. QED
    BY <1>2, <2>1, <2>2, Granting, Usable
<1>4. CASE size # 0 /\ found.status = "SUCCESS"
  <2>1. /\ found.addr \in Addr /\ found.addr + size <= AddrLimit
        /\ found.addr % align = 0
        /\ Bytes(r) \cap TableBytes(allocs) = {}
    <3>1. found = find_free_mem(allocs, size, align, option)
      BY DEF found
    <3>. HIDE DEF found
    <3>. QED
      BY <1>2, <1>4, <3>1, Usable, FoundIsFree
  <2>2. result = Commit(allocs, r)
    BY <1>4, Usable DEF alloc
  <2>. HIDE DEF found
  <2>3. Good(r)
    BY <1>4, <2>1, Usable
  <2>4. /\ result.status = "SUCCESS" => result.addr = found.addr
        /\ result.status # "SUCCESS" => result.addr = 0
    <3>. HIDE DEF result
    <3>. QED
      BY <2>2 DEF Commit, Failure
  <2>5. Takes(result, allocs, r) \/ Refuses(result, allocs)
    <3>. HIDE DEF result
    <3>1. Commit(allocs, r).status = "SUCCESS" => TableBytes(allocs) \cup Bytes(r) # Addr
      BY <1>1, <2>2, <2>4
    <3>. QED
      BY <2>2, <2>3, <3>1, Usable, Committing
  <2>. HIDE DEF result
  <2>6. CASE Takes(result, allocs, r)
    <3>1. result.addr = found.addr
      BY <2>4, <2>6 DEF Takes
    <3>. QED
      BY <1>1, <2>1, <2>6, <3>1, Granting
  <2>7. CASE Refuses(result, allocs)
    <3>1. result.addr = 0
      BY <2>4, <2>7 DEF Refuses
    <3>. QED
      BY <1>1, <2>7, <3>1, Granting, Usable
  <2>. QED
    BY <2>5, <2>6, <2>7
<1>5. CASE size # 0 /\ found.status # "SUCCESS"
  <2>1. result = Failure(allocs)
    BY <1>5, Usable DEF alloc
  <2>2. Refuses(result, allocs) /\ result.addr = 0
    BY <1>1, <2>1, Usable, SanityHolds DEF Failure, Refuses
  <2>. HIDE DEF result
  <2>. QED
    BY <1>1, <2>2, Granting, Usable
<1>. QED
  BY <1>3, <1>4, <1>5

-----------------------------------------------------------------------------
LEMMA StepSafe == IInv /\ [Next]_vars => IInv' /\ [Promise!Next]_(Promise!vars)
<1>. SUFFICES ASSUME IInv, [Next]_vars PROVE IInv' /\ [Promise!Next]_(Promise!vars)
  OBVIOUS
<1>1. ASSUME NEW c \in Calls, Blacklist(c.base, c.len) PROVE IInv' /\ Promise!Next
  BY <1>1, BlacklistSafe DEF Calls, AddrRange
<1>2. ASSUME NEW c \in Calls, AllocFixed(c.base, c.len) PROVE IInv' /\ Promise!Next
  BY <1>2, AllocFixedSafe DEF Calls, AddrRange
<1>3. ASSUME NEW size \in Addr, NEW align \in Aligns, NEW option \in {"ANY", "32BIT"},
             AllocAny(size, align, option)
      PROVE  IInv' /\ Promise!Next
  BY <1>3, AllocAnySafe
<1>4. CASE UNCHANGED vars
  <2>1. IInv'
    BY <1>4 DEF vars, IInv, TypeOK, TableSane, NeverHangs
  <2>2. UNCHANGED Promise!vars
    BY <1>4 DEF vars, Promise!vars, TableBytes
  <2>. QED
    BY <2>1, <2>2
<1>. QED
  BY <1>1, <1>2, <1>3, <1>4 DEF Next

LEMMA Safe == Spec => []IInv
BY InitSafe, StepSafe, PTL DEF Spec

(* The table never outgrows allocs[], its ranges keep to the address space, *)
(* and every reply of alloc (alloc.c:352) is one of its statuses.           *)
THEOREM AllocTypes == Spec => []TypeOK
<1>1. IInv => TypeOK
  BY DEF IInv
<1>. QED
  BY <1>1, Safe, PTL

(* Merging in alloc_add (alloc.c:74) keeps the table sorted, its entries    *)
(* non-empty, apart and inside the address space.                           *)
THEOREM TableStaysSane == Spec => []TableSane
<1>1. IInv => TableSane
  BY DEF IInv
<1>. QED
  BY <1>1, Safe, PTL

(* A failing alloc finds its table sane, so alloc_sanity_check (alloc.c:46) *)
(* lets it return.                                                          *)
THEOREM AlwaysReturns == Spec => []NeverHangs
<1>1. IInv => NeverHangs
  BY DEF IInv
<1>. QED
  BY <1>1, Safe, PTL

(* The allocator of alloc.c implements AllocSpec: runtime memory is granted *)
(* once, aligned, and never where it was blacklisted; nothing is given      *)
(* back; a refusal changes nothing.                                         *)
THEOREM Implements == Spec => KeepsPromise
BY InitSafe, StepSafe, PTL DEF Spec, KeepsPromise, Promise!Spec

-----------------------------------------------------------------------------
\* What a reply to a search promises of the table it was made on.
LowestOf(t, r) ==
  r.op = "any" /\ r.size > 0 =>
    IF r.status = "SUCCESS"
      THEN /\ Fitting(t, r.base, r.size, r.align, r.option)
           /\ \A a \in Addr : Fitting(t, a, r.size, r.align, r.option) => r.base <= a
      ELSE \/ \A a \in Addr : ~Fitting(t, a, r.size, r.align, r.option)
           \/ Len(t) = MaxAllocs

(* Entering a range fails only when the table is full.                      *)
LEMMA CommitFails ==
  ASSUME NEW t, NEW r, Len(t) \in Nat, Len(t) <= MaxAllocs,
         Commit(t, r).status # "SUCCESS"
  PROVE  Len(t) = MaxAllocs
<1>1. alloc_add(t, r).status # "SUCCESS"
  BY DEF Commit
<1>2. Full(t)
  BY <1>1 DEF alloc_add
<1>. QED
  BY <1>2, AddressSpace DEF Full

LEMMA AllocAnyLowest ==
  ASSUME IInv, NEW size \in Addr, NEW align \in Aligns,
         NEW option \in {"ANY", "32BIT"}, AllocAny(size, align, option)
  PROVE  LowestOf(allocs, reply')
<1>. DEFINE result == alloc(allocs, 0, size, align, option)
            found  == find_free_mem(allocs, size, align, option)
            r      == [base |-> found.addr, len |-> size]
<1>1. reply' = [op |-> "any", base |-> result.addr, size |-> size, align |-> align,
                option |-> option, status |-> result.status]
  BY DEF AllocAny, Answer
<1>2. align \in 1 .. AddrLimit - 1
  BY Requests
<1>. SUFFICES ASSUME size > 0 PROVE LowestOf(allocs, reply')
  BY <1>1 DEF LowestOf
<1>3. size \in Addr \ {0} /\ GoodTable(allocs)
  BY Usable
<1>4. /\ found.status = "SUCCESS" => Fitting(allocs, found.addr, size, align, option)
      /\ \A a \in Addr : Fitting(allocs, a, size, align, option)
                           => found.status = "SUCCESS" /\ found.addr <= a
  <2>1. found = find_free_mem(allocs, size, align, option)
    OBVIOUS
  <2>. HIDE DEF found
  <2>. QED
    BY <1>2, <1>3, <2>1, FoundIsLowest
<1>5. CASE found.status = "SUCCESS"
  <2>1. result = Commit(allocs, r)
    BY <1>5, Usable DEF alloc
  <2>. HIDE DEF found, result
  <2>2. result.status = "SUCCESS" => result.addr = found.addr
    BY <2>1 DEF Commit, Failure
  <2>3. result.status # "SUCCESS" => Len(allocs) = MaxAllocs
    <3>1. Len(allocs) \in Nat /\ Len(allocs) <= MaxAllocs
      BY <1>3, Usable, GoodEntries
    <3>. QED
      BY <2>1, <3>1, CommitFails
  <2>. QED
    BY <1>1, <1>4, <1>5, <2>2, <2>3 DEF LowestOf
<1>6. CASE found.status # "SUCCESS"
  <2>1. result = Failure(allocs)
    BY <1>6, Usable DEF alloc
  <2>2. result.status # "SUCCESS"
    <3>. HIDE DEF result
    <3>. QED
      BY <2>1 DEF Failure
  <2>. HIDE DEF found, result
  <2>. QED
    BY <1>1, <1>4, <1>6, <2>2 DEF LowestOf
<1>. QED
  BY <1>5, <1>6

LEMMA StepLowest == IInv /\ [Next]_vars => (LowestOf(allocs, reply') \/ UNCHANGED vars)
<1>. SUFFICES ASSUME IInv, Next PROVE LowestOf(allocs, reply')
  OBVIOUS
<1>1. ASSUME NEW c \in Calls, Blacklist(c.base, c.len) PROVE reply'.op = "blacklist"
  BY <1>1 DEF Blacklist, Answer
<1>2. ASSUME NEW c \in Calls, AllocFixed(c.base, c.len) PROVE reply'.op = "fixed"
  BY <1>2 DEF AllocFixed, Answer
<1>3. ASSUME NEW size \in Addr, NEW align \in Aligns, NEW option \in {"ANY", "32BIT"},
             AllocAny(size, align, option)
      PROVE  LowestOf(allocs, reply')
  BY <1>3, AllocAnyLowest
<1>. QED
  BY <1>1, <1>2, <1>3 DEF Next, LowestOf

(* find_free_mem (alloc.c:245) takes the lowest address that an ANY or 32BIT *)
(* request may be satisfied from, and gives up only when there is none: the *)
(* breaks of its loop never hide a hole further up.  The other failure is a *)
(* full table.                                                              *)
THEOREM TakesLowest == Spec => LowestSuitable
<1>. DEFINE suitable == {a \in Addr : Suits(a, reply'.size, reply'.align, reply'.option)}
<1>1. ASSUME LowestOf(allocs, reply'), reply'.op = "any", reply'.size > 0
      PROVE  IF reply'.status = "SUCCESS"
               THEN /\ reply'.base \in suitable
                    /\ \A a \in suitable : reply'.base <= a
               ELSE suitable = {} \/ Len(allocs) = MaxAllocs
  <2>1. \A a : a \in suitable
               <=> Fitting(allocs, a, reply'.size, reply'.align, reply'.option)
    BY DEF Suits, Fitting
  <2>. HIDE DEF suitable
  <2>. QED
    BY <1>1, <2>1 DEF LowestOf, Fitting
<1>2. IInv /\ [Next]_vars =>
        [reply'.op = "any" /\ reply'.size > 0 =>
           IF reply'.status = "SUCCESS"
             THEN /\ reply'.base \in suitable
                  /\ \A a \in suitable : reply'.base <= a
             ELSE suitable = {} \/ Len(allocs) = MaxAllocs]_vars
  BY <1>1, StepLowest
<1>. QED
  BY <1>2, Safe, PTL DEF Spec, LowestSuitable
=============================================================================
