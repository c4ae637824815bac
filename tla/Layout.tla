------------------------------- MODULE Layout -------------------------------
(***************************************************************************)
(* Where everything goes: from the memory map the firmware leaves behind   *)
(* to the destination of every object of the kernel's world, and to the    *)
(* safe memory the trampoline runs in while it moves them (mboot/system.c, *)
(* mboot/elf.c, mboot/reloc.c, in the order mboot.c calls them on UEFI).   *)
(*                                                                         *)
(* Once the boot services are gone, memory is what the allocator's table   *)
(* says.  The order of the calls matters: destinations are chosen before   *)
(* the boot loader's own memory is blacklisted, so that they may lie over  *)
(* it; memory that is written at once is chosen after.                     *)
(***************************************************************************)
EXTENDS E820, FiniteSetsExt

CONSTANTS
  Maps,          \* the memory maps the firmware may report
  Loads(_),      \* what may have been loaded into the memory of a map
  MaxRelocs,     \* MAX_RELOCS_NR, the size of relocs[]
  MaxMoves,      \* bound: objects reloc_resolve moves to safe memory
  X86,           \* whether the trampoline needs memory below 4GB
  LowSize,       \* TRAMPOLINE_SIZE() + TRAMPOLINE_STACK_SIZE
  DataSize,      \* hand-off structure, stack and copy of the table
  CodeSize,      \* TRAMPOLINE_SIZE()
  TablesSize,    \* the page tables
  VmapSize,      \* the virtual address map of the UEFI runtime services
  AlignPtr, AlignFunc

Null == 0

Object(type, src, size, dest, align) ==
  [type |-> type, src |-> src, size |-> size, dest |-> dest, align |-> align]

ApartFrom(r, s) == Top(r) <= s.base \/ Top(s) <= r.base

MapEntry == [base : Addr, len : Addr \ {0}, type : Types]

\* A map as the firmware of a machine reports it: nothing in the last page of the
\* address space, something above the first page, no memory of two types at once,
\* and no use made of address 0.
FirmwareMap(m) ==
  /\ m \in Seq(MapEntry)
  /\ \A i \in DOMAIN m : Top(m[i]) <= AddrLimit - PageSize
  /\ \E i \in DOMAIN m : m[i].base >= PageSize
  /\ \A i, j \in DOMAIN m : m[i].type # m[j].type => ApartFrom(m[i], m[j])
  /\ LowMegabyte > 0 \/ \A i \in DOMAIN m : m[i].type \in Usable => m[i].base > 0

\* Powers of two, in the program.
Alignment(a) == a \in 1 .. AddrLimit - 1 /\ AddrLimit % a = 0
Nesting(as)  == \A a, b \in as : a <= b => b % a = 0

\* What lies in memory lies below the last page of the address space.
InMemory(r) == r \in AddrRange /\ Top(r) <= AddrLimit - PageSize

\* All the objects of a full table, with their padding, fit in the address space.
Small(size, align) ==
  size + align - 1 <= (AddrLimit - 1) \div (MaxRelocs - 2)

Image(s) == Request(s.paddr, s.memsz)

\* A kernel with segments that do not overlap, other objects to go with it, and
\* the firmware's tables, none of which is empty.  On a Skylake processor the
\* range that is not to be used is the first of these.
Loadable(l) ==
  /\ l.segments # << >>
  /\ l.segments \in Seq([paddr : Addr, memsz : Addr \ {0},
                          src : Addr \ {Null}, filesz : Addr])
  /\ \A i \in DOMAIN l.segments :
       LET s == l.segments[i]
       IN  /\ s.filesz <= s.memsz
           /\ InMemory(Image(s))
           /\ InMemory(Request(s.src, s.filesz))
           /\ \A j \in DOMAIN l.segments :
                i # j => \/ Top(Image(s)) <= l.segments[j].paddr
                         \/ Top(Image(l.segments[j])) <= s.paddr
  /\ l.kernel_load_align \in 0 .. AddrLimit - 1
  /\ l.objects \in Seq([type : {"m", "s"}, src : Addr \ {Null}, size : Addr,
                         dest : {0}, align : Addr \ {0}])
  /\ \A i \in DOMAIN l.objects :
       LET o == l.objects[i]
       IN  /\ InMemory(Request(o.src, o.size))
           /\ Alignment(o.align) /\ Small(o.size, o.align)
  /\ Nesting({l.objects[i].align : i \in DOMAIN l.objects})
  /\ l.firmware_tables \in Seq(AddrRange) /\ l.systab \in Seq(AddrRange)
  /\ \A i \in DOMAIN l.firmware_tables :
       InMemory(l.firmware_tables[i]) /\ l.firmware_tables[i].len > 0
  /\ \A i \in DOMAIN l.systab : InMemory(l.systab[i])
  /\ l.font \in Seq(AddrRange)
  /\ \A i \in DOMAIN l.font : InMemory(l.font[i]) /\ l.font[i].len > 0
  /\ l.esxbootinfo \in BOOLEAN /\ l.runtime_services \in BOOLEAN

ASSUME WhatIsLoaded == \A m \in Maps : \A l \in Loads(m) : Loadable(l)

ASSUME Trampoline ==
  /\ MaxRelocs \in Nat /\ MaxRelocs >= 4 /\ MaxMoves \in Nat /\ X86 \in BOOLEAN
  /\ {LowSize, DataSize, CodeSize, TablesSize, VmapSize} \subseteq Addr \ {0}
  /\ Alignment(AlignPtr) /\ Alignment(AlignFunc) /\ Nesting({AlignPtr, AlignFunc})
  /\ PageSize < AddrLimit
  /\ Small(LowSize, AlignFunc)
  /\ Small(DataSize, AlignPtr) /\ Small(CodeSize, AlignFunc)

VARIABLES
  pc,        \* the function called next, or how it ended
  firmware,  \* the memory map at ExitBootServices
  load,      \* the kernel's segments, the other objects, and reserved ranges
  mmap,      \* boot.mmap
  allocs,    \* the allocator's table
  relocs,    \* relocs[0 .. reloc_count - 1] before its delimiter
  safe       \* ranges in use from here to the jump to the kernel

vars == <<pc, firmware, load, mmap, allocs, relocs, safe>>

Init ==
  /\ pc = "firmware_shutdown"
  /\ firmware \in Maps
  /\ load \in Loads(firmware)
  /\ mmap = firmware
  /\ allocs = << >>
  /\ relocs = << >>
  /\ safe = << >>

\* Any failure from here on ends in PANIC, unless alloc does not return.
GoOn(status, next) ==
  pc' = CASE status = "SUCCESS" -> next
          [] status = "HANG"    -> "hang"
          [] OTHER              -> "panic"

\* Keep the table a call left, and go on if it succeeded.
Keep(result, next) ==
  /\ ~Covered(result)
  /\ allocs' = result.table
  /\ GoOn(result.status, next)

\* Sort and merge the map, blacklist what is not for the kernel.
firmware_shutdown ==
  /\ pc = "firmware_shutdown"
  /\ mmap' = e820_mmap_merge(mmap)
  /\ Keep(system_blacklist_memory(allocs, mmap', load.firmware_tables),
          "boot_register")
  /\ UNCHANGED <<firmware, load, relocs, safe>>

-----------------------------------------------------------------------------
(* boot_register: the kernel's memory, and the table of what is to move.   *)

ImageBase == Min({load.segments[i].paddr : i \in DOMAIN load.segments})
ImageEnd  == Max({load.segments[i].paddr + load.segments[i].memsz :
                   i \in DOMAIN load.segments})

elf_alloc(t) ==
  IF load.kernel_load_align = 0
    THEN alloc(t, ImageBase, ImageEnd - ImageBase, 1, "FIXED")
    ELSE alloc(t, 0, ImageEnd - ImageBase, load.kernel_load_align,
               IF X86 THEN "32BIT" ELSE "ANY")

\* The file part of a segment, and the part that is to be zeroed.
FilePart(s, addend) == Object("k", s.src, s.filesz, s.paddr + addend, 1)
ZeroPart(s, addend) ==
  Object("k", Null, s.memsz - s.filesz, s.paddr + addend + s.filesz, 1)

elf_register_segments(addend) ==
  [k \in 1 .. 2 * Len(load.segments) |->
     IF k % 2 = 1 THEN FilePart(load.segments[(k + 1) \div 2], addend)
                  ELSE ZeroPart(load.segments[k \div 2], addend)]

\* A slip: an object is registered even when there is none of it.
EveryObject(objs) == objs

\* add_runtime_object does nothing for an object of size 0.
NonEmpty(objs) ==
  Entries(objs, bubble_sort([n \in {n \in DOMAIN objs : objs[n].size > 0} |-> n]))

\* A slip: no room is kept for the delimiter.
RoomForAll(count, n) == count + n <= MaxRelocs

\* add_runtime_object n times: whether the table has room for all of them.
RoomFor(count, n) == count + n <= MaxRelocs - 2

\* Register objects, as many as there is room for, once the image has its place;
\* then blacklist the firmware's system table.
Register(image, objects) ==
  IF image.status # "SUCCESS" \/ Covered(image)
    THEN Keep(image, "") /\ UNCHANGED relocs
    ELSE /\ relocs' = SubSeq(objects, 1, Min({Len(objects), MaxRelocs - 2}))
         /\ IF RoomFor(0, Len(objects))
              THEN Keep(BlacklistAll(image.table, load.systab), "compute_relocations")
              ELSE Keep([status |-> "OUT_OF_RESOURCES", table |-> image.table], "")

RegisterImage(image) ==
  Register(image, NonEmpty(elf_register_segments(image.addr - ImageBase)
                             \o load.objects))

boot_register ==
  /\ pc = "boot_register"
  /\ RegisterImage(elf_alloc(allocs))
  /\ UNCHANGED <<firmware, load, mmap, safe>>

-----------------------------------------------------------------------------
(* set_runtime_addr: destinations for the objects of one type, which the   *)
(* sorted table has next to each other: in one piece if possible, at the   *)
(* preferred address if possible.                                          *)

Group(objs, type) == {n \in DOMAIN objs : objs[n].type = type}

\* A slip: the group is aligned for its first object only.
FirstAlign(objs, type) == objs[Min(Group(objs, type))].align

MaxAlign(objs, type) == Max({1} \cup {objs[n].align : n \in Group(objs, type)})

\* Where each object of the group ends when the group starts at start.
EndAfter(objs, type, start) ==
  LET e[n \in 0 .. Len(objs)] ==
        CASE n = 0 -> start
          [] n > 0 /\ objs[n].type = type ->
               Wrap(roundup64(e[n - 1], objs[n].align) + objs[n].size)
          [] n > 0 /\ objs[n].type # type -> e[n - 1]
  IN  e

\* A slip: objects follow each other without padding.
Packed(objs, type, start) ==
  [n \in DOMAIN objs |->
     IF objs[n].type = type
       THEN [objs[n] EXCEPT !.dest = EndAfter(objs, type, start)[n - 1]]
       ELSE objs[n]]

InOnePiece(objs, type, start) ==
  LET e == EndAfter(objs, type, start)
  IN  [n \in DOMAIN objs |->
         IF objs[n].type = type
           THEN [objs[n] EXCEPT !.dest = roundup64(e[n - 1], objs[n].align)]
           ELSE objs[n]]

\* One more object of the group gets a place of its own.
AlsoPlace(result, n, type, option) ==
  LET o == result.objs[n]
      a == alloc(result.table, 0, o.size, o.align, option)
  IN  IF result.status # "SUCCESS" \/ Covered(result) \/ o.type # type
        THEN result
        ELSE [status |-> a.status, table |-> a.table,
              objs |-> [result.objs EXCEPT ![n].dest = a.addr]]

\* One allocation per object, until one fails.
Separately(t, objs, type, option) ==
  LET after[n \in 0 .. Len(objs)] ==
        IF n = 0 THEN [status |-> "SUCCESS", table |-> t, objs |-> objs]
                 ELSE AlsoPlace(after[n - 1], n, type, option)
  IN  after[Len(objs)]

\* An address of 0 stands for "none": memory allocated there is lost.
Found(result) == result.status = "SUCCESS" /\ result.addr # 0

\* First contiguously at the preferred address, then contiguously anywhere.
AtPreferred(t, objs, type, preferred, size) ==
  IF preferred > 0
    THEN alloc(t, roundup64(preferred, MaxAlign(objs, type)), size, 1, "FIXED")
    ELSE [status |-> "OUT_OF_RESOURCES", addr |-> 0, table |-> t]

OrAnywhere(fixed, objs, type, size, option) ==
  IF Found(fixed) \/ fixed.status = "HANG"
    THEN fixed ELSE alloc(fixed.table, 0, size, MaxAlign(objs, type), option)

OrSeparately(any, objs, type, option) ==
  CASE any.status = "HANG" -> any
    [] Found(any) -> [status |-> "SUCCESS", table |-> any.table,
                      objs |-> InOnePiece(objs, type, any.addr)]
    [] ~Found(any) /\ any.status # "HANG" ->
         Separately(any.table, objs, type, option)

set_runtime_addr(t, objs, type, preferred, option) ==
  LET size  == EndAfter(objs, type, 0)[Len(objs)]
      fixed == AtPreferred(t, objs, type, preferred, size)
  IN  IF Group(objs, type) = {}
        THEN [status |-> "SUCCESS", table |-> t, objs |-> objs]
        ELSE OrSeparately(OrAnywhere(fixed, objs, type, size, option),
                          objs, type, option)

-----------------------------------------------------------------------------
(* compute_relocations                                                     *)

Ordinal == [type \in {"k", "m", "s", "t"} |->
              CASE type = "k" -> 1 [] type = "m" -> 2
                [] type = "s" -> 3 [] type = "t" -> 4]

\* reloc_compare: by type.
ByType(objs) ==
  Entries(objs, bubble_sort([n \in DOMAIN objs |-> Ordinal[objs[n].type]]))

EndOf(o) == Wrap(o.dest + o.size)

\* kmem_end: where the highest kernel object ends.
KernelEnd == Max({0} \cup {EndOf(relocs[n]) : n \in Group(relocs, "k")})

\* A slip: memory above 4GB will do.
AnyOption == "ANY"

LowOption == IF X86 THEN "32BIT" ELSE "ANY"

\* Give the objects of one type their destinations.
Settle(placed, next) ==
  /\ Keep(placed, next)
  /\ relocs' = IF placed.status = "SUCCESS" THEN placed.objs ELSE relocs
  /\ UNCHANGED <<firmware, load, mmap, safe>>

Place(type, preferred, option, next) ==
  Settle(set_runtime_addr(allocs, relocs, type, preferred, option), next)

\* The trampoline's region in low memory is one more object, of size LowSize.
AddLow ==
  /\ pc = "compute_relocations"
  /\ relocs' = IF X86 /\ RoomFor(Len(relocs), 1)
                 THEN ByType(Append(relocs, Object("t", Null, LowSize, 0, AlignFunc)))
                 ELSE ByType(relocs)
  /\ GoOn(IF X86 /\ ~RoomFor(Len(relocs), 1)
            THEN "OUT_OF_RESOURCES" ELSE "SUCCESS", "place_info")
  /\ UNCHANGED <<firmware, load, mmap, allocs, safe>>

PlaceInfo ==
  /\ pc = "place_info"
  /\ Place("s", KernelEnd, LowOption, IF X86 THEN "place_low" ELSE "place_modules")

\* Right after the last of the objects before it.
PlaceLow ==
  /\ pc = "place_low"
  /\ Place("t", EndOf(relocs[Len(relocs) - 1]), LowOption, "place_modules")

PlaceModules ==
  /\ pc = "place_modules"
  /\ Place("m", 0, IF load.esxbootinfo THEN "ANY" ELSE "32BIT", "blacklist_bootloader_mem")

\* A slip: only what is to be moved is blacklisted.
NoBootloaderRanges == << >>

BootloaderRanges ==
  [n \in DOMAIN mmap |-> When(mmap[n].type = "bootloader", mmap[n])]

Source(o) == Request(o.src, o.size)
Dest(o)   == Request(o.dest, o.size)

Sources == [n \in DOMAIN relocs |-> When(relocs[n].src # Null, Source(relocs[n]))]

\* The glyphs of the font may be in use till the end.  From here on what is free
\* is safe memory.
blacklist_bootloader_mem ==
  /\ pc = "blacklist_bootloader_mem"
  /\ Keep(BlacklistAll(allocs, BootloaderRanges \o Sources \o load.font),
          "relocate_runtime_services")
  /\ UNCHANGED <<firmware, load, mmap, relocs, safe>>

-----------------------------------------------------------------------------
(* What is put in safe memory, and used before or while objects move.      *)

\* Use the safe memory a call has allocated.
Use(result, ranges, next) ==
  /\ Keep(result, next)
  /\ safe' = IF result.status = "SUCCESS" THEN safe \o ranges ELSE safe
  /\ UNCHANGED <<firmware, load, mmap>>

UseAlone(result, size, next) == Use(result, <<Request(result.addr, size)>>, next)

Take(size, align, next) ==
  UseAlone(alloc(allocs, 0, size, align, "ANY"), size, next)

relocate_runtime_services ==
  /\ pc = "relocate_runtime_services"
  /\ IF load.runtime_services
       THEN Take(VmapSize, AlignPtr, "reloc_resolve")
       ELSE /\ pc' = "reloc_resolve"
            /\ UNCHANGED <<firmware, load, mmap, allocs, safe>>
  /\ UNCHANGED relocs

\* reloc_sanity_check(relocs, reloc_count)
reloc_sanity_check ==
  /\ alloc_sanity_check(allocs)
  /\ relocs # << >>
  /\ \A n \in DOMAIN relocs :
       LET o == relocs[n]
       IN  /\ o.size > 0
           /\ o.type = "k" => o.align = 1
           /\ X86 /\ o.type = "k" => o.dest # 0
           /\ Wrap(o.dest + o.size) > o.dest
           /\ Wrap(o.src + o.size) > o.src

\* reloc_resolve, as RelocResolve has it: the table is put in order, and every
\* deadlock is broken by moving to safe memory an object that overwrites the
\* source of another one.
Move(n) ==
  /\ pc = "reloc_resolve" /\ reloc_sanity_check
  /\ Len(safe) <= MaxMoves
  /\ \E q \in DOMAIN relocs \ {n} :
       /\ relocs[q].src # Null
       /\ is_overlap(Dest(relocs[n]), Source(relocs[q]))
  /\ Take(relocs[n].size, 1, "reloc_resolve")
  /\ relocs' = IF pc' = "reloc_resolve"
                 THEN [relocs EXCEPT ![n].src = safe'[Len(safe')].base] ELSE relocs

\* The second check.  The third, of the two objects for the trampoline, sees the
\* same allocs[] and two objects of a size, so that it says the same.
Resolved ==
  /\ pc = "reloc_resolve"
  /\ pc' = IF reloc_sanity_check THEN "install_trampoline" ELSE "hang"
  /\ UNCHANGED <<firmware, load, mmap, allocs, relocs, safe>>

\* The trampoline's data and code are put in the table as two more objects, and
\* written where they go without waiting for the others.
install_trampoline ==
  LET objs == <<Object("t", Null, DataSize, 0, AlignPtr),
                Object("t", Null, CodeSize, 0, AlignFunc)>>
      Installed(placed) ==
        Use(placed, [n \in DOMAIN placed.objs |-> Dest(placed.objs[n])],
            "relocate_page_tables2")
  IN  /\ pc = "install_trampoline"
      /\ IF RoomFor(Len(relocs) + 1, 2)
           THEN Installed(set_runtime_addr(allocs, objs, "t", 0, "ANY"))
           ELSE /\ pc' = "panic"
                /\ UNCHANGED <<firmware, load, mmap, allocs, safe>>
      /\ UNCHANGED relocs

relocate_page_tables2 ==
  /\ pc = "relocate_page_tables2"
  /\ Take(TablesSize, PageSize, "handoff")
  /\ UNCHANGED relocs

Next ==
  \/ firmware_shutdown \/ boot_register
  \/ AddLow \/ PlaceInfo \/ PlaceLow \/ PlaceModules
  \/ blacklist_bootloader_mem
  \/ relocate_runtime_services
  \/ \E n \in DOMAIN relocs : Move(n)
  \/ Resolved \/ install_trampoline \/ relocate_page_tables2

Spec == Init /\ [][Next]_vars

-----------------------------------------------------------------------------
(* Properties.                                                             *)

Steps == {"firmware_shutdown", "boot_register", "compute_relocations",
          "place_info", "place_low", "place_modules",
          "blacklist_bootloader_mem", "relocate_runtime_services",
          "reloc_resolve", "install_trampoline", "relocate_page_tables2"}

\* The shape of the state: where the code is, the tables it keeps, and the safe
\* memory it has handed out (mboot/reloc.c, bootlib/alloc.c).
TypeOK ==
  /\ pc \in Steps \cup {"handoff", "panic", "hang"}
  /\ allocs \in Seq(AddrRange) /\ safe \in Seq(AddrRange)
  /\ \A i \in DOMAIN mmap :
       mmap[i].base \in Addr /\ mmap[i].len \in Addr /\ mmap[i].type \in Types
  /\ \A n \in DOMAIN relocs :
       LET o == relocs[n]
       IN  /\ o.type \in {"k", "m", "s", "t"}
           /\ {o.src, o.dest, o.size} \subseteq Addr
           /\ o.size > 0 /\ o.align > 0

Within(r, s) == s.base <= r.base /\ Top(r) <= Top(s)

RangesApart(m) == \A i, j \in DOMAIN m : i # j => ApartFrom(m[i], m[j])

\* A range is RAM when the firmware reports all of it as usable, be it piecewise,
\* and nothing else of any of it.
InRam(r) ==
  /\ \A a \in r.base .. Top(r) - 1 :
       \E i \in DOMAIN firmware : firmware[i].base <= a /\ a < Top(firmware[i])
  /\ \A i \in DOMAIN firmware :
       firmware[i].type \notin Usable => ApartFrom(r, firmware[i])

Placed == {n \in DOMAIN relocs : relocs[n].dest # 0}

\* Nothing is ever sent to a place the firmware's memory map does not report as
\* RAM, reports as two things at once, or that is in the low megabyte: the map
\* may be out of order, split, with holes or with ranges of one type inside each
\* other (system_blacklist_memory, set_runtime_addr).
DestinationsSafe ==
  \A n \in Placed : InRam(Dest(relocs[n])) /\ relocs[n].dest >= LowMegabyte

\* What may be allocated, page by page.
Allocatable ==
  {p \in {a \in Addr : a % PageSize = 0} :
     LET page == Request(p, PageSize)
     IN  /\ InRam(page)
         /\ p >= LowMegabyte
         /\ \A i \in DOMAIN load.firmware_tables :
               ApartFrom(page, load.firmware_tables[i])}

\* Merging and blacklisting a map without overlaps loses no memory: every page
\* of the RAM it reports can still be allocated, but for the low megabyte and
\* the firmware's tables, and no other (e820_mmap_merge, e820_to_blacklist).
MemoryNotLost ==
  pc = "boot_register" /\ RangesApart(firmware) =>
    {p \in {a \in Addr : a % PageSize = 0} :
       \A i \in DOMAIN allocs : ApartFrom(Request(p, PageSize), allocs[i])}
      = Allocatable

\* Nothing alloc returns from now on touches the range: the table holds it, in
\* one entry since the table merges what is contiguous.
InTable(r) == \E i \in DOMAIN allocs : Within(r, allocs[i])

\* What RelocResolve assumes of its input (Layout there): in the table handed to
\* reloc_resolve no two objects share a byte of their destinations, and neither
\* a destination nor a source is in memory that can still be allocated.
HandsOverLayout ==
  pc = "reloc_resolve" =>
    /\ Placed = DOMAIN relocs
    /\ \A p, q \in Placed :
         p # q => ApartFrom(Dest(relocs[p]), Dest(relocs[q]))
    /\ \A p \in Placed :
         /\ InTable(Dest(relocs[p]))
         /\ relocs[p].src # Null => InTable(Source(relocs[p]))

\* What is written before the kernel is started - the virtual address map, moved
\* objects, the trampoline, the page tables it runs on - is RAM, and stays apart
\* from each other, from all of the boot loader's memory, where what is not
\* moved yet is, and from every place an object will be moved to.
SafeStaysSafe ==
  \A i \in DOMAIN safe :
    /\ InRam(safe[i])
    /\ \A r \in DOMAIN firmware :
         firmware[r].type = "bootloader" => ApartFrom(safe[i], firmware[r])
    /\ \A j \in DOMAIN safe : i # j => ApartFrom(safe[i], safe[j])
    /\ \A n \in DOMAIN relocs : ApartFrom(safe[i], Dest(relocs[n]))

\* On x86 the kernel reads the system information, and enters through the
\* trampoline's region, in 32-bit mode: both are below 4GB whenever the kernel
\* is, on machines with no RAM just below 4GB (reloc.c:794).
InfoBelow4GB ==
  X86 => \A n \in Placed :
           relocs[n].type \in {"s", "t"} => Top(Dest(relocs[n])) <= MaxAddr32 + 1

\* Every object whose address must be a multiple of something is at such an
\* address, placed alone or as part of a group at the preferred address.
DestinationsAligned ==
  \A n \in Placed : relocs[n].dest % relocs[n].align = 0

\* The entries of relocs[] written so far, delimiters included.
Slots ==
  Len(relocs) + CASE pc \in {"relocate_page_tables2", "handoff"} -> 4
                  [] pc \in {"relocate_runtime_services", "reloc_resolve",
                             "install_trampoline"} -> 1
                  [] OTHER -> 0

\* relocs[] is never written past its end, although the delimiters are added
\* without a check (reloc.c:134).
TableNotOverrun == Slots <= MaxRelocs

\* Neither the allocator's nor the relocation table's sanity check, which loop
\* for ever, ever finds anything (alloc.c:103, reloc.c:190).
NeverHangs == pc # "hang"

\* e820_to_blacklist (e820.c:220) blacklists "memory above the last address
\* reported in the memory map", "undefined memory (holes in the memory map)" and
\* "memory that is not reported as 'available'": when the kernel is placed, no
\* page that is not RAM can be allocated.
BlacklistsTheRest ==
  pc = "boot_register" =>
    \A p \in {a \in Addr : a % PageSize = 0} :
      InRam(Request(p, PageSize)) \/ InTable(Request(p, PageSize))
=============================================================================
