------------------------------ MODULE MCLayout ------------------------------
(***************************************************************************)
(* Small machines for TLC: 16 pages of 4 bytes, "4GB" at address 40.       *)
(***************************************************************************)
EXTENDS Layout, SequencesExt

Entry(base, end, type) == [base |-> base, len |-> end - base, type |-> type]

Plain == << Entry(0, 16, "available"), Entry(16, 28, "bootloader"),
            Entry(28, 36, "available"), Entry(36, 40, "reserved"),
            Entry(40, 56, "available") >>

Unsorted == << Entry(40, 56, "available"), Entry(36, 40, "reserved"),
               Entry(28, 36, "available"), Entry(20, 28, "bootloader"),
               Entry(16, 20, "bootloader"), Entry(4, 16, "available"),
               Entry(0, 4, "available") >>

\* Holes instead of reserved memory.
Hole == << Entry(0, 12, "available"), Entry(16, 28, "bootloader"),
           Entry(28, 36, "available"), Entry(40, 48, "available") >>

\* The last range reaches the top of the address space.
ToTheTop == << Entry(0, 16, "available"), Entry(16, 28, "bootloader"),
               Entry(28, 32, "available"), Entry(40, 64, "available") >>

\* The kernel fits only above the boot loader.
Scarce == << Entry(0, 8, "reserved"), Entry(8, 12, "available"),
             Entry(12, 16, "reserved"), Entry(16, 28, "bootloader"),
             Entry(28, 36, "available"), Entry(40, 48, "available") >>

\* Ranges of one type that overlap.
Nested == Plain \o << Entry(4, 8, "available") >>

\* An empty range, as a firmware may report and the code expects.
Empty == << [base |-> 4, len |-> 0, type |-> "reserved"] >> \o Plain

Apart == {Plain, Unsorted, Hole, ToTheTop, Scarce}
AllMaps == Apart \cup {Nested}
EmptyMaps == {Empty}

\* What the theorems assume of a machine is true of these.
ASSUME TheirMaps == \A m \in AllMaps \ {ToTheTop} : FirmwareMap(m)

\* What is loaded, one object after the other, from address 16 on.
Loaded(type, size, align) == Object(type, Null, size, 0, align)

Infos == { << Loaded("s", 2, 4), Loaded("s", 1, 1) >>,
           << Loaded("s", 1, 1), Loaded("s", 1, 2), Loaded("s", 2, 4) >>,
           << Loaded("s", 2, 4), Loaded("s", 1, 4), Loaded("s", 1, 4) >> }

Modules == { << >>, << Loaded("m", 2, 4) >>,
             << Loaded("m", 1, 4), Loaded("m", 3, 4) >> }

Sequenced(objs, from) ==
  [n \in DOMAIN objs |->
     [objs[n] EXCEPT !.src =
        from + FoldLeft(LAMBDA x, y : x + y, 0,
                        [k \in 1 .. n - 1 |-> objs[k].size])]]

Segment(paddr, memsz, src, filesz) ==
  [paddr |-> paddr, memsz |-> memsz, src |-> src, filesz |-> filesz]

Kernels == { << Segment(5, 4, 16, 3) >>,
             << Segment(4, 2, 17, 2), Segment(8, 3, 16, 1) >>,
             << Segment(16, 12, 16, 3) >>,
             << Segment(28, 5, 16, 3) >> }

SmallLoads(m) ==
  [segments : Kernels,
   kernel_load_align : {0, 4},
   objects : {Sequenced(i \o x, 19) : i \in Infos, x \in Modules},
   firmware_tables : { << >>, << Request(9, 2) >> },
   systab : { << >> } \cup {<< Request(r.base + 1, 2) >> :
                             r \in {x \in ToSet(m) : x.type = "reserved"}},
   font : { << >>, << Request(22, 2) >> },
   esxbootinfo : BOOLEAN,
   runtime_services : BOOLEAN]

\* And so is what the theorem on 32-bit addresses assumes of an x86 and its load.
ASSUME TheirLoads ==
  /\ PageSize <= MaxAddr32 + 1 /\ AlignFunc <= PageSize
  /\ \A m \in AllMaps \ {ToTheTop} :
       /\ \A r \in ToSet(m) : r.type \in Usable =>
            ApartFrom(r, Request(MaxAddr32 + 1 - PageSize, PageSize))
       /\ \A l \in SmallLoads(m) :
            /\ \E s \in ToSet(l.segments) : s.paddr <= MaxAddr32
            /\ \E o \in ToSet(l.objects) : o.type = "s" /\ o.size > 0
            /\ \A o \in ToSet(l.objects) : o.type = "s" => o.align <= PageSize
=============================================================================
