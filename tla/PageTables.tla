----------------------------- MODULE PageTables -----------------------------
(***************************************************************************)
(* Copying the firmware's page tables (uefi/efiutils/exitboot.c).  Memory  *)
(* maps the page of a table to the sequence of its entries; write access   *)
(* stands for write and execute access.  An entry that points to a table   *)
(* can deny it to all pages below.                                         *)
(***************************************************************************)
EXTENDS Integers, Sequences

CONSTANTS
  Fanout,    \* PG_TABLE_MAX_ENTRIES
  Levels,    \* pg_table_levels()
  Arm,       \* the architecture: TRUE for 64-bit Arm, FALSE for x86
  UefiMap    \* the kind of each page in the firmware's map; "hole": in none

NoEntry == [kind |-> "none"]
Page(pa, ro) == [kind |-> "page", pa |-> pa, ro |-> ro]
Table(pa, ro) == [kind |-> "table", pa |-> pa, ro |-> ro]

\* PG_TABLE_LnE_SIZE: the pages an entry of a table of this level covers.
LnESize(level) == Fanout ^ (level - 1)

VAs == 0 .. Fanout ^ Levels - 1
-----------------------------------------------------------------------------
KindsAt(va, length) ==
  {UefiMap[p] : p \in (va .. va + length - 1) \cap DOMAIN UefiMap} \ {"hole", "reserved"}

\* Reserved memory does not count; memory-mapped I/O spoils what it touches.
va_is_usable_ram(va, length) ==
  KindsAt(va, length) # {} /\ "mmio" \notin KindsAt(va, length)

NoTable == [i \in 1 .. Fanout |-> NoEntry]

\* A slip: what the tables above imply is lost.
CopiedAlone(entry, va, level, ro) ==
  Page(entry.pa, ~va_is_usable_ram(va, LnESize(level)) /\ entry.ro)

\* The copy of an entry for a page: RAM becomes writable and executable.
CopiedPage(entry, va, level, ro) ==
  Page(entry.pa, ~va_is_usable_ram(va, LnESize(level)) /\ (entry.ro \/ ro))

\* PG_TABLE_XD_RO_2_PAGE_ATTRS: what an entry for a table says of its pages.
Implied(entry) == Arm /\ entry.ro

\* PG_CLEAN_TABLE_READONLY and PG_CLEAN_TABLE_NOEXEC do nothing on x86.
CopiedTable(entry, next_buf) == Table(next_buf, ~Arm /\ entry.ro)

\* A copy past the end of the buffer is of a table that the measure found
\* empty.
PastEnd(buffer, buffer_end) == buffer >= buffer_end

\* The copies made so far, with those of a table below; none if it is empty.
Attach(copies, i, entry, next_buf, below) ==
  IF below = << >> THEN copies
  ELSE [copies EXCEPT ![1][i] = CopiedTable(entry, next_buf)] \o below

NotEmpty(copies) == IF copies[1] = NoTable THEN << >> ELSE copies

\* The copies of a table and of all below it, in the order of their pages from
\* buffer on: an empty table gives its page to the next one.
traverse_page_tables_rec(memory, root, base, buffer_end) ==
  LET traverse[table \in DOMAIN memory, level \in 1 .. Levels, vaddr \in VAs,
               ro \in BOOLEAN, buffer \in Nat] ==
        LET visited[i \in 0 .. Fanout] ==
              LET copies == visited[i - 1]
                  entry == memory[table][i]
                  va == vaddr + LnESize(level) * (i - 1)
                  next_buf == buffer + Len(copies)
              IN IF i = 0
                   THEN <<NoTable>>
                 ELSE IF entry.kind = "page" /\ entry.pa = va
                   THEN [copies EXCEPT ![1][i] = CopiedPage(entry, va, level, ro)]
                 ELSE IF entry.kind = "table" /\ va_is_usable_ram(entry.pa, 1)
                   THEN Attach(copies, i, entry, next_buf,
                          traverse[entry.pa, level - 1, va, ro \/ Implied(entry), next_buf])
                 ELSE copies
        IN IF PastEnd(buffer, buffer_end) THEN << >> ELSE NotEmpty(visited[Fanout])
  IN traverse[root, Levels, 0, FALSE, base]

\* The first pass has no buffer: one without an end gives the same count.
Unbounded == 100

Measure(memory, root) ==
  Len(traverse_page_tables_rec(memory, root, 0, Unbounded))

\* What relocate_page_tables1 and 2 write: pages of memory, tables in each.
relocate_page_tables(memory, root, base, num) ==
  LET copies == traverse_page_tables_rec(memory, root, base, base + num)
  IN [p \in base .. base + Len(copies) - 1 |-> copies[p - base + 1]]
-----------------------------------------------------------------------------
\* What the processor finds for a page: the frame and whether it is read-only.
Walk(memory, root, va) ==
  LET walk[table \in Nat, level \in 1 .. Levels, ro \in BOOLEAN] ==
        LET entry == memory[table][((va \div LnESize(level)) % Fanout) + 1]
        IN IF table \notin DOMAIN memory \/ entry.kind = "none"
             THEN [mapped |-> FALSE]
           ELSE IF entry.kind = "page"
             THEN [mapped |-> TRUE, ro |-> ro \/ entry.ro, level |-> level,
                   pa |-> entry.pa + (va % LnESize(level))]
           ELSE walk[entry.pa, level - 1, ro \/ entry.ro]
  IN walk[root, Levels, FALSE]

\* What the copy should map: the identity mappings, reached through RAM.
Wanted(memory, root, va) ==
  LET w == Walk([t \in {t \in DOMAIN memory : va_is_usable_ram(t, 1)} |-> memory[t]], root, va)
      first == va - (va % LnESize(w.level))
  IN IF ~w.mapped \/ w.pa # va THEN [mapped |-> FALSE]
     ELSE [w EXCEPT !.ro = w.ro /\ ~va_is_usable_ram(first, LnESize(w.level))]

\* The copy in pages base..base+num-1 maps what it should, from its own pages.
Faithful(memory, root, written, base, num) ==
  /\ DOMAIN written \subseteq base .. base + num - 1
  /\ \A va \in VAs : Walk(written, base, va) = Wanted(memory, root, va)
=============================================================================
