# A verification development of esx-boot

esx-boot is the boot loader of ESXi for UEFI and legacy BIOS. `safeboot` picks
one of the installed hypervisors and chainloads `mboot`, which loads the kernel
and its modules, shuts the firmware down, computes where everything has to go
and lets a *trampoline* move it all into place. From the moment the firmware is
gone there is no way back: a wrong move order, an address handed out twice or a
loop that does not end is a machine that does not come up. And before that, a
wrong entry in `/boot.cfg` is a machine that never comes up again.

The development has five cores, with TLA+ modules, TLC configurations and, where
section 4 says so, machine-checked proofs:

| Core | Source | Modules |
|---|---|---|
| run-time memory allocator | `bootlib/alloc.c`, predicates of `bootlib/e820.c` | `AllocTable`, `Alloc`, `AllocSpec`, `AllocTableProofs`, `AllocProofs`, `MCAlloc` |
| relocation order and moves | `mboot/reloc.c`, `mboot/trampoline.c` | `RelocResolve`, `RelocResolveProofs`, `MCRelocResolve` |
| memory map and destinations | `bootlib/e820.c`, `bootlib/system.c`, `mboot/elf.c`, `mboot/reloc.c` | `E820`, `Layout`, `LayoutProofs`, `MCLayout` |
| one run of mboot | `mboot/mboot.c`, `load.c`, `bootlib/log.c`, `uefi/efiutils/exitboot.c`, `memory.c`, `runtime*.c` | `LogBuffer`, `ExitBoot`, `PageTables`, `RuntimeServices`, `Mboot`, `MCMboot`, `FirmwareProofs`, `MbootProofs` |
| choice of the boot bank | `safeboot/*.c` | `Safeboot`, `MCSafeboot`, `SafebootProofs` |

`Least` (the first index at which a loop stops) and `LeastProofs` serve all of
them. `E820` and `Layout` extend `AllocTable`, and end
where `RelocResolve` begins; `Mboot` composes `LogBuffer`, `ExitBoot`,
`PageTables` and `RuntimeServices`, and has one step for what `Layout` and
`RelocResolve` do in detail.

## 1. Inventory

### The parts and how they interact

1. **safeboot** (`safeboot/`). State: the static `banks[]`, `shift_r`,
   `safeboot.rollback`; on disk, the `bootstate` of every bank's `/boot.cfg`.
   Operations: `get_boot_bank` (scan the volumes, advance upgrade states,
   optionally invalidate the default bank, select), `chainload`. Interacts with
   the upgrade tools of the running hypervisor *through the disk only*, with
   mboot by chainloading it, and with the user through two prompts. Hard: power
   may fail between any two steps; on UEFI a second scan runs in the same
   process on the variables of the first; reads and writes may fail.
   Correct when: an upgrade is tried once, only eligible banks are booted, the
   latest one first, and something bootable is always left.
2. **mboot life cycle** (`mboot/mboot.c`, `load.c`, `config.c`, `elf.c`,
   `system.c`). State: the global `boot`. Operations in order: parse the
   configuration, edit options, load modules, check signatures, measure,
   `boot_init`, `firmware_shutdown`, `boot_register`, `compute_relocations`,
   `boot_set_runtime_pointers`, `relocate_runtime_services`,
   `install_trampoline`, jump. Hard: everything before shutdown must clean up
   and return, everything after must panic; loading may resume half-way.
3. **Run-time memory allocator** (`bootlib/alloc.c`). State: a table of at most
   4096 ranges, sorted, never freed from. Operations: `blacklist_runtime_mem`,
   `runtime_alloc_fixed`, `runtime_alloc`. Called by the E820 code, by every
   `*_register` function, by the relocation code. Hard: 64-bit wrap-around at
   the top of the address space, merging with several neighbours, a full table.
   Correct when: no byte is granted twice, a blacklisted byte is never granted,
   nothing already taken is lost.
4. **E820 memory map** (`bootlib/e820.c`). Merges the firmware's map, and
   blacklists all that is not usable memory.
5. **Relocations** (`mboot/reloc.c`). State: the table `relocs[]`.
   `add_runtime_object` fills it; `compute_relocations` gives every object a
   destination from the allocator, then blacklists the loader's own memory and
   all sources, so that whatever is still free is *safe memory*;
   `reloc_resolve` orders the table so that no move overwrites the source of a
   later one, moving objects into safe memory to break cycles.
   Correct when: the order has that property, and the search for it ends.
6. **Trampoline** (`mboot/trampoline.c`). `do_reloc` moves or zeroes objects in
   table order. Correct when: every byte arrives.
7. **Exit from boot services, page tables** (`uefi/efiutils/exitboot.c`,
   `memory.c`). `ExitBootServices` fails when the memory map changed since it
   was read and must be retried with a fresh one.
   From then on the processor must not use the firmware's page tables, which
   may be read-only, deny access to memory the kernel will need, or lie in the
   way of a module: they are copied once into the loader's memory, and once more
   into safe memory. Hard: reading the map changes it; the copy is measured in
   one walk and made in another. Correct when: every buffer has one owner, the
   kernel's map is the last one, and the copy maps what it should.
8. **Log** (`bootlib/log.c`). Two consoles at most (of the firmware's, the
   framebuffer's and the serial port's), and a syslog buffer that grows by pages
   until the firmware is about to be shut down and is then handed to the kernel.
   Everything logs, and to log may need the firmware. Correct when: a message
   that is lost leaves a mark, nothing is written after it, and no message uses
   a firmware that is gone.
9. **Runtime services** (`uefi/efiutils/runtime*.c`). The first of five policies
   that fits gives every range of the firmware that must survive a virtual
   address in a region of the kernel. Correct when: the ranges stay in the
   region and apart, and code finds data at the distance it was linked for.
10. **Boot information** (`mboot/esxbootinfo.c`, `x86/multiboot.c`, `acpi.c`),
   **loaders**
   (`uefi/efiutils/*file.c`), **secure boot and TPM** (`mboot/secure.c`,
   `uefi/efiutils/tpm*.c`, `tcg2.c`), **runtime watchdog**, **option parsing**
   (`bootlib/parse.c`), **COM32 layer** (`bios/com32`), **FAT reader**
   (`libfat`), **binary patching** (`libbp`), **GUI and serial**, **C library**,
   the other UEFI applications, and vendored code. `PROJECT.json` lists each
   with what is, or is not, modelled and why.

esx-boot has one thread. Its hard behaviour is not interleaving but *order*
(what was decided about a table that is then changed), *persistence* (what a
power failure leaves on disk), *re-entry* (safeboot's second scan) and
*arithmetic* at the top of memory. The hazards are listed one by one, at their
lines, in `PROJECT.json`.

### Properties each core is about

See section 3.

## 2. Modules

### `AllocTable`, `Alloc`, `AllocSpec`

`AllocTable` holds the code of `alloc.c` as operators on a table, a sequence of
`[base, len]`; all arithmetic is modulo `AddrLimit` (2^64 in the program). Loops
that stop at the first index satisfying a condition are `Least` of a set of
indices: `InsertionPoint` and `MergeLimit` are the two loops of `alloc_add`,
`Stops` that of `find_free_mem`, with the tests that break out of it in
`GivesUp`. `alloc_sanity_check` loops for ever on a table it rejects; an
allocation that fails on such a table has the status `HANG`.

`Alloc` is the state machine: `Blacklist`, `AllocFixed`, `AllocAny` are the three
entry points of `bootlib.h`, each the whole call. Inputs are all ranges that do
not wrap. Two assumptions on the callers are guards: something has been
blacklisted before the first allocation (`system_blacklist_memory` runs first;
the code loops for ever on an empty table, and finds no memory in one), and the
last free address is never taken (`LeavesSome`; a table covering all 2^64
addresses would need a length of 2^64).

`AllocSpec` is what callers rely on: a set of `taken` addresses that only grows,
grants of addresses nobody holds. `Alloc` implements it with
`taken <- TableBytes(allocs)` (`KeepsPromise`).

### `RelocResolve`

The variables are those of `reloc_resolve`, of `break_reloc_deadlock` and of
`do_reloc`, and memory itself: each address holds a token naming the address its
content came from, so that losing or duplicating a byte is visible. One action
is one iteration of a loop of the code:

| Action | Code |
|---|---|
| `ScanResolves`, `ScanSkips` | one iteration of the inner loop of `reloc_resolve` |
| `PassEnds` | the end of a pass that resolved something |
| `Deadlock` | the first half of `break_reloc_deadlock` |
| `Walk` | one iteration of its do-while loop |
| `Move`, `NoSafeMemory` | `alloc` and `memcpy`, or the error return |
| `do_reloc` | one byte moved or zeroed by the trampoline |
| `NextEntry` | the outer loop of `do_reloc` |

Safe memory is given out lowest address first, as `find_free_mem` does. The
table the algorithm starts from satisfies `Layout`: what `reloc_sanity_check`
checks, and what `compute_relocations` has established by then (destinations
are apart, sources and destinations are outside safe memory). That it does
establish this is an assumption here (`RelocInput`); `Layout` checks it as
`HandsOverLayout`.

### `E820`, `Layout`

`E820` has the functions of `e820.c` over a map, a sequence of
`[base, len, type]`; of the types the program tells apart by what it does with
them, three are kept. A stable sort is the order of indices it ends with
(`bubble_sort`). The two loops of `e820_mmap_merge` cut the sorted map into runs
in which each entry merges with the next (`Joins`, `Heads`, `LastJoined`), and
leave one entry for each, ending where the last entry of the run ends
(`MergedEntry`). `e820_to_blacklist` gives the sequence of requests it makes
(`E820Requests`; a request that the code does not make is one for nothing,
`When`), and `system_blacklist_memory` puts the low megabyte and the firmware's
tables before them.

`Layout` is the way from `ExitBootServices` to the jump, on the allocator's
table. One action per function that `main` calls: `firmware_shutdown` sorts,
merges and blacklists the map; `boot_register` fills `relocs[]` with the
kernel's segments and all other objects, and places fixed ones; `AddLow`,
`PlaceInfo`, `PlaceLow` and `PlaceModules` are the parts of
`compute_relocations`, each of them `set_runtime_addr` with its three attempts
(`AtPreferred`, `OrAnywhere`, `OrSeparately`); `blacklist_bootloader_mem` draws
the line after which what is allocated is safe memory (the boot loader's own
memory, the sources of all objects and the font's glyphs are taken first), whose
uses the history variable `safe` collects (`relocate_runtime_services`, `Move` in
`reloc_resolve`, `install_trampoline`, `relocate_page_tables2`). A function that
fails leads to `panic`, an allocator that does not return to `hang`. Only what
`reloc_resolve` takes from memory is repeated here (`Move`), its order is in
`RelocResolve`. `reloc_sanity_check` runs three times in the code; nothing it looks
at changes between the second and the third, and `Resolved` stands for both. The
range that a Skylake must not use is one of `firmware_tables`.
Two assumptions on the constants say what may be loaded
(`WhatIsLoaded`: segments of the kernel that do not overlap, objects that lie in
memory, alignments that are powers of two) and how big the trampoline is
(`Trampoline`); `Small` says that a full table of the biggest objects fits in the
address space, so that the sums of `set_runtime_addr` do not wrap.

### `LogBuffer`, `ExitBoot`

`LogBuffer` keeps sizes, not texts. `Log` is one action: `Keep` when the message
and the overflow text after it fit, maybe after n expansions by a page, `Drop`
otherwise; an expansion fails when the firmware has no memory, at any moment.
A run begins without a buffer or with the one an earlier program left
(`Inherited`), of any number of pages, which may have overflowed already. After
`log_init` there may still be none: no console could be subscribed, or there was
no memory for its first page.
`buf = "freed"` is the state after `efi_realloc` freed the old buffer and found
no new one: the code goes on using the old pointer.

`ExitBoot` has an action for each step of `efi_get_memory_map` between which the
map may change (`Query`, `First`, `Second`), whether it is read to be shown
(`log_memory_map`, where a failure is no error), for the estimate
of `esxbootinfo_init`, for `allocate_page_tables` or for `ExitBootServices`.
`exit_boot_services` may also fail before it reads anything, when the firmware's
page tables are not fit for use (`NotSanitized`).
Buffers are addresses of a heap `pool`; freeing what is not there sets `fault`.
`keyFresh` says whether `MapKey` is still the firmware's. Every allocation makes
it stale, and so does `Change`, the firmware's own doing, at most `MaxChanges`
times. `ExitBootServices` with a stale key is `Refused`.

### `PageTables`, `RuntimeServices`

Operators only. In `PageTables` memory is a function from pages to tables;
`traverse_page_tables_rec` is the recursive walk, which copies tables in the
order of their pages, skips aliases and garbage, gives the page of an empty
table to the next one, and clears write protection of RAM. `Walk` is the
processor's, and `Wanted` what the copy should show it. In `RuntimeServices` each
policy is a function from the ranges to their offsets; `VirtualMap` is what the
first policy that is `Allowed` and `Supported` makes of them. `Allowed` is the
test of the code, which looks at a policy's quirks only when quirks are
disabled.

### `Mboot`

`pc` follows `main`. `clean`, `LoadFailed` and `EstimateFailed` are errors:
they end in `returned` after `CleanUp`, or in `hung` where the code waits for
ever (what the firmware answers when it is asked to uninstall an ACPI table is
ignored, `acpi.c:28`, so that `installed` is the tables it has not been asked
about; a failure of `mboot_init` after the serial port or of `dump_firmware_info`
is the error at `dump`); after `firmware_shutdown` every error is `Unrecoverable` and panics.
`file_load` to `RecordModule` are `load_module`, with its two ways to own the
module's memory and the ways to lose it. `QuietFirmware`, `CloseLog`,
`firmware_shutdown` are lines 665 to 682 of `mboot.c`, in their order. A
`Message` may come between any two steps, except where the code between two
steps does not log: from `get_memory_map` to the answer of `ExitBootServices`.
When the log must grow, a message also changes the memory map. `misuse` is a
history variable: a message went to the firmware's console, or took memory, once
`exit_boot_services` had begun, whether or not `ExitBootServices` had been tried
by then.

### `Safeboot`

One power-on of the machine after the other. `PowerOn`, `ScanFails`,
`ScanCannotUpdate`, `ScanFinds`, `ScanEnds` are `get_boot_bank` volume by
volume, so that power may fail (`PowerFails`) between one overwriting of a
`/boot.cfg` and the next; `NothingToBoot`, `RollbackRefused`,
`RollbackConfirmed`, `Chainload`, `ChainloadFails` are its end and `main`;
`RequestRollback` is SHIFT+R in mboot, which returns to the same process on UEFI
(`banks[]` keeps the entries of the first scan) and starts a new one on BIOS.
The kernel and the upgrade tools (`StartKernel`, `MarkValid`, `Upgrade`) are
external, modelled from the states described at the top of `bootbank.c`.

A bank is reduced to its `bootstate` (including a malformed one and none), its
update counter (0 for a bad counter or build number), `quickboot`, and whether
its hypervisor comes up. `tries` counts boots of an upgraded bank; it is there
for the properties only, and so is `bank` outside the step that sets it.

## 3. Runs

| Run | Instance | Shows |
|---|---|---|
| `alloc` | 8 addresses, pages of 2, 32-bit limit at 5, 3 table entries | `TypeOK`; `TableSane` (sorted, apart, non-empty); `NeverHangs`; `KeepsPromise` (refinement of `AllocSpec`); `LowestSuitable` (the search gives up only if nothing fits) |
| `reloc` | all 61164 tables of 3 objects of 1 or 2 bytes in addresses 1..6, NULL sources and self-overlap included, 2 bytes of safe memory | `TypeOK`, `OrderSafe`, `Delivered`, `NoInternalError`, `Terminates` |
| `reloc_distinct` | all 2160 tables of 3 objects of sizes 1, 2, 3 in 1..6, 6 bytes of safe memory | `BreaksCycle`, `Resolves` |
| `reloc_tie` | as `reloc` | `BreaksCycle` **violated** |
| `safeboot` | UEFI, 4 volumes, 3 banks at most, update counters to 3, 2 incidents | `TypeOK`, `TriedOnce`, `BootsEligible`, `BootsLatest`, `KeepsOne`, `Recovers` |
| `safeboot_io` | BIOS, 3 volumes, read and write errors among the 2 incidents, banks without `bootstate` | `KeepsOne`, `Recovers` |
| `safeboot_stale` | UEFI, 3 volumes, read errors | `KeepsOne` **violated** |
| `safeboot_kill` | UEFI, 3 volumes, 1 incident | `KillsCurrent` **violated** |
| `layout` | 16 pages of 4 bytes, "4GB" at 40, six memory maps (out of order, split, with holes, up to the top, scarce, overlapping), four kernels, nine sets of objects, glyphs in memory or not | `TypeOK`, `DestinationsSafe`, `MemoryNotLost`, `HandsOverLayout`, `SafeStaysSafe`, `InfoBelow4GB`, `DestinationsAligned`, `TableNotOverrun`, `NeverHangs` |
| `layout_empty` | as `layout`, a map with one empty range | `BlacklistsTheRest` **violated** |
| `mboot` | 2 modules, 1 ACPI table, 4 buffers for maps, 1 change of the map, log pages of 4 with messages of 3 and at most 10 bytes, no log or one of one or two pages to begin with, five trees of page tables of 3 levels with 2 entries, four sets of runtime ranges | `TypeOK`, `LostIsMarked`, `OverflowIsLast`, `MapsOwned`, `MapIsCurrent`, `FirmwareDiscipline`, `CleanReturn`, `KernelLog`, `TablesFaithful`, `RtsSound`, `Ends` |
| `mboot_leak` | as `mboot` | `ModulesFreed` **violated** |

**Why the bounds are enough.** *alloc*: 8 addresses and 3 entries are the least
with a merge of three neighbours, a full table, a hole too small after
alignment, a range ending at the top of memory, and the 32-bit limit in the
middle of a hole; any sequence of calls is covered, because a table is a finite
object and its graph is explored completely. *reloc*: a cycle of two with a
third object leading into it, or hanging off it, needs three objects; two bytes
are enough to overlap partially on either side. *safeboot*: three banks are the
most the code allows (`BOOTBANKS_NR`), the fourth volume is a gap; two incidents
let a power failure hit a scan that follows a key press or another failure;
counters to 3 allow two upgrades after installation; a bank without `bootstate`
is booted as valid, against the documentation of the states (`bootbank.c:40`),
and `safeboot_io` has such banks. *layout*: each map is the least with the feature it is named for; the kernel has to move out of the way of
the loader, of reserved memory or of nothing; the table `relocs[]` is full in the
largest case. *mboot*: two modules are a kernel and another; four buffers are one
more than can be owned at a time; one change of the map reaches every step of
every reading, and any more only repeat a retry from the state it began in; two
pages of messages let the log overflow before, at and after its last expansion,
which is less than a page (2) and fits within `MaxLog` (10);
the trees have large and small pages, read-only tables, an empty table before
and after a full one, aliases and a table outside RAM at each level; the ranges
make each policy the one that is chosen (the kernels of this code never ask for
"simple generic").

**Fairness.** `RelocResolve` is one sequential program: weak fairness of its
next step. In `Safeboot`, weak fairness of `Boot` says that a machine that is
off or stuck is started again and that the loader, once started, runs on;
strong fairness of `MarkValid` says that the tools, which run on every healthy
boot, confirm an upgrade sooner or later although any boot may be cut short.
Incidents are finite (`MaxIncidents`). `Recovers` needs all three; it says that
as long as one installed hypervisor works, no upgrade, good or bad, and no
finite number of incidents keeps the machine down.

In `Mboot`, weak fairness of `Step`: one sequential program runs on, whatever is
logged and whatever the firmware does. It includes the end of the countdown of
`gui_edit_kernel_options`, which a key starts again: a user stops pressing keys.
`Ends` also needs that the firmware changes its map by itself only finitely
often, which `MaxChanges` states; `ExitBootServices` is retried without a limit.

**Deadlock.** `RelocResolve` stops when the trampoline is done or an error was
returned; `Alloc` when no call is left that leaves an address free, or after a
hang; `Layout` at the jump, after a panic or a hang; `Mboot` at the jump, or when it
has returned or stopped on purpose. Their configurations say
`CHECK_DEADLOCK FALSE`. `Safeboot` never stops, and is checked for deadlock.

### What the violated runs show

* `reloc_tie`: `break_reloc_deadlock` walks from the biggest entry, and lets it
  be the choice unless a *strictly* smaller entry is visited twice. If all
  entries on the cycle have the size of the starting entry, and the starting
  entry is not on the cycle, the starting entry is moved. The cycle stays; the
  next pass finds the same deadlock and moves the same entry again until safe
  memory is gone (`Terminates` holds only because memory is finite). The entry
  moved may even have a NULL source. Modules are of various sizes, so ties among
  the largest objects are rare, which is why this survives testing.
* `safeboot_stale`: a transient read error in the second scan after SHIFT+R
  leaves a stale valid entry in `banks[]`, which passes for an alternate
  hypervisor.
* `safeboot_kill`: pressing SHIFT+R while the freshly upgraded bank loads costs
  two banks when three are installed.
* `layout_empty`: one empty range in the memory map makes `e820_to_blacklist`
  look at that range for all the rest of its turns, so that reserved memory after
  it can be allocated.
* `mboot_leak`: `extract_cksum_module` is to free the buffer it is given
  (`load.c:341`), and does not when its header is malformed (`load.c:360`); a
  measurement that fails forgets the module as well (`load.c:472`). `CleanReturn`
  says what does hold: this one buffer is all that is left behind.

## 4. Proofs

`AllocProofs` proves, for every size of the address space, of a page and of the
table, and every set of alignments smaller than the address space (assumptions
`AddressSpace` and `Requests`):

* `AllocTypes`: `Spec => []TypeOK`;
* `TableStaysSane`: `Spec => []TableSane`;
* `AlwaysReturns`: `Spec => []NeverHangs`;
* `Implements`: `Spec => KeepsPromise`, that is, the table, the mergings and the
  search with all their modular arithmetic implement the set of taken addresses
  of `AllocSpec`;
* `TakesLowest`: `Spec => LowestSuitable`, the converse of a promise kept by
  refusing everything: the search gives up only if there is nothing to give.

The three state predicates together are inductive. The argument is one lemma per
function of `alloc.c` (`AllocTableProofs`): on ranges that do not wrap, the
predicates of `e820.c` say what their names promise, also for a range that ends
with the address space and has an `End` of 0 (`Ends`, `RangePredicates`); the
loops of `alloc_add` split the table into what ends before the new range, what
merges with it and what begins after it (`Placement`); the merged range holds
exactly the bytes of what it replaces (`Merging`), and putting it in their place
keeps the table sane (`Splicing`, `Adding`); a failing call finds a table that
its sanity check accepts (`SanityHolds`); what `find_free_mem` returns is
aligned, free and inside the address space although it adds and rounds modulo
2^64 (`Rounding`, `FoundIsFree`), and is the lowest such address: a range that
fits lies in one hole (`FittingHole`), and `find_free_mem` tries the holes from
below and stops early only where every hole further up fails the same test
(`FoundIsLowest`); rounding out to pages covers the argument or
shows as an empty range (`Paging`). Each action of `Next` then either takes
exactly the bytes of one range or changes nothing. The proof leans on
`LeavesSome`, the guard that some address stays free: `Merging` is false without
it, as the merged length would be 2^64.

`RelocResolveProofs` proves, for every number and size of objects, every memory
and every set of safe addresses, and from the named assumption `RelocInput`
only:

* `TypeCorrect`: `Spec => []TypeOK`;
* `OrderIsSafe`: `Spec => []OrderSafe`, the rule the algorithm exists for;
* `WalkNeverStops`: `Spec => []NoInternalError`;
* `AllDelivered`: `Spec => []Delivered`, what the rule is for: at the end every
  object is at its destination, byte for byte;
* `CycleBroken`: `Spec => []BreaksCycle`, if no two objects of a table have the
  same size. `reloc_tie` shows that it is false with ties.

`OrderSafe` is not inductive by itself. The inductive invariant adds where each
loop stands (`LoopOK`) and that spans stay where they belong (`SpansOK`): a
source moved into safe memory is out of reach of all destinations, because
destinations are outside safe memory, so that changing it cannot break what was
decided for entries resolved before. A swap
preserves the order because both entries lie at or after the front, and the one
brought there was found without a dependency among all that come after. The
third theorem needs a second invariant: while the walk is on, every unresolved
entry has a dependency among the unresolved ones, which is what a pass that
resolved nothing has shown entry by entry.

`Delivered` does need that the entry moved has a source: to move one without
would set a source where zeroes are wanted. The walk can choose such an entry, by
a tie, and so `DInv` has two cases. Either memory is `Faithful`: each object is
represented by an entry that has moved the bytes it has moved, and still has all
others at its source (`StandsFor`); or the algorithm is `Stuck`: the unresolved
entries the walk can meet are a set `C` closed under "follow the first
dependency", none of it smaller than the biggest entry, and a set `L` of entries
that each lead on to one of higher rank or into `C`. From there the walk chooses
the biggest entry again and again, whose source is by now in safe memory; no
entry is ever resolved, and the table ends in `out_of_resources`, never in
`done`. `CycleBroken` needs the history of the walk (`WalkReaches`): what has
been visited leads to where the walk is, and what has been visited twice is on a
cycle.

`FirmwareProofs` is about the three modules that `Mboot` composes. Of `LogBuffer`
it proves, for every size of pages, of messages, of the overflow text and of the
last expansion (assumption `LogConstants`: that text is smaller than a page):

* `LogSound`: `LogSpec => [](LogTypeOK /\ LogRoom /\ LostIsMarked)`;
* `LogEnds`: `LogSpec => OverflowIsLast`.

`LostIsMarked` needs `LogRoom`: until the overflow text is written there is room
for it, which each message that is kept preserves; once it is written the offset
is the last byte of a buffer that does not grow, so that nothing fits again.

Of `ExitBoot` it proves `ExitSound`: `ExitSpec => [](ExitTypeOK /\ MapsOwned /\
MapIsCurrent)`, for every set of addresses and any number of changes
(`MapConstants`). The strengthening `Held` says which of the three pointers hold
a map at each step, and that a fresh key means a fresh map in `efi_info.mmap`.
The other direction is what fails if the refused map is not forgotten.

Of `RuntimeServices` it proves the lemma `VirtualMapUsable`: the map made by
whichever policy is chosen is usable, for every region of the kernel
(`RegionConstants`) and all ranges that do not overlap (`RangesOf`). It has a
lemma per policy. Two of them place each range after the one before it, by
recursion on the index: that such a function exists and ascends
(`RunningSum`, `Ascending`) is proved from a least index at which it would not.

`MbootProofs` proves of the whole run, for every number of modules, tables, sizes
and page tables (`MbootConstants`: there is a kernel, the firmware's buffers
for maps are not those of modules, and none is NULL; `RuntimeMaps`: the firmware's
runtime ranges do not overlap):

* `NoFirmwareAfterExit`: `Spec => []FirmwareDiscipline`;
* `LogHandedOver`: `Spec => []KernelLog`;
* `ReturnsClean`: `Spec => []CleanReturn`;
* `LogOfRun`: `Spec => LogSpec`, so that `RunMarksLosses`
  (`Spec => []LostIsMarked`) and `RunEndsLog` (`Spec => OverflowIsLast`) follow
  from what is proved of the log alone;
* `RunOwnsMaps`: `Spec => []MapsOwned`;
* `RunMapIsCurrent`: `Spec => []MapIsCurrent`;
* `RunTypes`: `Spec => []TypeOK`;
* `RunPlacesServices`: `Spec => []RtsSound`.

`Silence` says what each stretch of `main` may count on (no
shutdown before `firmware_shutdown`, no firmware console after `log_unsubscribe`, no
growth after `syslogbuf_expand_disable`); `Handed` which of the three sizes of
the log are equal where; `Mem` that the memory of modules loaded is what
`boot.modules[]` says, and that only the module being loaded owns any other. Most
steps are covered by three lemmas about steps that change little (`EarlyKeeps`,
`LateKeeps`, `MemKeeps`). The theorems are about the order of the calls: that
unsubscribing the firmware's console a step later, or closing the log after the
shutdown, would break them is what the mutants of these properties show.
`RunInv` adds the invariant of `ExitBoot` for the composition, where modules come
and go in the same heap and every message may take memory: `Pool` says that the
heap is the buffers of maps and those of modules, and that the two are apart.

`SafebootProofs` proves, for every number of volumes, incidents and upgrades, on
both platforms, `SafebootTypes` (also with I/O errors), and, assuming `Healthy`
(no read or write fails, every installed bank has a `bootstate`):

* `BootsOnce`: `Spec => []TriedOnce`;
* `BootsValid`: `Spec => []BootsEligible`;
* `BootsTheBest`: `Spec => []BootsLatest`;
* `RollbackKeepsOne`: `Spec => KeepsOne`.

The point is the second scan on UEFI, on a `banks[]` that still holds the first
one's entries. `Slotted` gives each entry's slot a meaning that does not depend
on the scan: the rank of its volume among the volumes that a scan will enter
(`Found`), and setting a state never changes which these are (`SetState`). So
an old entry is always written over or beyond the end, `Mirrored` says that
what has been scanned is in memory as on the disk, and the valid entries are
exactly the eligible banks (`ValidEligible`). With read errors `Found` is no
longer the same in both scans; `safeboot_stale` shows that the theorems then
fail.

`LayoutProofs` proves of the way from the firmware's memory map to the jump, for
every size of the address space, of a page and of the tables, on x86 or not, for
every kernel and all objects that `WhatIsLoaded` and `Trampoline` allow, and for
every map that is a `FirmwareMap` (the hypothesis `Machine` of each theorem):

* `LayoutTypes`: `Spec => []TypeOK`;
* `SentToRam`: `Spec => []DestinationsSafe`;
* `SentAligned`: `Spec => []DestinationsAligned`;
* `LayoutIsSound`: `Spec => []HandsOverLayout`, which is what `RelocResolve`
  assumes;
* `SafeMemory`: `Spec => []SafeStaysSafe`;
* `TableHasRoom`: `Spec => []TableNotOverrun`;
* `NoHang`: `Spec => []NeverHangs`;
* `MemoryKept`: `Spec => []MemoryNotLost`;
* `SystemInfoLow`: `Spec => []InfoBelow4GB`, for a `LowMachine`.

A `FirmwareMap` may be out of order, split in any way, with holes, and its
entries of one type may overlap. It has no empty entry (`layout_empty` shows
why), no memory of two types at once (the unsigned difference of the hole before
an entry then wraps), something above the first page, nothing in the last page
of the address space, and, where no low megabyte is kept back, nothing usable at
address 0, which the code takes for "none". An `ASSUME` of `MCLayout` has TLC
evaluate that five of the six maps of `layout` are such maps; the sixth reaches
the top of the address space, and stays with TLC. A `LowMachine` moreover has no
RAM in the last page below 4GB (`StartPage`), where an x86 fetches its first
instruction, and loads a kernel that begins below 4GB when it has no choice, and
system information that is aligned to no more than a page; a second `ASSUME`
evaluates this for the same maps and everything loaded.

The inductive invariant `IInv` is about sets of bytes: `TableBytes(allocs)`, what
the allocator will not give out. `OnTheWay` has what each stretch of the code may
count on. From `firmware_shutdown` on the table holds all that is not RAM, and
the first and the last address (`Guarded`): a table that is not empty, that
`alloc_sanity_check` accepts, and that never gives out address 0. While
destinations are given out, the objects of the types in `PlacedTypes` have one,
in RAM, apart from all others, and inside the table, so that nothing that is
allocated later touches it. From `blacklist_bootloader_mem` on the table also
holds every source and everything that is not "available" (`AllHeld`), so that
what is taken from then on is safe. `Anyhow` is what is left when the road ends
in `panic`. The argument has one part per function:

* *the map*: a stable sort is a permutation (`Climbing`, `Ranking`,
  `MapSorting`); the runs of `e820_mmap_merge` cover exactly what their entries
  cover, or less when a range lies inside another one (`Running`, `MapMerging`);
* *blacklisting*: after all requests, rounded out to pages, what is free is
  RAM (`Blacklisting`, `MapRequests`, `ShuttingDown`);
* *set_runtime_addr*: padding computed from 0 is the padding at an address that
  the largest alignment divides, since powers of two divide each other
  (`Stacking`, `StackShifted`), so that a group placed in one piece stays inside
  what was allocated (`PlacingInOnePiece`); objects placed separately are apart
  because each allocation is entered before the next (`OneByOne`,
  `PlacingApart`); `SettingAddresses` has all three attempts;
* *the kernel's segments*: file part and zeroed part of each, moved together, are
  apart and inside the image that was allocated (`Segments`, `SegmentParts`,
  `RawTable`), also after what is empty was left out (`FillingTheTable`), and
  after sorting by type (`Reordering`);
* one lemma per action (`ShutdownStep` to `InstallStep`), and `Stepping`.

An entry of the table holds each destination alone (`InTable` in
`HandsOverLayout`) because entries do not touch (`Contained`).

`MemoryKept` is the direction that safety alone does not give: `IInv` would hold
of a loader that blacklists everything. Blacklisting adds no byte but those of
the pages its requests touch (`OnlyAdds`, `Touched`); every request of
`e820_to_blacklist` is for something that is not RAM, because merging a map
without overlaps keeps every byte of it, with its type (`RunCovers`,
`MergingKeeps`, `Requested`); so that a page of RAM is touched only by the low
megabyte or by one of the firmware's tables (`Withheld`, `Accounted`,
`PagesOfRam`). The tables must not be empty (`Loadable`): `bootlib/system.c`
tests the length of the entry point before it reserves either range.

`SystemInfoLow` adds to `IInv` that whatever has been placed of the kernel, the
system information and the trampoline's region is below 4GB (`LowObjects`). The
address right after the kernel is preferred without any limit, so that the option
`ALLOC_32BIT` of the other two attempts is not enough. What makes it true is the
map: all destinations are RAM, none of it is in the last page below 4GB, hence
what is below 4GB ends a page before, rounding up to an alignment stays below,
and a range that begins below and does not contain the last page ends below
(`EndLow`, `BelowGap`, `StaysBelow`). `Arranged` says that the entry before the
trampoline's is system information, from the registration of at least one such
object (`KindsRegistered`) through the sort (`LastButOne`).

Proofs about "the first index" and about "the best bank" rest on `LeastIsLeast`
(`LeastProofs`): a nonempty set of naturals has a least member, from the
library's well-foundedness of `<`.

Only model-checked: `TablesFaithful` (about a recursive walk over page tables of
any depth, proved by induction over data), and safeboot with write errors.
Liveness (`Terminates`, `Resolves`, `Recovers`, `Ends`) stays with TLC.

## 5. Plan

Done: the allocator, the relocations, safeboot, the memory map and the
destinations for every machine, the run of mboot with its log, its exit from boot services and its
page tables. Left, in order:

1. `TablesFaithful` for every depth of page tables.
2. `Layout` fails only when memory is short, from `TakesLowest`.
3. The loaders of `uefi/efiutils/*file.c`, the heap of `bios/com32/malloc.c`,
   the runtime watchdog.
4. Page tables that grow between the measurement and the copy.

## 6. Not modelled, and why

Text (parsing of `boot.cfg` and command lines) is reduced to what it decides.
Structures handed to the kernel, ELF headers, pixels and protocol calls are data
conversions or I/O with little control of their own. The access methods of files,
the FAT reader, the GUI and the COM32 layer are pure I/O or left in the plan;
secure boot and the TPM appear in `Mboot` as answers, not as calls. Vendored
libraries, which are most of the lines of the repository (the UEFI headers,
mbedtls, zlib, libfdt), are taken as they are. For that reason the share of all
lines that is mapped is small; of the loader's own logic the parts that decide
something over several steps are there.

In the modelled parts: objects whose *sources* overlap each other are allowed by
`RelocInput` but not enumerated in the runs (the loader never registers the same
bytes twice); instruction-cache maintenance in `do_reloc` is left out; a machine
with more than three boot banks is excluded by assumption, as in the code. The
bits of a page-table entry are reduced to presence, address, table or page, and
one bit for write access, which stands for execution too.

Some hazards have no property, because the code does not have it or the model
stops above it. They are listed with a note:

* On x86 (`Arm = FALSE`) `PG_CLEAN_TABLE_READONLY` does nothing, so that an
  entry for a table keeps the protection that the processor applies to all pages
  below; TLC finds `TablesFaithful` violated there. The run is about 64-bit Arm.
* The test of a policy's quirks in `runtime.c` is inverted with respect to its
  own description; `Allowed` is the code's.
* `efi_realloc` frees the old buffer when it finds no new one, and the log goes
  on in it (`buf = "freed"`). What is in that memory then is not modelled.
* The page tables are measured before the loader allocates, and are taken to
  stay as they are until they are copied.
* `log_init` looks at what `sys_malloc` returned only after it wrote through it,
  and leaves the buffer's description unset when the page is not available;
  `syslogbuf_expand_disable` stores through the pointer when there is none. The
  model has no log then.
* `va_is_usable_ram` stores through a null `in_memory_map` when it checks a table
  at or above `memtop`; the model takes such a table as outside RAM.
* The quirk that maps both addresses during `SetVirtualAddressMap` happens below
  the model, and so does what it does to the tables between the two copies: the
  clearing of garbage in the entries of the kernel's region (`runtime.c:139`) and
  the entries it adds there and removes again. No tree of the model has such
  entries.
