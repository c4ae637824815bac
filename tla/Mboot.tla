-------------------------------- MODULE Mboot --------------------------------
(***************************************************************************)
(* One run of mboot (mboot/mboot.c): from the command line to the jump     *)
(* into the trampoline.  Until the firmware is shut down an error cleans   *)
(* up and returns; afterwards there is nothing to return to.  The program  *)
(* logs at every step, through consoles and a buffer that may both need    *)
(* the firmware.                                                           *)
(***************************************************************************)
EXTENDS LogBuffer, ExitBoot, PageTables, RuntimeServices

CONSTANTS
  ModulesNr,    \* boot.modules_nr
  MaxAcpiTabs,  \* bound: the ACPI tables a configuration names
  Trees, Root,  \* the firmware's page tables, and the page of their root
  Copy1, Copy2, \* where AllocatePages and alloc place the copies
  RtMaps        \* the sequences of runtime ranges the firmware may have

VARIABLES
  pc,
  headless,     \* boot.headless
  secure_boot,  \* boot.efi_info.secure_boot
  acpitab_nr,   \* boot.acpitab_nr
  installed,    \* the ACPI tables we installed and have not asked to uninstall
  n,            \* load_boot_modules: the module to load
  addr,         \* load_module: its local variable
  modules,      \* boot.modules[].addr
  registered,   \* the size of the log's object, once boot_register saw it
  told,         \* the log's size in the information for the kernel
  tree,         \* the firmware's page tables
  pdbr,         \* the root of the tables in use
  pages,        \* page_table_pages
  rts,          \* what SetVirtualAddressMap was given
  misuse        \* history: the firmware was called after it had been shut down

bootVars == <<headless, secure_boot>>
acpiVars == <<acpitab_nr, installed>>
loadVars == <<n, addr, modules>>
ptVars == <<tree, pdbr, pages>>
handVars == <<registered, told, rts>>
runVars == <<bootVars, acpiVars, loadVars, ptVars, handVars>>
vars == <<pc, runVars, misuse, exitVars, logVars>>

ModuleIds == 1 .. ModulesNr
Buffers == {<<kind, i>> : kind \in {"file", "data"}, i \in ModuleIds}
EbInfo == {<<"eb_info", 0>>, <<"cmdlines", 0>>}

\* There is a kernel; mboot has two consoles of its own; the firmware's
\* addresses for different uses differ, and none is NULL.
ASSUME MbootConstants ==
  /\ ModulesNr \in Nat \ {0} /\ MaxAcpiTabs \in Nat
  /\ {"serial", "fbcon"} \subseteq Consoles
  /\ MapBuffers \cap (Buffers \cup EbInfo) = {}
  /\ NULL \notin Buffers \cup EbInfo

ASSUME RuntimeMaps == \A rt \in RtMaps : RangesOf(rt)

Init ==
  /\ pc = "mboot_init" /\ misuse = FALSE
  /\ headless \in BOOLEAN /\ secure_boot = FALSE
  /\ acpitab_nr = 0 /\ installed = {}
  /\ n = 1 /\ addr = NULL /\ modules = [i \in ModuleIds |-> NULL]
  /\ registered = 0 /\ told = 0 /\ rts = NoServices
  /\ tree = << >> /\ pdbr = Root /\ pages = 0
  /\ ExitInit /\ LogInit

Stopped == {"returned", "hung", "panic", "jump"}
-----------------------------------------------------------------------------
\* A slip: the first module, the kernel, is kept for another try.
UnloadOthers ==
  /\ Freeing({modules[i] : i \in ModuleIds \ {1}})
  /\ modules' = [i \in ModuleIds |-> IF i = 1 THEN modules[1] ELSE NULL]

unload_boot_modules ==
  /\ Freeing({modules[i] : i \in ModuleIds})
  /\ modules' = [i \in ModuleIds |-> NULL]

\* clean and what it calls: without a timeout for errors it waits for ever.  What
\* the firmware answers when it is asked to uninstall a table is ignored.
CleanUp ==
  /\ pc' = "returned"
  /\ installed' = {} /\ acpitab_nr' = 0
  /\ unload_boot_modules
  /\ UNCHANGED <<bootVars, n, addr, ptVars, handVars, mapVars>>

Hang ==
  /\ pc' = "hung"
  /\ UNCHANGED <<runVars, mapVars, heapVars>>

\* Freeing gives memory back, which matters to nobody any more.
Fail ==
  /\ CleanUp \/ Hang
  /\ UNCHANGED <<misuse, logVars, phase, step, fwVars>>

\* An error at the points before the firmware is shut down.
Fallible == {"options", "dump", "config", "edit", "secure", "acpi", "file_load",
             "record", "verify", "eb_info"}

clean == pc \in Fallible /\ Fail

Goto(p, q) == pc = p /\ pc' = q
-----------------------------------------------------------------------------
\* mboot_init, tpm_init and gui_init.
mboot_init ==
  /\ Goto("mboot_init", "options")
  /\ log_init
  /\ UNCHANGED <<runVars, misuse, exitVars>>

serial_log_init ==
  /\ pc = "options" \/ pc = "edit"
  /\ log_subscribe("serial")
  /\ pc' = IF pc = "options" THEN "dump" ELSE "edit"
  /\ UNCHANGED <<runVars, misuse, exitVars, bufferVars>>

NoSerial ==
  /\ Goto("options", "dump")
  /\ UNCHANGED <<runVars, misuse, exitVars, logVars>>

\* dump_firmware_info, and log_memory_map for a debug boot, which ignores that
\* the map could not be read.
log_memory_map ==
  /\ Goto("dump", "show")
  /\ Show
  /\ UNCHANGED <<runVars, misuse, logVars>>

NoDebug ==
  /\ Goto("dump", "gui")
  /\ UNCHANGED <<runVars, misuse, exitVars, logVars>>

ShowRuns ==
  /\ pc = "show" /\ UNCHANGED pc
  /\ phase = "show" /\ (efi_get_memory_map \/ GiveUp \/ Estimated)
  /\ UNCHANGED <<runVars, misuse, logVars>>

Shown ==
  /\ Goto("show", "gui")
  /\ phase = "init"
  /\ UNCHANGED <<runVars, misuse, exitVars, logVars>>

video_set_mode ==
  /\ pc = "gui"
  /\ \/ ~headless /\ log_unsubscribe("firmware_print") /\ pc' = "fbcon"
     \/ UNCHANGED consoles /\ pc' = "headless"
  /\ UNCHANGED <<runVars, misuse, exitVars, bufferVars>>

gui_init_failed ==
  /\ pc \in {"fbcon", "headless"} /\ pc' = "config"
  /\ headless' = TRUE
  /\ UNCHANGED <<secure_boot, acpiVars, loadVars, ptVars, handVars>>
  /\ UNCHANGED <<misuse, exitVars, logVars>>

fbcon_init ==
  /\ Goto("fbcon", "config")
  /\ log_subscribe("fbcon")
  /\ UNCHANGED <<runVars, misuse, exitVars, bufferVars>>

parse_config ==
  /\ pc = "config" /\ pc' = IF headless THEN "secure" ELSE "edit"
  /\ acpitab_nr' \in 0 .. MaxAcpiTabs
  /\ UNCHANGED <<bootVars, installed, loadVars, ptVars, handVars>>
  /\ UNCHANGED <<misuse, exitVars, logVars>>

\* gui_edit_kernel_options; Shift+R ends it with ERR_ABORTED, and main cleans
\* up without waiting before it starts another program.
EditDone ==
  /\ Goto("edit", "secure")
  /\ UNCHANGED <<runVars, misuse, exitVars, logVars>>

chainload_parent ==
  /\ pc = "edit" /\ CleanUp
  /\ UNCHANGED <<misuse, logVars, phase, step, fwVars>>

fbcon_set_verbosity ==
  /\ Goto("edit", "edit")
  /\ log_subscribe("fbcon")
  /\ UNCHANGED <<runVars, misuse, exitVars, bufferVars>>

secure_boot_mode ==
  /\ Goto("secure", "acpi")
  /\ secure_boot' \in BOOLEAN
  /\ UNCHANGED <<headless, acpiVars, loadVars, ptVars, handVars>>
  /\ UNCHANGED <<misuse, exitVars, logVars>>
-----------------------------------------------------------------------------
\* install_acpi_tables; the memory of a table file is freed at once.
install_acpitab ==
  /\ pc = "acpi" /\ UNCHANGED pc
  /\ ~secure_boot /\ Cardinality(installed) < acpitab_nr
  /\ installed' = installed \cup {Cardinality(installed) + 1}
  /\ UNCHANGED <<bootVars, acpitab_nr, loadVars, ptVars, handVars>>
  /\ UNCHANGED <<misuse, exitVars, logVars>>

AcpiDone ==
  /\ Goto("acpi", "file_load")
  /\ Cardinality(installed) = acpitab_nr
  /\ UNCHANGED <<runVars, misuse, exitVars, logVars>>

\* load_module, from the file to the table of modules.
file_load ==
  /\ Goto("file_load", "extract")
  /\ addr' = <<"file", n>>
  /\ pool' = pool \cup {addr'} /\ UNCHANGED fault
  /\ UNCHANGED <<bootVars, acpiVars, n, modules, ptVars, handVars>>
  /\ UNCHANGED <<misuse, phase, step, mapVars, fwVars, logVars>>

\* An empty module has no memory.  A file that is not compressed is kept as it
\* is; one with a broken header is forgotten by the error path.
Extracted ==
  /\ Goto("extract", "check")
  /\ \/ addr' = NULL /\ Freeing({addr})
     \/ addr' = <<"data", n>> /\ Replacing(addr, addr')
     \/ UNCHANGED <<addr, heapVars>>
  /\ UNCHANGED <<bootVars, acpiVars, n, modules, ptVars, handVars>>
  /\ UNCHANGED <<misuse, phase, step, mapVars, fwVars, logVars>>

ExtractFailed ==
  /\ Goto("extract", "failed")
  /\ Freeing({addr}) \/ UNCHANGED heapVars
  /\ UNCHANGED <<runVars, misuse, phase, step, mapVars, fwVars, logVars>>

\* check_esxbootinfo_kernel and check_multiboot_kernel look at module 0; an
\* empty one is no kernel.
KernelInvalid ==
  /\ Goto("check", "failed")
  /\ n = 1 /\ Freeing({addr})
  /\ UNCHANGED <<runVars, misuse, phase, step, mapVars, fwVars, logVars>>

Checked ==
  /\ Goto("check", "record")
  /\ n = 1 => addr # NULL
  /\ UNCHANGED <<runVars, misuse, exitVars, logVars>>

LoadFailed == pc = "failed" /\ Fail

\* A slip: the loop goes once more.
PastLast(i) == i > ModulesNr

LastModule(i) == i = ModulesNr

\* tpm_extend_module may fail at "record"; otherwise the module is entered.
RecordModule ==
  /\ pc = "record"
  /\ pc' = IF LastModule(n) THEN "verify" ELSE "file_load"
  /\ modules' = [modules EXCEPT ![n] = addr]
  /\ n' = n + 1 /\ addr' = NULL
  /\ UNCHANGED <<bootVars, acpiVars, ptVars, handVars>>
  /\ UNCHANGED <<misuse, exitVars, logVars>>

\* secure_boot_check: without secure boot its result only matters to the log.
secure_boot_check ==
  /\ Goto("verify", "boot_init")
  /\ Estimate
  /\ UNCHANGED <<runVars, misuse, logVars>>
-----------------------------------------------------------------------------
\* esxbootinfo_init: the estimate, then the memory for the information.
EstimateRuns ==
  /\ pc = "boot_init" /\ UNCHANGED pc
  /\ phase = "estimate"
  /\ efi_get_memory_map \/ GiveUp
  /\ UNCHANGED <<runVars, misuse, logVars>>

EstimateDone ==
  /\ Goto("boot_init", "eb_info")
  /\ Estimated
  /\ UNCHANGED <<runVars, misuse, logVars>>

EstimateFailed == pc = "boot_init" /\ phase = "error" /\ Fail

esxbootinfo_init ==
  /\ pc = "eb_info"
  /\ pool' = pool \cup EbInfo /\ UNCHANGED fault
  /\ pc' = IF headless THEN "log_unsubscribe" ELSE "vbe"
  /\ UNCHANGED <<runVars, misuse, phase, step, mapVars, fwVars, logVars>>

\* A module's string that is too long leaves the memory behind.
NameTooLong ==
  /\ Goto("eb_info", "failed")
  /\ pool' = pool \cup EbInfo /\ UNCHANGED fault
  /\ UNCHANGED <<runVars, misuse, phase, step, mapVars, fwVars, logVars>>

\* esxbootinfo_init_vbe: text mode ends the framebuffer's console.
esxbootinfo_init_vbe ==
  /\ Goto("vbe", "log_unsubscribe")
  /\ log_unsubscribe("fbcon") \/ UNCHANGED consoles
  /\ UNCHANGED <<runVars, misuse, exitVars, bufferVars>>

\* A slip: only a console on the screen is thought to need the firmware.
KeepFirmwarePrint == log_unsubscribe("fbcon")

QuietConsole == log_unsubscribe("firmware_print")

QuietFirmware ==
  /\ Goto("log_unsubscribe", "expand_disable")
  /\ QuietConsole
  /\ UNCHANGED <<runVars, misuse, exitVars, bufferVars>>

\* A slip: the buffer grows one last time, and stays open.
GrowOnly(size) ==
  /\ UNCHANGED <<consoles, buf, offset, expand, lost, marked>>
  /\ bufferSize' = IF expand /\ bufferSize + size <= MaxLog
                     THEN bufferSize + size ELSE bufferSize

LastExpansion(size) == syslogbuf_expand_disable(size)

CloseLog ==
  /\ Goto("expand_disable", "shutdown")
  /\ \E size \in LastSizes : LastExpansion(size)
  /\ UNCHANGED <<runVars, misuse, exitVars>>

firmware_shutdown ==
  /\ Goto("shutdown", "exit")
  /\ Shutdown
  /\ UNCHANGED <<runVars, misuse, logVars>>
-----------------------------------------------------------------------------
page_table_pages(t) == Measure(t, Root)

\* What the three walks over the tables find and write, for each tree.
Copies ==
  {LET num == page_table_pages(t)
       first == relocate_page_tables(t, Root, Copy1, num)
   IN [tree |-> t, pages |-> num, first |-> first,
       second |-> relocate_page_tables(first, Copy1, Copy2, num)] : t \in Trees}

PageCounts == {c.pages : c \in Copies}

\* exit_boot_services, and its two parts that are about the page tables.
ExitRuns ==
  /\ pc = "exit" /\ UNCHANGED pc
  /\ efi_get_memory_map \/ GiveUp \/ get_memory_map \/ ExitBootServices
  /\ UNCHANGED <<runVars, misuse, logVars>>

MeasureTables ==
  /\ pc = "exit" /\ UNCHANGED pc
  /\ allocate_page_tables
  /\ \E c \in Copies : tree' = c.tree /\ pages' = c.pages
  /\ UNCHANGED <<bootVars, acpiVars, loadVars, pdbr, handVars>>
  /\ UNCHANGED <<misuse, logVars>>

ExitFailed ==
  /\ Goto("exit", "panic")
  /\ phase = "panic"
  /\ UNCHANGED <<runVars, misuse, exitVars, logVars>>

\* The copy is used from then on.
SwitchTables(from, to) ==
  /\ pdbr = from /\ pdbr' = to
  /\ UNCHANGED <<tree, pages>>

relocate_page_tables1 ==
  /\ Goto("exit", "boot_register")
  /\ phase = "left"
  /\ SwitchTables(Root, Copy1)
  /\ UNCHANGED <<bootVars, acpiVars, loadVars, handVars, misuse, exitVars, logVars>>

boot_register ==
  /\ Goto("boot_register", "compute_relocations")
  /\ registered' = bufferSize
  /\ UNCHANGED <<bootVars, acpiVars, loadVars, ptVars, told, rts>>
  /\ UNCHANGED <<misuse, exitVars, logVars>>

compute_relocations ==
  /\ Goto("compute_relocations", "boot_set_runtime_pointers")
  /\ UNCHANGED <<runVars, misuse, exitVars, logVars>>

boot_set_runtime_pointers ==
  /\ Goto("boot_set_runtime_pointers", "relocate_runtime_services")
  /\ told' = bufferSize
  /\ UNCHANGED <<bootVars, acpiVars, loadVars, ptVars, registered, rts>>
  /\ UNCHANGED <<misuse, exitVars, logVars>>

\* The maps SetVirtualAddressMap may be given, for every firmware and kernel.
VirtualMaps ==
  {VirtualMap(rt, no_quirks, quirks, caps) :
     rt \in RtMaps, no_quirks \in BOOLEAN, caps \in KernelCaps,
     quirks \in SUBSET {"UNKNOWN_MEM"}}

relocate_runtime_services ==
  /\ Goto("relocate_runtime_services", "install_trampoline")
  /\ \/ \E no_rts, no_quirks, old_and_new \in BOOLEAN,
           quirks \in SUBSET {"UNSUPPORTED", "OLD_AND_NEW"} :
          Declined(no_rts, no_quirks, quirks, old_and_new) /\ UNCHANGED rts
     \/ rts' \in VirtualMaps
  /\ UNCHANGED <<bootVars, acpiVars, loadVars, ptVars, registered, told>>
  /\ UNCHANGED <<misuse, exitVars, logVars>>

\* install_trampoline, whose last step is relocate_page_tables2.
install_trampoline ==
  /\ Goto("install_trampoline", "jump")
  /\ SwitchTables(Copy1, Copy2)
  /\ UNCHANGED <<bootVars, acpiVars, loadVars, handVars, misuse, exitVars, logVars>>

\* main panics when one of the steps after the shutdown fails.
Unrecoverable ==
  /\ pc \in {"boot_register", "compute_relocations", "boot_set_runtime_pointers",
             "relocate_runtime_services", "install_trampoline"}
  /\ pc' = "panic"
  /\ UNCHANGED <<runVars, misuse, exitVars, logVars>>
-----------------------------------------------------------------------------
ShuttingDown == phase \in {"tables", "exit", "left", "panic"}

\* A message, at any moment but between get_memory_map and ExitBootServices.
Grows(size) == buf # "none" /\ expand /\ ~Fits(size, 0)

Message(size) ==
  /\ pc \notin {"mboot_init", "returned", "hung"}
  /\ step \in {"none", "query"} /\ Buffer = NULL
  /\ Log(size)
  /\ misuse' = \/ misuse
               \/ ShuttingDown /\ ("firmware_print" \in consoles \/ Grows(size))
  /\ IF Grows(size) THEN MapChanges ELSE UNCHANGED <<keyFresh, mapFresh>>
  /\ UNCHANGED <<pc, runVars, phase, step, mapVars, heapVars, grown, changes>>

\* The firmware changes its map by itself.
FirmwareChange == Change /\ UNCHANGED <<pc, runVars, misuse, logVars>>

Loading ==
  \/ file_load \/ Extracted \/ ExtractFailed \/ KernelInvalid \/ Checked
  \/ LoadFailed \/ RecordModule

Starting ==
  \/ mboot_init \/ (pc = "options" /\ serial_log_init) \/ NoSerial
  \/ log_memory_map \/ NoDebug \/ ShowRuns \/ Shown
  \/ video_set_mode \/ gui_init_failed \/ fbcon_init
  \/ parse_config \/ EditDone \/ chainload_parent \/ secure_boot_mode
  \/ install_acpitab \/ AcpiDone \/ Loading \/ secure_boot_check \/ clean

Ending ==
  \/ EstimateRuns \/ EstimateDone \/ EstimateFailed
  \/ esxbootinfo_init \/ NameTooLong \/ esxbootinfo_init_vbe
  \/ QuietFirmware \/ CloseLog \/ firmware_shutdown
  \/ ExitRuns \/ MeasureTables \/ ExitFailed
  \/ relocate_page_tables1 \/ boot_register \/ compute_relocations
  \/ boot_set_runtime_pointers \/ relocate_runtime_services
  \/ install_trampoline \/ Unrecoverable

Step == Starting \/ Ending

Next ==
  \/ Step \/ FirmwareChange
  \/ pc = "edit" /\ (serial_log_init \/ fbcon_set_verbosity)
  \/ \E size \in MsgSizes : Message(size)

\* mboot's own steps follow each other; a user may do nothing.
Spec == Init /\ [][Next]_vars /\ WF_vars(Step)
-----------------------------------------------------------------------------
\* Every variable has its type (the log's and the firmware's in their modules).
TypeOK ==
  /\ LogTypeOK /\ ExitTypeOK
  /\ headless \in BOOLEAN /\ secure_boot \in BOOLEAN /\ misuse \in BOOLEAN
  /\ acpitab_nr \in 0 .. MaxAcpiTabs /\ installed \subseteq 1 .. MaxAcpiTabs
  /\ n \in 1 .. ModulesNr + 1
  /\ addr \in Buffers \cup {NULL}
  /\ modules \in [ModuleIds -> Buffers \cup {NULL}]
  /\ registered \in Nat /\ told \in Nat
  /\ pages \in {0} \cup PageCounts /\ pdbr \in {Root, Copy1, Copy2}

\* mboot.c:666 and log.c:262: from the moment main begins to shut the firmware
\* down, before any attempt at ExitBootServices, no message, whenever it comes,
\* is printed by the firmware or makes the log's buffer ask it for memory.
FirmwareDiscipline == ~misuse

\* clean: a program that returns has asked for every ACPI table it installed to
\* be uninstalled and has unloaded every module, wherever it failed.  At most the
\* one buffer load_module held at that moment is still allocated, never the file
\* beside what was extracted from it.
CleanReturn ==
  pc = "returned" =>
    /\ installed = {}
    /\ \A i \in ModuleIds : modules[i] = NULL
    /\ pool \cap Buffers \subseteq {addr}

\* mboot.c:80 and load.c:341, which the code does not keep (load.c:360, load.c:472):
\* clean "cleans up everything", so that no module's memory outlives a return.
ModulesFreed == pc = "returned" => pool \cap Buffers = {}

\* boot_register and boot_set_runtime_pointers: the size of the log that is
\* moved, the one the kernel is told, and the buffer's are the same, though
\* every step in between logs.
KernelLog ==
  /\ registered # 0 => registered = bufferSize
  /\ told # 0 => told = registered

Faithful1 ==
  {c.tree : c \in {c \in Copies : Faithful(c.tree, Root, c.first, Copy1, c.pages)}}

Faithful2 ==
  {c.tree : c \in {c \in Copies : Faithful(c.tree, Root, c.second, Copy2, c.pages)}}

\* relocate_page_tables1 and 2: the machine runs on tables that lie in the
\* copy's own pages, map what the firmware mapped to itself, and deny writing
\* to no page of RAM - also the second time, when a copy is copied.
TablesFaithful ==
  /\ pdbr = Copy1 => tree \in Faithful1
  /\ pdbr = Copy2 => tree \in Faithful2

\* relocate_runtime_services: whatever policy was chosen, the ranges of the
\* firmware do not collide in the kernel's region, do not leave it, and are
\* where an older kernel and relative addresses in them expect them.
RtsSound == RtsUsable(rts)

\* exit_boot_services does not retry for ever, and no other error keeps main
\* from ending: it jumps, returns, or stops on purpose.
Ends == <>(pc \in Stopped)
=============================================================================
